----------------------------- MODULE Conversation -----------------------------
(***************************************************************************)
(* One chat and its session file. pi streams events and appends entries;   *)
(* the chat driver feeds the events to the mapper of the run and the       *)
(* mapper's actions to the chat; the file is rebuilt when the host         *)
(* hydrates the session, pages older turns in or truncates. Every          *)
(* conversation therefore has two accounts, the streamed one and the one   *)
(* rebuilt from disk, and the code means them to agree.                    *)
(*                                                                         *)
(* pi itself is external: its steps emit the events and entries the        *)
(* recorded fixtures show, in their order.                                 *)
(***************************************************************************)
EXTENDS TurnMapper, FiniteSets

CONSTANTS
  OldFiles,       \* what the session file may hold when the host opens it
  MaxMessages,    \* prompts and steering messages
  MaxEntries,     \* entries appended to the file
  MaxBlocks,      \* content blocks pi streams in all
  MaxChunks,      \* streamed deltas of one block
  MaxReads,       \* how often the file is read back: pages, truncations, restarts
  EarlySteering   \* pi delivers a message before the run's first assistant message

ASSUME BoundsAssumption ==
  /\ {MaxMessages, MaxEntries, MaxBlocks, MaxChunks, MaxReads} \subseteq Nat
  /\ EarlySteering \in BOOLEAN

VARIABLES
  branch,       \* the session file, root to leaf
  nextId,       \* id of the next entry
  pi,           \* where pi is in its run
  steering,     \* messages pi has queued
  messages,     \* user messages so far
  chat,         \* the chat channel's state
  mapper,       \* the current run's mapper
  persisted,    \* #persistedInputTurns
  cancelled,    \* the cancelled turn whose cleanup has not settled
  turnAnchors,  \* anchors this process recorded
  cut,          \* history: messages whose turn was not ended by pi alone
  reads

vars == <<branch, nextId, pi, steering, messages, chat, mapper, persisted, cancelled,
          turnAnchors, cut, reads>>

NoCall == 0
Resting == [phase |-> "idle", fresh |-> TRUE, blocks |-> <<>>, error |-> "", tools |-> <<>>,
            aborting |-> FALSE]
NoCancel == [turn |-> <<>>, anchored |-> FALSE]

(* Entries already there have ids up to FirstId - 1. *)
FirstId == Max({Len(f) : f \in OldFiles}) + 1
LastId  == FirstId + MaxEntries - 1

Hydrated(file) ==
  LET w == InitialTurnsWindow(RebuildTurns(file))
  IN  [turns |-> w.turns, cursor |-> w.cursor, active |-> NoTurn, activity |-> "none"]

Init ==
  /\ branch \in OldFiles
  /\ nextId = FirstId
  /\ pi = Resting /\ steering = <<>> /\ messages = 0
  /\ chat = Hydrated(branch)
  /\ mapper = NoMapper /\ persisted = {} /\ cancelled = NoCancel /\ turnAnchors = <<>>
  /\ cut = {} /\ reads = 0

-----------------------------------------------------------------------------
(* The driver's event listener. The leaf is still the entry before the     *)
(* event's own: pi appends after it has notified.                          *)

LeafIsAnchor == branch # <<>> /\ Last(branch).kind # "user"

Record(turn) ==
  IF LeafIsAnchor THEN turnAnchors' = (turn :> Last(branch).id) @@ turnAnchors
  ELSE UNCHANGED turnAnchors

RecordIfPersisted(turns) ==
  IF turns \intersect persisted # {} THEN Record(CHOOSE t \in turns \intersect persisted : TRUE)
  ELSE UNCHANGED turnAnchors

EndedBy(actions) == {actions[i].turn : i \in {j \in DOMAIN actions : actions[j].type = "turnEnded"}}

HandleAll(events) ==
  LET One(step, e) == Then(step, LAMBDA m : Handle(m, e))
  IN  FoldLeft(One, Ignore(mapper), events)

(* readsInput: the events include the end of a user message. *)
OnAgentEvents(events, readsInput) ==
  LET step  == HandleAll(events)
      ended == EndedBy(step.out)
  IN  /\ mapper' = step.to
      /\ chat' = ReduceAll(chat, step.out)
      /\ RecordIfPersisted(ended)
      /\ persisted' = (persisted \ ended)
                        \union (IF readsInput /\ step.to.on THEN {step.to.turn} ELSE {})

Hear(e) == OnAgentEvents(<<e>>, FALSE)

Append1(e) ==
  /\ nextId <= LastId
  /\ branch' = Append(branch, e @@ [id |-> nextId])
  /\ nextId' = nextId + 1

At(phase) == pi.phase = phase
Goto(phase) == pi' = [pi EXCEPT !.phase = phase]

-----------------------------------------------------------------------------
(* Prompts, as the driver runs them.                                        *)

NextMessage == messages < MaxMessages /\ messages' = messages + 1

Prompt ==
  /\ At("idle") /\ cancelled = NoCancel
  /\ NextMessage
  /\ mapper' = NewMapper(<<messages + 1, 0>>)
  /\ chat' = Reduce(chat, [type |-> "turnStarted", turn |-> <<messages + 1, 0>>, text |-> messages + 1])
  /\ persisted' = {}
  /\ Goto("starting")
  /\ UNCHANGED <<branch, nextId, steering, cancelled, turnAnchors, cut, reads>>

(* prompt() settles, and with it the turn or the turn's cancellation. *)
Settle ==
  /\ \/ At("ended")
     \/ At("starting")
  /\ \E outcome \in {"", "error"} :
       LET step == Finish(mapper, outcome)
       IN  /\ At("starting") /\ ~pi.aborting => outcome = "error"
           /\ IF mapper.on
              THEN /\ mapper' = NoMapper
                   /\ chat' = ReduceAll(chat, step.out)
                   /\ RecordIfPersisted({mapper.turn})
                   /\ cut' = IF outcome = "error" THEN cut \union {chat.active.text} ELSE cut
              ELSE /\ IF cancelled.anchored THEN Record(cancelled.turn) ELSE UNCHANGED turnAnchors
                   /\ UNCHANGED <<mapper, chat, cut>>
  /\ persisted' = {} /\ cancelled' = NoCancel /\ pi' = Resting
  /\ steering' = IF EarlySteering THEN steering ELSE <<>>
  /\ UNCHANGED <<branch, nextId, messages, reads>>

(* A client cancels the turn: the reducer ends it, the driver drops the    *)
(* run and aborts pi, which finishes in its own time.                      *)
Cancel ==
  /\ mapper.on
  /\ chat' = ReduceAll(chat, <<[type |-> "turnEnded", turn |-> mapper.turn, state |-> "cancelled"],
                               [type |-> "activity", activity |-> "none"]>>)
  /\ cancelled' = [turn |-> mapper.turn, anchored |-> mapper.turn \in persisted]
  /\ mapper' = NoMapper /\ persisted' = {}
  /\ cut' = cut \union {chat.active.text}
  /\ pi' = [pi EXCEPT !.aborting = TRUE]
  /\ UNCHANGED <<branch, nextId, steering, messages, turnAnchors, reads>>

Steer ==
  /\ mapper.on /\ steering = <<>>
  /\ EarlySteering \/ ~pi.fresh
  /\ NextMessage
  /\ steering' = <<messages + 1>>
  /\ UNCHANGED <<branch, nextId, pi, chat, mapper, persisted, cancelled, turnAnchors, cut, reads>>

-----------------------------------------------------------------------------
(* External: pi's agent loop.                                               *)

Quiet == UNCHANGED <<steering, messages, cancelled, cut, reads>>

HasAssistant == \E i \in DOMAIN branch : branch[i].kind = "assistant"

Compact ==
  /\ At("starting") \/ At("ended")
  /\ HasAssistant /\ Last(branch).kind # "compaction" /\ ~pi.aborting
  /\ Hear([type |-> "compaction_end"])
  /\ Append1([kind |-> "compaction"])
  /\ UNCHANGED pi /\ Quiet

StartRun ==
  /\ At("starting") /\ ~pi.aborting
  /\ OnAgentEvents(<<[type |-> "agent_start"], [type |-> "user_start", text |-> mapper.root]>>, TRUE)
  /\ Append1([kind |-> "user", text |-> mapper.root])
  /\ Goto("ready") /\ Quiet

Inject ==
  /\ steering # <<>> /\ ~pi.aborting
  /\ At("gap") \/ (At("ready") /\ (EarlySteering \/ ~pi.fresh))
  /\ OnAgentEvents(<<[type |-> "user_start", text |-> steering[1]]>>, TRUE)
  /\ Append1([kind |-> "user", text |-> steering[1]])
  /\ steering' = <<>>
  /\ Goto("ready")
  /\ UNCHANGED <<messages, cancelled, cut, reads>>

StartAssistant ==
  /\ At("ready")
  /\ Hear([type |-> "assistant_start"])
  /\ pi' = [pi EXCEPT !.phase = "streaming", !.fresh = FALSE, !.blocks = <<>>, !.error = ""]
  /\ UNCHANGED <<branch, nextId>> /\ Quiet

Blocks == Len(pi.blocks)
Closed == \A i \in DOMAIN pi.blocks : pi.blocks[i].closed
(* A request that was aborted streams nothing more. *)
Streaming == At("streaming") /\ pi.error = "" /\ ~pi.aborting
WrittenBlocks ==
  LET Own(e) == e.kind = "assistant" /\ e.id >= FirstId
  IN  FoldLeft(LAMBDA n, e : n + IF Own(e) THEN Len(e.blocks) ELSE 0, 0, branch)
NewBlock(b) == WrittenBlocks + Blocks < MaxBlocks /\ Closed /\ pi' = [pi EXCEPT !.blocks = Append(@, b)]
LastBlock(b) == pi' = [pi EXCEPT !.blocks[Blocks] = b]
TextBlock(kind, chunks, closed) == [kind |-> kind, call |-> NoCall, chunks |-> chunks, closed |-> closed]
Unwritten == UNCHANGED <<branch, nextId>> /\ Quiet

OpenText(kind) ==
  /\ Streaming
  /\ NewBlock(TextBlock(kind, 1, FALSE))
  /\ Hear([type |-> "delta", kind |-> kind, index |-> Blocks + 1])
  /\ Unwritten

MoreText ==
  /\ Streaming /\ ~Closed
  /\ Last(pi.blocks).kind # "tool" /\ Last(pi.blocks).chunks < MaxChunks
  /\ LastBlock([Last(pi.blocks) EXCEPT !.chunks = @ + 1])
  /\ Hear([type |-> "delta", kind |-> Last(pi.blocks).kind, index |-> Blocks])
  /\ Unwritten

EndText ==
  /\ Streaming /\ ~Closed /\ Last(pi.blocks).kind # "tool"
  /\ LastBlock([Last(pi.blocks) EXCEPT !.closed = TRUE])
  /\ Hear([type |-> "block_end", kind |-> Last(pi.blocks).kind, index |-> Blocks,
           chunks |-> Last(pi.blocks).chunks])
  /\ Unwritten

(* A block the provider does not stream; it may also be empty. *)
WholeText(kind, chunks) ==
  /\ Streaming
  /\ NewBlock(TextBlock(kind, chunks, TRUE))
  /\ Hear([type |-> "block_end", kind |-> kind, index |-> Blocks + 1, chunks |-> chunks])
  /\ Unwritten

CallId == nextId * 10 + Blocks + 1

(* The provider may resolve the call's id only with the first delta. *)
OpenCall(resolved) ==
  /\ Streaming
  /\ LET call == IF resolved THEN CallId ELSE NoCall
     IN  /\ NewBlock([kind |-> "tool", call |-> call, chunks |-> 0, closed |-> FALSE])
         /\ Hear([type |-> "toolcall_start", index |-> Blocks + 1, call |-> call])
  /\ Unwritten

ResolveCall ==
  /\ Streaming /\ ~Closed
  /\ Last(pi.blocks).kind = "tool" /\ Last(pi.blocks).call = NoCall
  /\ LET call == nextId * 10 + Blocks
     IN  /\ LastBlock([Last(pi.blocks) EXCEPT !.call = call])
         /\ Hear([type |-> "toolcall_delta", index |-> Blocks, call |-> call])
  /\ Unwritten

EndCall ==
  /\ Streaming /\ ~Closed
  /\ Last(pi.blocks).kind = "tool" /\ Last(pi.blocks).call # NoCall
  /\ LastBlock([Last(pi.blocks) EXCEPT !.closed = TRUE])
  /\ Hear([type |-> "toolcall_end", index |-> Blocks, call |-> Last(pi.blocks).call])
  /\ Unwritten

(* A stream that fails within a block says so; between blocks only the end  *)
(* of the message tells.                                                    *)
StreamError(aborted) ==
  /\ At("streaming") /\ pi.error = "" /\ ~Closed
  /\ pi.aborting => aborted
  /\ pi' = [pi EXCEPT !.error = IF aborted THEN "aborted" ELSE "error"]
  /\ Hear([type |-> "stream_error", aborted |-> aborted])
  /\ Unwritten

(* What is stored of the message: a call whose id never came is not shown. *)
StoredBlocks ==
  [i \in DOMAIN pi.blocks |->
     LET b == pi.blocks[i]
     IN  IF b.kind = "tool" /\ b.call = NoCall THEN [kind |-> "markdown", call |-> NoCall, chunks |-> 0]
         ELSE [kind |-> b.kind, call |-> b.call, chunks |-> b.chunks]]

ReadyCalls == SelectSeq([i \in DOMAIN pi.blocks |-> pi.blocks[i].call], LAMBDA c : c # NoCall)

EndAssistant(stop) ==
  /\ At("streaming")
  /\ IF pi.error # "" THEN stop = pi.error ELSE Closed
  /\ pi.aborting => stop = "aborted"
  /\ stop = "toolUse" => ReadyCalls # <<>>
  /\ stop = "stop"    => ReadyCalls = <<>>
  /\ LET usage == IF stop = "error" THEN NoUsage ELSE nextId
     IN  /\ Hear([type |-> "assistant_end", stop |-> stop, usage |-> usage])
         /\ Append1([kind |-> "assistant", blocks |-> StoredBlocks, stop |-> stop, usage |-> usage])
  /\ pi' = [pi EXCEPT !.phase = CASE stop = "toolUse" -> "tools" [] stop = "stop" -> "gap" [] OTHER -> "ended",
                      !.blocks = <<>>, !.error = "",
                      !.tools = IF stop = "toolUse"
                                THEN [i \in DOMAIN ReadyCalls |-> [call |-> ReadyCalls[i], at |-> "todo"]]
                                ELSE <<>>]
  /\ Quiet

Tool(i, from, to) ==
  /\ At("tools") /\ pi.tools[i].at = from
  /\ pi' = [pi EXCEPT !.tools[i].at = to]

StartTool(i) ==
  /\ Tool(i, "todo", "running")
  /\ Hear([type |-> "tool_start", call |-> pi.tools[i].call])
  /\ Unwritten

EndTool(i, ok) ==
  /\ Tool(i, "running", IF ok THEN "ok" ELSE "failed")
  /\ Hear([type |-> "tool_end", call |-> pi.tools[i].call, ok |-> ok])
  /\ Unwritten

(* Results are stored in the order of the calls, once all have ended. *)
StoreResult ==
  /\ At("tools")
  /\ \A i \in DOMAIN pi.tools : pi.tools[i].at \in {"ok", "failed"}
  /\ Append1([kind |-> "toolResult", call |-> Head(pi.tools).call, ok |-> Head(pi.tools).at = "ok"])
  /\ pi' = [pi EXCEPT !.tools = Tail(@), !.phase = IF Len(pi.tools) = 1 THEN "ready" ELSE @]
  /\ UNCHANGED <<chat, mapper, persisted, turnAnchors>> /\ Quiet

EndRun ==
  /\ At("gap") /\ (steering = <<>> \/ pi.aborting)
  /\ Goto("ended")
  /\ UNCHANGED <<chat, mapper, persisted, turnAnchors>> /\ Unwritten

LastAssistant == SelectLastInSeq(branch, LAMBDA e : e.kind = "assistant")

(* A failed attempt is omitted from the model's context and run again. *)
Retry ==
  /\ At("ended") /\ ~pi.aborting
  /\ branch[LastAssistant].stop = "error"
  /\ ~ \E i \in DOMAIN branch : branch[i].kind = "edit"
  /\ Hear([type |-> "agent_start"])
  /\ Append1([kind |-> "edit", target |-> branch[LastAssistant].id])
  /\ Goto("ready") /\ Quiet

-----------------------------------------------------------------------------
(* The file read back.                                                      *)

NextRead == reads < MaxReads /\ reads' = reads + 1

FetchTurns ==
  /\ chat.cursor # NoCursor
  /\ NextRead
  /\ chat' = Reduce(chat, [type |-> "turnsLoaded", page |-> LoadOlderTurns(branch, chat.cursor)])
  /\ UNCHANGED <<branch, nextId, pi, steering, messages, mapper, persisted, cancelled, turnAnchors, cut>>

Loaded(turnId) == IndexOfTurn(chat.turns, turnId) # 0
InBranch(entry) == \E i \in DOMAIN branch : branch[i].id = entry

Truncate(turnId) ==
  LET anchor == TruncationAnchor(branch, turnAnchors, turnId)
      pages  == IF turnId = CLEAR_ALL \/ Loaded(turnId) THEN <<>>
                ELSE <<[type |-> "turnsLoaded", page |-> TargetPage(branch, chat.turns[1].id, turnId)]>>
  IN  /\ At("idle") /\ cancelled = NoCancel
      /\ chat.active = NoTurn
      /\ NextRead
      /\ anchor # NoEntry /\ InBranch(anchor)
      /\ \/ turnId = CLEAR_ALL
         \/ Loaded(turnId)
         \/ chat.cursor # NoCursor /\ chat.turns # <<>> /\ IsOlder(branch, chat.turns[1].id, turnId)
      (* pi does not navigate to its own leaf, so a user leaf is refused. *)
      /\ ~(Last(branch).kind = "user" /\ Last(branch).id = anchor)
      /\ branch' = Navigate(branch, anchor)
      /\ chat' = ReduceAll(chat, Append(pages, [type |-> "truncated", turn |-> turnId]))
      /\ UNCHANGED <<nextId, pi, steering, messages, mapper, persisted, cancelled, turnAnchors, cut>>

TurnIds ==
  LET stored == RebuildTurns(branch)
  IN  {CLEAR_ALL} \union {chat.turns[i].id : i \in DOMAIN chat.turns}
        \union {stored[i].id : i \in DOMAIN stored}

(* The process ends and another hydrates the file, whose leaf is its       *)
(* newest entry. pi writes the file from the first assistant message on.   *)
Restart ==
  /\ NextRead /\ HasAssistant
  /\ nextId = FirstId \/ Last(branch).id = nextId - 1
  /\ chat' = Hydrated(branch)
  /\ pi' = Resting /\ steering' = <<>> /\ mapper' = NoMapper /\ persisted' = {}
  /\ cancelled' = NoCancel /\ turnAnchors' = <<>>
  /\ UNCHANGED <<branch, nextId, messages, cut>>

Stops == {"stop", "toolUse", "error", "aborted"}

Next ==
  \/ Prompt \/ Settle \/ Cancel \/ Steer
  \/ Compact \/ StartRun \/ Inject \/ StartAssistant
  \/ OpenText("markdown") \/ \E chunks \in 0..1 : WholeText("reasoning", chunks)
  \/ MoreText \/ EndText
  \/ \E resolved \in BOOLEAN : OpenCall(resolved)
  \/ ResolveCall \/ EndCall
  \/ \E aborted \in BOOLEAN : StreamError(aborted)
  \/ \E stop \in Stops : EndAssistant(stop)
  \/ \E i \in DOMAIN pi.tools : StartTool(i) \/ \E ok \in BOOLEAN : EndTool(i, ok)
  \/ StoreResult \/ EndRun \/ Retry
  \/ FetchTurns
  \/ At("idle") /\ \E turnId \in TurnIds : Truncate(turnId)
  \/ Restart

Spec == Init /\ [][Next]_vars

-----------------------------------------------------------------------------
Stored == RebuildTurns(branch)

(* The numbers of a turn's text, its kinds of parts and how they ended;     *)
(* notices are left out: pi does not store on which side of a user message  *)
(* a compaction happened.                                                   *)
Visible(parts) ==
  LET Shape(p) == [kind |-> p.kind, chunks |-> p.chunks, status |-> p.status]
  IN  MapParts(SelectSeq(parts, LAMBDA p : p.kind # "notice"), Shape)

(* A client that cancels sees what had been streamed; the file goes on.     *)
CutShort(live, stored) ==
  LET shown == SelectSeq(live, LAMBDA p : p.kind # "error")
  IN  /\ Len(shown) <= Len(stored)
      /\ \A i \in DOMAIN shown : shown[i].kind = stored[i].kind /\ shown[i].chunks <= stored[i].chunks

Agree(live, stored) ==
  /\ live.text = stored.text
  /\ IF live.text \in cut /\ live.text # 0 THEN CutShort(Visible(live.parts), Visible(stored.parts))
     ELSE /\ Visible(live.parts) = Visible(stored.parts)
          /\ live.state = stored.state
          /\ live.usage = stored.usage

(* Turns that ended before pi stored their message leave no trace in it.    *)
InFile(t, stored) == \E i \in DOMAIN stored : stored[i].text = t.text
LiveTurns(stored) == SelectSeq(chat.turns, LAMBDA t : InFile(t, stored))
Settled == pi.phase = "idle" /\ cancelled = NoCancel

TypeOK ==
  /\ nextId \in FirstId..(LastId + 1)
  /\ \A i \in DOMAIN branch : branch[i].id < nextId
  /\ messages \in 0..MaxMessages /\ cut \subseteq 1..MaxMessages
  /\ pi.phase \in {"idle", "starting", "ready", "streaming", "tools", "gap", "ended"}
  /\ mapper.on => mapper.turn = chat.active.id
  /\ persisted \subseteq {chat.active.id}
  /\ DOMAIN turnAnchors \subseteq (1..MaxMessages) \X (0..MaxMessages)

(* Between runs, the turns the chat was streamed are the newest turns a     *)
(* rebuild of the session file gives: same messages, same parts in the same *)
(* order with the same text and tool results, same outcome and usage.       *)
LiveMatchesFile ==
  Settled =>
    LET stored   == Stored
        live     == LiveTurns(stored)
        unloaded == Len(stored) - Len(live)
    IN  /\ unloaded >= 0
        /\ \A i \in DOMAIN live : Agree(live[i], stored[unloaded + i])
        /\ \A i \in DOMAIN chat.turns : ~InFile(chat.turns[i], stored) => chat.turns[i].text \in cut

(* While the file holds turns older than the chat's, the chat's cursor      *)
(* names its oldest turn, so that the next page continues it without gap or *)
(* repetition; otherwise it is gone or names a turn that was truncated.     *)
CursorContinues ==
  LET stored == Stored
      live   == LiveTurns(stored)
      at     == IndexOfTurn(stored, chat.cursor)
  IN  /\ at # 0 => at > 1 /\ chat.turns # <<>> /\ chat.turns[1].id = chat.cursor
      /\ Settled /\ live # <<>> /\ Len(live) < Len(stored) => at # 0

SameTranscript(turns, others) ==
  /\ Len(turns) = Len(others)
  /\ \A i \in DOMAIN turns :
       /\ turns[i].id = others[i].id /\ turns[i].state = others[i].state
       /\ Visible(turns[i].parts) = Visible(others[i].parts)

(* An edit of an entry of the turn it was made in.                          *)
OwnOmission(j) ==
  /\ branch[j].kind = "edit"
  /\ ~ \E i \in 1..j : branch[i].kind = "user" /\ branch[i].id > branch[j].target

(* A turn the client can name keeps exactly itself and the turns before it  *)
(* when the chat is truncated to it, and the omissions of its failed        *)
(* attempts; a turn pi ended on an assistant's answer can always be named.  *)
AnchorKeepsTurn ==
  Settled =>
    LET history == RebuildHistory(branch)
        stored  == history.turns
        live    == LiveTurns(stored)
    IN  \A i \in DOMAIN live :
          LET k      == Len(stored) - Len(live) + i
              anchor == TruncationAnchor(branch, turnAnchors, live[i].id)
              rest   == Navigate(branch, anchor)
              kept   == {rest[j].id : j \in DOMAIN rest}
          IN  /\ anchor # NoEntry /\ InBranch(anchor) =>
                   /\ SameTranscript(RebuildTurns(rest), SubSeq(stored, 1, k))
                   /\ \A j \in DOMAIN branch : OwnOmission(j) /\ branch[j].target \in kept => branch[j].id \in kept
              /\ live[i].text \notin cut /\ stored[k].id \in DOMAIN history.anchors
                   => anchor # NoEntry /\ InBranch(anchor)

=============================================================================
