------------------------------ MODULE TurnMapper ------------------------------
(***************************************************************************)
(* The streaming mapper (pi/event-mapper.ts): one pi event in, chat        *)
(* actions out. A mapper is a record; every handler returns the mapper     *)
(* after the event (to) and the actions it emits (out). The chat reducer   *)
(* of the protocol library, which the actions are addressed to, is at the  *)
(* end.                                                                    *)
(***************************************************************************)
EXTENDS History

NoMapper == [on |-> FALSE]

NewMapper(turnId) ==
  [on |-> TRUE, root |-> turnId[1], turn |-> turnId, ordinal |-> 0, parts |-> {}, calls |-> <<>>,
   live |-> {}, result |-> "complete", activity |-> "none"]

Step(m, out) == [to |-> m, out |-> out]
Ignore(m)    == Step(m, <<>>)

(* The next actions of the same event, from the mapper the first left. *)
Then(step, Op(_)) == LET next == Op(step.to) IN Step(next.to, step.out \o next.out)

SetActivity(m, activity) ==
  IF m.activity = activity THEN Ignore(m)
  ELSE Step([m EXCEPT !.activity = activity], <<[type |-> "activity", activity |-> activity]>>)

PartId(m, index) == m.turn \o <<m.ordinal, index>>

TerminalAction(m) == [type |-> "turnEnded", turn |-> m.turn, state |-> m.result]

(* A new message restarts the content indices, so no part may leak into it. *)
Fresh(m) == [m EXCEPT !.parts = {}, !.calls = <<>>]

\* Mutant: parts of the message before are taken for the new message's.
OnAssistantStartLeaking(m) == Ignore([m EXCEPT !.ordinal = @ + 1])

OnAssistantStart(m) == Ignore([Fresh(m) EXCEPT !.ordinal = @ + 1])

(* A user message pi injects mid-run ends the turn and starts another. The *)
(* ordinal counts from 1 here, so 0 is "no assistant message yet".         *)
OnInjectedMessage(m, text) ==
  LET turnId == <<m.root, m.turn[2] + 1>>
  IN  IF m.ordinal = 0 THEN Ignore(m)
      ELSE Step([Fresh(m) EXCEPT !.turn = turnId, !.ordinal = 0, !.live = {}, !.result = "complete"],
                <<TerminalAction(m), [type |-> "turnStarted", turn |-> turnId, text |-> text]>>)

OnMessageEnd(m, stop, usage) ==
  Step([m EXCEPT !.result = ResultOf(stop, @)],
       IF usage = NoUsage THEN <<>> ELSE <<[type |-> "usage", turn |-> m.turn, usage |-> usage]>>)

(* The first text of a block creates its part, later text is appended. *)
AppendText(m, kind, index, chunks) ==
  LET responding == SetActivity(m, "responding")
      part == TextPart(kind, PartId(m, index), chunks)
      Content(n) ==
        IF index \in n.parts
        THEN Step(n, <<[type |-> "delta", turn |-> n.turn, part |-> part]>>)
        ELSE Step([n EXCEPT !.parts = @ \union {index}],
                  <<[type |-> "responsePart", turn |-> n.turn, part |-> part]>>)
  IN  IF chunks = 0 THEN Ignore(m) ELSE Then(responding, Content)

(* A block a provider did not stream arrives whole at its end. *)
CloseBlock(m, kind, index, chunks) ==
  IF index \in m.parts THEN Ignore(m) ELSE AppendText(m, kind, index, chunks)

CallAt(m, index) == IF index \in DOMAIN m.calls THEN m.calls[index] ELSE 0

(* call is 0 while the provider has not resolved the block's id. *)
OnToolCallStart(m, index, call) ==
  IF call = 0 THEN Ignore(m)
  ELSE Step([m EXCEPT !.calls = (index :> call) @@ @],
            <<[type |-> "toolStart", turn |-> m.turn, call |-> call]>>)

OnToolCallDelta(m, index, call) ==
  IF CallAt(m, index) # 0 THEN Ignore(m) ELSE OnToolCallStart(m, index, call)

OnToolCallReady(m, index, call) ==
  Step([m EXCEPT !.calls = (index :> call) @@ @, !.live = @ \union {call}],
       <<[type |-> "toolReady", turn |-> m.turn, call |-> call]>>)

OnToolStart(m, call) == SetActivity(m, "tool")

OnToolEnd(m, call, ok) ==
  LET done == IF call \notin m.live THEN Ignore(m)
              ELSE Step([m EXCEPT !.live = @ \ {call}],
                        <<[type |-> "toolComplete", turn |-> m.turn, call |-> call, ok |-> ok]>>)
  IN  Then(done, LAMBDA n : SetActivity(n, "thinking"))

OnStreamError(m, aborted) ==
  Ignore([m EXCEPT !.result = IF aborted THEN "cancelled" ELSE "error"])

OnCompactionEnd(m) == Step(m, <<[type |-> "responsePart", turn |-> m.turn, part |-> NoticePart]>>)

(* The owning prompt settled; outcome "" leaves the provisional result. *)
Finish(m, outcome) ==
  LET n == [m EXCEPT !.result = IF outcome = "" THEN @ ELSE outcome]
  IN  Step(NoMapper, SetActivity(n, "none").out \o <<TerminalAction(n)>>)

Handle(m, e) ==
  IF ~m.on THEN Ignore(m)
  ELSE CASE e.type = "agent_start"     -> SetActivity(m, "thinking")
         [] e.type = "assistant_start" -> OnAssistantStart(m)
         [] e.type = "user_start"      -> OnInjectedMessage(m, e.text)
         [] e.type = "assistant_end"   -> OnMessageEnd(m, e.stop, e.usage)
         [] e.type = "delta"           -> AppendText(m, e.kind, e.index, 1)
         [] e.type = "block_end"       -> CloseBlock(m, e.kind, e.index, e.chunks)
         [] e.type = "toolcall_start"  -> OnToolCallStart(m, e.index, e.call)
         [] e.type = "toolcall_delta"  -> OnToolCallDelta(m, e.index, e.call)
         [] e.type = "toolcall_end"    -> OnToolCallReady(m, e.index, e.call)
         [] e.type = "stream_error"    -> OnStreamError(m, e.aborted)
         [] e.type = "tool_start"      -> OnToolStart(m, e.call)
         [] e.type = "tool_end"        -> OnToolEnd(m, e.call, e.ok)
         [] e.type = "compaction_end"  -> OnCompactionEnd(m)

-----------------------------------------------------------------------------
(* External: the protocol library's chatReducer. An action that names       *)
(* another turn, or a part that is not there, changes nothing.              *)

NoTurn == Turn(<<>>, 0, <<>>, NoUsage, "none")

EndTurn(turn, state) ==
  [turn EXCEPT !.state = state, !.parts = WithError(SettleToolCalls(@), state)]

SetStatus(parts, call, from, status) ==
  LET Set(part) == IF IsCall(part, call) /\ part.status \in from
                   THEN [part EXCEPT !.status = status] ELSE part
  IN  MapParts(parts, Set)

AddText(parts, part) ==
  LET Add(p) == IF p.kind = part.kind /\ p.key = part.key
                THEN [p EXCEPT !.chunks = @ + part.chunks] ELSE p
  IN  MapParts(parts, Add)

Reduce(chat, a) ==
  CASE a.type = "activity"    -> [chat EXCEPT !.activity = a.activity]
    [] a.type = "turnStarted" -> [chat EXCEPT !.active = Turn(a.turn, a.text, <<>>, NoUsage, "active")]
    [] a.type = "turnsLoaded" -> [chat EXCEPT !.turns = a.page.turns \o @, !.cursor = a.page.cursor]
    [] a.type = "truncated"   ->
         [chat EXCEPT !.turns = IF a.turn = CLEAR_ALL THEN <<>>
                                ELSE SubSeq(@, 1, IndexOfTurn(@, a.turn))]
    [] OTHER ->
         IF chat.active.id # a.turn THEN chat
         ELSE CASE a.type = "turnEnded" ->
                     [chat EXCEPT !.turns = Append(@, EndTurn(chat.active, a.state)), !.active = NoTurn]
                [] a.type = "responsePart" -> [chat EXCEPT !.active.parts = Append(@, a.part)]
                [] a.type = "delta"     -> [chat EXCEPT !.active.parts = AddText(@, a.part)]
                [] a.type = "usage"     -> [chat EXCEPT !.active.usage = a.usage]
                [] a.type = "toolStart" -> [chat EXCEPT !.active.parts = Append(@, ToolPart(a.call, "streaming"))]
                [] a.type = "toolReady" -> [chat EXCEPT !.active.parts = SetStatus(@, a.call, {"streaming"}, "running")]
                [] a.type = "toolComplete" ->
                     [chat EXCEPT !.active.parts =
                        SetStatus(@, a.call, {"running"}, IF a.ok THEN "completed" ELSE "failed")]

ReduceAll(chat, actions) ==
  LET after[i \in 0..Len(actions)] == IF i = 0 THEN chat ELSE Reduce(after[i - 1], actions[i])
  IN  after[Len(actions)]
=============================================================================
