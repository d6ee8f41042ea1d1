------------------------------- MODULE History -------------------------------
(***************************************************************************)
(* The transcript rebuilt from a pi session file (pi/history.ts), its      *)
(* pages (pi/turn-paging.ts) and its truncation anchors                    *)
(* (pi/session-history.ts), as operators on a branch: the sequence of      *)
(* entries from the file's root to its leaf.                               *)
(*                                                                         *)
(* Entries are records with a kind and a unique id (a positive number).    *)
(* Text is a number of streamed chunks, a user message its number, a tool  *)
(* call its id. Turn ids are sequences, so that ids made from entries,     *)
(* ids chosen by clients and the key of the whole conversation differ.     *)
(***************************************************************************)
EXTENDS Naturals, Sequences, SequencesExt

CONSTANT PageSize          \* DEFAULT_PAGE_SIZE

CLEAR_ALL == <<>>
NoUsage   == 0
NoEntry   == 0

TextPart(kind, key, chunks) == [kind |-> kind, key |-> key, chunks |-> chunks, status |-> ""]
ToolPart(call, status)      == [kind |-> "tool", key |-> <<call>>, chunks |-> 0, status |-> status]
NoticePart == TextPart("notice", <<>>, 0)
BashPart   == TextPart("bash", <<>>, 0)
ErrorPart  == TextPart("error", <<>>, 0)

IsCall(part, call) == part.kind = "tool" /\ part.key = <<call>>

MapParts(parts, Op(_)) == [i \in DOMAIN parts |-> Op(parts[i])]

(* A finished turn leaves no call unfinished. *)
SettleToolCalls(parts) ==
  LET Settle(part) == IF part.status \in {"streaming", "running"}
                      THEN [part EXCEPT !.status = "cancelled"] ELSE part
  IN  MapParts(parts, Settle)

WithError(parts, state) == IF state = "error" THEN Append(parts, ErrorPart) ELSE parts

(* What an assistant's stop reason makes of the turn's provisional result. *)
ResultOf(stop, result) ==
  CASE stop = "aborted" -> "cancelled"
    [] stop = "error"   -> "error"
    [] stop \in {"pending", "none"} -> result
    [] OTHER -> "complete"

-----------------------------------------------------------------------------
(* rebuildHistory: h.open says whether h.current is a turn under            *)
(* construction.                                                            *)

Turn(id, text, parts, usage, state) ==
  [id |-> id, text |-> text, parts |-> parts, usage |-> usage, state |-> state]

PendingTurn(e, text) ==
  [id |-> <<e.id>>, text |-> text, parts |-> <<>>, usage |-> NoUsage, result |-> "complete",
   entryIds |-> {e.id}, anchor |-> NoEntry]

Nothing == [turns |-> <<>>, anchors |-> <<>>, open |-> FALSE,
            current |-> PendingTurn([id |-> NoEntry], 0)]

Anchored(h, key, entry) == [h EXCEPT !.anchors = (key :> entry) @@ @]

CloseTurn(h) ==
  LET c == h.current
      g == IF c.anchor = NoEntry THEN h ELSE Anchored(h, c.id, c.anchor)
  IN  IF ~h.open THEN h
      ELSE [g EXCEPT !.open = FALSE,
                     !.turns = Append(@, Turn(c.id, c.text, WithError(SettleToolCalls(c.parts), c.result),
                                              c.usage, c.result))]

OpenTurn(h, e, text) == [CloseTurn(h) EXCEPT !.open = TRUE, !.current = PendingTurn(e, text)]

Ensure(h, e) == IF h.open THEN h ELSE OpenTurn(h, e, 0)

(* The entry belongs to the current turn, and the turn now ends on it. *)
Belongs(h, e) == [h EXCEPT !.current.entryIds = @ \union {e.id}, !.current.anchor = e.id]

BlockParts(e, turnId) ==
  LET Shown(i) == e.blocks[i].kind = "tool" \/ e.blocks[i].chunks > 0
      Part(i)  == IF e.blocks[i].kind = "tool" THEN ToolPart(e.blocks[i].call, "running")
                  ELSE TextPart(e.blocks[i].kind, turnId \o <<e.id, i>>, e.blocks[i].chunks)
      Indices  == SelectSeq([i \in DOMAIN e.blocks |-> i], Shown)
  IN  [k \in DOMAIN Indices |-> Part(Indices[k])]

AbsorbCompaction(h, e) ==
  IF h.open THEN [h EXCEPT !.current.parts = Append(@, NoticePart), !.current.anchor = e.id]
  ELSE Anchored([h EXCEPT !.turns = Append(@, Turn(<<e.id>>, 0, <<>>, NoUsage, "complete"))],
                <<e.id>>, e.id)

\* Mutant: an edit never ends a turn.
AbsorbEditNowhere(h, e) == h

AbsorbEdit(h, e) ==
  IF h.open /\ e.target \in h.current.entryIds THEN [h EXCEPT !.current.anchor = e.id] ELSE h

AbsorbUser(h, e) ==
  LET g == IF CLEAR_ALL \in DOMAIN h.anchors THEN h ELSE Anchored(h, CLEAR_ALL, e.id)
  IN  OpenTurn(g, e, e.text)

AbsorbAssistant(h, e) ==
  LET g == Belongs(Ensure(h, e), e)
  IN  [g EXCEPT !.current.parts  = @ \o BlockParts(e, g.current.id),
                !.current.usage  = IF e.usage = NoUsage THEN @ ELSE e.usage,
                !.current.result = ResultOf(e.stop, @)]

AbsorbToolResult(h, e) ==
  LET Finish(part) == IF IsCall(part, e.call)
                      THEN [part EXCEPT !.status = IF e.ok THEN "completed" ELSE "failed"] ELSE part
  IN  IF ~h.open THEN h ELSE [Belongs(h, e) EXCEPT !.current.parts = MapParts(@, Finish)]

AbsorbBash(h, e) == [Belongs(Ensure(h, e), e) EXCEPT !.current.parts = Append(@, BashPart)]

Absorb(h, e) ==
  CASE e.kind = "compaction" -> AbsorbCompaction(h, e)
    [] e.kind = "edit"       -> AbsorbEdit(h, e)
    [] e.kind = "user"       -> AbsorbUser(h, e)
    [] e.kind = "assistant"  -> AbsorbAssistant(h, e)
    [] e.kind = "toolResult" -> AbsorbToolResult(h, e)
    [] e.kind = "bash"       -> AbsorbBash(h, e)
    [] OTHER -> h              \* model changes and labels carry no transcript

RebuildHistory(branch) ==
  LET after[i \in 0..Len(branch)] == IF i = 0 THEN Nothing ELSE Absorb(after[i - 1], branch[i])
  IN  CloseTurn(after[Len(branch)])
RebuildTurns(branch)   == RebuildHistory(branch).turns

-----------------------------------------------------------------------------
(* Pages: a window is its turns and the cursor to the page before, which    *)
(* is the id of the oldest turn, or NoCursor at the beginning.              *)

NoCursor == CLEAR_ALL

AtLeastOne(n) == IF n > 1 THEN n ELSE 1
FromStart(n, m) == IF n > m THEN n - m ELSE 0

\* Mutant: the cursor is one turn off.
PageOff(full, start, end) ==
  [turns  |-> SubSeq(full, start + 1, end),
   cursor |-> IF start > 0 /\ end > start THEN full[start].id ELSE NoCursor]

(* The turns after the first `start`, up to the end-th. *)
Page(full, start, end) ==
  [turns  |-> SubSeq(full, start + 1, end),
   cursor |-> IF start > 0 /\ end > start THEN full[start + 1].id ELSE NoCursor]

InitialTurnsWindow(full) ==
  Page(full, FromStart(Len(full), AtLeastOne(PageSize)), Len(full))

IndexOfTurn(turns, id) == SelectInSeq(turns, LAMBDA t : t.id = id)

LoadOlderTurns(branch, cursor) ==
  LET full     == RebuildTurns(branch)
      boundary == IndexOfTurn(full, cursor)
  IN  IF cursor = NoCursor \/ boundary <= 1 THEN [turns |-> <<>>, cursor |-> NoCursor]
      ELSE Page(full, FromStart(boundary - 1, AtLeastOne(PageSize)), boundary - 1)

(* The page a truncation to an unloaded turn prepends: the code sends it in *)
(* bounded pieces from the boundary down to the target.                     *)
TargetPage(branch, oldest, turnId) ==
  LET full == RebuildTurns(branch)
  IN  Page(full, IndexOfTurn(full, turnId) - 1, IndexOfTurn(full, oldest) - 1)

IsOlder(branch, oldest, turnId) ==
  LET full == RebuildTurns(branch)
  IN  IndexOfTurn(full, turnId) \in 1..(IndexOfTurn(full, oldest) - 1)

(* Anchors this process recorded itself are consulted first. *)
TruncationAnchor(branch, turnAnchors, turnId) ==
  LET rebuilt == RebuildHistory(branch).anchors
  IN  IF turnId \in DOMAIN turnAnchors THEN turnAnchors[turnId]
      ELSE IF turnId \in DOMAIN rebuilt THEN rebuilt[turnId] ELSE NoEntry

(* Where pi's leaf goes: the entry itself, or the parent of a user entry.  *)
Navigate(branch, entry) ==
  LET i == SelectInSeq(branch, LAMBDA e : e.id = entry)
  IN  SubSeq(branch, 1, IF branch[i].kind = "user" THEN i - 1 ELSE i)
=============================================================================
