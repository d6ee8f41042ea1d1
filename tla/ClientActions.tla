------------------------------ MODULE ClientActions ------------------------------
(***************************************************************************)
(* The way of a client's action through the host (core/host.ts) and the    *)
(* routers of the session registry (pi/session-registry.ts), for the       *)
(* session channel and the chat channel of one session id. The actions of  *)
(* a channel form a chain; read flags and truncations may leave it for the *)
(* id's queue of operations (pi/session-operations.ts), where they meet    *)
(* disposal and loading; the rest is settled in one go. Flags are written  *)
(* to the metadata store (pi/metadata-store.ts), and a host process may    *)
(* end at any moment.                                                      *)
(*                                                                         *)
(* A handler runs through several calls before its next await, so these    *)
(* are functions from one state of the host to the next. Queued messages   *)
(* start turns of their own; they are the matter of ChatDriver.            *)
(***************************************************************************)
EXTENDS Naturals, Sequences

CONSTANTS
  MaxActions,      \* bound on actions sent
  MaxTurns,        \* bound on turns of the chat
  MaxDisposals,    \* bound on disposals asked for
  MaxCrashes       \* bound on ends of the host process

ASSUME BoundsAssumption ==
  MaxActions \in Nat /\ MaxTurns \in Nat /\ MaxDisposals \in Nat /\ MaxCrashes \in Nat

VARIABLES
  sent,       \* the actions clients have sent; one's number is its place
  host,       \* the host process
  disk,       \* the session's file with its branch, and the stored read flag
  seen,       \* history: the answers, the last flag committed, what a crash cut off
  spent       \* disposals and crashes so far

vars == <<sent, host, disk, seen, spent>>

Channels == {"session", "chat"}
Targets == 0..MaxTurns    \* the turns a truncation leaves

Actions ==
  [channel : {"session"}, kind : {"flag"}, value : BOOLEAN]
    \union [channel : {"session"}, kind : {"title"}, value : {FALSE}]
    \union [channel : {"chat"}, kind : {"draft", "turn"}, value : {FALSE}]
    \union [channel : {"chat"}, kind : {"truncate"}, value : Targets]

(* A process in which the session has not been loaded.                      *)
Cold ==
  [loaded |-> FALSE,                              \* the session in #sessions, its channels in the store
   shown |-> FALSE,                               \* the read flag of the session's state
   disposing |-> FALSE,                           \* #disposals has the id
   ops |-> <<>>,                                  \* SessionOperations.#tails
   pending |-> [c \in Channels |-> <<>>],         \* #pendingClientActions: the chain's unanswered actions
   routed |-> [c \in Channels |-> FALSE],         \* a router has not settled its first action
   driver |-> FALSE,                              \* the agent backend is attached
   active |-> FALSE,                              \* ChatState.activeTurn
   turns |-> 0]                                   \* ChatState.turns, loaded or behind the cursor

(* An unread session of an earlier process.                                 *)
Init ==
  /\ sent = <<>>
  /\ host = Cold
  /\ disk = [file |-> TRUE, leaf |-> MaxTurns, flag |-> FALSE]
  /\ seen = [log |-> [c \in Channels |-> <<>>], flag |-> disk.flag, cut |-> {}]
  /\ spent = [disposals |-> 0, crashes |-> 0]

-----------------------------------------------------------------------------
(* An outcome of a handler: what the host becomes, and the answer it gave.  *)

Quietly(h) == [host |-> h, out |-> "none"]
Rejected(h) == [host |-> h, out |-> "rejected"]
Committed(h) == [host |-> h, out |-> "committed"]

(* #validateClientAction of the registry.                                   *)
Valid(h, a) ==
  /\ ~h.disposing
  /\ a.kind \in {"turn", "truncate"} => ~h.active
  /\ a.kind = "truncate" => a.value <= h.turns

(* The host with the committed action reduced into its channel's state.     *)
Reduced(h, a) ==
  CASE a.kind = "flag" -> [h EXCEPT !.shown = IF h.loaded THEN a.value ELSE @]
    [] a.kind = "turn" -> [h EXCEPT !.active = TRUE]
    [] a.kind = "truncate" -> [h EXCEPT !.turns = a.value, !.active = FALSE]
    [] OTHER -> h

(* #applyClientAction, where stored tells whether the effect that writes a  *)
(* flag succeeds; other actions have no effect that could fail.             *)
Apply(h, a, stored) ==
  IF Valid(h, a) /\ (a.kind = "flag" => stored) THEN Committed(Reduced(h, a)) ELSE Rejected(h)

Op(kind, i) == [kind |-> kind, id |-> i, phase |-> "queued"]
Enter(h, phase) == [h EXCEPT !.ops[1].phase = phase]
Ended(h) == [h EXCEPT !.ops = Tail(@)]

\* Mutant: the catch does not ask whether apply has run.
FailedLate(h) == Rejected(Ended(h))

(* The catch of either router: once apply has run, nothing is contradicted. *)
Failed(h) == IF Head(h.ops).phase = "applied" THEN Quietly(Ended(h)) ELSE Rejected(Ended(h))

\* Mutant: the chain still waits for the action that has settled.
SettledStuck(h, c) == [h EXCEPT !.pending[c] = Tail(@)]

(* The action's promise settles; the chain of its channel may go on.        *)
Settled(h, c) == [h EXCEPT !.pending[c] = Tail(@), !.routed[c] = FALSE]

(* What is told and stored of the action i with outcome r.                  *)
Tell(i, r) ==
  LET a == sent[i]
      c == a.channel
      written == r.out = "committed" /\ a.kind = "flag"
  IN  /\ seen' = [seen EXCEPT !.log[c] = IF r.out = "none" THEN @ ELSE Append(@, [id |-> i, out |-> r.out]),
                              !.flag = IF written THEN a.value ELSE @]
      /\ disk' = IF written THEN [disk EXCEPT !.flag = a.value] ELSE disk

(* A handler that calls apply without an await, or none, and is done.       *)
Answer(i, r) == host' = Settled(r.host, sent[i].channel) /\ Tell(i, r)

(* A router calls apply: its promise, for which chain and queue wait, is    *)
(* not settled yet.                                                         *)
AnswerWithin(i, r) == host' = [r.host EXCEPT !.pending[sent[i].channel] = Tail(@)] /\ Tell(i, r)

(* A step after which the action still waits.                               *)
Wait(h) == host' = h /\ UNCHANGED <<disk, seen>>

-----------------------------------------------------------------------------
(* Sending and routing. An action is routed when those before it on its     *)
(* channel have settled, at once if there are none: arrival and routing are *)
(* two steps here, which nothing can tell apart.                            *)

Send(a) ==
  /\ Len(sent) < MaxActions
  /\ sent' = Append(sent, a)
  /\ host' = [host EXCEPT !.pending[a.channel] = Append(@, Len(sent'))]
  /\ UNCHANGED <<disk, seen, spent>>

(* SessionOperations.run: behind what is queued, or begun at once.          *)
BeginFlag(h, i, stored) ==
  IF h.loaded THEN Answer(i, Apply(Ended(h), sent[i], stored)) ELSE Wait(Enter(h, "finding"))

BeginTruncate(h, i) ==
  IF ~h.loaded \/ h.disposing \/ h.active \/ sent[i].value > disk.leaf
  THEN Answer(i, Failed(h))
  ELSE Wait(Enter(h, IF h.driver THEN "navigating" ELSE "attaching"))

Begin(h, op, stored) ==
  IF op.kind = "flag" THEN BeginFlag(h, op.id, stored) ELSE BeginTruncate(h, op.id)

Run(h, op, stored) ==
  LET queued == [h EXCEPT !.ops = Append(@, op)]
  IN  IF h.ops = <<>> THEN Begin(queued, op, stored) ELSE Wait(queued)

(* #routeClientAction for the first action of a chain. A flag of a loaded   *)
(* session that is being disposed is refused without waiting for the queue. *)
Route(c, stored) ==
  /\ host.pending[c] # <<>> /\ ~host.routed[c]
  /\ LET i == Head(host.pending[c])
         a == sent[i]
         h == [host EXCEPT !.routed[c] = TRUE]
     IN  IF a.kind = "flag" /\ ~(h.loaded /\ h.disposing) THEN Run(h, Op("flag", i), stored)
         ELSE IF a.kind # "flag" /\ ~h.loaded THEN Answer(i, Quietly(h))
         ELSE IF a.kind = "truncate" /\ Valid(h, a) THEN Run(h, Op("truncate", i), stored)
         ELSE Answer(i, Apply(h, a, stored))
  /\ UNCHANGED <<sent, spent>>

-----------------------------------------------------------------------------
(* The operations of the id: the one at the head of the queue runs.         *)

Runs(kind, phase) == host.ops # <<>> /\ Head(host.ops).kind = kind /\ Head(host.ops).phase = phase
Running == Head(host.ops).id

(* The next queued operation begins.                                        *)
StartNext(stored) ==
  /\ \E kind \in {"flag", "truncate"} : Runs(kind, "queued")
  /\ Begin(host, Head(host.ops), stored)
  /\ UNCHANGED <<sent, spent>>

(* #updateColdMetadata, after its search for the file.                      *)
FlagFound(stored) ==
  /\ Runs("flag", "finding")
  /\ IF ~host.loaded /\ ~disk.file THEN Answer(Running, Quietly(Ended(host)))
     ELSE AnswerWithin(Running, Apply(Enter(host, "applied"), sent[Running], stored))
  /\ UNCHANGED <<sent, spent>>

FindFails ==
  /\ Runs("flag", "finding")
  /\ Answer(Running, Failed(host))
  /\ UNCHANGED <<sent, spent>>

(* #truncateBeforeCommit after its awaits.                                  *)
Attached ==
  /\ Runs("truncate", "attaching")
  /\ LET h == [host EXCEPT !.driver = TRUE]
     IN  IF h.active THEN Answer(Running, Failed(h)) ELSE Wait(Enter(h, "navigating"))
  /\ UNCHANGED <<sent, spent>>

AttachFails ==
  /\ Runs("truncate", "attaching")
  /\ Answer(Running, Failed(host))
  /\ UNCHANGED <<sent, spent>>

(* pi moves its leaf some time before the driver hears of it.               *)
Navigate ==
  /\ Runs("truncate", "navigating")
  /\ host' = Enter(host, "moved")
  /\ disk' = [disk EXCEPT !.leaf = sent[Running].value]
  /\ UNCHANGED <<sent, seen, spent>>

\* Mutant: the driver's answer is not looked at.
NavigationIgnored ==
  /\ Runs("truncate", "navigating")
  /\ AnswerWithin(Running, Committed(Reduced(Enter(host, "applied"), sent[Running])))
  /\ UNCHANGED <<sent, spent>>

NavigationRefused ==
  /\ Runs("truncate", "navigating")
  /\ Answer(Running, Failed(host))
  /\ UNCHANGED <<sent, spent>>

Navigated ==
  /\ Runs("truncate", "moved")
  /\ AnswerWithin(Running, Committed(Reduced(Enter(host, "applied"), sent[Running])))
  /\ UNCHANGED <<sent, spent>>

(* The router that called apply returns, or throws after all.               *)
RouterSettles ==
  /\ \E kind \in {"flag", "truncate"} : Runs(kind, "applied")
  /\ LET c == sent[Running].channel
     IN  \E r \in {Quietly(Ended(host)), Failed(host)} :
           host' = [r.host EXCEPT !.routed[c] = FALSE] /\ Tell(Running, r)
  /\ UNCHANGED <<sent, spent>>

(* The active turn ends; the backend has written it.                        *)
TurnDone(h) == [h EXCEPT !.active = FALSE, !.turns = @ + (IF h.active THEN 1 ELSE 0)]

TurnEnds ==
  /\ host.active
  /\ host' = TurnDone(host)
  /\ disk' = [disk EXCEPT !.leaf = @ + 1]
  /\ UNCHANGED <<sent, seen, spent>>

Hydrate ==
  /\ ~host.loaded /\ \A n \in DOMAIN host.ops : host.ops[n].kind # "hydrate"
  /\ host' = [host EXCEPT !.ops = Append(@, Op("hydrate", 0))]
  /\ UNCHANGED <<sent, disk, seen, spent>>

Hydrated ==
  /\ Runs("hydrate", "queued")
  /\ host' = IF disk.file /\ ~host.loaded
             THEN [Ended(host) EXCEPT !.loaded = TRUE, !.shown = disk.flag, !.turns = disk.leaf]
             ELSE Ended(host)
  /\ UNCHANGED <<sent, disk, seen, spent>>

Dispose ==
  /\ spent.disposals < MaxDisposals /\ ~host.disposing /\ disk.file
  /\ spent' = [spent EXCEPT !.disposals = @ + 1]
  /\ host' = [host EXCEPT !.disposing = TRUE, !.ops = Append(@, Op("dispose", 0))]
  /\ UNCHANGED <<sent, disk, seen>>

(* The backend is quiet, and the turn it ran has been closed.               *)
Quiesced ==
  /\ Runs("dispose", "queued")
  /\ host' = Enter(TurnDone(host), "deleting")
  /\ disk' = [disk EXCEPT !.leaf = @ + (IF host.active THEN 1 ELSE 0)]
  /\ UNCHANGED <<sent, seen, spent>>

DeleteFails ==
  /\ Runs("dispose", "deleting")
  /\ host' = [Ended(host) EXCEPT !.disposing = FALSE]
  /\ UNCHANGED <<sent, disk, seen, spent>>

Deleted ==
  /\ Runs("dispose", "deleting")
  /\ host' = [Ended(host) EXCEPT !.disposing = FALSE, !.loaded = FALSE, !.driver = FALSE, !.turns = 0,
                                 !.shown = FALSE]
  /\ disk' = [file |-> FALSE, leaf |-> 0, flag |-> FALSE]
  /\ seen' = [seen EXCEPT !.flag = FALSE]
  /\ UNCHANGED <<sent, spent>>

-----------------------------------------------------------------------------
(* The end of the process, at any moment, so also while a flag is written:  *)
(* what the file holds is then one of these.                                *)

\* Mutant: the file is written in place; half of it reads as the default.
CutOffInPlace(value) == {disk.flag, value, FALSE}

CutOff(value) == {disk.flag, value}

Unanswered == UNION {{host.pending[c][n] : n \in DOMAIN host.pending[c]} : c \in Channels}

Crash ==
  /\ spent.crashes < MaxCrashes
  /\ spent' = [spent EXCEPT !.crashes = @ + 1]
  /\ \/ UNCHANGED disk
     \/ \E i \in Unanswered :
          /\ sent[i].kind = "flag" /\ disk.file
          /\ \E flag \in CutOff(sent[i].value) : disk' = [disk EXCEPT !.flag = flag]
  /\ host' = Cold
  /\ seen' = [seen EXCEPT !.cut = @ \union Unanswered]
  /\ UNCHANGED sent

OpStep ==
  \/ \E stored \in BOOLEAN : StartNext(stored) \/ FlagFound(stored)
  \/ FindFails \/ Attached \/ AttachFails \/ Navigate \/ NavigationRefused \/ Navigated \/ RouterSettles
  \/ Hydrated \/ Quiesced \/ DeleteFails \/ Deleted

Next ==
  \/ \E a \in Actions : Send(a)
  \/ \E c \in Channels, stored \in BOOLEAN : Route(c, stored)
  \/ OpStep
  \/ TurnEnds \/ Hydrate \/ Dispose \/ Crash

(* Promises settle: each step of the queue and of a chain is taken in time. *)
Fairness ==
  /\ WF_vars(OpStep)
  /\ \A c \in Channels : WF_vars(\E stored \in BOOLEAN : Route(c, stored))

Spec == Init /\ [][Next]_vars /\ Fairness

-----------------------------------------------------------------------------
Ids == 1..MaxActions
Outcomes == {"committed", "rejected"}
Phases == {"queued", "finding", "attaching", "navigating", "moved", "applied", "deleting"}

Operation == [kind : {"flag", "truncate", "hydrate", "dispose"}, id : Ids \union {0}, phase : Phases]

Host ==
  [loaded : BOOLEAN, shown : BOOLEAN, disposing : BOOLEAN, ops : Seq(Operation),
   pending : [Channels -> Seq(Ids)], routed : [Channels -> BOOLEAN],
   driver : BOOLEAN, active : BOOLEAN, turns : Nat]

Told == [id : Ids, out : Outcomes]

TypeOK ==
  /\ sent \in Seq(Actions) /\ Len(sent) <= MaxActions
  /\ host \in Host
  /\ disk \in [file : BOOLEAN, leaf : Nat, flag : BOOLEAN]
  /\ seen \in [log : [Channels -> Seq(Told)], flag : BOOLEAN, cut : SUBSET Ids]
  /\ spent \in [disposals : 0..MaxDisposals, crashes : 0..MaxCrashes]

(* On each channel clients' actions are answered in the order they were     *)
(* sent and none twice: nothing overtakes an action that is at the disk or  *)
(* at the agent, and an action that was committed is not rejected when its  *)
(* router fails afterwards.                                                 *)
AnswersInOrder ==
  \A c \in Channels :
    LET told == seen.log[c]
        wait == host.pending[c]
    IN  /\ \A m, n \in DOMAIN told : m < n => told[m].id < told[n].id
        /\ \A m, n \in DOMAIN wait : m < n => wait[m] < wait[n]
        /\ told # <<>> /\ wait # <<>> => told[Len(told)].id < wait[1]

(* The stored flag is the one committed last, or that of an action the end   *)
(* of a process cut off; and a loaded session shows it. So a flag the host   *)
(* answered for survives, whether its session was loaded or not.             *)
FlagIsOwned ==
  /\ disk.flag = seen.flag \/ \E i \in seen.cut : sent[i].kind = "flag" /\ sent[i].value = disk.flag
  /\ host.loaded => host.shown = disk.flag

(* Except between pi's move and its announcement, the chat shows the turns   *)
(* of pi's branch: a truncation that was rejected has moved nothing, one     *)
(* that was committed has, and no turn gets in between.                      *)
ChatFollowsPi == host.loaded /\ ~Runs("truncate", "moved") => host.turns = disk.leaf

(* Every action is answered or dropped, whatever operation it waits for     *)
(* fails.                                                                   *)
ActionsSettle == \A i \in Ids : (i \in Unanswered) ~> (i \notin Unanswered)
=============================================================================
