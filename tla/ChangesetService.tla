---------------------------- MODULE ChangesetService ----------------------------
(***************************************************************************)
(* The changeset service (pi/changeset-service.ts) for one session: two    *)
(* channels computed from the Git workspace the session works in. Interest *)
(* in a channel starts a refresh loop, which inspects the workspace, opens *)
(* a watch on it and scans; the watch asks for further scans; losing all   *)
(* interest aborts the scan and closes the watch. A session that is being  *)
(* deleted is suspended first and resumed when the deletion fails.         *)
(*                                                                         *)
(* Every promise the entry holds (probe, refresh, watchStarting,           *)
(* watchClosing) has a program counter that names the await it is at. The  *)
(* handlers call each other a good deal between two awaits, so they are    *)
(* written as functions from one state of the service to the next.         *)
(***************************************************************************)
EXTENDS Naturals

CONSTANTS
  Targets,         \* Git directories a session's directory may belong to
  None,
  MaxEdits,        \* bound on edits of the work tree
  MaxCommits,      \* the newest commit that may be made
  MaxMoves,        \* bound on changes of the directory's repository
  MaxSubscribers   \* bound on the subscribers of a channel

Contents == [head : 0..(MaxCommits + 1), files : 0..MaxEdits]
Workspaces == [target : Targets, head : 0..(MaxCommits + 1)]
Channels ==
  [status : {"computing", "recomputing", "ready", "error"}, content : Contents \union {None}]

ASSUME SizesAssumption ==
  /\ MaxEdits \in Nat /\ MaxCommits \in Nat /\ MaxMoves \in Nat
  /\ MaxSubscribers \in Nat \ {0} /\ None \notin Targets \union Workspaces \union Channels

VARIABLES
  disk,    \* the repository: where it is, its newest commit (0: none yet), the edits made
  st,      \* the service's entry, its channels in the store, and their subscribers
  stop     \* how far disposing of the session, and of the service, has come

vars == <<disk, st, stop>>

Kinds == {"latest-commit", "uncommitted"}

IdleLoop == [pc |-> "none", aborted |-> FALSE, workspace |-> None, jobs |-> {}, from |-> 0]
NotStarting == [pc |-> "none", aborted |-> FALSE, target |-> None]

Init ==
  /\ \E t \in Targets \union {None}, h \in {0, 1} :
       disk = [target |-> t, head |-> h, files |-> 0, moves |-> 0]
  /\ st = [workspace |-> None,             \* entry.workspace
           suspended |-> FALSE,            \* entry.suspended
           disposed  |-> FALSE,            \* #disposed
           probing   |-> FALSE,            \* entry.probe
           hydrating |-> {},               \* hydrate() at the await of the probe
           requested |-> FALSE,            \* entry.refreshRequested
           timer     |-> FALSE,            \* entry.refreshTimer
           loop      |-> IdleLoop,         \* entry.refresh and entry.abort
           starting  |-> NotStarting,      \* entry.watchStarting and watchAbort
           watcher   |-> None,             \* the target of entry.watcher
           closing   |-> "none",           \* entry.watchClosing
           event     |-> FALSE,            \* a change the open sources are about to report
           completed |-> {},               \* #completed
           evictions |-> {},               \* #stateEvictions
           catalogue |-> {},               \* SessionState.changesets
           store     |-> [k \in Kinds |-> None],
           subs      |-> [k \in Kinds |-> 0]]
  /\ stop = [a \in {"session", "service"} |-> [phase |-> "no", removing |-> FALSE, awaits |-> {}]]

-----------------------------------------------------------------------------
(* The functions the handlers share.                                        *)

Known == stop["session"].phase # "done" /\ stop["service"].phase # "done"
HasInterest(s) == \E k \in Kinds : s.subs[k] > 0
Workspace(d) == IF d.target = None THEN None ELSE [target |-> d.target, head |-> d.head]

Abort(loop) == IF loop.pc \in {"none", "waiting", "probe", "ended"} THEN loop ELSE [loop EXCEPT !.aborted = TRUE]

(* With nothing to close the promise settles at once.                       *)
CloseWatcher(s) ==
  [s EXCEPT !.starting.aborted = s.starting.pc # "none",
            !.closing = IF @ = "none" /\ (s.watcher # None \/ s.starting.pc # "none") THEN "awaiting" ELSE @]

(* The loop begins a pass, which waits for the probe there is.              *)
Pass(s) ==
  [s EXCEPT !.requested = FALSE, !.loop = [IdleLoop EXCEPT !.pc = IF s.probing THEN "waiting" ELSE "probe"]]

RequestRefresh(s) ==
  IF s.disposed \/ s.suspended \/ ~HasInterest(s) THEN s
  ELSE IF s.loop.pc # "none" THEN [s EXCEPT !.timer = FALSE, !.requested = TRUE]
  ELSE Pass([s EXCEPT !.timer = FALSE])

\* Mutant: a change reported while the loop runs is not remembered.
ScheduleRefreshDeaf(s) ==
  IF s.disposed \/ s.suspended \/ ~HasInterest(s) \/ s.loop.pc # "none" THEN s
  ELSE [s EXCEPT !.requested = TRUE, !.timer = TRUE]

ScheduleRefresh(s) ==
  IF s.disposed \/ s.suspended \/ ~HasInterest(s) THEN s
  ELSE [s EXCEPT !.requested = TRUE, !.timer = @ \/ s.loop.pc = "none"]

Probe(s) == [s EXCEPT !.probing = TRUE]

SubscriberChanged(s, k) ==
  IF s.disposed \/ ~Known THEN s
  ELSE IF s.subs[k] > 0 THEN RequestRefresh([s EXCEPT !.evictions = @ \ {k}])
  ELSE LET evicting == [s EXCEPT !.evictions = @ \union {k}]
       IN  IF HasInterest(s) THEN evicting
           ELSE CloseWatcher([evicting EXCEPT !.requested = FALSE, !.loop = Abort(@)])

(* Also deleteChannel of the host: it releases the channel's subscribers.   *)
DisposeChannel(s, k) ==
  LET forgotten == [s EXCEPT !.completed = @ \ {k}, !.evictions = @ \ {k}]
      deleted   == [forgotten EXCEPT !.store[k] = None, !.subs[k] = 0]
  IN  IF s.store[k] = None THEN forgotten
      ELSE IF s.subs[k] > 0 THEN SubscriberChanged(deleted, k) ELSE deleted

DisposeChannels(s) == DisposeChannel(DisposeChannel(s, "latest-commit"), "uncommitted")

CatalogueOf(w) ==
  IF w = None THEN {} ELSE IF w.head > 0 THEN Kinds ELSE {"uncommitted"}

(* applyCatalogue, once the entry's workspace is w.                         *)
ApplyCatalogue(s, w) ==
  LET one == IF "latest-commit" \in CatalogueOf(w) THEN s ELSE DisposeChannel(s, "latest-commit")
      two == IF "uncommitted" \in CatalogueOf(w) THEN one ELSE DisposeChannel(one, "uncommitted")
  IN  [two EXCEPT !.workspace = w, !.catalogue = CatalogueOf(w)]

CanPublish(s) == ~s.disposed /\ ~s.suspended /\ ~s.loop.aborted /\ Known

(* The loop's condition, after a pass has ended.                            *)
Again(s) ==
  IF s.requested /\ ~s.suspended /\ ~s.disposed
  THEN Pass(s)
  ELSE [s EXCEPT !.loop = [IdleLoop EXCEPT !.pc = "ended"]]

Published(s, k) == s.store[k] # None /\ s.subs[k] > 0

(* The scan of the channels there is interest in.                           *)
Scan(s) ==
  LET kinds == {k \in Kinds : Published(s, k)}
      status(k) == IF k \in s.completed THEN "recomputing" ELSE "computing"
      store == [k \in Kinds |-> IF k \in kinds THEN [s.store[k] EXCEPT !.status = status(k)] ELSE s.store[k]]
  IN  IF ~CanPublish(s) \/ kinds = {} THEN Again(s)
      ELSE [s EXCEPT !.store = store, !.loop.pc = "computing", !.loop.jobs = kinds, !.loop.from = disk.files]

EnsureWatcher(s) ==
  IF s.closing # "none" THEN [s EXCEPT !.loop.pc = "joining"]
  ELSE IF s.disposed \/ s.suspended \/ s.watcher # None \/ s.workspace = None \/ ~HasInterest(s)
  THEN Scan(s)
  ELSE [s EXCEPT !.loop.pc = "watching",
                 !.starting = [pc |-> "opening", aborted |-> FALSE, target |-> s.workspace.target]]

(* What suspendSession does before its first await.                         *)
Suspend(s) ==
  CloseWatcher([s EXCEPT !.suspended = TRUE, !.requested = FALSE, !.timer = FALSE, !.loop = Abort(@)])

Resume(s) ==
  LET awake == [s EXCEPT !.suspended = FALSE, !.probing = @ \/ s.workspace = None]
  IN  RequestRefresh(awake)

(* An operation that disposals may wait for has ended.                      *)
Settle(what) == [a \in {"session", "service"} |-> [stop[a] EXCEPT !.awaits = @ \ {what}]]

-----------------------------------------------------------------------------
(* Subscribers.                                                             *)

Subscribe(k) ==
  /\ st.store[k] # None /\ st.subs[k] < MaxSubscribers
  /\ st' = SubscriberChanged([st EXCEPT !.subs[k] = @ + 1], k)
  /\ UNCHANGED <<disk, stop>>

Unsubscribe(k) ==
  /\ st.subs[k] > 0
  /\ st' = SubscriberChanged([st EXCEPT !.subs[k] = @ - 1], k)
  /\ UNCHANGED <<disk, stop>>

(* A subscription to a channel that is not in the store waits for a probe.  *)
Hydrate(k) ==
  /\ st.store[k] = None /\ k \notin st.hydrating
  /\ ~st.disposed /\ Known
  /\ st' = Probe([st EXCEPT !.hydrating = @ \union {k}])
  /\ UNCHANGED <<disk, stop>>

NewChannel == [status |-> "computing", content |-> None]

(* The client may have left meanwhile.                                      *)
Hydrated(k, stays) ==
  /\ k \in st.hydrating /\ ~st.probing
  /\ st' = LET s == [st EXCEPT !.hydrating = @ \ {k}]
           IN  IF stop["session"].phase = "done" \/ k \notin s.catalogue THEN s
               ELSE SubscriberChanged([s EXCEPT !.evictions = @ \ {k}, !.store[k] = NewChannel,
                                                !.subs[k] = IF stays THEN 1 ELSE @], k)
  /\ UNCHANGED <<disk, stop>>

EvictionFires(k) ==
  /\ k \in st.evictions
  /\ st' = [st EXCEPT !.evictions = @ \ {k}, !.store[k] = IF st.subs[k] = 0 THEN None ELSE @]
  /\ UNCHANGED <<disk, stop>>

(* The session is opened, or read from.                                     *)
Attach ==
  /\ ~st.disposed /\ Known /\ st.workspace = None
  /\ st' = Probe(st)
  /\ UNCHANGED <<disk, stop>>

(* A subscriber of the session's own channel has the workspace looked for,  *)
(* known or not.                                                            *)
SessionSubscribed ==
  /\ ~st.disposed /\ Known
  /\ st' = Probe(st)
  /\ UNCHANGED <<disk, stop>>

TurnEnds ==
  /\ ~st.disposed /\ Known
  /\ st' = IF HasInterest(st) THEN RequestRefresh(st) ELSE Probe(st)
  /\ UNCHANGED <<disk, stop>>

\* Mutant: what a probe finds is applied to a suspended session as well.
ProbeEndsRegardless(ok) ==
  /\ st.probing
  /\ st' = LET s == [st EXCEPT !.probing = FALSE, !.loop.pc = IF @ = "waiting" THEN "probe" ELSE @]
           IN  IF ~Known \/ s.disposed THEN s
               ELSE ApplyCatalogue(s, IF ok THEN Workspace(disk) ELSE None)
  /\ stop' = Settle("probe")
  /\ UNCHANGED disk

(* A failed inspection leaves no workspace.                                 *)
ProbeEnds(ok) ==
  /\ st.probing
  /\ st' = LET s == [st EXCEPT !.probing = FALSE, !.loop.pc = IF @ = "waiting" THEN "probe" ELSE @]
           IN  IF ~Known \/ s.suspended \/ s.disposed THEN s
               ELSE ApplyCatalogue(s, IF ok THEN Workspace(disk) ELSE None)
  /\ stop' = Settle("probe")
  /\ UNCHANGED disk

-----------------------------------------------------------------------------
(* The refresh loop.                                                        *)

Inspect ==
  /\ st.loop.pc = "probe"
  /\ st' = IF st.suspended \/ st.disposed THEN Again(st)
           ELSE [st EXCEPT !.loop = [IdleLoop EXCEPT !.pc = "inspecting"]]
  /\ UNCHANGED <<disk, stop>>

Inspected ==
  /\ st.loop.pc = "inspecting"
  /\ st' = LET w == Workspace(disk)
               s == [ApplyCatalogue(st, w) EXCEPT !.loop.workspace = w]
           IN  IF ~CanPublish(st) THEN Again(st)
               ELSE IF w = None THEN CloseWatcher([s EXCEPT !.loop.pc = "closing"])
               ELSE IF s.watcher \notin {None, w.target} THEN CloseWatcher([s EXCEPT !.loop.pc = "joining"])
               ELSE EnsureWatcher(s)
  /\ UNCHANGED <<disk, stop>>

(* publishError is not held back by suspension, but by what suspension aborts. *)
InspectFails ==
  /\ st.loop.pc = "inspecting"
  /\ st' = IF st.loop.aborted THEN Again(st)
           ELSE Again([st EXCEPT !.store = [k \in Kinds |->
                         IF Published(st, k) THEN [st.store[k] EXCEPT !.status = "error"] ELSE st.store[k]]])
  /\ UNCHANGED <<disk, stop>>

(* The loop goes on when the closing it waits for is over.                  *)
Joined ==
  /\ st.closing = "none"
  /\ \/ st.loop.pc = "closing" /\ st' = Again(st)
     \/ st.loop.pc = "joining" /\ st' = EnsureWatcher(st)
  /\ UNCHANGED <<disk, stop>>

(* One channel's scan ends; it saw the work tree at some moment meanwhile.  *)
Computed(k, seen) ==
  /\ st.loop.pc = "computing" /\ k \in st.loop.jobs
  /\ seen \in st.loop.from..disk.files
  /\ st' = LET content == [head |-> st.loop.workspace.head, files |-> IF k = "uncommitted" THEN seen ELSE 0]
               s == IF ~CanPublish(st) \/ st.store[k] = None THEN st
                    ELSE [st EXCEPT !.store[k] = [status |-> "ready", content |-> content],
                                    !.completed = @ \union {k}]
           IN  IF st.loop.jobs = {k} THEN Again(s) ELSE [s EXCEPT !.loop.jobs = @ \ {k}]
  /\ UNCHANGED <<disk, stop>>

ComputeFails(k) ==
  /\ st.loop.pc = "computing" /\ k \in st.loop.jobs
  /\ st' = LET s == IF ~CanPublish(st) \/ st.store[k] = None THEN st
                    ELSE [st EXCEPT !.store[k].status = "error"]
           IN  IF st.loop.jobs = {k} THEN Again(s) ELSE [s EXCEPT !.loop.jobs = @ \ {k}]
  /\ UNCHANGED <<disk, stop>>

\* Mutant: the wake-up that came after the last check is left behind.
SettledDeaf(s) == [s EXCEPT !.loop = IdleLoop]

(* The cleanup of the loop's promise, a little after the loop has ended.    *)
Settled(s) ==
  LET idle == [s EXCEPT !.loop = IdleLoop]
  IN  IF s.requested THEN RequestRefresh(idle) ELSE idle

LoopSettles ==
  /\ st.loop.pc = "ended"
  /\ st' = Settled(st)
  /\ stop' = Settle("refresh")
  /\ UNCHANGED disk

TimerFires ==
  /\ st.timer
  /\ st' = RequestRefresh([st EXCEPT !.timer = FALSE])
  /\ UNCHANGED <<disk, stop>>

-----------------------------------------------------------------------------
(* Opening a watch: the Git metadata first, then the work tree. After each  *)
(* of the two the start looks whether it is still wanted.                   *)

CanWatch(s) ==
  /\ ~s.starting.aborted /\ ~s.disposed /\ ~s.suspended
  /\ s.workspace # None /\ s.workspace.target = s.starting.target
  /\ HasInterest(s)

(* The end of ensureWatcher's wait; the sources that are not kept close first. *)
Started(s) == Scan([s EXCEPT !.starting = NotStarting])

Released(s) == [s EXCEPT !.starting.pc = "releasing", !.event = FALSE]

MetadataOpens ==
  /\ st.starting.pc = "opening"
  /\ st' = IF CanWatch(st) THEN [st EXCEPT !.starting.pc = "acquiring"] ELSE Released(st)
  /\ UNCHANGED <<disk, stop>>

TreeOpens ==
  /\ st.starting.pc = "acquiring"
  /\ st' = IF CanWatch(st) THEN Started([st EXCEPT !.watcher = st.starting.target]) ELSE Released(st)
  /\ UNCHANGED <<disk, stop>>

(* Opening fails, or what was opened for nothing has been closed.           *)
StartEnds ==
  /\ \/ st.starting.pc = "opening" /\ st' = Started(st)
     \/ st.starting.pc = "acquiring" /\ st' = Released(st)
     \/ st.starting.pc = "releasing" /\ st' = Started(st)
  /\ UNCHANGED <<disk, stop>>

WatchFails ==
  /\ st.watcher # None
  /\ st' = CloseWatcher(st)
  /\ UNCHANGED <<disk, stop>>

CloseBegins ==
  /\ st.closing = "awaiting" /\ st.starting.pc = "none"
  /\ st' = IF st.watcher = None THEN [st EXCEPT !.closing = "none"]
           ELSE [st EXCEPT !.closing = "releasing", !.watcher = None, !.event = FALSE]
  /\ UNCHANGED <<disk, stop>>

CloseEnds ==
  /\ st.closing = "releasing"
  /\ st' = [st EXCEPT !.closing = "none"]
  /\ UNCHANGED <<disk, stop>>

EventArrives ==
  /\ st.event
  /\ st' = ScheduleRefresh([st EXCEPT !.event = FALSE])
  /\ UNCHANGED <<disk, stop>>

-----------------------------------------------------------------------------
(* The repository. The metadata is watched from the moment its source is    *)
(* open, the work tree from the moment the watcher stands.                  *)

Watched(t) == st.watcher = t \/ (st.starting.pc = "acquiring" /\ st.starting.target = t)

Edit ==
  /\ disk.target # None /\ disk.files < MaxEdits
  /\ disk' = [disk EXCEPT !.files = @ + 1]
  /\ st' = [st EXCEPT !.event = @ \/ st.watcher = disk.target]
  /\ UNCHANGED stop

Commit ==
  /\ disk.target # None /\ disk.head < MaxCommits
  /\ disk' = [disk EXCEPT !.head = @ + 1]
  /\ st' = [st EXCEPT !.event = @ \/ Watched(disk.target)]
  /\ UNCHANGED stop

(* git init, the removal of .git, or a move to another repository.          *)
Move(t) ==
  /\ disk.moves < MaxMoves /\ t # disk.target
  /\ disk' = [disk EXCEPT !.target = t, !.moves = @ + 1]
  /\ st' = [st EXCEPT !.event = @ \/ (disk.target # None /\ Watched(disk.target))]
  /\ UNCHANGED stop

-----------------------------------------------------------------------------
(* The disposal of the session (pi-host.ts, session-registry.ts) and of the *)
(* service, which both wait for what is in flight.                          *)

InFlight == (IF st.probing THEN {"probe"} ELSE {}) \union (IF st.loop.pc # "none" THEN {"refresh"} ELSE {})

Stopping(a, phase, removing) ==
  stop' = [stop EXCEPT ![a] = [phase |-> phase, removing |-> removing, awaits |-> {}]]

DisposeSession ==
  /\ stop["session"].phase = "no" /\ Known /\ ~st.disposed
  /\ Stopping("session", "suspending", FALSE)
  /\ st' = Suspend(st)
  /\ UNCHANGED disk

DisposeService ==
  /\ ~st.disposed
  /\ LET s == [st EXCEPT !.disposed = TRUE, !.evictions = {}]
     IN  IF Known THEN st' = Suspend(s) /\ Stopping("service", "suspending", TRUE)
         ELSE st' = s /\ Stopping("service", "done", TRUE)
  /\ UNCHANGED disk

(* The watch is closed: now the probe and the refresh, as they are.         *)
Drain(a) ==
  /\ stop[a].phase = "suspending" /\ st.closing = "none"
  /\ stop' = [stop EXCEPT ![a].phase = "draining", ![a].awaits = InFlight]
  /\ UNCHANGED <<disk, st>>

Drained(a) == stop[a].phase = "draining" /\ stop[a].awaits = {}

DeleteBegins ==
  /\ Drained("session") /\ ~stop["session"].removing
  /\ Stopping("session", "deleting", FALSE)
  /\ UNCHANGED <<disk, st>>

DeleteFails ==
  /\ stop["session"].phase = "deleting"
  /\ Stopping("session", "no", FALSE)
  /\ st' = IF Known /\ ~st.disposed THEN Resume(st) ELSE st
  /\ UNCHANGED disk

DeleteCommits ==
  /\ stop["session"].phase = "deleting"
  /\ IF Known /\ ~st.disposed
     THEN st' = Suspend(st) /\ Stopping("session", "suspending", TRUE)
     ELSE st' = [st EXCEPT !.catalogue = {}] /\ Stopping("session", "done", TRUE)
  /\ UNCHANGED disk

\* Mutant: the session goes while its loop is still running.
RemoveHasty(a) ==
  /\ stop[a].phase = "draining" /\ stop[a].removing
  /\ st' = LET s == DisposeChannels(st) IN IF a = "session" THEN [s EXCEPT !.catalogue = {}] ELSE s
  /\ Stopping(a, "done", TRUE)
  /\ UNCHANGED disk

Remove(a) ==
  /\ Drained(a) /\ stop[a].removing
  /\ st' = LET s == DisposeChannels(st) IN IF a = "session" THEN [s EXCEPT !.catalogue = {}] ELSE s
  /\ Stopping(a, "done", TRUE)
  /\ UNCHANGED disk

-----------------------------------------------------------------------------
Agents == {"session", "service"}

LoopStep ==
  \/ Inspect \/ Inspected \/ InspectFails \/ Joined \/ LoopSettles
  \/ \E k \in Kinds : ComputeFails(k) \/ \E seen \in 0..MaxEdits : Computed(k, seen)

WatchStep == MetadataOpens \/ TreeOpens \/ StartEnds \/ CloseBegins \/ CloseEnds

StopStep(a) == Drain(a) \/ Remove(a) \/ (a = "session" /\ DeleteBegins)

Next ==
  \/ \E k \in Kinds :
       \/ Subscribe(k) \/ Unsubscribe(k) \/ Hydrate(k) \/ EvictionFires(k)
       \/ \E stays \in BOOLEAN : Hydrated(k, stays)
  \/ Attach \/ SessionSubscribed \/ TurnEnds \/ \E ok \in BOOLEAN : ProbeEnds(ok)
  \/ LoopStep \/ TimerFires
  \/ WatchStep \/ WatchFails \/ EventArrives
  \/ Edit \/ Commit \/ \E t \in Targets \union {None} : Move(t)
  \/ DisposeSession \/ DisposeService \/ DeleteFails \/ DeleteCommits
  \/ \E a \in Agents : StopStep(a)

Spec == Init /\ [][Next]_vars

-----------------------------------------------------------------------------
Disks == [target : Targets \union {None}, head : 0..(MaxCommits + 1), files : 0..MaxEdits, moves : 0..MaxMoves]

Loops ==
  [pc : {"none", "waiting", "probe", "inspecting", "closing", "joining", "watching", "computing", "ended"},
   aborted : BOOLEAN, workspace : Workspaces \union {None}, jobs : SUBSET Kinds, from : 0..MaxEdits]

Starts ==
  [pc : {"none", "opening", "acquiring", "releasing"}, aborted : BOOLEAN, target : Targets \union {None}]

Service ==
  [workspace : Workspaces \union {None}, suspended : BOOLEAN, disposed : BOOLEAN,
   probing : BOOLEAN, hydrating : SUBSET Kinds, requested : BOOLEAN, timer : BOOLEAN,
   loop : Loops, starting : Starts, watcher : Targets \union {None},
   closing : {"none", "awaiting", "releasing"}, event : BOOLEAN,
   completed : SUBSET Kinds, evictions : SUBSET Kinds, catalogue : SUBSET Kinds,
   store : [Kinds -> Channels \union {None}], subs : [Kinds -> 0..MaxSubscribers]]

Stops ==
  [Agents -> [phase : {"no", "suspending", "draining", "deleting", "done"}, removing : BOOLEAN,
              awaits : SUBSET {"probe", "refresh"}]]

TypeOK == disk \in Disks /\ st \in Service /\ stop \in Stops

(* No wake-up is stranded: while a refresh is asked for, or a channel with   *)
(* subscribers is shown as being computed, a loop runs that will see to it   *)
(* or a timer is set that starts one, whatever was aborted, suspended and    *)
(* resumed, or arrived between the loop's last check and its cleanup.        *)
NoWakeUpLost ==
  /\ st.requested => st.loop.pc # "none" \/ st.timer
  /\ ~st.suspended /\ ~st.disposed =>
       \A k \in Kinds :
         st.subs[k] > 0 /\ st.store[k].status \in {"computing", "recomputing"} =>
           \/ st.loop.pc \in {"waiting", "probe", "inspecting", "closing", "joining", "watching"} /\ ~st.loop.aborted
           \/ st.loop.pc = "computing" /\ ~st.loop.aborted /\ k \in st.loop.jobs
           \/ st.requested

(* Once a session, or the service, is disposed of nothing of it runs on: no *)
(* refresh, no watch, no timer, and no channel of a session that is gone. A *)
(* session that goes after the service was told to stop waits for nothing.  *)
NothingLeft ==
  LET sessionGone == stop["session"].phase = "done" /\ ~st.disposed
  IN  /\ sessionGone \/ stop["service"].phase = "done" =>
           /\ st.loop.pc = "none" /\ ~st.timer
           /\ st.watcher = None /\ st.starting.pc = "none" /\ st.closing # "releasing"
      /\ sessionGone => st.store = [k \in Kinds |-> None]

(* No refresh is running or asked for, and the watch of the repository has   *)
(* nothing to report.                                                        *)
Quiet ==
  /\ st.loop.pc = "none" /\ ~st.requested /\ ~st.timer /\ ~st.event
  /\ st.watcher # None /\ st.watcher = disk.target /\ st.closing = "none"

(* When the service is at rest, the uncommitted changes a subscriber is      *)
(* shown as ready are those of the present work tree: an edit before the     *)
(* watch is in the first scan, an edit during a scan brings another one.     *)
EditsShown ==
  LET shown == st.store["uncommitted"]
  IN  Quiet /\ st.subs["uncommitted"] > 0 /\ shown.status = "ready" => shown.content.files = disk.files

(* "Establish observation before scanning" (changeset-service.ts:431): at    *)
(* rest, what is shown as ready is relative to the present commit.           *)
CommitShown ==
  \A k \in Kinds :
    Quiet /\ st.subs[k] > 0 /\ st.store[k].status = "ready" => st.store[k].content.head = disk.head

(* While a session is suspended what its channels and its catalogue show    *)
(* does not change, until they go.                                          *)
SilentWhenSuspended ==
  [][st.suspended /\ st'.suspended =>
       /\ st'.catalogue \in {st.catalogue, {}}
       /\ \A k \in Kinds : st.store[k] # None => st'.store[k] \in {st.store[k], None}]_vars
=============================================================================
