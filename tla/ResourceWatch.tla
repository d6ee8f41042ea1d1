---------------------------- MODULE ResourceWatch ----------------------------
(***************************************************************************)
(* pi/resource-watch.ts over the shared pool: recursive watches of one     *)
(* directory. A watch is created while others use, fail or close the same  *)
(* native source, lives while somebody subscribes to its channel or a      *)
(* grace timer runs, and publishes the net effect of what it saw.          *)
(*                                                                         *)
(* Users of the pool that are not watches are the watchers of changesets:  *)
(* they acquire and close whenever they like.                              *)
(***************************************************************************)
EXTENDS ParcelWatchPool

CONSTANTS
    Watches,    \* createResourceWatch requests
    Clients,    \* subscribers of the watches' channels
    Paths       \* paths below the root that the filters let through

ASSUME WatchAssumption == Watches \subseteq Users

VARIABLES
    phase,      \* of each request and the watch it makes
    left,       \* the entry whose native source a watch closes or has closed, or 0
    grace,      \* watches with a graceTimer
    flush,      \* watches with a flushTimer
    batch,      \* ActiveWatch.pending
    subs,       \* subscribers of each channel
    disposal,   \* of the service: not begun, draining, done
    drained,    \* what dispose waits for
    present,    \* the files that exist
    told        \* history: the files each watch's batches speak of as existing

watchVars == <<phase, left, grace, flush, batch, subs>>
serviceVars == <<disposal, drained>>
fileVars == <<present, told>>
vars == <<poolVars, watchVars, serviceVars, fileVars>>

Others == Users \ Watches
Change == {"added", "updated", "deleted"}
NoChanges == [p \in Paths |-> "none"]

Active == {w \in Watches : phase[w] = "active"}

\* The create or the close of this watch is in #pending.
Pending(w) ==
    \/ phase[w] \in {"checking", "opening"}
    \/ left[w] # 0 /\ stage[left[w]] = "closing"

\* Mutant: a file that is replaced is reported as new.
MergeForgetful(previous, next) ==
    IF previous = "added" /\ next = "deleted" THEN "none" ELSE next

\* mergeChange
Merge(previous, next) ==
    CASE previous = "none" -> next
      [] previous = "added" -> IF next = "deleted" THEN "none" ELSE "added"
      [] previous \in {"deleted", "updated"} -> IF next = "deleted" THEN "deleted" ELSE "updated"

\* These watches are no longer active: timers and unpublished changes go with
\* them, and the native source if it was theirs alone.
Forget(ws, g) ==
    /\ phase' = [w \in Watches |-> IF w \in ws THEN "gone" ELSE phase[w]]
    /\ left' = [w \in Watches |-> IF w \in ws /\ refs'[g] = 0 THEN g ELSE left[w]]
    /\ grace' = grace \ ws
    /\ flush' = flush \ ws
    /\ batch' = [w \in Watches |-> IF w \in ws THEN NoChanges ELSE batch[w]]
    /\ subs' = [w \in Watches |-> IF w \in ws THEN {} ELSE subs[w]]

\* #release of watches that hold g.
Drop(ws, g) == Release(ws, g) /\ UNCHANGED <<made, broken>> /\ Forget(ws, g)

-----------------------------------------------------------------------------
(* Creation *)

\* A disposed service refuses at once.
Create(w) ==
    /\ phase[w] = "none"
    /\ phase' = [phase EXCEPT ![w] = IF disposal = "no" THEN "checking" ELSE "gone"]
    /\ UNCHANGED <<poolVars, left, grace, flush, batch, subs, serviceVars, fileVars>>

\* The path has been looked at. It may be missing or no directory, the service
\* may be disposed and the pool's entry may have failed.
Checked(w) ==
    /\ phase[w] = "checking"
    /\ \/ disposal = "no" /\ Acquire(w) /\ phase' = [phase EXCEPT ![w] = "opening"]
       \/ phase' = [phase EXCEPT ![w] = "gone"] /\ UNCHANGED poolVars
    /\ UNCHANGED <<left, grace, flush, batch, subs, serviceVars, fileVars>>

\* acquire has rejected: after the close, when it had a source to close.
Rejected(w) ==
    /\ phase[w] = "opening" /\ user[w] = "idle"
    /\ left[w] # 0 => stage[left[w]] # "closing"
    /\ phase' = [phase EXCEPT ![w] = "gone"]
    /\ UNCHANGED <<poolVars, left, grace, flush, batch, subs, serviceVars, fileVars>>

\* The channel exists, the listeners are attached and the grace timer runs.
Published(w) ==
    /\ phase[w] = "opening" /\ user[w] = "holding" /\ disposal = "no"
    /\ phase' = [phase EXCEPT ![w] = "active"]
    /\ grace' = grace \cup {w}
    /\ told' = [told EXCEPT ![w] = present]
    /\ UNCHANGED <<poolVars, left, flush, batch, subs, serviceVars, present>>

\* The service was disposed while the source opened: it is closed again.
TooLate(w) ==
    /\ phase[w] = "opening" /\ user[w] = "holding" /\ disposal # "no"
    /\ Drop({w}, of[w])
    /\ UNCHANGED <<serviceVars, fileVars>>

-----------------------------------------------------------------------------
(* A watch's life *)

Subscribe(c, w) ==
    /\ phase[w] = "active" /\ c \notin subs[w]
    /\ subs' = [subs EXCEPT ![w] = @ \cup {c}]
    /\ grace' = grace \ {w}
    /\ UNCHANGED <<poolVars, phase, left, flush, batch, serviceVars, fileVars>>

\* The last subscriber's departure starts the timer.
Unsubscribe(c, w) ==
    /\ phase[w] = "active" /\ c \in subs[w]
    /\ subs' = [subs EXCEPT ![w] = @ \ {c}]
    /\ grace' = IF subs'[w] = {} THEN grace \cup {w} ELSE grace
    /\ UNCHANGED <<poolVars, phase, left, flush, batch, serviceVars, fileVars>>

GraceFires(w) ==
    /\ w \in grace
    /\ IF subs[w] = {} THEN Drop({w}, of[w])
       ELSE grace' = grace \ {w} /\ UNCHANGED <<poolVars, phase, left, flush, batch, subs>>
    /\ UNCHANGED <<serviceVars, fileVars>>

\* #record, for every watch that listens. A timer runs while there is something
\* to publish.
FileChanges(p, change) ==
    /\ change = "added" <=> p \notin present
    /\ present' = IF change = "deleted" THEN present \ {p} ELSE present \cup {p}
    /\ batch' = [w \in Watches |->
                    IF w \in Active THEN [batch[w] EXCEPT ![p] = Merge(@, change)] ELSE batch[w]]
    /\ flush' = {w \in Watches : batch'[w] # NoChanges}
    /\ UNCHANGED <<poolVars, phase, left, grace, subs, serviceVars, told>>

FlushFires(w) ==
    /\ w \in flush
    /\ flush' = flush \ {w}
    /\ batch' = [batch EXCEPT ![w] = NoChanges]
    /\ told' = [told EXCEPT ![w] =
                   {p \in Paths : batch[w][p] \in {"added", "updated"} \/ (p \in @ /\ batch[w][p] # "deleted")}]
    /\ UNCHANGED <<poolVars, phase, left, grace, subs, serviceVars, present>>

\* The native source fails: active watches are released at once, a changeset's
\* watcher closes when it gets to it.
NativeFails(g) ==
    LET leaving == {w \in Active : of[w] = g} IN
    /\ SourceFails(g, leaving)
    /\ Forget(leaving, g)
    /\ UNCHANGED <<serviceVars, fileVars>>

\* A watch published after its source has failed is told in the next microtask.
LateError(w) ==
    /\ phase[w] = "active" /\ of[w] \in broken
    /\ Drop({w}, of[w])
    /\ UNCHANGED <<serviceVars, fileVars>>

-----------------------------------------------------------------------------
(* Disposal of the service *)

\* Mutant: waits for what it closes itself only.
DisposeHasty ==
    /\ disposal = "no"
    /\ disposal' = "draining"
    /\ drained' = Active
    /\ IF Active = {} THEN UNCHANGED <<poolVars, watchVars>>
       ELSE \E g \in {of[w] : w \in Active} : Drop(Active, g)
    /\ UNCHANGED fileVars

\* Mutant: watches that still wait for their source are released as well.
DisposeImpatient ==
    LET served == {w \in Watches : of[w] # 0} IN
    /\ disposal = "no"
    /\ disposal' = "draining"
    /\ drained' = served \cup {w \in Watches : Pending(w)}
    /\ IF served = {} THEN UNCHANGED <<poolVars, watchVars>>
       ELSE \E g \in {of[w] : w \in served} : Drop({w \in served : of[w] = g}, g)
    /\ UNCHANGED fileVars

\* Active watches are released; creations and closes under way are waited for.
Dispose ==
    /\ disposal = "no"
    /\ disposal' = "draining"
    /\ drained' = Active \cup {w \in Watches : Pending(w)}
    /\ IF Active = {} THEN UNCHANGED <<poolVars, watchVars>>
       ELSE \E g \in {of[w] : w \in Active} : Drop(Active, g)
    /\ UNCHANGED fileVars

DisposalEnds ==
    /\ disposal = "draining" /\ \A w \in drained : ~Pending(w)
    /\ disposal' = "done"
    /\ UNCHANGED <<poolVars, watchVars, drained, fileVars>>

-----------------------------------------------------------------------------
(* The pool's own steps and its other users *)

SourceSettles(g) ==
    /\ OpenSucceeds(g) \/ OpenFails(g) \/ CloseSettles(g)
    /\ UNCHANGED <<watchVars, serviceVars, fileVars>>

\* Of those who waited for a source that came broken, the last one's acquire
\* closes it.
SourceBreaks(g) ==
    /\ OpensBroken(g)
    /\ \E last \in Waiters(g) : left' = [w \in Watches |-> IF w = last THEN g ELSE left[w]]
    /\ UNCHANGED <<phase, grace, flush, batch, subs, serviceVars, fileVars>>

OtherAcquires(u) == Acquire(u) /\ UNCHANGED <<watchVars, serviceVars, fileVars>>

OtherCloses(u) ==
    /\ user[u] = "holding"
    /\ CloseHandles({u}, of[u])
    /\ UNCHANGED <<watchVars, serviceVars, fileVars>>

Init ==
    /\ PoolInit
    /\ phase = [w \in Watches |-> "none"] /\ left = [w \in Watches |-> 0]
    /\ grace = {} /\ flush = {} /\ batch = [w \in Watches |-> NoChanges]
    /\ subs = [w \in Watches |-> {}]
    /\ disposal = "no" /\ drained = {}
    /\ present \in SUBSET Paths /\ told = [w \in Watches |-> {}]

CreateStep(w) == Checked(w) \/ Rejected(w) \/ Published(w) \/ TooLate(w)

Next ==
    \/ \E w \in Watches :
          \/ Create(w) \/ CreateStep(w) \/ GraceFires(w) \/ FlushFires(w) \/ LateError(w)
          \/ \E c \in Clients : Subscribe(c, w) \/ Unsubscribe(c, w)
    \/ \E p \in Paths, change \in Change : FileChanges(p, change)
    \/ \E g \in Entry : NativeFails(g) \/ SourceSettles(g) \/ SourceBreaks(g)
    \/ \E u \in Others : OtherAcquires(u) \/ OtherCloses(u)
    \/ Dispose \/ DisposalEnds

Spec == Init /\ [][Next]_vars

\* Timers fire, continuations run, and the native library answers.
FairSpec ==
    /\ Spec /\ WF_vars(DisposalEnds)
    /\ \A w \in Watches : WF_vars(CreateStep(w)) /\ WF_vars(GraceFires(w)) /\ WF_vars(LateError(w))
    /\ \A g \in Entry : WF_vars(SourceSettles(g) \/ SourceBreaks(g))

-----------------------------------------------------------------------------
(* Properties *)

TypeOK ==
    /\ PoolTypeOK
    /\ phase \in [Watches -> {"none", "checking", "opening", "active", "gone"}]
    /\ left \in [Watches -> 0..MaxEntries] /\ grace \subseteq Watches /\ flush \subseteq Watches
    /\ batch \in [Watches -> [Paths -> Change \cup {"none"}]]
    /\ subs \in [Watches -> SUBSET Clients]
    /\ disposal \in {"no", "draining", "done"} /\ drained \subseteq Watches
    /\ present \subseteq Paths /\ told \in [Watches -> SUBSET Paths]

\* Handles are not retained for nobody: a watch without subscribers is on its way
\* out, and only an active watch keeps its source (resource-watch.ts:242, 304).
UnwatchedExpires ==
    \A w \in Watches :
        /\ phase[w] = "active" /\ subs[w] = {} => w \in grace
        /\ of[w] # 0 => phase[w] \in {"opening", "active"}

\* The change takes a path from what was told of it to what it is.
Accounts(change, known, exists) ==
    CASE change = "none" -> known <=> exists
      [] change = "added" -> ~known /\ exists
      [] change = "updated" -> known /\ exists
      [] change = "deleted" -> known /\ ~exists

\* What a watch has published and what waits in its batch add up to the files
\* there are: coalescing loses no transition and invents none
\* (resource-watch-policy.ts:24).
BatchIsNetChange ==
    \A w \in Active : \A p \in Paths : Accounts(batch[w][p], p \in told[w], p \in present)

\* When dispose has resolved the service holds no native handle and nothing of
\* its is still opening or closing (resource-watch.ts:142).
DisposalDrains ==
    disposal = "done" => \A w \in Watches : of[w] = 0 /\ ~Pending(w) /\ phase[w] # "active"

\* A create is answered, whatever the previous owner of the root is doing.
CreatesSettle == \A w \in Watches : phase[w] \in {"checking", "opening"} ~> phase[w] \in {"active", "gone"}

=============================================================================
