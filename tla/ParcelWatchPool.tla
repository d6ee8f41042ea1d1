--------------------------- MODULE ParcelWatchPool ---------------------------
(***************************************************************************)
(* pi/parcel-watch-pool.ts for one canonical root: acquirers share one     *)
(* native recursive subscription, opened for the first and closed after    *)
(* the last of them.                                                       *)
(*                                                                         *)
(* Entries of the root are numbered. A promise that settles is one step    *)
(* with the continuations that wait for it: they run before any later job. *)
(***************************************************************************)
EXTENDS Integers, FiniteSets

CONSTANTS
    Users,          \* callers of acquire
    MaxEntries      \* bound on entries made for the root

ASSUME PoolAssumption == IsFiniteSet(Users) /\ MaxEntries \in Nat

VARIABLES
    entry,      \* #entries.get(root), 0 when there is none
    made,       \* entries made so far
    stage,      \* of the native source behind each entry
    refs,       \* SharedEntry.refs
    broken,     \* entries with failed set
    closing,    \* #closing.get(root): the entry that is being closed, or 0
    user,       \* where each caller is: it waits for acquire, or holds a source
    of          \* the entry it waits for or holds

poolVars == <<entry, made, stage, refs, broken, closing, user, of>>

Entry == 1..MaxEntries
Stage == {"none", "queued", "opening", "open", "closing", "closed", "failed"}

Holders(g) == {u \in Users : of[u] = g /\ user[u] = "holding"}
Waiters(g) == {u \in Users : of[u] = g /\ user[u] = "waiting"}

\* These callers have their answer: a rejection, or the end of their close.
Dismiss(us) ==
    /\ user' = [u \in Users |-> IF u \in us THEN "idle" ELSE user[u]]
    /\ of' = [u \in Users |-> IF u \in us THEN 0 ELSE of[u]]

CloseSource(g) ==
    /\ entry' = IF entry = g THEN 0 ELSE entry
    /\ stage' = [stage EXCEPT ![g] = "closing"]
    /\ closing' = g

\* Mutant: a source that has failed is not closed.
ReleaseSound(us, g) ==
    /\ Dismiss(us)
    /\ refs' = [refs EXCEPT ![g] = @ - Cardinality(us)]
    /\ IF refs'[g] > 0 \/ g \in broken' THEN UNCHANGED <<entry, stage, closing>> ELSE CloseSource(g)

\* #release, for each of these users of an open source: the last one closes it.
Release(us, g) ==
    /\ Dismiss(us)
    /\ refs' = [refs EXCEPT ![g] = @ - Cardinality(us)]
    /\ IF refs'[g] > 0 THEN UNCHANGED <<entry, stage, closing>> ELSE CloseSource(g)

\* An entry that has failed refuses until its last user is gone.
Join(u) ==
    /\ entry # 0 /\ entry \notin broken
    /\ refs' = [refs EXCEPT ![entry] = @ + 1]
    /\ user' = [user EXCEPT ![u] = IF stage[entry] = "open" THEN "holding" ELSE "waiting"]
    /\ of' = [of EXCEPT ![u] = entry]
    /\ UNCHANGED <<entry, made, stage, broken, closing>>

NewEntry(u, first) ==
    /\ entry = 0 /\ made < MaxEntries
    /\ made' = made + 1 /\ entry' = made + 1
    /\ stage' = [stage EXCEPT ![made + 1] = first]
    /\ refs' = [refs EXCEPT ![made + 1] = 1]
    /\ user' = [user EXCEPT ![u] = "waiting"]
    /\ of' = [of EXCEPT ![u] = made + 1]
    /\ UNCHANGED <<broken, closing>>

\* Mutant: does not wait for the previous source to close.
CreateEntryAtOnce(u) == NewEntry(u, "opening")

\* #createEntry: the native source is opened when the previous one is closed.
CreateEntry(u) == NewEntry(u, IF closing = 0 THEN "opening" ELSE "queued")

Acquire(u) == user[u] = "idle" /\ (Join(u) \/ CreateEntry(u))

OpenSucceeds(g) ==
    /\ stage[g] = "opening"
    /\ stage' = [stage EXCEPT ![g] = "open"]
    /\ user' = [u \in Users |-> IF u \in Waiters(g) THEN "holding" ELSE user[u]]
    /\ UNCHANGED <<entry, made, refs, broken, closing, of>>

\* The source reports an error before its users have resumed: they are refused
\* and the last one closes it.
OpensBroken(g) ==
    /\ stage[g] = "opening"
    /\ broken' = broken \cup {g}
    /\ Release(Waiters(g), g)
    /\ UNCHANGED made

\* The entry is forgotten and its users refused. What the last of them leaves in
\* #closing has nothing to wait for and is gone at once.
OpenRejects(g) ==
    /\ entry' = IF entry = g THEN 0 ELSE entry
    /\ refs' = [refs EXCEPT ![g] = @ - Cardinality(Waiters(g))]
    /\ closing' = 0
    /\ Dismiss(Waiters(g))
    /\ UNCHANGED <<made, broken>>

OpenFails(g) ==
    /\ stage[g] = "opening"
    /\ stage' = [stage EXCEPT ![g] = "failed"]
    /\ OpenRejects(g)

\* Mutant: the next entry is not told.
CloseForgets(g) ==
    /\ stage[g] = "closing"
    /\ stage' = [stage EXCEPT ![g] = "closed"]
    /\ closing' = IF closing = g THEN 0 ELSE closing
    /\ UNCHANGED <<entry, made, refs, broken, user, of>>

\* The native source is closed; an entry that waited for that opens its own.
CloseSucceeds(g) ==
    /\ stage[g] = "closing"
    /\ stage' = [h \in Entry |-> IF h = g THEN "closed" ELSE IF stage[h] = "queued" THEN "opening" ELSE stage[h]]
    /\ closing' = IF closing = g THEN 0 ELSE closing
    /\ UNCHANGED <<entry, made, refs, broken, user, of>>

\* The close of the old source fails, and with it the entry that waited.
CloseFails(g) ==
    /\ stage[g] = "closing"
    /\ stage' = [h \in Entry |-> IF h = g THEN "closed" ELSE IF stage[h] = "queued" THEN "failed" ELSE stage[h]]
    /\ IF \E h \in Entry : stage[h] = "queued"
       THEN \E h \in Entry : stage[h] = "queued" /\ OpenRejects(h)
       ELSE /\ closing' = IF closing = g THEN 0 ELSE closing
            /\ UNCHANGED <<entry, made, refs, broken, user, of>>

\* An open source reports an error to its users. Those in `leaving' close their
\* handle when they are told.
SourceFails(g, leaving) ==
    /\ stage[g] = "open" /\ g \notin broken
    /\ broken' = broken \cup {g}
    /\ IF leaving = {} THEN UNCHANGED <<entry, stage, refs, closing, user, of>>
       ELSE Release(leaving, g)
    /\ UNCHANGED made

\* Users close their handles in one job of the event loop.
CloseHandles(us, g) ==
    /\ us # {}
    /\ Release(us, g)
    /\ UNCHANGED <<made, broken>>

-----------------------------------------------------------------------------
PoolInit ==
    /\ entry = 0 /\ made = 0 /\ closing = 0 /\ broken = {}
    /\ stage = [g \in Entry |-> "none"]
    /\ refs = [g \in Entry |-> 0]
    /\ user = [u \in Users |-> "idle"]
    /\ of = [u \in Users |-> 0]

\* What the native source answers.
OpenSettles(g) == OpenSucceeds(g) \/ OpensBroken(g) \/ OpenFails(g)
CloseSettles(g) == CloseSucceeds(g) \/ CloseFails(g)

PoolNext ==
    \/ \E u \in Users : Acquire(u)
    \/ \E g \in Entry :
          \/ OpenSettles(g) \/ CloseSettles(g)
          \/ \E us \in SUBSET Holders(g) : SourceFails(g, us) \/ CloseHandles(us, g)

PoolSpec == PoolInit /\ [][PoolNext]_poolVars

-----------------------------------------------------------------------------
(* Properties *)

PoolTypeOK ==
    /\ entry \in 0..MaxEntries /\ made \in 0..MaxEntries /\ closing \in 0..MaxEntries
    /\ stage \in [Entry -> Stage] /\ refs \in [Entry -> Nat] /\ broken \subseteq Entry
    /\ user \in [Users -> {"idle", "waiting", "holding"}] /\ of \in [Users -> 0..MaxEntries]

\* A root never has two native subscriptions, not even while one is closing
\* (parcel-watch-pool.ts:75).
OneNativeSource ==
    \A g, h \in Entry :
        stage[g] \in {"opening", "open", "closing"} /\ stage[h] \in {"opening", "open", "closing"} => g = h

\* A source is not closed under somebody who holds it, and whoever waits is
\* waiting for something (parcel-watch-pool.ts:122).
HoldersHaveSource ==
    \A u \in Users :
        /\ user[u] = "holding" => stage[of[u]] = "open"
        /\ user[u] = "waiting" => stage[of[u]] \in {"queued", "opening"}

\* No native subscription is left to nobody, whatever failed
\* (parcel-watch-pool.ts:98, 122).
OpenSourceIsUsed ==
    \A g \in Entry : stage[g] \in {"queued", "opening", "open"} => \E u \in Users : of[u] = g
=============================================================================
