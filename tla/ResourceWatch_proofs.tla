------------------------- MODULE ResourceWatch_proofs -------------------------
(***************************************************************************)
(* Proofs about ParcelWatchPool, for any finite set of users and any       *)
(* number of entries, and about ResourceWatch, for any watches, clients,   *)
(* paths and bound on entries: it uses the pool as the pool expects, and   *)
(* keeps its own safety properties.                                        *)
(*                                                                         *)
(* The pool's invariant, PoolInv, says which entry is current and what its *)
(* stage has to do with the close that is pending, and that a reference    *)
(* count is the number of users who wait for the entry or hold its source. *)
(* WatchInv adds what a watch's phase says about its place in the pool,    *)
(* and that whatever is still opening or closing after dispose is among    *)
(* what dispose waits for.                                                 *)
(***************************************************************************)
EXTENDS ResourceWatch, FiniteSetTheorems, TLAPS

(* The pool *)

UsersOf(g) == {u \in Users : of[u] = g}

Live == {"queued", "opening", "open"}

EntryInv ==
    /\ entry <= made
    /\ \A g \in Entry : g > made => stage[g] = "none"
    /\ \A g \in Entry : stage[g] \in Live <=> entry = g
    /\ \A g \in Entry : stage[g] = "closing" <=> closing = g
    /\ entry # 0 => (stage[entry] = "queued" <=> closing # 0)

UserInv ==
    \A u \in Users :
        /\ user[u] = "idle" <=> of[u] = 0
        /\ user[u] # "idle" => of[u] = entry
        /\ user[u] = "waiting" => stage[entry] \in {"queued", "opening"}
        /\ user[u] = "holding" => stage[entry] = "open"

CountInv ==
    /\ \A g \in Entry : refs[g] = Cardinality(UsersOf(g))
    /\ entry # 0 => UsersOf(entry) # {}

PoolInv == PoolTypeOK /\ EntryInv /\ UserInv /\ CountInv

LEMMA EntryNumbers == MaxEntries \in Nat /\ Entry = 1..MaxEntries /\ 0 \notin Entry
BY PoolAssumption DEF Entry

LEMMA PoolInitInv == PoolInit => PoolInv
<1> SUFFICES ASSUME PoolInit PROVE PoolInv
  OBVIOUS
<1>1. PoolTypeOK
  BY EntryNumbers DEF PoolInit, PoolTypeOK, Stage
<1>2. EntryInv
  BY EntryNumbers DEF PoolInit, EntryInv, Live
<1>3. UserInv
  BY DEF PoolInit, UserInv
<1>4. ASSUME NEW g \in Entry PROVE refs[g] = Cardinality(UsersOf(g))
  <2>1. UsersOf(g) = {}
    BY EntryNumbers DEF PoolInit, UsersOf
  <2> QED BY <2>1, FS_EmptySet DEF PoolInit
<1> QED BY <1>1, <1>2, <1>3, <1>4 DEF PoolInv, CountInv, PoolInit

-----------------------------------------------------------------------------
(* Users who leave, and users who join *)

LEMMA UsersFinite ==
    ASSUME NEW g, NEW us \in SUBSET UsersOf(g)
    PROVE  IsFiniteSet(UsersOf(g)) /\ IsFiniteSet(us) /\ Cardinality(us) \in Nat
BY PoolAssumption, FS_Subset, FS_CardinalityType DEF UsersOf

Departure(us, g) ==
    /\ refs' \in [Entry -> Nat]
    /\ \A h \in Entry : refs'[h] = Cardinality(UsersOf(h)')
    /\ UsersOf(g)' = UsersOf(g) \ us
    /\ refs'[g] = 0 <=> UsersOf(g) \ us = {}
    /\ user' \in [Users -> {"idle", "waiting", "holding"}] /\ of' \in [Users -> 0..MaxEntries]
    /\ \A u \in Users : IF u \in us THEN user'[u] = "idle" /\ of'[u] = 0
                        ELSE user'[u] = user[u] /\ of'[u] = of[u]

LEMMA Dismissed ==
    ASSUME PoolInv, NEW g \in Entry, NEW us \in SUBSET UsersOf(g), Dismiss(us),
           refs' = [refs EXCEPT ![g] = @ - Cardinality(us)]
    PROVE  Departure(us, g)
<1>1. /\ user' \in [Users -> {"idle", "waiting", "holding"}] /\ of' \in [Users -> 0..MaxEntries]
      /\ \A u \in Users : IF u \in us THEN user'[u] = "idle" /\ of'[u] = 0
                          ELSE user'[u] = user[u] /\ of'[u] = of[u]
  <2>1. /\ user \in [Users -> {"idle", "waiting", "holding"}] /\ of \in [Users -> 0..MaxEntries]
        /\ 0 \in 0..MaxEntries
    BY EntryNumbers DEF PoolInv, PoolTypeOK
  <2>2. /\ user' = [u \in Users |-> IF u \in us THEN "idle" ELSE user[u]]
        /\ of' = [u \in Users |-> IF u \in us THEN 0 ELSE of[u]]
    BY DEF Dismiss
  <2>3. user' \in [Users -> {"idle", "waiting", "holding"}]
    BY <2>1, <2>2
  <2>4. of' \in [Users -> 0..MaxEntries]
    BY <2>1, <2>2
  <2> QED BY <2>2, <2>3, <2>4
<1>2. UsersOf(g)' = UsersOf(g) \ us /\ \A h \in Entry \ {g} : UsersOf(h)' = UsersOf(h)
  BY <1>1, EntryNumbers DEF UsersOf
<1>3. IsFiniteSet(UsersOf(g)) /\ us \cap UsersOf(g) = us /\ UsersOf(g) \cap us = us
  BY UsersFinite
<1>4. Cardinality(UsersOf(g) \ us) = Cardinality(UsersOf(g)) - Cardinality(us)
      /\ IsFiniteSet(UsersOf(g) \ us)
  <2>1. IsFiniteSet(us)
    BY <1>3, FS_Subset
  <2> QED BY <1>3, <2>1, FS_Difference
<1>5. Cardinality(UsersOf(g) \ us) \in Nat
      /\ (Cardinality(UsersOf(g) \ us) = 0 <=> UsersOf(g) \ us = {})
  BY <1>4, FS_CardinalityType, FS_EmptySet
<1>6. refs \in [Entry -> Nat] /\ \A h \in Entry : refs[h] = Cardinality(UsersOf(h))
  BY DEF PoolInv, PoolTypeOK, CountInv
<1>7. refs'[g] = Cardinality(UsersOf(g) \ us) /\ \A h \in Entry \ {g} : refs'[h] = refs[h]
  BY <1>4, <1>6
<1>8. refs' \in [Entry -> Nat]
  BY <1>5, <1>6, <1>7
<1> QED BY <1>1, <1>2, <1>5, <1>6, <1>7, <1>8 DEF Departure

LEMMA ReleaseInv ==
    ASSUME PoolInv, NEW g \in Entry, entry = g, closing = 0,
           NEW us \in SUBSET UsersOf(g), Release(us, g),
           UNCHANGED made, broken' \subseteq Entry,
           stage[g] = "open" \/ us = UsersOf(g)
    PROVE  PoolInv'
<1> USE EntryNumbers
<1>1. Departure(us, g)
  BY Dismissed DEF Release
<1>2. CASE refs'[g] > 0
  <2>1. UNCHANGED <<entry, stage, closing>>
    BY <1>2 DEF Release
  <2>2. UsersOf(g) \ us # {} /\ stage[g] = "open"
    BY <1>1, <1>2 DEF Departure
  <2>3. PoolTypeOK' /\ EntryInv'
    BY <1>1, <2>1 DEF Departure, PoolInv, PoolTypeOK, EntryInv
  <2>4. UserInv'
    BY <1>1, <2>1 DEF Departure, PoolInv, UserInv
  <2>5. CountInv'
    BY <1>1, <2>1, <2>2 DEF Departure, CountInv
  <2> QED BY <2>3, <2>4, <2>5 DEF PoolInv
<1>3. CASE ~(refs'[g] > 0)
  <2>1. entry' = 0 /\ stage' = [stage EXCEPT ![g] = "closing"] /\ closing' = g
    BY <1>3 DEF Release, CloseSource
  <2>2. UsersOf(g) = us
    <3>1. refs'[g] = 0
      BY <1>1, <1>3 DEF Departure
    <3> QED BY <1>1, <3>1 DEF Departure
  <2>3. PoolTypeOK'
    BY <1>1, <2>1 DEF Departure, PoolInv, PoolTypeOK, Stage
  <2>4. EntryInv'
    BY <2>1 DEF PoolInv, EntryInv, Live, PoolTypeOK
  <2>5. \A u \in Users : user'[u] = "idle" /\ of'[u] = 0
    <3>1. \A u \in Users \ us : user[u] = "idle" /\ of[u] = 0
      BY <2>2 DEF PoolInv, UserInv, UsersOf
    <3> QED BY <1>1, <3>1 DEF Departure
  <2>6. UserInv' /\ CountInv'
    BY <1>1, <2>1, <2>5 DEF Departure, UserInv, CountInv
  <2> QED BY <2>3, <2>4, <2>6 DEF PoolInv
<1> QED BY <1>2, <1>3

LEMMA Joined ==
    ASSUME PoolInv, NEW u \in Users, user[u] = "idle", NEW g \in Entry,
           of' = [of EXCEPT ![u] = g], entry' = g,
           \A h \in Entry : refs'[h] = IF h = g THEN refs[h] + 1 ELSE refs[h]
    PROVE  CountInv'
<1>1. of[u] = 0
  BY DEF PoolInv, UserInv
<1>2. UsersOf(g)' = UsersOf(g) \cup {u} /\ \A h \in Entry \ {g} : UsersOf(h)' = UsersOf(h)
  BY <1>1, EntryNumbers DEF UsersOf, PoolInv, PoolTypeOK
<1>3. IsFiniteSet(UsersOf(g)) /\ u \notin UsersOf(g)
  BY <1>1, EntryNumbers, UsersFinite DEF UsersOf
<1>4. Cardinality(UsersOf(g)') = refs[g] + 1
  BY <1>2, <1>3, FS_AddElement DEF PoolInv, CountInv
<1>5. ASSUME NEW h \in Entry PROVE refs'[h] = Cardinality(UsersOf(h)')
  BY <1>2, <1>4 DEF PoolInv, CountInv
<1>6. UsersOf(entry)' # {}
  <2>1. u \in UsersOf(g)'
    BY <1>2
  <2> QED BY <2>1 DEF UsersOf
<1> QED BY <1>5, <1>6 DEF CountInv

LEMMA AcquireInv == ASSUME PoolInv, NEW u \in Users, Acquire(u) PROVE PoolInv'
<1> USE EntryNumbers
<1>1. CASE Join(u)
  <2>1. /\ entry \in Entry /\ refs' = [refs EXCEPT ![entry] = @ + 1]
        /\ of' = [of EXCEPT ![u] = entry]
        /\ user' = [user EXCEPT ![u] = IF stage[entry] = "open" THEN "holding" ELSE "waiting"]
        /\ UNCHANGED <<entry, made, stage, broken, closing>>
    BY <1>1 DEF Join, PoolInv, PoolTypeOK
  <2>2. PoolTypeOK' /\ EntryInv'
    BY <2>1 DEF PoolInv, PoolTypeOK, EntryInv
  <2>3. UserInv'
    BY <2>1 DEF PoolInv, UserInv, EntryInv, PoolTypeOK, Live
  <2>4. CountInv'
    <3>1. \A g \in Entry : refs'[g] = IF g = entry THEN refs[g] + 1 ELSE refs[g]
      BY <2>1 DEF PoolInv, PoolTypeOK
    <3> QED BY <2>1, <3>1, Joined DEF Acquire
  <2> QED BY <2>2, <2>3, <2>4 DEF PoolInv
<1>2. CASE CreateEntry(u)
  <2> DEFINE g == made + 1
  <2>1. /\ g \in Entry /\ entry = 0 /\ entry' = g /\ made' = g
        /\ stage' = [stage EXCEPT ![g] = IF closing = 0 THEN "opening" ELSE "queued"]
        /\ refs' = [refs EXCEPT ![g] = 1] /\ of' = [of EXCEPT ![u] = g]
        /\ user' = [user EXCEPT ![u] = "waiting"] /\ UNCHANGED <<broken, closing>>
    BY <1>2 DEF CreateEntry, NewEntry, PoolInv, PoolTypeOK
  <2>2. PoolTypeOK'
    BY <2>1 DEF PoolInv, PoolTypeOK, Stage
  <2>3. EntryInv'
    BY <2>1 DEF PoolInv, PoolTypeOK, EntryInv, Live
  <2>4. \A v \in Users : user[v] = "idle" /\ of[v] = 0
    BY <2>1 DEF PoolInv, UserInv
  <2>5. UserInv'
    BY <2>1, <2>4 DEF PoolInv, UserInv, PoolTypeOK
  <2>6. CountInv'
    <3>1. UsersOf(g) = {} /\ refs[g] = 0
      BY <2>1, <2>4, FS_EmptySet DEF UsersOf, PoolInv, CountInv
    <3>2. \A h \in Entry : refs'[h] = IF h = g THEN refs[h] + 1 ELSE refs[h]
      BY <2>1, <3>1 DEF PoolInv, PoolTypeOK
    <3> QED BY <2>1, <3>2, Joined DEF Acquire
  <2> QED BY <2>2, <2>3, <2>5, <2>6 DEF PoolInv
<1> QED BY <1>1, <1>2 DEF Acquire

-----------------------------------------------------------------------------
(* The native source *)

LEMMA Current ==
    ASSUME PoolInv, NEW g \in Entry, stage[g] \in {"opening", "open"}
    PROVE  /\ entry = g /\ closing = 0
           /\ stage[g] = "opening" => Waiters(g) = UsersOf(g)
           /\ Waiters(g) \subseteq UsersOf(g) /\ Holders(g) \subseteq UsersOf(g)
<1>1. entry = g /\ closing = 0
  BY EntryNumbers DEF PoolInv, EntryInv, Live, PoolTypeOK
<1> QED BY <1>1, EntryNumbers DEF PoolInv, UserInv, PoolTypeOK, Waiters, Holders, UsersOf

LEMMA OpenSucceedsInv == ASSUME PoolInv, NEW g \in Entry, OpenSucceeds(g) PROVE PoolInv'
<1> USE EntryNumbers
<1>1. /\ entry = g /\ stage[g] = "opening" /\ stage' = [stage EXCEPT ![g] = "open"]
      /\ user' = [u \in Users |-> IF u \in Waiters(g) THEN "holding" ELSE user[u]]
      /\ UNCHANGED <<entry, made, refs, broken, closing, of>>
  BY Current DEF OpenSucceeds
<1>2. PoolTypeOK' /\ EntryInv'
  BY <1>1 DEF PoolInv, PoolTypeOK, EntryInv, Stage, Live
<1>3. UserInv'
  BY <1>1, Current DEF PoolInv, PoolTypeOK, UserInv, Waiters, UsersOf
<1>4. CountInv'
  BY <1>1 DEF PoolInv, CountInv, UsersOf
<1> QED BY <1>2, <1>3, <1>4 DEF PoolInv

\* An entry that never opened is forgotten.
LEMMA RejectInv ==
    ASSUME PoolInv, NEW g \in Entry, entry = g, Waiters(g) = UsersOf(g), OpenRejects(g),
           NEW other \in 0..MaxEntries, other # g, closing = other,
           stage' = [h \in Entry |-> IF h = g THEN "failed" ELSE IF h = other THEN "closed" ELSE stage[h]]
    PROVE  PoolInv'
<1> USE EntryNumbers
<1>1. /\ entry' = 0 /\ closing' = 0 /\ Dismiss(Waiters(g)) /\ UNCHANGED <<made, broken>>
      /\ refs' = [refs EXCEPT ![g] = @ - Cardinality(Waiters(g))]
  BY DEF OpenRejects
<1>d. Departure(Waiters(g), g)
  BY <1>1, Dismissed
<1>2. PoolTypeOK'
  BY <1>1, <1>d DEF Departure, PoolInv, PoolTypeOK, Stage
<1>3. EntryInv'
  BY <1>1 DEF PoolInv, PoolTypeOK, EntryInv, Live
<1>4. \A u \in Users : user'[u] = "idle" /\ of'[u] = 0
  <2>1. \A u \in Users \ Waiters(g) : user[u] = "idle" /\ of[u] = 0
    BY DEF PoolInv, UserInv, UsersOf
  <2> QED BY <1>d, <2>1 DEF Departure
<1>5. UserInv' /\ CountInv'
  BY <1>1, <1>d, <1>4 DEF Departure, UserInv, CountInv
<1> QED BY <1>2, <1>3, <1>5 DEF PoolInv

LEMMA OpenFailsInv == ASSUME PoolInv, NEW g \in Entry, OpenFails(g) PROVE PoolInv'
<1>1. stage[g] = "opening" /\ stage' = [stage EXCEPT ![g] = "failed"] /\ OpenRejects(g)
  BY DEF OpenFails
<1>2. entry = g /\ closing = 0 /\ Waiters(g) = UsersOf(g)
  BY <1>1, Current
<1>3. stage' = [h \in Entry |-> IF h = g THEN "failed" ELSE IF h = 0 THEN "closed" ELSE stage[h]]
  BY <1>1, EntryNumbers DEF PoolInv, PoolTypeOK
<1>4. 0 \in 0..MaxEntries /\ 0 # g
  BY EntryNumbers
<1> QED BY <1>1, <1>2, <1>3, <1>4, RejectInv

LEMMA QueuedEntry ==
    ASSUME PoolInv, NEW g \in Entry, stage[g] = "closing"
    PROVE  /\ closing = g
           /\ \A h \in Entry : stage[h] = "queued" <=> entry = h
           /\ \A h \in Entry : stage[h] = "queued" => h # g /\ Waiters(h) = UsersOf(h)
<1> USE EntryNumbers
<1>1. closing = g /\ \A h \in Entry : stage[h] = "queued" <=> entry = h
  BY DEF PoolInv, EntryInv, Live, PoolTypeOK
<1> QED BY <1>1 DEF PoolInv, UserInv, PoolTypeOK, Waiters, UsersOf

LEMMA CloseSettlesInv == ASSUME PoolInv, NEW g \in Entry, CloseSettles(g) PROVE PoolInv'
<1> USE EntryNumbers
<1>1. stage[g] = "closing"
  BY DEF CloseSettles, CloseSucceeds, CloseFails
<1>2. CASE CloseSucceeds(g) \/ (CloseFails(g) /\ \A h \in Entry : stage[h] # "queued")
  <2>1. /\ closing' = 0 /\ UNCHANGED <<entry, made, refs, broken, user, of>>
        /\ stage' = [h \in Entry |-> IF h = g THEN "closed" ELSE IF stage[h] = "queued" THEN "opening" ELSE stage[h]]
    BY <1>1, <1>2, QueuedEntry DEF CloseSucceeds, CloseFails
  <2>2. PoolTypeOK'
    BY <2>1 DEF PoolInv, PoolTypeOK, Stage
  <2>3. EntryInv'
    BY <1>1, <2>1, QueuedEntry DEF PoolInv, PoolTypeOK, EntryInv, Live
  <2>4. UserInv'
    BY <1>1, <2>1, QueuedEntry DEF PoolInv, PoolTypeOK, UserInv, EntryInv, Live
  <2>5. CountInv'
    BY <2>1 DEF PoolInv, CountInv, UsersOf
  <2> QED BY <2>2, <2>3, <2>4, <2>5 DEF PoolInv
<1>3. CASE CloseFails(g) /\ \E h \in Entry : stage[h] = "queued"
  <2>1. PICK h \in Entry : stage[h] = "queued" /\ OpenRejects(h)
    BY <1>3 DEF CloseFails
  <2>2. entry = h /\ closing = g /\ h # g /\ Waiters(h) = UsersOf(h)
    BY <1>1, <2>1, QueuedEntry
  <2>3. stage' = [k \in Entry |-> IF k = h THEN "failed" ELSE IF k = g THEN "closed" ELSE stage[k]]
    BY <1>1, <1>3, <2>1, <2>2, QueuedEntry DEF CloseFails
  <2> QED BY <2>1, <2>2, <2>3, RejectInv
<1> QED BY <1>2, <1>3 DEF CloseSettles, CloseFails

LEMMA PoolNextInv == ASSUME PoolInv, [PoolNext]_poolVars PROVE PoolInv'
<1>1. CASE \E u \in Users : Acquire(u)
  BY <1>1, AcquireInv
<1>2. ASSUME NEW g \in Entry, OpensBroken(g) PROVE PoolInv'
  BY <1>2, Current, ReleaseInv DEF OpensBroken, PoolInv, PoolTypeOK
<1>3. ASSUME NEW g \in Entry, OpenSettles(g) \/ CloseSettles(g) PROVE PoolInv'
  BY <1>2, <1>3, OpenSucceedsInv, OpenFailsInv, CloseSettlesInv DEF OpenSettles
<1>4. ASSUME NEW g \in Entry, NEW us \in SUBSET Holders(g), SourceFails(g, us) \/ CloseHandles(us, g)
      PROVE  PoolInv'
  <2>1. CASE us = {} /\ SourceFails(g, us)
    <3>1. UNCHANGED <<entry, made, stage, refs, closing, user, of>> /\ broken' = broken \cup {g}
      BY <2>1 DEF SourceFails
    <3> QED BY <3>1 DEF PoolInv, PoolTypeOK, EntryInv, UserInv, CountInv, UsersOf
  <2>2. CASE us # {}
    <3>1. stage[g] = "open"
      BY <2>2 DEF Holders, PoolInv, UserInv
    <3>2. entry = g /\ closing = 0 /\ us \subseteq UsersOf(g)
      BY <3>1, Current
    <3>3. Release(us, g) /\ UNCHANGED made /\ broken' \subseteq Entry
      BY <1>4, <2>2 DEF SourceFails, CloseHandles, PoolInv, PoolTypeOK
    <3> QED BY <3>1, <3>2, <3>3, ReleaseInv
  <2> QED BY <1>4, <2>1, <2>2 DEF CloseHandles
<1>5. CASE UNCHANGED poolVars
  BY <1>5 DEF poolVars, PoolInv, PoolTypeOK, EntryInv, UserInv, CountInv, UsersOf
<1> QED BY <1>1, <1>3, <1>4, <1>5 DEF PoolNext

-----------------------------------------------------------------------------
(* What follows *)

LEMMA PoolPromises == PoolInv => OneNativeSource /\ HoldersHaveSource /\ OpenSourceIsUsed
<1> SUFFICES ASSUME PoolInv PROVE OneNativeSource /\ HoldersHaveSource /\ OpenSourceIsUsed
  OBVIOUS
<1> USE EntryNumbers
<1>1. OneNativeSource
  BY DEF PoolInv, PoolTypeOK, EntryInv, Live, OneNativeSource
<1>2. HoldersHaveSource
  BY DEF PoolInv, UserInv, HoldersHaveSource
<1>3. OpenSourceIsUsed
  BY DEF PoolInv, EntryInv, Live, CountInv, UsersOf, OpenSourceIsUsed
<1> QED BY <1>1, <1>2, <1>3

\* In every reachable state of the pool the invariant holds.
THEOREM PoolInvariance == PoolSpec => []PoolInv
BY PoolInitInv, PoolNextInv, PTL DEF PoolSpec

\* A root never has two native subscriptions, one that closes included
\* (parcel-watch-pool.ts:75).
THEOREM OneSourcePerRoot == PoolSpec => []OneNativeSource
BY PoolInvariance, PoolPromises, PTL

\* A source is not closed under its users (parcel-watch-pool.ts:122).
THEOREM SourcesOutliveUse == PoolSpec => []HoldersHaveSource
BY PoolInvariance, PoolPromises, PTL

\* A source is not left open for nobody (parcel-watch-pool.ts:98, 122).
THEOREM SourcesAreUsed == PoolSpec => []OpenSourceIsUsed
BY PoolInvariance, PoolPromises, PTL

-------------------------------------------------------------------------------
(* The watches *)

PhaseInv ==
    \A w \in Watches :
        /\ phase[w] \in {"none", "checking", "gone"} => user[w] = "idle"
        /\ phase[w] = "active" => user[w] = "holding"

GraceInv ==
    /\ grace \subseteq Active
    /\ \A w \in Active : subs[w] = {} => w \in grace

BatchInv == BatchIsNetChange /\ \A w \in Watches \ Active : batch[w] = NoChanges

DrainInv ==
    /\ \A w \in Watches : left[w] # 0 => stage[left[w]] \in {"closing", "closed"}
    /\ disposal # "no" => Active = {} /\ \A w \in Watches : Pending(w) => w \in drained
    /\ disposal = "done" => \A w \in Watches : ~Pending(w)

WatchInv == TypeOK /\ PhaseInv /\ GraceInv /\ BatchInv /\ DrainInv

Inv == PoolInv /\ WatchInv

LEMMA InitInv == Init => Inv
<1> SUFFICES ASSUME Init PROVE Inv
  OBVIOUS
<1>1. PoolInv
  BY PoolInitInv DEF Init
<1>2. TypeOK
  <2>1. NoChanges \in [Paths -> Change \cup {"none"}] /\ 0 \in 0..MaxEntries
    BY EntryNumbers DEF NoChanges
  <2> QED BY <1>1, <2>1 DEF Init, TypeOK, PoolInv
<1>3. PhaseInv
  BY WatchAssumption DEF Init, PoolInit, PhaseInv
<1>4. Active = {}
  BY DEF Init, Active
<1>5. GraceInv /\ BatchInv
  BY <1>4 DEF Init, GraceInv, BatchInv, BatchIsNetChange
<1>6. DrainInv
  BY DEF Init, DrainInv
<1> QED BY <1>1, <1>2, <1>3, <1>5, <1>6 DEF Inv, WatchInv

-----------------------------------------------------------------------------
(* The pool is used as it expects *)

\* Whoever holds a source holds the current entry's.
LEMMA Holding ==
    ASSUME Inv, NEW w \in Watches, user[w] = "holding"
    PROVE  entry \in Entry /\ of[w] = entry /\ stage[entry] = "open" /\ w \in Holders(entry)
           /\ phase[w] \in {"opening", "active"}
BY WatchAssumption, EntryNumbers
   DEF Inv, PoolInv, PoolTypeOK, UserInv, WatchInv, TypeOK, PhaseInv, Holders

LEMMA ActiveHold ==
    ASSUME Inv, NEW w \in Active
    PROVE  w \in Watches /\ user[w] = "holding" /\ of[w] = entry /\ w \in Holders(entry)
BY Holding DEF Active, Inv, WatchInv, PhaseInv

LEMMA DropIsPoolStep ==
    ASSUME NEW g \in Entry, NEW ws \in SUBSET Holders(g), ws # {}, Drop(ws, g)
    PROVE  PoolNext
BY DEF Drop, CloseHandles, PoolNext

LEMMA PoolStep == ASSUME Inv, [Next]_vars PROVE [PoolNext]_poolVars
<1>1. ASSUME NEW w \in Watches, user[w] = "holding", Drop({w}, of[w]) PROVE PoolNext
  <2>1. of[w] \in Entry /\ {w} \in SUBSET Holders(of[w])
    BY <1>1, Holding
  <2> QED BY <1>1, <2>1, DropIsPoolStep
<1>2. ASSUME NEW w \in Watches, Create(w) \/ CreateStep(w) \/ GraceFires(w) \/ FlushFires(w) \/ LateError(w)
      PROVE  [PoolNext]_poolVars
  <2>1. CASE Checked(w)
    BY <2>1, WatchAssumption DEF Checked, PoolNext
  <2>2. CASE GraceFires(w)
    <3>1. user[w] = "holding"
      BY <2>2, ActiveHold DEF GraceFires, Inv, WatchInv, GraceInv
    <3> QED BY <1>1, <2>2, <3>1 DEF GraceFires
  <2>3. CASE LateError(w)
    <3>1. user[w] = "holding"
      BY <2>3, ActiveHold DEF LateError, Active
    <3> QED BY <1>1, <2>3, <3>1 DEF LateError
  <2>4. CASE TooLate(w)
    BY <1>1, <2>4 DEF TooLate
  <2>5. CASE Create(w) \/ Rejected(w) \/ Published(w) \/ FlushFires(w)
    BY <2>5 DEF Create, Rejected, Published, FlushFires
  <2> QED BY <1>2, <2>1, <2>2, <2>3, <2>4, <2>5 DEF CreateStep
<1>3. ASSUME NEW g \in Entry, NativeFails(g) \/ SourceSettles(g) \/ SourceBreaks(g) PROVE PoolNext
  <2>1. CASE NativeFails(g)
    <3> DEFINE leaving == {w \in Active : of[w] = g}
    <3>1. leaving \in SUBSET Holders(g)
      BY ActiveHold
    <3>2. SourceFails(g, leaving)
      BY <2>1 DEF NativeFails
    <3> QED BY <3>1, <3>2 DEF PoolNext
  <2> QED BY <1>3, <2>1 DEF SourceSettles, SourceBreaks, OpenSettles, PoolNext
<1>4. ASSUME NEW u \in Others, OtherAcquires(u) \/ OtherCloses(u) PROVE PoolNext
  <2>1. CASE OtherCloses(u)
    <3>1. of[u] \in Entry /\ {u} \in SUBSET Holders(of[u])
      BY <2>1, EntryNumbers DEF OtherCloses, Others, Holders, Inv, PoolInv, PoolTypeOK, UserInv
    <3> QED BY <2>1, <3>1 DEF OtherCloses, PoolNext
  <2> QED BY <1>4, <2>1 DEF OtherAcquires, Others, PoolNext
<1>5. CASE Dispose
  <2>1. CASE Active = {}
    BY <1>5, <2>1 DEF Dispose
  <2>2. CASE Active # {}
    <3>1. PICK g \in {of[w] : w \in Active} : Drop(Active, g)
      BY <1>5, <2>2 DEF Dispose
    <3>2. g = entry /\ entry \in Entry /\ Active \in SUBSET Holders(entry)
      BY <2>2, ActiveHold, Holding
    <3> QED BY <2>2, <3>1, <3>2, DropIsPoolStep
  <2> QED BY <2>1, <2>2
<1>6. CASE (\E w \in Watches, c \in Clients : Subscribe(c, w) \/ Unsubscribe(c, w)) \/ DisposalEnds
           \/ (\E p \in Paths, change \in Change : FileChanges(p, change)) \/ UNCHANGED vars
  BY <1>6 DEF Subscribe, Unsubscribe, DisposalEnds, FileChanges, vars
<1> QED BY <1>2, <1>3, <1>4, <1>5, <1>6 DEF Next

-----------------------------------------------------------------------------
(* Watches that lose their source *)

LEMMA ForgetInv ==
    ASSUME Inv, PoolInv', NEW g \in Entry, NEW ws \in SUBSET (Holders(g) \cap Watches), ws # {},
           Release(ws, g), Forget(ws, g), UNCHANGED fileVars,
           \/ UNCHANGED serviceVars
           \/ disposal = "no" /\ disposal' = "draining" /\ ws = Active
              /\ drained' = Active \cup {w \in Watches : Pending(w)}
    PROVE  WatchInv'
<1> USE EntryNumbers, WatchAssumption
<1>1. Departure(ws, g)
  <2>1. ws \in SUBSET UsersOf(g)
    BY DEF Holders, UsersOf
  <2> QED BY <2>1, Dismissed DEF Release, Inv
<1>2. entry = g /\ stage[g] = "open" /\ \A w \in ws : phase[w] \in {"opening", "active"}
  BY Holding DEF Holders, Inv, PoolInv, UserInv
<1>3. /\ \A w \in ws : phase'[w] = "gone" /\ user'[w] = "idle" /\ batch'[w] = NoChanges
                       /\ left'[w] = IF refs'[g] = 0 THEN g ELSE left[w]
      /\ \A w \in Watches \ ws : phase'[w] = phase[w] /\ user'[w] = user[w] /\ batch'[w] = batch[w]
                                 /\ left'[w] = left[w] /\ subs'[w] = subs[w]
      /\ grace' = grace \ ws
  BY <1>1 DEF Forget, Departure
<1>4. Active' = Active \ ws
  BY <1>3 DEF Active
<1>5. TypeOK'
  <2>1. PoolTypeOK'
    BY DEF PoolInv
  <2>2. disposal' \in {"no", "draining", "done"} /\ drained' \subseteq Watches
    BY DEF Inv, WatchInv, TypeOK, serviceVars, Active
  <2>3. NoChanges \in [Paths -> Change \cup {"none"}]
    BY DEF NoChanges
  <2> QED BY <2>1, <2>2, <2>3 DEF Inv, WatchInv, TypeOK, Forget, fileVars
<1>6. PhaseInv'
  BY <1>3 DEF Inv, WatchInv, PhaseInv
<1>7. GraceInv'
  BY <1>3, <1>4 DEF Inv, WatchInv, GraceInv, Active
<1>8. BatchInv'
  BY <1>3, <1>4 DEF Inv, WatchInv, BatchInv, BatchIsNetChange, fileVars, Active
<1>9. /\ \A h \in Entry \ {g} : stage'[h] = stage[h]
      /\ refs'[g] = 0 => stage'[g] = "closing"
  <2>1. stage \in [Entry -> Stage]
    BY DEF Inv, PoolInv, PoolTypeOK
  <2>2. CASE refs'[g] > 0
    BY <2>2 DEF Release
  <2>3. CASE ~(refs'[g] > 0)
    BY <2>1, <2>3 DEF Release, CloseSource
  <2> QED BY <2>2, <2>3
<1>10. ASSUME NEW w \in Watches, left[w] # 0 PROVE stage'[left[w]] = stage[left[w]] /\ left[w] \in Entry
  <2>1. left[w] \in Entry /\ stage[left[w]] \in {"closing", "closed"}
    BY <1>10 DEF Inv, WatchInv, DrainInv, TypeOK
  <2> QED BY <1>2, <1>9, <2>1
<1>11. ASSUME NEW w \in Watches, left'[w] # 0 PROVE stage'[left'[w]] \in {"closing", "closed"}
  BY <1>3, <1>9, <1>10, <1>11 DEF Inv, WatchInv, DrainInv
<1>12. ASSUME NEW w \in Watches, Pending(w)' PROVE Pending(w) \/ w \in Active
  <2>1. CASE w \in ws
    BY <1>2, <2>1 DEF Pending, Active
  <2>2. CASE w \notin ws
    BY <1>3, <1>10, <1>12, <2>2 DEF Pending
  <2> QED BY <2>1, <2>2
<1>13. DrainInv'
  <2>1. CASE UNCHANGED serviceVars
    <3>1. disposal = "done" => \A w \in Watches : ~Pending(w) /\ w \notin Active
      BY DEF Inv, WatchInv, DrainInv, Pending
    <3> QED BY <1>4, <1>11, <1>12, <2>1, <3>1 DEF DrainInv, Inv, WatchInv, serviceVars
  <2>2. CASE disposal' = "draining" /\ ws = Active /\ drained' = Active \cup {w \in Watches : Pending(w)}
    BY <1>4, <1>11, <1>12, <2>2 DEF DrainInv
  <2> QED BY <2>1, <2>2
<1> QED BY <1>5, <1>6, <1>7, <1>8, <1>13 DEF WatchInv

LEMMA DropInv ==
    ASSUME Inv, PoolInv', NEW w \in Watches, user[w] = "holding", Drop({w}, of[w]),
           UNCHANGED <<serviceVars, fileVars>>
    PROVE  WatchInv'
<1>1. of[w] \in Entry /\ {w} \in SUBSET (Holders(of[w]) \cap Watches)
  BY Holding
<1>2. Release({w}, of[w]) /\ Forget({w}, of[w])
  BY DEF Drop
<1> QED BY <1>1, <1>2, ForgetInv

-----------------------------------------------------------------------------
(* The other steps *)

\* A source that is closed stays so, whatever the pool does for others.
LEMMA ClosedStays ==
    ASSUME PoolInv, NEW g \in Entry, stage[g] \in {"closing", "closed"},
           \/ \E u \in Users : Acquire(u)
           \/ \E h \in Entry : OpenSettles(h) \/ CloseSettles(h)
    PROVE  stage'[g] \in {"closing", "closed"} /\ (stage'[g] = "closing" => stage[g] = "closing")
<1> USE EntryNumbers
<1> stage \in [Entry -> Stage]
  BY DEF PoolInv, PoolTypeOK
<1>1. CASE \E u \in Users : Acquire(u)
  <2>1. PICK u \in Users : Acquire(u)
    BY <1>1
  <2>2. ASSUME NEW first, NewEntry(u, first) PROVE stage'[g] = stage[g]
    <3>1. made < MaxEntries /\ made \in 0..MaxEntries /\ stage' = [stage EXCEPT ![made + 1] = first]
      BY <2>2 DEF NewEntry, PoolInv, PoolTypeOK
    <3>2. g # made + 1
      BY <3>1 DEF PoolInv, EntryInv
    <3> QED BY <3>1, <3>2
  <2> QED BY <2>1, <2>2 DEF Acquire, Join, CreateEntry
<1>2. ASSUME NEW h \in Entry, OpenSettles(h) PROVE stage'[g] = stage[g]
  <2>1. stage[h] = "opening" /\ h # g
    BY <1>2 DEF OpenSettles, OpenSucceeds, OpensBroken, OpenFails
  <2> QED BY <1>2, <2>1 DEF OpenSettles, OpenSucceeds, OpensBroken, OpenFails, Release, CloseSource
<1>3. ASSUME NEW h \in Entry, CloseSettles(h) PROVE stage'[g] = stage[g] \/ stage'[g] = "closed"
  BY <1>3 DEF CloseSettles, CloseSucceeds, CloseFails
<1> QED BY <1>1, <1>2, <1>3

\* Only those who wait are answered when a source opens or closes.
LEMMA SettlingAnswers ==
    ASSUME PoolInv, NEW g \in Entry, OpenSettles(g) \/ CloseSettles(g), NEW u \in Users
    PROVE  (user[u] = "idle" => user'[u] = "idle") /\ (user[u] = "holding" => user'[u] = "holding")
<1>1. CASE OpenSettles(g)
  BY <1>1 DEF OpenSettles, OpenSucceeds, OpensBroken, OpenFails, OpenRejects, Release, Dismiss, Waiters
<1>2. CASE CloseSettles(g)
  BY <1>2 DEF CloseSettles, CloseSucceeds, CloseFails, OpenRejects, Dismiss, Waiters
<1> QED BY <1>1, <1>2

\* What does not concern active watches.
LEMMA ActiveUndisturbed ==
    ASSUME Inv, Active' = Active, UNCHANGED <<grace, batch, subs, fileVars>>
    PROVE  GraceInv' /\ BatchInv'
BY DEF Inv, WatchInv, GraceInv, BatchInv, BatchIsNetChange, fileVars

LEMMA CreateInv ==
    ASSUME Inv, PoolInv', NEW w \in Watches, Create(w) \/ Checked(w) \/ Rejected(w)
    PROVE  WatchInv'
<1> USE EntryNumbers, WatchAssumption
<1>1. /\ UNCHANGED <<left, grace, flush, batch, subs, serviceVars, fileVars>>
      /\ phase[w] # "active" /\ phase'[w] \in {"checking", "opening", "gone"}
      /\ phase' = [phase EXCEPT ![w] = phase'[w]]
  BY DEF Create, Checked, Rejected, Inv, WatchInv, TypeOK
<1>2. Active' = Active
  BY <1>1 DEF Active, Inv, WatchInv, TypeOK
<1>3. TypeOK'
  BY <1>1 DEF Inv, WatchInv, TypeOK, PoolInv, serviceVars, fileVars
<1>4. PhaseInv'
  <2>1. CASE Acquire(w) /\ phase'[w] = "opening"
    <3>1. \A v \in Watches \ {w} : user'[v] = user[v]
      BY <2>1 DEF Acquire, Join, CreateEntry, NewEntry, Inv, PoolInv, PoolTypeOK
    <3> QED BY <1>1, <2>1, <3>1 DEF Inv, WatchInv, TypeOK, PhaseInv
  <2>2. CASE UNCHANGED poolVars /\ user[w] = "idle"
    BY <1>1, <2>2 DEF Inv, WatchInv, TypeOK, PhaseInv, poolVars
  <2> QED BY <1>1, <2>1, <2>2
          DEF Create, Checked, Rejected, Inv, WatchInv, TypeOK, PhaseInv
<1>5. GraceInv' /\ BatchInv'
  BY <1>1, <1>2, ActiveUndisturbed
<1>6. DrainInv'
  <2>1. CASE disposal = "no"
    <3>1. ASSUME NEW v \in Watches, left[v] # 0 PROVE stage'[left[v]] \in {"closing", "closed"}
      <4>1. left[v] \in Entry /\ stage[left[v]] \in {"closing", "closed"}
        BY <3>1 DEF Inv, WatchInv, TypeOK, DrainInv
      <4> QED BY <4>1, ClosedStays DEF Create, Checked, Rejected, poolVars, Inv
    <3> QED BY <1>1, <2>1, <3>1 DEF DrainInv, serviceVars
  <2>2. CASE disposal # "no"
    <3>1. UNCHANGED poolVars /\ phase'[w] = "gone"
      BY <2>2 DEF Create, Checked, Rejected, Inv, WatchInv, TypeOK
    <3>2. ASSUME NEW v \in Watches, Pending(v)' PROVE Pending(v)
      BY <1>1, <3>1, <3>2 DEF Pending, poolVars, Inv, WatchInv, TypeOK
    <3> QED BY <1>1, <1>2, <3>1, <3>2 DEF Inv, WatchInv, DrainInv, serviceVars, poolVars
  <2> QED BY <2>1, <2>2
<1> QED BY <1>3, <1>4, <1>5, <1>6 DEF WatchInv

LEMMA PublishedInv == ASSUME Inv, PoolInv', NEW w \in Watches, Published(w) PROVE WatchInv'
<1>1. /\ phase' = [phase EXCEPT ![w] = "active"] /\ phase[w] = "opening" /\ user[w] = "holding"
      /\ grace' = grace \cup {w} /\ told' = [told EXCEPT ![w] = present] /\ disposal = "no"
      /\ UNCHANGED <<poolVars, left, flush, batch, subs, serviceVars, present>>
  BY DEF Published
<1>2. Active' = Active \cup {w} /\ w \notin Active
  BY <1>1 DEF Active, Inv, WatchInv, TypeOK
<1>3. TypeOK' /\ PhaseInv'
  BY <1>1 DEF Inv, WatchInv, TypeOK, PhaseInv, PoolInv, poolVars, serviceVars
<1>4. GraceInv'
  BY <1>1, <1>2 DEF Inv, WatchInv, GraceInv
<1>5. BatchInv'
  <2>1. batch[w] = NoChanges /\ told'[w] = present /\ \A v \in Watches \ {w} : told'[v] = told[v]
    BY <1>1, <1>2 DEF Inv, WatchInv, TypeOK, BatchInv
  <2>2. ASSUME NEW p \in Paths PROVE Accounts(batch[w][p], p \in told'[w], p \in present)
    BY <2>1 DEF NoChanges, Accounts
  <2>3. ASSUME NEW v \in Active, NEW p \in Paths
        PROVE  v # w /\ v \in Watches /\ Accounts(batch[v][p], p \in told[v], p \in present)
    BY <1>2 DEF Active, Inv, WatchInv, BatchInv, BatchIsNetChange
  <2>4. \A v \in Watches \ Active' : batch[v] = NoChanges
    BY <1>2 DEF Inv, WatchInv, BatchInv
  <2>5. ASSUME NEW v \in Active', NEW p \in Paths
        PROVE  Accounts(batch[v][p], p \in told'[v], p \in present)
    BY <1>2, <2>1, <2>2, <2>3
  <2> QED BY <1>1, <2>4, <2>5 DEF BatchInv, BatchIsNetChange
<1>6. DrainInv'
  BY <1>1 DEF Inv, WatchInv, DrainInv, poolVars, serviceVars
<1> QED BY <1>3, <1>4, <1>5, <1>6 DEF WatchInv

LEMMA SubscribeInv ==
    ASSUME Inv, PoolInv', NEW w \in Watches, NEW c \in Clients, Subscribe(c, w) \/ Unsubscribe(c, w)
    PROVE  WatchInv'
<1>1. /\ UNCHANGED <<poolVars, phase, left, flush, batch, serviceVars, fileVars>>
      /\ phase[w] = "active"
      /\ subs' = [subs EXCEPT ![w] = subs'[w]] /\ subs'[w] \in SUBSET Clients
      /\ \/ grace' = grace \ {w} /\ subs'[w] # {}
         \/ grace' = grace \cup {w}
         \/ grace' = grace /\ subs'[w] # {}
  <2>1. CASE Subscribe(c, w)
    BY <2>1 DEF Subscribe, Inv, WatchInv, TypeOK
  <2>2. CASE Unsubscribe(c, w)
    BY <2>2 DEF Unsubscribe, Inv, WatchInv, TypeOK
  <2> QED BY <2>1, <2>2
<1>2. Active' = Active /\ w \in Active
  BY <1>1 DEF Active
<1>3. TypeOK' /\ PhaseInv'
  BY <1>1 DEF Inv, WatchInv, TypeOK, PhaseInv, PoolInv, poolVars, serviceVars, fileVars
<1>4. GraceInv'
  <2>1. \A v \in Watches \ {w} : subs'[v] = subs[v]
    BY <1>1 DEF Inv, WatchInv, TypeOK
  <2> QED BY <1>1, <1>2, <2>1 DEF Inv, WatchInv, GraceInv, Active
<1>5. BatchInv' /\ DrainInv'
  BY <1>1, <1>2 DEF Inv, WatchInv, BatchInv, BatchIsNetChange, DrainInv, Pending, poolVars, serviceVars, fileVars
<1> QED BY <1>3, <1>4, <1>5 DEF WatchInv

LEMMA FileInv ==
    ASSUME Inv, PoolInv', NEW p \in Paths, NEW change \in Change, FileChanges(p, change)
    PROVE  WatchInv'
<1>1. /\ change = "added" <=> p \notin present
      /\ present' = IF change = "deleted" THEN present \ {p} ELSE present \cup {p}
      /\ batch' = [w \in Watches |->
                      IF w \in Active THEN [batch[w] EXCEPT ![p] = Merge(@, change)] ELSE batch[w]]
      /\ flush' = {w \in Watches : batch'[w] # NoChanges}
      /\ UNCHANGED <<poolVars, phase, left, grace, subs, serviceVars, told>>
  BY DEF FileChanges
<1>2. Active' = Active
  BY <1>1 DEF Active
<1>3. ASSUME NEW previous \in Change \cup {"none"} PROVE Merge(previous, change) \in Change \cup {"none"}
  BY DEF Merge, Change
<1>4. batch' \in [Watches -> [Paths -> Change \cup {"none"}]]
  BY <1>1, <1>3 DEF Inv, WatchInv, TypeOK
<1>5. TypeOK' /\ PhaseInv'
  BY <1>1, <1>4 DEF Inv, WatchInv, TypeOK, PhaseInv, PoolInv, poolVars, serviceVars
<1>6. GraceInv' /\ DrainInv'
  BY <1>1, <1>2 DEF Inv, WatchInv, GraceInv, DrainInv, Pending, poolVars, serviceVars
<1>7. ASSUME NEW w \in Active, NEW q \in Paths
      PROVE  Accounts(batch'[w][q], q \in told[w], q \in present')
  <2>1. w \in Watches /\ batch[w][q] \in Change \cup {"none"}
    BY DEF Active, Inv, WatchInv, TypeOK
  <2>2. batch'[w][q] = IF q = p THEN Merge(batch[w][q], change) ELSE batch[w][q]
    BY <1>1, <2>1 DEF Inv, WatchInv, TypeOK
  <2>3. Accounts(batch[w][q], q \in told[w], q \in present)
    BY DEF Inv, WatchInv, BatchInv, BatchIsNetChange
  <2>4. CASE q # p
    BY <1>1, <2>1, <2>2, <2>3, <2>4
  <2>5. CASE q = p
    <3>1. batch'[w][q] = Merge(batch[w][q], change) /\ (q \in present' <=> change # "deleted")
      BY <1>1, <2>2, <2>5
    <3>2. change = "added" <=> q \notin present
      BY <1>1, <2>5
    <3>3. change \in {"added", "updated", "deleted"}
      BY DEF Change
    <3> QED BY <2>1, <2>3, <3>1, <3>2, <3>3 DEF Change, Merge, Accounts
  <2> QED BY <2>4, <2>5
<1>8. BatchInv'
  <2>1. \A w \in Watches \ Active : batch'[w] = batch[w]
    BY <1>1
  <2> QED BY <1>1, <1>2, <1>7, <2>1 DEF Inv, WatchInv, BatchInv, BatchIsNetChange
<1> QED BY <1>5, <1>6, <1>8 DEF WatchInv

LEMMA FlushInv == ASSUME Inv, PoolInv', NEW w \in Watches, FlushFires(w) PROVE WatchInv'
<1>1. /\ flush' = flush \ {w} /\ batch' = [batch EXCEPT ![w] = NoChanges]
      /\ told' = [told EXCEPT ![w] =
                     {p \in Paths : batch[w][p] \in {"added", "updated"} \/ (p \in @ /\ batch[w][p] # "deleted")}]
      /\ UNCHANGED <<poolVars, phase, left, grace, subs, serviceVars, present>>
  BY DEF FlushFires
<1>2. Active' = Active /\ NoChanges \in [Paths -> Change \cup {"none"}]
  BY <1>1 DEF Active, NoChanges
<1>3. TypeOK' /\ PhaseInv'
  BY <1>1, <1>2 DEF Inv, WatchInv, TypeOK, PhaseInv, PoolInv, poolVars, serviceVars
<1>4. GraceInv' /\ DrainInv'
  BY <1>1, <1>2 DEF Inv, WatchInv, GraceInv, DrainInv, Pending, poolVars, serviceVars
<1>5. batch'[w] = NoChanges /\ \A v \in Watches \ {w} : batch'[v] = batch[v] /\ told'[v] = told[v]
  BY <1>1 DEF Inv, WatchInv, TypeOK
<1>6. ASSUME NEW p \in Paths, w \in Active PROVE p \in told'[w] <=> p \in present
  <2>1. batch[w][p] \in Change \cup {"none"}
    BY DEF Inv, WatchInv, TypeOK
  <2>2. p \in told'[w] <=> batch[w][p] \in {"added", "updated"} \/ (p \in told[w] /\ batch[w][p] # "deleted")
    BY <1>1 DEF Inv, WatchInv, TypeOK
  <2>3. Accounts(batch[w][p], p \in told[w], p \in present)
    BY <1>6 DEF Inv, WatchInv, BatchInv, BatchIsNetChange
  <2> QED BY <2>1, <2>2, <2>3 DEF Change, Accounts
<1>7. BatchInv'
  <2>1. ASSUME NEW v \in Active, NEW p \in Paths
        PROVE  Accounts(batch'[v][p], p \in told'[v], p \in present)
    <3>1. CASE v = w
      BY <1>5, <1>6, <3>1 DEF NoChanges, Accounts
    <3>2. CASE v # w
      BY <1>5, <3>2 DEF Active, Inv, WatchInv, BatchInv, BatchIsNetChange
    <3> QED BY <3>1, <3>2
  <2> QED BY <1>1, <1>2, <1>5, <2>1 DEF Inv, WatchInv, BatchInv, BatchIsNetChange
<1> QED BY <1>3, <1>4, <1>7 DEF WatchInv

LEMMA SettlingInv ==
    ASSUME Inv, PoolInv', NEW g \in Entry, SourceSettles(g) \/ SourceBreaks(g)
    PROVE  WatchInv'
<1> USE EntryNumbers, WatchAssumption
<1>1. /\ OpenSettles(g) \/ CloseSettles(g)
      /\ UNCHANGED <<phase, grace, flush, batch, subs, serviceVars, fileVars>>
  BY DEF SourceSettles, SourceBreaks, OpenSettles, watchVars
<1>2. Active' = Active
  BY <1>1 DEF Active
<1>3. \/ left' = left
      \/ \E last \in Waiters(g) :
            /\ stage'[g] = "closing"
            /\ left' = [w \in Watches |-> IF w = last THEN g ELSE left[w]]
  <2>1. CASE SourceBreaks(g)
    <3>1. OpensBroken(g) /\ Waiters(g) = UsersOf(g)
      BY <2>1, Current DEF SourceBreaks, OpensBroken, Inv
    <3>2. Departure(UsersOf(g), g)
      BY <3>1, Dismissed DEF OpensBroken, Release, Inv
    <3>3. refs'[g] = 0
      BY <3>2 DEF Departure
    <3>4. stage'[g] = "closing"
      BY <3>1, <3>3 DEF OpensBroken, Release, CloseSource, Inv, PoolInv, PoolTypeOK
    <3> QED BY <2>1, <3>4 DEF SourceBreaks
  <2> QED BY <2>1 DEF SourceSettles, watchVars
<1>4. ASSUME NEW w \in Watches, w \in Waiters(g) PROVE phase[w] = "opening"
  BY <1>4 DEF Waiters, Inv, WatchInv, TypeOK, PhaseInv
<1>5. TypeOK'
  <2>1. PoolTypeOK'
    BY DEF PoolInv
  <2>2. left \in [Watches -> 0..MaxEntries] /\ g \in 0..MaxEntries
    BY DEF Inv, WatchInv, TypeOK
  <2>3. left' \in [Watches -> 0..MaxEntries]
    <3>1. CASE left' = left
      BY <2>2, <3>1
    <3>2. ASSUME NEW last, left' = [w \in Watches |-> IF w = last THEN g ELSE left[w]]
          PROVE  left' \in [Watches -> 0..MaxEntries]
      BY <2>2, <3>2
    <3> QED BY <1>3, <3>1, <3>2
  <2> QED BY <1>1, <2>1, <2>3 DEF Inv, WatchInv, TypeOK, serviceVars, fileVars
<1>6. PhaseInv'
  BY <1>1, SettlingAnswers DEF Inv, WatchInv, PhaseInv
<1>7. GraceInv' /\ BatchInv'
  BY <1>1, <1>2, ActiveUndisturbed
<1>8. ASSUME NEW w \in Watches, left[w] # 0
      PROVE  /\ stage'[left[w]] \in {"closing", "closed"}
             /\ stage'[left[w]] = "closing" => stage[left[w]] = "closing"
  <2>1. left[w] \in Entry /\ stage[left[w]] \in {"closing", "closed"}
    BY <1>8 DEF Inv, WatchInv, TypeOK, DrainInv
  <2> QED BY <1>1, <2>1, ClosedStays DEF Inv
<1>9. ASSUME NEW w \in Watches, left'[w] # 0 PROVE stage'[left'[w]] \in {"closing", "closed"}
  BY <1>3, <1>8, <1>9
<1>10. ASSUME NEW w \in Watches, Pending(w)' PROVE Pending(w)
  <2>1. CASE left'[w] = left[w]
    BY <1>1, <1>8, <1>10, <2>1 DEF Pending
  <2>2. CASE left'[w] # left[w]
    BY <1>3, <1>4, <2>2 DEF Pending
  <2> QED BY <2>1, <2>2
<1>11. DrainInv'
  BY <1>1, <1>2, <1>9, <1>10 DEF Inv, WatchInv, DrainInv, serviceVars
<1> QED BY <1>5, <1>6, <1>7, <1>11 DEF WatchInv

LEMMA OthersInv ==
    ASSUME Inv, PoolInv', NEW u \in Others, OtherAcquires(u) \/ OtherCloses(u)
    PROVE  WatchInv'
<1> USE EntryNumbers, WatchAssumption
<1>1. /\ UNCHANGED <<watchVars, serviceVars, fileVars>> /\ u \in Users /\ u \notin Watches
      /\ Acquire(u) \/ (user[u] = "holding" /\ Release({u}, of[u]))
  BY DEF OtherAcquires, OtherCloses, CloseHandles, Others
<1>2. Active' = Active
  BY <1>1 DEF Active, watchVars
<1>3. \A w \in Watches : user'[w] = user[w]
  BY <1>1 DEF Acquire, Join, CreateEntry, NewEntry, Release, Dismiss, Inv, PoolInv, PoolTypeOK
<1>4. TypeOK' /\ PhaseInv'
  BY <1>1, <1>3 DEF Inv, WatchInv, TypeOK, PhaseInv, PoolInv, watchVars, serviceVars, fileVars
<1>5. GraceInv' /\ BatchInv'
  BY <1>1, <1>2, ActiveUndisturbed DEF watchVars
<1>6. ASSUME NEW w \in Watches, left[w] # 0
      PROVE  /\ stage'[left[w]] \in {"closing", "closed"}
             /\ stage'[left[w]] = "closing" => stage[left[w]] = "closing"
  <2>1. left[w] \in Entry /\ stage[left[w]] \in {"closing", "closed"}
    BY <1>6 DEF Inv, WatchInv, TypeOK, DrainInv
  <2>2. CASE Acquire(u)
    BY <1>1, <2>1, <2>2, ClosedStays DEF Inv
  <2>3. CASE user[u] = "holding" /\ Release({u}, of[u])
    <3>1. of[u] \in Entry /\ stage[of[u]] = "open"
      BY <1>1, <2>3 DEF Inv, PoolInv, PoolTypeOK, UserInv
    <3> QED BY <2>1, <2>3, <3>1 DEF Release, CloseSource, Inv, PoolInv, PoolTypeOK
  <2> QED BY <1>1, <2>2, <2>3
<1>7. ASSUME NEW w \in Watches, Pending(w)' PROVE Pending(w)
  BY <1>1, <1>6, <1>7 DEF Pending, watchVars
<1>8. DrainInv'
  BY <1>1, <1>2, <1>6, <1>7 DEF Inv, WatchInv, DrainInv, serviceVars, watchVars
<1> QED BY <1>4, <1>5, <1>8 DEF WatchInv

LEMMA NextInv == ASSUME Inv, [Next]_vars PROVE Inv'
<1>1. PoolInv'
  BY PoolStep, PoolNextInv DEF Inv
<1> SUFFICES WatchInv'
  BY <1>1 DEF Inv
<1>2. ASSUME NEW w \in Watches, Create(w) \/ CreateStep(w) \/ GraceFires(w) \/ FlushFires(w) \/ LateError(w)
      PROVE  WatchInv'
  <2>1. CASE TooLate(w)
    BY <1>1, <2>1, DropInv DEF TooLate
  <2>2. CASE GraceFires(w)
    <3>1. user[w] = "holding" /\ w \in Active
      BY <2>2, ActiveHold DEF GraceFires, Inv, WatchInv, GraceInv
    <3>2. CASE subs[w] = {}
      BY <1>1, <2>2, <3>1, <3>2, DropInv DEF GraceFires
    <3>3. CASE subs[w] # {}
      <4>1. grace' = grace \ {w}
            /\ UNCHANGED <<poolVars, phase, left, flush, batch, subs, serviceVars, fileVars>>
        BY <2>2, <3>3 DEF GraceFires
      <4>2. Active' = Active
        BY <4>1 DEF Active
      <4>3. TypeOK' /\ PhaseInv' /\ GraceInv'
        BY <3>3, <4>1, <4>2
           DEF Inv, WatchInv, TypeOK, PhaseInv, GraceInv, PoolTypeOK, poolVars, serviceVars, fileVars
      <4>4. BatchInv' /\ DrainInv'
        BY <4>1, <4>2
           DEF Inv, WatchInv, BatchInv, BatchIsNetChange, DrainInv, Pending, poolVars, serviceVars, fileVars
      <4> QED BY <4>3, <4>4 DEF WatchInv
    <3> QED BY <3>2, <3>3
  <2>3. CASE LateError(w)
    <3>1. user[w] = "holding"
      BY <2>3, ActiveHold DEF LateError, Active
    <3> QED BY <1>1, <2>3, <3>1, DropInv DEF LateError
  <2> QED BY <1>1, <1>2, <2>1, <2>2, <2>3, CreateInv, PublishedInv, FlushInv DEF CreateStep
<1>3. ASSUME NEW g \in Entry, NativeFails(g) PROVE WatchInv'
  <2> DEFINE leaving == {w \in Active : of[w] = g}
  <2>1. leaving \in SUBSET (Holders(g) \cap Watches)
    BY ActiveHold
  <2>2. SourceFails(g, leaving) /\ Forget(leaving, g) /\ UNCHANGED <<serviceVars, fileVars>>
    BY <1>3 DEF NativeFails
  <2>3. CASE leaving # {}
    <3>1. Release(leaving, g)
      BY <2>2, <2>3 DEF SourceFails
    <3> HIDE DEF leaving
    <3> QED BY <1>1, <2>1, <2>2, <2>3, <3>1, ForgetInv
  <2>4. CASE leaving = {}
    <3>1. UNCHANGED <<entry, stage, refs, closing, user, of>>
      BY <2>2, <2>4 DEF SourceFails
    <3>2. UNCHANGED <<phase, left, grace, flush, batch, subs>>
      BY <2>2, <2>4 DEF Forget, Inv, WatchInv, TypeOK
    <3>3. Active' = Active
      BY <3>2 DEF Active
    <3>4. TypeOK' /\ PhaseInv'
      BY <1>1, <2>2, <3>1, <3>2 DEF Inv, WatchInv, TypeOK, PhaseInv, PoolInv, serviceVars, fileVars
    <3>5. GraceInv' /\ BatchInv'
      BY <2>2, <3>2, <3>3, ActiveUndisturbed
    <3>6. DrainInv'
      BY <2>2, <3>1, <3>2, <3>3 DEF Inv, WatchInv, DrainInv, Pending, serviceVars
    <3> QED BY <3>4, <3>5, <3>6 DEF WatchInv
  <2> QED BY <2>3, <2>4
<1>4. CASE Dispose
  <2>1. /\ disposal = "no" /\ disposal' = "draining" /\ UNCHANGED fileVars
        /\ drained' = Active \cup {w \in Watches : Pending(w)}
    BY <1>4 DEF Dispose
  <2>2. CASE Active = {}
    <3>1. UNCHANGED <<poolVars, watchVars>>
      BY <1>4, <2>2 DEF Dispose
    <3>2. Active' = Active
      BY <3>1 DEF Active, watchVars
    <3>3. \A w \in Watches : Pending(w)' = Pending(w)
      BY <3>1 DEF Pending, watchVars, poolVars
    <3>4. TypeOK' /\ PhaseInv'
      BY <1>1, <2>1, <3>1 DEF Inv, WatchInv, TypeOK, PhaseInv, PoolInv, Active, poolVars, watchVars, fileVars
    <3>5. GraceInv' /\ BatchInv'
      BY <2>1, <3>1, <3>2, ActiveUndisturbed DEF watchVars
    <3>6. DrainInv'
      BY <2>1, <2>2, <3>1, <3>2, <3>3 DEF Inv, WatchInv, DrainInv, watchVars, poolVars
    <3> QED BY <3>4, <3>5, <3>6 DEF WatchInv
  <2>3. CASE Active # {}
    <3>1. PICK g \in {of[w] : w \in Active} : Drop(Active, g)
      BY <1>4, <2>3 DEF Dispose
    <3>2. g = entry /\ entry \in Entry /\ Active \in SUBSET (Holders(entry) \cap Watches)
      BY <2>3, ActiveHold, Holding
    <3>3. Release(Active, g) /\ Forget(Active, g)
      BY <3>1 DEF Drop
    <3> QED BY <1>1, <2>1, <2>3, <3>2, <3>3, ForgetInv
  <2> QED BY <2>2, <2>3
<1>5. CASE DisposalEnds
  <2>1. /\ disposal = "draining" /\ (\A w \in drained : ~Pending(w)) /\ disposal' = "done"
        /\ UNCHANGED <<poolVars, watchVars, drained, fileVars>>
    BY <1>5 DEF DisposalEnds
  <2>2. Active' = Active /\ \A w \in Watches : Pending(w)' = Pending(w)
    BY <2>1 DEF Active, Pending, watchVars, poolVars
  <2>3. TypeOK' /\ PhaseInv'
    BY <1>1, <2>1 DEF Inv, WatchInv, TypeOK, PhaseInv, PoolInv, poolVars, watchVars, fileVars
  <2>4. GraceInv' /\ BatchInv'
    BY <2>1, <2>2, ActiveUndisturbed DEF watchVars
  <2>5. DrainInv'
    BY <2>1, <2>2 DEF Inv, WatchInv, DrainInv, watchVars, poolVars
  <2> QED BY <2>3, <2>4, <2>5 DEF WatchInv
<1>6. CASE UNCHANGED vars
  <2>1. Active' = Active /\ \A w \in Watches : Pending(w)' = Pending(w)
    BY <1>6 DEF Active, Pending, vars, watchVars, poolVars
  <2>2. TypeOK' /\ PhaseInv'
    BY <1>1, <1>6 DEF Inv, WatchInv, TypeOK, PhaseInv, PoolInv, vars, poolVars, watchVars, serviceVars, fileVars
  <2>3. GraceInv' /\ BatchInv'
    BY <1>6, <2>1, ActiveUndisturbed DEF vars, watchVars
  <2>4. DrainInv'
    BY <1>6, <2>1 DEF Inv, WatchInv, DrainInv, vars, watchVars, poolVars, serviceVars
  <2> QED BY <2>2, <2>3, <2>4 DEF WatchInv
<1>7. ASSUME NEW w \in Watches, NEW c \in Clients, Subscribe(c, w) \/ Unsubscribe(c, w) PROVE WatchInv'
  BY <1>1, <1>7, SubscribeInv
<1>8. ASSUME NEW p \in Paths, NEW change \in Change, FileChanges(p, change) PROVE WatchInv'
  BY <1>1, <1>8, FileInv
<1>9. ASSUME NEW g \in Entry, SourceSettles(g) \/ SourceBreaks(g) PROVE WatchInv'
  BY <1>1, <1>9, SettlingInv
<1>10. ASSUME NEW u \in Others, OtherAcquires(u) \/ OtherCloses(u) PROVE WatchInv'
  BY <1>1, <1>10, OthersInv
<1> QED BY <1>2, <1>3, <1>4, <1>5, <1>6, <1>7, <1>8, <1>9, <1>10 DEF Next

-----------------------------------------------------------------------------
(* What follows *)

LEMMA WatchPromises == Inv => TypeOK /\ UnwatchedExpires /\ BatchIsNetChange /\ DisposalDrains
<1> SUFFICES ASSUME Inv PROVE TypeOK /\ UnwatchedExpires /\ BatchIsNetChange /\ DisposalDrains
  OBVIOUS
<1> USE WatchAssumption
<1>1. TypeOK /\ BatchIsNetChange
  BY DEF Inv, WatchInv, BatchInv
<1>2. UnwatchedExpires
  BY DEF Inv, PoolInv, UserInv, WatchInv, TypeOK, PhaseInv, GraceInv, Active, UnwatchedExpires
<1>3. DisposalDrains
  <2>1. ASSUME disposal = "done", NEW w \in Watches PROVE of[w] = 0 /\ ~Pending(w) /\ phase[w] # "active"
    <3>1. ~Pending(w) /\ phase[w] # "active"
      BY <2>1 DEF Inv, WatchInv, DrainInv, Active
    <3>2. user[w] = "idle"
      BY <3>1 DEF Pending, Inv, WatchInv, TypeOK, PhaseInv
    <3> QED BY <3>1, <3>2 DEF Inv, PoolInv, UserInv
  <2> QED BY <2>1 DEF DisposalDrains
<1> QED BY <1>1, <1>2, <1>3

\* In every reachable state of the service the invariant holds.
THEOREM WatchInvariance == Spec => []Inv
BY InitInv, NextInv, PTL DEF Spec

\* The service, with the watchers of changesets, uses the pool as ParcelWatchPool
\* says: every step is a step of the pool or leaves it alone
\* (resource-watch.ts:196, 329).
THEOREM ServiceUsesPool == Spec => PoolSpec
<1>1. Init => PoolInit
  BY DEF Init
<1>2. Inv /\ [Next]_vars => [PoolNext]_poolVars
  BY PoolStep
<1> QED BY <1>1, <1>2, WatchInvariance, PTL DEF Spec, PoolSpec

\* The type invariant of the watches, their timers and batches.
THEOREM WatchTypesOK == Spec => []TypeOK
BY WatchInvariance, WatchPromises, PTL

\* A watch without subscribers always has its grace timer, and only a watch that
\* opens or is active keeps a source (resource-watch.ts:242, 304).
THEOREM UnwatchedAlwaysExpires == Spec => []UnwatchedExpires
BY WatchInvariance, WatchPromises, PTL

\* However changes, flushes and releases interleave, what was published and what
\* waits add up to the files there are (resource-watch-policy.ts:24).
THEOREM BatchesAreNetChanges == Spec => []BatchIsNetChange
BY WatchInvariance, WatchPromises, PTL

\* dispose resolves with no native handle kept, opening or closing
\* (resource-watch.ts:142).
THEOREM DisposalAlwaysDrains == Spec => []DisposalDrains
BY WatchInvariance, WatchPromises, PTL

=============================================================================
