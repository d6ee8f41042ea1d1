---------------------- MODULE ChangesetService_proofs ----------------------
(***************************************************************************)
(* Proofs about ChangesetService, for any repositories and any number of   *)
(* edits, commits, moves and subscribers.                                  *)
(*                                                                         *)
(*   Good        types, the watch and its closing, the loop, and who is    *)
(*               still waiting for what the loop has to publish            *)
(*   StopInv     what a disposal has waited for stays as it is             *)
(*   EditInv     what is opened, scanned and shown is of the present work  *)
(*               tree, or something is still to come                       *)
(*                                                                         *)
(* The handlers are functions of the service's state that call each other, *)
(* so Good is about such a state: a lemma for each function says what it   *)
(* does to a state half-way through a handler. Keeps and Follows are what  *)
(* a step is shown to do, one lemma per action.                            *)
(***************************************************************************)
EXTENDS ChangesetService, TLAPS

-----------------------------------------------------------------------------
(* The invariant *)

Early == {"waiting", "probe", "inspecting", "joining", "watching"}
Abortable == {"inspecting", "closing", "joining", "watching", "computing"}

\* A watch is being opened, stands, or is closed; what is opened for nothing is
\* known to be.
WatchInv(s) ==
  /\ s.starting.pc # "none" \/ s.closing = "releasing" => s.watcher = None
  /\ s.closing = "releasing" => s.starting.pc = "none"
  /\ s.starting.aborted => s.starting.pc # "none" /\ s.closing = "awaiting"
  /\ s.starting.pc # "none" => s.starting.target # None

\* Subscribers are those of channels in the store, and hydration adds channels
\* that are not.
ChannelInv(s) ==
  /\ \A k \in Kinds : s.subs[k] > 0 => s.store[k] # None
  /\ \A k \in s.hydrating : s.store[k] = None

\* Nobody waits for a refresh, and every watch is on its way out.
Unwatched(s) ==
  /\ ~s.requested
  /\ s.watcher # None => s.closing # "none"
  /\ s.starting.pc # "none" => s.starting.aborted

SuspendInv(s) ==
  /\ s.disposed => s.suspended
  /\ s.suspended => Unwatched(s) /\ ~s.timer /\ (s.loop.pc \in Abortable => s.loop.aborted)

Base(s) == s \in Service /\ WatchInv(s) /\ ChannelInv(s) /\ SuspendInv(s)

LoopInv(s) ==
  /\ s.starting.pc # "none" <=> s.loop.pc = "watching"
  /\ s.loop.pc \in {"joining", "watching", "computing"} => s.loop.workspace # None
  /\ s.loop.aborted => s.loop.pc \in Abortable
  /\ s.loop.pc = "joining" /\ s.closing = "none" => s.watcher = None
  /\ s.requested => s.loop.pc # "none" \/ s.timer

\* The loop has yet to publish channel k, in this pass or in another.
Due(s, k) ==
  s.loop.pc \in Early \/ (s.loop.pc = "computing" /\ k \in s.loop.jobs) \/ s.requested

Computing(s, k) == s.store[k].status \in {"computing", "recomputing"}

Attended(s, k) ==
  s.subs[k] > 0 /\ ~s.suspended =>
    /\ s.loop.aborted => s.requested
    /\ Computing(s, k) => Due(s, k)

InterestInv(s) ==
  /\ ~HasInterest(s) => Unwatched(s)
  /\ \A k \in Kinds : Attended(s, k)

Good(s) == Base(s) /\ LoopInv(s) /\ InterestInv(s)

\* What the phases of a disposal have waited for stays as it is.
StopInv ==
  /\ st.disposed <=> stop["service"].phase # "no"
  /\ stop["session"].phase # "no" => st.suspended
  /\ \A a \in Agents :
       /\ stop[a].phase = "draining" =>
            st.closing = "none" /\ (st.loop.pc # "none" => "refresh" \in stop[a].awaits)
       /\ stop[a].phase \in {"deleting", "done"} => st.closing = "none" /\ st.loop.pc = "none"
  /\ stop["session"].phase = "done" /\ ~st.disposed => \A k \in Kinds : st.store[k] = None

\* Whether the watch stands, and whether a report or a refresh is still to come.
Watching(s) == s.watcher # None /\ s.closing = "none"
Pending(s) == s.event \/ s.requested

\* The repository has left the target for good.
Left(t, d) == d.target # t /\ d.moves = MaxMoves

\* What is being opened, scanned, and shown is what the repository d is, or
\* something has yet to be seen to.
StartFollows(s, d) ==
  s.starting.pc = "acquiring" /\ ~s.starting.aborted =>
    Pending(s) \/ d.target = s.starting.target \/ Left(s.starting.target, d)

ScanFollows(s, d) ==
  Watching(s) /\ s.loop.pc = "computing" /\ "uncommitted" \in s.loop.jobs =>
    Pending(s) \/ Left(s.watcher, d) \/ (d.target = s.watcher /\ s.loop.from = d.files)

ShownFollows(s, d) ==
  Watching(s) /\ s.subs["uncommitted"] > 0 /\ s.store["uncommitted"].status = "ready" =>
    \/ Pending(s) \/ s.loop.pc \in Early \/ Left(s.watcher, d)
    \/ d.target = s.watcher /\ s.store["uncommitted"].content.files = d.files

EditInv(s, d) == StartFollows(s, d) /\ ScanFollows(s, d) /\ ShownFollows(s, d)

Inv == disk \in Disks /\ stop \in Stops /\ Good(st) /\ StopInv

-----------------------------------------------------------------------------
(* The functions the handlers share: what each leaves alone and changes *)

\* No function of the loop or of the watch changes these.
Same(s, t) ==
  /\ t.suspended = s.suspended /\ t.disposed = s.disposed /\ t.probing = s.probing
  /\ t.hydrating = s.hydrating /\ t.watcher = s.watcher /\ t.event = s.event

SameChannels(s, t) ==
  /\ t.store = s.store /\ t.subs = s.subs
  /\ t.catalogue = s.catalogue /\ t.workspace = s.workspace

SameWatch(s, t) == t.starting = s.starting /\ t.closing = s.closing

SameLoop(s, t) == t.loop = s.loop /\ t.requested = s.requested /\ t.timer = s.timer

LEMMA FreshLoop ==
  ASSUME NEW p \in {"none", "waiting", "probe", "inspecting", "ended"}
  PROVE  LET l == [IdleLoop EXCEPT !.pc = p]
         IN  l \in Loops /\ l.pc = p /\ l.aborted = FALSE
<1>1. 0 \in 0..MaxEdits
  BY SizesAssumption
<1> QED BY <1>1 DEF Loops, IdleLoop

LEMMA IdleTyped == IdleLoop \in Loops /\ IdleLoop.pc = "none" /\ IdleLoop.aborted = FALSE
<1>1. 0 \in 0..MaxEdits
  BY SizesAssumption
<1> QED BY <1>1 DEF Loops, IdleLoop

LEMMA PassFacts ==
  ASSUME NEW s \in Service, NEW t, t = Pass(s)
  PROVE  /\ t \in Service /\ Same(s, t) /\ SameChannels(s, t) /\ SameWatch(s, t) /\ t.timer = s.timer
         /\ ~t.requested /\ t.loop.pc \in {"waiting", "probe"} /\ ~t.loop.aborted
<1> DEFINE l == [IdleLoop EXCEPT !.pc = IF s.probing THEN "waiting" ELSE "probe"]
<1>1. l \in Loops /\ l.pc \in {"waiting", "probe"} /\ l.aborted = FALSE
  BY FreshLoop
<1>2. t = [s EXCEPT !.requested = FALSE, !.loop = l]
  BY DEF Pass
<1> HIDE DEF l
<1> QED BY <1>1, <1>2 DEF Service, Same, SameChannels, SameWatch

LEMMA AbortFacts ==
  ASSUME NEW l \in Loops, NEW m, m = Abort(l)
  PROVE  /\ m \in Loops /\ m.pc = l.pc /\ m.workspace = l.workspace /\ m.jobs = l.jobs /\ m.from = l.from
         /\ m.aborted = (l.pc \in Abortable \/ l.aborted)
BY DEF Abort, Loops, Abortable

\* A refresh is asked for and somebody will see to it.
Woken(s, t) ==
  /\ ~t.timer
  /\ \/ s.loop.pc # "none" /\ t.loop = s.loop /\ t.requested
     \/ s.loop.pc = "none" /\ t.loop.pc \in {"waiting", "probe"} /\ ~t.loop.aborted /\ ~t.requested

LEMMA RequestRefreshFacts ==
  ASSUME NEW s \in Service, NEW t, t = RequestRefresh(s)
  PROVE  /\ t \in Service /\ Same(s, t) /\ SameChannels(s, t) /\ SameWatch(s, t)
         /\ s.disposed \/ s.suspended \/ ~HasInterest(s) => t = s
         /\ ~s.disposed /\ ~s.suspended /\ HasInterest(s) => Woken(s, t)
<1>1. CASE s.disposed \/ s.suspended \/ ~HasInterest(s)
  BY <1>1 DEF RequestRefresh, Same, SameChannels, SameWatch
<1>2. CASE ~(s.disposed \/ s.suspended \/ ~HasInterest(s))
  <2>1. CASE s.loop.pc # "none"
    <3>1. t = [s EXCEPT !.timer = FALSE, !.requested = TRUE]
      BY <1>2, <2>1 DEF RequestRefresh
    <3> QED BY <1>2, <2>1, <3>1 DEF Service, Same, SameChannels, SameWatch, Woken
  <2>2. CASE s.loop.pc = "none"
    <3> DEFINE u == [s EXCEPT !.timer = FALSE]
    <3>1. t = Pass(u)
      BY <1>2, <2>2 DEF RequestRefresh
    <3>2. u \in Service /\ Same(s, u) /\ SameChannels(s, u) /\ SameWatch(s, u) /\ ~u.timer
      BY DEF Service, Same, SameChannels, SameWatch
    <3> HIDE DEF u
    <3> QED BY <1>2, <2>2, <3>1, <3>2, PassFacts DEF Same, SameChannels, SameWatch, Woken
  <2> QED BY <2>1, <2>2
<1> QED BY <1>1, <1>2

LEMMA CloseWatcherFacts ==
  ASSUME NEW s \in Service, NEW t, t = CloseWatcher(s)
  PROVE  /\ t \in Service /\ Same(s, t) /\ SameChannels(s, t) /\ SameLoop(s, t)
         /\ t.starting.pc = s.starting.pc /\ t.starting.target = s.starting.target
         /\ t.starting.aborted = (s.starting.pc # "none")
         /\ t.closing = IF s.closing = "none" /\ (s.watcher # None \/ s.starting.pc # "none")
                        THEN "awaiting" ELSE s.closing
<1> DEFINE a == [s.starting EXCEPT !.aborted = s.starting.pc # "none"]
           c == IF s.closing = "none" /\ (s.watcher # None \/ s.starting.pc # "none")
                THEN "awaiting" ELSE s.closing
<1>1. /\ a \in Starts /\ a.pc = s.starting.pc /\ a.target = s.starting.target
      /\ a.aborted = (s.starting.pc # "none")
  BY DEF Service, Starts
<1>2. t = [s EXCEPT !.starting = a, !.closing = c]
  BY DEF CloseWatcher, Service
<1>3. c \in {s.closing, "awaiting"}
  OBVIOUS
<1> HIDE DEF a
<1>4. t \in Service /\ t.starting = a /\ t.closing = c
  BY <1>1, <1>2, <1>3 DEF Service
<1>5. Same(s, t) /\ SameChannels(s, t) /\ SameLoop(s, t)
  BY <1>2 DEF Service, Same, SameChannels, SameLoop
<1> QED BY <1>1, <1>4, <1>5

LEMMA AgainFacts ==
  ASSUME NEW s \in Service, NEW t, t = Again(s)
  PROVE  /\ t \in Service /\ Same(s, t) /\ SameChannels(s, t) /\ SameWatch(s, t) /\ t.timer = s.timer
         /\ ~t.loop.aborted
         /\ \/ s.requested /\ ~s.suspended /\ ~s.disposed /\ ~t.requested /\ t.loop.pc \in {"waiting", "probe"}
            \/ ~(s.requested /\ ~s.suspended /\ ~s.disposed) /\ t.requested = s.requested /\ t.loop.pc = "ended"
<1>1. CASE s.requested /\ ~s.suspended /\ ~s.disposed
  BY <1>1, PassFacts DEF Again
<1>2. CASE ~(s.requested /\ ~s.suspended /\ ~s.disposed)
  <2> DEFINE l == [IdleLoop EXCEPT !.pc = "ended"]
  <2>1. l \in Loops /\ l.pc = "ended" /\ l.aborted = FALSE
    BY FreshLoop
  <2>2. t = [s EXCEPT !.loop = l]
    BY <1>2 DEF Again
  <2> HIDE DEF l
  <2> QED BY <1>2, <2>1, <2>2 DEF Service, Same, SameChannels, SameWatch
<1> QED BY <1>1, <1>2

-----------------------------------------------------------------------------
(* The functions the handlers share keep the invariant *)

\* What has a subscriber somewhere is refreshed, whatever else is wrong with it.
LEMMA RefreshServes ==
  ASSUME NEW s, Base(s), LoopInv(s), HasInterest(s), NEW t, t = RequestRefresh(s)
  PROVE  Good(t)
<1>1. s \in Service /\ WatchInv(s) /\ ChannelInv(s) /\ SuspendInv(s)
  BY DEF Base
<1>2. /\ t \in Service /\ Same(s, t) /\ SameChannels(s, t) /\ SameWatch(s, t)
      /\ s.suspended => t = s
      /\ ~s.suspended => Woken(s, t)
  BY <1>1, RequestRefreshFacts DEF SuspendInv
<1>3. HasInterest(t)
  BY <1>2 DEF SameChannels, HasInterest
<1>4. CASE s.suspended
  BY <1>1, <1>2, <1>3, <1>4 DEF Good, Base, InterestInv, Attended
<1>5. CASE ~s.suspended
  <2>1. WatchInv(t) /\ ChannelInv(t) /\ SuspendInv(t)
    BY <1>1, <1>2, <1>5 DEF WatchInv, ChannelInv, SuspendInv, Same, SameChannels, SameWatch
  <2>2. LoopInv(t)
    BY <1>2, <1>5 DEF LoopInv, Woken, Same, SameWatch, Abortable
  <2>3. \A k \in Kinds : Attended(t, k)
    BY <1>2, <1>5 DEF Attended, Woken, Due, Early
  <2> QED BY <1>2, <1>3, <2>1, <2>2, <2>3 DEF Good, Base, InterestInv
<1> QED BY <1>4, <1>5

LEMMA RefreshGood ==
  ASSUME NEW s, Good(s), NEW t, t = RequestRefresh(s)
  PROVE  Good(t)
<1>1. CASE HasInterest(s)
  BY <1>1, RefreshServes DEF Good
<1>2. CASE ~HasInterest(s)
  BY <1>2, RequestRefreshFacts DEF Good, Base
<1> QED BY <1>1, <1>2

\* A wake-up that is only remembered.
LEMMA ScheduleGood ==
  ASSUME NEW s, Good(s), NEW t, t = ScheduleRefresh(s)
  PROVE  Good(t) /\ Same(s, t) /\ SameChannels(s, t) /\ SameWatch(s, t) /\ t.loop = s.loop
         /\ (t.requested \/ t = s) /\ (~s.disposed /\ ~s.suspended /\ HasInterest(s) => t.requested)
<1>1. s \in Service /\ WatchInv(s) /\ ChannelInv(s) /\ SuspendInv(s) /\ LoopInv(s) /\ InterestInv(s)
  BY DEF Good, Base
<1>2. CASE s.disposed \/ s.suspended \/ ~HasInterest(s)
  BY <1>1, <1>2 DEF ScheduleRefresh, Same, SameChannels, SameWatch
<1>3. CASE ~(s.disposed \/ s.suspended \/ ~HasInterest(s))
  <2>1. t = [s EXCEPT !.requested = TRUE, !.timer = s.timer \/ s.loop.pc = "none"]
    BY <1>3 DEF ScheduleRefresh
  <2>2. /\ t \in Service /\ Same(s, t) /\ SameChannels(s, t) /\ SameWatch(s, t) /\ t.loop = s.loop
        /\ t.requested /\ t.timer = (s.timer \/ s.loop.pc = "none")
    BY <1>1, <2>1 DEF Service, Same, SameChannels, SameWatch
  <2>3. WatchInv(t) /\ ChannelInv(t) /\ SuspendInv(t) /\ LoopInv(t)
    BY <1>1, <1>3, <2>2 DEF WatchInv, ChannelInv, SuspendInv, LoopInv, Same, SameChannels, SameWatch
  <2>4. HasInterest(t) /\ \A k \in Kinds : Attended(t, k)
    BY <1>3, <2>2 DEF HasInterest, SameChannels, Attended, Due
  <2> QED BY <2>2, <2>3, <2>4 DEF Good, Base, InterestInv
<1> QED BY <1>2, <1>3

\* The watch, once it is asked to close.
LEMMA CloseWatcherWatch ==
  ASSUME NEW s \in Service, WatchInv(s), NEW t, t = CloseWatcher(s)
  PROVE  /\ WatchInv(t)
         /\ t.watcher # None => t.closing # "none"
         /\ t.starting.pc # "none" => t.starting.aborted
BY CloseWatcherFacts DEF WatchInv, Same, Service, Starts

LEMMA CloseWatcherGood ==
  ASSUME NEW s, Good(s), NEW t, t = CloseWatcher(s)
  PROVE  Good(t)
<1>1. s \in Service /\ WatchInv(s) /\ ChannelInv(s) /\ SuspendInv(s) /\ LoopInv(s) /\ InterestInv(s)
  BY DEF Good, Base
<1>2. /\ t \in Service /\ Same(s, t) /\ SameChannels(s, t) /\ SameLoop(s, t)
      /\ t.starting.pc = s.starting.pc /\ (t.closing = "none" => s.closing = "none")
  BY <1>1, CloseWatcherFacts
<1>3. /\ WatchInv(t)
      /\ t.watcher # None => t.closing # "none"
      /\ t.starting.pc # "none" => t.starting.aborted
  BY <1>1, CloseWatcherWatch
<1>4. ChannelInv(t) /\ SuspendInv(t) /\ LoopInv(t)
  BY <1>1, <1>2, <1>3 DEF ChannelInv, SuspendInv, LoopInv, Unwatched, Same, SameChannels, SameLoop
<1>5. InterestInv(t)
  BY <1>1, <1>2, <1>3 DEF InterestInv, HasInterest, Unwatched, Attended, Computing, Due, Same, SameChannels, SameLoop
<1> QED BY <1>2, <1>3, <1>4, <1>5 DEF Good, Base

\* What a channel that gained or lost subscribers leads to, when all was well
\* with the other one.
LEMMA SubscriberChangedFacts ==
  ASSUME NEW s \in Service, NEW k \in Kinds, NEW t, t = SubscriberChanged(s, k)
  PROVE  /\ t \in Service /\ Same(s, t) /\ SameChannels(s, t)
         /\ t.starting.pc = s.starting.pc /\ t.starting.target = s.starting.target
         /\ s.loop.pc # "none" => t.loop.pc = s.loop.pc /\ t.loop.workspace = s.loop.workspace
                                  /\ t.loop.jobs = s.loop.jobs /\ t.loop.from = s.loop.from
         /\ (t.closing = "none" => s.closing = "none") /\ (t.requested => s.requested \/ HasInterest(s))
         /\ s.subs[k] > 0 /\ ~s.disposed /\ Known =>
              SameWatch(s, t) /\ (s.suspended => SameLoop(s, t)) /\ (~s.suspended => Woken(s, t))
         /\ s.subs[k] = 0 => t.timer = s.timer
         /\ s.subs[k] = 0 /\ (s.disposed \/ ~Known \/ HasInterest(s)) => SameWatch(s, t) /\ SameLoop(s, t)
         /\ s.subs[k] = 0 /\ ~s.disposed /\ Known /\ ~HasInterest(s) =>
              /\ ~t.requested /\ t.loop = Abort(s.loop)
              /\ t.starting.aborted = (s.starting.pc # "none")
              /\ t.closing = IF s.closing = "none" /\ (s.watcher # None \/ s.starting.pc # "none")
                             THEN "awaiting" ELSE s.closing
         /\ s.disposed \/ ~Known => t = s
<1>1. CASE s.disposed \/ ~Known
  <2>1. t = s
    BY <1>1 DEF SubscriberChanged
  <2> QED BY <1>1, <2>1 DEF Same, SameChannels, SameWatch, SameLoop
<1>2. CASE ~s.disposed /\ Known /\ s.subs[k] > 0
  <2> DEFINE u == [s EXCEPT !.evictions = s.evictions \ {k}]
  <2>1. /\ u \in Service /\ Same(s, u) /\ SameChannels(s, u) /\ SameWatch(s, u) /\ SameLoop(s, u)
    BY DEF Service, Same, SameChannels, SameWatch, SameLoop
  <2>2. t = RequestRefresh(u)
    BY <1>2 DEF SubscriberChanged
  <2>3. HasInterest(u) /\ HasInterest(s)
    BY <1>2, <2>1 DEF HasInterest, SameChannels
  <2> HIDE DEF u
  <2>4. /\ t \in Service /\ Same(u, t) /\ SameChannels(u, t) /\ SameWatch(u, t)
        /\ u.suspended => t = u
        /\ ~u.suspended => Woken(u, t)
    BY <1>2, <2>1, <2>2, <2>3, RequestRefreshFacts DEF Same
  <2> QED BY <1>2, <2>1, <2>3, <2>4 DEF Same, SameChannels, SameWatch, SameLoop, Woken, Service
<1>3. CASE ~s.disposed /\ Known /\ ~(s.subs[k] > 0)
  <2> DEFINE u == [s EXCEPT !.evictions = s.evictions \union {k}]
  <2>1. /\ u \in Service /\ Same(s, u) /\ SameChannels(s, u) /\ SameWatch(s, u) /\ SameLoop(s, u)
    BY DEF Service, Same, SameChannels, SameWatch, SameLoop
  <2>2. HasInterest(u) <=> HasInterest(s)
    BY <2>1 DEF HasInterest, SameChannels
  <2>3. CASE HasInterest(s)
    <3>1. t = u
      BY <1>3, <2>2, <2>3 DEF SubscriberChanged
    <3> HIDE DEF u
    <3> QED BY <1>3, <2>1, <2>3, <3>1 DEF Same, SameChannels, SameWatch, SameLoop
  <2>4. CASE ~HasInterest(s)
    <3> DEFINE m == Abort(u.loop)
               v == [u EXCEPT !.requested = FALSE, !.loop = m]
    <3>1. t = CloseWatcher(v)
      BY <1>3, <2>2, <2>4 DEF SubscriberChanged
    <3>2. /\ m \in Loops /\ m.pc = s.loop.pc /\ m.workspace = s.loop.workspace
          /\ m.jobs = s.loop.jobs /\ m.from = s.loop.from
      <4>1. u.loop \in Loops /\ u.loop = s.loop
        BY <2>1 DEF Service, SameLoop
      <4> QED BY <4>1, AbortFacts
    <3>3. m = Abort(s.loop)
      BY <2>1 DEF SameLoop
    <3> HIDE DEF m, u
    <3>4. /\ v \in Service /\ Same(u, v) /\ SameChannels(u, v) /\ SameWatch(u, v)
          /\ ~v.requested /\ v.loop = m /\ v.timer = u.timer
      BY <2>1, <3>2 DEF Service, Same, SameChannels, SameWatch
    <3> HIDE DEF v
    <3>5. /\ t \in Service /\ Same(v, t) /\ SameChannels(v, t) /\ SameLoop(v, t)
          /\ t.starting.pc = v.starting.pc /\ t.starting.target = v.starting.target
          /\ t.starting.aborted = (v.starting.pc # "none")
          /\ t.closing = IF v.closing = "none" /\ (v.watcher # None \/ v.starting.pc # "none")
                         THEN "awaiting" ELSE v.closing
      BY <3>1, <3>4, CloseWatcherFacts
    <3> QED BY <1>3, <2>1, <2>4, <3>2, <3>3, <3>4, <3>5 DEF Same, SameChannels, SameWatch, SameLoop
  <2> QED BY <2>3, <2>4
<1> QED BY <1>1, <1>2, <1>3

LEMMA SubscriberChangedGood ==
  ASSUME NEW s, Base(s), LoopInv(s), NEW k \in Kinds, \A j \in Kinds \ {k} : Attended(s, j),
         s.disposed \/ ~Known => s.suspended, NEW t, t = SubscriberChanged(s, k)
  PROVE  Good(t)
<1>1. s \in Service /\ WatchInv(s) /\ ChannelInv(s) /\ SuspendInv(s)
  BY DEF Base
<1>2. CASE s.disposed \/ ~Known
  <2>1. t = s /\ s.suspended
    BY <1>2 DEF SubscriberChanged
  <2>2. InterestInv(s)
    BY <1>1, <2>1 DEF InterestInv, SuspendInv, Attended
  <2> QED BY <2>1, <2>2 DEF Good
<1>3. CASE ~s.disposed /\ Known /\ s.subs[k] > 0
  <2> DEFINE u == [s EXCEPT !.evictions = s.evictions \ {k}]
  <2>1. /\ u \in Service /\ Same(s, u) /\ SameChannels(s, u) /\ SameWatch(s, u) /\ SameLoop(s, u)
    BY <1>1 DEF Service, Same, SameChannels, SameWatch, SameLoop
  <2>2. t = RequestRefresh(u)
    BY <1>3 DEF SubscriberChanged
  <2>3. HasInterest(u)
    BY <1>3, <2>1 DEF HasInterest, SameChannels
  <2> HIDE DEF u
  <2>4. Base(u) /\ LoopInv(u)
    BY <1>1, <2>1 DEF Base, WatchInv, ChannelInv, SuspendInv, LoopInv, Unwatched,
                      Same, SameChannels, SameWatch, SameLoop
  <2> QED BY <2>2, <2>3, <2>4, RefreshServes
<1>4. CASE ~s.disposed /\ Known /\ ~(s.subs[k] > 0)
  <2>1. s.subs[k] = 0
    BY <1>1, <1>4, SizesAssumption DEF Service
  <2>2. t \in Service /\ Same(s, t) /\ SameChannels(s, t) /\ t.timer = s.timer
    BY <1>1, <2>1, SubscriberChangedFacts
  <2>3. CASE HasInterest(s)
    <3>1. SameWatch(s, t) /\ SameLoop(s, t)
      BY <1>1, <2>1, <2>3, SubscriberChangedFacts
    <3>2. Base(t) /\ LoopInv(t)
      BY <1>1, <2>2, <3>1 DEF Base, WatchInv, ChannelInv, SuspendInv, LoopInv, Unwatched,
                              Same, SameChannels, SameWatch, SameLoop
    <3>3. HasInterest(t)
      BY <2>2, <2>3 DEF HasInterest, SameChannels
    <3>4. \A j \in Kinds : Attended(s, j)
      BY <1>4 DEF Attended
    <3>5. \A j \in Kinds : Attended(t, j)
      BY <2>2, <3>1, <3>4 DEF Attended, Computing, Due, Same, SameChannels, SameLoop
    <3> QED BY <3>2, <3>3, <3>5 DEF Good, InterestInv
  <2>4. CASE ~HasInterest(s)
    <3>1. /\ ~t.requested /\ t.loop = Abort(s.loop)
          /\ t.starting.pc = s.starting.pc /\ t.starting.target = s.starting.target
          /\ t.starting.aborted = (s.starting.pc # "none")
          /\ t.closing = IF s.closing = "none" /\ (s.watcher # None \/ s.starting.pc # "none")
                         THEN "awaiting" ELSE s.closing
      BY <1>1, <1>4, <2>1, <2>4, SubscriberChangedFacts
    <3>2. /\ s.loop \in Loops /\ t.loop \in Loops /\ s.starting \in Starts /\ t.starting \in Starts
          /\ s.closing \in {"none", "awaiting", "releasing"}
      BY <1>1, <2>2 DEF Service
    <3>3. /\ t.loop.pc = s.loop.pc /\ t.loop.workspace = s.loop.workspace
          /\ t.loop.aborted = (s.loop.pc \in Abortable \/ s.loop.aborted)
      BY <3>1, <3>2, AbortFacts
    <3>4. WatchInv(t) /\ ChannelInv(t)
      BY <1>1, <2>2, <3>1, <3>2 DEF WatchInv, ChannelInv, Same, SameChannels
    <3>5. Unwatched(t)
      BY <2>2, <3>1 DEF Unwatched, Same
    <3>6. SuspendInv(t)
      BY <1>1, <2>2, <3>5, <3>3 DEF SuspendInv, Same
    <3>7. LoopInv(t)
      BY <2>2, <3>1, <3>3 DEF LoopInv, Same
    <3>8. \A j \in Kinds : Attended(t, j)
      BY <2>2, <2>4 DEF Attended, HasInterest, SameChannels
    <3> QED BY <2>2, <3>4, <3>5, <3>6, <3>7, <3>8 DEF Good, Base, InterestInv
  <2> QED BY <2>3, <2>4
<1> QED BY <1>2, <1>3, <1>4

-----------------------------------------------------------------------------
(* Channels go; the loop goes on *)

\* The loop is at most aborted, the watch at most asked to close, and a wake-up
\* lost at most when nobody is interested any more.
Quieter(s, t) ==
  /\ Same(s, t) /\ t.timer = s.timer
  /\ t.starting.pc = s.starting.pc /\ t.starting.target = s.starting.target
  /\ s.starting.aborted => t.starting.aborted
  /\ t.closing = s.closing \/ (t.closing = "awaiting" /\ s.closing = "none")
  /\ t.requested = s.requested \/ (~t.requested /\ ~HasInterest(t))
  /\ t.loop \in {s.loop, Abort(s.loop)}

LEMMA DisposeChannelGood ==
  ASSUME NEW s, Good(s), NEW k \in Kinds, s.disposed \/ ~Known => s.suspended, NEW t, t = DisposeChannel(s, k)
  PROVE  /\ Good(t) /\ Quieter(s, t) /\ t.workspace = s.workspace /\ t.catalogue = s.catalogue
         /\ t.store = [s.store EXCEPT ![k] = None] /\ t.subs = [s.subs EXCEPT ![k] = 0]
         /\ s.suspended /\ s.closing = "none" => SameWatch(s, t)
         /\ s.suspended /\ s.loop.pc = "none" => t.loop.pc = "none"
<1>1. /\ s \in Service /\ WatchInv(s) /\ ChannelInv(s) /\ SuspendInv(s) /\ LoopInv(s) /\ InterestInv(s)
      /\ s.store \in [Kinds -> Channels \union {None}] /\ s.subs \in [Kinds -> 0..MaxSubscribers]
      /\ s.loop \in Loops /\ s.starting \in Starts /\ s.hydrating \subseteq Kinds
  BY DEF Good, Base, Service
<1> DEFINE f == [s EXCEPT !.completed = s.completed \ {k}, !.evictions = s.evictions \ {k}]
           g == [s.store EXCEPT ![k] = None]
           h == [s.subs EXCEPT ![k] = 0]
           u == [f EXCEPT !.store = g, !.subs = h]
<1>2. g \in [Kinds -> Channels \union {None}] /\ h \in [Kinds -> 0..MaxSubscribers]
  BY <1>1, SizesAssumption
<1>3. g[k] = None /\ h[k] = 0 /\ \A j \in Kinds \ {k} : g[j] = s.store[j] /\ h[j] = s.subs[j]
  BY <1>1
<1>4. /\ f \in Service /\ Same(s, f) /\ SameChannels(s, f) /\ SameWatch(s, f) /\ SameLoop(s, f)
  BY <1>1 DEF Service, Same, SameChannels, SameWatch, SameLoop
<1>5. t = IF s.store[k] = None THEN f ELSE IF s.subs[k] > 0 THEN SubscriberChanged(u, k) ELSE u
  BY <1>1, <1>4 DEF DisposeChannel, SameChannels
<1> HIDE DEF f, g, h
<1>6. /\ u \in Service /\ Same(s, u) /\ SameWatch(s, u) /\ SameLoop(s, u)
      /\ u.store = g /\ u.subs = h /\ u.workspace = s.workspace /\ u.catalogue = s.catalogue
  BY <1>1, <1>2, <1>4 DEF Service, Same, SameChannels, SameWatch, SameLoop
<1> HIDE DEF u
<1>7. CASE s.store[k] = None
  <2>1. t = f
    BY <1>5, <1>7
  <2>2. s.subs[k] = 0
    BY <1>1, <1>7, SizesAssumption DEF ChannelInv
  <2>3. g = s.store /\ h = s.subs
    BY <1>1, <1>7, <2>2 DEF g, h
  <2>4. Base(f) /\ LoopInv(f) /\ InterestInv(f)
    BY <1>1, <1>4 DEF Base, WatchInv, ChannelInv, SuspendInv, LoopInv, InterestInv, Unwatched, HasInterest,
                      Attended, Computing, Due, Same, SameChannels, SameWatch, SameLoop
  <2> QED BY <1>4, <2>1, <2>3, <2>4 DEF g, h, Good, Quieter, SameChannels, SameWatch, SameLoop
<1>8. CASE s.store[k] # None
  <2>1. Base(u) /\ LoopInv(u)
    <3>1. ChannelInv(u)
      BY <1>1, <1>3, <1>6, SizesAssumption DEF ChannelInv, Same
    <3> QED BY <1>1, <1>6, <3>1 DEF Base, WatchInv, SuspendInv, LoopInv, Unwatched, Same, SameWatch, SameLoop
  <2>2. \A j \in Kinds \ {k} : Attended(u, j)
    BY <1>1, <1>3, <1>6 DEF InterestInv, Attended, Computing, Due, Same, SameLoop
  <2>3. CASE s.subs[k] > 0
    <3>1. t = SubscriberChanged(u, k)
      BY <1>5, <1>8, <2>3
    <3>2. Good(t)
      BY <3>1, <2>1, <2>2, <1>6, SubscriberChangedGood DEF Same
    <3>3. /\ Same(u, t) /\ SameChannels(u, t) /\ t.timer = u.timer
          /\ t.starting.pc = u.starting.pc /\ t.starting.target = u.starting.target
          /\ u.disposed \/ ~Known \/ HasInterest(u) => SameWatch(u, t) /\ SameLoop(u, t)
          /\ ~(u.disposed \/ ~Known \/ HasInterest(u)) =>
              /\ ~t.requested /\ t.loop = Abort(u.loop)
              /\ t.starting.aborted = (u.starting.pc # "none")
              /\ t.closing = IF u.closing = "none" /\ (u.watcher # None \/ u.starting.pc # "none")
                             THEN "awaiting" ELSE u.closing
      BY <3>1, <1>3, <1>6, SubscriberChangedFacts
    <3>4. HasInterest(u) <=> HasInterest(t)
      BY <3>3 DEF HasInterest, SameChannels
    <3>5. u.starting.aborted => u.starting.pc # "none"
      BY <2>1 DEF Base, WatchInv
    <3>6. Quieter(s, t)
      BY <1>6, <3>3, <3>4, <3>5 DEF Quieter, Same, SameWatch, SameLoop
    <3>7. /\ u.suspended /\ u.closing = "none" => SameWatch(u, t)
          /\ u.suspended /\ u.loop.pc = "none" => t.loop.pc = "none"
      <4>1. u.suspended /\ u.closing = "none" => u.watcher = None /\ u.starting.pc = "none"
        BY <2>1 DEF Base, SuspendInv, Unwatched, WatchInv
      <4>2. u.starting \in Starts /\ t.starting \in Starts /\ u.loop \in Loops
        BY <1>6, <3>2 DEF Good, Base, Service
      <4>3. Abort(u.loop).pc = u.loop.pc
        BY <4>2, AbortFacts
      <4>4. u.starting.pc = "none" => ~u.starting.aborted
        BY <3>5, <4>2
      <4>5. u.starting.pc = t.starting.pc /\ u.starting.target = t.starting.target
              /\ u.starting.aborted = t.starting.aborted => u.starting = t.starting
        BY <4>2 DEF Starts
      <4>6. CASE u.disposed \/ ~Known \/ HasInterest(u)
        BY <3>3, <4>6 DEF SameLoop
      <4>7. CASE ~(u.disposed \/ ~Known \/ HasInterest(u))
        <5>1. u.suspended /\ u.closing = "none" => u.starting.aborted = t.starting.aborted /\ t.closing = u.closing
          BY <3>3, <4>1, <4>2, <4>4, <4>7 DEF Starts
        <5> QED BY <3>3, <4>3, <4>5, <4>7, <5>1 DEF SameWatch
      <4> QED BY <4>6, <4>7
    <3> QED BY <1>6, <3>2, <3>3, <3>6, <3>7 DEF g, h, SameChannels, Same, SameWatch, SameLoop
  <2>4. CASE ~(s.subs[k] > 0)
    <3>1. t = u
      BY <1>5, <1>8, <2>4
    <3>2. h = s.subs
      BY <1>1, <2>4, SizesAssumption DEF h
    <3>3. InterestInv(u)
      <4>1. HasInterest(u) <=> HasInterest(s)
        BY <1>6, <3>2 DEF HasInterest
      <4>2. ~HasInterest(u) => Unwatched(u)
        BY <4>1, <1>1, <1>6 DEF InterestInv, Unwatched, Same, SameWatch, SameLoop
      <4>3. Attended(u, k)
        BY <1>6, <2>4, <3>2 DEF Attended
      <4> QED BY <4>2, <4>3, <2>2 DEF InterestInv
    <3> QED BY <1>6, <2>1, <3>1, <3>2, <3>3 DEF g, h, Good, Quieter, SameWatch, SameLoop
  <2> QED BY <2>3, <2>4
<1> QED BY <1>7, <1>8

\* Channels have gone, with their subscribers.
Fewer(s, t) ==
  \A k \in Kinds : \/ t.store[k] = s.store[k] /\ t.subs[k] = s.subs[k]
                   \/ t.store[k] = None /\ t.subs[k] = 0

LEMMA QuieterTwice ==
  ASSUME NEW s \in Service, NEW u \in Service, NEW t \in Service,
         Quieter(s, u), Quieter(u, t), Fewer(s, u), Fewer(u, t)
  PROVE  Quieter(s, t) /\ Fewer(s, t)
<1>1. Fewer(s, t)
  BY DEF Fewer
<1>2. HasInterest(t) => HasInterest(u)
  <2>1. \A k \in Kinds : u.subs[k] \in Nat /\ t.subs[k] \in Nat
    BY SizesAssumption DEF Service
  <2> QED BY <2>1 DEF Fewer, HasInterest
<1>3. t.loop \in {s.loop, Abort(s.loop)}
  <2>1. Abort(Abort(s.loop)) = Abort(s.loop)
    BY DEF Abort, Service, Loops
  <2> QED BY <2>1 DEF Quieter
<1> QED BY <1>1, <1>2, <1>3 DEF Quieter, Same

\* What there is when channel k has gone.
Dropped(s, k, t) ==
  /\ Good(t) /\ Quieter(s, t) /\ Fewer(s, t) /\ t.store[k] = None
  /\ t.workspace = s.workspace /\ t.catalogue = s.catalogue
  /\ s.suspended /\ s.closing = "none" => t.closing = "none"
  /\ s.suspended /\ s.loop.pc = "none" => t.loop.pc = "none"

KnownSuspends(s) == s.disposed \/ ~Known => s.suspended

LEMMA DisposeDrops ==
  ASSUME NEW s, Good(s), NEW k \in Kinds, KnownSuspends(s)
  PROVE  Dropped(s, k, DisposeChannel(s, k))
<1> DEFINE t == DisposeChannel(s, k)
<1>1. /\ Good(t) /\ Quieter(s, t) /\ t.workspace = s.workspace /\ t.catalogue = s.catalogue
      /\ t.store = [s.store EXCEPT ![k] = None] /\ t.subs = [s.subs EXCEPT ![k] = 0]
      /\ s.suspended /\ s.closing = "none" => SameWatch(s, t)
      /\ s.suspended /\ s.loop.pc = "none" => t.loop.pc = "none"
  BY DisposeChannelGood DEF KnownSuspends
<1> HIDE DEF t
<1>2. s.store \in [Kinds -> Channels \union {None}] /\ s.subs \in [Kinds -> 0..MaxSubscribers]
  BY DEF Good, Base, Service
<1>3. Fewer(s, t) /\ t.store[k] = None
  BY <1>1, <1>2 DEF Fewer
<1> QED BY <1>1, <1>3 DEF Dropped, SameWatch, t

LEMMA DropsTwice ==
  ASSUME NEW s, Good(s), NEW j, NEW k, NEW u, NEW t, Dropped(s, j, u), Dropped(u, k, t)
  PROVE  Dropped(s, k, t) /\ (j \in Kinds => t.store[j] = None)
<1>1. s \in Service /\ u \in Service /\ t \in Service
  BY DEF Good, Base, Dropped
<1>2. Quieter(s, t) /\ Fewer(s, t)
  BY <1>1, QuieterTwice DEF Dropped
<1>3. u.suspended = s.suspended
  BY DEF Dropped, Quieter, Same
<1>4. j \in Kinds => t.store[j] = None
  BY DEF Dropped, Fewer
<1> QED BY <1>2, <1>3, <1>4 DEF Dropped

LEMMA KnownKept ==
  ASSUME NEW s, NEW t, KnownSuspends(s), Quieter(s, t)
  PROVE  KnownSuspends(t)
BY DEF KnownSuspends, Quieter, Same

LEMMA DisposeChannelsGood ==
  ASSUME NEW s, Good(s), KnownSuspends(s), NEW t, t = DisposeChannels(s)
  PROVE  Dropped(s, "uncommitted", t) /\ \A k \in Kinds : t.store[k] = None
<1> DEFINE u == DisposeChannel(s, "latest-commit")
<1>1. "latest-commit" \in Kinds /\ "uncommitted" \in Kinds
  BY DEF Kinds
<1>2. Dropped(s, "latest-commit", u)
  BY <1>1, DisposeDrops
<1>3. t = DisposeChannel(u, "uncommitted")
  BY DEF DisposeChannels
<1> HIDE DEF u
<1>4. Good(u) /\ KnownSuspends(u)
  BY <1>2, KnownKept DEF Dropped
<1>5. Dropped(u, "uncommitted", t)
  BY <1>1, <1>3, <1>4, DisposeDrops
<1>6. Dropped(s, "uncommitted", t) /\ t.store["latest-commit"] = None
  BY <1>1, <1>2, <1>5, DropsTwice
<1> QED BY <1>6 DEF Dropped, Kinds

\* One of the two channels a catalogue may lack.
LEMMA DroppedGood ==
  ASSUME NEW s, Good(s), NEW k \in Kinds, NEW C, KnownSuspends(s),
         NEW t, t = IF k \in C THEN s ELSE DisposeChannel(s, k)
  PROVE  Good(t) /\ Quieter(s, t) /\ Fewer(s, t) /\ (k \notin C => t.store[k] = None)
<1>1. s \in Service
  BY DEF Good, Base
<1>2. CASE k \in C
  BY <1>1, <1>2 DEF Quieter, Fewer, Same
<1>3. CASE k \notin C
  BY <1>1, <1>3, DisposeDrops DEF Dropped
<1> QED BY <1>2, <1>3

LEMMA ApplyCatalogueGood ==
  ASSUME NEW s, Good(s), NEW w \in Workspaces \union {None}, KnownSuspends(s),
         NEW t, t = ApplyCatalogue(s, w)
  PROVE  /\ Good(t) /\ Quieter(s, t) /\ Fewer(s, t) /\ t.workspace = w
         /\ w = None => \A k \in Kinds : t.store[k] = None
<1> DEFINE one == IF "latest-commit" \in CatalogueOf(w) THEN s ELSE DisposeChannel(s, "latest-commit")
           two == IF "uncommitted" \in CatalogueOf(w) THEN one ELSE DisposeChannel(one, "uncommitted")
<1>1. "latest-commit" \in Kinds /\ "uncommitted" \in Kinds
  BY DEF Kinds
<1>2. /\ Good(one) /\ Quieter(s, one) /\ Fewer(s, one)
      /\ "latest-commit" \notin CatalogueOf(w) => one.store["latest-commit"] = None
  BY <1>1, DroppedGood
<1>3. t = [two EXCEPT !.workspace = w, !.catalogue = CatalogueOf(w)]
  BY DEF ApplyCatalogue
<1> HIDE DEF one
<1>4. KnownSuspends(one)
  BY <1>2, KnownKept
<1>5. /\ Good(two) /\ Quieter(one, two) /\ Fewer(one, two)
      /\ "uncommitted" \notin CatalogueOf(w) => two.store["uncommitted"] = None
  BY <1>1, <1>2, <1>4, DroppedGood
<1> HIDE DEF two
<1>6. s \in Service /\ one \in Service /\ two \in Service
  BY <1>2, <1>5 DEF Good, Base
<1>7. Quieter(s, two) /\ Fewer(s, two)
  BY <1>2, <1>5, <1>6, QuieterTwice
<1>8. w = None => \A k \in Kinds : two.store[k] = None
  <2> SUFFICES ASSUME w = None PROVE two.store["latest-commit"] = None /\ two.store["uncommitted"] = None
    BY DEF Kinds
  <2>1. CatalogueOf(w) = {}
    BY DEF CatalogueOf
  <2> QED BY <1>1, <1>2, <1>5, <2>1 DEF Fewer
<1>9. /\ t \in Service /\ Same(two, t) /\ SameWatch(two, t) /\ SameLoop(two, t)
      /\ t.store = two.store /\ t.subs = two.subs /\ t.workspace = w
  <2>1. CatalogueOf(w) \subseteq Kinds
    BY DEF CatalogueOf, Kinds
  <2> DEFINE C == CatalogueOf(w)
  <2>2. C \subseteq Kinds /\ t = [two EXCEPT !.workspace = w, !.catalogue = C]
    BY <1>3, <2>1
  <2> HIDE DEF C
  <2> DEFINE v == [two EXCEPT !.workspace = w]
  <2>3. v \in Service
    BY <1>6 DEF Service
  <2>6. t = [v EXCEPT !.catalogue = C]
    BY <2>2
  <2> HIDE DEF v
  <2>7. t \in Service
    BY <2>2, <2>3, <2>6 DEF Service
  <2>4. Same(two, t) /\ SameWatch(two, t) /\ SameLoop(two, t) /\ t.store = two.store /\ t.subs = two.subs
    BY <1>6, <2>2 DEF Service, Same, SameWatch, SameLoop
  <2>5. t.workspace = w
    BY <1>6, <2>2 DEF Service
  <2> QED BY <2>4, <2>5, <2>7
<1>10. HasInterest(t) <=> HasInterest(two)
  BY <1>9 DEF HasInterest
<1>11. Base(t) /\ LoopInv(t) /\ InterestInv(t)
  BY <1>5, <1>9, <1>10 DEF Good, Base, WatchInv, ChannelInv, SuspendInv, LoopInv, InterestInv, Unwatched,
                           Attended, Computing, Due, Same, SameWatch, SameLoop
<1>12. Quieter(s, t) /\ Fewer(s, t)
  BY <1>7, <1>9, <1>10 DEF Quieter, Fewer, Same, SameWatch, SameLoop
<1> QED BY <1>8, <1>9, <1>11, <1>12 DEF Good

\* The loop goes on or ends; what is still to be published has been asked for.
LEMMA AgainGood ==
  ASSUME NEW s, Base(s), s.starting.pc = "none", ~HasInterest(s) => Unwatched(s),
         \A k \in Kinds : s.subs[k] > 0 /\ ~s.suspended /\ Computing(s, k) => s.requested,
         NEW t, t = Again(s)
  PROVE  Good(t)
<1>1. s \in Service /\ WatchInv(s) /\ ChannelInv(s) /\ SuspendInv(s)
  BY DEF Base
<1>2. /\ t \in Service /\ Same(s, t) /\ SameChannels(s, t) /\ SameWatch(s, t) /\ t.timer = s.timer
      /\ ~t.loop.aborted
      /\ \/ s.requested /\ ~s.suspended /\ ~s.disposed /\ ~t.requested /\ t.loop.pc \in {"waiting", "probe"}
         \/ ~(s.requested /\ ~s.suspended /\ ~s.disposed) /\ t.requested = s.requested /\ t.loop.pc = "ended"
  BY <1>1, AgainFacts
<1>3. WatchInv(t) /\ ChannelInv(t) /\ SuspendInv(t)
  BY <1>1, <1>2 DEF WatchInv, ChannelInv, SuspendInv, Unwatched, Abortable, Same, SameChannels, SameWatch
<1>4. LoopInv(t)
  BY <1>2 DEF LoopInv, SameWatch
<1>5. ~HasInterest(t) => Unwatched(t)
  BY <1>2 DEF HasInterest, Unwatched, Same, SameChannels, SameWatch
<1>6. \A k \in Kinds : Attended(t, k)
  BY <1>1, <1>2 DEF Attended, Computing, Due, Early, Same, SameChannels, SuspendInv
<1> QED BY <1>2, <1>3, <1>4, <1>5, <1>6 DEF Good, Base, InterestInv

\* The loop stands where it scans or goes on: nothing is being opened, and what
\* was to be published after an abort has been asked for.
Passing(s) ==
  /\ Base(s) /\ KnownSuspends(s) /\ s.starting.pc = "none"
  /\ ~HasInterest(s) => Unwatched(s)
  /\ \A k \in Kinds : s.subs[k] > 0 /\ ~s.suspended /\ s.loop.aborted => s.requested

\* The two outcomes of a scan: it is left out, or it has begun.
Scanned(s, t) ==
  \/ t = Again(s) /\ \A k \in Kinds : s.subs[k] > 0 /\ ~s.suspended => s.requested /\ s.loop.aborted
  \/ /\ t \in Service /\ Same(s, t) /\ SameWatch(s, t) /\ t.requested = s.requested /\ t.timer = s.timer
     /\ t.subs = s.subs /\ ~s.suspended
     /\ t.loop.pc = "computing" /\ ~t.loop.aborted /\ t.loop.workspace = s.loop.workspace
     /\ t.loop.from = disk.files /\ t.loop.jobs = {k \in Kinds : s.subs[k] > 0} /\ HasInterest(s)
     /\ \A k \in Kinds : IF s.subs[k] > 0 THEN t.store[k] # None /\ Computing(t, k)
                                          ELSE t.store[k] = s.store[k]

LEMMA ScanFacts ==
  ASSUME NEW s, Passing(s), disk \in Disks, NEW t, t = Scan(s)
  PROVE  Scanned(s, t)
<1> DEFINE kinds == {k \in Kinds : Published(s, k)}
           status(k) == IF k \in s.completed THEN "recomputing" ELSE "computing"
           store == [k \in Kinds |-> IF k \in kinds THEN [s.store[k] EXCEPT !.status = status(k)] ELSE s.store[k]]
           from == disk.files
<1>1. /\ s \in Service /\ ChannelInv(s) /\ SuspendInv(s) /\ KnownSuspends(s)
      /\ \A k \in Kinds : s.subs[k] > 0 /\ ~s.suspended /\ s.loop.aborted => s.requested
  BY DEF Passing, Base
<1>2. kinds = {k \in Kinds : s.subs[k] > 0}
  BY <1>1 DEF Published, ChannelInv
<1>3. CASE ~CanPublish(s) \/ kinds = {}
  <2>1. t = Again(s)
    BY <1>3 DEF Scan
  <2>2. ASSUME NEW k \in Kinds, s.subs[k] > 0, ~s.suspended PROVE s.requested /\ s.loop.aborted
    <3>1. ~CanPublish(s)
      BY <1>2, <1>3, <2>2
    <3>2. s.loop.aborted
      BY <1>1, <2>2, <3>1 DEF CanPublish, KnownSuspends, SuspendInv
    <3> QED BY <1>1, <2>2, <3>2
  <2> QED BY <2>1, <2>2 DEF Scanned
<1>4. CASE CanPublish(s) /\ kinds # {}
  <2> DEFINE l == [s.loop EXCEPT !.pc = "computing", !.jobs = kinds, !.from = from]
  <2>1. t = [s EXCEPT !.store = store, !.loop.pc = "computing", !.loop.jobs = kinds, !.loop.from = from]
    BY <1>4 DEF Scan
  <2>2. \A k \in kinds : [s.store[k] EXCEPT !.status = status(k)] \in Channels
    BY <1>1, SizesAssumption DEF Service, Channels, Published
  <2>3. store \in [Kinds -> Channels \union {None}]
    BY <1>1, <2>2 DEF Service
  <2>4. \A k \in Kinds : IF k \in kinds THEN store[k].status \in {"computing", "recomputing"} /\ store[k] # None
                                        ELSE store[k] = s.store[k]
    <3>1. ASSUME NEW k \in kinds PROVE store[k].status \in {"computing", "recomputing"} /\ store[k] # None
      <4>1. s.store[k] \in Channels
        BY <1>1 DEF Service, Published
      <4>2. store[k] = [s.store[k] EXCEPT !.status = status(k)]
        OBVIOUS
      <4>3. store[k].status \in {"computing", "recomputing"}
        BY <4>1, <4>2 DEF Channels
      <4>4. s.store[k] # None /\ k \in Kinds /\ s.subs[k] > 0
        BY DEF Published
      <4>5. store[k] # None
        <5>1. store[k] \in Channels
          BY <2>2, <4>2
        <5> QED BY <5>1, SizesAssumption
      <4> QED BY <4>3, <4>5
    <3> QED BY <3>1
  <2>5. kinds \subseteq Kinds /\ from \in 0..MaxEdits
    BY DEF Disks
  <2>6. s.loop \in Loops /\ s.loop.aborted = FALSE /\ ~s.suspended
    BY <1>1, <1>4 DEF Service, Loops, CanPublish
  <2> HIDE DEF store, kinds, from
  <2>7. /\ l \in Loops /\ l.pc = "computing" /\ l.jobs = kinds /\ l.from = from
        /\ ~l.aborted /\ l.workspace = s.loop.workspace
    BY <2>5, <2>6 DEF Loops
  <2>8. t = [s EXCEPT !.store = store, !.loop = l]
    BY <1>1, <2>1 DEF Service
  <2> HIDE DEF l
  <2>9. /\ t \in Service /\ Same(s, t) /\ SameWatch(s, t) /\ t.requested = s.requested /\ t.timer = s.timer
        /\ t.subs = s.subs /\ t.store = store /\ t.loop = l
    BY <1>1, <2>3, <2>7, <2>8 DEF Service, Same, SameWatch
  <2>10. HasInterest(s)
    BY <1>2, <1>4 DEF HasInterest
  <2>11. \A k \in Kinds : k \in kinds <=> s.subs[k] > 0
    BY <1>2
  <2> QED BY <1>2, <2>4, <2>6, <2>7, <2>9, <2>10, <2>11 DEF Scanned, Computing, from
<1> QED BY <1>3, <1>4

LEMMA ScannedGood ==
  ASSUME NEW s, Passing(s), s.loop.workspace # None, NEW t, Scanned(s, t)
  PROVE  Good(t)
<1>1. /\ s \in Service /\ WatchInv(s) /\ ChannelInv(s) /\ SuspendInv(s) /\ s.starting.pc = "none"
      /\ ~HasInterest(s) => Unwatched(s)
  BY DEF Passing, Base
<1>2. CASE t = Again(s) /\ \A k \in Kinds : s.subs[k] > 0 /\ ~s.suspended => s.requested /\ s.loop.aborted
  BY <1>1, <1>2, AgainGood DEF Passing
<1>3. CASE ~(t = Again(s) /\ \A k \in Kinds : s.subs[k] > 0 /\ ~s.suspended => s.requested /\ s.loop.aborted)
  <2>1. /\ t \in Service /\ Same(s, t) /\ SameWatch(s, t) /\ t.requested = s.requested /\ t.timer = s.timer
        /\ t.subs = s.subs /\ ~s.suspended
        /\ t.loop.pc = "computing" /\ ~t.loop.aborted /\ t.loop.workspace = s.loop.workspace
        /\ t.loop.from = disk.files /\ t.loop.jobs = {k \in Kinds : s.subs[k] > 0} /\ HasInterest(s)
        /\ \A k \in Kinds : IF s.subs[k] > 0 THEN t.store[k] # None /\ Computing(t, k)
                                             ELSE t.store[k] = s.store[k]
    BY <1>3 DEF Scanned
  <2>2. ChannelInv(t)
    BY <1>1, <2>1, SizesAssumption DEF ChannelInv, Same, Service
  <2>3. WatchInv(t) /\ SuspendInv(t)
    BY <1>1, <2>1 DEF WatchInv, SuspendInv, Same, SameWatch
  <2>4. LoopInv(t)
    BY <1>1, <2>1 DEF LoopInv, SameWatch
  <2>5. HasInterest(t) /\ \A k \in Kinds : Attended(t, k)
    BY <2>1 DEF HasInterest, Attended, Due
  <2> QED BY <2>1, <2>2, <2>3, <2>4, <2>5 DEF Good, Base, InterestInv
<1> QED BY <1>2, <1>3

LEMMA EnsureWatcherFacts ==
  ASSUME NEW s, Passing(s), s.loop.pc \in Abortable, s.loop.workspace # None, disk \in Disks,
         NEW t, t = EnsureWatcher(s)
  PROVE  /\ Good(t)
         /\ \/ Scanned(s, t) /\ s.closing = "none"
            \/ t.loop.pc \in {"joining", "watching"} /\ Same(s, t) /\ SameChannels(s, t) /\ s.loop.from = t.loop.from
               /\ t.closing = s.closing /\ t.requested = s.requested /\ t.timer = s.timer
               /\ t.starting.pc \in {"none", "opening"}
               /\ (t.starting.pc = "opening" =>
                     s.watcher = None /\ s.workspace # None /\ t.starting.target = s.workspace.target)
<1>1. /\ s \in Service /\ WatchInv(s) /\ ChannelInv(s) /\ SuspendInv(s) /\ s.starting.pc = "none"
      /\ s.loop \in Loops /\ s.starting \in Starts /\ (~HasInterest(s) => Unwatched(s))
      /\ \A k \in Kinds : s.subs[k] > 0 /\ ~s.suspended /\ s.loop.aborted => s.requested
  BY DEF Passing, Base, Service
<1>2. CASE s.closing # "none"
  <2> DEFINE l == [s.loop EXCEPT !.pc = "joining"]
  <2>1. t = [s EXCEPT !.loop = l]
    BY <1>1, <1>2 DEF EnsureWatcher, Service
  <2>2. /\ l \in Loops /\ l.pc = "joining" /\ l.aborted = s.loop.aborted /\ l.workspace = s.loop.workspace
        /\ l.from = s.loop.from
    BY <1>1 DEF Loops
  <2> HIDE DEF l
  <2>3. /\ t \in Service /\ Same(s, t) /\ SameChannels(s, t) /\ SameWatch(s, t) /\ t.loop = l
        /\ t.requested = s.requested /\ t.timer = s.timer
    BY <1>1, <2>1, <2>2 DEF Service, Same, SameChannels, SameWatch
  <2>4. WatchInv(t) /\ ChannelInv(t) /\ SuspendInv(t) /\ LoopInv(t)
    BY <1>1, <1>2, <2>2, <2>3 DEF WatchInv, ChannelInv, SuspendInv, LoopInv, Unwatched, Abortable,
                                  Same, SameChannels, SameWatch
  <2>5. InterestInv(t)
    BY <1>1, <2>2, <2>3 DEF InterestInv, Unwatched, HasInterest, Attended, Due, Early, Same, SameChannels, SameWatch
  <2> QED BY <1>1, <2>2, <2>3, <2>4, <2>5 DEF Good, Base, SameWatch
<1>3. CASE /\ s.closing = "none"
           /\ s.disposed \/ s.suspended \/ s.watcher # None \/ s.workspace = None \/ ~HasInterest(s)
  <2>1. t = Scan(s)
    BY <1>3 DEF EnsureWatcher
  <2> QED BY <1>3, <2>1, ScanFacts, ScannedGood
<1>4. CASE /\ s.closing = "none"
           /\ ~(s.disposed \/ s.suspended \/ s.watcher # None \/ s.workspace = None \/ ~HasInterest(s))
  <2> DEFINE l == [s.loop EXCEPT !.pc = "watching"]
             w == [pc |-> "opening", aborted |-> FALSE, target |-> s.workspace.target]
  <2>1. t = [s EXCEPT !.loop = l, !.starting = w]
    BY <1>1, <1>4 DEF EnsureWatcher, Service
  <2>2. /\ l \in Loops /\ l.pc = "watching" /\ l.aborted = s.loop.aborted /\ l.workspace = s.loop.workspace
        /\ l.from = s.loop.from
    BY <1>1 DEF Loops
  <2>3. w \in Starts /\ w.pc = "opening" /\ ~w.aborted /\ w.target = s.workspace.target /\ w.target # None
    BY <1>1, <1>4, SizesAssumption DEF Starts, Service, Workspaces
  <2> HIDE DEF l, w
  <2>4. /\ t \in Service /\ Same(s, t) /\ SameChannels(s, t) /\ t.closing = s.closing /\ t.loop = l /\ t.starting = w
        /\ t.requested = s.requested /\ t.timer = s.timer
    BY <1>1, <2>1, <2>2, <2>3 DEF Service, Same, SameChannels
  <2>5. WatchInv(t) /\ ChannelInv(t) /\ SuspendInv(t) /\ LoopInv(t)
    BY <1>1, <1>4, <2>2, <2>3, <2>4 DEF WatchInv, ChannelInv, SuspendInv, LoopInv, Abortable, Same, SameChannels
  <2>6. HasInterest(t) /\ \A k \in Kinds : Attended(t, k)
    BY <1>1, <1>4, <2>2, <2>4 DEF HasInterest, Attended, Due, Early, Same, SameChannels
  <2> QED BY <1>4, <2>2, <2>3, <2>4, <2>5, <2>6 DEF Good, Base, InterestInv
<1> QED BY <1>2, <1>3, <1>4

-----------------------------------------------------------------------------
(* What a step may do *)

\* Nothing moves in a suspended service that has come to rest.
Calm(s, t) ==
  /\ t.suspended = s.suspended /\ t.disposed = s.disposed
  /\ s.suspended /\ s.closing = "none" => t.closing = "none"
  /\ s.suspended /\ s.loop.pc = "none" => t.loop.pc = "none"

Silent(s, t) ==
  s.suspended /\ t.suspended =>
    /\ t.catalogue \in {s.catalogue, {}}
    /\ \A k \in Kinds : s.store[k] # None => t.store[k] \in {s.store[k], None}

\* What every step is proved to do. The third part needs a proviso where a
\* watch opens, and is proved of the others.
Keeps == disk' \in Disks /\ stop' \in Stops /\ Good(st') /\ StopInv' /\ Silent(st, st')
Follows == EditInv(st, disk) => EditInv(st', disk')

\* Without interest, or suspended, there is nothing to follow.
LEMMA NothingFollows ==
  ASSUME NEW t, Good(t), t.suspended \/ ~HasInterest(t), NEW d
  PROVE  EditInv(t, d)
<1>1. Unwatched(t)
  BY DEF Good, Base, SuspendInv, InterestInv
<1> QED BY <1>1 DEF Unwatched, EditInv, StartFollows, ScanFollows, ShownFollows, Watching

LEMMA QuieterFollows ==
  ASSUME NEW s, NEW t, Good(s), Good(t), NEW d, EditInv(s, d), Quieter(s, t), Fewer(s, t)
  PROVE  EditInv(t, d)
<1>1. CASE ~HasInterest(t)
  BY <1>1, NothingFollows
<1>2. CASE HasInterest(t)
  <2>1. t.requested = s.requested
    BY <1>2 DEF Quieter
  <2>2. s.loop \in Loops /\ s.store \in [Kinds -> Channels \union {None}] /\ "uncommitted" \in Kinds
    BY DEF Good, Base, Service, Kinds
  <2>3. t.loop.pc = s.loop.pc /\ t.loop.jobs = s.loop.jobs /\ t.loop.from = s.loop.from
    BY <2>2, AbortFacts DEF Quieter
  <2>4. StartFollows(t, d)
    BY <2>1, <2>3 DEF EditInv, StartFollows, Pending, Quieter, Same
  <2>5. ScanFollows(t, d)
    BY <2>1, <2>3 DEF EditInv, ScanFollows, Watching, Pending, Quieter, Same
  <2>6. t.subs["uncommitted"] > 0 => t.subs["uncommitted"] = s.subs["uncommitted"] /\ t.store["uncommitted"] = s.store["uncommitted"]
    BY <2>2 DEF Fewer
  <2>7. ShownFollows(t, d)
    BY <2>1, <2>3, <2>6 DEF EditInv, ShownFollows, Watching, Pending, Quieter, Same
  <2> QED BY <2>4, <2>5, <2>7 DEF EditInv
<1> QED BY <1>1, <1>2

\* A refresh that has just been asked for is all there is to follow.
LEMMA WokenFollows ==
  ASSUME NEW s, LoopInv(s), NEW t, Woken(s, t), t.starting = s.starting, NEW d
  PROVE  EditInv(t, d)
BY DEF LoopInv, Woken, EditInv, StartFollows, ScanFollows, ShownFollows, Pending, Early

LEMMA ScannedFollows ==
  ASSUME NEW s, Passing(s), NEW t, Scanned(s, t), Good(t),
         Watching(s) => Pending(s) \/ Left(s.watcher, disk) \/ disk.target = s.watcher
  PROVE  EditInv(t, disk)
<1>1. CASE t.suspended \/ ~HasInterest(t)
  BY <1>1, NothingFollows
<1>2. CASE ~t.suspended /\ HasInterest(t)
  <2>1. s \in Service /\ s.starting.pc = "none" /\ SuspendInv(s)
    BY DEF Passing, Base
  <2>2. CASE t = Again(s) /\ \A k \in Kinds : s.subs[k] > 0 /\ ~s.suspended => s.requested /\ s.loop.aborted
    <3>1. /\ Same(s, t) /\ SameChannels(s, t) /\ SameWatch(s, t)
          /\ s.requested /\ ~s.suspended /\ ~s.disposed => t.loop.pc \in {"waiting", "probe"}
      BY <2>1, <2>2, AgainFacts
    <3>2. HasInterest(s) /\ ~s.suspended
      BY <1>2, <3>1 DEF HasInterest, SameChannels, Same
    <3>3. s.requested /\ ~s.disposed
      BY <2>1, <2>2, <3>2 DEF HasInterest, SuspendInv
    <3> QED BY <2>1, <3>1, <3>2, <3>3 DEF EditInv, StartFollows, ScanFollows, ShownFollows, SameWatch, Early
  <2>3. CASE ~(t = Again(s) /\ \A k \in Kinds : s.subs[k] > 0 /\ ~s.suspended => s.requested /\ s.loop.aborted)
    <3>1. /\ Same(s, t) /\ SameWatch(s, t) /\ t.requested = s.requested /\ t.loop.pc = "computing"
          /\ t.loop.from = disk.files /\ t.subs = s.subs
          /\ \A k \in Kinds : s.subs[k] > 0 => Computing(t, k)
      BY <2>3 DEF Scanned
    <3>2. "uncommitted" \in Kinds
      BY DEF Kinds
    <3> QED BY <2>1, <3>1, <3>2 DEF EditInv, StartFollows, ScanFollows, ShownFollows, Watching, Pending,
                                    Computing, Same, SameWatch
  <2> QED BY <2>2, <2>3
<1> QED BY <1>1, <1>2

LEMMA AgainFollows ==
  ASSUME NEW s, Base(s), s.starting.pc = "none", NEW t, t = Again(s), Good(t), NEW d,
         Watching(s) /\ s.subs["uncommitted"] > 0 /\ s.store["uncommitted"].status = "ready" =>
           \/ Pending(s) \/ Left(s.watcher, d)
           \/ d.target = s.watcher /\ s.store["uncommitted"].content.files = d.files
  PROVE  EditInv(t, d)
<1>1. /\ Same(s, t) /\ SameChannels(s, t) /\ SameWatch(s, t)
      /\ \/ s.requested /\ t.loop.pc \in {"waiting", "probe"}
         \/ t.requested = s.requested /\ t.loop.pc = "ended"
  BY AgainFacts DEF Base
<1> QED BY <1>1 DEF EditInv, StartFollows, ScanFollows, ShownFollows, Watching, Pending, Early,
                    Same, SameChannels, SameWatch

\* What follows when a channel gained or lost subscribers.
LEMMA SubscriberChangedKeeps ==
  ASSUME NEW s, Base(s), LoopInv(s), NEW k \in Kinds, \A j \in Kinds \ {k} : Attended(s, j),
         KnownSuspends(s), NEW t, t = SubscriberChanged(s, k), NEW d,
         StartFollows(s, d) /\ ScanFollows(s, d) /\ (s.subs[k] = 0 => ShownFollows(s, d))
  PROVE  EditInv(t, d)
<1>1. Good(t) /\ s \in Service
  BY SubscriberChangedGood DEF KnownSuspends, Base
<1>2. Same(s, t) /\ SameChannels(s, t)
  BY <1>1, SubscriberChangedFacts
<1>3. CASE t.suspended \/ ~HasInterest(t)
  BY <1>1, <1>3, NothingFollows
<1>4. CASE ~t.suspended /\ HasInterest(t)
  <2>1. ~s.suspended /\ HasInterest(s) /\ Known /\ ~s.disposed
    BY <1>2, <1>4 DEF Same, SameChannels, HasInterest, KnownSuspends
  <2>2. CASE s.subs[k] > 0
    <3>1. Woken(s, t) /\ t.starting = s.starting
      BY <1>1, <2>1, <2>2, SubscriberChangedFacts DEF SameWatch
    <3> QED BY <3>1, WokenFollows
  <2>3. CASE ~(s.subs[k] > 0)
    <3>1. s.subs[k] = 0
      BY <1>1, <2>3, SizesAssumption DEF Service
    <3>2. SameWatch(s, t) /\ SameLoop(s, t)
      BY <1>1, <2>1, <3>1, SubscriberChangedFacts
    <3> QED BY <1>2, <3>1, <3>2 DEF EditInv, StartFollows, ScanFollows, ShownFollows, Watching, Pending,
                                    Same, SameChannels, SameWatch, SameLoop
  <2> QED BY <2>2, <2>3
<1> QED BY <1>3, <1>4

LEMMA SubscriberChangedCalm ==
  ASSUME NEW s, Base(s), NEW k \in Kinds, KnownSuspends(s), NEW t, t = SubscriberChanged(s, k)
  PROVE  Calm(s, t) /\ SameChannels(s, t)
<1>1. s \in Service /\ s.subs[k] \in Nat /\ s.loop \in Loops
  BY SizesAssumption DEF Base, Service
<1>2. Same(s, t) /\ SameChannels(s, t)
  BY <1>1, SubscriberChangedFacts
<1>3. s.suspended /\ s.closing = "none" => s.watcher = None /\ s.starting.pc = "none"
  BY DEF Base, SuspendInv, Unwatched, WatchInv
<1>4. CASE s.disposed \/ ~Known
  BY <1>2, <1>4 DEF SubscriberChanged, Calm
<1>5. CASE ~(s.disposed \/ ~Known) /\ s.subs[k] > 0
  <2>1. SameWatch(s, t) /\ (s.suspended => SameLoop(s, t))
    BY <1>1, <1>5, SubscriberChangedFacts
  <2> QED BY <1>2, <2>1 DEF Calm, Same, SameWatch, SameLoop
<1>6. CASE ~(s.disposed \/ ~Known) /\ s.subs[k] = 0
  <2>1. CASE HasInterest(s)
    <3>1. SameWatch(s, t) /\ SameLoop(s, t)
      BY <1>1, <1>6, <2>1, SubscriberChangedFacts
    <3> QED BY <1>2, <3>1 DEF Calm, Same, SameWatch, SameLoop
  <2>2. CASE ~HasInterest(s)
    <3>1. /\ t.loop = Abort(s.loop)
          /\ t.closing = IF s.closing = "none" /\ (s.watcher # None \/ s.starting.pc # "none")
                         THEN "awaiting" ELSE s.closing
      BY <1>1, <1>6, <2>2, SubscriberChangedFacts
    <3>2. t.loop.pc = s.loop.pc
      BY <1>1, <3>1, AbortFacts
    <3> QED BY <1>2, <1>3, <3>1, <3>2 DEF Calm, Same
  <2> QED BY <2>1, <2>2
<1> QED BY <1>1, <1>4, <1>5, <1>6

LEMMA InvKnown ==
  ASSUME Inv
  PROVE  KnownSuspends(st) /\ st \in Service /\ Base(st) /\ LoopInv(st) /\ InterestInv(st)
<1>1. KnownSuspends(st)
  BY DEF Inv, Good, Base, SuspendInv, StopInv, KnownSuspends, Known
<1> QED BY <1>1 DEF Inv, Good, Base

\* A step that has nothing to do with disposal.
LEMMA StepKeeps ==
  ASSUME Inv, disk' \in Disks, UNCHANGED stop, Good(st'), Calm(st, st'), Silent(st, st'),
         stop["session"].phase = "done" => \A k \in Kinds : st.store[k] = None => st'.store[k] = None
  PROVE  Keeps
<1>1. st.disposed => st.suspended
  BY InvKnown DEF Base, SuspendInv
<1>2. \A a \in Agents : stop[a].phase # "no" => st.suspended
  BY <1>1 DEF Inv, StopInv, Agents
<1>3. StopInv'
  BY <1>2 DEF Inv, StopInv, Calm
<1> QED BY <1>3 DEF Keeps, Inv

-----------------------------------------------------------------------------
(* Subscribers, hydration and eviction *)

LEMMA PlainKeeps ==
  ASSUME Inv, UNCHANGED <<disk, stop>>, Good(st'), Calm(st, st'), st'.store = st.store, st'.catalogue = st.catalogue
  PROVE  Keeps
<1>1. disk' \in Disks /\ Silent(st, st')
  BY DEF Inv, Silent
<1> QED BY <1>1, StepKeeps

\* A channel whose subscribers changed, and nothing else.
LEMMA SubscribersKeep ==
  ASSUME Inv, UNCHANGED <<disk, stop>>, NEW k \in Kinds, NEW n \in 0..MaxSubscribers, st.store[k] # None,
         st' = SubscriberChanged([st EXCEPT !.subs[k] = n], k)
  PROVE  Keeps /\ Follows
<1> DEFINE s == [st EXCEPT !.subs[k] = n]
<1>1. KnownSuspends(st) /\ st \in Service /\ Base(st) /\ LoopInv(st) /\ InterestInv(st)
  BY InvKnown
<1>2. /\ s \in Service /\ Same(st, s) /\ SameWatch(st, s) /\ SameLoop(st, s) /\ s.store = st.store
      /\ s.catalogue = st.catalogue /\ s.subs = [st.subs EXCEPT ![k] = n]
  BY <1>1 DEF Service, Same, SameWatch, SameLoop
<1> HIDE DEF s
<1>3. Base(s)
  BY <1>1, <1>2 DEF Base, WatchInv, ChannelInv, SuspendInv, Unwatched, Same, SameWatch, SameLoop, Service
<1>4. LoopInv(s)
  BY <1>1, <1>2 DEF LoopInv, Same, SameWatch, SameLoop
<1>5. \A j \in Kinds \ {k} : Attended(s, j)
  BY <1>1, <1>2 DEF InterestInv, Attended, Computing, Due, Same, SameLoop, Service
<1>6. KnownSuspends(s) /\ st' = SubscriberChanged(s, k)
  BY <1>1, <1>2 DEF KnownSuspends, Same, s
<1>7. Good(st')
  BY <1>3, <1>4, <1>5, <1>6, SubscriberChangedGood DEF KnownSuspends
<1>8. Calm(s, st') /\ SameChannels(s, st')
  BY <1>3, <1>6, SubscriberChangedCalm
<1>9. Calm(st, st') /\ st'.store = st.store /\ st'.catalogue = st.catalogue
  BY <1>2, <1>8 DEF Calm, Same, SameWatch, SameLoop, SameChannels
<1>10. Keeps
  BY <1>7, <1>9, PlainKeeps
<1>11. ASSUME EditInv(st, disk)
       PROVE  EditInv(st', disk)
  <2>1. StartFollows(s, disk) /\ ScanFollows(s, disk)
    BY <1>2, <1>11 DEF EditInv, StartFollows, ScanFollows, Watching, Pending, Same, SameWatch, SameLoop
  <2>2. s.subs[k] = 0 => ShownFollows(s, disk)
    <3>1. s.subs["uncommitted"] > 0 /\ s.subs[k] = 0 => st.subs["uncommitted"] > 0
      BY <1>1, <1>2 DEF Service, Kinds
    <3> QED BY <1>2, <1>11, <3>1 DEF EditInv, ShownFollows, Watching, Pending, Same, SameWatch, SameLoop
  <2> QED BY <1>3, <1>4, <1>5, <1>6, <2>1, <2>2, SubscriberChangedKeeps
<1> QED BY <1>10, <1>11 DEF Follows

LEMMA SubscribeKeeps ==
  ASSUME Inv, NEW k \in Kinds, Subscribe(k)
  PROVE  Keeps /\ Follows
<1>1. st \in Service
  BY InvKnown
<1>2. st.subs[k] + 1 \in 0..MaxSubscribers
  BY <1>1, SizesAssumption DEF Subscribe, Service
<1>3. st' = SubscriberChanged([st EXCEPT !.subs[k] = st.subs[k] + 1], k)
  BY DEF Subscribe
<1> QED BY <1>2, <1>3, SubscribersKeep DEF Subscribe

LEMMA UnsubscribeKeeps ==
  ASSUME Inv, NEW k \in Kinds, Unsubscribe(k)
  PROVE  Keeps /\ Follows
<1>1. st \in Service /\ st.store[k] # None
  BY InvKnown DEF Base, ChannelInv, Unsubscribe
<1>2. st.subs[k] - 1 \in 0..MaxSubscribers
  BY <1>1, SizesAssumption DEF Unsubscribe, Service
<1>3. st' = SubscriberChanged([st EXCEPT !.subs[k] = st.subs[k] - 1], k)
  BY DEF Unsubscribe
<1> QED BY <1>1, <1>2, <1>3, SubscribersKeep DEF Unsubscribe

\* What a step leaves alone when all it does is to remember something.
Aside(s, t) ==
  /\ t.suspended = s.suspended /\ t.disposed = s.disposed /\ t.watcher = s.watcher /\ t.event = s.event
  /\ t.subs = s.subs /\ t.catalogue = s.catalogue /\ t.workspace = s.workspace
  /\ SameWatch(s, t) /\ SameLoop(s, t)

LEMMA AsideGood ==
  ASSUME NEW s, Good(s), NEW t \in Service, Aside(s, t), ChannelInv(t),
         \A k \in Kinds : s.subs[k] > 0 => t.store[k] = s.store[k]
  PROVE  Good(t) /\ Calm(s, t) /\ \A d : EditInv(s, d) => EditInv(t, d)
<1>1. s \in Service
  BY DEF Good, Base
<1>2. Base(t)
  BY DEF Good, Base, WatchInv, SuspendInv, Unwatched, Aside, SameWatch, SameLoop
<1>3. LoopInv(t)
  BY DEF Good, LoopInv, Aside, SameWatch, SameLoop
<1>4. InterestInv(t)
  BY DEF Good, InterestInv, Unwatched, HasInterest, Attended, Computing, Due, Aside, SameWatch, SameLoop
<1>5. ASSUME NEW d, EditInv(s, d)
      PROVE  EditInv(t, d)
  <2>1. s.subs["uncommitted"] > 0 => t.store["uncommitted"] = s.store["uncommitted"]
    BY DEF Kinds
  <2> QED BY <1>5, <2>1 DEF EditInv, StartFollows, ScanFollows, ShownFollows, Watching, Pending,
                            Aside, SameWatch, SameLoop
<1> QED BY <1>2, <1>3, <1>4, <1>5 DEF Good, Calm, Aside, SameWatch, SameLoop

LEMMA HydrateKeeps ==
  ASSUME Inv, NEW k \in Kinds, Hydrate(k)
  PROVE  Keeps /\ Follows
<1>1. st \in Service /\ Good(st)
  BY InvKnown DEF Inv
<1>2. /\ st' \in Service /\ Aside(st, st') /\ st'.store = st.store
      /\ st'.hydrating = st.hydrating \union {k} /\ UNCHANGED <<disk, stop>>
  BY <1>1 DEF Hydrate, Probe, Service, Aside, SameWatch, SameLoop
<1>3. ChannelInv(st')
  BY <1>1, <1>2 DEF Good, Base, ChannelInv, Aside, Hydrate
<1>4. Good(st') /\ Calm(st, st') /\ \A d : EditInv(st, d) => EditInv(st', d)
  BY <1>1, <1>2, <1>3, AsideGood
<1>5. st'.catalogue = st.catalogue
  BY <1>2 DEF Aside
<1> QED BY <1>2, <1>4, <1>5, PlainKeeps DEF Follows

LEMMA HydratedKeeps ==
  ASSUME Inv, NEW k \in Kinds, NEW stays \in BOOLEAN, Hydrated(k, stays)
  PROVE  Keeps /\ Follows
<1> DEFINE s == [st EXCEPT !.hydrating = @ \ {k}]
           u == [s EXCEPT !.evictions = @ \ {k}, !.store[k] = NewChannel, !.subs[k] = IF stays THEN 1 ELSE @]
<1>1. KnownSuspends(st) /\ st \in Service /\ Good(st) /\ Base(st) /\ LoopInv(st) /\ InterestInv(st) /\ disk \in Disks
  BY InvKnown DEF Inv
<1>2. UNCHANGED <<disk, stop>> /\ k \in st.hydrating
  BY DEF Hydrated
<1>3. st.store[k] = None /\ st.subs[k] = 0
  BY <1>1, <1>2, SizesAssumption DEF Base, ChannelInv, Service
<1>4. /\ s \in Service /\ Aside(st, s) /\ s.store = st.store /\ s.hydrating = st.hydrating \ {k}
      /\ s.probing = st.probing
  BY <1>1 DEF Service, Aside, SameWatch, SameLoop
<1>5. ChannelInv(s)
  BY <1>1, <1>4 DEF Base, ChannelInv, Aside
<1>6. Good(s) /\ Calm(st, s) /\ \A d : EditInv(st, d) => EditInv(s, d)
  BY <1>1, <1>4, <1>5, AsideGood
<1>7. CASE stop["session"].phase = "done" \/ k \notin s.catalogue
  <2>1. st' = s
    BY <1>7 DEF Hydrated
  <2>2. st'.catalogue = st.catalogue /\ st'.store = st.store
    BY <1>4, <2>1 DEF Aside
  <2> HIDE DEF s
  <2> QED BY <1>2, <1>6, <2>1, <2>2, PlainKeeps DEF Follows
<1>8. CASE ~(stop["session"].phase = "done" \/ k \notin s.catalogue)
  <2>1. st' = SubscriberChanged(u, k)
    BY <1>8 DEF Hydrated
  <2> HIDE DEF s
  <2>2. /\ NewChannel \in Channels /\ NewChannel # None /\ NewChannel.status = "computing"
        /\ (IF stays THEN 1 ELSE s.subs[k]) \in 0..MaxSubscribers
    BY <1>4, SizesAssumption DEF NewChannel, Channels, Service
  <2> DEFINE n == IF stays THEN 1 ELSE s.subs[k]
             c == NewChannel
             g == [s.store EXCEPT ![k] = c]
             h == [s.subs EXCEPT ![k] = n]
  <2>3. g \in [Kinds -> Channels \union {None}] /\ h \in [Kinds -> 0..MaxSubscribers]
    BY <1>4, <2>2 DEF Service
  <2>4. u = [s EXCEPT !.evictions = s.evictions \ {k}, !.store = g, !.subs = h]
    BY <1>4 DEF Service
  <2>5. g[k] = c /\ \A j \in Kinds \ {k} : g[j] = s.store[j] /\ h[j] = s.subs[j]
    BY <1>4 DEF Service
  <2> HIDE DEF n, c, g, h, u
  <2>6. /\ u \in Service /\ Same(s, u) /\ SameWatch(s, u) /\ SameLoop(s, u) /\ u.store = g /\ u.subs = h
        /\ u.catalogue = s.catalogue
    BY <1>4, <2>3, <2>4 DEF Service, Same, SameWatch, SameLoop
  <2>7. Base(u)
    <3>1. s.hydrating \subseteq Kinds
      BY <1>4 DEF Service
    <3>2. ChannelInv(u)
      BY <1>4, <1>5, <2>2, <2>5, <2>6, <3>1 DEF ChannelInv, Same, c
    <3> QED BY <1>6, <2>6, <3>2 DEF Good, Base, WatchInv, SuspendInv, Unwatched, Same, SameWatch, SameLoop
  <2>8. LoopInv(u)
    BY <1>6, <2>6 DEF Good, LoopInv, Same, SameWatch, SameLoop
  <2>9. \A j \in Kinds \ {k} : Attended(u, j)
    BY <1>6, <2>5, <2>6 DEF Good, InterestInv, Attended, Computing, Due, Same, SameLoop
  <2>10. KnownSuspends(u)
    BY <1>1, <1>4, <2>6 DEF KnownSuspends, Aside, Same
  <2>11. Good(st')
    BY <2>1, <2>7, <2>8, <2>9, <2>10, SubscriberChangedGood DEF KnownSuspends
  <2>12. Calm(u, st') /\ SameChannels(u, st')
    BY <2>1, <2>7, <2>10, SubscriberChangedCalm
  <2>13. Calm(st, st')
    BY <1>6, <2>6, <2>12 DEF Calm, Same, SameWatch, SameLoop
  <2>14. st'.catalogue = st.catalogue /\ \A j \in Kinds \ {k} : st'.store[j] = st.store[j]
    BY <1>4, <2>5, <2>6, <2>12 DEF SameChannels, Aside
  <2>15. Silent(st, st')
    BY <1>3, <2>14 DEF Silent
  <2>16. Keeps
    BY <1>1, <1>2, <1>8, <2>11, <2>13, <2>15, StepKeeps
  <2>17. ASSUME EditInv(st, disk)
         PROVE  EditInv(st', disk)
    <3>1. EditInv(s, disk)
      BY <1>6, <2>17
    <3>2. StartFollows(u, disk) /\ ScanFollows(u, disk)
      BY <2>6, <3>1 DEF EditInv, StartFollows, ScanFollows, Watching, Pending, Same, SameWatch, SameLoop
    <3>3. CASE k = "uncommitted"
      <4>1. ShownFollows(u, disk)
        BY <2>2, <2>5, <2>6, <3>3 DEF ShownFollows, c
      <4> QED BY <2>1, <2>7, <2>8, <2>9, <2>10, <3>2, <4>1, SubscriberChangedKeeps
    <3>4. CASE k # "uncommitted"
      <4>1. u.store["uncommitted"] = s.store["uncommitted"] /\ u.subs["uncommitted"] = s.subs["uncommitted"]
        BY <2>5, <2>6, <3>4 DEF Kinds
      <4>2. ShownFollows(u, disk)
        BY <2>6, <3>1, <4>1 DEF EditInv, ShownFollows, Watching, Pending, Same, SameWatch, SameLoop
      <4> QED BY <2>1, <2>7, <2>8, <2>9, <2>10, <3>2, <4>2, SubscriberChangedKeeps
    <3> QED BY <3>3, <3>4
  <2> QED BY <1>2, <2>16, <2>17 DEF Follows
<1> QED BY <1>7, <1>8

LEMMA EvictionKeeps ==
  ASSUME Inv, NEW k \in Kinds, EvictionFires(k)
  PROVE  Keeps /\ Follows
<1>1. st \in Service /\ Good(st) /\ disk \in Disks
  BY InvKnown DEF Inv
<1> DEFINE g == [st.store EXCEPT ![k] = IF st.subs[k] = 0 THEN None ELSE @]
<1>2. g \in [Kinds -> Channels \union {None}]
  BY <1>1 DEF Service
<1>3. st' = [st EXCEPT !.evictions = st.evictions \ {k}, !.store = g] /\ UNCHANGED <<disk, stop>>
  BY <1>1 DEF EvictionFires, Service
<1>4. \A j \in Kinds : g[j] = st.store[j] \/ (g[j] = None /\ st.subs[j] = 0)
  BY <1>1 DEF Service
<1> HIDE DEF g
<1>5. st' \in Service /\ Aside(st, st') /\ st'.store = g /\ st'.hydrating = st.hydrating
  BY <1>1, <1>2, <1>3 DEF Service, Aside, SameWatch, SameLoop
<1>6. \A j \in Kinds : st.subs[j] \in Nat
  BY <1>1, SizesAssumption DEF Service
<1>7. ChannelInv(st')
  BY <1>1, <1>4, <1>5, <1>6 DEF Good, Base, ChannelInv, Aside, Service
<1>8. Good(st') /\ Calm(st, st') /\ \A d : EditInv(st, d) => EditInv(st', d)
  BY <1>1, <1>4, <1>5, <1>6, <1>7, AsideGood
<1>9. Silent(st, st')
  BY <1>4, <1>5 DEF Silent, Aside
<1>10. Keeps
  BY <1>1, <1>3, <1>4, <1>5, <1>8, <1>9, StepKeeps
<1> QED BY <1>3, <1>8, <1>10 DEF Follows

LEMMA ProbeFollows ==
  ASSUME Inv, UNCHANGED <<disk, stop>>, st' = Probe(st)
  PROVE  Keeps /\ Follows
<1>1. st \in Service /\ Good(st)
  BY InvKnown DEF Inv
<1>2. st' \in Service /\ Aside(st, st') /\ st'.store = st.store /\ st'.hydrating = st.hydrating
  BY <1>1 DEF Probe, Service, Aside, SameWatch, SameLoop
<1>3. ChannelInv(st')
  BY <1>1, <1>2 DEF Good, Base, ChannelInv, Aside
<1>4. Good(st') /\ Calm(st, st') /\ \A d : EditInv(st, d) => EditInv(st', d)
  BY <1>1, <1>2, <1>3, AsideGood
<1>5. st'.catalogue = st.catalogue
  BY <1>2 DEF Aside
<1> QED BY <1>2, <1>4, <1>5, PlainKeeps DEF Follows

LEMMA AttachKeeps ==
  ASSUME Inv, Attach \/ SessionSubscribed
  PROVE  Keeps /\ Follows
BY ProbeFollows DEF Attach, SessionSubscribed

LEMMA RefreshKeeps ==
  ASSUME Inv, UNCHANGED <<disk, stop>>, HasInterest(st), st' = RequestRefresh(st)
  PROVE  Keeps /\ Follows
<1>1. Base(st) /\ LoopInv(st) /\ st \in Service /\ SuspendInv(st)
  BY InvKnown DEF Base
<1>2. /\ Same(st, st') /\ SameChannels(st, st') /\ SameWatch(st, st') /\ Good(st')
      /\ st.disposed \/ st.suspended \/ ~HasInterest(st) => st' = st
      /\ ~st.disposed /\ ~st.suspended /\ HasInterest(st) => Woken(st, st')
  BY <1>1, RequestRefreshFacts, RefreshServes
<1>3. Calm(st, st')
  BY <1>1, <1>2 DEF Calm, Same, SameWatch, SuspendInv
<1>4. Keeps
  BY <1>2, <1>3, PlainKeeps DEF SameChannels
<1>5. EditInv(st, disk) => EditInv(st', disk)
  <2>1. CASE st' = st
    BY <2>1
  <2>2. CASE Woken(st, st')
    BY <1>1, <1>2, <2>2, WokenFollows DEF SameWatch
  <2> QED BY <1>2, <2>1, <2>2
<1> QED BY <1>4, <1>5 DEF Follows

LEMMA TurnEndsKeeps ==
  ASSUME Inv, TurnEnds
  PROVE  Keeps /\ Follows
BY ProbeFollows, RefreshKeeps DEF TurnEnds

-----------------------------------------------------------------------------
(* The probe and the refresh loop *)

LEMMA WorkspaceTyped ==
  ASSUME disk \in Disks
  PROVE  /\ Workspace(disk) \in Workspaces \union {None}
         /\ Workspace(disk) # None => Workspace(disk).target = disk.target /\ disk.target # None
BY DEF Workspace, Disks, Workspaces

\* A step that ends what disposals may wait for.
LEMMA SettleKeeps ==
  ASSUME Inv, UNCHANGED disk, NEW what \in {"probe", "refresh"}, stop' = Settle(what), Good(st'),
         Calm(st, st'), Silent(st, st'), st.suspended /\ what = "refresh" => st'.loop.pc = "none",
         stop["session"].phase = "done" => \A k \in Kinds : st.store[k] = None => st'.store[k] = None
  PROVE  Keeps
<1>1. stop \in Stops /\ disk \in Disks /\ StopInv
  BY DEF Inv
<1>2. stop' \in Stops
  BY <1>1 DEF Settle, Stops, Agents
<1>3. /\ \A a \in Agents : stop'[a].phase = stop[a].phase /\ stop'[a].awaits = stop[a].awaits \ {what}
      /\ "session" \in Agents /\ "service" \in Agents
  BY <1>1 DEF Settle, Stops, Agents
<1>4. \A a \in Agents : stop[a].phase # "no" => st.suspended
  BY InvKnown DEF StopInv, Inv, Base, SuspendInv, Agents
<1>5. st'.disposed <=> stop'["service"].phase # "no"
  BY <1>1, <1>3 DEF StopInv, Calm
<1>6. stop'["session"].phase # "no" => st'.suspended
  BY <1>1, <1>3 DEF StopInv, Calm
<1>7. ASSUME NEW a \in Agents
      PROVE  /\ stop'[a].phase = "draining" =>
                  st'.closing = "none" /\ (st'.loop.pc # "none" => "refresh" \in stop'[a].awaits)
             /\ stop'[a].phase \in {"deleting", "done"} => st'.closing = "none" /\ st'.loop.pc = "none"
  BY <1>1, <1>3, <1>4 DEF StopInv, Calm
<1>8. stop'["session"].phase = "done" /\ ~st'.disposed => \A k \in Kinds : st'.store[k] = None
  BY <1>1, <1>3 DEF StopInv, Calm
<1>9. StopInv'
  BY <1>5, <1>6, <1>7, <1>8 DEF StopInv
<1> QED BY <1>1, <1>2, <1>9 DEF Keeps

LEMMA ProbeEndsKeeps ==
  ASSUME Inv, NEW ok \in BOOLEAN, ProbeEnds(ok)
  PROVE  Keeps /\ Follows
<1> DEFINE s == [st EXCEPT !.probing = FALSE, !.loop.pc = IF @ = "waiting" THEN "probe" ELSE @]
           l == [st.loop EXCEPT !.pc = IF @ = "waiting" THEN "probe" ELSE @]
           w == IF ok THEN Workspace(disk) ELSE None
<1>1. KnownSuspends(st) /\ st \in Service /\ Good(st) /\ Base(st) /\ LoopInv(st) /\ disk \in Disks
  BY InvKnown DEF Inv
<1>2. /\ l \in Loops /\ (l.pc = st.loop.pc \/ (st.loop.pc = "waiting" /\ l.pc = "probe"))
      /\ l.aborted = st.loop.aborted /\ l.workspace = st.loop.workspace /\ l.jobs = st.loop.jobs
      /\ l.from = st.loop.from
  BY <1>1 DEF Service, Loops
<1>3. s = [st EXCEPT !.probing = FALSE, !.loop = l]
  BY <1>1 DEF Service
<1>4. w \in Workspaces \union {None}
  BY <1>1, WorkspaceTyped
<1>5. /\ UNCHANGED disk /\ stop' = Settle("probe")
      /\ st' = IF ~Known \/ s.suspended \/ s.disposed THEN s ELSE ApplyCatalogue(s, w)
  BY DEF ProbeEnds
<1> HIDE DEF s, l, w
<1>6. /\ s \in Service /\ SameChannels(st, s) /\ SameWatch(st, s) /\ s.loop = l
      /\ s.requested = st.requested /\ s.timer = st.timer /\ s.suspended = st.suspended
      /\ s.disposed = st.disposed /\ s.hydrating = st.hydrating /\ s.watcher = st.watcher /\ s.event = st.event
  BY <1>1, <1>2, <1>3 DEF Service, SameChannels, SameWatch
<1>7. Good(s)
  <2>1. Base(s)
    BY <1>1, <1>2, <1>6 DEF Base, WatchInv, ChannelInv, SuspendInv, Unwatched, Abortable, SameChannels, SameWatch
  <2>2. LoopInv(s)
    BY <1>1, <1>2, <1>6 DEF LoopInv, Abortable, SameWatch
  <2>3. InterestInv(s)
    BY <1>1, <1>2, <1>6 DEF Good, InterestInv, HasInterest, Unwatched, Attended, Computing, Due, Early,
                            SameChannels, SameWatch
  <2> QED BY <2>1, <2>2, <2>3 DEF Good
<1>8. EditInv(st, disk) => EditInv(s, disk)
  BY <1>2, <1>6 DEF EditInv, StartFollows, ScanFollows, ShownFollows, Watching, Pending, Early,
                    SameChannels, SameWatch
<1>9. KnownSuspends(s) /\ Calm(st, s)
  BY <1>1, <1>2, <1>6 DEF KnownSuspends, Calm, SameWatch
<1>10. CASE st' = s
  <2>1. Silent(st, st')
    BY <1>6, <1>10 DEF Silent, SameChannels
  <2>2. \A k \in Kinds : st'.store[k] = st.store[k]
    BY <1>6, <1>10 DEF SameChannels
  <2>3. Keeps
    BY <1>5, <1>7, <1>9, <1>10, <2>1, <2>2, SettleKeeps
  <2> QED BY <1>5, <1>8, <1>10, <2>3 DEF Follows
<1>11. CASE ~st.suspended /\ st' = ApplyCatalogue(s, w)
  <2>1. Good(st') /\ Quieter(s, st') /\ Fewer(s, st')
    BY <1>4, <1>7, <1>9, <1>11, ApplyCatalogueGood
  <2>2. Calm(st, st')
    BY <1>6, <1>11, <2>1 DEF Calm, Quieter, Same
  <2>3. Silent(st, st')
    BY <1>11 DEF Silent
  <2>4. \A k \in Kinds : st.store[k] = None => st'.store[k] = None
    BY <1>6, <2>1 DEF Fewer, SameChannels
  <2>5. Keeps
    BY <1>5, <1>11, <2>1, <2>2, <2>3, <2>4, SettleKeeps
  <2>6. EditInv(st, disk) => EditInv(st', disk)
    BY <1>7, <1>8, <2>1, QuieterFollows
  <2> QED BY <1>5, <2>5, <2>6 DEF Follows
<1> QED BY <1>5, <1>6, <1>10, <1>11

LEMMA InspectKeeps ==
  ASSUME Inv, Inspect
  PROVE  Keeps /\ Follows
<1>1. KnownSuspends(st) /\ st \in Service /\ Good(st) /\ Base(st) /\ LoopInv(st) /\ InterestInv(st)
  BY InvKnown DEF Inv
<1>2. UNCHANGED <<disk, stop>> /\ st.loop.pc = "probe" /\ st.starting.pc = "none"
  BY <1>1 DEF Inspect, LoopInv
<1>3. CASE st.suspended \/ st.disposed
  <2>1. st' = Again(st) /\ st.suspended
    BY <1>1, <1>3 DEF Inspect, Base, SuspendInv
  <2>2. Good(st')
    BY <1>1, <1>2, <2>1, AgainGood DEF InterestInv
  <2>3. Same(st, st') /\ SameChannels(st, st') /\ SameWatch(st, st')
    BY <1>1, <2>1, AgainFacts
  <2>4. Calm(st, st') /\ st'.store = st.store /\ st'.catalogue = st.catalogue
    BY <1>2, <2>3 DEF Calm, Same, SameChannels, SameWatch
  <2>5. EditInv(st', disk)
    BY <2>1, <2>2, <2>3, NothingFollows DEF Same
  <2> QED BY <1>2, <2>2, <2>4, <2>5, PlainKeeps DEF Follows
<1>4. CASE ~(st.suspended \/ st.disposed)
  <2> DEFINE l == [IdleLoop EXCEPT !.pc = "inspecting"]
  <2>1. l \in Loops /\ l.pc = "inspecting" /\ l.aborted = FALSE
    BY FreshLoop
  <2>2. st' = [st EXCEPT !.loop = l]
    BY <1>4 DEF Inspect
  <2> HIDE DEF l
  <2>3. /\ st' \in Service /\ Same(st, st') /\ SameChannels(st, st') /\ SameWatch(st, st') /\ st'.loop = l
        /\ st'.requested = st.requested /\ st'.timer = st.timer
    BY <1>1, <2>1, <2>2 DEF Service, Same, SameChannels, SameWatch
  <2>4. Base(st')
    BY <1>1, <1>4, <2>3 DEF Base, WatchInv, ChannelInv, SuspendInv, Same, SameChannels, SameWatch
  <2>5. LoopInv(st')
    BY <1>2, <2>1, <2>3 DEF LoopInv, SameWatch
  <2>6. InterestInv(st')
    BY <1>1, <2>1, <2>3 DEF InterestInv, HasInterest, Unwatched, Attended, Due, Early, Same, SameChannels, SameWatch
  <2>7. Calm(st, st') /\ st'.store = st.store /\ st'.catalogue = st.catalogue
    BY <1>4, <2>3 DEF Calm, Same, SameChannels
  <2>8. Keeps
    BY <1>2, <2>4, <2>5, <2>6, <2>7, PlainKeeps DEF Good
  <2>9. EditInv(st', disk)
    BY <1>2, <2>1, <2>3 DEF EditInv, StartFollows, ScanFollows, ShownFollows, Early, SameWatch
  <2> QED BY <1>2, <2>8, <2>9 DEF Follows
<1> QED BY <1>3, <1>4

\* A pass that is given up: the loop goes round, or ends.
LEMMA AgainKeeps ==
  ASSUME Inv, UNCHANGED <<disk, stop>>, st.loop.pc # "none", st.starting.pc = "none", st' = Again(st),
         \A k \in Kinds : st.subs[k] > 0 /\ ~st.suspended /\ (Computing(st, k) \/ st.loop.pc \in Early) => st.requested
  PROVE  Keeps /\ Follows
<1>1. st \in Service /\ Base(st) /\ InterestInv(st)
  BY InvKnown DEF Inv
<1>2. Good(st')
  BY <1>1, AgainGood DEF InterestInv
<1>3. Same(st, st') /\ SameChannels(st, st') /\ SameWatch(st, st') /\ st'.loop.pc # "none"
  BY <1>1, AgainFacts
<1>4. Calm(st, st') /\ st'.store = st.store /\ st'.catalogue = st.catalogue
  BY <1>3 DEF Calm, Same, SameChannels, SameWatch
<1>5. Keeps
  BY <1>2, <1>4, PlainKeeps
<1>6. ASSUME EditInv(st, disk)
      PROVE  EditInv(st', disk)
  <2>1. CASE st.suspended
    BY <1>2, <1>3, <2>1, NothingFollows DEF Same
  <2>2. CASE ~st.suspended
    <3>1. st.subs["uncommitted"] > 0 /\ st.loop.pc \in Early => st.requested
      BY <2>2 DEF Kinds
    <3>2. Watching(st) /\ st.subs["uncommitted"] > 0 /\ st.store["uncommitted"].status = "ready" =>
            \/ Pending(st) \/ Left(st.watcher, disk)
            \/ disk.target = st.watcher /\ st.store["uncommitted"].content.files = disk.files
      BY <1>6, <3>1 DEF EditInv, ShownFollows, Pending
    <3> QED BY <1>1, <1>2, <3>2, AgainFollows
  <2> QED BY <2>1, <2>2
<1> QED BY <1>5, <1>6 DEF Follows

LEMMA InspectFailsKeeps ==
  ASSUME Inv, InspectFails
  PROVE  Keeps /\ Follows
<1>1. st \in Service /\ Good(st) /\ Base(st) /\ LoopInv(st) /\ InterestInv(st) /\ disk \in Disks
  BY InvKnown DEF Inv
<1>2. UNCHANGED <<disk, stop>> /\ st.loop.pc = "inspecting" /\ st.starting.pc = "none"
  BY <1>1 DEF InspectFails, LoopInv
<1>3. CASE st.loop.aborted
  <2>1. st' = Again(st)
    BY <1>3 DEF InspectFails
  <2> QED BY <1>1, <1>2, <1>3, <2>1, AgainKeeps DEF InterestInv, Attended
<1>4. CASE ~st.loop.aborted
  <2> DEFINE g == [k \in Kinds |-> IF Published(st, k) THEN [st.store[k] EXCEPT !.status = "error"] ELSE st.store[k]]
             s == [st EXCEPT !.store = g]
  <2>1. st' = Again(s)
    BY <1>4 DEF InspectFails
  <2>2. \A k \in Kinds : st.store[k] # None =>
          LET c == [st.store[k] EXCEPT !.status = "error"]
          IN  c \in Channels /\ c # None /\ c.status = "error"
    BY <1>1, SizesAssumption DEF Service, Channels
  <2>3. g \in [Kinds -> Channels \union {None}]
    BY <1>1, <2>2 DEF Service, Published
  <2>4. \A k \in Kinds : IF st.subs[k] > 0 THEN g[k] # None /\ g[k].status = "error" ELSE g[k] = st.store[k]
    BY <1>1, <2>2 DEF Base, ChannelInv, Published
  <2> HIDE DEF g
  <2>5. /\ s \in Service /\ Same(st, s) /\ SameWatch(st, s) /\ SameLoop(st, s) /\ s.store = g /\ s.subs = st.subs
        /\ s.catalogue = st.catalogue
    BY <1>1, <2>3 DEF Service, Same, SameWatch, SameLoop
  <2> HIDE DEF s
  <2>6. Base(s)
    <3>1. st.hydrating \subseteq Kinds
      BY <1>1 DEF Service
    <3>2. ChannelInv(s)
      BY <1>1, <2>4, <2>5, <3>1 DEF Base, ChannelInv, Same
    <3> QED BY <1>1, <2>5, <3>2 DEF Base, WatchInv, SuspendInv, Unwatched, Same, SameWatch, SameLoop
  <2>7. ~HasInterest(s) => Unwatched(s)
    BY <1>1, <2>5 DEF InterestInv, HasInterest, Unwatched, Same, SameWatch, SameLoop
  <2>8. \A k \in Kinds : s.subs[k] > 0 => ~Computing(s, k)
    BY <2>4, <2>5 DEF Computing
  <2>9. s.starting.pc = "none"
    BY <1>2, <2>5 DEF SameWatch
  <2>10. Good(st')
    BY <2>1, <2>6, <2>7, <2>8, <2>9, AgainGood
  <2>11. Same(s, st') /\ SameChannels(s, st') /\ SameWatch(s, st') /\ st'.loop.pc # "none"
    BY <2>1, <2>5, AgainFacts
  <2>12. ~st.suspended
    BY <1>1, <1>2, <1>4 DEF Base, SuspendInv, Abortable
  <2>13. Calm(st, st')
    BY <2>5, <2>11, <2>12 DEF Calm, Same
  <2>14. Silent(st, st')
    BY <2>12 DEF Silent
  <2>15. \A k \in Kinds : st.store[k] = None => st'.store[k] = None
    BY <1>1, <2>4, <2>5, <2>11 DEF Base, ChannelInv, SameChannels
  <2>16. Keeps
    BY <1>1, <1>2, <2>10, <2>13, <2>14, <2>15, StepKeeps
  <2>17. s.subs["uncommitted"] > 0 => s.store["uncommitted"].status # "ready"
    BY <2>4, <2>5 DEF Kinds
  <2>18. EditInv(st', disk)
    BY <2>1, <2>6, <2>9, <2>10, <2>17, AgainFollows
  <2> QED BY <1>2, <2>16, <2>18 DEF Follows
<1> QED BY <1>3, <1>4

LEMMA InspectedKeeps ==
  ASSUME Inv, Inspected
  PROVE  Keeps /\ Follows
<1> DEFINE w == Workspace(disk)
           u == ApplyCatalogue(st, w)
           s == [u EXCEPT !.loop.workspace = w]
<1>1. KnownSuspends(st) /\ st \in Service /\ Good(st) /\ Base(st) /\ LoopInv(st) /\ InterestInv(st) /\ disk \in Disks
  BY InvKnown DEF Inv
<1>2. UNCHANGED <<disk, stop>> /\ st.loop.pc = "inspecting" /\ st.starting.pc = "none"
  BY <1>1 DEF Inspected, LoopInv
<1>3. w \in Workspaces \union {None} /\ (w # None => w.target = disk.target /\ disk.target # None)
  BY <1>1, WorkspaceTyped
<1>4. Good(u) /\ Quieter(st, u) /\ Fewer(st, u) /\ u.workspace = w /\ (w = None => \A k \in Kinds : u.store[k] = None)
  BY <1>1, <1>3, ApplyCatalogueGood
<1>5. st' = IF ~CanPublish(st) THEN Again(st)
            ELSE IF w = None THEN CloseWatcher([s EXCEPT !.loop.pc = "closing"])
            ELSE IF s.watcher \notin {None, w.target} THEN CloseWatcher([s EXCEPT !.loop.pc = "joining"])
            ELSE EnsureWatcher(s)
  BY DEF Inspected
<1> HIDE DEF w, u, s
<1>6. CASE ~CanPublish(st)
  <2>1. st.suspended \/ st.loop.aborted
    BY <1>1, <1>6 DEF CanPublish, KnownSuspends
  <2>2. \A k \in Kinds : st.subs[k] > 0 /\ ~st.suspended => st.requested
    BY <1>1, <2>1 DEF InterestInv, Attended
  <2> QED BY <1>2, <1>5, <1>6, <2>2, AgainKeeps
<1>7. CASE CanPublish(st)
  <2>1. ~st.suspended /\ ~st.disposed /\ ~st.loop.aborted
    BY <1>7 DEF CanPublish
  <2>2. /\ u \in Service /\ u.loop \in Loops /\ Base(u) /\ LoopInv(u) /\ InterestInv(u)
        /\ u.loop.pc = "inspecting" /\ u.starting.pc = "none" /\ ~u.suspended /\ ~u.disposed
        /\ u.suspended = st.suspended /\ u.disposed = st.disposed /\ u.watcher = st.watcher
    <3>1. u \in Service /\ u.loop \in Loops /\ st.loop \in Loops
      BY <1>1, <1>4 DEF Good, Base, Service
    <3>2. u.loop.pc = "inspecting"
      BY <1>2, <1>4, <3>1, AbortFacts DEF Quieter
    <3> QED BY <1>2, <1>4, <2>1, <3>1, <3>2 DEF Good, Quieter, Same
  <2>3. EditInv(st, disk) => EditInv(u, disk)
    BY <1>1, <1>4, QuieterFollows
  <2> DEFINE l == [u.loop EXCEPT !.workspace = w]
  <2>4. l \in Loops /\ l.pc = "inspecting" /\ l.aborted = u.loop.aborted /\ l.workspace = w
    BY <1>3, <2>2 DEF Loops
  <2>5. s = [u EXCEPT !.loop = l]
    BY <2>2 DEF Service, s
  <2> HIDE DEF l
  <2>6. /\ s \in Service /\ Same(u, s) /\ SameChannels(u, s) /\ SameWatch(u, s) /\ s.loop = l
        /\ s.requested = u.requested /\ s.timer = u.timer
    BY <2>2, <2>4, <2>5 DEF Service, Same, SameChannels, SameWatch
  <2>7. Base(s)
    BY <2>2, <2>4, <2>6 DEF Base, WatchInv, ChannelInv, SuspendInv, Unwatched, Same, SameChannels, SameWatch
  <2>8. LoopInv(s)
    BY <2>2, <2>4, <2>6 DEF LoopInv, Abortable, Same, SameWatch
  <2>9. InterestInv(s)
    BY <2>2, <2>4, <2>6 DEF InterestInv, HasInterest, Unwatched, Attended, Computing, Due, Early,
                            Same, SameChannels, SameWatch
  <2>10. KnownSuspends(s) /\ ~s.suspended
    BY <1>1, <2>1, <2>2, <2>6 DEF KnownSuspends, Same
  <2>11. \A k \in Kinds : st.store[k] = None => s.store[k] = None
    BY <1>4, <2>6 DEF Fewer, SameChannels
  <2>12. s.suspended = st.suspended /\ s.disposed = st.disposed /\ s.watcher = st.watcher
    BY <2>2, <2>6 DEF Same
  \* What is left to show of each of the three ways on.
  <2>13. ASSUME Good(st'), Same(s, st'), \A k \in Kinds : s.store[k] = None => st'.store[k] = None
         PROVE  Keeps
    <3>1. Calm(st, st') /\ Silent(st, st')
      BY <2>1, <2>12, <2>13 DEF Calm, Silent, Same
    <3>2. \A k \in Kinds : st.store[k] = None => st'.store[k] = None
      BY <2>11, <2>13
    <3> QED BY <1>1, <1>2, <2>13, <3>1, <3>2, StepKeeps
  <2>14. CASE w = None
    <3> DEFINE m == [s.loop EXCEPT !.pc = "closing"]
               v == [s EXCEPT !.loop.pc = "closing"]
    <3>1. m \in Loops /\ m.pc = "closing" /\ m.aborted = l.aborted
      BY <2>4, <2>6 DEF Loops
    <3>2. v = [s EXCEPT !.loop = m] /\ st' = CloseWatcher(v)
      BY <1>5, <1>7, <2>6, <2>14 DEF Service
    <3> HIDE DEF m, v
    <3>3. /\ v \in Service /\ Same(s, v) /\ SameChannels(s, v) /\ SameWatch(s, v) /\ v.loop = m
          /\ v.requested = s.requested /\ v.timer = s.timer
      BY <2>6, <3>1, <3>2 DEF Service, Same, SameChannels, SameWatch
    <3>4. Base(v)
      BY <2>7, <2>10, <3>3 DEF Base, WatchInv, ChannelInv, SuspendInv, Unwatched, Same, SameChannels, SameWatch
    <3>5. ~HasInterest(v)
      BY <1>4, <2>6, <2>14, <3>3, <3>4 DEF Base, ChannelInv, HasInterest, SameChannels
    <3>6. LoopInv(v)
      BY <2>8, <2>4, <2>6, <3>1, <3>3 DEF LoopInv, Abortable, SameWatch
    <3>7. InterestInv(v)
      BY <2>9, <3>3, <3>5 DEF InterestInv, HasInterest, Unwatched, Attended, Same, SameChannels, SameWatch
    <3>8. Good(st')
      BY <3>2, <3>4, <3>6, <3>7, CloseWatcherGood DEF Good
    <3>9. Same(v, st') /\ SameChannels(v, st')
      BY <3>2, <3>3, CloseWatcherFacts
    <3>10. Keeps
      BY <2>13, <3>3, <3>8, <3>9 DEF Same, SameChannels
    <3>11. EditInv(st', disk)
      BY <3>5, <3>8, <3>9, NothingFollows DEF HasInterest, SameChannels
    <3> QED BY <1>2, <3>10, <3>11 DEF Follows
  <2>15. CASE w # None /\ s.watcher \notin {None, w.target}
    <3> DEFINE v == CloseWatcher(s)
               m == [s.loop EXCEPT !.pc = "joining"]
    <3>1. m \in Loops /\ m.pc = "joining" /\ m.aborted = l.aborted /\ m.workspace = w
      BY <2>4, <2>6 DEF Loops
    <3>2. /\ v \in Service /\ Same(s, v) /\ SameChannels(s, v) /\ SameLoop(s, v)
          /\ v.starting.pc = "none" /\ v.closing # "none"
      <4>1. v \in Service /\ Same(s, v) /\ SameChannels(s, v) /\ SameLoop(s, v) /\ v.starting.pc = s.starting.pc
            /\ v.closing = IF s.closing = "none" /\ (s.watcher # None \/ s.starting.pc # "none")
                           THEN "awaiting" ELSE s.closing
        BY <2>6, CloseWatcherFacts
      <4> QED BY <2>2, <2>6, <2>15, <4>1 DEF SameWatch
    <3>3. Good(v)
      BY <2>7, <2>8, <2>9, CloseWatcherGood DEF Good
    <3>4. CloseWatcher([s EXCEPT !.loop.pc = "joining"]) = [v EXCEPT !.loop = m]
      BY <2>6 DEF CloseWatcher, Service, Starts
    <3>5. st' = [v EXCEPT !.loop = m]
      BY <1>5, <1>7, <2>15, <3>4
    <3> HIDE DEF m, v
    <3>6. /\ st' \in Service /\ Same(v, st') /\ SameChannels(v, st') /\ SameWatch(v, st') /\ st'.loop = m
          /\ st'.requested = v.requested /\ st'.timer = v.timer
      BY <3>1, <3>2, <3>5 DEF Service, Same, SameChannels, SameWatch
    <3>7. Base(st')
      BY <2>10, <3>2, <3>3, <3>6 DEF Good, Base, WatchInv, ChannelInv, SuspendInv, Unwatched, Same, SameChannels, SameWatch
    <3>8. LoopInv(st')
      BY <2>15, <3>1, <3>2, <3>6 DEF LoopInv, Abortable, SameWatch
    <3>9. InterestInv(st')
      BY <2>4, <2>6, <3>1, <3>2, <3>3, <3>6 DEF Good, InterestInv, HasInterest, Unwatched, Attended, Due, Early,
                                         Same, SameChannels, SameWatch, SameLoop
    <3>10. Same(s, st') /\ st'.store = s.store
      BY <3>2, <3>6 DEF Same, SameChannels
    <3>11. Keeps
      BY <2>13, <3>7, <3>8, <3>9, <3>10 DEF Good
    <3>12. EditInv(st', disk)
      BY <3>1, <3>2, <3>6 DEF EditInv, StartFollows, ScanFollows, ShownFollows, Watching, SameWatch
    <3> QED BY <1>2, <3>11, <3>12 DEF Follows
  <2>16. CASE w # None /\ s.watcher \in {None, w.target}
    <3>1. st' = EnsureWatcher(s)
      BY <1>5, <1>7, <2>16
    <3>2. Passing(s) /\ s.loop.pc \in Abortable /\ s.loop.workspace # None
      BY <2>2, <2>4, <2>6, <2>7, <2>9, <2>10, <2>16 DEF Passing, InterestInv, Attended, Abortable, SameWatch
    <3>3. /\ Good(st')
          /\ \/ Scanned(s, st')
             \/ st'.loop.pc \in {"joining", "watching"} /\ Same(s, st') /\ SameChannels(s, st')
                /\ st'.starting.pc \in {"none", "opening"}
      BY <1>1, <3>1, <3>2, EnsureWatcherFacts
    <3>4. Same(s, st') /\ \A k \in Kinds : s.store[k] = None => st'.store[k] = None
      <4>1. CASE Scanned(s, st')
        <5>1. CASE st' = Again(s)
          BY <2>6, <5>1, AgainFacts DEF SameChannels
        <5>2. CASE st' # Again(s)
          BY <2>6, <2>7, <4>1, <5>2 DEF Scanned, Base, ChannelInv
        <5> QED BY <5>1, <5>2
      <4>2. CASE ~Scanned(s, st')
        BY <3>3, <4>2 DEF SameChannels
      <4> QED BY <4>1, <4>2
    <3>5. Keeps
      BY <2>13, <3>3, <3>4
    <3>6. EditInv(st', disk)
      <4>1. CASE Scanned(s, st')
        BY <1>3, <2>16, <3>2, <3>3, <4>1, ScannedFollows DEF Watching
      <4>2. CASE ~Scanned(s, st')
        BY <3>3, <4>2 DEF EditInv, StartFollows, ScanFollows, ShownFollows, Early
      <4> QED BY <4>1, <4>2
    <3> QED BY <1>2, <3>5, <3>6 DEF Follows
  <2> QED BY <2>14, <2>15, <2>16
<1> QED BY <1>6, <1>7

\* The loop goes on to scan, or to open a watch first, with no watch standing or
\* the one that stands the repository's.
LEMMA EnsureKeeps ==
  ASSUME Inv, UNCHANGED <<disk, stop>>, NEW s, Passing(s), Calm(st, s), s.store = st.store,
         s.catalogue = st.catalogue, s.loop.pc # "none", NEW t, t = st',
         \/ Scanned(s, t)
         \/ t.loop.pc \in {"joining", "watching"} /\ Same(s, t) /\ SameChannels(s, t) /\ t.closing = s.closing,
         Good(t)
  PROVE  Keeps
<1>1. disk \in Disks /\ s \in Service /\ SuspendInv(s) /\ ChannelInv(s)
  BY DEF Inv, Passing, Base
<1>2. CASE t = Again(s)
  <2>1. Same(s, t) /\ SameChannels(s, t) /\ SameWatch(s, t) /\ t.loop.pc # "none"
    BY <1>1, <1>2, AgainFacts
  <2>2. Calm(st, t) /\ t.store = st.store /\ t.catalogue = st.catalogue
    BY <2>1 DEF Calm, Same, SameChannels, SameWatch
  <2> QED BY <2>2, PlainKeeps
<1>3. CASE t # Again(s) /\ Scanned(s, t)
  <2>1. ~s.suspended /\ Same(s, t) /\ \A k \in Kinds : s.store[k] = None => t.store[k] = None
    BY <1>1, <1>3 DEF Scanned, ChannelInv
  <2>2. ~st.suspended /\ Calm(st, t)
    BY <2>1 DEF Calm, Same
  <2>3. Silent(st, t)
    BY <2>2 DEF Silent
  <2> QED BY <1>1, <2>1, <2>2, <2>3, StepKeeps
<1>4. CASE ~Scanned(s, t)
  <2>1. Calm(st, t) /\ t.store = st.store /\ t.catalogue = st.catalogue
    BY <1>4 DEF Calm, Same, SameChannels
  <2> QED BY <2>1, PlainKeeps
<1> QED BY <1>2, <1>3, <1>4

LEMMA JoinedKeeps ==
  ASSUME Inv, Joined
  PROVE  Keeps /\ Follows
<1>1. KnownSuspends(st) /\ st \in Service /\ Good(st) /\ Base(st) /\ LoopInv(st) /\ InterestInv(st) /\ disk \in Disks
  BY InvKnown DEF Inv
<1>2. UNCHANGED <<disk, stop>> /\ st.closing = "none"
  BY DEF Joined
<1>3. CASE st.loop.pc = "closing" /\ st' = Again(st)
  <2>1. st.starting.pc = "none" /\ st.loop.pc \notin Early /\ st.loop.pc # "computing"
    BY <1>1, <1>3 DEF LoopInv, Early
  <2>2. \A k \in Kinds : st.subs[k] > 0 /\ ~st.suspended /\ Computing(st, k) => st.requested
    BY <1>1, <2>1 DEF InterestInv, Attended, Due
  <2> QED BY <1>2, <1>3, <2>1, <2>2, AgainKeeps
<1>4. CASE st.loop.pc = "joining" /\ st' = EnsureWatcher(st)
  <2>1. st.starting.pc = "none" /\ st.watcher = None /\ st.loop.workspace # None /\ st.loop.pc \in Abortable
    BY <1>1, <1>2, <1>4 DEF LoopInv, Abortable
  <2>2. Passing(st)
    BY <1>1, <2>1 DEF Passing, InterestInv, Attended
  <2>3. /\ Good(st')
        /\ \/ Scanned(st, st')
           \/ st'.loop.pc \in {"joining", "watching"} /\ Same(st, st') /\ SameChannels(st, st')
              /\ st'.closing = st.closing /\ st'.starting.pc \in {"none", "opening"}
    BY <1>1, <1>4, <2>1, <2>2, EnsureWatcherFacts
  <2>4. Keeps
    BY <1>2, <1>4, <2>2, <2>3, EnsureKeeps DEF Calm
  <2>5. EditInv(st', disk)
    <3>1. CASE Scanned(st, st')
      BY <2>1, <2>2, <2>3, <3>1, ScannedFollows DEF Watching
    <3>2. CASE ~Scanned(st, st')
      BY <2>3, <3>2 DEF EditInv, StartFollows, ScanFollows, ShownFollows, Early
    <3> QED BY <3>1, <3>2
  <2> QED BY <1>2, <2>4, <2>5 DEF Follows
<1> QED BY <1>3, <1>4 DEF Joined

\* The scan of channel k is over: u is what is known of it then.
ScanOver(k, u) ==
  /\ u \in Service /\ Same(st, u) /\ SameWatch(st, u) /\ SameLoop(st, u)
  /\ u.subs = st.subs /\ u.catalogue = st.catalogue
  /\ \A j \in Kinds \ {k} : u.store[j] = st.store[j]
  /\ st.store[k] = None <=> u.store[k] = None
  /\ st.suspended => u.store[k] = st.store[k]
  /\ st.subs[k] > 0 /\ ~st.suspended /\ Computing(u, k) => st.requested

ShownNow(u, d) ==
  Watching(u) /\ u.subs["uncommitted"] > 0 /\ u.store["uncommitted"].status = "ready" =>
    \/ Pending(u) \/ Left(u.watcher, d)
    \/ d.target = u.watcher /\ u.store["uncommitted"].content.files = d.files

LEMMA ScanOverKeeps ==
  ASSUME Inv, UNCHANGED <<disk, stop>>, NEW k \in Kinds, st.loop.pc = "computing", k \in st.loop.jobs,
         NEW u, ScanOver(k, u), EditInv(st, disk) => ShownNow(u, disk),
         st' = IF st.loop.jobs = {k} THEN Again(u) ELSE [u EXCEPT !.loop.jobs = @ \ {k}]
  PROVE  Keeps /\ Follows
<1>1. KnownSuspends(st) /\ st \in Service /\ Good(st) /\ Base(st) /\ LoopInv(st) /\ InterestInv(st) /\ disk \in Disks
  BY InvKnown DEF Inv
<1>2. st.starting.pc = "none" /\ u.starting.pc = "none" /\ u \in Service /\ u.loop = st.loop
  BY <1>1 DEF LoopInv, ScanOver, SameWatch, SameLoop
<1>3. Base(u)
  <2>1. ChannelInv(u)
    BY <1>1 DEF Base, ChannelInv, ScanOver, Same, Service
  <2> QED BY <1>1, <1>2, <2>1 DEF Base, WatchInv, SuspendInv, Unwatched, ScanOver, Same, SameWatch, SameLoop
<1>4. ~HasInterest(u) => Unwatched(u)
  BY <1>1 DEF InterestInv, HasInterest, Unwatched, ScanOver, Same, SameWatch, SameLoop
<1>5. \A j \in Kinds \ {k} : Attended(u, j)
  BY <1>1 DEF InterestInv, Attended, Computing, Due, ScanOver, Same, SameLoop
<1>6. u.subs[k] > 0 /\ ~u.suspended /\ Computing(u, k) => u.requested
  BY DEF ScanOver, Same, SameLoop
\* What is left to show, whichever scan it was.
<1>7. ASSUME Good(st'), Same(u, st'), SameChannels(u, st'), SameWatch(u, st'), st'.loop.pc # "none"
      PROVE  Keeps
  <2>1. Calm(st, st')
    BY <1>7 DEF Calm, ScanOver, Same, SameWatch
  <2>2. Silent(st, st')
    BY <1>7 DEF Silent, ScanOver, SameChannels
  <2>3. \A j \in Kinds : st.store[j] = None => st'.store[j] = None
    BY <1>7 DEF ScanOver, SameChannels
  <2> QED BY <1>1, <1>7, <2>1, <2>2, <2>3, StepKeeps
<1>8. CASE st.loop.jobs = {k}
  <2>1. st' = Again(u)
    BY <1>8
  <2>2. \A j \in Kinds : u.subs[j] > 0 /\ ~u.suspended /\ Computing(u, j) => u.requested
    BY <1>2, <1>5, <1>6, <1>8 DEF Attended, Due, Early
  <2>3. Good(st')
    BY <1>2, <1>3, <1>4, <2>1, <2>2, AgainGood
  <2>4. Same(u, st') /\ SameChannels(u, st') /\ SameWatch(u, st') /\ st'.loop.pc # "none"
    BY <1>2, <2>1, AgainFacts
  <2>5. Keeps
    BY <1>7, <2>3, <2>4
  <2>6. EditInv(st, disk) => EditInv(st', disk)
    BY <1>2, <1>3, <2>1, <2>3, AgainFollows DEF ShownNow
  <2> QED BY <2>5, <2>6 DEF Follows
<1>9. CASE st.loop.jobs # {k}
  <2> DEFINE l == [u.loop EXCEPT !.jobs = u.loop.jobs \ {k}]
  <2>1. /\ l \in Loops /\ l.pc = "computing" /\ l.aborted = u.loop.aborted /\ l.workspace = u.loop.workspace
        /\ l.from = u.loop.from /\ l.jobs = u.loop.jobs \ {k}
    BY <1>2 DEF Service, Loops
  <2>2. st' = [u EXCEPT !.loop = l]
    BY <1>2, <1>9 DEF Service
  <2> HIDE DEF l
  <2>3. /\ st' \in Service /\ Same(u, st') /\ SameChannels(u, st') /\ SameWatch(u, st') /\ st'.loop = l
        /\ st'.requested = u.requested /\ st'.timer = u.timer
    BY <1>2, <2>1, <2>2 DEF Service, Same, SameChannels, SameWatch
  <2>4. Base(st')
    BY <1>2, <1>3, <2>1, <2>3 DEF Base, WatchInv, ChannelInv, SuspendInv, Unwatched, Same, SameChannels, SameWatch
  <2>5. LoopInv(st')
    BY <1>1, <1>2, <2>1, <2>3 DEF LoopInv, Abortable, SameWatch
  <2>6. \A j \in Kinds : Attended(st', j)
    <3>1. \A j \in Kinds \ {k} : Attended(st', j)
      BY <1>2, <1>5, <2>1, <2>3 DEF Attended, Computing, Due, Early, Same, SameChannels
    <3>2. st.subs[k] > 0 /\ ~st.suspended /\ st.loop.aborted => st.requested
      BY <1>1 DEF InterestInv, Attended
    <3>3. Attended(st', k)
      BY <1>2, <1>6, <2>1, <2>3, <3>2 DEF Attended, Computing, Due, ScanOver, Same, SameChannels, SameLoop
    <3> QED BY <3>1, <3>3
  <2>7. ~HasInterest(st') => Unwatched(st')
    BY <1>4, <2>3 DEF HasInterest, Unwatched, Same, SameChannels, SameWatch
  <2>8. Good(st')
    BY <2>4, <2>5, <2>6, <2>7 DEF Good, InterestInv
  <2>9. Keeps
    BY <1>7, <2>1, <2>3, <2>8
  <2>10. EditInv(st, disk) => EditInv(st', disk)
    BY <1>2, <2>1, <2>3 DEF EditInv, StartFollows, ScanFollows, ShownFollows, ShownNow, Watching, Pending,
                            ScanOver, Same, SameChannels, SameWatch, SameLoop
  <2> QED BY <2>9, <2>10 DEF Follows
<1> QED BY <1>8, <1>9

\* What a channel whose scan was not published has shown before.
LEMMA UnpublishedOver ==
  ASSUME Inv, NEW k \in Kinds, st.loop.pc = "computing", ~CanPublish(st) \/ st.store[k] = None
  PROVE  ScanOver(k, st) /\ (EditInv(st, disk) => ShownNow(st, disk))
<1>1. KnownSuspends(st) /\ st \in Service /\ Base(st) /\ InterestInv(st)
  BY InvKnown
<1>2. st.subs[k] > 0 /\ ~st.suspended => st.requested
  BY <1>1 DEF Base, ChannelInv, CanPublish, KnownSuspends, InterestInv, Attended
<1> QED BY <1>1, <1>2 DEF ScanOver, Same, SameWatch, SameLoop, EditInv, ShownFollows, ShownNow, Early

LEMMA ComputedKeeps ==
  ASSUME Inv, NEW k \in Kinds, NEW seen \in 0..MaxEdits, Computed(k, seen)
  PROVE  Keeps /\ Follows
<1> DEFINE content == [head |-> st.loop.workspace.head, files |-> IF k = "uncommitted" THEN seen ELSE 0]
           c == [status |-> "ready", content |-> content]
           s == IF ~CanPublish(st) \/ st.store[k] = None THEN st
                ELSE [st EXCEPT !.store[k] = c, !.completed = @ \union {k}]
<1>1. KnownSuspends(st) /\ st \in Service /\ Base(st) /\ LoopInv(st) /\ disk \in Disks
  BY InvKnown DEF Inv
<1>2. /\ UNCHANGED <<disk, stop>> /\ st.loop.pc = "computing" /\ k \in st.loop.jobs
      /\ seen \in st.loop.from..disk.files
      /\ st' = IF st.loop.jobs = {k} THEN Again(s) ELSE [s EXCEPT !.loop.jobs = @ \ {k}]
  BY DEF Computed
<1>3. ScanOver(k, s) /\ (EditInv(st, disk) => ShownNow(s, disk))
  <2>1. CASE ~CanPublish(st) \/ st.store[k] = None
    BY <1>2, <2>1, UnpublishedOver
  <2>2. CASE ~(~CanPublish(st) \/ st.store[k] = None)
    <3>1. content \in Contents /\ (k = "uncommitted" => content.files = seen)
      <4>1. st.loop.workspace \in Workspaces
        BY <1>1, <1>2 DEF LoopInv, Service, Loops
      <4>2. seen \in 0..MaxEdits /\ 0 \in 0..MaxEdits
        BY SizesAssumption
      <4> QED BY <4>1, <4>2 DEF Contents, Workspaces
    <3> HIDE DEF content
    <3>2. c \in Channels /\ c # None /\ c.status = "ready" /\ c.content = content
      BY <3>1, SizesAssumption DEF Channels
    <3> HIDE DEF c
    <3> DEFINE g == [st.store EXCEPT ![k] = c]
    <3>3. g \in [Kinds -> Channels \union {None}] /\ g[k] = c /\ \A j \in Kinds \ {k} : g[j] = st.store[j]
      BY <1>1, <3>2 DEF Service
    <3>4. s = [st EXCEPT !.store = g, !.completed = st.completed \union {k}]
      BY <1>1, <2>2 DEF Service
    <3> HIDE DEF g, s
    <3>5. /\ s \in Service /\ Same(st, s) /\ SameWatch(st, s) /\ SameLoop(st, s) /\ s.store = g /\ s.subs = st.subs
          /\ s.catalogue = st.catalogue
      BY <1>1, <3>3, <3>4 DEF Service, Same, SameWatch, SameLoop
    <3>6. ~st.suspended /\ st.store[k] # None
      BY <2>2 DEF CanPublish
    <3>7. ScanOver(k, s)
      BY <3>2, <3>3, <3>5, <3>6 DEF ScanOver, Computing
    <3>8. ASSUME EditInv(st, disk)
          PROVE  ShownNow(s, disk)
      <4>1. CASE k = "uncommitted"
        <5>1. s.store["uncommitted"].content.files = seen
          BY <3>1, <3>2, <3>3, <3>5, <4>1
        <5>2. st.loop.from = disk.files => seen = disk.files
          BY <1>1, <1>2 DEF Disks
        <5> QED BY <1>2, <3>5, <3>8, <4>1, <5>1, <5>2 DEF EditInv, ScanFollows, ShownNow, Watching, Pending,
                                                          Same, SameWatch, SameLoop
      <4>2. CASE k # "uncommitted"
        <5>1. s.store["uncommitted"] = st.store["uncommitted"]
          BY <3>3, <3>5, <4>2 DEF Kinds
        <5> QED BY <1>2, <3>5, <3>8, <5>1 DEF EditInv, ShownFollows, ShownNow, Watching, Pending, Early,
                                              Same, SameWatch, SameLoop
      <4> QED BY <4>1, <4>2
    <3> QED BY <3>7, <3>8
  <2> QED BY <2>1, <2>2
<1> HIDE DEF s
<1> QED BY <1>2, <1>3, ScanOverKeeps

LEMMA ComputeFailsKeeps ==
  ASSUME Inv, NEW k \in Kinds, ComputeFails(k)
  PROVE  Keeps /\ Follows
<1> DEFINE c == [st.store[k] EXCEPT !.status = "error"]
           s == IF ~CanPublish(st) \/ st.store[k] = None THEN st ELSE [st EXCEPT !.store[k].status = "error"]
<1>1. KnownSuspends(st) /\ st \in Service /\ Base(st) /\ disk \in Disks
  BY InvKnown DEF Inv
<1>2. /\ UNCHANGED <<disk, stop>> /\ st.loop.pc = "computing" /\ k \in st.loop.jobs
      /\ st' = IF st.loop.jobs = {k} THEN Again(s) ELSE [s EXCEPT !.loop.jobs = @ \ {k}]
  BY DEF ComputeFails
<1>3. ScanOver(k, s) /\ (EditInv(st, disk) => ShownNow(s, disk))
  <2>1. CASE ~CanPublish(st) \/ st.store[k] = None
    BY <1>2, <2>1, UnpublishedOver
  <2>2. CASE ~(~CanPublish(st) \/ st.store[k] = None)
    <3>1. c \in Channels /\ c # None /\ c.status = "error"
      BY <1>1, <2>2, SizesAssumption DEF Service, Channels
    <3> DEFINE g == [st.store EXCEPT ![k] = c]
    <3>2. g \in [Kinds -> Channels \union {None}] /\ g[k] = c /\ \A j \in Kinds \ {k} : g[j] = st.store[j]
      BY <1>1, <3>1 DEF Service
    <3>3. s = [st EXCEPT !.store = g]
      BY <1>1, <2>2 DEF Service
    <3> HIDE DEF c, g, s
    <3>4. /\ s \in Service /\ Same(st, s) /\ SameWatch(st, s) /\ SameLoop(st, s) /\ s.store = g /\ s.subs = st.subs
          /\ s.catalogue = st.catalogue
      BY <1>1, <3>2, <3>3 DEF Service, Same, SameWatch, SameLoop
    <3>5. ~st.suspended /\ st.store[k] # None
      BY <2>2 DEF CanPublish
    <3>6. ScanOver(k, s)
      BY <3>1, <3>2, <3>4, <3>5 DEF ScanOver, Computing
    <3>7. ASSUME EditInv(st, disk)
          PROVE  ShownNow(s, disk)
      <4>1. s.store["uncommitted"] = st.store["uncommitted"] \/ s.store["uncommitted"].status = "error"
        BY <3>1, <3>2, <3>4 DEF Kinds
      <4> QED BY <1>2, <3>4, <3>7, <4>1 DEF EditInv, ShownFollows, ShownNow, Watching, Pending, Early,
                                            Same, SameWatch, SameLoop
    <3> QED BY <3>6, <3>7
  <2> QED BY <2>1, <2>2
<1> HIDE DEF s
<1> QED BY <1>2, <1>3, ScanOverKeeps

LEMMA LoopSettlesKeeps ==
  ASSUME Inv, LoopSettles
  PROVE  Keeps /\ Follows
<1> DEFINE idle == [st EXCEPT !.loop = IdleLoop]
<1>1. st \in Service /\ Good(st) /\ Base(st) /\ LoopInv(st) /\ InterestInv(st) /\ SuspendInv(st) /\ disk \in Disks
  BY InvKnown DEF Inv, Base
<1>2. /\ UNCHANGED disk /\ stop' = Settle("refresh") /\ st.loop.pc = "ended" /\ st.starting.pc = "none"
      /\ st' = IF idle.requested THEN RequestRefresh(idle) ELSE idle
  BY <1>1 DEF LoopSettles, Settled, LoopInv
<1>3. /\ idle \in Service /\ Same(st, idle) /\ SameChannels(st, idle) /\ SameWatch(st, idle) /\ idle.loop = IdleLoop
      /\ idle.requested = st.requested /\ idle.timer = st.timer
  BY <1>1, IdleTyped DEF Service, Same, SameChannels, SameWatch
<1> HIDE DEF idle
<1>4. IdleLoop.pc = "none" /\ ~IdleLoop.aborted
  BY IdleTyped
\* What is left to show, with a loop or without.
<1>5. ASSUME Good(st'), Same(idle, st'), SameChannels(idle, st'), SameWatch(idle, st'),
             st.suspended => st'.loop.pc = "none"
      PROVE  Keeps
  <2>1. Calm(st, st')
    BY <1>2, <1>3, <1>5 DEF Calm, Same, SameWatch
  <2>2. Silent(st, st') /\ \A k \in Kinds : st'.store[k] = st.store[k]
    BY <1>3, <1>5 DEF Silent, SameChannels
  <2> QED BY <1>2, <1>5, <2>1, <2>2, SettleKeeps
<1>6. CASE st.requested
  <2>1. HasInterest(st) /\ ~st.suspended /\ ~st.disposed
    BY <1>1, <1>6 DEF InterestInv, SuspendInv, Unwatched
  <2>2. /\ st' \in Service /\ Same(idle, st') /\ SameChannels(idle, st') /\ SameWatch(idle, st')
        /\ ~st'.timer /\ st'.loop.pc \in {"waiting", "probe"} /\ ~st'.loop.aborted /\ ~st'.requested
    BY <1>2, <1>3, <1>4, <1>6, <2>1, RequestRefreshFacts DEF HasInterest, Same, SameChannels, Woken
  <2>3. Base(st')
    BY <1>1, <1>3, <2>1, <2>2 DEF Base, WatchInv, ChannelInv, SuspendInv, Same, SameChannels, SameWatch
  <2>4. LoopInv(st')
    BY <1>2, <1>3, <2>2 DEF LoopInv, SameWatch
  <2>5. InterestInv(st')
    BY <1>3, <2>1, <2>2 DEF InterestInv, HasInterest, Attended, Due, Early, SameChannels
  <2>6. Good(st')
    BY <2>3, <2>4, <2>5 DEF Good
  <2>7. Keeps
    BY <1>5, <2>1, <2>2, <2>6
  <2>8. EditInv(st', disk)
    BY <1>2, <1>3, <2>2 DEF EditInv, StartFollows, ScanFollows, ShownFollows, Early, SameWatch
  <2> QED BY <1>2, <2>7, <2>8 DEF Follows
<1>7. CASE ~st.requested
  <2>1. st' = idle
    BY <1>2, <1>3, <1>7
  <2>2. Base(st')
    BY <1>1, <1>3, <1>4, <2>1 DEF Base, WatchInv, ChannelInv, SuspendInv, Unwatched, Abortable, Same, SameChannels, SameWatch
  <2>3. LoopInv(st')
    BY <1>2, <1>3, <1>4, <1>7, <2>1 DEF LoopInv, SameWatch
  <2>4. \A k \in Kinds : Attended(st', k)
    BY <1>1, <1>2, <1>3, <1>4, <1>7, <2>1 DEF InterestInv, Attended, Computing, Due, Early, Same, SameChannels
  <2>5. ~HasInterest(st') => Unwatched(st')
    BY <1>1, <1>3, <2>1 DEF InterestInv, HasInterest, Unwatched, Same, SameChannels, SameWatch
  <2>6. Good(st')
    BY <2>2, <2>3, <2>4, <2>5 DEF Good, InterestInv
  <2>7. Keeps
    BY <1>3, <1>4, <1>5, <2>1, <2>6 DEF Same, SameChannels, SameWatch
  <2>8. EditInv(st, disk) => EditInv(st', disk)
    BY <1>2, <1>3, <1>4, <2>1 DEF EditInv, StartFollows, ScanFollows, ShownFollows, Watching, Pending, Early,
                                  Same, SameChannels, SameWatch
  <2> QED BY <1>2, <2>7, <2>8 DEF Follows
<1> QED BY <1>6, <1>7

LEMMA TimerKeeps ==
  ASSUME Inv, TimerFires
  PROVE  Keeps /\ Follows
<1> DEFINE s == [st EXCEPT !.timer = FALSE]
<1>1. st \in Service /\ Good(st) /\ Base(st) /\ LoopInv(st) /\ InterestInv(st) /\ SuspendInv(st)
  BY InvKnown DEF Inv, Base
<1>2. UNCHANGED <<disk, stop>> /\ st.timer /\ st' = RequestRefresh(s)
  BY DEF TimerFires
<1>3. ~st.suspended /\ ~st.disposed
  BY <1>1, <1>2 DEF SuspendInv
<1>4. CASE HasInterest(st)
  <2>1. st' = RequestRefresh(st)
    BY <1>1, <1>2, <1>3, <1>4 DEF RequestRefresh, HasInterest, Service, Pass
  <2> QED BY <1>2, <1>4, <2>1, RefreshKeeps
<1>5. CASE ~HasInterest(st)
  <2>1. st' = s
    BY <1>1, <1>2, <1>5 DEF RequestRefresh, HasInterest, Service
  <2>2. /\ st' \in Service /\ Same(st, st') /\ SameChannels(st, st') /\ SameWatch(st, st') /\ st'.loop = st.loop
        /\ st'.requested = st.requested /\ st'.timer = FALSE
    BY <1>1, <2>1 DEF Service, Same, SameChannels, SameWatch
  <2>3. ~st.requested
    BY <1>1, <1>5 DEF InterestInv, Unwatched
  <2>4. Base(st')
    BY <1>1, <2>2 DEF Base, WatchInv, ChannelInv, SuspendInv, Unwatched, Same, SameChannels, SameWatch
  <2>5. LoopInv(st')
    BY <1>1, <2>2, <2>3 DEF LoopInv, Same, SameWatch
  <2>6. InterestInv(st')
    BY <1>1, <2>2 DEF InterestInv, HasInterest, Unwatched, Attended, Computing, Due, Same, SameChannels, SameWatch
  <2>7. Calm(st, st') /\ st'.store = st.store /\ st'.catalogue = st.catalogue /\ ~HasInterest(st')
    BY <1>5, <2>2 DEF Calm, HasInterest, Same, SameChannels, SameWatch
  <2>8. Good(st')
    BY <2>4, <2>5, <2>6 DEF Good
  <2> QED BY <1>2, <2>7, <2>8, PlainKeeps, NothingFollows DEF Follows
<1> QED BY <1>4, <1>5

-----------------------------------------------------------------------------
(* The watch *)

\* The metadata watch opens on the repository that was inspected, or on one
\* that does not move again.
OpensInTime ==
  st.starting.pc = "opening" /\ st'.starting.pc = "acquiring" =>
    disk.target = st.starting.target \/ disk.moves = MaxMoves

\* What was opened for nothing is closed before the loop goes on.
LEMMA ReleasedKeeps ==
  ASSUME Inv, UNCHANGED <<disk, stop>>, st.starting.pc # "none", st' = Released(st)
  PROVE  Keeps /\ Follows
<1>1. st \in Service /\ Good(st) /\ Base(st) /\ LoopInv(st) /\ InterestInv(st)
  BY InvKnown DEF Inv
<1> DEFINE n == [st.starting EXCEPT !.pc = "releasing"]
<1>2. n \in Starts /\ n.pc = "releasing" /\ n.aborted = st.starting.aborted /\ n.target = st.starting.target
  BY <1>1 DEF Service, Starts
<1>3. st' = [st EXCEPT !.starting = n, !.event = FALSE]
  BY <1>1 DEF Released, Service
<1> HIDE DEF n
<1>4. /\ st' \in Service /\ SameChannels(st, st') /\ SameLoop(st, st') /\ st'.starting = n
      /\ st'.suspended = st.suspended /\ st'.disposed = st.disposed /\ st'.hydrating = st.hydrating
      /\ st'.watcher = st.watcher /\ st'.closing = st.closing
  BY <1>1, <1>2, <1>3 DEF Service, SameChannels, SameLoop
<1>5. Base(st')
  BY <1>1, <1>2, <1>4 DEF Base, WatchInv, ChannelInv, SuspendInv, Unwatched, SameChannels, SameLoop
<1>6. LoopInv(st')
  BY <1>1, <1>2, <1>4 DEF LoopInv, SameLoop
<1>7. InterestInv(st')
  BY <1>1, <1>2, <1>4 DEF InterestInv, HasInterest, Unwatched, Attended, Computing, Due, SameChannels, SameLoop
<1>8. Calm(st, st') /\ st'.store = st.store /\ st'.catalogue = st.catalogue
  BY <1>4 DEF Calm, SameChannels, SameLoop
<1>9. Keeps
  BY <1>5, <1>6, <1>7, <1>8, PlainKeeps DEF Good
<1>10. EditInv(st', disk)
  BY <1>1, <1>2, <1>4 DEF Base, WatchInv, EditInv, StartFollows, ScanFollows, ShownFollows, Watching
<1> QED BY <1>9, <1>10 DEF Follows

\* The loop goes on to scan, with the watch or without.
LEMMA StartedKeeps ==
  ASSUME Inv, UNCHANGED <<disk, stop>>, st.starting.pc # "none", NEW x \in {None, st.starting.target},
         x # None => CanWatch(st) /\ st.starting.pc = "acquiring",
         st' = Scan([st EXCEPT !.watcher = x, !.starting = NotStarting])
  PROVE  Keeps /\ Follows
<1> DEFINE s == [st EXCEPT !.watcher = x, !.starting = NotStarting]
<1>1. KnownSuspends(st) /\ st \in Service /\ Good(st) /\ Base(st) /\ LoopInv(st) /\ InterestInv(st) /\ disk \in Disks
  BY InvKnown DEF Inv
<1>2. NotStarting \in Starts /\ NotStarting.pc = "none" /\ ~NotStarting.aborted
  BY DEF NotStarting, Starts
<1>3. x \in Targets \union {None}
  BY <1>1 DEF Service, Starts
<1>4. /\ s \in Service /\ SameChannels(st, s) /\ SameLoop(st, s) /\ s.starting = NotStarting /\ s.watcher = x
      /\ s.suspended = st.suspended /\ s.disposed = st.disposed /\ s.hydrating = st.hydrating
      /\ s.closing = st.closing /\ s.event = st.event
  BY <1>1, <1>2, <1>3 DEF Service, SameChannels, SameLoop
<1> HIDE DEF s
<1>5. st.watcher = None /\ st.closing # "releasing" /\ st.loop.pc = "watching" /\ st.loop.workspace # None
  BY <1>1 DEF Base, WatchInv, LoopInv
<1>6. x # None => ~st.suspended /\ HasInterest(st) /\ ~st.starting.aborted
  BY DEF CanWatch
<1>7. Base(s)
  BY <1>1, <1>2, <1>4, <1>5, <1>6 DEF Base, WatchInv, ChannelInv, SuspendInv, Unwatched, SameChannels, SameLoop
<1>8. ~HasInterest(s) => Unwatched(s)
  BY <1>1, <1>2, <1>4, <1>6 DEF InterestInv, HasInterest, Unwatched, SameChannels, SameLoop
<1>9. Passing(s) /\ s.loop.workspace # None
  BY <1>1, <1>2, <1>4, <1>5, <1>7, <1>8 DEF Passing, KnownSuspends, InterestInv, Attended, SameChannels, SameLoop
<1>10. Scanned(s, st') /\ Good(st')
  BY <1>1, <1>9, ScanFacts, ScannedGood DEF s
<1>11. Keeps
  BY <1>4, <1>5, <1>9, <1>10, EnsureKeeps DEF Calm, SameChannels, SameLoop
<1>12. ASSUME EditInv(st, disk)
       PROVE  Watching(s) => Pending(s) \/ Left(s.watcher, disk) \/ disk.target = s.watcher
  BY <1>4, <1>6, <1>12 DEF EditInv, StartFollows, Watching, Pending, SameLoop
<1>13. EditInv(st, disk) => EditInv(st', disk)
  BY <1>9, <1>10, <1>12, ScannedFollows
<1> QED BY <1>11, <1>13 DEF Follows

LEMMA StartedPlain ==
  ASSUME Inv, UNCHANGED <<disk, stop>>, st.starting.pc # "none", st' = Started(st)
  PROVE  Keeps /\ Follows
<1>1. st \in Service /\ st.watcher = None
  BY InvKnown DEF Base, WatchInv
<1>2. [st EXCEPT !.starting = NotStarting] = [st EXCEPT !.watcher = None, !.starting = NotStarting]
  BY <1>1 DEF Service
<1>3. st' = Scan([st EXCEPT !.watcher = None, !.starting = NotStarting])
  BY <1>2 DEF Started
<1> QED BY <1>3, StartedKeeps

LEMMA MetadataKeeps ==
  ASSUME Inv, MetadataOpens
  PROVE  Keeps /\ (OpensInTime => Follows)
<1>1. st \in Service /\ Good(st) /\ Base(st) /\ LoopInv(st) /\ InterestInv(st)
  BY InvKnown DEF Inv
<1>2. UNCHANGED <<disk, stop>> /\ st.starting.pc = "opening"
  BY DEF MetadataOpens
<1>3. CASE ~CanWatch(st)
  BY <1>2, <1>3, ReleasedKeeps DEF MetadataOpens
<1>4. CASE CanWatch(st)
  <2> DEFINE n == [st.starting EXCEPT !.pc = "acquiring"]
  <2>1. n \in Starts /\ n.pc = "acquiring" /\ n.aborted = st.starting.aborted /\ n.target = st.starting.target
    BY <1>1 DEF Service, Starts
  <2>2. st' = [st EXCEPT !.starting = n]
    BY <1>1, <1>4 DEF MetadataOpens, Service
  <2> HIDE DEF n
  <2>3. /\ st' \in Service /\ Same(st, st') /\ SameChannels(st, st') /\ SameLoop(st, st') /\ st'.starting = n
        /\ st'.closing = st.closing
    BY <1>1, <2>1, <2>2 DEF Service, Same, SameChannels, SameLoop
  <2>4. Base(st')
    BY <1>1, <1>2, <2>1, <2>3 DEF Base, WatchInv, ChannelInv, SuspendInv, Unwatched, Same, SameChannels, SameLoop
  <2>5. LoopInv(st')
    BY <1>1, <1>2, <2>1, <2>3 DEF LoopInv, Same, SameLoop
  <2>6. InterestInv(st')
    BY <1>1, <1>2, <2>1, <2>3 DEF InterestInv, HasInterest, Unwatched, Attended, Computing, Due,
                                  Same, SameChannels, SameLoop
  <2>7. Calm(st, st') /\ st'.store = st.store /\ st'.catalogue = st.catalogue
    BY <2>3 DEF Calm, Same, SameChannels, SameLoop
  <2>8. Keeps
    BY <1>2, <2>4, <2>5, <2>6, <2>7, PlainKeeps DEF Good
  <2>9. ASSUME OpensInTime, EditInv(st, disk)
        PROVE  EditInv(st', disk)
    <3>1. disk.target = st.starting.target \/ Left(st.starting.target, disk)
      BY <1>2, <2>1, <2>3, <2>9 DEF OpensInTime, Left
    <3>2. StartFollows(st', disk)
      BY <2>1, <2>3, <3>1 DEF StartFollows
    <3> QED BY <2>3, <2>9, <3>2 DEF EditInv, ScanFollows, ShownFollows, Watching, Pending, Same, SameChannels, SameLoop
  <2> QED BY <1>2, <2>8, <2>9 DEF Follows
<1> QED BY <1>3, <1>4

LEMMA TreeKeeps ==
  ASSUME Inv, TreeOpens
  PROVE  Keeps /\ Follows
<1>1. st \in Service /\ UNCHANGED <<disk, stop>> /\ st.starting.pc = "acquiring"
  BY InvKnown DEF TreeOpens
<1>2. CASE CanWatch(st)
  <2>1. [[st EXCEPT !.watcher = st.starting.target] EXCEPT !.starting = NotStarting]
          = [st EXCEPT !.watcher = st.starting.target, !.starting = NotStarting]
    BY <1>1 DEF Service
  <2>2. st' = Scan([st EXCEPT !.watcher = st.starting.target, !.starting = NotStarting])
    BY <1>2, <2>1 DEF TreeOpens, Started
  <2> QED BY <1>1, <1>2, <2>2, StartedKeeps
<1>3. CASE ~CanWatch(st)
  BY <1>1, <1>3, ReleasedKeeps DEF TreeOpens
<1> QED BY <1>2, <1>3

LEMMA StartEndsKeeps ==
  ASSUME Inv, StartEnds
  PROVE  Keeps /\ Follows
BY ReleasedKeeps, StartedPlain DEF StartEnds

LEMMA WatchFailsKeeps ==
  ASSUME Inv, WatchFails
  PROVE  Keeps /\ Follows
<1>1. st \in Service /\ Good(st) /\ WatchInv(st) /\ SuspendInv(st)
  BY InvKnown DEF Inv, Base
<1>2. UNCHANGED <<disk, stop>> /\ st.watcher # None /\ st' = CloseWatcher(st)
  BY DEF WatchFails
<1>3. /\ Same(st, st') /\ SameChannels(st, st') /\ SameLoop(st, st') /\ st'.starting.pc = st.starting.pc
      /\ st'.closing # "none"
  BY <1>1, <1>2, CloseWatcherFacts
<1>4. Good(st')
  BY <1>1, <1>2, CloseWatcherGood
<1>5. Calm(st, st') /\ st'.store = st.store /\ st'.catalogue = st.catalogue
  BY <1>1, <1>2, <1>3 DEF Calm, SuspendInv, Unwatched, Same, SameChannels, SameLoop
<1>6. EditInv(st', disk)
  BY <1>1, <1>2, <1>3 DEF WatchInv, EditInv, StartFollows, ScanFollows, ShownFollows, Watching
<1> QED BY <1>2, <1>4, <1>5, <1>6, PlainKeeps DEF Follows

\* The closing goes on: the watch that stood, if any, has none to take its place.
LEMMA ClosingKeeps ==
  ASSUME Inv, UNCHANGED <<disk, stop>>, st.closing # "none", st.starting.pc = "none",
         NEW c \in {"none", "releasing"}, NEW e \in BOOLEAN,
         st' = [st EXCEPT !.closing = c, !.watcher = None, !.event = e]
  PROVE  Keeps /\ Follows
<1>1. st \in Service /\ Good(st) /\ Base(st) /\ LoopInv(st) /\ InterestInv(st)
  BY InvKnown DEF Inv
<1>2. /\ st' \in Service /\ SameChannels(st, st') /\ SameLoop(st, st') /\ st'.starting = st.starting
      /\ st'.suspended = st.suspended /\ st'.disposed = st.disposed /\ st'.hydrating = st.hydrating
      /\ st'.watcher = None /\ st'.closing = c
  BY <1>1 DEF Service, SameChannels, SameLoop
<1>3. Base(st')
  BY <1>1, <1>2 DEF Base, WatchInv, ChannelInv, SuspendInv, Unwatched, SameChannels, SameLoop
<1>4. LoopInv(st')
  BY <1>1, <1>2 DEF LoopInv, SameLoop
<1>5. InterestInv(st')
  BY <1>1, <1>2 DEF InterestInv, HasInterest, Unwatched, Attended, Computing, Due, SameChannels, SameLoop
<1>6. Calm(st, st') /\ st'.store = st.store /\ st'.catalogue = st.catalogue
  BY <1>2 DEF Calm, SameChannels, SameLoop
<1>7. EditInv(st', disk)
  BY <1>2 DEF EditInv, StartFollows, ScanFollows, ShownFollows, Watching
<1> QED BY <1>3, <1>4, <1>5, <1>6, <1>7, PlainKeeps DEF Good, Follows

LEMMA CloseBeginsKeeps ==
  ASSUME Inv, CloseBegins
  PROVE  Keeps /\ Follows
<1>1. st \in Service
  BY InvKnown
<1>2. CASE st.watcher = None
  <2>1. st' = [st EXCEPT !.closing = "none", !.watcher = None, !.event = st.event] /\ st.event \in BOOLEAN
    BY <1>1, <1>2 DEF CloseBegins, Service
  <2> QED BY <2>1, ClosingKeeps DEF CloseBegins
<1>3. CASE st.watcher # None
  <2>1. st' = [st EXCEPT !.closing = "releasing", !.watcher = None, !.event = FALSE]
    BY <1>3 DEF CloseBegins
  <2> QED BY <2>1, ClosingKeeps DEF CloseBegins
<1> QED BY <1>2, <1>3

LEMMA CloseEndsKeeps ==
  ASSUME Inv, CloseEnds
  PROVE  Keeps /\ Follows
<1>1. st \in Service /\ st.watcher = None /\ st.starting.pc = "none"
  BY InvKnown DEF Base, WatchInv, CloseEnds
<1>2. st' = [st EXCEPT !.closing = "none", !.watcher = None, !.event = st.event] /\ st.event \in BOOLEAN
  BY <1>1 DEF CloseEnds, Service
<1> QED BY <1>1, <1>2, ClosingKeeps DEF CloseEnds

LEMMA EventKeeps ==
  ASSUME Inv, EventArrives
  PROVE  Keeps /\ Follows
<1> DEFINE s == [st EXCEPT !.event = FALSE]
<1>1. st \in Service /\ Good(st) /\ SuspendInv(st)
  BY InvKnown DEF Inv, Base
<1>2. UNCHANGED <<disk, stop>> /\ st' = ScheduleRefresh(s)
  BY DEF EventArrives
<1>3. /\ s \in Service /\ SameChannels(st, s) /\ SameLoop(st, s) /\ SameWatch(st, s) /\ s.watcher = st.watcher
      /\ s.suspended = st.suspended /\ s.disposed = st.disposed /\ s.hydrating = st.hydrating
  BY <1>1 DEF Service, SameChannels, SameLoop, SameWatch
<1> HIDE DEF s
<1>4. Base(s) /\ LoopInv(s)
  BY <1>1, <1>3 DEF Good, Base, LoopInv, WatchInv, ChannelInv, SuspendInv, Unwatched, SameChannels, SameLoop, SameWatch
<1>5. InterestInv(s)
  BY <1>1, <1>3 DEF Good, InterestInv, HasInterest, Unwatched, Attended, Computing, Due, SameChannels, SameLoop, SameWatch
<1>6. /\ Good(st') /\ Same(s, st') /\ SameChannels(s, st') /\ SameWatch(s, st') /\ st'.loop = s.loop
      /\ (~s.disposed /\ ~s.suspended /\ HasInterest(s) => st'.requested)
  BY <1>2, <1>4, <1>5, ScheduleGood DEF Good
<1>7. Calm(st, st') /\ st'.store = st.store /\ st'.catalogue = st.catalogue
  BY <1>3, <1>6 DEF Calm, Same, SameChannels, SameWatch, SameLoop
<1>8. EditInv(st', disk)
  <2>1. CASE st.suspended \/ ~HasInterest(st)
    BY <1>3, <1>6, <2>1, NothingFollows DEF HasInterest, Same, SameChannels
  <2>2. CASE ~st.suspended /\ HasInterest(st)
    <3>1. st'.requested
      BY <1>1, <1>3, <1>6, <2>2 DEF SuspendInv, HasInterest, SameChannels
    <3> QED BY <3>1 DEF EditInv, StartFollows, ScanFollows, ShownFollows, Pending
  <2> QED BY <2>1, <2>2
<1> QED BY <1>2, <1>6, <1>7, <1>8, PlainKeeps DEF Follows

-----------------------------------------------------------------------------
(* The repository *)

\* A change of the repository is at most reported.
LEMMA ReportGood ==
  ASSUME Inv, UNCHANGED stop, disk' \in Disks, NEW e \in BOOLEAN, st' = [st EXCEPT !.event = e]
  PROVE  /\ Keeps /\ st'.event = e /\ st'.requested = st.requested /\ st'.starting = st.starting
         /\ st'.closing = st.closing /\ st'.watcher = st.watcher /\ st'.loop = st.loop
         /\ st'.store = st.store /\ st'.subs = st.subs
<1>1. st \in Service /\ Good(st)
  BY InvKnown DEF Inv
<1>2. /\ st' \in Service /\ SameChannels(st, st') /\ SameLoop(st, st') /\ SameWatch(st, st') /\ st'.event = e
      /\ st'.watcher = st.watcher /\ st'.suspended = st.suspended /\ st'.disposed = st.disposed
      /\ st'.hydrating = st.hydrating
  BY <1>1 DEF Service, SameChannels, SameLoop, SameWatch
<1>3. Base(st') /\ LoopInv(st')
  BY <1>1, <1>2 DEF Good, Base, LoopInv, WatchInv, ChannelInv, SuspendInv, Unwatched, SameChannels, SameLoop, SameWatch
<1>4. InterestInv(st')
  BY <1>1, <1>2 DEF Good, InterestInv, HasInterest, Unwatched, Attended, Computing, Due, SameChannels, SameLoop, SameWatch
<1>5. Calm(st, st') /\ Silent(st, st') /\ \A k \in Kinds : st'.store[k] = st.store[k]
  BY <1>2 DEF Calm, Silent, SameChannels, SameLoop, SameWatch
<1>6. Keeps
  BY <1>3, <1>4, <1>5, StepKeeps DEF Good
<1> QED BY <1>2, <1>6 DEF SameChannels, SameLoop, SameWatch

LEMMA EditKeeps ==
  ASSUME Inv, Edit
  PROVE  Keeps /\ Follows
<1> DEFINE e == st.event \/ st.watcher = disk.target
<1>1. disk \in Disks /\ st \in Service
  BY InvKnown DEF Inv
<1>2. /\ disk' \in Disks /\ disk'.target = disk.target /\ disk'.moves = disk.moves /\ disk.target # None
      /\ e \in BOOLEAN /\ UNCHANGED stop /\ st' = [st EXCEPT !.event = e]
  BY <1>1, SizesAssumption DEF Edit, Disks, Service
<1>3. /\ Keeps /\ st'.event = e /\ st'.requested = st.requested /\ st'.starting = st.starting
      /\ st'.closing = st.closing /\ st'.watcher = st.watcher /\ st'.loop = st.loop
      /\ st'.store = st.store /\ st'.subs = st.subs
  BY <1>2, ReportGood
<1>4. EditInv(st, disk) => EditInv(st', disk')
  BY <1>2, <1>3 DEF EditInv, StartFollows, ScanFollows, ShownFollows, Watching, Pending, Left
<1> QED BY <1>3, <1>4 DEF Follows

LEMMA CommitKeeps ==
  ASSUME Inv, Commit
  PROVE  Keeps /\ Follows
<1> DEFINE e == st.event \/ Watched(disk.target)
<1>1. disk \in Disks /\ st \in Service
  BY InvKnown DEF Inv
<1>2. /\ disk' \in Disks /\ disk'.target = disk.target /\ disk'.moves = disk.moves /\ disk'.files = disk.files
      /\ e \in BOOLEAN /\ UNCHANGED stop /\ st' = [st EXCEPT !.event = e]
  BY <1>1, SizesAssumption DEF Commit, Disks, Service, Watched
<1>3. /\ Keeps /\ st'.event = e /\ st'.requested = st.requested /\ st'.starting = st.starting
      /\ st'.closing = st.closing /\ st'.watcher = st.watcher /\ st'.loop = st.loop
      /\ st'.store = st.store /\ st'.subs = st.subs
  BY <1>2, ReportGood
<1>4. EditInv(st, disk) => EditInv(st', disk')
  BY <1>2, <1>3 DEF EditInv, StartFollows, ScanFollows, ShownFollows, Watching, Pending, Left
<1> QED BY <1>3, <1>4 DEF Follows

LEMMA MoveKeeps ==
  ASSUME Inv, NEW t \in Targets \union {None}, Move(t)
  PROVE  Keeps /\ Follows
<1> DEFINE e == st.event \/ (disk.target # None /\ Watched(disk.target))
<1>1. disk \in Disks /\ st \in Service /\ WatchInv(st)
  BY InvKnown DEF Inv, Base
<1>2. /\ disk' \in Disks /\ disk.moves < MaxMoves /\ disk.moves \in Nat /\ MaxMoves \in Nat
      /\ e \in BOOLEAN /\ UNCHANGED stop /\ st' = [st EXCEPT !.event = e]
  <2>1. disk.moves \in 0..MaxMoves /\ disk.moves < MaxMoves
    BY <1>1 DEF Disks, Move
  <2>2. disk.moves + 1 \in 0..MaxMoves /\ disk.moves \in Nat /\ MaxMoves \in Nat
    BY <2>1, SizesAssumption
  <2>3. disk' \in Disks
    BY <1>1, <2>2 DEF Disks, Move
  <2>4. e \in BOOLEAN
    BY <1>1 DEF Service, Watched
  <2> QED BY <2>1, <2>2, <2>3, <2>4 DEF Move
<1>3. /\ Keeps /\ st'.event = e /\ st'.requested = st.requested /\ st'.starting = st.starting
      /\ st'.closing = st.closing /\ st'.watcher = st.watcher /\ st'.loop = st.loop
      /\ st'.store = st.store /\ st'.subs = st.subs
  BY <1>2, ReportGood
<1>4. /\ disk.target = st.watcher /\ st.watcher # None => e
      /\ st.starting.pc = "acquiring" /\ disk.target = st.starting.target => e
      /\ (st.event => e) /\ \A x : ~Left(x, disk)
  BY <1>1, <1>2 DEF WatchInv, Watched, Left
<1> HIDE DEF e
<1>5. EditInv(st, disk) => EditInv(st', disk')
  BY <1>3, <1>4 DEF EditInv, StartFollows, ScanFollows, ShownFollows, Watching, Pending
<1> QED BY <1>3, <1>5 DEF Follows

-----------------------------------------------------------------------------
(* Disposal *)

\* A suspended service has no watch that is not on its way out.
LEMMA SuspendedStill ==
  ASSUME NEW s, Base(s), s.suspended, s.closing = "none"
  PROVE  s.watcher = None /\ s.starting.pc = "none"
BY DEF Base, SuspendInv, Unwatched, WatchInv

LEMMA SuspendGood ==
  ASSUME NEW s \in Service, WatchInv(s), ChannelInv(s), LoopInv(s), NEW t, t = Suspend(s)
  PROVE  /\ Good(t) /\ t.suspended /\ t.disposed = s.disposed /\ t.loop.pc = s.loop.pc
         /\ t.store = s.store /\ t.catalogue = s.catalogue
         /\ (s.watcher = None /\ s.starting.pc = "none" => t.closing = s.closing)
<1> DEFINE l == Abort(s.loop)
           v == [s EXCEPT !.suspended = TRUE, !.requested = FALSE, !.timer = FALSE, !.loop = l]
<1>1. /\ l \in Loops /\ l.pc = s.loop.pc /\ l.workspace = s.loop.workspace
      /\ l.aborted = (s.loop.pc \in Abortable \/ s.loop.aborted)
  BY AbortFacts DEF Service
<1>2. t = CloseWatcher(v)
  BY DEF Suspend
<1> HIDE DEF l
<1>3. /\ v \in Service /\ SameChannels(s, v) /\ SameWatch(s, v) /\ v.loop = l /\ ~v.requested /\ ~v.timer
      /\ v.suspended /\ v.disposed = s.disposed /\ v.hydrating = s.hydrating /\ v.watcher = s.watcher
  BY <1>1 DEF Service, SameChannels, SameWatch
<1> HIDE DEF v
<1>4. WatchInv(v)
  BY <1>3 DEF WatchInv, SameWatch
<1>5. /\ t \in Service /\ Same(v, t) /\ SameChannels(v, t) /\ SameLoop(v, t)
      /\ t.starting.pc = v.starting.pc
      /\ t.closing = IF v.closing = "none" /\ (v.watcher # None \/ v.starting.pc # "none")
                     THEN "awaiting" ELSE v.closing
  BY <1>2, <1>3, CloseWatcherFacts
<1>6. /\ WatchInv(t) /\ (t.watcher # None => t.closing # "none")
      /\ (t.starting.pc # "none" => t.starting.aborted)
  BY <1>2, <1>3, <1>4, CloseWatcherWatch
<1>7. Base(t)
  <2>1. /\ t.store = s.store /\ t.subs = s.subs /\ t.hydrating = s.hydrating /\ t.suspended
        /\ t.loop = l /\ ~t.requested /\ ~t.timer
    BY <1>3, <1>5 DEF Same, SameChannels, SameLoop
  <2>2. ChannelInv(t)
    BY <2>1 DEF ChannelInv
  <2>3. SuspendInv(t)
    BY <1>1, <1>6, <2>1 DEF SuspendInv, Unwatched
  <2> QED BY <1>5, <1>6, <2>2, <2>3 DEF Base
<1>8. LoopInv(t)
  <2>1. /\ t.starting.pc = s.starting.pc /\ t.watcher = s.watcher /\ t.loop = l /\ ~t.requested
        /\ t.closing = "none" => s.closing = "none"
    BY <1>3, <1>5 DEF Same, SameWatch, SameLoop
  <2> QED BY <1>1, <2>1 DEF LoopInv, Abortable
<1>9. InterestInv(t)
  BY <1>3, <1>5, <1>6 DEF InterestInv, Unwatched, Attended, Same, SameLoop
<1> QED BY <1>1, <1>3, <1>5, <1>7, <1>8, <1>9 DEF Good, Same, SameChannels, SameWatch, SameLoop

\* The service of another agent that has come to rest stays so.
LEMMA StoppingKeeps ==
  ASSUME Inv, UNCHANGED disk, NEW a \in Agents, NEW p \in {"no", "suspending", "deleting", "done"},
         NEW r \in BOOLEAN, Stopping(a, p, r), Good(st'), Silent(st, st'),
         st.suspended => /\ st.closing = "none" => st'.closing = "none"
                         /\ st.loop.pc = "none" => st'.loop.pc = "none",
         p \in {"deleting", "done"} => st'.closing = "none" /\ st'.loop.pc = "none",
         st'.disposed = IF a = "service" THEN p # "no" ELSE st.disposed,
         stop'["session"].phase # "no" => st'.suspended,
         stop'["session"].phase = "done" /\ ~st'.disposed => \A k \in Kinds : st'.store[k] = None
  PROVE  Keeps
<1>1. stop \in Stops /\ disk \in Disks /\ StopInv
  BY DEF Inv
<1>2. stop' \in Stops
  BY <1>1 DEF Stopping, Stops
<1>3. stop'[a].phase = p /\ \A b \in Agents \ {a} : stop'[b] = stop[b]
  BY <1>1 DEF Stopping, Stops
<1>4. \A b \in Agents : stop[b].phase # "no" => st.suspended
  BY InvKnown DEF StopInv, Inv, Base, SuspendInv, Agents
<1>5. st'.disposed <=> stop'["service"].phase # "no"
  <2>1. CASE a = "service"
    BY <1>3, <2>1
  <2>2. CASE a # "service"
    BY <1>1, <1>3, <2>2 DEF StopInv, Agents
  <2> QED BY <2>1, <2>2
<1>6. ASSUME NEW b \in Agents
      PROVE  /\ stop'[b].phase = "draining" =>
                  st'.closing = "none" /\ (st'.loop.pc # "none" => "refresh" \in stop'[b].awaits)
             /\ stop'[b].phase \in {"deleting", "done"} => st'.closing = "none" /\ st'.loop.pc = "none"
  BY <1>1, <1>3, <1>4 DEF StopInv
<1>7. StopInv'
  BY <1>5, <1>6 DEF StopInv
<1> QED BY <1>1, <1>2, <1>7 DEF Keeps

LEMMA PhasesHeld ==
  ASSUME Inv, NEW a \in Agents, NEW p, NEW r, Stopping(a, p, r)
  PROVE  stop'[a].phase = p /\ \A b \in Agents \ {a} : stop'[b].phase = stop[b].phase
BY DEF Inv, Stopping, Stops

LEMMA DisposeSessionKeeps ==
  ASSUME Inv, DisposeSession
  PROVE  Keeps /\ Follows
<1>1. st \in Service /\ Base(st) /\ LoopInv(st) /\ StopInv
  BY InvKnown DEF Inv
<1>2. Stopping("session", "suspending", FALSE) /\ st' = Suspend(st) /\ UNCHANGED disk /\ "session" \in Agents
  BY DEF DisposeSession, Agents
<1>3. /\ Good(st') /\ st'.suspended /\ st'.disposed = st.disposed /\ st'.loop.pc = st.loop.pc
      /\ st'.store = st.store /\ st'.catalogue = st.catalogue
      /\ (st.watcher = None /\ st.starting.pc = "none" => st'.closing = st.closing)
  BY <1>1, <1>2, SuspendGood DEF Base
<1>4. stop'["session"].phase = "suspending"
  BY <1>2, PhasesHeld
<1>5. Silent(st, st')
  BY <1>3 DEF Silent
<1>6. Keeps
  BY <1>1, <1>2, <1>3, <1>4, <1>5, SuspendedStill, StoppingKeeps
<1>7. EditInv(st', disk)
  BY <1>3, NothingFollows
<1> QED BY <1>2, <1>6, <1>7 DEF Follows

LEMMA DisposeServiceKeeps ==
  ASSUME Inv, DisposeService
  PROVE  Keeps /\ Follows
<1> DEFINE s == [st EXCEPT !.disposed = TRUE, !.evictions = {}]
<1>1. st \in Service /\ Good(st) /\ Base(st) /\ LoopInv(st) /\ InterestInv(st) /\ StopInv
  BY InvKnown DEF Inv
<1>2. /\ UNCHANGED disk /\ ~st.disposed /\ "session" \in Agents /\ "service" \in Agents
      /\ IF Known THEN st' = Suspend(s) /\ Stopping("service", "suspending", TRUE)
                  ELSE st' = s /\ Stopping("service", "done", TRUE)
  BY DEF DisposeService, Agents
<1> HIDE DEF s
<1>3. /\ s \in Service /\ SameChannels(st, s) /\ SameLoop(st, s) /\ SameWatch(st, s) /\ s.watcher = st.watcher
      /\ s.suspended = st.suspended /\ s.disposed /\ s.hydrating = st.hydrating /\ s.disposed = TRUE
  BY <1>1 DEF Service, SameChannels, SameLoop, SameWatch, s
<1>4. WatchInv(s) /\ ChannelInv(s) /\ LoopInv(s)
  BY <1>1, <1>3 DEF Base, WatchInv, ChannelInv, LoopInv, SameChannels, SameLoop, SameWatch
<1>5. CASE Known
  <2>1. /\ Good(st') /\ st'.suspended /\ st'.disposed = TRUE /\ st'.loop.pc = st.loop.pc
        /\ st'.store = st.store /\ st'.catalogue = st.catalogue
        /\ (st.watcher = None /\ st.starting.pc = "none" => st'.closing = st.closing)
    BY <1>2, <1>3, <1>4, <1>5, SuspendGood DEF SameChannels, SameLoop, SameWatch
  <2>2. Silent(st, st')
    BY <2>1 DEF Silent
  <2>3. Keeps
    BY <1>1, <1>2, <1>5, <2>1, <2>2, SuspendedStill, StoppingKeeps
  <2>4. EditInv(st', disk)
    BY <2>1, NothingFollows
  <2> QED BY <1>2, <2>3, <2>4 DEF Follows
<1>6. CASE ~Known
  <2>1. stop["session"].phase = "done" /\ st.suspended /\ st.closing = "none" /\ st.loop.pc = "none"
    BY <1>1, <1>2, <1>6 DEF Known, StopInv
  <2>2. st' = s
    BY <1>2, <1>6
  <2>3. Base(st')
    BY <1>1, <1>3, <1>4, <2>1, <2>2 DEF Base, SuspendInv, Unwatched, SameLoop, SameWatch
  <2>4. InterestInv(st')
    BY <1>1, <1>3, <2>1, <2>2 DEF InterestInv, HasInterest, Unwatched, Attended, SameChannels, SameLoop, SameWatch
  <2>5. Good(st')
    BY <1>4, <2>2, <2>3, <2>4 DEF Good
  <2>6. Silent(st, st') /\ st'.closing = "none" /\ st'.loop.pc = "none"
    BY <1>3, <2>1, <2>2 DEF Silent, SameChannels, SameLoop, SameWatch
  <2>7. Keeps
    BY <1>2, <1>3, <1>6, <2>1, <2>2, <2>5, <2>6, StoppingKeeps
  <2>8. EditInv(st', disk)
    BY <1>3, <2>1, <2>2, <2>5, NothingFollows
  <2> QED BY <1>2, <2>7, <2>8 DEF Follows
<1> QED BY <1>5, <1>6

LEMMA DrainKeeps ==
  ASSUME Inv, NEW a \in Agents, Drain(a)
  PROVE  Keeps /\ Follows
<1>1. Good(st) /\ disk \in Disks /\ stop \in Stops /\ StopInv
  BY DEF Inv
<1>2. /\ stop[a].phase = "suspending" /\ st.closing = "none" /\ UNCHANGED <<disk, st>>
      /\ stop' = [stop EXCEPT ![a].phase = "draining", ![a].awaits = InFlight]
  BY DEF Drain
<1>3. InFlight \in SUBSET {"probe", "refresh"} /\ (st.loop.pc # "none" => "refresh" \in InFlight)
  BY DEF InFlight
<1>4. stop' \in Stops
  <2> DEFINE R == [phase : {"no", "suspending", "draining", "deleting", "done"}, removing : BOOLEAN,
                   awaits : SUBSET {"probe", "refresh"}]
             e == [stop[a] EXCEPT !.phase = "draining", !.awaits = InFlight]
  <2>1. stop \in [Agents -> R] /\ stop' = [stop EXCEPT ![a] = e]
    BY <1>1, <1>2 DEF Stops
  <2>2. e \in R
    BY <1>3, <2>1
  <2> HIDE DEF R, e
  <2>3. stop' \in [Agents -> R]
    BY <2>1, <2>2
  <2> QED BY <2>3 DEF Stops, R
<1>5. /\ stop'[a].phase = "draining" /\ stop'[a].awaits = InFlight
      /\ \A b \in Agents \ {a} : stop'[b] = stop[b]
  BY <1>1, <1>2 DEF Stops
<1>6. /\ stop'["service"].phase # "no" <=> stop["service"].phase # "no"
      /\ stop'["session"].phase # "no" <=> stop["session"].phase # "no"
      /\ stop'["session"].phase = "done" => stop["session"].phase = "done"
  BY <1>2, <1>5 DEF Agents
<1>7. StopInv'
  BY <1>1, <1>2, <1>3, <1>5, <1>6 DEF StopInv
<1>8. Silent(st, st')
  BY <1>2 DEF Silent
<1> QED BY <1>1, <1>2, <1>4, <1>7, <1>8 DEF Keeps, Follows

LEMMA DeleteBeginsKeeps ==
  ASSUME Inv, DeleteBegins
  PROVE  Keeps /\ Follows
<1>1. Good(st) /\ StopInv /\ "session" \in Agents
  BY DEF Inv, Agents
<1>2. UNCHANGED <<disk, st>> /\ Stopping("session", "deleting", FALSE) /\ stop["session"].phase = "draining"
      /\ stop["session"].awaits = {}
  BY DEF DeleteBegins, Drained
<1>3. st.suspended /\ st.closing = "none" /\ st.loop.pc = "none"
  BY <1>1, <1>2 DEF StopInv
<1>4. Silent(st, st') /\ stop'["session"].phase = "deleting"
  BY <1>1, <1>2, PhasesHeld DEF Silent
<1>5. Keeps
  BY <1>1, <1>2, <1>3, <1>4, StoppingKeeps
<1> QED BY <1>2, <1>5 DEF Follows

LEMMA DeleteFailsKeeps ==
  ASSUME Inv, DeleteFails
  PROVE  Keeps /\ Follows
<1> DEFINE s == [st EXCEPT !.suspended = FALSE, !.probing = @ \/ st.workspace = None]
<1>1. st \in Service /\ Good(st) /\ Base(st) /\ LoopInv(st) /\ InterestInv(st) /\ StopInv /\ "session" \in Agents
  BY InvKnown DEF Inv, Agents
<1>2. /\ UNCHANGED disk /\ Stopping("session", "no", FALSE) /\ stop["session"].phase = "deleting"
      /\ st' = IF Known /\ ~st.disposed THEN RequestRefresh(s) ELSE st
  BY DEF DeleteFails, Resume
<1>3. stop'["session"].phase = "no" /\ st.suspended /\ st.closing = "none" /\ st.loop.pc = "none"
  BY <1>1, <1>2, PhasesHeld DEF StopInv
<1>4. st.watcher = None /\ st.starting.pc = "none" /\ ~st.timer /\ ~st.requested
  BY <1>1, <1>3, SuspendedStill DEF Base, SuspendInv, Unwatched
<1>5. CASE ~(Known /\ ~st.disposed)
  <2>1. st' = st
    BY <1>2, <1>5
  <2>2. Silent(st, st')
    BY <2>1 DEF Silent
  <2>3. Keeps
    BY <1>1, <1>2, <1>3, <2>1, <2>2, StoppingKeeps
  <2> QED BY <1>2, <2>1, <2>3 DEF Follows
<1>6. CASE Known /\ ~st.disposed
  <2> HIDE DEF s
  <2>1. /\ s \in Service /\ SameChannels(st, s) /\ SameLoop(st, s) /\ SameWatch(st, s) /\ s.watcher = st.watcher
        /\ ~s.suspended /\ s.disposed = st.disposed /\ s.hydrating = st.hydrating
    BY <1>1 DEF Service, SameChannels, SameLoop, SameWatch, s
  <2>2. Base(s)
    BY <1>1, <1>6, <2>1 DEF Base, WatchInv, ChannelInv, SuspendInv, SameChannels, SameLoop, SameWatch
  <2>3. LoopInv(s)
    BY <1>1, <2>1 DEF LoopInv, SameLoop, SameWatch
  <2>4. st' = RequestRefresh(s)
    BY <1>2, <1>6
  <2>5. /\ Same(s, st') /\ SameChannels(s, st') /\ SameWatch(s, st')
        /\ (s.disposed \/ s.suspended \/ ~HasInterest(s) => st' = s)
    BY <2>1, <2>4, RequestRefreshFacts
  <2>6. Good(st')
    <3>1. CASE HasInterest(s)
      BY <2>2, <2>3, <2>4, <3>1, RefreshServes
    <3>2. CASE ~HasInterest(s)
      <4>1. st' = s
        BY <2>5, <3>2
      <4>2. InterestInv(s)
        BY <1>4, <2>1, <3>2 DEF InterestInv, HasInterest, Unwatched, Attended, SameLoop, SameWatch,
                                SameChannels
      <4> QED BY <2>2, <2>3, <4>1, <4>2 DEF Good
    <3> QED BY <3>1, <3>2
  <2>7. st'.closing = "none" /\ st'.watcher = None /\ st'.starting.pc = "none" /\ ~st'.suspended
        /\ st'.disposed = st.disposed
    BY <1>3, <1>4, <2>1, <2>5 DEF Same, SameWatch
  <2>8. \A a \in Agents \ {"session"} : stop[a].phase = "no"
    BY <1>1, <1>6 DEF StopInv, Agents
  <2>9. Keeps
    <3>1. Silent(st, st')
      BY <2>7 DEF Silent
    <3>2. disk' \in Disks /\ stop' \in Stops
      BY <1>2 DEF Inv, Stopping, Stops
    <3>3. \A a \in Agents : stop'[a].phase = "no"
      BY <1>1, <1>2, <1>3, <2>8, PhasesHeld
    <3>4. StopInv'
      BY <1>6, <2>7, <3>3 DEF StopInv, Agents
    <3> QED BY <2>6, <3>1, <3>2, <3>4 DEF Keeps
  <2>10. EditInv(st', disk)
    BY <2>7 DEF EditInv, StartFollows, ScanFollows, ShownFollows, Watching
  <2> QED BY <1>2, <2>9, <2>10 DEF Follows
<1> QED BY <1>5, <1>6

LEMMA DeleteCommitsKeeps ==
  ASSUME Inv, DeleteCommits
  PROVE  Keeps /\ Follows
<1>1. /\ st \in Service /\ Good(st) /\ Base(st) /\ LoopInv(st) /\ InterestInv(st) /\ StopInv
      /\ "session" \in Agents /\ "service" \in Agents
  BY InvKnown DEF Inv, Agents
<1>2. UNCHANGED disk /\ stop["session"].phase = "deleting"
  BY DEF DeleteCommits
<1>3. st.suspended /\ st.closing = "none" /\ st.loop.pc = "none"
  BY <1>1, <1>2 DEF StopInv
<1>4. st.watcher = None /\ st.starting.pc = "none"
  BY <1>1, <1>3, SuspendedStill
<1>5. CASE Known /\ ~st.disposed
  <2>1. Stopping("session", "suspending", TRUE) /\ st' = Suspend(st)
    BY <1>5 DEF DeleteCommits
  <2>2. /\ Good(st') /\ st'.suspended /\ st'.disposed = st.disposed /\ st'.loop.pc = st.loop.pc
        /\ st'.store = st.store /\ st'.catalogue = st.catalogue /\ st'.closing = st.closing
    BY <1>1, <1>4, <2>1, SuspendGood DEF Base
  <2>3. stop'["session"].phase = "suspending" /\ Silent(st, st')
    BY <1>1, <2>1, <2>2, PhasesHeld DEF Silent
  <2>4. Keeps
    BY <1>1, <1>2, <2>1, <2>2, <2>3, StoppingKeeps
  <2>5. EditInv(st', disk)
    BY <2>2, NothingFollows
  <2> QED BY <1>2, <2>4, <2>5 DEF Follows
<1>6. CASE ~(Known /\ ~st.disposed)
  <2>1. Stopping("session", "done", TRUE) /\ st' = [st EXCEPT !.catalogue = {}]
    BY <1>6 DEF DeleteCommits
  <2>2. st.disposed
    BY <1>1, <1>2, <1>6 DEF Known, StopInv
  <2>3. /\ st' \in Service /\ Same(st, st') /\ SameWatch(st, st') /\ SameLoop(st, st') /\ st'.store = st.store
        /\ st'.subs = st.subs /\ st'.catalogue = {}
    BY <1>1, <2>1 DEF Service, Same, SameWatch, SameLoop
  <2>4. Base(st') /\ LoopInv(st')
    BY <1>1, <2>3 DEF Base, LoopInv, WatchInv, ChannelInv, SuspendInv, Unwatched, Same, SameWatch, SameLoop
  <2>5. InterestInv(st')
    BY <1>1, <2>3 DEF InterestInv, HasInterest, Unwatched, Attended, Computing, Due, Same, SameWatch, SameLoop
  <2>6. Good(st') /\ st'.suspended /\ st'.disposed = st.disposed /\ st'.closing = "none" /\ st'.loop.pc = "none"
        /\ Silent(st, st')
    BY <1>3, <2>3, <2>4, <2>5 DEF Good, Silent, Same, SameWatch, SameLoop
  <2>7. Keeps
    BY <1>1, <1>2, <2>1, <2>2, <2>6, StoppingKeeps
  <2>8. EditInv(st', disk)
    BY <2>6, NothingFollows
  <2> QED BY <1>2, <2>7, <2>8 DEF Follows
<1> QED BY <1>5, <1>6

LEMMA RemoveKeeps ==
  ASSUME Inv, NEW a \in Agents, Remove(a)
  PROVE  Keeps /\ Follows
<1> DEFINE s == DisposeChannels(st)
<1>1. st \in Service /\ Good(st) /\ Base(st) /\ KnownSuspends(st) /\ StopInv
  BY InvKnown DEF Inv
<1>2. /\ UNCHANGED disk /\ Stopping(a, "done", TRUE) /\ stop[a].phase = "draining" /\ stop[a].awaits = {}
      /\ st' = IF a = "session" THEN [s EXCEPT !.catalogue = {}] ELSE s
  BY DEF Remove, Drained
<1>3. st.closing = "none" /\ st.loop.pc = "none" /\ st.suspended /\ (a = "service" => st.disposed)
  BY <1>1, <1>2 DEF StopInv, Base, SuspendInv, Agents
<1> HIDE DEF s
<1>4. Dropped(st, "uncommitted", s) /\ \A k \in Kinds : s.store[k] = None
  BY <1>1, DisposeChannelsGood DEF s
<1>5. Good(s) /\ Same(st, s) /\ s.catalogue = st.catalogue /\ s.closing = "none" /\ s.loop.pc = "none"
  BY <1>3, <1>4 DEF Dropped, Quieter
<1>6. /\ Good(st') /\ Same(s, st') /\ st'.store = s.store /\ st'.catalogue \in {st.catalogue, {}}
      /\ st'.closing = "none" /\ st'.loop.pc = "none"
  <2>1. CASE a # "session"
    BY <1>2, <1>5, <2>1 DEF Same
  <2>2. CASE a = "session"
    <3>1. st' = [s EXCEPT !.catalogue = {}] /\ s \in Service
      BY <1>2, <1>5, <2>2 DEF Good, Base
    <3>2. /\ st' \in Service /\ Same(s, st') /\ SameWatch(s, st') /\ SameLoop(s, st') /\ st'.store = s.store
          /\ st'.subs = s.subs /\ st'.catalogue = {}
      BY <3>1 DEF Service, Same, SameWatch, SameLoop
    <3>3. Base(st') /\ LoopInv(st')
      BY <1>5, <3>2 DEF Good, Base, LoopInv, WatchInv, ChannelInv, SuspendInv, Unwatched, Same, SameWatch, SameLoop
    <3>4. InterestInv(st')
      BY <1>5, <3>2 DEF Good, InterestInv, HasInterest, Unwatched, Attended, Computing, Due, Same, SameWatch, SameLoop
    <3> QED BY <1>5, <3>2, <3>3, <3>4 DEF Good, SameWatch, SameLoop
  <2> QED BY <2>1, <2>2
<1>7. st'.suspended /\ st'.disposed = st.disposed /\ \A k \in Kinds : st'.store[k] = None
  BY <1>3, <1>4, <1>5, <1>6 DEF Same
<1>8. Silent(st, st')
  BY <1>6, <1>7 DEF Silent
<1>9. st'.disposed = IF a = "service" THEN "done" # "no" ELSE st.disposed
  <2>1. st.disposed \in BOOLEAN
    BY <1>1 DEF Service
  <2> QED BY <1>3, <1>7, <2>1
<1>10. Keeps
  BY <1>2, <1>6, <1>7, <1>8, <1>9, StoppingKeeps
<1>11. EditInv(st', disk)
  BY <1>6, <1>7, NothingFollows
<1> QED BY <1>2, <1>10, <1>11 DEF Follows

-----------------------------------------------------------------------------
(* The specification *)

LEMMA InitInv ==
  ASSUME Init
  PROVE  Inv /\ EditInv(st, disk)
<1>1. disk \in Disks
  <2>1. 0 \in 0..MaxEdits /\ 0 \in 0..MaxMoves /\ {0, 1} \subseteq 0..(MaxCommits + 1)
    BY SizesAssumption
  <2> QED BY <2>1 DEF Init, Disks
<1>2. /\ ~st.suspended /\ ~st.disposed /\ ~st.requested /\ st.loop.pc = "none" /\ ~st.loop.aborted
      /\ st.starting.pc = "none" /\ ~st.starting.aborted /\ st.watcher = None /\ st.closing = "none"
      /\ st.hydrating = {} /\ \A k \in Kinds : st.store[k] = None /\ st.subs[k] = 0
  BY DEF Init, IdleLoop, NotStarting
<1>3. st \in Service
  <2> DEFINE l == IdleLoop
             n == NotStarting
             g == [k \in Kinds |-> None]
             h == [k \in Kinds |-> 0]
  <2>1. l \in Loops /\ n \in Starts
    BY IdleTyped DEF NotStarting, Starts
  <2>2. g \in [Kinds -> Channels \union {None}] /\ h \in [Kinds -> 0..MaxSubscribers]
    BY SizesAssumption
  <2>3. st = [workspace |-> None, suspended |-> FALSE, disposed |-> FALSE, probing |-> FALSE, hydrating |-> {},
              requested |-> FALSE, timer |-> FALSE, loop |-> l, starting |-> n, watcher |-> None,
              closing |-> "none", event |-> FALSE, completed |-> {}, evictions |-> {}, catalogue |-> {},
              store |-> g, subs |-> h]
    BY DEF Init
  <2> HIDE DEF l, n, g, h
  <2> QED BY <2>1, <2>2, <2>3 DEF Service
<1>4. stop \in Stops /\ \A a \in Agents : stop[a].phase = "no"
  BY DEF Init, Stops, Agents
<1>5. Base(st)
  BY <1>2, <1>3 DEF Base, WatchInv, ChannelInv, SuspendInv
<1>6. LoopInv(st)
  BY <1>2 DEF LoopInv
<1>7. InterestInv(st)
  BY <1>2 DEF InterestInv, Unwatched, Attended
<1>8. StopInv
  BY <1>2, <1>4 DEF StopInv, Agents
<1>9. EditInv(st, disk)
  BY <1>2 DEF EditInv, StartFollows, ScanFollows, ShownFollows, Watching
<1> QED BY <1>1, <1>4, <1>5, <1>6, <1>7, <1>8, <1>9 DEF Inv, Good

LEMMA NextKeeps ==
  ASSUME Inv, [Next]_vars
  PROVE  Keeps /\ ((MetadataOpens => OpensInTime) => Follows)
<1>1. CASE UNCHANGED vars
  <2>1. Good(st') /\ disk' \in Disks /\ stop' \in Stops /\ StopInv' /\ Silent(st, st')
    BY <1>1 DEF vars, Inv, StopInv, Silent
  <2> QED BY <1>1, <2>1 DEF vars, Keeps, Follows
<1>2. ASSUME NEW k \in Kinds,
             \/ Subscribe(k) \/ Unsubscribe(k) \/ Hydrate(k) \/ EvictionFires(k)
             \/ \E stays \in BOOLEAN : Hydrated(k, stays)
      PROVE  Keeps /\ Follows
  BY <1>2, SubscribeKeeps, UnsubscribeKeeps, HydrateKeeps, EvictionKeeps, HydratedKeeps
<1>3. CASE Attach \/ SessionSubscribed \/ TurnEnds \/ \E ok \in BOOLEAN : ProbeEnds(ok)
  BY <1>3, AttachKeeps, TurnEndsKeeps, ProbeEndsKeeps
<1>4. CASE LoopStep
  BY <1>4, InspectKeeps, InspectedKeeps, InspectFailsKeeps, JoinedKeeps, LoopSettlesKeeps, ComputeFailsKeeps,
     ComputedKeeps DEF LoopStep
<1>5. CASE MetadataOpens
  BY <1>5, MetadataKeeps
<1>6. CASE TreeOpens \/ StartEnds \/ CloseBegins \/ CloseEnds
  BY <1>6, TreeKeeps, StartEndsKeeps, CloseBeginsKeeps, CloseEndsKeeps
<1>7. CASE TimerFires \/ WatchFails \/ EventArrives
  BY <1>7, TimerKeeps, WatchFailsKeeps, EventKeeps
<1>8. CASE Edit \/ Commit \/ \E t \in Targets \union {None} : Move(t)
  BY <1>8, EditKeeps, CommitKeeps, MoveKeeps
<1>9. CASE DisposeSession \/ DisposeService \/ DeleteFails \/ DeleteCommits
  BY <1>9, DisposeSessionKeeps, DisposeServiceKeeps, DeleteFailsKeeps, DeleteCommitsKeeps
<1>10. ASSUME NEW a \in Agents, StopStep(a)
       PROVE  Keeps /\ Follows
  BY <1>10, DrainKeeps, RemoveKeeps, DeleteBeginsKeeps DEF StopStep
<1> QED BY <1>1, <1>2, <1>3, <1>4, <1>5, <1>6, <1>7, <1>8, <1>9, <1>10 DEF Next, WatchStep

LEMMA InvHolds == Spec => []Inv
<1>1. Init => Inv
  BY InitInv
<1>2. Inv /\ [Next]_vars => Inv'
  BY NextKeeps DEF Keeps, Inv
<1> QED BY <1>1, <1>2, PTL DEF Spec

\* The type invariant, for any number of repositories, edits, commits, moves
\* and subscribers: the entry of pi/changeset-service.ts, its two channels and
\* the disposals are always what their types say.
THEOREM TypesHold == Spec => []TypeOK
<1>1. Inv => TypeOK
  BY DEF Inv, Good, Base, TypeOK
<1> QED BY <1>1, InvHolds, PTL

\* Once a session, or the service, is disposed of nothing of it runs on: what a
\* disposal has waited for (suspendSession, drain) does not start again before
\* the channels go, and not after, whatever else is called meanwhile.
THEOREM NothingStaysBehind == Spec => []NothingLeft
<1>1. ASSUME Inv
      PROVE  NothingLeft
  <2>1. st \in Service /\ Base(st) /\ StopInv /\ (st.disposed => st.suspended) /\ (st.suspended => ~st.timer)
    BY <1>1, InvKnown DEF Inv, Base, SuspendInv
  <2>2. ASSUME NEW a \in Agents, stop[a].phase = "done"
        PROVE  st.closing = "none" /\ st.loop.pc = "none" /\ st.suspended
    BY <2>1, <2>2 DEF StopInv, Agents
  <2>3. stop["session"].phase = "done" \/ stop["service"].phase = "done" =>
          /\ st.loop.pc = "none" /\ ~st.timer
          /\ st.watcher = None /\ st.starting.pc = "none" /\ st.closing # "releasing"
    BY <2>1, <2>2, SuspendedStill DEF Agents
  <2>4. stop["session"].phase = "done" /\ ~st.disposed => st.store = [k \in Kinds |-> None]
    BY <2>1 DEF StopInv, Service
  <2> QED BY <2>3, <2>4 DEF NothingLeft
<1> QED BY <1>1, InvHolds, PTL

\* No wake-up is stranded: while a refresh is asked for (entry.refreshRequested),
\* or a subscriber is shown a channel as being computed, a loop runs that will
\* see to it or a timer is set that starts one.
THEOREM WakeUpsKept == Spec => []NoWakeUpLost
<1>1. ASSUME Inv
      PROVE  NoWakeUpLost
  <2>1. LoopInv(st) /\ InterestInv(st)
    BY <1>1, InvKnown
  <2> QED BY <2>1 DEF LoopInv, InterestInv, Attended, Computing, Due, Early, NoWakeUpLost
<1> QED BY <1>1, InvHolds, PTL

\* What a suspended session shows does not change, until it goes: neither a probe
\* that ends late, nor a scan, nor a failure is published (canPublish, publishError).
THEOREM SuspendedIsSilent == Spec => SilentWhenSuspended
<1>1. ASSUME Inv, [Next]_vars
      PROVE  [st.suspended /\ st'.suspended =>
                /\ st'.catalogue \in {st.catalogue, {}}
                /\ \A k \in Kinds : st.store[k] # None => st'.store[k] \in {st.store[k], None}]_vars
  BY <1>1, NextKeeps DEF Keeps, Silent
<1> QED BY <1>1, InvHolds, PTL DEF Spec, SilentWhenSuspended

LEMMA EditInvShows ==
  ASSUME Inv, EditInv(st, disk)
  PROVE  EditsShown
<1>1. Quiet => Watching(st) /\ ~Pending(st) /\ st.loop.pc \notin Early /\ ~Left(st.watcher, disk)
  BY DEF Quiet, Watching, Pending, Early, Left
<1> QED BY <1>1 DEF EditInv, ShownFollows, EditsShown

\* The metadata watch always opens in time. Without this EditsShown is false as
\* soon as the repository may move twice: away before the watch opens and back
\* after the scan, with an edit in between that nobody reports.
WatchSeesMoves == [][OpensInTime]_vars

\* At rest the uncommitted changes shown as ready are those of the present work
\* tree, however often it is edited, during a scan or between two, and however
\* often the repository moves once its watch is open.
THEOREM EditsAreShown == Spec /\ WatchSeesMoves => []EditsShown
<1>1. Init => EditInv(st, disk)
  BY InitInv
<1>2. Inv /\ EditInv(st, disk) /\ [Next]_vars /\ [OpensInTime]_vars => EditInv(st, disk)'
  <2> SUFFICES ASSUME Inv, EditInv(st, disk), [Next]_vars, [OpensInTime]_vars
               PROVE  EditInv(st, disk)'
    OBVIOUS
  <2>1. MetadataOpens => OpensInTime
    BY DEF vars, OpensInTime
  <2> QED BY <2>1, NextKeeps DEF Follows
<1>3. Inv /\ EditInv(st, disk) => EditsShown
  BY EditInvShows
<1> QED BY <1>1, <1>2, <1>3, InvHolds, PTL DEF Spec, WatchSeesMoves

-----------------------------------------------------------------------------
(* A repository that moves at most once *)

\* The workspace that was inspected is the repository, which else has moved.
Located == st.workspace # None => st.workspace.target = disk.target \/ disk.moves > 0

LEMMA WorkspaceKept ==
  ASSUME NEW s \in Service
  PROVE  /\ CloseWatcher(s).workspace = s.workspace /\ RequestRefresh(s).workspace = s.workspace
         /\ ScheduleRefresh(s).workspace = s.workspace /\ Again(s).workspace = s.workspace
         /\ Scan(s).workspace = s.workspace /\ EnsureWatcher(s).workspace = s.workspace
         /\ Suspend(s).workspace = s.workspace
         /\ \A k \in Kinds : SubscriberChanged(s, k).workspace = s.workspace
<1>1. CloseWatcher(s).workspace = s.workspace
  BY DEF CloseWatcher, Service
<1>2. RequestRefresh(s).workspace = s.workspace
  BY RequestRefreshFacts DEF SameChannels
<1>3. ScheduleRefresh(s).workspace = s.workspace
  BY DEF ScheduleRefresh, Service
<1>4. Again(s).workspace = s.workspace
  BY AgainFacts DEF SameChannels
<1>5. Scan(s).workspace = s.workspace
  BY <1>4 DEF Scan, Service
<1>6. EnsureWatcher(s).workspace = s.workspace
  BY <1>5 DEF EnsureWatcher, Service
<1>7. Suspend(s).workspace = s.workspace
  BY DEF Suspend, CloseWatcher, Service
<1>8. \A k \in Kinds : SubscriberChanged(s, k).workspace = s.workspace
  BY SubscriberChangedFacts DEF SameChannels
<1> QED BY <1>1, <1>2, <1>3, <1>4, <1>5, <1>6, <1>7, <1>8

\* A step leaves the workspace alone, forgets it or inspects it.
Relocated == st'.workspace \in {st.workspace, None, Workspace(disk)}

LEMMA SubscriberRelocated ==
  ASSUME st \in Service, NEW k \in Kinds, NEW stays \in BOOLEAN,
         Subscribe(k) \/ Unsubscribe(k) \/ Hydrate(k) \/ EvictionFires(k) \/ Hydrated(k, stays)
  PROVE  st'.workspace = st.workspace
<1>1. CASE Subscribe(k) \/ Unsubscribe(k)
  <2>1. PICK n \in 0..MaxSubscribers : st' = SubscriberChanged([st EXCEPT !.subs[k] = n], k)
    <3>1. Subscribe(k) => st.subs[k] + 1 \in 0..MaxSubscribers
      BY SizesAssumption DEF Subscribe, Service
    <3>2. Unsubscribe(k) => st.subs[k] - 1 \in 0..MaxSubscribers
      BY SizesAssumption DEF Unsubscribe, Service
    <3>3. CASE Subscribe(k)
      BY <3>1, <3>3 DEF Subscribe
    <3>4. CASE Unsubscribe(k)
      BY <3>2, <3>4 DEF Unsubscribe
    <3> QED BY <1>1, <3>3, <3>4
  <2> DEFINE s == [st EXCEPT !.subs[k] = n]
  <2>2. s \in Service /\ s.workspace = st.workspace
    BY DEF Service
  <2> HIDE DEF s
  <2>3. SubscriberChanged(s, k).workspace = s.workspace
    BY <2>2, WorkspaceKept
  <2> QED BY <2>1, <2>2, <2>3 DEF s
<1>2. CASE Hydrate(k) \/ EvictionFires(k)
  BY <1>2 DEF Hydrate, Probe, EvictionFires, Service
<1>3. CASE Hydrated(k, stays)
  <2> DEFINE s == [st EXCEPT !.hydrating = @ \ {k}]
             n == IF stays THEN 1 ELSE s.subs[k]
             u == [s EXCEPT !.evictions = @ \ {k}, !.store[k] = NewChannel, !.subs[k] = IF stays THEN 1 ELSE @]
  <2>1. st' = s \/ st' = SubscriberChanged(u, k)
    BY <1>3 DEF Hydrated
  <2>2. s \in Service /\ s.workspace = st.workspace
    BY DEF Service
  <2> HIDE DEF s
  <2>3. n \in 0..MaxSubscribers /\ NewChannel \in Channels
    BY <2>2, SizesAssumption DEF NewChannel, Channels, Service
  <2>4. u = [s EXCEPT !.evictions = s.evictions \ {k}, !.store[k] = NewChannel, !.subs[k] = n]
    BY <2>2 DEF Service
  <2> HIDE DEF n, u
  <2>5. u \in Service /\ u.workspace = s.workspace
    BY <2>2, <2>3, <2>4 DEF Service
  <2>6. SubscriberChanged(u, k).workspace = u.workspace
    BY <2>5, WorkspaceKept
  <2> QED BY <2>1, <2>2, <2>5, <2>6
<1> QED BY <1>1, <1>2, <1>3

LEMMA LoopRelocated ==
  ASSUME Inv, LoopStep
  PROVE  Relocated
<1>1. st \in Service /\ Good(st) /\ KnownSuspends(st) /\ disk \in Disks
  BY InvKnown DEF Inv
<1>2. CASE Inspect
  BY <1>1, <1>2, WorkspaceKept DEF Inspect, Service, Relocated
<1>3. CASE Inspected
  <2> DEFINE w == Workspace(disk)
             s == [ApplyCatalogue(st, w) EXCEPT !.loop.workspace = w]
  <2>1. w \in Workspaces \union {None}
    BY <1>1, WorkspaceTyped
  <2>2. /\ Again(st).workspace = st.workspace
        /\ \/ st' = Again(st) \/ st' = CloseWatcher([s EXCEPT !.loop.pc = "closing"])
           \/ st' = CloseWatcher([s EXCEPT !.loop.pc = "joining"]) \/ st' = EnsureWatcher(s)
    BY <1>1, <1>3, WorkspaceKept DEF Inspected
  <2>3. ApplyCatalogue(st, w) \in Service /\ ApplyCatalogue(st, w).workspace = w
    BY <1>1, <2>1, ApplyCatalogueGood DEF Good, Base
  <2> HIDE DEF w
  <2>4. s \in Service /\ s.workspace = w
    BY <2>1, <2>3 DEF Service, Loops
  <2> HIDE DEF s
  <2>5. /\ [s EXCEPT !.loop.pc = "closing"] \in Service /\ [s EXCEPT !.loop.pc = "closing"].workspace = w
        /\ [s EXCEPT !.loop.pc = "joining"] \in Service /\ [s EXCEPT !.loop.pc = "joining"].workspace = w
    BY <2>4 DEF Service, Loops
  <2> QED BY <2>2, <2>4, <2>5, WorkspaceKept DEF Relocated, w
<1>4. CASE InspectFails
  <2> DEFINE g == [k \in Kinds |-> IF Published(st, k) THEN [st.store[k] EXCEPT !.status = "error"] ELSE st.store[k]]
             s == [st EXCEPT !.store = g]
  <2>1. g \in [Kinds -> Channels \union {None}]
    BY <1>1 DEF Service, Channels, Published
  <2> HIDE DEF g
  <2>2. s \in Service /\ s.workspace = st.workspace
    BY <1>1, <2>1 DEF Service
  <2>3. st' = Again(st) \/ st' = Again(s)
    BY <1>4 DEF InspectFails, g
  <2> HIDE DEF s
  <2> QED BY <1>1, <2>2, <2>3, WorkspaceKept DEF Relocated
<1>5. CASE Joined
  BY <1>1, <1>5, WorkspaceKept DEF Joined, Relocated
<1>6. CASE LoopSettles
  <2> DEFINE s == [st EXCEPT !.loop = IdleLoop]
  <2>1. s \in Service /\ s.workspace = st.workspace
    BY <1>1, IdleTyped DEF Service
  <2>2. st' = s \/ st' = RequestRefresh(s)
    BY <1>6 DEF LoopSettles, Settled
  <2> HIDE DEF s
  <2> QED BY <2>1, <2>2, WorkspaceKept DEF Relocated
<1>7. ASSUME NEW k \in Kinds, ComputeFails(k) \/ \E seen \in 0..MaxEdits : Computed(k, seen)
      PROVE  Relocated
  <2>1. PICK g \in [Kinds -> Channels \union {None}], c \in SUBSET Kinds :
          LET s == [st EXCEPT !.store = g, !.completed = c]
          IN  st' = Again(s) \/ st' = [s EXCEPT !.loop.jobs = @ \ {k}]
    <3>1. st = [st EXCEPT !.store = st.store, !.completed = st.completed]
      BY <1>1 DEF Service
    <3>2. CASE ComputeFails(k)
      <4> DEFINE h == [st.store EXCEPT ![k].status = "error"]
      <4>1. CASE ~CanPublish(st) \/ st.store[k] = None
        BY <1>1, <3>1, <3>2, <4>1 DEF ComputeFails, Service
      <4>2. CASE ~(~CanPublish(st) \/ st.store[k] = None)
        <5>1. h \in [Kinds -> Channels \union {None}] /\ st.completed \in SUBSET Kinds
          BY <1>1, <4>2 DEF Service, Channels
        <5>2. [st EXCEPT !.store[k].status = "error"] = [st EXCEPT !.store = h, !.completed = st.completed]
          BY <1>1 DEF Service
        <5> HIDE DEF h
        <5> QED BY <3>2, <4>2, <5>1, <5>2 DEF ComputeFails
      <4> QED BY <4>1, <4>2
    <3>3. ASSUME NEW seen \in 0..MaxEdits, Computed(k, seen)
          PROVE  \E g \in [Kinds -> Channels \union {None}], c \in SUBSET Kinds :
                   LET s == [st EXCEPT !.store = g, !.completed = c]
                   IN  st' = Again(s) \/ st' = [s EXCEPT !.loop.jobs = @ \ {k}]
      <4> DEFINE content == [head |-> st.loop.workspace.head, files |-> IF k = "uncommitted" THEN seen ELSE 0]
                 n == [status |-> "ready", content |-> content]
                 h == [st.store EXCEPT ![k] = n]
      <4>1. CASE ~CanPublish(st) \/ st.store[k] = None
        BY <1>1, <3>1, <3>3, <4>1 DEF Computed, Service
      <4>2. CASE ~(~CanPublish(st) \/ st.store[k] = None)
        <5>1. n \in Channels
          <6>1. st.loop.workspace \in Workspaces
            BY <1>1, <3>3 DEF Computed, Good, LoopInv, Base, Service, Loops
          <6>2. seen \in 0..MaxEdits /\ 0 \in 0..MaxEdits
            BY SizesAssumption
          <6> QED BY <6>1, <6>2 DEF Contents, Workspaces, Channels
        <5> HIDE DEF n
        <5>2. h \in [Kinds -> Channels \union {None}] /\ st.completed \union {k} \in SUBSET Kinds
          BY <1>1, <5>1 DEF Service
        <5>3. [st EXCEPT !.store[k] = n, !.completed = @ \union {k}] = [st EXCEPT !.store = h, !.completed = st.completed \union {k}]
          BY <1>1 DEF Service
        <5>4. st' = IF st.loop.jobs = {k} THEN Again([st EXCEPT !.store[k] = n, !.completed = @ \union {k}])
                    ELSE [[st EXCEPT !.store[k] = n, !.completed = @ \union {k}] EXCEPT !.loop.jobs = @ \ {k}]
          BY <3>3, <4>2 DEF Computed, n
        <5> HIDE DEF h
        <5> QED BY <5>2, <5>3, <5>4
      <4> QED BY <4>1, <4>2
    <3> QED BY <1>7, <3>2, <3>3
  <2> DEFINE s == [st EXCEPT !.store = g, !.completed = c]
  <2>2. s \in Service /\ s.workspace = st.workspace
    BY <1>1 DEF Service
  <2>3. st' = Again(s) \/ st' = [s EXCEPT !.loop.jobs = @ \ {k}]
    BY <2>1
  <2> HIDE DEF s
  <2>4. [s EXCEPT !.loop.jobs = @ \ {k}].workspace = s.workspace
    BY <2>2 DEF Service
  <2> QED BY <2>2, <2>3, <2>4, WorkspaceKept DEF Relocated
<1> QED BY <1>2, <1>3, <1>4, <1>5, <1>6, <1>7 DEF LoopStep

LEMMA WatchRelocated ==
  ASSUME st \in Service, WatchStep \/ WatchFails \/ EventArrives
  PROVE  st'.workspace = st.workspace
<1>1. \A x \in Targets \union {None} :
        LET s == [st EXCEPT !.watcher = x, !.starting = NotStarting] IN Scan(s).workspace = st.workspace
  <2> SUFFICES ASSUME NEW x \in Targets \union {None},
                      NEW s, s = [st EXCEPT !.watcher = x, !.starting = NotStarting]
               PROVE  Scan(s).workspace = st.workspace
    OBVIOUS
  <2>1. s \in Service /\ s.workspace = st.workspace
    BY DEF Service, NotStarting, Starts
  <2> QED BY <2>1, WorkspaceKept
<1>2. /\ st.watcher \in Targets \union {None} /\ st.starting.target \in Targets \union {None}
      /\ [st EXCEPT !.starting = NotStarting] = [st EXCEPT !.watcher = st.watcher, !.starting = NotStarting]
      /\ [[st EXCEPT !.watcher = st.starting.target] EXCEPT !.starting = NotStarting]
           = [st EXCEPT !.watcher = st.starting.target, !.starting = NotStarting]
  BY DEF Service, Starts
<1>3. CASE TreeOpens \/ StartEnds \/ MetadataOpens
  <2>1. /\ Released(st).workspace = st.workspace /\ [st EXCEPT !.starting.pc = "acquiring"].workspace = st.workspace
        /\ Started(st).workspace = st.workspace
        /\ Started([st EXCEPT !.watcher = st.starting.target]).workspace = st.workspace
    BY <1>1, <1>2 DEF Released, Started, Service
  <2> QED BY <1>3, <2>1 DEF TreeOpens, StartEnds, MetadataOpens
<1>4. CASE CloseBegins \/ CloseEnds
  BY <1>4 DEF CloseBegins, CloseEnds, Service
<1>5. CASE WatchFails
  BY <1>5, WorkspaceKept DEF WatchFails
<1>6. CASE EventArrives
  <2>1. [st EXCEPT !.event = FALSE] \in Service /\ [st EXCEPT !.event = FALSE].workspace = st.workspace
    BY DEF Service
  <2> QED BY <1>6, <2>1, WorkspaceKept DEF EventArrives
<1> QED BY <1>3, <1>4, <1>5, <1>6 DEF WatchStep

LEMMA StopRelocated ==
  ASSUME Inv,
         \/ DisposeSession \/ DisposeService \/ DeleteFails \/ DeleteCommits
         \/ \E a \in Agents : StopStep(a)
  PROVE  st'.workspace = st.workspace
<1>1. st \in Service /\ Good(st) /\ KnownSuspends(st)
  BY InvKnown DEF Inv
<1>2. CASE DisposeSession \/ DeleteCommits
  BY <1>1, <1>2, WorkspaceKept DEF DisposeSession, DeleteCommits, Service
<1>3. CASE DisposeService
  <2> DEFINE s == [st EXCEPT !.disposed = TRUE, !.evictions = {}]
  <2>1. s \in Service /\ s.workspace = st.workspace
    BY <1>1 DEF Service
  <2>2. st' = s \/ st' = Suspend(s)
    BY <1>3 DEF DisposeService
  <2> HIDE DEF s
  <2> QED BY <2>1, <2>2, WorkspaceKept
<1>4. CASE DeleteFails
  <2> DEFINE s == [st EXCEPT !.suspended = FALSE, !.probing = @ \/ st.workspace = None]
  <2>1. s \in Service /\ s.workspace = st.workspace
    BY <1>1 DEF Service
  <2>2. st' = st \/ st' = RequestRefresh(s)
    BY <1>4 DEF DeleteFails, Resume
  <2> HIDE DEF s
  <2> QED BY <2>1, <2>2, WorkspaceKept
<1>5. ASSUME NEW a \in Agents, Remove(a)
      PROVE  st'.workspace = st.workspace
  <2> DEFINE s == DisposeChannels(st)
  <2>1. s \in Service /\ s.workspace = st.workspace
    BY <1>1, DisposeChannelsGood DEF Dropped, Good, Base
  <2>2. st' = IF a = "session" THEN [s EXCEPT !.catalogue = {}] ELSE s
    BY <1>5 DEF Remove
  <2> HIDE DEF s
  <2> QED BY <2>1, <2>2 DEF Service
<1>6. ASSUME NEW a \in Agents, Drain(a) \/ (a = "session" /\ DeleteBegins)
      PROVE  st'.workspace = st.workspace
  BY <1>6 DEF Drain, DeleteBegins
<1> QED BY <1>2, <1>3, <1>4, <1>5, <1>6 DEF StopStep

LEMMA NextLocated ==
  ASSUME Inv, Located, [Next]_vars
  PROVE  Located'
<1>1. st \in Service /\ Good(st) /\ KnownSuspends(st) /\ disk \in Disks
  BY InvKnown DEF Inv
<1>2. ASSUME Relocated, disk'.target = disk.target, disk'.moves = disk.moves
      PROVE  Located'
  BY <1>1, <1>2, WorkspaceTyped DEF Located, Relocated
<1>3. CASE UNCHANGED vars
  BY <1>3 DEF vars, Located
<1>4. ASSUME NEW k \in Kinds, NEW stays \in BOOLEAN,
             Subscribe(k) \/ Unsubscribe(k) \/ Hydrate(k) \/ EvictionFires(k) \/ Hydrated(k, stays)
      PROVE  Located'
  BY <1>1, <1>2, <1>4, SubscriberRelocated
     DEF Relocated, Subscribe, Unsubscribe, Hydrate, EvictionFires, Hydrated
<1>5. CASE Attach \/ SessionSubscribed \/ TurnEnds
  <2>1. Probe(st).workspace = st.workspace /\ RequestRefresh(st).workspace = st.workspace
    BY <1>1, WorkspaceKept DEF Probe, Service
  <2> QED BY <1>2, <1>5, <2>1 DEF Relocated, Attach, SessionSubscribed, TurnEnds
<1>6. ASSUME NEW ok \in BOOLEAN, ProbeEnds(ok)
      PROVE  Located'
  <2> DEFINE s == [st EXCEPT !.probing = FALSE, !.loop.pc = IF @ = "waiting" THEN "probe" ELSE @]
             w == IF ok THEN Workspace(disk) ELSE None
  <2>1. s.workspace = st.workspace
    BY <1>1 DEF Service
  <2>2. ApplyCatalogue(s, w).workspace = w
    BY DEF ApplyCatalogue
  <2>3. st' = s \/ st' = ApplyCatalogue(s, w)
    BY <1>6 DEF ProbeEnds
  <2> HIDE DEF s
  <2> QED BY <1>2, <1>6, <2>1, <2>2, <2>3 DEF Relocated, ProbeEnds
<1>7. CASE LoopStep
  BY <1>2, <1>7, LoopRelocated DEF LoopStep, Inspect, Inspected, InspectFails, Joined, LoopSettles, ComputeFails, Computed
<1>8. CASE TimerFires
  <2>1. [st EXCEPT !.timer = FALSE] \in Service /\ [st EXCEPT !.timer = FALSE].workspace = st.workspace
    BY <1>1 DEF Service
  <2> QED BY <1>2, <1>8, <2>1, WorkspaceKept DEF Relocated, TimerFires
<1>9. CASE WatchStep \/ WatchFails \/ EventArrives
  BY <1>1, <1>2, <1>9, WatchRelocated
     DEF Relocated, WatchStep, MetadataOpens, TreeOpens, StartEnds, CloseBegins, CloseEnds, WatchFails, EventArrives
<1>10. CASE Edit \/ Commit
  BY <1>1, <1>2, <1>10 DEF Relocated, Edit, Commit, Service, Disks
<1>11. ASSUME NEW t \in Targets \union {None}, Move(t)
       PROVE  Located'
  BY <1>1, <1>11, SizesAssumption DEF Move, Located, Disks
<1>12. CASE \/ DisposeSession \/ DisposeService \/ DeleteFails \/ DeleteCommits
            \/ \E a \in Agents : StopStep(a)
  BY <1>2, <1>12, StopRelocated
     DEF Relocated, DisposeSession, DisposeService, DeleteFails, DeleteCommits, StopStep, Drain, Remove, DeleteBegins
<1> QED BY <1>3, <1>4, <1>5, <1>6, <1>7, <1>8, <1>9, <1>10, <1>11, <1>12 DEF Next

\* In a repository that moves at most once nothing has to be assumed of it: the
\* watch opens on the repository that was inspected, or the move was the last.
THEOREM EditsShownOfOneMove ==
  ASSUME MaxMoves <= 1
  PROVE  Spec => []EditsShown
<1>1. Init => Located /\ EditInv(st, disk)
  BY InitInv DEF Init, Located
<1>2. Inv /\ Located /\ [Next]_vars => Located'
  BY NextLocated
<1>3. Inv /\ Located /\ EditInv(st, disk) /\ [Next]_vars => EditInv(st, disk)'
  <2> SUFFICES ASSUME Inv, Located, EditInv(st, disk), [Next]_vars
               PROVE  EditInv(st, disk)'
    OBVIOUS
  <2>1. MetadataOpens => OpensInTime
    <3> SUFFICES ASSUME MetadataOpens, st'.starting.pc = "acquiring"
                 PROVE  disk.target = st.starting.target \/ disk.moves = MaxMoves
      BY DEF OpensInTime
    <3>1. st \in Service /\ disk.moves \in 0..MaxMoves
      BY InvKnown DEF Inv, Disks
    <3>2. CanWatch(st)
      BY <3>1 DEF MetadataOpens, Released, Service, Starts
    <3>3. disk.moves > 0 => disk.moves = MaxMoves
      BY <3>1, SizesAssumption
    <3> QED BY <3>2, <3>3 DEF CanWatch, Located
  <2> QED BY <2>1, NextKeeps DEF Follows
<1>4. Inv /\ EditInv(st, disk) => EditsShown
  BY EditInvShows
<1> QED BY <1>1, <1>2, <1>3, <1>4, InvHolds, PTL DEF Spec
=============================================================================
