----------------------- MODULE ParcelWatchSource_proofs -----------------------
(***************************************************************************)
(* Whatever happens to the root, the native source has one subscription at *)
(* most, knows who will release it, and leaves none when it is closed.     *)
(*                                                                         *)
(* The parts of the invariant are operators of the fields `s' and of the   *)
(* subscriptions `hs', since a tick goes through several values of both.   *)
(***************************************************************************)
EXTENDS ParcelWatchSource, TLAPS

Holds(hs, g) == hs[g].state \in {"asked", "open", "erring"}

\* Generations that were not used yet have no subscription.
FreshAbove(s, hs) ==
  s.native <= s.generation /\ \A g \in Gens : g > s.generation => hs[g].state = "none"

\* Between two passes of the loop only the field #native has a subscription.
NativeOnly(s, hs) == \A g \in Gens : Holds(hs, g) => g = s.native

InHands(s, hs) ==
  \A g \in Gens : Holds(hs, g) =>
    \/ g = s.native
    \/ g = s.generation /\ (s.opening.at = "subscribe" \/ s.loop.at = "subscribe")
    \/ g = s.loop.old /\ s.loop.at = "unsubscribe"

\* Which of the coroutines may be where, and what they hold there.
OpeningInv(s) ==
  /\ s.opening.at = "look" => s.native = None /\ s.generation = 0
  /\ s.opening.at = "subscribe" => s.native = None /\ s.generation \in Gens
  /\ s.opening.at = "threw" => s.closing # "no"

LoopInv(s) ==
  /\ s.loop.at # "idle" => s.opening.at \in {"checking", "done"}
  /\ s.loop.at \in {"unsubscribe", "lookAgain", "subscribe", "lookAfter"} => s.native = None
  /\ s.loop.at = "subscribe" => s.generation \in Gens /\ s.loop.seen \in 1..MaxDirs
  /\ s.loop.at = "unsubscribe" => s.loop.old \in Gens /\ s.loop.old <= s.generation

ClosingInv(s) ==
  /\ s.closing # "no" => ~s.parent /\ s.opening.at \in {"done", "threw"}
  /\ s.closing = "done" => s.loop.at = "idle" /\ s.native = None

Typed(s, hs) == s \in Sources /\ hs \in [Gens -> Handles]

SourceInv(s, hs) ==
  /\ Typed(s, hs) /\ FreshAbove(s, hs) /\ InHands(s, hs)
  /\ OpeningInv(s) /\ LoopInv(s) /\ ClosingInv(s)

Surroundings ==
  root \in 0..MaxDirs /\ dirs \in 1..MaxDirs /\ events \in 0..MaxEvents /\ due \in BOOLEAN

IInv == Surroundings /\ SourceInv(source, handles)

USE SourceAssumption DEF SourceAssumption, Absent, None, Gens

\* The loop has nothing under way, and only the field #native a subscription.
Resting(s, hs) ==
  /\ Typed(s, hs) /\ FreshAbove(s, hs) /\ NativeOnly(s, hs)
  /\ s.opening.at \in {"checking", "done"} /\ s.closing # "done"
  /\ s.closing # "no" => ~s.parent /\ s.opening.at = "done"

-----------------------------------------------------------------------------
(* What a tick does to the fields *)

LEMMA IdleType == Idle \in Coroutine({"idle", "look"})
BY DEF Idle, Coroutine, Unread

LEMMA FailType == ASSUME NEW s \in Sources PROVE Fail(s) \in Sources
BY DEF Fail, Closed, Sources

LEMMA OpenThrowsInv ==
  ASSUME NEW s, NEW hs, Typed(s, hs), FreshAbove(s, hs), NativeOnly(s, hs), s.loop.at = "idle"
  PROVE  SourceInv(OpenThrows(s), hs)
<1> DEFINE t == OpenThrows(s)
<1>1. [at |-> "threw", seen |-> Unread] \in Openings
  BY DEF Openings, Unread
<1> DEFINE threw == [at |-> "threw", seen |-> Unread]
           u == [s EXCEPT !.opening = threw]
<1>2. threw \in Openings /\ threw.at = "threw"
  BY <1>1
<1>3. t = CloseBegins(u)
  BY DEF OpenThrows
<1> HIDE DEF threw, t
<1>4. /\ u \in Sources /\ u.native = s.native /\ u.generation = s.generation /\ u.loop = s.loop
      /\ u.opening = threw
  BY <1>2 DEF Typed, Sources
<1> HIDE DEF u
<1>5. t = [u EXCEPT !.closing = "waiting", !.active = None, !.parent = FALSE]
  BY <1>3 DEF CloseBegins
<1>6. 0 \in 0..MaxGens
  OBVIOUS
<1>7. t \in Sources
  <2> DEFINE v == [u EXCEPT !.closing = "waiting"]
             w == [v EXCEPT !.active = 0]
  <2>1. v \in Sources
    BY <1>4 DEF Sources
  <2> HIDE DEF v
  <2>2. w \in Sources
    BY <2>1, <1>6 DEF Sources
  <2> HIDE DEF w
  <2>3. [w EXCEPT !.parent = FALSE] \in Sources
    BY <2>2 DEF Sources
  <2> QED BY <2>3, <1>5 DEF v, w
<1>8. /\ t.native = u.native /\ t.generation = u.generation /\ t.loop = u.loop
      /\ t.opening = u.opening /\ t.closing = "waiting" /\ t.parent = FALSE
  BY <1>4, <1>5 DEF Sources
<1>9. /\ t \in Sources /\ t.native = s.native /\ t.generation = s.generation /\ t.loop = s.loop
      /\ t.opening.at = "threw" /\ t.closing = "waiting" /\ ~t.parent
  BY <1>2, <1>4, <1>7, <1>8
<1>10. SourceInv(t, hs)
  BY <1>9 DEF SourceInv, Typed, FreshAbove, NativeOnly, InHands, OpeningInv, LoopInv, ClosingInv
<1> QED BY <1>10 DEF t

LEMMA OpenEndsInv ==
  ASSUME NEW s, NEW hs, Resting(s, hs), s.loop.at = "idle"
  PROVE  SourceInv(OpenEnds(s), hs)
<1>1. CASE s.opening.at # "checking"
  <2>1. OpenEnds(s) = s
    BY <1>1 DEF OpenEnds
  <2>2. SourceInv(s, hs)
    BY <1>1 DEF Resting, SourceInv, Typed, FreshAbove, NativeOnly, InHands, OpeningInv, LoopInv, ClosingInv
  <2> QED BY <2>1, <2>2
<1>2. CASE s.opening.at = "checking" /\ s.failed
  <2>1. OpenEnds(s) = OpenThrows(s)
    BY <1>2 DEF OpenEnds
  <2> QED BY <2>1, OpenThrowsInv DEF Resting
<1>3. CASE s.opening.at = "checking" /\ ~s.failed
  <2> DEFINE t == [s EXCEPT !.opening.at = "done"]
  <2>1. OpenEnds(s) = t
    BY <1>3 DEF OpenEnds
  <2>2. s \in Sources /\ s.opening \in Openings
    BY DEF Resting, Typed, Sources
  <2>3. [s.opening EXCEPT !.at = "done"] \in Openings
    BY <2>2 DEF Openings
  <2>4. /\ t \in Sources /\ t.native = s.native /\ t.generation = s.generation /\ t.loop = s.loop
        /\ t.opening.at = "done" /\ t.closing = s.closing
    BY <2>2, <2>3 DEF Sources, Openings
  <2>5. s.closing = "no"
    BY <1>3 DEF Resting
  <2> HIDE DEF t
  <2>6. SourceInv(t, hs)
    BY <2>4, <2>5 DEF Resting, SourceInv, Typed, FreshAbove, NativeOnly, InHands, OpeningInv, LoopInv, ClosingInv
  <2> QED BY <2>1, <2>6
<1>4. s.failed \in BOOLEAN
  BY DEF Resting, Typed, Sources
<1> QED BY <1>1, <1>2, <1>3, <1>4

LEMMA ContinueInv ==
  ASSUME NEW s, NEW hs, Resting(s, hs)
  PROVE  SourceInv(Continue(s), hs)
<1>0. s \in Sources
  BY DEF Resting, Typed
<1>1. CASE s.requested /\ ~Closed(s) /\ ~s.failed
  <2> DEFINE loop == [Idle EXCEPT !.at = "look", !.rootEvent = s.rootEvent]
             t == [s EXCEPT !.requested = FALSE, !.rootEvent = FALSE, !.loop = loop]
  <2>1. Continue(s) = t
    BY <1>1 DEF Continue
  <2>2. s.rootEvent \in BOOLEAN
    BY <1>0 DEF Sources
  <2>3. loop \in Coroutine({"idle", "look"}) /\ loop.at = "look"
    BY <2>2, IdleType DEF Coroutine
  <2>4. /\ loop \in Coroutine({"idle", "look", "unsubscribe", "lookAgain", "subscribe", "lookAfter"})
        /\ loop.at = "look"
    BY <2>3 DEF Coroutine
  <2>5. /\ t \in Sources /\ t.native = s.native /\ t.generation = s.generation /\ t.loop.at = "look"
        /\ t.opening = s.opening /\ t.closing = s.closing
    BY <1>0, <2>4 DEF Sources
  <2>6. s.closing = "no"
    BY <1>1 DEF Closed
  <2> HIDE DEF t
  <2>7. SourceInv(t, hs)
    BY <2>5, <2>6 DEF Resting, SourceInv, Typed, FreshAbove, NativeOnly, InHands, OpeningInv, LoopInv, ClosingInv
  <2> QED BY <2>1, <2>7
<1>2. CASE ~(s.requested /\ ~Closed(s) /\ ~s.failed)
  <2> DEFINE t == [s EXCEPT !.loop = Idle]
  <2>1. Continue(s) = OpenEnds(t)
    BY <1>2 DEF Continue
  <2>2. Idle \in Coroutine({"idle", "look", "unsubscribe", "lookAgain", "subscribe", "lookAfter"}) /\ Idle.at = "idle"
    BY DEF Idle, Coroutine, Unread
  <2>3. /\ t \in Sources /\ t.native = s.native /\ t.generation = s.generation /\ t.loop.at = "idle"
        /\ t.opening = s.opening /\ t.closing = s.closing /\ t.parent = s.parent
    BY <1>0, <2>2 DEF Sources
  <2> HIDE DEF t
  <2>4. Resting(t, hs)
    BY <2>3 DEF Resting, Typed, FreshAbove, NativeOnly
  <2> QED BY <2>1, <2>3, <2>4, OpenEndsInv
<1> QED BY <1>1, <1>2

LEMMA LoopThrowsInv ==
  ASSUME NEW s, NEW hs, Resting(s, hs)
  PROVE  SourceInv(LoopThrows(s), hs)
<1> DEFINE t == [s EXCEPT !.loop = Idle]
<1>0. s \in Sources
  BY DEF Resting, Typed
<1>1. Idle \in Coroutine({"idle", "look", "unsubscribe", "lookAgain", "subscribe", "lookAfter"}) /\ Idle.at = "idle"
  BY DEF Idle, Coroutine, Unread
<1>2. /\ t \in Sources /\ t.native = s.native /\ t.generation = s.generation /\ t.loop.at = "idle"
      /\ t.opening = s.opening /\ t.closing = s.closing /\ t.parent = s.parent
  BY <1>0, <1>1 DEF Sources
<1>3. LoopThrows(s) = OpenEnds(Fail(t))
  BY DEF LoopThrows
<1> HIDE DEF t
<1>4. /\ Fail(t).native = t.native /\ Fail(t).generation = t.generation /\ Fail(t).loop = t.loop
      /\ Fail(t).opening = t.opening /\ Fail(t).closing = t.closing /\ Fail(t).parent = t.parent
  BY <1>2 DEF Fail, Sources
<1>5. Fail(t) \in Sources
  BY <1>2, FailType
<1>6. Resting(Fail(t), hs) /\ Fail(t).loop.at = "idle"
  BY <1>2, <1>4, <1>5 DEF Resting, Typed, FreshAbove, NativeOnly
<1> QED BY <1>3, <1>6, OpenEndsInv

LEMMA FailInv ==
  ASSUME NEW s, NEW hs, SourceInv(s, hs)
  PROVE  SourceInv(Fail(s), hs)
<1>1. s \in Sources
  BY DEF SourceInv, Typed
<1>2. /\ Fail(s).native = s.native /\ Fail(s).generation = s.generation /\ Fail(s).loop = s.loop
      /\ Fail(s).opening = s.opening /\ Fail(s).closing = s.closing /\ Fail(s).parent = s.parent
  BY <1>1 DEF Fail, Sources
<1> QED
  BY <1>1, <1>2, FailType DEF SourceInv, Typed, FreshAbove, InHands, OpeningInv, LoopInv, ClosingInv

LEMMA RequestInv ==
  ASSUME NEW s, NEW hs, NEW event \in BOOLEAN, SourceInv(s, hs)
  PROVE  SourceInv(Request(s, event), hs)
<1> DEFINE t == [s EXCEPT !.requested = TRUE, !.rootEvent = @ \/ event]
<1>1. s \in Sources
  BY DEF SourceInv, Typed
<1>2. /\ t \in Sources /\ t.native = s.native /\ t.generation = s.generation /\ t.loop = s.loop
      /\ t.opening = s.opening /\ t.closing = s.closing /\ t.parent = s.parent
  BY <1>1 DEF Sources
<1>3. \/ Request(s, event) = s \/ Request(s, event) = t
      \/ /\ Request(s, event) = Continue(t)
         /\ s.opening.at \in {"checking", "done"} /\ s.loop.at = "idle" /\ s.closing = "no"
  BY <1>2 DEF Request, Closed
<1> HIDE DEF t
<1>4. SourceInv(t, hs)
  BY <1>2 DEF SourceInv, Typed, FreshAbove, InHands, OpeningInv, LoopInv, ClosingInv
<1>5. s.opening.at \in {"checking", "done"} /\ s.loop.at = "idle" /\ s.closing = "no" => Resting(t, hs)
  BY <1>2, <1>4 DEF SourceInv, Resting, Typed, FreshAbove, NativeOnly, InHands
<1> QED BY <1>3, <1>4, <1>5, ContinueInv

-----------------------------------------------------------------------------
(* The steps. What they leave alone of the surroundings needs no proof of   *)
(* its own: each preserves the types of what it changes.                    *)

LEMMA InitInv == Init => IInv
<1> SUFFICES ASSUME Init PROVE IInv
  OBVIOUS
<1> DEFINE opening == [at |-> "look", seen |-> Unread]
<1>1. Surroundings
  <2>1. root \in 0..MaxDirs /\ dirs \in 1..MaxDirs /\ events \in 0..MaxEvents
    BY DEF Init
  <2>2. due \in BOOLEAN
    BY DEF Init
  <2> QED BY <2>1, <2>2 DEF Surroundings
<1>2. handles \in [Gens -> Handles] /\ \A g \in Gens : handles[g].state = "none"
  <2> DEFINE unused == [state |-> "none", dir |-> 0]
  <2>1. unused \in Handles /\ unused.state = "none"
    BY DEF Handles, HandleStates
  <2>2. handles = [g \in Gens |-> unused]
    BY DEF Init
  <2> HIDE DEF unused
  <2> QED BY <2>1, <2>2
<1>3. opening \in Openings /\ opening.at = "look"
  BY DEF Openings, Unread
<1>4. Idle \in Coroutine({"idle", "look", "unsubscribe", "lookAgain", "subscribe", "lookAfter"}) /\ Idle.at = "idle"
  BY DEF Idle, Coroutine, Unread
<1> HIDE DEF opening
<1>5. /\ source.native = None /\ source.generation = 0 /\ source.opening = opening /\ source.loop = Idle
      /\ source.closing = "no"
  BY DEF Init, opening
<1>6. source \in Sources
  <2>1. source =
          [identity |-> 0, native |-> 0, generation |-> 0, active |-> 0,
           parent |-> FALSE, opening |-> opening,
           loop |-> Idle, requested |-> FALSE, rootEvent |-> FALSE,
           check |-> Idle, failed |-> FALSE, closing |-> "no"]
    BY DEF Init, opening
  <2>2. 0 \in 0..MaxGens /\ 0 \in 0..MaxDirs
    OBVIOUS
  <2> QED BY <2>1, <2>2, <1>3, <1>4, IdleType DEF Sources
<1> QED
  BY <1>1, <1>2, <1>3, <1>4, <1>5, <1>6
  DEF IInv, SourceInv, Holds, Typed, FreshAbove, InHands, OpeningInv, LoopInv, ClosingInv

\* A step that leaves the fields alone keeps the invariant if no subscription
\* comes to be held, and an unused generation stays unused.
LEMMA HandlesStep ==
  ASSUME IInv, source' = source, handles' \in [Gens -> Handles],
         \A g \in Gens : /\ Holds(handles', g) => Holds(handles, g)
                         /\ handles[g].state = "none" => handles'[g].state = "none"
  PROVE  SourceInv(source', handles')
<1>1. Typed(source', handles') /\ OpeningInv(source') /\ LoopInv(source') /\ ClosingInv(source')
  BY DEF IInv, SourceInv, Typed
<1>2. FreshAbove(source', handles')
  BY DEF IInv, SourceInv, FreshAbove
<1>3. InHands(source', handles')
  BY DEF IInv, SourceInv, InHands
<1> QED BY <1>1, <1>2, <1>3 DEF SourceInv

LEMMA AnswersStep ==
  ASSUME IInv, NEW g \in Gens, NativeAnswers(g)
  PROVE  IInv'
<1>1. PICK state \in {"open", "erring", "refused"} :
        handles' = [handles EXCEPT ![g] = [state |-> state, dir |-> root]]
  BY DEF NativeAnswers
<1>2. [state |-> state, dir |-> root] \in Handles /\ handles \in [Gens -> Handles]
  BY DEF IInv, Surroundings, SourceInv, Typed, Handles, HandleStates
<1> DEFINE answer == [state |-> state, dir |-> root]
<1>3. answer.state \in {"open", "erring", "refused"}
  OBVIOUS
<1> HIDE DEF answer
<1>4. handles' = [handles EXCEPT ![g] = answer]
  BY <1>1 DEF answer
<1>5. handles' \in [Gens -> Handles]
  BY <1>1, <1>2
<1>6. handles'[g] = answer /\ \A h \in Gens : h # g => handles'[h] = handles[h]
  BY <1>4, <1>2
<1>7. handles[g].state = "asked"
  BY DEF NativeAnswers
<1>8. SourceInv(source', handles')
  BY <1>5, <1>6, <1>7, <1>3, HandlesStep DEF NativeAnswers, Holds
<1> QED BY <1>8 DEF NativeAnswers, IInv, Surroundings

LEMMA Marked ==
  ASSUME NEW hs \in [Gens -> Handles], NEW g \in Gens, NEW state \in HandleStates, NEW after,
         after = [hs EXCEPT ![g].state = state]
  PROVE  /\ after \in [Gens -> Handles]
         /\ after[g].state = state /\ \A h \in Gens : h # g => after[h] = hs[h]
<1> DEFINE mark == [hs[g] EXCEPT !.state = state]
<1>1. mark \in Handles /\ mark.state = state
  BY DEF Handles
<1>2. after = [hs EXCEPT ![g] = mark]
  OBVIOUS
<1> HIDE DEF mark
<1> QED BY <1>1, <1>2

LEMMA AskedIs ==
  ASSUME handles \in [Gens -> Handles], NEW g \in Gens
  PROVE  /\ Asked(g) \in [Gens -> Handles]
         /\ Asked(g)[g].state = "asked" /\ \A h \in Gens : h # g => Asked(g)[h] = handles[h]
<1>1. "asked" \in HandleStates
  BY DEF HandleStates
<1>2. Asked(g) = [handles EXCEPT ![g].state = "asked"]
  BY DEF Asked
<1> QED BY <1>1, <1>2, Marked, SMTT(30)

LEMMA ReleasedIs ==
  ASSUME handles \in [Gens -> Handles], NEW g \in Gens
  PROVE  /\ Released(g) \in [Gens -> Handles]
         /\ Released(g)[g].state = "released" /\ \A h \in Gens : h # g => Released(g)[h] = handles[h]
<1>1. "released" \in HandleStates
  BY DEF HandleStates
<1>2. Released(g) = [handles EXCEPT ![g].state = "released"]
  BY DEF Released
<1> QED BY <1>1, <1>2, Marked, SMTT(30)

\* Fields the invariant reads, and those of them a step may leave alone.
Alike(s, t) ==
  /\ t.native = s.native /\ t.generation = s.generation /\ t.opening.at = s.opening.at
  /\ t.loop.at = s.loop.at /\ t.loop.old = s.loop.old
  /\ t.loop.at = "subscribe" => t.loop.seen = s.loop.seen
  /\ t.closing = s.closing /\ t.parent = s.parent

LEMMA AlikeInv ==
  ASSUME NEW s, NEW t \in Sources, NEW hs, SourceInv(s, hs), Alike(s, t)
  PROVE  SourceInv(t, hs)
BY DEF Alike, SourceInv, Typed, FreshAbove, InHands, OpeningInv, LoopInv, ClosingInv

LEMMA LooksStep ==
  ASSUME IInv, OpeningLooks \/ LoopLooks \/ CheckLooks
  PROVE  SourceInv(source', handles')
<1>1. source \in Sources /\ handles' = handles /\ {root, Failed} \subseteq 0..Unread
  BY DEF IInv, Surroundings, SourceInv, Typed, OpeningLooks, LoopLooks, CheckLooks, Failed, Unread
<1>2. /\ source.opening \in Openings /\ source.check \in Coroutine({"idle", "look"})
      /\ source.loop \in Coroutine({"idle", "look", "unsubscribe", "lookAgain", "subscribe", "lookAfter"})
  BY <1>1 DEF Sources
<1>3. CASE OpeningLooks
  <2>1. PICK seen \in 0..Unread : source' = [source EXCEPT !.opening.seen = seen]
    BY <1>1, <1>3 DEF OpeningLooks
  <2> DEFINE opening == [source.opening EXCEPT !.seen = seen]
  <2>2. opening \in Openings /\ opening.at = source.opening.at
    BY <1>2 DEF Openings
  <2>3. source' = [source EXCEPT !.opening = opening]
    BY <2>1
  <2> HIDE DEF opening
  <2>4. source' \in Sources
    BY <1>1, <2>2, <2>3 DEF Sources
  <2>5. Alike(source, source')
    BY <1>1, <2>2, <2>3 DEF Sources, Alike
  <2> QED BY <2>4, <2>5, <1>1, AlikeInv DEF IInv
<1>4. CASE LoopLooks
  <2>1. PICK seen \in 0..Unread : source' = [source EXCEPT !.loop.seen = seen]
    BY <1>1, <1>4 DEF LoopLooks
  <2> DEFINE loop == [source.loop EXCEPT !.seen = seen]
  <2>2. /\ loop \in Coroutine({"idle", "look", "unsubscribe", "lookAgain", "subscribe", "lookAfter"})
        /\ loop.at = source.loop.at /\ loop.old = source.loop.old
    BY <1>2 DEF Coroutine
  <2>3. source' = [source EXCEPT !.loop = loop]
    BY <2>1
  <2> HIDE DEF loop
  <2>4. source' \in Sources
    BY <1>1, <2>2, <2>3 DEF Sources
  <2>5. source.loop.at # "subscribe"
    BY <1>4 DEF LoopLooks, AwaitsStat
  <2>6. Alike(source, source')
    BY <1>1, <2>2, <2>3, <2>5 DEF Sources, Alike
  <2> QED BY <2>4, <2>6, <1>1, AlikeInv DEF IInv
<1>5. CASE CheckLooks
  <2>1. PICK seen \in 0..Unread : source' = [source EXCEPT !.check.seen = seen]
    BY <1>1, <1>5 DEF CheckLooks
  <2> DEFINE check == [source.check EXCEPT !.seen = seen]
  <2>2. check \in Coroutine({"idle", "look"})
    BY <1>2 DEF Coroutine
  <2>3. source' = [source EXCEPT !.check = check]
    BY <2>1
  <2> HIDE DEF check
  <2>4. source' \in Sources
    BY <1>1, <2>2, <2>3 DEF Sources
  <2>5. Alike(source, source')
    BY <1>1, <2>3 DEF Sources, Alike
  <2> QED BY <2>4, <2>5, <1>1, AlikeInv DEF IInv
<1> QED BY <1>3, <1>4, <1>5

-----------------------------------------------------------------------------
(* open()                                                                   *)

LEMMA OpenLookedStep ==
  ASSUME IInv, OpenLooked
  PROVE  SourceInv(source', handles')
<1>0. /\ source \in Sources /\ source.opening \in Openings /\ handles \in [Gens -> Handles]
      /\ source.opening.at = "look" /\ source.opening.seen \in 0..Unread /\ source.opening.seen # Unread
  BY DEF IInv, SourceInv, Typed, Sources, Openings, OpenLooked
<1>1. /\ source.native = 0 /\ source.generation = 0 /\ source.loop.at = "idle" /\ source.closing = "no"
      /\ \A g \in Gens : handles[g].state = "none"
  BY <1>0 DEF IInv, SourceInv, FreshAbove, OpeningInv, LoopInv, ClosingInv
<1>2. CASE source' = OpenThrows(source) /\ handles' = handles
  BY <1>0, <1>1, <1>2, OpenThrowsInv DEF Typed, FreshAbove, NativeOnly, Holds
<1> DEFINE seen == source.opening.seen
<1>3. seen \notin {Absent, Failed} => seen \in 0..MaxDirs
  BY <1>0 DEF Unread, Failed
<1>4. CASE /\ seen \notin {Absent, Failed} /\ handles' = handles
           /\ source' = OpenThrows([source EXCEPT !.identity = seen])
  <2> DEFINE t == [source EXCEPT !.identity = seen]
  <2>1. t \in Sources /\ t.native = 0 /\ t.generation = 0 /\ t.loop.at = "idle"
    BY <1>0, <1>1, <1>3, <1>4 DEF Sources
  <2> HIDE DEF t
  <2>2. SourceInv(OpenThrows(t), handles)
    BY <2>1, <1>0, <1>1, OpenThrowsInv DEF Typed, FreshAbove, NativeOnly, Holds
  <2> QED BY <2>2, <1>4 DEF t
<1>5. CASE /\ seen \notin {Absent, Failed} /\ handles' = Asked(1)
           /\ source' = [source EXCEPT !.identity = seen, !.parent = TRUE, !.generation = 1,
                                       !.opening = [at |-> "subscribe", seen |-> Unread]]
  <2> DEFINE opening == [at |-> "subscribe", seen |-> Unread]
  <2>1. opening \in Openings /\ opening.at = "subscribe"
    BY DEF Openings, Unread
  <2>2. source' = [source EXCEPT !.identity = seen, !.parent = TRUE, !.generation = 1, !.opening = opening]
    BY <1>5
  <2> HIDE DEF opening
  <2>3. 1 \in 0..MaxGens /\ 1 \in Gens
    OBVIOUS
  <2>4. source' \in Sources
    <3> DEFINE u == [source EXCEPT !.identity = seen, !.generation = 1, !.opening = opening]
    <3>1. u \in Sources
      BY <1>0, <1>3, <1>5, <2>1, <2>3 DEF Sources
    <3>2. source' = [u EXCEPT !.parent = TRUE]
      BY <2>2
    <3> HIDE DEF u
    <3> QED BY <3>1, <3>2 DEF Sources
  <2>5. /\ source'.native = 0 /\ source'.generation = 1 /\ source'.opening.at = "subscribe"
        /\ source'.loop.at = "idle" /\ source'.closing = "no"
    BY <1>0, <1>1, <2>1, <2>2 DEF Sources
  <2>6. handles' = Asked(1)
    BY <1>5
  <2>7. /\ handles' \in [Gens -> Handles]
        /\ \A h \in Gens : h # 1 => handles'[h] = handles[h]
    BY <1>0, <2>3, <2>6, AskedIs
  <2> QED
    BY <1>1, <2>3, <2>4, <2>5, <2>7
    DEF SourceInv, Typed, FreshAbove, InHands, Holds, OpeningInv, LoopInv, ClosingInv
<1> QED BY <1>2, <1>4, <1>5 DEF OpenLooked

LEMMA OpenSubscribedStep ==
  ASSUME IInv, OpenSubscribed
  PROVE  SourceInv(source', handles')
<1> DEFINE g == source.generation
<1>0. /\ source \in Sources /\ source.opening \in Openings /\ handles \in [Gens -> Handles]
      /\ source.opening.at = "subscribe"
  BY DEF IInv, SourceInv, Typed, Sources, OpenSubscribed
<1>1. /\ g \in Gens /\ source.native = 0 /\ source.loop.at = "idle" /\ source.closing = "no"
      /\ FreshAbove(source, handles) /\ \A h \in Gens : Holds(handles, h) => h = g
  BY <1>0 DEF IInv, SourceInv, InHands, OpeningInv, LoopInv, ClosingInv
<1> HIDE DEF g
<1>2. CASE handles' = Released(g) /\ source' = OpenThrows(source)
  <2>2. /\ handles' \in [Gens -> Handles] /\ handles'[g].state = "released"
        /\ \A h \in Gens : h # g => handles'[h] = handles[h]
    BY <1>0, <1>1, <1>2, ReleasedIs
  <2>3. FreshAbove(source, handles') /\ NativeOnly(source, handles') /\ Typed(source, handles')
    BY <1>0, <1>1, <2>2 DEF FreshAbove, NativeOnly, Typed, Holds, g
  <2> QED BY <1>1, <1>2, <2>3, OpenThrowsInv
<1>3. CASE /\ handles' = handles
           /\ LET s == Request([source EXCEPT !.opening.at = "checking", !.native = g, !.active = g], FALSE)
              IN  source' = IF s.failed THEN OpenEnds(s) ELSE s
  <2> DEFINE opening == [source.opening EXCEPT !.at = "checking"]
             t == [source EXCEPT !.opening.at = "checking", !.native = g, !.active = g]
  <2>1. opening \in Openings /\ opening.at = "checking"
    BY <1>0 DEF Openings
  <2>2. t = [source EXCEPT !.opening = opening, !.native = g, !.active = g]
    OBVIOUS
  <2> HIDE DEF opening, t
  <2>3. /\ t \in Sources /\ t.native = g /\ t.generation = g /\ t.loop.at = "idle" /\ t.opening.at = "checking"
        /\ t.closing = "no" /\ t.failed = source.failed
    <3>1. g \in 0..MaxGens /\ g = source.generation
      BY <1>1 DEF g
    <3> QED BY <1>0, <1>1, <2>1, <2>2, <3>1 DEF Sources
  <2>4. SourceInv(t, handles) /\ Resting(t, handles)
    BY <1>0, <1>1, <2>3
    DEF SourceInv, Resting, Typed, FreshAbove, NativeOnly, InHands, OpeningInv, LoopInv, ClosingInv, g
  <2>5. source' = IF Request(t, FALSE).failed THEN OpenEnds(Request(t, FALSE)) ELSE Request(t, FALSE)
    BY <1>3 DEF t
  <2>6. CASE t.failed
    <3>1. Request(t, FALSE) = t
      BY <2>6 DEF Request
    <3> QED BY <1>3, <2>3, <2>4, <2>5, <2>6, <3>1, OpenEndsInv
  <2>7. CASE ~t.failed
    <3>1. ~Request(t, FALSE).failed
      <4> DEFINE u == [t EXCEPT !.requested = TRUE, !.rootEvent = @ \/ FALSE]
      <4>1. u.opening = t.opening /\ u.loop = t.loop /\ u.requested = TRUE /\ u.closing = "no" /\ u.failed = t.failed
        BY <2>3 DEF Sources
      <4>2. u \in Sources
        BY <2>3 DEF Sources
      <4>3. Request(t, FALSE) = Continue(u)
        BY <2>3, <2>7, <4>1 DEF Request, Closed
      <4> HIDE DEF u
      <4>4. Continue(u).failed = u.failed
        BY <2>7, <4>1, <4>2 DEF Continue, Closed, Sources
      <4> QED BY <2>7, <4>1, <4>3, <4>4
    <3>2. SourceInv(Request(t, FALSE), handles)
      BY <2>4, RequestInv
    <3> QED BY <1>3, <2>5, <3>1, <3>2
  <2> QED BY <2>6, <2>7
<1> QED BY <1>2, <1>3 DEF OpenSubscribed, g

-----------------------------------------------------------------------------
(* The reconcile loop                                                       *)

\* What holds while a pass is under way, and when it has ended.
LEMMA PassUnderWay ==
  ASSUME IInv, source.loop.at # "idle"
  PROVE  /\ source \in Sources /\ handles \in [Gens -> Handles] /\ FreshAbove(source, handles)
         /\ source.native \in 0..MaxGens /\ source.generation \in 0..MaxGens
         /\ source.loop \in Coroutine({"idle", "look", "unsubscribe", "lookAgain", "subscribe", "lookAfter"})
         /\ source.opening.at \in {"checking", "done"} /\ source.closing # "done"
         /\ source.closing # "no" => ~source.parent /\ source.opening.at = "done"
BY DEF IInv, SourceInv, Typed, Sources, OpeningInv, LoopInv, ClosingInv

LEMMA PassEnds ==
  ASSUME IInv, source.loop.at # "idle", NEW n \in 0..MaxGens, NEW a \in 0..MaxGens, NEW i \in 0..MaxDirs,
         NEW s, s = [source EXCEPT !.native = n, !.active = a, !.identity = i],
         NEW hs \in [Gens -> Handles], n <= source.generation,
         FreshAbove(source, hs), \A g \in Gens : Holds(hs, g) => g = n
  PROVE  Resting(s, hs)
<1>1. source \in Sources
  BY PassUnderWay
<1>2. /\ s \in Sources /\ s.native = n /\ s.generation = source.generation /\ s.opening = source.opening
      /\ s.closing = source.closing /\ s.parent = source.parent
  BY <1>1 DEF Sources
<1> QED BY <1>2, PassUnderWay DEF Resting, Typed, FreshAbove, NativeOnly

LEMMA LoopLookedStep ==
  ASSUME IInv, LoopLooked
  PROVE  SourceInv(source', handles')
<1>0. source.loop.at = "look" /\ source.loop.seen # Unread /\ handles' = handles
  BY DEF LoopLooked, Reconciles
<1>1. Resting(source, handles)
  <2>1. NativeOnly(source, handles)
    BY <1>0, PassUnderWay DEF IInv, SourceInv, InHands, NativeOnly
  <2> QED BY <1>0, <2>1, PassUnderWay DEF Resting, Typed
<1>2. CASE source' = LoopThrows(source)
  BY <1>0, <1>1, <1>2, LoopThrowsInv
<1>3. CASE source' = Continue(source)
  BY <1>0, <1>1, <1>3, ContinueInv
<1>4. CASE source' = [source EXCEPT !.native = None, !.active = None, !.loop.old = source.native, !.loop.seen = Unread,
                        !.loop.at = IF source.native = None THEN "lookAgain" ELSE "unsubscribe"]
  <2> DEFINE at == IF source.native = None THEN "lookAgain" ELSE "unsubscribe"
             loop == [source.loop EXCEPT !.old = source.native, !.seen = Unread, !.at = at]
  <2>1. source' = [source EXCEPT !.native = 0, !.active = 0, !.loop = loop]
    BY <1>4
  <2>2. source.native \in 0..MaxGens /\ Unread \in 0..Unread /\ 0 \in 0..MaxGens
    BY <1>1 DEF Resting, Typed, Sources, Unread
  <2>3. /\ loop \in Coroutine({"idle", "look", "unsubscribe", "lookAgain", "subscribe", "lookAfter"})
        /\ loop.at = at /\ loop.old = source.native
    BY <1>0, <2>2, PassUnderWay DEF Coroutine
  <2> HIDE DEF loop
  <2>4. /\ source' \in Sources /\ source'.native = 0 /\ source'.generation = source.generation
        /\ source'.loop = loop /\ source'.opening = source.opening /\ source'.closing = source.closing
        /\ source'.parent = source.parent
    BY <1>0, <2>1, <2>2, <2>3, PassUnderWay DEF Sources
  <2> QED
    BY <1>0, <1>1, <2>2, <2>3, <2>4, PassUnderWay
    DEF Resting, SourceInv, Typed, FreshAbove, NativeOnly, InHands, OpeningInv, LoopInv, ClosingInv
<1> QED BY <1>2, <1>3, <1>4 DEF LoopLooked

LEMMA LoopUnsubscribedStep ==
  ASSUME IInv, LoopUnsubscribed
  PROVE  SourceInv(source', handles')
<1> DEFINE old == source.loop.old
<1>0. source.loop.at = "unsubscribe" /\ handles' = Released(old)
  BY DEF LoopUnsubscribed, Reconciles
<1>1. /\ old \in Gens /\ old <= source.generation /\ source.native = 0
      /\ \A g \in Gens : Holds(handles, g) => g = old
  BY <1>0, PassUnderWay DEF IInv, SourceInv, InHands, LoopInv
<1> HIDE DEF old
<1>2. /\ handles' \in [Gens -> Handles] /\ handles'[old].state = "released"
      /\ \A h \in Gens : h # old => handles'[h] = handles[h]
  BY <1>0, <1>1, PassUnderWay, ReleasedIs
<1>3. FreshAbove(source, handles') /\ \A g \in Gens : ~Holds(handles', g)
  <2>1. ~Holds(handles', old)
    BY <1>2 DEF Holds
  <2>2. \A g \in Gens : g # old => ~Holds(handles', g)
    BY <1>1, <1>2 DEF Holds
  <2>3. FreshAbove(source, handles')
    BY <1>0, <1>1, <1>2, PassUnderWay DEF FreshAbove, Sources
  <2> QED BY <2>1, <2>2, <2>3
<1>4. Resting(source, handles')
  BY <1>0, <1>2, <1>3, PassUnderWay DEF Resting, Typed, NativeOnly
<1>5. CASE source' = LoopThrows(source)
  BY <1>4, <1>5, LoopThrowsInv
<1>6. CASE source' = Continue(source)
  BY <1>4, <1>6, ContinueInv
<1>7. CASE source' = [source EXCEPT !.loop.at = "lookAgain", !.loop.old = None]
  <2> DEFINE loop == [source.loop EXCEPT !.at = "lookAgain", !.old = 0]
  <2>1. source' = [source EXCEPT !.loop = loop]
    BY <1>7
  <2>2. 0 \in 0..MaxGens
    OBVIOUS
  <2>3. /\ loop \in Coroutine({"idle", "look", "unsubscribe", "lookAgain", "subscribe", "lookAfter"})
        /\ loop.at = "lookAgain"
    BY <1>0, <2>2, PassUnderWay DEF Coroutine
  <2> HIDE DEF loop
  <2>4. /\ source' \in Sources /\ source'.native = 0 /\ source'.generation = source.generation
        /\ source'.loop = loop /\ source'.opening = source.opening /\ source'.closing = source.closing
        /\ source'.parent = source.parent
    BY <1>0, <1>1, <2>1, <2>3, PassUnderWay DEF Sources
  <2> QED
    BY <1>0, <1>2, <1>3, <1>4, <2>3, <2>4, PassUnderWay
    DEF Resting, SourceInv, Typed, FreshAbove, InHands, OpeningInv, LoopInv, ClosingInv
<1> QED BY <1>5, <1>6, <1>7 DEF LoopUnsubscribed

LEMMA LoopLookedAgainStep ==
  ASSUME IInv, LoopLookedAgain
  PROVE  SourceInv(source', handles')
<1> DEFINE next == source.generation + 1
           seen == source.loop.seen
<1>0. /\ source.loop.at = "lookAgain" /\ seen # Unread
      /\ source.native = 0 /\ \A g \in Gens : ~Holds(handles, g)
  BY PassUnderWay DEF LoopLookedAgain, Reconciles, IInv, SourceInv, InHands, LoopInv
<1>1. Resting(source, handles)
  BY <1>0, PassUnderWay DEF Resting, Typed, NativeOnly
<1>2. CASE handles' = handles /\ source' = LoopThrows(source)
  BY <1>1, <1>2, LoopThrowsInv
<1>3. CASE handles' = handles /\ source' = Continue(source)
  BY <1>1, <1>3, ContinueInv
<1>4. CASE handles' = handles /\ source' = Reconciled(source, Absent)
  <2> DEFINE s == [source EXCEPT !.identity = 0]
  <2>1. s \in Sources /\ s.native = source.native /\ s.generation = source.generation
        /\ s.opening = source.opening /\ s.closing = source.closing /\ s.parent = source.parent
    BY <1>0, PassUnderWay DEF Sources
  <2>2. source' = Continue(s)
    BY <1>4 DEF Reconciled
  <2> HIDE DEF s
  <2>3. Resting(s, handles)
    BY <1>1, <2>1 DEF Resting, Typed, FreshAbove, NativeOnly
  <2> QED BY <1>4, <2>2, <2>3, ContinueInv
<1>5. CASE /\ seen \notin {Absent, Failed} /\ next \in Gens /\ handles' = Asked(next)
           /\ source' = [source EXCEPT !.generation = next, !.loop.at = "subscribe"]
  <2> DEFINE loop == [source.loop EXCEPT !.at = "subscribe"]
  <2>1. source' = [source EXCEPT !.generation = next, !.loop = loop]
    BY <1>5
  <2>2. seen \in 1..MaxDirs
    <3>1. seen \in 0..Unread
      BY <1>0, PassUnderWay DEF Coroutine
    <3> QED BY <3>1, <1>0, <1>5 DEF Unread, Failed
  <2>3. /\ loop \in Coroutine({"idle", "look", "unsubscribe", "lookAgain", "subscribe", "lookAfter"})
        /\ loop.at = "subscribe" /\ loop.seen = seen
    BY <1>0, PassUnderWay DEF Coroutine
  <2> HIDE DEF loop, seen
  <2>4. next \in 0..MaxGens
    BY <1>5
  <2> HIDE DEF next
  <2>5. /\ source' \in Sources /\ source'.native = 0 /\ source'.generation = next
        /\ source'.loop = loop /\ source'.opening = source.opening /\ source'.closing = source.closing
        /\ source'.parent = source.parent
    BY <1>0, <2>1, <2>3, <2>4, PassUnderWay DEF Sources
  <2>6. /\ handles' \in [Gens -> Handles]
        /\ \A h \in Gens : h # next => handles'[h] = handles[h]
    BY <1>0, <1>5, PassUnderWay, AskedIs
  <2>7. \A g \in Gens : Holds(handles', g) => g = next
    BY <1>0, <2>6 DEF Holds
  <2>8. FreshAbove(source', handles')
    BY <1>0, <2>5, <2>6, PassUnderWay DEF FreshAbove, next
  <2>9. InHands(source', handles')
    BY <2>3, <2>5, <2>7 DEF InHands
  <2> QED
    BY <1>0, <1>5, <2>2, <2>3, <2>5, <2>6, <2>8, <2>9, PassUnderWay
    DEF SourceInv, Typed, OpeningInv, LoopInv, ClosingInv
<1> QED BY <1>2, <1>3, <1>4, <1>5 DEF LoopLookedAgain

LEMMA LoopSubscribedStep ==
  ASSUME IInv, LoopSubscribed
  PROVE  SourceInv(source', handles')
<1> DEFINE g == source.generation
           seen == source.loop.seen
<1>0. /\ source.loop.at = "subscribe" /\ source.native = 0 /\ g \in Gens /\ seen \in 1..MaxDirs
      /\ \A h \in Gens : Holds(handles, h) => h = g
  BY PassUnderWay DEF LoopSubscribed, Reconciles, IInv, SourceInv, InHands, LoopInv
<1> HIDE DEF seen
<1>1. /\ Released(g) \in [Gens -> Handles] /\ FreshAbove(source, Released(g))
      /\ \A h \in Gens : ~Holds(Released(g), h)
  <2>1. /\ Released(g) \in [Gens -> Handles] /\ Released(g)[g].state = "released"
        /\ \A h \in Gens : h # g => Released(g)[h] = handles[h]
    BY <1>0, PassUnderWay, ReleasedIs
  <2>2. FreshAbove(source, Released(g))
    BY <1>0, <2>1, PassUnderWay DEF FreshAbove
  <2> QED BY <1>0, <2>1, <2>2 DEF Holds
<1>2. CASE /\ handles' = handles
           /\ source' = Reconciled([source EXCEPT !.native = g, !.active = g], seen)
  <2> DEFINE s == [source EXCEPT !.native = g, !.active = g, !.identity = seen]
  <2>1. source' = Continue(s)
    BY <1>2 DEF Reconciled
  <2>2. g \in 0..MaxGens /\ seen \in 0..MaxDirs /\ g <= source.generation
    BY <1>0
  <2>3. Resting(s, handles)
    BY <1>0, <2>2, PassUnderWay, PassEnds
  <2> QED BY <1>2, <2>1, <2>3, ContinueInv
<1>3. CASE handles' = Released(g) /\ source' = Continue([source EXCEPT !.active = g])
  <2> DEFINE s == [source EXCEPT !.active = g]
  <2>1. g \in 0..MaxGens
    BY <1>0
  <2>2. s \in Sources /\ s.native = 0 /\ s.generation = source.generation
        /\ s.opening = source.opening /\ s.closing = source.closing /\ s.parent = source.parent
    BY <1>0, <2>1, PassUnderWay DEF Sources
  <2> HIDE DEF s
  <2>3. Resting(s, handles')
    BY <1>0, <1>1, <1>3, <2>2, PassUnderWay DEF Resting, Typed, FreshAbove, NativeOnly
  <2> QED BY <1>3, <2>3, ContinueInv DEF s
<1>4. CASE /\ handles' = Released(g)
           /\ \/ source' = [source EXCEPT !.loop.at = "lookAfter", !.loop.seen = Unread]
              \/ source' = [source EXCEPT !.active = g, !.loop.at = "lookAfter", !.loop.seen = Unread]
  <2> DEFINE loop == [source.loop EXCEPT !.at = "lookAfter", !.seen = Unread]
  <2>0. g \in 0..MaxGens /\ source.active \in 0..MaxGens
    BY <1>0, PassUnderWay DEF Sources
  <2>1. PICK active \in 0..MaxGens : source' = [source EXCEPT !.loop = loop, !.active = active]
    <3>1. CASE source' = [source EXCEPT !.loop.at = "lookAfter", !.loop.seen = Unread]
      <4>1. source' = [source EXCEPT !.loop = loop, !.active = source.active]
        BY <3>1, PassUnderWay DEF Sources
      <4> QED BY <2>0, <4>1
    <3>2. CASE source' = [source EXCEPT !.active = g, !.loop.at = "lookAfter", !.loop.seen = Unread]
      <4>1. source' = [source EXCEPT !.loop = loop, !.active = g]
        BY <3>2, PassUnderWay DEF Sources
      <4> QED BY <2>0, <4>1
    <3> QED BY <1>4, <3>1, <3>2
  <2>2. Unread \in 0..Unread
    BY DEF Unread
  <2>3. /\ loop \in Coroutine({"idle", "look", "unsubscribe", "lookAgain", "subscribe", "lookAfter"})
        /\ loop.at = "lookAfter"
    BY <1>0, <2>2, PassUnderWay DEF Coroutine
  <2> HIDE DEF loop
  <2>4. /\ source' \in Sources /\ source'.native = 0 /\ source'.generation = source.generation
        /\ source'.loop = loop /\ source'.opening = source.opening /\ source'.closing = source.closing
        /\ source'.parent = source.parent
    BY <1>0, <2>1, <2>3, PassUnderWay DEF Sources
  <2> QED
    BY <1>0, <1>1, <1>4, <2>3, <2>4, PassUnderWay
    DEF SourceInv, Typed, FreshAbove, InHands, OpeningInv, LoopInv, ClosingInv
<1> QED BY <1>2, <1>3, <1>4 DEF LoopSubscribed, seen

LEMMA LoopLookedAfterStep ==
  ASSUME IInv, LoopLookedAfter
  PROVE  SourceInv(source', handles')
<1>0. /\ source.loop.at = "lookAfter" /\ handles' = handles
      /\ source.native = 0 /\ \A g \in Gens : ~Holds(handles, g)
  BY PassUnderWay DEF LoopLookedAfter, Reconciles, IInv, SourceInv, InHands, LoopInv
<1>1. Resting(source, handles)
  BY <1>0, PassUnderWay DEF Resting, Typed, NativeOnly
<1>2. CASE source' = LoopThrows(source)
  BY <1>0, <1>1, <1>2, LoopThrowsInv
<1>3. CASE source' = Reconciled(source, Absent)
  <2> DEFINE s == [source EXCEPT !.identity = 0]
  <2>1. s \in Sources /\ s.native = source.native /\ s.generation = source.generation
        /\ s.opening = source.opening /\ s.closing = source.closing /\ s.parent = source.parent
    <3>1. source \in Sources /\ 0 \in 0..MaxDirs
      BY <1>1 DEF Resting, Typed
    <3> QED BY <3>1 DEF Sources
  <2>2. source' = Continue(s)
    BY <1>3 DEF Reconciled
  <2> HIDE DEF s
  <2>3. Resting(s, handles)
    BY <1>1, <2>1 DEF Resting, Typed, FreshAbove, NativeOnly
  <2> QED BY <1>0, <2>2, <2>3, ContinueInv
<1> QED BY <1>2, <1>3 DEF LoopLookedAfter

-----------------------------------------------------------------------------
(* Callbacks and close()                                                    *)

LEMMA CallbackStep ==
  ASSUME IInv, ParentEvent \/ ParentFails \/ RootEvent
  PROVE  SourceInv(source', handles')
<1>1. SourceInv(source, handles)
  BY DEF IInv
<1>2. /\ handles' = handles
      /\ source' = Request(source, TRUE) \/ source' = Fail(source)
  BY DEF ParentEvent, ParentFails, RootEvent
<1>3. CASE source' = Request(source, TRUE)
  BY <1>1, <1>2, <1>3, RequestInv
<1>4. CASE source' = Fail(source)
  BY <1>1, <1>2, <1>4, FailInv
<1> QED BY <1>2, <1>3, <1>4

LEMMA NativeErrorStep ==
  ASSUME IInv, NativeError
  PROVE  SourceInv(source', handles')
<1>1. source \in Sources /\ source.check \in Coroutine({"idle", "look"})
  BY DEF IInv, SourceInv, Typed, Sources
<1> DEFINE check == [source.check EXCEPT !.at = "look"]
<1>2. check \in Coroutine({"idle", "look"})
  BY <1>1 DEF Coroutine
<1>3. source' = [source EXCEPT !.check = check] /\ handles' = handles
  BY DEF NativeError
<1> HIDE DEF check
<1>4. source' \in Sources
  BY <1>1, <1>2, <1>3 DEF Sources
<1>5. Alike(source, source')
  BY <1>1, <1>3 DEF Sources, Alike
<1> QED BY <1>3, <1>4, <1>5, AlikeInv DEF IInv

LEMMA ErrorCheckedStep ==
  ASSUME IInv, ErrorChecked
  PROVE  SourceInv(source', handles')
<1> DEFINE s == [source EXCEPT !.check = Idle]
<1>1. source \in Sources
  BY DEF IInv, SourceInv, Typed
<1>2. s \in Sources
  BY <1>1, IdleType DEF Sources
<1>3. Alike(source, s)
  BY <1>1 DEF Sources, Alike
<1>4. /\ handles' = handles
      /\ source' = Request(s, FALSE) \/ source' = Fail(s)
  BY DEF ErrorChecked
<1> HIDE DEF s
<1>5. SourceInv(s, handles)
  BY <1>2, <1>3, AlikeInv DEF IInv
<1>6. CASE source' = Request(s, FALSE)
  BY <1>4, <1>5, <1>6, RequestInv
<1>7. CASE source' = Fail(s)
  BY <1>4, <1>5, <1>7, FailInv
<1> QED BY <1>4, <1>6, <1>7

LEMMA CloseStep ==
  ASSUME IInv, Close
  PROVE  SourceInv(source', handles')
<1>1. /\ source \in Sources /\ source.opening.at = "done" /\ handles' = handles
      /\ source' = [source EXCEPT !.closing = "waiting", !.active = None, !.parent = FALSE]
  BY DEF IInv, SourceInv, Typed, Close, CloseBegins
<1> DEFINE u == [source EXCEPT !.closing = "waiting", !.active = None]
<1>2. u \in Sources
  <2>1. 0 \in 0..MaxGens
    OBVIOUS
  <2> QED BY <1>1, <2>1 DEF Sources
<1>3. source' = [u EXCEPT !.parent = FALSE]
  BY <1>1
<1> HIDE DEF u
<1>4. source' \in Sources
  BY <1>2, <1>3 DEF Sources
<1>5. /\ source'.native = source.native /\ source'.generation = source.generation
      /\ source'.opening = source.opening /\ source'.loop = source.loop
      /\ source'.closing = "waiting" /\ source'.parent = FALSE
  BY <1>1 DEF Sources
<1> QED
  BY <1>1, <1>4, <1>5
  DEF IInv, SourceInv, Typed, FreshAbove, InHands, OpeningInv, LoopInv, ClosingInv

LEMMA CloseDrainsStep ==
  ASSUME IInv, CloseDrains
  PROVE  SourceInv(source', handles')
<1>0. /\ source \in Sources /\ source.closing = "waiting" /\ source.loop.at = "idle"
      /\ handles \in [Gens -> Handles] /\ FreshAbove(source, handles)
      /\ source.native \in 0..MaxGens /\ source.generation \in 0..MaxGens
      /\ ~source.parent /\ source.opening.at \in {"done", "threw"}
      /\ \A g \in Gens : Holds(handles, g) => g = source.native
  BY DEF IInv, SourceInv, Typed, Sources, InHands, ClosingInv, CloseDrains
<1>1. source' = [source EXCEPT !.native = 0, !.closing = "done"]
  BY DEF CloseDrains
<1>2. /\ source' \in Sources /\ source'.native = 0 /\ source'.generation = source.generation
      /\ source'.opening = source.opening /\ source'.loop = source.loop
      /\ source'.closing = "done" /\ source'.parent = source.parent
  <2>1. 0 \in 0..MaxGens
    OBVIOUS
  <2> QED BY <1>0, <1>1, <2>1 DEF Sources
<1>3. /\ handles' \in [Gens -> Handles] /\ FreshAbove(source', handles')
      /\ \A g \in Gens : ~Holds(handles', g)
  <2>1. CASE source.native = 0
    <3>1. handles' = handles
      BY <2>1 DEF CloseDrains
    <3> QED BY <1>0, <1>2, <2>1, <3>1 DEF FreshAbove
  <2>2. CASE source.native # 0
    <3>1. handles' = Released(source.native) /\ source.native \in Gens
      BY <1>0, <2>2 DEF CloseDrains
    <3>2. /\ handles' \in [Gens -> Handles] /\ handles'[source.native].state = "released"
          /\ \A h \in Gens : h # source.native => handles'[h] = handles[h]
      BY <1>0, <3>1, ReleasedIs
    <3>3. FreshAbove(source', handles')
      BY <1>0, <1>2, <3>1, <3>2 DEF FreshAbove
    <3> QED BY <1>0, <3>2, <3>3 DEF Holds
  <2> QED BY <2>1, <2>2
<1> QED
  BY <1>0, <1>2, <1>3 DEF SourceInv, Typed, InHands, OpeningInv, LoopInv, ClosingInv

-----------------------------------------------------------------------------
LEMMA SurroundingsStep == IInv /\ Next => Surroundings'
<1> SUFFICES ASSUME IInv, Next PROVE Surroundings'
  OBVIOUS
<1>1. root \in 0..MaxDirs /\ dirs \in 1..MaxDirs /\ events \in 0..MaxEvents /\ due \in BOOLEAN
  BY DEF IInv, Surroundings
<1>2. CASE Replace
  <2>1. dirs' = dirs + 1 /\ root' = dirs + 1 /\ dirs < MaxDirs /\ events' = events
    BY <1>2 DEF Replace, Becomes
  <2>2. due' \in BOOLEAN
    BY <1>2 DEF Replace, Becomes
  <2>3. root' \in 0..MaxDirs /\ dirs' \in 1..MaxDirs
    BY <1>1, <2>1
  <2> QED BY <1>1, <2>1, <2>2, <2>3 DEF Surroundings
<1>3. CASE Remove
  <2>1. dirs' = dirs /\ root' = 0 /\ events' = events
    BY <1>3 DEF Remove, Becomes
  <2>2. due' \in BOOLEAN
    BY <1>3 DEF Remove, Becomes
  <2>3. root' \in 0..MaxDirs
    BY <2>1
  <2> QED BY <1>1, <2>1, <2>2, <2>3 DEF Surroundings
<1>4. CASE RootEvent
  <2>1. dirs' = dirs /\ root' = root /\ events' = events + 1 /\ events < MaxEvents /\ due' = due
    BY <1>4 DEF RootEvent
  <2>2. events' \in 0..MaxEvents
    BY <1>1, <2>1
  <2> QED BY <1>1, <2>1, <2>2 DEF Surroundings
<1>5. CASE ParentEvent
  <2>1. dirs' = dirs /\ root' = root /\ events' = events /\ due' = FALSE
    BY <1>5 DEF ParentEvent
  <2> QED BY <1>1, <2>1 DEF Surroundings
<1>6. CASE Work
  <2>1. UNCHANGED <<root, dirs, events, due>>
    BY <1>6 DEF Work, NativeAnswers, OpeningLooks, LoopLooks, CheckLooks, OpenLooked, OpenSubscribed,
         LoopLooked, LoopUnsubscribed, LoopLookedAgain, LoopSubscribed, LoopLookedAfter, ErrorChecked, CloseDrains
  <2> QED BY <1>1, <2>1 DEF Surroundings
<1>7. CASE ParentFails \/ NativeError \/ Close
  <2>1. UNCHANGED <<root, dirs, events, due>>
    BY <1>7 DEF ParentFails, NativeError, Close
  <2> QED BY <1>1, <2>1 DEF Surroundings
<1> QED BY <1>2, <1>3, <1>4, <1>5, <1>6, <1>7 DEF Next

LEMMA NextInv == IInv /\ [Next]_vars => IInv'
<1> SUFFICES ASSUME IInv, [Next]_vars PROVE IInv'
  OBVIOUS
<1>1. CASE Next
  <2>1. Surroundings'
    BY <1>1, SurroundingsStep
  <2>2. CASE Replace \/ Remove
    <3>1. source' = source /\ handles' = handles
      BY <2>2 DEF Replace, Remove, Becomes
    <3> QED BY <2>1, <3>1 DEF IInv
  <2>3. ASSUME NEW g \in Gens, NativeAnswers(g) PROVE IInv'
    BY <2>3, AnswersStep
  <2>4. CASE OpeningLooks \/ LoopLooks \/ CheckLooks
    BY <2>1, <2>4, LooksStep DEF IInv
  <2>5. CASE OpenLooked
    BY <2>1, <2>5, OpenLookedStep DEF IInv
  <2>6. CASE OpenSubscribed
    BY <2>1, <2>6, OpenSubscribedStep DEF IInv
  <2>7. CASE LoopLooked
    BY <2>1, <2>7, LoopLookedStep DEF IInv
  <2>8. CASE LoopUnsubscribed
    BY <2>1, <2>8, LoopUnsubscribedStep DEF IInv
  <2>9. CASE LoopLookedAgain
    BY <2>1, <2>9, LoopLookedAgainStep DEF IInv
  <2>10. CASE LoopSubscribed
    BY <2>1, <2>10, LoopSubscribedStep DEF IInv
  <2>11. CASE LoopLookedAfter
    BY <2>1, <2>11, LoopLookedAfterStep DEF IInv
  <2>12. CASE ErrorChecked
    BY <2>1, <2>12, ErrorCheckedStep DEF IInv
  <2>13. CASE CloseDrains
    BY <2>1, <2>13, CloseDrainsStep DEF IInv
  <2>14. CASE ParentEvent \/ ParentFails \/ RootEvent
    BY <2>1, <2>14, CallbackStep DEF IInv
  <2>15. CASE NativeError
    BY <2>1, <2>15, NativeErrorStep DEF IInv
  <2>16. CASE Close
    BY <2>1, <2>16, CloseStep DEF IInv
  <2> QED
    BY <1>1, <2>2, <2>3, <2>4, <2>5, <2>6, <2>7, <2>8, <2>9, <2>10, <2>11, <2>12, <2>13, <2>14, <2>15, <2>16
    DEF Next, Work
<1>2. CASE UNCHANGED vars
  <2>1. /\ source' = source /\ handles' = handles
        /\ root' = root /\ dirs' = dirs /\ events' = events /\ due' = due
    BY <1>2 DEF vars
  <2> QED BY <2>1 DEF IInv, Surroundings
<1> QED BY <1>1, <1>2

LEMMA InvHolds == Spec => []IInv
BY InitInv, NextInv, PTL DEF Spec

\* The state of the source and of its subscriptions keeps its type, for any
\* number of directories and subscriptions (parcel-watch-source.ts:39-63).
THEOREM SourceTypes == Spec => []TypeOK
<1>1. IInv => TypeOK
  BY DEF IInv, Surroundings, SourceInv, Typed, TypeOK
<1> QED BY <1>1, InvHolds, PTL

\* The source never has two native subscriptions, each is in a place from which
\* it will be released, and none is left when close() resolves, whatever
\* happened to the root and at whichever await (parcel-watch-source.ts:101-113).
THEOREM NoHandleLeft == Spec => []HandlesReleased
<1>1. IInv => HandlesReleased
  <2> SUFFICES ASSUME IInv PROVE HandlesReleased
    OBVIOUS
  <2>1. \A g \in Gens : Held(g) <=> Holds(handles, g)
    BY DEF Held, Holds
  <2>2. InHands(source, handles) /\ OpeningInv(source) /\ LoopInv(source) /\ ClosingInv(source)
    BY DEF IInv, SourceInv
  <2>3. \A g \in Gens : Held(g) =>
           \/ g = source.native
           \/ g = source.generation /\ "subscribe" \in {source.opening.at, source.loop.at}
           \/ g = source.loop.old /\ source.loop.at = "unsubscribe"
    BY <2>1, <2>2 DEF InHands
  <2>4. \A g, h \in Gens : Held(g) /\ Held(h) => g = h
    BY <2>2, <2>3 DEF OpeningInv, LoopInv
  <2>5. source.closing = "done" =>
          source.loop.at = "idle" /\ ~source.parent /\ \A g \in Gens : ~Held(g)
    BY <2>2, <2>3 DEF ClosingInv
  <2> QED BY <2>3, <2>4, <2>5 DEF HandlesReleased
<1> QED BY <1>1, InvHolds, PTL
=============================================================================
