---------------------------- MODULE ParcelWatchSource ----------------------------
(***************************************************************************)
(* The native source behind the pool (pi/parcel-watch-source.ts): one      *)
(* recursive subscription that must follow its root while the root is      *)
(* removed, created and replaced, told by a watch of the parent directory. *)
(*                                                                         *)
(* A directory is the number of its creation, its identity; Absent is a    *)
(* path without one. Each stat is two steps: the moment at which it looks, *)
(* and the continuation that uses what it saw.                             *)
(***************************************************************************)
EXTENDS Naturals

CONSTANTS
  MaxDirs,      \* directories that are ever at the path
  MaxGens,      \* native subscriptions the source may ask for
  MaxEvents     \* events that may concern the root and need not

ASSUME SourceAssumption == MaxDirs \in Nat \ {0} /\ MaxGens \in Nat \ {0} /\ MaxEvents \in Nat

Absent == 0
None == 0       \* no subscription
Failed == MaxDirs + 1       \* what a stat that fails gives
Unread == MaxDirs + 2       \* the stat has not looked yet
Gens == 1..MaxGens

VARIABLES
  root,         \* the directory at the path
  dirs,         \* history: directories created so far
  events,       \* history: such events so far
  handles,      \* the native subscriptions by generation, as the addon has them
  due,          \* the parent has seen a change of the root and not yet called back
  source        \* the fields of ParcelWatchSource and where its coroutines are

vars == <<root, dirs, events, handles, due, source>>

Idle == [at |-> "idle", seen |-> Unread, rootEvent |-> FALSE, old |-> None]

Init ==
  /\ root = 1 /\ dirs = 1 /\ events = 0
  /\ handles = [g \in Gens |-> [state |-> "none", dir |-> Absent]]
  /\ due = FALSE
  /\ source = [identity |-> Absent, native |-> None, generation |-> 0, active |-> None,
               parent |-> FALSE, opening |-> [at |-> "look", seen |-> Unread],
               loop |-> Idle, requested |-> FALSE, rootEvent |-> FALSE,
               check |-> Idle, failed |-> FALSE, closing |-> "no"]

-----------------------------------------------------------------------------
(* The file system and the native addon.                                    *)

Becomes(d) ==
  /\ root' = d
  /\ due' = (due \/ source.parent)
  /\ UNCHANGED <<events, handles, source>>

(* A directory is created at the path, or another one is moved over it.     *)
Replace == dirs < MaxDirs /\ dirs' = dirs + 1 /\ Becomes(dirs + 1)

Remove == root # Absent /\ Becomes(Absent) /\ UNCHANGED dirs

(* A subscription that was asked for is attached to what is at the path, is *)
(* attached and reports an error before it says so, or is refused.          *)
NativeAnswers(g) ==
  /\ handles[g].state = "asked"
  /\ \E state \in IF root = Absent THEN {"refused"} ELSE {"open", "erring", "refused"} :
       handles' = [handles EXCEPT ![g] = [state |-> state, dir |-> root]]
  /\ UNCHANGED <<root, dirs, events, due, source>>

(* A stat looks, for one of the three coroutines that may have asked.       *)
AwaitsStat(coroutine) == coroutine.at \in {"look", "lookAgain", "lookAfter"} /\ coroutine.seen = Unread

OpeningLooks ==
  /\ AwaitsStat(source.opening)
  /\ \E seen \in {root, Failed} : source' = [source EXCEPT !.opening.seen = seen]
  /\ UNCHANGED <<root, dirs, events, handles, due>>

LoopLooks ==
  /\ AwaitsStat(source.loop)
  /\ \E seen \in {root, Failed} : source' = [source EXCEPT !.loop.seen = seen]
  /\ UNCHANGED <<root, dirs, events, handles, due>>

CheckLooks ==
  /\ AwaitsStat(source.check)
  /\ \E seen \in {root, Failed} : source' = [source EXCEPT !.check.seen = seen]
  /\ UNCHANGED <<root, dirs, events, handles, due>>

Asked(g) == [handles EXCEPT ![g].state = "asked"]
Released(g) == [handles EXCEPT ![g].state = "released"]

-----------------------------------------------------------------------------
(* What a tick does to the fields: functions from their values before to    *)
(* their values after.                                                      *)

Closed(s) == s.closing # "no"

Fail(s) == [s EXCEPT !.failed = @ \/ ~Closed(s)]

CloseBegins(s) == [s EXCEPT !.closing = "waiting", !.active = None, !.parent = FALSE]

(* open() throws: openParcelWatchSource closes what there is.               *)
OpenThrows(s) == CloseBegins([s EXCEPT !.opening = [at |-> "threw", seen |-> Unread]])

(* The first reconciliation is over.                                        *)
OpenEnds(s) ==
  IF s.opening.at # "checking" THEN s
  ELSE IF s.failed THEN OpenThrows(s)
  ELSE [s EXCEPT !.opening.at = "done"]

(* The loop takes the next request, or ends.                                *)
Continue(s) ==
  IF s.requested /\ ~Closed(s) /\ ~s.failed
  THEN [s EXCEPT !.requested = FALSE, !.rootEvent = FALSE,
                 !.loop = [Idle EXCEPT !.at = "look", !.rootEvent = s.rootEvent]]
  ELSE OpenEnds([s EXCEPT !.loop = Idle])

LoopThrows(s) == OpenEnds(Fail([s EXCEPT !.loop = Idle]))

\* Mutant: a request that comes while the loop runs is lost.
RequestDeaf(s, event) ==
  IF Closed(s) \/ s.failed \/ s.loop.at # "idle" THEN s
  ELSE LET asked == [s EXCEPT !.requested = TRUE, !.rootEvent = @ \/ event]
       IN  IF s.opening.at \in {"checking", "done"} THEN Continue(asked) ELSE asked

(* requestReconcile                                                         *)
Request(s, event) ==
  IF Closed(s) \/ s.failed THEN s
  ELSE LET asked == [s EXCEPT !.requested = TRUE, !.rootEvent = @ \/ event]
       IN  IF s.opening.at \in {"checking", "done"} /\ s.loop.at = "idle" THEN Continue(asked) ELSE asked

(* A reconciliation knows what is at the path now. What it reports of that  *)
(* to the pool is left out.                                                 *)
Reconciled(s, current) == Continue([s EXCEPT !.identity = current])

-----------------------------------------------------------------------------
(* open()                                                                   *)

OpenLooked ==
  /\ source.opening.at = "look" /\ source.opening.seen # Unread
  /\ \/ /\ source.opening.seen \in {Absent, Failed}
        /\ source' = OpenThrows(source)
        /\ UNCHANGED handles
     \/ /\ source.opening.seen \notin {Absent, Failed}
        /\ source' = [source EXCEPT !.identity = source.opening.seen, !.parent = TRUE, !.generation = 1,
                                    !.opening = [at |-> "subscribe", seen |-> Unread]]
        /\ handles' = Asked(1)
     \/ /\ source.opening.seen \notin {Absent, Failed}      \* nodeWatch throws
        /\ source' = OpenThrows([source EXCEPT !.identity = source.opening.seen])
        /\ UNCHANGED handles
  /\ UNCHANGED <<root, dirs, events, due>>

OpenSubscribed ==
  LET g == source.generation
  IN  /\ source.opening.at = "subscribe"
      /\ \/ /\ handles[g].state = "open"
            /\ LET s == Request([source EXCEPT !.opening.at = "checking", !.native = g, !.active = g], FALSE)
               IN  source' = IF s.failed THEN OpenEnds(s) ELSE s
            /\ UNCHANGED handles
         \/ /\ handles[g].state \in {"erring", "refused"}
            /\ handles' = Released(g)
            /\ source' = OpenThrows(source)
      /\ UNCHANGED <<root, dirs, events, due>>

-----------------------------------------------------------------------------
(* The reconcile loop, from one await to the next.                          *)

Reconciles(stage) == source.loop.at = stage
Stopped(s) == Closed(s) \/ s.failed

LoopLooked ==
  LET seen == source.loop.seen
      same == seen = source.identity /\ (seen = Absent \/ source.native # None)
  IN  /\ Reconciles("look") /\ seen # Unread
      /\ source' =
           IF seen = Failed THEN LoopThrows(source)
           ELSE IF Stopped(source) \/ same THEN Continue(source)
           ELSE [source EXCEPT !.native = None, !.active = None, !.loop.old = source.native, !.loop.seen = Unread,
                               !.loop.at = IF source.native = None THEN "lookAgain" ELSE "unsubscribe"]
      /\ UNCHANGED <<root, dirs, events, handles, due>>

(* The old subscription is gone, with or without an error.                  *)
LoopUnsubscribed ==
  /\ Reconciles("unsubscribe")
  /\ handles' = Released(source.loop.old)
  /\ \/ source' = LoopThrows(source)
     \/ source' = IF Stopped(source) THEN Continue(source)
                  ELSE [source EXCEPT !.loop.at = "lookAgain", !.loop.old = None]
  /\ UNCHANGED <<root, dirs, events, due>>

LoopLookedAgain ==
  LET seen == source.loop.seen
      next == source.generation + 1
  IN  /\ Reconciles("lookAgain") /\ seen # Unread
      /\ IF seen \in {Absent, Failed} \/ Stopped(source)
         THEN /\ source' = IF seen = Failed THEN LoopThrows(source)
                           ELSE IF Stopped(source) THEN Continue(source)
                           ELSE Reconciled(source, Absent)
              /\ UNCHANGED handles
         ELSE /\ next \in Gens
              /\ source' = [source EXCEPT !.generation = next, !.loop.at = "subscribe"]
              /\ handles' = Asked(next)
      /\ UNCHANGED <<root, dirs, events, due>>

LoopSubscribed ==
  LET g == source.generation
  IN  /\ Reconciles("subscribe")
      /\ \/ /\ handles[g].state = "open" /\ ~Closed(source)
            /\ source' = Reconciled([source EXCEPT !.native = g, !.active = g], source.loop.seen)
            /\ UNCHANGED handles
         \/ /\ handles[g].state = "open" /\ Closed(source)
            /\ handles' = Released(g)
            /\ \/ source' = Continue([source EXCEPT !.active = g])
               \/ source' = [source EXCEPT !.active = g, !.loop.at = "lookAfter", !.loop.seen = Unread]
         \/ /\ handles[g].state \in {"erring", "refused"}
            /\ source' = [source EXCEPT !.loop.at = "lookAfter", !.loop.seen = Unread]
            /\ handles' = Released(g)
      /\ UNCHANGED <<root, dirs, events, due>>

(* The subscription failed: that is final unless the directory is gone.     *)
LoopLookedAfter ==
  /\ Reconciles("lookAfter") /\ source.loop.seen # Unread
  /\ source' = IF source.loop.seen = Absent THEN Reconciled(source, Absent) ELSE LoopThrows(source)
  /\ UNCHANGED <<root, dirs, events, handles, due>>

-----------------------------------------------------------------------------
(* Callbacks.                                                               *)

ParentEvent ==
  /\ due /\ source.parent
  /\ due' = FALSE
  /\ source' = Request(source, TRUE)
  /\ UNCHANGED <<root, dirs, events, handles>>

ParentFails ==
  /\ source.parent
  /\ source' = Fail(source)
  /\ UNCHANGED <<root, dirs, events, handles, due>>

Heard == source.active # None /\ handles[source.active].state = "open" /\ ~Closed(source)

(* An event of the addon that names the root itself, or one of the parent   *)
(* that names nothing. Neither says that anything happened to the root.     *)
RootEvent ==
  /\ Heard \/ source.parent
  /\ events < MaxEvents
  /\ events' = events + 1
  /\ source' = Request(source, TRUE)
  /\ UNCHANGED <<root, dirs, handles, due>>

(* A native error: the cause is looked for, one error at a time.            *)
NativeError ==
  /\ Heard /\ source.check = Idle
  /\ source' = [source EXCEPT !.check.at = "look"]
  /\ UNCHANGED <<root, dirs, events, handles, due>>

ErrorChecked ==
  LET seen == source.check.seen
      s == [source EXCEPT !.check = Idle]
  IN  /\ seen # Unread
      /\ source' = IF seen \notin {Failed, source.identity} THEN Request(s, FALSE) ELSE Fail(s)
      /\ UNCHANGED <<root, dirs, events, handles, due>>

-----------------------------------------------------------------------------
(* close()                                                                  *)

Close ==
  /\ source.opening.at = "done" /\ ~Closed(source)
  /\ source' = CloseBegins(source)
  /\ UNCHANGED <<root, dirs, events, handles, due>>

\* Mutant: the loop is not waited for.
CloseDrainsHasty ==
  /\ source.closing = "waiting"
  /\ source' = [source EXCEPT !.native = None, !.closing = "done"]
  /\ handles' = IF source.native = None THEN handles ELSE Released(source.native)
  /\ UNCHANGED <<root, dirs, events, due>>

(* The loop is over and what is left is unsubscribed.                       *)
CloseDrains ==
  /\ source.closing = "waiting" /\ source.loop.at = "idle"
  /\ source' = [source EXCEPT !.native = None, !.closing = "done"]
  /\ handles' = IF source.native = None THEN handles ELSE Released(source.native)
  /\ UNCHANGED <<root, dirs, events, due>>

-----------------------------------------------------------------------------
Work ==
  \/ \E g \in Gens : NativeAnswers(g)
  \/ OpeningLooks \/ LoopLooks \/ CheckLooks
  \/ OpenLooked \/ OpenSubscribed
  \/ LoopLooked \/ LoopUnsubscribed \/ LoopLookedAgain \/ LoopSubscribed \/ LoopLookedAfter
  \/ ErrorChecked \/ CloseDrains

Next == Replace \/ Remove \/ Work \/ ParentEvent \/ ParentFails \/ RootEvent \/ NativeError \/ Close

(* What is awaited settles, and the parent's changes are delivered.         *)
Fairness ==
  /\ \A g \in Gens : WF_vars(NativeAnswers(g))
  /\ WF_vars(OpeningLooks) /\ WF_vars(LoopLooks) /\ WF_vars(CheckLooks)
  /\ WF_vars(OpenLooked) /\ WF_vars(OpenSubscribed)
  /\ WF_vars(LoopLooked) /\ WF_vars(LoopUnsubscribed) /\ WF_vars(LoopLookedAgain)
  /\ WF_vars(LoopSubscribed) /\ WF_vars(LoopLookedAfter)
  /\ WF_vars(ErrorChecked) /\ WF_vars(CloseDrains) /\ WF_vars(ParentEvent)

Spec == Init /\ [][Next]_vars /\ Fairness

-----------------------------------------------------------------------------
HandleStates == {"none", "asked", "open", "erring", "refused", "released"}
Handles == [state : HandleStates, dir : 0..MaxDirs]

Coroutine(stages) == [at : stages, seen : 0..Unread, rootEvent : BOOLEAN, old : 0..MaxGens]
Openings == [at : {"look", "subscribe", "checking", "done", "threw"}, seen : 0..Unread]

Sources ==
  [identity : 0..MaxDirs, native : 0..MaxGens, generation : 0..MaxGens, active : 0..MaxGens,
   parent : BOOLEAN, opening : Openings,
   loop : Coroutine({"idle", "look", "unsubscribe", "lookAgain", "subscribe", "lookAfter"}),
   requested : BOOLEAN, rootEvent : BOOLEAN, check : Coroutine({"idle", "look"}), failed : BOOLEAN,
   closing : {"no", "waiting", "done"}]

(* The fields of ParcelWatchSource and the subscriptions keep their types.  *)
TypeOK ==
  /\ root \in 0..MaxDirs /\ dirs \in 1..MaxDirs /\ events \in 0..MaxEvents /\ due \in BOOLEAN
  /\ handles \in [Gens -> Handles]
  /\ source \in Sources

Held(g) == handles[g].state \in {"asked", "open", "erring"}

(* At most one native subscription exists at a time, it is always in the    *)
(* hands of somebody who will release it, and when close() resolves there   *)
(* is none and nothing goes on, whichever await it was called in.           *)
HandlesReleased ==
  /\ \A g \in Gens : Held(g) =>
       \/ g = source.native
       \/ g = source.generation /\ "subscribe" \in {source.opening.at, source.loop.at}
       \/ g = source.loop.old /\ source.loop.at = "unsubscribe"
  /\ \A g, h \in Gens : Held(g) /\ Held(h) => g = h
  /\ source.closing = "done" =>
       source.loop.at = "idle" /\ ~source.parent /\ \A g \in Gens : ~Held(g)

Follows ==
  /\ source.opening.at = "done"
  /\ source.identity = root
  /\ source.native = source.active
  /\ IF root = Absent THEN source.native = None
     ELSE source.native # None /\ handles[source.native] = [state |-> "open", dir |-> root]

(* When the path changes no more the source ends closed and drained, failed *)
(* for good, or attached to the directory that is there now; nothing waits  *)
(* for ever.                                                                *)
SourceSettles ==
  <>[](IF Closed(source) THEN source.closing = "done" ELSE source.failed \/ Follows)
=============================================================================
