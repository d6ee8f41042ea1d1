------------------------- MODULE ChatDriver_proofs -------------------------
(***************************************************************************)
(* Proofs about ChatDriver, for any messages and any number of disposals.  *)
(*                                                                         *)
(* The inductive invariant has three parts: the types, what is true of the *)
(* chat state (ChatInv) and what is true of the prompt operations and      *)
(* cancellations (PromptInv). The last two take the values they are about  *)
(* as parameters, so that the state half-way through a handler, after it   *)
(* ended a run and before it takes the next queued message, can be named.  *)
(* Two layers rest on it: how far a run is that waits for cancellations    *)
(* (WaitInv), and that a truncation excludes a disposal (TruncationInv).   *)
(***************************************************************************)
EXTENDS ChatDriver, SequenceTheorems, TLAPS

-----------------------------------------------------------------------------
(* Sequences *)

\* Removing an element shifts the later ones down by one.
LEMMA RemoveAtProperties ==
    ASSUME NEW S, NEW s \in Seq(S), NEW i \in 1..Len(s)
    PROVE  /\ RemoveAt(s, i) \in Seq(S)
           /\ Len(RemoveAt(s, i)) = Len(s) - 1
           /\ \A j \in 1..(Len(s) - 1) : RemoveAt(s, i)[j] = IF j < i THEN s[j] ELSE s[j + 1]
<1> DEFINE a == SubSeq(s, 1, i - 1)
           b == SubSeq(s, i + 1, Len(s))
<1>1. i \in Int /\ Len(s) \in Nat /\ 1 <= i /\ i <= Len(s) /\ \A j \in 1..Len(s) : s[j] \in S
  OBVIOUS
<1>2. /\ a \in Seq(S) /\ Len(a) = i - 1
      /\ \A j \in 1..(i - 1) : a[j] = s[j]
  <2>1. \A j \in 1..(i - 1) : s[j] \in S
    BY <1>1
  <2>2. i - 1 \in Int
    BY <1>1
  <2> QED BY <2>1, <2>2, <1>1, SubSeqProperties
<1>3. /\ b \in Seq(S) /\ Len(b) = Len(s) - i
      /\ \A j \in 1..(Len(s) - i) : b[j] = s[j + i]
  <2>1. \A j \in (i + 1)..Len(s) : s[j] \in S
    BY <1>1
  <2>2. i + 1 \in Int
    BY <1>1
  <2> QED BY <2>1, <2>2, <1>1, SubSeqProperties
<1> HIDE DEF a, b
<1>4. /\ a \o b \in Seq(S)
      /\ Len(a \o b) = Len(s) - 1
      /\ \A j \in 1..(Len(s) - 1) : (a \o b)[j] = IF j < i THEN s[j] ELSE s[j + 1]
  <2>1. /\ a \o b \in Seq(S)
        /\ Len(a \o b) = Len(a) + Len(b)
        /\ \A j \in 1..(Len(a) + Len(b)) : (a \o b)[j] = IF j <= Len(a) THEN a[j] ELSE b[j - Len(a)]
    BY <1>2, <1>3, ConcatProperties
  <2>2. Len(a) + Len(b) = Len(s) - 1
    BY <1>1, <1>2, <1>3
  <2>3. ASSUME NEW j \in 1..(Len(s) - 1)
        PROVE  (a \o b)[j] = IF j < i THEN s[j] ELSE s[j + 1]
    <3>1. CASE j < i
      BY <3>1, <2>1, <2>2, <1>1, <1>2
    <3>2. CASE ~(j < i)
      <4>1. (a \o b)[j] = b[j - (i - 1)]
        BY <3>2, <2>1, <2>2, <1>1, <1>2
      <4>2. j - (i - 1) \in 1..(Len(s) - i) /\ (j - (i - 1)) + i = j + 1
        BY <3>2, <1>1
      <4> QED BY <4>1, <4>2, <3>2, <1>3
    <3> QED BY <3>1, <3>2
  <2> QED BY <2>1, <2>2, <2>3
<1> QED BY <1>4 DEF RemoveAt, a, b
-----------------------------------------------------------------------------
(* Types *)

MaybeMessage == Messages \cup {None}

\* Consuming the queue either leaves what it was given or begins its head.
LEMMA ConsumeNextCases ==
    ASSUME NEW r, NEW turn, NEW queue \in Seq(Messages), NEW ops, ConsumeNext(r, turn, queue, ops)
    PROVE  \/ /\ queued' = queue /\ run' = r /\ activeTurn' = turn /\ op' = ops /\ lastOp' = lastOp
              /\ ~(closing' = "no" /\ cancellation' = 0 /\ queue # <<>> /\ r = None)
           \/ /\ closing' = "no" /\ cancellation' = 0 /\ queue # <<>> /\ r = None
              /\ queued' = Tail(queue)
              /\ Begin(Head(queue), ops)
BY DEF ConsumeNext, Stay

\* A begun operation is well typed.
LEMMA BeginType ==
    ASSUME NEW m \in Messages, NEW ops \in [Messages -> Op], cancellation' \in Nat, Begin(m, ops)
    PROVE  /\ run' \in MaybeMessage /\ activeTurn' \in Turn \cup {None} /\ lastOp' \in MaybeMessage
           /\ op' \in [Messages -> Op]
<1>1. PICK first \in FirstStop(m) : op' = [ops EXCEPT ![m] = first]
  BY DEF Begin
<1>2. first \in Op
  BY DEF FirstStop, At, Op, OpPhase
<1> QED BY <1>1, <1>2 DEF Begin, Turn, MaybeMessage

LEMMA ConsumeNextType ==
    ASSUME NEW r \in MaybeMessage, NEW turn \in Turn \cup {None}, NEW queue \in Seq(Messages),
           NEW ops \in [Messages -> Op], lastOp \in MaybeMessage, cancellation' \in Nat,
           ConsumeNext(r, turn, queue, ops)
    PROVE  /\ queued' \in Seq(Messages) /\ run' \in MaybeMessage /\ activeTurn' \in Turn \cup {None}
           /\ lastOp' \in MaybeMessage /\ op' \in [Messages -> Op]
<1>1. CASE queue # <<>> /\ queued' = Tail(queue) /\ Begin(Head(queue), ops)
  BY <1>1, BeginType, HeadTailProperties
<1>2. CASE queued' = queue /\ run' = r /\ activeTurn' = turn /\ op' = ops /\ lastOp' = lastOp
  BY <1>2
<1> QED BY <1>1, <1>2, ConsumeNextCases

LEMMA InitType == Init => TypeOK
<1> SUFFICES ASSUME Init PROVE TypeOK
  OBVIOUS
<1>1. queued \in Seq(Messages) /\ piQueue \in Seq(Messages) /\ cancels \in Seq(Cancel) /\ Len(cancels) = 0
  BY DEF Init
<1>2. op \in [Messages -> Op] /\ steers \in [Messages -> Steer]
  BY DEF Init, At, Op, OpPhase, Steer
<1>3. cancellation \in 0..Len(cancels)
  BY <1>1 DEF Init
<1> QED BY <1>1, <1>2, <1>3 DEF Init, TypeOK

LEMMA CancellationType == TypeOK => cancellation \in Nat /\ Len(cancels) \in Nat
BY LenProperties DEF TypeOK

\* Every step keeps the types.
LEMMA NextType ==
    ASSUME TypeOK, [Next]_vars
    PROVE  TypeOK'
<1> USE DEF MaybeMessage
<1>1. ASSUME NEW m \in Messages, StartTurn(m)
      PROVE  TypeOK'
  BY <1>1, CancellationType, BeginType DEF StartTurn, Send, TypeOK, cancelVars, closeVars, truncation, steerVars
<1>2. ASSUME NEW m \in Messages, Queue(m)
      PROVE  TypeOK'
  <2>1. Append(queued, m) \in Seq(Messages)
    BY AppendProperties DEF TypeOK
  <2>2. cancellation' \in Nat
    BY <1>2, CancellationType DEF Queue, cancelVars
  <2> QED BY <1>2, <2>1, <2>2, ConsumeNextType DEF Queue, Send, TypeOK, cancelVars, closeVars, truncation, steerVars
<1>3. ASSUME NEW m \in Messages, RemoveQueued(m)
      PROVE  TypeOK'
  <2>1. PICK i \in DOMAIN queued : queued' = RemoveAt(queued, i)
    BY <1>3 DEF RemoveQueued
  <2>2. queued' \in Seq(Messages)
    BY <2>1, RemoveAtProperties DEF TypeOK
  <2> QED BY <1>3, <2>2 DEF RemoveQueued, TypeOK, cancelVars, closeVars, truncation, steerVars, runVars
<1>4. ASSUME NEW m \in Messages, SteerChat(m)
      PROVE  TypeOK'
  BY <1>4 DEF SteerChat, Send, Steer, TypeOK, cancelVars, closeVars, truncation, runVars
<1>5. CASE CancelTurn
  <2> DEFINE target == IF lastOp # None /\ Pending(lastOp) THEN lastOp ELSE None
             new == [phase |-> "waiting", target |-> target]
  <2>1. new \in Cancel
    BY DEF Cancel, TypeOK
  <2>2. cancels' = Append(cancels, new) /\ cancellation' = Len(cancels) + 1
    BY <1>5 DEF CancelTurn
  <2> HIDE DEF new
  <2>3. cancels' \in Seq(Cancel) /\ cancellation' \in 0..Len(cancels')
    BY <2>1, <2>2, AppendProperties DEF TypeOK
  <2> QED BY <1>5, <2>3 DEF CancelTurn, ClearPendingSteering, TypeOK, closeVars, truncation
<1>6. CASE StartTruncation \/ EndTruncation
  BY <1>6 DEF StartTruncation, EndTruncation, TypeOK, chatVars, runVars, steerVars, cancelVars, closeVars, truncation
<1>7. ASSUME NEW m \in Messages, NEW phase \in OpPhase, NEW on \in Nat, Step(m, At(phase, on))
      PROVE  TypeOK'
  BY <1>7 DEF Step, At, Op, TypeOK, chatVars, steerVars, cancelVars, closeVars, truncation
<1>8. ASSUME NEW m \in Messages,
             PassCancellation(m) \/ PassGate(m) \/ ModelSelected(m) \/ PassGateAgain(m) \/ Stream(m)
      PROVE  TypeOK'
  <2>1. gate \in Nat
    BY DEF TypeOK
  <2>2. \E phase \in OpPhase, on \in Nat : Step(m, At(phase, on))
    BY <1>8, <2>1 DEF PassCancellation, PassGate, ModelSelected, PassGateAgain, Stream, OpPhase
  <2> QED BY <2>2, <1>7
<1>9. ASSUME NEW m \in Messages, PromptReturns(m)
      PROVE  TypeOK'
  <2> DEFINE ops == [op EXCEPT ![m] = At("done", 0)]
  <2>1. ops \in [Messages -> Op]
    BY DEF TypeOK, At, Op, OpPhase
  <2>2. UNCHANGED <<splits, aborted, steers, steerLength, piQueue, cancelVars, closeVars, truncation, sent>>
    BY <1>9 DEF PromptReturns, SettlePrompt
  <2>3. CASE FinishTurn(ops) /\ UNCHANGED settled
    <3>1. cancellation' \in Nat
      BY <2>2, CancellationType DEF cancelVars
    <3> QED BY <2>1, <2>2, <2>3, <3>1, ConsumeNextType
            DEF FinishTurn, ClearPendingSteering, TypeOK, cancelVars, closeVars, truncation
  <2>4. CASE /\ settled' \subseteq settled \cup {m}
             /\ Stay(run, activeTurn, ops)
             /\ UNCHANGED <<queued, steering, pendingSteer>>
    BY <2>1, <2>2, <2>4 DEF Stay, TypeOK, cancelVars, closeVars, truncation
  <2> QED BY <1>9, <2>3, <2>4 DEF PromptReturns, SettlePrompt
<1>10. ASSUME NEW g \in DOMAIN cancels, CancelStep(g)
       PROVE  TypeOK'
  <2>1. cancels \in Seq(Cancel) /\ g \in 1..Len(cancels) /\ cancels[g] \in Cancel
    BY DEF TypeOK
  <2>2. ASSUME NEW phase \in {"aborting", "aborted", "done"}
        PROVE  /\ [cancels EXCEPT ![g].phase = phase] \in Seq(Cancel)
               /\ Len([cancels EXCEPT ![g].phase = phase]) = Len(cancels)
    <3>1. [cancels[g] EXCEPT !.phase = phase] \in Cancel
      BY <2>1 DEF Cancel
    <3> QED BY <2>1, <3>1, ExceptSeq
  <2>3. CASE CancelStarts(g) \/ AbortSettles(g)
    BY <2>2, <2>3 DEF CancelStarts, AbortSettles, TypeOK, chatVars, runVars, steerVars, closeVars, truncation
  <2>4. CASE CancelEnds(g)
    <3>1. cancels' \in Seq(Cancel) /\ cancellation' \in 0..Len(cancels')
      BY <2>2, <2>4 DEF CancelEnds, BarrierAfter, TypeOK
    <3>2. ConsumeNext(run, activeTurn, queued, op)
      BY <2>4 DEF CancelEnds
    <3>3. cancellation' \in Nat
      BY <3>1
    <3>4. /\ queued' \in Seq(Messages) /\ run' \in MaybeMessage /\ activeTurn' \in Turn \cup {None}
          /\ lastOp' \in MaybeMessage /\ op' \in [Messages -> Op]
      BY <3>2, <3>3, ConsumeNextType DEF TypeOK
    <3> QED BY <2>4, <3>1, <3>4 DEF CancelEnds, TypeOK, steerVars, closeVars, truncation
  <2> QED BY <1>10, <2>3, <2>4 DEF CancelStep
<1>11. ASSUME NEW m \in Messages, SteerStep(m)
       PROVE  TypeOK'
  <2>1. ASSUME NEW phase \in {"preparing", "done"}
        PROVE  [steers EXCEPT ![m].phase = phase] \in [Messages -> Steer]
    BY DEF TypeOK, Steer
  <2>2. CASE PassSteerCancellation(m)
    BY <2>1, <2>2 DEF PassSteerCancellation, SteerEnds, TypeOK, chatVars, runVars, cancelVars, closeVars, truncation
  <2>3. CASE SteerReachesPi(m)
    <3>1. piQueue' \in Seq(Messages) /\ steerLength' \in Nat
      BY <2>3, AppendProperties, LenProperties DEF SteerReachesPi, TypeOK
    <3> QED BY <2>1, <2>3, <3>1 DEF SteerReachesPi, SteerEnds, TypeOK, chatVars, runVars, cancelVars, closeVars, truncation
  <2>4. CASE SteerFails(m)
    BY <2>1, <2>4 DEF SteerFails, SteerEnds, ClearPendingSteering, TypeOK, runVars, cancelVars, closeVars, truncation
  <2> QED BY <1>11, <2>2, <2>3, <2>4 DEF SteerStep
<1>12. ASSUME NEW queue \in Seq(Messages), QueueUpdate(queue)
       PROVE  /\ piQueue' \in Seq(Messages) /\ steerLength' \in Nat
              /\ steering' \in MaybeMessage /\ pendingSteer' \in MaybeMessage
  BY <1>12, LenProperties DEF QueueUpdate, ClearPendingSteering, TypeOK
<1>13. ASSUME NEW m \in Messages, PiInjects(m)
       PROVE  TypeOK'
  <2>1. Tail(piQueue) \in Seq(Messages)
    BY <1>13, HeadTailProperties DEF PiInjects, TypeOK
  <2>2. /\ piQueue' \in Seq(Messages) /\ steerLength' \in Nat
        /\ steering' \in MaybeMessage /\ pendingSteer' \in MaybeMessage
    BY <1>13, <2>1, <1>12 DEF PiInjects
  <2>3. splits' \in [Messages -> Nat] /\ activeTurn' \in Turn \cup {None}
    <3>1. CASE UNCHANGED <<splits, activeTurn>>
      BY <3>1 DEF TypeOK
    <3>2. CASE /\ run # None
               /\ splits' = [splits EXCEPT ![run] = @ + 1]
               /\ activeTurn' = <<run, splits[run] + 1>>
      <4>1. run \in Messages /\ splits[run] \in Nat
        BY <3>2 DEF TypeOK
      <4> QED BY <3>2, <4>1 DEF TypeOK, Turn
    <3> QED BY <1>13, <3>1, <3>2 DEF PiInjects
  <2> QED BY <1>13, <2>2, <2>3 DEF PiInjects, TypeOK, cancelVars, closeVars, truncation
<1>14. CASE PiClearsQueue
  <2>1. /\ piQueue' \in Seq(Messages) /\ steerLength' \in Nat
        /\ steering' \in MaybeMessage /\ pendingSteer' \in MaybeMessage
    <3>1. <<>> \in Seq(Messages)
      OBVIOUS
    <3> QED BY <1>14, <3>1, <1>12 DEF PiClearsQueue
  <2> QED BY <1>14, <2>1 DEF PiClearsQueue, TypeOK, runVars, cancelVars, closeVars, truncation
<1>15. CASE Quiesce \/ QuiesceAborted \/ Dispose
  <2>1. CASE Quiesce
    BY <2>1 DEF Quiesce, TypeOK, chatVars, runVars, steerVars, cancelVars, truncation
  <2>2. CASE QuiesceAborted
    BY <2>2 DEF QuiesceAborted, TypeOK, chatVars, steerVars, cancelVars, truncation
  <2>3. CASE Dispose
    BY <2>3 DEF Dispose, TypeOK, chatVars, runVars, steerVars, cancelVars, truncation
  <2> QED BY <1>15, <2>1, <2>2, <2>3
<1>16. ASSUME FinishTurn(op), UNCHANGED cancelVars
       PROVE  /\ queued' \in Seq(Messages) /\ run' \in MaybeMessage /\ activeTurn' \in Turn \cup {None}
              /\ lastOp' \in MaybeMessage /\ op' \in [Messages -> Op]
              /\ steering' \in MaybeMessage /\ pendingSteer' \in MaybeMessage
  <2>1. cancellation' \in Nat
    BY <1>16, CancellationType DEF cancelVars
  <2> QED BY <1>16, <2>1, ConsumeNextType DEF FinishTurn, ClearPendingSteering, TypeOK
<1>17. CASE QuiesceDrained
  BY <1>16, <1>17 DEF QuiesceDrained, TypeOK, cancelVars, chatVars, truncation
<1>18. CASE Resume
  <2>1. CASE run \in settled
    BY <1>16, <1>18, <2>1 DEF Resume, TypeOK, cancelVars, truncation
  <2>2. CASE run \notin settled
    <3>1. cancellation' \in Nat
      BY <1>18, CancellationType DEF Resume, cancelVars
    <3> QED BY <1>18, <2>2, <3>1, ConsumeNextType DEF Resume, TypeOK, cancelVars, truncation
  <2> QED BY <2>1, <2>2
<1>19. CASE UNCHANGED vars
  BY <1>19 DEF vars, TypeOK, chatVars, runVars, steerVars, cancelVars, closeVars, truncation
<1> QED
  BY <1>1, <1>2, <1>3, <1>4, <1>5, <1>6, <1>8, <1>9, <1>10, <1>11, <1>13, <1>14, <1>15, <1>17, <1>18, <1>19
  DEF Next, ClientAction, OpStep, CloseStep, Gone
-----------------------------------------------------------------------------
(* The inductive invariant *)

\* The chat shows run r's turn unless a truncation dropped it (drop); a message
\* that waits in the queue or has not been sent has never been run.
ChatInvOf(r, turn, queue, sentSoFar, split, settledSoFar, drop) ==
    /\ \/ turn = IF r = None THEN None ELSE <<r, split[r]>>
       \/ turn = None /\ r \in drop
    /\ \A i \in 1..Len(queue) :
          queue[i] \in sentSoFar /\ split[queue[i]] = 0 /\ queue[i] # r /\ queue[i] \notin settledSoFar
    /\ \A i, j \in 1..Len(queue) : queue[i] = queue[j] => i = j
    /\ \A m \in Messages : m \notin sentSoFar => split[m] = 0 /\ m # r /\ m \notin settledSoFar

ChatInv == ChatInvOf(run, activeTurn, queued, sent, splits, settled, dropped)

BackendPhase == {"selecting", "gateAgain", "preparing", "streaming"}

AllDone(cans) == \A g \in 1..Len(cans) : cans[g].phase = "done"

\* Cancellations settle in order and the newest one holds the barrier.
BarrierOf(cans, can) ==
    /\ can = 0 => AllDone(cans)
    /\ can # 0 => can = Len(cans)
    /\ \A g, h \in 1..Len(cans) : h < g /\ cans[g].phase # "waiting" => cans[h].phase = "done"

\* The current run waits for the newest cancellation and is past every one of
\* them once it is at the backend; an operation that is still at the backend
\* without being the current run is the target of an unsettled cancellation,
\* unless a truncation dropped its turn (drop).
PromptInvOf(r, lo, ops, cans, ab, st, drop) ==
    /\ r # None => lo = r
    /\ \A m \in st : ops[m].phase = "done"
    /\ r # None /\ ops[r].phase = "cancellation" => ops[r].on = Len(cans)
    /\ r # None /\ ops[r].phase \in BackendPhase \cup {"gate"} => AllDone(cans)
    /\ \A m \in Messages \ drop : ops[m].phase \in BackendPhase /\ m # r =>
          m \in ab /\ \E g \in 1..Len(cans) : cans[g].phase # "done" /\ cans[g].target = m
    /\ \A m, n \in Messages \ drop : ops[m].phase \in BackendPhase /\ ops[n].phase \in BackendPhase => m = n

PromptInv ==
    /\ BarrierOf(cancels, cancellation)
    /\ PromptInvOf(run, lastOp, op, cancels, aborted, settled, dropped)
-----------------------------------------------------------------------------
(* Steps of the two parts *)

\* Taking the head of the queue in a chat without a turn.
LEMMA BeginQueuedChat ==
    ASSUME NEW queue \in Seq(Messages), queue # <<>>, NEW sentSoFar, NEW split, NEW settledSoFar, NEW drop,
           NEW turn, ChatInvOf(None, turn, queue, sentSoFar, split, settledSoFar, drop)
    PROVE  /\ Head(queue) \in Messages /\ Head(queue) \notin settledSoFar
           /\ ChatInvOf(Head(queue), <<Head(queue), 0>>, Tail(queue), sentSoFar, split, settledSoFar, drop)
<1> DEFINE rest == Tail(queue)
           first == Head(queue)
<1>1. /\ rest \in Seq(Messages) /\ Len(rest) = Len(queue) - 1 /\ Len(queue) \in Nat \ {0}
      /\ \A i \in 1..Len(rest) : rest[i] = queue[i + 1]
      /\ first = queue[1] /\ first \in Messages
  BY HeadTailProperties, EmptySeq, LenProperties
<1> HIDE DEF rest, first
<1>2. \A i \in 1..Len(rest) : i + 1 \in 1..Len(queue) /\ i + 1 # 1
  BY <1>1
<1>3. 1 \in 1..Len(queue)
  BY <1>1
<1>4. first \in sentSoFar /\ split[first] = 0 /\ first \notin settledSoFar /\ first # None
  BY <1>1, <1>3, DriverAssumption DEF ChatInvOf
<1>5. \A i \in 1..Len(rest) : rest[i] # first
  BY <1>1, <1>2, <1>3 DEF ChatInvOf
<1>6. \A i, j \in 1..Len(rest) : rest[i] = rest[j] => i = j
  <2> SUFFICES ASSUME NEW i \in 1..Len(rest), NEW j \in 1..Len(rest), rest[i] = rest[j]
               PROVE  i = j
    OBVIOUS
  <2>1. i + 1 = j + 1
    BY <1>1, <1>2 DEF ChatInvOf
  <2> QED BY <2>1, <1>1
<1>7. \A i \in 1..Len(rest) : rest[i] \in sentSoFar /\ split[rest[i]] = 0 /\ rest[i] \notin settledSoFar
  BY <1>1, <1>2 DEF ChatInvOf
<1>8. \A m \in Messages : m \notin sentSoFar => split[m] = 0 /\ m # first /\ m \notin settledSoFar
  BY <1>4 DEF ChatInvOf
<1>9. ChatInvOf(first, <<first, 0>>, rest, sentSoFar, split, settledSoFar, drop)
  BY <1>4, <1>5, <1>6, <1>7, <1>8 DEF ChatInvOf
<1> QED BY <1>1, <1>4, <1>9 DEF first, rest

\* A run that begins waits for the barrier, or finds every cancellation settled
\* and so nothing at the backend.
LEMMA BeginPrompt ==
    ASSUME NEW m \in Messages, NEW lo, NEW ops \in [Messages -> Op], NEW cans \in Seq(Cancel),
           NEW can, NEW ab, NEW st, NEW drop, m \notin st,
           PromptInvOf(None, lo, ops, cans, ab, st, drop), BarrierOf(cans, can),
           NEW first \in Op,
           \/ can # 0 /\ first = At("cancellation", can)
           \/ can = 0 /\ first \in {At("selecting", 0), At("preparing", 0)}
    PROVE  PromptInvOf(m, m, [ops EXCEPT ![m] = first], cans, ab, st, drop)
<1> DEFINE new == [ops EXCEPT ![m] = first]
<1>1. new[m] = first /\ \A n \in Messages : n # m => new[n] = ops[n]
  OBVIOUS
<1>2. first.phase \in BackendPhase => AllDone(cans)
  BY DEF BarrierOf, At, BackendPhase
<1>3. \A n \in Messages \ drop : ops[n].phase \in BackendPhase => ~AllDone(cans)
  BY DriverAssumption DEF PromptInvOf, AllDone
<1>4. \A n \in st : new[n].phase = "done"
  <2>1. \A n \in st : n # m /\ ops[n].phase = "done"
    BY DEF PromptInvOf
  <2> QED BY <2>1, <1>1
<1>5. first.phase = "cancellation" => first.on = Len(cans)
  BY DEF BarrierOf, At
<1>6. first.phase # "gate"
  BY DEF At
<1>7. \A n \in Messages \ drop : new[n].phase \in BackendPhase /\ n # m =>
         n \in ab /\ \E g \in 1..Len(cans) : cans[g].phase # "done" /\ cans[g].target = n
  BY <1>1, DriverAssumption DEF PromptInvOf
<1>8. \A k, n \in Messages \ drop : new[k].phase \in BackendPhase /\ new[n].phase \in BackendPhase => k = n
  BY <1>1, <1>2, <1>3 DEF PromptInvOf
<1> HIDE DEF new
<1>9. PromptInvOf(m, m, new, cans, ab, st, drop)
  BY <1>1, <1>2, <1>4, <1>5, <1>6, <1>7, <1>8 DEF PromptInvOf
<1> QED BY <1>9 DEF new

\* An operation of message m moves on: it ends, or it is the current run's and
\* past every cancellation, or it was at the backend already.
LEMMA MoveOperation ==
    ASSUME NEW m \in Messages, NEW r, NEW lo, NEW ops \in [Messages -> Op], NEW cans, NEW ab, NEW st, NEW drop,
           PromptInvOf(r, lo, ops, cans, ab, st, drop),
           NEW next \in Op,
           \/ next.phase = "done"
           \/ /\ ops[m].phase # "done" /\ next.phase \in BackendPhase \cup {"gate"}
              /\ m = r => AllDone(cans)
              /\ next.phase \in BackendPhase => m = r \/ ops[m].phase \in BackendPhase
    PROVE  PromptInvOf(r, lo, [ops EXCEPT ![m] = next], cans, ab, st, drop)
<1> DEFINE new == [ops EXCEPT ![m] = next]
<1>1. new[m] = next /\ \A n \in Messages : n # m => new[n] = ops[n]
  OBVIOUS
<1>2. \A n \in st : new[n].phase = "done"
  <2>1. ASSUME NEW n \in st PROVE new[n].phase = "done"
    <3>1. ops[n].phase = "done"
      BY DEF PromptInvOf
    <3>2. CASE n = m
      BY <3>1, <3>2, <1>1
    <3>3. CASE n # m
      BY <3>1, <3>3
    <3> QED BY <3>2, <3>3
  <2> QED BY <2>1
<1>3. r # None /\ new[r].phase = "cancellation" => new[r].on = Len(cans)
  <2>1. CASE r = m
    BY <2>1, <1>1 DEF BackendPhase
  <2>2. CASE r # m
    BY <2>2 DEF PromptInvOf
  <2> QED BY <2>1, <2>2
<1>4. r # None /\ new[r].phase \in BackendPhase \cup {"gate"} => AllDone(cans)
  <2>1. CASE r = m
    BY <2>1, <1>1 DEF BackendPhase
  <2>2. CASE r # m
    BY <2>2 DEF PromptInvOf
  <2> QED BY <2>1, <2>2
<1>5. \A n \in Messages \ drop : new[n].phase \in BackendPhase /\ n # r =>
         n \in ab /\ \E g \in 1..Len(cans) : cans[g].phase # "done" /\ cans[g].target = n
  BY <1>1 DEF PromptInvOf, BackendPhase
<1>6. \A k, n \in Messages \ drop : new[k].phase \in BackendPhase /\ new[n].phase \in BackendPhase => k = n
  <2>1. CASE next.phase \notin BackendPhase \/ ops[m].phase \in BackendPhase
    BY <2>1, <1>1 DEF PromptInvOf
  <2>2. CASE next.phase \in BackendPhase /\ ops[m].phase \notin BackendPhase
    <3>1. m = r /\ AllDone(cans)
      BY <2>2 DEF BackendPhase
    <3>2. \A n \in Messages \ drop : n # m => ops[n].phase \notin BackendPhase
      BY <3>1 DEF PromptInvOf, AllDone
    <3> QED BY <3>2, <1>1
  <2> QED BY <2>1, <2>2
<1> HIDE DEF new
<1>7. PromptInvOf(r, lo, new, cans, ab, st, drop)
  BY <1>2, <1>3, <1>4, <1>5, <1>6 DEF PromptInvOf
<1> QED BY <1>7 DEF new

\* A run that is not at the backend, or lost its turn to a truncation, may end.
LEMMA EndRun ==
    ASSUME NEW r, NEW lo, NEW ops, NEW cans, NEW ab, NEW st, NEW drop,
           PromptInvOf(r, lo, ops, cans, ab, st, drop), ops[r].phase \notin BackendPhase \/ r \in drop
    PROVE  PromptInvOf(None, lo, ops, cans, ab, st, drop)
BY DEF PromptInvOf

\* The chat of a run that ends.
LEMMA EndChat ==
    ASSUME NEW r, NEW turn, NEW queue \in Seq(Messages), NEW sentSoFar, NEW split, NEW settledSoFar, NEW drop,
           ChatInvOf(r, turn, queue, sentSoFar, split, settledSoFar, drop)
    PROVE  ChatInvOf(None, None, queue, sentSoFar, split, settledSoFar, drop)
<1>1. \A i \in 1..Len(queue) : queue[i] # None
  BY DriverAssumption
<1> QED BY <1>1, DriverAssumption DEF ChatInvOf

\* Consuming the queue from an intermediate state that satisfies the invariant
\* leads to one, and leaves no queued message to an idle driver.
LEMMA ConsumeNextInv ==
    ASSUME NEW r \in MaybeMessage, NEW turn, NEW queue \in Seq(Messages), NEW ops \in [Messages -> Op],
           cancels' \in Seq(Cancel), cancellation' \in Nat,
           ConsumeNext(r, turn, queue, ops),
           ChatInvOf(r, turn, queue, sent', splits', settled', dropped'),
           PromptInvOf(r, lastOp, ops, cancels', aborted', settled', dropped'),
           BarrierOf(cancels', cancellation')
    PROVE  ChatInv' /\ PromptInv' /\ NoIdleQueue'
<1>1. CASE /\ queued' = queue /\ run' = r /\ activeTurn' = turn /\ op' = ops /\ lastOp' = lastOp
           /\ ~(closing' = "no" /\ cancellation' = 0 /\ queue # <<>> /\ r = None)
  BY <1>1 DEF ChatInv, PromptInv, NoIdleQueue
<1>2. CASE /\ closing' = "no" /\ cancellation' = 0 /\ queue # <<>> /\ r = None
           /\ queued' = Tail(queue)
           /\ Begin(Head(queue), ops)
  <2> DEFINE m == Head(queue)
  <2>1. m \in Messages /\ m \notin settled' /\ ChatInvOf(m, <<m, 0>>, Tail(queue), sent', splits', settled', dropped')
    BY <1>2, BeginQueuedChat
  <2> HIDE DEF m
  <2>2. PICK first \in FirstStop(m) : op' = [ops EXCEPT ![m] = first]
    BY <1>2 DEF Begin, m
  <2>3. run' = m /\ activeTurn' = <<m, 0>> /\ lastOp' = m
    BY <1>2 DEF Begin, m
  <2>4. first \in Op /\ first \in {At("selecting", 0), At("preparing", 0)}
    BY <1>2, <2>2 DEF FirstStop, At, Op, OpPhase
  <2>5. PromptInvOf(m, m, [ops EXCEPT ![m] = first], cancels', aborted', settled', dropped')
    BY <1>2, <2>1, <2>4, BeginPrompt
  <2>6. m # None
    BY <2>1, DriverAssumption
  <2> QED BY <1>2, <2>1, <2>2, <2>3, <2>5, <2>6 DEF ChatInv, PromptInv, NoIdleQueue, m
<1> QED BY <1>1, <1>2, ConsumeNextCases
-----------------------------------------------------------------------------
(* One lemma per kind of step *)

Core == ChatInv /\ PromptInv /\ NoIdleQueue

\* Steps that touch neither runs, nor the queue, nor cancellations.
LEMMA FrameKeepsCore ==
    ASSUME Core,
           UNCHANGED <<activeTurn, queued, run, splits, settled, op, lastOp, cancelVars, dropped, sent>>,
           aborted \subseteq aborted', closing' = "no" => closing = "no"
    PROVE  Core'
<1>1. ChatInv' /\ NoIdleQueue'
  BY DEF Core, ChatInv, ChatInvOf, NoIdleQueue, cancelVars
<1>2. PromptInv'
  BY DEF Core, PromptInv, PromptInvOf, BarrierOf, AllDone, cancelVars
<1> QED BY <1>1, <1>2 DEF Core

\* chat/turnStarted: a message never sent before begins without the queue.
LEMMA StartTurnKeepsCore ==
    ASSUME TypeOK, Core, NEW m \in Messages, StartTurn(m)
    PROVE  Core'
<1>1. /\ m \notin sent /\ closing = "no" /\ activeTurn = None
      /\ run' = m /\ activeTurn' = <<m, 0>> /\ lastOp' = m /\ sent' = sent \cup {m}
      /\ UNCHANGED <<queued, splits, settled, aborted, cancels, cancellation, closing, dropped>>
  BY DEF StartTurn, Fresh, Send, Begin, cancelVars, closeVars, truncation
<1>2. PICK first \in FirstStop(m) : op' = [op EXCEPT ![m] = first]
  BY DEF StartTurn, Begin
<1>3. (run = None \/ run \in dropped) /\ m # None
  <2>1. run # None => run \in Messages /\ splits[run] \in Nat
    BY DEF TypeOK
  <2> QED BY <2>1, <1>1, DriverAssumption DEF Core, ChatInv, ChatInvOf
<1>4. ChatInv'
  <2>1. /\ \A i \in 1..Len(queued) : /\ queued[i] \in sent /\ splits[queued[i]] = 0
                                     /\ queued[i] # m /\ queued[i] \notin settled
        /\ \A i, j \in 1..Len(queued) : queued[i] = queued[j] => i = j
        /\ \A n \in Messages : n \notin sent => splits[n] = 0 /\ n \notin settled
    BY <1>1 DEF Core, ChatInv, ChatInvOf
  <2> QED BY <1>1, <1>3, <2>1 DEF ChatInv, ChatInvOf
<1>5. PromptInv'
  <2>1. m \notin settled
    BY <1>1 DEF Core, ChatInv, ChatInvOf
  <2>2. first \in Op /\ \/ cancellation # 0 /\ first = At("cancellation", cancellation)
                        \/ cancellation = 0 /\ first \in {At("selecting", 0), At("preparing", 0)}
    BY <1>1, <1>2, CancellationType DEF FirstStop, At, Op, OpPhase
  <2>3. PromptInvOf(None, lastOp, op, cancels, aborted, settled, dropped) /\ BarrierOf(cancels, cancellation)
    <3>1. CASE run = None
      BY <3>1 DEF Core, PromptInv
    <3>2. CASE run \in dropped
      BY <3>2, EndRun DEF Core, PromptInv
    <3> QED BY <3>1, <3>2, <1>3
  <2>4. PromptInvOf(m, m, [op EXCEPT ![m] = first], cancels, aborted, settled, dropped)
    BY <2>1, <2>2, <2>3, BeginPrompt DEF TypeOK
  <2> QED BY <1>1, <1>2, <2>3, <2>4 DEF PromptInv
<1> QED BY <1>1, <1>3, <1>4, <1>5 DEF Core, NoIdleQueue

\* chat/pendingMessageSet: the new message is behind all others.
LEMMA QueueKeepsCore ==
    ASSUME TypeOK, Core, NEW m \in Messages, Queue(m)
    PROVE  Core'
<1> DEFINE queue == Append(queued, m)
<1>1. /\ m \notin sent /\ sent' = sent \cup {m}
      /\ UNCHANGED <<splits, settled, aborted, cancels, cancellation, dropped>>
      /\ ConsumeNext(run, activeTurn, queue, op)
  BY DEF Queue, Fresh, Send, cancelVars, truncation
<1>2. /\ queue \in Seq(Messages) /\ Len(queue) = Len(queued) + 1 /\ Len(queued) \in Nat
      /\ \A i \in 1..Len(queued) : queue[i] = queued[i]
      /\ queue[Len(queued) + 1] = m
  BY AppendProperties, LenProperties DEF TypeOK
<1> HIDE DEF queue
<1>3. \A i \in 1..Len(queue) : i \in 1..Len(queued) \/ i = Len(queued) + 1
  BY <1>2
<1>4. /\ splits[m] = 0 /\ m # run /\ m \notin settled
      /\ \A i \in 1..Len(queued) : /\ queued[i] \in sent /\ splits[queued[i]] = 0
                                   /\ queued[i] # run /\ queued[i] \notin settled
  BY <1>1 DEF Core, ChatInv, ChatInvOf
<1>5. \A i \in 1..Len(queue) : /\ queue[i] \in sent' /\ splits[queue[i]] = 0
                               /\ queue[i] # run /\ queue[i] \notin settled
  BY <1>1, <1>2, <1>3, <1>4
<1>6. \A i, j \in 1..Len(queue) : queue[i] = queue[j] => i = j
  <2> SUFFICES ASSUME NEW i \in 1..Len(queue), NEW j \in 1..Len(queue), queue[i] = queue[j]
               PROVE  i = j
    OBVIOUS
  <2>1. \A k \in 1..Len(queued) : queue[k] # m
    BY <1>1, <1>2, <1>4
  <2>2. CASE i \in 1..Len(queued) /\ j \in 1..Len(queued)
    BY <2>2, <1>2 DEF Core, ChatInv, ChatInvOf
  <2> QED BY <2>1, <2>2, <1>2, <1>3
<1>7. ChatInvOf(run, activeTurn, queue, sent', splits', settled', dropped')
  BY <1>1, <1>5, <1>6 DEF Core, ChatInv, ChatInvOf
<1>8. PromptInvOf(run, lastOp, op, cancels', aborted', settled', dropped') /\ BarrierOf(cancels', cancellation')
  BY <1>1 DEF Core, PromptInv
<1>9. run \in MaybeMessage /\ op \in [Messages -> Op] /\ cancels' \in Seq(Cancel) /\ cancellation' \in Nat
  BY <1>1, CancellationType DEF TypeOK, MaybeMessage
<1> QED BY <1>1, <1>2, <1>7, <1>8, <1>9, ConsumeNextInv DEF Core

\* chat/pendingMessageRemoved
LEMMA RemoveQueuedKeepsCore ==
    ASSUME TypeOK, Core, NEW m \in Messages, RemoveQueued(m)
    PROVE  Core'
<1>1. PICK i \in 1..Len(queued) : queued' = RemoveAt(queued, i)
  BY DEF RemoveQueued, TypeOK
<1>2. /\ queued \in Seq(Messages) /\ Len(queued) \in Nat /\ Len(queued') = Len(queued) - 1
      /\ \A j \in 1..(Len(queued) - 1) : queued'[j] = IF j < i THEN queued[j] ELSE queued[j + 1]
  BY <1>1, RemoveAtProperties, LenProperties DEF TypeOK
<1>3. UNCHANGED <<activeTurn, run, splits, settled, op, lastOp, aborted, cancels, cancellation, closing, dropped, sent>>
  BY DEF RemoveQueued, runVars, cancelVars, closeVars, truncation
<1> DEFINE source(j) == IF j < i THEN j ELSE j + 1
<1>4. /\ \A j \in 1..Len(queued') : source(j) \in 1..Len(queued) /\ queued'[j] = queued[source(j)]
      /\ \A j, k \in 1..Len(queued') : source(j) = source(k) => j = k
  BY <1>2
<1> HIDE DEF source
<1>5. /\ \A j \in 1..Len(queued') : /\ queued'[j] \in sent /\ splits[queued'[j]] = 0
                                    /\ queued'[j] # run /\ queued'[j] \notin settled
      /\ \A j, k \in 1..Len(queued') : queued'[j] = queued'[k] => j = k
  BY <1>4 DEF Core, ChatInv, ChatInvOf
<1>6. ChatInv'
  BY <1>3, <1>5 DEF Core, ChatInv, ChatInvOf
<1>7. PromptInv'
  BY <1>3 DEF Core, PromptInv, PromptInvOf, BarrierOf, AllDone
<1>8. queued # <<>>
  BY <1>1, EmptySeq
<1> QED BY <1>3, <1>6, <1>7, <1>8 DEF Core, NoIdleQueue

\* chat/turnCancelled: the run becomes the target of the newest cancellation.
LEMMA CancelTurnKeepsCore ==
    ASSUME TypeOK, Core, CancelTurn
    PROVE  Core'
<1> DEFINE target == IF lastOp # None /\ Pending(lastOp) THEN lastOp ELSE None
           new == [phase |-> "waiting", target |-> target]
<1>1. /\ activeTurn # None /\ activeTurn' = None /\ run' = None
      /\ aborted' = aborted \cup ({run} \ {None})
      /\ cancels' = Append(cancels, new) /\ cancellation' = Len(cancels) + 1
      /\ UNCHANGED <<queued, splits, settled, op, lastOp, dropped, sent>>
  BY DEF CancelTurn, truncation
<1>2. run \in Messages /\ lastOp = run
  BY <1>1 DEF Core, ChatInv, ChatInvOf, PromptInv, PromptInvOf, TypeOK
<1>3. new.phase = "waiting" /\ (op[run].phase \in BackendPhase => new.target = run) /\ new \in Cancel
  BY <1>2, DriverAssumption DEF Pending, BackendPhase, Cancel
<1> HIDE DEF new
<1>4. /\ Len(cancels) \in Nat /\ Len(cancels') = Len(cancels) + 1
      /\ \A g \in 1..Len(cancels) : cancels'[g] = cancels[g]
      /\ cancels'[Len(cancels) + 1] = new
  BY <1>1, <1>3, AppendProperties, LenProperties DEF TypeOK
<1>5. \A g \in 1..Len(cancels') : g \in 1..Len(cancels) \/ g = Len(cancels) + 1
  BY <1>4
<1>6. ChatInv'
  BY <1>1, EndChat DEF Core, ChatInv, TypeOK
<1>7. BarrierOf(cancels', cancellation')
  <2>1. \A g, h \in 1..Len(cancels') : h < g /\ cancels'[g].phase # "waiting" => cancels'[h].phase = "done"
    <3> SUFFICES ASSUME NEW g \in 1..Len(cancels'), NEW h \in 1..Len(cancels'),
                        h < g, cancels'[g].phase # "waiting"
                 PROVE  cancels'[h].phase = "done"
      OBVIOUS
    <3>1. g \in 1..Len(cancels) /\ h \in 1..Len(cancels)
      BY <1>3, <1>4, <1>5
    <3> QED BY <3>1, <1>4 DEF Core, PromptInv, BarrierOf
  <2>2. cancellation' # 0 /\ cancellation' = Len(cancels')
    BY <1>1, <1>4
  <2> QED BY <2>1, <2>2 DEF BarrierOf
<1>8. PromptInvOf(None, lastOp, op, cancels', aborted', settled, dropped)
  <2>1. \A m \in Messages \ dropped : op[m].phase \in BackendPhase =>
           m \in aborted' /\ \E g \in 1..Len(cancels') : cancels'[g].phase # "done" /\ cancels'[g].target = m
    <3> SUFFICES ASSUME NEW m \in Messages \ dropped, op[m].phase \in BackendPhase
                 PROVE  m \in aborted' /\ \E g \in 1..Len(cancels') : cancels'[g].phase # "done"
                                                                      /\ cancels'[g].target = m
      OBVIOUS
    <3>1. CASE m = run
      <4>1. Len(cancels) + 1 \in 1..Len(cancels')
        BY <1>4
      <4> QED BY <3>1, <4>1, <1>1, <1>2, <1>3, <1>4, DriverAssumption
    <3>2. CASE m # run
      <4>1. PICK g \in 1..Len(cancels) : cancels[g].phase # "done" /\ cancels[g].target = m
        BY <3>2 DEF Core, PromptInv, PromptInvOf
      <4>2. m \in aborted
        BY <3>2 DEF Core, PromptInv, PromptInvOf
      <4>3. g \in 1..Len(cancels')
        BY <1>4
      <4> QED BY <4>1, <4>2, <4>3, <1>1, <1>4
    <3> QED BY <3>1, <3>2
  <2> QED BY <2>1 DEF Core, PromptInv, PromptInvOf
<1> QED BY <1>1, <1>4, <1>6, <1>7, <1>8 DEF Core, PromptInv, NoIdleQueue

\* The current run waits for the newest cancellation, which settles last.
LEMMA WaitsForAll ==
    ASSUME TypeOK, Core, NEW m \in Messages, op[m].phase = "cancellation", Cancelled(op[m].on), m = run
    PROVE  AllDone(cancels)
<1>1. op[m].on = Len(cancels) /\ Len(cancels) \in Nat
  BY DriverAssumption, LenProperties DEF Core, PromptInv, PromptInvOf, TypeOK
<1>2. \A g, h \in 1..Len(cancels) : h < g /\ cancels[g].phase # "waiting" => cancels[h].phase = "done"
  BY DEF Core, PromptInv, BarrierOf
<1>3. CASE Len(cancels) = 0
  BY <1>3 DEF AllDone
<1>4. CASE Len(cancels) # 0
  <2>1. Len(cancels) \in 1..Len(cancels) /\ cancels[Len(cancels)].phase = "done"
    BY <1>1, <1>4 DEF Cancelled
  <2>2. \A h \in 1..Len(cancels) : h = Len(cancels) \/ h < Len(cancels)
    BY <1>1
  <2> QED BY <1>2, <2>1, <2>2 DEF AllDone
<1> QED BY <1>3, <1>4

\* The stops of runPrompt: past the barrier, past the gate, past the model.
LEMMA OperationKeepsCore ==
    ASSUME TypeOK, Core, NEW m \in Messages,
           PassCancellation(m) \/ PassGate(m) \/ ModelSelected(m) \/ PassGateAgain(m) \/ Stream(m)
    PROVE  Core'
<1>1. op[m].phase = "cancellation" /\ Cancelled(op[m].on) /\ m = run => AllDone(cancels)
  BY WaitsForAll
<1>2. op[m].phase \in BackendPhase \cup {"gate"} /\ m = run => AllDone(cancels)
  BY DriverAssumption DEF Core, PromptInv, PromptInvOf
<1>3. gate \in Nat
  BY DEF TypeOK
<1>4. \E next \in Op :
         /\ Step(m, next)
         /\ \/ next.phase = "done"
            \/ /\ op[m].phase # "done" /\ next.phase \in BackendPhase \cup {"gate"}
               /\ m = run => AllDone(cancels)
               /\ next.phase \in BackendPhase => m = run \/ op[m].phase \in BackendPhase
  <2>1. CASE PassCancellation(m)
    BY <2>1, <1>1, <1>3 DEF PassCancellation, At, Op, OpPhase, BackendPhase, MayGoOn
  <2>2. CASE PassGate(m)
    BY <2>2, <1>2 DEF PassGate, At, Op, OpPhase, BackendPhase, MayGoOn
  <2>3. CASE ModelSelected(m)
    BY <2>3, <1>2, <1>3 DEF ModelSelected, At, Op, OpPhase, BackendPhase, MayGoOn
  <2>4. CASE PassGateAgain(m)
    BY <2>4, <1>2 DEF PassGateAgain, At, Op, OpPhase, BackendPhase, MayGoOn
  <2>5. CASE Stream(m)
    BY <2>5, <1>2 DEF Stream, At, Op, OpPhase, BackendPhase
  <2> QED BY <2>1, <2>2, <2>3, <2>4, <2>5
<1>5. PICK next \in Op :
         /\ Step(m, next)
         /\ \/ next.phase = "done"
            \/ /\ op[m].phase # "done" /\ next.phase \in BackendPhase \cup {"gate"}
               /\ m = run => AllDone(cancels)
               /\ next.phase \in BackendPhase => m = run \/ op[m].phase \in BackendPhase
  BY <1>4
<1>6. PromptInvOf(run, lastOp, [op EXCEPT ![m] = next], cancels, aborted, settled, dropped)
  BY <1>5, MoveOperation DEF Core, PromptInv, TypeOK
<1>7. /\ op' = [op EXCEPT ![m] = next]
      /\ UNCHANGED <<chatVars, run, splits, aborted, settled, lastOp, cancelVars, closing, dropped, sent>>
  BY <1>5 DEF Step, closeVars, truncation
<1> QED BY <1>6, <1>7 DEF Core, ChatInv, PromptInv, NoIdleQueue, chatVars, cancelVars

\* Ending the turn of the current run, whose operation is not at the backend.
LEMMA FinishTurnKeepsCore ==
    ASSUME TypeOK, NEW ops \in [Messages -> Op], FinishTurn(ops),
           ChatInv, BarrierOf(cancels, cancellation),
           PromptInvOf(run, lastOp, ops, cancels, aborted, settled, dropped),
           ops[run].phase \notin BackendPhase,
           UNCHANGED <<sent, splits, settled, aborted, cancels, cancellation, dropped>>
    PROVE  Core'
<1>1. ConsumeNext(None, None, queued, ops)
  BY DEF FinishTurn
<1>2. queued \in Seq(Messages) /\ cancels' \in Seq(Cancel) /\ cancellation' \in Nat /\ None \in MaybeMessage
  BY CancellationType DEF TypeOK, MaybeMessage
<1>3. ChatInvOf(None, None, queued, sent', splits', settled', dropped')
  BY <1>2, EndChat DEF ChatInv
<1>4. PromptInvOf(None, lastOp, ops, cancels', aborted', settled', dropped')
  BY EndRun
<1> QED BY <1>1, <1>2, <1>3, <1>4, ConsumeNextInv DEF Core

\* settlePrompt: the operation has ended; the turn ends with it unless the run
\* is not current any more or the driver is quiesced.
LEMMA PromptReturnsKeepsCore ==
    ASSUME TypeOK, Core, NEW m \in Messages, PromptReturns(m)
    PROVE  Core'
<1> DEFINE ops == [op EXCEPT ![m] = At("done", 0)]
<1>1. /\ op[m].phase \in {"preparing", "streaming"}
      /\ UNCHANGED <<splits, aborted, cancels, cancellation, closing, dropped, sent>>
  BY DEF PromptReturns, SettlePrompt, cancelVars, closeVars, truncation
<1>2. ops \in [Messages -> Op] /\ ops[m].phase = "done" /\ At("done", 0) \in Op /\ At("done", 0).phase = "done"
  BY DEF TypeOK, At, Op, OpPhase
<1>3. PromptInvOf(run, lastOp, ops, cancels, aborted, settled, dropped)
  BY <1>2, MoveOperation DEF Core, PromptInv, TypeOK
<1>4. ChatInv /\ BarrierOf(cancels, cancellation)
  BY DEF Core, PromptInv
<1> HIDE DEF ops
<1>5. CASE run = m /\ FinishTurn(ops) /\ UNCHANGED settled
  BY <1>1, <1>2, <1>3, <1>4, <1>5, FinishTurnKeepsCore DEF BackendPhase
<1>6. CASE /\ run = m /\ settled' = settled \cup {m}
           /\ Stay(run, activeTurn, ops)
           /\ UNCHANGED <<queued, steering, pendingSteer>>
  <2>1. PromptInvOf(run, lastOp, ops, cancels, aborted, settled', dropped')
    BY <1>1, <1>2, <1>3, <1>6 DEF PromptInvOf
  <2>2. m \in sent /\ \A i \in 1..Len(queued) : queued[i] # m
    BY <1>4, <1>6 DEF ChatInv, ChatInvOf
  <2>3. ChatInvOf(run, activeTurn, queued, sent, splits, settled', dropped')
    BY <1>1, <1>4, <1>6, <2>2 DEF ChatInv, ChatInvOf
  <2>4. run # None
    BY <1>6, DriverAssumption
  <2> QED BY <1>1, <1>4, <1>6, <2>1, <2>3, <2>4 DEF Core, ChatInv, PromptInv, NoIdleQueue, Stay
<1>7. CASE /\ run # m
           /\ Stay(run, activeTurn, ops)
           /\ UNCHANGED <<queued, steering, pendingSteer, settled>>
  BY <1>1, <1>3, <1>4, <1>7 DEF Core, ChatInv, PromptInv, NoIdleQueue, Stay
<1> QED BY <1>5, <1>6, <1>7 DEF PromptReturns, SettlePrompt, ops

\* A cancellation of the chain goes on.
LEMMA CancelStepKeepsCore ==
    ASSUME TypeOK, Core, NEW g \in DOMAIN cancels, CancelStep(g)
    PROVE  Core'
<1>1. cancels \in Seq(Cancel) /\ Len(cancels) \in Nat /\ g \in 1..Len(cancels) /\ cancels[g] \in Cancel
  BY LenProperties DEF TypeOK
<1>2. /\ cancellation = 0 => AllDone(cancels)
      /\ cancellation # 0 => cancellation = Len(cancels)
      /\ \A i, h \in 1..Len(cancels) : h < i /\ cancels[i].phase # "waiting" => cancels[h].phase = "done"
  BY DEF Core, PromptInv, BarrierOf
<1>3. UNCHANGED <<splits, settled, aborted, sent, closing, dropped>>
  BY DEF CancelStep, CancelStarts, AbortSettles, CancelEnds, runVars, closeVars, truncation
<1>4. ASSUME NEW phase \in {"aborting", "aborted", "done"},
             cancels' = [cancels EXCEPT ![g].phase = phase],
             cancels[g].phase # "done",
             \A h \in 1..Len(cancels) : h < g => cancels[h].phase = "done"
      PROVE  /\ Len(cancels') = Len(cancels) /\ cancels' \in Seq(Cancel)
             /\ cancels'[g].phase = phase /\ cancels'[g].target = cancels[g].target
             /\ \A h \in 1..Len(cancels) : h # g => cancels'[h] = cancels[h]
             /\ \A i, h \in 1..Len(cancels') : h < i /\ cancels'[i].phase # "waiting" => cancels'[h].phase = "done"
  <2>1. [cancels[g] EXCEPT !.phase = phase] \in Cancel
    BY <1>1 DEF Cancel
  <2>2. /\ Len(cancels') = Len(cancels) /\ cancels' \in Seq(Cancel)
        /\ cancels'[g] = [cancels[g] EXCEPT !.phase = phase]
        /\ \A h \in 1..Len(cancels) : h # g => cancels'[h] = cancels[h]
    BY <1>1, <1>4, <2>1, ExceptSeq
  <2>3. cancels'[g].phase = phase /\ cancels'[g].target = cancels[g].target
    BY <1>1, <2>2 DEF Cancel
  <2>4. ASSUME NEW i \in 1..Len(cancels), NEW h \in 1..Len(cancels), h < i, cancels'[i].phase # "waiting"
        PROVE  cancels'[h].phase = "done"
    <3>1. CASE i = g
      BY <3>1, <2>4, <2>2, <1>4, <1>1
    <3>2. CASE i # g /\ h # g
      BY <3>2, <2>4, <2>2, <1>2
    <3>3. CASE i # g /\ h = g
      BY <3>3, <2>4, <2>2, <1>2, <1>4
    <3> QED BY <3>1, <3>2, <3>3
  <2> QED BY <2>2, <2>3, <2>4
<1>5. CASE CancelStarts(g) \/ AbortSettles(g)
  <2>1. UNCHANGED <<chatVars, run, op, lastOp, cancellation>>
    BY <1>5 DEF CancelStarts, AbortSettles, runVars
  <2>2. \A h \in 1..Len(cancels) : h < g => cancels[h].phase = "done"
    <3>1. CASE AbortSettles(g)
      BY <3>1, <1>1, <1>2 DEF AbortSettles
    <3>2. CASE CancelStarts(g)
      <4>1. CASE g = 1
        BY <4>1
      <4>2. CASE g # 1
        <5>1. g - 1 \in 1..Len(cancels) /\ g - 1 # 0
          BY <4>2, <1>1
        <5>2. cancels[g - 1].phase = "done"
          BY <3>2, <5>1 DEF CancelStarts, Cancelled
        <5>3. \A h \in 1..Len(cancels) : h < g => h = g - 1 \/ h < g - 1
          BY <1>1
        <5> QED BY <5>1, <5>2, <5>3, <1>2
      <4> QED BY <4>1, <4>2
    <3> QED BY <1>5, <3>1, <3>2
  <2>3. PICK phase \in {"aborting", "aborted"} : cancels' = [cancels EXCEPT ![g].phase = phase]
    BY <1>5 DEF CancelStarts, AbortSettles
  <2>4. cancels[g].phase # "done"
    BY <1>5 DEF CancelStarts, AbortSettles
  <2>5. /\ Len(cancels') = Len(cancels)
        /\ cancels'[g].phase = phase /\ cancels'[g].target = cancels[g].target
        /\ \A h \in 1..Len(cancels) : h # g => cancels'[h] = cancels[h]
        /\ \A i, h \in 1..Len(cancels') : h < i /\ cancels'[i].phase # "waiting" => cancels'[h].phase = "done"
    BY <2>2, <2>3, <2>4, <1>4
  <2>6. ~AllDone(cancels)
    BY <2>4, <1>1 DEF AllDone
  <2>7. BarrierOf(cancels', cancellation')
    BY <2>1, <2>5, <2>6, <1>2 DEF BarrierOf
  <2>8. PromptInvOf(run, lastOp, op, cancels', aborted, settled, dropped)
    <3>1. \A m \in Messages \ dropped : op[m].phase \in BackendPhase /\ m # run =>
             m \in aborted /\ \E h \in 1..Len(cancels') : cancels'[h].phase # "done" /\ cancels'[h].target = m
      <4> SUFFICES ASSUME NEW m \in Messages \ dropped, op[m].phase \in BackendPhase, m # run
                   PROVE  m \in aborted /\ \E h \in 1..Len(cancels') : cancels'[h].phase # "done"
                                                                        /\ cancels'[h].target = m
        OBVIOUS
      <4>1. m \in aborted
        BY DEF Core, PromptInv, PromptInvOf
      <4>2. PICK h \in 1..Len(cancels) : cancels[h].phase # "done" /\ cancels[h].target = m
        BY DEF Core, PromptInv, PromptInvOf
      <4>3. cancels'[h].phase # "done" /\ cancels'[h].target = m
        BY <4>2, <2>3, <2>5
      <4> QED BY <4>1, <4>2, <4>3, <2>5
    <3> QED BY <3>1, <2>5, <2>6 DEF Core, PromptInv, PromptInvOf
  <2> QED BY <2>1, <2>7, <2>8, <1>3 DEF Core, ChatInv, ChatInvOf, PromptInv, NoIdleQueue, chatVars
<1>6. CASE CancelEnds(g)
  <2>1. /\ cancels[g].phase = "aborted"
        /\ cancels[g].target # None => ~Pending(cancels[g].target)
        /\ cancels' = [cancels EXCEPT ![g].phase = "done"]
        /\ cancellation' = IF g = Len(cancels) THEN 0 ELSE cancellation
        /\ ConsumeNext(run, activeTurn, queued, op)
    BY <1>6 DEF CancelEnds, BarrierAfter
  <2>2. \A h \in 1..Len(cancels) : h < g => cancels[h].phase = "done"
    BY <2>1, <1>1, <1>2
  <2>3. /\ Len(cancels') = Len(cancels) /\ cancels' \in Seq(Cancel)
        /\ cancels'[g].phase = "done" /\ cancels'[g].target = cancels[g].target
        /\ \A h \in 1..Len(cancels) : h # g => cancels'[h] = cancels[h]
        /\ \A i, h \in 1..Len(cancels') : h < i /\ cancels'[i].phase # "waiting" => cancels'[h].phase = "done"
    BY <2>1, <2>2, <1>4
  <2>4. g = Len(cancels) => AllDone(cancels')
    <3>1. \A h \in 1..Len(cancels) : h < Len(cancels) \/ h = Len(cancels)
      BY <1>1
    <3> QED BY <3>1, <2>2, <2>3 DEF AllDone
  <2>5. ~AllDone(cancels)
    BY <2>1, <1>1 DEF AllDone
  <2>6. BarrierOf(cancels', cancellation')
    BY <2>1, <2>3, <2>4, <2>5, <1>2 DEF BarrierOf
  <2>7. PromptInvOf(run, lastOp, op, cancels', aborted', settled', dropped')
    <3>1. \A m \in Messages \ dropped : op[m].phase \in BackendPhase /\ m # run =>
             m \in aborted /\ \E h \in 1..Len(cancels') : cancels'[h].phase # "done" /\ cancels'[h].target = m
      <4> SUFFICES ASSUME NEW m \in Messages \ dropped, op[m].phase \in BackendPhase, m # run
                   PROVE  m \in aborted /\ \E h \in 1..Len(cancels') : cancels'[h].phase # "done"
                                                                        /\ cancels'[h].target = m
        OBVIOUS
      <4>1. m \in aborted
        BY DEF Core, PromptInv, PromptInvOf
      <4>2. PICK h \in 1..Len(cancels) : cancels[h].phase # "done" /\ cancels[h].target = m
        BY DEF Core, PromptInv, PromptInvOf
      <4>3. Pending(m) /\ m # None
        BY DriverAssumption DEF Pending, BackendPhase
      <4>4. h # g
        BY <4>2, <4>3, <2>1
      <4> QED BY <4>1, <4>2, <4>4, <2>3
    <3> QED BY <3>1, <2>3, <2>5, <1>3 DEF Core, PromptInv, PromptInvOf
  <2>8. ChatInvOf(run, activeTurn, queued, sent', splits', settled', dropped')
    BY <1>3 DEF Core, ChatInv
  <2>9. run \in MaybeMessage /\ op \in [Messages -> Op] /\ queued \in Seq(Messages) /\ cancellation' \in Nat
    BY <2>1, CancellationType DEF TypeOK, MaybeMessage
  <2> QED BY <2>1, <2>3, <2>6, <2>7, <2>8, <2>9, ConsumeNextInv DEF Core
<1> QED BY <1>5, <1>6 DEF CancelStep

\* pi injects a steering message: the current run's turn splits.
LEMMA PiInjectsKeepsCore ==
    ASSUME TypeOK, Core, NEW m \in Messages, PiInjects(m)
    PROVE  Core'
<1>1. UNCHANGED <<queued, run, aborted, settled, op, lastOp, cancels, cancellation, closing, dropped, sent>>
  BY DEF PiInjects, cancelVars, closeVars, truncation
<1>2. ChatInv'
  <2>1. CASE UNCHANGED <<splits, activeTurn>>
    BY <2>1, <1>1 DEF Core, ChatInv, ChatInvOf
  <2>2. CASE /\ run # None
             /\ splits' = [splits EXCEPT ![run] = @ + 1]
             /\ activeTurn' = <<run, splits[run] + 1>>
    <3>1. run \in Messages /\ run \in sent /\ \A i \in 1..Len(queued) : queued[i] # run
      BY <2>2 DEF Core, ChatInv, ChatInvOf, TypeOK
    <3>2. splits'[run] = splits[run] + 1 /\ \A n \in Messages : n # run => splits'[n] = splits[n]
      BY <2>2, <3>1 DEF TypeOK
    <3>3. \A i \in 1..Len(queued) : queued[i] \in Messages
      BY DEF TypeOK
    <3>4. \A i \in 1..Len(queued) : /\ queued[i] \in sent /\ splits'[queued[i]] = 0
                                    /\ queued[i] # run /\ queued[i] \notin settled
      BY <3>1, <3>2, <3>3 DEF Core, ChatInv, ChatInvOf
    <3>5. \A n \in Messages : n \notin sent => splits'[n] = 0 /\ n # run /\ n \notin settled
      BY <3>1, <3>2 DEF Core, ChatInv, ChatInvOf
    <3>6. \A i, j \in 1..Len(queued) : queued[i] = queued[j] => i = j
      BY DEF Core, ChatInv, ChatInvOf
    <3> QED BY <2>2, <3>2, <3>4, <3>5, <3>6, <1>1 DEF ChatInv, ChatInvOf
  <2> QED BY <2>1, <2>2 DEF PiInjects
<1> QED BY <1>1, <1>2 DEF Core, PromptInv, PromptInvOf, BarrierOf, AllDone, NoIdleQueue

\* A committed truncation drops the turn of the current run, if there is one.
LEMMA EndTruncationKeepsCore ==
    ASSUME TypeOK, Core, EndTruncation
    PROVE  Core'
<1>1. /\ UNCHANGED <<queued, run, splits, aborted, settled, op, lastOp, cancels, cancellation, closing, sent>>
      /\ dropped \subseteq dropped'
      /\ activeTurn' = activeTurn \/ (activeTurn' = None /\ (run = None \/ run \in dropped'))
  BY DEF EndTruncation, runVars, cancelVars, closeVars
<1>2. ChatInv' /\ NoIdleQueue'
  BY <1>1 DEF Core, ChatInv, ChatInvOf, NoIdleQueue
<1>3. PromptInv'
  BY <1>1 DEF Core, PromptInv, PromptInvOf, BarrierOf, AllDone
<1> QED BY <1>2, <1>3 DEF Core

\* Disposal: only its last drain, and the reopening after a failure, end a run.
LEMMA CloseKeepsCore ==
    ASSUME TypeOK, Core, Quiesce \/ CloseStep
    PROVE  Core'
<1>1. CASE Quiesce \/ QuiesceAborted \/ Dispose
  BY <1>1, FrameKeepsCore
  DEF Quiesce, QuiesceAborted, Dispose, chatVars, runVars, cancelVars, truncation
<1>2. ChatInv /\ BarrierOf(cancels, cancellation) /\ PromptInvOf(run, lastOp, op, cancels, aborted, settled, dropped)
  BY DEF Core, PromptInv
<1>3. op \in [Messages -> Op]
  BY DEF TypeOK
<1>4. CASE QuiesceDrained
  <2>1. UNCHANGED <<splits, aborted, settled, cancelVars, dropped, sent>> /\ closing' # "no"
    BY <1>4 DEF QuiesceDrained, truncation
  <2>2. CASE run = None
    BY <1>4, <2>1, <2>2, FrameKeepsCore DEF QuiesceDrained, chatVars
  <2>3. CASE run # None
    <3>1. run \in Messages /\ FinishTurn(op)
      BY <1>4, <2>3 DEF QuiesceDrained, TypeOK
    <3>2. op[run].phase \notin BackendPhase
      BY <1>4, <3>1 DEF QuiesceDrained, InFlight, Pending, BackendPhase
    <3> QED BY <1>2, <1>3, <2>1, <3>1, <3>2, FinishTurnKeepsCore DEF cancelVars
  <2> QED BY <2>2, <2>3
<1>5. CASE Resume
  <2>1. UNCHANGED <<splits, aborted, settled, cancels, cancellation, dropped, sent>>
    BY <1>5 DEF Resume, cancelVars, truncation
  <2>2. CASE run \in settled
    <3>1. op[run].phase \notin BackendPhase
      BY <1>2, <2>2 DEF PromptInvOf, BackendPhase
    <3> QED BY <1>2, <1>3, <1>5, <2>1, <2>2, <3>1, FinishTurnKeepsCore DEF Resume
  <2>3. CASE run \notin settled
    <3>1. ConsumeNext(run, activeTurn, queued, op)
      BY <1>5, <2>3 DEF Resume
    <3>2. /\ run \in MaybeMessage /\ queued \in Seq(Messages)
          /\ cancels' \in Seq(Cancel) /\ cancellation' \in Nat
      BY <2>1, CancellationType DEF TypeOK, MaybeMessage
    <3>3. /\ ChatInvOf(run, activeTurn, queued, sent', splits', settled', dropped')
          /\ PromptInvOf(run, lastOp, op, cancels', aborted', settled', dropped')
          /\ BarrierOf(cancels', cancellation')
      BY <1>2, <2>1 DEF ChatInv
    <3> QED BY <1>3, <3>1, <3>2, <3>3, ConsumeNextInv DEF Core
  <2> QED BY <2>2, <2>3
<1> QED BY <1>1, <1>4, <1>5 DEF CloseStep

\* Every step keeps the core of the invariant.
LEMMA NextKeepsCore ==
    ASSUME TypeOK, Core, [Next]_vars
    PROVE  Core'
<1>1. ASSUME NEW m \in Messages, SteerChat(m) \/ SteerStep(m)
      PROVE  Core'
  BY <1>1, FrameKeepsCore
  DEF SteerChat, SteerStep, PassSteerCancellation, SteerReachesPi, SteerFails, Fresh, Send,
      Core, ChatInv, ChatInvOf, PromptInv, NoIdleQueue, chatVars, runVars, cancelVars, closeVars, truncation
<1>2. CASE StartTruncation \/ PiClearsQueue \/ UNCHANGED vars
  BY <1>2, FrameKeepsCore
  DEF StartTruncation, PiClearsQueue, vars, chatVars, runVars, cancelVars, closeVars, truncation
<1> QED
  BY <1>1, <1>2, StartTurnKeepsCore, QueueKeepsCore, RemoveQueuedKeepsCore, CancelTurnKeepsCore,
     OperationKeepsCore, PromptReturnsKeepsCore, CancelStepKeepsCore, PiInjectsKeepsCore, CloseKeepsCore,
     EndTruncationKeepsCore
  DEF Next, ClientAction, OpStep, Gone

-----------------------------------------------------------------------------
(* Theorems *)

LEMMA InitCore == Init => Core
<1> SUFFICES ASSUME Init PROVE Core
  OBVIOUS
<1>1. Len(queued) = 0 /\ Len(cancels) = 0
  BY DEF Init
<1>2. ChatInv
  BY <1>1, DriverAssumption DEF Init, ChatInv, ChatInvOf
<1>3. PromptInv
  BY <1>1 DEF Init, PromptInv, PromptInvOf, BarrierOf, AllDone, At, BackendPhase
<1> QED BY <1>2, <1>3 DEF Core, Init, NoIdleQueue

\* Every value the driver, its chat and pi's queue hold has its type.
THEOREM TypeCorrect == Spec => []TypeOK
BY InitType, NextType, PTL DEF Spec

LEMMA CoreInvariant == Spec => []Core
BY InitCore, NextKeepsCore, TypeCorrect, PTL DEF Spec

\* The chat's active turn is the current run's latest turn, however turns,
\* cancellations, injections and failed disposals interleave; it is missing only
\* for a run whose turn a truncation dropped.
THEOREM TurnOwnership == Spec => []RunOwnsActiveTurn
<1>1. Core => RunOwnsActiveTurn
  BY DEF Core, ChatInv, ChatInvOf, RunOwnsActiveTurn
<1> QED BY <1>1, CoreInvariant, PTL

\* chat-driver.ts never hands the backend a second prompt while one is there,
\* for any number of turns, cancellations and disposals, as long as no truncation
\* drops the turn of one of them.
THEOREM PromptsExclusive == Spec => []OnePromptAtATime
<1>1. Core => OnePromptAtATime
  BY DEF Core, PromptInv, PromptInvOf, OnePromptAtATime, Backend, BackendPhase
<1> QED BY <1>1, CoreInvariant, PTL

\* A live run is never at the backend before every cancellation has settled, so
\* no pending abort can hit it.
THEOREM CancellationsFirst == Spec => []CancellationSettlesFirst
<1>1. ASSUME TypeOK, Core
      PROVE  CancellationSettlesFirst
  <2> SUFFICES ASSUME NEW g \in DOMAIN cancels, cancels[g].phase # "done",
                      NEW m \in Messages, Backend(m)
               PROVE  m # run /\ m \in aborted \cup dropped
    BY DEF CancellationSettlesFirst
  <2>1. ~AllDone(cancels)
    <3>1. DOMAIN cancels = 1..Len(cancels)
      BY <1>1, LenProperties DEF TypeOK
    <3> QED BY <3>1 DEF AllDone
  <2>2. op[m].phase \in BackendPhase /\ m # None
    BY DriverAssumption DEF Backend, BackendPhase
  <2>3. m # run
    BY <1>1, <2>1, <2>2 DEF Core, PromptInv, PromptInvOf
  <2> QED BY <1>1, <2>2, <2>3 DEF Core, PromptInv, PromptInvOf
<1> QED BY <1>1, TypeCorrect, CoreInvariant, PTL

\* A driver that may take a queued message has taken it.
THEOREM QueueNeverIdle == Spec => []NoIdleQueue
<1>1. Core => NoIdleQueue
  BY DEF Core
<1> QED BY <1>1, CoreInvariant, PTL

\* From the return of quiesce to resume nothing is in flight and no turn is open.
THEOREM QuiescenceLasts == Spec => []QuiescenceHolds
<1>1. Init => QuiescenceHolds
  BY DEF Init, QuiescenceHolds
<1>2. ASSUME TypeOK, Core, QuiescenceHolds, [Next]_vars
      PROVE  QuiescenceHolds'
  <2>1. CASE closing \in {"held", "gone"}
    <3>1. ~InFlight /\ run = None /\ activeTurn = None
      BY <1>2, <2>1 DEF QuiescenceHolds
    <3>2. /\ \A m \in Messages : op[m].phase \in {"none", "done"}
          /\ \A m \in Messages : steers[m].phase \notin {"cancellation", "preparing"}
          /\ \A g \in DOMAIN cancels : cancels[g].phase = "done"
          /\ ~truncating
      BY <3>1 DEF InFlight, Pending
    <3>3. \/ closing' = "no"
          \/ UNCHANGED <<run, activeTurn, op, steers, cancels, truncating>>
      <4>1. ~ClientAction /\ ~EndTruncation /\ ~Quiesce /\ ~QuiesceAborted /\ ~QuiesceDrained
        BY <2>1, <3>2 DEF ClientAction, StartTurn, Queue, RemoveQueued, SteerChat, Fresh, CancelTurn,
           StartTruncation, EndTruncation, Quiesce, QuiesceAborted, QuiesceDrained
      <4>2. \A m \in Messages : ~OpStep(m) /\ ~Stream(m) /\ ~PiInjects(m) /\ ~SteerStep(m)
        BY <3>2 DEF OpStep, PassCancellation, PassGate, ModelSelected, PassGateAgain, PromptReturns,
           Stream, PiInjects, SteerStep, PassSteerCancellation, SteerReachesPi, SteerFails
      <4>3. \A g \in DOMAIN cancels : ~CancelStep(g)
        BY <3>2 DEF CancelStep, CancelStarts, AbortSettles, CancelEnds
      <4>4. CASE PiClearsQueue \/ Dispose \/ UNCHANGED vars
        BY <4>4 DEF PiClearsQueue, Dispose, vars, chatVars, runVars, steerVars, cancelVars, truncation
      <4>5. CASE Resume
        BY <4>5 DEF Resume
      <4> QED BY <1>2, <4>1, <4>2, <4>3, <4>4, <4>5 DEF Next, CloseStep, Gone
    <3> QED BY <3>1, <3>3 DEF QuiescenceHolds, InFlight, Pending
  <2>2. CASE closing \notin {"held", "gone"} /\ closing' \in {"held", "gone"}
    <3>1. QuiesceDrained
      <4>1. CASE QuiesceDrained
        BY <4>1
      <4>2. CASE ~QuiesceDrained
        BY <1>2, <2>2, <4>2
        DEF Next, ClientAction, StartTurn, Queue, RemoveQueued, SteerChat, CancelTurn, StartTruncation,
            OpStep, PassCancellation, PassGate, ModelSelected, PassGateAgain, PromptReturns, SettlePrompt,
            Step, Stream, PiInjects, SteerStep, PassSteerCancellation, SteerReachesPi, SteerFails,
            CancelStep, CancelStarts, AbortSettles, CancelEnds, EndTruncation, PiClearsQueue,
            Quiesce, CloseStep, QuiesceAborted, Resume, Dispose, Gone, vars, closeVars, truncation
      <4> QED BY <4>1, <4>2
    <3>2. ~InFlight /\ UNCHANGED <<steers, cancels, truncating>> /\ closing' = "held"
      BY <3>1 DEF QuiesceDrained, cancelVars, truncation
    <3>3. run' = None /\ activeTurn' = None /\ op' = op
      <4>1. CASE run = None
        BY <1>2, <3>1, <4>1 DEF QuiesceDrained, Core, ChatInv, ChatInvOf, chatVars
      <4>2. CASE run # None
        BY <3>1, <3>2, <4>2 DEF QuiesceDrained, FinishTurn, ConsumeNext, Stay
      <4> QED BY <4>1, <4>2
    <3> QED BY <3>2, <3>3 DEF QuiescenceHolds, InFlight, Pending
  <2>3. CASE closing' \notin {"held", "gone"}
    BY <2>3 DEF QuiescenceHolds
  <2> QED BY <2>1, <2>2, <2>3
<1> QED BY <1>1, <1>2, TypeCorrect, CoreInvariant, PTL DEF Spec

-----------------------------------------------------------------------------
(* A new turn and the cancellations before it *)

\* The operation of a run that is live before every cancellation has settled
\* has not passed its first await.
WaitInvOf(r, ops, cans) == r # None /\ ~AllDone(cans) => ops[r].phase = "cancellation"

WaitInv == WaitInvOf(run, op, cancels)

\* A run that begins waits if the barrier is up.
LEMMA BeginWaits ==
    ASSUME NEW m \in Messages, NEW ops \in [Messages -> Op], Begin(m, ops),
           BarrierOf(cancels', cancellation')
    PROVE  WaitInv'
<1>1. PICK first \in FirstStop(m) : op' = [ops EXCEPT ![m] = first]
  BY DEF Begin
<1>2. op'[m] = first /\ run' = m
  BY <1>1 DEF Begin
<1>3. cancellation' # 0 => first.phase = "cancellation"
  BY <1>1 DEF FirstStop, At
<1>4. cancellation' = 0 => AllDone(cancels')
  BY DEF BarrierOf
<1> QED BY <1>2, <1>3, <1>4 DEF WaitInv, WaitInvOf

LEMMA ConsumeNextWaits ==
    ASSUME NEW r, NEW turn, NEW queue \in Seq(Messages), NEW ops \in [Messages -> Op],
           ConsumeNext(r, turn, queue, ops), WaitInvOf(r, ops, cancels'),
           BarrierOf(cancels', cancellation')
    PROVE  WaitInv'
<1>1. CASE queued' = queue /\ run' = r /\ op' = ops
  BY <1>1 DEF WaitInv
<1>2. CASE queue # <<>> /\ Begin(Head(queue), ops)
  <2>1. Head(queue) \in Messages
    BY <1>2, HeadTailProperties
  <2> QED BY <1>2, <2>1, BeginWaits
<1> QED BY <1>1, <1>2, ConsumeNextCases

\* An operation moves on: the current run's leaves its first await only when
\* every cancellation has settled, so afterwards nothing is asked of it.
LEMMA OperationWaits ==
    ASSUME TypeOK, Core, WaitInv, NEW m \in Messages,
           PassCancellation(m) \/ PassGate(m) \/ ModelSelected(m) \/ PassGateAgain(m) \/ Stream(m)
    PROVE  WaitInv'
<1>1. PICK next : Step(m, next)
  BY DEF PassCancellation, PassGate, ModelSelected, PassGateAgain, Stream
<1>2. run' = run /\ cancels' = cancels /\ op' = [op EXCEPT ![m] = next]
  BY <1>1 DEF Step, cancelVars
<1>3. CASE m = run
  <2>1. op[m].phase = "cancellation" => Cancelled(op[m].on)
    BY DEF PassCancellation, PassGate, ModelSelected, PassGateAgain, Stream
  <2>2. AllDone(cancels)
    BY <1>3, <2>1, WaitsForAll, DriverAssumption DEF WaitInv, WaitInvOf
  <2> QED BY <1>2, <2>2 DEF WaitInv, WaitInvOf
<1>4. CASE m # run
  <2>1. op'[run] = op[run] \/ run = None
    BY <1>2, <1>4 DEF TypeOK
  <2> QED BY <1>2, <2>1 DEF WaitInv, WaitInvOf
<1> QED BY <1>3, <1>4

LEMMA PromptReturnsWaits ==
    ASSUME TypeOK, Core, Core', WaitInv, NEW m \in Messages, PromptReturns(m)
    PROVE  WaitInv'
<1> DEFINE ops == [op EXCEPT ![m] = At("done", 0)]
<1>1. op[m].phase \in {"preparing", "streaming"} /\ UNCHANGED <<cancels, cancellation>>
  BY DEF PromptReturns, SettlePrompt, cancelVars
<1>2. BarrierOf(cancels', cancellation')
  BY DEF Core, PromptInv
<1>3. ops \in [Messages -> Op] /\ queued \in Seq(Messages)
  BY DEF TypeOK, At, Op, OpPhase
<1>4. WaitInvOf(None, ops, cancels')
  BY DEF WaitInvOf
<1>5. m # None /\ \A n \in Messages : n # m => ops[n] = op[n]
  BY DriverAssumption
<1>6. m = run => AllDone(cancels)
  BY <1>1, <1>5 DEF WaitInv, WaitInvOf
<1> HIDE DEF ops
<1>7. CASE FinishTurn(ops)
  <2>1. ConsumeNext(None, None, queued, ops)
    BY <1>7 DEF FinishTurn
  <2> QED BY <1>2, <1>3, <1>4, <2>1, ConsumeNextWaits
<1>8. CASE Stay(run, activeTurn, ops)
  <2>1. run' = run /\ op' = ops
    BY <1>8 DEF Stay
  <2>2. run # None /\ run # m => op'[run] = op[run]
    BY <1>5, <2>1 DEF TypeOK
  <2> QED BY <1>1, <1>6, <2>1, <2>2 DEF WaitInv, WaitInvOf
<1> QED BY <1>7, <1>8 DEF PromptReturns, SettlePrompt, ops

\* While a cancellation is still unsettled the barrier is up, and nothing begins.
LEMMA CancelStepWaits ==
    ASSUME TypeOK, Core, Core', WaitInv, NEW g \in DOMAIN cancels, CancelStep(g)
    PROVE  WaitInv'
<1>1. cancels[g].phase # "done" /\ g \in 1..Len(cancels)
  BY DEF CancelStep, CancelStarts, AbortSettles, CancelEnds, TypeOK
<1>2. ~AllDone(cancels)
  BY <1>1 DEF AllDone
<1>3. run # None => op[run].phase = "cancellation"
  BY <1>2 DEF WaitInv, WaitInvOf
<1>4. CASE CancelStarts(g) \/ AbortSettles(g)
  BY <1>3, <1>4 DEF CancelStarts, AbortSettles, runVars, WaitInv, WaitInvOf
<1>5. CASE CancelEnds(g)
  <2>1. ConsumeNext(run, activeTurn, queued, op)
    BY <1>5 DEF CancelEnds
  <2>2. WaitInvOf(run, op, cancels') /\ BarrierOf(cancels', cancellation')
    BY <1>3 DEF WaitInvOf, Core, PromptInv
  <2> QED BY <2>1, <2>2, ConsumeNextWaits DEF TypeOK
<1> QED BY <1>4, <1>5 DEF CancelStep

LEMMA CloseWaits ==
    ASSUME TypeOK, Core', WaitInv, Quiesce \/ CloseStep
    PROVE  WaitInv'
<1>1. CASE Quiesce \/ QuiesceAborted \/ Dispose
  BY <1>1 DEF Quiesce, QuiesceAborted, Dispose, runVars, cancelVars, WaitInv, WaitInvOf
<1>2. ASSUME QuiesceDrained \/ Resume
      PROVE  cancels' = cancels /\ \/ FinishTurn(op)
                                   \/ ConsumeNext(run, activeTurn, queued, op)
                                   \/ UNCHANGED <<run, op>>
  BY <1>2 DEF QuiesceDrained, Resume, cancelVars
<1>3. BarrierOf(cancels', cancellation') /\ op \in [Messages -> Op] /\ queued \in Seq(Messages)
  BY DEF Core, PromptInv, TypeOK
<1>4. CASE QuiesceDrained \/ Resume
  <2>1. CASE FinishTurn(op)
    <3>1. ConsumeNext(None, None, queued, op)
      BY <2>1 DEF FinishTurn
    <3>2. WaitInvOf(None, op, cancels')
      BY DEF WaitInvOf
    <3> QED BY <1>3, <3>1, <3>2, ConsumeNextWaits
  <2>2. CASE ConsumeNext(run, activeTurn, queued, op)
    BY <1>2, <1>3, <1>4, <2>2, ConsumeNextWaits DEF WaitInv
  <2>3. CASE UNCHANGED <<run, op>>
    BY <1>2, <1>4, <2>3 DEF WaitInv, WaitInvOf
  <2> QED BY <1>2, <1>4, <2>1, <2>2, <2>3
<1> QED BY <1>1, <1>4 DEF CloseStep

LEMMA NextWaits ==
    ASSUME TypeOK, Core, Core', WaitInv, [Next]_vars
    PROVE  WaitInv'
<1>1. ASSUME NEW m \in Messages, StartTurn(m)
      PROVE  WaitInv'
  <2>1. Begin(m, op) /\ BarrierOf(cancels', cancellation')
    BY <1>1 DEF StartTurn, Core, PromptInv
  <2> QED BY <2>1, BeginWaits DEF TypeOK
<1>2. ASSUME NEW m \in Messages, Queue(m)
      PROVE  WaitInv'
  <2>1. ConsumeNext(run, activeTurn, Append(queued, m), op) /\ cancels' = cancels
    BY <1>2 DEF Queue, cancelVars
  <2>2. Append(queued, m) \in Seq(Messages)
    BY AppendProperties DEF TypeOK
  <2>3. BarrierOf(cancels', cancellation') /\ WaitInvOf(run, op, cancels')
    BY <2>1 DEF Core, PromptInv, WaitInv
  <2> QED BY <2>1, <2>2, <2>3, ConsumeNextWaits DEF TypeOK
<1>3. CASE CancelTurn
  BY <1>3 DEF CancelTurn, WaitInv, WaitInvOf
<1>4. ASSUME NEW m \in Messages, RemoveQueued(m) \/ SteerChat(m) \/ SteerStep(m) \/ PiInjects(m)
      PROVE  WaitInv'
  <2>1. UNCHANGED <<run, op, cancels>>
    BY <1>4 DEF RemoveQueued, SteerChat, SteerStep, PassSteerCancellation, SteerReachesPi, SteerFails,
                PiInjects, runVars, cancelVars
  <2> QED BY <2>1 DEF WaitInv, WaitInvOf
<1>5. CASE StartTruncation \/ EndTruncation \/ PiClearsQueue \/ UNCHANGED vars
  BY <1>5 DEF StartTruncation, EndTruncation, PiClearsQueue, vars, runVars, cancelVars, WaitInv, WaitInvOf
<1> QED
  BY <1>1, <1>2, <1>3, <1>4, <1>5, OperationWaits, PromptReturnsWaits, CancelStepWaits, CloseWaits
  DEF Next, ClientAction, OpStep, Gone

LEMMA WaitInvariant == Spec => []WaitInv
<1>1. Init => WaitInv
  BY DEF Init, WaitInv, WaitInvOf
<1> QED BY <1>1, NextWaits, TypeCorrect, CoreInvariant, PTL DEF Spec

\* A prompt that pi still streams without being the current run's was aborted (or
\* lost its turn to a truncation), and the turn that is shown meanwhile has not reached the backend: the output
\* of two prompts never mixes in one turn, for any number of restarts.
THEOREM StrayOutputComesFirst == Spec => []StrayEventsComeFirst
<1>1. ASSUME Core, WaitInv
      PROVE  StrayEventsComeFirst
  <2> SUFFICES ASSUME NEW m \in Messages \ dropped, op[m].phase = "streaming", run \notin {None, m}
               PROVE  m \in aborted /\ op[run].phase = "cancellation"
    BY DEF StrayEventsComeFirst
  <2>1. op[m].phase \in BackendPhase /\ m # run
    BY DEF BackendPhase
  <2>2. m \in aborted /\ \E g \in 1..Len(cancels) : cancels[g].phase # "done"
    BY <1>1, <2>1 DEF Core, PromptInv, PromptInvOf
  <2>3. ~AllDone(cancels)
    BY <2>2 DEF AllDone
  <2> QED BY <1>1, <2>2, <2>3 DEF WaitInv, WaitInvOf
<1> QED BY <1>1, CoreInvariant, WaitInvariant, PTL

-----------------------------------------------------------------------------
(* What a truncation holds back *)

\* Disposal and truncation exclude each other.
TruncationInv == truncating => closing = "no"

LEMMA TruncationInvariant == Spec => []TruncationInv
<1>1. Init => TruncationInv
  BY DEF Init, TruncationInv
<1>2. ASSUME TruncationInv, [Next]_vars
      PROVE  TruncationInv'
  <2>1. ASSUME NEW m \in Messages, StartTurn(m) \/ Queue(m) \/ RemoveQueued(m) \/ SteerChat(m) \/ SteerStep(m)
        PROVE  UNCHANGED <<truncating, closing>>
    BY <2>1 DEF StartTurn, Queue, RemoveQueued, SteerChat, SteerStep, PassSteerCancellation, SteerReachesPi,
                SteerFails, closeVars, truncation
  <2>2. ASSUME NEW m \in Messages, OpStep(m) \/ Stream(m) \/ PiInjects(m)
        PROVE  UNCHANGED <<truncating, closing>>
    BY <2>2 DEF OpStep, PassCancellation, PassGate, ModelSelected, PassGateAgain, PromptReturns, SettlePrompt,
                Stream, Step, PiInjects, closeVars, truncation
  <2>3. ASSUME NEW g \in DOMAIN cancels, CancelStep(g)
        PROVE  UNCHANGED <<truncating, closing>>
    BY <2>3 DEF CancelStep, CancelStarts, AbortSettles, CancelEnds, closeVars, truncation
  <2>4. CASE UNCHANGED <<truncating, closing>>
    BY <1>2, <2>4 DEF TruncationInv
  <2>5. CASE CancelTurn \/ PiClearsQueue \/ UNCHANGED vars
    BY <1>2, <2>5 DEF CancelTurn, PiClearsQueue, vars, closeVars, truncation, TruncationInv
  <2>6. CASE StartTruncation \/ EndTruncation
    BY <2>6 DEF StartTruncation, EndTruncation, closeVars, truncation, TruncationInv
  <2>7. CASE Quiesce \/ CloseStep
    BY <1>2, <2>7 DEF Quiesce, CloseStep, QuiesceAborted, QuiesceDrained, Resume, Dispose, truncation, TruncationInv
  <2> QED BY <1>2, <2>1, <2>2, <2>3, <2>4, <2>5, <2>6, <2>7 DEF Next, ClientAction, Gone
<1> QED BY <1>1, <1>2, PTL DEF Spec

\* While pi moves its leaf a run can begin only for the first queued message:
\* when the run before it ends, or when the newest cancellation has settled.
THEOREM OnlyTheQueueGoesOn == Spec => TruncationHoldsClients
<1>1. ASSUME TypeOK, Core, TruncationInv, [Next]_vars, truncating, run' \notin {run, None}
      PROVE  /\ queued # <<>> /\ run' = Head(queued) /\ queued' = Tail(queued)
             /\ run = None => cancellation # 0 /\ cancellation' = 0
  <2>1. closing = "no"
    BY <1>1 DEF TruncationInv
  <2>2. ~ClientAction /\ ~Quiesce /\ ~CloseStep
    <3>1. ~StartTruncation /\ ~Quiesce
      BY <1>1 DEF StartTruncation, Quiesce
    <3>2. ~CloseStep
      BY <2>1 DEF CloseStep, QuiesceAborted, QuiesceDrained, Resume, Dispose
    <3>3. ~CancelTurn
      BY <1>1 DEF CancelTurn
    <3>4. ASSUME NEW m \in Messages
          PROVE  ~StartTurn(m) /\ ~Queue(m) /\ ~RemoveQueued(m) /\ ~SteerChat(m)
      BY <1>1 DEF StartTurn, Queue, RemoveQueued, SteerChat, Fresh
    <3> QED BY <3>1, <3>2, <3>3, <3>4 DEF ClientAction
  <2>3. ~EndTruncation /\ ~PiClearsQueue /\ vars' # vars
    BY <1>1 DEF EndTruncation, PiClearsQueue, vars, runVars
  <2>4. ASSUME NEW m \in Messages
        PROVE  (OpStep(m) => PromptReturns(m)) /\ ~Stream(m) /\ ~PiInjects(m) /\ ~SteerStep(m)
    <3>1. ~PassCancellation(m) /\ ~PassGate(m) /\ ~ModelSelected(m) /\ ~PassGateAgain(m) /\ ~Stream(m)
      BY <1>1 DEF PassCancellation, PassGate, ModelSelected, PassGateAgain, Stream, Step
    <3>2. ~PiInjects(m) /\ ~SteerStep(m)
      BY <1>1 DEF PiInjects, SteerStep, PassSteerCancellation, SteerReachesPi, SteerFails, runVars
    <3> QED BY <3>1, <3>2 DEF OpStep
  <2>5. \/ \E m \in Messages : PromptReturns(m)
        \/ \E g \in DOMAIN cancels : CancelStep(g)
    BY <1>1, <2>2, <2>3, <2>4 DEF Next, Gone
  <2>6. queued \in Seq(Messages)
    BY <1>1 DEF TypeOK
  <2>7. ASSUME NEW r \in {None, run}, NEW turn, NEW ops, ConsumeNext(r, turn, queued, ops)
        PROVE  queued # <<>> /\ run' = Head(queued) /\ queued' = Tail(queued) /\ cancellation' = 0
    BY <1>1, <2>6, <2>7, ConsumeNextCases DEF Begin
  <2>8. CASE \E m \in Messages : PromptReturns(m)
    <3>1. PICK m \in Messages : PromptReturns(m)
      BY <2>8
    <3> DEFINE ops == [op EXCEPT ![m] = At("done", 0)]
    <3> HIDE DEF ops
    <3>2. run = m /\ FinishTurn(ops)
      BY <1>1, <3>1 DEF PromptReturns, SettlePrompt, Stay, ops
    <3>3. run # None /\ ConsumeNext(None, None, queued, ops)
      BY <3>2, DriverAssumption DEF FinishTurn
    <3> QED BY <3>3, <2>7
  <2>9. CASE \E g \in DOMAIN cancels : CancelStep(g)
    <3>1. PICK g \in DOMAIN cancels : CancelStep(g)
      BY <2>9
    <3>2. CancelEnds(g)
      BY <1>1, <3>1 DEF CancelStep, CancelStarts, AbortSettles, runVars
    <3>3. cancels[g].phase # "done" /\ g \in 1..Len(cancels)
      BY <1>1, <3>2 DEF CancelEnds, TypeOK
    <3>4. cancellation # 0
      BY <1>1, <3>3 DEF Core, PromptInv, BarrierOf, AllDone
    <3>5. ConsumeNext(run, activeTurn, queued, op)
      BY <3>2 DEF CancelEnds
    <3> QED BY <3>4, <3>5, <2>7
  <2> QED BY <2>5, <2>8, <2>9
<1> QED BY <1>1, TypeCorrect, CoreInvariant, TruncationInvariant, PTL DEF Spec, TruncationHoldsClients
=============================================================================
