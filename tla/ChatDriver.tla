----------------------------- MODULE ChatDriver -----------------------------
(***************************************************************************)
(* pi/chat-driver.ts: one chat, its agent backend and the requests that    *)
(* reach them from clients and from session disposal.                      *)
(*                                                                         *)
(* A run, its prompt operation and its turn are identified by the message  *)
(* that started them; every message is sent once. pi splits a run's turn   *)
(* when it injects a steering message: the turn is <<message, splits>>.    *)
(* The awaits of runPrompt, steer, settleCancellation and quiesce are the  *)
(* points at which other actions interleave. The agent itself is outside   *)
(* the repository; in-process-backend.ts fixes what a prompt does before   *)
(* it reaches the agent.                                                   *)
(***************************************************************************)
EXTENDS Integers, Sequences, SequencesExt

CONSTANTS
    Messages,       \* user messages
    None,           \* absence of a message or turn
    MaxQuiesces     \* bound on disposal attempts

ASSUME DriverAssumption ==
    /\ None \notin Messages \cup (Messages \X Nat)
    /\ MaxQuiesces \in Nat

VARIABLES
    activeTurn, queued, steering,   \* ChatState.activeTurn, queuedMessages, steeringMessage
    run,            \* ChatDriver.#run
    splits,         \* TurnMapper.#injectedCount of each run
    aborted,        \* runs whose AbortController fired
    settled,        \* ActiveRun.result: a prompt that settled during quiescence
    op,             \* the prompt operation of each run
    lastOp,         \* ChatDriver.#turnOperation
    cancels,        \* the cancellations started so far, by generation
    cancellation,   \* ChatDriver.#cancellation: the generation, 0 when there is none
    steers,         \* the steer operation of each message
    pendingSteer,   \* ChatDriver.#pendingSteeringId
    steerLength,    \* ChatDriver.#steeringQueueLength
    closing,        \* where the disposal is
    quiesces,       \* ChatDriver.#quiescence gates created so far
    gate,           \* the current gate, 0 when released
    toAbort,        \* the run quiesce() captured
    truncating,     \* a truncation is in flight
    dropped,        \* history: runs whose open turn a truncation dropped from the chat
    piQueue,        \* steering messages inside pi
    sent            \* history: messages that clients have sent

chatVars == <<activeTurn, queued, steering>>
runVars == <<run, splits, aborted, settled, op, lastOp>>
steerVars == <<steers, pendingSteer, steerLength, piQueue>>
cancelVars == <<cancels, cancellation>>
closeVars == <<closing, quiesces, gate, toAbort>>
truncation == <<truncating, dropped>>
vars == <<chatVars, runVars, steerVars, cancelVars, closeVars, truncation, sent>>

Turn == Messages \X Nat

\* Where an operation stands. A generation or gate it waits for is in `on'.
OpPhase == {"none", "cancellation", "gate", "selecting", "gateAgain", "preparing", "streaming", "done"}
Op == [phase : OpPhase, on : Nat]
At(phase, on) == [phase |-> phase, on |-> on]

Cancel == [phase : {"waiting", "aborting", "aborted", "done"}, target : Messages \cup {None}]
Steer == [phase : {"none", "cancellation", "preparing", "done"}, on : Nat, of : Messages \cup {None}]

Quiesced == closing \in {"aborting", "draining", "held", "gone"}

Pending(m) == op[m].phase \notin {"none", "done"}
Cancelled(g) == g # 0 => cancels[g].phase = "done"

\* #drainInFlight waits until none of these is left.
InFlight ==
    \/ \E m \in Messages : Pending(m) \/ steers[m].phase \in {"cancellation", "preparing"}
    \/ \E g \in DOMAIN cancels : cancels[g].phase # "done"
    \/ truncating

-----------------------------------------------------------------------------
(* Starting a run *)

\* Mutant: the prompt does not wait for a cancellation.
FirstStopUncancelled(m) == {At("selecting", 0), At("preparing", 0)}

\* Where a new prompt operation first suspends; the message may name a model.
\* No gate is up here: a run never begins in a quiesced driver.
FirstStop(m) ==
    CASE cancellation' # 0 -> {At("cancellation", cancellation')}
      [] cancellation' = 0 -> {At("selecting", 0), At("preparing", 0)}

\* beginRun and runPrompt.
Begin(m, ops) ==
    /\ run' = m
    /\ activeTurn' = <<m, 0>>
    /\ lastOp' = m
    /\ \E first \in FirstStop(m) : op' = [ops EXCEPT ![m] = first]

\* No run is started: the chat is left with this run and turn.
Stay(r, turn, ops) ==
    /\ run' = r /\ activeTurn' = turn /\ op' = ops
    /\ UNCHANGED lastOp

\* #consumeNextQueuedMessage, against the primed quiescence and cancellation,
\* in a driver whose run is r and whose chat has this queue and turn.
ConsumeNext(r, turn, queue, ops) ==
    IF closing' = "no" /\ cancellation' = 0 /\ queue # <<>> /\ r = None
    THEN queued' = Tail(queue) /\ Begin(Head(queue), ops)
    ELSE queued' = queue /\ Stay(r, turn, ops)

\* #clearPendingSteering: the reducer forgets the message only if it is shown.
ClearPendingSteering ==
    /\ pendingSteer' = None
    /\ steering' = IF pendingSteer # None /\ steering = pendingSteer THEN None ELSE steering

\* #finishTurn of the current run.
FinishTurn(ops) ==
    /\ ClearPendingSteering
    /\ ConsumeNext(None, None, queued, ops)

-----------------------------------------------------------------------------
(* Client actions: accepted by the session registry's validator, committed  *)
(* to the chat state and handed to the driver in one synchronous step.      *)
(* Actions on the chat wait behind a truncation.                            *)

\* Mutant: actions on the chat do not wait behind a truncation.
FreshUnheld(m) == m \notin sent /\ closing = "no"

Fresh(m) == m \notin sent /\ closing = "no" /\ ~truncating

Send(m) == sent' = sent \cup {m}

\* chat/turnStarted
StartTurn(m) ==
    /\ Fresh(m) /\ activeTurn = None
    /\ Send(m)
    /\ UNCHANGED <<queued, steering, splits, aborted, settled, steerVars, cancelVars, closeVars, truncation>>
    /\ Begin(m, op)

\* chat/pendingMessageSet with a queued message
Queue(m) ==
    /\ Fresh(m)
    /\ Send(m)
    /\ UNCHANGED <<steering, splits, aborted, settled, steerVars, cancelVars, closeVars, truncation>>
    /\ ConsumeNext(run, activeTurn, Append(queued, m), op)

\* chat/pendingMessageRemoved: the driver is not involved.
RemoveQueued(m) ==
    /\ closing = "no" /\ ~truncating
    /\ \E i \in DOMAIN queued : queued[i] = m /\ queued' = RemoveAt(queued, i)
    /\ UNCHANGED <<activeTurn, steering, runVars, steerVars, cancelVars, closeVars, truncation, sent>>

\* chat/turnCancelled. The validator admits only the active turn.
CancelTurn ==
    LET target == IF lastOp # None /\ Pending(lastOp) THEN lastOp ELSE None IN
    /\ closing = "no" /\ ~truncating
    /\ activeTurn # None
    /\ activeTurn' = None
    /\ aborted' = aborted \cup ({run} \ {None})
    /\ run' = None
    /\ ClearPendingSteering
    /\ cancels' = Append(cancels, [phase |-> "waiting", target |-> target])
    /\ cancellation' = Len(cancels) + 1
    /\ UNCHANGED <<queued, splits, settled, op, lastOp, steers, steerLength, piQueue, closeVars, truncation, sent>>

\* chat/pendingMessageSet with a steering message
SteerChat(m) ==
    /\ Fresh(m)
    /\ Send(m)
    /\ steering' = m
    /\ pendingSteer' = m
    /\ steers' = [steers EXCEPT ![m] =
           [phase |-> IF cancellation = 0 THEN "preparing" ELSE "cancellation", on |-> cancellation, of |-> run]]
    /\ UNCHANGED <<activeTurn, queued, runVars, steerLength, piQueue, cancelVars, closeVars, truncation>>

\* chat/truncated: pi moves its leaf before the action is committed.
StartTruncation ==
    /\ closing = "no" /\ ~truncating
    /\ activeTurn = None
    /\ truncating' = TRUE
    /\ UNCHANGED <<chatVars, runVars, steerVars, cancelVars, closeVars, dropped, sent>>

\* The truncation is refused, or committed without validating it again: the
\* protocol's reducer drops the turn that is open by now, the run goes on.
EndTruncation ==
    /\ truncating
    /\ truncating' = FALSE
    /\ \/ UNCHANGED <<activeTurn, dropped>>
       \/ /\ activeTurn' = None
          /\ dropped' = dropped \cup ({run} \ {None})
    /\ UNCHANGED <<queued, steering, runVars, steerVars, cancelVars, closeVars, sent>>

-----------------------------------------------------------------------------
(* The prompt operation *)

\* Whether the checks after an await let the operation go on.
MayGoOn(m) == run = m /\ ~Quiesced /\ m \notin aborted

Step(m, next) ==
    /\ op' = [op EXCEPT ![m] = next]
    /\ UNCHANGED <<chatVars, run, splits, aborted, settled, lastOp, steerVars, cancelVars, closeVars,
                   truncation, sent>>

Released(g) == gate # g

\* After the cancellation: wait at the gate or check. A refused operation
\* returns without settling its prompt.
PassCancellation(m) ==
    /\ op[m].phase = "cancellation" /\ Cancelled(op[m].on)
    /\ \/ gate # 0 /\ Step(m, At("gate", gate))
       \/ gate = 0 /\ MayGoOn(m) /\ \E next \in {"selecting", "preparing"} : Step(m, At(next, 0))
       \/ gate = 0 /\ ~MayGoOn(m) /\ Step(m, At("done", 0))

PassGate(m) ==
    /\ op[m].phase = "gate" /\ Released(op[m].on)
    /\ \/ MayGoOn(m) /\ \E next \in {"selecting", "preparing"} : Step(m, At(next, 0))
       \/ ~MayGoOn(m) /\ Step(m, At("done", 0))

\* backend.selectModel has settled, either way.
ModelSelected(m) ==
    /\ op[m].phase = "selecting"
    /\ \/ gate # 0 /\ Step(m, At("gateAgain", gate))
       \/ gate = 0 /\ MayGoOn(m) /\ Step(m, At("preparing", 0))
       \/ gate = 0 /\ ~MayGoOn(m) /\ Step(m, At("done", 0))

PassGateAgain(m) ==
    /\ op[m].phase = "gateAgain" /\ Released(op[m].on)
    /\ \/ MayGoOn(m) /\ Step(m, At("preparing", 0))
       \/ ~MayGoOn(m) /\ Step(m, At("done", 0))

\* backend.prompt has prepared the images and hands the prompt to pi.
Stream(m) ==
    /\ op[m].phase = "preparing" /\ m \notin aborted
    /\ Step(m, At("streaming", 0))

\* settlePrompt of run m, whose operation ends with it.
SettlePrompt(m) ==
    LET ops == [op EXCEPT ![m] = At("done", 0)] IN
    /\ UNCHANGED <<splits, aborted, steers, steerLength, piQueue, cancelVars, closeVars, truncation, sent>>
    /\ \/ /\ run = m /\ ~Quiesced
          /\ FinishTurn(ops)
          /\ UNCHANGED settled
       \/ /\ run = m /\ Quiesced
          /\ settled' = settled \cup {m}
          /\ Stay(run, activeTurn, ops)
          /\ UNCHANGED <<queued, steering, pendingSteer>>
       \/ /\ run # m
          /\ Stay(run, activeTurn, ops)
          /\ UNCHANGED <<queued, steering, pendingSteer, settled>>

\* backend.prompt resolves or rejects: the agent ended, preparation failed, or
\* the signal was seen. The outcome only chooses the terminal action.
PromptReturns(m) ==
    /\ op[m].phase \in {"preparing", "streaming"}
    /\ SettlePrompt(m)

-----------------------------------------------------------------------------
(* Cancellation *)

\* settleCancellation: behind the previous one, then backend.abort.
CancelStarts(g) ==
    /\ cancels[g].phase = "waiting" /\ Cancelled(g - 1)
    /\ cancels' = [cancels EXCEPT ![g].phase = "aborting"]
    /\ UNCHANGED <<chatVars, runVars, steerVars, cancellation, closeVars, truncation, sent>>

AbortSettles(g) ==
    /\ cancels[g].phase = "aborting"
    /\ cancels' = [cancels EXCEPT ![g].phase = "aborted"]
    /\ UNCHANGED <<chatVars, runVars, steerVars, cancellation, closeVars, truncation, sent>>

\* Mutant: an older cancellation releases a newer one's barrier.
BarrierAfterAny(g) == 0

\* Mutant: the barrier is never lifted.
BarrierKept(g) == cancellation

\* The finally callback: only the newest cancellation lifts the barrier.
BarrierAfter(g) == IF g = Len(cancels) THEN 0 ELSE cancellation

CancelEnds(g) ==
    /\ cancels[g].phase = "aborted"
    /\ cancels[g].target # None => ~Pending(cancels[g].target)
    /\ cancels' = [cancels EXCEPT ![g].phase = "done"]
    /\ cancellation' = BarrierAfter(g)
    /\ UNCHANGED <<steering, splits, aborted, settled, steerVars, closeVars, truncation, sent>>
    /\ ConsumeNext(run, activeTurn, queued, op)

-----------------------------------------------------------------------------
(* Steering *)

SteerEnds(m) == steers' = [steers EXCEPT ![m].phase = "done"]

Withdrawn(m) == steers[m].of \in aborted

PassSteerCancellation(m) ==
    /\ steers[m].phase = "cancellation" /\ Cancelled(steers[m].on)
    /\ IF Withdrawn(m) THEN SteerEnds(m) ELSE steers' = [steers EXCEPT ![m].phase = "preparing"]
    /\ UNCHANGED <<chatVars, runVars, pendingSteer, steerLength, piQueue, cancelVars, closeVars, truncation, sent>>

\* pi queues the message and reports the new length; a withdrawn one is dropped.
SteerReachesPi(m) ==
    /\ steers[m].phase = "preparing"
    /\ SteerEnds(m)
    /\ piQueue' = IF Withdrawn(m) THEN piQueue ELSE Append(piQueue, m)
    /\ steerLength' = Len(piQueue')
    /\ UNCHANGED <<chatVars, runVars, pendingSteer, cancelVars, closeVars, truncation, sent>>

SteerFails(m) ==
    /\ steers[m].phase = "preparing"
    /\ SteerEnds(m)
    /\ ClearPendingSteering
    /\ UNCHANGED <<activeTurn, queued, runVars, steerLength, piQueue, cancelVars, closeVars, truncation, sent>>

\* reconcileSteering on a queue_update that leaves this queue.
QueueUpdate(queue) ==
    /\ piQueue' = queue
    /\ steerLength' = Len(queue)
    /\ IF Len(queue) < steerLength THEN ClearPendingSteering ELSE UNCHANGED <<steering, pendingSteer>>

\* pi injects its first steering message into the run it streams. Once the
\* assistant has spoken this closes the driver's turn and opens the next one.
PiInjects(m) ==
    /\ op[m].phase = "streaming" /\ piQueue # <<>>
    /\ QueueUpdate(Tail(piQueue))
    /\ \/ /\ run # None
          /\ splits' = [splits EXCEPT ![run] = @ + 1]
          /\ activeTurn' = <<run, splits[run] + 1>>
       \/ UNCHANGED <<splits, activeTurn>>
    /\ UNCHANGED <<queued, run, aborted, settled, op, lastOp, steers, cancelVars, closeVars, truncation, sent>>

\* pi clears its queue, also outside a run.
PiClearsQueue ==
    /\ piQueue # <<>>
    /\ QueueUpdate(<<>>)
    /\ UNCHANGED <<activeTurn, queued, runVars, steers, cancelVars, closeVars, truncation, sent>>

-----------------------------------------------------------------------------
(* Quiescence: disposal stops the driver, and reopens it if it fails. *)

\* The session's operation gate keeps disposal behind a truncation. A request
\* is handled after the continuations that an earlier gate released.
Quiesce ==
    /\ closing = "no" /\ ~truncating /\ quiesces < MaxQuiesces
    /\ \A m \in Messages : op[m].phase \notin {"gate", "gateAgain"}
    /\ closing' = "aborting"
    /\ quiesces' = quiesces + 1
    /\ gate' = quiesces + 1
    /\ toAbort' = run
    /\ UNCHANGED <<chatVars, runVars, steerVars, cancelVars, truncation, sent>>

QuiesceAborted ==
    /\ closing = "aborting"
    /\ closing' = "draining"
    /\ aborted' = aborted \cup ({toAbort} \ {None})
    /\ gate' = 0
    /\ toAbort' = None
    /\ UNCHANGED <<chatVars, run, splits, settled, op, lastOp, steerVars, cancelVars, quiesces,
                   truncation, sent>>

\* Mutant: does not wait for the accepted work.
QuiesceDrainedEarly ==
    /\ closing = "draining"
    /\ closing' = "held"
    /\ UNCHANGED <<splits, aborted, settled, steers, steerLength, piQueue, cancelVars, quiesces, gate, toAbort,
                   truncation, sent>>
    /\ IF run # None THEN FinishTurn(op) ELSE UNCHANGED <<chatVars, run, op, lastOp, pendingSteer>>

QuiesceDrained ==
    /\ closing = "draining" /\ ~InFlight
    /\ closing' = "held"
    /\ UNCHANGED <<splits, aborted, settled, steers, steerLength, piQueue, cancelVars, quiesces, gate, toAbort,
                   truncation, sent>>
    /\ IF run # None THEN FinishTurn(op) ELSE UNCHANGED <<chatVars, run, op, lastOp, pendingSteer>>

\* Mutant: forgets the prompt that settled in the meantime.
ResumeForgetting ==
    /\ closing \in {"aborting", "held"}
    /\ closing' = "no"
    /\ gate' = 0
    /\ toAbort' = None
    /\ UNCHANGED <<splits, aborted, settled, steers, steerLength, piQueue, cancelVars, quiesces,
                   truncation, sent>>
    /\ UNCHANGED <<steering, pendingSteer>> /\ ConsumeNext(run, activeTurn, queued, op)

\* backend.abort failed, or the session could not be deleted.
Resume ==
    /\ closing \in {"aborting", "held"}
    /\ closing' = "no"
    /\ gate' = 0
    /\ toAbort' = None
    /\ UNCHANGED <<splits, aborted, settled, steers, steerLength, piQueue, cancelVars, quiesces,
                   truncation, sent>>
    /\ IF run \in settled THEN FinishTurn(op)
       ELSE UNCHANGED <<steering, pendingSteer>> /\ ConsumeNext(run, activeTurn, queued, op)

\* The session is deleted; the driver unsubscribes and its backend is disposed.
Dispose ==
    /\ closing = "held"
    /\ closing' = "gone"
    /\ UNCHANGED <<chatVars, runVars, steerVars, cancelVars, quiesces, gate, toAbort, truncation, sent>>

-----------------------------------------------------------------------------
Init ==
    /\ activeTurn = None /\ queued = <<>> /\ steering = None
    /\ run = None /\ lastOp = None
    /\ splits = [m \in Messages |-> 0]
    /\ aborted = {} /\ settled = {} /\ sent = {}
    /\ op = [m \in Messages |-> At("none", 0)]
    /\ cancels = <<>> /\ cancellation = 0
    /\ steers = [m \in Messages |-> [phase |-> "none", on |-> 0, of |-> None]]
    /\ pendingSteer = None /\ steerLength = 0 /\ piQueue = <<>>
    /\ closing = "no" /\ quiesces = 0 /\ gate = 0 /\ toAbort = None
    /\ truncating = FALSE /\ dropped = {}

ClientAction ==
    \/ \E m \in Messages : StartTurn(m) \/ Queue(m) \/ RemoveQueued(m) \/ SteerChat(m)
    \/ CancelTurn \/ StartTruncation

\* What the event loop, the backend and the disposal owe the driver.
OpStep(m) == PassCancellation(m) \/ PassGate(m) \/ ModelSelected(m) \/ PassGateAgain(m) \/ PromptReturns(m)
SteerStep(m) == PassSteerCancellation(m) \/ SteerReachesPi(m) \/ SteerFails(m)
CancelStep(g) == CancelStarts(g) \/ AbortSettles(g) \/ CancelEnds(g)
CloseStep == QuiesceAborted \/ QuiesceDrained \/ Resume \/ Dispose

\* Nothing happens to a driver that is gone.
Gone == closing = "gone" /\ UNCHANGED vars

Next ==
    \/ ClientAction
    \/ \E m \in Messages : OpStep(m) \/ Stream(m) \/ PiInjects(m) \/ SteerStep(m)
    \/ \E g \in DOMAIN cancels : CancelStep(g)
    \/ EndTruncation \/ PiClearsQueue
    \/ Quiesce \/ CloseStep \/ Gone

Spec == Init /\ [][Next]_vars

\* Promise continuations run, backend calls settle, disposal is carried through.
FairSpec ==
    /\ Spec
    /\ \A m \in Messages : WF_vars(OpStep(m)) /\ WF_vars(SteerStep(m))
    /\ \A g \in 1..Cardinality(Messages) : WF_vars(g \in DOMAIN cancels /\ CancelStep(g))
    /\ WF_vars(EndTruncation) /\ WF_vars(CloseStep)

-----------------------------------------------------------------------------
(* Properties *)

TypeOK ==
    /\ activeTurn \in Turn \cup {None}
    /\ queued \in Seq(Messages)
    /\ steering \in Messages \cup {None}
    /\ run \in Messages \cup {None} /\ lastOp \in Messages \cup {None}
    /\ splits \in [Messages -> Nat]
    /\ aborted \subseteq Messages /\ settled \subseteq Messages /\ sent \subseteq Messages
    /\ op \in [Messages -> Op]
    /\ cancels \in Seq(Cancel) /\ cancellation \in 0..Len(cancels)
    /\ steers \in [Messages -> Steer]
    /\ pendingSteer \in Messages \cup {None} /\ steerLength \in Nat
    /\ piQueue \in Seq(Messages)
    /\ closing \in {"no", "aborting", "draining", "held", "gone"}
    /\ quiesces \in Nat /\ gate \in Nat /\ toAbort \in Messages \cup {None}
    /\ truncating \in BOOLEAN /\ dropped \subseteq Messages

\* The chat shows an active turn exactly while the driver has a run, and it is
\* that run's turn: no turn is left open and none is overwritten. The exception
\* is a run whose turn a truncation dropped (host.ts:808-812).
RunOwnsActiveTurn ==
    \/ activeTurn = IF run = None THEN None ELSE <<run, splits[run]>>
    \/ activeTurn = None /\ run \in dropped

Backend(m) == op[m].phase \in {"selecting", "gateAgain", "preparing", "streaming"}

\* The backend never works on two prompts at once, whatever clients cancel,
\* restart or queue (chat-driver.ts:106-107), unless a truncation has dropped the
\* turn of one of them: the chat then seems idle and the next turn may start.
OnePromptAtATime ==
    \A m, n \in Messages \ dropped : Backend(m) /\ Backend(n) => m = n

\* While any cancellation is unsettled no live run is at the backend: a new turn
\* waits for all of them, so none of their aborts can hit it
\* (chat-driver.ts:106-109). What is there was cancelled, or lost its turn to a
\* truncation and has been replaced since.
CancellationSettlesFirst ==
    (\E g \in DOMAIN cancels : cancels[g].phase # "done") =>
        \A m \in Messages : Backend(m) => m # run /\ m \in aborted \cup dropped

\* Once quiesce has returned, the backend and the chat are at rest, and stay
\* so until resume (chat-driver.ts:144-162).
QuiescenceHolds ==
    closing \in {"held", "gone"} => ~InFlight /\ run = None /\ activeTurn = None

\* An idle driver does not sit on a queued message.
NoIdleQueue ==
    run = None /\ cancellation = 0 /\ closing = "no" => queued = <<>>

\* What a cancelled prompt still emits reaches a later turn only while that
\* turn's own prompt waits for the cancellation: two prompts' output is never
\* mixed in one turn (chat-driver.ts:338-343). A prompt whose turn a truncation
\* dropped was not cancelled, and may.
StrayEventsComeFirst ==
    \A m \in Messages \ dropped : op[m].phase = "streaming" /\ run \notin {None, m} =>
        m \in aborted /\ op[run].phase = "cancellation"

\* The turns that can begin while pi moves its leaf are those of queued messages,
\* and in a driver without a run only when a cancellation has just settled:
\* clients' own actions are held until the truncation is committed
\* (host.ts:756-759, chat-driver.ts:470).
TruncationHoldsClients ==
    [][truncating /\ run' \notin {run, None} =>
          /\ queued # <<>> /\ run' = Head(queued) /\ queued' = Tail(queued)
          /\ run = None => cancellation # 0 /\ cancellation' = 0]_vars

\* Every turn ends: by its prompt, a cancellation or disposal.
RunsEnd == \A m \in Messages : run = m ~> run # m

\* Every queued message is eventually taken up, withdrawn, or gone with the chat.
QueueServed == \A m \in Messages : (\E i \in DOMAIN queued : queued[i] = m) ~>
    (closing = "gone" \/ \A i \in DOMAIN queued : queued[i] # m)
=============================================================================
