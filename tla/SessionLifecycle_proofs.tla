----------------------- MODULE SessionLifecycle_proofs -----------------------
(***************************************************************************)
(* Proofs about SessionLifecycle, for any actions and any number of        *)
(* sessions and disposals.                                                 *)
(*                                                                         *)
(* The inductive invariant has four parts: the registry (RegistryInv), the *)
(* agents (AgentInv), the queue of operations (QueueInv, which takes the   *)
(* queue and the disposal gate as parameters so that the queue half-way    *)
(* through a handler can be named) and the operation at its head (HeadInv).*)
(* Three layers rest on it: the types (RestTyped), who works on a turn     *)
(* (OwnerInv) and which files there are (FilesInv).                        *)
(***************************************************************************)
EXTENDS SessionLifecycle, SequenceTheorems, TLAPS

-----------------------------------------------------------------------------
(* The queue *)

QueueInv(q, gate) ==
    /\ q \in Seq(Operation)
    /\ \A k \in 1..Len(q) : k > 1 => q[k].phase = "queued"
    /\ \A k \in 1..Len(q) : q[k].kind = "dispose" => gate = "entered"
    /\ \A j, k \in 1..Len(q) : q[j].kind = "dispose" /\ q[k].kind = "dispose" => j = k
    /\ \A k \in 1..Len(q) : q[k].kind = "truncate" => q[k].on \in Session

LEMMA Prepended ==
    ASSUME NEW op \in Operation, NEW q \in Seq(Operation)
    PROVE  LET r == <<op>> \o q
           IN  /\ r \in Seq(Operation) /\ Len(r) = Len(q) + 1 /\ r # <<>>
               /\ Head(r) = op /\ r[1] = op
               /\ \A k \in 1..Len(q) : r[k + 1] = q[k]
<1> DEFINE r == <<op>> \o q
<1>1. <<op>> \in Seq(Operation) /\ Len(<<op>>) = 1 /\ <<op>>[1] = op
  OBVIOUS
<1>2. /\ r \in Seq(Operation) /\ Len(r) = 1 + Len(q)
      /\ \A k \in 1..(1 + Len(q)) : r[k] = IF k <= 1 THEN <<op>>[k] ELSE q[k - 1]
  BY <1>1, ConcatProperties
<1>3. Len(q) \in Nat
  OBVIOUS
<1> HIDE DEF r
<1>4. r[1] = op /\ \A k \in 1..Len(q) : r[k + 1] = q[k]
  BY <1>1, <1>2, <1>3
<1>5. r # <<>> /\ Head(r) = r[1]
  BY <1>2, <1>3
<1> QED BY <1>2, <1>3, <1>4, <1>5 DEF r

LEMMA TailElements ==
    ASSUME NEW q \in Seq(Operation), q # <<>>
    PROVE  /\ Tail(q) \in Seq(Operation) /\ Len(Tail(q)) = Len(q) - 1 /\ Len(q) >= 1
           /\ Head(q) = q[1] /\ q[1] \in Operation
           /\ \A k \in 1..(Len(q) - 1) : Tail(q)[k] = q[k + 1]
BY HeadTailProperties, LenProperties, ElementOfSeq

\* The running operation moves on.
LEMMA AdvanceQueue ==
    ASSUME NEW q, NEW gate, QueueInv(q, gate), q # <<>>,
           NEW op \in Operation, op.kind = q[1].kind, op.on \in Session \/ op.kind # "truncate"
    PROVE  QueueInv(<<op>> \o Tail(q), gate) /\ <<op>> \o Tail(q) # <<>> /\ Head(<<op>> \o Tail(q)) = op
<1> DEFINE r == <<op>> \o Tail(q)
<1>1. /\ r \in Seq(Operation) /\ Len(r) = Len(q) /\ r # <<>> /\ Head(r) = op /\ r[1] = op
      /\ \A k \in 1..(Len(q) - 1) : r[k + 1] = q[k + 1]
  BY TailElements, Prepended DEF QueueInv
<1> HIDE DEF r
<1>2. \A k \in 1..Len(q) : k = 1 \/ k - 1 \in 1..(Len(q) - 1)
  OBVIOUS
<1>3. ASSUME NEW k \in 1..Len(q), k > 1
      PROVE  r[k] = q[k]
  <2>1. k - 1 \in 1..(Len(q) - 1) /\ (k - 1) + 1 = k
    BY <1>3
  <2>2. r[(k - 1) + 1] = q[(k - 1) + 1]
    BY <1>1, <2>1
  <2> QED BY <2>1, <2>2
<1>4. \A k \in 1..Len(q) : r[k].kind = q[k].kind
  BY <1>1, <1>2, <1>3
<1>5. QueueInv(r, gate)
  BY <1>1, <1>2, <1>3, <1>4 DEF QueueInv
<1> QED BY <1>1, <1>5 DEF r

\* The running operation ends; the gate may open if it was the disposal.
LEMMA EndQueue ==
    ASSUME NEW q, NEW gate, QueueInv(q, gate), q # <<>>,
           NEW open, open = gate \/ q[1].kind = "dispose"
    PROVE  QueueInv(Tail(q), open) /\ (Tail(q) # <<>> => Head(Tail(q)).phase = "queued")
<1> DEFINE r == Tail(q)
<1>1. /\ r \in Seq(Operation) /\ Len(r) = Len(q) - 1 /\ Len(q) >= 1 /\ Len(q) \in Nat
      /\ \A k \in 1..(Len(q) - 1) : r[k] = q[k + 1]
  BY TailElements DEF QueueInv
<1>2. r # <<>> => Head(r) = r[1] /\ 1 \in 1..Len(r)
  BY <1>1
<1> HIDE DEF r
<1>3. \A k \in 1..Len(r) : k + 1 \in 1..Len(q) /\ k + 1 > 1
  BY <1>1
<1>4. \A k \in 1..Len(r) : r[k].phase = "queued"
  BY <1>1, <1>3 DEF QueueInv
<1>5. \A k \in 1..Len(r) : r[k].kind = "dispose" => open = "entered"
  <2> SUFFICES ASSUME NEW k \in 1..Len(r), r[k].kind = "dispose" PROVE open = "entered"
    OBVIOUS
  <2>1. q[k + 1].kind = "dispose" /\ k + 1 \in 1..Len(q) /\ k + 1 # 1 /\ 1 \in 1..Len(q)
    BY <1>1, <1>3
  <2>2. q[1].kind # "dispose"
    BY <2>1 DEF QueueInv
  <2> QED BY <2>1, <2>2 DEF QueueInv
<1>6. ASSUME NEW j \in 1..Len(r), NEW k \in 1..Len(r), r[j].kind = "dispose", r[k].kind = "dispose"
      PROVE  j = k
  <2>1. j + 1 = k + 1
    BY <1>1, <1>3, <1>6 DEF QueueInv
  <2> QED BY <2>1
<1>7. \A k \in 1..Len(r) : r[k].kind = "truncate" => r[k].on \in Session
  BY <1>1, <1>3 DEF QueueInv
<1>8. QueueInv(r, open)
  BY <1>1, <1>4, <1>5, <1>6, <1>7 DEF QueueInv
<1> QED BY <1>2, <1>4, <1>8 DEF r

\* An operation joins the queue; for a disposal the gate closes.
LEMMA AppendQueue ==
    ASSUME NEW q, NEW gate, QueueInv(q, gate), NEW op \in Operation, op.phase = "queued",
           op.on \in Session \/ op.kind # "truncate",
           NEW closed,
           \/ closed = gate /\ op.kind # "dispose"
           \/ closed = "entered" /\ gate # "entered"
    PROVE  /\ QueueInv(Append(q, op), closed) /\ Append(q, op) # <<>>
           /\ q # <<>> => Head(Append(q, op)) = Head(q)
           /\ q = <<>> => Head(Append(q, op)) = op
<1> DEFINE r == Append(q, op)
<1>1. /\ r \in Seq(Operation) /\ Len(r) = Len(q) + 1 /\ Len(q) \in Nat
      /\ \A k \in 1..Len(q) : r[k] = q[k]
      /\ r[Len(q) + 1] = op
  BY AppendProperties, LenProperties DEF QueueInv
<1>2. r # <<>> /\ Head(r) = r[1]
  BY <1>1
<1>3. q # <<>> => Head(q) = q[1] /\ 1 \in 1..Len(q)
  BY LenProperties, HeadTailProperties DEF QueueInv
<1>3a. q = <<>> => Len(q) + 1 = 1
  OBVIOUS
<1> HIDE DEF r
<1>4. \A k \in 1..Len(r) : k \in 1..Len(q) \/ k = Len(q) + 1
  BY <1>1
<1>5. \A k \in 1..Len(r) : k > 1 => r[k].phase = "queued"
  BY <1>1, <1>4 DEF QueueInv
<1>6. \A k \in 1..Len(r) : r[k].kind = "truncate" => r[k].on \in Session
  BY <1>1, <1>4 DEF QueueInv
<1>7. CASE closed = gate /\ op.kind # "dispose"
  <2>1. \A k \in 1..Len(r) : r[k].kind = "dispose" => k \in 1..Len(q) /\ q[k].kind = "dispose"
    BY <1>1, <1>4, <1>7
  <2> QED BY <2>1, <1>1, <1>2, <1>3, <1>3a, <1>5, <1>6, <1>7 DEF QueueInv, r
<1>8. CASE closed = "entered" /\ gate # "entered"
  <2>1. \A k \in 1..Len(r) : r[k].kind = "dispose" => k = Len(q) + 1
    BY <1>1, <1>4, <1>8 DEF QueueInv
  <2> QED BY <2>1, <1>1, <1>2, <1>3, <1>3a, <1>5, <1>6, <1>8 DEF QueueInv, r
<1> QED BY <1>7, <1>8

\* A queue of one.
LEMMA SingleQueue ==
    ASSUME NEW op \in Operation, NEW gate, op.kind = "dispose" => gate = "entered",
           op.on \in Session \/ op.kind # "truncate"
    PROVE  /\ QueueInv(<<op>> \o <<>>, gate) /\ <<op>> \o <<>> # <<>> /\ Head(<<op>> \o <<>>) = op
<1> DEFINE r == <<op>> \o <<>>
<1>1. r \in Seq(Operation) /\ Len(r) = 1 /\ r # <<>> /\ Head(r) = op /\ r[1] = op
  <2>1. <<>> \in Seq(Operation) /\ Len(<<>>) = 0
    OBVIOUS
  <2> QED BY <2>1, Prepended
<1> HIDE DEF r
<1> QED BY <1>1 DEF QueueInv, r

-----------------------------------------------------------------------------
(* The inductive invariant *)

RegistryInv ==
    /\ sessions \in 0..MaxSessions /\ incs \in 0..MaxSessions /\ sessions <= incs
    /\ fileOf \in [Session -> File] /\ files \subseteq File
    /\ RegistryMatchesStore

AgentInv ==
    /\ driver \in [Session -> BOOLEAN] /\ attaching \in [Session -> BOOLEAN]
    /\ starting \in [Session -> Nat] /\ running \in [Session -> Nat]
    /\ \A i \in Session : starting[i] = IF attaching[i] THEN 1 ELSE 0
    /\ \A i \in Session : driver[i] => ~attaching[i]
    /\ \A i \in Session : running[i] = IF sessions = i /\ driver[i] THEN 1 ELSE 0
    /\ \A i \in Session : i > incs => ~driver[i] /\ ~attaching[i]

\* What the running operation has found out holds of these files, this live
\* session, its turn and its file.
HeadOk(op, fs, live, current, of) ==
    /\ op.kind = "hydrate" /\ op.phase = "reading" => op.file \in fs
    /\ op.kind = "dispose" =>
          /\ op.phase = "finding" => live = 0
          /\ op.phase \in {"quiescing", "closing"} => live # 0
          /\ op.phase \in {"deleting", "children"} => live = 0 \/ current = None
          /\ op.phase = "deleting" => IF live = 0 THEN op.file \in fs ELSE op.file = of[live]

HeadInv == ops # <<>> => HeadOk(Head(ops), files, sessions, turn, fileOf)

IInv == RegistryInv /\ AgentInv /\ QueueInv(ops, disposing) /\ HeadInv

LEMMA InitInv == Init => IInv
<1> SUFFICES ASSUME Init PROVE IInv
  OBVIOUS
<1>1. RegistryInv
  BY LifecycleAssumption DEF Init, RegistryInv, RegistryMatchesStore, File, Session
<1>2. AgentInv
  BY DEF Init, AgentInv
<1>3. QueueInv(ops, disposing)
  <2>1. ops \in Seq(Operation) /\ Len(ops) = 0
    BY DEF Init
  <2> QED BY <2>1 DEF QueueInv
<1>4. HeadInv
  BY DEF Init, HeadInv
<1> QED BY <1>1, <1>2, <1>3, <1>4 DEF IInv

-----------------------------------------------------------------------------
(* Agents and registry *)

\* The registry keeps its session, or takes a new one.
Opened == sessions = 0 /\ incs < MaxSessions /\ incs' = incs + 1 /\ sessions' = incs + 1

LEMMA SessionNumbers == MaxSessions \in Nat /\ Session = 1..MaxSessions /\ File = 0..MaxSessions
BY LifecycleAssumption DEF Session, File

LEMMA AgentsUntouched ==
    ASSUME RegistryInv, AgentInv, UNCHANGED agentVars,
           UNCHANGED <<sessions, incs>> \/ Opened
    PROVE  AgentInv'
<1> USE SessionNumbers
<1>1. CASE UNCHANGED <<sessions, incs>>
  BY <1>1 DEF AgentInv, agentVars
<1>2. CASE Opened
  <2>1. \A i \in Session : running[i] = 0
    BY <1>2 DEF Opened, AgentInv
  <2>2. sessions' \in Session => ~driver[sessions']
    BY <1>2 DEF Opened, AgentInv, RegistryInv
  <2> QED BY <1>2, <2>1, <2>2 DEF Opened, AgentInv, agentVars, RegistryInv
<1> QED BY <1>1, <1>2

LEMMA StartBackendAgents ==
    ASSUME RegistryInv, AgentInv, NEW i \in Session, ~driver[i], StartBackend(i),
           i <= incs', UNCHANGED <<sessions, incs>> \/ Opened
    PROVE  AgentInv'
<1>1. CASE attaching[i]
  BY <1>1, AgentsUntouched DEF StartBackend
<1>2. CASE ~attaching[i]
  <2> USE SessionNumbers
  <2>1. /\ attaching' = [attaching EXCEPT ![i] = TRUE]
        /\ starting' = [starting EXCEPT ![i] = @ + 1]
        /\ UNCHANGED <<driver, running>>
    BY <1>2 DEF StartBackend
  <2>2. \A j \in Session : starting'[j] = IF attaching'[j] THEN 1 ELSE 0
    BY <1>2, <2>1 DEF AgentInv
  <2>3. \A j \in Session : running[j] = IF sessions' = j /\ driver[j] THEN 1 ELSE 0
    <3>1. CASE UNCHANGED <<sessions, incs>>
      BY <3>1 DEF AgentInv
    <3>2. CASE Opened
      <4>1. \A j \in Session : running[j] = 0
        BY <3>2 DEF Opened, AgentInv
      <4>2. sessions' \in Session => ~driver[sessions']
        BY <3>2 DEF Opened, AgentInv, RegistryInv
      <4> QED BY <4>1, <4>2
    <3> QED BY <3>1, <3>2
  <2>4. \A j \in Session : j > incs' => ~driver[j] /\ ~attaching'[j]
    <3>1. ASSUME NEW j \in Session, j > incs' PROVE j > incs /\ j # i
      BY <3>1 DEF RegistryInv, Opened
    <3>2. ASSUME NEW j \in Session, j > incs PROVE ~driver[j] /\ ~attaching[j]
      BY <3>2 DEF AgentInv
    <3> QED BY <2>1, <3>1, <3>2 DEF AgentInv
  <2> QED BY <2>1, <2>2, <2>3, <2>4 DEF AgentInv
<1> QED BY <1>1, <1>2 DEF AgentInv

LEMMA InstallFacts ==
    ASSUME RegistryInv, sessions = 0, incs < MaxSessions, UNCHANGED files,
           NEW file \in File, NEW fromDisk, Install(file, fromDisk)
    PROVE  Opened /\ RegistryInv' /\ fileOf'[incs + 1] = file /\ turn' = None
<1> USE SessionNumbers
<1>1. incs + 1 \in Session
  BY DEF RegistryInv
<1> QED BY <1>1 DEF Install, Opened, RegistryInv, RegistryMatchesStore

-----------------------------------------------------------------------------
(* Operations from their start to the first await *)

QueuedOp(op) ==
    /\ op \in Operation /\ op.phase = "queued"
    /\ op.on \in Session \/ op.kind # "truncate"

\* What an operation leaves at the head of the queue when it awaits.
Awaiting(op, o) ==
    /\ o \in Operation /\ o.kind = op.kind
    /\ o.on \in Session \/ o.kind # "truncate"
    /\ o.phase \notin {"reading", "deleting", "children"}
    /\ o.kind = "dispose" => IF sessions = 0 THEN o.phase = "finding" ELSE o.phase \in {"quiescing", "closing"}

Unopened == UNCHANGED <<sessions, incs, fileOf, store>>

LEMMA BeginFacts ==
    ASSUME RegistryInv, AgentInv, NEW op, QueuedOp(op), NEW rest, Begin(op, rest), UNCHANGED files
    PROVE  /\ RegistryInv' /\ AgentInv'
           /\ \/ Unopened /\ UNCHANGED turn
              \/ ~Taken /\ Opened /\ fileOf'[incs + 1] = incs + 1 /\ ops' = rest
           /\ \/ ops' = rest
              \/ Unopened /\ \E o : Awaiting(op, o) /\ ops' = <<o>> \o rest
<1> USE SessionNumbers
<1>1. CASE op.kind = "create" /\ BeginCreate(rest)
  <2>1. CASE UNCHANGED <<regVars, flagVars, turn, agentVars>>
    BY <1>1, <2>1, AgentsUntouched DEF BeginCreate, regVars, RegistryInv, RegistryMatchesStore, Unopened
  <2>2. CASE /\ ~Taken /\ incs < MaxSessions /\ Install(incs + 1, FALSE)
             /\ StartBackend(incs + 1)
    <3>1. incs + 1 \in File /\ incs + 1 \in Session /\ sessions = 0
      BY <2>2 DEF RegistryInv, Taken
    <3>2. Opened /\ RegistryInv' /\ fileOf'[incs + 1] = incs + 1
      BY <2>2, <3>1, InstallFacts
    <3>3. ~driver[incs + 1]
      BY <3>1 DEF AgentInv, RegistryInv
    <3>4. AgentInv'
      <4>1. incs + 1 <= incs'
        BY <3>1, <3>2 DEF Opened
      <4> QED BY <2>2, <3>1, <3>2, <3>3, <4>1, StartBackendAgents
    <3> QED BY <1>1, <2>2, <3>2, <3>4 DEF BeginCreate
  <2> QED BY <1>1, <2>1, <2>2 DEF BeginCreate
<1>2. ASSUME UNCHANGED <<regVars, agentVars>> PROVE RegistryInv' /\ AgentInv' /\ Unopened
  BY <1>2, AgentsUntouched DEF regVars, RegistryInv, RegistryMatchesStore, Unopened
<1>3. CASE op.kind = "hydrate" /\ BeginHydrate(op, rest)
  <2>1. Awaiting(op, [op EXCEPT !.phase = "finding"])
    BY <1>3 DEF Awaiting, QueuedOp, Operation, Phase
  <2> QED BY <1>2, <1>3, <2>1 DEF BeginHydrate
<1>4. CASE op.kind = "dispose" /\ BeginDispose(op, rest)
  <2> DEFINE found == sessions # 0 /\ driver[sessions]
             phase == IF sessions = 0 THEN "finding" ELSE IF found THEN "quiescing" ELSE "closing"
             o == [op EXCEPT !.phase = phase, !.on = sessions, !.value = found]
  <2>1. Awaiting(op, o)
    <3>1. found \in BOOLEAN /\ phase \in Phase
      BY DEF Phase
    <3>2. o \in Operation /\ o.kind = "dispose" /\ o.phase = phase
      BY <1>4, <3>1 DEF QueuedOp, Operation, RegistryInv
    <3> QED BY <1>4, <3>2 DEF Awaiting
  <2> QED BY <1>2, <1>4, <2>1 DEF BeginDispose
<1>5. CASE op.kind = "metadata" /\ BeginMetadata(op, rest)
  <2>1. Awaiting(op, [op EXCEPT !.phase = "finding"])
    BY <1>5 DEF Awaiting, QueuedOp, Operation, Phase
  <2> QED BY <1>2, <1>5, <2>1 DEF BeginMetadata
<1>6. CASE op.kind = "unread" /\ BeginUnread(op, rest)
  BY <1>2, <1>6 DEF BeginUnread
<1>7. CASE op.kind = "truncate" /\ BeginTruncate(op, rest)
  <2>1. Awaiting(op, [op EXCEPT !.phase = "navigating"]) /\ Awaiting(op, [op EXCEPT !.phase = "attaching"])
    BY <1>7 DEF Awaiting, QueuedOp, Operation, Phase
  <2>2. CASE ops' = rest /\ UNCHANGED agentVars
    BY <1>2, <1>7, <2>2 DEF BeginTruncate
  <2>3. CASE /\ driver[op.on]
             /\ ops' = <<[op EXCEPT !.phase = "navigating"]>> \o rest /\ UNCHANGED agentVars
    BY <1>2, <1>7, <2>1, <2>3 DEF BeginTruncate
  <2>4. CASE /\ sessions = op.on /\ ~driver[op.on]
             /\ ops' = <<[op EXCEPT !.phase = "attaching"]>> \o rest /\ StartBackend(op.on)
    <3>1. RegistryInv' /\ Unopened /\ UNCHANGED turn
      BY <1>7 DEF BeginTruncate, regVars, RegistryInv, RegistryMatchesStore, Unopened
    <3>2. AgentInv'
      <4>1. op.on \in Session /\ op.on <= incs' /\ UNCHANGED <<sessions, incs>>
        BY <1>7, <2>4, <3>1 DEF QueuedOp, RegistryInv, Unopened
      <4> QED BY <2>4, <4>1, StartBackendAgents
    <3> QED BY <2>1, <2>4, <3>1, <3>2
  <2> QED BY <1>7, <2>2, <2>3, <2>4 DEF BeginTruncate
<1> QED BY <1>1, <1>3, <1>4, <1>5, <1>6, <1>7 DEF Begin

-----------------------------------------------------------------------------
(* Every step keeps the invariant *)

LEMMA QueuedHeadOk ==
    ASSUME NEW op, op.phase = "queued", NEW fs, NEW live, NEW current, NEW of
    PROVE  HeadOk(op, fs, live, current, of)
BY DEF HeadOk

LEMMA AwaitingHeadOk ==
    ASSUME NEW op, NEW o, Awaiting(op, o), NEW fs, NEW current, NEW of
    PROVE  HeadOk(o, fs, sessions, current, of)
BY DEF HeadOk, Awaiting

\* A handler that leaves the head of the queue, the live session and its file
\* alone, loses no file and starts no turn.
LEMMA HeadKept ==
    ASSUME HeadInv, UNCHANGED <<sessions, fileOf>>, turn' = turn \/ turn' = None \/ disposing = "no",
           files \subseteq files',
           QueueInv(ops, disposing),
           ops' # <<>> => \/ ops # <<>> /\ Head(ops') = Head(ops)
                          \/ Head(ops').phase = "queued"
    PROVE  HeadInv'
<1> SUFFICES ASSUME ops' # <<>> PROVE HeadOk(Head(ops'), files', sessions', turn', fileOf')
  BY DEF HeadInv
<1>1. CASE Head(ops').phase = "queued"
  BY <1>1, QueuedHeadOk
<1>2. CASE ops # <<>> /\ Head(ops') = Head(ops)
  <2>1. HeadOk(Head(ops), files, sessions, turn, fileOf)
    BY <1>2 DEF HeadInv
  <2>2. Head(ops).kind = "dispose" => disposing = "entered"
    <3>1. Head(ops) = ops[1] /\ 1 \in 1..Len(ops)
      BY <1>2, TailElements DEF QueueInv
    <3> QED BY <3>1 DEF QueueInv
  <2> QED BY <1>2, <2>1, <2>2 DEF HeadOk
<1> QED BY <1>1, <1>2

\* Taking up an operation that waited, or that found the queue empty.
LEMMA RunFacts ==
    ASSUME IInv, NEW op, QueuedOp(op), Run(op), UNCHANGED files,
           \/ disposing' = disposing /\ op.kind # "dispose"
           \/ disposing' = "entered" /\ disposing = "deferred"
    PROVE  IInv'
<1> USE DEF IInv
<1>1. CASE ops = <<>>
  <2>1. Begin(op, <<>>)
    BY <1>1 DEF Run
  <2>2. RegistryInv' /\ AgentInv'
    BY <2>1, BeginFacts
  <2>3. CASE ops' = <<>>
    <3>1. ops' \in Seq(Operation) /\ Len(ops') = 0
      BY <2>3
    <3> QED BY <2>2, <2>3, <3>1 DEF QueueInv, HeadInv
  <2>4. CASE Unopened /\ \E o : Awaiting(op, o) /\ ops' = <<o>> \o <<>>
    <3>1. PICK o : Awaiting(op, o) /\ ops' = <<o>> \o <<>>
      BY <2>4
    <3>2. o \in Operation /\ o.kind = op.kind /\ (o.on \in Session \/ o.kind # "truncate")
      BY <3>1 DEF Awaiting
    <3>3. o.kind = "dispose" => disposing' = "entered"
      BY <3>2
    <3>4. QueueInv(ops', disposing') /\ Head(ops') = o
      BY <3>1, <3>2, <3>3, SingleQueue
    <3>5. HeadInv'
      BY <2>4, <3>1, <3>4, AwaitingHeadOk DEF HeadInv, Unopened
    <3> QED BY <2>2, <3>4, <3>5
  <2> QED BY <2>1, <2>3, <2>4, BeginFacts
<1>2. CASE ops # <<>>
  <2>1. ops' = Append(ops, op) /\ UNCHANGED <<regVars, flagVars, turn, agentVars>>
    BY <1>2 DEF Run
  <2>2. UNCHANGED <<sessions, incs, fileOf, store>>
    BY <2>1 DEF regVars
  <2>3. QueueInv(ops', disposing') /\ ops' # <<>> /\ Head(ops') = Head(ops)
    BY <1>2, <2>1, AppendQueue DEF QueuedOp
  <2>4. RegistryInv' /\ AgentInv'
    BY <2>1, <2>2, AgentsUntouched DEF RegistryInv, RegistryMatchesStore
  <2>5. HeadInv'
    BY <1>2, <2>1, <2>2, <2>3, HeadKept
  <2> QED BY <2>3, <2>4, <2>5
<1> QED BY <1>1, <1>2

LEMMA StartNextInv == ASSUME IInv, StartNext PROVE IInv'
<1> USE DEF IInv
<1> DEFINE op == Head(ops)
<1>1. ops # <<>> /\ op.phase = "queued" /\ Begin(op, Tail(ops)) /\ UNCHANGED <<files, disposing>>
  BY DEF StartNext, disposalVars
<1>2. op = ops[1] /\ op \in Operation /\ 1 \in 1..Len(ops)
  BY <1>1, TailElements DEF QueueInv
<1>3. QueuedOp(op)
  BY <1>1, <1>2 DEF QueueInv, QueuedOp
<1>4. RegistryInv' /\ AgentInv'
  BY <1>1, <1>3, BeginFacts
<1>5. CASE ops' = Tail(ops)
  <2>1. QueueInv(ops', disposing') /\ (ops' # <<>> => Head(ops').phase = "queued")
    BY <1>1, <1>5, EndQueue
  <2>2. HeadInv'
    BY <2>1, QueuedHeadOk DEF HeadInv
  <2> QED BY <1>4, <2>1, <2>2
<1>6. CASE Unopened /\ \E o : Awaiting(op, o) /\ ops' = <<o>> \o Tail(ops)
  <2>1. PICK o : Awaiting(op, o) /\ ops' = <<o>> \o Tail(ops)
    BY <1>6
  <2>2. o \in Operation /\ o.kind = ops[1].kind /\ (o.on \in Session \/ o.kind # "truncate")
    BY <2>1, <1>2 DEF Awaiting
  <2>3. QueueInv(ops', disposing') /\ Head(ops') = o
    BY <1>1, <2>1, <2>2, AdvanceQueue
  <2>4. HeadInv'
    BY <1>6, <2>1, <2>3, AwaitingHeadOk DEF HeadInv, Unopened
  <2> QED BY <1>4, <2>3, <2>4
<1> QED BY <1>1, <1>3, <1>5, <1>6, BeginFacts

LEMMA OpIsQueued ==
    ASSUME NEW kind \in Kind, NEW on \in 0..MaxSessions, on \in Session \/ kind # "truncate"
    PROVE  QueuedOp(Op(kind, on)) /\ Op(kind, on).kind = kind
BY SessionNumbers DEF QueuedOp, Op, Operation, Kind, Phase

LEMMA RequestInv ==
    ASSUME IInv, \/ Create \/ Hydrate \/ Truncate \/ EnterDisposal
                 \/ \E v \in BOOLEAN : SetRead(v)
    PROVE  IInv'
<1> USE SessionNumbers
<1>0. sessions \in 0..MaxSessions /\ 0 \in 0..MaxSessions
  BY DEF IInv, RegistryInv
<1>1. CASE Create
  BY <1>0, <1>1, OpIsQueued, RunFacts DEF Create, Kind, disposalVars
<1>2. CASE Hydrate
  BY <1>0, <1>2, OpIsQueued, RunFacts DEF Hydrate, Kind, disposalVars
<1>3. CASE Truncate
  BY <1>0, <1>3, OpIsQueued, RunFacts DEF Truncate, Admitted, Kind, disposalVars
<1>4. CASE EnterDisposal
  BY <1>0, <1>4, OpIsQueued, RunFacts DEF EnterDisposal, Kind
<1>5. ASSUME NEW v \in BOOLEAN, SetRead(v) PROVE IInv'
  <2>1. QueuedOp([Op("metadata", 0) EXCEPT !.value = v])
        /\ [Op("metadata", 0) EXCEPT !.value = v].kind = "metadata"
    BY <1>0 DEF QueuedOp, Op, Operation, Kind, Phase, File
  <2> QED BY <1>5, <2>1, RunFacts DEF SetRead, disposalVars
<1> QED BY <1>1, <1>2, <1>3, <1>4, <1>5

LEMMA DisposeInv == ASSUME IInv, Dispose PROVE IInv'
<1>1. QueueInv(ops', disposing')
  BY DEF IInv, QueueInv, Dispose
<1>2. UNCHANGED <<sessions, incs, fileOf, store, files, turn, agentVars, ops>>
  BY DEF Dispose, regVars, chatVars
<1>3. RegistryInv' /\ AgentInv'
  BY <1>2, AgentsUntouched DEF IInv, RegistryInv, RegistryMatchesStore
<1>4. HeadInv'
  BY <1>2, HeadKept DEF IInv
<1> QED BY <1>1, <1>3, <1>4 DEF IInv

LEMMA RouteAgents ==
    ASSUME RegistryInv, AgentInv, sessions # 0, UNCHANGED <<sessions, incs>>,
           NEW m, NEW starts, Route(m, starts)
    PROVE  AgentInv'
<1>1. sessions \in Session /\ sessions <= incs'
  BY SessionNumbers DEF RegistryInv
<1>2. CASE driver[sessions]
  BY <1>2, AgentsUntouched DEF Route
<1>3. CASE ~driver[sessions]
  BY <1>1, <1>3, StartBackendAgents DEF Route
<1> QED BY <1>2, <1>3

LEMMA MarkUnreadQueue ==
    ASSUME NEW q, NEW gate, QueueInv(q, gate), NEW i \in 0..MaxSessions, MarkUnread(i, q)
    PROVE  /\ QueueInv(ops', gate)
           /\ ops' # <<>> => q # <<>> /\ Head(ops') = Head(q)
<1>1. CASE q = <<>>
  BY <1>1 DEF MarkUnread
<1>2. CASE q # <<>>
  <2>1. QueuedOp(Op("unread", i)) /\ Op("unread", i).kind = "unread"
    BY OpIsQueued DEF Kind
  <2> QED BY <1>2, <2>1, AppendQueue DEF MarkUnread, QueuedOp
<1> QED BY <1>1, <1>2

\* Handlers that leave the registry and the files alone.
LEMMA ChatInv ==
    ASSUME IInv, UNCHANGED <<regVars, files, disposing>>, AgentInv',
           turn' = turn \/ turn' = None \/ disposing = "no",
           QueueInv(ops', disposing),
           ops' # <<>> => \/ ops # <<>> /\ Head(ops') = Head(ops)
                          \/ Head(ops').phase = "queued"
    PROVE  IInv'
<1>1. UNCHANGED <<sessions, incs, fileOf, store, files, disposing>>
  BY DEF regVars
<1>2. RegistryInv'
  BY <1>1 DEF IInv, RegistryInv, RegistryMatchesStore
<1>3. HeadInv'
  BY <1>1, HeadKept DEF IInv
<1> QED BY <1>1, <1>2, <1>3 DEF IInv

LEMMA ChatActionInv ==
    ASSUME IInv, NEW m \in Actions, StartTurn(m) \/ CancelTurn(m) \/ SendMessage(m)
    PROVE  IInv'
<1>1. UNCHANGED <<regVars, files, disposing>> /\ sessions # 0 /\ disposing = "no"
      /\ \E starts \in BOOLEAN : Route(m, starts)
  BY DEF StartTurn, CancelTurn, SendMessage, Admitted, disposalVars
<1>2. AgentInv'
  BY <1>1, RouteAgents DEF IInv, regVars
<1>3. CASE UNCHANGED ops
  BY <1>1, <1>2, <1>3, ChatInv DEF IInv
<1>4. CASE MarkUnread(sessions, ops)
  <2>1. sessions \in 0..MaxSessions
    BY DEF IInv, RegistryInv
  <2>2. QueueInv(ops', disposing) /\ (ops' # <<>> => ops # <<>> /\ Head(ops') = Head(ops))
    BY <1>4, <2>1, MarkUnreadQueue DEF IInv
  <2> QED BY <1>1, <1>2, <2>2, ChatInv
<1> QED BY <1>3, <1>4 DEF StartTurn, CancelTurn, SendMessage

LEMMA AttachInv == ASSUME IInv, NEW i \in Session, AttachStep(i) PROVE IInv'
<1> USE SessionNumbers
<1>0. UNCHANGED <<regVars, files, disposing>> /\ UNCHANGED <<sessions, incs>>
  BY DEF AttachStep, AttachSucceeds, AttachFails, disposalVars, regVars
<1>1. attaching[i] /\ starting[i] = 1 /\ ~driver[i] /\ running[i] = 0 /\ i <= incs
  BY DEF AttachStep, AttachSucceeds, AttachFails, Settled, IInv, AgentInv, RegistryInv
<1>2. CASE AttachSucceeds(i)
  <2>1. /\ starting' = [starting EXCEPT ![i] = @ - 1]
        /\ attaching' = [attaching EXCEPT ![i] = FALSE]
        /\ IF sessions = i
           THEN driver' = [driver EXCEPT ![i] = TRUE] /\ running' = [running EXCEPT ![i] = @ + 1]
           ELSE UNCHANGED <<driver, running>>
        /\ UNCHANGED <<ops, turn>>
    BY <1>2 DEF AttachSucceeds, Settled
  <2>2. AgentInv'
    <3>1. /\ driver' \in [Session -> BOOLEAN] /\ attaching' \in [Session -> BOOLEAN]
          /\ starting' \in [Session -> Nat] /\ running' \in [Session -> Nat]
      <4>1. attaching' \in [Session -> BOOLEAN] /\ starting' \in [Session -> Nat]
        BY <1>1, <2>1 DEF IInv, AgentInv
      <4>2. CASE sessions = i
        <5> HIDE SessionNumbers
        <5>1. driver' = [driver EXCEPT ![i] = TRUE] /\ running' = [running EXCEPT ![i] = @ + 1]
          BY <2>1, <4>2
        <5>2. driver' \in [Session -> BOOLEAN]
          BY <5>1 DEF IInv, AgentInv
        <5>3. running' \in [Session -> Nat]
          BY <5>1 DEF IInv, AgentInv
        <5> QED BY <4>1, <5>2, <5>3
      <4>3. CASE sessions # i
        BY <1>1, <2>1, <4>1, <4>3 DEF IInv, AgentInv
      <4> QED BY <4>2, <4>3
    <3>2. \A j \in Session : starting'[j] = IF attaching'[j] THEN 1 ELSE 0
      BY <1>1, <2>1 DEF IInv, AgentInv
    <3>3. \A j \in Session : driver'[j] => ~attaching'[j]
      BY <1>1, <2>1 DEF IInv, AgentInv
    <3>4. ASSUME NEW j \in Session PROVE running'[j] = IF sessions = j /\ driver'[j] THEN 1 ELSE 0
      <4>1. CASE sessions = i
        BY <1>1, <2>1, <4>1 DEF IInv, AgentInv
      <4>2. CASE sessions # i
        BY <1>1, <2>1, <4>2 DEF IInv, AgentInv
      <4> QED BY <4>1, <4>2
    <3>5. \A j \in Session : j > incs => ~driver'[j] /\ ~attaching'[j]
      BY <1>1, <2>1 DEF IInv, AgentInv
    <3> QED BY <1>0, <3>1, <3>2, <3>3, <3>4, <3>5 DEF AgentInv
  <2> QED BY <1>0, <2>1, <2>2, ChatInv DEF IInv
<1>3. CASE AttachFails(i)
  <2>1. /\ starting' = [starting EXCEPT ![i] = @ - 1]
        /\ attaching' = [attaching EXCEPT ![i] = FALSE]
        /\ UNCHANGED <<driver, running>>
    BY <1>3 DEF AttachFails, Settled
  <2>2. AgentInv'
    BY <1>0, <1>1, <2>1 DEF IInv, AgentInv, RegistryInv
  <2>3. CASE UNCHANGED <<turn, ops>>
    BY <1>0, <2>2, <2>3, ChatInv DEF IInv
  <2>4. CASE turn' = None /\ MarkUnread(i, ops)
    <3>1. QueueInv(ops', disposing) /\ (ops' # <<>> => ops # <<>> /\ Head(ops') = Head(ops))
      BY <2>4, MarkUnreadQueue DEF IInv
    <3> QED BY <1>0, <2>2, <2>4, <3>1, ChatInv
  <2> QED BY <1>3, <2>3, <2>4 DEF AttachFails
<1> QED BY <1>2, <1>3 DEF AttachStep

LEMMA AgentWorkInv == ASSUME IInv, EndTurn \/ PiWrites PROVE IInv'
<1>1. CASE EndTurn
  <2>1. UNCHANGED <<regVars, files, disposing, agentVars>> /\ turn' = None /\ MarkUnread(sessions, ops)
    BY <1>1 DEF EndTurn, disposalVars
  <2>2. sessions \in 0..MaxSessions
    BY DEF IInv, RegistryInv
  <2>3. QueueInv(ops', disposing) /\ (ops' # <<>> => ops # <<>> /\ Head(ops') = Head(ops))
    BY <2>1, <2>2, MarkUnreadQueue DEF IInv
  <2>4. AgentInv'
    BY <2>1, AgentsUntouched DEF IInv, regVars
  <2> QED BY <2>1, <2>3, <2>4, ChatInv
<1>2. CASE PiWrites
  <2>1. /\ UNCHANGED <<regVars, disposing, agentVars, ops, turn>> /\ sessions # 0
        /\ files' = files \cup {fileOf[sessions]}
    BY <1>2 DEF PiWrites, Working, disposalVars, chatVars
  <2>2. UNCHANGED <<sessions, incs, fileOf, store>>
    BY <2>1 DEF regVars
  <2>3. RegistryInv'
    <3>1. sessions \in Session
      BY <2>1, SessionNumbers DEF IInv, RegistryInv
    <3>2. fileOf[sessions] \in File
      BY <3>1 DEF IInv, RegistryInv
    <3> QED BY <2>1, <2>2, <3>2 DEF IInv, RegistryInv, RegistryMatchesStore
  <2>3a. AgentInv'
    BY <2>1, <2>2, AgentsUntouched DEF IInv
  <2>4. HeadInv'
    BY <2>1, <2>2, HeadKept DEF IInv
  <2> QED BY <2>1, <2>3, <2>3a, <2>4 DEF IInv
<1> QED BY <1>1, <1>2

LEMMA HeadFacts ==
    ASSUME IInv, ops # <<>>
    PROVE  /\ Head(ops) = ops[1] /\ Head(ops) \in Operation
           /\ Head(ops).kind = "truncate" => Head(ops).on \in Session
           /\ Head(ops).kind = "dispose" => disposing = "entered"
           /\ HeadOk(Head(ops), files, sessions, turn, fileOf)
<1>1. Head(ops) = ops[1] /\ ops[1] \in Operation /\ 1 \in 1..Len(ops)
  BY TailElements DEF IInv, QueueInv
<1> QED BY <1>1 DEF IInv, QueueInv, HeadInv

\* The running operation ends and leaves the registry alone.
LEMMA EndInv ==
    ASSUME IInv, ops # <<>>, End, UNCHANGED <<regVars, files, agentVars>>,
           disposing' = disposing \/ (disposing' = "no" /\ Head(ops).kind = "dispose")
    PROVE  IInv'
<1>1. UNCHANGED <<sessions, incs, fileOf, store, files>>
  BY DEF regVars
<1>2. RegistryInv' /\ AgentInv'
  <2>1. RegistryInv'
    BY <1>1 DEF IInv, RegistryInv, RegistryMatchesStore
  <2> QED BY <1>1, <2>1, AgentsUntouched DEF IInv
<1>3. QueueInv(ops', disposing') /\ (ops' # <<>> => Head(ops').phase = "queued")
  BY HeadFacts, EndQueue DEF IInv, End
<1>4. HeadInv'
  BY <1>3, QueuedHeadOk DEF HeadInv
<1> QED BY <1>2, <1>3, <1>4 DEF IInv

\* The running operation goes on to its next await.
LEMMA AdvanceInv ==
    ASSUME IInv, ops # <<>>, UNCHANGED <<regVars, agentVars, disposing>>, files' \subseteq files,
           NEW op \in Operation, op.kind = Head(ops).kind, op.on = Head(ops).on, Advance(op),
           HeadOk(op, files', sessions, turn', fileOf)
    PROVE  IInv'
<1>1. UNCHANGED <<sessions, incs, fileOf, store>>
  BY DEF regVars
<1>2. RegistryInv'
  BY <1>1 DEF IInv, RegistryInv, RegistryMatchesStore
<1>3. AgentInv'
  BY <1>1, AgentsUntouched DEF IInv
<1>4. QueueInv(ops', disposing') /\ Head(ops') = op
  <2>1. op.kind = ops[1].kind /\ (op.on \in Session \/ op.kind # "truncate")
    BY HeadFacts
  <2> QED BY <2>1, AdvanceQueue DEF IInv, Advance
<1>5. HeadInv'
  BY <1>1, <1>4 DEF HeadInv
<1> QED BY <1>2, <1>3, <1>4, <1>5 DEF IInv

LEMMA HydrateFoundInv == ASSUME IInv, HydrateFound PROVE IInv'
<1>1. ops # <<>> /\ Head(ops).kind = "hydrate" /\ UNCHANGED <<regVars, files, agentVars, disposing>>
  BY DEF HydrateFound, Is, disposalVars
<1>2. CASE End
  BY <1>1, <1>2, EndInv
<1>3. ASSUME NEW f \in files, Advance([Head(ops) EXCEPT !.phase = "reading", !.file = f])
      PROVE  IInv'
  <2> DEFINE op == [Head(ops) EXCEPT !.phase = "reading", !.file = f]
  <2>1. op \in Operation /\ op.kind = "hydrate" /\ op.on = Head(ops).on /\ op.file = f
    BY <1>1, HeadFacts DEF Operation, Phase, IInv, RegistryInv
  <2>2. HeadOk(op, files', sessions, turn', fileOf)
    BY <1>1, <2>1 DEF HeadOk
  <2> QED BY <1>1, <1>3, <2>1, <2>2, AdvanceInv
<1> QED BY <1>2, <1>3 DEF HydrateFound

LEMMA HydrateReadsInv ==
    ASSUME IInv, HydrateReads
    PROVE  /\ IInv'
           /\ \/ Unopened
              \/ disposing = "no" /\ Opened /\ fileOf'[incs + 1] \in files
<1>1. /\ ops # <<>> /\ Head(ops).kind = "hydrate" /\ Head(ops).phase = "reading" /\ End
      /\ UNCHANGED <<files, agentVars, disposing>>
  BY DEF HydrateReads, Is, disposalVars
<1>2. CASE UNCHANGED <<regVars, shown, turn>>
  BY <1>1, <1>2, EndInv DEF regVars, Unopened
<1>3. CASE sessions = 0 /\ disposing = "no" /\ incs < MaxSessions /\ Install(Head(ops).file, TRUE)
  <2>1. Head(ops).file \in files /\ Head(ops).file \in File
    BY <1>1, HeadFacts DEF HeadOk, Operation
  <2>2. Opened /\ RegistryInv' /\ fileOf'[incs + 1] \in files
    BY <1>1, <1>3, <2>1, InstallFacts DEF IInv
  <2>3. AgentInv'
    BY <1>1, <2>2, AgentsUntouched DEF IInv
  <2>4. QueueInv(ops', disposing') /\ (ops' # <<>> => Head(ops').phase = "queued")
    BY <1>1, EndQueue DEF IInv, End
  <2>5. HeadInv'
    BY <2>4, QueuedHeadOk DEF HeadInv
  <2> QED BY <1>3, <2>2, <2>3, <2>4, <2>5 DEF IInv
<1> QED BY <1>2, <1>3 DEF HydrateReads

LEMMA OtherOperationsInv ==
    ASSUME IInv, MetadataFound \/ TruncateAttached \/ Navigated
    PROVE  IInv'
<1>1. ops # <<>> /\ UNCHANGED <<regVars, files, agentVars, disposing>>
  BY DEF MetadataFound, TruncateAttached, Navigated, Is, disposalVars
<1>2. CASE End
  BY <1>1, <1>2, EndInv
<1>3. CASE /\ Head(ops).kind = "truncate"
           /\ Advance([Head(ops) EXCEPT !.phase = "navigating"])
  <2> DEFINE op == [Head(ops) EXCEPT !.phase = "navigating"]
  <2>1. op \in Operation /\ op.kind = "truncate" /\ op.on = Head(ops).on
    BY <1>1, <1>3, HeadFacts DEF Operation, Phase
  <2>2. HeadOk(op, files', sessions, turn', fileOf)
    BY <2>1 DEF HeadOk
  <2> QED BY <1>1, <1>3, <2>1, <2>2, AdvanceInv
<1> QED BY <1>2, <1>3 DEF MetadataFound, TruncateAttached, Navigated, Is

\* A disposal goes on to its next await.
LEMMA DisposalAdvances ==
    ASSUME IInv, ops # <<>>, Head(ops).kind = "dispose", NEW phase \in Phase, NEW f \in File,
           UNCHANGED <<regVars, agentVars, disposing>>, files' \subseteq files,
           Advance([Head(ops) EXCEPT !.phase = phase, !.file = f]),
           phase \in {"deleting", "children"}, sessions = 0 \/ turn' = None,
           phase = "deleting" => IF sessions = 0 THEN f \in files' ELSE f = fileOf[sessions]
    PROVE  IInv'
<1> DEFINE op == [Head(ops) EXCEPT !.phase = phase, !.file = f]
<1>1. op \in Operation /\ op.kind = "dispose" /\ op.on = Head(ops).on /\ op.phase = phase /\ op.file = f
  BY HeadFacts DEF Operation
<1> HIDE DEF op
<1>2. HeadOk(op, files', sessions, turn', fileOf)
  BY <1>1 DEF HeadOk
<1> QED BY <1>1, <1>2, AdvanceInv DEF op

LEMMA DisposalFailsInv ==
    ASSUME IInv, ops # <<>>, Head(ops).kind = "dispose", DisposalFails
    PROVE  IInv' /\ Unopened
<1>1. UNCHANGED <<regVars, files, agentVars>> /\ End /\ disposing' = "no"
  BY DEF DisposalFails, GateOpens, Continue, regVars
<1> QED BY <1>1, EndInv DEF regVars, Unopened

LEMMA QuiescedInv == ASSUME IInv, Quiesced PROVE IInv'
<1> DEFINE op == [Head(ops) EXCEPT !.phase = "deleting", !.file = fileOf[sessions]]
           queue == <<op>> \o Tail(ops)
<1>1. /\ ops # <<>> /\ Head(ops).kind = "dispose" /\ sessions # 0
      /\ UNCHANGED <<regVars, files, agentVars, disposing>>
  BY HeadFacts DEF Quiesced, Is, HeadOk, disposalVars
<1>2. sessions \in Session /\ fileOf[sessions] \in File /\ sessions \in 0..MaxSessions
  BY <1>1, SessionNumbers DEF IInv, RegistryInv
<1>3. CASE turn = None /\ ops' = queue
  BY <1>1, <1>2, <1>3, DisposalAdvances DEF Advance, Quiesced, Phase
<1>4. CASE turn' = None /\ MarkUnread(sessions, queue)
  <2>1. op \in Operation /\ op.kind = "dispose" /\ op.phase = "deleting" /\ op.file = fileOf[sessions]
    BY <1>1, <1>2, HeadFacts DEF Operation, Phase
  <2>2. QueueInv(queue, disposing) /\ queue # <<>> /\ Head(queue) = op
    <3>1. op.kind = ops[1].kind
      BY <1>1, <2>1, HeadFacts
    <3> HIDE DEF op
    <3> QED BY <1>1, <2>1, <3>1, AdvanceQueue DEF IInv
  <2> HIDE DEF op, queue
  <2>3. QueueInv(ops', disposing') /\ (ops' # <<>> => Head(ops') = op)
    BY <1>1, <1>2, <1>4, <2>2, MarkUnreadQueue
  <2>4. HeadInv'
    BY <1>1, <1>4, <2>1, <2>3 DEF HeadInv, HeadOk, regVars
  <2>5. RegistryInv' /\ AgentInv'
    <3>1. UNCHANGED <<sessions, incs, fileOf, store, files>>
      BY <1>1 DEF regVars
    <3>2. RegistryInv'
      BY <3>1 DEF IInv, RegistryInv, RegistryMatchesStore
    <3> QED BY <1>1, <3>1, <3>2, AgentsUntouched DEF IInv
  <2> QED BY <2>3, <2>4, <2>5 DEF IInv
<1> QED BY <1>3, <1>4 DEF Quiesced

LEMMA DisposeFoundInv == ASSUME IInv, DisposeFound PROVE IInv'
<1>1. /\ ops # <<>> /\ Head(ops).kind = "dispose" /\ sessions = 0
      /\ UNCHANGED <<regVars, files, agentVars, disposing>>
  BY HeadFacts DEF DisposeFound, Is, HeadOk, disposalVars
<1>2. PICK f \in files : Advance([Head(ops) EXCEPT !.phase = "deleting", !.file = f])
  BY DEF DisposeFound
<1>3. f \in File
  BY DEF IInv, RegistryInv
<1> QED BY <1>1, <1>2, <1>3, DisposalAdvances DEF Phase

LEMMA DisposeFindsNothingInv == ASSUME IInv, DisposeFindsNothing PROVE IInv' /\ DisposalFails
<1>1. /\ ops # <<>> /\ Head(ops).kind = "dispose" /\ sessions = 0
  BY HeadFacts DEF DisposeFindsNothing, Is, HeadOk
<1>2. store.session = 0
  BY <1>1 DEF IInv, RegistryInv, RegistryMatchesStore
<1> QED BY <1>1, <1>2, DisposalFailsInv DEF DisposeFindsNothing

LEMMA DeleteSucceedsInv == ASSUME IInv, DeleteSucceeds PROVE IInv'
<1>1. /\ ops # <<>> /\ Head(ops).kind = "dispose" /\ (sessions = 0 \/ turn' = None)
      /\ UNCHANGED <<regVars, agentVars, disposing>> /\ files' \subseteq files
  BY HeadFacts DEF DeleteSucceeds, Is, HeadOk, disposalVars, chatVars
<1>2. Head(ops).file \in File /\ Head(ops) = [Head(ops) EXCEPT !.file = Head(ops).file]
  BY <1>1, HeadFacts DEF Operation
<1>3. Advance([Head(ops) EXCEPT !.phase = "children", !.file = Head(ops).file])
  <2>1. [Head(ops) EXCEPT !.phase = "children"]
          = [Head(ops) EXCEPT !.phase = "children", !.file = Head(ops).file]
    BY <1>1, HeadFacts DEF Operation
  <2> QED BY <2>1 DEF DeleteSucceeds
<1> QED BY <1>1, <1>2, <1>3, DisposalAdvances DEF Phase

LEMMA ChildrenClosedInv == ASSUME IInv, ChildrenClosed PROVE IInv'
<1> USE SessionNumbers
<1>1. /\ ops # <<>> /\ Head(ops).kind = "dispose" /\ End /\ disposing' = "no" /\ turn' = None
      /\ sessions' = 0 /\ store' = [session |-> 0, chat |-> 0]
      /\ UNCHANGED <<incs, fileOf, files, driver, attaching, starting>>
      /\ IF sessions # 0 /\ driver[sessions]
         THEN running' = [running EXCEPT ![sessions] = @ - 1]
         ELSE UNCHANGED running
  BY DEF ChildrenClosed, Is, RemoveCurrent, GateOpens
<1>2. RegistryInv'
  BY <1>1 DEF IInv, RegistryInv, RegistryMatchesStore
<1>3. running' \in [Session -> Nat] /\ \A i \in Session : running'[i] = 0
  <2>1. CASE sessions # 0 /\ driver[sessions]
    <3>1. sessions \in Session /\ running[sessions] = 1
      BY <2>1 DEF IInv, AgentInv, RegistryInv
    <3>2. running' = [running EXCEPT ![sessions] = @ - 1]
      BY <1>1, <2>1
    <3> HIDE SessionNumbers
    <3>3. \A i \in Session : i # sessions => running[i] = 0
      BY DEF IInv, AgentInv
    <3> QED BY <3>1, <3>2, <3>3 DEF IInv, AgentInv
  <2>2. CASE ~(sessions # 0 /\ driver[sessions])
    BY <1>1, <2>2 DEF IInv, AgentInv, RegistryInv
  <2> QED BY <2>1, <2>2
<1>5. AgentInv'
  BY <1>1, <1>3 DEF IInv, AgentInv
<1>6. QueueInv(ops', disposing') /\ (ops' # <<>> => Head(ops').phase = "queued")
  <2>1. ops[1].kind = "dispose"
    BY <1>1, HeadFacts
  <2> QED BY <1>1, <2>1, EndQueue DEF IInv, End
<1>7. HeadInv'
  BY <1>6, QueuedHeadOk DEF HeadInv
<1> QED BY <1>2, <1>5, <1>6, <1>7 DEF IInv

LEMMA NextInv == ASSUME IInv, [Next]_vars PROVE IInv'
<1>1. CASE Request
  BY <1>1, RequestInv, DisposeInv, ChatActionInv DEF Request
<1>2. CASE QuiesceFails \/ DeleteFails
  BY <1>2, DisposalFailsInv DEF QuiesceFails, DeleteFails, Is
<1>3. CASE OperationStep
  BY <1>2, <1>3, StartNextInv, HydrateFoundInv, HydrateReadsInv, OtherOperationsInv, RequestInv, QuiescedInv,
     DisposeFoundInv, DisposeFindsNothingInv, DeleteSucceedsInv, ChildrenClosedInv
  DEF OperationStep
<1>4. CASE \E i \in Session : AttachStep(i)
  BY <1>4, AttachInv
<1>5. CASE EndTurn \/ PiWrites
  BY <1>5, AgentWorkInv
<1>6. CASE UNCHANGED vars
  <2>1. UNCHANGED <<regVars, files, turn, agentVars, ops, disposing>> /\ UNCHANGED <<sessions, incs>>
    BY <1>6 DEF vars, chatVars, disposalVars, regVars
  <2>2. AgentInv'
    BY <2>1, AgentsUntouched DEF IInv
  <2> QED BY <2>1, <2>2, ChatInv DEF IInv
<1> QED BY <1>1, <1>3, <1>4, <1>5, <1>6 DEF Next

-----------------------------------------------------------------------------
(* What follows *)

THEOREM Invariance == Spec => []IInv
<1>1. IInv /\ [Next]_vars => IInv'
  BY NextInv
<1> QED BY InitInv, <1>1, PTL DEF Spec

\* The registry and the protocol state never disagree about the live session,
\* and a session never exists without its chat.
THEOREM RegistryAgrees == Spec => []RegistryMatchesStore
<1>1. IInv => RegistryMatchesStore
  BY DEF IInv, RegistryInv
<1> QED BY Invariance, <1>1, PTL

\* Every running agent belongs to the driver of the live session.
THEOREM NoStrayAgents == Spec => []AgentsOwned
<1>1. IInv => AgentsOwned
  BY DEF IInv, AgentInv, AgentsOwned
<1> QED BY Invariance, <1>1, PTL

\* Two agents are never started or running over the same session.
THEOREM SingleAgents == Spec => []OneAgentPerSession
<1>1. IInv => OneAgentPerSession
  BY DEF IInv, AgentInv, OneAgentPerSession
<1> QED BY Invariance, <1>1, PTL

-----------------------------------------------------------------------------
(* The refinement *)

Removing == Is("dispose", "children")

\* A step that opens, saves, removes and closes nothing.
Quiet == UNCHANGED <<sessions, incs, fileOf, files>> /\ Removing' = Removing

\* The prover needs to be told that a condition is a Boolean value.
LEMMA RemovingBoolean == Removing \in BOOLEAN /\ Removing' \in BOOLEAN
BY DEF Removing, Is

LEMMA StillNotRemoving == ~Removing /\ ~Removing' => Removing' = Removing
BY RemovingBoolean

LEMMA QuietStutters == Quiet => UNCHANGED Identity!identityVars
BY DEF Quiet, Removing, Identity!identityVars

LEMMA OpenedOpens ==
    ASSUME IInv, Opened, disposing = "no", ~Removing', UNCHANGED files,
           fileOf'[incs + 1] \in files \cup {incs + 1}
    PROVE  Identity!Open
<1>1. ~Removing
  BY HeadFacts DEF Removing, Is
<1>2. sessions' # 0 /\ sessions' = incs + 1
  BY DEF Opened, IInv, RegistryInv
<1>3. (IF sessions = 0 THEN 0 ELSE fileOf[sessions])' = fileOf'[incs + 1]
  BY <1>2
<1>4. (Removing <=> Is("dispose", "children")) /\ (Removing' <=> Is("dispose", "children")')
  BY DEF Removing, Is
<1>5. Is("dispose", "children")' = Is("dispose", "children")
  BY <1>1, StillNotRemoving DEF Removing
<1> QED BY <1>1, <1>3, <1>4, <1>5 DEF Opened, Identity!Open

\* A head that is queued, or stays, removes nothing new.
LEMMA HeadQuiet ==
    ASSUME \/ ops = <<>> /\ (ops' # <<>> => Head(ops').phase \notin {"children"})
           \/ ops # <<>> /\ ops' # <<>> /\ Head(ops') = Head(ops)
           \/ ~Removing /\ (ops' # <<>> => Head(ops').phase # "children")
    PROVE  Removing' = Removing
BY DEF Removing, Is

LEMMA RunIdentity ==
    ASSUME IInv, NEW op, QueuedOp(op), Run(op), UNCHANGED files
    PROVE  Quiet \/ Identity!Open
<1>1. CASE ops = <<>>
  <2>1. Begin(op, <<>>)
    BY <1>1 DEF Run
  <2>2. ops' # <<>> => Head(ops').phase # "children"
    <3>1. CASE ops' = <<>>
      BY <3>1
    <3>2. CASE \E o : Awaiting(op, o) /\ ops' = <<o>> \o <<>>
      <4>1. PICK o : Awaiting(op, o) /\ ops' = <<o>> \o <<>>
        BY <3>2
      <4>2. o \in Operation /\ o.phase # "children" /\ <<>> \in Seq(Operation)
        BY <4>1 DEF Awaiting
      <4> QED BY <4>1, <4>2, Prepended
    <3> QED BY <2>1, <3>1, <3>2, BeginFacts DEF IInv
  <2>3. Removing' = Removing /\ ~Removing
    BY <1>1, <2>2, HeadQuiet DEF Removing, Is
  <2>4. Unopened \/ (~Taken /\ Opened /\ fileOf'[incs + 1] = incs + 1)
    BY <2>1, BeginFacts DEF IInv
  <2>5. ~Taken => disposing = "no"
    BY DEF Taken
  <2> QED BY <2>3, <2>4, <2>5, OpenedOpens DEF Quiet, Unopened
<1>2. CASE ops # <<>>
  <2>1. ops' = Append(ops, op) /\ UNCHANGED regVars
    BY <1>2 DEF Run
  <2>2. ops' # <<>> /\ Head(ops') = Head(ops)
    BY <1>2, <2>1, HeadTailAppend, AppendProperties DEF IInv, QueueInv, QueuedOp
  <2> QED BY <1>2, <2>1, <2>2, HeadQuiet DEF Quiet, regVars
<1> QED BY <1>1, <1>2

LEMMA StartNextIdentity == ASSUME IInv, StartNext PROVE Quiet \/ Identity!Open
<1> DEFINE op == Head(ops)
<1>1. ops # <<>> /\ op.phase = "queued" /\ Begin(op, Tail(ops)) /\ UNCHANGED files
  BY DEF StartNext
<1>2. QueuedOp(op) /\ op = ops[1]
  BY <1>1, HeadFacts DEF QueuedOp
<1>3. ops' # <<>> => Head(ops').phase # "children"
  <2>1. CASE ops' = Tail(ops)
    BY <1>1, <2>1, EndQueue DEF IInv
  <2>2. CASE \E o : Awaiting(op, o) /\ ops' = <<o>> \o Tail(ops)
    <3>1. PICK o : Awaiting(op, o) /\ ops' = <<o>> \o Tail(ops)
      BY <2>2
    <3>2. o \in Operation /\ o.phase # "children" /\ Tail(ops) \in Seq(Operation)
      BY <1>1, <3>1, TailElements DEF Awaiting, IInv, QueueInv
    <3> QED BY <3>1, <3>2, Prepended
  <2> QED BY <1>1, <1>2, <2>1, <2>2, BeginFacts DEF IInv
<1>4. Removing' = Removing /\ ~Removing
  BY <1>1, <1>3, HeadQuiet DEF Removing, Is
<1>5. Unopened \/ (~Taken /\ Opened /\ fileOf'[incs + 1] = incs + 1)
  BY <1>1, <1>2, BeginFacts DEF IInv
<1> QED BY <1>1, <1>4, <1>5, OpenedOpens DEF Quiet, Unopened, Taken

LEMMA RequestIdentity ==
    ASSUME IInv, \/ Create \/ Hydrate \/ Truncate \/ EnterDisposal
                 \/ \E v \in BOOLEAN : SetRead(v)
    PROVE  Quiet \/ Identity!Open
<1>0. sessions \in 0..MaxSessions /\ 0 \in 0..MaxSessions
  BY SessionNumbers DEF IInv, RegistryInv
<1>1. CASE Create
  BY <1>0, <1>1, OpIsQueued, RunIdentity DEF Create, Kind
<1>2. CASE Hydrate
  BY <1>0, <1>2, OpIsQueued, RunIdentity DEF Hydrate, Kind
<1>3. CASE Truncate
  <2>1. sessions \in Session
    BY <1>0, <1>3, SessionNumbers DEF Truncate, Admitted
  <2> QED BY <1>0, <1>3, <2>1, OpIsQueued, RunIdentity DEF Truncate, Kind
<1>4. CASE EnterDisposal
  BY <1>0, <1>4, OpIsQueued, RunIdentity DEF EnterDisposal, Kind
<1>5. ASSUME NEW v \in BOOLEAN, SetRead(v) PROVE Quiet \/ Identity!Open
  <2>1. QueuedOp([Op("metadata", 0) EXCEPT !.value = v])
    BY <1>0, SessionNumbers DEF QueuedOp, Op, Operation, Kind, Phase
  <2> QED BY <1>5, <2>1, RunIdentity DEF SetRead
<1> QED BY <1>1, <1>2, <1>3, <1>4, <1>5

\* Steps of the chat and of its agent.
LEMMA ChatIdentity ==
    ASSUME IInv, \/ Dispose
                 \/ \E m \in Actions : StartTurn(m) \/ CancelTurn(m) \/ SendMessage(m)
                 \/ \E i \in Session : AttachStep(i)
                 \/ EndTurn
    PROVE  Quiet
<1>1. UNCHANGED <<regVars, files>>
  BY DEF Dispose, StartTurn, CancelTurn, SendMessage, AttachStep, AttachSucceeds, AttachFails, EndTurn
<1>2. UNCHANGED ops \/ \E i \in 0..MaxSessions : MarkUnread(i, ops)
  BY SessionNumbers DEF Dispose, StartTurn, CancelTurn, SendMessage, AttachStep, AttachSucceeds, AttachFails,
     EndTurn, IInv, RegistryInv
<1>3. Removing' = Removing
  <2>1. CASE UNCHANGED ops
    BY <2>1 DEF Removing, Is
  <2>2. ASSUME NEW i \in 0..MaxSessions, MarkUnread(i, ops) PROVE Removing' = Removing
    <3>1. CASE ops = <<>>
      BY <2>2, <3>1 DEF MarkUnread, Removing, Is
    <3>2. CASE ops # <<>>
      <4>1. QueuedOp(Op("unread", i)) /\ ops' = Append(ops, Op("unread", i))
        BY <2>2, <3>2, OpIsQueued DEF MarkUnread, Kind
      <4>2. ops' # <<>> /\ Head(ops') = Head(ops)
        BY <3>2, <4>1, HeadTailAppend, AppendProperties DEF IInv, QueueInv, QueuedOp
      <4> QED BY <3>2, <4>2, HeadQuiet
    <3> QED BY <3>1, <3>2
  <2> QED BY <1>2, <2>1, <2>2
<1> QED BY <1>1, <1>3 DEF Quiet, regVars

LEMMA PiWritesIdentity == ASSUME IInv, PiWrites PROVE Identity!Save
<1>1. /\ UNCHANGED <<regVars, ops>> /\ sessions # 0 /\ turn # None
      /\ files' = files \cup {fileOf[sessions]}
  BY DEF PiWrites, Working
<1>2. ~Removing
  BY <1>1, HeadFacts DEF Removing, Is, HeadOk
<1> QED BY <1>1, <1>2 DEF Identity!Save, Removing, Is, regVars

\* The running operation, not yet removing, ends.
LEMMA EndIdentity ==
    ASSUME IInv, ops # <<>>, End
    PROVE  ~Removing'
BY EndQueue DEF IInv, End, Removing, Is

LEMMA AdvanceIdentity ==
    ASSUME IInv, ops # <<>>, NEW op \in Operation, Advance(op)
    PROVE  ops' # <<>> /\ Head(ops') = op
BY TailElements, Prepended DEF IInv, QueueInv, Advance

LEMMA HydrateReadsIdentity == ASSUME IInv, HydrateReads PROVE Quiet \/ Identity!Open
<1>1. ops # <<>> /\ ~Removing /\ End /\ UNCHANGED files
  BY DEF HydrateReads, Is, Removing
<1>2. ~Removing'
  BY <1>1, EndIdentity
<1> QED BY <1>1, <1>2, HydrateReadsInv, OpenedOpens, StillNotRemoving DEF Quiet, Unopened

LEMMA WaitingIdentity ==
    ASSUME IInv, \/ HydrateFound \/ MetadataFound \/ TruncateAttached \/ Navigated
                 \/ QuiesceFails \/ DisposeFound \/ DisposeFindsNothing \/ DeleteFails
    PROVE  Quiet
<1>1. ops # <<>> /\ ~Removing
  BY DEF HydrateFound, MetadataFound, TruncateAttached, Navigated, QuiesceFails, DisposeFound,
     DisposeFindsNothing, DeleteFails, Is, Removing
<1>2. CASE End /\ UNCHANGED <<sessions, incs, fileOf, files>>
  BY <1>1, <1>2, EndIdentity, StillNotRemoving DEF Quiet
<1>3. ASSUME NEW phase \in Phase \ {"children"}, NEW f \in File, UNCHANGED <<regVars, files>>,
             Advance([Head(ops) EXCEPT !.phase = phase, !.file = f])
      PROVE  Quiet
  <2> DEFINE op == [Head(ops) EXCEPT !.phase = phase, !.file = f]
  <2>1. op \in Operation /\ op.phase # "children"
    BY <1>1, HeadFacts DEF Operation
  <2>2. ops' # <<>> /\ Head(ops') = op
    BY <1>1, <1>3, <2>1, AdvanceIdentity
  <2> QED BY <1>1, <1>3, <2>1, <2>2 DEF Quiet, Removing, Is, regVars
<1>4. files \subseteq File
  BY DEF IInv, RegistryInv
<1>5. CASE HydrateFound
  BY <1>2, <1>3, <1>4, <1>5 DEF HydrateFound, Phase, regVars
<1>6. CASE MetadataFound \/ Navigated
  BY <1>2, <1>6 DEF MetadataFound, Navigated, regVars
<1>7. CASE TruncateAttached
  <2>1. Head(ops).file \in File
        /\ [Head(ops) EXCEPT !.phase = "navigating"]
             = [Head(ops) EXCEPT !.phase = "navigating", !.file = Head(ops).file]
    BY <1>1, HeadFacts DEF Operation
  <2> QED BY <1>2, <1>3, <1>7, <2>1 DEF TruncateAttached, Phase, regVars
<1>8. CASE DisposeFound
  BY <1>2, <1>3, <1>4, <1>8 DEF DisposeFound, Phase
<1>9. CASE QuiesceFails \/ DeleteFails \/ DisposeFindsNothing
  BY <1>2, <1>9, DisposeFindsNothingInv DEF QuiesceFails, DeleteFails, DisposalFails, regVars
<1> QED BY <1>5, <1>6, <1>7, <1>8, <1>9

\* The head of a disposal that quiesces goes on to the deletion.
LEMMA QuiescedIdentity == ASSUME IInv, Quiesced PROVE Quiet
<1> DEFINE op == [Head(ops) EXCEPT !.phase = "deleting", !.file = fileOf[sessions]]
           queue == <<op>> \o Tail(ops)
<1>1. /\ ops # <<>> /\ ~Removing /\ sessions # 0 /\ UNCHANGED <<regVars, files>>
      /\ ops' = queue \/ MarkUnread(sessions, queue)
  BY HeadFacts DEF Quiesced, Is, HeadOk, Removing
<1>2. sessions \in 0..MaxSessions /\ fileOf[sessions] \in File
  BY <1>1, SessionNumbers DEF IInv, RegistryInv
<1>3. op \in Operation /\ op.phase = "deleting"
  BY <1>1, <1>2, HeadFacts DEF Operation, Phase
<1> HIDE DEF op
<1>4. queue \in Seq(Operation) /\ queue # <<>> /\ Head(queue) = op
  BY <1>1, <1>3, TailElements, Prepended DEF IInv, QueueInv
<1> HIDE DEF queue
<1>5. ops' # <<>> /\ Head(ops') = op
  <2>1. CASE ops' = queue
    BY <1>4, <2>1
  <2>2. CASE MarkUnread(sessions, queue)
    <3>1. QueuedOp(Op("unread", sessions)) /\ ops' = Append(queue, Op("unread", sessions))
      BY <1>2, <1>4, <2>2, OpIsQueued DEF MarkUnread, Kind
    <3> QED BY <1>4, <3>1, HeadTailAppend, AppendProperties DEF QueuedOp
  <2> QED BY <1>1, <2>1, <2>2
<1>6. ~Removing'
  BY <1>3, <1>5 DEF Removing, Is
<1> QED BY <1>1, <1>6, StillNotRemoving DEF Quiet, regVars

LEMMA DeleteIdentity == ASSUME IInv, DeleteSucceeds PROVE Identity!Remove
<1> DEFINE op == [Head(ops) EXCEPT !.phase = "children"]
<1>1. /\ ops # <<>> /\ Head(ops).kind = "dispose" /\ Head(ops).phase = "deleting"
      /\ UNCHANGED regVars /\ files' = files \ {Head(ops).file} /\ Advance(op)
  BY DEF DeleteSucceeds, Is
<1>2. /\ Head(ops).file \in File
      /\ IF sessions # 0 THEN Head(ops).file = fileOf[sessions] ELSE Head(ops).file \in files
  BY <1>1, HeadFacts DEF Operation, HeadOk
<1>3. op \in Operation /\ op.kind = "dispose" /\ op.phase = "children"
  BY <1>1, HeadFacts DEF Operation, Phase
<1> HIDE DEF op
<1>4. ~Is("dispose", "children") /\ Is("dispose", "children")' = TRUE
  BY <1>1, <1>3, AdvanceIdentity DEF Is
<1> QED BY <1>1, <1>2, <1>4 DEF Identity!Remove, regVars

LEMMA CloseIdentity == ASSUME IInv, ChildrenClosed PROVE Identity!Close
<1>1. /\ ops # <<>> /\ End /\ Is("dispose", "children") /\ sessions' = 0
      /\ UNCHANGED <<incs, files>>
  BY DEF ChildrenClosed, Is, RemoveCurrent
<1>2. Is("dispose", "children")' = FALSE
  BY <1>1, EndIdentity DEF Removing, Is
<1>3. (IF sessions = 0 THEN 0 ELSE fileOf[sessions])' = 0 /\ 0 \in File
  BY <1>1, SessionNumbers
<1> QED BY <1>1, <1>2, <1>3 DEF Identity!Close

LEMMA NextIdentity ==
    ASSUME IInv, [Next]_vars
    PROVE  [Identity!IdentityNext]_(Identity!identityVars)
<1>1. CASE Quiet
  BY <1>1, QuietStutters
<1>2. CASE Identity!Open \/ Identity!Save \/ Identity!Remove \/ Identity!Close
  BY <1>2 DEF Identity!IdentityNext
<1>3. CASE Request
  BY <1>1, <1>2, <1>3, RequestIdentity, ChatIdentity DEF Request
<1>4. CASE OperationStep
  BY <1>1, <1>2, <1>4, StartNextIdentity, RequestIdentity, HydrateReadsIdentity, WaitingIdentity,
     QuiescedIdentity, DeleteIdentity, CloseIdentity
  DEF OperationStep
<1>5. CASE \E i \in Session : AttachStep(i)
  BY <1>1, <1>5, ChatIdentity
<1>6. CASE EndTurn \/ PiWrites
  BY <1>1, <1>2, <1>6, ChatIdentity, PiWritesIdentity
<1>7. CASE UNCHANGED vars
  <2>1. UNCHANGED <<sessions, incs, fileOf, files>> /\ Removing' = Removing
    BY <1>7 DEF vars, regVars, Removing, Is
  <2> QED BY <1>1, <2>1 DEF Quiet
<1> QED BY <1>3, <1>4, <1>5, <1>6, <1>7 DEF Next

LEMMA InitIdentity == Init => Identity!IdentityInit
BY SessionNumbers DEF Init, Identity!IdentityInit, Is

\* Whatever requests overlap, one session at most is open under the id, it is
\* backed by a file of its own or one that exists, and from the removal of a
\* file until its session is closed nothing is opened, loaded or written.
THEOREM RefinesIdentity == Spec => KeepsIdentity
<1>1. IInv /\ [Next]_vars => [Identity!IdentityNext]_(Identity!identityVars)
  BY NextIdentity
<1> QED BY Invariance, InitIdentity, <1>1, PTL DEF Spec, KeepsIdentity, Identity!IdentitySpec

-----------------------------------------------------------------------------
(* The remaining variables *)

RestTyped ==
    /\ loaded \subseteq Session
    /\ read \in BOOLEAN /\ shown \in BOOLEAN
    /\ disposing \in {"no", "deferred", "entered"} /\ disposals \in Nat
    /\ turn \in Actions \cup {None}
    /\ waiting \subseteq Waiter /\ accepted \subseteq Actions /\ delivered \subseteq Actions

\* The registry, the flags and the turn: what operations change besides.
RegistryTyped == loaded \subseteq Session /\ read \in BOOLEAN /\ shown \in BOOLEAN /\ turn \in Actions \cup {None}

LEMMA BeginTyped ==
    ASSUME RegistryInv, RegistryTyped, NEW op \in Operation, NEW rest, Begin(op, rest)
    PROVE  RegistryTyped'
<1> USE DEF RegistryTyped
<1>1. CASE op.kind = "create" /\ BeginCreate(rest)
  <2>1. CASE ~Taken /\ incs < MaxSessions /\ Install(incs + 1, FALSE) /\ shown' = FALSE /\ UNCHANGED read
    BY <2>1 DEF Install
  <2> QED BY <1>1, <2>1 DEF BeginCreate, regVars, flagVars
<1>2. CASE op.kind = "hydrate" /\ BeginHydrate(op, rest)
  BY <1>2 DEF BeginHydrate, regVars, flagVars
<1>3. CASE op.kind = "dispose" /\ BeginDispose(op, rest)
  BY <1>3 DEF BeginDispose, regVars, flagVars
<1>4. CASE op.kind = "metadata" /\ BeginMetadata(op, rest)
  <2>1. op.value \in BOOLEAN
    BY DEF Operation
  <2> QED BY <1>4, <2>1 DEF BeginMetadata, ApplyFlag, regVars, flagVars
<1>5. CASE op.kind = "unread" /\ BeginUnread(op, rest)
  BY <1>5 DEF BeginUnread, Unread, regVars, flagVars
<1>6. CASE op.kind = "truncate" /\ BeginTruncate(op, rest)
  BY <1>6 DEF BeginTruncate, regVars, flagVars
<1> QED BY <1>1, <1>2, <1>3, <1>4, <1>5, <1>6 DEF Begin

LEMMA RunTyped ==
    ASSUME RegistryInv, RegistryTyped, NEW op, QueuedOp(op), Run(op)
    PROVE  RegistryTyped'
<1>1. op \in Operation
  BY DEF QueuedOp
<1> QED BY <1>1, BeginTyped DEF Run, RegistryTyped, regVars, flagVars

LEMMA MarkUnreadTyped ==
    ASSUME read \in BOOLEAN, shown \in BOOLEAN, NEW i, NEW q, MarkUnread(i, q)
    PROVE  read' \in BOOLEAN /\ shown' \in BOOLEAN
BY DEF MarkUnread, Unread, flagVars

LEMMA ContinueTyped ==
    ASSUME RestTyped, NEW among, NEW until, Continue(among, until)
    PROVE  waiting' \subseteq waiting /\ delivered' \subseteq Actions
BY DEF Continue, RestTyped, Waiter

LEMMA AttachedTyped ==
    ASSUME RestTyped, NEW i, Attached(i)
    PROVE  waiting' \subseteq Waiter /\ delivered' \subseteq Actions
<1>1. CASE disposing = "no"
  BY <1>1, ContinueTyped DEF Attached, RestTyped
<1>2. CASE disposing # "no"
  <2>1. ASSUME NEW w \in waiting PROVE [w EXCEPT !.until = "disposal"] \in Waiter
    BY <2>1 DEF RestTyped, Waiter
  <2> QED BY <1>2, <2>1 DEF Attached, RestTyped
<1> QED BY <1>1, <1>2

LEMMA RouteTyped ==
    ASSUME RestTyped, NEW m \in Actions, NEW starts \in BOOLEAN, sessions \in Session, Route(m, starts)
    PROVE  waiting' \subseteq Waiter /\ delivered' \subseteq Actions
BY DEF Route, RestTyped, Waiter

LEMMA RestStep == ASSUME IInv, RestTyped, [Next]_vars PROVE RestTyped'
<1>0. RegistryInv /\ RegistryTyped /\ sessions \in 0..MaxSessions /\ 0 \in 0..MaxSessions
  BY SessionNumbers DEF IInv, RegistryInv, RestTyped, RegistryTyped
<1>1. ASSUME RegistryTyped', UNCHANGED <<waiting, accepted, delivered>>,
             disposals' \in Nat, disposing' \in {"no", "deferred", "entered"}
      PROVE  RestTyped'
  BY <1>1 DEF RestTyped, RegistryTyped
<1>2. ASSUME NEW op, QueuedOp(op), Run(op), UNCHANGED <<disposals, waiting, accepted, delivered>>,
             disposing' \in {disposing, "entered"}
      PROVE  RestTyped'
  <2>1. RegistryTyped'
    BY <1>0, <1>2, RunTyped
  <2> QED BY <1>1, <1>2, <2>1 DEF RestTyped
<1>3. CASE Create \/ Hydrate \/ Truncate \/ EnterDisposal
  <2>1. ASSUME NEW kind \in Kind, NEW on \in 0..MaxSessions, on \in Session \/ kind # "truncate",
               Run(Op(kind, on)), UNCHANGED <<disposals, waiting, accepted, delivered>>,
               disposing' \in {disposing, "entered"}
        PROVE  RestTyped'
    BY <1>2, <2>1, OpIsQueued
  <2>2. Truncate => sessions \in Session
    BY <1>0, SessionNumbers DEF Truncate, Admitted
  <2> QED BY <1>0, <1>3, <2>1, <2>2 DEF Create, Hydrate, Truncate, EnterDisposal, Kind, disposalVars
<1>4. ASSUME NEW v \in BOOLEAN, SetRead(v) PROVE RestTyped'
  <2>1. QueuedOp([Op("metadata", 0) EXCEPT !.value = v])
    BY <1>0, SessionNumbers DEF QueuedOp, Op, Operation, Kind, Phase
  <2> QED BY <1>2, <1>4, <2>1 DEF SetRead, disposalVars
<1>5. CASE StartNext
  <2>1. ops # <<>> /\ Begin(Head(ops), Tail(ops)) /\ UNCHANGED <<disposalVars, waiting, accepted, delivered>>
    BY <1>5 DEF StartNext
  <2>2. RegistryTyped'
    BY <1>0, <2>1, HeadFacts, BeginTyped
  <2> QED BY <1>1, <2>1, <2>2 DEF RestTyped, disposalVars
<1>6. CASE Dispose
  BY <1>6 DEF Dispose, RestTyped, regVars, flagVars, chatVars
<1>7. ASSUME NEW m \in Actions, StartTurn(m) \/ CancelTurn(m) \/ SendMessage(m) PROVE RestTyped'
  <2>1. /\ sessions \in Session /\ accepted' \subseteq Actions
        /\ turn' \in Actions \cup {None} /\ \E starts \in BOOLEAN : Route(m, starts)
    <3>1. sessions # 0 /\ Accept(m) /\ turn' \in {turn, None, m}
      BY <1>7 DEF StartTurn, CancelTurn, SendMessage, Admitted
    <3>2. \E starts \in BOOLEAN : Route(m, starts)
      BY <1>7 DEF StartTurn, CancelTurn, SendMessage
    <3>3. sessions \in Session
      BY <1>0, <3>1, SessionNumbers
    <3> QED BY <3>1, <3>2, <3>3 DEF Accept, RestTyped
  <2>2. read' \in BOOLEAN /\ shown' \in BOOLEAN
    BY <1>7, MarkUnreadTyped DEF StartTurn, CancelTurn, SendMessage, RestTyped, flagVars
  <2>3. UNCHANGED <<loaded, disposing, disposals>>
    BY <1>7 DEF StartTurn, CancelTurn, SendMessage, regVars, disposalVars
  <2>4. waiting' \subseteq Waiter /\ delivered' \subseteq Actions
    BY <2>1, RouteTyped
  <2> QED BY <2>1, <2>2, <2>3, <2>4 DEF RestTyped
<1>8. ASSUME NEW i \in Session, AttachStep(i) PROVE RestTyped'
  <2>1. UNCHANGED <<loaded, disposing, disposals, accepted>> /\ turn' \in {turn, None}
        /\ read' \in BOOLEAN /\ shown' \in BOOLEAN /\ Attached(i)
    BY <1>8, MarkUnreadTyped DEF AttachStep, AttachSucceeds, AttachFails, RestTyped, regVars, disposalVars, flagVars
  <2> QED BY <2>1, AttachedTyped DEF RestTyped
<1>9. CASE EndTurn \/ PiWrites \/ Quiesced
  <2>1. UNCHANGED <<loaded, disposing, disposals, waiting, accepted, delivered>> /\ turn' \in {turn, None}
    BY <1>9 DEF EndTurn, PiWrites, Quiesced, regVars, disposalVars, chatVars
  <2>2. read' \in BOOLEAN /\ shown' \in BOOLEAN
    BY <1>9, MarkUnreadTyped DEF EndTurn, PiWrites, Quiesced, RestTyped, flagVars
  <2> QED BY <2>1, <2>2 DEF RestTyped
<1>10. CASE HydrateReads
  <2>1. UNCHANGED <<read, disposing, disposals, waiting, accepted, delivered>> /\ shown' \in BOOLEAN
    BY <1>10 DEF HydrateReads, disposalVars, RestTyped
  <2>2. CASE UNCHANGED <<regVars, shown, turn>>
    BY <2>1, <2>2 DEF RestTyped, regVars
  <2>3. CASE incs < MaxSessions /\ Install(Head(ops).file, TRUE)
    <3>1. incs + 1 \in Session
      BY <1>0, <2>3, SessionNumbers DEF RegistryInv
    <3> QED BY <2>1, <2>3, <3>1 DEF Install, RestTyped
  <2> QED BY <1>10, <2>2, <2>3 DEF HydrateReads
<1>11. CASE MetadataFound
  <2>1. Head(ops).value \in BOOLEAN
    BY <1>11, HeadFacts DEF MetadataFound, Is, Operation
  <2> QED BY <1>11, <2>1 DEF MetadataFound, ApplyFlag, RestTyped, regVars, flagVars, disposalVars, chatVars
<1>12. CASE DisposalFails
  BY <1>12, ContinueTyped DEF DisposalFails, GateOpens, RestTyped, regVars, flagVars
<1>13. CASE DeleteSucceeds
  BY <1>13 DEF DeleteSucceeds, RestTyped, regVars, disposalVars, chatVars
<1>14. CASE ChildrenClosed
  BY <1>14 DEF ChildrenClosed, GateOpens, RestTyped, flagVars
<1>15. CASE HydrateFound \/ TruncateAttached \/ Navigated \/ DisposeFound \/ UNCHANGED vars
  BY <1>15 DEF HydrateFound, TruncateAttached, Navigated, DisposeFound, RestTyped, vars, regVars, flagVars,
               disposalVars, chatVars
<1>16. CASE DisposeFindsNothing
  BY <1>12, <1>16, DisposeFindsNothingInv
<1>17. CASE QuiesceFails \/ DeleteFails
  BY <1>12, <1>17 DEF QuiesceFails, DeleteFails
<1>18. CASE Request
  BY <1>3, <1>4, <1>6, <1>7, <1>18 DEF Request
<1>19. CASE OperationStep
  BY <1>3, <1>5, <1>9, <1>10, <1>11, <1>13, <1>14, <1>15, <1>16, <1>17, <1>19 DEF OperationStep
<1> QED BY <1>8, <1>9, <1>15, <1>18, <1>19 DEF Next

LEMMA InitTyped == Init => RestTyped
<1> SUFFICES ASSUME Init PROVE RestTyped
  OBVIOUS
<1>1. read \in BOOLEAN /\ shown = FALSE /\ loaded = {} /\ disposing = "no" /\ disposals = 0 /\ turn = None
      /\ waiting = {} /\ accepted = {} /\ delivered = {}
  BY DEF Init
<1>2. shown \in BOOLEAN
  BY <1>1
<1> QED BY <1>1, <1>2 DEF RestTyped

\* Every variable keeps to its values, for any number of sessions and requests.
THEOREM TypesHold == Spec => []TypeOK
<1>1. IInv /\ RestTyped /\ [Next]_vars => RestTyped'
  BY RestStep
<1>2. Spec => []RestTyped
  BY InitTyped, <1>1, Invariance, PTL DEF Spec
<1>3. IInv /\ RestTyped => TypeOK
  BY DEF IInv, RegistryInv, RegistryMatchesStore, AgentInv, QueueInv, RestTyped, TypeOK
<1> QED BY <1>2, <1>3, Invariance, PTL

-----------------------------------------------------------------------------
(* Who answers for a turn in progress *)

\* A call waits for an agent that is coming up or for a disposal under way, and
\* the turn in progress is known to the driver or to such a call; one that waits
\* for a disposal has an agent by then, or its turn would have been closed.
Owner(w) == w.action = turn /\ w.on = sessions /\ (w.until = "disposal" => driver[sessions])

OwnerInv ==
    /\ \A w \in waiting : /\ w.until = "attach" => attaching[w.on]
                          /\ w.until = "disposal" => disposing # "no"
    /\ turn # None => /\ sessions # 0
                      /\ \/ driver[sessions] /\ turn \in delivered
                         \/ \E w \in waiting : Owner(w)

\* Agents come up and go away only for calls that wait for them.
LEMMA OwnerKept ==
    ASSUME RestTyped, OwnerInv, UNCHANGED <<waiting, delivered>>,
           \A i \in Session : attaching[i] => attaching'[i], UNCHANGED driver,
           disposing # "no" => disposing' # "no",
           turn' = None \/ (turn' = turn /\ sessions' = sessions)
    PROVE  OwnerInv'
<1>1. \A w \in waiting : w.on \in Session
  BY DEF RestTyped, Waiter
<1>2. \A w \in waiting' : (w.until = "attach" => attaching'[w.on]) /\ (w.until = "disposal" => disposing' # "no")
  BY <1>1 DEF OwnerInv
<1>3. CASE turn' = None
  BY <1>2, <1>3 DEF OwnerInv
<1>4. CASE turn' = turn /\ sessions' = sessions
  <2>1. \A w : Owner(w)' <=> Owner(w)
    BY <1>4 DEF Owner
  <2> QED BY <1>2, <1>4, <2>1 DEF OwnerInv
<1> QED BY <1>3, <1>4

LEMMA StartBackendOwner ==
    ASSUME AgentInv, NEW i \in Session, StartBackend(i)
    PROVE  /\ attaching'[i] /\ UNCHANGED driver
           /\ \A j \in Session : attaching[j] => attaching'[j]
BY DEF StartBackend, AgentInv, agentVars

LEMMA BeginOwner ==
    ASSUME RegistryInv, AgentInv, NEW op, QueuedOp(op), NEW rest, Begin(op, rest)
    PROVE  /\ \A i \in Session : attaching[i] => attaching'[i]
           /\ UNCHANGED driver
           /\ turn' = None \/ (turn' = turn /\ sessions' = sessions)
<1>1. CASE op.kind = "create" /\ BeginCreate(rest)
  <2>1. CASE UNCHANGED <<regVars, turn, agentVars>>
    BY <2>1 DEF regVars, agentVars
  <2>2. CASE incs < MaxSessions /\ Install(incs + 1, FALSE) /\ StartBackend(incs + 1)
    <3>1. incs + 1 \in Session
      BY <2>2, SessionNumbers DEF RegistryInv
    <3> QED BY <2>2, <3>1, StartBackendOwner DEF Install
  <2> QED BY <1>1, <2>1, <2>2 DEF BeginCreate
<1>2. CASE op.kind = "truncate" /\ BeginTruncate(op, rest)
  <2>1. UNCHANGED <<sessions, turn>> /\ op.on \in Session
    BY <1>2 DEF BeginTruncate, regVars, QueuedOp
  <2>2. CASE UNCHANGED agentVars
    BY <2>1, <2>2 DEF agentVars
  <2>3. CASE StartBackend(op.on)
    BY <2>1, <2>3, StartBackendOwner
  <2> QED BY <1>2, <2>2, <2>3 DEF BeginTruncate
<1>3. CASE UNCHANGED <<regVars, turn, agentVars>>
  BY <1>3 DEF regVars, agentVars
<1> QED BY <1>1, <1>2, <1>3 DEF Begin, BeginHydrate, BeginDispose, BeginMetadata, BeginUnread

LEMMA RunOwner ==
    ASSUME IInv, RestTyped, OwnerInv, NEW op, QueuedOp(op), Run(op), UNCHANGED <<waiting, delivered>>,
           disposing # "no" => disposing' # "no"
    PROVE  OwnerInv'
<1>1. CASE ops = <<>>
  <2>1. Begin(op, <<>>)
    BY <1>1 DEF Run
  <2> QED BY <2>1, BeginOwner, OwnerKept DEF IInv
<1>2. CASE ops # <<>>
  BY <1>2, OwnerKept DEF Run, regVars, agentVars
<1> QED BY <1>1, <1>2

LEMMA RequestOwner ==
    ASSUME IInv, RestTyped, OwnerInv,
           \/ Create \/ Hydrate \/ Truncate \/ EnterDisposal \/ StartNext
           \/ \E v \in BOOLEAN : SetRead(v)
    PROVE  OwnerInv'
<1>0. sessions \in 0..MaxSessions /\ 0 \in 0..MaxSessions
  BY SessionNumbers DEF IInv, RegistryInv
<1>1. ASSUME NEW kind \in Kind, NEW on \in 0..MaxSessions, on \in Session \/ kind # "truncate",
             Run(Op(kind, on)), UNCHANGED <<waiting, delivered>>, disposing # "no" => disposing' # "no"
      PROVE  OwnerInv'
  BY <1>1, OpIsQueued, RunOwner
<1>2. CASE Create \/ Hydrate \/ Truncate \/ EnterDisposal
  <2>1. Truncate => sessions \in Session
    BY <1>0, SessionNumbers DEF Truncate, Admitted
  <2> QED BY <1>0, <1>1, <1>2, <2>1 DEF Create, Hydrate, Truncate, EnterDisposal, Kind, disposalVars
<1>3. ASSUME NEW v \in BOOLEAN, SetRead(v) PROVE OwnerInv'
  <2>1. QueuedOp([Op("metadata", 0) EXCEPT !.value = v])
    BY <1>0, SessionNumbers DEF QueuedOp, Op, Operation, Kind, Phase
  <2> QED BY <1>3, <2>1, RunOwner DEF SetRead, disposalVars
<1>4. CASE StartNext
  <2>1. ops # <<>> /\ Head(ops).phase = "queued" /\ Begin(Head(ops), Tail(ops))
        /\ UNCHANGED <<disposing, waiting, delivered>>
    BY <1>4 DEF StartNext, disposalVars
  <2>2. QueuedOp(Head(ops))
    BY <2>1, HeadFacts DEF QueuedOp
  <2> QED BY <2>1, <2>2, BeginOwner, OwnerKept DEF IInv
<1> QED BY <1>2, <1>3, <1>4

\* An accepted action is with the driver at once, or its call waits.
LEMMA ChatActionOwner ==
    ASSUME IInv, RestTyped, OwnerInv, NEW m \in Actions, StartTurn(m) \/ CancelTurn(m) \/ SendMessage(m)
    PROVE  OwnerInv'
<1>1. /\ sessions \in Session /\ UNCHANGED <<sessions, disposing>>
      /\ \E starts \in BOOLEAN : Route(m, starts)
      /\ turn' = None \/ turn' = turn \/ turn' = m
  <2>1. sessions # 0 /\ sessions \in 0..MaxSessions
    BY DEF StartTurn, CancelTurn, SendMessage, Admitted, IInv, RegistryInv
  <2>2. \E starts \in BOOLEAN : Route(m, starts)
    BY DEF StartTurn, CancelTurn, SendMessage
  <2>3. UNCHANGED <<sessions, disposing>> /\ (turn' = None \/ turn' = turn \/ turn' = m)
    BY DEF StartTurn, CancelTurn, SendMessage, regVars, disposalVars
  <2> QED BY <2>1, <2>2, <2>3, SessionNumbers
<1>2. PICK starts \in BOOLEAN : Route(m, starts)
  BY <1>1
<1>3. CASE driver[sessions]
  <2>1. delivered' = delivered \cup {m} /\ UNCHANGED <<waiting, attaching, driver>>
    BY <1>2, <1>3 DEF Route, agentVars
  <2>2. \A w \in waiting' : (w.until = "attach" => attaching'[w.on]) /\ (w.until = "disposal" => disposing' # "no")
    BY <1>1, <2>1 DEF OwnerInv
  <2>3. turn' # None => turn' \in delivered' \/ \E w \in waiting' : Owner(w)'
    BY <1>1, <2>1 DEF OwnerInv, Owner
  <2> QED BY <1>1, <1>3, <2>1, <2>2, <2>3, SessionNumbers DEF OwnerInv
<1>4. CASE ~driver[sessions]
  <2>0. PICK call : call = [action |-> m, starts |-> starts, on |-> sessions, until |-> "attach"]
    OBVIOUS
  <2>1. /\ waiting' = waiting \cup {call} /\ UNCHANGED <<delivered, driver>>
        /\ attaching'[sessions] /\ \A j \in Session : attaching[j] => attaching'[j]
    BY <1>1, <1>2, <1>4, <2>0, StartBackendOwner DEF Route, IInv
  <2>2. call.action = m /\ call.on = sessions /\ call.until = "attach"
    BY <2>0
  <2>3. \A w \in waiting : w.on \in Session
    BY DEF RestTyped, Waiter
  <2>4. \A w \in waiting' : (w.until = "attach" => attaching'[w.on]) /\ (w.until = "disposal" => disposing' # "no")
    BY <1>1, <2>1, <2>2, <2>3 DEF OwnerInv
  <2>5. turn' = m => Owner(call)'
    BY <1>1, <2>2 DEF Owner
  <2>6. ASSUME turn' # None, turn' = turn PROVE \E w \in waiting : Owner(w)'
    <3>1. PICK w \in waiting : Owner(w)
      BY <1>4, <2>6 DEF OwnerInv
    <3> QED BY <1>1, <2>1, <2>6, <3>1 DEF Owner
  <2>7. sessions' # 0
    BY <1>1, SessionNumbers
  <2>8. turn' # None => \E w \in waiting' : Owner(w)'
    BY <1>1, <2>1, <2>5, <2>6
  <2> QED BY <2>4, <2>7, <2>8 DEF OwnerInv
<1> QED BY <1>3, <1>4

\* Once an attempt has settled, its calls reach the new driver, or wait for the
\* disposal under way; the turn was closed if no driver came up.
LEMMA AttachedOwner ==
    ASSUME RestTyped, OwnerInv, NEW i \in Session, UNCHANGED <<sessions, disposing>>, Attached(i),
           driver \in [Session -> BOOLEAN], sessions \in 0..MaxSessions,
           \A j \in Session : driver[j] => driver'[j],
           \A j \in Session : j # i => attaching'[j] = attaching[j],
           turn' = None \/ (turn' = turn /\ (sessions = i => driver'[i]))
    PROVE  OwnerInv'
<1>0. \A w \in waiting : /\ w \in Waiter /\ w.on \in Session /\ w.until \in {"attach", "disposal"}
                         /\ w.until = "attach" => attaching[w.on]
                         /\ w.until = "disposal" => disposing # "no"
  BY DEF RestTyped, Waiter, OwnerInv
<1>1. ASSUME turn' # None
      PROVE  /\ turn' = turn /\ sessions' = sessions /\ sessions \in Session /\ (sessions = i => driver'[i])
             /\ \/ driver'[sessions] /\ turn \in delivered
                \/ \E w \in waiting : Owner(w)
  BY <1>1, SessionNumbers DEF OwnerInv
<1>2. CASE disposing = "no"
  <2> DEFINE going == {w \in waiting : w.on \in {i} /\ w.until = "attach"}
  <2>1. /\ delivered' = delivered \cup {w.action : w \in {v \in going : Reaches(v)}}
        /\ waiting' = waiting \ going
    BY <1>2 DEF Attached, Continue
  <2>2. \A w \in waiting' : (w.until = "attach" => attaching'[w.on]) /\ (w.until = "disposal" => disposing' # "no")
    BY <1>0, <2>1
  <2>3. ASSUME turn' # None, NEW w \in waiting, Owner(w)
        PROVE  \/ driver'[sessions] /\ turn \in delivered'
               \/ w \in waiting' /\ Owner(w)'
    <3>1. CASE w \in going
      <4>1. w.on = i /\ w.action = turn /\ sessions = i /\ driver'[i]
        BY <1>1, <2>3, <3>1 DEF Owner
      <4>2. Reaches(w)
        BY <1>1, <2>3, <4>1 DEF Reaches
      <4> QED BY <2>1, <3>1, <4>1, <4>2
    <3>2. CASE w \notin going
      BY <1>1, <2>1, <2>3, <3>2 DEF Owner
    <3> QED BY <3>1, <3>2
  <2>4. turn' # None => \/ driver'[sessions'] /\ turn' \in delivered'
                        \/ \E w \in waiting' : Owner(w)'
    BY <1>1, <2>1, <2>3
  <2> QED BY <1>1, <2>2, <2>4, SessionNumbers DEF OwnerInv
<1>3. CASE disposing # "no"
  <2>1. /\ waiting' = {IF w.on = i THEN [w EXCEPT !.until = "disposal"] ELSE w : w \in waiting}
        /\ delivered' = delivered
    BY <1>3 DEF Attached
  <2>2. ASSUME NEW w \in waiting
        PROVE  LET held == [w EXCEPT !.until = "disposal"]
               IN  held.action = w.action /\ held.on = w.on /\ held.until = "disposal"
    BY <1>0 DEF Waiter
  <2>3. ASSUME NEW v \in waiting'
        PROVE  (v.until = "attach" => attaching'[v.on]) /\ (v.until = "disposal" => disposing' # "no")
    <3>1. PICK w \in waiting : v = IF w.on = i THEN [w EXCEPT !.until = "disposal"] ELSE w
      BY <2>1
    <3>2. CASE w.on = i
      BY <1>3, <2>2, <3>1, <3>2
    <3>3. CASE w.on # i
      BY <1>0, <3>1, <3>3
    <3> QED BY <3>2, <3>3
  <2>4. ASSUME turn' # None, NEW w \in waiting, Owner(w) PROVE \E v \in waiting' : Owner(v)'
    <3>1. CASE w.on = i
      <4>1. PICK held : held = [w EXCEPT !.until = "disposal"]
        OBVIOUS
      <4>2. held \in waiting'
        BY <2>1, <3>1, <4>1
      <4>3. Owner(held)'
        BY <1>1, <2>2, <2>4, <3>1, <4>1 DEF Owner
      <4> QED BY <4>2, <4>3
    <3>2. CASE w.on # i
      <4>1. w \in waiting'
        BY <2>1, <3>2
      <4>2. Owner(w)'
        BY <1>1, <2>4 DEF Owner
      <4> QED BY <4>1, <4>2
    <3> QED BY <3>1, <3>2
  <2>5. turn' # None => \/ driver'[sessions'] /\ turn' \in delivered'
                        \/ \E w \in waiting' : Owner(w)'
    BY <1>1, <2>1, <2>4
  <2> QED BY <1>1, <2>3, <2>5, SessionNumbers DEF OwnerInv
<1> QED BY <1>2, <1>3

LEMMA AttachOwner == ASSUME IInv, RestTyped, OwnerInv, NEW i \in Session, AttachStep(i) PROVE OwnerInv'
<1>1. UNCHANGED <<sessions, disposing>> /\ Attached(i) /\ Settled(i)
  BY DEF AttachStep, AttachSucceeds, AttachFails, regVars, disposalVars
<1>2. driver \in [Session -> BOOLEAN] /\ attaching \in [Session -> BOOLEAN] /\ sessions \in 0..MaxSessions
  BY DEF IInv, AgentInv, RegistryInv
<1>3. \A j \in Session : j # i => attaching'[j] = attaching[j]
  BY <1>1, <1>2 DEF Settled
<1>4. CASE AttachSucceeds(i)
  <2>1. turn' = turn /\ (sessions = i => driver' = [driver EXCEPT ![i] = TRUE]) /\ (sessions # i => driver' = driver)
    BY <1>4 DEF AttachSucceeds
  <2>2. (sessions = i => driver'[i]) /\ \A j \in Session : driver[j] => driver'[j]
    BY <1>2, <2>1
  <2> QED BY <1>1, <1>2, <1>3, <2>1, <2>2, AttachedOwner
<1>5. CASE AttachFails(i)
  <2>1. driver' = driver /\ (turn' = None \/ (turn' = turn /\ sessions # i))
    BY <1>5 DEF AttachFails
  <2> QED BY <1>1, <1>2, <1>3, <2>1, AttachedOwner
<1> QED BY <1>4, <1>5 DEF AttachStep

\* The session survives its disposal: what waited for that goes to the driver.
LEMMA DisposalFailsOwner == ASSUME IInv, RestTyped, OwnerInv, DisposalFails PROVE OwnerInv'
<1> DEFINE going == {w \in waiting : w.on \in Session /\ w.until = "disposal"}
<1>1. /\ delivered' = delivered \cup {w.action : w \in {v \in going : Reaches(v)}}
      /\ waiting' = waiting \ going /\ UNCHANGED <<sessions, turn, driver, attaching>>
  BY DEF DisposalFails, Continue, regVars, agentVars
<1>2. \A w \in waiting : w.on \in Session
  BY DEF RestTyped, Waiter
<1>3. \A w \in waiting' : w.until # "disposal" /\ (w.until = "attach" => attaching'[w.on])
  BY <1>1, <1>2 DEF OwnerInv
<1>4. ASSUME NEW w \in waiting, Owner(w), turn # None
      PROVE  \/ driver[sessions] /\ turn \in delivered'
             \/ w \in waiting' /\ Owner(w)'
  <2>1. CASE w \in going
    <3>1. Reaches(w) /\ driver[sessions] /\ w.action = turn
      BY <1>1, <1>4, <2>1 DEF Owner, Reaches
    <3> QED BY <1>1, <2>1, <3>1
  <2>2. CASE w \notin going
    BY <1>1, <1>4, <2>2 DEF Owner
  <2> QED BY <2>1, <2>2
<1> HIDE DEF going
<1>5. turn' # None => /\ sessions' # 0
                      /\ \/ driver'[sessions'] /\ turn' \in delivered'
                         \/ \E w \in waiting' : Owner(w)'
  BY <1>1, <1>4 DEF OwnerInv
<1> QED BY <1>3, <1>5 DEF OwnerInv

LEMMA OwnerStep == ASSUME IInv, RestTyped, OwnerInv, [Next]_vars PROVE OwnerInv'
<1>1. CASE \/ Dispose \/ EndTurn \/ PiWrites \/ Quiesced \/ HydrateReads \/ MetadataFound \/ HydrateFound
           \/ TruncateAttached \/ Navigated \/ DisposeFound \/ DeleteSucceeds \/ UNCHANGED vars
  <2>1. UNCHANGED <<waiting, delivered, driver, attaching>> /\ (disposing # "no" => disposing' # "no")
    BY <1>1 DEF Dispose, EndTurn, PiWrites, Quiesced, HydrateReads, MetadataFound, HydrateFound, TruncateAttached,
                Navigated, DisposeFound, DeleteSucceeds, vars, chatVars, agentVars, disposalVars
  <2>2. CASE HydrateReads
    BY <2>1, <2>2, OwnerKept DEF HydrateReads, Install, regVars
  <2>3. turn' = None \/ (turn' = turn /\ sessions' = sessions) \/ HydrateReads
    BY <1>1 DEF Dispose, EndTurn, PiWrites, Quiesced, MetadataFound, HydrateFound, TruncateAttached,
                Navigated, DisposeFound, DeleteSucceeds, vars, chatVars, regVars
  <2> QED BY <2>1, <2>2, <2>3, OwnerKept
<1>2. CASE ChildrenClosed
  <2>1. turn' = None /\ waiting' = {w \in waiting : w.until # "disposal"} /\ UNCHANGED attaching
    BY <1>2 DEF ChildrenClosed
  <2> QED BY <2>1 DEF OwnerInv
<1>3. CASE DisposalFails
  BY <1>3, DisposalFailsOwner
<1>4. CASE DisposeFindsNothing
  BY <1>3, <1>4, DisposeFindsNothingInv
<1>5. CASE QuiesceFails \/ DeleteFails
  BY <1>3, <1>5 DEF QuiesceFails, DeleteFails
<1>6. CASE \E i \in Session : AttachStep(i)
  BY <1>6, AttachOwner
<1>7. CASE Request
  BY <1>1, <1>7, RequestOwner, ChatActionOwner DEF Request
<1>8. CASE OperationStep
  BY <1>1, <1>2, <1>4, <1>5, <1>8, RequestOwner DEF OperationStep
<1> QED BY <1>1, <1>6, <1>7, <1>8 DEF Next

\* A turn in progress always has a driver that knows it, or a call that will
\* tell one or find it closed.
THEOREM TurnsAreOwned == Spec => []TurnHasOwner
<1>1. ASSUME Init PROVE RestTyped /\ OwnerInv
  <2>1. waiting = {} /\ turn = None
    BY <1>1 DEF Init
  <2> QED BY <1>1, <2>1, InitTyped DEF OwnerInv
<1>2. IInv /\ RestTyped /\ OwnerInv /\ [Next]_vars => (RestTyped /\ OwnerInv)'
  BY RestStep, OwnerStep
<1>3. Spec => [](RestTyped /\ OwnerInv)
  BY <1>1, <1>2, Invariance, PTL DEF Spec
<1>4. RestTyped /\ OwnerInv => TurnHasOwner
  BY DEF OwnerInv, Owner, RestTyped, Waiter, TurnHasOwner, Working
<1> QED BY <1>3, <1>4, PTL

-----------------------------------------------------------------------------
(* Deletion *)

\* Besides the file that was there first, only the live session has one, and
\* none once its removal began; what was loaded came from that first file.
FilesInv ==
    /\ \A f \in files : f = 0 \/ (sessions # 0 /\ f = fileOf[sessions])
    /\ Removing /\ sessions # 0 => fileOf[sessions] \notin files
    /\ \A i \in loaded : i <= incs /\ fileOf[i] = 0

\* A session is entered as loaded when it is opened on a file that exists.
Loads ==
    \/ UNCHANGED <<incs, fileOf, loaded>>
    \/ /\ sessions = 0 /\ incs' = incs + 1
       /\ \A i \in Session : i # incs + 1 => fileOf'[i] = fileOf[i]
       /\ \/ loaded' = loaded
          \/ loaded' = loaded \cup {incs + 1} /\ fileOf'[incs + 1] \in files

LEMMA InstallLoads ==
    ASSUME RegistryInv, sessions = 0, NEW file, NEW fromDisk \in BOOLEAN, Install(file, fromDisk),
           incs < MaxSessions, fromDisk => file \in files
    PROVE  Loads
<1>1. incs + 1 \in Session /\ fileOf \in [Session -> File]
  BY SessionNumbers DEF RegistryInv
<1>2. fileOf'[incs + 1] = file /\ \A i \in Session : i # incs + 1 => fileOf'[i] = fileOf[i]
  BY <1>1 DEF Install
<1> QED BY <1>2 DEF Install, Loads

LEMMA BeginLoads ==
    ASSUME RegistryInv, NEW op, NEW rest, Begin(op, rest)
    PROVE  Loads
<1>1. CASE UNCHANGED regVars
  BY <1>1 DEF regVars, Loads
<1>2. CASE ~Taken /\ incs < MaxSessions /\ Install(incs + 1, FALSE)
  BY <1>2, InstallLoads DEF Taken
<1> QED BY <1>1, <1>2 DEF Begin, BeginCreate, BeginHydrate, BeginDispose, BeginMetadata, BeginUnread, BeginTruncate

LEMMA NextLoads == ASSUME IInv, [Next]_vars PROVE Loads
<1>0. RegistryInv
  BY DEF IInv
<1>1. ASSUME NEW op, Run(op) PROVE Loads
  BY <1>0, <1>1, BeginLoads DEF Run, Loads, regVars
<1>2. CASE HydrateReads
  <2>1. CASE UNCHANGED regVars
    BY <2>1 DEF regVars, Loads
  <2>2. CASE sessions = 0 /\ incs < MaxSessions /\ Install(Head(ops).file, TRUE)
    <3>1. Head(ops).file \in files
      BY <1>2, HeadFacts DEF HydrateReads, Is, HeadOk
    <3> QED BY <1>0, <2>2, <3>1, InstallLoads
  <2> QED BY <1>2, <2>1, <2>2 DEF HydrateReads
<1>3. CASE StartNext
  BY <1>0, <1>3, BeginLoads DEF StartNext
<1>4. CASE UNCHANGED regVars
  BY <1>4 DEF regVars, Loads
<1>5. CASE ChildrenClosed
  BY <1>5 DEF ChildrenClosed, Loads
<1>6. CASE Request
  BY <1>1, <1>4, <1>6 DEF Request, Create, Hydrate, Dispose, Truncate, SetRead, StartTurn, CancelTurn, SendMessage
<1>7. CASE OperationStep
  BY <1>1, <1>2, <1>3, <1>4, <1>5, <1>7
  DEF OperationStep, HydrateFound, MetadataFound, TruncateAttached, Navigated, EnterDisposal, QuiesceFails, Quiesced,
      DisposeFound, DisposeFindsNothing, DeleteFails, DeleteSucceeds, DisposalFails
<1>8. CASE (\E i \in Session : AttachStep(i)) \/ EndTurn \/ PiWrites \/ UNCHANGED vars
  BY <1>4, <1>8 DEF AttachStep, AttachSucceeds, AttachFails, EndTurn, PiWrites, vars
<1> QED BY <1>6, <1>7, <1>8 DEF Next

\* The file of the live session, as the abstract specification sees it.
Backing == IF sessions = 0 THEN 0 ELSE fileOf[sessions]

LEMMA IdentityFiles ==
    ASSUME IInv, IInv', FilesInv, [Identity!IdentityNext]_(Identity!identityVars)
    PROVE  /\ \A f \in files' : f = 0 \/ (sessions' # 0 /\ f = Backing')
           /\ Removing' /\ sessions' # 0 => Backing' \notin files'
           /\ sessions # 0 /\ sessions' = 0 =>
                 /\ fileOf[sessions] \notin files'
                 /\ sessions \in loaded => files' = {}
<1>0. /\ \A f \in files : f = 0 \/ (sessions # 0 /\ f = Backing)
      /\ Removing /\ sessions # 0 => Backing \notin files
  BY DEF FilesInv, Backing
<1>1. (Removing <=> Is("dispose", "children")) /\ (Removing' <=> Is("dispose", "children")')
  BY DEF Removing, Is
<1>2. CASE UNCHANGED Identity!identityVars
  <2>1. sessions' = sessions /\ files' = files /\ Backing' = Backing /\ (Removing' <=> Removing)
    BY <1>1, <1>2 DEF Identity!identityVars, Backing
  <2> QED BY <1>0, <2>1
<1>3. CASE Identity!Open
  <2>1. sessions = 0 /\ sessions' = incs + 1 /\ files' = files /\ ~Removing'
    BY <1>1, <1>3 DEF Identity!Open
  <2> QED BY <1>0, <2>1
<1>4. CASE Identity!Save
  <2>1. sessions # 0 /\ sessions' = sessions /\ files' = files \cup {Backing} /\ Backing' = Backing /\ ~Removing'
    BY <1>1, <1>4 DEF Identity!Save, Backing
  <2> QED BY <1>0, <2>1
<1>5. CASE Identity!Remove
  <2>1. PICK file \in File : /\ IF sessions # 0 THEN file = Backing ELSE file \in files
                             /\ files' = files \ {file}
    BY <1>5 DEF Identity!Remove, Backing
  <2>2. sessions' = sessions /\ Backing' = Backing
    BY <1>5 DEF Identity!Remove, Backing
  <2> QED BY <1>0, <2>1, <2>2
<1>6. CASE Identity!Close
  <2>1. Removing /\ sessions' = 0 /\ ~Removing' /\ files' = files
    BY <1>1, <1>6 DEF Identity!Close
  <2>2. sessions # 0 => Backing = fileOf[sessions]
    BY DEF Backing
  <2>3. sessions \in loaded => fileOf[sessions] = 0
    BY DEF FilesInv
  <2> QED BY <1>0, <2>1, <2>2, <2>3
<1> QED BY <1>2, <1>3, <1>4, <1>5, <1>6 DEF Identity!IdentityNext

LEMMA FilesStep == ASSUME IInv, RestTyped, FilesInv, [Next]_vars PROVE FilesInv'
<1>1. IInv' /\ Loads /\ [Identity!IdentityNext]_(Identity!identityVars)
  BY NextInv, NextLoads, NextIdentity
<1>2. /\ \A f \in files' : f = 0 \/ (sessions' # 0 /\ f = Backing')
      /\ Removing' /\ sessions' # 0 => Backing' \notin files'
  BY <1>1, IdentityFiles
<1>3. sessions' # 0 => Backing' = fileOf'[sessions']
  BY DEF Backing
<1>4. \A i \in loaded' : i <= incs' /\ fileOf'[i] = 0
  <2>1. CASE UNCHANGED <<incs, fileOf, loaded>>
    BY <2>1 DEF FilesInv
  <2>2. CASE /\ sessions = 0 /\ incs' = incs + 1
             /\ \A i \in Session : i # incs + 1 => fileOf'[i] = fileOf[i]
             /\ \/ loaded' = loaded
                \/ loaded' = loaded \cup {incs + 1} /\ fileOf'[incs + 1] \in files
    <3>1. incs \in Nat /\ \A i \in loaded : i \in Session /\ i \in Nat /\ i <= incs /\ fileOf[i] = 0
      BY SessionNumbers DEF IInv, RegistryInv, RestTyped, FilesInv
    <3>2. \A i \in loaded : i <= incs' /\ fileOf'[i] = 0
      BY <2>2, <3>1
    <3>3. fileOf'[incs + 1] \in files => fileOf'[incs + 1] = 0
      BY <2>2 DEF FilesInv
    <3> QED BY <2>2, <3>1, <3>2, <3>3
  <2> QED BY <1>1, <2>1, <2>2 DEF Loads
<1> QED BY <1>2, <1>3, <1>4 DEF FilesInv

\* Closing a session leaves no file of it, and of a session loaded from disk
\* nothing that could be listed again.
THEOREM DeletionsLast == Spec => RemovalIsDurable
<1>1. ASSUME Init PROVE FilesInv
  BY <1>1 DEF Init, FilesInv, Removing, Is
<1>2. IInv /\ RestTyped /\ FilesInv /\ [Next]_vars => FilesInv'
  BY FilesStep
<1>3. IInv /\ RestTyped /\ [Next]_vars => RestTyped'
  BY RestStep
<1>4. Spec => [](IInv /\ FilesInv)
  BY InitTyped, <1>1, <1>2, <1>3, Invariance, PTL DEF Spec
<1>5. IInv /\ FilesInv /\ [Next]_vars =>
         [sessions # 0 /\ sessions' = 0 => fileOf[sessions] \notin files' /\ (sessions \in loaded => files' = {})]_vars
  BY NextInv, NextIdentity, IdentityFiles
<1> QED BY <1>4, <1>5, PTL DEF Spec, RemovalIsDurable
=============================================================================
