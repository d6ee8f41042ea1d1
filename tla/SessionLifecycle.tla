-------------------------- MODULE SessionLifecycle --------------------------
(***************************************************************************)
(* pi/session-registry.ts, session-operations.ts and session-hydrator.ts,  *)
(* for one session id: creation, loading from disk, lazy start of the      *)
(* agent backend, client actions that wait for it, the durable read flag,  *)
(* truncation and disposal.                                                *)
(*                                                                         *)
(* Successive sessions that bear the id are numbered; a session created    *)
(* here writes the file of its own number. Operations on the id queue up:  *)
(* the head of `ops' is the one that runs, at the await its phase names.   *)
(* What the driver does with an action is the matter of ChatDriver.        *)
(***************************************************************************)
EXTENDS Integers, Sequences

CONSTANTS
    Actions,        \* client actions on the chat, each sent once
    None,           \* no turn is active
    MaxSessions,    \* bound on sessions opened under the id
    MaxDisposals,   \* bound on disposal requests
    MaxQueue        \* bound on operations pending when a request arrives

ASSUME LifecycleAssumption ==
    /\ None \notin Actions
    /\ MaxSessions \in Nat /\ MaxDisposals \in Nat /\ MaxQueue \in Nat

VARIABLES
    sessions,       \* the live session in #sessions and #byChat, 0 if none
    store,          \* the session and chat channels in the StateStore
    incs,           \* sessions opened so far
    fileOf,         \* the file behind each session
    loaded,         \* sessions that came from disk
    files,          \* session files on disk that bear the id
    read,           \* the durable read flag
    shown,          \* the read flag in the live session's state
    ops,            \* SessionOperations.#tails
    disposing,      \* #disposals: none, still deferred, or handed to ops
    disposals,      \* disposals requested so far
    turn,           \* ChatState.activeTurn
    waiting,        \* #routeClientAction calls at an await
    accepted,       \* history: actions committed on the chat
    delivered,      \* history: actions given to a driver
    driver,         \* sessions that have a ChatDriver
    attaching,      \* LiveSession.attaching is set
    starting,       \* calls of createBackend in flight, per session
    running         \* agents created and not disposed, per session

regVars == <<sessions, store, incs, fileOf, loaded>>
flagVars == <<read, shown>>
chatVars == <<turn, waiting, accepted, delivered>>
agentVars == <<driver, attaching, starting, running>>
disposalVars == <<disposing, disposals>>
vars == <<regVars, files, flagVars, ops, disposalVars, chatVars, agentVars>>

Session == 1..MaxSessions
File == 0..MaxSessions      \* 0 was written before this host started

Kind == {"create", "hydrate", "dispose", "metadata", "unread", "truncate"}
Phase == {"queued", "finding", "reading", "quiescing", "closing", "deleting", "children",
          "attaching", "navigating"}
Operation == [kind : Kind, phase : Phase, on : 0..MaxSessions, file : File, value : BOOLEAN]

Op(kind, on) == [kind |-> kind, phase |-> "queued", on |-> on, file |-> 0, value |-> FALSE]

Waiter == [action : Actions, starts : BOOLEAN, on : Session, until : {"attach", "disposal"}]

Pending(kind) == \E i \in DOMAIN ops : ops[i].kind = kind
Is(kind, phase) == ops # <<>> /\ Head(ops).kind = kind /\ Head(ops).phase = phase

\* The running operation moves to its next await, or ends.
Advance(op) == ops' = <<op>> \o Tail(ops)
End == ops' = Tail(ops)

-----------------------------------------------------------------------------
(* The agent backend *)

\* #attachBackend: joins the attempt under way.
StartBackend(i) ==
    IF attaching[i] THEN UNCHANGED agentVars
    ELSE /\ attaching' = [attaching EXCEPT ![i] = TRUE]
         /\ starting' = [starting EXCEPT ![i] = @ + 1]
         /\ UNCHANGED <<driver, running>>

Settled(i) ==
    /\ starting[i] > 0
    /\ starting' = [starting EXCEPT ![i] = @ - 1]
    /\ attaching' = [attaching EXCEPT ![i] = FALSE]

\* The rest of #routeClientAction: a turn that is no longer active is not
\* started, and without a driver there is nobody to tell.
Reaches(w) == driver'[w.on] /\ sessions' = w.on /\ (w.starts => turn' = w.action)

\* Calls that were waiting for `until' in one of these sessions go on, in an
\* order nothing here depends on.
Continue(among, until) ==
    LET going == {w \in waiting : w.on \in among /\ w.until = until} IN
    /\ delivered' = delivered \cup {w.action : w \in {v \in going : Reaches(v)}}
    /\ waiting' = waiting \ going

\* After the attempt: an action accepted before a disposal waits for its end.
Attached(i) ==
    IF disposing = "no" THEN Continue({i}, "attach")
    ELSE /\ waiting' = {IF w.on = i THEN [w EXCEPT !.until = "disposal"] ELSE w : w \in waiting}
         /\ UNCHANGED delivered

\* A backend that comes up for a session that is gone is disposed at once.
AttachSucceeds(i) ==
    /\ Settled(i)
    /\ IF sessions = i
       THEN /\ driver' = [driver EXCEPT ![i] = TRUE]
            /\ running' = [running EXCEPT ![i] = @ + 1]
       ELSE UNCHANGED <<driver, running>>
    /\ UNCHANGED <<regVars, files, flagVars, ops, disposalVars, turn, accepted>>
    /\ Attached(i)

\* #markSessionUnreadAfterTurn when its turn comes; the write may fail.
Unread(i) ==
    \/ /\ sessions = i /\ disposing = "no" /\ shown
       /\ read' = FALSE /\ shown' = FALSE
    \/ UNCHANGED flagVars

\* A turn of session i ended: the update runs now or behind this queue.
MarkUnread(i, queue) ==
    IF queue = <<>> THEN ops' = queue /\ Unread(i)
    ELSE ops' = Append(queue, Op("unread", i)) /\ UNCHANGED flagVars

\* Mutant: leaves the turn open.
AttachFailsSilently(i) ==
    /\ Settled(i)
    /\ UNCHANGED <<turn, ops, flagVars>>
    /\ UNCHANGED <<regVars, files, disposalVars, accepted, driver, running>>
    /\ Attached(i)

\* createBackend failed: a turn the client already started is closed.
AttachFails(i) ==
    /\ Settled(i)
    /\ IF sessions = i /\ turn # None
       THEN turn' = None /\ MarkUnread(i, ops)
       ELSE UNCHANGED <<turn, ops, flagVars>>
    /\ UNCHANGED <<regVars, files, disposalVars, accepted, driver, running>>
    /\ Attached(i)

-----------------------------------------------------------------------------
(* Operations on the id, from their start to the first await *)

\* New channels and a new entry in the registry, backed by file.
Install(file, fromDisk) ==
    /\ incs' = incs + 1
    /\ store' = [session |-> incs + 1, chat |-> incs + 1]
    /\ sessions' = IF sessions = 0 THEN incs + 1 ELSE sessions
    /\ fileOf' = [fileOf EXCEPT ![incs + 1] = file]
    /\ loaded' = IF fromDisk THEN loaded \cup {incs + 1} ELSE loaded
    /\ turn' = None

Taken == disposing # "no" \/ sessions # 0 \/ store.session # 0

\* #createOnce. The configuration may be refused.
BeginCreate(rest) ==
    /\ ops' = rest
    /\ \/ UNCHANGED <<regVars, flagVars, turn, agentVars>>
       \/ /\ ~Taken /\ incs < MaxSessions
          /\ Install(incs + 1, FALSE)
          /\ shown' = FALSE
          /\ StartBackend(incs + 1)
          /\ UNCHANGED read

\* #hydrateSession up to the search for the file.
BeginHydrate(op, rest) ==
    /\ ops' = IF sessions # 0 \/ disposing # "no" THEN rest ELSE <<[op EXCEPT !.phase = "finding"]>> \o rest
    /\ UNCHANGED <<regVars, flagVars, turn, agentVars>>

\* #disposeOnce: the driver to quiesce is read before the first await.
BeginDispose(op, rest) ==
    LET found == sessions # 0 /\ driver[sessions]
        phase == IF sessions = 0 THEN "finding" ELSE IF found THEN "quiescing" ELSE "closing"
    IN  /\ ops' = <<[op EXCEPT !.phase = phase, !.on = sessions, !.value = found]>> \o rest
        /\ UNCHANGED <<regVars, flagVars, turn, agentVars>>

\* The host validates, persists and commits; refusals change nothing.
ApplyFlag(v) ==
    \/ disposing = "no" /\ read' = v /\ shown' = v
    \/ UNCHANGED flagVars

\* routeMetadataAction, in its turn.
BeginMetadata(op, rest) ==
    /\ UNCHANGED <<regVars, turn, agentVars>>
    /\ IF sessions # 0 THEN ops' = rest /\ ApplyFlag(op.value)
       ELSE ops' = <<[op EXCEPT !.phase = "finding"]>> \o rest /\ UNCHANGED flagVars

BeginUnread(op, rest) ==
    /\ ops' = rest
    /\ Unread(op.on)
    /\ UNCHANGED <<regVars, turn, agentVars>>

\* #truncateBeforeCommit. The turn's entry may be unknown.
BeginTruncate(op, rest) ==
    /\ UNCHANGED <<regVars, flagVars, turn>>
    /\ \/ ops' = rest /\ UNCHANGED agentVars
       \/ /\ sessions = op.on /\ disposing = "no" /\ turn = None
          /\ IF driver[op.on]
             THEN ops' = <<[op EXCEPT !.phase = "navigating"]>> \o rest /\ UNCHANGED agentVars
             ELSE ops' = <<[op EXCEPT !.phase = "attaching"]>> \o rest /\ StartBackend(op.on)

Begin(op, rest) ==
    \/ op.kind = "create" /\ BeginCreate(rest)
    \/ op.kind = "hydrate" /\ BeginHydrate(op, rest)
    \/ op.kind = "dispose" /\ BeginDispose(op, rest)
    \/ op.kind = "metadata" /\ BeginMetadata(op, rest)
    \/ op.kind = "unread" /\ BeginUnread(op, rest)
    \/ op.kind = "truncate" /\ BeginTruncate(op, rest)

\* Mutant: operations on one id overlap.
RunAtOnce(op) == Begin(op, ops)

\* SessionOperations.run: at once when nothing is pending, else in its turn.
Run(op) ==
    IF ops = <<>> THEN Begin(op, <<>>)
    ELSE ops' = Append(ops, op) /\ UNCHANGED <<regVars, flagVars, turn, agentVars>>

StartNext ==
    /\ ops # <<>> /\ Head(ops).phase = "queued"
    /\ Begin(Head(ops), Tail(ops))
    /\ UNCHANGED <<files, disposalVars, waiting, accepted, delivered>>

-----------------------------------------------------------------------------
(* Requests *)

Room == Len(ops) < MaxQueue

\* createSession: refused at once if the id is taken.
Create ==
    /\ ~Taken /\ Room
    /\ Run(Op("create", 0))
    /\ UNCHANGED <<files, disposalVars, waiting, accepted, delivered>>

\* hydrate: a second request joins the pending one.
Hydrate ==
    /\ sessions = 0 /\ disposing = "no" /\ ~Pending("hydrate") /\ Room
    /\ Run(Op("hydrate", 0))
    /\ UNCHANGED <<files, disposalVars, waiting, accepted, delivered>>

\* session/isReadChanged. The host sends one action on a channel at a time
\* through the router; on a live session in disposal it is refused at once.
SetRead(v) ==
    /\ ~Pending("metadata") /\ Room
    /\ sessions # 0 => disposing = "no"
    /\ Run([Op("metadata", 0) EXCEPT !.value = v])
    /\ UNCHANGED <<files, disposalVars, waiting, accepted, delivered>>

\* dispose: the gate closes now, the work starts a tick later.
Dispose ==
    /\ disposing = "no" /\ disposals < MaxDisposals
    /\ disposing' = "deferred"
    /\ disposals' = disposals + 1
    /\ UNCHANGED <<regVars, files, flagVars, ops, chatVars, agentVars>>

EnterDisposal ==
    /\ disposing = "deferred"
    /\ disposing' = "entered"
    /\ Run(Op("dispose", 0))
    /\ UNCHANGED <<files, disposals, waiting, accepted, delivered>>

\* The validator admits an action on the chat, and none is ahead of it.
Admitted == sessions # 0 /\ disposing = "no" /\ ~Pending("truncate")

\* #routeClientAction up to its first await.
Route(m, starts) ==
    IF driver[sessions]
    THEN delivered' = delivered \cup {m} /\ UNCHANGED <<waiting, agentVars>>
    ELSE /\ waiting' = waiting \cup {[action |-> m, starts |-> starts, on |-> sessions, until |-> "attach"]}
         /\ StartBackend(sessions)
         /\ UNCHANGED delivered

Accept(m) == m \notin accepted /\ accepted' = accepted \cup {m}

StartTurn(m) ==
    /\ Admitted /\ turn = None
    /\ Accept(m)
    /\ turn' = m
    /\ Route(m, TRUE)
    /\ UNCHANGED <<regVars, files, flagVars, ops, disposalVars>>

CancelTurn(m) ==
    /\ Admitted /\ turn # None
    /\ Accept(m)
    /\ turn' = None
    /\ MarkUnread(sessions, ops)
    /\ Route(m, FALSE)
    /\ UNCHANGED <<regVars, files, disposalVars>>

\* A queued or steering message.
SendMessage(m) ==
    /\ Admitted
    /\ Accept(m)
    /\ Route(m, FALSE)
    /\ UNCHANGED <<regVars, files, flagVars, ops, disposalVars, turn>>

Truncate ==
    /\ Admitted /\ turn = None /\ Room
    /\ Run(Op("truncate", sessions))
    /\ UNCHANGED <<files, disposalVars, waiting, accepted, delivered>>

-----------------------------------------------------------------------------
(* The agent at work *)

Working == sessions # 0 /\ driver[sessions] /\ turn # None /\ turn \in delivered

Quiescing == ops # <<>> /\ Head(ops).kind = "dispose" /\ Head(ops).phase # "queued"

\* The driver ends its turn.
EndTurn ==
    /\ Working /\ ~Quiescing
    /\ turn' = None
    /\ MarkUnread(sessions, ops)
    /\ UNCHANGED <<regVars, files, disposalVars, waiting, accepted, delivered, agentVars>>

\* pi writes the session file once the assistant has spoken.
PiWrites ==
    /\ Working
    /\ files' = files \cup {fileOf[sessions]}
    /\ UNCHANGED <<regVars, flagVars, ops, disposalVars, chatVars, agentVars>>

-----------------------------------------------------------------------------
(* Loading and metadata after their awaits *)

HydrateFound ==
    /\ Is("hydrate", "finding")
    /\ \/ End
       \/ \E f \in files : Advance([Head(ops) EXCEPT !.phase = "reading", !.file = f])
    /\ UNCHANGED <<regVars, files, flagVars, disposalVars, chatVars, agentVars>>

\* Nothing is awaited between the second look at the registry and adopt. The
\* flags, which may be unreadable, are read before either channel exists.
HydrateReads ==
    /\ Is("hydrate", "reading")
    /\ End
    /\ \/ UNCHANGED <<regVars, shown, turn>>
       \/ /\ sessions = 0 /\ disposing = "no" /\ incs < MaxSessions
          /\ Install(Head(ops).file, TRUE)
          /\ shown' = read
    /\ UNCHANGED <<files, read, disposalVars, waiting, accepted, delivered, agentVars>>

\* #updateColdMetadata after the search: without a file the action is ignored.
MetadataFound ==
    /\ Is("metadata", "finding")
    /\ End
    /\ \/ sessions # 0 /\ ApplyFlag(Head(ops).value)
       \/ sessions = 0 /\ files # {} /\ disposing = "no" /\ read' = Head(ops).value /\ UNCHANGED shown
       \/ sessions = 0 /\ UNCHANGED flagVars
    /\ UNCHANGED <<regVars, files, disposalVars, chatVars, agentVars>>

-----------------------------------------------------------------------------
(* Truncation after its awaits *)

TruncateAttached ==
    /\ Is("truncate", "attaching") /\ ~attaching[Head(ops).on]
    /\ IF driver[Head(ops).on] /\ turn = None
       THEN Advance([Head(ops) EXCEPT !.phase = "navigating"])
       ELSE End
    /\ UNCHANGED <<regVars, files, flagVars, disposalVars, chatVars, agentVars>>

\* pi has moved its leaf and the action is committed, or pi refused.
Navigated ==
    /\ Is("truncate", "navigating")
    /\ End
    /\ UNCHANGED <<regVars, files, flagVars, disposalVars, chatVars, agentVars>>

-----------------------------------------------------------------------------
(* Disposal after its awaits *)

\* Mutant: the gate stays closed after a failure.
GateKept == disposing' = disposing

\* #disposals forgets the operation; its waiters run before the next one.
GateOpens == disposing' = "no"

\* The session survives: the driver resumes, held actions go on.
DisposalFails ==
    /\ End
    /\ GateOpens
    /\ UNCHANGED <<regVars, files, flagVars, disposals, turn, accepted, agentVars>>
    /\ Continue(Session, "disposal")

QuiesceFails == Is("dispose", "quiescing") /\ DisposalFails

\* The driver is at rest; a turn nobody owns is cancelled.
Quiesced ==
    /\ Is("dispose", "quiescing") \/ Is("dispose", "closing")
    /\ LET op == [Head(ops) EXCEPT !.phase = "deleting", !.file = fileOf[sessions]]
           queue == <<op>> \o Tail(ops)
       IN  IF turn # None THEN turn' = None /\ MarkUnread(sessions, queue)
           ELSE ops' = queue /\ UNCHANGED <<turn, flagVars>>
    /\ UNCHANGED <<regVars, files, disposalVars, waiting, accepted, delivered, agentVars>>

\* A session that is not live is looked for on disk.
DisposeFound ==
    /\ Is("dispose", "finding")
    /\ \E f \in files : Advance([Head(ops) EXCEPT !.phase = "deleting", !.file = f])
    /\ UNCHANGED <<regVars, files, flagVars, disposalVars, chatVars, agentVars>>

DisposeFindsNothing ==
    /\ Is("dispose", "finding") /\ files = {}
    /\ IF store.session = 0 THEN DisposalFails
       ELSE /\ Advance([Head(ops) EXCEPT !.phase = "children"])
            /\ UNCHANGED <<regVars, files, flagVars, disposalVars, chatVars, agentVars>>

DeleteFails == Is("dispose", "deleting") /\ DisposalFails

\* The file is gone for good. A failure to remove the flags is only logged.
DeleteSucceeds ==
    /\ Is("dispose", "deleting")
    /\ files' = files \ {Head(ops).file}
    /\ \/ read' = FALSE
       \/ UNCHANGED read
    /\ Advance([Head(ops) EXCEPT !.phase = "children"])
    /\ UNCHANGED <<regVars, shown, disposalVars, chatVars, agentVars>>

\* Mutant: disposes the driver it saw before the awaits.
RemoveCaptured ==
    /\ IF sessions # 0 /\ Head(ops).value
       THEN running' = [running EXCEPT ![sessions] = @ - 1]
       ELSE UNCHANGED running
    /\ sessions' = 0
    /\ store' = [session |-> 0, chat |-> 0]

\* The live entry is read again: its driver, if any by now, is disposed.
RemoveCurrent ==
    /\ IF sessions # 0 /\ driver[sessions]
       THEN running' = [running EXCEPT ![sessions] = @ - 1]
       ELSE UNCHANGED running
    /\ sessions' = 0
    /\ store' = [session |-> 0, chat |-> 0]

\* The changeset channels are closed; the chat and the session follow. Actions
\* that waited for the end of the disposal are dropped.
ChildrenClosed ==
    /\ Is("dispose", "children")
    /\ End
    /\ RemoveCurrent
    /\ GateOpens
    /\ turn' = None
    /\ waiting' = {w \in waiting : w.until # "disposal"}
    /\ UNCHANGED <<incs, fileOf, loaded, files, flagVars, disposals, accepted, delivered,
                   driver, attaching, starting>>

-----------------------------------------------------------------------------
Init ==
    /\ sessions = 0 /\ incs = 0 /\ loaded = {}
    /\ store = [session |-> 0, chat |-> 0]
    /\ fileOf = [i \in Session |-> 0]
    /\ files \in SUBSET {0}
    /\ read \in BOOLEAN /\ (files = {} => ~read) /\ shown = FALSE
    /\ ops = <<>> /\ disposing = "no" /\ disposals = 0
    /\ turn = None /\ waiting = {} /\ accepted = {} /\ delivered = {}
    /\ driver = [i \in Session |-> FALSE]
    /\ attaching = [i \in Session |-> FALSE]
    /\ starting = [i \in Session |-> 0]
    /\ running = [i \in Session |-> 0]

Request ==
    \/ Create \/ Hydrate \/ Dispose \/ Truncate
    \/ \E v \in BOOLEAN : SetRead(v)
    \/ \E m \in Actions : StartTurn(m) \/ CancelTurn(m) \/ SendMessage(m)

\* What an operation's own awaits lead to.
OperationStep ==
    \/ StartNext \/ HydrateFound \/ HydrateReads \/ MetadataFound \/ TruncateAttached \/ Navigated
    \/ EnterDisposal \/ QuiesceFails \/ Quiesced \/ DisposeFound \/ DisposeFindsNothing
    \/ DeleteFails \/ DeleteSucceeds \/ ChildrenClosed

AttachStep(i) == AttachSucceeds(i) \/ AttachFails(i)

Next ==
    \/ Request \/ OperationStep
    \/ \E i \in Session : AttachStep(i)
    \/ EndTurn \/ PiWrites

Spec == Init /\ [][Next]_vars

\* File operations, pi's navigation, quiescence and agent starts settle, and
\* a deferred disposal is a job the event loop runs.
FairSpec ==
    /\ Spec /\ WF_vars(OperationStep) /\ WF_vars(EnterDisposal)
    /\ \A i \in Session : WF_vars(AttachStep(i))

-----------------------------------------------------------------------------
(* Properties *)

TypeOK ==
    /\ sessions \in 0..MaxSessions /\ incs \in 0..MaxSessions /\ loaded \subseteq Session
    /\ store \in [session : 0..MaxSessions, chat : 0..MaxSessions]
    /\ fileOf \in [Session -> File] /\ files \subseteq File
    /\ read \in BOOLEAN /\ shown \in BOOLEAN
    /\ ops \in Seq(Operation)
    /\ disposing \in {"no", "deferred", "entered"} /\ disposals \in Nat
    /\ turn \in Actions \cup {None}
    /\ waiting \subseteq Waiter /\ accepted \subseteq Actions /\ delivered \subseteq Actions
    /\ driver \in [Session -> BOOLEAN] /\ attaching \in [Session -> BOOLEAN]
    /\ starting \in [Session -> Nat] /\ running \in [Session -> Nat]

\* The registry and the protocol state never disagree about which session is
\* live, and a session never exists without its chat (session-registry.ts:575).
RegistryMatchesStore == store = [session |-> sessions, chat |-> sessions]

\* A running agent belongs to the driver of the live session: none survives its
\* session, however late it came up (session-registry.ts:616, 579).
AgentsOwned ==
    \A i \in Session : running[i] = IF sessions = i /\ driver[i] THEN 1 ELSE 0

\* Nobody builds a second agent over the same session file
\* (session-registry.ts:596).
OneAgentPerSession == \A i \in Session : starting[i] + running[i] <= 1

\* A turn the client sees in progress has a driver that knows it, or a call
\* that will tell one or find it closed (session-registry.ts:654).
TurnHasOwner ==
    turn # None =>
        \/ Working
        \/ \E w \in waiting :
              /\ w.action = turn /\ w.on = sessions
              /\ \/ w.until = "attach" /\ attaching[sessions]
                 \/ w.until = "disposal" /\ disposing # "no"

\* A disposal takes the session's own file with it, and a session loaded from
\* disk leaves the catalogue nothing to list; only a file that its creation
\* overlooked may stay (session-registry.ts:399, 473-475).
RemovalIsDurable ==
    [][sessions # 0 /\ sessions' = 0 =>
          fileOf[sessions] \notin files' /\ (sessions \in loaded => files' = {})]_vars

\* An accepted action does not wait for ever for an agent or a disposal.
ActionsSettle ==
    \A m \in Actions : (\E w \in waiting : w.action = m) ~> (\A w \in waiting : w.action # m)

\* The registry and the hydrator keep the abstract promise about the id.
Identity == INSTANCE SessionIdentity WITH
    Files <- File, open <- sessions, opened <- incs, kept <- files,
    backing <- IF sessions = 0 THEN 0 ELSE fileOf[sessions],
    removed <- Is("dispose", "children")

KeepsIdentity == Identity!IdentitySpec
=============================================================================
