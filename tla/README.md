# pi-ahp verification project

TLA+ models of `pi-ahp`, an Agent Host Protocol (AHP) host that embeds the pi
coding agent and serves its sessions to clients over WebSocket.
All paths below are relative to the repository (`src/src/...` in this tree).

## 1. Inventory

The program is one Node.js process. Its concurrency is the interleaving of
callbacks, promise continuations and timers: code between two `await`s runs
atomically, everything across an `await` may interleave with everything else.

| component | source | state | operations | what is hard | what makes it correct |
|---|---|---|---|---|---|
| AHP host (routing, sequencing, subscriptions, handshake) | `core/host.ts`, `core/sequencer.ts`, `core/connection.ts`, `core/state-store.ts` | `#store`, `#serverSeq` and replay buffer, `#connections` and their subscriptions, `#clientInfoById` | accept, close, initialize, reconnect, subscribe, unsubscribe, commit, reject, deleteChannel, create | requests suspended in hydration while actions are broadcast; bounded replay; replaced half-open sockets; lost frames | a subscribed client can always rebuild the authoritative state from what it was sent; order of sequence numbers |
| Client-action pipeline | `core/host.ts:747-900`, `pi/session-operations.ts` | `#pendingClientActions`, per-session tails | dispatch, route, validate, effect, commit, reject | asynchronous routers, two FIFO gates, failures before and after the commit | one echo per action, arrival order per channel, never a rejection after a commit |
| Chat driver | `pi/chat-driver.ts` | run, turn operation, cancellation and generation, in-flight set, quiescence gate, steering id | startTurn, cancelTurn, steer, settle, consume queued, quiesce, resume, truncate | client cancels while the backend is in preflight, aborting or settling; disposal that fails half-way; events arriving late | one backend run at a time; every turn ends once; a queued message runs once; quiescence drains |
| Turn mapper | `pi/event-mapper.ts` | turn id, message ordinal, open parts, live tool calls, result | handle(event), finish | injected messages split a run in several turns; retries; tools cut off | part ids unique, tool calls well nested, exactly one terminal action |
| Session registry | `pi/session-registry.ts` | live sessions, by-chat index, disposals, summary baselines | create, adopt, dispose, attach backend, route actions, project summaries | disposal racing creation, hydration, lazy backend start and queued actions | registry and protocol state agree; deletion is final; no late backend is attached |
| Session hydrator | `pi/session-hydrator.ts` | in-flight hydrations | hydrate | disk reads across awaits racing create and dispose | a live session is never overwritten, a deleted one never resurrected |
| Session catalogue and storage | `pi/session-catalogue.ts`, `pi/session-storage.ts` | scan cache | list (paged), find | files change between pages | pages partition the catalogue |
| History and paging | `pi/history.ts`, `pi/turn-paging.ts`, `pi/session-history.ts` | none (pure) | rebuild, window, page, truncation anchor | boundaries | pages concatenate to the history |
| Metadata store | `pi/metadata-store.ts` | one file per key | get, set, list, delete | crash between write and rename | a reader sees the old value or the new one |
| Changeset service | `pi/changeset-service.ts`, `pi/git-changes.ts` | entry per session: probe, refresh loop, watcher, eviction timers | attach, hydrate, refresh, watch, suspend, resume, remove | coalesced refresh, watcher start/close races, aborts | no lost refresh, no leaked watcher, nothing published after removal |
| Terminal service | `host/terminal-service.ts` | entries, pending output, flush timers | create, input, data, exit, dispose, shutdown | duplicate create across `stat`, output batch against exit/clear/dispose | output order; store and entries agree; exit published once |
| Resource watches | `pi/resource-watch.ts`, `pi/resource-watch-policy.ts` | active watches, grace/flush timers, pending changes | create, record, flush, release, dispose | grace timer against subscribe; disposal during open; batching | no leaked handle, coalesced change equals the net effect |
| Parcel watch pool | `pi/parcel-watch-pool.ts`, `pi/parcel-watch-source.ts`, `pi/chokidar-watch-source.ts` | shared entries, reference counts, closings | acquire, close, report error | open failing with waiters, acquire during close, errors before listeners | one native source per root, closed when the last user leaves |
| Webhooks | `host/webhook-*.ts`, `protocol/webhook.ts` | registrations | set, lease expiry, notify | persistence before memory | memory agrees with disk |
| Client workarounds | `core/client-workarounds.ts` | identified dialect | rewrite incoming and outgoing URIs | | rewriting is inverse |
| Transport, tunnel, CLI | `transport/websocket.ts`, `tunnel/*`, `bin/*`, `host/serve.ts`, `host/direct-settings.ts` | sockets, child processes | | | pure I/O |
| Input conversion, models, completions, resources | `pi/message-input.ts`, `pi/image-*.ts`, `pi/models.ts`, `pi/completions.ts`, `pi/session-config.ts`, `pi/resource-service.ts`, `pi/activity.ts` ... | none | | | formatting and file access |

## 2. Modules

| module | models | state in the code |
|---|---|---|
| `Sequencer` | `core/sequencer.ts` | `#serverSeq`, `#buffer` |
| `ReplayLog` | the sequencer measured against everything it emitted | plus a history variable `log` the code does not keep |
| `AhpHost` (EXTENDS `Sequencer`) | `core/host.ts`, `connection.ts`, `state-store.ts`, sockets and clients | store, connections, subscriptions, known client ids, suspended requests |
| `ChatDriver` | `pi/chat-driver.ts`, with `in-process-backend.ts` as far as it delays or withdraws a prompt | run, prompt operations, cancellations, steers, quiescence |
| `SessionIdentity` | the abstract promise about one session id | open session, its file, files on disk, removal under way |
| `SessionLifecycle` | `pi/session-registry.ts`, `session-operations.ts`, `session-hydrator.ts` for one session id; refines `SessionIdentity` | `#sessions`, `#byChat`, `#disposals`, `#tails`, `LiveSession.attaching` and `driver`, the two channels, the read flag and its file |
| `ParcelWatchPool` | `pi/parcel-watch-pool.ts` for one root | `#entries`, `#closing`, `SharedEntry`, the native sources |
| `ParcelWatchSource` | `pi/parcel-watch-source.ts`: one native source and the root it follows | the fields of the class, where its coroutines are, the native subscriptions |
| `ResourceWatch` (EXTENDS `ParcelWatchPool`) | `pi/resource-watch.ts` and `mergeChange` of `resource-watch-policy.ts` | `#watches`, `#pending`, timers and batches, `#disposal` |
| `History` | `pi/history.ts`, `turn-paging.ts`, the anchors of `session-history.ts`: operators on a branch of a session file | none |
| `TurnMapper` (EXTENDS `History`) | `pi/event-mapper.ts`, one event in and chat actions out; the protocol's chat reducer, external | the mapper's fields |
| `Conversation` (EXTENDS `TurnMapper`) | one chat and its session file: the streamed account and the rebuilt one side by side | session file, mapper, chat state, `#persistedInputTurns`, anchors |
| `TerminalService` | `host/terminal-service.ts` | `#entries`, creates that wait for `stat`, root catalogue, channels, batches and timers, the processes |
| `ChangesetService` | `pi/changeset-service.ts` for one session, with `git-changes.ts` as a repository that changes | the entry's promises, flags, timers and watch, `#stateEvictions`, channels and subscribers |
| `ClientActions` | the pipeline of `core/host.ts:747-900`, the routers of `session-registry.ts`, the queue of `session-operations.ts`, `metadata-store.ts` for one flag | `#pendingClientActions`, `#tails`, the session's channels, file and flag |
| `MC*` | instances for TLC: symmetry, view, constraint | |
| `*_proofs` | theorems about the module they are named after; `ResourceWatch_proofs` is about the pool as well, `AhpHost_proofs` about `ReplayLog` | |

An action is what the program does between two suspension points (`await`, a
timer, an event callback). What a handler still has to do after an await is
in the state, as a phase, so everything else may happen in between.

### 2.1 Sequencer, ReplayLog

`Emit` is `next()` followed by `retain()`; `CanReplayFrom` and `ReplayFrom` are
the methods of those names. An envelope keeps its channel, its number and
whether it echoes an accepted action. `replayFrom` returns an array; the model
returns the set of its elements, which loses nothing because the buffer is
ordered by number (`BufferIsRecentLog`).

### 2.2 AhpHost

*Channel state* is the set of sequence numbers reduced into it since the channel
was created, and `inc` tells apart successive channels that bore the same URI:
two replicas agree exactly when these do. The reducers themselves belong to the
protocol package. `Commit` on a channel that is not in memory is the
metadata action of a session that exists only on disk: sequenced and broadcast,
not reduced.

*Requests.* `initialize`, `reconnect` and `subscribe` walk a list of channels.
`Proceed` runs that loop up to the next await on the hydrator;
`HydrationSettles` is the hydrator's answer (found and created, somebody else
created it, cannot be loaded); `ResumeHandler` continues and looks at the store
again as `#trySubscribe` does; `Finish` fixes the result; `SendReply` sends it
in a later step, because `#handleRequest` awaits the handler. Between `Finish`
and `SendReply` actions may be broadcast that the result does not contain. A
client lists the channels it holds in any order (`Orders`). `orphaned` is a
history: the subscriptions of a reconnect under way whose channel
`store.delete` has taken meanwhile.

*Sockets.* `up` says that the two ends still reach each other, `wire` is what
was sent and not received. `LoseLink` drops both; the host learns of it later
(`OnClose`) or when the client's next handshake replaces the connection
(`BindClient`). After `OnClose` only a suspended handler still refers to
the connection and what it sends is dropped, so the model resets it and
lets its socket name serve another connection.

*Clients* are outside the repository. The client here is the weakest that the
protocol lets converge: one request outstanding, actions that arrive before the
reply are set aside, a number is applied to a channel once. Requests and
notifications of a client are handled in the step that sends them.

*Left out*: action validation and routing (their outcome is `Commit` or
`RejectAction`), resource and completion requests (no host state), the
client workarounds. A channel dropped with `store.delete` and created again
(`terminal-service.ts:338`) keeps its subscribers, whose views are of the old
incarnation until the client learns of it elsewhere; `Converged` is about views
of the current incarnation.

### 2.3 ChatDriver

A run, its prompt operation and its first turn are named by the message that
started them. `op[m]` is where `runPrompt` for message m stands: behind a
`cancellation`, at the quiescence `gate`, `selecting` a model, at the
`gateAgain`, `preparing` images in the backend, `streaming`, or `done`.
`cancels[g]` is the g-th `settleCancellation`: `waiting` for the previous one,
`aborting` in the backend, `aborted` and waiting for the prompt it was aimed at,
`done`. `cancellation` is the driver's field: the newest unsettled generation.
`steers[m]` is the steer operation of m, `piQueue` the queue inside pi.
`closing` follows `quiesce`: the abort, the draining of in-flight work, `held`
(the promise has resolved, disposal goes on), `gone`; `Resume` is disposal that
failed, from either of the two awaits at which it can.

`dropped` is a history: the prompts whose turn a truncation took from the chat. `EndTruncation` is the
end of the router's promise: refused, or `chat/truncated` is committed, which the protocol's reducer
answers by leaving no active turn, whatever began since the last look (`host.ts:808-812`).

An accepted client action is committed to the chat and handed to the driver in
one synchronous step; the guards of `StartTurn`, `CancelTurn`, `Queue` and
`StartTruncation` are the registry's validator. `ConsumeNext` is part of every
action that calls it. `abort` and `prompt` of the backend may resolve whenever
the calls allow: pi's own guarantees (abort waits for idle) are not assumed.

*Left out*: user-message anchors, the activity string, the default draft, the
order of queued messages after a reorder, whether a prompt failed or completed
(it chooses the terminal action only). The driver is attached: the lazy start of
a backend is the matter of `SessionLifecycle`.
*Order of continuations.* A call of `quiesce` comes from a later job of the event
loop, so it does not precede the continuations of a gate that has opened: `Quiesce`
waits until no prompt operation stands at the gate.

### 2.4 SessionIdentity, SessionLifecycle

`SessionLifecycle` is about one session id and its default chat. Sessions that bear
the id one after another are numbered (`incs`); a session created here writes the
file of its own number, file 0 was there before the host started. `sessions` is the live
entry of `#sessions` and `#byChat`, `store` the number of the session whose channels the
state store has: the code changes them in different calls, and that they agree
is `RegistryMatchesStore`.

*The queue.* `SessionOperations.run` starts an operation at once when nothing is pending
for the id and behind the last one otherwise. `ops` is that queue, its head the
operation that runs, `phase` the await at which it stands. `Begin*` is an
operation from its start to its first await; `HydrateFound`, `HydrateReads`,
`MetadataFound`, `TruncateAttached`, `Navigated`, `Quiesced`, `Dispose*`, `Delete*`
and `ChildrenClosed` are what follows. `disposing` is the entry in `#disposals`, which
closes the gate in the call of `dispose`, one tick before the operation enters the
queue (`EnterDisposal`).

*The agent.* `attaching`, `starting` and `running` are `#attachBackend`:
the promise callers share, the calls of `createBackend` in flight and the agents that
exist. A client action on a chat without a driver waits for the attempt, and after
it for a disposal that has begun (`waiting`, the set of such calls, `Attached`, `Continue`). `accepted`
and `delivered`, the actions that were and that reached the driver, are histories.

*Abstract.* `SessionIdentity` has four steps: open, save, remove, close. The mapping
takes the removal to last from the durable deletion of the file to the step
that takes the session out of the registry.

*Left out*: titles, summaries and their listeners, models, the catalogue, the
webhook, forks, and what a snapshot contains. The driver is a set of numbers here: what it does
with an action is `ChatDriver`.

### 2.5 ParcelWatchPool, ResourceWatch, ParcelWatchSource

`ParcelWatchPool` is the pool for one canonical root; its users are whoever calls
`acquire`. Entries are numbered as they are made. `stage` is the state of the native
source behind each: it may wait for the previous close (`queued`), open, be open,
close, be closed, or never have opened. `entry` and `closing` are the root's places in
the two maps, `refs` and `broken` the fields of `SharedEntry`. The native source is the
environment: it opens, opens and reports an error at once, fails to open, fails later,
closes or fails to close. When the close of the old source fails, so
does the entry that waited for it (`CloseFails`).

`PoolSpec` is a specification of its own, and `ResourceWatch`, which extends the
module with its watches as users, is shown to implement it. A watch goes
through `phase`: none, checking the path, opening, active, gone. `left` names the entry whose
close the watch's `#pending` promise waits for. `Forget` is the body of
`#release`; `Drop` adds what the pool does in the same call. A step in which a
source fails takes all its active watches with it, as the pool's loop over its
subscribers does; a watch published after the failure is told later (`LateError`).
The users that are not watches are the watchers of changesets, external here.

`told` is a history: the files that exist according to what a watch's channel has
published. `BatchIsNetChange` compares it and the batch with the files there are.

*Left out*: narrow watches (chokidar), path filters, several roots (the pool keeps
nothing across roots). File events are those the native source
delivers, in order.

`ParcelWatchSource` is what is behind one entry of the pool. A directory is the number of its creation, which stands
for the identity `rootIdentity` returns; `root` is the one at the path. `handles` are the native subscriptions by
`generation`, with the directory the addon attached each to. `opening`, `loop` and `check` are the three
coroutines (`open`, the reconcile loop, the search for the cause of a native error). A stat is two steps:
`OpeningLooks`, `LoopLooks` and `CheckLooks` are the moment it sees the path, the handler that uses what it saw comes later, and the root may change
between them. `due` says that the watch of the parent, if it was open at the time, still has to call back about a change. A
native subscription attaches to what is at the path when it answers, which need not be what was seen.
*Left out*: what is reported of files and of the root, and listeners that throw. An unsubscribe
that is rejected takes the path of an error (`LoopUnsubscribed`, `LoopSubscribed`) and is assumed to have released its handle all the same; a root that has no parent. A number is never used again: a
directory that is moved away and back counts as a new one here, while the source compares the same
identity and cannot tell this from no change at all.

### 2.6 History, TurnMapper, Conversation

A conversation has two accounts: what clients were streamed while it ran and what
`rebuildHistory` makes of the session file afterwards. `History` is the second, as a fold
over the entries of the branch (`Absorb` is the body of the loop); `Page`,
`InitialTurnsWindow`, `LoadOlderTurns` and `TargetPage` are the paging, `TruncationAnchor` the entry
a truncation navigates to. `TurnMapper` is the first: each handler returns the mapper after the event
and the actions it emits, and `Reduce` is what a chat does with them. `Conversation` drives
both: pi's steps (`StartRun`, `OpenText`, `EndAssistant`, `StoreResult`, `Retry`, ...) emit events to the
driver's listener (`OnAgentEvents`) and append entries in the order the recorded
fixtures show; `Truncate`, `FetchTurns` and `Restart` read the file back.

Text is a number of deltas, a message its number, a call its id. What is compared
(`Agree`) are turns, their messages, their parts with the amount of text, the
states of calls and turns, and usage; `OwnOmission` names the entry a live turn may lack
because its anchor fell inside the run.

*Left out*: partial results and display text of tools, the numbers in usage, notices of
compaction in the comparison. *Assumed of pi*: it neither streams nor injects after an abort; call
ids are unique and a delta tells them (a provider that tells only at the end of the arguments
takes the path of `event-mapper.ts:524`); a message queued for steering is injected after the
run's first assistant message unless `EarlySteering`; a new prompt waits for pi to be idle, which the driver
sees to (`CancellationSettlesFirst`). `fetchTurns` is called with a cursor. Clearing a
conversation keeps what precedes its first user entry.

### 2.7 TerminalService

A request is a call of `create`: it waits for `stat`, or to be told (`Spawn`, `CreateFails`). `pty[p]` is
a process with what its listeners close over: `read` chunks came from it, `pending` is the batch, `timer`
the flush timer, `cleared` how much a clear took off the screen. `sent[u]` is a history: what was published on
the channel of `u`, in order. `OnData`, `FlushFires`, `OnExit`, `Dispose`, `Shutdown`, `Retitle` and
`Clear` are the handlers; `Grown` and `Emptied` are the batch. A disposal kills the process or, when `kill`
throws (`terminal-service.ts:332-336`, logged), spares it (`Fates`): a spared process has no listener left and ends when it
likes. Output is cut to what is retained by the
reducer's action, abstracted to whole chunks.
*Left out*: input and size (handed to the process), the form of parameters, working directories.

### 2.8 ChangesetService

The promises an entry holds (`probe`, `refresh`, `watchStarting`, `watchClosing`) have a program
counter naming the await each is at. Since the handlers call each other within a tick, they are functions
from one state `st` of the service to the next (`Suspend`, `ScheduleRefresh`, `EnsureWatcher`, `CloseWatcher`, ...).
`disk` is the repository: where the session's directory belongs, the newest commit, the edits. `Inspect` and
`Computed` are the two moments at which a refresh looks at it. The watch is two sources, of the metadata and
of the tree, opened one after the other; a change is noticed (`EventArrives`) only if
its source was open when it happened (`Watched`). `stop` follows the deletion of the session
(suspend, drain, delete, remove or resume) and the shutdown of the service.
*Left out*: Git's output and the reading of files, `readResource`, forks.

### 2.9 ClientActions

`Route` is the turn of an action at the head of its channel's chain: validated, handed to
the registry's router or applied at once. Flags and truncations go through the session's queue
of operations (`ops`), together with loading and disposal; `FlagFound`, `FindFails`, `Attached`,
`Navigate`, `NavigationRefused`, `Navigated` are their awaits. `Answer` commits or rejects and moves
the chain on. A router that applies after an await has not returned yet: `AnswerWithin` is that `apply`,
after which chain and queue still wait for the router, and `RouterSettles` is its return or its failure;
`Failed` is the catch of either router, which rejects only what has not been applied. A crash (`Crash`) keeps the file and leaves the flag either as it was or as it is
being written: `MetadataNamespace.set` renames a temporary file, so there is no third
value. `seen.log` is the history of answers.
*Left out*: queued messages that start turns (`ChatDriver`), the mark `unread` a turn leaves
(`SessionLifecycle`), titles of cold sessions, creation of the id anew after a deletion, clients that send again
after a crash. Only the flag's effect can fail (`session-registry.ts:245-250`), and `apply` does not throw: a commit whose reducer
throws is not modelled; a crash leaves pi's leaf as it is.

## 3. What the runs check

| run | checks | what it shows |
|---|---|---|
| `host_replication` | `ViewIsPrefix`, `Converged`, `SubscriberHoldsView` | through a lost socket, hydration, eviction, replay, deletion and a host restart a client's view has no hole and equals the host's when nothing is in flight, and the host's subscriptions are channels the client holds |
| `host_clients` | `InterestKnown`, `RequestsAnswered` | two clients that replace sockets: counts given to resource owners are right, and under fairness every handshake and subscribe on an open socket is answered |
| `chat_driver` | `OnePromptAtATime`, `CancellationSettlesFirst`, `QuiescenceHolds`, `StrayEventsComeFirst`, `TruncationHoldsClients`, `RunsEnd`, `QueueServed` | turns, cancellations, steering, queue, truncation and two disposals interleave; the backend has one prompt (a run whose turn a truncation dropped apart), quiescence drains, events of a cancelled run can reach its successor only before that is at the backend, a client starts no turn under a truncation; every run ends and every queued message is taken up |
| `session_lifecycle` | `AgentsOwned`, `TurnHasOwner`, `RemovalIsDurable`, `KeepsIdentity`, `ActionsSettle` | creation, loading, lazy agent start, flags, truncation and disposal overlap without a leaked agent, an open turn nobody runs or a resurrected session; the abstract promise is kept and no accepted action waits for ever |
| `watches` | `OneNativeSource`, `OpenSourceIsUsed`, `BatchIsNetChange`, `DisposalDrains`, `PoolSpec`, `CreatesSettle` | two watches and a changeset's watcher share, fail and close a native source: one source per root, none left to nobody, batches add up, dispose drains, every create is answered; no handle is released before its acquire is answered or twice (`PoolSpec`) |
| `parcel_source` | `HandlesReleased`, `SourceSettles` | the root is removed, created and replaced while the source opens, reconciles, fails and closes: one native subscription at a time, always in somebody's hands, none after close; when the path rests the source is attached to what is there, has failed for good or is closed |
| `conversation` | `LiveMatchesFile`, `CursorContinues`, `AnchorKeepsTurn` | through retries, injected messages, tools, failures, cancellations, truncations and restarts the streamed chat is what a rebuild gives; pages continue each other; truncating to a turn keeps exactly what the chat keeps |
| `terminals` | `NoStrayTerminal`, `ScreenComplete`, `OutputThenExit`, `OutputPublished` | one URI created twice at once, written, cleared, exited, disposed of and created again: one process, none forgotten, output complete, in order, before its exit, and published in time |
| `changesets` | `NothingLeft`, `NoWakeUpLost`, `EditsShown`, `SilentWhenSuspended` | probes, refreshes, watches, subscribers, evictions and two disposals overlap: no refresh lost, nothing published under suspension, nothing left behind, and at rest the present work tree is shown |
| `client_actions` | `AnswersInOrder`, `FlagIsOwned`, `ChatFollowsPi`, `ActionsSettle` | two channels' chains and the session's queue against loading, disposal, crashes and routers that fail before or after they apply: answered once and in order, flags on disk as committed, chats that follow pi's branch, nothing stuck |
| `conversation_steering` | `LiveMatchesFile` | **violated**, see below |
| `changesets_head` | `CommitShown` | **violated**, see below |

Each module also states its type invariant `TypeOK`. Those of `AhpHost`, `ChatDriver`, `SessionLifecycle`,
`ResourceWatch`, `ParcelWatchSource`, `TerminalService`, `ClientActions` and `ChangesetService` are proved and so are not listed in a run; that of
`Conversation` can be put under `INVARIANTS` of the module's cfg and holds there. So can the invariants that are proved and not listed
(`RunOwnsActiveTurn`, `NoIdleQueue`, `RegistryMatchesStore`, `OneAgentPerSession`,
`HoldersHaveSource`, `UnwatchedExpires`, `OneConnectionPerClient`). `ReplayLog` has no run: its two
invariants are proved, and a replay with a gap is what `ViewIsPrefix` would find at the clients.

### Disagreements between code and its documentation

Two are shown by runs.

* *Early steering* (`event-mapper.ts:305-315`, run `conversation_steering`): "The live path therefore
  has to do the same" as a reload for messages injected in a run. `onInjectedMessage` takes every
  user message before the first assistant message for the prompt's own, so a steering message
  injected there has no turn live, and one of its own after a reload.
* *Observation before scanning* (`changeset-service.ts:417, 431`, run `changesets_head`): the comment says
  that any event during the scan causes another. The commit the scan compares with was read before, by the
  inspection, and a commit made before the metadata watch opens is neither seen nor
  reported. `EditsShown` holds in the run since the work tree is read after. With two moves of the repository it
  fails in the same window: the repository is moved away before the metadata watch of its old place opens, edited after
  the old place was scanned, and moved back, and nothing has been reported. The run has one move; the theorem
  `EditsAreShown` excludes just this (`WatchSeesMoves`).

These are known as well; for some of them a property says how far they go.

* *Stray events* (`chat-driver.ts:340-342`): events of a cancelled prompt are
  attached to the run started after it, which is already the driver's run while
  it waits for the cancellation. `StrayEventsComeFirst`: only then.
* *Truncation* (`session-registry.ts:744, 877, 886`): "Cannot truncate while a
  turn is active" is tested before the backend navigates; a cancellation that
  settles meanwhile starts the queued message. `TruncationHoldsClients`: no client's own turn starts.
  The action is then committed without another look (`host.ts:808-812`), and the reducer takes the queued message's
  turn from the chat while its run goes on: the summary is idle, as `test/session-summary.test.ts:334-380` shows for
  any truncation, and a client may start the next turn with the first prompt still at the backend. TLC finds this at once when
  `OnePromptAtATime` is stated without `dropped`. `OnePromptAtATime`, `CancellationSettlesFirst` and
  `StrayEventsComeFirst` leave out just these runs.
* *Removal* (`session-registry.ts:473`, `399`): deletion takes
  the file of the live session. When that session was created under the id of an
  older one that was never loaded, the older file stays and the next listing shows
  it. `RemovalIsDurable`: only then.
* *Fresh process* (`host.ts:684`): "Replay is unavailable ... in a fresh host
  process". The code asks whether the client id is in `#clientInfoById`, which
  the first reconnect enters before its reply has left. If that reply is lost
  with the socket, the second reconnect is replayed (`659`), and the client keeps views of
  the old process and a number of its own that may be ahead of the new one's, so that
  later replays skip actions it never had. It takes two lost sockets; the runs have one.
  The theorem `NoHoles` has this as its one proviso, `FirstReplyArrives`.
* *Missing channels* (`test/reconnect.test.ts:174`): a channel is tested when the
  loop reaches it (`host.ts:664-693`). One that is deleted while a later one hydrates is neither
  in the snapshots nor reported missing; where `store.delete` alone removes it, the subscription stays and the
  client is not told. It takes two channels besides the root, and the run has one;
  `SubscribersKnow` is about any number and says that this (`orphaned`) is the only way.
* *Steering* (`chat-driver.ts:234-236`): one remembered id stands for all steering
  messages; when one fails or is consumed another one's pending entry is cleared.
* *Recomputing* (`changeset-service.ts:102, 311-319`): the eviction timer leaves the channel in `#completed`; hydrated
  again it is announced as recomputing and holds no snapshot.
* *Second removal* (`parcel-watch-source.ts:213-215`): "A second removal during subscribe is not a permanent failure". A
  directory that is created again before the stat that follows makes it one. Likewise the stat after a
  native error (`128-131`) may end after a reconciliation has moved on to the new directory, and the error of the old
  subscription then ends the source. `SourceSettles` allows both: a source that fails says so.
* *Shutdown* (`terminal-service.ts:109, 148, 196`): "Kills every PTY". A create that waits for `stat` does not look
  at `#closed` again: its process is spawned after the shutdown and has an entry that no shutdown will
  dispose of. `NoStrayTerminal` holds there too, since it asks for an entry and a channel behind
  each process, not for the absence of one; its statement about the catalogue is for the time before.

### Bounds

* `MaxSeq`, `MaxIncs`, `MaxLosses`, `MaxRestarts` bound counters in the guards of
  AhpHost. Two numbers over a buffer of one make an eviction and a replay of
  what is left; two incarnations let the hydrator create the second channel;
  one loss gives a reconnect with the old socket's close outstanding.
  One restart gives a client that holds numbers of the old process.
  `host_clients` has no numbers, since its properties do not look at them.
* `ChatDriver`: three messages give a run, its successor and a queued or a
  steering message at once; two disposals let the second meet what the first one
  left.
* `SessionLifecycle`: two sessions bear the id one after the other (and a file from before),
  so what is late can meet a successor; two disposals, one of which may fail; two
  pending operations when a request arrives, a third (a turn's unread mark or the
  deferred disposal) may join; two client actions, so one can start a turn and another
  cancel it.
* `ResourceWatch`: three entries, so that one can be open or queued while its predecessor closes
  and a third follows; two watches, which can be the first and the last to leave,
  and a user that is not a watch; two clients, so that one of them leaving is not the last;
  one path, since paths are independent of each other in a batch.
* `ParcelWatchSource`: three directories, so that the root can be replaced again while the source
  moves from the first to the second, and a subscription for each: the source asks for no more than
  that, and if it did, `SourceSettles` would fail. One event that may concern the root and need not: without a bound they could
  keep the loop, and with it `open`, busy for ever.
* `Conversation`: two messages (a prompt and a queued or steering one, or two prompts), four entries after those the file held (`Files`: empty;
  a whole turn; a turn followed by a compaction or an edit), two blocks of two deltas, one reading-back; pages of two turns, so that there is an older page.
* `TerminalService`: two processes and two requests for one URI, so that the second can meet the first before,
  during and after; three chunks over a threshold of two, two of them retained.
* `ChangesetService`: one repository to belong to or none, one edit, one commit, one move and one
  subscriber per channel; the two disposals meet all of it. 3 million states.
* `ClientActions`: three actions (two on one channel and one on the other, or three in a chain), one turn, one disposal, one
  crash, after which the session is loaded again.
* Symmetry: connections, clients and the like are interchangeable. Runs with a liveness
  property use no symmetry. The view `MCView` hides the result that a handler prepares for a
  socket that is gone: `SendReply` drops it, and nothing else reads it, so
  states that differ in it have the same futures, and no property of those
  runs looks at it.

### Fairness

* AhpHost `FairSpec`: weak fairness of each connection's handler steps (the event
  loop runs what is ready, a hydration, a bounded sequence of file
  operations, settles) and of each client's receive (an open socket delivers).
  Nothing is assumed of clients' requests, of losses or of commits.
* ChatDriver `FairSpec`: weak fairness of every prompt operation's, steer's and
  cancellation's steps, of the truncation's end and of the disposal. For the
  backend calls this says that `prompt`, `steer`, `abort` and `truncate`
  settle; the driver itself waits for them without a timeout. Nothing is
  assumed of client actions or of pi's injections.
* SessionLifecycle `FairSpec`: weak fairness of the operation at the head of the queue (its
  file operations, pi's navigation and the quiescence settle, and the queue's
  continuation runs), of the deferred entry of a disposal, and of each agent start.
  Nothing is assumed of requests, of turns or of pi's writes.

* ResourceWatch `FairSpec`: weak fairness of a creation's continuations, of grace timers and late
  errors, of what the native source answers (opening and closing settle) and of the
  end of the disposal. Nothing is assumed of requests, subscribers, files or failures, nor of the
  users that are not watches.

* ParcelWatchSource: weak fairness of what is awaited (stats look, the addon answers), of the continuations
  and of the parent's pending event. Nothing is assumed of the file system, errors or `close`.
* TerminalService: weak fairness of flush timers and of the exit of a killed process. Nothing is assumed of
  output, requests or the file system.
* ClientActions: weak fairness of the operation at the head of the session's queue and of the chain of each
  channel. Nothing is assumed of clients, turns, disposals or crashes.
* Conversation and ChangesetService have safety properties only; the temporal check of an instance
  with both changeset channels was too large for TLC, so that every suspension drains is not checked.

### Deadlock

Checked in the runs of `AhpHost` and `ChatDriver`. `ChatDriver` has a stutter `Gone` for a disposed
driver, the one state from which nothing can happen. In `SessionLifecycle` the bounded
requests may all be used up, and the system is then at rest as it should be. So it
is in `ResourceWatch` once the service is disposed and no other user holds a source, and in
the others when the bounded requests are used up.

## 4. What is proved

All theorems are for every value of the constants, under the named assumptions
(`CapacityAssumption`, `HostAssumption`, `DriverAssumption`,
`LifecycleAssumption`, `PoolAssumption`, `WatchAssumption`, `SourceAssumption`, `SizesAssumption`, `BoundsAssumption`), which say
that the "absent" values are not members of the sets they mark, that bounds
are numbers, and that the pool's users are finitely many and include the watches.

* `AhpHost_proofs`, of `ReplayLog`: `BufferCorrect`, `ReplaysComplete`. The log's position equals its
  number and the buffer is its suffix of length min(serverSeq, capacity); this is
  inductive as it stands with the types. Completeness of a replay follows
  from it: if the first buffered number is at most lastSeen + 1, every later
  log position is in the buffer.
* `AhpHost_proofs`, of `AhpHost`: `ClientsConnectOnce`, `CountsKnown`, `TypesHold`. `InterestKnown` is not
  inductive: while a replaced connection still has to report its close the count
  of its channels may be wrong. `CountInv` says for which channels (`Stale`),
  and that a connection before its handshake has no subscriptions.
  `HandlersBound` (an attached connection that runs a handler is bound to a
  client) is needed so that a handler that resumes cannot subscribe an attached
  connection that no close event will be due for. Above this `HostInv` the module has three more layers,
  each inductive given those before it, which the theorems about replicas need.
  `DataInv` are the types, and that no number, incarnation or process that is mentioned anywhere lies in
  the future. `KeptInv` is the host's memory: the buffer is the end of what was emitted in this process, and
  two channels that bore one URI have different incarnations. `SocketInv` is the socket between a client and its
  handler: one request is outstanding at most, what waits for it is told by the client's state, actions
  on the wire are in the order of their numbers, and what was set aside comes before what is on
  the wire.
* `AhpHost_proofs`, of the clients' replicas: `SubscribersKnow`, `NoHoles`, `ConvergesAtRest`, `OneProcessNoHoles`, the properties
  `host_replication` checks, for any number of clients, sockets, channels, losses and restarts and any capacity.
  None is inductive, since a view is right only together with what is on its way.
  `HeldInv` says for each phase of a handshake or subscribe what the client will know once the
  answer arrives: the subscriptions of the connection are channels it holds or will find in the
  answer. `ReplicaInv` follows a channel's actions: the view is the host's state up to some number (`PrefixOf`), no
  later action it may still meet is foreign to that state (`Sound`), and each one that it lacks is on the wire, set aside, or in the
  answer to come (`Complete`), whether the request has not been read, is collecting, is
  answered and not sent, or is sent; a reconnect that will be replayed has asked from a number below which
  the client lacks nothing of what it holds (`SeenInv`).
  `FirstReplyArrives`, the proviso of `NoHoles` and `ConvergesAtRest`, is the disagreement *Fresh process*: a
  client that this process knows has heard from it or still waits for the handshake's reply. It holds in every
  behaviour in which no first reply after a restart is lost, and the run `host_replication` (one loss)
  needs no proviso, nor does a process that is never restarted: that is `OneProcessNoHoles`.
* `ChatDriver_proofs`: all safety properties of `chat_driver`, `RunOwnsActiveTurn`, `NoIdleQueue` and the types. The core of the invariant has three
  parts: the types, `ChatInv` (run, turn, queue and history of sent messages fit
  together, so that a message never begins twice) and `PromptInv` (cancellations
  settle in order and the newest holds the barrier; the current run is past all
  of them once it is at the backend; any other operation at the backend is aborted
  and the target of an unsettled cancellation).
  They are operators of the values they are about, so that the state half-way
  through a handler, after it finished a run and before it takes the next queued
  message, can be named: `ConsumeNextInv` is then one lemma for four handlers.
  `StrayOutputComesFirst` needs on top of them that a run that is live before every
  cancellation has settled still stands at its first await (`WaitInv`), and `OnlyTheQueueGoesOn`, an action
  property, that a truncation excludes a disposal (`TruncationInv`). A run in `dropped` may be without its
  turn, and then everything said of the other runs still holds.
* `SessionLifecycle_proofs`: `RegistryAgrees`, `NoStrayAgents`, `SingleAgents`,
  `RefinesIdentity`, `TypesHold`, `TurnsAreOwned` and `DeletionsLast`. The invariant has four parts: the registry and the store are one
  number (`RegistryInv`); an agent is starting exactly while the session's attempt is
  shared, and runs exactly for the driver of the live session (`AgentInv`); only the
  head of the queue has left the start, there is at most one disposal in it and the
  gate is closed while there is (`QueueInv`); and what the head has found out still
  holds although others have acted since (`HeadInv`): the file it read exists, the
  session it disposes is still the live one, no turn is active once the file
  goes. The last two are what makes the refinement true: each step opens, saves, removes, closes or
  stutters (`NextIdentity`), and a removal is never followed by a load
  because the only operation that runs is the disposal. `OwnerInv` carries `TurnsAreOwned` across the
  two awaits of a client action: a call that waits for an agent has one coming up, a call that waits for a
  disposal has one under way, and the turn in progress is the driver's or such a call's. `FilesInv` carries
  `DeletionsLast`: but for the file that was there first, the only file is the live session's, and
  none is left once its removal has begun.
* `ResourceWatch_proofs`, the pool: `OneSourcePerRoot`, `SourcesOutliveUse`, `SourcesAreUsed`. None of the
  three is inductive. `EntryInv` says that only the current entry is queued, opening or open,
  that it is queued exactly while a close is pending, and that at most one is; `UserInv`
  that all users are users of the current entry and at which stage; `CountInv` that `refs` is
  the cardinality of the users of the entry, which a release must reach zero with.
* `ResourceWatch_proofs`, the service: `ServiceUsesPool` shows each step to be one of the pool or to leave it
  alone, so the pool's invariant can be used in the proof of the service's own: `WatchTypesOK`,
  `UnwatchedAlwaysExpires`, `BatchesAreNetChanges`, `DisposalAlwaysDrains`. Added to it are
  `PhaseInv` (only an opening or active watch is in the pool, and an active one holds
  its source) and `DrainInv` (after dispose has begun, what is still pending
  is among what it waits for, and nothing is active).
* `ParcelWatchSource_proofs`: `SourceTypes`, `NoHandleLeft`. Added to `HandlesReleased` is which coroutine may
  be where: the loop runs only once `open` is at its first check, `#native` is empty while the loop is between two subscriptions or
  `open` waits for the first, a generation is used once, and closing excludes opening (`OpeningInv`, `LoopInv`,
  `ClosingInv`, `FreshAbove`). A tick may end a pass, end `open`, and start the next pass; `Resting` is the state
  between these, and one lemma for each of `Continue`, `OpenEnds`, `OpenThrows`, `LoopThrows`, `Fail` and `Request` serves
  all handlers that end in them.
* `TerminalService_proofs`: `TerminalTypes`, `NoTerminalStrays`, `ScreenIsAlwaysComplete` and `OutputIsThenExit`,
  all safety properties of `terminals`. `NoStrayTerminal` is inductive with the types and `IdleInv` (what is
  not running has nothing waiting). `ScreenInv` is the arithmetic behind `ScreenComplete`: the batch is the
  end of what the process wrote, and the screen the end, as far as it is retained, of what was written before the batch and since
  the last clear; a threshold, a flush, an exit and a clear all move that boundary. `SentInv` adds for
  `OutputThenExit` that what a channel was told of a process lies before its batch, that an exit is told
  only of a process that no longer runs, and that while a process has its entry nobody else speaks after
  it. `Changes` (one entry's record and state change) and `GoesOn` (records only publish more and never
  start again) let one lemma serve most handlers.
* `ClientActions_proofs`: `TypesHold`, `AnsweredInOrder`, `FlagsAreOwned`, `ChatsFollowPi`, all safety properties of
  `client_actions`. None of the three properties is inductive: what keeps them is the agreement of two queues that
  know nothing of each other, the chain of each channel (`host.ts`) and the operations of the session
  (`session-operations.ts`). `ChainInv` says that what waits in a chain was sent after all that was
  answered; `QueueInv` that an operation an action entered is about the first unanswered action of its
  chain, or about the one just answered until its router is done, so that each channel has at most one; `BusyInv` that no turn runs while a
  truncation has pi move; `CutInv` that what a crash cut off had been sent. The parts take the values they are about as parameters, since
  a handler may answer an action, take its operation off the queue and start the next
  action of the chain in one step: `AnswerKeeps` and `BeginKeeps` are each about one of these, with the premises of a handler in `Ready`.
* `ChangesetService_proofs`: `TypesHold`, `NothingStaysBehind`, `WakeUpsKept`, `SuspendedIsSilent`, `EditsAreShown`,
  `EditsShownOfOneMove`, all that `changesets` checks. The handlers are functions of the entry's state
  that call each other, so the invariant `Good` is about such a state, also half-way through a handler: each
  function has a lemma, and each action one that says what it keeps (`Keeps`, `Follows`). `Base`
  is about the watch, the channels and suspension: a watch being opened or closed leaves no other standing, and under suspension all
  that runs is aborted. `LoopInv` ties the loop to the watch: it waits for the opening exactly while there
  is one. `InterestInv` is `WakeUpsKept` for each phase of the loop: a channel shown as computing to a
  subscriber is still among the jobs, or another pass is due. `StopInv` says what a disposal that
  has passed a wait may rely on from then on, which is what `NothingStaysBehind` needs. `EditInv` follows
  the work tree along the way it takes to the client: what is being opened, what is scanned and what is shown each
  belong to the repository as it is, or an event or a pass is still to come, or the repository has left for good. It is kept by every step but
  one, the opening of the metadata watch on a repository that has moved since its inspection and will move
  again; `WatchSeesMoves` says that this step does not occur. `Located` shows that with one move it
  cannot, so `EditsShownOfOneMove` has no proviso.

Only model-checked: the three properties of `Conversation`, whose operators are recursive over a file of any length, and the
liveness properties (`RequestsAnswered`, `RunsEnd`, `QueueServed`, `ActionsSettle`, `CreatesSettle`, `SourceSettles`,
`OutputPublished`), which are out of the prover's reach as is ENABLED.

## 5. What is not modelled, and why

* The chokidar source, a thin wrapper. The pool is not composed with `ParcelWatchSource`: it has what a
  source answers (opens, is refused, fails early or late, closes).
* Catalogue and storage of sessions, webhooks, the enumeration of metadata: see the plan.
* Conversion of messages and images, models, completions, configuration, activity
  strings, client workarounds: pure functions of text.
* Transport, tunnel, command line, settings: I/O and composition. AhpHost models
  what a socket does to frames.

## 6. Plan

1. Done. `AhpHost` with its clients, and its proofs.
2. Done. `ChatDriver` with the pi backend as an external process, and its proofs.
3. Done. `SessionLifecycle`: registry, operations, hydrator and disposal, its refinement of `SessionIdentity` and its proofs.
4. Done. `ClientActions`: pending chain, routers, effects, metadata persistence, and its proofs.
5. Done. `ParcelWatchPool`, `ResourceWatch` and their proofs, `TerminalService`, `ChangesetService`
   and `ParcelWatchSource`, each with its proofs.
6. Done. `History`, `TurnMapper`, `Conversation`: the live account against the rebuilt one.
7. To come: `Webhooks` (persistence before memory) and the paging of the session catalogue.
