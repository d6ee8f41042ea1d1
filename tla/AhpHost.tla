------------------------------- MODULE AhpHost -------------------------------
(***************************************************************************)
(* core/host.ts with core/connection.ts and core/state-store.ts: the       *)
(* handshake, subscriptions, the commit path and its broadcast, together   *)
(* with clients that lose and replace their sockets.                       *)
(*                                                                         *)
(* A request handler is a coroutine. It runs atomically up to an await on  *)
(* the channel hydrator, resumes later, fixes its result, and the result   *)
(* is sent some promise ticks after that. Everything else the host does    *)
(* may happen in between.                                                  *)
(*                                                                         *)
(* A channel state is the set of sequence numbers reduced into it since it *)
(* was created: two replicas agree exactly when the sets do. `inc' tells   *)
(* apart the successive channels that bore the same URI.                   *)
(***************************************************************************)
EXTENDS Sequencer, FiniteSets

CONSTANTS
    Root,           \* ROOT_CHANNEL
    Clients,        \* AHP client ids
    Conns,          \* sockets; one may be reused when nothing is left of it
    NoClient,       \* the clientId "" before the handshake
    NoConn,         \* the client has no socket
    MaxSeq,         \* bound on serverSeq
    MaxIncs,        \* bound on channel creations
    MaxLosses,      \* bound on broken links
    MaxRestarts     \* bound on host restarts

ASSUME HostAssumption ==
    /\ Root \in Channels
    /\ NoClient \notin Clients
    /\ NoConn \notin Conns
    /\ MaxSeq \in Nat /\ MaxIncs \in Nat /\ MaxLosses \in Nat /\ MaxRestarts \in Nat

VARIABLES
    store,          \* StateStore.#channels
    attached,       \* AhpHost.#connections
    clientOf,       \* ClientConnection.clientId
    subs,           \* ClientConnection.subscriptions
    known,          \* the keys of AhpHost.#clientInfoById
    told,           \* the last count given to SubscriberCountListeners
    request,        \* the suspended handler of each connection
    up,             \* sockets whose two ends still reach each other
    wire,           \* frames sent and not yet received
    incs,           \* history: channels created so far
    losses,         \* history: links broken so far
    process,        \* history: host restarts so far
    orphaned,       \* history: what was dropped under the reconnect of each connection
    link, waiting, lastSeen, view, early, seenIn    \* the clients, see below

hostVars == <<store, attached, clientOf, subs, known, told, request>>
netVars == <<up, wire>>
histVars == <<incs, losses, process, orphaned>>
clientVars == <<link, waiting, lastSeen, view, early, seenIn>>
vars == <<seqVars, hostVars, netVars, histVars, clientVars>>

-----------------------------------------------------------------------------
(* Data *)

ChannelEntry == [live : BOOLEAN, inc : Nat, state : SUBSET Nat]
NoEntry == [live |-> FALSE, inc |-> 0, state |-> {}]

Snapshot == [channel : Channels, inc : Nat, state : SUBSET Nat, fromSeq : Nat]

\* Sequencer.current
CurrentSeq == serverSeq

\* store.snapshot(uri, sequencer.current)
SnapshotOf(c) ==
    [channel |-> c, inc |-> store[c].inc, state |-> store[c].state, fromSeq |-> CurrentSeq]

\* kind: the method, or "none" when the connection has no handler.
\* phase: "hydrating" awaits the hydrator for the head of todo, "resumed" has
\* its answer, "reply" has fixed the result that the remaining fields describe.
Request == [kind : {"none", "initialize", "reconnect", "subscribe"},
            phase : {"hydrating", "resumed", "reply"},
            todo : Seq(Channels), lastSeen : Nat, isKnown : BOOLEAN, hydrated : BOOLEAN,
            missing : SUBSET Channels, snaps : SUBSET Snapshot, actions : SUBSET Envelope,
            mode : {"snapshot", "replay", "error"}, current : Nat]

NoRequest == [kind |-> "none", phase |-> "reply", todo |-> <<>>, lastSeen |-> 0,
              isKnown |-> FALSE, hydrated |-> FALSE, missing |-> {}, snaps |-> {}, actions |-> {},
              mode |-> "error", current |-> 0]

\* A client's replica of a channel; upto is the last number it accounts for.
View == [held : BOOLEAN, inc : Nat, state : SUBSET Nat, upto : Nat]
NoView == [held |-> FALSE, inc |-> 0, state |-> {}, upto |-> 0]

Frame == [type : {"action"}, envelope : Envelope] \cup [type : {"reply"}, reply : Request]

Live(c) == store[c].live

Max0(S) == CHOOSE n \in S \cup {0} : \A m \in S : m <= n

\* subscriberCount in a state described by these connections and subscriptions.
Subscribers(conns, sub, c) == {k \in conns : c \in sub[k]}
SubscriberCount(c) == Cardinality(Subscribers(attached, subs, c))

\* Mutant: counts before the change is made.
NotifyTooSoon(cs) ==
    told' = [c \in Channels |-> IF c \in cs THEN SubscriberCount(c) ELSE told[c]]

\* #notifySubscriberCount for each channel of cs, against the next state.
Notify(cs) ==
    told' = [c \in Channels |-> IF c \in cs THEN Cardinality(Subscribers(attached', subs', c)) ELSE told[c]]

-----------------------------------------------------------------------------
(* Sending *)

\* transport.send drops frames for a socket that is no longer open.
SendTo(conns, frame) ==
    wire' = [k \in Conns |-> IF k \in conns /\ up[k] THEN Append(wire[k], frame) ELSE wire[k]]

\* Mutant: leaves out connections that still wait for an answer.
BroadcastToAnswered(c, accepted) ==
    SendTo({k \in Subscribers(attached, subs, c) : request[k].kind = "none"},
           [type |-> "action", envelope |-> NextEnvelope(c, accepted)])

\* #broadcast of the envelope that Emit allocates in the same step.
Broadcast(c, accepted) ==
    SendTo(Subscribers(attached, subs, c),
           [type |-> "action", envelope |-> NextEnvelope(c, accepted)])

-----------------------------------------------------------------------------
(* Actions: the single write path *)

\* #commit: reduce if the channel is in memory, sequence, retain, broadcast.
\* A client's metadata action on a durable-only session has no state to reduce.
Commit(c) ==
    /\ serverSeq < MaxSeq
    /\ Emit(c, TRUE)
    /\ store' = IF Live(c) THEN [store EXCEPT ![c].state = @ \cup {serverSeq + 1}] ELSE store
    /\ Broadcast(c, TRUE)
    /\ UNCHANGED <<attached, clientOf, subs, known, told, request, up, histVars, clientVars>>

\* #rejectAction: sequenced and broadcast like a commit, but never reduced.
RejectAction(c) ==
    /\ serverSeq < MaxSeq
    /\ Emit(c, FALSE)
    /\ Broadcast(c, FALSE)
    /\ UNCHANGED <<hostVars, up, histVars, clientVars>>

-----------------------------------------------------------------------------
(* Channels coming and going on behalf of the capability handlers *)

\* StateStore.create
Create(c) ==
    /\ incs < MaxIncs
    /\ store' = [store EXCEPT ![c] = [live |-> TRUE, inc |-> incs + 1, state |-> {}]]
    /\ incs' = incs + 1

\* createSession, createTerminal, createResourceWatch.
CreateChannel(c) ==
    /\ ~Live(c)
    /\ Create(c)
    /\ UNCHANGED <<seqVars, attached, clientOf, subs, known, told, request, netVars,
                   losses, process, orphaned, clientVars>>

\* deleteChannel: the entry goes and every attached connection is released.
DeleteChannel(c) ==
    /\ c # Root /\ Live(c)
    /\ store' = [store EXCEPT ![c] = NoEntry]
    /\ subs' = [k \in Conns |-> IF k \in attached THEN subs[k] \ {c} ELSE subs[k]]
    /\ UNCHANGED attached
    /\ IF Subscribers(attached, subs, c) # {} THEN Notify({c}) ELSE UNCHANGED told
    /\ UNCHANGED <<seqVars, clientOf, known, request, netVars, histVars, clientVars>>

\* The reconnect of k has subscribed c and has not fixed its result.
Resuming(k, c) == request[k].kind = "reconnect" /\ request[k].phase # "reply" /\ c \in subs[k]

\* The terminal and watch services call store.delete: subscriptions stay.
DropChannel(c) ==
    /\ c # Root /\ Live(c)
    /\ store' = [store EXCEPT ![c] = NoEntry]
    /\ orphaned' = [k \in Conns |-> IF Resuming(k, c) THEN orphaned[k] \cup {c} ELSE orphaned[k]]
    /\ UNCHANGED <<seqVars, attached, clientOf, subs, known, told, request, netVars,
                   incs, losses, process, clientVars>>

-----------------------------------------------------------------------------
(* Connections *)

\* accept: a new ClientConnection. The socket of a finished one may be reused.
Accept(client, k) ==
    /\ link[client] = NoConn
    /\ k \notin attached /\ clientOf[k] = NoClient /\ ~up[k] /\ request[k].kind = "none"
    /\ \A other \in Clients : link[other] # k
    /\ attached' = attached \cup {k}
    /\ clientOf' = [clientOf EXCEPT ![k] = NoClient]
    /\ subs' = [subs EXCEPT ![k] = {}]
    /\ up' = [up EXCEPT ![k] = TRUE]
    /\ link' = [link EXCEPT ![client] = k]
    /\ orphaned' = [orphaned EXCEPT ![k] = {}]
    /\ UNCHANGED <<seqVars, store, known, told, request, wire, incs, losses, process,
                   waiting, lastSeen, view, early, seenIn>>

\* The network path breaks: the client notices, the host does not yet.
LoseLink(client) ==
    /\ link[client] # NoConn /\ losses < MaxLosses
    /\ losses' = losses + 1
    /\ up' = [up EXCEPT ![link[client]] = FALSE]
    /\ wire' = [wire EXCEPT ![link[client]] = <<>>]
    /\ link' = [link EXCEPT ![client] = NoConn]
    /\ waiting' = [waiting EXCEPT ![client] = "none"]
    /\ early' = [early EXCEPT ![client] = {}]
    /\ UNCHANGED <<seqVars, hostVars, incs, process, orphaned, lastSeen, view, seenIn>>

\* transport.onClose: also runs for a connection that bindClient has replaced.
\* From here on only a suspended handler still holds the connection, and what
\* it sends is dropped: clientOf and subs are reset to let k stand for another.
OnClose(k) ==
    /\ ~up[k] /\ (k \in attached \/ clientOf[k] # NoClient)
    /\ attached' = attached \ {k}
    /\ subs' = [subs EXCEPT ![k] = {}]
    /\ Notify(subs[k])
    /\ clientOf' = [clientOf EXCEPT ![k] = NoClient]
    /\ UNCHANGED <<seqVars, store, known, request, netVars, histVars, clientVars>>

-----------------------------------------------------------------------------
(* Handshake and subscribe handlers *)

\* How many leading channels of todo are in the store: they are subscribed
\* without an await.
Prefix(todo) ==
    CHOOSE n \in 0..Len(todo) :
        /\ \A i \in 1..n : Live(todo[i])
        /\ n < Len(todo) => ~Live(todo[n + 1])

\* The result of a handler whose list is exhausted.
Finish(req, sub) ==
    IF req.kind = "reconnect" THEN
        IF req.isKnown /\ CanReplayFrom(req.lastSeen)
        THEN [req EXCEPT !.mode = "replay", !.actions = ReplayFrom(req.lastSeen, sub)]
        ELSE [req EXCEPT !.mode = "snapshot", !.missing = {},
                         !.snaps = {SnapshotOf(c) : c \in {d \in sub : Live(d)}}]
    ELSE [req EXCEPT !.mode = "snapshot", !.current = CurrentSeq]

\* The body of the handlers' loop from the current position to the next await
\* or to the end: subscribe the leading live channels and either wait for the
\* hydrator or fix the result. sub is this connection's set before the loop.
Proceed(k, req, sub) ==
    LET n == Prefix(req.todo)
        reached == {req.todo[i] : i \in 1..n}
        newSub == sub \cup reached
        visited == [req EXCEPT !.todo = SubSeq(req.todo, n + 1, Len(req.todo)),
                               !.snaps = IF req.kind = "reconnect" THEN {}
                                         ELSE @ \cup {SnapshotOf(c) : c \in reached}]
    IN  /\ subs' = [subs EXCEPT ![k] = newSub]
        /\ Notify(newSub \ sub)
        /\ request' = [request EXCEPT ![k] =
               IF n < Len(req.todo)
               THEN [visited EXCEPT !.phase = "hydrating"]
               ELSE [Finish(visited, newSub) EXCEPT !.phase = "reply"]]

\* bindClient: an older connection of the same client is dropped and closed.
Previous(client, k) == {p \in attached : p # k /\ clientOf[p] = client}

BindClient(client, k) ==
    LET previous == Previous(client, k) IN
    /\ attached' = attached \ previous
    /\ clientOf' = [clientOf EXCEPT ![k] = client]
    /\ up' = [p \in Conns |-> up[p] /\ p \notin previous]
    /\ wire' = [p \in Conns |-> IF p \in previous THEN <<>> ELSE wire[p]]
    /\ known' = known \cup {client}

\* Any order in which a client may list a finite set of channels.
Orders(S) ==
    {f \in [1..Cardinality(S) -> S] :
        IsFiniteSet(S) /\ \A c \in S : \E i \in DOMAIN f : \A j \in DOMAIN f : f[j] = c <=> j = i}

\* The first request on a connection.
Handshake(client, req) ==
    LET k == link[client] IN
    /\ k # NoConn /\ clientOf[k] = NoClient
    /\ k \in attached /\ request[k].kind = "none"
    /\ BindClient(client, k)
    /\ Proceed(k, req, {})
    /\ waiting' = [waiting EXCEPT ![client] = "handshake"]
    /\ UNCHANGED <<seqVars, store, histVars, link, lastSeen, view, early, seenIn>>

Initialize(client, S) ==
    \E todo \in Orders(S) :
        Handshake(client, [NoRequest EXCEPT !.kind = "initialize", !.todo = todo])

\* A client resumes with what it holds and the last number it processed.
Reconnect(client) ==
    LET held == {c \in Channels : view[client][c].held} IN
    \E todo \in Orders(held) :
        Handshake(client, [NoRequest EXCEPT !.kind = "reconnect", !.todo = todo,
                                            !.lastSeen = lastSeen[client], !.isKnown = client \in known])

\* A bound client with no request outstanding.
Idle(client) ==
    /\ link[client] # NoConn /\ waiting[client] = "none"
    /\ clientOf[link[client]] = client

\* #subscribe up to its await; without one it fixes its result at once.
Subscribe(client, c) ==
    LET k == link[client] IN
    /\ Idle(client) /\ ~view[client][c].held
    /\ waiting' = [waiting EXCEPT ![client] = "subscribe"]
    /\ UNCHANGED attached
    /\ Proceed(k, [NoRequest EXCEPT !.kind = "subscribe", !.todo = <<c>>], subs[k])
    /\ UNCHANGED <<seqVars, store, clientOf, known, netVars, histVars,
                   link, lastSeen, view, early, seenIn>>

\* The "unsubscribe" notification.
Unsubscribe(client, c) ==
    LET k == link[client] IN
    /\ Idle(client) /\ view[client][c].held
    /\ subs' = [subs EXCEPT ![k] = @ \ {c}]
    /\ UNCHANGED attached
    /\ Notify({c})
    /\ view' = [view EXCEPT ![client][c] = NoView]
    /\ UNCHANGED <<seqVars, store, clientOf, known, request, netVars, histVars,
                   link, waiting, lastSeen, early, seenIn>>

\* The hydrator answers: it has put the channel into the store, somebody else
\* has, or the channel cannot be loaded. A chat and its session are loaded as
\* a pair, but each is a channel of its own here.
HydrationSettles(k) ==
    /\ request[k].kind # "none" /\ request[k].phase = "hydrating"
    /\ \E hydrated \in BOOLEAN :
          /\ \/ /\ hydrated /\ ~Live(Head(request[k].todo))
                /\ Create(Head(request[k].todo))
             \/ /\ hydrated => Live(Head(request[k].todo))
                /\ UNCHANGED <<store, incs>>
          /\ request' = [request EXCEPT ![k].phase = "resumed", ![k].hydrated = hydrated]
    /\ UNCHANGED <<seqVars, attached, clientOf, subs, known, told, netVars, losses, process, orphaned, clientVars>>

\* Mutant: subscribes before it knows that the channel exists.
SubscribeMissing(k, c) ==
    Proceed(k, [request[k] EXCEPT !.todo = Tail(@), !.missing = @ \cup {c}], subs[k] \cup {c})

\* A handshake goes on with the next channel; only a reconnect reports c.
SkipMissing(k, c) ==
    Proceed(k, [request[k] EXCEPT !.todo = Tail(@), !.missing = @ \cup {c}], subs[k])

\* The handler continues after the await and looks at the store again.
ResumeHandler(k) ==
    LET req == request[k]
        c == Head(req.todo)
    IN  /\ req.kind # "none" /\ req.phase = "resumed"
        /\ UNCHANGED attached
        /\ \/ /\ req.kind = "subscribe" /\ ~req.hydrated
              /\ request' = [request EXCEPT ![k].phase = "reply", ![k].todo = <<>>, ![k].mode = "error"]
              /\ UNCHANGED <<subs, told>>
           \/ /\ Live(c) /\ (req.kind = "subscribe" => req.hydrated)
              /\ Proceed(k, req, subs[k])
           \/ /\ ~Live(c) /\ (req.kind = "subscribe" => req.hydrated)
              /\ SkipMissing(k, c)
        /\ UNCHANGED <<seqVars, store, clientOf, known, netVars, histVars, clientVars>>

\* Mutant: a handler that fails does not answer.
SendSuccess(k) ==
    /\ request[k].kind # "none" /\ request[k].phase = "reply" /\ request[k].mode # "error"
    /\ SendTo({k}, [type |-> "reply", reply |-> request[k]])
    /\ request' = [request EXCEPT ![k] = NoRequest]
    /\ UNCHANGED <<seqVars, store, attached, clientOf, subs, known, told, up, histVars, clientVars>>

\* #handleRequest: the response leaves some ticks after the result was fixed.
SendReply(k) ==
    /\ request[k].kind # "none" /\ request[k].phase = "reply"
    /\ SendTo({k}, [type |-> "reply", reply |-> request[k]])
    /\ request' = [request EXCEPT ![k] = NoRequest]
    /\ UNCHANGED <<seqVars, store, attached, clientOf, subs, known, told, up, histVars, clientVars>>

-----------------------------------------------------------------------------
(* The clients. They are not part of the repository: this is the weakest    *)
(* client the protocol's data allows to converge. It keeps one request      *)
(* outstanding, sets actions aside until it has the handshake reply and a   *)
(* snapshot of the channel, and applies a number to a channel only once.    *)

\* Applies the envelopes of E for channel c that are newer than the view.
ApplyTo(v, c, E) ==
    LET new == {e \in E : e.channel = c /\ e.serverSeq > v.upto} IN
    IF v.held
    THEN [v EXCEPT !.state = @ \cup {e.serverSeq : e \in {f \in new : f.accepted}},
                   !.upto = Max0({@} \cup {e.serverSeq : e \in new})]
    ELSE v

\* A snapshot replaces a view.
Adopt(v, c, snaps) ==
    IF \E s \in snaps : s.channel = c
    THEN LET s == CHOOSE t \in snaps : t.channel = c
         IN  [held |-> TRUE, inc |-> s.inc, state |-> s.state, upto |-> s.fromSeq]
    ELSE v

\* What a reply leaves the client with, before the actions set aside.
Base(client, reply) ==
    [c \in Channels |->
        CASE reply.kind = "subscribe" -> Adopt(view[client][c], c, reply.snaps)
          [] reply.kind # "subscribe" /\ reply.mode = "snapshot" -> Adopt(NoView, c, reply.snaps)
          [] OTHER -> IF c \in reply.missing THEN NoView
                      ELSE ApplyTo(view[client][c], c, reply.actions)]

Seqs(E) == {e.serverSeq : e \in E}

\* The last number processed, after a reply and the actions set aside.
SeenAfter(client, reply) ==
    LET aside == Seqs(early[client]) IN
    CASE reply.kind = "subscribe" -> lastSeen[client]
      [] reply.kind = "initialize" -> Max0({reply.current} \cup aside)
      [] reply.kind = "reconnect" /\ reply.mode = "snapshot" ->
             Max0({s.fromSeq : s \in reply.snaps} \cup aside)
      [] reply.kind = "reconnect" /\ reply.mode = "replay" ->
             Max0({lastSeen[client]} \cup Seqs(reply.actions) \cup aside)

ReceiveReply(client, reply) ==
    /\ view' = [view EXCEPT ![client] =
                   [c \in Channels |-> ApplyTo(Base(client, reply)[c], c, early[client])]]
    /\ lastSeen' = [lastSeen EXCEPT ![client] = SeenAfter(client, reply)]
    /\ seenIn' = IF reply.kind = "subscribe" THEN seenIn ELSE [seenIn EXCEPT ![client] = process]
    /\ waiting' = [waiting EXCEPT ![client] = "none"]
    /\ early' = [early EXCEPT ![client] = {}]

ReceiveAction(client, envelope) ==
    LET c == envelope.channel
        aside == waiting[client] = "handshake" \/ (waiting[client] = "subscribe" /\ ~view[client][c].held)
    IN  /\ early' = IF aside THEN [early EXCEPT ![client] = @ \cup {envelope}] ELSE early
        /\ view' = IF aside THEN view ELSE [view EXCEPT ![client][c] = ApplyTo(@, c, {envelope})]
        /\ lastSeen' = IF waiting[client] = "handshake" THEN lastSeen
                       ELSE [lastSeen EXCEPT ![client] = envelope.serverSeq]
        /\ UNCHANGED <<waiting, seenIn>>

\* The next frame arrives at the client.
Receive(client) ==
    LET k == link[client] IN
    /\ k # NoConn /\ wire[k] # <<>>
    /\ wire' = [wire EXCEPT ![k] = Tail(@)]
    /\ LET frame == Head(wire[k]) IN
       \/ frame.type = "reply" /\ ReceiveReply(client, frame.reply)
       \/ frame.type = "action" /\ ReceiveAction(client, frame.envelope)
    /\ UNCHANGED <<seqVars, hostVars, up, histVars, link>>

-----------------------------------------------------------------------------
\* The host process ends and another starts: every memory of the old one is
\* gone, the clients keep their views and the number they had reached.
HostRestart ==
    /\ process < MaxRestarts /\ incs < MaxIncs
    /\ StartProcess
    /\ store' = [c \in Channels |-> IF c = Root THEN [live |-> TRUE, inc |-> incs + 1, state |-> {}]
                                    ELSE NoEntry]
    /\ incs' = incs + 1
    /\ process' = process + 1
    /\ orphaned' = [k \in Conns |-> {}]
    /\ attached' = {} /\ known' = {}
    /\ clientOf' = [k \in Conns |-> NoClient]
    /\ subs' = [k \in Conns |-> {}]
    /\ told' = [c \in Channels |-> 0]
    /\ request' = [k \in Conns |-> NoRequest]
    /\ up' = [k \in Conns |-> FALSE]
    /\ wire' = [k \in Conns |-> <<>>]
    /\ link' = [client \in Clients |-> NoConn]
    /\ waiting' = [client \in Clients |-> "none"]
    /\ early' = [client \in Clients |-> {}]
    /\ UNCHANGED <<losses, lastSeen, view, seenIn>>

Init ==
    /\ SeqInit
    /\ store = [c \in Channels |-> IF c = Root THEN [live |-> TRUE, inc |-> 1, state |-> {}] ELSE NoEntry]
    /\ incs = 1
    /\ losses = 0
    /\ process = 0
    /\ orphaned = [k \in Conns |-> {}]
    /\ attached = {} /\ known = {}
    /\ clientOf = [k \in Conns |-> NoClient]
    /\ subs = [k \in Conns |-> {}]
    /\ told = [c \in Channels |-> 0]
    /\ request = [k \in Conns |-> NoRequest]
    /\ up = [k \in Conns |-> FALSE]
    /\ wire = [k \in Conns |-> <<>>]
    /\ link = [client \in Clients |-> NoConn]
    /\ waiting = [client \in Clients |-> "none"]
    /\ early = [client \in Clients |-> {}]
    /\ lastSeen = [client \in Clients |-> 0]
    /\ view = [client \in Clients |-> [c \in Channels |-> NoView]]
    /\ seenIn = [client \in Clients |-> 0]

Handlers(k) == HydrationSettles(k) \/ ResumeHandler(k) \/ SendReply(k)

Next ==
    \/ \E c \in Channels : Commit(c) \/ RejectAction(c) \/ CreateChannel(c) \/ DeleteChannel(c) \/ DropChannel(c)
    \/ \E k \in Conns : OnClose(k) \/ HydrationSettles(k) \/ ResumeHandler(k) \/ SendReply(k)
    \/ \E client \in Clients :
          \/ \E k \in Conns : Accept(client, k)
          \/ LoseLink(client) \/ Receive(client) \/ Reconnect(client)
          \/ \E S \in SUBSET Channels : Initialize(client, S)
          \/ \E c \in Channels : Subscribe(client, c) \/ Unsubscribe(client, c)
    \/ HostRestart

Spec == Init /\ [][Next]_vars

\* The event loop runs what is ready: a settled hydration, a resumed handler,
\* a finished reply. An open socket delivers its frames.
FairSpec ==
    /\ Spec
    /\ \A k \in Conns : WF_vars(Handlers(k))
    /\ \A client \in Clients : WF_vars(Receive(client))

-----------------------------------------------------------------------------
(* Properties *)

TypeOK ==
    /\ serverSeq \in Nat
    /\ buffer \in Seq(Envelope)
    /\ store \in [Channels -> ChannelEntry]
    /\ attached \subseteq Conns
    /\ clientOf \in [Conns -> Clients \cup {NoClient}]
    /\ subs \in [Conns -> SUBSET Channels]
    /\ known \subseteq Clients
    /\ told \in [Channels -> Nat]
    /\ \A k \in Conns : request[k] \in Request
    /\ up \in [Conns -> BOOLEAN]
    /\ \A k \in Conns : \A i \in DOMAIN wire[k] : wire[k][i] \in Frame
    /\ incs \in Nat /\ losses \in Nat /\ process \in Nat
    /\ orphaned \in [Conns -> SUBSET Channels]
    /\ link \in [Clients -> Conns \cup {NoConn}]
    /\ waiting \in [Clients -> {"none", "handshake", "subscribe"}]
    /\ lastSeen \in [Clients -> Nat] /\ seenIn \in [Clients -> Nat]
    /\ view \in [Clients -> [Channels -> View]]
    /\ early \in [Clients -> SUBSET Envelope]

\* Nothing is on its way between the host and this client.
Quiet(client) ==
    LET k == link[client] IN
    /\ k # NoConn /\ waiting[client] = "none" /\ wire[k] = <<>>
    /\ clientOf[k] = client /\ seenIn[client] = process

Current(client, c) == view[client][c].held /\ Live(c) /\ view[client][c].inc = store[c].inc

\* A view never has a hole: after hydration delays, replays and a lost socket it
\* is the channel's state up to the last number it accounts for
\* (host.ts:621-694, 915-955). The first reply after a restart has to arrive: a
\* client that misses it too takes its old counter for the new process's
\* (host.ts:659).
ViewIsPrefix ==
    \A client \in Clients, c \in Channels : Current(client, c) =>
        view[client][c].state = {n \in store[c].state : n <= view[client][c].upto}

\* Once nothing is in flight, a client that holds a channel's current
\* incarnation has exactly the authoritative state (host.ts:4-6), provided that
\* the first reply after a restart arrived.
Converged ==
    \A client \in Clients, c \in Channels :
        Quiet(client) /\ Current(client, c) => view[client][c].state = store[c].state

\* The host believes in an interest the client lost track of in one case only: a
\* reconnect subscribed the channel and store.delete took it before the result
\* was fixed. Otherwise an idle client holds a view of every channel its
\* connection is subscribed to (host.ts:664-693, 729-745).
SubscriberHoldsView ==
    \A client \in Clients : Quiet(client) =>
        \A c \in subs[link[client]] : view[client][c].held \/ c \in orphaned[link[client]]

\* Capability handlers release resources on the count they were told. When no
\* closed socket still owes its close event they have been told the truth
\* (host.ts:334-380, 697-705, 980-989).
InterestKnown ==
    (\A k \in Conns : clientOf[k] # NoClient => k \in attached)
        => \A c \in Channels : told[c] = SubscriberCount(c)

\* A client id never receives through two sockets at once (host.ts:696-705).
OneConnectionPerClient ==
    \A k, l \in attached : clientOf[k] = clientOf[l] /\ clientOf[k] # NoClient => k = l

\* Every request on a socket that stays open is answered.
RequestsAnswered ==
    \A client \in Clients : waiting[client] # "none" ~> waiting[client] = "none"
=============================================================================
