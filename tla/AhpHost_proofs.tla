--------------------------- MODULE AhpHost_proofs ---------------------------
(***************************************************************************)
(* Proofs about AhpHost, for any clients, sockets, channels, buffer        *)
(* capacity and bounds: who is connected and counted, and the layers of    *)
(* the inductive invariant that everything about replicas rests on.        *)
(*                                                                         *)
(*   HostInv    connections, subscriptions, counts and handlers            *)
(*   DataInv    types, and that nothing bears a number not yet allocated   *)
(*   KeptInv    the buffer is the end of the log; later channels that bear *)
(*              the same URI are told apart                                *)
(*   SocketInv  what a socket carries between one client and its handler   *)
(*                                                                         *)
(* Each layer is inductive given those above it. A step is summarised once *)
(* (EmitDoes, ProceedDoes, HandshakeDoes, ReceiveDoes ...), and each layer *)
(* has a lemma per kind of step, named after both. Then come the two       *)
(* properties of ReplayLog, the sequencer alone, and, on top of all of     *)
(* these, what the clients' replicas hold (HeldInv, ReplicaInv, SeenInv).  *)
(***************************************************************************)
EXTENDS AhpHost, ReplayLog, FiniteSetTheorems, SequenceTheorems, WellFoundedInduction, TLAPS

\* The part of the type invariant that connections and subscriptions need.
ConnTypes ==
    /\ attached \subseteq Conns
    /\ clientOf \in [Conns -> Clients \cup {NoClient}]
    /\ link \in [Clients -> Conns \cup {NoConn}]
    /\ subs = [k \in Conns |-> subs[k]]
    /\ told = [c \in Channels |-> told[c]]

\* A replaced connection that has not reported its close still holds c.
Stale(c) == \E k \in Conns : k \notin attached /\ clientOf[k] # NoClient /\ c \in subs[k]

\* A connection subscribes to nothing before its handshake, and a count is
\* wrong only while the close event that corrects it is still due.
CountInv ==
    /\ \A k \in attached : clientOf[k] = NoClient => subs[k] = {}
    /\ \A c \in Channels : ~Stale(c) => told[c] = SubscriberCount(c)

ConnInv == ConnTypes /\ OneConnectionPerClient /\ CountInv

\* What the three parts look at.
connVars == <<attached, clientOf, link, subs, told>>

-----------------------------------------------------------------------------
\* Nobody is connected at first.
LEMMA InitConn == Init => ConnInv
<1> SUFFICES ASSUME Init PROVE ConnInv
  OBVIOUS
<1>1. ConnTypes /\ OneConnectionPerClient
  BY DEF Init, ConnTypes, OneConnectionPerClient
<1>2. \A c \in Channels : Subscribers(attached, subs, c) = {} /\ told[c] = 0
  BY DEF Init, Subscribers
<1>3. CountInv
  BY <1>2, FS_EmptySet DEF Init, CountInv, SubscriberCount
<1> QED BY <1>1, <1>3 DEF ConnInv

\* Steps that leave connections, subscriptions and counts alone.
LEMMA FrameKeepsConn ==
    ASSUME ConnInv, UNCHANGED connVars
    PROVE  ConnInv'
BY DEF ConnInv, ConnTypes, OneConnectionPerClient, CountInv, Stale, SubscriberCount, Subscribers, connVars

\* A new socket belongs to no client and subscribes to nothing.
LEMMA AcceptKeepsConn ==
    ASSUME ConnInv, NEW client \in Clients, NEW k \in Conns, Accept(client, k)
    PROVE  ConnInv'
<1>1. /\ k \notin attached /\ clientOf[k] = NoClient
      /\ attached' = attached \cup {k} /\ clientOf' = [clientOf EXCEPT ![k] = NoClient]
      /\ subs' = [subs EXCEPT ![k] = {}] /\ link' = [link EXCEPT ![client] = k] /\ told' = told
  BY DEF Accept
<1>2. clientOf' = clientOf /\ subs'[k] = {} /\ \A l \in Conns : l # k => subs'[l] = subs[l]
  BY <1>1 DEF ConnInv, ConnTypes
<1>3. ConnTypes' /\ OneConnectionPerClient'
  BY <1>1, <1>2 DEF ConnInv, ConnTypes, OneConnectionPerClient
<1>4. ASSUME NEW c \in Channels
      PROVE  Subscribers(attached', subs', c) = Subscribers(attached, subs, c) /\ (Stale(c) => Stale(c)')
  BY <1>1, <1>2 DEF Subscribers, Stale, ConnInv, ConnTypes
<1>5. CountInv'
  BY <1>1, <1>2, <1>4 DEF ConnInv, CountInv, SubscriberCount, Subscribers
<1> QED BY <1>3, <1>5 DEF ConnInv

\* The close event corrects the counts of what its connection held.
LEMMA OnCloseKeepsConn ==
    ASSUME ConnInv, NEW k \in Conns, OnClose(k)
    PROVE  ConnInv'
<1>1. /\ attached' = attached \ {k} /\ clientOf' = [clientOf EXCEPT ![k] = NoClient]
      /\ subs' = [subs EXCEPT ![k] = {}] /\ link' = link /\ Notify(subs[k])
  BY DEF OnClose, clientVars
<1>2. /\ clientOf'[k] = NoClient /\ subs'[k] = {}
      /\ \A l \in Conns : l # k => clientOf'[l] = clientOf[l] /\ subs'[l] = subs[l]
  BY <1>1 DEF ConnInv, ConnTypes
<1>3. ConnTypes' /\ OneConnectionPerClient'
  BY <1>1, <1>2 DEF ConnInv, ConnTypes, OneConnectionPerClient, Notify
<1>4. ASSUME NEW c \in Channels, ~Stale(c)'
      PROVE  told'[c] = SubscriberCount(c)'
  <2>1. CASE c \in subs[k]
    BY <1>1, <2>1 DEF Notify, SubscriberCount, Subscribers
  <2>2. CASE c \notin subs[k]
    <3>1. Subscribers(attached', subs', c) = Subscribers(attached, subs, c)
      BY <1>1, <1>2, <2>2 DEF Subscribers, ConnInv, ConnTypes
    <3>2. ~Stale(c)
      BY <1>1, <1>2, <1>4, <2>2 DEF Stale
    <3> QED BY <1>1, <2>2, <3>1, <3>2 DEF Notify, SubscriberCount, Subscribers, ConnInv, CountInv
  <2> QED BY <2>1, <2>2
<1>5. CountInv'
  BY <1>1, <1>2, <1>4 DEF ConnInv, ConnTypes, CountInv
<1> QED BY <1>3, <1>5 DEF ConnInv

\* A stretch of a handler on a bound connection subscribes and tells.
LEMMA ProceedKeepsConn ==
    ASSUME ConnInv, NEW k \in Conns, NEW req, Proceed(k, req, subs[k]),
           k \in attached => clientOf[k] # NoClient,
           UNCHANGED <<attached, clientOf, link>>
    PROVE  ConnInv'
<1>1. PICK newSub : /\ subs[k] \subseteq newSub
                    /\ subs' = [subs EXCEPT ![k] = newSub] /\ Notify(newSub \ subs[k])
  BY DEF Proceed
<1>2. subs'[k] = newSub /\ \A l \in Conns : l # k => subs'[l] = subs[l]
  BY <1>1 DEF ConnInv, ConnTypes
<1>3. ConnTypes' /\ OneConnectionPerClient'
  BY <1>1, <1>2 DEF ConnInv, ConnTypes, OneConnectionPerClient, Notify
<1>4. ASSUME NEW c \in Channels, ~Stale(c)'
      PROVE  told'[c] = SubscriberCount(c)'
  <2>1. CASE c \in newSub \ subs[k]
    BY <1>1, <2>1 DEF Notify, SubscriberCount, Subscribers
  <2>2. CASE c \notin newSub \ subs[k]
    <3>1. Subscribers(attached', subs', c) = Subscribers(attached, subs, c) /\ ~Stale(c)
      BY <1>1, <1>2, <1>4, <2>2 DEF Subscribers, Stale, ConnInv, ConnTypes
    <3> QED BY <1>1, <2>2, <3>1 DEF Notify, SubscriberCount, Subscribers, ConnInv, CountInv
  <2> QED BY <2>1, <2>2
<1>5. CountInv'
  BY <1>2, <1>4 DEF ConnInv, ConnTypes, CountInv
<1> QED BY <1>3, <1>5 DEF ConnInv

\* A handshake binds its connection and drops the client's older ones, whose
\* subscriptions are stale until their sockets report the close.
LEMMA HandshakeKeepsConn ==
    ASSUME ConnInv, NEW client \in Clients, NEW req, Handshake(client, req)
    PROVE  ConnInv'
<1> DEFINE k == link[client]
           previous == Previous(client, k)
<1>1. /\ k \in attached /\ k \in Conns /\ clientOf[k] = NoClient
      /\ attached' = attached \ previous /\ clientOf' = [clientOf EXCEPT ![k] = client]
      /\ link' = link /\ Proceed(k, req, {})
  BY DEF Handshake, BindClient, ConnInv, ConnTypes
<1>2. PICK newSub : subs' = [subs EXCEPT ![k] = newSub] /\ Notify(newSub \ {})
  BY <1>1 DEF Proceed
<1>3. /\ subs'[k] = newSub /\ clientOf'[k] = client /\ subs[k] = {}
      /\ \A l \in Conns : l # k => clientOf'[l] = clientOf[l] /\ subs'[l] = subs[l]
  BY <1>1, <1>2 DEF ConnInv, ConnTypes, CountInv
<1>4. client # NoClient
  BY HostAssumption
<1>5. \A p \in attached : p \in previous <=> p # k /\ clientOf[p] = client
  BY DEF Previous
<1> HIDE DEF k, previous
<1>6. ConnTypes'
  BY <1>1, <1>2, <1>3 DEF ConnInv, ConnTypes, Notify
<1>7. OneConnectionPerClient'
  BY <1>1, <1>3, <1>5 DEF ConnInv, ConnTypes, OneConnectionPerClient
<1>8. ASSUME NEW c \in Channels, ~Stale(c)'
      PROVE  told'[c] = SubscriberCount(c)'
  <2>1. CASE c \in newSub
    BY <1>2, <2>1 DEF Notify, SubscriberCount, Subscribers
  <2>2. CASE c \notin newSub
    <3>1. \A p \in attached : p \in previous => c \notin subs[p]
      BY <1>1, <1>3, <1>4, <1>5, <1>8 DEF Stale, ConnInv, ConnTypes
    <3>2. Subscribers(attached', subs', c) = Subscribers(attached, subs, c)
      BY <1>1, <1>3, <2>2, <3>1 DEF Subscribers, ConnInv, ConnTypes
    <3>3. ~Stale(c)
      BY <1>1, <1>3, <1>8 DEF Stale
    <3> QED BY <1>2, <2>2, <3>2, <3>3 DEF Notify, SubscriberCount, Subscribers, ConnInv, CountInv
  <2> QED BY <2>1, <2>2
<1>9. CountInv'
  BY <1>1, <1>3, <1>4, <1>8 DEF ConnInv, ConnTypes, CountInv
<1> QED BY <1>6, <1>7, <1>9 DEF ConnInv

\* The "unsubscribe" notification tells the new count.
LEMMA UnsubscribeKeepsConn ==
    ASSUME ConnInv, NEW client \in Clients, NEW c \in Channels, Unsubscribe(client, c)
    PROVE  ConnInv'
<1> DEFINE k == link[client]
<1>1. /\ k \in Conns /\ clientOf[k] = client
      /\ subs' = [subs EXCEPT ![k] = @ \ {c}] /\ Notify({c}) /\ UNCHANGED <<attached, clientOf, link>>
  BY DEF Unsubscribe, Idle, ConnInv, ConnTypes
<1> HIDE DEF k
<1>2. subs'[k] = subs[k] \ {c} /\ \A l \in Conns : l # k => subs'[l] = subs[l]
  BY <1>1 DEF ConnInv, ConnTypes
<1>3. ConnTypes' /\ OneConnectionPerClient'
  BY <1>1, <1>2 DEF ConnInv, ConnTypes, OneConnectionPerClient, Notify
<1>4. ASSUME NEW d \in Channels, ~Stale(d)'
      PROVE  told'[d] = SubscriberCount(d)'
  <2>1. CASE d = c
    BY <1>1, <2>1 DEF Notify, SubscriberCount, Subscribers
  <2>2. CASE d # c
    <3>1. Subscribers(attached', subs', d) = Subscribers(attached, subs, d) /\ ~Stale(d)
      BY <1>1, <1>2, <1>4, <2>2 DEF Subscribers, Stale, ConnInv, ConnTypes
    <3> QED BY <1>1, <2>2, <3>1 DEF Notify, SubscriberCount, Subscribers, ConnInv, CountInv
  <2> QED BY <2>1, <2>2
<1>5. CountInv'
  BY <1>1, <1>2, <1>4 DEF ConnInv, ConnTypes, CountInv
<1> QED BY <1>3, <1>5 DEF ConnInv

\* deleteChannel releases the attached subscribers and tells if there were any.
LEMMA DeleteKeepsConn ==
    ASSUME ConnInv, NEW c \in Channels, DeleteChannel(c)
    PROVE  ConnInv'
<1>1. /\ subs' = [k \in Conns |-> IF k \in attached THEN subs[k] \ {c} ELSE subs[k]]
      /\ IF Subscribers(attached, subs, c) # {} THEN Notify({c}) ELSE UNCHANGED told
      /\ UNCHANGED <<attached, clientOf, link>>
  BY DEF DeleteChannel, clientVars
<1>2. \A k \in Conns : subs'[k] = IF k \in attached THEN subs[k] \ {c} ELSE subs[k]
  BY <1>1
<1>3. ConnTypes' /\ OneConnectionPerClient'
  BY <1>1, <1>2 DEF ConnInv, ConnTypes, OneConnectionPerClient, Notify
<1>4. ASSUME NEW d \in Channels, ~Stale(d)'
      PROVE  told'[d] = SubscriberCount(d)'
  <2>1. CASE d = c /\ Subscribers(attached, subs, c) # {}
    BY <1>1, <2>1 DEF Notify, SubscriberCount, Subscribers
  <2>2. CASE d # c \/ Subscribers(attached, subs, c) = {}
    <3>1. Subscribers(attached', subs', d) = Subscribers(attached, subs, d)
      BY <1>1, <1>2, <2>2 DEF Subscribers, ConnInv, ConnTypes
    <3>2. ~Stale(d)
      BY <1>1, <1>2, <1>4 DEF Stale
    <3>3. told'[d] = told[d]
      BY <1>1, <2>2 DEF Notify
    <3> QED BY <3>1, <3>2, <3>3 DEF SubscriberCount, Subscribers, ConnInv, CountInv
  <2> QED BY <2>1, <2>2
<1>5. CountInv'
  BY <1>1, <1>2, <1>4 DEF ConnInv, ConnTypes, CountInv
<1> QED BY <1>3, <1>5 DEF ConnInv

\* A new host process knows no connection.
LEMMA RestartKeepsConn ==
    ASSUME HostRestart
    PROVE  ConnInv'
<1>1. /\ attached' = {} /\ clientOf' = [k \in Conns |-> NoClient] /\ subs' = [k \in Conns |-> {}]
      /\ told' = [c \in Channels |-> 0] /\ link' = [client \in Clients |-> NoConn]
  BY DEF HostRestart
<1>2. \A c \in Channels : Subscribers(attached', subs', c) = {} /\ told'[c] = 0
  BY <1>1 DEF Subscribers
<1>3. CountInv'
  BY <1>1, <1>2, FS_EmptySet DEF CountInv, SubscriberCount, Subscribers
<1>4. ConnTypes' /\ OneConnectionPerClient'
  BY <1>1 DEF ConnTypes, OneConnectionPerClient
<1> QED BY <1>3, <1>4 DEF ConnInv

-----------------------------------------------------------------------------
\* Only a connection that is bound to a client, or gone, has a handler.
HandlersBound ==
    /\ request = [k \in Conns |-> request[k]]
    /\ \A k \in attached : request[k].kind # "none" => clientOf[k] # NoClient

HostInv == ConnInv /\ HandlersBound

\* No handler runs at first.
LEMMA InitHandlers == Init => HandlersBound
BY DEF Init, HandlersBound, NoRequest

\* The request of one connection changes, which had a handler or is bound.
LEMMA RequestChange ==
    ASSUME ConnInv, HandlersBound, NEW k \in Conns, NEW req,
           request' = [request EXCEPT ![k] = req],
           request[k].kind # "none" \/ clientOf[k] # NoClient,
           UNCHANGED <<attached, clientOf>>
    PROVE  HandlersBound'
BY DEF ConnInv, ConnTypes, HandlersBound

\* Every step keeps handlers on bound connections.
LEMMA NextHandlers ==
    ASSUME HostInv, [Next]_vars
    PROVE  HandlersBound'
<1> USE DEF HostInv
<1>1. ASSUME UNCHANGED <<attached, clientOf, request>>
      PROVE  HandlersBound'
  BY <1>1 DEF HandlersBound
<1>2. ASSUME NEW c \in Channels,
             Commit(c) \/ RejectAction(c) \/ CreateChannel(c) \/ DeleteChannel(c) \/ DropChannel(c)
      PROVE  HandlersBound'
  BY <1>1, <1>2 DEF Commit, RejectAction, CreateChannel, DeleteChannel, DropChannel, hostVars
<1>3. ASSUME NEW k \in Conns, OnClose(k)
      PROVE  HandlersBound'
  BY <1>3 DEF OnClose, HandlersBound, ConnInv, ConnTypes
<1>4. ASSUME NEW k \in Conns, HydrationSettles(k)
      PROVE  HandlersBound'
  <2>1. request[k].kind # "none" /\ UNCHANGED <<attached, clientOf>>
    BY <1>4 DEF HydrationSettles
  <2>2. PICK hydrated : request' = [request EXCEPT ![k].phase = "resumed", ![k].hydrated = hydrated]
    BY <1>4 DEF HydrationSettles
  <2>3. \A l \in Conns : l # k => request'[l] = request[l]
    BY <2>2 DEF HandlersBound
  <2>4. request' = [l \in Conns |-> request'[l]]
    BY <2>2 DEF HandlersBound
  <2> QED BY <2>1, <2>3, <2>4 DEF HandlersBound, ConnInv, ConnTypes
<1>5. ASSUME NEW k \in Conns, SendReply(k)
      PROVE  HandlersBound'
  BY <1>5, RequestChange DEF SendReply
<1>6. ASSUME NEW k \in Conns, ResumeHandler(k)
      PROVE  HandlersBound'
  <2>1. request[k].kind # "none" /\ UNCHANGED <<attached, clientOf>>
    BY <1>6 DEF ResumeHandler
  <2>2. \/ request' = [request EXCEPT ![k].phase = "reply", ![k].todo = <<>>, ![k].mode = "error"]
        \/ \E req : request' = [request EXCEPT ![k] = req]
    BY <1>6 DEF ResumeHandler, SkipMissing, Proceed
  <2>3. \A l \in Conns : l # k => request'[l] = request[l]
    BY <2>2 DEF HandlersBound
  <2>4. request' = [l \in Conns |-> request'[l]]
    BY <2>2 DEF HandlersBound
  <2> QED BY <2>1, <2>3, <2>4 DEF HandlersBound, ConnInv, ConnTypes
<1>7. ASSUME NEW client \in Clients, NEW k \in Conns, Accept(client, k)
      PROVE  HandlersBound'
  BY <1>7 DEF Accept, HandlersBound, ConnInv, ConnTypes
<1>8. ASSUME NEW client \in Clients, LoseLink(client) \/ Receive(client)
      PROVE  HandlersBound'
  BY <1>1, <1>8 DEF LoseLink, Receive, hostVars
<1>9. ASSUME NEW client \in Clients, NEW req, Handshake(client, req)
      PROVE  HandlersBound'
  <2> DEFINE k == link[client]
  <2>1. /\ k \in Conns /\ attached' \subseteq attached /\ clientOf' = [clientOf EXCEPT ![k] = client]
        /\ \E new : request' = [request EXCEPT ![k] = new]
    BY <1>9 DEF Handshake, BindClient, Proceed, ConnInv, ConnTypes
  <2> HIDE DEF k
  <2> QED BY <2>1, HostAssumption DEF HandlersBound, ConnInv, ConnTypes
<1>10. ASSUME NEW client \in Clients, NEW c \in Channels, Subscribe(client, c)
       PROVE  HandlersBound'
  <2> DEFINE k == link[client]
  <2>1. /\ k \in Conns /\ clientOf[k] # NoClient /\ UNCHANGED <<attached, clientOf>>
        /\ \E new : request' = [request EXCEPT ![k] = new]
    BY <1>10, HostAssumption DEF Subscribe, Idle, Proceed, ConnInv, ConnTypes
  <2> HIDE DEF k
  <2> QED BY <2>1, RequestChange
<1>11. ASSUME NEW client \in Clients, NEW c \in Channels, Unsubscribe(client, c)
       PROVE  HandlersBound'
  BY <1>1, <1>11 DEF Unsubscribe
<1>12. CASE HostRestart
  BY <1>12 DEF HostRestart, HandlersBound
<1>13. CASE UNCHANGED vars
  BY <1>1, <1>13 DEF vars, hostVars
<1>14. ASSUME NEW client \in Clients, Reconnect(client) \/ \E S \in SUBSET Channels : Initialize(client, S)
       PROVE  HandlersBound'
  BY <1>9, <1>14 DEF Reconnect, Initialize
<1> QED
  BY <1>2, <1>3, <1>4, <1>5, <1>6, <1>7, <1>8, <1>10, <1>11, <1>12, <1>13, <1>14 DEF Next

\* Every step keeps connections, subscriptions and counts consistent.
LEMMA NextConn ==
    ASSUME HostInv, [Next]_vars
    PROVE  ConnInv'
<1> USE DEF HostInv
<1>1. ASSUME NEW c \in Channels, Commit(c) \/ RejectAction(c) \/ CreateChannel(c) \/ DropChannel(c)
      PROVE  ConnInv'
  BY <1>1, FrameKeepsConn
  DEF Commit, RejectAction, CreateChannel, DropChannel, hostVars, clientVars, connVars
<1>2. ASSUME NEW k \in Conns, HydrationSettles(k) \/ SendReply(k)
      PROVE  ConnInv'
  BY <1>2, FrameKeepsConn DEF HydrationSettles, SendReply, clientVars, connVars
<1>3. ASSUME NEW k \in Conns, ResumeHandler(k)
      PROVE  ConnInv'
  <2>1. UNCHANGED <<attached, clientOf, link>> /\ (k \in attached => clientOf[k] # NoClient)
    BY <1>3 DEF ResumeHandler, HandlersBound, clientVars
  <2>2. CASE UNCHANGED <<subs, told>>
    BY <2>1, <2>2, FrameKeepsConn DEF connVars
  <2>3. CASE \E req : Proceed(k, req, subs[k])
    BY <2>1, <2>3, ProceedKeepsConn
  <2> QED BY <1>3, <2>2, <2>3 DEF ResumeHandler, SkipMissing
<1>4. ASSUME NEW client \in Clients, LoseLink(client)
      PROVE  ConnInv'
  <2>1. UNCHANGED hostVars /\ link' = [link EXCEPT ![client] = NoConn]
    BY <1>4 DEF LoseLink
  <2> QED BY <2>1 DEF hostVars, ConnInv, ConnTypes, OneConnectionPerClient, CountInv, Stale,
                      SubscriberCount, Subscribers
<1>5. ASSUME NEW client \in Clients, Receive(client)
      PROVE  ConnInv'
  BY <1>5, FrameKeepsConn DEF Receive, hostVars, connVars
<1>6. ASSUME NEW client \in Clients, Reconnect(client) \/ \E S \in SUBSET Channels : Initialize(client, S)
      PROVE  ConnInv'
  BY <1>6, HandshakeKeepsConn DEF Reconnect, Initialize
<1>7. ASSUME NEW client \in Clients, NEW c \in Channels, Subscribe(client, c)
      PROVE  ConnInv'
  <2> DEFINE k == link[client]
  <2>1. /\ k \in Conns /\ clientOf[k] # NoClient /\ UNCHANGED <<attached, clientOf, link>>
        /\ \E req : Proceed(k, req, subs[k])
    BY <1>7, HostAssumption DEF Subscribe, Idle, ConnInv, ConnTypes
  <2> HIDE DEF k
  <2> QED BY <2>1, ProceedKeepsConn
<1>8. CASE UNCHANGED vars
  BY <1>8, FrameKeepsConn DEF vars, hostVars, clientVars, connVars
<1> QED
  BY <1>1, <1>2, <1>3, <1>4, <1>5, <1>6, <1>7, <1>8, AcceptKeepsConn, OnCloseKeepsConn,
     UnsubscribeKeepsConn, DeleteKeepsConn, RestartKeepsConn
  DEF Next

\* Connections, subscriptions, counts and handlers are consistent always.
LEMMA HostInvariant == Spec => []HostInv
<1>1. Init => HostInv
  BY InitConn, InitHandlers DEF HostInv
<1>2. HostInv /\ [Next]_vars => HostInv'
  BY NextConn, NextHandlers DEF HostInv
<1> QED BY <1>1, <1>2, PTL DEF Spec

\* bindClient: at most one attached connection bears a client id, for any
\* number of clients and sockets and any order of losses and handshakes.
THEOREM ClientsConnectOnce == Spec => []OneConnectionPerClient
<1>1. HostInv => OneConnectionPerClient
  BY DEF HostInv, ConnInv
<1> QED BY <1>1, HostInvariant, PTL

\* Whoever holds resources for a channel's subscribers knows how many there
\* are as soon as every closed socket has reported its close.
THEOREM CountsKnown == Spec => []InterestKnown
<1>1. ASSUME HostInv
      PROVE  InterestKnown
  <2> SUFFICES ASSUME \A k \in Conns : clientOf[k] # NoClient => k \in attached, NEW c \in Channels
               PROVE  told[c] = SubscriberCount(c)
    BY DEF InterestKnown
  <2>1. ~Stale(c)
    BY DEF Stale
  <2> QED BY <1>1, <2>1 DEF HostInv, ConnInv, CountInv
<1> QED BY <1>1, HostInvariant, PTL

-----------------------------------------------------------------------------
(* What connections carry *)

\* The envelopes and the answers among the frames of a wire.
Sent(w) == {w[i].envelope : i \in {j \in DOMAIN w : w[j].type = "action"}}
Answers(w) == {w[i].reply : i \in {j \in DOMAIN w : w[j].type = "reply"}}

\* What a connection owes its client: the answer in preparation or on the wire.
Owed(w, req) == Answers(w) \cup (IF req.kind = "none" THEN {} ELSE {req})
Pending(k) == Owed(wire[k], request[k])

Distinct(todo) == \A i, j \in DOMAIN todo : todo[i] = todo[j] => i = j

Listed(todo) == {todo[i] : i \in DOMAIN todo}

\* Every number that an answer mentions is less than n.
Below(r, n) ==
    /\ r.current < n
    /\ \A s \in r.snaps : s.fromSeq < n
    /\ \A e \in r.actions : e.serverSeq < n

\* An envelope that the host or a client may still look at.
Around ==
    {buffer[i] : i \in DOMAIN buffer}
        \cup (UNION {early[client] : client \in Clients})
        \cup (UNION {Sent(wire[k]) : k \in Conns})
        \cup (UNION {UNION {r.actions : r \in Pending(k)} : k \in Conns})

TypeInv ==
    /\ serverSeq \in Nat
    /\ buffer \in Seq(Envelope)
    /\ store \in [Channels -> ChannelEntry]
    /\ known \subseteq Clients
    /\ subs \in [Conns -> SUBSET Channels]
    /\ request \in [Conns -> Request]
    /\ up \in [Conns -> BOOLEAN]
    /\ wire \in [Conns -> Seq(Frame)]
    /\ incs \in Nat /\ losses \in Nat /\ process \in Nat
    /\ orphaned \in [Conns -> SUBSET Channels]
    /\ waiting \in [Clients -> {"none", "handshake", "subscribe"}]
    /\ lastSeen \in [Clients -> Nat] /\ seenIn \in [Clients -> Nat]
    /\ view \in [Clients -> [Channels -> View]]
    /\ early \in [Clients -> SUBSET Envelope]

\* An answer that numbers below n and channels created up to i allow.
Proper(r, n, i) ==
    /\ r.kind # "none"
    /\ r.phase # "reply" => r.todo # <<>>
    /\ r.phase = "reply" /\ r.kind = "reconnect" => r.mode # "error"
    /\ Below(r, n)
    /\ \A s \in r.snaps : s.inc <= i

\* Nothing bears a number that was not allocated yet.
DataInv ==
    /\ TypeInv
    /\ \A e \in Around : e.serverSeq <= serverSeq
    /\ \A c \in Channels : store[c].inc <= incs
    /\ \A k \in Conns : \A r \in Pending(k) : Proper(r, serverSeq + 1, incs)
    /\ \A k \in Conns : \A r \in Answers(wire[k]) : r.phase = "reply"

Bound(client) == link[client] # NoConn /\ clientOf[link[client]] = client

KindOf(r) == IF r.kind = "subscribe" THEN "subscribe" ELSE "handshake"

Ordered(w) ==
    /\ \A i, j \in DOMAIN w : i < j /\ w[i].type = "action" /\ w[j].type = "action"
          => w[i].envelope.serverSeq < w[j].envelope.serverSeq
    /\ \A i, j \in DOMAIN w : w[i].type = "reply" /\ w[j].type = "reply" => i = j
    /\ \A i, j \in DOMAIN w : i < j /\ w[i].type = "reply" /\ w[j].type = "action"
          => Below(w[i].reply, w[j].envelope.serverSeq)

Before(E, F) == \A e \in E, f \in F : e.serverSeq < f.serverSeq

\* A client's socket is open at both ends. Before the handshake there is nothing
\* on it; afterwards it bears what the client waits for, in order, and the
\* actions that were set aside came before.
Plugged(client) ==
    LET k == link[client] IN
    /\ k = NoConn => waiting[client] = "none"
    /\ waiting[client] = "none" => early[client] = {}
    /\ k # NoConn =>
          /\ up[k] /\ k \in attached /\ clientOf[k] \in {NoClient, client}
          /\ Ordered(wire[k]) /\ Before(early[client], Sent(wire[k]))
          /\ clientOf[k] = NoClient =>
                waiting[client] = "none" /\ request[k].kind = "none" /\ wire[k] = <<>> /\ subs[k] = {}
          /\ clientOf[k] = client =>
                /\ waiting[client] = "none" => Pending(k) = {}
                /\ \A r \in Pending(k) : waiting[client] = KindOf(r)
                /\ request[k].kind # "none" => Answers(wire[k]) = {}

SocketInv ==
    /\ \A client, other \in Clients : link[client] # NoConn /\ link[client] = link[other] => client = other
    /\ \A k \in Conns : ~up[k] => wire[k] = <<>>
    /\ \A client \in Clients : Plugged(client)

\* What was created later bears a later incarnation.
StoreInv ==
    /\ \A c \in Channels : store[c].state \subseteq 1..serverSeq
    /\ \A client \in Clients, c \in Channels : view[client][c].inc <= incs
    /\ \A client \in Clients : seenIn[client] <= process

BufferInv ==
    /\ Len(buffer) <= serverSeq
    /\ \A i \in DOMAIN buffer : buffer[i].serverSeq = serverSeq - Len(buffer) + i
    /\ \A i \in DOMAIN buffer, c \in Channels : buffer[i].serverSeq \in store[c].state =>
          buffer[i].channel = c /\ buffer[i].accepted

-----------------------------------------------------------------------------
(* Numbers, frames and wires *)

Less == {ss \in Nat \X Nat : ss[1] < ss[2]}

\* A set of natural numbers that is not empty has a least member.
LEMMA LeastNumber ==
    ASSUME NEW S \in SUBSET Nat, NEW s \in S
    PROVE  \E n \in S : \A m \in S : n <= m
<1>1. OpToRel(<, Nat) = Less
  BY DEF OpToRel, Less
<1>2. IsWellFoundedOn(Less, Nat)
  BY <1>1, NatLessThanWellFounded
<1>3. PICK n \in S : \A m \in S : ~(<<m, n>> \in Less)
  BY <1>2, WFMin
<1>4. ASSUME NEW m \in S
      PROVE  n <= m
  <2>1. <<m, n>> \in Nat \X Nat /\ <<m, n>>[1] = m /\ <<m, n>>[2] = n
    OBVIOUS
  <2>2. ~(m < n)
    BY <1>3, <2>1 DEF Less
  <2>3. m \in Nat /\ n \in Nat
    OBVIOUS
  <2> QED BY <2>2, <2>3
<1> QED BY <1>4

\* Max0 of a bounded set is its greatest member, or zero.
LEMMA Max0Is ==
    ASSUME NEW S \in SUBSET Nat, NEW bound \in Nat, \A n \in S : n <= bound
    PROVE  /\ Max0(S) \in S \cup {0} /\ Max0(S) \in Nat /\ Max0(S) <= bound
           /\ \A n \in S : n <= Max0(S)
<1> DEFINE T == S \cup {0}
           U == {u \in Nat : \A n \in T : n <= u}
<1>1. bound \in U
  OBVIOUS
<1>2. PICK u \in U : \A w \in U : u <= w
  BY <1>1, LeastNumber
<1>3. u \in T
  <2> SUFFICES ASSUME u \notin T PROVE FALSE
    OBVIOUS
  <2>1. u \in Nat /\ u # 0
    OBVIOUS
  <2>2. \A n \in T : n \in Nat /\ n <= u /\ n # u
    OBVIOUS
  <2>3. \A n \in T : n <= u - 1
    BY <2>1, <2>2
  <2>4. u - 1 \in U
    BY <2>1, <2>3
  <2> QED BY <1>2, <2>1, <2>4
<1>4. \A n \in T : n <= u
  OBVIOUS
<1>5. \E n \in S \cup {0} : \A m \in S : m <= n
  BY <1>3, <1>4
<1>6. PICK x \in S \cup {0} : x = Max0(S) /\ \A m \in S : m <= x
  BY <1>5 DEF Max0
<1> HIDE DEF T, U
<1>7. x \in Nat /\ x <= bound
  OBVIOUS
<1> QED BY <1>6, <1>7

-----------------------------------------------------------------------------
\* A frame bears an action or an answer, and what it bears is typed.
LEMMA FrameIs ==
    ASSUME NEW f \in Frame
    PROVE  \/ f.type = "action" /\ f.envelope \in Envelope
           \/ f.type = "reply" /\ f.reply \in Request
BY DEF Frame

\* An action on a wire is a frame.
LEMMA ActionFrame ==
    ASSUME NEW e \in Envelope
    PROVE  LET f == [type |-> "action", envelope |-> e] IN f \in Frame /\ f.type = "action" /\ f.envelope = e
BY DEF Frame

\* An answer on a wire is a frame.
LEMMA ReplyFrame ==
    ASSUME NEW r \in Request
    PROVE  LET f == [type |-> "reply", reply |-> r] IN f \in Frame /\ f.type = "reply" /\ f.reply = r
BY DEF Frame

\* What is on a wire is typed.
LEMMA SentTyped ==
    ASSUME NEW w \in Seq(Frame)
    PROVE  /\ \A e \in Sent(w) : e \in Envelope /\ e.serverSeq \in Nat /\ e.channel \in Channels /\ e.accepted \in BOOLEAN
           /\ Answers(w) \subseteq Request
<1>1. \A i \in DOMAIN w : w[i] \in Frame
  OBVIOUS
<1> QED BY <1>1, FrameIs DEF Sent, Answers, Envelope

\* What appending to a wire does, place by place.
LEMMA Appended ==
    ASSUME NEW w \in Seq(Frame), NEW f \in Frame
    PROVE  /\ Append(w, f) \in Seq(Frame)
           /\ DOMAIN Append(w, f) = 1..(Len(w) + 1) /\ DOMAIN w = 1..Len(w) /\ Len(w) \in Nat
           /\ \A i \in DOMAIN w : Append(w, f)[i] = w[i]
           /\ Append(w, f)[Len(w) + 1] = f
OBVIOUS

\* An action joins what is on the way.
LEMMA AppendAction ==
    ASSUME NEW w \in Seq(Frame), NEW e \in Envelope
    PROVE  LET f == [type |-> "action", envelope |-> e]
           IN  Sent(Append(w, f)) = Sent(w) \cup {e} /\ Answers(Append(w, f)) = Answers(w)
<1> DEFINE f == [type |-> "action", envelope |-> e]
           x == Append(w, f)
<1>1. f \in Frame /\ f.type = "action" /\ f.envelope = e
  BY ActionFrame
<1> HIDE DEF f
<1>2. /\ DOMAIN x = 1..(Len(w) + 1) /\ DOMAIN w = 1..Len(w) /\ Len(w) \in Nat
      /\ \A i \in DOMAIN w : x[i] = w[i]
      /\ x[Len(w) + 1] = f
  BY <1>1, Appended
<1> HIDE DEF x
<1>3. \A i \in DOMAIN x : i \in DOMAIN w \/ i = Len(w) + 1
  BY <1>2
<1>4. DOMAIN w \subseteq DOMAIN x /\ Len(w) + 1 \in DOMAIN x
  BY <1>2
<1>5. Sent(x) = Sent(w) \cup {e}
  BY <1>1, <1>2, <1>3, <1>4 DEF Sent
<1>6. Answers(x) = Answers(w)
  BY <1>1, <1>2, <1>3, <1>4 DEF Answers
<1> QED BY <1>5, <1>6 DEF x, f

\* An answer joins what is on the way.
LEMMA AppendReply ==
    ASSUME NEW w \in Seq(Frame), NEW r \in Request
    PROVE  LET f == [type |-> "reply", reply |-> r]
           IN  Sent(Append(w, f)) = Sent(w) /\ Answers(Append(w, f)) = Answers(w) \cup {r}
<1> DEFINE f == [type |-> "reply", reply |-> r]
           x == Append(w, f)
<1>1. f \in Frame /\ f.type = "reply" /\ f.reply = r
  BY ReplyFrame
<1> HIDE DEF f
<1>2. /\ DOMAIN x = 1..(Len(w) + 1) /\ DOMAIN w = 1..Len(w) /\ Len(w) \in Nat
      /\ \A i \in DOMAIN w : x[i] = w[i]
      /\ x[Len(w) + 1] = f
  BY <1>1, Appended
<1> HIDE DEF x
<1>3. \A i \in DOMAIN x : i \in DOMAIN w \/ i = Len(w) + 1
  BY <1>2
<1>4. DOMAIN w \subseteq DOMAIN x /\ Len(w) + 1 \in DOMAIN x
  BY <1>2
<1>5. Sent(x) = Sent(w)
  BY <1>1, <1>2, <1>3, <1>4 DEF Sent
<1>6. Answers(x) = Answers(w) \cup {r}
  BY <1>1, <1>2, <1>3, <1>4 DEF Answers
<1> QED BY <1>5, <1>6 DEF x, f

\* What taking the head off a wire does, place by place.
LEMMA TailIs ==
    ASSUME NEW w \in Seq(Frame), w # <<>>
    PROVE  /\ Tail(w) \in Seq(Frame) /\ Head(w) \in Frame /\ Head(w) = w[1]
           /\ Len(w) \in Nat /\ Len(w) >= 1
           /\ DOMAIN w = 1..Len(w) /\ DOMAIN Tail(w) = 1..(Len(w) - 1)
           /\ \A i \in DOMAIN Tail(w) : Tail(w)[i] = w[i + 1]
OBVIOUS

\* A frame that is taken was on the way, and the rest still is.
LEMMA TakeHead ==
    ASSUME NEW w \in Seq(Frame), w # <<>>
    PROVE  /\ Head(w).type = "action" => /\ Sent(w) = Sent(Tail(w)) \cup {Head(w).envelope}
                                         /\ Answers(w) = Answers(Tail(w))
                                         /\ Head(w).envelope \in Envelope
           /\ Head(w).type = "reply" => /\ Sent(w) = Sent(Tail(w))
                                        /\ Answers(w) = Answers(Tail(w)) \cup {Head(w).reply}
                                        /\ Head(w).reply \in Request
<1> DEFINE x == Tail(w)  h == Head(w)
<1>1. /\ h \in Frame /\ h = w[1] /\ Len(w) \in Nat /\ Len(w) >= 1
      /\ DOMAIN w = 1..Len(w) /\ DOMAIN x = 1..(Len(w) - 1)
      /\ \A i \in DOMAIN x : x[i] = w[i + 1]
  BY TailIs
<1> HIDE DEF x, h
<1>2. \A i \in DOMAIN w : i = 1 \/ (i - 1 \in DOMAIN x /\ x[i - 1] = w[i])
  BY <1>1
<1>3. \A i \in DOMAIN x : i + 1 \in DOMAIN w /\ x[i] = w[i + 1]
  BY <1>1
<1>4. 1 \in DOMAIN w
  BY <1>1
<1>5. (h.type = "action" /\ h.envelope \in Envelope) \/ (h.type = "reply" /\ h.reply \in Request)
  BY <1>1, FrameIs
<1>6. ASSUME h.type = "action"
      PROVE  Sent(w) = Sent(x) \cup {h.envelope} /\ Answers(w) = Answers(x)
  <2>1. Sent(w) \subseteq Sent(x) \cup {h.envelope}
    BY <1>1, <1>2 DEF Sent
  <2>2. Sent(x) \cup {h.envelope} \subseteq Sent(w)
    BY <1>1, <1>3, <1>4, <1>6 DEF Sent
  <2>3. Answers(w) = Answers(x)
    BY <1>1, <1>2, <1>3, <1>6 DEF Answers
  <2> QED BY <2>1, <2>2, <2>3
<1>7. ASSUME h.type = "reply"
      PROVE  Sent(w) = Sent(x) /\ Answers(w) = Answers(x) \cup {h.reply}
  <2>1. Answers(w) \subseteq Answers(x) \cup {h.reply}
    BY <1>1, <1>2 DEF Answers
  <2>2. Answers(x) \cup {h.reply} \subseteq Answers(w)
    BY <1>1, <1>3, <1>4, <1>7 DEF Answers
  <2>3. Sent(w) = Sent(x)
    BY <1>1, <1>2, <1>3, <1>7 DEF Sent
  <2> QED BY <2>1, <2>2, <2>3
<1>8. ~("action" = "reply")
  OBVIOUS
<1> QED BY <1>5, <1>6, <1>7, <1>8 DEF x, h

\* An empty wire bears nothing.
LEMMA NothingOn ==
    Sent(<<>>) = {} /\ Answers(<<>>) = {} /\ Ordered(<<>>)
BY DEF Sent, Answers, Ordered

\* The order on a wire survives what is appended and what is taken.
LEMMA OrderedAction ==
    ASSUME NEW w \in Seq(Frame), NEW e \in Envelope, Ordered(w),
           \A d \in Sent(w) : d.serverSeq < e.serverSeq,
           \A r \in Answers(w) : Below(r, e.serverSeq)
    PROVE  Ordered(Append(w, [type |-> "action", envelope |-> e]))
<1> DEFINE f == [type |-> "action", envelope |-> e]
           x == Append(w, f)
<1>1. f \in Frame /\ f.type = "action" /\ f.envelope = e
  BY ActionFrame
<1> HIDE DEF f
<1>2. /\ DOMAIN x = 1..(Len(w) + 1) /\ DOMAIN w = 1..Len(w) /\ Len(w) \in Nat
      /\ \A i \in DOMAIN w : x[i] = w[i]
      /\ x[Len(w) + 1] = f
  BY <1>1, Appended
<1> HIDE DEF x
<1>3. \A i \in DOMAIN x : i \in DOMAIN w \/ i = Len(w) + 1
  BY <1>2
<1>4. \A i, j \in DOMAIN x : i < j => i \in DOMAIN w
  BY <1>2
<1>5. \A i \in DOMAIN w : /\ w[i].type = "action" => w[i].envelope \in Sent(w)
                          /\ w[i].type = "reply" => w[i].reply \in Answers(w)
  BY DEF Sent, Answers
<1>6. \A i, j \in DOMAIN x : i < j /\ x[i].type = "action" /\ x[j].type = "action"
          => x[i].envelope.serverSeq < x[j].envelope.serverSeq
  BY <1>1, <1>2, <1>3, <1>4, <1>5 DEF Ordered
<1>7. \A i, j \in DOMAIN x : x[i].type = "reply" /\ x[j].type = "reply" => i = j
  BY <1>1, <1>2, <1>3 DEF Ordered
<1>8. \A i, j \in DOMAIN x : i < j /\ x[i].type = "reply" /\ x[j].type = "action"
          => Below(x[i].reply, x[j].envelope.serverSeq)
  BY <1>1, <1>2, <1>3, <1>4, <1>5 DEF Ordered
<1> QED BY <1>6, <1>7, <1>8 DEF Ordered, x, f

\* The first answer on a wire may come anywhere between the actions.
LEMMA OrderedReply ==
    ASSUME NEW w \in Seq(Frame), NEW r \in Request, Ordered(w), Answers(w) = {}
    PROVE  Ordered(Append(w, [type |-> "reply", reply |-> r]))
<1> DEFINE f == [type |-> "reply", reply |-> r]
           x == Append(w, f)
<1>1. f \in Frame /\ f.type = "reply" /\ f.reply = r
  BY ReplyFrame
<1> HIDE DEF f
<1>2. /\ DOMAIN x = 1..(Len(w) + 1) /\ DOMAIN w = 1..Len(w) /\ Len(w) \in Nat
      /\ \A i \in DOMAIN w : x[i] = w[i]
      /\ x[Len(w) + 1] = f
  BY <1>1, Appended
<1> HIDE DEF x
<1>3. \A i \in DOMAIN x : i \in DOMAIN w \/ i = Len(w) + 1
  BY <1>2
<1>4. \A i, j \in DOMAIN x : i < j => i \in DOMAIN w
  BY <1>2
<1>5. \A i \in DOMAIN w : w[i].type # "reply"
  BY DEF Answers
<1>6. \A i, j \in DOMAIN x : i < j /\ x[i].type = "action" /\ x[j].type = "action"
          => x[i].envelope.serverSeq < x[j].envelope.serverSeq
  BY <1>1, <1>2, <1>3, <1>4 DEF Ordered
<1>7. \A i, j \in DOMAIN x : x[i].type = "reply" /\ x[j].type = "reply" => i = j
  BY <1>1, <1>2, <1>3, <1>5
<1>8. \A i, j \in DOMAIN x : i < j => x[i].type # "reply"
  BY <1>2, <1>4, <1>5
<1> QED BY <1>6, <1>7, <1>8 DEF Ordered, x, f

\* What is taken precedes all that is left.
LEMMA OrderedTail ==
    ASSUME NEW w \in Seq(Frame), w # <<>>, Ordered(w)
    PROVE  /\ Ordered(Tail(w))
           /\ Head(w).type = "action" => \A e \in Sent(Tail(w)) : Head(w).envelope.serverSeq < e.serverSeq
           /\ Head(w).type = "reply" => /\ Answers(Tail(w)) = {}
                                        /\ \A e \in Sent(Tail(w)) : Below(Head(w).reply, e.serverSeq)
<1> DEFINE x == Tail(w)  h == Head(w)
<1>1. /\ h = w[1] /\ Len(w) \in Nat /\ Len(w) >= 1
      /\ DOMAIN w = 1..Len(w) /\ DOMAIN x = 1..(Len(w) - 1)
      /\ \A i \in DOMAIN x : x[i] = w[i + 1]
  BY TailIs
<1> HIDE DEF x, h
<1>2. \A i \in DOMAIN x : i + 1 \in DOMAIN w /\ x[i] = w[i + 1] /\ 1 < i + 1
  BY <1>1
<1>3. 1 \in DOMAIN w
  BY <1>1
<1>4. \A i, j \in DOMAIN x : (i < j => i + 1 < j + 1) /\ (i + 1 = j + 1 => i = j)
  BY <1>1
<1>5. Ordered(x)
  <2>1. \A i, j \in DOMAIN x : i < j /\ x[i].type = "action" /\ x[j].type = "action"
          => x[i].envelope.serverSeq < x[j].envelope.serverSeq
    BY <1>2, <1>4 DEF Ordered
  <2>2. \A i, j \in DOMAIN x : x[i].type = "reply" /\ x[j].type = "reply" => i = j
    BY <1>2, <1>4 DEF Ordered
  <2>3. \A i, j \in DOMAIN x : i < j /\ x[i].type = "reply" /\ x[j].type = "action"
          => Below(x[i].reply, x[j].envelope.serverSeq)
    BY <1>2, <1>4 DEF Ordered
  <2> QED BY <2>1, <2>2, <2>3 DEF Ordered
<1>6. ASSUME h.type = "action", NEW e \in Sent(x)
      PROVE  h.envelope.serverSeq < e.serverSeq
  <2>1. PICK i \in DOMAIN x : x[i].type = "action" /\ e = x[i].envelope
    BY <1>6 DEF Sent
  <2> QED BY <1>1, <1>2, <1>3, <1>6, <2>1 DEF Ordered
<1>7. ASSUME h.type = "reply"
      PROVE  Answers(x) = {}
  <2>1. \A i \in DOMAIN x : x[i].type # "reply"
    BY <1>1, <1>2, <1>3, <1>7 DEF Ordered
  <2> QED BY <2>1 DEF Answers
<1>8. ASSUME h.type = "reply", NEW e \in Sent(x)
      PROVE  Below(h.reply, e.serverSeq)
  <2>1. PICK i \in DOMAIN x : x[i].type = "action" /\ e = x[i].envelope
    BY <1>8 DEF Sent
  <2> QED BY <1>1, <1>2, <1>3, <1>8, <2>1 DEF Ordered
<1> QED BY <1>5, <1>6, <1>7, <1>8 DEF x, h

-----------------------------------------------------------------------------
(* What applying envelopes does to a view, and how far a handler runs *)

\* What applying envelopes does to a view.
LEMMA ApplyDoes ==
    ASSUME NEW v \in View, NEW c \in Channels, NEW X \in SUBSET Envelope, NEW bound \in Nat,
           \A e \in X : e.serverSeq <= bound
    PROVE  LET w == ApplyTo(v, c, X) IN
           /\ w \in View /\ w.held = v.held /\ w.inc = v.inc
           /\ v.upto <= w.upto
           /\ w.upto = v.upto \/ \E e \in X : w.upto = e.serverSeq
           /\ v.held => /\ \A e \in X : e.channel = c => e.serverSeq <= w.upto
                        /\ w.state = v.state \cup {e.serverSeq : e \in {f \in X : f.channel = c /\ f.serverSeq > v.upto /\ f.accepted}}
<1>1. CASE ~v.held
  <2>1. ApplyTo(v, c, X) = v
    BY <1>1 DEF ApplyTo
  <2> QED BY <1>1, <2>1 DEF View
<1>2. CASE v.held
  <2> DEFINE new == {e \in X : e.channel = c /\ e.serverSeq > v.upto}
             numbers == {v.upto} \cup {e.serverSeq : e \in new}
             added == {e.serverSeq : e \in {f \in new : f.accepted}}
             w == [v EXCEPT !.state = v.state \cup added, !.upto = Max0(numbers)]
  <2>1. ApplyTo(v, c, X) = w
    BY <1>2 DEF ApplyTo
  <2>2. v.upto \in Nat /\ v.state \in SUBSET Nat /\ v.inc \in Nat
    BY DEF View
  <2>3. \A e \in X : e.serverSeq \in Nat
    BY DEF Envelope
  <2>4. numbers \in SUBSET Nat /\ added \in SUBSET Nat
    BY <2>2, <2>3
  <2>5. PICK b \in Nat : bound <= b /\ v.upto <= b
    <3>1. CASE bound <= v.upto
      BY <2>2, <3>1
    <3>2. CASE v.upto <= bound
      BY <2>2, <3>2
    <3> QED BY <2>2, <3>1, <3>2
  <2>6. \A n \in numbers : n <= b
    BY <2>2, <2>3, <2>5
  <2>7. v.upto \in numbers /\ \A e \in new : e.serverSeq \in numbers
    OBVIOUS
  <2> HIDE DEF numbers
  <2>8. /\ Max0(numbers) \in numbers \cup {0} /\ Max0(numbers) \in Nat
        /\ \A n \in numbers : n <= Max0(numbers)
    BY <2>4, <2>5, <2>6, Max0Is
  <2>9. Max0(numbers) \in numbers
    BY <2>2, <2>4, <2>7, <2>8
  <2> DEFINE m == Max0(numbers)
  <2>10. m = v.upto \/ \E e \in X : m = e.serverSeq
    BY <2>9 DEF numbers
  <2>11. v.upto <= m /\ m \in Nat
    BY <2>7, <2>8
  <2>12. \A e \in X : e.channel = c => e.serverSeq <= m
    <3> TAKE e \in X
    <3>1. CASE e.serverSeq <= v.upto
      BY <2>2, <2>3, <2>11, <3>1
    <3>2. CASE e.serverSeq > v.upto
      BY <2>7, <2>8, <3>2
    <3> QED BY <2>2, <2>3, <3>1, <3>2
  <2> HIDE DEF m, added, new
  <2>13. /\ w \in View /\ w.held = v.held /\ w.inc = v.inc /\ w.upto = m /\ w.state = v.state \cup added
    BY <2>2, <2>4, <2>11 DEF View, m
  <2>14. added = {e.serverSeq : e \in {f \in X : f.channel = c /\ f.serverSeq > v.upto /\ f.accepted}}
    BY DEF added, new
  <2> QED BY <2>1, <2>10, <2>11, <2>12, <2>13, <2>14
<1> QED BY <1>1, <1>2 DEF View

\* A handler runs up to the first channel that is not in memory.
LEMMA PrefixIs ==
    ASSUME NEW todo \in Seq(Channels)
    PROVE  /\ Prefix(todo) \in 0..Len(todo)
           /\ \A i \in 1..Prefix(todo) : Live(todo[i])
           /\ Prefix(todo) < Len(todo) => ~Live(todo[Prefix(todo) + 1])
<1> DEFINE B == {n \in 0..Len(todo) : n < Len(todo) => ~Live(todo[n + 1])}
<1>1. Len(todo) \in Nat
  OBVIOUS
<1>2. Len(todo) \in B /\ B \in SUBSET Nat
  BY <1>1
<1>3. PICK n \in B : \A m \in B : n <= m
  BY <1>2, LeastNumber
<1>4. ASSUME NEW i \in 1..n
      PROVE  Live(todo[i])
  <2>1. i - 1 \in 0..Len(todo) /\ i - 1 < n /\ n \in Nat /\ i \in Nat
    BY <1>1, <1>3
  <2>2. i - 1 \in B => n <= i - 1
    BY <1>3
  <2>4. ~(n <= i - 1)
    BY <2>1
  <2>3. (i - 1) + 1 = i
    BY <2>1
  <2> QED BY <2>1, <2>2, <2>3, <2>4
<1>5. \E m \in 0..Len(todo) : /\ \A i \in 1..m : Live(todo[i])
                              /\ m < Len(todo) => ~Live(todo[m + 1])
  BY <1>3, <1>4
<1> HIDE DEF B
<1> QED BY <1>5 DEF Prefix

-----------------------------------------------------------------------------
(* What a stretch of a handler does *)

\* What a stretch of a handler does, from req and the subscriptions sub to new
\* and newSub.
Advanced(req, sub, new, newSub) ==
    /\ new.kind = req.kind /\ new.lastSeen = req.lastSeen /\ new.isKnown = req.isKnown
    /\ sub \subseteq newSub /\ newSub \subseteq sub \cup Listed(req.todo)
    /\ \A c \in newSub \ sub : Live(c)
    /\ new.phase \in {"hydrating", "reply"}
    /\ new.phase = "hydrating" => new.todo # <<>>
    /\ new.phase = "reply" => Listed(new.todo) = {}
    /\ Listed(new.todo) \subseteq Listed(req.todo) /\ Listed(req.todo) \subseteq newSub \cup Listed(new.todo)
    /\ Distinct(req.todo) => Distinct(new.todo) /\ Listed(new.todo) \cap (newSub \ sub) = {}
    /\ req.kind # "reconnect" =>
          /\ req.snaps \subseteq new.snaps
          /\ \A s \in new.snaps : s \in req.snaps
                \/ (s = SnapshotOf(s.channel) /\ s.channel \in newSub \cap Listed(req.todo) /\ Live(s.channel))
          /\ \A c \in newSub \ sub : SnapshotOf(c) \in new.snaps
          /\ new.actions = req.actions /\ new.missing = req.missing
          /\ new.phase = "reply" => new.mode = "snapshot" /\ new.current = serverSeq
          /\ new.phase # "reply" => new.current = req.current
    /\ req.kind = "reconnect" =>
          /\ new.current = req.current
          /\ new.phase # "reply" => new.snaps = {} /\ new.actions = req.actions /\ new.missing = req.missing
          /\ new.phase = "reply" =>
                \/ /\ new.mode = "replay" /\ new.isKnown /\ CanReplayFrom(new.lastSeen)
                   /\ new.actions = ReplayFrom(new.lastSeen, newSub)
                   /\ new.missing = req.missing /\ new.snaps = {}
                \/ /\ new.mode = "snapshot" /\ new.actions = req.actions /\ new.missing = {}
                   /\ new.snaps = {SnapshotOf(c) : c \in {d \in newSub : Live(d)}}

\* A snapshot is the state of its channel as of now.
LEMMA SnapshotTyped ==
    ASSUME TypeInv, NEW c \in Channels
    PROVE  SnapshotOf(c) \in Snapshot /\ SnapshotOf(c).channel = c /\ SnapshotOf(c).inc = store[c].inc
           /\ SnapshotOf(c).state = store[c].state /\ SnapshotOf(c).fromSeq = serverSeq
<1>1. store[c] \in ChannelEntry /\ serverSeq \in Nat
  BY DEF TypeInv
<1> QED BY <1>1 DEF SnapshotOf, Snapshot, ChannelEntry, CurrentSeq

\* A replay consists of envelopes.
LEMMA ReplayTyped ==
    ASSUME TypeInv, NEW n, NEW cs
    PROVE  ReplayFrom(n, cs) \in SUBSET Envelope
BY DEF TypeInv, ReplayFrom

\* Field by field, a request is a request.
LEMMA RequestFields ==
    ASSUME NEW r \in Request
    PROVE  /\ r.kind \in {"none", "initialize", "reconnect", "subscribe"}
           /\ r.phase \in {"hydrating", "resumed", "reply"}
           /\ r.todo \in Seq(Channels) /\ r.lastSeen \in Nat
           /\ r.missing \in SUBSET Channels /\ r.snaps \in SUBSET Snapshot /\ r.actions \in SUBSET Envelope
           /\ r.mode \in {"snapshot", "replay", "error"} /\ r.current \in Nat
BY DEF Request

\* A stretch of a handler advances its request and its subscriptions.
LEMMA ProceedDoes ==
    ASSUME TypeInv, NEW k \in Conns, NEW req \in Request, NEW sub \in SUBSET Channels, Proceed(k, req, sub)
    PROVE  \E new \in Request, newSub \in SUBSET Channels :
              /\ subs' = [subs EXCEPT ![k] = newSub] /\ request' = [request EXCEPT ![k] = new]
              /\ Advanced(req, sub, new, newSub)
              /\ Notify(newSub \ sub)
<1> DEFINE n == Prefix(req.todo)
           reached == {req.todo[i] : i \in 1..n}
           newSub == sub \cup reached
           rest == SubSeq(req.todo, n + 1, Len(req.todo))
           snaps == IF req.kind = "reconnect" THEN {} ELSE req.snaps \cup {SnapshotOf(c) : c \in reached}
           visited == [req EXCEPT !.todo = rest, !.snaps = snaps]
           new == IF n < Len(req.todo)
                  THEN [visited EXCEPT !.phase = "hydrating"]
                  ELSE [Finish(visited, newSub) EXCEPT !.phase = "reply"]
<1>1. subs' = [subs EXCEPT ![k] = newSub] /\ request' = [request EXCEPT ![k] = new] /\ Notify(newSub \ sub)
  BY Zenon DEF Proceed
<1>2. req.todo \in Seq(Channels) /\ Len(req.todo) \in Nat /\ DOMAIN req.todo = 1..Len(req.todo)
      /\ \A i \in 1..Len(req.todo) : req.todo[i] \in Channels
  BY RequestFields
<1>3. /\ n \in 0..Len(req.todo)
      /\ \A i \in 1..n : Live(req.todo[i])
  BY <1>2, PrefixIs
<1> HIDE DEF n
<1>4. reached \subseteq Channels /\ reached \subseteq Listed(req.todo) /\ \A c \in reached : Live(c)
  BY <1>2, <1>3 DEF Listed
<1>5. /\ rest \in Seq(Channels) /\ Len(rest) = Len(req.todo) - n
      /\ DOMAIN rest = 1..(Len(req.todo) - n)
      /\ \A i \in 1..(Len(req.todo) - n) : rest[i] = req.todo[n + i]
  <2>1. n + 1 \in Int /\ Len(req.todo) \in Int /\ \A i \in (n + 1)..Len(req.todo) : req.todo[i] \in Channels
    BY <1>2, <1>3
  <2>2. /\ rest \in Seq(Channels)
        /\ Len(rest) = IF n + 1 <= Len(req.todo) THEN Len(req.todo) - (n + 1) + 1 ELSE 0
        /\ \A i \in 1 .. Len(req.todo) - (n + 1) + 1 : rest[i] = req.todo[(n + 1) + i - 1]
    BY <2>1, SubSeqProperties
  <2> QED BY <1>2, <1>3, <2>2
<1> HIDE DEF rest
<1>6. snaps \in SUBSET Snapshot
  <2>1. req.snaps \in SUBSET Snapshot
    BY RequestFields
  <2>2. \A c \in reached : SnapshotOf(c) \in Snapshot
    BY <1>4, SnapshotTyped
  <2> QED BY <2>1, <2>2
<1> HIDE DEF reached
<1>7. Listed(rest) \subseteq Listed(req.todo) /\ Listed(req.todo) \subseteq reached \cup Listed(rest)
  <2>1. \A i \in DOMAIN rest : n + i \in DOMAIN req.todo /\ rest[i] = req.todo[n + i]
    BY <1>2, <1>3, <1>5
  <2>2. \A i \in DOMAIN req.todo : i \in 1..n \/ (i - n \in DOMAIN rest /\ rest[i - n] = req.todo[i])
    BY <1>2, <1>3, <1>5
  <2> QED BY <2>1, <2>2 DEF Listed, reached
<1>8. Distinct(req.todo) => Distinct(rest) /\ Listed(rest) \cap reached = {}
  <2> SUFFICES ASSUME Distinct(req.todo) PROVE Distinct(rest) /\ Listed(rest) \cap reached = {}
    OBVIOUS
  <2>1. \A i \in DOMAIN rest : n + i \in DOMAIN req.todo /\ rest[i] = req.todo[n + i] /\ i \in Nat /\ n + i \notin 1..n
    BY <1>2, <1>3, <1>5
  <2>2. \A i \in 1..n : i \in DOMAIN req.todo
    BY <1>2, <1>3
  <2>3. n \in Nat
    BY <1>3
  <2>4. Distinct(rest)
    <3> SUFFICES ASSUME NEW i \in DOMAIN rest, NEW j \in DOMAIN rest, rest[i] = rest[j]
                 PROVE  i = j
      BY DEF Distinct
    <3>1. n + i = n + j
      BY <2>1 DEF Distinct
    <3> QED BY <2>1, <2>3, <3>1
  <2>5. \A i \in DOMAIN rest, j \in 1..n : rest[i] # req.todo[j]
    BY <2>1, <2>2 DEF Distinct
  <2> QED BY <2>4, <2>5 DEF Listed, reached
<1>13. ASSUME req.kind # "reconnect"
       PROVE  /\ req.snaps \subseteq snaps
              /\ \A s \in snaps : s \in req.snaps
                    \/ (s = SnapshotOf(s.channel) /\ s.channel \in newSub \cap Listed(req.todo) /\ Live(s.channel))
              /\ \A c \in newSub \ sub : SnapshotOf(c) \in snaps
  <2>1. snaps = req.snaps \cup {SnapshotOf(c) : c \in reached}
    BY <1>13
  <2>2. \A c \in newSub \ sub : c \in reached
    OBVIOUS
  <2>3. \A c \in reached : SnapshotOf(c).channel = c /\ Live(c) /\ c \in newSub /\ c \in Listed(req.todo)
    BY <1>4, SnapshotTyped
  <2> HIDE DEF snaps, newSub
  <2>4. ASSUME NEW s \in snaps, s \notin req.snaps
        PROVE  s = SnapshotOf(s.channel) /\ s.channel \in newSub \cap Listed(req.todo) /\ Live(s.channel)
    <3>1. PICK c \in reached : s = SnapshotOf(c)
      BY <2>1, <2>4
    <3>2. s.channel = c
      BY <2>3, <3>1
    <3> QED BY <2>3, <3>1, <3>2
  <2>5. \A c \in newSub \ sub : SnapshotOf(c) \in snaps
    BY <2>1, <2>2
  <2>6. req.snaps \subseteq snaps
    BY <2>1
  <2> QED BY <2>4, <2>5, <2>6
<1> HIDE DEF snaps
<1>9. /\ visited \in Request /\ visited.todo = rest /\ visited.snaps = snaps
      /\ visited.kind = req.kind /\ visited.lastSeen = req.lastSeen /\ visited.isKnown = req.isKnown
      /\ visited.actions = req.actions /\ visited.missing = req.missing /\ visited.mode = req.mode
      /\ visited.current = req.current
  BY <1>5, <1>6 DEF Request
<1> HIDE DEF visited
<1>10. newSub \in SUBSET Channels
  BY <1>4
<1>11. ASSUME n < Len(req.todo)
       PROVE  new \in Request /\ Advanced(req, sub, new, newSub)
  <2>1. new = [visited EXCEPT !.phase = "hydrating"]
    BY <1>11
  <2>2. /\ new \in Request /\ new.phase = "hydrating" /\ new.todo = rest /\ new.snaps = snaps
        /\ new.kind = req.kind /\ new.lastSeen = req.lastSeen /\ new.isKnown = req.isKnown
        /\ new.actions = req.actions /\ new.missing = req.missing /\ new.mode = req.mode
        /\ new.current = req.current
    BY <1>9, <2>1 DEF Request
  <2>3. rest # <<>>
    BY <1>2, <1>3, <1>5, <1>11
  <2> HIDE DEF new
  <2>4. req.kind # "reconnect" =>
          /\ req.snaps \subseteq new.snaps
          /\ \A s \in new.snaps : s \in req.snaps
                \/ (s = SnapshotOf(s.channel) /\ s.channel \in newSub \cap Listed(req.todo) /\ Live(s.channel))
          /\ \A c \in newSub \ sub : SnapshotOf(c) \in new.snaps
    BY <1>13, <2>2
  <2>5. req.kind = "reconnect" => new.snaps = {}
    BY <2>2 DEF snaps
  <2> QED BY <1>4, <1>7, <1>8, <2>2, <2>3, <2>4, <2>5 DEF Advanced
<1>12. ASSUME ~(n < Len(req.todo))
       PROVE  new \in Request /\ Advanced(req, sub, new, newSub)
  <2>1. new = [Finish(visited, newSub) EXCEPT !.phase = "reply"]
    BY <1>12
  <2>2. Listed(rest) = {}
    BY <1>2, <1>3, <1>5, <1>12 DEF Listed
  <2>3. CASE req.kind = "reconnect" /\ req.isKnown /\ CanReplayFrom(req.lastSeen)
    <3>1. Finish(visited, newSub) = [visited EXCEPT !.mode = "replay", !.actions = ReplayFrom(req.lastSeen, newSub)]
      BY <1>9, <2>3 DEF Finish
    <3>2. ReplayFrom(req.lastSeen, newSub) \in SUBSET Envelope
      BY ReplayTyped
    <3>3. /\ new \in Request /\ new.phase = "reply" /\ new.todo = rest /\ new.snaps = snaps
          /\ new.kind = req.kind /\ new.lastSeen = req.lastSeen /\ new.isKnown = req.isKnown
          /\ new.actions = ReplayFrom(req.lastSeen, newSub) /\ new.missing = req.missing /\ new.mode = "replay"
          /\ new.current = req.current
      BY <1>9, <2>1, <3>1, <3>2, ZenonT(30) DEF Request
    <3> HIDE DEF new
    <3>4. new.snaps = {}
      BY <2>3, <3>3 DEF snaps
    <3> QED BY <1>4, <1>7, <1>8, <2>2, <2>3, <3>3, <3>4 DEF Advanced
  <2>4. CASE req.kind = "reconnect" /\ ~(req.isKnown /\ CanReplayFrom(req.lastSeen))
    <3> DEFINE shown == {SnapshotOf(c) : c \in {d \in newSub : Live(d)}}
    <3>1. Finish(visited, newSub) = [visited EXCEPT !.mode = "snapshot", !.missing = {}, !.snaps = shown]
      BY <1>9, <2>4 DEF Finish
    <3>2. shown \in SUBSET Snapshot
      BY <1>10, SnapshotTyped
    <3> HIDE DEF shown
    <3>3. /\ new \in Request /\ new.phase = "reply" /\ new.todo = rest /\ new.snaps = shown
          /\ new.kind = req.kind /\ new.lastSeen = req.lastSeen /\ new.isKnown = req.isKnown
          /\ new.actions = req.actions /\ new.missing = {} /\ new.mode = "snapshot"
          /\ new.current = req.current
      BY <1>9, <2>1, <3>1, <3>2, ZenonT(30) DEF Request
    <3> HIDE DEF new
    <3> QED BY <1>4, <1>7, <1>8, <2>2, <2>4, <3>3 DEF Advanced, shown
  <2>5. CASE req.kind # "reconnect"
    <3>1. Finish(visited, newSub) = [visited EXCEPT !.mode = "snapshot", !.current = serverSeq]
      BY <1>9, <2>5 DEF Finish, CurrentSeq
    <3>2. serverSeq \in Nat
      BY DEF TypeInv
    <3>3. /\ new \in Request /\ new.phase = "reply" /\ new.todo = rest /\ new.snaps = snaps
          /\ new.kind = req.kind /\ new.lastSeen = req.lastSeen /\ new.isKnown = req.isKnown
          /\ new.actions = req.actions /\ new.missing = req.missing /\ new.mode = "snapshot"
          /\ new.current = serverSeq
      BY <1>9, <2>1, <3>1, <3>2, ZenonT(30) DEF Request
    <3> HIDE DEF new
    <3>4. /\ req.snaps \subseteq new.snaps
          /\ \A s \in new.snaps : s \in req.snaps
                \/ (s = SnapshotOf(s.channel) /\ s.channel \in newSub \cap Listed(req.todo) /\ Live(s.channel))
          /\ \A c \in newSub \ sub : SnapshotOf(c) \in new.snaps
      BY <1>13, <2>5, <3>3
    <3> QED BY <1>4, <1>7, <1>8, <2>2, <2>5, <3>3, <3>4 DEF Advanced
  <2> QED BY <2>3, <2>4, <2>5
<1> HIDE DEF new, newSub
<1> QED BY <1>1, <1>10, <1>11, <1>12

-----------------------------------------------------------------------------
(* What the other steps of the host do *)

\* What an emitted envelope is.
LEMMA EnvelopeIs ==
    ASSUME serverSeq \in Nat, NEW c \in Channels, NEW a \in BOOLEAN
    PROVE  LET e == NextEnvelope(c, a) IN
           e \in Envelope /\ e.serverSeq = serverSeq + 1 /\ e.channel = c /\ e.accepted = a
BY DEF NextEnvelope, Envelope

\* The buffer loses at most its first envelope and gains one at its end.
LEMMA EmitDoes ==
    ASSUME TypeInv, NEW c \in Channels, NEW a \in BOOLEAN, Emit(c, a)
    PROVE  /\ serverSeq' = serverSeq + 1 /\ serverSeq' \in Nat
           /\ buffer' \in Seq(Envelope)
           /\ \E o \in {0, 1} :
                 /\ o <= Len(buffer) + 1 /\ Len(buffer') = Len(buffer) + 1 - o
                 /\ DOMAIN buffer' = 1..(Len(buffer) + 1 - o)
                 /\ \A i \in DOMAIN buffer' :
                       IF i + o \in DOMAIN buffer THEN buffer'[i] = buffer[i + o]
                       ELSE buffer'[i] = NextEnvelope(c, a) /\ i + o = Len(buffer) + 1
<1> DEFINE e == NextEnvelope(c, a)
           grown == Append(buffer, e)
<1>1. serverSeq \in Nat /\ buffer \in Seq(Envelope) /\ Len(buffer) \in Nat /\ DOMAIN buffer = 1..Len(buffer)
  BY DEF TypeInv
<1>2. e \in Envelope
  BY <1>1, EnvelopeIs
<1>3. /\ serverSeq' = serverSeq + 1
      /\ buffer' = IF Len(grown) > Retained THEN Tail(grown) ELSE grown
  BY DEF Emit
<1> HIDE DEF e
<1>4. /\ grown \in Seq(Envelope) /\ Len(grown) = Len(buffer) + 1
      /\ \A i \in 1..Len(buffer) : grown[i] = buffer[i]
      /\ grown[Len(buffer) + 1] = e
  BY <1>1, <1>2
<1> HIDE DEF grown
<1>5. CASE buffer' = grown
  <2>1. \A i \in DOMAIN buffer' : IF i + 0 \in DOMAIN buffer THEN buffer'[i] = buffer[i + 0]
                                  ELSE buffer'[i] = e /\ i + 0 = Len(buffer) + 1
    BY <1>1, <1>4, <1>5
  <2> QED BY <1>1, <1>3, <1>4, <1>5, <2>1 DEF e
<1>6. CASE buffer' = Tail(grown)
  <2>1. /\ Tail(grown) \in Seq(Envelope) /\ Len(Tail(grown)) = Len(buffer)
        /\ DOMAIN Tail(grown) = 1..Len(buffer)
        /\ \A i \in 1..Len(buffer) : Tail(grown)[i] = grown[i + 1]
    BY <1>1, <1>4
  <2>2. \A i \in DOMAIN buffer' : IF i + 1 \in DOMAIN buffer THEN buffer'[i] = buffer[i + 1]
                                  ELSE buffer'[i] = e /\ i + 1 = Len(buffer) + 1
    BY <1>1, <1>4, <1>6, <2>1
  <2>3. Len(buffer) + 1 - 1 = Len(buffer)
    BY <1>1
  <2> QED BY <1>1, <1>3, <1>4, <1>6, <2>1, <2>2, <2>3 DEF e
<1> QED BY <1>3, <1>5, <1>6

\* An envelope reaches the open connections that are subscribed.
LEMMA BroadcastDoes ==
    ASSUME TypeInv, NEW c \in Channels, NEW a \in BOOLEAN, Broadcast(c, a)
    PROVE  LET e == NextEnvelope(c, a) IN
           /\ wire' \in [Conns -> Seq(Frame)]
           /\ \A k \in Conns :
                 IF k \in attached /\ c \in subs[k] /\ up[k]
                 THEN /\ wire'[k] = Append(wire[k], [type |-> "action", envelope |-> e])
                      /\ Sent(wire'[k]) = Sent(wire[k]) \cup {e}
                      /\ Answers(wire'[k]) = Answers(wire[k])
                 ELSE wire'[k] = wire[k]
<1> DEFINE e == NextEnvelope(c, a)
           f == [type |-> "action", envelope |-> e]
<1>1. e \in Envelope /\ f \in Frame
  BY EnvelopeIs, ActionFrame DEF TypeInv
<1>2. \A k \in Conns : wire[k] \in Seq(Frame)
  BY DEF TypeInv
<1>3. wire' = [k \in Conns |-> IF k \in Subscribers(attached, subs, c) /\ up[k] THEN Append(wire[k], f) ELSE wire[k]]
  BY DEF Broadcast, SendTo
<1> HIDE DEF e
<1>4. ASSUME NEW k \in Conns, k \in attached /\ c \in subs[k] /\ up[k]
      PROVE  /\ wire'[k] = Append(wire[k], f) /\ wire'[k] \in Seq(Frame)
             /\ Sent(wire'[k]) = Sent(wire[k]) \cup {e}
             /\ Answers(wire'[k]) = Answers(wire[k])
  <2>1. wire'[k] = Append(wire[k], f)
    BY <1>3, <1>4 DEF Subscribers
  <2> QED BY <1>1, <1>2, <2>1, AppendAction
<1>5. ASSUME NEW k \in Conns, ~(k \in attached /\ c \in subs[k] /\ up[k])
      PROVE  wire'[k] = wire[k]
  BY <1>3, <1>5 DEF Subscribers
<1>6. wire' \in [Conns -> Seq(Frame)]
  <2>1. \A k \in Conns : wire'[k] \in Seq(Frame)
    BY <1>2, <1>4, <1>5
  <2> HIDE DEF f
  <2> QED BY <1>3, <2>1
<1> QED BY <1>4, <1>5, <1>6 DEF e

\* SendReply hands the answer over to the wire; a closed socket loses it.
LEMMA SendReplyDoes ==
    ASSUME TypeInv, NEW k \in Conns, SendReply(k)
    PROVE  /\ wire' \in [Conns -> Seq(Frame)] /\ request' = [request EXCEPT ![k] = NoRequest]
           /\ \A l \in Conns : l # k => wire'[l] = wire[l]
           /\ IF up[k] THEN /\ wire'[k] = Append(wire[k], [type |-> "reply", reply |-> request[k]])
                            /\ Sent(wire'[k]) = Sent(wire[k])
                            /\ Answers(wire'[k]) = Answers(wire[k]) \cup {request[k]}
              ELSE wire'[k] = wire[k]
<1> DEFINE f == [type |-> "reply", reply |-> request[k]]
<1>1. request[k] \in Request
  BY DEF TypeInv
<1>2. \A l \in Conns : wire[l] \in Seq(Frame)
  BY DEF TypeInv
<1>3. f \in Frame
  BY <1>1, ReplyFrame
<1>4. /\ wire' = [l \in Conns |-> IF l \in {k} /\ up[l] THEN Append(wire[l], f) ELSE wire[l]]
      /\ request' = [request EXCEPT ![k] = NoRequest]
  BY DEF SendReply, SendTo
<1>5. up[k] => wire'[k] = Append(wire[k], f)
  BY <1>4
<1>6. up[k] => /\ Sent(wire'[k]) = Sent(wire[k])
               /\ Answers(wire'[k]) = Answers(wire[k]) \cup {request[k]}
  BY <1>1, <1>2, <1>5, AppendReply
<1>7. (\A l \in Conns : l # k => wire'[l] = wire[l]) /\ (~up[k] => wire'[k] = wire[k])
  BY <1>4
<1>8. \A l \in Conns : wire'[l] \in Seq(Frame)
  <2>1. Append(wire[k], f) \in Seq(Frame)
    BY <1>2, <1>3
  <2> QED BY <1>2, <1>5, <1>7, <2>1
<1> HIDE DEF f
<1>9. wire' \in [Conns -> Seq(Frame)]
  BY <1>4, <1>8
<1> QED BY <1>4, <1>5, <1>6, <1>7, <1>9 DEF f

\* One connection's request changes, and nothing on the wire.
LEMMA NoRequestIs ==
    NoRequest \in Request /\ NoRequest.kind = "none" /\ NoRequest.snaps = {} /\ NoRequest.actions = {}
    /\ NoRequest.current = 0 /\ NoRequest.todo = <<>> /\ NoRequest.missing = {} /\ NoRequest.phase = "reply"
BY DEF NoRequest, Request

-----------------------------------------------------------------------------
(* What is around, before and after a step *)

\* What a connection owes is typed.
LEMMA PendingTyped ==
    ASSUME TypeInv, NEW k \in Conns
    PROVE  Pending(k) \subseteq Request
<1>1. wire[k] \in Seq(Frame) /\ request[k] \in Request
  BY DEF TypeInv
<1> QED BY <1>1, SentTyped DEF Pending, Owed

\* What counts as around.
LEMMA AroundHas ==
    /\ \A i \in DOMAIN buffer : buffer[i] \in Around
    /\ \A client \in Clients : early[client] \subseteq Around
    /\ \A k \in Conns : Sent(wire[k]) \subseteq Around
    /\ \A k \in Conns : \A r \in Pending(k) : r.actions \subseteq Around
<1>1. \A i \in DOMAIN buffer : buffer[i] \in Around
  BY DEF Around
<1>2. \A client \in Clients : early[client] \subseteq Around
  BY DEF Around
<1>3. \A k \in Conns : Sent(wire[k]) \subseteq Around
  BY DEF Around
<1>4. ASSUME NEW k \in Conns, NEW r \in Pending(k), NEW e \in r.actions
      PROVE  e \in Around
  <2>1. e \in UNION {s.actions : s \in Pending(k)}
    OBVIOUS
  <2>2. e \in UNION {UNION {s.actions : s \in Pending(l)} : l \in Conns}
    BY <2>1
  <2> QED BY <2>2 DEF Around
<1> QED BY <1>1, <1>2, <1>3, <1>4

\* Whatever is around is in one of these places.
LEMMA AroundIs ==
    ASSUME NEW e \in Around
    PROVE  \/ \E i \in DOMAIN buffer : e = buffer[i]
           \/ \E client \in Clients : e \in early[client]
           \/ \E k \in Conns : e \in Sent(wire[k])
           \/ \E k \in Conns : \E r \in Pending(k) : e \in r.actions
<1>1. \/ e \in {buffer[i] : i \in DOMAIN buffer}
      \/ e \in UNION {early[client] : client \in Clients}
      \/ e \in UNION {Sent(wire[k]) : k \in Conns}
      \/ e \in UNION {UNION {r.actions : r \in Pending(k)} : k \in Conns}
  BY DEF Around
<1>2. ASSUME e \in UNION {UNION {r.actions : r \in Pending(k)} : k \in Conns}
      PROVE  \E k \in Conns : \E r \in Pending(k) : e \in r.actions
  <2>1. PICK k \in Conns : e \in UNION {r.actions : r \in Pending(k)}
    BY <1>2
  <2> QED BY <2>1
<1> QED BY <1>1, <1>2

\* What is around is typed.
LEMMA AroundTyped ==
    ASSUME TypeInv
    PROVE  \A e \in Around : e \in Envelope /\ e.serverSeq \in Nat /\ e.channel \in Channels /\ e.accepted \in BOOLEAN
<1>1. \A i \in DOMAIN buffer : buffer[i] \in Envelope
  BY DEF TypeInv
<1>2. \A client \in Clients : early[client] \subseteq Envelope
  BY DEF TypeInv
<1>3. \A k \in Conns : Sent(wire[k]) \subseteq Envelope
  BY SentTyped DEF TypeInv
<1>4. \A k \in Conns : \A r \in Pending(k) : r.actions \subseteq Envelope
  BY PendingTyped, RequestFields
<1>5. \A e \in Around : e \in Envelope
  BY <1>1, <1>2, <1>3, <1>4, AroundIs
<1> QED BY <1>5 DEF Envelope

\* Where the envelopes of the next state come from.
LEMMA AroundNext ==
    ASSUME NEW N,
           \A i \in DOMAIN buffer' : buffer'[i] \in N,
           \A client \in Clients : \A e \in early'[client] : e \in N,
           \A k \in Conns : \A e \in Sent(wire'[k]) : e \in N,
           \A k \in Conns : \A r \in Pending(k)' : \A e \in r.actions : e \in N
    PROVE  \A e \in Around' : e \in N
<1> SUFFICES ASSUME NEW e \in Around' PROVE e \in N
  OBVIOUS
<1>1. \/ \E i \in DOMAIN buffer' : e = buffer'[i]
      \/ \E client \in Clients : e \in early'[client]
      \/ \E k \in Conns : e \in Sent(wire'[k])
      \/ \E k \in Conns : \E r \in Pending(k)' : e \in r.actions
  <2>1. \/ e \in {buffer'[i] : i \in DOMAIN buffer'}
        \/ e \in UNION {early'[client] : client \in Clients}
        \/ e \in UNION {Sent(wire'[k]) : k \in Conns}
        \/ e \in UNION {UNION {r.actions : r \in Pending(k)'} : k \in Conns}
    BY DEF Around
  <2>2. ASSUME e \in UNION {UNION {r.actions : r \in Pending(k)'} : k \in Conns}
        PROVE  \E k \in Conns : \E r \in Pending(k)' : e \in r.actions
    <3>1. PICK k \in Conns : e \in UNION {r.actions : r \in Pending(k)'}
      BY <2>2
    <3> QED BY <3>1
  <2> QED BY <2>1, <2>2
<1> QED BY <1>1

\* Steps that leave buffer, wires, requests and what was set aside alone.
LEMMA CalmStep ==
    ASSUME UNCHANGED <<buffer, wire, request, early>>
    PROVE  Around' = Around /\ \A k \in Conns : Pending(k)' = Pending(k) /\ Answers(wire'[k]) = Answers(wire[k])
BY DEF Around, Pending, Owed, Sent, Answers

\* A request of one connection is replaced.
LEMMA RequestStep ==
    ASSUME TypeInv, NEW k \in Conns, NEW new \in Request, request' = [request EXCEPT ![k] = new],
           UNCHANGED <<buffer, wire, early>>
    PROVE  /\ \A l \in Conns : l # k => Pending(l)' = Pending(l)
           /\ Pending(k)' = Owed(wire[k], new)
           /\ \A l \in Conns : Answers(wire'[l]) = Answers(wire[l])
           /\ \A e \in Around' : e \in Around \cup new.actions
<1>1. request'[k] = new /\ \A l \in Conns : l # k => request'[l] = request[l]
  BY DEF TypeInv
<1>2. \A l \in Conns : l # k => Pending(l)' = Pending(l)
  BY <1>1 DEF Pending
<1>3. Pending(k)' = Owed(wire[k], new)
  BY <1>1 DEF Pending
<1>4. \A r \in Pending(k)' : r = new \/ r \in Pending(k)
  BY <1>3 DEF Pending, Owed
<1>5. \A l \in Conns : \A r \in Pending(l)' : \A e \in r.actions : e \in Around \cup new.actions
  BY <1>2, <1>4, AroundHas
<1>6. \A e \in Around' : e \in Around \cup new.actions
  BY <1>5, AroundHas, AroundNext
<1> QED BY <1>2, <1>3, <1>6

\* An emitted envelope is the only new one.
LEMMA EmitStep ==
    ASSUME TypeInv, NEW c \in Channels, NEW a \in BOOLEAN, Emit(c, a), Broadcast(c, a),
           UNCHANGED <<request, early>>
    PROVE  /\ \A k \in Conns : Pending(k)' = Pending(k) /\ Answers(wire'[k]) = Answers(wire[k])
           /\ \A e \in Around' : e \in Around \cup {NextEnvelope(c, a)}
<1> DEFINE new == NextEnvelope(c, a)
<1> HIDE DEF new
<1>1. \A i \in DOMAIN buffer' : buffer'[i] \in Around \cup {new}
  <2>1. PICK o \in {0, 1} : \A i \in DOMAIN buffer' :
                IF i + o \in DOMAIN buffer THEN buffer'[i] = buffer[i + o]
                ELSE buffer'[i] = new /\ i + o = Len(buffer) + 1
    BY EmitDoes DEF new
  <2> QED BY <2>1, AroundHas
<1>2. \A k \in Conns : /\ Sent(wire'[k]) \subseteq Sent(wire[k]) \cup {new}
                       /\ Answers(wire'[k]) = Answers(wire[k])
  BY BroadcastDoes DEF new
<1>3. \A k \in Conns : Pending(k)' = Pending(k)
  BY <1>2 DEF Pending, Owed
<1>4. \A e \in Around' : e \in Around \cup {new}
  <2>1. \A k \in Conns : \A e \in Sent(wire'[k]) : e \in Around \cup {new}
    BY <1>2, AroundHas
  <2>2. \A k \in Conns : \A r \in Pending(k)' : \A e \in r.actions : e \in Around \cup {new}
    BY <1>3, AroundHas
  <2>3. \A client \in Clients : \A e \in early'[client] : e \in Around \cup {new}
    BY AroundHas
  <2> QED BY <1>1, <2>1, <2>2, <2>3, AroundNext
<1> QED BY <1>2, <1>3, <1>4 DEF new

\* An answer goes from its handler to the wire: it is pending before and after.
LEMMA SendReplyStep ==
    ASSUME TypeInv, NEW k \in Conns, SendReply(k)
    PROVE  /\ \A l \in Conns : l # k => Pending(l)' = Pending(l) /\ Answers(wire'[l]) = Answers(wire[l])
           /\ up[k] => Pending(k)' = Pending(k)
           /\ Pending(k)' \subseteq Pending(k)
           /\ \A r \in Answers(wire'[k]) : r \in Answers(wire[k]) \/ r = request[k]
           /\ \A e \in Around' : e \in Around
<1>1. /\ \A l \in Conns : l # k => wire'[l] = wire[l]
      /\ request' = [request EXCEPT ![k] = NoRequest]
      /\ up[k] => /\ Sent(wire'[k]) = Sent(wire[k])
                  /\ Answers(wire'[k]) = Answers(wire[k]) \cup {request[k]}
      /\ ~up[k] => wire'[k] = wire[k]
  BY SendReplyDoes
<1>2. request[k].kind # "none" /\ UNCHANGED <<buffer, early>>
  BY DEF SendReply, seqVars, clientVars
<1>3. request'[k] = NoRequest /\ \A l \in Conns : l # k => request'[l] = request[l]
  BY <1>1 DEF TypeInv
<1>4. \A l \in Conns : l # k => Pending(l)' = Pending(l) /\ Answers(wire'[l]) = Answers(wire[l])
  BY <1>1, <1>3 DEF Pending
<1>5. Pending(k)' = Answers(wire'[k])
  BY <1>3, NoRequestIs DEF Pending, Owed
<1>6. Pending(k) = Answers(wire[k]) \cup {request[k]}
  BY <1>2 DEF Pending, Owed
<1>7. \A l \in Conns : Sent(wire'[l]) = Sent(wire[l])
  BY <1>1
<1>8. \A l \in Conns : \A r \in Pending(l)' : \A e \in r.actions : e \in Around
  BY <1>1, <1>4, <1>5, <1>6, AroundHas
<1>9. \A e \in Around' : e \in Around
  <2>1. \A l \in Conns : \A e \in Sent(wire'[l]) : e \in Around
    BY <1>7, AroundHas
  <2>2. (\A i \in DOMAIN buffer' : buffer'[i] \in Around) /\ \A client \in Clients : \A e \in early'[client] : e \in Around
    BY <1>2, AroundHas
  <2> QED BY <1>8, <2>1, <2>2, AroundNext
<1> QED BY <1>1, <1>4, <1>5, <1>6, <1>9

\* Wires that are cut lose what is on them.
LEMMA CutStep ==
    ASSUME TypeInv, NEW cut \in SUBSET Conns,
           wire' = [k \in Conns |-> IF k \in cut THEN <<>> ELSE wire[k]],
           UNCHANGED <<buffer, request>>, \A client \in Clients : early'[client] \subseteq early[client]
    PROVE  /\ wire' \in [Conns -> Seq(Frame)]
           /\ \A k \in Conns : k \notin cut => wire'[k] = wire[k] /\ Pending(k)' = Pending(k)
           /\ \A k \in Conns : k \in cut => wire'[k] = <<>>
           /\ \A k \in Conns : Pending(k)' \subseteq Pending(k) /\ Answers(wire'[k]) \subseteq Answers(wire[k])
           /\ \A e \in Around' : e \in Around
<1>1. \A k \in Conns : IF k \in cut THEN wire'[k] = <<>> ELSE wire'[k] = wire[k]
  OBVIOUS
<1>2. wire' \in [Conns -> Seq(Frame)]
  BY <1>1 DEF TypeInv
<1>3. \A k \in Conns : Sent(wire'[k]) \subseteq Sent(wire[k]) /\ Answers(wire'[k]) \subseteq Answers(wire[k])
  BY <1>1, NothingOn
<1>4. \A k \in Conns : Pending(k)' \subseteq Pending(k)
  BY <1>3 DEF Pending, Owed
<1>5. \A k \in Conns : k \notin cut => Pending(k)' = Pending(k)
  BY <1>1 DEF Pending
<1>6. \A e \in Around' : e \in Around
  <2>1. \A k \in Conns : \A e \in Sent(wire'[k]) : e \in Around
    BY <1>3, AroundHas
  <2>2. \A k \in Conns : \A r \in Pending(k)' : \A e \in r.actions : e \in Around
    BY <1>4, AroundHas
  <2>3. (\A i \in DOMAIN buffer' : buffer'[i] \in Around) /\ \A client \in Clients : \A e \in early'[client] : e \in Around
    BY AroundHas
  <2> QED BY <2>1, <2>2, <2>3, AroundNext
<1> QED BY <1>1, <1>2, <1>3, <1>4, <1>5, <1>6

-----------------------------------------------------------------------------
(* DataInv, kind of step by kind of step *)

\* The socket of a client that has one is a socket.
LEMMA LinkTyped ==
    ASSUME HostInv, NEW client \in Clients, link[client] # NoConn
    PROVE  link[client] \in Conns
BY DEF HostInv, ConnInv, ConnTypes

\* Nothing bears a number at first.
LEMMA InitData == Init => DataInv
<1> SUFFICES ASSUME Init PROVE DataInv
  OBVIOUS
<1>1. NoView \in View
  BY DEF NoView, View
<1>2. \A c \in Channels : store[c] = IF c = Root THEN [live |-> TRUE, inc |-> 1, state |-> {}] ELSE NoEntry
  BY DEF Init
<1>3. store \in [Channels -> ChannelEntry]
  <2>1. [live |-> TRUE, inc |-> 1, state |-> {}] \in ChannelEntry /\ NoEntry \in ChannelEntry
    BY DEF ChannelEntry, NoEntry
  <2> QED BY <2>1 DEF Init
<1>4. \A k \in Conns : wire[k] = <<>> /\ request[k] = NoRequest
  BY DEF Init
<1>5. \A k \in Conns : Pending(k) = {} /\ Answers(wire[k]) = {} /\ Sent(wire[k]) = {}
  BY <1>4, NothingOn, NoRequestIs DEF Pending, Owed
<1>6. \A e \in Around : FALSE
  <2>1. DOMAIN buffer = {} /\ \A client \in Clients : early[client] = {}
    BY DEF Init, SeqInit
  <2> QED BY <1>5, <2>1, AroundIs
<1>7. TypeInv
  <2>1. serverSeq \in Nat /\ buffer \in Seq(Envelope) /\ known \subseteq Clients
    BY DEF Init, SeqInit
  <2>2. subs \in [Conns -> SUBSET Channels] /\ up \in [Conns -> BOOLEAN] /\ orphaned \in [Conns -> SUBSET Channels]
    BY DEF Init
  <2>3. request \in [Conns -> Request] /\ wire \in [Conns -> Seq(Frame)]
    BY NoRequestIs DEF Init
  <2>4. incs \in Nat /\ losses \in Nat /\ process \in Nat
    BY DEF Init
  <2>5. /\ waiting \in [Clients -> {"none", "handshake", "subscribe"}]
        /\ lastSeen \in [Clients -> Nat] /\ seenIn \in [Clients -> Nat]
        /\ early \in [Clients -> SUBSET Envelope]
    BY DEF Init
  <2>6. view \in [Clients -> [Channels -> View]]
    BY <1>1 DEF Init
  <2> QED BY <1>3, <2>1, <2>2, <2>3, <2>4, <2>5, <2>6 DEF TypeInv
<1>8. ASSUME NEW c \in Channels
      PROVE  store[c].inc <= incs
  <2>1. incs = 1 /\ (store[c].inc = 1 \/ store[c].inc = 0)
    BY <1>2 DEF Init, NoEntry
  <2> QED BY <2>1
<1> QED BY <1>5, <1>6, <1>7, <1>8 DEF DataInv

\* What is proper stays proper as numbers and channels are added.
LEMMA ProperLater ==
    ASSUME NEW r \in Request, NEW n \in Nat, NEW i \in Nat, NEW m \in Nat, NEW j \in Nat,
           Proper(r, n, i), n <= m, i <= j
    PROVE  Proper(r, m, j)
<1>1. /\ r.current \in Nat
      /\ \A s \in r.snaps : s.fromSeq \in Nat /\ s.inc \in Nat
      /\ \A e \in r.actions : e.serverSeq \in Nat
  BY RequestFields DEF Snapshot, Envelope
<1> QED BY <1>1 DEF Proper, Below

\* Steps that neither send nor receive.
LEMMA CalmKeepsData ==
    ASSUME DataInv, TypeInv', UNCHANGED <<serverSeq, buffer, wire, request, early>>,
           incs <= incs', \A c \in Channels : store'[c].inc <= incs'
    PROVE  DataInv'
<1>1. Around' = Around /\ \A k \in Conns : Pending(k)' = Pending(k) /\ Answers(wire'[k]) = Answers(wire[k])
  BY CalmStep
<1>2. serverSeq + 1 \in Nat /\ incs \in Nat /\ incs' \in Nat
  BY DEF DataInv, TypeInv
<1>3. ASSUME NEW k \in Conns, NEW r \in Pending(k)'
      PROVE  Proper(r, serverSeq' + 1, incs')
  <2>1. r \in Request /\ Proper(r, serverSeq + 1, incs)
    BY <1>1, <1>3, PendingTyped DEF DataInv
  <2> QED BY <1>2, <2>1, ProperLater
<1> QED BY <1>1, <1>3 DEF DataInv

\* A new envelope bears the number just allocated.
LEMMA EmitKeepsData ==
    ASSUME DataInv, NEW c \in Channels, Commit(c) \/ RejectAction(c)
    PROVE  DataInv'
<1>1. PICK a \in BOOLEAN : Emit(c, a) /\ Broadcast(c, a)
  BY DEF Commit, RejectAction
<1>2. UNCHANGED <<subs, known, request, up, incs, losses, process, orphaned, waiting, lastSeen, view, early, seenIn>>
  BY DEF Commit, RejectAction, hostVars, histVars, clientVars
<1>3. /\ TypeInv /\ serverSeq \in Nat /\ store \in [Channels -> ChannelEntry] /\ incs \in Nat
      /\ serverSeq' = serverSeq + 1 /\ buffer' \in Seq(Envelope) /\ wire' \in [Conns -> Seq(Frame)]
  BY <1>1, EmitDoes, BroadcastDoes DEF DataInv, TypeInv
<1>4. store' \in [Channels -> ChannelEntry] /\ \A d \in Channels : store'[d].inc = store[d].inc
  <2>1. CASE store' = store
    BY <1>3, <2>1
  <2>2. CASE store' = [store EXCEPT ![c].state = @ \cup {serverSeq + 1}]
    <3>1. store[c] \in ChannelEntry
      BY <1>3
    <3> DEFINE entry == [store[c] EXCEPT !.state = store[c].state \cup {serverSeq + 1}]
    <3>2. entry \in ChannelEntry /\ entry.inc = store[c].inc
      <4>1. store[c].state \cup {serverSeq + 1} \in SUBSET Nat
        BY <1>3, <3>1 DEF ChannelEntry
      <4> QED BY <3>1, <4>1 DEF ChannelEntry
    <3>3. store' = [store EXCEPT ![c] = entry]
      BY <1>3, <2>2
    <3> HIDE DEF entry
    <3> QED BY <1>3, <3>2, <3>3
  <2> QED BY <2>1, <2>2 DEF Commit, RejectAction, hostVars
<1>5. TypeInv'
  BY <1>2, <1>3, <1>4 DEF TypeInv
<1>6. /\ \A k \in Conns : Pending(k)' = Pending(k) /\ Answers(wire'[k]) = Answers(wire[k])
      /\ \A e \in Around' : e \in Around \cup {NextEnvelope(c, a)}
  BY <1>1, <1>2, <1>3, EmitStep
<1>7. \A e \in Around' : e.serverSeq <= serverSeq'
  <2>1. NextEnvelope(c, a).serverSeq = serverSeq + 1
    BY <1>3, EnvelopeIs
  <2>2. \A e \in Around : e.serverSeq \in Nat /\ e.serverSeq <= serverSeq
    BY <1>3, AroundTyped DEF DataInv
  <2>3. \A e \in Around : e.serverSeq <= serverSeq + 1
    BY <1>3, <2>2
  <2> QED BY <1>3, <1>6, <2>1, <2>3
<1>8. ASSUME NEW k \in Conns, NEW r \in Pending(k)'
      PROVE  Proper(r, serverSeq' + 1, incs')
  <2>1. r \in Request /\ Proper(r, serverSeq + 1, incs)
    BY <1>3, <1>6, <1>8, PendingTyped DEF DataInv
  <2> QED BY <1>2, <1>3, <2>1, ProperLater
<1> QED BY <1>2, <1>4, <1>5, <1>6, <1>7, <1>8 DEF DataInv

\* Channels come and go.
LEMMA StoreKeepsData ==
    ASSUME DataInv, NEW c \in Channels, CreateChannel(c) \/ DeleteChannel(c) \/ DropChannel(c)
    PROVE  DataInv'
<1>1. UNCHANGED <<serverSeq, buffer, known, request, up, wire, losses, process, waiting, lastSeen, view, early, seenIn>>
  BY DEF CreateChannel, DeleteChannel, DropChannel, seqVars, hostVars, netVars, histVars, clientVars
<1>2. TypeInv /\ store \in [Channels -> ChannelEntry] /\ incs \in Nat /\ \A d \in Channels : store[d].inc <= incs
  BY DEF DataInv, TypeInv
<1>3. /\ store' \in [Channels -> ChannelEntry] /\ incs' \in Nat /\ incs <= incs'
      /\ \A d \in Channels : store'[d].inc <= incs'
  <2>1. CASE CreateChannel(c)
    <3> DEFINE entry == [live |-> TRUE, inc |-> incs + 1, state |-> {}]
    <3>1. store' = [store EXCEPT ![c] = entry] /\ incs' = incs + 1
      BY <2>1 DEF CreateChannel, Create
    <3>2. entry \in ChannelEntry /\ entry.inc = incs + 1
      BY <1>2 DEF ChannelEntry
    <3> HIDE DEF entry
    <3>3. \A d \in Channels : store[d].inc \in Nat
      BY <1>2 DEF ChannelEntry
    <3> QED BY <1>2, <3>1, <3>2, <3>3
  <2>2. CASE DeleteChannel(c) \/ DropChannel(c)
    <3>1. store' = [store EXCEPT ![c] = NoEntry] /\ incs' = incs
      BY <2>2 DEF DeleteChannel, DropChannel, histVars
    <3>2. NoEntry \in ChannelEntry /\ NoEntry.inc = 0
      BY DEF ChannelEntry, NoEntry
    <3> QED BY <1>2, <3>1, <3>2
  <2> QED BY <2>1, <2>2
<1>4. subs' \in [Conns -> SUBSET Channels] /\ orphaned' \in [Conns -> SUBSET Channels]
  <2>1. subs \in [Conns -> SUBSET Channels] /\ orphaned \in [Conns -> SUBSET Channels]
    BY <1>2 DEF TypeInv
  <2>2. CASE CreateChannel(c)
    BY <2>1, <2>2 DEF CreateChannel
  <2>3. CASE DeleteChannel(c)
    BY <2>1, <2>3 DEF DeleteChannel, histVars
  <2>4. CASE DropChannel(c)
    BY <2>1, <2>4 DEF DropChannel
  <2> QED BY <2>2, <2>3, <2>4
<1>5. TypeInv'
  BY <1>1, <1>2, <1>3, <1>4 DEF TypeInv
<1> QED BY <1>1, <1>3, <1>5, CalmKeepsData

\* The close event numbers nothing.
LEMMA OnCloseKeepsData ==
    ASSUME DataInv, NEW k \in Conns, OnClose(k)
    PROVE  DataInv'
<1>1. UNCHANGED <<serverSeq, buffer, store, known, request, up, wire, incs, losses, process, orphaned,
                  waiting, lastSeen, view, early, seenIn>>
  BY DEF OnClose, seqVars, netVars, histVars, clientVars
<1>2. subs' = [subs EXCEPT ![k] = {}]
  BY DEF OnClose
<1>3. TypeInv'
  BY <1>1, <1>2 DEF DataInv, TypeInv
<1> QED BY <1>1, <1>3, CalmKeepsData DEF DataInv, TypeInv

\* A new socket numbers nothing.
LEMMA AcceptKeepsData ==
    ASSUME DataInv, NEW client \in Clients, NEW k \in Conns, Accept(client, k)
    PROVE  DataInv'
<1>1. UNCHANGED <<serverSeq, buffer, store, known, request, wire, incs, losses, process,
                  waiting, lastSeen, view, early, seenIn>>
  BY DEF Accept, seqVars
<1>2. /\ subs' = [subs EXCEPT ![k] = {}] /\ up' = [up EXCEPT ![k] = TRUE]
      /\ orphaned' = [orphaned EXCEPT ![k] = {}]
  BY DEF Accept
<1>3. TypeInv'
  BY <1>1, <1>2 DEF DataInv, TypeInv
<1> QED BY <1>1, <1>3, CalmKeepsData DEF DataInv, TypeInv

\* Giving up a channel numbers nothing.
LEMMA UnsubscribeKeepsData ==
    ASSUME DataInv, NEW client \in Clients, NEW c \in Channels, Unsubscribe(client, c)
    PROVE  DataInv'
<1>1. UNCHANGED <<serverSeq, buffer, store, known, request, up, wire, incs, losses, process, orphaned,
                  waiting, lastSeen, early, seenIn>>
  BY DEF Unsubscribe, seqVars, netVars, histVars
<1>2. subs' = [subs EXCEPT ![link[client]] = @ \ {c}] /\ view' = [view EXCEPT ![client][c] = NoView]
  BY DEF Unsubscribe
<1>3. subs' \in [Conns -> SUBSET Channels]
  BY <1>2 DEF DataInv, TypeInv
<1>4. view' \in [Clients -> [Channels -> View]]
  <2>1. NoView \in View
    BY DEF NoView, View
  <2> QED BY <1>2, <2>1 DEF DataInv, TypeInv
<1>5. TypeInv'
  BY <1>1, <1>3, <1>4 DEF DataInv, TypeInv
<1> QED BY <1>1, <1>5, CalmKeepsData DEF DataInv, TypeInv

\* Pending answers stay proper, one by one.
LEMMA ProperNext ==
    ASSUME DataInv, NEW r \in Request, Proper(r, serverSeq + 1, incs),
           serverSeq' = serverSeq, incs' \in Nat, incs <= incs'
    PROVE  Proper(r, serverSeq' + 1, incs')
BY ProperLater DEF DataInv, TypeInv

\* A broken link only loses what was on it.
LEMMA LoseLinkKeepsData ==
    ASSUME DataInv, HostInv, NEW client \in Clients, LoseLink(client)
    PROVE  DataInv'
<1> DEFINE k == link[client]
<1>1. k \in Conns
  BY LinkTyped DEF LoseLink
<1>2. /\ up' = [up EXCEPT ![k] = FALSE] /\ wire' = [wire EXCEPT ![k] = <<>>] /\ losses' = losses + 1
      /\ waiting' = [waiting EXCEPT ![client] = "none"] /\ early' = [early EXCEPT ![client] = {}]
      /\ UNCHANGED <<serverSeq, buffer, store, subs, known, request, incs, process, orphaned, lastSeen, view, seenIn>>
  BY DEF LoseLink, seqVars, hostVars
<1> HIDE DEF k
<1>3. TypeInv
  BY DEF DataInv
<1>4. wire' = [l \in Conns |-> IF l \in {k} THEN <<>> ELSE wire[l]]
  BY <1>1, <1>2, <1>3 DEF TypeInv
<1>5. \A other \in Clients : early'[other] \subseteq early[other]
  BY <1>2, <1>3 DEF TypeInv
<1>6. /\ wire' \in [Conns -> Seq(Frame)]
      /\ \A l \in Conns : Pending(l)' \subseteq Pending(l) /\ Answers(wire'[l]) \subseteq Answers(wire[l])
      /\ \A e \in Around' : e \in Around
  BY <1>1, <1>2, <1>3, <1>4, <1>5, CutStep
<1>7. TypeInv'
  BY <1>2, <1>3, <1>6 DEF TypeInv
<1>8. ASSUME NEW l \in Conns, NEW r \in Pending(l)'
      PROVE  Proper(r, serverSeq' + 1, incs')
  BY <1>2, <1>6, <1>8 DEF DataInv
<1> QED BY <1>2, <1>6, <1>7, <1>8 DEF DataInv

\* A new process starts from nothing, under new incarnations.
LEMMA RestartKeepsData ==
    ASSUME DataInv, HostRestart
    PROVE  DataInv'
<1>1. /\ serverSeq' = 0 /\ buffer' = <<>> /\ incs' = incs + 1 /\ process' = process + 1
      /\ store' = [c \in Channels |-> IF c = Root THEN [live |-> TRUE, inc |-> incs + 1, state |-> {}] ELSE NoEntry]
      /\ known' = {} /\ subs' = [k \in Conns |-> {}] /\ orphaned' = [k \in Conns |-> {}]
      /\ request' = [k \in Conns |-> NoRequest] /\ wire' = [k \in Conns |-> <<>>] /\ up' = [k \in Conns |-> FALSE]
      /\ waiting' = [client \in Clients |-> "none"] /\ early' = [client \in Clients |-> {}]
      /\ UNCHANGED <<losses, lastSeen, view, seenIn>>
  BY DEF HostRestart, StartProcess
<1>2. incs \in Nat /\ process \in Nat
  BY DEF DataInv, TypeInv
<1>3. store' \in [Channels -> ChannelEntry]
  <2>1. [live |-> TRUE, inc |-> incs + 1, state |-> {}] \in ChannelEntry /\ NoEntry \in ChannelEntry
    BY <1>2 DEF ChannelEntry, NoEntry
  <2> QED BY <1>1, <2>1
<1>4. request' \in [Conns -> Request] /\ wire' \in [Conns -> Seq(Frame)]
  BY <1>1, NoRequestIs
<1>5. TypeInv'
  <2>1. buffer' \in Seq(Envelope) /\ serverSeq' \in Nat /\ incs' \in Nat /\ process' \in Nat
    BY <1>1, <1>2
  <2>2. up' \in [Conns -> BOOLEAN]
    BY <1>1
  <2>3. subs' \in [Conns -> SUBSET Channels] /\ orphaned' \in [Conns -> SUBSET Channels]
    BY <1>1
  <2>4. waiting' \in [Clients -> {"none", "handshake", "subscribe"}] /\ early' \in [Clients -> SUBSET Envelope]
    BY <1>1
  <2> QED BY <1>1, <1>3, <1>4, <2>1, <2>2, <2>3, <2>4 DEF DataInv, TypeInv
<1>6. \A k \in Conns : wire'[k] = <<>> /\ request'[k] = NoRequest
  BY <1>1
<1>7. \A k \in Conns : Pending(k)' = {} /\ Answers(wire'[k]) = {} /\ Sent(wire'[k]) = {}
  BY <1>6, NothingOn, NoRequestIs DEF Pending, Owed
<1>8. \A e \in Around' : e \in {}
  <2>1. DOMAIN buffer' = {} /\ \A client \in Clients : early'[client] = {}
    BY <1>1
  <2> QED BY <1>7, <2>1, AroundNext
<1>9. ASSUME NEW c \in Channels
      PROVE  store'[c].inc <= incs'
  <2>1. store'[c].inc = incs + 1 \/ store'[c].inc = 0
    BY <1>1 DEF NoEntry
  <2> QED BY <1>1, <1>2, <2>1
<1> QED BY <1>5, <1>7, <1>8, <1>9 DEF DataInv

\* A result that was proper is proper on the wire.
LEMMA SendReplyKeepsData ==
    ASSUME DataInv, NEW k \in Conns, SendReply(k)
    PROVE  DataInv'
<1>1. UNCHANGED <<serverSeq, buffer, store, subs, known, up, incs, losses, process, orphaned,
                  waiting, lastSeen, view, early, seenIn>>
  BY DEF SendReply, seqVars, histVars, clientVars
<1>2. TypeInv
  BY DEF DataInv
<1>3. wire' \in [Conns -> Seq(Frame)] /\ request' = [request EXCEPT ![k] = NoRequest]
  BY <1>2, SendReplyDoes
<1>4. request' \in [Conns -> Request]
  BY <1>2, <1>3, NoRequestIs DEF TypeInv
<1>5. TypeInv'
  BY <1>1, <1>2, <1>3, <1>4 DEF TypeInv
<1>6. /\ \A l \in Conns : Pending(l)' \subseteq Pending(l)
      /\ \A l \in Conns : \A r \in Answers(wire'[l]) : r \in Answers(wire[l]) \/ r = request[k]
      /\ \A e \in Around' : e \in Around
  BY <1>2, SendReplyStep
<1>7. request[k].phase = "reply"
  BY DEF SendReply
<1> QED BY <1>1, <1>5, <1>6, <1>7 DEF DataInv

\* The request of one connection is replaced by a proper one.
LEMMA RequestKeepsData ==
    ASSUME DataInv, TypeInv', NEW k \in Conns, NEW new \in Request, request' = [request EXCEPT ![k] = new],
           UNCHANGED <<serverSeq, buffer, wire, early>>, incs <= incs',
           \A c \in Channels : store'[c].inc <= incs',
           new.kind = "none" \/ Proper(new, serverSeq + 1, incs),
           \A e \in new.actions : e \in Around
    PROVE  DataInv'
<1>1. TypeInv
  BY DEF DataInv
<1>2. /\ \A l \in Conns : l # k => Pending(l)' = Pending(l)
      /\ Pending(k)' = Owed(wire[k], new)
      /\ \A l \in Conns : Answers(wire'[l]) = Answers(wire[l])
      /\ \A e \in Around' : e \in Around \cup new.actions
  BY <1>1, RequestStep
<1>3. \A r \in Pending(k)' : r \in Pending(k) \/ (r = new /\ new.kind # "none")
  BY <1>2 DEF Pending, Owed
<1>4. ASSUME NEW l \in Conns, NEW r \in Pending(l)'
      PROVE  Proper(r, serverSeq' + 1, incs')
  <2>1. r \in Pending(l) \/ (r = new /\ new.kind # "none")
    BY <1>2, <1>3, <1>4
  <2>2. r \in Request /\ Proper(r, serverSeq + 1, incs)
    BY <1>1, <2>1, PendingTyped DEF DataInv
  <2>3. incs' \in Nat
    BY DEF TypeInv
  <2> QED BY <2>2, <2>3, ProperNext
<1> QED BY <1>2, <1>4 DEF DataInv

\* The hydrator creates under a new incarnation.
LEMMA HydrationKeepsData ==
    ASSUME DataInv, NEW k \in Conns, HydrationSettles(k)
    PROVE  DataInv'
<1>1. UNCHANGED <<serverSeq, buffer, subs, known, up, wire, losses, process, orphaned,
                  waiting, lastSeen, view, early, seenIn>>
  BY DEF HydrationSettles, seqVars, netVars, clientVars
<1>2. TypeInv /\ request[k] \in Request /\ request[k].kind # "none" /\ request[k].phase = "hydrating"
      /\ Proper(request[k], serverSeq + 1, incs) /\ request[k] \in Pending(k)
  BY DEF DataInv, TypeInv, HydrationSettles, Pending, Owed
<1>3. PICK hydrated \in BOOLEAN :
          /\ \/ Create(Head(request[k].todo))
             \/ UNCHANGED <<store, incs>>
          /\ request' = [request EXCEPT ![k].phase = "resumed", ![k].hydrated = hydrated]
  BY DEF HydrationSettles
<1> DEFINE new == [request[k] EXCEPT !.phase = "resumed", !.hydrated = hydrated]
<1>4. request' = [request EXCEPT ![k] = new]
  BY <1>2, <1>3 DEF TypeInv
<1>5. /\ new \in Request /\ new.kind = request[k].kind /\ new.phase = "resumed" /\ new.todo = request[k].todo
      /\ new.snaps = request[k].snaps /\ new.actions = request[k].actions /\ new.current = request[k].current
  BY <1>2 DEF Request
<1> HIDE DEF new
<1>6. Proper(new, serverSeq + 1, incs)
  BY <1>2, <1>5 DEF Proper, Below
<1>7. \A e \in new.actions : e \in Around
  BY <1>2, <1>5, AroundHas
<1>8. /\ store' \in [Channels -> ChannelEntry] /\ incs' \in Nat /\ incs <= incs'
      /\ \A c \in Channels : store'[c].inc <= incs'
  <2>1. CASE UNCHANGED <<store, incs>>
    BY <2>1 DEF DataInv, TypeInv
  <2>2. CASE Create(Head(request[k].todo))
    <3> DEFINE c == Head(request[k].todo)
               entry == [live |-> TRUE, inc |-> incs + 1, state |-> {}]
    <3>1. store' = [store EXCEPT ![c] = entry] /\ incs' = incs + 1
      BY <2>2 DEF Create
    <3>2. incs \in Nat /\ store \in [Channels -> ChannelEntry] /\ \A d \in Channels : store[d].inc <= incs
      BY DEF DataInv, TypeInv
    <3>3. entry \in ChannelEntry /\ entry.inc = incs + 1
      BY <3>2 DEF ChannelEntry
    <3>5. c \in Channels
      BY <1>2, RequestFields DEF Proper
    <3> HIDE DEF entry, c
    <3>4. \A d \in Channels : store[d].inc \in Nat
      BY <3>2 DEF ChannelEntry
    <3> QED BY <3>1, <3>2, <3>3, <3>4, <3>5
  <2> QED BY <1>3, <2>1, <2>2
<1>9. TypeInv'
  BY <1>1, <1>2, <1>4, <1>5, <1>8 DEF TypeInv
<1> QED BY <1>1, <1>4, <1>5, <1>6, <1>7, <1>8, <1>9, RequestKeepsData

\* A stretch of a handler prepares something proper.
LEMMA AdvancedProper ==
    ASSUME DataInv, NEW req \in Request, NEW sub \in SUBSET Channels, NEW new \in Request, NEW newSub \in SUBSET Channels,
           Advanced(req, sub, new, newSub),
           req.kind # "none", Below(req, serverSeq + 1), \A s \in req.snaps : s.inc <= incs,
           \A e \in req.actions : e \in Around
    PROVE  Proper(new, serverSeq + 1, incs) /\ \A e \in new.actions : e \in Around
<1>1. TypeInv /\ serverSeq \in Nat /\ \A e \in Around : e.serverSeq \in Nat /\ e.serverSeq < serverSeq + 1
  BY AroundTyped DEF DataInv, TypeInv
<1>2. ASSUME NEW c \in Channels
      PROVE  SnapshotOf(c).fromSeq < serverSeq + 1 /\ SnapshotOf(c).inc <= incs
  BY <1>1, SnapshotTyped DEF DataInv
<1>3. \A e \in new.actions : e \in Around
  <2>1. ReplayFrom(new.lastSeen, newSub) \subseteq Around
    BY AroundHas DEF ReplayFrom
  <2> QED BY <2>1 DEF Advanced
<1>4. ASSUME NEW s \in new.snaps
      PROVE  s.fromSeq < serverSeq + 1 /\ s.inc <= incs
  <2>1. s \in req.snaps \/ \E c \in newSub : s = SnapshotOf(c)
    BY <1>4 DEF Advanced
  <2> QED BY <1>2, <2>1 DEF Below
<1>5. new.current < serverSeq + 1
  <2>1. new.current = req.current \/ new.current = serverSeq
    BY DEF Advanced
  <2> QED BY <1>1, <2>1 DEF Below
<1>6. Below(new, serverSeq + 1)
  BY <1>1, <1>3, <1>4, <1>5 DEF Below
<1>7. /\ new.kind # "none"
      /\ new.phase # "reply" => new.todo # <<>>
      /\ new.phase = "reply" /\ new.kind = "reconnect" => new.mode # "error"
  BY DEF Advanced
<1> QED BY <1>3, <1>4, <1>6, <1>7 DEF Proper

\* The request that opens a connection.
Opening(client, req) ==
    /\ req.kind \in {"initialize", "reconnect"}
    /\ req.snaps = {} /\ req.actions = {} /\ req.missing = {} /\ req.current = 0
    /\ Distinct(req.todo)
    /\ req.kind = "reconnect" =>
          /\ Listed(req.todo) = {c \in Channels : view[client][c].held}
          /\ req.lastSeen = lastSeen[client]
          /\ req.isKnown => client \in known

\* A client lists each channel that it holds once.
LEMMA OrdersAre ==
    ASSUME NEW S \in SUBSET Channels, NEW todo \in Orders(S)
    PROVE  todo \in Seq(Channels) /\ Distinct(todo) /\ Listed(todo) = S
<1>1. /\ IsFiniteSet(S) /\ todo \in [1..Cardinality(S) -> S]
      /\ \A c \in S : \E i \in DOMAIN todo : \A j \in DOMAIN todo : todo[j] = c <=> j = i
  BY DEF Orders
<1>2. Cardinality(S) \in Nat
  BY <1>1, FS_CardinalityType
<1>3. todo \in Seq(Channels)
  BY <1>1, <1>2
<1>4. DOMAIN todo = 1..Cardinality(S) /\ \A i \in DOMAIN todo : todo[i] \in S
  BY <1>1
<1>5. Distinct(todo)
  <2> SUFFICES ASSUME NEW i \in DOMAIN todo, NEW j \in DOMAIN todo, todo[i] = todo[j] PROVE i = j
    BY DEF Distinct
  <2>1. PICK l \in DOMAIN todo : \A m \in DOMAIN todo : todo[m] = todo[i] <=> m = l
    BY <1>1, <1>4
  <2> QED BY <2>1
<1>6. Listed(todo) = S
  BY <1>1, <1>4 DEF Listed
<1> QED BY <1>3, <1>5, <1>6

\* Either kind of first request is a handshake with a request of its kind.
LEMMA HandshakeOpens ==
    ASSUME DataInv, NEW client \in Clients, Reconnect(client) \/ \E S \in SUBSET Channels : Initialize(client, S)
    PROVE  \E req \in Request : Handshake(client, req) /\ Opening(client, req)
<1>1. CASE Reconnect(client)
  <2> DEFINE held == {c \in Channels : view[client][c].held}
  <2>1. PICK todo \in Orders(held) :
            Handshake(client, [NoRequest EXCEPT !.kind = "reconnect", !.todo = todo,
                                    !.lastSeen = lastSeen[client], !.isKnown = client \in known])
    BY <1>1 DEF Reconnect
  <2>2. todo \in Seq(Channels) /\ Distinct(todo) /\ Listed(todo) = held
    BY OrdersAre
  <2>3. lastSeen[client] \in Nat /\ (client \in known) \in BOOLEAN
    BY DEF DataInv, TypeInv
  <2> DEFINE req == [NoRequest EXCEPT !.kind = "reconnect", !.todo = todo,
                                      !.lastSeen = lastSeen[client], !.isKnown = client \in known]
  <2>4. req \in Request
    BY <2>2, <2>3, NoRequestIs DEF Request
  <2>5. /\ req.kind = "reconnect" /\ req.todo = todo /\ req.lastSeen = lastSeen[client]
        /\ req.isKnown = (client \in known)
        /\ req.snaps = {} /\ req.actions = {} /\ req.missing = {} /\ req.current = 0
    BY NoRequestIs DEF NoRequest
  <2> HIDE DEF req
  <2>6. Opening(client, req)
    BY <2>2, <2>5 DEF Opening
  <2> QED BY <2>1, <2>4, <2>6 DEF req
<1>2. ASSUME NEW S \in SUBSET Channels, Initialize(client, S)
      PROVE  \E req \in Request : Handshake(client, req) /\ Opening(client, req)
  <2>1. PICK todo \in Orders(S) : Handshake(client, [NoRequest EXCEPT !.kind = "initialize", !.todo = todo])
    BY <1>2 DEF Initialize
  <2>2. todo \in Seq(Channels) /\ Distinct(todo)
    BY OrdersAre
  <2> DEFINE req == [NoRequest EXCEPT !.kind = "initialize", !.todo = todo]
  <2>3. req \in Request
    BY <2>2, NoRequestIs DEF Request
  <2>4. /\ req.kind = "initialize" /\ req.todo = todo
        /\ req.snaps = {} /\ req.actions = {} /\ req.missing = {} /\ req.current = 0
    BY NoRequestIs DEF NoRequest
  <2> HIDE DEF req
  <2>5. Opening(client, req)
    BY <2>2, <2>4 DEF Opening
  <2> QED BY <2>1, <2>3, <2>5 DEF req
<1> QED BY <1>1, <1>2

\* A handshake binds a connection, cuts the client's older ones and runs the
\* first stretch of its handler.
Shook(client, k, req, new, newSub) ==
    LET previous == Previous(client, k) IN
    /\ k # NoConn /\ clientOf[k] = NoClient /\ k \in attached /\ request[k].kind = "none" /\ k \notin previous
    /\ attached' = attached \ previous /\ clientOf' = [clientOf EXCEPT ![k] = client]
    /\ up' = [p \in Conns |-> up[p] /\ p \notin previous]
    /\ known' = known \cup {client}
    /\ waiting' = [waiting EXCEPT ![client] = "handshake"]
    /\ UNCHANGED <<serverSeq, buffer, store, incs, losses, process, orphaned, link, lastSeen, view, early, seenIn>>
    /\ wire' \in [Conns -> Seq(Frame)]
    /\ \A l \in Conns : IF l \in previous THEN wire'[l] = <<>> ELSE wire'[l] = wire[l]
    /\ subs' = [subs EXCEPT ![k] = newSub] /\ request' = [request EXCEPT ![k] = new]
    /\ Advanced(req, {}, new, newSub)
    /\ Pending(k)' = Owed(wire[k], new)
    /\ \A l \in Conns : l # k /\ l \notin previous => Pending(l)' = Pending(l)
    /\ \A l \in Conns : l # k => Pending(l)' \subseteq Pending(l)
    /\ \A l \in Conns : Answers(wire'[l]) \subseteq Answers(wire[l])
    /\ \A e \in Around' : e \in Around \cup new.actions

\* A handshake takes over the client and runs a first stretch.
LEMMA HandshakeDoes ==
    ASSUME DataInv, HostInv, NEW client \in Clients, NEW req \in Request, Handshake(client, req),
           NEW k \in Conns, k = link[client]
    PROVE  \E new \in Request, newSub \in SUBSET Channels : Shook(client, k, req, new, newSub)
<1> DEFINE previous == Previous(client, k)
<1>1. /\ k # NoConn /\ clientOf[k] = NoClient /\ k \in attached /\ request[k].kind = "none"
      /\ BindClient(client, k) /\ Proceed(k, req, {}) /\ waiting' = [waiting EXCEPT ![client] = "handshake"]
      /\ UNCHANGED <<serverSeq, buffer, store, incs, losses, process, orphaned, link, lastSeen, view, early, seenIn>>
  BY DEF Handshake, seqVars, histVars
<1>2. k \in Conns /\ TypeInv
  BY DEF DataInv
<1>3. /\ attached' = attached \ previous /\ clientOf' = [clientOf EXCEPT ![k] = client]
      /\ up' = [p \in Conns |-> up[p] /\ p \notin previous]
      /\ wire' = [p \in Conns |-> IF p \in previous THEN <<>> ELSE wire[p]]
      /\ known' = known \cup {client}
  BY <1>1 DEF BindClient
<1>4. k \notin previous
  BY DEF Previous
<1>5. \A l \in Conns : IF l \in previous THEN wire'[l] = <<>> ELSE wire'[l] = wire[l]
  BY <1>3
<1>6. PICK new \in Request, newSub \in SUBSET Channels :
              /\ subs' = [subs EXCEPT ![k] = newSub] /\ request' = [request EXCEPT ![k] = new]
              /\ Advanced(req, {}, new, newSub)
  BY <1>1, <1>2, ProceedDoes
<1> HIDE DEF previous
<1>7. wire' \in [Conns -> Seq(Frame)]
  BY <1>2, <1>3, <1>5 DEF TypeInv
<1>8. request'[k] = new /\ \A l \in Conns : l # k => request'[l] = request[l]
  BY <1>2, <1>6 DEF TypeInv
<1>9. Pending(k)' = Owed(wire[k], new)
  BY <1>2, <1>4, <1>5, <1>8 DEF Pending
<1>10. \A l \in Conns : Sent(wire'[l]) \subseteq Sent(wire[l]) /\ Answers(wire'[l]) \subseteq Answers(wire[l])
  BY <1>5, NothingOn
<1>11. \A l \in Conns : l # k /\ l \notin previous => Pending(l)' = Pending(l)
  BY <1>5, <1>8 DEF Pending
<1>12. \A l \in Conns : l # k => Pending(l)' \subseteq Pending(l)
  BY <1>8, <1>10 DEF Pending, Owed
<1>13. \A e \in Around' : e \in Around \cup new.actions
  <2>1. \A r \in Pending(k)' : r \in Pending(k) \/ r = new
    BY <1>9 DEF Pending, Owed
  <2>2. \A l \in Conns : \A r \in Pending(l)' : \A e \in r.actions : e \in Around \cup new.actions
    BY <1>2, <1>12, <2>1, AroundHas
  <2>3. \A l \in Conns : \A e \in Sent(wire'[l]) : e \in Around \cup new.actions
    BY <1>10, AroundHas
  <2>4. (\A i \in DOMAIN buffer' : buffer'[i] \in Around \cup new.actions)
        /\ \A other \in Clients : \A e \in early'[other] : e \in Around \cup new.actions
    BY <1>1, AroundHas
  <2> QED BY <2>2, <2>3, <2>4, AroundNext
<1>14. Shook(client, k, req, new, newSub)
  BY <1>1, <1>3, <1>4, <1>5, <1>6, <1>7, <1>9, <1>10, <1>11, <1>12, <1>13 DEF previous, Shook
<1> QED BY <1>14

\* A handshake numbers nothing and cuts what was on the older socket.
LEMMA HandshakeKeepsData ==
    ASSUME DataInv, HostInv, NEW client \in Clients, NEW req \in Request, Handshake(client, req), Opening(client, req)
    PROVE  DataInv'
<1>0. PICK k \in Conns : k = link[client]
  BY LinkTyped DEF Handshake
<1>2. PICK new \in Request, newSub \in SUBSET Channels : Shook(client, k, req, new, newSub)
  BY <1>0, HandshakeDoes
<1>1. /\ up' \in [Conns -> BOOLEAN]
      /\ known' = known \cup {client} /\ waiting' = [waiting EXCEPT ![client] = "handshake"]
      /\ UNCHANGED <<serverSeq, buffer, store, incs, losses, process, orphaned, lastSeen, view, early, seenIn>>
      /\ wire' \in [Conns -> Seq(Frame)]
      /\ subs' = [subs EXCEPT ![k] = newSub] /\ request' = [request EXCEPT ![k] = new]
      /\ Advanced(req, {}, new, newSub)
      /\ Pending(k)' = Owed(wire[k], new)
      /\ \A l \in Conns : l # k => Pending(l)' \subseteq Pending(l)
      /\ \A l \in Conns : Answers(wire'[l]) \subseteq Answers(wire[l])
      /\ \A e \in Around' : e \in Around \cup new.actions
  BY <1>2 DEF Shook
<1>3. TypeInv
  BY DEF DataInv
<1>5. TypeInv'
  BY <1>1, <1>3 DEF TypeInv
<1>6. Proper(new, serverSeq + 1, incs) /\ \A e \in new.actions : e \in Around
  <2>1. serverSeq \in Nat
    BY <1>3 DEF TypeInv
  <2>2. Below(req, serverSeq + 1) /\ req.kind # "none" /\ (\A s \in req.snaps : s.inc <= incs)
        /\ \A e \in req.actions : e \in Around
    BY <2>1 DEF Opening, Below
  <2> QED BY <1>1, <2>2, AdvancedProper
<1>7. ASSUME NEW l \in Conns, NEW r \in Pending(l)'
      PROVE  Proper(r, serverSeq' + 1, incs')
  <2>1. r \in Pending(l) \/ r = new
    BY <1>1, <1>7 DEF Pending, Owed
  <2> QED BY <1>1, <1>6, <2>1 DEF DataInv
<1> QED BY <1>1, <1>5, <1>6, <1>7 DEF DataInv

\* What stays the same while a handler advances.
HandlerFrame == UNCHANGED <<serverSeq, buffer, store, attached, clientOf, known, up, wire, incs, losses, process,
                            orphaned, link, lastSeen, view, early, seenIn>>

\* One connection's handler and subscriptions change.
Handled(k, new, newSub) ==
    /\ subs' = [subs EXCEPT ![k] = newSub] /\ request' = [request EXCEPT ![k] = new]
    /\ HandlerFrame

Asked(c) == [NoRequest EXCEPT !.kind = "subscribe", !.todo = <<c>>]
Skipped(req) == [req EXCEPT !.todo = Tail(@), !.missing = @ \cup {Head(req.todo)}]
Refused(req) == [req EXCEPT !.phase = "reply", !.todo = <<>>, !.mode = "error"]

\* The request of a subscribe, field by field.
LEMMA AskedIs ==
    ASSUME NEW c \in Channels
    PROVE  /\ Asked(c) \in Request /\ Asked(c).kind = "subscribe" /\ Asked(c).todo = <<c>>
           /\ Asked(c).snaps = {} /\ Asked(c).actions = {} /\ Asked(c).missing = {} /\ Asked(c).current = 0
           /\ Listed(Asked(c).todo) = {c}
<1>1. <<c>> \in Seq(Channels) /\ Listed(<<c>>) = {c}
  BY DEF Listed
<1> QED BY <1>1, NoRequestIs DEF Asked, Request

\* A request that gave up on its next channel, field by field.
LEMMA SkippedIs ==
    ASSUME NEW req \in Request, req.todo # <<>>
    PROVE  /\ Head(req.todo) \in Channels /\ Skipped(req) \in Request
           /\ Skipped(req).kind = req.kind /\ Skipped(req).lastSeen = req.lastSeen /\ Skipped(req).isKnown = req.isKnown
           /\ Skipped(req).snaps = req.snaps /\ Skipped(req).actions = req.actions /\ Skipped(req).current = req.current
           /\ Skipped(req).missing = req.missing \cup {Head(req.todo)}
           /\ Head(req.todo) \in Listed(req.todo)
           /\ Listed(req.todo) = {Head(req.todo)} \cup Listed(Skipped(req).todo)
           /\ Distinct(req.todo) => Distinct(Skipped(req).todo) /\ Head(req.todo) \notin Listed(Skipped(req).todo)
<1> DEFINE todo == req.todo
<1>1. todo \in Seq(Channels) /\ todo # <<>> /\ req.missing \in SUBSET Channels
  BY RequestFields
<1>2. /\ Tail(todo) \in Seq(Channels) /\ Head(todo) \in Channels /\ Head(todo) = todo[1]
      /\ Len(todo) \in Nat /\ 1 \in DOMAIN todo
      /\ DOMAIN todo = 1..Len(todo) /\ DOMAIN Tail(todo) = 1..(Len(todo) - 1)
      /\ \A i \in DOMAIN Tail(todo) : Tail(todo)[i] = todo[i + 1]
  BY <1>1
<1>3. /\ Skipped(req) \in Request /\ Skipped(req).todo = Tail(todo)
      /\ Skipped(req).kind = req.kind /\ Skipped(req).lastSeen = req.lastSeen /\ Skipped(req).isKnown = req.isKnown
      /\ Skipped(req).snaps = req.snaps /\ Skipped(req).actions = req.actions /\ Skipped(req).current = req.current
      /\ Skipped(req).missing = req.missing \cup {Head(req.todo)}
  BY <1>1, <1>2 DEF Skipped, Request
<1> HIDE DEF todo
<1>4. \A i \in DOMAIN Tail(todo) : i + 1 \in DOMAIN todo /\ Tail(todo)[i] = todo[i + 1] /\ i + 1 # 1 /\ i \in Nat
  BY <1>2
<1>5. \A i \in DOMAIN todo : i = 1 \/ (i - 1 \in DOMAIN Tail(todo) /\ Tail(todo)[i - 1] = todo[i])
  BY <1>2
<1>6. Listed(todo) = {Head(todo)} \cup Listed(Tail(todo))
  <2>1. Listed(todo) \subseteq {Head(todo)} \cup Listed(Tail(todo))
    <3> SUFFICES ASSUME NEW i \in DOMAIN todo PROVE todo[i] \in {Head(todo)} \cup Listed(Tail(todo))
      BY DEF Listed
    <3> QED BY <1>2, <1>5 DEF Listed
  <2>2. {Head(todo)} \cup Listed(Tail(todo)) \subseteq Listed(todo)
    BY <1>2, <1>4 DEF Listed
  <2> QED BY <2>1, <2>2
<1>7. Distinct(todo) => Distinct(Tail(todo)) /\ Head(todo) \notin Listed(Tail(todo))
  <2> SUFFICES ASSUME Distinct(todo) PROVE Distinct(Tail(todo)) /\ Head(todo) \notin Listed(Tail(todo))
    OBVIOUS
  <2>1. \A i, j \in DOMAIN Tail(todo) : i + 1 = j + 1 => i = j
    BY <1>4
  <2>2. Distinct(Tail(todo))
    BY <1>4, <2>1 DEF Distinct
  <2>3. \A i \in DOMAIN Tail(todo) : Tail(todo)[i] # todo[1]
    BY <1>2, <1>4 DEF Distinct
  <2> QED BY <1>2, <2>2, <2>3 DEF Listed
<1> QED BY <1>2, <1>3, <1>6, <1>7 DEF todo

\* A subscribe that failed, field by field.
LEMMA RefusedIs ==
    ASSUME NEW req \in Request
    PROVE  /\ Refused(req) \in Request /\ Refused(req).kind = req.kind /\ Refused(req).phase = "reply"
           /\ Refused(req).mode = "error" /\ Refused(req).snaps = req.snaps /\ Refused(req).actions = req.actions
           /\ Refused(req).current = req.current /\ Refused(req).missing = req.missing
<1>1. <<>> \in Seq(Channels)
  OBVIOUS
<1> QED BY <1>1 DEF Refused, Request

\* A client's subscribe request runs up to its await, or to its end.
LEMMA SubscribeDoes ==
    ASSUME DataInv, HostInv, NEW client \in Clients, NEW c \in Channels, Subscribe(client, c),
           NEW k \in Conns, k = link[client]
    PROVE  /\ k # NoConn /\ waiting[client] = "none" /\ clientOf[k] = client
           /\ ~view[client][c].held
           /\ waiting' = [waiting EXCEPT ![client] = "subscribe"]
           /\ \E new \in Request, newSub \in SUBSET Channels :
                 Handled(k, new, newSub) /\ Advanced(Asked(c), subs[k], new, newSub)
<1>1. /\ k # NoConn /\ waiting[client] = "none" /\ clientOf[k] = client
      /\ ~view[client][c].held
      /\ waiting' = [waiting EXCEPT ![client] = "subscribe"] /\ Proceed(k, Asked(c), subs[k]) /\ HandlerFrame
  BY DEF Subscribe, Idle, Asked, HandlerFrame, seqVars, netVars, histVars
<1>2. TypeInv /\ subs[k] \in SUBSET Channels /\ Asked(c) \in Request
  BY AskedIs DEF DataInv, TypeInv
<1>3. PICK new \in Request, newSub \in SUBSET Channels :
              /\ subs' = [subs EXCEPT ![k] = newSub] /\ request' = [request EXCEPT ![k] = new]
              /\ Advanced(Asked(c), subs[k], new, newSub)
  BY <1>1, <1>2, ProceedDoes
<1>4. Handled(k, new, newSub)
  BY <1>1, <1>3 DEF Handled
<1> QED BY <1>1, <1>3, <1>4

\* A resumed handler refuses a subscription, or goes on with the channel it
\* waited for, or skips it.
LEMMA ResumeDoes ==
    ASSUME DataInv, NEW k \in Conns, ResumeHandler(k)
    PROVE  LET req == request[k] IN
           /\ req \in Request /\ req.kind # "none" /\ req.phase = "resumed" /\ req.todo # <<>>
           /\ Proper(req, serverSeq + 1, incs) /\ req \in Pending(k)
           /\ waiting' = waiting
           /\ \E new \in Request, newSub \in SUBSET Channels :
                 /\ Handled(k, new, newSub)
                 /\ \/ req.kind = "subscribe" /\ new = Refused(req) /\ newSub = subs[k]
                    \/ Live(Head(req.todo)) /\ Advanced(req, subs[k], new, newSub)
                    \/ ~Live(Head(req.todo)) /\ Advanced(Skipped(req), subs[k], new, newSub)
<1> DEFINE req == request[k]
<1>1. /\ TypeInv /\ req \in Request /\ req.kind # "none" /\ req.phase = "resumed" /\ waiting' = waiting
      /\ Proper(req, serverSeq + 1, incs) /\ HandlerFrame /\ subs[k] \in SUBSET Channels /\ req \in Pending(k)
  BY DEF DataInv, TypeInv, ResumeHandler, Pending, Owed, HandlerFrame, seqVars, netVars, histVars, clientVars
<1>2. req.todo # <<>>
  BY <1>1 DEF Proper
<1>3. CASE /\ req.kind = "subscribe"
           /\ request' = [request EXCEPT ![k].phase = "reply", ![k].todo = <<>>, ![k].mode = "error"]
           /\ UNCHANGED <<subs, told>>
  <2>1. request' = [request EXCEPT ![k] = Refused(req)] /\ subs' = [subs EXCEPT ![k] = subs[k]]
    BY <1>1, <1>3 DEF Refused, TypeInv
  <2>2. Refused(req) \in Request
    BY <1>1, RefusedIs
  <2>3. Handled(k, Refused(req), subs[k])
    BY <1>1, <2>1 DEF Handled
  <2> QED BY <1>1, <1>2, <1>3, <2>2, <2>3
<1>4. CASE Live(Head(req.todo)) /\ Proceed(k, req, subs[k])
  <2>1. PICK new \in Request, newSub \in SUBSET Channels :
              /\ subs' = [subs EXCEPT ![k] = newSub] /\ request' = [request EXCEPT ![k] = new]
              /\ Advanced(req, subs[k], new, newSub)
    BY <1>1, <1>4, ProceedDoes
  <2>2. Handled(k, new, newSub)
    BY <1>1, <2>1 DEF Handled
  <2> QED BY <1>1, <1>2, <1>4, <2>1, <2>2
<1>5. CASE ~Live(Head(req.todo)) /\ SkipMissing(k, Head(req.todo))
  <2>1. Proceed(k, Skipped(req), subs[k])
    BY <1>5 DEF SkipMissing, Skipped
  <2>2. PICK new \in Request, newSub \in SUBSET Channels :
              /\ subs' = [subs EXCEPT ![k] = newSub] /\ request' = [request EXCEPT ![k] = new]
              /\ Advanced(Skipped(req), subs[k], new, newSub)
    BY <1>1, <1>2, <2>1, SkippedIs, ProceedDoes
  <2>3. Handled(k, new, newSub)
    BY <1>1, <2>2 DEF Handled
  <2> QED BY <1>1, <1>2, <1>5, <2>2, <2>3
<1> QED BY <1>3, <1>4, <1>5 DEF ResumeHandler

\* A handler that prepares something proper numbers nothing else.
LEMMA HandledKeepsData ==
    ASSUME DataInv, NEW k \in Conns, NEW new \in Request, NEW newSub \in SUBSET Channels, Handled(k, new, newSub),
           waiting' \in [Clients -> {"none", "handshake", "subscribe"}],
           Proper(new, serverSeq + 1, incs), \A e \in new.actions : e \in Around
    PROVE  DataInv'
<1>1. TypeInv'
  BY DEF Handled, HandlerFrame, DataInv, TypeInv
<1>2. incs <= incs' /\ \A c \in Channels : store'[c].inc <= incs'
  BY DEF Handled, HandlerFrame, DataInv, TypeInv
<1>3. request' = [request EXCEPT ![k] = new] /\ UNCHANGED <<serverSeq, buffer, wire, early>>
  BY DEF Handled, HandlerFrame
<1> QED BY <1>1, <1>2, <1>3, RequestKeepsData

\* What a subscribe collects at once is proper.
LEMMA SubscribeKeepsData ==
    ASSUME DataInv, HostInv, NEW client \in Clients, NEW c \in Channels, Subscribe(client, c)
    PROVE  DataInv'
<1>1. PICK k \in Conns : k = link[client]
  BY LinkTyped DEF Subscribe, Idle
<1>2. PICK new \in Request, newSub \in SUBSET Channels :
                 Handled(k, new, newSub) /\ Advanced(Asked(c), subs[k], new, newSub)
  BY <1>1, SubscribeDoes
<1>3. waiting' \in [Clients -> {"none", "handshake", "subscribe"}]
  <2>1. waiting' = [waiting EXCEPT ![client] = "subscribe"]
    BY DEF Subscribe
  <2> QED BY <2>1 DEF DataInv, TypeInv
<1>4. Below(Asked(c), serverSeq + 1) /\ serverSeq \in Nat /\ subs[k] \in SUBSET Channels
  BY AskedIs DEF Below, DataInv, TypeInv
<1>5. Proper(new, serverSeq + 1, incs) /\ \A e \in new.actions : e \in Around
  BY <1>2, <1>4, AskedIs, AdvancedProper
<1> QED BY <1>2, <1>3, <1>5, HandledKeepsData

\* What a handler collects after its await is proper.
LEMMA ResumeKeepsData ==
    ASSUME DataInv, NEW k \in Conns, ResumeHandler(k)
    PROVE  DataInv'
<1> DEFINE req == request[k]
<1>1. /\ req \in Request /\ req.kind # "none" /\ req.todo # <<>> /\ req.phase = "resumed"
      /\ Proper(req, serverSeq + 1, incs) /\ req \in Pending(k) /\ waiting' = waiting
  BY ResumeDoes
<1>2. PICK new \in Request, newSub \in SUBSET Channels :
                 /\ Handled(k, new, newSub)
                 /\ \/ req.kind = "subscribe" /\ new = Refused(req) /\ newSub = subs[k]
                    \/ Live(Head(req.todo)) /\ Advanced(req, subs[k], new, newSub)
                    \/ ~Live(Head(req.todo)) /\ Advanced(Skipped(req), subs[k], new, newSub)
  BY ResumeDoes
<1> HIDE DEF req
<1>3. waiting' \in [Clients -> {"none", "handshake", "subscribe"}] /\ subs[k] \in SUBSET Channels
  BY <1>1 DEF DataInv, TypeInv
<1>4. Below(req, serverSeq + 1) /\ (\A s \in req.snaps : s.inc <= incs) /\ \A e \in req.actions : e \in Around
  BY <1>1, AroundHas DEF Proper
<1>5. Proper(new, serverSeq + 1, incs) /\ \A e \in new.actions : e \in Around
  <2>1. CASE req.kind = "subscribe" /\ new = Refused(req)
    <3>1. /\ new.kind = "subscribe" /\ new.phase = "reply" /\ new.snaps = req.snaps /\ new.actions = req.actions
          /\ new.current = req.current
      BY <1>1, <2>1, RefusedIs
    <3> QED BY <1>4, <3>1 DEF Proper, Below
  <2>2. CASE Advanced(req, subs[k], new, newSub)
    BY <1>1, <1>3, <1>4, <2>2, AdvancedProper
  <2>3. CASE Advanced(Skipped(req), subs[k], new, newSub)
    <3>1. /\ Skipped(req) \in Request /\ Skipped(req).kind # "none" /\ Skipped(req).snaps = req.snaps
          /\ Skipped(req).actions = req.actions /\ Skipped(req).current = req.current
      BY <1>1, SkippedIs
    <3>2. Below(Skipped(req), serverSeq + 1)
      BY <1>4, <3>1 DEF Below
    <3> QED BY <1>3, <1>4, <2>3, <3>1, <3>2, AdvancedProper
  <2> QED BY <1>2, <2>1, <2>2, <2>3
<1> QED BY <1>2, <1>3, <1>5, HandledKeepsData

\* A snapshot replaces a view; without one the view stays.
LEMMA AdoptIs ==
    ASSUME NEW v \in View, NEW c \in Channels, NEW snaps \in SUBSET Snapshot
    PROVE  /\ Adopt(v, c, snaps) \in View
           /\ \/ (\A s \in snaps : s.channel # c) /\ Adopt(v, c, snaps) = v
              \/ \E s \in snaps : /\ s.channel = c /\ Adopt(v, c, snaps).held
                                  /\ Adopt(v, c, snaps).inc = s.inc /\ Adopt(v, c, snaps).state = s.state
                                  /\ Adopt(v, c, snaps).upto = s.fromSeq
<1>1. CASE \A s \in snaps : s.channel # c
  BY <1>1 DEF Adopt
<1>2. CASE \E s \in snaps : s.channel = c
  <2>1. PICK s \in snaps : s.channel = c /\ s = CHOOSE t \in snaps : t.channel = c
    BY <1>2
  <2>2. Adopt(v, c, snaps) = [held |-> TRUE, inc |-> s.inc, state |-> s.state, upto |-> s.fromSeq]
    BY <1>2, <2>1 DEF Adopt
  <2>3. s.inc \in Nat /\ s.state \in SUBSET Nat /\ s.fromSeq \in Nat
    BY DEF Snapshot
  <2> DEFINE w == Adopt(v, c, snaps)
  <2>4. w \in View /\ w.held /\ w.inc = s.inc /\ w.state = s.state /\ w.upto = s.fromSeq
    BY <2>2, <2>3 DEF View
  <2> QED BY <2>1, <2>4
<1> QED BY <1>1, <1>2

\* What a reply leaves the client with.
LEMMA BaseIs ==
    ASSUME DataInv, NEW client \in Clients, NEW r \in Request, r.actions \subseteq Around, NEW c \in Channels
    PROVE  /\ NoView \in View /\ ~NoView.held /\ view[client][c] \in View
           /\ Base(client, r)[c] \in View
           /\ r.kind = "subscribe" => Base(client, r)[c] = Adopt(view[client][c], c, r.snaps)
           /\ r.kind # "subscribe" /\ r.mode = "snapshot" => Base(client, r)[c] = Adopt(NoView, c, r.snaps)
           /\ r.kind # "subscribe" /\ r.mode # "snapshot" =>
                 /\ c \in r.missing => Base(client, r)[c] = NoView
                 /\ c \notin r.missing => Base(client, r)[c] = ApplyTo(view[client][c], c, r.actions)
<1>1. NoView \in View /\ ~NoView.held
  BY DEF NoView, View
<1>2. view[client][c] \in View /\ TypeInv /\ serverSeq \in Nat
  BY DEF DataInv, TypeInv
<1>3. r.snaps \in SUBSET Snapshot /\ r.actions \in SUBSET Envelope
  BY RequestFields
<1>4. Base(client, r)[c] =
        CASE r.kind = "subscribe" -> Adopt(view[client][c], c, r.snaps)
          [] r.kind # "subscribe" /\ r.mode = "snapshot" -> Adopt(NoView, c, r.snaps)
          [] OTHER -> IF c \in r.missing THEN NoView
                      ELSE ApplyTo(view[client][c], c, r.actions)
  BY DEF Base
<1>5. \A e \in r.actions : e.serverSeq <= serverSeq
  BY DEF DataInv
<1>6. Adopt(view[client][c], c, r.snaps) \in View /\ Adopt(NoView, c, r.snaps) \in View
  BY <1>1, <1>2, <1>3, AdoptIs
<1>7. ApplyTo(view[client][c], c, r.actions) \in View
  BY <1>2, <1>3, <1>5, ApplyDoes
<1>8. /\ r.kind = "subscribe" => Base(client, r)[c] = Adopt(view[client][c], c, r.snaps)
      /\ r.kind # "subscribe" /\ r.mode = "snapshot" => Base(client, r)[c] = Adopt(NoView, c, r.snaps)
      /\ r.kind # "subscribe" /\ r.mode # "snapshot" =>
            /\ c \in r.missing => Base(client, r)[c] = NoView
            /\ c \notin r.missing => Base(client, r)[c] = ApplyTo(view[client][c], c, r.actions)
  BY <1>4
<1>9. Base(client, r)[c] \in View
  BY <1>1, <1>6, <1>7, <1>8
<1> QED BY <1>1, <1>2, <1>8, <1>9

\* The last number a client has seen after a reply.
LEMMA SeenAfterIs ==
    ASSUME DataInv, NEW client \in Clients, NEW r \in Request, Proper(r, serverSeq + 1, incs), r.phase = "reply"
    PROVE  /\ SeenAfter(client, r) \in Nat
           /\ r.kind = "subscribe" => SeenAfter(client, r) = lastSeen[client]
           /\ r.kind = "reconnect" /\ r.mode = "replay" => lastSeen[client] <= SeenAfter(client, r)
           /\ \A n \in Nat :
                 /\ 0 < n /\ Below(r, n) /\ \A e \in early[client] : e.serverSeq < n
                 /\ (r.kind = "subscribe" \/ (r.kind = "reconnect" /\ r.mode = "replay")) => lastSeen[client] < n
                 => SeenAfter(client, r) < n
<1> DEFINE aside == Seqs(early[client])
           seen == lastSeen[client]
           numbers == CASE r.kind = "subscribe" -> {seen}
                        [] r.kind = "initialize" -> {r.current} \cup aside
                        [] r.kind = "reconnect" /\ r.mode = "snapshot" -> {s.fromSeq : s \in r.snaps} \cup aside
                        [] r.kind = "reconnect" /\ r.mode = "replay" -> {seen} \cup Seqs(r.actions) \cup aside
<1>1. TypeInv /\ serverSeq \in Nat /\ seen \in Nat
  BY DEF DataInv, TypeInv
<1>2. \A e \in early[client] : e.serverSeq \in Nat /\ e.serverSeq <= serverSeq
  BY <1>1, AroundHas, AroundTyped DEF DataInv
<1>3. /\ r.current \in Nat /\ r.current < serverSeq + 1
      /\ \A s \in r.snaps : s.fromSeq \in Nat /\ s.fromSeq < serverSeq + 1
      /\ \A e \in r.actions : e.serverSeq \in Nat /\ e.serverSeq < serverSeq + 1
  BY RequestFields DEF Proper, Below, Snapshot, Envelope
<1>4. /\ r.kind \in {"subscribe", "initialize", "reconnect"}
      /\ r.kind = "reconnect" => r.mode \in {"snapshot", "replay"}
  BY RequestFields DEF Proper
<1>5. \A n \in aside : n \in Nat /\ n <= serverSeq
  BY <1>2 DEF Seqs
<1>6. PICK b \in Nat : serverSeq <= b /\ seen <= b
  <2>1. CASE serverSeq <= seen
    BY <1>1, <2>1
  <2>2. CASE seen <= serverSeq
    BY <1>1, <2>2
  <2> QED BY <1>1, <2>1, <2>2
<1>7. \A n \in numbers : n \in Nat /\ n <= b
  <2>1. \A n \in {seen} \cup {r.current} \cup aside \cup {s.fromSeq : s \in r.snaps} \cup Seqs(r.actions) : n \in Nat /\ n <= b
    BY <1>1, <1>3, <1>5, <1>6 DEF Seqs
  <2>2. numbers \subseteq {seen} \cup {r.current} \cup aside \cup {s.fromSeq : s \in r.snaps} \cup Seqs(r.actions)
    BY <1>4
  <2> QED BY <2>1, <2>2
<1>8. (r.kind = "reconnect" /\ r.mode = "replay") => seen \in numbers
  BY <1>4
<1>9. r.kind = "subscribe" => SeenAfter(client, r) = seen
  BY DEF SeenAfter
<1>10. r.kind # "subscribe" => SeenAfter(client, r) = Max0(numbers)
  BY <1>4 DEF SeenAfter
<1>11. ASSUME NEW n \in Nat,
              0 < n /\ Below(r, n) /\ (\A e \in early[client] : e.serverSeq < n)
              /\ ((r.kind = "subscribe" \/ (r.kind = "reconnect" /\ r.mode = "replay")) => lastSeen[client] < n)
       PROVE  \A m \in numbers \cup {0} : m < n
  <2>1. \A m \in aside : m < n
    BY <1>11 DEF Seqs
  <2>2. r.current < n /\ (\A m \in {s.fromSeq : s \in r.snaps} : m < n) /\ \A m \in Seqs(r.actions) : m < n
    BY <1>11 DEF Below, Seqs
  <2> HIDE DEF aside
  <2> QED BY <1>4, <1>11, <2>1, <2>2
<1> HIDE DEF numbers, aside
<1>12. /\ Max0(numbers) \in numbers \cup {0} /\ Max0(numbers) \in Nat
       /\ \A n \in numbers : n <= Max0(numbers)
  BY <1>6, <1>7, Max0Is
<1>13. SeenAfter(client, r) \in Nat
  BY <1>1, <1>9, <1>10, <1>12
<1>14. \A n \in Nat :
         /\ 0 < n /\ Below(r, n) /\ \A e \in early[client] : e.serverSeq < n
         /\ (r.kind = "subscribe" \/ (r.kind = "reconnect" /\ r.mode = "replay")) => lastSeen[client] < n
         => SeenAfter(client, r) < n
  BY <1>9, <1>10, <1>11, <1>12
<1>15. r.kind = "reconnect" /\ r.mode = "replay" => lastSeen[client] <= SeenAfter(client, r)
  BY <1>8, <1>10, <1>12
<1> QED BY <1>9, <1>13, <1>14, <1>15

ReceiveFrame == UNCHANGED <<serverSeq, buffer, store, attached, clientOf, subs, known, request, up, incs, losses,
                            process, orphaned, link>>

\* What one client is told stays with it.
OthersKeep(client) ==
    \A other \in Clients : other # client =>
        /\ view'[other] = view[other] /\ lastSeen'[other] = lastSeen[other] /\ seenIn'[other] = seenIn[other]
        /\ waiting'[other] = waiting[other] /\ early'[other] = early[other]

TookReply(client, k, r) ==
    /\ k # NoConn /\ wire[k] # <<>> /\ Head(wire[k]).type = "reply" /\ r = Head(wire[k]).reply
    /\ r \in Answers(wire[k])
    /\ Sent(wire'[k]) = Sent(wire[k]) /\ Answers(wire[k]) = Answers(wire'[k]) \cup {r}
    /\ \A c \in Channels : view'[client][c] = ApplyTo(Base(client, r)[c], c, early[client])
    /\ lastSeen'[client] = SeenAfter(client, r)
    /\ seenIn'[client] = IF r.kind = "subscribe" THEN seenIn[client] ELSE process
    /\ waiting'[client] = "none" /\ early'[client] = {}

SetAside(client, e) ==
    waiting[client] = "handshake" \/ (waiting[client] = "subscribe" /\ ~view[client][e.channel].held)

TookAction(client, k, e) ==
    /\ k # NoConn /\ wire[k] # <<>> /\ Head(wire[k]).type = "action" /\ e = Head(wire[k]).envelope
    /\ e \in Sent(wire[k])
    /\ Sent(wire[k]) = Sent(wire'[k]) \cup {e} /\ Answers(wire[k]) = Answers(wire'[k])
    /\ \A c \in Channels : view'[client][c] = IF c = e.channel /\ ~SetAside(client, e)
                                              THEN ApplyTo(view[client][c], c, {e}) ELSE view[client][c]
    /\ lastSeen'[client] = IF waiting[client] = "handshake" THEN lastSeen[client] ELSE e.serverSeq
    /\ early'[client] = IF SetAside(client, e) THEN early[client] \cup {e} ELSE early[client]
    /\ seenIn'[client] = seenIn[client] /\ waiting'[client] = waiting[client]

\* A client takes one frame off its wire.
Took(client, k) ==
    /\ ReceiveFrame /\ OthersKeep(client)
    /\ wire' = [wire EXCEPT ![k] = Tail(wire[k])] /\ wire' \in [Conns -> Seq(Frame)]

\* A client that takes a frame takes an answer or an action.
LEMMA ReceiveDoes ==
    ASSUME TypeInv, NEW client \in Clients, Receive(client), NEW k \in Conns, k = link[client]
    PROVE  /\ Took(client, k)
           /\ \/ \E r \in Request : TookReply(client, k, r)
              \/ \E e \in Envelope : TookAction(client, k, e)
<1>1. /\ k # NoConn /\ wire[k] # <<>> /\ wire' = [wire EXCEPT ![k] = Tail(wire[k])] /\ ReceiveFrame
      /\ \/ Head(wire[k]).type = "reply" /\ ReceiveReply(client, Head(wire[k]).reply)
         \/ Head(wire[k]).type = "action" /\ ReceiveAction(client, Head(wire[k]).envelope)
  BY DEF Receive, ReceiveFrame, seqVars, hostVars, histVars, TypeInv
<1>2. wire[k] \in Seq(Frame) /\ Tail(wire[k]) \in Seq(Frame)
  BY <1>1, TailIs DEF TypeInv
<1>3. wire' \in [Conns -> Seq(Frame)] /\ wire'[k] = Tail(wire[k])
  BY <1>1, <1>2 DEF TypeInv
<1>4. CASE Head(wire[k]).type = "reply" /\ ReceiveReply(client, Head(wire[k]).reply)
  <2> DEFINE r == Head(wire[k]).reply
  <2>1. r \in Request /\ Sent(wire[k]) = Sent(wire'[k]) /\ Answers(wire[k]) = Answers(wire'[k]) \cup {r}
    BY <1>1, <1>2, <1>3, <1>4, TakeHead
  <2>2. /\ view' = [view EXCEPT ![client] = [c \in Channels |-> ApplyTo(Base(client, r)[c], c, early[client])]]
        /\ lastSeen' = [lastSeen EXCEPT ![client] = SeenAfter(client, r)]
        /\ seenIn' = IF r.kind = "subscribe" THEN seenIn ELSE [seenIn EXCEPT ![client] = process]
        /\ waiting' = [waiting EXCEPT ![client] = "none"]
        /\ early' = [early EXCEPT ![client] = {}]
    BY <1>4 DEF ReceiveReply
  <2>3. TookReply(client, k, r)
    BY <1>1, <1>4, <2>1, <2>2 DEF TookReply, TypeInv
  <2> HIDE DEF r
  <2>4. OthersKeep(client)
    BY <2>2 DEF OthersKeep, TypeInv
  <2> QED BY <1>1, <1>3, <2>1, <2>3, <2>4 DEF Took
<1>5. CASE Head(wire[k]).type = "action" /\ ReceiveAction(client, Head(wire[k]).envelope)
  <2> DEFINE e == Head(wire[k]).envelope
             aside == SetAside(client, e)
  <2>1. e \in Envelope /\ Sent(wire[k]) = Sent(wire'[k]) \cup {e} /\ Answers(wire[k]) = Answers(wire'[k])
    BY <1>1, <1>2, <1>3, <1>5, TakeHead
  <2>2. e.channel \in Channels
    BY <2>1 DEF Envelope
  <2>3. /\ early' = IF aside THEN [early EXCEPT ![client] = @ \cup {e}] ELSE early
        /\ view' = IF aside THEN view ELSE [view EXCEPT ![client][e.channel] = ApplyTo(@, e.channel, {e})]
        /\ lastSeen' = IF waiting[client] = "handshake" THEN lastSeen
                       ELSE [lastSeen EXCEPT ![client] = e.serverSeq]
        /\ waiting' = waiting /\ seenIn' = seenIn
    BY <1>5 DEF ReceiveAction, SetAside
  <2> HIDE DEF e
  <2>4. \A c \in Channels : view'[client][c] = IF c = e.channel /\ ~aside
                                              THEN ApplyTo(view[client][c], c, {e}) ELSE view[client][c]
    BY <2>2, <2>3 DEF TypeInv
  <2>5. /\ lastSeen'[client] = IF waiting[client] = "handshake" THEN lastSeen[client] ELSE e.serverSeq
        /\ early'[client] = IF aside THEN early[client] \cup {e} ELSE early[client]
        /\ seenIn'[client] = seenIn[client] /\ waiting'[client] = waiting[client]
    BY <2>3 DEF TypeInv
  <2>6. TookAction(client, k, e)
    BY <1>1, <1>5, <2>1, <2>4, <2>5 DEF TookAction, e
  <2> HIDE DEF aside
  <2>7. OthersKeep(client)
    BY <2>3 DEF OthersKeep, TypeInv
  <2> QED BY <1>1, <1>3, <2>1, <2>6, <2>7 DEF Took
<1> QED BY <1>1, <1>4, <1>5

\* A function that is typed and changes at one client is typed.
LEMMA ReceiveTyped ==
    ASSUME DataInv, HostInv, NEW client \in Clients, Receive(client)
    PROVE  TypeInv'
<1>0. PICK k \in Conns : k = link[client]
  BY LinkTyped DEF Receive
<1>1. Took(client, k) /\ TypeInv
  BY <1>0, ReceiveDoes DEF DataInv
<1>2. view' = [o \in Clients |-> view'[o]] /\ (\A o \in Clients : view'[o] = [c \in Channels |-> view'[o][c]])
      /\ lastSeen' = [o \in Clients |-> lastSeen'[o]] /\ seenIn' = [o \in Clients |-> seenIn'[o]]
      /\ waiting' = [o \in Clients |-> waiting'[o]] /\ early' = [o \in Clients |-> early'[o]]
  <2>1. /\ view \in [Clients -> [Channels -> View]] /\ lastSeen \in [Clients -> Nat] /\ seenIn \in [Clients -> Nat]
        /\ waiting \in [Clients -> {"none", "handshake", "subscribe"}] /\ early \in [Clients -> SUBSET Envelope]
    BY <1>1 DEF TypeInv
  <2>2. ASSUME NEW r, ReceiveReply(client, r)
        PROVE  /\ view' = [o \in Clients |-> view'[o]] /\ (\A o \in Clients : view'[o] = [c \in Channels |-> view'[o][c]])
               /\ lastSeen' = [o \in Clients |-> lastSeen'[o]] /\ seenIn' = [o \in Clients |-> seenIn'[o]]
               /\ waiting' = [o \in Clients |-> waiting'[o]] /\ early' = [o \in Clients |-> early'[o]]
    BY <2>1, <2>2 DEF ReceiveReply
  <2>3. ASSUME NEW e, ReceiveAction(client, e)
        PROVE  /\ view' = [o \in Clients |-> view'[o]] /\ (\A o \in Clients : view'[o] = [c \in Channels |-> view'[o][c]])
               /\ lastSeen' = [o \in Clients |-> lastSeen'[o]] /\ seenIn' = [o \in Clients |-> seenIn'[o]]
               /\ waiting' = [o \in Clients |-> waiting'[o]] /\ early' = [o \in Clients |-> early'[o]]
    BY <2>1, <2>3 DEF ReceiveAction
  <2> QED BY <2>2, <2>3 DEF Receive
<1>3. (\A c \in Channels : view'[client][c] \in View) /\ lastSeen'[client] \in Nat /\ seenIn'[client] \in Nat
      /\ waiting'[client] \in {"none", "handshake", "subscribe"} /\ early'[client] \subseteq Envelope
  <2>1. /\ \A c \in Channels : view[client][c] \in View
        /\ lastSeen[client] \in Nat /\ seenIn[client] \in Nat /\ process \in Nat /\ serverSeq \in Nat
        /\ waiting[client] \in {"none", "handshake", "subscribe"} /\ early[client] \subseteq Envelope
    BY <1>1 DEF TypeInv
  <2>2. \A e \in early[client] : e.serverSeq <= serverSeq
    BY AroundHas DEF DataInv
  <2>3. ASSUME NEW r \in Request, TookReply(client, k, r)
        PROVE  (\A c \in Channels : view'[client][c] \in View) /\ lastSeen'[client] \in Nat /\ seenIn'[client] \in Nat
               /\ waiting'[client] \in {"none", "handshake", "subscribe"} /\ early'[client] \subseteq Envelope
    <3>1. r \in Pending(k) /\ Proper(r, serverSeq + 1, incs) /\ r.phase = "reply"
      BY <2>3 DEF TookReply, Pending, Owed, DataInv
    <3>2. r.actions \subseteq Around
      BY <3>1, AroundHas
    <3>3. \A c \in Channels : ApplyTo(Base(client, r)[c], c, early[client]) \in View
      BY <2>1, <2>2, <3>2, BaseIs, ApplyDoes
    <3>4. SeenAfter(client, r) \in Nat
      BY <3>1, SeenAfterIs
    <3> QED BY <2>1, <2>3, <3>3, <3>4 DEF TookReply
  <2>4. ASSUME NEW e \in Envelope, TookAction(client, k, e)
        PROVE  (\A c \in Channels : view'[client][c] \in View) /\ lastSeen'[client] \in Nat /\ seenIn'[client] \in Nat
               /\ waiting'[client] \in {"none", "handshake", "subscribe"} /\ early'[client] \subseteq Envelope
    <3>1. e.serverSeq \in Nat /\ {e} \in SUBSET Envelope /\ \A f \in {e} : f.serverSeq <= e.serverSeq
      BY DEF Envelope
    <3>2. \A c \in Channels : ApplyTo(view[client][c], c, {e}) \in View
      BY <2>1, <3>1, ApplyDoes
    <3> QED BY <2>1, <2>4, <3>1, <3>2 DEF TookAction
  <2> QED BY <1>0, <1>1, <2>3, <2>4, ReceiveDoes
<1>4. \A o \in Clients : /\ \A c \in Channels : view'[o][c] \in View
                         /\ lastSeen'[o] \in Nat /\ seenIn'[o] \in Nat
                         /\ waiting'[o] \in {"none", "handshake", "subscribe"} /\ early'[o] \subseteq Envelope
  <2>1. \A o \in Clients : o # client =>
            /\ view'[o] = view[o] /\ lastSeen'[o] = lastSeen[o] /\ seenIn'[o] = seenIn[o]
            /\ waiting'[o] = waiting[o] /\ early'[o] = early[o]
    BY <1>1 DEF Took, OthersKeep
  <2>2. \A o \in Clients : /\ \A c \in Channels : view[o][c] \in View
                           /\ lastSeen[o] \in Nat /\ seenIn[o] \in Nat
                           /\ waiting[o] \in {"none", "handshake", "subscribe"} /\ early[o] \subseteq Envelope
    BY <1>1 DEF TypeInv
  <2> QED BY <1>3, <2>1, <2>2
<1>5. /\ view' \in [Clients -> [Channels -> View]] /\ lastSeen' \in [Clients -> Nat] /\ seenIn' \in [Clients -> Nat]
      /\ waiting' \in [Clients -> {"none", "handshake", "subscribe"}] /\ early' \in [Clients -> SUBSET Envelope]
  <2>1. \A o \in Clients : view'[o] \in [Channels -> View]
    BY <1>2, <1>4
  <2>2. view' \in [Clients -> [Channels -> View]]
    BY <1>2, <2>1
  <2> QED BY <1>2, <1>4, <2>2
<1> QED BY <1>1, <1>5 DEF Took, ReceiveFrame, TypeInv

\* A client makes up no numbers.
LEMMA ReceiveKeepsData ==
    ASSUME DataInv, HostInv, NEW client \in Clients, Receive(client)
    PROVE  DataInv'
<1>0. PICK k \in Conns : k = link[client]
  BY LinkTyped DEF Receive
<1>1. TypeInv' /\ TypeInv /\ Took(client, k)
  BY <1>0, ReceiveTyped, ReceiveDoes DEF DataInv
<1>2. /\ Sent(wire'[k]) \subseteq Sent(wire[k]) /\ Answers(wire'[k]) \subseteq Answers(wire[k])
      /\ \A e \in early'[client] : e \in early[client] \cup Sent(wire[k])
  <2>1. ASSUME NEW r, TookReply(client, k, r)
        PROVE  /\ Sent(wire'[k]) \subseteq Sent(wire[k]) /\ Answers(wire'[k]) \subseteq Answers(wire[k])
               /\ \A e \in early'[client] : e \in early[client] \cup Sent(wire[k])
    BY <2>1 DEF TookReply
  <2>2. ASSUME NEW e, TookAction(client, k, e)
        PROVE  /\ Sent(wire'[k]) \subseteq Sent(wire[k]) /\ Answers(wire'[k]) \subseteq Answers(wire[k])
               /\ \A f \in early'[client] : f \in early[client] \cup Sent(wire[k])
    BY <2>2 DEF TookAction
  <2> QED BY <1>0, <1>1, <2>1, <2>2, ReceiveDoes
<1>3. \A l \in Conns : l # k => wire'[l] = wire[l]
  BY <1>1 DEF Took, TypeInv
<1>4. \A l \in Conns : Sent(wire'[l]) \subseteq Sent(wire[l]) /\ Answers(wire'[l]) \subseteq Answers(wire[l])
  BY <1>2, <1>3
<1>5. UNCHANGED <<serverSeq, buffer, store, request, incs>>
  BY <1>1 DEF Took, ReceiveFrame
<1>6. \A l \in Conns : Pending(l)' \subseteq Pending(l)
  BY <1>4, <1>5 DEF Pending, Owed
<1>7. \A e \in Around' : e \in Around
  <2>1. \A l \in Conns : \A e \in Sent(wire'[l]) : e \in Around
    BY <1>4, AroundHas
  <2>2. \A l \in Conns : \A r \in Pending(l)' : \A e \in r.actions : e \in Around
    BY <1>6, AroundHas
  <2>3. \A o \in Clients : \A e \in early'[o] : e \in Around
    <3>1. \A o \in Clients : o # client => early'[o] = early[o]
      BY <1>1 DEF Took, OthersKeep
    <3> QED BY <1>2, <3>1, AroundHas
  <2>4. \A i \in DOMAIN buffer' : buffer'[i] \in Around
    BY <1>5, AroundHas
  <2> QED BY <2>1, <2>2, <2>3, <2>4, AroundNext
<1>8. ASSUME NEW l \in Conns, NEW r \in Pending(l)'
      PROVE  Proper(r, serverSeq' + 1, incs')
  BY <1>5, <1>6, <1>8 DEF DataInv
<1>9. ASSUME NEW l \in Conns, NEW r \in Answers(wire'[l])
      PROVE  r.phase = "reply"
  BY <1>4, <1>9 DEF DataInv
<1> QED BY <1>1, <1>5, <1>7, <1>8, <1>9 DEF DataInv

\* Every step keeps DataInv.
LEMMA NextData ==
    ASSUME DataInv, HostInv, [Next]_vars
    PROVE  DataInv'
<1>1. CASE UNCHANGED vars
  <2>1. TypeInv'
    BY <1>1 DEF DataInv, TypeInv, vars, seqVars, hostVars, netVars, histVars, clientVars
  <2> QED BY <1>1, <2>1, CalmKeepsData DEF DataInv, TypeInv, vars, seqVars, hostVars, netVars, histVars, clientVars
<1>2. ASSUME NEW client \in Clients, Reconnect(client) \/ \E S \in SUBSET Channels : Initialize(client, S)
      PROVE  DataInv'
  BY <1>2, HandshakeOpens, HandshakeKeepsData
<1> QED BY <1>1, <1>2, EmitKeepsData, StoreKeepsData, OnCloseKeepsData, HydrationKeepsData, ResumeKeepsData,
           SendReplyKeepsData, AcceptKeepsData, LoseLinkKeepsData, ReceiveKeepsData, SubscribeKeepsData,
           UnsubscribeKeepsData, RestartKeepsData DEF Next

\* Nothing ever bears a number that was not allocated yet.
LEMMA DataInvariant == Spec => []DataInv
<1>1. DataInv /\ HostInv /\ [Next]_vars => DataInv'
  BY NextData
<1> QED BY <1>1, InitData, HostInvariant, PTL DEF Spec

-----------------------------------------------------------------------------
(* KeptInv *)

KeptInv == StoreInv /\ BufferInv

\* Steps that reduce nothing and let nothing into the buffer.
LEMMA StoreSteps ==
    ASSUME DataInv, HostInv, KeptInv, DataInv',
           UNCHANGED <<serverSeq, buffer>>, incs <= incs', process' = process,
           \A c \in Channels : store'[c].state \subseteq store[c].state,
           \A client \in Clients, c \in Channels : view'[client][c].inc <= incs,
           \A client \in Clients : seenIn'[client] <= process
    PROVE  KeptInv'
<1>1. StoreInv'
  <2>1. \A c \in Channels : store'[c].state \subseteq 1..serverSeq'
    BY DEF KeptInv, StoreInv
  <2>2. ASSUME NEW client \in Clients, NEW c \in Channels
        PROVE  view'[client][c].inc <= incs'
    <3>1. view'[client][c].inc \in Nat /\ incs \in Nat /\ incs' \in Nat
      BY DEF DataInv, TypeInv, View
    <3> QED BY <3>1
  <2> QED BY <2>1, <2>2 DEF KeptInv, StoreInv
<1>2. BufferInv'
  BY DEF KeptInv, BufferInv
<1> QED BY <1>1, <1>2 DEF KeptInv

\* An emission is the newest in the buffer, and reduced where it is accepted.
LEMMA EmitKept ==
    ASSUME DataInv, KeptInv, NEW c \in Channels, NEW a \in BOOLEAN, Emit(c, a),
           \A d \in Channels : store'[d].state = store[d].state
                 \/ (a /\ d = c /\ store'[d].state = store[d].state \cup {serverSeq + 1}),
           UNCHANGED <<incs, process, view, seenIn>>
    PROVE  KeptInv'
<1>1. TypeInv /\ serverSeq \in Nat /\ buffer \in Seq(Envelope) /\ Len(buffer) \in Nat /\ DOMAIN buffer = 1..Len(buffer)
  BY DEF DataInv, TypeInv
<1>2. serverSeq' = serverSeq + 1
  BY <1>1, EmitDoes
<1>3. PICK o \in {0, 1} :
                 /\ o <= Len(buffer) + 1 /\ Len(buffer') = Len(buffer) + 1 - o
                 /\ DOMAIN buffer' = 1..(Len(buffer) + 1 - o)
                 /\ \A i \in DOMAIN buffer' :
                       IF i + o \in DOMAIN buffer THEN buffer'[i] = buffer[i + o]
                       ELSE buffer'[i] = NextEnvelope(c, a) /\ i + o = Len(buffer) + 1
  BY <1>1, EmitDoes
<1>4. NextEnvelope(c, a).serverSeq = serverSeq + 1 /\ NextEnvelope(c, a).channel = c /\ NextEnvelope(c, a).accepted = a
  BY <1>1, EnvelopeIs
<1>5. \A d \in Channels : store[d].state \subseteq 1..serverSeq
  BY DEF KeptInv, StoreInv
<1>6. StoreInv'
  <2>1. \A d \in Channels : store'[d].state \subseteq 1..(serverSeq + 1)
    BY <1>1, <1>5
  <2> QED BY <1>2, <2>1 DEF KeptInv, StoreInv
<1>7. Len(buffer) <= serverSeq /\ \A i \in DOMAIN buffer : buffer[i].serverSeq = serverSeq - Len(buffer) + i
  BY DEF KeptInv, BufferInv
<1>8. Len(buffer') <= serverSeq'
  BY <1>1, <1>2, <1>3, <1>7
<1>9. ASSUME NEW i \in DOMAIN buffer'
      PROVE  /\ buffer'[i].serverSeq = serverSeq' - Len(buffer') + i
             /\ \A d \in Channels : buffer'[i].serverSeq \in store'[d].state =>
                   buffer'[i].channel = d /\ buffer'[i].accepted
  <2>1. i \in Nat
    BY <1>1, <1>3
  <2>2. CASE i + o \in DOMAIN buffer
    <3>1. buffer'[i] = buffer[i + o] /\ buffer'[i].serverSeq = serverSeq - Len(buffer) + (i + o)
      BY <1>3, <1>7, <2>2
    <3>2. buffer'[i].serverSeq = serverSeq' - Len(buffer') + i
      BY <1>1, <1>2, <1>3, <2>1, <3>1
    <3>3. buffer'[i].serverSeq # serverSeq + 1
      BY <1>1, <1>3, <2>1, <2>2, <3>1
    <3>4. \A d \in Channels : buffer'[i].serverSeq \in store'[d].state => buffer'[i].serverSeq \in store[d].state
      BY <3>3
    <3> QED BY <2>2, <3>1, <3>2, <3>4 DEF KeptInv, BufferInv
  <2>3. CASE i + o \notin DOMAIN buffer
    <3>1. buffer'[i] = NextEnvelope(c, a) /\ i + o = Len(buffer) + 1
      BY <1>3, <2>3
    <3>2. buffer'[i].serverSeq = serverSeq' - Len(buffer') + i
      BY <1>1, <1>2, <1>3, <1>4, <2>1, <3>1
    <3>3. \A d \in Channels : serverSeq + 1 \notin store[d].state
      BY <1>1, <1>5
    <3> QED BY <1>4, <3>1, <3>2, <3>3
  <2> QED BY <2>2, <2>3
<1>10. BufferInv'
  BY <1>8, <1>9 DEF BufferInv
<1> QED BY <1>6, <1>10 DEF KeptInv

\* Every step keeps KeptInv.
LEMMA NextKept ==
    ASSUME DataInv, HostInv, KeptInv, DataInv', [Next]_vars
    PROVE  KeptInv'
<1>1. /\ TypeInv /\ serverSeq \in Nat /\ incs \in Nat /\ store \in [Channels -> ChannelEntry]
      /\ process \in Nat /\ seenIn \in [Clients -> Nat] /\ view \in [Clients -> [Channels -> View]]
  BY DEF DataInv, TypeInv
<1>2. /\ \A client \in Clients, c \in Channels : view[client][c].inc <= incs
      /\ \A client \in Clients : seenIn[client] <= process
  BY DEF KeptInv, StoreInv
<1>3. ASSUME UNCHANGED <<serverSeq, buffer, process, view, seenIn>>, incs <= incs',
             \A c \in Channels : store'[c].state \subseteq store[c].state
      PROVE  KeptInv'
  BY <1>2, <1>3, StoreSteps
<1>4. ASSUME NEW c \in Channels, Commit(c) \/ RejectAction(c)
      PROVE  KeptInv'
  <2>1. UNCHANGED <<incs, process, view, seenIn>>
    BY <1>4 DEF Commit, RejectAction, histVars, clientVars
  <2>2. CASE Commit(c)
    <3>1. \A d \in Channels : store'[d].state = store[d].state
                 \/ (d = c /\ store'[d].state = store[d].state \cup {serverSeq + 1})
      BY <1>1, <2>2 DEF Commit, ChannelEntry
    <3> QED BY <2>1, <2>2, <3>1, EmitKept DEF Commit
  <2>3. CASE RejectAction(c)
    BY <2>1, <2>3, EmitKept DEF RejectAction, hostVars
  <2> QED BY <1>4, <2>2, <2>3
<1>5. ASSUME NEW c \in Channels, CreateChannel(c) \/ DeleteChannel(c) \/ DropChannel(c)
      PROVE  KeptInv'
  <2>1. UNCHANGED <<serverSeq, buffer, process, view, seenIn>> /\ (incs' = incs \/ incs' = incs + 1)
    BY <1>5 DEF CreateChannel, Create, DeleteChannel, DropChannel, seqVars, histVars, clientVars
  <2>2. \A d \in Channels : store'[d] = store[d] \/ store'[d].state = {}
    BY <1>1, <1>5 DEF CreateChannel, Create, DeleteChannel, DropChannel, NoEntry
  <2>3. \A d \in Channels : store'[d].state \subseteq store[d].state
    BY <2>2
  <2> QED BY <1>1, <1>3, <2>1, <2>3
<1>6. ASSUME NEW k \in Conns, HydrationSettles(k)
      PROVE  KeptInv'
  <2>1. UNCHANGED <<serverSeq, buffer, process, view, seenIn>> /\ (incs' = incs \/ incs' = incs + 1)
    BY <1>6 DEF HydrationSettles, Create, seqVars, clientVars
  <2>2. \A d \in Channels : store'[d] = store[d] \/ store'[d].state = {}
    BY <1>1, <1>6 DEF HydrationSettles, Create
  <2>3. \A d \in Channels : store'[d].state \subseteq store[d].state
    BY <2>2
  <2> QED BY <1>1, <1>3, <2>1, <2>3
<1>7. ASSUME UNCHANGED <<serverSeq, buffer, process, view, seenIn, incs, store>>
      PROVE  KeptInv'
  BY <1>1, <1>3, <1>7
<1>8. ASSUME NEW k \in Conns, OnClose(k) \/ ResumeHandler(k) \/ SendReply(k)
      PROVE  KeptInv'
  BY <1>7, <1>8 DEF OnClose, ResumeHandler, SendReply, seqVars, histVars, clientVars
<1>9. ASSUME NEW client \in Clients, NEW k \in Conns, Accept(client, k)
      PROVE  KeptInv'
  BY <1>7, <1>9 DEF Accept, seqVars
<1>10. ASSUME NEW client \in Clients,
              LoseLink(client) \/ Reconnect(client) \/ (\E S \in SUBSET Channels : Initialize(client, S))
              \/ \E c \in Channels : Subscribe(client, c)
       PROVE  KeptInv'
  <2>1. CASE \E req : Handshake(client, req)
    BY <1>7, <2>1 DEF Handshake, seqVars, histVars
  <2>2. CASE LoseLink(client) \/ \E c \in Channels : Subscribe(client, c)
    BY <1>7, <2>2 DEF LoseLink, Subscribe, seqVars, hostVars, histVars
  <2> QED BY <1>10, <2>1, <2>2 DEF Reconnect, Initialize
<1>11. ASSUME NEW client \in Clients, NEW c \in Channels, Unsubscribe(client, c)
       PROVE  KeptInv'
  <2>1. UNCHANGED <<serverSeq, buffer, process, seenIn, incs, store>>
    BY <1>11 DEF Unsubscribe, seqVars, histVars
  <2>2. \A o \in Clients, d \in Channels : view'[o][d] = view[o][d] \/ view'[o][d] = NoView
    BY <1>1, <1>11 DEF Unsubscribe
  <2>3. NoView.inc = 0
    BY DEF NoView
  <2>4. \A o \in Clients, d \in Channels : view'[o][d].inc <= incs
    BY <1>1, <1>2, <2>2, <2>3
  <2> QED BY <1>1, <1>2, <2>1, <2>4, StoreSteps
<1>12. ASSUME NEW client \in Clients, Receive(client)
       PROVE  KeptInv'
  <2>0. PICK k \in Conns : k = link[client]
    BY <1>12, LinkTyped DEF Receive
  <2>1. Took(client, k) /\ UNCHANGED <<serverSeq, buffer, process, incs, store>>
    BY <1>1, <1>12, <2>0, ReceiveDoes DEF Took, ReceiveFrame
  <2>2. \A e \in early[client] : e.serverSeq <= serverSeq
    BY AroundHas DEF DataInv
  <2>3. early[client] \subseteq Envelope /\ (\A c \in Channels : view[client][c] \in View)
    BY <1>1 DEF TypeInv
  <2>4. ASSUME NEW r \in Request, TookReply(client, k, r), NEW c \in Channels
        PROVE  view'[client][c].inc <= incs /\ seenIn'[client] <= process
    <3>1. r \in Pending(k) /\ Proper(r, serverSeq + 1, incs)
      BY <2>4 DEF TookReply, Pending, Owed, DataInv
    <3>2. r.actions \subseteq Around /\ r.actions \in SUBSET Envelope /\ (\A e \in r.actions : e.serverSeq <= serverSeq)
          /\ r.snaps \in SUBSET Snapshot
      BY <3>1, AroundHas, RequestFields DEF DataInv
    <3> DEFINE b == Base(client, r)[c]
    <3>3. /\ NoView \in View /\ b \in View
          /\ r.kind = "subscribe" => b = Adopt(view[client][c], c, r.snaps)
          /\ r.kind # "subscribe" /\ r.mode = "snapshot" => b = Adopt(NoView, c, r.snaps)
          /\ r.kind # "subscribe" /\ r.mode # "snapshot" =>
                 (b = NoView \/ b = ApplyTo(view[client][c], c, r.actions))
      BY <3>2, BaseIs
    <3>4. \A v \in View : Adopt(v, c, r.snaps).inc = v.inc \/ \E s \in r.snaps : Adopt(v, c, r.snaps).inc = s.inc
      BY <3>2, AdoptIs
    <3>5. NoView.inc = 0 /\ view[client][c].inc <= incs /\ \A s \in r.snaps : s.inc <= incs
      BY <1>2, <3>1 DEF NoView, Proper
    <3>6. ApplyTo(view[client][c], c, r.actions).inc = view[client][c].inc
      BY <1>1, <2>3, <3>2, ApplyDoes
    <3> HIDE DEF b
    <3>7. b.inc <= incs
      BY <1>1, <2>3, <3>3, <3>4, <3>5, <3>6
    <3>8. ApplyTo(b, c, early[client]).inc = b.inc
      <4>1. early[client] \in SUBSET Envelope /\ b \in View /\ serverSeq \in Nat
        BY <1>1, <2>3, <3>3
      <4> QED BY <2>2, <4>1, ApplyDoes
    <3>9. seenIn'[client] = seenIn[client] \/ seenIn'[client] = process
      BY <2>4 DEF TookReply
    <3> QED BY <1>1, <1>2, <2>4, <3>7, <3>8, <3>9 DEF TookReply, b
  <2>5. ASSUME NEW e \in Envelope, TookAction(client, k, e), NEW c \in Channels
        PROVE  view'[client][c].inc <= incs /\ seenIn'[client] <= process
    <3>1. e.serverSeq \in Nat /\ {e} \in SUBSET Envelope /\ \A f \in {e} : f.serverSeq <= e.serverSeq
      BY DEF Envelope
    <3>2. ApplyTo(view[client][c], c, {e}).inc = view[client][c].inc
      BY <2>3, <3>1, ApplyDoes
    <3> QED BY <1>2, <2>5, <3>2 DEF TookAction
  <2>6. (\A c \in Channels : view'[client][c].inc <= incs) /\ (Channels # {} => seenIn'[client] <= process)
    BY <1>1, <1>12, <2>0, <2>4, <2>5, ReceiveDoes
  <2>7. Channels # {}
    BY HostAssumption
  <2>8. \A o \in Clients : o # client => view'[o] = view[o] /\ seenIn'[o] = seenIn[o]
    BY <2>1 DEF Took, OthersKeep
  <2>9. (\A o \in Clients, c \in Channels : view'[o][c].inc <= incs) /\ \A o \in Clients : seenIn'[o] <= process
    BY <1>2, <2>6, <2>7, <2>8
  <2> QED BY <1>1, <2>1, <2>9, StoreSteps
<1>13. CASE HostRestart
  <2>1. /\ serverSeq' = 0 /\ buffer' = <<>> /\ incs' = incs + 1 /\ process' = process + 1
        /\ store' = [c \in Channels |-> IF c = Root THEN [live |-> TRUE, inc |-> incs + 1, state |-> {}] ELSE NoEntry]
        /\ view' = view /\ seenIn' = seenIn
    BY <1>13 DEF HostRestart, StartProcess
  <2>2. \A c \in Channels : store'[c].state = {}
    BY <2>1 DEF NoEntry
  <2>3. \A client \in Clients, c \in Channels : view[client][c].inc \in Nat
    BY <1>1 DEF View
  <2>4. StoreInv'
    BY <1>1, <1>2, <2>1, <2>2, <2>3 DEF StoreInv
  <2>5. Len(buffer') = 0 /\ DOMAIN buffer' = {}
    BY <2>1
  <2>6. BufferInv'
    BY <2>1, <2>5 DEF BufferInv
  <2> QED BY <2>4, <2>6 DEF KeptInv
<1>14. CASE UNCHANGED vars
  BY <1>7, <1>14 DEF vars, seqVars, hostVars, histVars, clientVars
<1> QED BY <1>4, <1>5, <1>6, <1>8, <1>9, <1>10, <1>11, <1>12, <1>13, <1>14 DEF Next

\* The buffer is empty and every state too at first.
LEMMA InitKept == Init => KeptInv
<1> SUFFICES ASSUME Init PROVE KeptInv
  OBVIOUS
<1>1. \A c \in Channels : store[c].state = {}
  BY DEF Init, NoEntry
<1>2. \A client \in Clients, c \in Channels : view[client][c].inc = 0
  BY DEF Init, NoView
<1>3. serverSeq = 0 /\ buffer = <<>> /\ incs = 1 /\ process = 0 /\ \A client \in Clients : seenIn[client] = 0
  BY DEF Init, SeqInit
<1>4. Len(buffer) = 0 /\ DOMAIN buffer = {}
  BY <1>3
<1> QED BY <1>1, <1>2, <1>3, <1>4 DEF KeptInv, StoreInv, BufferInv

\* The buffer is always the end of what was emitted.
LEMMA KeptInvariant == Spec => []KeptInv
<1>1. KeptInv /\ DataInv /\ HostInv /\ DataInv' /\ [Next]_vars => KeptInv'
  BY NextKept
<1> QED BY <1>1, InitKept, HostInvariant, DataInvariant, PTL DEF Spec

-----------------------------------------------------------------------------
(* SocketInv, kind of step by kind of step *)

\* Nothing of a client's socket changes, but for subscriptions that it drops.
LEMMA SameSocket ==
    ASSUME HostInv, NEW client \in Clients, Plugged(client),
           link'[client] = link[client], waiting'[client] = waiting[client], early'[client] = early[client],
           NEW k, k = link[client],
           k # NoConn => /\ up'[k] = up[k] /\ k \in attached' /\ clientOf'[k] = clientOf[k]
                         /\ wire'[k] = wire[k] /\ request'[k] = request[k] /\ subs'[k] \subseteq subs[k]
    PROVE  Plugged(client)'
<1>1. k # NoConn => Pending(k)' = Pending(k)
  BY DEF Pending
<1> QED BY <1>1 DEF Plugged

\* Steps after which every socket bears what it bore.
LEMMA CalmSockets ==
    ASSUME HostInv, SocketInv,
           UNCHANGED <<link, waiting, early, up, wire, request, clientOf>>,
           \A client \in Clients : link[client] # NoConn =>
               link[client] \in attached' /\ subs'[link[client]] \subseteq subs[link[client]]
    PROVE  SocketInv'
<1>1. ASSUME NEW client \in Clients
      PROVE  Plugged(client)'
  <2>1. PICK k : k = link[client]
    OBVIOUS
  <2>2. Plugged(client)
    BY DEF SocketInv
  <2> QED BY <2>1, <2>2, SameSocket
<1> QED BY <1>1 DEF SocketInv

\* What SocketInv says of the socket of one client.
LEMMA PluggedHas ==
    ASSUME HostInv, SocketInv, NEW client \in Clients, NEW k \in Conns, link[client] = k
    PROVE  /\ k # NoConn /\ up[k] /\ k \in attached /\ clientOf[k] \in {NoClient, client}
           /\ Ordered(wire[k]) /\ Before(early[client], Sent(wire[k])) /\ client # NoClient
           /\ request[k].kind # "none" => clientOf[k] = client
           /\ clientOf[k] = NoClient =>
                 waiting[client] = "none" /\ request[k].kind = "none" /\ wire[k] = <<>> /\ subs[k] = {}
           /\ clientOf[k] = client =>
                 /\ waiting[client] = "none" => Pending(k) = {}
                 /\ \A r \in Pending(k) : waiting[client] = KindOf(r)
                 /\ request[k].kind # "none" => Answers(wire[k]) = {}
           /\ \A other \in Clients : link[other] = k => other = client
<1>1. k # NoConn /\ client # NoClient
  BY HostAssumption
<1>2. Plugged(client)
  BY DEF SocketInv
<1> QED BY <1>1, <1>2 DEF Plugged, SocketInv

\* The newest number follows whatever is on the way.
LEMMA EmitSockets ==
    ASSUME DataInv, HostInv, SocketInv, NEW c \in Channels, Commit(c) \/ RejectAction(c)
    PROVE  SocketInv'
<1>1. PICK a \in BOOLEAN : Emit(c, a) /\ Broadcast(c, a)
  BY DEF Commit, RejectAction
<1>2. UNCHANGED <<link, waiting, early, up, request, clientOf, attached, subs>>
  BY DEF Commit, RejectAction, hostVars, clientVars
<1> DEFINE e == NextEnvelope(c, a)
<1>3. TypeInv /\ serverSeq \in Nat /\ e \in Envelope /\ e.serverSeq = serverSeq + 1
  BY EnvelopeIs DEF DataInv, TypeInv
<1>4. \A k \in Conns :
                 IF k \in attached /\ c \in subs[k] /\ up[k]
                 THEN /\ wire'[k] = Append(wire[k], [type |-> "action", envelope |-> e])
                      /\ Sent(wire'[k]) = Sent(wire[k]) \cup {e}
                      /\ Answers(wire'[k]) = Answers(wire[k])
                 ELSE wire'[k] = wire[k]
  BY <1>1, <1>3, BroadcastDoes
<1> HIDE DEF e
<1>5. \A k \in Conns : Pending(k)' = Pending(k) /\ Answers(wire'[k]) = Answers(wire[k])
  BY <1>1, <1>2, <1>3, EmitStep
<1>6. ASSUME NEW client \in Clients
      PROVE  Plugged(client)'
  <2>1. CASE link[client] = NoConn
    BY <1>2, <2>1 DEF SocketInv, Plugged
  <2>2. ASSUME NEW k \in Conns, link[client] = k
        PROVE  Plugged(client)'
    <3>1. CASE wire'[k] = wire[k]
      <4>1. Plugged(client)
        BY DEF SocketInv
      <4>2. k \in attached' /\ subs'[k] \subseteq subs[k]
        BY <1>2, <2>2, PluggedHas
      <4> QED BY <1>2, <2>2, <3>1, <4>1, <4>2, SameSocket
    <3>2. CASE c \in subs[k] /\ up[k] /\ k \in attached
      <4>1. /\ k # NoConn /\ clientOf[k] = client /\ Ordered(wire[k]) /\ Before(early[client], Sent(wire[k]))
            /\ clientOf[k] # NoClient
        BY <2>2, <3>2, PluggedHas
      <4>2. /\ wire'[k] = Append(wire[k], [type |-> "action", envelope |-> e])
            /\ Sent(wire'[k]) = Sent(wire[k]) \cup {e}
        BY <1>4, <3>2
      <4>3. \A d \in Around : d.serverSeq \in Nat /\ d.serverSeq < e.serverSeq
        BY <1>3, AroundTyped DEF DataInv
      <4>4. \A r \in Answers(wire[k]) : Below(r, e.serverSeq)
        <5>1. \A r \in Answers(wire[k]) : r \in Pending(k)
          BY DEF Pending, Owed
        <5>2. \A r \in Pending(k) : Proper(r, serverSeq + 1, incs)
          BY DEF DataInv
        <5>3. \A r \in Pending(k) : Below(r, e.serverSeq)
          BY <1>3, <5>2 DEF Proper
        <5> QED BY <5>1, <5>3
      <4>5. wire[k] \in Seq(Frame)
        BY <1>3 DEF TypeInv
      <4>6. \A d \in Sent(wire[k]) : d.serverSeq < e.serverSeq
        BY <4>3, AroundHas
      <4>7. Ordered(wire'[k])
        BY <1>3, <4>1, <4>2, <4>4, <4>5, <4>6, OrderedAction
      <4>8. Before(early[client], Sent(wire'[k]))
        BY <4>1, <4>2, <4>3, AroundHas DEF Before
      <4>9. Plugged(client)
        BY DEF SocketInv
      <4> QED BY <1>2, <1>5, <2>2, <4>1, <4>7, <4>8, <4>9 DEF Plugged
    <3> QED BY <1>4, <3>1, <3>2
  <2> QED BY <2>1, <2>2, LinkTyped
<1>7. \A k \in Conns : ~up'[k] => wire'[k] = <<>>
  BY <1>2, <1>4 DEF SocketInv
<1> QED BY <1>2, <1>6, <1>7 DEF SocketInv

\* A handler takes a step that keeps its kind.
LEMMA RequestSockets ==
    ASSUME DataInv, HostInv, SocketInv, NEW k \in Conns, NEW new \in Request, request' = [request EXCEPT ![k] = new],
           UNCHANGED <<link, early, up, wire, clientOf, attached, buffer>>,
           \A l \in Conns : l # k => subs'[l] = subs[l],
           \A client \in Clients : IF link[client] = k
               THEN clientOf[k] = client /\ waiting'[client] = KindOf(new) /\ waiting[client] \in {"none", KindOf(new)}
                    /\ Answers(wire[k]) = {}
               ELSE waiting'[client] = waiting[client]
    PROVE  SocketInv'
<1>1. TypeInv
  BY DEF DataInv
<1>2. request'[k] = new /\ \A l \in Conns : l # k => request'[l] = request[l]
  BY <1>1 DEF TypeInv
<1>3. Pending(k)' = Owed(wire[k], new)
  BY <1>1, RequestStep
<1>4. ASSUME NEW client \in Clients
      PROVE  Plugged(client)'
  <2>1. Plugged(client)
    BY DEF SocketInv
  <2>2. CASE link[client] = NoConn
    <3>1. waiting'[client] = waiting[client]
      BY <2>2, HostAssumption
    <3> QED BY <2>1, <2>2, <3>1, SameSocket
  <2>3. ASSUME NEW l \in Conns, link[client] = l, l # k
        PROVE  Plugged(client)'
    <3>1. waiting'[client] = waiting[client] /\ request'[l] = request[l] /\ subs'[l] = subs[l] /\ l \in attached
      BY <1>2, <2>3, PluggedHas
    <3> QED BY <2>1, <2>3, <3>1, SameSocket
  <2>4. CASE link[client] = k
    <3>1. /\ k # NoConn /\ up[k] /\ k \in attached /\ clientOf[k] = client /\ client # NoClient
          /\ Ordered(wire[k]) /\ Before(early[client], Sent(wire[k]))
          /\ waiting'[client] = KindOf(new) /\ Answers(wire[k]) = {}
      BY <2>4, PluggedHas
    <3>2. \A r \in Pending(k)' : r = new
      BY <1>3, <3>1 DEF Owed
    <3>3. waiting'[client] # "none"
      BY <3>1 DEF KindOf
    <3> QED BY <2>1, <2>4, <3>1, <3>2, <3>3 DEF Plugged
  <2> QED BY <2>2, <2>3, <2>4, LinkTyped
<1> QED BY <1>4 DEF SocketInv

\* The hydrator answers within the host.
LEMMA HydrationSockets ==
    ASSUME DataInv, HostInv, SocketInv, NEW k \in Conns, HydrationSettles(k)
    PROVE  SocketInv'
<1>1. /\ UNCHANGED <<link, waiting, early, up, wire, clientOf, attached, buffer, subs>>
      /\ request[k].kind # "none" /\ request[k] \in Request /\ TypeInv
  BY DEF HydrationSettles, seqVars, netVars, clientVars, DataInv, TypeInv
<1>2. PICK hydrated \in BOOLEAN : request' = [request EXCEPT ![k].phase = "resumed", ![k].hydrated = hydrated]
  BY DEF HydrationSettles
<1> DEFINE new == [request[k] EXCEPT !.phase = "resumed", !.hydrated = hydrated]
<1>3. request' = [request EXCEPT ![k] = new]
  BY <1>1, <1>2 DEF TypeInv
<1>4. new \in Request /\ new.kind = request[k].kind
  BY <1>1 DEF Request
<1> HIDE DEF new
<1>5. KindOf(new) = KindOf(request[k]) /\ request[k] \in Pending(k)
  BY <1>1, <1>4 DEF KindOf, Pending, Owed
<1>6. ASSUME NEW client \in Clients, link[client] = k
      PROVE  clientOf[k] = client /\ waiting[client] = KindOf(new) /\ Answers(wire[k]) = {}
  BY <1>1, <1>5, <1>6, PluggedHas
<1> QED BY <1>1, <1>3, <1>4, <1>6, RequestSockets

\* A handler that goes on still owes one answer of its kind.
LEMMA ResumeSockets ==
    ASSUME DataInv, HostInv, SocketInv, NEW k \in Conns, ResumeHandler(k)
    PROVE  SocketInv'
<1> DEFINE req == request[k]
<1>1. /\ req \in Request /\ req.kind # "none" /\ req.todo # <<>> /\ req \in Pending(k) /\ waiting' = waiting
  BY ResumeDoes
<1>2. PICK new \in Request, newSub \in SUBSET Channels :
                 /\ Handled(k, new, newSub)
                 /\ \/ req.kind = "subscribe" /\ new = Refused(req) /\ newSub = subs[k]
                    \/ Live(Head(req.todo)) /\ Advanced(req, subs[k], new, newSub)
                    \/ ~Live(Head(req.todo)) /\ Advanced(Skipped(req), subs[k], new, newSub)
  BY ResumeDoes
<1>3. new.kind = req.kind
  BY <1>1, <1>2, RefusedIs, SkippedIs DEF Advanced
<1>4. KindOf(new) = KindOf(req)
  BY <1>3 DEF KindOf
<1>5. ASSUME NEW client \in Clients, link[client] = k
      PROVE  clientOf[k] = client /\ waiting[client] = KindOf(new) /\ Answers(wire[k]) = {}
  BY <1>1, <1>4, <1>5, PluggedHas
<1>6. /\ request' = [request EXCEPT ![k] = new] /\ UNCHANGED <<link, early, up, wire, clientOf, attached, buffer>>
      /\ \A l \in Conns : l # k => subs'[l] = subs[l]
  BY <1>2 DEF Handled, HandlerFrame, DataInv, TypeInv
<1> QED BY <1>1, <1>5, <1>6, RequestSockets

\* An idle client was owed nothing and is owed one answer now.
LEMMA SubscribeSockets ==
    ASSUME DataInv, HostInv, SocketInv, NEW client \in Clients, NEW c \in Channels, Subscribe(client, c)
    PROVE  SocketInv'
<1>1. PICK k \in Conns : k = link[client]
  BY LinkTyped DEF Subscribe, Idle
<1>2. clientOf[k] = client /\ waiting[client] = "none" /\ waiting' = [waiting EXCEPT ![client] = "subscribe"]
  BY <1>1, SubscribeDoes
<1>3. PICK new \in Request, newSub \in SUBSET Channels :
                 Handled(k, new, newSub) /\ Advanced(Asked(c), subs[k], new, newSub)
  BY <1>1, SubscribeDoes
<1>4. new.kind = "subscribe" /\ KindOf(new) = "subscribe"
  BY <1>3, AskedIs DEF Advanced, KindOf
<1>5. Answers(wire[k]) = {}
  BY <1>1, <1>2, PluggedHas DEF Pending, Owed
<1>6. \A other \in Clients : IF other = client THEN waiting'[other] = "subscribe" ELSE waiting'[other] = waiting[other]
  BY <1>2 DEF DataInv, TypeInv
<1>7. \A other \in Clients : link[other] = k <=> other = client
  BY <1>1, PluggedHas
<1>8. /\ request' = [request EXCEPT ![k] = new] /\ UNCHANGED <<link, early, up, wire, clientOf, attached, buffer>>
      /\ \A l \in Conns : l # k => subs'[l] = subs[l]
  BY <1>3 DEF Handled, HandlerFrame, DataInv, TypeInv
<1>9. \A other \in Clients : IF link[other] = k
               THEN clientOf[k] = other /\ waiting'[other] = KindOf(new) /\ waiting[other] \in {"none", KindOf(new)}
                    /\ Answers(wire[k]) = {}
               ELSE waiting'[other] = waiting[other]
  BY <1>2, <1>4, <1>5, <1>6, <1>7
<1> QED BY <1>8, <1>9, RequestSockets

\* The answer that was owed is the only one on the wire.
LEMMA SendReplySockets ==
    ASSUME DataInv, HostInv, SocketInv, NEW k \in Conns, SendReply(k)
    PROVE  SocketInv'
<1>1. /\ UNCHANGED <<link, waiting, early, up, clientOf, attached, subs>>
      /\ request[k].kind # "none" /\ TypeInv /\ request[k] \in Request /\ wire[k] \in Seq(Frame)
  BY DEF SendReply, clientVars, DataInv, TypeInv
<1>2. /\ request' = [request EXCEPT ![k] = NoRequest]
      /\ \A l \in Conns : l # k => wire'[l] = wire[l]
      /\ up[k] => /\ wire'[k] = Append(wire[k], [type |-> "reply", reply |-> request[k]])
                  /\ Sent(wire'[k]) = Sent(wire[k])
      /\ ~up[k] => wire'[k] = wire[k]
  BY <1>1, SendReplyDoes
<1>3. request'[k] = NoRequest /\ \A l \in Conns : l # k => request'[l] = request[l]
  BY <1>1, <1>2 DEF TypeInv
<1>4. up[k] => Pending(k)' = Pending(k)
  BY <1>1, SendReplyStep
<1>5. ASSUME NEW client \in Clients
      PROVE  Plugged(client)'
  <2>1. Plugged(client)
    BY DEF SocketInv
  <2>2. CASE link[client] = NoConn
    BY <1>1, <2>1, <2>2, SameSocket
  <2>3. ASSUME NEW l \in Conns, link[client] = l, l # k
        PROVE  Plugged(client)'
    <3>1. wire'[l] = wire[l] /\ request'[l] = request[l] /\ l \in attached
      BY <1>2, <1>3, <2>3, PluggedHas
    <3> QED BY <1>1, <2>1, <2>3, <3>1, SameSocket
  <2>4. CASE link[client] = k
    <3>1. /\ k # NoConn /\ up[k] /\ k \in attached /\ clientOf[k] = client /\ client # NoClient
          /\ Ordered(wire[k]) /\ Before(early[client], Sent(wire[k])) /\ Answers(wire[k]) = {}
      BY <1>1, <2>4, PluggedHas
    <3>2. Ordered(wire'[k])
      BY <1>1, <1>2, <3>1, OrderedReply
    <3> QED BY <1>1, <1>2, <1>3, <1>4, <2>1, <2>4, <3>1, <3>2, NoRequestIs DEF Plugged
  <2> QED BY <2>2, <2>3, <2>4, LinkTyped
<1>6. \A l \in Conns : ~up'[l] => wire'[l] = <<>>
  BY <1>1, <1>2 DEF SocketInv
<1> QED BY <1>1, <1>5, <1>6 DEF SocketInv

\* A new socket carries nothing.
LEMMA AcceptSockets ==
    ASSUME DataInv, HostInv, SocketInv, NEW client \in Clients, NEW k \in Conns, Accept(client, k)
    PROVE  SocketInv'
<1>1. /\ link[client] = NoConn /\ ~up[k] /\ request[k].kind = "none" /\ clientOf[k] = NoClient
      /\ \A other \in Clients : link[other] # k
      /\ attached' = attached \cup {k} /\ up' = [up EXCEPT ![k] = TRUE] /\ link' = [link EXCEPT ![client] = k]
      /\ subs' = [subs EXCEPT ![k] = {}] /\ clientOf' = [clientOf EXCEPT ![k] = NoClient]
      /\ UNCHANGED <<waiting, early, wire, request>>
  BY DEF Accept
<1>2. wire[k] = <<>> /\ Ordered(wire[k]) /\ Sent(wire[k]) = {}
  BY <1>1, NothingOn DEF SocketInv
<1>3. TypeInv /\ clientOf \in [Conns -> Clients \cup {NoClient}] /\ link \in [Clients -> Conns \cup {NoConn}]
  BY DEF DataInv, HostInv, ConnInv, ConnTypes
<1>4. clientOf' = clientOf /\ up'[k] /\ subs'[k] = {} /\ link'[client] = k /\ k # NoConn /\ client # NoClient
  BY <1>1, <1>3, HostAssumption DEF TypeInv
<1>5. /\ \A l \in Conns : l # k => up'[l] = up[l] /\ subs'[l] = subs[l]
      /\ \A other \in Clients : other # client => link'[other] = link[other]
  BY <1>1, <1>3 DEF TypeInv
<1>6. Plugged(client)'
  <2>1. Plugged(client)
    BY DEF SocketInv
  <2>2. waiting'[client] = "none" /\ early'[client] = {}
    BY <1>1, <2>1 DEF Plugged
  <2> QED BY <1>1, <1>2, <1>4, <2>2 DEF Plugged, Before
<1>7. ASSUME NEW other \in Clients, other # client
      PROVE  Plugged(other)'
  <2>1. Plugged(other)
    BY DEF SocketInv
  <2>2. CASE link[other] = NoConn
    BY <1>1, <1>5, <1>7, <2>1, <2>2, SameSocket
  <2>3. ASSUME NEW l \in Conns, link[other] = l
        PROVE  Plugged(other)'
    <3>1. l # k /\ l \in attached
      BY <1>1, <2>3, PluggedHas
    <3> QED BY <1>1, <1>4, <1>5, <1>7, <2>1, <2>3, <3>1, SameSocket
  <2> QED BY <2>2, <2>3, LinkTyped
<1>8. \A one, two \in Clients : link'[one] # NoConn /\ link'[one] = link'[two] => one = two
  BY <1>1, <1>4, <1>5 DEF SocketInv
<1>9. \A l \in Conns : ~up'[l] => wire'[l] = <<>>
  BY <1>1, <1>2, <1>5 DEF SocketInv
<1> QED BY <1>6, <1>7, <1>8, <1>9 DEF SocketInv

\* A client without a socket waits for nothing.
LEMMA LoseLinkSockets ==
    ASSUME DataInv, HostInv, SocketInv, NEW client \in Clients, LoseLink(client)
    PROVE  SocketInv'
<1>0. PICK k \in Conns : k = link[client]
  BY LinkTyped DEF LoseLink
<1>1. /\ up' = [up EXCEPT ![k] = FALSE] /\ wire' = [wire EXCEPT ![k] = <<>>]
      /\ link' = [link EXCEPT ![client] = NoConn]
      /\ waiting' = [waiting EXCEPT ![client] = "none"] /\ early' = [early EXCEPT ![client] = {}]
      /\ UNCHANGED <<attached, clientOf, subs, request>>
  BY <1>0 DEF LoseLink, hostVars
<1>2. TypeInv /\ link \in [Clients -> Conns \cup {NoConn}]
  BY DEF DataInv, HostInv, ConnInv, ConnTypes
<1>3. /\ wire'[k] = <<>> /\ link'[client] = NoConn /\ waiting'[client] = "none" /\ early'[client] = {}
      /\ \A l \in Conns : l # k => up'[l] = up[l] /\ wire'[l] = wire[l]
      /\ \A other \in Clients : other # client =>
            link'[other] = link[other] /\ waiting'[other] = waiting[other] /\ early'[other] = early[other]
  BY <1>1, <1>2 DEF TypeInv
<1>4. Plugged(client)'
  BY <1>3 DEF Plugged
<1>5. ASSUME NEW other \in Clients, other # client
      PROVE  Plugged(other)'
  <2>1. Plugged(other)
    BY DEF SocketInv
  <2>2. CASE link[other] = NoConn
    BY <1>1, <1>3, <1>5, <2>1, <2>2, SameSocket
  <2>3. ASSUME NEW l \in Conns, link[other] = l
        PROVE  Plugged(other)'
    <3>1. l # k /\ l \in attached
      BY <1>0, <1>5, <2>3, PluggedHas
    <3> QED BY <1>1, <1>3, <1>5, <2>1, <2>3, <3>1, SameSocket
  <2> QED BY <2>2, <2>3, LinkTyped
<1>6. \A one, two \in Clients : link'[one] # NoConn /\ link'[one] = link'[two] => one = two
  BY <1>3 DEF SocketInv
<1>7. \A l \in Conns : ~up'[l] => wire'[l] = <<>>
  BY <1>3 DEF SocketInv
<1> QED BY <1>4, <1>5, <1>6, <1>7 DEF SocketInv

\* A socket that closes is no client's any more.
LEMMA OnCloseSockets ==
    ASSUME HostInv, SocketInv, NEW k \in Conns, OnClose(k)
    PROVE  SocketInv'
<1>1. /\ ~up[k] /\ attached' = attached \ {k} /\ subs' = [subs EXCEPT ![k] = {}]
      /\ clientOf' = [clientOf EXCEPT ![k] = NoClient]
      /\ UNCHANGED <<link, waiting, early, up, wire, request>>
  BY DEF OnClose, netVars, clientVars
<1>2. \A l \in Conns : l # k => clientOf'[l] = clientOf[l] /\ subs'[l] = subs[l]
  BY <1>1 DEF HostInv, ConnInv, ConnTypes
<1>3. ASSUME NEW client \in Clients
      PROVE  Plugged(client)'
  <2>1. Plugged(client)
    BY DEF SocketInv
  <2>2. CASE link[client] = NoConn
    BY <1>1, <2>1, <2>2, SameSocket
  <2>3. ASSUME NEW l \in Conns, link[client] = l
        PROVE  Plugged(client)'
    <3>1. l # k /\ l \in attached'
      BY <1>1, <2>3, PluggedHas
    <3> QED BY <1>1, <1>2, <2>1, <2>3, <3>1, SameSocket
  <2> QED BY <2>2, <2>3, LinkTyped
<1> QED BY <1>1, <1>3 DEF SocketInv

\* The socket was silent before its handshake, and no other client has it.
LEMMA HandshakeSockets ==
    ASSUME DataInv, HostInv, SocketInv, NEW client \in Clients, NEW req \in Request, Handshake(client, req),
           Opening(client, req)
    PROVE  SocketInv'
<1>0. PICK k \in Conns : k = link[client]
  BY LinkTyped DEF Handshake
<1>1. PICK new \in Request, newSub \in SUBSET Channels : Shook(client, k, req, new, newSub)
  BY <1>0, HandshakeDoes
<1> DEFINE previous == Previous(client, k)
<1>2. /\ k # NoConn /\ clientOf[k] = NoClient /\ k \in attached /\ k \notin previous
      /\ attached' = attached \ previous /\ clientOf' = [clientOf EXCEPT ![k] = client]
      /\ up' = [p \in Conns |-> up[p] /\ p \notin previous]
      /\ waiting' = [waiting EXCEPT ![client] = "handshake"]
      /\ link' = link /\ early' = early
      /\ \A l \in Conns : IF l \in previous THEN wire'[l] = <<>> ELSE wire'[l] = wire[l]
      /\ subs' = [subs EXCEPT ![k] = newSub] /\ request' = [request EXCEPT ![k] = new]
      /\ new.kind = req.kind
      /\ Pending(k)' = Owed(wire[k], new)
  BY <1>1 DEF Shook, Advanced
<1>3. /\ TypeInv /\ clientOf \in [Conns -> Clients \cup {NoClient}]
      /\ \A p \in previous : clientOf[p] = client /\ p # k
  BY DEF DataInv, HostInv, ConnInv, ConnTypes, Previous
<1> HIDE DEF previous
<1>4. /\ clientOf'[k] = client /\ (\A l \in Conns : l # k => clientOf'[l] = clientOf[l] /\ subs'[l] = subs[l] /\ request'[l] = request[l])
      /\ waiting'[client] = "handshake" /\ (\A o \in Clients : o # client => waiting'[o] = waiting[o])
      /\ \A l \in Conns : up'[l] <=> up[l] /\ l \notin previous
  BY <1>2, <1>3 DEF TypeInv
<1>5. Plugged(client)'
  <2>1. /\ up[k] /\ wire[k] = <<>> /\ Ordered(wire[k]) /\ client # NoClient /\ Before(early[client], Sent(wire[k]))
    BY <1>0, <1>2, PluggedHas
  <2>2. wire'[k] = wire[k] /\ up'[k] /\ k \in attached'
    BY <1>2, <1>4, <2>1
  <2>3. Answers(wire'[k]) = {} /\ \A r \in Pending(k)' : r = new
    BY <1>2, <2>1, <2>2, NothingOn DEF Owed
  <2>4. KindOf(new) = "handshake"
    BY <1>2 DEF KindOf, Opening
  <2> QED BY <1>0, <1>2, <1>4, <2>1, <2>2, <2>3, <2>4 DEF Plugged
<1>6. ASSUME NEW other \in Clients, other # client
      PROVE  Plugged(other)'
  <2>1. Plugged(other)
    BY DEF SocketInv
  <2>2. CASE link[other] = NoConn
    BY <1>2, <1>4, <1>6, <2>1, <2>2, SameSocket
  <2>3. ASSUME NEW l \in Conns, link[other] = l
        PROVE  Plugged(other)'
    <3>1. l # k /\ l \in attached /\ up[l] /\ clientOf[l] \in {NoClient, other}
      BY <1>0, <1>6, <2>3, PluggedHas
    <3>2. l \notin previous
      BY <1>3, <1>6, <3>1, HostAssumption
    <3> QED BY <1>2, <1>4, <1>6, <2>1, <2>3, <3>1, <3>2, SameSocket
  <2> QED BY <2>2, <2>3, LinkTyped
<1>7. \A l \in Conns : ~up'[l] => wire'[l] = <<>>
  BY <1>2, <1>4 DEF SocketInv
<1> QED BY <1>2, <1>5, <1>6, <1>7 DEF SocketInv

\* What is left on the wire follows what was taken, and so what is set aside.
LEMMA ReceiveSockets ==
    ASSUME DataInv, HostInv, SocketInv, NEW client \in Clients, Receive(client)
    PROVE  SocketInv'
<1>0. PICK k \in Conns : k = link[client]
  BY LinkTyped DEF Receive
<1>1. Took(client, k) /\ TypeInv
  BY <1>0, ReceiveDoes DEF DataInv
<1>2. /\ UNCHANGED <<attached, clientOf, subs, request, up, link>>
      /\ wire' = [wire EXCEPT ![k] = Tail(wire[k])]
      /\ \A other \in Clients : other # client => waiting'[other] = waiting[other] /\ early'[other] = early[other]
  BY <1>1 DEF Took, ReceiveFrame, OthersKeep
<1>3. wire'[k] = Tail(wire[k]) /\ (\A l \in Conns : l # k => wire'[l] = wire[l]) /\ wire[k] \in Seq(Frame)
  BY <1>1, <1>2 DEF TypeInv
<1>4. /\ k # NoConn /\ up[k] /\ k \in attached /\ clientOf[k] \in {NoClient, client} /\ client # NoClient
      /\ Ordered(wire[k]) /\ Before(early[client], Sent(wire[k]))
      /\ clientOf[k] = NoClient => wire[k] = <<>>
      /\ clientOf[k] = client =>
            /\ waiting[client] = "none" => Pending(k) = {}
            /\ \A r \in Pending(k) : waiting[client] = KindOf(r)
            /\ request[k].kind # "none" => Answers(wire[k]) = {}
  BY <1>0, PluggedHas
<1>5. Plugged(client)
  BY DEF SocketInv
<1>6. wire[k] # <<>> /\ clientOf[k] = client
  BY <1>0, <1>4 DEF Receive
<1>7. Ordered(wire'[k])
  BY <1>3, <1>4, <1>6, OrderedTail
<1>8. ASSUME NEW r \in Request, TookReply(client, k, r)
      PROVE  Plugged(client)'
  <2>1. Answers(wire'[k]) = {} /\ r \in Answers(wire[k]) /\ waiting'[client] = "none" /\ early'[client] = {}
    BY <1>3, <1>4, <1>6, <1>8, OrderedTail DEF TookReply
  <2>2. request[k].kind = "none"
    BY <1>4, <1>6, <2>1
  <2>3. Pending(k)' = {}
    BY <1>2, <2>1, <2>2 DEF Pending, Owed
  <2> QED BY <1>0, <1>2, <1>4, <1>6, <1>7, <2>1, <2>2, <2>3 DEF Plugged, Before
<1>9. ASSUME NEW e \in Envelope, TookAction(client, k, e)
      PROVE  Plugged(client)'
  <2>1. /\ Sent(wire[k]) = Sent(wire'[k]) \cup {e} /\ Answers(wire[k]) = Answers(wire'[k])
        /\ early'[client] = early[client] \/ (SetAside(client, e) /\ early'[client] = early[client] \cup {e})
        /\ waiting'[client] = waiting[client]
    BY <1>9 DEF TookAction
  <2>2. Pending(k)' = Pending(k)
    BY <1>2, <2>1 DEF Pending, Owed
  <2>3. \A f \in Sent(wire'[k]) : e.serverSeq < f.serverSeq
    <3>1. Head(wire[k]).type = "action" /\ e = Head(wire[k]).envelope
      BY <1>9 DEF TookAction
    <3>2. \A f \in Sent(Tail(wire[k])) : Head(wire[k]).envelope.serverSeq < f.serverSeq
      BY <1>3, <1>4, <1>6, <3>1, OrderedTail
    <3> QED BY <1>3, <3>1, <3>2
  <2>4. Before(early'[client], Sent(wire'[k]))
    BY <1>4, <2>1, <2>3 DEF Before
  <2>5. waiting'[client] = "none" => early'[client] = {}
    <3>1. waiting[client] = "none" => ~SetAside(client, e)
      BY DEF SetAside
    <3> QED BY <1>5, <2>1, <3>1 DEF Plugged
  <2> QED BY <1>0, <1>2, <1>4, <1>5, <1>6, <1>7, <2>1, <2>2, <2>4, <2>5 DEF Plugged
<1>10. Plugged(client)'
  BY <1>0, <1>1, <1>8, <1>9, ReceiveDoes
<1>11. ASSUME NEW other \in Clients, other # client
       PROVE  Plugged(other)'
  <2>1. Plugged(other)
    BY DEF SocketInv
  <2>2. CASE link[other] = NoConn
    BY <1>2, <1>11, <2>1, <2>2, SameSocket
  <2>3. ASSUME NEW l \in Conns, link[other] = l
        PROVE  Plugged(other)'
    <3>1. l # k /\ l \in attached
      BY <1>0, <1>11, <2>3, PluggedHas
    <3> QED BY <1>2, <1>3, <1>11, <2>1, <2>3, <3>1, SameSocket
  <2> QED BY <2>2, <2>3, LinkTyped
<1>12. \A l \in Conns : ~up'[l] => wire'[l] = <<>>
  BY <1>2, <1>3, <1>4 DEF SocketInv
<1> QED BY <1>2, <1>10, <1>11, <1>12 DEF SocketInv

\* Every step keeps SocketInv.
LEMMA NextSockets ==
    ASSUME DataInv, HostInv, SocketInv, [Next]_vars
    PROVE  SocketInv'
<1>1. ASSUME NEW c \in Channels, CreateChannel(c) \/ DropChannel(c)
      PROVE  SocketInv'
  <2>1. UNCHANGED <<link, waiting, early, up, wire, request, clientOf, attached, subs>>
    BY <1>1 DEF CreateChannel, DropChannel, netVars, clientVars
  <2>2. \A client \in Clients : link[client] # NoConn => link[client] \in attached'
    BY <2>1, LinkTyped, PluggedHas
  <2> QED BY <2>1, <2>2, CalmSockets
<1>2. ASSUME NEW c \in Channels, DeleteChannel(c)
      PROVE  SocketInv'
  <2>1. /\ UNCHANGED <<link, waiting, early, up, wire, request, clientOf, attached>>
        /\ subs' = [k \in Conns |-> IF k \in attached THEN subs[k] \ {c} ELSE subs[k]]
    BY <1>2 DEF DeleteChannel, netVars, clientVars
  <2>2. \A client \in Clients : link[client] # NoConn =>
            link[client] \in Conns /\ link[client] \in attached' /\ subs'[link[client]] \subseteq subs[link[client]]
    BY <2>1, LinkTyped, PluggedHas
  <2> QED BY <2>1, <2>2, CalmSockets
<1>3. ASSUME NEW client \in Clients, NEW c \in Channels, Unsubscribe(client, c)
      PROVE  SocketInv'
  <2>0. PICK k \in Conns : k = link[client]
    BY <1>3, LinkTyped DEF Unsubscribe, Idle
  <2>1. /\ UNCHANGED <<link, waiting, early, up, wire, request, clientOf, attached>>
        /\ subs' = [subs EXCEPT ![k] = @ \ {c}]
    BY <1>3, <2>0 DEF Unsubscribe, netVars
  <2>2. \A l \in Conns : subs'[l] \subseteq subs[l]
    BY <2>1 DEF DataInv, TypeInv
  <2>3. \A o \in Clients : link[o] # NoConn =>
            link[o] \in Conns /\ link[o] \in attached' /\ subs'[link[o]] \subseteq subs[link[o]]
    BY <2>1, <2>2, LinkTyped, PluggedHas
  <2> QED BY <2>1, <2>3, CalmSockets
<1>4. ASSUME NEW client \in Clients, Reconnect(client) \/ \E S \in SUBSET Channels : Initialize(client, S)
      PROVE  SocketInv'
  BY <1>4, HandshakeOpens, HandshakeSockets
<1>5. CASE HostRestart
  <2>1. /\ \A client \in Clients : link'[client] = NoConn /\ waiting'[client] = "none" /\ early'[client] = {}
        /\ \A k \in Conns : wire'[k] = <<>>
    BY <1>5 DEF HostRestart
  <2> QED BY <2>1 DEF SocketInv, Plugged
<1>6. CASE UNCHANGED vars
  <2>1. UNCHANGED <<link, waiting, early, up, wire, request, clientOf, attached, subs>>
    BY <1>6 DEF vars, hostVars, netVars, clientVars
  <2>2. \A client \in Clients : link[client] # NoConn => link[client] \in attached'
    BY <2>1, LinkTyped, PluggedHas
  <2> QED BY <2>1, <2>2, CalmSockets
<1> QED BY <1>1, <1>2, <1>3, <1>4, <1>5, <1>6, EmitSockets, OnCloseSockets, HydrationSockets, ResumeSockets,
           SendReplySockets, AcceptSockets, LoseLinkSockets, ReceiveSockets, SubscribeSockets DEF Next

\* A socket always bears what its client waits for, in order.
LEMMA SocketInvariant == Spec => []SocketInv
<1>1. Init => SocketInv
  BY DEF Init, SocketInv, Plugged
<1>2. SocketInv /\ DataInv /\ HostInv /\ [Next]_vars => SocketInv'
  BY NextSockets
<1> QED BY <1>1, <1>2, HostInvariant, DataInvariant, PTL DEF Spec

-----------------------------------------------------------------------------
(* TypeOK *)

\* Counts are numbers because finitely many connections are open.
CountTypes == IsFiniteSet(attached) /\ told \in [Channels -> Nat]

\* A count of finitely many connections is a number.
LEMMA NotifyTyped ==
    ASSUME IsFiniteSet(attached'), told \in [Channels -> Nat], NEW cs, Notify(cs)
    PROVE  told' \in [Channels -> Nat]
<1>1. ASSUME NEW c \in Channels
      PROVE  Cardinality(Subscribers(attached', subs', c)) \in Nat
  <2>1. Subscribers(attached', subs', c) \in SUBSET attached'
    BY DEF Subscribers
  <2> QED BY <2>1, FS_Subset, FS_CardinalityType
<1> QED BY <1>1 DEF Notify

\* A stretch of a handler tells numbers.
LEMMA ProceedTyped ==
    ASSUME IsFiniteSet(attached'), told \in [Channels -> Nat], NEW k, NEW req, NEW sub, Proceed(k, req, sub)
    PROVE  told' \in [Channels -> Nat]
<1>1. \E cs : Notify(cs)
  BY DEF Proceed
<1> QED BY <1>1, NotifyTyped

\* Every step keeps finitely many connections and tells numbers.
LEMMA NextCounts ==
    ASSUME CountTypes, [Next]_vars
    PROVE  CountTypes'
<1> USE DEF CountTypes
<1>1. ASSUME UNCHANGED <<attached, told>>
      PROVE  CountTypes'
  BY <1>1
<1>2. ASSUME NEW c \in Channels, Commit(c) \/ RejectAction(c) \/ CreateChannel(c) \/ DropChannel(c)
      PROVE  CountTypes'
  <2>1. CASE Commit(c)
    BY <1>1, <2>1 DEF Commit
  <2>2. CASE RejectAction(c)
    BY <1>1, <2>2 DEF RejectAction, hostVars
  <2>3. CASE CreateChannel(c) \/ DropChannel(c)
    BY <1>1, <2>3 DEF CreateChannel, DropChannel
  <2> QED BY <1>2, <2>1, <2>2, <2>3
<1>3. ASSUME NEW c \in Channels, DeleteChannel(c)
      PROVE  CountTypes'
  <2>1. attached' = attached /\ ((\E cs : Notify(cs)) \/ told' = told)
    BY <1>3 DEF DeleteChannel
  <2> QED BY <2>1, NotifyTyped
<1>4. ASSUME NEW k \in Conns, OnClose(k)
      PROVE  CountTypes'
  <2>1. attached' = attached \ {k} /\ \E cs : Notify(cs)
    BY <1>4 DEF OnClose
  <2>2. IsFiniteSet(attached')
    BY <2>1, FS_RemoveElement
  <2> QED BY <2>1, <2>2, NotifyTyped
<1>5. ASSUME NEW k \in Conns, HydrationSettles(k) \/ SendReply(k)
      PROVE  CountTypes'
  BY <1>1, <1>5 DEF HydrationSettles, SendReply
<1>6. ASSUME NEW k \in Conns, ResumeHandler(k)
      PROVE  CountTypes'
  <2>1. attached' = attached
    BY <1>6 DEF ResumeHandler
  <2>2. told' = told \/ \E req : Proceed(k, req, subs[k])
    BY <1>6 DEF ResumeHandler, SkipMissing
  <2> QED BY <2>1, <2>2, ProceedTyped
<1>7. ASSUME NEW client \in Clients, NEW k \in Conns, Accept(client, k)
      PROVE  CountTypes'
  <2>1. attached' = attached \cup {k} /\ told' = told
    BY <1>7 DEF Accept
  <2> QED BY <2>1, FS_AddElement
<1>8. ASSUME NEW client \in Clients, LoseLink(client) \/ Receive(client)
      PROVE  CountTypes'
  BY <1>1, <1>8 DEF LoseLink, Receive, hostVars
<1>9. ASSUME NEW client \in Clients, NEW req, Handshake(client, req)
      PROVE  CountTypes'
  <2>1. attached' \in SUBSET attached
    BY <1>9 DEF Handshake, BindClient
  <2>2. IsFiniteSet(attached')
    BY <2>1, FS_Subset
  <2>3. Proceed(link[client], req, {})
    BY <1>9 DEF Handshake
  <2> QED BY <2>2, <2>3, ProceedTyped
<1>10. ASSUME NEW client \in Clients, Reconnect(client) \/ \E S \in SUBSET Channels : Initialize(client, S)
       PROVE  CountTypes'
  BY <1>9, <1>10 DEF Reconnect, Initialize
<1>11. ASSUME NEW client \in Clients, NEW c \in Channels, Subscribe(client, c)
       PROVE  CountTypes'
  <2>1. attached' = attached /\ \E req : Proceed(link[client], req, subs[link[client]])
    BY <1>11 DEF Subscribe
  <2> QED BY <2>1, ProceedTyped
<1>12. ASSUME NEW client \in Clients, NEW c \in Channels, Unsubscribe(client, c)
       PROVE  CountTypes'
  <2>1. attached' = attached /\ \E cs : Notify(cs)
    BY <1>12 DEF Unsubscribe
  <2> QED BY <2>1, NotifyTyped
<1>13. CASE HostRestart
  <2>1. attached' = {} /\ told' = [c \in Channels |-> 0]
    BY <1>13 DEF HostRestart
  <2> QED BY <2>1, FS_EmptySet
<1>14. CASE UNCHANGED vars
  BY <1>1, <1>14 DEF vars, hostVars
<1> HIDE DEF CountTypes
<1> QED BY <1>2, <1>3, <1>4, <1>5, <1>6, <1>7, <1>8, <1>10, <1>11, <1>12, <1>13, <1>14 DEF Next

\* All state of the host and its clients keeps its type, counts included: the
\* connections are finitely many because each was accepted (host.ts:366-380).
THEOREM TypesHold == Spec => []TypeOK
<1>1. Init => CountTypes
  BY FS_EmptySet DEF Init, CountTypes
<1>2. CountTypes /\ [Next]_vars => CountTypes'
  BY NextCounts
<1>3. DataInv /\ HostInv /\ CountTypes => TypeOK
  <2> SUFFICES ASSUME DataInv, HostInv, CountTypes PROVE TypeOK
    OBVIOUS
  <2>1. /\ attached \subseteq Conns /\ clientOf \in [Conns -> Clients \cup {NoClient}]
        /\ link \in [Clients -> Conns \cup {NoConn}]
    BY DEF HostInv, ConnInv, ConnTypes
  <2>2. \A k \in Conns : \A i \in DOMAIN wire[k] : wire[k][i] \in Frame
    BY DEF DataInv, TypeInv
  <2> QED BY <2>1, <2>2 DEF DataInv, TypeInv, CountTypes, TypeOK
<1> QED BY <1>1, <1>2, <1>3, HostInvariant, DataInvariant, PTL DEF Spec

-----------------------------------------------------------------------------
(***************************************************************************)
(* ReplayLog, for any channels and any capacity of the replay buffer: the  *)
(* same sequencer on its own, measured against all it emitted. Here and    *)
(* only here `log' is a variable of the specification.                     *)
(***************************************************************************)

LogInv == LogTypeOK /\ BufferIsRecentLog

\* The clamp of the constructor leaves room for at least one envelope.
LEMMA RetainedPositive == Retained \in Nat /\ Retained >= 1
BY CapacityAssumption DEF Retained

\* A new process starts with an empty buffer and nothing emitted.
LEMMA EmptyLogInv ==
    ASSUME SeqInit, log = <<>>
    PROVE  LogInv
BY RetainedPositive DEF SeqInit, LogInv, LogTypeOK, BufferIsRecentLog

\* The same when the process replaces another.
LEMMA RestartKeepsInv ==
    ASSUME RestartLogged
    PROVE  LogInv'
BY RetainedPositive DEF RestartLogged, StartProcess, LogInv, LogTypeOK, BufferIsRecentLog, Retained

\* Appending an envelope and evicting the oldest one beyond the capacity keeps
\* the buffer at the end of the log.
LEMMA EmitKeepsInv ==
    ASSUME LogInv, NEW c \in Channels, NEW accepted \in BOOLEAN, EmitLogged(c, accepted)
    PROVE  LogInv'
<1> DEFINE e == NextEnvelope(c, accepted)
           grown == Append(buffer, e)
<1>1. /\ serverSeq \in Nat /\ buffer \in Seq(Envelope) /\ log \in Seq(Envelope)
      /\ Len(log) = serverSeq
      /\ \A i \in 1..Len(log) : log[i].serverSeq = i
      /\ Len(buffer) = IF serverSeq < Retained THEN serverSeq ELSE Retained
      /\ \A i \in 1..Len(buffer) : buffer[i] = log[serverSeq - Len(buffer) + i]
  BY DEF LogInv, LogTypeOK, BufferIsRecentLog
<1>2. e \in Envelope /\ e.serverSeq = serverSeq + 1
  BY <1>1 DEF Envelope, NextEnvelope
<1>3. /\ serverSeq' = serverSeq + 1
      /\ log' = Append(log, e)
      /\ buffer' = IF Len(grown) > Retained THEN Tail(grown) ELSE grown
  BY DEF EmitLogged, Emit
<1> HIDE DEF e
<1>4. /\ log' \in Seq(Envelope) /\ Len(log') = serverSeq + 1
      /\ \A i \in 1..serverSeq : log'[i] = log[i]
      /\ log'[serverSeq + 1] = e
  BY <1>1, <1>2, <1>3, AppendProperties
<1>5. /\ grown \in Seq(Envelope) /\ Len(grown) = Len(buffer) + 1
      /\ \A i \in 1..Len(grown) : grown[i] = log'[serverSeq - Len(buffer) + i]
  <2>1. /\ grown \in Seq(Envelope) /\ Len(grown) = Len(buffer) + 1
        /\ \A i \in 1..Len(buffer) : grown[i] = buffer[i]
        /\ grown[Len(buffer) + 1] = e
    BY <1>1, <1>2, AppendProperties
  <2>2. Len(buffer) \in Nat /\ Len(buffer) <= serverSeq
    BY <1>1, RetainedPositive
  <2>3. ASSUME NEW i \in 1..Len(buffer)
        PROVE  grown[i] = log'[serverSeq - Len(buffer) + i]
    <3>1. serverSeq - Len(buffer) + i \in 1..serverSeq
      BY <2>2, <1>1
    <3> QED BY <3>1, <2>1, <1>1, <1>4
  <2>4. grown[Len(buffer) + 1] = log'[serverSeq - Len(buffer) + (Len(buffer) + 1)]
    BY <2>1, <2>2, <1>1, <1>4
  <2> HIDE DEF grown
  <2>5. \A i \in 1..Len(grown) : i \in 1..Len(buffer) \/ i = Len(buffer) + 1
    BY <2>1, <2>2
  <2> QED BY <2>1, <2>3, <2>4, <2>5
<1> HIDE DEF grown
<1>6. LogTypeOK'
  BY <1>1, <1>3, <1>4, <1>5 DEF LogTypeOK
<1>7. \A i \in 1..Len(log') : log'[i].serverSeq = i
  BY <1>1, <1>2, <1>4
<1>8. /\ Len(buffer') = IF serverSeq' < Retained THEN serverSeq' ELSE Retained
      /\ \A i \in 1..Len(buffer') : buffer'[i] = log'[serverSeq' - Len(buffer') + i]
  <2>1. CASE Len(grown) > Retained
    <3>1. /\ Len(buffer) = Retained /\ serverSeq >= Retained
          /\ buffer' = Tail(grown)
      BY <2>1, <1>1, <1>3, <1>5, RetainedPositive
    <3>2. Len(buffer') = Retained /\ \A i \in 1..Len(buffer') : buffer'[i] = grown[i + 1]
      BY <3>1, <1>5, RetainedPositive, HeadTailProperties
    <3>4. /\ Len(buffer') = Retained /\ Len(buffer) = Retained /\ Len(grown) = Retained + 1
          /\ serverSeq' = serverSeq + 1 /\ serverSeq \in Nat /\ Retained \in Nat
          /\ serverSeq >= Retained
      BY <3>1, <3>2, <1>1, <1>3, <1>5, RetainedPositive
    <3>3. ASSUME NEW i \in 1..Len(buffer')
          PROVE  buffer'[i] = log'[serverSeq' - Len(buffer') + i]
      <4>1. /\ i + 1 \in 1..Len(grown)
            /\ serverSeq - Len(buffer) + (i + 1) = serverSeq' - Len(buffer') + i
        BY <3>4
      <4> QED BY <4>1, <3>2, <1>5
    <3>5. Len(buffer') = IF serverSeq' < Retained THEN serverSeq' ELSE Retained
      BY <3>4
    <3> QED BY <3>3, <3>5
  <2>2. CASE ~(Len(grown) > Retained)
    <3>1. /\ buffer' = grown /\ Len(buffer) = serverSeq /\ serverSeq < Retained
      BY <2>2, <1>1, <1>3, <1>5, RetainedPositive
    <3>2. /\ serverSeq \in Nat /\ serverSeq' = serverSeq + 1 /\ Len(buffer') = serverSeq'
          /\ serverSeq' <= Retained /\ Retained \in Nat
      BY <3>1, <1>1, <1>3, <1>5, RetainedPositive
    <3>3. ASSUME NEW i \in 1..Len(buffer')
          PROVE  buffer'[i] = log'[serverSeq' - Len(buffer') + i]
      <4>1. serverSeq' - Len(buffer') + i = serverSeq - Len(buffer) + i
        BY <3>1, <3>2
      <4>2. buffer'[i] = log'[serverSeq - Len(buffer) + i]
        BY <3>1, <1>5
      <4> QED BY <4>1, <4>2
    <3>4. Len(buffer') = IF serverSeq' < Retained THEN serverSeq' ELSE Retained
      BY <3>2
    <3> QED BY <3>3, <3>4
  <2> QED BY <2>1, <2>2
<1>9. Retained' = Retained
  BY DEF Retained
<1> QED BY <1>3, <1>4, <1>6, <1>7, <1>8, <1>9, <1>1 DEF LogInv, BufferIsRecentLog, Retained

\* The two invariants together are inductive.
LEMMA LogInvariant == LogSpec => []LogInv
<1>1. LogInit => LogInv
  BY EmptyLogInv DEF LogInit
<1>2. LogInv /\ [LogNext]_logVars => LogInv'
  <2> SUFFICES ASSUME LogInv, [LogNext]_logVars PROVE LogInv'
    OBVIOUS
  <2>1. ASSUME NEW c \in Channels, NEW accepted \in BOOLEAN, EmitLogged(c, accepted)
        PROVE  LogInv'
    BY <2>1, EmitKeepsInv
  <2>2. CASE RestartLogged
    BY <2>2, RestartKeepsInv
  <2>3. CASE UNCHANGED logVars
    BY <2>3 DEF logVars, seqVars, LogInv, LogTypeOK, BufferIsRecentLog, Retained
  <2> QED BY <2>1, <2>2, <2>3 DEF LogNext
<1> QED BY <1>1, <1>2, PTL DEF LogSpec

\* At every moment the replay buffer is exactly the most recent part of what
\* was emitted: sequencer.ts never skips, repeats or reorders an envelope and
\* evicts only beyond its capacity.
THEOREM BufferCorrect == LogSpec => []BufferIsRecentLog
<1>1. LogInv => BufferIsRecentLog
  BY DEF LogInv
<1> QED BY <1>1, LogInvariant, PTL

\* A buffer that is the end of the log yields complete replays.
LEMMA ReplayOfTheEnd ==
    ASSUME LogInv
    PROVE  ReplayIsComplete
<1> SUFFICES ASSUME NEW since \in 0..(serverSeq + 1), NEW channels \in SUBSET Channels,
                    CanReplayFrom(since)
             PROVE  ReplayFrom(since, channels) =
                      {e \in {log[i] : i \in DOMAIN log} : e.serverSeq > since /\ e.channel \in channels}
  BY DEF ReplayIsComplete
<1>1. /\ serverSeq \in Nat /\ buffer \in Seq(Envelope) /\ log \in Seq(Envelope)
      /\ Len(log) = serverSeq
      /\ \A i \in 1..Len(log) : log[i].serverSeq = i
      /\ Len(buffer) = IF serverSeq < Retained THEN serverSeq ELSE Retained
      /\ \A i \in 1..Len(buffer) : buffer[i] = log[serverSeq - Len(buffer) + i]
  BY DEF LogInv, LogTypeOK, BufferIsRecentLog
<1>2. Len(buffer) \in Nat /\ Len(buffer) <= serverSeq /\ since \in Nat
  BY <1>1, RetainedPositive
<1>3. \A i \in 1..Len(buffer) : serverSeq - Len(buffer) + i \in 1..Len(log)
  BY <1>1, <1>2
<1>4. DOMAIN log = 1..Len(log) /\ DOMAIN buffer = 1..Len(buffer)
  BY <1>1
<1>5. ASSUME NEW i \in 1..Len(log), log[i].serverSeq > since
      PROVE  \E j \in 1..Len(buffer) : buffer[j] = log[i]
  <2>1. log[i].serverSeq = i /\ i > since /\ i <= serverSeq
    BY <1>1, <1>5
  <2>2. buffer # <<>> /\ buffer[1].serverSeq <= since + 1
    BY <2>1, <1>1, <1>2 DEF CanReplayFrom
  <2>3. Len(buffer) >= 1
    BY <2>2, <1>1, <1>2
  <2>4. buffer[1].serverSeq = serverSeq - Len(buffer) + 1
    BY <2>3, <1>1, <1>2, <1>3
  <2> DEFINE j == i - (serverSeq - Len(buffer))
  <2>5. j \in 1..Len(buffer) /\ serverSeq - Len(buffer) + j = i
    <3>1. serverSeq - Len(buffer) + 1 <= since + 1
      BY <2>2, <2>4
    <3>2. /\ serverSeq \in Nat /\ Len(buffer) \in Nat /\ Len(buffer) <= serverSeq
          /\ since \in Nat /\ i \in Int
      BY <1>1, <1>2
    <3> QED BY <2>1, <3>1, <3>2
  <2>6. buffer[j] = log[i]
    BY <2>5, <1>1
  <2> QED BY <2>5, <2>6
<1>6. ASSUME NEW j \in 1..Len(buffer)
      PROVE  \E i \in 1..Len(log) : log[i] = buffer[j]
  BY <1>1, <1>3
<1> QED BY <1>4, <1>5, <1>6 DEF ReplayFrom

\* A replay that canReplayFrom admits misses nothing and adds nothing, whatever
\* the capacity: the guard against silently truncated gaps in sequencer.ts.
THEOREM ReplaysComplete == LogSpec => []ReplayIsComplete
BY LogInvariant, ReplayOfTheEnd, PTL

-----------------------------------------------------------------------------
(***************************************************************************)
(* What the clients hold, on top of those layers:                          *)
(*                                                                         *)
(*   HeldInv     a client is told, or will be, of every subscription that  *)
(*               its connection has                                        *)
(*   ReplicaInv  a view has no hole, and whatever it lacks is on the wire, *)
(*               was set aside, or comes with the answer on its way        *)
(***************************************************************************)

(* What clients know of their subscriptions: SubscriberHoldsView. *)
Reported(r) == {s.channel : s \in r.snaps}

\* An idle client holds what its connection k is subscribed to, sub, or lost it
\* under a reconnect.
Holds(client, k, sub) == \A c \in sub : view[client][c].held \/ c \in orphaned[k]

\* What a handler has collected before its result is fixed.
Underway(client, k, sub, r) ==
    /\ r.kind = "subscribe" => Holds(client, k, sub \ Reported(r))
    /\ r.kind = "initialize" => sub \subseteq Reported(r)
    /\ r.kind = "reconnect" =>
          /\ \A c \in Listed(r.todo) \cup sub : view[client][c].held
          /\ Distinct(r.todo)
          /\ Listed(r.todo) \cap (r.missing \cup sub) = {} /\ r.missing \cap sub = {}
          /\ \A c \in sub : Live(c) \/ c \in orphaned[k]

\* What a fixed result tells the client.
Answered(client, k, sub, r) ==
    /\ r.kind = "subscribe" => Holds(client, k, sub \ Reported(r))
    /\ r.kind = "initialize" => r.mode = "snapshot" /\ sub \subseteq Reported(r)
    /\ r.kind = "reconnect" =>
          /\ r.mode \in {"snapshot", "replay"}
          /\ r.mode = "snapshot" => sub \subseteq Reported(r) \cup orphaned[k]
          /\ r.mode = "replay" => \A c \in sub : view[client][c].held /\ c \notin r.missing

Informed(client, k) ==
    /\ waiting[client] = "none" => Holds(client, k, subs[k])
    /\ \A r \in Pending(k) : IF r.phase = "reply" THEN Answered(client, k, subs[k], r)
                              ELSE Underway(client, k, subs[k], r)

HeldInv == \A client \in Clients : Bound(client) => Informed(client, link[client])

---------------------------------------------------------------------------
(* What clients hold: ViewIsPrefix and Converged. *)
\* What the theorems about views assume of the network: a client that this
\* process has recorded as known, but that has not heard from it, still waits for
\* the reply of the handshake that recorded it. The host records a client before
\* it answers (host.ts:659-663), so a client whose first reply after a restart was
\* lost is taken for one that knows this process, and its number for one of this
\* process's (host.ts:684-685). Nothing is assumed about any other reply, nor in a
\* single process: see OneProcess.
FirstReplyArrives ==
    \A client \in Clients : client \in known /\ seenIn[client] # process => waiting[client] = "handshake"

\* A replica with the state R up to the number u, of channel c that has state S.
PrefixOf(S, R, u) == R = {n \in S : n <= u}
Sound(S, u, c) == \A e \in Around : e.channel = c /\ e.accepted /\ e.serverSeq > u => e.serverSeq \in S
Complete(S, u, c, E) == \A n \in S : n > u => \E e \in E : e.channel = c /\ e.accepted /\ e.serverSeq = n

Incoming(client) == early[client] \cup Sent(wire[link[client]])
Later(E, A) == {e \in E : \A a \in A : a.serverSeq < e.serverSeq}

\* A view of the current incarnation accounts for everything up to upto, and its
\* client has processed nothing that it lacks.
Tracks(client, c) ==
    LET v == view[client][c] S == store[c].state IN
    /\ seenIn[client] = process
    /\ PrefixOf(S, v.state, v.upto) /\ v.upto <= serverSeq
    /\ \A n \in S : n > v.upto => n > lastSeen[client]
    /\ Sound(S, v.upto, c)

ViewInv == \A client \in Clients, c \in Channels : Current(client, c) => Tracks(client, c)

\* Once a client has heard from this process, all that is sent to it is news.
SeenBy(client, k) ==
    /\ waiting[client] # "handshake" => seenIn[client] = process
    /\ seenIn[client] = process => \A e \in Sent(wire[k]) : lastSeen[client] < e.serverSeq

SeenInv ==
    \A client \in Clients :
        /\ seenIn[client] = process => lastSeen[client] <= serverSeq
        /\ Bound(client) => SeenBy(client, link[client])

\* What a client that is past its handshake lacks is on its wire.
Follows(client, k) ==
    waiting[client] # "handshake" =>
        \A c \in Channels : Current(client, c) =>
            c \in subs[k] /\ Complete(store[c].state, view[client][c].upto, c, Sent(wire[k]))

CurrentSnap(s) == Live(s.channel) /\ s.inc = store[s.channel].inc

\* What a snapshot on its way lacks was set aside or is on the wire.
SnapFollows(client, sub, s) ==
    LET S == store[s.channel].state IN
    /\ s.channel \in sub
    /\ PrefixOf(S, s.state, s.fromSeq)
    /\ Complete(S, s.fromSeq, s.channel, Incoming(client))
    /\ Sound(S, s.fromSeq, s.channel)

\* A replay closes the gap between a view and what follows on the wire.
ReplayFollows(client, sub, r) ==
    /\ seenIn[client] = process
    /\ \A c \in Channels : Current(client, c) =>
          /\ c \in sub /\ c \notin r.missing
          /\ Complete(store[c].state, view[client][c].upto, c,
                      r.actions \cup Later(Incoming(client), r.actions))

\* A reconnect that is under way will reach every current view.
Gathers(client, sub, r) ==
    /\ r.lastSeen = lastSeen[client] /\ (r.isKnown => seenIn[client] = process)
    /\ \A c \in Channels : Current(client, c) => c \notin r.missing /\ (c \in Listed(r.todo) \/ c \in sub)

Delivers(client, sub, r) ==
    /\ \A s \in r.snaps : CurrentSnap(s) => SnapFollows(client, sub, s)
    /\ r.kind = "subscribe" => \A c \in Reported(r) \cup Listed(r.todo) : ~view[client][c].held
    /\ r.kind = "reconnect" /\ r.phase = "reply" /\ r.mode = "replay" => ReplayFollows(client, sub, r)
    /\ r.kind = "reconnect" /\ r.phase # "reply" => Gathers(client, sub, r)

Streams(client, k) ==
    /\ Follows(client, k)
    /\ \A r \in Pending(k) : Delivers(client, subs[k], r)

StreamInv == \A client \in Clients : Bound(client) => Streams(client, link[client])

ReplicaInv == ViewInv /\ SeenInv /\ StreamInv

-----------------------------------------------------------------------------
(* HeldInv, kind of step by kind of step *)

\* A step that takes nothing from a client leaves it informed.
LEMMA SameInformed ==
    ASSUME NEW client \in Clients, NEW k \in Conns, Informed(client, k), TypeInv, TypeInv',
           waiting'[client] = waiting[client],
           \A c \in Channels : view'[client][c].held = view[client][c].held,
           subs'[k] \subseteq subs[k], orphaned[k] \subseteq orphaned'[k], Pending(k)' \subseteq Pending(k),
           (\E r \in Pending(k) : r.kind = "reconnect" /\ r.phase # "reply") =>
               \A c \in subs'[k] : Live(c) => Live(c)' \/ c \in orphaned'[k]
    PROVE  Informed(client, k)'
<1>1. subs'[k] \subseteq Channels /\ subs[k] \subseteq Channels
  BY DEF TypeInv
<1>2. ASSUME NEW sub, NEW new, new \subseteq sub, sub \subseteq Channels, Holds(client, k, sub)
      PROVE  Holds(client, k, new)'
  BY <1>2 DEF Holds
<1>3. waiting'[client] = "none" => Holds(client, k, subs[k])'
  BY <1>1, <1>2 DEF Informed
<1>4. ASSUME NEW r \in Pending(k)', r.phase = "reply"
      PROVE  Answered(client, k, subs[k], r)'
  <2>1. Answered(client, k, subs[k], r)
    BY <1>4 DEF Informed
  <2>2. r.kind = "subscribe" => Holds(client, k, subs[k] \ Reported(r))'
    BY <1>1, <1>2, <2>1 DEF Answered, Reported
  <2> QED BY <1>1, <2>1, <2>2 DEF Answered, Reported
<1>5. ASSUME NEW r \in Pending(k)', r.phase # "reply"
      PROVE  Underway(client, k, subs[k], r)'
  <2>1. Underway(client, k, subs[k], r) /\ r \in Pending(k)
    BY <1>5 DEF Informed
  <2>2. r.kind = "subscribe" => Holds(client, k, subs[k] \ Reported(r))'
    BY <1>1, <1>2, <2>1 DEF Underway, Reported
  <2>3. r.kind = "initialize" => subs'[k] \subseteq Reported(r)
    BY <2>1 DEF Underway
  <2>4. ASSUME r.kind = "reconnect"
        PROVE  /\ \A c \in Listed(r.todo) \cup subs'[k] : view'[client][c].held
               /\ Distinct(r.todo)
               /\ Listed(r.todo) \cap (r.missing \cup subs'[k]) = {} /\ r.missing \cap subs'[k] = {}
               /\ \A c \in subs'[k] : Live(c)' \/ c \in orphaned'[k]
    <3>1. r.todo \in Seq(Channels)
      BY <2>1, PendingTyped, RequestFields
    <3>2. Listed(r.todo) \subseteq Channels
      BY <3>1 DEF Listed
    <3>3. \A c \in Listed(r.todo) \cup subs[k] : view[client][c].held
      BY <2>1, <2>4 DEF Underway
    <3>4. \A c \in Listed(r.todo) \cup subs'[k] : view'[client][c].held
      BY <1>1, <3>2, <3>3
    <3>5. \A c \in subs'[k] : Live(c)' \/ c \in orphaned'[k]
      BY <1>5, <2>1, <2>4 DEF Underway
    <3> QED BY <2>1, <2>4, <3>4, <3>5 DEF Underway
  <2> QED BY <2>2, <2>3, <2>4 DEF Underway, Reported, Listed, Distinct
<1> QED BY <1>3, <1>4, <1>5 DEF Informed

\* A stretch of a handler keeps its promise, and so does its result.
LEMMA AdvancedHolds ==
    ASSUME TypeInv, NEW client \in Clients, NEW k \in Conns, NEW req \in Request, NEW sub \in SUBSET Channels,
           NEW new \in Request, NEW newSub \in SUBSET Channels,
           Advanced(req, sub, new, newSub), Underway(client, k, sub, req)
    PROVE  IF new.phase = "reply" THEN Answered(client, k, newSub, new) ELSE Underway(client, k, newSub, new)
<1>1. CASE req.kind # "reconnect"
  <2>1. /\ new.kind = req.kind /\ sub \subseteq newSub /\ req.snaps \subseteq new.snaps
        /\ \A c \in newSub \ sub : SnapshotOf(c) \in new.snaps
        /\ new.phase = "reply" => new.mode = "snapshot"
    BY <1>1 DEF Advanced
  <2>2. \A c \in newSub \ sub : c \in Reported(new)
    BY <2>1, SnapshotTyped DEF Reported
  <2>3. Reported(req) \subseteq Reported(new)
    BY <2>1 DEF Reported
  <2>4. newSub \ Reported(new) \subseteq sub \ Reported(req)
    BY <2>2, <2>3
  <2>5. req.kind = "subscribe" => Holds(client, k, newSub \ Reported(new))
    BY <2>4 DEF Underway, Holds
  <2>6. req.kind = "initialize" => newSub \subseteq Reported(new)
    BY <2>2, <2>3 DEF Underway
  <2> QED BY <1>1, <2>1, <2>5, <2>6 DEF Underway, Answered
<1>2. CASE req.kind = "reconnect"
  <2>1. /\ new.kind = "reconnect" /\ sub \subseteq newSub /\ newSub \subseteq sub \cup Listed(req.todo)
        /\ Listed(new.todo) \subseteq Listed(req.todo)
        /\ Distinct(new.todo) /\ Listed(new.todo) \cap (newSub \ sub) = {}
        /\ \A c \in newSub \ sub : Live(c)
    BY <1>2 DEF Advanced, Underway
  <2>2. /\ \A c \in Listed(req.todo) \cup sub : view[client][c].held
        /\ Listed(req.todo) \cap (req.missing \cup sub) = {} /\ req.missing \cap sub = {}
        /\ \A c \in sub : Live(c) \/ c \in orphaned[k]
    BY <1>2 DEF Underway
  <2>3. /\ \A c \in Listed(new.todo) \cup newSub : view[client][c].held
        /\ Listed(new.todo) \cap (req.missing \cup newSub) = {} /\ req.missing \cap newSub = {}
        /\ \A c \in newSub : Live(c) \/ c \in orphaned[k]
    BY <2>1, <2>2
  <2>4. CASE new.phase # "reply"
    <3>1. new.missing = req.missing
      BY <1>2, <2>4 DEF Advanced
    <3> QED BY <2>1, <2>3, <2>4, <3>1 DEF Underway
  <2>5. CASE new.phase = "reply" /\ new.mode = "replay"
    <3>1. new.missing = req.missing
      BY <1>2, <2>5 DEF Advanced
    <3> QED BY <2>1, <2>3, <2>5, <3>1 DEF Answered
  <2>6. CASE new.phase = "reply" /\ new.mode = "snapshot"
    <3>1. new.snaps = {SnapshotOf(c) : c \in {d \in newSub : Live(d)}}
      BY <1>2, <2>6 DEF Advanced
    <3>2. \A c \in newSub : Live(c) => c \in Reported(new)
      BY <3>1, SnapshotTyped DEF Reported
    <3> QED BY <2>1, <2>3, <2>6, <3>2 DEF Answered
  <2>7. new.phase = "reply" => new.mode \in {"snapshot", "replay"}
    BY <1>2 DEF Advanced
  <2> QED BY <2>4, <2>5, <2>6, <2>7
<1> QED BY <1>1, <1>2

\* A handler that gives up on a channel has promised nothing about it.
LEMMA SkippedHolds ==
    ASSUME NEW client \in Clients, NEW k \in Conns, NEW req \in Request, req.todo # <<>>, NEW sub \in SUBSET Channels,
           Underway(client, k, sub, req)
    PROVE  Underway(client, k, sub, Skipped(req))
<1>1. /\ Skipped(req).kind = req.kind /\ Skipped(req).snaps = req.snaps
      /\ Skipped(req).missing = req.missing \cup {Head(req.todo)}
      /\ Head(req.todo) \in Listed(req.todo)
      /\ Listed(req.todo) = {Head(req.todo)} \cup Listed(Skipped(req).todo)
      /\ Distinct(req.todo) => Distinct(Skipped(req).todo) /\ Head(req.todo) \notin Listed(Skipped(req).todo)
  BY SkippedIs
<1>2. Reported(Skipped(req)) = Reported(req)
  BY <1>1 DEF Reported
<1> HIDE DEF Skipped
<1>3. CASE req.kind # "reconnect"
  BY <1>1, <1>2, <1>3 DEF Underway
<1>4. CASE req.kind = "reconnect"
  BY <1>1, <1>4 DEF Underway
<1> QED BY <1>3, <1>4

\* Steps that leave sockets and views alone: what a client is owed and what it is
\* subscribed to shrinks, and no channel that a reconnect subscribed goes away
\* unnoticed.
LEMMA CalmHeld ==
    ASSUME HostInv, HeldInv, TypeInv, TypeInv', UNCHANGED <<link, waiting, view>>,
           \A client \in Clients : Bound(client)' => Bound(client),
           \A k \in Conns : orphaned[k] \subseteq orphaned'[k] /\ Pending(k)' \subseteq Pending(k),
           \A client \in Clients : Bound(client) =>
               /\ subs'[link[client]] \subseteq subs[link[client]]
               /\ (\E r \in Pending(link[client]) : r.kind = "reconnect" /\ r.phase # "reply") =>
                      \A c \in subs'[link[client]] : Live(c) => Live(c)' \/ c \in orphaned'[link[client]]
    PROVE  HeldInv'
<1> SUFFICES ASSUME NEW client \in Clients, Bound(client)' PROVE Informed(client, link[client])'
  BY DEF HeldInv
<1>1. Bound(client)
  OBVIOUS
<1>2. PICK k \in Conns : k = link[client]
  BY <1>1, LinkTyped DEF Bound
<1>3. Informed(client, k) /\ link'[client] = k
  BY <1>1, <1>2 DEF HeldInv
<1>4. Informed(client, k)'
  BY <1>1, <1>2, <1>3, SameInformed
<1> QED BY <1>3, <1>4

\* A request that is being handled is owed an answer.
LEMMA PendingRequest ==
    ASSUME DataInv, NEW k \in Conns, NEW r \in Pending(k), r.phase # "reply"
    PROVE  r = request[k] /\ request[k].kind # "none"
BY DEF DataInv, Pending, Owed

\* An action adds and takes away no view and no subscription.
LEMMA EmitHeld ==
    ASSUME DataInv, DataInv', HostInv, HeldInv, NEW c \in Channels, Commit(c) \/ RejectAction(c)
    PROVE  HeldInv'
<1>1. PICK a \in BOOLEAN : Emit(c, a) /\ Broadcast(c, a)
  BY DEF Commit, RejectAction
<1>2. UNCHANGED <<link, waiting, view, early, request, clientOf, subs, orphaned>>
  BY DEF Commit, RejectAction, hostVars, histVars, clientVars
<1>3. TypeInv /\ TypeInv'
  BY DEF DataInv
<1>4. \A k \in Conns : Pending(k)' = Pending(k)
  BY <1>1, <1>2, <1>3, EmitStep
<1>5. \A d \in Channels : Live(d)' = Live(d)
  <2>1. store \in [Channels -> ChannelEntry]
    BY <1>3 DEF TypeInv
  <2>2. CASE Commit(c) /\ Live(c)
    <3>1. store' = [store EXCEPT ![c].state = @ \cup {serverSeq + 1}]
      BY <2>2 DEF Commit
    <3> QED BY <2>1, <3>1 DEF Live, ChannelEntry
  <2>3. CASE store' = store
    BY <2>3 DEF Live
  <2> QED BY <2>2, <2>3 DEF Commit, RejectAction, hostVars
<1>6. \A k \in Conns : subs[k] \subseteq Channels
  BY <1>3 DEF TypeInv
<1>7. \A client \in Clients : Bound(client)' = Bound(client)
  BY <1>2 DEF Bound
<1>8. \A client \in Clients : Bound(client) => \A d \in subs'[link[client]] : Live(d) => Live(d)'
  BY <1>2, <1>5, <1>6, LinkTyped DEF Bound
<1> QED BY <1>2, <1>3, <1>4, <1>7, <1>8, CalmHeld

\* deleteChannel releases the subscribers; store.delete orphans a reconnect's.
LEMMA StoreHeld ==
    ASSUME DataInv, DataInv', HostInv, SocketInv, HeldInv, NEW c \in Channels,
           CreateChannel(c) \/ DeleteChannel(c) \/ DropChannel(c)
    PROVE  HeldInv'
<1>1. UNCHANGED <<link, waiting, view, early, request, clientOf, attached, buffer, wire>>
  BY DEF CreateChannel, DeleteChannel, DropChannel, seqVars, netVars, clientVars
<1>2. TypeInv /\ TypeInv' /\ store \in [Channels -> ChannelEntry] /\ \A k \in Conns : subs[k] \subseteq Channels
  BY DEF DataInv, TypeInv
<1>3. \A k \in Conns : Pending(k)' = Pending(k)
  BY <1>1, CalmStep
<1>4. \A client \in Clients : Bound(client)' = Bound(client)
  BY <1>1 DEF Bound
<1>5. \A d \in Channels : d # c => Live(d)' = Live(d)
  BY <1>2 DEF CreateChannel, Create, DeleteChannel, DropChannel, Live
<1>6. ASSUME NEW k \in Conns
      PROVE  orphaned[k] \subseteq orphaned'[k] /\ subs'[k] \subseteq subs[k]
  <2>1. CASE CreateChannel(c)
    BY <2>1 DEF CreateChannel
  <2>2. CASE DeleteChannel(c)
    BY <2>2 DEF DeleteChannel, histVars
  <2>3. CASE DropChannel(c)
    BY <2>3 DEF DropChannel
  <2> QED BY <2>1, <2>2, <2>3
<1>7. ASSUME NEW client \in Clients, Bound(client), NEW k \in Conns, k = link[client],
             \E r \in Pending(k) : r.kind = "reconnect" /\ r.phase # "reply",
             NEW d \in subs'[k], Live(d)
      PROVE  Live(d)' \/ d \in orphaned'[k]
  <2>1. d \in subs[k] /\ d \in Channels
    BY <1>2, <1>6, <1>7
  <2>2. CASE CreateChannel(c)
    BY <1>5, <1>7, <2>1, <2>2 DEF CreateChannel
  <2>3. CASE DeleteChannel(c)
    <3>1. k \in attached
      BY <1>7, PluggedHas
    <3>2. d # c
      BY <1>7, <2>3, <3>1 DEF DeleteChannel
    <3> QED BY <1>5, <1>7, <2>1, <3>2
  <2>4. CASE DropChannel(c)
    <3>1. request[k].kind = "reconnect" /\ request[k].phase # "reply"
      BY <1>7, PendingRequest
    <3>2. d = c => d \in orphaned'[k]
      BY <2>1, <2>4, <3>1 DEF DropChannel, Resuming
    <3> QED BY <1>5, <1>7, <2>1, <3>2
  <2> QED BY <2>2, <2>3, <2>4
<1> QED BY <1>1, <1>2, <1>3, <1>4, <1>6, <1>7, LinkTyped, CalmHeld DEF Bound

\* A connection that closes is no client's any more.
LEMMA OnCloseHeld ==
    ASSUME DataInv, DataInv', HostInv, SocketInv, HeldInv, NEW l \in Conns, OnClose(l)
    PROVE  HeldInv'
<1>1. /\ ~up[l] /\ clientOf' = [clientOf EXCEPT ![l] = NoClient] /\ subs' = [subs EXCEPT ![l] = {}]
      /\ UNCHANGED <<link, waiting, view, early, request, buffer, wire, store, orphaned>>
  BY DEF OnClose, seqVars, netVars, histVars, clientVars
<1>2. TypeInv /\ TypeInv' /\ clientOf \in [Conns -> Clients \cup {NoClient}]
  BY DEF DataInv, HostInv, ConnInv, ConnTypes
<1>3. \A k \in Conns : Pending(k)' = Pending(k)
  BY <1>1, CalmStep
<1>4. \A k \in Conns : subs'[k] \subseteq subs[k] /\ (clientOf'[k] = clientOf[k] \/ clientOf'[k] = NoClient)
  BY <1>1, <1>2 DEF TypeInv
<1>5. \A client \in Clients : Bound(client)' => Bound(client)
  BY <1>1, <1>4, LinkTyped, HostAssumption DEF Bound
<1>6. \A c : Live(c)' = Live(c)
  BY <1>1 DEF Live
<1>7. \A client \in Clients : Bound(client) => subs'[link[client]] \subseteq subs[link[client]]
  BY <1>4, LinkTyped DEF Bound
<1> QED BY <1>1, <1>2, <1>3, <1>5, <1>6, <1>7, CalmHeld

\* What was promised is owed on the wire as it was before.
LEMMA SendReplyHeld ==
    ASSUME DataInv, DataInv', HostInv, HeldInv, NEW l \in Conns, SendReply(l)
    PROVE  HeldInv'
<1>1. UNCHANGED <<link, waiting, view, clientOf, subs, store, orphaned>> /\ TypeInv /\ TypeInv'
  BY DEF SendReply, histVars, clientVars, DataInv
<1>2. \A k \in Conns : Pending(k)' \subseteq Pending(k)
  BY <1>1, SendReplyStep
<1>3. (\A client \in Clients : Bound(client)' = Bound(client)) /\ \A c : Live(c)' = Live(c)
  BY <1>1 DEF Bound, Live
<1> QED BY <1>1, <1>2, <1>3, CalmHeld

\* A new connection is subscribed to nothing.
LEMMA AcceptHeld ==
    ASSUME DataInv, DataInv', HostInv, SocketInv, HeldInv, NEW client \in Clients, NEW l \in Conns, Accept(client, l)
    PROVE  HeldInv'
<1>1. /\ link' = [link EXCEPT ![client] = l] /\ clientOf[l] = NoClient /\ clientOf' = [clientOf EXCEPT ![l] = NoClient]
      /\ (\A other \in Clients : link[other] # l)
      /\ subs' = [subs EXCEPT ![l] = {}] /\ orphaned' = [orphaned EXCEPT ![l] = {}]
      /\ UNCHANGED <<waiting, view, early, request, buffer, wire, store>>
  BY DEF Accept, seqVars
<1>2. TypeInv /\ TypeInv' /\ clientOf \in [Conns -> Clients \cup {NoClient}] /\ link \in [Clients -> Conns \cup {NoConn}]
  BY DEF DataInv, HostInv, ConnInv, ConnTypes
<1>3. \A k \in Conns : Pending(k)' = Pending(k)
  BY <1>1, CalmStep
<1>4. clientOf' = clientOf /\ link'[client] = l /\ \A other \in Clients : other # client => link'[other] = link[other]
  BY <1>1, <1>2
<1>5. \A k \in Conns : k # l => subs'[k] = subs[k] /\ orphaned'[k] = orphaned[k]
  BY <1>1, <1>2 DEF TypeInv
<1> SUFFICES ASSUME NEW other \in Clients, Bound(other)' PROVE Informed(other, link[other])'
  BY DEF HeldInv
<1>6. other # client
  BY <1>1, <1>4, HostAssumption DEF Bound
<1>7. Bound(other)
  BY <1>4, <1>6 DEF Bound
<1>8. PICK k \in Conns : k = link[other]
  BY <1>7, LinkTyped DEF Bound
<1>9. Informed(other, k) /\ k # l /\ link'[other] = k
  BY <1>1, <1>4, <1>6, <1>7, <1>8 DEF HeldInv
<1>10. \A c : Live(c)' = Live(c)
  BY <1>1 DEF Live
<1>11. Informed(other, k)'
  BY <1>1, <1>2, <1>3, <1>5, <1>9, <1>10, SameInformed
<1> QED BY <1>9, <1>11

\* A client without a socket is promised nothing.
LEMMA LoseLinkHeld ==
    ASSUME DataInv, DataInv', HostInv, SocketInv, HeldInv, NEW client \in Clients, LoseLink(client)
    PROVE  HeldInv'
<1>0. PICK l \in Conns : l = link[client]
  BY LinkTyped DEF LoseLink
<1>1. /\ link' = [link EXCEPT ![client] = NoConn] /\ wire' = [wire EXCEPT ![l] = <<>>]
      /\ waiting' = [waiting EXCEPT ![client] = "none"]
      /\ UNCHANGED <<view, request, clientOf, store, subs, orphaned>>
  BY <1>0 DEF LoseLink, hostVars
<1>2. TypeInv /\ TypeInv' /\ link \in [Clients -> Conns \cup {NoConn}]
  BY DEF DataInv, HostInv, ConnInv, ConnTypes
<1>3. link'[client] = NoConn
      /\ \A other \in Clients : other # client => link'[other] = link[other] /\ waiting'[other] = waiting[other]
  BY <1>1, <1>2 DEF TypeInv
<1>4. \A k \in Conns : k # l => Pending(k)' = Pending(k)
  <2>1. \A k \in Conns : k # l => wire'[k] = wire[k]
    BY <1>1, <1>2 DEF TypeInv
  <2> QED BY <1>1, <2>1 DEF Pending
<1> SUFFICES ASSUME NEW other \in Clients, Bound(other)' PROVE Informed(other, link[other])'
  BY DEF HeldInv
<1>6. other # client
  BY <1>3 DEF Bound
<1>7. Bound(other)
  BY <1>1, <1>3, <1>6 DEF Bound
<1>8. PICK k \in Conns : k = link[other]
  BY <1>7, LinkTyped DEF Bound
<1>9. Informed(other, k) /\ k # l /\ link'[other] = k
  BY <1>0, <1>3, <1>6, <1>7, <1>8, PluggedHas DEF HeldInv
<1>10. \A c : Live(c)' = Live(c)
  BY <1>1 DEF Live
<1>11. Informed(other, k)'
  BY <1>1, <1>2, <1>3, <1>4, <1>6, <1>9, <1>10, SameInformed
<1> QED BY <1>9, <1>11

\* One connection's handler goes on while nothing reaches its client.
LEMMA RequestHeld ==
    ASSUME DataInv, DataInv', HostInv, SocketInv, HeldInv, NEW k \in Conns, NEW new \in Request,
           request' = [request EXCEPT ![k] = new],
           UNCHANGED <<link, early, wire, clientOf, buffer, view, orphaned>>,
           \A l \in Conns : l # k => subs'[l] = subs[l],
           \A c \in Channels : Live(c) => Live(c)',
           \A client \in Clients : IF link[client] = k
               THEN /\ waiting'[client] # "none" /\ Answers(wire[k]) = {}
                    /\ IF new.phase = "reply" THEN Answered(client, k, subs'[k], new)
                       ELSE Underway(client, k, subs'[k], new)
               ELSE waiting'[client] = waiting[client]
    PROVE  HeldInv'
<1>1. TypeInv /\ TypeInv' /\ \A l \in Conns : subs'[l] \subseteq Channels
  BY DEF DataInv, TypeInv
<1>2. (\A l \in Conns : l # k => Pending(l)' = Pending(l)) /\ Pending(k)' = Owed(wire[k], new)
  BY <1>1, RequestStep
<1> SUFFICES ASSUME NEW client \in Clients, Bound(client)' PROVE Informed(client, link[client])'
  BY DEF HeldInv
<1>3. Bound(client)
  BY DEF Bound
<1>4. PICK l \in Conns : l = link[client]
  BY <1>3, LinkTyped DEF Bound
<1>5. CASE l # k
  <2>1. Informed(client, l)
    BY <1>3, <1>4 DEF HeldInv
  <2>2. Informed(client, l)'
    BY <1>1, <1>2, <1>4, <1>5, <2>1, SameInformed
  <2> QED BY <1>4, <2>2
<1>6. CASE l = k
  <2>1. /\ waiting'[client] # "none" /\ \A r \in Pending(k)' : r = new
        /\ IF new.phase = "reply" THEN Answered(client, k, subs'[k], new) ELSE Underway(client, k, subs'[k], new)
    BY <1>2, <1>4, <1>6 DEF Owed
  <2>2. new.phase = "reply" => Answered(client, k, subs[k], new)'
    BY <2>1 DEF Answered, Holds
  <2>3. new.phase # "reply" => Underway(client, k, subs[k], new)'
    BY <1>1, <2>1 DEF Underway, Holds
  <2>4. Informed(client, k)'
    BY <2>1, <2>2, <2>3 DEF Informed
  <2> QED BY <1>4, <1>6, <2>4
<1> QED BY <1>5, <1>6

\* The hydrator takes away nothing that is live.
LEMMA HydrationHeld ==
    ASSUME DataInv, DataInv', HostInv, SocketInv, HeldInv, NEW k \in Conns, HydrationSettles(k)
    PROVE  HeldInv'
<1>1. PICK h \in BOOLEAN : request' = [request EXCEPT ![k].phase = "resumed", ![k].hydrated = h]
  BY DEF HydrationSettles
<1>2. /\ request[k].kind # "none" /\ request[k].phase = "hydrating"
      /\ UNCHANGED <<link, early, wire, clientOf, buffer, view, orphaned, subs, waiting>>
      /\ \/ \E c \in Channels : Create(c)
         \/ store' = store
  <2>1. request[k] \in Request /\ request[k].kind # "none" /\ request[k].phase = "hydrating"
    BY DEF HydrationSettles, DataInv, TypeInv
  <2>2. Proper(request[k], serverSeq + 1, incs) /\ request[k].todo \in Seq(Channels)
    BY <2>1, RequestFields DEF DataInv, Pending, Owed
  <2>3. Head(request[k].todo) \in Channels
    BY <2>1, <2>2 DEF Proper
  <2> QED BY <2>1, <2>3 DEF HydrationSettles, seqVars, netVars, clientVars
<1>3. PICK new \in Request : /\ new = [request[k] EXCEPT !.phase = "resumed", !.hydrated = h]
                             /\ request' = [request EXCEPT ![k] = new]
  <2>1. request \in [Conns -> Request]
    BY DEF DataInv, TypeInv
  <2>2. [request[k] EXCEPT !.phase = "resumed", !.hydrated = h] \in Request
    BY <2>1, ZenonT(30) DEF Request
  <2>3. request' = [request EXCEPT ![k] = [request[k] EXCEPT !.phase = "resumed", !.hydrated = h]]
    BY <1>1, <2>1
  <2> QED BY <2>2, <2>3
<1>4. /\ new.kind = request[k].kind /\ new.snaps = request[k].snaps /\ new.missing = request[k].missing
      /\ new.todo = request[k].todo /\ new.phase = "resumed"
  <2>1. request[k] \in Request
    BY DEF DataInv, TypeInv
  <2> QED BY <1>3, <2>1 DEF Request
<1>5. \A c \in Channels : Live(c) => Live(c)'
  BY <1>2 DEF Create, Live, DataInv, TypeInv, ChannelEntry
<1>6. ASSUME NEW client \in Clients, link[client] = k
      PROVE  /\ waiting'[client] # "none" /\ Answers(wire[k]) = {}
             /\ Underway(client, k, subs'[k], new)
  <2>1. request[k] \in Pending(k)
    BY <1>2 DEF Pending, Owed
  <2>2. Bound(client) /\ Answers(wire[k]) = {} /\ waiting[client] # "none"
    BY <1>2, <1>6, <2>1, PluggedHas DEF Bound
  <2>3. Underway(client, k, subs[k], request[k])
    BY <1>2, <1>6, <2>1, <2>2 DEF HeldInv, Informed
  <2>4. Underway(client, k, subs[k], new)
    BY <1>4, <2>3 DEF Underway, Reported
  <2> QED BY <1>2, <2>2, <2>4
<1> QED BY <1>2, <1>3, <1>4, <1>5, <1>6, RequestHeld

\* What the handler subscribes it reports.
LEMMA ResumeHeld ==
    ASSUME DataInv, DataInv', HostInv, SocketInv, HeldInv, NEW k \in Conns, ResumeHandler(k)
    PROVE  HeldInv'
<1> DEFINE req == request[k]
<1>1. /\ req \in Request /\ req.kind # "none" /\ req.phase = "resumed" /\ req.todo # <<>>
      /\ req \in Pending(k) /\ waiting' = waiting
  BY ResumeDoes
<1>2. PICK new \in Request, newSub \in SUBSET Channels :
                 /\ Handled(k, new, newSub)
                 /\ \/ req.kind = "subscribe" /\ new = Refused(req) /\ newSub = subs[k]
                    \/ Live(Head(req.todo)) /\ Advanced(req, subs[k], new, newSub)
                    \/ ~Live(Head(req.todo)) /\ Advanced(Skipped(req), subs[k], new, newSub)
  BY ResumeDoes
<1>3. /\ request' = [request EXCEPT ![k] = new] /\ UNCHANGED <<link, early, wire, clientOf, buffer, view, orphaned, store>>
      /\ subs' = [subs EXCEPT ![k] = newSub]
  BY <1>2 DEF Handled, HandlerFrame
<1>4. TypeInv /\ subs \in [Conns -> SUBSET Channels]
  BY DEF DataInv, TypeInv
<1>5. subs'[k] = newSub /\ \A l \in Conns : l # k => subs'[l] = subs[l]
  BY <1>3, <1>4
<1>6. \A c : Live(c)' = Live(c)
  BY <1>3 DEF Live
<1>7. ASSUME NEW client \in Clients, link[client] = k
      PROVE  /\ waiting'[client] # "none" /\ Answers(wire[k]) = {}
             /\ IF new.phase = "reply" THEN Answered(client, k, subs'[k], new)
                ELSE Underway(client, k, subs'[k], new)
  <2>2. Bound(client) /\ Answers(wire[k]) = {} /\ waiting[client] # "none"
    BY <1>1, <1>7, PluggedHas DEF Bound
  <2>3. Underway(client, k, subs[k], req)
    BY <1>1, <1>7, <2>2 DEF HeldInv, Informed
  <2>4. CASE req.kind = "subscribe" /\ new = Refused(req) /\ newSub = subs[k]
    <3>1. new.phase = "reply" /\ new.kind = "subscribe" /\ new.snaps = req.snaps
      BY <1>1, <2>4, RefusedIs
    <3>2. Answered(client, k, newSub, new)
      BY <2>3, <2>4, <3>1 DEF Answered, Underway, Reported
    <3> QED BY <1>1, <1>5, <2>2, <3>1, <3>2
  <2>5. CASE Advanced(req, subs[k], new, newSub)
    BY <1>1, <1>4, <1>5, <2>2, <2>3, <2>5, AdvancedHolds
  <2>6. CASE Advanced(Skipped(req), subs[k], new, newSub)
    <3>1. Underway(client, k, subs[k], Skipped(req)) /\ Skipped(req) \in Request
      BY <1>1, <1>4, <2>3, SkippedHolds, SkippedIs
    <3> QED BY <1>1, <1>4, <1>5, <2>2, <2>6, <3>1, AdvancedHolds
  <2> QED BY <1>2, <2>4, <2>5, <2>6
<1> QED BY <1>1, <1>3, <1>5, <1>6, <1>7, RequestHeld

\* A client subscribes to what it does not hold, and is told.
LEMMA SubscribeHeld ==
    ASSUME DataInv, DataInv', HostInv, SocketInv, HeldInv, NEW client \in Clients, NEW c \in Channels, Subscribe(client, c)
    PROVE  HeldInv'
<1>0. PICK k \in Conns : k = link[client]
  BY LinkTyped DEF Subscribe, Idle
<1>1. /\ k # NoConn /\ waiting[client] = "none" /\ clientOf[k] = client
      /\ waiting' = [waiting EXCEPT ![client] = "subscribe"]
      /\ \E new \in Request, newSub \in SUBSET Channels :
            Handled(k, new, newSub) /\ Advanced(Asked(c), subs[k], new, newSub)
  BY <1>0, SubscribeDoes
<1>2. PICK new \in Request, newSub \in SUBSET Channels : Handled(k, new, newSub) /\ Advanced(Asked(c), subs[k], new, newSub)
  BY <1>1
<1>3. /\ request' = [request EXCEPT ![k] = new] /\ UNCHANGED <<link, early, wire, clientOf, buffer, view, orphaned, store>>
      /\ subs' = [subs EXCEPT ![k] = newSub]
  BY <1>2 DEF Handled, HandlerFrame
<1>4. TypeInv /\ subs \in [Conns -> SUBSET Channels] /\ waiting \in [Clients -> {"none", "handshake", "subscribe"}]
  BY DEF DataInv, TypeInv
<1>5. subs'[k] = newSub /\ \A l \in Conns : l # k => subs'[l] = subs[l]
  BY <1>3, <1>4
<1>6. \A d : Live(d)' = Live(d)
  BY <1>3 DEF Live
<1>7. waiting'[client] = "subscribe" /\ \A other \in Clients : other # client => waiting'[other] = waiting[other]
  BY <1>1, <1>4
<1>8. Bound(client) /\ Answers(wire[k]) = {}
  BY <1>0, <1>1, PluggedHas DEF Bound, Pending, Owed
<1>9. Underway(client, k, subs[k], Asked(c)) /\ Asked(c) \in Request
  <2>1. Holds(client, k, subs[k])
    BY <1>0, <1>1, <1>8 DEF HeldInv, Informed
  <2>2. Asked(c) \in Request /\ Asked(c).kind = "subscribe"
    BY AskedIs
  <2> QED BY <2>1, <2>2 DEF Underway, Holds
<1>10. IF new.phase = "reply" THEN Answered(client, k, subs'[k], new) ELSE Underway(client, k, subs'[k], new)
  BY <1>2, <1>4, <1>5, <1>9, AdvancedHolds
<1>11. \A other \in Clients : link[other] = k => other = client
  BY <1>0, <1>1, PluggedHas
<1>12. ASSUME NEW other \in Clients
       PROVE  IF link[other] = k
              THEN /\ waiting'[other] # "none" /\ Answers(wire[k]) = {}
                   /\ IF new.phase = "reply" THEN Answered(other, k, subs'[k], new)
                      ELSE Underway(other, k, subs'[k], new)
              ELSE waiting'[other] = waiting[other]
  BY <1>0, <1>7, <1>8, <1>10, <1>11
<1> QED BY <1>3, <1>5, <1>6, <1>12, RequestHeld

\* A reconnect lists what the client holds, an initialize starts from nothing.
LEMMA HandshakeHeld ==
    ASSUME DataInv, DataInv', HostInv, SocketInv, HeldInv, NEW client \in Clients, NEW req \in Request,
           Handshake(client, req), Opening(client, req)
    PROVE  HeldInv'
<1>0. PICK k \in Conns : k = link[client]
  BY LinkTyped DEF Handshake
<1>1. PICK new \in Request, newSub \in SUBSET Channels : Shook(client, k, req, new, newSub)
  BY <1>0, HandshakeDoes
<1> DEFINE previous == Previous(client, k)
<1>2. /\ k # NoConn /\ clientOf[k] = NoClient /\ k \in attached /\ k \notin previous
      /\ clientOf' = [clientOf EXCEPT ![k] = client]
      /\ waiting' = [waiting EXCEPT ![client] = "handshake"]
      /\ UNCHANGED <<link, view, orphaned, store>>
      /\ subs' = [subs EXCEPT ![k] = newSub]
      /\ Advanced(req, {}, new, newSub)
      /\ Pending(k)' = Owed(wire[k], new)
      /\ \A l \in Conns : l # k => Pending(l)' \subseteq Pending(l)
  BY <1>1 DEF Shook
<1>3. /\ TypeInv /\ TypeInv' /\ clientOf \in [Conns -> Clients \cup {NoClient}]
  BY DEF DataInv, HostInv, ConnInv, ConnTypes
<1>4. /\ (\A l \in Conns : l # k => clientOf'[l] = clientOf[l] /\ subs'[l] = subs[l])
      /\ subs'[k] = newSub
      /\ waiting'[client] = "handshake" /\ (\A o \in Clients : o # client => waiting'[o] = waiting[o])
  BY <1>2, <1>3 DEF TypeInv
<1>5. \A d : Live(d)' = Live(d)
  BY <1>2 DEF Live
<1>6. Informed(client, k)'
  <2>1. wire[k] = <<>>
    BY <1>0, <1>2, PluggedHas
  <2>2. \A r \in Pending(k)' : r = new
    BY <1>2, <2>1, NothingOn DEF Owed
  <2>3. Underway(client, k, {}, req)
    BY DEF Underway, Opening, Reported
  <2>4. IF new.phase = "reply" THEN Answered(client, k, newSub, new) ELSE Underway(client, k, newSub, new)
    BY <1>2, <1>3, <2>3, AdvancedHolds
  <2>5. new.phase = "reply" => Answered(client, k, subs[k], new)'
    BY <1>2, <1>4, <2>4 DEF Answered, Holds
  <2>6. new.phase # "reply" => Underway(client, k, subs[k], new)'
    BY <1>2, <1>4, <1>5, <2>4 DEF Underway, Holds
  <2> QED BY <1>4, <2>2, <2>5, <2>6 DEF Informed
<1> SUFFICES ASSUME NEW other \in Clients, Bound(other)' PROVE Informed(other, link[other])'
  BY DEF HeldInv
<1>7. CASE other = client
  BY <1>0, <1>2, <1>6, <1>7
<1>8. CASE other # client
  <2>1. PICK l \in Conns : l = link[other] /\ l # NoConn
    BY <1>2, LinkTyped DEF Bound
  <2>2. l # k
    BY <1>0, <1>2, <1>8, <2>1, PluggedHas
  <2>3. Bound(other)
    BY <1>2, <1>4, <2>1, <2>2 DEF Bound
  <2>4. Informed(other, l)
    BY <2>1, <2>3 DEF HeldInv
  <2>5. Informed(other, l)'
    BY <1>2, <1>3, <1>4, <1>5, <1>8, <2>2, <2>4, SameInformed
  <2> QED BY <1>2, <2>1, <2>5
<1> QED BY <1>7, <1>8

\* A reply leaves its client with what the answer promised.
LEMMA ReplyHolds ==
    ASSUME DataInv, HostInv, NEW client \in Clients, NEW k \in Conns, NEW r \in Pending(k), r \in Request,
           r.phase = "reply", Answered(client, k, subs[k], r), TookReply(client, k, r),
           subs' = subs, orphaned' = orphaned
    PROVE  Holds(client, k, subs[k])'
<1> SUFFICES ASSUME NEW c \in subs[k] PROVE view'[client][c].held \/ c \in orphaned[k]
  BY DEF Holds
<1>1. c \in Channels /\ TypeInv
  BY DEF DataInv, TypeInv
<1> DEFINE v == Base(client, r)[c]
<1>2. r.actions \subseteq Around /\ r.snaps \in SUBSET Snapshot /\ Proper(r, serverSeq + 1, incs)
      /\ r.kind \in {"none", "initialize", "reconnect", "subscribe"}
  BY AroundHas, RequestFields DEF DataInv
<1>3. /\ ~NoView.held /\ NoView \in View /\ view[client][c] \in View /\ v \in View
      /\ r.kind = "subscribe" => v = Adopt(view[client][c], c, r.snaps)
      /\ r.kind # "subscribe" /\ r.mode = "snapshot" => v = Adopt(NoView, c, r.snaps)
      /\ r.kind # "subscribe" /\ r.mode # "snapshot" /\ c \notin r.missing => v = ApplyTo(view[client][c], c, r.actions)
  BY <1>1, <1>2, BaseIs
<1> HIDE DEF v
<1>4. \A X \in SUBSET Around : X \in SUBSET Envelope /\ \A e \in X : e.serverSeq <= serverSeq
  BY <1>1, AroundTyped DEF DataInv
<1>5. serverSeq \in Nat /\ early[client] \in SUBSET Around
  BY <1>1, AroundHas DEF TypeInv
<1>6. view'[client][c].held = v.held
  <2>1. view'[client][c] = ApplyTo(v, c, early[client])
    BY <1>1 DEF TookReply, v
  <2> QED BY <1>1, <1>3, <1>4, <1>5, <2>1, ApplyDoes
<1>7. CASE r.kind = "subscribe"
  <2>1. c \in Reported(r) \/ view[client][c].held \/ c \in orphaned[k]
    BY <1>7 DEF Answered, Holds
  <2>2. c \in Reported(r) \/ view[client][c].held => v.held
    BY <1>1, <1>2, <1>3, <1>7, AdoptIs DEF Reported
  <2> QED BY <1>6, <2>1, <2>2
<1>8. CASE r.kind # "subscribe" /\ r.mode = "snapshot"
  <2>1. c \in Reported(r) \/ c \in orphaned[k]
    BY <1>2, <1>8 DEF Answered, Proper
  <2>2. c \in Reported(r) => v.held
    BY <1>1, <1>2, <1>3, <1>8, AdoptIs DEF Reported
  <2> QED BY <1>6, <2>1, <2>2
<1>9. CASE r.kind # "subscribe" /\ r.mode # "snapshot"
  <2>1. view[client][c].held /\ c \notin r.missing
    BY <1>2, <1>9 DEF Answered, Proper
  <2>2. v.held
    BY <1>1, <1>2, <1>3, <1>4, <1>5, <1>9, <2>1, ApplyDoes
  <2> QED BY <1>6, <2>2
<1> QED BY <1>7, <1>8, <1>9

\* A client that takes its answer holds what was promised, and no action ends that.
LEMMA ReceiveHeld ==
    ASSUME DataInv, DataInv', HostInv, SocketInv, SocketInv', HeldInv, NEW client \in Clients, Receive(client)
    PROVE  HeldInv'
<1>0. PICK k \in Conns : k = link[client]
  BY LinkTyped DEF Receive
<1>1. Took(client, k) /\ TypeInv /\ TypeInv'
  BY <1>0, ReceiveDoes DEF DataInv
<1>2. /\ UNCHANGED <<clientOf, subs, request, link, store, orphaned>>
      /\ wire' = [wire EXCEPT ![k] = Tail(wire[k])]
      /\ \A other \in Clients : other # client => waiting'[other] = waiting[other] /\ view'[other] = view[other]
  BY <1>1 DEF Took, ReceiveFrame, OthersKeep
<1>3. \A l \in Conns : l # k => wire'[l] = wire[l]
  BY <1>1, <1>2 DEF TypeInv
<1>4. k # NoConn /\ clientOf[k] = client /\ Bound(client) /\ Bound(client)'
  <2>1. k # NoConn /\ wire[k] # <<>>
    BY <1>0 DEF Receive
  <2>2. clientOf[k] \in {NoClient, client} /\ (clientOf[k] = NoClient => wire[k] = <<>>)
    BY <1>0, PluggedHas
  <2> QED BY <1>0, <1>2, <2>1, <2>2 DEF Bound
<1>5. \A d : Live(d)' = Live(d)
  BY <1>2 DEF Live
<1>6. Informed(client, k)
  BY <1>0, <1>4 DEF HeldInv
<1>7. ASSUME NEW r \in Request, TookReply(client, k, r)
      PROVE  Informed(client, k)'
  <2>1. r \in Answers(wire[k]) /\ waiting'[client] = "none"
    BY <1>7 DEF TookReply
  <2>2. Pending(k)' = {}
    <3>1. link'[client] = k /\ clientOf'[k] = client /\ k # NoConn
      BY <1>0, <1>2, <1>4
    <3>2. Plugged(client)'
      BY DEF SocketInv
    <3> QED BY <2>1, <3>1, <3>2 DEF Plugged
  <2>3. r \in Pending(k) /\ r.phase = "reply"
    BY <2>1 DEF Pending, Owed, DataInv
  <2>4. Answered(client, k, subs[k], r)
    BY <1>6, <2>3 DEF Informed
  <2>5. Holds(client, k, subs[k])'
    BY <1>2, <1>7, <2>3, <2>4, ReplyHolds
  <2> QED BY <2>1, <2>2, <2>5 DEF Informed
<1>8. ASSUME NEW e \in Envelope, TookAction(client, k, e)
      PROVE  Informed(client, k)'
  <2>1. /\ waiting'[client] = waiting[client] /\ Answers(wire'[k]) = Answers(wire[k]) /\ e \in Sent(wire[k])
        /\ \A c \in Channels : view'[client][c] = IF c = e.channel /\ ~SetAside(client, e)
                                              THEN ApplyTo(view[client][c], c, {e}) ELSE view[client][c]
    BY <1>8 DEF TookAction
  <2>2. Pending(k)' = Pending(k)
    BY <1>2, <2>1 DEF Pending, Owed
  <2>3. e.serverSeq <= serverSeq /\ serverSeq \in Nat /\ {e} \in SUBSET Envelope
    BY <1>1, <2>1, AroundHas DEF DataInv, TypeInv
  <2>4. ASSUME NEW c \in Channels
        PROVE  view'[client][c].held = view[client][c].held
    <3>1. view[client][c] \in View
      BY <1>1 DEF TypeInv
    <3>2. ApplyTo(view[client][c], c, {e}).held = view[client][c].held
      BY <2>3, <3>1, ApplyDoes
    <3> QED BY <2>1, <3>2
  <2> QED BY <1>1, <1>2, <1>5, <1>6, <2>1, <2>2, <2>4, SameInformed
<1>9. Informed(client, k)'
  BY <1>0, <1>1, <1>7, <1>8, ReceiveDoes
<1> SUFFICES ASSUME NEW other \in Clients, Bound(other)' PROVE Informed(other, link[other])'
  BY DEF HeldInv
<1>10. CASE other = client
  BY <1>0, <1>2, <1>9, <1>10
<1>11. CASE other # client
  <2>1. Bound(other)
    BY <1>2 DEF Bound
  <2>2. PICK l \in Conns : l = link[other]
    BY <2>1, LinkTyped DEF Bound
  <2>3. l # k /\ Informed(other, l)
    BY <1>0, <1>11, <2>1, <2>2, PluggedHas DEF HeldInv
  <2>4. Pending(l)' = Pending(l)
    BY <1>2, <1>3, <2>3 DEF Pending, Owed
  <2>5. Informed(other, l)'
    BY <1>1, <1>2, <1>5, <1>11, <2>3, <2>4, SameInformed
  <2> QED BY <1>2, <2>2, <2>5
<1> QED BY <1>10, <1>11

\* The view and the subscription go together.
LEMMA UnsubscribeHeld ==
    ASSUME DataInv, DataInv', HostInv, SocketInv, HeldInv, NEW client \in Clients, NEW c \in Channels, Unsubscribe(client, c)
    PROVE  HeldInv'
<1>0. PICK k \in Conns : k = link[client]
  BY LinkTyped DEF Unsubscribe, Idle
<1>1. /\ waiting[client] = "none" /\ k # NoConn /\ clientOf[k] = client
      /\ UNCHANGED <<link, waiting, early, buffer, wire, request, clientOf, store, orphaned>>
      /\ subs' = [subs EXCEPT ![k] = @ \ {c}]
      /\ view' = [view EXCEPT ![client][c] = NoView]
  BY <1>0 DEF Unsubscribe, Idle, seqVars, netVars, histVars
<1>2. TypeInv /\ TypeInv'
  BY DEF DataInv
<1>3. /\ subs'[k] = subs[k] \ {c} /\ \A l \in Conns : l # k => subs'[l] = subs[l]
      /\ \A d \in Channels : d # c => view'[client][d] = view[client][d]
      /\ \A other \in Clients : other # client => view'[other] = view[other]
  BY <1>1, <1>2 DEF TypeInv
<1>4. \A l \in Conns : Pending(l)' = Pending(l)
  BY <1>1, CalmStep
<1>5. \A d : Live(d)' = Live(d)
  BY <1>1 DEF Live
<1> SUFFICES ASSUME NEW other \in Clients, Bound(other)' PROVE Informed(other, link[other])'
  BY DEF HeldInv
<1>6. Bound(other)
  BY <1>1 DEF Bound
<1>7. CASE other = client
  <2>1. Holds(client, k, subs[k]) /\ Pending(k) = {}
    BY <1>0, <1>1, <1>6, <1>7, PluggedHas DEF HeldInv, Informed
  <2>2. subs[k] \subseteq Channels
    BY <1>2 DEF TypeInv
  <2>3. Holds(client, k, subs[k])'
    BY <1>1, <1>3, <2>1, <2>2 DEF Holds
  <2>4. Informed(client, k)'
    BY <1>4, <2>1, <2>3 DEF Informed
  <2> QED BY <1>0, <1>1, <1>7, <2>4
<1>8. CASE other # client
  <2>1. PICK l \in Conns : l = link[other]
    BY <1>6, LinkTyped DEF Bound
  <2>2. l # k /\ Informed(other, l)
    BY <1>0, <1>1, <1>6, <1>8, <2>1, PluggedHas DEF HeldInv
  <2>3. Informed(other, l)'
    BY <1>1, <1>2, <1>3, <1>4, <1>5, <1>8, <2>2, SameInformed
  <2> QED BY <1>1, <2>1, <2>3
<1> QED BY <1>7, <1>8

\* Every step keeps HeldInv.
LEMMA NextHeld ==
    ASSUME DataInv, DataInv', HostInv, SocketInv, SocketInv', HeldInv, [Next]_vars
    PROVE  HeldInv'
<1>1. ASSUME NEW client \in Clients, Reconnect(client) \/ \E S \in SUBSET Channels : Initialize(client, S)
      PROVE  HeldInv'
  BY <1>1, HandshakeOpens, HandshakeHeld
<1>2. CASE HostRestart
  <2>1. \A client \in Clients : link'[client] = NoConn
    BY <1>2 DEF HostRestart
  <2> QED BY <2>1 DEF HeldInv, Bound
<1>3. CASE UNCHANGED vars
  <2>1. UNCHANGED <<link, waiting, view, clientOf, subs, orphaned, store, wire, request>>
    BY <1>3 DEF vars, hostVars, netVars, clientVars, histVars
  <2>2. \A k \in Conns : Pending(k)' = Pending(k)
    BY <2>1 DEF Pending
  <2>3. (\A client \in Clients : Bound(client)' = Bound(client)) /\ \A c : Live(c)' = Live(c)
    BY <2>1 DEF Bound, Live
  <2> QED BY <2>1, <2>2, <2>3, CalmHeld DEF DataInv
<1> QED BY <1>1, <1>2, <1>3, EmitHeld, StoreHeld, OnCloseHeld, HydrationHeld, ResumeHeld, SendReplyHeld, AcceptHeld,
           LoseLinkHeld, ReceiveHeld, SubscribeHeld, UnsubscribeHeld DEF Next

\* Every subscription of a client is always held, orphaned or about to be told.
LEMMA HeldInvariant == Spec => []HeldInv
<1>1. Init => HeldInv
  BY DEF Init, HeldInv, Bound
<1>2. DataInv /\ DataInv' /\ HostInv /\ SocketInv /\ SocketInv' /\ HeldInv /\ [Next]_vars => HeldInv'
  BY NextHeld
<1> QED BY <1>1, <1>2, HostInvariant, DataInvariant, SocketInvariant, PTL DEF Spec

\* An idle client holds every channel its connection is subscribed to, unless a
\* reconnect of its had the subscription when store.delete took the channel
\* (host.ts:621-745): for any number of clients, channels, losses and restarts.
THEOREM SubscribersKnow == Spec => []SubscriberHoldsView
<1>1. HostInv /\ SocketInv /\ HeldInv => SubscriberHoldsView
  <2> SUFFICES ASSUME HostInv, SocketInv, HeldInv, NEW client \in Clients, Quiet(client)
               PROVE  \A c \in subs[link[client]] : view[client][c].held \/ c \in orphaned[link[client]]
    BY DEF SubscriberHoldsView
  <2>1. Bound(client) /\ waiting[client] = "none"
    BY DEF Quiet, Bound
  <2> QED BY <2>1 DEF HeldInv, Informed, Holds
<1> QED BY <1>1, HostInvariant, SocketInvariant, HeldInvariant, PTL

-----------------------------------------------------------------------------
(* ReplicaInv: steps that send nothing *)

\* Requests that a client cannot tell apart.
Alike(r, q) ==
    /\ r.kind = q.kind /\ r.snaps = q.snaps /\ r.actions = q.actions /\ r.missing = q.missing
    /\ r.lastSeen = q.lastSeen /\ r.isKnown = q.isKnown /\ r.todo = q.todo /\ r.mode = q.mode
    /\ r.phase = "reply" <=> q.phase = "reply"

\* A channel that is live after the step and no newer than before it is untouched.
Untouched ==
    \A c \in Channels : Live(c)' /\ store'[c].inc <= incs => Live(c) /\ store'[c] = store[c]

\* A view that is current after a step was current before it.
LEMMA CurrentBefore ==
    ASSUME KeptInv, Untouched, NEW client \in Clients, NEW c \in Channels, Current(client, c)',
           view'[client][c] = view[client][c]
    PROVE  Current(client, c) /\ store'[c] = store[c]
<1>1. Live(c)' /\ view[client][c].held /\ view[client][c].inc = store'[c].inc /\ view[client][c].inc <= incs
  BY DEF Current, KeptInv, StoreInv, Live
<1> QED BY <1>1 DEF Untouched, Current, Live

\* What was accounted for stays so while nothing new is around.
LEMMA SoundLater ==
    ASSUME NEW S, NEW u, NEW c, Sound(S, u, c), \A e \in Around' : e \in Around
    PROVE  Sound(S, u, c)'
BY DEF Sound

\* Steps that bring nothing new on the way to a client.
LEMMA CalmDelivers ==
    ASSUME DataInv, TypeInv', KeptInv, Untouched, NEW client \in Clients, NEW k \in Conns, k = link[client], link'[client] = k,
           NEW r \in Pending(k), NEW q, Alike(q, r), Delivers(client, subs[k], r),
           \A c \in Channels : view'[client][c] = view[client][c],
           lastSeen'[client] = lastSeen[client], seenIn'[client] = seenIn[client], process' = process,
           Incoming(client)' = Incoming(client),
           \A e \in Around' : e \in Around,
           \A c \in subs[k] : c \in subs'[k] \/ ~Live(c)'
    PROVE  Delivers(client, subs[k], q)'
<1>1. TypeInv /\ r \in Request /\ Proper(r, serverSeq + 1, incs)
  BY PendingTyped DEF DataInv
<1>2. /\ q.kind = r.kind /\ q.snaps = r.snaps /\ q.actions = r.actions /\ q.missing = r.missing
      /\ q.lastSeen = r.lastSeen /\ q.isKnown = r.isKnown /\ q.todo = r.todo /\ q.mode = r.mode
      /\ q.phase = "reply" <=> r.phase = "reply"
  BY DEF Alike
<1>4. ASSUME NEW s \in q.snaps, CurrentSnap(s)'
      PROVE  SnapFollows(client, subs[k], s)'
  <2>1. s \in r.snaps /\ s \in Snapshot /\ s.channel \in Channels /\ s.inc <= incs
    BY <1>1, <1>2, RequestFields DEF Snapshot, Proper
  <2>2. CurrentSnap(s) /\ store'[s.channel] = store[s.channel]
    BY <1>4, <2>1 DEF CurrentSnap, Untouched, Live
  <2>3. SnapFollows(client, subs[k], s)
    BY <2>1, <2>2 DEF Delivers
  <2>4. s.channel \in subs'[k]
    BY <1>4, <2>3 DEF SnapFollows, CurrentSnap
  <2> QED BY <2>2, <2>3, <2>4, SoundLater DEF SnapFollows
<1>5. ASSUME q.kind = "subscribe", NEW c \in Reported(q) \cup Listed(q.todo)
      PROVE  ~view'[client][c].held
  <2>1. c \in Channels
    BY <1>1, <1>2, RequestFields DEF Reported, Listed, Snapshot
  <2>2. c \in Reported(r) \cup Listed(r.todo)
    BY <1>2 DEF Reported
  <2> QED BY <1>2, <1>5, <2>1, <2>2 DEF Delivers
<1>6. ASSUME q.kind = "reconnect" /\ q.phase = "reply" /\ q.mode = "replay"
      PROVE  ReplayFollows(client, subs[k], q)'
  <2>1. ReplayFollows(client, subs[k], r)
    BY <1>2, <1>6 DEF Delivers
  <2>2. ASSUME NEW c \in Channels, Current(client, c)'
        PROVE  /\ c \in subs'[k] /\ c \notin q.missing
               /\ Complete(store'[c].state, view'[client][c].upto, c, q.actions \cup Later(Incoming(client)', q.actions))
    <3>1. Current(client, c) /\ store'[c] = store[c]
      BY <2>2, CurrentBefore
    <3>2. Live(c)'
      BY <2>2 DEF Current
    <3> QED BY <1>2, <2>1, <3>1, <3>2 DEF ReplayFollows
  <2> QED BY <2>1, <2>2 DEF ReplayFollows
<1>7. ASSUME q.kind = "reconnect" /\ q.phase # "reply"
      PROVE  Gathers(client, subs[k], q)'
  <2>1. Gathers(client, subs[k], r)
    BY <1>2, <1>7 DEF Delivers
  <2>2. ASSUME NEW c \in Channels, Current(client, c)'
        PROVE  c \notin q.missing /\ (c \in Listed(q.todo) \/ c \in subs'[k])
    <3>1. Current(client, c) /\ Live(c)'
      BY <2>2, CurrentBefore DEF Current
    <3> QED BY <1>2, <2>1, <3>1 DEF Gathers
  <2> QED BY <1>2, <2>1, <2>2 DEF Gathers
<1> QED BY <1>4, <1>5, <1>6, <1>7 DEF Delivers, Reported

\* A client keeps what it is sent when nothing is sent or taken.
LEMMA CalmStreams ==
    ASSUME DataInv, TypeInv', KeptInv, Untouched, NEW client \in Clients, NEW k \in Conns, k = link[client], link'[client] = k,
           Streams(client, k),
           \A c \in Channels : view'[client][c] = view[client][c],
           lastSeen'[client] = lastSeen[client], seenIn'[client] = seenIn[client], process' = process,
           waiting'[client] = waiting[client],
           Sent(wire'[k]) = Sent(wire[k]), early'[client] = early[client],
           \A e \in Around' : e \in Around,
           \A c \in subs[k] : c \in subs'[k] \/ ~Live(c)',
           \A q \in Pending(k)' : \E r \in Pending(k) : Alike(q, r)
    PROVE  Streams(client, k)'
<1>1. ASSUME waiting'[client] # "handshake", NEW c \in Channels, Current(client, c)'
      PROVE  c \in subs'[k] /\ Complete(store'[c].state, view'[client][c].upto, c, Sent(wire'[k]))
  <2>1. Current(client, c) /\ store'[c] = store[c] /\ Live(c)'
    BY <1>1, CurrentBefore DEF Current
  <2> QED BY <1>1, <2>1 DEF Streams, Follows
<1>2. ASSUME NEW q \in Pending(k)'
      PROVE  Delivers(client, subs[k], q)'
  <2>1. PICK r \in Pending(k) : Alike(q, r)
    OBVIOUS
  <2>2. Delivers(client, subs[k], r)
    BY DEF Streams
  <2>3. Incoming(client)' = Incoming(client)
    BY DEF Incoming
  <2> QED BY <2>1, <2>2, <2>3, CalmDelivers
<1> QED BY <1>1, <1>2 DEF Streams, Follows

\* What a client holds stays true when its channel is untouched.
LEMMA CalmTracks ==
    ASSUME KeptInv, Untouched, NEW client \in Clients, NEW c \in Channels, Current(client, c)',
           view'[client][c] = view[client][c], Current(client, c) => Tracks(client, c),
           lastSeen'[client] = lastSeen[client], seenIn'[client] = seenIn[client], process' = process,
           serverSeq' = serverSeq,
           \A e \in Around' : e \in Around
    PROVE  Tracks(client, c)'
<1>1. Current(client, c) /\ store'[c] = store[c]
  BY CurrentBefore
<1>2. Sound(store[c].state, view[client][c].upto, c)'
  BY <1>1, SoundLater DEF Tracks
<1> QED BY <1>1, <1>2 DEF Tracks

\* Steps that send nothing, take nothing and change no channel that clients hold.
LEMMA CalmReplica ==
    ASSUME DataInv, TypeInv', HostInv, KeptInv, Untouched, ReplicaInv,
           UNCHANGED <<serverSeq, process, lastSeen, view, seenIn>>,
           \A e \in Around' : e \in Around,
           \A client \in Clients : Bound(client)' => Bound(client) /\ link'[client] = link[client],
           \A client \in Clients, k \in Conns : Bound(client) /\ k = link[client] /\ Bound(client)' =>
               /\ waiting'[client] = waiting[client] /\ early'[client] = early[client]
               /\ Sent(wire'[k]) = Sent(wire[k])
               /\ \A c \in subs[k] : c \in subs'[k] \/ ~Live(c)'
               /\ \A q \in Pending(k)' : \E r \in Pending(k) : Alike(q, r)
    PROVE  ReplicaInv'
<1>1. ViewInv'
  <2> SUFFICES ASSUME NEW client \in Clients, NEW c \in Channels, Current(client, c)' PROVE Tracks(client, c)'
    BY DEF ViewInv
  <2>1. Current(client, c) => Tracks(client, c)
    BY DEF ReplicaInv, ViewInv
  <2> QED BY <2>1, CalmTracks
<1>2. SeenInv'
  <2> SUFFICES ASSUME NEW client \in Clients
               PROVE  /\ seenIn'[client] = process => lastSeen[client] <= serverSeq
                      /\ Bound(client)' => SeenBy(client, link[client])'
    BY DEF SeenInv
  <2>1. seenIn'[client] = process => lastSeen[client] <= serverSeq
    BY DEF ReplicaInv, SeenInv
  <2>2. ASSUME Bound(client)'
        PROVE  SeenBy(client, link[client])'
    <3>1. PICK k \in Conns : k = link[client] /\ Bound(client)
      BY <2>2, LinkTyped DEF Bound
    <3>2. SeenBy(client, k)
      BY <3>1 DEF ReplicaInv, SeenInv
    <3>3. SeenBy(client, k)'
      BY <2>2, <3>1, <3>2 DEF SeenBy
    <3> QED BY <2>2, <3>1, <3>3
  <2> QED BY <2>1, <2>2
<1>3. StreamInv'
  <2> SUFFICES ASSUME NEW client \in Clients, Bound(client)' PROVE Streams(client, link[client])'
    BY DEF StreamInv
  <2>1. PICK k \in Conns : k = link[client] /\ Bound(client)
    BY LinkTyped DEF Bound
  <2>2. Streams(client, k) /\ link'[client] = k
    BY <2>1 DEF ReplicaInv, StreamInv
  <2>3. Streams(client, k)'
    BY <2>1, <2>2, CalmStreams
  <2> QED BY <2>2, <2>3
<1> QED BY <1>1, <1>2, <1>3 DEF ReplicaInv

\* A request is like itself.
LEMMA AlikeSelf == \A r : Alike(r, r)
BY DEF Alike

\* A channel that is created or goes is nobody's current one.
LEMMA StoreReplica ==
    ASSUME DataInv, DataInv', HostInv, SocketInv, KeptInv, ReplicaInv, NEW c \in Channels,
           CreateChannel(c) \/ DeleteChannel(c) \/ DropChannel(c)
    PROVE  ReplicaInv'
<1>1. /\ UNCHANGED <<link, waiting, lastSeen, view, early, seenIn, request, clientOf, wire, buffer, serverSeq, process>>
      /\ \A k \in Conns : \A d \in subs[k] : d \in subs'[k] \/ (d = c /\ DeleteChannel(c))
  <2>1. CASE CreateChannel(c)
    BY <2>1 DEF CreateChannel, seqVars, netVars, clientVars
  <2>2. CASE DeleteChannel(c)
    BY <2>2 DEF DeleteChannel, seqVars, netVars, clientVars, histVars
  <2>3. CASE DropChannel(c)
    BY <2>3 DEF DropChannel, seqVars, netVars, clientVars
  <2> QED BY <2>1, <2>2, <2>3
<1>2. Around' = Around /\ \A k \in Conns : Pending(k)' = Pending(k)
  BY <1>1, CalmStep
<1>3. store \in [Channels -> ChannelEntry] /\ incs \in Nat
  BY DEF DataInv, TypeInv
<1>4. Untouched
  <2>1. CASE CreateChannel(c)
    BY <1>3, <2>1 DEF CreateChannel, Create, Untouched, Live
  <2>2. CASE DeleteChannel(c) \/ DropChannel(c)
    BY <1>3, <2>2 DEF DeleteChannel, DropChannel, NoEntry, Untouched, Live
  <2> QED BY <2>1, <2>2
<1>5. DeleteChannel(c) => ~Live(c)'
  BY <1>3 DEF DeleteChannel, NoEntry, Live
<1>6. \A client \in Clients : Bound(client)' = Bound(client)
  BY <1>1 DEF Bound
<1>7. TypeInv'
  BY DEF DataInv
<1> QED BY <1>1, <1>2, <1>4, <1>5, <1>6, <1>7, AlikeSelf, CalmReplica

\* What the hydrator creates is nobody's current channel yet.
LEMMA HydrationReplica ==
    ASSUME DataInv, DataInv', HostInv, SocketInv, KeptInv, ReplicaInv, NEW k \in Conns, HydrationSettles(k)
    PROVE  ReplicaInv'
<1>1. PICK h \in BOOLEAN : request' = [request EXCEPT ![k].phase = "resumed", ![k].hydrated = h]
  BY DEF HydrationSettles
<1>2. /\ request[k].kind # "none" /\ request[k].phase = "hydrating"
      /\ UNCHANGED <<link, waiting, lastSeen, view, early, seenIn, clientOf, wire, buffer, serverSeq, process, subs>>
      /\ \/ \E c \in Channels : Create(c)
         \/ store' = store
  <2>1. request[k] \in Request /\ request[k].kind # "none" /\ request[k].phase = "hydrating"
    BY DEF HydrationSettles, DataInv, TypeInv
  <2>2. Proper(request[k], serverSeq + 1, incs) /\ request[k].todo \in Seq(Channels)
    BY <2>1, RequestFields DEF DataInv, Pending, Owed
  <2>3. Head(request[k].todo) \in Channels
    BY <2>1, <2>2 DEF Proper
  <2> QED BY <2>1, <2>3 DEF HydrationSettles, seqVars, netVars, clientVars
<1>3. TypeInv /\ TypeInv' /\ request \in [Conns -> Request] /\ store \in [Channels -> ChannelEntry] /\ incs \in Nat
  BY DEF DataInv, TypeInv
<1>4. PICK new \in Request : /\ new = [request[k] EXCEPT !.phase = "resumed", !.hydrated = h]
                             /\ request' = [request EXCEPT ![k] = new]
  <2>1. [request[k] EXCEPT !.phase = "resumed", !.hydrated = h] \in Request
    BY <1>3 DEF Request
  <2>2. request' = [request EXCEPT ![k] = [request[k] EXCEPT !.phase = "resumed", !.hydrated = h]]
    BY <1>1, <1>3
  <2> QED BY <2>1, <2>2
<1>5. Alike(new, request[k]) /\ new.actions = request[k].actions
  BY <1>2, <1>3, <1>4 DEF Alike, Request
<1>6. /\ \A l \in Conns : l # k => Pending(l)' = Pending(l)
      /\ Pending(k)' = Owed(wire[k], new)
      /\ \A e \in Around' : e \in Around \cup new.actions
  BY <1>2, <1>3, <1>4, RequestStep
<1>7. request[k] \in Pending(k)
  BY <1>2 DEF Pending, Owed
<1>8. \A e \in Around' : e \in Around
  BY <1>5, <1>6, <1>7, AroundHas
<1>9. \A l \in Conns : \A q \in Pending(l)' : \E r \in Pending(l) : Alike(q, r)
  <2>1. \A q \in Pending(k)' : q = new \/ q \in Pending(k)
    BY <1>6 DEF Owed, Pending
  <2> QED BY <1>5, <1>6, <1>7, <2>1, AlikeSelf
<1>10. Untouched
  BY <1>2, <1>3 DEF Create, Untouched, Live
<1>11. \A client \in Clients : Bound(client)' = Bound(client)
  BY <1>2 DEF Bound
<1> QED BY <1>2, <1>3, <1>8, <1>9, <1>10, <1>11, CalmReplica

\* The answer comes after all actions on the wire, and they before it.
LEMMA SendReplyReplica ==
    ASSUME DataInv, DataInv', HostInv, SocketInv, KeptInv, ReplicaInv, NEW k \in Conns, SendReply(k)
    PROVE  ReplicaInv'
<1>1. UNCHANGED <<link, waiting, lastSeen, view, early, seenIn, clientOf, store, serverSeq, process, subs>>
      /\ TypeInv /\ TypeInv'
  BY DEF SendReply, seqVars, histVars, clientVars, DataInv
<1>2. /\ \A l \in Conns : Pending(l)' \subseteq Pending(l)
      /\ \A e \in Around' : e \in Around
  BY <1>1, SendReplyStep
<1>3. \A l \in Conns : Sent(wire'[l]) = Sent(wire[l])
  BY <1>1, SendReplyDoes
<1>4. \A client \in Clients : Bound(client)' = Bound(client)
  BY <1>1 DEF Bound
<1>5. Untouched
  BY <1>1 DEF Untouched, Live
<1> QED BY <1>1, <1>2, <1>3, <1>4, <1>5, AlikeSelf, CalmReplica

\* Nothing on its way to a client passes through a closed connection.
LEMMA OnCloseReplica ==
    ASSUME DataInv, DataInv', HostInv, SocketInv, KeptInv, ReplicaInv, NEW l \in Conns, OnClose(l)
    PROVE  ReplicaInv'
<1>1. /\ ~up[l] /\ clientOf' = [clientOf EXCEPT ![l] = NoClient] /\ subs' = [subs EXCEPT ![l] = {}]
      /\ UNCHANGED <<link, waiting, lastSeen, view, early, seenIn, store, serverSeq, process, wire, request, buffer>>
  BY DEF OnClose, seqVars, netVars, histVars, clientVars
<1>2. TypeInv /\ TypeInv' /\ clientOf \in [Conns -> Clients \cup {NoClient}]
  BY DEF DataInv, HostInv, ConnInv, ConnTypes
<1>3. Around' = Around /\ \A k \in Conns : Pending(k)' = Pending(k)
  BY <1>1, CalmStep
<1>4. \A k \in Conns : clientOf'[k] = clientOf[k] \/ clientOf'[k] = NoClient
  BY <1>1, <1>2
<1>5. \A client \in Clients : Bound(client)' => Bound(client)
  BY <1>1, <1>4, LinkTyped, HostAssumption DEF Bound
<1>6. \A client \in Clients, k \in Conns : k = link[client] => subs'[k] = subs[k]
  <2>1. \A client \in Clients, k \in Conns : k = link[client] => k # l
    BY <1>1, PluggedHas
  <2>2. \A k \in Conns : k # l => subs'[k] = subs[k]
    BY <1>1, <1>2 DEF TypeInv
  <2> QED BY <2>1, <2>2
<1>7. Untouched
  BY <1>1 DEF Untouched, Live
<1> QED BY <1>1, <1>2, <1>3, <1>5, <1>6, <1>7, AlikeSelf, CalmReplica

\* A client with a new socket is not bound yet.
LEMMA AcceptReplica ==
    ASSUME DataInv, DataInv', HostInv, SocketInv, KeptInv, ReplicaInv, NEW client \in Clients, NEW l \in Conns, Accept(client, l)
    PROVE  ReplicaInv'
<1>1. /\ link' = [link EXCEPT ![client] = l] /\ clientOf[l] = NoClient /\ clientOf' = [clientOf EXCEPT ![l] = NoClient]
      /\ (\A other \in Clients : link[other] # l) /\ subs' = [subs EXCEPT ![l] = {}]
      /\ UNCHANGED <<waiting, lastSeen, view, early, seenIn, store, serverSeq, process, wire, request, buffer>>
  BY DEF Accept, seqVars
<1>2. TypeInv /\ TypeInv' /\ clientOf \in [Conns -> Clients \cup {NoClient}] /\ link \in [Clients -> Conns \cup {NoConn}]
  BY DEF DataInv, HostInv, ConnInv, ConnTypes
<1>3. Around' = Around /\ \A k \in Conns : Pending(k)' = Pending(k)
  BY <1>1, CalmStep
<1>4. clientOf' = clientOf /\ link'[client] = l /\ \A other \in Clients : other # client => link'[other] = link[other]
  BY <1>1, <1>2
<1>5. \A other \in Clients : Bound(other)' => other # client /\ Bound(other)
  BY <1>1, <1>4, HostAssumption DEF Bound
<1>6. \A other \in Clients, k \in Conns : k = link[other] => subs'[k] = subs[k]
  BY <1>1, <1>2 DEF TypeInv
<1>7. Untouched
  BY <1>1 DEF Untouched, Live
<1> QED BY <1>1, <1>2, <1>3, <1>4, <1>5, <1>6, <1>7, AlikeSelf, CalmReplica

\* A client keeps its views without a socket, and they stay without holes.
LEMMA LoseLinkReplica ==
    ASSUME DataInv, DataInv', HostInv, SocketInv, KeptInv, ReplicaInv, NEW client \in Clients, LoseLink(client)
    PROVE  ReplicaInv'
<1>0. PICK l \in Conns : l = link[client]
  BY LinkTyped DEF LoseLink
<1>1. /\ link' = [link EXCEPT ![client] = NoConn] /\ wire' = [wire EXCEPT ![l] = <<>>]
      /\ waiting' = [waiting EXCEPT ![client] = "none"] /\ early' = [early EXCEPT ![client] = {}]
      /\ UNCHANGED <<lastSeen, view, seenIn, store, serverSeq, process, request, buffer, clientOf, subs>>
  BY <1>0 DEF LoseLink, hostVars, seqVars
<1>2. TypeInv /\ TypeInv' /\ link \in [Clients -> Conns \cup {NoConn}]
  BY DEF DataInv, HostInv, ConnInv, ConnTypes
<1>3. link'[client] = NoConn
      /\ \A other \in Clients : other # client =>
            link'[other] = link[other] /\ waiting'[other] = waiting[other] /\ early'[other] = early[other]
  BY <1>1, <1>2 DEF TypeInv
<1>4. wire' = [k \in Conns |-> IF k \in {l} THEN <<>> ELSE wire[k]] /\ {l} \in SUBSET Conns
      /\ \A other \in Clients : early'[other] \subseteq early[other]
  BY <1>1, <1>2 DEF TypeInv
<1>5. /\ \A k \in Conns : k # l => wire'[k] = wire[k]
      /\ \A k \in Conns : Pending(k)' \subseteq Pending(k)
      /\ \A e \in Around' : e \in Around
  BY <1>1, <1>2, <1>4, CutStep
<1>6. \A other \in Clients : Bound(other)' => other # client /\ Bound(other)
  BY <1>1, <1>3 DEF Bound
<1>7. \A other \in Clients, k \in Conns : k = link[other] /\ other # client => k # l
  BY <1>0, PluggedHas
<1>8. Untouched
  BY <1>1 DEF Untouched, Live
<1> QED BY <1>1, <1>2, <1>3, <1>5, <1>6, <1>7, <1>8, AlikeSelf, CalmReplica

\* Stuttering steps.
LEMMA StutterReplica ==
    ASSUME DataInv, DataInv', HostInv, KeptInv, ReplicaInv, UNCHANGED vars
    PROVE  ReplicaInv'
<1>1. UNCHANGED <<link, waiting, lastSeen, view, early, seenIn, store, serverSeq, process, wire, request, buffer, clientOf, subs>>
  BY DEF vars, seqVars, hostVars, netVars, histVars, clientVars
<1>2. Around' = Around /\ \A k \in Conns : Pending(k)' = Pending(k)
  BY <1>1, CalmStep
<1>3. Untouched /\ \A client \in Clients : Bound(client)' = Bound(client)
  BY <1>1 DEF Untouched, Live, Bound
<1> QED BY <1>1, <1>2, <1>3, AlikeSelf, CalmReplica DEF DataInv

\* No view is of a channel of the new process.
LEMMA RestartReplica ==
    ASSUME DataInv, KeptInv, HostRestart
    PROVE  ReplicaInv'
<1>1. /\ process' = process + 1 /\ incs \in Nat /\ process \in Nat
      /\ store' = [c \in Channels |-> IF c = Root THEN [live |-> TRUE, inc |-> incs + 1, state |-> {}] ELSE NoEntry]
      /\ UNCHANGED <<view, seenIn>>
  BY DEF HostRestart, DataInv, TypeInv
<1>2. \A client \in Clients : link'[client] = NoConn
  BY DEF HostRestart
<1>3. \A client \in Clients : seenIn'[client] # process'
  BY <1>1 DEF KeptInv, StoreInv, DataInv, TypeInv
<1>4. \A client \in Clients, c \in Channels : ~Current(client, c)'
  <2> SUFFICES ASSUME NEW client \in Clients, NEW c \in Channels, Current(client, c)' PROVE FALSE
    OBVIOUS
  <2>1. store'[c].live /\ view[client][c].inc = store'[c].inc /\ view[client][c].inc <= incs
    BY <1>1 DEF Current, Live, KeptInv, StoreInv
  <2>2. store'[c].inc = incs + 1
    BY <1>1, <2>1 DEF NoEntry
  <2>3. view[client][c].inc \in Nat
    BY DEF DataInv, TypeInv, View
  <2> QED BY <1>1, <2>1, <2>2, <2>3
<1> QED BY <1>2, <1>3, <1>4 DEF ReplicaInv, ViewInv, SeenInv, StreamInv, Bound

-----------------------------------------------------------------------------
(* ReplicaInv: an action is committed or rejected *)

\* An envelope e for channel c is emitted. No channel's state is touched except
\* that of c, which takes in the number of an accepted action.
Emitted(c, e) ==
    /\ e \in Envelope /\ e.serverSeq = serverSeq + 1 /\ e.channel = c
    /\ serverSeq \in Nat /\ serverSeq' = serverSeq + 1
    /\ \A f \in Around' : f \in Around \cup {e}
    /\ \A d \in Channels :
          /\ store'[d].live = store[d].live /\ store'[d].inc = store[d].inc
          /\ store'[d].state = IF d = c /\ e.accepted /\ Live(c) THEN store[d].state \cup {serverSeq + 1} ELSE store[d].state

\* A commit or a rejection emits one envelope to those that are subscribed.
LEMMA EmittedDoes ==
    ASSUME DataInv, NEW c \in Channels, Commit(c) \/ RejectAction(c)
    PROVE  \E e \in Envelope :
              /\ Emitted(c, e)
              /\ UNCHANGED <<link, waiting, lastSeen, view, early, seenIn, clientOf, process, subs, incs>>
              /\ \A k \in Conns : /\ Pending(k)' = Pending(k)
                                  /\ \A f \in Sent(wire'[k]) : f \in Sent(wire[k]) \cup {e}
                                  /\ Sent(wire[k]) \subseteq Sent(wire'[k])
                                  /\ k \in attached /\ c \in subs[k] /\ up[k] => e \in Sent(wire'[k])
<1>1. PICK a \in BOOLEAN :
        /\ Emit(c, a) /\ Broadcast(c, a) /\ UNCHANGED request
        /\ store' = IF a /\ Live(c) THEN [store EXCEPT ![c].state = @ \cup {serverSeq + 1}] ELSE store
        /\ UNCHANGED <<link, waiting, lastSeen, view, early, seenIn, clientOf, process, subs, incs>>
  <2>1. CASE Commit(c)
    BY <2>1 DEF Commit, hostVars, histVars, clientVars
  <2>2. CASE RejectAction(c)
    BY <2>2 DEF RejectAction, hostVars, histVars, clientVars
  <2> QED BY <2>1, <2>2
<1>2. TypeInv /\ serverSeq \in Nat /\ store \in [Channels -> ChannelEntry]
  BY DEF DataInv, TypeInv
<1>3. PICK e \in Envelope : e = NextEnvelope(c, a) /\ e.serverSeq = serverSeq + 1 /\ e.channel = c /\ e.accepted = a
  BY <1>2, EnvelopeIs
<1>4. /\ serverSeq' = serverSeq + 1
      /\ \A k \in Conns : Pending(k)' = Pending(k)
      /\ \A f \in Around' : f \in Around \cup {e}
  BY <1>1, <1>2, <1>3, EmitDoes, EmitStep
<1>5. ASSUME NEW k \in Conns
      PROVE  /\ \A f \in Sent(wire'[k]) : f \in Sent(wire[k]) \cup {e}
             /\ Sent(wire[k]) \subseteq Sent(wire'[k])
             /\ k \in attached /\ c \in subs[k] /\ up[k] => e \in Sent(wire'[k])
  <2>1. IF k \in attached /\ c \in subs[k] /\ up[k]
        THEN Sent(wire'[k]) = Sent(wire[k]) \cup {e} ELSE wire'[k] = wire[k]
    BY <1>1, <1>2, <1>3, BroadcastDoes
  <2> QED BY <2>1
<1>6. ASSUME NEW d \in Channels
      PROVE  /\ store'[d].live = store[d].live /\ store'[d].inc = store[d].inc
             /\ store'[d].state = IF d = c /\ e.accepted /\ Live(c) THEN store[d].state \cup {serverSeq + 1} ELSE store[d].state
  <2>1. CASE a /\ Live(c)
    <3>1. store' = [store EXCEPT ![c].state = @ \cup {serverSeq + 1}]
      BY <1>1, <2>1
    <3>2. store[d] \in ChannelEntry
      BY <1>2
    <3>3. d # c => store'[d] = store[d]
      BY <1>2, <3>1
    <3>4. d = c => store'[d] = [store[d] EXCEPT !.state = @ \cup {serverSeq + 1}]
      BY <1>2, <3>1
    <3>5. d = c => /\ store'[d].live = store[d].live /\ store'[d].inc = store[d].inc
                   /\ store'[d].state = store[d].state \cup {serverSeq + 1}
      BY <3>2, <3>4 DEF ChannelEntry
    <3> QED BY <1>3, <2>1, <3>3, <3>5
  <2>2. CASE ~(a /\ Live(c))
    BY <1>1, <1>3, <2>2
  <2> QED BY <2>1, <2>2
<1>7. Emitted(c, e)
  BY <1>2, <1>3, <1>4, <1>6 DEF Emitted
<1> QED BY <1>1, <1>4, <1>5, <1>7

\* What the emission does to the three claims about a live channel's state.
LEMMA EmittedKeeps ==
    ASSUME DataInv, KeptInv, NEW c \in Channels, NEW e \in Envelope, Emitted(c, e), NEW d \in Channels, Live(d), NEW u \in Nat
    PROVE  LET S == store[d].state IN
           /\ Sound(S, u, d) => Sound(S, u, d)'
           /\ \A R : PrefixOf(S, R, u) /\ u <= serverSeq => PrefixOf(S, R, u)'
           /\ \A E, F \in SUBSET Envelope : Complete(S, u, d, E) /\ E \subseteq F /\ (d = c => e \in F) => Complete(S', u, d, F)
<1> DEFINE S == store[d].state
           T == store'[d].state
<1>1. /\ e.serverSeq = serverSeq + 1 /\ e.channel = c /\ serverSeq \in Nat
      /\ \A f \in Around' : f \in Around \cup {e}
      /\ T = IF d = c /\ e.accepted THEN S \cup {serverSeq + 1} ELSE S
  BY DEF Emitted
<1>2. S \subseteq 1..serverSeq /\ S \subseteq T
  BY <1>1 DEF KeptInv, StoreInv
<1>3. Sound(S, u, d) => Sound(S, u, d)'
  BY <1>1, <1>2 DEF Sound
<1>4. ASSUME NEW R, PrefixOf(S, R, u), u <= serverSeq
      PROVE  PrefixOf(T, R, u)
  <2>1. \A n \in T : n \in S \/ ~(n <= u)
    BY <1>1, <1>4
  <2> QED BY <1>2, <1>4, <2>1 DEF PrefixOf
<1>5. ASSUME NEW E \in SUBSET Envelope, NEW F \in SUBSET Envelope, Complete(S, u, d, E), E \subseteq F, d = c => e \in F
      PROVE  Complete(T, u, d, F)
  <2> SUFFICES ASSUME NEW n \in T, n > u PROVE \E f \in F : f.channel = d /\ f.accepted /\ f.serverSeq = n
    BY DEF Complete
  <2>1. CASE n \in S
    BY <1>5, <2>1 DEF Complete
  <2>2. CASE n \notin S
    BY <1>1, <1>5, <2>2
  <2> QED BY <2>1, <2>2
<1>6. \A R : PrefixOf(S, R, u) /\ u <= serverSeq => PrefixOf(S, R, u)'
  BY <1>4 DEF PrefixOf
<1> HIDE DEF S, T
<1>7. \A E, F \in SUBSET Envelope : Complete(S, u, d, E) /\ E \subseteq F /\ (d = c => e \in F) => Complete(T, u, d, F)
  BY <1>5
<1> QED BY <1>3, <1>6, <1>7 DEF S, T

\* What is added after a snapshot or a replay was fixed follows it on the wire.
LEMMA EmitDelivers ==
    ASSUME DataInv, DataInv', KeptInv, NEW c \in Channels, NEW e \in Envelope, Emitted(c, e),
           NEW client \in Clients, NEW k \in Conns, k = link[client], Bound(client),
           NEW r \in Pending(k), Delivers(client, subs[k], r),
           UNCHANGED <<link, lastSeen, view, early, seenIn, process, subs, incs>>,
           Sent(wire[k]) \subseteq Sent(wire'[k]), c \in subs[k] => e \in Sent(wire'[k])
    PROVE  Delivers(client, subs[k], r)'
<1>1. TypeInv /\ TypeInv' /\ r \in Request /\ Proper(r, serverSeq + 1, incs)
  BY PendingTyped DEF DataInv
<1>2. r.snaps \in SUBSET Snapshot /\ r.actions \in SUBSET Envelope
  BY <1>1, RequestFields
<1>3. /\ e.serverSeq = serverSeq + 1 /\ serverSeq \in Nat
      /\ \A d \in Channels : store'[d].live = store[d].live /\ store'[d].inc = store[d].inc
  BY DEF Emitted
<1>4. \A d \in Channels : Live(d)' = Live(d) /\ (Current(client, d)' = Current(client, d))
  BY <1>3 DEF Live, Current
<1>5. /\ Incoming(client) = early[client] \cup Sent(wire[k]) /\ Incoming(client)' = early[client] \cup Sent(wire'[k])
      /\ Incoming(client) \subseteq Incoming(client)' /\ (c \in subs[k] => e \in Incoming(client)')
      /\ Incoming(client) \in SUBSET Envelope /\ Incoming(client)' \in SUBSET Envelope
  <2>1. wire[k] \in Seq(Frame) /\ wire'[k] \in Seq(Frame) /\ early[client] \in SUBSET Envelope
    BY <1>1 DEF TypeInv
  <2>2. Sent(wire[k]) \in SUBSET Envelope /\ Sent(wire'[k]) \in SUBSET Envelope
    BY <2>1, SentTyped
  <2> QED BY <2>1, <2>2 DEF Incoming
<1>6. ASSUME NEW s \in r.snaps, CurrentSnap(s)'
      PROVE  SnapFollows(client, subs[k], s)'
  <2>1. s.channel \in Channels /\ s.fromSeq \in Nat /\ s.fromSeq < serverSeq + 1
    BY <1>1, <1>2 DEF Snapshot, Proper, Below
  <2>2. CurrentSnap(s) /\ Live(s.channel)
    BY <1>3, <1>4, <1>6, <2>1 DEF CurrentSnap
  <2>3. SnapFollows(client, subs[k], s)
    BY <2>2 DEF Delivers
  <2>4. /\ Sound(store[s.channel].state, s.fromSeq, s.channel)'
        /\ PrefixOf(store'[s.channel].state, s.state, s.fromSeq)
    BY <1>3, <2>1, <2>2, <2>3, EmittedKeeps DEF SnapFollows, PrefixOf
  <2>5. Complete(store'[s.channel].state, s.fromSeq, s.channel, Incoming(client)')
    BY <1>5, <2>1, <2>2, <2>3, EmittedKeeps DEF SnapFollows
  <2> QED BY <2>3, <2>4, <2>5 DEF SnapFollows
<1>7. ASSUME r.kind = "reconnect" /\ r.phase = "reply" /\ r.mode = "replay"
      PROVE  ReplayFollows(client, subs[k], r)'
  <2>1. ReplayFollows(client, subs[k], r)
    BY <1>7 DEF Delivers
  <2> DEFINE E == r.actions \cup Later(Incoming(client), r.actions)
             F == r.actions \cup Later(Incoming(client)', r.actions)
  <2>2. E \subseteq F /\ E \in SUBSET Envelope /\ F \in SUBSET Envelope
    BY <1>2, <1>5 DEF Later
  <2>3. c \in subs[k] => e \in F
    <3>1. \A a \in r.actions : a.serverSeq < e.serverSeq
      BY <1>1, <1>3 DEF Proper, Below
    <3> QED BY <1>5, <3>1 DEF Later
  <2> HIDE DEF E, F
  <2>4. ASSUME NEW d \in Channels, Current(client, d)'
        PROVE  d \in subs[k] /\ d \notin r.missing /\ Complete(store'[d].state, view[client][d].upto, d, F)
    <3>1. Current(client, d) /\ Live(d)
      BY <1>4, <2>4 DEF Current
    <3>2. d \in subs[k] /\ d \notin r.missing /\ Complete(store[d].state, view[client][d].upto, d, E)
      BY <2>1, <3>1 DEF ReplayFollows, E
    <3>3. view[client][d].upto \in Nat
      BY <1>1 DEF TypeInv, View
    <3> QED BY <2>2, <2>3, <3>1, <3>2, <3>3, EmittedKeeps
  <2> QED BY <2>1, <2>4 DEF ReplayFollows, F
<1>8. ASSUME r.kind = "reconnect" /\ r.phase # "reply"
      PROVE  Gathers(client, subs[k], r)'
  BY <1>4, <1>8 DEF Delivers, Gathers
<1>9. r.kind = "subscribe" => \A d \in Reported(r) \cup Listed(r.todo) : ~view'[client][d].held
  BY DEF Delivers
<1> QED BY <1>6, <1>7, <1>8, <1>9 DEF Delivers, Reported

\* A new number reaches every bound client that holds the channel, last on its wire.
LEMMA EmitReplica ==
    ASSUME DataInv, DataInv', HostInv, SocketInv, KeptInv, ReplicaInv, NEW c \in Channels, Commit(c) \/ RejectAction(c)
    PROVE  ReplicaInv'
<1>1. PICK e \in Envelope :
              /\ Emitted(c, e)
              /\ UNCHANGED <<link, waiting, lastSeen, view, early, seenIn, clientOf, process, subs, incs>>
              /\ \A k \in Conns : /\ Pending(k)' = Pending(k)
                                  /\ \A f \in Sent(wire'[k]) : f \in Sent(wire[k]) \cup {e}
                                  /\ Sent(wire[k]) \subseteq Sent(wire'[k])
                                  /\ k \in attached /\ c \in subs[k] /\ up[k] => e \in Sent(wire'[k])
  BY EmittedDoes
<1>2. /\ e.serverSeq = serverSeq + 1 /\ serverSeq \in Nat /\ serverSeq' = serverSeq + 1
      /\ \A d \in Channels : /\ store'[d].live = store[d].live /\ store'[d].inc = store[d].inc
                             /\ store'[d].state = IF d = c /\ e.accepted /\ Live(c) THEN store[d].state \cup {serverSeq + 1}
                                                  ELSE store[d].state
  BY <1>1 DEF Emitted
<1>3. TypeInv /\ TypeInv'
  BY DEF DataInv
<1>4. \A client \in Clients, d \in Channels : Current(client, d)' = Current(client, d)
  BY <1>1, <1>2 DEF Current, Live
<1>5. \A client \in Clients : Bound(client)' = Bound(client)
  BY <1>1 DEF Bound
<1>6. \A client \in Clients, k \in Conns : k = link[client] => (c \in subs[k] => e \in Sent(wire'[k]))
  BY <1>1, PluggedHas
<1>7. ViewInv'
  <2> SUFFICES ASSUME NEW client \in Clients, NEW d \in Channels, Current(client, d) PROVE Tracks(client, d)'
    BY <1>4 DEF ViewInv
  <2>1. Tracks(client, d)
    BY DEF ReplicaInv, ViewInv
  <2>2. Live(d) /\ view[client][d].upto \in Nat /\ lastSeen[client] \in Nat
    BY <1>3 DEF Current, TypeInv, View
  <2>3. /\ Sound(store[d].state, view[client][d].upto, d)'
        /\ PrefixOf(store'[d].state, view[client][d].state, view[client][d].upto)
    <3>1. PICK u \in Nat : u = view[client][d].upto
      BY <2>2
    <3>2. Sound(store[d].state, u, d) /\ PrefixOf(store[d].state, view[client][d].state, u) /\ u <= serverSeq
      BY <2>1, <3>1 DEF Tracks
    <3>3. Sound(store[d].state, u, d)'
      BY <1>1, <2>2, <3>2, EmittedKeeps
    <3>4. PrefixOf(store'[d].state, view[client][d].state, u)
      BY <1>1, <2>2, <3>2, EmittedKeeps DEF PrefixOf
    <3> QED BY <1>1, <3>1, <3>3, <3>4
  <2>4. lastSeen[client] <= serverSeq
    BY <2>1 DEF Tracks, ReplicaInv, SeenInv
  <2>5. \A n \in store'[d].state : n > view[client][d].upto => n > lastSeen[client]
    <3> SUFFICES ASSUME NEW n \in store'[d].state, n > view[client][d].upto PROVE n > lastSeen[client]
      OBVIOUS
    <3>1. n \in store[d].state \/ n = serverSeq + 1
      <4>1. store'[d].state = store[d].state \/ store'[d].state = store[d].state \cup {serverSeq + 1}
        BY <1>2
      <4> QED BY <4>1
    <3>2. \A m \in store[d].state : m > view[client][d].upto => m > lastSeen[client]
      BY <2>1 DEF Tracks
    <3> QED BY <1>2, <2>2, <2>4, <3>1, <3>2
  <2> QED BY <1>1, <1>2, <2>1, <2>2, <2>3, <2>5 DEF Tracks
<1>8. SeenInv'
  <2> SUFFICES ASSUME NEW client \in Clients
               PROVE  /\ seenIn[client] = process => lastSeen[client] <= serverSeq'
                      /\ Bound(client) => SeenBy(client, link[client])'
    BY <1>1, <1>5 DEF SeenInv
  <2>1. (seenIn[client] = process => lastSeen[client] <= serverSeq) /\ lastSeen[client] \in Nat
    BY <1>3 DEF ReplicaInv, SeenInv, TypeInv
  <2>2. ASSUME Bound(client) PROVE SeenBy(client, link[client])'
    <3>1. PICK k \in Conns : k = link[client]
      BY <2>2, LinkTyped DEF Bound
    <3>2. SeenBy(client, k)
      BY <2>2, <3>1 DEF ReplicaInv, SeenInv
    <3>3. SeenBy(client, k)'
      BY <1>1, <1>2, <2>1, <3>2 DEF SeenBy
    <3> QED BY <1>1, <3>1, <3>3
  <2> QED BY <1>2, <2>1, <2>2
<1>9. StreamInv'
  <2> SUFFICES ASSUME NEW client \in Clients, Bound(client) PROVE Streams(client, link[client])'
    BY <1>5 DEF StreamInv
  <2>1. PICK k \in Conns : k = link[client]
    BY LinkTyped DEF Bound
  <2>2. Streams(client, k)
    BY <2>1 DEF ReplicaInv, StreamInv
  <2>3. \A r \in Pending(k)' : Delivers(client, subs[k], r)'
    BY <1>1, <1>6, <2>1, <2>2, EmitDelivers DEF Streams
  <2>4. ASSUME waiting[client] # "handshake", NEW d \in Channels, Current(client, d)
        PROVE  d \in subs[k] /\ Complete(store'[d].state, view[client][d].upto, d, Sent(wire'[k]))
    <3>1. d \in subs[k] /\ Complete(store[d].state, view[client][d].upto, d, Sent(wire[k]))
      BY <2>2, <2>4 DEF Streams, Follows
    <3>2. Live(d) /\ view[client][d].upto \in Nat /\ wire[k] \in Seq(Frame) /\ wire'[k] \in Seq(Frame)
      BY <1>3, <2>4 DEF Current, TypeInv, View
    <3>3. Sent(wire[k]) \in SUBSET Envelope /\ Sent(wire'[k]) \in SUBSET Envelope
      BY <3>2, SentTyped
    <3> QED BY <1>1, <1>6, <2>1, <3>1, <3>2, <3>3, EmittedKeeps
  <2>5. Streams(client, k)'
    BY <1>1, <1>4, <2>3, <2>4 DEF Streams, Follows
  <2> QED BY <1>1, <2>1, <2>5
<1> QED BY <1>7, <1>8, <1>9 DEF ReplicaInv

-----------------------------------------------------------------------------
(* ReplicaInv: handlers start, go on and end *)

\* A channel that is given up is followed no longer.
LEMMA UnsubscribeReplica ==
    ASSUME DataInv, DataInv', HostInv, SocketInv, KeptInv, ReplicaInv,
           NEW client \in Clients, NEW c \in Channels, Unsubscribe(client, c)
    PROVE  ReplicaInv'
<1>0. PICK k \in Conns : k = link[client]
  BY LinkTyped DEF Unsubscribe, Idle
<1>1. /\ waiting[client] = "none" /\ k # NoConn /\ clientOf[k] = client
      /\ UNCHANGED <<link, waiting, early, buffer, wire, request, clientOf, store, serverSeq, lastSeen, seenIn, process>>
      /\ subs' = [subs EXCEPT ![k] = @ \ {c}]
      /\ view' = [view EXCEPT ![client][c] = NoView]
  BY <1>0 DEF Unsubscribe, Idle, seqVars, netVars, histVars
<1>2. TypeInv /\ TypeInv'
  BY DEF DataInv
<1>3. /\ subs'[k] = subs[k] \ {c} /\ \A l \in Conns : l # k => subs'[l] = subs[l]
      /\ \A d \in Channels : d # c => view'[client][d] = view[client][d]
      /\ ~view'[client][c].held
      /\ \A other \in Clients : other # client => view'[other] = view[other]
  BY <1>1, <1>2 DEF TypeInv, NoView
<1>4. Around' = Around /\ \A l \in Conns : Pending(l)' = Pending(l)
  BY <1>1, CalmStep
<1>5. Untouched /\ \A other \in Clients : Bound(other)' = Bound(other)
  BY <1>1 DEF Untouched, Live, Bound
<1>6. ViewInv'
  <2> SUFFICES ASSUME NEW other \in Clients, NEW d \in Channels, Current(other, d)' PROVE Tracks(other, d)'
    BY DEF ViewInv
  <2>1. view'[other][d] = view[other][d]
    BY <1>3 DEF Current
  <2>2. Current(other, d) => Tracks(other, d)
    BY DEF ReplicaInv, ViewInv
  <2> QED BY <1>1, <1>4, <1>5, <2>1, <2>2, CalmTracks
<1>7. SeenInv'
  BY <1>1, <1>5 DEF ReplicaInv, SeenInv, SeenBy
<1>8. StreamInv'
  <2> SUFFICES ASSUME NEW other \in Clients, Bound(other) PROVE Streams(other, link[other])'
    BY <1>5 DEF StreamInv
  <2>1. PICK l \in Conns : l = link[other]
    BY LinkTyped DEF Bound
  <2>2. Streams(other, l)
    BY <2>1 DEF ReplicaInv, StreamInv
  <2>3. CASE other # client
    <3>1. l # k
      BY <1>0, <1>1, <2>1, <2>3, PluggedHas
    <3>2. Streams(other, l)'
      BY <1>1, <1>2, <1>3, <1>4, <1>5, <2>1, <2>2, <2>3, <3>1, AlikeSelf, CalmStreams
    <3> QED BY <1>1, <2>1, <3>2
  <2>4. CASE other = client
    <3>1. Pending(k)' = {}
      BY <1>0, <1>1, <1>4, PluggedHas
    <3>2. ASSUME NEW d \in Channels, Current(client, d)'
          PROVE  d \in subs'[k] /\ Complete(store'[d].state, view'[client][d].upto, d, Sent(wire'[k]))
      <4>1. view'[client][d] = view[client][d] /\ d # c
        BY <1>3, <3>2 DEF Current
      <4>2. Current(client, d)
        BY <1>1, <3>2, <4>1 DEF Current, Live
      <4> QED BY <1>0, <1>1, <1>3, <2>1, <2>2, <2>4, <4>1, <4>2 DEF Streams, Follows
    <3>3. Streams(client, k)'
      BY <3>1, <3>2 DEF Streams, Follows
    <3> QED BY <1>0, <1>1, <2>4, <3>3
  <2> QED BY <2>3, <2>4
<1> QED BY <1>6, <1>7, <1>8 DEF ReplicaInv

\* The buffer has every number above one from which it can replay.
LEMMA BufferReaches ==
    ASSUME DataInv, KeptInv, NEW c \in Channels, NEW m \in Nat, CanReplayFrom(m),
           NEW n \in store[c].state, n > m, NEW cs, c \in cs
    PROVE  \E e \in ReplayFrom(m, cs) : e.channel = c /\ e.accepted /\ e.serverSeq = n
<1>1. serverSeq \in Nat /\ buffer \in Seq(Envelope)
  BY DEF DataInv, TypeInv
<1>2. n \in 1..serverSeq /\ Len(buffer) \in Nat /\ DOMAIN buffer = 1..Len(buffer) /\ Len(buffer) <= serverSeq
  BY <1>1 DEF KeptInv, StoreInv, BufferInv
<1>3. buffer # <<>> /\ buffer[1].serverSeq <= m + 1
  BY <1>1, <1>2 DEF CanReplayFrom
<1>4. 1 \in DOMAIN buffer
  BY <1>1, <1>2, <1>3
<1>5. buffer[1].serverSeq = serverSeq - Len(buffer) + 1
  BY <1>4 DEF KeptInv, BufferInv
<1> DEFINE i == n - serverSeq + Len(buffer)
<1>6. i \in DOMAIN buffer
  BY <1>1, <1>2, <1>3, <1>5
<1>7. buffer[i].serverSeq = serverSeq - Len(buffer) + i
  BY <1>6 DEF KeptInv, BufferInv
<1>8. buffer[i].serverSeq = n
  BY <1>1, <1>2, <1>7
<1>9. buffer[i].channel = c /\ buffer[i].accepted
  BY <1>6, <1>8 DEF KeptInv, BufferInv
<1> HIDE DEF i
<1> QED BY <1>6, <1>8, <1>9 DEF ReplayFrom

\* A handler's claims before its first channel or between two.
Collecting(client, sub, req) ==
    /\ \A s \in req.snaps : CurrentSnap(s) => SnapFollows(client, sub, s)
    /\ req.kind = "subscribe" => \A c \in Reported(req) \cup Listed(req.todo) : ~view[client][c].held
    /\ req.kind = "reconnect" => Gathers(client, sub, req)

\* A stretch of a handler delivers.
LEMMA AdvancedDelivers ==
    ASSUME DataInv, KeptInv, ViewInv, NEW client \in Clients, NEW req \in Request, NEW sub \in SUBSET Channels,
           NEW new \in Request, NEW newSub \in SUBSET Channels, Advanced(req, sub, new, newSub),
           req.kind # "none", Collecting(client, sub, req)
    PROVE  Delivers(client, newSub, new)
<1>1. TypeInv /\ serverSeq \in Nat
  BY DEF DataInv, TypeInv
<1>2. /\ new.kind = req.kind /\ new.lastSeen = req.lastSeen /\ new.isKnown = req.isKnown
      /\ sub \subseteq newSub /\ newSub \subseteq sub \cup Listed(req.todo)
      /\ new.phase \in {"hydrating", "reply"}
      /\ new.phase = "reply" => Listed(new.todo) = {}
      /\ Listed(new.todo) \subseteq Listed(req.todo) /\ Listed(req.todo) \subseteq newSub \cup Listed(new.todo)
  BY DEF Advanced
<1>3. ASSUME NEW c \in newSub
      PROVE  SnapFollows(client, newSub, SnapshotOf(c))
  <2>1. /\ SnapshotOf(c).channel = c /\ SnapshotOf(c).state = store[c].state /\ SnapshotOf(c).fromSeq = serverSeq
    BY <1>1, SnapshotTyped
  <2>2. store[c].state \subseteq 1..serverSeq
    BY DEF KeptInv, StoreInv
  <2>3. PrefixOf(store[c].state, store[c].state, serverSeq) /\ Complete(store[c].state, serverSeq, c, Incoming(client))
    BY <1>1, <2>2 DEF PrefixOf, Complete
  <2>4. Sound(store[c].state, serverSeq, c)
    <3>1. \A e \in Around : e.serverSeq <= serverSeq /\ e.serverSeq \in Nat
      BY <1>1, AroundTyped DEF DataInv
    <3> QED BY <1>1, <3>1 DEF Sound
  <2> HIDE DEF SnapshotOf
  <2> QED BY <2>1, <2>3, <2>4 DEF SnapFollows
<1>4. ASSUME NEW s \in new.snaps, CurrentSnap(s)
      PROVE  SnapFollows(client, newSub, s)
  <2>1. CASE s \in req.snaps
    BY <1>2, <1>4, <2>1 DEF Collecting, SnapFollows
  <2>2. CASE s \notin req.snaps
    <3>1. \E c \in newSub : s = SnapshotOf(c)
      <4>1. CASE req.kind # "reconnect"
        BY <2>2, <4>1 DEF Advanced
      <4>2. CASE req.kind = "reconnect"
        BY <1>2, <4>2 DEF Advanced
      <4> QED BY <4>1, <4>2
    <3> QED BY <1>3, <3>1
  <2> QED BY <2>1, <2>2
<1>5. ASSUME new.kind = "subscribe", NEW c \in Reported(new) \cup Listed(new.todo)
      PROVE  ~view[client][c].held
  <2>1. \A d \in Listed(req.todo) \cup Reported(req) : ~view[client][d].held
    BY <1>2, <1>5 DEF Collecting
  <2>2. CASE c \in Listed(new.todo)
    BY <1>2, <2>1, <2>2
  <2>3. CASE c \in Reported(new)
    <3>1. PICK s \in new.snaps : s.channel = c
      BY <2>3 DEF Reported
    <3>2. s \in req.snaps => c \in Reported(req)
      BY <3>1 DEF Reported
    <3>3. s \notin req.snaps => c \in Listed(req.todo)
      BY <1>2, <1>5, <3>1 DEF Advanced
    <3> QED BY <2>1, <3>2, <3>3
  <2> QED BY <1>5, <2>2, <2>3
<1>6. ASSUME new.kind = "reconnect", new.phase = "reply", new.mode = "replay"
      PROVE  ReplayFollows(client, newSub, new)
  <2>1. Gathers(client, sub, req)
    BY <1>2, <1>6 DEF Collecting
  <2>2. /\ new.isKnown /\ CanReplayFrom(new.lastSeen) /\ new.actions = ReplayFrom(new.lastSeen, newSub)
        /\ new.missing = req.missing
    BY <1>2, <1>6 DEF Advanced
  <2>3. new.lastSeen = lastSeen[client] /\ seenIn[client] = process
    BY <1>2, <2>1, <2>2 DEF Gathers
  <2>4. ASSUME NEW c \in Channels, Current(client, c)
        PROVE  /\ c \in newSub /\ c \notin new.missing
               /\ Complete(store[c].state, view[client][c].upto, c, new.actions \cup Later(Incoming(client), new.actions))
    <3>1. c \in newSub /\ c \notin new.missing
      BY <1>2, <1>6, <2>1, <2>2, <2>4 DEF Gathers
    <3>2. \A n \in store[c].state : n > view[client][c].upto => n > lastSeen[client]
      BY <2>4 DEF ViewInv, Tracks
    <3>3. lastSeen[client] \in Nat
      BY <1>1 DEF TypeInv
    <3>4. \A n \in store[c].state : n > lastSeen[client] => \E e \in new.actions : e.channel = c /\ e.accepted /\ e.serverSeq = n
      BY <2>2, <2>3, <3>1, <3>3, BufferReaches
    <3> QED BY <3>1, <3>2, <3>4 DEF Complete
  <2> QED BY <2>3, <2>4 DEF ReplayFollows
<1>7. ASSUME new.kind = "reconnect", new.phase # "reply"
      PROVE  Gathers(client, newSub, new)
  <2>1. Gathers(client, sub, req) /\ new.missing = req.missing
    BY <1>2, <1>7 DEF Collecting, Advanced
  <2> QED BY <1>2, <2>1 DEF Gathers
<1> QED BY <1>4, <1>5, <1>6, <1>7 DEF Delivers

\* A channel that is not live holds no current view.
LEMMA SkippedCollects ==
    ASSUME NEW client \in Clients, NEW sub, NEW req \in Request, req.todo # <<>>, ~Live(Head(req.todo)),
           Collecting(client, sub, req)
    PROVE  Collecting(client, sub, Skipped(req))
<1>1. /\ Skipped(req).kind = req.kind /\ Skipped(req).lastSeen = req.lastSeen /\ Skipped(req).isKnown = req.isKnown
      /\ Skipped(req).snaps = req.snaps
      /\ Skipped(req).missing = req.missing \cup {Head(req.todo)}
      /\ Listed(req.todo) = {Head(req.todo)} \cup Listed(Skipped(req).todo)
  BY SkippedIs
<1>2. Reported(Skipped(req)) = Reported(req)
  BY <1>1 DEF Reported
<1>3. \A c \in Channels : Current(client, c) => c # Head(req.todo)
  BY DEF Current
<1> HIDE DEF Skipped
<1> QED BY <1>1, <1>2, <1>3 DEF Collecting, Gathers

\* One connection's handler goes on, and its client may start to wait.
LEMMA RequestReplica ==
    ASSUME DataInv, DataInv', HostInv, SocketInv, KeptInv, ReplicaInv, NEW k \in Conns,
           NEW new \in Request, NEW newSub \in SUBSET Channels, Handled(k, new, newSub),
           subs[k] \subseteq newSub, \A e \in new.actions : e \in Around,
           \A client \in Clients : (waiting'[client] = "handshake") <=> (waiting[client] = "handshake"),
           \A client \in Clients : link[client] = k => Bound(client) /\ Answers(wire[k]) = {} /\ Delivers(client, newSub, new)
    PROVE  ReplicaInv'
<1>1. /\ request' = [request EXCEPT ![k] = new] /\ subs' = [subs EXCEPT ![k] = newSub]
      /\ UNCHANGED <<serverSeq, buffer, store, clientOf, wire, process, link, lastSeen, view, early, seenIn>>
  BY DEF Handled, HandlerFrame
<1>2. TypeInv /\ TypeInv' /\ subs \in [Conns -> SUBSET Channels]
  BY DEF DataInv, TypeInv
<1>3. /\ \A l \in Conns : l # k => Pending(l)' = Pending(l) /\ subs'[l] = subs[l]
      /\ subs'[k] = newSub /\ Pending(k)' = Owed(wire[k], new)
      /\ \A e \in Around' : e \in Around
  BY <1>1, <1>2, RequestStep
<1>4. Untouched /\ \A client \in Clients : Bound(client)' = Bound(client)
  BY <1>1 DEF Untouched, Live, Bound
<1>5. \A client \in Clients, c \in Channels : Current(client, c)' = Current(client, c)
  BY <1>1 DEF Current, Live
<1>6. ViewInv'
  <2> SUFFICES ASSUME NEW client \in Clients, NEW c \in Channels, Current(client, c)' PROVE Tracks(client, c)'
    BY DEF ViewInv
  <2>1. Current(client, c) => Tracks(client, c)
    BY DEF ReplicaInv, ViewInv
  <2> QED BY <1>1, <1>3, <1>4, <2>1, CalmTracks
<1>7. SeenInv'
  <2>1. \A client \in Clients : seenIn[client] = process => lastSeen[client] <= serverSeq
    BY DEF ReplicaInv, SeenInv
  <2>2. ASSUME NEW client \in Clients, Bound(client)
        PROVE  SeenBy(client, link[client])'
    <3>1. SeenBy(client, link[client])
      BY <2>2 DEF ReplicaInv, SeenInv
    <3> QED BY <1>1, <3>1 DEF SeenBy
  <2> QED BY <1>1, <1>4, <2>1, <2>2 DEF SeenInv
<1>8. StreamInv'
  <2> SUFFICES ASSUME NEW client \in Clients, Bound(client) PROVE Streams(client, link[client])'
    BY <1>4 DEF StreamInv
  <2>1. PICK l \in Conns : l = link[client]
    BY LinkTyped DEF Bound
  <2>2. Streams(client, l) /\ link'[client] = l
    BY <1>1, <2>1 DEF ReplicaInv, StreamInv
  <2>3. Follows(client, l)'
    <3>1. \A c \in subs[l] : c \in subs'[l]
      BY <1>3
    <3> QED BY <1>1, <1>5, <2>2, <3>1 DEF Streams, Follows
  <2>4. CASE l # k
    <3>1. ASSUME NEW r \in Pending(l)'
          PROVE  Delivers(client, subs[l], r)'
      <4>1. r \in Pending(l) /\ Delivers(client, subs[l], r)
        BY <1>3, <2>2, <2>4 DEF Streams
      <4>2. \A c \in subs[l] : c \in subs'[l]
        BY <1>3
      <4>3. Incoming(client)' = Incoming(client)
        BY <1>1 DEF Incoming
      <4> QED BY <1>1, <1>2, <1>3, <1>4, <2>1, <2>2, <4>1, <4>2, <4>3, AlikeSelf, CalmDelivers
    <3> QED BY <2>2, <2>3, <3>1 DEF Streams
  <2>5. CASE l = k
    <3>1. \A r \in Pending(k)' : r = new
      BY <1>3, <2>1, <2>5 DEF Owed
    <3>2. Delivers(client, newSub, new)
      BY <2>1, <2>5
    <3>3. Delivers(client, subs[k], new)'
      <4>1. Incoming(client)' = Incoming(client)
        BY <1>1 DEF Incoming
      <4>2. ASSUME NEW s \in new.snaps, CurrentSnap(s)'
            PROVE  SnapFollows(client, subs[k], s)'
        <5>1. CurrentSnap(s)
          BY <1>1, <4>2 DEF CurrentSnap, Live
        <5>2. SnapFollows(client, newSub, s)
          BY <3>2, <5>1 DEF Delivers
        <5> QED BY <1>1, <1>3, <4>1, <5>2, SoundLater DEF SnapFollows
      <4>3. ReplayFollows(client, newSub, new) => ReplayFollows(client, subs[k], new)'
        BY <1>1, <1>3, <1>5, <4>1 DEF ReplayFollows
      <4>4. Gathers(client, newSub, new) => Gathers(client, subs[k], new)'
        BY <1>1, <1>3, <1>5 DEF Gathers
      <4> QED BY <1>1, <3>2, <4>2, <4>3, <4>4 DEF Delivers
    <3> QED BY <2>2, <2>3, <2>5, <3>1, <3>3 DEF Streams
  <2> QED BY <2>4, <2>5
<1> QED BY <1>6, <1>7, <1>8 DEF ReplicaInv

\* A handler that goes on takes snapshots of now, or replays from the buffer.
LEMMA ResumeReplica ==
    ASSUME DataInv, DataInv', HostInv, SocketInv, KeptInv, ReplicaInv, NEW k \in Conns, ResumeHandler(k)
    PROVE  ReplicaInv'
<1> DEFINE req == request[k]
<1>1. /\ req \in Request /\ req.kind # "none" /\ req.phase = "resumed" /\ req.todo # <<>>
      /\ Proper(req, serverSeq + 1, incs) /\ req \in Pending(k) /\ waiting' = waiting
  BY ResumeDoes
<1>2. PICK new \in Request, newSub \in SUBSET Channels :
                 /\ Handled(k, new, newSub)
                 /\ \/ req.kind = "subscribe" /\ new = Refused(req) /\ newSub = subs[k]
                    \/ Live(Head(req.todo)) /\ Advanced(req, subs[k], new, newSub)
                    \/ ~Live(Head(req.todo)) /\ Advanced(Skipped(req), subs[k], new, newSub)
  BY ResumeDoes
<1>3. subs[k] \in SUBSET Channels
  BY DEF DataInv, TypeInv
<1>4. \A e \in req.actions : e \in Around
  BY <1>1, AroundHas
<1>5. subs[k] \subseteq newSub /\ \A e \in new.actions : e \in Around
  <2>1. CASE req.kind = "subscribe" /\ new = Refused(req) /\ newSub = subs[k]
    BY <1>1, <1>4, <2>1, RefusedIs
  <2>2. CASE Advanced(req, subs[k], new, newSub)
    <3>1. subs[k] \subseteq newSub
      BY <2>2 DEF Advanced
    <3> QED BY <1>1, <1>3, <1>4, <2>2, <3>1, AdvancedProper DEF Proper
  <2>3. CASE Advanced(Skipped(req), subs[k], new, newSub)
    <3>1. subs[k] \subseteq newSub
      BY <2>3 DEF Advanced
    <3>2. /\ Skipped(req) \in Request /\ Skipped(req).kind = req.kind /\ Skipped(req).snaps = req.snaps
          /\ Skipped(req).actions = req.actions /\ Skipped(req).current = req.current
      BY <1>1, SkippedIs
    <3>3. Below(Skipped(req), serverSeq + 1)
      BY <1>1, <3>2 DEF Proper, Below
    <3> QED BY <1>1, <1>3, <1>4, <2>3, <3>1, <3>2, <3>3, AdvancedProper DEF Proper
  <2> QED BY <1>2, <2>1, <2>2, <2>3
<1>6. ASSUME NEW client \in Clients, link[client] = k
      PROVE  Bound(client) /\ Answers(wire[k]) = {} /\ Delivers(client, newSub, new)
  <2>1. Bound(client) /\ Answers(wire[k]) = {}
    BY <1>1, <1>6, PluggedHas DEF Bound
  <2>2. Delivers(client, subs[k], req)
    BY <1>1, <1>6, <2>1 DEF ReplicaInv, StreamInv, Streams
  <2>3. Collecting(client, subs[k], req)
    BY <1>1, <2>2 DEF Collecting, Delivers
  <2>4. CASE req.kind = "subscribe" /\ new = Refused(req) /\ newSub = subs[k]
    <3>1. new.kind = "subscribe" /\ new.snaps = req.snaps /\ Listed(new.todo) = {}
      <4>1. new.todo = <<>>
        BY <1>1, <2>4 DEF Refused
      <4> QED BY <1>1, <2>4, <4>1, RefusedIs DEF Listed
    <3> QED BY <2>1, <2>2, <2>4, <3>1 DEF Delivers, Reported
  <2>5. CASE Advanced(req, subs[k], new, newSub)
    BY <1>1, <1>3, <2>1, <2>3, <2>5, AdvancedDelivers DEF ReplicaInv
  <2>6. CASE ~Live(Head(req.todo)) /\ Advanced(Skipped(req), subs[k], new, newSub)
    <3>1. Skipped(req) \in Request /\ Skipped(req).kind # "none"
      BY <1>1, SkippedIs
    <3>2. Collecting(client, subs[k], Skipped(req))
      BY <1>1, <2>3, <2>6, SkippedCollects
    <3> QED BY <1>3, <2>1, <2>6, <3>1, <3>2, AdvancedDelivers DEF ReplicaInv
  <2> QED BY <1>2, <2>4, <2>5, <2>6
<1> QED BY <1>1, <1>2, <1>5, <1>6, RequestReplica

\* A snapshot that is taken at once is one of now.
LEMMA SubscribeReplica ==
    ASSUME DataInv, DataInv', HostInv, SocketInv, KeptInv, ReplicaInv, NEW client \in Clients, NEW c \in Channels,
           Subscribe(client, c)
    PROVE  ReplicaInv'
<1>0. PICK k \in Conns : k = link[client]
  BY LinkTyped DEF Subscribe, Idle
<1>1. /\ k # NoConn /\ waiting[client] = "none" /\ clientOf[k] = client /\ ~view[client][c].held
      /\ waiting' = [waiting EXCEPT ![client] = "subscribe"]
      /\ \E new \in Request, newSub \in SUBSET Channels :
            Handled(k, new, newSub) /\ Advanced(Asked(c), subs[k], new, newSub)
  BY <1>0, SubscribeDoes
<1>2. PICK new \in Request, newSub \in SUBSET Channels : Handled(k, new, newSub) /\ Advanced(Asked(c), subs[k], new, newSub)
  BY <1>1
<1>3. TypeInv /\ subs[k] \in SUBSET Channels /\ waiting \in [Clients -> {"none", "handshake", "subscribe"}]
  BY DEF DataInv, TypeInv
<1>4. /\ Asked(c) \in Request /\ Asked(c).kind = "subscribe"
      /\ Asked(c).snaps = {} /\ Asked(c).actions = {} /\ Asked(c).current = 0
      /\ Listed(Asked(c).todo) = {c}
  BY AskedIs
<1>5. subs[k] \subseteq newSub /\ new.actions = {}
  BY <1>2, <1>4 DEF Advanced
<1>6. Bound(client) /\ Answers(wire[k]) = {} /\ \A other \in Clients : link[other] = k => other = client
  BY <1>0, <1>1, PluggedHas DEF Bound, Pending, Owed
<1>7. Collecting(client, subs[k], Asked(c))
  BY <1>1, <1>4 DEF Collecting, Reported
<1>8. Delivers(client, newSub, new)
  BY <1>2, <1>3, <1>4, <1>7, AdvancedDelivers DEF ReplicaInv
<1>9. \A other \in Clients : (waiting'[other] = "handshake") <=> (waiting[other] = "handshake")
  BY <1>1, <1>3
<1> QED BY <1>2, <1>5, <1>6, <1>8, <1>9, RequestReplica

\* A reconnect starts from what the client has seen of this process: here its first
\* reply must have arrived, for the host takes a known client's number at its word.
LEMMA HandshakeReplica ==
    ASSUME DataInv, DataInv', HostInv, SocketInv, KeptInv, ReplicaInv, FirstReplyArrives,
           NEW client \in Clients, NEW req \in Request, Handshake(client, req), Opening(client, req)
    PROVE  ReplicaInv'
<1>0. PICK k \in Conns : k = link[client]
  BY LinkTyped DEF Handshake
<1>1. PICK new \in Request, newSub \in SUBSET Channels : Shook(client, k, req, new, newSub)
  BY <1>0, HandshakeDoes
<1> DEFINE previous == Previous(client, k)
<1>2. /\ k # NoConn /\ clientOf[k] = NoClient /\ k \in attached /\ k \notin previous
      /\ clientOf' = [clientOf EXCEPT ![k] = client]
      /\ waiting' = [waiting EXCEPT ![client] = "handshake"]
      /\ UNCHANGED <<serverSeq, buffer, store, process, link, lastSeen, view, early, seenIn>>
      /\ subs' = [subs EXCEPT ![k] = newSub]
      /\ Advanced(req, {}, new, newSub)
      /\ Pending(k)' = Owed(wire[k], new)
      /\ \A l \in Conns : IF l \in previous THEN wire'[l] = <<>> ELSE wire'[l] = wire[l]
      /\ \A l \in Conns : l # k => Pending(l)' \subseteq Pending(l)
      /\ \A e \in Around' : e \in Around \cup new.actions
  BY <1>1 DEF Shook
<1>3. /\ TypeInv /\ TypeInv' /\ clientOf \in [Conns -> Clients \cup {NoClient}]
      /\ \A p \in previous : clientOf[p] = client /\ p # k
  BY DEF DataInv, HostInv, ConnInv, ConnTypes, Previous
<1> HIDE DEF previous
<1>4. /\ clientOf'[k] = client /\ (\A l \in Conns : l # k => clientOf'[l] = clientOf[l] /\ subs'[l] = subs[l])
      /\ subs'[k] = newSub
      /\ waiting'[client] = "handshake" /\ (\A o \in Clients : o # client => waiting'[o] = waiting[o])
  BY <1>2, <1>3 DEF TypeInv
<1>5. Untouched
  BY <1>2 DEF Untouched, Live
<1>6. waiting[client] = "none" /\ wire[k] = <<>> /\ wire'[k] = <<>>
  BY <1>0, <1>2, PluggedHas
<1>7. \A e \in new.actions : e \in Around
  <2>1. Below(req, serverSeq + 1) /\ req.snaps = {} /\ req.actions = {} /\ req.kind # "none"
    BY <1>3 DEF Opening, Below, TypeInv
  <2> QED BY <1>2, <2>1, AdvancedProper
<1>8. \A e \in Around' : e \in Around
  BY <1>2, <1>7
<1>9. Collecting(client, {}, req)
  <2>1. req.kind = "reconnect" => Gathers(client, {}, req)
    <3> SUFFICES ASSUME req.kind = "reconnect" PROVE Gathers(client, {}, req)
      OBVIOUS
    <3>1. req.isKnown => seenIn[client] = process
      BY <1>6 DEF Opening, FirstReplyArrives
    <3>2. \A c \in Channels : Current(client, c) => c \in Listed(req.todo) /\ c \notin req.missing
      BY DEF Opening, Current
    <3> QED BY <3>1, <3>2 DEF Gathers, Opening
  <2> QED BY <2>1 DEF Collecting, Opening
<1>10. Delivers(client, newSub, new)
  BY <1>2, <1>9, AdvancedDelivers DEF ReplicaInv, Opening
<1>11. Delivers(client, subs[k], new)'
  <2>1. Incoming(client)' = Incoming(client)
    BY <1>0, <1>2, <1>6 DEF Incoming
  <2>2. \A c \in Channels : Current(client, c)' = Current(client, c)
    BY <1>2 DEF Current, Live
  <2>3. ASSUME NEW s \in new.snaps, CurrentSnap(s)'
        PROVE  SnapFollows(client, subs[k], s)'
    <3>1. CurrentSnap(s)
      BY <1>2, <2>3 DEF CurrentSnap, Live
    <3>2. SnapFollows(client, newSub, s)
      BY <1>10, <3>1 DEF Delivers
    <3> QED BY <1>2, <1>4, <1>8, <2>1, <3>2, SoundLater DEF SnapFollows
  <2>4. ReplayFollows(client, newSub, new) => ReplayFollows(client, subs[k], new)'
    BY <1>2, <1>4, <2>1, <2>2 DEF ReplayFollows
  <2>5. Gathers(client, newSub, new) => Gathers(client, subs[k], new)'
    BY <1>2, <1>4, <2>2 DEF Gathers
  <2> QED BY <1>2, <1>10, <2>3, <2>4, <2>5 DEF Delivers
<1>12. ASSUME NEW other \in Clients, other # client, Bound(other)'
       PROVE  /\ Bound(other) /\ link'[other] = link[other]
              /\ \E l \in Conns : l = link[other] /\ l # k /\ wire'[l] = wire[l]
  <2>1. PICK l \in Conns : l = link[other] /\ l # NoConn
    BY <1>2, <1>12, LinkTyped DEF Bound
  <2>2. l # k
    BY <1>0, <1>2, <1>12, <2>1, PluggedHas
  <2>3. Bound(other)
    BY <1>2, <1>4, <1>12, <2>1, <2>2 DEF Bound
  <2>4. l \notin previous
    BY <1>3, <1>12, <2>1, <2>3 DEF Bound
  <2> QED BY <1>2, <2>1, <2>2, <2>3, <2>4
<1>13. ViewInv'
  <2> SUFFICES ASSUME NEW other \in Clients, NEW c \in Channels, Current(other, c)' PROVE Tracks(other, c)'
    BY DEF ViewInv
  <2>1. Current(other, c) => Tracks(other, c)
    BY DEF ReplicaInv, ViewInv
  <2> QED BY <1>2, <1>5, <1>8, <2>1, CalmTracks
<1>14. SeenInv'
  <2>1. \A other \in Clients : seenIn[other] = process => lastSeen[other] <= serverSeq
    BY DEF ReplicaInv, SeenInv
  <2>2. ASSUME NEW other \in Clients, Bound(other)'
        PROVE  SeenBy(other, link[other])'
    <3>1. CASE other = client
      BY <1>0, <1>2, <1>4, <1>6, <3>1, NothingOn DEF SeenBy
    <3>2. CASE other # client
      <4>1. PICK l \in Conns : l = link[other] /\ l # k /\ wire'[l] = wire[l]
        BY <1>12, <2>2, <3>2
      <4>2. SeenBy(other, l)
        BY <1>12, <2>2, <3>2, <4>1 DEF ReplicaInv, SeenInv
      <4>3. SeenBy(other, l)'
        BY <1>2, <1>4, <3>2, <4>1, <4>2 DEF SeenBy
      <4> QED BY <1>2, <4>1, <4>3
    <3> QED BY <3>1, <3>2
  <2> QED BY <1>2, <2>1, <2>2 DEF SeenInv
<1>15. StreamInv'
  <2> SUFFICES ASSUME NEW other \in Clients, Bound(other)' PROVE Streams(other, link[other])'
    BY DEF StreamInv
  <2>1. CASE other = client
    <3>1. \A r \in Pending(k)' : r = new
      BY <1>2, <1>6, NothingOn DEF Owed
    <3>2. Streams(client, k)'
      BY <1>4, <1>11, <3>1 DEF Streams, Follows
    <3> QED BY <1>0, <1>2, <2>1, <3>2
  <2>2. CASE other # client
    <3>1. PICK l \in Conns : l = link[other] /\ l # k /\ wire'[l] = wire[l]
      BY <1>12, <2>2
    <3>2. Streams(other, l)
      BY <1>12, <2>2, <3>1 DEF ReplicaInv, StreamInv
    <3>3. \A q \in Pending(l)' : \E r \in Pending(l) : Alike(q, r)
      BY <1>2, <3>1, AlikeSelf
    <3>4. Streams(other, l)'
      BY <1>2, <1>3, <1>4, <1>5, <1>8, <2>2, <3>1, <3>2, <3>3, CalmStreams
    <3> QED BY <1>2, <3>1, <3>4
  <2> QED BY <2>1, <2>2
<1> QED BY <1>13, <1>14, <1>15 DEF ReplicaInv

-----------------------------------------------------------------------------
(* ReplicaInv: a client takes a frame *)

\* A replica without a hole that applies the envelopes X, of which it misses
\* none, is a replica without a hole, and what it still lacks is in Y.
LEMMA CatchUp ==
    ASSUME NEW v \in View, v.held, NEW c \in Channels, NEW S \in SUBSET Nat,
           NEW X \in SUBSET Envelope, NEW Y \in SUBSET Envelope, NEW bound \in Nat,
           \A e \in X : e.serverSeq <= bound,
           Before(X, Y), PrefixOf(S, v.state, v.upto), Complete(S, v.upto, c, X \cup Y),
           \A e \in X : e.channel = c /\ e.accepted /\ e.serverSeq > v.upto => e.serverSeq \in S
    PROVE  LET w == ApplyTo(v, c, X) IN
           /\ w \in View /\ w.held = v.held /\ w.inc = v.inc
           /\ v.upto <= w.upto
           /\ w.upto = v.upto \/ \E e \in X : w.upto = e.serverSeq
           /\ PrefixOf(S, w.state, w.upto)
           /\ Complete(S, w.upto, c, Y)
<1> DEFINE w == ApplyTo(v, c, X)
<1>1. /\ w \in View /\ w.held = v.held /\ w.inc = v.inc
      /\ v.upto <= w.upto
      /\ w.upto = v.upto \/ \E e \in X : w.upto = e.serverSeq
      /\ v.held => /\ \A e \in X : e.channel = c => e.serverSeq <= w.upto
                   /\ w.state = v.state \cup {e.serverSeq : e \in {f \in X : f.channel = c /\ f.serverSeq > v.upto /\ f.accepted}}
  BY ApplyDoes
<1> HIDE DEF w
<1>2. /\ v.upto \in Nat /\ w.upto \in Nat /\ \A e \in X \cup Y : e.serverSeq \in Nat
      /\ \A n \in S : n \in Nat
  BY <1>1 DEF View, Envelope
<1>3. ASSUME NEW n \in S, n > w.upto
      PROVE  \E e \in Y : e.channel = c /\ e.accepted /\ e.serverSeq = n
  <2>1. n > v.upto
    BY <1>1, <1>2, <1>3
  <2>2. PICK e \in X \cup Y : e.channel = c /\ e.accepted /\ e.serverSeq = n
    BY <2>1 DEF Complete
  <2>3. e \notin X
    BY <1>1, <1>2, <1>3, <2>2
  <2> QED BY <2>2, <2>3
<1>4. ASSUME NEW n \in S, n <= w.upto
      PROVE  n \in w.state
  <2>1. CASE n <= v.upto
    BY <1>1, <2>1 DEF PrefixOf
  <2>2. CASE n > v.upto
    <3>1. PICK e \in X \cup Y : e.channel = c /\ e.accepted /\ e.serverSeq = n
      BY <2>2 DEF Complete
    <3>2. CASE e \in X
      BY <1>1, <2>2, <3>1, <3>2
    <3>3. CASE e \in Y
      <4>1. PICK x \in X : w.upto = x.serverSeq
        BY <1>1, <1>2, <1>4, <2>2
      <4>2. x.serverSeq < e.serverSeq
        BY <3>3 DEF Before
      <4> QED BY <1>2, <1>4, <3>1, <4>1, <4>2
    <3> QED BY <3>1, <3>2, <3>3
  <2> QED BY <1>2, <2>1, <2>2
<1>5. ASSUME NEW n \in w.state
      PROVE  n \in S /\ n <= w.upto
  <2>1. CASE n \in v.state
    <3>1. n \in S /\ n <= v.upto
      BY <2>1 DEF PrefixOf
    <3> QED BY <1>1, <1>2, <3>1
  <2>2. CASE n \notin v.state
    <3>1. PICK e \in X : e.channel = c /\ e.serverSeq > v.upto /\ e.accepted /\ n = e.serverSeq
      BY <1>1, <2>2
    <3> QED BY <1>1, <3>1
  <2> QED BY <2>1, <2>2
<1>6. PrefixOf(S, w.state, w.upto)
  BY <1>4, <1>5 DEF PrefixOf
<1>7. Complete(S, w.upto, c, Y)
  BY <1>3 DEF Complete
<1> QED BY <1>1, <1>6, <1>7 DEF w

\* What accounts for everything up to a number does so up to a later one.
LEMMA SoundAbove ==
    ASSUME TypeInv, NEW S, NEW u \in Nat, NEW w \in Nat, u <= w, NEW c, Sound(S, u, c)
    PROVE  Sound(S, w, c)
<1>1. \A e \in Around : e.serverSeq \in Nat
  BY AroundTyped
<1> QED BY <1>1 DEF Sound

\* What is on the way to a client is around.
LEMMA IncomingAround ==
    ASSUME DataInv, NEW client \in Clients, NEW k \in Conns, k = link[client]
    PROVE  /\ Incoming(client) = early[client] \cup Sent(wire[k])
           /\ Incoming(client) \in SUBSET Around /\ early[client] \in SUBSET Around /\ Sent(wire[k]) \in SUBSET Around
           /\ \A X \in SUBSET Around : X \in SUBSET Envelope /\ \A e \in X : e.serverSeq <= serverSeq /\ e.serverSeq \in Nat
           /\ serverSeq \in Nat
<1>1. TypeInv
  BY DEF DataInv
<1>2. \A e \in Around : e \in Envelope /\ e.serverSeq <= serverSeq /\ e.serverSeq \in Nat
  BY <1>1, AroundTyped DEF DataInv
<1>3. early[client] \subseteq Around /\ Sent(wire[k]) \subseteq Around
  BY AroundHas
<1> QED BY <1>1, <1>2, <1>3 DEF Incoming, TypeInv

\* A view with the state v, and what it still lacks among E.
Caught(v, c, sub, E) ==
    LET S == store[c].state IN
    /\ c \in sub /\ PrefixOf(S, v.state, v.upto) /\ v.upto <= serverSeq
    /\ Complete(S, v.upto, c, E) /\ Sound(S, v.upto, c)

\* Applying some of what is around keeps the promise for the rest.
LEMMA CaughtUp ==
    ASSUME DataInv, KeptInv, NEW v \in View, v.held, NEW c \in Channels, NEW sub,
           NEW X \in SUBSET Around, NEW Y \in SUBSET Around, Before(X, Y), Caught(v, c, sub, X \cup Y)
    PROVE  LET w == ApplyTo(v, c, X) IN
           w \in View /\ w.held /\ w.inc = v.inc /\ v.upto <= w.upto /\ Caught(w, c, sub, Y)
<1> DEFINE w == ApplyTo(v, c, X)
           S == store[c].state
<1>1. TypeInv /\ serverSeq \in Nat
  BY DEF DataInv, TypeInv
<1>2. /\ X \in SUBSET Envelope /\ Y \in SUBSET Envelope
      /\ \A e \in X : e.serverSeq <= serverSeq /\ e.serverSeq \in Nat
  BY <1>1, AroundTyped DEF DataInv
<1>3. S \in SUBSET Nat
  BY <1>1 DEF KeptInv, StoreInv
<1>4. /\ c \in sub /\ PrefixOf(S, v.state, v.upto) /\ v.upto <= serverSeq
      /\ Complete(S, v.upto, c, X \cup Y) /\ Sound(S, v.upto, c)
  BY DEF Caught
<1>5. \A e \in X : e.channel = c /\ e.accepted /\ e.serverSeq > v.upto => e.serverSeq \in S
  BY <1>4 DEF Sound
<1> HIDE DEF S, w
<1>6. /\ w \in View /\ w.held = v.held /\ w.inc = v.inc
      /\ v.upto <= w.upto
      /\ w.upto = v.upto \/ \E e \in X : w.upto = e.serverSeq
      /\ PrefixOf(S, w.state, w.upto)
      /\ Complete(S, w.upto, c, Y)
  BY <1>1, <1>2, <1>3, <1>4, <1>5, CatchUp DEF w
<1>7. w.upto <= serverSeq /\ v.upto \in Nat /\ w.upto \in Nat
  BY <1>2, <1>4, <1>6 DEF View
<1>8. Sound(S, w.upto, c)
  BY <1>1, <1>4, <1>6, <1>7, SoundAbove
<1>9. Caught(w, c, sub, Y)
  BY <1>4, <1>6, <1>7, <1>8 DEF Caught, S
<1> QED BY <1>6, <1>9 DEF w

\* What a reply brings, before the actions that were set aside.
LEMMA BaseCaught ==
    ASSUME DataInv, KeptInv, ReplicaInv, NEW client \in Clients, NEW k \in Conns, k = link[client], Bound(client),
           NEW r \in Pending(k), r \in Request, r.phase = "reply", Answered(client, k, subs[k], r),
           waiting[client] = KindOf(r), NEW c \in Channels,
           Live(c), Base(client, r)[c].held, Base(client, r)[c].inc = store[c].inc
    PROVE  Caught(Base(client, r)[c], c, subs[k], Incoming(client))
<1> DEFINE v == Base(client, r)[c]
           S == store[c].state
<1>1. TypeInv /\ Proper(r, serverSeq + 1, incs) /\ r.actions \in SUBSET Around
      /\ r.snaps \in SUBSET Snapshot /\ r.kind \in {"none", "initialize", "reconnect", "subscribe"} /\ r.kind # "none"
  BY AroundHas, RequestFields DEF DataInv, Proper
<1>2. /\ ~NoView.held /\ NoView \in View /\ view[client][c] \in View /\ v \in View
      /\ r.kind = "subscribe" => v = Adopt(view[client][c], c, r.snaps)
      /\ r.kind # "subscribe" /\ r.mode = "snapshot" => v = Adopt(NoView, c, r.snaps)
      /\ r.kind # "subscribe" /\ r.mode # "snapshot" =>
            /\ c \in r.missing => v = NoView
            /\ c \notin r.missing => v = ApplyTo(view[client][c], c, r.actions)
  BY <1>1, BaseIs
<1>3. /\ Incoming(client) = early[client] \cup Sent(wire[k]) /\ Incoming(client) \in SUBSET Around
      /\ \A X \in SUBSET Around : X \in SUBSET Envelope /\ \A e \in X : e.serverSeq <= serverSeq /\ e.serverSeq \in Nat
      /\ serverSeq \in Nat
  BY IncomingAround
<1>4. Delivers(client, subs[k], r) /\ Follows(client, k)
  BY DEF ReplicaInv, StreamInv, Streams
<1> SUFFICES Caught(v, c, subs[k], Incoming(client))
  OBVIOUS
<1> HIDE DEF v
<1>5. v.held /\ v.inc = store[c].inc
  BY DEF v
<1>6. ASSUME NEW s \in r.snaps, s.channel = c, v.inc = s.inc, v.state = s.state, v.upto = s.fromSeq
      PROVE  Caught(v, c, subs[k], Incoming(client))
  <2>1. CurrentSnap(s)
    BY <1>5, <1>6 DEF CurrentSnap
  <2>2. SnapFollows(client, subs[k], s)
    BY <1>4, <2>1 DEF Delivers
  <2>3. s.fromSeq <= serverSeq
    BY <1>1, <1>3, <1>6 DEF Proper, Below, Snapshot
  <2> QED BY <1>6, <2>2, <2>3 DEF SnapFollows, Caught
<1>7. CASE r.kind = "subscribe"
  <2>1. CASE \E s \in r.snaps : s.channel = c /\ v.inc = s.inc /\ v.state = s.state /\ v.upto = s.fromSeq
    BY <1>6, <2>1
  <2>2. CASE v = view[client][c]
    <3>1. Current(client, c)
      BY <1>5, <2>2 DEF Current
    <3>2. waiting[client] # "handshake"
      BY <1>7 DEF KindOf
    <3>3. c \in subs[k] /\ Complete(S, v.upto, c, Sent(wire[k]))
      BY <1>4, <2>2, <3>1, <3>2 DEF Follows
    <3>4. Complete(S, v.upto, c, Incoming(client))
      BY <1>3, <3>3 DEF Complete
    <3>5. Tracks(client, c)
      BY <3>1 DEF ReplicaInv, ViewInv
    <3> QED BY <2>2, <3>3, <3>4, <3>5 DEF Tracks, Caught
  <2> QED BY <1>1, <1>2, <1>7, <2>1, <2>2, AdoptIs
<1>8. CASE r.kind # "subscribe" /\ r.mode = "snapshot"
  <2>1. \E s \in r.snaps : s.channel = c /\ v.inc = s.inc /\ v.state = s.state /\ v.upto = s.fromSeq
    BY <1>1, <1>2, <1>5, <1>8, AdoptIs
  <2> QED BY <1>6, <2>1
<1>9. CASE r.kind # "subscribe" /\ r.mode # "snapshot"
  <2>1. r.kind = "reconnect" /\ r.mode = "replay"
    BY <1>1, <1>9 DEF Answered
  <2>2. ReplayFollows(client, subs[k], r)
    BY <1>4, <2>1 DEF Delivers
  <2>3. c \notin r.missing /\ v = ApplyTo(view[client][c], c, r.actions)
    BY <1>2, <1>5, <1>9
  <2>4. view[client][c].held /\ view[client][c].inc = v.inc
    BY <1>1, <1>2, <1>3, <1>5, <2>3, ApplyDoes
  <2>5. Current(client, c)
    BY <1>5, <2>4 DEF Current
  <2> DEFINE Y == Later(Incoming(client), r.actions)
  <2>6. Y \in SUBSET Around /\ Y \subseteq Incoming(client) /\ Before(r.actions, Y)
    BY <1>3 DEF Later, Before
  <2>7. c \in subs[k] /\ Complete(S, view[client][c].upto, c, r.actions \cup Y)
    BY <2>2, <2>5 DEF ReplayFollows
  <2> HIDE DEF Y
  <2>8. Tracks(client, c)
    BY <2>5 DEF ReplicaInv, ViewInv
  <2>9. Caught(view[client][c], c, subs[k], r.actions \cup Y)
    BY <2>7, <2>8 DEF Tracks, Caught
  <2>10. Caught(v, c, subs[k], Y)
    BY <1>1, <1>2, <2>3, <2>4, <2>6, <2>9, CaughtUp
  <2> QED BY <2>6, <2>10 DEF Caught, Complete
<1> QED BY <1>7, <1>8, <1>9

\* What a client holds after a reply and the actions that were set aside.
LEMMA ReplyCaught ==
    ASSUME DataInv, HostInv, SocketInv, KeptInv, HeldInv, ReplicaInv, NEW client \in Clients, NEW k \in Conns, k = link[client],
           Bound(client), NEW r \in Request, TookReply(client, k, r), store' = store, NEW c \in Channels, Current(client, c)'
    PROVE  Caught(view'[client][c], c, subs[k], Sent(wire[k]))
<1> DEFINE v == Base(client, r)[c]
<1>1. r \in Pending(k) /\ r.phase = "reply" /\ clientOf[k] = client /\ TypeInv
  BY DEF TookReply, Pending, Owed, DataInv, Bound
<1>2. Answered(client, k, subs[k], r) /\ waiting[client] = KindOf(r) /\ Before(early[client], Sent(wire[k]))
  BY <1>1, PluggedHas DEF HeldInv, Informed
<1>3. /\ Incoming(client) = early[client] \cup Sent(wire[k])
      /\ early[client] \in SUBSET Around /\ Sent(wire[k]) \in SUBSET Around
      /\ \A X \in SUBSET Around : X \in SUBSET Envelope /\ \A e \in X : e.serverSeq <= serverSeq /\ e.serverSeq \in Nat
      /\ serverSeq \in Nat
  BY IncomingAround
<1>4. v \in View /\ view'[client][c] = ApplyTo(v, c, early[client])
  <2>1. r.actions \subseteq Around
    BY <1>1, AroundHas
  <2> QED BY <2>1, BaseIs DEF TookReply
<1> HIDE DEF v
<1>5. view'[client][c].held = v.held /\ view'[client][c].inc = v.inc
  BY <1>3, <1>4, ApplyDoes
<1>6. v.held /\ v.inc = store[c].inc /\ Live(c)
  BY <1>5 DEF Current, Live
<1>7. Caught(v, c, subs[k], early[client] \cup Sent(wire[k]))
  <2>1. Caught(v, c, subs[k], Incoming(client))
    BY <1>1, <1>2, <1>6, BaseCaught DEF v
  <2> QED BY <1>3, <2>1
<1> QED BY <1>2, <1>3, <1>4, <1>6, <1>7, CaughtUp

\* After a reply the client has processed less than what follows on the wire.
LEMMA ReplySeen ==
    ASSUME DataInv, HostInv, SocketInv, ReplicaInv, NEW client \in Clients, NEW k \in Conns, k = link[client],
           Bound(client), NEW r \in Request, TookReply(client, k, r), wire'[k] = Tail(wire[k])
    PROVE  /\ seenIn'[client] = process /\ lastSeen'[client] <= serverSeq /\ lastSeen'[client] \in Nat
           /\ \A e \in Sent(wire[k]) : lastSeen'[client] < e.serverSeq
<1>1. r \in Pending(k) /\ r.phase = "reply" /\ clientOf[k] = client /\ TypeInv /\ wire[k] # <<>> /\ wire[k] \in Seq(Frame)
  BY DEF TookReply, Pending, Owed, DataInv, Bound, TypeInv
<1>2. waiting[client] = KindOf(r) /\ Before(early[client], Sent(wire[k])) /\ Ordered(wire[k])
  BY <1>1, PluggedHas
<1>3. Proper(r, serverSeq + 1, incs) /\ Below(r, serverSeq + 1)
  BY <1>1 DEF DataInv, Proper
<1>4. /\ early[client] \in SUBSET Around /\ Sent(wire[k]) \in SUBSET Around
      /\ \A X \in SUBSET Around : X \in SUBSET Envelope /\ \A e \in X : e.serverSeq <= serverSeq /\ e.serverSeq \in Nat
      /\ serverSeq \in Nat
  BY IncomingAround
<1>5. SeenBy(client, k) /\ lastSeen[client] \in Nat /\ (seenIn[client] = process => lastSeen[client] <= serverSeq)
  BY <1>1 DEF ReplicaInv, SeenInv, TypeInv
<1>6. r.kind = "subscribe" \/ (r.kind = "reconnect" /\ r.mode = "replay") => seenIn[client] = process
  <2>1. r.kind = "subscribe" => seenIn[client] = process
    BY <1>2, <1>5 DEF SeenBy, KindOf
  <2>2. r.kind = "reconnect" /\ r.mode = "replay" => seenIn[client] = process
    BY <1>1 DEF ReplicaInv, StreamInv, Streams, Delivers, ReplayFollows
  <2> QED BY <2>1, <2>2
<1>7. seenIn'[client] = process /\ lastSeen'[client] = SeenAfter(client, r)
  BY <1>6 DEF TookReply
<1>8. /\ SeenAfter(client, r) \in Nat
      /\ \A n \in Nat :
            /\ 0 < n /\ Below(r, n) /\ \A e \in early[client] : e.serverSeq < n
            /\ (r.kind = "subscribe" \/ (r.kind = "reconnect" /\ r.mode = "replay")) => lastSeen[client] < n
            => SeenAfter(client, r) < n
  BY <1>1, <1>3, SeenAfterIs
<1>9. SeenAfter(client, r) <= serverSeq
  <2>1. 0 < serverSeq + 1 /\ serverSeq + 1 \in Nat /\ \A e \in early[client] : e.serverSeq < serverSeq + 1
    BY <1>4
  <2>2. (r.kind = "subscribe" \/ (r.kind = "reconnect" /\ r.mode = "replay")) => lastSeen[client] < serverSeq + 1
    BY <1>4, <1>5, <1>6
  <2>3. SeenAfter(client, r) < serverSeq + 1
    BY <1>3, <1>8, <2>1, <2>2
  <2> QED BY <1>4, <1>8, <2>3
<1>10. ASSUME NEW e \in Sent(wire[k])
       PROVE  SeenAfter(client, r) < e.serverSeq
  <2>1. Below(r, e.serverSeq)
    <3>1. Head(wire[k]).type = "reply" /\ r = Head(wire[k]).reply /\ Sent(Tail(wire[k])) = Sent(wire[k])
      BY DEF TookReply
    <3> QED BY <1>1, <1>2, <3>1, OrderedTail
  <2>2. e.serverSeq \in Nat /\ r.current \in Nat
    BY <1>4, RequestFields
  <2>3. 0 < e.serverSeq
    BY <2>1, <2>2 DEF Below
  <2>4. \A f \in early[client] : f.serverSeq < e.serverSeq
    BY <1>2 DEF Before
  <2>5. (r.kind = "subscribe" \/ (r.kind = "reconnect" /\ r.mode = "replay")) => lastSeen[client] < e.serverSeq
    BY <1>5, <1>6 DEF SeenBy
  <2> QED BY <1>8, <2>1, <2>2, <2>3, <2>4, <2>5
<1> QED BY <1>7, <1>8, <1>9, <1>10

\* A client that is past its handshake tracks what it has caught.
LEMMA CaughtTracks ==
    ASSUME DataInv, KeptInv, NEW client \in Clients, NEW k \in Conns, NEW c \in Channels, NEW E \in SUBSET Envelope,
           Caught(view'[client][c], c, subs[k], E), UNCHANGED <<serverSeq, store, process>>,
           seenIn'[client] = process, lastSeen'[client] \in Nat, \A e \in E : lastSeen'[client] < e.serverSeq,
           \A e \in Around' : e \in Around
    PROVE  Tracks(client, c)'
<1>1. \A n \in store[c].state : n > view'[client][c].upto => n > lastSeen'[client]
  <2>1. \A n \in store[c].state : n > view'[client][c].upto => \E e \in E : e.serverSeq = n
    BY DEF Caught, Complete
  <2>2. \A n \in store[c].state : n \in Nat
    BY DEF KeptInv, StoreInv, DataInv, TypeInv
  <2> QED BY <2>1, <2>2
<1>2. PICK u : u = view'[client][c].upto
  OBVIOUS
<1>3. PICK S : S = store[c].state
  OBVIOUS
<1>4. Sound(S, u, c)'
  BY <1>2, <1>3, SoundLater DEF Caught
<1>5. Sound(store[c].state, view[client][c].upto, c)'
  BY <1>2, <1>3, <1>4 DEF Sound
<1> QED BY <1>1, <1>5 DEF Tracks, Caught

\* A client that took a reply tracks what it holds.
LEMMA ReplyReplica ==
    ASSUME DataInv, DataInv', HostInv, SocketInv, SocketInv', KeptInv, HeldInv, ReplicaInv,
           NEW client \in Clients, NEW k \in Conns, k = link[client],
           Bound(client), Bound(client)', Took(client, k), NEW r \in Request, TookReply(client, k, r),
           \A e \in Around' : e \in Around
    PROVE  /\ \A c \in Channels : Current(client, c)' => Tracks(client, c)'
           /\ seenIn'[client] = process => lastSeen'[client] <= serverSeq
           /\ SeenBy(client, k)' /\ Streams(client, k)'
<1>1. UNCHANGED <<serverSeq, store, clientOf, subs, request, process, link>> /\ wire' = [wire EXCEPT ![k] = Tail(wire[k])]
  BY DEF Took, ReceiveFrame
<1>2. wire'[k] = Tail(wire[k]) /\ Sent(wire'[k]) = Sent(wire[k]) /\ waiting'[client] = "none"
  BY <1>1 DEF TookReply, DataInv, TypeInv
<1>3. /\ seenIn'[client] = process /\ lastSeen'[client] <= serverSeq /\ lastSeen'[client] \in Nat
      /\ \A e \in Sent(wire[k]) : lastSeen'[client] < e.serverSeq
  BY <1>2, ReplySeen
<1>4. ASSUME NEW c \in Channels, Current(client, c)'
      PROVE  Caught(view'[client][c], c, subs[k], Sent(wire[k]))
  BY <1>1, <1>4, ReplyCaught
<1>5. ASSUME NEW c \in Channels, Current(client, c)'
      PROVE  Tracks(client, c)'
  <2>1. Sent(wire[k]) \in SUBSET Envelope
    BY IncomingAround
  <2> QED BY <1>1, <1>3, <1>4, <1>5, <2>1, CaughtTracks
<1>6. Pending(k)' = {}
  <2>1. Plugged(client)'
    BY DEF SocketInv
  <2>2. link'[client] = k /\ k # NoConn /\ clientOf'[k] = client
    BY <1>1 DEF Bound
  <2> QED BY <1>2, <2>1, <2>2 DEF Plugged
<1>7. Follows(client, k)'
  <2> SUFFICES ASSUME NEW c \in Channels, Current(client, c)'
               PROVE  c \in subs'[k] /\ Complete(store'[c].state, view'[client][c].upto, c, Sent(wire'[k]))
    BY DEF Follows
  <2>1. Caught(view'[client][c], c, subs[k], Sent(wire[k]))
    BY <1>4
  <2> QED BY <1>1, <1>2, <2>1 DEF Caught
<1> QED BY <1>1, <1>2, <1>3, <1>5, <1>6, <1>7 DEF SeenBy, Streams

\* Taking an action off the wire leaves an answer on its way deliverable: the
\* action is set aside unless no snapshot on its way is about its channel.
LEMMA ActionDelivers ==
    ASSUME DataInv, DataInv', HostInv, SocketInv, KeptInv, ReplicaInv,
           NEW client \in Clients, NEW k \in Conns, k = link[client],
           Bound(client), Took(client, k), NEW e \in Envelope, TookAction(client, k, e),
           \A f \in Around' : f \in Around, NEW r \in Pending(k)
    PROVE  Delivers(client, subs[k], r)'
<1>1. /\ UNCHANGED <<serverSeq, store, clientOf, subs, request, process, link>>
  BY DEF Took, ReceiveFrame
<1>2. /\ Sent(wire[k]) = Sent(wire'[k]) \cup {e}
      /\ \A c \in Channels : view'[client][c] = IF c = e.channel /\ ~SetAside(client, e)
                                              THEN ApplyTo(view[client][c], c, {e}) ELSE view[client][c]
      /\ lastSeen'[client] = IF waiting[client] = "handshake" THEN lastSeen[client] ELSE e.serverSeq
      /\ early'[client] = IF SetAside(client, e) THEN early[client] \cup {e} ELSE early[client]
      /\ seenIn'[client] = seenIn[client]
  BY DEF TookAction
<1>0. TypeInv /\ TypeInv'
  BY DEF DataInv
<1>a. r \in Request /\ r.kind \in {"none", "initialize", "reconnect", "subscribe"}
  BY <1>0, PendingTyped, RequestFields
<1>b. waiting[client] = KindOf(r)
  BY PluggedHas DEF Bound
<1>c. Delivers(client, subs[k], r)
  BY DEF ReplicaInv, StreamInv, Streams
<1>3. /\ r \in Request /\ r.kind \in {"none", "initialize", "reconnect", "subscribe"}
      /\ waiting[client] = KindOf(r) /\ Delivers(client, subs[k], r) /\ TypeInv /\ TypeInv'
  BY <1>0, <1>a, <1>b, <1>c
<1>4. Incoming(client) = early[client] \cup Sent(wire[k]) /\ Incoming(client)' = early'[client] \cup Sent(wire'[k])
  BY <1>1 DEF Incoming
<1>5. CASE waiting[client] = "handshake"
  <2>1. Incoming(client)' = Incoming(client)
    BY <1>2, <1>4, <1>5 DEF SetAside
  <2>2. (\A c \in Channels : view'[client][c] = view[client][c]) /\ lastSeen'[client] = lastSeen[client]
    BY <1>2, <1>5 DEF SetAside
  <2>3. Untouched
    BY <1>1 DEF Untouched, Live
  <2> QED BY <1>1, <1>2, <1>3, <2>1, <2>2, <2>3, AlikeSelf, CalmDelivers
<1>6. CASE waiting[client] # "handshake"
  <2>1. r.kind = "subscribe" /\ waiting[client] = "subscribe"
    BY <1>3, <1>6 DEF KindOf
  <2>2. \A c \in Reported(r) \cup Listed(r.todo) : ~view[client][c].held /\ c \in Channels
    BY <1>3, <2>1, RequestFields DEF Delivers, Reported, Listed, Snapshot
  <2>3. \A c \in Reported(r) \cup Listed(r.todo) : ~view'[client][c].held
    <3>1. \A c \in Channels : ~view[client][c].held => SetAside(client, e) \/ c # e.channel
      BY <2>1 DEF SetAside
    <3> QED BY <1>2, <2>2, <3>1
  <2>4. ASSUME NEW s \in r.snaps, CurrentSnap(s)'
        PROVE  SnapFollows(client, subs[k], s)'
    <3>1. CurrentSnap(s) /\ SnapFollows(client, subs[k], s)
      BY <1>1, <1>3, <2>4 DEF Delivers, CurrentSnap, Live
    <3>2. s.channel = e.channel => SetAside(client, e)
      BY <2>1, <2>2 DEF SetAside, Reported
    <3>3. \A f \in Incoming(client) : f.channel = s.channel => f \in Incoming(client)'
      BY <1>2, <1>4, <3>2
    <3>4. Complete(store[s.channel].state, s.fromSeq, s.channel, Incoming(client)')
      BY <3>1, <3>3 DEF SnapFollows, Complete
    <3> QED BY <1>1, <3>1, <3>4, SoundLater DEF SnapFollows
  <2> QED BY <2>1, <2>3, <2>4 DEF Delivers, Reported
<1> QED BY <1>5, <1>6

\* A client that took an action tracks what it holds.
LEMMA ActionReplica ==
    ASSUME DataInv, DataInv', HostInv, SocketInv, KeptInv, ReplicaInv,
           NEW client \in Clients, NEW k \in Conns, k = link[client],
           Bound(client), Took(client, k), NEW e \in Envelope, TookAction(client, k, e),
           \A f \in Around' : f \in Around
    PROVE  /\ \A c \in Channels : Current(client, c)' => Tracks(client, c)'
           /\ seenIn'[client] = process => lastSeen'[client] <= serverSeq
           /\ SeenBy(client, k)' /\ Streams(client, k)'
<1>1. UNCHANGED <<serverSeq, store, clientOf, subs, request, process, link>> /\ wire' = [wire EXCEPT ![k] = Tail(wire[k])]
  BY DEF Took, ReceiveFrame
<1>2. /\ Sent(wire[k]) = Sent(wire'[k]) \cup {e} /\ Answers(wire[k]) = Answers(wire'[k])
      /\ \A c \in Channels : view'[client][c] = IF c = e.channel /\ ~SetAside(client, e)
                                              THEN ApplyTo(view[client][c], c, {e}) ELSE view[client][c]
      /\ lastSeen'[client] = IF waiting[client] = "handshake" THEN lastSeen[client] ELSE e.serverSeq
      /\ seenIn'[client] = seenIn[client] /\ waiting'[client] = waiting[client]
  BY DEF TookAction
<1>3. TypeInv /\ TypeInv' /\ Ordered(wire[k]) /\ wire[k] \in Seq(Frame) /\ wire'[k] = Tail(wire[k])
  BY <1>1, PluggedHas DEF DataInv, TypeInv
<1>4. \A f \in Sent(wire'[k]) : e.serverSeq < f.serverSeq
  BY <1>3, OrderedTail DEF TookAction
<1>5. /\ Sent(wire[k]) \in SUBSET Around /\ Sent(wire'[k]) \in SUBSET Around /\ {e} \in SUBSET Around
      /\ \A X \in SUBSET Around : X \in SUBSET Envelope /\ \A f \in X : f.serverSeq <= serverSeq /\ f.serverSeq \in Nat
      /\ serverSeq \in Nat
  BY <1>2, IncomingAround
<1>6. Pending(k)' = Pending(k)
  BY <1>1, <1>2 DEF Pending, Owed
<1>7. Streams(client, k) /\ SeenBy(client, k) /\ (seenIn[client] = process => lastSeen[client] <= serverSeq)
  BY DEF ReplicaInv, StreamInv, SeenInv
<1>8. \A r \in Pending(k)' : Delivers(client, subs[k], r)'
  BY <1>6, ActionDelivers
<1>9. Untouched
  BY <1>1 DEF Untouched, Live
<1>10. CASE waiting[client] = "handshake"
  <2>1. (\A c \in Channels : view'[client][c] = view[client][c]) /\ lastSeen'[client] = lastSeen[client]
    BY <1>2, <1>10 DEF SetAside
  <2>2. ASSUME NEW c \in Channels, Current(client, c)' PROVE Tracks(client, c)'
    <3>1. Current(client, c) => Tracks(client, c)
      BY DEF ReplicaInv, ViewInv
    <3> QED BY <1>1, <1>2, <1>9, <2>1, <2>2, <3>1, CalmTracks
  <2>3. SeenBy(client, k)'
    BY <1>1, <1>2, <1>7, <2>1 DEF SeenBy
  <2> QED BY <1>1, <1>2, <1>7, <1>8, <1>10, <2>1, <2>2, <2>3 DEF Streams, Follows
<1>11. CASE waiting[client] # "handshake"
  <2>1. seenIn'[client] = process /\ lastSeen'[client] = e.serverSeq /\ e.serverSeq \in Nat /\ e.serverSeq <= serverSeq
    BY <1>2, <1>5, <1>7, <1>11 DEF SeenBy
  <2>2. ASSUME NEW c \in Channels, Current(client, c)'
        PROVE  Caught(view'[client][c], c, subs[k], Sent(wire'[k]))
    <3>1. view[client][c] \in View /\ {e} \in SUBSET Envelope
      BY <1>3 DEF TypeInv
    <3>2. view'[client][c].held = view[client][c].held /\ view'[client][c].inc = view[client][c].inc
      BY <1>2, <1>5, <3>1, ApplyDoes
    <3>3. Current(client, c) /\ view[client][c].held
      BY <1>1, <2>2, <3>2 DEF Current, Live
    <3>4. Caught(view[client][c], c, subs[k], Sent(wire[k]))
      <4>1. Tracks(client, c)
        BY <3>3 DEF ReplicaInv, ViewInv
      <4>2. c \in subs[k] /\ Complete(store[c].state, view[client][c].upto, c, Sent(wire[k]))
        BY <1>7, <1>11, <3>3 DEF Streams, Follows
      <4> QED BY <4>1, <4>2 DEF Tracks, Caught
    <3>5. CASE c = e.channel
      <4>1. view'[client][c] = ApplyTo(view[client][c], c, {e})
        BY <1>2, <1>11, <3>3, <3>5 DEF SetAside
      <4>2. Before({e}, Sent(wire'[k]))
        BY <1>4 DEF Before
      <4>3. Caught(view[client][c], c, subs[k], {e} \cup Sent(wire'[k]))
        BY <1>2, <3>4 DEF Caught, Complete
      <4> QED BY <1>5, <3>1, <3>3, <4>1, <4>2, <4>3, CaughtUp
    <3>6. CASE c # e.channel
      <4>1. view'[client][c] = view[client][c]
        BY <1>2, <3>6
      <4>2. Complete(store[c].state, view[client][c].upto, c, Sent(wire'[k]))
        BY <1>2, <3>4, <3>6 DEF Caught, Complete
      <4> QED BY <3>4, <4>1, <4>2 DEF Caught
    <3> QED BY <3>5, <3>6
  <2>3. ASSUME NEW c \in Channels, Current(client, c)' PROVE Tracks(client, c)'
    <3>1. Caught(view'[client][c], c, subs[k], Sent(wire'[k])) /\ Sent(wire'[k]) \in SUBSET Envelope
      BY <1>5, <2>2, <2>3
    <3> QED BY <1>1, <1>4, <2>1, <3>1, CaughtTracks
  <2>4. Follows(client, k)'
    BY <1>1, <2>2 DEF Follows, Caught
  <2> QED BY <1>1, <1>4, <1>8, <2>1, <2>3, <2>4 DEF SeenBy, Streams
<1> QED BY <1>10, <1>11

-----------------------------------------------------------------------------
(* The theorems *)

\* Nothing new is around after a client took a frame.
LEMMA ReceiveShrinks ==
    ASSUME DataInv, HostInv, NEW client \in Clients, Receive(client), NEW k \in Conns, k = link[client]
    PROVE  \A e \in Around' : e \in Around
<1>1. TypeInv' /\ TypeInv /\ Took(client, k)
  BY ReceiveTyped, ReceiveDoes DEF DataInv
<1>2. /\ Sent(wire'[k]) \subseteq Sent(wire[k]) /\ Answers(wire'[k]) \subseteq Answers(wire[k])
      /\ \A e \in early'[client] : e \in early[client] \cup Sent(wire[k])
  <2>1. ASSUME NEW r, TookReply(client, k, r)
        PROVE  /\ Sent(wire'[k]) \subseteq Sent(wire[k]) /\ Answers(wire'[k]) \subseteq Answers(wire[k])
               /\ \A e \in early'[client] : e \in early[client] \cup Sent(wire[k])
    BY <2>1 DEF TookReply
  <2>2. ASSUME NEW e, TookAction(client, k, e)
        PROVE  /\ Sent(wire'[k]) \subseteq Sent(wire[k]) /\ Answers(wire'[k]) \subseteq Answers(wire[k])
               /\ \A f \in early'[client] : f \in early[client] \cup Sent(wire[k])
    BY <2>2 DEF TookAction
  <2> QED BY <1>1, <2>1, <2>2, ReceiveDoes
<1>3. \A l \in Conns : l # k => wire'[l] = wire[l]
  BY <1>1 DEF Took, TypeInv
<1>4. \A l \in Conns : Sent(wire'[l]) \subseteq Sent(wire[l]) /\ Answers(wire'[l]) \subseteq Answers(wire[l])
  BY <1>2, <1>3
<1>5. UNCHANGED <<serverSeq, buffer, store, request, incs>>
  BY <1>1 DEF Took, ReceiveFrame
<1>6. \A l \in Conns : Pending(l)' \subseteq Pending(l)
  BY <1>4, <1>5 DEF Pending, Owed
<1>7. \A e \in Around' : e \in Around
  <2>1. \A l \in Conns : \A e \in Sent(wire'[l]) : e \in Around
    BY <1>4, AroundHas
  <2>2. \A l \in Conns : \A r \in Pending(l)' : \A e \in r.actions : e \in Around
    BY <1>6, AroundHas
  <2>3. \A o \in Clients : \A e \in early'[o] : e \in Around
    <3>1. \A o \in Clients : o # client => early'[o] = early[o]
      BY <1>1 DEF Took, OthersKeep
    <3> QED BY <1>2, <3>1, AroundHas
  <2>4. \A i \in DOMAIN buffer' : buffer'[i] \in Around
    BY <1>5, AroundHas
  <2> QED BY <2>1, <2>2, <2>3, <2>4, AroundNext
<1> QED BY <1>7

\* A client that takes a frame stays without holes, and the others are not concerned.
LEMMA ReceiveReplica ==
    ASSUME DataInv, DataInv', HostInv, SocketInv, SocketInv', KeptInv, HeldInv, ReplicaInv,
           NEW client \in Clients, Receive(client)
    PROVE  ReplicaInv'
<1>0. PICK k \in Conns : k = link[client]
  BY LinkTyped DEF Receive
<1>1. TypeInv /\ TypeInv' /\ Took(client, k)
  BY <1>0, ReceiveDoes DEF DataInv
<1>2. /\ UNCHANGED <<serverSeq, buffer, store, clientOf, subs, request, link, process>>
      /\ wire' = [wire EXCEPT ![k] = Tail(wire[k])]
      /\ \A other \in Clients : other # client =>
            /\ view'[other] = view[other] /\ lastSeen'[other] = lastSeen[other] /\ seenIn'[other] = seenIn[other]
            /\ waiting'[other] = waiting[other] /\ early'[other] = early[other]
  BY <1>1 DEF Took, ReceiveFrame, OthersKeep
<1>3. \A l \in Conns : l # k => wire'[l] = wire[l]
  BY <1>1, <1>2 DEF TypeInv
<1>4. Bound(client) /\ Bound(client)'
  <2>1. k # NoConn /\ wire[k] # <<>>
    BY <1>0 DEF Receive
  <2>2. clientOf[k] \in {NoClient, client} /\ (clientOf[k] = NoClient => wire[k] = <<>>)
    BY <1>0, PluggedHas
  <2> QED BY <1>0, <1>2, <2>1, <2>2 DEF Bound
<1>5. \A f \in Around' : f \in Around
  BY <1>0, ReceiveShrinks
<1>6. /\ \A c \in Channels : Current(client, c)' => Tracks(client, c)'
      /\ seenIn'[client] = process => lastSeen'[client] <= serverSeq
      /\ SeenBy(client, k)' /\ Streams(client, k)'
  <2>1. ASSUME NEW r \in Request, TookReply(client, k, r)
        PROVE  /\ \A c \in Channels : Current(client, c)' => Tracks(client, c)'
               /\ seenIn'[client] = process => lastSeen'[client] <= serverSeq
               /\ SeenBy(client, k)' /\ Streams(client, k)'
    BY <1>0, <1>1, <1>4, <1>5, <2>1, ReplyReplica
  <2>2. ASSUME NEW e \in Envelope, TookAction(client, k, e)
        PROVE  /\ \A c \in Channels : Current(client, c)' => Tracks(client, c)'
               /\ seenIn'[client] = process => lastSeen'[client] <= serverSeq
               /\ SeenBy(client, k)' /\ Streams(client, k)'
    BY <1>0, <1>1, <1>4, <1>5, <2>2, ActionReplica
  <2>3. \/ \E r \in Request : TookReply(client, k, r)
        \/ \E e \in Envelope : TookAction(client, k, e)
    BY <1>0, <1>1, ReceiveDoes
  <2> QED BY <2>1, <2>2, <2>3
<1>7. Untouched
  BY <1>2 DEF Untouched, Live
<1>8. ViewInv'
  <2> SUFFICES ASSUME NEW other \in Clients, NEW c \in Channels, Current(other, c)' PROVE Tracks(other, c)'
    BY DEF ViewInv
  <2>1. CASE other = client
    BY <1>6, <2>1
  <2>2. CASE other # client
    <3>1. Current(other, c) => Tracks(other, c)
      BY DEF ReplicaInv, ViewInv
    <3>2. view'[other][c] = view[other][c] /\ lastSeen'[other] = lastSeen[other] /\ seenIn'[other] = seenIn[other]
      BY <1>2, <2>2
    <3> QED BY <1>2, <1>5, <1>7, <3>1, <3>2, CalmTracks
  <2> QED BY <2>1, <2>2
<1>9. ASSUME NEW other \in Clients, other # client, NEW l \in Conns, l = link[other], Bound(other)'
      PROVE  SeenBy(other, l)' /\ Streams(other, l)'
  <2>1. Bound(other)
    BY <1>2, <1>9 DEF Bound
  <2>2. l # k
    BY <1>0, <1>9, PluggedHas
  <2>3. wire'[l] = wire[l] /\ request'[l] = request[l] /\ subs'[l] = subs[l] /\ link'[other] = l
    BY <1>2, <1>3, <1>9, <2>2
  <2>4. SeenBy(other, l) /\ Streams(other, l)
    BY <1>9, <2>1 DEF ReplicaInv, SeenInv, StreamInv
  <2>5. Pending(l)' = Pending(l)
    BY <2>3 DEF Pending, Owed
  <2>6. \A c \in Channels : view'[other][c] = view[other][c]
    BY <1>2, <1>9
  <2>7. SeenBy(other, l)'
    BY <1>2, <1>9, <2>3, <2>4 DEF SeenBy
  <2>8. Streams(other, l)'
    BY <1>1, <1>2, <1>5, <1>7, <1>9, <2>3, <2>4, <2>5, <2>6, AlikeSelf, CalmStreams
  <2> QED BY <2>7, <2>8
<1>10. ASSUME NEW other \in Clients, Bound(other)'
       PROVE  SeenBy(other, link[other])' /\ Streams(other, link[other])'
  <2>1. PICK l \in Conns : l = link[other] /\ l = link'[other]
    BY <1>2, <1>10, LinkTyped DEF Bound
  <2>2. CASE other = client
    <3>1. l = k
      BY <1>0, <2>1, <2>2
    <3>2. SeenBy(other, l)' /\ Streams(other, l)'
      BY <1>6, <2>2, <3>1
    <3> QED BY <2>1, <3>2
  <2>3. CASE other # client
    <3>1. SeenBy(other, l)' /\ Streams(other, l)'
      BY <1>9, <1>10, <2>1, <2>3
    <3> QED BY <2>1, <3>1
  <2> QED BY <2>2, <2>3
<1>11. SeenInv'
  <2>1. ASSUME NEW other \in Clients, seenIn'[other] = process' PROVE lastSeen'[other] <= serverSeq'
    <3>1. seenIn[other] = process => lastSeen[other] <= serverSeq
      BY DEF ReplicaInv, SeenInv
    <3> QED BY <1>2, <1>6, <2>1, <3>1
  <2> QED BY <1>10, <2>1 DEF SeenInv
<1>12. StreamInv'
  BY <1>10 DEF StreamInv
<1> QED BY <1>8, <1>11, <1>12 DEF ReplicaInv

\* Every step keeps ReplicaInv as long as first replies arrive.
LEMMA NextReplica ==
    ASSUME DataInv, DataInv', HostInv, SocketInv, SocketInv', KeptInv, HeldInv, ReplicaInv,
           FirstReplyArrives, [Next]_vars
    PROVE  ReplicaInv'
<1>1. ASSUME NEW client \in Clients, Reconnect(client) \/ \E S \in SUBSET Channels : Initialize(client, S)
      PROVE  ReplicaInv'
  BY <1>1, HandshakeOpens, HandshakeReplica
<1>2. CASE UNCHANGED vars
  BY <1>2, StutterReplica
<1>3. CASE HostRestart
  BY <1>3, RestartReplica
<1> QED BY <1>1, <1>2, <1>3, EmitReplica, StoreReplica, OnCloseReplica, HydrationReplica, ResumeReplica, SendReplyReplica,
           AcceptReplica, LoseLinkReplica, ReceiveReplica, SubscribeReplica, UnsubscribeReplica DEF Next

\* Nobody holds anything at first.
LEMMA InitReplica == Init => ReplicaInv
<1> SUFFICES ASSUME Init PROVE ReplicaInv
  OBVIOUS
<1>1. /\ \A client \in Clients : link[client] = NoConn /\ lastSeen[client] = 0
      /\ \A client \in Clients, c \in Channels : ~view[client][c].held
      /\ serverSeq = 0
  BY DEF Init, SeqInit, NoView
<1> QED BY <1>1 DEF ReplicaInv, ViewInv, SeenInv, StreamInv, Current, Bound

\* No replica ever has a hole as long as first replies arrive.
LEMMA ReplicaInvariant == Spec /\ []FirstReplyArrives => []ReplicaInv
<1>1. DataInv /\ DataInv' /\ HostInv /\ SocketInv /\ SocketInv' /\ KeptInv /\ HeldInv /\ ReplicaInv
        /\ FirstReplyArrives /\ [Next]_vars => ReplicaInv'
  BY NextReplica
<1> QED BY <1>1, InitReplica, HostInvariant, DataInvariant, SocketInvariant, KeptInvariant, HeldInvariant, PTL DEF Spec

\* A replica that tracks its channel has no hole.
LEMMA ReplicaPrefix ==
    ASSUME ReplicaInv
    PROVE  ViewIsPrefix
BY DEF ReplicaInv, ViewInv, Tracks, PrefixOf, ViewIsPrefix

\* Nothing is on the wire of a quiet client, so its views lack nothing.
LEMMA ReplicaConverged ==
    ASSUME DataInv, HostInv, KeptInv, ReplicaInv
    PROVE  Converged
<1> SUFFICES ASSUME NEW client \in Clients, NEW c \in Channels, Quiet(client), Current(client, c)
             PROVE  view[client][c].state = store[c].state
  BY DEF Converged
<1>1. Bound(client) /\ waiting[client] = "none" /\ wire[link[client]] = <<>>
  BY DEF Quiet, Bound
<1>2. PICK v : v = view[client][c]
  OBVIOUS
<1>3. PICK S : S = store[c].state
  OBVIOUS
<1>4. PrefixOf(S, v.state, v.upto)
  BY <1>2, <1>3 DEF ReplicaInv, ViewInv, Tracks
<1>5. Sent(wire[link[client]]) = {}
  BY <1>1 DEF Sent
<1>6. \A n \in S : ~(n > v.upto)
  <2>1. Complete(store[c].state, view[client][c].upto, c, Sent(wire[link[client]]))
    BY <1>1 DEF ReplicaInv, StreamInv, Streams, Follows
  <2> QED BY <1>2, <1>3, <1>5, <2>1 DEF Complete
<1>7. S \subseteq Nat /\ v.upto \in Nat
  <2>1. S \subseteq 1..serverSeq
    BY <1>3 DEF KeptInv, StoreInv
  <2>2. view[client][c] \in View /\ serverSeq \in Nat
    BY DEF DataInv, TypeInv
  <2> QED BY <1>2, <2>1, <2>2 DEF View
<1>8. \A n \in S : n <= v.upto
  BY <1>6, <1>7
<1>9. v.state = {n \in S : n <= v.upto}
  BY <1>4 DEF PrefixOf
<1>10. v.state = S
  BY <1>8, <1>9
<1> QED BY <1>2, <1>3, <1>10

\* A view is the channel's state up to the number it accounts for, through any
\* losses, replacements of sockets, hydration delays, replays and restarts of the
\* host, provided that the reply to each client's first reconnect after a restart
\* arrives (host.ts:621-694, 915-955).
THEOREM NoHoles == Spec /\ []FirstReplyArrives => []ViewIsPrefix
BY ReplicaPrefix, ReplicaInvariant, PTL

\* With nothing in flight a client's view of a current channel is the host's state
\* (host.ts:4-6), under the same proviso.
THEOREM ConvergesAtRest == Spec /\ []FirstReplyArrives => []Converged
BY ReplicaConverged, HostInvariant, DataInvariant, KeptInvariant, ReplicaInvariant, PTL

\* The host restarts as often as the bound allows.
RestartInv == process <= MaxRestarts

\* No step but HostRestart begins a process, and its guard counts them.
LEMMA RestartsBounded == Spec => []RestartInv
<1>1. Init => RestartInv
  BY HostAssumption DEF Init, RestartInv
<1>2. RestartInv /\ DataInv /\ [Next]_vars => RestartInv'
  <2> SUFFICES ASSUME process <= MaxRestarts, process \in Nat, MaxRestarts \in Nat, [Next]_vars
               PROVE  process' <= MaxRestarts
    BY HostAssumption DEF RestartInv, DataInv, TypeInv
  <2>1. ASSUME NEW c \in Channels, Commit(c) \/ RejectAction(c) \/ CreateChannel(c) \/ DeleteChannel(c) \/ DropChannel(c)
        PROVE  process' = process
    BY <2>1 DEF Commit, RejectAction, CreateChannel, DeleteChannel, DropChannel, histVars
  <2>2. ASSUME NEW k \in Conns, OnClose(k) \/ HydrationSettles(k) \/ ResumeHandler(k) \/ SendReply(k)
        PROVE  process' = process
    BY <2>2 DEF OnClose, HydrationSettles, ResumeHandler, SendReply, histVars
  <2>3. ASSUME NEW client \in Clients, NEW k \in Conns, Accept(client, k)
        PROVE  process' = process
    BY <2>3 DEF Accept
  <2>4. ASSUME NEW client \in Clients, LoseLink(client) \/ Receive(client)
        PROVE  process' = process
    BY <2>4 DEF LoseLink, Receive, histVars
  <2>5. ASSUME NEW client \in Clients, NEW req, Handshake(client, req)
        PROVE  process' = process
    BY <2>5 DEF Handshake, histVars
  <2>6. ASSUME NEW client \in Clients, Reconnect(client) \/ \E S \in SUBSET Channels : Initialize(client, S)
        PROVE  process' = process
    BY <2>5, <2>6 DEF Reconnect, Initialize
  <2>7. ASSUME NEW client \in Clients, NEW c \in Channels, Subscribe(client, c) \/ Unsubscribe(client, c)
        PROVE  process' = process
    BY <2>7 DEF Subscribe, Unsubscribe, histVars
  <2>8. CASE HostRestart
    BY <2>8 DEF HostRestart
  <2>9. CASE UNCHANGED vars
    BY <2>9 DEF vars, histVars
  <2> QED BY <2>1, <2>2, <2>3, <2>4, <2>6, <2>7, <2>8, <2>9 DEF Next
<1> QED BY <1>1, <1>2, DataInvariant, PTL DEF Spec

\* Within one process there is no earlier one to find out about.
LEMMA OneProcess ==
    ASSUME MaxRestarts = 0, RestartInv, KeptInv, DataInv
    PROVE  FirstReplyArrives
BY DEF RestartInv, KeptInv, StoreInv, DataInv, TypeInv, FirstReplyArrives

\* Within the lifetime of one host process neither a hole nor a lasting difference
\* is possible, with no proviso: any clients, sockets, channels, buffer capacity
\* and losses.
THEOREM OneProcessNoHoles == Spec => [](MaxRestarts = 0 => ViewIsPrefix /\ Converged)
<1>1. Init => (MaxRestarts = 0 => ReplicaInv)
  BY InitReplica
<1>2. RestartInv /\ DataInv /\ DataInv' /\ HostInv /\ SocketInv /\ SocketInv' /\ KeptInv /\ HeldInv
        /\ (MaxRestarts = 0 => ReplicaInv) /\ [Next]_vars => (MaxRestarts = 0 => ReplicaInv)'
  BY NextReplica, OneProcess
<1>3. DataInv /\ HostInv /\ KeptInv /\ (MaxRestarts = 0 => ReplicaInv) => (MaxRestarts = 0 => ViewIsPrefix /\ Converged)
  BY ReplicaPrefix, ReplicaConverged
<1> QED BY <1>1, <1>2, <1>3, RestartsBounded, HostInvariant, DataInvariant, SocketInvariant, KeptInvariant, HeldInvariant,
           PTL DEF Spec
=============================================================================
