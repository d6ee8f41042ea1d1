-------------------------- MODULE ClientActions_proofs --------------------------
(***************************************************************************)
(* Proofs about ClientActions, for any number of actions, turns, disposals *)
(* and crashes.                                                            *)
(*                                                                         *)
(* The inductive invariant adds to the types and the properties what the   *)
(* chains have to do with the queue of operations: an operation that an    *)
(* action entered is about the first unanswered action of its chain, or,   *)
(* until its router is done, about the one just answered, so each channel  *)
(* has one at most (QueueInv, of the values it is about, since handlers    *)
(* answer an action and take its operation off the queue in one step), and *)
(* no turn runs while one of them has pi move (BusyInv).                   *)
(***************************************************************************)
EXTENDS ClientActions, SequenceTheorems, TLAPS

-----------------------------------------------------------------------------
(* The invariant *)

Increasing(q) == \A m, n \in DOMAIN q : m < n => q[m] < q[n]

\* A chain holds actions of its channel, in the order they were sent.
ChainOf(c, wait, told, s) ==
  /\ \A n \in DOMAIN wait : wait[n] \in DOMAIN s /\ s[wait[n]].channel = c
  /\ \A n \in DOMAIN told : told[n].id \in DOMAIN s
  /\ Increasing(wait)
  /\ \A m, n \in DOMAIN told : m < n => told[m].id < told[n].id
  /\ told # <<>> /\ wait # <<>> => told[Len(told)].id < wait[1]

ChainInv == \A c \in Channels : ChainOf(c, host.pending[c], seen.log[c], sent)

ChannelOf(kind) == IF kind = "flag" THEN "session" ELSE "chat"

\* An action's operation: the chain is with its router, and the action first in
\* it, unless it has been answered.
Claims(op, pending, routed, s) ==
  op.kind \in {"flag", "truncate"} =>
    LET c == ChannelOf(op.kind)
    IN  /\ routed[c] /\ op.id \in DOMAIN s /\ s[op.id].kind = op.kind
        /\ op.phase # "applied" => pending[c] # <<>> /\ op.id = pending[c][1]

QueueOf(ops, pending, routed, s) ==
  /\ \A n \in DOMAIN ops : n > 1 => ops[n].phase = "queued"
  /\ \A n \in DOMAIN ops : Claims(ops[n], pending, routed, s)
  /\ \A m, n \in DOMAIN ops : ops[m].kind = ops[n].kind /\ ops[m].kind \in {"flag", "truncate"} => m = n

QueueInv == QueueOf(host.ops, host.pending, host.routed, sent)

\* No turn runs while a truncation has the agent, and pi's leaf is where it said.
BusyOf(ops, active, leaf, s) ==
  /\ \A n \in DOMAIN ops : ops[n].kind = "truncate" /\ ops[n].phase \in {"navigating", "moved"} => ~active
  /\ \A n \in DOMAIN ops : ops[n].kind = "truncate" /\ ops[n].phase = "moved" => leaf = s[ops[n].id].value

BusyInv == BusyOf(host.ops, host.active, disk.leaf, sent)

CutInv == seen.cut \subseteq DOMAIN sent

Inv == TypeOK /\ ChainInv /\ QueueInv /\ BusyInv /\ CutInv /\ FlagIsOwned /\ ChatFollowsPi

-----------------------------------------------------------------------------
(* Actions and sequences *)

LEMMA ActionFacts ==
  ASSUME NEW a \in Actions
  PROVE  /\ a.channel \in Channels /\ a.kind \in {"flag", "title", "draft", "turn", "truncate"}
         /\ a.kind = "flag" => a.channel = "session" /\ a.value \in BOOLEAN
         /\ a.kind = "truncate" => a.channel = "chat" /\ a.value \in Nat
         /\ a.kind \in {"draft", "turn"} => a.channel = "chat"
         /\ a.kind = "title" => a.channel = "session"
<1>1. CASE a \in [channel : {"session"}, kind : {"flag"}, value : BOOLEAN]
  BY <1>1 DEF Channels
<1>2. CASE a \in [channel : {"session"}, kind : {"title"}, value : {FALSE}]
  BY <1>2 DEF Channels
<1>3. CASE a \in [channel : {"chat"}, kind : {"draft", "turn"}, value : {FALSE}]
  BY <1>3 DEF Channels
<1>4. CASE a \in [channel : {"chat"}, kind : {"truncate"}, value : Targets]
  BY <1>4, BoundsAssumption DEF Channels, Targets
<1> QED BY <1>1, <1>2, <1>3, <1>4 DEF Actions

LEMMA TailFacts ==
  ASSUME NEW S, NEW q \in Seq(S), q # <<>>
  PROVE  /\ Len(q) \in Nat /\ Len(q) >= 1 /\ q[1] \in S /\ Head(q) = q[1]
         /\ Tail(q) \in Seq(S) /\ Len(Tail(q)) = Len(q) - 1
         /\ \A n \in DOMAIN Tail(q) : Tail(q)[n] = q[n + 1] /\ n + 1 \in DOMAIN q /\ n \in Nat \ {0}
BY HeadTailProperties, LenProperties, ElementOfSeq

LEMMA AppendFacts ==
  ASSUME NEW S, NEW q \in Seq(S), NEW e \in S
  PROVE  /\ Append(q, e) \in Seq(S) /\ Len(q) \in Nat /\ Len(Append(q, e)) = Len(q) + 1
         /\ Append(q, e) # <<>> /\ Append(q, e)[Len(q) + 1] = e
         /\ DOMAIN Append(q, e) = 1..(Len(q) + 1) /\ DOMAIN q = 1..Len(q)
         /\ \A n \in 1..Len(q) : Append(q, e)[n] = q[n]
         /\ q = <<>> => Append(q, e) = <<e>> /\ Len(q) = 0
         /\ q # <<>> => Len(q) >= 1
<1>1. Len(q) \in Nat /\ DOMAIN q = 1..Len(q)
  BY LenProperties
<1>2. /\ Append(q, e) \in Seq(S) /\ Append(q, e) # <<>> /\ Len(Append(q, e)) = Len(q) + 1
      /\ \A n \in 1..Len(q) : Append(q, e)[n] = q[n]
      /\ Append(q, e)[Len(q) + 1] = e
  BY AppendProperties
<1>3. DOMAIN Append(q, e) = 1..(Len(q) + 1)
  BY <1>2, LenProperties
<1>4. q = <<>> => Append(q, e) = <<e>> /\ Len(q) = 0
  OBVIOUS
<1>5. q # <<>> => Len(q) >= 1
  BY <1>1, EmptySeq
<1> QED BY <1>1, <1>2, <1>3, <1>4, <1>5

-----------------------------------------------------------------------------
(* The chain of a channel *)

\* A new action is later than all before it.
LEMMA ChainSends ==
  ASSUME NEW c, NEW wait \in Seq(Ids), NEW told \in Seq(Told), NEW s \in Seq(Actions), NEW a \in Actions,
         ChainOf(c, wait, told, s), NEW new \in Seq(Ids),
         new = wait \/ (a.channel = c /\ Len(s) + 1 \in Ids /\ new = Append(wait, Len(s) + 1))
  PROVE  ChainOf(c, new, told, Append(s, a))
<1>1. /\ DOMAIN s = 1..Len(s) /\ Len(s) \in Nat /\ DOMAIN Append(s, a) = 1..(Len(s) + 1)
      /\ \A i \in DOMAIN s : Append(s, a)[i] = s[i] /\ i \in DOMAIN Append(s, a) /\ i < Len(s) + 1
      /\ Append(s, a)[Len(s) + 1] = a
  BY AppendFacts
<1>2. /\ \A n \in DOMAIN wait : wait[n] \in DOMAIN s /\ s[wait[n]].channel = c
      /\ \A n \in DOMAIN told : told[n].id \in DOMAIN s
  BY DEF ChainOf
<1>3. CASE new = wait
  BY <1>1, <1>2, <1>3 DEF ChainOf
<1>4. CASE a.channel = c /\ Len(s) + 1 \in Ids /\ new = Append(wait, Len(s) + 1)
  <2> DEFINE k == Len(s) + 1
  <2>1. /\ new = Append(wait, k) /\ k \in Ids
    BY <1>4
  <2>2. /\ DOMAIN new = 1..(Len(wait) + 1) /\ DOMAIN wait = 1..Len(wait) /\ Len(wait) \in Nat
        /\ \A n \in 1..Len(wait) : new[n] = wait[n]
        /\ new[Len(wait) + 1] = k
        /\ wait = <<>> => Len(wait) = 0
        /\ wait # <<>> => Len(wait) >= 1
    BY <2>1, AppendFacts
  <2>0. \A n \in DOMAIN new : (n \in DOMAIN wait /\ new[n] = wait[n]) \/ (n = Len(wait) + 1 /\ new[n] = k)
    <3> HIDE DEF k
    <3>0. Len(wait) \in Nat
      BY <2>2
    <3>1. ASSUME NEW n \in 1..(Len(wait) + 1) PROVE n \in 1..Len(wait) \/ n = Len(wait) + 1
      BY <3>0
    <3> QED BY <2>2, <3>1
  <2>3. \A n \in DOMAIN new : new[n] \in DOMAIN Append(s, a) /\ Append(s, a)[new[n]].channel = c
    <3>1. k \in DOMAIN Append(s, a) /\ Append(s, a)[k].channel = c
      BY <1>1, <1>4
    <3> HIDE DEF k
    <3> QED BY <1>1, <1>2, <2>0, <3>1
  <2>4. Increasing(new)
    <3>1. \A m \in DOMAIN wait : wait[m] < k
      BY <1>1, <1>2
    <3>2. Increasing(wait)
      BY DEF ChainOf
    <3> HIDE DEF k
    <3>3. SUFFICES ASSUME NEW m \in DOMAIN new, NEW n \in DOMAIN new, m < n PROVE new[m] < new[n]
      BY DEF Increasing
    <3>4. m \in DOMAIN wait /\ new[m] = wait[m]
      BY <2>0, <2>2, <3>3
    <3>5. CASE n \in DOMAIN wait /\ new[n] = wait[n]
      BY <3>2, <3>3, <3>4, <3>5 DEF Increasing
    <3>6. CASE new[n] = k
      BY <3>1, <3>4, <3>6
    <3> QED BY <2>0, <3>5, <3>6
  <2>5. \A n \in DOMAIN told : told[n].id \in DOMAIN Append(s, a)
    BY <1>1, <1>2
  <2>6. told # <<>> => told[Len(told)].id < k
    <3>1. told # <<>> => Len(told) \in DOMAIN told
      BY LenProperties
    <3> QED BY <1>1, <1>2, <3>1
  <2>7. told # <<>> /\ new # <<>> => told[Len(told)].id < new[1]
    <3>1. wait = <<>> => new[1] = k
      <4> HIDE DEF k
      <4>1. ASSUME Len(wait) = 0 PROVE 1 = Len(wait) + 1
        BY <4>1
      <4> QED BY <2>2, <4>1
    <3>2. wait # <<>> => new[1] = wait[1]
      BY <2>2
    <3> QED BY <2>6, <3>1, <3>2 DEF ChainOf
  <2> QED BY <2>3, <2>4, <2>5, <2>7 DEF ChainOf
<1> QED BY <1>3, <1>4

\* The first action of a chain is answered, or dropped without an answer.
LEMMA ChainAnswers ==
  ASSUME NEW c, NEW wait \in Seq(Ids), NEW told \in Seq(Told), NEW s, ChainOf(c, wait, told, s), wait # <<>>,
         NEW new \in Seq(Told), NEW e \in Told, e.id = wait[1], new = told \/ new = Append(told, e)
  PROVE  ChainOf(c, Tail(wait), new, s)
<1> DEFINE rest == Tail(wait)
<1>1. /\ \A n \in DOMAIN rest : rest[n] = wait[n + 1] /\ n + 1 \in DOMAIN wait /\ n \in Nat \ {0}
      /\ 1 \in DOMAIN wait /\ rest \in Seq(Ids) /\ Len(rest) \in Nat /\ DOMAIN rest = 1..Len(rest)
  BY TailFacts
<1>2. \A n \in DOMAIN wait : wait[n] \in Ids /\ wait[n] \in Nat
  BY BoundsAssumption DEF Ids
<1> HIDE DEF rest
<1>3. \A n \in DOMAIN rest : rest[n] \in DOMAIN s /\ s[rest[n]].channel = c
  BY <1>1 DEF ChainOf
<1>4. Increasing(rest)
  BY <1>1 DEF ChainOf, Increasing
<1>5. \A n \in DOMAIN rest : wait[1] < rest[n]
  BY <1>1 DEF ChainOf, Increasing
<1>6. rest # <<>> => wait[1] < rest[1]
  <2>1. rest # <<>> => 1 \in DOMAIN rest
    BY <1>1, LenProperties
  <2> QED BY <1>5, <2>1
<1>7. CASE new = told
  <2>1. told # <<>> => told[Len(told)].id < wait[1] /\ told[Len(told)].id \in Nat
    <3>1. told # <<>> => Len(told) \in DOMAIN told /\ told[Len(told)] \in Told
      BY LenProperties, ElementOfSeq
    <3> QED BY <3>1, BoundsAssumption DEF ChainOf, Told, Ids
  <2>2. rest # <<>> => rest[1] \in Nat
    <3>1. rest # <<>> => 1 \in DOMAIN rest
      BY <1>1, LenProperties
    <3> QED BY <3>1, <1>1, <1>2
  <2>3. told # <<>> /\ rest # <<>> => told[Len(told)].id < rest[1]
    BY <1>2, <1>1, <1>6, <2>1, <2>2
  <2> QED BY <1>3, <1>4, <1>7, <2>3 DEF ChainOf, rest
<1>8. CASE new = Append(told, e)
  <2>1. /\ DOMAIN new = 1..(Len(told) + 1) /\ DOMAIN told = 1..Len(told) /\ Len(told) \in Nat
        /\ \A n \in 1..Len(told) : new[n] = told[n]
        /\ new[Len(told) + 1] = e /\ Len(new) = Len(told) + 1
    BY <1>8, AppendFacts
  <2>2. Len(told) \in Nat
    BY <2>1
  <2>3. \A n \in 1..(Len(told) + 1) : n \in 1..Len(told) \/ n = Len(told) + 1
    BY <2>2
  <2>4. \A n \in DOMAIN new : (n \in DOMAIN told /\ new[n] = told[n]) \/ new[n] = e
    BY <2>1, <2>3
  <2>5. \A n \in DOMAIN told : told[n].id \in DOMAIN s
    BY DEF ChainOf
  <2>6. e.id \in DOMAIN s
    BY <1>1 DEF ChainOf
  <2>7. \A n \in DOMAIN new : new[n].id \in DOMAIN s
    BY <2>4, <2>5, <2>6
  <2>8. \A n \in DOMAIN told : told[n].id < wait[1]
    <3>1. ASSUME NEW n \in DOMAIN told PROVE told[n].id < wait[1]
      <4>1. /\ told # <<>> /\ Len(told) \in DOMAIN told /\ n <= Len(told) /\ n \in Nat
            /\ told[n] \in Told /\ told[Len(told)] \in Told
        BY LenProperties, ElementOfSeq
      <4>2. told[n].id \in Nat /\ told[Len(told)].id \in Nat
        BY <4>1, BoundsAssumption DEF Told, Ids
      <4>3. n < Len(told) => told[n].id < told[Len(told)].id
        BY <4>1 DEF ChainOf
      <4>4. told[Len(told)].id < wait[1]
        BY <4>1 DEF ChainOf
      <4> QED BY <1>1, <1>2, <2>1, <4>1, <4>2, <4>3, <4>4
    <3> QED BY <3>1
  <2>9. \A m, n \in DOMAIN new : m < n => new[m].id < new[n].id
    BY <2>1, <2>8 DEF ChainOf
  <2> QED BY <1>3, <1>4, <1>6, <2>1, <2>7, <2>9 DEF ChainOf, rest
<1> QED BY <1>7, <1>8

-----------------------------------------------------------------------------
(* The queue of operations *)

Queue == Seq(Operation)
Chains == [Channels -> Seq(Ids)]
Flags == [Channels -> BOOLEAN]

\* Removal of the operation at the head shifts the others.
LEMMA QueueDrops ==
  ASSUME NEW ops \in Queue, NEW pending, NEW routed, NEW s, QueueOf(ops, pending, routed, s), ops # <<>>
  PROVE  /\ Tail(ops) \in Queue /\ QueueOf(Tail(ops), pending, routed, s)
         /\ \A n \in DOMAIN Tail(ops) : Tail(ops)[n].phase = "queued"
         /\ ops[1].kind \in {"flag", "truncate"} => \A n \in DOMAIN Tail(ops) : Tail(ops)[n].kind # ops[1].kind
<1> DEFINE rest == Tail(ops)
<1>1. /\ rest \in Queue /\ 1 \in DOMAIN ops
      /\ \A n \in DOMAIN rest : rest[n] = ops[n + 1] /\ n + 1 \in DOMAIN ops /\ n + 1 > 1 /\ n \in Nat
  BY TailFacts DEF Queue
<1> HIDE DEF rest
<1>2. \A n \in DOMAIN rest : rest[n].phase = "queued" /\ Claims(rest[n], pending, routed, s)
  BY <1>1 DEF QueueOf
<1>3. ASSUME NEW m \in DOMAIN rest, NEW n \in DOMAIN rest,
             rest[m].kind = rest[n].kind, rest[m].kind \in {"flag", "truncate"}
      PROVE  m = n
  <2>1. m + 1 = n + 1
    BY <1>1, <1>3 DEF QueueOf
  <2> QED BY <1>1, <2>1
<1>4. ASSUME ops[1].kind \in {"flag", "truncate"}, NEW n \in DOMAIN rest, rest[n].kind = ops[1].kind
      PROVE  FALSE
  <2>1. 1 = n + 1
    BY <1>1, <1>4 DEF QueueOf
  <2> QED BY <1>1, <2>1
<1> QED BY <1>1, <1>2, <1>3, <1>4 DEF rest, QueueOf

\* The chain of c moves on: operations of the other channel are not concerned.
LEMMA QueueSettles ==
  ASSUME NEW ops \in Queue, NEW pending \in Chains, NEW routed \in Flags, NEW s, NEW c \in Channels,
         QueueOf(ops, pending, routed, s),
         \A n \in DOMAIN ops : ops[n].kind \in {"flag", "truncate"} => ChannelOf(ops[n].kind) # c,
         NEW more \in Chains, NEW after \in Flags,
         \A d \in Channels : d # c => more[d] = pending[d] /\ after[d] = routed[d]
  PROVE  QueueOf(ops, more, after, s)
<1>1. ASSUME NEW n \in DOMAIN ops PROVE Claims(ops[n], more, after, s)
  <2>1. ChannelOf(ops[n].kind) \in Channels
    BY DEF ChannelOf, Channels
  <2>2. Claims(ops[n], pending, routed, s)
    BY DEF QueueOf
  <2> QED BY <2>1, <2>2 DEF Claims
<1> QED BY <1>1 DEF QueueOf

\* The operation at the head goes on to another await.
LEMMA QueueEnters ==
  ASSUME NEW ops \in Queue, NEW pending, NEW routed, NEW s, QueueOf(ops, pending, routed, s), ops # <<>>,
         NEW phase \in Phases, ops[1].phase # "applied"
  PROVE  LET next == [ops EXCEPT ![1].phase = phase]
         IN  /\ next \in Queue /\ QueueOf(next, pending, routed, s) /\ next # <<>> /\ DOMAIN next = DOMAIN ops
             /\ next[1].phase = phase /\ next[1].kind = ops[1].kind /\ next[1].id = ops[1].id
             /\ \A n \in DOMAIN ops : n > 1 => next[n] = ops[n]
<1> DEFINE op == [ops[1] EXCEPT !.phase = phase]
           next == [ops EXCEPT ![1] = op]
<1>1. Len(ops) \in Nat /\ 1 \in 1..Len(ops) /\ DOMAIN ops = 1..Len(ops) /\ ops[1] \in Operation
  BY TailFacts, LenProperties DEF Queue
<1>2. op \in Operation /\ op.phase = phase /\ op.kind = ops[1].kind /\ op.id = ops[1].id
  BY <1>1, ZenonT(30) DEF Operation
<1>3. next \in Queue /\ Len(next) = Len(ops) /\ \A n \in 1..Len(ops) : next[n] = IF n = 1 THEN op ELSE ops[n]
  <2> HIDE DEF op
  <2> QED BY <1>1, <1>2, ExceptSeq DEF Queue
<1>4. DOMAIN next = DOMAIN ops
  OBVIOUS
<1>5. next # <<>>
  <2> HIDE DEF next
  <2>1. Len(next) # 0
    BY <1>1, <1>3
  <2> QED BY <2>1
<1>6. [ops EXCEPT ![1].phase = phase] = next
  OBVIOUS
<1> HIDE DEF op, next
<1>7. \A n \in DOMAIN ops : /\ next[n].kind = ops[n].kind /\ next[n].id = ops[n].id /\ (n # 1 => next[n] = ops[n])
                            /\ n = 1 => ops[n].phase # "applied"
  BY <1>1, <1>2, <1>3
<1>8. \A n \in DOMAIN ops : Claims(next[n], pending, routed, s)
  BY <1>7 DEF QueueOf, Claims
<1>9. QueueOf(next, pending, routed, s)
  BY <1>1, <1>4, <1>7, <1>8 DEF QueueOf
<1>10. next[1].phase = phase /\ next[1].kind = ops[1].kind /\ next[1].id = ops[1].id
  BY <1>1, <1>2, <1>3
<1>11. \A n \in DOMAIN ops : n > 1 => next[n] = ops[n]
  BY <1>1, <1>7
<1> QED BY <1>3, <1>4, <1>5, <1>6, <1>9, <1>10, <1>11, ZenonT(30)

\* An operation enters behind the others; an action's is with a router first.
LEMMA QueueAppends ==
  ASSUME NEW ops \in Queue, NEW pending, NEW routed, NEW s, QueueOf(ops, pending, routed, s),
         NEW op \in Operation, op.phase = "queued", Claims(op, pending, routed, s),
         op.kind \in {"flag", "truncate"} => \A n \in DOMAIN ops : ops[n].kind # op.kind
  PROVE  Append(ops, op) \in Queue /\ QueueOf(Append(ops, op), pending, routed, s) /\ Append(ops, op) # <<>>
<1> DEFINE more == Append(ops, op)
<1>1. /\ more \in Queue /\ Len(ops) \in Nat /\ more # <<>>
      /\ DOMAIN more = 1..(Len(ops) + 1) /\ DOMAIN ops = 1..Len(ops)
      /\ more[Len(ops) + 1] = op /\ \A n \in 1..Len(ops) : more[n] = ops[n]
  BY AppendFacts DEF Queue
<1> HIDE DEF more
<1>2. Len(ops) \in Nat
  BY <1>1
<1>3. \A n \in 1..(Len(ops) + 1) : n \in 1..Len(ops) \/ n = Len(ops) + 1
  BY <1>2
<1>4. \A n \in DOMAIN more : (n \in DOMAIN ops /\ more[n] = ops[n]) \/ (n = Len(ops) + 1 /\ more[n] = op)
  BY <1>1, <1>3
<1>5. \A n \in DOMAIN more : Claims(more[n], pending, routed, s) /\ (n > 1 => more[n].phase = "queued")
  BY <1>4 DEF QueueOf
<1>6. \A m, n \in DOMAIN more :
         more[m].kind = more[n].kind /\ more[m].kind \in {"flag", "truncate"} => m = n
  BY <1>4 DEF QueueOf
<1> QED BY <1>1, <1>5, <1>6 DEF more, QueueOf

\* An action that arrives is nobody's operation yet.
LEMMA QueueSends ==
  ASSUME NEW ops \in Queue, NEW pending \in Chains, NEW routed \in Flags, NEW s \in Seq(Actions), NEW a \in Actions,
         \A d \in Channels : \A n \in DOMAIN pending[d] : pending[d][n] \in DOMAIN s,
         NEW c \in Channels, NEW k \in Ids, QueueOf(ops, pending, routed, s)
  PROVE  QueueOf(ops, [pending EXCEPT ![c] = Append(@, k)], routed, Append(s, a))
<1> DEFINE more == [pending EXCEPT ![c] = Append(@, k)]
<1>1. ASSUME NEW d \in Channels, pending[d] # <<>>
      PROVE  /\ more[d] # <<>> /\ more[d][1] = pending[d][1]
             /\ pending[d][1] \in DOMAIN s
  <2>1. pending[d] \in Seq(Ids)
    BY DEF Chains
  <2>2. 1 \in DOMAIN pending[d] /\ 1 \in 1..Len(pending[d])
    BY <1>1, <2>1, TailFacts, LenProperties
  <2>3. Append(pending[d], k) # <<>> /\ Append(pending[d], k)[1] = pending[d][1]
    BY <2>1, <2>2, AppendFacts
  <2>4. more[d] = IF d = c THEN Append(pending[d], k) ELSE pending[d]
    BY DEF Chains
  <2> QED BY <1>1, <2>2, <2>3, <2>4
<1>2. \A i \in DOMAIN s : Append(s, a)[i] = s[i] /\ i \in DOMAIN Append(s, a)
  BY AppendFacts
<1> HIDE DEF more
<1>3. ASSUME NEW n \in DOMAIN ops PROVE Claims(ops[n], more, routed, Append(s, a))
  <2>1. ChannelOf(ops[n].kind) \in Channels
    BY DEF ChannelOf, Channels
  <2>2. Claims(ops[n], pending, routed, s)
    BY DEF QueueOf
  <2> QED BY <1>1, <1>2, <2>1, <2>2 DEF Claims
<1> QED BY <1>3 DEF QueueOf, more

-----------------------------------------------------------------------------
(* States of the host within a handler *)

\* What entering and leaving the queue or a router leaves alone.
Same(h, g) ==
  /\ g \in Host
  /\ g.pending = h.pending /\ g.loaded = h.loaded /\ g.shown = h.shown /\ g.active = h.active /\ g.turns = h.turns

LEMMA HostFields ==
  ASSUME NEW h \in Host
  PROVE  /\ h.loaded \in BOOLEAN /\ h.shown \in BOOLEAN /\ h.disposing \in BOOLEAN /\ h.ops \in Queue
         /\ h.pending \in Chains /\ h.routed \in Flags /\ h.driver \in BOOLEAN /\ h.active \in BOOLEAN /\ h.turns \in Nat
BY DEF Host, Queue, Chains, Flags

LEMMA WithOps ==
  ASSUME NEW h \in Host, NEW ops \in Queue
  PROVE  /\ Same(h, [h EXCEPT !.ops = ops]) /\ [h EXCEPT !.ops = ops].ops = ops
         /\ [h EXCEPT !.ops = ops].routed = h.routed
<1>1. [h EXCEPT !.ops = ops] \in Host
  BY ZenonT(30) DEF Host, Queue
<1> QED BY <1>1 DEF Same, Host

LEMMA RoutedFacts ==
  ASSUME NEW h \in Host, NEW c \in Channels, NEW b \in BOOLEAN
  PROVE  LET g == [h EXCEPT !.routed[c] = b]
         IN  /\ Same(h, g) /\ g.ops = h.ops /\ g.driver = h.driver
             /\ \A d \in Channels : g.routed[d] = IF d = c THEN b ELSE h.routed[d]
<1> DEFINE f == [h.routed EXCEPT ![c] = b]
           g == [h EXCEPT !.routed = f]
<1>1. f \in [Channels -> BOOLEAN] /\ \A d \in Channels : f[d] = IF d = c THEN b ELSE h.routed[d]
  BY DEF Host
<1>2. [h EXCEPT !.routed[c] = b] = g
  OBVIOUS
<1> HIDE DEF f
<1>3. g \in Host
  BY <1>1, ZenonT(30) DEF Host
<1>4. g.routed = f /\ g.ops = h.ops /\ g.driver = h.driver /\ Same(h, g)
  BY <1>3 DEF Host, Same
<1> HIDE DEF g
<1>5. \A d \in Channels : g.routed[d] = IF d = c THEN b ELSE h.routed[d]
  BY <1>1, <1>4
<1> QED BY <1>2, <1>4, <1>5

LEMMA EnterFacts ==
  ASSUME NEW h \in Host, NEW phase \in Phases, NEW s, h.ops # <<>>, QueueOf(h.ops, h.pending, h.routed, s),
         h.ops[1].phase # "applied"
  PROVE  LET g == Enter(h, phase)
         IN  /\ Same(h, g) /\ g.routed = h.routed /\ g.ops # <<>> /\ DOMAIN g.ops = DOMAIN h.ops
             /\ QueueOf(g.ops, g.pending, g.routed, s)
             /\ g.ops[1].phase = phase /\ g.ops[1].kind = h.ops[1].kind /\ g.ops[1].id = h.ops[1].id
             /\ \A n \in DOMAIN h.ops : n > 1 => g.ops[n] = h.ops[n]
<1> DEFINE ops == [h.ops EXCEPT ![1].phase = phase]
           g == [h EXCEPT !.ops = ops]
<1>1. /\ ops \in Queue /\ QueueOf(ops, h.pending, h.routed, s) /\ ops # <<>> /\ DOMAIN ops = DOMAIN h.ops
      /\ ops[1].phase = phase /\ ops[1].kind = h.ops[1].kind /\ ops[1].id = h.ops[1].id
      /\ \A n \in DOMAIN h.ops : n > 1 => ops[n] = h.ops[n]
  <2>1. h.ops \in Queue
    BY HostFields
  <2> QED BY <2>1, QueueEnters
<1>2. Enter(h, phase) = g
  BY DEF Enter
<1> HIDE DEF ops
<1>3. Same(h, g) /\ g.ops = ops /\ g.routed = h.routed
  BY <1>1, WithOps
<1> HIDE DEF g
<1>4. QueueOf(g.ops, g.pending, g.routed, s)
  BY <1>1, <1>3 DEF Same
<1>5. /\ g.ops # <<>> /\ DOMAIN g.ops = DOMAIN h.ops
      /\ g.ops[1].phase = phase /\ g.ops[1].kind = h.ops[1].kind /\ g.ops[1].id = h.ops[1].id
      /\ \A n \in DOMAIN h.ops : n > 1 => g.ops[n] = h.ops[n]
  BY <1>1, <1>3
<1> QED BY <1>2, <1>3, <1>4, <1>5

LEMMA EndedFacts ==
  ASSUME NEW h \in Host, h.ops # <<>>
  PROVE  Same(h, Ended(h)) /\ Ended(h).ops = Tail(h.ops) /\ Ended(h).routed = h.routed
<1>1. Tail(h.ops) \in Queue
  BY HostFields, TailFacts DEF Queue
<1> QED BY <1>1, WithOps DEF Ended

\* An outcome that commits reduces the action into the state.
LEMMA ReducedFacts ==
  ASSUME NEW h \in Host, NEW a \in Actions
  PROVE  LET g == Reduced(h, a)
         IN  /\ g \in Host /\ g.pending = h.pending /\ g.routed = h.routed /\ g.ops = h.ops
             /\ g.loaded = h.loaded
             /\ g.shown = IF a.kind = "flag" /\ h.loaded THEN a.value ELSE h.shown
             /\ g.active = IF a.kind = "turn" THEN TRUE ELSE IF a.kind = "truncate" THEN FALSE ELSE h.active
             /\ g.turns = IF a.kind = "truncate" THEN a.value ELSE h.turns
<1>1. CASE a.kind = "flag"
  <2> DEFINE b == IF h.loaded THEN a.value ELSE h.shown
             g == [h EXCEPT !.shown = b]
  <2>1. b \in BOOLEAN
    BY <1>1, ActionFacts DEF Host
  <2>2. Reduced(h, a) = g
    BY <1>1 DEF Reduced
  <2> HIDE DEF b
  <2>3. g \in Host
    BY <2>1, ZenonT(30) DEF Host
  <2>4. /\ g.pending = h.pending /\ g.routed = h.routed /\ g.ops = h.ops /\ g.loaded = h.loaded
        /\ g.shown = b /\ g.active = h.active /\ g.turns = h.turns
    BY DEF Host
  <2> QED BY <1>1, <2>2, <2>3, <2>4 DEF b
<1>2. CASE a.kind = "turn"
  <2> DEFINE g == [h EXCEPT !.active = TRUE]
  <2>1. Reduced(h, a) = g
    BY <1>2 DEF Reduced
  <2>2. g \in Host
    BY ZenonT(30) DEF Host
  <2>3. /\ g.pending = h.pending /\ g.routed = h.routed /\ g.ops = h.ops /\ g.loaded = h.loaded
        /\ g.shown = h.shown /\ g.active = TRUE /\ g.turns = h.turns
    BY DEF Host
  <2> QED BY <1>2, <2>1, <2>2, <2>3
<1>3. CASE a.kind = "truncate"
  <2> DEFINE g == [h EXCEPT !.turns = a.value, !.active = FALSE]
  <2>1. Reduced(h, a) = g
    BY <1>3 DEF Reduced
  <2>2. a.value \in Nat
    BY <1>3, ActionFacts
  <2>3. g \in Host
    BY <2>2, ZenonT(30) DEF Host
  <2>4. /\ g.pending = h.pending /\ g.routed = h.routed /\ g.ops = h.ops /\ g.loaded = h.loaded
        /\ g.shown = h.shown /\ g.active = FALSE /\ g.turns = a.value
    BY DEF Host
  <2> QED BY <1>3, <2>1, <2>3, <2>4
<1>4. CASE a.kind \in {"title", "draft"}
  <2>1. Reduced(h, a) = h
    BY <1>4 DEF Reduced
  <2> QED BY <1>4, <2>1
<1> QED BY <1>1, <1>2, <1>3, <1>4, ActionFacts

-----------------------------------------------------------------------------
(* How a step ends: the action waits on, or it is answered *)

LEMMA StateFacts ==
  ASSUME TypeOK
  PROVE  /\ host \in Host /\ sent \in Seq(Actions) /\ Len(sent) \in Nat /\ Len(sent) <= MaxActions
         /\ DOMAIN sent = 1..Len(sent) /\ DOMAIN sent \subseteq Ids
         /\ \A i \in DOMAIN sent : sent[i] \in Actions
         /\ \A c \in Channels : host.pending[c] \in Seq(Ids) /\ seen.log[c] \in Seq(Told)
         /\ disk.leaf \in Nat /\ disk.flag \in BOOLEAN /\ disk.file \in BOOLEAN
<1>1. host \in Host /\ sent \in Seq(Actions) /\ Len(sent) <= MaxActions
  BY DEF TypeOK
<1>2. Len(sent) \in Nat /\ DOMAIN sent = 1..Len(sent) /\ \A i \in DOMAIN sent : sent[i] \in Actions
  BY <1>1, LenProperties, ElementOfSeq
<1>3. DOMAIN sent \subseteq Ids
  BY <1>1, <1>2, BoundsAssumption DEF Ids
<1>4. \A c \in Channels : host.pending[c] \in Seq(Ids)
  BY <1>1 DEF Host
<1>5. \A c \in Channels : seen.log[c] \in Seq(Told)
  BY DEF TypeOK
<1>6. disk.leaf \in Nat /\ disk.flag \in BOOLEAN /\ disk.file \in BOOLEAN
  BY DEF TypeOK
<1> QED BY <1>1, <1>2, <1>3, <1>4, <1>5, <1>6

\* The truncation at the head of a queue has moved pi's leaf.
Moved(ops) == ops # <<>> /\ ops[1].kind = "truncate" /\ ops[1].phase = "moved"

LEMMA MovedRuns ==
  ASSUME NEW h \in Host
  PROVE  Moved(h.ops) <=> h.ops # <<>> /\ Head(h.ops).kind = "truncate" /\ Head(h.ops).phase = "moved"
<1>1. h.ops # <<>> => Head(h.ops) = h.ops[1]
  BY HostFields, TailFacts DEF Queue
<1> QED BY <1>1 DEF Moved

\* The operation that runs, if an action entered it, is about the first action
\* of its channel's chain.
LEMMA RunningFacts ==
  ASSUME Inv, NEW kind \in {"flag", "truncate"}, NEW phase, Runs(kind, phase)
  PROVE  LET c == ChannelOf(kind)
             i == Running
         IN  /\ host.ops # <<>> /\ host.ops[1].kind = kind /\ host.ops[1].phase = phase /\ host.ops[1].id = i
             /\ c \in Channels /\ (phase # "applied" => host.pending[c] # <<>> /\ i = host.pending[c][1])
             /\ i \in DOMAIN sent /\ sent[i] \in Actions /\ sent[i].kind = kind /\ sent[i].channel = c
<1>1. TypeOK /\ host.ops \in Queue
  BY StateFacts, HostFields DEF Inv
<1>2. /\ host.ops # <<>> /\ Head(host.ops) = host.ops[1] /\ 1 \in DOMAIN host.ops
      /\ host.ops[1].kind = kind /\ host.ops[1].phase = phase /\ host.ops[1].id = Running
  BY <1>1, TailFacts, LenProperties DEF Runs, Running, Queue
<1> DEFINE c == ChannelOf(kind)
           i == Running
<1>3. c \in Channels
  BY DEF ChannelOf, Channels
<1>4. /\ i \in DOMAIN sent /\ sent[i].kind = kind
      /\ phase # "applied" => host.pending[c] # <<>> /\ i = host.pending[c][1]
  BY <1>2 DEF Inv, QueueInv, QueueOf, Claims
<1>5. sent[i] \in Actions
  BY <1>1, <1>4, StateFacts
<1>6. sent[i].channel = c
  BY <1>4, <1>5, ActionFacts DEF ChannelOf
<1> QED BY <1>2, <1>3, <1>4, <1>5, <1>6

Seen == [log : [Channels -> Seq(Told)], flag : BOOLEAN, cut : SUBSET Ids]
Disk == [file : BOOLEAN, leaf : Nat, flag : BOOLEAN]
Spent == [disposals : 0..MaxDisposals, crashes : 0..MaxCrashes]

\* A step that sends and answers nothing.
LEMMA StepKeeps ==
  ASSUME Inv, sent' = sent, host' \in Host, host'.pending = host.pending, disk' \in Disk,
         seen' \in Seen, seen'.log = seen.log, seen'.cut \subseteq DOMAIN sent, spent' \in Spent,
         QueueOf(host'.ops, host'.pending, host'.routed, sent), BusyOf(host'.ops, host'.active, disk'.leaf, sent),
         FlagIsOwned', host'.loaded /\ ~Moved(host'.ops) => host'.turns = disk'.leaf
  PROVE  Inv'
<1>1. TypeOK'
  BY DEF Inv, TypeOK, Seen, Disk, Spent
<1>2. ChainInv'
  BY DEF Inv, ChainInv
<1>3. QueueInv' /\ BusyInv' /\ CutInv'
  BY DEF QueueInv, BusyInv, CutInv
<1>4. ChatFollowsPi'
  <2>1. Runs("truncate", "moved")' <=> Moved(host'.ops)
    BY MovedRuns DEF Runs
  <2> QED BY <2>1 DEF ChatFollowsPi
<1> QED BY <1>1, <1>2, <1>3, <1>4 DEF Inv

\* A step after which an action, or a loading or disposal, waits on.
LEMMA WaitKeeps ==
  ASSUME Inv, NEW h, Same(host, h), Wait(h), sent' = sent, spent' = spent \/ spent' \in Spent,
         QueueOf(h.ops, h.pending, h.routed, sent), BusyOf(h.ops, h.active, disk.leaf, sent),
         h.loaded /\ ~Moved(h.ops) => h.turns = disk.leaf
  PROVE  Inv'
<1>1. host' = h /\ UNCHANGED <<sent, disk, seen>>
  BY DEF Wait
<1>2. host' \in Host /\ host'.pending = host.pending
  BY <1>1 DEF Same
<1>3. disk' \in Disk /\ seen' \in Seen /\ spent' \in Spent /\ seen'.log = seen.log /\ seen'.cut \subseteq DOMAIN sent
  BY <1>1 DEF Inv, TypeOK, CutInv, Disk, Seen, Spent
<1>4. FlagIsOwned'
  BY <1>1 DEF Inv, FlagIsOwned, Same
<1> QED BY <1>1, <1>2, <1>3, <1>4, StepKeeps

\* The first action of a chain.
LEMMA FirstFacts ==
  ASSUME Inv, NEW c \in Channels, host.pending[c] # <<>>, NEW i, i = host.pending[c][1]
  PROVE  i \in DOMAIN sent /\ i \in Ids /\ sent[i] \in Actions /\ sent[i].channel = c
<1>1. host.pending[c] \in Seq(Ids) /\ TypeOK
  BY StateFacts DEF Inv
<1>2. 1 \in DOMAIN host.pending[c]
  BY <1>1, TailFacts, LenProperties
<1>3. i \in DOMAIN sent /\ sent[i].channel = c
  BY <1>2 DEF Inv, ChainInv, ChainOf
<1> QED BY <1>1, <1>3, StateFacts

Results(h, a) == {Quietly(h), Rejected(h), Committed(Reduced(h, a))}

\* What an outcome makes of the host.
LEMMA OutcomeFacts ==
  ASSUME NEW h \in Host, NEW a \in Actions, NEW r \in Results(h, a)
  PROVE  LET yes == r.out = "committed"
         IN  /\ r.out \in {"none", "rejected", "committed"} /\ (yes => r = Committed(Reduced(h, a)))
             /\ r.host \in Host /\ r.host.pending = h.pending /\ r.host.routed = h.routed /\ r.host.ops = h.ops
             /\ r.host.loaded = h.loaded
             /\ r.host.shown = IF yes /\ a.kind = "flag" /\ h.loaded THEN a.value ELSE h.shown
             /\ r.host.active = IF yes /\ a.kind = "turn" THEN TRUE
                               ELSE IF yes /\ a.kind = "truncate" THEN FALSE ELSE h.active
             /\ r.host.turns = IF yes /\ a.kind = "truncate" THEN a.value ELSE h.turns
<1> DEFINE yes == r.out = "committed"
<1>1. /\ r.out \in {"none", "rejected", "committed"}
      /\ yes => r = Committed(Reduced(h, a))
      /\ ~yes => r.host = h
  BY DEF Results, Quietly, Rejected, Committed
<1> HIDE DEF yes
<1>2. CASE yes
  <2> DEFINE q == Reduced(h, a)
  <2>1. r.host = q
    BY <1>1, <1>2 DEF Committed
  <2>2. /\ q \in Host /\ q.pending = h.pending /\ q.routed = h.routed /\ q.ops = h.ops
        /\ q.loaded = h.loaded
        /\ q.shown = IF a.kind = "flag" /\ h.loaded THEN a.value ELSE h.shown
        /\ q.active = IF a.kind = "turn" THEN TRUE ELSE IF a.kind = "truncate" THEN FALSE ELSE h.active
        /\ q.turns = IF a.kind = "truncate" THEN a.value ELSE h.turns
    BY ReducedFacts
  <2> HIDE DEF q
  <2> QED BY <1>1, <1>2, <2>1, <2>2 DEF yes
<1>3. CASE ~yes
  BY <1>1, <1>3 DEF yes
<1> QED BY <1>2, <1>3

\* The step answers the first action i of the chain of c, or drops it, and leaves the
\* routers as after says: h is the host before the outcome r, with the queue as it
\* will be.
Ready(c, i, h, r, after) ==
  /\ host.pending[c] # <<>> /\ i = host.pending[c][1] /\ Same(host, h)
  /\ r \in {Quietly(h), Rejected(h), Committed(Reduced(h, sent[i]))}
  /\ after \in Flags /\ QueueOf(h.ops, [host.pending EXCEPT ![c] = Tail(@)], after, sent)
  /\ BusyOf(h.ops, host.active, disk.leaf, sent)
  /\ c = "chat" /\ r = Committed(Reduced(h, sent[i])) =>
       sent[i].kind = "truncate" \/ \A n \in DOMAIN h.ops : h.ops[n].kind # "truncate"
  /\ IF r = Committed(Reduced(h, sent[i])) /\ sent[i].kind = "truncate" THEN sent[i].value = disk.leaf
     ELSE host.loaded /\ ~Moved(h.ops) => host.turns = disk.leaf

LEMMA TellKeeps ==
  ASSUME Inv, NEW c \in Channels, NEW i, NEW h, NEW r, NEW after, Ready(c, i, h, r, after), Tell(i, r),
         host' = [r.host EXCEPT !.pending = [host.pending EXCEPT ![c] = Tail(@)], !.routed = after],
         UNCHANGED <<sent, spent>>
  PROVE  Inv'
<1> USE DEF Ready
<1> DEFINE a == sent[i]
           yes == r.out = "committed"
           g == r.host
           more == [host.pending EXCEPT ![c] = Tail(@)]
<1>1. /\ TypeOK /\ host \in Host /\ h \in Host /\ h.pending = host.pending /\ h.loaded = host.loaded
      /\ h.shown = host.shown /\ h.active = host.active /\ h.turns = host.turns
      /\ h.ops \in Queue /\ host.pending \in Chains /\ after \in Flags
  BY HostFields, StateFacts DEF Inv, Same
<1>2. i \in DOMAIN sent /\ i \in Ids /\ a \in Actions /\ a.channel = c
  BY FirstFacts
<1>3. /\ r.out \in {"none", "rejected", "committed"}
      /\ yes => r = Committed(Reduced(h, a))
  BY DEF Quietly, Rejected, Committed
<1>4. /\ g \in Host /\ g.pending = h.pending /\ g.routed = h.routed /\ g.ops = h.ops
      /\ g.loaded = h.loaded
      /\ g.shown = IF yes /\ a.kind = "flag" /\ h.loaded THEN a.value ELSE h.shown
      /\ g.active = IF yes /\ a.kind = "turn" THEN TRUE
                    ELSE IF yes /\ a.kind = "truncate" THEN FALSE ELSE h.active
      /\ g.turns = IF yes /\ a.kind = "truncate" THEN a.value ELSE h.turns
  <2>1. h \in Host /\ a \in Actions /\ r \in Results(h, a)
    BY <1>1, <1>2 DEF Results
  <2> HIDE DEF a, Ready
  <2> QED BY <2>1, OutcomeFacts
<1>5. /\ more \in Chains /\ more[c] = Tail(host.pending[c])
      /\ \A d \in Channels : d # c => more[d] = host.pending[d]
  <2>1. Tail(host.pending[c]) \in Seq(Ids)
    BY <1>1, TailFacts DEF Chains
  <2> QED BY <1>1, <2>1 DEF Chains
<1>6. /\ host' = [g EXCEPT !.pending = more, !.routed = after]
      /\ seen' = [seen EXCEPT !.log[c] = IF r.out = "none" THEN @ ELSE Append(@, [id |-> i, out |-> r.out]),
                              !.flag = IF yes /\ a.kind = "flag" THEN a.value ELSE @]
      /\ disk' = IF yes /\ a.kind = "flag" THEN [disk EXCEPT !.flag = a.value] ELSE disk
      /\ UNCHANGED <<sent, spent>>
  BY <1>2 DEF Tell
<1> HIDE DEF more, g
<1>7. /\ host' \in Host /\ host'.pending = more /\ host'.routed = after /\ host'.ops = h.ops
      /\ host'.loaded = host.loaded /\ host'.shown = g.shown /\ host'.active = g.active /\ host'.turns = g.turns
  <2>1. g \in Host /\ more \in [Channels -> Seq(Ids)] /\ after \in [Channels -> BOOLEAN]
    BY <1>1, <1>4, <1>5 DEF Chains, Flags
  <2>2. host' \in Host
    BY <1>6, <2>1, ZenonT(30) DEF Host
  <2>3. /\ host'.pending = more /\ host'.routed = after /\ host'.ops = g.ops
        /\ host'.loaded = g.loaded /\ host'.shown = g.shown /\ host'.active = g.active /\ host'.turns = g.turns
    BY <1>6, <2>1 DEF Host
  <2> QED BY <1>1, <1>4, <2>2, <2>3
<1> DEFINE e == [id |-> i, out |-> r.out]
           log == seen.log
           new == IF r.out = "none" THEN log[c] ELSE Append(log[c], e)
<1>8. /\ log \in [Channels -> Seq(Told)] /\ new \in Seq(Told) /\ (new = log[c] \/ (e \in Told /\ new = Append(log[c], e)))
  <2>1. r.out # "none" => e \in Told
    BY <1>2, <1>3 DEF Told, Outcomes
  <2>2. log \in [Channels -> Seq(Told)]
    BY <1>1 DEF TypeOK
  <2> HIDE DEF e, log
  <2> QED BY <2>1, <2>2, AppendFacts DEF log
<1>9. /\ seen'.log = [log EXCEPT ![c] = new] /\ seen'.cut = seen.cut
      /\ seen'.flag = IF yes /\ a.kind = "flag" THEN a.value ELSE seen.flag
      /\ seen' \in [log : [Channels -> Seq(Told)], flag : BOOLEAN, cut : SUBSET Ids]
  <2> DEFINE logs == [log EXCEPT ![c] = new]
             flag == IF yes /\ a.kind = "flag" THEN a.value ELSE seen.flag
  <2>1. seen \in [log : [Channels -> Seq(Told)], flag : BOOLEAN, cut : SUBSET Ids]
    BY <1>1 DEF TypeOK
  <2>2. seen' = [seen EXCEPT !.log = logs, !.flag = flag]
    BY <1>6
  <2>3. flag \in BOOLEAN
    BY <1>2, <2>1, ActionFacts
  <2>4. logs \in [Channels -> Seq(Told)]
    <3> HIDE DEF new, log
    <3> QED BY <1>8
  <2> HIDE DEF logs, flag
  <2>5. seen'.log = logs /\ seen'.cut = seen.cut /\ seen'.flag = flag
    BY <2>1, <2>2
  <2>6. seen' \in [log : [Channels -> Seq(Told)], flag : BOOLEAN, cut : SUBSET Ids]
    BY <2>1, <2>2, <2>3, <2>4, ZenonT(30)
  <2> QED BY <2>5, <2>6 DEF logs, flag
<1>10. /\ disk' \in [file : BOOLEAN, leaf : Nat, flag : BOOLEAN] /\ disk'.leaf = disk.leaf
       /\ disk'.flag = IF yes /\ a.kind = "flag" THEN a.value ELSE disk.flag
  <2>1. disk \in [file : BOOLEAN, leaf : Nat, flag : BOOLEAN]
    BY <1>1 DEF TypeOK
  <2>2. a.kind = "flag" => a.value \in BOOLEAN
    BY <1>2, ActionFacts
  <2> HIDE DEF yes, a
  <2> QED BY <1>6, <2>1, <2>2
<1> HIDE DEF e, log, new
<1>11. TypeOK'
  BY <1>1, <1>6, <1>7, <1>9, <1>10 DEF TypeOK
<1>12. ChainInv'
  <2>1. ASSUME NEW d \in Channels PROVE ChainOf(d, more[d], seen'.log[d], sent)
    <3>1. ChainOf(d, host.pending[d], log[d], sent) /\ host.pending[d] \in Seq(Ids) /\ log[d] \in Seq(Told)
      BY <1>1, StateFacts DEF Inv, ChainInv, log
    <3>2. seen'.log[d] = IF d = c THEN new ELSE log[d]
      BY <1>8, <1>9
    <3>3. CASE d # c
      BY <1>5, <3>1, <3>2, <3>3
    <3>4. CASE d = c /\ new = log[c]
      <4>1. [id |-> i, out |-> "rejected"] \in Told /\ [id |-> i, out |-> "rejected"].id = i
        BY <1>2 DEF Told, Outcomes
      <4>2. ChainOf(c, Tail(host.pending[c]), new, sent)
        BY <1>8, <3>1, <3>4, <4>1, ChainAnswers
      <4> QED BY <1>5, <3>2, <3>4, <4>2
    <3>5. CASE d = c /\ e \in Told /\ new = Append(log[c], e)
      <4>1. e.id = i
        BY DEF e
      <4>2. ChainOf(c, Tail(host.pending[c]), new, sent)
        BY <1>8, <3>1, <3>5, <4>1, ChainAnswers
      <4> QED BY <1>5, <3>2, <3>5, <4>2
    <3> QED BY <1>8, <3>3, <3>4, <3>5
  <2> QED BY <1>6, <1>7, <2>1 DEF ChainInv
<1>13. QueueInv'
  <2>1. QueueOf(h.ops, more, after, sent)
    BY DEF more
  <2> QED BY <1>6, <1>7, <2>1 DEF QueueInv
<1>14. BusyInv'
  <2>1. BusyOf(h.ops, host.active, disk.leaf, sent)
    OBVIOUS
  <2>2. CASE yes /\ a.kind = "turn"
    <3>1. c = "chat" /\ a.kind # "truncate" /\ r = Committed(Reduced(h, a))
      BY <1>2, <1>3, <2>2, ActionFacts
    <3>2. \A n \in DOMAIN h.ops : h.ops[n].kind # "truncate"
      BY <3>1
    <3> QED BY <1>7, <3>2 DEF BusyInv, BusyOf
  <2>3. CASE ~(yes /\ a.kind = "turn")
    <3>1. host'.active = host.active \/ host'.active = FALSE
      BY <1>1, <1>4, <1>7, <2>3
    <3>2. BusyOf(h.ops, host'.active, disk.leaf, sent)
      <4>1. CASE host'.active = host.active
        BY <2>1, <4>1
      <4>2. CASE host'.active = FALSE
        BY <2>1, <4>2 DEF BusyOf
      <4> QED BY <3>1, <4>1, <4>2
    <3> QED BY <1>6, <1>7, <1>10, <3>2 DEF BusyInv
  <2> QED BY <2>2, <2>3
<1>15. CutInv'
  BY <1>6, <1>9 DEF Inv, CutInv
<1>16. FlagIsOwned'
  <2>1. host'.loaded => host'.shown = disk'.flag
    <3>1. host'.shown = IF yes /\ a.kind = "flag" /\ host.loaded THEN a.value ELSE host.shown
      BY <1>1, <1>4, <1>7
    <3> HIDE DEF yes, a
    <3> QED BY <1>7, <1>10, <3>1 DEF Inv, FlagIsOwned
  <2>2. disk'.flag = seen'.flag \/ \E j \in seen'.cut : sent'[j].kind = "flag" /\ sent'[j].value = disk'.flag
    <3> HIDE DEF yes, a
    <3> QED BY <1>6, <1>9, <1>10 DEF Inv, FlagIsOwned
  <2> QED BY <2>1, <2>2 DEF FlagIsOwned
<1>17. ChatFollowsPi'
  <2>1. Runs("truncate", "moved")' <=> Moved(h.ops)
    BY <1>7, MovedRuns DEF Runs
  <2>2. host'.turns = IF yes /\ a.kind = "truncate" THEN a.value ELSE host.turns
    BY <1>1, <1>4, <1>7
  <2>3. r = Committed(Reduced(h, sent[i])) => yes
    BY DEF Committed
  <2>4. yes /\ a.kind = "truncate" => a.value = disk.leaf
    BY <1>3
  <2> HIDE DEF yes
  <2> QED BY <1>7, <1>10, <2>1, <2>2, <2>3, <2>4 DEF ChatFollowsPi
<1> QED BY <1>11, <1>12, <1>13, <1>14, <1>15, <1>16, <1>17 DEF Inv

\* A handler that is done frees its chain: no operation of the channel is left.
LEMMA AnswerKeeps ==
  ASSUME Inv, NEW c \in Channels, NEW i, NEW h, NEW r, Answer(i, r), UNCHANGED <<sent, spent>>,
         host.pending[c] # <<>>, i = host.pending[c][1], Same(host, h),
         r \in {Quietly(h), Rejected(h), Committed(Reduced(h, sent[i]))},
         QueueOf(h.ops, h.pending, h.routed, sent), BusyOf(h.ops, host.active, disk.leaf, sent),
         \A n \in DOMAIN h.ops : h.ops[n].kind \in {"flag", "truncate"} => ChannelOf(h.ops[n].kind) # c,
         IF r = Committed(Reduced(h, sent[i])) /\ sent[i].kind = "truncate" THEN sent[i].value = disk.leaf
         ELSE host.loaded /\ ~Moved(h.ops) => host.turns = disk.leaf
  PROVE  Inv'
<1> DEFINE after == [h.routed EXCEPT ![c] = FALSE]
           more == [host.pending EXCEPT ![c] = Tail(@)]
<1>1. /\ host \in Host /\ h \in Host /\ h.pending = host.pending
      /\ h.ops \in Queue /\ h.pending \in Chains /\ h.routed \in Flags
  BY HostFields, StateFacts DEF Inv, Same
<1>2. i \in DOMAIN sent /\ sent[i] \in Actions /\ sent[i].channel = c
  BY FirstFacts
<1>3. r.host.pending = host.pending /\ r.host.routed = h.routed
  <2> DEFINE a == sent[i]
  <2>1. a \in Actions /\ r \in Results(h, a)
    BY <1>2 DEF Results
  <2> HIDE DEF a
  <2> QED BY <1>1, <2>1, OutcomeFacts
<1>4. host' = [r.host EXCEPT !.pending = more, !.routed = after] /\ Tell(i, r)
  BY <1>2, <1>3 DEF Answer, Settled
<1>5. after \in Flags /\ more \in Chains /\ \A d \in Channels : d # c => more[d] = h.pending[d] /\ after[d] = h.routed[d]
  <2>1. Tail(host.pending[c]) \in Seq(Ids)
    BY <1>1, TailFacts DEF Chains
  <2> QED BY <1>1, <2>1 DEF Chains, Flags
<1> HIDE DEF after, more
<1>6. QueueOf(h.ops, more, after, sent)
  BY <1>1, <1>5, QueueSettles
<1>7. c = "chat" => \A n \in DOMAIN h.ops : h.ops[n].kind # "truncate"
  BY DEF ChannelOf
<1>8. Ready(c, i, h, r, after)
  BY <1>5, <1>6, <1>7 DEF Ready, more
<1> QED BY <1>4, <1>8, TellKeeps DEF more

-----------------------------------------------------------------------------
(* Sending, routing and the queue *)

\* At first nothing is sent, loaded or stored.
LEMMA InitInv == Init => Inv
<1> SUFFICES ASSUME Init PROVE Inv
  OBVIOUS
<1>1. /\ sent = <<>> /\ host = Cold /\ disk = [file |-> TRUE, leaf |-> MaxTurns, flag |-> FALSE]
      /\ seen = [log |-> [c \in Channels |-> <<>>], flag |-> FALSE, cut |-> {}]
      /\ spent = [disposals |-> 0, crashes |-> 0]
  BY DEF Init
<1>2. <<>> \in Seq(Ids) /\ <<>> \in Seq(Told) /\ <<>> \in Seq(Actions) /\ <<>> \in Seq(Operation)
  BY EmptySeq
<1>3. Cold \in Host /\ Cold.ops = <<>> /\ Cold.pending = [c \in Channels |-> <<>>] /\ ~Cold.loaded
  BY <1>2 DEF Cold, Host
<1>4. TypeOK
  BY <1>1, <1>2, <1>3, BoundsAssumption DEF TypeOK
<1>5. ChainInv
  BY <1>1, <1>3 DEF ChainInv, ChainOf, Increasing
<1>6. QueueInv /\ BusyInv
  BY <1>1, <1>3 DEF QueueInv, QueueOf, BusyInv, BusyOf
<1>7. CutInv /\ FlagIsOwned /\ ChatFollowsPi
  BY <1>1, <1>3 DEF CutInv, FlagIsOwned, ChatFollowsPi
<1> QED BY <1>4, <1>5, <1>6, <1>7 DEF Inv

LEMMA SendInv ==
  ASSUME Inv, NEW a \in Actions, Send(a)
  PROVE  Inv'
<1> DEFINE k == Len(sent) + 1
           c == a.channel
           more == [host.pending EXCEPT ![c] = Append(@, k)]
<1>1. /\ TypeOK /\ host \in Host /\ sent \in Seq(Actions) /\ Len(sent) \in Nat /\ c \in Channels
      /\ host.ops \in Queue /\ host.pending \in Chains /\ host.routed \in Flags
      /\ \A d \in Channels : host.pending[d] \in Seq(Ids) /\ seen.log[d] \in Seq(Told)
  BY StateFacts, HostFields, ActionFacts DEF Inv
<1>2. sent' = Append(sent, a) /\ sent' \in Seq(Actions) /\ Len(sent') = k
  BY <1>1, AppendFacts DEF Send
<1>3. k \in Ids /\ k <= MaxActions
  BY <1>1, BoundsAssumption DEF Send, Ids
<1>4. /\ host' = [host EXCEPT !.pending = more] /\ UNCHANGED <<disk, seen, spent>>
  BY <1>2 DEF Send
<1>5. more \in Chains /\ \A d \in Channels : more[d] = IF d = c THEN Append(host.pending[d], k) ELSE host.pending[d]
  <2> HIDE DEF k, c
  <2>1. Append(host.pending[c], k) \in Seq(Ids)
    BY <1>1, <1>3, AppendFacts
  <2> QED BY <1>1, <2>1 DEF Chains
<1> HIDE DEF more
<1>6. /\ host' \in Host /\ host'.pending = more /\ host'.ops = host.ops /\ host'.routed = host.routed
      /\ host'.active = host.active /\ host'.loaded = host.loaded /\ host'.shown = host.shown
      /\ host'.turns = host.turns
  <2>1. host' \in Host
    BY <1>1, <1>4, <1>5, ZenonT(30) DEF Host, Chains
  <2> QED BY <1>1, <1>4, <2>1 DEF Host
<1>7. \A j \in DOMAIN sent : sent'[j] = sent[j] /\ j \in DOMAIN sent'
  BY <1>1, <1>2, AppendFacts
<1>8. TypeOK'
  BY <1>2, <1>3, <1>4, <1>6 DEF Inv, TypeOK
<1>9. ChainInv'
  <2>1. ASSUME NEW d \in Channels PROVE ChainOf(d, more[d], seen.log[d], Append(sent, a))
    <3>1. ChainOf(d, host.pending[d], seen.log[d], sent) /\ more[d] \in Seq(Ids)
      BY <1>5 DEF Inv, ChainInv, Chains
    <3>2. more[d] = host.pending[d] \/ (a.channel = d /\ more[d] = Append(host.pending[d], Len(sent) + 1))
      BY <1>5
    <3> QED BY <1>1, <1>3, <3>1, <3>2, ChainSends
  <2> QED BY <1>2, <1>4, <1>6, <2>1 DEF ChainInv
<1>10. QueueInv'
  <2>1. \A d \in Channels : \A n \in DOMAIN host.pending[d] : host.pending[d][n] \in DOMAIN sent
    BY DEF Inv, ChainInv, ChainOf
  <2>2. QueueOf(host.ops, host.pending, host.routed, sent)
    BY DEF Inv, QueueInv
  <2>3. QueueOf(host.ops, more, host.routed, Append(sent, a))
    <3> HIDE DEF k, c
    <3> QED BY <1>1, <1>3, <2>1, <2>2, QueueSends DEF more
  <2> QED BY <1>2, <1>6, <2>3 DEF QueueInv
<1>11. BusyInv'
  <2>1. ASSUME NEW n \in DOMAIN host.ops, host.ops[n].kind = "truncate" PROVE host.ops[n].id \in DOMAIN sent
    BY <2>1 DEF Inv, QueueInv, QueueOf, Claims
  <2> QED BY <1>4, <1>6, <1>7, <2>1 DEF Inv, BusyInv, BusyOf
<1>12. CutInv' /\ FlagIsOwned'
  BY <1>4, <1>6, <1>7 DEF Inv, CutInv, FlagIsOwned
<1>13. ChatFollowsPi'
  BY <1>4, <1>6 DEF Inv, ChatFollowsPi, Runs
<1> QED BY <1>8, <1>9, <1>10, <1>11, <1>12, <1>13 DEF Inv

LEMMA ApplyFacts ==
  ASSUME NEW h, NEW a, NEW stored
  PROVE  /\ Apply(h, a, stored) \in {Quietly(h), Rejected(h), Committed(Reduced(h, a))}
         /\ ~Valid(h, a) => Apply(h, a, stored) = Rejected(h)
BY DEF Apply

LEMMA RejectedFacts ==
  ASSUME NEW h, NEW g
  PROVE  Rejected(h) # Committed(g) /\ Quietly(h) # Committed(g)
<1>1. Rejected(h).out = "rejected" /\ Quietly(h).out = "none" /\ Committed(g).out = "committed"
  BY DEF Rejected, Quietly, Committed
<1> QED BY <1>1

\* The chat's turns, unless pi has moved its leaf and not said so.
LEMMA TurnsFollow ==
  ASSUME Inv
  PROVE  host.loaded /\ ~Moved(host.ops) => host.turns = disk.leaf
<1>1. host \in Host
  BY StateFacts DEF Inv
<1> QED BY <1>1, MovedRuns DEF Inv, ChatFollowsPi, Runs

\* The operation that runs ends: what is left is queued and not of its kind.
LEMMA RunningEnds ==
  ASSUME NEW h, Same(host, h), h.ops # <<>>, h.ops[1].kind \in {"flag", "truncate"},
         QueueOf(h.ops, h.pending, h.routed, sent), NEW active, NEW leaf
  PROVE  LET g == Ended(h)
         IN  /\ Same(host, g) /\ g.ops \in Queue /\ QueueOf(g.ops, g.pending, g.routed, sent)
             /\ BusyOf(g.ops, active, leaf, sent) /\ ~Moved(g.ops)
             /\ \A n \in DOMAIN g.ops :
                   g.ops[n].kind \in {"flag", "truncate"} => ChannelOf(g.ops[n].kind) # ChannelOf(h.ops[1].kind)
<1> DEFINE g == Ended(h)
<1>1. h \in Host /\ h.ops \in Queue
  BY HostFields DEF Same
<1>2. Same(h, g) /\ g.ops = Tail(h.ops) /\ g.routed = h.routed
  BY <1>1, EndedFacts
<1>3. Same(host, g) /\ g.pending = h.pending
  BY <1>2 DEF Same
<1> HIDE DEF g
<1>4. /\ g.ops \in Queue /\ QueueOf(g.ops, g.pending, g.routed, sent)
      /\ \A n \in DOMAIN g.ops : g.ops[n].phase = "queued" /\ g.ops[n].kind # h.ops[1].kind
  BY <1>1, <1>2, <1>3, QueueDrops
<1>5. BusyOf(g.ops, active, leaf, sent)
  BY <1>4 DEF BusyOf
<1>6. g.ops # <<>> => 1 \in DOMAIN g.ops
  BY <1>4, LenProperties, TailFacts DEF Queue
<1>7. ~Moved(g.ops)
  BY <1>4, <1>6 DEF Moved
<1>8. \A n \in DOMAIN g.ops :
         g.ops[n].kind \in {"flag", "truncate"} => ChannelOf(g.ops[n].kind) # ChannelOf(h.ops[1].kind)
  BY <1>4 DEF ChannelOf
<1> QED BY <1>3, <1>4, <1>5, <1>7, <1>8 DEF g

\* The operation that runs ends with its action answered or dropped.
LEMMA RunningAnswers ==
  ASSUME Inv, NEW h, Same(host, h), h.ops # <<>>, h.ops[1].kind \in {"flag", "truncate"},
         QueueOf(h.ops, h.pending, h.routed, sent), NEW i, i = h.ops[1].id, h.ops[1].phase # "applied",
         NEW r, r \in {Quietly(Ended(h)), Rejected(Ended(h)), Committed(Reduced(Ended(h), sent[i]))},
         Answer(i, r), UNCHANGED <<sent, spent>>,
         IF r = Committed(Reduced(Ended(h), sent[i])) /\ sent[i].kind = "truncate" THEN sent[i].value = disk.leaf
         ELSE host.loaded => host.turns = disk.leaf
  PROVE  Inv'
<1> DEFINE c == ChannelOf(h.ops[1].kind)
           g == Ended(h)
<1>1. c \in Channels
  BY DEF ChannelOf, Channels
<1>2. 1 \in DOMAIN h.ops
  BY HostFields, TailFacts, LenProperties DEF Same, Queue
<1>3. host.pending[c] # <<>> /\ i = host.pending[c][1]
  BY <1>2 DEF QueueOf, Claims, Same
<1> HIDE DEF c, g
<1>4. /\ Same(host, g) /\ QueueOf(g.ops, g.pending, g.routed, sent)
      /\ BusyOf(g.ops, host.active, disk.leaf, sent)
      /\ \A n \in DOMAIN g.ops : g.ops[n].kind \in {"flag", "truncate"} => ChannelOf(g.ops[n].kind) # c
  BY RunningEnds DEF g, c
<1>5. r \in {Quietly(g), Rejected(g), Committed(Reduced(g, sent[i]))}
  BY DEF g
<1>6. IF r = Committed(Reduced(g, sent[i])) /\ sent[i].kind = "truncate" THEN sent[i].value = disk.leaf
      ELSE host.loaded /\ ~Moved(g.ops) => host.turns = disk.leaf
  BY DEF g
<1> QED BY <1>1, <1>3, <1>4, <1>5, <1>6, AnswerKeeps

\* The operation that runs goes on to another await.
LEMMA RunningWaits ==
  ASSUME Inv, NEW h, Same(host, h), h.ops # <<>>, QueueOf(h.ops, h.pending, h.routed, sent),
         h.ops[1].phase # "applied", NEW phase \in Phases \ {"moved"}, phase = "navigating" => ~host.active, Wait(Enter(h, phase)),
         UNCHANGED <<sent, spent>>, host.loaded => host.turns = disk.leaf
  PROVE  Inv'
<1> DEFINE g == Enter(h, phase)
<1>1. h \in Host /\ h.ops \in Queue
  BY HostFields DEF Same
<1>2. /\ Same(h, g) /\ QueueOf(g.ops, g.pending, g.routed, sent) /\ DOMAIN g.ops = DOMAIN h.ops
      /\ g.ops[1].phase = phase /\ g.ops[1].kind = h.ops[1].kind
      /\ \A n \in DOMAIN h.ops : n > 1 => g.ops[n] = h.ops[n]
  BY <1>1, EnterFacts
<1> HIDE DEF g
<1>3. Same(host, g)
  BY <1>2 DEF Same
<1>4. \A n \in DOMAIN g.ops : n = 1 \/ g.ops[n].phase = "queued"
  <2>1. DOMAIN h.ops = 1..Len(h.ops) /\ Len(h.ops) \in Nat
    BY <1>1, LenProperties DEF Queue
  <2> QED BY <1>2, <2>1 DEF QueueOf
<1>5. BusyOf(g.ops, g.active, disk.leaf, sent)
  BY <1>2, <1>3, <1>4 DEF BusyOf, Same
<1>6. g.loaded => g.turns = disk.leaf
  BY <1>3 DEF Same
<1> QED BY <1>2, <1>3, <1>5, <1>6, WaitKeeps DEF g

\* A router that throws before it has called apply has its action rejected.
LEMMA FailedFacts ==
  ASSUME NEW h \in Host, h.ops # <<>>
  PROVE  Failed(h) = IF h.ops[1].phase = "applied" THEN Quietly(Ended(h)) ELSE Rejected(Ended(h))
<1>1. Head(h.ops) = h.ops[1]
  BY HostFields, TailFacts DEF Queue
<1> QED BY <1>1 DEF Failed

\* An operation of an action begins, at the head of the queue.
LEMMA BeginKeeps ==
  ASSUME Inv, NEW h, Same(host, h), h.ops # <<>>, h.ops[1].kind \in {"flag", "truncate"}, h.ops[1].phase = "queued",
         QueueOf(h.ops, h.pending, h.routed, sent), NEW stored, Begin(h, h.ops[1], stored),
         UNCHANGED <<sent, spent>>, host.loaded => host.turns = disk.leaf
  PROVE  Inv'
<1> DEFINE op == h.ops[1]
           i == op.id
<1>1. op.kind = sent[i].kind
  <2>1. 1 \in DOMAIN h.ops
    BY HostFields, TailFacts, LenProperties DEF Same, Queue
  <2> QED BY <2>1 DEF QueueOf, Claims
<1>2. CASE op.kind = "flag"
  <2>1. BeginFlag(h, i, stored)
    BY <1>2 DEF Begin
  <2>2. CASE h.loaded
    <3> DEFINE r == Apply(Ended(h), sent[i], stored)
    <3>1. Answer(i, r)
      BY <2>1, <2>2 DEF BeginFlag
    <3>2. r \in {Quietly(Ended(h)), Rejected(Ended(h)), Committed(Reduced(Ended(h), sent[i]))}
      BY ApplyFacts
    <3>3. sent[i].kind # "truncate"
      BY <1>1, <1>2
    <3> HIDE DEF r
    <3> QED BY <3>1, <3>2, <3>3, RunningAnswers
  <2>3. CASE ~h.loaded
    <3>1. Wait(Enter(h, "finding")) /\ "finding" \in Phases \ {"moved"}
      BY <2>1, <2>3 DEF BeginFlag, Phases
    <3> QED BY <3>1, RunningWaits
  <2> QED BY <2>2, <2>3
<1>3. CASE op.kind = "truncate"
  <2>1. BeginTruncate(h, i)
    BY <1>3 DEF Begin
  <2>2. CASE ~h.loaded \/ h.disposing \/ h.active \/ sent[i].value > disk.leaf
    <3> DEFINE r == Rejected(Ended(h))
    <3>1. Answer(i, r)
      <4>1. Failed(h) = r
        BY FailedFacts DEF Same
      <4> QED BY <2>1, <2>2, <4>1 DEF BeginTruncate
    <3>2. r \in {Quietly(Ended(h)), Rejected(Ended(h)), Committed(Reduced(Ended(h), sent[i]))}
      OBVIOUS
    <3>3. r # Committed(Reduced(Ended(h), sent[i]))
      BY RejectedFacts
    <3> HIDE DEF r
    <3> QED BY <3>1, <3>2, <3>3, RunningAnswers
  <2>3. CASE ~(~h.loaded \/ h.disposing \/ h.active \/ sent[i].value > disk.leaf)
    <3>1. ~host.active
      BY <2>3 DEF Same
    <3>2. CASE h.driver
      <4>1. Wait(Enter(h, "navigating")) /\ "navigating" \in Phases \ {"moved"}
        BY <2>1, <2>3, <3>2 DEF BeginTruncate, Phases
      <4> QED BY <3>1, <4>1, RunningWaits
    <3>3. CASE ~h.driver
      <4>1. Wait(Enter(h, "attaching")) /\ "attaching" \in Phases \ {"moved"}
        BY <2>1, <2>3, <3>3 DEF BeginTruncate, Phases
      <4> QED BY <3>1, <4>1, RunningWaits
    <3> QED BY <3>2, <3>3
  <2> QED BY <2>2, <2>3
<1> QED BY <1>2, <1>3

LEMMA RouteInv ==
  ASSUME Inv, NEW c \in Channels, NEW stored \in BOOLEAN, Route(c, stored)
  PROVE  Inv'
<1> DEFINE i == Head(host.pending[c])
           a == sent[i]
           h == [host EXCEPT !.routed[c] = TRUE]
<1>1. host \in Host /\ host.ops \in Queue /\ host.pending \in Chains /\ host.routed \in Flags
  BY StateFacts, HostFields DEF Inv
<1>2. host.pending[c] # <<>> /\ ~host.routed[c] /\ UNCHANGED <<sent, spent>>
  BY DEF Route
<1>3. i = host.pending[c][1] /\ 1 \in DOMAIN host.pending[c] /\ i \in Ids
  <2>1. host.pending[c] \in Seq(Ids)
    BY <1>1 DEF Chains
  <2> QED BY <1>2, <2>1, TailFacts, LenProperties
<1>4. i \in DOMAIN sent /\ a.channel = c /\ a \in Actions
  BY <1>3, StateFacts DEF Inv, ChainInv, ChainOf
<1>5. /\ Same(host, h) /\ h.ops = host.ops /\ h.pending = host.pending /\ h.routed \in Flags
      /\ \A d \in Channels : h.routed[d] = IF d = c THEN TRUE ELSE host.routed[d]
  <2>1. /\ Same(host, h) /\ h.ops = host.ops
        /\ \A d \in Channels : h.routed[d] = IF d = c THEN TRUE ELSE host.routed[d]
    BY <1>1, RoutedFacts
  <2> HIDE DEF h
  <2> QED BY <2>1, HostFields DEF Same
<1>6. /\ \/ a.kind = "flag" /\ Run(h, Op("flag", i), stored)
         \/ a.kind # "flag" /\ Answer(i, Quietly(h))
         \/ a.kind = "truncate" /\ Run(h, Op("truncate", i), stored)
         \/ (a.kind = "truncate" => ~Valid(h, a)) /\ Answer(i, Apply(h, a, stored))
  BY DEF Route
<1> HIDE DEF i, a, h
<1>7. \A n \in DOMAIN host.ops : host.ops[n].kind \in {"flag", "truncate"} => ChannelOf(host.ops[n].kind) # c
  BY <1>2 DEF Inv, QueueInv, QueueOf, Claims
<1>8. QueueOf(h.ops, h.pending, h.routed, sent)
  <2>1. QueueOf(host.ops, host.pending, host.routed, sent)
    BY DEF Inv, QueueInv
  <2>2. \A d \in Channels : d # c => host.pending[d] = host.pending[d] /\ h.routed[d] = host.routed[d]
    BY <1>5
  <2>3. QueueOf(host.ops, host.pending, h.routed, sent)
    BY <1>1, <1>5, <1>7, <2>1, <2>2, QueueSettles
  <2> QED BY <1>5, <2>3
<1>9. BusyOf(h.ops, host.active, disk.leaf, sent)
  BY <1>5 DEF Inv, BusyInv
<1>10. host.loaded /\ ~Moved(h.ops) => host.turns = disk.leaf
  BY <1>5, TurnsFollow
<1>11. ASSUME NEW kind \in {"flag", "truncate"}, a.kind = kind, Run(h, Op(kind, i), stored)
       PROVE  Inv'
  <2> DEFINE op == Op(kind, i)
             ops == Append(h.ops, op)
             g == [h EXCEPT !.ops = ops]
  <2>1. op \in Operation /\ op.phase = "queued" /\ op.kind = kind /\ op.id = i
    BY <1>3 DEF Op, Operation, Phases
  <2>2. ChannelOf(kind) = c
    BY <1>4, <1>11, ActionFacts DEF ChannelOf
  <2>3. Claims(op, h.pending, h.routed, sent)
    BY <1>2, <1>3, <1>4, <1>5, <1>11, <2>1, <2>2 DEF Claims, a
  <2> HIDE DEF op
  <2>4. \A n \in DOMAIN h.ops : h.ops[n].kind # kind
    BY <1>5, <1>7, <2>2
  <2>5. /\ ops \in Queue /\ QueueOf(ops, h.pending, h.routed, sent) /\ ops # <<>>
    BY <1>1, <1>5, <1>8, <2>1, <2>3, <2>4, QueueAppends
  <2>6. Same(h, g) /\ g.ops = ops /\ g.routed = h.routed
    BY <1>5, <2>5, WithOps DEF Same
  <2>7. Same(host, g) /\ g.pending = h.pending /\ QueueOf(g.ops, g.pending, g.routed, sent)
    BY <1>5, <2>5, <2>6 DEF Same
  <2>8. IF h.ops = <<>> THEN Begin(g, op, stored) ELSE Wait(g)
    BY <1>11 DEF Run, op
  <2>9. /\ Len(h.ops) \in Nat /\ DOMAIN ops = 1..(Len(h.ops) + 1) /\ DOMAIN h.ops = 1..Len(h.ops)
        /\ ops[Len(h.ops) + 1] = op /\ \A n \in 1..Len(h.ops) : ops[n] = h.ops[n]
        /\ h.ops = <<>> => ops = <<op>> /\ Len(h.ops) = 0
        /\ h.ops # <<>> => Len(h.ops) >= 1
    BY <1>1, <1>5, <2>1, AppendFacts DEF Queue
  <2> HIDE DEF ops, g
  <2>10. CASE h.ops = <<>>
    <3>1. g.ops[1] = op
      BY <2>6, <2>9, <2>10
    <3>2. host.loaded => host.turns = disk.leaf
      BY <1>10, <2>10 DEF Moved
    <3>3. /\ Begin(g, g.ops[1], stored) /\ g.ops # <<>> /\ g.ops[1].kind \in {"flag", "truncate"}
          /\ g.ops[1].phase = "queued"
      BY <2>1, <2>5, <2>6, <2>8, <2>10, <3>1
    <3> QED BY <1>2, <2>7, <3>2, <3>3, BeginKeeps
  <2>11. CASE h.ops # <<>>
    <3>1. Wait(g)
      BY <2>8, <2>11
    <3>2. Len(h.ops) \in Nat
      BY <2>9
    <3>3. \A n \in 1..(Len(h.ops) + 1) : n \in 1..Len(h.ops) \/ n = Len(h.ops) + 1
      BY <3>2
    <3>4. \A n \in DOMAIN ops : (n \in DOMAIN h.ops /\ ops[n] = h.ops[n]) \/ ops[n].phase = "queued"
      BY <2>1, <2>9, <3>3
    <3>5. BusyOf(g.ops, g.active, disk.leaf, sent)
      BY <1>9, <2>6, <2>7, <3>4 DEF BusyOf, Same
    <3>6. ops[1] = h.ops[1]
      BY <2>9, <2>11
    <3>7. Moved(g.ops) <=> Moved(h.ops)
      BY <2>5, <2>6, <2>11, <3>6 DEF Moved
    <3>8. g.loaded /\ ~Moved(g.ops) => g.turns = disk.leaf
      BY <1>10, <2>7, <3>7 DEF Same
    <3> QED BY <1>2, <2>7, <3>1, <3>5, <3>8, WaitKeeps
  <2> QED BY <2>10, <2>11
<1>12. ASSUME NEW r, r \in {Quietly(h), Rejected(h), Committed(Reduced(h, a))}, Answer(i, r),
              a.kind = "truncate" => r # Committed(Reduced(h, a))
       PROVE  Inv'
  <2>1. \A n \in DOMAIN h.ops : h.ops[n].kind \in {"flag", "truncate"} => ChannelOf(h.ops[n].kind) # c
    BY <1>5, <1>7
  <2>2. IF r = Committed(Reduced(h, sent[i])) /\ sent[i].kind = "truncate" THEN sent[i].value = disk.leaf
        ELSE host.loaded /\ ~Moved(h.ops) => host.turns = disk.leaf
    BY <1>10, <1>12 DEF a
  <2>3. r \in {Quietly(h), Rejected(h), Committed(Reduced(h, sent[i]))}
    BY <1>12 DEF a
  <2> QED BY <1>2, <1>3, <1>5, <1>8, <1>9, <1>12, <2>1, <2>2, <2>3, AnswerKeeps
<1>13. CASE a.kind # "flag" /\ Answer(i, Quietly(h))
  <2>1. Quietly(h) # Committed(Reduced(h, a))
    BY RejectedFacts
  <2> QED BY <1>12, <1>13, <2>1
<1>14. CASE (a.kind = "truncate" => ~Valid(h, a)) /\ Answer(i, Apply(h, a, stored))
  <2>1. a.kind = "truncate" => Apply(h, a, stored) # Committed(Reduced(h, a))
    BY <1>14, ApplyFacts, RejectedFacts
  <2> QED BY <1>12, <1>14, <2>1, ApplyFacts
<1> QED BY <1>6, <1>11, <1>13, <1>14

LEMMA OwnQueue ==
  ASSUME Inv
  PROVE  /\ Same(host, host) /\ QueueOf(host.ops, host.pending, host.routed, sent)
         /\ BusyOf(host.ops, host.active, disk.leaf, sent)
BY StateFacts DEF Inv, Same, QueueInv, BusyInv

LEMMA StartNextInv ==
  ASSUME Inv, NEW stored \in BOOLEAN, StartNext(stored)
  PROVE  Inv'
<1>1. PICK kind \in {"flag", "truncate"} : Runs(kind, "queued")
  BY DEF StartNext
<1>2. /\ host.ops # <<>> /\ host.ops[1].kind = kind /\ host.ops[1].phase = "queued"
  BY <1>1, RunningFacts
<1>3. Head(host.ops) = host.ops[1]
  BY <1>2, StateFacts, HostFields, TailFacts DEF Inv, Queue
<1>4. Begin(host, host.ops[1], stored) /\ UNCHANGED <<sent, spent>>
  BY <1>3 DEF StartNext
<1>5. host.loaded => host.turns = disk.leaf
  BY <1>2, TurnsFollow DEF Moved
<1> QED BY <1>2, <1>4, <1>5, OwnQueue, BeginKeeps

\* The operation that runs has an answer for its action that no truncation commits.
LEMMA RunningDone ==
  ASSUME Inv, NEW kind \in {"flag", "truncate"}, NEW phase, Runs(kind, phase), phase \notin {"moved", "applied"},
         NEW h, Same(host, h), h.ops = host.ops, h.routed = host.routed,
         NEW r, r \in {Quietly(Ended(h)), Rejected(Ended(h)), Committed(Reduced(Ended(h), sent[Running]))},
         Answer(Running, r), UNCHANGED <<sent, spent>>,
         kind = "truncate" => r = Rejected(Ended(h))
  PROVE  Inv'
<1>1. /\ host.ops # <<>> /\ host.ops[1].kind = kind /\ host.ops[1].phase = phase /\ host.ops[1].id = Running
      /\ sent[Running].kind = kind
  BY RunningFacts
<1>2. host.loaded => host.turns = disk.leaf
  BY <1>1, TurnsFollow DEF Moved
<1>3. QueueOf(h.ops, h.pending, h.routed, sent)
  BY OwnQueue DEF Same
<1>4. ~(r = Committed(Reduced(Ended(h), sent[Running])) /\ sent[Running].kind = "truncate")
  BY <1>1, RejectedFacts
<1> QED BY <1>1, <1>2, <1>3, <1>4, RunningAnswers

\* So has one whose router throws before that.
LEMMA RunningFails ==
  ASSUME Inv, NEW kind \in {"flag", "truncate"}, NEW phase, Runs(kind, phase), phase \notin {"moved", "applied"},
         NEW h, Same(host, h), h.ops = host.ops, h.routed = host.routed,
         Answer(Running, Failed(h)), UNCHANGED <<sent, spent>>
  PROVE  Inv'
<1>1. host.ops # <<>> /\ host.ops[1].phase = phase
  BY RunningFacts
<1>2. Failed(h) = Rejected(Ended(h))
  BY <1>1, FailedFacts DEF Same
<1> QED BY <1>2, RunningDone

\* The operation that runs has its action answered by apply, and goes on.
LEMMA RunningTells ==
  ASSUME Inv, NEW kind \in {"flag", "truncate"}, NEW phase, Runs(kind, phase), phase # "applied",
         NEW r, r \in {Rejected(Enter(host, "applied")), Committed(Reduced(Enter(host, "applied"), sent[Running]))},
         AnswerWithin(Running, r), UNCHANGED <<sent, spent>>,
         IF kind = "truncate"
         THEN phase = "moved" /\ r = Committed(Reduced(Enter(host, "applied"), sent[Running]))
         ELSE phase # "moved"
  PROVE  Inv'
<1> DEFINE c == ChannelOf(kind)
           i == Running
           h == Enter(host, "applied")
           more == [host.pending EXCEPT ![c] = Tail(@)]
<1>1. /\ host.ops # <<>> /\ host.ops[1].kind = kind /\ host.ops[1].phase = phase /\ host.ops[1].id = i
      /\ c \in Channels /\ host.pending[c] # <<>> /\ i = host.pending[c][1]
      /\ i \in DOMAIN sent /\ sent[i] \in Actions /\ sent[i].kind = kind /\ sent[i].channel = c
  BY RunningFacts
<1>2. /\ host \in Host /\ host.ops \in Queue /\ host.pending \in Chains /\ host.routed \in Flags
      /\ "applied" \in Phases /\ QueueOf(host.ops, host.pending, host.routed, sent)
      /\ BusyOf(host.ops, host.active, disk.leaf, sent)
  BY StateFacts, HostFields DEF Inv, Phases, QueueInv, BusyInv
<1>3. 1 \in DOMAIN host.ops /\ DOMAIN host.ops = 1..Len(host.ops) /\ Len(host.ops) \in Nat
  BY <1>1, <1>2, TailFacts, LenProperties DEF Queue
<1>4. /\ Same(host, h) /\ h.routed = host.routed /\ h.ops # <<>> /\ DOMAIN h.ops = DOMAIN host.ops
      /\ QueueOf(h.ops, h.pending, h.routed, sent)
      /\ h.ops[1].phase = "applied" /\ h.ops[1].kind = kind /\ h.ops[1].id = i
      /\ \A n \in DOMAIN host.ops : n > 1 => h.ops[n] = host.ops[n]
  BY <1>1, <1>2, EnterFacts
<1> HIDE DEF h, i
<1>5. h \in Host /\ h.pending = host.pending /\ h.ops \in Queue
  BY <1>4, HostFields DEF Same
<1>6. \A n \in DOMAIN h.ops : n = 1 \/ (n > 1 /\ h.ops[n].phase = "queued")
  BY <1>3, <1>4 DEF QueueOf
<1>7. \A n \in DOMAIN h.ops : n # 1 /\ h.ops[n].kind \in {"flag", "truncate"} => ChannelOf(h.ops[n].kind) # c
  <2>1. \A n \in DOMAIN h.ops : h.ops[n].kind = kind => n = 1
    BY <1>3, <1>4 DEF QueueOf
  <2> QED BY <2>1 DEF ChannelOf
<1>8. more \in Chains /\ \A d \in Channels : d # c => more[d] = host.pending[d]
  <2>1. Tail(host.pending[c]) \in Seq(Ids)
    BY <1>1, <1>2, TailFacts DEF Chains
  <2> QED BY <1>2, <2>1 DEF Chains
<1>9. QueueOf(h.ops, more, host.routed, sent)
  <2> HIDE DEF more
  <2>1. ASSUME NEW n \in DOMAIN h.ops PROVE Claims(h.ops[n], more, host.routed, sent)
    <3>1. Claims(h.ops[n], host.pending, host.routed, sent)
      BY <1>4, <1>5 DEF QueueOf
    <3>2. ChannelOf(h.ops[n].kind) \in Channels
      BY DEF ChannelOf, Channels
    <3>3. h.ops[n].phase = "applied" \/ (h.ops[n].kind \in {"flag", "truncate"} => ChannelOf(h.ops[n].kind) # c)
      BY <1>4, <1>7
    <3> QED BY <1>8, <3>1, <3>2, <3>3 DEF Claims
  <2> QED BY <1>4, <2>1 DEF QueueOf
<1>10. BusyOf(h.ops, host.active, disk.leaf, sent)
  BY <1>4, <1>6 DEF BusyOf
<1>11. r \in {Rejected(h), Committed(Reduced(h, sent[i]))}
  BY DEF h, i
<1>12. r.host \in Host /\ r.host.pending = host.pending /\ r.host.routed = host.routed
  <2> DEFINE a == sent[i]
  <2>1. a \in Actions /\ r \in Results(h, a)
    BY <1>1, <1>11 DEF Results, i
  <2> HIDE DEF a
  <2>2. r.host \in Host /\ r.host.pending = h.pending /\ r.host.routed = h.routed
    BY <1>5, <2>1, OutcomeFacts
  <2> QED BY <1>4, <1>5, <2>2
<1>13. host' = [r.host EXCEPT !.pending = more, !.routed = host.routed] /\ Tell(i, r)
  <2>1. host' = [r.host EXCEPT !.pending = more] /\ Tell(i, r)
    BY <1>1, <1>12 DEF AnswerWithin, i
  <2> HIDE DEF more
  <2> QED BY <1>12, <2>1 DEF Host
<1>14. ~Moved(h.ops)
  BY <1>4 DEF Moved
<1>15. ~Moved(host.ops) => (host.loaded => host.turns = disk.leaf)
  BY TurnsFollow
<1>16. IF r = Committed(Reduced(h, sent[i])) /\ sent[i].kind = "truncate" THEN sent[i].value = disk.leaf
       ELSE host.loaded /\ ~Moved(h.ops) => host.turns = disk.leaf
  <2>1. CASE kind = "truncate"
    <3>1. phase = "moved" /\ r = Committed(Reduced(h, sent[i]))
      BY <2>1 DEF h, i
    <3> QED BY <1>1, <1>2, <1>3, <2>1, <3>1 DEF BusyOf
  <2>2. CASE kind # "truncate"
    BY <1>1, <1>15, <2>2 DEF Moved
  <2> QED BY <2>1, <2>2
<1>17. c = "chat" => sent[i].kind = "truncate"
  BY <1>1 DEF ChannelOf
<1>18. Ready(c, i, h, r, host.routed)
  BY <1>1, <1>2, <1>4, <1>9, <1>10, <1>11, <1>16, <1>17 DEF Ready
<1> HIDE DEF c, more
<1> QED BY <1>1, <1>13, <1>18, TellKeeps DEF more

LEMMA FlagInv ==
  ASSUME Inv, (\E stored \in BOOLEAN : FlagFound(stored)) \/ FindFails
  PROVE  Inv'
<1>1. CASE FindFails
  <2>1. Runs("flag", "finding") /\ Answer(Running, Failed(host)) /\ UNCHANGED <<sent, spent>>
    BY <1>1 DEF FindFails
  <2> QED BY <2>1, OwnQueue, RunningFails
<1>2. ASSUME NEW stored \in BOOLEAN, FlagFound(stored) PROVE Inv'
  <2> DEFINE h == Enter(host, "applied")
             r == Apply(h, sent[Running], stored)
  <2>1. /\ Runs("flag", "finding") /\ UNCHANGED <<sent, spent>>
        /\ IF ~host.loaded /\ ~disk.file THEN Answer(Running, Quietly(Ended(host))) ELSE AnswerWithin(Running, r)
    BY <1>2 DEF FlagFound
  <2>2. CASE Answer(Running, Quietly(Ended(host)))
    BY <2>1, <2>2, OwnQueue, RunningDone
  <2>3. CASE AnswerWithin(Running, r)
    <3>1. r \in {Rejected(h), Committed(Reduced(h, sent[Running]))}
      BY DEF Apply
    <3> HIDE DEF r
    <3> QED BY <2>1, <2>3, <3>1, RunningTells
  <2> QED BY <2>1, <2>2, <2>3
<1> QED BY <1>1, <1>2

LEMMA AttachInv ==
  ASSUME Inv, Attached \/ AttachFails
  PROVE  Inv'
<1>1. Runs("truncate", "attaching") /\ UNCHANGED <<sent, spent>>
  BY DEF Attached, AttachFails
<1>2. CASE AttachFails
  <2>1. Answer(Running, Failed(host))
    BY <1>2 DEF AttachFails
  <2> QED BY <1>1, <2>1, OwnQueue, RunningFails
<1>3. CASE Attached
  <2> DEFINE h == [host EXCEPT !.driver = TRUE]
  <2>1. host \in Host
    BY StateFacts DEF Inv
  <2>2. h \in Host
    BY <2>1, ZenonT(30) DEF Host
  <2>3. Same(host, h) /\ h.ops = host.ops /\ h.routed = host.routed
    BY <2>1, <2>2 DEF Host, Same
  <2>4. IF h.active THEN Answer(Running, Failed(h)) ELSE Wait(Enter(h, "navigating"))
    BY <1>3 DEF Attached
  <2> HIDE DEF h
  <2>5. CASE h.active
    BY <1>1, <2>3, <2>4, <2>5, RunningFails
  <2>6. CASE ~h.active
    <3>1. Wait(Enter(h, "navigating")) /\ "navigating" \in Phases \ {"moved"} /\ ~host.active
      BY <2>3, <2>4, <2>6 DEF Phases, Same
    <3>2. host.ops # <<>> /\ host.ops[1].phase = "attaching" /\ h.ops[1].phase # "applied"
      BY <1>1, <2>3, RunningFacts
    <3>3. host.loaded => host.turns = disk.leaf
      BY <3>2, TurnsFollow DEF Moved
    <3>4. QueueOf(h.ops, h.pending, h.routed, sent)
      BY <2>3, OwnQueue DEF Same
    <3> QED BY <1>1, <2>3, <3>1, <3>2, <3>3, <3>4, RunningWaits
  <2> QED BY <2>5, <2>6
<1> QED BY <1>2, <1>3

LEMMA NavigateInv ==
  ASSUME Inv, Navigate
  PROVE  Inv'
<1> DEFINE g == Enter(host, "moved")
           i == Running
<1>1. /\ Runs("truncate", "navigating") /\ host' = g /\ disk' = [disk EXCEPT !.leaf = sent[i].value]
      /\ UNCHANGED <<sent, seen, spent>>
  BY DEF Navigate
<1>2. /\ host.ops # <<>> /\ host.ops[1].kind = "truncate" /\ host.ops[1].phase = "navigating" /\ host.ops[1].id = i
      /\ sent[i] \in Actions /\ sent[i].kind = "truncate"
  BY <1>1, RunningFacts
<1>3. host \in Host /\ "moved" \in Phases /\ sent[i].value \in Nat
  BY <1>2, StateFacts, ActionFacts DEF Inv, Phases
<1>4. QueueOf(host.ops, host.pending, host.routed, sent) /\ BusyOf(host.ops, host.active, disk.leaf, sent)
  BY OwnQueue
<1>5. DOMAIN host.ops = 1..Len(host.ops) /\ Len(host.ops) \in Nat /\ 1 \in DOMAIN host.ops
  BY <1>2, <1>3, HostFields, LenProperties, TailFacts DEF Queue
<1>6. /\ Same(host, g) /\ QueueOf(g.ops, g.pending, g.routed, sent) /\ DOMAIN g.ops = DOMAIN host.ops /\ g.ops # <<>>
      /\ g.ops[1].phase = "moved" /\ g.ops[1].kind = host.ops[1].kind /\ g.ops[1].id = host.ops[1].id
      /\ \A n \in DOMAIN host.ops : n > 1 => g.ops[n] = host.ops[n]
  BY <1>2, <1>3, <1>4, EnterFacts
<1> HIDE DEF g, i
<1>7. ~host.active
  BY <1>2, <1>4, <1>5 DEF BusyOf
<1>8. \A n \in DOMAIN g.ops : n = 1 \/ g.ops[n].phase = "queued"
  BY <1>4, <1>5, <1>6 DEF QueueOf
<1>9. BusyOf(g.ops, g.active, sent[i].value, sent)
  BY <1>2, <1>6, <1>7, <1>8 DEF BusyOf, Same
<1>10. disk' \in Disk /\ disk'.leaf = sent[i].value /\ disk'.flag = disk.flag
  BY <1>1, <1>3 DEF Inv, TypeOK, Disk
<1>11. Moved(g.ops)
  BY <1>2, <1>6 DEF Moved
<1>12. seen' \in Seen /\ seen'.log = seen.log /\ seen'.cut \subseteq DOMAIN sent /\ spent' \in Spent
  BY <1>1 DEF Inv, TypeOK, CutInv, Seen, Spent
<1>13. FlagIsOwned'
  BY <1>1, <1>6, <1>10 DEF Inv, FlagIsOwned, Same
<1>14. host' \in Host /\ host'.pending = host.pending
  BY <1>1, <1>6 DEF Same
<1> QED BY <1>1, <1>6, <1>9, <1>10, <1>11, <1>12, <1>13, <1>14, StepKeeps

LEMMA NavigatedInv ==
  ASSUME Inv, Navigated \/ NavigationRefused
  PROVE  Inv'
<1>1. CASE NavigationRefused
  <2>1. Runs("truncate", "navigating") /\ Answer(Running, Failed(host)) /\ UNCHANGED <<sent, spent>>
    BY <1>1 DEF NavigationRefused
  <2> QED BY <2>1, OwnQueue, RunningFails
<1>2. CASE Navigated
  <2> DEFINE r == Committed(Reduced(Enter(host, "applied"), sent[Running]))
  <2>1. Runs("truncate", "moved") /\ AnswerWithin(Running, r) /\ UNCHANGED <<sent, spent>>
    BY <1>2 DEF Navigated
  <2> QED BY <2>1, RunningTells
<1> QED BY <1>1, <1>2

\* The router that has answered its action is done: its chain and the queue go on.
LEMMA RouterSettlesInv ==
  ASSUME Inv, RouterSettles
  PROVE  Inv'
<1>1. PICK kind \in {"flag", "truncate"} : Runs(kind, "applied")
  BY DEF RouterSettles
<1> DEFINE c == ChannelOf(kind)
           h == Ended(host)
           after == [h.routed EXCEPT ![c] = FALSE]
           g == [h EXCEPT !.routed[c] = FALSE]
<1>2. /\ host.ops # <<>> /\ host.ops[1].kind = kind /\ host.ops[1].phase = "applied"
      /\ c \in Channels /\ sent[Running].channel = c
  BY <1>1, RunningFacts
<1>3. host \in Host
  BY StateFacts DEF Inv
<1>4. Failed(host) = Quietly(h)
  BY <1>2, <1>3, FailedFacts
<1>5. host' = g /\ Tell(Running, Quietly(h)) /\ UNCHANGED <<sent, spent>>
  <2>1. PICK r \in {Quietly(h), Failed(host)} : host' = [r.host EXCEPT !.routed[c] = FALSE] /\ Tell(Running, r)
    BY <1>2 DEF RouterSettles
  <2>2. r = Quietly(h) /\ r.host = h
    BY <1>4, <2>1 DEF Quietly
  <2>3. UNCHANGED <<sent, spent>>
    BY DEF RouterSettles
  <2> HIDE DEF h, c
  <2> QED BY <2>1, <2>2, <2>3
<1>6. UNCHANGED <<disk, seen>>
  <2>1. seen \in Seen
    BY DEF Inv, TypeOK, Seen
  <2>2. seen' = [seen EXCEPT !.log[c] = @, !.flag = @] /\ disk' = disk
    BY <1>2, <1>5 DEF Tell, Quietly
  <2> QED BY <1>2, <2>1, <2>2 DEF Seen
<1>7. /\ Same(host, h) /\ h.ops \in Queue /\ QueueOf(h.ops, h.pending, h.routed, sent)
      /\ BusyOf(h.ops, host.active, disk.leaf, sent) /\ ~Moved(h.ops)
      /\ \A n \in DOMAIN h.ops : h.ops[n].kind \in {"flag", "truncate"} => ChannelOf(h.ops[n].kind) # c
  BY <1>2, OwnQueue, RunningEnds
<1> HIDE DEF h, c
<1>8. h \in Host /\ h.pending \in Chains /\ h.routed \in Flags
  BY <1>7, HostFields DEF Same
<1>9. Same(h, g) /\ g.ops = h.ops /\ g.pending = h.pending /\ g.routed \in Flags
      /\ \A d \in Channels : g.routed[d] = IF d = c THEN FALSE ELSE h.routed[d]
  <2>1. /\ Same(h, g) /\ g.ops = h.ops
        /\ \A d \in Channels : g.routed[d] = IF d = c THEN FALSE ELSE h.routed[d]
    BY <1>2, <1>8, RoutedFacts
  <2> HIDE DEF g
  <2> QED BY <2>1, HostFields DEF Same
<1> HIDE DEF g
<1>10. QueueOf(g.ops, g.pending, g.routed, sent)
  <2> DEFINE f == g.routed
  <2>1. f \in Flags /\ \A d \in Channels : d # c => h.pending[d] = h.pending[d] /\ f[d] = h.routed[d]
    BY <1>9
  <2> HIDE DEF f
  <2>2. QueueOf(h.ops, h.pending, f, sent)
    BY <1>2, <1>7, <1>8, <2>1, QueueSettles
  <2> QED BY <1>9, <2>2 DEF f
<1>11. Same(host, g) /\ BusyOf(g.ops, g.active, disk.leaf, sent)
  BY <1>7, <1>9 DEF Same
<1>12. g.loaded /\ ~Moved(g.ops) => g.turns = disk.leaf
  <2>1. ~Moved(host.ops)
    BY <1>2 DEF Moved
  <2> QED BY <1>11, <2>1, TurnsFollow DEF Same
<1>13. Wait(g)
  BY <1>5, <1>6 DEF Wait
<1> QED BY <1>5, <1>10, <1>11, <1>12, <1>13, WaitKeeps

-----------------------------------------------------------------------------
(* Turns, loading, disposal and the end of the process *)

\* What a step that leaves the file, the answers and the bounds alone keeps.
LEMMA Kept ==
  ASSUME Inv
  PROVE  /\ seen \in Seen /\ seen.cut \subseteq DOMAIN sent /\ spent \in Spent /\ disk \in Disk
         /\ disk.leaf \in Nat /\ host \in Host
BY StateFacts DEF Inv, TypeOK, CutInv, Seen, Spent, Disk

LEMMA TurnDoneFacts ==
  ASSUME Inv, NEW leaf \in Nat, leaf = disk.leaf + (IF host.active THEN 1 ELSE 0)
  PROVE  LET h == TurnDone(host)
         IN  /\ h \in Host /\ h.pending = host.pending /\ h.ops = host.ops /\ h.routed = host.routed
             /\ h.loaded = host.loaded /\ h.shown = host.shown /\ ~h.active
             /\ BusyOf(h.ops, h.active, leaf, sent)
             /\ h.loaded /\ ~Moved(h.ops) => h.turns = leaf
<1> DEFINE more == host.turns + (IF host.active THEN 1 ELSE 0)
           h == [host EXCEPT !.active = FALSE, !.turns = more]
<1>1. host \in Host /\ disk.leaf \in Nat /\ host.turns \in Nat
  BY Kept, HostFields
<1>2. more \in Nat
  BY <1>1
<1>3. TurnDone(host) = h
  BY DEF TurnDone
<1>4. h \in Host
  <2> HIDE DEF more
  <2> QED BY <1>1, <1>2, ZenonT(30) DEF Host
<1>5. /\ h.pending = host.pending /\ h.ops = host.ops /\ h.routed = host.routed /\ h.loaded = host.loaded
      /\ h.shown = host.shown /\ ~h.active /\ h.turns = more
  <2> HIDE DEF more
  <2> QED BY <1>1 DEF Host
<1> HIDE DEF h
<1>6. BusyOf(host.ops, host.active, disk.leaf, sent)
  BY OwnQueue
<1>7. BusyOf(h.ops, h.active, leaf, sent)
  <2>1. CASE host.active
    <3>1. \A n \in DOMAIN host.ops : ~(host.ops[n].kind = "truncate" /\ host.ops[n].phase = "moved")
      BY <1>6, <2>1 DEF BusyOf
    <3> QED BY <1>5, <3>1 DEF BusyOf
  <2>2. CASE ~host.active
    <3>1. leaf = disk.leaf
      BY <1>1, <2>2
    <3> QED BY <1>5, <1>6, <3>1 DEF BusyOf
  <2> QED BY <2>1, <2>2
<1>8. h.loaded /\ ~Moved(h.ops) => h.turns = leaf
  <2>1. host.loaded /\ ~Moved(host.ops) => host.turns = disk.leaf
    BY TurnsFollow
  <2> QED BY <1>1, <1>5, <2>1
<1> QED BY <1>3, <1>4, <1>5, <1>7, <1>8

LEMMA TurnEndsInv ==
  ASSUME Inv, TurnEnds
  PROVE  Inv'
<1> DEFINE leaf == disk.leaf + 1
           h == TurnDone(host)
<1>1. host.active /\ host' = h /\ disk' = [disk EXCEPT !.leaf = leaf] /\ UNCHANGED <<sent, seen, spent>>
  BY DEF TurnEnds
<1>2. leaf \in Nat /\ leaf = disk.leaf + (IF host.active THEN 1 ELSE 0)
  BY <1>1, Kept
<1> HIDE DEF leaf
<1>3. /\ h \in Host /\ h.pending = host.pending /\ h.ops = host.ops /\ h.routed = host.routed
      /\ h.loaded = host.loaded /\ h.shown = host.shown
      /\ BusyOf(h.ops, h.active, leaf, sent)
      /\ h.loaded /\ ~Moved(h.ops) => h.turns = leaf
  BY <1>2, TurnDoneFacts
<1> HIDE DEF h
<1>4. disk' \in Disk /\ disk'.leaf = leaf /\ disk'.flag = disk.flag
  BY <1>1, <1>2, Kept DEF Disk
<1>5. FlagIsOwned'
  BY <1>1, <1>3, <1>4 DEF Inv, FlagIsOwned
<1>6. QueueOf(host'.ops, host'.pending, host'.routed, sent)
  BY <1>1, <1>3, OwnQueue
<1> QED BY <1>1, <1>3, <1>4, <1>5, <1>6, Kept, StepKeeps

\* A loading or a disposal enters the queue.
LEMMA Enqueued ==
  ASSUME Inv, NEW kind \in {"hydrate", "dispose"}
  PROVE  LET ops == Append(host.ops, Op(kind, 0))
         IN  /\ ops \in Queue /\ QueueOf(ops, host.pending, host.routed, sent)
             /\ BusyOf(ops, host.active, disk.leaf, sent) /\ (Moved(ops) <=> Moved(host.ops))
<1> DEFINE op == Op(kind, 0)
           ops == Append(host.ops, op)
<1>1. op \in Operation /\ op.phase = "queued" /\ op.kind = kind
  BY DEF Op, Operation, Phases
<1> HIDE DEF op
<1>2. host.ops \in Queue /\ QueueOf(host.ops, host.pending, host.routed, sent) /\ BusyOf(host.ops, host.active, disk.leaf, sent)
  BY Kept, HostFields, OwnQueue
<1>3. Claims(op, host.pending, host.routed, sent)
  BY <1>1 DEF Claims
<1>4. ops \in Queue /\ QueueOf(ops, host.pending, host.routed, sent) /\ ops # <<>>
  BY <1>1, <1>2, <1>3, QueueAppends
<1>5. /\ Len(host.ops) \in Nat /\ DOMAIN ops = 1..(Len(host.ops) + 1) /\ DOMAIN host.ops = 1..Len(host.ops)
      /\ ops[Len(host.ops) + 1] = op /\ \A n \in 1..Len(host.ops) : ops[n] = host.ops[n]
      /\ host.ops = <<>> => ops = <<op>> /\ Len(host.ops) = 0
      /\ host.ops # <<>> => Len(host.ops) >= 1
  BY <1>1, <1>2, AppendFacts DEF Queue
<1> HIDE DEF ops
<1>6. Len(host.ops) \in Nat
  BY <1>5
<1>7. \A n \in 1..(Len(host.ops) + 1) : n \in 1..Len(host.ops) \/ n = Len(host.ops) + 1
  BY <1>6
<1>8. \A n \in DOMAIN ops : (n \in DOMAIN host.ops /\ ops[n] = host.ops[n]) \/ ops[n].phase = "queued"
  BY <1>1, <1>5, <1>7
<1>9. BusyOf(ops, host.active, disk.leaf, sent)
  BY <1>2, <1>8 DEF BusyOf
<1>10. Moved(ops) <=> Moved(host.ops)
  <2>1. CASE host.ops = <<>>
    <3>1. ops[1] = op
      BY <1>5, <2>1
    <3> QED BY <1>1, <2>1, <3>1 DEF Moved
  <2>2. CASE host.ops # <<>>
    <3>1. ops[1] = host.ops[1]
      BY <1>5, <2>2
    <3> QED BY <1>4, <2>2, <3>1 DEF Moved
  <2> QED BY <2>1, <2>2
<1> QED BY <1>4, <1>9, <1>10 DEF ops, op

LEMMA RequestInv ==
  ASSUME Inv, Hydrate \/ Dispose
  PROVE  Inv'
<1>1. PICK kind \in {"hydrate", "dispose"}, gate \in BOOLEAN :
         /\ host' = [host EXCEPT !.disposing = gate, !.ops = Append(host.ops, Op(kind, 0))]
         /\ sent' = sent /\ UNCHANGED <<disk, seen>> /\ (spent' = spent \/ spent' \in Spent)
  <2>1. CASE Hydrate
    <3>1. host.disposing \in BOOLEAN
      BY Kept, HostFields
    <3>2. host' = [host EXCEPT !.disposing = host.disposing, !.ops = Append(host.ops, Op("hydrate", 0))]
      BY <2>1, Kept DEF Hydrate, Host
    <3> QED BY <2>1, <3>1, <3>2 DEF Hydrate
  <2>2. CASE Dispose
    <3>1. host' = [host EXCEPT !.disposing = TRUE, !.ops = Append(host.ops, Op("dispose", 0))]
      BY <2>2 DEF Dispose
    <3>2. spent' \in Spent
      <4>1. spent.disposals + 1 \in 0..MaxDisposals
        BY <2>2, Kept, BoundsAssumption DEF Dispose, Spent
      <4> QED BY <2>2, <4>1, Kept DEF Dispose, Spent
    <3> QED BY <2>2, <3>1, <3>2 DEF Dispose
  <2> QED BY <2>1, <2>2
<1> DEFINE ops == Append(host.ops, Op(kind, 0))
           h == [host EXCEPT !.disposing = gate, !.ops = ops]
<1>2. /\ ops \in Queue /\ QueueOf(ops, host.pending, host.routed, sent)
      /\ BusyOf(ops, host.active, disk.leaf, sent) /\ (Moved(ops) <=> Moved(host.ops))
  BY Enqueued
<1>3. host' = h
  BY <1>1
<1> HIDE DEF ops
<1>4. host \in Host
  BY Kept
<1>5. h \in Host
  BY <1>2, <1>4, ZenonT(30) DEF Host, Queue
<1>6. Same(host, h) /\ h.ops = ops /\ h.routed = host.routed
  BY <1>4, <1>5 DEF Host, Same
<1> HIDE DEF h
<1>7. Wait(h)
  BY <1>1, <1>3 DEF Wait
<1>8. h.loaded /\ ~Moved(h.ops) => h.turns = disk.leaf
  BY <1>2, <1>6, TurnsFollow DEF Same
<1>9. QueueOf(h.ops, h.pending, h.routed, sent) /\ BusyOf(h.ops, h.active, disk.leaf, sent)
  BY <1>2, <1>6 DEF Same
<1> QED BY <1>1, <1>6, <1>7, <1>8, <1>9, WaitKeeps

\* A loading or a disposal that runs leaves the queue to what waits in it.
LEMMA Dequeued ==
  ASSUME Inv, NEW kind \in {"hydrate", "dispose"}, NEW phase, Runs(kind, phase), NEW active, NEW leaf
  PROVE  LET h == Ended(host)
         IN  /\ Same(host, h) /\ h.routed = host.routed /\ h.ops \in Queue
             /\ QueueOf(h.ops, host.pending, host.routed, sent) /\ BusyOf(h.ops, active, leaf, sent)
             /\ ~Moved(h.ops) /\ ~Moved(host.ops)
             /\ host.ops # <<>> /\ host.ops[1].kind = kind /\ host.ops[1].phase = phase
<1> DEFINE h == Ended(host)
<1>1. host \in Host /\ host.ops \in Queue /\ host.ops # <<>>
  BY Kept, HostFields DEF Runs
<1>2. Same(host, h) /\ h.ops = Tail(host.ops) /\ h.routed = host.routed
  BY <1>1, EndedFacts
<1>3. host.ops[1].kind = kind /\ host.ops[1].phase = phase /\ ~Moved(host.ops)
  BY <1>1, TailFacts DEF Runs, Moved, Queue
<1> HIDE DEF h
<1>4. /\ h.ops \in Queue /\ QueueOf(h.ops, host.pending, host.routed, sent)
      /\ \A n \in DOMAIN h.ops : h.ops[n].phase = "queued"
  BY <1>1, <1>2, OwnQueue, QueueDrops
<1>5. BusyOf(h.ops, active, leaf, sent)
  BY <1>4 DEF BusyOf
<1>6. h.ops # <<>> => 1 \in DOMAIN h.ops
  BY <1>4, TailFacts, LenProperties DEF Queue
<1>7. ~Moved(h.ops)
  BY <1>4, <1>6 DEF Moved
<1> QED BY <1>1, <1>2, <1>3, <1>4, <1>5, <1>7 DEF h

LEMMA HydratedInv ==
  ASSUME Inv, Hydrated
  PROVE  Inv'
<1> DEFINE h == Ended(host)
           g == [h EXCEPT !.loaded = TRUE, !.shown = disk.flag, !.turns = disk.leaf]
<1>1. /\ Runs("hydrate", "queued") /\ host' \in {h, g} /\ UNCHANGED <<sent, disk, seen, spent>>
  BY DEF Hydrated
<1>2. /\ Same(host, h) /\ h.routed = host.routed /\ h.ops \in Queue
      /\ QueueOf(h.ops, host.pending, host.routed, sent) /\ BusyOf(h.ops, host.active, disk.leaf, sent)
      /\ ~Moved(h.ops) /\ ~Moved(host.ops)
  BY <1>1, Dequeued
<1> HIDE DEF h
<1>3. host.loaded => host.turns = disk.leaf
  BY <1>2, TurnsFollow
<1>4. CASE host' = h
  <2>1. Wait(h)
    BY <1>1, <1>4 DEF Wait
  <2>2. /\ QueueOf(h.ops, h.pending, h.routed, sent) /\ BusyOf(h.ops, h.active, disk.leaf, sent)
        /\ (h.loaded /\ ~Moved(h.ops) => h.turns = disk.leaf)
    BY <1>2, <1>3 DEF Same
  <2> QED BY <1>1, <1>2, <2>1, <2>2, WaitKeeps
<1>5. CASE host' = g
  <2>1. h \in Host /\ disk.flag \in BOOLEAN /\ disk.leaf \in Nat
    BY <1>2, Kept DEF Same, Disk
  <2>2. g \in Host
    BY <2>1, ZenonT(30) DEF Host
  <2>3. /\ g.pending = h.pending /\ g.ops = h.ops /\ g.routed = h.routed /\ g.active = h.active
        /\ g.loaded = TRUE /\ g.shown = disk.flag /\ g.turns = disk.leaf
    BY <2>1 DEF Host
  <2> HIDE DEF g
  <2>4. /\ g.pending = host.pending /\ QueueOf(g.ops, g.pending, g.routed, sent)
        /\ BusyOf(g.ops, g.active, disk.leaf, sent)
    BY <1>2, <2>3 DEF Same
  <2>5. FlagIsOwned'
    BY <1>1, <1>5, <2>3 DEF Inv, FlagIsOwned
  <2> QED BY <1>1, <1>5, <2>2, <2>3, <2>4, <2>5, Kept, StepKeeps
<1> QED BY <1>1, <1>4, <1>5

LEMMA QuiescedInv ==
  ASSUME Inv, Quiesced
  PROVE  Inv'
<1> DEFINE leaf == disk.leaf + (IF host.active THEN 1 ELSE 0)
           h == TurnDone(host)
           g == Enter(h, "deleting")
<1>1. /\ Runs("dispose", "queued") /\ host' = g /\ disk' = [disk EXCEPT !.leaf = leaf]
      /\ UNCHANGED <<sent, seen, spent>>
  BY DEF Quiesced
<1>2. leaf \in Nat /\ leaf = disk.leaf + (IF host.active THEN 1 ELSE 0)
  BY Kept
<1> HIDE DEF leaf
<1>3. /\ h \in Host /\ h.pending = host.pending /\ h.ops = host.ops /\ h.routed = host.routed
      /\ h.loaded = host.loaded /\ h.shown = host.shown
      /\ BusyOf(h.ops, h.active, leaf, sent)
      /\ h.loaded /\ ~Moved(h.ops) => h.turns = leaf
  BY <1>2, TurnDoneFacts
<1> HIDE DEF h
<1>4. host.ops # <<>> /\ ~Moved(host.ops) /\ host.ops[1].kind = "dispose" /\ host.ops[1].phase # "applied"
  BY <1>1, Dequeued
<1>5. QueueOf(h.ops, h.pending, h.routed, sent) /\ "deleting" \in Phases
  BY <1>3, OwnQueue DEF Phases
<1>6. /\ Same(h, g) /\ g.routed = h.routed /\ g.ops # <<>> /\ DOMAIN g.ops = DOMAIN h.ops
      /\ QueueOf(g.ops, g.pending, g.routed, sent) /\ g.ops[1].kind = h.ops[1].kind
      /\ \A n \in DOMAIN h.ops : n > 1 => g.ops[n] = h.ops[n]
  BY <1>3, <1>4, <1>5, EnterFacts
<1> HIDE DEF g
<1>7. BusyOf(g.ops, g.active, leaf, sent)
  <2>1. Len(h.ops) \in Nat /\ DOMAIN h.ops = 1..Len(h.ops)
    BY <1>3, HostFields, LenProperties DEF Queue
  <2>2. \A n \in DOMAIN g.ops : n = 1 \/ g.ops[n] = h.ops[n]
    BY <1>6, <2>1
  <2>3. g.ops[1].kind # "truncate" /\ h.ops[1].kind # "truncate"
    BY <1>3, <1>4, <1>6
  <2> QED BY <1>3, <1>6, <2>2, <2>3 DEF BusyOf, Same
<1>8. disk' \in Disk /\ disk'.leaf = leaf /\ disk'.flag = disk.flag
  BY <1>1, <1>2, Kept DEF Disk
<1>9. FlagIsOwned'
  BY <1>1, <1>3, <1>6, <1>8 DEF Inv, FlagIsOwned, Same
<1>10. g.loaded => g.turns = leaf
  BY <1>3, <1>4, <1>6 DEF Same
<1>11. host' \in Host /\ host'.pending = host.pending
  BY <1>1, <1>3, <1>6 DEF Same
<1> QED BY <1>1, <1>6, <1>7, <1>8, <1>9, <1>10, <1>11, Kept, StepKeeps

LEMMA DeleteInv ==
  ASSUME Inv, DeleteFails \/ Deleted
  PROVE  Inv'
<1> DEFINE h == Ended(host)
<1>1. Runs("dispose", "deleting") /\ UNCHANGED <<sent, spent>>
  BY DEF DeleteFails, Deleted
<1>2. /\ Same(host, h) /\ h.routed = host.routed /\ h.ops \in Queue
      /\ QueueOf(h.ops, host.pending, host.routed, sent) /\ BusyOf(h.ops, host.active, disk.leaf, sent)
      /\ BusyOf(h.ops, host.active, 0, sent) /\ ~Moved(h.ops) /\ ~Moved(host.ops)
  BY <1>1, Dequeued
<1>3. CASE DeleteFails
  <2> DEFINE g == [h EXCEPT !.disposing = FALSE]
  <2>1. host' = g /\ UNCHANGED <<disk, seen>>
    BY <1>3 DEF DeleteFails
  <2> HIDE DEF h
  <2>2. h \in Host
    BY <1>2 DEF Same
  <2>3. g \in Host
    BY <2>2, ZenonT(30) DEF Host
  <2>4. Same(h, g) /\ g.ops = h.ops /\ g.routed = h.routed
    BY <2>2, <2>3 DEF Host, Same
  <2> HIDE DEF g
  <2>5. Same(host, g) /\ QueueOf(g.ops, g.pending, g.routed, sent) /\ BusyOf(g.ops, g.active, disk.leaf, sent)
    BY <1>2, <2>4 DEF Same
  <2>6. g.loaded => g.turns = disk.leaf
    BY <1>2, <2>5, TurnsFollow DEF Same
  <2>7. Wait(g)
    BY <2>1 DEF Wait
  <2> QED BY <1>1, <2>5, <2>6, <2>7, WaitKeeps
<1>4. CASE Deleted
  <2> DEFINE g == [h EXCEPT !.disposing = FALSE, !.loaded = FALSE, !.driver = FALSE, !.turns = 0, !.shown = FALSE]
  <2>1. /\ host' = g /\ disk' = [file |-> FALSE, leaf |-> 0, flag |-> FALSE] /\ seen' = [seen EXCEPT !.flag = FALSE]
    BY <1>4 DEF Deleted
  <2> HIDE DEF h
  <2>2. h \in Host
    BY <1>2 DEF Same
  <2>3. g \in Host
    BY <2>2, ZenonT(30) DEF Host
  <2>4. g.pending = h.pending /\ g.ops = h.ops /\ g.routed = h.routed /\ g.active = h.active /\ g.loaded = FALSE
    BY <2>2 DEF Host
  <2> HIDE DEF g
  <2>5. /\ g.pending = host.pending /\ QueueOf(g.ops, g.pending, g.routed, sent) /\ BusyOf(g.ops, g.active, 0, sent)
    BY <1>2, <2>4 DEF Same
  <2>6. disk' \in Disk /\ disk'.leaf = 0 /\ disk'.flag = FALSE
    BY <2>1 DEF Disk
  <2>7. seen' \in Seen /\ seen'.log = seen.log /\ seen'.cut = seen.cut /\ seen'.flag = FALSE
    <3>1. seen \in Seen
      BY Kept
    <3>2. seen' \in Seen
      BY <2>1, <3>1, ZenonT(30) DEF Seen
    <3> QED BY <2>1, <3>1, <3>2 DEF Seen
  <2>8. FlagIsOwned'
    BY <2>1, <2>4, <2>6, <2>7 DEF FlagIsOwned
  <2> QED BY <1>1, <2>1, <2>3, <2>4, <2>5, <2>6, <2>7, <2>8, Kept, StepKeeps
<1> QED BY <1>3, <1>4

LEMMA CrashInv ==
  ASSUME Inv, Crash
  PROVE  Inv'
<1>1. /\ host' = Cold /\ sent' = sent /\ spent' = [spent EXCEPT !.crashes = @ + 1]
      /\ spent.crashes < MaxCrashes /\ seen' = [seen EXCEPT !.cut = @ \union Unanswered]
  BY DEF Crash
<1>2. \/ UNCHANGED disk
      \/ \E i \in Unanswered : \E flag \in CutOff(sent[i].value) :
            sent[i].kind = "flag" /\ disk' = [disk EXCEPT !.flag = flag]
  BY DEF Crash
<1>3. Unanswered \subseteq DOMAIN sent
  <2>1. ASSUME NEW c \in Channels, NEW n \in DOMAIN host.pending[c] PROVE host.pending[c][n] \in DOMAIN sent
    BY DEF Inv, ChainInv, ChainOf
  <2> QED BY <2>1 DEF Unanswered
<1>4. /\ Cold \in Host /\ Cold.ops = <<>> /\ Cold.pending = [c \in Channels |-> <<>>] /\ ~Cold.loaded
  <2>1. <<>> \in Seq(Ids) /\ <<>> \in Seq(Operation)
    BY EmptySeq
  <2> QED BY <2>1 DEF Cold, Host
<1>5. DOMAIN sent \subseteq Ids
  BY StateFacts DEF Inv
<1>6. /\ seen' \in Seen /\ seen'.log = seen.log /\ seen'.flag = seen.flag
      /\ seen'.cut = seen.cut \union Unanswered /\ seen'.cut \subseteq DOMAIN sent
  <2>1. seen \in Seen /\ seen.cut \subseteq DOMAIN sent
    BY Kept
  <2>2. seen.cut \union Unanswered \in SUBSET Ids
    BY <1>3, <1>5, <2>1
  <2>3. seen' \in Seen
    BY <1>1, <2>1, <2>2, ZenonT(30) DEF Seen
  <2> QED BY <1>1, <1>3, <2>1, <2>3 DEF Seen
<1>7. spent' \in Spent
  <2>1. spent.crashes + 1 \in 0..MaxCrashes
    BY <1>1, Kept, BoundsAssumption DEF Spent
  <2> QED BY <1>1, <2>1, Kept DEF Spent
<1>8. /\ disk' \in Disk
      /\ disk'.flag = disk.flag \/ \E i \in Unanswered : sent[i].kind = "flag" /\ sent[i].value = disk'.flag
  <2>1. disk \in Disk
    BY Kept
  <2>2. CASE UNCHANGED disk
    BY <2>1, <2>2
  <2>3. ASSUME NEW i \in Unanswered, NEW flag \in CutOff(sent[i].value), sent[i].kind = "flag",
               disk' = [disk EXCEPT !.flag = flag]
        PROVE  /\ disk' \in Disk
               /\ disk'.flag = disk.flag \/ \E j \in Unanswered : sent[j].kind = "flag" /\ sent[j].value = disk'.flag
    <3>1. sent[i].value \in BOOLEAN
      <4>1. sent[i] \in Actions
        BY <1>3, StateFacts DEF Inv
      <4> QED BY <2>3, <4>1, ActionFacts
    <3>2. flag \in BOOLEAN /\ flag \in {disk.flag, sent[i].value}
      BY <2>1, <3>1 DEF CutOff, Disk
    <3>3. disk' \in Disk /\ disk'.flag = flag
      BY <2>1, <2>3, <3>2 DEF Disk
    <3> QED BY <2>3, <3>2, <3>3
  <2> QED BY <1>2, <2>2, <2>3
<1>9. TypeOK'
  BY <1>1, <1>4, <1>6, <1>7, <1>8 DEF Inv, TypeOK, Seen, Spent, Disk
<1>10. ChainInv'
  BY <1>1, <1>4, <1>6 DEF Inv, ChainInv, ChainOf, Increasing
<1>11. QueueInv' /\ BusyInv'
  BY <1>1, <1>4 DEF QueueInv, QueueOf, BusyInv, BusyOf
<1>12. CutInv' /\ ChatFollowsPi'
  BY <1>1, <1>4, <1>6 DEF CutInv, ChatFollowsPi
<1>13. FlagIsOwned'
  <2>1. ~host'.loaded
    BY <1>1, <1>4
  <2>2. disk.flag = seen.flag \/ \E i \in seen.cut : sent[i].kind = "flag" /\ sent[i].value = disk.flag
    BY DEF Inv, FlagIsOwned
  <2>3. disk'.flag = seen'.flag \/ \E i \in seen'.cut : sent'[i].kind = "flag" /\ sent'[i].value = disk'.flag
    BY <1>1, <1>6, <1>8, <2>2
  <2> QED BY <2>1, <2>3 DEF FlagIsOwned
<1> QED BY <1>9, <1>10, <1>11, <1>12, <1>13 DEF Inv

-----------------------------------------------------------------------------
(* Theorems *)

LEMMA Invariance == Spec => []Inv
<1>1. ASSUME Inv, Next PROVE Inv'
  <2>1. ASSUME NEW a \in Actions, Send(a) PROVE Inv'
    BY <1>1, <2>1, SendInv
  <2>2. ASSUME NEW c \in Channels, NEW stored \in BOOLEAN, Route(c, stored) PROVE Inv'
    BY <1>1, <2>2, RouteInv
  <2>3. CASE OpStep
    <3>1. ASSUME NEW stored \in BOOLEAN, StartNext(stored) PROVE Inv'
      BY <1>1, <3>1, StartNextInv
    <3>2. CASE (\E stored \in BOOLEAN : FlagFound(stored)) \/ FindFails
      BY <1>1, <3>2, FlagInv
    <3>3. CASE Attached \/ AttachFails
      BY <1>1, <3>3, AttachInv
    <3>4. CASE Navigate
      BY <1>1, <3>4, NavigateInv
    <3>5. CASE Navigated \/ NavigationRefused \/ RouterSettles
      BY <1>1, <3>5, NavigatedInv, RouterSettlesInv
    <3>6. CASE Hydrated
      BY <1>1, <3>6, HydratedInv
    <3>7. CASE Quiesced
      BY <1>1, <3>7, QuiescedInv
    <3>8. CASE DeleteFails \/ Deleted
      BY <1>1, <3>8, DeleteInv
    <3> QED BY <2>3, <3>1, <3>2, <3>3, <3>4, <3>5, <3>6, <3>7, <3>8 DEF OpStep
  <2>4. CASE TurnEnds
    BY <1>1, <2>4, TurnEndsInv
  <2>5. CASE Hydrate \/ Dispose
    BY <1>1, <2>5, RequestInv
  <2>6. CASE Crash
    BY <1>1, <2>6, CrashInv
  <2> QED BY <1>1, <2>1, <2>2, <2>3, <2>4, <2>5, <2>6 DEF Next
<1>2. ASSUME Inv, UNCHANGED vars PROVE Inv'
  BY <1>2 DEF vars, Inv, TypeOK, ChainInv, QueueInv, BusyInv, CutInv, FlagIsOwned, ChatFollowsPi, Runs
<1>3. Inv /\ [Next]_vars => Inv'
  BY <1>1, <1>2
<1> QED BY <1>3, InitInv, PTL DEF Spec

(* Types are correct.                                                       *)
THEOREM TypesHold == Spec => []TypeOK
<1>1. Inv => TypeOK
  BY DEF Inv
<1> QED BY <1>1, Invariance, PTL

(* Each channel's actions are answered in the order they were sent, none    *)
(* twice, whatever the session's queue, the disk and the agent do meanwhile *)
(* and whether a router fails before or after it has applied its action     *)
(* (core/host.ts:749-822).                                                  *)
THEOREM AnsweredInOrder == Spec => []AnswersInOrder
<1>1. Inv => AnswersInOrder
  BY DEF Inv, ChainInv, ChainOf, Increasing, AnswersInOrder
<1> QED BY <1>1, Invariance, PTL

(* The flag on disk is the one committed last, or one that the end of a     *)
(* process cut off, and a loaded session shows it                           *)
(* (session-registry.ts:245-341, metadata-store.ts).                        *)
THEOREM FlagsAreOwned == Spec => []FlagIsOwned
<1>1. Inv => FlagIsOwned
  BY DEF Inv
<1> QED BY <1>1, Invariance, PTL

(* The chat shows the turns of pi's branch, except between pi's move and    *)
(* its announcement (session-registry.ts:744, 871-900).                     *)
THEOREM ChatsFollowPi == Spec => []ChatFollowsPi
<1>1. Inv => ChatFollowsPi
  BY DEF Inv
<1> QED BY <1>1, Invariance, PTL
=============================================================================
