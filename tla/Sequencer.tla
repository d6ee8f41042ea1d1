------------------------------ MODULE Sequencer ------------------------------
(***************************************************************************)
(* core/sequencer.ts: the allocation of server sequence numbers and the    *)
(* bounded replay buffer.                                                  *)
(*                                                                         *)
(* An envelope keeps what routing and replay look at: its channel, its     *)
(* number and whether the action was accepted or echoed as a rejection.    *)
(***************************************************************************)
EXTENDS Integers, Sequences

CONSTANTS
    Channels,       \* channel URIs
    Capacity        \* HostOptions.replayBufferCapacity

ASSUME CapacityAssumption == Capacity \in Int

VARIABLES
    serverSeq,      \* Sequencer.#serverSeq
    buffer          \* Sequencer.#buffer

seqVars == <<serverSeq, buffer>>

Envelope == [channel : Channels, serverSeq : Nat, accepted : BOOLEAN]

\* The constructor clamps the capacity: Math.max(1, capacity).
Retained == IF Capacity > 1 THEN Capacity ELSE 1

SeqInit ==
    /\ serverSeq = 0
    /\ buffer = <<>>

\* The envelope that next() numbers.
NextEnvelope(channel, accepted) ==
    [channel |-> channel, serverSeq |-> serverSeq + 1, accepted |-> accepted]

\* next() followed by retain(): the two are never separated by an await.
Emit(channel, accepted) ==
    LET grown == Append(buffer, NextEnvelope(channel, accepted)) IN
    /\ serverSeq' = serverSeq + 1
    /\ buffer' = IF Len(grown) > Retained THEN Tail(grown) ELSE grown

\* A new host process starts with a new Sequencer.
StartProcess ==
    /\ serverSeq' = 0
    /\ buffer' = <<>>

\* Mutant: accepts a gap whose first envelope was evicted.
CanReplayFromOneTooMany(lastSeen) ==
    \/ lastSeen >= serverSeq
    \/ buffer # <<>> /\ buffer[1].serverSeq <= lastSeen + 2

\* canReplayFrom: already current, or the buffer still holds the successor.
CanReplayFrom(lastSeen) ==
    \/ lastSeen >= serverSeq
    \/ buffer # <<>> /\ buffer[1].serverSeq <= lastSeen + 1

\* replayFrom: the array is modelled as the set of its elements. The buffer is
\* ordered by number (BufferIsRecentLog), so the order is implied.
ReplayFrom(lastSeen, channels) ==
    {e \in {buffer[i] : i \in DOMAIN buffer} : e.serverSeq > lastSeen /\ e.channel \in channels}
=============================================================================
