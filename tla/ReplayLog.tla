------------------------------ MODULE ReplayLog ------------------------------
(***************************************************************************)
(* The sequencer measured against everything it ever emitted.              *)
(*                                                                         *)
(* `log' is a history variable: all envelopes of the current host process. *)
(* The code keeps no such list.                                            *)
(***************************************************************************)
EXTENDS Sequencer

VARIABLE log

logVars == <<seqVars, log>>

LogInit == SeqInit /\ log = <<>>

EmitLogged(channel, accepted) ==
    /\ Emit(channel, accepted)
    /\ log' = Append(log, NextEnvelope(channel, accepted))

RestartLogged == StartProcess /\ log' = <<>>

LogNext ==
    \/ \E c \in Channels, accepted \in BOOLEAN : EmitLogged(c, accepted)
    \/ RestartLogged

LogSpec == LogInit /\ [][LogNext]_logVars

-----------------------------------------------------------------------------
LogTypeOK ==
    /\ serverSeq \in Nat
    /\ buffer \in Seq(Envelope)
    /\ log \in Seq(Envelope)

\* The buffer is the most recent part of the log, in order and without gaps,
\* never longer than the capacity and never shorter than it could be
\* (sequencer.ts:39-45).
BufferIsRecentLog ==
    /\ Len(log) = serverSeq
    /\ \A i \in 1..Len(log) : log[i].serverSeq = i
    /\ Len(buffer) = IF serverSeq < Retained THEN serverSeq ELSE Retained
    /\ \A i \in 1..Len(buffer) : buffer[i] = log[serverSeq - Len(buffer) + i]

\* Whenever canReplayFrom agrees to a replay, replayFrom returns every envelope
\* of the requested channels after lastSeen, and nothing else: a reconnecting
\* client never gets a silently truncated gap (sequencer.ts:53-74).
ReplayIsComplete ==
    \A lastSeen \in 0..(serverSeq + 1), channels \in SUBSET Channels :
        CanReplayFrom(lastSeen) =>
            ReplayFrom(lastSeen, channels) =
                {e \in {log[i] : i \in DOMAIN log} : e.serverSeq > lastSeen /\ e.channel \in channels}
=============================================================================
