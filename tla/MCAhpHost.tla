------------------------------ MODULE MCAhpHost ------------------------------
(* Small instances of AhpHost. Connections are interchangeable.             *)
EXTENDS AhpHost, TLC

ConnSymmetry == Permutations(Conns)

\* The result a handler prepares for a socket that is gone reaches nobody:
\* states that differ only there have the same futures.
Observable(k) ==
    IF up[k] \/ request[k].kind = "none" THEN request[k]
    ELSE [NoRequest EXCEPT !.kind = IF request[k].kind = "subscribe" THEN "subscribe" ELSE "initialize",
                           !.phase = request[k].phase, !.todo = request[k].todo,
                           !.hydrated = request[k].hydrated]

MCView == <<seqVars, store, attached, clientOf, subs, known, told, [k \in Conns |-> Observable(k)],
            netVars, histVars, clientVars>>
=============================================================================
