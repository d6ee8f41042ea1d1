--------------------------- MODULE SessionIdentity ---------------------------
(***************************************************************************)
(* What the session registry and the hydrator promise about one session    *)
(* id, whatever requests overlap: at most one session is open under it,    *)
(* every open session is a new one with a file of its own or one that      *)
(* exists, and a deletion is final. From the removal of the file until the *)
(* session is closed nothing is opened, loaded or written, and only then   *)
(* may the id be used again.                                               *)
(***************************************************************************)
EXTENDS Naturals

CONSTANT Files          \* the files that bear this id, some of them numbers

VARIABLES
    open,       \* the number of the open session, 0 when there is none
    opened,     \* sessions opened so far
    backing,    \* the file of the open session
    kept,       \* files on disk
    removed     \* a removal has begun and its session is not closed yet

identityVars == <<open, opened, backing, kept, removed>>

IdentityInit ==
    /\ open = 0 /\ opened = 0 /\ removed = FALSE
    /\ backing \in Files
    /\ kept \subseteq Files

\* A session is created, with the file of its number, or loaded from a file
\* that exists.
Open ==
    /\ open = 0 /\ ~removed
    /\ open' = opened + 1 /\ opened' = opened + 1
    /\ backing' \in kept \cup {opened + 1}
    /\ UNCHANGED <<kept, removed>>

\* pi writes the open session's file.
Save ==
    /\ open # 0 /\ ~removed
    /\ kept' = kept \cup {backing}
    /\ UNCHANGED <<open, opened, backing, removed>>

\* Durable removal of the open session's file, or of one that is not open.
Remove ==
    /\ ~removed /\ removed' = TRUE
    /\ \E file \in Files :
          /\ IF open # 0 THEN file = backing ELSE file \in kept
          /\ kept' = kept \ {file}
    /\ UNCHANGED <<open, opened, backing>>

\* The channels disappear and the id is free again.
Close ==
    /\ removed /\ removed' = FALSE
    /\ open' = 0
    /\ backing' \in Files
    /\ UNCHANGED <<opened, kept>>

IdentityNext == Open \/ Save \/ Remove \/ Close

IdentitySpec == IdentityInit /\ [][IdentityNext]_identityVars
=============================================================================
