--------------------------- MODULE MCClientActions ---------------------------
(* Instance of ClientActions for TLC. *)
EXTENDS ClientActions, TLC
=============================================================================
