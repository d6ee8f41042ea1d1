--------------------------- MODULE MCResourceWatch ---------------------------
(* Instances of ResourceWatch for TLC. *)
EXTENDS ResourceWatch
=============================================================================
