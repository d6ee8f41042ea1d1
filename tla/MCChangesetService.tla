------------------------- MODULE MCChangesetService -------------------------
(* Instance of ChangesetService for TLC. *)
EXTENDS ChangesetService, TLC
=============================================================================
