-------------------------- MODULE MCTerminalService --------------------------
(* Instance of TerminalService for TLC. *)
EXTENDS TerminalService, TLC
=============================================================================
