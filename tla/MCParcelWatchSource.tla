--------------------------- MODULE MCParcelWatchSource ---------------------------
(* Instance of ParcelWatchSource for TLC. *)
EXTENDS ParcelWatchSource
=============================================================================
