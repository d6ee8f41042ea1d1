---------------------------- MODULE MCChatDriver ----------------------------
(* Small instances of ChatDriver. Messages are interchangeable.             *)
EXTENDS ChatDriver, TLC

=============================================================================
