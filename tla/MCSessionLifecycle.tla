------------------------ MODULE MCSessionLifecycle ------------------------
(* Small instances of SessionLifecycle. Actions are interchangeable.        *)
EXTENDS SessionLifecycle, TLC

=============================================================================
