-------------------------- MODULE MCSimEventQueue --------------------------
(* Small instances of SimEventQueue. *)
EXTENDS SimEventQueue, TLC

=============================================================================
