------------------------------- MODULE MCRecv -------------------------------
(* Recv for TLC: channels and the arguments of drain_events as integers.     *)
EXTENDS Recv

MCTimeouts == {0, NoTimeout}
=============================================================================
