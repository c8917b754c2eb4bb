----------------------------- MODULE MCRendezvous -----------------------------
(* Rendezvous for TLC: command lines given all at once, or one after        *)
(* another.                                                                 *)
EXTENDS Rendezvous

CONSTANTS c1, c2, c3, c4

Concurrent == {}
InTurn     == {<<c1, c2>>, <<c1, c3>>, <<c1, c4>>, <<c2, c3>>, <<c2, c4>>, <<c3, c4>>}
=============================================================================
