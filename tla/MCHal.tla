------------------------------- MODULE MCHal -------------------------------
(* A counter of 13 values: calls far from its end, across it, and ending at *)
(* its last value; a wait of three turns.  Two keys, one of them the code   *)
(* that a count of two events reads as when a transfer fails; a queue of    *)
(* two events, to be full of three.                                         *)
EXTENDS Hal
=============================================================================
