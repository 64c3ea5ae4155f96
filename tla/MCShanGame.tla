------------------------------ MODULE MCShanGame ------------------------------
(***************************************************************************)
(* An instance of ShanGame for TLC: the two rounds of ProcessNewGame, two  *)
(* players, and chips in units of the least bet.                           *)
(***************************************************************************)
EXTENDS ShanGame

BetThenPlay == << [isGlob |-> TRUE, phases |-> 1], [isGlob |-> FALSE, phases |-> 1] >>

RichAndPoor == << 4, 3 >>

\* The server's fee, that of a player without and of one with a VIP level.
Fees == [p \in 0 .. 2 |-> IF p = 2 THEN 20 ELSE 5]
=============================================================================
