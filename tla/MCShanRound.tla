---------------------------- MODULE MCShanRound ------------------------------
(***************************************************************************)
(* Instances of ShanRound for TLC.  Amounts are scaled down: a least bet   *)
(* of 10 stands for one of 10000.                                          *)
(***************************************************************************)
EXTENDS ShanRound, TLC

CONSTANTS u1, u2, u3

\* One player with just enough chips, one with more, one with too few.
Wallets == u1 :> 100 @@ u2 :> 130 @@ u3 :> 90
Levels  == u1 :> 0 @@ u2 :> 1 @@ u3 :> 4
=============================================================================
