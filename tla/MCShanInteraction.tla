-------------------------- MODULE MCShanInteraction --------------------------
(***************************************************************************)
(* An instance of ShanInteraction for TLC: two users, one session each.    *)
(***************************************************************************)
EXTENDS ShanInteraction, TLC

CONSTANTS s1, s2, u1, u2

OneEach == (s1 :> u1) @@ (s2 :> u2)
=============================================================================
