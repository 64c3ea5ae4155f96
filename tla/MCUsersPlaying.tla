---------------------------- MODULE MCUsersPlaying ----------------------------
(***************************************************************************)
(* Instances of UsersPlaying for TLC: one session per user.                *)
(***************************************************************************)
EXTENDS UsersPlaying, TLC

CONSTANTS s1, s2, s3, u1, u2, u3

OneEach == (s1 :> u1) @@ (s2 :> u2) @@ (s3 :> u3)
=============================================================================
