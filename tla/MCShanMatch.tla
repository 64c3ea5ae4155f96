----------------------------- MODULE MCShanMatch -----------------------------
(***************************************************************************)
(* Instances of ShanMatch for TLC: model values for users and sessions,    *)
(* and who owns which session.                                             *)
(***************************************************************************)
EXTENDS ShanMatch, TLC

CONSTANTS s1, s2, s3, s4, u1, u2, u3

\* One session per user: a user is connected at most once.
OneEach == (s1 :> u1) @@ (s2 :> u2) @@ (s3 :> u3)

\* The first user is connected from two devices.
TwoDevices == (s1 :> u1) @@ (s2 :> u2) @@ (s3 :> u3) @@ (s4 :> u1)
=============================================================================
