---------------------------- MODULE SeatAdmission ----------------------------
(***************************************************************************)
(* What the join and leave handlers of a match promise: a user is first    *)
(* invited, an invited user may take a seat, seats are given up at any     *)
(* time, and there is always a seat for everyone seated or invited.        *)
(***************************************************************************)
EXTENDS Integers, FiniteSets

CONSTANTS User, Seats

VARIABLES seated, invited

Init == seated = {} /\ invited = {}

Invite(u) ==
  /\ Cardinality(seated \cup invited \cup {u}) <= Seats
  /\ invited' = invited \cup {u}
  /\ UNCHANGED seated

\* Some of the invited sit down; some invitations are used up or withdrawn.
SitDown ==
  /\ invited' \subseteq invited
  /\ seated \subseteq seated'
  /\ seated' \subseteq seated \cup invited

StandUp ==
  /\ seated' \subseteq seated
  /\ UNCHANGED invited

Next == (\E u \in User : Invite(u)) \/ SitDown \/ StandUp

Spec == Init /\ [][Next]_<<seated, invited>>
=============================================================================
