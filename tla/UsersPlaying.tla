----------------------------- MODULE UsersPlaying -----------------------------
(***************************************************************************)
(* ShanMatch with the rows of the users table that its handlers write: the *)
(* key playing_in_match of a user's metadata says which match the user     *)
(* plays in (cgbdb/user.go).  The rows mirror the seats: they are written  *)
(* by the join, the leave and the apply-leave handlers, and an update that *)
(* fails is only logged.  GetProfileUsers copies the row into a profile    *)
(* when a player joins, and nothing in the match uses that field.          *)
(*                                                                         *)
(* Users are seated at one match at a time: what other matches write into  *)
(* the rows is not modelled.                                               *)
(***************************************************************************)
EXTENDS ShanMatch

CONSTANT UpdatesMayFail  \* may db.ExecContext return an error?

VARIABLES
  row,    \* playing_in_match of each user: "here", or "" for no match
  unsure  \* history: the users whose last update failed

table     == <<row, unsure>>
tableVars == <<vars, row, unsure>>

TableTypeOK == row \in [User -> {"", "here"}] /\ unsure \subseteq User

TableInit ==
  /\ Init
  /\ row = [u \in User |-> ""]
  /\ unsure = {}

-----------------------------------------------------------------------------
\* UpdateUsersPlayingInMatch: one statement for all users of the list, so all
\* rows change or none; nothing is sent for an empty list.
Updated(users, match) ==
  /\ row' = [u \in User |-> IF u \in users THEN match ELSE row[u]]
  /\ unsure' = unsure \ users

UpdateFails(users) ==
  /\ UpdatesMayFail
  /\ users # {}
  /\ unsure' = unsure \cup users
  /\ UNCHANGED row

UpdateUsersPlayingInMatch(users, match) == Updated(users, match) \/ UpdateFails(users)

\* The new joins of a batch are marked; who comes back from LeavePresences is
\* taken to be marked still.
JoinAndMark(batch) ==
  /\ MatchJoin(batch)
  /\ UpdateUsersPlayingInMatch(NewJoiners(batch), "here")

\* Leaves that are applied at once clear the marks; during a game no leave does,
\* not even that of a user who does not play and is removed at once.
ClearsAnyway(batch) == OwnersOf(batch)  \* mutant: a deferred leave clears the mark
ClearedByLeave(batch) == IF DefersLeaves THEN {} ELSE OwnersOf(batch)

LeaveAndClear(batch) ==
  /\ MatchLeave(batch)
  /\ UpdateUsersPlayingInMatch(ClearedByLeave(batch), "")

\* The users that ProcessApplyPresencesLeave removes when the machine enters the
\* matching or the preparing state.
ClearsLeaversOnly == IF phase' # phase THEN leaving ELSE {}  \* mutant: kicked users keep it
ClearedByLoop ==
  CASE phase' = phase       -> {}
    [] phase' = "Matching"  -> leaving
    [] phase' = "Preparing" -> leaving \cup GetPresenceNotInteract
    [] OTHER                -> {}

LoopAndClear ==
  /\ MatchLoop
  /\ UpdateUsersPlayingInMatch(ClearedByLoop, "")

TableNext ==
  \/ \E s \in Session : (RejoinAttempt(s) \/ NewAttempt(s) \/ LoseJoin(s)) /\ UNCHANGED table
  \/ \E batch \in SUBSET Joining : JoinAndMark(batch)
  \/ \E batch \in SUBSET Joined : LeaveAndClear(batch)
  \/ LoopAndClear
  \/ TimePasses /\ UNCHANGED table

TableSpec == TableInit /\ [][TableNext]_tableVars /\ Fairness

-----------------------------------------------------------------------------
\* Whoever is seated is marked as playing here, unless the write failed: neither
\* a rejoin that cancels a pending leave (and writes nothing), nor leaves that
\* are deferred, applied late or cancelled, leave a seated user without a mark.
SeatedAreMarked == \A u \in presences : row[u] = "here" \/ u \in unsure

\* A mark outlives the seat for two reasons only: the write failed, or the user
\* left during a game without playing in it (base_processor.go:154).
MarksAreCleared ==
  [][\A u \in presences \ presences' :
       row'[u] = "" \/ u \in unsure' \/ (DefersLeaves /\ u \notin playing)]_tableVars
=============================================================================
