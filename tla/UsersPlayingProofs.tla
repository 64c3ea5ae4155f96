-------------------------- MODULE UsersPlayingProofs --------------------------
(***************************************************************************)
(* Proofs about UsersPlaying: writing the users table does not disturb the *)
(* match, so everything proved of ShanMatch holds here too, and the rows   *)
(* agree with the seats as far as updates succeed.                         *)
(***************************************************************************)
EXTENDS UsersPlaying, ShanMatchProofs

\* Every step writes the rows beside a step of the match.
LEMMA TableStep == [TableNext]_tableVars => [Next]_vars
<1> SUFFICES ASSUME [TableNext]_tableVars PROVE [Next]_vars
  OBVIOUS
<1>1. CASE TableNext
  BY <1>1 DEF TableNext, JoinAndMark, LeaveAndClear, LoopAndClear, Next
<1>2. CASE UNCHANGED tableVars
  BY <1>2 DEF tableVars
<1> QED
  BY <1>1, <1>2

\* A match that writes the users table is a match: its handlers neither wait for
\* the table nor depend on what it holds.
THEOREM TableIsMatch == TableSpec => Spec
<1>1. TableInit => Init
  BY DEF TableInit
<1> QED
  BY <1>1, TableStep, PTL DEF TableSpec, Spec

-----------------------------------------------------------------------------
\* What an update does to the row of one user.
LEMMA UpdateOfUser ==
  ASSUME TableTypeOK, NEW users \in SUBSET User, NEW match \in {"", "here"},
         UpdateUsersPlayingInMatch(users, match)
  PROVE  /\ TableTypeOK'
         /\ \A u \in users : row'[u] = match \/ u \in unsure'
         /\ \A u \in User \ users : row'[u] = row[u] /\ (u \in unsure <=> u \in unsure')
<1>1. CASE Updated(users, match)
  BY <1>1 DEF Updated, TableTypeOK
<1>2. CASE UpdateFails(users)
  BY <1>2 DEF UpdateFails, TableTypeOK
<1> QED
  BY <1>1, <1>2 DEF UpdateUsersPlayingInMatch

\* The rows each handler writes.
LEMMA JoinersAreUsers ==
  ASSUME TypeOK, NEW batch \in SUBSET Session
  PROVE  NewJoiners(batch) \subseteq User /\ OwnersOf(batch) \subseteq User
BY MatchAssumption DEF NewJoiners, OwnersOf

\* The users whose rows MatchLoop clears have lost their seats in that step, and
\* nobody else has.
LEMMA LoopClearsLeavers ==
  ASSUME IInv, MatchLoop
  PROVE  /\ ClearedByLoop \subseteq User
         /\ presences' = presences \ ClearedByLoop
<1> USE MatchAssumption DEF IInv, TypeOK, RemovePresences, ApplyLeaves
<1>0. GetPresenceNotInteract \subseteq User
  BY DEF GetPresenceNotInteract
<1>1. CASE IdleProcess
  BY <1>1 DEF IdleProcess, EnterMatching, ClearedByLoop
<1>2. CASE IdleTimeout
  BY <1>2 DEF IdleTimeout, ClearedByLoop, seats
<1>3. CASE RunQueuedExit
  BY <1>3 DEF RunQueuedExit, ClearedByLoop, seats
<1>4. CASE MatchingSuccess
  BY <1>0, <1>4 DEF MatchingSuccess, EnterPreparing, ClearedByLoop
<1>5. CASE MatchingFailed
  BY <1>5 DEF MatchingFailed, ClearedByLoop, seats
<1>6. CASE PreparingSuccess
  BY <1>6 DEF PreparingSuccess, ClearedByLoop
<1>7. CASE PreparingFailed
  BY <1>7 DEF PreparingFailed, EnterMatching, ClearedByLoop
<1>8. CASE PlayProcess
  BY <1>8 DEF PlayProcess, ClearedByLoop, seats
<1>9. CASE \E walletsRead \in BOOLEAN : PlayFinished(walletsRead)
  BY <1>9 DEF PlayFinished, ClearedByLoop, seats
<1>10. CASE RewardSuccess
  BY <1>10 DEF RewardSuccess, EnterMatching, ClearedByLoop
<1> QED
  BY <1>1, <1>2, <1>3, <1>4, <1>5, <1>6, <1>7, <1>8, <1>9, <1>10 DEF MatchLoop

-----------------------------------------------------------------------------
SeatedInv == TableTypeOK /\ SeatedAreMarked

\* A user who sits down is marked in the same step, unless the seat was kept.
LEMMA JoinMarks ==
  ASSUME IInv, SeatedInv, NEW batch \in SUBSET Joining, JoinAndMark(batch)
  PROVE  SeatedInv'
<1>1. NewJoiners(batch) \subseteq User
  BY JoinersAreUsers DEF IInv, TypeOK, Joining
<1>2. presences' = presences \cup NewJoiners(batch)
  BY DEF JoinAndMark, MatchJoin
<1>3. presences \subseteq User
  BY DEF IInv, TypeOK
<1> QED
  BY <1>1, <1>2, <1>3, UpdateOfUser DEF SeatedInv, SeatedAreMarked, JoinAndMark

\* A leave clears the rows of users who have no seat any more.
LEMMA LeaveClears ==
  ASSUME IInv, SeatedInv, NEW batch \in SUBSET Joined, LeaveAndClear(batch)
  PROVE  SeatedInv'
<1>1. OwnersOf(batch) \subseteq User
  BY JoinersAreUsers DEF IInv, TypeOK, Joined
<1>2. presences' \subseteq presences /\ presences \subseteq User
  BY DEF LeaveAndClear, MatchLeave, LeavePending, LeaveNow, RemovePresences, IInv, TypeOK
<1>3. ClearedByLeave(batch) \subseteq OwnersOf(batch)
  BY DEF ClearedByLeave
<1>4. presences' \cap ClearedByLeave(batch) = {}
  BY DEF LeaveAndClear, MatchLeave, LeavePending, LeaveNow, RemovePresences, ClearedByLeave
<1> QED
  BY <1>1, <1>2, <1>3, <1>4, UpdateOfUser DEF SeatedInv, SeatedAreMarked, LeaveAndClear

\* The ticks clear the rows of those they remove.
LEMMA LoopClears ==
  ASSUME IInv, SeatedInv, LoopAndClear
  PROVE  SeatedInv'
<1>1. ClearedByLoop \subseteq User /\ presences' = presences \ ClearedByLoop
  BY LoopClearsLeavers DEF LoopAndClear
<1>2. presences \subseteq User
  BY DEF IInv, TypeOK
<1> QED
  BY <1>1, <1>2, UpdateOfUser DEF SeatedInv, SeatedAreMarked, LoopAndClear

\* The steps that leave the rows alone seat nobody.
LEMMA RestKeepsSeats ==
  ASSUME \/ \E s \in Session : RejoinAttempt(s) \/ NewAttempt(s) \/ LoseJoin(s)
         \/ TimePasses
         \/ UNCHANGED vars
  PROVE  presences' = presences
BY DEF RejoinAttempt, NewAttempt, Attempts, LoseJoin, TimePasses, seats, vars

LEMMA StepSeated == ASSUME IInv, SeatedInv, [TableNext]_tableVars PROVE SeatedInv'
<1>1. CASE \E s \in Session : (RejoinAttempt(s) \/ NewAttempt(s) \/ LoseJoin(s)) /\ UNCHANGED table
  BY <1>1, RestKeepsSeats DEF table, SeatedInv, SeatedAreMarked, TableTypeOK
<1>2. CASE \E batch \in SUBSET Joining : JoinAndMark(batch)
  BY <1>2, JoinMarks
<1>3. CASE \E batch \in SUBSET Joined : LeaveAndClear(batch)
  BY <1>3, LeaveClears
<1>4. CASE LoopAndClear
  BY <1>4, LoopClears
<1>5. CASE TimePasses /\ UNCHANGED table
  BY <1>5, RestKeepsSeats DEF table, SeatedInv, SeatedAreMarked, TableTypeOK
<1>6. CASE UNCHANGED tableVars
  BY <1>6, RestKeepsSeats DEF tableVars, SeatedInv, SeatedAreMarked, TableTypeOK
<1> QED
  BY <1>1, <1>2, <1>3, <1>4, <1>5, <1>6 DEF TableNext

\* Whoever is seated is marked as playing here, or the last update of the user's
\* row failed.
THEOREM SeatedMarked == TableSpec => []SeatedAreMarked
<1>1. TableInit => SeatedInv
  BY DEF TableInit, Init, SeatedInv, SeatedAreMarked, TableTypeOK
<1>2. IInv /\ SeatedInv /\ [TableNext]_tableVars => SeatedInv'
  BY StepSeated
<1>3. SeatedInv => SeatedAreMarked
  BY DEF SeatedInv
<1> QED
  BY <1>1, <1>2, <1>3, TableIsMatch, Invariance, PTL DEF TableSpec

-----------------------------------------------------------------------------
\* One step of MarksAreCleared.
LEMMA StepClears ==
  ASSUME IInv, SeatedInv, [TableNext]_tableVars
  PROVE  \A u \in presences \ presences' :
           row'[u] = "" \/ u \in unsure' \/ (DefersLeaves /\ u \notin playing)
<1>0. presences \subseteq User /\ TableTypeOK
  BY DEF IInv, TypeOK, SeatedInv
<1>1. CASE \E batch \in SUBSET Joining : JoinAndMark(batch)
  <2>1. presences \subseteq presences'
    BY <1>1 DEF JoinAndMark, MatchJoin
  <2> QED
    BY <2>1
<1>2. ASSUME NEW batch \in SUBSET Joined, LeaveAndClear(batch)
      PROVE  \A u \in presences \ presences' :
               row'[u] = "" \/ u \in unsure' \/ (DefersLeaves /\ u \notin playing)
  <2>1. OwnersOf(batch) \subseteq User
    BY JoinersAreUsers DEF IInv, TypeOK, Joined
  <2>2. CASE DefersLeaves
    BY <1>2, <2>2 DEF LeaveAndClear, MatchLeave, LeavePending, LeaveNow, RemovePresences
  <2>3. CASE ~ DefersLeaves
    <3>1. presences \ presences' \subseteq OwnersOf(batch) /\ ClearedByLeave(batch) = OwnersOf(batch)
      BY <1>2, <2>3 DEF LeaveAndClear, MatchLeave, LeavePending, LeaveNow, RemovePresences, ClearedByLeave
    <3> QED
      BY <1>0, <1>2, <2>1, <3>1, UpdateOfUser DEF LeaveAndClear
  <2> QED
    BY <2>2, <2>3
<1>3. CASE LoopAndClear
  <2>1. ClearedByLoop \subseteq User /\ presences' = presences \ ClearedByLoop
    BY <1>3, LoopClearsLeavers DEF LoopAndClear
  <2> QED
    BY <1>0, <1>3, <2>1, UpdateOfUser DEF LoopAndClear
<1>4. CASE \/ \E s \in Session : RejoinAttempt(s) \/ NewAttempt(s) \/ LoseJoin(s)
           \/ TimePasses
           \/ UNCHANGED tableVars
  <2>1. presences' = presences
    BY <1>4, RestKeepsSeats DEF tableVars
  <2> QED
    BY <2>1
<1> QED
  BY <1>1, <1>2, <1>3, <1>4 DEF TableNext

\* Whoever loses the seat loses the mark, unless the update failed or a user who
\* does not play leaves during a game.
THEOREM MarksCleared == TableSpec => MarksAreCleared
<1> DEFINE Clears == \A u \in presences \ presences' :
                       row'[u] = "" \/ u \in unsure' \/ (DefersLeaves /\ u \notin playing)
<1>1. TableInit => SeatedInv
  BY DEF TableInit, Init, SeatedInv, SeatedAreMarked, TableTypeOK
<1>2. IInv /\ SeatedInv /\ [TableNext]_tableVars => SeatedInv'
  BY StepSeated
<1>3. IInv /\ SeatedInv /\ [TableNext]_tableVars => [Clears]_tableVars
  BY StepClears
<1> QED
  BY <1>1, <1>2, <1>3, TableIsMatch, Invariance, PTL DEF TableSpec, MarksAreCleared
=============================================================================
