--------------------------- MODULE ShanMatchProofs ---------------------------
(***************************************************************************)
(* Proofs about ShanMatch for every number of users, sessions and seats.   *)
(* The safety invariants are proved together: GuestsFit needs              *)
(* JoinsCoverPending, PlayersStaySeated needs PendingOnlyInGame, and all   *)
(* need the types.                                                         *)
(***************************************************************************)
EXTENDS ShanMatch, FiniteSetTheorems, TLAPS

IInv ==
  /\ TypeOK
  /\ JoinsCoverPending
  /\ GuestsFit
  /\ QueuedExitIsHandled
  /\ PendingOnlyInGame
  /\ PlayersStaySeated
  /\ CountersBounded

-----------------------------------------------------------------------------
(***************************************************************************)
(* Lemmas about sets of sessions and their owners.                         *)
(***************************************************************************)

\* A set of sessions has no more owners than members, whatever device a user
\* connects from: the image Owner[s] that the presence maps are keyed by.
LEMMA OwnersBounded ==
  ASSUME MatchAssumption, NEW S \in SUBSET Session
  PROVE  /\ IsFiniteSet(S)
         /\ IsFiniteSet(OwnersOf(S))
         /\ OwnersOf(S) \subseteq User
         /\ Cardinality(S) \in Nat
         /\ Cardinality(OwnersOf(S)) \in Nat
         /\ Cardinality(OwnersOf(S)) <= Cardinality(S)
<1>1. IsFiniteSet(S)
  BY FS_Subset DEF MatchAssumption
<1> DEFINE f == [s \in S |-> Owner[s]]
<1>2. f \in Surjection(S, OwnersOf(S))
  BY DEF Surjection, OwnersOf
<1>3. IsFiniteSet(OwnersOf(S)) /\ Cardinality(OwnersOf(S)) <= Cardinality(S)
  BY <1>1, <1>2, FS_Surjection
<1>4. OwnersOf(S) \subseteq User
  BY DEF OwnersOf, MatchAssumption
<1> QED
  BY <1>1, <1>3, <1>4, FS_CardinalityType

\* A smaller set of guests fits where a larger one does: no step that only
\* removes seats or reservations can overfill the table.
LEMMA FewerFit ==
  ASSUME MatchAssumption, NEW A \in SUBSET User, NEW B \in SUBSET A,
         Cardinality(A) <= MaxPresences
  PROVE  Cardinality(B) <= MaxPresences
<1>1. IsFiniteSet(A)
  BY FS_Subset DEF MatchAssumption
<1>2. Cardinality(B) <= Cardinality(A) /\ IsFiniteSet(B)
  BY <1>1, FS_Subset
<1> QED
  BY <1>1, <1>2, FS_CardinalityType DEF MatchAssumption

\* If seats and joins in progress together leave room for one more, then so do
\* the seated and the invited users together: the test of MatchJoinAttempt.
LEMMA RoomForOneMore ==
  ASSUME MatchAssumption, TypeOK, JoinsCoverPending, NEW u \in User,
         Cardinality(presences) + joins < MaxPresences
  PROVE  Cardinality(presences \cup OwnersOf(Joining) \cup {u}) <= MaxPresences
<1> DEFINE G == presences \cup OwnersOf(Joining)
<1>1. Joining \in SUBSET Session
  BY DEF Joining
<1>2. /\ IsFiniteSet(OwnersOf(Joining))
      /\ Cardinality(OwnersOf(Joining)) \in Nat
      /\ Cardinality(OwnersOf(Joining)) <= joins
  BY <1>1, OwnersBounded DEF JoinsCoverPending, TypeOK
<1>3. IsFiniteSet(presences) /\ Cardinality(presences) \in Nat
  BY FS_Subset, FS_CardinalityType DEF TypeOK, MatchAssumption
<1>4. /\ IsFiniteSet(G)
      /\ Cardinality(G) = Cardinality(presences) + Cardinality(OwnersOf(Joining))
                            - Cardinality(presences \cap OwnersOf(Joining))
  BY <1>2, <1>3, FS_Union
<1>5. Cardinality(presences \cap OwnersOf(Joining)) \in Nat
  BY <1>3, FS_Intersection, FS_CardinalityType
<1>6. Cardinality(G) \in Nat /\ Cardinality(G) < MaxPresences
  BY <1>2, <1>3, <1>4, <1>5, FS_CardinalityType DEF MatchAssumption, TypeOK
<1> HIDE DEF G
<1>7. Cardinality(G \cup {u}) = IF u \in G THEN Cardinality(G) ELSE Cardinality(G) + 1
  BY <1>4, FS_AddElement
<1>8. IsFiniteSet(G \cup {u}) /\ Cardinality(G \cup {u}) \in Nat
  BY <1>4, FS_AddElement, FS_CardinalityType
<1>9. Cardinality(G \cup {u}) <= MaxPresences
  BY <1>6, <1>7, <1>8 DEF MatchAssumption
<1> QED
  BY <1>9 DEF G

-----------------------------------------------------------------------------
(***************************************************************************)
(* Steps that leave the joins alone and add nobody: the guests that fit    *)
(* before the step still fit, and the reservations are still covered.      *)
(***************************************************************************)
LEMMA NobodyNew ==
  ASSUME MatchAssumption, IInv, TypeOK',
         presences' \subseteq presences, Joining' \subseteq Joining, joins' = joins
  PROVE  JoinsCoverPending' /\ GuestsFit'
<1>1. Joining \in SUBSET Session /\ Joining' \in SUBSET Session
  BY DEF Joining
<1>2. OwnersOf(Joining) \subseteq User /\ IsFiniteSet(Joining)
  BY <1>1, OwnersBounded
<1>3. JoinsCoverPending'
  <2>1. Cardinality(Joining') <= Cardinality(Joining)
    BY <1>2, FS_Subset
  <2>2. Cardinality(Joining) \in Nat /\ Cardinality(Joining') \in Nat
    BY <1>1, OwnersBounded
  <2> QED
    BY <2>1, <2>2 DEF IInv, JoinsCoverPending, TypeOK
<1>4. OwnersOf(Joining') \subseteq OwnersOf(Joining)
  BY DEF OwnersOf
<1>5. GuestsFit'
  <2> DEFINE A == presences \cup OwnersOf(Joining)
             B == presences' \cup OwnersOf(Joining')
  <2>1. A \in SUBSET User /\ B \in SUBSET A
    BY <1>2, <1>4 DEF IInv, TypeOK
  <2>2. Cardinality(A) <= MaxPresences
    BY DEF IInv, GuestsFit
  <2> HIDE DEF A, B
  <2>3. Cardinality(B) <= MaxPresences
    BY <2>1, <2>2, FewerFit
  <2>4. OwnersOf(Joining)' = OwnersOf(Joining')
    BY DEF OwnersOf
  <2> QED
    BY <2>3, <2>4 DEF GuestsFit, B
<1> QED
  BY <1>3, <1>5

-----------------------------------------------------------------------------
(***************************************************************************)
(* Every action preserves every part of the invariant.                     *)
(***************************************************************************)

\* Every handler, tick and lapse of time keeps the types; the one fact that is
\* not immediate is that MatchJoin leaves joins non-negative.
LEMMA StepTypes == IInv /\ [Next]_vars => TypeOK'
<1> SUFFICES ASSUME IInv, [Next]_vars
             PROVE  TypeOK'
  OBVIOUS
<1> USE MatchAssumption DEF IInv, TypeOK, Phase
<1>1. ASSUME NEW s \in Session, RejoinAttempt(s)
      PROVE  TypeOK'
  BY <1>1 DEF RejoinAttempt, RemoveLeavePresence, Attempts
<1>2. ASSUME NEW s \in Session, NewAttempt(s)
      PROVE  TypeOK'
  BY <1>2 DEF NewAttempt, Attempts
<1>3. ASSUME NEW s \in Session, LoseJoin(s)
      PROVE  TypeOK'
  BY <1>3 DEF LoseJoin, clock, seats
<1>4. ASSUME NEW batch \in SUBSET Joining, MatchJoin(batch)
      PROVE  TypeOK'
  <2>1. joins' \in Nat
    <3>1. batch \in SUBSET Session /\ OwnersOf(batch) \cap leaving \in SUBSET OwnersOf(batch)
      BY DEF Joining
    <3>2. /\ Cardinality(batch) \in Nat
          /\ IsFiniteSet(OwnersOf(batch))
          /\ Cardinality(OwnersOf(batch)) <= Cardinality(batch)
      BY <3>1, OwnersBounded
    <3>3. Cardinality(BackFromLeave(batch)) \in Nat
      BY <3>1, <3>2, FS_Subset, FS_CardinalityType DEF BackFromLeave
    <3>4. Cardinality(batch) <= Cardinality(Joining)
      BY OwnersBounded, FS_Subset DEF Joining
    <3>5. Cardinality(Joining) <= joins /\ Cardinality(Joining) \in Nat
      BY OwnersBounded DEF JoinsCoverPending, Joining
    <3> QED
      BY <1>4, <3>2, <3>3, <3>4, <3>5 DEF MatchJoin
  <2>2. NewJoiners(batch) \subseteq User
    BY DEF NewJoiners, Joining, MatchAssumption
  <2> QED
    BY <1>4, <2>1, <2>2 DEF MatchJoin, clock
<1>5. ASSUME NEW batch \in SUBSET Joined, MatchLeave(batch)
      PROVE  TypeOK'
    BY <1>5 DEF MatchLeave, LeavePending, LeaveNow, DefersLeaves,
     RemovePresences, Restrict, clock
<1>6. CASE IdleProcess
    BY <1>6 DEF IdleProcess, Tick, EnterMatching, SetUpCountDown, ApplyLeaves,
     RemovePresences, Restrict
<1>7. CASE IdleTimeout
  BY <1>7 DEF IdleTimeout, Tick, seats
<1>8. CASE RunQueuedExit
  BY <1>8 DEF RunQueuedExit, seats
<1>9. CASE MatchingSuccess
    BY <1>9 DEF MatchingSuccess, Tick, EnterPreparing, SetUpCountDown,
     ApplyLeaves, RemovePresences, Restrict, GetPresenceNotInteract
<1>10. CASE MatchingFailed
  BY <1>10 DEF MatchingFailed, Tick, SetUpCountDown, seats
<1>11. CASE PreparingSuccess
  <2>1. phase' \in Phase /\ alive' \in {"running", "ended", "panicked"}
    BY <1>11 DEF PreparingSuccess
  <2>2. noInteract' \in [presences' -> Nat]
    BY <1>11 DEF PreparingSuccess
  <2>3. {exitQueued, expired, finished}' \subseteq BOOLEAN
    BY <1>11 DEF PreparingSuccess, SetUpCountDown
  <2> QED
    BY <1>11, <2>1, <2>2, <2>3 DEF PreparingSuccess
<1>12. CASE PreparingFailed
    BY <1>12 DEF PreparingFailed, Tick, EnterMatching, SetUpCountDown,
     ApplyLeaves, RemovePresences, Restrict
<1>13. CASE PlayProcess
  BY <1>13 DEF PlayProcess, Tick, clock, seats
<1>14. ASSUME NEW walletsRead \in BOOLEAN, PlayFinished(walletsRead)
      PROVE  TypeOK'
  BY <1>14 DEF PlayFinished, Tick, SetUpCountDown, seats
<1>15. CASE RewardSuccess
    BY <1>15 DEF RewardSuccess, Tick, EnterMatching, SetUpCountDown,
     ApplyLeaves, RemovePresences, Restrict
<1>16. CASE TimePasses
  BY <1>16 DEF TimePasses, seats
<1>17. CASE UNCHANGED vars
  BY <1>17 DEF vars
<1> QED
    BY <1>1, <1>2, <1>3, <1>4, <1>5, <1>6, <1>7, <1>8, <1>9, <1>10, <1>11,
     <1>12, <1>13, <1>14, <1>15, <1>16, <1>17 DEF Next, MatchLoop

\* The invariants about one game: pending leaves exist only in a game, the
\* players stay seated, the counters stay bounded.
LEMMA StepGame == IInv /\ [Next]_vars => QueuedExitIsHandled' /\ PendingOnlyInGame' /\ PlayersStaySeated' /\ CountersBounded'
<1> SUFFICES ASSUME IInv, [Next]_vars
             PROVE  QueuedExitIsHandled' /\ PendingOnlyInGame' /\ PlayersStaySeated' /\ CountersBounded'
  OBVIOUS
<1> USE MatchAssumption DEF IInv, TypeOK, QueuedExitIsHandled, PendingOnlyInGame, PlayersStaySeated, CountersBounded, InGame, Phase
<1>1. ASSUME NEW s \in Session, RejoinAttempt(s)
      PROVE  QueuedExitIsHandled' /\ PendingOnlyInGame' /\ PlayersStaySeated' /\ CountersBounded'
  BY <1>1 DEF RejoinAttempt, RemoveLeavePresence, Attempts
<1>2. ASSUME NEW s \in Session, NewAttempt(s)
      PROVE  QueuedExitIsHandled' /\ PendingOnlyInGame' /\ PlayersStaySeated' /\ CountersBounded'
  BY <1>2 DEF NewAttempt, Attempts
<1>3. ASSUME NEW s \in Session, LoseJoin(s)
      PROVE  QueuedExitIsHandled' /\ PendingOnlyInGame' /\ PlayersStaySeated' /\ CountersBounded'
  BY <1>3 DEF LoseJoin, clock, seats
<1>4. ASSUME NEW batch \in SUBSET Joining, MatchJoin(batch)
      PROVE  QueuedExitIsHandled' /\ PendingOnlyInGame' /\ PlayersStaySeated' /\ CountersBounded'
  BY <1>4 DEF MatchJoin, NewJoiners, Joining, clock
<1>5. ASSUME NEW batch \in SUBSET Joined, MatchLeave(batch)
      PROVE  QueuedExitIsHandled' /\ PendingOnlyInGame' /\ PlayersStaySeated' /\ CountersBounded'
    BY <1>5 DEF MatchLeave, LeavePending, LeaveNow, DefersLeaves,
     RemovePresences, Restrict, clock
<1>6. CASE IdleProcess
    BY <1>6 DEF IdleProcess, Tick, EnterMatching, SetUpCountDown, ApplyLeaves,
     RemovePresences, Restrict
<1>7. CASE IdleTimeout
  BY <1>7 DEF IdleTimeout, Tick, seats
<1>8. CASE RunQueuedExit
  BY <1>8 DEF RunQueuedExit, seats
<1>9. CASE MatchingSuccess
    BY <1>9 DEF MatchingSuccess, Tick, EnterPreparing, SetUpCountDown,
     ApplyLeaves, RemovePresences, Restrict, GetPresenceNotInteract
<1>10. CASE MatchingFailed
  BY <1>10 DEF MatchingFailed, Tick, SetUpCountDown, seats
<1>11. CASE PreparingSuccess
  BY <1>11 DEF PreparingSuccess, Tick, SetUpCountDown
<1>12. CASE PreparingFailed
    BY <1>12 DEF PreparingFailed, Tick, EnterMatching, SetUpCountDown,
     ApplyLeaves, RemovePresences, Restrict
<1>13. CASE PlayProcess
  BY <1>13 DEF PlayProcess, Tick, clock, seats
<1>14. ASSUME NEW walletsRead \in BOOLEAN, PlayFinished(walletsRead)
      PROVE  QueuedExitIsHandled' /\ PendingOnlyInGame' /\ PlayersStaySeated' /\ CountersBounded'
  BY <1>14 DEF PlayFinished, Tick, SetUpCountDown, seats
<1>15. CASE RewardSuccess
    BY <1>15 DEF RewardSuccess, Tick, EnterMatching, SetUpCountDown,
     ApplyLeaves, RemovePresences, Restrict
<1>16. CASE TimePasses
  BY <1>16 DEF TimePasses, seats
<1>17. CASE UNCHANGED vars
  BY <1>17 DEF vars
<1> QED
    BY <1>1, <1>2, <1>3, <1>4, <1>5, <1>6, <1>7, <1>8, <1>9, <1>10, <1>11,
     <1>12, <1>13, <1>14, <1>15, <1>16, <1>17 DEF Next, MatchLoop

\* An accepted attempt: one more session is on its way, one more join counted.
LEMMA AttemptGuests ==
  ASSUME MatchAssumption, TypeOK, JoinsCoverPending, NEW s \in Session, Attempts(s)
  PROVE  /\ JoinsCoverPending'
         /\ OwnersOf(Joining)' = OwnersOf(Joining) \cup {Owner[s]}
<1>1. Joining' = Joining \cup {s}
  BY DEF Attempts, Joining, TypeOK
<1>2. IsFiniteSet(Joining) /\ Cardinality(Joining) \in Nat
  BY OwnersBounded DEF Joining
<1>3. s \notin Joining
  BY DEF Attempts, Joining
<1>4. Cardinality(Joining \cup {s}) = Cardinality(Joining) + 1
  BY <1>2, <1>3, FS_AddElement
<1>5. JoinsCoverPending'
  BY <1>1, <1>2, <1>4 DEF JoinsCoverPending, Attempts, TypeOK
<1>6. OwnersOf(Joining') = OwnersOf(Joining) \cup {Owner[s]}
  BY <1>1 DEF OwnersOf
<1>7. OwnersOf(Joining)' = OwnersOf(Joining')
  BY DEF OwnersOf
<1> QED
  BY <1>5, <1>6, <1>7

\* A batch of joins takes seats that were already promised to its owners, and
\* takes no more off JoinsInProgress than the sessions it brings.
LEMMA JoinGuests ==
  ASSUME MatchAssumption, IInv, TypeOK', NEW batch \in SUBSET Joining, MatchJoin(batch)
  PROVE  JoinsCoverPending' /\ GuestsFit'
<1>1. Joining' = Joining \ batch /\ batch \in SUBSET Session /\ Joining \in SUBSET Session
  BY DEF MatchJoin, Joining, IInv, TypeOK
<1>2. /\ IsFiniteSet(Joining) /\ Cardinality(Joining) \in Nat /\ Cardinality(batch) \in Nat
      /\ OwnersOf(Joining) \subseteq User
      /\ Cardinality(Joining) <= joins
  BY <1>1, OwnersBounded DEF IInv, JoinsCoverPending
<1>3. JoinsCoverPending'
  <2>1. Cardinality(Joining \ batch) = Cardinality(Joining) - Cardinality(Joining \cap batch)
    BY <1>2, FS_Difference
  <2>2. Joining \cap batch = batch
    OBVIOUS
  <2>3. Cardinality(BackFromLeave(batch)) \in Nat
    <3>1. BackFromLeave(batch) \in SUBSET OwnersOf(batch)
      BY DEF BackFromLeave
    <3> QED
      BY <1>1, <3>1, OwnersBounded, FS_Subset, FS_CardinalityType
  <2>4. Cardinality(Joining') <= joins'
    <3>1. joins' = joins - (Cardinality(batch) - Cardinality(BackFromLeave(batch)))
      BY DEF MatchJoin
    <3>2. joins \in Nat
      BY DEF IInv, TypeOK
    <3>3. Cardinality(Joining') = Cardinality(Joining) - Cardinality(batch)
      BY <1>1, <2>1, <2>2
    <3> QED
      BY <1>2, <2>3, <3>1, <3>2, <3>3
  <2> QED
    BY <2>4 DEF JoinsCoverPending
<1>4. GuestsFit'
  <2> DEFINE A == presences \cup OwnersOf(Joining)
             B == presences' \cup OwnersOf(Joining')
  <2>1. NewJoiners(batch) \subseteq OwnersOf(Joining) /\ OwnersOf(Joining') \subseteq OwnersOf(Joining)
    BY <1>1 DEF NewJoiners, OwnersOf
  <2>2. A \in SUBSET User /\ B \in SUBSET A
    BY <1>2, <2>1 DEF IInv, TypeOK, MatchJoin
  <2>3. Cardinality(A) <= MaxPresences
    BY DEF IInv, GuestsFit
  <2> HIDE DEF A, B
  <2>4. Cardinality(B) <= MaxPresences
    BY <2>2, <2>3, FewerFit
  <2>5. OwnersOf(Joining)' = OwnersOf(Joining')
    BY DEF OwnersOf
  <2> QED
    BY <2>4, <2>5 DEF GuestsFit, B
<1> QED
  BY <1>3, <1>4

\* Steps of the machine and lapses of time touch neither sessions nor joins and
\* seat nobody.
LEMMA TickGuests ==
  ASSUME MatchLoop \/ TimePasses, TypeOK
  PROVE  presences' \subseteq presences /\ UNCHANGED <<session, joins>>
<1> USE DEF seats, clock, ApplyLeaves, RemovePresences
<1>1. CASE TimePasses
  BY <1>1 DEF TimePasses
<1>2. CASE MatchingSuccess
  BY <1>2 DEF MatchingSuccess, EnterPreparing
<1>3. CASE IdleProcess \/ PreparingFailed \/ RewardSuccess
  BY <1>3 DEF IdleProcess, PreparingFailed, RewardSuccess, EnterMatching
<1>4. CASE IdleTimeout \/ RunQueuedExit \/ MatchingFailed \/ PreparingSuccess \/ PlayProcess
  BY <1>4 DEF IdleTimeout, RunQueuedExit, MatchingFailed, PreparingSuccess, PlayProcess
<1>5. CASE \E walletsRead \in BOOLEAN : PlayFinished(walletsRead)
  BY <1>5 DEF PlayFinished
<1> QED
  BY <1>1, <1>2, <1>3, <1>4, <1>5 DEF MatchLoop

\* Leaves and losses: nobody is seated, and no session starts to join.
LEMMA DepartureGuests ==
  ASSUME TypeOK,
         \/ \E s \in Session : LoseJoin(s)
         \/ \E batch \in SUBSET Joined : MatchLeave(batch)
  PROVE  presences' \subseteq presences /\ Joining' \subseteq Joining /\ joins' = joins
<1>1. ASSUME NEW s \in Session, LoseJoin(s)
      PROVE  presences' \subseteq presences /\ Joining' \subseteq Joining /\ joins' = joins
  BY <1>1 DEF LoseJoin, seats, Joining, TypeOK
<1>2. ASSUME NEW batch \in SUBSET Joined, MatchLeave(batch)
      PROVE  presences' \subseteq presences /\ Joining' \subseteq Joining /\ joins' = joins
  BY <1>2 DEF MatchLeave, LeavePending, LeaveNow, RemovePresences, Joining, TypeOK
<1> QED
  BY <1>1, <1>2

\* The two invariants about guests, by the five ways the guests can change.
LEMMA StepGuests == IInv /\ [Next]_vars => JoinsCoverPending' /\ GuestsFit'
<1> SUFFICES ASSUME IInv, [Next]_vars
             PROVE  JoinsCoverPending' /\ GuestsFit'
  OBVIOUS
<1>0. MatchAssumption /\ TypeOK /\ JoinsCoverPending /\ GuestsFit /\ TypeOK'
  BY MatchAssumption, StepTypes DEF IInv
<1>1. ASSUME NEW s \in Session, RejoinAttempt(s)
      PROVE  JoinsCoverPending' /\ GuestsFit'
  <2>1. JoinsCoverPending' /\ OwnersOf(Joining)' = OwnersOf(Joining) \cup {Owner[s]}
    BY <1>0, <1>1, AttemptGuests DEF RejoinAttempt
  <2>2. presences' = presences /\ Owner[s] \in presences
    BY <1>1 DEF RejoinAttempt, Attempts
  <2>3. presences' \cup (OwnersOf(Joining) \cup {Owner[s]}) = presences \cup OwnersOf(Joining)
    BY <2>2
  <2> QED
    BY <1>0, <2>1, <2>3 DEF GuestsFit
<1>2. ASSUME NEW s \in Session, NewAttempt(s)
      PROVE  JoinsCoverPending' /\ GuestsFit'
  <2>1. JoinsCoverPending' /\ OwnersOf(Joining)' = OwnersOf(Joining) \cup {Owner[s]}
    BY <1>0, <1>2, AttemptGuests DEF NewAttempt
  <2>2. presences' = presences /\ Cardinality(presences) + joins < MaxPresences
    BY <1>2 DEF NewAttempt, HasRoom, Attempts
  <2>3. Cardinality(presences \cup OwnersOf(Joining) \cup {Owner[s]}) <= MaxPresences
    BY <1>0, <2>2, RoomForOneMore DEF MatchAssumption
  <2>4. presences' \cup (OwnersOf(Joining) \cup {Owner[s]})
          = presences \cup OwnersOf(Joining) \cup {Owner[s]}
    BY <2>2
  <2> QED
    BY <2>1, <2>3, <2>4 DEF GuestsFit
<1>3. ASSUME NEW batch \in SUBSET Joining, MatchJoin(batch)
      PROVE  JoinsCoverPending' /\ GuestsFit'
  BY <1>0, <1>3, JoinGuests
<1>4. CASE \/ \E s \in Session : LoseJoin(s)
           \/ \E batch \in SUBSET Joined : MatchLeave(batch)
  BY <1>0, <1>4, DepartureGuests, NobodyNew
<1>5. CASE MatchLoop \/ TimePasses
  <2>1. Joining' = Joining
    BY <1>0, <1>5, TickGuests DEF Joining
  <2> QED
    BY <1>0, <1>5, <2>1, TickGuests, NobodyNew
<1>6. CASE UNCHANGED vars
  BY <1>0, <1>6, NobodyNew DEF vars, Joining
<1> QED
  BY <1>1, <1>2, <1>3, <1>4, <1>5, <1>6 DEF Next

-----------------------------------------------------------------------------
(***************************************************************************)
(* The theorems.                                                           *)
(***************************************************************************)

\* An empty table satisfies the invariant.
LEMMA InitIInv == Init => IInv
<1> SUFFICES ASSUME Init PROVE IInv
  OBVIOUS
<1> USE MatchAssumption DEF Init
<1>1. TypeOK
  BY DEF TypeOK, Phase
<1>2. Joining = {} /\ OwnersOf(Joining) = {}
  BY DEF Joining, OwnersOf
<1>3. JoinsCoverPending /\ GuestsFit
  <2>1. presences \cup OwnersOf(Joining) = {}
    BY <1>2
  <2>2. Cardinality({}) = 0
    BY FS_EmptySet
  <2>3. JoinsCoverPending
    BY <1>2, <2>2 DEF JoinsCoverPending
  <2>4. 0 <= MaxPresences
    BY DEF MatchAssumption
  <2>5. GuestsFit
    BY <2>1, <2>2, <2>4 DEF GuestsFit
  <2> QED
    BY <2>3, <2>5
<1>4. QueuedExitIsHandled /\ PendingOnlyInGame /\ PlayersStaySeated /\ CountersBounded
  BY DEF QueuedExitIsHandled, PendingOnlyInGame, PlayersStaySeated, CountersBounded, InGame
<1> QED
  BY <1>1, <1>3, <1>4 DEF IInv

\* No step of the match breaks the invariant.
LEMMA StepIInv == IInv /\ [Next]_vars => IInv'
BY StepTypes, StepGame, StepGuests DEF IInv

\* The invariant holds in every reachable state of every match: the handlers
\* of api/match_handler_presences.go and the machine's ticks all preserve it.
THEOREM Invariance == Spec => []IInv
BY InitIInv, StepIInv, PTL DEF Spec

\* Every variable of the match keeps its type; JoinsInProgress in particular
\* never becomes negative, although rejoining leavers skip its increment.
THEOREM TypeCorrect == Spec => []TypeOK
<1>1. IInv => TypeOK
  BY DEF IInv
<1> QED
  BY Invariance, <1>1, PTL

\* However many users and sessions there are, everyone seated or accepted has
\* a seat: MatchJoinAttempt's check of size plus joins in progress suffices.
THEOREM Capacity == Spec => []GuestsFit
<1>1. IInv => GuestsFit
  BY DEF IInv
<1> QED
  BY Invariance, <1>1, PTL

\* The players of a game stay seated until its reward is over, and only they
\* can be pending leavers: MatchLeave defers exactly their removal.
THEOREM Players == Spec => []PlayersStaySeated
<1>1. IInv => PlayersStaySeated
  BY DEF IInv
<1> QED
  BY Invariance, <1>1, PTL

\* However a game ends, its leavers are gone before the next countdown starts.
THEOREM Pending == Spec => []PendingOnlyInGame
<1>1. IInv => PendingOnlyInGame
  BY DEF IInv
<1> QED
  BY Invariance, <1>1, PTL

\* JoinsInProgress errs to the safe side only: it covers every session that is
\* on its way, although rejoins take it up and never down.
THEOREM JoinsCovered == Spec => []JoinsCoverPending
<1>1. IInv => JoinsCoverPending
  BY DEF IInv
<1> QED
  BY Invariance, <1>1, PTL

\* Nobody's counter of games passes the limit: the kick when a game is
\* prepared comes in time, whatever users do.
THEOREM Counters == Spec => []CountersBounded
<1>1. IInv => CountersBounded
  BY DEF IInv
<1> QED
  BY Invariance, <1>1, PTL

\* The TriggerExit that the idle timeout leaves in the queue is always run in
\* the state that permits it.
THEOREM QueuedExit == Spec => []QueuedExitIsHandled
<1>1. IInv => QueuedExitIsHandled
  BY DEF IInv
<1> QED
  BY Invariance, <1>1, PTL

\* Nobody loses a seat without a cause, in any step of any match.
THEOREM SeatLoss == Spec => SeatLostForCause
<1> DEFINE Cause == \A u \in presences \ presences' :
                      \/ u \in OwnersOf(Joined \ Joined')
                      \/ u \in leaving
                      \/ noInteract[u] >= KickAfter
<1>1. TypeOK /\ [Next]_vars => Cause
  <2> SUFFICES ASSUME TypeOK, [Next]_vars
               PROVE  Cause
    OBVIOUS
  <2> USE DEF seats, clock
  <2>1. ASSUME NEW s \in Session, RejoinAttempt(s) \/ NewAttempt(s) \/ LoseJoin(s)
        PROVE  Cause
    BY <2>1 DEF RejoinAttempt, NewAttempt, LoseJoin, Attempts
  <2>2. ASSUME NEW batch \in SUBSET Joining, MatchJoin(batch)
        PROVE  Cause
    BY <2>2 DEF MatchJoin
  <2>3. ASSUME NEW batch \in SUBSET Joined, MatchLeave(batch)
        PROVE  Cause
    <3>1. Joined \ Joined' = batch
      BY <2>3 DEF MatchLeave, Joined
    <3>2. presences \ presences' \subseteq OwnersOf(batch)
      BY <2>3 DEF MatchLeave, LeavePending, LeaveNow, RemovePresences
    <3> QED
      BY <3>1, <3>2
  <2>4. CASE MatchingSuccess
    BY <2>4 DEF MatchingSuccess, EnterPreparing, ApplyLeaves, RemovePresences,
                GetPresenceNotInteract
  <2>5. CASE IdleProcess \/ PreparingFailed \/ RewardSuccess
    BY <2>5 DEF IdleProcess, PreparingFailed, RewardSuccess, EnterMatching,
                ApplyLeaves, RemovePresences
  <2>6. CASE IdleTimeout \/ RunQueuedExit \/ MatchingFailed \/ PreparingSuccess \/ PlayProcess
    BY <2>6 DEF IdleTimeout, RunQueuedExit, MatchingFailed, PreparingSuccess, PlayProcess
  <2>7. CASE (\E walletsRead \in BOOLEAN : PlayFinished(walletsRead)) \/ TimePasses
    BY <2>7 DEF PlayFinished, TimePasses
  <2>8. CASE UNCHANGED vars
    BY <2>8 DEF vars
  <2> QED
    BY <2>1, <2>2, <2>3, <2>4, <2>5, <2>6, <2>7, <2>8 DEF Next, MatchLoop
<1>2. TypeOK /\ [Next]_vars => [Cause]_vars
  BY <1>1
<1> QED
  BY TypeCorrect, <1>2, PTL DEF Spec, SeatLostForCause

-----------------------------------------------------------------------------
(***************************************************************************)
(* What holds when users connect from one session at a time, or when the   *)
(* host loses no join: the conditions under which the code leaks no        *)
(* reservation and keeps no ghosts.                                        *)
(***************************************************************************)
OneSession == \A s, t \in Session : Owner[s] = Owner[t] => s = t

\* A step of the machine or of time empties LeavePresences only together with
\* the seats of those on it.
LEMMA TickLeavers ==
  ASSUME MatchLoop \/ TimePasses
  PROVE  \/ leaving' = leaving
         \/ leaving' = {} /\ presences' \subseteq presences \ leaving
<1> USE DEF seats, clock, ApplyLeaves, RemovePresences
<1>1. CASE TimePasses
  BY <1>1 DEF TimePasses
<1>2. CASE MatchingSuccess
  BY <1>2 DEF MatchingSuccess, EnterPreparing
<1>3. CASE IdleProcess \/ PreparingFailed \/ RewardSuccess
  BY <1>3 DEF IdleProcess, PreparingFailed, RewardSuccess, EnterMatching
<1>4. CASE IdleTimeout \/ RunQueuedExit \/ MatchingFailed \/ PreparingSuccess \/ PlayProcess
  BY <1>4 DEF IdleTimeout, RunQueuedExit, MatchingFailed, PreparingSuccess, PlayProcess
<1>5. CASE \E walletsRead \in BOOLEAN : PlayFinished(walletsRead)
  BY <1>5 DEF PlayFinished
<1> QED
  BY <1>1, <1>2, <1>3, <1>4, <1>5 DEF MatchLoop

\* A rejoin cancels the pending leave, and who leaves has no other session.
LEMMA StepPresent ==
  ASSUME OneSession, IInv, PresentAreNotLeaving, [Next]_vars
  PROVE  PresentAreNotLeaving'
<1>0. TypeOK /\ leaving \subseteq presences
  BY DEF IInv, PendingOnlyInGame, PlayersStaySeated
<1> USE DEF PresentAreNotLeaving, OwnersOf, Joined, Joining, TypeOK
<1>1. ASSUME NEW s \in Session, RejoinAttempt(s)
      PROVE  PresentAreNotLeaving'
  BY <1>0, <1>1 DEF RejoinAttempt, RemoveLeavePresence, Attempts
<1>2. ASSUME NEW s \in Session, NewAttempt(s)
      PROVE  PresentAreNotLeaving'
  BY <1>0, <1>2 DEF NewAttempt, Attempts
<1>3. ASSUME NEW s \in Session, LoseJoin(s)
      PROVE  PresentAreNotLeaving'
  BY <1>0, <1>3 DEF LoseJoin, seats
<1>4. ASSUME NEW batch \in SUBSET Joining, MatchJoin(batch)
      PROVE  PresentAreNotLeaving'
  BY <1>0, <1>4 DEF MatchJoin
<1>5. ASSUME NEW batch \in SUBSET Joined, MatchLeave(batch)
      PROVE  PresentAreNotLeaving'
  <2>1. leaving' \subseteq leaving \cup OwnersOf(batch)
    BY <1>5 DEF MatchLeave, LeavePending, LeaveNow
  <2>2. \A s \in (Joined \cup Joining)' : s \in Joined \cup Joining /\ s \notin batch
    BY <1>0, <1>5 DEF MatchLeave
  <2> QED
    BY <2>1, <2>2 DEF OneSession
<1>6. CASE MatchLoop \/ TimePasses
  BY <1>0, <1>6, TickGuests, TickLeavers
<1>7. CASE UNCHANGED vars
  BY <1>7 DEF vars
<1> QED
  BY <1>1, <1>2, <1>3, <1>4, <1>5, <1>6, <1>7 DEF Next

\* Every seat that outlives the connection of its user is on LeavePresences.
LEMMA StepOwned ==
  ASSUME ~ JoinsMayBeLost, TypeOK, SeatsAreOwned, [Next]_vars
  PROVE  SeatsAreOwned'
<1> USE DEF SeatsAreOwned, OwnersOf, Joined, Joining, TypeOK
<1>1. ASSUME NEW s \in Session, RejoinAttempt(s) \/ NewAttempt(s)
      PROVE  SeatsAreOwned'
  BY <1>1 DEF RejoinAttempt, NewAttempt, RemoveLeavePresence, Attempts
<1>2. ASSUME NEW s \in Session, LoseJoin(s)
      PROVE  SeatsAreOwned'
  BY <1>2 DEF LoseJoin
<1>3. ASSUME NEW batch \in SUBSET Joining, MatchJoin(batch)
      PROVE  SeatsAreOwned'
  BY <1>3 DEF MatchJoin, NewJoiners
<1>4. ASSUME NEW batch \in SUBSET Joined, MatchLeave(batch)
      PROVE  SeatsAreOwned'
  <2>1. /\ leaving \subseteq leaving'
        /\ presences' \subseteq presences
        /\ OwnersOf(batch) \cap presences' \subseteq leaving'
    BY <1>4 DEF MatchLeave, LeavePending, LeaveNow, RemovePresences
  <2>2. \A s \in Joined \cup Joining : s \in batch \/ s \in (Joined \cup Joining)'
    BY <1>4 DEF MatchLeave
  <2> QED
    BY <2>1, <2>2
<1>5. CASE MatchLoop \/ TimePasses
  BY <1>5, TickGuests, TickLeavers
<1>6. CASE UNCHANGED vars
  BY <1>6 DEF vars
<1> QED
  BY <1>1, <1>2, <1>3, <1>4, <1>5, <1>6 DEF Next

\* Each accepted attempt is counted once and each join takes one count back.
LEMMA StepStranded ==
  ASSUME OneSession, ~ JoinsMayBeLost, IInv, PresentAreNotLeaving, NoStrandedJoins, [Next]_vars
  PROVE  NoStrandedJoins'
<1>0. TypeOK /\ MatchAssumption /\ IsFiniteSet(Joining) /\ Cardinality(Joining) \in Nat
  BY MatchAssumption, OwnersBounded DEF IInv, Joining
<1>1. ASSUME NEW s \in Session, RejoinAttempt(s) \/ NewAttempt(s)
      PROVE  NoStrandedJoins'
  <2>1. Joining' = Joining \cup {s} /\ s \notin Joining /\ joins' = joins + 1
    BY <1>0, <1>1 DEF RejoinAttempt, NewAttempt, Attempts, Joining, TypeOK
  <2> QED
    BY <1>0, <2>1, FS_AddElement DEF NoStrandedJoins
<1>2. ASSUME NEW s \in Session, LoseJoin(s)
      PROVE  FALSE
  BY <1>2 DEF LoseJoin
<1>3. ASSUME NEW batch \in SUBSET Joining, MatchJoin(batch)
      PROVE  NoStrandedJoins'
  <2>1. Joining' = Joining \ batch /\ Joining \cap batch = batch
    BY <1>0, <1>3 DEF MatchJoin, Joining, TypeOK
  <2>2. BackFromLeave(batch) = {}
    BY DEF BackFromLeave, PresentAreNotLeaving, OwnersOf
  <2>3. Cardinality(BackFromLeave(batch)) = 0
    BY <2>2, FS_EmptySet
  <2>4. Cardinality(Joining \ batch) = Cardinality(Joining) - Cardinality(batch)
    BY <1>0, <2>1, FS_Difference
  <2>5. Cardinality(batch) \in Nat
    BY <1>0, FS_Subset, FS_CardinalityType
  <2>6. joins' = joins - (Cardinality(batch) - Cardinality(BackFromLeave(batch)))
    BY <1>3 DEF MatchJoin
  <2>7. joins' = joins - Cardinality(batch)
    BY <2>3, <2>5, <2>6
  <2> QED
    BY <2>1, <2>4, <2>7 DEF NoStrandedJoins
<1>4. ASSUME NEW batch \in SUBSET Joined, MatchLeave(batch)
      PROVE  NoStrandedJoins'
  <2>1. Joining' = Joining /\ joins' = joins
    BY <1>0, <1>4 DEF MatchLeave, Joining, Joined, TypeOK
  <2> QED
    BY <2>1 DEF NoStrandedJoins
<1>5. CASE MatchLoop \/ TimePasses
  <2>1. Joining' = Joining /\ joins' = joins
    BY <1>0, <1>5, TickGuests DEF Joining
  <2> QED
    BY <2>1 DEF NoStrandedJoins
<1>6. CASE UNCHANGED vars
  BY <1>6 DEF vars, NoStrandedJoins, Joining
<1> QED
  BY <1>1, <1>2, <1>3, <1>4, <1>5, <1>6 DEF Next

\* With one session per user, nobody who is there or on the way back is on
\* LeavePresences.
THEOREM Present == ASSUME OneSession PROVE Spec => []PresentAreNotLeaving
<1>1. Init => PresentAreNotLeaving
  BY DEF Init, PresentAreNotLeaving
<1>2. IInv /\ PresentAreNotLeaving /\ [Next]_vars => PresentAreNotLeaving'
  BY StepPresent
<1> QED
  BY Invariance, <1>1, <1>2, PTL DEF Spec

\* With reliable joins there are no ghosts at the table.
THEOREM SeatsOwned == ASSUME ~ JoinsMayBeLost PROVE Spec => []SeatsAreOwned
<1>1. Init => SeatsAreOwned
  BY DEF Init, SeatsAreOwned
<1>2. TypeOK /\ SeatsAreOwned /\ [Next]_vars => SeatsAreOwned'
  BY StepOwned
<1> QED
  BY TypeCorrect, <1>1, <1>2, PTL DEF Spec

\* With reliable joins and one session per user, JoinsInProgress is exactly the
\* number of sessions on their way.
THEOREM NothingStranded ==
  ASSUME OneSession, ~ JoinsMayBeLost
  PROVE  Spec => []NoStrandedJoins
<1>1. Init => NoStrandedJoins
  <2>1. Init => Joining = {} /\ joins = 0
    BY DEF Init, Joining
  <2> QED
    BY <2>1, FS_EmptySet DEF NoStrandedJoins
<1>2. IInv /\ PresentAreNotLeaving /\ NoStrandedJoins /\ [Next]_vars => NoStrandedJoins'
  BY StepStranded
<1> QED
  BY Invariance, Present, <1>1, <1>2, PTL DEF Spec

-----------------------------------------------------------------------------
(***************************************************************************)
(* The match implements SeatAdmission: seated are the keys of Presences,   *)
(* invited the owners of the sessions whose attempt was accepted.          *)
(***************************************************************************)

\* Every handler maps to an invitation, to sitting down or standing up, or to
\* no change of the abstract state.
LEMMA StepAdmission ==
  IInv /\ [Next]_vars => [Admission!Next]_<<presences, OwnersOf(Joining)>>
<1> SUFFICES ASSUME IInv, [Next]_vars
             PROVE  \/ Admission!Next
                    \/ UNCHANGED <<presences, OwnersOf(Joining)>>
  BY Zenon
<1>0. MatchAssumption /\ TypeOK /\ JoinsCoverPending /\ GuestsFit
  BY MatchAssumption DEF IInv
<1>a. OwnersOf(Joining)' = OwnersOf(Joining')
  BY DEF OwnersOf
<1>1. ASSUME NEW s \in Session, RejoinAttempt(s) \/ NewAttempt(s)
      PROVE  Admission!Next
  <2>1. OwnersOf(Joining)' = OwnersOf(Joining) \cup {Owner[s]}
    BY <1>0, <1>1, AttemptGuests DEF RejoinAttempt, NewAttempt
  <2>2. presences' = presences /\ Owner[s] \in User
    BY <1>0, <1>1 DEF RejoinAttempt, NewAttempt, Attempts, MatchAssumption
  <2>3. Cardinality(presences \cup OwnersOf(Joining) \cup {Owner[s]}) <= MaxPresences
    <3>1. CASE RejoinAttempt(s)
      <4>1. presences \cup OwnersOf(Joining) \cup {Owner[s]} = presences \cup OwnersOf(Joining)
        BY <3>1 DEF RejoinAttempt
      <4> QED
        BY <1>0, <4>1 DEF GuestsFit
    <3>2. CASE NewAttempt(s)
      BY <1>0, <2>2, <3>2, RoomForOneMore DEF NewAttempt, HasRoom
    <3> QED
      BY <1>1, <3>1, <3>2
  <2>4. Admission!Cardinality(presences \cup OwnersOf(Joining) \cup {Owner[s]}) <= MaxPresences
    BY <2>3 DEF Admission!Cardinality, Cardinality
  <2>5. Admission!Invite(Owner[s])
    BY <2>1, <2>2, <2>4 DEF Admission!Invite
  <2> QED
    BY <2>2, <2>5 DEF Admission!Next
<1>2. ASSUME NEW batch \in SUBSET Joining, MatchJoin(batch)
      PROVE  Admission!Next
  <2>1. Joining' = Joining \ batch
    BY <1>0, <1>2 DEF MatchJoin, Joining, TypeOK
  <2>2. OwnersOf(Joining)' \subseteq OwnersOf(Joining)
    BY <1>a, <2>1 DEF OwnersOf
  <2>3. NewJoiners(batch) \subseteq OwnersOf(Joining)
    BY DEF NewJoiners, OwnersOf
  <2>4. Admission!SitDown
    BY <1>2, <2>2, <2>3 DEF MatchJoin, Admission!SitDown
  <2> QED
    BY <2>4 DEF Admission!Next
<1>3. ASSUME NEW s \in Session, LoseJoin(s)
      PROVE  Admission!Next
  <2>1. presences' = presences /\ Joining' \subseteq Joining
    BY <1>0, <1>3 DEF LoseJoin, seats, Joining, TypeOK
  <2>2. Admission!SitDown
    BY <1>a, <2>1 DEF Admission!SitDown, OwnersOf
  <2> QED
    BY <2>2 DEF Admission!Next
<1>4. ASSUME NEW batch \in SUBSET Joined, MatchLeave(batch)
      PROVE  Admission!Next
  <2>1. Joining' = Joining
    BY <1>0, <1>4 DEF MatchLeave, Joining, Joined, TypeOK
  <2>2. presences' \subseteq presences
    BY <1>0, <1>4, DepartureGuests
  <2> QED
    BY <1>a, <2>1, <2>2 DEF Admission!StandUp, Admission!Next
<1>5. CASE MatchLoop \/ TimePasses
  <2>1. presences' \subseteq presences /\ Joining' = Joining
    BY <1>0, <1>5, TickGuests DEF Joining
  <2> QED
    BY <1>a, <2>1 DEF Admission!StandUp, Admission!Next
<1>6. CASE UNCHANGED vars
  <2>1. presences' = presences /\ Joining' = Joining
    BY <1>6 DEF vars, Joining
  <2> QED
    BY <1>a, <2>1
<1> QED
  BY <1>1, <1>2, <1>3, <1>4, <1>5, <1>6 DEF Next

\* The join and leave handlers keep the promise of SeatAdmission: seats are
\* only taken by invited users, who are only invited while a seat is free.
THEOREM ImplementsAdmission == Spec => AdmissionSpec
<1>1. Init => Admission!Init
  BY DEF Init, Admission!Init, Joining, OwnersOf
<1> QED
  BY <1>1, Invariance, StepAdmission, PTL DEF Spec, AdmissionSpec, Admission!Spec

-----------------------------------------------------------------------------
(***************************************************************************)
(* Why tables close, games begin and leavers go: the part of the liveness  *)
(* properties that is not about fairness.                                  *)
(***************************************************************************)

\* Ticks that a table without players is away from its end.
TicksToClose ==
  CASE phase = "Play" /\ ~ finished -> 6
    [] phase = "Play" /\ finished   -> 5
    [] phase = "Reward"             -> 4
    [] phase = "Preparing"          -> 4
    [] phase = "Matching"           -> 3
    [] phase = "Idle" /\ ~ exitQueued -> 2
    [] phase = "Idle" /\ exitQueued -> 1
    [] OTHER                       -> 0

\* Nothing that happens takes an empty table away from its end, and each tick
\* after the countdown brings it nearer.
EmptyTableSinks ==
  [][presences = {} /\ presences' = {} =>
       /\ TicksToClose' <= TicksToClose
       /\ MatchLoop /\ expired => TicksToClose' < TicksToClose]_vars

\* Ticks that a table with players is away from its next game.
TicksToPlay ==
  CASE phase = "Idle"      -> 3
    [] phase = "Matching"  -> 2
    [] phase = "Preparing" -> 1
    [] OTHER               -> 0

\* Nothing takes an occupied table that waits for a game away from it, unless the
\* queued exit closes it, and each tick after the countdown brings it nearer.
OccupiedTableAdvances ==
  [][presences # {} /\ presences' # {} /\ phase \in {"Idle", "Matching", "Preparing"} =>
       /\ TicksToPlay' <= TicksToPlay
       /\ MatchLoop /\ expired => TicksToPlay' < TicksToPlay]_vars

\* A pending leaver outlasts no change of state but the one from the game to its
\* reward.
LeaversLeaveInTime ==
  [][\A u \in leaving \cap leaving' :
       phase' = phase \/ (phase = "Play" /\ phase' = "Reward")]_vars

\* The counter of games without interaction is set back by a join and by nothing
\* else while a user is seated.
OnlyJoinsReset ==
  [][\A u \in presences \cap presences' :
       noInteract'[u] < noInteract[u] => u \in OwnersOf(Joined' \ Joined)]_vars

\* An empty table is too small for a game, and with one seat needed any other is not.
LEMMA EmptyOrReady ==
  ASSUME MatchAssumption, TypeOK
  PROVE  /\ presences = {} => GetPresenceSize = 0 /\ ~ IsReadyToPlay
         /\ presences # {} => GetPresenceSize > 0
         /\ presences # {} /\ MinPresences = 1 => IsReadyToPlay
<1>1. IsFiniteSet(presences) /\ Cardinality(presences) \in Nat
  BY FS_Subset, FS_CardinalityType DEF MatchAssumption, TypeOK
<1>2. Cardinality(presences) = 0 <=> presences = {}
  BY <1>1, FS_EmptySet
<1>3. MinPresences \in Nat \ {0}
  BY DEF MatchAssumption
<1> QED
  BY <1>1, <1>2, <1>3 DEF GetPresenceSize, IsReadyToPlay

\* The handlers of sessions and the lapse of time leave the machine alone.
LEMMA MachineOnly ==
  ASSUME [Next]_vars, ~ MatchLoop
  PROVE  UNCHANGED <<phase, exitQueued, finished>>
<1> USE DEF seats, clock
<1>1. ASSUME NEW s \in Session, RejoinAttempt(s) \/ NewAttempt(s) \/ LoseJoin(s)
      PROVE  UNCHANGED <<phase, exitQueued, finished>>
  BY <1>1 DEF RejoinAttempt, NewAttempt, LoseJoin, Attempts
<1>2. ASSUME NEW batch \in SUBSET Joining, MatchJoin(batch)
      PROVE  UNCHANGED <<phase, exitQueued, finished>>
  BY <1>2 DEF MatchJoin
<1>3. ASSUME NEW batch \in SUBSET Joined, MatchLeave(batch)
      PROVE  UNCHANGED <<phase, exitQueued, finished>>
  BY <1>3 DEF MatchLeave
<1>4. CASE TimePasses \/ UNCHANGED vars
  BY <1>4 DEF TimePasses, vars
<1> QED
  BY <1>1, <1>2, <1>3, <1>4 DEF Next

\* Where a tick with nobody at the table leads.
LEMMA EmptyTick ==
  ASSUME IInv, MatchLoop, presences = {}
  PROVE  \/ phase = "Idle" /\ ~ exitQueued /\ phase' = "Idle" /\ exitQueued'
         \/ phase = "Idle" /\ exitQueued /\ phase' = "Finish" /\ ~ exitQueued'
         \/ phase = "Matching" /\ phase' = "Idle" /\ ~ exitQueued'
         \/ phase = "Preparing" /\ phase' = "Matching"
         \/ phase = "Play" /\ ~ finished /\ phase' = "Play" /\ finished'
         \/ phase = "Play" /\ finished /\ phase' = "Reward"
         \/ phase = "Reward" /\ phase' = "Matching"
<1>0. TypeOK /\ GetPresenceSize = 0 /\ ~ IsReadyToPlay
  BY MatchAssumption, EmptyOrReady DEF IInv
<1> USE DEF Tick, clock, EnterMatching
<1>1. CASE IdleTimeout \/ RunQueuedExit
  BY <1>1 DEF IdleTimeout, RunQueuedExit
<1>2. CASE MatchingFailed \/ PreparingFailed \/ RewardSuccess
  BY <1>2 DEF MatchingFailed, PreparingFailed, RewardSuccess
<1>3. CASE PlayProcess \/ \E walletsRead \in BOOLEAN : PlayFinished(walletsRead)
  BY <1>3 DEF PlayProcess, PlayFinished
<1>4. CASE IdleProcess \/ MatchingSuccess \/ PreparingSuccess
  BY <1>0, <1>4 DEF IdleProcess, MatchingSuccess, PreparingSuccess
<1> QED
  BY <1>1, <1>2, <1>3, <1>4 DEF MatchLoop

\* A table that is left alone closes: what remains of EmptyTableCloses is that
\* ticks and time go on.
THEOREM EmptyTablesSink == Spec => EmptyTableSinks
<1> DEFINE A == presences = {} /\ presences' = {} =>
                  /\ TicksToClose' <= TicksToClose
                  /\ MatchLoop /\ expired => TicksToClose' < TicksToClose
<1>1. IInv /\ [Next]_vars => A
  <2> SUFFICES ASSUME IInv, [Next]_vars, presences = {} PROVE A
    OBVIOUS
  <2>1. TicksToClose \in Nat
    BY DEF IInv, TypeOK, Phase, TicksToClose
  <2>2. CASE MatchLoop
    BY <2>2, EmptyTick DEF TicksToClose
  <2>3. CASE ~ MatchLoop
    <3>1. TicksToClose' = TicksToClose
      BY <2>3, MachineOnly DEF TicksToClose
    <3> QED
      BY <2>1, <2>3, <3>1
  <2> QED
    BY <2>2, <2>3
<1>2. IInv /\ [Next]_vars => [A]_vars
  BY <1>1
<1>3. Spec => [][A]_vars
  BY Invariance, <1>2, PTL DEF Spec
<1> QED
  BY <1>3 DEF EmptyTableSinks

\* A table where one player is enough gets to its game, whoever joins and leaves,
\* while somebody stays: what remains of OccupiedTablePlays is fairness.
THEOREM OccupiedTablesAdvance ==
  ASSUME MinPresences = 1 PROVE Spec => OccupiedTableAdvances
<1> DEFINE A == presences # {} /\ presences' # {} /\ phase \in {"Idle", "Matching", "Preparing"} =>
                  /\ TicksToPlay' <= TicksToPlay
                  /\ MatchLoop /\ expired => TicksToPlay' < TicksToPlay
<1>1. IInv /\ [Next]_vars => A
  <2> SUFFICES ASSUME IInv, [Next]_vars, presences # {},
                      phase \in {"Idle", "Matching", "Preparing"}
               PROVE  A
    OBVIOUS
  <2>0. GetPresenceSize > 0 /\ GetPresenceSize \in Nat /\ IsReadyToPlay
    BY MatchAssumption, EmptyOrReady, FS_Subset, FS_CardinalityType
       DEF IInv, TypeOK, MatchAssumption, GetPresenceSize
  <2>1. TicksToPlay \in Nat
    BY DEF TicksToPlay
  <2>2. CASE MatchLoop
    <3> USE DEF TicksToPlay
    <3>1. CASE IdleProcess
      BY <3>1 DEF IdleProcess, EnterMatching
    <3>2. CASE MatchingSuccess \/ PreparingSuccess \/ RunQueuedExit
      BY <3>2 DEF MatchingSuccess, EnterPreparing, PreparingSuccess, RunQueuedExit
    <3>3. CASE IdleTimeout \/ MatchingFailed \/ PreparingFailed
      BY <2>0, <3>3 DEF IdleTimeout, MatchingFailed, PreparingFailed
    <3>4. CASE \/ PlayProcess \/ RewardSuccess
               \/ \E walletsRead \in BOOLEAN : PlayFinished(walletsRead)
      BY <3>4 DEF PlayProcess, RewardSuccess, PlayFinished
    <3> QED
      BY <2>2, <3>1, <3>2, <3>3, <3>4 DEF MatchLoop
  <2>3. CASE ~ MatchLoop
    <3>1. TicksToPlay' = TicksToPlay
      BY <2>3, MachineOnly DEF TicksToPlay
    <3> QED
      BY <2>1, <2>3, <3>1
  <2> QED
    BY <2>2, <2>3
<1>2. IInv /\ [Next]_vars => [A]_vars
  BY <1>1
<1>3. Spec => [][A]_vars
  BY Invariance, <1>2, PTL DEF Spec
<1> QED
  BY <1>3 DEF OccupiedTableAdvances

\* Whoever leaves during a game is gone, or back, when its reward is over: what
\* remains of LeaversAreRemoved is that the game and its reward end.
THEOREM LeaversInTime == Spec => LeaversLeaveInTime
<1> DEFINE A == \A u \in leaving \cap leaving' :
                  phase' = phase \/ (phase = "Play" /\ phase' = "Reward")
<1>1. IInv /\ [Next]_vars => A
  <2> SUFFICES ASSUME IInv, [Next]_vars, leaving # {}, leaving' # {}
               PROVE  phase' = phase \/ (phase = "Play" /\ phase' = "Reward")
    OBVIOUS
  <2>1. InGame
    BY DEF IInv, PendingOnlyInGame
  <2>2. CASE MatchLoop
    <3> USE DEF InGame
    <3>1. CASE RewardSuccess
      BY <3>1 DEF RewardSuccess, EnterMatching, ApplyLeaves
    <3>2. CASE PlayProcess \/ \E walletsRead \in BOOLEAN : PlayFinished(walletsRead)
      BY <3>2 DEF PlayProcess, PlayFinished
    <3>3. CASE \/ IdleProcess \/ IdleTimeout \/ RunQueuedExit \/ MatchingSuccess
               \/ MatchingFailed \/ PreparingSuccess \/ PreparingFailed
      BY <2>1, <3>3 DEF IdleProcess, IdleTimeout, RunQueuedExit, MatchingSuccess,
         MatchingFailed, PreparingSuccess, PreparingFailed
    <3> QED
      BY <2>2, <3>1, <3>2, <3>3 DEF MatchLoop
  <2>3. CASE ~ MatchLoop
    BY <2>3, MachineOnly
  <2> QED
    BY <2>2, <2>3
<1>2. IInv /\ [Next]_vars => [A]_vars
  BY <1>1
<1>3. Spec => [][A]_vars
  BY Invariance, <1>2, PTL DEF Spec
<1> QED
  BY <1>3 DEF LeaversLeaveInTime

\* A step counts the game that begins for everybody who stays seated, and changes
\* the counter in no other way but by a join.
LEMMA CounterStep ==
  ASSUME IInv, [Next]_vars, NEW u \in presences \cap presences', u \notin OwnersOf(Joined' \ Joined)
  PROVE  noInteract'[u] = IF phase = "Preparing" /\ phase' = "Play" THEN noInteract[u] + 1
                          ELSE noInteract[u]
<1> DEFINE Same == noInteract'[u] = noInteract[u] /\ ~ (phase = "Preparing" /\ phase' = "Play")
<1>0. /\ DOMAIN noInteract = presences
      /\ \A D \in SUBSET presences : \A v \in D : Restrict(noInteract, D)[v] = noInteract[v]
  BY DEF IInv, TypeOK, Restrict
<1> USE DEF seats, clock, ApplyLeaves, RemovePresences
<1>1. ASSUME NEW s \in Session, RejoinAttempt(s) \/ NewAttempt(s) \/ LoseJoin(s)
      PROVE  Same
  BY <1>1 DEF RejoinAttempt, NewAttempt, LoseJoin, Attempts
<1>2. ASSUME NEW batch \in SUBSET Joining, MatchJoin(batch)
      PROVE  Same
  <2>1. Joined' \ Joined = batch
    BY <1>2 DEF MatchJoin, Joined, Joining, IInv, TypeOK
  <2>2. u \notin NewJoiners(batch)
    BY <2>1 DEF NewJoiners, OwnersOf
  <2> QED
    BY <1>2, <2>2 DEF MatchJoin
<1>3. ASSUME NEW batch \in SUBSET Joined, MatchLeave(batch)
      PROVE  Same
  BY <1>0, <1>3 DEF MatchLeave, LeavePending, LeaveNow
<1>4. CASE MatchingSuccess
  BY <1>0, <1>4 DEF MatchingSuccess, EnterPreparing
<1>5. CASE IdleProcess \/ PreparingFailed \/ RewardSuccess
  BY <1>0, <1>5 DEF IdleProcess, PreparingFailed, RewardSuccess, EnterMatching
<1>6. CASE IdleTimeout \/ RunQueuedExit \/ MatchingFailed \/ PlayProcess
  BY <1>6 DEF IdleTimeout, RunQueuedExit, MatchingFailed, PlayProcess
<1>7. CASE PreparingSuccess
  BY <1>7 DEF PreparingSuccess
<1>8. CASE (\E walletsRead \in BOOLEAN : PlayFinished(walletsRead)) \/ TimePasses
  BY <1>8 DEF PlayFinished, TimePasses
<1>9. CASE UNCHANGED vars
  BY <1>9 DEF vars
<1> QED
  BY <1>1, <1>2, <1>3, <1>4, <1>5, <1>6, <1>7, <1>8, <1>9 DEF Next, MatchLoop

\* Whatever a user does but to join again, the count of games goes on: why the kick
\* of the preparing state spares nobody (run match_kick).
THEOREM JoinsReset == Spec => OnlyJoinsReset
<1> DEFINE A == \A u \in presences \cap presences' :
                  noInteract'[u] < noInteract[u] => u \in OwnersOf(Joined' \ Joined)
<1>1. IInv /\ [Next]_vars => A
  <2> SUFFICES ASSUME IInv, [Next]_vars, NEW u \in presences \cap presences',
                      noInteract'[u] < noInteract[u], u \notin OwnersOf(Joined' \ Joined)
               PROVE  FALSE
    OBVIOUS
  <2>1. noInteract[u] \in Nat
    BY DEF IInv, TypeOK
  <2>2. noInteract'[u] = IF phase = "Preparing" /\ phase' = "Play" THEN noInteract[u] + 1
                         ELSE noInteract[u]
    BY CounterStep
  <2> QED
    BY <2>1, <2>2
<1>2. IInv /\ [Next]_vars => [A]_vars
  BY <1>1
<1>3. Spec => [][A]_vars
  BY Invariance, <1>2, PTL DEF Spec
<1> QED
  BY <1>3 DEF OnlyJoinsReset
=============================================================================
