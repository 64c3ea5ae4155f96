------------------------ MODULE ShanInteractionProofs -------------------------
(***************************************************************************)
(* Proofs about ShanInteraction: messages do not disturb the match, so     *)
(* everything proved of ShanMatch holds with them; and the kick of the     *)
(* preparing state takes everybody who was silent for KickAfter games and  *)
(* did not join again meanwhile, which is the half of its comment that the *)
(* code keeps (run match_kick violates the other half).                    *)
(***************************************************************************)
EXTENDS ShanInteraction, ShanMatchProofs

\* A tick that handles messages is a tick or waits.
LEMMA InteractStep == [InteractNext]_allVars => [Next]_vars
<1> SUFFICES ASSUME [InteractNext]_allVars PROVE [Next]_vars
  OBVIOUS
<1>1. CASE MatchStep
  BY <1>1 DEF MatchStep
<1>2. ASSUME NEW senders \in SUBSET User, ProcessMessageFromUser(senders) PROVE [Next]_vars
  BY <1>2 DEF ProcessMessageFromUser, Waits, Next
<1>3. CASE UNCHANGED allVars
  BY <1>3 DEF allVars
<1> QED
  BY <1>1, <1>2, <1>3 DEF InteractNext

\* Whatever users send, seats, phases and counters move as in the match without
\* messages.
THEOREM InteractionIsMatch == InteractSpec => Init /\ [][Next]_vars
<1>1. InteractInit => Init
  BY DEF InteractInit
<1> QED
  BY <1>1, InteractStep, PTL DEF InteractSpec

\* The safety of the match with messages: nobody can talk a table full, a player out
\* of a running game, or a counter over its limit.
THEOREM SafeWithMessages ==
  InteractSpec => [](GuestsFit /\ PlayersStaySeated /\ PendingOnlyInGame /\ CountersBounded)
<1>1. IInv => GuestsFit /\ PlayersStaySeated /\ PendingOnlyInGame /\ CountersBounded
  BY DEF IInv
<1> QED
  BY InteractionIsMatch, InitIInv, StepIInv, <1>1, PTL

-----------------------------------------------------------------------------
\* Who has no seat has begun no game since.
UnseatedAreFresh == \A u \in User \ presences : silentGames[u] = 0

InteractInv == IInv /\ silentGames \in [User -> Nat] /\ UnseatedAreFresh

\* The counter of the code runs along with the silence of its user: it starts with it
\* when the user is seated, and does not fall behind but when the user joins again
\* without having left the seat.
SilenceIsCounted ==
  [][\A u \in presences' :
       /\ u \notin presences => silentGames'[u] = noInteract'[u]
       /\ u \in presences \ OwnersOf(Joined' \ Joined) =>
            silentGames'[u] - silentGames[u] <= noInteract'[u] - noInteract[u]]_allVars

\* Only a join seats anybody, with a counter of zero.
LEMMA NewcomerStep ==
  ASSUME TypeOK, [Next]_vars, NEW u \in presences' \ presences
  PROVE  noInteract'[u] = 0 /\ phase' = phase
<1> DEFINE Starts == noInteract'[u] = 0 /\ phase' = phase
<1> USE DEF seats, clock, ApplyLeaves, RemovePresences
<1>1. ASSUME NEW s \in Session, RejoinAttempt(s) \/ NewAttempt(s) \/ LoseJoin(s) PROVE FALSE
  BY <1>1 DEF RejoinAttempt, NewAttempt, LoseJoin, Attempts
<1>2. ASSUME NEW batch \in SUBSET Joining, MatchJoin(batch) PROVE Starts
  BY <1>2 DEF MatchJoin
<1>3. ASSUME NEW batch \in SUBSET Joined, MatchLeave(batch) PROVE FALSE
  BY <1>3 DEF MatchLeave, LeavePending, LeaveNow
<1>4. CASE MatchLoop \/ TimePasses
  BY <1>4, TickGuests
<1>5. CASE UNCHANGED vars
  BY <1>5 DEF vars
<1> QED
  BY <1>1, <1>2, <1>3, <1>4, <1>5 DEF Next

\* Every step counts from what the messages of the tick leave of the silence.
LEMMA StepCounts ==
  ASSUME silentGames \in [User -> Nat], InteractNext
  PROVE  \E before \in [User -> Nat] :
           /\ \A u \in User : before[u] <= silentGames[u]
           /\ Counts(before)
<1>1. CASE MatchStep
  BY <1>1 DEF MatchStep
<1>2. ASSUME NEW senders \in SUBSET User, ProcessMessageFromUser(senders)
      PROVE  \E before \in [User -> Nat] :
               (\A u \in User : before[u] <= silentGames[u]) /\ Counts(before)
  <2> DEFINE before == [u \in User |-> IF u \in senders THEN 0 ELSE silentGames[u]]
  <2>1. Counts(before)
    BY <1>2 DEF ProcessMessageFromUser
  <2>2. before \in [User -> Nat] /\ \A u \in User : before[u] <= silentGames[u]
    OBVIOUS
  <2> HIDE DEF before
  <2> QED
    BY <2>1, <2>2
<1> QED
  BY <1>1, <1>2 DEF InteractNext

\* What one step does to the counters and to the silence of the seated.
LEMMA StepSilence ==
  ASSUME InteractInv, InteractNext
  PROVE  /\ InteractInv'
         /\ \A u \in presences' :
              /\ u \notin presences => silentGames'[u] = noInteract'[u]
              /\ u \in presences \ OwnersOf(Joined' \ Joined) =>
                   silentGames'[u] - silentGames[u] <= noInteract'[u] - noInteract[u]
<1>0. [Next]_vars /\ IInv /\ IInv'
  BY InteractStep, StepIInv, MatchAssumption DEF InteractInv
<1>1. PICK before \in [User -> Nat] :
        (\A u \in User : before[u] <= silentGames[u]) /\ Counts(before)
  BY StepCounts DEF InteractInv
<1>2. \A u \in User :
        silentGames'[u] = IF u \notin presences' THEN 0
                          ELSE IF phase = "Preparing" /\ phase' = "Play" THEN before[u] + 1
                          ELSE before[u]
  BY <1>1 DEF Counts
<1>3. presences \subseteq User /\ presences' \subseteq User
      /\ \A u \in presences : noInteract[u] \in Nat
  BY <1>0 DEF IInv, TypeOK
<1>4. InteractInv'
  <2>1. silentGames' \in [User -> Nat]
    BY <1>1, <1>2 DEF Counts
  <2>2. UnseatedAreFresh'
    BY <1>2 DEF UnseatedAreFresh
  <2> QED
    BY <1>0, <2>1, <2>2 DEF InteractInv
<1>5. ASSUME NEW u \in presences', u \notin presences
      PROVE  silentGames'[u] = noInteract'[u]
  <2>1. noInteract'[u] = 0 /\ phase' = phase
    BY <1>0, <1>5, NewcomerStep DEF IInv
  <2>2. before[u] = 0
    BY <1>1, <1>3, <1>5 DEF InteractInv, UnseatedAreFresh
  <2> QED
    BY <1>2, <1>3, <2>1, <2>2
<1>6. ASSUME NEW u \in presences', u \in presences, u \notin OwnersOf(Joined' \ Joined)
      PROVE  silentGames'[u] - silentGames[u] <= noInteract'[u] - noInteract[u]
  <2>1. noInteract'[u] = IF phase = "Preparing" /\ phase' = "Play" THEN noInteract[u] + 1
                         ELSE noInteract[u]
    BY <1>0, <1>6, CounterStep
  <2>2. before[u] <= silentGames[u] /\ before[u] \in Nat /\ silentGames[u] \in Nat
        /\ noInteract[u] \in Nat
    BY <1>1, <1>3, <1>6 DEF InteractInv
  <2> QED
    BY <1>2, <1>3, <2>1, <2>2
<1> QED
  BY <1>4, <1>5, <1>6

\* Nobody who stays is silent for longer than the counter of the code says, so that
\* who is silent for KickAfter games without joining again is removed.
THEOREM SilenceCounted == InteractSpec => SilenceIsCounted
<1> DEFINE A == \A u \in presences' :
                  /\ u \notin presences => silentGames'[u] = noInteract'[u]
                  /\ u \in presences \ OwnersOf(Joined' \ Joined) =>
                       silentGames'[u] - silentGames[u] <= noInteract'[u] - noInteract[u]
<1>1. InteractInit => InteractInv
  <2> SUFFICES ASSUME InteractInit PROVE InteractInv
    OBVIOUS
  <2>1. IInv
    BY InitIInv, MatchAssumption DEF InteractInit
  <2> QED
    BY <2>1 DEF InteractInit, InteractInv, UnseatedAreFresh
<1>2. InteractInv /\ [InteractNext]_allVars => InteractInv'
  <2>1. CASE InteractNext
    BY <2>1, StepSilence
  <2>2. CASE UNCHANGED allVars
    <3>1. UNCHANGED <<vars, silentGames>>
      BY <2>2 DEF allVars
    <3>2. InteractInv /\ UNCHANGED vars => IInv'
      BY StepIInv, MatchAssumption DEF InteractInv
    <3> QED
      BY <3>1, <3>2 DEF InteractInv, UnseatedAreFresh, vars
  <2> QED
    BY <2>1, <2>2
<1>3. InteractInv /\ [InteractNext]_allVars => [A]_allVars
  BY StepSilence
<1>4. InteractSpec => [][A]_allVars
  BY <1>1, <1>2, <1>3, PTL DEF InteractSpec
<1> QED
  BY <1>4 DEF SilenceIsCounted
=============================================================================
