------------------------------ MODULE ShanMatch ------------------------------
(***************************************************************************)
(* One authoritative match of the Shan card game: the match handler the    *)
(* Nakama host calls (api/), the state machine it fires on every tick      *)
(* (usecase/state_machine) and the seats of the table (entity/base_state,  *)
(* usecase/processor/base_processor).                                      *)
(*                                                                         *)
(* The host runs the handlers of one match one at a time, so each handler  *)
(* is one action.  What the handlers interleave with is the outside: the   *)
(* host's sessions (an accepted attempt is followed by a join, or lost),   *)
(* and wall-clock time between two ticks.                                  *)
(***************************************************************************)
EXTENDS Integers, FiniteSets, Functions

CONSTANTS
  Session,        \* connections of players to the host
  User,           \* user ids, the keys of the presence maps
  Owner,          \* the user a session belongs to
  Knows,          \* sessions whose metadata carries the match password
  Open,           \* Label.Open: FALSE when the match has a password
  MinPresences,   \* entity.MinPresences (1)
  MaxPresences,   \* entity.MaxPresences (7)
  KickAfter,      \* games in a row without a reset of the counter (2)
  JoinBound,      \* bound: no further attempt once joins has this value
  JoinsMayBeLost, \* may an accepted attempt be followed by no MatchJoin?
  DealOutcomes    \* how ProcessNewGame may leave the match: "running", or "panicked"

ASSUME MatchAssumption ==
  /\ IsFiniteSet(Session)
  /\ IsFiniteSet(User)
  /\ Owner \in [Session -> User]
  /\ Knows \subseteq Session
  /\ MinPresences \in Nat \ {0}
  /\ MaxPresences \in Nat
  /\ KickAfter \in Nat \ {0}
  /\ JoinBound \in Nat
  /\ {Open, JoinsMayBeLost} \subseteq BOOLEAN
  /\ DealOutcomes # {} /\ DealOutcomes \subseteq {"running", "panicked"}

VARIABLES
  session,    \* the host's view of each session (external)
  alive,      \* does the host still call the handlers of this match?
  phase,      \* Machine.state, mirrored by MatchState.gameState
  exitQueued, \* is TriggerExit left in the queue of the state machine?
  expired,    \* is GetRemainCountDown() past zero?
  presences,  \* keys of Presences: the seated users
  playing,    \* keys of PlayingPresences: seated when the game began
  leaving,    \* keys of LeavePresences: to be removed after the game
  noInteract, \* PresencesNoInteract
  joins,      \* JoinsInProgress
  finished    \* IsGameEnded(): updateFinish # nil

seats == <<presences, playing, leaving, noInteract, joins>>
clock == <<expired, exitQueued>>
vars  == <<session, alive, phase, exitQueued, expired, presences, playing,
           leaving, noInteract, joins, finished>>

Phase == {"Idle", "Matching", "Preparing", "Play", "Reward", "Finish"}

InGame == phase \in {"Play", "Reward"}

OwnersOf(S) == {Owner[s] : s \in S}
Joining     == {s \in Session : session[s] = "joining"}
Joined      == {s \in Session : session[s] = "joined"}

TypeOK ==
  /\ session \in [Session -> {"away", "joining", "joined"}]
  /\ alive \in {"running", "ended", "panicked"}
  /\ phase \in Phase
  /\ {exitQueued, expired, finished} \subseteq BOOLEAN
  /\ presences \subseteq User
  /\ playing \subseteq User
  /\ leaving \subseteq User
  /\ noInteract \in [presences -> Nat]
  /\ joins \in Nat

(***************************************************************************)
(* MatchInit: an empty table whose machine has just entered Idle.          *)
(***************************************************************************)
Init ==
  /\ session = [s \in Session |-> "away"]
  /\ alive = "running"
  /\ phase = "Idle"
  /\ exitQueued = FALSE
  /\ expired = FALSE
  /\ presences = {}
  /\ playing = {}
  /\ leaving = {}
  /\ noInteract = [u \in {} |-> 0]
  /\ joins = 0
  /\ finished = FALSE

-----------------------------------------------------------------------------
(***************************************************************************)
(* MatchJoinAttempt.  The early returns that reject (wrong password, match *)
(* full, wallet unreadable or too small) leave the state alone; whether    *)
(* the wallet is good enough is the environment's choice.                  *)
(***************************************************************************)
Attempts(s) ==
  /\ alive = "running"
  /\ session[s] = "away"
  /\ joins < JoinBound
  /\ Open \/ s \in Knows
  /\ session' = [session EXCEPT ![s] = "joining"]
  /\ joins' = joins + 1
  /\ UNCHANGED <<alive, phase, exitQueued, expired, presences, playing,
                 noInteract, finished>>

RejoinUncounted(s) ==  \* mutant: a rejoin is not counted in JoinsInProgress
  /\ Owner[s] \in presences
  /\ leaving' = leaving \ {Owner[s]}
  /\ session[s] = "away"
  /\ session' = [session EXCEPT ![s] = "joining"]
  /\ UNCHANGED <<alive, phase, clock, presences, playing, noInteract, joins, finished>>

StillLeaving(u) == leaving  \* mutant: the pending leave is not cancelled
RemoveLeavePresence(u) == leaving \ {u}

RejoinAttempt(s) ==
  /\ Owner[s] \in presences
  /\ leaving' = RemoveLeavePresence(Owner[s])
  /\ Attempts(s)

HasFreeSeat == Cardinality(presences) < MaxPresences  \* mutant: ignores joins
HasRoom == Cardinality(presences) + joins < MaxPresences

NewAttempt(s) ==
  /\ Owner[s] \notin presences
  /\ HasRoom
  /\ UNCHANGED leaving
  /\ Attempts(s)

(***************************************************************************)
(* The host drops an accepted attempt: the session closed before it was    *)
(* tracked, and no handler of the match hears of it (external).            *)
(***************************************************************************)
LoseJoin(s) ==
  /\ JoinsMayBeLost
  /\ session[s] = "joining"
  /\ session' = [session EXCEPT ![s] = "away"]
  /\ UNCHANGED <<alive, phase, clock, seats, finished>>

(***************************************************************************)
(* ProcessPresencesJoin for a batch of sessions.  A user found in          *)
(* LeavePresences is only taken off that map; each other session is a new  *)
(* join, and only those are subtracted from JoinsInProgress.               *)
(***************************************************************************)
BackFromLeave(batch) == OwnersOf(batch) \cap leaving

NewJoiners(batch) ==
  {Owner[s] : s \in {t \in batch :
     \/ Owner[t] \notin leaving
     \/ \E r \in batch \ {t} : Owner[r] = Owner[t]}}

MatchJoin(batch) ==
  /\ alive = "running"
  /\ batch # {}
  /\ session' = [s \in Session |-> IF s \in batch THEN "joined" ELSE session[s]]
  /\ leaving' = leaving \ OwnersOf(batch)
  /\ presences' = presences \cup NewJoiners(batch)
  /\ noInteract' = [u \in presences \cup NewJoiners(batch) |->
                      IF u \in NewJoiners(batch) THEN 0 ELSE noInteract[u]]
  /\ joins' = joins - (Cardinality(batch) - Cardinality(BackFromLeave(batch)))
  /\ UNCHANGED <<alive, phase, clock, playing, finished>>

(***************************************************************************)
(* MatchLeave: during a game a player is only put on LeavePresences; in    *)
(* every other case the seat is given up at once.                          *)
(***************************************************************************)
RemovePresences(gone) ==
  /\ presences' = presences \ gone
  /\ noInteract' = Restrict(noInteract, presences \ gone)

DefersWhilePlaying == phase = "Play"  \* mutant: forgets the reward state
DefersLeaves == phase = "Play" \/ phase = "Reward"

KeepLateComers(batch) ==  \* mutant: who does not play keeps the seat
  /\ DefersLeaves
  /\ leaving' = leaving \cup (OwnersOf(batch) \cap playing)
  /\ UNCHANGED <<presences, noInteract>>

LeavePending(batch) ==
  /\ DefersLeaves
  /\ leaving' = leaving \cup (OwnersOf(batch) \cap playing)
  /\ RemovePresences(OwnersOf(batch) \ playing)

LeaveNow(batch) ==
  /\ ~ DefersLeaves
  /\ UNCHANGED leaving
  /\ RemovePresences(OwnersOf(batch))

MatchLeave(batch) ==
  /\ alive = "running"
  /\ batch # {}
  /\ session' = [s \in Session |-> IF s \in batch THEN "away" ELSE session[s]]
  /\ LeavePending(batch) \/ LeaveNow(batch)
  /\ UNCHANGED <<alive, phase, clock, playing, joins, finished>>

-----------------------------------------------------------------------------
(***************************************************************************)
(* MatchLoop fires TriggerProcess.  The machine queues triggers: a trigger *)
(* fired by a Process handler runs right after it, with the Exit and Enter *)
(* handlers of the transition, unless the Process handler returned an      *)
(* error; then it stays queued and is the first one the next tick runs.    *)
(***************************************************************************)
TickAlways == alive = "running"  \* mutant: the queued trigger does not go first
Tick == alive = "running" /\ ~ exitQueued

SetUpCountDown == expired' = FALSE

\* ProcessApplyPresencesLeave, for the pending leaves and the users in extra.
ForgetApply(extra) ==  \* mutant: the seats are freed, the map is not cleared
  /\ UNCHANGED leaving
  /\ RemovePresences(leaving \cup extra)

ApplyLeaves(extra) ==
  /\ leaving' = {}
  /\ RemovePresences(leaving \cup extra)

EnterMatching ==
  /\ phase' = "Matching"
  /\ SetUpCountDown
  /\ ApplyLeaves({})

KickLate == {u \in presences : noInteract[u] > KickAfter}  \* mutant: off by one
KickEarly == {u \in presences : noInteract[u] >= KickAfter - 1}  \* mutant: off by one
GetPresenceNotInteract == {u \in presences : noInteract[u] >= KickAfter}

EnterPreparing ==
  /\ phase' = "Preparing"
  /\ SetUpCountDown
  /\ ApplyLeaves(GetPresenceNotInteract)

NeedsOneMore == Cardinality(presences) > MinPresences  \* mutant: off by one
IsReadyToPlay == Cardinality(presences) >= MinPresences

SizeWithJoins == Cardinality(presences) + joins  \* mutant: counts joins as present
GetPresenceSize == Cardinality(presences)

\* The idle state finds someone at the table ...
IdleProcess ==
  /\ Tick
  /\ phase = "Idle"
  /\ GetPresenceSize > 0
  /\ EnterMatching
  /\ UNCHANGED <<session, alive, exitQueued, playing, joins, finished>>

\* ... or times out: it fires TriggerExit and returns ErrGameFinish.
IdleTimeout ==
  /\ Tick
  /\ phase = "Idle"
  /\ GetPresenceSize = 0
  /\ expired
  /\ exitQueued' = TRUE
  /\ UNCHANGED <<session, alive, phase, expired, seats, finished>>

\* The tick after the timeout runs the queued TriggerExit and then processes
\* the finish state, whose error makes MatchLoop return nil.  Only Idle permits
\* TriggerExit; QueuedExitIsHandled says that is where it is run.
RunQueuedExit ==
  /\ alive = "running"
  /\ exitQueued
  /\ phase = "Idle"
  /\ exitQueued' = FALSE
  /\ phase' = "Finish"
  /\ alive' = "ended"
  /\ UNCHANGED <<session, expired, seats, finished>>

MatchingSuccess ==
  /\ Tick
  /\ phase = "Matching"
  /\ expired
  /\ IsReadyToPlay
  /\ EnterPreparing
  /\ UNCHANGED <<session, alive, exitQueued, playing, joins, finished>>

MatchingFailed ==
  /\ Tick
  /\ phase = "Matching"
  /\ expired
  /\ ~ IsReadyToPlay
  /\ phase' = "Idle"
  /\ SetUpCountDown
  /\ UNCHANGED <<session, alive, exitQueued, seats, finished>>

\* SetupMatchPresence, then ProcessNewGame, which may panic.
PreparingSuccess ==
  /\ Tick
  /\ phase = "Preparing"
  /\ expired
  /\ IsReadyToPlay
  /\ phase' = "Play"
  /\ SetUpCountDown
  /\ playing' = presences
  /\ noInteract' = [u \in presences |-> noInteract[u] + 1]
  /\ finished' = FALSE
  /\ alive' \in DealOutcomes
  /\ UNCHANGED <<session, exitQueued, presences, leaving, joins>>

PreparingFailed ==
  /\ Tick
  /\ phase = "Preparing"
  /\ expired
  /\ ~ IsReadyToPlay
  /\ EnterMatching
  /\ UNCHANGED <<session, alive, exitQueued, playing, joins, finished>>

\* ProcessTurnbase decides that the game is over and sets updateFinish.
PlayProcess ==
  /\ Tick
  /\ phase = "Play"
  /\ ~ finished
  /\ finished' = TRUE
  /\ UNCHANGED <<session, alive, phase, clock, seats>>

\* ProcessFinishGame panics when the wallets of the players cannot be read.
PlayFinished(walletsRead) ==
  /\ Tick
  /\ phase = "Play"
  /\ finished
  /\ phase' = "Reward"
  /\ SetUpCountDown
  /\ alive' = IF walletsRead THEN "running" ELSE "panicked"
  /\ UNCHANGED <<session, exitQueued, seats, finished>>

RewardSuccess ==
  /\ Tick
  /\ phase = "Reward"
  /\ expired
  /\ EnterMatching
  /\ UNCHANGED <<session, alive, exitQueued, playing, joins, finished>>

MatchLoop ==
  \/ IdleProcess
  \/ IdleTimeout
  \/ RunQueuedExit
  \/ MatchingSuccess
  \/ MatchingFailed
  \/ PreparingSuccess
  \/ PreparingFailed
  \/ PlayProcess
  \/ \E walletsRead \in BOOLEAN : PlayFinished(walletsRead)
  \/ RewardSuccess

\* Wall-clock time passes the countdown, however long ago it was set up.
TimePasses ==
  /\ alive = "running"
  /\ ~ expired
  /\ expired' = TRUE
  /\ UNCHANGED <<session, alive, phase, exitQueued, seats, finished>>

Next ==
  \/ \E s \in Session : RejoinAttempt(s) \/ NewAttempt(s) \/ LoseJoin(s)
  \/ \E batch \in SUBSET Joining : MatchJoin(batch)
  \/ \E batch \in SUBSET Joined : MatchLeave(batch)
  \/ MatchLoop
  \/ TimePasses

\* The host calls MatchLoop at its tick rate for as long as the match lives,
\* and time does not stop.
Fairness == WF_vars(MatchLoop) /\ WF_vars(TimePasses)

Spec == Init /\ [][Next]_vars /\ Fairness

-----------------------------------------------------------------------------
(***************************************************************************)
(* Safety.                                                                 *)
(***************************************************************************)

\* There is a seat for everyone who is seated or whose attempt was accepted:
\* the check of MatchJoinAttempt counts the joins in progress, so however
\* attempts, joins, leaves and losses interleave MatchJoin never overfills.
GuestsFit == Cardinality(presences \cup OwnersOf(Joining)) <= MaxPresences

\* JoinsInProgress never counts fewer than the accepted sessions still on
\* their way, although MatchJoin subtracts one per new join and rejoins of
\* leaving users take another path.
JoinsCoverPending == Cardinality(Joining) <= joins

\* With reliable joins and one session per user, JoinsInProgress returns to
\* exactly the sessions on their way: no rejoin path strands a reservation.
NoStrandedJoins == joins = Cardinality(Joining)

\* A trigger left in the queue finds the machine in the state that permits it,
\* whatever joins and leaves the host delivers between the two ticks.
QueuedExitIsHandled == exitQueued => phase = "Idle" /\ leaving = {}

\* LeavePresences is empty outside a game: whatever way a game ends, its
\* leavers have been applied before the next countdown starts.
PendingOnlyInGame == leaving # {} => InGame

\* Until the reward is over, everyone who was seated when the game began is
\* still seated, so settlement finds them, and only they can be leaving.
PlayersStaySeated == InGame => leaving \subseteq playing /\ playing \subseteq presences

\* The counter of games without interaction exists exactly for the seated
\* users, never exceeds the limit, and is below it when a game is prepared:
\* no one sits through more than KickAfter games.
CountersBounded ==
  /\ DOMAIN noInteract = presences
  /\ \A u \in presences :
       noInteract[u] <= (IF phase = "Preparing" THEN KickAfter - 1 ELSE KickAfter)

\* With reliable joins there are no ghosts at the table: every seated user
\* is connected, is on the way back, or is going to be removed.
SeatsAreOwned == presences \subseteq OwnersOf(Joined) \cup OwnersOf(Joining) \cup leaving

\* With one session per user, nobody who is connected or on the way back is
\* on LeavePresences: a rejoin always cancels the pending removal.
PresentAreNotLeaving == leaving \cap OwnersOf(Joined \cup Joining) = {}

-----------------------------------------------------------------------------
(***************************************************************************)
(* What a step may never do.                                               *)
(***************************************************************************)

\* A seat is lost only for a cause: one of the user's sessions leaves in this
\* step, the user is a pending leaver, or has used up KickAfter games.
SeatLostForCause ==
  [][\A u \in presences \ presences' :
       \/ u \in OwnersOf(Joined \ Joined')
       \/ u \in leaving
       \/ noInteract[u] >= KickAfter]_vars

\* The seats implement the abstract admission of SeatAdmission.
Admission == INSTANCE SeatAdmission WITH
               Seats <- MaxPresences, seated <- presences, invited <- OwnersOf(Joining)

AdmissionSpec == Admission!Spec

-----------------------------------------------------------------------------
(***************************************************************************)
(* Liveness.                                                               *)
(***************************************************************************)

\* A table that stays empty is closed by the idle timeout, whatever state it
\* was in and however many accepted attempts never arrive.
EmptyTableCloses == <>[](presences = {}) => <>(alive # "running")

\* A table that stays occupied gets to a game (or has been closed).
OccupiedTablePlays == <>[](presences # {}) => <>(phase = "Play" \/ alive # "running")

\* A pending leave is eventually applied or cancelled by a rejoin.
LeaversAreRemoved ==
  \A u \in User : u \in leaving ~> (u \notin leaving \/ alive # "running")

-----------------------------------------------------------------------------
(***************************************************************************)
(* What comments of the code say and the code does not do.                 *)
(***************************************************************************)

\* idle.go:44 "Do finish here": the match finishes in the idle state when the
\* table is empty, so it never finishes with someone seated.
ClosedOnlyWhenEmpty == phase = "Finish" => presences = {}
=============================================================================
