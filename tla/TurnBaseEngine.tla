--------------------------- MODULE TurnBaseEngine ----------------------------
(***************************************************************************)
(* The turn engine of a game (usecase/processor/turnbase_engine.go): it    *)
(* walks through rounds, players and phases, driven by a countdown that    *)
(* Loop examines on every tick and by the messages of the current player.  *)
(*                                                                         *)
(* Players and phases are numbered from 1; a round is known by its place   *)
(* in Rounds and carries its number of phases and whether it is global     *)
(* (one countdown for everybody) or played player by player.               *)
(***************************************************************************)
EXTENDS Integers, Sequences

CONSTANTS
  Rounds,  \* the rounds of Config: a sequence of [isGlob, phases]
  Size     \* the number of players of Config

ASSUME EngineAssumption ==
  /\ Size \in Nat \ {0}
  /\ Rounds \in Seq([isGlob : BOOLEAN, phases : Nat \ {0}])
  /\ Rounds # <<>>

\* NextRound keeps curPhase, so a round that follows a global one must have as
\* many phases; the rounds of ProcessNewGame have one each.
ASSUME PhasesAssumption ==
  \A r \in 1 .. Len(Rounds) - 1 :
    Rounds[r].isGlob => Rounds[r].phases <= Rounds[r + 1].phases

VARIABLES
  isInit,     \* has Config been called?
  curRound, curPhase, curPlayer,
  isNew,      \* the flags isNewRound, isNewTurn and isNewPhase
  late,       \* is GetRemainCountDown() negative?
  info,       \* the last TurnInfo that Loop returned
  drawn,      \* players who drew a card (IsCanHit is false for them)
  lap         \* history: players who had a turn in the current lap

vars == <<isInit, curRound, curPhase, curPlayer, isNew, late, info, drawn, lap>>

Player == 1 .. Size
Round  == 1 .. Len(Rounds)
Flags  == [round : BOOLEAN, turn : BOOLEAN, phase : BOOLEAN]
Place  == [round : Nat, player : Nat, phase : Nat]
TurnInfo == [round : Nat, player : Nat, phase : Nat, isNew : Flags]

PhasesOf(r) == Rounds[r].phases
IsGlob      == Rounds[curRound].isGlob
Current     == [round |-> curRound, player |-> curPlayer, phase |-> curPhase]

NoFlags  == [round |-> FALSE, turn |-> FALSE, phase |-> FALSE]
AllFlags == [round |-> TRUE, turn |-> TRUE, phase |-> TRUE]
NoTurn   == [round |-> 0, player |-> 0, phase |-> 0, isNew |-> NoFlags]

TypeOK ==
  /\ isInit \in BOOLEAN
  /\ late \in BOOLEAN
  /\ curRound \in Round
  /\ curPhase \in Nat \ {0}
  /\ curPlayer \in Player
  /\ isNew \in Flags
  /\ info \in TurnInfo
  /\ drawn \subseteq Player
  /\ lap \subseteq Player

Init ==
  /\ isInit = FALSE
  /\ curRound = 1
  /\ curPhase = 1
  /\ curPlayer = 1
  /\ isNew = NoFlags
  /\ late = FALSE
  /\ info = NoTurn
  /\ drawn = {}
  /\ lap = {}

-----------------------------------------------------------------------------
(***************************************************************************)
(* ProcessNewGame: MatchState.Init forgets whose turn it was, then Config, *)
(* SetCurrentRound to the first round and SetCurrentPlayer to a player.    *)
(***************************************************************************)
Config(first) ==
  /\ isInit' = TRUE
  /\ curRound' = 1
  /\ curPhase' = 1
  /\ curPlayer' = first
  /\ isNew' = AllFlags
  /\ late' = FALSE
  /\ drawn' = {}
  /\ lap' = {}
  /\ info' = NoTurn

\* What a TurnInfo says of a place, with the flags that are set.
InfoOf(place, flags) ==
  [round |-> place.round, player |-> place.player, phase |-> place.phase,
   isNew |-> flags]

\* A new turn in a round that is played player by player counts for the lap.
LapWith(place, flags) ==
  IF ~ flags.turn \/ Rounds[place.round].isGlob THEN lap
  ELSE IF lap = Player THEN {place.player}
  ELSE lap \cup {place.player}

KeepFlags(place, flags) ==  \* mutant: the flags stay set after the report
  /\ info' = InfoOf(place, flags)
  /\ isNew' = flags
  /\ lap' = LapWith(place, flags)

\* Loop reports the place and the flags, then clears the flags.
Report(place, flags) ==
  /\ info' = InfoOf(place, flags)
  /\ isNew' = NoFlags
  /\ lap' = LapWith(place, flags)

OnePhaseTooMany == curPhase <= PhasesOf(curRound)  \* mutant: off by one
HasNextPhase == curPhase < PhasesOf(curRound)
HasNextRound == curRound < Len(Rounds)

\* Before the timeout nothing moves; nor does it after, in a global last round.
LoopStays ==
  /\ isInit
  /\ late => ~ HasNextPhase /\ IsGlob /\ ~ HasNextRound
  /\ Report(Current, isNew)
  /\ UNCHANGED <<isInit, curRound, curPhase, curPlayer, late, drawn>>

\* NextPhase reports no new turn; NextRound and NextPlayer do.
LoopNextPhase ==
  /\ isInit
  /\ late
  /\ HasNextPhase
  /\ curPhase' = curPhase + 1
  /\ late' = FALSE
  /\ Report([Current EXCEPT !.phase = curPhase + 1], [isNew EXCEPT !.phase = TRUE])
  /\ UNCHANGED <<isInit, curRound, curPlayer, drawn>>

\* The round changes, the player and the phase stay.
LoopNextRound ==
  /\ isInit
  /\ late
  /\ ~ HasNextPhase
  /\ IsGlob
  /\ HasNextRound
  /\ curRound' = curRound + 1
  /\ late' = FALSE
  /\ Report([Current EXCEPT !.round = curRound + 1], AllFlags)
  /\ UNCHANGED <<isInit, curPhase, curPlayer, drawn>>

NoWrap == curPlayer + 1  \* mutant: runs off the table
SkipPlayer == IF curPlayer + 1 < Size THEN curPlayer + 1 ELSE 1  \* mutant: off by one
NextPlayer == IF curPlayer < Size THEN curPlayer + 1 ELSE 1

LoopNextPlayer ==
  /\ isInit
  /\ late
  /\ ~ HasNextPhase
  /\ ~ IsGlob
  /\ curPlayer' = NextPlayer
  /\ curPhase' = 1
  /\ late' = FALSE
  /\ Report([round |-> curRound, player |-> NextPlayer, phase |-> 1],
            [isNew EXCEPT !.turn = TRUE, !.phase = TRUE])
  /\ UNCHANGED <<isInit, curRound, drawn>>

Loop ==
  \/ LoopStays
  \/ LoopNextPhase
  \/ LoopNextRound
  \/ LoopNextPlayer

(***************************************************************************)
(* ProcessMessageFromUser, between two Loops: STAY calls NextPhase; a HIT  *)
(* after which the player can draw no more calls RePhase (the processor    *)
(* allows hits only while allowAction is set, which it never does).  Both  *)
(* are for the player whose turn was last announced.                       *)
(***************************************************************************)
MyTurn == isInit /\ info.player = curPlayer

Stay ==
  /\ MyTurn
  /\ HasNextPhase
  /\ curPhase' = curPhase + 1
  /\ isNew' = [isNew EXCEPT !.phase = TRUE]
  /\ late' = FALSE
  /\ UNCHANGED <<isInit, curRound, curPlayer, info, drawn, lap>>

HitAgain ==  \* mutant: a player may draw, and restart the countdown, for ever
  /\ MyTurn
  /\ drawn' = drawn
  /\ isNew' = [isNew EXCEPT !.phase = TRUE]
  /\ late' = FALSE
  /\ UNCHANGED <<isInit, curRound, curPhase, curPlayer, info, lap>>

Hit ==
  /\ MyTurn
  /\ curPlayer \notin drawn
  /\ drawn' = drawn \cup {curPlayer}
  /\ isNew' = [isNew EXCEPT !.phase = TRUE]
  /\ late' = FALSE
  /\ UNCHANGED <<isInit, curRound, curPhase, curPlayer, info, lap>>

\* The countdown is over by more than half a second.
TimePasses ==
  /\ isInit
  /\ ~ late
  /\ late' = TRUE
  /\ UNCHANGED <<isInit, curRound, curPhase, curPlayer, isNew, info, drawn, lap>>

Next ==
  \/ \E first \in Player : Config(first)
  \/ Loop
  \/ Stay
  \/ Hit
  \/ TimePasses

\* Once a game is on, the tick loop and time go on.
Fairness == WF_vars(Loop) /\ WF_vars(TimePasses)

Spec == Init /\ [][Next]_vars /\ Fairness

-----------------------------------------------------------------------------
\* The indices Loop dereferences stay inside their tables, although NextRound
\* resets neither the phase nor the player: no index panic in Loop.
InRange == curPhase <= PhasesOf(curRound)

\* What a TurnInfo announces, compared with the one before.
TurnMoved  == info'.round # info.round \/ info'.player # info.player
PlaceMoved == TurnMoved \/ info'.phase # info.phase

Announces ==
  IF info = NoTurn THEN info'.isNew = AllFlags
  ELSE /\ info'.isNew.round <=> info'.round # info.round
       /\ TurnMoved => info'.isNew.turn
       /\ info'.isNew.turn => late /\ (TurnMoved \/ Size = 1)
       /\ PlaceMoved \/ info'.isNew.turn => info'.isNew.phase

\* The TurnInfos of a game announce each change exactly once.  ProcessTurnbase
\* knows of the engine only what the flags of a TurnInfo tell it, and the flags are
\* set by the operations between two ticks as well as by Loop: the first TurnInfo of
\* a game announces everything; later ones announce a round if and only if it differs
\* from the one reported before, a turn if and only if the time of the one before was
\* over and the turn went on, and a phase whenever anything changed.
ChangesAnnounced == [][Loop => Announces]_vars

\* Nobody has a second turn before everybody had one, whoever began and however
\* turns end: by timeout, by messages, or both in one tick.
LapsAreFair ==
  [][info'.round = info.round /\ info'.player # info.player =>
       lap = Player \/ info'.player \notin lap]_vars

\* While a game stays in a last round that is played player by player, everyone
\* keeps getting turns: a player who does not answer cannot hold up the others.
EveryoneGetsATurn ==
  \A p \in Player :
    <>[](isInit /\ curRound = Len(Rounds) /\ ~ IsGlob) => []<>(info.player = p)
=============================================================================
