---------------------------- MODULE ShanGameProofs ----------------------------
(***************************************************************************)
(* Proofs about ShanGame for any number of players, bets, fees and rates:  *)
(* its state is well typed, messages are taken from the announced player,  *)
(* the game keeps the promises of GameOfTurns, and the settlement pays     *)
(* exactly what the results say.                                           *)
(***************************************************************************)
EXTENDS ShanGame, TurnBaseEngineProofs

\* The engine as the game finds it: nothing was reported yet, or the report and
\* the indices agree and no flag waits.
NotReported == info = NoTurn /\ isNew = AllFlags /\ curRound = Betting
Reported    == info.round = curRound /\ info.player = curPlayer /\ isNew = NoFlags

EngineInGame ==
  stage = "Play" =>
    /\ isInit
    /\ NotReported \/ Reported
    /\ curRound = Betting => curPlayer = 1

\* In the round of turns the bets are closed, and those who had a turn are the
\* first players up to the current one.
TurnsInOrder ==
  stage = "Play" /\ ~ IsGameEnded /\ curRound = Playing =>
    ~ allowBet /\ hasVisited /\ visited = 1 .. curPlayer

GInv == IInv /\ GameTypeOK /\ EngineInGame /\ TurnsInOrder /\ TurnIsCurrent

-----------------------------------------------------------------------------
(* The engine with the two rounds of ProcessNewGame. *)

LEMMA TwoRounds ==
  /\ Len(Rounds) = 2 /\ Round = 1 .. 2
  /\ Rounds[1] = [isGlob |-> TRUE, phases |-> 1]
  /\ Rounds[2] = [isGlob |-> FALSE, phases |-> 1]
  /\ Size \in Nat \ {0}
BY GameAssumption, EngineAssumption DEF Round

\* Did Loop move the engine on?
MovedOn == late /\ ~ late'

\* What one call of Loop does: nothing, the change from betting to playing, or
\* the next player's turn; it always reports where it is, and whether it moved.
LEMMA GameLoop ==
  ASSUME IInv, Loop
  PROVE  /\ isInit' = isInit /\ isNew' = NoFlags /\ ~ HasNextPhase
         /\ info'.round = curRound' /\ info'.player = curPlayer'
         /\ \/ /\ ~ MovedOn /\ curRound' = curRound /\ curPlayer' = curPlayer
            \/ /\ MovedOn /\ curRound = Betting /\ curRound' = Playing
               /\ curPlayer' = curPlayer
            \/ /\ MovedOn /\ curRound = Playing /\ curRound' = Playing
               /\ curPlayer' = NextPlayer
         /\ IsNewRound <=> isNew.round \/ curRound' # curRound
         /\ IsNewTurn <=> isNew.turn \/ MovedOn
         /\ IsNewPhase <=> isNew.phase \/ MovedOn
<1> USE TwoRounds DEF Betting, Playing, MovedOn, Report, InfoOf, Current,
                      IsNewRound, IsNewTurn, IsNewPhase
<1>0. /\ curRound \in 1 .. 2 /\ curPhase = 1 /\ ~ HasNextPhase
      /\ curRound = 1 => IsGlob /\ HasNextRound
      /\ curRound = 2 => ~ IsGlob
      /\ late \in BOOLEAN /\ isNew \in Flags
  BY DEF IInv, TypeOK, InRange, PhasesOf, IsGlob, HasNextPhase, HasNextRound
<1>1. CASE LoopStays
  BY <1>0, <1>1 DEF LoopStays
<1>2. CASE LoopNextPhase
  BY <1>0, <1>2 DEF LoopNextPhase
<1>3. CASE LoopNextRound
  BY <1>0, <1>3 DEF LoopNextRound, AllFlags
<1>4. CASE LoopNextPlayer
  <2>1. /\ curRound' = curRound /\ info'.isNew = [isNew EXCEPT !.turn = TRUE, !.phase = TRUE]
        /\ late /\ ~ late'
    BY <1>4 DEF LoopNextPlayer
  <2>2. info'.isNew.round = isNew.round /\ info'.isNew.turn /\ info'.isNew.phase
    BY <1>0, <2>1, FlagSet
  <2> QED
    BY <1>0, <1>4, <2>1, <2>2 DEF LoopNextPlayer
<1> QED
  BY <1>1, <1>2, <1>3, <1>4 DEF Loop

\* The operations of the game keep the engine's invariant.
LEMMA EngineStep ==
  ASSUME IInv, Config(1) \/ Loop \/ TimePasses \/ UNCHANGED engine
  PROVE  IInv'
<1>1. [Next]_vars
  BY TwoRounds DEF Next, Player, engine
<1> QED
  BY <1>1, StepIInv

-----------------------------------------------------------------------------
(* Types and the pieces of a tick. *)

\* Results for all players are results: there is at least one player.
LEMMA ResultsEnd == \A S : \A f \in [Player -> S] : f # NoResult
<1> TAKE S
<1> TAKE f \in [Player -> S]
<1>1. 1 \in DOMAIN f
  BY TwoRounds DEF Player
<1>2. DOMAIN NoResult = {}
  BY DEF NoResult
<1> QED
  BY <1>1, <1>2

\* The total of a result is a number of chips: percentages below 100 count as 0.
LEMMA TotalIsNat ==
  ASSUME GameTypeOK, NEW p \in Player, NEW v \in -1 .. 1,
         NEW rate \in Rates, NEW dealerRate \in Rates
  PROVE  Total(p, v, rate, dealerRate) \in Nat
<1>1. Percent[p] \in 0 .. 20 /\ Percent[0] \in 0 .. 20
  BY GameAssumption, TwoRounds DEF Player
<1>2. Percent[p] \div 100 = 0 /\ Percent[0] \div 100 = 0
  BY <1>1
<1>3. userBets[p] \in Nat /\ rate \in Nat /\ dealerRate \in Nat
  BY GameAssumption DEF GameTypeOK
<1>4. userBets[p] * rate \in Int /\ -userBets[p] * dealerRate \in Int
  BY <1>3
<1>5. \A x \in Int : 0 * x = 0
  OBVIOUS
<1>6. CASE v > 0
  <2>1. Total(p, v, rate, dealerRate) = (Percent[p] \div 100) * (userBets[p] * rate)
    BY <1>6 DEF Total
  <2> QED
    BY <1>2, <1>4, <1>5, <2>1
<1>7. CASE v < 0
  <2>1. Total(p, v, rate, dealerRate) = (Percent[0] \div 100) * (-userBets[p] * dealerRate)
    BY <1>7 DEF Total
  <2> QED
    BY <1>2, <1>4, <1>5, <2>1
<1>8. CASE v = 0
  BY <1>3, <1>8 DEF Total
<1> QED
  BY <1>6, <1>7, <1>8

\* Announcing a phase panics, changes nothing, or announces the current player.
LEMMA Announced ==
  ASSUME NEW known \in BOOLEAN, NEW v \in SUBSET Player, Announce(known, v),
         GameTypeOK, stage # "Panicked", curPlayer' \in Player
  PROVE  /\ stage' \in {stage, "Panicked"}
         /\ hasVisited' \in BOOLEAN /\ visited' \subseteq Player /\ currentTurn' \in 0 .. Size
         /\ stage' = stage \/ ~ known
         /\ stage' = stage =>
              \/ /\ ~ IsNewPhase
                 /\ hasVisited' = known /\ visited' = v /\ currentTurn' = currentTurn
              \/ /\ IsNewPhase
                 /\ hasVisited' /\ visited' = v \cup {curPlayer'} /\ currentTurn' = curPlayer'
         /\ stage' # stage => IsNewPhase
<1>0. curPlayer' \in 0 .. Size /\ currentTurn \in 0 .. Size
  BY TwoRounds DEF Player, GameTypeOK
<1>1. CASE ~ IsNewPhase
  BY <1>0, <1>1, Zenon DEF Announce
<1>2. CASE IsNewPhase /\ ~ known
  <2>1. stage' = "Panicked" /\ UNCHANGED turn
    BY <1>2, Zenon DEF Announce
  <2>2. hasVisited \in BOOLEAN /\ visited \subseteq Player
    BY DEF GameTypeOK
  <2> QED
    BY <1>0, <1>2, <2>1, <2>2, Zenon DEF turn
<1>3. CASE IsNewPhase /\ known
  BY <1>0, <1>3, Zenon DEF Announce
<1> QED
  BY <1>1, <1>2, <1>3

\* What the wallets become.
LEMMA WalletsAreNat ==
  ASSUME GameTypeOK, NEW change \in [Player -> Int], WalletsUpdate(change)
  PROVE  wallet' \in [Player -> Nat]
<1>1. CASE UNCHANGED wallet
  BY <1>1 DEF GameTypeOK
<1>2. CASE /\ \A p \in Player : wallet[p] + change[p] >= 0
           /\ wallet' = [p \in Player |-> wallet[p] + change[p]]
  <2>1. \A p \in Player : wallet[p] + change[p] \in Nat
    BY <1>2 DEF GameTypeOK
  <2> QED
    BY <1>2, <2>1
<1> QED
  BY <1>1, <1>2 DEF WalletsUpdate

\* The amount sent to the host is what is paid, whichever wallets were parsed.
LEMMA AmountIsPayout ==
  ASSUME GameTypeOK, IsGameEnded, NEW parsed \in SUBSET Player, NEW p \in Player
  PROVE  AmountChip(p, parsed) = Payout(p) /\ Payout(p) \in Int
<1> DEFINE total == updateFinish[p].total
           before == AmountChipBefore(p, parsed)
           fee == Fee(p, total)
<1>1. total \in Nat /\ wallet[p] \in Nat
  BY DEF GameTypeOK, IsGameEnded, BetResult
<1>2. Percent[p] \in 0 .. 20
  BY GameAssumption, TwoRounds DEF Player
<1>3. before \in Int
  BY <1>1 DEF AmountChipBefore
<1>4. fee \in Int /\ (total = 0 => fee = 0)
  <2>1. Percent[p] * total \in Int /\ Percent[p] * 0 = 0
    BY <1>1, <1>2
  <2>2. \A x \in Int : x \div 100 \in Int
    OBVIOUS
  <2> QED
    BY <2>1, <2>2 DEF Fee
<1>5. Payout(p) = total - fee
  BY DEF Payout
<1>6. AmountChip(p, parsed) = AmountChipCurrent(p, parsed) - before
  BY DEF AmountChip
<1>7. AmountChipCurrent(p, parsed) = IF total > 0 THEN before + total - fee ELSE before
  BY DEF AmountChipCurrent, AmountChipAdd
<1> HIDE DEF total, before, fee
<1>8. CASE total > 0
  BY <1>1, <1>3, <1>4, <1>5, <1>6, <1>7, <1>8
<1>9. CASE total = 0
  <2>1. AmountChipCurrent(p, parsed) = before
    BY <1>1, <1>7, <1>9
  <2>2. AmountChip(p, parsed) = 0
    BY <1>3, <1>6, <2>1
  <2>3. fee = 0
    BY <1>4, <1>9
  <2>4. Payout(p) = 0
    BY <1>5, <1>9, <2>3
  <2> QED
    BY <2>2, <2>4
<1> QED
  BY <1>1, <1>8, <1>9

-----------------------------------------------------------------------------
(* The steps of a game keep the invariant. *)

\* What a tick does to the engine, in the terms of the tick.
LEMMA TickMoves ==
  ASSUME GInv, Ticks
  PROVE  /\ IInv' /\ isInit' /\ Reported' /\ curPlayer' \in Player
         /\ ~ IsNewPhase => curRound' = curRound /\ curPlayer' = curPlayer /\ Reported
         /\ curRound' = Betting => curRound = Betting /\ curPlayer' = 1
         /\ curRound' = Playing /\ IsNewRound =>
              curRound = Betting /\ IsNewPhase /\ curPlayer' = 1
         /\ curRound' = Playing /\ ~ IsNewRound =>
              /\ curRound = Playing
              /\ IsNewPhase => IsNewTurn /\ curPlayer' = NextPlayer
              /\ ~ IsNewPhase => curPlayer' = curPlayer
         /\ curRound' \in {Betting, Playing}
<1>0. IInv /\ Loop /\ stage = "Play"
  BY DEF GInv, Ticks
<1>1. IInv'
  BY <1>0, EngineStep
<1>2. curPlayer' \in Player /\ curRound \in 1 .. 2 /\ curRound' \in 1 .. 2
  BY <1>0, <1>1, TwoRounds DEF IInv, TypeOK
<1>3. isInit /\ (NotReported \/ Reported) /\ (curRound = Betting => curPlayer = 1)
  BY <1>0 DEF GInv, EngineInGame
<1>4. isInit' /\ Reported'
  BY <1>0, <1>3, GameLoop DEF Reported
<1>5. /\ ~ HasNextPhase
      /\ \/ ~ MovedOn /\ curRound' = curRound /\ curPlayer' = curPlayer
         \/ /\ MovedOn /\ curRound = Betting /\ curRound' = Playing
            /\ curPlayer' = curPlayer
         \/ /\ MovedOn /\ curRound = Playing /\ curRound' = Playing
            /\ curPlayer' = NextPlayer
      /\ IsNewRound <=> isNew.round \/ curRound' # curRound
      /\ IsNewTurn <=> isNew.turn \/ MovedOn
      /\ IsNewPhase <=> isNew.phase \/ MovedOn
  BY <1>0, GameLoop
<1>6. NotReported => isNew.round /\ isNew.turn /\ isNew.phase /\ curRound = Betting
  BY DEF NotReported, AllFlags
<1>7. Reported => ~ isNew.round /\ ~ isNew.turn /\ ~ isNew.phase
  BY DEF Reported, NoFlags
<1> QED
  BY <1>1, <1>2, <1>3, <1>4, <1>5, <1>6, <1>7
     DEF Betting, Playing

\* A step after which no game is in play has only its types to keep.
LEMMA OutOfPlay ==
  ASSUME IInv', GameTypeOK', stage' # "Play"
  PROVE  GInv'
BY DEF GInv, EngineInGame, TurnsInOrder, TurnIsCurrent

LEMMA BetTickStep == ASSUME GInv, BetTick PROVE GInv'
<1>0. Ticks /\ curRound' = Betting /\ Announce(hasVisited, visited) /\ GameTypeOK
  BY DEF BetTick, GInv
<1>1. /\ IInv' /\ isInit' /\ Reported' /\ curPlayer' \in Player /\ curPlayer' = 1
      /\ ~ IsNewPhase => curPlayer' = curPlayer /\ Reported
  BY <1>0, TickMoves
<1>2. hasVisited \in BOOLEAN /\ visited \in SUBSET Player /\ stage = "Play"
  BY <1>0 DEF GameTypeOK, Ticks
<1>3. /\ stage' \in {stage, "Panicked"}
      /\ hasVisited' \in BOOLEAN /\ visited' \subseteq Player /\ currentTurn' \in 0 .. Size
      /\ stage' = stage =>
           \/ ~ IsNewPhase /\ currentTurn' = currentTurn
           \/ IsNewPhase /\ currentTurn' = curPlayer'
  BY <1>0, <1>1, <1>2, Announced
<1>4. GameTypeOK'
  <2>1. allowBet' \in BOOLEAN
    BY DEF BetTick
  <2>2. UNCHANGED <<updateFinish, userBets, wallet>>
    BY DEF BetTick, money
  <2> QED
    BY <1>0, <1>1, <1>2, <1>3, <2>1, <2>2 DEF GameTypeOK, IInv
<1>5. CASE stage' # "Play"
  BY <1>1, <1>4, <1>5, OutOfPlay
<1>6. CASE stage' = "Play"
  <2>1. EngineInGame'
    BY <1>1 DEF EngineInGame
  <2>2. TurnsInOrder'
    BY <1>0 DEF TurnsInOrder, Betting, Playing
  <2>3. currentTurn = info.player
    BY <1>0, <1>2 DEF GInv, TurnIsCurrent, Ticks
  <2>4. TurnIsCurrent'
    BY <1>1, <1>2, <1>3, <1>6, <2>3 DEF TurnIsCurrent, Reported
  <2> QED
    BY <1>1, <1>4, <2>1, <2>2, <2>4 DEF GInv
<1> QED
  BY <1>5, <1>6

LEMMA TurnsOpenStep ==
  ASSUME GInv, TurnsOpen
  PROVE  GInv' /\ stage' = "Play" /\ visited' = {curPlayer'} /\ curPlayer' = 1
<1>0. Ticks /\ curRound' = Playing /\ IsNewRound /\ Announce(TRUE, {}) /\ GameTypeOK
  BY DEF TurnsOpen, GInv
<1>1. /\ IInv' /\ isInit' /\ Reported' /\ curPlayer' \in Player /\ curPlayer' = 1
      /\ IsNewPhase
  BY <1>0, TickMoves
<1>2. {} \in SUBSET Player /\ stage = "Play" /\ TRUE \in BOOLEAN
  BY <1>0 DEF Ticks
<1>3. /\ stage' = "Play" /\ hasVisited' /\ hasVisited' \in BOOLEAN
      /\ visited' = {} \cup {curPlayer'} /\ visited' \subseteq Player
      /\ currentTurn' = curPlayer' /\ currentTurn' \in 0 .. Size
  BY <1>0, <1>1, <1>2, Announced
<1>4. ~ allowBet' /\ allowBet' \in BOOLEAN /\ UNCHANGED <<updateFinish, userBets, wallet>>
  BY DEF TurnsOpen, CloseBets, money
<1>5. GameTypeOK'
  BY <1>0, <1>1, <1>3, <1>4 DEF GameTypeOK, IInv
<1>6. EngineInGame'
  BY <1>0, <1>1 DEF EngineInGame, Betting, Playing
<1>7. TurnsInOrder'
  BY <1>1, <1>3, <1>4 DEF TurnsInOrder
<1>8. TurnIsCurrent'
  BY <1>1, <1>3 DEF TurnIsCurrent, Reported
<1> QED
  BY <1>1, <1>3, <1>5, <1>6, <1>7, <1>8 DEF GInv

\* The next turn is that of the player after those who had one.
LEMMA TurnTickStep ==
  ASSUME GInv, TurnTick
  PROVE  /\ GInv' /\ stage' = "Play" /\ curRound = Playing
         /\ \/ visited' = visited
            \/ curPlayer' = curPlayer + 1 /\ visited' = visited \cup {curPlayer'}
<1>0. /\ Ticks /\ curRound' = Playing /\ ~ IsNewRound /\ ~ LastRound
      /\ Announce(hasVisited, visited) /\ GameTypeOK
  BY DEF TurnTick, GInv
<1>1. /\ IInv' /\ isInit' /\ Reported' /\ curPlayer' \in Player /\ curRound = Playing
      /\ IsNewPhase => IsNewTurn /\ curPlayer' = NextPlayer
      /\ ~ IsNewPhase => curPlayer' = curPlayer /\ Reported
  BY <1>0, TickMoves
<1>2. stage = "Play" /\ ~ IsGameEnded /\ curPlayer \in Player
  BY <1>0 DEF Ticks, GInv, IInv, TypeOK
<1>3. ~ allowBet /\ hasVisited /\ visited = 1 .. curPlayer
  BY <1>1, <1>2 DEF GInv, TurnsInOrder
<1>4. hasVisited \in BOOLEAN /\ visited \in SUBSET Player
  BY <1>0 DEF GameTypeOK
<1>5. /\ stage' = "Play" /\ hasVisited' \in BOOLEAN /\ hasVisited' /\ visited' \subseteq Player
      /\ currentTurn' \in 0 .. Size
      /\ \/ ~ IsNewPhase /\ visited' = visited /\ currentTurn' = currentTurn
         \/ /\ IsNewPhase
            /\ visited' = visited \cup {curPlayer'} /\ currentTurn' = curPlayer'
  BY <1>0, <1>1, <1>2, <1>3, <1>4, Announced
<1>6. IsNewPhase => curPlayer' = curPlayer + 1
  <2>1. IsNewPhase => visited # Player
    BY <1>0, <1>1, <1>3 DEF LastRound, IsAllVisited
  <2>2. curPlayer = Size => visited = Player
    BY <1>3 DEF Player
  <2>3. IsNewPhase => curPlayer # Size
    BY <2>1, <2>2
  <2>4. curPlayer \in 1 .. Size /\ Size \in Nat
    BY <1>2, TwoRounds DEF Player
  <2> QED
    BY <1>1, <2>3, <2>4 DEF NextPlayer
<1>7. visited' = 1 .. curPlayer'
  <2>1. curPlayer \in Nat \ {0}
    BY <1>2, TwoRounds DEF Player
  <2>2. (1 .. curPlayer) \cup {curPlayer + 1} = 1 .. (curPlayer + 1)
    BY <2>1
  <2> QED
    BY <1>1, <1>3, <1>5, <1>6, <2>2
<1>8. UNCHANGED <<allowBet, updateFinish, userBets, wallet>>
  BY DEF TurnTick, money
<1>9. GameTypeOK'
  BY <1>0, <1>1, <1>5, <1>8 DEF GameTypeOK, IInv
<1>10. EngineInGame'
  BY <1>0, <1>1 DEF EngineInGame, Betting, Playing
<1>11. TurnsInOrder'
  BY <1>3, <1>5, <1>7, <1>8 DEF TurnsInOrder
<1>12. currentTurn = info.player
  BY <1>2 DEF GInv, TurnIsCurrent
<1>13. TurnIsCurrent'
  BY <1>1, <1>5, <1>12 DEF TurnIsCurrent, Reported
<1> QED
  BY <1>1, <1>5, <1>6, <1>9, <1>10, <1>11, <1>13 DEF GInv

\* The dealer has SHAN: the results are numbers, and there are results.
LEMMA GameFinishesStep ==
  ASSUME GInv, NEW isWin \in [Player -> -1 .. 1], NEW rate \in [Player -> Rates],
         NEW dealerRate \in Rates, GameFinishes(isWin, rate, dealerRate)
  PROVE  GInv' /\ IsGameEnded' /\ stage' = "Play" /\ curRound = Betting
<1>0. Ticks /\ curRound' = Playing /\ IsNewRound /\ GameTypeOK /\ IInv
  BY DEF GameFinishes, DealerShan, GInv
<1>1. IInv' /\ isInit' /\ Reported' /\ curRound = Betting
  BY <1>0, TickMoves
<1>2. updateFinish' \in [Player -> BetResult]
  <2>1. \A p \in Player :
          [bet |-> userBets[p], isWin |-> isWin[p],
           total |-> Total(p, isWin[p], rate[p], dealerRate)] \in BetResult
    BY <1>0, TotalIsNat DEF GameTypeOK, BetResult
  <2>2. updateFinish' = [p \in Player |->
          [bet |-> userBets[p], isWin |-> isWin[p],
           total |-> Total(p, isWin[p], rate[p], dealerRate)]]
    BY DEF GameFinishes
  <2> QED
    BY <2>1, <2>2
<1>3. IsGameEnded'
  BY <1>2, ResultsEnd DEF IsGameEnded, NoResult
<1>4. UNCHANGED <<stage, allowBet, hasVisited, visited, currentTurn, userBets, wallet>>
  BY DEF GameFinishes, turn, money
<1>5. GameTypeOK'
  BY <1>0, <1>1, <1>2, <1>4 DEF GameTypeOK, IInv
<1>6. EngineInGame'
  BY <1>0, <1>1 DEF EngineInGame, Betting, Playing
<1> QED
  BY <1>0, <1>1, <1>3, <1>4, <1>5, <1>6 DEF GInv, TurnsInOrder, TurnIsCurrent, Ticks

\* A bet changes the bets and the wallets, nothing the other conjuncts look at.
LEMMA BetStep ==
  ASSUME GInv, NEW p \in Player, NEW chips \in BetChips, Bet(p, chips)
  PROVE  GInv' /\ \A q \in Player : userBets'[q] >= userBets[q]
<1>0. GameTypeOK /\ IInv /\ chips \in Int
  BY GameAssumption DEF GInv
<1>1. [q \in Player |-> IF q = p THEN -chips ELSE 0] \in [Player -> Int]
  BY <1>0
<1>2. wallet' \in [Player -> Nat]
  <2>1. WalletsUpdate([q \in Player |-> IF q = p THEN -chips ELSE 0])
    BY DEF Bet
  <2> QED
    BY <1>0, <1>1, <2>1, WalletsAreNat
<1>3. userBets' = [userBets EXCEPT ![p] = userBets[p] + wallet[p]]
  BY DEF Bet
<1>4. userBets \in [Player -> Nat] /\ wallet[p] \in Nat
  BY <1>0 DEF GameTypeOK
<1>5. userBets' \in [Player -> Nat] /\ \A q \in Player : userBets'[q] >= userBets[q]
  BY <1>3, <1>4
<1>6. UNCHANGED <<engine, stage, allowBet, hasVisited, visited, currentTurn, updateFinish>>
  BY DEF Bet, turn
<1>7. IInv'
  BY <1>0, <1>6, EngineStep
<1> QED
  BY <1>0, <1>2, <1>5, <1>6, <1>7
     DEF GInv, GameTypeOK, IInv, EngineInGame, NotReported, Reported, TurnsInOrder,
         TurnIsCurrent, IsGameEnded, engine, vars

\* The settlement, with the amounts it sends to the host.
LEMMA FinishGameStep ==
  ASSUME GInv, NEW parsed \in SUBSET Player, FinishGame(parsed)
  PROVE  /\ GInv' /\ UNCHANGED userBets
         /\ \/ wallet' = wallet
            \/ \A p \in Player : wallet'[p] = wallet[p] + Payout(p)
<1>0. GameTypeOK /\ IsGameEnded /\ IInv
  BY DEF GInv, FinishGame
<1> DEFINE change == [p \in Player |-> AmountChip(p, parsed)]
<1>1. WalletsUpdate(change)
  BY DEF FinishGame
<1>2. \A p \in Player : change[p] = Payout(p) /\ change[p] \in Int
  BY <1>0, AmountIsPayout
<1>3. change \in [Player -> Int]
  <2>1. change = [p \in Player |-> change[p]]
    OBVIOUS
  <2> HIDE DEF change
  <2> QED
    BY <1>2, <2>1
<1> HIDE DEF change
<1>4. wallet' \in [Player -> Nat]
  BY <1>0, <1>1, <1>3, WalletsAreNat
<1>5. \/ wallet' = wallet
      \/ \A p \in Player : wallet'[p] = wallet[p] + Payout(p)
  BY <1>1, <1>2 DEF WalletsUpdate
<1>6. /\ UNCHANGED <<engine, allowBet, hasVisited, visited, currentTurn, updateFinish, userBets>>
      /\ stage' = "Reward"
  BY DEF FinishGame, turn
<1>7. IInv'
  BY <1>0, <1>6, EngineStep
<1>8. GameTypeOK'
  BY <1>0, <1>4, <1>6, <1>7 DEF GameTypeOK, IInv
<1> QED
  BY <1>5, <1>6, <1>7, <1>8, OutOfPlay

\* Setting a table: nobody had a turn, and the first player is at hand.
LEMMA SetTableStep ==
  ASSUME GInv, NEW bets \in [Player -> StartBets], SetTable(bets)
  PROVE  GInv' /\ ~ IsGameEnded' /\ stage' = "Play" /\ info'.round = 0
<1>0. GameTypeOK /\ IInv /\ Config(1)
  BY DEF GInv, SetTable
<1>1. IInv'
  BY <1>0, EngineStep
<1>2. userBets' \in [Player -> Nat]
  BY GameAssumption DEF SetTable
<1>3. /\ updateFinish' = NoResult /\ currentTurn' = 0 /\ stage' = "Play"
      /\ UNCHANGED <<allowBet, wallet>>
      /\ hasVisited' \in BOOLEAN /\ visited' \subseteq Player
  BY <1>0 DEF SetTable, GameTypeOK
<1>4. /\ isInit' /\ curRound' = 1 /\ curPlayer' = 1 /\ info' = NoTurn /\ isNew' = AllFlags
      /\ info'.round = 0 /\ info'.player = 0
  BY <1>0 DEF Config, NoTurn
<1>5. GameTypeOK'
  BY <1>0, <1>1, <1>2, <1>3, TwoRounds DEF GameTypeOK, IInv
<1>6. EngineInGame'
  BY <1>4 DEF EngineInGame, NotReported, Betting
<1>7. TurnsInOrder' /\ TurnIsCurrent' /\ ~ IsGameEnded'
  BY <1>3, <1>4 DEF TurnsInOrder, TurnIsCurrent, Playing, IsGameEnded, NoResult
<1> QED
  BY <1>1, <1>3, <1>4, <1>5, <1>6, <1>7 DEF GInv

\* The other steps end the play, or only let time pass.
LEMMA OtherSteps ==
  ASSUME GInv,
         \/ ProcessNewGame \/ DealerDraws \/ CalcPanics \/ StrangerBets
         \/ WalletsUnread \/ RewardOver \/ TurnTimePasses \/ UNCHANGED gameVars
  PROVE  GInv'
<1>0. GameTypeOK /\ IInv
  BY DEF GInv
<1>1. CASE ProcessNewGame
  <2>1. UNCHANGED engine /\ stage' = "Panicked" /\ userBets' \in [Player -> Nat]
    BY <1>1 DEF ProcessNewGame, notifyInitialDealCard, MatchStateInit
  <2>2. IInv'
    BY <1>0, <2>1, EngineStep
  <2>3. GameTypeOK'
    BY <1>0, <1>1, <2>1, <2>2, TwoRounds DEF ProcessNewGame, notifyInitialDealCard, MatchStateInit, GameTypeOK, IInv
  <2> QED
    BY <2>1, <2>2, <2>3, OutOfPlay
<1>2. CASE DealerDraws \/ CalcPanics
  <2>1. /\ Loop /\ stage' = "Panicked"
        /\ UNCHANGED <<allowBet, hasVisited, visited, currentTurn, updateFinish, userBets, wallet>>
    BY <1>2 DEF DealerDraws, notifyDealCard, CalcPanics, DealerShan, Ticks, turn, money
  <2>2. IInv'
    BY <1>0, <2>1, EngineStep
  <2>3. GameTypeOK'
    BY <1>0, <2>1, <2>2 DEF GameTypeOK, IInv
  <2> QED
    BY <2>1, <2>2, <2>3, OutOfPlay
<1>3. CASE StrangerBets \/ WalletsUnread \/ RewardOver
  <2>1. /\ UNCHANGED engine /\ stage' \in {"Panicked", "Wait"}
        /\ UNCHANGED <<allowBet, hasVisited, visited, currentTurn, updateFinish, userBets, wallet>>
    BY <1>3 DEF StrangerBets, WalletsUnread, RewardOver, turn, money
  <2>2. IInv'
    BY <1>0, <2>1, EngineStep
  <2>3. GameTypeOK'
    BY <1>0, <2>1, <2>2 DEF GameTypeOK, IInv
  <2> QED
    BY <2>1, <2>2, <2>3, OutOfPlay
<1>4. CASE TurnTimePasses \/ UNCHANGED gameVars
  <2>1. /\ TimePasses \/ UNCHANGED engine
        /\ UNCHANGED <<isInit, curRound, curPlayer, isNew, info, stage, allowBet, hasVisited,
                       visited, currentTurn, updateFinish, userBets, wallet>>
    BY <1>4 DEF TurnTimePasses, TimePasses, gameVars, engine, vars, turn, money
  <2>2. IInv'
    BY <1>0, <2>1, EngineStep
  <2> QED
    BY <1>0, <2>1, <2>2
       DEF GInv, GameTypeOK, IInv, EngineInGame, NotReported, Reported, TurnsInOrder,
           TurnIsCurrent, IsGameEnded
<1> QED
  BY <1>1, <1>2, <1>3, <1>4

LEMMA StepGInv == GInv /\ [GameNext]_gameVars => GInv'
<1> SUFFICES ASSUME GInv, [GameNext]_gameVars PROVE GInv'
  OBVIOUS
<1>1. ASSUME NEW bets \in [Player -> StartBets], SetTable(bets) PROVE GInv'
  BY <1>1, SetTableStep
<1>2. ASSUME NEW isWin \in [Player -> -1 .. 1], NEW rate \in [Player -> Rates],
             NEW dealerRate \in Rates, GameFinishes(isWin, rate, dealerRate)
      PROVE  GInv'
  BY <1>2, GameFinishesStep
<1>3. ASSUME NEW parsed \in SUBSET Player, FinishGame(parsed) PROVE GInv'
  BY <1>3, FinishGameStep
<1>4. ASSUME NEW p \in Player, NEW chips \in BetChips, Bet(p, chips) PROVE GInv'
  BY <1>4, BetStep
<1> QED
  BY <1>1, <1>2, <1>3, <1>4, BetTickStep, TurnsOpenStep, TurnTickStep, OtherSteps
     DEF GameNext, PlayProcess, ParsedWallets, Turnbase

LEMMA InitGInv == GameInit => GInv
<1> SUFFICES ASSUME GameInit PROVE GInv
  OBVIOUS
<1>1. IInv
  BY InitIInv DEF GameInit
<1>2. GameTypeOK
  <2>1. userBets \in [Player -> Nat] /\ wallet \in [Player -> Nat]
    BY GameAssumption DEF GameInit, Player
  <2>2. TypeOK /\ currentTurn \in 0 .. Size
    BY <1>1, TwoRounds DEF GameInit, IInv
  <2> QED
    BY <2>1, <2>2 DEF GameInit, GameTypeOK
<1> QED
  BY <1>1, <1>2 DEF GameInit, GInv, EngineInGame, TurnsInOrder, TurnIsCurrent

\* The state of a game is well typed: chips and bets never become negative.
THEOREM GameTyped == GameSpec => []GameTypeOK
<1>1. GInv => GameTypeOK
  BY DEF GInv
<1> QED
  BY InitGInv, StepGInv, <1>1, PTL DEF GameSpec

\* Messages are taken from the player whose turn the engine last reported.
THEOREM TurnCurrent == GameSpec => []TurnIsCurrent
<1>1. GInv => TurnIsCurrent
  BY DEF GInv
<1> QED
  BY InitGInv, StepGInv, <1>1, PTL DEF GameSpec

\* The settlement pays exactly the results less the fees, or nothing, whichever
\* wallets could be parsed.
THEOREM SettlementExact == GameSpec => SettlementIsExact
<1> DEFINE A == stage = "Play" /\ stage' = "Reward" =>
                  \/ wallet' = wallet
                  \/ \A p \in Player : wallet'[p] = wallet[p] + Payout(p)
<1>1. GInv /\ [GameNext]_gameVars => [A]_gameVars
  <2> SUFFICES ASSUME GInv, GameNext, stage = "Play", stage' = "Reward" PROVE A
    OBVIOUS
  <2>1. PICK parsed \in SUBSET Player : FinishGame(parsed)
    <3>1. ~ BetTick
      BY BetTickStep DEF BetTick, Announce
    <3>2. ~ TurnsOpen /\ ~ TurnTick
      BY TurnsOpenStep, TurnTickStep
    <3>3. ~ DealerDraws /\ ~ CalcPanics /\ ~ ProcessNewGame /\ ~ StrangerBets /\ ~ WalletsUnread
      BY DEF DealerDraws, notifyDealCard, CalcPanics, ProcessNewGame, StrangerBets, WalletsUnread
    <3>4. ~ RewardOver /\ ~ TurnTimePasses
      BY DEF RewardOver, TurnTimePasses
    <3>5. ASSUME NEW bets \in [Player -> StartBets], SetTable(bets) PROVE FALSE
      BY <3>5 DEF SetTable
    <3>6. ASSUME NEW isWin \in [Player -> -1 .. 1], NEW rate \in [Player -> Rates],
                 NEW dealerRate \in Rates, GameFinishes(isWin, rate, dealerRate)
          PROVE  FALSE
      BY <3>6 DEF GameFinishes
    <3>7. ASSUME NEW p \in Player, NEW chips \in BetChips, Bet(p, chips) PROVE FALSE
      BY <3>7 DEF Bet
    <3> QED
      BY <3>1, <3>2, <3>3, <3>4, <3>5, <3>6, <3>7 DEF GameNext, PlayProcess, ParsedWallets, Turnbase
  <2> QED
    BY <2>1, FinishGameStep
<1>2. GameSpec => [][A]_gameVars
  BY InitGInv, StepGInv, <1>1, PTL DEF GameSpec
<1> QED
  BY <1>2 DEF SettlementIsExact

-----------------------------------------------------------------------------
(* The game implements GameOfTurns. *)

\* Which part of the game is on, in terms of the engine.
LEMMA PartIs ==
  ASSUME GInv
  PROVE  /\ stage # "Play" \/ IsGameEnded => PartOfGame = "closed"
         /\ stage = "Play" /\ ~ IsGameEnded /\ curRound = Betting => PartOfGame = "betting"
         /\ stage = "Play" /\ ~ IsGameEnded /\ curRound = Playing => PartOfGame = "turns"
         /\ stage = "Play" => curRound \in {Betting, Playing}
<1>1. stage = "Play" => (NotReported \/ Reported)
  BY DEF GInv, EngineInGame
<1>2. NotReported => info.round = 0 /\ curRound = 1
  BY DEF NotReported, NoTurn, Betting
<1>3. Reported => info.round = curRound
  BY DEF Reported
<1>4. curRound \in {1, 2}
  BY TwoRounds DEF GInv, IInv, TypeOK
<1> QED
  BY <1>1, <1>2, <1>3, <1>4 DEF PartOfGame, Betting, Playing

\* The same after a tick, which always reports the round it is in.
LEMMA PartAfterTick ==
  ASSUME GInv, Ticks
  PROVE  /\ stage' # "Play" \/ IsGameEnded' => PartOfGame' = "closed"
         /\ stage' = "Play" /\ ~ IsGameEnded' /\ curRound' = Betting => PartOfGame' = "betting"
         /\ stage' = "Play" /\ ~ IsGameEnded' /\ curRound' = Playing => PartOfGame' = "turns"
<1>1. info'.round = curRound'
  BY TickMoves DEF Reported
<1> QED
  BY <1>1 DEF PartOfGame, Betting, Playing

LEMMA BetTickMaps ==
  ASSUME GInv, BetTick
  PROVE  Turns!Next \/ UNCHANGED <<PartOfGame, HadTurn, userBets>>
<1>0. Ticks /\ curRound' = Betting /\ curRound = Betting /\ UNCHANGED userBets
  BY TickMoves DEF BetTick, money
<1>1. PartOfGame = "betting"
  BY <1>0, PartIs DEF Ticks
<1>2. PartOfGame' \in {"betting", "closed"}
  BY <1>0, PartAfterTick
<1> QED
  BY <1>0, <1>1, <1>2 DEF HadTurn, Turns!Next, Turns!CutShort

LEMMA TurnsOpenMaps == ASSUME GInv, TurnsOpen PROVE Turns!Next
<1>0. Ticks /\ curRound' = Playing /\ curRound = Betting /\ UNCHANGED <<userBets, updateFinish>>
  BY TickMoves DEF TurnsOpen, money
<1>1. PartOfGame = "betting" /\ HadTurn = {}
  BY <1>0, PartIs DEF Ticks, HadTurn
<1>2. stage' = "Play" /\ visited' = {1}
  BY TurnsOpenStep
<1>3. PartOfGame' = "turns" /\ HadTurn' = {1}
  BY <1>0, <1>2, PartAfterTick DEF Ticks, IsGameEnded, HadTurn
<1>4. Turns!Turn(1) /\ 1 \in Player
  BY <1>0, <1>1, <1>3, TwoRounds DEF Turns!Turn, Player
<1> QED
  BY <1>4 DEF Turns!Next

LEMMA TurnTickMaps ==
  ASSUME GInv, TurnTick
  PROVE  Turns!Next \/ UNCHANGED <<PartOfGame, HadTurn, userBets>>
<1>0. Ticks /\ curRound' = Playing /\ UNCHANGED <<userBets, updateFinish>>
  BY DEF TurnTick, money
<1>1. /\ stage' = "Play" /\ curRound = Playing
      /\ \/ visited' = visited
         \/ curPlayer' = curPlayer + 1 /\ visited' = visited \cup {curPlayer'}
  BY TurnTickStep
<1>2. PartOfGame = "turns" /\ HadTurn = visited /\ visited = 1 .. curPlayer
  BY <1>0, <1>1, PartIs DEF Ticks, HadTurn, GInv, TurnsInOrder
<1>3. PartOfGame' = "turns" /\ HadTurn' = visited'
  BY <1>0, <1>1, PartAfterTick DEF Ticks, IsGameEnded, HadTurn
<1>4. CASE visited' = visited
  BY <1>0, <1>2, <1>3, <1>4
<1>5. CASE curPlayer' = curPlayer + 1 /\ visited' = visited \cup {curPlayer'}
  <2>1. curPlayer' \in Player /\ curPlayer \in Nat
    BY <1>0, TickMoves, TwoRounds DEF GInv, IInv, TypeOK, Player
  <2>2. curPlayer' \notin visited
    BY <1>2, <1>5, <2>1
  <2>3. Turns!Turn(curPlayer')
    BY <1>0, <1>2, <1>3, <1>5, <2>2 DEF Turns!Turn
  <2> QED
    BY <2>1, <2>3 DEF Turns!Next
<1> QED
  BY <1>1, <1>4, <1>5

LEMMA DealerDrawsMaps == ASSUME GInv, DealerDraws PROVE Turns!Next
<1>0. /\ Ticks /\ curRound' = Playing /\ ~ IsNewRound /\ LastRound /\ stage' = "Panicked"
      /\ UNCHANGED userBets
  BY DEF DealerDraws, notifyDealCard, money
<1>1. PartOfGame = "turns" /\ HadTurn = Player
  BY <1>0, TickMoves, PartIs DEF Ticks, HadTurn, LastRound, IsAllVisited
<1>2. PartOfGame' = "closed" /\ HadTurn' = {}
  BY <1>0, PartAfterTick DEF HadTurn
<1> QED
  BY <1>0, <1>1, <1>2 DEF Turns!Next, Turns!Finish

\* The dealer's SHAN or a panic ends the game in place of its first turn.
LEMMA ShanMaps ==
  ASSUME GInv, DealerShan, UNCHANGED userBets, stage' # "Play" \/ IsGameEnded'
  PROVE  Turns!Next
<1>0. Ticks /\ curRound' = Playing /\ IsNewRound
  BY DEF DealerShan
<1>1. PartOfGame = "betting" /\ HadTurn = {}
  BY <1>0, TickMoves, PartIs DEF Ticks, HadTurn
<1>2. PartOfGame' = "closed" /\ HadTurn' = {}
  BY <1>0, PartAfterTick DEF HadTurn
<1> QED
  BY <1>1, <1>2 DEF Turns!Next, Turns!CutShort

LEMMA BetMaps ==
  ASSUME GInv, NEW p \in Player, NEW chips \in BetChips, Bet(p, chips)
  PROVE  Turns!Next
<1>0. /\ allowBet /\ PartOfGame' = PartOfGame /\ HadTurn' = HadTurn
      /\ \A q \in Player : userBets'[q] >= userBets[q]
  BY BetStep DEF Bet, PartOfGame, HadTurn, IsGameEnded, engine, vars, turn
<1>1. stage = "Play" /\ ~ IsGameEnded => curRound # Playing
  BY <1>0 DEF GInv, TurnsInOrder
<1>2. PartOfGame \in {"closed", "betting"}
  BY <1>1, PartIs
<1> QED
  BY <1>0, <1>2 DEF Turns!Next, Turns!Raise, Turns!Between

LEMMA StrangerMaps == ASSUME GInv, StrangerBets PROVE Turns!Next
<1>0. allowBet /\ stage' = "Panicked" /\ UNCHANGED userBets
  BY DEF StrangerBets, money
<1>1. stage = "Play" /\ ~ IsGameEnded => curRound # Playing
  BY <1>0 DEF GInv, TurnsInOrder
<1>2. PartOfGame \in {"closed", "betting"} /\ HadTurn = {}
  BY <1>1, PartIs DEF HadTurn
<1>3. PartOfGame' = "closed" /\ HadTurn' = {}
  BY <1>0 DEF PartOfGame, HadTurn
<1> QED
  BY <1>0, <1>2, <1>3 DEF Turns!Next, Turns!CutShort, Turns!Between

LEMMA SetTableMaps ==
  ASSUME GInv, NEW bets \in [Player -> StartBets], SetTable(bets)
  PROVE  Turns!Next
<1>1. PartOfGame = "closed" /\ HadTurn = {}
  BY DEF SetTable, PartOfGame, HadTurn
<1>2. PartOfGame' = "betting" /\ HadTurn' = {}
  BY SetTableStep DEF PartOfGame, HadTurn, Playing
<1> QED
  BY <1>1, <1>2 DEF Turns!Next, Turns!Open

\* Outside the play of a game nothing is promised but that none is open.
LEMMA ClosedMaps ==
  ASSUME stage # "Play" \/ IsGameEnded, stage' # "Play" \/ IsGameEnded'
  PROVE  Turns!Next
<1>1. PartOfGame = "closed" /\ HadTurn = {} /\ PartOfGame' = "closed" /\ HadTurn' = {}
  BY DEF PartOfGame, HadTurn
<1> QED
  BY <1>1 DEF Turns!Next, Turns!Between

LEMMA StepMaps ==
  ASSUME GInv, [GameNext]_gameVars
  PROVE  Turns!Next \/ UNCHANGED <<PartOfGame, HadTurn, userBets>>
<1>1. CASE ProcessNewGame \/ WalletsUnread \/ RewardOver
  BY <1>1, ClosedMaps DEF ProcessNewGame, notifyInitialDealCard, WalletsUnread, RewardOver
<1>2. ASSUME NEW parsed \in SUBSET Player, FinishGame(parsed) PROVE Turns!Next
  BY <1>2, ClosedMaps DEF FinishGame
<1>3. ASSUME NEW isWin \in [Player -> -1 .. 1], NEW rate \in [Player -> Rates],
             NEW dealerRate \in Rates, GameFinishes(isWin, rate, dealerRate)
      PROVE  Turns!Next
  <2>1. DealerShan /\ UNCHANGED userBets
    BY <1>3 DEF GameFinishes, money
  <2>2. IsGameEnded'
    BY <1>3, GameFinishesStep
  <2> QED
    BY <2>1, <2>2, ShanMaps
<1>4. CASE CalcPanics
  <2>1. DealerShan /\ UNCHANGED userBets /\ stage' # "Play"
    BY <1>4 DEF CalcPanics, money
  <2> QED
    BY <2>1, ShanMaps
<1>5. CASE TurnTimePasses \/ UNCHANGED gameVars
  BY <1>5 DEF TurnTimePasses, TimePasses, gameVars, engine, vars, turn, money, PartOfGame,
              HadTurn, IsGameEnded
<1>6. ASSUME NEW bets \in [Player -> StartBets], SetTable(bets) PROVE Turns!Next
  BY <1>6, SetTableMaps
<1>7. ASSUME NEW p \in Player, NEW chips \in BetChips, Bet(p, chips) PROVE Turns!Next
  BY <1>7, BetMaps
<1> QED
  BY <1>1, <1>2, <1>3, <1>4, <1>5, <1>6, <1>7, BetTickMaps, TurnsOpenMaps, TurnTickMaps,
     DealerDrawsMaps, StrangerMaps
     DEF GameNext, PlayProcess, ParsedWallets, Turnbase

\* The game keeps the promises of GameOfTurns: one turn for everybody between the
\* bets and the end, and no bet moves meanwhile.
THEOREM ImplementsTurns == GameSpec => TurnsSpec
<1>1. GameInit => Turns!Init
  BY DEF GameInit, Turns!Init, PartOfGame, HadTurn
<1>2. GInv /\ [GameNext]_gameVars => [Turns!Next]_<<PartOfGame, HadTurn, userBets>>
  BY StepMaps
<1>3. GameSpec => Turns!Spec
  BY InitGInv, StepGInv, <1>1, <1>2, PTL DEF GameSpec, Turns!Spec
<1> QED
  BY <1>3 DEF TurnsSpec

-----------------------------------------------------------------------------
(* The game and its engine. *)

\* Whatever a game does is a step of the engine or leaves it alone.
LEMMA GameStepOfEngine == [GameNext]_gameVars => [Next]_vars
<1> SUFFICES ASSUME [GameNext]_gameVars PROVE [Next]_vars
  OBVIOUS
<1>1. ASSUME NEW bets \in [Player -> StartBets], SetTable(bets) PROVE Next
  <2>1. Config(1) /\ 1 \in Player
    BY <1>1, TwoRounds DEF SetTable, Player
  <2> QED
    BY <2>1 DEF Next
<1>2. ASSUME Turnbase PROVE Next
  BY <1>2 DEF Turnbase, BetTick, TurnsOpen, TurnTick, DealerDraws, GameFinishes, CalcPanics,
              DealerShan, Ticks, Next
<1>3. ASSUME \/ ProcessNewGame \/ StrangerBets \/ WalletsUnread \/ RewardOver
             \/ \E parsed \in ParsedWallets : FinishGame(parsed)
             \/ \E p \in Player, chips \in BetChips : Bet(p, chips)
             \/ UNCHANGED gameVars
      PROVE  UNCHANGED vars
  BY <1>3 DEF ProcessNewGame, StrangerBets, WalletsUnread, RewardOver, FinishGame, Bet,
              gameVars, engine
<1>4. ASSUME TurnTimePasses PROVE Next
  BY <1>4 DEF TurnTimePasses, Next
<1> QED
  BY <1>1, <1>2, <1>3, <1>4 DEF GameNext, PlayProcess

\* A game runs the engine as the engine is specified, so that what is proved of the
\* engine holds in every game.
THEOREM GameIsEngine == GameSpec => Init /\ [][Next]_vars
<1>1. GameInit => Init
  BY DEF GameInit
<1> QED
  BY <1>1, GameStepOfEngine, PTL DEF GameSpec

\* Nobody in a game has a second turn before everybody had one.
THEOREM GameLapsFair == GameSpec => LapsAreFair
BY GameIsEngine, LapsFairWithoutTime, PTL

-----------------------------------------------------------------------------
(* Why a game ends: the part of the argument that is not about fairness. *)

\* The timeouts that may still go by before the dealer draws.
TurnsLeft ==
  IF IsGameEnded THEN 0
  ELSE IF curRound = Betting THEN Size + 1 ELSE Size + 1 - curPlayer

\* No step of a game in play makes it longer, and every tick after a timeout makes
\* it shorter.
TimeoutsRunOut ==
  [][stage = "Play" /\ stage' = "Play" =>
       /\ TurnsLeft' <= TurnsLeft
       /\ PlayProcess /\ late => TurnsLeft' < TurnsLeft]_gameVars

\* After a timeout Loop always moves on: neither of the two rounds is a global last one.
LEMMA LateMovesOn == ASSUME IInv, Loop, late PROVE MovedOn
<1> USE TwoRounds DEF MovedOn
<1>1. /\ curRound \in 1 .. 2
      /\ curRound = 1 => HasNextRound
      /\ curRound = 2 => ~ IsGlob
  BY DEF IInv, TypeOK, IsGlob, HasNextRound
<1>2. ASSUME LoopStays PROVE FALSE
  <2>1. IsGlob /\ ~ HasNextRound
    BY <1>2 DEF LoopStays
  <2>2. curRound = 1 \/ curRound = 2
    BY <1>1
  <2> QED
    BY <1>1, <2>1, <2>2
<1> QED
  BY <1>2 DEF Loop, LoopNextPhase, LoopNextRound, LoopNextPlayer

\* The number of timeouts that are left is a natural number.
LEMMA TurnsLeftTyped ==
  ASSUME GInv
  PROVE  TurnsLeft \in Nat /\ (~ IsGameEnded => TurnsLeft > 0)
<1>1. curPlayer \in 1 .. Size /\ Size \in Nat
  BY TwoRounds DEF GInv, IInv, TypeOK, Player
<1> QED
  BY <1>1 DEF TurnsLeft

\* What a tick does to the turns that are left.
LEMMA TurnbaseShortens ==
  ASSUME GInv, Turnbase, stage = "Play", stage' = "Play"
  PROVE  TurnsLeft' <= TurnsLeft /\ (late => TurnsLeft' < TurnsLeft)
<1>0. curPlayer \in 1 .. Size /\ Size \in Nat /\ GInv' /\ IInv /\ Betting # Playing
  BY TwoRounds, StepGInv DEF GInv, IInv, TypeOK, Player, GameNext, PlayProcess, Betting, Playing
<1>1. Ticks /\ ~ IsGameEnded /\ Loop
  BY DEF Turnbase, BetTick, TurnsOpen, TurnTick, DealerDraws, GameFinishes, CalcPanics,
         DealerShan, Ticks
<1>2. late => IsNewPhase
  BY <1>0, <1>1, LateMovesOn, GameLoop
<1>3. CASE BetTick
  <2>1. curRound' = Betting /\ curRound = Betting /\ ~ IsGameEnded'
    BY <1>1, <1>3, TickMoves DEF BetTick, IsGameEnded
  <2>2. ~ late
    BY <1>0, <1>1, <2>1, GameLoop, LateMovesOn
  <2> QED
    BY <1>0, <1>1, <2>1, <2>2 DEF TurnsLeft
<1>4. CASE TurnsOpen
  <2>1. curRound' = Playing /\ curRound = Betting /\ curPlayer' = 1 /\ ~ IsGameEnded'
    BY <1>1, <1>4, TickMoves DEF TurnsOpen, IsGameEnded
  <2> QED
    BY <1>0, <1>1, <2>1 DEF TurnsLeft
<1>5. CASE TurnTick
  <2>1. /\ curRound' = Playing /\ curRound = Playing /\ ~ IsGameEnded'
        /\ IsNewPhase => IsNewTurn /\ curPlayer' = NextPlayer
        /\ ~ IsNewPhase => curPlayer' = curPlayer
    BY <1>1, <1>5, TickMoves DEF TurnTick, IsGameEnded
  <2>2. hasVisited /\ visited = 1 .. curPlayer
    BY <1>1, <2>1 DEF GInv, TurnsInOrder
  <2>3. IsNewPhase => curPlayer # Size
    BY <1>5, <2>1, <2>2 DEF TurnTick, LastRound, IsAllVisited, Player
  <2>4. IsNewPhase => curPlayer' = curPlayer + 1
    BY <1>0, <2>1, <2>3 DEF NextPlayer
  <2> QED
    BY <1>0, <1>1, <1>2, <2>1, <2>4 DEF TurnsLeft
<1>6. CASE DealerDraws \/ CalcPanics
  BY <1>6 DEF DealerDraws, notifyDealCard, CalcPanics
<1>7. ASSUME NEW isWin \in [Player -> -1 .. 1], NEW rate \in [Player -> Rates],
             NEW dealerRate \in Rates, GameFinishes(isWin, rate, dealerRate)
      PROVE  TurnsLeft' < TurnsLeft
  <2>1. IsGameEnded'
    BY <1>7, GameFinishesStep
  <2>2. TurnsLeft' = 0
    BY <2>1 DEF TurnsLeft
  <2> QED
    BY <1>1, <2>2, TurnsLeftTyped
<1>8. TurnsLeft \in Nat /\ TurnsLeft' \in Nat
  <2>1. TurnsLeft' \in Nat
    <3>1. curPlayer' \in 1 .. Size
      BY <1>0, TwoRounds DEF GInv, IInv, TypeOK, Player
    <3>2. \A n \in Nat : \A c \in 1 .. n : n + 1 \in Nat /\ n + 1 - c \in Nat
      OBVIOUS
    <3>3. Size + 1 \in Nat /\ Size + 1 - curPlayer' \in Nat
      BY <1>0, <3>1, <3>2
    <3> QED
      BY <3>3 DEF TurnsLeft
  <2> QED
    BY <2>1, TurnsLeftTyped
<1> QED
  BY <1>3, <1>4, <1>5, <1>6, <1>7, <1>8 DEF Turnbase

\* The timeouts of a game in play run out, with any number of players: what remains
\* of GameEnds is the fairness of ticks and of time.
THEOREM TimeoutsEnd == GameSpec => TimeoutsRunOut
<1> DEFINE A == stage = "Play" /\ stage' = "Play" =>
                  /\ TurnsLeft' <= TurnsLeft
                  /\ PlayProcess /\ late => TurnsLeft' < TurnsLeft
<1>1. GInv /\ [GameNext]_gameVars => [A]_gameVars
  <2> SUFFICES ASSUME GInv, GameNext, stage = "Play", stage' = "Play" PROVE A
    BY DEF A
  <2>1. CASE Turnbase
    BY <2>1, TurnbaseShortens
  <2>2. ASSUME WalletsUnread \/ \E parsed \in ParsedWallets : FinishGame(parsed) PROVE FALSE
    BY <2>2 DEF WalletsUnread, FinishGame
  <2>3. CASE ~ Turnbase
    <3>1. ~ PlayProcess
      BY <2>2, <2>3 DEF PlayProcess
    <3>2. \/ \E p \in Player, chips \in BetChips : Bet(p, chips)
          \/ TurnTimePasses
      BY <3>1 DEF GameNext, ProcessNewGame, notifyInitialDealCard, SetTable, StrangerBets, RewardOver
    <3>3. UNCHANGED <<curRound, curPlayer, updateFinish>>
      BY <3>2 DEF Bet, TurnTimePasses, TimePasses, engine, vars
    <3>4. TurnsLeft' = TurnsLeft
      BY <3>3 DEF TurnsLeft, IsGameEnded
    <3> QED
      BY <3>1, <3>4, TurnsLeftTyped
  <2> QED
    BY <2>1, <2>3
<1>2. GameSpec => [][A]_gameVars
  BY InitGInv, StepGInv, <1>1, PTL DEF GameSpec
<1> QED
  BY <1>2 DEF TimeoutsRunOut

-----------------------------------------------------------------------------
(* What the results of CalcGameFinish are worth. *)

\* Wins and losses are counted with a percentage that was divided by a hundred as an
\* integer (match_state.go:430): only who ties with the dealer gets anything.
OnlyTiesPay ==
  IsGameEnded =>
    \A p \in Player :
      updateFinish[p].total = IF updateFinish[p].isWin = 0 THEN updateFinish[p].bet ELSE 0

\* The total of a result by its verdict.
LEMMA TotalByVerdict ==
  ASSUME GameTypeOK, NEW p \in Player, NEW v \in -1 .. 1,
         NEW rate \in Rates, NEW dealerRate \in Rates
  PROVE  Total(p, v, rate, dealerRate) = IF v = 0 THEN userBets[p] ELSE 0
<1>1. Percent[p] \in 0 .. 20 /\ Percent[0] \in 0 .. 20
  BY GameAssumption, TwoRounds DEF Player
<1>2. Percent[p] \div 100 = 0 /\ Percent[0] \div 100 = 0
  BY <1>1
<1>3. userBets[p] \in Nat /\ rate \in Nat /\ dealerRate \in Nat
  BY GameAssumption DEF GameTypeOK
<1>4. userBets[p] * rate \in Int /\ -userBets[p] * dealerRate \in Int
  BY <1>3
<1>5. \A x \in Int : 0 * x = 0
  OBVIOUS
<1>6. CASE v > 0
  <2>1. Total(p, v, rate, dealerRate) = (Percent[p] \div 100) * (userBets[p] * rate)
    BY <1>6 DEF Total
  <2> QED
    BY <1>2, <1>4, <1>5, <1>6, <2>1
<1>7. CASE v < 0
  <2>1. Total(p, v, rate, dealerRate) = (Percent[0] \div 100) * (-userBets[p] * dealerRate)
    BY <1>7 DEF Total
  <2> QED
    BY <1>2, <1>4, <1>5, <1>7, <2>1
<1>8. CASE v = 0
  BY <1>3, <1>8 DEF Total
<1> QED
  BY <1>6, <1>7, <1>8

\* Every win and every loss of a game is zero chips, with any fees and rates: the
\* general form of what run reward shows.
THEOREM WinsAreWorthless == GameSpec => []OnlyTiesPay
<1>1. GameInit => OnlyTiesPay
  BY DEF GameInit, OnlyTiesPay, IsGameEnded
<1>2. GInv /\ OnlyTiesPay /\ [GameNext]_gameVars => OnlyTiesPay'
  <2> SUFFICES ASSUME GInv, OnlyTiesPay, [GameNext]_gameVars PROVE OnlyTiesPay'
    OBVIOUS
  <2>1. ASSUME NEW isWin \in [Player -> -1 .. 1], NEW rate \in [Player -> Rates],
               NEW dealerRate \in Rates, GameFinishes(isWin, rate, dealerRate)
        PROVE  OnlyTiesPay'
    <3>1. updateFinish' = [p \in Player |->
            [bet |-> userBets[p], isWin |-> isWin[p],
             total |-> Total(p, isWin[p], rate[p], dealerRate)]]
      BY <2>1 DEF GameFinishes
    <3>2. \A p \in Player :
            Total(p, isWin[p], rate[p], dealerRate) = IF isWin[p] = 0 THEN userBets[p] ELSE 0
      BY TotalByVerdict DEF GInv
    <3> QED
      BY <3>1, <3>2 DEF OnlyTiesPay
  <2>2. ASSUME updateFinish' = NoResult PROVE OnlyTiesPay'
    BY <2>2 DEF OnlyTiesPay, IsGameEnded
  <2>3. ASSUME UNCHANGED updateFinish PROVE OnlyTiesPay'
    BY <2>3 DEF OnlyTiesPay, IsGameEnded
  <2>4. \/ updateFinish' = NoResult
        \/ UNCHANGED updateFinish
        \/ \E isWin \in [Player -> -1 .. 1], rate \in [Player -> Rates], dealerRate \in Rates :
             GameFinishes(isWin, rate, dealerRate)
    BY DEF GameNext, PlayProcess, Turnbase, ProcessNewGame, MatchStateInit, SetTable, BetTick,
           TurnsOpen, TurnTick, DealerDraws, CalcPanics, FinishGame, WalletsUnread, Bet,
           StrangerBets, RewardOver, TurnTimePasses, gameVars
  <2> QED
    BY <2>1, <2>2, <2>3, <2>4
<1> QED
  BY InitGInv, StepGInv, <1>1, <1>2, PTL DEF GameSpec
=============================================================================
