------------------------------- MODULE ShanGame -------------------------------
(***************************************************************************)
(* A game as the Processor runs it (usecase/processor/processor.go): the   *)
(* ticks of ProcessTurnbase on the turn engine, the bets of the players,   *)
(* and ProcessFinishGame, which pays into the wallets the host keeps.      *)
(*                                                                         *)
(* As shipped, no table gets that far: ProcessNewGame panics in every game *)
(* because it clears the bets before it looks for who has bet, and because *)
(* GetDealerHand reports a hand without cards.  The methods behind it are  *)
(* modelled for a table that their caller has set up with the exported     *)
(* operations of MatchState and Config of the engine, the way              *)
(* ProcessNewGame is written to leave it; SetTable is that caller.         *)
(*                                                                         *)
(* The players of the engine, who hold a hand and have bet, are numbered   *)
(* from 1.  Cards are abstracted to what the steps ask of them: does the   *)
(* dealer hold SHAN, who beats the dealer, and at what rate.               *)
(***************************************************************************)
EXTENDS TurnBaseEngine

CONSTANTS
  Chips,          \* the wallets at the start
  StartBets,      \* bets with which a table may be set up
  BetChips,       \* what a bet message may carry
  MinBetAllowed,  \* 10000
  Percent,        \* GetTiLeTienHo_User of each player, and 5 for the server
  Rates,          \* what GetTiLeThangThuaPlayer may return
  Limit           \* bound: on bets and, for a new table, on wallets

ASSUME GameAssumption ==
  /\ Rounds = << [isGlob |-> TRUE, phases |-> 1], [isGlob |-> FALSE, phases |-> 1] >>
  /\ Chips \in [1 .. Size -> Nat]
  /\ StartBets \subseteq Nat \ {0}
  /\ BetChips \subseteq Int
  /\ MinBetAllowed \in Nat
  /\ Percent \in [0 .. Size -> 0 .. 20]
  /\ Rates \subseteq Nat \ {0}
  /\ Limit \in Nat

VARIABLES
  stage,        \* "Wait" (no game), "Play", "Reward" or "Panicked"
  allowBet,
  hasVisited,   \* visited # nil
  visited,      \* the players whose entry in visited is true
  currentTurn,  \* 0 for ""
  userBets,     \* 0 for no entry
  updateFinish, \* a result for each player, or NoResult for nil
  wallet        \* the wallets of the players, kept by the host (external)

engine == vars
money  == <<userBets, wallet>>
turn   == <<hasVisited, visited, currentTurn>>
gameVars == <<engine, stage, allowBet, turn, updateFinish, money>>

Betting == 1  \* the round "bet"
Playing == 2  \* the round "playing"

NoResult  == << >>
BetResult == [bet : Nat, isWin : -1 .. 1, total : Nat]

IsGameEnded == updateFinish # NoResult

GameTypeOK ==
  /\ TypeOK
  /\ stage \in {"Wait", "Play", "Reward", "Panicked"}
  /\ {allowBet, hasVisited} \subseteq BOOLEAN
  /\ visited \subseteq Player
  /\ currentTurn \in 0 .. Size
  /\ userBets \in [Player -> Nat]
  /\ updateFinish \in [Player -> BetResult] \cup {NoResult}
  /\ wallet \in [Player -> Nat]

GameInit ==
  /\ Init
  /\ stage = "Wait"
  /\ allowBet = FALSE
  /\ hasVisited = FALSE
  /\ visited = {}
  /\ currentTurn = 0
  /\ userBets = [p \in Player |-> 0]
  /\ updateFinish = NoResult
  /\ wallet = Chips

-----------------------------------------------------------------------------
\* MatchState.Init, called by NewGame; visited and allowBet are kept.
MatchStateInit(bets) ==
  /\ userBets' = bets
  /\ updateFinish' = NoResult
  /\ currentTurn' = 0
  /\ UNCHANGED <<allowBet, hasVisited, visited>>

\* Both notifications take a card of the dealer's hand as ToPb reports it, and
\* ToPb reports no cards.
notifyInitialDealCard == stage' = "Panicked"
notifyDealCard        == stage' = "Panicked"

\* NewGame leaves no bets, so that only the dealer gets cards.
ProcessNewGame ==
  /\ stage = "Wait"
  /\ MatchStateInit([p \in Player |-> 0])
  /\ notifyInitialDealCard
  /\ UNCHANGED <<engine, wallet>>

\* What ProcessNewGame is written to do: Init, bets and cards of the players, and
\* the engine in its first round with the first player of the list.
SetTable(bets) ==
  /\ stage = "Wait"
  /\ \A p \in Player : wallet[p] <= Limit
  /\ userBets' = bets
  /\ updateFinish' = NoResult
  /\ currentTurn' = 0
  /\ Config(1)
  /\ stage' = "Play"
  /\ UNCHANGED <<allowBet, wallet>>
  /\ \/ UNCHANGED <<hasVisited, visited>>
     \/ hasVisited' = TRUE /\ visited' = {}   \* InitVisited

-----------------------------------------------------------------------------
(***************************************************************************)
(* ProcessTurnbase: one call of Loop, then what its TurnInfo says.         *)
(***************************************************************************)
IsNewRound == info'.isNew.round
IsNewTurn  == info'.isNew.turn
IsNewPhase == info'.isNew.phase

Ticks == stage = "Play" /\ ~ IsGameEnded /\ Loop

AnnounceBefore(known, v) ==  \* mutant: takes the player before Loop moved on
  IF ~ IsNewPhase
  THEN UNCHANGED <<currentTurn, stage>> /\ hasVisited' = known /\ visited' = v
  ELSE IF ~ known THEN stage' = "Panicked" /\ UNCHANGED turn
  ELSE /\ hasVisited' = TRUE
       /\ visited' = v \cup {curPlayer}
       /\ currentTurn' = curPlayer
       /\ UNCHANGED stage

\* SetVisited and SetCurrentTurn for a new phase, on the map v; SetVisited
\* panics when there is no map.
Announce(known, v) ==
  IF ~ IsNewPhase
  THEN UNCHANGED <<currentTurn, stage>> /\ hasVisited' = known /\ visited' = v
  ELSE IF ~ known THEN stage' = "Panicked" /\ UNCHANGED turn
  ELSE /\ hasVisited' = TRUE
       /\ visited' = v \cup {curPlayer'}
       /\ currentTurn' = curPlayer'
       /\ UNCHANGED stage

\* A tick of the betting round; its first one opens the bets.
BetTick ==
  /\ Ticks
  /\ curRound' = Betting
  /\ allowBet' = (allowBet \/ IsNewRound)
  /\ Announce(hasVisited, visited)
  /\ UNCHANGED <<updateFinish, money>>

BetsStayOpen == UNCHANGED allowBet  \* mutant: the bets are not closed
CloseBets    == allowBet' = FALSE

\* The round of turns begins: InitVisited, no more bets, and the first turn.
TurnsOpen ==
  /\ Ticks
  /\ curRound' = Playing
  /\ IsNewRound
  /\ CloseBets
  /\ Announce(TRUE, {})
  /\ UNCHANGED <<updateFinish, money>>

IsAllVisited == hasVisited /\ visited = Player
LastRound    == IsNewTurn /\ IsAllVisited

TurnTick ==
  /\ Ticks
  /\ curRound' = Playing
  /\ ~ IsNewRound
  /\ ~ LastRound
  /\ Announce(hasVisited, visited)
  /\ UNCHANGED <<allowBet, updateFinish, money>>

\* Everybody had a turn.  The dealer stands on 17 or more, a hand has 9 points at
\* most (ShanHand): the dealer always draws.
DealerDraws ==
  /\ Ticks
  /\ curRound' = Playing
  /\ ~ IsNewRound
  /\ LastRound
  /\ notifyDealCard
  /\ UNCHANGED <<allowBet, turn, updateFinish, money>>

-----------------------------------------------------------------------------
(***************************************************************************)
(* CalcGameFinish, when the round of turns would begin and the dealer has  *)
(* SHAN.  The return leaves allowBet as it is.  Two SHAN hands never tie   *)
(* (ShanHand), but a tie is the only result that pays, so that results of  *)
(* any kind are taken.                                                     *)
(***************************************************************************)
DealerShan == Ticks /\ curRound' = Playing /\ IsNewRound

RoundedLast(p, isWin, rate, dealerRate) ==  \* mutant: divides after it multiplied
  CASE isWin > 0 -> (Percent[p] * userBets[p] * rate) \div 100
    [] isWin < 0 -> (Percent[0] * (-100) * userBets[p] * dealerRate) \div 100
    [] OTHER     -> userBets[p]

\* getPlayerBetResult: the percentages are divided as integers.
Total(p, isWin, rate, dealerRate) ==
  CASE isWin > 0 -> (Percent[p] \div 100) * (userBets[p] * rate)
    [] isWin < 0 -> (Percent[0] \div 100) * (-userBets[p] * dealerRate)
    [] OTHER     -> userBets[p]

GameFinishes(isWin, rate, dealerRate) ==
  /\ DealerShan
  /\ updateFinish' = [p \in Player |->
       [bet |-> userBets[p], isWin |-> isWin[p],
        total |-> Total(p, isWin[p], rate[p], dealerRate)]]
  /\ UNCHANGED <<stage, allowBet, turn, money>>

\* GetTiLeTienHo_User divides by the chips of the player's presence; they are 0
\* when the profile could not be read at the join.
CalcPanics ==
  /\ DealerShan
  /\ stage' = "Panicked"
  /\ UNCHANGED <<allowBet, turn, updateFinish, money>>

Turnbase ==
  \/ BetTick
  \/ TurnsOpen
  \/ TurnTick
  \/ DealerDraws
  \/ \E isWin \in [Player -> -1 .. 1], rate \in [Player -> Rates], dealerRate \in Rates :
       GameFinishes(isWin, rate, dealerRate)
  \/ CalcPanics

-----------------------------------------------------------------------------
\* The host applies all changes of a WalletsUpdate or none, and none when a
\* wallet would become negative (external); an error is only logged.
WalletsUpdate(change) ==
  \/ UNCHANGED wallet
  \/ /\ \A p \in Player : wallet[p] + change[p] >= 0
     /\ wallet' = [p \in Player |-> wallet[p] + change[p]]

\* Beyond ten times the least bet the balance is not looked at.
IsCanBet(p, chips) ==
  chips + userBets[p] > 10 * MinBetAllowed \/ wallet[p] >= chips

\* A bet message: the bet grows by the whole wallet, the wallet shrinks by the
\* chips of the message.
Bet(p, chips) ==
  /\ stage # "Panicked"
  /\ allowBet
  /\ userBets[p] # 0
  /\ IsCanBet(p, chips)
  /\ userBets[p] + wallet[p] <= Limit
  /\ userBets' = [userBets EXCEPT ![p] = @ + wallet[p]]
  /\ WalletsUpdate([q \in Player |-> IF q = p THEN -chips ELSE 0])
  /\ UNCHANGED <<engine, stage, allowBet, turn, updateFinish>>

\* IsCanBet dereferences the missing bet of a user who came after the deal.
StrangerBets ==
  /\ stage # "Panicked"
  /\ allowBet
  /\ stage' = "Panicked"
  /\ UNCHANGED <<engine, allowBet, turn, updateFinish, money>>

\* Messages that declare cards change nothing: STAY ends no phase, because the
\* round has only one, and HIT needs allowAction, which nothing sets.

-----------------------------------------------------------------------------
(***************************************************************************)
(* ProcessFinishGame, in the tick that finds the game ended.               *)
(***************************************************************************)
\* ReadWalletUsers stops at the first wallet it cannot parse and reports no error;
\* the players before it, in the order of the host, are the parsed ones.
ParsedWallets == SUBSET Player

Fee(p, total) == (Percent[p] * total) \div 100

AmountChipBefore(p, parsed) == IF p \in parsed THEN wallet[p] ELSE 0

AmountChipAdd(p) == updateFinish[p].total

AmountChipCurrent(p, parsed) ==
  IF AmountChipAdd(p) > 0
  THEN AmountChipBefore(p, parsed) + AmountChipAdd(p) - Fee(p, AmountChipAdd(p))
  ELSE AmountChipBefore(p, parsed)

SetBalance(p, parsed) ==  \* mutant: the change is taken from the wallet as it is now
  AmountChipCurrent(p, parsed) - wallet[p]
AmountChip(p, parsed) == AmountChipCurrent(p, parsed) - AmountChipBefore(p, parsed)

FinishGame(parsed) ==
  /\ stage = "Play"
  /\ IsGameEnded
  /\ stage' = "Reward"
  /\ WalletsUpdate([p \in Player |-> AmountChip(p, parsed)])
  /\ UNCHANGED <<engine, allowBet, turn, updateFinish, userBets>>

\* The wallets cannot be read at all: a nil result is dereferenced.
WalletsUnread ==
  /\ stage = "Play"
  /\ IsGameEnded
  /\ stage' = "Panicked"
  /\ UNCHANGED <<engine, allowBet, turn, updateFinish, money>>

RewardOver ==
  /\ stage = "Reward"
  /\ stage' = "Wait"
  /\ UNCHANGED <<engine, allowBet, turn, updateFinish, money>>

TurnTimePasses == TimePasses /\ UNCHANGED <<stage, allowBet, turn, updateFinish, money>>

PlayProcess == Turnbase \/ (\E parsed \in ParsedWallets : FinishGame(parsed)) \/ WalletsUnread

GameNext ==
  \/ ProcessNewGame
  \/ \E bets \in [Player -> StartBets] : SetTable(bets)
  \/ PlayProcess
  \/ \E p \in Player, chips \in BetChips : Bet(p, chips)
  \/ StrangerBets
  \/ RewardOver
  \/ TurnTimePasses

\* The tick loop and time go on.
GameFairness == WF_gameVars(PlayProcess) /\ WF_gameVars(TurnTimePasses)

GameSpec == GameInit /\ [][GameNext]_gameVars /\ GameFairness

-----------------------------------------------------------------------------
\* Messages are taken from the player whose turn the engine last reported, and
\* from nobody else: MatchState and the engine keep the turn separately.
TurnIsCurrent == stage = "Play" /\ ~ IsGameEnded => currentTurn = info.player

\* The game keeps what GameOfTurns promises: one turn for everybody, the last
\* round only after that, and no bet moves between the first turn and the end.
PartOfGame ==
  IF stage # "Play" \/ IsGameEnded THEN "closed"
  ELSE IF info.round = Playing THEN "turns" ELSE "betting"

HadTurn == IF PartOfGame = "turns" THEN visited ELSE {}

Turns == INSTANCE GameOfTurns WITH
           part <- PartOfGame, had <- HadTurn, bets <- userBets

TurnsSpec == Turns!Spec

\* The settlement pays each player the total of the result less the fee, or
\* nobody anything: wallets that could not be parsed, and count as empty, neither
\* lose what they hold nor gain it twice.
Payout(p) == updateFinish[p].total - Fee(p, updateFinish[p].total)

SettlementIsExact ==
  [][stage = "Play" /\ stage' = "Reward" =>
       \/ wallet' = wallet
       \/ \A p \in Player : wallet'[p] = wallet[p] + Payout(p)]_gameVars

\* A game ends, if only by a panic, although no player ever answers.
GameEnds == stage = "Play" ~> stage # "Play"

-----------------------------------------------------------------------------
\* match_state.go:422-424: the money of a win is the win times the rate, less a
\* fee of 5 percent.  Rates are at least 1, so it is never less than the bet less
\* the fee.  (The percentage is divided by 100 as an integer: every win is 0.)
WinnersArePaid ==
  IsGameEnded =>
    \A p \in Player : updateFinish[p].isWin > 0 =>
      updateFinish[p].total >= updateFinish[p].bet - (5 * updateFinish[p].bet) \div 100
=============================================================================
