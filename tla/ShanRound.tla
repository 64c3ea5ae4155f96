----------------------------- MODULE ShanRound -------------------------------
(***************************************************************************)
(* The rounds of a table in MatchState (entity/match_state.go): players    *)
(* are taken in, bet, are dealt cards, draw, are paid, and leave.  The     *)
(* operations are driven in the order of the loop of                       *)
(* TestMatchState_MatchLoop (entity/match_state_test.go), the only caller  *)
(* that plays whole rounds with them.                                      *)
(*                                                                         *)
(* The dealer is the server: SetInfoForDealer makes a player the dealer    *)
(* only when playerIsDealer is set already, and nothing else sets it.  The *)
(* cards of a hand are left to ShanHand; a round needs to know of a hand   *)
(* only its verdict against the dealer and its rate.  moneyOfServer, which *)
(* is only ever written, is left out.                                      *)
(***************************************************************************)
EXTENDS Integers, FiniteSets, Functions

CONSTANTS
  User,          \* the ids of the players
  Server,        \* the id of the dealer, "" in the code
  Wallet,        \* the chips that each player brings
  Vip,           \* their VIP levels
  MinBetAllowed, \* 10000
  TableBet,      \* Label.Bet, the bet of the dealer
  Percents,      \* what RandDomPercentBet may return
  Rates,         \* what GetTiLeThangThuaPlayer may return
  MaxCard        \* the cards in a deck (52)

\* At most MaxPresences (7) players have a seat, so the size test of
\* AddPresence_ToPlayingPrecense_InMatch (<= 7) refuses nobody, and a deck of 52
\* holds 5 * 7 + 5 cards.
ASSUME RoundAssumption ==
  /\ IsFiniteSet(User)
  /\ Server \notin User
  /\ Wallet \in [User -> Nat]
  /\ Vip \in [User -> Nat]
  /\ MinBetAllowed \in Nat \ {0}
  /\ TableBet \in Nat
  /\ Percents \subseteq 1 .. 99
  /\ Rates \subseteq Nat
  /\ MaxCard \in Nat
  /\ 5 * Cardinality(User) + 5 <= MaxCard

VARIABLES
  stage,      \* where the loop of the round is
  presences,  \* Presences: the chips of the seated players
  playing,    \* PlayingPresences: the chips of those who play
  userBets,   \* userBets: the bets of players and dealer
  userHands,  \* keys of userHands: the players who hold cards
  leaving,    \* keys of LeavePresences
  dealt       \* deck.Dealt

vars  == <<stage, presences, playing, userBets, userHands, leaving, dealt>>

Stage == {"Start", "Bet", "Deal", "Draw", "Settle", "Finish", "Stopped"}

TypeOK ==
  /\ stage \in Stage
  /\ DOMAIN presences \subseteq User /\ presences \in [DOMAIN presences -> Nat]
  /\ DOMAIN playing \subseteq User /\ playing \in [DOMAIN playing -> Int]
  /\ DOMAIN userBets \subseteq User \cup {Server} /\ userBets \in [DOMAIN userBets -> Nat]
  /\ userHands \subseteq User
  /\ leaving \subseteq User
  /\ dealt \in Nat

NoBody == [u \in {} |-> 0]

Without(f, D) == Restrict(f, DOMAIN f \ D)

Init ==
  /\ stage = "Start"
  /\ presences = Wallet
  /\ playing = NoBody
  /\ userBets = NoBody
  /\ userHands = {}
  /\ leaving = {}
  /\ dealt = 0

-----------------------------------------------------------------------------
\* RegisterDealer leaves the server the dealer; Init forgets bets and hands; then
\* AddPresence_ToPlayingPrecense_InMatch copies the players who have ten times
\* the least bet, over those who still play.
StartRound ==
  /\ stage = "Start"
  /\ DOMAIN presences # {}
  /\ LET fit == {u \in DOMAIN presences : presences[u] >= 10 * MinBetAllowed}
     IN  playing' = [u \in DOMAIN playing \cup fit |->
                       IF u \in fit THEN presences[u] ELSE playing[u]]
  /\ userBets' = NoBody
  /\ userHands' = {}
  /\ stage' = "Bet"
  /\ UNCHANGED <<presences, leaving, dealt>>

PartAbove(chips, percent) == (chips * (100 + percent)) \div 100  \* mutant: sign
\* A bet, and the part of it that is taken back again.
Part(chips, percent) == (chips * (100 - percent)) \div 100

\* SetAddBet_forPlayerAndDealer and SetSubstractBet_forPlayerAndDealer: a bet is
\* a share of the chips in Presences, reduced by a share of itself.  The chips in
\* PlayingPresences do not change, because GetInfoPlayingPreseceByUserId returns
\* a copy; nor does the bet of the dealer.
PlaceBets(add, subtract) ==
  /\ stage = "Bet"
  /\ userBets' = [u \in DOMAIN playing \cup {Server} |->
                    IF u = Server THEN TableBet
                    ELSE LET bet == Part(presences[u], add[u])
                         IN  bet - Part(bet, subtract[u])]
  /\ stage' = "Deal"
  /\ UNCHANGED <<presences, playing, userHands, leaving, dealt>>

NeverNew == dealt  \* mutant: the deck is not replaced
\* The loop replaces the deck before it is too short for the players.
DealtAtStart ==
  IF 1 + 3 * Cardinality(DOMAIN playing) < dealt THEN 0 ELSE dealt

KeepPlayers(low) == playing  \* mutant: only the bets are removed
PlayersLeft(low) == Without(playing, low)

LowBets == {u \in DOMAIN userBets : userBets[u] < MinBetAllowed}

\* DeletedPlayerNotFitBet removes bets below the least one and their players,
\* PrintInfoOfBetInMatch ends the program when no bet is left, and otherwise
\* ChiaBaiChoPlayerTuongUng deals two cards for every bet.
DealCards ==
  /\ stage = "Deal"
  /\ LET low  == LowBets
         kept == DOMAIN userBets \ low
     IN  /\ userBets' = Without(userBets, low)
         /\ IF kept = {}
            THEN /\ stage' = "Stopped"
                 /\ dealt' = DealtAtStart
                 /\ UNCHANGED <<playing, userHands>>
            ELSE /\ stage' = "Draw"
                 /\ playing' = PlayersLeft(low)
                 /\ userHands' = kept \ {Server}
                 /\ dealt' = DealtAtStart + 2 * Cardinality(kept)
  /\ UNCHANGED <<presences, leaving>>

\* Players leave during the round; unless the dealer has SHAN, the first two who
\* play ask for a card, which leaves the deck whether or not it reaches a hand.
DrawCards(L, dealerShan) ==
  /\ stage = "Draw"
  /\ leaving' = leaving \cup L
  /\ stage' = IF userHands = {} THEN "Stopped" ELSE "Settle"
  /\ dealt' = IF userHands = {} \/ dealerShan THEN dealt
              ELSE LET n == Cardinality(DOMAIN playing)
                   IN  dealt + (IF n <= 2 THEN n ELSE 2)
  /\ UNCHANGED <<presences, playing, userBets, userHands>>

-----------------------------------------------------------------------------
(* CalMoney_whoWin: the server as dealer pays and is paid. *)

BetOf(id) == IF id \in DOMAIN userBets THEN userBets[id] ELSE 0

\* GetTiLeTienHo_User: the percentage of a win that is kept.  The share of the
\* bet is divided by a hundred once too often and is 0 for every bet; the banks
\* of the model are below its upper limits.
GetTiLeTienHo_User(u) ==
  CASE Vip[u] = 0  -> 5
    [] Vip[u] = 1  -> 8
    [] Vip[u] \in 2 .. 10 -> 6
    [] Vip[u] > 10 -> 0

\* GetMoneyWinOfPlayer
Winnings(u, rate) ==
  LET win == BetOf(u) * rate
  IN  win - (GetTiLeTienHo_User(u) * win) \div 100

FullLoss(u, dealerRate) == BetOf(Server) * dealerRate  \* mutant: whatever the player has
\* CalMoneyFor_dealerWin: the loser pays the dealer's bet times the dealer's
\* rate, or the own bet when the chips do not suffice for that.
Loss(u, dealerRate) ==
  LET owed == BetOf(Server) * dealerRate
  IN  IF playing[u] >= owed THEN owed ELSE BetOf(u)

\* Every hand is compared with the dealer's; the verdict and the rate of a hand
\* are those of its cards.
Settle(verdict, rate, dealerRate) ==
  /\ stage = "Settle"
  /\ playing' = [u \in DOMAIN playing |->
       CASE u \in userHands /\ verdict[u] = 1  -> playing[u] + Winnings(u, rate[u])
         [] u \in userHands /\ verdict[u] = -1 -> playing[u] - Loss(u, dealerRate)
         [] OTHER -> playing[u]]
  /\ stage' = "Finish"
  /\ UNCHANGED <<presences, userBets, userHands, leaving, dealt>>

LeaversStay(gone) == playing  \* mutant: leavers keep playing
StillPlaying(gone) == Without(playing, gone)

Poor == {u \in DOMAIN playing : presences[u] < MinBetAllowed}

\* getResultEndGame: those whose chips in Presences are below the least bet go,
\* then those who left.  (A leaver gets the bet back in Presences, and is then
\* removed from Presences.)
Finish ==
  /\ stage = "Finish"
  /\ LET gone == Poor \cup leaving
     IN  /\ userHands' = userHands \ gone
         /\ userBets' = Without(userBets, gone)
         /\ playing' = StillPlaying(gone)
         /\ presences' = Without(presences, gone)
  /\ stage' = "Start"
  /\ UNCHANGED <<leaving, dealt>>

Next ==
  \/ StartRound
  \/ \E add, subtract \in [DOMAIN playing -> Percents] : PlaceBets(add, subtract)
  \/ DealCards
  \/ \E L \in SUBSET DOMAIN presences, dealerShan \in BOOLEAN : DrawCards(L, dealerShan)
  \/ \E verdict \in [userHands -> -1 .. 1], rate \in [userHands -> Rates], dealerRate \in Rates :
       Settle(verdict, rate, dealerRate)
  \/ Finish

Spec == Init /\ [][Next]_vars

-----------------------------------------------------------------------------
(* Properties. *)

\* Deal never fails: replacing the deck once per round is enough, so that
\* ChiaBaiChoPlayerTuongUng never reads the cards of a failed deal.
DeckSuffices == dealt <= MaxCard

\* While cards are on the table, those who play, those who hold a hand and those
\* who bet are the same.  Otherwise drawing would read a missing hand and settling
\* would end the program (log.Fatal in GetMoneyOfPlayingPrecense).
PlayersHoldHands ==
  stage \in {"Draw", "Settle", "Finish"} =>
    /\ userHands = DOMAIN playing
    /\ userHands = DOMAIN userBets \ {Server}

\* Who plays is seated: getListPlayerNotConditionPlayContinue reads the presence
\* of every playing user without asking whether there is one.
PlayersAreSeated == DOMAIN playing \subseteq DOMAIN presences

\* A lost round never costs more than the chips a player has.
NobodyOwes == \A u \in DOMAIN playing : playing[u] >= 0

\* match_state.go:306-307 and 310: at the end of a round the money of a player is
\* moved from PlayingPresences to Presences.
MoneyComesBack ==
  [][Finish => \A u \in DOMAIN playing' : presences'[u] = playing[u]]_vars
=============================================================================
