--------------------------- MODULE ShanRoundProofs ---------------------------
(***************************************************************************)
(* Proofs about ShanRound for any players, wallets, bets and verdicts: the *)
(* deck suffices, players, hands and bets stay together, nobody owes.      *)
(***************************************************************************)
EXTENDS ShanRound, FiniteSetTheorems, TLAPS

\* Who plays has the chips to play, and the chips of Presences until the round
\* is settled.
PlayersAreRich == \A u \in DOMAIN playing : presences[u] >= 10 * MinBetAllowed
FreshChips ==
  stage \in {"Bet", "Deal", "Draw", "Settle"} =>
    \A u \in DOMAIN playing : playing[u] = presences[u]
BetsArePlaced == stage = "Deal" => DOMAIN userBets = DOMAIN playing \cup {Server}
BetsAreCovered ==
  stage \in {"Deal", "Draw", "Settle"} =>
    \A u \in DOMAIN playing : userBets[u] <= presences[u]
\* After the deal there are still two cards to be drawn.
DeckBound ==
  /\ dealt <= MaxCard
  /\ stage = "Draw" => dealt + 2 <= MaxCard

IInv ==
  /\ TypeOK
  /\ PlayersAreSeated
  /\ PlayersAreRich
  /\ FreshChips
  /\ BetsArePlaced
  /\ BetsAreCovered
  /\ PlayersHoldHands
  /\ NobodyOwes
  /\ DeckBound

-----------------------------------------------------------------------------
(* Arithmetic. *)

\* A product is monotone.
LEMMA TimesBound == \A a, q \in Nat : q <= 100 => a * q \in Nat /\ a * q <= a * 100
OBVIOUS

\* A part of some chips is no more than the chips.
LEMMA PartBound ==
  ASSUME NEW chips \in Nat, NEW percent \in 1 .. 99
  PROVE  Part(chips, percent) \in Nat /\ Part(chips, percent) <= chips
<1> DEFINE x == chips * (100 - percent)
<1>1. x \in Nat /\ x <= chips * 100
  BY TimesBound
<1> HIDE DEF x
<1>2. x \div 100 \in Nat /\ x \div 100 <= chips
  BY <1>1
<1> QED
  BY <1>2 DEF Part, x

\* A fee of a few percent leaves something of what is won.
LEMMA WinningsAreNat ==
  ASSUME TypeOK, NEW u \in User, NEW rate \in Nat PROVE Winnings(u, rate) \in Nat
<1> DEFINE win == BetOf(u) * rate
           fee == GetTiLeTienHo_User(u)
<1>1. BetOf(u) \in Nat
  BY DEF TypeOK, BetOf
<1>2. win \in Nat
  BY <1>1
<1>3. Vip[u] \in Nat
  BY RoundAssumption
<1>4. fee \in {0, 5, 6, 8}
  BY <1>3 DEF GetTiLeTienHo_User
<1> HIDE DEF win, fee
<1>5. win - (fee * win) \div 100 \in Nat
  BY <1>2, <1>4
<1> QED
  BY <1>5 DEF Winnings, win, fee

\* There are at most as many players as users.
LEMMA PlayersBounded ==
  ASSUME NEW P \in SUBSET User
  PROVE  /\ IsFiniteSet(P) /\ Cardinality(P) \in Nat
         /\ 5 * Cardinality(P) + 5 <= MaxCard
<1>1. IsFiniteSet(User) /\ 5 * Cardinality(User) + 5 <= MaxCard /\ MaxCard \in Nat
  BY RoundAssumption
<1>2. IsFiniteSet(P) /\ Cardinality(P) <= Cardinality(User)
  BY <1>1, FS_Subset
<1>3. Cardinality(P) \in Nat /\ Cardinality(User) \in Nat
  BY <1>1, <1>2, FS_CardinalityType
<1> QED
  BY <1>1, <1>2, <1>3

\* Restricting a function.
LEMMA WithoutType ==
  ASSUME NEW T, NEW f, f \in [DOMAIN f -> T], NEW D
  PROVE  /\ DOMAIN Without(f, D) = DOMAIN f \ D
         /\ Without(f, D) \in [DOMAIN f \ D -> T]
         /\ \A u \in DOMAIN f \ D : Without(f, D)[u] = f[u]
BY DEF Without, Restrict

-----------------------------------------------------------------------------
(* The actions. *)

\* Nobody plays at the beginning.
LEMMA InitIInv == Init => IInv
<1> SUFFICES ASSUME Init PROVE IInv
  OBVIOUS
<1>1. /\ presences \in [User -> Nat] /\ DOMAIN presences = User
      /\ DOMAIN playing = {} /\ DOMAIN userBets = {}
      /\ playing \in [{} -> Int] /\ userBets \in [{} -> Nat]
      /\ userHands = {} /\ leaving = {} /\ dealt = 0 /\ stage = "Start"
      /\ MaxCard \in Nat
  BY RoundAssumption DEF Init, NoBody
<1>2. TypeOK
  BY <1>1 DEF TypeOK, Stage
<1> QED
  BY <1>1, <1>2 DEF IInv, PlayersAreSeated, PlayersAreRich, FreshChips, BetsArePlaced,
     BetsAreCovered, PlayersHoldHands, NobodyOwes, DeckBound

\* Everybody who is taken in has ten times the least bet.
LEMMA StartIInv == ASSUME IInv, StartRound PROVE IInv'
<1> DEFINE fit == {u \in DOMAIN presences : presences[u] >= 10 * MinBetAllowed}
<1>0. /\ DOMAIN playing' = DOMAIN playing \cup fit
      /\ \A u \in DOMAIN playing' :
           playing'[u] = IF u \in fit THEN presences[u] ELSE playing[u]
      /\ playing' = [u \in DOMAIN playing \cup fit |->
                       IF u \in fit THEN presences[u] ELSE playing[u]]
      /\ DOMAIN userBets' = {} /\ userBets' \in [{} -> Nat]
      /\ userHands' = {} /\ stage' = "Bet"
      /\ presences' = presences /\ leaving' = leaving /\ dealt' = dealt
  BY DEF StartRound, NoBody
<1>1. /\ DOMAIN presences \subseteq User /\ DOMAIN playing \subseteq DOMAIN presences
      /\ \A u \in DOMAIN presences : presences[u] \in Nat
      /\ \A u \in DOMAIN playing : playing[u] \in Int /\ presences[u] >= 10 * MinBetAllowed
      /\ MinBetAllowed \in Nat \ {0}
  BY RoundAssumption DEF IInv, TypeOK, PlayersAreSeated, PlayersAreRich
<1>2. TypeOK'
  <2>1. playing' \in [DOMAIN playing' -> Int]
    BY <1>0, <1>1
  <2> QED
    BY <1>0, <1>1, <2>1 DEF IInv, TypeOK, Stage
<1>3. \A u \in DOMAIN playing' :
        u \in DOMAIN presences /\ presences[u] >= 10 * MinBetAllowed
  BY <1>0, <1>1
<1>4. \A u \in DOMAIN playing : u \in fit
  BY <1>1
<1>5. \A u \in DOMAIN playing' : playing'[u] = presences[u] /\ playing'[u] >= 0
  BY <1>0, <1>1, <1>4
<1> HIDE DEF fit
<1>6. PlayersAreSeated' /\ PlayersAreRich' /\ FreshChips' /\ NobodyOwes'
  BY <1>0, <1>3, <1>5 DEF PlayersAreSeated, PlayersAreRich, FreshChips, NobodyOwes
<1>7. BetsArePlaced' /\ BetsAreCovered' /\ PlayersHoldHands' /\ DeckBound'
  BY <1>0 DEF IInv, BetsArePlaced, BetsAreCovered, PlayersHoldHands, DeckBound
<1> QED
  BY <1>2, <1>6, <1>7 DEF IInv

\* A bet is a part of the chips.
LEMMA BetsIInv ==
  ASSUME IInv, NEW add \in [DOMAIN playing -> Percents],
         NEW subtract \in [DOMAIN playing -> Percents], PlaceBets(add, subtract)
  PROVE  IInv'
<1> DEFINE bet(u) == Part(presences[u], add[u])
           rest(u) == bet(u) - Part(bet(u), subtract[u])
<1>0. /\ userBets' = [u \in DOMAIN playing \cup {Server} |->
                        IF u = Server THEN TableBet ELSE rest(u)]
      /\ stage = "Bet" /\ stage' = "Deal"
      /\ presences' = presences /\ playing' = playing /\ userHands' = userHands
      /\ leaving' = leaving /\ dealt' = dealt
  BY DEF PlaceBets
<1>1. /\ DOMAIN playing \subseteq User /\ Server \notin User
      /\ \A u \in DOMAIN playing : presences[u] \in Nat
      /\ Percents \subseteq 1 .. 99 /\ TableBet \in Nat
  BY RoundAssumption DEF IInv, TypeOK, PlayersAreSeated
<1>2. \A u \in DOMAIN playing : rest(u) \in Nat /\ rest(u) <= presences[u]
  <2> SUFFICES ASSUME NEW u \in DOMAIN playing
               PROVE  rest(u) \in Nat /\ rest(u) <= presences[u]
    OBVIOUS
  <2>1. presences[u] \in Nat /\ add[u] \in 1 .. 99 /\ subtract[u] \in 1 .. 99
    BY <1>1
  <2>2. bet(u) \in Nat /\ bet(u) <= presences[u]
    BY <2>1, PartBound
  <2> HIDE DEF bet
  <2>3. Part(bet(u), subtract[u]) \in Nat /\ Part(bet(u), subtract[u]) <= bet(u)
    BY <2>1, <2>2, PartBound
  <2> QED
    BY <2>1, <2>2, <2>3
<1> HIDE DEF rest
<1>3. /\ DOMAIN userBets' = DOMAIN playing \cup {Server}
      /\ userBets' \in [DOMAIN playing \cup {Server} -> Nat]
      /\ \A u \in DOMAIN playing : userBets'[u] <= presences[u]
  BY <1>0, <1>1, <1>2
<1>4. TypeOK'
  BY <1>0, <1>1, <1>3 DEF IInv, TypeOK, Stage
<1> QED
  BY <1>0, <1>1, <1>3, <1>4 DEF IInv, PlayersAreSeated, PlayersAreRich, FreshChips,
     BetsArePlaced, BetsAreCovered, PlayersHoldHands, NobodyOwes, DeckBound

\* The deck has room for two cards for everybody and two more.
LEMMA DealFits ==
  ASSUME IInv, stage = "Deal", NEW kept \in SUBSET DOMAIN userBets
  PROVE  /\ DealtAtStart \in Nat /\ DealtAtStart <= MaxCard
         /\ Cardinality(kept) \in Nat
         /\ DealtAtStart + 2 * Cardinality(kept) + 2 <= MaxCard
<1> DEFINE n == Cardinality(DOMAIN playing)
<1>1. DOMAIN playing \subseteq User /\ DOMAIN userBets = DOMAIN playing \cup {Server}
      /\ dealt \in Nat
  BY DEF IInv, TypeOK, BetsArePlaced
<1>2. IsFiniteSet(DOMAIN playing) /\ n \in Nat /\ 5 * n + 5 <= MaxCard
  BY <1>1, PlayersBounded
<1>3. /\ IsFiniteSet(DOMAIN userBets) /\ Cardinality(DOMAIN userBets) <= n + 1
  <2>1. Cardinality(DOMAIN playing \cup {Server}) <= n + 1
        /\ IsFiniteSet(DOMAIN playing \cup {Server})
    BY <1>2, FS_AddElement
  <2> QED
    BY <1>1, <2>1
<1>4. IsFiniteSet(kept) /\ Cardinality(kept) <= Cardinality(DOMAIN userBets)
  BY <1>3, FS_Subset
<1>5. Cardinality(kept) \in Nat /\ Cardinality(DOMAIN userBets) \in Nat
  BY <1>3, <1>4, FS_CardinalityType
<1>6. DealtAtStart \in Nat /\ DealtAtStart <= 1 + 3 * n
  BY <1>1, <1>2 DEF DealtAtStart
<1>7. MaxCard \in Nat
  BY RoundAssumption
<1> HIDE DEF n
<1> QED
  BY <1>2, <1>3, <1>4, <1>5, <1>6, <1>7

\* Those whose bets stay are those who play and who hold hands.
LEMMA DealIInv == ASSUME IInv, DealCards PROVE IInv'
<1> DEFINE low  == LowBets
           kept == DOMAIN userBets \ low
<1>0. /\ stage = "Deal"
      /\ userBets' = Without(userBets, low)
      /\ presences' = presences /\ leaving' = leaving
  BY DEF DealCards
<1>1. /\ DOMAIN userBets = DOMAIN playing \cup {Server}
      /\ DOMAIN playing \subseteq User /\ Server \notin User
      /\ userBets \in [DOMAIN userBets -> Nat] /\ playing \in [DOMAIN playing -> Int]
      /\ \A u \in DOMAIN playing : userBets[u] <= presences[u] /\ playing[u] = presences[u]
  BY <1>0, RoundAssumption DEF IInv, TypeOK, BetsArePlaced, BetsAreCovered, FreshChips
<1> HIDE DEF low
<1>2. /\ DOMAIN userBets' = kept
      /\ userBets' \in [kept -> Nat]
      /\ \A u \in kept : userBets'[u] = userBets[u]
  <2>1. userBets \in [DOMAIN userBets -> Nat]
    BY <1>1
  <2>2. /\ DOMAIN Without(userBets, low) = DOMAIN userBets \ low
        /\ Without(userBets, low) \in [DOMAIN userBets \ low -> Nat]
        /\ \A u \in DOMAIN userBets \ low : Without(userBets, low)[u] = userBets[u]
    BY <2>1, WithoutType
  <2> QED
    BY <1>0, <2>2
<1>3. /\ DealtAtStart \in Nat /\ DealtAtStart <= MaxCard
      /\ Cardinality(kept) \in Nat
      /\ DealtAtStart + 2 * Cardinality(kept) + 2 <= MaxCard
  BY <1>0, DealFits
<1>4. CASE kept = {}
  <2>1. stage' = "Stopped" /\ dealt' = DealtAtStart /\ playing' = playing
        /\ userHands' = userHands
    BY <1>4 DEF DealCards, low
  <2>2. TypeOK'
    BY <1>0, <1>2, <1>3, <2>1 DEF IInv, TypeOK, Stage
  <2> QED
    BY <1>0, <1>3, <2>1, <2>2 DEF IInv, PlayersAreSeated, PlayersAreRich, FreshChips,
       BetsArePlaced, BetsAreCovered, PlayersHoldHands, NobodyOwes, DeckBound
<1>5. CASE kept # {}
  <2>1. /\ stage' = "Draw" /\ playing' = Without(playing, low)
        /\ userHands' = kept \ {Server}
        /\ dealt' = DealtAtStart + 2 * Cardinality(kept)
    BY <1>5 DEF DealCards, PlayersLeft, low
  <2>2. /\ DOMAIN playing' = DOMAIN playing \ low
        /\ playing' \in [DOMAIN playing \ low -> Int]
        /\ \A u \in DOMAIN playing \ low : playing'[u] = playing[u]
    <3>1. playing \in [DOMAIN playing -> Int]
      BY <1>1
    <3>2. /\ DOMAIN Without(playing, low) = DOMAIN playing \ low
          /\ Without(playing, low) \in [DOMAIN playing \ low -> Int]
          /\ \A u \in DOMAIN playing \ low : Without(playing, low)[u] = playing[u]
      BY <3>1, WithoutType
    <3> QED
      BY <2>1, <3>2
  <2>3. DOMAIN playing \ low = kept \ {Server}
    BY <1>1
  <2>4. dealt' \in Nat /\ dealt' + 2 <= MaxCard /\ dealt' <= MaxCard
    <3> DEFINE k == Cardinality(kept)
    <3> HIDE DEF k
    <3>1. k \in Nat /\ dealt' = DealtAtStart + 2 * k /\ DealtAtStart \in Nat
          /\ DealtAtStart + 2 * k + 2 <= MaxCard /\ MaxCard \in Nat
      BY <1>3, <2>1, RoundAssumption DEF k
    <3> QED
      BY <3>1
  <2> HIDE DEF kept, low
  <2>5. TypeOK'
    BY <1>0, <1>1, <1>2, <2>1, <2>2, <2>3, <2>4 DEF IInv, TypeOK, Stage, kept
  <2>6. PlayersHoldHands'
    BY <1>2, <2>1, <2>2, <2>3 DEF PlayersHoldHands
  <2>7. BetsAreCovered' /\ FreshChips' /\ BetsArePlaced'
    BY <1>0, <1>1, <1>2, <2>1, <2>2, <2>3 DEF BetsAreCovered, FreshChips, BetsArePlaced
  <2>8. PlayersAreSeated' /\ PlayersAreRich' /\ NobodyOwes'
    BY <1>0, <2>2 DEF IInv, PlayersAreSeated, PlayersAreRich, NobodyOwes
  <2>9. DeckBound'
    BY <2>4 DEF DeckBound
  <2> QED
    BY <2>5, <2>6, <2>7, <2>8, <2>9 DEF IInv
<1> QED
  BY <1>4, <1>5

\* At most two cards are drawn.
LEMMA DrawIInv ==
  ASSUME IInv, NEW L \in SUBSET DOMAIN presences, NEW dealerShan \in BOOLEAN,
         DrawCards(L, dealerShan)
  PROVE  IInv'
<1>0. /\ stage = "Draw" /\ leaving' = leaving \cup L
      /\ stage' \in {"Stopped", "Settle"}
      /\ presences' = presences /\ playing' = playing
      /\ userBets' = userBets /\ userHands' = userHands
  BY DEF DrawCards
<1>1. dealt' \in Nat /\ dealt' <= MaxCard
  <2> DEFINE n == Cardinality(DOMAIN playing)
  <2>1. dealt \in Nat /\ dealt + 2 <= MaxCard /\ MaxCard \in Nat
    BY <1>0, RoundAssumption DEF IInv, TypeOK, DeckBound
  <2>2. n \in Nat
    BY PlayersBounded DEF IInv, TypeOK
  <2>3. dealt' \in {dealt, dealt + (IF n <= 2 THEN n ELSE 2)}
    BY DEF DrawCards
  <2> HIDE DEF n
  <2> QED
    BY <2>1, <2>2, <2>3
<1>2. TypeOK'
  BY <1>0, <1>1 DEF IInv, TypeOK, Stage
<1> QED
  BY <1>0, <1>1, <1>2 DEF IInv, PlayersAreSeated, PlayersAreRich, FreshChips, BetsArePlaced,
     BetsAreCovered, PlayersHoldHands, NobodyOwes, DeckBound

\* A loss is covered by the chips or is the bet, which is.
LEMMA SettleIInv ==
  ASSUME IInv, NEW verdict \in [userHands -> -1 .. 1], NEW rate \in [userHands -> Rates],
         NEW dealerRate \in Rates, Settle(verdict, rate, dealerRate)
  PROVE  IInv'
<1>0. /\ stage = "Settle" /\ stage' = "Finish"
      /\ presences' = presences /\ userBets' = userBets
      /\ userHands' = userHands /\ leaving' = leaving /\ dealt' = dealt
      /\ playing' = [u \in DOMAIN playing |->
           CASE u \in userHands /\ verdict[u] = 1  -> playing[u] + Winnings(u, rate[u])
             [] u \in userHands /\ verdict[u] = -1 -> playing[u] - Loss(u, dealerRate)
             [] OTHER -> playing[u]]
  BY DEF Settle
<1>1. /\ DOMAIN playing \subseteq User /\ userHands = DOMAIN playing
      /\ Rates \subseteq Nat
      /\ \A u \in DOMAIN playing : playing[u] \in Int /\ playing[u] >= 0
      /\ \A u \in DOMAIN playing : userBets[u] <= playing[u]
      /\ userHands = DOMAIN userBets \ {Server}
      /\ \A u \in DOMAIN userBets : userBets[u] \in Nat
  BY <1>0, RoundAssumption DEF IInv, TypeOK, PlayersHoldHands, NobodyOwes, BetsAreCovered,
     FreshChips
<1>2. \A u \in DOMAIN playing : Winnings(u, rate[u]) \in Nat
  BY <1>1, WinningsAreNat DEF IInv
<1>3. \A u \in DOMAIN playing : Loss(u, dealerRate) \in Nat /\ Loss(u, dealerRate) <= playing[u]
  <2> SUFFICES ASSUME NEW u \in DOMAIN playing
               PROVE  Loss(u, dealerRate) \in Nat /\ Loss(u, dealerRate) <= playing[u]
    OBVIOUS
  <2> DEFINE owed == BetOf(Server) * dealerRate
  <2>1. BetOf(Server) \in Nat /\ dealerRate \in Nat
    BY <1>1 DEF BetOf
  <2>2. owed \in Nat
    BY <2>1
  <2>3. BetOf(u) = userBets[u] /\ BetOf(u) \in Nat /\ BetOf(u) <= playing[u]
    BY <1>1 DEF BetOf
  <2> HIDE DEF owed
  <2>4. Loss(u, dealerRate) = IF playing[u] >= owed THEN owed ELSE BetOf(u)
    BY DEF Loss, owed
  <2> QED
    BY <1>1, <2>2, <2>3, <2>4
<1>4. \A u \in DOMAIN playing : playing'[u] \in Int /\ playing'[u] >= 0
  <2> SUFFICES ASSUME NEW u \in DOMAIN playing
               PROVE  playing'[u] \in Int /\ playing'[u] >= 0
    OBVIOUS
  <2>1. playing'[u] \in {playing[u], playing[u] + Winnings(u, rate[u]),
                         playing[u] - Loss(u, dealerRate)}
    BY <1>0
  <2> QED
    BY <1>1, <1>2, <1>3, <2>1
<1>5. DOMAIN playing' = DOMAIN playing /\ playing' \in [DOMAIN playing -> Int]
  BY <1>0, <1>4
<1>6. TypeOK'
  BY <1>0, <1>5 DEF IInv, TypeOK, Stage
<1>7. NobodyOwes'
  BY <1>4, <1>5 DEF NobodyOwes
<1> QED
  BY <1>0, <1>5, <1>6, <1>7 DEF IInv, PlayersAreSeated, PlayersAreRich, FreshChips,
     BetsArePlaced, BetsAreCovered, PlayersHoldHands, DeckBound

\* Who goes goes from everywhere.
LEMMA FinishIInv == ASSUME IInv, Finish PROVE IInv'
<1> DEFINE gone == Poor \cup leaving
<1>0. /\ stage' = "Start" /\ userHands' = userHands \ gone
      /\ userBets' = Without(userBets, gone)
      /\ playing' = Without(playing, gone)
      /\ presences' = Without(presences, gone)
      /\ leaving' = leaving /\ dealt' = dealt
  BY DEF Finish, StillPlaying
<1> HIDE DEF gone
<1>1. /\ presences \in [DOMAIN presences -> Nat] /\ playing \in [DOMAIN playing -> Int]
      /\ userBets \in [DOMAIN userBets -> Nat]
      /\ DOMAIN playing \subseteq DOMAIN presences
  BY DEF IInv, TypeOK, PlayersAreSeated
<1>2. /\ DOMAIN presences' = DOMAIN presences \ gone
      /\ presences' \in [DOMAIN presences \ gone -> Nat]
      /\ \A u \in DOMAIN presences \ gone : presences'[u] = presences[u]
  BY <1>0, <1>1, WithoutType
<1>3. /\ DOMAIN playing' = DOMAIN playing \ gone
      /\ playing' \in [DOMAIN playing \ gone -> Int]
      /\ \A u \in DOMAIN playing \ gone : playing'[u] = playing[u]
  BY <1>0, <1>1, WithoutType
<1>4. DOMAIN userBets' = DOMAIN userBets \ gone /\ userBets' \in [DOMAIN userBets \ gone -> Nat]
  BY <1>0, <1>1, WithoutType
<1>5. TypeOK'
  BY <1>0, <1>2, <1>3, <1>4 DEF IInv, TypeOK, Stage
<1>6. PlayersAreSeated' /\ PlayersAreRich' /\ NobodyOwes'
  BY <1>1, <1>2, <1>3 DEF IInv, PlayersAreSeated, PlayersAreRich, NobodyOwes
<1> QED
  BY <1>0, <1>5, <1>6 DEF IInv, FreshChips, BetsArePlaced, BetsAreCovered,
     PlayersHoldHands, DeckBound

\* The invariant is inductive.
LEMMA StepIInv == ASSUME IInv, [Next]_vars PROVE IInv'
<1>1. CASE StartRound
  BY <1>1, StartIInv
<1>2. CASE \E add, subtract \in [DOMAIN playing -> Percents] : PlaceBets(add, subtract)
  BY <1>2, BetsIInv
<1>3. CASE DealCards
  BY <1>3, DealIInv
<1>4. CASE \E L \in SUBSET DOMAIN presences, dealerShan \in BOOLEAN : DrawCards(L, dealerShan)
  BY <1>4, DrawIInv
<1>5. CASE \E verdict \in [userHands -> -1 .. 1], rate \in [userHands -> Rates],
              dealerRate \in Rates : Settle(verdict, rate, dealerRate)
  BY <1>5, SettleIInv
<1>6. CASE Finish
  BY <1>6, FinishIInv
<1>7. CASE UNCHANGED vars
  BY <1>7 DEF vars, IInv, TypeOK, PlayersAreSeated, PlayersAreRich, FreshChips, BetsArePlaced,
     BetsAreCovered, PlayersHoldHands, NobodyOwes, DeckBound
<1> QED
  BY <1>1, <1>2, <1>3, <1>4, <1>5, <1>6, <1>7 DEF Next

\* The invariant holds in every reachable state.
THEOREM Invariance == Spec => []IInv
<1>1. IInv /\ [Next]_vars => IInv'
  BY StepIInv
<1> QED
  BY <1>1, InitIInv, PTL DEF Spec

\* Presences, bets and chips stay in their types.
THEOREM TypeCorrect == Spec => []TypeOK
<1>1. IInv => TypeOK
  BY DEF IInv
<1> QED
  BY <1>1, Invariance, PTL

\* Dealing never fails at a table of any size that the deck was made for.
THEOREM DeckNeverRunsOut == Spec => []DeckSuffices
<1>1. IInv => DeckSuffices
  BY DEF IInv, DeckBound, DeckSuffices
<1> QED
  BY <1>1, Invariance, PTL

\* Neither drawing nor settling misses a hand or a bet.
THEOREM MapsAgree == Spec => []PlayersHoldHands
<1>1. IInv => PlayersHoldHands
  BY DEF IInv
<1> QED
  BY <1>1, Invariance, PTL

\* Neither dealing nor settling misses the presence of a player.
THEOREM PlayersSeated == Spec => []PlayersAreSeated
<1>1. IInv => PlayersAreSeated
  BY DEF IInv
<1> QED
  BY <1>1, Invariance, PTL

\* No settlement costs a player more than there is.
THEOREM Solvency == Spec => []NobodyOwes
<1>1. IInv => NobodyOwes
  BY DEF IInv
<1> QED
  BY <1>1, Invariance, PTL
-----------------------------------------------------------------------------
(* Where the money of a round goes: nowhere. *)

\* Presences are never written but to remove a player, so that every round is
\* played with the chips brought to the table, whatever was won or lost before.
RoundsStartOver ==
  /\ \A u \in DOMAIN presences : presences[u] = Wallet[u]
  /\ stage \in {"Bet", "Deal", "Draw", "Settle"} =>
       \A u \in DOMAIN playing : playing[u] = Wallet[u]

\* However many rounds are played, nobody's chips change from one to the next: the
\* general form of what run round_money shows of a single one.
THEOREM RoundsForgetMoney == Spec => []RoundsStartOver
<1> DEFINE Brought == \A u \in DOMAIN presences : presences[u] = Wallet[u]
<1>1. Init => Brought
  BY DEF Init
<1>2. IInv /\ Brought /\ [Next]_vars => Brought'
  <2> SUFFICES ASSUME IInv, Brought, [Next]_vars PROVE Brought'
    OBVIOUS
  <2>1. CASE Finish
    <3> DEFINE gone == Poor \cup leaving
    <3>1. presences' = Without(presences, gone)
      BY <2>1 DEF Finish
    <3>2. presences \in [DOMAIN presences -> Nat]
      BY DEF IInv, TypeOK
    <3> HIDE DEF gone
    <3>3. /\ DOMAIN presences' = DOMAIN presences \ gone
          /\ \A u \in DOMAIN presences \ gone : presences'[u] = presences[u]
      BY <3>1, <3>2 DEF Without, Restrict
    <3> QED
      BY <3>3
  <2>2. CASE ~ Finish
    <3>1. UNCHANGED presences
      BY <2>2 DEF Next, StartRound, PlaceBets, DealCards, DrawCards, Settle, vars
    <3> QED
      BY <3>1
  <2> QED
    BY <2>1, <2>2
<1>3. IInv /\ Brought => RoundsStartOver
  BY DEF IInv, PlayersAreSeated, FreshChips, RoundsStartOver
<1> QED
  BY InitIInv, StepIInv, <1>1, <1>2, <1>3, PTL DEF Spec

\* Nobody who plays has too few chips to go on, so that getResultEndGame removes
\* nobody but leavers: who lost everything plays the next round.
NobodyIsPoor == Poor = {}

\* The end of a round never finds a player who could not pay the least bet.
THEOREM PoorestStay == Spec => []NobodyIsPoor
<1>1. IInv => NobodyIsPoor
  <2> SUFFICES ASSUME IInv, NEW u \in DOMAIN playing, presences[u] < MinBetAllowed
               PROVE  FALSE
    BY DEF NobodyIsPoor, Poor
  <2>1. /\ presences[u] \in Nat /\ presences[u] >= 10 * MinBetAllowed
        /\ MinBetAllowed \in Nat \ {0}
    BY RoundAssumption DEF IInv, TypeOK, PlayersAreSeated, PlayersAreRich
  <2> QED
    BY <2>1
<1> QED
  BY <1>1, Invariance, PTL
=============================================================================
