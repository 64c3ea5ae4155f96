------------------------------ MODULE ShanHand -------------------------------
(***************************************************************************)
(* The value of a hand of cards (entity/hand.go): its points, its type,    *)
(* the comparison of a player's hand with the dealer's and the rate at     *)
(* which it is paid.  A hand is a sequence of cards, in the order in which *)
(* they were dealt.                                                        *)
(*                                                                         *)
(* Ranks and suits are the numbers of the protocol: A is 1, J, Q, K are    *)
(* 11, 12, 13; HEARTS 1, DIAMONDS 2, CLUBS 3, SPADES 4.                    *)
(***************************************************************************)
EXTENDS Integers, Sequences, SequencesExt

Rank == 1 .. 13
Suit == 1 .. 4
Card == [rank : Rank, suit : Suit]

\* The hand types, in the order of the protocol's enumeration; a comparison of
\* types compares these numbers.  Panic stands for an Eval that does not return.
NORMAL == 1
THUNG_PHA_SANH == 2
DIA == 3
XAM_CO == 4
SHAN == 5
Panic == 0

Ranks(h) == {h[k].rank : k \in DOMAIN h}
Suits(h) == {h[k].suit : k \in DOMAIN h}

getCardPoint(r) == IF r <= 9 THEN r ELSE 0

CalculatePoint_withFactValueCard(h) ==
  FoldLeft(LAMBDA sum, c : sum + getCardPoint(c.rank), 0, h)

\* From ten points on only the tens digit counts.
calculatePoint(h) ==
  LET point == CalculatePoint_withFactValueCard(h)
  IN  IF point >= 10 THEN (point \div 10) % 10 ELSE point

isShan(h)       == Len(h) = 2 /\ calculatePoint(h) \in {8, 9}
isSameRank(h)   == \A j, k \in DOMAIN h : h[j].rank = h[k].rank
isSameSuit(h)   == \A j, k \in DOMAIN h : h[j].suit = h[k].suit
DiaInOrder(h)   == <<h[1].rank, h[2].rank, h[3].rank>> = <<13, 12, 11>>  \* mutant: by place
isDia(h)        == Ranks(h) = {11, 12, 13}

\* isCheck_3ConsecutiveCards gives up on 6 and 16 points.  Otherwise its loop
\* reads one card beyond the end of the hand.
ConsecutivePanics(h) == calculatePoint(h) \notin {6, 16}

\* The type that Eval returns.  A hand of one suit that is not DIA reaches
\* isCheck_3ConsecutiveCards, which returns false or panics: no hand is ever
\* reported as THUNG_PHA_SANH.
HandType(h) ==
  CASE isShan(h)    -> SHAN
    [] Len(h) # 3   -> NORMAL
    [] Len(h) = 3 /\ isSameRank(h) -> XAM_CO
    [] Len(h) = 3 /\ isDia(h)      -> DIA
    [] OTHER -> IF isSameSuit(h) /\ ConsecutivePanics(h) THEN Panic ELSE NORMAL

\* sordDeck starts at the second card: of three cards the last two are sorted.
sordDeck(h) == IF h[2].rank < h[3].rank THEN <<h[1], h[3], h[2]>> ELSE h

\* Eval leaves a hand sorted when it looked for THUNG_PHA_SANH.
Evaluated(h) ==
  IF Len(h) = 3 /\ ~ isSameRank(h) /\ ~ isDia(h) THEN sordDeck(h) ELSE h

-----------------------------------------------------------------------------
(* Comparison: 1 when the player wins, -1 when the dealer wins, 0 for a tie. *)

Sign(n) == IF n > 0 THEN 1 ELSE IF n < 0 THEN -1 ELSE 0

\* GetMaxCardByRanking_ShanType returns the first card that is an ace or
\* higher than a two.
MaxCard(h) ==
  LET k == SelectInSeq(h, LAMBDA c : c.rank # 2)
  IN  IF k = 0 THEN [rank |-> 2, suit |-> 0] ELSE h[k]

SuitTie(p, d) == IF p < d THEN 1 ELSE 0    \* mutant: no winner for the lower suit
SuitDuel(p, d) == IF p < d THEN 1 ELSE -1

compareBySuit(p, d) ==
  IF MaxCard(p).rank # MaxCard(d).rank THEN Sign(MaxCard(p).rank - MaxCard(d).rank)
  ELSE SuitDuel(MaxCard(p).suit, MaxCard(d).suit)

CompareXamCo(p, d) ==
  LET sumP == CalculatePoint_withFactValueCard(p)
      sumD == CalculatePoint_withFactValueCard(d)
  IN  IF sumP = 3 \/ sumP > sumD THEN 1 ELSE -1

ComparePoints(p, d) ==
  IF Len(p) < Len(d) \/ calculatePoint(p) > calculatePoint(d) THEN 1
  ELSE IF calculatePoint(p) < calculatePoint(d) THEN -1
  ELSE IF HandType(p) = SHAN THEN compareBySuit(p, d)
  ELSE 0

\* Compare evaluates both hands, so it panics when either evaluation does.
\* (Two DIA hands have no points and tie; THUNG_PHA_SANH never occurs.)
ComparePanics(p, d) == Panic \in {HandType(p), HandType(d)}

Compare(p, d) ==
  CASE HandType(p) # HandType(d) -> Sign(HandType(p) - HandType(d))
    [] HandType(p) = HandType(d) /\ HandType(p) = XAM_CO -> CompareXamCo(p, d)
    [] HandType(p) = HandType(d) /\ HandType(p) = DIA    -> 0
    [] OTHER -> ComparePoints(p, d)

-----------------------------------------------------------------------------
\* GetTiLeThangThuaPlayer: how many times the bet a hand wins.
GetTiLeThangThuaPlayer(h) ==
  CASE HandType(h) = SHAN ->
         IF isSameSuit(h) /\ isSameRank(h) THEN 2 ELSE 1
    [] HandType(h) = XAM_CO -> 5
    [] HandType(h) = DIA -> IF isSameSuit(h) THEN 5 ELSE 3
    [] OTHER ->
         IF Len(h) = 2 /\ (isSameSuit(h) \/ isSameRank(h)) THEN 2
         ELSE IF Len(h) = 3 /\ isSameSuit(h) THEN 3
         ELSE 1

DrawsOnAndOn(h) == calculatePoint(h) \notin {8, 9}  \* mutant: forgets the number of cards
\* A hand draws a third card unless it is SHAN.
PlayerCanDraw(h) == Len(h) = 2 /\ calculatePoint(h) \notin {8, 9}

DealerMustDraw(h) == calculatePoint(h) < 17
=============================================================================
