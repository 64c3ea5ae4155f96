------------------------- MODULE ShanShowdownProofs --------------------------
(***************************************************************************)
(* Proofs about hands (ShanHand) and the showdown (ShanShowdown), for any  *)
(* deck and any hands of two or three cards.                               *)
(*                                                                         *)
(* Everything rests on one fact: the points, the type and the rate of a    *)
(* hand do not depend on the order of its cards.  The points are a fold    *)
(* over the sequence, unrolled for two and for three cards; a reordering   *)
(* is then a permutation of two or three terms.  The sorting that Eval     *)
(* does in place is such a reordering, so a second comparison sees the     *)
(* same values.                                                            *)
(***************************************************************************)
EXTENDS ShanShowdown, SequenceTheorems, TLAPS

\* The points of the card at place k.
Pt(h, k) == getCardPoint(h[k].rank)

\* A card has at most nine points (getCardPoint).
LEMMA PointTyped ==
  ASSUME NEW h \in Seq(Card), NEW k \in DOMAIN h
  PROVE  Pt(h, k) \in 0 .. 9
<1>1. h[k] \in Card
  BY DOMAIN h = 1 .. Len(h)
<1>2. h[k].rank \in 1 .. 13
  BY <1>1 DEF Card, Rank
<1> QED BY <1>2 DEF Pt, getCardPoint

\* The greatest of a set of places of a hand.
LEMMA MaxOfThree ==
  ASSUME NEW S \in SUBSET (1 .. 3), S # {}
  PROVE  Max(S) = IF 3 \in S THEN 3 ELSE IF 2 \in S THEN 2 ELSE 1
<1> DEFINE m == IF 3 \in S THEN 3 ELSE IF 2 \in S THEN 2 ELSE 1
<1>1. \A x \in S : x = 1 \/ x = 2 \/ x = 3
  OBVIOUS
<1>2. m \in S /\ \A y \in S : m >= y
  <2>1. CASE 3 \in S
    BY <1>1, <2>1
  <2>2. CASE 3 \notin S /\ 2 \in S
    BY <1>1, <2>2
  <2>3. CASE 3 \notin S /\ 2 \notin S
    <3>1. \A x \in S : x = 1
      BY <1>1, <2>3
    <3>2. m = 1 /\ 1 \in S
      BY <3>1, <2>3
    <3> QED BY <3>1, <3>2
  <2> QED BY <2>1, <2>2, <2>3
<1>3. \A x \in S : (\A y \in S : x >= y) => x = m
  BY <1>1
<1> QED BY <1>2, <1>3 DEF Max

\* The sets of places over which the fold runs.
LEMMA MaxOfSome == Max({1}) = 1 /\ Max({1, 2}) = 2 /\ Max({1, 2, 3}) = 3
<1>1. Max({1}) = 1
  BY MaxOfThree, {1} \in SUBSET (1 .. 3), {1} # {}, 1 \in {1}, 2 \notin {1}, 3 \notin {1}
<1>2. Max({1, 2}) = 2
  BY MaxOfThree, {1, 2} \in SUBSET (1 .. 3), {1, 2} # {}, 2 \in {1, 2}, 3 \notin {1, 2}
<1>3. Max({1, 2, 3}) = 3
  BY MaxOfThree, {1, 2, 3} \in SUBSET (1 .. 3), {1, 2, 3} # {}, 3 \in {1, 2, 3}
<1> QED BY <1>1, <1>2, <1>3

\* The loop over the cards adds the points of two or three cards.  The fold is a
\* recursive function on sets of places: G satisfies its equation, so that some
\* function does, and the equation is unrolled from the whole hand down.
LEMMA FoldUnrolls ==
  ASSUME NEW h \in Seq(Card), Len(h) \in 2 .. 3
  PROVE  CalculatePoint_withFactValueCard(h) =
           IF Len(h) = 2 THEN Pt(h, 1) + Pt(h, 2) ELSE Pt(h, 1) + Pt(h, 2) + Pt(h, 3)
<1> DEFINE D == DOMAIN h
           W(k, s) == IF k \in s THEN Pt(h, k) ELSE 0
           F(it) == [s \in SUBSET D |->
                      IF s = {} THEN 0 ELSE LET x == Max(s) IN it[s \ {x}] + getCardPoint(h[x].rank)]
           G == [s \in SUBSET D |-> W(1, s) + W(2, s) + W(3, s)]
           iter == CHOOSE it : it = F(it)
<1>1. CalculatePoint_withFactValueCard(h) = iter[D]
  BY DEF CalculatePoint_withFactValueCard, FoldLeft, MapThenFoldSet
<1>2. D = 1 .. Len(h) /\ D \subseteq 1 .. 3
  OBVIOUS
<1>3. ASSUME NEW s \in SUBSET D
      PROVE  G[s] = F(G)[s]
  <2>1. CASE s = {}
    BY <2>1
  <2>2. CASE s # {}
    <3> DEFINE x == Max(s)
    <3>1. x = IF 3 \in s THEN 3 ELSE IF 2 \in s THEN 2 ELSE 1
      BY <2>2, <1>2, MaxOfThree
    <3>2. x \in s
      BY <2>2, <1>2, <3>1
    <3>3. \A k \in s : Pt(h, k) \in 0 .. 9
      BY PointTyped
    <3>4. G[s \ {x}] + Pt(h, x) = G[s]
      <4> HIDE DEF x
      <4>1. CASE x = 3
        BY <3>1, <3>2, <3>3, <4>1
      <4>2. CASE x = 2
        BY <3>1, <3>2, <3>3, <4>2
      <4>3. CASE x = 1
        BY <3>1, <3>2, <3>3, <4>3
      <4> QED BY <3>1, <4>1, <4>2, <4>3
    <3> QED BY <2>2, <3>4 DEF Pt
  <2> QED BY <2>1, <2>2
<1>4. G = F(G)
  <2> HIDE DEF W
  <2> QED BY <1>3
<1>5. iter = F(iter)
  <2> HIDE DEF F, G
  <2> QED BY <1>4
<1>6. \A s \in SUBSET D : s # {} => iter[s] = iter[s \ {Max(s)}] + Pt(h, Max(s))
  <2> HIDE DEF iter
  <2> QED BY <1>5 DEF Pt
<1>7. iter[{}] = 0
  <2> HIDE DEF iter
  <2> QED BY <1>5
<1> HIDE DEF F, G, W, iter
<1>8. CASE Len(h) = 2
  <2>1. D = {1, 2} /\ {1, 2} \ {2} = {1} /\ {1} \ {1} = {}
    BY <1>2, <1>8
  <2>2. iter[{1, 2}] = iter[{1}] + Pt(h, 2)
    BY <1>6, <2>1, MaxOfSome, {1, 2} \in SUBSET D
  <2>3. iter[{1}] = iter[{}] + Pt(h, 1)
    BY <1>6, <2>1, MaxOfSome, {1} \in SUBSET D
  <2>4. Pt(h, 1) \in 0 .. 9 /\ Pt(h, 2) \in 0 .. 9
    BY <2>1, PointTyped
  <2> HIDE DEF D
  <2> QED BY <1>1, <1>7, <1>8, <2>1, <2>2, <2>3, <2>4
<1>9. CASE Len(h) = 3
  <2>1. D = {1, 2, 3} /\ {1, 2, 3} \ {3} = {1, 2} /\ {1, 2} \ {2} = {1} /\ {1} \ {1} = {}
    BY <1>2, <1>9
  <2>2. iter[{1, 2, 3}] = iter[{1, 2}] + Pt(h, 3)
    BY <1>6, <2>1, MaxOfSome, {1, 2, 3} \in SUBSET D
  <2>3. iter[{1, 2}] = iter[{1}] + Pt(h, 2)
    BY <1>6, <2>1, MaxOfSome, {1, 2} \in SUBSET D
  <2>4. iter[{1}] = iter[{}] + Pt(h, 1)
    BY <1>6, <2>1, MaxOfSome, {1} \in SUBSET D
  <2>5. Pt(h, 1) \in 0 .. 9 /\ Pt(h, 2) \in 0 .. 9 /\ Pt(h, 3) \in 0 .. 9
    BY <2>1, PointTyped
  <2> HIDE DEF D
  <2> QED BY <1>1, <1>7, <1>9, <2>1, <2>2, <2>3, <2>4, <2>5
<1> QED BY <1>8, <1>9

-----------------------------------------------------------------------------
(* Points. *)

\* The hands that occur: two cards are dealt, a third may be drawn.
Hand == {h \in Seq(Card) : Len(h) \in 2 .. 3}

\* The sum for the hand as it is dealt.
LEMMA SumOfTwo ==
  ASSUME NEW h \in Hand, Len(h) = 2
  PROVE  CalculatePoint_withFactValueCard(h) = Pt(h, 1) + Pt(h, 2)
BY FoldUnrolls DEF Hand

\* The sum after a third card.
LEMMA SumOfThree ==
  ASSUME NEW h \in Hand, Len(h) = 3
  PROVE  CalculatePoint_withFactValueCard(h) = Pt(h, 1) + Pt(h, 2) + Pt(h, 3)
<1>1. h \in Seq(Card) /\ Len(h) \in 2 .. 3 /\ Len(h) # 2
  BY DEF Hand
<1> QED BY <1>1, FoldUnrolls, Zenon

\* Three cards have 27 points at most.
LEMMA SumBounded ==
  ASSUME NEW h \in Hand
  PROVE  CalculatePoint_withFactValueCard(h) \in 0 .. 27
<1>1. \A k \in DOMAIN h : Pt(h, k) \in 0 .. 9
  BY PointTyped DEF Hand
<1>2. CASE Len(h) = 2
  <2>1. Pt(h, 1) \in 0 .. 9 /\ Pt(h, 2) \in 0 .. 9
    BY <1>1, <1>2 DEF Hand
  <2> QED BY <1>2, <2>1, SumOfTwo
<1>3. CASE Len(h) = 3
  <2>1. Pt(h, 1) \in 0 .. 9 /\ Pt(h, 2) \in 0 .. 9 /\ Pt(h, 3) \in 0 .. 9
    BY <1>1, <1>3 DEF Hand
  <2> QED BY <1>3, <2>1, SumOfThree
<1> QED BY <1>2, <1>3 DEF Hand

\* Only the tens digit of ten or more points counts (calculatePoint).
LEMMA PointsBounded ==
  ASSUME NEW h \in Hand
  PROVE  calculatePoint(h) \in 0 .. 9
BY SumBounded DEF calculatePoint

-----------------------------------------------------------------------------
(* The order of the cards. *)

\* The cards of h in the order of p.
Reordered(h, p) == [k \in DOMAIN h |-> h[p[k]]]

\* No card is lost by a reordering.
LEMMA ReorderedPlaces ==
  ASSUME NEW h \in Hand, NEW p \in [DOMAIN h -> DOMAIN h], IsInjective(p)
  PROVE  \A k \in DOMAIN h : \E j \in DOMAIN h : p[j] = k
<1>1. CASE Len(h) = 2
  <2>1. DOMAIN h = {1, 2}
    BY <1>1 DEF Hand
  <2> QED BY <2>1 DEF IsInjective
<1>2. CASE Len(h) = 3
  <2>1. DOMAIN h = {1, 2, 3}
    BY <1>2 DEF Hand
  <2> QED BY <2>1 DEF IsInjective
<1> QED BY <1>1, <1>2 DEF Hand

\* A reordered hand is a hand of as many cards.
LEMMA ReorderedIsHand ==
  ASSUME NEW h \in Hand, NEW p \in [DOMAIN h -> DOMAIN h]
  PROVE  /\ Reordered(h, p) \in Hand
         /\ Len(Reordered(h, p)) = Len(h)
         /\ DOMAIN Reordered(h, p) = DOMAIN h
<1>1. DOMAIN h = 1 .. Len(h) /\ \A k \in DOMAIN h : h[k] \in Card
  BY DEF Hand
<1>2. Reordered(h, p) \in [1 .. Len(h) -> Card]
  BY <1>1 DEF Reordered
<1> QED BY <1>1, <1>2 DEF Hand, Reordered

\* Nor do its points change.
LEMMA ReorderedSum ==
  ASSUME NEW h \in Hand, NEW p \in [DOMAIN h -> DOMAIN h], IsInjective(p)
  PROVE  CalculatePoint_withFactValueCard(Reordered(h, p)) = CalculatePoint_withFactValueCard(h)
<1> DEFINE g == Reordered(h, p)
<1>1. \A k \in DOMAIN h : Pt(g, k) = Pt(h, p[k]) /\ Pt(h, k) \in 0 .. 9
  BY PointTyped DEF Reordered, Pt, Hand
<1>2. g \in Hand /\ Len(g) = Len(h)
  BY ReorderedIsHand
<1> HIDE DEF g
<1>3. CASE Len(h) = 2
  <2>1. DOMAIN h = {1, 2}
    BY <1>3 DEF Hand
  <2>2. Pt(g, 1) + Pt(g, 2) = Pt(h, 1) + Pt(h, 2)
    BY <1>1, <2>1 DEF IsInjective
  <2> QED BY <1>2, <1>3, <2>2, SumOfTwo DEF g
<1>4. CASE Len(h) = 3
  <2>1. DOMAIN h = {1, 2, 3}
    BY <1>4 DEF Hand
  <2>2. Pt(g, 1) + Pt(g, 2) + Pt(g, 3) = Pt(h, 1) + Pt(h, 2) + Pt(h, 3)
    BY <1>1, <2>1 DEF IsInjective
  <2> QED BY <1>2, <1>4, <2>2, SumOfThree DEF g
<1> QED BY <1>3, <1>4 DEF Hand

\* What a hand is, and the rate it is paid at, do not depend on the order.
LEMMA ReorderedType ==
  ASSUME NEW h \in Hand, NEW p \in [DOMAIN h -> DOMAIN h], IsInjective(p)
  PROVE  /\ HandType(Reordered(h, p)) = HandType(h)
         /\ GetTiLeThangThuaPlayer(Reordered(h, p)) = GetTiLeThangThuaPlayer(h)
<1> DEFINE g == Reordered(h, p)
<1>1. \A k \in DOMAIN h : \E j \in DOMAIN h : p[j] = k
  BY ReorderedPlaces
<1>2. Len(g) = Len(h) /\ DOMAIN g = DOMAIN h /\ \A k \in DOMAIN h : g[k] = h[p[k]]
  BY ReorderedIsHand DEF Reordered
<1>3. calculatePoint(g) = calculatePoint(h)
  BY ReorderedSum DEF calculatePoint
<1>4. isSameRank(g) <=> isSameRank(h)
  <2>1. ASSUME isSameRank(h), NEW j \in DOMAIN g, NEW k \in DOMAIN g
        PROVE  g[j].rank = g[k].rank
    BY <1>2, <2>1 DEF isSameRank
  <2>2. ASSUME isSameRank(g), NEW j \in DOMAIN h, NEW k \in DOMAIN h
        PROVE  h[j].rank = h[k].rank
    <3>1. PICK a \in DOMAIN h, b \in DOMAIN h : p[a] = j /\ p[b] = k
      BY <1>1
    <3>2. g[a].rank = g[b].rank
      BY <1>2, <2>2 DEF isSameRank
    <3> QED BY <1>2, <3>1, <3>2
  <2> QED BY <2>1, <2>2 DEF isSameRank
<1>5. isSameSuit(g) <=> isSameSuit(h)
  <2>1. ASSUME isSameSuit(h), NEW j \in DOMAIN g, NEW k \in DOMAIN g
        PROVE  g[j].suit = g[k].suit
    BY <1>2, <2>1 DEF isSameSuit
  <2>2. ASSUME isSameSuit(g), NEW j \in DOMAIN h, NEW k \in DOMAIN h
        PROVE  h[j].suit = h[k].suit
    <3>1. PICK a \in DOMAIN h, b \in DOMAIN h : p[a] = j /\ p[b] = k
      BY <1>1
    <3>2. g[a].suit = g[b].suit
      BY <1>2, <2>2 DEF isSameSuit
    <3> QED BY <1>2, <3>1, <3>2
  <2> QED BY <2>1, <2>2 DEF isSameSuit
<1>6. Ranks(g) = Ranks(h)
  BY <1>1, <1>2 DEF Ranks
<1> HIDE DEF g
<1>7. HandType(g) = HandType(h)
  BY <1>2, <1>3, <1>4, <1>5, <1>6 DEF HandType, isShan, isDia, ConsecutivePanics
<1>8. GetTiLeThangThuaPlayer(g) = GetTiLeThangThuaPlayer(h)
  BY <1>2, <1>4, <1>5, <1>7 DEF GetTiLeThangThuaPlayer
<1> QED BY <1>7, <1>8 DEF g

-----------------------------------------------------------------------------
(* Evaluation and comparison. *)

\* The types that Eval returns, and what the special ones tell of the hand.
LEMMA TypesOfHands ==
  ASSUME NEW h \in Hand
  PROVE  /\ HandType(h) \in {Panic, NORMAL, DIA, XAM_CO, SHAN}
         /\ HandType(h) = SHAN => Len(h) = 2 /\ calculatePoint(h) \in {8, 9}
         /\ HandType(h) = XAM_CO => Len(h) = 3 /\ isSameRank(h)
         /\ Len(h) = 2 => HandType(h) \in {NORMAL, SHAN}
BY DEF HandType, isShan, Panic, NORMAL, DIA, XAM_CO, SHAN

\* The sorting of Eval is a reordering: sordDeck swaps the last two cards or none.
LEMMA EvaluatedIsReordered ==
  ASSUME NEW h \in Hand
  PROVE  \E p \in [DOMAIN h -> DOMAIN h] : IsInjective(p) /\ Evaluated(h) = Reordered(h, p)
<1>1. CASE Evaluated(h) = h
  <2> DEFINE p == [k \in DOMAIN h |-> k]
  <2>1. p \in [DOMAIN h -> DOMAIN h] /\ IsInjective(p)
    BY DEF IsInjective
  <2>2. h = Reordered(h, p)
    BY DEF Reordered, Hand
  <2> QED BY <1>1, <2>1, <2>2
<1>2. CASE Evaluated(h) # h
  <2>1. Len(h) = 3 /\ Evaluated(h) = <<h[1], h[3], h[2]>>
    BY <1>2 DEF Evaluated, sordDeck
  <2>2. DOMAIN h = {1, 2, 3} /\ {1, 2, 3} = 1 .. 3
    BY <2>1 DEF Hand
  <2> DEFINE p == [k \in {1, 2, 3} |-> IF k = 1 THEN 1 ELSE IF k = 2 THEN 3 ELSE 2]
  <2>3. p \in [DOMAIN h -> DOMAIN h] /\ IsInjective(p)
    BY <2>2 DEF IsInjective
  <2>4. Reordered(h, p) = [k \in 1 .. 3 |-> h[p[k]]]
    BY <2>2 DEF Reordered
  <2>5. <<h[1], h[3], h[2]>> = [k \in 1 .. 3 |-> h[p[k]]]
    BY <2>2
  <2> QED BY <2>1, <2>3, <2>4, <2>5
<1> QED BY <1>1, <1>2

\* So a hand that was evaluated has the value it had.  Hands whose comparison looks
\* at places (SHAN, XAM_CO) are not sorted at all.
LEMMA EvaluatedKeeps ==
  ASSUME NEW h \in Hand
  PROVE  /\ Evaluated(h) \in Hand
         /\ Len(Evaluated(h)) = Len(h)
         /\ HandType(Evaluated(h)) = HandType(h)
         /\ calculatePoint(Evaluated(h)) = calculatePoint(h)
         /\ HandType(h) \in {SHAN, XAM_CO} => Evaluated(h) = h
<1>1. PICK p \in [DOMAIN h -> DOMAIN h] : IsInjective(p) /\ Evaluated(h) = Reordered(h, p)
  BY EvaluatedIsReordered
<1>2. Evaluated(h) \in Hand /\ Len(Evaluated(h)) = Len(h)
  BY <1>1, ReorderedIsHand
<1>3. HandType(Evaluated(h)) = HandType(h)
  BY <1>1, ReorderedType
<1>4. calculatePoint(Evaluated(h)) = calculatePoint(h)
  BY <1>1, ReorderedSum DEF calculatePoint
<1>5. HandType(h) \in {SHAN, XAM_CO} => Evaluated(h) = h
  BY TypesOfHands DEF Evaluated
<1> QED BY <1>2, <1>3, <1>4, <1>5

\* A comparison says who wins, whatever is compared.
LEMMA CompareTyped ==
  ASSUME NEW p, NEW d
  PROVE  Compare(p, d) \in -1 .. 1
<1>1. \A n : Sign(n) \in -1 .. 1
  BY DEF Sign
<1>2. CompareXamCo(p, d) \in -1 .. 1
  BY DEF CompareXamCo
<1>3. compareBySuit(p, d) \in -1 .. 1
  BY <1>1 DEF compareBySuit, SuitDuel
<1>4. ComparePoints(p, d) \in -1 .. 1
  BY <1>3 DEF ComparePoints
<1> QED BY <1>1, <1>2, <1>4 DEF Compare

\* Comparing hands that were evaluated gives the result of the first comparison.
LEMMA CompareAgain ==
  ASSUME NEW p \in Hand, NEW d \in Hand
  PROVE  Compare(Evaluated(p), Evaluated(d)) = Compare(p, d)
<1> DEFINE ep == Evaluated(p)
           ed == Evaluated(d)
<1>1. /\ HandType(ep) = HandType(p) /\ Len(ep) = Len(p)
      /\ calculatePoint(ep) = calculatePoint(p)
      /\ HandType(p) \in {SHAN, XAM_CO} => ep = p
  BY EvaluatedKeeps
<1>2. /\ HandType(ed) = HandType(d) /\ Len(ed) = Len(d)
      /\ calculatePoint(ed) = calculatePoint(d)
      /\ HandType(d) \in {SHAN, XAM_CO} => ed = d
  BY EvaluatedKeeps
<1> HIDE DEF ep, ed
<1>3. CASE HandType(p) # HandType(d)
  BY <1>1, <1>2, <1>3 DEF Compare, ep, ed
<1>4. CASE HandType(p) = HandType(d) /\ HandType(p) \in {SHAN, XAM_CO}
  BY <1>1, <1>2, <1>4 DEF ep, ed
<1>5. CASE HandType(p) = HandType(d) /\ HandType(p) \notin {SHAN, XAM_CO}
  <2>1. ComparePoints(ep, ed) = ComparePoints(p, d)
    BY <1>1, <1>2, <1>5 DEF ComparePoints
  <2> QED BY <1>1, <1>2, <1>5, <2>1 DEF Compare, ep, ed
<1> QED BY <1>3, <1>4, <1>5

\* A hand of eight or nine points is not a pair of twos, so that
\* GetMaxCardByRanking_ShanType finds one of its cards.
LEMMA MaxCardOfShan ==
  ASSUME NEW h \in Hand, HandType(h) = SHAN
  PROVE  \E k \in DOMAIN h : MaxCard(h) = h[k]
<1> DEFINE I == {i \in 1 .. Len(h) : h[i].rank # 2}
<1>1. Len(h) = 2 /\ calculatePoint(h) \in {8, 9}
  BY TypesOfHands
<1>2. DOMAIN h = {1, 2} /\ 1 .. Len(h) = {1, 2} /\ h[1] \in Card /\ h[2] \in Card
  BY <1>1 DEF Hand
<1>3. I # {}
  <2> SUFFICES ASSUME h[1].rank = 2, h[2].rank = 2 PROVE FALSE
    BY <1>2
  <2>1. CalculatePoint_withFactValueCard(h) = 4
    BY <1>1, SumOfTwo DEF Pt, getCardPoint
  <2> QED BY <1>1, <2>1 DEF calculatePoint
<1>4. I \subseteq {1, 2}
  BY <1>2
<1>5. Min(I) \in I
  <2>1. \E x \in I : \A y \in I : x =< y
    <3> HIDE DEF I
    <3>1. \A y \in I : y = 1 \/ y = 2
      BY <1>4
    <3>2. CASE 1 \in I
      BY <3>1, <3>2
    <3>3. CASE 1 \notin I
      <4>1. \A y \in I : y = 2
        BY <3>1, <3>3
      <4> QED BY <1>3, <4>1
    <3> QED BY <3>2, <3>3
  <2> HIDE DEF I
  <2> QED BY <2>1 DEF Min
<1>6. SelectInSeq(h, LAMBDA c : c.rank # 2) = Min(I)
  BY <1>3 DEF SelectInSeq
<1>7. Min(I) \in {1, 2}
  BY <1>4, <1>5
<1>8. MaxCard(h) = h[Min(I)]
  <2> HIDE DEF I
  <2> QED BY <1>6, <1>7 DEF MaxCard
<1> QED BY <1>2, <1>7, <1>8

\* Two SHAN hands without a common card are told apart by rank or suit of those
\* cards, the same way from both sides.
LEMMA SuitsSettle ==
  ASSUME NEW p \in Hand, NEW d \in Hand, HandType(p) = SHAN, HandType(d) = SHAN,
         \A j \in DOMAIN p, k \in DOMAIN d : p[j] # d[k]
  PROVE  /\ compareBySuit(p, d) \in {-1, 1}
         /\ compareBySuit(p, d) + compareBySuit(d, p) = 0
<1> DEFINE a == MaxCard(p)
           b == MaxCard(d)
<1>1. a \in Card /\ b \in Card /\ a # b
  BY MaxCardOfShan DEF Hand
<1>2. /\ a.rank \in 1 .. 13 /\ b.rank \in 1 .. 13
      /\ a.suit \in 1 .. 4 /\ b.suit \in 1 .. 4
      /\ a.rank # b.rank \/ a.suit # b.suit
  BY <1>1 DEF Card, Rank, Suit
<1> HIDE DEF a, b
<1>3. /\ compareBySuit(p, d) = IF a.rank # b.rank THEN Sign(a.rank - b.rank)
                                ELSE SuitDuel(a.suit, b.suit)
      /\ compareBySuit(d, p) = IF b.rank # a.rank THEN Sign(b.rank - a.rank)
                                ELSE SuitDuel(b.suit, a.suit)
  BY DEF compareBySuit, a, b
<1> QED BY <1>2, <1>3 DEF Sign, SuitDuel

\* With two cards each, one wins what the other loses (Compare, hand.go).
LEMMA TwoCardDuel ==
  ASSUME NEW p \in Hand, NEW d \in Hand, Len(p) = 2, Len(d) = 2,
         \A j \in DOMAIN p, k \in DOMAIN d : p[j] # d[k]
  PROVE  Compare(p, d) + Compare(d, p) = 0
<1>1. HandType(p) \in {NORMAL, SHAN} /\ HandType(d) \in {NORMAL, SHAN}
  BY TypesOfHands
<1>2. calculatePoint(p) \in Int /\ calculatePoint(d) \in Int
  BY PointsBounded
<1>3. CASE HandType(p) # HandType(d)
  BY <1>1, <1>3 DEF Compare, Sign, NORMAL, SHAN
<1>4. CASE HandType(p) = NORMAL /\ HandType(d) = NORMAL
  <2>1. Compare(p, d) = ComparePoints(p, d) /\ Compare(d, p) = ComparePoints(d, p)
    BY <1>4 DEF Compare, NORMAL, XAM_CO, DIA
  <2> QED BY <1>2, <1>4, <2>1 DEF ComparePoints, NORMAL, SHAN
<1>5. CASE HandType(p) = SHAN /\ HandType(d) = SHAN
  <2>1. Compare(p, d) = ComparePoints(p, d) /\ Compare(d, p) = ComparePoints(d, p)
    BY <1>5 DEF Compare, SHAN, XAM_CO, DIA
  <2>2. compareBySuit(p, d) + compareBySuit(d, p) = 0
    BY <1>5, SuitsSettle
  <2> QED BY <1>2, <1>5, <2>1, <2>2 DEF ComparePoints
<1> QED BY <1>1, <1>3, <1>4, <1>5

-----------------------------------------------------------------------------
(* The invariant of the showdown. *)

\* No card is in both hands.
HandsDiffer == \A j \in DOMAIN player, k \in DOMAIN dealer : player[j] # dealer[k]

\* The last result is what another comparison of the hands, sorted since, gives.
ResultHolds ==
  result \in -1 .. 1 => ~ ComparePanics(player, dealer) /\ result = Compare(player, dealer)

ShowdownInv == TypeOK /\ HandsDiffer /\ ResultHolds

\* Two or three cards of the deck.
LEMMA HandsAreHands ==
  ASSUME TypeOK
  PROVE  player \in Hand /\ dealer \in Hand
<1>1. player \in Seq(Card) /\ dealer \in Seq(Card)
  BY ShowdownAssumption DEF TypeOK
<1> QED BY <1>1 DEF TypeOK, Hand

\* AddCards on a hand of two cards.
LEMMA OneCardMore ==
  ASSUME NEW h \in Seq(Cards), Len(h) = 2, NEW c \in Cards
  PROVE  /\ Append(h, c) \in Seq(Cards)
         /\ Len(Append(h, c)) \in 2 .. 3
<1>1. Append(h, c) \in Seq(Cards)
  OBVIOUS
<1>2. Len(Append(h, c)) = Len(h) + 1
  BY AppendProperties
<1> QED BY <1>1, <1>2

\* Sorting takes no card from elsewhere.
LEMMA EvaluatedOfCards ==
  ASSUME NEW h \in Seq(Cards), Len(h) \in 2 .. 3
  PROVE  /\ Evaluated(h) \in Seq(Cards)
         /\ Len(Evaluated(h)) = Len(h)
         /\ \A k \in DOMAIN Evaluated(h) : \E j \in DOMAIN h : Evaluated(h)[k] = h[j]
<1>1. CASE Evaluated(h) = h
  BY <1>1
<1>2. CASE Evaluated(h) # h
  <2>1. Len(h) = 3 /\ Evaluated(h) = <<h[1], h[3], h[2]>>
    BY <1>2 DEF Evaluated, sordDeck
  <2>2. h[1] \in Cards /\ h[2] \in Cards /\ h[3] \in Cards /\ DOMAIN h = {1, 2, 3}
    BY <2>1
  <2> DEFINE e == <<h[1], h[3], h[2]>>
  <2>3. e \in Seq(Cards) /\ Len(e) = 3 /\ DOMAIN e = {1, 2, 3}
    BY <2>2
  <2>4. e[1] = h[1] /\ e[2] = h[3] /\ e[3] = h[2]
    OBVIOUS
  <2>5. \A k \in DOMAIN e : \E j \in DOMAIN h : e[k] = h[j]
    BY <2>2, <2>3, <2>4
  <2> HIDE DEF e
  <2> QED BY <2>1, <2>3, <2>5 DEF e
<1> QED BY <1>1, <1>2

\* Four different cards are dealt.
LEMMA ShowdownStarts == Init => ShowdownInv
<1> SUFFICES ASSUME Init PROVE ShowdownInv
  OBVIOUS
<1>1. PICK deal \in [1 .. 4 -> Cards] :
        IsInjective(deal) /\ player = <<deal[1], deal[2]>> /\ dealer = <<deal[3], deal[4]>>
  BY DEF Init
<1>2. TypeOK
  BY <1>1 DEF Init, TypeOK, Undecided
<1>3. HandsDiffer
  BY <1>1 DEF HandsDiffer, IsInjective
<1>4. ResultHolds
  BY DEF Init, ResultHolds, Undecided
<1> QED BY <1>2, <1>3, <1>4 DEF ShowdownInv

\* Drawn cards are in no hand yet; a comparison keeps what it compares.
LEMMA ShowdownGoesOn == ShowdownInv /\ [Next]_vars => ShowdownInv'
<1> SUFFICES ASSUME ShowdownInv, [Next]_vars PROVE ShowdownInv'
  OBVIOUS
<1> USE DEF ShowdownInv
<1>1. ASSUME NEW c \in Cards, Hit(c) PROVE ShowdownInv'
  <2>1. player' = Append(player, c) /\ Len(player) = 2 /\ ~ InHand(c)
    BY <1>1 DEF Hit, PlayerCanDraw
  <2>2. TypeOK'
    BY <1>1, <2>1, OneCardMore DEF Hit, TypeOK
  <2>3. HandsDiffer'
    BY <1>1, <2>1 DEF Hit, TypeOK, HandsDiffer, InHand, Range
  <2>4. ResultHolds'
    BY <1>1 DEF Hit, ResultHolds, Undecided
  <2> QED BY <2>2, <2>3, <2>4
<1>2. ASSUME NEW c \in Cards, DealerDraws(c) PROVE ShowdownInv'
  <2>1. dealer' = Append(dealer, c) /\ Len(dealer) = 2 /\ ~ InHand(c)
    BY <1>2 DEF DealerDraws
  <2>2. TypeOK'
    BY <1>2, <2>1, OneCardMore DEF DealerDraws, TypeOK
  <2>3. HandsDiffer'
    BY <1>2, <2>1 DEF DealerDraws, TypeOK, HandsDiffer, InHand, Range
  <2>4. ResultHolds'
    BY <1>2 DEF DealerDraws, ResultHolds, Undecided
  <2> QED BY <2>2, <2>3, <2>4
<1>3. ASSUME Settle PROVE ShowdownInv'
  <2>1. /\ result' = Compare(player, dealer) /\ ~ ComparePanics(player, dealer)
        /\ player' = Evaluated(player) /\ dealer' = Evaluated(dealer)
    BY <1>3 DEF Settle
  <2>2. player \in Hand /\ dealer \in Hand
    BY HandsAreHands
  <2>3. TypeOK'
    BY <2>1, CompareTyped, EvaluatedOfCards DEF TypeOK
  <2>4. HandsDiffer'
    BY <2>1, EvaluatedOfCards DEF TypeOK, HandsDiffer
  <2>5. ResultHolds'
    <3>1. Compare(player', dealer') = Compare(player, dealer)
      BY <2>1, <2>2, CompareAgain
    <3>2. HandType(player') = HandType(player) /\ HandType(dealer') = HandType(dealer)
      BY <2>1, <2>2, EvaluatedKeeps
    <3> QED BY <2>1, <3>1, <3>2 DEF ResultHolds, ComparePanics
  <2> QED BY <2>3, <2>4, <2>5
<1>4. ASSUME SettlePanics PROVE ShowdownInv'
  BY <1>4 DEF SettlePanics, TypeOK, HandsDiffer, ResultHolds, Crashed
<1>5. ASSUME UNCHANGED vars PROVE ShowdownInv'
  BY <1>5 DEF vars, TypeOK, HandsDiffer, ResultHolds
<1> QED BY <1>1, <1>2, <1>3, <1>4, <1>5 DEF Next

\* The invariant holds throughout.
LEMMA ShowdownInvariant == Spec => []ShowdownInv
BY ShowdownStarts, ShowdownGoesOn, PTL DEF Spec

\* Hands keep two or three cards of the deck, and Compare returns -1, 0 or 1.
THEOREM TypeCorrect == Spec => []TypeOK
<1>1. ShowdownInv => TypeOK
  BY DEF ShowdownInv
<1> QED BY <1>1, ShowdownInvariant, PTL

\* In every showdown the order of the cards of a hand, and the sorting that Eval does
\* in place, change neither its type nor its rate.
THEOREM OrderIgnored == Spec => []EvalIgnoresOrder
<1>1. ShowdownInv => EvalIgnoresOrder
  <2> SUFFICES ASSUME ShowdownInv, NEW h \in {player, dealer},
                      NEW p \in [DOMAIN h -> DOMAIN h], IsInjective(p)
               PROVE  /\ HandType([k \in DOMAIN h |-> h[p[k]]]) = HandType(h)
                      /\ GetTiLeThangThuaPlayer([k \in DOMAIN h |-> h[p[k]]])
                           = GetTiLeThangThuaPlayer(h)
    BY DEF EvalIgnoresOrder
  <2>1. h \in Hand
    BY HandsAreHands DEF ShowdownInv
  <2> QED BY <2>1, ReorderedType DEF Reordered
<1> QED BY <1>1, ShowdownInvariant, PTL

\* In every showdown of two cards each, comparing the player with the dealer and
\* the dealer with the player gives opposite results.
THEOREM ZeroSum == Spec => []TwoCardDuelIsZeroSum
<1>1. ShowdownInv => TwoCardDuelIsZeroSum
  <2> SUFFICES ASSUME ShowdownInv, Len(player) = 2, Len(dealer) = 2
               PROVE  Compare(player, dealer) + Compare(dealer, player) = 0
    BY DEF TwoCardDuelIsZeroSum
  <2>1. player \in Hand /\ dealer \in Hand
    BY HandsAreHands DEF ShowdownInv
  <2> QED BY <2>1, TwoCardDuel DEF ShowdownInv, HandsDiffer
<1> QED BY <1>1, ShowdownInvariant, PTL

\* Who was compared once is not compared with another result later, although Eval
\* sorts the hands in between: paying and reporting agree.
THEOREM ResultStable == Spec => ResultIsStable
<1>1. ShowdownInv /\ [Next]_vars => [(result \in {-1, 0, 1}) => (result' = result)]_vars
  <2> SUFFICES ASSUME ShowdownInv, Next, result \in {-1, 0, 1} PROVE result' = result
    BY DEF vars
  <2>1. ~ ComparePanics(player, dealer) /\ result = Compare(player, dealer)
    BY DEF ShowdownInv, ResultHolds
  <2> QED BY <2>1 DEF Next, Hit, DealerDraws, Settle, SettlePanics
<1> QED BY <1>1, ShowdownInvariant, PTL DEF Spec, ResultIsStable

-----------------------------------------------------------------------------
(* What ShanGame and ShanRound take from the hands, and what the code makes  *)
(* of the types that its comments describe.                                 *)

\* DealerMustDraw asks for less than 17 points and no hand has more than nine: the
\* dealer draws always (ShanGame models no dealer who stands).
THEOREM DealerAlwaysDraws == \A h \in Hand : DealerMustDraw(h)
BY PointsBounded DEF DealerMustDraw

\* The rates that GetTiLeThangThuaPlayer returns: the values of the constant Rates of
\* ShanGame and ShanRound.
THEOREM RatesOfHands == \A h \in Hand : GetTiLeThangThuaPlayer(h) \in {1, 2, 3, 5}
BY DEF GetTiLeThangThuaPlayer

\* Two SHAN hands never tie, because suits decide at last: CalcGameFinish, which
\* compares with a dealer who has SHAN, finds a winner whenever the player has it too.
THEOREM ShanNeverTies ==
  ASSUME NEW p \in Hand, NEW d \in Hand, HandType(p) = SHAN, HandType(d) = SHAN,
         \A j \in DOMAIN p, k \in DOMAIN d : p[j] # d[k]
  PROVE  Compare(p, d) \in {-1, 1}
<1>1. Compare(p, d) = ComparePoints(p, d)
  BY DEF Compare, SHAN, XAM_CO, DIA
<1>2. compareBySuit(p, d) \in {-1, 1}
  BY SuitsSettle
<1> QED BY <1>1, <1>2 DEF ComparePoints

\* Exactly which hands end the program when they are evaluated: three cards of one
\* suit, no triple, not J, Q, K, and not six points (isCheck_3ConsecutiveCards).
THEOREM FlushesPanic ==
  ASSUME NEW h \in Hand
  PROVE  HandType(h) = Panic
           <=> /\ Len(h) = 3 /\ isSameSuit(h)
               /\ ~ isSameRank(h) /\ ~ isDia(h)
               /\ calculatePoint(h) # 6
BY PointsBounded DEF HandType, isShan, ConsecutivePanics, Panic, NORMAL, DIA, XAM_CO, SHAN

\* Hence no straight flush is ever reported as THUNG_PHA_SANH: A, 2, 3 is taken for an
\* ordinary hand, J, Q, K for DIA, and every other one panics.
THEOREM StraightFlushesPanic ==
  ASSUME NEW h \in Hand, Len(h) = 3, isSameSuit(h), ~ isDia(h),
         NEW r \in Rank, Ranks(h) = r .. r + 2
  PROVE  HandType(h) = IF r = 1 THEN NORMAL ELSE Panic
<1> DEFINE x == h[1].rank
           y == h[2].rank
           z == h[3].rank
<1>1. DOMAIN h = {1, 2, 3} /\ h[1] \in Card /\ h[2] \in Card /\ h[3] \in Card
  BY DEF Hand
<1>2. x \in 1 .. 13 /\ y \in 1 .. 13 /\ z \in 1 .. 13
  BY <1>1 DEF Card, Rank
<1>3. {x, y, z} = r .. r + 2
  BY <1>1 DEF Ranks
<1> HIDE DEF x, y, z
<1>4. r \in 1 .. 13 /\ r \in {x, y, z} /\ r + 1 \in {x, y, z} /\ r + 2 \in {x, y, z}
  <2>1. r \in 1 .. 13
    BY DEF Rank
  <2>2. r \in r .. r + 2 /\ r + 1 \in r .. r + 2 /\ r + 2 \in r .. r + 2
    BY <2>1
  <2> QED BY <1>3, <2>1, <2>2, Zenon
<1>5. r # 11
  <2> SUFFICES ASSUME r = 11 PROVE FALSE
    OBVIOUS
  <2>1. Ranks(h) = {11, 12, 13}
    OBVIOUS
  <2> QED BY <2>1 DEF isDia
<1>6. CalculatePoint_withFactValueCard(h) = getCardPoint(x) + getCardPoint(y) + getCardPoint(z)
  BY SumOfThree DEF Pt, x, y, z
<1>7. CalculatePoint_withFactValueCard(h)
        = getCardPoint(r) + getCardPoint(r + 1) + getCardPoint(r + 2)
  BY <1>2, <1>4, <1>6 DEF getCardPoint
<1>8. calculatePoint(h) = 6 <=> r = 1
  BY <1>2, <1>4, <1>5, <1>7 DEF calculatePoint, getCardPoint
<1>9. ~ isSameRank(h)
  <2>1. x # y \/ x # z
    BY <1>2, <1>4
  <2> QED BY <1>1, <2>1 DEF isSameRank, x, y, z
<1>10. HandType(h) = Panic <=> r # 1
  BY <1>8, <1>9, FlushesPanic
<1> QED BY <1>8, <1>9, <1>10, PointsBounded
        DEF HandType, isShan, ConsecutivePanics, Panic, NORMAL

\* A player's triple of tens, jacks, queens or kings has no points and loses to every
\* triple of the dealer (hand.go:170 has AAA > KKK > QQQ > ... > 222).
THEOREM TriplesOfFacesLose ==
  ASSUME NEW p \in Hand, NEW d \in Hand, HandType(p) = XAM_CO, HandType(d) = XAM_CO,
         p[1].rank >= 10
  PROVE  Compare(p, d) = -1
<1>1. Len(p) = 3 /\ isSameRank(p)
  BY TypesOfHands
<1>2. Pt(p, 1) = 0 /\ Pt(p, 2) = 0 /\ Pt(p, 3) = 0
  <2>1. DOMAIN p = {1, 2, 3}
    BY <1>1 DEF Hand
  <2>2. p[1].rank \in 1 .. 13
    <3>1. p[1] \in Card
      BY <2>1 DEF Hand
    <3> QED BY <3>1 DEF Card, Rank
  <2>3. p[2].rank = p[1].rank /\ p[3].rank = p[1].rank
    BY <1>1, <2>1 DEF isSameRank
  <2> QED BY <2>2, <2>3 DEF Pt, getCardPoint
<1>3. CalculatePoint_withFactValueCard(p) = 0
  BY <1>1, <1>2, SumOfThree
<1>4. CalculatePoint_withFactValueCard(d) \in 0 .. 27
  BY SumBounded
<1>5. CompareXamCo(p, d) = -1
  BY <1>3, <1>4 DEF CompareXamCo
<1>6. Compare(p, d) = CompareXamCo(p, d)
  BY HandType(p) = HandType(d) DEF Compare, XAM_CO, DIA
<1> QED BY <1>5, <1>6
=============================================================================
