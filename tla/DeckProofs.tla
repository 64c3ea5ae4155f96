----------------------------- MODULE DeckProofs ------------------------------
(***************************************************************************)
(* Proofs about Deck for decks of every size: whatever the shuffle does,   *)
(* no card is dealt twice, none is lost, and Deck implements CardShoe.     *)
(***************************************************************************)
EXTENDS Deck, SequenceTheorems, TLAPS

\* The hands hold the first Dealt cards of the deck, which are all different.
Injective == \A j, k \in Place : ListCard[j] = ListCard[k] => j = k
HeldFromTop ==
  /\ Len(held) = Dealt
  /\ \A a \in 1 .. Dealt : held[a] = ListCard[a]
NothingDealtWhileShuffling == ~ Shuffled => Dealt = 0

IInv ==
  /\ TypeOK
  /\ Injective
  /\ DeckIsWhole
  /\ HeldFromTop
  /\ NothingDealtWhileShuffling

Left == {ListCard[k] : k \in Dealt + 1 .. MaxCard}

\* A new deck has every card once and nothing was dealt from it.
LEMMA NewDeckIsGood ==
  ASSUME ListCard = [k \in Place |-> NewCards[k]], Dealt = 0, next = 2, held = <<>>
  PROVE  IInv
<1>1. TypeOK
  BY DeckAssumption DEF TypeOK, Card, Place
<1>2. Injective
  BY DeckAssumption DEF Injective
<1>3. DeckIsWhole
  BY DEF DeckIsWhole, Card
<1>4. HeldFromTop /\ NothingDealtWhileShuffling
  BY DEF HeldFromTop, NothingDealtWhileShuffling
<1> QED
  BY <1>1, <1>2, <1>3, <1>4 DEF IInv

\* NewGame starts with such a deck.
LEMMA NewGameIInv == NewGame => IInv'
<1> SUFFICES ASSUME NewGame PROVE IInv'
  OBVIOUS
<1>0. ListCard' = [k \in Place |-> NewCards[k]] /\ Dealt' = 0 /\ next' = 2 /\ held' = <<>>
  BY DEF NewGame, DealtOfNewDeck
<1>1. TypeOK'
  BY <1>0, DeckAssumption DEF TypeOK, Card, Place
<1>2. Injective'
  BY <1>0, DeckAssumption DEF Injective
<1>3. DeckIsWhole'
  BY <1>0 DEF DeckIsWhole, Card
<1>4. HeldFromTop' /\ NothingDealtWhileShuffling'
  BY <1>0 DEF HeldFromTop, NothingDealtWhileShuffling
<1> QED
  BY <1>1, <1>2, <1>3, <1>4 DEF IInv

\* A swap permutes the deck.
LEMMA ShuffleIInv == ASSUME IInv, NEW r \in Place, Shuffle(r) PROVE IInv'
<1>0. /\ ListCard \in [Place -> Card]
      /\ next \in Place
      /\ ListCard' = [ListCard EXCEPT ![r] = ListCard[next], ![next] = ListCard[r]]
      /\ next' = next + 1
      /\ Dealt' = 0 /\ Dealt = 0
      /\ held' = held
      /\ MaxCard \in Nat \ {0}
  BY DeckAssumption DEF IInv, TypeOK, Shuffle, Shuffled, Swapped, Place,
     NothingDealtWhileShuffling
<1> DEFINE moved(k) == IF k = r THEN next ELSE IF k = next THEN r ELSE k
<1>1. \A k \in Place : moved(k) \in Place /\ ListCard'[k] = ListCard[moved(k)]
  BY <1>0
<1>2. TypeOK'
  <2>1. ListCard' \in [Place -> Card]
    BY <1>0
  <2> QED
    BY <1>0, <2>1 DEF TypeOK, IInv, Place
<1>3. Injective'
  <2> SUFFICES ASSUME NEW j \in Place, NEW k \in Place, ListCard'[j] = ListCard'[k]
               PROVE  j = k
    BY DEF Injective
  <2>1. moved(j) = moved(k)
    BY <1>1 DEF IInv, Injective
  <2> QED
    BY <2>1
<1>4. DeckIsWhole'
  <2> SUFFICES ASSUME NEW c \in Card PROVE \E k \in Place : ListCard'[k] = c
    BY DEF DeckIsWhole
  <2>1. PICK k \in Place : ListCard[k] = c
    BY DEF IInv, DeckIsWhole
  <2>2. moved(moved(k)) = k /\ moved(k) \in Place
    BY <1>0
  <2> QED
    BY <1>1, <2>1, <2>2
<1>5. HeldFromTop' /\ NothingDealtWhileShuffling'
  BY <1>0 DEF IInv, HeldFromTop, NothingDealtWhileShuffling
<1> QED
  BY <1>2, <1>3, <1>4, <1>5 DEF IInv

\* The cards of a deal are the next ones of the deck.
LEMMA DealtCards ==
  ASSUME IInv, NEW n \in 1 .. MaxDeal, Deal(n)
  PROVE  /\ n \in Nat /\ Dealt \in Nat /\ Dealt + n <= MaxCard
         /\ Dealing(n) \in Seq(Card) /\ Len(Dealing(n)) = n
         /\ \A k \in 1 .. n : Dealing(n)[k] = ListCard[Dealt + k] /\ Dealt + k \in Place
         /\ held \in Seq(Card) /\ Len(held) = Dealt
         /\ held' \in Seq(Card) /\ Len(held') = Dealt + n
         /\ \A a \in 1 .. Dealt : held'[a] = held[a]
         /\ \A a \in Dealt + 1 .. Dealt + n : held'[a] = ListCard[a]
<1>1. /\ n \in Nat /\ Dealt \in Nat /\ MaxCard \in Nat /\ Dealt + n <= MaxCard
      /\ ListCard \in [Place -> Card]
      /\ held \in Seq(Card) /\ Len(held) = Dealt
      /\ held' = held \o Dealing(n)
  BY DeckAssumption DEF IInv, TypeOK, Deal, HeldFromTop
<1>2. \A k \in 1 .. n : Dealt + k \in Place
  BY <1>1 DEF Place
<1>3. Dealing(n) = [k \in 1 .. n |-> ListCard[Dealt + k]]
  BY DEF Dealing
<1>4. \A k \in 1 .. n : ListCard[Dealt + k] \in Card
  BY <1>1, <1>2
<1>5. Dealing(n) \in Seq(Card) /\ Len(Dealing(n)) = n
  <2>1. Dealing(n) \in [1 .. n -> Card]
    BY <1>3, <1>4
  <2> QED
    BY <1>1, <2>1
<1>6. \A k \in 1 .. n : Dealing(n)[k] = ListCard[Dealt + k]
  BY <1>3
<1> HIDE <1>3
<1>7. /\ held' \in Seq(Card) /\ Len(held') = Dealt + n
      /\ \A a \in 1 .. Dealt + n :
           held'[a] = IF a <= Dealt THEN held[a] ELSE Dealing(n)[a - Dealt]
  <2> DEFINE drawn == Dealing(n)
  <2>1. held \in Seq(Card) /\ drawn \in Seq(Card) /\ Len(drawn) = n
    BY <1>1, <1>5
  <2> HIDE DEF drawn
  <2>2. /\ held \o drawn \in Seq(Card) /\ Len(held \o drawn) = Len(held) + Len(drawn)
        /\ \A a \in 1 .. Len(held) + Len(drawn) :
             (held \o drawn)[a] = IF a <= Len(held) THEN held[a] ELSE drawn[a - Len(held)]
    BY <2>1, ConcatProperties
  <2>3. Len(held) = Dealt /\ held' = held \o drawn
    BY <1>1 DEF drawn
  <2>4. /\ held' \in Seq(Card) /\ Len(held') = Dealt + n
        /\ \A a \in 1 .. Dealt + n :
             held'[a] = IF a <= Dealt THEN held[a] ELSE drawn[a - Dealt]
    BY <2>1, <2>2, <2>3
  <2> QED
    BY <2>4 DEF drawn
<1>8. \A a \in 1 .. Dealt : held'[a] = held[a]
  BY <1>1, <1>7
<1>9. \A a \in Dealt + 1 .. Dealt + n : held'[a] = ListCard[a]
  <2> SUFFICES ASSUME NEW a \in Dealt + 1 .. Dealt + n PROVE held'[a] = ListCard[a]
    OBVIOUS
  <2>1. a - Dealt \in 1 .. n /\ Dealt + (a - Dealt) = a /\ ~ (a <= Dealt)
    BY <1>1
  <2>2. held'[a] = Dealing(n)[a - Dealt]
    BY <1>1, <1>7, <2>1
  <2> QED
    BY <1>6, <2>1, <2>2
<1> QED
  BY <1>1, <1>2, <1>5, <1>6, <1>7, <1>8, <1>9

\* Dealing lengthens the held prefix of the deck.
LEMMA DealIInv == ASSUME IInv, NEW n \in 1 .. MaxDeal, Deal(n) PROVE IInv'
<1>0. /\ ListCard' = ListCard /\ next' = next /\ Dealt' = Dealt + n
      /\ Shuffled
  BY DEF Deal, TopAfter
<1>1. TypeOK'
  BY <1>0, DealtCards, DeckAssumption DEF IInv, TypeOK
<1>2. Injective' /\ DeckIsWhole' /\ NothingDealtWhileShuffling'
  BY <1>0 DEF IInv, Injective, DeckIsWhole, NothingDealtWhileShuffling, Shuffled
<1>3. HeldFromTop'
  BY <1>0, DealtCards DEF IInv, HeldFromTop
<1> QED
  BY <1>1, <1>2, <1>3 DEF IInv

\* The invariant is inductive.
LEMMA StepIInv == ASSUME IInv, [Next]_vars PROVE IInv'
<1>1. CASE NewGame
  BY <1>1, NewGameIInv
<1>2. CASE \E r \in Place : Shuffle(r)
  BY <1>2, ShuffleIInv
<1>3. CASE \E n \in 1 .. MaxDeal : Deal(n)
  BY <1>3, DealIInv
<1>4. CASE UNCHANGED vars
  BY <1>4 DEF vars, IInv, TypeOK, Injective, DeckIsWhole, HeldFromTop,
     NothingDealtWhileShuffling, Shuffled
<1> QED
  BY <1>1, <1>2, <1>3, <1>4 DEF Next

\* The invariant holds in every reachable state.
THEOREM Invariance == Spec => []IInv
<1>1. Init => IInv
  BY NewDeckIsGood DEF Init
<1>2. IInv /\ [Next]_vars => IInv'
  BY StepIInv
<1> QED
  BY <1>1, <1>2, PTL DEF Spec

\* The variables of the deck stay in their types: the index of Deal never
\* passes the end of the deck.
THEOREM TypeCorrect == Spec => []TypeOK
<1>1. IInv => TypeOK
  BY DEF IInv
<1> QED
  BY <1>1, Invariance, PTL

\* No card is dealt twice in a game, whatever the size of the deck.
THEOREM DealsAreDistinct == Spec => []NothingDealtTwice
<1>1. IInv => NothingDealtTwice
  BY DeckAssumption DEF IInv, TypeOK, NothingDealtTwice, HeldFromTop, Injective, Place
<1> QED
  BY <1>1, Invariance, PTL

\* Shuffling loses no card.
THEOREM DecksAreWhole == Spec => []DeckIsWhole
<1>1. IInv => DeckIsWhole
  BY DEF IInv
<1> QED
  BY <1>1, Invariance, PTL

-----------------------------------------------------------------------------
(* The deck implements the shoe. *)

\* As long as nothing is dealt, all the cards are left.
LEMMA AllLeft ==
  ASSUME ListCard \in [Place -> Card], DeckIsWhole, Dealt = 0
  PROVE  Left = Card
<1>1. Left = {ListCard[k] : k \in Place}
  BY DEF Left, Place
<1> QED
  BY <1>1 DEF DeckIsWhole

\* A deal takes its cards from those left, each once, and leaves the others.
LEMMA DealTakes ==
  ASSUME IInv, NEW n \in 1 .. MaxDeal, Deal(n) PROVE Shoe!Take(n)
<1> DEFINE drawn == Dealing(n)
<1>0. /\ n \in Nat /\ Dealt \in Nat /\ MaxCard \in Nat /\ Dealt + n <= MaxCard
      /\ ListCard' = ListCard /\ Dealt' = Dealt + n
      /\ held' = held \o drawn
      /\ drawn = [k \in 1 .. n |-> ListCard[Dealt + k]]
      /\ \A j, k \in Place : ListCard[j] = ListCard[k] => j = k
  BY DealtCards, DeckAssumption DEF Deal, TopAfter, Dealing, IInv, Injective
<1>1. \A k \in 1 .. n : drawn[k] \in Left /\ Dealt + k \in Place
  BY <1>0 DEF Left, Place
<1>2. drawn \in [1 .. n -> Left]
  BY <1>0, <1>1
<1>3. \A a, b \in 1 .. n : drawn[a] = drawn[b] => a = b
  <2> SUFFICES ASSUME NEW a \in 1 .. n, NEW b \in 1 .. n, drawn[a] = drawn[b]
               PROVE  a = b
    OBVIOUS
  <2>1. Dealt + a = Dealt + b
    BY <1>0, <1>1
  <2> QED
    BY <1>0, <2>1
<1>4. Left' = Left \ {drawn[a] : a \in 1 .. n}
  <2>1. Left' = {ListCard[k] : k \in Dealt + n + 1 .. MaxCard}
    BY <1>0 DEF Left
  <2>2. {drawn[a] : a \in 1 .. n} = {ListCard[k] : k \in Dealt + 1 .. Dealt + n}
    <3>1. \A k \in Dealt + 1 .. Dealt + n : k - Dealt \in 1 .. n /\ Dealt + (k - Dealt) = k
      BY <1>0
    <3>2. \A a \in 1 .. n : Dealt + a \in Dealt + 1 .. Dealt + n
      BY <1>0
    <3>3. \A a \in 1 .. n : drawn[a] = ListCard[Dealt + a]
      BY <1>0
    <3>4. \A a \in 1 .. n : drawn[a] \in {ListCard[k] : k \in Dealt + 1 .. Dealt + n}
      BY <3>2, <3>3
    <3>5. \A k \in Dealt + 1 .. Dealt + n : ListCard[k] = drawn[k - Dealt]
      BY <3>1, <3>3
    <3> HIDE DEF drawn
    <3> QED
      BY <3>1, <3>4, <3>5
  <2>3. \A j \in Dealt + n + 1 .. MaxCard, k \in Dealt + 1 .. Dealt + n :
          ListCard[j] # ListCard[k]
    BY <1>0 DEF Place
  <2>4. Dealt + 1 .. MaxCard
          = (Dealt + 1 .. Dealt + n) \cup (Dealt + n + 1 .. MaxCard)
    BY <1>0
  <2> QED
    BY <2>1, <2>2, <2>3, <2>4 DEF Left
<1> QED
  BY <1>0, <1>2, <1>3, <1>4 DEF Shoe!Take, Left

\* A swap while nothing is dealt does not change what is left.
LEMMA ShuffleStutters ==
  ASSUME IInv, IInv', NEW r \in Place, Shuffle(r)
  PROVE  UNCHANGED <<Left, held>>
<1>1. Dealt = 0 /\ Dealt' = 0 /\ held' = held
  BY DEF Shuffle, IInv, NothingDealtWhileShuffling
<1>2. Left = Card
  BY <1>1, AllLeft DEF IInv, TypeOK
<1>3. Left' = Card
  <2>1. ListCard' \in [Place -> Card] /\ \A c \in Card : \E k \in Place : ListCard'[k] = c
    BY DEF IInv, TypeOK, DeckIsWhole
  <2>2. Left' = {ListCard'[k] : k \in Place}
    BY <1>1 DEF Left, Place
  <2> QED
    BY <2>1, <2>2
<1> QED
  BY <1>1, <1>2, <1>3

\* Every step of the deck is a step of the shoe or leaves it as it is.
LEMMA StepShoe == ASSUME IInv, IInv', [Next]_vars PROVE [Shoe!Next]_<<Left, held>>
<1>1. CASE NewGame
  <2>1. held' = <<>> /\ Left' = {ListCard'[k] : k \in Place} /\ ListCard' \in [Place -> Card]
    BY <1>1 DEF NewGame, DealtOfNewDeck, Left, Place, IInv, TypeOK
  <2>2. Left' = Card
    BY <2>1 DEF IInv, DeckIsWhole
  <2> QED
    BY <2>1, <2>2 DEF Shoe!Next, Shoe!Fresh, Left
<1>2. CASE \E r \in Place : Shuffle(r)
  BY <1>2, ShuffleStutters
<1>3. CASE \E n \in 1 .. MaxDeal : Deal(n)
  BY <1>3, DealTakes DEF Shoe!Next
<1>4. CASE UNCHANGED vars
  BY <1>4 DEF vars, Left
<1> QED
  BY <1>1, <1>2, <1>3, <1>4 DEF Next

\* The deck implements the shoe.
THEOREM ImplementsShoe == Spec => ShoeSpec
<1>1. Init => Shoe!Init
  <2> SUFFICES ASSUME Init PROVE Shoe!Init
    OBVIOUS
  <2>1. IInv
    BY NewDeckIsGood DEF Init
  <2>2. Left = Card
    BY <2>1, AllLeft DEF Init, IInv, TypeOK
  <2> QED
    BY <2>2 DEF Init, Shoe!Init, Left
<1>2. IInv /\ IInv' /\ [Next]_vars => [Shoe!Next]_<<Left, held>>
  BY StepShoe
<1>3. [Shoe!Next]_<<Left, held>>
        = [Shoe!Next]_<<{ListCard[k] : k \in Dealt + 1 .. MaxCard}, held>>
  BY DEF Left
<1> QED
  BY <1>1, <1>2, <1>3, Invariance, PTL DEF Spec, ShoeSpec, Shoe!Spec, Left
=============================================================================
