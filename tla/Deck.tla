-------------------------------- MODULE Deck ---------------------------------
(***************************************************************************)
(* The deck of a game (entity/deck.go) in the hands of the engine          *)
(* (usecase/engine/engine.go): NewGame makes a new deck and shuffles it in *)
(* place, Deal hands out the cards from the top.                           *)
(*                                                                         *)
(* Positions are numbered from 1.  Shuffle is one step per swap of its     *)
(* loop; nothing else runs in between.                                     *)
(***************************************************************************)
EXTENDS Integers, Sequences

CONSTANTS
  MaxCard,   \* the number of cards that Deal counts on (52)
  NewCards,  \* the cards of NewDeck, in the order it appends them
  MaxDeal    \* bound: the largest number of cards asked for at once (2)

Place == 1 .. MaxCard

ASSUME DeckAssumption ==
  /\ MaxCard \in Nat \ {0}
  /\ DOMAIN NewCards = Place
  /\ \A j, k \in Place : NewCards[j] = NewCards[k] => j = k
  /\ MaxDeal \in Nat

Card == {NewCards[k] : k \in Place}

VARIABLES
  ListCard,  \* the cards of the deck
  Dealt,     \* how many of them were handed out
  next,      \* the position that the loop of Shuffle swaps next
  held       \* the cards in the hands of the table, in the order of AddCards

vars == <<ListCard, Dealt, next, held>>

TypeOK ==
  /\ ListCard \in [Place -> Card]
  /\ Dealt \in 0 .. MaxCard
  /\ next \in 2 .. MaxCard + 1
  /\ held \in Seq(Card)

Init ==
  /\ ListCard = [k \in Place |-> NewCards[k]]
  /\ Dealt = 0
  /\ next = 2
  /\ held = <<>>

Shuffled == next > MaxCard

DealtKept == Dealt  \* mutant: the count of the last game
DealtOfNewDeck == 0

\* Engine.NewGame: a new deck, about to be shuffled, and Init empties the hands.
NewGame ==
  /\ Shuffled
  /\ ListCard' = [k \in Place |-> NewCards[k]]
  /\ Dealt' = DealtOfNewDeck
  /\ next' = 2
  /\ held' = <<>>

CopyOver(r) == [ListCard EXCEPT ![r] = ListCard[next]]  \* mutant: half a swap
Swapped(r)  == [ListCard EXCEPT ![r] = ListCard[next], ![next] = ListCard[r]]

\* One turn of the loop: rand.Intn picks a place up to the current one.
Shuffle(r) ==
  /\ ~ Shuffled
  /\ r \in 1 .. next
  /\ ListCard' = Swapped(r)
  /\ next' = next + 1
  /\ UNCHANGED <<Dealt, held>>

TopReread(n) == Dealt + n - 1  \* mutant: the last card stays on top
TopSkipped(n) == Dealt + n + 1  \* mutant: a card is burnt
TopAfter(n) == Dealt + n

Dealing(n) == [k \in 1 .. n |-> ListCard[Dealt + k]]

\* Deck.Deal through Engine.Deal, whose cards AddCards appends to a hand.  When
\* too few cards are left Engine.Deal returns nil and nothing changes.
Deal(n) ==
  /\ Shuffled
  /\ MaxCard - Dealt >= n
  /\ held' = held \o Dealing(n)
  /\ Dealt' = TopAfter(n)
  /\ UNCHANGED <<ListCard, next>>

Next ==
  \/ NewGame
  \/ \E r \in Place : Shuffle(r)
  \/ \E n \in 1 .. MaxDeal : Deal(n)

Spec == Init /\ [][Next]_vars

-----------------------------------------------------------------------------
(* Properties. *)

\* No card is in two hands, or twice in one: the swaps of Shuffle and the index
\* of Deal never hand out a card a second time in a game.
NothingDealtTwice ==
  \A a, b \in 1 .. Len(held) : held[a] = held[b] => a = b

\* Shuffling in place loses no card, so every game is played with a full deck.
DeckIsWhole == \A c \in Card : \E k \in Place : ListCard[k] = c

\* The engine hands out cards like a shoe that is refilled for every game: the
\* cards not in a hand are those behind the index of Deal.
Shoe == INSTANCE CardShoe WITH left <- {ListCard[k] : k \in Dealt + 1 .. MaxCard}
ShoeSpec == Shoe!Spec
=============================================================================
