---------------------------- MODULE ShanShowdown -----------------------------
(***************************************************************************)
(* The showdown of one player with the dealer: both hold two cards, may    *)
(* draw a third, and are then compared.  Evaluating a hand sorts it in     *)
(* place, and a finished game is evaluated several times: to tell who won, *)
(* to compute the rates, to report the result.                             *)
(***************************************************************************)
EXTENDS ShanHand

CONSTANT Cards  \* the cards of the deck

ASSUME ShowdownAssumption == Cards \subseteq Card

VARIABLES
  player, dealer,  \* the hands
  result           \* what Compare returned last

vars == <<player, dealer, result>>

\* Before the first comparison, and when it panicked.
Undecided == 2
Crashed   == 3

InHand(c) == c \in Range(player) \cup Range(dealer)

TypeOK ==
  /\ player \in Seq(Cards) /\ Len(player) \in 2 .. 3
  /\ dealer \in Seq(Cards) /\ Len(dealer) \in 2 .. 3
  /\ result \in -1 .. 3

\* Both hands as ProcessNewGame deals them: four different cards.
Init ==
  /\ \E deal \in [1 .. 4 -> Cards] :
       /\ IsInjective(deal)
       /\ player = <<deal[1], deal[2]>>
       /\ dealer = <<deal[3], deal[4]>>
  /\ result = Undecided

\* A HIT of the player (IsCanHit), and AddCards with the card of the deck.
Hit(c) ==
  /\ result = Undecided
  /\ PlayerCanDraw(player)
  /\ ~ InHand(c)
  /\ player' = Append(player, c)
  /\ UNCHANGED <<dealer, result>>

\* The dealer draws (IsDealerMustDraw); the model stops at a third card.
DealerDraws(c) ==
  /\ result = Undecided
  /\ DealerMustDraw(dealer)
  /\ Len(dealer) = 2
  /\ ~ InHand(c)
  /\ dealer' = Append(dealer, c)
  /\ UNCHANGED <<player, result>>

\* player.Compare(dealer), which may be called again and again.
Settle ==
  /\ result # Crashed
  /\ ~ ComparePanics(player, dealer)
  /\ result' = Compare(player, dealer)
  /\ player' = Evaluated(player)
  /\ dealer' = Evaluated(dealer)

SettlePanics ==
  /\ result # Crashed
  /\ ComparePanics(player, dealer)
  /\ result' = Crashed
  /\ UNCHANGED <<player, dealer>>

Next ==
  \/ \E c \in Cards : Hit(c) \/ DealerDraws(c)
  \/ Settle
  \/ SettlePanics

Spec == Init /\ [][Next]_vars

-----------------------------------------------------------------------------
(* Properties. *)

\* The order in which a hand was dealt, and the sorting that Eval does in
\* place, change neither its type nor the rate it is paid at.
EvalIgnoresOrder ==
  \A h \in {player, dealer} :
    \A p \in {f \in [DOMAIN h -> DOMAIN h] : IsInjective(f)} :
      LET g == [k \in DOMAIN h |-> h[p[k]]]
      IN  /\ HandType(g) = HandType(h)
          /\ GetTiLeThangThuaPlayer(g) = GetTiLeThangThuaPlayer(h)

\* With two cards each it does not matter who is compared with whom: one of
\* them wins what the other loses, or both tie.
TwoCardDuelIsZeroSum ==
  Len(player) = 2 /\ Len(dealer) = 2 =>
    Compare(player, dealer) + Compare(dealer, player) = 0

\* Comparing again does not change the result: who was paid as the winner is
\* also reported as the winner.
ResultIsStable == [][(result \in {-1, 0, 1}) => (result' = result)]_vars

\* hand.go:179 names THUNG_PHA_SANH "3 la lien nhau & cung chat": three
\* consecutive cards of one suit (other than J, Q, K) are reported as such.
StraightFlushesAreFound ==
  \A h \in {player, dealer} :
    /\ Len(h) = 3
    /\ isSameSuit(h)
    /\ \E r \in Rank : Ranks(h) = r .. r + 2
    /\ ~ isDia(h)
    => HandType(h) = THUNG_PHA_SANH
=============================================================================
