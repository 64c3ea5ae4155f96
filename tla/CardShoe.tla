------------------------------ MODULE CardShoe -------------------------------
(***************************************************************************)
(* What a deck promises the hands that draw from it: within one game every *)
(* card is handed out at most once, and the cards that have not been       *)
(* handed out are still there to be drawn, in no particular order.         *)
(***************************************************************************)
EXTENDS Integers, Sequences

CONSTANTS Card, MaxDeal

VARIABLES left, held

Init == left = Card /\ held = <<>>

Fresh == left' = Card /\ held' = <<>>

\* n different cards of those left go to the hands.
Take(n) ==
  \E drawn \in [1 .. n -> left] :
    /\ \A a, b \in 1 .. n : drawn[a] = drawn[b] => a = b
    /\ held' = held \o drawn
    /\ left' = left \ {drawn[a] : a \in 1 .. n}

Next == Fresh \/ \E n \in 1 .. MaxDeal : Take(n)

Spec == Init /\ [][Next]_<<left, held>>
=============================================================================
