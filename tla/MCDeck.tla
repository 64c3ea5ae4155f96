------------------------------- MODULE MCDeck --------------------------------
(***************************************************************************)
(* An instance of Deck for TLC: a short deck, dealt to the end.            *)
(***************************************************************************)
EXTENDS Deck

FiveCards == <<"A", "2", "3", "4", "5">>
=============================================================================
