----------------------------- MODULE GameOfTurns ------------------------------
(***************************************************************************)
(* What a game with a betting round and a round of turns promises: players *)
(* may raise their bets while betting is open; then every player has       *)
(* exactly one turn, and meanwhile no bet changes; the turns end only when *)
(* everybody had one.  A game may be cut short before the first turn.      *)
(***************************************************************************)
EXTENDS Integers

CONSTANT Player

VARIABLES
  part,  \* "closed", "betting" or "turns"
  had,   \* the players who had their turn
  bets   \* what each player has bet

Init == part = "closed" /\ had = {}

\* Bets are nobody's promise while no game is on.
Between == part = "closed" /\ part' = "closed" /\ UNCHANGED had

Open == part = "closed" /\ part' = "betting" /\ UNCHANGED had

Raise ==
  /\ part = "betting"
  /\ \A p \in Player : bets'[p] >= bets[p]
  /\ UNCHANGED <<part, had>>

CutShort == part = "betting" /\ part' = "closed" /\ UNCHANGED <<had, bets>>

Turn(p) ==
  /\ part \in {"betting", "turns"}
  /\ p \notin had
  /\ part' = "turns"
  /\ had' = had \cup {p}
  /\ UNCHANGED bets

Finish ==
  /\ part = "turns"
  /\ had = Player
  /\ part' = "closed"
  /\ had' = {}
  /\ UNCHANGED bets

Next ==
  \/ Between
  \/ Open
  \/ Raise
  \/ CutShort
  \/ \E p \in Player : Turn(p)
  \/ Finish

Spec == Init /\ [][Next]_<<part, had, bets>>
=============================================================================
