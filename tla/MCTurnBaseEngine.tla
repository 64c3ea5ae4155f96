--------------------------- MODULE MCTurnBaseEngine --------------------------
(***************************************************************************)
(* Instances of TurnBaseEngine for TLC.                                    *)
(***************************************************************************)
EXTENDS TurnBaseEngine

\* Two global rounds, then the playing round, whose turns have two phases, so
\* that timeouts and messages can both end a phase.
BetsThenPlay ==
  << [isGlob |-> TRUE, phases |-> 1],
     [isGlob |-> TRUE, phases |-> 2],
     [isGlob |-> FALSE, phases |-> 2] >>
=============================================================================
