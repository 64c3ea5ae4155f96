SPECIFICATION Spec
CONSTANT Cards <- ShortDeck
INVARIANTS TypeOK EvalIgnoresOrder TwoCardDuelIsZeroSum
PROPERTIES ResultIsStable
CHECK_DEADLOCK FALSE
