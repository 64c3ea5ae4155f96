SPECIFICATION Spec
CONSTANT Cards <- ShortDeck
INVARIANTS StraightFlushesAreFound
CHECK_DEADLOCK FALSE
