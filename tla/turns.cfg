SPECIFICATION Spec
CONSTANTS
  Size = 3
  Rounds <- BetsThenPlay
INVARIANTS TypeOK InRange
PROPERTIES ChangesAnnounced LapsAreFair EveryoneGetsATurn
