SPECIFICATION Spec
CONSTANTS
  MaxCard = 5
  NewCards <- FiveCards
  MaxDeal = 2
INVARIANTS TypeOK NothingDealtTwice DeckIsWhole
PROPERTIES ShoeSpec
