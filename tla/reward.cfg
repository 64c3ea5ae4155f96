SPECIFICATION GameSpec
CONSTANTS
  Size = 2
  Rounds <- BetThenPlay
  Chips <- RichAndPoor
  StartBets = {4, 8}
  BetChips = {4}
  MinBetAllowed = 1
  Percent <- Fees
  Rates = {1, 2}
  Limit = 13
CHECK_DEADLOCK FALSE
INVARIANTS WinnersArePaid
