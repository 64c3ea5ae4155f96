SPECIFICATION Spec
CONSTANTS
  u1 = u1
  u2 = u2
  u3 = u3
  User = {u1, u2, u3}
  Server = Server
  Wallet <- Wallets
  Vip <- Levels
  MinBetAllowed = 10
  TableBet = 30
  Percents = {1, 10, 50}
  Rates = {1, 5}
  MaxCard = 20
PROPERTIES MoneyComesBack
CHECK_DEADLOCK FALSE
