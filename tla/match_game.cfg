SPECIFICATION TableSpec
CONSTANTS
  s1 = s1
  s2 = s2
  s3 = s3
  u1 = u1
  u2 = u2
  u3 = u3
  Session = {s1, s2, s3}
  User = {u1, u2, u3}
  Owner <- OneEach
  Knows = {s1, s2}
  Open = TRUE
  MinPresences = 1
  MaxPresences = 2
  KickAfter = 2
  JoinBound = 4
  DealOutcomes = {"running"}
  JoinsMayBeLost = FALSE
  UpdatesMayFail = TRUE
CHECK_DEADLOCK FALSE
INVARIANTS NoStrandedJoins PendingOnlyInGame SeatsAreOwned PresentAreNotLeaving SeatedAreMarked
PROPERTIES LeaversAreRemoved MarksAreCleared
