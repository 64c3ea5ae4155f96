SPECIFICATION InteractSpec
CONSTANTS
  s1 = s1
  s2 = s2
  u1 = u1
  u2 = u2
  Session = {s1, s2}
  User = {u1, u2}
  Owner <- OneEach
  Knows = {s1, s2}
  Open = TRUE
  MinPresences = 1
  MaxPresences = 2
  KickAfter = 2
  JoinBound = 3
  DealOutcomes = {"running"}
  JoinsMayBeLost = FALSE
PROPERTIES KicksOnlyTheSilent
CHECK_DEADLOCK FALSE
