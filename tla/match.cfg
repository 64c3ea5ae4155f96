SPECIFICATION Spec
CONSTANTS
  s1 = s1
  s2 = s2
  s3 = s3
  s4 = s4
  u1 = u1
  u2 = u2
  u3 = u3
  Session = {s1, s2, s3, s4}
  User = {u1, u2, u3}
  Owner <- TwoDevices
  Knows = {s1, s2, s3, s4}
  Open = TRUE
  MinPresences = 1
  MaxPresences = 2
  KickAfter = 2
  JoinBound = 4
  DealOutcomes = {"running", "panicked"}
  JoinsMayBeLost = TRUE
CHECK_DEADLOCK FALSE
INVARIANTS TypeOK GuestsFit JoinsCoverPending QueuedExitIsHandled PlayersStaySeated CountersBounded
PROPERTIES AdmissionSpec EmptyTableCloses OccupiedTablePlays SeatLostForCause
