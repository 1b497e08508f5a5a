SPECIFICATION Spec
CONSTANTS
  p1 = p1
  p2 = p2
  Old = Old
  None = None
  Procs = {p1, p2}
SYMMETRY Symmetry
INVARIANTS TypeOK RevokedStaysRevoked SoleRotationAgrees FailedLeavesNothing PairIntact RegistryFollows
CHECK_DEADLOCK FALSE
