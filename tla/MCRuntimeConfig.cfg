SPECIFICATION FairSpec
CONSTANTS
  s1 = s1
  s2 = s2
  Direct = Direct
  Old = Old
  None = None
  Setups = {s1, s2}
  Former = {s1}
  MaxFaults = 1
  MaxCrashes = 1
  MaxRequests = 2
INVARIANTS TypeOK PendingWasAnswered
PROPERTIES ErasedStaysErased PromotionCanResume PendingSettles
CHECK_DEADLOCK FALSE
