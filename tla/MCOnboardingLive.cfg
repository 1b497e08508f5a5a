SPECIFICATION FairSpec
CONSTANTS
  t1 = t1
  t2 = t2
  c1 = c1
  None = None
  Txns = {t1, t2}
  ViewOnly = {t1, t2}
  Clients = {}
  External = {}
INVARIANT PreviousBundleKept
PROPERTIES ActivationSettles SecretsSettle
CHECK_DEADLOCK FALSE
