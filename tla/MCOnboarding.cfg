SPECIFICATION Spec
CONSTANTS
  t1 = t1
  t2 = t2
  c1 = c1
  None = None
  Txns = {t1, t2}
  ViewOnly = {t1}
  Clients = {c1}
  External = {"replace", "rotate", "disable", "restart"}
INVARIANTS TypeOK ActiveHasBundle JournalCoversEffects OnlyViewOnlyActive Inv
PROPERTIES ImplementsActivation CommitIsFinal
CHECK_DEADLOCK FALSE
