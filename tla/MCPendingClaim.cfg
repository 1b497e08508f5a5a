SPECIFICATION FairSpec
CONSTANTS
  h1 = h1
  h2 = h2
  NoHandler = NoHandler
  Handlers = {h1, h2}
INVARIANTS TypeOK ReadyMeansActive
PROPERTIES RejectedStaysOut RejectionEndsInstaller
CHECK_DEADLOCK FALSE
