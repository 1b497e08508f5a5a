SPECIFICATION Spec
CONSTANTS
  h1 = h1
  h2 = h2
  NoHandler = NoHandler
  Handlers = {h1}
PROPERTY ActiveDeviceNotRefused
CHECK_DEADLOCK FALSE
