\* One link more than the queue of results holds.
SPECIFICATION Spec
CONSTANTS
  UrlCap = 2
  AttCap = 2
  MaxOutstanding = 3
  MaxMessages = 1
PROPERTIES ShutdownAlwaysCompletes
CHECK_DEADLOCK FALSE
