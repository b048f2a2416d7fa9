\* One link more than the largest workload that cannot block.
SPECIFICATION Spec
CONSTANTS
  UrlCap = 2
  AttCap = 2
  MaxOutstanding = 6
  MaxMessages = 1
PROPERTIES ResultsAlwaysGoBack
CHECK_DEADLOCK FALSE
