\* One client, two attachments at most, a light load and a heavier one.  The system stops
\* after a shutdown.
SPECIFICATION Spec
CONSTANTS
  Client = {c1}
  ManagerCap = 2
  ClientCap = 1
  MaxTexts = 1
  MaxEvents = 4
  UrlCap = 1
  AttCap = 1
  MaxOutstanding = 2
  MaxMessages = 2
INVARIANTS TypeOK ReturnsLast OnlyKnownWaits
PROPERTIES ServerReturns ReturnsOrCircles StepsImplemented FairnessImplemented
CHECK_DEADLOCK FALSE
