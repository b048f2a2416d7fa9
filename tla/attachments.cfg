\* Workloads from none to one link more than the largest that cannot block.  The
\* system stops after a shutdown.
SPECIFICATION Spec
CONSTANTS
  UrlCap = 2
  AttCap = 2
  MaxOutstanding = 6
  MaxMessages = 2
INVARIANTS TypeOK NoCircularWait AttachmentsInOrder
PROPERTIES ResultsGoBack ShutdownCompletes AnswersImplemented
CHECK_DEADLOCK FALSE
