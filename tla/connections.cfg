\* Two clients, and a queue of the manager that may fill up or not.  The system stops
\* after a shutdown.
SPECIFICATION Spec
CONSTANTS
  Client = {c1, c2}
  ManagerCap = 2
  ClientCap = 1
  MaxTexts = 1
  MaxEvents = 3
INVARIANTS TypeOK CommandsOfKnownClients 
PROPERTIES ForgottenForGood LeavingIsReported AllStop
CHECK_DEADLOCK FALSE
