\* Two clients and full queues.
SPECIFICATION Spec
CONSTANTS
  Client = {c1, c2}
  ManagerCap = 1
  ClientCap = 1
  MaxTexts = 2
  MaxEvents = 3
PROPERTIES ManagerReachesClients
CHECK_DEADLOCK FALSE
