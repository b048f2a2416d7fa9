\* Two users, one channel, two connections, any statement may fail.
SPECIFICATION Spec
CONSTANTS
  Addr = {c1, c2}
  User <- UserAB
  Channel <- ChannelX
  UserArg <- UserABArg
  ChannelArg <- ChannelXArg
  LowerUser <- LowerUserAB
  LowerChannel <- LowerX
  ValidUser <- ValidAB
  HashChannel <- ChannelX
  NoUser = NoUser
  DbMayFail = TRUE
  MaxMessages = 1
SYMMETRY Symmetry
INVARIANTS MemoryMirrorsDatabase MarkedViewersAreKicked
PROPERTIES AcknowledgedSurvives
