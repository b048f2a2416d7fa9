\* Two users, one channel, three connections, no failing statement.
SPECIFICATION Spec
CONSTANTS
  Addr = {c1, c2, c3}
  User <- UserAB
  Channel <- ChannelX
  UserArg <- UserABArg
  ChannelArg <- ChannelXArg
  LowerUser <- LowerUserAB
  LowerChannel <- LowerX
  ValidUser <- ValidAB
  HashChannel <- ChannelX
  NoUser = NoUser
  DbMayFail = FALSE
  MaxMessages = 1
SYMMETRY Symmetry
INVARIANTS SessionTables OnlineIffConnected KnownStatusIsCurrent
PROPERTIES PresenceImplemented
