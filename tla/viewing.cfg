\* One user, two channels and a name without "#", two connections, no failing statement.
SPECIFICATION Spec
CONSTANTS
  Addr = {c1, c2}
  User <- UserA
  Channel <- ChannelXY
  UserArg <- UserA
  ChannelArg <- ChannelXYArg
  LowerUser <- LowerUserA
  LowerChannel <- LowerXY
  ValidUser <- UserA
  HashChannel <- HashXY
  NoUser = NoUser
  DbMayFail = FALSE
  MaxMessages = 2
INVARIANTS TypeOK ViewersConsistent ViewersAnnounced ReadMarks
PROPERTIES LeavingMarksRead ReadStateImplemented
