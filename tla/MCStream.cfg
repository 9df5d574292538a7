\* Packets of three and four cells through rings of five and four, and pools of six.
SPECIFICATION FairSpec
CONSTANTS
  Junk = Junk
  None = None
  HeaderLen = 2
  Sizes = {1, 2}
  MaxPacket = 4
  SendSize = 5
  RecvSize = 4
  MaxPackets = 3
  MaxNetPool = 6
  RecvLen = 5
  Ends <- MCEnds
INVARIANTS
  TypeOK
  HandledIsWritten
  NothingLostOnTheWay
PROPERTIES
  ChannelSpec
  Delivered
CHECK_DEADLOCK FALSE
