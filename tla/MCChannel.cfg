SPECIFICATION FairSpec
CONSTANTS
  MaxOpens = 2
  Opener <- ByServer
  Window <- Windows
  X11 = {1}
  Setup = 1
  MaxPacket = 2
  MaxChannels = 1
  NoChannel = NoChannel
CHECK_DEADLOCK FALSE
INVARIANT TypeOK
INVARIANT NoProtocolError
INVARIANT RightChannel
INVARIANT FlowControl
INVARIANT SourceAwake
PROPERTY ChannelsClose
PROPERTY WindowReopens
