SPECIFICATION InputSpec
CONSTANTS
    a = a
    b = b
    big = big
    NofBufs = 4
    MaxSkips = 2
    MaxResets = 1
    MaxTries = 3
    MaxQueue = 3
    MaxFrames = 5
    FrameSize = 2
    Sizes = {3, 4}
    Packets <- ThreePackets
    Oversized <- Big
    NoPacket = NoPacket
    Torn = Torn
INVARIANT TypeOK
INVARIANT XdmaTypeOK
INVARIANT FileTypeOK
PROPERTY IsPacketSource
PROPERTY IsXdmaSource
PROPERTY IsFileSource
PROPERTY CallReturns
PROPERTY RetriesAreBounded
PROPERTY XdmaCallReturns
PROPERTY FileCallEnds
