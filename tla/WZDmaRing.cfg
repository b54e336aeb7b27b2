SPECIFICATION FairSpec
CONSTANTS
    a = a
    big = big
    NofBufs = 3
    MaxSkips = 2
    MaxResets = 1
    MaxTries = 3
    Packets <- TwoPackets
    Oversized <- Big
    NoPacket = NoPacket
PROPERTY CallReturns
