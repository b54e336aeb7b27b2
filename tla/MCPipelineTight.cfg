SPECIFICATION FairSpec
CONSTANTS
    t1 = t1
    t2 = t2
    t3 = t3
    p1 = p1
    p2 = p2
    NoThread = NoThread
    NoPacket = NoPacket
    Threads <- ThreeThreads
    Packets <- OnePacket
    TokensPerThread = 1
    NSlices = 3
    EnableStreamProcessor = TRUE
INVARIANT SliceComesBack
INVARIANT NeverStuck
PROPERTY PacketsKeepFlowing
PROPERTY InputReturns
PROPERTY Recovers
