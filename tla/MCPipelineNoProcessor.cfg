SPECIFICATION Spec
CONSTANTS
    t1 = t1
    t2 = t2
    t3 = t3
    p1 = p1
    p2 = p2
    NoThread = NoThread
    NoPacket = NoPacket
    Threads <- TwoThreads
    Packets <- OnePacket
    TokensPerThread = 2
    NSlices = 2
    EnableStreamProcessor = FALSE
INVARIANT SliceComesBack
