SPECIFICATION Spec
CONSTANTS
    OrbitCounts = {1, 2}
    MapBits = 34
    BunchCrossings = {2, 33}
    MuonSets <- TwoMuonSets
INVARIANT TypeOK
INVARIANT Unpacks
INVARIANT ReadsWithinPacket
PROPERTY UniformReturns
CHECK_DEADLOCK FALSE
