SPECIFICATION Spec
CONSTANTS
    OrbitCounts = {2}
    MapBits = 34
    BunchCrossings = {2, 33}
    MuonSets <- TwoMuonSets
INVARIANT UnpacksEveryOrbit
CHECK_DEADLOCK FALSE
