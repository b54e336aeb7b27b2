----------------------------- MODULE MCPipeline -----------------------------
(* Values for the constants of Pipeline.                                   *)
EXTENDS Pipeline, TLC

CONSTANTS t1, t2, t3, p1, p2

TwoThreads == {t1, t2}
ThreeThreads == {t1, t2, t3}

OnePacket == {p1}
MCPackets == {p1, p2}
=============================================================================
