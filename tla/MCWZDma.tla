------------------------------ MODULE MCWZDma ------------------------------
(* Values for the constants of WZDma.                                      *)
EXTENDS WZDma

CONSTANTS a, big

TwoPackets == {a, big}
Big == {big}
=============================================================================
