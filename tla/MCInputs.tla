------------------------------ MODULE MCInputs ------------------------------
(* Values for the constants of Inputs.                                     *)
EXTENDS Inputs

CONSTANTS a, b, big

ThreePackets == {a, b, big}
Big == {big}
=============================================================================
