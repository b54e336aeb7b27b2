--------------------------- MODULE MCGmtProcessor ---------------------------
(* Values for the constants of GmtProcessor.                               *)
EXTENDS GmtProcessor

\* No muon, those of two links.
TwoMuonSets == {{}, {0, 7}}
=============================================================================
