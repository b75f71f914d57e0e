--------------------------- MODULE MCDuckEnvelope ---------------------------
(* Small instances of DuckEnvelope for TLC: Off and one factor, whose      *)
(* filter adds one sample of latency.  Every parameter edit, forced duck   *)
(* and prepare falls between any two samples of blocks of one or two.      *)
EXTENDS DuckEnvelope

CONSTANTS Off, X2

MCFactors == {Off, X2}
MCOsLat   == [f \in MCFactors |-> IF f = Off THEN 0 ELSE 1]

=============================================================================
