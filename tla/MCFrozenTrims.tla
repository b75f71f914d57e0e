--------------------------- MODULE MCFrozenTrims ---------------------------
(* A small instance of FrozenTrims: the duck has a single configuration    *)
(* and three levels of gain, so that only bulk swaps and records move it.  *)
EXTENDS FrozenTrims

CONSTANT Off

MCFactors == {Off}
MCOsLat   == [f \in MCFactors |-> 0]

=============================================================================
