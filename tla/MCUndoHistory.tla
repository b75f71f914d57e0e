--------------------------- MODULE MCUndoHistory ---------------------------
(* Two presets, and the sounds they hold.  The curve keeps the first and   *)
(* takes the second to it, so that a landing preset moves once more.       *)
EXTENDS UndoHistory

CONSTANTS plain, warm

MCSounds == {plain, warm}
MCCurve  == [s \in MCSounds |-> plain]

=============================================================================
