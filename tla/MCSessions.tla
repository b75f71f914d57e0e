----------------------------- MODULE MCSessions -----------------------------
(* Two things that begin anew with a session and share no variable; a run  *)
(* explores one of them, chosen at the start, and the other rests.         *)
(*   meters   MeterSession, in runs of MaxSubBlocks sub-blocks between     *)
(*            prepares: long enough for a pause, both its fades and a      *)
(*            reset to overlap the two frames of the reporting lag, for a  *)
(*            gating block to be admitted afterwards, and for the ring of  *)
(*            sub-blocks to wrap.                                          *)
(*   history  UndoHistory over the presets of MCUndoHistory.               *)
EXTENDS MeterSession, MCUndoHistory

VARIABLE part

allSessionVars == <<part, sessionVars, undoVars>>

SessionsInit == part \in {"meters", "history"} /\ SessionInit /\ UndoInit

SessionsNext ==
    /\ UNCHANGED part
    /\ IF part = "meters"  THEN SessionNext ELSE UNCHANGED sessionVars
    /\ IF part = "history" THEN UndoNext    ELSE UNCHANGED undoVars

SessionsSpec == SessionsInit /\ [][SessionsNext]_allSessionVars

=============================================================================
