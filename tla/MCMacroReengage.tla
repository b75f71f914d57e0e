-------------------------- MODULE MCMacroReengage --------------------------
(* Two managed parameters, two positions, three calls: a press of the macro *)
(* on another thread across a drain tick that serves an edit.              *)
EXTENDS MacroDrain

MCOrder == <<"g", "t">>
MCSlots == {[macro |-> 0, mask |-> {}, value |-> [p \in Managed |-> 1]]}

=============================================================================
