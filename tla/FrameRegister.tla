--------------------------- MODULE FrameRegister ---------------------------
(* What the spectrum view promises its renderer (ADR-0039): frames are      *)
(* published one after the other, and what is painted is always one of      *)
(* them, whole, and never an older one than before.  A painting may lag.    *)
EXTENDS Integers

VARIABLES
    published,      \* the number of the frame published last
    painted         \* the number of the frame painted last

Publish == published' = published + 1 /\ UNCHANGED painted
Paint   == painted' \in painted..published /\ UNCHANGED published

Spec == published = 0 /\ painted = 0 /\ [][Publish \/ Paint]_<<published, painted>>
=============================================================================
