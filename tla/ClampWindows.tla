---------------------------- MODULE ClampWindows ----------------------------
(***************************************************************************)
(* The true-peak path of src/src/dsp/CeilingClamp.h and the ceiling glide  *)
(* the engine feeds it.  A frame leaves Delay steps after it entered; its  *)
(* gain is planned from the readings of every segment that reads it, and   *)
(* a ceiling that is lowered while frames are in flight revises the plan.  *)
(*                                                                         *)
(* Levels, readings and gains are in whole decibels, 0 the largest ceiling *)
(* and the largest gain: min (1, ceiling / peak) is Required.  What the    *)
(* detector reads of a segment is an input.  The weighted mean of the      *)
(* attack lies between the ends of its window, and the release is any gain *)
(* the hold permits.  The glide moves one decibel a step.  Every ring is a *)
(* function from an age, 0 the newest.                                     *)
(***************************************************************************)
EXTENDS Integers, FiniteSets, FiniteSetsExt

CONSTANTS
    Taps,       \* ClampTruePeakDetector::kTaps
    Attack,     \* the forward minimum's window
    Reach,      \* segments a revised requirement reaches on each side
    Lead,       \* kRevisionLead
    Levels,     \* ceilings that can be asked for
    Readings,   \* what the detector may read of a segment
    MaxMoves,   \* bound: changes of the ceiling
    MaxLoud     \* bound: readings over Quiet held at a time

Lag   == Taps \div 2                \* ClampTruePeakDetector::kLag
Delay == Attack + Taps - 2          \* truePeakDelay
Hist  == 2 * Attack + Taps
Quiet == Min(Levels)                \* a reading no ceiling limits

ASSUME ClampAssumption ==
    /\ Taps \in Nat /\ Taps % 2 = 0
    /\ Attack \in Nat \ {0, 1} /\ Reach \in 1 .. Lag /\ Lead \in 0 .. Lag - 1
    /\ Levels \subseteq Int /\ IsFiniteSet(Levels)
    /\ 0 \in Levels /\ \A l \in Levels : l <= 0
    /\ Readings \subseteq Int /\ IsFiniteSet(Readings) /\ Quiet \in Readings

VARIABLES
    live, target,   \* ceilingLinear: its value and where it glides to
    ceilings,       \* by age of the frame, 0 .. Delay
    segments,       \* by age of the segment: segPeak, segReq, segReqEntry
    requirement, need, forwardMin,  \* the three windows, with their counts
    gain,           \* of the frame last emitted
    primed,         \* ceilingsPrimed
    emitted,        \* history: the last step emitted a frame
    moves           \* changes of the ceiling so far
clampVars == <<live, target, ceilings, segments, requirement, need,
               forwardMin, gain, primed, emitted, moves>>

-----------------------------------------------------------------------------
(* Rings and windows.                                                      *)

Shifted(ring, x) == [i \in DOMAIN ring |-> IF i = 0 THEN x ELSE ring[i - 1]]

Lowest(ring, from, to) == Min({ring[i] : i \in from .. to})

\* A window and the number of its entries under unity, kept step by step.
Counted(ring)   == [at |-> ring,
                    below |-> Cardinality({i \in DOMAIN ring : ring[i] < 0})]
Unity(n)        == Counted([i \in 0 .. n - 1 |-> 0])
One(x)          == IF x < 0 THEN 1 ELSE 0
Pushed(w, x)    == [at |-> Shifted(w.at, x),
                    below |-> w.below + One(x)
                                - One(w.at[Cardinality(DOMAIN w.at) - 1])]

\* A window that counts nothing under unity is not scanned.
Answer(w) == IF w.below = 0 THEN 0
             ELSE Lowest(w.at, 0, Cardinality(DOMAIN w.at) - 1)

Least(a, b)    == IF a < b THEN a ELSE b
Greatest(a, b) == IF a < b THEN b ELSE a

\* The gain that brings a reading under a ceiling.
Required(ceiling, peak) == Least(0, ceiling - peak)

\* The ceiling of the segment of age u: the lower of its two frames'.
SegmentCeiling(cs, u) == Least(cs[Lag + u], cs[Lag + u - 1])

-----------------------------------------------------------------------------
(* The ceiling's glide (AnabasisEngine::process).                          *)

\* Where a glide from l towards t is after k steps.
Glided(l, t, k) == IF t < l THEN Greatest(l - k, t) ELSE Least(l + k, t)

\* Mutant: a frame is judged by the ceiling at its entry alone.
AtEntry(l, t) == l

\* ceilEmitArr: the lower of the ceilings at entry and at emission.
EntryCeiling(l, t) == Least(l, Glided(l, t, Delay))

-----------------------------------------------------------------------------
(* processFrameTruePeak.                                                   *)

ProcessFrame ==
  \E peak \in Readings :
    LET now    == Glided(live, target, 1)
        entry  == EntryCeiling(now, target)
        cs     == IF primed THEN Shifted(ceilings, entry)
                  ELSE [t \in 0 .. Delay |-> entry]
        r      == Required(SegmentCeiling(cs, 0), peak)
        newReq == Pushed(requirement, r)
        newNd  == Pushed(need, Answer(newReq))
        newFwd == Pushed(forwardMin, Answer(newNd))
        top    == IF newFwd.below = 0 THEN 0
                  ELSE Max({newFwd.at[a] : a \in 0 .. Attack - 1})
        low    == IF newFwd.below = 0 THEN 0
                  ELSE Lowest(newFwd.at, 0, Attack - 1)
    IN  /\ \/ peak = Quiet
           \/ Cardinality({u \in 0 .. Hist - 1 :
                              segments[u].peak > Quiet}) < MaxLoud
        /\ live' = now
        /\ ceilings' = cs
        /\ segments' = Shifted(segments, [peak |-> peak, req |-> r, entry |-> r])
        /\ requirement' = newReq
        /\ need' = newNd
        /\ forwardMin' = newFwd
        /\ gain' \in Least(gain, low) .. top
        /\ primed' = TRUE
        /\ emitted' = TRUE
        /\ UNCHANGED <<target, moves>>

-----------------------------------------------------------------------------
(* lowerInFlightCeilings, on the trajectory towards t.                     *)

\* The frame of age a is emitted Delay - a steps from now.
LoweredCeilings(t) ==
    [a \in 0 .. Delay |->
        IF a = Delay THEN ceilings[a]
        ELSE Least(ceilings[a], Glided(live, t, Delay - a))]

\* Mutant: the segment that only ends on the oldest lowered frame is kept.
StartingOn(cs) ==
    {u \in 0 .. Delay - Lag : \E a \in Lag + u .. Delay : cs[a] # ceilings[a]}

\* Segments no older than the last that reads a lowered frame.
MovedSegments(cs) ==
    {u \in 0 .. Delay - Lag :
        \E a \in Lag + u - 1 .. Delay : cs[a] # ceilings[a]}

Revised(cs) ==
    LET moved == MovedSegments(cs)
    IN  [u \in 0 .. Hist - 1 |->
            IF u \in moved
            THEN [segments[u] EXCEPT
                    !.req = Least(@, Required(SegmentCeiling(cs, u),
                                              segments[u].peak))]
            ELSE segments[u]]

\* What the frame v + Taps - 1 steps old may play at: the entry-time
\* requirements of every segment that reads it, the revised ones its main
\* lobe and later taps belong to, and before the main lobe the reading
\* against the glide Lead frames on.
Playable(cs, segs, v) ==
    LET ahead     == Lowest(cs, v + Taps - 1 - Lead, v + Taps - 1)
        relaxed(u) == Required(Greatest(SegmentCeiling(cs, u), ahead),
                               segs[u].peak)
    IN  Min({segs[u].entry : u \in v .. v + Taps - 1}
            \cup {segs[u].req : u \in v + Lag - 1 .. v + Lag - 1 + Reach}
            \cup {relaxed(u)  : u \in v + Lag - Reach .. v + Lag - 2})

\* Frames still to be emitted are v <= Attack - 2; the others keep theirs.
Needs(cs, segs) ==
    [v \in 0 .. 2 * Attack - 2 |->
        IF v <= Attack - 2 THEN Playable(cs, segs, v)
        ELSE Min({segs[u].entry : u \in v .. v + Taps - 1})]

LowerInFlight(t) ==
    LET cs   == LoweredCeilings(t)
        segs == Revised(cs)
        qq   == Needs(cs, segs)
    IN  /\ ceilings' = cs
        /\ segments' = segs
        /\ IF segs = segments
           THEN UNCHANGED <<requirement, need, forwardMin>>
           ELSE /\ requirement' = Counted(
                      [u \in 0 .. Taps - 1 |-> segs[u].req])
                /\ need' = Counted([v \in 0 .. Attack - 1 |-> qq[v]])
                /\ forwardMin' = Counted(
                      [w \in 0 .. Attack - 1 |->
                          Lowest(qq, w, w + Attack - 1)])

\* The head of a block: the ceiling is retargeted, and while it glides the
\* frames in flight answer to where it goes.
Retarget ==
  \E t \in Levels :
    /\ t # target => moves < MaxMoves
    /\ target' = t
    /\ moves' = IF t = target THEN moves ELSE moves + 1
    /\ IF live # t /\ primed
       THEN LowerInFlight(t)
       ELSE UNCHANGED <<ceilings, segments, requirement, need, forwardMin>>
    /\ emitted' = FALSE
    /\ UNCHANGED <<live, gain, primed>>

Unlimited == [a \in 0 .. Delay |-> 0]
Unread    == [u \in 0 .. Hist - 1 |-> [peak |-> Quiet, req |-> 0, entry |-> 0]]

\* reset, from a latch or the silent bottom.
ClearWindows ==
    /\ ceilings' = Unlimited
    /\ segments' = Unread
    /\ requirement' = Unity(Taps)
    /\ need' = Unity(Attack)
    /\ forwardMin' = Unity(Attack)
    /\ gain' = 0
    /\ primed' = FALSE
    /\ emitted' = FALSE
    /\ UNCHANGED <<live, target, moves>>

ClampInit ==
    /\ live \in Levels /\ target = live
    /\ ceilings = Unlimited
    /\ segments = Unread
    /\ requirement = Unity(Taps)
    /\ need = Unity(Attack)
    /\ forwardMin = Unity(Attack)
    /\ gain = 0
    /\ primed = FALSE
    /\ emitted = FALSE
    /\ moves = 0

ClampNext == ProcessFrame \/ Retarget \/ ClearWindows
ClampSpec == ClampInit /\ [][ClampNext]_clampVars

-----------------------------------------------------------------------------

\* A frame leaves under the ceiling in force when it leaves, however often
\* the ceiling was moved, and mid-glide reversed, while it was in flight:
\* processFrameTruePeak clips to it and every requirement is built on it.
JudgedAtEmission == emitted => ceilings[Delay] <= live

\* The gain a frame leaves with keeps the frame's own reading under the
\* ceilings now in force, and every later segment's that reads it within
\* Reach under the higher of that segment's ceiling and the glide Lead
\* frames on; and it meets the requirement every segment that reads it
\* had when it entered.
GainKeepsPromise ==
    emitted =>
      LET v     == Attack - 1
          own   == v + Lag - 1
          ahead == Lowest(ceilings, Delay - Lead, Delay)
      IN  /\ gain <= Required(SegmentCeiling(ceilings, own),
                              segments[own].peak)
          /\ \A u \in v + Lag - Reach .. own - 1 :
                gain <= Required(Greatest(SegmentCeiling(ceilings, u), ahead),
                                 segments[u].peak)
          /\ \A u \in v .. v + Taps - 1 : gain <= segments[u].entry
=============================================================================
