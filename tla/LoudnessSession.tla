-------------------------- MODULE LoudnessSession --------------------------
(***************************************************************************)
(* The session half of src/src/dsp/LoudnessMeter.h: which 100 ms           *)
(* sub-blocks reach the integrated loudness (windows of GateBlocks) and    *)
(* the loudness range (windows of LraBlocks), around resets of the session *)
(* and the pauses of a bypass audition.  The engine calls setSessionPaused *)
(* and processFrame once each per output frame.                            *)
(*                                                                         *)
(* Material is dirty if it must not be heard in the session figures: what  *)
(* came before the last reset, and every frame processed while paused.     *)
(* Levels are abstracted away: every admitted window is counted, above the *)
(* absolute gate or not.                                                   *)
(***************************************************************************)
EXTENDS Integers

CONSTANTS
    SubBlockLen,    \* frames in a sub-block (100 ms)
    GateBlocks,     \* sub-blocks in a gating block (4)
    LraBlocks,      \* sub-blocks in a short-term window (30)
    RingSize,       \* kSubRing (32)
    MaxSubBlocks    \* bound: sub-blocks of one run

ASSUME MeterAssumption == /\ SubBlockLen \in Nat \ {0}
                          /\ GateBlocks \in Nat \ {0}
                          /\ LraBlocks \in Nat \ {0}
                          /\ GateBlocks <= RingSize
                          /\ LraBlocks <= RingSize
                          /\ RingSize \in Nat
                          /\ MaxSubBlocks \in Nat

VARIABLES
    subCount, subFill,        \* complete sub-blocks; frames in the next one
    subRing,                  \* subRing: the sub-block each slot holds
    sessionPaused,
    integratedFrom, lraFrom,  \* the watermarks
    gated,                    \* ungatedCount: gating blocks admitted
    ranged,                   \* short-term windows admitted to the LRA
    integrated, lra,          \* the caches of the two readings
    dirtyEnd                  \* history: the frame the last dirty one ended at

metering == <<subCount, subFill, subRing>>
figureVars == <<sessionPaused, integratedFrom, lraFrom, gated, ranged>>
readings == <<integrated, lra>>
meterVars == <<metering, figureVars, readings, dirtyEnd>>

Stale == [valid |-> FALSE, value |-> 0]
Never == -1

\* The frame about to be processed.
Position == subCount * SubBlockLen + subFill

\* Long enough before the first frame that nothing is held back for it.
NoDirt == -SubBlockLen

MeterInit ==
    /\ subCount = 0 /\ subFill = 0
    /\ subRing = [i \in 0..(RingSize - 1) |-> Never]
    /\ sessionPaused = FALSE /\ integratedFrom = 0 /\ lraFrom = 0
    /\ gated = 0 /\ ranged = 0
    /\ integrated = Stale /\ lra = Stale
    /\ dirtyEnd = NoDirt

-----------------------------------------------------------------------------
\* Mutant: the sub-block in progress counts as clean.
CleanAfterThis == subCount + 1

\* firstCleanSubBlock: after the sub-block in progress, and one more for
\* the ring-out of the K-weighting.
FirstCleanSubBlock == subCount + (IF subFill > 0 THEN 1 ELSE 0) + 1

\* Mutant: the short-term windows get the watermark of the gating blocks.
LraLikeGate == FirstCleanSubBlock + GateBlocks

IntegratedWatermark == FirstCleanSubBlock + GateBlocks
LraWatermark        == FirstCleanSubBlock + LraBlocks

\* Mutant: the edge trigger is lost, every open frame resumes.
ResumesAlways(open) == open

Resumes(open) == sessionPaused /\ open

\* The watermarks once setSessionPaused(~open) has run.
IntegratedFrom(open) == IF Resumes(open) THEN IntegratedWatermark
                                         ELSE integratedFrom
LraFrom(open)        == IF Resumes(open) THEN LraWatermark ELSE lraFrom

CompletesSubBlock == subFill + 1 >= SubBlockLen

SlotOf(n) == n % RingSize

\* finishSubBlock's admission tests; n is the new subCount.
AdmitsGated(open, n)  == open /\ n >= GateBlocks /\ n >= IntegratedFrom(open)
AdmitsRanged(open, n) == open /\ n >= LraBlocks /\ n >= LraFrom(open)

\* A frame that does not complete its sub-block.
Accumulate(open) ==
    /\ ~CompletesSubBlock
    /\ subFill' = subFill + 1
    /\ UNCHANGED <<subCount, subRing, gated, ranged, readings>>

FinishSubBlock(open) ==
    /\ CompletesSubBlock
    /\ subRing' = [subRing EXCEPT ![SlotOf(subCount)] = subCount]
    /\ subCount' = subCount + 1
    /\ subFill' = 0
    /\ gated' = IF AdmitsGated(open, subCount') THEN gated + 1 ELSE gated
    /\ ranged' = IF AdmitsRanged(open, subCount') THEN ranged + 1 ELSE ranged
    /\ integrated' = Stale /\ lra' = Stale

\* One output frame: setSessionPaused(~open), then processFrame.
Frame(open) ==
    /\ subCount < MaxSubBlocks
    /\ sessionPaused' = ~open
    /\ integratedFrom' = IntegratedFrom(open)
    /\ lraFrom' = LraFrom(open)
    /\ Accumulate(open) \/ FinishSubBlock(open)
    /\ dirtyEnd' = IF open THEN dirtyEnd ELSE Position + 1

\* Mutant: a reset forgets the cached readings.
CacheKept(cache) == cache

\* What clearing the session leaves of a cached reading.
CacheAfterClear(cache) == Stale

ResetIntegrated ==
    /\ gated' = 0 /\ ranged' = 0
    /\ integratedFrom' = IntegratedWatermark
    /\ lraFrom' = LraWatermark
    /\ integrated' = CacheAfterClear(integrated)
    /\ lra' = CacheAfterClear(lra)
    /\ dirtyEnd' = Position
    /\ UNCHANGED <<metering, sessionPaused>>

\* prepare() and reset(): the filters are cleared too, nothing stays dirty.
Reset ==
    /\ subCount' = 0 /\ subFill' = 0
    /\ subRing' = [i \in 0..(RingSize - 1) |-> Never]
    /\ sessionPaused' = FALSE /\ integratedFrom' = 0 /\ lraFrom' = 0
    /\ gated' = 0 /\ ranged' = 0
    /\ integrated' = CacheAfterClear(integrated)
    /\ lra' = CacheAfterClear(lra)
    /\ dirtyEnd' = NoDirt

\* integratedLufs() and lraLu() compute once and keep the figure.
ReadIntegrated ==
    /\ ~integrated.valid
    /\ integrated' = [valid |-> TRUE, value |-> gated]
    /\ UNCHANGED <<metering, figureVars, lra, dirtyEnd>>

ReadLra ==
    /\ ~lra.valid
    /\ lra' = [valid |-> TRUE, value |-> ranged]
    /\ UNCHANGED <<metering, figureVars, integrated, dirtyEnd>>

MeterNext == \/ \E open \in BOOLEAN : Frame(open)
             \/ ResetIntegrated \/ Reset \/ ReadIntegrated \/ ReadLra

MeterSpec == MeterInit /\ [][MeterNext]_meterVars

-----------------------------------------------------------------------------
(* Properties.                                                             *)

MeterTypeOK ==
    /\ subCount \in Nat /\ subFill \in 0..(SubBlockLen - 1)
    /\ subRing \in [0..(RingSize - 1) -> Nat \cup {Never}]
    /\ sessionPaused \in BOOLEAN
    /\ integratedFrom \in Nat /\ lraFrom \in Nat
    /\ gated \in Nat /\ ranged \in Nat
    /\ integrated \in [valid : BOOLEAN, value : Nat]
    /\ lra \in [valid : BOOLEAN, value : Nat]
    /\ dirtyEnd \in Int /\ dirtyEnd <= Position

(* A gating block that enters the session figures consists of sub-blocks   *)
(* that all start at least one whole sub-block after the last dirty frame, *)
(* wherever in a sub-block the reset or the resume fell.  (resetIntegrated *)
(* and setSessionPaused: "only gating blocks whose four sub-blocks all     *)
(* post-date the reset", and the 100 ms ring-out guard.)                   *)
GatedIsClean ==
    [][gated' > gated =>
         (subCount' - GateBlocks) * SubBlockLen >= dirtyEnd' + SubBlockLen
      ]_meterVars

(* The same for the windows of the loudness range, where one dirty value   *)
(* sets the 95th percentile for the rest of the session.                   *)
RangedIsClean ==
    [][ranged' > ranged =>
         (subCount' - LraBlocks) * SubBlockLen >= dirtyEnd' + SubBlockLen
      ]_meterVars

(* The guard costs no more than it says: a gating block that starts two    *)
(* sub-blocks after the last dirty frame and completes while the session   *)
(* runs is admitted.  (setSessionPaused: "up to 200 ms after it".)         *)
NoneLost ==
    [][subCount' = subCount + 1 /\ ~sessionPaused' /\ subCount' >= GateBlocks
       /\ (subCount' - GateBlocks) * SubBlockLen >= dirtyEnd' + 2 * SubBlockLen
         => gated' = gated + 1]_meterVars

(* A cached figure is the figure of what has been admitted since the last  *)
(* reset, whichever calls came in between.                                 *)
CacheIsCurrent == /\ integrated.valid => integrated.value = gated
                  /\ lra.valid => lra.value = ranged

=============================================================================
