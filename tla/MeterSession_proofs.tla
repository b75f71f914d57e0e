------------------------ MODULE MeterSession_proofs ------------------------
(***************************************************************************)
(* The session figures cover exactly the open frames since the reset, and  *)
(* the display settles on them, for any reporting lag, fade, block and     *)
(* sub-block length and any set of requesters.                             *)
(***************************************************************************)
EXTENDS MeterSession, FiniteSetTheorems, SequenceTheorems, TLAPS

(* Session loudness: what is admitted is clean, and no clean window is held *)
(* back longer than the ring-out guard says.                               *)

LEMMA ScaledOrder ==
    ASSUME NEW a \in Int, NEW b \in Int
    PROVE  a >= b <=> a * SubBlockLen >= b * SubBlockLen
<1>1. SubBlockLen \in Int /\ SubBlockLen > 0
  BY MeterAssumption
<1>2. a >= b => (a - b) * SubBlockLen >= 0
  BY <1>1
<1>3. a < b => (b - a) * SubBlockLen > 0
  BY <1>1
<1>4. (a - b) * SubBlockLen = a * SubBlockLen - b * SubBlockLen
  BY <1>1
<1>5. (b - a) * SubBlockLen = b * SubBlockLen - a * SubBlockLen
  BY <1>1
<1>6. a * SubBlockLen \in Int /\ b * SubBlockLen \in Int
  BY <1>1
<1> QED
  BY <1>2, <1>3, <1>4, <1>5, <1>6

\* What setting the two watermarks at the present position guarantees: a
\* window admitted by them starts one sub-block, and no more than two, later.
Guarded(dirty, from, window) ==
    /\ (from - window) * SubBlockLen >= dirty + SubBlockLen
    /\ (from - window) * SubBlockLen <= dirty + 2 * SubBlockLen

\* A watermark of 0 belongs to a meter on which nothing is dirty.
Watermarks ==
    \/ dirtyEnd = NoDirt /\ integratedFrom = 0 /\ lraFrom = 0
    \/ /\ Guarded(dirtyEnd, integratedFrom, GateBlocks)
       /\ Guarded(dirtyEnd, lraFrom, LraBlocks)

MeterInv == /\ MeterTypeOK
            /\ CacheIsCurrent
            /\ sessionPaused => dirtyEnd = Position
            /\ ~sessionPaused => Watermarks

LEMMA PositionType ==
    ASSUME MeterTypeOK
    PROVE  /\ Position \in Int /\ subCount * SubBlockLen \in Int
           /\ (subCount + 1) * SubBlockLen = subCount * SubBlockLen + SubBlockLen
           /\ (subCount + 2) * SubBlockLen
                = subCount * SubBlockLen + 2 * SubBlockLen
           /\ SubBlockLen \in Int /\ SubBlockLen > 0
BY MeterAssumption DEF MeterTypeOK, Position

LEMMA GuardedNow ==
    ASSUME MeterTypeOK, NEW window \in Nat
    PROVE  Guarded(Position, FirstCleanSubBlock + window, window)
<1>1. (FirstCleanSubBlock + window) - window = FirstCleanSubBlock
  BY DEF FirstCleanSubBlock, MeterTypeOK
<1>2. CASE subFill = 0
  <2>1. FirstCleanSubBlock = subCount + 1
    BY <1>2 DEF FirstCleanSubBlock, MeterTypeOK
  <2> QED
    BY <1>1, <1>2, <2>1, PositionType DEF Guarded, Position
<1>3. CASE subFill > 0
  <2>1. FirstCleanSubBlock = subCount + 2
    BY <1>3 DEF FirstCleanSubBlock, MeterTypeOK
  <2>2. subFill \in Int /\ subFill <= SubBlockLen
    BY MeterAssumption DEF MeterTypeOK
  <2> QED
    BY <1>1, <1>3, <2>1, <2>2, PositionType DEF Guarded, Position
<1> QED
  BY <1>2, <1>3 DEF MeterTypeOK

\* An admitted window starts late enough, and a late one is admitted.
LEMMA AdmittedStartsLate ==
    ASSUME NEW dirty \in Int, NEW window \in Nat, NEW from \in Nat, NEW n \in Nat,
           dirty = NoDirt \/ Guarded(dirty, from, window),
           n >= window, n >= from
    PROVE  (n - window) * SubBlockLen >= dirty + SubBlockLen
<1>0. SubBlockLen \in Int /\ (n - window) * SubBlockLen \in Int
      /\ (from - window) * SubBlockLen \in Int
  BY MeterAssumption
<1>1. CASE dirty = NoDirt
  <2>1. (n - window) * SubBlockLen >= 0 * SubBlockLen
    BY ScaledOrder
  <2> QED
    BY <1>0, <1>1, <2>1 DEF NoDirt
<1>2. CASE Guarded(dirty, from, window)
  <2>1. (n - window) * SubBlockLen >= (from - window) * SubBlockLen
    BY ScaledOrder
  <2> QED
    BY <1>0, <1>2, <2>1 DEF Guarded
<1> QED
  BY <1>1, <1>2

LEMMA LateIsAdmitted ==
    ASSUME NEW dirty \in Int, NEW window \in Nat, NEW from \in Nat, NEW n \in Nat,
           from = 0 \/ Guarded(dirty, from, window),
           (n - window) * SubBlockLen >= dirty + 2 * SubBlockLen
    PROVE  n >= from
<1>1. CASE Guarded(dirty, from, window)
  <2>1. SubBlockLen \in Int /\ (n - window) * SubBlockLen \in Int
        /\ (from - window) * SubBlockLen \in Int
    BY MeterAssumption
  <2>2. (n - window) * SubBlockLen >= (from - window) * SubBlockLen
    BY <1>1, <2>1 DEF Guarded
  <2>3. n - window >= from - window
    BY <2>2, ScaledOrder
  <2> QED
    BY <2>3
<1> QED
  BY <1>1

-----------------------------------------------------------------------------
\* After setSessionPaused, before the frame is processed.
LEMMA ResumeInv ==
    ASSUME MeterInv, NEW open \in BOOLEAN, Frame(open), open
    PROVE  /\ integratedFrom' \in Nat /\ lraFrom' \in Nat
           /\ dirtyEnd' = dirtyEnd /\ Watermarks'
           /\ integratedFrom' = IntegratedFrom(open)
           /\ lraFrom' = LraFrom(open)
<1>1. /\ integratedFrom' = IntegratedFrom(open) /\ lraFrom' = LraFrom(open)
      /\ dirtyEnd' = dirtyEnd
  BY DEF Frame
<1>2. FirstCleanSubBlock \in Nat /\ GateBlocks \in Nat /\ LraBlocks \in Nat
  BY MeterAssumption DEF MeterInv, MeterTypeOK, FirstCleanSubBlock
<1>3. CASE sessionPaused
  <2>1. /\ integratedFrom' = FirstCleanSubBlock + GateBlocks
        /\ lraFrom' = FirstCleanSubBlock + LraBlocks
    BY <1>1, <1>3 DEF IntegratedFrom, LraFrom, Resumes, IntegratedWatermark,
                      LraWatermark
  <2>2. /\ Guarded(Position, FirstCleanSubBlock + GateBlocks, GateBlocks)
        /\ Guarded(Position, FirstCleanSubBlock + LraBlocks, LraBlocks)
    BY <1>2, GuardedNow DEF MeterInv
  <2>3. dirtyEnd' = Position
    BY <1>1, <1>3 DEF MeterInv
  <2>4. Watermarks'
    BY <2>1, <2>2, <2>3 DEF Watermarks
  <2>5. integratedFrom' \in Nat /\ lraFrom' \in Nat
    BY <1>2, <2>1
  <2> QED
    BY <1>1, <2>4, <2>5
<1>4. CASE ~sessionPaused
  <2>1. integratedFrom' = integratedFrom /\ lraFrom' = lraFrom
    BY <1>1, <1>4 DEF IntegratedFrom, LraFrom, Resumes
  <2>2. Watermarks'
    BY <1>1, <1>4, <2>1 DEF MeterInv, Watermarks
  <2> QED
    BY <1>1, <2>1, <2>2 DEF MeterInv, MeterTypeOK
<1> QED
  BY <1>3, <1>4

LEMMA PositionAdvances ==
    ASSUME MeterTypeOK, NEW open \in BOOLEAN, Frame(open)
    PROVE  /\ Position' = Position + 1
           /\ subCount' \in Nat /\ subFill' \in 0..(SubBlockLen - 1)
<1>0. subCount \in Nat /\ subFill \in 0..(SubBlockLen - 1)
      /\ SubBlockLen \in Nat
  BY MeterAssumption DEF MeterTypeOK
<1>1. CASE Accumulate(open)
  <2>1. subCount' = subCount /\ subFill' = subFill + 1
    BY <1>1 DEF Accumulate
  <2>2. subFill' \in 0..(SubBlockLen - 1)
    BY <1>0, <1>1, <2>1 DEF Accumulate, CompletesSubBlock
  <2>3. Position' = subCount * SubBlockLen + (subFill + 1)
    BY <2>1 DEF Position
  <2> QED
    BY <1>0, <2>1, <2>2, <2>3, PositionType DEF Position
<1>2. CASE FinishSubBlock(open)
  <2>1. subCount' = subCount + 1 /\ subFill' = 0
    BY <1>2 DEF FinishSubBlock
  <2>2. subFill + 1 = SubBlockLen
    BY <1>0, <1>2 DEF FinishSubBlock, CompletesSubBlock
  <2>3. Position' = (subCount + 1) * SubBlockLen + 0
    BY <2>1 DEF Position
  <2> QED
    BY <1>0, <2>1, <2>2, <2>3, PositionType DEF Position
<1> QED
  BY <1>1, <1>2 DEF Frame

LEMMA FrameInv == ASSUME MeterInv, NEW open \in BOOLEAN, Frame(open)
                  PROVE  MeterInv'
<1>1. MeterTypeOK /\ Position \in Int
  BY PositionType DEF MeterInv
<1>2. Position' = Position + 1 /\ subCount' \in Nat
      /\ subFill' \in 0..(SubBlockLen - 1)
  BY <1>1, PositionAdvances
<1>3. sessionPaused' = ~open /\ sessionPaused' \in BOOLEAN
  BY DEF Frame
<1>4. integratedFrom' \in Nat /\ lraFrom' \in Nat
  <2>1. CASE open
    BY <2>1, ResumeInv
  <2>2. CASE ~open
    BY <2>2 DEF Frame, IntegratedFrom, LraFrom, Resumes, MeterInv, MeterTypeOK
  <2> QED
    BY <2>1, <2>2
<1>5. dirtyEnd' \in Int /\ dirtyEnd' <= Position'
      /\ (sessionPaused' => dirtyEnd' = Position')
  <2>0. dirtyEnd \in Int /\ dirtyEnd <= Position
    BY <1>1 DEF MeterTypeOK
  <2>1. CASE open
    <3>1. dirtyEnd' = dirtyEnd /\ ~sessionPaused'
      BY <1>3, <2>1 DEF Frame
    <3> QED
      BY <1>1, <1>2, <2>0, <3>1
  <2>2. CASE ~open
    <3>1. dirtyEnd' = Position + 1
      BY <2>2 DEF Frame
    <3> QED
      BY <1>1, <1>2, <3>1
  <2> QED
    BY <2>1, <2>2
<1>6. ~sessionPaused' => Watermarks'
  BY <1>3, ResumeInv
<1>7. /\ gated' \in Nat /\ ranged' \in Nat
      /\ integrated' \in [valid : BOOLEAN, value : Nat]
      /\ lra' \in [valid : BOOLEAN, value : Nat]
      /\ subRing' \in [0..(RingSize - 1) -> Nat \cup {Never}]
      /\ CacheIsCurrent'
  <2>1. CASE Accumulate(open)
    BY <2>1 DEF Accumulate, readings, MeterInv, MeterTypeOK, CacheIsCurrent
  <2>2. CASE FinishSubBlock(open)
    <3>1. integrated' = Stale /\ lra' = Stale
      BY <2>2 DEF FinishSubBlock
    <3>2. gated' \in Nat /\ ranged' \in Nat
      BY <1>1, <2>2 DEF FinishSubBlock, MeterTypeOK
    <3>3. subRing' \in [0..(RingSize - 1) -> Nat \cup {Never}]
      BY <1>1, <2>2 DEF FinishSubBlock, MeterTypeOK
    <3> QED
      BY <3>1, <3>2, <3>3 DEF Stale, CacheIsCurrent
  <2> QED
    BY <2>1, <2>2 DEF Frame
<1> QED
  BY <1>2, <1>3, <1>4, <1>5, <1>6, <1>7 DEF MeterInv, MeterTypeOK

LEMMA ResetIntegratedInv == MeterInv /\ ResetIntegrated => MeterInv'
<1> SUFFICES ASSUME MeterInv, ResetIntegrated PROVE MeterInv'
  OBVIOUS
<1>1. MeterTypeOK /\ Position \in Int /\ Position' = Position
  BY PositionType DEF MeterInv, ResetIntegrated, metering, Position
<1>2. FirstCleanSubBlock \in Nat /\ GateBlocks \in Nat /\ LraBlocks \in Nat
  BY <1>1, MeterAssumption DEF MeterTypeOK, FirstCleanSubBlock
<1>3. /\ integratedFrom' = FirstCleanSubBlock + GateBlocks
      /\ lraFrom' = FirstCleanSubBlock + LraBlocks
      /\ dirtyEnd' = Position
  BY DEF ResetIntegrated, IntegratedWatermark, LraWatermark
<1>5. Watermarks'
  <2>1. /\ Guarded(Position, FirstCleanSubBlock + GateBlocks, GateBlocks)
        /\ Guarded(Position, FirstCleanSubBlock + LraBlocks, LraBlocks)
    BY <1>1, <1>2, GuardedNow
  <2> QED
    BY <1>3, <2>1 DEF Watermarks
<1>6. CacheIsCurrent' /\ MeterTypeOK'
  BY <1>1, <1>2, <1>3
     DEF ResetIntegrated, CacheAfterClear, Stale, metering, MeterTypeOK,
         CacheIsCurrent
<1> QED
  BY <1>1, <1>3, <1>5, <1>6 DEF MeterInv

\* What MeterInit and Reset both establish.
LEMMA FreshMeter ==
    /\ 0 \in Nat /\ 0 \in 0..(SubBlockLen - 1) /\ 0 * SubBlockLen + 0 = 0
    /\ NoDirt \in Int /\ NoDirt <= 0
    /\ [i \in 0..(RingSize - 1) |-> Never]
         \in [0..(RingSize - 1) -> Nat \cup {Never}]
    /\ Stale \in [valid : BOOLEAN, value : Nat] /\ ~Stale.valid
BY MeterAssumption DEF NoDirt, Stale

LEMMA MeterInitInv == MeterInit => MeterInv
<1> SUFFICES ASSUME MeterInit PROVE MeterInv
  OBVIOUS
<1>1. Position = 0
  BY FreshMeter DEF MeterInit, Position
<1>2. MeterTypeOK
  BY <1>1, FreshMeter DEF MeterInit, MeterTypeOK
<1>3. CacheIsCurrent /\ Watermarks /\ ~sessionPaused
  BY FreshMeter DEF MeterInit, CacheIsCurrent, Watermarks
<1> QED
  BY <1>2, <1>3 DEF MeterInv

LEMMA ResetInv == MeterInv /\ Reset => MeterInv'
<1> SUFFICES ASSUME Reset PROVE MeterInv'
  OBVIOUS
<1>1. Position' = 0
  BY FreshMeter DEF Reset, Position
<1>2. MeterTypeOK'
  BY <1>1, FreshMeter DEF Reset, CacheAfterClear, MeterTypeOK
<1>3. CacheIsCurrent' /\ Watermarks' /\ ~sessionPaused'
  BY FreshMeter DEF Reset, CacheAfterClear, CacheIsCurrent, Watermarks
<1> QED
  BY <1>2, <1>3 DEF MeterInv

LEMMA ReadInv == MeterInv /\ (ReadIntegrated \/ ReadLra) => MeterInv'
<1> SUFFICES ASSUME MeterInv, ReadIntegrated \/ ReadLra PROVE MeterInv'
  OBVIOUS
<1>1. UNCHANGED <<metering, figureVars, dirtyEnd>>
  BY DEF ReadIntegrated, ReadLra
<1>2. Position' = Position
  BY <1>1 DEF metering, Position
<1>3. /\ integrated' \in [valid : BOOLEAN, value : Nat]
      /\ lra' \in [valid : BOOLEAN, value : Nat]
      /\ CacheIsCurrent'
  <2>1. /\ gated \in Nat /\ gated' = gated /\ ranged \in Nat /\ ranged' = ranged
        /\ integrated \in [valid : BOOLEAN, value : Nat]
        /\ lra \in [valid : BOOLEAN, value : Nat]
    BY <1>1 DEF figureVars, MeterInv, MeterTypeOK
  <2>2. \/ integrated' = integrated
        \/ integrated' = [valid |-> TRUE, value |-> gated]
    BY DEF ReadIntegrated, ReadLra
  <2>3. lra' = lra \/ lra' = [valid |-> TRUE, value |-> ranged]
    BY DEF ReadIntegrated, ReadLra
  <2>4. integrated' \in [valid : BOOLEAN, value : Nat]
        /\ (integrated'.valid => integrated'.value = gated)
    <3>1. CASE integrated' = integrated
      BY <2>1, <3>1, Zenon DEF MeterInv, CacheIsCurrent
    <3>2. CASE integrated' = [valid |-> TRUE, value |-> gated]
      BY <2>1, <3>2
    <3> QED
      BY <2>2, <3>1, <3>2, Zenon
  <2>5. lra' \in [valid : BOOLEAN, value : Nat]
        /\ (lra'.valid => lra'.value = ranged)
    <3>1. CASE lra' = lra
      BY <2>1, <3>1, Zenon DEF MeterInv, CacheIsCurrent
    <3>2. CASE lra' = [valid |-> TRUE, value |-> ranged]
      BY <2>1, <3>2
    <3> QED
      BY <2>3, <3>1, <3>2, Zenon
  <2> QED
    BY <2>1, <2>4, <2>5 DEF CacheIsCurrent
<1>4. MeterTypeOK'
  BY <1>1, <1>2, <1>3 DEF metering, figureVars, MeterInv, MeterTypeOK
<1>5. Watermarks' = Watermarks
  BY <1>1 DEF figureVars, Watermarks
<1> QED
  BY <1>1, <1>2, <1>3, <1>4, <1>5 DEF figureVars, MeterInv

LEMMA MeterNextInv == MeterInv /\ [MeterNext]_meterVars => MeterInv'
<1> SUFFICES ASSUME MeterInv, [MeterNext]_meterVars PROVE MeterInv'
  OBVIOUS
<1>1. CASE \E open \in BOOLEAN : Frame(open)
  BY <1>1, FrameInv
<1>2. CASE ResetIntegrated
  BY <1>2, ResetIntegratedInv
<1>3. CASE Reset
  BY <1>3, ResetInv
<1>4. CASE ReadIntegrated \/ ReadLra
  BY <1>4, ReadInv
<1>5. CASE UNCHANGED meterVars
  <2>1. MeterTypeOK' = MeterTypeOK /\ Position' = Position
    BY <1>5 DEF meterVars, metering, figureVars, readings, MeterTypeOK, Position
  <2>2. Watermarks' = Watermarks /\ CacheIsCurrent' = CacheIsCurrent
    BY <1>5 DEF meterVars, metering, figureVars, readings, Watermarks,
                CacheIsCurrent
  <2> QED
    BY <1>5, <2>1, <2>2 DEF meterVars, figureVars, MeterInv
<1> QED
  BY <1>1, <1>2, <1>3, <1>4, <1>5 DEF MeterNext

(* The watermarks always say what the material before them requires, and   *)
(* the caches what has been admitted.                                      *)
THEOREM MeterInvariant == MeterSpec => []MeterInv
<1>1. MeterInit => MeterInv
  BY MeterInitInv
<1>2. MeterInv /\ [MeterNext]_meterVars => MeterInv'
  BY MeterNextInv
<1> QED
  BY <1>1, <1>2, PTL DEF MeterSpec

(* The variables of the meter stay in their ranges.                        *)
THEOREM MeterTypeCorrect == MeterSpec => []MeterTypeOK
<1>1. MeterInv => MeterTypeOK
  BY DEF MeterInv
<1> QED
  BY <1>1, MeterInvariant, PTL

(* integratedLufs() and lraLu() never return a figure from before a reset  *)
(* or a completed sub-block.                                               *)
THEOREM CacheCurrent == MeterSpec => []CacheIsCurrent
<1>1. MeterInv => CacheIsCurrent
  BY DEF MeterInv
<1> QED
  BY <1>1, MeterInvariant, PTL

\* A completed sub-block is the work of a frame, and what its admission
\* tests read.
LEMMA CompletingStep ==
    ASSUME MeterInv, MeterNext, subCount' # subCount, subCount' # 0
    PROVE  \E open \in BOOLEAN : Frame(open) /\ FinishSubBlock(open)
BY DEF MeterNext, Frame, Accumulate, ResetIntegrated, Reset, ReadIntegrated,
       ReadLra, metering

LEMMA AdmittingStep ==
    ASSUME MeterInv, MeterNext, gated' > gated \/ ranged' > ranged
    PROVE  \E open \in BOOLEAN : Frame(open) /\ FinishSubBlock(open)
BY DEF MeterNext, Frame, Accumulate, ResetIntegrated, Reset, ReadIntegrated,
       ReadLra, figureVars, MeterInv, MeterTypeOK

LEMMA OpenFrame ==
    ASSUME MeterInv, NEW open \in BOOLEAN, Frame(open), open
    PROVE  /\ dirtyEnd' \in Int /\ subCount' \in Nat
           /\ integratedFrom' \in Nat /\ lraFrom' \in Nat
           /\ integratedFrom' = IntegratedFrom(open)
           /\ lraFrom' = LraFrom(open)
           /\ \/ dirtyEnd' = NoDirt /\ integratedFrom' = 0 /\ lraFrom' = 0
              \/ /\ Guarded(dirtyEnd', integratedFrom', GateBlocks)
                 /\ Guarded(dirtyEnd', lraFrom', LraBlocks)
<1>1. dirtyEnd' = dirtyEnd /\ dirtyEnd \in Int
  BY ResumeInv DEF MeterInv, MeterTypeOK
<1>2. subCount' \in Nat
  BY PositionAdvances DEF MeterInv
<1> QED
  BY <1>1, <1>2, ResumeInv DEF Watermarks

LEMMA GatedStep ==
    ASSUME MeterInv, MeterNext, gated' > gated
    PROVE  (subCount' - GateBlocks) * SubBlockLen >= dirtyEnd' + SubBlockLen
<1>1. PICK open \in BOOLEAN : Frame(open) /\ FinishSubBlock(open)
  BY AdmittingStep
<1>2. AdmitsGated(open, subCount')
  BY <1>1 DEF FinishSubBlock, MeterInv, MeterTypeOK
<1>3. open /\ subCount' >= GateBlocks /\ subCount' >= IntegratedFrom(open)
  BY <1>2 DEF AdmitsGated
<1> QED
  BY <1>1, <1>3, OpenFrame, MeterAssumption, AdmittedStartsLate

(* Every gating block that enters the integrated loudness starts at least  *)
(* one whole sub-block after the last dirty frame.                         *)
THEOREM GatedClean == MeterSpec => GatedIsClean
<1>1. ASSUME MeterInv, [MeterNext]_meterVars
      PROVE  [gated' > gated =>
                (subCount' - GateBlocks) * SubBlockLen >= dirtyEnd' + SubBlockLen
             ]_meterVars
  BY <1>1, GatedStep
<1> QED
  BY <1>1, MeterInvariant, PTL DEF MeterSpec, GatedIsClean

(* So does every window that enters the loudness range.                    *)
THEOREM RangedClean == MeterSpec => RangedIsClean
<1>1. ASSUME MeterInv, MeterNext, ranged' > ranged
      PROVE  (subCount' - LraBlocks) * SubBlockLen >= dirtyEnd' + SubBlockLen
  <2>1. PICK open \in BOOLEAN : Frame(open) /\ FinishSubBlock(open)
    BY <1>1, AdmittingStep
  <2>2. AdmitsRanged(open, subCount')
    BY <1>1, <2>1 DEF FinishSubBlock, MeterInv, MeterTypeOK
  <2>3. open /\ subCount' >= LraBlocks /\ subCount' >= LraFrom(open)
    BY <2>2 DEF AdmitsRanged
  <2> QED
    BY <1>1, <2>1, <2>3, OpenFrame, MeterAssumption, AdmittedStartsLate
<1>2. ASSUME MeterInv, [MeterNext]_meterVars
      PROVE  [ranged' > ranged =>
                (subCount' - LraBlocks) * SubBlockLen >= dirtyEnd' + SubBlockLen
             ]_meterVars
  BY <1>1, <1>2
<1> QED
  BY <1>2, MeterInvariant, PTL DEF MeterSpec, RangedIsClean

(* A gating block that starts two sub-blocks after the last dirty frame and *)
(* completes in an open session is counted.                                *)
THEOREM NoBlockLost == MeterSpec => NoneLost
<1> DEFINE Late == /\ subCount' = subCount + 1 /\ ~sessionPaused'
                   /\ subCount' >= GateBlocks
                   /\ (subCount' - GateBlocks) * SubBlockLen
                        >= dirtyEnd' + 2 * SubBlockLen
<1>1. ASSUME MeterInv, MeterNext, Late PROVE gated' = gated + 1
  <2>1. subCount' # subCount /\ subCount' # 0
    BY <1>1 DEF MeterInv, MeterTypeOK
  <2>2. PICK open \in BOOLEAN : Frame(open) /\ FinishSubBlock(open)
    BY <1>1, <2>1, CompletingStep
  <2>3. open
    BY <1>1, <2>2 DEF Frame
  <2>4. subCount' >= integratedFrom'
    BY <1>1, <2>2, <2>3, OpenFrame, MeterAssumption, LateIsAdmitted
  <2>5. AdmitsGated(open, subCount')
    BY <1>1, <2>2, <2>3, <2>4, OpenFrame DEF AdmitsGated
  <2> QED
    BY <2>2, <2>5 DEF FinishSubBlock
<1>2. ASSUME MeterInv, [MeterNext]_meterVars
      PROVE  [Late => gated' = gated + 1]_meterVars
  BY <1>1, <1>2
<1> QED
  BY <1>2, MeterInvariant, PTL DEF MeterSpec, NoneLost

-----------------------------------------------------------------------------
(* The session figures and their publication.                              *)

FieldNames == {"lufsI", "tp", "peak", "lra", "secs"}
Orders     == FieldNames \cup {"announce"}

\* The figures of the session there is.
Figures == [lufsI |-> gated, tp |-> dbTpMaxHold, peak |-> samplePeakMaxHold,
            lra |-> ranged, secs |-> sessionSamples]

PubRecords == [lufsI : Nat, tp : SUBSET Int, peak : SUBSET Int, lra : Nat, secs : Nat]

TypeInv ==
    /\ bypassMix \in 0..FadeLen /\ bypassTarget \in BOOLEAN /\ nonRealtime \in BOOLEAN
    /\ meterResetPending \in BOOLEAN
    /\ sessionTpSkip \in 0..ReportLag
    /\ sessionTpOpenHistory \in Seq(BOOLEAN) /\ Len(sessionTpOpenHistory) = ReportLag
    /\ sessionSamples \in Nat /\ left \in 0..MaxBlock
    /\ dbTpMaxHold \subseteq Int /\ samplePeakMaxHold \subseteq Int
    /\ callTp \subseteq Int /\ callPeak \subseteq Int /\ openAt \subseteq Int
    /\ pub \in PubRecords
    /\ stage \in {"idle", "clearing", "process", "frames", "publish"}
    /\ toPublish \in Seq(FieldNames)

\* The requests under way each end by announcing themselves.
RequestInv ==
    request \in [Requesters -> {s \in Seq(Orders) : s # <<>> => s[Len(s)] = "announce"}]

\* The position the i-th open flag is about.
FlagAt(i) == Position - ReportLag + i - 1

\* The flags tell which of the positions not yet reported were open, but for
\* those from before the reset, whose readings are skipped.
LagInv ==
    /\ openAt \subseteq (-ReportLag)..(Position - 1)
    /\ \A i \in 1..ReportLag :
          FlagAt(i) \in openAt <=> i > sessionTpSkip /\ sessionTpOpenHistory[i]

\* Between blocks there is no block's share of the holds.
CallInv == stage # "frames" => callTp = {} /\ callPeak = {}

\* The holds and the length, the block under way included.
HoldInv ==
    /\ dbTpMaxHold \cup callTp = SessionFrames(Position - ReportLag)
    /\ samplePeakMaxHold \cup callPeak = openAt \ Prehistory
    /\ IsFiniteSet(openAt \ Prehistory)
    /\ sessionSamples = Cardinality(openAt \ Prehistory)

\* Every frame from the last dirty one on was open.
CleanInv == \A p \in Int : dirtyEnd <= p /\ p < Position /\ p >= 0 => p \in openAt

\* No clear is under way or announced.
Quiet == ~meterResetPending /\ \A r \in Requesters : request[r] = <<>>

\* Then the fields the block has still to publish are all that may be behind,
\* and those of a new session are all empty before it clears them.
DisplayInv ==
    /\ stage = "publish" => toPublish # <<>>
    /\ Quiet => /\ stage \in {"idle", "process"} => pub = Figures
                /\ stage = "clearing" => Figures = Silent
                /\ stage = "publish" =>
                     \A f \in FieldNames :
                        pub[f] = Figures[f] \/ \E i \in 1..Len(toPublish) : toPublish[i] = f

SessionInv ==
    /\ MeterInv /\ TypeInv /\ RequestInv /\ LagInv
    /\ CallInv /\ HoldInv /\ CleanInv /\ DisplayInv

-----------------------------------------------------------------------------
(* What many steps share.                                                  *)

LEMMA PositionIs == MeterInv => Position \in Nat
<1> SUFFICES ASSUME MeterInv PROVE Position \in Nat
  OBVIOUS
<1>1. subCount \in Nat /\ subFill \in Nat /\ SubBlockLen \in Nat
  BY MeterAssumption DEF MeterInv, MeterTypeOK
<1>2. subCount * SubBlockLen \in Nat
  BY <1>1
<1> QED
  BY <1>1, <1>2 DEF Position

LEMMA OrderIsRequest ==
    RequestOrder \in {s \in Seq(Orders) : s # <<>> => s[Len(s)] = "announce"}
<1>1. Fields \in Seq(Orders) /\ Len(Fields) = 5
  BY DEF Fields, Orders, FieldNames
<1>2. <<"announce">> \in Seq(Orders) /\ Len(<<"announce">>) = 1
      /\ <<"announce">>[1] = "announce"
  BY DEF Orders
<1>3. /\ Fields \o <<"announce">> \in Seq(Orders)
      /\ Len(Fields \o <<"announce">>) = Len(Fields) + Len(<<"announce">>)
      /\ \A i \in 1..(Len(Fields) + Len(<<"announce">>)) :
            (Fields \o <<"announce">>)[i] =
              IF i <= Len(Fields) THEN Fields[i] ELSE <<"announce">>[i - Len(Fields)]
  BY <1>1, <1>2, ConcatProperties
<1>4. Len(RequestOrder) = 6 /\ RequestOrder[6] = "announce"
  <2>1. 6 \in 1..(Len(Fields) + Len(<<"announce">>)) /\ ~(6 <= Len(Fields))
        /\ 6 - Len(Fields) = 1
    BY <1>1, <1>2
  <2> QED
    BY <1>1, <1>2, <1>3, <2>1 DEF RequestOrder
<1> QED
  BY <1>3, <1>4 DEF RequestOrder

\* A step that moves neither the meter's position nor what belongs to the
\* session.
LEMMA SameFrames ==
    ASSUME SessionInv, [MeterNext]_meterVars,
           UNCHANGED <<metering, dirtyEnd, sessionTpSkip, sessionTpOpenHistory,
                       sessionSamples, openAt>>,
           dbTpMaxHold' \cup callTp' = dbTpMaxHold \cup callTp,
           samplePeakMaxHold' \cup callPeak' = samplePeakMaxHold \cup callPeak
    PROVE  MeterInv' /\ LagInv' /\ HoldInv' /\ CleanInv'
<1>1. MeterInv'
  BY MeterNextInv DEF SessionInv
<1>2. Position' = Position /\ dirtyEnd' = dirtyEnd
  BY DEF metering, Position
<1>3. LagInv'
  BY <1>2 DEF SessionInv, LagInv, FlagAt
<1>4. HoldInv'
  BY <1>2 DEF SessionInv, HoldInv, SessionFrames
<1>5. CleanInv'
  BY <1>2 DEF SessionInv, CleanInv
<1> QED
  BY <1>1, <1>3, <1>4, <1>5

LEMMA SameSession ==
    ASSUME SessionInv, UNCHANGED <<meterVars, sessionTpSkip, sessionTpOpenHistory,
                                   sessionSamples, openAt>>,
           dbTpMaxHold' \cup callTp' = dbTpMaxHold \cup callTp,
           samplePeakMaxHold' \cup callPeak' = samplePeakMaxHold \cup callPeak
    PROVE  MeterInv' /\ LagInv' /\ HoldInv' /\ CleanInv'
BY SameFrames DEF meterVars

LEMMA SessionInitInv == SessionInit => SessionInv
<1> SUFFICES ASSUME SessionInit PROVE SessionInv
  OBVIOUS
<1>1. MeterInv /\ Position = 0 /\ dirtyEnd = NoDirt
  BY MeterInitInv, FreshMeter DEF SessionInit, MeterInit, Position
<1>2. ReportLag \in Nat \ {0} /\ FadeLen \in Nat \ {0} /\ MaxBlock \in Nat \ {0}
  BY SessionAssumption
<1>3. AllOpen \in Seq(BOOLEAN) /\ Len(AllOpen) = ReportLag
      /\ \A i \in 1..ReportLag : AllOpen[i] = TRUE
  BY <1>2 DEF AllOpen
<1>4. Prehistory \subseteq Int /\ openAt = Prehistory
  BY <1>2 DEF Prehistory, SessionInit
<1>5. TypeInv
  <2>1. <<>> \in Seq(FieldNames) /\ Silent \in PubRecords
    BY EmptySeq DEF Silent, PubRecords
  <2>2. /\ bypassMix \in 0..FadeLen /\ sessionTpSkip \in 0..ReportLag
        /\ sessionSamples \in Nat /\ left \in 0..MaxBlock
    BY <1>2 DEF SessionInit, EngineInit
  <2>3. /\ sessionTpOpenHistory \in Seq(BOOLEAN) /\ Len(sessionTpOpenHistory) = ReportLag
        /\ bypassTarget \in BOOLEAN /\ nonRealtime \in BOOLEAN
    BY <1>3 DEF SessionInit, EngineInit
  <2>4. /\ dbTpMaxHold \subseteq Int /\ samplePeakMaxHold \subseteq Int
        /\ callTp \subseteq Int /\ callPeak \subseteq Int /\ openAt \subseteq Int
    BY <1>4 DEF SessionInit, EngineInit
  <2>5. /\ meterResetPending \in BOOLEAN /\ pub \in PubRecords /\ toPublish \in Seq(FieldNames)
        /\ stage \in {"idle", "clearing", "process", "frames", "publish"}
    BY <2>1 DEF SessionInit
  <2> QED
    BY <2>2, <2>3, <2>4, <2>5 DEF TypeInv
<1>6. RequestInv
  <2>1. <<>> \in Seq(Orders)
    BY EmptySeq
  <2> QED
    BY <2>1 DEF SessionInit, RequestInv
<1>7. LagInv
  <2>1. openAt \subseteq (-ReportLag)..(Position - 1)
    BY <1>1, <1>2, <1>4 DEF Prehistory
  <2>2. ASSUME NEW i \in 1..ReportLag
        PROVE  FlagAt(i) \in openAt <=> i > sessionTpSkip /\ sessionTpOpenHistory[i]
    <3>1. FlagAt(i) \in openAt
      BY <1>1, <1>2, <1>4 DEF FlagAt, Prehistory
    <3> QED
      BY <1>2, <1>3, <3>1 DEF SessionInit, EngineInit
  <2> QED
    BY <2>1, <2>2 DEF LagInv
<1>8. HoldInv
  <2>1. SessionFrames(Position - ReportLag) = {}
    BY <1>1, <1>2, <1>4 DEF SessionFrames, Prehistory
  <2>2. openAt \ Prehistory = {}
    BY <1>4
  <2> QED
    BY <2>1, <2>2, FS_EmptySet DEF SessionInit, EngineInit, HoldInv
<1>9. CallInv /\ CleanInv
  BY <1>1 DEF CallInv, CleanInv, SessionInit, EngineInit
<1>10. DisplayInv
  BY DEF SessionInit, MeterInit, EngineInit, DisplayInv, Figures, Silent
<1> QED
  BY <1>1, <1>5, <1>6, <1>7, <1>8, <1>9, <1>10 DEF SessionInv

LEMMA BeginRequestKeeps ==
    ASSUME SessionInv, NEW r \in Requesters, BeginRequest(r) PROVE SessionInv'
<1>1. request' = [request EXCEPT ![r] = RequestOrder]
      /\ UNCHANGED <<meterVars, engineVars, holdVars, pub, meterResetPending, left,
                     stage, toPublish, openAt>>
  BY DEF BeginRequest, history
<1>2. MeterInv' /\ LagInv' /\ HoldInv' /\ CleanInv'
  BY <1>1, SameSession DEF engineVars, holdVars
<1>3. TypeInv' /\ CallInv'
  BY <1>1 DEF SessionInv, TypeInv, CallInv, engineVars, holdVars
<1>4. RequestInv'
  BY <1>1, OrderIsRequest DEF SessionInv, RequestInv
<1>5. ~Quiet'
  <2>1. request'[r] = RequestOrder /\ RequestOrder # <<>>
    BY <1>1 DEF SessionInv, RequestInv, RequestOrder, Fields
  <2> QED
    BY <2>1 DEF Quiet
<1>6. DisplayInv'
  BY <1>1, <1>5 DEF SessionInv, DisplayInv
<1> QED
  BY <1>2, <1>3, <1>4, <1>6 DEF SessionInv

LEMMA RequestStepKeeps ==
    ASSUME SessionInv, NEW r \in Requesters, RequestStep(r) PROVE SessionInv'
<1> DEFINE s == request[r]
<1>1. /\ s # <<>> /\ request' = [request EXCEPT ![r] = Tail(s)]
      /\ s \in Seq(Orders) /\ s[Len(s)] = "announce"
      /\ UNCHANGED <<meterVars, engineVars, holdVars, left, stage, toPublish, openAt>>
  BY DEF RequestStep, SessionInv, RequestInv, history
<1>2. /\ Head(s) \in Orders /\ Tail(s) \in Seq(Orders) /\ Len(Tail(s)) = Len(s) - 1
      /\ \A i \in 1..Len(Tail(s)) : Tail(s)[i] = s[i + 1]
      /\ Len(s) \in Nat \ {0} /\ Head(s) = s[1]
  BY <1>1, HeadTailProperties, EmptySeq
<1>3. MeterInv' /\ LagInv' /\ HoldInv' /\ CleanInv'
  BY <1>1, SameSession DEF engineVars, holdVars
<1>4. pub' \in PubRecords /\ meterResetPending' \in BOOLEAN
  <2>1. pub \in PubRecords /\ Silent \in PubRecords /\ meterResetPending \in BOOLEAN
    BY DEF SessionInv, TypeInv, Silent, PubRecords
  <2>2. CASE Head(s) = "announce"
    BY <2>1, <2>2 DEF RequestStep
  <2>3. CASE Head(s) # "announce"
    <3>1. pub' = [pub EXCEPT ![Head(s)] = Silent[Head(s)]]
          /\ meterResetPending' = meterResetPending /\ Head(s) \in FieldNames
      BY <1>2, <2>3 DEF RequestStep, Orders
    <3> QED
      BY <2>1, <3>1 DEF PubRecords, FieldNames
  <2> QED
    BY <2>2, <2>3
<1>5. TypeInv' /\ CallInv'
  BY <1>1, <1>4 DEF SessionInv, TypeInv, CallInv, engineVars, holdVars
<1>6. Tail(s) # <<>> => Tail(s)[Len(Tail(s))] = "announce"
  BY <1>1, <1>2, EmptySeq
<1>7. RequestInv'
  BY <1>1, <1>2, <1>6 DEF SessionInv, RequestInv
<1>8. ~Quiet'
  <2>1. CASE Tail(s) = <<>>
    <3>1. Len(s) = 1 /\ Head(s) = "announce"
      <4>1. Len(Tail(s)) = 0
        BY <2>1, EmptySeq
      <4> QED
        BY <1>1, <1>2, <4>1
    <3>2. meterResetPending' = TRUE
      BY <3>1 DEF RequestStep
    <3> QED
      BY <3>2 DEF Quiet
  <2>2. CASE Tail(s) # <<>>
    <3>1. request'[r] = Tail(s)
      BY <1>1 DEF SessionInv, RequestInv
    <3> QED
      BY <2>2, <3>1 DEF Quiet
  <2> QED
    BY <2>1, <2>2
<1>9. DisplayInv'
  BY <1>1, <1>8 DEF SessionInv, DisplayInv
<1> QED
  BY <1>3, <1>5, <1>7, <1>9 DEF SessionInv

LEMMA ConsumeResetKeeps ==
    ASSUME SessionInv, stage = "idle", ConsumeReset PROVE SessionInv'
<1>1. /\ meterResetPending' = FALSE /\ ResetIntegrated
      /\ sessionSamples' = 0 /\ sessionTpSkip' = ReportLag
      /\ dbTpMaxHold' = {} /\ samplePeakMaxHold' = {} /\ openAt' = {}
      /\ stage' = "clearing"
      /\ UNCHANGED <<bypassMix, bypassTarget, nonRealtime, sessionTpOpenHistory,
                     callTp, callPeak, pub, left, toPublish, request>>
  BY DEF ConsumeReset, SkipAfterReset
<1>2. /\ MeterInv' /\ Position' = Position /\ Position \in Nat /\ dirtyEnd' = Position
      /\ gated' = 0 /\ ranged' = 0 /\ ReportLag \in Nat \ {0}
  BY <1>1, PositionIs, MeterNextInv, SessionAssumption
     DEF SessionInv, MeterNext, ResetIntegrated, metering, Position
<1>3. TypeInv'
  <2>1. sessionTpSkip' \in 0..ReportLag /\ sessionSamples' \in Nat
    BY <1>1, <1>2
  <2> QED
    BY <1>1, <2>1 DEF SessionInv, TypeInv
<1>4. RequestInv' /\ DisplayInv'
  BY <1>1, <1>2 DEF SessionInv, RequestInv, DisplayInv, Figures, Silent
<1>5. LagInv'
  BY <1>1, <1>2 DEF LagInv
<1>6. callTp = {} /\ callPeak = {}
  BY DEF SessionInv, CallInv
<1>7. CallInv' /\ CleanInv'
  BY <1>1, <1>2, <1>6 DEF CallInv, CleanInv
<1>8. HoldInv'
  <2>1. SessionFrames(Position - ReportLag)' = {} /\ (openAt \ Prehistory)' = {}
    BY <1>1 DEF SessionFrames
  <2> QED
    BY <1>1, <1>6, <2>1, FS_EmptySet DEF HoldInv
<1> QED
  BY <1>2, <1>3, <1>4, <1>5, <1>7, <1>8 DEF SessionInv

LEMMA NothingToResetKeeps ==
    ASSUME SessionInv, stage = "idle", NothingToReset PROVE SessionInv'
<1>1. /\ ~meterResetPending /\ stage' = "process"
      /\ UNCHANGED <<meterVars, engineVars, holdVars, pub, meterResetPending, left,
                     toPublish, request, openAt>>
  BY DEF NothingToReset, history
<1>2. MeterInv' /\ LagInv' /\ HoldInv' /\ CleanInv'
  BY <1>1, SameSession DEF engineVars, holdVars
<1>3. TypeInv' /\ CallInv' /\ RequestInv'
  BY <1>1 DEF SessionInv, TypeInv, CallInv, RequestInv, engineVars, holdVars
<1>4. DisplayInv'
  BY <1>1
     DEF SessionInv, DisplayInv, Quiet, Figures, engineVars, holdVars, meterVars, figureVars
<1> QED
  BY <1>2, <1>3, <1>4 DEF SessionInv

LEMMA ClearKeeps ==
    ASSUME SessionInv, Clear PROVE SessionInv'
<1>1. /\ stage = "clearing" /\ stage' = "process" /\ pub' = Silent
      /\ UNCHANGED <<meterVars, engineVars, holdVars, meterResetPending, left,
                     toPublish, request, openAt>>
  BY DEF Clear, history
<1>2. MeterInv' /\ LagInv' /\ HoldInv' /\ CleanInv'
  BY <1>1, SameSession DEF engineVars, holdVars
<1>3. Silent \in PubRecords
  BY DEF Silent, PubRecords
<1>4. TypeInv' /\ CallInv' /\ RequestInv'
  BY <1>1, <1>3 DEF SessionInv, TypeInv, CallInv, RequestInv, engineVars, holdVars
<1>5. DisplayInv'
  BY <1>1
     DEF SessionInv, DisplayInv, Quiet, Figures, engineVars, holdVars, meterVars, figureVars
<1> QED
  BY <1>2, <1>3, <1>4, <1>5 DEF SessionInv

LEMMA BeginProcessKeeps ==
    ASSUME SessionInv, NEW n \in 0..MaxBlock, BeginProcess(n) PROVE SessionInv'
<1>1. /\ stage = "process" /\ left' = n
      /\ UNCHANGED <<meterVars, bypassMix, sessionTpSkip, sessionTpOpenHistory,
                     sessionSamples, holdVars, pub, meterResetPending, toPublish,
                     request, openAt>>
  BY DEF BeginProcess, history
<1>2. callTp = {} /\ callPeak = {}
  BY <1>1 DEF SessionInv, CallInv
<1>3. /\ callTp' = {} /\ callPeak' = {} /\ stage' \in {"idle", "frames"}
      /\ bypassTarget' \in BOOLEAN /\ nonRealtime' \in BOOLEAN
  <2>1. CASE n = 0
    BY <1>2, <2>1 DEF BeginProcess, SessionInv, TypeInv
  <2>2. CASE n # 0
    BY <2>2 DEF BeginProcess
  <2> QED
    BY <2>1, <2>2
<1>4. MeterInv' /\ LagInv' /\ HoldInv' /\ CleanInv'
  BY <1>1, <1>2, <1>3, SameSession DEF holdVars
<1>5. TypeInv' /\ CallInv' /\ RequestInv'
  BY <1>1, <1>3 DEF SessionInv, TypeInv, CallInv, RequestInv, holdVars
<1>6. DisplayInv'
  BY <1>1, <1>3 DEF SessionInv, DisplayInv, Quiet, Figures, holdVars, meterVars, figureVars
<1> QED
  BY <1>4, <1>5, <1>6 DEF SessionInv

LEMMA FoldHoldsKeeps ==
    ASSUME SessionInv, FoldHolds PROVE SessionInv'
<1>1. /\ stage = "frames" /\ stage' = "publish" /\ toPublish' = Fields
      /\ dbTpMaxHold' = dbTpMaxHold \cup callTp
      /\ samplePeakMaxHold' = samplePeakMaxHold \cup callPeak
      /\ nonRealtime' = FALSE /\ callTp' = {} /\ callPeak' = {}
      /\ UNCHANGED <<meterVars, bypassMix, bypassTarget, sessionTpSkip,
                     sessionTpOpenHistory, sessionSamples, pub, meterResetPending,
                     left, request, openAt>>
  BY DEF FoldHolds, history
<1>2. MeterInv' /\ LagInv' /\ HoldInv' /\ CleanInv'
  BY <1>1, SameSession
<1>3. /\ Fields \in Seq(FieldNames) /\ Fields # <<>>
      /\ \A f \in FieldNames : \E i \in 1..Len(Fields) : Fields[i] = f
  BY DEF Fields, FieldNames
<1>4. TypeInv' /\ CallInv' /\ RequestInv'
  BY <1>1, <1>3 DEF SessionInv, TypeInv, CallInv, RequestInv
<1>5. DisplayInv'
  BY <1>1, <1>3 DEF SessionInv, DisplayInv
<1> QED
  BY <1>2, <1>4, <1>5 DEF SessionInv

LEMMA PublishFieldKeeps ==
    ASSUME SessionInv, PublishField PROVE SessionInv'
<1> DEFINE h == Head(toPublish)
<1>1. /\ stage = "publish" /\ pub' = [pub EXCEPT ![h] = Reading[h]]
      /\ toPublish' = Tail(toPublish)
      /\ stage' = IF toPublish' = <<>> THEN "idle" ELSE stage
      /\ UNCHANGED <<engineVars, holdVars, meterResetPending, left, request, openAt>>
  BY DEF PublishField, history
<1>2. /\ toPublish \in Seq(FieldNames) /\ toPublish # <<>>
      /\ callTp = {} /\ callPeak = {} /\ pub \in PubRecords
  BY <1>1 DEF SessionInv, TypeInv, CallInv, DisplayInv
<1>3. /\ h \in FieldNames /\ h = toPublish[1] /\ Tail(toPublish) \in Seq(FieldNames)
      /\ Len(Tail(toPublish)) = Len(toPublish) - 1 /\ Len(toPublish) \in Nat \ {0}
      /\ \A i \in 1..Len(Tail(toPublish)) : Tail(toPublish)[i] = toPublish[i + 1]
  BY <1>2, HeadTailProperties, EmptySeq
<1>4. /\ \/ UNCHANGED meterVars
         \/ h = "lufsI" /\ ~integrated.valid /\ ReadIntegrated
         \/ h = "lra" /\ ~lra.valid /\ ReadLra
      /\ h = "lufsI" /\ ~integrated.valid => ReadIntegrated
      /\ h = "lra" /\ ~lra.valid => ReadLra
  BY <1>3 DEF PublishField, FieldNames
<1>5. [MeterNext]_meterVars /\ UNCHANGED <<metering, figureVars, dirtyEnd>>
  BY <1>4 DEF MeterNext, ReadIntegrated, ReadLra, meterVars
<1>6. MeterInv' /\ LagInv' /\ HoldInv' /\ CleanInv'
  BY <1>1, <1>5, SameFrames DEF engineVars, holdVars
<1>7. UNCHANGED Figures /\ Figures \in PubRecords
  BY <1>1, <1>5
     DEF Figures, PubRecords, SessionInv, MeterInv, MeterTypeOK, TypeInv, engineVars,
         holdVars, figureVars
<1>8. Reading[h] = Figures[h]
  <2>1. CASE h = "lufsI"
    <3>1. integrated'.value = gated
      <4>1. CASE integrated.valid
        BY <1>4, <2>1, <4>1 DEF meterVars, readings, SessionInv, MeterInv, CacheIsCurrent
      <4>2. CASE ~integrated.valid
        BY <1>4, <2>1, <4>2 DEF ReadIntegrated
      <4> QED
        BY <4>1, <4>2
    <3> QED
      BY <2>1, <3>1 DEF Reading, Figures
  <2>2. CASE h = "lra"
    <3>1. lra'.value = ranged
      <4>1. CASE lra.valid
        BY <1>4, <2>2, <4>1 DEF meterVars, readings, SessionInv, MeterInv, CacheIsCurrent
      <4>2. CASE ~lra.valid
        BY <1>4, <2>2, <4>2 DEF ReadLra
      <4> QED
        BY <4>1, <4>2
    <3> QED
      BY <2>2, <3>1 DEF Reading, Figures
  <2>3. CASE h \in {"tp", "peak", "secs"}
    BY <2>3 DEF Reading, Figures
  <2> QED
    BY <1>3, <2>1, <2>2, <2>3 DEF FieldNames
<1>9. /\ pub' \in PubRecords /\ pub'[h] = Figures[h]
      /\ \A f \in FieldNames \ {h} : pub'[f] = pub[f]
  <2>1. pub' = [pub EXCEPT ![h] = Figures[h]]
    BY <1>1, <1>8
  <2> HIDE DEF h
  <2> QED
    BY <1>2, <1>3, <1>7, <2>1 DEF PubRecords, FieldNames
<1>10. TypeInv' /\ CallInv' /\ RequestInv'
  BY <1>1, <1>2, <1>3, <1>9 DEF SessionInv, TypeInv, CallInv, RequestInv, engineVars, holdVars
<1>11. ASSUME Quiet, NEW f \in FieldNames
       PROVE  pub'[f] = Figures[f] \/ \E i \in 1..Len(toPublish') : toPublish'[i] = f
  <2>1. CASE f = h
    BY <1>9, <2>1
  <2>2. CASE f # h /\ pub[f] = Figures[f]
    BY <1>9, <2>2
  <2>3. CASE f # h /\ \E i \in 1..Len(toPublish) : toPublish[i] = f
    <3>1. PICK i \in 1..Len(toPublish) : toPublish[i] = f
      BY <2>3
    <3>2. i - 1 \in 1..Len(Tail(toPublish)) /\ (i - 1) + 1 = i
      BY <1>3, <2>3, <3>1
    <3>3. Tail(toPublish)[i - 1] = f
      BY <1>3, <3>1, <3>2
    <3> QED
      BY <1>1, <3>2, <3>3
  <2> QED
    BY <1>1, <1>11, <2>1, <2>2, <2>3 DEF SessionInv, DisplayInv
<1>12. DisplayInv'
  <2>1. Quiet' = Quiet
    BY <1>1 DEF Quiet
  <2>2. CASE toPublish' = <<>>
    <3>1. stage' = "idle"
      BY <1>1, <2>2
    <3>2. Quiet => pub' = Figures
      <4>1. Len(toPublish') = 0
        BY <2>2, EmptySeq
      <4>2. Quiet => \A f \in FieldNames : pub'[f] = Figures[f]
        BY <1>11, <4>1
      <4> QED
        BY <1>7, <1>9, <4>2 DEF PubRecords, FieldNames
    <3> QED
      BY <1>7, <2>1, <3>1, <3>2 DEF DisplayInv
  <2>3. CASE toPublish' # <<>>
    BY <1>1, <1>7, <1>11, <2>1, <2>3 DEF DisplayInv
  <2> QED
    BY <2>2, <2>3
<1> QED
  BY <1>6, <1>10, <1>12 DEF SessionInv

LEMMA PrepareKeeps ==
    ASSUME SessionInv, PrepareToPlay PROVE SessionInv'
<1>1. /\ stage = "idle" /\ Reset
      /\ bypassMix' = IF bypassTarget THEN FadeLen ELSE 0
      /\ sessionTpSkip' = 0 /\ sessionTpOpenHistory' = AllOpen
      /\ sessionSamples' = 0 /\ callTp' = {} /\ callPeak' = {}
      /\ dbTpMaxHold' = {} /\ samplePeakMaxHold' = {} /\ pub' = Silent
      /\ openAt' = Prehistory
      /\ UNCHANGED <<bypassTarget, nonRealtime, meterResetPending, left, stage,
                     toPublish, request>>
  BY DEF PrepareToPlay
<1>2. /\ MeterInv' /\ Position' = 0 /\ dirtyEnd' = NoDirt /\ gated' = 0 /\ ranged' = 0
      /\ ReportLag \in Nat \ {0} /\ FadeLen \in Nat \ {0}
  BY <1>1, MeterNextInv, SessionAssumption, FreshMeter
     DEF SessionInv, MeterNext, Reset, Position
<1>3. AllOpen \in Seq(BOOLEAN) /\ Len(AllOpen) = ReportLag
      /\ \A i \in 1..ReportLag : AllOpen[i] = TRUE
  BY <1>2 DEF AllOpen
<1>4. Silent \in PubRecords /\ Prehistory \subseteq Int
  BY <1>2 DEF Silent, PubRecords, Prehistory
<1>5. TypeInv'
  <2>1. bypassMix' \in 0..FadeLen /\ sessionTpSkip' \in 0..ReportLag
        /\ sessionSamples' \in Nat
    BY <1>1, <1>2
  <2>2. sessionTpOpenHistory' \in Seq(BOOLEAN) /\ Len(sessionTpOpenHistory') = ReportLag
    BY <1>1, <1>3
  <2>3. pub' \in PubRecords /\ openAt' \subseteq Int /\ callTp' \subseteq Int
        /\ callPeak' \subseteq Int /\ dbTpMaxHold' \subseteq Int
        /\ samplePeakMaxHold' \subseteq Int
    BY <1>1, <1>4
  <2> QED
    BY <1>1, <2>1, <2>2, <2>3 DEF SessionInv, TypeInv
<1>6. LagInv'
  <2>1. openAt' \subseteq (-ReportLag)..(Position' - 1)
    BY <1>1, <1>2 DEF Prehistory
  <2>2. ASSUME NEW i \in 1..ReportLag
        PROVE  FlagAt(i)' \in openAt' <=> i > sessionTpSkip' /\ sessionTpOpenHistory'[i]
    <3>1. FlagAt(i)' \in openAt'
      BY <1>1, <1>2 DEF FlagAt, Prehistory
    <3> QED
      BY <1>1, <1>2, <1>3, <3>1
  <2> QED
    BY <2>1, <2>2 DEF LagInv
<1>7. HoldInv'
  <2>1. SessionFrames(Position - ReportLag)' = {}
    BY <1>1, <1>2 DEF SessionFrames, Prehistory
  <2>2. (openAt \ Prehistory)' = {}
    BY <1>1 DEF Prehistory
  <2> QED
    BY <1>1, <2>1, <2>2, FS_EmptySet DEF HoldInv
<1>8. CallInv' /\ RequestInv' /\ CleanInv'
  BY <1>1, <1>2 DEF CallInv, SessionInv, RequestInv, CleanInv
<1>9. DisplayInv'
  BY <1>1, <1>2 DEF DisplayInv, Figures, Silent
<1> QED
  BY <1>2, <1>5, <1>6, <1>7, <1>8, <1>9 DEF SessionInv

\* One frame: its own flag joins the others, and the oldest decides whether
\* the position it is about enters the true peak.
LEMMA SessionFrameKeeps ==
    ASSUME SessionInv, SessionFrame PROVE SessionInv'
<1> DEFINE open == SessionOpen
           old  == sessionTpOpenHistory
<1>1. /\ stage = "frames" /\ left > 0 /\ Frame(open)
      /\ bypassMix' = Faded
      /\ sessionTpSkip' = IF sessionTpSkip > 0 THEN sessionTpSkip - 1 ELSE 0
      /\ callTp' = IF sessionTpSkip = 0 /\ old[1]
                     THEN callTp \cup {Position - ReportLag} ELSE callTp
      /\ sessionTpOpenHistory' = Append(Tail(old), open)
      /\ callPeak' = (IF open THEN callPeak \cup {Position} ELSE callPeak)
      /\ sessionSamples' = (IF open THEN sessionSamples + 1 ELSE sessionSamples)
      /\ openAt' = (IF Audition THEN openAt ELSE openAt \cup {Position})
      /\ left' = left - 1
      /\ UNCHANGED <<bypassTarget, nonRealtime, holdVars, pub, meterResetPending,
                     stage, toPublish, request>>
  BY DEF SessionFrame, CountsFrame, TpPositionOpen
<1>2. /\ ReportLag \in Nat \ {0} /\ FadeLen \in Nat \ {0} /\ MaxBlock \in Nat \ {0}
      /\ Position \in Nat /\ sessionTpSkip \in 0..ReportLag
      /\ old \in Seq(BOOLEAN) /\ Len(old) = ReportLag
      /\ bypassMix \in 0..FadeLen /\ left \in 0..MaxBlock
  BY SessionAssumption, PositionIs DEF SessionInv, TypeInv
<1>3. Faded \in 0..FadeLen /\ open \in BOOLEAN /\ (Audition <=> ~open)
  <2>1. Faded \in 0..FadeLen
    BY <1>2 DEF Faded
  <2> QED
    BY <2>1 DEF Audition, SessionOpen
<1> HIDE DEF open
<1>4. MeterInv' /\ Position' = Position + 1
      /\ dirtyEnd' = (IF open THEN dirtyEnd ELSE Position + 1)
  BY <1>1, <1>3, MeterNextInv, PositionAdvances
     DEF SessionInv, MeterInv, MeterNext, Frame
<1>5. openAt' = IF open THEN openAt \cup {Position} ELSE openAt
  BY <1>1, <1>3
<1>6. /\ openAt \subseteq (-ReportLag)..(Position - 1)
      /\ \A i \in 1..ReportLag : FlagAt(i) \in openAt <=> i > sessionTpSkip /\ old[i]
  BY DEF SessionInv, LagInv
<1>7. /\ sessionTpOpenHistory' \in Seq(BOOLEAN) /\ Len(sessionTpOpenHistory') = ReportLag
      /\ sessionTpOpenHistory'[ReportLag] = open
      /\ \A i \in 1..(ReportLag - 1) : sessionTpOpenHistory'[i] = old[i + 1]
  <2>1. old # <<>>
    BY <1>2, EmptySeq
  <2>2. /\ Tail(old) \in Seq(BOOLEAN) /\ Len(Tail(old)) = ReportLag - 1
        /\ \A i \in 1..Len(Tail(old)) : Tail(old)[i] = old[i + 1]
    BY <1>2, <2>1, HeadTailProperties
  <2>3. /\ Append(Tail(old), open) \in Seq(BOOLEAN)
        /\ Len(Append(Tail(old), open)) = Len(Tail(old)) + 1
        /\ \A i \in 1..Len(Tail(old)) : Append(Tail(old), open)[i] = Tail(old)[i]
        /\ Append(Tail(old), open)[Len(Tail(old)) + 1] = open
    BY <1>3, <2>2, AppendProperties
  <2>4. sessionTpOpenHistory' = Append(Tail(old), open)
    BY <1>1
  <2> QED
    BY <1>2, <2>2, <2>3, <2>4
<1>8. TypeInv'
  <2>1. bypassMix' \in 0..FadeLen /\ left' \in 0..MaxBlock
        /\ sessionTpSkip' \in 0..ReportLag
    BY <1>1, <1>2, <1>3
  <2>2. sessionSamples' \in Nat
    BY <1>1, <1>3 DEF SessionInv, TypeInv
  <2>3. /\ callTp' \subseteq Int /\ callPeak' \subseteq Int /\ openAt' \subseteq Int
    BY <1>1, <1>2, <1>3, <1>5 DEF SessionInv, TypeInv
  <2> QED
    BY <1>1, <1>7, <2>1, <2>2, <2>3 DEF SessionInv, TypeInv, holdVars
<1>9. LagInv'
  <2>1. openAt' \subseteq (-ReportLag)..(Position' - 1)
    BY <1>2, <1>4, <1>5, <1>6
  <2>2. ASSUME NEW i \in 1..ReportLag
        PROVE  FlagAt(i)' \in openAt' <=> i > sessionTpSkip' /\ sessionTpOpenHistory'[i]
    <3>1. CASE i = ReportLag
      <4>1. FlagAt(i)' = Position
        BY <1>2, <1>4, <3>1 DEF FlagAt
      <4>2. Position \notin openAt /\ i > sessionTpSkip'
        BY <1>1, <1>2, <1>6, <3>1
      <4> QED
        BY <1>3, <1>5, <1>7, <3>1, <4>1, <4>2
    <3>2. CASE i # ReportLag
      <4>1. i + 1 \in 1..ReportLag /\ i \in 1..(ReportLag - 1)
        BY <1>2, <3>2
      <4>2. FlagAt(i)' = FlagAt(i + 1) /\ FlagAt(i + 1) # Position
        BY <1>2, <1>4, <4>1 DEF FlagAt
      <4>3. i > sessionTpSkip' <=> i + 1 > sessionTpSkip
        BY <1>1, <1>2, <4>1
      <4>4. FlagAt(i)' \in openAt' <=> FlagAt(i + 1) \in openAt
        BY <1>5, <4>2
      <4>5. sessionTpOpenHistory'[i] = old[i + 1]
        BY <1>7, <4>1
      <4> QED
        BY <1>6, <4>1, <4>3, <4>4, <4>5
    <3> QED
      BY <3>1, <3>2
  <2> QED
    BY <2>1, <2>2 DEF LagInv
<1>10. HoldInv'
  <2>1. /\ dbTpMaxHold \cup callTp = SessionFrames(Position - ReportLag)
        /\ samplePeakMaxHold \cup callPeak = openAt \ Prehistory
        /\ IsFiniteSet(openAt \ Prehistory)
        /\ sessionSamples = Cardinality(openAt \ Prehistory)
        /\ dbTpMaxHold' = dbTpMaxHold /\ samplePeakMaxHold' = samplePeakMaxHold
    BY <1>1 DEF SessionInv, HoldInv, holdVars
  <2>2. dbTpMaxHold' \cup callTp' = SessionFrames(Position - ReportLag)'
    <3>1. (Position - ReportLag) \in openAt <=> sessionTpSkip = 0 /\ old[1]
      <4>1. 1 \in 1..ReportLag /\ FlagAt(1) = Position - ReportLag
        BY <1>2 DEF FlagAt
      <4>2. 1 > sessionTpSkip <=> sessionTpSkip = 0
        BY <1>2
      <4> QED
        BY <1>6, <4>1, <4>2
    <3>2. SessionFrames(Position - ReportLag)'
            = SessionFrames(Position - ReportLag)
                \cup (IF (Position - ReportLag) \in openAt THEN {Position - ReportLag} ELSE {})
      <4>1. SessionFrames(Position - ReportLag)'
              = {p \in openAt' : p < Position' - ReportLag}
        BY DEF SessionFrames
      <4>2. \A p \in openAt' : p < Position' - ReportLag <=>
                 p \in openAt /\ (p < Position - ReportLag \/ p = Position - ReportLag)
        BY <1>2, <1>4, <1>5, <1>6
      <4>3. openAt \subseteq openAt'
        BY <1>5
      <4> QED
        BY <4>1, <4>2, <4>3 DEF SessionFrames
    <3> QED
      BY <1>1, <2>1, <3>1, <3>2
  <2>3. Position \notin openAt /\ Position \notin Prehistory
    BY <1>2, <1>6 DEF Prehistory
  <2>4. (openAt \ Prehistory)' = IF open THEN (openAt \ Prehistory) \cup {Position}
                                 ELSE openAt \ Prehistory
    BY <1>5, <2>3 DEF Prehistory
  <2>5. samplePeakMaxHold' \cup callPeak' = (openAt \ Prehistory)'
    BY <1>1, <2>1, <2>4
  <2>6. IsFiniteSet((openAt \ Prehistory)')
        /\ sessionSamples' = Cardinality((openAt \ Prehistory)')
    <3>1. CASE open
      <4> DEFINE S == openAt \ Prehistory
      <4>1. Position \notin S /\ IsFiniteSet(S) /\ (openAt \ Prehistory)' = S \cup {Position}
        BY <2>1, <2>3, <2>4, <3>1
      <4>2. sessionSamples' = Cardinality(S) + 1
        <5>1. sessionSamples' = sessionSamples + 1
          BY <1>1, <3>1
        <5> QED
          BY <2>1, <5>1
      <4> HIDE DEF S
      <4>3. IsFiniteSet(S \cup {Position})
            /\ Cardinality(S \cup {Position}) = Cardinality(S) + 1
        BY <4>1, FS_AddElement
      <4> QED
        BY <4>1, <4>2, <4>3
    <3>2. CASE ~open
      <4>1. sessionSamples' = sessionSamples /\ (openAt \ Prehistory)' = openAt \ Prehistory
        BY <1>1, <2>4, <3>2
      <4> QED
        BY <2>1, <4>1
    <3> QED
      BY <3>1, <3>2
  <2> QED
    BY <2>2, <2>5, <2>6 DEF HoldInv
<1>11. CleanInv'
  <2> SUFFICES ASSUME NEW p \in Int, dirtyEnd' <= p, p < Position', p >= 0
               PROVE  p \in openAt'
    BY DEF CleanInv
  <2>1. open
    BY <1>2, <1>3, <1>4
  <2>2. CASE p = Position
    BY <1>5, <2>1, <2>2
  <2>3. CASE p # Position
    BY <1>2, <1>4, <1>5, <2>1, <2>3 DEF SessionInv, CleanInv
  <2> QED
    BY <2>2, <2>3
<1>12. CallInv' /\ RequestInv' /\ DisplayInv'
  BY <1>1 DEF SessionInv, CallInv, RequestInv, DisplayInv
<1> QED
  BY <1>4, <1>8, <1>9, <1>10, <1>11, <1>12 DEF SessionInv

LEMMA SessionStutter == SessionInv /\ UNCHANGED sessionVars => SessionInv'
<1> SUFFICES ASSUME SessionInv, UNCHANGED sessionVars PROVE SessionInv'
  OBVIOUS
<1>1. UNCHANGED <<meterVars, engineVars, holdVars, pub, meterResetPending, left, stage,
                  toPublish, request, openAt>>
  BY DEF sessionVars, history
<1>2. MeterInv' /\ LagInv' /\ HoldInv' /\ CleanInv'
  BY <1>1, SameSession DEF engineVars, holdVars
<1>3. TypeInv' /\ CallInv' /\ RequestInv'
  BY <1>1 DEF SessionInv, TypeInv, CallInv, RequestInv, engineVars, holdVars
<1>4. DisplayInv'
  BY <1>1
     DEF SessionInv, DisplayInv, Quiet, Figures, engineVars, holdVars, meterVars, figureVars
<1> QED
  BY <1>2, <1>3, <1>4 DEF SessionInv

LEMMA SessionNextKeeps == SessionInv /\ [SessionNext]_sessionVars => SessionInv'
<1> SUFFICES ASSUME SessionInv, [SessionNext]_sessionVars PROVE SessionInv'
  OBVIOUS
<1>1. CASE BlockTop
  BY <1>1, ConsumeResetKeeps, NothingToResetKeeps DEF BlockTop
<1>2. CASE Clear \/ SessionFrame \/ FoldHolds \/ PublishField
  BY <1>2, ClearKeeps, SessionFrameKeeps, FoldHoldsKeeps, PublishFieldKeeps
<1>3. CASE \E n \in 0..MaxBlock : BeginProcess(n)
  BY <1>3, BeginProcessKeeps
<1>4. CASE PrepareToPlay
  BY <1>4, PrepareKeeps
<1>5. CASE \E r \in Requesters : BeginRequest(r) \/ RequestStep(r)
  BY <1>5, BeginRequestKeeps, RequestStepKeeps
<1>6. CASE UNCHANGED sessionVars
  BY <1>6, SessionStutter
<1> QED
  BY <1>1, <1>2, <1>3, <1>4, <1>5, <1>6 DEF SessionNext, Audio

-----------------------------------------------------------------------------
(* What it gives.                                                          *)

\* The session's invariant: what the open flags, the holds, the watermarks and
\* the display have to do with the frames that were open since the reset.
THEOREM SessionKeeps == SessionSpec => []SessionInv
<1> QED
  BY SessionInitInv, SessionNextKeeps, PTL DEF SessionSpec

\* The session true peak is that of exactly the open positions since the reset
\* that the estimator has reported (resetMeterHolds, the open flags of
\* process), whatever the lag.
THEOREM TruePeakExact == SessionSpec => []TruePeakOfSession
<1>1. SessionInv => TruePeakOfSession
  <2> SUFFICES ASSUME SessionInv PROVE TruePeakOfSession
    OBVIOUS
  <2>1. InBlock(callTp) = callTp
    BY DEF InBlock, SessionInv, CallInv
  <2> QED
    BY <2>1 DEF TruePeakOfSession, SessionInv, HoldInv
<1> QED
  BY <1>1, SessionKeeps, PTL

\* The sample peak and the session length cover exactly the open frames.
THEOREM PeakAndLengthExact == SessionSpec => []PeakAndLengthOfSession
<1>1. SessionInv => PeakAndLengthOfSession
  <2> SUFFICES ASSUME SessionInv PROVE PeakAndLengthOfSession
    OBVIOUS
  <2>1. InBlock(callPeak) = callPeak
    BY DEF InBlock, SessionInv, CallInv
  <2>2. SessionFrames(Position) = openAt
    <3>1. Position \in Nat /\ ReportLag \in Nat
      BY PositionIs, SessionAssumption DEF SessionInv
    <3>2. openAt \subseteq (-ReportLag)..(Position - 1)
      BY DEF SessionInv, LagInv
    <3>3. \A p \in openAt : p < Position
      BY <3>1, <3>2
    <3> QED
      BY <3>3 DEF SessionFrames
  <2> QED
    BY <2>1, <2>2 DEF PeakAndLengthOfSession, SessionInv, HoldInv
<1> QED
  BY <1>1, SessionKeeps, PTL

\* Between blocks, with no reset under way, the display is the session's: the
\* order of requestMeterReset and of processBlock leaves no other outcome, for
\* any number of requesters.
THEOREM DisplayRests == SessionSpec => []RestingDisplay
<1>1. SessionInv => RestingDisplay
  BY DEF SessionInv, DisplayInv, Quiet, Figures, RestingDisplay
<1> QED
  BY <1>1, SessionKeeps, PTL

LEMMA SessionStepsMeter ==
    ASSUME [SessionNext]_sessionVars PROVE [MeterNext]_meterVars
<1>1. CASE UNCHANGED meterVars
  BY <1>1
<1>2. CASE SessionFrame
  <2>1. SessionOpen \in BOOLEAN
    BY DEF SessionOpen
  <2> QED
    BY <1>2, <2>1 DEF SessionFrame, MeterNext
<1>3. CASE BlockTop
  BY <1>3 DEF BlockTop, ConsumeReset, NothingToReset, MeterNext
<1>4. CASE PublishField
  BY <1>4 DEF PublishField, MeterNext
<1>5. CASE PrepareToPlay
  BY <1>5 DEF PrepareToPlay, MeterNext
<1>6. CASE \/ Clear \/ FoldHolds \/ \E n \in 0..MaxBlock : BeginProcess(n)
           \/ \E r \in Requesters : BeginRequest(r) \/ RequestStep(r)
  BY <1>6, <1>1 DEF Clear, FoldHolds, BeginProcess, BeginRequest, RequestStep
<1> QED
  BY <1>1, <1>2, <1>3, <1>4, <1>5, <1>6 DEF SessionNext, Audio, sessionVars

\* The engine and the processor use the meter as the meter may be used, so that
\* what holds of the meter alone (GatedIsClean, RangedIsClean, NoneLost,
\* CacheIsCurrent) holds of the session.
THEOREM SessionIsMeter == SessionSpec => MeterSpec
<1>1. SessionInit => MeterInit
  BY DEF SessionInit
<1>2. [SessionNext]_sessionVars => [MeterNext]_meterVars
  BY SessionStepsMeter
<1> QED
  BY <1>1, <1>2, PTL DEF SessionSpec, MeterSpec

LEMMA AfterDirt ==
    ASSUME NEW top \in Int, NEW from \in Int, NEW len \in Nat, NEW dirty \in Int,
           NEW end \in Nat, NEW p,
           from = top - len, top >= dirty + len, p \in from..(end - 1)
    PROVE  p \in Int /\ dirty <= p /\ p < end
OBVIOUS

\* Every frame of an admitted gating block, and of the sub-block before it, was
\* open: none had an audible bypass in it (the session section of process and
\* the watermarks of setSessionPaused together).
THEOREM GatedOpen == SessionSpec => GatedWasOpen
<1>1. ASSUME SessionInv, SessionInv', [SessionNext]_sessionVars
      PROVE  [GatesOpenFrames]_sessionVars
  <2> SUFFICES ASSUME gated' > gated,
                      NEW p \in ((subCount' - GateBlocks - 1) * SubBlockLen)..(Position' - 1),
                      p >= 0
               PROVE  p \in SessionFrames(Position)'
    BY DEF GatesOpenFrames
  <2>1. (subCount' - GateBlocks) * SubBlockLen >= dirtyEnd' + SubBlockLen
    <3>1. MeterInv /\ [MeterNext]_meterVars /\ gated \in Nat
      BY <1>1, SessionStepsMeter DEF SessionInv, MeterInv, MeterTypeOK
    <3>2. MeterNext
      BY <3>1 DEF meterVars, figureVars
    <3> QED
      BY <3>1, <3>2, GatedStep
  <2>2. subCount' \in Nat /\ dirtyEnd' \in Int
    BY <1>1 DEF SessionInv, MeterInv, MeterTypeOK
  <2>3. Position' \in Nat
    <3>1. MeterInv'
      BY <1>1 DEF SessionInv
    <3>2. (MeterInv => Position \in Nat)'
      BY PositionIs, PTL
    <3> QED
      BY <3>1, <3>2
  <2>4. GateBlocks \in Nat /\ SubBlockLen \in Nat
    BY MeterAssumption
  <2>5. p \in Int /\ dirtyEnd' <= p /\ p < Position'
    <3> DEFINE k == subCount' - GateBlocks
    <3> HIDE DEF k
    <3>1. k \in Int
      BY <2>2, <2>4 DEF k
    <3>2. k * SubBlockLen \in Int /\ (k - 1) * SubBlockLen \in Int
          /\ (k - 1) * SubBlockLen = k * SubBlockLen - SubBlockLen
      BY <2>4, <3>1
    <3>3. k * SubBlockLen >= dirtyEnd' + SubBlockLen
      BY <2>1 DEF k
    <3>4. p \in ((k - 1) * SubBlockLen)..(Position' - 1)
      BY DEF k
    <3> QED
      BY <2>2, <2>3, <2>4, <3>2, <3>3, <3>4, AfterDirt
  <2>6. p \in openAt'
    BY <1>1, <2>5 DEF SessionInv, CleanInv
  <2> QED
    BY <2>5, <2>6 DEF SessionFrames
<1> QED
  BY <1>1, SessionKeeps, PTL DEF SessionSpec, GatedWasOpen

=============================================================================
