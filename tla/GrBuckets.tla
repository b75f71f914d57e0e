----------------------------- MODULE GrBuckets -----------------------------
(* The decimation geometry of the gain-reduction history                    *)
(* (gui/GrHistoryView.h): which entries of the ring share a bucket, which   *)
(* buckets a frame draws and where they land.  Positions are exact: a       *)
(* column is (kFull - 1) * stride * Steps units wide, so that a pitch, the  *)
(* share of one entry and the phase (in Steps of an entry) are integers.    *)
EXTENDS Rounding

CONSTANTS
    KSize,      \* entries the ring holds
    MaxLead,    \* buckets the panel may show beyond a full window
    Steps       \* phases of one entry's period that are told apart

ASSUME GeometryAssumption ==
    /\ KSize \in Nat \ {0}
    /\ MaxLead \in Nat
    /\ Steps \in Nat \ {0}

\* GrHistoryView::readFloor, the oldest index that the slot being filled is not.
ReadFloor(live) == live - (KSize - 1)

\* The window of a prepared pair that asks for wanted entries.
WindowEntries(wanted) == AtMost(KSize - 1, wanted)

\* The first column that is not shown, in whole columns from the left edge.
VisibleRight(kFull, cols) ==
    LET span == cols - 1
    IN  IF span < 1 THEN 0
        ELSE AtLeast(1, span - CeilDiv(span, AtLeast(kFull - 1, 2)) - 1)

HiddenColumns(kFull, cols) == cols - VisibleRight(kFull, cols)

\* Mutant: the columns freed on the left are not filled.
NoLead(kFull, cols) == 0

\* The buckets of older history that fill the columns freed on the left.
LeadBuckets(kFull, cols) ==
    IF cols = 1 THEN 0
    ELSE AtMost(MaxLead, CeilDiv(HiddenColumns(kFull, cols) * (kFull - 1), cols - 1))

\* GrHistoryView::buckets
Buckets(head, want, cols) ==
    LET stride == AtLeast(1, CeilDiv(want, cols))
        kHead  == AtLeast(0, head - 1) \div stride
        kRing  == (KSize - stride) \div stride
        kFull  == AtLeast(2, AtMost(CeilDiv(want, stride), kRing - MaxLead))
        cover  == AtMost(kFull + LeadBuckets(kFull, cols), kRing)
        start  == AtLeast(0, head - cover * stride)
        kFirst == AtLeast(AtMost(kHead, start \div stride), kHead - cover)
        fill   == AtLeast(1, head - kHead * stride)
    IN  [stride |-> stride, kFirst |-> kFirst, kHead |-> kHead,
         kLast  |-> IF fill >= stride THEN kHead ELSE kHead - 1,
         kFull  |-> kFull, fill |-> fill, window |-> cover * stride,
         first  |-> kFirst * stride]

\* Mutant: a lapped bucket is drawn from what is left of it.
FirstOfWindow(b, floorIndex) == b.kFirst

\* GrHistoryView::firstDrawn, the oldest bucket the live ring still holds whole.
FirstDrawn(b, floorIndex) ==
    IF floorIndex <= b.first THEN b.kFirst
    ELSE AtLeast(b.kFirst, CeilDiv(floorIndex, b.stride))

\* GrHistoryView::bucketReads
BucketReads(b, k, first, head) ==
    AtLeast(first, k * b.stride)..(AtMost(head, (k + 1) * b.stride) - 1)

\* drawsZeroRegion: the history has not yet filled the window.
DrawsZeroRegion(head, want) == AtLeast(0, head - want) = 0

\* readoutFirst and readoutCurrentEntries: what the numeric readout covers.
ReadoutFirst(head, want, cols, nowEntries) ==
    AtMost(Buckets(head, want, cols).first, AtLeast(0, head - nowEntries))

\* A column, in units.
Column(b) == (b.kFull - 1) * b.stride * Steps

\* Mutant: a vertex stands still until its bucket is complete.
ByTheBucket(b, k, phase, cols) ==
    (HiddenColumns(b.kFull, cols) + cols - 1) * Column(b)
      - ((b.kHead - k) * b.stride * Steps + phase) * (cols - 1)

\* bucketX in the drawing frame, hiddenColumns right of the plot's: a pitch is
\* stride * Steps * (cols - 1) units, the share of one entry Steps * (cols - 1).
BucketX(b, k, phase, cols) ==
    (HiddenColumns(b.kFull, cols) + cols - 1) * Column(b)
      - ((b.kHead - k) * b.stride * Steps - (b.stride - b.fill) * Steps + phase) * (cols - 1)
=============================================================================
