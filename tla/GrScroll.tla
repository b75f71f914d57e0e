------------------------------ MODULE GrScroll ------------------------------
(* What the gain-reduction history shows while it fills and scrolls: frame  *)
(* after frame of one prepared pair, on the exact geometry of GrBuckets.    *)
(* The tick has entries arrive and the smoothed head run on; a frame draws  *)
(* what it published, the ring having moved on by at most MaxLag entries.   *)
EXTENDS GrBuckets

CONSTANTS
    Windows,    \* entries the prepared pair asks for
    Widths,     \* columns of the plot
    MaxJump,    \* bound: entries that arrive between two ticks
    MaxHead,    \* bound: entries of the timeline
    MaxLag      \* bound: entries that arrive between a tick and its frame

\* The plot has two columns or more, and the bound on the lead is the four
\* buckets of kMaxLead, or a larger one.
ASSUME ScrollAssumption ==
    /\ Windows \subseteq Nat /\ Widths \subseteq Nat \ {0, 1}
    /\ {MaxJump, MaxHead, MaxLag} \subseteq Nat
    /\ MaxLead >= 4

VARIABLES
    want, cols, \* the window of the prepared pair, and the plot
    frame       \* the frame on the panel

scrollVars == <<want, cols, frame>>

\* What paintHistory draws of a published head and phase when the ring stands
\* at live: the buckets, and the oldest of them the live ring still holds.
FrameOf(head, phase, live) ==
    LET b == Buckets(head, want, cols)
    IN  [head |-> head, phase |-> phase, live |-> live, b |-> b,
         oldest |-> FirstDrawn(b, ReadFloor(live))]

ScrollInit ==
    /\ want \in {WindowEntries(w) : w \in Windows}
    /\ cols \in Widths
    /\ frame = FrameOf(0, 0, 0)

\* Ticks and a frame: the smoothed head runs on, within one entry of the head.
Advance(head, phase, lag) ==
    /\ head * Steps + phase > frame.head * Steps + frame.phase
    /\ frame' = FrameOf(head, phase, head + lag)
    /\ UNCHANGED <<want, cols>>

ScrollNext ==
    \E head \in frame.head..AtMost(MaxHead, frame.head + MaxJump),
       phase \in 0..Steps, lag \in 0..MaxLag : Advance(head, phase, lag)

ScrollSpec == ScrollInit /\ [][ScrollNext]_scrollVars

-----------------------------------------------------------------------------
\* The buckets a frame draws, and where their vertices land.
Drawn(f)  == IF f.oldest * f.b.stride >= f.head THEN {} ELSE f.oldest..f.b.kLast
XOf(f, k) == BucketX(f.b, k, f.phase, cols)

\* Every vertex of a frame aggregates its bucket's whole span, of entries that
\* exist and that the producer, wherever it is by now, is not yet filling
\* (buckets, firstDrawn, bucketReads): a vertex never changes its value.
VerticesAreWhole ==
    \A k \in Drawn(frame) :
        LET stride == frame.b.stride
            reads  == BucketReads(frame.b, k, frame.oldest * stride, frame.head)
        IN  /\ reads = (k * stride)..((k + 1) * stride - 1)
            /\ \A e \in reads : ReadFloor(frame.live) <= e /\ e < frame.head

\* From frame to frame all vertices move left together, by the entries and
\* the phase that passed and by nothing else (bucketX).
ScrollsRigidly ==
    [][\A k \in Drawn(frame) \intersect Drawn(frame') :
          XOf(frame, k) - XOf(frame', k) =
              (cols - 1) * ((frame'.head - frame.head) * Steps + frame'.phase - frame.phase)]_scrollVars

\* The panel's two edges.  Right: on a window of three buckets and more and a
\* plot wide enough for the margin, the flat lead-out right of the newest
\* vertex, which stands for a value not yet measured, is never shown
\* (visibleRight, hiddenColumns).  Left: the zero line stands for nothing that
\* was measured, and once it is not drawn the oldest vertex lies on the edge or
\* beyond it, unless the producer lapped the frame or the ring is too small for
\* the buckets of a window and their lead (drawsZeroRegion, leadBuckets).
PanelIsCovered ==
    LET b == frame.b
    IN  /\ b.kFull >= 3 /\ cols >= 5 /\ Drawn(frame) # {} =>
              XOf(frame, b.kLast) >= cols * Column(b)
        /\ DrawsZeroRegion(frame.head, b.window) => b.kFirst = 0
        /\ frame.oldest = b.kFirst /\ ~DrawsZeroRegion(frame.head, b.window)
             /\ (b.kFull + MaxLead) * b.stride <= KSize - b.stride =>
              XOf(frame, b.kFirst) <= 0
=============================================================================
