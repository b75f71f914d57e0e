---------------------------- MODULE Views_proofs ----------------------------
(***************************************************************************)
(* What the two views show of the rings they read.  The decimated history  *)
(* scrolls as one rigid trace of whole buckets, and covers the panel from  *)
(* edge to edge, for every ring, window, plot width and head.  A committed *)
(* frame of the spectrum is one span of one timeline, for every capacity,  *)
(* window, block and number of frames and prepares (ScopeInvariant says    *)
(* what is kept meanwhile).  FramePublication implements FrameRegister.    *)
(***************************************************************************)
EXTENDS GrScroll, ScopeInvariant, FramePublication, SequenceTheorems, TLAPS

(* Products and quotients. *)

LEMMA ProductNat == ASSUME NEW a \in Nat, NEW b \in Nat PROVE a * b \in Nat
OBVIOUS

LEMMA ProductOrder ==
    ASSUME NEW a \in Int, NEW b \in Int, NEW c \in Nat, a <= b
    PROVE  a * c <= b * c
<1>1. b - a \in Nat
  OBVIOUS
<1>2. (b - a) * c \in Nat
  BY <1>1, ProductNat
<1>3. (b - a) * c = b * c - a * c
  OBVIOUS
<1> QED
  BY <1>2, <1>3

LEMMA Cancel ==
    ASSUME NEW a \in Int, NEW b \in Int, NEW c \in Nat, a * c < b * c
    PROVE  a < b
<1>1. a >= b => b * c <= a * c
  BY ProductOrder
<1> QED
  BY <1>1

LEMMA Quotient ==
    ASSUME NEW a \in Nat, NEW s \in Nat \ {0}
    PROVE  a \div s \in Nat /\ (a \div s) * s <= a /\ a < (a \div s) * s + s
OBVIOUS

LEMMA Ceiling ==
    ASSUME NEW a \in Nat, NEW s \in Nat \ {0}
    PROVE  LET q == CeilDiv(a, s) IN q \in Nat /\ a <= q * s /\ q * s <= a + s - 1
<1>1. a + s - 1 \in Nat
  OBVIOUS
<1>2. LET q == (a + s - 1) \div s IN q \in Nat /\ q * s <= a + s - 1 /\ a + s - 1 < q * s + s
  BY <1>1, Quotient
<1> DEFINE q == (a + s - 1) \div s
<1>3. q \in Nat /\ q * s <= a + s - 1 /\ a + s - 1 < q * s + s
  BY <1>2
<1>4. CeilDiv(a, s) = q
  BY DEF CeilDiv
<1> HIDE DEF q
<1>5. q * s \in Nat
  BY <1>3, ProductNat
<1> QED
  BY <1>3, <1>4, <1>5

-----------------------------------------------------------------------------
(* The parts of the geometry.                                              *)

StrideOf(w, c) == AtLeast(1, CeilDiv(w, c))
RingOf(w, c)   == (KSize - StrideOf(w, c)) \div StrideOf(w, c)
FullOf(w, c)   == AtLeast(2, AtMost(CeilDiv(w, StrideOf(w, c)), RingOf(w, c) - MaxLead))
CoverOf(w, c)  == AtMost(FullOf(w, c) + LeadBuckets(FullOf(w, c), c), RingOf(w, c))

\* A window that the ring holds, on a plot of two columns and more.
Pane(w, c) == w \in Nat /\ w <= KSize - 1 /\ c \in Nat /\ c >= 2

\* The columns hidden are one at least, enough for the lead-out of a window of
\* three buckets, and four pitches at most.
LEMMA Hidden ==
    ASSUME NEW c \in Nat, c >= 2, NEW kFull \in Nat, kFull >= 2, kFull <= c
    PROVE  LET H == HiddenColumns(kFull, c)
               d == kFull - 1
           IN  /\ H \in Nat \ {0}
               /\ H * d <= 4 * (c - 1)
               /\ d >= 2 /\ c >= 5 => (H - 1) * d >= c - 1
<1> DEFINE span == c - 1
           d == kFull - 1
           e == AtLeast(d, 2)
           q == CeilDiv(span, e)
           H == HiddenColumns(kFull, c)
<1>1. /\ span \in Nat \ {0} /\ d \in Nat \ {0} /\ d <= span
      /\ e \in Nat \ {0} /\ e >= 2 /\ (d >= 2 => e = d)
  BY DEF AtLeast
<1>2. q \in Nat /\ span <= q * e /\ q * e <= span + e - 1
  BY <1>1, Ceiling
<1>3. H = c - AtLeast(1, span - q - 1)
  BY <1>1 DEF HiddenColumns, VisibleRight
<1> HIDE DEF q, e, H
<1>4. q >= 1
  <2>1. q = 0 => q * e = 0
    BY <1>1
  <2> QED
    BY <1>1, <1>2, <2>1
<1>5. /\ H \in Nat \ {0} /\ H <= span /\ H <= q + 2
      /\ H = span \/ H = q + 2
  BY <1>1, <1>2, <1>3, <1>4 DEF AtLeast
<1> HIDE DEF d, span
<1>6. H * d <= 4 * span
  <2>1. CASE d = 1
    BY <1>1, <1>5, <2>1
  <2>2. CASE d >= 2
    <3>1. H * d <= (q + 2) * d
      BY <1>1, <1>2, <1>5, ProductOrder
    <3>2. (q + 2) * d = q * d + 2 * d
      BY <1>1, <1>2
    <3>3. q * d <= span + d - 1
      BY <1>1, <1>2, <2>2
    <3>4. H * d \in Nat /\ q * d \in Nat
      BY <1>1, <1>2, <1>5, ProductNat
    <3> QED
      BY <1>1, <3>1, <3>2, <3>3, <3>4
  <2> QED
    BY <1>1, <2>1, <2>2
<1>7. ASSUME d >= 2, c >= 5 PROVE (H - 1) * d >= span
  <2>1. CASE H = span
    <3>1. 2 * (span - 1) <= d * (span - 1)
      BY <1>1, <1>7, ProductOrder
    <3>2. d * (span - 1) = (H - 1) * d
      BY <1>1, <2>1
    <3> QED
      BY <1>1, <1>7, <3>1, <3>2 DEF span
  <2>2. CASE H = q + 2
    <3>1. (H - 1) * d = q * d + d
      BY <1>1, <1>2, <2>2
    <3>2. q * d >= span
      BY <1>1, <1>2, <1>7
    <3> QED
      BY <1>1, <1>2, <3>1, <3>2
  <2> QED
    BY <1>5, <2>1, <2>2
<1> QED
  BY <1>5, <1>6, <1>7 DEF d, span, H


LEMMA PaneParts ==
    ASSUME NEW w, NEW c, Pane(w, c)
    PROVE  LET s == StrideOf(w, c)
               kFull == FullOf(w, c)
               cover == CoverOf(w, c)
               lead == LeadBuckets(kFull, c)
           IN  /\ s \in Nat \ {0} /\ s <= KSize /\ RingOf(w, c) \in Nat
               /\ kFull \in Nat /\ kFull >= 2 /\ kFull <= c
               /\ lead \in Nat /\ lead <= MaxLead
               /\ cover \in Nat /\ cover <= kFull + lead
               /\ (kFull + MaxLead) * s <= KSize - s => cover = kFull + lead
               /\ HiddenColumns(kFull, c) * (kFull - 1) <= lead * (c - 1)
<1> DEFINE s == StrideOf(w, c)
           r == RingOf(w, c)
           kFull == FullOf(w, c)
           lead == LeadBuckets(kFull, c)
           H == HiddenColumns(kFull, c)
           q == CeilDiv(w, c)
           n == CeilDiv(w, s)
<1>1. w \in Nat /\ w <= KSize - 1 /\ c \in Nat \ {0} /\ c >= 2 /\ KSize \in Nat \ {0}
      /\ MaxLead \in Nat /\ MaxLead >= 4
  BY GeometryAssumption, ScrollAssumption DEF Pane
<1>2. q \in Nat /\ w <= q * c /\ q * c <= w + c - 1
  BY <1>1, Ceiling
<1>3. s = AtLeast(1, q)
  BY DEF StrideOf
<1> HIDE DEF q, s
<1>4. s \in Nat \ {0} /\ q <= s
  BY <1>2, <1>3 DEF AtLeast
<1>5. s <= KSize
  <2>1. CASE q <= 1
    BY <1>1, <1>2, <1>3, <2>1 DEF AtLeast
  <2>2. CASE q >= 2
    <3>1. s = q
      BY <1>2, <1>3, <2>2 DEF AtLeast
    <3>2. (q - 1) * c <= w - 1
      BY <1>1, <1>2
    <3>3. (q - 1) * 1 <= (q - 1) * c
      <4>1. q - 1 \in Nat
        BY <1>2, <2>2
      <4> QED
        BY <1>1, <4>1, ProductOrder
    <3> QED
      BY <1>1, <1>2, <3>1, <3>2, <3>3
  <2> QED
    BY <1>2, <2>1, <2>2
<1>6. r \in Nat /\ r * s <= KSize - s /\ KSize - s < r * s + s
  <2>1. KSize - s \in Nat
    BY <1>1, <1>4, <1>5
  <2>2. r = (KSize - s) \div s
    BY DEF RingOf, s
  <2> QED
    BY <1>4, <2>1, <2>2, Quotient
<1>7. n \in Nat /\ w <= n * s /\ n * s <= w + s - 1
  BY <1>1, <1>4, Ceiling
<1>8. n <= c
  <2>1. q * c <= s * c
    BY <1>1, <1>2, <1>4, ProductOrder
  <2>2. n * s <= s * c + s - 1
    <3>1. n * s \in Nat /\ s * c \in Nat /\ q * c \in Nat
      BY <1>1, <1>2, <1>4, <1>7, ProductNat
    <3> QED
      BY <1>1, <1>2, <1>4, <1>7, <2>1, <3>1
  <2>3. s * c + s = (c + 1) * s
    BY <1>1, <1>4
  <2>4. n * s < (c + 1) * s
    <3>1. n * s \in Nat /\ s * c \in Nat
      BY <1>1, <1>4, <1>7, ProductNat
    <3> QED
      BY <1>4, <2>2, <2>3, <3>1
  <2>5. n < c + 1
    BY <1>1, <1>4, <1>7, <2>4, Cancel
  <2> QED
    BY <1>1, <1>7, <2>5
<1>9. kFull = AtLeast(2, AtMost(n, r - MaxLead))
  BY DEF FullOf, n, r, s
<1> HIDE DEF n, r, kFull
<1>10. kFull \in Nat /\ kFull >= 2 /\ kFull <= c
  BY <1>1, <1>6, <1>7, <1>8, <1>9 DEF AtLeast, AtMost
<1>11. H \in Nat \ {0} /\ H * (kFull - 1) <= 4 * (c - 1)
  BY <1>1, <1>10, Hidden
<1> HIDE DEF H
<1>12. lead \in Nat /\ lead <= MaxLead /\ H * (kFull - 1) <= lead * (c - 1)
  <2> DEFINE span == c - 1
             a == H * (kFull - 1)
             m == CeilDiv(a, span)
  <2>1. span \in Nat \ {0} /\ a \in Nat /\ a <= 4 * span
    <3>1. kFull - 1 \in Nat
      BY <1>10
    <3>2. H * (kFull - 1) \in Nat
      BY <1>11, <3>1, ProductNat
    <3> QED
      BY <1>1, <1>11, <3>2
  <2>2. lead = AtMost(MaxLead, m)
    BY <1>1 DEF LeadBuckets, H
  <2> HIDE DEF a, span
  <2>3. m \in Nat /\ a <= m * span /\ m * span <= a + span - 1
    BY <2>1, Ceiling
  <2> HIDE DEF m, lead
  <2>4. m * span < 5 * span
    <3>1. m * span \in Nat
      BY <2>1, <2>3, ProductNat
    <3> QED
      BY <2>1, <2>3, <3>1
  <2>5. m < 5
    BY <2>1, <2>3, <2>4, Cancel
  <2>6. lead = m
    BY <1>1, <2>2, <2>3, <2>5 DEF AtMost
  <2>7. lead \in Nat /\ lead <= MaxLead /\ a <= lead * span
    BY <1>1, <2>3, <2>5, <2>6
  <2> QED
    BY <2>7 DEF a, span
<1>13. CoverOf(w, c) = AtMost(kFull + lead, r)
  BY DEF CoverOf, kFull, lead, r
<1> HIDE DEF lead
<1>14. CoverOf(w, c) \in Nat /\ CoverOf(w, c) <= kFull + lead
  BY <1>6, <1>10, <1>12, <1>13 DEF AtMost
<1>15. ASSUME (kFull + MaxLead) * s <= KSize - s PROVE CoverOf(w, c) = kFull + lead
  <2>1. (kFull + MaxLead) * s < (r + 1) * s
    <3>1. (r + 1) * s = r * s + s /\ r * s \in Nat /\ (kFull + MaxLead) * s \in Nat
      BY <1>1, <1>4, <1>6, <1>10, ProductNat
    <3> QED
      BY <1>1, <1>4, <1>6, <1>15, <3>1
  <2>2. kFull + MaxLead < r + 1
    BY <1>1, <1>4, <1>6, <1>10, <2>1, Cancel
  <2> QED
    BY <1>1, <1>6, <1>10, <1>12, <1>13, <2>2 DEF AtMost
<1> QED
  BY <1>4, <1>5, <1>6, <1>10, <1>12, <1>14, <1>15 DEF s, r, kFull, lead, H


\* The buckets of a head: the newest begun one, how far it is filled, and the
\* oldest one of the window, with the window behind it.
LEMMA BucketParts ==
    ASSUME NEW w, NEW c, Pane(w, c), NEW head \in Nat
    PROVE  LET b == Buckets(head, w, c)
               s == StrideOf(w, c)
               cover == CoverOf(w, c)
           IN  /\ b.stride = s /\ b.kFull = FullOf(w, c) /\ b.window = cover * s
               /\ b.kHead \in Nat /\ b.kFirst \in Nat /\ b.kFirst <= b.kHead
               /\ b.first = b.kFirst * s
               /\ b.fill \in 1..s /\ (head > 0 => b.kHead * s + b.fill = head)
               /\ head = 0 => b.kHead = 0 /\ b.fill = 1
               /\ b.kLast = IF b.fill >= s THEN b.kHead ELSE b.kHead - 1
               /\ head <= cover * s => b.kFirst = 0
               /\ head > cover * s => (b.kFirst + cover) * s <= head
<1> DEFINE b == Buckets(head, w, c)
           s == StrideOf(w, c)
           cover == CoverOf(w, c)
           last == AtLeast(0, head - 1)
           kHead == last \div s
           start == AtLeast(0, head - cover * s)
           whole == start \div s
           kFirst == AtLeast(AtMost(kHead, whole), kHead - cover)
           fill == AtLeast(1, head - kHead * s)
<1>1. s \in Nat \ {0} /\ cover \in Nat
  BY PaneParts
<1>2. b = [stride |-> s, kFirst |-> kFirst, kHead |-> kHead,
           kLast |-> IF fill >= s THEN kHead ELSE kHead - 1,
           kFull |-> FullOf(w, c), fill |-> fill, window |-> cover * s,
           first |-> kFirst * s]
  BY DEF Buckets, StrideOf, CoverOf, FullOf, RingOf
<1> HIDE DEF b, s, cover
<1>3. last \in Nat /\ (head > 0 => last = head - 1) /\ (head = 0 => last = 0)
  BY DEF AtLeast
<1> HIDE DEF last
<1>4. kHead \in Nat /\ kHead * s <= last /\ last < kHead * s + s
  BY <1>1, <1>3, Quotient
<1> HIDE DEF kHead
<1>5. cover * s \in Nat /\ kHead * s \in Nat
  BY <1>1, <1>4, ProductNat
<1>6. start \in Nat /\ (head <= cover * s => start = 0)
      /\ (head > cover * s => start = head - cover * s)
  BY <1>5 DEF AtLeast
<1> HIDE DEF start
<1>7. whole \in Nat /\ whole * s <= start /\ start < whole * s + s
  BY <1>1, <1>6, Quotient
<1> HIDE DEF whole
<1>8. whole * s \in Nat
  BY <1>1, <1>7, ProductNat
<1>9. kFirst \in Nat /\ kFirst <= kHead
      /\ (kFirst <= whole \/ kFirst = kHead - cover)
  BY <1>1, <1>4, <1>7 DEF AtLeast, AtMost
<1>10. fill \in 1..s /\ (head > 0 => kHead * s + fill = head)
  BY <1>1, <1>3, <1>4, <1>5 DEF AtLeast
<1>11. head = 0 => kHead = 0 /\ fill = 1
  <2> SUFFICES ASSUME head = 0 PROVE kHead = 0 /\ fill = 1
    OBVIOUS
  <2>1. kHead * s < 1 * s
    BY <1>1, <1>3, <1>4, <1>5
  <2>2. kHead < 1
    BY <1>1, <1>4, <2>1, Cancel
  <2> QED
    BY <1>1, <1>4, <2>2 DEF AtLeast
<1>12. ASSUME head <= cover * s PROVE kFirst = 0
  <2>1. whole = 0
    <3>1. whole * s < 1 * s
      BY <1>1, <1>6, <1>7, <1>8, <1>12
    <3> QED
      BY <1>1, <1>7, <3>1, Cancel
  <2>2. kHead <= cover
    <3>1. kHead * s < (cover + 1) * s
      BY <1>1, <1>3, <1>4, <1>5, <1>12
    <3> QED
      BY <1>1, <1>4, <3>1, Cancel
  <2> QED
    BY <1>1, <1>4, <2>1, <2>2 DEF AtLeast, AtMost
<1>13. ASSUME head > cover * s PROVE (kFirst + cover) * s <= head
  <2>1. CASE kFirst <= whole
    <3>1. (kFirst + cover) * s = kFirst * s + cover * s
      BY <1>1, <1>9
    <3>2. kFirst * s <= whole * s
      BY <1>1, <1>7, <1>9, <2>1, ProductOrder
    <3>3. kFirst * s \in Nat
      BY <1>1, <1>9, ProductNat
    <3> HIDE DEF kFirst
    <3> QED
      BY <1>5, <1>6, <1>7, <1>8, <1>13, <3>1, <3>2, <3>3
  <2>2. CASE kFirst = kHead - cover
    <3>1. kFirst + cover = kHead
      BY <1>1, <1>4, <2>2
    <3> QED
      BY <1>3, <1>4, <1>5, <1>13, <3>1
  <2> QED
    BY <1>9, <2>1, <2>2
<1> HIDE DEF kFirst, fill
<1> QED
  BY <1>2, <1>4, <1>9, <1>10, <1>11, <1>12, <1>13 DEF b, s, cover

\* What a frame draws: from the oldest bucket the ring still holds, complete
\* buckets only.
LEMMA DrawnWhole ==
    ASSUME NEW w, NEW c, Pane(w, c), NEW head \in Nat, NEW live \in Nat
    PROVE  LET b == Buckets(head, w, c)
               s == StrideOf(w, c)
               oldest == FirstDrawn(b, ReadFloor(live))
           IN  /\ oldest \in Nat /\ oldest >= b.kFirst /\ ReadFloor(live) <= oldest * s
               /\ b.kLast \in Int /\ (head > 0 => (b.kLast + 1) * s <= head)
               /\ head > 0 => head < (b.kLast + 2) * s
<1> DEFINE b == Buckets(head, w, c)
           s == StrideOf(w, c)
           floor == ReadFloor(live)
           oldest == FirstDrawn(b, floor)
<1>1. s \in Nat \ {0} /\ floor \in Int
  BY PaneParts, GeometryAssumption DEF ReadFloor
<1>2. /\ b.stride = s /\ b.kHead \in Nat /\ b.kFirst \in Nat /\ b.first = b.kFirst * s
      /\ b.fill \in 1..s /\ (head > 0 => b.kHead * s + b.fill = head)
      /\ b.kLast = IF b.fill >= s THEN b.kHead ELSE b.kHead - 1
  BY BucketParts
<1> HIDE DEF b, s, floor
<1>3. oldest \in Nat /\ oldest >= b.kFirst /\ floor <= oldest * s
  <2>0. b.kFirst * s \in Nat
    BY <1>1, <1>2, ProductNat
  <2>1. CASE floor <= b.first
    <3>1. oldest = b.kFirst
      BY <2>1 DEF FirstDrawn
    <3> QED
      BY <1>1, <1>2, <2>1, <3>1
  <2>2. CASE floor > b.first
    <3> DEFINE q == CeilDiv(floor, s)
    <3>1. floor \in Nat
      BY <1>1, <1>2, <2>0, <2>2
    <3>2. q \in Nat /\ floor <= q * s
      BY <1>1, <3>1, Ceiling
    <3>3. oldest = AtLeast(b.kFirst, q)
      BY <1>1, <1>2, <2>0, <2>2 DEF FirstDrawn
    <3> HIDE DEF q, oldest
    <3>4. oldest \in Nat /\ oldest >= b.kFirst /\ oldest >= q
      BY <1>2, <3>2, <3>3 DEF AtLeast
    <3>5. q * s <= oldest * s
      BY <1>1, <3>2, <3>4, ProductOrder
    <3>6. q * s \in Nat /\ oldest * s \in Nat
      BY <1>1, <3>2, <3>4, ProductNat
    <3> QED
      BY <1>1, <3>2, <3>4, <3>5, <3>6
  <2> QED
    BY <1>1, <1>2, <2>0, <2>1, <2>2
<1>4. b.kLast \in Int
  BY <1>2
<1>5. ASSUME head > 0 PROVE (b.kLast + 1) * s <= head /\ head < (b.kLast + 2) * s
  <2>0. b.kHead * s \in Nat
    BY <1>1, <1>2, ProductNat
  <2>1. CASE b.fill >= s
    <3>1. b.kLast = b.kHead /\ b.fill = s
      BY <1>1, <1>2, <2>1
    <3>2. (b.kHead + 1) * s = b.kHead * s + s /\ (b.kHead + 2) * s = b.kHead * s + s + s
      BY <1>1, <1>2
    <3> QED
      BY <1>1, <1>2, <1>5, <2>0, <3>1, <3>2
  <2>2. CASE b.fill < s
    <3>1. b.kLast + 1 = b.kHead /\ b.kLast + 2 = b.kHead + 1
      BY <1>1, <1>2, <2>2
    <3>2. (b.kHead + 1) * s = b.kHead * s + s
      BY <1>1, <1>2
    <3> QED
      BY <1>1, <1>2, <1>5, <2>0, <2>2, <3>1, <3>2
  <2> QED
    BY <1>1, <1>2, <2>1, <2>2
<1> QED
  BY <1>3, <1>4, <1>5 DEF b, s, floor


-----------------------------------------------------------------------------
(* Frame after frame.                                                      *)

\* The invariant: every frame is the one that its head, its phase and the
\* place of the live ring determine, of a window the ring holds.
ScrollInv ==
    /\ want \in Nat /\ want <= KSize - 1 /\ cols \in Widths
    /\ frame.head \in Nat /\ frame.phase \in 0..Steps /\ frame.live \in Nat
    /\ frame = FrameOf(frame.head, frame.phase, frame.live)

LEMMA InvInit == ScrollInit => ScrollInv
<1> SUFFICES ASSUME ScrollInit PROVE ScrollInv
  OBVIOUS
<1>1. want \in Nat /\ want <= KSize - 1
  BY GeometryAssumption, ScrollAssumption DEF ScrollInit, WindowEntries, AtMost
<1>2. cols \in Widths /\ frame = FrameOf(0, 0, 0)
  BY DEF ScrollInit
<1>3. frame.head = 0 /\ frame.phase = 0 /\ frame.live = 0
  BY <1>2 DEF FrameOf
<1> QED
  BY <1>1, <1>2, <1>3, GeometryAssumption DEF ScrollInv

LEMMA InvStep == ScrollInv /\ [ScrollNext]_scrollVars => ScrollInv'
<1> SUFFICES ASSUME ScrollInv, [ScrollNext]_scrollVars PROVE ScrollInv'
  OBVIOUS
<1>1. CASE ScrollNext
  <2>1. PICK head \in frame.head..AtMost(MaxHead, frame.head + MaxJump),
             phase \in 0..Steps, lag \in 0..MaxLag : Advance(head, phase, lag)
    BY <1>1 DEF ScrollNext
  <2>2. AtMost(MaxHead, frame.head + MaxJump) \in Int
    BY ScrollAssumption DEF ScrollInv, AtMost
  <2>3. head \in Nat /\ head + lag \in Nat
    BY <2>2, ScrollAssumption DEF ScrollInv
  <2>4. want' = want /\ cols' = cols /\ frame' = FrameOf(head, phase, head + lag)
    BY <2>1 DEF Advance
  <2>5. frame'.head = head /\ frame'.phase = phase /\ frame'.live = head + lag
    BY <2>4 DEF FrameOf
  <2>6. FrameOf(head, phase, head + lag)' = FrameOf(head, phase, head + lag)
    BY <2>4 DEF FrameOf
  <2> QED
    BY <2>3, <2>4, <2>5, <2>6 DEF ScrollInv, FrameOf
<1>2. CASE UNCHANGED scrollVars
  BY <1>2 DEF scrollVars, ScrollInv, FrameOf
<1> QED
  BY <1>1, <1>2

LEMMA InvHolds == ScrollSpec => []ScrollInv
<1> QED
  BY InvInit, InvStep, PTL DEF ScrollSpec

\* A frame of a window and a plot.
Framed(f, w, c) ==
    /\ f.head \in Nat /\ f.phase \in 0..Steps /\ f.live \in Nat
    /\ f.b = Buckets(f.head, w, c)
    /\ f.oldest = FirstDrawn(f.b, ReadFloor(f.live))

LEMMA FrameParts ==
    ASSUME ScrollInv
    PROVE  Pane(want, cols) /\ Framed(frame, want, cols)
<1>1. Pane(want, cols)
  BY ScrollAssumption DEF ScrollInv, Pane
<1>2. frame.b = Buckets(frame.head, want, cols)
  BY DEF ScrollInv, FrameOf
<1>3. frame.oldest = FirstDrawn(frame.b, ReadFloor(frame.live))
  BY DEF ScrollInv, FrameOf
<1> QED
  BY <1>1, <1>2, <1>3 DEF ScrollInv, Framed

\* Only a frame with entries draws a vertex, of a bucket that exists.
LEMMA DrawnSome ==
    ASSUME NEW w, NEW c, Pane(w, c), NEW f, Framed(f, w, c), NEW k \in Drawn(f)
    PROVE  f.head > 0 /\ k \in Nat /\ f.oldest \in Nat /\ f.oldest <= k /\ k <= f.b.kLast
<1> DEFINE s == StrideOf(w, c)
<1>1. f.head \in Nat /\ f.b.stride = s /\ s \in Nat \ {0}
  BY PaneParts, BucketParts DEF Framed
<1>2. f.oldest \in Nat /\ f.b.kLast \in Int
  BY DrawnWhole DEF Framed
<1> HIDE DEF s
<1>3. f.oldest * s \in Nat
  BY <1>1, <1>2, ProductNat
<1>4. ~(f.oldest * s >= f.head) /\ k \in f.oldest..f.b.kLast
  BY <1>1 DEF Drawn
<1> QED
  BY <1>1, <1>2, <1>3, <1>4

LEMMA WholeInv == ScrollInv => VerticesAreWhole
<1> SUFFICES ASSUME ScrollInv, NEW k \in Drawn(frame)
             PROVE  LET stride == frame.b.stride
                        reads  == BucketReads(frame.b, k, frame.oldest * stride, frame.head)
                    IN  /\ reads = (k * stride)..((k + 1) * stride - 1)
                        /\ \A e \in reads : ReadFloor(frame.live) <= e /\ e < frame.head
  BY DEF VerticesAreWhole
<1> DEFINE s == frame.b.stride
           head == frame.head
           floor == ReadFloor(frame.live)
           oldest == frame.oldest
           reads == BucketReads(frame.b, k, oldest * s, head)
<1>0. Pane(want, cols) /\ Framed(frame, want, cols)
  BY FrameParts
<1>1. s \in Nat \ {0} /\ s = StrideOf(want, cols)
  BY <1>0, PaneParts, BucketParts DEF Framed
<1>2. head \in Nat /\ head > 0 /\ k \in Nat /\ oldest \in Nat /\ oldest <= k /\ k <= frame.b.kLast
  BY <1>0, DrawnSome DEF ScrollInv
<1>3. floor <= oldest * s /\ frame.b.kLast \in Int /\ (frame.b.kLast + 1) * s <= head
  BY <1>0, <1>1, <1>2, DrawnWhole DEF Framed
<1>3a. floor \in Int
  BY GeometryAssumption DEF ScrollInv, ReadFloor
<1>4. reads = AtLeast(oldest * s, k * s)..(AtMost(head, (k + 1) * s) - 1)
  BY DEF BucketReads
<1> HIDE DEF s, head, floor, oldest, reads
<1>5. oldest * s <= k * s
  BY <1>1, <1>2, ProductOrder
<1>6. (k + 1) * s <= (frame.b.kLast + 1) * s
  BY <1>1, <1>2, <1>3, ProductOrder
<1>7. oldest * s \in Nat /\ k * s \in Nat /\ (k + 1) * s \in Nat /\ (frame.b.kLast + 1) * s \in Int
  BY <1>1, <1>2, <1>3, ProductNat
<1>8. AtLeast(oldest * s, k * s) = k * s /\ AtMost(head, (k + 1) * s) = (k + 1) * s
  BY <1>2, <1>3, <1>5, <1>6, <1>7 DEF AtLeast, AtMost
<1>9. reads = (k * s)..((k + 1) * s - 1)
  BY <1>4, <1>8
<1>10. \A e \in reads : floor <= e /\ e < head
  BY <1>2, <1>3, <1>3a, <1>5, <1>6, <1>7, <1>9
<1> QED
  BY <1>9, <1>10 DEF s, head, floor, oldest, reads

\* Where the vertex of a bucket lands: so far left of the right edge as the
\* entries since the bucket's end, and the phase, make a column.
Edge(w, c) == (HiddenColumns(FullOf(w, c), c) + c - 1)
                * ((FullOf(w, c) - 1) * StrideOf(w, c) * Steps)

LEMMA XIs ==
    ASSUME NEW w, NEW c, Pane(w, c), NEW head \in Nat \ {0}, NEW phase \in Nat, NEW k \in Nat
    PROVE  BucketX(Buckets(head, w, c), k, phase, c) =
             Edge(w, c) - ((head - (k + 1) * StrideOf(w, c)) * Steps + phase) * (c - 1)
<1> DEFINE s == StrideOf(w, c)
           b == Buckets(head, w, c)
<1>1. s \in Nat \ {0}
  BY PaneParts
<1>2. /\ b.stride = s /\ b.kFull = FullOf(w, c) /\ b.kHead \in Nat /\ b.fill \in 1..s
      /\ b.kHead * s + b.fill = head
  BY BucketParts
<1>3. Steps \in Nat \ {0}
  BY GeometryAssumption
<1>4. BucketX(b, k, phase, c) = Edge(w, c)
        - ((b.kHead - k) * s * Steps - (s - b.fill) * Steps + phase) * (c - 1)
  BY <1>2 DEF Edge, BucketX, Column
<1> HIDE DEF s, b
<1>5. (b.kHead - k) * s * Steps - (s - b.fill) * Steps = (head - (k + 1) * s) * Steps
  <2>1. (b.kHead - k) * s = b.kHead * s - k * s /\ (k + 1) * s = k * s + s
        /\ k * s \in Int /\ b.kHead * s \in Int
    BY <1>1, <1>2
  <2>2. (b.kHead - k) * s - (s - b.fill) = head - (k + 1) * s
    <3> DEFINE u == b.kHead * s
               v == k * s
    <3>1. u \in Int /\ v \in Int /\ u + b.fill = head /\ b.fill \in Int
      BY <1>1, <1>2, <2>1
    <3>2. (b.kHead - k) * s = u - v /\ (k + 1) * s = v + s
      BY <2>1
    <3> HIDE DEF u, v
    <3> QED
      BY <1>1, <3>1, <3>2
  <2> DEFINE m == (b.kHead - k) * s
             n == s - b.fill
  <2>3. m \in Int /\ n \in Int
    BY <1>1, <1>2, <2>1
  <2> HIDE DEF m, n
  <2>4. m * Steps - n * Steps = (m - n) * Steps
    BY <1>3, <2>3
  <2> QED
    BY <2>2, <2>4 DEF m, n
<1> QED
  BY <1>4, <1>5 DEF s, b

\* Two frames of one window: the distance is the entries and the phase between.
LEMMA RigidStep == ScrollInv /\ ScrollInv' /\ UNCHANGED <<want, cols>> =>
    \A k \in Drawn(frame) \intersect Drawn(frame') :
        XOf(frame, k) - XOf(frame', k) =
            (cols - 1) * ((frame'.head - frame.head) * Steps + frame'.phase - frame.phase)
<1> SUFFICES ASSUME ScrollInv, ScrollInv', UNCHANGED <<want, cols>>,
                    NEW k \in Drawn(frame) \intersect Drawn(frame')
             PROVE  XOf(frame, k) - XOf(frame', k) =
                      (cols - 1) * ((frame'.head - frame.head) * Steps + frame'.phase - frame.phase)
  OBVIOUS
<1> DEFINE s == StrideOf(want, cols)
<1>1. Pane(want, cols) /\ Framed(frame, want, cols)
  BY FrameParts
<1>2. Framed(frame', want, cols)
  BY DEF ScrollInv, Framed, FrameOf
<1>3. /\ frame.head > 0 /\ frame'.head > 0 /\ k \in Nat
      /\ frame.head \in Nat /\ frame'.head \in Nat /\ frame.phase \in Nat /\ frame'.phase \in Nat
  BY <1>1, <1>2, DrawnSome, GeometryAssumption DEF Framed
<1>4. XOf(frame, k) = Edge(want, cols)
        - ((frame.head - (k + 1) * s) * Steps + frame.phase) * (cols - 1)
  BY <1>1, <1>3, XIs DEF Framed, XOf
<1>5. XOf(frame', k) = Edge(want, cols)
        - ((frame'.head - (k + 1) * s) * Steps + frame'.phase) * (cols - 1)
  BY <1>1, <1>2, <1>3, XIs DEF Framed, XOf
<1> DEFINE h == frame.head
           g == frame'.head
           p == frame.phase
           q == frame'.phase
           m == (k + 1) * s
           d == cols - 1
           E == Edge(want, cols)
<1>6. m \in Int /\ d \in Int /\ E \in Int /\ Steps \in Int
  <2>1. s \in Nat /\ FullOf(want, cols) \in Nat /\ FullOf(want, cols) >= 2 /\ cols \in Nat
        /\ cols >= 2 /\ FullOf(want, cols) <= cols
    BY <1>1, PaneParts DEF Pane
  <2>2. HiddenColumns(FullOf(want, cols), cols) \in Nat
    BY <2>1, Hidden
  <2> HIDE DEF s
  <2> QED
    BY <1>3, <2>1, <2>2, GeometryAssumption DEF Edge, s
<1> HIDE DEF h, g, p, q, m, d, E, s
<1>7. (E - ((h - m) * Steps + p) * d) - (E - ((g - m) * Steps + q) * d)
        = d * ((g - h) * Steps + q - p)
  BY <1>3, <1>6 DEF h, g, p, q
<1> QED
  BY <1>4, <1>5, <1>7 DEF h, g, p, q, m, d, E


\* The newest vertex of a frame lies on the right edge of the plot or beyond.
LEMMA RightEdge ==
    ASSUME NEW w, NEW c, Pane(w, c), NEW f, Framed(f, w, c),
           f.b.kFull >= 3, c >= 5, Drawn(f) # {}
    PROVE  BucketX(f.b, f.b.kLast, f.phase, c) >= c * Column(f.b)
<1> DEFINE s == StrideOf(w, c)
           kFull == FullOf(w, c)
           H == HiddenColumns(kFull, c)
           d == kFull - 1
           span == c - 1
           kLast == f.b.kLast
           rest == f.head - (kLast + 1) * s
<1>1. PICK k \in Drawn(f) : TRUE
  OBVIOUS
<1>2. f.head \in Nat \ {0} /\ kLast \in Int /\ k \in Nat /\ k <= kLast
  <2>1. f.head > 0 /\ k \in Nat /\ k <= kLast
    BY <1>1, DrawnSome
  <2>2. f.head \in Nat /\ f.live \in Nat /\ f.b = Buckets(f.head, w, c)
    BY DEF Framed
  <2>3. kLast \in Int
    BY <2>2, DrawnWhole
  <2> QED
    BY <2>1, <2>2, <2>3
<1>3. kLast \in Nat /\ f.phase \in Nat /\ f.phase <= Steps /\ Steps \in Nat \ {0}
  BY <1>2, GeometryAssumption DEF Framed
<1>4. s \in Nat \ {0} /\ kFull \in Nat /\ kFull >= 2 /\ kFull <= c /\ c \in Nat /\ c >= 2
  BY PaneParts DEF Pane
<1>5. f.b.kFull = kFull /\ f.b.stride = s
  BY BucketParts DEF Framed
<1>6. H \in Nat \ {0} /\ (H - 1) * d >= span
  BY <1>4, <1>5, Hidden
<1>7. (kLast + 1) * s <= f.head /\ f.head < (kLast + 2) * s
  <2>1. f.head \in Nat /\ f.head > 0 /\ f.live \in Nat /\ f.b = Buckets(f.head, w, c)
    BY <1>2 DEF Framed
  <2> QED
    BY <2>1, DrawnWhole
<1>8. BucketX(f.b, kLast, f.phase, c) = (H + c - 1) * (d * s * Steps) - (rest * Steps + f.phase) * span
  BY <1>2, <1>3, XIs DEF Framed, Edge
<1>9. c * Column(f.b) = c * (d * s * Steps)
  BY <1>5 DEF Column
<1> HIDE DEF s, kFull, H, kLast
<1>10. rest \in Nat /\ rest <= s - 1
  <2>1. (kLast + 2) * s = (kLast + 1) * s + s /\ (kLast + 1) * s \in Int
    BY <1>3, <1>4
  <2> QED
    BY <1>2, <1>4, <1>7, <2>1
<1> HIDE DEF rest
<1>11. d \in Nat /\ span \in Nat /\ H - 1 \in Nat /\ s * Steps \in Nat /\ d * s * Steps = d * (s * Steps)
  BY <1>3, <1>4, <1>6
<1>12. H + c - 1 = (H - 1) + c
  BY <1>4, <1>6
<1> DEFINE u == s * Steps
<1>13. rest * Steps + f.phase <= u
  <2>1. (rest + 1) * Steps <= s * Steps
    BY <1>3, <1>4, <1>10, ProductOrder
  <2>2. (rest + 1) * Steps = rest * Steps + Steps /\ rest * Steps \in Nat /\ s * Steps \in Nat
    BY <1>3, <1>4, <1>10
  <2> QED
    BY <1>3, <2>1, <2>2
<1>14. rest * Steps + f.phase \in Nat
  BY <1>3, <1>10
<1> DEFINE r == rest * Steps + f.phase
           g == H - 1
<1>15. (g + c) * (d * u) - r * span >= c * (d * u)
  <2> HIDE DEF d, span, u, r, g
  <2>0. d \in Nat /\ span \in Nat /\ u \in Nat /\ r \in Nat /\ g \in Nat
    BY <1>11, <1>14 DEF d, span, u, r, g
  <2>1. r * span <= u * span
    BY <1>13, <2>0, ProductOrder DEF u, r
  <2>2. span * u <= (g * d) * u
    <3>1. g * d \in Nat
      BY <2>0, ProductNat
    <3> QED
      BY <1>6, <2>0, <3>1, ProductOrder DEF g, d, span
  <2>3. (g + c) * (d * u) = (g * d) * u + c * (d * u) /\ span * u = u * span
    BY <1>4, <2>0
  <2>4. (g * d) * u \in Int /\ c * (d * u) \in Int /\ span * u \in Int /\ r * span \in Int
    BY <1>4, <2>0
  <2> QED
    BY <2>1, <2>2, <2>3, <2>4
<1> QED
  <2>1. BucketX(f.b, kLast, f.phase, c) = (g + c) * (d * u) - r * span
    BY <1>8, <1>11, <1>12
  <2>2. c * Column(f.b) = c * (d * u)
    BY <1>9, <1>11
  <2> QED
    BY <1>15, <2>1, <2>2 DEF kLast

\* On a ring that holds the buckets of a window and their lead, the oldest
\* vertex of a filled window lies on the left edge of the plot or beyond.
LEMMA LeftEdge ==
    ASSUME NEW w, NEW c, Pane(w, c), NEW f, Framed(f, w, c),
           ~DrawsZeroRegion(f.head, f.b.window),
           (f.b.kFull + MaxLead) * f.b.stride <= KSize - f.b.stride
    PROVE  BucketX(f.b, f.b.kFirst, f.phase, c) <= 0
<1> DEFINE s == StrideOf(w, c)
           kFull == FullOf(w, c)
           cover == CoverOf(w, c)
           lead == LeadBuckets(kFull, c)
           H == HiddenColumns(kFull, c)
           d == kFull - 1
           span == c - 1
           k == f.b.kFirst
<1>1. f.b.kFull = kFull /\ f.b.stride = s /\ f.b.window = cover * s /\ k \in Nat
      /\ (f.head > cover * s => (k + cover) * s <= f.head)
  BY BucketParts DEF Framed
<1>2. s \in Nat \ {0} /\ kFull \in Nat /\ kFull >= 2 /\ kFull <= c /\ c \in Nat /\ c >= 2
      /\ lead \in Nat /\ cover = kFull + lead /\ H * d <= lead * span
  BY <1>1, PaneParts DEF Pane
<1>3. H \in Nat \ {0}
  BY <1>2, Hidden
<1>4. cover \in Nat /\ cover * s \in Nat
  <2>1. cover \in Nat /\ s \in Nat
    BY <1>2
  <2> HIDE DEF cover, s
  <2> QED
    BY <2>1, ProductNat
<1>5. f.head \in Nat \ {0} /\ f.head > cover * s
  BY <1>1, <1>4 DEF Framed, DrawsZeroRegion, AtLeast
<1>6. f.phase \in Nat /\ Steps \in Nat \ {0}
  BY GeometryAssumption DEF Framed
<1>7. BucketX(f.b, k, f.phase, c)
        = (H + c - 1) * (d * s * Steps) - ((f.head - (k + 1) * s) * Steps + f.phase) * span
  BY <1>1, <1>5, <1>6, XIs DEF Framed, Edge
<1> HIDE DEF s, kFull, cover, lead, H, k
<1>8. d \in Nat /\ span \in Nat
  BY <1>2
<1>9. (d + lead) * s <= f.head - (k + 1) * s
  <2>1. (k + cover) * s = (d + lead) * s + (k + 1) * s
    <3>1. k + cover = (d + lead) + (k + 1)
      BY <1>1, <1>2
    <3>2. d + lead \in Nat /\ k + 1 \in Nat
      BY <1>1, <1>2, <1>8
    <3> QED
      BY <1>2, <3>1, <3>2
  <2>2. (d + lead) * s \in Int /\ (k + 1) * s \in Int
    BY <1>1, <1>2, <1>8
  <2> QED
    BY <1>1, <1>5, <2>1, <2>2
<1> DEFINE n == f.head - (k + 1) * s
<1>10. n \in Nat
  BY <1>1, <1>2, <1>5, <1>8, <1>9, ProductNat
<1> HIDE DEF n, d, span
<1>11. ((d + lead) * s) * Steps <= n * Steps + f.phase
  <2>1. ((d + lead) * s) * Steps <= n * Steps
    BY <1>2, <1>6, <1>8, <1>9, <1>10, ProductOrder DEF n
  <2>2. ((d + lead) * s) * Steps \in Int /\ n * Steps \in Int
    BY <1>2, <1>6, <1>8, <1>10
  <2> QED
    BY <1>6, <2>1, <2>2
<1> DEFINE u == s * Steps
           r == n * Steps + f.phase
<1>12. u \in Nat /\ r \in Nat /\ ((d + lead) * s) * Steps = (d + lead) * u /\ d * s * Steps = d * u
  BY <1>2, <1>6, <1>8, <1>10
<1>13. H + c - 1 = H + span
  BY <1>2, <1>3 DEF span
<1> HIDE DEF u
<1>14. (H + span) * (d * u) <= r * span
  <2> HIDE DEF r
  <2>1. ((d + lead) * u) * span <= r * span
    BY <1>2, <1>8, <1>11, <1>12, ProductOrder DEF r
  <2>2. (H * d) * u <= (lead * span) * u
    BY <1>2, <1>3, <1>8, <1>12, ProductOrder
  <2>3. (H + span) * (d * u) = (H * d) * u + (d * u) * span
    BY <1>3, <1>8, <1>12
  <2>4. ((d + lead) * u) * span = (d * u) * span + (lead * span) * u
    BY <1>2, <1>8, <1>12
  <2>5. (H * d) * u \in Int /\ (d * u) * span \in Int /\ (lead * span) * u \in Int /\ r * span \in Int
    BY <1>2, <1>3, <1>8, <1>12
  <2> QED
    BY <2>1, <2>2, <2>3, <2>4, <2>5
<1> QED
  <2>1. (H + span) * (d * u) \in Int /\ r * span \in Int
    BY <1>3, <1>8, <1>12
  <2>2. BucketX(f.b, k, f.phase, c) = (H + span) * (d * u) - r * span
    BY <1>7, <1>12, <1>13 DEF n
  <2> QED
    BY <1>14, <2>1, <2>2 DEF k

LEMMA CoveredInv == ScrollInv => PanelIsCovered
<1> SUFFICES ASSUME ScrollInv PROVE PanelIsCovered
  OBVIOUS
<1>1. Pane(want, cols) /\ Framed(frame, want, cols)
  BY FrameParts
<1>2. frame.b.kFull >= 3 /\ cols >= 5 /\ Drawn(frame) # {} =>
        XOf(frame, frame.b.kLast) >= cols * Column(frame.b)
  BY <1>1, RightEdge DEF XOf
<1>3. DrawsZeroRegion(frame.head, frame.b.window) => frame.b.kFirst = 0
  <2> DEFINE full == CoverOf(want, cols) * StrideOf(want, cols)
  <2>1. frame.b.window = full /\ (frame.head <= full => frame.b.kFirst = 0)
    BY <1>1, BucketParts DEF Framed
  <2>2. full \in Nat /\ frame.head \in Nat
    BY <1>1, PaneParts, ProductNat DEF Framed
  <2> HIDE DEF full
  <2> QED
    BY <2>1, <2>2 DEF DrawsZeroRegion, AtLeast
<1>4. /\ ~DrawsZeroRegion(frame.head, frame.b.window)
      /\ (frame.b.kFull + MaxLead) * frame.b.stride <= KSize - frame.b.stride
      => XOf(frame, frame.b.kFirst) <= 0
  BY <1>1, LeftEdge DEF XOf
<1> QED
  BY <1>2, <1>3, <1>4 DEF PanelIsCovered

-----------------------------------------------------------------------------
\* Every vertex of every frame aggregates its bucket's whole span, of entries
\* the producer is not filling (buckets, firstDrawn, bucketReads).
THEOREM VerticesWhole == ScrollSpec => []VerticesAreWhole
<1> QED
  BY InvHolds, WholeInv, PTL

\* All vertices move left together, by the entries and the phase that passed
\* and by nothing else (bucketX).
THEOREM RigidTrace == ScrollSpec => ScrollsRigidly
<1>1. ScrollInv /\ ScrollInv' /\ [ScrollNext]_scrollVars =>
        [\A k \in Drawn(frame) \intersect Drawn(frame') :
            XOf(frame, k) - XOf(frame', k) =
                (cols - 1) * ((frame'.head - frame.head) * Steps + frame'.phase - frame.phase)]_scrollVars
  <2>1. ScrollNext => UNCHANGED <<want, cols>>
    BY DEF ScrollNext, Advance
  <2> QED
    BY <2>1, RigidStep
<1> QED
  BY <1>1, InvHolds, PTL DEF ScrollSpec, ScrollsRigidly

\* The two edges of the panel are covered by what was measured (visibleRight,
\* hiddenColumns, leadBuckets, drawsZeroRegion).
THEOREM PanelCovered == ScrollSpec => []PanelIsCovered
<1> QED
  BY InvHolds, CoveredInv, PTL

-----------------------------------------------------------------------------
(* The spectrum's frames.  Remainders first: what has the same place in a   *)
(* ring and is less than a ring apart is the same.                          *)

LEMMA Rem ==
    ASSUME NEW a \in Nat, NEW c \in Nat \ {0}
    PROVE  a % c \in 0..(c - 1) /\ a = (a \div c) * c + (a % c) /\ a \div c \in Int
OBVIOUS

LEMMA SameSlot ==
    ASSUME NEW a \in Nat, NEW b \in Nat, NEW c \in Nat \ {0}, a % c = b % c, a < b + c, b < a + c
    PROVE  a = b
<1>1. a % c \in 0..(c - 1) /\ a = (a \div c) * c + (a % c) /\ a \div c \in Int
  BY Rem
<1>2. b % c \in 0..(c - 1) /\ b = (b \div c) * c + (b % c) /\ b \div c \in Int
  BY Rem
<1> DEFINE p == a \div c
           q == b \div c
<1>3. p \in Int /\ q \in Int /\ a - b = (p - q) * c
  BY <1>1, <1>2
<1> HIDE DEF p, q
<1>4. p - q <= -1 => (p - q) * c <= - c
  BY <1>3
<1>5. p - q >= 1 => (p - q) * c >= c
  BY <1>3
<1>6. p - q = 0
  BY <1>3, <1>4, <1>5
<1> QED
  BY <1>3, <1>6

LEMMA Small ==
    ASSUME NEW a \in Nat, NEW c \in Nat \ {0}
    PROVE  a % c \in 0..(c - 1) /\ a % c <= a
OBVIOUS

LEMMA Parity == ASSUME NEW e \in Nat PROVE (e % 2 = 0 => (e + 1) % 2 = 1) /\ (e % 2 = 1 => (e + 1) % 2 = 0)
OBVIOUS
-----------------------------------------------------------------------------
(* The writing side keeps its payload.                                      *)

LEMMA Constants ==
    /\ Capacity \in Nat \ {0} /\ Window \in Nat \ {0} /\ Window < Capacity
    /\ Opened \in Pair /\ Prepared \subseteq Pair
BY ScopeAssumption DEF ScopeAssumption, Pair

LEMMA HoldsNothing == ASSUME NEW s, NEW line PROVE Holds(s, line, 0)
<1>1. \A n \in (0 - Capacity)..(0 - 1) : ~(n >= 0)
  BY Constants
<1>2. \A i \in 0..(Capacity - 1) : ~(i < 0)
  BY Constants
<1> QED
  BY <1>1, <1>2 DEF Holds

LEMMA WriteInit == ScopeInit => WriteType /\ WriterInv /\ SlotInv
<1> SUFFICES ASSUME ScopeInit PROVE WriteType /\ WriterInv /\ SlotInv
  OBVIOUS
<1> USE Constants
<1>1. /\ prepared = <<Opened>> /\ published = Opened /\ epoch = 2 /\ Line = 1
      /\ write = [r \in Rings |-> 0] /\ gen = [r \in Rings |-> 1]
      /\ slot = [r \in Rings |-> [i \in 0..(Capacity - 1) |-> Unstored]]
      /\ job = [at |-> "idle", end |-> 0]
  BY DEF ScopeInit, Both, Idle, Line
<1>2. WriteType
  BY <1>1 DEF WriteType, Frame, Unstored, Places, Rings
<1>3. WriterInv
  BY <1>1 DEF WriterInv, Rings, Pushing, Rewound
<1>4. \A r \in Rings : Extent(r) = 0
  BY <1>1 DEF Extent, Rings
<1>5. SlotInv
  <2>1. ASSUME NEW r \in Rings  PROVE Holds(slot[r], gen[r], 0)
    BY HoldsNothing
  <2> QED
    BY <1>4, <2>1 DEF SlotInv
<1> QED
  BY <1>2, <1>3, <1>5

\* What a store to a ring's payload leaves in it.
LEMMA StoredFrames ==
    ASSUME WriteType, NEW q \in Rings, NEW end \in Nat, end <= write[q] + Capacity, write[q] <= end,
           NEW r \in Rings
    PROVE  /\ r # q => Stored(q, end)[r] = slot[r]
           /\ \A n \in Nat : write[q] <= n /\ n < end =>
                 Stored(q, end)[q][n % Capacity] = [line |-> Line, n |-> n]
           /\ \A n \in Nat : n < write[q] /\ n >= end - Capacity =>
                 Stored(q, end)[q][n % Capacity] = slot[q][n % Capacity]
           /\ \A i \in 0..(Capacity - 1) :
                 \/ Stored(q, end)[q][i].line = Line
                 \/ Stored(q, end)[q][i] = slot[q][i] /\ \A n \in write[q]..(end - 1) : n % Capacity # i
           /\ Stored(q, end) \in [Rings -> [0..(Capacity - 1) -> Frame]]
<1> USE Constants
<1> DEFINE new(i) == {n \in write[q]..(end - 1) : n % Capacity = i}
           now(i) == IF new(i) = {} THEN slot[q][i]
                                    ELSE [line |-> Line, n |-> CHOOSE n \in new(i) : TRUE]
<1>1. slot \in [Rings -> [0..(Capacity - 1) -> Frame]] /\ write[q] \in Nat /\ Line \in Nat
  BY DEF WriteType, Line
<1>2. Stored(q, end) = [slot EXCEPT ![q] = [i \in 0..(Capacity - 1) |-> now(i)]]
  BY <1>1 DEF Stored
<1>4. ASSUME NEW i \in 0..(Capacity - 1)  PROVE now(i) \in Frame
  <2>1. CASE new(i) = {}
    BY <2>1, <1>1
  <2>2. CASE new(i) # {}
    <3> DEFINE last == CHOOSE n \in new(i) : TRUE
    <3>1. last \in new(i)
      BY <2>2
    <3>2. last \in Int
      BY <3>1, <1>1
    <3> HIDE DEF last
    <3>3. [line |-> Line, n |-> last] \in Frame
      BY <3>2, <1>1 DEF Frame
    <3> QED
      BY <2>2, <3>3 DEF last
  <2> QED
    BY <2>1, <2>2
<1>5. Stored(q, end)[q] = [i \in 0..(Capacity - 1) |-> now(i)]
  BY <1>1, <1>2
<1>6. ASSUME NEW n \in Nat
      PROVE  /\ n % Capacity \in 0..(Capacity - 1)
             /\ write[q] <= n /\ n < end => now(n % Capacity) = [line |-> Line, n |-> n]
             /\ n < write[q] /\ n >= end - Capacity => now(n % Capacity) = slot[q][n % Capacity]
  <2>1. n % Capacity \in 0..(Capacity - 1)
    BY Small
  <2>2. \A m \in new(n % Capacity) : m \in Nat /\ write[q] <= m /\ m < end /\ m % Capacity = n % Capacity
    BY <1>1
  <2>3. ASSUME write[q] <= n, n < end  PROVE now(n % Capacity) = [line |-> Line, n |-> n]
    <3>1. n \in new(n % Capacity)
      BY <2>3, <1>1
    <3>2. ASSUME NEW m \in new(n % Capacity)  PROVE m = n
      <4>0. m \in Nat /\ write[q] <= m /\ m < end
        BY <2>2
      <4>1. m % Capacity = n % Capacity
        BY <2>2
      <4> HIDE DEF new
      <4>2. m < n + Capacity /\ n < m + Capacity
        BY <4>0, <2>3, <1>1
      <4> QED
        BY <4>0, <4>1, <4>2, SameSlot
    <3>3. (CHOOSE m \in new(n % Capacity) : TRUE) = n /\ new(n % Capacity) # {}
      BY <3>1, <3>2
    <3> QED
      BY <3>3
  <2>4. ASSUME n < write[q], n >= end - Capacity  PROVE now(n % Capacity) = slot[q][n % Capacity]
    <3>1. ASSUME NEW m \in new(n % Capacity)  PROVE FALSE
      <4>0. m \in Nat /\ write[q] <= m /\ m < end
        BY <2>2
      <4>1. m % Capacity = n % Capacity
        BY <2>2
      <4> HIDE DEF new
      <4>2. m < n + Capacity /\ n < m + Capacity /\ n < m
        BY <4>0, <2>4, <1>1
      <4>3. m = n
        BY <4>0, <4>1, <4>2, SameSlot
      <4> QED
        BY <4>2, <4>3, <4>0
    <3>2. new(n % Capacity) = {}
      BY <3>1
    <3> QED
      BY <3>2
  <2> QED
    BY <2>1, <2>3, <2>4
<1>7. \A i \in 0..(Capacity - 1) :
         \/ now(i).line = Line
         \/ now(i) = slot[q][i] /\ \A n \in write[q]..(end - 1) : n % Capacity # i
  OBVIOUS
<1>8. Stored(q, end) \in [Rings -> [0..(Capacity - 1) -> Frame]]
  <2> DEFINE payload == [i \in 0..(Capacity - 1) |-> now(i)]
  <2>1. payload \in [0..(Capacity - 1) -> Frame]
    BY <1>4
  <2>2. Stored(q, end) = [slot EXCEPT ![q] = payload]
    BY <1>2
  <2> HIDE DEF payload
  <2> QED
    BY <2>1, <2>2, <1>1
<1>9. r # q => Stored(q, end)[r] = slot[r]
  BY <1>1, <1>2
<1> HIDE DEF now
<1> QED
  BY <1>5, <1>6, <1>7, <1>8, <1>9

\* The steps of the writing side, one store each.
LEMMA WriteCases ==
    ASSUME Write
    PROVE  \/ \E p \in Prepared : ScopePrepare(p)
           \/ \E n \in 1..Capacity : Push(n)
           \/ StorePayload \/ StoreIndex \/ StoreGeneration \/ StorePair
BY DEF Write

LEMMA PreparedGrows ==
    ASSUME WriteType, NEW p \in Pair, prepared' = Append(prepared, p)
    PROVE  /\ Line' = Line + 1 /\ prepared' \in Seq(Pair) /\ Line \in Nat
           /\ \A i \in 1..Line : prepared'[i] = prepared[i]
           /\ prepared'[Line'] = p
BY DEF WriteType, Line

LEMMA WriteSame == Line \in Nat /\ prepared' = prepared => Line' = Line
BY DEF Line

LEMMA WriteFacts ==
    ASSUME WriteType
    PROVE  /\ write \in [Rings -> Nat] /\ gen \in [Rings -> Nat] /\ epoch \in Nat
           /\ published \in Pair /\ slot \in [Rings -> [0..(Capacity - 1) -> Frame]]
           /\ prepared \in Seq(Pair) /\ Line \in Nat \ {0} /\ job \in [at : Places, end : Nat]
           /\ prepared[Line] \in Pair
           /\ prepared[Line].block \in Nat \ {0} /\ prepared[Line].rate \in Nat
           /\ "in" \in Rings /\ "out" \in Rings
           /\ write["in"] \in Nat /\ write["out"] \in Nat /\ gen["in"] \in Nat /\ gen["out"] \in Nat
           /\ job.end \in Nat /\ job.at \in Places
<1>1. prepared \in Seq(Pair) /\ Line \in Nat /\ Line >= 1
  BY DEF WriteType, Line
<1>2. prepared[Line] \in Pair
  BY <1>1 DEF Line
<1>3. prepared[Line].block \in Nat \ {0} /\ prepared[Line].rate \in Nat
  BY <1>2 DEF Pair
<1>4. "in" \in Rings /\ "out" \in Rings
  BY DEF Rings
<1> QED
  BY <1>1, <1>2, <1>3, <1>4 DEF WriteType

LEMMA WriterStep ==
    ASSUME WriteType, WriterInv, Write
    PROVE  WriteType' /\ WriterInv'
<1> USE Constants
<1>1. /\ Line \in Nat \ {0} /\ job.end \in Nat /\ epoch \in Nat
      /\ write["in"] \in Nat /\ write["out"] \in Nat /\ gen["in"] \in Nat /\ gen["out"] \in Nat
  BY WriteFacts
<1>8. /\ prepared[Line] \in Pair /\ published \in Pair
      /\ prepared[Line].block \in Nat \ {0} /\ prepared[Line].rate \in Nat
  BY WriteFacts
<1>9. write \in [Rings -> Nat] /\ gen \in [Rings -> Nat] /\ "in" \in Rings /\ "out" \in Rings
  BY WriteFacts
<1>2. ASSUME NEW p \in Prepared, ScopePrepare(p)  PROVE WriteType' /\ WriterInv'
  <2>1. /\ job.at = "idle" /\ job' = [at |-> "rewind in", end |-> job.end]
        /\ prepared' = Append(prepared, p) /\ p \in Pair
        /\ write' = write /\ gen' = gen /\ slot' = slot /\ epoch' = epoch /\ published' = published
    BY <1>2 DEF ScopePrepare, Make, ringVars, pairVars
  <2>2. /\ Line' = Line + 1 /\ prepared' \in Seq(Pair)
        /\ \A i \in 1..Line : prepared'[i] = prepared[i]
    BY <2>1, PreparedGrows
  <2>3. Line' - 1 = Line /\ Line' >= 1 /\ prepared'[Line] = prepared[Line]
    BY <2>2, <1>1
  <2>4. prepared' \in Seq(Pair)
    BY <2>2
  <2>5. WriteType'
    <3>1. job' \in [at : Places, end : Nat]
      BY <1>1, <2>1 DEF Places
    <3> QED
      BY <2>1, <2>3, <2>4, <3>1 DEF WriteType
  <2>6. WriterInv'
    BY <1>1, <2>1, <2>2, <2>3 DEF WriterInv, Pushing, Rewound
  <2> QED
    BY <2>5, <2>6
<1>3. ASSUME NEW n \in 1..Capacity, Push(n)  PROVE WriteType' /\ WriterInv'
  <2> DEFINE end == write["in"] + n
  <2>0. /\ end \in Nat /\ end <= write["in"] + Capacity /\ write["in"] < end
        /\ end = write["in"] + n /\ n \in Nat
    BY <1>1
  <2> HIDE DEF end
  <2>1. /\ job.at = "idle" /\ n <= prepared[Line].block /\ slot' = Stored("in", end)
        /\ job' = [at |-> "publish in", end |-> end] /\ end \in Nat
        /\ write' = write /\ gen' = gen /\ epoch' = epoch /\ published' = published
        /\ prepared' = prepared /\ Line' = Line
    BY <1>1, <2>0, <1>3, WriteSame DEF Push, pairVars, end
  <2>2. slot' \in [Rings -> [0..(Capacity - 1) -> Frame]]
    <3>1. "in" \in Rings /\ end <= write["in"] + Capacity /\ write["in"] <= end
      BY <1>1, <1>9, <2>0
    <3> QED
      BY <2>1, <3>1, StoredFrames
  <2>3. WriteType'
    BY <1>1, <2>1, <2>2 DEF WriteType, Places, Pushing
  <2>4. WriterInv'
    <3>1. /\ gen["in"] = Line /\ gen["out"] = Line /\ gen["in"] >= 1 /\ write["in"] = write["out"]
          /\ epoch % 2 = 0 /\ published = prepared[Line]
      BY <2>1 DEF WriterInv, Pushing, Rewound
    <3>2. write["out"] < end /\ end <= write["out"] + AtMost(prepared[Line].block, Capacity)
      <4>1. AtMost(prepared[Line].block, Capacity) \in {prepared[Line].block, Capacity}
        BY DEF AtMost
      <4>2. n <= AtMost(prepared[Line].block, Capacity) /\ AtMost(prepared[Line].block, Capacity) \in Nat
        <5> DEFINE most == AtMost(prepared[Line].block, Capacity)
        <5>1. most \in Nat
          BY <1>8, <4>1
        <5>2. n <= prepared[Line].block
          BY <2>1
        <5> HIDE DEF most
        <5> QED
          BY <4>1, <5>1, <5>2 DEF most
      <4> QED
        BY <1>1, <2>0, <3>1, <4>2
    <3> QED
      BY <2>1, <3>1, <3>2 DEF WriterInv, Pushing, Rewound
  <2> QED
    BY <2>3, <2>4
<1>4. ASSUME StorePayload  PROVE WriteType' /\ WriterInv'
  <2>1. /\ job.at = "store out" /\ job' = [at |-> "publish out", end |-> job.end]
        /\ slot' = Stored("out", job.end)
        /\ write' = write /\ gen' = gen /\ epoch' = epoch /\ published' = published
        /\ prepared' = prepared /\ Line' = Line
    BY <1>1, <1>4, WriteSame DEF StorePayload, Make, pairVars
  <2>2. /\ write["out"] < job.end /\ job.end <= write["out"] + AtMost(prepared[Line].block, Capacity)
        /\ job.end \in Nat
    BY <1>1, <2>1 DEF WriterInv, Pushing
  <2>3. slot' \in [Rings -> [0..(Capacity - 1) -> Frame]]
    <3>1. "out" \in Rings /\ job.end <= write["out"] + Capacity /\ write["out"] <= job.end
      BY <1>1, <1>8, <1>9, <2>2 DEF AtMost
    <3> QED
      BY <2>1, <2>2, <3>1, StoredFrames
  <2>4. WriteType'
    BY <1>1, <2>1, <2>3 DEF WriteType, Places, Pushing
  <2>5. WriterInv'
    BY <1>1, <2>1 DEF WriterInv, Pushing, Rewound
  <2> QED
    BY <2>4, <2>5
<1>5. ASSUME StoreIndex  PROVE WriteType' /\ WriterInv'
  <2>1. /\ gen' = gen /\ slot' = slot /\ epoch' = epoch /\ published' = published
        /\ prepared' = prepared /\ Line' = Line
    BY <1>1, <1>5, WriteSame DEF StoreIndex, pairVars
  <2>2. CASE Make("publish in", "store out") /\ write' = [write EXCEPT !["in"] = job.end]
    <3>1. job.at = "publish in" /\ job' = [at |-> "store out", end |-> job.end]
      BY <2>2 DEF Make
    <3>2. write'["in"] = job.end /\ write'["out"] = write["out"] /\ write' \in [Rings -> Nat]
      BY <1>1, <1>9, <2>2
    <3>3. WriteType'
      BY <1>1, <2>1, <3>1, <3>2 DEF WriteType, Pushing, Rewound, Places
    <3>4. WriterInv'
      BY <1>1, <2>1, <3>1, <3>2 DEF WriterInv, Pushing, Rewound
    <3> QED
      BY <3>3, <3>4
  <2>3. CASE Make("publish out", "idle") /\ write' = [write EXCEPT !["out"] = job.end]
    <3>1. job.at = "publish out" /\ job' = [at |-> "idle", end |-> 0]
      BY <2>3 DEF Make, Idle
    <3>2. write'["out"] = job.end /\ write'["in"] = write["in"] /\ write' \in [Rings -> Nat]
      BY <1>1, <1>9, <2>3
    <3>3. WriteType'
      BY <1>1, <2>1, <3>1, <3>2 DEF WriteType, Pushing, Rewound, Places
    <3>4. WriterInv'
      BY <1>1, <2>1, <3>1, <3>2 DEF WriterInv, Pushing, Rewound
    <3> QED
      BY <3>3, <3>4
  <2>4. CASE Make("rewind in", "bump in") /\ write' = [write EXCEPT !["in"] = 0]
    <3>1. job.at = "rewind in" /\ job' = [at |-> "bump in", end |-> job.end]
      BY <2>4 DEF Make
    <3>2. write'["in"] = 0 /\ write'["out"] = write["out"] /\ write' \in [Rings -> Nat]
      BY <1>1, <1>9, <2>4
    <3>3. WriteType'
      BY <1>1, <2>1, <3>1, <3>2 DEF WriteType, Pushing, Rewound, Places
    <3>4. WriterInv'
      BY <1>1, <2>1, <3>1, <3>2 DEF WriterInv, Pushing, Rewound
    <3> QED
      BY <3>3, <3>4
  <2>5. CASE Make("rewind out", "bump out") /\ write' = [write EXCEPT !["out"] = 0]
    <3>1. job.at = "rewind out" /\ job' = [at |-> "bump out", end |-> job.end]
      BY <2>5 DEF Make
    <3>2. write'["out"] = 0 /\ write'["in"] = write["in"] /\ write' \in [Rings -> Nat]
      BY <1>1, <1>9, <2>5
    <3>3. WriteType'
      BY <1>1, <2>1, <3>1, <3>2 DEF WriteType, Pushing, Rewound, Places
    <3>4. WriterInv'
      BY <1>1, <2>1, <3>1, <3>2 DEF WriterInv, Pushing, Rewound
    <3> QED
      BY <3>3, <3>4
  <2> QED
    BY <1>5, <2>2, <2>3, <2>4, <2>5 DEF StoreIndex
<1>6. ASSUME StoreGeneration  PROVE WriteType' /\ WriterInv'
  <2>1. /\ write' = write /\ slot' = slot /\ epoch' = epoch /\ published' = published
        /\ prepared' = prepared /\ Line' = Line
    BY <1>1, <1>6, WriteSame DEF StoreGeneration, pairVars
  <2>2. CASE Make("bump in", "rewind out") /\ gen' = [gen EXCEPT !["in"] = @ + 1]
    <3>1. job.at = "bump in" /\ job' = [at |-> "rewind out", end |-> job.end]
      BY <2>2 DEF Make
    <3>2. gen'["in"] = gen["in"] + 1 /\ gen'["out"] = gen["out"] /\ gen' \in [Rings -> Nat]
      <4>1. gen' = [gen EXCEPT !["in"] = gen["in"] + 1]
        BY <2>2
      <4>2. gen["in"] + 1 \in Nat
        BY <1>1
      <4> QED
        BY <1>9, <4>1, <4>2
    <3>3. WriteType'
      BY <1>1, <2>1, <3>1, <3>2 DEF WriteType, Pushing, Rewound, Places
    <3>4. /\ gen["in"] = Line - 1 /\ gen["out"] = Line - 1 /\ gen["out"] >= 1
          /\ write["in"] = 0 /\ epoch % 2 = 0
      BY <3>1 DEF WriterInv, Pushing, Rewound
    <3>5. gen'["in"] = Line' /\ gen'["out"] = Line' - 1 /\ gen'["in"] >= 1 /\ gen'["out"] >= 1
      BY <1>1, <2>1, <3>2, <3>4
    <3>6. WriterInv'
      BY <2>1, <3>1, <3>4, <3>5 DEF WriterInv, Pushing, Rewound
    <3> QED
      BY <3>3, <3>6
  <2>3. CASE /\ Make("bump out", IF published = prepared[Line] THEN "idle" ELSE "odd")
             /\ gen' = [gen EXCEPT !["out"] = @ + 1]
    <3>1. job.at = "bump out"
      BY <2>3 DEF Make
    <3>7. published = prepared[Line] => job' = [at |-> "idle", end |-> 0]
      BY <2>3 DEF Make, Idle
    <3>8. published # prepared[Line] => job' = [at |-> "odd", end |-> job.end]
      BY <2>3 DEF Make
    <3>2. gen'["out"] = gen["out"] + 1 /\ gen'["in"] = gen["in"] /\ gen' \in [Rings -> Nat]
      <4>1. gen' = [gen EXCEPT !["out"] = gen["out"] + 1]
        BY <2>3
      <4>2. gen["out"] + 1 \in Nat
        BY <1>1
      <4> QED
        BY <1>9, <4>1, <4>2
    <3>3. WriteType'
      <4>1. job' \in [at : Places, end : Nat]
        <5>1. CASE published = prepared[Line]
          <6>1. job' = [at |-> "idle", end |-> 0]
            BY <3>7, <5>1
          <6> QED
            BY <6>1 DEF Places
        <5>2. CASE published # prepared[Line]
          <6>1. job' = [at |-> "odd", end |-> job.end]
            BY <3>8, <5>2
          <6> QED
            BY <1>1, <6>1 DEF Places, Rewound
        <5> QED
          BY <5>1, <5>2
      <4> QED
        BY <1>1, <2>1, <3>2, <4>1 DEF WriteType
    <3>4. /\ gen["in"] = Line /\ gen["out"] = Line - 1 /\ gen["out"] >= 1
          /\ write["in"] = 0 /\ write["out"] = 0 /\ epoch % 2 = 0
      BY <3>1 DEF WriterInv, Pushing, Rewound
    <3>5. gen'["in"] = Line' /\ gen'["out"] = Line' /\ gen'["in"] >= 1 /\ gen'["out"] >= 1
      BY <1>1, <2>1, <3>2, <3>4
    <3>6. WriterInv'
      <4>1. CASE published = prepared[Line]
        <5>1. job'.at = "idle" /\ write'["in"] = write'["out"]
          BY <2>1, <3>7, <3>4, <4>1
        <5> QED
          BY <2>1, <3>4, <3>5, <4>1, <5>1 DEF WriterInv, Pushing, Rewound
      <4>2. CASE published # prepared[Line]
        <5>1. job'.at = "odd"
          BY <3>8, <4>2
        <5> QED
          BY <2>1, <3>4, <3>5, <5>1 DEF WriterInv, Pushing, Rewound
      <4> QED
        BY <4>1, <4>2
    <3> QED
      BY <3>3, <3>6
  <2> QED
    BY <1>6, <2>2, <2>3 DEF StoreGeneration
<1>7. ASSUME StorePair  PROVE WriteType' /\ WriterInv'
  <2>1. /\ write' = write /\ gen' = gen /\ slot' = slot
        /\ prepared' = prepared /\ Line' = Line
    BY <1>1, <1>7, WriteSame DEF StorePair, ringVars
  <2>2. CASE Make("odd", "rate") /\ epoch' = epoch + 1 /\ UNCHANGED published
    <3>1. job.at = "odd" /\ job' = [at |-> "rate", end |-> job.end]
      BY <2>2 DEF Make
    <3>2. /\ epoch' \in Nat /\ published' = published
          /\ (epoch % 2 = 0 => epoch' % 2 = 1) /\ (epoch % 2 = 1 => epoch' % 2 = 0)
      <4>1. epoch' = epoch + 1 /\ published' = published
        BY <2>2
      <4> QED
        BY <1>1, <4>1, Parity
    <3>3. WriteType'
      BY <1>1, <2>1, <3>1, <3>2 DEF WriteType, Pushing, Rewound, Places
    <3>4. /\ gen["in"] = Line /\ gen["out"] = Line /\ write["in"] = 0 /\ write["out"] = 0
          /\ gen["in"] >= 1 /\ epoch % 2 = 0
      BY <3>1 DEF WriterInv, Pushing, Rewound
    <3>5. epoch' % 2 = 1 /\ published' = published
      BY <3>2, <3>4
    <3>6. WriterInv'
      BY <2>1, <3>1, <3>4, <3>5 DEF WriterInv, Pushing, Rewound
    <3> QED
      BY <3>3, <3>6
  <2>3. CASE /\ Make("rate", "block") /\ UNCHANGED epoch
             /\ published' = [published EXCEPT !.rate = prepared[Line].rate]
    <3>1. job.at = "rate" /\ job' = [at |-> "block", end |-> job.end]
      BY <2>3 DEF Make
    <3>2. published' \in Pair /\ published'.rate = prepared[Line].rate
      BY <1>8, <2>3 DEF Pair
    <3>3. WriteType'
      BY <1>1, <1>8, <2>1, <2>3, <3>1, <3>2 DEF WriteType, Pushing, Rewound, Places
    <3>4. WriterInv'
      BY <1>1, <1>8, <2>1, <2>3, <3>1, <3>2 DEF WriterInv, Pushing, Rewound
    <3> QED
      BY <3>3, <3>4
  <2>4. CASE /\ Make("block", "even") /\ UNCHANGED epoch
             /\ published' = [published EXCEPT !.block = prepared[Line].block]
    <3>1. job.at = "block" /\ job' = [at |-> "even", end |-> job.end]
      BY <2>4 DEF Make
    <3>2. published.rate = prepared[Line].rate
      BY <3>1 DEF WriterInv
    <3>3. published' \in Pair /\ published' = prepared[Line]
      BY <1>8, <2>4, <3>2 DEF Pair
    <3>4. WriteType'
      BY <1>1, <2>1, <2>4, <3>1, <3>3 DEF WriteType, Pushing, Rewound, Places
    <3>5. WriterInv'
      BY <1>1, <2>1, <2>4, <3>1, <3>3 DEF WriterInv, Pushing, Rewound
    <3> QED
      BY <3>4, <3>5
  <2>5. CASE Make("even", "idle") /\ epoch' = epoch + 1 /\ UNCHANGED published
    <3>1. job.at = "even" /\ job' = [at |-> "idle", end |-> 0]
      BY <2>5 DEF Make, Idle
    <3>2. /\ epoch' \in Nat /\ published' = published
          /\ (epoch % 2 = 0 => epoch' % 2 = 1) /\ (epoch % 2 = 1 => epoch' % 2 = 0)
      <4>1. epoch' = epoch + 1 /\ published' = published
        BY <2>5
      <4> QED
        BY <1>1, <4>1, Parity
    <3>3. WriteType'
      BY <1>1, <2>1, <3>1, <3>2 DEF WriteType, Pushing, Rewound, Places
    <3>4. /\ gen["in"] = Line /\ gen["out"] = Line /\ write["in"] = 0 /\ write["out"] = 0
          /\ gen["in"] >= 1 /\ epoch % 2 = 1 /\ published = prepared[Line]
      BY <3>1 DEF WriterInv, Pushing, Rewound
    <3>5. epoch' % 2 = 0 /\ published' = published
      BY <3>2, <3>4
    <3>6. WriterInv'
      BY <2>1, <3>1, <3>4, <3>5 DEF WriterInv, Pushing, Rewound
    <3> QED
      BY <3>3, <3>6
  <2> QED
    BY <1>7, <2>2, <2>3, <2>4, <2>5 DEF StorePair
<1> QED
  BY WriteCases, <1>2, <1>3, <1>4, <1>5, <1>6, <1>7

\* What a store does to a ring, and what it never does.
Kept(r)    == slot'[r] = slot[r] /\ gen'[r] = gen[r] /\ Extent(r)' = Extent(r)
Emptied(r) == slot'[r] = slot[r] /\ Extent(r)' = 0 /\ (~Fresh \/ gen'["in"] # gen["in"])
Filled(r)  == /\ gen'[r] = gen[r] /\ gen[r] = Line /\ Extent(r) = write[r]
              /\ \E end \in Nat : /\ write[r] < end /\ end <= write[r] + Capacity
                                  /\ slot' = Stored(r, end) /\ Extent(r)' = end
Effect(r)  == Kept(r) \/ Emptied(r) \/ Filled(r)

Grown ==
    /\ gen["in"] <= gen'["in"] /\ gen["out"] <= gen'["out"] /\ epoch <= epoch'
    /\ (epoch' = epoch /\ epoch % 2 = 0) => published' = published
    /\ (Fresh /\ gen'["in"] = gen["in"]) =>
          Fresh' /\ Reach <= Reach' /\ write["out"] <= write'["out"]

LEMMA GrownIf ==
    ASSUME gen' = gen, epoch' = epoch, published' = published, job'.at \notin Rewound,
           gen["in"] \in Nat, gen["out"] \in Nat, epoch \in Nat,
           Reach <= Reach', write["out"] <= write'["out"]
    PROVE  Grown
<1>1. Fresh'
  BY DEF Fresh
<1>2. gen["in"] <= gen'["in"] /\ gen["out"] <= gen'["out"] /\ epoch <= epoch'
  OBVIOUS
<1> QED
  BY <1>1, <1>2 DEF Grown

LEMMA WriterEffect ==
    ASSUME WriteType, WriterInv, Write
    PROVE  Effect("in") /\ Effect("out") /\ Grown
<1> USE Constants
<1>1. /\ Line \in Nat \ {0} /\ job.end \in Nat /\ epoch \in Nat
      /\ write["in"] \in Nat /\ write["out"] \in Nat /\ gen["in"] \in Nat /\ gen["out"] \in Nat
  BY WriteFacts
<1>8. /\ prepared[Line] \in Pair /\ published \in Pair
      /\ prepared[Line].block \in Nat \ {0} /\ prepared[Line].rate \in Nat
  BY WriteFacts
<1>9. /\ write \in [Rings -> Nat] /\ gen \in [Rings -> Nat] /\ "in" \in Rings /\ "out" \in Rings
      /\ slot \in [Rings -> [0..(Capacity - 1) -> Frame]]
  BY WriteFacts
<1>2. ASSUME NEW p \in Prepared, ScopePrepare(p)  PROVE Effect("in") /\ Effect("out") /\ Grown
  <2>1. /\ job.at = "idle" /\ job'.at = "rewind in"
        /\ write' = write /\ gen' = gen /\ slot' = slot /\ epoch' = epoch /\ published' = published
    BY <1>2 DEF ScopePrepare, Make, ringVars, pairVars
  <2>2. Extent("in")' = Extent("in") /\ Extent("out")' = Extent("out") /\ Reach' = Reach
    BY <2>1 DEF Extent, Reach
  <2>3. Reach <= Reach' /\ write["out"] <= write'["out"] /\ job'.at \notin Rewound
    <3>1. Reach \in Nat
      BY <1>1 DEF Reach
    <3>2. Reach' = Reach /\ write'["out"] = write["out"]
      BY <2>1, <2>2
    <3>3. job'.at \notin Rewound
      BY <2>1, <2>2 DEF Rewound
    <3> QED
      BY <1>1, <3>1, <3>2, <3>3
  <2>4. Grown
    BY <1>1, <2>1, <2>3, GrownIf
  <2> QED
    BY <2>1, <2>2, <2>4 DEF Effect, Kept
<1>3. ASSUME NEW n \in 1..Capacity, Push(n)  PROVE Effect("in") /\ Effect("out") /\ Grown
  <2> DEFINE end == write["in"] + n
  <2>0. /\ end \in Nat /\ end <= write["in"] + Capacity /\ write["in"] < end
    BY <1>1
  <2> HIDE DEF end
  <2>1. /\ job.at = "idle" /\ slot' = Stored("in", end)
        /\ job' = [at |-> "publish in", end |-> end]
        /\ write' = write /\ gen' = gen /\ epoch' = epoch /\ published' = published
    BY <1>3 DEF Push, pairVars, end
  <2>2. job'.at = "publish in" /\ job'.end = end
    BY <2>1
  <2>3. gen["in"] = Line
    BY <2>1 DEF WriterInv
  <2>4. /\ Extent("in") = write["in"] /\ Extent("in")' = end /\ Extent("out")' = Extent("out")
        /\ Reach' = Reach
    BY <2>1, <2>2 DEF Extent, Reach
  <2>5. slot'["out"] = slot["out"]
    <3>1. "out" # "in" /\ write["in"] <= end
      BY <1>1, <2>0
    <3>2. Stored("in", end)["out"] = slot["out"]
      BY <1>9, <2>0, <3>1, StoredFrames
    <3> QED
      BY <2>1, <3>2
  <2>6. Effect("in")
    BY <2>0, <2>1, <2>3, <2>4 DEF Effect, Filled
  <2>7. Effect("out")
    BY <2>1, <2>4, <2>5 DEF Effect, Kept
  <2>8. Reach <= Reach' /\ write["out"] <= write'["out"] /\ job'.at \notin Rewound
    <3>1. Reach \in Nat
      BY <1>1 DEF Reach
    <3>2. Reach' = Reach /\ write'["out"] = write["out"]
      BY <2>1, <2>2, <2>4
    <3>3. job'.at \notin Rewound
      BY <2>1, <2>2 DEF Rewound
    <3> QED
      BY <1>1, <3>1, <3>2, <3>3
  <2>10. Grown
    BY <1>1, <2>1, <2>8, GrownIf
  <2> QED
    BY <2>6, <2>7, <2>10
<1>4. ASSUME StorePayload  PROVE Effect("in") /\ Effect("out") /\ Grown
  <2>1. /\ job.at = "store out" /\ job' = [at |-> "publish out", end |-> job.end]
        /\ slot' = Stored("out", job.end)
        /\ write' = write /\ gen' = gen /\ epoch' = epoch /\ published' = published
    BY <1>4 DEF StorePayload, Make, pairVars
  <2>2. job'.at = "publish out" /\ job'.end = job.end
    BY <2>1
  <2>3. /\ gen["out"] = Line
        /\ write["out"] < job.end /\ job.end <= write["out"] + AtMost(prepared[Line].block, Capacity)
    BY <2>1 DEF WriterInv, Pushing
  <2>4. job.end <= write["out"] + Capacity
    <3>1. AtMost(prepared[Line].block, Capacity) <= Capacity /\ AtMost(prepared[Line].block, Capacity) \in Nat
      BY <1>8 DEF AtMost
    <3> QED
      BY <1>1, <2>3, <3>1
  <2>5. /\ Extent("out") = write["out"] /\ Extent("out")' = job.end /\ Extent("in")' = Extent("in")
        /\ Reach' = Reach
    BY <2>1, <2>2 DEF Extent, Reach
  <2>6. slot'["in"] = slot["in"]
    <3>1. "out" # "in" /\ write["out"] <= job.end
      BY <1>1, <2>3
    <3>2. Stored("out", job.end)["in"] = slot["in"]
      BY <1>1, <1>9, <2>4, <3>1, StoredFrames
    <3> QED
      BY <2>1, <3>2
  <2>7. Effect("out")
    BY <1>1, <2>1, <2>3, <2>4, <2>5 DEF Effect, Filled
  <2>8. Effect("in")
    BY <2>1, <2>5, <2>6 DEF Effect, Kept
  <2>9. Reach <= Reach' /\ write["out"] <= write'["out"] /\ job'.at \notin Rewound
    <3>1. Reach \in Nat
      BY <1>1 DEF Reach
    <3>2. Reach' = Reach /\ write'["out"] = write["out"]
      BY <2>1, <2>2, <2>5
    <3>3. job'.at \notin Rewound
      BY <2>1, <2>2 DEF Rewound
    <3> QED
      BY <1>1, <3>1, <3>2, <3>3
  <2>10. Grown
    BY <1>1, <2>1, <2>9, GrownIf
  <2> QED
    BY <2>7, <2>8, <2>10
<1>5. ASSUME StoreIndex  PROVE Effect("in") /\ Effect("out") /\ Grown
  <2>1. gen' = gen /\ slot' = slot /\ epoch' = epoch /\ published' = published
    BY <1>5 DEF StoreIndex, pairVars
  <2>2. CASE Make("publish in", "store out") /\ write' = [write EXCEPT !["in"] = job.end]
    <3>1. job.at = "publish in" /\ job'.at = "store out"
      BY <2>2 DEF Make
    <3>2. write'["in"] = job.end /\ write'["out"] = write["out"]
      BY <1>1, <1>9, <2>2
    <3>3. write["in"] <= job.end
      <4>1. write["out"] < job.end /\ write["in"] = write["out"]
        BY <3>1 DEF WriterInv, Pushing
      <4> QED
        BY <1>1, <4>1
    <3>4. /\ Extent("in")' = Extent("in") /\ Extent("out")' = Extent("out")
          /\ Reach = write["in"] /\ Reach' = job.end
      BY <3>1, <3>2 DEF Extent, Reach
    <3>5. Reach <= Reach' /\ write["out"] <= write'["out"] /\ job'.at \notin Rewound
      <4>1. job'.at \notin Rewound
        BY <3>1 DEF Rewound
      <4>2. write["out"] <= write'["out"]
        BY <1>1, <3>2, <3>3
      <4>3. Reach <= Reach'
        BY <1>1, <3>4, <3>3
      <4> QED
        BY <4>1, <4>2, <4>3
    <3>6. Grown
      BY <1>1, <2>1, <3>5, GrownIf
    <3> QED
      BY <2>1, <3>4, <3>6 DEF Effect, Kept
  <2>3. CASE Make("publish out", "idle") /\ write' = [write EXCEPT !["out"] = job.end]
    <3>1. job.at = "publish out" /\ job'.at = "idle"
      BY <2>3 DEF Make, Idle
    <3>2. write'["out"] = job.end /\ write'["in"] = write["in"]
      BY <1>1, <1>9, <2>3
    <3>3. write["out"] <= job.end
      <4>1. write["out"] < job.end
        BY <3>1 DEF WriterInv, Pushing
      <4> QED
        BY <1>1, <4>1
    <3>4. /\ Extent("in")' = Extent("in") /\ Extent("out")' = Extent("out")
          /\ Reach = write["in"] /\ Reach' = write["in"]
      BY <3>1, <3>2 DEF Extent, Reach
    <3>5. Reach <= Reach' /\ write["out"] <= write'["out"] /\ job'.at \notin Rewound
      <4>1. job'.at \notin Rewound
        BY <3>1 DEF Rewound
      <4>2. write["out"] <= write'["out"]
        BY <1>1, <3>2, <3>3
      <4>3. Reach <= Reach'
        BY <1>1, <3>4, <3>3
      <4> QED
        BY <4>1, <4>2, <4>3
    <3>6. Grown
      BY <1>1, <2>1, <3>5, GrownIf
    <3> QED
      BY <2>1, <3>4, <3>6 DEF Effect, Kept
  <2>4. CASE Make("rewind in", "bump in") /\ write' = [write EXCEPT !["in"] = 0]
    <3>1. job.at = "rewind in" /\ job'.at = "bump in"
      BY <2>4 DEF Make
    <3>2. write'["in"] = 0 /\ write'["out"] = write["out"]
      BY <1>1, <1>9, <2>4
    <3>3. write["in"] = write["out"]
      BY <3>1 DEF WriterInv
    <3>4. /\ Extent("in")' = Extent("in") /\ Extent("out")' = Extent("out")
          /\ Reach = write["out"] /\ Reach' = write["out"]
      BY <3>1, <3>2, <3>3 DEF Extent, Reach
    <3>5. Reach <= Reach' /\ write["out"] <= write'["out"] /\ job'.at \notin Rewound
      <4>1. job'.at \notin Rewound
        BY <3>1 DEF Rewound
      <4>2. write["out"] <= write'["out"]
        BY <1>1, <3>2
      <4>3. Reach <= Reach'
        BY <1>1, <3>4
      <4> QED
        BY <4>1, <4>2, <4>3
    <3>6. Grown
      BY <1>1, <2>1, <3>5, GrownIf
    <3> QED
      BY <2>1, <3>4, <3>6 DEF Effect, Kept
  <2>5. CASE Make("rewind out", "bump out") /\ write' = [write EXCEPT !["out"] = 0]
    <3>1. job.at = "rewind out" /\ job'.at = "bump out"
      BY <2>5 DEF Make
    <3>2. write'["out"] = 0 /\ write'["in"] = write["in"]
      BY <1>1, <1>9, <2>5
    <3>3. Extent("in")' = Extent("in") /\ Extent("out")' = 0
      BY <3>1, <3>2 DEF Extent
    <3>4. ~Fresh
      BY <3>1 DEF Fresh, Rewound
    <3> QED
      BY <1>1, <2>1, <3>3, <3>4 DEF Effect, Kept, Emptied, Grown
  <2> QED
    BY <1>5, <2>2, <2>3, <2>4, <2>5 DEF StoreIndex
<1>6. ASSUME StoreGeneration  PROVE Effect("in") /\ Effect("out") /\ Grown
  <2>1. write' = write /\ slot' = slot /\ epoch' = epoch /\ published' = published
    BY <1>6 DEF StoreGeneration, pairVars
  <2>2. CASE Make("bump in", "rewind out") /\ gen' = [gen EXCEPT !["in"] = @ + 1]
    <3>1. job.at = "bump in" /\ job'.at = "rewind out"
      BY <2>2 DEF Make
    <3>2. gen'["in"] = gen["in"] + 1 /\ gen'["out"] = gen["out"]
      <4>1. gen' = [gen EXCEPT !["in"] = gen["in"] + 1]
        BY <2>2
      <4> QED
        BY <1>9, <4>1
    <3>3. write["in"] = 0
      BY <3>1 DEF WriterInv
    <3>4. Extent("in")' = 0 /\ Extent("out")' = Extent("out")
      BY <2>1, <3>1, <3>3 DEF Extent
    <3>5. gen["in"] <= gen'["in"] /\ gen'["in"] # gen["in"] /\ gen["out"] <= gen'["out"]
      BY <1>1, <3>2
    <3> QED
      BY <1>1, <2>1, <3>2, <3>4, <3>5 DEF Effect, Kept, Emptied, Grown
  <2>3. CASE /\ Make("bump out", IF published = prepared[Line] THEN "idle" ELSE "odd")
             /\ gen' = [gen EXCEPT !["out"] = @ + 1]
    <3>1. job.at = "bump out"
      BY <2>3 DEF Make
    <3>2. gen'["out"] = gen["out"] + 1 /\ gen'["in"] = gen["in"]
      <4>1. gen' = [gen EXCEPT !["out"] = gen["out"] + 1]
        BY <2>3
      <4> QED
        BY <1>9, <4>1
    <3>3. job'.at \in {"idle", "odd"}
      <4>1. CASE published = prepared[Line]
        BY <2>3, <4>1 DEF Make, Idle
      <4>2. CASE published # prepared[Line]
        BY <2>3, <4>2 DEF Make
      <4> QED
        BY <4>1, <4>2
    <3>4. write["in"] = 0 /\ write["out"] = 0
      BY <3>1 DEF WriterInv, Rewound
    <3>5. Extent("in")' = Extent("in") /\ Extent("out")' = 0
      BY <2>1, <3>1, <3>3, <3>4 DEF Extent
    <3>6. ~Fresh
      BY <3>1 DEF Fresh, Rewound
    <3>7. gen["in"] <= gen'["in"] /\ gen["out"] <= gen'["out"]
      BY <1>1, <3>2
    <3> QED
      BY <1>1, <2>1, <3>2, <3>5, <3>6, <3>7 DEF Effect, Kept, Emptied, Grown
  <2> QED
    BY <1>6, <2>2, <2>3 DEF StoreGeneration
<1>7. ASSUME StorePair  PROVE Effect("in") /\ Effect("out") /\ Grown
  <2>1. write' = write /\ gen' = gen /\ slot' = slot
    BY <1>7 DEF StorePair, ringVars
  <2>2. /\ job.at \in {"odd", "rate", "block", "even"}
        /\ job'.at \in {"rate", "block", "even", "idle"}
    BY <1>7 DEF StorePair, Make, Idle
  <2>3. /\ epoch <= epoch'
        /\ (epoch' = epoch /\ epoch % 2 = 0) => published' = published
    <3>1. CASE job.at \in {"odd", "even"}
      <4>1. epoch' = epoch + 1
        BY <1>7, <3>1 DEF StorePair, Make
      <4> QED
        BY <1>1, <4>1
    <3>2. CASE job.at \in {"rate", "block"}
      <4>1. epoch' = epoch
        BY <1>7, <3>2 DEF StorePair, Make
      <4>2. epoch % 2 = 1
        BY <3>2 DEF WriterInv
      <4> QED
        BY <1>1, <4>1, <4>2
    <3> QED
      BY <2>2, <3>1, <3>2
  <2>4. Extent("in")' = Extent("in") /\ Extent("out")' = Extent("out")
    BY <2>1, <2>2 DEF Extent
  <2>5. ~Fresh
    BY <2>2 DEF Fresh, Rewound
  <2> QED
    BY <1>1, <2>1, <2>3, <2>4, <2>5 DEF Effect, Kept, Grown
<1> QED
  BY WriteCases, <1>2, <1>3, <1>4, <1>5, <1>6, <1>7

LEMMA HoldsStored ==
    ASSUME WriteType, NEW q \in Rings, NEW end \in Nat, write[q] < end, end <= write[q] + Capacity,
           Holds(slot[q], Line, write[q])
    PROVE  Holds(Stored(q, end)[q], Line, end)
<1> USE Constants
<1> DEFINE s == Stored(q, end)[q]
<1>1. write[q] \in Nat /\ Line \in Nat
  BY WriteFacts
<1>2. write[q] <= end
  BY <1>1
<1>3. /\ \A n \in Nat : write[q] <= n /\ n < end => s[n % Capacity] = [line |-> Line, n |-> n]
      /\ \A n \in Nat : n < write[q] /\ n >= end - Capacity =>
            s[n % Capacity] = slot[q][n % Capacity]
      /\ \A i \in 0..(Capacity - 1) :
            \/ s[i].line = Line
            \/ s[i] = slot[q][i] /\ \A n \in write[q]..(end - 1) : n % Capacity # i
  BY <1>2, StoredFrames
<1> HIDE DEF s
<1>4. ASSUME NEW n \in (end - Capacity)..(end - 1), n >= 0
      PROVE  s[n % Capacity] = [line |-> Line, n |-> n]
  <2>1. n \in Nat /\ n < end /\ n >= end - Capacity
    BY <1>4
  <2>2. CASE write[q] <= n
    BY <1>3, <2>1, <2>2
  <2>3. CASE n < write[q]
    <3>1. s[n % Capacity] = slot[q][n % Capacity]
      BY <1>3, <2>1, <2>3
    <3>2. n \in (write[q] - Capacity)..(write[q] - 1)
      BY <1>1, <2>1, <2>3
    <3> QED
      BY <1>4, <3>1, <3>2 DEF Holds
  <2> QED
    BY <1>1, <2>1, <2>2, <2>3
<1>5. ASSUME NEW i \in 0..(Capacity - 1), i < end  PROVE s[i].line = Line
  <2>1. CASE i < write[q]
    <3>1. slot[q][i].line = Line
      BY <2>1 DEF Holds
    <3> QED
      BY <1>3, <3>1
  <2>2. CASE write[q] <= i
    <3>1. i \in write[q]..(end - 1) /\ i \in Nat /\ i < Capacity
      BY <1>1, <1>5, <2>2
    <3>2. i % Capacity = i
      BY <3>1
    <3> QED
      BY <1>3, <3>1, <3>2
  <2> QED
    BY <1>1, <2>1, <2>2
<1> QED
  BY <1>4, <1>5 DEF Holds, s

LEMMA SlotStep ==
    ASSUME WriteType, WriterInv, SlotInv, Write
    PROVE  SlotInv'
<1>1. ASSUME NEW r \in Rings  PROVE Holds(slot'[r], gen'[r], Extent(r)')
  <2>1. Effect(r)
    BY WriterEffect DEF Rings
  <2>2. CASE Kept(r)
    BY <2>2 DEF SlotInv, Kept
  <2>3. CASE Emptied(r)
    BY <2>3, HoldsNothing DEF Emptied
  <2>4. CASE Filled(r)
    <3>1. PICK end \in Nat : /\ write[r] < end /\ end <= write[r] + Capacity
                             /\ slot' = Stored(r, end) /\ Extent(r)' = end
      BY <2>4 DEF Filled
    <3>2. Holds(slot[r], Line, write[r]) /\ gen'[r] = Line
      BY <2>4 DEF SlotInv, Filled
    <3>3. Holds(Stored(r, end)[r], Line, end)
      BY <3>1, <3>2, HoldsStored
    <3> QED
      BY <3>1, <3>2, <3>3
  <2> QED
    BY <2>1, <2>2, <2>3, <2>4 DEF Effect
<1> QED
  BY <1>1 DEF SlotInv, Holds

LEMMA LineGrows ==
    ASSUME WriteType, Write
    PROVE  Line <= Line' /\ \A i \in 1..Line : prepared'[i] = prepared[i]
<1>1. Line \in Nat
  BY WriteFacts
<1>2. CASE prepared' = prepared
  BY <1>1, <1>2, WriteSame
<1>3. ASSUME NEW p \in Prepared, ScopePrepare(p)
      PROVE  Line <= Line' /\ \A i \in 1..Line : prepared'[i] = prepared[i]
  <2>1. prepared' = Append(prepared, p) /\ p \in Pair
    BY <1>3, Constants DEF ScopePrepare
  <2>2. Line' = Line + 1 /\ \A i \in 1..Line : prepared'[i] = prepared[i]
    BY <2>1, PreparedGrows
  <2> QED
    BY <1>1, <2>2
<1> QED
  BY <1>2, <1>3 DEF Write, Push, StorePayload, StoreIndex, StoreGeneration, StorePair

LEMMA ExtentGrows ==
    ASSUME WriteType, WriterInv, Write, Fresh, gen'["in"] = gen["in"], NEW r \in Rings
    PROVE  Extent(r) \in Nat /\ Extent(r)' \in Nat /\ Extent(r) <= Extent(r)'
<1>1. Extent(r) \in Nat
  BY WriteFacts DEF Extent
<1>2. Effect(r)
  BY WriterEffect DEF Rings
<1>3. CASE Kept(r)
  BY <1>1, <1>3 DEF Kept
<1>4. CASE Filled(r)
  BY <1>1, <1>4 DEF Filled
<1> QED
  BY <1>2, <1>3, <1>4 DEF Effect, Emptied

-----------------------------------------------------------------------------
(* What the tick has is not disturbed by what is stored meanwhile.          *)

LEMMA GotFacts ==
    ASSUME TickType
    PROVE  /\ load \in 0..24 /\ got.epoch \in Nat /\ got.rate \in Nat /\ got.block \in Nat
           /\ got.span \in Nat /\ got.epochNow \in Nat
           /\ got.gen \in [Rings -> Nat] /\ got.count \in [Rings -> Nat]
           /\ got.head \in [Rings -> Nat] /\ got.again \in [Rings -> Nat]
           /\ got.genNow \in [Rings -> Nat] /\ got.floor \in [Rings -> Nat]
           /\ shown.gen \in [Rings -> Nat] /\ shown.count \in [Rings -> Nat] /\ shown.committed \in Nat
BY DEF TickType, GotType

LEMMA GotNumbers ==
    ASSUME TickType, NEW r \in Rings
    PROVE  /\ got.gen[r] \in Nat /\ got.count[r] \in Nat /\ got.head[r] \in Nat
           /\ got.again[r] \in Nat /\ got.genNow[r] \in Nat /\ got.floor[r] \in Nat
           /\ shown.gen[r] \in Nat /\ shown.count[r] \in Nat
BY GotFacts

LEMMA Least ==
    ASSUME NEW a \in Int, NEW b \in Int
    PROVE  AtMost(a, b) \in Int /\ AtMost(a, b) <= a /\ AtMost(a, b) <= b
           /\ AtMost(a, b) \in {a, b}
BY DEF AtMost

LEMMA Most ==
    ASSUME NEW a \in Int, NEW b \in Int
    PROVE  AtLeast(a, b) \in Int /\ AtLeast(a, b) >= a /\ AtLeast(a, b) >= b
           /\ AtLeast(a, b) \in {a, b}
BY DEF AtLeast

LEMMA CommittedIs ==
    ASSUME TickType
    PROVE  /\ Committed \in Nat /\ Committed <= got.count["in"] /\ Committed <= got.count["out"]
           /\ Committed \in {got.count["in"], got.count["out"]}
<1>1. got.count["in"] \in Nat /\ got.count["out"] \in Nat
  BY GotNumbers DEF Rings
<1> DEFINE a == got.count["in"]
           b == got.count["out"]
<1>2. /\ AtMost(a, b) \in Int /\ AtMost(a, b) <= a /\ AtMost(a, b) <= b
      /\ AtMost(a, b) \in {a, b}
  BY <1>1 DEF AtMost
<1>3. Committed = AtMost(a, b)
  BY DEF Committed
<1> QED
  BY <1>1, <1>2, <1>3

LEMMA HeldIs ==
    ASSUME TickType, WriteType
    PROVE  Held <=> got.gen["in"] = gen["in"] /\ got.gen["out"] = gen["out"]
<1>1. got.gen \in [Rings -> Nat] /\ gen \in [Rings -> Nat]
  BY GotFacts, WriteFacts
<1>2. ASSUME got.gen["in"] = gen["in"], got.gen["out"] = gen["out"]  PROVE got.gen = gen
  <2>1. \A r \in Rings : got.gen[r] = gen[r]
    BY <1>2 DEF Rings
  <2> QED
    BY <1>1, <2>1
<1> QED
  BY <1>2 DEF Held

\* While a span is held, so is the timeline it is of.
LEMMA SpanIsFresh ==
    ASSUME WriteType, WriterInv, TickType, CountsLoaded, Held, Committed > 0, load \in 6..16
    PROVE  /\ Fresh /\ got.count["in"] <= Reach /\ got.count["out"] <= write["out"]
           /\ got.gen["in"] = gen["in"] /\ got.gen["out"] = gen["in"] /\ gen["in"] = gen["out"]
           /\ gen["in"] \in 1..Line /\ published = prepared[gen["in"]]
<1>1. got.count["in"] \in Nat /\ got.count["out"] \in Nat
  BY GotNumbers DEF Rings
<1>2. got.count["in"] > 0 /\ got.gen["in"] = gen["in"] /\ got.gen["out"] = gen["out"]
  BY <1>1, CommittedIs, HeldIs
<1>3. Fresh /\ got.count["in"] <= Reach /\ got.count["out"] <= write["out"]
  BY <1>2 DEF CountsLoaded
<1>4. job.at \in Pushing \union {"idle", "rewind in", "bump in"} /\ Line \in Nat
  BY <1>3, WriteFacts DEF Fresh, Places
<1>5. CASE job.at \in {"rewind in", "bump in"}
  <2>1. /\ gen["in"] = Line - 1 /\ gen["out"] = Line - 1 /\ gen["in"] >= 1
        /\ published = prepared[Line - 1]
    BY <1>5 DEF WriterInv
  <2>2. gen["in"] = gen["out"] /\ published = prepared[gen["in"]]
    BY <2>1
  <2>3. gen["in"] \in 1..Line
    <3>1. Line \in Nat
      BY <1>4
    <3> QED
      BY <2>1, <3>1
  <2> QED
    BY <1>2, <1>3, <2>2, <2>3
<1>6. CASE job.at \in Pushing \union {"idle"}
  <2>1. gen["in"] = Line /\ gen["out"] = Line /\ gen["in"] >= 1 /\ published = prepared[Line]
    BY <1>6 DEF WriterInv, Pushing
  <2>2. gen["in"] = gen["out"] /\ published = prepared[gen["in"]]
    BY <2>1
  <2>3. gen["in"] \in 1..Line
    <3>1. Line \in Nat
      BY <1>4
    <3> QED
      BY <2>1, <3>1
  <2> QED
    BY <1>2, <1>3, <2>2, <2>3
<1> QED
  BY <1>4, <1>5, <1>6

LEMMA WriteLeavesTick == Write => UNCHANGED tickVars
BY DEF Write, ScopePrepare, Push, StorePayload, StoreIndex, StoreGeneration, StorePair

\* What is held after a store was held before it.
LEMMA HeldBefore ==
    ASSUME WriteType, WriterInv, TickType, Bounds, Write
    PROVE  /\ got' = got /\ load' = load /\ copy' = copy /\ trace' = trace
           /\ shown' = shown /\ committed' = committed /\ described' = described
           /\ gen["in"] <= gen'["in"] /\ gen["out"] <= gen'["out"] /\ epoch <= epoch'
           /\ gen'["in"] \in Nat /\ gen'["out"] \in Nat /\ epoch' \in Nat
           /\ got.gen["in"] = gen'["in"] => got.gen["in"] = gen["in"] /\ gen'["in"] = gen["in"]
           /\ got.gen["out"] = gen'["out"] => got.gen["out"] = gen["out"]
           /\ Held' => Held /\ gen'["in"] = gen["in"]
           /\ HeldPair' => HeldPair /\ published' = published
           /\ HeldLast' => HeldLast
           /\ PairLast' => PairLast
<1>1. /\ got' = got /\ load' = load /\ copy' = copy /\ trace' = trace
      /\ shown' = shown /\ committed' = committed /\ described' = described
  BY WriteLeavesTick DEF tickVars, shownVars
<1>2. /\ gen["in"] \in Nat /\ gen["out"] \in Nat /\ epoch \in Nat
      /\ got.gen["in"] \in Nat /\ got.gen["out"] \in Nat /\ got.epoch \in Nat
  BY WriteFacts, GotNumbers, GotFacts DEF Rings
<1>3. WriteType' /\ WriterInv'
  BY WriterStep
<1>4. gen'["in"] \in Nat /\ gen'["out"] \in Nat /\ epoch' \in Nat
  BY <1>3 DEF WriteType, Rings
<1>5. /\ gen["in"] <= gen'["in"] /\ gen["out"] <= gen'["out"] /\ epoch <= epoch'
      /\ (epoch' = epoch /\ epoch % 2 = 0) => published' = published
  BY WriterEffect DEF Grown
<1>6. got.gen["in"] <= gen["in"] /\ got.gen["out"] <= gen["out"] /\ got.epoch <= epoch
  BY DEF Bounds, Rings
<1>7. got.gen["in"] = gen'["in"] => got.gen["in"] = gen["in"] /\ gen'["in"] = gen["in"]
  BY <1>2, <1>4, <1>5, <1>6
<1>8. got.gen["out"] = gen'["out"] => got.gen["out"] = gen["out"]
  BY <1>2, <1>4, <1>5, <1>6
<1>9. ASSUME Held'  PROVE Held /\ gen'["in"] = gen["in"]
  <2>1. got.gen["in"] = gen'["in"] /\ got.gen["out"] = gen'["out"]
    BY <1>1, <1>9 DEF Held
  <2> QED
    BY <1>7, <1>8, <2>1, HeldIs
<1>10. ASSUME HeldPair'  PROVE HeldPair /\ published' = published
  <2>1. got.epoch = epoch' /\ epoch' % 2 = 0
    BY <1>1, <1>10 DEF HeldPair
  <2>2. epoch' = epoch
    BY <1>2, <1>4, <1>5, <1>6, <2>1
  <2> QED
    BY <1>5, <2>1, <2>2 DEF HeldPair
<1>11. ASSUME HeldLast'  PROVE HeldLast
  <2>1. GenLast("in")' = GenLast("in") \/ (GenLast("in")' = gen'["in"] /\ GenLast("in") = gen["in"])
    BY <1>1 DEF GenLast
  <2>2. GenLast("out")' = GenLast("out") \/ (GenLast("out")' = gen'["out"] /\ GenLast("out") = gen["out"])
    BY <1>1 DEF GenLast
  <2>3. got.gen["in"] = GenLast("in")' /\ got.gen["out"] = GenLast("out")'
    BY <1>1, <1>11 DEF HeldLast, Rings
  <2>4. got.gen["in"] = GenLast("in") /\ got.gen["out"] = GenLast("out")
    BY <1>7, <1>8, <2>1, <2>2, <2>3
  <2> QED
    BY <2>4 DEF HeldLast, Rings
<1>12. ASSUME PairLast'  PROVE PairLast
  <2>1. CASE load > 19
    BY <1>1, <1>12, <2>1 DEF PairLast
  <2>2. CASE ~(load > 19)
    <3>1. got.epoch % 2 = 0 /\ got.epoch = epoch'
      BY <1>1, <1>12, <2>2 DEF PairLast
    <3>2. epoch' = epoch
      BY <1>2, <1>4, <1>5, <1>6, <3>1
    <3> QED
      BY <2>2, <3>1, <3>2 DEF PairLast
  <2> QED
    BY <2>1, <2>2
<1> QED
  BY <1>1, <1>4, <1>5, <1>7, <1>8, <1>9, <1>10, <1>11, <1>12

LEMMA BoundsWrite ==
    ASSUME WriteType, WriterInv, TickType, Bounds, Write
    PROVE  TickType' /\ Bounds'
<1>1. /\ got' = got /\ load' = load /\ copy' = copy /\ trace' = trace
      /\ shown' = shown /\ described' = described
      /\ gen["in"] <= gen'["in"] /\ gen["out"] <= gen'["out"] /\ epoch <= epoch'
      /\ gen'["in"] \in Nat /\ gen'["out"] \in Nat /\ epoch' \in Nat
  BY HeldBefore
<1>2. TickType'
  BY <1>1 DEF TickType
<1>3. gen["in"] \in Nat /\ gen["out"] \in Nat /\ epoch \in Nat /\ got.epoch \in Nat
  BY WriteFacts, GotFacts
<1>4. ASSUME NEW r \in Rings
      PROVE  /\ got.gen[r] <= gen'[r] /\ got.genNow[r] <= gen'[r] /\ shown.gen[r] <= gen'[r]
             /\ load > 2 + Nth(r) => shown.gen[r] <= got.gen[r]
  <2>1. got.gen[r] \in Nat /\ got.genNow[r] \in Nat /\ shown.gen[r] \in Nat
    BY GotNumbers
  <2>2. gen[r] \in Nat /\ gen'[r] \in Nat /\ gen[r] <= gen'[r]
    BY <1>1, <1>3 DEF Rings
  <2>3. /\ got.gen[r] <= gen[r] /\ got.genNow[r] <= gen[r] /\ shown.gen[r] <= gen[r]
        /\ load > 2 + Nth(r) => shown.gen[r] <= got.gen[r]
    BY DEF Bounds
  <2> QED
    BY <2>1, <2>2, <2>3
<1>5. got.epoch <= epoch'
  BY <1>1, <1>3 DEF Bounds
<1>6. Bounds'
  BY <1>1, <1>4, <1>5 DEF Bounds
<1> QED
  BY <1>2, <1>6

LEMMA PairWrite ==
    ASSUME WriteType, WriterInv, TickType, Bounds, PairLoaded, Write
    PROVE  PairLoaded'
<1> SUFFICES ASSUME HeldPair'
             PROVE  /\ load' \in 2..16 => got'.rate = published'.rate
                    /\ load' \in 7..16 => got'.block = published'.block
  BY DEF PairLoaded
<1>1. got' = got /\ load' = load /\ HeldPair /\ published' = published
  BY HeldBefore
<1> QED
  BY <1>1 DEF PairLoaded

LEMMA CountsWrite ==
    ASSUME WriteType, WriterInv, TickType, Bounds, CountsLoaded, Write
    PROVE  CountsLoaded'
<1>1. /\ got' = got /\ load' = load
      /\ got.gen["in"] = gen'["in"] => got.gen["in"] = gen["in"] /\ gen'["in"] = gen["in"]
      /\ Held' => Held /\ gen'["in"] = gen["in"]
  BY HeldBefore
<1>2. (Fresh /\ gen'["in"] = gen["in"]) => Fresh' /\ Reach <= Reach' /\ write["out"] <= write'["out"]
  BY WriterEffect DEF Grown
<1>3. /\ write["in"] \in Nat /\ write["out"] \in Nat
      /\ got.count["in"] \in Nat /\ got.count["out"] \in Nat
  BY WriteFacts, GotNumbers DEF Rings
<1>4. write'["in"] \in Nat /\ write'["out"] \in Nat
  BY WriterStep DEF WriteType, Rings
<1>5. Reach \in Nat /\ Reach' \in Nat
  BY <1>3, <1>4 DEF Reach
<1>6. ASSUME load \in 5..16, got.gen["in"] = gen'["in"], got.count["in"] > 0
      PROVE  Fresh' /\ got.count["in"] <= Reach'
  <2>1. got.gen["in"] = gen["in"] /\ gen'["in"] = gen["in"]
    BY <1>1, <1>6
  <2>2. Fresh /\ got.count["in"] <= Reach
    BY <1>6, <2>1 DEF CountsLoaded
  <2> QED
    BY <1>2, <1>3, <1>5, <2>1, <2>2
<1>7. ASSUME load \in 6..16, Held', Committed > 0
      PROVE  got.count["out"] <= write'["out"]
  <2>1. Held /\ gen'["in"] = gen["in"]
    BY <1>1, <1>7
  <2>2. Fresh /\ got.count["out"] <= write["out"]
    BY <1>7, <2>1, SpanIsFresh
  <2> QED
    BY <1>2, <1>3, <1>4, <2>1, <2>2
<1>8. Committed' = Committed
  BY <1>1 DEF Committed
<1> QED
  BY <1>1, <1>6, <1>7, <1>8 DEF CountsLoaded

LEMMA HeadsWrite ==
    ASSUME WriteType, WriterInv, TickType, Bounds, CountsLoaded, HeadsLoaded, Write
    PROVE  HeadsLoaded'
<1>1. got' = got /\ load' = load /\ (Held' => Held /\ gen'["in"] = gen["in"])
  BY HeldBefore
<1>2. (Fresh /\ gen'["in"] = gen["in"]) => Fresh' /\ Reach <= Reach' /\ write["out"] <= write'["out"]
  BY WriterEffect DEF Grown
<1>3. /\ write["in"] \in Nat /\ write["out"] \in Nat
      /\ got.head["in"] \in Nat /\ got.head["out"] \in Nat
  BY WriteFacts, GotNumbers DEF Rings
<1>4. write'["in"] \in Nat /\ write'["out"] \in Nat
  BY WriterStep DEF WriteType, Rings
<1>5. Reach \in Nat /\ Reach' \in Nat
  BY <1>3, <1>4 DEF Reach
<1>6. Committed' = Committed
  BY <1>1 DEF Committed
<1>7. ASSUME Held', Committed > 0, load = 11
      PROVE  /\ got.head["in"] <= Reach'
             /\ got.head["in"] = 0 \/ got.count["in"] <= got.head["in"]
  <2>1. Held /\ gen'["in"] = gen["in"]
    BY <1>1, <1>7
  <2>2. Fresh
    BY <1>7, <2>1, SpanIsFresh
  <2>3. /\ got.head["in"] <= Reach
        /\ got.head["in"] = 0 \/ got.count["in"] <= got.head["in"]
    BY <1>7, <2>1 DEF HeadsLoaded
  <2> QED
    BY <1>2, <1>3, <1>5, <2>1, <2>2, <2>3
<1>8. ASSUME Held', Committed > 0, load = 13
      PROVE  got.head["out"] <= write'["out"] /\ got.count["out"] <= got.head["out"]
  <2>1. Held /\ gen'["in"] = gen["in"]
    BY <1>1, <1>8
  <2>2. Fresh
    BY <1>8, <2>1, SpanIsFresh
  <2>3. got.head["out"] <= write["out"] /\ got.count["out"] <= got.head["out"]
    BY <1>8, <2>1 DEF HeadsLoaded
  <2> QED
    BY <1>2, <1>3, <1>4, <2>1, <2>2, <2>3
<1> QED
  BY <1>1, <1>6, <1>7, <1>8 DEF HeadsLoaded

\* A bound that grows excuses more.
LEMMA MeantGrows ==
    ASSUME TickType, NEW r \in Rings, NEW a \in Int, NEW b \in Int, a <= b, Meant(r, a)
    PROVE  Meant(r, b)
<1>1. First \in Int /\ Capacity \in Int /\ got.span \in Nat
  BY CommittedIs, GotFacts, Constants DEF First
<1>2. ASSUME NEW i \in 1..got.span, First + i - 1 + Capacity < a  PROVE First + i - 1 + Capacity < b
  BY <1>1, <1>2
<1> QED
  BY <1>2 DEF Meant

LEMMA ReservedIs ==
    ASSUME TickType
    PROVE  Reserved \in Nat /\ Reserved <= Capacity
<1>1. got.block \in Nat /\ Capacity \in Nat
  BY GotFacts, Constants
<1> QED
  BY <1>1 DEF Reserved, AtMost

LEMMA CopiesWrite ==
    ASSUME WriteType, WriterInv, TickType, Bounds, CountsLoaded, SpanInv, CopiesMeant, Write
    PROVE  CopiesMeant'
<1>1. /\ got' = got /\ load' = load /\ copy' = copy
      /\ (Held' => Held /\ gen'["in"] = gen["in"]) /\ (HeldPair' => HeldPair)
  BY HeldBefore
<1>2. (Fresh /\ gen'["in"] = gen["in"]) => write["out"] <= write'["out"]
  BY WriterEffect DEF Grown
<1>3. Committed' = Committed /\ First' = First /\ Reserved' = Reserved
  BY <1>1 DEF Committed, First, Reserved
<1>5. /\ write["out"] \in Nat /\ write'["out"] \in Nat
      /\ got.again["in"] \in Nat /\ got.again["out"] \in Nat /\ Reserved \in Nat
      /\ got.span \in Nat /\ Committed \in Nat
  BY WriteFacts, WriterStep, GotNumbers, GotFacts, ReservedIs, CommittedIs DEF WriteType, Rings
<1>6. ASSUME Held', HeldPair', got.span > 0, load \in 12..16
      PROVE  /\ Held /\ HeldPair /\ Committed > 0
             /\ write["out"] <= write'["out"]
             /\ Extent("in") \in Nat /\ Extent("in")' \in Nat /\ Extent("in") <= Extent("in")'
             /\ Extent("out") \in Nat /\ Extent("out")' \in Nat /\ Extent("out") <= Extent("out")'
  <2>1. Held /\ HeldPair /\ gen'["in"] = gen["in"]
    BY <1>1, <1>6
  <2>2. Committed > 0
    BY <1>5, <1>6 DEF SpanInv
  <2>3. Fresh
    BY <1>6, <2>1, <2>2, SpanIsFresh
  <2>4. /\ Extent("in") \in Nat /\ Extent("in")' \in Nat /\ Extent("in") <= Extent("in")'
        /\ Extent("out") \in Nat /\ Extent("out")' \in Nat /\ Extent("out") <= Extent("out")'
    BY <2>1, <2>3, ExtentGrows DEF Rings
  <2> QED
    BY <1>2, <2>1, <2>2, <2>3, <2>4
<1> SUFFICES ASSUME Held', HeldPair', got.span > 0, load \in 12..16
             PROVE  /\ load \in 12..14 => Meant("in", Extent("in")')
                    /\ load = 15 => Meant("in", AtLeast(got.again["in"] + Reserved, write'["out"]))
                    /\ load \in 14..15 => Meant("out", Extent("out")')
                    /\ load = 16 => /\ Meant("in", AtLeast(got.again["in"], got.again["out"]) + Reserved)
                                    /\ Meant("out", got.again["out"] + Reserved)
  BY <1>1, <1>3 DEF CopiesMeant, Meant
<1>7. /\ load \in 12..14 => Meant("in", Extent("in"))
      /\ load = 15 => Meant("in", AtLeast(got.again["in"] + Reserved, write["out"]))
      /\ load \in 14..15 => Meant("out", Extent("out"))
      /\ load = 16 => /\ Meant("in", AtLeast(got.again["in"], got.again["out"]) + Reserved)
                      /\ Meant("out", got.again["out"] + Reserved)
  BY <1>6 DEF CopiesMeant
<1>8. load \in 12..14 => Meant("in", Extent("in")')
  BY <1>6, <1>7, MeantGrows DEF Rings
<1>9. load \in 14..15 => Meant("out", Extent("out")')
  BY <1>6, <1>7, MeantGrows DEF Rings
<1>10. load = 15 => Meant("in", AtLeast(got.again["in"] + Reserved, write'["out"]))
  <2> DEFINE a == AtLeast(got.again["in"] + Reserved, write["out"])
             b == AtLeast(got.again["in"] + Reserved, write'["out"])
  <2>1. a \in Int /\ b \in Int /\ a <= b
    BY <1>5, <1>6 DEF AtLeast
  <2> HIDE DEF a, b
  <2>2. load = 15 => Meant("in", a)
    BY <1>7 DEF a
  <2>3. load = 15 => Meant("in", b)
    BY <2>1, <2>2, MeantGrows DEF Rings
  <2> QED
    BY <2>3 DEF b
<1> QED
  BY <1>7, <1>8, <1>9, <1>10

LEMMA LinesWrite ==
    ASSUME WriteType, WriterInv, TickType, Bounds, CopiedLines, Write
    PROVE  CopiedLines'
<1>1. got' = got /\ load' = load /\ copy' = copy /\ (Held' => Held)
  BY HeldBefore
<1> QED
  BY <1>1 DEF CopiedLines

LEMMA ProvedWrite ==
    ASSUME WriteType, WriterInv, TickType, Bounds, Proved, Write
    PROVE  Proved'
<1> SUFFICES ASSUME load' \in 17..20, HeldLast', got'.span > 0
             PROVE  /\ got'.gen["in"] = got'.gen["out"] /\ got'.gen["in"] \in 1..Line'
                    /\ PairLast' => /\ got'.rate = prepared'[got'.gen["in"]].rate
                                    /\ \A r \in Rings : copy'[r] =
                                          [i \in 1..got'.span |-> [line |-> got'.gen["in"], n |-> First' + i - 1]]
  BY DEF Proved
<1>1. got' = got /\ load' = load /\ copy' = copy /\ HeldLast /\ (PairLast' => PairLast)
  BY HeldBefore
<1>2. First' = First
  BY <1>1 DEF First, Committed
<1>3. /\ got.gen["in"] = got.gen["out"] /\ got.gen["in"] \in 1..Line
      /\ PairLast => /\ got.rate = prepared[got.gen["in"]].rate
                     /\ \A r \in Rings : copy[r] =
                                          [i \in 1..got.span |-> [line |-> got.gen["in"], n |-> First + i - 1]]
  BY <1>1 DEF Proved
<1>4. prepared'[got.gen["in"]] = prepared[got.gen["in"]] /\ got.gen["in"] \in 1..Line'
  <2>1. Line <= Line' /\ \A i \in 1..Line : prepared'[i] = prepared[i]
    BY LineGrows
  <2>2. Line \in Nat /\ Line' \in Nat
    BY WriteFacts, WriterStep DEF WriteType, Line
  <2> QED
    BY <1>3, <2>1, <2>2
<1> QED
  BY <1>1, <1>2, <1>3, <1>4

LEMMA TraceWrite ==
    ASSUME WriteType, WriterInv, TickType, Bounds, TraceInv, DescribedInv, Write
    PROVE  TraceInv' /\ DescribedInv'
<1>1. /\ got' = got /\ load' = load /\ trace' = trace /\ shown' = shown /\ described' = described
      /\ gen["in"] <= gen'["in"] /\ gen["out"] <= gen'["out"]
      /\ gen'["in"] \in Nat /\ gen'["out"] \in Nat /\ (HeldLast' => HeldLast)
  BY HeldBefore
<1>2. ASSUME NEW q \in Rings, GenSoFar(q) # shown.gen[q]  PROVE GenSoFar(q)' # shown.gen[q]
  <2>1. CASE load > 2 + Nth(q)
    BY <1>1, <1>2, <2>1 DEF GenSoFar
  <2>2. CASE ~(load > 2 + Nth(q))
    <3>1. GenSoFar(q) = gen[q] /\ GenSoFar(q)' = gen'[q]
      BY <1>1, <2>2 DEF GenSoFar
    <3>2. gen[q] \in Nat /\ gen'[q] \in Nat /\ gen[q] <= gen'[q] /\ shown.gen[q] \in Nat
      BY <1>1, WriteFacts, GotNumbers DEF Rings
    <3>3. shown.gen[q] <= gen[q]
      BY DEF Bounds
    <3> QED
      BY <1>2, <3>1, <3>2, <3>3
  <2> QED
    BY <2>1, <2>2
<1>3. \A x : OfShown(x)' <=> OfShown(x)
  BY <1>1 DEF OfShown
<1>4. DescribedInv'
  BY <1>1 DEF DescribedInv, OfShown
<1>5. ASSUME NEW r \in Rings
      PROVE  /\ load \in 0..9 => \/ \A x \in trace[r] : OfShown(x)
                                 \/ \E q \in Rings : GenSoFar(q)' # shown.gen[q]
             /\ load \in 10..16 => \A x \in trace[r] : OfLoaded(x)
             /\ load \in 17..20 /\ HeldLast' => trace[r] = IF got.span = 0 THEN {} ELSE {got.gen["in"]}
             /\ load \in 21..24 => trace[r] = {}
  BY <1>1, <1>2 DEF TraceInv
<1>6. TraceInv'
  BY <1>1, <1>5 DEF TraceInv, OfShown, OfLoaded
<1> QED
  BY <1>4, <1>6

LEMMA FrameWrite ==
    ASSUME WriteType, WriterInv, TickType, Bounds, FrameIsOneSpan, Write
    PROVE  FrameIsOneSpan'
<1>1. committed' = committed /\ described' = described
  BY HeldBefore
<1>2. Line <= Line' /\ \A i \in 1..Line : prepared'[i] = prepared[i]
  BY LineGrows
<1>3. Line \in Nat /\ Line' \in Nat
  BY WriteFacts, WriterStep DEF WriteType, Line
<1>4. ASSUME committed.in \union committed.out # {}
      PROVE  \E line \in 1..Line' :
             /\ committed.in = {line} /\ committed.out = {line}
             /\ \A r \in Rings : committed.windows[r] =
                   [i \in 1..committed.span |-> [line |-> line, n |-> committed.first + i - 1]]
             /\ committed.rate = prepared'[line].rate
  <2>1. PICK line \in 1..Line :
             /\ committed.in = {line} /\ committed.out = {line}
             /\ \A r \in Rings : committed.windows[r] =
                   [i \in 1..committed.span |-> [line |-> line, n |-> committed.first + i - 1]]
             /\ committed.rate = prepared[line].rate
    BY <1>4 DEF FrameIsOneSpan
  <2>2. line \in 1..Line' /\ prepared'[line] = prepared[line]
    BY <1>2, <1>3
  <2> QED
    BY <2>1, <2>2
<1> QED
  BY <1>1, <1>4 DEF FrameIsOneSpan

-----------------------------------------------------------------------------
(* A load of the tick changes what it loads.                                *)

Load == LoadPair \/ \E r \in Rings : LoadGeneration(r) \/ LoadIndex(r)

LEMMA LoadLeaves ==
    ASSUME Load
    PROVE  /\ load' = load + 1
           /\ load \in {1, 2, 3, 4, 5, 6, 7, 8, 10, 12, 14, 15, 17, 18, 19, 21, 22, 23}
           /\ write' = write /\ gen' = gen /\ slot' = slot /\ epoch' = epoch
           /\ published' = published /\ prepared' = prepared /\ job' = job
           /\ copy' = copy /\ trace' = trace
           /\ shown' = shown /\ committed' = committed /\ described' = described
<1>2. UNCHANGED <<writeVars, copy, trace, shownVars>>
  BY DEF Load, LoadPair, LoadGeneration, LoadIndex
<1>3. ASSUME LoadPair  PROVE load' = load + 1 /\ load \in {1, 6, 19, 21}
  BY <1>3 DEF LoadPair, At
<1>4. ASSUME NEW r \in Rings, LoadGeneration(r)
      PROVE  load' = load + 1 /\ load \in {2, 3, 17, 18, 22, 23}
  BY <1>4 DEF LoadGeneration, At, Nth, Rings
<1>5. ASSUME NEW r \in Rings, LoadIndex(r)
      PROVE  load' = load + 1 /\ load \in {4, 5, 7, 8, 10, 12, 14, 15}
  BY <1>5 DEF LoadIndex, At, Nth, Rings
<1>6. /\ load' = load + 1
      /\ load \in {1, 2, 3, 4, 5, 6, 7, 8, 10, 12, 14, 15, 17, 18, 19, 21, 22, 23}
  BY <1>3, <1>4, <1>5 DEF Load
<1> QED
  BY <1>2, <1>6 DEF writeVars, ringVars, pairVars, shownVars

\* Each field that a load does not name is kept.
LoadedPair ==
    /\ IF load = 1 THEN got'.rate = published.rate ELSE got'.rate = got.rate
    /\ IF load = 6 THEN got'.block = published.block ELSE got'.block = got.block
    /\ IF load \in {19, 21} THEN got'.epochNow = epoch ELSE got'.epochNow = got.epochNow
    /\ got'.epoch = got.epoch /\ got'.span = got.span

Taken(k, r, new, old, from) ==
    IF load = k + Nth(r) THEN new[r] = from[r] ELSE new[r] = old[r]

LoadedRings ==
    \A r \in Rings :
       /\ Taken(2, r, got'.gen, got.gen, gen)
       /\ Taken(4, r, got'.count, got.count, write)
       /\ Taken(10 + Nth(r), r, got'.head, got.head, write)
       /\ Taken(14, r, got'.again, got.again, write)
       /\ IF load \in {17 + Nth(r), 22 + Nth(r)} THEN got'.genNow[r] = gen[r]
                                                  ELSE got'.genNow[r] = got.genNow[r]

LoadedKept ==
    /\ load \notin {2, 3} => got'.gen = got.gen
    /\ load \notin {4, 5} => got'.count = got.count

LEMMA LoadPairGot ==
    ASSUME WriteType, TickType, LoadPair
    PROVE  got' \in GotType /\ LoadedPair /\ LoadedRings /\ LoadedKept
<1>1. got \in GotType /\ published.rate \in Nat /\ published.block \in Nat /\ epoch \in Nat
  <2>1. published.rate \in Nat /\ published.block \in Nat /\ epoch \in Nat
    BY WriteFacts DEF Pair
  <2> QED
    BY <2>1 DEF TickType, GotType
<1>2. CASE load = 1 /\ got' = [got EXCEPT !.rate = published.rate]
  <2>1. got' \in GotType
    BY <1>1, <1>2 DEF GotType
  <2>2. /\ got'.rate = published.rate /\ got'.block = got.block /\ got'.epochNow = got.epochNow
        /\ got'.epoch = got.epoch /\ got'.span = got.span /\ got'.gen = got.gen
        /\ got'.count = got.count /\ got'.head = got.head /\ got'.again = got.again
        /\ got'.genNow = got.genNow
    BY <1>1, <1>2 DEF GotType
  <2> QED
    BY <1>2, <2>1, <2>2 DEF LoadedPair, LoadedRings, LoadedKept, Taken, Nth
<1>3. CASE load = 6 /\ got' = [got EXCEPT !.block = published.block]
  <2>1. got' \in GotType
    BY <1>1, <1>3 DEF GotType
  <2>2. /\ got'.rate = got.rate /\ got'.block = published.block /\ got'.epochNow = got.epochNow
        /\ got'.epoch = got.epoch /\ got'.span = got.span /\ got'.gen = got.gen
        /\ got'.count = got.count /\ got'.head = got.head /\ got'.again = got.again
        /\ got'.genNow = got.genNow
    BY <1>1, <1>3 DEF GotType
  <2> QED
    BY <1>3, <2>1, <2>2 DEF LoadedPair, LoadedRings, LoadedKept, Taken, Nth
<1>4. CASE load \in {19, 21} /\ got' = [got EXCEPT !.epochNow = epoch]
  <2>1. got' \in GotType
    BY <1>1, <1>4 DEF GotType
  <2>2. /\ got'.rate = got.rate /\ got'.block = got.block /\ got'.epochNow = epoch
        /\ got'.epoch = got.epoch /\ got'.span = got.span /\ got'.gen = got.gen
        /\ got'.count = got.count /\ got'.head = got.head /\ got'.again = got.again
        /\ got'.genNow = got.genNow
    BY <1>1, <1>4 DEF GotType
  <2> QED
    BY <1>4, <2>1, <2>2 DEF LoadedPair, LoadedRings, LoadedKept, Taken, Nth
<1> QED
  BY <1>2, <1>3, <1>4 DEF LoadPair, At

LEMMA LoadGenerationGot ==
    ASSUME WriteType, TickType, NEW q \in Rings, LoadGeneration(q)
    PROVE  got' \in GotType /\ LoadedPair /\ LoadedRings /\ LoadedKept
<1>1. got \in GotType /\ gen \in [Rings -> Nat] /\ gen[q] \in Nat
  BY WriteFacts DEF TickType, GotType
<1>2. CASE load = 2 + Nth(q) /\ got' = [got EXCEPT !.gen[q] = gen[q]]
  <2>1. /\ got'.rate = got.rate /\ got'.block = got.block /\ got'.epochNow = got.epochNow
        /\ got'.epoch = got.epoch /\ got'.span = got.span
        /\ got'.gen = [got.gen EXCEPT ![q] = gen[q]]
        /\ got'.count = got.count /\ got'.head = got.head /\ got'.again = got.again
        /\ got'.genNow = got.genNow
    BY <1>1, <1>2 DEF GotType
  <2>2. got' = [got EXCEPT !.gen = [got.gen EXCEPT ![q] = gen[q]]]
    BY <1>2
  <2>3. [got.gen EXCEPT ![q] = gen[q]] \in [Rings -> Nat] /\ got.gen \in [Rings -> Nat]
    BY <1>1 DEF GotType
  <2>4. got' \in GotType
    BY <1>1, <2>2, <2>3 DEF GotType
  <2>5. load \in {2, 3} /\ (load = 2 <=> q = "in") /\ (load = 3 <=> q = "out")
    BY <1>2 DEF Nth, Rings
  <2>6. \A r \in Rings : IF r = q THEN got'.gen[r] = gen[r] ELSE got'.gen[r] = got.gen[r]
    BY <2>1, <2>3
  <2>7. LoadedRings
    BY <2>1, <2>5, <2>6 DEF LoadedRings, Taken, Nth, Rings
  <2> QED
    BY <2>1, <2>4, <2>5, <2>7 DEF LoadedPair, LoadedKept
<1>3. CASE load \in {17 + Nth(q), 22 + Nth(q)} /\ got' = [got EXCEPT !.genNow[q] = gen[q]]
  <2>1. /\ got'.rate = got.rate /\ got'.block = got.block /\ got'.epochNow = got.epochNow
        /\ got'.epoch = got.epoch /\ got'.span = got.span /\ got'.gen = got.gen
        /\ got'.count = got.count /\ got'.head = got.head /\ got'.again = got.again
        /\ got'.genNow = [got.genNow EXCEPT ![q] = gen[q]]
    BY <1>1, <1>3 DEF GotType
  <2>2. got' = [got EXCEPT !.genNow = [got.genNow EXCEPT ![q] = gen[q]]]
    BY <1>3
  <2>3. [got.genNow EXCEPT ![q] = gen[q]] \in [Rings -> Nat] /\ got.genNow \in [Rings -> Nat]
    BY <1>1 DEF GotType
  <2>4. got' \in GotType
    BY <1>1, <2>2, <2>3 DEF GotType
  <2>5. load \in {17, 18, 22, 23} /\ (load \in {17, 22} <=> q = "in") /\ (load \in {18, 23} <=> q = "out")
    BY <1>3 DEF Nth, Rings
  <2>6. \A r \in Rings : IF r = q THEN got'.genNow[r] = gen[r] ELSE got'.genNow[r] = got.genNow[r]
    BY <2>1, <2>3
  <2>7. LoadedRings
    BY <2>1, <2>5, <2>6 DEF LoadedRings, Taken, Nth, Rings
  <2> QED
    BY <2>1, <2>4, <2>5, <2>7 DEF LoadedPair, LoadedKept
<1> QED
  BY <1>2, <1>3 DEF LoadGeneration, At

LEMMA LoadIndexGot ==
    ASSUME WriteType, TickType, NEW q \in Rings, LoadIndex(q)
    PROVE  got' \in GotType /\ LoadedPair /\ LoadedRings /\ LoadedKept
<1>1. got \in GotType /\ write[q] \in Nat
  BY WriteFacts DEF TickType, GotType
<1>2. /\ got.count \in [Rings -> Nat] /\ got.floor \in [Rings -> Nat]
      /\ got.head \in [Rings -> Nat] /\ got.again \in [Rings -> Nat]
  BY GotFacts
<1>3. \A f \in [Rings -> Nat] :
         /\ [f EXCEPT ![q] = write[q]] \in [Rings -> Nat]
         /\ \A r \in Rings : IF r = q THEN [f EXCEPT ![q] = write[q]][r] = write[r]
                                      ELSE [f EXCEPT ![q] = write[q]][r] = f[r]
  BY <1>1
<1>4. CASE load = 4 + Nth(q) /\ got' = [got EXCEPT !.count[q] = write[q]]
  <2>1. /\ got'.rate = got.rate /\ got'.block = got.block /\ got'.epochNow = got.epochNow
        /\ got'.epoch = got.epoch /\ got'.span = got.span /\ got'.gen = got.gen
        /\ got'.count = [got.count EXCEPT ![q] = write[q]]
        /\ got'.head = got.head /\ got'.again = got.again /\ got'.genNow = got.genNow
    BY <1>1, <1>4 DEF GotType
  <2>2. got' = [got EXCEPT !.count = [got.count EXCEPT ![q] = write[q]]]
    BY <1>4
  <2>3. [got.count EXCEPT ![q] = write[q]] \in [Rings -> Nat]
        /\ \A r \in Rings : IF r = q THEN got'.count[r] = write[r] ELSE got'.count[r] = got.count[r]
    BY <1>2, <1>3, <2>1
  <2>4. got' \in GotType
    BY <1>1, <2>2, <2>3 DEF GotType
  <2>5. load \in {4, 5} /\ (load = 4 <=> q = "in") /\ (load = 5 <=> q = "out")
    BY <1>4 DEF Nth, Rings
  <2>6. LoadedRings
    BY <2>1, <2>3, <2>5 DEF LoadedRings, Taken, Nth, Rings
  <2> QED
    BY <2>1, <2>4, <2>5, <2>6 DEF LoadedPair, LoadedKept
<1>5. CASE load = 7 + Nth(q) /\ got' = [got EXCEPT !.floor[q] = write[q]]
  <2>1. /\ got'.rate = got.rate /\ got'.block = got.block /\ got'.epochNow = got.epochNow
        /\ got'.epoch = got.epoch /\ got'.span = got.span /\ got'.gen = got.gen
        /\ got'.count = got.count
        /\ got'.head = got.head /\ got'.again = got.again /\ got'.genNow = got.genNow
    BY <1>1, <1>5 DEF GotType
  <2>2. got' = [got EXCEPT !.floor = [got.floor EXCEPT ![q] = write[q]]]
    BY <1>5
  <2>3. [got.floor EXCEPT ![q] = write[q]] \in [Rings -> Nat]
    BY <1>2, <1>3
  <2>4. got' \in GotType
    BY <1>1, <2>2, <2>3 DEF GotType
  <2>5. load \in {7, 8}
    BY <1>5 DEF Nth, Rings
  <2>6. LoadedRings
    BY <2>1, <2>5 DEF LoadedRings, Taken, Nth, Rings
  <2> QED
    BY <2>1, <2>4, <2>5, <2>6 DEF LoadedPair, LoadedKept
<1>6. CASE load = 10 + 2 * Nth(q) /\ got' = [got EXCEPT !.head[q] = write[q]]
  <2>1. /\ got'.rate = got.rate /\ got'.block = got.block /\ got'.epochNow = got.epochNow
        /\ got'.epoch = got.epoch /\ got'.span = got.span /\ got'.gen = got.gen
        /\ got'.count = got.count /\ got'.again = got.again /\ got'.genNow = got.genNow
        /\ got'.head = [got.head EXCEPT ![q] = write[q]]
    BY <1>1, <1>6 DEF GotType
  <2>2. got' = [got EXCEPT !.head = [got.head EXCEPT ![q] = write[q]]]
    BY <1>6
  <2>3. [got.head EXCEPT ![q] = write[q]] \in [Rings -> Nat]
        /\ \A r \in Rings : IF r = q THEN got'.head[r] = write[r] ELSE got'.head[r] = got.head[r]
    BY <1>2, <1>3, <2>1
  <2>4. got' \in GotType
    BY <1>1, <2>2, <2>3 DEF GotType
  <2>5. load \in {10, 12} /\ (load = 10 <=> q = "in") /\ (load = 12 <=> q = "out")
    BY <1>6 DEF Nth, Rings
  <2>6. LoadedRings
    BY <2>1, <2>3, <2>5 DEF LoadedRings, Taken, Nth, Rings
  <2> QED
    BY <2>1, <2>4, <2>5, <2>6 DEF LoadedPair, LoadedKept
<1>7. CASE load = 14 + Nth(q) /\ got' = [got EXCEPT !.again[q] = write[q]]
  <2>1. /\ got'.rate = got.rate /\ got'.block = got.block /\ got'.epochNow = got.epochNow
        /\ got'.epoch = got.epoch /\ got'.span = got.span /\ got'.gen = got.gen
        /\ got'.count = got.count /\ got'.head = got.head /\ got'.genNow = got.genNow
        /\ got'.again = [got.again EXCEPT ![q] = write[q]]
    BY <1>1, <1>7 DEF GotType
  <2>2. got' = [got EXCEPT !.again = [got.again EXCEPT ![q] = write[q]]]
    BY <1>7
  <2>3. [got.again EXCEPT ![q] = write[q]] \in [Rings -> Nat]
        /\ \A r \in Rings : IF r = q THEN got'.again[r] = write[r] ELSE got'.again[r] = got.again[r]
    BY <1>2, <1>3, <2>1
  <2>4. got' \in GotType
    BY <1>1, <2>2, <2>3 DEF GotType
  <2>5. load \in {14, 15} /\ (load = 14 <=> q = "in") /\ (load = 15 <=> q = "out")
    BY <1>7 DEF Nth, Rings
  <2>6. LoadedRings
    BY <2>1, <2>3, <2>5 DEF LoadedRings, Taken, Nth, Rings
  <2> QED
    BY <2>1, <2>4, <2>5, <2>6 DEF LoadedPair, LoadedKept
<1> QED
  BY <1>4, <1>5, <1>6, <1>7 DEF LoadIndex, At

LEMMA LoadGot ==
    ASSUME WriteType, TickType, Load
    PROVE  got' \in GotType /\ LoadedPair /\ LoadedRings /\ LoadedKept
BY LoadPairGot, LoadGenerationGot, LoadIndexGot DEF Load

LEMMA LoadStep ==
    ASSUME WriteType, WriterInv, SlotInv, TickType, SpanInv, FrameIsOneSpan, DescribedInv, Load
    PROVE  /\ WriteType' /\ WriterInv' /\ SlotInv' /\ TickType' /\ SpanInv'
           /\ FrameIsOneSpan' /\ DescribedInv'
<1>1. /\ load' = load + 1
      /\ load \in {1, 2, 3, 4, 5, 6, 7, 8, 10, 12, 14, 15, 17, 18, 19, 21, 22, 23}
      /\ write' = write /\ gen' = gen /\ slot' = slot /\ epoch' = epoch
      /\ published' = published /\ prepared' = prepared /\ job' = job
      /\ copy' = copy /\ trace' = trace
      /\ shown' = shown /\ committed' = committed /\ described' = described
  BY LoadLeaves
<1>2. got' \in GotType /\ LoadedPair /\ LoadedRings /\ LoadedKept
  BY LoadGot
<1>3. WriteType' /\ WriterInv'
  BY <1>1 DEF WriteType, WriterInv, Line
<1>4. \A r \in Rings : Extent(r)' = Extent(r)
  BY <1>1 DEF Extent
<1>5. SlotInv'
  BY <1>1, <1>4 DEF SlotInv, Holds
<1>6. TickType'
  <2>1. load' \in 0..24
    BY <1>1
  <2> QED
    BY <1>1, <1>2, <2>1 DEF TickType, GotType
<1>7. SpanInv'
  <2>1. load' \in 10..20 => load \in 10..20 /\ load \notin {4, 5}
    BY <1>1
  <2>2. load' \in 10..20 => got'.count = got.count /\ got'.span = got.span
    BY <1>2, <2>1 DEF LoadedKept, LoadedPair
  <2> QED
    BY <2>1, <2>2 DEF SpanInv, Committed
<1>8. FrameIsOneSpan'
  BY <1>1 DEF FrameIsOneSpan, Line
<1>9. DescribedInv'
  BY <1>1 DEF DescribedInv, OfShown
<1> QED
  BY <1>3, <1>5, <1>6, <1>7, <1>8, <1>9

LEMMA LoadBounds ==
    ASSUME WriteType, TickType, Bounds, Load
    PROVE  Bounds'
<1>1. /\ load' = load + 1 /\ gen' = gen /\ epoch' = epoch /\ shown' = shown
      /\ load \in {1, 2, 3, 4, 5, 6, 7, 8, 10, 12, 14, 15, 17, 18, 19, 21, 22, 23}
  BY LoadLeaves
<1>2. got'.epoch = got.epoch
  BY LoadGot DEF LoadedPair
<1>3. ASSUME NEW r \in Rings
      PROVE  /\ got'.gen[r] <= gen[r] /\ got'.genNow[r] <= gen[r] /\ shown.gen[r] <= gen[r]
             /\ load' > 2 + Nth(r) => shown.gen[r] <= got'.gen[r]
  <2>1. gen[r] \in Nat /\ got.gen[r] \in Nat /\ got.genNow[r] \in Nat /\ shown.gen[r] \in Nat
    BY WriteFacts, GotNumbers
  <2>2. /\ got.gen[r] <= gen[r] /\ got.genNow[r] <= gen[r] /\ shown.gen[r] <= gen[r]
        /\ load > 2 + Nth(r) => shown.gen[r] <= got.gen[r]
    BY DEF Bounds
  <2>3. /\ IF load = 2 + Nth(r) THEN got'.gen[r] = gen[r] ELSE got'.gen[r] = got.gen[r]
        /\ got'.genNow[r] \in {gen[r], got.genNow[r]}
    BY LoadGot DEF LoadedRings, Taken
  <2>4. Nth(r) \in {0, 1}
    BY DEF Nth
  <2> QED
    BY <1>1, <2>1, <2>2, <2>3, <2>4
<1>4. got'.epoch <= epoch'
  BY <1>1, <1>2 DEF Bounds
<1> QED
  BY <1>1, <1>3, <1>4 DEF Bounds

LEMMA LoadPairLoaded ==
    ASSUME WriteType, TickType, PairLoaded, Load
    PROVE  PairLoaded'
<1>1. /\ load' = load + 1 /\ epoch' = epoch /\ published' = published
      /\ load \in {1, 2, 3, 4, 5, 6, 7, 8, 10, 12, 14, 15, 17, 18, 19, 21, 22, 23}
  BY LoadLeaves
<1>2. /\ IF load = 1 THEN got'.rate = published.rate ELSE got'.rate = got.rate
      /\ IF load = 6 THEN got'.block = published.block ELSE got'.block = got.block
      /\ got'.epoch = got.epoch
  BY LoadGot DEF LoadedPair
<1>3. HeldPair' => HeldPair
  BY <1>1, <1>2 DEF HeldPair
<1>4. (load' \in 2..16 => load = 1 \/ load \in 2..16) /\ (load' \in 7..16 => load = 6 \/ load \in 7..16)
  BY <1>1
<1> QED
  BY <1>1, <1>2, <1>3, <1>4 DEF PairLoaded

\* A count that is not zero is of a timeline that has not been rewound.
LEMMA ReachIs ==
    ASSUME WriteType, WriterInv
    PROVE  /\ Reach \in Nat /\ write["in"] \in Nat /\ write["in"] <= Reach
           /\ write["in"] > 0 => Fresh
           /\ Fresh => write["in"] = 0 \/ write["in"] = Reach
<1>1. write["in"] \in Nat /\ write["out"] \in Nat
  BY WriteFacts
<1>2. job.at \in Rewound \union {"bump in"} => write["in"] = 0
  BY DEF WriterInv
<1>3. ~Fresh => write["in"] = 0
  <2>1. ~Fresh => job.at \in Rewound
    BY DEF Fresh
  <2> QED
    BY <1>2, <2>1
<1>4. Reach = write["in"] \/ (Reach = write["out"] /\ write["in"] = 0)
  BY <1>2 DEF Reach
<1> QED
  BY <1>1, <1>3, <1>4

LEMMA LoadCounts ==
    ASSUME WriteType, WriterInv, TickType, CountsLoaded, Load
    PROVE  CountsLoaded'
<1>1. /\ load' = load + 1 /\ gen' = gen /\ write' = write /\ job' = job
      /\ load \in {1, 2, 3, 4, 5, 6, 7, 8, 10, 12, 14, 15, 17, 18, 19, 21, 22, 23}
  BY LoadLeaves
<1>2. /\ IF load = 4 THEN got'.count["in"] = write["in"] ELSE got'.count["in"] = got.count["in"]
      /\ IF load = 5 THEN got'.count["out"] = write["out"] ELSE got'.count["out"] = got.count["out"]
      /\ load \notin {2, 3} => got'.gen = got.gen
      /\ load \notin {4, 5} => got'.count = got.count
  <2>1. LoadedRings /\ LoadedKept /\ Nth("in") = 0 /\ Nth("out") = 1 /\ {"in", "out"} = Rings
    BY LoadGot DEF Nth, Rings
  <2>2. Taken(4, "in", got'.count, got.count, write) /\ Taken(4, "out", got'.count, got.count, write)
    BY <2>1 DEF LoadedRings
  <2> QED
    BY <2>1, <2>2 DEF LoadedKept, Taken
<1>3. Fresh' = Fresh /\ Reach' = Reach
  BY <1>1 DEF Fresh, Reach
<1>4. ASSUME load' \in 5..16, got'.gen["in"] = gen["in"], got'.count["in"] > 0
      PROVE  Fresh /\ got'.count["in"] <= Reach
  <2>1. CASE load = 4
    <3>1. got'.count["in"] = write["in"]
      BY <1>2, <2>1
    <3> QED
      BY <1>4, <3>1, ReachIs
  <2>2. CASE load # 4
    <3>1. load \in 5..16
      BY <1>1, <1>4, <2>2
    <3>2. got'.gen = got.gen /\ got'.count["in"] = got.count["in"]
      BY <1>2, <2>2, <3>1
    <3> QED
      BY <1>4, <3>1, <3>2 DEF CountsLoaded
  <2> QED
    BY <2>1, <2>2
<1>5. ASSUME load' \in 6..16, Held', Committed' > 0
      PROVE  got'.count["out"] <= write["out"]
  <2>1. CASE load = 5
    <3>1. got'.count["out"] = write["out"] /\ write["out"] \in Nat
      BY <1>2, <2>1, WriteFacts
    <3> QED
      BY <3>1
  <2>2. CASE load # 5
    <3>1. load \in 6..16
      BY <1>1, <1>5, <2>2
    <3>2. got'.gen = got.gen /\ got'.count = got.count
      BY <1>2, <3>1
    <3>3. Held /\ Committed > 0
      BY <1>1, <1>5, <3>2 DEF Held, Committed
    <3> QED
      BY <3>1, <3>2, <3>3 DEF CountsLoaded
  <2> QED
    BY <2>1, <2>2
<1> QED
  BY <1>1, <1>3, <1>4, <1>5 DEF CountsLoaded

\* What is kept once the counts are loaded.
LEMMA LoadKeeps ==
    ASSUME WriteType, TickType, Load, load \in 6..24
    PROVE  /\ got'.gen = got.gen /\ got'.count = got.count /\ got'.span = got.span
           /\ got'.epoch = got.epoch
           /\ (Held' <=> Held) /\ (HeldPair' <=> HeldPair) /\ Committed' = Committed /\ First' = First
           /\ load # 6 => got'.block = got.block /\ Reserved' = Reserved
<1>1. gen' = gen /\ epoch' = epoch
  BY LoadLeaves
<1>2. got'.gen = got.gen /\ got'.count = got.count
  BY LoadGot DEF LoadedKept
<1>3. got'.span = got.span /\ got'.epoch = got.epoch /\ (load # 6 => got'.block = got.block)
  BY LoadGot DEF LoadedPair
<1>4. (Held' <=> Held) /\ (HeldPair' <=> HeldPair) /\ Committed' = Committed
  BY <1>1, <1>2, <1>3 DEF Held, HeldPair, Committed
<1>5. First' = First /\ (load # 6 => Reserved' = Reserved)
  BY <1>2, <1>3 DEF First, Committed, Reserved
<1> QED
  BY <1>2, <1>3, <1>4, <1>5

LEMMA LoadHeads ==
    ASSUME WriteType, WriterInv, TickType, CountsLoaded, Load
    PROVE  HeadsLoaded'
<1>1. /\ load' = load + 1 /\ write' = write /\ job' = job
      /\ load \in {1, 2, 3, 4, 5, 6, 7, 8, 10, 12, 14, 15, 17, 18, 19, 21, 22, 23}
  BY LoadLeaves
<1>2. Reach' = Reach
  BY <1>1 DEF Reach
<1>3. ASSUME load \in {10, 12}, Held', Committed' > 0
      PROVE  /\ got'.count = got.count
             /\ Fresh /\ got.count["in"] <= Reach /\ got.count["out"] <= write["out"]
  <2>1. Held /\ Committed > 0 /\ got'.count = got.count
    <3>1. load \in 6..24
      BY <1>3
    <3> QED
      BY <1>3, <3>1, LoadKeeps
  <2> QED
    BY <1>3, <2>1, SpanIsFresh
<1>4. /\ got.count["in"] \in Nat /\ got.count["out"] \in Nat /\ write["out"] \in Nat
  BY GotNumbers, WriteFacts DEF Rings
<1>5. ASSUME Held', Committed' > 0, load = 10
      PROVE  got'.head["in"] <= Reach /\ (got'.head["in"] = 0 \/ got'.count["in"] <= got'.head["in"])
  <2>1. got'.head["in"] = write["in"]
    <3>1. Taken(10 + Nth("in"), "in", got'.head, got.head, write)
      BY LoadGot DEF LoadedRings, Rings
    <3> QED
      BY <1>5, <3>1 DEF Taken, Nth
  <2> QED
    BY <1>3, <1>4, <1>5, <2>1, ReachIs
<1>6. ASSUME Held', Committed' > 0, load = 12
      PROVE  got'.head["out"] <= write["out"] /\ got'.count["out"] <= got'.head["out"]
  <2>1. got'.head["out"] = write["out"]
    <3>1. Taken(10 + Nth("out"), "out", got'.head, got.head, write)
      BY LoadGot DEF LoadedRings, Rings
    <3> QED
      BY <1>6, <3>1 DEF Taken, Nth
  <2> QED
    BY <1>3, <1>4, <1>6, <2>1
<1>7. (load' = 11 => load = 10) /\ (load' = 13 => load = 12)
  BY <1>1
<1> QED
  BY <1>1, <1>2, <1>5, <1>6, <1>7 DEF HeadsLoaded

\* A chunk under way is no longer than the block that the floors give up.
LEMMA ChunkIsReserved ==
    ASSUME WriteType, WriterInv, TickType, PairLoaded, CountsLoaded, Held, HeldPair, Committed > 0,
           load \in {14, 15}
    PROVE  /\ Extent("in") \in Nat /\ Extent("out") \in Nat
           /\ Extent("in") <= AtLeast(write["in"] + Reserved, write["out"])
           /\ Extent("out") <= write["out"] + Reserved
<1>1. /\ write["in"] \in Nat /\ write["out"] \in Nat /\ job.end \in Nat /\ Reserved \in Nat
  BY WriteFacts, ReservedIs
<1>2. job.at \in Pushing => job.end <= write["out"] + Reserved
  <2>1. got.block = published.block
    BY PairLoaded DEF PairLoaded
  <2>2. job.at \in Pushing => published = prepared[Line]
    BY DEF WriterInv
  <2> QED
    BY <2>1, <2>2 DEF WriterInv, Reserved
<1>3. job.at = "publish in" => write["in"] = write["out"] /\ job.end <= write["out"] + Reserved
  BY <1>2 DEF WriterInv, Pushing
<1>4. job.at = "publish out" => job.end <= write["out"] + Reserved
  BY <1>2 DEF Pushing
<1>5. Extent("out") \in Nat /\ Extent("out") <= write["out"] + Reserved
  <2>1. \/ Extent("out") = job.end /\ job.end <= write["out"] + Reserved
        \/ Extent("out") = write["out"]
    BY <1>4 DEF Extent
  <2> QED
    BY <1>1, <2>1
<1>6. \/ Extent("in") = job.end /\ write["in"] = write["out"] /\ job.end <= write["out"] + Reserved
      \/ Extent("in") = write["out"]
      \/ Extent("in") = write["in"]
  BY <1>3 DEF Extent
<1>7. Extent("in") \in Nat /\ Extent("in") <= AtLeast(write["in"] + Reserved, write["out"])
  BY <1>1, <1>6 DEF AtLeast
<1> QED
  BY <1>5, <1>7

LEMMA LoadCopies ==
    ASSUME WriteType, WriterInv, TickType, PairLoaded, CountsLoaded, SpanInv, CopiesMeant, Load
    PROVE  CopiesMeant'
<1>1. /\ load' = load + 1 /\ write' = write /\ job' = job /\ copy' = copy
      /\ load \in {1, 2, 3, 4, 5, 6, 7, 8, 10, 12, 14, 15, 17, 18, 19, 21, 22, 23}
  BY LoadLeaves
<1>2. load' \in 12..16 => load \in {12, 14, 15}
  BY <1>1
<1> DEFINE Now(r, b) ==
      Len(copy'[r]) = got'.span =>
         \A i \in 1..got'.span : \/ copy'[r][i] = [line |-> got'.gen["in"], n |-> First' + i - 1]
                                 \/ First' + i - 1 + Capacity < b
<1> SUFFICES ASSUME Held', HeldPair', got'.span > 0, load \in {12, 14, 15}
             PROVE  /\ load = 12 => Now("in", Extent("in")')
                    /\ load = 14 => /\ Now("in", AtLeast(got'.again["in"] + Reserved', write'["out"]))
                                    /\ Now("out", Extent("out")')
                    /\ load = 15 => /\ Now("in", AtLeast(got'.again["in"], got'.again["out"]) + Reserved')
                                    /\ Now("out", got'.again["out"] + Reserved')
  BY <1>1, <1>2 DEF CopiesMeant, Meant
<1>3. /\ got'.gen = got.gen /\ got'.span = got.span /\ First' = First /\ Reserved' = Reserved
      /\ Held /\ HeldPair /\ got.span > 0
  <2>1. load \in 6..24 /\ load # 6
    OBVIOUS
  <2> QED
    BY <2>1, LoadKeeps
<1>4. Committed > 0
  <2>1. got.span <= Committed
    BY DEF SpanInv
  <2> QED
    BY <1>3, <2>1, CommittedIs, GotFacts
<1>5. ASSUME NEW r \in Rings, NEW a \in Int, NEW b \in Int, a <= b, Meant(r, a)
      PROVE  Now(r, b)
  <2>1. Meant(r, b)
    BY <1>5, MeantGrows
  <2> QED
    BY <1>1, <1>3, <2>1 DEF Meant
<1> HIDE DEF Now
<1>6. Extent("in")' = Extent("in") /\ Extent("out")' = Extent("out")
  BY <1>1 DEF Extent
<1>7. /\ Taken(14, "in", got'.again, got.again, write)
      /\ Taken(14, "out", got'.again, got.again, write)
  BY LoadGot DEF LoadedRings, Rings
<1>8. /\ write["in"] \in Nat /\ write["out"] \in Nat /\ Reserved \in Nat
      /\ got.again["in"] \in Nat /\ got.again["out"] \in Nat
      /\ Extent("in") \in Nat /\ Extent("out") \in Nat
  BY WriteFacts, GotNumbers, ReservedIs DEF Rings, Extent
<1>9. ASSUME NEW r \in Rings, NEW a \in Nat, Meant(r, a)  PROVE Now(r, a)
  BY <1>5, <1>9
<1>10. CASE load = 12
  <2>1. Meant("in", Extent("in"))
    BY <1>3, <1>10 DEF CopiesMeant
  <2>2. Now("in", Extent("in"))
    BY <1>8, <1>9, <2>1 DEF Rings
  <2> QED
    BY <1>6, <1>10, <2>2
<1>11. CASE load = 14
  <2>1. Meant("in", Extent("in")) /\ Meant("out", Extent("out"))
    BY <1>3, <1>11 DEF CopiesMeant
  <2>2. got'.again["in"] = write["in"]
    BY <1>7, <1>11 DEF Taken, Nth
  <2> DEFINE b == AtLeast(write["in"] + Reserved, write["out"])
  <2>3. b \in Int
    BY <1>8 DEF AtLeast
  <2>4. Extent("in") <= b
    BY <1>3, <1>4, <1>11, ChunkIsReserved
  <2>5. AtLeast(got'.again["in"] + Reserved', write'["out"]) = b
    BY <1>1, <1>3, <2>2
  <2> HIDE DEF b
  <2>6. Now("in", b)
    BY <1>5, <1>8, <2>1, <2>3, <2>4 DEF Rings
  <2>7. Now("out", Extent("out"))
    BY <1>8, <1>9, <2>1 DEF Rings
  <2> QED
    BY <1>6, <1>11, <2>5, <2>6, <2>7
<1>12. CASE load = 15
  <2>1. Meant("in", AtLeast(got.again["in"] + Reserved, write["out"])) /\ Meant("out", Extent("out"))
    BY <1>3, <1>12 DEF CopiesMeant
  <2>2. got'.again["in"] = got.again["in"] /\ got'.again["out"] = write["out"]
    BY <1>7, <1>12 DEF Taken, Nth
  <2> DEFINE a == AtLeast(got.again["in"] + Reserved, write["out"])
             b == AtLeast(got.again["in"], write["out"]) + Reserved
             c == write["out"] + Reserved
  <2>3. a \in Int /\ b \in Int /\ a <= b /\ c \in Int
    BY <1>8 DEF AtLeast
  <2>4. Extent("out") <= c
    BY <1>3, <1>4, <1>12, ChunkIsReserved
  <2>5. /\ AtLeast(got'.again["in"], got'.again["out"]) + Reserved' = b
        /\ got'.again["out"] + Reserved' = c
    BY <1>3, <2>2
  <2>6. Meant("in", a)
    BY <2>1
  <2> HIDE DEF a, b, c
  <2>7. Now("in", b)
    BY <1>5, <2>3, <2>6 DEF Rings
  <2>8. Now("out", c)
    BY <1>5, <1>8, <2>1, <2>3, <2>4 DEF Rings
  <2> QED
    BY <1>12, <2>5, <2>7, <2>8
<1> QED
  BY <1>10, <1>11, <1>12

LEMMA LoadLines ==
    ASSUME WriteType, TickType, CopiedLines, Load
    PROVE  CopiedLines'
<1>1. /\ load' = load + 1 /\ copy' = copy
      /\ load \in {1, 2, 3, 4, 5, 6, 7, 8, 10, 12, 14, 15, 17, 18, 19, 21, 22, 23}
  BY LoadLeaves
<1>2. load' \in 12..16 => load \in 12..16 /\ (load' \in 14..16 => load \in 14..16)
  BY <1>1
<1>3. load \in 12..16 => (Held' <=> Held) /\ got'.span = got.span /\ got'.gen = got.gen
  BY LoadKeeps
<1> QED
  BY <1>1, <1>2, <1>3 DEF CopiedLines

\* The generations, and the epoch, loaded again are what they were.
LEMMA LoadLast ==
    ASSUME WriteType, TickType, Load, load \in 17..19
    PROVE  (HeldLast' <=> HeldLast) /\ (PairLast' <=> PairLast) /\ got'.rate = got.rate
<1>1. load' = load + 1 /\ gen' = gen /\ epoch' = epoch
  BY LoadLeaves
<1>2. got'.gen = got.gen /\ got'.epoch = got.epoch
  BY LoadKeeps
<1>3. /\ got'.rate = got.rate
      /\ load = 19 => got'.epochNow = epoch
  BY LoadGot DEF LoadedPair
<1>4. ASSUME NEW r \in Rings  PROVE GenLast(r)' = GenLast(r)
  <2>1. IF load \in {17 + Nth(r), 22 + Nth(r)} THEN got'.genNow[r] = gen[r]
                                               ELSE got'.genNow[r] = got.genNow[r]
    BY LoadGot DEF LoadedRings
  <2>2. Nth(r) \in {0, 1}
    BY DEF Nth
  <2> QED
    BY <1>1, <2>1, <2>2 DEF GenLast
<1>5. HeldLast' <=> HeldLast
  BY <1>2, <1>4 DEF HeldLast
<1>6. PairLast' <=> PairLast
  BY <1>1, <1>2, <1>3 DEF PairLast
<1> QED
  BY <1>3, <1>5, <1>6

LEMMA LoadProved ==
    ASSUME WriteType, TickType, Proved, Load
    PROVE  Proved'
<1>1. /\ load' = load + 1 /\ prepared' = prepared /\ copy' = copy
      /\ load \in {1, 2, 3, 4, 5, 6, 7, 8, 10, 12, 14, 15, 17, 18, 19, 21, 22, 23}
  BY LoadLeaves
<1>2. load' \in 17..20 => load \in 17..19
  BY <1>1
<1>3. load \in 17..19 => /\ (HeldLast' <=> HeldLast) /\ (PairLast' <=> PairLast) /\ got'.rate = got.rate
                         /\ got'.span = got.span /\ got'.gen = got.gen /\ First' = First
  BY LoadLast, LoadKeeps
<1> QED
  BY <1>1, <1>2, <1>3 DEF Proved, Line

LEMMA LoadTrace ==
    ASSUME WriteType, TickType, TraceInv, Load
    PROVE  TraceInv'
<1>1. /\ load' = load + 1 /\ trace' = trace /\ shown' = shown /\ gen' = gen
      /\ load \in {1, 2, 3, 4, 5, 6, 7, 8, 10, 12, 14, 15, 17, 18, 19, 21, 22, 23}
  BY LoadLeaves
<1>2. ASSUME NEW q \in Rings  PROVE GenSoFar(q)' = GenSoFar(q)
  <2>1. IF load = 2 + Nth(q) THEN got'.gen[q] = gen[q] ELSE got'.gen[q] = got.gen[q]
    BY LoadGot DEF LoadedRings, Taken
  <2>2. Nth(q) \in {0, 1}
    BY DEF Nth
  <2> QED
    BY <1>1, <2>1, <2>2 DEF GenSoFar
<1>3. \A x : OfShown(x)' = OfShown(x)
  BY <1>1 DEF OfShown
<1>4. load \in 6..24 => got'.gen = got.gen /\ got'.span = got.span
  BY LoadKeeps
<1>5. load \in 17..19 => (HeldLast' <=> HeldLast)
  BY LoadLast
<1>6. /\ load' \in 0..9 => load \in 0..9
      /\ load' \in 10..16 => load \in 10..16
      /\ load' \in 17..20 => load \in 17..19
      /\ load' \in 21..24 => load \in 21..24
  BY <1>1
<1>7. ASSUME NEW r \in Rings
      PROVE  /\ load' \in 0..9 => \/ \A x \in trace'[r] : OfShown(x)'
                                  \/ \E q \in Rings : GenSoFar(q)' # shown'.gen[q]
             /\ load' \in 10..16 => \A x \in trace'[r] : OfLoaded(x)'
             /\ load' \in 17..20 /\ HeldLast' =>
                   trace'[r] = IF got'.span = 0 THEN {} ELSE {got'.gen["in"]}
             /\ load' \in 21..24 => trace'[r] = {}
  <2>1. load' \in 0..9 => \/ \A x \in trace'[r] : OfShown(x)'
                          \/ \E q \in Rings : GenSoFar(q)' # shown'.gen[q]
    BY <1>1, <1>2, <1>3, <1>6 DEF TraceInv
  <2>2. load' \in 10..16 => \A x \in trace'[r] : OfLoaded(x)'
    BY <1>1, <1>4, <1>6 DEF TraceInv, OfLoaded
  <2>3. load' \in 17..20 /\ HeldLast' =>
                   trace'[r] = IF got'.span = 0 THEN {} ELSE {got'.gen["in"]}
    BY <1>1, <1>4, <1>5, <1>6 DEF TraceInv
  <2>4. load' \in 21..24 => trace'[r] = {}
    BY <1>1, <1>6 DEF TraceInv
  <2> QED
    BY <2>1, <2>2, <2>3, <2>4
<1> QED
  BY <1>7 DEF TraceInv

-----------------------------------------------------------------------------
(* The tick's other steps.                                                  *)

LEMMA WriterStays ==
    ASSUME WriteType, WriterInv, SlotInv, UNCHANGED writeVars
    PROVE  /\ WriteType' /\ WriterInv' /\ SlotInv'
           /\ write' = write /\ gen' = gen /\ slot' = slot /\ epoch' = epoch
           /\ published' = published /\ prepared' = prepared /\ job' = job /\ Line' = Line
<1>1. /\ write' = write /\ gen' = gen /\ slot' = slot /\ epoch' = epoch
      /\ published' = published /\ prepared' = prepared /\ job' = job
  BY DEF writeVars, ringVars, pairVars
<1>2. WriteType' /\ WriterInv'
  BY <1>1 DEF WriteType, WriterInv, Line
<1>3. \A r \in Rings : Extent(r)' = Extent(r)
  BY <1>1 DEF Extent
<1>4. SlotInv'
  BY <1>1, <1>3 DEF SlotInv, Holds
<1> QED
  BY <1>1, <1>2, <1>4 DEF Line

LEMMA UnreadIs ==
    /\ Unread \in GotType /\ Unread.epoch = 0
    /\ Unread.gen = [r \in Rings |-> 0] /\ Unread.genNow = [r \in Rings |-> 0]
BY DEF Unread, GotType, Both

\* A tick that is over has loaded nothing.
LEMMA Returned ==
    ASSUME WriteType, gen' = gen, epoch' = epoch, Return,
           shown' \in [gen : [Rings -> Nat], count : [Rings -> Nat], committed : Nat],
           trace' \in [Rings -> SUBSET Nat], described' \in SUBSET Nat,
           \A r \in Rings : shown'.gen[r] <= gen[r],
           \A r \in Rings : \/ \A x \in trace'[r] : OfShown(x)'
                            \/ \E q \in Rings : gen[q] # shown'.gen[q]
    PROVE  /\ TickType' /\ Bounds' /\ PairLoaded' /\ CountsLoaded' /\ HeadsLoaded' /\ SpanInv'
           /\ CopiesMeant' /\ CopiedLines' /\ Proved' /\ TraceInv'
<1>1. load' = 0 /\ got' = Unread /\ copy' = [r \in Rings |-> <<>>]
  BY DEF Return, Both
<1>2. TickType'
  <2>1. copy' \in [Rings -> Seq(Frame)]
    BY <1>1
  <2> QED
    BY <1>1, <2>1, UnreadIs DEF TickType, GotType
<1>3. Bounds'
  <2>1. got'.epoch <= epoch'
    BY <1>1, UnreadIs, WriteFacts
  <2>2. ASSUME NEW r \in Rings
        PROVE  /\ got'.gen[r] <= gen'[r] /\ got'.genNow[r] <= gen'[r] /\ shown'.gen[r] <= gen'[r]
               /\ ~(load' > 2 + Nth(r))
    <3>1. got'.gen[r] = 0 /\ got'.genNow[r] = 0 /\ gen[r] \in Nat
      BY <1>1, UnreadIs, WriteFacts
    <3>2. Nth(r) \in {0, 1}
      BY DEF Nth
    <3> QED
      BY <1>1, <3>1, <3>2
  <2> QED
    BY <2>1, <2>2 DEF Bounds
<1>4. /\ load' \notin 2..16 /\ load' \notin 7..16 /\ load' \notin 5..16 /\ load' \notin 6..16
      /\ load' # 11 /\ load' # 13 /\ load' \notin 10..20 /\ load' \notin 12..14 /\ load' # 15
      /\ load' \notin 14..15 /\ load' # 16 /\ load' \notin 12..16 /\ load' \notin 14..16
      /\ load' \notin 17..20 /\ load' \notin 10..16 /\ load' \notin 21..24
  BY <1>1
<1>5. PairLoaded' /\ CountsLoaded' /\ HeadsLoaded' /\ SpanInv'
  BY <1>4 DEF PairLoaded, CountsLoaded, HeadsLoaded, SpanInv
<1>6. CopiesMeant' /\ CopiedLines' /\ Proved'
  BY <1>4 DEF CopiesMeant, CopiedLines, Proved
<1>7. TraceInv'
  <2>1. ASSUME NEW q \in Rings  PROVE GenSoFar(q)' = gen[q]
    <3>1. Nth(q) \in {0, 1}
      BY DEF Nth
    <3> QED
      BY <1>1, <3>1 DEF GenSoFar
  <2> QED
    BY <1>4, <2>1 DEF TraceInv
<1> QED
  BY <1>2, <1>3, <1>5, <1>6, <1>7

LEMMA TickStep ==
    ASSUME ScopeInv, ScopeTick
    PROVE  ScopeInv'
<1> USE DEF ScopeInv
<1>1. /\ WriteType' /\ WriterInv' /\ SlotInv' /\ gen' = gen /\ epoch' = epoch /\ prepared' = prepared
      /\ Line' = Line
  <2>1. UNCHANGED writeVars
    BY DEF ScopeTick
  <2> QED
    BY <2>1, WriterStays
<1>2. /\ load = 0 /\ load' = 1 /\ committed' = NoFrame /\ got' = [Unread EXCEPT !.epoch = epoch]
      /\ copy' = copy /\ trace' = trace /\ shown' = shown /\ described' = described
  BY DEF ScopeTick
<1>3. /\ got' \in GotType /\ got'.epoch = epoch
      /\ got'.gen = [r \in Rings |-> 0] /\ got'.genNow = [r \in Rings |-> 0]
  <2>1. epoch \in Nat
    BY WriteFacts
  <2> QED
    BY <1>2, <2>1, UnreadIs DEF GotType
<1>4. TickType'
  <2>1. /\ load' \in 0..24 /\ copy' \in [Rings -> Seq(Frame)] /\ trace' \in [Rings -> SUBSET Nat]
        /\ shown' \in [gen : [Rings -> Nat], count : [Rings -> Nat], committed : Nat]
        /\ described' \in SUBSET Nat
    BY <1>2 DEF TickType
  <2> QED
    BY <1>3, <2>1 DEF TickType, GotType
<1>5. Bounds'
  <2>1. got'.epoch <= epoch'
    BY <1>1, <1>3, WriteFacts
  <2>2. ASSUME NEW r \in Rings
        PROVE  /\ got'.gen[r] <= gen'[r] /\ got'.genNow[r] <= gen'[r] /\ shown'.gen[r] <= gen'[r]
               /\ ~(load' > 2 + Nth(r))
    <3>1. got'.gen[r] = 0 /\ got'.genNow[r] = 0 /\ gen[r] \in Nat
      BY <1>3, WriteFacts
    <3>2. Nth(r) \in {0, 1}
      BY DEF Nth
    <3>3. shown'.gen[r] <= gen[r]
      BY <1>2 DEF Bounds
    <3> QED
      BY <1>1, <1>2, <3>1, <3>2, <3>3
  <2> QED
    BY <2>1, <2>2 DEF Bounds
<1>6. /\ load' \notin 2..16 /\ load' \notin 7..16 /\ load' \notin 5..16 /\ load' \notin 6..16
      /\ load' # 11 /\ load' # 13 /\ load' \notin 10..20 /\ load' \notin 12..14 /\ load' # 15
      /\ load' \notin 14..15 /\ load' # 16 /\ load' \notin 12..16 /\ load' \notin 14..16
      /\ load' \notin 17..20 /\ load' \notin 10..16 /\ load' \notin 21..24 /\ load \in 0..9
  BY <1>2
<1>7. PairLoaded' /\ CountsLoaded' /\ HeadsLoaded' /\ SpanInv'
  BY <1>6 DEF PairLoaded, CountsLoaded, HeadsLoaded, SpanInv
<1>8. CopiesMeant' /\ CopiedLines' /\ Proved'
  BY <1>6 DEF CopiesMeant, CopiedLines, Proved
<1>9. TraceInv'
  <2>1. ASSUME NEW q \in Rings  PROVE GenSoFar(q)' = GenSoFar(q)
    <3>1. Nth(q) \in {0, 1}
      BY DEF Nth
    <3> QED
      BY <1>1, <1>2, <3>1 DEF GenSoFar
  <2>2. \A x : OfShown(x)' = OfShown(x)
    BY <1>2 DEF OfShown
  <2>3. ASSUME NEW r \in Rings
        PROVE  \/ \A x \in trace'[r] : OfShown(x)'
               \/ \E q \in Rings : GenSoFar(q)' # shown'.gen[q]
    BY <1>2, <1>6, <2>1, <2>2 DEF TraceInv
  <2> QED
    BY <1>6, <2>3 DEF TraceInv
<1>10. DescribedInv'
  BY <1>2 DEF DescribedInv, OfShown
<1>11. FrameIsOneSpan'
  <2>1. committed'.in \union committed'.out = {}
    BY <1>2 DEF NoFrame
  <2> QED
    BY <1>2, <2>1 DEF FrameIsOneSpan
<1> QED
  BY <1>1, <1>4, <1>5, <1>7, <1>8, <1>9, <1>10, <1>11

\* A generation shown, loaded and stored.
LEMMA GenOrder ==
    ASSUME WriteType, TickType, Bounds, load \in 9..24, NEW r \in Rings
    PROVE  /\ shown.gen[r] \in Nat /\ got.gen[r] \in Nat /\ gen[r] \in Nat
           /\ shown.gen[r] <= got.gen[r] /\ got.gen[r] <= gen[r] /\ got.genNow[r] <= gen[r]
<1>1. load > 2 + Nth(r)
  <2>1. Nth(r) \in {0, 1}
    BY DEF Nth
  <2> QED
    BY <2>1
<1> QED
  BY <1>1, WriteFacts, GotNumbers DEF Bounds

LEMMA BlankStep ==
    ASSUME ScopeInv, Blank
    PROVE  ScopeInv'
<1> USE DEF ScopeInv
<1>1. /\ WriteType' /\ WriterInv' /\ SlotInv' /\ gen' = gen /\ epoch' = epoch /\ prepared' = prepared
      /\ Line' = Line
  <2>1. UNCHANGED writeVars
    BY DEF Blank
  <2> QED
    BY <2>1, WriterStays
<1>2. load = 24 /\ Return /\ trace' = trace
  BY DEF Blank
<1>3. trace["in"] = {} /\ trace["out"] = {} /\ \A r \in Rings : trace[r] = {}
  <2>1. load \in 21..24
    BY <1>2
  <2> QED
    BY <2>1 DEF TraceInv, Rings
<1>4. ASSUME NEW r \in Rings
      PROVE  shown.gen[r] <= gen[r] /\ got.genNow[r] <= gen[r]
  BY DEF Bounds
<1>5. trace' \in [Rings -> SUBSET Nat] /\ shown \in [gen : [Rings -> Nat], count : [Rings -> Nat], committed : Nat]
      /\ described \in SUBSET Nat
  BY <1>2 DEF TickType
<1>6. CASE UNCHANGED shownVars
  <2>1. shown' = shown /\ committed' = committed /\ described' = described
    BY <1>6 DEF shownVars
  <2>2. DescribedInv' /\ FrameIsOneSpan'
    BY <1>1, <2>1 DEF DescribedInv, OfShown, FrameIsOneSpan
  <2>3. \A r \in Rings : shown'.gen[r] <= gen[r]
    BY <1>4, <2>1
  <2>4. \A r \in Rings : \A x \in trace'[r] : OfShown(x)'
    BY <1>2, <1>3
  <2>5. /\ TickType' /\ Bounds' /\ PairLoaded' /\ CountsLoaded' /\ HeadsLoaded' /\ SpanInv'
        /\ CopiesMeant' /\ CopiedLines' /\ Proved' /\ TraceInv'
    BY <1>1, <1>2, <1>5, <2>1, <2>3, <2>4, Returned
  <2> QED
    BY <1>1, <2>2, <2>5
<1>7. CASE CommitFrame(trace, copy, Committed, 0, TRUE)
  <2>1. /\ shown' = [gen |-> got.genNow, count |-> got.count, committed |-> Committed]
        /\ committed'.in = {} /\ committed'.out = {} /\ described' = {}
    BY <1>3, <1>7 DEF CommitFrame
  <2>2. DescribedInv' /\ FrameIsOneSpan'
    BY <2>1 DEF DescribedInv, FrameIsOneSpan
  <2>3. \A r \in Rings : shown'.gen[r] <= gen[r]
    BY <1>4, <2>1
  <2>4. \A r \in Rings : \A x \in trace'[r] : OfShown(x)'
    BY <1>2, <1>3
  <2>5. shown' \in [gen : [Rings -> Nat], count : [Rings -> Nat], committed : Nat] /\ described' \in SUBSET Nat
    BY <2>1, GotFacts, CommittedIs
  <2>6. /\ TickType' /\ Bounds' /\ PairLoaded' /\ CountsLoaded' /\ HeadsLoaded' /\ SpanInv'
        /\ CopiesMeant' /\ CopiedLines' /\ Proved' /\ TraceInv'
    BY <1>1, <1>2, <1>5, <2>3, <2>4, <2>5, Returned
  <2> QED
    BY <1>1, <2>2, <2>6
<1> QED
  BY <1>6, <1>7 DEF Blank

LEMMA CommitStep ==
    ASSUME ScopeInv, Commit
    PROVE  ScopeInv'
<1> DEFINE moved == {r \in Rings : got.genNow[r] # got.gen[r]}
           tr == FlooredBoth(moved)
           g == got.gen["in"]
<1>1. /\ WriteType' /\ WriterInv' /\ SlotInv' /\ gen' = gen /\ epoch' = epoch /\ prepared' = prepared
      /\ Line' = Line
  <2>1. UNCHANGED writeVars
    BY DEF Commit
  <2> QED
    BY <2>1, WriterStays DEF ScopeInv
<1>2. /\ load = 20 /\ Return /\ trace' = tr
      /\ \/ /\ ConfigurationHeld
            /\ CommitFrame(tr, copy, First, got.span, SeenReset \union moved # {})
         \/ UNCHANGED shownVars
  BY DEF Commit
<1>3. TickType /\ Bounds /\ Proved /\ TraceInv /\ DescribedInv /\ FrameIsOneSpan /\ WriteType
  BY DEF ScopeInv
<1>4. ASSUME NEW r \in Rings
      PROVE  /\ shown.gen[r] \in Nat /\ got.gen[r] \in Nat /\ gen[r] \in Nat
             /\ shown.gen[r] <= got.gen[r] /\ got.gen[r] <= gen[r] /\ got.genNow[r] <= gen[r]
  BY <1>2, <1>3, GenOrder
<1>5. tr = [r \in Rings |-> IF moved # {} THEN {} ELSE trace[r]]
  BY DEF FlooredBoth
<1>6. moved = {} => HeldLast /\ (\A r \in Rings : got.genNow[r] = got.gen[r])
  <2>1. \A r \in Rings : GenLast(r) = got.genNow[r]
    <3>1. ASSUME NEW r \in Rings  PROVE load > 17 + Nth(r)
      <4>1. Nth(r) \in {0, 1}
        BY DEF Nth
      <4> QED
        BY <1>2, <4>1
    <3> QED
      BY <3>1 DEF GenLast
  <2> QED
    BY <2>1 DEF HeldLast
<1>7. moved = {} => \A r \in Rings : tr[r] = IF got.span = 0 THEN {} ELSE {g}
  <2>1. load \in 17..20
    BY <1>2
  <2> QED
    BY <1>3, <1>5, <1>6, <2>1 DEF TraceInv
<1>8. moved # {} => \A r \in Rings : tr[r] = {}
  BY <1>5
<1>9. moved = {} /\ got.span > 0 =>
         /\ g = got.gen["out"] /\ g \in 1..Line
         /\ PairLast => /\ got.rate = prepared[g].rate
                        /\ \A r \in Rings : copy[r] =
                              [i \in 1..got.span |-> [line |-> g, n |-> First + i - 1]]
  <2>1. load \in 17..20
    BY <1>2
  <2> QED
    BY <1>3, <1>6, <2>1 DEF Proved
<1>10. got.span \in Nat /\ g \in Nat /\ Line \in Nat
  BY <1>3, GotFacts, GotNumbers, WriteFacts DEF Rings
<1>11. ASSUME NEW r \in Rings, NEW x \in tr[r]
       PROVE  moved = {} /\ got.span > 0 /\ x = g /\ x = got.gen["out"] /\ x \in Nat
  <2>1. moved = {}
    BY <1>8, <1>11
  <2>2. got.span # 0 /\ x = g
    BY <1>7, <1>11, <2>1
  <2>3. got.span > 0
    BY <1>10, <2>2
  <2> QED
    BY <1>9, <1>10, <2>1, <2>2, <2>3
<1>12. trace' \in [Rings -> SUBSET Nat]
  <2>1. \A r \in Rings : tr[r] \in SUBSET Nat
    BY <1>11
  <2> QED
    BY <1>2, <1>5, <2>1
<1> HIDE DEF moved, tr, g
<1>13. CASE UNCHANGED shownVars
  <2>1. shown' = shown /\ committed' = committed /\ described' = described
    BY <1>13 DEF shownVars
  <2>2. DescribedInv' /\ FrameIsOneSpan'
    BY <1>1, <1>3, <2>1 DEF DescribedInv, OfShown, FrameIsOneSpan
  <2>3. \A r \in Rings : shown'.gen[r] <= gen[r]
    BY <1>4, <2>1
  <2>4. ASSUME NEW r \in Rings
        PROVE  \/ \A x \in trace'[r] : OfShown(x)'
               \/ \E q \in Rings : gen[q] # shown'.gen[q]
    <3>1. CASE \E q \in Rings : gen[q] # shown.gen[q]
      BY <2>1, <3>1
    <3>2. CASE \A q \in Rings : gen[q] = shown.gen[q]
      <4>1. ASSUME NEW q \in Rings  PROVE got.gen[q] = shown.gen[q]
        BY <1>4, <3>2
      <4>2. ASSUME NEW x \in tr[r]  PROVE x = shown.gen["in"] /\ x = shown.gen["out"]
        BY <1>11, <4>1 DEF Rings, g
      <4> QED
        BY <1>2, <2>1, <4>2 DEF OfShown
    <3> QED
      BY <3>1, <3>2
  <2>5. /\ shown' \in [gen : [Rings -> Nat], count : [Rings -> Nat], committed : Nat]
        /\ described' \in SUBSET Nat
    BY <1>3, <2>1 DEF TickType
  <2>6. /\ TickType' /\ Bounds' /\ PairLoaded' /\ CountsLoaded' /\ HeadsLoaded' /\ SpanInv'
        /\ CopiesMeant' /\ CopiedLines' /\ Proved' /\ TraceInv'
    BY <1>1, <1>2, <1>3, <1>12, <2>3, <2>4, <2>5, Returned
  <2> QED
    BY <1>1, <2>2, <2>6 DEF ScopeInv
<1>14. CASE ConfigurationHeld /\ CommitFrame(tr, copy, First, got.span, SeenReset \union moved # {})
  <2>1. /\ shown' = [gen |-> got.genNow, count |-> got.count, committed |-> Committed]
        /\ committed' = [in |-> tr["in"], out |-> tr["out"], windows |-> copy,
                         first |-> First, span |-> got.span, rate |-> got.rate]
        /\ described' = tr["in"] \union tr["out"] \union
                           IF SeenReset \union moved # {} THEN {} ELSE described
    BY <1>14 DEF CommitFrame
  <2>2. shown'.gen = got.genNow
    BY <2>1
  <2>3. ASSUME NEW r \in Rings, NEW x \in tr[r]  PROVE OfShown(x)'
    <3>1. got.genNow["in"] = got.gen["in"] /\ got.genNow["out"] = got.gen["out"]
      BY <1>6, <1>11, <2>3 DEF Rings
    <3>2. x = got.gen["in"] /\ x = got.gen["out"]
      BY <1>11, <2>3 DEF g
    <3> QED
      BY <2>2, <3>1, <3>2 DEF OfShown
  <2>4. DescribedInv'
    <3>1. ASSUME SeenReset \union moved = {}, NEW x \in described  PROVE OfShown(x)'
      <4>1. moved = {} /\ SeenReset = {}
        BY <3>1
      <4>2. \A r \in Rings : got.genNow[r] = got.gen[r] /\ got.gen[r] = shown.gen[r]
        BY <1>6, <4>1 DEF SeenReset, ResetObserved
      <4>3. x = shown.gen["in"] /\ x = shown.gen["out"]
        BY <1>3, <3>1 DEF DescribedInv, OfShown
      <4> QED
        BY <2>2, <4>2, <4>3 DEF OfShown, Rings
    <3>2. ASSUME NEW x \in described'  PROVE OfShown(x)'
      <4>1. x \in tr["in"] \/ x \in tr["out"] \/ (SeenReset \union moved = {} /\ x \in described)
        BY <2>1, <3>2
      <4> QED
        BY <2>3, <3>1, <4>1 DEF Rings
    <3> QED
      BY <3>2 DEF DescribedInv
  <2>5. FrameIsOneSpan'
    <3>1. \A l, m \in described' : l = m
      BY <2>4 DEF DescribedInv, OfShown
    <3>2. ASSUME committed'.in \union committed'.out # {}
          PROVE  /\ g \in 1..Line /\ committed'.in = {g} /\ committed'.out = {g}
                 /\ \A r \in Rings : committed'.windows[r] =
                       [i \in 1..committed'.span |-> [line |-> g, n |-> committed'.first + i - 1]]
                 /\ committed'.rate = prepared[g].rate
      <4>1. /\ committed'.in = tr["in"] /\ committed'.out = tr["out"] /\ committed'.windows = copy
            /\ committed'.first = First /\ committed'.span = got.span /\ committed'.rate = got.rate
        BY <2>1
      <4>2. moved = {} /\ got.span > 0
        BY <1>11, <3>2, <4>1 DEF Rings
      <4>3. PairLast
        BY <1>2, <1>14 DEF PairLast, ConfigurationHeld
      <4>4. /\ g \in 1..Line /\ got.rate = prepared[g].rate
            /\ \A r \in Rings : copy[r] = [i \in 1..got.span |-> [line |-> g, n |-> First + i - 1]]
        BY <1>9, <4>2, <4>3
      <4>5. tr["in"] = {g} /\ tr["out"] = {g}
        <5>1. got.span # 0
          BY <4>2
        <5> QED
          BY <1>7, <4>2, <5>1 DEF Rings
      <4> QED
        BY <4>1, <4>4, <4>5
    <3> QED
      BY <1>1, <3>1, <3>2 DEF FrameIsOneSpan
  <2>6. \A r \in Rings : shown'.gen[r] <= gen[r]
    BY <1>4, <2>2
  <2>7. \A r \in Rings : \A x \in trace'[r] : OfShown(x)'
    BY <1>2, <2>3
  <2>8. shown' \in [gen : [Rings -> Nat], count : [Rings -> Nat], committed : Nat]
    BY <1>3, <2>1, GotFacts, CommittedIs
  <2>9. described' \in SUBSET Nat
    <3>1. described \in SUBSET Nat
      BY <1>3 DEF TickType
    <3>2. tr["in"] \in SUBSET Nat /\ tr["out"] \in SUBSET Nat
      BY <1>11 DEF Rings
    <3> QED
      BY <2>1, <3>1, <3>2
  <2>10. /\ TickType' /\ Bounds' /\ PairLoaded' /\ CountsLoaded' /\ HeadsLoaded' /\ SpanInv'
         /\ CopiesMeant' /\ CopiedLines' /\ Proved' /\ TraceInv'
    BY <1>1, <1>2, <1>3, <1>12, <2>6, <2>7, <2>8, <2>9, Returned
  <2> QED
    BY <1>1, <2>4, <2>5, <2>10 DEF ScopeInv
<1> QED
  BY <1>2, <1>13, <1>14

LEMMA SpanIs ==
    ASSUME TickType
    PROVE  Span \in Nat /\ Span <= Committed
<1>1. Committed \in Nat /\ got.block \in Nat /\ Capacity \in Nat /\ Window \in Nat
      /\ got.floor["in"] \in Nat /\ got.floor["out"] \in Nat
  BY CommittedIs, GotFacts, GotNumbers, Constants DEF Rings
<1> DEFINE f == ReservedFloor(got.floor["in"])
           h == ReservedFloor(got.floor["out"])
<1>2. f \in Nat /\ h \in Nat
  BY <1>1 DEF ReservedFloor, AtLeast, AtMost
<1> HIDE DEF f, h
<1>3. PairFloor \in Nat
  <2>1. AtLeast(f, h) \in Nat
    BY <1>2 DEF AtLeast
  <2> QED
    BY <2>1 DEF PairFloor, f, h
<1> QED
  BY <1>1, <1>3 DEF Span, AtMost

LEMMA ChooseStep ==
    ASSUME ScopeInv, Choose
    PROVE  ScopeInv'
<1> DEFINE idle  == Committed = shown.committed /\ got.gen = shown.gen
           empty == Span = 0 /\ Committed > 0
<1>1. /\ WriteType' /\ WriterInv' /\ SlotInv' /\ write' = write /\ gen' = gen /\ epoch' = epoch
      /\ published' = published /\ prepared' = prepared /\ job' = job /\ Line' = Line
  <2>1. UNCHANGED writeVars
    BY DEF Choose
  <2> QED
    BY <2>1, WriterStays DEF ScopeInv
<1>2. load = 9 /\ shown' = shown /\ committed' = committed /\ described' = described
  BY DEF Choose, shownVars
<1>3. TickType /\ Bounds /\ TraceInv /\ DescribedInv /\ FrameIsOneSpan /\ WriteType
  BY DEF ScopeInv
<1>4. DescribedInv' /\ FrameIsOneSpan'
  BY <1>1, <1>2, <1>3 DEF DescribedInv, OfShown, FrameIsOneSpan
<1>5. /\ trace \in [Rings -> SUBSET Nat] /\ copy \in [Rings -> Seq(Frame)]
      /\ shown \in [gen : [Rings -> Nat], count : [Rings -> Nat], committed : Nat]
      /\ described \in SUBSET Nat
  BY <1>3 DEF TickType
<1>6. FlooredBoth(SeenReset) = [r \in Rings |-> IF SeenReset # {} THEN {} ELSE trace[r]]
  BY DEF FlooredBoth
<1>7. SeenReset = {} => FlooredBoth(SeenReset) = trace /\ \A r \in Rings : got.gen[r] = shown.gen[r]
  <2>1. SeenReset = {} => \A r \in Rings : got.gen[r] = shown.gen[r]
    BY DEF SeenReset, ResetObserved
  <2>2. SeenReset = {} => FlooredBoth(SeenReset) = [r \in Rings |-> trace[r]]
    BY <1>6
  <2> QED
    BY <1>5, <2>1, <2>2
<1>8. (\A r \in Rings : got.gen[r] = shown.gen[r]) => \A r \in Rings : \A x \in trace[r] : OfShown(x)
  <2>1. \A q \in Rings : GenSoFar(q) = got.gen[q]
    <3>1. ASSUME NEW q \in Rings  PROVE load > 2 + Nth(q)
      <4>1. Nth(q) \in {0, 1}
        BY DEF Nth
      <4> QED
        BY <1>2, <4>1
    <3> QED
      BY <3>1 DEF GenSoFar
  <2>2. load \in 0..9
    BY <1>2
  <2> QED
    BY <1>3, <2>1, <2>2 DEF TraceInv
<1>9. CASE idle \/ (empty /\ SeenReset = {})
  <2>1. Return /\ trace' = trace /\ \A r \in Rings : got.gen[r] = shown.gen[r]
    BY <1>7, <1>9 DEF Choose
  <2>2. \A r \in Rings : \A x \in trace'[r] : OfShown(x)'
    BY <1>2, <1>8, <2>1 DEF OfShown
  <2>3. \A r \in Rings : shown'.gen[r] <= gen[r]
    BY <1>2, <1>3 DEF Bounds
  <2>4. /\ trace' \in [Rings -> SUBSET Nat] /\ described' \in SUBSET Nat
        /\ shown' \in [gen : [Rings -> Nat], count : [Rings -> Nat], committed : Nat]
    BY <1>2, <1>5, <2>1
  <2>5. /\ TickType' /\ Bounds' /\ PairLoaded' /\ CountsLoaded' /\ HeadsLoaded' /\ SpanInv'
        /\ CopiesMeant' /\ CopiedLines' /\ Proved' /\ TraceInv'
    BY <1>1, <1>3, <2>1, <2>2, <2>3, <2>4, Returned
  <2> QED
    BY <1>1, <1>4, <2>5 DEF ScopeInv
<1>10. CASE ~(idle \/ (empty /\ SeenReset = {}))
  <2>1. /\ trace' = FlooredBoth(SeenReset) /\ copy' = copy
        /\ load' = IF empty THEN 21 ELSE 10
        /\ got' = [got EXCEPT !.span = Span, !.floor = Both(0)]
    BY <1>10 DEF Choose
  <2>2. /\ got' \in GotType /\ got'.span = Span /\ got'.epoch = got.epoch /\ got'.gen = got.gen
        /\ got'.count = got.count /\ got'.rate = got.rate /\ got'.block = got.block
        /\ got'.genNow = got.genNow
    <3>1. got \in GotType /\ Both(0) \in [Rings -> Nat] /\ Span \in Nat
      BY <1>3, SpanIs DEF TickType, GotType, Both
    <3> QED
      BY <2>1, <3>1 DEF GotType
  <2>3. load' \in {10, 21} /\ (load' = 21 => SeenReset # {})
    BY <1>10, <2>1
  <2>4. /\ Committed' = Committed /\ (Held' <=> Held) /\ (HeldPair' <=> HeldPair)
        /\ Fresh' = Fresh /\ Reach' = Reach
    BY <1>1, <2>2 DEF Committed, Held, HeldPair, Fresh, Reach
  <2>5. TickType'
    <3>1. load' \in 0..24 /\ copy' \in [Rings -> Seq(Frame)]
      BY <1>5, <2>1, <2>3
    <3>2. trace' \in [Rings -> SUBSET Nat]
      BY <1>5, <1>6, <2>1
    <3> QED
      BY <1>2, <1>5, <2>2, <3>1, <3>2 DEF TickType, GotType
  <2>6. Bounds'
    <3>1. \A r \in Rings : shown.gen[r] <= got.gen[r]
      BY <1>2, <1>3, GenOrder
    <3> QED
      BY <1>1, <1>2, <1>3, <2>2, <3>1 DEF Bounds
  <2>7. PairLoaded'
    <3>1. load \in 2..16 /\ load \in 7..16
      BY <1>2
    <3> QED
      BY <1>1, <2>2, <2>4, <3>1 DEF PairLoaded, ScopeInv
  <2>8. CountsLoaded'
    <3>1. load \in 5..16 /\ load \in 6..16
      BY <1>2
    <3>2. CountsLoaded
      BY DEF ScopeInv
    <3> QED
      BY <1>1, <2>2, <2>4, <3>1, <3>2 DEF CountsLoaded
  <2>9. /\ load' # 11 /\ load' # 13 /\ load' \notin 12..14 /\ load' # 15
        /\ load' \notin 14..15 /\ load' # 16 /\ load' \notin 12..16 /\ load' \notin 14..16
        /\ load' \notin 17..20 /\ load' \notin 0..9
    BY <2>3
  <2>10. HeadsLoaded' /\ CopiesMeant' /\ CopiedLines' /\ Proved'
    BY <2>9 DEF HeadsLoaded, CopiesMeant, CopiedLines, Proved
  <2>11. SpanInv'
    BY <1>3, <2>2, <2>4, SpanIs DEF SpanInv
  <2>12. ASSUME NEW r \in Rings
         PROVE  (\A x \in trace'[r] : OfLoaded(x)') /\ (load' \in 21..24 => trace'[r] = {})
    <3>1. CASE SeenReset # {}
      <4>1. trace'[r] = {}
        BY <1>6, <2>1, <3>1
      <4> QED
        BY <4>1
    <3>2. CASE SeenReset = {}
      <4>1. load' = 10 /\ trace'[r] = trace[r]
        BY <1>7, <2>1, <2>3, <3>2
      <4>2. \A x \in trace[r] : OfShown(x)
        BY <1>7, <1>8, <3>2
      <4>3. got'.gen["in"] = shown.gen["in"] /\ got'.gen["out"] = shown.gen["out"]
        BY <1>7, <2>2, <3>2 DEF Rings
      <4>4. load' \notin 21..24
        BY <4>1
      <4> QED
        BY <4>1, <4>2, <4>3, <4>4 DEF OfShown, OfLoaded
    <3> QED
      BY <3>1, <3>2
  <2>13. TraceInv'
    BY <2>9, <2>12 DEF TraceInv
  <2> QED
    BY <1>1, <1>4, <2>5, <2>6, <2>7, <2>8, <2>10, <2>11, <2>13 DEF ScopeInv
<1> QED
  BY <1>9, <1>10

\* What a copy takes: up to the head loaded and to the frame committed, and if
\* it is as long as the span, the span.
LEMMA WindowIs ==
    ASSUME WriteType, TickType, NEW r \in Rings, CopyWindow(r)
    PROVE  \E from \in Nat, len \in Nat :
              /\ copy' = [copy EXCEPT ![r] = [i \in 1..len |-> slot[r][(from + i - 1) % Capacity]]]
              /\ len > 0 => from + len <= Committed /\ from + len <= got.head[r]
              /\ (len > 0 /\ len = got.span /\ Committed <= got.head[r]) => from = First
<1> DEFINE head == got.head[r]
           end  == AtMost(Committed, head)
           low  == AtLeast(0, head - Capacity)
           from == AtLeast(AtLeast(0, end - got.span), low)
           len  == AtLeast(0, end - from)
<1>1. copy' = [copy EXCEPT ![r] = [i \in 1..len |-> slot[r][(from + i - 1) % Capacity]]]
  BY DEF CopyWindow
<1>2. head \in Nat /\ Committed \in Nat /\ got.span \in Nat /\ Capacity \in Nat
  BY GotNumbers, CommittedIs, GotFacts, Constants
<1>3. end \in Nat /\ end <= Committed /\ end <= head
  BY <1>2 DEF AtMost
<1>4. low \in Nat
  BY <1>2 DEF AtLeast
<1> HIDE DEF head, end, low
<1>5. /\ from \in Nat /\ len \in Nat /\ (len > 0 => from + len = end)
      /\ from >= end - got.span
  BY <1>2, <1>3, <1>4 DEF AtLeast
<1> HIDE DEF from, len
<1>6. len > 0 => from + len <= Committed /\ from + len <= got.head[r]
  <2>1. got.head[r] = head
    BY DEF head
  <2> QED
    BY <1>2, <1>3, <1>5, <2>1
<1>7. ASSUME len > 0, len = got.span, Committed <= got.head[r]  PROVE from = First
  <2>1. end = Committed
    BY <1>2, <1>7 DEF end, head, AtMost
  <2> QED
    BY <1>2, <1>3, <1>5, <1>7, <2>1 DEF First
<1> QED
  BY <1>1, <1>5, <1>6, <1>7

\* A payload reaches at least as far as a head loaded from its ring.
LEMMA ReachExtent ==
    ASSUME WriteType, WriterInv
    PROVE  /\ Extent("in") \in Nat /\ Extent("out") \in Nat /\ Reach \in Nat
           /\ Reach <= Extent("in") /\ write["out"] <= Extent("out")
<1>1. /\ write["in"] \in Nat /\ write["out"] \in Nat /\ job.end \in Nat
  BY WriteFacts
<1>2. /\ job.at = "publish in" => write["in"] = write["out"] /\ write["out"] < job.end
      /\ job.at = "publish out" => write["out"] < job.end
  BY DEF WriterInv, Pushing
<1>3. \/ Extent("in") = job.end /\ Reach = write["in"] /\ write["in"] = write["out"] /\ write["out"] < job.end
      \/ Extent("in") = Reach
  BY <1>2 DEF Extent, Reach
<1>4. \/ Extent("out") = job.end /\ write["out"] < job.end
      \/ Extent("out") = write["out"]
  BY <1>2 DEF Extent
<1>5. Reach \in Nat
  BY <1>1 DEF Reach
<1> QED
  BY <1>1, <1>3, <1>4, <1>5

\* Entry n of a payload is frame n of the timeline, or a later one of it.
LEMMA SlotFrame ==
    ASSUME WriteType, WriterInv, SlotInv, NEW r \in Rings, NEW n \in Nat, n < Extent(r)
    PROVE  /\ slot[r][n % Capacity].line = gen[r]
           /\ slot[r][n % Capacity] = [line |-> gen[r], n |-> n] \/ n + Capacity < Extent(r)
<1>1. Capacity \in Nat \ {0} /\ Extent(r) \in Nat
  BY Constants, ReachExtent DEF Rings
<1>2. Holds(slot[r], gen[r], Extent(r))
  BY DEF SlotInv
<1>3. n % Capacity \in 0..(Capacity - 1) /\ n % Capacity <= n
  BY <1>1, Small
<1>4. n % Capacity < Extent(r)
  <2>1. n % Capacity \in Int
    BY <1>3
  <2> QED
    BY <1>1, <1>3, <2>1
<1>5. slot[r][n % Capacity].line = gen[r]
  BY <1>2, <1>3, <1>4 DEF Holds
<1>6. ASSUME ~(n + Capacity < Extent(r))  PROVE slot[r][n % Capacity] = [line |-> gen[r], n |-> n]
  <2>1. n \in (Extent(r) - Capacity)..(Extent(r) - 1) /\ n >= 0
    BY <1>1, <1>6
  <2> QED
    BY <1>2, <2>1 DEF Holds
<1> QED
  BY <1>5, <1>6

\* The window copied while its timeline is held.
LEMMA WindowMeant ==
    ASSUME WriteType, WriterInv, SlotInv, TickType, CountsLoaded, HeadsLoaded, SpanInv,
           NEW r \in Rings, CopyWindow(r), Held, got.span > 0
    PROVE  /\ \A i \in DOMAIN copy'[r] : copy'[r][i].line = got.gen["in"]
           /\ Len(copy'[r]) = got.span =>
                \A i \in 1..got.span : \/ copy'[r][i] = [line |-> got.gen["in"], n |-> First + i - 1]
                                       \/ First + i - 1 + Capacity < Extent(r)
<1>1. load = 11 + 2 * Nth(r)
  BY DEF CopyWindow, At
<1>2. load \in {11, 13} /\ (load = 11 <=> r = "in") /\ (load = 13 <=> r = "out")
  BY <1>1 DEF Nth, Rings
<1>3. Committed \in Nat /\ got.span \in Nat /\ got.count["in"] \in Nat /\ got.count["out"] \in Nat
      /\ Committed <= got.count["in"] /\ Committed <= got.count["out"] /\ got.head[r] \in Nat
  BY CommittedIs, GotFacts, GotNumbers DEF Rings
<1>4. Committed > 0
  <2>1. got.span <= Committed
    BY <1>2 DEF SpanInv
  <2> QED
    BY <1>3, <2>1
<1>5. /\ got.gen["in"] = gen["in"] /\ gen["in"] = gen["out"]
      /\ got.gen["in"] = gen[r]
  <2>1. load \in 6..16
    BY <1>2
  <2>2. got.gen["in"] = gen["in"] /\ gen["in"] = gen["out"]
    BY <1>4, <2>1, SpanIsFresh
  <2> QED
    BY <2>2 DEF Rings
<1>6. Extent(r) \in Nat /\ got.head[r] <= Extent(r) /\ (got.head[r] = 0 \/ Committed <= got.head[r])
  <2>1. CASE r = "in"
    <3>1. got.head["in"] <= Reach /\ (got.head["in"] = 0 \/ got.count["in"] <= got.head["in"])
      BY <1>2, <1>4, <2>1 DEF HeadsLoaded
    <3>2. Reach \in Nat /\ Extent("in") \in Nat /\ Reach <= Extent("in")
      BY ReachExtent
    <3> QED
      BY <1>3, <2>1, <3>1, <3>2
  <2>2. CASE r = "out"
    <3>1. got.head["out"] <= write["out"] /\ got.count["out"] <= got.head["out"]
      BY <1>2, <1>4, <2>2 DEF HeadsLoaded
    <3>2. write["out"] \in Nat /\ Extent("out") \in Nat /\ write["out"] <= Extent("out")
      BY ReachExtent, WriteFacts
    <3> QED
      BY <1>3, <2>2, <3>1, <3>2
  <2> QED
    BY <2>1, <2>2 DEF Rings
<1>7. PICK from \in Nat, len \in Nat :
              /\ copy' = [copy EXCEPT ![r] = [i \in 1..len |-> slot[r][(from + i - 1) % Capacity]]]
              /\ len > 0 => from + len <= Committed /\ from + len <= got.head[r]
              /\ (len > 0 /\ len = got.span /\ Committed <= got.head[r]) => from = First
  BY WindowIs
<1>8. copy'[r] = [i \in 1..len |-> slot[r][(from + i - 1) % Capacity]]
  <2>1. copy \in [Rings -> Seq(Frame)]
    BY DEF TickType
  <2> QED
    BY <1>7, <2>1
<1>9. DOMAIN copy'[r] = 1..len /\ Len(copy'[r]) = len
      /\ \A i \in 1..len : copy'[r][i] = slot[r][(from + i - 1) % Capacity]
  BY <1>8
<1>10. ASSUME NEW i \in 1..len
       PROVE  /\ copy'[r][i].line = got.gen["in"]
              /\ \/ copy'[r][i] = [line |-> got.gen["in"], n |-> from + i - 1]
                 \/ from + i - 1 + Capacity < Extent(r)
  <2> DEFINE n == from + i - 1
  <2>1. n \in Nat /\ n < Extent(r)
    BY <1>3, <1>6, <1>7
  <2>2. copy'[r][i] = slot[r][n % Capacity]
    BY <1>9
  <2> HIDE DEF n
  <2>3. /\ slot[r][n % Capacity].line = gen[r]
        /\ slot[r][n % Capacity] = [line |-> gen[r], n |-> n] \/ n + Capacity < Extent(r)
    BY <2>1, SlotFrame
  <2>4. /\ copy'[r][i].line = got.gen["in"]
        /\ copy'[r][i] = [line |-> got.gen["in"], n |-> n] \/ n + Capacity < Extent(r)
    BY <1>5, <2>2, <2>3
  <2> QED
    BY <2>4 DEF n
<1>11. ASSUME len = got.span  PROVE from = First
  <2>1. Committed <= got.head[r]
    BY <1>3, <1>6, <1>7, <1>11
  <2> QED
    BY <1>3, <1>7, <1>11, <2>1
<1> QED
  BY <1>9, <1>10, <1>11

LEMMA CopyStep ==
    ASSUME ScopeInv, NEW r \in Rings, CopyWindow(r)
    PROVE  ScopeInv'
<1>1. /\ WriteType' /\ WriterInv' /\ SlotInv' /\ write' = write /\ gen' = gen /\ slot' = slot
      /\ epoch' = epoch /\ published' = published /\ prepared' = prepared /\ job' = job
      /\ Line' = Line
  <2>1. UNCHANGED writeVars
    BY DEF CopyWindow
  <2> QED
    BY <2>1, WriterStays DEF ScopeInv
<1>2. /\ shown' = shown /\ committed' = committed /\ described' = described /\ trace' = trace
      /\ load' = load + 1 /\ load = 11 + 2 * Nth(r) /\ got' = [got EXCEPT !.head[r] = 0]
  BY DEF CopyWindow, shownVars, At
<1>3. load \in {11, 13} /\ (load = 11 <=> r = "in") /\ (load = 13 <=> r = "out")
  BY <1>2 DEF Nth, Rings
<1>4. /\ WriteType /\ WriterInv /\ SlotInv /\ TickType /\ CountsLoaded /\ HeadsLoaded /\ SpanInv
      /\ Bounds /\ TraceInv /\ PairLoaded /\ CopiesMeant /\ CopiedLines
      /\ DescribedInv /\ FrameIsOneSpan
  BY DEF ScopeInv
<1>5. DescribedInv' /\ FrameIsOneSpan'
  BY <1>1, <1>2, <1>4 DEF DescribedInv, OfShown, FrameIsOneSpan
<1>6. /\ got' \in GotType /\ got'.span = got.span /\ got'.epoch = got.epoch /\ got'.gen = got.gen
      /\ got'.count = got.count /\ got'.rate = got.rate /\ got'.block = got.block
      /\ got'.genNow = got.genNow
  <2>1. got \in GotType /\ [got.head EXCEPT ![r] = 0] \in [Rings -> Nat]
    BY <1>4, GotFacts DEF TickType, GotType
  <2>2. got' = [got EXCEPT !.head = [got.head EXCEPT ![r] = 0]]
    BY <1>2
  <2> QED
    BY <2>1, <2>2 DEF GotType
<1>7. /\ Committed' = Committed /\ (Held' <=> Held) /\ (HeldPair' <=> HeldPair)
      /\ Fresh' = Fresh /\ Reach' = Reach /\ First' = First
      /\ Extent("in")' = Extent("in") /\ Extent("out")' = Extent("out")
  BY <1>1, <1>6 DEF Committed, Held, HeldPair, Fresh, Reach, First, Extent
<1>8. PICK from \in Nat, len \in Nat :
         copy' = [copy EXCEPT ![r] = [i \in 1..len |-> slot[r][(from + i - 1) % Capacity]]]
  BY <1>4, WindowIs
<1>9. copy \in [Rings -> Seq(Frame)] /\ copy' \in [Rings -> Seq(Frame)]
      /\ \A q \in Rings : q # r => copy'[q] = copy[q]
  <2>1. copy \in [Rings -> Seq(Frame)]
    BY <1>4 DEF TickType
  <2>2. ASSUME NEW i \in 1..len  PROVE slot[r][(from + i - 1) % Capacity] \in Frame
    <3>1. from + i - 1 \in Nat /\ Capacity \in Nat \ {0}
      BY Constants
    <3> DEFINE n == from + i - 1
    <3>2. n % Capacity \in 0..(Capacity - 1)
      BY <3>1, Small
    <3>3. slot[r] \in [0..(Capacity - 1) -> Frame]
      BY <1>4 DEF WriteType
    <3> QED
      BY <3>2, <3>3
  <2> DEFINE w == [i \in 1..len |-> slot[r][(from + i - 1) % Capacity]]
  <2>3. w \in Seq(Frame)
    BY <2>2
  <2> HIDE DEF w
  <2>4. copy' = [copy EXCEPT ![r] = w]
    BY <1>8 DEF w
  <2> QED
    BY <2>1, <2>3, <2>4
<1>10. TickType'
  <2>1. load' \in 0..24
    BY <1>2, <1>3
  <2>2. /\ trace \in [Rings -> SUBSET Nat] /\ described \in SUBSET Nat
        /\ shown \in [gen : [Rings -> Nat], count : [Rings -> Nat], committed : Nat]
    BY <1>4 DEF TickType
  <2> QED
    BY <1>2, <1>6, <1>9, <2>1, <2>2 DEF TickType, GotType
<1>11. Bounds'
  <2>1. load \in 9..24
    BY <1>3
  <2>2. \A q \in Rings : shown.gen[q] <= got.gen[q]
    BY <1>4, <2>1, GenOrder
  <2> QED
    BY <1>1, <1>2, <1>4, <1>6, <2>2 DEF Bounds
<1>12. /\ load \in 2..16 /\ load \in 7..16 /\ load \in 5..16 /\ load \in 6..16 /\ load \in 10..20
       /\ load \in 10..16 /\ load' \in {12, 14} /\ (load' = 12 <=> r = "in") /\ (load' = 14 <=> r = "out")
  BY <1>2, <1>3
<1>13. /\ load' # 11 /\ load' # 13 /\ load' # 15 /\ load' # 16
       /\ load' \notin 17..20 /\ load' \notin 0..9 /\ load' \notin 21..24
  BY <1>12
<1>14. PairLoaded' /\ SpanInv'
  BY <1>1, <1>4, <1>6, <1>7, <1>12 DEF PairLoaded, SpanInv
<1>15. CountsLoaded'
  BY <1>1, <1>4, <1>6, <1>7, <1>12 DEF CountsLoaded
<1>16. HeadsLoaded' /\ Proved'
  BY <1>13 DEF HeadsLoaded, Proved
<1>17. TraceInv'
  <2>1. \A q \in Rings : \A x \in trace'[q] : OfLoaded(x)'
    BY <1>2, <1>4, <1>6, <1>12 DEF TraceInv, OfLoaded
  <2> QED
    BY <1>13, <2>1 DEF TraceInv
<1>18. ASSUME Held, got.span > 0
       PROVE  /\ \A i \in DOMAIN copy'[r] : copy'[r][i].line = got.gen["in"]
              /\ Len(copy'[r]) = got.span =>
                \A i \in 1..got.span : \/ copy'[r][i] = [line |-> got.gen["in"], n |-> First + i - 1]
                                       \/ First + i - 1 + Capacity < Extent(r)
  BY <1>4, <1>18, WindowMeant
<1>19. CopiesMeant'
  <2> SUFFICES ASSUME Held', HeldPair', got'.span > 0
               PROVE  /\ Meant("in", Extent("in"))'
                      /\ load' = 14 => Meant("out", Extent("out"))'
    <3>1. (load' \in 12..14 \/ load' \in 14..15) => load' \in {12, 14}
      BY <1>12
    <3>2. load' \in 14..15 => load' = 14
      BY <1>12
    <3> QED
      BY <1>13, <3>2 DEF CopiesMeant
  <2>1. Held /\ HeldPair /\ got.span > 0
    BY <1>6, <1>7
  <2>2. CASE r = "in"
    BY <1>6, <1>7, <1>12, <1>18, <2>1, <2>2 DEF Meant
  <2>3. CASE r = "out"
    <3>1. load \in 12..14 /\ copy'["in"] = copy["in"]
      BY <1>3, <1>9, <2>3 DEF Rings
    <3>2. Meant("in", Extent("in"))
      BY <1>4, <2>1, <3>1 DEF CopiesMeant
    <3>3. Meant("in", Extent("in"))'
      BY <1>6, <1>7, <3>1, <3>2 DEF Meant
    <3>4. Meant("out", Extent("out"))'
      BY <1>6, <1>7, <1>18, <2>1, <2>3 DEF Meant
    <3> QED
      BY <3>3, <3>4
  <2> QED
    BY <2>2, <2>3 DEF Rings
<1>20. CopiedLines'
  <2> SUFFICES ASSUME Held', got'.span > 0
               PROVE  /\ \A i \in DOMAIN copy'["in"] : copy'["in"][i].line = got'.gen["in"]
                      /\ load' = 14 => \A i \in DOMAIN copy'["out"] : copy'["out"][i].line = got'.gen["in"]
    <3>1. load' \in 14..16 => load' = 14
      BY <1>12
    <3> QED
      BY <3>1 DEF CopiedLines
  <2>1. Held /\ got.span > 0
    BY <1>6, <1>7
  <2>2. CASE r = "in"
    BY <1>6, <1>12, <1>18, <2>1, <2>2
  <2>3. CASE r = "out"
    <3>1. load \in 12..16 /\ copy'["in"] = copy["in"]
      BY <1>3, <1>9, <2>3 DEF Rings
    <3> QED
      BY <1>4, <1>6, <1>18, <2>1, <2>3, <3>1 DEF CopiedLines
  <2> QED
    BY <2>2, <2>3 DEF Rings
<1> QED
  BY <1>1, <1>5, <1>10, <1>11, <1>14, <1>15, <1>16, <1>17, <1>19, <1>20 DEF ScopeInv

\* What the proof of a span shows of its windows: nothing was lapped.
LEMMA SpanIsExact ==
    ASSUME WriteType, WriterInv, TickType, PairLoaded, CountsLoaded, SpanInv, CopiesMeant,
           load = 16, OnePairOneSpan, Held, HeldPair, got.span > 0
    PROVE  /\ got.rate = prepared[got.gen["in"]].rate
           /\ \A r \in Rings : copy[r] =
                 [i \in 1..got.span |-> [line |-> got.gen["in"], n |-> First + i - 1]]
<1>1. /\ Committed \in Nat /\ got.span \in Nat /\ got.again["in"] \in Nat /\ got.again["out"] \in Nat
      /\ Reserved \in Nat /\ Capacity \in Nat
  BY CommittedIs, GotFacts, GotNumbers, ReservedIs, Constants DEF Rings
<1>2. got.span <= Committed /\ Committed > 0 /\ First \in Nat
  <2>1. got.span <= Committed
    BY DEF SpanInv
  <2> QED
    BY <1>1, <2>1 DEF First
<1>3. got.rate = prepared[got.gen["in"]].rate
  <2>1. load \in 6..16 /\ load \in 2..16
    OBVIOUS
  <2>2. got.rate = published.rate
    BY <2>1 DEF PairLoaded
  <2>3. published = prepared[gen["in"]] /\ got.gen["in"] = gen["in"]
    BY <1>2, <2>1, SpanIsFresh
  <2> QED
    BY <2>2, <2>3
<1>4. \A r \in Rings : Len(copy[r]) = got.span /\ ReservedFloor(got.again[r]) <= First
  BY DEF OnePairOneSpan
<1>5. /\ got.again["in"] + Reserved - Capacity <= First
      /\ got.again["out"] + Reserved - Capacity <= First
  <2> DEFINE a == got.again["in"] + Reserved - Capacity
             b == got.again["out"] + Reserved - Capacity
  <2>1. ReservedFloor(got.again["in"]) = AtLeast(0, a) /\ ReservedFloor(got.again["out"]) = AtLeast(0, b)
    BY DEF ReservedFloor, Reserved
  <2>2. AtLeast(0, a) <= First /\ AtLeast(0, b) <= First
    BY <1>4, <2>1 DEF Rings
  <2>3. a \in Int /\ b \in Int
    BY <1>1
  <2> HIDE DEF a, b
  <2>4. a <= First /\ b <= First
    BY <1>2, <2>2, <2>3 DEF AtLeast
  <2> QED
    BY <2>4 DEF a, b
<1>6. /\ Meant("in", AtLeast(got.again["in"], got.again["out"]) + Reserved)
      /\ Meant("out", got.again["out"] + Reserved)
  BY DEF CopiesMeant
<1>7. ASSUME NEW r \in Rings, NEW b \in Nat, Meant(r, b), b - Capacity <= First
      PROVE  copy[r] = [i \in 1..got.span |-> [line |-> got.gen["in"], n |-> First + i - 1]]
  <2>1. Len(copy[r]) = got.span /\ copy[r] \in Seq(Frame)
    BY <1>4 DEF TickType
  <2>2. copy[r] = [i \in 1..got.span |-> copy[r][i]]
    BY <2>1
  <2>3. ASSUME NEW i \in 1..got.span  PROVE copy[r][i] = [line |-> got.gen["in"], n |-> First + i - 1]
    <3>1. ~(First + i - 1 + Capacity < b)
      BY <1>1, <1>2, <1>7
    <3> QED
      BY <1>7, <2>1, <3>1 DEF Meant
  <2> QED
    BY <2>2, <2>3
<1>8. copy["in"] = [i \in 1..got.span |-> [line |-> got.gen["in"], n |-> First + i - 1]]
  <2> DEFINE b == AtLeast(got.again["in"], got.again["out"]) + Reserved
  <2>1. b \in Nat /\ b - Capacity <= First
    BY <1>1, <1>2, <1>5 DEF AtLeast
  <2>2. Meant("in", b)
    BY <1>6
  <2> HIDE DEF b
  <2> QED
    BY <1>7, <2>1, <2>2 DEF Rings
<1>9. copy["out"] = [i \in 1..got.span |-> [line |-> got.gen["in"], n |-> First + i - 1]]
  <2> DEFINE b == got.again["out"] + Reserved
  <2>1. b \in Nat /\ b - Capacity <= First
    BY <1>1, <1>5
  <2>2. Meant("out", b)
    BY <1>6
  <2> HIDE DEF b
  <2> QED
    BY <1>7, <2>1, <2>2 DEF Rings
<1> QED
  BY <1>3, <1>8, <1>9 DEF Rings

\* Of no timeline but the one loaded, once the windows are folded.
LEMMA AnalysedIs ==
    ASSUME TickType, TraceInv, CopiedLines, load = 16, OnePairOneSpan, Held, NEW r \in Rings
    PROVE  Analysed(r) = IF got.span = 0 THEN {} ELSE {got.gen["in"]}
<1>1. copy[r] \in Seq(Frame) /\ Len(copy[r]) = got.span /\ got.span \in Nat
  <2>1. copy[r] \in Seq(Frame)
    BY DEF TickType
  <2> QED
    BY <2>1, GotFacts DEF OnePairOneSpan
<1>2. CASE got.span = 0
  <2>1. copy[r] = <<>>
    BY <1>1, <1>2
  <2> QED
    BY <1>2, <2>1 DEF Analysed
<1>3. CASE got.span > 0
  <2>1. copy[r] # <<>> /\ DOMAIN copy[r] = 1..got.span /\ 1 \in DOMAIN copy[r]
    BY <1>1, <1>3
  <2>2. \A i \in DOMAIN copy[r] : copy[r][i].line = got.gen["in"]
    <3>1. load \in 12..16 /\ load \in 14..16
      OBVIOUS
    <3> QED
      BY <1>3, <3>1 DEF CopiedLines, Rings
  <2>3. \A x \in trace[r] : x = got.gen["in"]
    <3>1. load \in 10..16
      OBVIOUS
    <3> QED
      BY <3>1 DEF TraceInv, OfLoaded
  <2>4. Analysed(r) = trace[r] \union {copy[r][i].line : i \in DOMAIN copy[r]}
    BY <2>1 DEF Analysed
  <2>5. Analysed(r) = {got.gen["in"]}
    BY <2>1, <2>2, <2>3, <2>4
  <2> QED
    BY <1>3, <2>5
<1> QED
  BY <1>1, <1>2, <1>3

LEMMA ProveStep ==
    ASSUME ScopeInv, Prove
    PROVE  ScopeInv'
<1>1. /\ WriteType' /\ WriterInv' /\ SlotInv' /\ gen' = gen /\ epoch' = epoch /\ prepared' = prepared
      /\ Line' = Line
  <2>1. UNCHANGED writeVars
    BY DEF Prove
  <2> QED
    BY <2>1, WriterStays DEF ScopeInv
<1>2. load = 16 /\ shown' = shown /\ committed' = committed /\ described' = described
  BY DEF Prove, shownVars
<1>3. /\ WriteType /\ WriterInv /\ TickType /\ Bounds /\ PairLoaded /\ CountsLoaded /\ SpanInv
      /\ CopiesMeant /\ CopiedLines /\ TraceInv /\ DescribedInv /\ FrameIsOneSpan
  BY DEF ScopeInv
<1>4. DescribedInv' /\ FrameIsOneSpan'
  BY <1>1, <1>2, <1>3 DEF DescribedInv, OfShown, FrameIsOneSpan
<1>5. /\ trace \in [Rings -> SUBSET Nat] /\ copy \in [Rings -> Seq(Frame)]
      /\ shown \in [gen : [Rings -> Nat], count : [Rings -> Nat], committed : Nat]
      /\ described \in SUBSET Nat /\ got \in GotType
  BY <1>3 DEF TickType, GotType
<1>6. \A r \in Rings : /\ shown.gen[r] \in Nat /\ got.gen[r] \in Nat /\ gen[r] \in Nat
                       /\ shown.gen[r] <= got.gen[r] /\ got.gen[r] <= gen[r]
                       /\ got.genNow[r] <= gen[r]
  <2>1. load \in 9..24
    BY <1>2
  <2> QED
    BY <1>3, <2>1, GenOrder
<1>7. CASE ~OnePairOneSpan
  <2>1. Return /\ trace' = trace
    BY <1>7 DEF Prove
  <2>2. ASSUME NEW r \in Rings
        PROVE  \/ \A x \in trace'[r] : OfShown(x)'
               \/ \E q \in Rings : gen[q] # shown'.gen[q]
    <3>1. CASE \E q \in Rings : gen[q] # shown.gen[q]
      BY <1>2, <3>1
    <3>2. CASE \A q \in Rings : gen[q] = shown.gen[q]
      <4>1. got.gen["in"] = shown.gen["in"] /\ got.gen["out"] = shown.gen["out"]
        BY <1>6, <3>2 DEF Rings
      <4>2. \A x \in trace[r] : OfLoaded(x)
        <5>1. load \in 10..16
          BY <1>2
        <5> QED
          BY <1>3, <5>1 DEF TraceInv
      <4> QED
        BY <1>2, <2>1, <4>1, <4>2 DEF OfLoaded, OfShown
    <3> QED
      BY <3>1, <3>2
  <2>3. \A r \in Rings : shown'.gen[r] <= gen[r]
    BY <1>2, <1>3 DEF Bounds
  <2>4. /\ trace' \in [Rings -> SUBSET Nat] /\ described' \in SUBSET Nat
        /\ shown' \in [gen : [Rings -> Nat], count : [Rings -> Nat], committed : Nat]
    BY <1>2, <1>5, <2>1
  <2>5. /\ TickType' /\ Bounds' /\ PairLoaded' /\ CountsLoaded' /\ HeadsLoaded' /\ SpanInv'
        /\ CopiesMeant' /\ CopiedLines' /\ Proved' /\ TraceInv'
    BY <1>1, <1>3, <2>1, <2>2, <2>3, <2>4, Returned
  <2> QED
    BY <1>1, <1>4, <2>5 DEF ScopeInv
<1>8. CASE OnePairOneSpan
  <2>1. /\ load' = 17 /\ trace' = [r \in Rings |-> Analysed(r)] /\ copy' = copy
        /\ got' = [got EXCEPT !.block = 0, !.again = Both(0)]
    BY <1>8 DEF Prove
  <2>2. /\ got' \in GotType /\ got'.span = got.span /\ got'.epoch = got.epoch /\ got'.gen = got.gen
        /\ got'.count = got.count /\ got'.rate = got.rate /\ got'.genNow = got.genNow
    <3>1. Both(0) \in [Rings -> Nat]
      BY DEF Both
    <3> QED
      BY <1>5, <2>1, <3>1 DEF GotType
  <2>3. /\ Committed' = Committed /\ First' = First
    BY <2>2 DEF Committed, First
  <2>4. /\ load' \notin 2..16 /\ load' \notin 7..16 /\ load' \notin 5..16 /\ load' \notin 6..16
        /\ load' # 11 /\ load' # 13 /\ load' \notin 12..14 /\ load' # 15
        /\ load' \notin 14..15 /\ load' # 16 /\ load' \notin 12..16 /\ load' \notin 14..16
        /\ load' \notin 10..16 /\ load' \notin 21..24 /\ load' \notin 0..9
        /\ load \in 10..20 /\ load' \in 0..24
    BY <1>2, <2>1
  <2>5. \A r \in Rings : Analysed(r) \in SUBSET Nat
    <3>1. ASSUME NEW r \in Rings  PROVE Analysed(r) \in SUBSET Nat
      <4>1. trace[r] \in SUBSET Nat /\ copy[r] \in Seq(Frame)
        BY <1>5
      <4>2. ASSUME NEW i \in DOMAIN copy[r]  PROVE copy[r][i].line \in Nat
        <5>1. copy[r][i] \in Frame
          BY <4>1
        <5> QED
          BY <5>1 DEF Frame
      <4> QED
        BY <4>1, <4>2 DEF Analysed
    <3> QED
      BY <3>1
  <2>6. TickType'
    <3>1. trace' \in [Rings -> SUBSET Nat]
      BY <2>1, <2>5
    <3> QED
      BY <1>2, <1>5, <2>1, <2>2, <2>4, <3>1 DEF TickType, GotType
  <2>7. Bounds'
    BY <1>1, <1>2, <1>3, <1>6, <2>2 DEF Bounds
  <2>8. PairLoaded' /\ CountsLoaded' /\ HeadsLoaded' /\ CopiesMeant' /\ CopiedLines'
    BY <2>4 DEF PairLoaded, CountsLoaded, HeadsLoaded, CopiesMeant, CopiedLines
  <2>9. SpanInv'
    BY <1>3, <2>2, <2>3, <2>4 DEF SpanInv
  <2>10. HeldLast' => Held
    <3>1. ASSUME NEW r \in Rings  PROVE GenLast(r)' = gen[r]
      <4>1. Nth(r) \in {0, 1}
        BY DEF Nth
      <4> QED
        BY <1>1, <2>1, <4>1 DEF GenLast
    <3> QED
      BY <1>3, <2>2, <3>1, HeldIs DEF HeldLast, Rings
  <2>11. PairLast' => HeldPair
    BY <1>1, <2>1, <2>2 DEF PairLast, HeldPair
  <2>12. Proved'
    <3> SUFFICES ASSUME HeldLast', got'.span > 0
                 PROVE  /\ got'.gen["in"] = got'.gen["out"] /\ got'.gen["in"] \in 1..Line'
                        /\ PairLast' => /\ got'.rate = prepared'[got'.gen["in"]].rate
                                        /\ \A r \in Rings : copy'[r] =
                                              [i \in 1..got'.span |->
                                                  [line |-> got'.gen["in"], n |-> First' + i - 1]]
      BY DEF Proved
    <3>1. Held /\ got.span > 0
      BY <2>2, <2>10
    <3>2. Committed > 0
      <4>1. got.span <= Committed
        BY <1>3, <2>4 DEF SpanInv
      <4> QED
        BY <1>3, <3>1, <4>1, CommittedIs, GotFacts
    <3>3. got.gen["in"] = got.gen["out"] /\ got.gen["in"] \in 1..Line
      <4>1. load \in 6..16
        BY <1>2
      <4>2. /\ got.gen["in"] = gen["in"] /\ got.gen["out"] = gen["in"] /\ gen["in"] \in 1..Line
        BY <1>3, <3>1, <3>2, <4>1, SpanIsFresh
      <4> QED
        BY <4>2
    <3>4. PairLast' => /\ got.rate = prepared[got.gen["in"]].rate
                       /\ \A r \in Rings : copy[r] =
                             [i \in 1..got.span |-> [line |-> got.gen["in"], n |-> First + i - 1]]
      BY <1>2, <1>3, <1>8, <2>11, <3>1, SpanIsExact
    <3> QED
      BY <1>1, <2>1, <2>2, <2>3, <3>3, <3>4
  <2>13. TraceInv'
    <3>1. ASSUME HeldLast', NEW r \in Rings
          PROVE  trace'[r] = IF got'.span = 0 THEN {} ELSE {got'.gen["in"]}
      <4>1. Analysed(r) = IF got.span = 0 THEN {} ELSE {got.gen["in"]}
        BY <1>2, <1>3, <1>8, <2>10, <3>1, AnalysedIs
      <4> QED
        BY <2>1, <2>2, <4>1
    <3> QED
      BY <2>4, <3>1 DEF TraceInv
  <2> QED
    BY <1>1, <1>4, <2>6, <2>7, <2>8, <2>9, <2>12, <2>13 DEF ScopeInv
<1> QED
  BY <1>7, <1>8

LEMMA WriteStep ==
    ASSUME ScopeInv, Write
    PROVE  ScopeInv'
<1>1. /\ WriteType /\ WriterInv /\ SlotInv
      /\ TickType /\ Bounds /\ PairLoaded /\ CountsLoaded /\ HeadsLoaded /\ SpanInv
      /\ CopiesMeant /\ CopiedLines /\ Proved /\ TraceInv /\ DescribedInv /\ FrameIsOneSpan
  BY DEF ScopeInv
<1>2. WriteType' /\ WriterInv'
  BY <1>1, WriterStep
<1>3. SlotInv'
  BY <1>1, SlotStep
<1>4. TickType' /\ Bounds'
  BY <1>1, BoundsWrite
<1>5. PairLoaded' /\ CountsLoaded' /\ HeadsLoaded'
  BY <1>1, PairWrite, CountsWrite, HeadsWrite
<1>6. SpanInv'
  <2>1. got' = got /\ load' = load
    BY <1>1, HeldBefore
  <2> QED
    BY <1>1, <2>1 DEF SpanInv, Committed
<1>7. CopiesMeant'
  BY <1>1, CopiesWrite
<1>8. CopiedLines' /\ Proved'
  BY <1>1, LinesWrite, ProvedWrite
<1>9. TraceInv' /\ DescribedInv'
  BY <1>1, TraceWrite
<1>10. FrameIsOneSpan'
  BY <1>1, FrameWrite
<1> QED
  BY <1>2, <1>3, <1>4, <1>5, <1>6, <1>7, <1>8, <1>9, <1>10 DEF ScopeInv

LEMMA LoadKeepsInv ==
    ASSUME ScopeInv, Load
    PROVE  ScopeInv'
<1>1. /\ WriteType /\ WriterInv /\ SlotInv
      /\ TickType /\ Bounds /\ PairLoaded /\ CountsLoaded /\ HeadsLoaded /\ SpanInv
      /\ CopiesMeant /\ CopiedLines /\ Proved /\ TraceInv /\ DescribedInv /\ FrameIsOneSpan
  BY DEF ScopeInv
<1>2. /\ WriteType' /\ WriterInv' /\ SlotInv' /\ TickType' /\ SpanInv'
      /\ FrameIsOneSpan' /\ DescribedInv'
  BY <1>1, LoadStep
<1>3. Bounds' /\ PairLoaded' /\ CountsLoaded'
  BY <1>1, LoadBounds, LoadPairLoaded, LoadCounts
<1>4. HeadsLoaded'
  BY <1>1, LoadHeads
<1>5. CopiesMeant'
  BY <1>1, LoadCopies
<1>6. CopiedLines' /\ Proved' /\ TraceInv'
  BY <1>1, LoadLines, LoadProved, LoadTrace
<1> QED
  BY <1>2, <1>3, <1>4, <1>5, <1>6 DEF ScopeInv

LEMMA ScopeInitInv == ScopeInit => ScopeInv
<1> SUFFICES ASSUME ScopeInit PROVE ScopeInv
  OBVIOUS
<1>1. WriteType /\ WriterInv /\ SlotInv
  BY WriteInit
<1>2. /\ load = 0 /\ got = Unread /\ copy = [r \in Rings |-> <<>>] /\ trace = [r \in Rings |-> {}]
      /\ shown = [gen |-> [r \in Rings |-> 0], count |-> [r \in Rings |-> 0], committed |-> 0]
      /\ committed = NoFrame /\ described = {}
  BY DEF ScopeInit, Both
<1>3. TickType
  <2>1. copy \in [Rings -> Seq(Frame)] /\ trace \in [Rings -> SUBSET Nat] /\ load \in 0..24
        /\ shown \in [gen : [Rings -> Nat], count : [Rings -> Nat], committed : Nat]
        /\ described \in SUBSET Nat
    BY <1>2
  <2> QED
    BY <1>2, <2>1, UnreadIs DEF TickType, GotType
<1>4. Bounds
  <2>1. got.epoch <= epoch
    BY <1>1, <1>2, UnreadIs, WriteFacts
  <2>2. ASSUME NEW r \in Rings
        PROVE  /\ got.gen[r] <= gen[r] /\ got.genNow[r] <= gen[r] /\ shown.gen[r] <= gen[r]
               /\ ~(load > 2 + Nth(r))
    <3>1. got.gen[r] = 0 /\ got.genNow[r] = 0 /\ shown.gen[r] = 0 /\ gen[r] \in Nat
      BY <1>1, <1>2, UnreadIs, WriteFacts
    <3>2. Nth(r) \in {0, 1}
      BY DEF Nth
    <3> QED
      BY <1>2, <3>1, <3>2
  <2> QED
    BY <2>1, <2>2 DEF Bounds
<1>5. /\ load \notin 2..16 /\ load \notin 7..16 /\ load \notin 5..16 /\ load \notin 6..16
      /\ load # 11 /\ load # 13 /\ load \notin 10..20 /\ load \notin 12..14 /\ load # 15
      /\ load \notin 14..15 /\ load # 16 /\ load \notin 12..16 /\ load \notin 14..16
      /\ load \notin 17..20 /\ load \notin 10..16 /\ load \notin 21..24
  BY <1>2
<1>6. PairLoaded /\ CountsLoaded /\ HeadsLoaded /\ SpanInv
  BY <1>5 DEF PairLoaded, CountsLoaded, HeadsLoaded, SpanInv
<1>7. CopiesMeant /\ CopiedLines /\ Proved
  BY <1>5 DEF CopiesMeant, CopiedLines, Proved
<1>8. TraceInv
  <2>1. \A r \in Rings : trace[r] = {}
    BY <1>2
  <2> QED
    BY <1>5, <2>1 DEF TraceInv
<1>9. DescribedInv
  BY <1>2 DEF DescribedInv
<1>10. FrameIsOneSpan
  <2>1. committed.in \union committed.out = {}
    BY <1>2 DEF NoFrame
  <2> QED
    BY <1>2, <2>1 DEF FrameIsOneSpan
<1> QED
  BY <1>1, <1>3, <1>4, <1>6, <1>7, <1>8, <1>9, <1>10 DEF ScopeInv

LEMMA ScopeStutter == ScopeInv /\ UNCHANGED scopeVars => ScopeInv'
<1> SUFFICES ASSUME ScopeInv, UNCHANGED scopeVars PROVE ScopeInv'
  OBVIOUS
<1>1. UNCHANGED writeVars
  BY DEF scopeVars
<1>2. /\ write' = write /\ gen' = gen /\ slot' = slot /\ epoch' = epoch
      /\ published' = published /\ prepared' = prepared /\ job' = job
      /\ load' = load /\ got' = got /\ copy' = copy /\ trace' = trace
      /\ shown' = shown /\ committed' = committed /\ described' = described
  BY DEF scopeVars, writeVars, ringVars, pairVars, tickVars, shownVars
<1>3. WriteType' /\ WriterInv' /\ SlotInv'
  BY <1>1, WriterStays DEF ScopeInv
<1>4. /\ (Held' <=> Held) /\ (HeldPair' <=> HeldPair) /\ (HeldLast' <=> HeldLast)
      /\ (PairLast' <=> PairLast) /\ (Fresh' <=> Fresh)
      /\ Committed' = Committed /\ First' = First /\ Reach' = Reach /\ Reserved' = Reserved
      /\ Line' = Line /\ Extent("in")' = Extent("in") /\ Extent("out")' = Extent("out")
  BY <1>2 DEF Held, HeldPair, Committed, First, HeldLast, GenLast, PairLast, Fresh, Reach, Reserved,
     Line, Extent
<1>5. TickType' /\ Bounds' /\ DescribedInv' /\ FrameIsOneSpan'
  BY <1>2, <1>4 DEF ScopeInv, TickType, Bounds, DescribedInv, OfShown, FrameIsOneSpan
<1>6. PairLoaded' /\ CountsLoaded' /\ HeadsLoaded' /\ SpanInv'
  BY <1>2, <1>4 DEF ScopeInv, PairLoaded, CountsLoaded, HeadsLoaded, SpanInv
<1>7. CopiesMeant'
  BY <1>2, <1>4 DEF ScopeInv, CopiesMeant, Meant
<1>8. CopiedLines' /\ Proved'
  BY <1>2, <1>4 DEF ScopeInv, CopiedLines, Proved
<1>9. TraceInv'
  BY <1>2, <1>4 DEF ScopeInv, TraceInv, OfShown, OfLoaded, GenSoFar
<1> QED
  BY <1>3, <1>5, <1>6, <1>7, <1>8, <1>9 DEF ScopeInv

LEMMA ScopeInductive ==
    ScopeInv /\ [ScopeNext]_scopeVars => ScopeInv'
<1> SUFFICES ASSUME ScopeInv, [ScopeNext]_scopeVars PROVE ScopeInv'
  OBVIOUS
<1>1. CASE Write
  BY <1>1, WriteStep
<1>2. CASE Load
  BY <1>2, LoadKeepsInv
<1>3. CASE ScopeTick
  BY <1>3, TickStep
<1>4. CASE Choose
  BY <1>4, ChooseStep
<1>5. CASE Blank
  BY <1>5, BlankStep
<1>6. CASE Prove
  BY <1>6, ProveStep
<1>7. CASE Commit
  BY <1>7, CommitStep
<1>8. CASE \E r \in Rings : CopyWindow(r)
  BY <1>8, CopyStep
<1>9. CASE UNCHANGED scopeVars
  BY <1>9, ScopeStutter
<1> QED
  BY <1>1, <1>2, <1>3, <1>4, <1>5, <1>6, <1>7, <1>8, <1>9 DEF ScopeNext, Load

\* A committed frame is one span of one timeline, in both rings, at the rate of
\* that timeline, and frames under one identity are of one configuration:
\* whatever capacity, window and blocks, however many frames and prepares, and
\* wherever the writing side stands between two loads of a tick
\* (SpectrumView::tick).
THEOREM FramesAreSpans == ScopeSpec => []FrameIsOneSpan
<1>1. ScopeInv => FrameIsOneSpan
  BY DEF ScopeInv
<1> QED
  BY <1>1, ScopeInitInv, ScopeInductive, PTL DEF ScopeSpec

-----------------------------------------------------------------------------
(* The published frame: a painter that acquired an even count knows every   *)
(* store of the frame it numbers, and confirms its copy only if it holds    *)
(* none of a later one.                                                     *)

Stores == [at : Int, val : Int, rel : Int]

\* The stores of frame f: the counts before and behind the payload, and the
\* payload at the given place.  That of construction is number 0.
OddOf(f)            == Store(4 * f - 3, 2 * f - 1, 4 * f - 4)
EvenOf(f)           == Store(4 * f, 2 * f, 4 * f)
PayloadOf(f, place) == IF f = 0 THEN Store(0, 0, 0) ELSE Store(4 * f + place, f, 4 * f - 3)

\* The stores of N frames, in the order of publishFrame.
Laid(N, counts, first, last) ==
    /\ N \in Nat
    /\ counts \in Seq(Stores) /\ first \in Seq(Stores) /\ last \in Seq(Stores)
    /\ Len(counts) = 2 * N + 1 /\ Len(first) = N + 1 /\ Len(last) = N + 1
    /\ \A f \in 0..N : counts[2 * f + 1] = EvenOf(f)
    /\ \A f \in 1..N : counts[2 * f] = OddOf(f)
    /\ \A f \in 0..N : first[f + 1] = PayloadOf(f, -2) /\ last[f + 1] = PayloadOf(f, -1)

\* The frames published.
Frames == Len(bins) - 1

Layout == Laid(Frames, seq, bins, note)

\* The painted frame is whole, was published, and all its stores are known.
WholePicture ==
    /\ known \in Int /\ picture.bins = picture.note
    /\ picture.bins \in 0..Frames /\ known >= 4 * picture.bins

PubInv == Layout /\ WholePicture

LEMMA MaxOfTwo ==
    ASSUME NEW x \in Int, NEW y \in Int
    PROVE  Max({x, y}) = Later(x, y)
<1> DEFINE m == Later(x, y)
<1>1. m \in {x, y} /\ \A z \in {x, y} : m >= z
  BY DEF Later
<1>2. \A n \in {x, y} : (\A z \in {x, y} : n >= z) => n = m
  BY <1>1
<1> QED
  BY <1>1, <1>2 DEF Max

LEMMA StoreIsTyped ==
    ASSUME NEW x \in Int, NEW y \in Int, NEW z \in Int
    PROVE  /\ Store(x, y, z) \in Stores
           /\ Store(x, y, z).at = x /\ Store(x, y, z).val = y /\ Store(x, y, z).rel = z
BY DEF Store, Stores

LEMMA NewestCount ==
    ASSUME NEW N, NEW counts, NEW first, NEW last, Laid(N, counts, first, last)
    PROVE  N \in Nat /\ Last(counts).at = 4 * N /\ Newest(counts) \div 2 = N
<1>1. N \in Nat /\ Len(counts) = 2 * N + 1 /\ counts[2 * N + 1] = EvenOf(N)
  BY DEF Laid
<1>2. Last(counts) = EvenOf(N)
  BY <1>1 DEF Last
<1>3. Last(counts).at = 4 * N /\ Newest(counts) = 2 * N
  BY <1>1, <1>2 DEF Newest, EvenOf, Store
<1> QED
  BY <1>1, <1>3

LEMMA InitLayout == PubInit => PubInv /\ Frames = 0
<1> SUFFICES ASSUME PubInit PROVE PubInv /\ Frames = 0
  OBVIOUS
<1>1. Store(0, 0, 0) \in Stores
  BY StoreIsTyped
<1>2. Frames = 0 /\ <<Store(0, 0, 0)>> \in Seq(Stores)
  BY <1>1 DEF PubInit, Frames
<1>3. EvenOf(0) = Store(0, 0, 0) /\ PayloadOf(0, -2) = Store(0, 0, 0)
      /\ PayloadOf(0, -1) = Store(0, 0, 0)
  BY DEF EvenOf, PayloadOf
<1>4. Layout
  BY <1>2, <1>3 DEF PubInit, Layout, Laid
<1> QED
  BY <1>2, <1>4 DEF PubInit, PubInv, WholePicture

\* One more frame is laid behind the others.
LEMMA OneMore ==
    ASSUME NEW N, NEW counts, NEW first, NEW last, Laid(N, counts, first, last)
    PROVE  Laid(N + 1, counts \o <<OddOf(N + 1), EvenOf(N + 1)>>,
                Append(first, PayloadOf(N + 1, -2)), Append(last, PayloadOf(N + 1, -1)))
<1> DEFINE M     == N + 1
           two   == <<OddOf(M), EvenOf(M)>>
           more  == counts \o two
           more1 == Append(first, PayloadOf(M, -2))
           more2 == Append(last, PayloadOf(M, -1))
<1>1. /\ N \in Nat /\ M \in Nat /\ M > 0
      /\ counts \in Seq(Stores) /\ first \in Seq(Stores) /\ last \in Seq(Stores)
      /\ Len(counts) = 2 * N + 1 /\ Len(first) = M /\ Len(last) = M
  BY DEF Laid
<1>2. OddOf(M) \in Stores /\ EvenOf(M) \in Stores
  BY <1>1, StoreIsTyped DEF OddOf, EvenOf
<1>3. PayloadOf(M, -2) \in Stores /\ PayloadOf(M, -1) \in Stores
  BY <1>1, StoreIsTyped DEF PayloadOf
<1>4. two \in Seq(Stores) /\ Len(two) = 2 /\ two[1] = OddOf(M) /\ two[2] = EvenOf(M)
  BY <1>2
<1> HIDE DEF two
<1>5. /\ more \in Seq(Stores) /\ Len(more) = 2 * N + 3
      /\ \A i \in 1..(2 * N + 3) :
            more[i] = IF i <= 2 * N + 1 THEN counts[i] ELSE two[i - (2 * N + 1)]
  <2>1. /\ more \in Seq(Stores) /\ Len(more) = Len(counts) + Len(two)
        /\ \A i \in 1..(Len(counts) + Len(two)) :
              more[i] = IF i <= Len(counts) THEN counts[i] ELSE two[i - Len(counts)]
    BY <1>1, <1>4, ConcatProperties
  <2>2. Len(counts) + Len(two) = 2 * N + 3
    BY <1>1, <1>4
  <2> QED
    BY <1>1, <2>1, <2>2
<1>6. /\ more1 \in Seq(Stores) /\ Len(more1) = M + 1
      /\ more1[M + 1] = PayloadOf(M, -2) /\ \A i \in 1..M : more1[i] = first[i]
  <2>1. /\ more1 \in Seq(Stores) /\ Len(more1) = Len(first) + 1
        /\ \A i \in 1..Len(first) : more1[i] = first[i]
        /\ more1[Len(first) + 1] = PayloadOf(M, -2)
    BY <1>1, <1>3, AppendProperties
  <2> QED
    BY <1>1, <2>1
<1>7. /\ more2 \in Seq(Stores) /\ Len(more2) = M + 1
      /\ more2[M + 1] = PayloadOf(M, -1) /\ \A i \in 1..M : more2[i] = last[i]
  <2>1. /\ more2 \in Seq(Stores) /\ Len(more2) = Len(last) + 1
        /\ \A i \in 1..Len(last) : more2[i] = last[i]
        /\ more2[Len(last) + 1] = PayloadOf(M, -1)
    BY <1>1, <1>3, AppendProperties
  <2> QED
    BY <1>1, <2>1
<1> HIDE DEF more, more1, more2
<1>8. ASSUME NEW f \in 0..M PROVE more[2 * f + 1] = EvenOf(f)
  <2>1. CASE f = M
    <3>1. PICK j \in Int : j = 2 * f + 1
      BY <1>1
    <3>2. j \in 1..(2 * N + 3) /\ ~(j <= 2 * N + 1) /\ j - (2 * N + 1) = 2
      BY <1>1, <2>1, <3>1
    <3>3. more[j] = two[j - (2 * N + 1)]
      BY <1>5, <3>2
    <3>4. more[j] = EvenOf(M)
      BY <1>4, <3>2, <3>3
    <3> QED
      BY <2>1, <3>1, <3>4
  <2>2. CASE f \in 0..N
    <3>1. 2 * f + 1 \in 1..(2 * N + 3) /\ 2 * f + 1 <= 2 * N + 1
      BY <1>1, <2>2
    <3>2. counts[2 * f + 1] = EvenOf(f)
      BY <2>2 DEF Laid
    <3> QED
      BY <1>5, <3>1, <3>2
  <2> QED
    BY <1>1, <2>1, <2>2
<1>9. ASSUME NEW f \in 1..M PROVE more[2 * f] = OddOf(f)
  <2>1. CASE f = M
    <3>1. PICK j \in Int : j = 2 * f
      BY <1>1
    <3>2. j \in 1..(2 * N + 3) /\ ~(j <= 2 * N + 1) /\ j - (2 * N + 1) = 1
      BY <1>1, <2>1, <3>1
    <3>3. more[j] = two[j - (2 * N + 1)]
      BY <1>5, <3>2
    <3>4. more[j] = OddOf(M)
      BY <1>4, <3>2, <3>3
    <3> QED
      BY <2>1, <3>1, <3>4
  <2>2. CASE f \in 1..N
    <3>1. 2 * f \in 1..(2 * N + 3) /\ 2 * f <= 2 * N + 1
      BY <1>1, <2>2
    <3>2. counts[2 * f] = OddOf(f)
      BY <2>2 DEF Laid
    <3> QED
      BY <1>5, <3>1, <3>2
  <2> QED
    BY <1>1, <2>1, <2>2
<1>10. ASSUME NEW f \in 0..M
       PROVE  more1[f + 1] = PayloadOf(f, -2) /\ more2[f + 1] = PayloadOf(f, -1)
  <2>1. CASE f = M
    BY <1>6, <1>7, <2>1
  <2>2. CASE f \in 0..N
    <3>1. f + 1 \in 1..M
      BY <1>1, <2>2
    <3>2. first[f + 1] = PayloadOf(f, -2) /\ last[f + 1] = PayloadOf(f, -1)
      BY <2>2 DEF Laid
    <3> QED
      BY <1>6, <1>7, <3>1, <3>2
  <2> QED
    BY <1>1, <2>1, <2>2
<1>11. 2 * N + 3 = 2 * M + 1
  BY <1>1
<1>12. Laid(M, more, more1, more2)
  BY <1>1, <1>5, <1>6, <1>7, <1>8, <1>9, <1>10, <1>11 DEF Laid
<1> QED
  BY <1>12 DEF more, more1, more2, two

LEMMA PublishStep ==
    ASSUME PubInv, PublishFrame
    PROVE  PubInv' /\ Frames' = Frames + 1
<1> DEFINE N == Frames
           M == Frames + 1
<1>1. Layout /\ N \in Nat /\ Last(seq).at = 4 * N /\ Newest(seq) \div 2 = N
  BY NewestCount DEF PubInv, Layout
<1>2. /\ seq' = seq \o <<Store(4 * N + 1, 2 * M - 1, 4 * N), Store(4 * N + 4, 2 * M, 4 * N + 4)>>
      /\ bins' = Append(bins, Store(4 * N + 2, M, 4 * N + 1))
      /\ note' = Append(note, Store(4 * N + 3, M, 4 * N + 1))
      /\ UNCHANGED <<known, picture>>
  BY <1>1 DEF PublishFrame, Carried
<1>3. /\ Store(4 * N + 1, 2 * M - 1, 4 * N) = OddOf(M)
      /\ Store(4 * N + 4, 2 * M, 4 * N + 4) = EvenOf(M)
  <2>1. 4 * N + 1 = 4 * M - 3 /\ 4 * N = 4 * M - 4 /\ 4 * N + 4 = 4 * M
    BY <1>1
  <2> QED
    BY <2>1 DEF OddOf, EvenOf
<1>4. /\ Store(4 * N + 2, M, 4 * N + 1) = PayloadOf(M, -2)
      /\ Store(4 * N + 3, M, 4 * N + 1) = PayloadOf(M, -1)
  <2>1. 4 * N + 2 = 4 * M + -2 /\ 4 * N + 3 = 4 * M + -1 /\ 4 * N + 1 = 4 * M - 3 /\ M # 0
    BY <1>1
  <2> QED
    BY <2>1 DEF PayloadOf
<1>5. Laid(M, seq', bins', note')
  <2>1. Laid(N, seq, bins, note)
    BY <1>1 DEF Layout
  <2> QED
    BY <2>1, <1>2, <1>3, <1>4, OneMore
<1>6. Frames' = M
  <2>1. M \in Nat /\ Len(bins') = M + 1
    BY <1>5 DEF Laid
  <2> QED
    BY <2>1 DEF Frames
<1>7. Layout'
  BY <1>5, <1>6 DEF Layout
<1>8. WholePicture'
  BY <1>1, <1>2, <1>6 DEF PubInv, WholePicture
<1> QED
  BY <1>6, <1>7, <1>8 DEF PubInv

\* A store that a load may return is the last one, or the next one to that
\* location is not known.
LEMMA VisibleIs ==
    ASSUME NEW s \in Seq(Stores), NEW k \in Int, NEW v \in Visible(s, k)
    PROVE  /\ v \in Stores
           /\ \E i \in 1..Len(s) : v = s[i] /\ (i = Len(s) \/ s[i + 1].at > k)
<1>1. DOMAIN s = 1..Len(s)
  BY LenProperties
<1>2. \E i \in 1..Len(s) : v = s[i] /\ (i = Len(s) \/ s[i + 1].at > k)
  BY <1>1 DEF Visible
<1> QED
  BY <1>2, ElementOfSeq

LEMMA VisibleCounts ==
    ASSUME Layout, NEW k \in Int, NEW c \in Visible(seq, k), c.val % 2 = 0
    PROVE  \E g \in 0..Frames : c = EvenOf(g) /\ (g = Frames \/ 4 * g + 1 > k)
<1>1. Frames \in Nat /\ Len(seq) = 2 * Frames + 1 /\ seq \in Seq(Stores)
  BY DEF Layout, Laid
<1>2. PICK i \in 1..Len(seq) : c = seq[i] /\ (i = Len(seq) \/ seq[i + 1].at > k)
  BY <1>1, VisibleIs
<1>3. CASE \E g \in 0..Frames : i = 2 * g + 1
  <2>1. PICK g \in 0..Frames : i = 2 * g + 1
    BY <1>3
  <2>2. c = EvenOf(g)
    BY <1>2, <2>1 DEF Layout, Laid
  <2>3. CASE g # Frames
    <3>1. g + 1 \in 1..Frames /\ i + 1 = 2 * (g + 1) /\ i # Len(seq)
      BY <1>1, <2>1, <2>3
    <3>2. seq[i + 1] = OddOf(g + 1)
      BY <3>1 DEF Layout, Laid
    <3>3. seq[i + 1].at = 4 * (g + 1) - 3
      BY <3>2 DEF OddOf, Store
    <3>4. 4 * (g + 1) - 3 > k
      BY <1>2, <3>1, <3>3
    <3>5. 4 * g + 1 > k
      BY <1>1, <3>4
    <3> QED
      BY <2>2, <3>5
  <2> QED
    BY <2>2, <2>3
<1>4. CASE \E g \in 1..Frames : i = 2 * g
  <2>1. PICK g \in 1..Frames : i = 2 * g
    BY <1>4
  <2>2. c = OddOf(g)
    BY <1>2, <2>1 DEF Layout, Laid
  <2>3. c.val = 2 * g - 1
    BY <2>2 DEF OddOf, Store
  <2> QED
    BY <1>1, <2>3
<1>5. (\E g \in 0..Frames : i = 2 * g + 1) \/ (\E g \in 1..Frames : i = 2 * g)
  <2>1. i \in Int /\ 1 <= i /\ i <= 2 * Frames + 1
    BY <1>1
  <2>2. i \div 2 \in 0..Frames /\ (i = 2 * (i \div 2) \/ i = 2 * (i \div 2) + 1)
    BY <1>1, <2>1
  <2> QED
    BY <1>1, <2>1, <2>2
<1> QED
  BY <1>3, <1>4, <1>5

LEMMA VisiblePayload ==
    ASSUME NEW N \in Nat, NEW s \in Seq(Stores), NEW place \in {-2, -1}, Len(s) = N + 1,
           \A f \in 0..N : s[f + 1] = PayloadOf(f, place),
           NEW k \in Int, NEW v \in Visible(s, k)
    PROVE  \E g \in 0..N : /\ g = N \/ 4 * g + 4 + place > k
                           /\ v.val = g /\ v.rel = IF g = 0 THEN 0 ELSE 4 * g - 3
<1>1. PICK i \in 1..Len(s) : v = s[i] /\ (i = Len(s) \/ s[i + 1].at > k)
  BY VisibleIs
<1>2. PICK g \in 0..N : i = g + 1
  <2>1. i - 1 \in 0..N /\ i = (i - 1) + 1
    OBVIOUS
  <2> QED
    BY <2>1
<1>3. v = PayloadOf(g, place)
  BY <1>1, <1>2
<1>4. v.val = g /\ v.rel = IF g = 0 THEN 0 ELSE 4 * g - 3
  <2>1. CASE g = 0
    BY <1>3, <2>1 DEF PayloadOf, Store
  <2>2. CASE g # 0
    BY <1>3, <2>2 DEF PayloadOf, Store
  <2> QED
    BY <2>1, <2>2
<1>5. CASE g # N
  <2>1. g + 1 \in 0..N /\ g + 1 # 0 /\ i + 1 = (g + 1) + 1 /\ i # Len(s)
    BY <1>2, <1>5
  <2>2. s[i + 1] = PayloadOf(g + 1, place)
    BY <2>1
  <2>3. s[i + 1].at = 4 * (g + 1) + place
    BY <2>1, <2>2 DEF PayloadOf, Store
  <2>4. 4 * (g + 1) + place > k
    BY <1>1, <2>1, <2>3
  <2>5. 4 * g + 4 + place > k
    BY <2>4
  <2> QED
    BY <1>4, <2>5
<1> QED
  BY <1>4, <1>5

\* An attempt, by a reader that knows k.  It never knows less afterwards, and
\* what it confirms is a frame, no older than any whose stores it knew.
LEMMA AttemptIsWhole ==
    ASSUME Layout, NEW k \in Int, NEW a \in Attempts(k)
    PROVE  /\ a.known \in Int /\ a.known >= k /\ a.ok \in BOOLEAN
           /\ a.ok => \E g \in 0..Frames : /\ a.picture.bins = g /\ a.picture.note = g
                                           /\ a.known >= 4 * g
                                           /\ g = Frames \/ 4 * g + 1 > k
<1>1. Frames \in Nat /\ Laid(Frames, seq, bins, note)
  BY DEF Layout, Laid
<1>2. PICK c \in Visible(seq, k) :
         a \in IF c.val % 2 = 0 THEN Copies(Acquired(k, c), c.val)
              ELSE {[ok |-> FALSE, known |-> k, picture |-> picture]}
  BY DEF Attempts
<1>3. CASE c.val % 2 # 0
  <2>1. a = [ok |-> FALSE, known |-> k, picture |-> picture]
    BY <1>2, <1>3
  <2> QED
    BY <2>1
<1>4. CASE c.val % 2 = 0
  <2>1. PICK g \in 0..Frames : c = EvenOf(g) /\ (g = Frames \/ 4 * g + 1 > k)
    BY <1>2, <1>4, VisibleCounts
  <2> DEFINE kc == Acquired(k, c)
  <2>2. kc \in Int /\ kc >= k /\ kc >= 4 * g /\ c.val = 2 * g
    BY <1>1, <2>1 DEF Acquired, Later, EvenOf, Store
  <2>3. a \in Copies(kc, 2 * g)
    BY <1>2, <1>4, <2>2
  <2> HIDE DEF kc
  <2>4. PICK b \in Visible(bins, kc), n \in Visible(note, kc) :
           a \in {[ok |-> again.val = 2 * g, known |-> FencedAll(kc, {b, n}),
                   picture |-> [bins |-> b.val, note |-> n.val]] :
                     again \in Visible(seq, FencedAll(kc, {b, n}))}
    <3> DEFINE Copy(b, n) == {[ok |-> again.val = 2 * g, known |-> FencedAll(kc, {b, n}),
                               picture |-> [bins |-> b.val, note |-> n.val]] :
                                 again \in Visible(seq, FencedAll(kc, {b, n}))}
    <3>1. Copies(kc, 2 * g) = UNION {Copy(b, n) : b \in Visible(bins, kc), n \in Visible(note, kc)}
      BY DEF Copies
    <3> HIDE DEF Copy
    <3>2. \E b \in Visible(bins, kc), n \in Visible(note, kc) : a \in Copy(b, n)
      BY <2>3, <3>1
    <3> QED
      BY <3>2 DEF Copy
  <2>5. PICK fb \in 0..Frames : /\ fb = Frames \/ 4 * fb + 4 + (-2) > kc
                                /\ b.val = fb /\ b.rel = IF fb = 0 THEN 0 ELSE 4 * fb - 3
    <3>1. /\ bins \in Seq(Stores) /\ Len(bins) = Frames + 1
          /\ \A f \in 0..Frames : bins[f + 1] = PayloadOf(f, -2)
      BY <1>1 DEF Laid
    <3> QED
      BY <1>1, <2>2, <2>4, <3>1, VisiblePayload
  <2>6. PICK fn \in 0..Frames : /\ fn = Frames \/ 4 * fn + 4 + (-1) > kc
                                /\ n.val = fn /\ n.rel = IF fn = 0 THEN 0 ELSE 4 * fn - 3
    <3>1. /\ note \in Seq(Stores) /\ Len(note) = Frames + 1
          /\ \A f \in 0..Frames : note[f + 1] = PayloadOf(f, -1)
      BY <1>1 DEF Laid
    <3> QED
      BY <1>1, <2>2, <2>4, <3>1, VisiblePayload
  <2>7. fb >= g /\ fn >= g
    BY <1>1, <2>2, <2>5, <2>6
  <2> DEFINE ka == FencedAll(kc, {b, n})
  <2>8. ka \in Int /\ ka >= kc /\ ka >= b.rel /\ ka >= n.rel
    <3>1. {s.rel : s \in {b, n}} = {b.rel, n.rel} /\ b.rel \in Int /\ n.rel \in Int
      BY <1>1, <2>5, <2>6
    <3>2. Max({s.rel : s \in {b, n}}) = Later(b.rel, n.rel)
      BY <3>1, MaxOfTwo
    <3> QED
      BY <2>2, <3>1, <3>2 DEF FencedAll, Later
  <2>9. PICK again \in Visible(seq, ka) :
           a = [ok |-> again.val = 2 * g, known |-> ka,
                picture |-> [bins |-> b.val, note |-> n.val]]
    BY <2>4
  <2>10. a.known = ka /\ a.ok = (again.val = 2 * g)
         /\ a.picture.bins = fb /\ a.picture.note = fn
    BY <2>5, <2>6, <2>9
  <2> HIDE DEF ka
  <2>11. ASSUME again.val = 2 * g PROVE fb = g /\ fn = g
    <3>1. PICK h \in 0..Frames : again = EvenOf(h) /\ (h = Frames \/ 4 * h + 1 > ka)
      <4>1. again.val % 2 = 0
        BY <2>11
      <4> QED
        BY <2>8, <2>9, <4>1, VisibleCounts
    <3>2. h = g
      BY <2>11, <3>1 DEF EvenOf, Store
    <3>3. ASSUME NEW x \in 0..Frames, x > g, ka >= 4 * x - 3 PROVE FALSE
      BY <1>1, <2>8, <3>1, <3>2, <3>3
    <3> QED
      BY <1>1, <2>5, <2>6, <2>7, <2>8, <3>3
  <2>12. a.known \in Int /\ a.known >= k /\ a.known >= 4 * g /\ a.ok \in BOOLEAN
    BY <1>1, <2>2, <2>8, <2>10
  <2>13. ASSUME a.ok PROVE a.picture.bins = g /\ a.picture.note = g
    BY <2>10, <2>11, <2>13
  <2> QED
    BY <2>1, <2>12, <2>13
<1> QED
  BY <1>3, <1>4

LEMMA PaintStep ==
    ASSUME PubInv, Paint
    PROVE  /\ PubInv' /\ Frames' = Frames
           /\ picture'.bins \in picture.bins..Frames
<1>1. Frames \in Nat /\ known \in Int
  BY DEF PubInv, Layout, Laid, WholePicture
<1>2. PICK one \in Attempts(known) : \E two \in IF one.ok THEN {one} ELSE Attempts(one.known) :
         /\ known' = two.known
         /\ picture' = IF two.ok THEN two.picture ELSE picture
  BY DEF Paint
<1>3. PICK two \in IF one.ok THEN {one} ELSE Attempts(one.known) :
         /\ known' = two.known
         /\ picture' = IF two.ok THEN two.picture ELSE picture
  BY <1>2
<1>4. /\ one.known \in Int /\ one.known >= known /\ one.ok \in BOOLEAN
      /\ one.ok => \E g \in 0..Frames : /\ one.picture.bins = g /\ one.picture.note = g
                                        /\ one.known >= 4 * g
                                        /\ g = Frames \/ 4 * g + 1 > known
  BY <1>1, <1>2, AttemptIsWhole DEF PubInv
<1>5. /\ two.known \in Int /\ two.known >= known /\ two.ok \in BOOLEAN
      /\ two.ok => \E g \in 0..Frames : /\ two.picture.bins = g /\ two.picture.note = g
                                        /\ two.known >= 4 * g
                                        /\ g = Frames \/ 4 * g + 1 > known
  <2>1. CASE one.ok
    BY <1>3, <1>4, <2>1
  <2>2. CASE ~one.ok
    <3>1. /\ two.known \in Int /\ two.known >= one.known /\ two.ok \in BOOLEAN
          /\ two.ok => \E g \in 0..Frames : /\ two.picture.bins = g /\ two.picture.note = g
                                            /\ two.known >= 4 * g
                                            /\ g = Frames \/ 4 * g + 1 > one.known
      BY <1>3, <1>4, <2>2, AttemptIsWhole DEF PubInv
    <3> QED
      BY <1>1, <1>4, <3>1
  <2> QED
    BY <2>1, <2>2
<1>6. UNCHANGED <<seq, bins, note>>
  BY DEF Paint
<1>7. Layout' /\ Frames' = Frames
  BY <1>6 DEF PubInv, Layout, Frames
<1>8. CASE two.ok
  <2>1. PICK g \in 0..Frames : /\ two.picture.bins = g /\ two.picture.note = g
                               /\ two.known >= 4 * g
                               /\ g = Frames \/ 4 * g + 1 > known
    BY <1>5, <1>8
  <2>2. picture'.bins = g /\ picture'.note = g /\ known' >= 4 * g
    BY <1>3, <1>8, <2>1
  <2>3. g >= picture.bins
    BY <1>1, <2>1 DEF PubInv, WholePicture
  <2> QED
    BY <1>1, <1>3, <1>5, <1>7, <2>2, <2>3 DEF PubInv, WholePicture
<1>9. CASE ~two.ok
  BY <1>1, <1>3, <1>5, <1>7, <1>9 DEF PubInv, WholePicture
<1> QED
  BY <1>5, <1>8, <1>9

\* What FramePublication keeps: the order of publishFrame's stores, and a
\* picture that is one frame's.
THEOREM PublicationInvariant == PubSpec => []PubInv
<1>1. PubInit => PubInv
  BY InitLayout
<1>2. PubInv /\ [PubNext]_pubVars => PubInv'
  <2>1. CASE UNCHANGED pubVars
    BY <2>1 DEF pubVars, PubInv, Layout, WholePicture, Frames
  <2> QED
    BY <2>1, PublishStep, PaintStep DEF PubNext
<1> QED
  BY <1>1, <1>2, PTL DEF PubSpec

\* The painted picture is a frame that was published, whole, and the
\* painter never goes back to an older one: SpectrumView's publishFrame and
\* readPublishedFrame implement the register of whole frames.
THEOREM PaintsFrames == PubSpec => PaintsAreFrames
<1> DEFINE latest  == Newest(seq) \div 2
           painted == IF picture.bins = picture.note THEN picture.bins ELSE -1
<1>1. PubInit => latest = 0 /\ painted = 0
  BY InitLayout, NewestCount DEF PubInit, PubInv, Layout
<1>2. PubInv /\ [PubNext]_pubVars
         => [Register!Publish \/ Register!Paint]_<<latest, painted>>
  <2> SUFFICES ASSUME PubInv, [PubNext]_pubVars
               PROVE  [Register!Publish \/ Register!Paint]_<<latest, painted>>
    OBVIOUS
  <2>1. Frames \in Nat /\ latest = Frames /\ painted = picture.bins
    BY NewestCount DEF PubInv, Layout, WholePicture
  <2>2. CASE PublishFrame
    <3>1. PubInv' /\ Frames' = Frames + 1 /\ picture' = picture
      BY <2>2, PublishStep DEF PublishFrame
    <3>2. Newest(seq') \div 2 = Frames'
      BY <3>1, NewestCount DEF PubInv, Layout
    <3>3. latest' = latest + 1 /\ painted' = painted
      BY <2>1, <3>1, <3>2
    <3> QED
      BY <3>3 DEF Register!Publish
  <2>3. CASE Paint
    <3>1. PubInv' /\ Frames' = Frames /\ picture'.bins \in picture.bins..Frames
      BY <2>3, PaintStep
    <3>2. painted' = picture'.bins
      BY <3>1 DEF PubInv, WholePicture
    <3>3. latest' = latest
      BY <2>3 DEF Paint
    <3> QED
      BY <2>1, <3>1, <3>2, <3>3 DEF Register!Paint
  <2>4. CASE UNCHANGED pubVars
    BY <2>4 DEF pubVars
  <2> QED
    BY <2>2, <2>3, <2>4 DEF PubNext
<1>3. PubSpec => []PubInv
  BY PublicationInvariant
<1> QED
  BY <1>1, <1>2, <1>3, PTL DEF PubSpec, PaintsAreFrames, Register!Spec
=============================================================================
