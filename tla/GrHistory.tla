----------------------------- MODULE GrHistory -----------------------------
(* The gain-reduction history: the ring of dsp/GrHistoryBuffer.h, the       *)
(* engine's unpublished entry, and what the view's tick (message thread)    *)
(* and paint (render thread) make of them, with the loads and stores as     *)
(* weak as the code asks for (WeakMemory).                                  *)
(*                                                                          *)
(* The audio thread and the host thread that prepares never overlap: they   *)
(* are the writing side of the ring.  The message thread publishes, tick    *)
(* after tick, what the painting thread places its frames by.  One payload  *)
(* location stands for the two floats of a slot, which are stored and       *)
(* loaded side by side.  The smoothed head is counted in half entries.      *)
EXTENDS Rounding, WeakMemory

CONSTANTS
    RingSize,       \* entries the ring holds
    Pairs,          \* the (rate, block) pairs a host prepares with
    Block,          \* samples of a pair's prepared block
    Wanted,         \* entries that fill the window, for a rate and a block
    Cols,           \* columns of the plot
    Now,            \* entries that count as "now" in the readout
    LapMargin,      \* pushes a reading of the guarded span tolerates
    Deliveries,     \* samples a host delivers in one call
    MaxEntries,     \* bound: entries of a timeline
    MaxClears,      \* bound: timelines started
    MaxTicks        \* bound: ticks that publish

\* The geometry of the view, with the four lead buckets of kMaxLead, and phases
\* in half entries.
View == INSTANCE GrBuckets WITH KSize <- RingSize, MaxLead <- 4, Steps <- 2

ASSUME RingAssumption == RingSize \in Nat \ {0}

Unprepared == "unprepared"
Zero       == [line |-> 0, n |-> 0, since |-> 0, samples |-> 0]

VARIABLES
    ring,       \* the stores to the ring, by location
    pair,       \* the pair the engine is prepared with
    partial,    \* the engine's unpublished entry
    pub,        \* what the ticks published
    known,      \* how far the message and the painting thread know the ring
    seen,       \* the newest tick each published scalar was painted from
    drawn,      \* where the last frame drawn put its newest entry
    out         \* the batch of entries the last step showed

writerVars == <<ring, pair, partial>>
paintVars  == <<seen, drawn>>
vars == <<writerVars, pub, paintVars, known, out>>

Epoch == Newest(ring.epoch)
Index == Newest(ring.index)
Slot(n) == n % RingSize

Nothing == [line |-> 0, rate |-> Unprepared, block |-> Unprepared, entries |-> <<>>,
            outrun |-> FALSE]

Init ==
    /\ ring = [clock |-> 0,
               epoch |-> <<Store(0, 0, 0)>>, index |-> <<Store(0, 0, 0)>>,
               rate |-> <<Store(0, Unprepared, 0)>>, block |-> <<Store(0, Unprepared, 0)>>,
               slot |-> [n \in 0..(RingSize - 1) |-> <<Store(0, Zero, 0)>>]]
    /\ pair = Unprepared
    /\ partial = [samples |-> 0, since |-> 0, epoch |-> 0]
    /\ pub = <<[smooth |-> 0, head |-> -1, epoch |-> 0, ring |-> 0]>>
    /\ known = [message |-> 0, paint |-> 0]
    /\ seen = [smooth |-> 1, head |-> 1, epoch |-> 1]
    /\ drawn = [line |-> 0, at |-> 0, ticked |-> FALSE]
    /\ out = Nothing

-----------------------------------------------------------------------------
(* The writing side.                                                        *)

\* GrHistoryBuffer::clear: the odd epoch, a fence, the payload and the pair,
\* then the index and the even epoch released.
Cleared(p) ==
    LET odd == ring.clock + 1
        end == odd + RingSize + 4
    IN  [clock |-> end,
         epoch |-> ring.epoch \o <<Store(odd, Epoch + 1, Last(ring.epoch).rel),
                                   Store(end, Epoch + 2, end)>>,
         slot  |-> [n \in 0..(RingSize - 1) |-> Append(ring.slot[n], Store(odd + n + 1, Zero, odd))],
         rate  |-> Append(ring.rate, Store(end - 3, p, odd)),
         block |-> Append(ring.block, Store(end - 2, p, odd)),
         index |-> Append(ring.index, Store(end - 1, 0, end - 1))]

\* Mutant: the unpublished entry survives the clear.
Carried(epoch) == [partial EXCEPT !.epoch = epoch]

\* syncHistoryTimeline: the unpublished entry goes with the timeline it is of.
Synced(epoch) ==
    IF epoch = partial.epoch THEN partial
    ELSE [samples |-> 0, since |-> 0, epoch |-> epoch]

\* prepareToPlay, through GrHistoryBuffer::prepare: the same pair keeps the timeline.
Prepare(p) ==
    /\ p # pair => Epoch < 2 * MaxClears
    /\ pair' = p
    /\ ring' = IF Newest(ring.rate) = p /\ Newest(ring.block) = p THEN ring ELSE Cleared(p)
    /\ partial' = Synced(Newest(ring'.epoch))
    /\ out' = Nothing
    /\ UNCHANGED <<pub, paintVars, known>>

\* Mutant: no fence, the payload may be seen before the index that covers it.
PushedUnfenced(r, e) ==
    LET at == r.clock + 1
        n  == Newest(r.index)
    IN  [r EXCEPT !.clock = at + 1,
                  !.slot[Slot(n)] = Append(@, Store(at, e, 0)),
                  !.index = Append(@, Store(at + 1, n + 1, at + 1))]

\* GrHistoryBuffer::push: a fence, the payload, and the index released.
Pushed(r, e) ==
    LET at == r.clock + 1
        n  == Newest(r.index)
    IN  [r EXCEPT !.clock = at + 1,
                  !.slot[Slot(n)] = Append(@, Store(at, e, at - 1)),
                  !.index = Append(@, Store(at + 1, n + 1, at + 1))]

\* The chunk loop of AnabasisEngine::process over n delivered samples: an
\* entry is pushed each time a prepared block is full, the rest is carried.
Process(n) ==
    LET total == partial.samples + n
        count == total \div Block[pair]
        since == IF partial.samples = 0 THEN Epoch ELSE partial.since
        entry(i) == [line |-> Epoch, n |-> Index + i - 1, samples |-> Block[pair],
                     since |-> IF i = 1 THEN since ELSE Epoch]
    IN  /\ pair # Unprepared
        /\ Index + count <= MaxEntries
        /\ ring' = FoldLeft(Pushed, ring, [i \in 1..count |-> entry(i)])
        /\ partial' = [partial EXCEPT !.samples = total % Block[pair],
                                      !.since = IF count = 0 THEN since ELSE Epoch]
        /\ out' = Nothing
        /\ UNCHANGED <<pair, pub, paintVars, known>>

-----------------------------------------------------------------------------
(* The message thread.  A tick or a reading that returns early publishes    *)
(* and shows nothing, and is not a step.                                    *)

\* Mutant: a reveal starts the ramp again.
Restarted(previous, head, d, cleared) ==
    IF cleared \/ d = 0 \/ previous > 2 * head + 2 THEN 2 * head
    ELSE AtMost(AtLeast(previous + d, 2 * head), 2 * head + 2)

\* smoothedHead, parked and phaseOf, in half entries.
Smoothed(previous, head, d, cleared) ==
    IF cleared \/ previous > 2 * head + 2 THEN 2 * head
    ELSE AtMost(AtLeast(previous + d, 2 * head), 2 * head + 2)

Parked(head, last, epoch) ==
    epoch = last.epoch /\ head = last.head /\ last.smooth >= 2 * head + 2

PhaseOf(smooth, head) == AtMost(AtLeast(smooth - 2 * head, 0), 2)

\* GrHistoryView::tick, d half entries after the last; from the frame clock,
\* or from a reveal with the time the view was hidden.
Tick(d) ==
    \E e \in Visible(ring.epoch, known.message) :
    \E i \in Visible(ring.index, Acquired(known.message, e)) :
    LET head == i.val
        last == Last(pub)
        now  == Acquired(Acquired(known.message, e), i)
    IN  /\ e.val % 2 = 0
        /\ Remains(ring.epoch, e, now)                \* batchIntact
        /\ ~Parked(head, last, e.val)
        /\ Len(pub) <= MaxTicks
        /\ pub' = Append(pub, [smooth |-> Smoothed(last.smooth, head, d, e.val # last.epoch),
                               head |-> head, epoch |-> e.val, ring |-> now])
        /\ known' = [known EXCEPT !.message = now]
        /\ out' = Nothing
        /\ UNCHANGED <<writerVars, paintVars>>

\* A batch of entries read under an epoch, as the reader will use it; outrun
\* when the index its lap check read was stored after a later clear began.
Batch(e, r, b, reads, i) ==
    [line |-> e.val, rate |-> r.val, block |-> b.val,
     entries |-> [n \in DOMAIN reads |-> reads[n].val],
     outrun |-> \E s \in Range(ring.epoch) : e.at < s.at /\ s.at < i.at]

\* Of the stores a load may return to a reader that knows the ring up to k,
\* those with which the epoch e can still be found unchanged.
Undisturbed(stores, e, k) ==
    {s \in Visible(stores, k) : Remains(ring.epoch, e, Fenced(k, s))}

\* What such peeks of the entries ns may return.
Peeks(ns, e, k) ==
    LET found == [n \in ns |-> Undisturbed(ring.slot[Slot(n)], e, k)]
    IN  {f \in [ns -> UNION Range(found)] : \A n \in ns : f[n] \in found[n]}

\* The indices with which a closing check passes: the epoch and the index
\* read again after the fence, the oldest entry of the batch above the floor.
Closing(e, oldest, k) ==
    IF Remains(ring.epoch, e, k)
    THEN {i \in Visible(ring.index, k) : oldest >= View!ReadFloor(i.val)} ELSE {}

\* The close of a batch, the same for a frame and a reading: what is kept of it.
Kept(e, r, b, reads, oldest, k) ==
    {Batch(e, r, b, reads, c) : c \in Closing(e, oldest, FencedAll(k, {r, b} \union Range(reads)))}

\* GrHistoryView::readingFrom: the overhang certified first, then the rest.
TakeReading ==
    \E e \in Visible(ring.epoch, known.message) :
    LET k1 == Acquired(known.message, e) IN
    \E r \in Undisturbed(ring.rate, e, k1), b \in Undisturbed(ring.block, e, k1) :
    \E i \in Visible(ring.index, k1) :
    LET k2      == Acquired(k1, i)
        head    == i.val
        first   == View!ReadoutFirst(head, View!WindowEntries(Wanted[r.val, b.val]), Cols, Now)
        guarded == AtLeast(first, head - (RingSize - 1 - LapMargin))
    IN  /\ e.val % 2 = 0
        /\ \E old \in Peeks(first..(guarded - 1), e, k2) :
           LET k3 == FencedAll(k2, {r, b} \union Range(old)) IN
           \E c \in IF guarded > first THEN Closing(e, first, k3) ELSE {i} :
           LET k4 == IF guarded > first THEN Acquired(k3, c) ELSE k2 IN
           \E new \in Peeks(guarded..(head - 1), e, k4) :
           out' \in Kept(e, r, b, old @@ new, guarded, k4)
        /\ UNCHANGED <<writerVars, pub, paintVars, known>>

-----------------------------------------------------------------------------
(* The painting thread.  A frame that is discarded is not a step.           *)

\* The buckets of a frame, by its head and the pair it is mapped through.
Geometry == [n \in 1..MaxEntries, r \in Pairs \union {Unprepared}, b \in Pairs \union {Unprepared} |->
                View!Buckets(n, View!WindowEntries(Wanted[r, b]), Cols)]

\* paintHead: the head the offset was computed for, unless the ring rewound.
PaintHead(shown, live) == IF shown > 0 /\ shown <= live THEN shown ELSE live

\* paintHistory: the epoch, the live index and what the tick published, its
\* epoch first; the window, the peeks, and the closing check.
PaintHistory ==
    \E e \in {s \in Visible(ring.epoch, known.paint) : s.val % 2 = 0} :
    \E i \in Visible(ring.index, Acquired(known.paint, e)) :
    \E q \in seen.epoch..Len(pub) :
    \E h \in AtLeast(q, seen.head)..Len(pub) :
    LET head == PaintHead(pub[h].head, i.val)
        k1   == AtLeast(pub[q].ring, Acquired(Acquired(known.paint, e), i))
        phase(m) == IF pub[q].epoch = e.val THEN PhaseOf(pub[m].smooth, head) ELSE 0
    IN  /\ head > 0
        /\ \E r \in Undisturbed(ring.rate, e, k1), b \in Undisturbed(ring.block, e, k1) :
           LET nb     == Geometry[head, r.val, b.val]
               kDrawn == View!FirstDrawn(nb, View!ReadFloor(i.val))
               first  == kDrawn * nb.stride
               ns     == UNION {View!BucketReads(nb, k, first, head) : k \in kDrawn..nb.kLast}
           IN  /\ first < head
               /\ \E v \in Peeks(ns, e, k1) :
                     /\ out' \in Kept(e, r, b, v, first, k1)
                     /\ known' = [known EXCEPT !.paint = FencedAll(k1, {r, b} \union Range(v))]
        /\ \E m \in AtLeast(q, seen.smooth)..Len(pub) :
              /\ seen' = [smooth |-> m, head |-> h, epoch |-> q]
              /\ drawn' = [line |-> e.val, at |-> 2 * head + phase(m),
                           ticked |-> {pub[q].epoch, pub[h].epoch} = {e.val} /\ head = pub[h].head]
        /\ UNCHANGED <<writerVars, pub>>

Next ==
    \/ \E p \in Pairs : Prepare(p)
    \/ \E n \in Deliveries : Process(n)
    \/ \E d \in 0..2 : Tick(d)
    \/ TakeReading
    \/ PaintHistory

Spec == Init /\ [][Next]_vars

-----------------------------------------------------------------------------
\* What a frame or a reading shows is one timeline's: every entry is the one
\* its index names, collected from that timeline's samples only, an entry per
\* prepared block of the very pair it is mapped through; however the ring is
\* cleared, refilled and lapped meanwhile (GrHistoryBuffer's reader contract,
\* paintHistory, readingFrom, syncHistoryTimeline).  Left aside: a batch whose
\* lap check read the index of a later timeline, which the check cannot see.
Whole(b) ==
    /\ b.rate = b.block
    /\ \A n \in DOMAIN b.entries :
          b.entries[n] = [line |-> b.line, n |-> n, since |-> b.line, samples |-> Block[b.block]]

ShownIsOneTimeline == out.outrun \/ Whole(out)

\* "No vertex ever moves rightward" (frameFor, bucketX): of one timeline, a
\* frame drawn from what ticks of that timeline published lies no further
\* right than the one before, whichever of the published values it pairs.
NeverRightward ==
    [][drawn'.line = drawn.line /\ drawn.ticked /\ drawn'.ticked => drawn'.at >= drawn.at]_vars
=============================================================================
