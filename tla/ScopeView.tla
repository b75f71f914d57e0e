----------------------------- MODULE ScopeView -----------------------------
(* The spectrum view's tick over the two scope rings: dsp/ScopeBuffer.h and *)
(* SpectrumView::tick.                                                      *)
(*                                                                          *)
(* The audio thread and the host thread that prepares never overlap; they   *)
(* store, the message thread loads, one access a step, in the order of the  *)
(* code (what weaker orderings than that add is not modelled here).  A      *)
(* frame of audio is named by its timeline and its index, the same in both  *)
(* rings; a smoothed trace by the timelines folded into it since it was     *)
(* last floored, and by the window last folded.                             *)
EXTENDS Rounding, Sequences

CONSTANTS
    Capacity,       \* frames a ring holds
    Window,         \* frames of one analysis (kSize)
    Opened,         \* the (rate, block) pair the view is opened under
    Prepared,       \* the pairs a host prepares with after that
    MaxPrepares,    \* bound: timelines after the first
    MaxFrames       \* bound: frames of a timeline

\* What an instance must satisfy.
ASSUME ScopeAssumption ==
    /\ {Capacity, Window} \subseteq Nat \ {0} /\ Window < Capacity
    /\ Prepared \union {Opened} \subseteq [rate : Nat, block : Nat \ {0}]

Rings    == {"in", "out"}
Nth(r)   == IF r = "in" THEN 0 ELSE 1
Both(v)  == [r \in Rings |-> v]
Unstored == [line |-> 0, n |-> -1]
NoFrame  == [in |-> {}, out |-> {}, windows |-> Both(<<>>), first |-> 0, span |-> 0, rate |-> 0]

\* What a tick that has loaded nothing has.
Unread == [epoch |-> 0, rate |-> 0, block |-> 0, gen |-> Both(0), count |-> Both(0),
           floor |-> Both(0), span |-> 0, head |-> Both(0), again |-> Both(0),
           genNow |-> Both(0), epochNow |-> 0]

VARIABLES
    write, gen, slot,   \* the rings: published index, generation, payload
    epoch, published,   \* the history ring's epoch and the pair it publishes
    prepared,           \* history: the pair of each timeline
    job,                \* what the writing side stores next, up to which frame
    load,               \* what the tick does next, in the order below
    got,                \* what it has loaded
    copy,               \* the windows it has copied
    trace,              \* the two smoothed traces
    shown,              \* shown counts, generations and committed head
    committed,          \* the frame the tick committed
    described           \* history: the timelines drawn under its identity

ringVars  == <<write, gen, slot>>
pairVars  == <<epoch, published>>
writeVars == <<ringVars, pairVars, prepared, job>>
shownVars == <<shown, committed, described>>
tickVars  == <<load, got, copy, trace, shownVars>>
scopeVars == <<writeVars, tickVars>>

Line == Len(prepared)
Idle == [at |-> "idle", end |-> 0]

\* The view of a plug-in that has been prepared once.
ScopeInit ==
    /\ prepared = <<Opened>> /\ published = Opened /\ epoch = 2
    /\ write = Both(0) /\ gen = Both(1) /\ slot = Both([i \in 0..(Capacity - 1) |-> Unstored])
    /\ job = Idle /\ load = 0 /\ got = Unread /\ copy = Both(<<>>) /\ trace = Both({})
    /\ shown = [gen |-> Both(0), count |-> Both(0), committed |-> 0]
    /\ committed = NoFrame /\ described = {}

-----------------------------------------------------------------------------
(* The writing side.                                                        *)

\* One store of the writing side, and the one that follows it.
Make(this, next) ==
    /\ job.at = this
    /\ job' = IF next = "idle" THEN Idle ELSE [at |-> next, end |-> job.end]

\* prepareToPlay: both rings, and then the pair, if it has changed, inside an
\* odd epoch.
ScopePrepare(p) ==
    /\ Line <= MaxPrepares /\ Make("idle", "rewind in")
    /\ prepared' = Append(prepared, p)
    /\ UNCHANGED <<ringVars, pairVars, tickVars>>

\* The payload of ring r once the frames from write[r] to end, which are no
\* more than it holds, are stored.
Stored(r, end) ==
    [slot EXCEPT ![r] = [i \in 0..(Capacity - 1) |->
        LET new == {n \in write[r]..(end - 1) : n % Capacity = i}
        IN  IF new = {} THEN @[i] ELSE [line |-> Line, n |-> CHOOSE n \in new : TRUE]]]

\* processChunk: a chunk into the one ring, its payload at once, and then into
\* the other.
Push(n) ==
    LET end == write["in"] + n
    IN  /\ job.at = "idle" /\ n <= prepared[Line].block /\ end <= MaxFrames
        /\ slot' = Stored("in", end)
        /\ job' = [at |-> "publish in", end |-> end]
        /\ UNCHANGED <<write, gen, pairVars, prepared, tickVars>>

StorePayload ==
    /\ Make("store out", "publish out") /\ slot' = Stored("out", job.end)
    /\ UNCHANGED <<write, gen, pairVars, prepared, tickVars>>

\* The index: the payload published, or the ring rewound (ScopeBuffer::reset).
StoreIndex ==
    /\ \/ Make("publish in", "store out") /\ write' = [write EXCEPT !["in"] = job.end]
       \/ Make("publish out", "idle")     /\ write' = [write EXCEPT !["out"] = job.end]
       \/ Make("rewind in", "bump in")    /\ write' = [write EXCEPT !["in"] = 0]
       \/ Make("rewind out", "bump out")  /\ write' = [write EXCEPT !["out"] = 0]
    /\ UNCHANGED <<gen, slot, pairVars, prepared, tickVars>>

StoreGeneration ==
    /\ \/ Make("bump in", "rewind out") /\ gen' = [gen EXCEPT !["in"] = @ + 1]
       \/ /\ Make("bump out", IF published = prepared[Line] THEN "idle" ELSE "odd")
          /\ gen' = [gen EXCEPT !["out"] = @ + 1]
    /\ UNCHANGED <<write, slot, pairVars, prepared, tickVars>>

StorePair ==
    /\ \/ Make("odd", "rate")   /\ epoch' = epoch + 1 /\ UNCHANGED published
       \/ /\ Make("rate", "block") /\ UNCHANGED epoch
          /\ published' = [published EXCEPT !.rate = prepared[Line].rate]
       \/ /\ Make("block", "even") /\ UNCHANGED epoch
          /\ published' = [published EXCEPT !.block = prepared[Line].block]
       \/ Make("even", "idle")  /\ epoch' = epoch + 1 /\ UNCHANGED published
    /\ UNCHANGED <<ringVars, prepared, tickVars>>

Write ==
    \/ \E p \in Prepared : ScopePrepare(p)
    \/ \E n \in 1..Capacity : Push(n)
    \/ StorePayload \/ StoreIndex \/ StoreGeneration \/ StorePair

-----------------------------------------------------------------------------
(* The tick, in the order of the code.  After the epoch: 1 the rate, 2 and  *)
(* 3 the generations, 4 and 5 the counts, 6 the block, 7 and 8 the indices  *)
(* the floors are made from, 9 Choose; 10 to 13 a head and the copy it      *)
(* bounds, for each ring; 14 and 15 the indices again, 16 Prove; 17 and 18  *)
(* the generations now, 19 the epoch now, 20 Commit.  Nothing left: 21 the  *)
(* epoch now, 22 and 23 the generations now, 24 Blank.                      *)

At(k) == load = k /\ load' = k + 1

ScopeTick ==
    /\ load = 0 /\ load' = 1 /\ committed' = NoFrame
    /\ got' = [Unread EXCEPT !.epoch = epoch]
    /\ UNCHANGED <<writeVars, copy, trace, shown, described>>

LoadPair ==
    /\ \/ At(1) /\ got' = [got EXCEPT !.rate = published.rate]
       \/ At(6) /\ got' = [got EXCEPT !.block = published.block]
       \/ (At(19) \/ At(21)) /\ got' = [got EXCEPT !.epochNow = epoch]
    /\ UNCHANGED <<writeVars, copy, trace, shownVars>>

LoadGeneration(r) ==
    /\ \/ At(2 + Nth(r)) /\ got' = [got EXCEPT !.gen[r] = gen[r]]
       \/ (At(17 + Nth(r)) \/ At(22 + Nth(r))) /\ got' = [got EXCEPT !.genNow[r] = gen[r]]
    /\ UNCHANGED <<writeVars, copy, trace, shownVars>>

LoadIndex(r) ==
    /\ \/ At(4 + Nth(r))      /\ got' = [got EXCEPT !.count[r] = write[r]]
       \/ At(7 + Nth(r))      /\ got' = [got EXCEPT !.floor[r] = write[r]]
       \/ At(10 + 2 * Nth(r)) /\ got' = [got EXCEPT !.head[r] = write[r]]
       \/ At(14 + Nth(r))     /\ got' = [got EXCEPT !.again[r] = write[r]]
    /\ UNCHANGED <<writeVars, copy, trace, shownVars>>

\* What ends a tick.
Return == load' = 0 /\ got' = Unread /\ copy' = Both(<<>>)

\* Mutant: the published floor alone.
PublishedFloor(w) == AtLeast(0, w - Capacity)

\* reservedFloor gives up the block that the producer may be writing.
ReservedFloor(w) == AtLeast(0, w + AtMost(got.block, Capacity) - Capacity)

Committed == AtMost(got.count["in"], got.count["out"])
PairFloor == AtLeast(ReservedFloor(got.floor["in"]), ReservedFloor(got.floor["out"]))
Span      == IF Committed > PairFloor THEN AtMost(Window, Committed - PairFloor) ELSE 0

\* resetObserved
ResetObserved(r) ==
    \/ got.gen[r] # shown.gen[r]
    \/ got.count[r] < shown.count[r]

\* Mutant: a reset floors the trace of the ring it was seen on.
FlooredAlone(seen) == [r \in Rings |-> IF r \in seen THEN {} ELSE trace[r]]

\* Either ring's reset floors both traces.
FlooredBoth(seen) == [r \in Rings |-> IF seen # {} THEN {} ELSE trace[r]]

SeenReset == {r \in Rings : ResetObserved(r)}

ConfigurationHeld == got.epoch % 2 = 0 /\ got.epoch = got.epochNow

\* What a committed frame leaves for the next tick, and for the renderer; a
\* configuration that changed gives it a new identity.
CommitFrame(tr, windows, first, span, changed) ==
    /\ shown' = [gen |-> got.genNow, count |-> got.count, committed |-> Committed]
    /\ committed' = [in |-> tr["in"], out |-> tr["out"], windows |-> windows,
                     first |-> first, span |-> span, rate |-> got.rate]
    /\ described' = tr["in"] \union tr["out"] \union IF changed THEN {} ELSE described

\* Idle, nothing coherent left, or a span to copy.  A reset that is seen when
\* nothing is left publishes the empty frame, under re-read generations.
Choose ==
    LET idle  == Committed = shown.committed /\ got.gen = shown.gen
        empty == Span = 0 /\ Committed > 0
    IN  /\ load = 9
        /\ trace' = IF idle THEN trace ELSE FlooredBoth(SeenReset)
        /\ IF idle \/ (empty /\ SeenReset = {}) THEN Return
           ELSE /\ load' = IF empty THEN 21 ELSE 10
                /\ got' = [got EXCEPT !.span = Span, !.floor = Both(0)]
                /\ UNCHANGED copy
        /\ UNCHANGED <<writeVars, shownVars>>

Blank ==
    /\ load = 24 /\ Return
    /\ IF ConfigurationHeld THEN CommitFrame(trace, copy, Committed, 0, TRUE)
                            ELSE UNCHANGED shownVars
    /\ UNCHANGED <<writeVars, trace>>

\* readEndingAt, clamped to the ring's own head and floor at its own load.
CopyWindow(r) ==
    LET head == got.head[r]
        end  == AtMost(Committed, head)
        from == AtLeast(AtLeast(0, end - got.span), AtLeast(0, head - Capacity))
    IN  /\ At(11 + 2 * Nth(r))
        /\ copy' = [copy EXCEPT ![r] = [i \in 1..AtLeast(0, end - from) |->
                                          slot[r][(from + i - 1) % Capacity]]]
        /\ got' = [got EXCEPT !.head[r] = 0]
        /\ UNCHANGED <<writeVars, trace, shownVars>>

First == Committed - got.span

\* onePairOneSpan
OnePairOneSpan ==
    /\ \A r \in Rings : Len(copy[r]) = got.span
    /\ got.span = 0 \/ \A r \in Rings : ReservedFloor(got.again[r]) <= First

\* analyse folds a window into its trace, and floors it if there is none.
Analysed(r) ==
    IF copy[r] = <<>> THEN {} ELSE trace[r] \union {copy[r][i].line : i \in DOMAIN copy[r]}

Prove ==
    /\ load = 16
    /\ IF OnePairOneSpan
         THEN /\ load' = 17 /\ trace' = [r \in Rings |-> Analysed(r)]
              /\ got' = [got EXCEPT !.block = 0, !.again = Both(0)] /\ UNCHANGED copy
         ELSE Return /\ UNCHANGED trace
    /\ UNCHANGED <<writeVars, shownVars>>

\* Generations that moved floor both traces; a configuration that moved holds
\* the frame.
Commit ==
    LET moved == {r \in Rings : got.genNow[r] # got.gen[r]}
        tr    == FlooredBoth(moved)
    IN  /\ load = 20 /\ Return
        /\ trace' = tr
        /\ IF ConfigurationHeld
             THEN CommitFrame(tr, copy, First, got.span, SeenReset \union moved # {})
             ELSE UNCHANGED shownVars
        /\ UNCHANGED writeVars

\* The tick's next step touches nothing shared; what the other side does
\* before it, it may as well do after.
Deciding == load \in {9, 16, 20, 24}

ScopeNext ==
    \/ ~Deciding /\ Write
    \/ ScopeTick \/ LoadPair \/ Choose \/ Blank \/ Prove \/ Commit
    \/ \E r \in Rings : LoadGeneration(r) \/ LoadIndex(r) \/ CopyWindow(r)

ScopeSpec == ScopeInit /\ [][ScopeNext]_scopeVars

-----------------------------------------------------------------------------
\* A committed frame is one span of one timeline, twice, to be read at the rate
\* of that timeline: both traces were folded from the frames the span names, and
\* nothing of another timeline is left in either, wherever between the tick's
\* loads the rings were pushed to, lapped, rewound and re-announced; and frames
\* under one identity are of one configuration (onePairOneSpan, reservedFloor,
\* resetObserved, configurationHeld, Frame).
FrameIsOneSpan ==
    /\ committed.in \union committed.out # {} =>
          \E line \in 1..Line :
             /\ committed.in = {line} /\ committed.out = {line}
             /\ \A r \in Rings : committed.windows[r] =
                   [i \in 1..committed.span |-> [line |-> line, n |-> committed.first + i - 1]]
             /\ committed.rate = prepared[line].rate
    /\ \A l, m \in described : l = m
=============================================================================
