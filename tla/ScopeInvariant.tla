--------------------------- MODULE ScopeInvariant ---------------------------
(* Why a frame of the spectrum view is one span: what holds between any two *)
(* of the loads of ScopeView's tick and the stores of the writing side, and *)
(* is kept by each of them.  A tick loads under an epoch and under          *)
(* generations that it loads again at the end; what it took from the rings  *)
(* in between is of the timeline of those generations for as long as they   *)
(* have not moved, and a frame it copied is the one it meant unless the     *)
(* ring has since been filled a whole capacity past it.                     *)
EXTENDS ScopeView

(* Of the writing side.                                                     *)

Pair    == [rate : Nat, block : Nat \ {0}]
Frame   == [line : Nat, n : Int]
Pushing == {"publish in", "store out", "publish out"}
Rewound == {"rewind out", "bump out", "odd", "rate", "block", "even"}
Places  == Pushing \union Rewound \union {"idle", "rewind in", "bump in"}

\* Until the first generation is bumped, a timeline's frames are all there.
Fresh == job.at \notin Rewound

WriteType ==
    /\ write \in [Rings -> Nat] /\ gen \in [Rings -> Nat]
    /\ slot \in [Rings -> [0..(Capacity - 1) -> Frame]]
    /\ epoch \in Nat /\ published \in Pair
    /\ prepared \in Seq(Pair) /\ Line >= 1
    /\ job \in [at : Places, end : Nat]

\* How far the writing side has come with its chunk or its prepare.
WriterInv ==
    /\ gen["in"] = IF job.at \in {"rewind in", "bump in"} THEN Line - 1 ELSE Line
    /\ gen["out"] = IF job.at \in {"rewind in", "bump in", "rewind out", "bump out"}
                      THEN Line - 1 ELSE Line
    /\ gen["in"] >= 1 /\ gen["out"] >= 1
    /\ job.at \in {"idle", "publish in", "rewind in"} => write["in"] = write["out"]
    /\ job.at \in {"store out", "publish out"} => write["in"] = job.end
    /\ job.at \in Pushing => /\ write["out"] < job.end
                             /\ job.end <= write["out"] + AtMost(prepared[Line].block, Capacity)
    /\ job.at \in Rewound \union {"bump in"} => write["in"] = 0
    /\ job.at \in Rewound \ {"rewind out"} => write["out"] = 0
    /\ epoch % 2 = IF job.at \in {"rate", "block", "even"} THEN 1 ELSE 0
    /\ job.at \in Pushing \union {"idle", "even"} => published = prepared[Line]
    /\ job.at \in {"rewind in", "bump in"} => published = prepared[Line - 1]
    /\ job.at = "block" => published.rate = prepared[Line].rate

\* How far a ring's payload reaches: to the end of the chunk as soon as that is
\* stored, and until the generation tells that the index was rewound.
Extent(r) ==
    IF r = "in" THEN IF job.at = "publish in" THEN job.end
                     ELSE IF job.at = "bump in" THEN write["out"] ELSE write["in"]
    ELSE IF job.at = "publish out" THEN job.end ELSE write["out"]

\* A payload that holds the last frames of a timeline up to an index.
Holds(s, line, end) ==
    /\ \A n \in (end - Capacity)..(end - 1) :
          n >= 0 => s[n % Capacity] = [line |-> line, n |-> n]
    /\ \A i \in 0..(Capacity - 1) : i < end => s[i].line = line

SlotInv == \A r \in Rings : Holds(slot[r], gen[r], Extent(r))

-----------------------------------------------------------------------------
(* Of the tick.                                                             *)

GotType == [epoch : Nat, rate : Nat, block : Nat, gen : [Rings -> Nat],
            count : [Rings -> Nat], floor : [Rings -> Nat], span : Nat,
            head : [Rings -> Nat], again : [Rings -> Nat], genNow : [Rings -> Nat],
            epochNow : Nat]

TickType ==
    /\ load \in 0..24
    /\ got \in GotType
    /\ copy \in [Rings -> Seq(Frame)]
    /\ trace \in [Rings -> SUBSET Nat]
    /\ shown \in [gen : [Rings -> Nat], count : [Rings -> Nat], committed : Nat]
    /\ described \in SUBSET Nat

\* The largest index of the first ring while its timeline is the one shown by
\* its generation.
Reach == IF job.at = "bump in" THEN write["out"] ELSE write["in"]

\* The generations, and the epoch, are what the tick loaded.
Held     == got.gen = gen
HeldPair == got.epoch = epoch /\ epoch % 2 = 0

\* And after it loaded them again.
GenLast(r) == IF load > 17 + Nth(r) THEN got.genNow[r] ELSE gen[r]
HeldLast   == \A r \in Rings : got.gen[r] = GenLast(r)
PairLast   == got.epoch % 2 = 0 /\ got.epoch = IF load > 19 THEN got.epochNow ELSE epoch

\* What was loaded is no newer than what is stored, nor what was shown newer
\* than what was loaded.
Bounds ==
    /\ got.epoch <= epoch
    /\ \A r \in Rings :
          /\ got.gen[r] <= gen[r] /\ got.genNow[r] <= gen[r] /\ shown.gen[r] <= gen[r]
          /\ load > 2 + Nth(r) => shown.gen[r] <= got.gen[r]

\* The pair loaded is the one of the timeline.
PairLoaded ==
    HeldPair => /\ load \in 2..16 => got.rate = published.rate
                /\ load \in 7..16 => got.block = published.block

\* The counts loaded are of the timeline of the generations loaded.
CountsLoaded ==
    /\ load \in 5..16 /\ got.gen["in"] = gen["in"] /\ got.count["in"] > 0 =>
          Fresh /\ got.count["in"] <= Reach
    /\ load \in 6..16 /\ Held /\ Committed > 0 => got.count["out"] <= write["out"]

HeadsLoaded ==
    Held /\ Committed > 0 =>
       /\ load = 11 => got.head["in"] <= Reach
                       /\ (got.head["in"] = 0 \/ got.count["in"] <= got.head["in"])
       /\ load = 13 => got.head["out"] <= write["out"] /\ got.count["out"] <= got.head["out"]

SpanInv == load \in 10..20 => got.span <= Committed

\* A frame of a copied window is the one meant, or was lapped below a bound.
Meant(r, bound) ==
    Len(copy[r]) = got.span =>
       \A i \in 1..got.span : \/ copy[r][i] = [line |-> got.gen["in"], n |-> First + i - 1]
                              \/ First + i - 1 + Capacity < bound

Reserved == AtMost(got.block, Capacity)

CopiesMeant ==
    Held /\ HeldPair /\ got.span > 0 =>
       /\ load \in 12..14 => Meant("in", Extent("in"))
       /\ load = 15 => Meant("in", AtLeast(got.again["in"] + Reserved, write["out"]))
       /\ load \in 14..15 => Meant("out", Extent("out"))
       /\ load = 16 => /\ Meant("in", AtLeast(got.again["in"], got.again["out"]) + Reserved)
                       /\ Meant("out", got.again["out"] + Reserved)

\* Lapped or not, it is of the timeline.
CopiedLines ==
    Held /\ got.span > 0 =>
       /\ load \in 12..16 => \A i \in DOMAIN copy["in"] : copy["in"][i].line = got.gen["in"]
       /\ load \in 14..16 => \A i \in DOMAIN copy["out"] : copy["out"][i].line = got.gen["in"]

\* What is proved is exact, and of one pair.
Proved ==
    load \in 17..20 /\ HeldLast /\ got.span > 0 =>
       /\ got.gen["in"] = got.gen["out"] /\ got.gen["in"] \in 1..Line
       /\ PairLast => /\ got.rate = prepared[got.gen["in"]].rate
                      /\ \A r \in Rings : copy[r] =
                            [i \in 1..got.span |-> [line |-> got.gen["in"], n |-> First + i - 1]]

OfShown(x)  == x = shown.gen["in"] /\ x = shown.gen["out"]
OfLoaded(x) == x = got.gen["in"] /\ x = got.gen["out"]

\* The generation this tick has loaded or will.
GenSoFar(r) == IF load > 2 + Nth(r) THEN got.gen[r] ELSE gen[r]

\* What is in a trace is of the timeline shown, until a reset is seen.
TraceInv ==
    \A r \in Rings :
       /\ load \in 0..9 => \/ \A x \in trace[r] : OfShown(x)
                           \/ \E q \in Rings : GenSoFar(q) # shown.gen[q]
       /\ load \in 10..16 => \A x \in trace[r] : OfLoaded(x)
       /\ load \in 17..20 /\ HeldLast => trace[r] = IF got.span = 0 THEN {} ELSE {got.gen["in"]}
       /\ load \in 21..24 => trace[r] = {}

DescribedInv == \A x \in described : OfShown(x)

ScopeInv ==
    /\ WriteType /\ WriterInv /\ SlotInv
    /\ TickType /\ Bounds /\ PairLoaded /\ CountsLoaded /\ HeadsLoaded /\ SpanInv
    /\ CopiesMeant /\ CopiedLines /\ Proved /\ TraceInv /\ DescribedInv
    /\ FrameIsOneSpan
=============================================================================
