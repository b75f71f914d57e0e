---------------------------- MODULE DuckEnvelope ----------------------------
(***************************************************************************)
(* The duck of src/src/dsp/AnabasisEngine.cpp: the gain envelope that the  *)
(* audio thread wraps around every change it cannot make continuously.     *)
(* A change of the oversampling configuration or of true-peak mode (it     *)
(* empties the lookahead line), of the EQ position or the colour model (a  *)
(* rewire), and the bulk swaps the wrapper announces with                  *)
(* requestForcedDuck are adopted at the envelope's silent bottom, or       *)
(* directly where nothing was playing.                                     *)
(*                                                                         *)
(* The sample rate is one the true-peak path fits (tpClampFits).           *)
(*                                                                         *)
(* Time is counted in samples.  A block is one TakeSnapshot (the head of   *)
(* processBlock), one BlockTop (the head of process(), where every         *)
(* decision is taken) and one Sample per iteration of the output loop of   *)
(* processChunk.  Other threads may act between any two of these.          *)
(*                                                                         *)
(* The out-leg at phase p and the in-leg at phase 1 - p have the same gain *)
(* and the acos in process() converts one into the other, so one integer   *)
(* "level", 0 for silence and Full for unity, stands for both phases.      *)
(***************************************************************************)
EXTENDS Integers

CONSTANTS
    Factors,          \* latched oversampling configurations: Off, or a
                      \* factor with its filter phase
    FactorOff,        \* the one prepare() latches
    FactorMax,        \* the one Force Max selects for an offline render
    ForceMax,         \* forceMaxOffline
    OsLat,            \* oversampler latency in samples, per configuration
    Delay,            \* delaySamples: the constant lookahead allowance
    Rewires,          \* settings of the EQ position / colour model pair
    Rewire0,          \* their setting before the first block
    TpModes,          \* true-peak settings that can be asked for
    OfflineModes,     \* values nonRealtime takes
    Full,             \* level at unity gain
    OutStep, InStep,  \* duckOutInc, duckInInc: level change per sample
    TailLength,       \* length of the engagement tail
    MaxBlock          \* longest block the host delivers, in samples

ASSUME ConfigAssumption == /\ FactorOff \in Factors /\ FactorMax \in Factors
                           /\ OsLat \in [Factors -> Nat]
                           /\ Rewire0 \in Rewires
                           /\ ForceMax \in BOOLEAN
                           /\ FALSE \in TpModes /\ TpModes \subseteq BOOLEAN
                           /\ FALSE \in OfflineModes
                           /\ OfflineModes \subseteq BOOLEAN
ASSUME LevelAssumption == /\ Full \in Nat \ {0}
                          /\ OutStep \in Nat \ {0}
                          /\ InStep \in Nat \ {0}
                          /\ MaxBlock \in Nat \ {0}
\* 6 ms of tail against 10 ms of lookahead (EngagementTail::kLengthMs,
\* Latency.h kMaxLookaheadMs), at every rate.
ASSUME TailAssumption == /\ Delay \in Nat
                         /\ TailLength \in Nat \ {0}
                         /\ TailLength <= Delay

DuckStates == {"idle", "out", "bottom", "in"}
Params     == [factor : Factors, tp : TpModes, rewire : Rewires,
               offline : OfflineModes]
Wiring     == [factor : Factors, tp : TpModes, rewire : Rewires]

VARIABLES
    want,              \* the live parameters the next snapshot reads
    duckRequested,     \* the flag requestForcedDuck raises
    duckState, level,  \* the envelope
    bottomHold,        \* bottomHoldSamples
    askedWhileOut,     \* duckAskedWhileOut
    primed,            \* smoothersPrimed: FALSE until the first block
    lastOffline,       \* lastNonRealtime
    applied,           \* what is latched and wired now
    tail,              \* samples the engagement tail still has to emit
    phase,             \* where the block is: "between", "top" or "run"
    left,              \* samples of the block still to process
    snapshot,          \* the parameters of the block
    filled,            \* samples processed since a latch emptied the line
    exempt             \* the line is empty where nobody is owed a refill: a
                       \* reset, or the head of an offline render

envelopeVars == <<duckState, level, bottomHold, askedWhileOut, tail>>
blockVars    == <<phase, left, snapshot>>
vars == <<want, duckRequested, envelopeVars, primed, lastOffline, applied,
          blockVars, filled, exempt>>

-----------------------------------------------------------------------------
(* What a snapshot asks for, compared with what is applied.                *)

\* The snapshot as a wiring: effectiveFactor applies Force Max offline.
WiringOf(p) ==
    [factor |-> IF ForceMax /\ p.offline THEN FactorMax ELSE p.factor,
     tp |-> p.tp, rewire |-> p.rewire]

LatchWanted  == LET w == WiringOf(snapshot)
                IN  w.factor # applied.factor \/ w.tp # applied.tp
RewireWanted == WiringOf(snapshot) # applied

\* Mutant: the return to real time shares the branch of the entry.
EitherOfflineEdge == snapshot.offline # lastOffline

EnteringOffline == snapshot.offline /\ ~lastOffline

\* delaySamples + osLatBase of a configuration: the line's refill time.
Refill(w) == Delay + OsLat[w.factor]

\* Mutant: the in-leg starts right after a latch.
NoHoldAfterLatch(w) == bottomHold

\* The bottom's hold once a block has adopted wiring w.
HoldAfter(w) == IF LatchWanted THEN Refill(w) ELSE bottomHold

\* Mutant: engagement waits for the out-leg like any other latch.
EngagementWaits == FALSE

\* Engaging true-peak mode while audio plays does not wait for the out-leg.
EngagesTp == /\ snapshot.tp /\ ~applied.tp
             /\ primed /\ ~EnteringOffline
             /\ duckState # "bottom"

\* Mutant: only a rewire starts the out-leg.
RewireOnly(asked) == RewireWanted

\* Does this block have to start (or restart) the out-leg?
NeedsOutLeg(asked) == RewireWanted \/ asked

\* Mutant: a spurious 1 - p in the conversion of the phase.
OutLegFlipped == Full - level

\* The out-leg starts at the gain the in-leg (or unity) has reached.
OutLegLevel == level

\* Mutant: the decay outlives a direct adoption.
TailKept == tail

\* What a direct adoption leaves of an engagement tail: nothing.
TailAfterAdoption == 0

-----------------------------------------------------------------------------
Init ==
    /\ want = [factor |-> FactorOff, tp |-> FALSE, rewire |-> Rewire0,
               offline |-> FALSE]
    /\ duckRequested = FALSE
    /\ duckState = "idle" /\ level = Full
    /\ bottomHold = 0 /\ askedWhileOut = FALSE
    /\ tail = 0
    /\ primed = FALSE /\ lastOffline = FALSE
    /\ applied = [factor |-> FactorOff, tp |-> FALSE, rewire |-> Rewire0]
    /\ phase = "between" /\ left = 0 /\ snapshot = want
    /\ filled = 0 /\ exempt = TRUE

\* A parameter edit, a restore or the host's setNonRealtime.
SetParams == \E p \in Params :
    /\ want' = p
    /\ UNCHANGED <<duckRequested, envelopeVars, primed, lastOffline, applied,
                   blockVars, filled, exempt>>

RequestForcedDuck ==
    /\ duckRequested' = TRUE
    /\ UNCHANGED <<want, envelopeVars, primed, lastOffline, applied,
                   blockVars, filled, exempt>>

\* prepare() latches Off with the clamp disengaged, then resets.  The EQ and
\* colour wiring stays as it was applied.  The host never prepares while a
\* block runs.
Prepare ==
    /\ phase = "between"
    /\ duckState' = "idle" /\ level' = Full
    /\ bottomHold' = 0 /\ askedWhileOut' = FALSE
    /\ tail' = 0
    /\ primed' = FALSE /\ lastOffline' = FALSE
    /\ duckRequested' = FALSE
    /\ applied' = [applied EXCEPT !.factor = FactorOff, !.tp = FALSE]
    /\ filled' = 0 /\ exempt' = TRUE
    /\ UNCHANGED <<want, blockVars>>

TakeSnapshot ==
    /\ phase = "between"
    /\ phase' = "top"
    /\ snapshot' = want
    /\ UNCHANGED <<want, duckRequested, envelopeVars, primed, lastOffline,
                   applied, left, filled, exempt>>

-----------------------------------------------------------------------------
(* The branches of process(), in the order the code tests them.  "asked"   *)
(* is the forced-duck request this block consumed.                         *)

\* First block after a reset, or the head of an offline render: adopt
\* directly.  A request is deliberately discarded.
AdoptDirectly(asked) ==
    /\ ~primed \/ EnteringOffline
    /\ applied' = WiringOf(snapshot)
    /\ duckState' = "idle" /\ level' = Full
    /\ tail' = TailAfterAdoption
    /\ bottomHold' = 0 /\ askedWhileOut' = FALSE
    /\ filled' = IF LatchWanted THEN 0 ELSE filled
    /\ exempt' = TRUE

\* The silent bottom, reached or (true-peak engagement) entered now.
AtBottom(asked) ==
    /\ primed /\ ~EnteringOffline
    /\ duckState = "bottom" \/ EngagesTp
    /\ applied' = WiringOf(snapshot)
    /\ bottomHold' = HoldAfter(applied')
    /\ duckState' = IF asked \/ askedWhileOut \/ bottomHold' > 0
                    THEN "bottom" ELSE "in"
    /\ level' = 0
    /\ tail' = IF EngagesTp THEN TailLength ELSE tail
    /\ askedWhileOut' = FALSE
    /\ filled' = IF LatchWanted THEN 0 ELSE filled
    /\ exempt' = (exempt /\ ~LatchWanted)

StartOutLeg(asked) ==
    /\ primed /\ ~EnteringOffline /\ ~EngagesTp
    /\ duckState \in {"idle", "in"}
    /\ NeedsOutLeg(asked)
    /\ duckState' = "out"
    /\ level' = OutLegLevel
    /\ UNCHANGED <<applied, tail, bottomHold, askedWhileOut, filled,
                   exempt>>

AskedDuringOutLeg(asked) ==
    /\ primed /\ ~EnteringOffline /\ ~EngagesTp
    /\ duckState = "out" /\ asked
    /\ askedWhileOut' = TRUE
    /\ UNCHANGED <<applied, duckState, level, tail, bottomHold, filled, exempt>>

NothingToDo(asked) ==
    /\ primed /\ ~EnteringOffline /\ ~EngagesTp
    /\ \/ duckState = "out" /\ ~asked
       \/ duckState \in {"idle", "in"} /\ ~NeedsOutLeg(asked)
    /\ UNCHANGED <<applied, duckState, level, tail, bottomHold, askedWhileOut,
                   filled, exempt>>

Decide(asked) == \/ AdoptDirectly(asked)
                 \/ AtBottom(asked)
                 \/ StartOutLeg(asked)
                 \/ AskedDuringOutLeg(asked)
                 \/ NothingToDo(asked)

\* The head of process(): consume the request, decide, prime the smoothers.
BlockTop ==
    /\ phase = "top"
    /\ Decide(duckRequested)
    /\ duckRequested' = FALSE
    /\ lastOffline' = snapshot.offline
    /\ primed' = TRUE
    /\ phase' = "run"
    /\ left' \in 1..MaxBlock
    /\ UNCHANGED <<want, snapshot>>

-----------------------------------------------------------------------------
(* One iteration of the output loop: the envelope moves, the tail decays,  *)
(* one more sample has entered the line.                                   *)

Lowered == IF level > OutStep THEN level - OutStep ELSE 0

FadeOut == /\ duckState = "out"
           /\ level' = Lowered
           /\ duckState' = IF level' = 0 THEN "bottom" ELSE "out"
           /\ UNCHANGED bottomHold

FadeIn == /\ duckState = "in"
          /\ level' = IF level + InStep < Full THEN level + InStep ELSE Full
          /\ duckState' = IF level' = Full THEN "idle" ELSE "in"
          /\ UNCHANGED bottomHold

\* Mutant: the hold is counted in blocks nobody counts.
HoldNeverCounted == bottomHold

HoldCounted == IF duckState = "bottom" /\ bottomHold > 0
               THEN bottomHold - 1 ELSE bottomHold

Hold == /\ duckState \in {"bottom", "idle"}
        /\ bottomHold' = HoldCounted
        /\ UNCHANGED <<duckState, level>>

Sample ==
    /\ phase = "run"
    /\ FadeOut \/ FadeIn \/ Hold
    /\ tail' = IF tail > 0 THEN tail - 1 ELSE 0
    /\ filled' = IF filled < Refill(applied) THEN filled + 1 ELSE filled
    /\ left' = left - 1
    /\ phase' = IF left = 1 THEN "between" ELSE "run"
    /\ UNCHANGED <<want, duckRequested, askedWhileOut, primed, lastOffline,
                   applied, snapshot, exempt>>

AudioStep == TakeSnapshot \/ BlockTop \/ Sample

Next == SetParams \/ RequestForcedDuck \/ Prepare \/ AudioStep

\* The host keeps delivering blocks while the plugin is active.
Spec == Init /\ [][Next]_vars /\ WF_vars(AudioStep)

-----------------------------------------------------------------------------
(* Properties.                                                             *)

TypeOK ==
    /\ want \in Params /\ snapshot \in Params
    /\ duckRequested \in BOOLEAN /\ askedWhileOut \in BOOLEAN
    /\ duckState \in DuckStates
    /\ level \in 0..Full
    /\ bottomHold \in Nat /\ tail \in Nat /\ left \in Nat /\ filled \in Nat
    /\ primed \in BOOLEAN /\ lastOffline \in BOOLEAN /\ exempt \in BOOLEAN
    /\ applied \in Wiring
    /\ phase \in {"between", "top", "run"}

(* After a latch emptied the lookahead line at the bottom, nothing is      *)
(* audible until the line holds audio again: the in-leg never fades in the *)
(* exact silence of an empty line only to splice real audio in half way up *)
(* the ramp.  (process(): bottomHoldSamples.)                              *)
NoAudioBeforeRefill == level > 0 => exempt \/ filled >= Refill(applied)

(* The decay that stands in for the out-leg when true-peak mode engages is *)
(* over before the processed path becomes audible again, and it never runs *)
(* at the head of a render: the two are never summed at the output.        *)
TailOnlyUnderSilence == tail > 0 => level = 0 /\ duckState = "bottom"

(* Once a block asked for true-peak mode, no sample of that block is       *)
(* produced by the sample-peak composition: engagement never waits for the *)
(* out-leg.                                                                *)
TruePeakFromTheToggle == phase = "run" /\ snapshot.tp => applied.tp

(* Why the three hold (process() and the output loop, step by step): while *)
(* the envelope is down because of a latch, the hold that is left covers   *)
(* what the line still misses and what the tail still has to emit, both    *)
(* counted down by the same loop; only a bottom without a hold rises.      *)
HoldCoversRefill ==
    \/ exempt
    \/ filled >= Refill(applied)
    \/ duckState = "bottom" /\ filled + bottomHold >= Refill(applied)

HoldCoversTail ==
    /\ tail <= TailLength
    /\ tail > 0 => duckState = "bottom" /\ tail <= bottomHold

LevelFollowsState ==
    /\ duckState = "bottom" => level = 0
    /\ duckState = "idle" => level = Full

RunOfBlock ==
    phase = "run" => left > 0 /\ primed /\ (snapshot.tp => applied.tp)

EnvelopeInv == /\ TypeOK
               /\ HoldCoversRefill
               /\ HoldCoversTail
               /\ LevelFollowsState
               /\ RunOfBlock

(* What is wired or latched never changes while the processed path is      *)
(* audible, except where the code adopts directly: the first block after a *)
(* prepare and the entry to an offline render.                             *)
ChangesOnlyInSilence ==
    [][applied' # applied =>
         \/ level' = 0
         \/ ~primed \/ ~primed'
         \/ snapshot.offline /\ ~lastOffline]_vars

(* The gain has no step: it moves by at most one increment per sample,     *)
(* except down to silence under an engagement tail, and up at the two      *)
(* places that adopt directly or reset.                                    *)
NoGainStep ==
    [][level' # level =>
         \/ level' - level <= InStep /\ level - level' <= OutStep
         \/ level' = 0 /\ tail' = TailLength
         \/ ~primed \/ ~primed'
         \/ snapshot.offline /\ ~lastOffline]_vars

(* A forced duck is never lost: the request leads to a silent bottom, or is *)
(* discarded where nothing was playing yet (a prepare, the first block      *)
(* after it) or where an offline render begins and adopts everything.      *)
RequestReachesBottom ==
    duckRequested ~> \/ duckState = "bottom" \/ ~primed
                     \/ snapshot.offline /\ ~lastOffline

(* The envelope never stays down: once no new request and no new parameter *)
(* arrives, the processed path returns to unity gain and stays there.      *)
RecoversToUnity ==
    <>[][want' = want /\ (duckRequested' => duckRequested)]_vars
        => <>[](level = Full)

=============================================================================
