------------------------ MODULE FrozenTrims_proofs -------------------------
(***************************************************************************)
(* The duck and the Freeze memory that is injected at its bottom.          *)
(*                                                                         *)
(* First the duck, for every set of configurations, every latency table,   *)
(* ramp, tail and block length: EnvelopeInv is inductive and implies what  *)
(* the run of DuckEnvelope checks on a small instance.                     *)
(*                                                                         *)
(* Then the Freeze memory, for any number of records and measurements: the *)
(* settled test is sound, a save contains a vector its slot owns, frozen   *)
(* blocks keep the vector across prepares, and the duck that a record asks *)
(* for is as silent as any other.                                          *)
(***************************************************************************)
EXTENDS FrozenTrims, TLAPS

-----------------------------------------------------------------------------
(* The duck.                                                               *)

LEMMA RefillType ==
    ASSUME NEW w \in Wiring
    PROVE  Refill(w) \in Nat /\ Refill(w) >= TailLength
<1>1. OsLat[w.factor] \in Nat
  BY ConfigAssumption DEF Wiring
<1> QED
  BY <1>1, TailAssumption DEF Refill

LEMMA WiringOfType ==
    ASSUME NEW p \in Params
    PROVE  WiringOf(p) \in Wiring /\ WiringOf(p).tp = p.tp
BY ConfigAssumption DEF WiringOf, Params, Wiring

LEMMA InitInv == Init => EnvelopeInv
<1> SUFFICES ASSUME Init PROVE EnvelopeInv
  OBVIOUS
<1>1. TypeOK
  <2>1. want \in Params /\ snapshot \in Params /\ applied \in Wiring
    BY ConfigAssumption DEF Init, Params, Wiring
  <2>2. Full \in 0..Full
    BY LevelAssumption
  <2> QED
    BY <2>1, <2>2 DEF Init, TypeOK, DuckStates
<1> QED
  BY <1>1, TailAssumption DEF Init, EnvelopeInv, HoldCoversRefill, HoldCoversTail,
     LevelFollowsState, RunOfBlock

\* The branches of the block top, each from an arbitrary request.
LEMMA AdoptDirectlyInv ==
    ASSUME EnvelopeInv, phase = "top", NEW requested \in BOOLEAN,
           AdoptDirectly(requested)
    PROVE  /\ duckState' \in DuckStates /\ level' \in 0..Full
           /\ bottomHold' \in Nat /\ tail' \in Nat /\ filled' \in Nat
           /\ askedWhileOut' \in BOOLEAN /\ exempt' \in BOOLEAN
           /\ applied' \in Wiring
           /\ HoldCoversRefill' /\ HoldCoversTail' /\ LevelFollowsState'
           /\ (snapshot.tp => applied'.tp)
<1>1. applied' \in Wiring /\ applied'.tp = snapshot.tp
  BY WiringOfType DEF AdoptDirectly, EnvelopeInv, TypeOK
<1>2. /\ duckState' = "idle" /\ level' = Full /\ level' \in 0..Full
      /\ bottomHold' = 0 /\ tail' = 0 /\ filled' \in Nat
      /\ askedWhileOut' = FALSE /\ exempt' = TRUE
  BY LevelAssumption DEF AdoptDirectly, TailAfterAdoption, EnvelopeInv, TypeOK
<1>3. HoldCoversRefill' /\ HoldCoversTail' /\ LevelFollowsState'
  BY <1>2, TailAssumption
     DEF HoldCoversRefill, HoldCoversTail, LevelFollowsState
<1> QED
  BY <1>1, <1>2, <1>3 DEF DuckStates

LEMMA AtBottomInv ==
    ASSUME EnvelopeInv, phase = "top", NEW requested \in BOOLEAN,
           AtBottom(requested)
    PROVE  /\ duckState' \in DuckStates /\ level' \in 0..Full
           /\ bottomHold' \in Nat /\ tail' \in Nat /\ filled' \in Nat
           /\ askedWhileOut' \in BOOLEAN /\ exempt' \in BOOLEAN
           /\ applied' \in Wiring
           /\ HoldCoversRefill' /\ HoldCoversTail' /\ LevelFollowsState'
           /\ (snapshot.tp => applied'.tp)
<1>1. applied' \in Wiring /\ applied' = WiringOf(snapshot)
      /\ applied'.tp = snapshot.tp
  BY WiringOfType DEF AtBottom, EnvelopeInv, TypeOK
<1>2. Refill(applied') \in Nat /\ Refill(applied') >= TailLength
  BY <1>1, RefillType
<1>3. applied \in Wiring /\ Refill(applied) \in Nat
  BY RefillType DEF EnvelopeInv, TypeOK
<1>5. bottomHold' = IF LatchWanted THEN Refill(applied') ELSE bottomHold
  BY DEF AtBottom, HoldAfter
<1>6. /\ bottomHold' \in Nat /\ filled' \in Nat /\ level' = 0
      /\ exempt' \in BOOLEAN /\ askedWhileOut' \in BOOLEAN
      /\ level' \in 0..Full
  <2>1. bottomHold' \in Nat /\ filled' \in Nat
    BY <1>2, <1>5 DEF AtBottom, EnvelopeInv, TypeOK
  <2>2. level' = 0 /\ 0 \in 0..Full
    BY LevelAssumption DEF AtBottom
  <2>3. exempt' = (exempt /\ ~LatchWanted) /\ askedWhileOut' = FALSE
    BY DEF AtBottom
  <2>4. exempt' \in BOOLEAN /\ askedWhileOut' \in BOOLEAN
    BY <2>3
  <2> QED
    BY <2>1, <2>2, <2>4
<1>7. duckState' \in {"bottom", "in"} /\ (bottomHold' > 0 => duckState' = "bottom")
  BY DEF AtBottom
<1>8. CASE LatchWanted
  <2>1. bottomHold' = Refill(applied') /\ filled' = 0
    BY <1>5, <1>8 DEF AtBottom
  <2>2. tail' \in 0..TailLength /\ bottomHold' >= TailLength
        /\ bottomHold' > 0
    BY <1>2, <2>1, TailAssumption
       DEF AtBottom, EnvelopeInv, TypeOK, HoldCoversTail
  <2> QED
    BY <1>1, <1>2, <1>6, <1>7, <2>1, <2>2, TailAssumption
       DEF DuckStates, HoldCoversRefill, HoldCoversTail, LevelFollowsState
<1>9. CASE ~LatchWanted
  <2>1. ~EngagesTp /\ duckState = "bottom"
    <3>1. applied.tp = snapshot.tp
      BY <1>9 DEF LatchWanted, WiringOf
    <3> QED
      BY <3>1 DEF EngagesTp, AtBottom
  <2>2. OsLat[applied'.factor] = OsLat[applied.factor]
    BY <1>1, <1>9 DEF LatchWanted
  <2>3. Refill(applied') = Refill(applied)
    BY <2>2 DEF Refill
  <2>4. /\ bottomHold' = bottomHold /\ filled' = filled /\ tail' = tail
        /\ (exempt => exempt')
    BY <1>5, <1>9, <2>1 DEF AtBottom
  <2>5. HoldCoversTail'
    BY <1>7, <2>4 DEF EnvelopeInv, TypeOK, HoldCoversTail
  <2>6. HoldCoversRefill'
    <3>1. CASE exempt
      BY <2>4, <3>1 DEF HoldCoversRefill
    <3>2. CASE filled >= Refill(applied)
      BY <2>3, <2>4, <3>2 DEF HoldCoversRefill
    <3>3. CASE filled < Refill(applied) /\ filled + bottomHold >= Refill(applied)
      <4>1. bottomHold' > 0
        BY <1>3, <2>4, <3>3 DEF EnvelopeInv, TypeOK
      <4> QED
        BY <1>7, <2>3, <2>4, <3>3, <4>1 DEF HoldCoversRefill
    <3> QED
      BY <1>3, <3>1, <3>2, <3>3 DEF EnvelopeInv, TypeOK, HoldCoversRefill
  <2> QED
    BY <1>1, <1>6, <1>7, <2>4, <2>5, <2>6
       DEF EnvelopeInv, TypeOK, DuckStates, LevelFollowsState
<1> QED
  BY <1>8, <1>9

\* The three branches that change nothing but the state of the envelope.  In
\* none of them is a tail running: a tail keeps the envelope at the bottom.
LEMMA WaitingInv ==
    ASSUME EnvelopeInv, phase = "top", NEW requested \in BOOLEAN,
           \/ StartOutLeg(requested)
           \/ AskedDuringOutLeg(requested)
           \/ NothingToDo(requested)
    PROVE  /\ duckState' \in DuckStates /\ level' \in 0..Full
           /\ bottomHold' \in Nat /\ tail' \in Nat /\ filled' \in Nat
           /\ askedWhileOut' \in BOOLEAN /\ exempt' \in BOOLEAN
           /\ applied' \in Wiring
           /\ HoldCoversRefill' /\ HoldCoversTail' /\ LevelFollowsState'
           /\ (snapshot.tp => applied'.tp)
<1>1. /\ duckState # "bottom" /\ duckState' # "bottom"
      /\ duckState' \in DuckStates /\ level' = level
      /\ (duckState' = "idle" => duckState = "idle")
      /\ applied' = applied /\ tail' = tail /\ bottomHold' = bottomHold
      /\ filled' = filled /\ exempt' = exempt
      /\ askedWhileOut' \in BOOLEAN
  BY DEF StartOutLeg, AskedDuringOutLeg, NothingToDo, OutLegLevel,
         EnvelopeInv, TypeOK, DuckStates
<1>2. snapshot.tp => applied.tp
  BY DEF StartOutLeg, AskedDuringOutLeg, NothingToDo, EngagesTp,
         EnvelopeInv, TypeOK, DuckStates
<1>3. HoldCoversRefill'
  BY <1>1 DEF EnvelopeInv, HoldCoversRefill
<1>4. HoldCoversTail'
  BY <1>1 DEF EnvelopeInv, HoldCoversTail
<1>5. LevelFollowsState'
  BY <1>1 DEF EnvelopeInv, LevelFollowsState
<1> QED
  BY <1>1, <1>2, <1>3, <1>4, <1>5 DEF EnvelopeInv, TypeOK

LEMMA BlockTopInv == EnvelopeInv /\ BlockTop => EnvelopeInv'
<1> SUFFICES ASSUME EnvelopeInv, BlockTop PROVE EnvelopeInv'
  OBVIOUS
<1>1. duckRequested \in BOOLEAN /\ phase = "top" /\ Decide(duckRequested)
  BY DEF EnvelopeInv, TypeOK, BlockTop
<1>2. /\ duckState' \in DuckStates /\ level' \in 0..Full
      /\ bottomHold' \in Nat /\ tail' \in Nat /\ filled' \in Nat
      /\ askedWhileOut' \in BOOLEAN /\ exempt' \in BOOLEAN
      /\ applied' \in Wiring
      /\ HoldCoversRefill' /\ HoldCoversTail' /\ LevelFollowsState'
      /\ (snapshot.tp => applied'.tp)
  <2>1. CASE AdoptDirectly(duckRequested)
    BY <1>1, <2>1, AdoptDirectlyInv
  <2>2. CASE AtBottom(duckRequested)
    BY <1>1, <2>2, AtBottomInv
  <2>3. CASE StartOutLeg(duckRequested)
    BY <1>1, <2>3, WaitingInv
  <2>4. CASE AskedDuringOutLeg(duckRequested)
    BY <1>1, <2>4, WaitingInv
  <2>5. CASE NothingToDo(duckRequested)
    BY <1>1, <2>5, WaitingInv
  <2> QED
    BY <1>1, <2>1, <2>2, <2>3, <2>4, <2>5 DEF Decide
<1>3. /\ want' = want /\ snapshot' = snapshot /\ duckRequested' = FALSE
      /\ lastOffline' = snapshot.offline /\ primed' = TRUE /\ phase' = "run"
      /\ left' \in 1..MaxBlock
  BY DEF BlockTop
<1>4. snapshot.offline \in BOOLEAN
  BY ConfigAssumption DEF EnvelopeInv, TypeOK, Params
<1>5. left' \in Nat /\ left' > 0
  BY <1>3, LevelAssumption
<1>6. TypeOK'
  BY <1>2, <1>3, <1>4, <1>5 DEF EnvelopeInv, TypeOK
<1>7. RunOfBlock'
  BY <1>2, <1>3, <1>5 DEF RunOfBlock
<1> QED
  BY <1>2, <1>6, <1>7 DEF EnvelopeInv

LEMMA SampleInv == EnvelopeInv /\ Sample => EnvelopeInv'
<1> SUFFICES ASSUME EnvelopeInv, Sample PROVE EnvelopeInv'
  OBVIOUS
<1>1. applied \in Wiring /\ Refill(applied) \in Nat
  BY RefillType DEF EnvelopeInv, TypeOK
<1>2. /\ applied' = applied /\ exempt' = exempt
      /\ tail' = (IF tail > 0 THEN tail - 1 ELSE 0)
      /\ filled' = (IF filled < Refill(applied) THEN filled + 1 ELSE filled)
      /\ left' = left - 1 /\ phase' = (IF left = 1 THEN "between" ELSE "run")
      /\ left > 0 /\ left \in Nat /\ tail \in Nat /\ filled \in Nat
      /\ bottomHold \in Nat /\ level \in 0..Full
  BY DEF Sample, EnvelopeInv, TypeOK, RunOfBlock
<1>3. Refill(applied') = Refill(applied)
  BY <1>2
<1>4. /\ duckState' \in DuckStates /\ level' \in 0..Full
      /\ bottomHold' \in Nat /\ LevelFollowsState'
      /\ duckState = "bottom" => /\ duckState' = "bottom"
                                 /\ bottomHold' >= bottomHold - 1
      /\ duckState # "bottom" => bottomHold' = bottomHold
  <2>1. CASE FadeOut
    BY <1>2, <2>1, LevelAssumption
       DEF FadeOut, Lowered, DuckStates, LevelFollowsState, EnvelopeInv
  <2>2. CASE FadeIn
    BY <1>2, <2>2, LevelAssumption
       DEF FadeIn, DuckStates, LevelFollowsState, EnvelopeInv
  <2>3. CASE Hold
    BY <1>2, <2>3, LevelAssumption
       DEF Hold, HoldCounted, DuckStates, LevelFollowsState, EnvelopeInv
  <2> QED
    BY <2>1, <2>2, <2>3 DEF Sample
<1>5. TypeOK'
  <2>1. tail' \in Nat /\ filled' \in Nat /\ left' \in Nat
    BY <1>2
  <2> QED
    BY <1>2, <1>4, <2>1 DEF Sample, EnvelopeInv, TypeOK
<1>6. HoldCoversTail'
  BY <1>2, <1>4, TailAssumption DEF EnvelopeInv, HoldCoversTail
<1>7. HoldCoversRefill'
  BY <1>1, <1>2, <1>3, <1>4 DEF EnvelopeInv, HoldCoversRefill
<1>8. RunOfBlock'
  BY <1>2 DEF Sample, EnvelopeInv, TypeOK, RunOfBlock
<1> QED
  BY <1>4, <1>5, <1>6, <1>7, <1>8 DEF EnvelopeInv

LEMMA PrepareInv == EnvelopeInv /\ Prepare => EnvelopeInv'
<1> SUFFICES ASSUME EnvelopeInv, Prepare PROVE EnvelopeInv'
  OBVIOUS
<1>1. applied' \in Wiring
  BY ConfigAssumption DEF Prepare, EnvelopeInv, TypeOK, Wiring
<1>2. TypeOK'
  <2>1. Full \in 0..Full
    BY LevelAssumption
  <2> QED
    BY <1>1, <2>1 DEF Prepare, EnvelopeInv, TypeOK, DuckStates, blockVars
<1> QED
  BY <1>2, TailAssumption, LevelAssumption
     DEF Prepare, EnvelopeInv, HoldCoversRefill, HoldCoversTail,
         LevelFollowsState, RunOfBlock, blockVars

LEMMA NextInv == EnvelopeInv /\ [Next]_vars => EnvelopeInv'
<1> SUFFICES ASSUME EnvelopeInv, [Next]_vars PROVE EnvelopeInv'
  OBVIOUS
<1> USE DEF EnvelopeInv, TypeOK, HoldCoversRefill, HoldCoversTail,
            LevelFollowsState, RunOfBlock
<1>1. CASE SetParams
  BY <1>1 DEF SetParams, envelopeVars, blockVars
<1>2. CASE RequestForcedDuck
  BY <1>2 DEF RequestForcedDuck, envelopeVars, blockVars
<1>3. CASE Prepare
  BY <1>3, PrepareInv
<1>4. CASE TakeSnapshot
  BY <1>4 DEF TakeSnapshot, envelopeVars
<1>5. CASE BlockTop
  BY <1>5, BlockTopInv
<1>6. CASE Sample
  BY <1>6, SampleInv
<1>7. CASE UNCHANGED vars
  BY <1>7 DEF vars, envelopeVars, blockVars
<1> QED
  BY <1>1, <1>2, <1>3, <1>4, <1>5, <1>6, <1>7 DEF Next, AudioStep

(* Every reachable state of the envelope satisfies the invariant: the hold *)
(* process() counts down always covers the refill and the tail.            *)
THEOREM EnvelopeInvariant == Spec => []EnvelopeInv
<1>1. Init => EnvelopeInv
  BY InitInv
<1>2. EnvelopeInv /\ [Next]_vars => EnvelopeInv'
  BY NextInv
<1> QED
  BY <1>1, <1>2, PTL DEF Spec

(* The variables stay in their ranges: the gain in 0..Full in particular.  *)
THEOREM TypeCorrect == Spec => []TypeOK
<1>1. EnvelopeInv => TypeOK
  BY DEF EnvelopeInv
<1> QED
  BY <1>1, EnvelopeInvariant, PTL

(* Nothing is audible from a line a latch emptied until it has refilled,   *)
(* whatever the latencies, ramps and block lengths.                        *)
THEOREM RefilledBeforeAudible == Spec => []NoAudioBeforeRefill
<1>1. EnvelopeInv => NoAudioBeforeRefill
  BY DEF EnvelopeInv, HoldCoversRefill, LevelFollowsState,
         NoAudioBeforeRefill
<1> QED
  BY <1>1, EnvelopeInvariant, PTL

(* The engagement tail and the processed path are never summed: it follows *)
(* from the one fact about durations, TailLength <= Delay.                 *)
THEOREM TailUnderSilence == Spec => []TailOnlyUnderSilence
<1>1. EnvelopeInv => TailOnlyUnderSilence
  BY DEF EnvelopeInv, HoldCoversTail, LevelFollowsState,
         TailOnlyUnderSilence
<1> QED
  BY <1>1, EnvelopeInvariant, PTL

(* No sample of a block that asks for true-peak mode is produced by the    *)
(* sample-peak composition.                                                *)
THEOREM TruePeakAtOnce == Spec => []TruePeakFromTheToggle
<1>1. EnvelopeInv => TruePeakFromTheToggle
  BY DEF EnvelopeInv, RunOfBlock, TruePeakFromTheToggle
<1> QED
  BY <1>1, EnvelopeInvariant, PTL

(* What is wired or latched never changes while the processed path is      *)
(* audible, save where the code adopts directly: in process() only the     *)
(* bottom and the direct branch assign it, in prepare() the reset.         *)
THEOREM SilentChanges == Spec => ChangesOnlyInSilence
<1>1. ASSUME EnvelopeInv, Next, applied' # applied
      PROVE  \/ level' = 0
             \/ ~primed \/ ~primed'
             \/ snapshot.offline /\ ~lastOffline
  <2>1. CASE Prepare
    BY <2>1 DEF Prepare
  <2>2. CASE BlockTop
    BY <1>1, <2>2 DEF BlockTop, Decide, AdoptDirectly, AtBottom, StartOutLeg,
                      AskedDuringOutLeg, NothingToDo, EnteringOffline
  <2> QED
    BY <1>1, <2>1, <2>2 DEF Next, AudioStep, SetParams, RequestForcedDuck,
                            TakeSnapshot, Sample
<1>2. EnvelopeInv /\ [Next]_vars =>
        [applied' # applied => \/ level' = 0
                               \/ ~primed \/ ~primed'
                               \/ snapshot.offline /\ ~lastOffline]_vars
  BY <1>1
<1> QED
  BY <1>2, EnvelopeInvariant, PTL DEF Spec, ChangesOnlyInSilence

(* The gain moves by at most one increment per sample, save under a tail   *)
(* and where the code adopts directly or resets.                           *)
THEOREM GainContinuity == Spec => NoGainStep
<1>1. ASSUME EnvelopeInv, Next, level' # level
      PROVE  \/ level' - level <= InStep /\ level - level' <= OutStep
             \/ level' = 0 /\ tail' = TailLength
             \/ ~primed \/ ~primed'
             \/ snapshot.offline /\ ~lastOffline
  <2>1. CASE Prepare
    BY <2>1 DEF Prepare
  <2>2. CASE BlockTop
    <3>1. CASE AtBottom(duckRequested)
      BY <1>1, <3>1 DEF AtBottom, EnvelopeInv, LevelFollowsState
    <3> QED
      BY <1>1, <2>2, <3>1 DEF BlockTop, Decide, AdoptDirectly, StartOutLeg,
         AskedDuringOutLeg, NothingToDo, EnteringOffline, OutLegLevel
  <2>3. CASE Sample
    <3>1. level \in 0..Full
      BY <1>1 DEF EnvelopeInv, TypeOK
    <3>2. CASE FadeOut
      BY <3>1, <3>2, LevelAssumption DEF FadeOut, Lowered
    <3>3. CASE FadeIn
      BY <3>1, <3>3, LevelAssumption DEF FadeIn
    <3>4. CASE Hold
      BY <1>1, <3>4 DEF Hold
    <3> QED
      BY <2>3, <3>2, <3>3, <3>4 DEF Sample
  <2> QED
    BY <1>1, <2>1, <2>2, <2>3
       DEF Next, AudioStep, SetParams, RequestForcedDuck, TakeSnapshot,
           envelopeVars
<1>2. EnvelopeInv /\ [Next]_vars =>
        [level' # level =>
           \/ level' - level <= InStep /\ level - level' <= OutStep
           \/ level' = 0 /\ tail' = TailLength
           \/ ~primed \/ ~primed'
           \/ snapshot.offline /\ ~lastOffline]_vars
  BY <1>1
<1> QED
  BY <1>2, EnvelopeInvariant, PTL DEF Spec, NoGainStep

-----------------------------------------------------------------------------
(* The Freeze memory.                                                      *)

VectorsOrNone == Vectors \cup {None}
Thens == {"save", "switch"}

\* What a call carries, by how far it has come.
Calls == [pc : {"idle"}]
         \cup [pc : {"capture", "check", "read"}, then : Thens]
         \cup [pc : {"captured"}, then : Thens, slot : Slots]
         \cup [pc : {"params", "mirror"}, slot : Slots, other : Slots]
         \cup [pc : {"base", "stage", "number", "flag", "last"}, other : Slots]

Steps == {"none", "request", "record", "first", "second", "decide", "injected",
          "acknowledge", "measured"}

WrapperType ==
    /\ freeze \in BOOLEAN
    /\ mirror \in VectorsOrNone /\ restored \in VectorsOrNone
    /\ stored \in Slots /\ session \in [live : Slots, other : Slots]
    /\ call \in Calls
    /\ call.pc = "stage" => mirror # None

RecordType ==
    /\ staged \in Vectors /\ frozenPending \in BOOLEAN
    /\ stageSeq \in Nat /\ appliedSeq \in Nat
    /\ pend \in [have : BOOLEAN, seq : Nat, vec : Vectors]
    /\ appliedSeq <= pend.seq /\ pend.seq <= stageSeq
    /\ everStaged \subseteq Vectors

EngineType ==
    /\ asked \in BOOLEAN /\ blockFreeze \in BOOLEAN /\ step \in Steps
    /\ trims \in Vectors /\ ret \in Vectors /\ held \in Vectors
    /\ carry \in [pending : BOOLEAN, vec : Vectors]
    /\ measures \in Nat /\ measures <= MaxMeasures
    /\ publishedAt \in Nat /\ publishedAt <= measures
    /\ step = "measured" => publishedAt < measures
    /\ gen \in Nat /\ base \in Nat /\ base <= gen

\* The block top's accesses come before the envelope's decision, and the
\* count and acknowledgement of an injected vector right after it; a measured
\* one is counted before the block returns.
PhaseInv ==
    /\ phase = "top" <=> step \notin {"none", "injected", "acknowledge", "measured"}
    /\ step \in {"injected", "acknowledge"} => phase = "run"
    /\ step = "measured" => phase = "between"

\* A record whose number is the last staged is the record last staged, and no
\* more than the numbers tells the wrapper that it was injected.
RecordInv ==
    /\ pend.have /\ step # "second" /\ pend.seq = stageSeq /\ call.pc # "number"
         => pend.vec = staged
    /\ step \in {"injected", "acknowledge"} =>
         pend.have /\ injected = pend.vec /\ ret = pend.vec
    /\ SettledMeansInjected

\* Whatever waits to be injected was staged.
StagedInv ==
    /\ pend.have => pend.vec \in everStaged
    /\ frozenPending \/ step \in {"first", "second"} \/ call.pc \in {"number", "flag"}
         => staged \in everStaged

\* A vector published since the slot was adopted is its own, or staged before,
\* and so is one that is stored and not counted yet; once the slot's record is
\* acknowledged, it is its own.
OwnerInv ==
    /\ restored # None => /\ restored = mirror /\ staged = mirror
                          /\ call.pc \notin {"mirror", "base", "stage"}
                          /\ call.pc # "number" => stageSeq > 0
    /\ gen # base \/ step \in {"injected", "measured"}
         => ret > publishedAt \/ ret \in everStaged
    /\ restored # None /\ call.pc # "number" /\ stageSeq = appliedSeq
         => ret = mirror \/ ret > publishedAt
    /\ step = "measured" => ret = measures
    /\ call.pc \in {"check", "read"} => gen # base
    /\ call.pc = "read" => stageSeq = appliedSeq
    /\ NoLatchPublishedBefore

\* The vector a frozen block plays, or will play once it is carried over a
\* prepare, is the one held.
HeldInv ==
    /\ phase = "run" => ~carry.pending /\ (blockFreeze => trims = held)
    /\ phase # "run" => held = StashOnce

FrozenInv ==
    /\ EnvelopeInv /\ WrapperType /\ RecordType /\ EngineType /\ PhaseInv
    /\ RecordInv /\ StagedInv /\ OwnerInv /\ HeldInv


-----------------------------------------------------------------------------
(* The call in progress.                                                   *)

LEMMA VectorsAre == /\ Vectors \subseteq Nat /\ Zeros \in Vectors
                    /\ None \notin Vectors /\ None \in VectorsOrNone
BY FrozenAssumption DEF Vectors, Zeros, None, VectorsOrNone

LEMMA CallIs ==
    ASSUME NEW c \in Calls
    PROVE  /\ c.pc \in CallPcs
           /\ c.pc \in {"capture", "check", "read"} =>
                 c \in [pc : {"capture", "check", "read"}, then : Thens]
           /\ c.pc = "captured" => c \in [pc : {"captured"}, then : Thens, slot : Slots]
           /\ c.pc \in {"params", "mirror"} =>
                 c \in [pc : {"params", "mirror"}, slot : Slots, other : Slots]
           /\ c.pc \in {"base", "stage", "number", "flag", "last"} =>
                 c \in [pc : {"base", "stage", "number", "flag", "last"}, other : Slots]
BY DEF Calls, CallPcs

LEMMA CapturedIs ==
    ASSUME WrapperType, call.pc \in {"capture", "check", "read"},
           NEW v \in VectorsOrNone
    PROVE  /\ Captured(v) \in Calls /\ Captured(v).pc = "captured"
           /\ Captured(v).slot.freeze = freeze /\ Captured(v).slot.frozen = v
<1>1. call.then \in Thens
  BY CallIs DEF WrapperType
<1>2. [freeze |-> freeze, frozen |-> v] \in Slots
  BY DEF WrapperType, Slots, VectorsOrNone
<1> QED
  BY <1>1, <1>2 DEF Captured, Calls

\* The steps of the wrapper that write only its own call and slots.
LEMMA CallKeeps ==
    ASSUME FrozenInv, WrapperType', NoLatchPublishedBefore',
           call'.pc \in {"check", "read"} => gen # base,
           call'.pc = "read" => stageSeq = appliedSeq,
           call.pc # "number", call'.pc \notin {"number", "flag"},
           restored # None => call'.pc \notin {"mirror", "base", "stage"},
           duckRequested' \in BOOLEAN,
           UNCHANGED <<duckVars, freeze, mirror, base, recordVars, engineVars,
                       publishVars, ghostVars>>
    PROVE  FrozenInv'
<1> USE DEF FrozenInv, duckVars, recordVars, engineVars, publishVars, ghostVars
<1>1. EnvelopeInv'
  BY DEF envelopeVars, blockVars, EnvelopeInv, TypeOK, HoldCoversRefill, HoldCoversTail,
         LevelFollowsState, RunOfBlock
<1>2. RecordType' /\ EngineType'
  BY DEF RecordType, EngineType
<1>3. PhaseInv'
  BY DEF PhaseInv, blockVars
<1>4. RecordInv' /\ StagedInv'
  BY DEF RecordInv, StagedInv, SettledMeansInjected
<1>5. OwnerInv'
  BY DEF OwnerInv
<1>6. HeldInv'
  BY DEF HeldInv, StashOnce, blockVars
<1> QED
  BY <1>1, <1>2, <1>3, <1>4, <1>5, <1>6


LEMMA CaptureKeeps ==
    ASSUME FrozenInv,
           \/ BeginCapture("save") \/ BeginCapture("switch")
           \/ CaptureGeneration \/ CaptureCheck \/ CaptureRead
    PROVE  FrozenInv'
<1> USE DEF FrozenInv
<1>1. /\ call.pc \in {"idle", "capture", "check", "read"}
      /\ UNCHANGED <<freeze, mirror, stored, session, restored>>
      /\ UNCHANGED <<duckVars, base, recordVars, engineVars, publishVars, ghostVars>>
  BY DEF BeginCapture, CaptureGeneration, CaptureCheck, CaptureRead, ghostVars, Idle
<1>2. duckRequested' \in BOOLEAN
  BY DEF BeginCapture, CaptureGeneration, CaptureCheck, CaptureRead, EnvelopeInv, TypeOK
<1>3. call \in Calls /\ freeze \in BOOLEAN /\ mirror \in VectorsOrNone
  BY DEF WrapperType
<1>4. ret \in VectorsOrNone /\ None \in VectorsOrNone
  BY VectorsAre DEF EngineType, VectorsOrNone
<1>5. /\ call' \in Calls /\ call'.pc \in {"capture", "check", "read", "captured"}
      /\ call'.pc \in {"check", "read"} => gen # base
      /\ call'.pc = "read" => stageSeq = appliedSeq
      /\ call'.pc = "captured" /\ call'.slot.freeze =>
            \/ call'.slot.frozen = mirror
            \/ call.pc = "read" /\ call'.slot.frozen = ret
  <2>1. CASE BeginCapture("save") \/ BeginCapture("switch")
    BY <2>1 DEF BeginCapture, Calls, Thens
  <2>2. CASE CaptureGeneration
    <3>1. CASE freeze /\ gen # base
      <4>1. call \in [pc : {"capture", "check", "read"}, then : Thens]
        BY <1>3, <2>2, CallIs DEF CaptureGeneration
      <4>2. call' = [call EXCEPT !.pc = "check"]
        BY <2>2, <3>1 DEF CaptureGeneration
      <4>3. call' \in [pc : {"capture", "check", "read"}, then : Thens] /\ call'.pc = "check"
        BY <4>1, <4>2
      <4> QED
        BY <3>1, <4>3 DEF Calls
    <3>2. CASE ~ (freeze /\ gen # base)
      <4> DEFINE v == IF freeze THEN mirror ELSE None
      <4>1. call' = Captured(v) /\ call.pc = "capture" /\ v \in VectorsOrNone
        BY <1>3, <1>4, <2>2, <3>2 DEF CaptureGeneration
      <4>2. freeze => v = mirror
        OBVIOUS
      <4> HIDE DEF v
      <4>3. call' \in Calls /\ call'.pc = "captured" /\ call'.slot.freeze = freeze
            /\ call'.slot.frozen = v
        BY <4>1, CapturedIs
      <4> QED
        BY <4>2, <4>3
    <3> QED
      BY <3>1, <3>2
  <2>3. CASE CaptureCheck
    <3>1. CASE RestorePending
      <4>1. call' = Captured(mirror) /\ call.pc = "check"
        BY <2>3, <3>1 DEF CaptureCheck
      <4>2. call' \in Calls /\ call'.pc = "captured" /\ call'.slot.frozen = mirror
        BY <1>3, <4>1, CapturedIs
      <4> QED
        BY <4>2
    <3>2. CASE ~RestorePending
      <4>1. call \in [pc : {"capture", "check", "read"}, then : Thens]
        BY <1>3, <2>3, CallIs DEF CaptureCheck
      <4>2. call' = [call EXCEPT !.pc = "read"] /\ call.pc = "check"
        BY <2>3, <3>2 DEF CaptureCheck
      <4>3. call' \in [pc : {"capture", "check", "read"}, then : Thens] /\ call'.pc = "read"
        BY <4>1, <4>2
      <4>4. gen # base /\ stageSeq = appliedSeq
        BY <3>2, <4>2 DEF OwnerInv, RestorePending
      <4> QED
        BY <4>3, <4>4 DEF Calls
    <3> QED
      BY <3>1, <3>2
  <2>4. CASE CaptureRead
    <3>1. call' = Captured(ret) /\ call.pc = "read"
      BY <2>4 DEF CaptureRead
    <3>2. call' \in Calls /\ call'.pc = "captured" /\ call'.slot.frozen = ret
      BY <1>4, <3>1, CapturedIs
    <3> QED
      BY <3>1, <3>2
  <2> QED
    BY <2>1, <2>2, <2>3, <2>4
<1>6. WrapperType'
  BY <1>1, <1>5 DEF WrapperType
<1>7. NoLatchPublishedBefore'
  <2>1. call.pc = "read" /\ call'.slot.frozen = ret =>
          \/ ret = mirror \/ ret > publishedAt \/ (restored = None /\ ret \in everStaged)
    BY DEF OwnerInv
  <2>2. UNCHANGED <<mirror, publishedAt, restored, everStaged>>
    BY <1>1 DEF ghostVars
  <2> QED
    BY <1>5, <2>1, <2>2 DEF NoLatchPublishedBefore
<1> QED
  BY <1>1, <1>2, <1>5, <1>6, <1>7, CallKeeps

LEMMA ReturnKeeps ==
    ASSUME FrozenInv, \/ FinishSave \/ SwitchSlots \/ LoadSession \/ FinishAdoption
    PROVE  FrozenInv'
<1> USE DEF FrozenInv
<1>1. /\ call.pc \in {"idle", "captured", "last"} /\ call'.pc \in {"idle", "params"}
      /\ UNCHANGED <<freeze, mirror, restored>>
      /\ UNCHANGED <<duckVars, base, recordVars, engineVars, publishVars, ghostVars>>
  BY DEF FinishSave, SwitchSlots, LoadSession, FinishAdoption, ghostVars, Idle, Adopting
<1>2. duckRequested' \in BOOLEAN
  BY DEF FinishSave, SwitchSlots, LoadSession, FinishAdoption, EnvelopeInv, TypeOK
<1>3. call \in Calls /\ stored \in Slots /\ session \in [live : Slots, other : Slots]
  BY DEF WrapperType
<1>4. /\ call' \in Calls /\ stored' \in Slots
      /\ session' \in [live : Slots, other : Slots]
  <2>1. CASE FinishSave
    <3>1. call.slot \in Slots
      BY <1>3, <2>1, CallIs DEF FinishSave
    <3> QED
      BY <1>3, <2>1, <3>1 DEF FinishSave, Calls, Idle
  <2>2. CASE SwitchSlots
    <3>1. call.slot \in Slots
      BY <1>3, <2>2, CallIs DEF SwitchSlots
    <3> QED
      BY <1>3, <2>2, <3>1 DEF SwitchSlots, Calls, Adopting
  <2>3. CASE LoadSession
    BY <1>3, <2>3 DEF LoadSession, Calls, Adopting
  <2>4. CASE FinishAdoption
    <3>1. call.other \in Slots
      BY <1>3, <2>4, CallIs DEF FinishAdoption
    <3> QED
      BY <1>3, <2>4, <3>1 DEF FinishAdoption, Calls, Idle
  <2> QED
    BY <2>1, <2>2, <2>3, <2>4
<1>5. WrapperType'
  BY <1>1, <1>4 DEF WrapperType
<1>6. NoLatchPublishedBefore'
  BY <1>1 DEF NoLatchPublishedBefore
<1> QED
  BY <1>1, <1>2, <1>5, <1>6, CallKeeps


LEMMA EnvelopeSame ==
    ASSUME EnvelopeInv, UNCHANGED duckVars, duckRequested' \in BOOLEAN
    PROVE  EnvelopeInv'
BY DEF duckVars, envelopeVars, blockVars, EnvelopeInv, TypeOK, HoldCoversRefill,
       HoldCoversTail, LevelFollowsState, RunOfBlock

\* The steps of an adoption.  None of them is the audio thread's.
LEMMA AudioSame ==
    ASSUME FrozenInv, UNCHANGED <<duckVars, duckRequested, engineVars, publishVars>>,
           UNCHANGED <<injected, held>>, base' \in Nat, base' <= gen,
           publishedAt' \in Nat, publishedAt' <= measures,
           step = "measured" => publishedAt' < measures
    PROVE  EnvelopeInv' /\ EngineType' /\ PhaseInv' /\ HeldInv'
<1> USE DEF FrozenInv, engineVars, publishVars
<1>1. EnvelopeInv'
  <2>1. duckRequested' \in BOOLEAN
    BY DEF EnvelopeInv, TypeOK
  <2> QED
    BY <2>1, EnvelopeSame
<1>2. EngineType'
  BY DEF EngineType
<1>3. PhaseInv'
  BY DEF PhaseInv, duckVars, blockVars
<1>4. HeldInv'
  BY DEF HeldInv, StashOnce, duckVars, blockVars
<1> QED
  BY <1>1, <1>2, <1>3, <1>4

LEMMA SetFreezeKeeps == ASSUME FrozenInv, SetFreeze PROVE FrozenInv'
<1> USE DEF FrozenInv, SetFreeze
<1>1. EnvelopeInv' /\ EngineType' /\ PhaseInv' /\ HeldInv'
  BY AudioSame DEF EngineType
<1>2. WrapperType'
  BY VectorsAre DEF WrapperType
<1>3. RecordType' /\ RecordInv' /\ StagedInv'
  BY DEF recordVars, engineVars, publishVars, RecordType, RecordInv, StagedInv,
         SettledMeansInjected
<1>4. OwnerInv'
  <2>1. call.pc = "idle"
    BY DEF Idle
  <2> QED
    BY <2>1 DEF OwnerInv, NoLatchPublishedBefore, publishVars, engineVars
<1> QED
  BY <1>1, <1>2, <1>3, <1>4

LEMMA AdoptParamsKeeps == ASSUME FrozenInv, AdoptParams PROVE FrozenInv'
<1> USE DEF FrozenInv, AdoptParams
<1>1. EnvelopeInv' /\ EngineType' /\ PhaseInv' /\ HeldInv'
  BY AudioSame DEF EngineType
<1>2. call \in [pc : {"params", "mirror"}, slot : Slots, other : Slots]
  BY CallIs DEF WrapperType
<1>3. call' \in [pc : {"params", "mirror"}, slot : Slots, other : Slots] /\ call'.pc = "mirror"
  BY <1>2
<1>4. freeze' \in BOOLEAN
  BY <1>2 DEF Slots
<1>5. WrapperType'
  BY <1>3, <1>4, VectorsAre DEF WrapperType, Calls
<1>6. RecordType' /\ RecordInv' /\ StagedInv'
  BY <1>3 DEF recordVars, engineVars, publishVars, RecordType, RecordInv, StagedInv,
              SettledMeansInjected
<1>7. OwnerInv'
  BY <1>3 DEF OwnerInv, NoLatchPublishedBefore, publishVars, engineVars
<1> QED
  BY <1>1, <1>5, <1>6, <1>7

LEMMA AdoptMirrorKeeps == ASSUME FrozenInv, AdoptMirror PROVE FrozenInv'
<1> USE DEF FrozenInv, AdoptMirror, ghostVars
<1>1. EnvelopeInv' /\ EngineType' /\ PhaseInv' /\ HeldInv'
  BY AudioSame DEF EngineType
<1>2. call \in [pc : {"params", "mirror"}, slot : Slots, other : Slots]
  BY CallIs DEF WrapperType
<1>3. call' \in Calls /\ call'.pc = "base" /\ mirror' \in VectorsOrNone
  BY <1>2 DEF Calls, Slots, VectorsOrNone
<1>4. WrapperType'
  BY <1>3 DEF WrapperType
<1>5. RecordType' /\ RecordInv' /\ StagedInv'
  BY <1>3 DEF recordVars, engineVars, publishVars, RecordType, RecordInv, StagedInv,
              SettledMeansInjected
<1>6. OwnerInv'
  BY <1>3 DEF OwnerInv, NoLatchPublishedBefore, publishVars, engineVars
<1> QED
  BY <1>1, <1>4, <1>5, <1>6

LEMMA AdoptBaseKeeps == ASSUME FrozenInv, AdoptBase PROVE FrozenInv'
<1> USE DEF FrozenInv, AdoptBase, OwnershipBoundary
<1>1. EnvelopeInv' /\ EngineType' /\ PhaseInv' /\ HeldInv'
  <2>1. /\ publishedAt' \in Nat /\ publishedAt' <= measures
        /\ step = "measured" => publishedAt' < measures
    BY DEF EngineType, PublishedMeasures
  <2> QED
    BY <2>1, AudioSame DEF EngineType
<1>2. call \in [pc : {"base", "stage", "number", "flag", "last"}, other : Slots]
  BY CallIs DEF WrapperType
<1>3. /\ call' \in Calls /\ call'.pc \in {"stage", "last"}
      /\ call'.pc = "stage" => mirror # None
  BY <1>2 DEF Calls
<1>4. WrapperType'
  BY <1>3 DEF WrapperType
<1>5. RecordType' /\ RecordInv' /\ StagedInv'
  BY <1>3 DEF recordVars, engineVars, publishVars, RecordType, RecordInv, StagedInv,
              SettledMeansInjected
<1>6. OwnerInv'
  <2>1. restored = None
    BY DEF OwnerInv
  <2>2. step = "injected" => ret \in everStaged
    BY DEF RecordInv, StagedInv
  <2>3. step = "measured" => ret > publishedAt'
    BY DEF OwnerInv, EngineType, PublishedMeasures
  <2> QED
    BY <1>3, <2>1, <2>2, <2>3 DEF OwnerInv, NoLatchPublishedBefore, publishVars, engineVars
<1> QED
  BY <1>1, <1>4, <1>5, <1>6

LEMMA StagePayloadKeeps == ASSUME FrozenInv, StagePayload PROVE FrozenInv'
<1> USE DEF FrozenInv, StagePayload
<1>1. EnvelopeInv' /\ EngineType' /\ PhaseInv' /\ HeldInv'
  BY AudioSame DEF EngineType
<1>2. call \in [pc : {"base", "stage", "number", "flag", "last"}, other : Slots]
      /\ mirror \in Vectors
  BY CallIs DEF WrapperType, VectorsOrNone
<1>3. call' \in [pc : {"base", "stage", "number", "flag", "last"}, other : Slots]
      /\ call'.pc = "number"
  BY <1>2
<1>4. WrapperType'
  BY <1>2, <1>3 DEF WrapperType, Calls, VectorsOrNone
<1>5. RecordType'
  BY <1>2 DEF engineVars, RecordType
<1>6. RecordInv'
  BY <1>3 DEF engineVars, publishVars, RecordInv, SettledMeansInjected
<1>7. StagedInv'
  BY <1>3 DEF engineVars, StagedInv
<1>8. OwnerInv'
  BY <1>3 DEF OwnerInv, NoLatchPublishedBefore, publishVars, engineVars
<1> QED
  BY <1>1, <1>4, <1>5, <1>6, <1>7, <1>8

LEMMA StageNumberKeeps == ASSUME FrozenInv, StageNumber PROVE FrozenInv'
<1> USE DEF FrozenInv, StageNumber, ghostVars
<1>1. EnvelopeInv' /\ EngineType' /\ PhaseInv' /\ HeldInv'
  BY AudioSame DEF EngineType
<1>2. call \in [pc : {"base", "stage", "number", "flag", "last"}, other : Slots]
  BY CallIs DEF WrapperType
<1>3. call' \in [pc : {"base", "stage", "number", "flag", "last"}, other : Slots]
      /\ call'.pc = "flag"
  BY <1>2
<1>4. WrapperType'
  BY <1>3 DEF WrapperType, Calls
<1>5. /\ stageSeq' = stageSeq + 1 /\ stageSeq \in Nat /\ appliedSeq \in Nat /\ pend.seq \in Nat
      /\ appliedSeq <= pend.seq /\ pend.seq <= stageSeq
      /\ appliedSeq' = appliedSeq /\ pend' = pend
  BY DEF engineVars, RecordType
<1>6. RecordType'
  BY <1>5 DEF RecordType
<1>7. RecordInv'
  BY <1>5 DEF engineVars, publishVars, RecordInv, SettledMeansInjected
<1>8. StagedInv'
  BY <1>3 DEF engineVars, StagedInv
<1>9. OwnerInv'
  <2>1. stageSeq' # appliedSeq' /\ stageSeq' > 0
    BY <1>5
  <2> QED
    BY <1>3, <2>1 DEF OwnerInv, NoLatchPublishedBefore, publishVars, engineVars
<1> QED
  BY <1>1, <1>4, <1>6, <1>7, <1>8, <1>9

LEMMA StageFlagKeeps == ASSUME FrozenInv, StageFlag PROVE FrozenInv'
<1> USE DEF FrozenInv, StageFlag, ghostVars
<1>1. EnvelopeInv' /\ EngineType' /\ PhaseInv' /\ HeldInv'
  BY AudioSame DEF EngineType
<1>2. call \in [pc : {"base", "stage", "number", "flag", "last"}, other : Slots]
  BY CallIs DEF WrapperType
<1>3. call' \in [pc : {"base", "stage", "number", "flag", "last"}, other : Slots]
      /\ call'.pc = "last"
  BY <1>2
<1>4. WrapperType'
  BY <1>3 DEF WrapperType, Calls
<1>5. RecordType' /\ RecordInv' /\ StagedInv'
  BY <1>3 DEF engineVars, publishVars, RecordType, RecordInv, StagedInv,
              SettledMeansInjected
<1>6. OwnerInv'
  BY <1>3 DEF OwnerInv, NoLatchPublishedBefore, publishVars, engineVars
<1> QED
  BY <1>1, <1>4, <1>5, <1>6


-----------------------------------------------------------------------------
(* The audio thread.                                                       *)

\* The audio thread leaves the wrapper's half alone.
LEMMA WrapperSame ==
    ASSUME WrapperType, UNCHANGED wrapperVars, UNCHANGED restored
    PROVE  WrapperType'
BY DEF WrapperType, wrapperVars

\* What the audio thread does while it moves no vector.
LEMMA VectorsSame ==
    ASSUME FrozenInv, UNCHANGED <<wrapperVars, staged, stageSeq, publishVars, ghostVars>>,
           UNCHANGED <<appliedSeq, pend>>,
           step' \in {"injected", "measured"} => step' = step
    PROVE  /\ WrapperType' /\ OwnerInv' /\ SettledMeansInjected'
           /\ \A v : v \in everStaged <=> v \in everStaged'
<1>1. WrapperType'
  BY WrapperSame DEF FrozenInv, ghostVars
<1>2. OwnerInv'
  BY DEF FrozenInv, OwnerInv, NoLatchPublishedBefore, wrapperVars, publishVars, ghostVars
<1>3. SettledMeansInjected'
  BY DEF FrozenInv, RecordInv, SettledMeansInjected, wrapperVars, ghostVars
<1> QED
  BY <1>1, <1>2, <1>3 DEF ghostVars

LEMMA FPrepareKeeps == ASSUME FrozenInv, FPrepare PROVE FrozenInv'
<1> USE DEF FrozenInv, FPrepare
<1>1. EnvelopeInv' /\ phase = "between" /\ phase' = phase
  BY PrepareInv DEF Prepare, blockVars
<1>2. WrapperType' /\ OwnerInv' /\ SettledMeansInjected'
  BY VectorsSame DEF recordVars
<1>3. RecordType'
  BY DEF RecordType, recordVars, ghostVars
<1>4. StashOnce \in Vectors /\ Zeros \in Vectors
  BY VectorsAre DEF StashOnce, EngineType
<1>5. EngineType'
  BY <1>4 DEF EngineType, publishVars, ghostVars, wrapperVars
<1>6. PhaseInv'
  BY <1>1 DEF PhaseInv
<1>7. RecordInv' /\ StagedInv'
  BY <1>2 DEF RecordInv, StagedInv, recordVars, publishVars, ghostVars, wrapperVars
<1>8. HeldInv'
  BY <1>1 DEF HeldInv, StashOnce, ghostVars
<1> QED
  BY <1>1, <1>2, <1>3, <1>5, <1>6, <1>7, <1>8

LEMMA FTakeSnapshotKeeps == ASSUME FrozenInv, FTakeSnapshot PROVE FrozenInv'
<1> USE DEF FrozenInv, FTakeSnapshot
<1>1. EnvelopeInv'
  <2>1. TakeSnapshot => Next
    BY DEF Next, AudioStep
  <2> QED
    BY <2>1, NextInv
<1>2. phase = "between" /\ phase' = "top"
  BY DEF TakeSnapshot
<1>3. WrapperType' /\ OwnerInv' /\ SettledMeansInjected'
  BY VectorsSame DEF recordVars
<1>4. RecordType'
  BY DEF RecordType, recordVars, ghostVars
<1>5. EngineType'
  BY DEF EngineType, publishVars, ghostVars, wrapperVars, WrapperType, Steps
<1>6. PhaseInv'
  BY <1>2 DEF PhaseInv
<1>7. RecordInv' /\ StagedInv'
  BY <1>2, <1>3 DEF RecordInv, StagedInv, PhaseInv, recordVars, publishVars, ghostVars, wrapperVars
<1>8. HeldInv'
  BY <1>2 DEF HeldInv, StashOnce, ghostVars
<1> QED
  BY <1>1, <1>3, <1>4, <1>5, <1>6, <1>7, <1>8

LEMMA ConsumeRequestKeeps == ASSUME FrozenInv, ConsumeRequest PROVE FrozenInv'
<1> USE DEF FrozenInv, ConsumeRequest
<1>1. EnvelopeInv'
  BY EnvelopeSame
<1>2. WrapperType' /\ OwnerInv' /\ SettledMeansInjected'
  BY VectorsSame DEF recordVars
<1>3. RecordType'
  BY DEF RecordType, recordVars, ghostVars
<1>4. duckRequested \in BOOLEAN
  BY DEF EnvelopeInv, TypeOK
<1>5. EngineType'
  BY <1>4 DEF EngineType, publishVars, ghostVars, wrapperVars, Steps
<1>6. PhaseInv'
  BY DEF PhaseInv, duckVars, blockVars
<1>7. RecordInv' /\ StagedInv'
  BY <1>2 DEF RecordInv, StagedInv, recordVars, publishVars, ghostVars, wrapperVars
<1>8. HeldInv'
  BY DEF HeldInv, StashOnce, ghostVars, duckVars, blockVars
<1> QED
  BY <1>1, <1>2, <1>3, <1>5, <1>6, <1>7, <1>8

LEMMA ConsumeRecordKeeps == ASSUME FrozenInv, ConsumeRecord PROVE FrozenInv'
<1> USE DEF FrozenInv, ConsumeRecord
<1>1. EnvelopeInv'
  BY EnvelopeSame DEF EnvelopeInv, TypeOK
<1>2. WrapperType' /\ OwnerInv' /\ SettledMeansInjected'
  BY VectorsSame
<1>3. RecordType'
  BY DEF RecordType, ghostVars
<1>4. EngineType'
  BY DEF EngineType, publishVars, ghostVars, wrapperVars, Steps
<1>5. PhaseInv'
  BY DEF PhaseInv, duckVars, blockVars
<1>6. RecordInv' /\ StagedInv'
  BY <1>2 DEF RecordInv, StagedInv, publishVars, ghostVars, wrapperVars
<1>7. HeldInv'
  BY DEF HeldInv, StashOnce, ghostVars, duckVars, blockVars
<1> QED
  BY <1>1, <1>2, <1>3, <1>4, <1>5, <1>6, <1>7

LEMMA ReadFirstKeeps == ASSUME FrozenInv, ReadFirst PROVE FrozenInv'
<1> USE DEF FrozenInv, ReadFirst
<1>1. EnvelopeInv'
  BY EnvelopeSame DEF EnvelopeInv, TypeOK
<1>2. pend' = [pend EXCEPT !.seq = stageSeq]
  BY DEF Read, ReadOrder
<1>3. /\ pend' \in [have : BOOLEAN, seq : Nat, vec : Vectors]
      /\ pend'.seq = stageSeq /\ pend'.have = pend.have /\ pend'.vec = pend.vec
      /\ appliedSeq' = appliedSeq /\ appliedSeq <= stageSeq
  <2>1. pend \in [have : BOOLEAN, seq : Nat, vec : Vectors] /\ stageSeq \in Nat
        /\ appliedSeq \in Nat
        /\ appliedSeq <= pend.seq /\ pend.seq <= stageSeq
    BY DEF RecordType
  <2> QED
    BY <1>2, <2>1
<1>4. WrapperType'
  BY WrapperSame DEF ghostVars
<1>5. RecordType'
  BY <1>3 DEF RecordType, recordVars, ghostVars
<1>6. EngineType'
  BY DEF EngineType, publishVars, ghostVars, wrapperVars, Steps
<1>7. PhaseInv'
  BY DEF PhaseInv, duckVars, blockVars
<1>8. RecordInv' /\ StagedInv'
  BY <1>3 DEF RecordInv, SettledMeansInjected, StagedInv, recordVars, publishVars, ghostVars, wrapperVars
<1>9. OwnerInv'
  BY <1>3 DEF OwnerInv, NoLatchPublishedBefore, wrapperVars, recordVars, publishVars, ghostVars
<1>10. HeldInv'
  BY DEF HeldInv, StashOnce, ghostVars, duckVars, blockVars
<1> QED
  BY <1>1, <1>4, <1>5, <1>6, <1>7, <1>8, <1>9, <1>10

LEMMA ReadSecondKeeps == ASSUME FrozenInv, ReadSecond PROVE FrozenInv'
<1> USE DEF FrozenInv, ReadSecond
<1>1. EnvelopeInv'
  BY EnvelopeSame DEF EnvelopeInv, TypeOK
<1>2. pend' = [[pend EXCEPT !.vec = staged] EXCEPT !.have = TRUE]
  BY DEF Read, ReadOrder
<1>3. /\ pend' \in [have : BOOLEAN, seq : Nat, vec : Vectors]
      /\ pend'.seq = pend.seq /\ pend'.have = TRUE /\ pend'.vec = staged
      /\ appliedSeq' = appliedSeq
  <2>1. pend \in [have : BOOLEAN, seq : Nat, vec : Vectors] /\ staged \in Vectors
    BY DEF RecordType
  <2> QED
    BY <1>2, <2>1
<1>4. WrapperType'
  BY WrapperSame DEF ghostVars
<1>5. RecordType'
  BY <1>3 DEF RecordType, recordVars, ghostVars
<1>6. EngineType'
  BY DEF EngineType, publishVars, ghostVars, wrapperVars, Steps, RecordAsks
<1>7. PhaseInv'
  BY DEF PhaseInv, duckVars, blockVars
<1>8. RecordInv' /\ StagedInv'
  BY <1>3 DEF RecordInv, SettledMeansInjected, StagedInv, recordVars, publishVars, ghostVars, wrapperVars
<1>9. OwnerInv'
  BY <1>3 DEF OwnerInv, NoLatchPublishedBefore, wrapperVars, recordVars, publishVars, ghostVars
<1>10. HeldInv'
  BY DEF HeldInv, StashOnce, ghostVars, duckVars, blockVars
<1> QED
  BY <1>1, <1>4, <1>5, <1>6, <1>7, <1>8, <1>9, <1>10

LEMMA AnnounceKeeps == ASSUME FrozenInv, Announce PROVE FrozenInv'
<1> USE DEF FrozenInv, Announce
<1>1. EnvelopeInv'
  BY EnvelopeSame DEF EnvelopeInv, TypeOK
<1>2. gen \in Nat /\ base \in Nat /\ base <= gen /\ gen' = gen + 1 /\ base' = base
  BY DEF EngineType, wrapperVars
<1>3. gen' \in Nat /\ base' <= gen' /\ gen' # base'
  BY <1>2
<1>4. WrapperType'
  BY WrapperSame DEF ghostVars
<1>5. RecordType'
  BY DEF RecordType, recordVars, ghostVars
<1>6. EngineType'
  BY <1>2, <1>3 DEF EngineType, ghostVars, Steps
<1>7. PhaseInv'
  BY DEF PhaseInv, duckVars, blockVars
<1>8. RecordInv' /\ StagedInv'
  BY DEF RecordInv, SettledMeansInjected, StagedInv, recordVars, ghostVars, wrapperVars
<1>9. ret > publishedAt \/ ret \in everStaged
  BY DEF OwnerInv
<1>10. OwnerInv'
  BY <1>3, <1>9 DEF OwnerInv, NoLatchPublishedBefore, wrapperVars, recordVars, ghostVars
<1>11. HeldInv'
  BY DEF HeldInv, StashOnce, ghostVars, duckVars, blockVars
<1> QED
  BY <1>1, <1>4, <1>5, <1>6, <1>7, <1>8, <1>10, <1>11

LEMMA AcknowledgeKeeps == ASSUME FrozenInv, Acknowledge PROVE FrozenInv'
<1> USE DEF FrozenInv, Acknowledge, AcknowledgedNumber
<1>1. EnvelopeInv'
  BY EnvelopeSame DEF EnvelopeInv, TypeOK
<1>2. /\ pend \in [have : BOOLEAN, seq : Nat, vec : Vectors] /\ Zeros \in Vectors
      /\ stageSeq \in Nat /\ appliedSeq \in Nat
      /\ appliedSeq <= pend.seq /\ pend.seq <= stageSeq
  BY VectorsAre DEF RecordType
<1>3. /\ pend' \in [have : BOOLEAN, seq : Nat, vec : Vectors]
      /\ pend'.seq = pend.seq /\ pend'.have = FALSE
      /\ appliedSeq' = pend.seq
  BY <1>2
<1>4. WrapperType'
  BY WrapperSame DEF ghostVars
<1>5. RecordType'
  BY <1>2, <1>3 DEF RecordType, recordVars, ghostVars
<1>6. EngineType'
  BY DEF EngineType, publishVars, ghostVars, wrapperVars, Steps
<1>7. PhaseInv'
  BY DEF PhaseInv, duckVars, blockVars
<1>8. pend.seq = stageSeq /\ call.pc # "number" =>
         injected = staged /\ ret = staged
  BY DEF RecordInv
<1>9. RecordInv' /\ StagedInv'
  BY <1>3, <1>8 DEF RecordInv, SettledMeansInjected, StagedInv, recordVars, publishVars, ghostVars, wrapperVars
<1>10. call.pc = "read" => stageSeq = appliedSeq'
  BY <1>2, <1>3 DEF OwnerInv
<1>11. OwnerInv'
  BY <1>3, <1>8, <1>10 DEF OwnerInv, NoLatchPublishedBefore, wrapperVars, recordVars, publishVars, ghostVars
<1>12. HeldInv'
  BY DEF HeldInv, StashOnce, ghostVars, duckVars, blockVars
<1> QED
  BY <1>1, <1>4, <1>5, <1>6, <1>7, <1>9, <1>11, <1>12


\* The envelope's decision takes any request for what it is.
LEMMA DecideKeeps ==
    ASSUME EnvelopeInv, phase = "top", NEW a \in BOOLEAN, Decide(a),
           lastOffline' = snapshot.offline, primed' = TRUE, phase' = "run",
           left' \in 1 .. MaxBlock, UNCHANGED <<want, snapshot, duckRequested>>
    PROVE  EnvelopeInv'
<1>1. /\ duckState' \in DuckStates /\ level' \in 0..Full
      /\ bottomHold' \in Nat /\ tail' \in Nat /\ filled' \in Nat
      /\ askedWhileOut' \in BOOLEAN /\ exempt' \in BOOLEAN
      /\ applied' \in Wiring
      /\ HoldCoversRefill' /\ HoldCoversTail' /\ LevelFollowsState'
      /\ (snapshot.tp => applied'.tp)
  <2>1. CASE AdoptDirectly(a)
    BY <2>1, AdoptDirectlyInv
  <2>2. CASE AtBottom(a)
    BY <2>2, AtBottomInv
  <2>3. CASE StartOutLeg(a)
    BY <2>3, WaitingInv
  <2>4. CASE AskedDuringOutLeg(a)
    BY <2>4, WaitingInv
  <2>5. CASE NothingToDo(a)
    BY <2>5, WaitingInv
  <2> QED
    BY <2>1, <2>2, <2>3, <2>4, <2>5 DEF Decide
<1>2. snapshot.offline \in BOOLEAN
  BY ConfigAssumption DEF EnvelopeInv, TypeOK, Params
<1>3. left' \in Nat /\ left' > 0
  BY LevelAssumption
<1>4. TypeOK'
  BY <1>1, <1>2, <1>3 DEF EnvelopeInv, TypeOK
<1>5. RunOfBlock'
  BY <1>1, <1>3 DEF RunOfBlock
<1> QED
  BY <1>1, <1>4, <1>5 DEF EnvelopeInv

LEMMA FBlockTopKeeps == ASSUME FrozenInv, FBlockTop PROVE FrozenInv'
<1> USE DEF FrozenInv
<1>1. phase = "top" /\ step = "decide" /\ phase' = "run"
  BY DEF FBlockTop, PhaseInv, Steps, EngineType
<1>2. EnvelopeInv'
  <2>1. asked \in BOOLEAN
    BY DEF EngineType
  <2> QED
    BY <1>1, <2>1, DecideKeeps DEF FBlockTop
<1>3. /\ UNCHANGED <<wrapperVars, recordVars, pend, blockFreeze, appliedSeq>>
      /\ UNCHANGED <<gen, measures, publishedAt, restored, everStaged>>
      /\ asked' = FALSE /\ carry' = NoStash
  BY DEF FBlockTop
<1>4. WrapperType' /\ RecordType'
  BY <1>3, WrapperSame DEF RecordType, recordVars
<1>5. NoStash \in [pending : BOOLEAN, vec : Vectors] /\ NoStash.pending = FALSE
  BY VectorsAre DEF NoStash
<1>6. pend.vec \in Vectors /\ Resumed \in Vectors
  BY DEF RecordType, EngineType, Resumed
<1>7. StagedInv'
  BY <1>1, <1>3, <1>4 DEF FBlockTop, StagedInv, wrapperVars, recordVars
<1>8. CASE Injects
  <2>1. /\ trims' = pend.vec /\ ret' = pend.vec
        /\ injected' = pend.vec /\ held' = pend.vec /\ step' = "injected"
        /\ pend.have
    BY <1>8 DEF FBlockTop, Injects
  <2>2. EngineType'
    <3>1. gen' \in Nat /\ base' \in Nat /\ base' <= gen'
      BY <1>3, <2>1 DEF EngineType, wrapperVars
    <3>2. carry' \in [pending : BOOLEAN, vec : Vectors]
      BY <1>3, <1>5
    <3> QED
      BY <1>3, <1>6, <2>1, <3>1, <3>2 DEF EngineType, Steps
  <2>3. PhaseInv' /\ HeldInv'
    BY <1>1, <1>3, <1>5, <2>1 DEF PhaseInv, HeldInv
  <2>4. stageSeq = appliedSeq => pend.seq = stageSeq
    BY DEF RecordType
  <2>5. stageSeq = appliedSeq /\ call.pc # "number" => pend.vec = staged
    BY <1>1, <2>1, <2>4 DEF RecordInv
  <2>6. RecordInv'
    BY <1>1, <1>3, <2>1, <2>5 DEF RecordInv, SettledMeansInjected, wrapperVars, recordVars
  <2>7. pend.vec \in everStaged
    BY <2>1 DEF StagedInv
  <2>8. OwnerInv'
    BY <1>3, <2>1, <2>5, <2>7 DEF OwnerInv, NoLatchPublishedBefore, wrapperVars, recordVars
  <2> QED
    BY <1>2, <1>4, <1>7, <2>2, <2>3, <2>6, <2>8
<1>9. CASE ~Injects
  <2>1. /\ trims' = Resumed /\ step' = "none"
        /\ UNCHANGED <<ret, injected, held>>
    BY <1>9 DEF FBlockTop
  <2>2. EngineType'
    BY <1>3, <1>5, <1>6, <2>1 DEF EngineType, Steps, wrapperVars
  <2>3. PhaseInv'
    BY <1>1, <2>1 DEF PhaseInv
  <2>4. HeldInv'
    BY <1>1, <1>3, <1>5, <2>1 DEF HeldInv, Resumed, StashOnce
  <2>5. RecordInv'
    BY <1>1, <1>3, <2>1 DEF RecordInv, SettledMeansInjected, wrapperVars, recordVars
  <2>6. OwnerInv'
    BY <1>3, <2>1 DEF OwnerInv, NoLatchPublishedBefore, wrapperVars, recordVars
  <2> QED
    BY <1>2, <1>4, <1>7, <2>2, <2>3, <2>4, <2>5, <2>6
<1> QED
  BY <1>8, <1>9

LEMMA FSampleKeeps == ASSUME FrozenInv, FSample PROVE FrozenInv'
<1> USE DEF FrozenInv
<1>1. /\ phase = "run" /\ step = "none"
      /\ phase' = IF left = 1 THEN "between" ELSE "run"
  BY DEF FSample, Sample
<1>2. EnvelopeInv'
  BY SampleInv DEF FSample
<1>3. /\ UNCHANGED <<wrapperVars, recordVars, pend, asked, carry, appliedSeq, gen>>
      /\ UNCHANGED <<publishedAt, restored, everStaged, injected>>
      /\ blockFreeze' = (blockFreeze /\ left > 1)
      /\ held' = IF left = 1 THEN trims' ELSE held
  BY DEF FSample
<1>4. WrapperType' /\ RecordType'
  BY <1>3, WrapperSame DEF RecordType, recordVars
<1>5. step' \in {"none", "measured"} => StagedInv'
  BY <1>1, <1>3 DEF StagedInv, wrapperVars, recordVars
<1>7. left \in Nat /\ left > 0
  BY <1>1 DEF EnvelopeInv, TypeOK, RunOfBlock
<1>8. ASSUME left = 1, Measure PROVE FrozenInv'
  <2>1. /\ ~blockFreeze /\ measures < MaxMeasures /\ measures' = measures + 1
        /\ trims' = measures' /\ ret' = measures' /\ step' = "measured"
    BY <1>8 DEF Measure
  <2>2. measures' \in Vectors /\ measures' \in Nat /\ measures' <= MaxMeasures
        /\ measures' > publishedAt /\ publishedAt <= measures'
        /\ publishedAt' < measures'
    BY <1>3, <2>1, FrozenAssumption DEF Vectors, Zeros, EngineType
  <2>3. PhaseInv'
    BY <1>1, <1>8, <2>1 DEF PhaseInv
  <2>4. EngineType'
    BY <1>3, <1>8, <2>1, <2>2 DEF EngineType, wrapperVars, Steps
  <2>5. HeldInv'
    BY <1>1, <1>3, <1>8 DEF HeldInv, StashOnce
  <2>6. RecordInv'
    BY <1>1, <1>3, <2>1 DEF RecordInv, SettledMeansInjected, wrapperVars, recordVars
  <2>7. OwnerInv'
    BY <1>3, <2>1, <2>2 DEF OwnerInv, NoLatchPublishedBefore, wrapperVars, recordVars
  <2> QED
    BY <1>2, <1>4, <1>5, <2>1, <2>3, <2>4, <2>5, <2>6, <2>7
<1>9. ASSUME UNCHANGED <<measures, trims, ret, step>> PROVE FrozenInv'
  <2>1. EngineType'
    BY <1>1, <1>3, <1>9 DEF EngineType, wrapperVars
  <2>2. HeldInv'
    BY <1>1, <1>3, <1>7, <1>9 DEF HeldInv, StashOnce
  <2>3. RecordInv'
    BY <1>1, <1>3, <1>9 DEF RecordInv, SettledMeansInjected, wrapperVars, recordVars
  <2>4. OwnerInv'
    BY <1>1, <1>3, <1>9 DEF OwnerInv, NoLatchPublishedBefore, wrapperVars, recordVars
  <2>5. PhaseInv'
    BY <1>1, <1>9 DEF PhaseInv
  <2> QED
    BY <1>1, <1>2, <1>4, <1>5, <1>9, <2>1, <2>2, <2>3, <2>4, <2>5
<1> QED
  BY <1>8, <1>9 DEF FSample

LEMMA FInitInv == FInit => FrozenInv
<1> SUFFICES ASSUME FInit PROVE FrozenInv
  OBVIOUS
<1>1. EnvelopeInv
  BY InitInv DEF FInit
<1>2. EmptySlot \in Slots /\ Idle \in Calls /\ Idle.pc = "idle"
      /\ NoStash \in [pending : BOOLEAN, vec : Vectors] /\ NoStash.pending = FALSE
  BY VectorsAre DEF EmptySlot, Slots, Idle, Calls, NoStash
<1>3. WrapperType
  BY <1>2, VectorsAre DEF FInit, WrapperType
<1>4. RecordType /\ EngineType
  <2>1. Zeros \in Vectors /\ 0 \in Nat /\ MaxMeasures \in Nat
    BY VectorsAre, FrozenAssumption
  <2>2. RecordType
    <3>1. /\ staged = Zeros /\ frozenPending = FALSE /\ stageSeq = 0 /\ appliedSeq = 0
          /\ pend = [have |-> FALSE, seq |-> 0, vec |-> Zeros] /\ everStaged = {}
      BY DEF FInit
    <3>2. pend \in [have : BOOLEAN, seq : Nat, vec : Vectors] /\ pend.seq = 0
      BY <2>1, <3>1
    <3>3. staged \in Vectors /\ frozenPending \in BOOLEAN /\ everStaged \subseteq Vectors
      BY <2>1, <3>1
    <3>4. stageSeq \in Nat /\ appliedSeq \in Nat /\ appliedSeq <= pend.seq /\ pend.seq <= stageSeq
      BY <3>1, <3>2
    <3> QED
      BY <3>2, <3>3, <3>4 DEF RecordType
  <2>3. carry \in [pending : BOOLEAN, vec : Vectors]
    BY <1>2 DEF FInit
  <2>4. /\ asked = FALSE /\ step = "none" /\ blockFreeze = FALSE
        /\ trims = Zeros /\ ret = Zeros /\ held = Zeros
        /\ gen = 0 /\ base = 0 /\ measures = 0 /\ publishedAt = 0
    BY DEF FInit
  <2>5. 0 <= MaxMeasures
    BY <2>1
  <2>6. EngineType
    <3>1. asked \in BOOLEAN /\ blockFreeze \in BOOLEAN /\ step \in Steps
      BY <2>4 DEF Steps
    <3>2. trims \in Vectors /\ ret \in Vectors /\ held \in Vectors
      BY <2>1, <2>4
    <3>3. /\ measures \in Nat /\ measures <= MaxMeasures
          /\ publishedAt \in Nat /\ publishedAt <= measures
          /\ gen \in Nat /\ base \in Nat /\ base <= gen
          /\ step # "measured"
      BY <2>4, <2>5
    <3> QED
      BY <2>3, <3>1, <3>2, <3>3 DEF EngineType
  <2> QED
    BY <2>2, <2>6
<1>5. PhaseInv
  BY DEF FInit, Init, PhaseInv
<1>6. RecordInv /\ StagedInv /\ OwnerInv
  BY <1>2 DEF FInit, RecordInv, StagedInv, OwnerInv, SettledMeansInjected, NoLatchPublishedBefore
<1>7. HeldInv
  BY <1>2 DEF FInit, Init, HeldInv, StashOnce
<1> QED
  BY <1>1, <1>3, <1>4, <1>5, <1>6, <1>7 DEF FrozenInv

LEMMA FrozenStutters == ASSUME FrozenInv, UNCHANGED frozenVars PROVE FrozenInv'
<1> USE DEF FrozenInv, frozenVars
<1>1. EnvelopeInv'
  BY EnvelopeSame DEF EnvelopeInv, TypeOK
<1>2. WrapperType' /\ OwnerInv' /\ SettledMeansInjected'
  BY VectorsSame DEF recordVars, engineVars
<1>3. RecordType' /\ EngineType' /\ RecordInv' /\ StagedInv'
  BY <1>2 DEF RecordType, EngineType, RecordInv, StagedInv, wrapperVars, recordVars,
              engineVars, publishVars, ghostVars
<1>4. PhaseInv' /\ HeldInv'
  BY DEF PhaseInv, HeldInv, StashOnce, engineVars, ghostVars, duckVars, blockVars
<1> QED
  BY <1>1, <1>2, <1>3, <1>4

LEMMA FNextKeeps == ASSUME FrozenInv, [FNext]_frozenVars PROVE FrozenInv'
<1>1. CASE UNCHANGED frozenVars
  BY <1>1, FrozenStutters
<1>2. CASE FPrepare
  BY <1>2, FPrepareKeeps
<1>3. CASE FAudioStep
  BY <1>3, FTakeSnapshotKeeps, ConsumeRequestKeeps, ConsumeRecordKeeps, ReadFirstKeeps,
     ReadSecondKeeps, FBlockTopKeeps, AnnounceKeeps, AcknowledgeKeeps, FSampleKeeps DEF FAudioStep
<1>4. CASE WrapperStep
  BY <1>4, SetFreezeKeeps, CaptureKeeps, ReturnKeeps, AdoptParamsKeeps, AdoptMirrorKeeps,
     AdoptBaseKeeps, StagePayloadKeeps, StageNumberKeeps, StageFlagKeeps
     DEF WrapperStep, CallStep
<1> QED
  BY <1>1, <1>2, <1>3, <1>4 DEF FNext

-----------------------------------------------------------------------------
(* What holds of every behaviour.                                          *)

\* The invariant of the staged record, of the slot's ownership and of the duck
\* beneath them (PluginProcessor.cpp, AnabasisEngine::process, AdaptiveEngine).
THEOREM FrozenKeeps == FSpec => []FrozenInv
<1>1. FInit => FrozenInv
  BY FInitInv
<1>2. FrozenInv /\ [FNext]_frozenVars => FrozenInv'
  BY FNextKeeps
<1> QED
  BY <1>1, <1>2, PTL DEF FSpec

\* Where the numbers agree the vector injected last is the one staged last
\* (frozenRestorePending), for any number of records.
THEOREM SettledTest == FSpec => []SettledMeansInjected
<1>1. FrozenInv => SettledMeansInjected
  BY DEF FrozenInv, RecordInv
<1> QED
  BY <1>1, FrozenKeeps, PTL

\* A save never contains a vector whose publication was complete when its slot
\* was adopted, wherever the adoption falls between the stores of a publication
\* (saveSlotFromLive, engineFrozenTrimsIfLive, adoptFrozenMirror, publishTrims).
THEOREM SavesNothingPublishedBefore == FSpec => []NoLatchPublishedBefore
<1>1. FrozenInv => NoLatchPublishedBefore
  BY DEF FrozenInv, OwnerInv
<1> QED
  BY <1>1, FrozenKeeps, PTL

\* Frozen blocks keep the vector, across any number of prepares
\* (AdaptiveEngine::reset, resumeAfterReset, finishBlock).
THEOREM FrozenKeptAcrossPrepare == FSpec => FrozenAcrossPrepare
<1>1. ASSUME FrozenInv, FNext, phase = "run", phase' = "between", blockFreeze
      PROVE  trims' = held
  <2>1. trims = held
    BY <1>1 DEF FrozenInv, HeldInv
  <2>2. UNCHANGED phase \/ FSample \/ FBlockTop \/ FTakeSnapshot \/ FPrepare
    BY <1>1 DEF FNext, WrapperStep, FAudioStep, CallStep, duckVars, blockVars, SetFreeze,
       BeginCapture, LoadSession, CaptureGeneration, CaptureCheck, CaptureRead, FinishSave,
       SwitchSlots, AdoptParams, AdoptMirror, AdoptBase, StagePayload, StageNumber, StageFlag,
       FinishAdoption, ConsumeRequest, ConsumeRecord, ReadFirst, ReadSecond, Announce, Acknowledge
  <2>3. CASE FSample
    BY <1>1, <2>1, <2>3 DEF FSample, Measure
  <2>4. ~FBlockTop /\ ~FTakeSnapshot /\ ~FPrepare
    BY <1>1 DEF FBlockTop, FTakeSnapshot, FPrepare, TakeSnapshot, Prepare
  <2> QED
    BY <1>1, <2>2, <2>3, <2>4
<1>2. FrozenInv /\ [FNext]_frozenVars =>
        [phase = "run" /\ phase' = "between" /\ blockFreeze => trims' = held]_frozenVars
  BY <1>1
<1> QED
  BY <1>2, FrozenKeeps, PTL DEF FSpec, FrozenAcrossPrepare

\* Records that come and go leave the duck's promise: nothing is audible before
\* the line holds audio again, and no tail is summed with it (process).
THEOREM RecordsDuckSilently == FSpec => [](NoAudioBeforeRefill /\ TailOnlyUnderSilence)
<1>1. EnvelopeInv => NoAudioBeforeRefill /\ TailOnlyUnderSilence
  BY DEF EnvelopeInv, HoldCoversRefill, HoldCoversTail, LevelFollowsState,
         NoAudioBeforeRefill, TailOnlyUnderSilence
<1>2. FrozenInv => EnvelopeInv
  BY DEF FrozenInv
<1> QED
  BY <1>1, <1>2, FrozenKeeps, PTL

=============================================================================
