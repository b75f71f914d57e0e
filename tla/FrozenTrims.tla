---------------------------- MODULE FrozenTrims ----------------------------
(***************************************************************************)
(* The Freeze memory of a slot: how the adaptive trim vector an A/B slot   *)
(* or a session saved travels from the wrapper (PluginProcessor.cpp, the   *)
(* message thread) to the adaptive engine (AdaptiveEngine.h, the audio     *)
(* thread) and back into the next save.                                    *)
(*                                                                         *)
(* The message thread stages a record, raises its flag and asks nothing    *)
(* else; the block top of process() consumes it, derives a duck request    *)
(* from it and injects it at the silent bottom of DuckEnvelope.  A save    *)
(* decides between its own mirror of the record and what the engine has    *)
(* published from the pair of sequence numbers and from the publication    *)
(* generation the slot started at.                                         *)
(*                                                                         *)
(* A vector is the number of the measurement it came from: Zeros is what a *)
(* reset leaves, None a slot without FROZEN_TRIMS.  The four floats of a   *)
(* vector are written and read in one step, the generation that announces  *)
(* them in a later one, and memory is sequentially consistent.             *)
(***************************************************************************)
EXTENDS DuckEnvelope

CONSTANTS
    MaxStages,      \* bound: records the wrapper stages
    MaxMeasures     \* bound: vectors the engine measures

ASSUME FrozenAssumption == MaxStages \in Nat /\ MaxMeasures \in Nat

None    == -1
Zeros   == 0
Vectors == Zeros..MaxMeasures
Slots   == [freeze : BOOLEAN, frozen : Vectors \cup {None}]
EmptySlot == [freeze |-> FALSE, frozen |-> None]

VARIABLES
    \* The wrapper.
    freeze,         \* the Freeze parameter
    mirror,         \* liveFrozenTrims
    base,           \* slotFrozenBase
    stored,         \* storedSlot, the slot that is not live
    session,        \* the last state the host saved: both slots
    call,           \* the wrapper's call in progress
    \* The staged record and its acknowledgement.
    staged, stageSeq, frozenPending, appliedSeq,
    \* The engine.
    pend,           \* pendingFrozenTrims, pendingFrozenSeq, havePendingFrozen
    asked,          \* the duck request this block has seen
    step,           \* where the block top is
    blockFreeze,    \* Freeze in the block's snapshot
    trims,          \* the vector the stages apply
    carry,          \* the stash of reset(): carried, carryPending
    \* What the engine publishes.
    ret, gen,       \* retTrim*, retTrimSeq
    \* History, for the properties.
    measures,       \* vectors measured so far
    measuredAt,     \* measures when the live slot's base was read
    publishedAt,    \* those of them that the generation had counted
    restored,       \* vector staged for the live slot, while nothing else
                    \* has touched Freeze
    everStaged,     \* vectors ever staged
    injected,       \* vector injected last
    held            \* trims at the end of the last block, or as injected since

wrapperVars == <<freeze, mirror, base, stored, session, call>>
recordVars  == <<staged, stageSeq, frozenPending>>
engineVars  == <<pend, asked, step, blockFreeze, trims, carry, appliedSeq>>
publishVars == <<ret, gen, measures>>
ghostVars   == <<measuredAt, publishedAt, restored, everStaged, injected, held>>
duckVars    == <<want, envelopeVars, primed, lastOffline, applied, blockVars,
                 filled, exempt>>
frozenVars  == <<duckVars, duckRequested, wrapperVars, recordVars, engineVars,
                 publishVars, ghostVars>>

Idle    == [pc |-> "idle"]
NoStash == [pending |-> FALSE, vec |-> Zeros]

FInit ==
    /\ Init
    /\ freeze = FALSE /\ mirror = None /\ base = 0
    /\ stored = EmptySlot /\ session = [live |-> EmptySlot, other |-> EmptySlot]
    /\ call = Idle
    /\ staged = Zeros /\ stageSeq = 0 /\ frozenPending = FALSE /\ appliedSeq = 0
    /\ pend = [have |-> FALSE, seq |-> 0, vec |-> Zeros]
    /\ asked = FALSE /\ step = "none" /\ blockFreeze = FALSE
    /\ trims = Zeros /\ carry = NoStash
    /\ ret = Zeros /\ gen = 0 /\ measures = 0
    /\ measuredAt = 0 /\ publishedAt = 0 /\ restored = None /\ everStaged = {}
    /\ injected = None /\ held = Zeros

-----------------------------------------------------------------------------
(* The message thread.  A call that reads what the audio thread writes, or *)
(* writes what it reads, takes one step per access.                        *)

\* The user's Freeze button.
SetFreeze ==
    /\ call = Idle
    /\ freeze' = ~freeze
    /\ restored' = None
    /\ UNCHANGED <<duckVars, duckRequested, mirror, base, stored, session, call,
                   recordVars, engineVars, publishVars, measuredAt,
                   publishedAt, everStaged, injected, held>>

\* getStateInformation and the first half of switchToSlot both capture the
\* live slot; a switch asks for the duck before.
BeginCapture(then) ==
    /\ call = Idle
    /\ then = "switch" => stageSeq < MaxStages
    /\ call' = [pc |-> "capture", then |-> then]
    /\ duckRequested' = (duckRequested \/ then = "switch")
    /\ UNCHANGED <<duckVars, freeze, mirror, base, stored, session, recordVars,
                   engineVars, publishVars, ghostVars>>

Captured(v) == [pc |-> "captured", then |-> call.then,
                slot |-> [freeze |-> freeze, frozen |-> v]]

\* saveSlotFromLive; engineFrozenTrimsIfLive reads the generation first.
CaptureGeneration ==
    /\ call.pc = "capture"
    /\ call' = IF freeze /\ gen # base THEN [call EXCEPT !.pc = "check"]
               ELSE Captured(IF freeze THEN mirror ELSE None)
    /\ UNCHANGED <<duckVars, duckRequested, freeze, mirror, base, stored,
                   session, recordVars, engineVars, publishVars, ghostVars>>

\* Mutant: a save trusts the published vector while a record is on its way.
NeverPending == FALSE

\* frozenRestorePending.
RestorePending == stageSeq # appliedSeq

CaptureCheck ==
    /\ call.pc = "check"
    /\ call' = IF RestorePending THEN Captured(mirror)
               ELSE [call EXCEPT !.pc = "read"]
    /\ UNCHANGED <<duckVars, duckRequested, freeze, mirror, base, stored,
                   session, recordVars, engineVars, publishVars, ghostVars>>

CaptureRead ==
    /\ call.pc = "read"
    /\ call' = Captured(ret)
    /\ UNCHANGED <<duckVars, duckRequested, freeze, mirror, base, stored,
                   session, recordVars, engineVars, publishVars, ghostVars>>

FinishSave ==
    /\ call.pc = "captured" /\ call.then = "save"
    /\ session' = [live |-> call.slot, other |-> stored]
    /\ call' = Idle
    /\ UNCHANGED <<duckVars, duckRequested, freeze, mirror, base, stored,
                   recordVars, engineVars, publishVars, ghostVars>>

\* A call that replaces the live slot carries it and the slot to store.
Adopting(slot, other) == [pc |-> "params", slot |-> slot, other |-> other]

SwitchSlots ==
    /\ call.pc = "captured" /\ call.then = "switch"
    /\ call' = Adopting(stored, call.slot)
    /\ UNCHANGED <<duckVars, duckRequested, freeze, mirror, base, stored,
                   session, recordVars, engineVars, publishVars, ghostVars>>

\* setStateInformation with what the host last saved.
LoadSession ==
    /\ call = Idle
    /\ stageSeq < MaxStages
    /\ duckRequested' = TRUE
    /\ call' = Adopting(session.live, session.other)
    /\ UNCHANGED <<duckVars, freeze, mirror, base, stored, session, recordVars,
                   engineVars, publishVars, ghostVars>>

\* adoptParamsTree: Freeze is one of the parameters.
AdoptParams ==
    /\ call.pc = "params"
    /\ freeze' = call.slot.freeze
    /\ restored' = None
    /\ call' = [call EXCEPT !.pc = "mirror"]
    /\ UNCHANGED <<duckVars, duckRequested, mirror, base, stored, session,
                   recordVars, engineVars, publishVars, measuredAt,
                   publishedAt, everStaged, injected, held>>

\* adoptFrozenMirror, its first half.
AdoptMirror ==
    /\ call.pc = "mirror"
    /\ mirror' = call.slot.frozen
    /\ call' = [pc |-> "base", other |-> call.other]
    /\ UNCHANGED <<duckVars, duckRequested, freeze, base, stored, session,
                   recordVars, engineVars, publishVars, ghostVars>>

\* The ownership boundary of the adopted slot.
OwnershipBoundary == gen

\* A measured vector is published once the generation counts it.
PublishedMeasures == IF step = "measured" THEN measures - 1 ELSE measures

\* adoptFrozenMirror, its second half.
AdoptBase ==
    /\ call.pc = "base"
    /\ base' = OwnershipBoundary
    /\ measuredAt' = measures
    /\ publishedAt' = PublishedMeasures
    /\ call' = [pc |-> IF mirror # None /\ freeze THEN "stage" ELSE "last",
                other |-> call.other]
    /\ UNCHANGED <<duckVars, duckRequested, freeze, mirror, stored, session,
                   recordVars, engineVars, publishVars, restored, everStaged,
                   injected, held>>

\* restoreFrozenTrims: the payload, its number, then the flag.
StagePayload ==
    /\ call.pc = "stage"
    /\ staged' = mirror
    /\ restored' = mirror
    /\ everStaged' = everStaged \cup {mirror}
    /\ call' = [call EXCEPT !.pc = "number"]
    /\ UNCHANGED <<duckVars, duckRequested, freeze, mirror, base, stored,
                   session, stageSeq, frozenPending, engineVars, publishVars,
                   measuredAt, publishedAt, injected, held>>

StageNumber ==
    /\ call.pc = "number"
    /\ stageSeq' = stageSeq + 1
    /\ call' = [call EXCEPT !.pc = "flag"]
    /\ UNCHANGED <<duckVars, duckRequested, freeze, mirror, base, stored,
                   session, staged, frozenPending, engineVars, publishVars,
                   ghostVars>>

StageFlag ==
    /\ call.pc = "flag"
    /\ frozenPending' = TRUE
    /\ call' = [call EXCEPT !.pc = "last"]
    /\ UNCHANGED <<duckVars, duckRequested, freeze, mirror, base, stored,
                   session, staged, stageSeq, engineVars, publishVars,
                   ghostVars>>

FinishAdoption ==
    /\ call.pc = "last"
    /\ stored' = call.other
    /\ call' = Idle
    /\ UNCHANGED <<duckVars, duckRequested, freeze, mirror, base, session,
                   recordVars, engineVars, publishVars, ghostVars>>

\* What ends a call that has begun.
CallStep == \/ CaptureGeneration \/ CaptureCheck \/ CaptureRead \/ FinishSave
            \/ SwitchSlots \/ AdoptParams \/ AdoptMirror \/ AdoptBase
            \/ StagePayload \/ StageNumber \/ StageFlag \/ FinishAdoption

WrapperStep == \/ SetFreeze \/ BeginCapture("save") \/ BeginCapture("switch")
               \/ LoadSession \/ CallStep

-----------------------------------------------------------------------------
(* The audio thread.                                                       *)

\* Mutant: the second of prepare()'s two resets stashes again.
StashEveryReset == Zeros

\* What prepare() stashes: it resets the adaptive engine twice, and only
\* the first reset since a block stashes.
StashOnce == IF carry.pending THEN carry.vec ELSE trims

FPrepare ==
    /\ step = "none"
    /\ Prepare
    /\ carry' = [pending |-> TRUE, vec |-> StashOnce]
    /\ trims' = Zeros
    /\ UNCHANGED <<wrapperVars, recordVars, pend, asked, step, blockFreeze,
                   appliedSeq, publishVars, ghostVars>>

FTakeSnapshot ==
    /\ step = "none"
    /\ TakeSnapshot
    /\ blockFreeze' = freeze
    /\ step' = "request"
    /\ UNCHANGED <<wrapperVars, recordVars, pend, asked, trims, carry,
                   appliedSeq, publishVars, ghostVars>>

\* duckRequested.exchange
ConsumeRequest ==
    /\ step = "request"
    /\ asked' = duckRequested
    /\ duckRequested' = FALSE
    /\ step' = "record"
    /\ UNCHANGED <<duckVars, wrapperVars, recordVars, pend, blockFreeze, trims,
                   carry, appliedSeq, publishVars, ghostVars>>

\* frozenPending.exchange
ConsumeRecord ==
    /\ step = "record"
    /\ step' = IF frozenPending THEN "first" ELSE "decide"
    /\ frozenPending' = FALSE
    /\ UNCHANGED <<duckVars, duckRequested, wrapperVars, staged, stageSeq, pend,
                   asked, blockFreeze, trims, carry, appliedSeq, publishVars,
                   ghostVars>>

\* Mutant: the payload is read before its number.
PayloadFirst == <<"vec", "seq">>

\* The order in which the block top reads the record: the number first.
ReadOrder == <<"seq", "vec">>

Read(field) == IF field = "seq" THEN [pend EXCEPT !.seq = stageSeq]
                                ELSE [pend EXCEPT !.vec = staged]

ReadFirst ==
    /\ step = "first"
    /\ pend' = Read(ReadOrder[1])
    /\ step' = "second"
    /\ UNCHANGED <<duckVars, duckRequested, wrapperVars, recordVars, asked,
                   blockFreeze, trims, carry, appliedSeq, publishVars,
                   ghostVars>>

\* Mutant: consuming the record does not ask for the duck.
RequestNotDerived == asked

\* The record is a duck request.
RecordAsks == TRUE

ReadSecond ==
    /\ step = "second"
    /\ pend' = [Read(ReadOrder[2]) EXCEPT !.have = TRUE]
    /\ asked' = RecordAsks
    /\ step' = "decide"
    /\ UNCHANGED <<duckVars, duckRequested, wrapperVars, recordVars,
                   blockFreeze, trims, carry, appliedSeq, publishVars,
                   ghostVars>>

\* resumeAfterReset: the stash comes back exactly when Freeze is on.
Resumed == IF carry.pending /\ blockFreeze THEN carry.vec ELSE trims

\* A pending vector lands in the two branches that are silent or direct.
Injects == /\ pend.have
           /\ \/ ~primed \/ EnteringOffline
              \/ duckState = "bottom" \/ EngagesTp

FBlockTop ==
    /\ step = "decide"
    /\ Decide(asked)
    /\ lastOffline' = snapshot.offline
    /\ primed' = TRUE
    /\ phase' = "run" /\ left' \in 1..MaxBlock
    /\ carry' = NoStash
    /\ asked' = FALSE
    /\ \/ /\ Injects
          /\ trims' = pend.vec /\ ret' = pend.vec
          /\ injected' = pend.vec /\ held' = pend.vec
          /\ step' = "injected"
       \/ /\ ~Injects
          /\ trims' = Resumed
          /\ step' = "none"
          /\ UNCHANGED <<ret, injected, held>>
    /\ UNCHANGED <<want, snapshot, duckRequested, wrapperVars, recordVars, pend,
                   blockFreeze, appliedSeq, gen, measures, measuredAt,
                   publishedAt, restored, everStaged>>

\* The last store of publishTrims, retTrimSeq, once the vector is stored:
\* after an injection or at the end of a block that measured.
Announce ==
    /\ step \in {"injected", "measured"}
    /\ gen' = gen + 1
    /\ step' = IF step = "injected" THEN "acknowledge" ELSE "none"
    /\ UNCHANGED <<duckVars, duckRequested, wrapperVars, recordVars, pend,
                   asked, blockFreeze, trims, carry, appliedSeq, ret, measures,
                   ghostVars>>

AcknowledgedNumber == pend.seq

\* frozenAppliedSeq.store, once the vector is published.
Acknowledge ==
    /\ step = "acknowledge"
    /\ appliedSeq' = AcknowledgedNumber
    /\ pend' = [pend EXCEPT !.have = FALSE, !.vec = Zeros]
    /\ step' = "none"
    /\ UNCHANGED <<duckVars, duckRequested, wrapperVars, recordVars, asked,
                   blockFreeze, trims, carry, publishVars, ghostVars>>

\* finishBlock slews and stores the vector, unless the block is frozen.
Measure == /\ ~blockFreeze /\ measures < MaxMeasures
           /\ measures' = measures + 1
           /\ trims' = measures' /\ ret' = measures'
           /\ step' = "measured"

FSample ==
    /\ step = "none"
    /\ Sample
    /\ \/ left = 1 /\ Measure
       \/ UNCHANGED <<measures, trims, ret, step>>
    /\ held' = IF left = 1 THEN trims' ELSE held
    /\ blockFreeze' = (blockFreeze /\ left > 1)
    /\ UNCHANGED <<wrapperVars, recordVars, pend, asked, carry, appliedSeq,
                   gen, measuredAt, publishedAt, restored, everStaged,
                   injected>>

FAudioStep == \/ FTakeSnapshot \/ ConsumeRequest \/ ConsumeRecord \/ ReadFirst
              \/ ReadSecond \/ FBlockTop \/ Announce \/ Acknowledge \/ FSample

FNext == WrapperStep \/ FPrepare \/ FAudioStep

\* Blocks keep coming, and a call that has begun returns.
FSpec == /\ FInit /\ [][FNext]_frozenVars
         /\ WF_frozenVars(FAudioStep)
         /\ WF_frozenVars(CallStep)

-----------------------------------------------------------------------------
(* Properties.                                                             *)

CallPcs == {"idle", "capture", "check", "read", "captured", "params",
            "mirror", "base", "stage", "number", "flag", "last"}

FTypeOK ==
    /\ TypeOK
    /\ freeze \in BOOLEAN /\ blockFreeze \in BOOLEAN /\ asked \in BOOLEAN
    /\ stored \in Slots /\ session \in [live : Slots, other : Slots]
    /\ call.pc \in CallPcs
    /\ call.pc = "captured" => call.slot \in Slots
    /\ mirror \in Vectors \cup {None} /\ restored \in Vectors \cup {None}
    /\ staged \in Vectors /\ trims \in Vectors /\ ret \in Vectors
    /\ appliedSeq \in 0..stageSeq /\ pend.seq \in appliedSeq..stageSeq
    /\ stageSeq \in 0..MaxStages /\ base \in 0..gen
    /\ step \in {"none", "request", "record", "first", "second", "decide",
                 "injected", "acknowledge", "measured"}
    /\ phase = "top" <=>
         step \notin {"none", "injected", "acknowledge", "measured"}
    /\ publishedAt \in 0..PublishedMeasures
    /\ measuredAt \in publishedAt..measures

(* The wrapper's settled test is sound: whenever the number staged and the *)
(* number acknowledged agree, the vector the engine injected last is the   *)
(* one staged last, however the block top's reads and the next restore     *)
(* interleave.  (AnabasisEngine.h, frozenRestorePending; while the writer  *)
(* stands between payload and number it is not asking.)                    *)
SettledMeansInjected ==
    stageSeq > 0 /\ stageSeq = appliedSeq /\ call.pc # "number"
        => injected = staged

(* A save of a frozen slot, wherever it falls between a restore, its       *)
(* application and the publications of blocks in flight, never contains a  *)
(* vector whose publication was complete when the slot became live: it is  *)
(* what the slot was restored with or something published since; only      *)
(* where nothing was restored may it be another record still on its way.   *)
(* (adoptFrozenMirror: "no latch published up to and including this point  *)
(* belongs to this slot".)                                                 *)
NoLatchPublishedBefore ==
    call.pc = "captured" /\ call.slot.freeze =>
        LET v == call.slot.frozen
        IN  \/ v = mirror
            \/ v > publishedAt
            \/ restored = None /\ v \in everStaged

(* Blocks whose snapshot has Freeze on never move the vector: not by       *)
(* measuring, and not across any number of prepares between two of them.   *)
(* Only an injection does.  (ADR-0042: reset() and resumeAfterReset.)      *)
FrozenAcrossPrepare ==
    [][phase = "run" /\ phase' = "between" /\ blockFreeze
           => trims' = held]_frozenVars

(* A staged record is eventually injected, through any interleaving of     *)
(* further restores, prepares and ducks: consuming it asks for the duck    *)
(* that lets it land.                                                      *)
StagedIsApplied == frozenPending ~> stageSeq = appliedSeq

(* The comment where the vector is injected: "Freeze is ON in the slot     *)
(* that staged it, so finishBlock holds the vector from here on".  While   *)
(* Freeze is on and untouched since the restore, the engine keeps exactly  *)
(* the restored vector once it has acknowledged it.                        *)
RestoredVectorHeld ==
    restored # None /\ call.pc # "number" /\ stageSeq = appliedSeq
        /\ step = "none" /\ ~carry.pending
        => trims = restored

(* The comment of adoptFrozenMirror: a boundary read after the mirror is   *)
(* written "can only" be too late, so that no vector "measured while the   *)
(* outgoing slot was still live" is serialised for the incoming one.  A    *)
(* save of a frozen slot contains what the slot was restored with,         *)
(* something measured since its boundary was read, or a record.            *)
NothingMeasuredBefore ==
    call.pc = "captured" /\ call.slot.freeze =>
        LET v == call.slot.frozen
        IN  \/ v = mirror
            \/ v > measuredAt
            \/ restored = None /\ v \in everStaged

(* ADR-0014's Known limit: a save inside the window may miss the vector,   *)
(* "the next save is correct".  A save of a frozen slot with no record on  *)
(* its way contains the slot's own vector, or one that was published since *)
(* it became live.                                                         *)
NextSaveIsCorrect ==
    call.pc = "captured" /\ call.slot.freeze /\ stageSeq = appliedSeq =>
        call.slot.frozen = mirror \/ call.slot.frozen > publishedAt

=============================================================================
