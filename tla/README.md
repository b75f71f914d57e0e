# A verification of Anabasis

Anabasis (`src/`) is a mastering plug-in: one audio thread that must never wait,
a message thread that owns the user's state, and a host that may call either
side at almost any moment.  This directory holds TLA+ models of the parts where
those three meet, the TLC configurations that check them on small instances, and
TLAPS proofs of what matters most for every value of the constants.

Every definition is translated from the C++ of `src/src`.  `PROJECT.json` lists
the components, the runs, the hazards, and for each definition the lines it
stands for.  Paths below are relative to `src/src`.

Contents: 1 the system, 2 the modules, 3 the runs, 4 fairness, 5 the proofs,
6 what the checks found, 7 abstractions and limits, 8 the plan.

## 1. The system

### Threads

* The **audio thread** runs `processBlock`: it takes a snapshot of the
  parameters, lets the engine process the block, and publishes readings through
  relaxed and release atomics.
* The **message thread** runs the editor, gestures, presets, undo, A/B, the 30 ms
  drain of the macro engine, and most host calls.
* **Host threads** deliver automation, and (VST3 promises nothing else)
  `setStateInformation`, `getStateInformation` and the end of a gesture.
* `prepareToPlay` never overlaps `processBlock`; everything else may.

No lock is shared between them.  They communicate by flags that one side raises
and the other exchanges, by staged records under such a flag, by sequence
numbers that acknowledge a record, and by rings.

### Components

| Component | State it keeps | Operations | Talks to | What is hard | Correct when |
|---|---|---|---|---|---|
| Duck envelope and rewires (`dsp/AnabasisEngine`) | duck state and phase, bottom hold, what is latched, engagement tail | block-top decision, output loop, prepare, offline entry | flag from every bulk swap; injects frozen records at its bottom | requests at any sample of a running duck, latch emptying the line, tail of the old composition | silence around every change, refilled before audible, no gain step, always recovers |
| Freeze memory (`PluginProcessor`, `AnabasisEngine`, `AdaptiveEngine`) | record per slot, staged record with number, acknowledged number, retained vector and its generation | save, switch, load, stage, consume, inject, publish, prepare | duck (to be applied), save (to be serialised) | no lock, saves at any moment of a restore | a slot is saved with its own vector; frozen means held |
| Session loudness (`dsp/LoudnessMeter`) | sub-block ring, two watermarks, histogram, caches | frame, pause, reset, two readings | called by the engine per frame | resets at any phase of a sub-block | only clean windows count, none is lost |
| Session meters (`AnabasisEngine`, `PluginProcessor`) | holds, bypass crossfade, reporting lag, session length, published figures | reset request, block, publication, prepare | loudness meter, editor | publication race with the reset; lagged true peak | figures cover exactly the open frames since the reset |
| State sets, A/B, undo, preset brackets (`PluginProcessor`) | live and stored slot, dirty datum of each, two stacks per slot, gesture snapshot, history epoch | gestures, undo, redo, switch, Copy, preset apply and save, load | macro engine, adaptive engine, duck | long legal sequences; loads from other threads | histories own, paired, of this session, reversible |
| Macro engine and detach drain (`MacroEngine`, `PluginProcessor`) | armed flag, restore depth, staged detach bits, re-engage flag | parameter callback, tick, restore guard, flush | parameters, state sets | callbacks on any thread, restores during a tick | what a gesture, an edit or a restore asked for stands once the drain has settled |
| Adaptive engine: Learn (`AnabasisEngine`, `AdaptiveEngine`) | command word, staged record, sums, learned references | start, stop, commit, restore | save and load | start and stop faster than a block | a pass is committed whole, a save is never a torn pair |
| Gain-reduction history and its view (`dsp/GrHistoryBuffer.h`, `gui/GrHistoryView`) | ring, epoch, partial entry; published scroll state | push, clear, tick, paint | prepare, editor | reader races a rewind and the lapping writer; decimation geometry | a drawn frame is of one timeline, whole, rigid |
| Scope rings and spectrum view (`dsp/ScopeBuffer.h`, `gui/SpectrumView`) | two rings, reset generations, traces, published frame | push, reset, tick, publish, paint | history epoch, editor | resets seen in halves, torn frames | an analysed window is of one configuration, a painted frame was published |
| Ceiling clamp (`dsp/CeilingClamp.h`) | rings of ceilings, readings and requirements, counted windows | one frame, a ceiling that moves | engine's glide | a ceiling lowered while frames are in flight | a frame leaves under the gain promised at every reading of it |
| Presets (`PresetManager`, editor) | selection, name, datum, lock, files | apply, save, load, arrows | state sets, the folder | files that change under a menu, names that clash | identity and edited mark tell the truth |
| Reported latency, internal state | atomic mirrors, batch flag | edit, load, report | duck, host | reported at once, real at the bottom | they meet again |
| Limiter, compressor, EQ, clipper, RMS, true-peak interpolation | filters and windows | per-sample arithmetic | engine | floating point | numeric; outside this work |
| Editor, views, look and feel, build, scripts, docs | | | | | not modelled |

## 2. The modules

`DuckEnvelope` **(core).**  Time in samples.  A block is `TakeSnapshot` (the head
of `processBlock`), `BlockTop` (the head of `process()`, one action with the
code's chain of alternatives: `AdoptDirectly`, `AtBottom`, `StartOutLeg`,
`AskedDuringOutLeg`, `NothingToDo`) and one `Sample` per iteration of the output
loop; `SetParams`, `RequestForcedDuck` and `Prepare` come from outside, the first
two between any two of these.  `duckPhase` of both legs and the `acos` between
them are one integer `level`: the legs are mirror images, and `acos` converts
one phase into the other at equal gain.  History variables: `filled` (samples in
the lookahead line since it was emptied) and `exempt` (adopted where nothing was
playing).

`FrozenTrims` extends `DuckEnvelope`; its duck steps are the actions above, so a
record is injected where and when the real bottom happens.  The wrapper's calls
(`BeginCapture` to `FinishSave`, `SwitchSlots`/`LoadSession` to
`FinishAdoption`) and the block top (`ConsumeRequest`, `ConsumeRecord`,
`ReadFirst`, `ReadSecond`, `FBlockTop`, `Announce`, `Acknowledge`) advance one shared
access at a time.  A publication is two steps, as `publishTrims` makes it: the retained
vector is stored at the injection or at the end of a measuring block (`Measure`), and
`Announce` counts it in the generation; any step of the wrapper may fall in between.
A vector is the number of the measurement it came from.

`LoudnessSession` models the session half of the loudness meter: sub-block
bookkeeping, `resetIntegrated`, `setSessionPaused`, admission, caches.
`dirtyEnd` is a history variable: the end of the last frame that must not be
heard in the session.

`MeterSession` extends `LoudnessSession` and calls its operations from the
engine's frame section: bypass crossfade, reporting lag (a shift register of
open flags, as in the code), session length, holds, publication field by field,
and `requestMeterReset` of any number of threads, store by store.  A peak is the
set of the frames it was taken over.

`UndoHistory` models the wrapper's state-set machinery.  A handler of the
message thread is one action; a preset apply is four (`OpenBracket`,
`LandPreset`, `SettlePreset`, `CloseBracket`), a load two (`AnnounceLoad`,
`InstallSession`), because other threads act in between.  `syncHistory` is not an
action but the way every handler reads the stacks (`Undos`, `Redos`, `PreState`).

`MacroDrain` models the macro layer.  A thread's call is the list of the single
loads, stores and exchanges it still has to make (`doing`), and the message
thread and another one interleave between any two of them; only the message
thread ticks.  Detached parameters, staged bits, the re-engage flag, the armed
mapping, the restore guard and the teardown latch are the code's own atomics.
`stands` is a history variable: what each parameter was last brought to.
`MacroInvariant` states what is kept between any two accesses.

`LearnMailbox` has the same shape for three threads: clicks compose a command in
one word, the audio thread takes it and the staged record at its block top and
feeds the pass, the host loads and saves the `ADAPTIVE` child.

`WeakMemory` says what a C++ thread may see of another's atomics: the writer's
stores are numbered, and a reader is described by the number up to which they
happen before it; acquire loads and fences raise it, relaxed loads do not.
`GrHistory` (ring, engine's partial entry, tick, paint) and `FramePublication`
(the spectrum's published pair) are written over it.  `FrameRegister` is the
abstract specification of the latter, a register of whole frames that never
goes back, and `PaintsAreFrames` states the refinement.

`GrBuckets` holds the decimation geometry of the history view in exact integers
(`Rounding`); `GrHistory` instantiates it for what a paint reads, `GrScroll` extends it for frame after frame of a
filling and scrolling display.

`ScopeView` models the two scope rings' pushes and rewinds store by store, and
the spectrum tick load by load: what it folds, floors, blanks and commits.  A step of
the tick that loads nothing shared commutes with every store, so the writing side
waits for it.  `ScopeInvariant` states what is kept between any two of these steps.

`ClampWindows` models the true-peak path of the ceiling clamp: one `ProcessFrame`
moves the glide, revises the frames in flight when the ceiling is lowered
(`Retarget`), reads a segment, and emits the oldest frame.

`PresetBank` models preset files, the identity stored in a session, the rows of
the menu, the arrows, the edited mark and the ceiling lock.  The folder changes
between any two steps.

The theorems about a component and their proofs are in a module of its name with
`_proofs`: `FrozenTrims` (which begins with those of the duck), `MeterSession`
(which begins with those of the loudness meter), `UndoHistory`, `LearnMailbox`,
`MacroDrain` (over `MacroInvariant`), `ClampWindows` and `PresetBank` have one;
`Views_proofs` has those of `GrScroll`, of `ScopeView` (over `ScopeInvariant`) and of
`FramePublication`.

`MC*` modules give the constants finite values.  Three of them also gather
components that share no state: `MCSessions` (meters, history), `MCViews` (history,
scroll, scope) and `MCExchanges` (macro, learn, publish, clamp, presets) have a
variable `part` that is chosen in the initial state; the next-state relation then is that of the part,
and the variables of the others rest.

Definitions whose comment begins with "Mutant" are plausible bugs of the
definition that follows them; no specification uses them, and replacing one by
the other must break the property that `PROJECT.json` pairs them with.

## 3. The runs

| Run | Instance | Shows |
|---|---|---|
| `duck_envelope` | Off and one factor with one sample of latency, two samples of lookahead, a tail as long as the lookahead, ramps 3/2 down and 3/1 up, blocks of 1 or 2, both rewires, true-peak modes and offline states, Force Max on | `NoAudioBeforeRefill`, `TailOnlyUnderSilence`, `TruePeakFromTheToggle`, `ChangesOnlyInSilence`, `NoGainStep`, the inductive invariant `EnvelopeInv`, and `RequestReachesBottom`, `RecoversToUnity` |
| `frozen_trims` | the smallest duck (three phases of one sample), two staged records, two measured vectors | `SettledMeansInjected`, `NoLatchPublishedBefore`, `FrozenAcrossPrepare` |
| `frozen_live` | one record, one measured vector | `StagedIsApplied` |
| `sessions` | meters: sub-blocks of 2, windows of 2 and 3, a ring of 3, lag 2, fade 2, blocks of up to 2, one requester, 4 sub-blocks between prepares; history: two sounds that are both presets, a curve that moves one of them, stacks of two, three edits, one load | `TruePeakOfSession`, `PeakAndLengthOfSession`, `RestingDisplay`, `GatedWasOpen`, `CacheIsCurrent`, `GatedIsClean`, `RangedIsClean`, `NoneLost`; `HistoryIsOwn`, `HistoryIsOfSession`, `DatumOfName`, `NoOpApplyLeavesHistory`, `Reversible` |
| `views` | history: a ring of three entries, two prepared pairs, two clears, three ticks, seven handlers; scroll: a ring of 24, seven windows of 1 to 30 entries, four plots of 2 to 12 columns; scope: rings of two frames, windows of one, three frames, one prepare | `ShownIsOneTimeline`, `NeverRightward`; `VerticesAreWhole`, `ScrollsRigidly`, `PanelIsCovered`; `FrameIsOneSpan` |
| `exchanges` | macro: two parameters, two positions, three calls; learn: three clicks, two blocks, two loads or saves; publish: four frames; clamp: six taps, an attack of three, three levels, two moves, two loud segments; presets: two factory presets, a file with the name of one of them, a name that reads as a path, three edits, saves, loads or changes on disk | `LastVerbStands`; `LearnFollowsClicks`, `SavedIsLatest`; `PaintsAreFrames`; `GainKeepsPromise`, `JudgedAtEmission`; `TickedRowIsSource`, `RingReachesAll`, `MarkIsAboutTheFile` |
| `frozen_held`, `frozen_next_save`, `frozen_boundary`, `undo_during_load`, `macro_reengage`, `learn_twice` | as the component in its passing run; `frozen_held` with one staged record, `frozen_boundary` with one and one measured vector, `undo_during_load` with two edits, `learn_twice` with a fourth click and a third block | one statement each of the code's comments or ADRs that fails, section 6 |

The six violation runs and `exchanges` and `views` leave
deadlock unchecked where the clicks, calls, blocks or handlers of an instance
run out, or where the teardown of the drain ends everything.

Why the bounds are enough:

* The duck has no unbounded counter; the run covers its whole state space.  Two
  steps down against three up reach every unaligned reversal, a tail equal to
  the lookahead is the tightest case `TailAssumption` admits, and two-sample
  blocks against a three-sample refill let a hold end inside a block, at its
  end, and blocks later.
* Two staged records are what it takes for a second staging to overtake the
  reading of the first; two measured vectors tell a vector measured before an
  adoption from one measured after.
* Two different windows keep the off-by-ones apart, and a ring no longer than the
  longest of them wraps while both are read.  Four sub-blocks let a pause with both
  its fades and a reset overlap the reporting lag and still be followed by an
  admitted gating block; what holds of longer runs is proved.
* Two-entry stacks fill and overflow within three edits; a third edit after the
  overflow, an undo and a Copy meet in one behaviour.  Gestures, undo, redo and
  switches are not bounded.  A session file holds a preset as applied: what a
  load does to history does not depend on the sound it brings.
* Three acts let a file be saved, changed behind the program and met again by a
  load or an arrow; the two names that mislead are the one a factory preset has
  and the one that reads as a path.
* A history ring of three is lapped by four entries, and two clears put an entry
  of the timeline before the last beside one of the last.  The scroll windows
  hold strides of one and more, a full and a short ring; its ring of 24 is too
  small for the largest window, which is the case `leadBuckets` cuts.
* Three calls are an edit, a gesture and a restore in any order, on two threads,
  with ticks unbounded between them.  A call may be of any kind, so each of the
  three may be any of them.
* Three clicks are a whole pass and the beginning of the next; two blocks take,
  feed and commit; a load and a save are two host calls.
* A scope ring of two frames and a window of one let the writer lap what is being
  copied; the prepare changes the rate and the block, or neither, which are the two ways
  a rewind reaches the view: with a change of the pair it publishes, and without.
* Four publications let a reader be two behind and copy bins and description from
  different ones.
* A detector of six taps and an attack of three overlap the windows as the real
  ones do; a glide that is reversed is two moves.

## 4. Fairness

`Spec` and `FSpec` assume weak fairness of the audio thread's steps (the host
keeps delivering blocks while the plug-in is active), and `FSpec` of the steps of
a wrapper call already begun (a running function returns).  Nothing is assumed of
parameter edits, requests, loads, prepares, bypass or saves: they may happen
always or never.  `RequestReachesBottom` therefore allows for a host that
re-prepares, or enters offline rendering, before the bottom: both discard the
request in the code, by adopting everything at once.  `RecoversToUnity` is about
behaviours in which edits and requests end.  The other modules claim no liveness:
the drain and the views poll, and what matters of them is what they may show.

## 5. The proofs

TLAPS checks every theorem for all values of the constants, with no assumption
beyond the named `ASSUME`s of the modules, which TLC evaluates in each run, and the
hypotheses a theorem states itself, named below.

**Duck envelope** (`FrozenTrims_proofs`, its first part), for every latency table, lookahead,
ramp, tail no longer than the lookahead, and block length.  The inductive
invariant is `EnvelopeInv`.  `NoAudioBeforeRefill` is not inductive: nothing in it
says why the envelope stays down long enough.  `HoldCoversRefill` does: what the
hold has left covers what the line still misses, and one loop counts both down.
`HoldCoversTail` is the same for the engagement tail; it rests on
`TailLength <= Delay` (6 ms against 10 ms in the code), the one fact about
durations that the argument needs.  `LevelFollowsState` and `RunOfBlock` tie the
envelope's phase to its gain and to the block.  There is one lemma for each
alternative of the block top and one each for the sample and the prepare; they
are combined in `EnvelopeInvariant`.  From it follow `TypeCorrect`,
`RefilledBeforeAudible`, `TailUnderSilence`, `TruePeakAtOnce`, and the action
properties `SilentChanges` and `GainContinuity`.

**Freeze memory** (`FrozenTrims_proofs`, its second part), for any number of records and
measurements and any duck that `EnvelopeInv` covers.  `SettledMeansInjected` speaks
of numbers that agree at rest; it holds because a record whose number is the last
one staged *is* the last one staged (`RecordInv`, which leaves out exactly the moments
between a staging's payload and its number, and the second half of a reading).
`NoLatchPublishedBefore` needs `OwnerInv`: a vector that is counted past the slot's
base, or stored and still to be counted, was published since the slot was adopted or
staged before, and once the slot's record is acknowledged it is the slot's own.  The
generation and the stored vector are compared in every state between the two stores
of a publication, which is why the boundary is what had been *counted* when the base
was read (`publishedAt`) and not what had been measured: `frozen_boundary`, section 6.
`FrozenAcrossPrepare` follows from `HeldInv`, which says where the held vector is when
no block runs.  As the duck's steps here are those of `DuckEnvelope`, its theorem carries
over (`RecordsDuckSilently`).

**Session loudness** (`MeterSession_proofs`, its first part), for every sub-block and window
length and every ring that holds the windows.  `MeterInv` adds to the type and the cache
two facts: while paused, dirt reaches up to the present frame; while running,
both watermarks are *guarded*, that is, the first window they admit begins
between one and two sub-blocks after the dirt.  The products with the sub-block
length are isolated in a few lemmas (`ScaledOrder`, `GuardedNow`,
`AdmittedStartsLate`, `LateIsAdmitted`) so that the step proofs are linear.
Proved: `MeterInvariant`, `MeterTypeCorrect`, `CacheCurrent`, and the action
properties `GatedClean`, `RangedClean`, `NoBlockLost`.

**Session meters** (`MeterSession_proofs`), for every reporting lag, crossfade,
block length and set of requesters.  `LagInv` says of each flag in the shift
register which position it is about, and that the flags a reset makes the register
skip are those from before it; `HoldInv` then counts the holds, the running block's
share included, against the open frames.  The display rests on `DisplayInv`: with
no clear announced or under way, a field that differs from the session's figure is
one the block has still to publish.  `SessionIsMeter` proves that the composition
implements `LoudnessSession`, so what is proved of the meter alone holds in it;
`GatedOpen` joins the two, by `CleanInv`: every frame from the last dirty one on
was open.

**State sets and history** (`UndoHistory_proofs`), for any presets, curve, stack
depth and number of edits and loads.  `HistoryInv` says of every stack which slot
and which sessions its entries are of (`StackInv`, where the sessions are all of
them until the stacks are reconciled with the epoch), what an open drag and an open
preset bracket may still rely on (`DragInv`, `BracketInv`), and whose datum stands
beside a slot (`DatumInv`).  Every theorem has the hypothesis `~ActsDuringLoad`:
without it `HistoryIsOfSession` is false, which `undo_during_load` shows.
`DatumFollowsName` and `NoOpApply` also have `~Overlap`, section 6.
`UndoIsReversible` is an action property at any depth.

**Publication** (`Views_proofs`, its third part), for any number of frames.
`PaintsFrames` is the refinement of `FrameRegister`: initial states map to initial
states, and a tick and a paint to a step or a stutter.  The numbering of the
writer's stores is explicit (`Layout`), a reader is the number it knows, and the
argument is that of a sequence lock: whoever acquired an even count knows every
store of that frame, and whoever read a store of a later one cannot read that
count again behind the fence.

**Ceiling clamp** (`ClampWindows_proofs`), for any detector length, attack, reach and
lead, any ceilings and any readings that are finite sets of integers.
`CeilingAtEmission` rests on `InForce`: a ceiling still in flight will have been
reached by the glide when its frame leaves.  `GainKept` needs the promise of every
gain planned for a frame still to come, per stage of the plan (`Planned`), and that
revising a requirement for a lowered ceiling lowers every window that counted it
(`WindowInv`: a window counts exactly what it holds).

**Presets** (`PresetBank_proofs`), under `BankAssumption`: there are at least two factory presets,
and a file has a name.  `IdentityInv`: the selection is the source,
and a stored identity decodes to what it encoded.  `LandedInv` ties the datum of the
edited mark to the file.  `TickIsSource`, `MarkIsHonest`, and `RingReaches`: the rows
that repeated presses reach from any place include all that apply, because the next
press from the reached row that is nearest to one that is left out would land on it,
or come nearer.

**Learn** (`LearnMailbox_proofs`), for any sessions, number of blocks, clicks, loads
and saves.  `LearnInv` says what each thread's call still has to do (`Wording`,
`SavingOnset` and the like: a step, and then one of the rests that may follow it),
and per such shape what has been done so far.  `ClickInv`: unless a take fell
inside a click, the word is `WordOf` the clicks.  `HostInv`: which parts of the
staged record are the loaded one's, and which of the child being saved are the
last reference's.  `AudioInv`: what the block has read and published, as long as
no newer record is on its way (`Known`); a block that reads a half-staged record
publishes a mixture, and the record that is raised after it makes up for it.  The
proof has one lemma per action.  It gives `ClicksAreFollowed` and
`SaveIsOfTheLatest`.

**Macro** (`MacroDrain_proofs`), under `DrainAssumption`, for any managed parameters
in any order of landing, positions, restored states and number of calls, on two
threads that interleave between any two accesses.  `LastVerbStands` speaks of the
moments when nothing is staged, armed or under way; the inductive invariant is
`MacroInv`.  `CallInv` says what each thread's call still has to do, as for Learn,
and of a restore or a reset also what its first steps have brought about for every
parameter that no other call touches (`Carries`, `Resets`): the other thread then is
at a step that spares the parameter (`Sparing`), and can stage or drain nothing for it,
because the guard is up.  `GuardInv` counts the guards, so a drain never starts in the
middle of a restore.  `OwedInv` says what the drain still owes a parameter, by what
it was last brought to: an edit is in the mask or among the bits that the next
drain takes before its mapping (`HandOwed`); a macro gesture waits, with a mapping
coming, for a drain that has not mapped yet, or has re-engaged all, and then either
a mapping comes or the one that lands has the macro as it is (`MacroOwed`); and
what a restore carried is untouched (`CarriedOwed`).  During a bulk change nothing is
owed: its last step says anew what stands.  One lemma per action; a settled state
owes nothing (`NothingOwed`), and `TheLastVerbStands` follows.  The proof does not
touch what `LastVerbStands` leaves aside: a parameter two calls overlapped in
stands as `unknown` or `raced` and is owed nothing.

**History geometry** (`Views_proofs`, its first part), for any ring, windows, plot widths of two
columns and more, phases and heads, under `ScrollAssumption`: the bound on the lead is
at least the four buckets of `kMaxLead` (`GrHistoryView.h:734`).  The invariant,
`ScrollInv`, only says that a frame is a function of its head, its phase and the
place of the live ring; the work is in the integer lemmas.  `PaneParts` shows what the
comments of the code argue in prose: that the hidden columns never take more than
four pitches, so the bound on the lead does not bite, and that the ring's size
bounds the stride.  `BucketParts` and `DrawnWhole` place the newest and the oldest
bucket against the head, `XIs` gives the position of a vertex without the head's own
bucket, and from these follow `VerticesWhole`, `RigidTrace` and, by an edge each
(`RightEdge`, `LeftEdge`), `PanelCovered`.

**Spectrum frames** (`Views_proofs`, its second part), for any ring capacity, window
smaller than it, prepared pairs and number of frames and prepares, under
`ScopeAssumption`.  `FrameIsOneSpan` is about the end of a tick; why it holds is
spread over the tick's twenty loads, between any two of which the writing side may
push, lap, rewind and announce.  The inductive invariant is `ScopeInv`, in three
layers.  The writing side (`WriterInv`, `SlotInv`): how far each ring's payload
reaches (`Extent`, ahead of the index while a chunk is stored, behind the generation
while a prepare rewinds), and that it holds the last capacity of frames up to there,
of the timeline of its generation.  What the tick has loaded, as long as
generations and epoch are still those it loaded (`Held`, `HeldPair`; a count that can
only grow and has not was never different meanwhile): a count that is not zero is of
that timeline, a head is no newer than the payload, a copied frame is the one meant
unless the ring reached a capacity past it (`Meant`), and is of the timeline even
then (`CopiedLines`).  What is proved and folded (`Proved`, `TraceInv`): the second load
of the indices bounds how far the payload reached, because a chunk under way is no
longer than the block that the floor gives up (`ChunkIsReserved`), so a span above
both floors is exact.  One lemma covers each conjunct for the stores and each for the
loads; each deciding step of the tick has one of its own.  The theorem is
`FramesAreSpans`.

**Only model-checked.**  Liveness and ENABLED, which the prover does not handle
(`RequestReachesBottom`, `RecoversToUnity`, `StagedIsApplied`).  `ShownIsOneTimeline`
and `NeverRightward` of `GrHistory`: a block of the engine pushes its entries by a fold
over a sequence, and what that leaves in the ring takes induction over data.  The
inductive invariants of this section, but for `EnvelopeInv`, are not invariants of a
run: they quantify over whole domains and their proofs stand on their own.

## 6. What the checks found

* `frozen_held` (code).  `process()` uses the Freeze of a snapshot taken before it
  consumes a staged record.  A restore that completes in between is injected by a
  block that still has Freeze off, whose own end then slews the vector that
  `AnabasisEngine.cpp:623` says is held from there on.
* `frozen_next_save` (documentation).  ADR-0014 says that a save inside the window of
  a quick slot switch may miss the vector but "the next save is correct".  If
  the slot switched to is frozen and has no record of its own, the first slot's
  record is injected into it and serialised as its own by every later save.
* `frozen_boundary` (documentation).  The comment of `adoptFrozenMirror` says that a
  boundary read after the mirror write "can only make the boundary too LATE"
  (`PluginProcessor.cpp:1195`).  `publishTrims` stores the four floats before it
  counts them (`AdaptiveEngine.h:775-784`).  Read in between, the boundary is the old
  count: it moves without a further measurement, and a save of a frozen slot with no
  record of its own contains a vector measured while the other slot was live.
  `frozen_trims` and `SavesNothingPublishedBefore` show what remains: no vector whose
  publication was complete at the boundary is saved.
* `undo_during_load` (documentation).  A load off the message thread bumps the
  history epoch before it installs its state.  A step pushed in between belongs
  to the new history and restores the old session, against "a load starts a
  fresh history for both slots".  `sessions` shows that it holds when the
  message thread does not act in the middle of a load.
* `macro_reengage` (code).  A macro gesture off the message thread stores the
  re-engage flag (`PluginProcessor.cpp:308`) and then arms the mapping.  A drain tick
  that has already taken the flag consumes the armed mapping against the old
  mask, and the next tick clears the mask with nothing armed: the parameter reads
  as re-engaged and keeps its off-curve value, which is what the comment at
  `PluginProcessor.cpp:291` rules out.
* `learn_twice` (code).  `requestLearnStart` (`AnabasisEngine.h:237`) loads the
  outstanding word and then stores the composed one.  If the block takes the
  word in between, the command is delivered a second time, against "arrives whole
  and exactly once" (`AnabasisEngine.cpp:450`), and a pass of a single block is
  committed and saved.

Observations without a run:

* `UndoHistory` has a constant `Overlap`.  With `Overlap = TRUE` a preset apply or
  save, an undo or a redo may happen while a drag is open, and `DatumOfName` fails
  for history entries: `pushUndoStep` pairs the slot captured when the drag began
  with the datum found when it ends.  With one pointer and no generic host editor
  the two do not overlap, so the run has `FALSE`.
* "Copy undo keeps the current view mode" (`PluginProcessor.cpp:1416`): the pin is
  taken when Copy runs (`:621`), so an Advanced toggle after it is put back.
* The numeric reading of the history (`GrHistoryView.h:207`, "always the exact
  minimum") guards against being lapped by comparing with an index that a clear
  may have rewound in between (`:281`); it can then return a minimum over
  overwritten slots for one tick.
* `applyPreset` keeps the previous value of a carried parameter that a file lacks,
  where `PARAMETER_REGISTRY.md:143` has it load the default.
* `updateLatency` (`PluginProcessor.cpp:899`) reads the settings and reports from
  two threads; the later report may be of the earlier reading
  (`THREADING_POLICY.md:59` has one call site, which is not one caller), and it
  stays until the next change.
* The second residual that `AnabasisEngine.h` lists for the learn word does not
  arise under the guards of the editor's button.

## 7. Abstractions and limits

* **Duck.**  The sample rate is one at which the true-peak path fits
  (`tpClampFits`); bypass and dry paths are left out, the envelope does not
  depend on them.
* **Freeze memory.**  The four floats are one vector, memory is sequentially
  consistent (the code's orderings are acquire and release around relaxed
  payloads), the wrapper's calls come one at a time, and undo and redo, which
  restore through the same `applySlotToLive`, are not separate actions.  The duck runs with a
  single configuration: what moves it here is requests.
* **Loudness.**  Levels are abstracted: a window counts as admitted above the
  absolute gate or not.  Momentary and short-term readings are not session
  figures and are left out.
* **Meters.**  One publication order, one requester in the run; momentary,
  short-term, RMS, PLR and gain-reduction readings are left out.
* **Undo.**  All parameters a preset carries, and the detach mask, are one
  sound.  A gesture is one of two parameters, a swept one and the Advanced toggle.
  The ceiling lock, the preset identity trio (module `PresetBank`) and the frozen
  record do not take part.  A preset apply and a load have the granularity of
  section 2, not of single parameter writes.
* **Macro.**  The nine curves are one; a curve gives the macro's position.  Calls
  of two threads that overlap in one parameter, and a tick already past its guard
  (KI-003), are left aside in `LastVerbStands`.
* **Learn.**  A reference is the number of its pass; the minimum length of a pass
  is time and left out.  The measured features are arithmetic.
* **History and views.**  `WeakMemory` is used for the history ring and the
  spectrum's published pair; `ScopeView` is sequentially consistent, so the
  weaker-memory residual of KI-018 is not modelled.  `NeverRightward` is about frames
  drawn from ticks of one timeline.  `ShownIsOneTimeline` leaves aside a frame for
  which the ring was outrun between the two loads of the lap check.  Pixels,
  colours, smoothing and the transform are left out.
* **Clamp.**  Decibels are integers; what the detector reads of a segment is an
  input, the attack's weights and the release are ranges, the other clip mode is
  left out.
* **Presets.**  XML text is left out; a file holds a preset, another program's
  document, or nothing readable.
* **Not modelled.**  The lookahead limiter keeps its minimum by a wedge that runs
  in one thread, and its law is arithmetic, as are the compressor, equaliser,
  clipper, RMS window and true-peak interpolation: floating point is out of TLC's
  reach.  The reported latency is one call without state of its own.  The internal
  settings are single stores.  Drawing, layout and file parsing are not
  behaviour the properties speak of.  The framework's own locks are outside
  `src/src` (KNOWN_ISSUES KI-008 records an inversion between two of them).
  Build, packaging, scripts, tests and documents are not the program.
  `PROJECT.json` gives each its reason.

## 8. The plan

The duck came first, because every bulk change of the program passes through it;
then what is injected at its bottom; then the meters, whose errors last a whole
session; then the user's history; then the exchanges between the threads and
what the views draw.  Next, in this order:

1. Theorems: the steps of `GrHistory` that push one entry or none.
2. An abstract specification of the duck (what the wrapper is promised: a request
   is answered by silence, every change happens in it) and its refinement by
   `DuckEnvelope`; an abstract history (a line of states with a cursor) and its
   refinement by `UndoHistory`.
3. Reported against latched latency, composed with `DuckEnvelope`; with it the
   batched notification of `InternalState`.
4. The limiter's wedge as a pure function against the minimum of its window.
