---------------------------- MODULE UndoHistory ----------------------------
(***************************************************************************)
(* The wrapper's state-set machinery: the two A/B slots, their undo and    *)
(* redo stacks, the gesture snapshot, preset application under its undo    *)
(* bracket, the dirty datum, and session loads                             *)
(* (src/src/PluginProcessor.{h,cpp}).                                      *)
(*                                                                         *)
(* The message thread runs every handler but three: host automation, the   *)
(* end of a gesture and setStateInformation may come from other threads.   *)
(* A handler of the message thread is one action; a preset apply, whose    *)
(* parameter writes take time, is four, with automation and loads between. *)
(*                                                                         *)
(* A state set keeps the sound (one value for all parameters a preset      *)
(* carries and the detach mask), the Advanced toggle, the view tier and    *)
(* the preset identity.  The frozen record of a slot is module FrozenTrims. *)
(***************************************************************************)
EXTENDS Integers, Sequences

CONSTANTS
    Sounds,          \* values of the preset-carried parameters
    Presets,         \* the factory presets, named by their sounds
    Default,         \* the preset of pristine parameters
    User,            \* the name of a state that a saved preset file holds
    Curve,           \* the sound once the macro curve has landed on it
    UndoCap,         \* kUndoCap
    ActsDuringLoad,  \* the message thread may act in the middle of a load
    Overlap,         \* presets, saves, undo and redo may come during a drag
    MaxEdits,        \* bound: writes, copies, presets and saves of one run
    MaxLoads         \* bound: session loads

ASSUME HistoryAssumption ==
    /\ Presets \subseteq Sounds /\ Default \in Presets /\ User \notin Sounds
    /\ Curve \in [Sounds -> Sounds] /\ \A s \in Sounds : Curve[Curve[s]] = Curve[s]
    /\ UndoCap \in Nat \ {0} /\ {ActsDuringLoad, Overlap} \subseteq BOOLEAN
    /\ MaxEdits \in Nat /\ MaxLoads \in Nat

VARIABLES
    live, storedSlot,                  \* the active and the other state set
    activeSlot,
    presetBaseline, storedBaseline,    \* the dirty datum of each
    undoStacks, redoStacks,
    gesturePreState, openGestureBits,
    historyEpoch, historyEpochSeen,
    userFile,                          \* the sound of the saved preset file
    bracket,                           \* the preset apply under way
    loading,                           \* a load has been announced
    session,                           \* history: loads installed
    edits                              \* bound

stackVars  == <<undoStacks, redoStacks, historyEpochSeen>>
slotVars   == <<live, storedSlot, activeSlot, presetBaseline, storedBaseline>>
dragVars   == <<gesturePreState, openGestureBits>>
loadVars   == <<historyEpoch, loading, session>>
undoVars   == <<stackVars, slotVars, dragVars, loadVars, userFile, bracket, edits>>

Slots  == {0, 1}
Params == {"knob", "adv"}       \* the undo-eligible ones, with a gesture each
Names  == Presets \cup {User}
None   == [none |-> TRUE]       \* an invalid ValueTree

Pristine == [sound |-> Default, adv |-> FALSE, view |-> FALSE, name |-> Default]

\* presetShapeFromLive, with the name it was taken for.
Shape(s) == [sound |-> s.sound, name |-> s.name]

\* saveSlotFromLive, with the slot and the session it was taken in.
Captured == [slot |-> live, of |-> activeSlot, session |-> session]

\* An UndoEntry.
Entry(captured, baseline) == [captured |-> captured, baseline |-> baseline]

\* strippedForUndoCompare: what an undo can restore.
Stripped(s) == [sound |-> s.sound, adv |-> s.adv, name |-> s.name]

\* presetDirty.
Dirty(s, baseline) == baseline # None /\ baseline.sound # s.sound

UndoInit ==
    /\ live = Pristine /\ storedSlot = Pristine /\ activeSlot = 0
    /\ presetBaseline = Shape(Pristine) /\ storedBaseline = Shape(Pristine)
    /\ undoStacks = [s \in Slots |-> <<>>] /\ redoStacks = [s \in Slots |-> <<>>]
    /\ gesturePreState = None /\ openGestureBits = {}
    /\ historyEpoch = 0 /\ historyEpochSeen = 0
    /\ userFile = None /\ bracket = None /\ loading = FALSE
    /\ session = 0 /\ edits = MaxEdits

-----------------------------------------------------------------------------
(* syncHistory: the stacks and the snapshot as its caller finds them.      *)

\* Mutant: only the active slot's stacks go.
ClearedActive(stacks) == [stacks EXCEPT ![activeSlot] = <<>>]

Cleared(stacks) == [s \in Slots |-> <<>>]

Current == historyEpochSeen = historyEpoch
Undos   == IF Current THEN undoStacks ELSE Cleared(undoStacks)
Redos   == IF Current THEN redoStacks ELSE Cleared(redoStacks)
PreState == IF Current THEN gesturePreState ELSE None

PushCapped(stack, e) == IF Len(stack) >= UndoCap THEN Append(Tail(stack), e)
                                                 ELSE Append(stack, e)

Top(stack) == stack[Len(stack)]
Popped(stack) == SubSeq(stack, 1, Len(stack) - 1)

\* pushUndoStep, after the synchronisation.
PushUndoStep(captured) ==
    /\ undoStacks' = [Undos EXCEPT ![activeSlot] =
                        PushCapped(@, Entry(captured, presetBaseline))]
    /\ redoStacks' = [Redos EXCEPT ![activeSlot] = <<>>]
    /\ historyEpochSeen' = historyEpoch

Sync == /\ undoStacks' = Undos /\ redoStacks' = Redos
        /\ historyEpochSeen' = historyEpoch

MessageThread == loading => ActsDuringLoad
MessageFree   == MessageThread /\ bracket = None
NoDrag        == Overlap \/ openGestureBits = {}
Spend         == edits > 0 /\ edits' = edits - 1

-----------------------------------------------------------------------------
(* Parameter writes and gestures.                                          *)

\* A gestured move, or automation from any thread.
SetSound(v) ==
    /\ Spend /\ v # live.sound
    /\ live' = [live EXCEPT !.sound = v]
    /\ UNCHANGED <<stackVars, storedSlot, activeSlot, presetBaseline,
                   storedBaseline, dragVars, loadVars, userFile, bracket>>

\* The Advanced toggle and the view-tier ones.
Toggle(field) ==
    /\ MessageFree /\ Spend
    /\ field = "adv" => "adv" \in openGestureBits
    /\ live' = [live EXCEPT ![field] = ~@]
    /\ UNCHANGED <<stackVars, storedSlot, activeSlot, presetBaseline,
                   storedBaseline, dragVars, loadVars, userFile, bracket>>

GestureBegin(p) ==
    /\ MessageFree
    /\ p \notin openGestureBits
    /\ openGestureBits' = openGestureBits \cup {p}
    /\ IF openGestureBits = {}
         THEN Sync /\ gesturePreState' = Captured
         ELSE UNCHANGED <<stackVars, gesturePreState>>
    /\ UNCHANGED <<slotVars, loadVars, userFile, bracket, edits>>

\* The last message-thread end pushes the drag, if it changed something.
GestureEnd(p) ==
    /\ MessageFree
    /\ p \in openGestureBits
    /\ openGestureBits' = openGestureBits \ {p}
    /\ IF openGestureBits = {p}
         THEN /\ IF PreState # None /\ Stripped(PreState.slot) # Stripped(live)
                   THEN PushUndoStep(PreState) ELSE Sync
              /\ gesturePreState' = None
         ELSE UNCHANGED <<stackVars, gesturePreState>>
    /\ UNCHANGED <<slotVars, loadVars, userFile, bracket, edits>>

\* An end off the message thread closes the drag and pushes nothing.
GestureEndElsewhere(p) ==
    /\ p \in openGestureBits
    /\ openGestureBits' = openGestureBits \ {p}
    /\ UNCHANGED <<stackVars, slotVars, gesturePreState, loadVars, userFile,
                   bracket, edits>>

-----------------------------------------------------------------------------
(* Undo, redo, A/B.                                                        *)

\* applySlotToLive: the view tier stays, the Advanced toggle only unless adopted.
Applied(s, adoptAdvanced) ==
    [s EXCEPT !.view = live.view,
              !.adv = IF adoptAdvanced THEN s.adv ELSE live.adv]

\* Mutant: undo leaves the dirty datum of the preset it undoes.
BaselineKept(e) == presetBaseline

RestoredBaseline(e) == e.baseline

\* Mutant: the datum is restored before the way back is recorded.
WayBackLate(e) == Entry(Captured, e.baseline)

\* What undoing or redoing e leaves for the opposite stack.
WayBack(e) == Entry(Captured, presetBaseline)

Undo ==
    /\ MessageFree /\ NoDrag
    /\ Undos[activeSlot] # <<>>
    /\ LET prev == Top(Undos[activeSlot])
       IN  /\ live' = Applied(prev.captured.slot, TRUE)
           /\ presetBaseline' = RestoredBaseline(prev)
           /\ redoStacks' = [Redos EXCEPT ![activeSlot] =
                               PushCapped(@, WayBack(prev))]
    /\ undoStacks' = [Undos EXCEPT ![activeSlot] = Popped(@)]
    /\ historyEpochSeen' = historyEpoch
    /\ gesturePreState' = PreState
    /\ UNCHANGED <<storedSlot, activeSlot, storedBaseline, openGestureBits,
                   loadVars, userFile, bracket, edits>>

Redo ==
    /\ MessageFree /\ NoDrag
    /\ Redos[activeSlot] # <<>>
    /\ LET next == Top(Redos[activeSlot])
       IN  /\ live' = Applied(next.captured.slot, TRUE)
           /\ presetBaseline' = RestoredBaseline(next)
           /\ undoStacks' = [Undos EXCEPT ![activeSlot] =
                               PushCapped(@, WayBack(next))]
    /\ redoStacks' = [Redos EXCEPT ![activeSlot] = Popped(@)]
    /\ historyEpochSeen' = historyEpoch
    /\ gesturePreState' = PreState
    /\ UNCHANGED <<storedSlot, activeSlot, storedBaseline, openGestureBits,
                   loadVars, userFile, bracket, edits>>

\* Mutant: a drag open across the switch keeps its snapshot.
DragKept == UNCHANGED dragVars

DropDrag == gesturePreState' = None /\ openGestureBits' = {}

\* switchToSlot.
SwitchToSlot ==
    /\ MessageFree
    /\ live' = Applied(storedSlot, FALSE)
    /\ storedSlot' = live
    /\ presetBaseline' = storedBaseline /\ storedBaseline' = presetBaseline
    /\ DropDrag
    /\ activeSlot' = 1 - activeSlot
    /\ UNCHANGED <<stackVars, loadVars, userFile, bracket, edits>>

\* copySlotToOther's entry: the other slot, with the Advanced toggle of now.
CopyEntry == Entry([slot |-> [storedSlot EXCEPT !.adv = live.adv],
                    of |-> 1 - activeSlot, session |-> session],
                   storedBaseline)

CopySlotToOther ==
    /\ MessageFree /\ Spend
    /\ IF Stripped(CopyEntry.captured.slot) # Stripped(live)
          \/ storedBaseline # presetBaseline
         THEN /\ undoStacks' = [Undos EXCEPT ![1 - activeSlot] =
                                  PushCapped(@, CopyEntry)]
              /\ redoStacks' = [Redos EXCEPT ![1 - activeSlot] = <<>>]
         ELSE undoStacks' = Undos /\ redoStacks' = Redos
    /\ historyEpochSeen' = historyEpoch
    /\ gesturePreState' = PreState
    /\ storedSlot' = live
    /\ storedBaseline' = presetBaseline
    /\ UNCHANGED <<live, activeSlot, presetBaseline, openGestureBits, loadVars,
                   userFile, bracket>>

-----------------------------------------------------------------------------
(* Presets.                                                                *)

\* Mutant: a full stack is not noticed before the push.
OverfullOnly(stack) == Len(stack) > UndoCap

\* Whether the bracket's push will cost the oldest entry.
Evicts(stack) == Len(stack) >= UndoCap

\* What an apply lands: a factory preset, then the macro curve, or a file.
FactoryPreset(p) == [name |-> p, sound |-> p, curve |-> TRUE]
UserPreset == [name |-> User, sound |-> userFile, curve |-> FALSE]

\* openPresetUndoBracket.
OpenBracket(preset) ==
    /\ MessageFree /\ NoDrag /\ Spend
    /\ bracket' = [preset |-> preset, preSlot |-> live,
                   preBaseline |-> presetBaseline,
                   redoBefore |-> Redos[activeSlot], slot |-> activeSlot,
                   evicted |-> IF Evicts(Undos[activeSlot])
                                 THEN <<Undos[activeSlot][1]>> ELSE <<>>,
                   undoBefore |-> Undos[activeSlot],   \* history, as session
                   session |-> session, step |-> "land"]
    /\ PushUndoStep(Captured)
    /\ gesturePreState' = PreState
    /\ UNCHANGED <<slotVars, openGestureBits, loadVars, userFile>>

\* The preset's values, the mask and the identity.
LandPreset ==
    /\ MessageThread /\ bracket # None /\ bracket.step = "land"
    /\ live' = [live EXCEPT !.sound = bracket.preset.sound,
                            !.name = bracket.preset.name]
    /\ bracket' = [bracket EXCEPT !.step = "settle"]
    /\ UNCHANGED <<stackVars, storedSlot, activeSlot, presetBaseline,
                   storedBaseline, dragVars, loadVars, userFile, edits>>

\* relandMacroCurve on the factory path, then the new dirty datum.
SettlePreset ==
    /\ MessageThread /\ bracket # None /\ bracket.step = "settle"
    /\ live' = [live EXCEPT !.sound = IF bracket.preset.curve THEN Curve[@] ELSE @]
    /\ presetBaseline' = Shape(live')
    /\ bracket' = [bracket EXCEPT !.step = "close"]
    /\ UNCHANGED <<stackVars, storedSlot, activeSlot, storedBaseline, dragVars,
                   loadVars, userFile, edits>>

\* The apply changed nothing that an undo or the dirty marker could show.
NothingChanged ==
    /\ Stripped(bracket.preSlot) = Stripped(live)
    /\ \/ bracket.preBaseline = presetBaseline
       \/ bracket.preBaseline = None /\ presetBaseline = Shape(live)

\* The bracket's own push is still there to be retracted.
StillOnTop == /\ bracket.slot = activeSlot /\ Undos[activeSlot] # <<>>
              /\ Top(Undos[activeSlot]).captured.slot = bracket.preSlot

\* closePresetUndoBracket.
CloseBracket ==
    /\ MessageThread /\ bracket # None /\ bracket.step = "close"
    /\ bracket' = None
    /\ IF StillOnTop /\ NothingChanged
         THEN /\ undoStacks' = [Undos EXCEPT ![activeSlot] =
                                  bracket.evicted \o Popped(@)]
              /\ redoStacks' = [Redos EXCEPT ![activeSlot] = bracket.redoBefore]
         ELSE undoStacks' = Undos /\ redoStacks' = Redos
    /\ historyEpochSeen' = historyEpoch
    /\ gesturePreState' = PreState
    /\ UNCHANGED <<slotVars, openGestureBits, loadVars, userFile, edits>>

SavePresetFile ==
    /\ MessageFree /\ NoDrag /\ Spend
    /\ userFile' = live.sound
    /\ live' = [live EXCEPT !.name = User]
    /\ presetBaseline' = Shape(live')
    /\ UNCHANGED <<stackVars, storedSlot, activeSlot, storedBaseline, dragVars,
                   loadVars, bracket>>

ResetToMacro ==
    /\ MessageFree /\ Spend
    /\ PushUndoStep(Captured)
    /\ live' = [live EXCEPT !.sound = Curve[@]]
    /\ gesturePreState' = PreState
    /\ UNCHANGED <<storedSlot, activeSlot, presetBaseline, storedBaseline,
                   openGestureBits, loadVars, userFile, bracket>>

-----------------------------------------------------------------------------
(* setStateInformation, from any thread.                                   *)

AnnounceLoad ==
    /\ ~loading /\ historyEpoch < MaxLoads
    /\ loading' = TRUE
    /\ historyEpoch' = historyEpoch + 1
    /\ openGestureBits' = {}
    /\ UNCHANGED <<stackVars, slotVars, gesturePreState, session, userFile,
                   bracket, edits>>

\* The parameters, then resetSlotFieldsToDefaults and the A/B pair.
InstallSession(newLive, newStored, newActive) ==
    /\ loading
    /\ loading' = FALSE /\ session' = session + 1
    /\ live' = newLive /\ storedSlot' = newStored /\ activeSlot' = newActive
    /\ presetBaseline' = None /\ storedBaseline' = None
    /\ UNCHANGED <<stackVars, dragVars, historyEpoch, userFile, bracket, edits>>

\* The editor's poll of canUndo and canRedo.
EditorPoll ==
    /\ MessageFree /\ ~Current
    /\ Sync /\ gesturePreState' = PreState
    /\ UNCHANGED <<slotVars, openGestureBits, loadVars, userFile, bracket, edits>>

\* What a session file holds (bound: a preset as applied); a slot it does
\* not hold is pristine.
Saved == {[Pristine EXCEPT !.sound = p, !.name = p] : p \in Presets}

UndoNext ==
    \/ \E v \in Sounds : SetSound(v)
    \/ \E field \in {"adv", "view"} : Toggle(field)
    \/ \E p \in Params : GestureBegin(p) \/ GestureEnd(p) \/ GestureEndElsewhere(p)
    \/ Undo \/ Redo \/ SwitchToSlot \/ CopySlotToOther
    \/ \E p \in Presets : OpenBracket(FactoryPreset(p))
    \/ userFile # None /\ OpenBracket(UserPreset)
    \/ LandPreset \/ SettlePreset \/ CloseBracket
    \/ SavePresetFile \/ ResetToMacro
    \/ AnnounceLoad \/ EditorPoll
    \/ \E l \in Saved, a \in Slots : \E s \in {Pristine, l} : InstallSession(l, s, a)

UndoSpec == UndoInit /\ [][UndoNext]_undoVars

-----------------------------------------------------------------------------
(* Properties.                                                             *)

StateSets == [sound : Sounds, adv : BOOLEAN, view : BOOLEAN, name : Names]
Baselines == [sound : Sounds, name : Names] \cup {None}
Captures  == [slot : StateSets, of : Slots, session : 0..MaxLoads]

HistoryTypeOK ==
    /\ {live, storedSlot} \subseteq StateSets /\ activeSlot \in Slots
    /\ {presetBaseline, storedBaseline} \subseteq Baselines
    /\ gesturePreState \in Captures \cup {None} /\ openGestureBits \subseteq Params
    /\ historyEpoch \in 0..MaxLoads /\ historyEpochSeen \in 0..historyEpoch
    /\ \A s \in Slots : /\ Len(undoStacks[s]) <= UndoCap
                        /\ Len(redoStacks[s]) <= UndoCap

\* Both stacks of both slots.
Histories == <<undoStacks, redoStacks>>

(* A stack holds only states of its own slot.  (switchToSlot drops a drag  *)
(* open across the switch: "Undo would then 'restore' the other slot's     *)
(* values".)                                                               *)
HistoryIsOwn ==
    \A h \in {1, 2}, s \in Slots : \A i \in DOMAIN Histories[h][s] :
        Histories[h][s][i].captured.of = s

(* After a load, once the stacks are reconciled, no entry describes a      *)
(* state of an earlier session.  (setStateInformation: "a load starts a    *)
(* fresh history for both slots".)                                         *)
HistoryIsOfSession ==
    Current /\ ~loading =>
      \A h \in {1, 2}, s \in Slots : \A i \in DOMAIN Histories[h][s] :
          Histories[h][s][i].captured.session = session

Paired(s, baseline) == baseline = None \/ baseline.name = s.name

(* The dirty datum belongs to the preset a slot is named for, in both      *)
(* slots and in every entry of their stacks, through every switch, copy,   *)
(* undo, redo and load.  (UndoEntry: "`presetBaseline` as it was beside    *)
(* it"; name and datum must not describe different presets.)               *)
DatumOfName ==
    /\ bracket # None \/ Paired(live, presetBaseline)
    /\ Paired(storedSlot, storedBaseline)
    /\ \A h \in {1, 2}, s \in Slots : \A i \in DOMAIN Histories[h][s] :
          LET e == Histories[h][s][i] IN Paired(e.captured.slot, e.baseline)

(* Applying a preset that changes nothing a user could see or undo leaves  *)
(* both stacks as they were, the oldest entry of a full one included.      *)
(* (closePresetUndoBracket: "neither leave a dead undo step nor destroy a  *)
(* redo line the user can still reach".)                                   *)
NoOpApplyLeavesHistory ==
    [][bracket # None /\ bracket' = None /\ Current /\ bracket.session = session
       /\ Stripped(bracket.preSlot) = Stripped(live)
       /\ Dirty(live, bracket.preBaseline) = Dirty(live, presetBaseline)
       /\ ~Dirty(live, presetBaseline)
         => /\ undoStacks'[activeSlot] = bracket.undoBefore
            /\ redoStacks'[activeSlot] = bracket.redoBefore]_undoVars

\* The restorable state and where a redo, an undo would take it.
Here == [at |-> Stripped(live), baseline |-> presetBaseline]
RedoTarget == LET e == Top(redoStacks[activeSlot])
              IN [at |-> Stripped(e.captured.slot), baseline |-> e.baseline]
UndoTarget == LET e == Top(undoStacks[activeSlot])
              IN [at |-> Stripped(e.captured.slot), baseline |-> e.baseline]

\* A step goes one along the reconciled history; no drag or edit moves it so.
Moves(d) == /\ activeSlot' = activeSlot /\ bracket = None /\ edits' = edits
            /\ openGestureBits' = openGestureBits
            /\ Len(undoStacks'[activeSlot]) = Len(Undos[activeSlot]) + d
            /\ Len(redoStacks'[activeSlot]) = Len(Redos[activeSlot]) - d

(* An undo lands on the very state and dirty marker its entry recorded,    *)
(* and can be redone back to exactly what it left; a redo likewise.        *)
(* (undo, redo: the entry is the pair of slot and datum, taken and         *)
(* restored together.)                                                     *)
Reversible == [][/\ (Moves(-1) => Here' = UndoTarget /\ RedoTarget' = Here)
                 /\ (Moves(1) => Here' = RedoTarget /\ UndoTarget' = Here)
                ]_undoVars

=============================================================================
