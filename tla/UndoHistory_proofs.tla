------------------------- MODULE UndoHistory_proofs -------------------------
(***************************************************************************)
(* What the undo histories of UndoHistory keep, for any presets, curve,    *)
(* depth of the stacks and number of edits and loads, where the message    *)
(* thread waits for a load to end.  What is said of the dirty datum also   *)
(* needs that no preset, save, undo or redo comes during a drag.           *)
(***************************************************************************)
EXTENDS UndoHistory, SequenceTheorems, TLAPS

Sessions == 0..MaxLoads
Entries  == [captured : Captures, baseline : Baselines]

\* The entries that may lie in a stack of slot s: states of that slot, of one
\* of the given sessions, each beside the datum of its preset.
Kept(s, given) ==
    {e \in Entries : /\ e.captured.of = s /\ e.captured.session \in given
                     /\ Overlap \/ Paired(e.captured.slot, e.baseline)}

Stack(s, given) == {stack \in Seq(Kept(s, given)) : Len(stack) <= UndoCap}

\* The sessions the stacks may tell of: that of now, once reconciled.
Told == IF Current THEN {session} ELSE Sessions

BracketRecords ==
    [preset : [name : Names, sound : Sounds, curve : BOOLEAN],
     preSlot : StateSets, preBaseline : Baselines,
     redoBefore : Seq(Entries), slot : Slots, evicted : Seq(Entries),
     undoBefore : Seq(Entries), session : Sessions,
     step : {"land", "settle", "close"}]

TypeInv ==
    /\ live \in StateSets /\ storedSlot \in StateSets /\ activeSlot \in Slots
    /\ presetBaseline \in Baselines /\ storedBaseline \in Baselines
    /\ gesturePreState \in Captures \cup {None} /\ openGestureBits \subseteq Params
    /\ historyEpoch \in Sessions /\ historyEpochSeen \in 0..historyEpoch
    /\ userFile \in Sounds \cup {None} /\ loading \in BOOLEAN
    /\ session \in Sessions /\ edits \in Int
    /\ undoStacks \in [Slots -> Seq(Entries)] /\ redoStacks \in [Slots -> Seq(Entries)]
    /\ bracket \in BracketRecords \cup {None}

\* A load announced is not installed yet, and the stacks are behind it.
LoadInv ==
    /\ historyEpoch = session + (IF loading THEN 1 ELSE 0)
    /\ loading => ~Current

StackInv == \A s \in Slots : /\ undoStacks[s] \in Stack(s, Told)
                             /\ redoStacks[s] \in Stack(s, Told)

\* The snapshot of a drag that is still good is of the active slot and of
\* this session, and the datum is still that of its preset.
DragInv ==
    Current /\ gesturePreState # None =>
      /\ gesturePreState.of = activeSlot /\ gesturePreState.session = session
      /\ \/ Overlap \/ openGestureBits = {}
         \/ Paired(gesturePreState.slot, presetBaseline)

\* With no load since it was opened, an apply finds its own push on top of
\* the stack it met.
BracketInv ==
    bracket # None =>
      /\ Overlap \/ openGestureBits = {}
      /\ Overlap \/ Paired(bracket.preSlot, bracket.preBaseline)
      /\ Current =>
           /\ bracket.slot = activeSlot
           /\ bracket.redoBefore \in Stack(activeSlot, {session})
           /\ bracket.undoBefore \in Stack(activeSlot, {session})
           /\ bracket.evicted = IF Evicts(bracket.undoBefore)
                                  THEN <<bracket.undoBefore[1]>> ELSE <<>>
           /\ \E e \in Kept(activeSlot, {session}) :
                 /\ e.captured.slot = bracket.preSlot
                 /\ undoStacks[activeSlot] = PushCapped(bracket.undoBefore, e)
           /\ bracket.step = "close" => presetBaseline # None

\* The datum of each slot is its preset's, but between the two halves of an
\* apply.
DatumInv ==
    Overlap \/ /\ Paired(storedSlot, storedBaseline)
               /\ \/ bracket # None /\ bracket.step = "settle"
                  \/ Paired(live, presetBaseline)

HistoryInv == TypeInv /\ LoadInv /\ StackInv /\ DragInv /\ BracketInv /\ DatumInv

-----------------------------------------------------------------------------
(* The stacks as sequences.                                                *)

\* A push keeps the cap, and its entry is on top.
LEMMA PushedStack ==
    ASSUME HistoryAssumption, NEW E, NEW s \in Seq(E), Len(s) <= UndoCap, NEW e \in E
    PROVE  /\ PushCapped(s, e) \in Seq(E) /\ Len(PushCapped(s, e)) \in 1..UndoCap
           /\ PushCapped(s, e) # <<>> /\ Top(PushCapped(s, e)) = e
           /\ Len(PushCapped(s, e)) >= Len(s)
<1>1. UndoCap \in Nat \ {0} /\ Len(s) \in Nat
  BY LenProperties DEF HistoryAssumption
<1>2. CASE Len(s) >= UndoCap
  <2>1. s # <<>> /\ Len(s) = UndoCap
    BY <1>1, <1>2
  <2>2. Tail(s) \in Seq(E) /\ Len(Tail(s)) = Len(s) - 1
    BY <2>1, HeadTailProperties
  <2>3. /\ Append(Tail(s), e) \in Seq(E) /\ Len(Append(Tail(s), e)) = UndoCap
        /\ Append(Tail(s), e)[UndoCap] = e
    BY <1>1, <2>1, <2>2, AppendProperties
  <2> QED
    BY <1>1, <1>2, <2>1, <2>3 DEF PushCapped, Top
<1>3. CASE ~(Len(s) >= UndoCap)
  <2>1. /\ Append(s, e) \in Seq(E) /\ Len(Append(s, e)) = Len(s) + 1
        /\ Append(s, e)[Len(s) + 1] = e
    BY AppendProperties
  <2> QED
    BY <1>1, <1>3, <2>1 DEF PushCapped, Top
<1> QED
  BY <1>2, <1>3

LEMMA PoppedStack ==
    ASSUME NEW E, NEW s \in Seq(E), s # <<>>
    PROVE  /\ Popped(s) \in Seq(E) /\ Len(Popped(s)) = Len(s) - 1
           /\ \A i \in 1..(Len(s) - 1) : Popped(s)[i] = s[i]
           /\ Top(s) \in E /\ Len(s) \in Nat \ {0}
<1>1. Len(s) \in Nat \ {0}
  BY EmptySeq
<1>2. \A i \in 1..(Len(s) - 1) : s[i] \in E
  BY <1>1, ElementOfSeq
<1>3. Top(s) \in E
  BY <1>1, ElementOfSeq DEF Top
<1> DEFINE n == Len(s) - 1
<1>4. n \in Nat /\ \A i \in 1..n : s[i] \in E
  BY <1>1, <1>2
<1> HIDE DEF n
<1>5. /\ SubSeq(s, 1, n) \in Seq(E) /\ Len(SubSeq(s, 1, n)) = IF 1 <= n THEN n - 1 + 1 ELSE 0
      /\ \A i \in 1..(n - 1 + 1) : SubSeq(s, 1, n)[i] = s[1 + i - 1]
  BY <1>4, SubSeqProperties
<1>6. Popped(s) = SubSeq(s, 1, n)
  BY DEF Popped, n
<1>7. Len(Popped(s)) = n /\ \A i \in 1..n : Popped(s)[i] = s[i]
  BY <1>4, <1>5, <1>6
<1> QED
  BY <1>1, <1>3, <1>5, <1>6, <1>7 DEF n

\* What closePresetUndoBracket puts back is the stack the bracket met, the
\* entry its push cost included.
LEMMA RetractedPush ==
    ASSUME HistoryAssumption, NEW E, NEW s \in Seq(E), Len(s) <= UndoCap, NEW e \in E
    PROVE  (IF Evicts(s) THEN <<s[1]>> ELSE <<>>) \o Popped(PushCapped(s, e)) = s
<1>1. UndoCap \in Nat \ {0} /\ Len(s) \in Nat
  BY LenProperties DEF HistoryAssumption
<1> DEFINE p == PushCapped(s, e)
<1>2. p \in Seq(E) /\ p # <<>> /\ Len(p) \in 1..UndoCap
  BY PushedStack
<1>3. /\ Popped(p) \in Seq(E) /\ Len(Popped(p)) = Len(p) - 1
      /\ \A i \in 1..(Len(p) - 1) : Popped(p)[i] = p[i]
  BY <1>2, PoppedStack
<1>4. CASE Evicts(s)
  <2>1. s # <<>> /\ Len(s) = UndoCap
    BY <1>1, <1>4 DEF Evicts
  <2>2. /\ Tail(s) \in Seq(E) /\ Len(Tail(s)) = Len(s) - 1
        /\ \A i \in 1..(Len(s) - 1) : Tail(s)[i] = s[i + 1]
    BY <2>1, HeadTailProperties
  <2>3. p = Append(Tail(s), e)
    BY <1>4 DEF PushCapped, Evicts
  <2>4. Len(p) = Len(s) /\ \A i \in 1..(Len(s) - 1) : p[i] = s[i + 1]
    BY <1>1, <2>1, <2>2, <2>3, AppendProperties
  <2>5. s[1] \in E /\ <<s[1]>> \in Seq(E) /\ Len(<<s[1]>>) = 1 /\ <<s[1]>>[1] = s[1]
    BY <1>1, <2>1, ElementOfSeq
  <2> DEFINE back == <<s[1]>> \o Popped(p)
  <2>6. /\ back \in Seq(E) /\ Len(back) = Len(s)
        /\ \A i \in 1..Len(s) : back[i] = IF i <= 1 THEN <<s[1]>>[i] ELSE Popped(p)[i - 1]
    <3>1. /\ back \in Seq(E) /\ Len(back) = Len(<<s[1]>>) + Len(Popped(p))
          /\ \A i \in 1..(Len(<<s[1]>>) + Len(Popped(p))) :
                back[i] = IF i <= Len(<<s[1]>>) THEN <<s[1]>>[i]
                          ELSE Popped(p)[i - Len(<<s[1]>>)]
      BY <1>3, <2>5, ConcatProperties
    <3>2. Len(<<s[1]>>) + Len(Popped(p)) = Len(s)
      BY <1>1, <1>3, <2>4, <2>5
    <3> QED
      BY <2>5, <3>1, <3>2
  <2>7. ASSUME NEW i \in 1..Len(s) PROVE back[i] = s[i]
    <3>1. CASE i = 1
      BY <2>5, <2>6, <3>1
    <3>2. CASE i # 1
      <4>1. i - 1 \in 1..(Len(s) - 1) /\ (i - 1) + 1 = i /\ ~(i <= 1)
        BY <1>1, <3>2
      <4>2. Popped(p)[i - 1] = p[i - 1] /\ p[i - 1] = s[i]
        BY <1>3, <2>4, <4>1
      <4> QED
        BY <2>6, <4>1, <4>2
    <3> QED
      BY <3>1, <3>2
  <2>8. back = s
    BY <2>6, <2>7, SeqEqual
  <2> QED
    BY <1>4, <2>8
<1>5. CASE ~Evicts(s)
  <2>1. p = Append(s, e)
    BY <1>5 DEF PushCapped, Evicts
  <2>2. Len(p) = Len(s) + 1 /\ \A i \in 1..Len(s) : p[i] = s[i]
    BY <2>1, AppendProperties
  <2>3. Len(Popped(p)) = Len(s) /\ \A i \in 1..Len(s) : Popped(p)[i] = s[i]
    BY <1>1, <1>3, <2>2
  <2>4. Popped(p) = s
    BY <1>3, <2>3, SeqEqual
  <2>5. <<>> \o Popped(p) = Popped(p)
    BY <1>3, ConcatEmptySeq
  <2> QED
    BY <1>5, <2>4, <2>5
<1> QED
  BY <1>4, <1>5

-----------------------------------------------------------------------------
(* The parts of the invariant that many steps share.                       *)

LEMMA RecordIsNotNone ==
    /\ \A s \in StateSets : Shape(s) # None
    /\ \A c \in Captures : c # None
    /\ \A b \in BracketRecords : b # None
<1>1. DOMAIN None = {"none"}
  BY DEF None
<1>2. ASSUME NEW s \in StateSets PROVE Shape(s) # None
  BY <1>1 DEF Shape
<1>3. ASSUME NEW c \in Captures PROVE c # None
  BY <1>1 DEF Captures
<1>4. ASSUME NEW b \in BracketRecords PROVE b # None
  BY <1>1 DEF BracketRecords
<1> QED
  BY <1>2, <1>3, <1>4

LEMMA EmptyStays ==
    ASSUME HistoryAssumption, NEW a, NEW n
    PROVE  <<>> \in Stack(a, {n})
BY EmptySeq DEF Stack, HistoryAssumption

\* What syncHistory leaves belongs to the session there is.
LEMMA Reconciled ==
    ASSUME HistoryAssumption, HistoryInv, ~loading
    PROVE  /\ Undos \in [Slots -> Seq(Entries)] /\ Redos \in [Slots -> Seq(Entries)]
           /\ \A s \in Slots : /\ Undos[s] \in Stack(s, {session})
                               /\ Redos[s] \in Stack(s, {session})
<1>1. CASE Current
  BY <1>1 DEF Undos, Redos, HistoryInv, TypeInv, StackInv, Told
<1>2. CASE ~Current
  <2>1. <<>> \in Seq(Entries)
    BY EmptySeq
  <2>2. \A s \in Slots : <<>> \in Stack(s, {session})
    BY EmptyStays
  <2> QED
    BY <1>2, <2>1, <2>2 DEF Undos, Redos, Cleared
<1> QED
  BY <1>1, <1>2

LEMMA SameStacks ==
    ASSUME HistoryInv, UNCHANGED <<stackVars, loadVars>>
    PROVE  LoadInv' /\ StackInv' /\ Current' = Current
BY DEF HistoryInv, LoadInv, StackInv, Stack, Kept, Current, Told, stackVars, loadVars

\* After a handler that reconciled the stacks.
LEMMA StacksReconciled ==
    ASSUME HistoryInv, ~loading, UNCHANGED loadVars, historyEpochSeen' = historyEpoch,
           \A s \in Slots : /\ undoStacks'[s] \in Stack(s, {session})
                            /\ redoStacks'[s] \in Stack(s, {session})
    PROVE  LoadInv' /\ StackInv' /\ Current'
BY DEF HistoryInv, LoadInv, StackInv, Stack, Kept, Current, Told, loadVars

\* One stack changed, into another of its slot.
LEMMA OneStack ==
    ASSUME NEW stacks \in [Slots -> Seq(Entries)], NEW a \in Slots, NEW n,
           \A s \in Slots : stacks[s] \in Stack(s, {n}), NEW new \in Stack(a, {n})
    PROVE  /\ [stacks EXCEPT ![a] = new] \in [Slots -> Seq(Entries)]
           /\ \A s \in Slots : [stacks EXCEPT ![a] = new][s] \in Stack(s, {n})
           /\ [stacks EXCEPT ![a] = new][a] = new
<1>1. new \in Seq(Entries)
  <2>1. new \in Seq(Kept(a, {n})) /\ Kept(a, {n}) \subseteq Entries
    BY DEF Stack, Kept
  <2> QED
    BY <2>1, SeqMonotonic
<1> QED
  BY <1>1

LEMMA PushedStays ==
    ASSUME HistoryAssumption, NEW a, NEW n, NEW s \in Stack(a, {n}), NEW e \in Kept(a, {n})
    PROVE  PushCapped(s, e) \in Stack(a, {n})
BY PushedStack DEF Stack

LEMMA PoppedStays ==
    ASSUME HistoryAssumption, NEW a, NEW n, NEW s \in Stack(a, {n}), s # <<>>
    PROVE  Popped(s) \in Stack(a, {n}) /\ Top(s) \in Kept(a, {n})
<1>1. s \in Seq(Kept(a, {n})) /\ Len(s) <= UndoCap
  BY DEF Stack
<1>2. Popped(s) \in Seq(Kept(a, {n})) /\ Len(Popped(s)) = Len(s) - 1 /\ Top(s) \in Kept(a, {n})
      /\ Len(s) \in Nat
  BY <1>1, PoppedStack
<1> QED
  BY <1>1, <1>2 DEF Stack, HistoryAssumption

\* What a handler of the message thread takes of the live state.
LEMMA CaptureIsKept ==
    ASSUME HistoryInv, bracket = None
    PROVE  /\ Captured \in Captures
           /\ Entry(Captured, presetBaseline) \in Kept(activeSlot, {session})
<1>1. Captured \in Captures
  BY DEF Captured, Captures, HistoryInv, TypeInv, Sessions
<1>2. Entry(Captured, presetBaseline) \in Entries
  BY <1>1 DEF Entry, Entries, HistoryInv, TypeInv
<1>3. Overlap \/ Paired(live, presetBaseline)
  BY DEF HistoryInv, DatumInv
<1> QED
  BY <1>1, <1>2, <1>3 DEF Entry, Captured, Kept

\* pushUndoStep of a state of the active slot and of this session.
LEMMA PushKeeps ==
    ASSUME HistoryAssumption, HistoryInv, ~loading, UNCHANGED loadVars,
           NEW c, Entry(c, presetBaseline) \in Kept(activeSlot, {session}),
           PushUndoStep(c)
    PROVE  /\ LoadInv' /\ StackInv' /\ Current'
           /\ undoStacks' \in [Slots -> Seq(Entries)] /\ redoStacks' \in [Slots -> Seq(Entries)]
           /\ undoStacks'[activeSlot] =
                PushCapped(Undos[activeSlot], Entry(c, presetBaseline))
<1> DEFINE new == PushCapped(Undos[activeSlot], Entry(c, presetBaseline))
<1>1. activeSlot \in Slots
  BY DEF HistoryInv, TypeInv
<1>2. new \in Stack(activeSlot, {session})
  BY <1>1, Reconciled, PushedStays
<1>3. <<>> \in Stack(activeSlot, {session})
  BY EmptyStays
<1>4. /\ undoStacks' = [Undos EXCEPT ![activeSlot] = new]
      /\ redoStacks' = [Redos EXCEPT ![activeSlot] = <<>>]
      /\ historyEpochSeen' = historyEpoch
  BY DEF PushUndoStep
<1> HIDE DEF new
<1>5. /\ undoStacks' \in [Slots -> Seq(Entries)]
      /\ undoStacks'[activeSlot] = new
      /\ \A s \in Slots : undoStacks'[s] \in Stack(s, {session})
  BY <1>1, <1>2, <1>4, Reconciled, OneStack
<1>6. /\ redoStacks' \in [Slots -> Seq(Entries)]
      /\ \A s \in Slots : redoStacks'[s] \in Stack(s, {session})
  BY <1>1, <1>3, <1>4, Reconciled, OneStack
<1> QED
  BY <1>4, <1>5, <1>6, StacksReconciled DEF new

LEMMA SyncKeeps ==
    ASSUME HistoryAssumption, HistoryInv, ~loading, UNCHANGED loadVars, Sync
    PROVE  /\ LoadInv' /\ StackInv' /\ Current'
           /\ undoStacks' \in [Slots -> Seq(Entries)] /\ redoStacks' \in [Slots -> Seq(Entries)]
BY Reconciled, StacksReconciled DEF Sync

LEMMA AppliedSlot ==
    ASSUME HistoryInv, NEW s \in StateSets, NEW adopt \in BOOLEAN
    PROVE  /\ Applied(s, adopt) \in StateSets
           /\ Applied(s, adopt).sound = s.sound /\ Applied(s, adopt).name = s.name
           /\ Stripped(Applied(s, TRUE)) = Stripped(s)
BY DEF HistoryInv, TypeInv, StateSets, Applied, Stripped

-----------------------------------------------------------------------------
(* One step per action: what it does to each part it can disturb.          *)

LEMMA InitHolds == HistoryAssumption /\ UndoInit => HistoryInv
<1> SUFFICES ASSUME HistoryAssumption, UndoInit PROVE HistoryInv
  OBVIOUS
<1>1. Pristine \in StateSets /\ Shape(Pristine) \in Baselines
      /\ Paired(Pristine, Shape(Pristine))
  BY DEF HistoryAssumption, Pristine, StateSets, Names, Shape, Baselines, Paired
<1>2. <<>> \in Seq(Entries) /\ Current /\ \A s \in Slots : <<>> \in Stack(s, {session})
  BY EmptySeq, EmptyStays DEF UndoInit, Current
<1>3. TypeInv
  <2>1. undoStacks \in [Slots -> Seq(Entries)] /\ redoStacks \in [Slots -> Seq(Entries)]
    BY <1>2 DEF UndoInit
  <2>2. /\ historyEpoch \in Sessions /\ historyEpochSeen \in 0..historyEpoch
        /\ session \in Sessions /\ edits \in Int
    BY DEF UndoInit, HistoryAssumption, Sessions
  <2> QED
    BY <1>1, <2>1, <2>2 DEF UndoInit, TypeInv, Slots
<1>4. LoadInv /\ StackInv
  BY <1>2 DEF UndoInit, LoadInv, StackInv, Told, Slots
<1>5. DragInv /\ BracketInv /\ DatumInv
  BY <1>1 DEF UndoInit, DragInv, BracketInv, DatumInv
<1> QED
  BY <1>3, <1>4, <1>5 DEF HistoryInv

LEMMA SetSoundKeeps ==
    ASSUME HistoryAssumption, HistoryInv, NEW v \in Sounds, SetSound(v)
    PROVE  HistoryInv'
<1>1. live' \in StateSets /\ live'.name = live.name
  BY DEF HistoryInv, TypeInv, StateSets, SetSound
<1>2. TypeInv'
  BY <1>1 DEF HistoryInv, TypeInv, SetSound, Spend, stackVars, dragVars, loadVars
<1>3. LoadInv' /\ StackInv' /\ Current' = Current
  BY SameStacks DEF SetSound
<1>4. DragInv' /\ BracketInv'
  BY <1>3 DEF HistoryInv, DragInv, BracketInv, SetSound, stackVars, dragVars, loadVars
<1>5. DatumInv'
  BY <1>1 DEF HistoryInv, DatumInv, Paired, SetSound
<1> QED
  BY <1>2, <1>3, <1>4, <1>5 DEF HistoryInv

LEMMA ToggleKeeps ==
    ASSUME HistoryAssumption, HistoryInv, NEW field \in {"adv", "view"}, Toggle(field)
    PROVE  HistoryInv'
<1>1. live' \in StateSets /\ live'.name = live.name
  BY DEF HistoryInv, TypeInv, StateSets, Toggle
<1>2. TypeInv'
  BY <1>1 DEF HistoryInv, TypeInv, Toggle, Spend, stackVars, dragVars, loadVars
<1>3. LoadInv' /\ StackInv' /\ Current' = Current
  BY SameStacks DEF Toggle
<1>4. DragInv' /\ BracketInv'
  BY <1>3 DEF HistoryInv, DragInv, BracketInv, Toggle, stackVars, dragVars, loadVars
<1>5. DatumInv'
  BY <1>1 DEF HistoryInv, DatumInv, Paired, Toggle
<1> QED
  BY <1>2, <1>3, <1>4, <1>5 DEF HistoryInv

LEMMA GestureBeginKeeps ==
    ASSUME HistoryAssumption, HistoryInv, ~ActsDuringLoad, NEW p \in Params, GestureBegin(p)
    PROVE  HistoryInv'
<1>1. /\ ~loading /\ bracket = None /\ openGestureBits' \subseteq Params
      /\ UNCHANGED <<slotVars, loadVars, userFile, bracket, edits>>
  BY DEF GestureBegin, MessageFree, MessageThread, HistoryInv, TypeInv
<1>2. CASE openGestureBits = {}
  <2>1. Sync /\ gesturePreState' = Captured
    BY <1>2 DEF GestureBegin
  <2>2. /\ LoadInv' /\ StackInv' /\ Current'
        /\ undoStacks' \in [Slots -> Seq(Entries)] /\ redoStacks' \in [Slots -> Seq(Entries)]
    BY <1>1, <2>1, SyncKeeps
  <2>3. TypeInv'
    BY <1>1, <2>1, <2>2, CaptureIsKept
       DEF HistoryInv, TypeInv, Sync, Sessions, slotVars, loadVars
  <2>4. DragInv'
    BY <1>1, <2>1 DEF HistoryInv, DragInv, DatumInv, Captured, slotVars, loadVars
  <2>5. BracketInv' /\ DatumInv'
    BY <1>1 DEF HistoryInv, BracketInv, DatumInv, slotVars
  <2> QED
    BY <2>2, <2>3, <2>4, <2>5 DEF HistoryInv
<1>3. CASE openGestureBits # {}
  <2>1. UNCHANGED <<stackVars, gesturePreState>>
    BY <1>3 DEF GestureBegin
  <2>2. LoadInv' /\ StackInv' /\ Current' = Current
    BY <1>1, <2>1, SameStacks
  <2>3. TypeInv'
    BY <1>1, <2>1 DEF HistoryInv, TypeInv, slotVars, loadVars, stackVars
  <2>4. DragInv'
    BY <1>1, <1>3, <2>1, <2>2 DEF HistoryInv, DragInv, slotVars, loadVars, stackVars
  <2>5. BracketInv' /\ DatumInv'
    BY <1>1 DEF HistoryInv, BracketInv, DatumInv, slotVars
  <2> QED
    BY <2>2, <2>3, <2>4, <2>5 DEF HistoryInv
<1> QED
  BY <1>2, <1>3

LEMMA GestureEndKeeps ==
    ASSUME HistoryAssumption, HistoryInv, ~ActsDuringLoad, NEW p \in Params, GestureEnd(p)
    PROVE  HistoryInv'
<1>1. /\ ~loading /\ bracket = None /\ openGestureBits' \subseteq Params
      /\ openGestureBits # {}
      /\ UNCHANGED <<slotVars, loadVars, userFile, bracket, edits>>
  BY DEF GestureEnd, MessageFree, MessageThread, HistoryInv, TypeInv
<1>2. BracketInv' /\ DatumInv'
  BY <1>1 DEF HistoryInv, BracketInv, DatumInv, slotVars
<1>3. CASE openGestureBits = {p}
  <2>1. /\ LoadInv' /\ StackInv' /\ Current' /\ historyEpochSeen' = historyEpoch
        /\ undoStacks' \in [Slots -> Seq(Entries)] /\ redoStacks' \in [Slots -> Seq(Entries)]
    <3>1. CASE PreState # None /\ Stripped(PreState.slot) # Stripped(live)
      <4>1. PushUndoStep(PreState)
        BY <1>3, <3>1 DEF GestureEnd
      <4>2. /\ Current /\ PreState = gesturePreState /\ gesturePreState \in Captures
            /\ gesturePreState.of = activeSlot /\ gesturePreState.session = session
            /\ Overlap \/ Paired(gesturePreState.slot, presetBaseline)
        BY <1>1, <3>1 DEF PreState, HistoryInv, TypeInv, DragInv
      <4>3. Entry(PreState, presetBaseline) \in Kept(activeSlot, {session})
        BY <4>2 DEF Entry, Kept, Entries, HistoryInv, TypeInv
      <4> QED
        BY <1>1, <4>1, <4>3, PushKeeps DEF PushUndoStep
    <3>2. CASE ~(PreState # None /\ Stripped(PreState.slot) # Stripped(live))
      <4>1. Sync
        BY <1>3, <3>2 DEF GestureEnd
      <4> QED
        BY <1>1, <4>1, SyncKeeps DEF Sync
    <3> QED
      BY <3>1, <3>2
  <2>2. gesturePreState' = None
    BY <1>3 DEF GestureEnd
  <2>3. TypeInv' /\ DragInv'
    BY <1>1, <2>1, <2>2 DEF HistoryInv, TypeInv, DragInv, Sessions, slotVars, loadVars
  <2> QED
    BY <1>2, <2>1, <2>3 DEF HistoryInv
<1>4. CASE openGestureBits # {p}
  <2>1. UNCHANGED <<stackVars, gesturePreState>>
    BY <1>4 DEF GestureEnd
  <2>2. LoadInv' /\ StackInv' /\ Current' = Current
    BY <1>1, <2>1, SameStacks
  <2>3. TypeInv' /\ DragInv'
    BY <1>1, <2>1, <2>2 DEF HistoryInv, TypeInv, DragInv, slotVars, loadVars, stackVars
  <2> QED
    BY <1>2, <2>2, <2>3 DEF HistoryInv
<1> QED
  BY <1>3, <1>4

LEMMA GestureEndElsewhereKeeps ==
    ASSUME HistoryAssumption, HistoryInv, NEW p \in Params, GestureEndElsewhere(p)
    PROVE  HistoryInv'
<1>1. LoadInv' /\ StackInv' /\ Current' = Current
  BY SameStacks DEF GestureEndElsewhere
<1>2. TypeInv' /\ DatumInv'
  BY DEF HistoryInv, TypeInv, DatumInv, GestureEndElsewhere, slotVars, loadVars, stackVars
<1>3. DragInv' /\ BracketInv'
  BY <1>1 DEF HistoryInv, DragInv, BracketInv, GestureEndElsewhere, slotVars, loadVars, stackVars
<1> QED
  BY <1>1, <1>2, <1>3 DEF HistoryInv

LEMMA UndoKeeps ==
    ASSUME HistoryAssumption, HistoryInv, ~ActsDuringLoad, Undo
    PROVE  HistoryInv'
<1> DEFINE prev == Top(Undos[activeSlot])
           back == Entry(Captured, presetBaseline)
<1>1. /\ ~loading /\ bracket = None
      /\ Overlap \/ openGestureBits = {}
      /\ activeSlot \in Slots /\ Undos[activeSlot] # <<>>
      /\ UNCHANGED <<storedSlot, activeSlot, storedBaseline, openGestureBits,
                     loadVars, userFile, bracket, edits>>
  BY DEF Undo, MessageFree, MessageThread, NoDrag, HistoryInv, TypeInv
<1>2. /\ live' = Applied(prev.captured.slot, TRUE) /\ presetBaseline' = prev.baseline
      /\ redoStacks' = [Redos EXCEPT ![activeSlot] = PushCapped(Redos[activeSlot], back)]
      /\ undoStacks' = [Undos EXCEPT ![activeSlot] = Popped(Undos[activeSlot])]
      /\ historyEpochSeen' = historyEpoch /\ gesturePreState' = PreState
  BY DEF Undo, RestoredBaseline, WayBack
<1>3. /\ Popped(Undos[activeSlot]) \in Stack(activeSlot, {session})
      /\ prev \in Kept(activeSlot, {session})
  BY <1>1, Reconciled, PoppedStays
<1>4. PushCapped(Redos[activeSlot], back) \in Stack(activeSlot, {session})
  BY <1>1, Reconciled, CaptureIsKept, PushedStays
<1>5. /\ undoStacks' \in [Slots -> Seq(Entries)]
      /\ \A s \in Slots : undoStacks'[s] \in Stack(s, {session})
  <2> DEFINE new == Popped(Undos[activeSlot])
  <2>1. new \in Stack(activeSlot, {session}) /\ undoStacks' = [Undos EXCEPT ![activeSlot] = new]
    BY <1>2, <1>3
  <2> HIDE DEF new
  <2> QED
    BY <1>1, <2>1, Reconciled, OneStack
<1>6. /\ redoStacks' \in [Slots -> Seq(Entries)]
      /\ \A s \in Slots : redoStacks'[s] \in Stack(s, {session})
  <2> DEFINE new == PushCapped(Redos[activeSlot], back)
  <2>1. new \in Stack(activeSlot, {session}) /\ redoStacks' = [Redos EXCEPT ![activeSlot] = new]
    BY <1>2, <1>4
  <2> HIDE DEF new
  <2> QED
    BY <1>1, <2>1, Reconciled, OneStack
<1> HIDE DEF prev, back
<1>7. LoadInv' /\ StackInv' /\ Current'
  BY <1>1, <1>2, <1>5, <1>6, StacksReconciled
<1>8. /\ prev.captured.slot \in StateSets /\ prev.baseline \in Baselines
      /\ Overlap \/ Paired(prev.captured.slot, prev.baseline)
  BY <1>3 DEF Kept, Entries, Captures
<1>9. live' \in StateSets /\ live'.name = prev.captured.slot.name
  BY <1>2, <1>8, AppliedSlot
<1>10. TypeInv'
  <2>1. /\ gesturePreState' \in Captures \cup {None}
        /\ historyEpoch' \in Sessions /\ historyEpochSeen' \in 0..historyEpoch'
    BY <1>1, <1>2 DEF HistoryInv, TypeInv, PreState, Sessions, loadVars
  <2>2. live' \in StateSets /\ presetBaseline' \in Baselines
    BY <1>2, <1>8, <1>9
  <2> QED
    BY <1>1, <1>5, <1>6, <2>1, <2>2 DEF HistoryInv, TypeInv, loadVars
<1>11. DragInv'
  BY <1>1, <1>2 DEF HistoryInv, DragInv, PreState, loadVars
<1>12. BracketInv' /\ DatumInv'
  BY <1>1, <1>2, <1>8, <1>9 DEF HistoryInv, BracketInv, DatumInv, Paired
<1> QED
  BY <1>7, <1>10, <1>11, <1>12 DEF HistoryInv

LEMMA RedoKeeps ==
    ASSUME HistoryAssumption, HistoryInv, ~ActsDuringLoad, Redo
    PROVE  HistoryInv'
<1> DEFINE next == Top(Redos[activeSlot])
           back == Entry(Captured, presetBaseline)
<1>1. /\ ~loading /\ bracket = None
      /\ Overlap \/ openGestureBits = {}
      /\ activeSlot \in Slots /\ Redos[activeSlot] # <<>>
      /\ UNCHANGED <<storedSlot, activeSlot, storedBaseline, openGestureBits,
                     loadVars, userFile, bracket, edits>>
  BY DEF Redo, MessageFree, MessageThread, NoDrag, HistoryInv, TypeInv
<1>2. /\ live' = Applied(next.captured.slot, TRUE) /\ presetBaseline' = next.baseline
      /\ undoStacks' = [Undos EXCEPT ![activeSlot] = PushCapped(Undos[activeSlot], back)]
      /\ redoStacks' = [Redos EXCEPT ![activeSlot] = Popped(Redos[activeSlot])]
      /\ historyEpochSeen' = historyEpoch /\ gesturePreState' = PreState
  BY DEF Redo, RestoredBaseline, WayBack
<1>3. /\ Popped(Redos[activeSlot]) \in Stack(activeSlot, {session})
      /\ next \in Kept(activeSlot, {session})
  BY <1>1, Reconciled, PoppedStays
<1>4. PushCapped(Undos[activeSlot], back) \in Stack(activeSlot, {session})
  BY <1>1, Reconciled, CaptureIsKept, PushedStays
<1>5. /\ redoStacks' \in [Slots -> Seq(Entries)]
      /\ \A s \in Slots : redoStacks'[s] \in Stack(s, {session})
  <2> DEFINE new == Popped(Redos[activeSlot])
  <2>1. new \in Stack(activeSlot, {session}) /\ redoStacks' = [Redos EXCEPT ![activeSlot] = new]
    BY <1>2, <1>3
  <2> HIDE DEF new
  <2> QED
    BY <1>1, <2>1, Reconciled, OneStack
<1>6. /\ undoStacks' \in [Slots -> Seq(Entries)]
      /\ \A s \in Slots : undoStacks'[s] \in Stack(s, {session})
  <2> DEFINE new == PushCapped(Undos[activeSlot], back)
  <2>1. new \in Stack(activeSlot, {session}) /\ undoStacks' = [Undos EXCEPT ![activeSlot] = new]
    BY <1>2, <1>4
  <2> HIDE DEF new
  <2> QED
    BY <1>1, <2>1, Reconciled, OneStack
<1> HIDE DEF next, back
<1>7. LoadInv' /\ StackInv' /\ Current'
  BY <1>1, <1>2, <1>5, <1>6, StacksReconciled
<1>8. /\ next.captured.slot \in StateSets /\ next.baseline \in Baselines
      /\ Overlap \/ Paired(next.captured.slot, next.baseline)
  BY <1>3 DEF Kept, Entries, Captures
<1>9. live' \in StateSets /\ live'.name = next.captured.slot.name
  BY <1>2, <1>8, AppliedSlot
<1>10. TypeInv'
  <2>1. /\ gesturePreState' \in Captures \cup {None}
        /\ historyEpoch' \in Sessions /\ historyEpochSeen' \in 0..historyEpoch'
    BY <1>1, <1>2 DEF HistoryInv, TypeInv, PreState, Sessions, loadVars
  <2>2. live' \in StateSets /\ presetBaseline' \in Baselines
    BY <1>2, <1>8, <1>9
  <2> QED
    BY <1>1, <1>5, <1>6, <2>1, <2>2 DEF HistoryInv, TypeInv, loadVars
<1>11. DragInv'
  BY <1>1, <1>2 DEF HistoryInv, DragInv, PreState, loadVars
<1>12. BracketInv' /\ DatumInv'
  BY <1>1, <1>2, <1>8, <1>9 DEF HistoryInv, BracketInv, DatumInv, Paired
<1> QED
  BY <1>7, <1>10, <1>11, <1>12 DEF HistoryInv

LEMMA SwitchKeeps ==
    ASSUME HistoryAssumption, HistoryInv, SwitchToSlot
    PROVE  HistoryInv'
<1>1. /\ bracket = None /\ activeSlot \in Slots
      /\ live' = Applied(storedSlot, FALSE) /\ storedSlot' = live
      /\ presetBaseline' = storedBaseline /\ storedBaseline' = presetBaseline
      /\ gesturePreState' = None /\ openGestureBits' = {}
      /\ activeSlot' = 1 - activeSlot
      /\ UNCHANGED <<stackVars, loadVars, userFile, bracket, edits>>
  BY DEF SwitchToSlot, MessageFree, DropDrag, HistoryInv, TypeInv
<1>2. live' \in StateSets /\ live'.name = storedSlot.name
  BY <1>1, AppliedSlot DEF HistoryInv, TypeInv
<1>3. activeSlot' \in Slots
  BY <1>1 DEF Slots
<1>4. TypeInv'
  BY <1>1, <1>2, <1>3 DEF HistoryInv, TypeInv, stackVars, loadVars
<1>5. LoadInv' /\ StackInv'
  BY <1>1, SameStacks
<1>6. DragInv' /\ BracketInv'
  BY <1>1 DEF DragInv, BracketInv
<1>7. DatumInv'
  BY <1>1, <1>2 DEF HistoryInv, DatumInv, Paired
<1> QED
  BY <1>4, <1>5, <1>6, <1>7 DEF HistoryInv

LEMMA CopyKeeps ==
    ASSUME HistoryAssumption, HistoryInv, ~ActsDuringLoad, CopySlotToOther
    PROVE  HistoryInv'
<1> DEFINE other == 1 - activeSlot
<1>1. /\ ~loading /\ bracket = None /\ other \in Slots
      /\ historyEpochSeen' = historyEpoch /\ gesturePreState' = PreState
      /\ storedSlot' = live /\ storedBaseline' = presetBaseline /\ edits' = edits - 1
      /\ UNCHANGED <<live, activeSlot, presetBaseline, openGestureBits, loadVars,
                     userFile, bracket>>
  BY DEF CopySlotToOther, MessageFree, MessageThread, Spend, HistoryInv, TypeInv, Slots
<1>2. CopyEntry \in Kept(other, {session})
  <2>1. [storedSlot EXCEPT !.adv = live.adv] \in StateSets
        /\ [storedSlot EXCEPT !.adv = live.adv].name = storedSlot.name
    BY DEF HistoryInv, TypeInv, StateSets
  <2>2. CopyEntry \in Entries
    BY <1>1, <2>1 DEF CopyEntry, Entry, Entries, Captures, Sessions, HistoryInv, TypeInv
  <2>3. Overlap \/ Paired([storedSlot EXCEPT !.adv = live.adv], storedBaseline)
    BY <2>1 DEF HistoryInv, DatumInv, Paired
  <2> QED
    BY <2>2, <2>3 DEF CopyEntry, Entry, Kept
<1>3. /\ undoStacks' \in [Slots -> Seq(Entries)] /\ redoStacks' \in [Slots -> Seq(Entries)]
      /\ \A s \in Slots : /\ undoStacks'[s] \in Stack(s, {session})
                          /\ redoStacks'[s] \in Stack(s, {session})
  <2>1. CASE undoStacks' = Undos /\ redoStacks' = Redos
    BY <1>1, <2>1, Reconciled
  <2>2. CASE /\ undoStacks' = [Undos EXCEPT ![other] = PushCapped(Undos[other], CopyEntry)]
             /\ redoStacks' = [Redos EXCEPT ![other] = <<>>]
    <3> DEFINE new == PushCapped(Undos[other], CopyEntry)
    <3>1. new \in Stack(other, {session}) /\ <<>> \in Stack(other, {session})
      BY <1>1, <1>2, Reconciled, PushedStays, EmptyStays
    <3>2. undoStacks' = [Undos EXCEPT ![other] = new]
      BY <2>2
    <3> HIDE DEF new, other
    <3>3. /\ undoStacks' \in [Slots -> Seq(Entries)]
          /\ \A s \in Slots : undoStacks'[s] \in Stack(s, {session})
      BY <1>1, <3>1, <3>2, Reconciled, OneStack
    <3>4. /\ redoStacks' \in [Slots -> Seq(Entries)]
          /\ \A s \in Slots : redoStacks'[s] \in Stack(s, {session})
      BY <1>1, <2>2, <3>1, Reconciled, OneStack
    <3> QED
      BY <3>3, <3>4
  <2> QED
    BY <2>1, <2>2 DEF CopySlotToOther
<1>4. LoadInv' /\ StackInv' /\ Current'
  BY <1>1, <1>3, StacksReconciled
<1>5. TypeInv'
  <2>1. /\ gesturePreState' \in Captures \cup {None} /\ edits' \in Int
        /\ historyEpoch' \in Sessions /\ historyEpochSeen' \in 0..historyEpoch'
    BY <1>1 DEF HistoryInv, TypeInv, PreState, Sessions, loadVars
  <2> QED
    BY <1>1, <1>3, <2>1 DEF HistoryInv, TypeInv, loadVars
<1>6. DragInv'
  BY <1>1 DEF HistoryInv, DragInv, PreState, loadVars
<1>7. BracketInv' /\ DatumInv'
  BY <1>1 DEF HistoryInv, BracketInv, DatumInv
<1> QED
  BY <1>4, <1>5, <1>6, <1>7 DEF HistoryInv

LEMMA SaveKeeps ==
    ASSUME HistoryAssumption, HistoryInv, SavePresetFile
    PROVE  HistoryInv'
<1>1. /\ bracket = None
      /\ Overlap \/ openGestureBits = {}
      /\ userFile' = live.sound /\ live' = [live EXCEPT !.name = User]
      /\ presetBaseline' = Shape(live') /\ edits' = edits - 1
      /\ UNCHANGED <<stackVars, storedSlot, activeSlot, storedBaseline, dragVars,
                     loadVars, bracket>>
  BY DEF SavePresetFile, MessageFree, NoDrag, Spend
<1>2. live' \in StateSets /\ userFile' \in Sounds
  BY <1>1 DEF HistoryInv, TypeInv, StateSets, Names
<1>3. presetBaseline' \in Baselines /\ Paired(live', presetBaseline')
  BY <1>1, <1>2 DEF Shape, Baselines, StateSets, Paired
<1>4. TypeInv'
  BY <1>1, <1>2, <1>3 DEF HistoryInv, TypeInv, stackVars, dragVars, loadVars
<1>5. LoadInv' /\ StackInv' /\ Current' = Current
  BY <1>1, SameStacks
<1>6. DragInv' /\ BracketInv' /\ DatumInv'
  BY <1>1, <1>3, <1>5 DEF HistoryInv, DragInv, BracketInv, DatumInv, dragVars, loadVars
<1> QED
  BY <1>4, <1>5, <1>6 DEF HistoryInv

LEMMA ResetKeeps ==
    ASSUME HistoryAssumption, HistoryInv, ~ActsDuringLoad, ResetToMacro
    PROVE  HistoryInv'
<1>1. /\ ~loading /\ bracket = None
      /\ live' = [live EXCEPT !.sound = Curve[live.sound]]
      /\ PushUndoStep(Captured) /\ gesturePreState' = PreState /\ edits' = edits - 1
      /\ UNCHANGED <<storedSlot, activeSlot, presetBaseline, storedBaseline,
                     openGestureBits, loadVars, userFile, bracket>>
  BY DEF ResetToMacro, MessageFree, MessageThread, Spend
<1>2. live' \in StateSets /\ live'.name = live.name
  BY <1>1 DEF HistoryAssumption, HistoryInv, TypeInv, StateSets
<1>3. /\ LoadInv' /\ StackInv' /\ Current' /\ historyEpochSeen' = historyEpoch
      /\ undoStacks' \in [Slots -> Seq(Entries)] /\ redoStacks' \in [Slots -> Seq(Entries)]
  BY <1>1, CaptureIsKept, PushKeeps DEF PushUndoStep
<1>4. TypeInv'
  <2>1. /\ gesturePreState' \in Captures \cup {None} /\ edits' \in Int
        /\ historyEpoch' \in Sessions /\ historyEpochSeen' \in 0..historyEpoch'
    BY <1>1, <1>3 DEF HistoryInv, TypeInv, PreState, Sessions, loadVars
  <2> QED
    BY <1>1, <1>2, <1>3, <2>1 DEF HistoryInv, TypeInv, loadVars
<1>5. DragInv'
  BY <1>1 DEF HistoryInv, DragInv, PreState, loadVars
<1>6. BracketInv' /\ DatumInv'
  BY <1>1, <1>2 DEF HistoryInv, BracketInv, DatumInv, Paired
<1> QED
  BY <1>3, <1>4, <1>5, <1>6 DEF HistoryInv

LEMMA OpenKeeps ==
    ASSUME HistoryAssumption, HistoryInv, ~ActsDuringLoad,
           NEW preset \in [name : Names, sound : Sounds, curve : BOOLEAN], OpenBracket(preset)
    PROVE  HistoryInv'
<1> DEFINE before == Undos[activeSlot]
           entry  == Entry(Captured, presetBaseline)
           cost   == IF Evicts(before) THEN <<before[1]>> ELSE <<>>
<1>1. /\ ~loading /\ bracket = None
      /\ Overlap \/ openGestureBits = {}
      /\ bracket' = [preset |-> preset, preSlot |-> live, preBaseline |-> presetBaseline,
                     redoBefore |-> Redos[activeSlot], slot |-> activeSlot,
                     evicted |-> cost, undoBefore |-> before, session |-> session,
                     step |-> "land"]
      /\ PushUndoStep(Captured) /\ gesturePreState' = PreState /\ edits' = edits - 1
      /\ UNCHANGED <<slotVars, openGestureBits, loadVars, userFile>>
  BY DEF OpenBracket, MessageFree, MessageThread, NoDrag, Spend
<1>2. activeSlot \in Slots /\ session \in Sessions
  BY DEF HistoryInv, TypeInv
<1>3. entry \in Kept(activeSlot, {session})
  BY <1>1, CaptureIsKept
<1>4. /\ LoadInv' /\ StackInv' /\ Current' /\ historyEpochSeen' = historyEpoch
      /\ undoStacks' \in [Slots -> Seq(Entries)] /\ redoStacks' \in [Slots -> Seq(Entries)]
      /\ undoStacks'[activeSlot] = PushCapped(before, entry)
  BY <1>1, <1>3, PushKeeps DEF PushUndoStep
<1>5. /\ before \in Stack(activeSlot, {session}) /\ Redos[activeSlot] \in Stack(activeSlot, {session})
      /\ before \in Seq(Entries) /\ Redos[activeSlot] \in Seq(Entries)
  BY <1>1, <1>2, Reconciled
<1>6. cost \in Seq(Entries)
  <2>1. CASE Evicts(before)
    <3>1. 1 \in 1..Len(before)
      BY <1>5, <2>1, LenProperties DEF Evicts, HistoryAssumption
    <3>2. before[1] \in Entries
      BY <1>5, <3>1, ElementOfSeq
    <3> QED
      BY <2>1, <3>2
  <2>2. CASE ~Evicts(before)
    BY <2>2, EmptySeq
  <2> QED
    BY <2>1, <2>2
<1> HIDE DEF before, entry, cost
<1>7. bracket' \in BracketRecords
  BY <1>1, <1>2, <1>5, <1>6 DEF BracketRecords, HistoryInv, TypeInv
<1>8. TypeInv'
  <2>1. /\ gesturePreState' \in Captures \cup {None} /\ edits' \in Int
        /\ historyEpoch' \in Sessions /\ historyEpochSeen' \in 0..historyEpoch'
    BY <1>1, <1>4 DEF HistoryInv, TypeInv, PreState, Sessions, loadVars
  <2> QED
    BY <1>1, <1>4, <1>7, <2>1 DEF HistoryInv, TypeInv, slotVars, loadVars
<1>9. DragInv'
  BY <1>1 DEF HistoryInv, DragInv, PreState, slotVars, loadVars
<1>10. BracketInv'
  <2>1. /\ bracket'.slot = activeSlot' /\ bracket'.step # "close"
        /\ bracket'.redoBefore \in Stack(activeSlot', {session'})
        /\ bracket'.undoBefore \in Stack(activeSlot', {session'})
        /\ bracket'.undoBefore = before /\ bracket'.preSlot = live
        /\ bracket'.preBaseline = presetBaseline
        /\ bracket'.evicted = cost
    BY <1>1, <1>5 DEF slotVars, loadVars
  <2>2. entry.captured.slot = live /\ entry \in Kept(activeSlot', {session'})
    BY <1>1, <1>3 DEF entry, Entry, Captured, slotVars, loadVars
  <2>3. undoStacks'[activeSlot'] = PushCapped(bracket'.undoBefore, entry)
    BY <1>1, <1>4, <2>1 DEF slotVars
  <2>4. Overlap \/ Paired(bracket'.preSlot, bracket'.preBaseline)
    BY <1>1, <2>1 DEF HistoryInv, DatumInv
  <2>5. Overlap \/ openGestureBits' = {}
    BY <1>1
  <2>6. bracket'.evicted = IF Evicts(bracket'.undoBefore)
                             THEN <<bracket'.undoBefore[1]>> ELSE <<>>
    BY <2>1 DEF cost
  <2> QED
    BY <2>1, <2>2, <2>3, <2>4, <2>5, <2>6 DEF BracketInv
<1>11. DatumInv'
  BY <1>1 DEF HistoryInv, DatumInv, slotVars
<1> QED
  BY <1>4, <1>8, <1>9, <1>10, <1>11 DEF HistoryInv

LEMMA LandKeeps ==
    ASSUME HistoryAssumption, HistoryInv, LandPreset
    PROVE  HistoryInv'
<1>1. /\ bracket # None /\ bracket \in BracketRecords
      /\ live' = [live EXCEPT !.sound = bracket.preset.sound, !.name = bracket.preset.name]
      /\ bracket' = [bracket EXCEPT !.step = "settle"]
      /\ UNCHANGED <<stackVars, storedSlot, activeSlot, presetBaseline,
                     storedBaseline, dragVars, loadVars, userFile, edits>>
  BY DEF LandPreset, HistoryInv, TypeInv
<1>2. live' \in StateSets
  BY <1>1 DEF HistoryInv, TypeInv, StateSets, BracketRecords
<1>3. /\ bracket' \in BracketRecords /\ bracket'.step = "settle"
      /\ bracket'.slot = bracket.slot /\ bracket'.redoBefore = bracket.redoBefore
      /\ bracket'.undoBefore = bracket.undoBefore /\ bracket'.evicted = bracket.evicted
      /\ bracket'.preSlot = bracket.preSlot /\ bracket'.preBaseline = bracket.preBaseline
  BY <1>1 DEF BracketRecords
<1>4. bracket' # None
  BY <1>3, RecordIsNotNone
<1>5. TypeInv'
  BY <1>1, <1>2, <1>3 DEF HistoryInv, TypeInv, stackVars, dragVars, loadVars
<1>6. LoadInv' /\ StackInv' /\ Current' = Current
  BY <1>1, SameStacks
<1>7. DragInv'
  BY <1>1, <1>6 DEF HistoryInv, DragInv, dragVars, loadVars
<1>8. BracketInv'
  BY <1>1, <1>3, <1>6
     DEF HistoryInv, BracketInv, Stack, Kept, stackVars, dragVars, loadVars
<1>9. DatumInv'
  BY <1>1, <1>3, <1>4 DEF HistoryInv, DatumInv
<1> QED
  BY <1>5, <1>6, <1>7, <1>8, <1>9 DEF HistoryInv

LEMMA SettleKeeps ==
    ASSUME HistoryAssumption, HistoryInv, SettlePreset
    PROVE  HistoryInv'
<1>1. /\ bracket # None /\ bracket \in BracketRecords
      /\ live' = [live EXCEPT !.sound = IF bracket.preset.curve THEN Curve[live.sound]
                                        ELSE live.sound]
      /\ presetBaseline' = Shape(live')
      /\ bracket' = [bracket EXCEPT !.step = "close"]
      /\ UNCHANGED <<stackVars, storedSlot, activeSlot, storedBaseline, dragVars,
                     loadVars, userFile, edits>>
  BY DEF SettlePreset, HistoryInv, TypeInv
<1>2. live' \in StateSets
  BY <1>1 DEF HistoryAssumption, HistoryInv, TypeInv, StateSets
<1>3. /\ presetBaseline' \in Baselines /\ presetBaseline' # None
      /\ Paired(live', presetBaseline')
  BY <1>1, <1>2, RecordIsNotNone DEF Shape, Baselines, StateSets, Paired
<1>4. /\ bracket' \in BracketRecords /\ bracket'.step = "close"
      /\ bracket'.slot = bracket.slot /\ bracket'.redoBefore = bracket.redoBefore
      /\ bracket'.undoBefore = bracket.undoBefore /\ bracket'.evicted = bracket.evicted
      /\ bracket'.preSlot = bracket.preSlot /\ bracket'.preBaseline = bracket.preBaseline
  BY <1>1 DEF BracketRecords
<1>5. TypeInv'
  BY <1>1, <1>2, <1>3, <1>4 DEF HistoryInv, TypeInv, stackVars, dragVars, loadVars
<1>6. LoadInv' /\ StackInv' /\ Current' = Current
  BY <1>1, SameStacks
<1>7. DragInv'
  BY <1>1, <1>6 DEF HistoryInv, DragInv, BracketInv, dragVars, loadVars
<1>8. BracketInv'
  BY <1>1, <1>3, <1>4, <1>6
     DEF HistoryInv, BracketInv, Stack, Kept, stackVars, dragVars, loadVars
<1>9. DatumInv'
  BY <1>1, <1>3 DEF HistoryInv, DatumInv
<1> QED
  BY <1>5, <1>6, <1>7, <1>8, <1>9 DEF HistoryInv

\* What the bracket puts back is the stack it met.
LEMMA PutBack ==
    ASSUME HistoryAssumption, HistoryInv, bracket # None, Current
    PROVE  bracket.evicted \o Popped(Undos[activeSlot]) = bracket.undoBefore
<1>1. PICK e \in Kept(activeSlot, {session}) :
         undoStacks[activeSlot] = PushCapped(bracket.undoBefore, e)
  BY DEF HistoryInv, BracketInv
<1>2. /\ bracket.undoBefore \in Seq(Kept(activeSlot, {session}))
      /\ Len(bracket.undoBefore) <= UndoCap
      /\ bracket.evicted = IF Evicts(bracket.undoBefore)
                             THEN <<bracket.undoBefore[1]>> ELSE <<>>
  BY DEF HistoryInv, BracketInv, Stack
<1>3. Undos[activeSlot] = PushCapped(bracket.undoBefore, e)
  BY <1>1 DEF Undos
<1> QED
  BY <1>1, <1>2, <1>3, RetractedPush

LEMMA CloseKeeps ==
    ASSUME HistoryAssumption, HistoryInv, ~ActsDuringLoad, CloseBracket
    PROVE  HistoryInv'
<1>1. /\ ~loading /\ bracket # None /\ bracket.step = "close" /\ bracket' = None
      /\ historyEpochSeen' = historyEpoch /\ gesturePreState' = PreState
      /\ UNCHANGED <<slotVars, openGestureBits, loadVars, userFile, edits>>
      /\ activeSlot \in Slots
  BY DEF CloseBracket, MessageThread, HistoryInv, TypeInv
<1>2. /\ undoStacks' \in [Slots -> Seq(Entries)] /\ redoStacks' \in [Slots -> Seq(Entries)]
      /\ \A s \in Slots : /\ undoStacks'[s] \in Stack(s, {session})
                          /\ redoStacks'[s] \in Stack(s, {session})
  <2>1. CASE undoStacks' = Undos /\ redoStacks' = Redos
    BY <1>1, <2>1, Reconciled
  <2>2. CASE StillOnTop /\ NothingChanged
    <3>1. Current
      BY <1>1, <2>2 DEF StillOnTop, Undos, Cleared
    <3>2. /\ undoStacks' = [Undos EXCEPT ![activeSlot] =
                              bracket.evicted \o Popped(Undos[activeSlot])]
          /\ redoStacks' = [Redos EXCEPT ![activeSlot] = bracket.redoBefore]
      BY <2>2 DEF CloseBracket
    <3>3. undoStacks' = [Undos EXCEPT ![activeSlot] = bracket.undoBefore]
      BY <1>1, <3>1, <3>2, PutBack
    <3>4. /\ bracket.undoBefore \in Stack(activeSlot, {session})
          /\ bracket.redoBefore \in Stack(activeSlot, {session})
      BY <1>1, <3>1 DEF HistoryInv, BracketInv
    <3>5. /\ undoStacks' \in [Slots -> Seq(Entries)]
          /\ \A s \in Slots : undoStacks'[s] \in Stack(s, {session})
      BY <1>1, <3>3, <3>4, Reconciled, OneStack
    <3>6. /\ redoStacks' \in [Slots -> Seq(Entries)]
          /\ \A s \in Slots : redoStacks'[s] \in Stack(s, {session})
      BY <1>1, <3>2, <3>4, Reconciled, OneStack
    <3> QED
      BY <3>5, <3>6
  <2> QED
    BY <2>1, <2>2 DEF CloseBracket
<1>3. LoadInv' /\ StackInv' /\ Current'
  BY <1>1, <1>2, StacksReconciled
<1>4. TypeInv'
  <2>1. /\ gesturePreState' \in Captures \cup {None}
        /\ historyEpoch' \in Sessions /\ historyEpochSeen' \in 0..historyEpoch'
    BY <1>1 DEF HistoryInv, TypeInv, PreState, Sessions, loadVars
  <2> QED
    BY <1>1, <1>2, <2>1 DEF HistoryInv, TypeInv, slotVars, loadVars
<1>5. DragInv'
  BY <1>1 DEF HistoryInv, DragInv, PreState, slotVars, loadVars
<1>6. BracketInv' /\ DatumInv'
  BY <1>1 DEF HistoryInv, BracketInv, DatumInv, slotVars
<1> QED
  BY <1>3, <1>4, <1>5, <1>6 DEF HistoryInv

LEMMA PollKeeps ==
    ASSUME HistoryAssumption, HistoryInv, ~ActsDuringLoad, EditorPoll
    PROVE  HistoryInv'
<1>1. /\ ~loading /\ bracket = None /\ Sync /\ gesturePreState' = PreState
      /\ UNCHANGED <<slotVars, openGestureBits, loadVars, userFile, bracket, edits>>
  BY DEF EditorPoll, MessageFree, MessageThread
<1>2. /\ LoadInv' /\ StackInv' /\ Current' /\ historyEpochSeen' = historyEpoch
      /\ undoStacks' \in [Slots -> Seq(Entries)] /\ redoStacks' \in [Slots -> Seq(Entries)]
  BY <1>1, SyncKeeps DEF Sync
<1>3. TypeInv'
  <2>1. /\ gesturePreState' \in Captures \cup {None}
        /\ historyEpoch' \in Sessions /\ historyEpochSeen' \in 0..historyEpoch'
    BY <1>1, <1>2 DEF HistoryInv, TypeInv, PreState, Sessions, loadVars
  <2> QED
    BY <1>1, <1>2, <2>1 DEF HistoryInv, TypeInv, slotVars, loadVars
<1>4. DragInv'
  BY <1>1 DEF HistoryInv, DragInv, PreState, slotVars, loadVars
<1>5. BracketInv' /\ DatumInv'
  BY <1>1 DEF HistoryInv, BracketInv, DatumInv, slotVars
<1> QED
  BY <1>2, <1>3, <1>4, <1>5 DEF HistoryInv

\* Stacks that nobody reconciled may tell of any session.
LEMMA StacksOfAny ==
    ASSUME HistoryInv, UNCHANGED stackVars, ~Current', Sessions' = Sessions
    PROVE  StackInv'
<1>1. ASSUME NEW s \in Slots, NEW st \in Stack(s, Told) PROVE st \in Stack(s, Sessions)
  <2>1. Told \subseteq Sessions
    BY DEF Told, HistoryInv, TypeInv
  <2>2. Kept(s, Told) \subseteq Kept(s, Sessions)
    BY <2>1 DEF Kept
  <2> QED
    BY <2>2, SeqMonotonic DEF Stack
<1>2. Told' = Sessions
  BY DEF Told
<1>3. \A s \in Slots : undoStacks'[s] \in Stack(s, Sessions) /\ redoStacks'[s] \in Stack(s, Sessions)
  BY <1>1 DEF HistoryInv, StackInv, stackVars
<1> QED
  BY <1>2, <1>3 DEF StackInv

LEMMA AnnounceKeeps ==
    ASSUME HistoryAssumption, HistoryInv, AnnounceLoad
    PROVE  HistoryInv'
<1>1. /\ ~loading /\ loading' = TRUE /\ historyEpoch < MaxLoads
      /\ historyEpoch' = historyEpoch + 1 /\ openGestureBits' = {}
      /\ UNCHANGED <<stackVars, slotVars, gesturePreState, session, userFile, bracket, edits>>
  BY DEF AnnounceLoad
<1>2. /\ MaxLoads \in Nat /\ historyEpoch \in Sessions
      /\ historyEpochSeen \in 0..historyEpoch
  BY DEF HistoryAssumption, HistoryInv, TypeInv
<1>3. historyEpoch' \in Sessions /\ historyEpochSeen' \in 0..historyEpoch' /\ ~Current'
  BY <1>1, <1>2 DEF Sessions, Current, stackVars
<1>4. TypeInv'
  BY <1>1, <1>3 DEF HistoryInv, TypeInv, stackVars, slotVars
<1>5. LoadInv'
  BY <1>1, <1>2, <1>3 DEF HistoryInv, TypeInv, LoadInv, Sessions
<1>6. StackInv'
  BY <1>1, <1>3, StacksOfAny DEF Sessions
<1>7. DragInv' /\ BracketInv' /\ DatumInv'
  BY <1>1, <1>3 DEF HistoryInv, DragInv, BracketInv, DatumInv, slotVars
<1> QED
  BY <1>4, <1>5, <1>6, <1>7 DEF HistoryInv

LEMMA InstallKeeps ==
    ASSUME HistoryAssumption, HistoryInv, NEW l \in StateSets, NEW s \in StateSets,
           NEW a \in Slots, InstallSession(l, s, a)
    PROVE  HistoryInv'
<1>1. /\ loading /\ loading' = FALSE /\ session' = session + 1
      /\ live' = l /\ storedSlot' = s /\ activeSlot' = a
      /\ presetBaseline' = None /\ storedBaseline' = None
      /\ UNCHANGED <<stackVars, dragVars, historyEpoch, userFile, bracket, edits>>
  BY DEF InstallSession
<1>2. /\ historyEpoch = session + 1 /\ ~Current /\ historyEpoch \in Sessions
  BY <1>1 DEF HistoryInv, TypeInv, LoadInv
<1>3. ~Current' /\ session' \in Sessions
  BY <1>1, <1>2 DEF Current, stackVars
<1>4. None \in Baselines
  BY DEF Baselines
<1>5. TypeInv'
  BY <1>1, <1>3, <1>4 DEF HistoryInv, TypeInv, stackVars, dragVars
<1>6. LoadInv'
  BY <1>1, <1>2 DEF LoadInv
<1>7. StackInv'
  BY <1>1, <1>3, StacksOfAny DEF Sessions
<1>8. DragInv' /\ BracketInv' /\ DatumInv'
  BY <1>1, <1>3 DEF HistoryInv, DragInv, BracketInv, DatumInv, Paired, dragVars
<1> QED
  BY <1>5, <1>6, <1>7, <1>8 DEF HistoryInv

LEMMA StutterKeeps == HistoryInv /\ UNCHANGED undoVars => HistoryInv'
<1> SUFFICES ASSUME HistoryInv, UNCHANGED undoVars PROVE HistoryInv'
  OBVIOUS
<1>1. UNCHANGED <<stackVars, loadVars>> /\ UNCHANGED <<slotVars, dragVars, userFile, bracket, edits>>
  BY DEF undoVars
<1>2. LoadInv' /\ StackInv' /\ Current' = Current
  BY <1>1, SameStacks
<1>3. TypeInv' /\ DragInv' /\ DatumInv'
  BY <1>1, <1>2
     DEF HistoryInv, TypeInv, DragInv, DatumInv, stackVars, loadVars, slotVars, dragVars
<1>4. BracketInv'
  BY <1>1, <1>2
     DEF HistoryInv, BracketInv, Stack, Kept, stackVars, loadVars, slotVars, dragVars
<1> QED
  BY <1>2, <1>3, <1>4 DEF HistoryInv

LEMMA NextKeeps ==
    ASSUME HistoryAssumption, HistoryInv, ~ActsDuringLoad, [UndoNext]_undoVars
    PROVE  HistoryInv'
<1>1. ASSUME NEW v \in Sounds, SetSound(v) PROVE HistoryInv'
  BY <1>1, SetSoundKeeps
<1>2. ASSUME NEW field \in {"adv", "view"}, Toggle(field) PROVE HistoryInv'
  BY <1>2, ToggleKeeps
<1>3. ASSUME NEW p \in Params, GestureBegin(p) \/ GestureEnd(p) \/ GestureEndElsewhere(p)
      PROVE  HistoryInv'
  BY <1>3, GestureBeginKeeps, GestureEndKeeps, GestureEndElsewhereKeeps
<1>4. CASE Undo \/ Redo \/ SwitchToSlot \/ CopySlotToOther
  BY <1>4, UndoKeeps, RedoKeeps, SwitchKeeps, CopyKeeps
<1>5. ASSUME NEW p \in Presets, OpenBracket(FactoryPreset(p)) PROVE HistoryInv'
  <2>1. FactoryPreset(p) \in [name : Names, sound : Sounds, curve : BOOLEAN]
    BY DEF FactoryPreset, Names, HistoryAssumption
  <2> QED
    BY <1>5, <2>1, OpenKeeps
<1>6. CASE userFile # None /\ OpenBracket(UserPreset)
  <2>1. UserPreset \in [name : Names, sound : Sounds, curve : BOOLEAN]
    BY <1>6 DEF UserPreset, Names, HistoryInv, TypeInv
  <2> QED
    BY <1>6, <2>1, OpenKeeps
<1>7. CASE LandPreset \/ SettlePreset \/ CloseBracket
  BY <1>7, LandKeeps, SettleKeeps, CloseKeeps
<1>8. CASE SavePresetFile \/ ResetToMacro \/ AnnounceLoad \/ EditorPoll
  BY <1>8, SaveKeeps, ResetKeeps, AnnounceKeeps, PollKeeps
<1>9. ASSUME NEW l \in Saved, NEW a \in Slots, NEW s \in {Pristine, l}, InstallSession(l, s, a)
      PROVE  HistoryInv'
  <2>1. Saved \subseteq StateSets /\ Pristine \in StateSets
    BY DEF Saved, Pristine, StateSets, Names, HistoryAssumption
  <2> QED
    BY <1>9, <2>1, InstallKeeps
<1>10. CASE UNCHANGED undoVars
  BY <1>10, StutterKeeps
<1> QED
  BY <1>1, <1>2, <1>3, <1>4, <1>5, <1>6, <1>7, <1>8, <1>9, <1>10 DEF UndoNext

-----------------------------------------------------------------------------
(* What it gives.                                                          *)

\* The machinery's invariant: where each entry of each stack comes from, what
\* an open drag and an open apply may still rely on after a load, and whose
\* datum stands beside a slot (PluginProcessor: syncHistory, pushUndoStep,
\* openPresetUndoBracket, closePresetUndoBracket).
THEOREM HistoryKeeps ==
    ASSUME ~ActsDuringLoad
    PROVE  UndoSpec => []HistoryInv
<1>1. UndoInit => HistoryInv
  BY HistoryAssumption, InitHolds
<1>2. HistoryInv /\ [UndoNext]_undoVars => HistoryInv'
  BY HistoryAssumption, NextKeeps
<1> QED
  BY <1>1, <1>2, PTL DEF UndoSpec

\* Every variable keeps its type, and no stack outgrows kUndoCap.
THEOREM HistoryTyped ==
    ASSUME ~ActsDuringLoad
    PROVE  UndoSpec => []HistoryTypeOK
<1>1. HistoryInv => HistoryTypeOK
  BY DEF HistoryInv, TypeInv, StackInv, Stack, HistoryTypeOK, Sessions
<1> QED
  BY <1>1, HistoryKeeps, PTL

LEMMA EntriesAreKept ==
    ASSUME HistoryInv, NEW h \in {1, 2}, NEW s \in Slots, NEW i \in DOMAIN Histories[h][s]
    PROVE  Histories[h][s][i] \in Kept(s, Told)
<1>1. Histories[h][s] \in Stack(s, Told)
  BY DEF Histories, HistoryInv, StackInv
<1> QED
  BY <1>1, LenProperties, ElementOfSeq DEF Stack

\* Undo and redo never bring the other slot's values into a slot: each stack
\* holds states of its own slot only, through every switch, copy and load.
THEOREM OwnHistory ==
    ASSUME ~ActsDuringLoad
    PROVE  UndoSpec => []HistoryIsOwn
<1>1. HistoryInv => HistoryIsOwn
  BY EntriesAreKept DEF HistoryIsOwn, Kept
<1> QED
  BY <1>1, HistoryKeeps, PTL

\* After a load the reconciled stacks describe no state of the session before.
THEOREM SessionHistory ==
    ASSUME ~ActsDuringLoad
    PROVE  UndoSpec => []HistoryIsOfSession
<1>1. HistoryInv => HistoryIsOfSession
  BY EntriesAreKept DEF HistoryIsOfSession, Kept, Told
<1> QED
  BY <1>1, HistoryKeeps, PTL

\* Where no preset, save, undo or redo comes during a drag, the dirty datum is
\* that of the preset its slot is named for, in the slots and in the stacks.
THEOREM DatumFollowsName ==
    ASSUME ~ActsDuringLoad, ~Overlap
    PROVE  UndoSpec => []DatumOfName
<1>1. HistoryInv => DatumOfName
  BY EntriesAreKept DEF DatumOfName, Kept, HistoryInv, DatumInv
<1> QED
  BY <1>1, HistoryKeeps, PTL

-----------------------------------------------------------------------------
(* What a step may never do.                                               *)

LEMMA OnlyCloseEnds ==
    ASSUME HistoryInv, UndoNext, bracket # None, bracket' = None
    PROVE  CloseBracket
<1>1. ASSUME NEW step \in {"settle", "close"}
      PROVE  [bracket EXCEPT !.step = step] # None
  <2>1. bracket \in BracketRecords
    BY DEF HistoryInv, TypeInv
  <2>2. [bracket EXCEPT !.step = step] \in BracketRecords
    BY <1>1, <2>1 DEF BracketRecords
  <2> QED
    BY <2>2, RecordIsNotNone
<1>2. ~LandPreset /\ ~SettlePreset
  BY <1>1 DEF LandPreset, SettlePreset
<1>3. ~MessageFree
  BY DEF MessageFree
<1>4. bracket' # bracket
  OBVIOUS
<1> QED
  BY <1>2, <1>3, <1>4, Zenon
     DEF UndoNext, SetSound, Toggle, GestureBegin, GestureEnd, GestureEndElsewhere,
         Undo, Redo, SwitchToSlot, CopySlotToOther, OpenBracket, SavePresetFile,
         ResetToMacro, AnnounceLoad, EditorPoll, InstallSession

\* A preset that lands on what was there leaves both stacks as it met them,
\* the entry its own push had cost included (closePresetUndoBracket: "neither
\* leave a dead undo step nor destroy a redo line").
THEOREM NoOpApply ==
    ASSUME ~ActsDuringLoad, ~Overlap
    PROVE  UndoSpec => NoOpApplyLeavesHistory
<1> DEFINE NoOp == /\ bracket # None /\ bracket' = None /\ Current
                   /\ bracket.session = session
                   /\ Stripped(bracket.preSlot) = Stripped(live)
                   /\ Dirty(live, bracket.preBaseline) = Dirty(live, presetBaseline)
                   /\ ~Dirty(live, presetBaseline)
           Left == /\ undoStacks'[activeSlot] = bracket.undoBefore
                   /\ redoStacks'[activeSlot] = bracket.redoBefore
<1>1. HistoryInv /\ [UndoNext]_undoVars => [NoOp => Left]_undoVars
  <2> SUFFICES ASSUME HistoryInv, UndoNext, NoOp PROVE Left
    OBVIOUS
  <2>1. CloseBracket
    BY OnlyCloseEnds
  <2>2. /\ bracket \in BracketRecords /\ bracket.step = "close" /\ activeSlot \in Slots
        /\ live \in StateSets /\ presetBaseline \in Baselines
    BY <2>1 DEF CloseBracket, HistoryInv, TypeInv
  <2>3. StillOnTop
    <3>1. /\ bracket.slot = activeSlot /\ bracket.undoBefore \in Stack(activeSlot, {session})
          /\ \E e \in Kept(activeSlot, {session}) :
                /\ e.captured.slot = bracket.preSlot
                /\ undoStacks[activeSlot] = PushCapped(bracket.undoBefore, e)
      BY DEF HistoryInv, BracketInv
    <3>2. PICK e \in Kept(activeSlot, {session}) :
             /\ e.captured.slot = bracket.preSlot
             /\ undoStacks[activeSlot] = PushCapped(bracket.undoBefore, e)
      BY <3>1
    <3>3. undoStacks[activeSlot] # <<>> /\ Top(undoStacks[activeSlot]) = e
      BY <3>1, <3>2, HistoryAssumption, PushedStack DEF Stack
    <3> QED
      BY <3>1, <3>2, <3>3 DEF StillOnTop, Undos
  <2>4. NothingChanged
    <3>1. /\ presetBaseline # None /\ Paired(live, presetBaseline)
          /\ Paired(bracket.preSlot, bracket.preBaseline)
      BY <2>2 DEF HistoryInv, BracketInv, DatumInv
    <3>2. presetBaseline.sound = live.sound /\ presetBaseline.name = live.name
      BY <3>1 DEF Dirty, Paired
    <3>3. presetBaseline \in [sound : Sounds, name : Names]
      BY <2>2, <3>1 DEF Baselines
    <3>4. presetBaseline = Shape(live)
      BY <3>2, <3>3 DEF Shape
    <3>5. CASE bracket.preBaseline = None
      BY <3>4, <3>5 DEF NothingChanged
    <3>6. CASE bracket.preBaseline # None
      <4>1. bracket.preBaseline \in [sound : Sounds, name : Names]
        BY <2>2, <3>6 DEF BracketRecords, Baselines
      <4>2. bracket.preSlot.name = live.name
        BY DEF Stripped
      <4>3. /\ bracket.preBaseline.sound = live.sound
            /\ bracket.preBaseline.name = live.name
        BY <3>1, <3>6, <4>2 DEF Dirty, Paired
      <4>4. bracket.preBaseline = presetBaseline
        BY <3>2, <3>3, <4>1, <4>3
      <4> QED
        BY <4>4 DEF NothingChanged
    <3> QED
      BY <3>5, <3>6
  <2>5. /\ undoStacks' = [Undos EXCEPT ![activeSlot] =
                            bracket.evicted \o Popped(Undos[activeSlot])]
        /\ redoStacks' = [Redos EXCEPT ![activeSlot] = bracket.redoBefore]
    BY <2>1, <2>3, <2>4 DEF CloseBracket
  <2>6. Undos \in [Slots -> Seq(Entries)] /\ Redos \in [Slots -> Seq(Entries)]
    BY DEF Undos, Redos, HistoryInv, TypeInv
  <2>7. bracket.evicted \o Popped(Undos[activeSlot]) = bracket.undoBefore
    BY HistoryAssumption, PutBack
  <2> QED
    BY <2>2, <2>5, <2>6, <2>7
<1> QED
  BY <1>1, HistoryKeeps, PTL DEF UndoSpec, NoOpApplyLeavesHistory

LEMMA UndoIsThere ==
    ASSUME HistoryInv, ~ActsDuringLoad, Undo
    PROVE  /\ Len(undoStacks'[activeSlot]) = Len(Undos[activeSlot]) - 1
           /\ Here' = UndoTarget
           /\ activeSlot' = activeSlot => RedoTarget' = Here
<1> DEFINE prev == Top(Undos[activeSlot])
           back == Entry(Captured, presetBaseline)
<1>1. /\ ~loading /\ bracket = None /\ activeSlot \in Slots /\ Undos[activeSlot] # <<>>
      /\ live' = Applied(prev.captured.slot, TRUE) /\ presetBaseline' = prev.baseline
      /\ redoStacks' = [Redos EXCEPT ![activeSlot] = PushCapped(Redos[activeSlot], back)]
      /\ undoStacks' = [Undos EXCEPT ![activeSlot] = Popped(Undos[activeSlot])]
  BY DEF Undo, MessageFree, MessageThread, RestoredBaseline, WayBack, HistoryInv, TypeInv
<1>2. /\ Undos \in [Slots -> Seq(Entries)] /\ Redos \in [Slots -> Seq(Entries)]
      /\ Undos[activeSlot] \in Stack(activeSlot, {session})
      /\ Redos[activeSlot] \in Stack(activeSlot, {session})
  BY <1>1, HistoryAssumption, Reconciled
<1>3. /\ Len(Popped(Undos[activeSlot])) = Len(Undos[activeSlot]) - 1
      /\ prev \in Kept(activeSlot, {session})
  BY <1>1, <1>2, PoppedStack DEF Stack
<1>4. Current /\ Undos = undoStacks
  BY <1>1 DEF Undos, Cleared
<1>5. Here' = UndoTarget
  <2>1. prev.captured.slot \in StateSets
    BY <1>3 DEF Kept, Entries, Captures
  <2>2. Stripped(live') = Stripped(prev.captured.slot)
    BY <1>1, <2>1, AppliedSlot
  <2> QED
    BY <1>1, <1>4, <2>2 DEF Here, UndoTarget
<1>6. ASSUME activeSlot' = activeSlot PROVE RedoTarget' = Here
  <2>1. back \in Kept(activeSlot, {session})
    BY <1>1, CaptureIsKept
  <2>2. Top(PushCapped(Redos[activeSlot], back)) = back
    BY <1>2, <2>1, HistoryAssumption, PushedStack DEF Stack
  <2> HIDE DEF back
  <2>3. redoStacks'[activeSlot'] = PushCapped(Redos[activeSlot], back)
    BY <1>1, <1>2, <1>6
  <2>4. Top(redoStacks'[activeSlot']) = back
    BY <2>2, <2>3
  <2>5. back.captured.slot = live /\ back.baseline = presetBaseline
    BY DEF back, Entry, Captured
  <2> QED
    BY <2>4, <2>5 DEF RedoTarget, Here
<1> QED
  BY <1>1, <1>2, <1>3, <1>5, <1>6

LEMMA RedoIsThere ==
    ASSUME HistoryInv, ~ActsDuringLoad, Redo
    PROVE  /\ Len(redoStacks'[activeSlot]) = Len(Redos[activeSlot]) - 1
           /\ Here' = RedoTarget
           /\ activeSlot' = activeSlot => UndoTarget' = Here
<1> DEFINE next == Top(Redos[activeSlot])
           back == Entry(Captured, presetBaseline)
<1>1. /\ ~loading /\ bracket = None /\ activeSlot \in Slots /\ Redos[activeSlot] # <<>>
      /\ live' = Applied(next.captured.slot, TRUE) /\ presetBaseline' = next.baseline
      /\ undoStacks' = [Undos EXCEPT ![activeSlot] = PushCapped(Undos[activeSlot], back)]
      /\ redoStacks' = [Redos EXCEPT ![activeSlot] = Popped(Redos[activeSlot])]
  BY DEF Redo, MessageFree, MessageThread, RestoredBaseline, WayBack, HistoryInv, TypeInv
<1>2. /\ Redos \in [Slots -> Seq(Entries)] /\ Undos \in [Slots -> Seq(Entries)]
      /\ Redos[activeSlot] \in Stack(activeSlot, {session})
      /\ Undos[activeSlot] \in Stack(activeSlot, {session})
  BY <1>1, HistoryAssumption, Reconciled
<1>3. /\ Len(Popped(Redos[activeSlot])) = Len(Redos[activeSlot]) - 1
      /\ next \in Kept(activeSlot, {session})
  BY <1>1, <1>2, PoppedStack DEF Stack
<1>4. Current /\ Redos = redoStacks
  BY <1>1 DEF Redos, Cleared
<1>5. Here' = RedoTarget
  <2>1. next.captured.slot \in StateSets
    BY <1>3 DEF Kept, Entries, Captures
  <2>2. Stripped(live') = Stripped(next.captured.slot)
    BY <1>1, <2>1, AppliedSlot
  <2> QED
    BY <1>1, <1>4, <2>2 DEF Here, RedoTarget
<1>6. ASSUME activeSlot' = activeSlot PROVE UndoTarget' = Here
  <2>1. back \in Kept(activeSlot, {session})
    BY <1>1, CaptureIsKept
  <2>2. Top(PushCapped(Undos[activeSlot], back)) = back
    BY <1>2, <2>1, HistoryAssumption, PushedStack DEF Stack
  <2> HIDE DEF back
  <2>3. undoStacks'[activeSlot'] = PushCapped(Undos[activeSlot], back)
    BY <1>1, <1>2, <1>6
  <2>4. Top(undoStacks'[activeSlot']) = back
    BY <2>2, <2>3
  <2>5. back.captured.slot = live /\ back.baseline = presetBaseline
    BY DEF back, Entry, Captured
  <2> QED
    BY <2>4, <2>5 DEF UndoTarget, Here
<1> QED
  BY <1>1, <1>2, <1>3, <1>5, <1>6

\* No other step goes one along the history.
LEMMA OnlyThese ==
    ASSUME HistoryInv, ~ActsDuringLoad, UndoNext, NEW d \in {-1, 1}, Moves(d)
    PROVE  (d = -1 /\ Undo) \/ (d = 1 /\ Redo)
<1>1. /\ activeSlot' = activeSlot /\ bracket = None /\ edits' = edits
      /\ openGestureBits' = openGestureBits
      /\ Len(undoStacks'[activeSlot]) = Len(Undos[activeSlot]) + d
      /\ Len(redoStacks'[activeSlot]) = Len(Redos[activeSlot]) - d
  BY DEF Moves
<1>2. /\ activeSlot \in Slots /\ edits \in Int
      /\ undoStacks \in [Slots -> Seq(Entries)] /\ redoStacks \in [Slots -> Seq(Entries)]
      /\ Undos \in [Slots -> Seq(Entries)] /\ Redos \in [Slots -> Seq(Entries)]
  <2>1. <<>> \in Seq(Entries)
    BY EmptySeq
  <2> QED
    BY <2>1 DEF HistoryInv, TypeInv, Undos, Redos, Cleared
<1>3. /\ Len(Undos[activeSlot]) \in Nat /\ Len(Redos[activeSlot]) \in Nat
      /\ Len(undoStacks[activeSlot]) \in Nat /\ Len(redoStacks[activeSlot]) \in Nat
  BY <1>2, LenProperties
<1>4. ~Spend
  BY <1>1, <1>2 DEF Spend
<1>5. ~\E p \in Params : GestureBegin(p) \/ GestureEnd(p) \/ GestureEndElsewhere(p)
  BY <1>1 DEF GestureBegin, GestureEnd, GestureEndElsewhere
<1>6. ~SwitchToSlot
  <2>1. SwitchToSlot => activeSlot' = 1 - activeSlot
    BY DEF SwitchToSlot
  <2>2. 1 - activeSlot # activeSlot
    BY <1>2 DEF Slots
  <2> QED
    BY <1>1, <2>1, <2>2
<1>7. ~Sync
  BY <1>1, <1>3 DEF Sync
<1>8. ~UNCHANGED stackVars
  <2> SUFFICES ASSUME UNCHANGED stackVars PROVE FALSE
    OBVIOUS
  <2>1. undoStacks' = undoStacks /\ redoStacks' = redoStacks
    BY DEF stackVars
  <2>2. CASE Current
    BY <1>1, <1>3, <2>1, <2>2 DEF Undos, Redos
  <2>3. CASE ~Current
    <3>1. Undos[activeSlot] = <<>> /\ Redos[activeSlot] = <<>> /\ Len(<<>>) = 0
      BY <1>2, <2>3, EmptySeq DEF Undos, Redos, Cleared
    <3> QED
      BY <1>1, <1>3, <2>1, <3>1
  <2> QED
    BY <2>2, <2>3
<1>9. Undo \/ Redo
  BY <1>1, <1>4, <1>5, <1>6, <1>7, <1>8, Zenon
     DEF UndoNext, SetSound, Toggle, CopySlotToOther, OpenBracket, LandPreset,
         SettlePreset, CloseBracket, SavePresetFile, ResetToMacro, AnnounceLoad,
         EditorPoll, InstallSession
<1>10. Undo => d = -1
  BY <1>1, <1>3, UndoIsThere
<1>11. Redo => d = 1
  BY <1>1, <1>3, RedoIsThere
<1> QED
  BY <1>9, <1>10, <1>11

\* An undo lands on the very state and datum its entry recorded and can be
\* redone back to what it left, and a redo likewise, at any depth and with any
\* loads, switches and copies before it.
THEOREM UndoIsReversible ==
    ASSUME ~ActsDuringLoad
    PROVE  UndoSpec => Reversible
<1>1. HistoryInv /\ [UndoNext]_undoVars
         => [/\ (Moves(-1) => Here' = UndoTarget /\ RedoTarget' = Here)
             /\ (Moves(1) => Here' = RedoTarget /\ UndoTarget' = Here)]_undoVars
  <2> SUFFICES ASSUME HistoryInv, UndoNext
               PROVE  /\ (Moves(-1) => Here' = UndoTarget /\ RedoTarget' = Here)
                      /\ (Moves(1) => Here' = RedoTarget /\ UndoTarget' = Here)
    OBVIOUS
  <2>1. ASSUME Moves(-1) PROVE Here' = UndoTarget /\ RedoTarget' = Here
    <3>1. Undo /\ activeSlot' = activeSlot
      BY <2>1, OnlyThese DEF Moves
    <3> QED
      BY <3>1, UndoIsThere
  <2>2. ASSUME Moves(1) PROVE Here' = RedoTarget /\ UndoTarget' = Here
    <3>1. Redo /\ activeSlot' = activeSlot
      BY <2>2, OnlyThese DEF Moves
    <3> QED
      BY <3>1, RedoIsThere
  <2> QED
    BY <2>1, <2>2
<1> QED
  BY <1>1, HistoryKeeps, PTL DEF UndoSpec, Reversible

=============================================================================
