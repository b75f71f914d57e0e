----------------------------- MODULE MacroDrain -----------------------------
(* The macro layer: which managed parameters follow the macro's curve and   *)
(* which the user holds detached (MacroEngine, and the detach half of the   *)
(* wrapper).                                                                *)
(*                                                                          *)
(* Host callbacks arrive on the message thread or on another one; either    *)
(* may restore a state.  Only the message thread drains.  What a thread has *)
(* entered is a list of the single loads, stores and exchanges it has still *)
(* to make, and the two threads interleave between any two of them.  A      *)
(* curve gives each parameter the macro's position as its value.            *)
EXTENDS Integers, SequencesExt

CONSTANTS
    Order,          \* the managed parameters, as the mapping lands them
    Positions,      \* positions of the macro
    Default,        \* the position of a fresh surface
    Slots,          \* states a restore may carry
    MaxDrainCalls   \* bound: calls that enter

Hand    == -1       \* a value no curve gives
Managed == Range(Order)
Values  == Positions \union {Hand}
States  == [macro : Positions, value : [Managed -> Values], mask : SUBSET Managed]

DrainThreads == {"message", "other"}

ASSUME DrainAssumption ==
    /\ Order \in Seq(Managed) /\ Order # <<>>
    /\ Positions \subseteq Nat /\ Default \in Positions
    /\ Slots \subseteq States

VARIABLES
    macro, value,   \* the parameter surface
    mask,           \* the detached parameters (liveDetachMask)
    gestures,       \* managed parameters in a drag (managedGestureBits)
    bits, reengage, \* staged for the drain (pendingDetachBits, pendingReengage)
    armed,          \* a mapping is pending (mappingPending)
    applying,       \* the mapping is writing
    restoring,      \* depth of the restore guards
    stopped,        \* the owner is being torn down
    doing,          \* what each thread has still to do in its call
    calls,          \* calls entered so far
    stands,         \* what each parameter was last brought to, see Settles
    touched         \* parameters another call wrote during the bulk change

surface   == <<macro, value, mask>>
pending   == <<gestures, bits, reengage, armed>>
latches   == <<applying, restoring, stopped>>
drainVars == <<surface, pending, latches, doing, calls, stands, touched>>

DrainInit ==
    /\ macro = Default /\ value = [p \in Managed |-> Default] /\ mask = {}
    /\ gestures = {} /\ bits = {} /\ reengage = FALSE /\ armed = FALSE
    /\ applying = FALSE /\ restoring = 0 /\ stopped = FALSE
    /\ doing = [t \in DrainThreads |-> <<>>]
    /\ calls = 0
    /\ stands = [p \in Managed |-> [by |-> "unknown"]] /\ touched = {}

Other(t)   == IF t = "message" THEN "other" ELSE "message"
Resting(t) == doing[t] = <<>>

\* A thread makes the step at the head of its list, then new steps, then the rest.
MakesStep(t, do)   == doing[t] # <<>> /\ Head(doing[t]).do = do
Continue(t, steps) == doing' = [doing EXCEPT ![t] = steps \o Tail(@)]
Do(do)             == [do |-> do]
DoTo(do, p)        == [do |-> do, p |-> p]

Unknown(ps) == [p \in Managed |-> IF p \in ps THEN [by |-> "unknown"] ELSE stands[p]]

-----------------------------------------------------------------------------
(* What the calls consist of.                                               *)

\* A parameter changes inside its drag, or without one.
AutomateSteps(p, v) == <<[do |-> "write", p |-> p, v |-> v], DoTo("listen", p)>>
DragSteps(p, v)     == <<DoTo("begin", p)>> \o AutomateSteps(p, v) \o <<DoTo("end", p)>>

\* Mutant: the mapping is armed before the re-engagement it is to see.
ArmFirst == <<Do("arm"), Do("ask"), Do("soon")>>

\* audioProcessorParameterChangeGestureBegin on a macro
ReengageSteps == <<Do("ask"), Do("arm"), Do("soon")>>

\* A macro moves; MacroEngine::parameterChanged arms the mapping.
MoveSteps(m) == <<[do |-> "move", m |-> m], Do("arm")>>

\* Mutant: the inputs staged before the swap stay staged.
KeepStaged(m) == <<[do |-> "replace", mask |-> m]>>

\* replaceDetachMask drops what is staged first.
DropSteps       == <<Do("drop bits"), Do("drop ask")>>
ReplaceSteps(m) == DropSteps \o <<[do |-> "replace", mask |-> m]>>

\* A restore under its ScopedRestore: undo, redo, an A/B switch, a preset file
\* or, on either thread, a session load.
RestoreSteps(c) ==
    <<Do("raise"), [do |-> "adopt", state |-> c]>> \o ReplaceSteps(c.mask)
      \o <<Do("abort"), [do |-> "lower", state |-> c]>>

\* relandMacroCurve, through refreshMapping
RelandSteps == DropSteps \o <<Do("arm all"), Do("tick")>>

\* resetToMacro, and a factory preset, which lands its macro and defaults and
\* then, outside its guard, the curve.
ResetSteps      == ReplaceSteps({}) \o RelandSteps
FactorySteps(m) ==
    RestoreSteps([macro |-> m, value |-> [p \in Managed |-> Default], mask |-> {}]) \o RelandSteps

\* Mutant: the mapping runs before the staged bits have become the mask.
MapFirst == <<Do("take"), Do("bits"), Do("clear")>>

\* drainTick past its guards: the wrapper's bits, then its re-engagement, then
\* the mapping.
DrainSteps == <<Do("bits"), Do("clear"), Do("take")>>

-----------------------------------------------------------------------------
(* Calls.  A bulk change starts with nothing touched but what the other     *)
(* thread is in the middle of; any call that enters meanwhile touches.      *)

InFlight(t) ==
    IF \E s \in Range(doing[t]) : s.do \notin {"begin", "write", "listen", "stage", "end"} THEN Managed
    ELSE {s.p : s \in Range(doing[t])}

EnterCall(t, steps, writes, bulk) ==
    /\ Resting(t)
    /\ calls < MaxDrainCalls
    /\ calls' = calls + 1
    /\ doing' = [doing EXCEPT ![t] = steps]
    /\ touched' = IF bulk THEN InFlight(Other(t)) ELSE touched \union writes
    /\ UNCHANGED <<surface, pending, latches, stands>>

Drag(t, p)     == EnterCall(t, DragSteps(p, Hand), {p}, FALSE)
Automate(t, p) == EnterCall(t, AutomateSteps(p, Hand), {p}, FALSE)
MacroGesture(t) == EnterCall(t, ReengageSteps, Managed, FALSE)
MacroMove(t, m) == m # macro /\ EnterCall(t, MoveSteps(m), Managed, FALSE)
Restore(t, c)   == EnterCall(t, RestoreSteps(c), {}, TRUE)
ResetToMacro    == EnterCall("message", ResetSteps, {}, TRUE)
FactoryPreset(m) == EnterCall("message", FactorySteps(m), {}, TRUE)

\* Mutant: the guard covers the mapping but not the wrapper's half.
Unguarded == ~stopped

\* drainTick runs neither during a restore nor after teardown.
MayDrain == ~stopped /\ restoring = 0

\* The 30 ms timer, or the posted update.
Tick ==
    /\ Resting("message") /\ MayDrain
    /\ armed \/ reengage \/ bits # {}
    /\ doing' = [doing EXCEPT !["message"] = DrainSteps]
    /\ UNCHANGED <<surface, pending, latches, calls, stands, touched>>

StopDraining ==
    /\ Resting("message") /\ ~stopped
    /\ stopped' = TRUE
    /\ UNCHANGED <<surface, pending, applying, restoring, doing, calls, stands, touched>>

-----------------------------------------------------------------------------
(* The steps.                                                               *)

BeginOrEnd(t) ==
    /\ \/ MakesStep(t, "begin") /\ gestures' = gestures \union {Head(doing[t]).p}
       \/ MakesStep(t, "end") /\ gestures' = gestures \ {Head(doing[t]).p}
    /\ Continue(t, <<>>)
    /\ UNCHANGED <<surface, bits, reengage, armed, latches, calls, stands, touched>>

\* The host writes a parameter.  Under a macro gesture that no drain has begun
\* to take yet, the macro wins and what is expected stays.
HostWrite(t) ==
    LET s == Head(doing[t]) IN
    /\ MakesStep(t, "write")
    /\ value' = [value EXCEPT ![s.p] = s.v]
    /\ stands' = IF reengage /\ armed /\ Resting(Other(t)) THEN stands ELSE Unknown({s.p})
    /\ touched' = touched \union {s.p}
    /\ Continue(t, <<>>)
    /\ UNCHANGED <<macro, mask, pending, latches, calls>>

\* AnabasisAudioProcessor::parameterChanged: what detaches.
Listen(t) ==
    LET p == Head(doing[t]).p IN
    /\ MakesStep(t, "listen")
    /\ Continue(t, IF p \in gestures /\ ~applying /\ restoring = 0
                   THEN <<DoTo("stage", p), Do("soon")>> ELSE <<>>)
    /\ UNCHANGED <<surface, pending, latches, calls, stands, touched>>

Stage(t) ==
    LET p == Head(doing[t]).p IN
    /\ MakesStep(t, "stage")
    /\ bits' = bits \union {p}
    /\ stands' = IF ~Resting(Other(t)) \/ reengage # armed \/ (~reengage /\ value[p] # Hand) THEN Unknown({p})
                 ELSE IF reengage THEN stands
                 ELSE [stands EXCEPT ![p] = [by |-> "hand"]]
    /\ Continue(t, <<>>)
    /\ UNCHANGED <<surface, gestures, reengage, armed, latches, calls, touched>>

\* drainDetachBitsSoon: at once on the message thread, never off it.
Soon(t) ==
    /\ MakesStep(t, "soon")
    /\ Continue(t, IF t = "message" /\ restoring = 0 THEN <<Do("bits"), Do("clear")>> ELSE <<>>)
    /\ UNCHANGED <<surface, pending, latches, calls, stands, touched>>

\* A macro gesture asks for the re-engagement of all parameters; raced when the
\* other thread is in the middle of something.
AskAll(t) ==
    /\ MakesStep(t, "ask")
    /\ reengage' = TRUE
    /\ stands' = IF restoring > 0 THEN Unknown(Managed)
                 ELSE [p \in Managed |-> [by |-> IF Resting(Other(t)) THEN "macro" ELSE "raced"]]
    /\ touched' = Managed
    /\ Continue(t, <<>>)
    /\ UNCHANGED <<surface, gestures, bits, armed, latches, calls>>

\* armMapping, also as the macros' listener; what a restore landed may go.
Arm(t) ==
    /\ MakesStep(t, "arm")
    /\ armed' = TRUE
    /\ stands' = Unknown({p \in Managed : stands[p].by = "carried"})
    /\ touched' = Managed
    /\ Continue(t, <<>>)
    /\ UNCHANGED <<surface, gestures, bits, reengage, latches, calls>>

\* refreshMapping arms too; its caller has replaced the mask.
ArmAll(t) ==
    /\ MakesStep(t, "arm all")
    /\ armed' = TRUE
    /\ stands' = [p \in Managed |-> [by |-> IF p \in touched THEN "unknown" ELSE "macro"]]
    /\ Continue(t, <<>>)
    /\ UNCHANGED <<surface, gestures, bits, reengage, latches, calls, touched>>

Move(t) ==
    /\ MakesStep(t, "move")
    /\ macro' = Head(doing[t]).m
    /\ Continue(t, <<>>)
    /\ UNCHANGED <<value, mask, pending, latches, calls, stands, touched>>

\* handleAsyncUpdate, its two halves
TakeBits(t) ==
    /\ MakesStep(t, "bits")
    /\ bits' = {} /\ mask' = mask \union bits
    /\ Continue(t, <<>>)
    /\ UNCHANGED <<macro, value, gestures, reengage, armed, latches, calls, stands, touched>>

Clear(t) ==
    /\ MakesStep(t, "clear")
    /\ reengage' = FALSE /\ mask' = IF reengage THEN {} ELSE mask
    /\ Continue(t, <<>>)
    /\ UNCHANGED <<macro, value, gestures, bits, armed, latches, calls, stands, touched>>

\* drainPendingMapping and applyMapping: the macro read once, then parameter
\* by parameter.
TakeMapping(t) ==
    /\ MakesStep(t, "take")
    /\ armed' = FALSE /\ applying' = armed
    /\ Continue(t, IF armed THEN <<[do |-> "land", i |-> 1, v |-> macro]>> ELSE <<>>)
    /\ UNCHANGED <<surface, gestures, bits, reengage, restoring, stopped, calls, stands, touched>>

\* setParam, and on to the next parameter
LandCurve(t) ==
    LET s == Head(doing[t])
        p == Order[s.i]
    IN
    /\ MakesStep(t, "land")
    /\ value' = IF p \in mask THEN value ELSE [value EXCEPT ![p] = s.v]
    /\ Continue(t, IF s.i < Len(Order) THEN <<[s EXCEPT !.i = s.i + 1]>> ELSE <<Do("landed")>>)
    /\ UNCHANGED <<macro, mask, pending, latches, calls, stands, touched>>

Landed(t) ==
    /\ MakesStep(t, "landed")
    /\ applying' = FALSE
    /\ Continue(t, <<>>)
    /\ UNCHANGED <<surface, pending, restoring, stopped, calls, stands, touched>>

\* flushPendingMapping
Flush(t) ==
    /\ MakesStep(t, "tick")
    /\ Continue(t, IF MayDrain THEN DrainSteps ELSE <<>>)
    /\ UNCHANGED <<surface, pending, latches, calls, stands, touched>>

\* ScopedRestore
RaiseGuard(t) ==
    /\ MakesStep(t, "raise")
    /\ restoring' = restoring + 1
    /\ touched' = touched \union InFlight(Other(t))
    /\ Continue(t, <<>>)
    /\ UNCHANGED <<surface, pending, applying, stopped, calls, stands>>

Abort(t) ==
    /\ MakesStep(t, "abort")
    /\ armed' = FALSE
    /\ Continue(t, <<>>)
    /\ UNCHANGED <<surface, gestures, bits, reengage, latches, calls, stands, touched>>

LowerGuard(t) ==
    LET c == Head(doing[t]).state IN
    /\ MakesStep(t, "lower")
    /\ restoring' = restoring - 1
    /\ stands' = [p \in Managed |->
                    IF p \in touched THEN [by |-> "unknown"]
                    ELSE [by |-> "carried", v |-> c.value[p], detached |-> p \in c.mask]]
    /\ Continue(t, <<>>)
    /\ UNCHANGED <<surface, pending, applying, stopped, calls, touched>>

\* The surface a restore lands; the macros' listener arms the mapping.
Adopt(t) ==
    LET c == Head(doing[t]).state IN
    /\ MakesStep(t, "adopt")
    /\ macro' = c.macro /\ value' = c.value
    /\ armed' = (armed \/ c.macro # macro)
    /\ Continue(t, <<>>)
    /\ UNCHANGED <<mask, gestures, bits, reengage, latches, calls, stands, touched>>

Replace(t) ==
    /\ \/ MakesStep(t, "drop bits") /\ bits' = {} /\ UNCHANGED <<mask, reengage>>
       \/ MakesStep(t, "drop ask") /\ reengage' = FALSE /\ UNCHANGED <<mask, bits>>
       \/ MakesStep(t, "replace") /\ mask' = Head(doing[t]).mask /\ UNCHANGED <<bits, reengage>>
    /\ Continue(t, <<>>)
    /\ UNCHANGED <<macro, value, gestures, armed, latches, calls, stands, touched>>

DrainStep(t) ==
    \/ BeginOrEnd(t) \/ HostWrite(t) \/ Listen(t) \/ Stage(t) \/ Soon(t) \/ AskAll(t) \/ Arm(t)
    \/ ArmAll(t) \/ Move(t) \/ TakeBits(t) \/ Clear(t) \/ TakeMapping(t) \/ LandCurve(t) \/ Landed(t)
    \/ Flush(t) \/ RaiseGuard(t) \/ Abort(t) \/ LowerGuard(t) \/ Adopt(t) \/ Replace(t)

DrainNext ==
    \/ \E t \in DrainThreads, p \in Managed : Drag(t, p) \/ Automate(t, p)
    \/ \E t \in DrainThreads : MacroGesture(t) \/ (\E m \in Positions : MacroMove(t, m))
    \/ \E t \in DrainThreads, c \in Slots : Restore(t, c)
    \/ ResetToMacro \/ (\E m \in Positions : FactoryPreset(m))
    \/ Tick \/ StopDraining
    \/ \E t \in DrainThreads : DrainStep(t)

DrainSpec == DrainInit /\ [][DrainNext]_drainVars

-----------------------------------------------------------------------------
\* Nothing is staged, armed or under way.
Settled == /\ \A t \in DrainThreads : Resting(t)
           /\ ~armed /\ ~reengage /\ bits = {}

\* What came last for a parameter has happened to it.
Settles(p) ==
    LET e == stands[p] IN
    CASE e.by = "hand"    -> value[p] = Hand /\ p \in mask
      [] e.by = "macro"   -> value[p] = macro /\ p \notin mask
      [] e.by = "carried" -> value[p] = e.v /\ ((p \in mask) = e.detached)
      [] OTHER            -> TRUE

\* Once the drain has caught up, on whichever threads the calls came: an edit in
\* a drag stands and is detached, unless a macro gesture was waiting or followed,
\* after which the parameter is on the curve and re-engaged; and what a restore
\* carried stands untouched by mappings, edits and gestures from before it, even
\* if ticks fell inside it (drainTick's order, replaceDetachMask, ScopedRestore).
\* Left aside: calls of two threads that overlap in the same parameter, and a
\* tick already past its guard (KI-003).
LastVerbStands == Settled => \A p \in Managed : Settles(p)

\* "A re-engage that the curve-landing pass never sees leaves a parameter reading
\* as re-engaged while it still holds the user's off-curve value": it shall not
\* happen, whenever the macro gesture arrives.
ReengagedIsOnCurve ==
    Settled => \A p \in Managed :
                  stands[p].by \in {"macro", "raced"} /\ p \notin mask => value[p] = macro
=============================================================================
