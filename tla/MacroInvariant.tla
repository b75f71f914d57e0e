--------------------------- MODULE MacroInvariant ---------------------------
(* The inductive invariant behind LastVerbStands: how far each thread's     *)
(* call has come, what a bulk change has brought about so far for the       *)
(* parameters nobody else touches, and what the drain still owes to every   *)
(* other parameter.                                                         *)
EXTENDS MacroDrain

Plain == {"soon", "ask", "arm", "bits", "clear", "take", "landed", "drop bits",
          "drop ask", "arm all", "tick", "abort", "raise"}

MacroSteps ==
    [do : Plain] \union [do : {"begin", "listen", "stage", "end"}, p : Managed]
      \union [do : {"write"}, p : Managed, v : {Hand}]
      \union [do : {"move"}, m : Positions]
      \union [do : {"land"}, i : 1..Len(Order), v : Positions]
      \union [do : {"adopt", "lower"}, state : States]
      \union [do : {"replace"}, mask : SUBSET Managed]
Calls == Seq(MacroSteps)

Standings == [by : {"unknown", "hand", "macro", "raced"}]
               \union [by : {"carried"}, v : Values, detached : BOOLEAN]

MacroType ==
    /\ macro \in Positions /\ value \in [Managed -> Values] /\ mask \subseteq Managed
    /\ bits \subseteq Managed /\ reengage \in BOOLEAN /\ armed \in BOOLEAN
    /\ restoring \in Nat
    /\ doing \in [DrainThreads -> Calls] /\ stands \in [Managed -> Standings]

\* The calls that have a step to make, and then one of the given rests.
First(step, rests) == {s \in Calls : s # <<>> /\ Head(s) = step /\ Tail(s) \in rests}

Over == {<<>>}

\* What is left of a parameter's drag or automation, back to front.
Ending(p)    == First(DoTo("end", p), Over)
Closing      == {s \in Calls : s = <<>> \/ \E p \in Managed : s \in Ending(p)}
Listening(p) == First(DoTo("listen", p), Over \union Ending(p))
Writing(p)   == First([do |-> "write", p |-> p, v |-> Hand], Listening(p))
Beginning(p) == First(DoTo("begin", p), Writing(p))
Hurrying     == First(Do("soon"), Closing)
Staging(p)   == First(DoTo("stage", p), Hurrying)

\* Of a macro gesture or move, and of a drain.
Arming    == First(Do("arm"), Over \union Hurrying)
Asking    == First(Do("ask"), Arming)
Moving(m) == First([do |-> "move", m |-> m], Arming)
Taking    == First(Do("take"), Over)
Clearing  == First(Do("clear"), Closing \union Taking)
Bringing  == First(Do("bits"), Clearing)
Landing(i, v) == First([do |-> "land", i |-> i, v |-> v], Over)
Finishing == First(Do("landed"), Over)

\* Of a reset, and of a restore, after which a preset lands its curve.
Ticking    == First(Do("tick"), Over)
ArmingAll  == First(Do("arm all"), Ticking)
RelandAsk  == First(Do("drop ask"), ArmingAll)
RelandBits == First(Do("drop bits"), RelandAsk)
ResetMask  == First([do |-> "replace", mask |-> {}], RelandBits)
ResetAsk   == First(Do("drop ask"), ResetMask)
ResetBits  == First(Do("drop bits"), ResetAsk)

Afterwards(t, c) == IF t = "message" /\ c.mask = {} THEN Over \union RelandBits ELSE Over
Lowering(t, c)   == First([do |-> "lower", state |-> c], Afterwards(t, c))
Aborting(t, c)   == First(Do("abort"), Lowering(t, c))
Replacing(t, c)  == First([do |-> "replace", mask |-> c.mask], Aborting(t, c))
DroppingAsk(t, c)  == First(Do("drop ask"), Replacing(t, c))
DroppingBits(t, c) == First(Do("drop bits"), DroppingAsk(t, c))
Adopting(t, c)     == First([do |-> "adopt", state |-> c], DroppingBits(t, c))
Raising(t, c)      == First(Do("raise"), Adopting(t, c))

-----------------------------------------------------------------------------
(* How far the calls have come.                                             *)

\* The calls with no step left that bears on a parameter.
Sparing(t, p) ==
    {s \in Calls :
        \/ s \in Closing
        \/ \E q \in Managed \ {p} : s \in Beginning(q) \union Writing(q) \union Listening(q)
        \/ t = "other" /\ (s \in Hurrying \/ \E q \in Managed \ {p} : s \in Staging(q))}

\* For a parameter no other call touches, a restore has made its first n steps.
Carries(t, c, n) ==
    \A p \in Managed \ touched :
        /\ doing[Other(t)] \in Sparing(Other(t), p)
        /\ n > 1 => value[p] = c.value[p]
        /\ n > 2 => p \notin bits
        /\ n > 3 => ~reengage
        /\ n > 4 => (p \in mask) = (p \in c.mask)
        /\ n > 5 => ~armed

RestoreStep(t, c) ==
    \/ doing[t] \in Raising(t, c)
    \/ doing[t] \in Adopting(t, c) /\ Carries(t, c, 1)
    \/ doing[t] \in DroppingBits(t, c) /\ Carries(t, c, 2)
    \/ doing[t] \in DroppingAsk(t, c) /\ Carries(t, c, 3)
    \/ doing[t] \in Replacing(t, c) /\ Carries(t, c, 4)
    \/ doing[t] \in Aborting(t, c) /\ Carries(t, c, 5)
    \/ doing[t] \in Lowering(t, c) /\ Carries(t, c, 6)

\* And a reset, which is the message thread's.
Resets(n) ==
    \A p \in Managed \ touched :
        /\ doing["other"] \in Sparing("other", p)
        /\ n > 1 => p \notin bits
        /\ n > 2 => ~reengage
        /\ n > 3 => p \notin mask

ResetStep ==
    \/ doing["message"] \in ResetBits /\ Resets(1)
    \/ doing["message"] \in ResetAsk /\ Resets(2)
    \/ doing["message"] \in ResetMask /\ Resets(3)
    \/ doing["message"] \in RelandBits \union RelandAsk \union ArmingAll /\ Resets(4)

\* The calls of one parameter, and of the macro; and the drain's.
Hosting ==
    {s \in Calls :
        \/ s \in Closing \union Hurrying \union Asking \union Arming
        \/ \E p \in Managed : s \in Beginning(p) \union Writing(p) \union Listening(p) \union Staging(p)
        \/ \E m \in Positions : s \in Moving(m)}

Draining ==
    {s \in Calls :
        \/ s \in Ticking \union Bringing \union Clearing \union Taking \union Finishing
        \/ \E i \in 1..Len(Order), v \in Positions : s \in Landing(i, v)}

CallStep(t) ==
    \/ doing[t] \in Hosting
    \/ \E c \in States : RestoreStep(t, c)
    \/ t = "message" /\ (doing[t] \in Draining \/ ResetStep)

CallInv == \A t \in DrainThreads : CallStep(t)

\* The restores that are past their guard are the ones counted.
Guarded(t) ==
    {s \in Calls :
        \E c \in States : s \in Adopting(t, c) \union DroppingBits(t, c) \union DroppingAsk(t, c)
                                  \union Replacing(t, c) \union Aborting(t, c) \union Lowering(t, c)}
Guards(t) == IF doing[t] \in Guarded(t) THEN 1 ELSE 0
GuardInv == restoring = Guards("message") + Guards("other")

-----------------------------------------------------------------------------
(* What the drain owes.                                                     *)

Makes(t, names) == doing[t] # <<>> /\ Head(doing[t]).do \in names

\* A bulk change is under way, which will say anew what stands.
Bulk     == {"raise", "adopt", "drop bits", "drop ask", "replace", "abort", "lower", "arm all"}
Changing == \E t \in DrainThreads : Makes(t, Bulk)

\* A mapping is armed, or is about to be; or one is landing, with the macro as it is.
Coming   == armed \/ \E t \in DrainThreads : Makes(t, {"ask", "arm", "move"})
Lands(p) == /\ Makes("message", {"land"})
            /\ \E j \in Head(doing["message"]).i..Len(Order) : Order[j] = p
Follows(p) == IF Lands(p) THEN Head(doing["message"]).v = macro ELSE value[p] = macro

\* An edit is in the mask, or among the bits that the next drain takes first.
HandOwed(p) ==
    /\ ~reengage /\ value[p] = Hand /\ p \in mask \union bits
    /\ Makes("message", {"clear", "take", "land", "landed"}) => p \in mask

\* A gesture waits for a drain that has not mapped yet, or has re-engaged all.
MacroOwed(p) ==
    \/ /\ reengage /\ Coming
       /\ ~Makes("message", {"take", "land", "landed"})
       /\ Makes("message", {"clear"}) => p \notin bits
    \/ /\ ~reengage /\ p \notin mask \union bits
       /\ Coming \/ Follows(p)

CarriedOwed(p) ==
    /\ value[p] = stands[p].v /\ (p \in mask) = stands[p].detached
    /\ p \notin bits /\ ~reengage /\ ~armed /\ ~Lands(p)

Owed(p) ==
    /\ stands[p].by = "hand" => HandOwed(p)
    /\ stands[p].by = "macro" => MacroOwed(p)
    /\ stands[p].by = "carried" => CarriedOwed(p)

OwedInv == Changing \/ \A p \in Managed : Owed(p)

MacroInv == MacroType /\ CallInv /\ GuardInv /\ OwedInv
=============================================================================
