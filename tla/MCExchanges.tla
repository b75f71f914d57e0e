----------------------------- MODULE MCExchanges -----------------------------
(* Four exchanges between threads or programs, and one between a glide and *)
(* the frames in flight under it.  They share no variable; a run explores  *)
(* one of them, chosen at the start.                                       *)
(*   macro    MacroDrain: three calls of any kind on two threads, over two *)
(*            managed parameters and two positions of the macro.           *)
(*   learn    LearnMailbox: three clicks, two blocks, two loads or saves.  *)
(*   publish  FramePublication: four publications.                         *)
(*   clamp    ClampWindows: a six-tap detector and an attack of three      *)
(*            frames, the ceiling moved twice, once in mid-glide, with two *)
(*            loud segments in flight.                                     *)
(*   presets  PresetBank: two factory presets, one of them with the name   *)
(*            of a file, a file whose name reads as a path, and three      *)
(*            edits, saves, session loads or changes on disk.              *)
EXTENDS MacroDrain, LearnMailbox, ClampWindows, FramePublication, PresetBank, TLC

CONSTANT Parts      \* which of the five to explore

VARIABLE part

MCOrder == <<"g", "t">>

\* A restore brings an edited parameter beside one on the curve, or the
\* curve's other end with both parameters on it.
MCSlots == {[macro |-> 1, mask |-> {"g"}, value |-> [g |-> -1, t |-> 0]],
            [macro |-> 0, mask |-> {}, value |-> [g |-> 1, t |-> 1]]}

\* A reading that no ceiling limits, and one that the lower ceilings do.
MCLevels   == {-2, -1, 0}
MCReadings == {-2, 0}

MCParams == {"knob", "ceiling", "freeze"}
MCRaws   == {0, 1, 2}

\* The middle value of a discrete parameter snaps to the one above it.
MCSnap == [v \in MCRaws |-> IF v = 1 THEN 2 ELSE v]

MCFactory ==
    <<[name |-> "Default", sound |-> [p \in MCParams |-> 0]],
      [name |-> "Loud", sound |-> [p \in MCParams |-> IF p = "knob" THEN 2 ELSE 0]]>>

Preset(m, v) == [kind |-> "preset", mask |-> m, value |-> v]
MCOnDisk  == <<"Presets", "Loud">> :> Preset(FALSE, [knob |-> 0, ceiling |-> 0])

\* A file with an unusable number and a freeze, and a complete one.
MCForeign == {Preset(TRUE, [knob |-> -1, freeze |-> 2]),
              Preset(FALSE, [knob |-> 2, ceiling |-> 2])}

MCSortedNames == <<"Loud", "~x">>

exchangeVars == <<part, drainVars, learnVars, pubVars, clampVars, bankVars>>

-----------------------------------------------------------------------------
\* The variables of a part that is not explored: no call in it has a step to
\* make, and no frame of it has left.
Off == "off"
MacroOff ==
    /\ macro = Off /\ value = Off /\ mask = Off /\ gestures = Off
    /\ bits = Off /\ reengage = Off /\ armed = TRUE /\ applying = Off
    /\ restoring = Off /\ stopped = Off /\ calls = Off
    /\ doing = [t \in DrainThreads |-> <<>>] /\ stands = Off /\ touched = Off
LearnOff ==
    /\ learnCmd = Off /\ adaptivePending = Off /\ staged = Off
    /\ mirror = Off /\ taken = Off /\ engine = Off /\ learnActive = Off
    /\ sums = Off /\ ruined = Off /\ todo = [t \in Threads |-> <<>>] /\ asked = Off
    /\ saved = Off /\ block = Off /\ clicksLeft = Off /\ hostCalls = Off
    /\ clicks = Off /\ raced = Off /\ expect = Off /\ latest = Off
    /\ mixed = Off
BankOff ==
    /\ sound = Off /\ detachMask = Off /\ locked = Off /\ name = Off
    /\ selection = None /\ presetBaseline = Off /\ menu = <<>> /\ session = Off
    /\ disk = [f \in Files |-> NoFile] /\ source = None /\ asLanded = FALSE
    /\ acts = 0
ClampOff ==
    /\ live = Off /\ target = Off /\ ceilings = Off /\ segments = Off
    /\ requirement = Off /\ need = Off /\ forwardMin = Off /\ gain = Off
    /\ primed = Off /\ emitted = FALSE /\ moves = Off

ExchangesInit ==
    /\ part \in Parts
    /\ IF part = "macro"   THEN DrainInit       ELSE MacroOff
    /\ IF part = "learn"   THEN LearnInit       ELSE LearnOff
    /\ IF part = "clamp"   THEN ClampInit       ELSE ClampOff
    /\ IF part = "presets" THEN BankInit   ELSE BankOff
    /\ PubInit

ExchangesNext ==
    /\ UNCHANGED part
    /\ IF part = "macro"   THEN DrainNext   ELSE UNCHANGED drainVars
    /\ IF part = "learn"   THEN LearnNext       ELSE UNCHANGED learnVars
    /\ IF part = "publish" THEN PubNext     ELSE UNCHANGED pubVars
    /\ IF part = "clamp"   THEN ClampNext       ELSE UNCHANGED clampVars
    /\ IF part = "presets" THEN BankNext   ELSE UNCHANGED bankVars

ExchangesSpec == ExchangesInit /\ [][ExchangesNext]_exchangeVars
=============================================================================
