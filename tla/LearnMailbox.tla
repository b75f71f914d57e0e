---------------------------- MODULE LearnMailbox ----------------------------
(* Learn: how the reference targets of the adaptive engine are measured,    *)
(* restored and saved (AnabasisEngine, AdaptiveEngine, and the ADAPTIVE     *)
(* child of the wrapper).                                                   *)
(*                                                                          *)
(* The message thread clicks Start and Stop, the host loads and saves, the  *)
(* audio thread runs blocks.  A thread's call is the list of the accesses   *)
(* it has still to make.                                                    *)
EXTENDS Integers, SequencesExt

CONSTANTS
    Sessions,       \* numbers of the references that session files carry
    MaxBlocks,      \* bound: blocks
    MaxClicks,      \* bound: clicks
    MaxHostCalls    \* bound: loads and saves

ASSUME LearnAssumption == Sessions \subseteq Nat \ {0} /\ MaxBlocks \in Nat

\* A reference is named by where it comes from: the blocks of a pass, a session
\* (a negative number), or nothing, for kDefaultRefOnset and kDefaultRefTilt.
Neutral == {}
Unlearned  == [onset |-> Neutral, tilt |-> Neutral, learned |-> FALSE]
Of(from) == [onset |-> from, tilt |-> from, learned |-> TRUE]

VARIABLES
    learnCmd,           \* the command word
    adaptivePending,    \* a record is staged
    staged, mirror,     \* the record, and the wrapper's copy of it
    taken,              \* the record as the block has read it
    engine,             \* the references as published, and `learned'
    learnActive, sums, ruined,  \* the pass: its blocks, and a sum not finite
    todo,               \* what each thread has still to do
    asked,              \* what the save, the start or the stop has read
    saved,              \* the last ADAPTIVE child written
    block, clicksLeft, hostCalls,   \* bounds
    clicks,             \* history: the clicks since the last take
    raced,              \* history: a take fell inside a click
    expect,             \* history: the pass and its commit as clicked
    latest,             \* history: the last reference loaded or committed
    mixed               \* history: a block's top ran during the save

mailbox  == <<learnCmd, clicks, raced, expect>>
record   == <<adaptivePending, staged, mirror>>
pass     == <<learnActive, sums, ruined>>
saving   == <<saved, mixed>>
bounds   == <<block, clicksLeft, hostCalls>>
learnVars == <<mailbox, record, taken, engine, pass, todo, asked, saving, bounds, latest>>

Threads == {"message", "host", "audio"}

LearnInit ==
    /\ learnCmd = "none" /\ adaptivePending = FALSE
    /\ staged = Unlearned /\ mirror = Unlearned /\ taken = Unlearned /\ engine = Unlearned
    /\ learnActive = FALSE /\ sums = {} /\ ruined = FALSE
    /\ todo = [t \in Threads |-> <<>>] /\ asked = [t \in Threads |-> "none"]
    /\ saved = Unlearned
    /\ block = 0 /\ clicksLeft = MaxClicks /\ hostCalls = MaxHostCalls
    /\ clicks = <<>> /\ raced = FALSE
    /\ expect = [active |-> FALSE, refs |-> Unlearned, plain |-> TRUE, whole |-> TRUE]
    /\ latest = Unlearned /\ mixed = FALSE

Idle(t)     == todo[t] = <<>>
At(t, step) == ~Idle(t) /\ Head(todo[t]) = step
Then(t, steps) == todo' = [todo EXCEPT ![t] = steps \o Tail(@)]
Enter(t, steps) == Idle(t) /\ todo' = [todo EXCEPT ![t] = steps]

-----------------------------------------------------------------------------
(* The message thread.                                                      *)

\* requestLearnStart composes with the word it has read.
Composed(outstanding) ==
    IF outstanding \in {"commit", "commitThenStart"} THEN "commitThenStart" ELSE "start"

\* The button starts a pass when none runs and stops the one that runs; the
\* least length of a pass is time, which there is none of here.
Click ==
    /\ clicksLeft > 0 /\ clicksLeft' = clicksLeft - 1
    /\ Enter("message", IF learnActive THEN <<"store commit">>
                        ELSE <<"load word", "store start">>)
    /\ UNCHANGED <<mailbox, record, taken, engine, pass, asked, saving, block, hostCalls, latest>>

LoadWord ==
    /\ At("message", "load word") /\ Then("message", <<>>)
    /\ asked' = [asked EXCEPT !["message"] = learnCmd]
    /\ UNCHANGED <<mailbox, record, taken, engine, pass, saving, bounds, latest>>

StoreWord ==
    /\ \/ /\ At("message", "store start")
          /\ learnCmd' = Composed(asked["message"]) /\ clicks' = Append(clicks, "start")
       \/ /\ At("message", "store commit")
          /\ learnCmd' = "commit" /\ clicks' = Append(clicks, "stop")
    /\ Then("message", <<>>)
    /\ UNCHANGED <<raced, expect, record, taken, engine, pass, asked, saving, bounds, latest>>

-----------------------------------------------------------------------------
(* The host.                                                                *)

Only(wanted, steps) == IF wanted THEN steps ELSE <<>>

\* Mutant: the flag is up before the record is there.
FlagFirst(ref) == <<"raise">> \o Only(ref.learned, <<"stage onset", "stage tilt">>)
                              \o <<"stage learned">>

\* restoreLearnedTargets, payload before flag; a record without references has
\* no payload.
StageSteps(ref) == Only(ref.learned, <<"stage onset", "stage tilt">>)
                     \o <<"stage learned", "raise">>

\* setStateInformation's last part.
LoadReference(ref) ==
    /\ hostCalls > 0 /\ hostCalls' = hostCalls - 1
    /\ mirror' = ref
    /\ Enter("host", StageSteps(ref))
    /\ UNCHANGED <<mailbox, adaptivePending, staged, taken, engine, pass, asked, saving, block,
                   clicksLeft, latest>>

StageField ==
    /\ \/ At("host", "stage onset") /\ staged' = [staged EXCEPT !.onset = mirror.onset]
       \/ At("host", "stage tilt") /\ staged' = [staged EXCEPT !.tilt = mirror.tilt]
       \/ At("host", "stage learned") /\ staged' = [staged EXCEPT !.learned = mirror.learned]
    /\ Then("host", <<>>)
    /\ UNCHANGED <<mailbox, adaptivePending, mirror, taken, engine, pass, asked, saving, bounds,
                   latest>>

Raise ==
    /\ At("host", "raise") /\ Then("host", <<>>)
    /\ adaptivePending' = TRUE
    /\ latest' = mirror
    /\ UNCHANGED <<mailbox, staged, mirror, taken, engine, pass, asked, saving, bounds>>

\* getStateInformation asks once, then reads the mirror or the engine.
BeginSave ==
    /\ hostCalls > 0 /\ hostCalls' = hostCalls - 1
    /\ Enter("host", <<"ask", "save learned", "save onset", "save tilt", "write">>)
    /\ mixed' = ~Idle("audio")
    /\ UNCHANGED <<mailbox, record, taken, engine, pass, asked, saved, block, clicksLeft, latest>>

\* Mutant: the engine is asked whatever is staged.
EngineAlways == FALSE

\* adaptiveRestorePending
RestoreStaged == adaptivePending

Ask ==
    /\ At("host", "ask") /\ Then("host", <<>>)
    /\ asked' = [asked EXCEPT !["host"] = IF RestoreStaged THEN "mirror" ELSE "engine"]
    /\ saved' = Unlearned
    /\ UNCHANGED <<mailbox, record, taken, engine, pass, mixed, bounds, latest>>

SaveField ==
    LET from == IF asked["host"] = "mirror" THEN mirror ELSE engine IN
    /\ \/ At("host", "save learned") /\ saved' = [saved EXCEPT !.learned = from.learned]
       \/ At("host", "save onset") /\ saved' = IF saved.learned THEN [saved EXCEPT !.onset = from.onset] ELSE saved
       \/ At("host", "save tilt") /\ saved' = IF saved.learned THEN [saved EXCEPT !.tilt = from.tilt] ELSE saved
    /\ Then("host", <<>>)
    /\ UNCHANGED <<mailbox, record, taken, engine, pass, asked, mixed, bounds, latest>>

Write ==
    /\ At("host", "write") /\ Then("host", <<>>)
    /\ UNCHANGED <<mailbox, record, taken, engine, pass, asked, saving, bounds, latest>>

-----------------------------------------------------------------------------
(* The audio thread.                                                        *)

Block ==
    /\ block < MaxBlocks /\ block' = block + 1
    /\ Enter("audio", <<"take record", "take word", "sanitise", "finish">>)
    /\ mixed' = TRUE
    /\ UNCHANGED <<mailbox, record, taken, engine, pass, asked, saved, clicksLeft, hostCalls, latest>>

TakeRecord ==
    /\ At("audio", "take record")
    /\ adaptivePending' = FALSE
    /\ Then("audio", IF adaptivePending THEN <<"read learned">> ELSE <<>>)
    /\ UNCHANGED <<mailbox, staged, mirror, taken, engine, pass, asked, saving, bounds, latest>>

Publish == <<"publish onset", "publish tilt", "publish learned">>

ReadRecord ==
    /\ \/ /\ At("audio", "read learned")
          /\ taken' = [Unlearned EXCEPT !.learned = staged.learned]
          /\ Then("audio", IF staged.learned THEN <<"read onset", "read tilt">> \o Publish ELSE Publish)
       \/ At("audio", "read onset") /\ taken' = [taken EXCEPT !.onset = staged.onset] /\ Then("audio", <<>>)
       \/ At("audio", "read tilt") /\ taken' = [taken EXCEPT !.tilt = staged.tilt] /\ Then("audio", <<>>)
    /\ UNCHANGED <<mailbox, record, engine, pass, asked, saving, bounds, latest>>

\* publishRefs and then the flag, for a restore and for a commit; what a commit
\* publishes is the latest, unless a newer record waits.
PublishField ==
    /\ \/ At("audio", "publish onset") /\ engine' = [engine EXCEPT !.onset = taken.onset] /\ UNCHANGED latest
       \/ At("audio", "publish tilt") /\ engine' = [engine EXCEPT !.tilt = taken.tilt] /\ UNCHANGED latest
       \/ /\ At("audio", "publish learned")
          /\ engine' = [engine EXCEPT !.learned = taken.learned]
          /\ latest' = IF taken.onset \subseteq 1..MaxBlocks /\ taken.learned /\ ~adaptivePending THEN taken ELSE latest
    /\ Then("audio", <<>>)
    /\ UNCHANGED <<mailbox, record, taken, pass, asked, saving, bounds>>

\* Mutant: the new pass begins before the old one is committed.
StartThenCommit(word) == Only(word \in {"start", "commitThenStart"}, <<"start">>)
                           \o Only(word \in {"commit", "commitThenStart"}, <<"commit">>)

\* What a command makes the block do.
ActsOf(word) == Only(word \in {"commit", "commitThenStart"}, <<"commit">>)
                  \o Only(word \in {"start", "commitThenStart"}, <<"start">>)

\* What the clicks ask for, one by one: a stop before any start commits the
\* pass, and the last click decides whether one runs from here on.
TakeWord ==
    /\ At("audio", "take word")
    /\ learnCmd' = "none"
    /\ Then("audio", ActsOf(learnCmd) \o <<"acted">>)
    /\ clicks' = <<>>
    /\ raced' = (At("message", "store start") \/ At("message", "store commit"))
    /\ expect' = [active |-> IF clicks = <<>> THEN learnActive ELSE Last(clicks) = "start",
                  refs   |-> IF clicks # <<>> /\ Head(clicks) = "stop" /\ sums # {} /\ ~ruined
                             THEN Of(sums) ELSE engine,
                  plain  |-> clicks = <<>> \/ Head(clicks) = "stop" \/ "stop" \notin Range(clicks),
                  whole  |-> ~raced]
    /\ UNCHANGED <<record, taken, engine, pass, asked, saving, bounds, latest>>

\* commitLearn: an empty or a ruined pass moves nothing.
CommitLearn ==
    /\ At("audio", "commit")
    /\ learnActive' = FALSE
    /\ IF sums # {} /\ ~ruined
         THEN taken' = Of(sums) /\ Then("audio", Publish)
         ELSE UNCHANGED taken /\ Then("audio", <<>>)
    /\ UNCHANGED <<mailbox, record, engine, sums, ruined, asked, saving, bounds, latest>>

StartLearn ==
    /\ At("audio", "start") /\ Then("audio", <<>>)
    /\ learnActive' = TRUE /\ sums' = {} /\ ruined' = FALSE
    /\ UNCHANGED <<mailbox, record, taken, engine, asked, saving, bounds, latest>>

Acted ==
    /\ At("audio", "acted") /\ Then("audio", <<>>)
    /\ UNCHANGED <<mailbox, record, taken, engine, pass, asked, saving, bounds, latest>>

\* sanitiseState cancels a ruined pass, and so does the reset of a prepare.
Cancel == learnActive' = FALSE /\ sums' = {} /\ ruined' = FALSE

Sanitise ==
    /\ At("audio", "sanitise") /\ Then("audio", <<>>)
    /\ IF ruined THEN Cancel ELSE UNCHANGED pass
    /\ UNCHANGED <<mailbox, record, taken, engine, asked, saving, bounds, latest>>

\* finishBlock measures an audible block; an overflow ruins the sums.
FinishBlock ==
    /\ At("audio", "finish") /\ Then("audio", <<>>)
    /\ \/ UNCHANGED pass
       \/ learnActive /\ sums' = sums \union {block} /\ ruined' \in {ruined, TRUE} /\ UNCHANGED learnActive
    /\ UNCHANGED <<mailbox, record, taken, engine, asked, saving, bounds, latest>>

ResetPass ==
    /\ Idle("audio") /\ learnActive
    /\ Cancel
    /\ UNCHANGED <<mailbox, record, taken, engine, todo, asked, saving, bounds, latest>>

LearnNext ==
    \/ Click \/ LoadWord \/ StoreWord
    \/ (\E s \in Sessions : LoadReference(Of({-s}))) \/ LoadReference(Unlearned) \/ StageField \/ Raise
    \/ BeginSave \/ Ask \/ SaveField \/ Write
    \/ Block \/ TakeRecord \/ ReadRecord \/ PublishField \/ TakeWord \/ CommitLearn
    \/ StartLearn \/ Acted \/ Sanitise \/ FinishBlock \/ ResetPass

LearnSpec == LearnInit /\ [][LearnNext]_learnVars

-----------------------------------------------------------------------------
\* What a block did with its command is what the clicks before it asked for.
Obeyed == learnActive = expect.active /\ engine = expect.refs

\* However clicks and blocks interleave, a finished pass is committed although a
\* new one is begun in the same block, and a pass that is begun runs; empty,
\* ruined and cancelled passes move nothing.  Left aside: a start and a stop
\* within one block, which commit the pass before (requestLearnStart: "start->stop
\* collapses to a bare commit"), and clicks that a take falls inside.
LearnFollowsClicks == At("audio", "acted") /\ expect.plain /\ expect.whole => Obeyed

\* "The command the writer composed arrives whole and exactly once": also when
\* the take falls between the reading and the storing of the word.
CommandArrivesOnce == At("audio", "acted") /\ expect.plain => Obeyed

\* A save that no block runs into writes the last reference that was loaded or
\* committed, both halves of it, and none when that session never learned; be the
\* load consumed, torn by a block that read it half-staged, or still waiting
\* (getStateInformation: "must not lose, or resurrect, a learned reference").
SavedIsLatest == At("host", "write") /\ ~mixed => saved = latest
=============================================================================
