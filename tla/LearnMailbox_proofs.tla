------------------------ MODULE LearnMailbox_proofs ------------------------
(***************************************************************************)
(* What the clicks ask for is what the blocks do, and a save writes the    *)
(* last reference, for any number of clicks, blocks, loads and saves.      *)
(***************************************************************************)
EXTENDS LearnMailbox, SequenceTheorems, TLAPS

\* The names of the steps.
Names == {"load word", "store start", "store commit",
          "stage onset", "stage tilt", "stage learned", "raise",
          "ask", "save learned", "save onset", "save tilt", "write",
          "take record", "take word", "sanitise", "finish",
          "read learned", "read onset", "read tilt",
          "publish onset", "publish tilt", "publish learned",
          "commit", "start", "acted"}
Steps == Seq(Names)
Verbs == {"start", "stop"}
Refs  == [onset : SUBSET Int, tilt : SUBSET Int, learned : BOOLEAN]
Loaded == {Unlearned} \cup {Of({-s}) : s \in Sessions}

\* The calls that have a step to make, and then one of the given rests.
First(step, rests) == {s \in Steps : s # <<>> /\ Head(s) = step /\ Tail(s) \in rests}

Ended == {<<>>}

\* What the audio thread may still have to do, back to front.
Finishing  == First("finish", Ended)
Sanitising == First("sanitise", Finishing)
Acting     == First("acted", Sanitising)
Starting   == First("start", Acting)
Wording    == First("take word", Sanitising)
PublishingLearned(rests) == First("publish learned", rests)
PublishingTilt(rests)    == First("publish tilt", PublishingLearned(rests))
PublishingOnset(rests)   == First("publish onset", PublishingTilt(rests))
ReadingTilt    == First("read tilt", PublishingOnset(Wording))
ReadingOnset   == First("read onset", ReadingTilt)
ReadingLearned == First("read learned", Wording)
Taking         == First("take record", Wording)

\* A command that commits ends there, or restarts.
After(restarts) == IF restarts THEN Starting ELSE Acting
Committing(restarts) == First("commit", After(restarts))

\* What a load and a save may still have to do, back to front.
Raising        == First("raise", Ended)
StagingLearned == First("stage learned", Raising)
StagingTilt    == First("stage tilt", StagingLearned)
StagingOnset   == First("stage onset", StagingTilt)
Staging        == StagingOnset \cup StagingTilt \cup StagingLearned \cup Raising
Writing        == First("write", Ended)
SavingTilt     == First("save tilt", Writing)
SavingOnset    == First("save onset", SavingTilt)
SavingLearned  == First("save learned", SavingOnset)
Asking         == First("ask", SavingLearned)

\* And a click.
StoringStart == First("store start", Ended)
StoringStop  == First("store commit", Ended)
LoadingWord  == First("load word", StoringStart)

-----------------------------------------------------------------------------
(* The invariant.                                                          *)

TypeInv ==
    /\ todo \in [Threads -> Steps] /\ DOMAIN asked = Threads
    /\ {staged, taken, engine, saved, latest} \subseteq Refs /\ mirror \in Loaded
    /\ {adaptivePending, learnActive, ruined, raced, mixed} \subseteq BOOLEAN
    /\ clicks \in Seq(Verbs)
    /\ expect \in [active : BOOLEAN, refs : Refs, plain : BOOLEAN, whole : BOOLEAN]
    /\ sums \subseteq 1..MaxBlocks /\ block \in 0..MaxBlocks
    /\ todo["audio"] # <<>> => block > 0

\* The word that the clicks since the last take compose.
WordOf(cs) ==
    IF cs = <<>> THEN "none"
    ELSE IF Last(cs) = "stop" THEN "commit"
    ELSE IF "stop" \in Range(cs) THEN "commitThenStart" ELSE "start"

\* The word is the clicks', and a start that has read it has read them all,
\* unless a take fell in between.
ClickInv ==
    /\ todo["message"] \in Ended \cup LoadingWord \cup StoringStart \cup StoringStop
    /\ ~raced => /\ learnCmd = WordOf(clicks)
                 /\ todo["message"] \in StoringStart => asked["message"] = learnCmd

\* What was loaded carries both references or none.
Normal(ref) == ref.learned \/ ref = Unlearned

\* The record staged is the one loaded, as far as a reader looks.
Agrees == /\ staged.learned = mirror.learned
          /\ mirror.learned => staged.onset = mirror.onset /\ staged.tilt = mirror.tilt

\* Where a load has got to; and a save that no block runs into has asked for the
\* last reference and copied it so far.
From == IF asked["host"] = "mirror" THEN mirror ELSE engine

Copied(step) ==
    \/ step = "ask"
    \/ /\ From = latest
       /\ \/ step = "learned" /\ saved = Unlearned
          \/ step = "onset" /\ saved = [Unlearned EXCEPT !.learned = latest.learned]
          \/ step = "tilt" /\ saved = IF latest.learned THEN [latest EXCEPT !.tilt = Neutral] ELSE Unlearned
          \/ step = "write" /\ saved = latest

Unmixed(step) == ~mixed => todo["audio"] = <<>> /\ Copied(step)

HostInv ==
    \/ todo["host"] \in Ended /\ Agrees
    \/ todo["host"] \in StagingOnset /\ mirror.learned
    \/ todo["host"] \in StagingTilt /\ mirror.learned /\ staged.onset = mirror.onset
    \/ /\ todo["host"] \in StagingLearned
       /\ mirror.learned => staged.onset = mirror.onset /\ staged.tilt = mirror.tilt
    \/ todo["host"] \in Raising /\ Agrees
    \/ todo["host"] \in Asking /\ Agrees /\ Unmixed("ask")
    \/ todo["host"] \in SavingLearned /\ Agrees /\ Unmixed("learned")
    \/ todo["host"] \in SavingOnset /\ Agrees /\ Unmixed("onset")
    \/ todo["host"] \in SavingTilt /\ Agrees /\ Unmixed("tilt")
    \/ todo["host"] \in Writing /\ Agrees /\ Unmixed("write")

\* No newer record is on its way than the block has taken.
Known == todo["host"] \notin Staging /\ ~adaptivePending

WaitInv ==
    /\ Normal(latest)
    /\ todo["host"] \notin Staging /\ adaptivePending => mirror = latest

\* The clicks of the command in progress are ones that the command must follow.
Fair == expect.plain /\ expect.whole

\* The references as the publication of a record, or of a commit, leaves them.
Committed == taken.learned /\ taken.onset \subseteq 1..MaxBlocks

CommitStep(restarts) ==
    /\ Fair => expect.active = restarts
    /\ \/ /\ todo["audio"] \in Committing(restarts)
          /\ Known => engine = latest
          /\ Fair => expect.refs = IF sums # {} /\ ~ruined THEN Of(sums) ELSE engine
       \/ /\ Committed /\ learnActive = FALSE /\ (Fair => taken = expect.refs)
          /\ \/ todo["audio"] \in PublishingOnset(After(restarts))
             \/ todo["audio"] \in PublishingTilt(After(restarts)) /\ engine.onset = taken.onset
             \/ /\ todo["audio"] \in PublishingLearned(After(restarts))
                /\ engine.onset = taken.onset /\ engine.tilt = taken.tilt

\* What the block has read and published of a record.
RecordStep ==
    \/ todo["audio"] \in ReadingLearned /\ (Known => mirror = latest)
    \/ /\ todo["audio"] \in ReadingOnset
       /\ Known => mirror = latest /\ latest.learned /\ taken.learned
    \/ /\ todo["audio"] \in ReadingTilt
       /\ Known => mirror = latest /\ latest.learned /\ taken.learned /\ taken.onset = latest.onset
    \/ todo["audio"] \in PublishingOnset(Wording) /\ (Known => taken = latest)
    \/ /\ todo["audio"] \in PublishingTilt(Wording)
       /\ Known => taken = latest /\ engine.onset = latest.onset
    \/ /\ todo["audio"] \in PublishingLearned(Wording)
       /\ Known => taken = latest /\ engine.onset = latest.onset /\ engine.tilt = latest.tilt

\* With no reading and no publication under way the engine has the last reference.
RestStep ==
    /\ todo["audio"] \in Ended \cup Taking \cup Wording \cup Sanitising \cup Finishing
    /\ Known => engine = latest

StartStep == /\ todo["audio"] \in Starting /\ (Known => engine = latest)
             /\ Fair => expect.active = TRUE /\ engine = expect.refs

EndStep == /\ todo["audio"] \in Acting /\ (Known => engine = latest)
           /\ Fair => Obeyed

AudioInv == \/ RestStep \/ RecordStep \/ (\E restarts \in BOOLEAN : CommitStep(restarts))
            \/ StartStep \/ EndStep

LearnInv == TypeInv /\ ClickInv /\ HostInv /\ WaitInv /\ AudioInv

-----------------------------------------------------------------------------
(* Calls as sequences.                                                     *)

LEMMA Fronts ==
    ASSUME NEW t \in Steps, NEW a \in Names
    PROVE  /\ <<a>> \o t \in Steps /\ <<a>> \o t # <<>>
           /\ Head(<<a>> \o t) = a /\ Tail(<<a>> \o t) = t
<1>1. <<a>> \in Seq(Names) /\ Len(<<a>>) = 1 /\ <<a>>[1] = a
  OBVIOUS
<1> DEFINE s == <<a>> \o t
<1>2. /\ s \in Seq(Names) /\ Len(s) = 1 + Len(t) /\ Len(t) \in Nat
      /\ \A i \in 1..1 + Len(t) : s[i] = IF i <= 1 THEN <<a>>[i] ELSE t[i - 1]
  BY <1>1, ConcatProperties, LenProperties DEF Steps
<1> HIDE DEF s
<1>3. s # <<>> /\ Head(s) = a
  BY <1>1, <1>2
<1>4. Tail(s) \in Seq(Names) /\ Len(Tail(s)) = Len(t)
      /\ \A i \in 1..Len(t) : Tail(s)[i] = s[i + 1]
  BY <1>2, <1>3, HeadTailProperties
<1>5. \A i \in 1..Len(t) : Tail(s)[i] = t[i]
  BY <1>2, <1>4
<1>6. Tail(s) = t
  BY <1>4, <1>5, SeqEqual DEF Steps
<1> QED
  BY <1>2, <1>3, <1>6 DEF s, Steps

LEMMA Joined ==
    ASSUME NEW s \in Steps, NEW t \in Steps, NEW u \in Steps
    PROVE  (s \o t) \o u = s \o (t \o u)
BY ConcatAssociative DEF Steps

LEMMA JoinedIsSteps ==
    ASSUME NEW s \in Steps, NEW t \in Steps
    PROVE  s \o t \in Steps
BY ConcatProperties DEF Steps

LEMMA NoFront ==
    ASSUME NEW t \in Steps
    PROVE  <<>> \o t = t
BY ConcatEmptySeq DEF Steps

LEMMA Pair ==
    ASSUME NEW a \in Names, NEW b \in Names
    PROVE  <<a, b>> = <<a>> \o <<b>> /\ {<<>>, <<a>>, <<b>>, <<a, b>>} \subseteq Steps
<1> DEFINE s == <<a, b>>
           t == <<a>> \o <<b>>
<1>1. s \in Seq(Names) /\ Len(s) = 2 /\ s[1] = a /\ s[2] = b
  OBVIOUS
<1>2. t \in Seq(Names) /\ Len(t) = 2 /\ t[1] = a /\ t[2] = b
  OBVIOUS
<1> HIDE DEF s, t
<1>3. \A i \in 1..Len(s) : s[i] = t[i]
  BY <1>1, <1>2
<1>4. s = t
  BY <1>1, <1>2, <1>3, SeqEqual
<1>5. <<>> \in Seq(Names) /\ <<a>> \in Seq(Names) /\ <<b>> \in Seq(Names)
  OBVIOUS
<1> QED
  BY <1>1, <1>4, <1>5 DEF Steps, s, t

LEMMA Triple ==
    ASSUME NEW a \in Names, NEW b \in Names, NEW c \in Names
    PROVE  <<a, b, c>> = <<a>> \o <<b, c>>
<1> DEFINE s == <<a, b, c>>
           t == <<a>> \o <<b, c>>
<1>1. s \in Seq(Names) /\ Len(s) = 3 /\ s[1] = a /\ s[2] = b /\ s[3] = c
  OBVIOUS
<1>2. t \in Seq(Names) /\ Len(t) = 3 /\ t[1] = a /\ t[2] = b /\ t[3] = c
  OBVIOUS
<1> HIDE DEF s, t
<1>3. \A i \in 1..Len(s) : s[i] = t[i]
  BY <1>1, <1>2
<1>4. s = t
  BY <1>1, <1>2, <1>3, SeqEqual
<1> QED
  BY <1>4 DEF s, t

LEMMA FirstIs ==
    ASSUME NEW a \in Names, NEW rests, NEW t \in rests, t \in Steps
    PROVE  <<a>> \o t \in First(a, rests) /\ <<a>> \o t \in Steps
BY Fronts DEF First

LEMMA TailIs ==
    ASSUME NEW a, NEW rests, NEW s \in First(a, rests)
    PROVE  s \in Steps /\ s # <<>> /\ Head(s) = a /\ Tail(s) \in rests /\ Tail(s) \in Steps
BY HeadTailProperties DEF First, Steps

LEMMA Fronts2 ==
    ASSUME NEW t \in Steps, NEW a \in Names, NEW b \in Names
    PROVE  <<a, b>> \o t = <<a>> \o (<<b>> \o t)
<1>1. <<a>> \in Steps /\ <<b>> \in Steps /\ <<a, b>> = <<a>> \o <<b>>
  BY Pair
<1>2. (<<a>> \o <<b>>) \o t = <<a>> \o (<<b>> \o t)
  BY <1>1, Joined
<1> QED
  BY <1>1, <1>2

LEMMA Fronts3 ==
    ASSUME NEW t \in Steps, NEW a \in Names, NEW b \in Names, NEW c \in Names
    PROVE  <<a, b, c>> \o t = <<a>> \o (<<b>> \o (<<c>> \o t))
<1>1. <<a>> \in Steps /\ <<b, c>> \in Steps
  BY Pair
<1>2. (<<a>> \o <<b, c>>) \o t = <<a>> \o (<<b, c>> \o t)
  BY <1>1, Joined
<1> QED
  BY <1>2, Triple, Fronts2

LEMMA NothingLeft == <<>> \in Steps /\ <<>> \in Ended
BY EmptySeq DEF Steps, Ended

\* What a thread has to do once it has made a step and taken on some more.
LEMMA ThenIs ==
    ASSUME todo \in [Threads -> Steps], NEW t \in Threads, NEW steps, Then(t, steps)
    PROVE  /\ todo'[t] = steps \o Tail(todo[t]) /\ DOMAIN todo' = Threads
           /\ \A u \in Threads : u # t => todo'[u] = todo[u]
BY DEF Then

LEMMA EnterIs ==
    ASSUME todo \in [Threads -> Steps], NEW t \in Threads, NEW steps, Enter(t, steps)
    PROVE  /\ todo[t] = <<>> /\ todo'[t] = steps /\ DOMAIN todo' = Threads
           /\ \A u \in Threads : u # t => todo'[u] = todo[u]
BY DEF Enter, Idle

\* A step of the audio thread goes on with the rest, and what it takes on.
LEMMA GoesOn ==
    ASSUME NEW t \in Steps
    PROVE  /\ <<>> \o t = t
           /\ \A a \in Names : <<a>> \o t \in Steps
           /\ <<"read onset", "read tilt">> \o Publish \o t =
                <<"read onset">> \o (<<"read tilt">> \o (Publish \o t))
           /\ Publish \o t = <<"publish onset">> \o (<<"publish tilt">> \o (<<"publish learned">> \o t))
           /\ Publish \o t \in Steps
<1> DEFINE a == "publish onset"
           b == "publish tilt"
           c == "publish learned"
           d == "read onset"
           e == "read tilt"
<1>1. <<>> \o t = t /\ \A x \in Names : <<x>> \o t \in Steps
  BY NoFront, Fronts
<1>2. a \in Names /\ b \in Names /\ c \in Names /\ d \in Names /\ e \in Names
  BY DEF Names
<1>3. Publish = <<a, b, c>>
  BY DEF Publish
<1> HIDE DEF a, b, c, d, e
<1>4. Publish \o t = <<a>> \o (<<b>> \o (<<c>> \o t))
  BY <1>2, <1>3, Fronts3
<1>5. <<a>> \in Steps /\ <<b, c>> \in Steps /\ <<d, e>> \in Steps
  BY <1>2, Pair
<1>6. Publish \in Steps /\ Publish \o t \in Steps
  <2>1. Publish = <<a>> \o <<b, c>>
    BY <1>2, <1>3, Triple
  <2>2. Publish \in Steps
    BY <1>5, <2>1, JoinedIsSteps
  <2> QED
    BY <2>2, JoinedIsSteps
<1>7. (<<d, e>> \o Publish) \o t = <<d, e>> \o (Publish \o t)
  BY <1>5, <1>6, Joined
<1>8. <<d, e>> \o (Publish \o t) = <<d>> \o (<<e>> \o (Publish \o t))
  BY <1>2, <1>6, Fronts2
<1> QED
  BY <1>1, <1>4, <1>6, <1>7, <1>8 DEF a, b, c, d, e


LEMMA Goes ==
    ASSUME todo \in [Threads -> Steps], NEW t \in Threads, Then(t, <<>>), todo[t] # <<>>
    PROVE  /\ todo'[t] = Tail(todo[t]) /\ todo' \in [Threads -> Steps]
           /\ \A u \in Threads : u # t => todo'[u] = todo[u]
<1>1. todo[t] \in Steps
  OBVIOUS
<1>2. Tail(todo[t]) \in Steps
  BY <1>1, HeadTailProperties DEF Steps
<1>3. <<>> \o Tail(todo[t]) = Tail(todo[t])
  BY <1>2, NoFront
<1>4. todo' = [todo EXCEPT ![t] = Tail(todo[t])]
  BY <1>3 DEF Then
<1> QED
  BY <1>2, <1>4

LEMMA Alone ==
    ASSUME NEW a \in Names
    PROVE  <<a>> \in First(a, Ended) /\ <<a>> \in Steps
<1>1. <<a>> \o <<>> = <<a>>
  BY Pair, ConcatEmptySeq DEF Steps
<1> QED
  BY <1>1, NothingLeft, FirstIs

-----------------------------------------------------------------------------
(* What the shapes of a call tell of its next step.                        *)

LEMMA HostCalls ==
    ASSUME NEW s
    PROVE  /\ s \in Ended => s = <<>>
           /\ s \in StagingOnset => s # <<>> /\ Head(s) = "stage onset" /\ Tail(s) \in StagingTilt
           /\ s \in StagingTilt => s # <<>> /\ Head(s) = "stage tilt" /\ Tail(s) \in StagingLearned
           /\ s \in StagingLearned => s # <<>> /\ Head(s) = "stage learned" /\ Tail(s) \in Raising
           /\ s \in Raising => s # <<>> /\ Head(s) = "raise" /\ Tail(s) \in Ended
           /\ s \in Asking => s # <<>> /\ Head(s) = "ask" /\ Tail(s) \in SavingLearned
           /\ s \in SavingLearned => s # <<>> /\ Head(s) = "save learned" /\ Tail(s) \in SavingOnset
           /\ s \in SavingOnset => s # <<>> /\ Head(s) = "save onset" /\ Tail(s) \in SavingTilt
           /\ s \in SavingTilt => s # <<>> /\ Head(s) = "save tilt" /\ Tail(s) \in Writing
           /\ s \in Writing => s # <<>> /\ Head(s) = "write" /\ Tail(s) \in Ended
<1>1. s \in Ended => s = <<>>
  BY DEF Ended
<1>2. s \in StagingOnset => s # <<>> /\ Head(s) = "stage onset" /\ Tail(s) \in StagingTilt
  BY TailIs DEF StagingOnset
<1>3. s \in StagingTilt => s # <<>> /\ Head(s) = "stage tilt" /\ Tail(s) \in StagingLearned
  BY TailIs DEF StagingTilt
<1>4. s \in StagingLearned => s # <<>> /\ Head(s) = "stage learned" /\ Tail(s) \in Raising
  BY TailIs DEF StagingLearned
<1>5. s \in Raising => s # <<>> /\ Head(s) = "raise" /\ Tail(s) \in Ended
  BY TailIs DEF Raising
<1>6. s \in Asking => s # <<>> /\ Head(s) = "ask" /\ Tail(s) \in SavingLearned
  BY TailIs DEF Asking
<1>7. s \in SavingLearned => s # <<>> /\ Head(s) = "save learned" /\ Tail(s) \in SavingOnset
  BY TailIs DEF SavingLearned
<1>8. s \in SavingOnset => s # <<>> /\ Head(s) = "save onset" /\ Tail(s) \in SavingTilt
  BY TailIs DEF SavingOnset
<1>9. s \in SavingTilt => s # <<>> /\ Head(s) = "save tilt" /\ Tail(s) \in Writing
  BY TailIs DEF SavingTilt
<1>10. s \in Writing => s # <<>> /\ Head(s) = "write" /\ Tail(s) \in Ended
  BY TailIs DEF Writing
<1> QED
  BY <1>1, <1>2, <1>3, <1>4, <1>5, <1>6, <1>7, <1>8, <1>9, <1>10

LEMMA ClickCalls ==
    ASSUME NEW s
    PROVE  /\ s \in LoadingWord => s # <<>> /\ Head(s) = "load word" /\ Tail(s) \in StoringStart
           /\ s \in StoringStart => s # <<>> /\ Head(s) = "store start" /\ Tail(s) \in Ended
           /\ s \in StoringStop => s # <<>> /\ Head(s) = "store commit" /\ Tail(s) \in Ended
BY TailIs DEF LoadingWord, StoringStart, StoringStop

LEMMA BlockCalls ==
    ASSUME NEW s
    PROVE  /\ s \in Taking => s # <<>> /\ Head(s) = "take record" /\ Tail(s) \in Wording
           /\ s \in Wording => s # <<>> /\ Head(s) = "take word" /\ Tail(s) \in Sanitising
           /\ s \in Sanitising => s # <<>> /\ Head(s) = "sanitise" /\ Tail(s) \in Finishing
           /\ s \in Finishing => s # <<>> /\ Head(s) = "finish" /\ Tail(s) \in Ended
           /\ s \in Starting => s # <<>> /\ Head(s) = "start" /\ Tail(s) \in Acting
           /\ s \in Acting => s # <<>> /\ Head(s) = "acted" /\ Tail(s) \in Sanitising
           /\ s \in ReadingLearned => s # <<>> /\ Head(s) = "read learned" /\ Tail(s) \in Wording
           /\ s \in ReadingOnset => s # <<>> /\ Head(s) = "read onset" /\ Tail(s) \in ReadingTilt
           /\ s \in ReadingTilt => s # <<>> /\ Head(s) = "read tilt" /\ Tail(s) \in PublishingOnset(Wording)
           /\ \A r \in BOOLEAN : s \in Committing(r) => s # <<>> /\ Head(s) = "commit" /\ Tail(s) \in After(r)
<1>1. s \in Taking => s # <<>> /\ Head(s) = "take record" /\ Tail(s) \in Wording
  BY TailIs DEF Taking
<1>2. s \in Wording => s # <<>> /\ Head(s) = "take word" /\ Tail(s) \in Sanitising
  BY TailIs DEF Wording
<1>3. s \in Sanitising => s # <<>> /\ Head(s) = "sanitise" /\ Tail(s) \in Finishing
  BY TailIs DEF Sanitising
<1>4. s \in Finishing => s # <<>> /\ Head(s) = "finish" /\ Tail(s) \in Ended
  BY TailIs DEF Finishing
<1>5. s \in Starting => s # <<>> /\ Head(s) = "start" /\ Tail(s) \in Acting
  BY TailIs DEF Starting
<1>6. s \in Acting => s # <<>> /\ Head(s) = "acted" /\ Tail(s) \in Sanitising
  BY TailIs DEF Acting
<1>7. s \in ReadingLearned => s # <<>> /\ Head(s) = "read learned" /\ Tail(s) \in Wording
  BY TailIs DEF ReadingLearned
<1>8. s \in ReadingOnset => s # <<>> /\ Head(s) = "read onset" /\ Tail(s) \in ReadingTilt
  BY TailIs DEF ReadingOnset
<1>9. s \in ReadingTilt => s # <<>> /\ Head(s) = "read tilt" /\ Tail(s) \in PublishingOnset(Wording)
  BY TailIs DEF ReadingTilt
<1>10. \A r \in BOOLEAN : s \in Committing(r) => s # <<>> /\ Head(s) = "commit" /\ Tail(s) \in After(r)
  BY TailIs DEF Committing
<1> QED
  BY <1>1, <1>2, <1>3, <1>4, <1>5, <1>6, <1>7, <1>8, <1>9, <1>10

LEMMA PublishCalls ==
    ASSUME NEW s, NEW rests
    PROVE  /\ s \in PublishingOnset(rests) =>
                s # <<>> /\ Head(s) = "publish onset" /\ Tail(s) \in PublishingTilt(rests)
           /\ s \in PublishingTilt(rests) =>
                s # <<>> /\ Head(s) = "publish tilt" /\ Tail(s) \in PublishingLearned(rests)
           /\ s \in PublishingLearned(rests) =>
                s # <<>> /\ Head(s) = "publish learned" /\ Tail(s) \in rests
<1>1. s \in PublishingOnset(rests) =>
         s # <<>> /\ Head(s) = "publish onset" /\ Tail(s) \in PublishingTilt(rests)
  BY TailIs DEF PublishingOnset
<1>2. s \in PublishingTilt(rests) =>
         s # <<>> /\ Head(s) = "publish tilt" /\ Tail(s) \in PublishingLearned(rests)
  BY TailIs DEF PublishingTilt
<1>3. s \in PublishingLearned(rests) =>
         s # <<>> /\ Head(s) = "publish learned" /\ Tail(s) \in rests
  BY TailIs DEF PublishingLearned
<1> QED
  BY <1>1, <1>2, <1>3

\* A load waits until its record is staged, the other calls do not.
LEMMA NotStaging ==
    ASSUME NEW s
    PROVE  /\ s \in Ended \cup Asking \cup SavingLearned \cup SavingOnset \cup SavingTilt \cup Writing
                => s \notin Staging
           /\ s \in StagingOnset \cup StagingTilt \cup StagingLearned \cup Raising <=> s \in Staging
BY HostCalls DEF Staging


-----------------------------------------------------------------------------
(* What a step of another thread leaves as it was.                         *)

ClickFrame == /\ todo'["message"] = todo["message"] /\ asked'["message"] = asked["message"]
              /\ learnCmd' = learnCmd /\ clicks' = clicks /\ raced' = raced

LEMMA ClickInvKept == ClickInv /\ ClickFrame => ClickInv'
BY DEF ClickInv, ClickFrame

HostFrame == /\ todo'["host"] = todo["host"] /\ asked'["host"] = asked["host"]
             /\ mirror' = mirror /\ staged' = staged /\ saved' = saved
             /\ ~mixed' => ~mixed
             /\ ~mixed' /\ todo["audio"] = <<>> =>
                   todo'["audio"] = <<>> /\ engine' = engine /\ latest' = latest

LEMMA HostInvKept == HostInv /\ HostFrame => HostInv'
<1> SUFFICES ASSUME HostInv, HostFrame PROVE HostInv'
  OBVIOUS
<1>1. Agrees => Agrees'
  BY DEF Agrees, HostFrame
<1>2. \A step : Unmixed(step) => Unmixed(step)'
  BY DEF Unmixed, Copied, From, HostFrame
<1>3. todo'["host"] = todo["host"] /\ mirror' = mirror /\ staged' = staged
  BY DEF HostFrame
<1> QED
  BY <1>1, <1>2, <1>3 DEF HostInv

WaitFrame == /\ todo'["host"] \notin Staging => todo["host"] \notin Staging
             /\ mirror' = mirror /\ latest' = latest
             /\ adaptivePending' => adaptivePending

LEMMA WaitInvKept == WaitInv /\ WaitFrame => WaitInv'
BY DEF WaitInv, WaitFrame, Normal

BlockFrame == /\ todo'["audio"] = todo["audio"]
              /\ taken' = taken /\ engine' = engine /\ expect' = expect
              /\ sums' = sums /\ ruined' = ruined /\ learnActive' = learnActive
              /\ Known' => Known /\ mirror' = mirror /\ latest' = latest

LEMMA AudioInvKept == AudioInv /\ BlockFrame => AudioInv'
<1> SUFFICES ASSUME AudioInv, BlockFrame PROVE AudioInv'
  OBVIOUS
<1>1. RestStep => RestStep'
  BY DEF RestStep, BlockFrame
<1>2. RecordStep => RecordStep'
  BY DEF RecordStep, BlockFrame
<1>3. \A r \in BOOLEAN : CommitStep(r) => CommitStep(r)'
  BY DEF CommitStep, Committed, BlockFrame, Fair
<1>4. StartStep => StartStep'
  BY DEF StartStep, BlockFrame, Fair
<1>5. EndStep => EndStep'
  BY DEF EndStep, BlockFrame, Fair, Obeyed
<1> QED
  BY <1>1, <1>2, <1>3, <1>4, <1>5 DEF AudioInv


-----------------------------------------------------------------------------
(* The values that references have.                                        *)

LEMMA Values ==
    /\ Unlearned \in Refs /\ Unlearned.learned = FALSE
    /\ \A x \in SUBSET Int : Of(x) \in Refs /\ Of(x).learned
    /\ \A m \in Loaded : m \in Refs /\ Normal(m)
<1>1. Unlearned \in Refs /\ Unlearned.learned = FALSE
  BY DEF Unlearned, Refs, Neutral
<1>2. \A x \in SUBSET Int : Of(x) \in Refs /\ Of(x).learned
  BY DEF Of, Refs
<1>3. ASSUME NEW s \in Sessions PROVE {-s} \in SUBSET Int
  BY LearnAssumption
<1> QED
  BY <1>1, <1>2, <1>3 DEF Loaded, Normal

LEMMA PassIsRef ==
    ASSUME NEW s, s \subseteq 1..MaxBlocks
    PROVE  Of(s) \in Refs /\ Of(s).learned /\ Of(s).onset = s
<1>1. s \in SUBSET Int
  BY LearnAssumption
<1> QED
  BY <1>1, Values DEF Of

\* Records that agree in each part are the same.
LEMMA SameRef ==
    ASSUME NEW a \in Refs, NEW b \in Refs,
           a.onset = b.onset, a.tilt = b.tilt, a.learned = b.learned
    PROVE  a = b
BY DEF Refs

-----------------------------------------------------------------------------
(* The message thread.                                                     *)

LEMMA ClickKeeps == ASSUME LearnInv, Click PROVE LearnInv'
<1> DEFINE steps == IF learnActive THEN <<"store commit">> ELSE <<"load word", "store start">>
<1>1. /\ todo["message"] = <<>> /\ todo'["message"] = steps
      /\ todo'["host"] = todo["host"] /\ todo'["audio"] = todo["audio"]
      /\ todo' = [todo EXCEPT !["message"] = steps]
  <2>1. todo \in [Threads -> Steps]
    BY DEF LearnInv, TypeInv
  <2> QED
    BY <2>1 DEF Click, Enter, Idle, Threads
<1>2. <<"store commit">> \in StoringStop /\ <<"store commit">> \in Steps
  BY Alone DEF StoringStop, Names
<1>3. <<"store start">> \in StoringStart /\ <<"store start">> \in Steps
  BY Alone DEF StoringStart, Names
<1>4. <<"load word", "store start">> \in LoadingWord /\ <<"load word", "store start">> \in Steps
  <2>1. <<"load word", "store start">> = <<"load word">> \o <<"store start">>
    BY Pair DEF Names
  <2> QED
    BY <1>3, <2>1, FirstIs DEF LoadingWord, Names
<1>5. steps \in StoringStop \cup LoadingWord /\ steps \in Steps
  BY <1>2, <1>4
<1> HIDE DEF steps
<1>6. TypeInv'
  BY <1>1, <1>5 DEF LearnInv, TypeInv, Click, mailbox, record, pass, saving, Threads
<1>7. ClickInv'
  BY <1>1, <1>5, ClickCalls DEF LearnInv, ClickInv, Click, mailbox
<1>8. HostFrame /\ WaitFrame /\ BlockFrame
  BY <1>1 DEF HostFrame, WaitFrame, BlockFrame, Known, Click, mailbox, record, pass, saving
<1> QED
  BY <1>6, <1>7, <1>8, HostInvKept, WaitInvKept, AudioInvKept DEF LearnInv

LEMMA LoadWordKeeps == ASSUME LearnInv, LoadWord PROVE LearnInv'
<1>1. todo["message"] \in LoadingWord /\ todo["message"] # <<>>
  BY ClickCalls, HostCalls DEF LearnInv, ClickInv, LoadWord, At, Idle
<1>2. /\ todo'["message"] \in StoringStart /\ todo' \in [Threads -> Steps]
      /\ todo'["host"] = todo["host"] /\ todo'["audio"] = todo["audio"]
  BY <1>1, Goes, ClickCalls DEF LearnInv, TypeInv, LoadWord, Threads
<1>3. TypeInv'
  BY <1>2 DEF LearnInv, TypeInv, LoadWord, mailbox, record, pass, saving, bounds
<1>4. ClickInv'
  BY <1>2 DEF LearnInv, TypeInv, ClickInv, LoadWord, mailbox, Threads
<1>5. HostFrame /\ WaitFrame /\ BlockFrame
  BY <1>2 DEF HostFrame, WaitFrame, BlockFrame, Known, LoadWord, mailbox, record, pass, saving,
              LearnInv, TypeInv, Threads
<1> QED
  BY <1>3, <1>4, <1>5, HostInvKept, WaitInvKept, AudioInvKept DEF LearnInv

\* A click more composes the word that it should.
LEMMA OneClickMore ==
    ASSUME NEW cs \in Seq(Verbs), NEW verb \in Verbs
    PROVE  /\ Append(cs, verb) \in Seq(Verbs)
           /\ WordOf(Append(cs, verb)) = IF verb = "stop" THEN "commit" ELSE Composed(WordOf(cs))
<1> DEFINE ds == Append(cs, verb)
<1>1. /\ ds \in Seq(Verbs) /\ ds # <<>> /\ Len(ds) = Len(cs) + 1 /\ Len(cs) \in Nat
      /\ \A i \in 1..Len(cs) : ds[i] = cs[i]
      /\ ds[Len(cs) + 1] = verb
      /\ DOMAIN cs = 1..Len(cs) /\ DOMAIN ds = 1..Len(ds)
  BY AppendProperties, LenProperties
<1> HIDE DEF ds
<1>2. Last(ds) = verb
  BY <1>1 DEF Last
<1>3. Range(ds) = Range(cs) \cup {verb}
  BY <1>1 DEF Range
<1>4. cs # <<>> => Last(cs) \in Range(cs)
  <2> SUFFICES ASSUME cs # <<>> PROVE Len(cs) \in DOMAIN cs
    BY DEF Last, Range
  <2> QED
    BY <1>1, EmptySeq
<1>5. cs = <<>> => Range(cs) = {}
  BY DEF Range
<1>6. verb = "start" \/ verb = "stop"
  BY DEF Verbs
<1>7. CASE verb = "stop"
  BY <1>1, <1>2, <1>7 DEF WordOf, ds
<1>8. CASE verb = "start"
  <2>1. WordOf(ds) = IF "stop" \in Range(cs) THEN "commitThenStart" ELSE "start"
    BY <1>1, <1>2, <1>3, <1>8 DEF WordOf
  <2>2. Composed(WordOf(cs)) = IF "stop" \in Range(cs) THEN "commitThenStart" ELSE "start"
    BY <1>4, <1>5 DEF WordOf, Composed
  <2> QED
    BY <1>8, <2>1, <2>2 DEF ds
<1> QED
  BY <1>1, <1>6, <1>7, <1>8 DEF ds

LEMMA StoreWordKeeps == ASSUME LearnInv, StoreWord PROVE LearnInv'
<1>1. /\ todo["message"] # <<>>
      /\ \/ todo["message"] \in StoringStart /\ At("message", "store start")
         \/ todo["message"] \in StoringStop /\ At("message", "store commit")
  <2>1. todo["message"] \in Ended \cup LoadingWord \cup StoringStart \cup StoringStop
    BY DEF LearnInv, ClickInv
  <2>2. \/ At("message", "store start") /\ Head(todo["message"]) = "store start"
        \/ At("message", "store commit") /\ Head(todo["message"]) = "store commit"
    BY DEF StoreWord, At
  <2>3. todo["message"] # <<>>
    BY <2>2 DEF At, Idle
  <2> DEFINE m == todo["message"]
  <2>4. /\ m \notin Ended
        /\ Head(m) = "store start" => m \notin LoadingWord /\ m \notin StoringStop
        /\ Head(m) = "store commit" => m \notin LoadingWord /\ m \notin StoringStart
    BY <2>3, ClickCalls, HostCalls
  <2> QED
    BY <2>1, <2>2, <2>3, <2>4
<1>2. /\ todo'["message"] \in Ended /\ todo' \in [Threads -> Steps]
      /\ todo'["host"] = todo["host"] /\ todo'["audio"] = todo["audio"]
  <2>1. Tail(todo["message"]) \in Ended
    BY <1>1, ClickCalls
  <2> QED
    BY <1>1, <2>1, Goes DEF LearnInv, TypeInv, StoreWord, Threads
<1>3. /\ clicks' \in Seq(Verbs) /\ raced' = raced
      /\ ~raced => learnCmd' = WordOf(clicks')
  <2>1. "start" \in Verbs /\ "stop" \in Verbs /\ clicks \in Seq(Verbs)
    BY DEF Verbs, LearnInv, TypeInv
  <2>2. CASE At("message", "store start")
    <3>1. todo["message"] \in StoringStart
      BY <1>1, <2>2, ClickCalls DEF At
    <3>2. learnCmd' = Composed(asked["message"]) /\ clicks' = Append(clicks, "start")
      BY <2>2 DEF StoreWord, At
    <3>3. ~raced => asked["message"] = WordOf(clicks)
      BY <3>1 DEF LearnInv, ClickInv
    <3> QED
      BY <2>1, <3>2, <3>3, OneClickMore DEF StoreWord
  <2>3. CASE At("message", "store commit")
    <3>1. learnCmd' = "commit" /\ clicks' = Append(clicks, "stop")
      BY <2>3 DEF StoreWord, At
    <3> QED
      BY <2>1, <3>1, OneClickMore DEF StoreWord
  <2> QED
    BY <1>1, <2>2, <2>3
<1>4. TypeInv'
  BY <1>2, <1>3 DEF LearnInv, TypeInv, StoreWord, record, pass, saving, bounds
<1>5. ClickInv'
  BY <1>2, <1>3, HostCalls, ClickCalls DEF ClickInv
<1>6. HostFrame /\ WaitFrame /\ BlockFrame
  BY <1>2 DEF HostFrame, WaitFrame, BlockFrame, Known, StoreWord, record, pass, saving
<1> QED
  BY <1>4, <1>5, <1>6, HostInvKept, WaitInvKept, AudioInvKept DEF LearnInv


-----------------------------------------------------------------------------
(* The host.                                                               *)

\* The next step tells where the call has got to.
LEMMA HostAt ==
    ASSUME HostInv, todo["host"] # <<>>
    PROVE  LET h == todo["host"] IN
           /\ Head(h) = "stage onset" => h \in StagingOnset /\ mirror.learned
           /\ Head(h) = "stage tilt" =>
                h \in StagingTilt /\ mirror.learned /\ staged.onset = mirror.onset
           /\ Head(h) = "stage learned" =>
                /\ h \in StagingLearned
                /\ mirror.learned => staged.onset = mirror.onset /\ staged.tilt = mirror.tilt
           /\ Head(h) = "raise" => h \in Raising /\ Agrees
           /\ Head(h) = "ask" => h \in Asking /\ Agrees /\ Unmixed("ask")
           /\ Head(h) = "save learned" => h \in SavingLearned /\ Agrees /\ Unmixed("learned")
           /\ Head(h) = "save onset" => h \in SavingOnset /\ Agrees /\ Unmixed("onset")
           /\ Head(h) = "save tilt" => h \in SavingTilt /\ Agrees /\ Unmixed("tilt")
           /\ Head(h) = "write" => h \in Writing /\ Agrees /\ Unmixed("write")
<1> DEFINE h == todo["host"]
           L == mirror.learned
           O == staged.onset = mirror.onset
           T == staged.tilt = mirror.tilt
<1>1. /\ h \notin Ended
      /\ h \in StagingOnset => Head(h) = "stage onset"
      /\ h \in StagingTilt => Head(h) = "stage tilt"
      /\ h \in StagingLearned => Head(h) = "stage learned"
      /\ h \in Raising => Head(h) = "raise"
      /\ h \in Asking => Head(h) = "ask"
      /\ h \in SavingLearned => Head(h) = "save learned"
      /\ h \in SavingOnset => Head(h) = "save onset"
      /\ h \in SavingTilt => Head(h) = "save tilt"
      /\ h \in Writing => Head(h) = "write"
  <2>1. h # <<>>
    OBVIOUS
  <2> HIDE DEF h
  <2> QED
    BY <2>1, HostCalls
<1>2. \/ h \in Ended /\ Agrees
      \/ h \in StagingOnset /\ L
      \/ h \in StagingTilt /\ L /\ O
      \/ h \in StagingLearned /\ (L => O /\ T)
      \/ h \in Raising /\ Agrees
      \/ h \in Asking /\ Agrees /\ Unmixed("ask")
      \/ h \in SavingLearned /\ Agrees /\ Unmixed("learned")
      \/ h \in SavingOnset /\ Agrees /\ Unmixed("onset")
      \/ h \in SavingTilt /\ Agrees /\ Unmixed("tilt")
      \/ h \in Writing /\ Agrees /\ Unmixed("write")
  BY DEF HostInv
<1> HIDE DEF h, L, O, T
<1>3. /\ Head(h) = "stage onset" => h \in StagingOnset /\ L
      /\ Head(h) = "stage tilt" => h \in StagingTilt /\ L /\ O
      /\ Head(h) = "stage learned" => h \in StagingLearned /\ (L => O /\ T)
      /\ Head(h) = "raise" => h \in Raising /\ Agrees
      /\ Head(h) = "ask" => h \in Asking /\ Agrees /\ Unmixed("ask")
      /\ Head(h) = "save learned" => h \in SavingLearned /\ Agrees /\ Unmixed("learned")
      /\ Head(h) = "save onset" => h \in SavingOnset /\ Agrees /\ Unmixed("onset")
      /\ Head(h) = "save tilt" => h \in SavingTilt /\ Agrees /\ Unmixed("tilt")
      /\ Head(h) = "write" => h \in Writing /\ Agrees /\ Unmixed("write")
  BY <1>1, <1>2
<1> QED
  BY <1>3 DEF h, L, O, T

LEMMA StageStepsIs ==
    ASSUME NEW ref \in Loaded
    PROVE  /\ StageSteps(ref) \in Steps
           /\ IF ref.learned THEN StageSteps(ref) \in StagingOnset
              ELSE StageSteps(ref) \in StagingLearned
<1>1. <<"raise">> \in Raising /\ <<"raise">> \in Steps
  BY Alone DEF Raising, Names
<1> DEFINE t == <<"stage learned", "raise">>
<1>2. t = <<"stage learned">> \o <<"raise">>
  BY Pair DEF Names
<1>3. t \in StagingLearned /\ t \in Steps
  BY <1>1, <1>2, FirstIs DEF StagingLearned, Names
<1> HIDE DEF t
<1>4. <<>> \o t = t
  BY <1>3, NoFront
<1>5. <<"stage onset", "stage tilt">> \o t = <<"stage onset">> \o (<<"stage tilt">> \o t)
  BY <1>3, Fronts2 DEF Names
<1>6. <<"stage tilt">> \o t \in StagingTilt /\ <<"stage tilt">> \o t \in Steps
  BY <1>3, FirstIs DEF StagingTilt, Names
<1>7. <<"stage onset">> \o (<<"stage tilt">> \o t) \in StagingOnset
      /\ <<"stage onset">> \o (<<"stage tilt">> \o t) \in Steps
  BY <1>6, FirstIs DEF StagingOnset, Names
<1>8. StageSteps(ref) = IF ref.learned THEN <<"stage onset", "stage tilt">> \o t ELSE <<>> \o t
  BY DEF StageSteps, Only, t
<1> QED
  BY <1>3, <1>4, <1>5, <1>7, <1>8

LEMMA LoadKeeps ==
    ASSUME LearnInv, NEW ref \in Loaded, LoadReference(ref)
    PROVE  LearnInv'
<1> DEFINE steps == StageSteps(ref)
<1>1. /\ todo["host"] = <<>> /\ todo'["host"] = steps
      /\ todo'["message"] = todo["message"] /\ todo'["audio"] = todo["audio"]
      /\ todo' = [todo EXCEPT !["host"] = steps]
  <2>1. todo \in [Threads -> Steps]
    BY DEF LearnInv, TypeInv
  <2> QED
    BY <2>1 DEF LoadReference, Enter, Idle, Threads
<1>2. steps \in Steps /\ IF ref.learned THEN steps \in StagingOnset ELSE steps \in StagingLearned
  BY StageStepsIs
<1> HIDE DEF steps
<1>3. TypeInv'
  BY <1>1, <1>2 DEF LearnInv, TypeInv, LoadReference, mailbox, pass, saving, Threads
<1>4. ref.learned \in BOOLEAN /\ mirror' = ref
  BY Values DEF Refs, LoadReference
<1>5. todo'["host"] \in Staging
  BY <1>1, <1>2, <1>4 DEF Staging
<1>6. HostInv'
  BY <1>1, <1>2, <1>4 DEF HostInv
<1>7. WaitInv'
  BY <1>5 DEF LearnInv, WaitInv, LoadReference, Normal
<1>8. ClickFrame /\ BlockFrame
  BY <1>1, <1>5 DEF ClickFrame, BlockFrame, Known, LoadReference, mailbox, pass
<1> QED
  BY <1>3, <1>6, <1>7, <1>8, ClickInvKept, AudioInvKept DEF LearnInv

LEMMA StageFieldKeeps == ASSUME LearnInv, StageField PROVE LearnInv'
<1> DEFINE h == todo["host"]
           k == todo'["host"]
<1>1. HostInv /\ todo \in [Threads -> Steps] /\ staged \in Refs /\ mirror \in Refs
  BY Values DEF LearnInv, TypeInv
<1>2. h # <<>> /\ mirror' = mirror
  BY DEF StageField, At, Idle
<1>3. /\ k = Tail(h) /\ todo' \in [Threads -> Steps]
      /\ todo'["message"] = todo["message"] /\ todo'["audio"] = todo["audio"]
  BY <1>1, <1>2, Goes DEF StageField, Threads
<1> HIDE DEF h, k
<1>4. staged' \in Refs /\ k \in Staging /\ HostInv'
  <2>1. CASE At("host", "stage onset")
    <3>1. Head(h) = "stage onset" /\ staged' = [staged EXCEPT !.onset = mirror.onset]
      BY <2>1 DEF StageField, At, h
    <3>2. h \in StagingOnset /\ mirror.learned
      BY <1>1, <1>2, <3>1, HostAt DEF h
    <3>3. k \in StagingTilt
      BY <1>3, <3>2, HostCalls
    <3>4. staged' \in Refs /\ staged'.onset = mirror.onset
      BY <1>1, <3>1 DEF Refs
    <3> QED
      BY <1>2, <3>2, <3>3, <3>4 DEF HostInv, Staging, k
  <2>2. CASE At("host", "stage tilt")
    <3>1. Head(h) = "stage tilt" /\ staged' = [staged EXCEPT !.tilt = mirror.tilt]
      BY <2>2 DEF StageField, At, h
    <3>2. h \in StagingTilt /\ staged.onset = mirror.onset
      BY <1>1, <1>2, <3>1, HostAt DEF h
    <3>3. k \in StagingLearned
      BY <1>3, <3>2, HostCalls
    <3>4. staged' \in Refs /\ staged'.onset = mirror.onset /\ staged'.tilt = mirror.tilt
      BY <1>1, <3>1, <3>2 DEF Refs
    <3> QED
      BY <1>2, <3>3, <3>4 DEF HostInv, Staging, k
  <2>3. CASE At("host", "stage learned")
    <3>1. Head(h) = "stage learned" /\ staged' = [staged EXCEPT !.learned = mirror.learned]
      BY <2>3 DEF StageField, At, h
    <3>2. /\ h \in StagingLearned
          /\ mirror.learned => staged.onset = mirror.onset /\ staged.tilt = mirror.tilt
      BY <1>1, <1>2, <3>1, HostAt DEF h
    <3>3. k \in Raising
      BY <1>3, <3>2, HostCalls
    <3>4. /\ staged' \in Refs /\ staged'.learned = mirror.learned
          /\ mirror.learned => staged'.onset = mirror.onset /\ staged'.tilt = mirror.tilt
      BY <1>1, <3>1, <3>2 DEF Refs
    <3> QED
      BY <1>2, <3>3, <3>4 DEF HostInv, Staging, Agrees, k
  <2> QED
    BY <2>1, <2>2, <2>3 DEF StageField
<1>5. TypeInv'
  BY <1>3, <1>4 DEF LearnInv, TypeInv, StageField, mailbox, pass, saving, bounds
<1>6. WaitInv'
  BY <1>4 DEF LearnInv, WaitInv, StageField, Normal, k
<1>7. ClickFrame /\ BlockFrame
  BY <1>3, <1>4 DEF ClickFrame, BlockFrame, Known, StageField, mailbox, pass, k
<1> QED
  BY <1>4, <1>5, <1>6, <1>7, ClickInvKept, AudioInvKept DEF LearnInv

LEMMA RaiseKeeps == ASSUME LearnInv, Raise PROVE LearnInv'
<1> DEFINE h == todo["host"]
           k == todo'["host"]
<1>1. HostInv /\ todo \in [Threads -> Steps] /\ mirror \in Refs /\ Normal(mirror)
  BY Values DEF LearnInv, TypeInv
<1>2. h # <<>> /\ Head(h) = "raise" /\ mirror' = mirror /\ staged' = staged
  BY DEF Raise, At, Idle
<1>3. /\ k = Tail(h) /\ todo' \in [Threads -> Steps]
      /\ todo'["message"] = todo["message"] /\ todo'["audio"] = todo["audio"]
  BY <1>1, <1>2, Goes DEF Raise, Threads
<1> HIDE DEF h, k
<1>4. h \in Raising /\ Agrees
  BY <1>1, <1>2, HostAt DEF h
<1>5. k \in Ended /\ Agrees'
  BY <1>2, <1>3, <1>4, HostCalls DEF Agrees
<1>6. HostInv'
  BY <1>5 DEF HostInv, k
<1>7. TypeInv'
  BY <1>1, <1>3 DEF LearnInv, TypeInv, Raise, mailbox, pass, saving, bounds
<1>8. WaitInv'
  BY <1>1 DEF WaitInv, Raise, Normal
<1>9. ClickFrame /\ BlockFrame
  BY <1>3 DEF ClickFrame, BlockFrame, Known, Raise, mailbox, pass
<1> QED
  BY <1>6, <1>7, <1>8, <1>9, ClickInvKept, AudioInvKept DEF LearnInv


LEMMA Quadruple ==
    ASSUME NEW a \in Names, NEW b \in Names, NEW c \in Names, NEW d \in Names
    PROVE  <<a, b, c, d>> = <<a, b>> \o <<c, d>>
<1> DEFINE s == <<a, b, c, d>>
           t == <<a, b>> \o <<c, d>>
<1>1. s \in Seq(Names) /\ Len(s) = 4 /\ s[1] = a /\ s[2] = b /\ s[3] = c /\ s[4] = d
  OBVIOUS
<1>2. t \in Seq(Names) /\ Len(t) = 4 /\ t[1] = a /\ t[2] = b /\ t[3] = c /\ t[4] = d
  OBVIOUS
<1> HIDE DEF s, t
<1>3. \A i \in 1..Len(s) : s[i] = t[i]
  BY <1>1, <1>2
<1>4. s = t
  BY <1>1, <1>2, <1>3, SeqEqual
<1> QED
  BY <1>4 DEF s, t

LEMMA Quintuple ==
    ASSUME NEW a \in Names, NEW b \in Names, NEW c \in Names, NEW d \in Names, NEW e \in Names
    PROVE  <<a, b, c, d, e>> = <<a, b, c>> \o <<d, e>>
<1> DEFINE s == <<a, b, c, d, e>>
           t == <<a, b, c>> \o <<d, e>>
<1>1. /\ s \in Seq(Names) /\ Len(s) = 5
      /\ s[1] = a /\ s[2] = b /\ s[3] = c /\ s[4] = d /\ s[5] = e
  OBVIOUS
<1>2. /\ t \in Seq(Names) /\ Len(t) = 5
      /\ t[1] = a /\ t[2] = b /\ t[3] = c /\ t[4] = d /\ t[5] = e
  OBVIOUS
<1> HIDE DEF s, t
<1>3. \A i \in 1..Len(s) : s[i] = t[i]
  BY <1>1, <1>2
<1>4. s = t
  BY <1>1, <1>2, <1>3, SeqEqual
<1> QED
  BY <1>4 DEF s, t

LEMMA SaveStepsAre ==
    LET s == <<"ask", "save learned", "save onset", "save tilt", "write">>
    IN  s \in Asking /\ s \in Steps
<1> DEFINE a == "ask"
           b == "save learned"
           c == "save onset"
           d == "save tilt"
           e == "write"
<1>1. a \in Names /\ b \in Names /\ c \in Names /\ d \in Names /\ e \in Names
  BY DEF Names
<1>2. /\ Writing = First(e, Ended) /\ SavingTilt = First(d, Writing)
      /\ SavingOnset = First(c, SavingTilt) /\ SavingLearned = First(b, SavingOnset)
      /\ Asking = First(a, SavingLearned)
  BY DEF Writing, SavingTilt, SavingOnset, SavingLearned, Asking
<1> HIDE DEF a, b, c, d, e
<1>3. <<e>> \in Writing /\ <<e>> \in Steps
  BY <1>1, <1>2, Alone
<1>4. <<d>> \o <<e>> \in SavingTilt /\ <<d>> \o <<e>> \in Steps
  BY <1>1, <1>2, <1>3, FirstIs
<1> DEFINE t == <<d, e>>
<1>5. t \in SavingTilt /\ t \in Steps
  BY <1>1, <1>4, Pair
<1>6. <<a, b, c, d, e>> = <<a, b, c>> \o t
  BY <1>1, Quintuple
<1> HIDE DEF t
<1>7. <<c>> \o t \in SavingOnset /\ <<c>> \o t \in Steps
  BY <1>1, <1>2, <1>5, FirstIs
<1>8. <<b>> \o (<<c>> \o t) \in SavingLearned /\ <<b>> \o (<<c>> \o t) \in Steps
  BY <1>1, <1>2, <1>7, FirstIs
<1>9. <<a>> \o (<<b>> \o (<<c>> \o t)) \in Asking /\ <<a>> \o (<<b>> \o (<<c>> \o t)) \in Steps
  BY <1>1, <1>2, <1>8, FirstIs
<1>10. <<a, b, c>> \o t = <<a>> \o (<<b>> \o (<<c>> \o t))
  BY <1>1, <1>5, Fronts3
<1>11. <<a, b, c, d, e>> \in Asking /\ <<a, b, c, d, e>> \in Steps
  BY <1>6, <1>9, <1>10
<1> QED
  BY <1>11 DEF a, b, c, d, e

LEMMA HostIdle == ASSUME HostInv, todo["host"] = <<>> PROVE Agrees
BY HostCalls DEF HostInv

LEMMA AudioIdle == ASSUME AudioInv, todo["audio"] = <<>>, Known PROVE engine = latest
<1> DEFINE a == todo["audio"]
<1>1. /\ a \notin ReadingLearned /\ a \notin ReadingOnset /\ a \notin ReadingTilt
      /\ a \notin Starting /\ a \notin Acting
      /\ \A r \in BOOLEAN : a \notin Committing(r)
  BY BlockCalls
<1>2. \A rests : /\ a \notin PublishingOnset(rests) /\ a \notin PublishingTilt(rests)
                 /\ a \notin PublishingLearned(rests)
  BY PublishCalls
<1>3. ~RecordStep /\ ~StartStep /\ ~EndStep
  BY <1>1, <1>2 DEF RecordStep, StartStep, EndStep
<1>4. \A r \in BOOLEAN : ~CommitStep(r)
  BY <1>1, <1>2 DEF CommitStep
<1> QED
  BY <1>3, <1>4 DEF AudioInv, RestStep

LEMMA BeginSaveKeeps == ASSUME LearnInv, BeginSave PROVE LearnInv'
<1> DEFINE steps == <<"ask", "save learned", "save onset", "save tilt", "write">>
<1>1. /\ todo["host"] = <<>> /\ todo'["host"] = steps
      /\ todo'["message"] = todo["message"] /\ todo'["audio"] = todo["audio"]
      /\ todo' = [todo EXCEPT !["host"] = steps]
  <2>1. todo \in [Threads -> Steps]
    BY DEF LearnInv, TypeInv
  <2> HIDE DEF steps
  <2>2. Enter("host", steps)
    BY DEF BeginSave, steps
  <2> QED
    BY <2>1, <2>2 DEF Enter, Idle, Threads
<1>2. steps \in Asking /\ steps \in Steps
  BY SaveStepsAre
<1> HIDE DEF steps
<1>3. /\ mixed' = ~Idle("audio") /\ hostCalls' = hostCalls - 1
      /\ UNCHANGED <<mailbox, record, taken, engine, pass, asked, saved, block, clicksLeft, latest>>
  BY DEF BeginSave
<1>4. TypeInv'
  BY <1>1, <1>2, <1>3 DEF LearnInv, TypeInv, mailbox, record, pass, Threads
<1>5. HostInv'
  <2>1. Agrees'
    BY <1>1, <1>3, HostIdle DEF Agrees, record, LearnInv
  <2>2. Unmixed("ask")'
    BY <1>1, <1>3 DEF Unmixed, Copied, Idle
  <2> QED
    BY <1>1, <1>2, <2>1, <2>2 DEF HostInv
<1>6. todo["host"] \notin Staging
  BY <1>1, NotStaging, NothingLeft
<1>7. ClickFrame /\ WaitFrame /\ BlockFrame
  BY <1>1, <1>3, <1>6
     DEF ClickFrame, WaitFrame, BlockFrame, Known, mailbox, record, pass
<1> QED
  BY <1>4, <1>5, <1>7, ClickInvKept, WaitInvKept, AudioInvKept DEF LearnInv

\* A step of a save.
LEMMA SaveGoes ==
    ASSUME TypeInv, todo["host"] # <<>>, Then("host", <<>>)
    PROVE  /\ todo'["host"] = Tail(todo["host"]) /\ todo' \in [Threads -> Steps]
           /\ todo'["message"] = todo["message"] /\ todo'["audio"] = todo["audio"]
BY Goes DEF TypeInv, Threads

LEMMA AskKeeps == ASSUME LearnInv, Ask PROVE LearnInv'
<1> DEFINE h == todo["host"]
           k == todo'["host"]
           source == IF adaptivePending THEN "mirror" ELSE "engine"
<1>1. h # <<>> /\ Head(h) = "ask" /\ Then("host", <<>>)
  BY DEF Ask, At, Idle
<1>2. /\ k = Tail(h) /\ todo' \in [Threads -> Steps]
      /\ todo'["message"] = todo["message"] /\ todo'["audio"] = todo["audio"]
  BY <1>1, SaveGoes DEF LearnInv
<1>3. h \in Asking /\ Agrees /\ Unmixed("ask")
  BY <1>1, HostAt DEF LearnInv
<1>4. asked' = [asked EXCEPT !["host"] = source] /\ saved' = Unlearned
  BY DEF Ask, RestoreStaged
<1>5. UNCHANGED <<mailbox, record, taken, engine, pass, mixed, bounds, latest>>
  BY DEF Ask
<1> HIDE DEF h, k, source
<1>6. k \in SavingLearned /\ h \notin Staging /\ k \notin Staging
  BY <1>2, <1>3, HostCalls, NotStaging
<1>7. asked'["host"] = source /\ asked'["message"] = asked["message"] /\ DOMAIN asked' = Threads
  BY <1>4 DEF LearnInv, TypeInv, Threads
<1>8. TypeInv'
  BY <1>2, <1>4, <1>5, <1>7, Values
     DEF LearnInv, TypeInv, mailbox, record, pass, bounds
<1>9. HostInv'
  <2>1. Agrees'
    BY <1>3, <1>5 DEF Agrees, record
  <2>2. ASSUME ~mixed PROVE todo["audio"] = <<>> /\ From' = latest
    <3>1. todo["audio"] = <<>>
      BY <1>3, <2>2 DEF Unmixed
    <3>2. From' = IF adaptivePending THEN mirror ELSE engine
      BY <1>5, <1>7 DEF From, source, record
    <3>3. adaptivePending => mirror = latest
      BY <1>6 DEF LearnInv, WaitInv, h
    <3>4. ~adaptivePending => engine = latest
      BY <1>6, <3>1, AudioIdle DEF LearnInv, Known, h
    <3> QED
      BY <3>1, <3>2, <3>3, <3>4
  <2>3. Unmixed("learned")'
    BY <1>2, <1>4, <1>5, <2>2 DEF Unmixed, Copied
  <2> QED
    BY <1>6, <2>1, <2>3 DEF HostInv, k
<1>10. ClickFrame /\ WaitFrame /\ BlockFrame
  BY <1>2, <1>5, <1>6, <1>7
     DEF ClickFrame, WaitFrame, BlockFrame, Known, mailbox, record, pass, h, k
<1> QED
  BY <1>8, <1>9, <1>10, ClickInvKept, WaitInvKept, AudioInvKept DEF LearnInv


\* Copying one part more.
LEMMA CopiedOnset ==
    ASSUME NEW from \in Refs, Normal(from),
           NEW s, s = [Unlearned EXCEPT !.learned = from.learned]
    PROVE  (IF s.learned THEN [s EXCEPT !.onset = from.onset] ELSE s)
             = IF from.learned THEN [from EXCEPT !.tilt = Neutral] ELSE Unlearned
<1>1. from.learned \in BOOLEAN /\ from.onset \in SUBSET Int
  BY DEF Refs
<1>2. Unlearned = [onset |-> {}, tilt |-> {}, learned |-> FALSE] /\ Neutral = {}
  BY DEF Unlearned, Neutral
<1>3. s = [onset |-> {}, tilt |-> {}, learned |-> from.learned]
  BY <1>2
<1>4. CASE from.learned
  <2> DEFINE u == [from EXCEPT !.tilt = Neutral]
             x == [s EXCEPT !.onset = from.onset]
  <2>1. from.learned = TRUE
    BY <1>1, <1>4
  <2>2. u \in Refs /\ u.learned = TRUE /\ u.onset = from.onset /\ u.tilt = {}
    BY <1>2, <2>1 DEF Refs
  <2>3. x \in Refs /\ x.onset = from.onset /\ x.tilt = {} /\ x.learned = TRUE
    <3>1. s \in Refs
      BY <1>1, Values DEF Refs
    <3>2. s.tilt = {} /\ s.learned = TRUE
      BY <1>3, <2>1
    <3> QED
      BY <1>1, <3>1, <3>2 DEF Refs
  <2> HIDE DEF x, u
  <2>4. x = u
    BY <2>2, <2>3, SameRef
  <2> QED
    BY <1>3, <1>4, <2>4 DEF x, u
<1>5. CASE ~from.learned
  <2>1. from.learned = FALSE
    BY <1>1, <1>5
  <2> QED
    BY <1>2, <1>3, <2>1
<1> QED
  BY <1>4, <1>5

LEMMA CopiedTilt ==
    ASSUME NEW from \in Refs, Normal(from),
           NEW s, s = IF from.learned THEN [from EXCEPT !.tilt = Neutral] ELSE Unlearned
    PROVE  (IF s.learned THEN [s EXCEPT !.tilt = from.tilt] ELSE s) = from
<1>1. from.learned \in BOOLEAN /\ from.tilt \in SUBSET Int
  BY DEF Refs
<1>2. CASE from.learned
  <2>1. s \in Refs /\ s.learned /\ s.onset = from.onset /\ s.learned = from.learned
    BY <1>2 DEF Refs, Neutral
  <2> DEFINE x == [s EXCEPT !.tilt = from.tilt]
  <2>2. x \in Refs /\ x.onset = from.onset /\ x.tilt = from.tilt /\ x.learned = from.learned
    BY <1>1, <2>1 DEF Refs
  <2> HIDE DEF x
  <2>3. x = from
    BY <2>2, SameRef
  <2> QED
    BY <2>1, <2>3 DEF x
<1>3. CASE ~from.learned
  BY <1>3, Values DEF Normal
<1> QED
  BY <1>2, <1>3

LEMMA SaveFieldKeeps == ASSUME LearnInv, SaveField PROVE LearnInv'
<1> DEFINE h == todo["host"]
           k == todo'["host"]
<1>1. /\ h # <<>> /\ Then("host", <<>>)
      /\ UNCHANGED <<mailbox, record, taken, engine, pass, asked, mixed, bounds, latest>>
  BY DEF SaveField, At, Idle
<1>2. /\ k = Tail(h) /\ todo' \in [Threads -> Steps]
      /\ todo'["message"] = todo["message"] /\ todo'["audio"] = todo["audio"]
  BY <1>1, SaveGoes DEF LearnInv
<1>3. /\ saved \in Refs /\ From \in Refs /\ latest \in Refs /\ Normal(latest)
      /\ From' = From
  BY <1>1, Values DEF LearnInv, TypeInv, WaitInv, From, record
<1> HIDE DEF h, k
<1>4. saved' \in Refs /\ k \notin Staging /\ h \notin Staging /\ HostInv'
  <2>0. Agrees => Agrees'
    BY <1>1 DEF Agrees, record
  <2>1. CASE At("host", "save learned")
    <3>1. Head(h) = "save learned" /\ saved' = [saved EXCEPT !.learned = From.learned]
      BY <2>1 DEF SaveField, At, From, h
    <3>2. h \in SavingLearned /\ Agrees /\ Unmixed("learned")
      BY <1>1, <3>1, HostAt DEF LearnInv, h
    <3>3. k \in SavingOnset
      BY <1>2, <3>2, HostCalls
    <3>4. saved' \in Refs
      BY <1>3, <3>1 DEF Refs
    <3>5. Unmixed("onset")'
      BY <1>1, <1>2, <1>3, <3>1, <3>2 DEF Unmixed, Copied
    <3> QED
      BY <2>0, <3>2, <3>3, <3>4, <3>5, NotStaging DEF HostInv, k
  <2>2. CASE At("host", "save onset")
    <3>1. /\ Head(h) = "save onset"
          /\ saved' = IF saved.learned THEN [saved EXCEPT !.onset = From.onset] ELSE saved
      BY <2>2 DEF SaveField, At, From, h
    <3>2. h \in SavingOnset /\ Agrees /\ Unmixed("onset")
      BY <1>1, <3>1, HostAt DEF LearnInv, h
    <3>3. k \in SavingTilt
      BY <1>2, <3>2, HostCalls
    <3>4. saved' \in Refs
      BY <1>3, <3>1 DEF Refs
    <3>5. Unmixed("tilt")'
      <4>1. ASSUME ~mixed PROVE /\ todo["audio"] = <<>> /\ From = latest
                                /\ saved = [Unlearned EXCEPT !.learned = latest.learned]
        BY <3>2, <4>1 DEF Unmixed, Copied
      <4>2. ASSUME ~mixed
            PROVE  saved' = IF latest.learned THEN [latest EXCEPT !.tilt = Neutral] ELSE Unlearned
        BY <1>3, <3>1, <4>1, <4>2, CopiedOnset
      <4> QED
        BY <1>1, <1>2, <1>3, <4>1, <4>2 DEF Unmixed, Copied
    <3> QED
      BY <2>0, <3>2, <3>3, <3>4, <3>5, NotStaging DEF HostInv, k
  <2>3. CASE At("host", "save tilt")
    <3>1. /\ Head(h) = "save tilt"
          /\ saved' = IF saved.learned THEN [saved EXCEPT !.tilt = From.tilt] ELSE saved
      BY <2>3 DEF SaveField, At, From, h
    <3>2. h \in SavingTilt /\ Agrees /\ Unmixed("tilt")
      BY <1>1, <3>1, HostAt DEF LearnInv, h
    <3>3. k \in Writing
      BY <1>2, <3>2, HostCalls
    <3>4. saved' \in Refs
      BY <1>3, <3>1 DEF Refs
    <3>5. Unmixed("write")'
      <4>1. ASSUME ~mixed
            PROVE  /\ todo["audio"] = <<>> /\ From = latest
                   /\ saved = IF latest.learned THEN [latest EXCEPT !.tilt = Neutral] ELSE Unlearned
        BY <3>2, <4>1 DEF Unmixed, Copied
      <4>2. ASSUME ~mixed PROVE saved' = latest
        BY <1>3, <3>1, <4>1, <4>2, CopiedTilt
      <4> QED
        BY <1>1, <1>2, <1>3, <4>1, <4>2 DEF Unmixed, Copied
    <3> QED
      BY <2>0, <3>2, <3>3, <3>4, <3>5, NotStaging DEF HostInv, k
  <2> QED
    BY <2>1, <2>2, <2>3 DEF SaveField
<1>5. TypeInv'
  BY <1>1, <1>2, <1>4 DEF LearnInv, TypeInv, mailbox, record, pass, bounds
<1>6. ClickFrame /\ WaitFrame /\ BlockFrame
  BY <1>1, <1>2, <1>4
     DEF ClickFrame, WaitFrame, BlockFrame, Known, mailbox, record, pass, h, k
<1> QED
  BY <1>4, <1>5, <1>6, ClickInvKept, WaitInvKept, AudioInvKept DEF LearnInv

LEMMA WriteKeeps == ASSUME LearnInv, Write PROVE LearnInv'
<1> DEFINE h == todo["host"]
           k == todo'["host"]
<1>1. /\ h # <<>> /\ Head(h) = "write" /\ Then("host", <<>>)
      /\ UNCHANGED <<mailbox, record, taken, engine, pass, asked, saving, bounds, latest>>
  BY DEF Write, At, Idle
<1>2. /\ k = Tail(h) /\ todo' \in [Threads -> Steps]
      /\ todo'["message"] = todo["message"] /\ todo'["audio"] = todo["audio"]
  BY <1>1, SaveGoes DEF LearnInv
<1>3. h \in Writing /\ Agrees
  BY <1>1, HostAt DEF LearnInv
<1> HIDE DEF h, k
<1>4. k \in Ended /\ h \notin Staging
  BY <1>2, <1>3, HostCalls, NotStaging
<1>5. TypeInv'
  BY <1>1, <1>2 DEF LearnInv, TypeInv, mailbox, record, pass, saving, bounds
<1>6. HostInv'
  BY <1>1, <1>3, <1>4 DEF HostInv, Agrees, record, k
<1>7. ClickFrame /\ WaitFrame /\ BlockFrame
  BY <1>1, <1>2, <1>4
     DEF ClickFrame, WaitFrame, BlockFrame, Known, mailbox, record, pass, h, k
<1> QED
  BY <1>5, <1>6, <1>7, ClickInvKept, WaitInvKept, AudioInvKept DEF LearnInv


-----------------------------------------------------------------------------
(* The audio thread.                                                       *)

\* The next step tells where the block has got to.
LEMMA AudioAt ==
    ASSUME AudioInv, todo["audio"] # <<>>
    PROVE  LET a == todo["audio"] IN
           /\ Head(a) \in {"take record", "take word", "sanitise", "finish"} => RestStep
           /\ Head(a) \in {"read learned", "read onset", "read tilt"} => RecordStep
           /\ Head(a) \in {"publish onset", "publish tilt", "publish learned"} =>
                RecordStep \/ \E r \in BOOLEAN : CommitStep(r)
           /\ Head(a) = "commit" => \E r \in BOOLEAN : CommitStep(r)
           /\ Head(a) = "start" => StartStep
           /\ Head(a) = "acted" => EndStep
<1> DEFINE a == todo["audio"]
           Publishes == {"publish onset", "publish tilt", "publish learned"}
<1>1. RestStep => Head(a) \in {"take record", "take word", "sanitise", "finish"}
  <2>1. RestStep => a \in Ended \cup Taking \cup Wording \cup Sanitising \cup Finishing
    BY DEF RestStep
  <2>2. a \notin Ended
    BY HostCalls
  <2> HIDE DEF a
  <2> QED
    BY <2>1, <2>2, BlockCalls
<1>2. \A rests : a \in PublishingOnset(rests) \cup PublishingTilt(rests) \cup PublishingLearned(rests)
                   => Head(a) \in Publishes
  <2> HIDE DEF a
  <2> QED
    BY PublishCalls
<1>3. RecordStep => Head(a) \in {"read learned", "read onset", "read tilt"} \cup Publishes
  <2>1. RecordStep => \/ a \in ReadingLearned \cup ReadingOnset \cup ReadingTilt
                      \/ a \in PublishingOnset(Wording) \cup PublishingTilt(Wording)
                                 \cup PublishingLearned(Wording)
    BY DEF RecordStep
  <2> HIDE DEF a
  <2> QED
    BY <1>2, <2>1, BlockCalls
<1>4. ASSUME NEW r \in BOOLEAN, CommitStep(r)
      PROVE  Head(a) \in {"commit"} \cup Publishes
  <2>1. \/ a \in Committing(r)
        \/ a \in PublishingOnset(After(r)) \cup PublishingTilt(After(r)) \cup PublishingLearned(After(r))
    BY <1>4 DEF CommitStep
  <2> HIDE DEF a
  <2> QED
    BY <1>2, <2>1, BlockCalls
<1>5. StartStep => Head(a) = "start"
  BY BlockCalls DEF StartStep
<1>6. EndStep => Head(a) = "acted"
  BY BlockCalls DEF EndStep
<1>7. RestStep \/ RecordStep \/ (\E r \in BOOLEAN : CommitStep(r)) \/ StartStep \/ EndStep
  BY DEF AudioInv
<1> QED
  BY <1>1, <1>3, <1>4, <1>5, <1>6, <1>7

\* A step of the block, which goes on with what it takes on and the rest.
LEMMA BlockGoes ==
    ASSUME TypeInv, todo["audio"] # <<>>, NEW steps, NEW next \in Steps,
           Then("audio", steps), steps \o Tail(todo["audio"]) = next
    PROVE  /\ todo'["audio"] = next /\ todo' \in [Threads -> Steps]
           /\ todo'["message"] = todo["message"] /\ todo'["host"] = todo["host"]
<1>1. todo \in [Threads -> Steps]
  BY DEF TypeInv
<1>2. todo' = [todo EXCEPT !["audio"] = next]
  BY DEF Then
<1> QED
  BY <1>1, <1>2 DEF Threads

LEMMA BlockSteps ==
    ASSUME TypeInv, todo["audio"] # <<>>, Then("audio", <<>>)
    PROVE  /\ todo'["audio"] = Tail(todo["audio"]) /\ todo' \in [Threads -> Steps]
           /\ todo'["message"] = todo["message"] /\ todo'["host"] = todo["host"]
BY Goes DEF TypeInv, Threads

\* Outside of a load the record staged is the one loaded.
LEMMA StagedAgrees == ASSUME HostInv, todo["host"] \notin Staging PROVE Agrees
<1> DEFINE h == todo["host"]
<1>1. /\ h \notin StagingOnset /\ h \notin StagingTilt
      /\ h \notin StagingLearned /\ h \notin Raising
  BY NotStaging
<1> QED
  BY <1>1 DEF HostInv

LEMMA BlockStepsAre ==
    LET s == <<"take record", "take word", "sanitise", "finish">>
    IN  s \in Taking /\ s \in Steps
<1> DEFINE a == "take record"
           b == "take word"
           c == "sanitise"
           d == "finish"
<1>1. a \in Names /\ b \in Names /\ c \in Names /\ d \in Names
  BY DEF Names
<1>2. /\ Finishing = First(d, Ended) /\ Sanitising = First(c, Finishing)
      /\ Wording = First(b, Sanitising) /\ Taking = First(a, Wording)
  BY DEF Finishing, Sanitising, Wording, Taking
<1> HIDE DEF a, b, c, d
<1>3. <<d>> \in Finishing /\ <<d>> \in Steps
  BY <1>1, <1>2, Alone
<1>4. <<c>> \o <<d>> \in Sanitising /\ <<c>> \o <<d>> \in Steps
  BY <1>1, <1>2, <1>3, FirstIs
<1>0. <<a, b, c, d>> = <<a, b>> \o <<c, d>>
  BY <1>1, Quadruple, SMTT(30)
<1> DEFINE t == <<c, d>>
<1>5. t \in Sanitising /\ t \in Steps
  BY <1>1, <1>4, Pair
<1>6. <<a, b, c, d>> = <<a, b>> \o t
  BY <1>0
<1> HIDE DEF t
<1>7. <<b>> \o t \in Wording /\ <<b>> \o t \in Steps
  BY <1>1, <1>2, <1>5, FirstIs
<1>8. <<a>> \o (<<b>> \o t) \in Taking /\ <<a>> \o (<<b>> \o t) \in Steps
  BY <1>1, <1>2, <1>7, FirstIs
<1>9. <<a, b>> \o t = <<a>> \o (<<b>> \o t)
  BY <1>1, <1>5, Fronts2
<1>10. <<a, b, c, d>> \in Taking /\ <<a, b, c, d>> \in Steps
  BY <1>6, <1>8, <1>9
<1> QED
  BY <1>10 DEF a, b, c, d

LEMMA BlockKeeps == ASSUME LearnInv, Block PROVE LearnInv'
<1> DEFINE steps == <<"take record", "take word", "sanitise", "finish">>
<1>1. /\ todo["audio"] = <<>> /\ todo'["audio"] = steps
      /\ todo'["message"] = todo["message"] /\ todo'["host"] = todo["host"]
      /\ todo' = [todo EXCEPT !["audio"] = steps]
  <2>1. todo \in [Threads -> Steps]
    BY DEF LearnInv, TypeInv
  <2> HIDE DEF steps
  <2>2. Enter("audio", steps)
    BY DEF Block, steps
  <2> QED
    BY <2>1, <2>2 DEF Enter, Idle, Threads
<1>2. steps \in Taking /\ steps \in Steps
  BY BlockStepsAre
<1> HIDE DEF steps
<1>3. /\ block < MaxBlocks /\ block' = block + 1 /\ mixed' = TRUE
      /\ UNCHANGED <<mailbox, record, taken, engine, pass, asked, saved, clicksLeft, hostCalls, latest>>
  BY DEF Block
<1>4. TypeInv'
  <2>1. block \in 0..MaxBlocks /\ block' \in 0..MaxBlocks /\ block' > 0
    BY <1>3, LearnAssumption DEF LearnInv, TypeInv
  <2> QED
    BY <1>1, <1>2, <1>3, <2>1 DEF LearnInv, TypeInv, mailbox, record, pass, Threads
<1>5. AudioInv'
  <2>1. Known => engine = latest
    BY <1>1, AudioIdle DEF LearnInv
  <2>2. RestStep'
    BY <1>1, <1>2, <1>3, <2>1 DEF RestStep, Known, record
  <2> QED
    BY <2>2 DEF AudioInv
<1>6. ClickFrame /\ HostFrame /\ WaitFrame
  BY <1>1, <1>3 DEF ClickFrame, HostFrame, WaitFrame, mailbox, record
<1> QED
  BY <1>4, <1>5, <1>6, ClickInvKept, HostInvKept, WaitInvKept DEF LearnInv

LEMMA TakeRecordKeeps == ASSUME LearnInv, TakeRecord PROVE LearnInv'
<1> DEFINE a == todo["audio"]
           b == todo'["audio"]
           steps == IF adaptivePending THEN <<"read learned">> ELSE <<>>
<1>1. /\ a # <<>> /\ Head(a) = "take record" /\ Then("audio", steps) /\ adaptivePending' = FALSE
      /\ UNCHANGED <<mailbox, staged, mirror, taken, engine, pass, asked, saving, bounds, latest>>
  BY DEF TakeRecord, At, Idle
<1>2. RestStep
  BY <1>1, AudioAt DEF LearnInv
<1>3. a \in Ended \cup Taking \cup Wording \cup Sanitising \cup Finishing /\ (Known => engine = latest)
  BY <1>2 DEF RestStep
<1> DEFINE t == Tail(a)
<1>4. t \in Wording /\ t \in Steps
  <2> HIDE DEF a, b
  <2>1. a \in Taking
    BY <1>1, <1>3, BlockCalls, HostCalls
  <2> QED
    BY <2>1, TailIs, BlockCalls DEF Taking
<1> DEFINE next == IF adaptivePending THEN <<"read learned">> \o t ELSE t
<1>5. next \in Steps /\ steps \o t = next
      /\ IF adaptivePending THEN next \in ReadingLearned ELSE next \in Wording
  <2> HIDE DEF t
  <2>1. <<>> \o t = t
    BY <1>4, NoFront
  <2>2. <<"read learned">> \o t \in ReadingLearned /\ <<"read learned">> \o t \in Steps
    BY <1>4, FirstIs DEF ReadingLearned, Names
  <2> QED
    BY <1>4, <2>1, <2>2
<1> HIDE DEF next, steps
<1>6. /\ b = next /\ todo' \in [Threads -> Steps]
      /\ todo'["message"] = todo["message"] /\ todo'["host"] = todo["host"]
  BY <1>1, <1>5, BlockGoes DEF LearnInv
<1> HIDE DEF a, b
<1>7. TypeInv'
  BY <1>1, <1>6 DEF LearnInv, TypeInv, mailbox, pass, saving, bounds, a
<1>8. AudioInv'
  <2>1. CASE adaptivePending
    <3>1. Known' => mirror = latest
      BY <1>6, <2>1 DEF Known, LearnInv, WaitInv
    <3>2. RecordStep'
      BY <1>1, <1>5, <1>6, <2>1, <3>1 DEF RecordStep, b
    <3> QED
      BY <3>2 DEF AudioInv
  <2>2. CASE ~adaptivePending
    <3>1. Known' => Known
      BY <1>6, <2>2 DEF Known
    <3>2. RestStep'
      BY <1>1, <1>3, <1>5, <1>6, <2>2, <3>1 DEF RestStep, b
    <3> QED
      BY <3>2 DEF AudioInv
  <2> QED
    BY <2>1, <2>2
<1>9. ClickFrame /\ HostFrame /\ WaitFrame
  BY <1>1, <1>6 DEF ClickFrame, HostFrame, WaitFrame, mailbox, saving, a
<1> QED
  BY <1>7, <1>8, <1>9, ClickInvKept, HostInvKept, WaitInvKept DEF LearnInv


\* The publication of a reference, and the rest.
LEMMA PublishIs ==
    ASSUME NEW rests, NEW t \in rests, t \in Steps
    PROVE  Publish \o t \in PublishingOnset(rests) /\ Publish \o t \in Steps
<1>1. <<"publish learned">> \o t \in PublishingLearned(rests)
      /\ <<"publish learned">> \o t \in Steps
  BY FirstIs DEF PublishingLearned, Names
<1>2. <<"publish tilt">> \o (<<"publish learned">> \o t) \in PublishingTilt(rests)
      /\ <<"publish tilt">> \o (<<"publish learned">> \o t) \in Steps
  BY <1>1, FirstIs DEF PublishingTilt, Names
<1>3. <<"publish onset">> \o (<<"publish tilt">> \o (<<"publish learned">> \o t)) \in PublishingOnset(rests)
  BY <1>2, FirstIs DEF PublishingOnset, Names
<1> QED
  BY <1>3, GoesOn

LEMMA ReadRecordKeeps == ASSUME LearnInv, ReadRecord PROVE LearnInv'
<1> DEFINE a == todo["audio"]
           b == todo'["audio"]
           t == Tail(a)
<1>1. /\ a # <<>>
      /\ UNCHANGED <<mailbox, record, engine, pass, asked, saving, bounds, latest>>
      /\ taken \in Refs /\ staged \in Refs /\ latest \in Refs /\ Normal(latest) /\ TypeInv
  BY DEF ReadRecord, At, Idle, LearnInv, TypeInv, WaitInv
<1>2. Known /\ mirror = latest =>
         /\ staged.learned = latest.learned
         /\ latest.learned => staged.onset = latest.onset /\ staged.tilt = latest.tilt
  BY StagedAgrees DEF Known, Agrees, LearnInv
<1>3. Head(a) \in {"read learned", "read onset", "read tilt"} => RecordStep
  BY <1>1, AudioAt DEF LearnInv
<1> HIDE DEF a, b, t
<1>5. /\ taken' \in Refs /\ todo' \in [Threads -> Steps] /\ RecordStep'
      /\ todo'["message"] = todo["message"] /\ todo'["host"] = todo["host"]
  <2>1. CASE At("audio", "read learned")
    <3> DEFINE steps == IF staged.learned THEN <<"read onset", "read tilt">> \o Publish ELSE Publish
               next == IF staged.learned
                       THEN <<"read onset">> \o (<<"read tilt">> \o (Publish \o t))
                       ELSE Publish \o t
    <3>1. Head(a) = "read learned" /\ Then("audio", steps)
          /\ taken' = [Unlearned EXCEPT !.learned = staged.learned]
      BY <2>1 DEF ReadRecord, At, a
    <3>2. a \in ReadingLearned /\ (Known => mirror = latest)
      BY <1>3, <3>1, BlockCalls, PublishCalls DEF RecordStep, a
    <3>3. t \in Wording /\ t \in Steps
      BY <3>2, TailIs DEF ReadingLearned, t
    <3>4. /\ Publish \o t \in PublishingOnset(Wording) /\ Publish \o t \in Steps
      BY <3>3, PublishIs
    <3>5. /\ next \in Steps /\ steps \o t = next
          /\ IF staged.learned THEN next \in ReadingOnset ELSE next \in PublishingOnset(Wording)
      <4>1. <<"read tilt">> \o (Publish \o t) \in ReadingTilt
            /\ <<"read tilt">> \o (Publish \o t) \in Steps
        BY <3>4, FirstIs DEF ReadingTilt, Names
      <4>2. <<"read onset">> \o (<<"read tilt">> \o (Publish \o t)) \in ReadingOnset
            /\ <<"read onset">> \o (<<"read tilt">> \o (Publish \o t)) \in Steps
        BY <4>1, FirstIs DEF ReadingOnset, Names
      <4>3. <<"read onset", "read tilt">> \o Publish \o t
              = <<"read onset">> \o (<<"read tilt">> \o (Publish \o t))
        BY <3>3, GoesOn
      <4> QED
        BY <3>4, <4>2, <4>3
    <3> HIDE DEF steps, next
    <3>6. /\ b = next /\ todo' \in [Threads -> Steps]
          /\ todo'["message"] = todo["message"] /\ todo'["host"] = todo["host"]
      BY <1>1, <3>1, <3>5, BlockGoes DEF a, b, t
    <3>7. staged.learned \in BOOLEAN /\ Unlearned \in Refs /\ Unlearned.learned = FALSE
      BY <1>1, Values DEF Refs
    <3>8. taken' \in Refs /\ taken'.learned = staged.learned
      BY <3>1, <3>7 DEF Refs
    <3>9. Known' => Known /\ mirror' = mirror /\ latest' = latest
      BY <1>1, <3>6 DEF Known, record
    <3>10. CASE staged.learned
      <4>1. Known' => mirror' = latest' /\ latest'.learned /\ taken'.learned
        BY <1>2, <3>2, <3>8, <3>9, <3>10
      <4> QED
        BY <3>5, <3>6, <3>8, <3>10, <4>1 DEF RecordStep, b
    <3>11. CASE ~staged.learned
      <4>1. taken' = Unlearned
        BY <3>7, <3>8, <3>1, <3>11 DEF Unlearned
      <4>2. Known => latest = Unlearned
        BY <1>1, <1>2, <3>2, <3>11 DEF Normal
      <4>3. Known' => taken' = latest'
        BY <3>9, <4>1, <4>2
      <4> QED
        BY <3>5, <3>6, <3>8, <3>11, <4>3 DEF RecordStep, b
    <3> QED
      BY <3>10, <3>11
  <2>2. CASE At("audio", "read onset")
    <3>1. Head(a) = "read onset" /\ Then("audio", <<>>)
          /\ taken' = [taken EXCEPT !.onset = staged.onset]
      BY <2>2 DEF ReadRecord, At, a
    <3>2. a \in ReadingOnset /\ (Known => mirror = latest /\ latest.learned /\ taken.learned)
      BY <1>3, <3>1, BlockCalls, PublishCalls DEF RecordStep, a
    <3>3. /\ b = t /\ todo' \in [Threads -> Steps]
          /\ todo'["message"] = todo["message"] /\ todo'["host"] = todo["host"]
      BY <1>1, <3>1, BlockSteps DEF a, b, t
    <3>4. b \in ReadingTilt
      BY <3>2, <3>3, BlockCalls DEF t
    <3>5. taken' \in Refs /\ taken'.onset = staged.onset /\ taken'.learned = taken.learned
      BY <1>1, <3>1 DEF Refs
    <3>6. Known' => Known /\ mirror' = mirror /\ latest' = latest
      BY <1>1, <3>3 DEF Known, record
    <3>7. Known' => /\ mirror' = latest' /\ latest'.learned /\ taken'.learned
                    /\ taken'.onset = latest'.onset
      BY <1>2, <3>2, <3>5, <3>6
    <3> QED
      BY <3>3, <3>4, <3>5, <3>7 DEF RecordStep, b
  <2>3. CASE At("audio", "read tilt")
    <3>1. Head(a) = "read tilt" /\ Then("audio", <<>>)
          /\ taken' = [taken EXCEPT !.tilt = staged.tilt]
      BY <2>3 DEF ReadRecord, At, a
    <3>2. a \in ReadingTilt /\ (Known => /\ mirror = latest /\ latest.learned /\ taken.learned
                                         /\ taken.onset = latest.onset)
      BY <1>3, <3>1, BlockCalls, PublishCalls DEF RecordStep, a
    <3>3. /\ b = t /\ todo' \in [Threads -> Steps]
          /\ todo'["message"] = todo["message"] /\ todo'["host"] = todo["host"]
      BY <1>1, <3>1, BlockSteps DEF a, b, t
    <3>4. b \in PublishingOnset(Wording)
      BY <3>2, <3>3, BlockCalls DEF t
    <3>5. /\ taken' \in Refs /\ taken'.tilt = staged.tilt
          /\ taken'.learned = taken.learned /\ taken'.onset = taken.onset
      BY <1>1, <3>1 DEF Refs
    <3>6. Known' => Known /\ mirror' = mirror /\ latest' = latest
      BY <1>1, <3>3 DEF Known, record
    <3>7. Known => taken' = latest
      <4> SUFFICES ASSUME Known PROVE taken' = latest
        OBVIOUS
      <4>1. /\ taken'.tilt = latest.tilt /\ taken'.onset = latest.onset
            /\ latest.learned /\ taken'.learned
        BY <1>2, <3>2, <3>5
      <4>2. latest.learned \in BOOLEAN /\ taken'.learned \in BOOLEAN
        BY <1>1, <3>5 DEF Refs
      <4>3. taken'.learned = latest.learned
        BY <4>1, <4>2
      <4> QED
        BY <1>1, <3>5, <4>1, <4>3, SameRef
    <3> QED
      BY <3>3, <3>4, <3>5, <3>6, <3>7 DEF RecordStep, b
  <2> QED
    BY <2>1, <2>2, <2>3 DEF ReadRecord
<1>6. TypeInv'
  BY <1>1, <1>5 DEF TypeInv, mailbox, record, pass, saving, bounds, a
<1>7. ClickFrame /\ HostFrame /\ WaitFrame
  BY <1>1, <1>5 DEF ClickFrame, HostFrame, WaitFrame, mailbox, record, saving, a
<1> QED
  BY <1>5, <1>6, <1>7, ClickInvKept, HostInvKept, WaitInvKept DEF LearnInv, AudioInv


LEMMA PublishFieldKeeps == ASSUME LearnInv, PublishField PROVE LearnInv'
<1> DEFINE a == todo["audio"]
           b == todo'["audio"]
           Commits == \E r \in BOOLEAN : CommitStep(r)
<1>1. /\ a # <<>> /\ Then("audio", <<>>)
      /\ UNCHANGED <<mailbox, record, taken, pass, asked, saving, bounds>>
      /\ taken \in Refs /\ engine \in Refs /\ latest \in Refs /\ Normal(latest) /\ TypeInv
  BY DEF PublishField, At, Idle, LearnInv, TypeInv, WaitInv
<1>2. Head(a) \in {"publish onset", "publish tilt", "publish learned"} => RecordStep \/ Commits
  BY <1>1, AudioAt DEF LearnInv
<1>3. /\ b = Tail(a) /\ todo' \in [Threads -> Steps]
      /\ todo'["message"] = todo["message"] /\ todo'["host"] = todo["host"]
  BY <1>1, BlockSteps
<1> HIDE DEF a, b, Commits
<1>4. Known' <=> Known
  BY <1>1, <1>3 DEF Known, record
<1>5. /\ engine' \in Refs /\ latest' \in Refs /\ AudioInv'
      /\ latest' = latest \/ (latest' = taken /\ taken.learned /\ ~adaptivePending)
  <2>1. CASE At("audio", "publish onset")
    <3>1. Head(a) = "publish onset" /\ engine' = [engine EXCEPT !.onset = taken.onset] /\ latest' = latest
      BY <2>1 DEF PublishField, At, a
    <3>2. engine' \in Refs /\ engine'.onset = taken.onset
      BY <1>1, <3>1 DEF Refs
    <3>3. CASE RecordStep
      <4>1. a \in PublishingOnset(Wording) /\ (Known => taken = latest)
        BY <3>1, <3>3, BlockCalls, PublishCalls DEF RecordStep, a
      <4>2. b \in PublishingTilt(Wording)
        BY <1>3, <4>1, PublishCalls
      <4>3. RecordStep'
        BY <1>1, <1>4, <3>1, <3>2, <4>1, <4>2 DEF RecordStep, b
      <4> QED
        BY <3>1, <3>2, <4>3, <1>1 DEF AudioInv
    <3>4. CASE Commits
      <4>1. PICK r \in BOOLEAN : CommitStep(r)
        BY <3>4 DEF Commits
      <4>2. /\ a \in PublishingOnset(After(r)) /\ (Fair => expect.active = r)
            /\ Committed /\ learnActive = FALSE /\ (Fair => taken = expect.refs)
        BY <3>1, <4>1, BlockCalls, PublishCalls DEF CommitStep, a
      <4>3. b \in PublishingTilt(After(r))
        BY <1>3, <4>2, PublishCalls
      <4>4. CommitStep(r)'
        BY <1>1, <3>2, <4>2, <4>3 DEF CommitStep, Committed, Fair, mailbox, pass, b
      <4> QED
        BY <3>1, <3>2, <4>4, <1>1 DEF AudioInv
    <3> QED
      BY <1>2, <3>1, <3>3, <3>4
  <2>2. CASE At("audio", "publish tilt")
    <3>1. Head(a) = "publish tilt" /\ engine' = [engine EXCEPT !.tilt = taken.tilt] /\ latest' = latest
      BY <2>2 DEF PublishField, At, a
    <3>2. engine' \in Refs /\ engine'.tilt = taken.tilt /\ engine'.onset = engine.onset
      BY <1>1, <3>1 DEF Refs
    <3>3. CASE RecordStep
      <4>1. a \in PublishingTilt(Wording) /\ (Known => taken = latest /\ engine.onset = latest.onset)
        BY <3>1, <3>3, BlockCalls, PublishCalls DEF RecordStep, a
      <4>2. b \in PublishingLearned(Wording)
        BY <1>3, <4>1, PublishCalls
      <4>3. RecordStep'
        BY <1>1, <1>4, <3>1, <3>2, <4>1, <4>2 DEF RecordStep, b
      <4> QED
        BY <3>1, <3>2, <4>3, <1>1 DEF AudioInv
    <3>4. CASE Commits
      <4>1. PICK r \in BOOLEAN : CommitStep(r)
        BY <3>4 DEF Commits
      <4>2. /\ a \in PublishingTilt(After(r)) /\ (Fair => expect.active = r)
            /\ Committed /\ learnActive = FALSE /\ (Fair => taken = expect.refs)
            /\ engine.onset = taken.onset
        BY <3>1, <4>1, BlockCalls, PublishCalls DEF CommitStep, a
      <4>3. b \in PublishingLearned(After(r))
        BY <1>3, <4>2, PublishCalls
      <4>4. CommitStep(r)'
        BY <1>1, <3>2, <4>2, <4>3 DEF CommitStep, Committed, Fair, mailbox, pass, b
      <4> QED
        BY <3>1, <3>2, <4>4, <1>1 DEF AudioInv
    <3> QED
      BY <1>2, <3>1, <3>3, <3>4
  <2>3. CASE At("audio", "publish learned")
    <3> DEFINE newest == taken.onset \subseteq 1..MaxBlocks /\ taken.learned /\ ~adaptivePending
    <3>1. /\ Head(a) = "publish learned" /\ engine' = [engine EXCEPT !.learned = taken.learned]
          /\ latest' = IF newest THEN taken ELSE latest
      BY <2>3 DEF PublishField, At, a
    <3>2. /\ engine' \in Refs /\ engine'.learned = taken.learned
          /\ engine'.onset = engine.onset /\ engine'.tilt = engine.tilt
      BY <1>1, <3>1 DEF Refs
    <3>3. engine.onset = taken.onset /\ engine.tilt = taken.tilt => engine' = taken
      BY <1>1, <3>2, SameRef
    <3>4. latest' \in Refs /\ (latest' = latest \/ (latest' = taken /\ taken.learned /\ ~adaptivePending))
      BY <1>1, <3>1
    <3>5. CASE RecordStep
      <4>1. a \in PublishingLearned(Wording)
            /\ (Known => taken = latest /\ engine.onset = latest.onset /\ engine.tilt = latest.tilt)
        BY <3>1, <3>5, BlockCalls, PublishCalls DEF RecordStep, a
      <4>2. b \in Wording
        BY <1>3, <4>1, PublishCalls
      <4>3. Known' => engine' = latest'
        BY <1>4, <3>3, <3>4, <4>1
      <4>4. RestStep'
        BY <4>2, <4>3 DEF RestStep, b
      <4> QED
        BY <3>2, <3>4, <4>4 DEF AudioInv
    <3>6. CASE Commits
      <4>1. PICK r \in BOOLEAN : CommitStep(r)
        BY <3>6 DEF Commits
      <4>2. /\ a \in PublishingLearned(After(r)) /\ (Fair => expect.active = r)
            /\ Committed /\ learnActive = FALSE /\ (Fair => taken = expect.refs)
            /\ engine.onset = taken.onset /\ engine.tilt = taken.tilt
        BY <3>1, <4>1, BlockCalls, PublishCalls DEF CommitStep, a
      <4>3. b \in After(r) /\ engine' = taken
        BY <1>3, <3>3, <4>2, PublishCalls
      <4>4. Known' => engine' = latest'
        <5>1. Known => newest
          BY <4>2 DEF Known, Committed
        <5> QED
          BY <1>4, <3>1, <4>3, <5>1
      <4>5. /\ Fair' <=> Fair
            /\ expect' = expect /\ learnActive' = FALSE
        BY <1>1, <4>2 DEF Fair, mailbox, pass
      <4>6. CASE r
        <5>1. r = TRUE /\ b \in Starting
          BY <4>3, <4>6 DEF After
        <5>2. StartStep'
          BY <4>2, <4>3, <4>4, <4>5, <5>1 DEF StartStep, b
        <5> QED
          BY <3>2, <3>4, <5>2 DEF AudioInv
      <4>7. CASE ~r
        <5>1. r = FALSE /\ b \in Acting
          BY <4>3, <4>7 DEF After
        <5>2. EndStep'
          BY <4>2, <4>3, <4>4, <4>5, <5>1 DEF EndStep, Obeyed, b
        <5> QED
          BY <3>2, <3>4, <5>2 DEF AudioInv
      <4> QED
        BY <4>6, <4>7
    <3> QED
      BY <1>2, <3>1, <3>5, <3>6
  <2> QED
    BY <2>1, <2>2, <2>3 DEF PublishField
<1>6. TypeInv'
  BY <1>1, <1>3, <1>5 DEF TypeInv, mailbox, record, pass, saving, bounds, a
<1>7. WaitInv'
  BY <1>1, <1>3, <1>5 DEF LearnInv, WaitInv, Normal, record
<1>8. ClickFrame /\ HostFrame
  BY <1>1, <1>3 DEF ClickFrame, HostFrame, mailbox, record, saving, a
<1> QED
  BY <1>5, <1>6, <1>7, <1>8, ClickInvKept, HostInvKept DEF LearnInv


\* What the word that the clicks compose tells of them.
LEMMA WordMeans ==
    ASSUME NEW cs \in Seq(Verbs)
    PROVE  LET w == WordOf(cs)
               plain == cs = <<>> \/ Head(cs) = "stop" \/ "stop" \notin Range(cs)
           IN  /\ w = "commit" => cs # <<>> /\ Last(cs) # "start" /\ (plain => Head(cs) = "stop")
               /\ w = "commitThenStart" =>
                    cs # <<>> /\ Last(cs) = "start" /\ (plain => Head(cs) = "stop")
               /\ w = "start" => cs # <<>> /\ Last(cs) = "start" /\ Head(cs) # "stop"
               /\ w \notin {"commit", "commitThenStart", "start"} => cs = <<>>
<1>1. CASE cs = <<>>
  BY <1>1 DEF WordOf
<1>2. CASE cs # <<>>
  <2>1. Len(cs) \in Nat /\ Len(cs) > 0 /\ DOMAIN cs = 1..Len(cs)
        /\ \A i \in 1..Len(cs) : cs[i] \in Verbs
    BY <1>2, EmptySeq, LenProperties, ElementOfSeq
  <2>2. Last(cs) \in Range(cs) /\ Last(cs) \in Verbs
    BY <2>1 DEF Last, Range
  <2>3. Head(cs) \in Range(cs)
    <3>1. Head(cs) = cs[1] /\ 1 \in DOMAIN cs
      BY <1>2, <2>1
    <3> QED
      BY <3>1 DEF Range
  <2>4. Last(cs) = "start" \/ Last(cs) = "stop"
    BY <2>2 DEF Verbs
  <2> DEFINE has == "stop" \in Range(cs)
  <2>5. (Last(cs) = "stop" => has) /\ (Head(cs) = "stop" => has)
    BY <2>2, <2>3
  <2>6. WordOf(cs) = IF Last(cs) = "stop" THEN "commit" ELSE IF has THEN "commitThenStart" ELSE "start"
    BY <1>2 DEF WordOf
  <2> HIDE DEF has
  <2>7. (cs = <<>> \/ Head(cs) = "stop" \/ ~has) <=> (Head(cs) = "stop" \/ ~has)
    BY <1>2
  <2>8. CASE Last(cs) = "stop"
    BY <1>2, <2>5, <2>6, <2>8 DEF has
  <2>9. CASE Last(cs) = "start"
    BY <1>2, <2>5, <2>6, <2>9 DEF has
  <2> QED
    BY <2>4, <2>8, <2>9
<1> QED
  BY <1>1, <1>2

\* What a word makes the block do.
LEMMA ActsAre ==
    ASSUME NEW word, NEW t \in Sanitising, t \in Steps
    PROVE  LET next == (ActsOf(word) \o <<"acted">>) \o t IN
           /\ next \in Steps
           /\ word = "commit" => next \in Committing(FALSE)
           /\ word = "commitThenStart" => next \in Committing(TRUE)
           /\ word = "start" => next \in Starting
           /\ word \notin {"commit", "commitThenStart", "start"} => next \in Acting
<1> DEFINE acts == ActsOf(word)
           u == <<"acted">> \o t
           c == "commit"
           s == "start"
<1>1. c \in Names /\ s \in Names /\ "acted" \in Names
  BY DEF Names
<1>2. u \in Acting /\ u \in Steps
  BY <1>1, FirstIs DEF Acting
<1>3. <<s>> \o u \in Starting /\ <<s>> \o u \in Steps
  BY <1>1, <1>2, FirstIs DEF Starting
<1>4. <<c>> \o u \in Committing(FALSE) /\ <<c>> \o u \in Steps
  BY <1>1, <1>2, FirstIs DEF Committing, After
<1>5. <<c>> \o (<<s>> \o u) \in Committing(TRUE) /\ <<c>> \o (<<s>> \o u) \in Steps
  BY <1>1, <1>3, FirstIs DEF Committing, After
<1> HIDE DEF c, s
<1>6. /\ <<c>> \in Steps /\ <<s>> \in Steps /\ <<>> \in Steps /\ <<"acted">> \in Steps
      /\ <<c>> \o <<s>> \in Steps
  BY <1>1, Pair, JoinedIsSteps
<1>7. acts = (IF word \in {"commit", "commitThenStart"} THEN <<c>> ELSE <<>>)
                \o (IF word \in {"start", "commitThenStart"} THEN <<s>> ELSE <<>>)
  BY DEF ActsOf, Only, c, s
<1> HIDE DEF acts, u
<1>8. /\ word = "commit" => acts = <<c>> \o <<>>
      /\ word = "commitThenStart" => acts = <<c>> \o <<s>>
      /\ word = "start" => acts = <<>> \o <<s>>
      /\ word \notin {"commit", "commitThenStart", "start"} => acts = <<>> \o <<>>
  BY <1>7
<1>9. /\ <<c>> \o <<>> = <<c>> /\ <<>> \o <<s>> = <<s>> /\ <<>> \o <<>> = <<>>
  BY <1>6, ConcatEmptySeq DEF Steps
<1>10. acts \in Steps
  BY <1>6, <1>8, <1>9
<1>11. (acts \o <<"acted">>) \o t = acts \o u
  BY <1>6, <1>10, Joined DEF u
<1>12. (<<c>> \o <<s>>) \o u = <<c>> \o (<<s>> \o u) /\ <<>> \o u = u
  BY <1>2, <1>6, Joined, NoFront
<1>13. /\ acts \o u \in Steps
       /\ word = "commit" => acts \o u \in Committing(FALSE)
       /\ word = "commitThenStart" => acts \o u \in Committing(TRUE)
       /\ word = "start" => acts \o u \in Starting
       /\ word \notin {"commit", "commitThenStart", "start"} => acts \o u \in Acting
  <2>1. acts \o u \in Steps
    BY <1>2, <1>10, JoinedIsSteps
  <2>2. word = "commit" => acts \o u \in Committing(FALSE)
    BY <1>4, <1>8, <1>9
  <2>3. word = "commitThenStart" => acts \o u \in Committing(TRUE)
    BY <1>5, <1>8, <1>12
  <2>4. word = "start" => acts \o u \in Starting
    BY <1>3, <1>8, <1>9
  <2>5. word \notin {"commit", "commitThenStart", "start"} => acts \o u \in Acting
    BY <1>2, <1>8, <1>9, <1>12
  <2> QED
    BY <2>1, <2>2, <2>3, <2>4, <2>5
<1> QED
  BY <1>11, <1>13 DEF acts

LEMMA TakeWordKeeps == ASSUME LearnInv, TakeWord PROVE LearnInv'
<1> DEFINE a == todo["audio"]
           b == todo'["audio"]
           t == Tail(a)
           next == (ActsOf(learnCmd) \o <<"acted">>) \o t
           ran == sums # {} /\ ~ruined
<1>1. /\ a # <<>> /\ Head(a) = "take word" /\ Then("audio", ActsOf(learnCmd) \o <<"acted">>)
      /\ learnCmd' = "none" /\ clicks' = <<>>
      /\ UNCHANGED <<record, taken, engine, pass, asked, saving, bounds, latest>>
      /\ clicks \in Seq(Verbs) /\ TypeInv
  BY DEF TakeWord, At, Idle, LearnInv, TypeInv
<1>2. /\ raced' = (At("message", "store start") \/ At("message", "store commit"))
      /\ expect' = [active |-> IF clicks = <<>> THEN learnActive ELSE Last(clicks) = "start",
                    refs   |-> IF clicks # <<>> /\ Head(clicks) = "stop" /\ ran
                               THEN Of(sums) ELSE engine,
                    plain  |-> clicks = <<>> \/ Head(clicks) = "stop" \/ "stop" \notin Range(clicks),
                    whole  |-> ~raced]
  BY DEF TakeWord
<1>3. RestStep
  BY <1>1, AudioAt DEF LearnInv
<1>4. a \in Ended \cup Taking \cup Wording \cup Sanitising \cup Finishing /\ (Known => engine = latest)
  BY <1>3 DEF RestStep
<1>5. t \in Sanitising /\ t \in Steps
  <2> HIDE DEF a, b
  <2>1. a \in Wording
    BY <1>1, <1>4, BlockCalls, HostCalls
  <2> QED
    BY <2>1, TailIs DEF Wording
<1> HIDE DEF t, ran
<1>6. /\ next \in Steps
      /\ learnCmd = "commit" => next \in Committing(FALSE)
      /\ learnCmd = "commitThenStart" => next \in Committing(TRUE)
      /\ learnCmd = "start" => next \in Starting
      /\ learnCmd \notin {"commit", "commitThenStart", "start"} => next \in Acting
  BY <1>5, ActsAre
<1> HIDE DEF next
<1>7. /\ b = next /\ todo' \in [Threads -> Steps]
      /\ todo'["message"] = todo["message"] /\ todo'["host"] = todo["host"]
  BY <1>1, <1>6, BlockGoes DEF next, t
<1> HIDE DEF a, b
<1>8. /\ expect'.active = (IF clicks = <<>> THEN learnActive ELSE Last(clicks) = "start")
      /\ expect'.refs = (IF clicks # <<>> /\ Head(clicks) = "stop" /\ ran THEN Of(sums) ELSE engine)
      /\ expect'.plain = (clicks = <<>> \/ Head(clicks) = "stop" \/ "stop" \notin Range(clicks))
      /\ expect'.whole = ~raced
  BY <1>2
<1>9. Fair' => /\ clicks = <<>> \/ Head(clicks) = "stop" \/ "stop" \notin Range(clicks)
               /\ learnCmd = WordOf(clicks)
  BY <1>8 DEF Fair, LearnInv, ClickInv
<1>10. /\ Fair' /\ learnCmd = "commit" =>
            clicks # <<>> /\ Last(clicks) # "start" /\ Head(clicks) = "stop"
       /\ Fair' /\ learnCmd = "commitThenStart" =>
            clicks # <<>> /\ Last(clicks) = "start" /\ Head(clicks) = "stop"
       /\ Fair' /\ learnCmd = "start" =>
            clicks # <<>> /\ Last(clicks) = "start" /\ Head(clicks) # "stop"
       /\ Fair' /\ learnCmd \notin {"commit", "commitThenStart", "start"} => clicks = <<>>
  BY <1>1, <1>9, WordMeans
<1>11. /\ Known' <=> Known
       /\ UNCHANGED <<engine, latest, sums, ruined, learnActive, taken, mirror>>
  BY <1>1, <1>7 DEF Known, record, pass
<1>12. AudioInv'
  <2>1. CASE learnCmd \in {"commit", "commitThenStart"}
    <3>0. PICK r \in BOOLEAN : r = (learnCmd = "commitThenStart")
      OBVIOUS
    <3>1. b \in Committing(r)
      <4>1. CASE learnCmd = "commit"
        <5>1. r = FALSE
          BY <3>0, <4>1
        <5> QED
          BY <1>6, <1>7, <4>1, <5>1
      <4>2. CASE learnCmd = "commitThenStart"
        <5>1. r = TRUE
          BY <3>0, <4>2
        <5> QED
          BY <1>6, <1>7, <4>2, <5>1
      <4> QED
        BY <2>1, <4>1, <4>2
    <3>2. Fair' => /\ expect'.active = r
                   /\ expect'.refs = IF ran THEN Of(sums) ELSE engine
      BY <1>8, <1>10, <2>1, <3>0
    <3>3. CommitStep(r)'
      BY <1>4, <1>11, <3>1, <3>2 DEF CommitStep, ran, b
    <3> QED
      BY <3>1, <3>3 DEF AudioInv
  <2>2. CASE learnCmd = "start"
    <3>1. b \in Starting
      BY <1>6, <1>7, <2>2
    <3>2. Fair' => expect'.active = TRUE /\ engine' = expect'.refs
      BY <1>8, <1>10, <1>11, <2>2
    <3>3. StartStep'
      BY <1>4, <1>11, <3>1, <3>2 DEF StartStep, b
    <3> QED
      BY <3>3 DEF AudioInv
  <2>3. CASE learnCmd \notin {"commit", "commitThenStart", "start"}
    <3>1. b \in Acting
      BY <1>6, <1>7, <2>3
    <3>2. Fair' => learnActive' = expect'.active /\ engine' = expect'.refs
      BY <1>8, <1>10, <1>11, <2>3
    <3>3. EndStep'
      BY <1>4, <1>11, <3>1, <3>2 DEF EndStep, Obeyed, b
    <3> QED
      BY <3>3 DEF AudioInv
  <2> QED
    BY <2>1, <2>2, <2>3
<1>13. TypeInv'
  <2>1. Of(sums) \in Refs /\ engine \in Refs /\ learnActive \in BOOLEAN /\ raced \in BOOLEAN
    BY <1>1, PassIsRef DEF TypeInv
  <2>2. expect' \in [active : BOOLEAN, refs : Refs, plain : BOOLEAN, whole : BOOLEAN]
    BY <1>2, <2>1
  <2>3. clicks' \in Seq(Verbs) /\ raced' \in BOOLEAN
    <3>1. clicks' \in Seq(Verbs)
      BY <1>1, EmptySeq
    <3>2. raced' \in BOOLEAN
      BY <1>2
    <3> QED
      BY <3>1, <3>2
  <2> QED
    BY <1>1, <1>7, <2>2, <2>3 DEF TypeInv, record, pass, saving, bounds, a
<1>14. ClickInv'
  <2>1. learnCmd' = WordOf(clicks')
    BY <1>1 DEF WordOf
  <2>2. todo["message"] \in StoringStart => raced'
    BY <1>2, ClickCalls DEF At, Idle
  <2> QED
    BY <1>7, <2>1, <2>2 DEF LearnInv, ClickInv
<1>15. HostFrame /\ WaitFrame
  BY <1>1, <1>7 DEF HostFrame, WaitFrame, record, saving, a
<1> QED
  BY <1>12, <1>13, <1>14, <1>15, HostInvKept, WaitInvKept DEF LearnInv


LEMMA CommitLearnKeeps == ASSUME LearnInv, CommitLearn PROVE LearnInv'
<1> DEFINE a == todo["audio"]
           b == todo'["audio"]
           t == Tail(a)
           ran == sums # {} /\ ~ruined
           steps == IF ran THEN Publish ELSE <<>>
           next == IF ran THEN Publish \o t ELSE t
<1>1. /\ a # <<>> /\ Head(a) = "commit" /\ learnActive' = FALSE
      /\ taken' = (IF ran THEN Of(sums) ELSE taken) /\ Then("audio", steps)
      /\ UNCHANGED <<mailbox, record, engine, sums, ruined, asked, saving, bounds, latest>>
      /\ TypeInv /\ sums \subseteq 1..MaxBlocks
  BY DEF CommitLearn, At, Idle, LearnInv, TypeInv
<1>2. PICK r \in BOOLEAN : CommitStep(r)
  BY <1>1, AudioAt DEF LearnInv
<1> HIDE DEF ran
<1>3. /\ a \in Committing(r) /\ (Fair => expect.active = r)
      /\ Known => engine = latest
      /\ Fair => expect.refs = IF ran THEN Of(sums) ELSE engine
  <2>1. a \notin PublishingOnset(After(r)) /\ a \notin PublishingTilt(After(r))
        /\ a \notin PublishingLearned(After(r))
    <3>1. Head(a) = "commit"
      BY <1>1
    <3> HIDE DEF a
    <3> QED
      BY <3>1, PublishCalls
  <2> QED
    BY <1>2, <2>1 DEF CommitStep, ran
<1>4. t \in After(r) /\ t \in Steps
  <2>1. a \in Committing(r)
    BY <1>3
  <2> HIDE DEF a
  <2> QED
    BY <2>1, TailIs DEF Committing
<1> HIDE DEF t
<1>5. /\ next \in Steps /\ steps \o t = next
      /\ IF ran THEN next \in PublishingOnset(After(r)) ELSE next \in After(r)
  BY <1>4, PublishIs, NoFront
<1> HIDE DEF next, steps
<1>6. /\ b = next /\ todo' \in [Threads -> Steps]
      /\ todo'["message"] = todo["message"] /\ todo'["host"] = todo["host"]
  BY <1>1, <1>5, BlockGoes DEF t
<1> HIDE DEF a, b
<1>7. /\ Known' <=> Known
      /\ Fair' <=> Fair
      /\ UNCHANGED <<engine, latest, expect>>
  BY <1>1, <1>6 DEF Known, Fair, record, mailbox
<1>8. Of(sums) \in Refs /\ Of(sums).learned /\ Of(sums).onset = sums
  BY <1>1, PassIsRef
<1>9. AudioInv'
  <2>1. CASE ran
    <3>1. Committed' /\ learnActive' = FALSE /\ (Fair' => taken' = expect'.refs)
      BY <1>1, <1>3, <1>7, <1>8, <2>1 DEF Committed
    <3>2. b \in PublishingOnset(After(r)) /\ (Fair' => expect'.active = r)
      BY <1>3, <1>5, <1>6, <1>7, <2>1
    <3>3. CommitStep(r)'
      BY <3>1, <3>2 DEF CommitStep, b
    <3> QED
      BY <3>3 DEF AudioInv
  <2>2. CASE ~ran
    <3>1. /\ b \in After(r) /\ (Known' => engine' = latest')
          /\ Fair' => expect'.active = r /\ engine' = expect'.refs
      BY <1>3, <1>5, <1>6, <1>7, <2>2
    <3>2. CASE r
      <4>1. r = TRUE /\ b \in Starting
        BY <3>1, <3>2 DEF After
      <4>2. StartStep'
        BY <3>1, <4>1 DEF StartStep, b
      <4> QED
        BY <4>2 DEF AudioInv
    <3>3. CASE ~r
      <4>1. r = FALSE /\ b \in Acting
        BY <3>1, <3>3 DEF After
      <4>2. EndStep'
        BY <1>1, <3>1, <4>1 DEF EndStep, Obeyed, b
      <4> QED
        BY <4>2 DEF AudioInv
    <3> QED
      BY <3>2, <3>3
  <2> QED
    BY <2>1, <2>2
<1>10. TypeInv'
  <2>1. taken' \in Refs
    BY <1>1, <1>8 DEF TypeInv
  <2> QED
    BY <1>1, <1>6, <2>1 DEF TypeInv, mailbox, record, saving, bounds, a
<1>11. ClickFrame /\ HostFrame /\ WaitFrame
  BY <1>1, <1>6 DEF ClickFrame, HostFrame, WaitFrame, mailbox, record, saving, a
<1> QED
  BY <1>9, <1>10, <1>11, ClickInvKept, HostInvKept, WaitInvKept DEF LearnInv

LEMMA StartLearnKeeps == ASSUME LearnInv, StartLearn PROVE LearnInv'
<1> DEFINE a == todo["audio"]
           b == todo'["audio"]
<1>1. /\ a # <<>> /\ Head(a) = "start" /\ Then("audio", <<>>)
      /\ learnActive' = TRUE /\ sums' = {} /\ ruined' = FALSE
      /\ UNCHANGED <<mailbox, record, taken, engine, asked, saving, bounds, latest>>
      /\ TypeInv
  BY DEF StartLearn, At, Idle, LearnInv
<1>2. StartStep
  BY <1>1, AudioAt DEF LearnInv
<1>3. /\ b = Tail(a) /\ todo' \in [Threads -> Steps]
      /\ todo'["message"] = todo["message"] /\ todo'["host"] = todo["host"]
  BY <1>1, BlockSteps
<1>4. a \in Starting
  BY <1>2 DEF StartStep
<1> HIDE DEF a, b
<1>5. b \in Acting
  BY <1>3, <1>4, BlockCalls
<1>6. /\ Known' <=> Known
      /\ Fair' <=> Fair
      /\ UNCHANGED <<engine, latest, expect>>
  BY <1>1, <1>3 DEF Known, Fair, record, mailbox
<1>7. EndStep'
  BY <1>1, <1>2, <1>5, <1>6 DEF StartStep, EndStep, Obeyed, b
<1>8. TypeInv'
  BY <1>1, <1>3 DEF TypeInv, mailbox, record, saving, bounds, a
<1>9. ClickFrame /\ HostFrame /\ WaitFrame
  BY <1>1, <1>3 DEF ClickFrame, HostFrame, WaitFrame, mailbox, record, saving, a
<1> QED
  BY <1>7, <1>8, <1>9, ClickInvKept, HostInvKept, WaitInvKept DEF LearnInv, AudioInv

\* The steps after the command has been obeyed leave the references alone.
LEMMA LaterKeeps ==
    ASSUME LearnInv, todo["audio"] # <<>>, Then("audio", <<>>),
           UNCHANGED <<mailbox, record, taken, engine, asked, saving, bounds, latest>>,
           learnActive' \in BOOLEAN, ruined' \in BOOLEAN, sums' \subseteq 1..MaxBlocks,
           Head(todo["audio"]) \in {"acted", "sanitise", "finish"}
    PROVE  LearnInv'
<1> DEFINE a == todo["audio"]
           b == todo'["audio"]
<1>1. /\ b = Tail(a) /\ todo' \in [Threads -> Steps]
      /\ todo'["message"] = todo["message"] /\ todo'["host"] = todo["host"]
  BY BlockSteps DEF LearnInv
<1>2. /\ a \in Acting \cup Ended \cup Taking \cup Wording \cup Sanitising \cup Finishing
      /\ Known => engine = latest
  <2>1. EndStep \/ RestStep
    BY AudioAt DEF LearnInv
  <2> QED
    BY <2>1 DEF EndStep, RestStep
<1>3. a # <<>> /\ Head(a) \in {"acted", "sanitise", "finish"}
  OBVIOUS
<1>4. b \in Sanitising \cup Finishing \cup Ended
  <2> HIDE DEF a, b
  <2> QED
    BY <1>1, <1>2, <1>3, BlockCalls, HostCalls
<1> HIDE DEF a, b
<1>5. RestStep'
  BY <1>1, <1>2, <1>4 DEF RestStep, Known, record, b
<1>6. TypeInv'
  BY <1>1, <1>3 DEF LearnInv, TypeInv, mailbox, record, saving, bounds, a
<1>7. ClickFrame /\ HostFrame /\ WaitFrame
  BY <1>1, <1>3 DEF ClickFrame, HostFrame, WaitFrame, mailbox, record, saving, a
<1> QED
  BY <1>5, <1>6, <1>7, ClickInvKept, HostInvKept, WaitInvKept DEF LearnInv, AudioInv

LEMMA ActedKeeps == ASSUME LearnInv, Acted PROVE LearnInv'
BY LaterKeeps DEF Acted, At, Idle, LearnInv, TypeInv, pass

LEMMA SanitiseKeeps == ASSUME LearnInv, Sanitise PROVE LearnInv'
<1>1. learnActive' \in BOOLEAN /\ ruined' \in BOOLEAN /\ sums' \subseteq 1..MaxBlocks
  BY DEF Sanitise, Cancel, LearnInv, TypeInv, pass
<1> QED
  BY <1>1, LaterKeeps DEF Sanitise, At, Idle

LEMMA FinishBlockKeeps == ASSUME LearnInv, FinishBlock PROVE LearnInv'
<1>1. block \in 1..MaxBlocks
  BY LearnAssumption DEF FinishBlock, At, Idle, LearnInv, TypeInv
<1>2. learnActive' \in BOOLEAN /\ ruined' \in BOOLEAN /\ sums' \subseteq 1..MaxBlocks
  BY <1>1 DEF FinishBlock, LearnInv, TypeInv, pass
<1> QED
  BY <1>2, LaterKeeps DEF FinishBlock, At, Idle

LEMMA ResetPassKeeps == ASSUME LearnInv, ResetPass PROVE LearnInv'
<1>1. /\ todo["audio"] = <<>> /\ learnActive' = FALSE /\ sums' = {} /\ ruined' = FALSE
      /\ UNCHANGED <<mailbox, record, taken, engine, todo, asked, saving, bounds, latest>>
  BY DEF ResetPass, Cancel, Idle
<1>2. TypeInv'
  BY <1>1 DEF LearnInv, TypeInv, mailbox, record, saving, bounds
<1>3. Known => engine = latest
  BY <1>1, AudioIdle DEF LearnInv
<1>4. RestStep'
  BY <1>1, <1>3 DEF RestStep, Known, Ended, record
<1>5. ClickFrame /\ HostFrame /\ WaitFrame
  BY <1>1 DEF ClickFrame, HostFrame, WaitFrame, mailbox, record, saving
<1> QED
  BY <1>2, <1>4, <1>5, ClickInvKept, HostInvKept, WaitInvKept DEF LearnInv, AudioInv

-----------------------------------------------------------------------------
(* The theorems.                                                           *)

LEMMA LearnInitHolds == LearnInit => LearnInv
<1> SUFFICES ASSUME LearnInit PROVE LearnInv
  OBVIOUS
<1>1. /\ todo = [t \in Threads |-> <<>>] /\ asked = [t \in Threads |-> "none"]
      /\ staged = Unlearned /\ mirror = Unlearned /\ taken = Unlearned /\ engine = Unlearned
      /\ saved = Unlearned /\ latest = Unlearned
      /\ adaptivePending = FALSE /\ learnActive = FALSE /\ ruined = FALSE
      /\ raced = FALSE /\ mixed = FALSE
      /\ learnCmd = "none" /\ clicks = <<>> /\ sums = {} /\ block = 0
      /\ expect = [active |-> FALSE, refs |-> Unlearned, plain |-> TRUE, whole |-> TRUE]
  BY DEF LearnInit
<1>2. todo["message"] = <<>> /\ todo["host"] = <<>> /\ todo["audio"] = <<>>
  BY <1>1 DEF Threads
<1>3. TypeInv
  <2>1. todo \in [Threads -> Steps] /\ DOMAIN asked = Threads
    BY <1>1, NothingLeft
  <2>2. clicks \in Seq(Verbs) /\ block \in 0..MaxBlocks
    BY <1>1, LearnAssumption
  <2> QED
    BY <1>1, <1>2, <2>1, <2>2, Values DEF TypeInv, Loaded
<1>4. ClickInv
  BY <1>1, <1>2, ClickCalls DEF ClickInv, Ended, WordOf
<1>5. HostInv
  BY <1>1, <1>2 DEF HostInv, Agrees, Ended
<1>6. WaitInv
  BY <1>1 DEF WaitInv, Normal
<1>7. AudioInv
  BY <1>1, <1>2 DEF AudioInv, RestStep, Ended
<1> QED
  BY <1>3, <1>4, <1>5, <1>6, <1>7 DEF LearnInv

LEMMA LearnStepKeeps == LearnInv /\ [LearnNext]_learnVars => LearnInv'
<1> SUFFICES ASSUME LearnInv, [LearnNext]_learnVars PROVE LearnInv'
  OBVIOUS
<1>1. Unlearned \in Loaded /\ \A s \in Sessions : Of({-s}) \in Loaded
  BY DEF Loaded
<1>2. CASE LearnNext
  <2>1. CASE Click \/ LoadWord \/ StoreWord
    BY <2>1, ClickKeeps, LoadWordKeeps, StoreWordKeeps
  <2>2. CASE (\E s \in Sessions : LoadReference(Of({-s}))) \/ LoadReference(Unlearned)
    BY <1>1, <2>2, LoadKeeps
  <2>3. CASE StageField \/ Raise
    BY <2>3, StageFieldKeeps, RaiseKeeps
  <2>4. CASE BeginSave \/ Ask \/ SaveField \/ Write
    BY <2>4, BeginSaveKeeps, AskKeeps, SaveFieldKeeps, WriteKeeps
  <2>5. CASE Block \/ TakeRecord \/ ReadRecord \/ PublishField \/ TakeWord \/ CommitLearn
    BY <2>5, BlockKeeps, TakeRecordKeeps, ReadRecordKeeps, PublishFieldKeeps, TakeWordKeeps,
       CommitLearnKeeps
  <2>6. CASE StartLearn \/ Acted \/ Sanitise \/ FinishBlock \/ ResetPass
    BY <2>6, StartLearnKeeps, ActedKeeps, SanitiseKeeps, FinishBlockKeeps, ResetPassKeeps
  <2> QED
    BY <1>2, <2>1, <2>2, <2>3, <2>4, <2>5, <2>6 DEF LearnNext
<1>3. CASE UNCHANGED learnVars
  <2>1. TypeInv'
    BY <1>3 DEF LearnInv, TypeInv, learnVars, mailbox, record, pass, saving, bounds
  <2>2. ClickFrame /\ HostFrame /\ WaitFrame /\ BlockFrame
    BY <1>3 DEF ClickFrame, HostFrame, WaitFrame, BlockFrame, Known,
                learnVars, mailbox, record, pass, saving, bounds
  <2> QED
    BY <2>1, <2>2, ClickInvKept, HostInvKept, WaitInvKept, AudioInvKept DEF LearnInv
<1> QED
  BY <1>2, <1>3

\* However long the session: the calls have their shapes, the word is the one
\* that the clicks compose, and the staged record, what the block has read of it
\* and the references it publishes are parts of the last reference, or of the
\* pass, as far as the call under way has got (AnabasisEngine's mailbox and
\* restoreLearnedTargets, AdaptiveEngine's publishRefs).
THEOREM LearnIsKept == LearnSpec => []LearnInv
<1> QED
  BY LearnInitHolds, LearnStepKeeps, PTL DEF LearnSpec

\* For any number of clicks, blocks, loads and saves: a block that has acted on
\* its command has done what the clicks before it asked for (requestLearnStart,
\* requestLearnCommit, and the take at the top of a block).
THEOREM ClicksAreFollowed == LearnSpec => []LearnFollowsClicks
<1>1. LearnInv => LearnFollowsClicks
  <2> SUFFICES ASSUME LearnInv, At("audio", "acted"), Fair PROVE Obeyed
    BY DEF LearnFollowsClicks, Fair
  <2>1. EndStep
    BY AudioAt DEF At, Idle, LearnInv
  <2> QED
    BY <2>1 DEF EndStep
<1> QED
  BY <1>1, LearnIsKept, PTL

\* For any number of loads, saves and passes: a save that no block runs into
\* writes the last reference that was loaded or committed, whole
\* (getStateInformation's ADAPTIVE child).
THEOREM SaveIsOfTheLatest == LearnSpec => []SavedIsLatest
<1>1. LearnInv => SavedIsLatest
  <2> SUFFICES ASSUME LearnInv, At("host", "write"), ~mixed PROVE saved = latest
    BY DEF SavedIsLatest
  <2>1. Unmixed("write")
    BY HostAt DEF At, Idle, LearnInv
  <2> QED
    BY <2>1 DEF Unmixed, Copied
<1> QED
  BY <1>1, LearnIsKept, PTL

=============================================================================
