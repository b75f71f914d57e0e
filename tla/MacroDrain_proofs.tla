------------------------- MODULE MacroDrain_proofs -------------------------
(***************************************************************************)
(* What came last for a parameter stands once the drain has settled, for   *)
(* any number of managed parameters, positions, states and calls.          *)
(***************************************************************************)
EXTENDS MacroInvariant, SequenceTheorems, TLAPS

-----------------------------------------------------------------------------
(* Calls as sequences of steps.                                             *)

LEMMA FrontOf ==
    ASSUME NEW s \in Calls, NEW e \in MacroSteps
    PROVE  /\ <<e>> \o s \in Calls /\ <<e>> \o s # <<>>
           /\ Head(<<e>> \o s) = e /\ Tail(<<e>> \o s) = s
<1>1. <<e>> \in Seq(MacroSteps) /\ Len(<<e>>) = 1 /\ <<e>>[1] = e
  OBVIOUS
<1> DEFINE j == <<e>> \o s
<1>2. /\ j \in Seq(MacroSteps) /\ Len(j) = 1 + Len(s) /\ Len(s) \in Nat
      /\ \A i \in 1..1 + Len(s) : j[i] = IF i <= 1 THEN <<e>>[i] ELSE s[i - 1]
  BY <1>1, ConcatProperties, LenProperties DEF Calls
<1> HIDE DEF j
<1>3. j # <<>> /\ Head(j) = e
  BY <1>1, <1>2
<1>4. Tail(j) \in Seq(MacroSteps) /\ Len(Tail(j)) = Len(s)
      /\ \A i \in 1..Len(s) : Tail(j)[i] = j[i + 1]
  BY <1>2, <1>3, HeadTailProperties
<1>5. \A i \in 1..Len(s) : Tail(j)[i] = s[i]
  BY <1>2, <1>4
<1>6. Tail(j) = s
  BY <1>4, <1>5, SeqEqual DEF Calls
<1> QED
  BY <1>2, <1>3, <1>6 DEF j, Calls

LEMMA JoinOf ==
    ASSUME NEW s \in Calls, NEW t \in Calls
    PROVE  s \o t \in Calls /\ <<>> \o t = t
BY ConcatProperties, ConcatEmptySeq DEF Calls

LEMMA JoinThree ==
    ASSUME NEW s \in Calls, NEW t \in Calls, NEW u \in Calls
    PROVE  (s \o t) \o u = s \o (t \o u)
BY ConcatAssociative DEF Calls

LEMMA Single ==
    ASSUME NEW e \in MacroSteps
    PROVE  <<e>> \in Calls /\ <<e>> = <<e>> \o <<>> /\ <<>> \in Calls
<1>1. <<e>> \in Seq(MacroSteps) /\ <<>> \in Seq(MacroSteps)
  OBVIOUS
<1> QED
  BY <1>1, ConcatEmptySeq DEF Calls

LEMMA PairOf ==
    ASSUME NEW a \in MacroSteps, NEW b \in MacroSteps
    PROVE  <<a, b>> = <<a>> \o <<b>> /\ <<a, b>> \in Calls
<1> DEFINE s == <<a, b>>
           t == <<a>> \o <<b>>
<1>1. s \in Seq(MacroSteps) /\ Len(s) = 2 /\ s[1] = a /\ s[2] = b
  OBVIOUS
<1>2. t \in Seq(MacroSteps) /\ Len(t) = 2 /\ t[1] = a /\ t[2] = b
  OBVIOUS
<1> HIDE DEF s, t
<1>3. \A i \in 1..Len(s) : s[i] = t[i]
  BY <1>1, <1>2
<1>4. s = t
  BY <1>1, <1>2, <1>3, SeqEqual
<1> QED
  BY <1>1, <1>4 DEF s, t, Calls

LEMMA TripleOf ==
    ASSUME NEW a \in MacroSteps, NEW b \in MacroSteps, NEW c \in MacroSteps
    PROVE  <<a, b, c>> = <<a>> \o <<b, c>> /\ <<a, b, c>> \in Calls
<1> DEFINE s == <<a, b, c>>
           t == <<a>> \o <<b, c>>
<1>1. s \in Seq(MacroSteps) /\ Len(s) = 3 /\ s[1] = a /\ s[2] = b /\ s[3] = c
  OBVIOUS
<1>2. t \in Seq(MacroSteps) /\ Len(t) = 3 /\ t[1] = a /\ t[2] = b /\ t[3] = c
  OBVIOUS
<1> HIDE DEF s, t
<1>3. \A i \in 1..Len(s) : s[i] = t[i]
  BY <1>1, <1>2
<1>4. s = t
  BY <1>1, <1>2, <1>3, SeqEqual
<1> QED
  BY <1>1, <1>4 DEF s, t, Calls

\* Several steps in front of a call, one by one.
LEMMA TwoFronted ==
    ASSUME NEW s \in Calls, NEW a \in MacroSteps, NEW b \in MacroSteps
    PROVE  <<a, b>> \o s = <<a>> \o (<<b>> \o s) /\ <<b>> \o s \in Calls
<1> DEFINE ab == <<a, b>>
           sa == <<a>>
           sb == <<b>>
<1>1. sa \in Calls /\ sb \in Calls
  BY Single
<1>2. ab = sa \o sb
  BY PairOf
<1> HIDE DEF ab, sa, sb
<1>3. (sa \o sb) \o s = sa \o (sb \o s)
  BY <1>1, JoinThree
<1>4. ab \o s = sa \o (sb \o s)
  BY <1>2, <1>3
<1>5. sb \o s \in Calls
  BY <1>1, JoinOf
<1> QED
  BY <1>4, <1>5 DEF ab, sa, sb

LEMMA ThreeFronted ==
    ASSUME NEW s \in Calls, NEW a \in MacroSteps, NEW b \in MacroSteps, NEW c \in MacroSteps
    PROVE  <<a, b, c>> \o s = <<a>> \o (<<b>> \o (<<c>> \o s))
<1> DEFINE abc == <<a, b, c>>
           bc == <<b, c>>
           sa == <<a>>
           rest == <<b>> \o (<<c>> \o s)
<1>1. sa \in Calls
  BY Single
<1>2. bc \in Calls
  BY PairOf
<1>3. abc = sa \o bc
  BY TripleOf
<1>4. bc \o s = rest
  BY TwoFronted
<1> HIDE DEF abc, bc, sa, rest
<1>5. (sa \o bc) \o s = sa \o (bc \o s)
  BY <1>1, <1>2, JoinThree
<1>6. abc \o s = sa \o rest
  BY <1>3, <1>4, <1>5
<1> QED
  BY <1>6 DEF abc, sa, rest

\* A list of steps, one by one.
LEMMA Listed ==
    ASSUME NEW a \in MacroSteps, NEW b \in MacroSteps
    PROVE  <<a, b>> = <<a>> \o (<<b>> \o <<>>)
<1> DEFINE ab == <<a, b>>
           t == <<a>> \o (<<b>> \o <<>>)
           none == <<>>
<1>1. none \in Calls
  BY EmptySeq DEF Calls
<1>2. ab \in Calls
  BY PairOf
<1>3. ab \o none = t
  BY <1>1, TwoFronted
<1> HIDE DEF ab, t
<1>4. ab \o none = ab
  BY <1>2, ConcatEmptySeq DEF Calls
<1>5. ab = t
  BY <1>3, <1>4
<1> QED
  BY <1>5 DEF ab, t

LEMMA ListedThree ==
    ASSUME NEW a \in MacroSteps, NEW b \in MacroSteps, NEW c \in MacroSteps
    PROVE  <<a, b, c>> = <<a>> \o (<<b>> \o (<<c>> \o <<>>))
<1> DEFINE bc == <<b, c>>
           rest == <<b>> \o (<<c>> \o <<>>)
           abc == <<a, b, c>>
           sa == <<a>>
<1>1. bc = rest
  BY Listed
<1>2. abc = sa \o bc
  BY TripleOf
<1> HIDE DEF bc, rest, abc, sa
<1>3. abc = sa \o rest
  BY <1>1, <1>2
<1> QED
  BY <1>3 DEF abc, sa, rest

LEMMA IsFirst ==
    ASSUME NEW e \in MacroSteps, NEW rests, NEW s \in rests, s \in Calls
    PROVE  <<e>> \o s \in First(e, rests) /\ <<e>> \o s \in Calls
BY FrontOf DEF First

LEMMA OfFirst ==
    ASSUME NEW e, NEW rests, NEW s \in First(e, rests)
    PROVE  s \in Calls /\ s # <<>> /\ Head(s) = e /\ Tail(s) \in rests /\ Tail(s) \in Calls
BY HeadTailProperties DEF First, Calls

-----------------------------------------------------------------------------
(* The steps.                                                               *)

LEMMA StepsAre ==
    /\ \A x \in Plain : Do(x) \in MacroSteps
    /\ \A p \in Managed, x \in {"begin", "listen", "stage", "end"} : DoTo(x, p) \in MacroSteps
    /\ \A p \in Managed : [do |-> "write", p |-> p, v |-> Hand] \in MacroSteps
    /\ \A m \in Positions : [do |-> "move", m |-> m] \in MacroSteps
    /\ \A i \in 1..Len(Order), v \in Positions : [do |-> "land", i |-> i, v |-> v] \in MacroSteps
    /\ \A c \in States, x \in {"adopt", "lower"} : [do |-> x, state |-> c] \in MacroSteps
    /\ \A m \in SUBSET Managed : [do |-> "replace", mask |-> m] \in MacroSteps
<1>1. \A x \in Plain : Do(x) \in MacroSteps
  BY DEF Do, MacroSteps
<1>2. \A p \in Managed, x \in {"begin", "listen", "stage", "end"} : DoTo(x, p) \in MacroSteps
  BY DEF DoTo, MacroSteps
<1>3. \A p \in Managed : [do |-> "write", p |-> p, v |-> Hand] \in MacroSteps
  BY DEF MacroSteps
<1>4. \A m \in Positions : [do |-> "move", m |-> m] \in MacroSteps
  BY DEF MacroSteps
<1>5. \A i \in 1..Len(Order), v \in Positions : [do |-> "land", i |-> i, v |-> v] \in MacroSteps
  BY DEF MacroSteps
<1>6. \A c \in States, x \in {"adopt", "lower"} : [do |-> x, state |-> c] \in MacroSteps
  BY DEF MacroSteps
<1>7. \A m \in SUBSET Managed : [do |-> "replace", mask |-> m] \in MacroSteps
  BY DEF MacroSteps
<1> QED
  BY <1>1, <1>2, <1>3, <1>4, <1>5, <1>6, <1>7

LEMMA PlainSteps ==
    /\ {Do("soon"), Do("ask"), Do("arm"), Do("bits"), Do("clear"), Do("take"), Do("landed")} \subseteq MacroSteps
    /\ {Do("drop bits"), Do("drop ask"), Do("arm all"), Do("tick"), Do("abort"), Do("raise")} \subseteq MacroSteps
BY StepsAre DEF Plain

\* What the steps of the calls are called.
LEMMA StepNames ==
    /\ Do("soon").do = "soon" /\ Do("ask").do = "ask" /\ Do("arm").do = "arm"
    /\ Do("bits").do = "bits" /\ Do("clear").do = "clear" /\ Do("take").do = "take"
    /\ Do("landed").do = "landed" /\ Do("tick").do = "tick" /\ Do("abort").do = "abort"
    /\ Do("raise").do = "raise" /\ Do("arm all").do = "arm all"
    /\ Do("drop bits").do = "drop bits" /\ Do("drop ask").do = "drop ask"
    /\ \A p : /\ DoTo("begin", p).do = "begin" /\ DoTo("listen", p).do = "listen"
              /\ DoTo("stage", p).do = "stage" /\ DoTo("end", p).do = "end"
              /\ DoTo("begin", p).p = p /\ DoTo("listen", p).p = p
              /\ DoTo("stage", p).p = p /\ DoTo("end", p).p = p
BY DEF Do, DoTo

-----------------------------------------------------------------------------
(* The calls as they enter.                                                 *)

LEMMA OverIs == <<>> \in Over /\ <<>> \in Calls /\ <<>> \in Closing /\ <<>> \in Hosting
<1>1. <<>> \in Calls
  BY EmptySeq DEF Calls
<1> QED
  BY <1>1 DEF Over, Closing, Hosting

LEMMA HostCalls ==
    ASSUME NEW p \in Managed
    PROVE  /\ DragSteps(p, Hand) \in Beginning(p)
           /\ AutomateSteps(p, Hand) \in Writing(p)
           /\ \A r \in Closing : <<DoTo("stage", p), Do("soon")>> \o r \in Staging(p)
<1> DEFINE b == DoTo("begin", p)
           w == [do |-> "write", p |-> p, v |-> Hand]
           l == DoTo("listen", p)
           e == DoTo("end", p)
           s == DoTo("stage", p)
           h == Do("soon")
<1>1. {b, w, l, e, s, h} \subseteq MacroSteps
  BY StepsAre, PlainSteps
<1>2. DragSteps(p, Hand) = (<<b>> \o <<w, l>>) \o <<e>> /\ AutomateSteps(p, Hand) = <<w, l>>
  BY DEF DragSteps, AutomateSteps
<1> HIDE DEF b, w, l, e, s, h
<1>3. /\ (<<b>> \o <<w, l>>) \o <<e>> = <<b>> \o (<<w>> \o (<<l>> \o (<<e>> \o <<>>)))
      /\ <<w, l>> = <<w>> \o (<<l>> \o <<>>)
  <2>1. <<w, l>> = <<w>> \o (<<l>> \o <<>>)
    BY <1>1, Listed
  <2> DEFINE sb == <<b>>
             wl == <<w, l>>
             se == <<e>>
             rest == <<w>> \o (<<l>> \o (<<e>> \o <<>>))
  <2>2. sb \in Calls /\ wl \in Calls /\ se \in Calls
    BY <1>1, Single, PairOf
  <2>3. <<w, l>> \o <<e>> = <<w>> \o (<<l>> \o <<e>>) /\ <<e>> = <<e>> \o <<>>
    BY <1>1, <2>2, TwoFronted, Single
  <2>4. wl \o se = rest
    BY <2>3
  <2> HIDE DEF sb, wl, se, rest
  <2>5. (sb \o wl) \o se = sb \o (wl \o se)
    BY <2>2, JoinThree
  <2>6. (sb \o wl) \o se = sb \o rest
    BY <2>4, <2>5
  <2> QED
    BY <2>1, <2>6 DEF sb, wl, se, rest
<1>4. <<e>> \o <<>> \in Ending(p) /\ <<e>> \o <<>> \in Calls
  BY <1>1, OverIs, IsFirst DEF Ending, e
<1>5. /\ <<l>> \o <<>> \in Listening(p) /\ <<l>> \o <<>> \in Calls
      /\ <<l>> \o (<<e>> \o <<>>) \in Listening(p) /\ <<l>> \o (<<e>> \o <<>>) \in Calls
  BY <1>1, <1>4, OverIs, IsFirst DEF Listening, l
<1>6. /\ <<w>> \o (<<l>> \o <<>>) \in Writing(p)
      /\ <<w>> \o (<<l>> \o (<<e>> \o <<>>)) \in Writing(p) /\ <<w>> \o (<<l>> \o (<<e>> \o <<>>)) \in Calls
  BY <1>1, <1>5, IsFirst DEF Writing, w
<1>7. <<b>> \o (<<w>> \o (<<l>> \o (<<e>> \o <<>>))) \in Beginning(p)
  BY <1>1, <1>6, IsFirst DEF Beginning, b
<1>8. ASSUME NEW r \in Closing  PROVE <<s, h>> \o r \in Staging(p)
  <2>1. r \in Calls
    BY DEF Closing
  <2>2. <<h>> \o r \in Hurrying /\ <<h>> \o r \in Calls
    BY <1>1, <2>1, IsFirst DEF Hurrying, h
  <2>3. <<s>> \o (<<h>> \o r) \in Staging(p)
    BY <1>1, <2>2, IsFirst DEF Staging, s
  <2> QED
    BY <1>1, <2>1, <2>3, TwoFronted
<1> QED
  BY <1>2, <1>3, <1>6, <1>7, <1>8 DEF s, h

LEMMA MacroCalls ==
    /\ ReengageSteps \in Asking /\ DrainSteps \in Bringing
    /\ \A m \in Positions : MoveSteps(m) \in Moving(m)
    /\ \A s \in Closing : <<Do("bits"), Do("clear")>> \o s \in Bringing
<1>1. {Do("ask"), Do("arm"), Do("soon"), Do("bits"), Do("clear"), Do("take")} \subseteq MacroSteps
  BY PlainSteps
<1>2. <<Do("soon")>> \o <<>> \in Hurrying /\ <<Do("soon")>> \o <<>> \in Calls
  BY <1>1, OverIs, IsFirst DEF Hurrying
<1>3. /\ <<Do("arm")>> \o (<<Do("soon")>> \o <<>>) \in Arming
      /\ <<Do("arm")>> \o (<<Do("soon")>> \o <<>>) \in Calls
      /\ <<Do("arm")>> \o <<>> \in Arming /\ <<Do("arm")>> \o <<>> \in Calls
  BY <1>1, <1>2, OverIs, IsFirst DEF Arming
<1>4. <<Do("ask")>> \o (<<Do("arm")>> \o (<<Do("soon")>> \o <<>>)) \in Asking
  BY <1>1, <1>3, IsFirst DEF Asking
<1>5. ReengageSteps \in Asking
  BY <1>1, <1>4, ListedThree DEF ReengageSteps
<1>6. <<Do("take")>> \o <<>> \in Taking /\ <<Do("take")>> \o <<>> \in Calls
  BY <1>1, OverIs, IsFirst DEF Taking
<1>7. ASSUME NEW s \in Closing \union Taking, s \in Calls
      PROVE  <<Do("bits")>> \o (<<Do("clear")>> \o s) \in Bringing
  <2>1. <<Do("clear")>> \o s \in Clearing /\ <<Do("clear")>> \o s \in Calls
    BY <1>1, <1>7, IsFirst DEF Clearing
  <2> QED
    BY <1>1, <2>1, IsFirst DEF Bringing
<1>8. DrainSteps \in Bringing
  <2>1. <<Do("bits")>> \o (<<Do("clear")>> \o (<<Do("take")>> \o <<>>)) \in Bringing
    BY <1>6, <1>7
  <2> QED
    BY <1>1, <2>1, ListedThree DEF DrainSteps
<1>9. ASSUME NEW m \in Positions  PROVE MoveSteps(m) \in Moving(m)
  <2> DEFINE move == [do |-> "move", m |-> m]
  <2>1. move \in MacroSteps
    BY StepsAre
  <2>2. <<move>> \o (<<Do("arm")>> \o <<>>) \in Moving(m)
    BY <1>3, <2>1, IsFirst DEF Moving
  <2> QED
    BY <1>1, <2>1, <2>2, Listed DEF MoveSteps
<1>10. ASSUME NEW s \in Closing  PROVE <<Do("bits"), Do("clear")>> \o s \in Bringing
  <2>1. s \in Calls
    BY DEF Closing
  <2>2. <<Do("bits")>> \o (<<Do("clear")>> \o s) \in Bringing
    BY <1>7, <2>1
  <2> QED
    BY <1>1, <2>1, <2>2, TwoFronted
<1> QED
  BY <1>5, <1>8, <1>9, <1>10

LEMMA LandCalls ==
    /\ \A i \in 1..Len(Order), v \in Positions : <<[do |-> "land", i |-> i, v |-> v]>> \in Landing(i, v)
    /\ <<Do("landed")>> \in Finishing
<1>1. ASSUME NEW e \in MacroSteps  PROVE <<e>> \in First(e, Over)
  <2>1. <<e>> = <<e>> \o <<>> /\ <<e>> \o <<>> \in First(e, Over)
    BY OverIs, Single, IsFirst
  <2> QED
    BY <2>1
<1> QED
  BY <1>1, StepsAre, PlainSteps DEF Landing, Finishing

LEMMA RelandCalls == RelandSteps \in RelandBits
<1>1. {Do("drop bits"), Do("drop ask"), Do("arm all"), Do("tick")} \subseteq MacroSteps
  BY PlainSteps
<1> DEFINE a == <<Do("arm all"), Do("tick")>>
           bits0 == <<Do("drop bits")>> \o (<<Do("drop ask")>> \o a)
<1>2. <<Do("tick")>> \o <<>> \in Ticking /\ <<Do("tick")>> \o <<>> \in Calls
  BY <1>1, OverIs, IsFirst DEF Ticking
<1>3. <<Do("arm all")>> \o (<<Do("tick")>> \o <<>>) \in ArmingAll
      /\ <<Do("arm all")>> \o (<<Do("tick")>> \o <<>>) \in Calls
  BY <1>1, <1>2, IsFirst DEF ArmingAll
<1>4. a \in ArmingAll /\ a \in Calls
  BY <1>1, <1>3, Listed
<1>5. RelandSteps = <<Do("drop bits"), Do("drop ask")>> \o a
  BY DEF RelandSteps, DropSteps
<1> HIDE DEF a
<1>6. RelandSteps = bits0
  BY <1>1, <1>4, <1>5, TwoFronted
<1>7. <<Do("drop ask")>> \o a \in RelandAsk /\ <<Do("drop ask")>> \o a \in Calls
  BY <1>1, <1>4, IsFirst DEF RelandAsk
<1>8. bits0 \in RelandBits
  BY <1>1, <1>7, IsFirst DEF RelandBits
<1> QED
  BY <1>6, <1>8

\* What replaceDetachMask does in front of the rest of a call.
LEMMA ReplaceCalls ==
    ASSUME NEW m \in SUBSET Managed, NEW s \in Calls
    PROVE  /\ ReplaceSteps(m) \in Calls
           /\ ReplaceSteps(m) \o s = <<Do("drop bits")>> \o (<<Do("drop ask")>>
                                          \o (<<[do |-> "replace", mask |-> m]>> \o s))
<1> DEFINE r == [do |-> "replace", mask |-> m]
           b == Do("drop bits")
           a == Do("drop ask")
           d == <<b, a>>
           sr == <<r>>
<1>1. r \in MacroSteps /\ b \in MacroSteps /\ a \in MacroSteps
  BY StepsAre, PlainSteps
<1>2. d \in Calls /\ sr \in Calls
  <2> HIDE DEF r, b, a
  <2> QED
    BY <1>1, PairOf, Single
<1>3. ReplaceSteps(m) = d \o sr
  BY DEF ReplaceSteps, DropSteps
<1>4. <<b, a>> \o (sr \o s) = <<b>> \o (<<a>> \o (sr \o s))
  <2>1. sr \o s \in Calls
    BY <1>2, JoinOf
  <2> HIDE DEF r, b, a, sr
  <2> QED
    BY <1>1, <2>1, TwoFronted
<1> HIDE DEF d, sr
<1>5. (d \o sr) \o s = d \o (sr \o s)
  BY <1>2, JoinThree
<1>6. ReplaceSteps(m) \o s = d \o (sr \o s)
  BY <1>3, <1>5
<1>7. ReplaceSteps(m) \in Calls
  BY <1>2, <1>3, JoinOf
<1> QED
  BY <1>4, <1>6, <1>7 DEF d, sr

LEMMA ResetCalls == ResetSteps \in ResetBits
<1> DEFINE r == [do |-> "replace", mask |-> {}]
<1>1. r \in MacroSteps /\ Do("drop bits") \in MacroSteps /\ Do("drop ask") \in MacroSteps
  BY StepsAre, PlainSteps
<1>2. RelandSteps \in RelandBits /\ RelandSteps \in Calls
  BY RelandCalls DEF RelandBits, First
<1>3. ResetSteps = <<Do("drop bits")>> \o (<<Do("drop ask")>> \o (<<r>> \o RelandSteps))
  BY <1>2, ReplaceCalls DEF ResetSteps
<1>4. <<r>> \o RelandSteps \in ResetMask /\ <<r>> \o RelandSteps \in Calls
  BY <1>1, <1>2, IsFirst DEF ResetMask
<1> HIDE DEF r
<1>5. <<Do("drop ask")>> \o (<<r>> \o RelandSteps) \in ResetAsk
      /\ <<Do("drop ask")>> \o (<<r>> \o RelandSteps) \in Calls
  BY <1>1, <1>4, IsFirst DEF ResetAsk
<1>6. <<Do("drop bits")>> \o (<<Do("drop ask")>> \o (<<r>> \o RelandSteps)) \in ResetBits
  BY <1>1, <1>5, IsFirst DEF ResetBits
<1> QED
  BY <1>3, <1>6

LEMMA RestoreCalls ==
    ASSUME NEW t \in DrainThreads, NEW c \in States, NEW s \in Calls, s \in Afterwards(t, c)
    PROVE  RestoreSteps(c) \o s \in Raising(t, c) /\ RestoreSteps(c) \in Calls
<1> DEFINE ra == Do("raise")
           ad == [do |-> "adopt", state |-> c]
           db == Do("drop bits")
           da == Do("drop ask")
           re == [do |-> "replace", mask |-> c.mask]
           ab == Do("abort")
           lo == [do |-> "lower", state |-> c]
           first == <<ra, ad>>
           mid == ReplaceSteps(c.mask)
           last == <<ab, lo>>
<1>1. c.mask \in SUBSET Managed
  BY DEF States
<1>2. /\ ra \in MacroSteps /\ ad \in MacroSteps /\ db \in MacroSteps /\ da \in MacroSteps
      /\ re \in MacroSteps /\ ab \in MacroSteps /\ lo \in MacroSteps
  BY <1>1, StepsAre, PlainSteps
<1>3. RestoreSteps(c) = (first \o mid) \o last
  BY DEF RestoreSteps
<1>4. <<lo>> \o s \in Lowering(t, c) /\ <<lo>> \o s \in Calls
  BY <1>2, IsFirst DEF Lowering
<1>5. <<ab>> \o (<<lo>> \o s) \in Aborting(t, c) /\ <<ab>> \o (<<lo>> \o s) \in Calls
  BY <1>2, <1>4, IsFirst DEF Aborting
<1> DEFINE tail == <<ab>> \o (<<lo>> \o s)
<1>6. <<re>> \o tail \in Replacing(t, c) /\ <<re>> \o tail \in Calls
  BY <1>2, <1>5, IsFirst DEF Replacing
<1>7. <<da>> \o (<<re>> \o tail) \in DroppingAsk(t, c) /\ <<da>> \o (<<re>> \o tail) \in Calls
  BY <1>2, <1>6, IsFirst DEF DroppingAsk
<1> DEFINE drops == <<db>> \o (<<da>> \o (<<re>> \o tail))
<1>8. drops \in DroppingBits(t, c) /\ drops \in Calls
  BY <1>2, <1>7, IsFirst DEF DroppingBits
<1>9. <<ad>> \o drops \in Adopting(t, c) /\ <<ad>> \o drops \in Calls
  BY <1>2, <1>8, IsFirst DEF Adopting
<1>10. <<ra>> \o (<<ad>> \o drops) \in Raising(t, c)
  BY <1>2, <1>9, IsFirst DEF Raising
<1>11. first \in Calls /\ last \in Calls /\ mid \in Calls
  <2>1. mid \in Calls
    BY <1>1, OverIs, ReplaceCalls
  <2> HIDE DEF ra, ad, ab, lo, mid
  <2> QED
    BY <1>2, <2>1, PairOf
<1>12. last \o s = tail
  <2> HIDE DEF ab, lo
  <2> QED
    BY <1>2, TwoFronted
<1>13. mid \o tail = drops
  BY <1>1, <1>5, ReplaceCalls
<1>14. first \o drops = <<ra>> \o (<<ad>> \o drops)
  <2> HIDE DEF ra, ad, drops
  <2> QED
    BY <1>2, <1>8, TwoFronted
<1> HIDE DEF first, mid, last, tail, drops
<1>15. tail \in Calls
  BY <1>5 DEF tail
<1>16. /\ first \o mid \in Calls /\ (first \o mid) \o last \in Calls
  BY <1>11, JoinOf
<1>17. ((first \o mid) \o last) \o s = (first \o mid) \o (last \o s)
  BY <1>11, <1>16, JoinThree
<1>18. (first \o mid) \o tail = first \o (mid \o tail)
  BY <1>11, <1>15, JoinThree
<1>19. RestoreSteps(c) \o s = <<ra>> \o (<<ad>> \o drops)
  BY <1>3, <1>12, <1>13, <1>14, <1>17, <1>18
<1> QED
  BY <1>3, <1>10, <1>16, <1>19

LEMMA BulkCalls ==
    /\ \A t \in DrainThreads, c \in States : RestoreSteps(c) \in Raising(t, c)
    /\ \A m \in Positions : \E c \in States : FactorySteps(m) \in Raising("message", c)
<1>1. ASSUME NEW t \in DrainThreads, NEW c \in States  PROVE RestoreSteps(c) \in Raising(t, c)
  <2>1. <<>> \in Afterwards(t, c) /\ <<>> \in Calls
    BY OverIs DEF Afterwards
  <2>2. RestoreSteps(c) \o <<>> \in Raising(t, c) /\ RestoreSteps(c) \in Calls
    BY <2>1, RestoreCalls
  <2>3. RestoreSteps(c) \o <<>> = RestoreSteps(c)
    BY <2>2, ConcatEmptySeq DEF Calls
  <2> QED
    BY <2>2, <2>3
<1>2. ASSUME NEW m \in Positions  PROVE \E c \in States : FactorySteps(m) \in Raising("message", c)
  <2> DEFINE c == [macro |-> m, value |-> [p \in Managed |-> Default], mask |-> {}]
  <2>1. c \in States /\ c.mask = {}
    BY DrainAssumption DEF States, Values
  <2>2. FactorySteps(m) = RestoreSteps(c) \o RelandSteps
    BY DEF FactorySteps
  <2> HIDE DEF c
  <2>3. RelandSteps \in Calls /\ RelandSteps \in Afterwards("message", c)
    BY <2>1, RelandCalls DEF RelandBits, First, Afterwards
  <2>4. FactorySteps(m) \in Raising("message", c)
    BY <2>1, <2>2, <2>3, RestoreCalls DEF DrainThreads
  <2> QED
    BY <2>1, <2>4
<1> QED
  BY <1>1, <1>2

-----------------------------------------------------------------------------
(* The first step of a call.                                                *)

\* What a call makes first, and what is left of it then.
LEMMA HostHeads ==
    ASSUME NEW s, NEW p
    PROVE  /\ s \in Ending(p) =>
                s # <<>> /\ Head(s).do = "end" /\ Head(s).p = p /\
                Tail(s) \in Over /\ s \in Calls /\ Tail(s) \in Calls
           /\ s \in Listening(p) =>
                s # <<>> /\ Head(s).do = "listen" /\ Head(s).p = p /\
                Tail(s) \in Over \union Ending(p) /\ s \in Calls /\ Tail(s) \in Calls
           /\ s \in Writing(p) =>
                s # <<>> /\ Head(s).do = "write" /\ Head(s).p = p /\ Head(s).v = Hand /\
                Tail(s) \in Listening(p) /\ s \in Calls /\ Tail(s) \in Calls
           /\ s \in Beginning(p) =>
                s # <<>> /\ Head(s).do = "begin" /\ Head(s).p = p /\
                Tail(s) \in Writing(p) /\ s \in Calls /\ Tail(s) \in Calls
           /\ s \in Staging(p) =>
                s # <<>> /\ Head(s).do = "stage" /\ Head(s).p = p /\
                Tail(s) \in Hurrying /\ s \in Calls /\ Tail(s) \in Calls
           /\ s \in Hurrying =>
                s # <<>> /\ Head(s).do = "soon" /\
                Tail(s) \in Closing /\ s \in Calls /\ Tail(s) \in Calls
           /\ s \in Arming =>
                s # <<>> /\ Head(s).do = "arm" /\
                Tail(s) \in Over \union Hurrying /\ s \in Calls /\ Tail(s) \in Calls
           /\ s \in Asking =>
                s # <<>> /\ Head(s).do = "ask" /\
                Tail(s) \in Arming /\ s \in Calls /\ Tail(s) \in Calls
<1>1. s \in Ending(p) =>
        s # <<>> /\ Head(s).do = "end" /\ Head(s).p = p /\
                Tail(s) \in Over /\ s \in Calls /\ Tail(s) \in Calls
  BY OfFirst DEF Ending, Do, DoTo
<1>2. s \in Listening(p) =>
        s # <<>> /\ Head(s).do = "listen" /\ Head(s).p = p /\
                Tail(s) \in Over \union Ending(p) /\ s \in Calls /\ Tail(s) \in Calls
  BY OfFirst DEF Listening, Do, DoTo
<1>3. s \in Writing(p) =>
        s # <<>> /\ Head(s).do = "write" /\ Head(s).p = p /\ Head(s).v = Hand /\
                Tail(s) \in Listening(p) /\ s \in Calls /\ Tail(s) \in Calls
  BY OfFirst DEF Writing, Do, DoTo
<1>4. s \in Beginning(p) =>
        s # <<>> /\ Head(s).do = "begin" /\ Head(s).p = p /\
                Tail(s) \in Writing(p) /\ s \in Calls /\ Tail(s) \in Calls
  BY OfFirst DEF Beginning, Do, DoTo
<1>5. s \in Staging(p) =>
        s # <<>> /\ Head(s).do = "stage" /\ Head(s).p = p /\
                Tail(s) \in Hurrying /\ s \in Calls /\ Tail(s) \in Calls
  BY OfFirst DEF Staging, Do, DoTo
<1>6. s \in Hurrying =>
        s # <<>> /\ Head(s).do = "soon" /\
                Tail(s) \in Closing /\ s \in Calls /\ Tail(s) \in Calls
  BY OfFirst DEF Hurrying, Do, DoTo
<1>7. s \in Arming =>
        s # <<>> /\ Head(s).do = "arm" /\
                Tail(s) \in Over \union Hurrying /\ s \in Calls /\ Tail(s) \in Calls
  BY OfFirst DEF Arming, Do, DoTo
<1>8. s \in Asking =>
        s # <<>> /\ Head(s).do = "ask" /\
                Tail(s) \in Arming /\ s \in Calls /\ Tail(s) \in Calls
  BY OfFirst DEF Asking, Do, DoTo
<1> QED
  BY <1>1, <1>2, <1>3, <1>4, <1>5, <1>6, <1>7, <1>8

LEMMA MacroHeads ==
    ASSUME NEW s
    PROVE  /\ s \in Hurrying =>
                s # <<>> /\ Head(s).do = "soon" /\
                Tail(s) \in Closing /\ s \in Calls /\ Tail(s) \in Calls
           /\ s \in Arming =>
                s # <<>> /\ Head(s).do = "arm" /\
                Tail(s) \in Over \union Hurrying /\ s \in Calls /\ Tail(s) \in Calls
           /\ s \in Asking =>
                s # <<>> /\ Head(s).do = "ask" /\
                Tail(s) \in Arming /\ s \in Calls /\ Tail(s) \in Calls
BY HostHeads

LEMMA MoveHeads ==
    ASSUME NEW m, NEW s \in Moving(m)
    PROVE  s # <<>> /\ Head(s).do = "move" /\ Head(s).m = m /\
           Tail(s) \in Arming /\ s \in Calls /\ Tail(s) \in Calls
BY OfFirst DEF Moving, Do, DoTo

\* The same of a drain.
LEMMA DrainHeads ==
    ASSUME NEW s, NEW i, NEW v
    PROVE  /\ s \in Taking =>
                s # <<>> /\ Head(s).do = "take" /\ Tail(s) \in Over /\ s \in Calls /\ Tail(s) \in Calls
           /\ s \in Clearing =>
                s # <<>> /\ Head(s).do = "clear" /\
                Tail(s) \in Closing \union Taking /\ s \in Calls /\ Tail(s) \in Calls
           /\ s \in Bringing =>
                s # <<>> /\ Head(s).do = "bits" /\
                Tail(s) \in Clearing /\ s \in Calls /\ Tail(s) \in Calls
           /\ s \in Landing(i, v) =>
                s # <<>> /\ Head(s).do = "land" /\ Head(s).i = i /\ Head(s).v = v /\
                Tail(s) \in Over /\ s \in Calls /\ Tail(s) \in Calls
           /\ s \in Finishing =>
                s # <<>> /\ Head(s).do = "landed" /\
                Tail(s) \in Over /\ s \in Calls /\ Tail(s) \in Calls
           /\ s \in Ticking =>
                s # <<>> /\ Head(s).do = "tick" /\ Tail(s) \in Over /\ s \in Calls /\ Tail(s) \in Calls
<1>1. s \in Taking =>
        s # <<>> /\ Head(s).do = "take" /\ Tail(s) \in Over /\ s \in Calls /\ Tail(s) \in Calls
  BY OfFirst DEF Taking, Do, DoTo
<1>2. s \in Clearing =>
        s # <<>> /\ Head(s).do = "clear" /\
                Tail(s) \in Closing \union Taking /\ s \in Calls /\ Tail(s) \in Calls
  BY OfFirst DEF Clearing, Do, DoTo
<1>3. s \in Bringing =>
        s # <<>> /\ Head(s).do = "bits" /\
                Tail(s) \in Clearing /\ s \in Calls /\ Tail(s) \in Calls
  BY OfFirst DEF Bringing, Do, DoTo
<1>4. s \in Landing(i, v) =>
        s # <<>> /\ Head(s).do = "land" /\ Head(s).i = i /\ Head(s).v = v /\
                Tail(s) \in Over /\ s \in Calls /\ Tail(s) \in Calls
  BY OfFirst DEF Landing, Do, DoTo
<1>5. s \in Finishing =>
        s # <<>> /\ Head(s).do = "landed" /\
                Tail(s) \in Over /\ s \in Calls /\ Tail(s) \in Calls
  BY OfFirst DEF Finishing, Do, DoTo
<1>6. s \in Ticking =>
        s # <<>> /\ Head(s).do = "tick" /\ Tail(s) \in Over /\ s \in Calls /\ Tail(s) \in Calls
  BY OfFirst DEF Ticking, Do, DoTo
<1> QED
  BY <1>1, <1>2, <1>3, <1>4, <1>5, <1>6

\* Of a reset.
LEMMA ResetHeads ==
    ASSUME NEW s
    PROVE  /\ s \in ArmingAll =>
                s # <<>> /\ Head(s).do = "arm all" /\
                Tail(s) \in Ticking /\ s \in Calls /\ Tail(s) \in Calls
           /\ s \in RelandAsk =>
                s # <<>> /\ Head(s).do = "drop ask" /\
                Tail(s) \in ArmingAll /\ s \in Calls /\ Tail(s) \in Calls
           /\ s \in RelandBits =>
                s # <<>> /\ Head(s).do = "drop bits" /\
                Tail(s) \in RelandAsk /\ s \in Calls /\ Tail(s) \in Calls
           /\ s \in ResetMask =>
                s # <<>> /\ Head(s).do = "replace" /\ Head(s).mask = {} /\
                Tail(s) \in RelandBits /\ s \in Calls /\ Tail(s) \in Calls
           /\ s \in ResetAsk =>
                s # <<>> /\ Head(s).do = "drop ask" /\
                Tail(s) \in ResetMask /\ s \in Calls /\ Tail(s) \in Calls
           /\ s \in ResetBits =>
                s # <<>> /\ Head(s).do = "drop bits" /\
                Tail(s) \in ResetAsk /\ s \in Calls /\ Tail(s) \in Calls
<1>1. s \in ArmingAll =>
        s # <<>> /\ Head(s).do = "arm all" /\
                Tail(s) \in Ticking /\ s \in Calls /\ Tail(s) \in Calls
  BY OfFirst, StepNames DEF ArmingAll
<1>2. s \in RelandAsk =>
        s # <<>> /\ Head(s).do = "drop ask" /\
                Tail(s) \in ArmingAll /\ s \in Calls /\ Tail(s) \in Calls
  BY OfFirst, StepNames DEF RelandAsk
<1>3. s \in RelandBits =>
        s # <<>> /\ Head(s).do = "drop bits" /\
                Tail(s) \in RelandAsk /\ s \in Calls /\ Tail(s) \in Calls
  BY OfFirst, StepNames DEF RelandBits
<1>4. s \in ResetMask =>
        s # <<>> /\ Head(s).do = "replace" /\ Head(s).mask = {} /\
                Tail(s) \in RelandBits /\ s \in Calls /\ Tail(s) \in Calls
  BY OfFirst DEF ResetMask, Do, DoTo
<1>5. s \in ResetAsk =>
        s # <<>> /\ Head(s).do = "drop ask" /\
                Tail(s) \in ResetMask /\ s \in Calls /\ Tail(s) \in Calls
  BY OfFirst, StepNames DEF ResetAsk
<1>6. s \in ResetBits =>
        s # <<>> /\ Head(s).do = "drop bits" /\
                Tail(s) \in ResetAsk /\ s \in Calls /\ Tail(s) \in Calls
  BY OfFirst, StepNames DEF ResetBits
<1> QED
  BY <1>1, <1>2, <1>3, <1>4, <1>5, <1>6

\* And of a restore.
LEMMA RestoreHeads ==
    ASSUME NEW s, NEW t, NEW c
    PROVE  /\ s \in Lowering(t, c) =>
                s # <<>> /\ Head(s).do = "lower" /\ Head(s).state = c /\
                Tail(s) \in Afterwards(t, c) /\ s \in Calls /\ Tail(s) \in Calls
           /\ s \in Aborting(t, c) =>
                s # <<>> /\ Head(s).do = "abort" /\
                Tail(s) \in Lowering(t, c) /\ s \in Calls /\ Tail(s) \in Calls
           /\ s \in Replacing(t, c) =>
                s # <<>> /\ Head(s).do = "replace" /\ Head(s).mask = c.mask /\
                Tail(s) \in Aborting(t, c) /\ s \in Calls /\ Tail(s) \in Calls
           /\ s \in DroppingAsk(t, c) =>
                s # <<>> /\ Head(s).do = "drop ask" /\
                Tail(s) \in Replacing(t, c) /\ s \in Calls /\ Tail(s) \in Calls
           /\ s \in DroppingBits(t, c) =>
                s # <<>> /\ Head(s).do = "drop bits" /\
                Tail(s) \in DroppingAsk(t, c) /\ s \in Calls /\ Tail(s) \in Calls
           /\ s \in Adopting(t, c) =>
                s # <<>> /\ Head(s).do = "adopt" /\ Head(s).state = c /\
                Tail(s) \in DroppingBits(t, c) /\ s \in Calls /\ Tail(s) \in Calls
           /\ s \in Raising(t, c) =>
                s # <<>> /\ Head(s).do = "raise" /\
                Tail(s) \in Adopting(t, c) /\ s \in Calls /\ Tail(s) \in Calls
<1>1. s \in Lowering(t, c) =>
        s # <<>> /\ Head(s).do = "lower" /\ Head(s).state = c /\
                Tail(s) \in Afterwards(t, c) /\ s \in Calls /\ Tail(s) \in Calls
  BY OfFirst DEF Lowering, Do, DoTo
<1>2. s \in Aborting(t, c) =>
        s # <<>> /\ Head(s).do = "abort" /\
                Tail(s) \in Lowering(t, c) /\ s \in Calls /\ Tail(s) \in Calls
  BY OfFirst DEF Aborting, Do, DoTo
<1>3. s \in Replacing(t, c) =>
        s # <<>> /\ Head(s).do = "replace" /\ Head(s).mask = c.mask /\
                Tail(s) \in Aborting(t, c) /\ s \in Calls /\ Tail(s) \in Calls
  BY OfFirst DEF Replacing, Do, DoTo
<1>4. s \in DroppingAsk(t, c) =>
        s # <<>> /\ Head(s).do = "drop ask" /\
                Tail(s) \in Replacing(t, c) /\ s \in Calls /\ Tail(s) \in Calls
  BY OfFirst, StepNames DEF DroppingAsk
<1>5. s \in DroppingBits(t, c) =>
        s # <<>> /\ Head(s).do = "drop bits" /\
                Tail(s) \in DroppingAsk(t, c) /\ s \in Calls /\ Tail(s) \in Calls
  BY OfFirst, StepNames DEF DroppingBits
<1>6. s \in Adopting(t, c) =>
        s # <<>> /\ Head(s).do = "adopt" /\ Head(s).state = c /\
                Tail(s) \in DroppingBits(t, c) /\ s \in Calls /\ Tail(s) \in Calls
  BY OfFirst DEF Adopting, Do, DoTo
<1>7. s \in Raising(t, c) =>
        s # <<>> /\ Head(s).do = "raise" /\
                Tail(s) \in Adopting(t, c) /\ s \in Calls /\ Tail(s) \in Calls
  BY OfFirst DEF Raising, Do, DoTo
<1> QED
  BY <1>1, <1>2, <1>3, <1>4, <1>5, <1>6, <1>7

-----------------------------------------------------------------------------
(* Where a call is, by what it makes next.                                  *)

Where(t, x) ==
    /\ x = "begin"  => \E p \in Managed : doing[t] \in Beginning(p)
    /\ x = "write"  => \E p \in Managed : doing[t] \in Writing(p)
    /\ x = "listen" => \E p \in Managed : doing[t] \in Listening(p)
    /\ x = "stage"  => \E p \in Managed : doing[t] \in Staging(p)
    /\ x = "end"    => \E p \in Managed : doing[t] \in Ending(p)
    /\ x = "soon"   => doing[t] \in Hurrying
    /\ x = "ask"    => doing[t] \in Asking
    /\ x = "arm"    => doing[t] \in Arming
    /\ x = "move"   => \E m \in Positions : doing[t] \in Moving(m)

DrainWhere(t, x) ==
    /\ x \in {"bits", "clear", "take", "land", "landed", "tick", "arm all"} => t = "message"
    /\ x = "bits"   => doing[t] \in Bringing
    /\ x = "clear"  => doing[t] \in Clearing
    /\ x = "take"   => doing[t] \in Taking
    /\ x = "land"   => \E i \in 1..Len(Order), v \in Positions : doing[t] \in Landing(i, v)
    /\ x = "landed" => doing[t] \in Finishing
    /\ x = "tick"   => doing[t] \in Ticking

BulkWhere(t, x) ==
    /\ x = "raise" => \E c \in States : doing[t] \in Raising(t, c)
    /\ x = "adopt" => \E c \in States : doing[t] \in Adopting(t, c) /\ Carries(t, c, 1)
    /\ x = "drop bits" =>
          \/ \E c \in States : doing[t] \in DroppingBits(t, c) /\ Carries(t, c, 2)
          \/ t = "message" /\ doing[t] \in ResetBits /\ Resets(1)
          \/ t = "message" /\ doing[t] \in RelandBits /\ Resets(4)
    /\ x = "drop ask" =>
          \/ \E c \in States : doing[t] \in DroppingAsk(t, c) /\ Carries(t, c, 3)
          \/ t = "message" /\ doing[t] \in ResetAsk /\ Resets(2)
          \/ t = "message" /\ doing[t] \in RelandAsk /\ Resets(4)
    /\ x = "replace" =>
          \/ \E c \in States : doing[t] \in Replacing(t, c) /\ Carries(t, c, 4)
          \/ t = "message" /\ doing[t] \in ResetMask /\ Resets(3)
    /\ x = "abort" => \E c \in States : doing[t] \in Aborting(t, c) /\ Carries(t, c, 5)
    /\ x = "lower" => \E c \in States : doing[t] \in Lowering(t, c) /\ Carries(t, c, 6)
    /\ x = "arm all" => doing[t] \in ArmingAll /\ Resets(4)

LEMMA Located ==
    ASSUME NEW t \in DrainThreads, CallStep(t), doing[t] # <<>>
    PROVE  LET x == Head(doing[t]).do IN Where(t, x) /\ DrainWhere(t, x) /\ BulkWhere(t, x)
<1> DEFINE x == Head(doing[t]).do
           goal == Where(t, x) /\ DrainWhere(t, x) /\ BulkWhere(t, x)
<1> SUFFICES goal
  OBVIOUS
<1>1. CASE doing[t] \in Hosting
  <2>1. CASE doing[t] \in Closing
    <3>1. PICK p \in Managed : doing[t] \in Ending(p)
      BY <2>1 DEF Closing
    <3>2. x = "end"
      BY <3>1, HostHeads
    <3> HIDE DEF x
    <3> QED
      BY <3>1, <3>2 DEF Where, DrainWhere, BulkWhere, x
  <2>2. CASE doing[t] \in Hurrying
    <3>1. x = "soon"
      BY <2>2, HostHeads
    <3> QED
      BY <2>2, <3>1 DEF Where, DrainWhere, BulkWhere
  <2>3. CASE doing[t] \in Asking
    <3>1. x = "ask"
      BY <2>3, HostHeads
    <3> QED
      BY <2>3, <3>1 DEF Where, DrainWhere, BulkWhere
  <2>4. CASE doing[t] \in Arming
    <3>1. x = "arm"
      BY <2>4, HostHeads
    <3> QED
      BY <2>4, <3>1 DEF Where, DrainWhere, BulkWhere
  <2>5. ASSUME NEW p \in Managed, doing[t] \in Beginning(p)  PROVE goal
    <3>1. x = "begin"
      BY <2>5, HostHeads
    <3> QED
      BY <2>5, <3>1 DEF Where, DrainWhere, BulkWhere
  <2>6. ASSUME NEW p \in Managed, doing[t] \in Writing(p)  PROVE goal
    <3>1. x = "write"
      BY <2>6, HostHeads
    <3> QED
      BY <2>6, <3>1 DEF Where, DrainWhere, BulkWhere
  <2>7. ASSUME NEW p \in Managed, doing[t] \in Listening(p)  PROVE goal
    <3>1. x = "listen"
      BY <2>7, HostHeads
    <3> QED
      BY <2>7, <3>1 DEF Where, DrainWhere, BulkWhere
  <2>8. ASSUME NEW p \in Managed, doing[t] \in Staging(p)  PROVE goal
    <3>1. x = "stage"
      BY <2>8, HostHeads
    <3> QED
      BY <2>8, <3>1 DEF Where, DrainWhere, BulkWhere
  <2>9. ASSUME NEW m \in Positions, doing[t] \in Moving(m)  PROVE goal
    <3>1. x = "move"
      BY <2>9, MoveHeads
    <3> QED
      BY <2>9, <3>1 DEF Where, DrainWhere, BulkWhere
  <2> HIDE DEF goal
  <2> QED
    BY <1>1, <2>1, <2>2, <2>3, <2>4, <2>5, <2>6, <2>7, <2>8, <2>9 DEF Hosting
<1>2. ASSUME NEW c \in States, RestoreStep(t, c)  PROVE goal
  <2>1. CASE doing[t] \in Raising(t, c)
    <3>1. x = "raise"
      BY <2>1, RestoreHeads
    <3> QED
      BY <2>1, <3>1 DEF Where, DrainWhere, BulkWhere
  <2>2. CASE doing[t] \in Adopting(t, c) /\ Carries(t, c, 1)
    <3>1. x = "adopt"
      BY <2>2, RestoreHeads
    <3> QED
      BY <2>2, <3>1 DEF Where, DrainWhere, BulkWhere
  <2>3. CASE doing[t] \in DroppingBits(t, c) /\ Carries(t, c, 2)
    <3>1. x = "drop bits"
      BY <2>3, RestoreHeads
    <3> QED
      BY <2>3, <3>1 DEF Where, DrainWhere, BulkWhere
  <2>4. CASE doing[t] \in DroppingAsk(t, c) /\ Carries(t, c, 3)
    <3>1. x = "drop ask"
      BY <2>4, RestoreHeads
    <3> QED
      BY <2>4, <3>1 DEF Where, DrainWhere, BulkWhere
  <2>5. CASE doing[t] \in Replacing(t, c) /\ Carries(t, c, 4)
    <3>1. x = "replace"
      BY <2>5, RestoreHeads
    <3> QED
      BY <2>5, <3>1 DEF Where, DrainWhere, BulkWhere
  <2>6. CASE doing[t] \in Aborting(t, c) /\ Carries(t, c, 5)
    <3>1. x = "abort"
      BY <2>6, RestoreHeads
    <3> QED
      BY <2>6, <3>1 DEF Where, DrainWhere, BulkWhere
  <2>7. CASE doing[t] \in Lowering(t, c) /\ Carries(t, c, 6)
    <3>1. x = "lower"
      BY <2>7, RestoreHeads
    <3> QED
      BY <2>7, <3>1 DEF Where, DrainWhere, BulkWhere
  <2> HIDE DEF goal
  <2> QED
    BY <1>2, <2>1, <2>2, <2>3, <2>4, <2>5, <2>6, <2>7 DEF RestoreStep
<1>3. CASE t = "message" /\ doing[t] \in Draining
  <2>1. CASE doing[t] \in Ticking
    <3>1. x = "tick"
      BY <2>1, DrainHeads
    <3> QED
      BY <1>3, <2>1, <3>1 DEF Where, DrainWhere, BulkWhere
  <2>2. CASE doing[t] \in Bringing
    <3>1. x = "bits"
      BY <2>2, DrainHeads
    <3> QED
      BY <1>3, <2>2, <3>1 DEF Where, DrainWhere, BulkWhere
  <2>3. CASE doing[t] \in Clearing
    <3>1. x = "clear"
      BY <2>3, DrainHeads
    <3> QED
      BY <1>3, <2>3, <3>1 DEF Where, DrainWhere, BulkWhere
  <2>4. CASE doing[t] \in Taking
    <3>1. x = "take"
      BY <2>4, DrainHeads
    <3> QED
      BY <1>3, <2>4, <3>1 DEF Where, DrainWhere, BulkWhere
  <2>5. CASE doing[t] \in Finishing
    <3>1. x = "landed"
      BY <2>5, DrainHeads
    <3> QED
      BY <1>3, <2>5, <3>1 DEF Where, DrainWhere, BulkWhere
  <2>6. ASSUME NEW i \in 1..Len(Order), NEW v \in Positions, doing[t] \in Landing(i, v)  PROVE goal
    <3>1. x = "land"
      BY <2>6, DrainHeads
    <3> QED
      BY <1>3, <2>6, <3>1 DEF Where, DrainWhere, BulkWhere
  <2> HIDE DEF goal
  <2> QED
    BY <1>3, <2>1, <2>2, <2>3, <2>4, <2>5, <2>6 DEF Draining
<1>4. CASE t = "message" /\ ResetStep
  <2>1. CASE doing[t] \in ResetBits /\ Resets(1)
    <3>1. x = "drop bits"
      BY <2>1, ResetHeads
    <3> QED
      BY <1>4, <2>1, <3>1 DEF Where, DrainWhere, BulkWhere
  <2>2. CASE doing[t] \in ResetAsk /\ Resets(2)
    <3>1. x = "drop ask"
      BY <2>2, ResetHeads
    <3> QED
      BY <1>4, <2>2, <3>1 DEF Where, DrainWhere, BulkWhere
  <2>3. CASE doing[t] \in ResetMask /\ Resets(3)
    <3>1. x = "replace"
      BY <2>3, ResetHeads
    <3> QED
      BY <1>4, <2>3, <3>1 DEF Where, DrainWhere, BulkWhere
  <2>4. CASE doing[t] \in RelandBits /\ Resets(4)
    <3>1. x = "drop bits"
      BY <2>4, ResetHeads
    <3> QED
      BY <1>4, <2>4, <3>1 DEF Where, DrainWhere, BulkWhere
  <2>5. CASE doing[t] \in RelandAsk /\ Resets(4)
    <3>1. x = "drop ask"
      BY <2>5, ResetHeads
    <3> QED
      BY <1>4, <2>5, <3>1 DEF Where, DrainWhere, BulkWhere
  <2>6. CASE doing[t] \in ArmingAll /\ Resets(4)
    <3>1. x = "arm all"
      BY <2>6, ResetHeads
    <3> QED
      BY <1>4, <2>6, <3>1 DEF Where, DrainWhere, BulkWhere
  <2> HIDE DEF goal
  <2> QED
    BY <1>4, <2>1, <2>2, <2>3, <2>4, <2>5, <2>6 DEF ResetStep
<1> HIDE DEF goal
<1> QED
  BY <1>1, <1>2, <1>3, <1>4 DEF CallStep

-----------------------------------------------------------------------------
(* One thread takes a step, the other is where it was.                      *)

Small  == {"begin", "write", "listen", "end", "stage", "soon"}
Middle == {"adopt", "drop bits", "drop ask", "replace", "abort", "lower", "arm all"}

LEMMA ThreadsAre ==
    ASSUME NEW t \in DrainThreads
    PROVE  /\ Other(t) \in DrainThreads /\ Other(t) # t /\ Other(Other(t)) = t
           /\ DrainThreads = {t, Other(t)}
           /\ "message" \in DrainThreads /\ "other" \in DrainThreads
           /\ Other("message") = "other" /\ Other("other") = "message"
BY DEF DrainThreads, Other

LEMMA Continued ==
    ASSUME MacroType, NEW t \in DrainThreads, NEW steps \in Calls, doing[t] # <<>>, Continue(t, steps)
    PROVE  /\ doing'[t] = steps \o Tail(doing[t]) /\ Tail(doing[t]) \in Calls
           /\ doing'[Other(t)] = doing[Other(t)] /\ doing' \in [DrainThreads -> Calls]
<1>1. doing[t] \in Calls /\ doing \in [DrainThreads -> Calls]
  BY DEF MacroType
<1>2. Tail(doing[t]) \in Calls
  BY <1>1, HeadTailProperties DEF Calls
<1>3. steps \o Tail(doing[t]) \in Calls
  BY <1>2, JoinOf
<1>4. doing' = [doing EXCEPT ![t] = steps \o Tail(doing[t])]
  BY DEF Continue
<1> QED
  BY <1>1, <1>2, <1>3, <1>4, ThreadsAre

LEMMA Passed ==
    ASSUME MacroType, NEW t \in DrainThreads, doing[t] # <<>>, Continue(t, <<>>)
    PROVE  /\ doing'[t] = Tail(doing[t]) /\ doing'[t] \in Calls
           /\ doing'[Other(t)] = doing[Other(t)] /\ doing' \in [DrainThreads -> Calls]
BY Continued, OverIs, JoinOf

LEMMA SparingNames ==
    ASSUME NEW t \in DrainThreads, NEW p, NEW s \in Sparing(t, p), s # <<>>
    PROVE  /\ Head(s).do \in Small
           /\ t = "message" => Head(s).do \notin {"stage", "soon"}
           /\ Head(s).do \in {"begin", "write", "listen", "stage"} => Head(s).p # p
<1>1. CASE s \in Closing
  BY <1>1, HostHeads DEF Closing, Small
<1>2. ASSUME NEW q \in Managed \ {p}, s \in Beginning(q)  PROVE Head(s).do = "begin" /\ Head(s).p # p
  BY <1>2, HostHeads
<1>3. ASSUME NEW q \in Managed \ {p}, s \in Writing(q)  PROVE Head(s).do = "write" /\ Head(s).p # p
  BY <1>3, HostHeads
<1>4. ASSUME NEW q \in Managed \ {p}, s \in Listening(q)  PROVE Head(s).do = "listen" /\ Head(s).p # p
  BY <1>4, HostHeads
<1>5. CASE s \in Hurrying /\ t = "other"
  BY <1>5, HostHeads DEF Small
<1>6. ASSUME NEW q \in Managed \ {p}, s \in Staging(q)  PROVE Head(s).do = "stage" /\ Head(s).p # p
  BY <1>6, HostHeads
<1> QED
  BY <1>1, <1>2, <1>3, <1>4, <1>5, <1>6 DEF Sparing, Small

LEMMA GuardedNames ==
    ASSUME NEW t, NEW s \in Guarded(t)
    PROVE  s # <<>> /\ Head(s).do \in Middle /\ Head(s).do # "arm all"
<1>1. PICK c \in States : s \in Adopting(t, c) \union DroppingBits(t, c) \union DroppingAsk(t, c)
                                  \union Replacing(t, c) \union Aborting(t, c) \union Lowering(t, c)
  BY DEF Guarded
<1>2. s # <<>>
  BY <1>1, RestoreHeads
<1>3. \/ Head(s).do = "adopt" \/ Head(s).do = "drop bits" \/ Head(s).do = "drop ask"
      \/ Head(s).do = "replace" \/ Head(s).do = "abort" \/ Head(s).do = "lower"
  BY <1>1, RestoreHeads
<1> QED
  BY <1>2, <1>3 DEF Middle

\* The resets are none of the restores that are counted.
LEMMA ResetsAreNot ==
    ASSUME NEW t, NEW s \in ResetBits \union ResetAsk \union ResetMask \union RelandBits \union RelandAsk
                              \union ArmingAll
    PROVE  s \notin Guarded(t)
<1> SUFFICES ASSUME NEW c \in States,
                    s \in Adopting(t, c) \union DroppingBits(t, c) \union DroppingAsk(t, c)
                            \union Replacing(t, c) \union Aborting(t, c) \union Lowering(t, c)
             PROVE  FALSE
  BY DEF Guarded
<1>1. CASE s \in ArmingAll
  <2>1. Head(s).do = "arm all"
    BY <1>1, ResetHeads
  <2>2. Head(s).do # "arm all"
    BY RestoreHeads
  <2> QED
    BY <2>1, <2>2
<1>2. CASE s \in ResetMask
  <2>1. s \in Replacing(t, c)
    <3>1. Head(s).do = "replace"
      BY <1>2, ResetHeads
    <3> QED
      BY <3>1, RestoreHeads
  <2>2. Head(Tail(s)).do = "drop bits"
    BY <1>2, ResetHeads
  <2>3. Head(Tail(s)).do = "abort"
    BY <2>1, RestoreHeads
  <2> QED
    BY <2>2, <2>3
<1>3. CASE s \in ResetAsk \union RelandAsk
  <2>1. Head(s).do = "drop ask"
    BY <1>3, ResetHeads
  <2>2. s \in DroppingAsk(t, c)
    BY <2>1, RestoreHeads
  <2>3. Tail(s) \in Replacing(t, c)
    BY <2>2, RestoreHeads
  <2>4. Head(Tail(s)).do = "replace" /\ Head(Tail(Tail(s))).do = "abort"
    BY <2>3, RestoreHeads
  <2>5. Tail(s) \in ResetMask \union ArmingAll
    BY <1>3, ResetHeads
  <2>6. Head(Tail(s)).do = "arm all" \/ Tail(Tail(s)) \in RelandBits
    BY <2>5, ResetHeads
  <2>7. Head(Tail(s)).do = "arm all" \/ Head(Tail(Tail(s))).do = "drop bits"
    BY <2>6, ResetHeads
  <2> QED
    BY <2>4, <2>7
<1>4. CASE s \in ResetBits \union RelandBits
  <2>1. Head(s).do = "drop bits"
    BY <1>4, ResetHeads
  <2>2. s \in DroppingBits(t, c)
    BY <2>1, RestoreHeads
  <2>3. Tail(s) \in DroppingAsk(t, c)
    BY <2>2, RestoreHeads
  <2>4. Tail(Tail(s)) \in Replacing(t, c)
    BY <2>3, RestoreHeads
  <2>5. Head(Tail(Tail(s))).do = "replace" /\ Head(Tail(Tail(Tail(s)))).do = "abort"
    BY <2>4, RestoreHeads
  <2>6. Tail(s) \in ResetAsk \union RelandAsk
    BY <1>4, ResetHeads
  <2>7. Tail(Tail(s)) \in ResetMask \union ArmingAll
    BY <2>6, ResetHeads
  <2>8. Head(Tail(Tail(s))).do = "arm all" \/ Tail(Tail(Tail(s))) \in RelandBits
    BY <2>7, ResetHeads
  <2>9. Head(Tail(Tail(s))).do = "arm all" \/ Head(Tail(Tail(Tail(s)))).do = "drop bits"
    BY <2>8, ResetHeads
  <2> QED
    BY <2>5, <2>9
<1> QED
  BY <1>1, <1>2, <1>3, <1>4

\* A thread in the middle of a bulk change finds what it has brought about so
\* far undisturbed.
Undisturbed(u, p) ==
    /\ p \notin touched
    /\ doing'[Other(u)] \in Sparing(Other(u), p)
    /\ value'[p] = value[p] /\ (p \in bits' => p \in bits) /\ (reengage' => reengage)
    /\ (p \in mask') = (p \in mask) /\ (armed' => armed)

LEMMA OtherStays ==
    ASSUME NEW u \in DrainThreads, CallStep(u), doing'[u] = doing[u],
           \A p \in Managed \ touched' :
              (Makes(u, Middle) /\ (p \notin touched => doing[Other(u)] \in Sparing(Other(u), p)))
              => Undisturbed(u, p)
    PROVE  CallStep(u)'
<1>1. ASSUME NEW c, NEW n \in 1..6, Carries(u, c, n), Makes(u, Middle)  PROVE Carries(u, c, n)'
  <2> SUFFICES ASSUME NEW p \in Managed \ touched'
               PROVE  /\ doing'[Other(u)] \in Sparing(Other(u), p)
                      /\ n > 1 => value'[p] = c.value[p]
                      /\ n > 2 => p \notin bits'
                      /\ n > 3 => ~reengage'
                      /\ n > 4 => (p \in mask') = (p \in c.mask)
                      /\ n > 5 => ~armed'
    BY DEF Carries
  <2>1. Undisturbed(u, p)
    BY <1>1 DEF Carries
  <2> QED
    BY <1>1, <2>1 DEF Carries, Undisturbed
<1>2. ASSUME NEW n \in 1..4, Resets(n), u = "message", Makes(u, Middle)  PROVE Resets(n)'
  <2> SUFFICES ASSUME NEW p \in Managed \ touched'
               PROVE  /\ doing'["other"] \in Sparing("other", p)
                      /\ n > 1 => p \notin bits'
                      /\ n > 2 => ~reengage'
                      /\ n > 3 => p \notin mask'
    BY DEF Resets
  <2>1. Other(u) = "other"
    BY <1>2, ThreadsAre
  <2>2. Undisturbed(u, p)
    BY <1>2, <2>1 DEF Resets
  <2> QED
    BY <1>2, <2>1, <2>2 DEF Resets, Undisturbed
<1>3. CASE doing[u] \in Hosting
  BY <1>3 DEF CallStep
<1>4. CASE u = "message" /\ doing[u] \in Draining
  BY <1>4 DEF CallStep
<1>5. ASSUME NEW c \in States, RestoreStep(u, c)  PROVE CallStep(u)'
  <2>1. CASE doing[u] \in Raising(u, c)
    <3>1. RestoreStep(u, c)'
      BY <2>1 DEF RestoreStep
    <3> QED
      BY <3>1 DEF CallStep
  <2>2. ASSUME NEW n \in 1..6, Carries(u, c, n), Makes(u, Middle)  PROVE Carries(u, c, n)'
    BY <1>1, <2>2
  <2>3. CASE doing[u] \in Adopting(u, c) /\ Carries(u, c, 1)
    <3>1. Makes(u, Middle)
      BY <2>3, RestoreHeads DEF Makes, Middle
    <3>2. RestoreStep(u, c)'
      BY <2>2, <2>3, <3>1 DEF RestoreStep
    <3> QED
      BY <3>2 DEF CallStep
  <2>4. CASE doing[u] \in DroppingBits(u, c) /\ Carries(u, c, 2)
    <3>1. Makes(u, Middle)
      BY <2>4, RestoreHeads DEF Makes, Middle
    <3>2. RestoreStep(u, c)'
      BY <2>2, <2>4, <3>1 DEF RestoreStep
    <3> QED
      BY <3>2 DEF CallStep
  <2>5. CASE doing[u] \in DroppingAsk(u, c) /\ Carries(u, c, 3)
    <3>1. Makes(u, Middle)
      BY <2>5, RestoreHeads DEF Makes, Middle
    <3>2. RestoreStep(u, c)'
      BY <2>2, <2>5, <3>1 DEF RestoreStep
    <3> QED
      BY <3>2 DEF CallStep
  <2>6. CASE doing[u] \in Replacing(u, c) /\ Carries(u, c, 4)
    <3>1. Makes(u, Middle)
      BY <2>6, RestoreHeads DEF Makes, Middle
    <3>2. RestoreStep(u, c)'
      BY <2>2, <2>6, <3>1 DEF RestoreStep
    <3> QED
      BY <3>2 DEF CallStep
  <2>7. CASE doing[u] \in Aborting(u, c) /\ Carries(u, c, 5)
    <3>1. Makes(u, Middle)
      BY <2>7, RestoreHeads DEF Makes, Middle
    <3>2. RestoreStep(u, c)'
      BY <2>2, <2>7, <3>1 DEF RestoreStep
    <3> QED
      BY <3>2 DEF CallStep
  <2>8. CASE doing[u] \in Lowering(u, c) /\ Carries(u, c, 6)
    <3>1. Makes(u, Middle)
      BY <2>8, RestoreHeads DEF Makes, Middle
    <3>2. RestoreStep(u, c)'
      BY <2>2, <2>8, <3>1 DEF RestoreStep
    <3> QED
      BY <3>2 DEF CallStep
  <2> QED
    BY <1>5, <2>1, <2>3, <2>4, <2>5, <2>6, <2>7, <2>8 DEF RestoreStep
<1>6. CASE u = "message" /\ ResetStep
  <2>1. Makes(u, Middle)
    <3>1. doing[u] \in ResetBits \union ResetAsk \union ResetMask \union RelandBits \union RelandAsk
                         \union ArmingAll
      BY <1>6 DEF ResetStep
    <3>2. doing[u] # <<>>
      BY <3>1, ResetHeads
    <3>3. \/ Head(doing[u]).do = "drop bits" \/ Head(doing[u]).do = "drop ask"
          \/ Head(doing[u]).do = "replace" \/ Head(doing[u]).do = "arm all"
      BY <3>1, ResetHeads
    <3> QED
      BY <3>2, <3>3 DEF Makes, Middle
  <2>2. ASSUME NEW n \in 1..4, Resets(n)  PROVE Resets(n)'
    BY <1>2, <1>6, <2>1, <2>2
  <2>3. doing'["message"] = doing["message"]
    BY <1>6
  <2>4. ResetStep'
    BY <1>6, <2>2, <2>3 DEF ResetStep
  <2> QED
    BY <1>6, <2>4 DEF CallStep
<1> QED
  BY <1>3, <1>4, <1>5, <1>6 DEF CallStep

\* A step that no thread in the middle of a bulk change lets another one take
\* for a parameter it is alone with.
LEMMA OtherAlone ==
    ASSUME NEW t \in DrainThreads, CallStep(Other(t)), doing'[Other(t)] = doing[Other(t)],
           touched \subseteq touched', doing[t] # <<>>,
           Head(doing[t]).do \notin Small \/ (t = "message" /\ Head(doing[t]).do \in {"stage", "soon"})
    PROVE  CallStep(Other(t))'
<1>1. ASSUME NEW p \in Managed \ touched', p \notin touched => doing[t] \in Sparing(t, p)  PROVE FALSE
  <2>1. doing[t] \in Sparing(t, p)
    BY <1>1
  <2> QED
    BY <2>1, SparingNames
<1> QED
  BY <1>1, OtherStays, ThreadsAre

LEMMA OtherUntouched ==
    ASSUME NEW t \in DrainThreads, CallStep(Other(t)), doing'[Other(t)] = doing[Other(t)],
           Managed \subseteq touched'
    PROVE  CallStep(Other(t))'
BY OtherStays, ThreadsAre

\* In the middle of a restore the other thread is past its guard.
LEMMA OtherGuarded ==
    ASSUME CallStep("other"), GuardInv, restoring = 0
    PROVE  ~Makes("other", Middle) /\ doing["other"] \notin Guarded("other") /\ doing["message"] \notin Guarded("message")
<1>1. doing["other"] \notin Guarded("other") /\ doing["message"] \notin Guarded("message")
  BY DEF GuardInv, Guards
<1>2. ASSUME Makes("other", Middle)  PROVE FALSE
  <2> DEFINE x == Head(doing["other"]).do
  <2>1. doing["other"] # <<>> /\ x \in Middle
    BY <1>2 DEF Makes
  <2>2. DrainWhere("other", x) /\ BulkWhere("other", x)
    BY <2>1, Located, ThreadsAre DEF DrainThreads
  <2>3. x # "arm all"
    BY <2>2 DEF DrainWhere
  <2>4. \E c \in States : doing["other"] \in Adopting("other", c) \union DroppingBits("other", c)
                            \union DroppingAsk("other", c) \union Replacing("other", c)
                            \union Aborting("other", c) \union Lowering("other", c)
    BY <2>1, <2>2, <2>3 DEF BulkWhere, Middle
  <2>5. doing["other"] \in Calls
    BY <2>4, RestoreHeads
  <2>6. doing["other"] \in Guarded("other")
    BY <2>4, <2>5 DEF Guarded
  <2> QED
    BY <1>1, <2>6
<1> QED
  BY <1>1, <1>2

LEMMA GuardsStay ==
    ASSUME NEW t \in DrainThreads, GuardInv, restoring' = restoring, doing'[Other(t)] = doing[Other(t)],
           (doing'[t] \in Guarded(t)) = (doing[t] \in Guarded(t))
    PROVE  GuardInv'
<1>1. CASE t = "message"
  BY <1>1, ThreadsAre DEF GuardInv, Guards
<1>2. CASE t = "other"
  BY <1>2, ThreadsAre DEF GuardInv, Guards
<1> QED
  BY <1>1, <1>2 DEF DrainThreads

LEMMA NotGuarded ==
    ASSUME NEW t, NEW s, s = <<>> \/ Head(s).do \notin Middle
    PROVE  s \notin Guarded(t)
BY GuardedNames

LEMMA HostingIs ==
    /\ \A s \in Closing \union Hurrying \union Asking \union Arming : s \in Hosting /\ s \notin Guarded("message")
                                                                      /\ s \notin Guarded("other")
    /\ \A p \in Managed : \A s \in Beginning(p) \union Writing(p) \union Listening(p) \union Staging(p)
                                     \union Ending(p) :
          s \in Hosting /\ s \notin Guarded("message") /\ s \notin Guarded("other")
    /\ \A m \in Positions : \A s \in Moving(m) :
          s \in Hosting /\ s \notin Guarded("message") /\ s \notin Guarded("other")
<1>1. ASSUME NEW t, NEW s \in Closing \union Hurrying \union Asking \union Arming
      PROVE  s \in Hosting /\ s \notin Guarded(t)
  <2>1. s \in Calls
    BY HostHeads DEF Closing
  <2>2. s = <<>> \/ Head(s).do \in {"end", "soon", "ask", "arm"}
    BY HostHeads DEF Closing
  <2> QED
    BY <2>1, <2>2, NotGuarded DEF Hosting, Middle
<1>2. ASSUME NEW t, NEW p \in Managed,
             NEW s \in Beginning(p) \union Writing(p) \union Listening(p) \union Staging(p) \union Ending(p)
      PROVE  s \in Hosting /\ s \notin Guarded(t)
  <2>1. s \in Calls
    BY HostHeads
  <2>2. Head(s).do = "begin" \/ Head(s).do = "write" \/ Head(s).do = "listen" \/ Head(s).do = "stage"
          \/ Head(s).do = "end"
    BY HostHeads
  <2>3. s \in Ending(p) => s \in Closing
    BY <2>1 DEF Closing
  <2> QED
    BY <2>1, <2>2, <2>3, NotGuarded DEF Hosting, Middle
<1>3. ASSUME NEW t, NEW m \in Positions, NEW s \in Moving(m)  PROVE s \in Hosting /\ s \notin Guarded(t)
  <2>1. s \in Calls /\ Head(s).do = "move"
    BY MoveHeads
  <2> QED
    BY <2>1, NotGuarded DEF Hosting, Middle
<1> QED
  BY <1>1, <1>2, <1>3

LEMMA DrainingIs ==
    /\ \A s \in Ticking \union Bringing \union Clearing \union Taking \union Finishing :
          s \in Draining /\ s \notin Guarded("message")
    /\ \A i \in 1..Len(Order), v \in Positions : \A s \in Landing(i, v) :
          s \in Draining /\ s \notin Guarded("message")
<1>1. ASSUME NEW s \in Ticking \union Bringing \union Clearing \union Taking \union Finishing
      PROVE  s \in Draining /\ s \notin Guarded("message")
  <2>1. s \in Calls
    BY DrainHeads
  <2>2. Head(s).do = "tick" \/ Head(s).do = "bits" \/ Head(s).do = "clear" \/ Head(s).do = "take"
          \/ Head(s).do = "landed"
    BY DrainHeads
  <2> QED
    BY <2>1, <2>2, NotGuarded DEF Draining, Middle
<1>2. ASSUME NEW i \in 1..Len(Order), NEW v \in Positions, NEW s \in Landing(i, v)
      PROVE  s \in Draining /\ s \notin Guarded("message")
  <2>1. s \in Calls /\ Head(s).do = "land"
    BY DrainHeads
  <2> QED
    BY <2>1, NotGuarded DEF Draining, Middle
<1> QED
  BY <1>1, <1>2

\* A call that bears on one parameter spares the others.
LEMMA SparingIs ==
    ASSUME NEW t \in DrainThreads, NEW p
    PROVE  /\ Closing \subseteq Sparing(t, p)
           /\ \A q \in Managed \ {p} : Beginning(q) \union Writing(q) \union Listening(q) \subseteq Sparing(t, p)
           /\ t = "other" => Hurrying \subseteq Sparing(t, p)
           /\ t = "other" => \A q \in Managed \ {p} : Staging(q) \subseteq Sparing(t, p)
<1>1. Closing \subseteq Sparing(t, p)
  BY DEF Closing, Sparing
<1>2. ASSUME NEW q \in Managed \ {p}, NEW s \in Beginning(q) \union Writing(q) \union Listening(q)
      PROVE  s \in Sparing(t, p)
  <2>1. s \in Calls
    BY HostHeads
  <2> QED
    BY <2>1 DEF Sparing
<1>3. ASSUME t = "other", NEW s \in Hurrying  PROVE s \in Sparing(t, p)
  <2>1. s \in Calls
    BY HostHeads
  <2> QED
    BY <1>3, <2>1 DEF Sparing
<1>4. ASSUME t = "other", NEW q \in Managed \ {p}, NEW s \in Staging(q)  PROVE s \in Sparing(t, p)
  <2>1. s \in Calls
    BY HostHeads
  <2> QED
    BY <1>4, <2>1 DEF Sparing
<1> QED
  BY <1>1, <1>2, <1>3, <1>4

LEMMA NotInFlight ==
    ASSUME NEW u \in DrainThreads, MacroType, CallStep(u), NEW p \in Managed, p \notin InFlight(u)
    PROVE  doing[u] \in Sparing(u, p)
<1>1. CASE doing[u] = <<>>
  BY <1>1, OverIs, SparingIs
<1>2. CASE doing[u] # <<>>
  <2> DEFINE h == Head(doing[u])
  <2>1. h \in Range(doing[u])
    <3>1. doing[u] \in Seq(MacroSteps)
      BY DEF MacroType, Calls
    <3>2. h = doing[u][1] /\ 1 \in DOMAIN doing[u]
      BY <1>2, <3>1, HeadTailProperties, LenProperties
    <3> QED
      BY <3>2 DEF Range
  <2>2. h.do \in {"begin", "write", "listen", "stage", "end"} /\ h.p # p
    BY <2>1 DEF InFlight
  <2>3. Where(u, h.do)
    BY <1>2, Located
  <2>4. CASE h.do = "stage"
    <3>1. ~ \A s \in Range(doing[u]) : s.do \in {"begin", "write", "listen", "stage", "end"}
      <4>1. PICK q \in Managed : doing[u] \in Staging(q)
        BY <2>3, <2>4 DEF Where
      <4>2. Tail(doing[u]) # <<>> /\ Head(Tail(doing[u])).do = "soon" /\ Tail(doing[u]) \in Calls
        BY <4>1, HostHeads
      <4>3. doing[u] \in Seq(MacroSteps) /\ Tail(doing[u]) \in Seq(MacroSteps)
        BY <4>2 DEF MacroType, Calls
      <4>4. /\ Len(doing[u]) \in Nat /\ Len(Tail(doing[u])) = Len(doing[u]) - 1
            /\ \A i \in 1..Len(Tail(doing[u])) : Tail(doing[u])[i] = doing[u][i + 1]
        BY <1>2, <4>3, HeadTailProperties, LenProperties
      <4>5. Len(Tail(doing[u])) \in Nat \ {0} /\ Head(Tail(doing[u])) = Tail(doing[u])[1]
        BY <4>2, <4>3, HeadTailProperties, LenProperties
      <4>6. doing[u][2].do = "soon" /\ 2 \in DOMAIN doing[u]
        BY <4>2, <4>3, <4>4, <4>5, LenProperties
      <4>7. doing[u][2] \in Range(doing[u])
        BY <4>6 DEF Range
      <4> QED
        BY <4>6, <4>7
    <3> QED
      BY <3>1 DEF InFlight
  <2>5. CASE h.do = "end"
    <3>1. PICK q \in Managed : doing[u] \in Ending(q)
      BY <2>3, <2>5 DEF Where
    <3>2. doing[u] \in Closing
      BY <3>1, HostHeads DEF Closing
    <3> QED
      BY <3>2, SparingIs
  <2>6. CASE h.do \in {"begin", "write", "listen"}
    <3>1. PICK q \in Managed : doing[u] \in Beginning(q) \union Writing(q) \union Listening(q)
      BY <2>3, <2>6 DEF Where
    <3>2. h.p = q
      BY <3>1, HostHeads
    <3> QED
      BY <2>2, <3>1, <3>2, SparingIs
  <2> QED
    BY <2>2, <2>4, <2>5, <2>6
<1> QED
  BY <1>1, <1>2

-----------------------------------------------------------------------------
(* What is owed, across a step that does not pay it.                        *)

LEMMA ChangingStays ==
    ASSUME NEW t \in DrainThreads, Changing, ~Makes(t, Bulk), doing'[Other(t)] = doing[Other(t)]
    PROVE  Changing'
BY ThreadsAre DEF Changing, Makes

LEMMA ChangingGoesOn ==
    ASSUME NEW t \in DrainThreads, doing'[t] # <<>>, Head(doing'[t]).do \in Bulk
    PROVE  Changing'
BY DEF Changing, Makes

LEMMA StandingBy ==
    ASSUME NEW p, stands'[p].by \notin {"hand", "macro", "carried"}
    PROVE  Owed(p)'
BY DEF Owed

\* The drain's place, for what a parameter is owed.
Late == {"clear", "take", "land", "landed"}

LEMMA OwedStays ==
    ASSUME NEW p \in Managed, Owed(p), value'[p] = value[p], stands'[p] = stands[p],
           (p \in mask') = (p \in mask), (p \in bits') = (p \in bits), reengage' = reengage,
           armed' = armed \/ stands[p].by # "carried",
           macro' = macro \/ Coming', Coming => Coming',
           doing'["message"] = doing["message"] \/ ~(Makes("message", Late) \/ Makes("message", Late)')
    PROVE  Owed(p)'
<1>1. /\ Makes("message", {"clear"})' = Makes("message", {"clear"})
      /\ Makes("message", {"take", "land", "landed"})' = Makes("message", {"take", "land", "landed"})
      /\ Makes("message", Late)' = Makes("message", Late)
      /\ Lands(p)' = Lands(p) /\ (Lands(p) => doing'["message"] = doing["message"])
  <2>1. CASE doing'["message"] = doing["message"]
    BY <2>1 DEF Makes, Lands
  <2>2. CASE ~(Makes("message", Late) \/ Makes("message", Late)')
    BY <2>2 DEF Makes, Lands, Late
  <2> QED
    BY <2>1, <2>2
<1>2. HandOwed(p) => HandOwed(p)'
  BY <1>1 DEF HandOwed, Late
<1>3. MacroOwed(p) => MacroOwed(p)'
  <2>1. Follows(p) => Follows(p)' \/ Coming'
    BY <1>1 DEF Follows
  <2> QED
    BY <1>1, <2>1 DEF MacroOwed
<1>4. stands[p].by = "carried" /\ CarriedOwed(p) => CarriedOwed(p)'
  BY <1>1 DEF CarriedOwed
<1> QED
  BY <1>2, <1>3, <1>4 DEF Owed

LEMMA ComingStays ==
    ASSUME NEW t \in DrainThreads, Coming, armed' = armed, ~Makes(t, {"ask", "arm", "move"}),
           doing'[Other(t)] = doing[Other(t)]
    PROVE  Coming'
BY ThreadsAre DEF Coming, Makes

\* The same for all parameters, across a step of another call.
LEMMA OwedInvStays ==
    ASSUME NEW t \in DrainThreads, OwedInv, UNCHANGED <<macro, value, mask, bits, reengage, armed, stands>>,
           doing'[Other(t)] = doing[Other(t)], ~Makes(t, Bulk), ~Makes(t, {"ask", "arm", "move"}),
           t = "message" => ~(Makes("message", Late) \/ Makes("message", Late)')
    PROVE  OwedInv'
<1>1. CASE Changing
  BY <1>1, ChangingStays DEF OwedInv
<1>2. CASE ~Changing
  <2>1. Coming => Coming'
    BY ComingStays
  <2>2. doing'["message"] = doing["message"] \/ ~(Makes("message", Late) \/ Makes("message", Late)')
    BY ThreadsAre
  <2>3. ASSUME NEW p \in Managed  PROVE Owed(p)'
    <3>1. Owed(p)
      BY <1>2 DEF OwedInv
    <3> QED
      BY <2>1, <2>2, <3>1, OwedStays
  <2> QED
    BY <2>3 DEF OwedInv
<1> QED
  BY <1>1, <1>2

LEMMA CallsOfBoth ==
    ASSUME NEW t \in DrainThreads, CallStep(t)', CallStep(Other(t))'
    PROVE  CallInv'
BY ThreadsAre DEF CallInv

\* What holds as a thread takes a step, and what is to hold after it.
LEMMA Begun ==
    ASSUME MacroInv, NEW t \in DrainThreads
    PROVE  /\ MacroType /\ CallStep(t) /\ CallStep(Other(t)) /\ GuardInv /\ OwedInv
           /\ doing[t] # <<>> => /\ Where(t, Head(doing[t]).do) /\ DrainWhere(t, Head(doing[t]).do)
                                 /\ BulkWhere(t, Head(doing[t]).do)
BY Located, ThreadsAre DEF MacroInv, CallInv

LEMMA Ended ==
    ASSUME NEW t \in DrainThreads, MacroType', CallStep(t)', CallStep(Other(t))', GuardInv', OwedInv'
    PROVE  MacroInv'
BY CallsOfBoth DEF MacroInv

LEMMA NoGuard ==
    ASSUME NEW t \in DrainThreads, GuardInv, restoring' = restoring, doing'[Other(t)] = doing[Other(t)],
           doing[t] \notin Guarded(t), doing'[t] \notin Guarded(t)
    PROVE  GuardInv'
BY GuardsStay

-----------------------------------------------------------------------------
(* The steps of the host's calls.                                           *)

LEMMA BeginOrEndKeeps ==
    ASSUME MacroInv, NEW t \in DrainThreads, BeginOrEnd(t)
    PROVE  MacroInv'
<1> DEFINE h == Head(doing[t])
<1>1. doing[t] # <<>> /\ h.do \in {"begin", "end"} /\ Continue(t, <<>>)
      /\ UNCHANGED <<macro, value, mask, bits, reengage, armed, restoring, stands, touched>>
  BY DEF BeginOrEnd, MakesStep, surface, latches
<1>2. MacroType /\ CallStep(t) /\ CallStep(Other(t)) /\ GuardInv /\ OwedInv
  BY ThreadsAre DEF MacroInv, CallInv
<1>3. doing'[t] = Tail(doing[t]) /\ doing'[Other(t)] = doing[Other(t)] /\ doing' \in [DrainThreads -> Calls]
  BY <1>1, <1>2, Passed
<1>q. PICK q \in Managed : doing[t] \in Beginning(q) \/ doing[t] \in Ending(q)
  <2>1. Where(t, h.do)
    BY <1>1, <1>2, Located
  <2> QED
    BY <1>1, <2>1 DEF Where
<1>4. \/ doing[t] \in Beginning(q) /\ doing'[t] \in Writing(q) /\ h.p = q /\ h.do = "begin"
      \/ doing[t] \in Ending(q) /\ doing'[t] = <<>>
  <2>1. CASE doing[t] \in Beginning(q)
    BY <1>3, <2>1, HostHeads
  <2>2. CASE doing[t] \in Ending(q)
    BY <1>3, <2>2, HostHeads DEF Over
  <2> QED
    BY <1>q, <2>1, <2>2
<1>5. /\ doing'[t] \in Hosting /\ (doing'[t] = <<>> \/ Head(doing'[t]).do = "write")
      /\ doing[t] \notin Guarded(t) /\ doing'[t] \notin Guarded(t)
  <2>1. doing[t] \notin Guarded(t)
    BY <1>1, NotGuarded DEF Middle
  <2>2. doing'[t] = <<>> \/ Head(doing'[t]).do = "write"
    BY <1>4, HostHeads
  <2>3. doing'[t] \notin Guarded(t)
    BY <2>2, NotGuarded DEF Middle
  <2>4. doing'[t] \in Hosting
    BY <1>4, HostingIs, OverIs
  <2> QED
    BY <2>1, <2>2, <2>3, <2>4
<1>6. MacroType'
  BY <1>1, <1>2, <1>3 DEF MacroType
<1>7. CallStep(t)'
  BY <1>5 DEF CallStep
<1>8. CallStep(Other(t))'
  <2>1. ASSUME NEW p \in Managed \ touched', p \notin touched => doing[t] \in Sparing(t, p)
        PROVE  Undisturbed(Other(t), p)
    <3>1. p \notin touched /\ doing[t] \in Sparing(t, p)
      BY <1>1, <2>1
    <3>2. doing'[t] \in Sparing(t, p)
      <4>1. CASE doing'[t] = <<>>
        BY <4>1, SparingIs, OverIs
      <4>2. CASE h.do = "begin" /\ h.p = q /\ doing'[t] \in Writing(q)
        BY <1>1, <3>1, <4>2, SparingNames, SparingIs
      <4> QED
        BY <1>4, <4>1, <4>2
    <3> QED
      BY <1>1, <3>1, <3>2, ThreadsAre DEF Undisturbed
  <2> QED
    BY <1>2, <1>3, <2>1, OtherStays, ThreadsAre
<1>9. GuardInv'
  <2>1. (doing'[t] \in Guarded(t)) = (doing[t] \in Guarded(t))
    BY <1>5
  <2> QED
    BY <1>1, <1>2, <1>3, <2>1, GuardsStay
<1>10. OwedInv'
  <2>1. ~Makes(t, Bulk) /\ ~Makes(t, {"ask", "arm", "move"}) /\ ~Makes(t, Late) /\ ~Makes(t, Late)'
    BY <1>1, <1>5 DEF Makes, Bulk, Late
  <2> QED
    BY <1>1, <1>2, <1>3, <2>1, OwedInvStays
<1> QED
  BY <1>6, <1>7, <1>8, <1>9, <1>10, CallsOfBoth DEF MacroInv

LEMMA HostWriteKeeps ==
    ASSUME MacroInv, NEW t \in DrainThreads, HostWrite(t)
    PROVE  MacroInv'
<1> DEFINE h == Head(doing[t])
<1>1. /\ doing[t] # <<>> /\ h.do = "write" /\ Continue(t, <<>>)
      /\ UNCHANGED <<macro, mask, bits, reengage, armed, restoring>>
      /\ value' = [value EXCEPT ![h.p] = h.v] /\ touched' = touched \union {h.p}
      /\ stands' = IF reengage /\ armed /\ Resting(Other(t)) THEN stands ELSE Unknown({h.p})
  BY DEF HostWrite, MakesStep, pending, latches
<1>2. MacroType /\ CallStep(t) /\ CallStep(Other(t)) /\ GuardInv /\ OwedInv
  BY ThreadsAre DEF MacroInv, CallInv
<1>3. doing'[t] = Tail(doing[t]) /\ doing'[Other(t)] = doing[Other(t)] /\ doing' \in [DrainThreads -> Calls]
  BY <1>1, <1>2, Passed
<1>q. PICK q \in Managed : doing[t] \in Writing(q)
  <2>1. Where(t, h.do)
    BY <1>1, <1>2, Located
  <2> QED
    BY <1>1, <2>1 DEF Where
<1>4. doing'[t] \in Listening(q) /\ h.p = q /\ h.v = Hand
  <2>1. Tail(doing[t]) \in Listening(q)
    BY <1>q, HostHeads
  <2>2. h.p = q
    BY <1>q, HostHeads
  <2>3. h.v = Hand
    BY <1>q, HostHeads
  <2> QED
    BY <1>3, <2>1, <2>2, <2>3
<1>5. /\ doing'[t] \in Hosting /\ doing'[t] # <<>> /\ Head(doing'[t]).do = "listen"
      /\ doing[t] \notin Guarded(t) /\ doing'[t] \notin Guarded(t)
  <2>1. doing'[t] # <<>> /\ Head(doing'[t]).do = "listen"
    BY <1>4, HostHeads
  <2> QED
    BY <1>1, <1>4, <2>1, HostingIs, NotGuarded DEF Middle
<1>6. MacroType'
  <2>1. value' \in [Managed -> Values]
    BY <1>1, <1>2, <1>4 DEF MacroType, Values
  <2>2. stands' \in [Managed -> Standings]
    BY <1>1, <1>2 DEF MacroType, Unknown, Standings
  <2> QED
    BY <1>1, <1>2, <1>3, <2>1, <2>2 DEF MacroType
<1>7. CallStep(t)'
  BY <1>5 DEF CallStep
<1>8. CallStep(Other(t))'
  <2>1. ASSUME NEW p \in Managed \ touched', p \notin touched => doing[t] \in Sparing(t, p)
        PROVE  Undisturbed(Other(t), p)
    <3>1. p \notin touched /\ p # q
      BY <1>1, <1>4, <2>1
    <3>2. doing'[t] \in Sparing(t, p)
      BY <1>4, <3>1, SparingIs
    <3>3. value'[p] = value[p]
      BY <1>1, <1>2, <1>q, <1>4, <3>1 DEF MacroType
    <3> QED
      BY <1>1, <3>1, <3>2, <3>3, ThreadsAre DEF Undisturbed
  <2> QED
    BY <1>2, <1>3, <2>1, OtherStays, ThreadsAre
<1>9. GuardInv'
  <2>1. (doing'[t] \in Guarded(t)) = (doing[t] \in Guarded(t))
    BY <1>5
  <2> QED
    BY <1>1, <1>2, <1>3, <2>1, GuardsStay
<1>10. OwedInv'
  <2>1. ~Makes(t, Bulk) /\ ~Makes(t, {"ask", "arm", "move"}) /\ ~Makes(t, Late) /\ ~Makes(t, Late)'
    BY <1>1, <1>5 DEF Makes, Bulk, Late
  <2>2. CASE Changing
    BY <1>3, <2>1, <2>2, ChangingStays DEF OwedInv
  <2>3. CASE ~Changing
    <3>1. Coming => Coming'
      BY <1>1, <1>3, <2>1, ComingStays
    <3>2. doing'["message"] = doing["message"] \/ ~(Makes("message", Late) \/ Makes("message", Late)')
      BY <1>3, <2>1, ThreadsAre
    <3>3. ASSUME NEW p \in Managed, p # q  PROVE Owed(p)'
      <4>1. Owed(p)
        BY <1>2, <2>3 DEF OwedInv
      <4>2. value'[p] = value[p] /\ stands'[p] = stands[p]
        BY <1>1, <1>2, <1>4, <3>3 DEF MacroType, Unknown
      <4> QED
        BY <1>1, <3>1, <3>2, <4>1, <4>2, OwedStays
    <3>4. Owed(q)'
      <4>1. CASE reengage /\ armed /\ Resting(Other(t))
        <5>1. Owed(q) /\ stands' = stands
          BY <1>1, <1>2, <2>3, <4>1 DEF OwedInv
        <5>2. stands[q].by \notin {"hand", "carried"}
          BY <4>1, <5>1 DEF Owed, HandOwed, CarriedOwed
        <5>3. MacroOwed(q) => MacroOwed(q)'
          <6>1. ~Makes("message", {"take", "land", "landed"})' /\ ~Makes("message", {"clear"})'
            <7>1. CASE t = "message"
              BY <2>1, <7>1 DEF Makes, Late
            <7>2. CASE t = "other"
              BY <1>3, <4>1, <7>2, ThreadsAre DEF Makes, Resting
            <7> QED
              BY <7>1, <7>2 DEF DrainThreads
          <6>2. reengage' /\ Coming'
            BY <1>1, <4>1 DEF Coming
          <6> QED
            BY <6>1, <6>2 DEF MacroOwed
        <5> QED
          BY <5>1, <5>2, <5>3 DEF Owed
      <4>2. CASE ~(reengage /\ armed /\ Resting(Other(t)))
        <5>1. stands'[q].by = "unknown"
          BY <1>1, <1>4, <4>2 DEF Unknown
        <5> QED
          BY <5>1, StandingBy
      <4> QED
        BY <4>1, <4>2
    <3> QED
      BY <3>3, <3>4 DEF OwedInv
  <2> QED
    BY <2>2, <2>3
<1> QED
  BY <1>6, <1>7, <1>8, <1>9, <1>10, CallsOfBoth DEF MacroInv

LEMMA ListenKeeps ==
    ASSUME MacroInv, NEW t \in DrainThreads, Listen(t)
    PROVE  MacroInv'
<1> DEFINE h == Head(doing[t])
           stages == h.p \in gestures /\ ~applying /\ restoring = 0
<1>1. /\ doing[t] # <<>> /\ h.do = "listen"
      /\ Continue(t, IF stages THEN <<DoTo("stage", h.p), Do("soon")>> ELSE <<>>)
      /\ UNCHANGED <<macro, value, mask, bits, reengage, armed, restoring, stands, touched>>
  BY DEF Listen, MakesStep, pending, latches, surface
<1>2. MacroType /\ CallStep(t) /\ CallStep(Other(t)) /\ GuardInv /\ OwedInv
  BY ThreadsAre DEF MacroInv, CallInv
<1>q. PICK q \in Managed : doing[t] \in Listening(q)
  <2>1. Where(t, h.do)
    BY <1>1, <1>2, Located
  <2> QED
    BY <1>1, <2>1 DEF Where
<1>3. Tail(doing[t]) \in Over \union Ending(q) /\ h.p = q
  BY <1>q, HostHeads
<1>4. Tail(doing[t]) \in Closing
  <2>1. Tail(doing[t]) \in Calls
    BY <1>q, HostHeads
  <2> QED
    BY <1>3, <2>1 DEF Closing, Over
<1>5. /\ doing'[Other(t)] = doing[Other(t)] /\ doing' \in [DrainThreads -> Calls]
      /\ IF stages THEN doing'[t] \in Staging(q) ELSE doing'[t] \in Closing
  <2>1. CASE stages
    <3>1. <<DoTo("stage", q), Do("soon")>> \in Calls
      BY StepsAre, PlainSteps, PairOf
    <3>2. Continue(t, <<DoTo("stage", q), Do("soon")>>)
      BY <1>1, <1>3, <2>1
    <3>3. /\ doing'[t] = <<DoTo("stage", q), Do("soon")>> \o Tail(doing[t])
          /\ doing'[Other(t)] = doing[Other(t)] /\ doing' \in [DrainThreads -> Calls]
      BY <1>1, <1>2, <3>1, <3>2, Continued
    <3>4. \A r \in Closing : <<DoTo("stage", q), Do("soon")>> \o r \in Staging(q)
      BY HostCalls
    <3> QED
      BY <1>4, <2>1, <3>3, <3>4
  <2>2. CASE ~stages
    <3>1. doing'[t] = Tail(doing[t]) /\ doing'[Other(t)] = doing[Other(t)] /\ doing' \in [DrainThreads -> Calls]
      BY <1>1, <1>2, <2>2, Passed
    <3> QED
      BY <1>4, <2>2, <3>1
  <2> QED
    BY <2>1, <2>2
<1>6. /\ doing'[t] \in Hosting /\ (doing'[t] = <<>> \/ Head(doing'[t]).do \in {"stage", "end"})
      /\ doing[t] \notin Guarded(t) /\ doing'[t] \notin Guarded(t)
  <2>1. doing'[t] = <<>> \/ Head(doing'[t]).do \in {"stage", "end"}
    <3>1. CASE doing'[t] \in Staging(q)
      BY <3>1, HostHeads
    <3>2. CASE doing'[t] \in Closing
      BY <3>2, HostHeads DEF Closing
    <3> QED
      BY <1>5, <3>1, <3>2
  <2>2. doing'[t] \in Hosting
    BY <1>5, HostingIs
  <2> QED
    BY <1>1, <2>1, <2>2, NotGuarded DEF Middle
<1>7. MacroType'
  BY <1>1, <1>2, <1>5 DEF MacroType
<1>8. CallStep(t)'
  BY <1>6 DEF CallStep
<1>9. CallStep(Other(t))'
  <2>1. ASSUME NEW p \in Managed \ touched', Makes(Other(t), Middle), p \notin touched => doing[t] \in Sparing(t, p)
        PROVE  Undisturbed(Other(t), p)
    <3>1. p \notin touched /\ doing[t] \in Sparing(t, p)
      BY <1>1, <2>1
    <3>2. p # q
      BY <1>1, <1>3, <3>1, SparingNames
    <3>3. doing'[t] \in Sparing(t, p)
      <4>1. CASE doing'[t] \in Closing
        BY <4>1, SparingIs
      <4>2. CASE stages /\ doing'[t] \in Staging(q)
        <5>1. t # "message"
          BY <1>2, <2>1, <4>2, OtherGuarded, ThreadsAre
        <5> QED
          BY <3>2, <4>2, <5>1, SparingIs DEF DrainThreads
      <4> QED
        BY <1>5, <4>1, <4>2
    <3> QED
      BY <1>1, <3>1, <3>3, ThreadsAre DEF Undisturbed
  <2> QED
    BY <1>2, <1>5, <2>1, OtherStays, ThreadsAre
<1>10. GuardInv'
  <2>1. (doing'[t] \in Guarded(t)) = (doing[t] \in Guarded(t))
    BY <1>6
  <2> QED
    BY <1>1, <1>2, <1>5, <2>1, GuardsStay
<1>11. OwedInv'
  <2>1. ~Makes(t, Bulk) /\ ~Makes(t, {"ask", "arm", "move"}) /\ ~Makes(t, Late) /\ ~Makes(t, Late)'
    BY <1>1, <1>6 DEF Makes, Bulk, Late
  <2> QED
    BY <1>1, <1>2, <1>5, <2>1, OwedInvStays
<1> QED
  BY <1>7, <1>8, <1>9, <1>10, <1>11, CallsOfBoth DEF MacroInv


LEMMA StageKeeps ==
    ASSUME MacroInv, NEW t \in DrainThreads, Stage(t)
    PROVE  MacroInv'
<1> DEFINE h == Head(doing[t])
           raced == ~Resting(Other(t)) \/ reengage # armed \/ (~reengage /\ value[h.p] # Hand)
<1>1. /\ doing[t] # <<>> /\ h.do = "stage" /\ Continue(t, <<>>) /\ bits' = bits \union {h.p}
      /\ UNCHANGED <<macro, value, mask, reengage, armed, restoring, touched>>
      /\ stands' = IF raced THEN Unknown({h.p})
                   ELSE IF reengage THEN stands ELSE [stands EXCEPT ![h.p] = [by |-> "hand"]]
  BY DEF Stage, MakesStep, surface, latches
<1>2. MacroType /\ CallStep(t) /\ CallStep(Other(t)) /\ GuardInv /\ OwedInv /\ Where(t, h.do)
  BY <1>1, Begun
<1>3. doing'[t] = Tail(doing[t]) /\ doing'[Other(t)] = doing[Other(t)] /\ doing' \in [DrainThreads -> Calls]
  BY <1>1, <1>2, Passed
<1>q. PICK q \in Managed : doing[t] \in Staging(q)
  BY <1>1, <1>2 DEF Where
<1>4. h.p = q /\ doing'[t] \in Hurrying
  <2>1. h.p = q
    BY <1>q, HostHeads
  <2>2. Tail(doing[t]) \in Hurrying
    BY <1>q, HostHeads
  <2> QED
    BY <1>3, <2>1, <2>2
<1>5. /\ doing'[t] \in Hosting /\ doing'[t] # <<>> /\ Head(doing'[t]).do = "soon"
      /\ doing[t] \notin Guarded(t) /\ doing'[t] \notin Guarded(t)
  <2>1. doing'[t] # <<>> /\ Head(doing'[t]).do = "soon"
    BY <1>4, MacroHeads
  <2> QED
    BY <1>1, <1>4, <2>1, HostingIs, NotGuarded DEF Middle
<1>6. MacroType'
  <2>1. stands' \in [Managed -> Standings]
    BY <1>1, <1>2, <1>4 DEF MacroType, Unknown, Standings
  <2> QED
    BY <1>1, <1>2, <1>3, <1>4, <2>1 DEF MacroType
<1>7. CallStep(t)'
  BY <1>5 DEF CallStep
<1>8. CallStep(Other(t))'
  <2>1. CASE t = "message"
    BY <1>1, <1>2, <1>3, <2>1, OtherAlone
  <2>2. CASE t = "other"
    <3>1. ASSUME NEW p \in Managed \ touched', p \notin touched => doing[t] \in Sparing(t, p)
          PROVE  Undisturbed(Other(t), p)
      <4>1. p \notin touched /\ p # q
        BY <1>1, <1>4, <3>1, SparingNames
      <4>2. doing'[t] \in Sparing(t, p)
        BY <1>4, <2>2, SparingIs
      <4>3. p \in bits' => p \in bits
        BY <1>1, <1>4, <4>1
      <4> QED
        BY <1>1, <4>1, <4>2, <4>3, ThreadsAre DEF Undisturbed
    <3> QED
      BY <1>2, <1>3, <3>1, OtherStays, ThreadsAre
  <2> QED
    BY <2>1, <2>2 DEF DrainThreads
<1>9. GuardInv'
  BY <1>1, <1>2, <1>3, <1>5, NoGuard
<1>10. OwedInv'
  <2>1. ~Makes(t, Bulk) /\ ~Makes(t, {"ask", "arm", "move"}) /\ ~Makes(t, Late) /\ ~Makes(t, Late)'
    BY <1>1, <1>5 DEF Makes, Bulk, Late
  <2>2. CASE Changing
    BY <1>3, <2>1, <2>2, ChangingStays DEF OwedInv
  <2>3. CASE ~Changing
    <3>1. Coming => Coming'
      BY <1>1, <1>3, <2>1, ComingStays
    <3>2. doing'["message"] = doing["message"] \/ ~(Makes("message", Late) \/ Makes("message", Late)')
      BY <1>3, <2>1, ThreadsAre
    <3>3. ASSUME NEW p \in Managed, p # q  PROVE Owed(p)'
      <4>1. Owed(p)
        BY <1>2, <2>3 DEF OwedInv
      <4>2. (p \in bits') = (p \in bits) /\ stands'[p] = stands[p]
        BY <1>1, <1>2, <1>4, <3>3 DEF MacroType, Unknown
      <4> QED
        BY <1>1, <3>1, <3>2, <4>1, <4>2, OwedStays
    <3>4. Owed(q)'
      <4>1. CASE raced
        <5>1. stands'[q].by = "unknown"
          BY <1>1, <1>4, <4>1 DEF Unknown
        <5> QED
          BY <5>1, StandingBy
      <4>2. CASE ~raced
        <5>1. ~Makes("message", {"take", "land", "landed"})' /\ ~Makes("message", {"clear"})'
              /\ ~Makes("message", {"clear", "take", "land", "landed"})'
          <6>1. CASE t = "message"
            BY <2>1, <6>1 DEF Makes, Late
          <6>2. CASE t = "other"
            BY <1>3, <4>2, <6>2, ThreadsAre DEF Makes, Resting
          <6> QED
            BY <6>1, <6>2 DEF DrainThreads
        <5>2. CASE reengage
          <6>1. Owed(q) /\ stands' = stands
            BY <1>1, <1>2, <2>3, <4>2, <5>2 DEF OwedInv
          <6>2. stands[q].by \notin {"hand", "carried"}
            BY <5>2, <6>1 DEF Owed, HandOwed, CarriedOwed
          <6>3. reengage' /\ Coming'
            BY <1>1, <4>2, <5>2 DEF Coming
          <6>4. MacroOwed(q)'
            BY <5>1, <6>3 DEF MacroOwed
          <6> QED
            BY <6>1, <6>2, <6>4 DEF Owed
        <5>3. CASE ~reengage
          <6>1. stands'[q].by = "hand"
            BY <1>1, <1>2, <1>4, <4>2, <5>3 DEF MacroType
          <6>2. value'[q] = Hand /\ q \in bits' /\ ~reengage'
            BY <1>1, <1>4, <4>2, <5>3
          <6>3. HandOwed(q)'
            BY <5>1, <6>2 DEF HandOwed
          <6> QED
            BY <6>1, <6>3 DEF Owed
        <5> QED
          BY <5>2, <5>3
      <4> QED
        BY <4>1, <4>2
    <3> QED
      BY <3>3, <3>4 DEF OwedInv
  <2> QED
    BY <2>2, <2>3
<1> QED
  BY <1>6, <1>7, <1>8, <1>9, <1>10, Ended

LEMMA SoonKeeps ==
    ASSUME MacroInv, NEW t \in DrainThreads, Soon(t)
    PROVE  MacroInv'
<1> DEFINE h == Head(doing[t])
           now == t = "message" /\ restoring = 0
<1>1. /\ doing[t] # <<>> /\ h.do = "soon"
      /\ Continue(t, IF now THEN <<Do("bits"), Do("clear")>> ELSE <<>>)
      /\ UNCHANGED <<macro, value, mask, bits, reengage, armed, restoring, stands, touched>>
  BY DEF Soon, MakesStep, surface, latches, pending
<1>2. MacroType /\ CallStep(t) /\ CallStep(Other(t)) /\ GuardInv /\ OwedInv /\ Where(t, h.do)
  BY <1>1, Begun
<1>3. doing[t] \in Hurrying /\ Tail(doing[t]) \in Closing
  <2>1. doing[t] \in Hurrying
    BY <1>1, <1>2 DEF Where
  <2> QED
    BY <2>1, MacroHeads
<1>4. /\ doing'[Other(t)] = doing[Other(t)] /\ doing' \in [DrainThreads -> Calls]
      /\ IF now THEN doing'[t] \in Bringing ELSE doing'[t] \in Closing
  <2>1. CASE now
    <3>1. <<Do("bits"), Do("clear")>> \in Calls
      BY PlainSteps, PairOf
    <3>2. Continue(t, <<Do("bits"), Do("clear")>>)
      BY <1>1, <2>1
    <3>3. /\ doing'[t] = <<Do("bits"), Do("clear")>> \o Tail(doing[t])
          /\ doing'[Other(t)] = doing[Other(t)] /\ doing' \in [DrainThreads -> Calls]
      BY <1>1, <1>2, <3>1, <3>2, Continued
    <3>4. \A r \in Closing : <<Do("bits"), Do("clear")>> \o r \in Bringing
      BY MacroCalls
    <3> QED
      BY <1>3, <2>1, <3>3, <3>4
  <2>2. CASE ~now
    <3>1. doing'[t] = Tail(doing[t]) /\ doing'[Other(t)] = doing[Other(t)] /\ doing' \in [DrainThreads -> Calls]
      BY <1>1, <1>2, <2>2, Passed
    <3> QED
      BY <1>3, <2>2, <3>1
  <2> QED
    BY <2>1, <2>2
<1>5. doing'[t] = <<>> \/ Head(doing'[t]).do \in {"bits", "end"}
  <2>1. CASE doing'[t] \in Bringing
    BY <2>1, DrainHeads
  <2>2. CASE doing'[t] \in Closing
    BY <2>2, HostHeads DEF Closing
  <2> QED
    BY <1>4, <2>1, <2>2
<1>6. MacroType'
  BY <1>1, <1>2, <1>4 DEF MacroType
<1>7. CallStep(t)'
  <2>1. CASE now
    BY <1>4, <2>1, DrainingIs DEF CallStep
  <2>2. CASE ~now
    BY <1>4, <2>2, HostingIs DEF CallStep
  <2> QED
    BY <2>1, <2>2
<1>8. CallStep(Other(t))'
  <2>1. CASE t = "message"
    BY <1>1, <1>2, <1>4, <2>1, OtherAlone
  <2>2. CASE t = "other"
    <3>1. ASSUME NEW p \in Managed \ touched'  PROVE Undisturbed(Other(t), p)
      <4>1. doing'[t] \in Sparing(t, p)
        BY <1>4, <2>2, SparingIs
      <4> QED
        BY <1>1, <3>1, <4>1, ThreadsAre DEF Undisturbed
    <3> QED
      BY <1>2, <1>4, <3>1, OtherStays, ThreadsAre
  <2> QED
    BY <2>1, <2>2 DEF DrainThreads
<1>9. GuardInv'
  <2>1. doing[t] \notin Guarded(t) /\ doing'[t] \notin Guarded(t)
    BY <1>1, <1>5, NotGuarded DEF Middle
  <2> QED
    BY <1>1, <1>2, <1>4, <2>1, NoGuard
<1>10. OwedInv'
  <2>1. ~Makes(t, Bulk) /\ ~Makes(t, {"ask", "arm", "move"}) /\ ~Makes(t, Late) /\ ~Makes(t, Late)'
    BY <1>1, <1>5 DEF Makes, Bulk, Late
  <2> QED
    BY <1>1, <1>2, <1>4, <2>1, OwedInvStays
<1> QED
  BY <1>6, <1>7, <1>8, <1>9, <1>10, Ended

-----------------------------------------------------------------------------
(* The steps of a macro's calls.                                            *)

LEMMA AskAllKeeps ==
    ASSUME MacroInv, NEW t \in DrainThreads, AskAll(t)
    PROVE  MacroInv'
<1> DEFINE h == Head(doing[t])
<1>1. /\ doing[t] # <<>> /\ h.do = "ask" /\ Continue(t, <<>>) /\ reengage' = TRUE /\ touched' = Managed
      /\ UNCHANGED <<macro, value, mask, bits, armed, restoring>>
      /\ stands' = IF restoring > 0 THEN Unknown(Managed)
                   ELSE [p \in Managed |-> [by |-> IF Resting(Other(t)) THEN "macro" ELSE "raced"]]
  BY DEF AskAll, MakesStep, surface, latches
<1>2. MacroType /\ CallStep(t) /\ CallStep(Other(t)) /\ GuardInv /\ OwedInv /\ Where(t, h.do)
  BY <1>1, Begun
<1>3. doing'[t] = Tail(doing[t]) /\ doing'[Other(t)] = doing[Other(t)] /\ doing' \in [DrainThreads -> Calls]
  BY <1>1, <1>2, Passed
<1>4. doing'[t] \in Arming
  <2>1. doing[t] \in Asking
    BY <1>1, <1>2 DEF Where
  <2> QED
    BY <1>3, <2>1, MacroHeads
<1>5. doing'[t] # <<>> /\ Head(doing'[t]).do = "arm"
  BY <1>4, MacroHeads
<1>6. MacroType'
  <2>1. stands' \in [Managed -> Standings]
    <3>1. \A b \in {"unknown", "macro", "raced"} : [by |-> b] \in Standings
      BY DEF Standings
    <3>2. CASE restoring > 0
      BY <1>1, <3>1, <3>2 DEF Unknown
    <3>3. CASE ~(restoring > 0)
      <4>1. [by |-> IF Resting(Other(t)) THEN "macro" ELSE "raced"] \in Standings
        BY <3>1
      <4> QED
        BY <1>1, <3>3, <4>1
    <3> QED
      BY <3>2, <3>3
  <2> QED
    BY <1>1, <1>2, <1>3, <2>1 DEF MacroType
<1>7. CallStep(t)'
  BY <1>4, HostingIs DEF CallStep
<1>8. CallStep(Other(t))'
  BY <1>1, <1>2, <1>3, OtherUntouched
<1>9. GuardInv'
  <2>1. doing[t] \notin Guarded(t) /\ doing'[t] \notin Guarded(t)
    BY <1>1, <1>5, NotGuarded DEF Middle
  <2> QED
    BY <1>1, <1>2, <1>3, <2>1, NoGuard
<1>10. OwedInv'
  <2>1. ASSUME NEW p \in Managed  PROVE Owed(p)'
    <3>1. CASE restoring > 0
      <4>1. stands'[p].by = "unknown"
        BY <1>1, <3>1 DEF Unknown
      <4> QED
        BY <4>1, StandingBy
    <3>2. CASE ~(restoring > 0) /\ ~Resting(Other(t))
      <4>1. stands'[p].by = "raced"
        BY <1>1, <3>2
      <4> QED
        BY <4>1, StandingBy
    <3>3. CASE ~(restoring > 0) /\ Resting(Other(t))
      <4>1. stands'[p].by = "macro"
        BY <1>1, <3>3
      <4>2. ~Makes("message", {"take", "land", "landed"})' /\ ~Makes("message", {"clear"})'
        <5>1. CASE t = "message"
          BY <1>5, <5>1 DEF Makes
        <5>2. CASE t = "other"
          BY <1>3, <3>3, <5>2, ThreadsAre DEF Makes, Resting
        <5> QED
          BY <5>1, <5>2 DEF DrainThreads
      <4>3. Coming'
        BY <1>5 DEF Coming, Makes
      <4>4. MacroOwed(p)'
        BY <1>1, <4>2, <4>3 DEF MacroOwed
      <4> QED
        BY <4>1, <4>4 DEF Owed
    <3> QED
      BY <3>1, <3>2, <3>3
  <2> QED
    BY <2>1 DEF OwedInv
<1> QED
  BY <1>6, <1>7, <1>8, <1>9, <1>10, Ended

LEMMA ArmKeeps ==
    ASSUME MacroInv, NEW t \in DrainThreads, Arm(t)
    PROVE  MacroInv'
<1> DEFINE h == Head(doing[t])
<1>1. /\ doing[t] # <<>> /\ h.do = "arm" /\ Continue(t, <<>>) /\ armed' = TRUE /\ touched' = Managed
      /\ UNCHANGED <<macro, value, mask, bits, reengage, restoring>>
      /\ stands' = Unknown({p \in Managed : stands[p].by = "carried"})
  BY DEF Arm, MakesStep, surface, latches
<1>2. MacroType /\ CallStep(t) /\ CallStep(Other(t)) /\ GuardInv /\ OwedInv /\ Where(t, h.do)
  BY <1>1, Begun
<1>3. doing'[t] = Tail(doing[t]) /\ doing'[Other(t)] = doing[Other(t)] /\ doing' \in [DrainThreads -> Calls]
  BY <1>1, <1>2, Passed
<1>4. doing'[t] \in Closing \union Hurrying
  <2>1. doing[t] \in Arming
    BY <1>1, <1>2 DEF Where
  <2>2. Tail(doing[t]) \in Over \union Hurrying
    BY <2>1, MacroHeads
  <2> QED
    BY <1>3, <2>2, OverIs DEF Over
<1>5. doing'[t] = <<>> \/ Head(doing'[t]).do \in {"soon", "end"}
  <2>1. CASE doing'[t] \in Hurrying
    BY <2>1, MacroHeads
  <2>2. CASE doing'[t] \in Closing
    BY <2>2, HostHeads DEF Closing
  <2> QED
    BY <1>4, <2>1, <2>2
<1>6. MacroType'
  <2>1. stands' \in [Managed -> Standings]
    BY <1>1, <1>2 DEF MacroType, Unknown, Standings
  <2> QED
    BY <1>1, <1>2, <1>3, <2>1 DEF MacroType
<1>7. CallStep(t)'
  BY <1>4, HostingIs DEF CallStep
<1>8. CallStep(Other(t))'
  BY <1>1, <1>2, <1>3, OtherUntouched
<1>9. GuardInv'
  <2>1. doing[t] \notin Guarded(t) /\ doing'[t] \notin Guarded(t)
    BY <1>1, <1>5, NotGuarded DEF Middle
  <2> QED
    BY <1>1, <1>2, <1>3, <2>1, NoGuard
<1>10. OwedInv'
  <2>1. ~Makes(t, Bulk) /\ ~Makes(t, Late) /\ ~Makes(t, Late)'
    BY <1>1, <1>5 DEF Makes, Bulk, Late
  <2>2. CASE Changing
    BY <1>3, <2>1, <2>2, ChangingStays DEF OwedInv
  <2>3. CASE ~Changing
    <3>1. Coming'
      BY <1>1 DEF Coming
    <3>2. doing'["message"] = doing["message"] \/ ~(Makes("message", Late) \/ Makes("message", Late)')
      BY <1>3, <2>1, ThreadsAre
    <3>3. ASSUME NEW p \in Managed  PROVE Owed(p)'
      <4>1. CASE stands[p].by = "carried"
        <5>1. stands'[p].by = "unknown"
          BY <1>1, <4>1 DEF Unknown
        <5> QED
          BY <5>1, StandingBy
      <4>2. CASE stands[p].by # "carried"
        <5>1. Owed(p)
          BY <1>2, <2>3 DEF OwedInv
        <5>2. stands'[p] = stands[p]
          BY <1>1, <4>2 DEF Unknown
        <5> QED
          BY <1>1, <3>1, <3>2, <4>2, <5>1, <5>2, OwedStays
      <4> QED
        BY <4>1, <4>2
    <3> QED
      BY <3>3 DEF OwedInv
  <2> QED
    BY <2>2, <2>3
<1> QED
  BY <1>6, <1>7, <1>8, <1>9, <1>10, Ended

LEMMA MoveKeeps ==
    ASSUME MacroInv, NEW t \in DrainThreads, Move(t)
    PROVE  MacroInv'
<1> DEFINE h == Head(doing[t])
<1>1. /\ doing[t] # <<>> /\ h.do = "move" /\ Continue(t, <<>>) /\ macro' = h.m
      /\ UNCHANGED <<value, mask, bits, reengage, armed, restoring, stands, touched>>
  BY DEF Move, MakesStep, pending, latches
<1>2. MacroType /\ CallStep(t) /\ CallStep(Other(t)) /\ GuardInv /\ OwedInv /\ Where(t, h.do)
  BY <1>1, Begun
<1>3. doing'[t] = Tail(doing[t]) /\ doing'[Other(t)] = doing[Other(t)] /\ doing' \in [DrainThreads -> Calls]
  BY <1>1, <1>2, Passed
<1>4. doing'[t] \in Arming /\ macro' \in Positions
  <2>1. PICK m \in Positions : doing[t] \in Moving(m)
    BY <1>1, <1>2 DEF Where
  <2>2. Tail(doing[t]) \in Arming
    BY <2>1, MoveHeads
  <2>3. h.m = m
    BY <2>1, MoveHeads
  <2> QED
    BY <1>1, <1>3, <2>2, <2>3
<1>5. doing'[t] # <<>> /\ Head(doing'[t]).do = "arm"
  BY <1>4, MacroHeads
<1>6. MacroType'
  BY <1>1, <1>2, <1>3, <1>4 DEF MacroType
<1>7. CallStep(t)'
  BY <1>4, HostingIs DEF CallStep
<1>8. CallStep(Other(t))'
  BY <1>1, <1>2, <1>3, OtherAlone DEF Small
<1>9. GuardInv'
  <2>1. doing[t] \notin Guarded(t) /\ doing'[t] \notin Guarded(t)
    BY <1>1, <1>5, NotGuarded DEF Middle
  <2> QED
    BY <1>1, <1>2, <1>3, <2>1, NoGuard
<1>10. OwedInv'
  <2>1. ~Makes(t, Bulk) /\ ~Makes(t, Late) /\ ~Makes(t, Late)'
    BY <1>1, <1>5 DEF Makes, Bulk, Late
  <2>2. CASE Changing
    BY <1>3, <2>1, <2>2, ChangingStays DEF OwedInv
  <2>3. CASE ~Changing
    <3>1. Coming'
      BY <1>5 DEF Coming, Makes
    <3>2. doing'["message"] = doing["message"] \/ ~(Makes("message", Late) \/ Makes("message", Late)')
      BY <1>3, <2>1, ThreadsAre
    <3>3. ASSUME NEW p \in Managed  PROVE Owed(p)'
      <4>1. Owed(p)
        BY <1>2, <2>3 DEF OwedInv
      <4> QED
        BY <1>1, <3>1, <3>2, <4>1, OwedStays
    <3> QED
      BY <3>3 DEF OwedInv
  <2> QED
    BY <2>2, <2>3
<1> QED
  BY <1>6, <1>7, <1>8, <1>9, <1>10, Ended

-----------------------------------------------------------------------------
(* The steps of the drain, which is the message thread's.                   *)

\* A parameter that is owed something, across a step of the drain.
LEMMA OwedAfterDrain ==
    ASSUME OwedInv, doing["message"] # <<>>, Head(doing["message"]).do \notin Bulk,
           doing'["other"] = doing["other"],
           ~Changing => \A p \in Managed : Owed(p) => Owed(p)'
    PROVE  OwedInv'
<1>1. CASE Changing
  <2>1. ~Makes("message", Bulk)
    BY DEF Makes
  <2>2. "message" \in DrainThreads /\ Other("message") = "other"
    BY DEF DrainThreads, Other
  <2>3. Changing'
    BY <1>1, <2>1, <2>2, ChangingStays
  <2> QED
    BY <2>3 DEF OwedInv
<1>2. CASE ~Changing
  BY <1>2 DEF OwedInv
<1> QED
  BY <1>1, <1>2

\* What the other thread is about to bring is still coming.
LEMMA ComingFromOther ==
    ASSUME Coming, armed' = armed, doing["message"] # <<>>,
           Head(doing["message"]).do \notin {"ask", "arm", "move"}, doing'["other"] = doing["other"]
    PROVE  Coming'
<1>1. ~Makes("message", {"ask", "arm", "move"})
  BY DEF Makes
<1>2. "message" \in DrainThreads /\ Other("message") = "other"
  BY DEF DrainThreads, Other
<1> QED
  BY <1>1, <1>2, ComingStays

LEMMA TakeBitsKeeps ==
    ASSUME MacroInv, NEW t \in DrainThreads, TakeBits(t)
    PROVE  MacroInv'
<1> DEFINE h == Head(doing[t])
<1>1. /\ doing[t] # <<>> /\ h.do = "bits" /\ Continue(t, <<>>) /\ bits' = {} /\ mask' = mask \union bits
      /\ UNCHANGED <<macro, value, reengage, armed, restoring, stands, touched>>
  BY DEF TakeBits, MakesStep, latches
<1>2. MacroType /\ CallStep(t) /\ CallStep(Other(t)) /\ GuardInv /\ OwedInv /\ DrainWhere(t, h.do)
  BY <1>1, Begun
<1>3. doing'[t] = Tail(doing[t]) /\ doing'[Other(t)] = doing[Other(t)] /\ doing' \in [DrainThreads -> Calls]
  BY <1>1, <1>2, Passed
<1>4. t = "message" /\ doing'[t] \in Clearing
  <2>1. t = "message" /\ doing[t] \in Bringing
    BY <1>1, <1>2 DEF DrainWhere
  <2> QED
    BY <1>3, <2>1, DrainHeads
<1>5. doing'[t] # <<>> /\ Head(doing'[t]).do = "clear"
  BY <1>4, DrainHeads
<1>6. MacroType'
  BY <1>1, <1>2, <1>3 DEF MacroType
<1>7. CallStep(t)'
  BY <1>4, DrainingIs DEF CallStep
<1>8. CallStep(Other(t))'
  BY <1>1, <1>2, <1>3, OtherAlone DEF Small
<1>9. GuardInv'
  <2>1. doing[t] \notin Guarded(t) /\ doing'[t] \notin Guarded(t)
    BY <1>1, <1>5, NotGuarded DEF Middle
  <2> QED
    BY <1>1, <1>2, <1>3, <2>1, NoGuard
<1>10. OwedInv'
  <2>1. ASSUME NEW p \in Managed, Owed(p)  PROVE Owed(p)'
    <3>1. Coming => Coming'
      BY <1>1, <1>3, <1>4, ComingFromOther, ThreadsAre
    <3>2. ~Lands(p) /\ ~Lands(p)' /\ ~Makes("message", {"take", "land", "landed"})'
      BY <1>1, <1>4, <1>5 DEF Lands, Makes
    <3>3. HandOwed(p) => HandOwed(p)'
      BY <1>1 DEF HandOwed
    <3>4. MacroOwed(p) => MacroOwed(p)'
      BY <1>1, <3>1, <3>2 DEF MacroOwed, Follows
    <3>5. CarriedOwed(p) => CarriedOwed(p)'
      BY <1>1, <3>2 DEF CarriedOwed
    <3> QED
      BY <1>1, <2>1, <3>3, <3>4, <3>5 DEF Owed
  <2> QED
    BY <1>1, <1>2, <1>3, <1>4, <2>1, OwedAfterDrain, ThreadsAre DEF Bulk
<1> QED
  BY <1>6, <1>7, <1>8, <1>9, <1>10, Ended

LEMMA ClearKeeps ==
    ASSUME MacroInv, NEW t \in DrainThreads, Clear(t)
    PROVE  MacroInv'
<1> DEFINE h == Head(doing[t])
<1>1. /\ doing[t] # <<>> /\ h.do = "clear" /\ Continue(t, <<>>)
      /\ reengage' = FALSE /\ mask' = IF reengage THEN {} ELSE mask
      /\ UNCHANGED <<macro, value, bits, armed, restoring, stands, touched>>
  BY DEF Clear, MakesStep, latches
<1>2. MacroType /\ CallStep(t) /\ CallStep(Other(t)) /\ GuardInv /\ OwedInv /\ DrainWhere(t, h.do)
  BY <1>1, Begun
<1>3. doing'[t] = Tail(doing[t]) /\ doing'[Other(t)] = doing[Other(t)] /\ doing' \in [DrainThreads -> Calls]
  BY <1>1, <1>2, Passed
<1>4. t = "message" /\ doing'[t] \in Closing \union Taking
  <2>1. t = "message" /\ doing[t] \in Clearing
    BY <1>1, <1>2 DEF DrainWhere
  <2> QED
    BY <1>3, <2>1, DrainHeads
<1>5. doing'[t] = <<>> \/ Head(doing'[t]).do = "end" \/ Head(doing'[t]).do = "take"
  <2>1. CASE doing'[t] \in Taking
    BY <2>1, DrainHeads
  <2>2. CASE doing'[t] \in Closing
    BY <2>2, HostHeads DEF Closing
  <2> QED
    BY <1>4, <2>1, <2>2
<1>6. MacroType'
  BY <1>1, <1>2, <1>3 DEF MacroType
<1>7. CallStep(t)'
  BY <1>4, HostingIs, DrainingIs DEF CallStep
<1>8. CallStep(Other(t))'
  BY <1>1, <1>2, <1>3, OtherAlone DEF Small
<1>9. GuardInv'
  <2>1. doing[t] \notin Guarded(t) /\ doing'[t] \notin Guarded(t)
    BY <1>1, <1>5, NotGuarded DEF Middle
  <2> QED
    BY <1>1, <1>2, <1>3, <2>1, NoGuard
<1>10. OwedInv'
  <2>1. ASSUME NEW p \in Managed, Owed(p)  PROVE Owed(p)'
    <3>1. Coming => Coming'
      BY <1>1, <1>3, <1>4, ComingFromOther, ThreadsAre
    <3>2. /\ ~Lands(p) /\ ~Lands(p)' /\ Makes("message", {"clear"})
          /\ Makes("message", {"clear", "take", "land", "landed"})
      BY <1>1, <1>4, <1>5 DEF Lands, Makes
    <3>3. HandOwed(p) => HandOwed(p)'
      BY <1>1, <3>2 DEF HandOwed
    <3>4. MacroOwed(p) => MacroOwed(p)'
      BY <1>1, <3>1, <3>2 DEF MacroOwed, Follows
    <3>5. CarriedOwed(p) => CarriedOwed(p)'
      BY <1>1, <3>2 DEF CarriedOwed
    <3> QED
      BY <1>1, <2>1, <3>3, <3>4, <3>5 DEF Owed
  <2> QED
    BY <1>1, <1>2, <1>3, <1>4, <2>1, OwedAfterDrain, ThreadsAre DEF Bulk
<1> QED
  BY <1>6, <1>7, <1>8, <1>9, <1>10, Ended

\* Every managed parameter is landed by a mapping, from its first step on.
LEMMA OrderCovers ==
    /\ Len(Order) \in Nat /\ Len(Order) > 0
    /\ \A i \in 1..Len(Order) : Order[i] \in Managed
    /\ \A p \in Managed : \E j \in 1..Len(Order) : Order[j] = p
<1>1. Order \in Seq(Managed) /\ Order # <<>>
  BY DrainAssumption
<1>2. Len(Order) \in Nat /\ DOMAIN Order = 1..Len(Order)
  BY <1>1, LenProperties
<1>3. Len(Order) > 0
  BY <1>1, <1>2, EmptySeq
<1> QED
  BY <1>2, <1>3 DEF Managed, Range

LEMMA TakeMappingKeeps ==
    ASSUME MacroInv, NEW t \in DrainThreads, TakeMapping(t)
    PROVE  MacroInv'
<1> DEFINE h == Head(doing[t])
           first == [do |-> "land", i |-> 1, v |-> macro]
<1>1. /\ doing[t] # <<>> /\ h.do = "take" /\ armed' = FALSE
      /\ Continue(t, IF armed THEN <<first>> ELSE <<>>)
      /\ UNCHANGED <<macro, value, mask, bits, reengage, restoring, stands, touched>>
  BY DEF TakeMapping, MakesStep, surface
<1>2. MacroType /\ CallStep(t) /\ CallStep(Other(t)) /\ GuardInv /\ OwedInv /\ DrainWhere(t, h.do)
  BY <1>1, Begun
<1>3. t = "message" /\ doing[t] \in Taking /\ Tail(doing[t]) = <<>>
  <2>1. t = "message" /\ doing[t] \in Taking
    BY <1>1, <1>2 DEF DrainWhere
  <2>2. Tail(doing[t]) \in Over
    BY <2>1, DrainHeads
  <2> QED
    BY <2>1, <2>2 DEF Over
<1>4. /\ doing'[Other(t)] = doing[Other(t)] /\ doing' \in [DrainThreads -> Calls]
      /\ IF armed THEN doing'[t] \in Landing(1, macro) ELSE doing'[t] = <<>>
  <2>1. CASE armed
    <3>1. macro \in Positions /\ 1 \in 1..Len(Order)
      BY <1>2, OrderCovers DEF MacroType
    <3>2. first \in MacroSteps
      BY <3>1, StepsAre
    <3>3. <<first>> \in Calls
      BY <3>2, Single
    <3>4. Continue(t, <<first>>)
      BY <1>1, <2>1
    <3>5. /\ doing'[t] = <<first>> \o Tail(doing[t])
          /\ doing'[Other(t)] = doing[Other(t)] /\ doing' \in [DrainThreads -> Calls]
      BY <1>1, <1>2, <3>3, <3>4, Continued
    <3>6. <<first>> \o <<>> = <<first>>
      BY <3>2, Single
    <3>7. <<first>> \in Landing(1, macro)
      BY <3>1, LandCalls
    <3> QED
      BY <1>3, <2>1, <3>5, <3>6, <3>7
  <2>2. CASE ~armed
    <3>1. doing'[t] = Tail(doing[t]) /\ doing'[Other(t)] = doing[Other(t)] /\ doing' \in [DrainThreads -> Calls]
      BY <1>1, <1>2, <2>2, Passed
    <3> QED
      BY <1>3, <2>2, <3>1
  <2> QED
    BY <2>1, <2>2
<1>5. /\ armed => /\ doing'[t] # <<>> /\ Head(doing'[t]).do = "land"
                  /\ Head(doing'[t]).i = 1 /\ Head(doing'[t]).v = macro
      /\ ~armed => doing'[t] = <<>>
  BY <1>4, DrainHeads
<1>6. MacroType'
  BY <1>1, <1>2, <1>4 DEF MacroType
<1>7. CallStep(t)'
  <2>1. CASE armed
    <3>1. macro \in Positions /\ 1 \in 1..Len(Order)
      BY <1>2, OrderCovers DEF MacroType
    <3>2. doing'[t] \in Draining
      BY <1>4, <2>1, <3>1, DrainingIs
    <3> QED
      BY <1>3, <3>2 DEF CallStep
  <2>2. CASE ~armed
    BY <1>5, <2>2, OverIs DEF CallStep
  <2> QED
    BY <2>1, <2>2
<1>8. CallStep(Other(t))'
  BY <1>1, <1>2, <1>4, OtherAlone DEF Small
<1>9. GuardInv'
  <2>1. doing[t] \notin Guarded(t) /\ doing'[t] \notin Guarded(t)
    BY <1>1, <1>5, NotGuarded DEF Middle
  <2> QED
    BY <1>1, <1>2, <1>4, <2>1, NoGuard
<1>10. OwedInv'
  <2>1. ASSUME NEW p \in Managed, Owed(p)  PROVE Owed(p)'
    <3>1. /\ Makes("message", {"take", "land", "landed"}) /\ Makes("message", {"clear", "take", "land", "landed"})
          /\ ~Lands(p)
      BY <1>1, <1>3 DEF Lands, Makes
    <3>2. HandOwed(p) => HandOwed(p)'
      BY <1>1, <3>1 DEF HandOwed
    <3>3. Lands(p)' <=> armed
      <4>1. CASE armed
        BY <1>3, <1>5, <4>1, OrderCovers DEF Lands, Makes
      <4>2. CASE ~armed
        BY <1>3, <1>5, <4>2 DEF Lands, Makes
      <4> QED
        BY <4>1, <4>2
    <3>4. MacroOwed(p) => MacroOwed(p)'
      <4> SUFFICES ASSUME MacroOwed(p) PROVE MacroOwed(p)'
        OBVIOUS
      <4>1. ~reengage /\ p \notin mask \union bits /\ (Coming \/ Follows(p))
        BY <3>1 DEF MacroOwed
      <4>2. CASE armed
        <5>1. Follows(p)'
          BY <1>1, <1>3, <1>5, <3>3, <4>2 DEF Follows
        <5> QED
          BY <1>1, <4>1, <5>1 DEF MacroOwed
      <4>3. CASE ~armed
        <5>1. Coming => Coming'
          BY <1>1, <1>2, <1>3, <1>4, <4>3, ComingFromOther, ThreadsAre DEF MacroType
        <5>2. Follows(p) => Follows(p)'
          BY <1>1, <3>1, <3>3, <4>3 DEF Follows
        <5> QED
          BY <1>1, <4>1, <5>1, <5>2 DEF MacroOwed
      <4> QED
        BY <4>2, <4>3
    <3>5. CarriedOwed(p) => CarriedOwed(p)'
      BY <1>1, <3>3 DEF CarriedOwed
    <3> QED
      BY <1>1, <2>1, <3>2, <3>4, <3>5 DEF Owed
  <2> QED
    BY <1>1, <1>2, <1>3, <1>4, <2>1, OwedAfterDrain, ThreadsAre DEF Bulk
<1> QED
  BY <1>6, <1>7, <1>8, <1>9, <1>10, Ended

LEMMA LandedKeeps ==
    ASSUME MacroInv, NEW t \in DrainThreads, Landed(t)
    PROVE  MacroInv'
<1> DEFINE h == Head(doing[t])
<1>1. /\ doing[t] # <<>> /\ h.do = "landed" /\ Continue(t, <<>>)
      /\ UNCHANGED <<macro, value, mask, bits, reengage, armed, restoring, stands, touched>>
  BY DEF Landed, MakesStep, surface, pending
<1>2. MacroType /\ CallStep(t) /\ CallStep(Other(t)) /\ GuardInv /\ OwedInv /\ DrainWhere(t, h.do)
  BY <1>1, Begun
<1>3. doing'[t] = Tail(doing[t]) /\ doing'[Other(t)] = doing[Other(t)] /\ doing' \in [DrainThreads -> Calls]
  BY <1>1, <1>2, Passed
<1>4. t = "message" /\ doing'[t] = <<>>
  <2>1. t = "message" /\ doing[t] \in Finishing
    BY <1>1, <1>2 DEF DrainWhere
  <2> QED
    BY <1>3, <2>1, DrainHeads DEF Over
<1>6. MacroType'
  BY <1>1, <1>2, <1>3 DEF MacroType
<1>7. CallStep(t)'
  BY <1>4, OverIs DEF CallStep
<1>8. CallStep(Other(t))'
  BY <1>1, <1>2, <1>3, OtherAlone DEF Small
<1>9. GuardInv'
  <2>1. doing[t] \notin Guarded(t) /\ doing'[t] \notin Guarded(t)
    BY <1>1, <1>4, NotGuarded DEF Middle
  <2> QED
    BY <1>1, <1>2, <1>3, <2>1, NoGuard
<1>10. OwedInv'
  <2>1. ASSUME NEW p \in Managed, Owed(p)  PROVE Owed(p)'
    <3>1. Coming => Coming'
      BY <1>1, <1>3, <1>4, ComingFromOther, ThreadsAre
    <3>2. /\ ~Lands(p) /\ ~Lands(p)' /\ Makes("message", {"take", "land", "landed"})
          /\ Makes("message", {"clear", "take", "land", "landed"})
      BY <1>1, <1>4 DEF Lands, Makes
    <3>3. HandOwed(p) => HandOwed(p)'
      BY <1>1, <3>2 DEF HandOwed
    <3>4. MacroOwed(p) => MacroOwed(p)'
      BY <1>1, <3>1, <3>2 DEF MacroOwed, Follows
    <3>5. CarriedOwed(p) => CarriedOwed(p)'
      BY <1>1, <3>2 DEF CarriedOwed
    <3> QED
      BY <1>1, <2>1, <3>3, <3>4, <3>5 DEF Owed
  <2> QED
    BY <1>1, <1>2, <1>3, <1>4, <2>1, OwedAfterDrain, ThreadsAre DEF Bulk
<1> QED
  BY <1>6, <1>7, <1>8, <1>9, Ended, <1>10

LEMMA FlushKeeps ==
    ASSUME MacroInv, NEW t \in DrainThreads, Flush(t)
    PROVE  MacroInv'
<1> DEFINE h == Head(doing[t])
<1>1. /\ doing[t] # <<>> /\ h.do = "tick" /\ Continue(t, IF MayDrain THEN DrainSteps ELSE <<>>)
      /\ UNCHANGED <<macro, value, mask, bits, reengage, armed, restoring, stands, touched>>
  BY DEF Flush, MakesStep, surface, pending, latches
<1>2. MacroType /\ CallStep(t) /\ CallStep(Other(t)) /\ GuardInv /\ OwedInv /\ DrainWhere(t, h.do)
  BY <1>1, Begun
<1>3. t = "message" /\ doing[t] \in Ticking /\ Tail(doing[t]) = <<>>
  <2>1. t = "message" /\ doing[t] \in Ticking
    BY <1>1, <1>2 DEF DrainWhere
  <2>2. Tail(doing[t]) \in Over
    BY <2>1, DrainHeads
  <2> QED
    BY <2>1, <2>2 DEF Over
<1>4. /\ doing'[Other(t)] = doing[Other(t)] /\ doing' \in [DrainThreads -> Calls]
      /\ doing'[t] \in Bringing \/ doing'[t] = <<>>
  <2>1. CASE MayDrain
    <3>1. DrainSteps \in Bringing
      BY MacroCalls
    <3>2. DrainSteps \in Calls
      BY <3>1, DrainHeads
    <3>3. Continue(t, DrainSteps)
      BY <1>1, <2>1
    <3>4. /\ doing'[t] = DrainSteps \o Tail(doing[t])
          /\ doing'[Other(t)] = doing[Other(t)] /\ doing' \in [DrainThreads -> Calls]
      BY <1>1, <1>2, <3>2, <3>3, Continued
    <3>5. DrainSteps \o <<>> = DrainSteps
      BY <3>2, ConcatEmptySeq DEF Calls
    <3> QED
      BY <1>3, <3>1, <3>4, <3>5
  <2>2. CASE ~MayDrain
    <3>1. doing'[t] = Tail(doing[t]) /\ doing'[Other(t)] = doing[Other(t)] /\ doing' \in [DrainThreads -> Calls]
      BY <1>1, <1>2, <2>2, Passed
    <3> QED
      BY <1>3, <3>1
  <2> QED
    BY <2>1, <2>2
<1>5. doing'[t] = <<>> \/ Head(doing'[t]).do = "bits"
  BY <1>4, DrainHeads
<1>6. MacroType'
  BY <1>1, <1>2, <1>4 DEF MacroType
<1>7. CallStep(t)'
  <2>1. CASE doing'[t] \in Bringing
    BY <1>3, <2>1, DrainingIs DEF CallStep
  <2>2. CASE doing'[t] = <<>>
    BY <2>2, OverIs DEF CallStep
  <2> QED
    BY <1>4, <2>1, <2>2
<1>8. CallStep(Other(t))'
  BY <1>1, <1>2, <1>4, OtherAlone DEF Small
<1>9. GuardInv'
  <2>1. doing[t] \notin Guarded(t) /\ doing'[t] \notin Guarded(t)
    BY <1>1, <1>5, NotGuarded DEF Middle
  <2> QED
    BY <1>1, <1>2, <1>4, <2>1, NoGuard
<1>10. OwedInv'
  <2>1. ~Makes(t, Bulk) /\ ~Makes(t, {"ask", "arm", "move"}) /\ ~Makes(t, Late) /\ ~Makes(t, Late)'
    BY <1>1, <1>5 DEF Makes, Bulk, Late
  <2> QED
    BY <1>1, <1>2, <1>4, <2>1, OwedInvStays
<1> QED
  BY <1>6, <1>7, <1>8, <1>9, <1>10, Ended

LEMMA LandCurveKeeps ==
    ASSUME MacroInv, NEW t \in DrainThreads, LandCurve(t)
    PROVE  MacroInv'
<1> DEFINE h == Head(doing[t])
           q == Order[h.i]
           next == IF h.i < Len(Order) THEN <<[h EXCEPT !.i = h.i + 1]>> ELSE <<Do("landed")>>
<1>1. /\ doing[t] # <<>> /\ h.do = "land" /\ Continue(t, next)
      /\ value' = IF q \in mask THEN value ELSE [value EXCEPT ![q] = h.v]
      /\ UNCHANGED <<macro, mask, bits, reengage, armed, restoring, stands, touched>>
  BY DEF LandCurve, MakesStep, pending, latches
<1>2. MacroType /\ CallStep(t) /\ CallStep(Other(t)) /\ GuardInv /\ OwedInv /\ DrainWhere(t, h.do)
  BY <1>1, Begun
<1>l. PICK i \in 1..Len(Order), v \in Positions : t = "message" /\ doing[t] \in Landing(i, v)
  BY <1>1, <1>2 DEF DrainWhere
<1>3. h = [do |-> "land", i |-> i, v |-> v] /\ Tail(doing[t]) = <<>> /\ q \in Managed
  <2>1. h = [do |-> "land", i |-> i, v |-> v] /\ Tail(doing[t]) \in Over
    BY <1>l, OfFirst DEF Landing
  <2>2. h.i = i
    BY <2>1
  <2> QED
    BY <2>1, <2>2, OrderCovers DEF Over
<1>k. h.i = i /\ h.v = v
  BY <1>3
<1> HIDE DEF h
<1>n. (next \in Landing(i + 1, v) /\ i + 1 \in 1..Len(Order)) \/ next \in Finishing
  <2>1. CASE i < Len(Order)
    <3>1. [h EXCEPT !.i = h.i + 1] = [do |-> "land", i |-> i + 1, v |-> v]
      BY <1>3, <1>k
    <3>2. i + 1 \in 1..Len(Order)
      BY <2>1, OrderCovers
    <3>3. next = <<[do |-> "land", i |-> i + 1, v |-> v]>>
      BY <1>k, <2>1, <3>1
    <3>4. <<[do |-> "land", i |-> i + 1, v |-> v]>> \in Landing(i + 1, v)
      BY <3>2, LandCalls
    <3> QED
      BY <3>2, <3>3, <3>4
  <2>2. CASE ~(i < Len(Order))
    <3>1. next = <<Do("landed")>>
      BY <1>k, <2>2
    <3> QED
      BY <3>1, LandCalls
  <2> QED
    BY <2>1, <2>2
<1> HIDE DEF next
<1>4. /\ doing'[Other(t)] = doing[Other(t)] /\ doing' \in [DrainThreads -> Calls]
      /\ doing'[t] = next
  <2>1. next \in Calls
    BY <1>n, DrainHeads
  <2>2. doing'[t] = next \o Tail(doing[t]) /\ doing'[Other(t)] = doing[Other(t)] /\ doing' \in [DrainThreads -> Calls]
    BY <1>1, <1>2, <2>1, Continued
  <2>3. next \o <<>> = next
    BY <2>1, ConcatEmptySeq DEF Calls
  <2> QED
    BY <1>3, <2>2, <2>3
<1>5. /\ doing'[t] # <<>>
      /\ \/ /\ Head(doing'[t]).do = "land" /\ Head(doing'[t]).i = i + 1 /\ Head(doing'[t]).v = v
            /\ i + 1 \in 1..Len(Order)
         \/ Head(doing'[t]).do = "landed"
  <2>1. CASE next \in Landing(i + 1, v) /\ i + 1 \in 1..Len(Order)
    BY <1>4, <2>1, DrainHeads
  <2>2. CASE next \in Finishing
    BY <1>4, <2>2, DrainHeads
  <2> QED
    BY <1>n, <2>1, <2>2
<1>6. MacroType'
  <2>1. value' \in [Managed -> Values]
    BY <1>1, <1>2, <1>3, <1>k, <1>l DEF MacroType, Values
  <2> QED
    BY <1>1, <1>2, <1>4, <2>1 DEF MacroType
<1>7. CallStep(t)'
  <2>1. doing'[t] \in Draining
    BY <1>4, <1>l, <1>n, DrainingIs
  <2> QED
    BY <1>l, <2>1 DEF CallStep
<1>8. CallStep(Other(t))'
  <2>1. Head(doing[t]).do = "land"
    BY <1>1 DEF h
  <2> QED
    BY <1>1, <1>2, <1>4, <2>1, OtherAlone DEF Small
<1>9. GuardInv'
  <2>1. doing[t] \notin Guarded(t)
    BY <1>1, NotGuarded DEF Middle, h
  <2>2. doing'[t] \notin Guarded(t)
    BY <1>5, NotGuarded DEF Middle
  <2> QED
    BY <1>1, <1>2, <1>4, <2>1, <2>2, NoGuard
<1>10. OwedInv'
  <2>m. t = "message" /\ Head(doing["message"]).do = "land" /\ doing["message"] # <<>>
        /\ Head(doing["message"]).i = i /\ Head(doing["message"]).v = v
    BY <1>1, <1>l, <1>k DEF h
  <2>1. ASSUME NEW p \in Managed, Owed(p)  PROVE Owed(p)'
    <3>1. /\ Makes("message", {"take", "land", "landed"}) /\ Makes("message", {"clear", "take", "land", "landed"})
          /\ Lands(p) <=> \E j \in i..Len(Order) : Order[j] = p
      BY <2>m DEF Lands, Makes
    <3>2. p = q => Lands(p)
      BY <1>l, <1>k, <3>1, OrderCovers
    <3>3. p # q \/ p \in mask => value'[p] = value[p]
      BY <1>1, <1>2 DEF MacroType
    <3>4. p = q /\ p \notin mask => value'[p] = v
      BY <1>1, <1>2, <1>k DEF MacroType
    <3>5. Lands(p)' => Lands(p) /\ Head(doing'["message"]).v = v
      <4> SUFFICES ASSUME Lands(p)'  PROVE Lands(p) /\ Head(doing'["message"]).v = v
        OBVIOUS
      <4>1. Head(doing'["message"]).do = "land"
        BY DEF Lands, Makes
      <4>2. Head(doing'["message"]).i = i + 1 /\ Head(doing'["message"]).v = v
        BY <1>5, <2>m, <4>1
      <4>3. PICK j \in (i + 1)..Len(Order) : Order[j] = p
        BY <4>2 DEF Lands
      <4>4. j \in i..Len(Order)
        BY <1>l, OrderCovers
      <4> QED
        BY <3>1, <4>2, <4>3, <4>4
    <3>6. ~Lands(p)' /\ Lands(p) => p = q
      <4> SUFFICES ASSUME ~Lands(p)', Lands(p)  PROVE p = q
        OBVIOUS
      <4>1. PICK j \in i..Len(Order) : Order[j] = p
        BY <3>1
      <4>2. CASE j = i
        BY <1>k, <4>1, <4>2
      <4>3. CASE j # i
        <5>1. j \in (i + 1)..Len(Order) /\ i < Len(Order)
          BY <1>l, <4>1, <4>3, OrderCovers
        <5>2. next \in Landing(i + 1, v)
          BY <1>k, <1>3, <5>1, LandCalls DEF next
        <5>3. doing'["message"] # <<>> /\ Head(doing'["message"]).do = "land" /\ Head(doing'["message"]).i = i + 1
          BY <1>4, <2>m, <5>2, DrainHeads
        <5>4. Lands(p)'
          BY <4>1, <5>1, <5>3 DEF Lands, Makes
        <5> QED
          BY <5>4
      <4> QED
        BY <4>2, <4>3
    <3>7. HandOwed(p) => HandOwed(p)'
      BY <1>1, <3>1, <3>3 DEF HandOwed
    <3>8. MacroOwed(p) => MacroOwed(p)'
      <4> SUFFICES ASSUME MacroOwed(p) PROVE MacroOwed(p)'
        OBVIOUS
      <4>1. ~reengage /\ p \notin mask \union bits /\ (Coming \/ Follows(p))
        BY <3>1 DEF MacroOwed
      <4>2. Coming => Coming'
        BY <1>1, <1>4, <2>m, ComingFromOther, ThreadsAre
      <4>3. Follows(p) => Follows(p)'
        <5>1. CASE Lands(p)'
          BY <1>1, <2>m, <3>5, <5>1 DEF Follows
        <5>2. CASE ~Lands(p)' /\ Lands(p)
          BY <1>1, <2>m, <3>4, <3>6, <4>1, <5>2 DEF Follows
        <5>3. CASE ~Lands(p)' /\ ~Lands(p)
          BY <1>1, <3>2, <3>3, <5>3 DEF Follows
        <5> QED
          BY <5>1, <5>2, <5>3
      <4> QED
        BY <1>1, <4>1, <4>2, <4>3 DEF MacroOwed
    <3>9. CarriedOwed(p) => CarriedOwed(p)'
      BY <1>1, <3>2, <3>3, <3>5 DEF CarriedOwed
    <3> QED
      BY <1>1, <2>1, <3>7, <3>8, <3>9 DEF Owed
  <2> QED
    BY <1>2, <1>4, <2>m, <2>1, OwedAfterDrain, ThreadsAre DEF Bulk
<1> QED
  BY <1>6, <1>7, <1>8, <1>9, <1>10, Ended

-----------------------------------------------------------------------------
(* The steps of a restore and of a reset.                                   *)

\* Such a step leaves another one of the bulk change to be made.
LEMMA ChangesOn ==
    ASSUME MacroInv, NEW t \in DrainThreads, doing[t] # <<>>, Head(doing[t]).do \notin Small,
           doing'[t] = Tail(doing[t]), doing'[Other(t)] = doing[Other(t)],
           touched \subseteq touched', MacroType', GuardInv', CallStep(t)',
           doing'[t] # <<>>, Head(doing'[t]).do \in Bulk
    PROVE  MacroInv'
<1>1. CallStep(Other(t))
  BY Begun
<1>2. CallStep(Other(t))'
  BY <1>1, OtherAlone
<1>3. OwedInv'
  BY ChangingGoesOn DEF OwedInv
<1> QED
  BY <1>2, <1>3, Ended

\* The calls of a restore past its guard, and those of a reset.
LEMMA GuardedIs ==
    ASSUME NEW t \in DrainThreads, NEW c \in States, NEW s
    PROVE  s \in Adopting(t, c) \union DroppingBits(t, c) \union DroppingAsk(t, c)
                   \union Replacing(t, c) \union Aborting(t, c) \union Lowering(t, c) => s \in Guarded(t)
<1>1. SUFFICES ASSUME s \in Adopting(t, c) \union DroppingBits(t, c) \union DroppingAsk(t, c)
                              \union Replacing(t, c) \union Aborting(t, c) \union Lowering(t, c)
               PROVE  s \in Guarded(t)
  OBVIOUS
<1>2. s \in Calls
  BY <1>1, RestoreHeads
<1> QED
  BY <1>1, <1>2 DEF Guarded

\* The count of the guards, from the thread that takes a step.
LEMMA CountIs ==
    ASSUME NEW t \in DrainThreads, GuardInv, doing'[Other(t)] = doing[Other(t)]
    PROVE  /\ restoring = Guards(t) + Guards(Other(t)) /\ Guards(Other(t)) \in {0, 1}
           /\ doing[t] \in Guarded(t) => Guards(t) = 1
           /\ doing[t] \notin Guarded(t) => Guards(t) = 0
           /\ doing'[t] \in Guarded(t) /\ restoring' = 1 + Guards(Other(t)) => GuardInv'
           /\ doing'[t] \notin Guarded(t) /\ restoring' = Guards(Other(t)) => GuardInv'
<1>1. Guards("message") \in {0, 1} /\ Guards("other") \in {0, 1}
  BY DEF Guards
<1>2. restoring = Guards("message") + Guards("other")
  BY DEF GuardInv
<1>3. Guards(t)' = IF doing'[t] \in Guarded(t) THEN 1 ELSE 0
  BY DEF Guards
<1>4. Guards(Other(t))' = Guards(Other(t))
  BY DEF Guards
<1>5. Guards(t) = IF doing[t] \in Guarded(t) THEN 1 ELSE 0
  BY DEF Guards
<1>6. GuardInv' <=> restoring' = Guards("message")' + Guards("other")'
  BY DEF GuardInv
<1>7. CASE t = "message"
  <2>1. Other(t) = "other"
    BY <1>7, ThreadsAre
  <2>2. Guards(t) = Guards("message") /\ Guards(Other(t)) = Guards("other")
    BY <1>7, <2>1
  <2>3. Guards(t)' = Guards("message")' /\ Guards(Other(t))' = Guards("other")'
    BY <1>7, <2>1 DEF Guards
  <2> HIDE DEF Guards
  <2>4. restoring = Guards(t) + Guards(Other(t)) /\ Guards(Other(t)) \in {0, 1}
    BY <1>1, <1>2, <2>2
  <2>5. GuardInv' <=> restoring' = Guards(t)' + Guards(Other(t))
    BY <1>1, <1>3, <1>4, <1>6, <2>3, <2>4
  <2> QED
    BY <1>3, <1>5, <2>4, <2>5
<1>8. CASE t = "other"
  <2>1. Other(t) = "message"
    BY <1>8, ThreadsAre
  <2>2. Guards(t) = Guards("other") /\ Guards(Other(t)) = Guards("message")
    BY <1>8, <2>1
  <2>3. Guards(t)' = Guards("other")' /\ Guards(Other(t))' = Guards("message")'
    BY <1>8, <2>1 DEF Guards
  <2> HIDE DEF Guards
  <2>4. restoring = Guards(t) + Guards(Other(t)) /\ Guards(Other(t)) \in {0, 1}
    BY <1>1, <1>2, <2>2
  <2>5. GuardInv' <=> restoring' = Guards(t)' + Guards(Other(t))
    BY <1>1, <1>3, <1>4, <1>6, <2>3, <2>4
  <2> QED
    BY <1>3, <1>5, <2>4, <2>5
<1> QED
  BY <1>7, <1>8 DEF DrainThreads

LEMMA ArmAllKeeps ==
    ASSUME MacroInv, NEW t \in DrainThreads, ArmAll(t)
    PROVE  MacroInv'
<1> DEFINE h == Head(doing[t])
<1>1. /\ doing[t] # <<>> /\ h.do = "arm all" /\ Continue(t, <<>>) /\ armed' = TRUE
      /\ stands' = [p \in Managed |-> [by |-> IF p \in touched THEN "unknown" ELSE "macro"]]
      /\ UNCHANGED <<macro, value, mask, bits, reengage, restoring, touched>>
  BY DEF ArmAll, MakesStep, surface, latches
<1>2. /\ MacroType /\ CallStep(t) /\ CallStep(Other(t)) /\ GuardInv /\ OwedInv
      /\ DrainWhere(t, h.do) /\ BulkWhere(t, h.do)
  BY <1>1, Begun
<1>3. doing'[t] = Tail(doing[t]) /\ doing'[Other(t)] = doing[Other(t)] /\ doing' \in [DrainThreads -> Calls]
  BY <1>1, <1>2, Passed
<1>4. t = "message" /\ doing[t] \in ArmingAll /\ Resets(4) /\ doing'[t] \in Ticking
  <2>1. t = "message"
    BY <1>1, <1>2 DEF DrainWhere
  <2>2. doing[t] \in ArmingAll /\ Resets(4)
    BY <1>1, <1>2 DEF BulkWhere
  <2>3. Tail(doing[t]) \in Ticking
    BY <2>2, ResetHeads
  <2> QED
    BY <1>3, <2>1, <2>2, <2>3
<1>5. doing'[t] # <<>> /\ Head(doing'[t]).do = "tick"
  BY <1>4, DrainHeads
<1>6. MacroType'
  <2>1. stands' \in [Managed -> Standings]
    BY <1>1 DEF Standings
  <2> QED
    BY <1>1, <1>2, <1>3, <2>1 DEF MacroType
<1>7. CallStep(t)'
  BY <1>4, DrainingIs DEF CallStep
<1>8. CallStep(Other(t))'
  BY <1>1, <1>2, <1>3, OtherAlone DEF Small
<1>9. GuardInv'
  <2>1. doing[t] \notin Guarded(t)
    BY <1>4, ResetsAreNot
  <2>2. doing'[t] \notin Guarded(t)
    BY <1>5, NotGuarded DEF Middle
  <2> QED
    BY <1>1, <1>2, <1>3, <2>1, <2>2, NoGuard
<1>10. OwedInv'
  <2>1. ASSUME NEW p \in Managed  PROVE Owed(p)'
    <3>1. CASE p \in touched
      <4>1. stands'[p].by = "unknown"
        BY <1>1, <3>1
      <4> QED
        BY <4>1, StandingBy
    <3>2. CASE p \notin touched
      <4>1. p \notin bits /\ ~reengage /\ p \notin mask
        BY <1>4, <3>2 DEF Resets
      <4>2. MacroOwed(p)'
        BY <1>1, <4>1 DEF MacroOwed, Coming
      <4>3. stands'[p].by = "macro"
        BY <1>1, <3>2
      <4> QED
        BY <4>2, <4>3 DEF Owed
    <3> QED
      BY <3>1, <3>2
  <2> QED
    BY <2>1 DEF OwedInv
<1> QED
  BY <1>6, <1>7, <1>8, <1>9, <1>10, Ended

LEMMA RaiseGuardKeeps ==
    ASSUME MacroInv, NEW t \in DrainThreads, RaiseGuard(t)
    PROVE  MacroInv'
<1> DEFINE h == Head(doing[t])
<1>1. /\ doing[t] # <<>> /\ h.do = "raise" /\ Continue(t, <<>>) /\ restoring' = restoring + 1
      /\ touched' = touched \union InFlight(Other(t))
      /\ UNCHANGED <<macro, value, mask, bits, reengage, armed, stands>>
  BY DEF RaiseGuard, MakesStep, surface, pending
<1>2. MacroType /\ CallStep(t) /\ CallStep(Other(t)) /\ GuardInv /\ OwedInv /\ BulkWhere(t, h.do)
  BY <1>1, Begun
<1>3. doing'[t] = Tail(doing[t]) /\ doing'[Other(t)] = doing[Other(t)] /\ doing' \in [DrainThreads -> Calls]
  BY <1>1, <1>2, Passed
<1>c. PICK c \in States : doing[t] \in Raising(t, c)
  BY <1>1, <1>2 DEF BulkWhere
<1>4. doing'[t] \in Adopting(t, c)
  <2>1. Tail(doing[t]) \in Adopting(t, c)
    BY <1>c, RestoreHeads
  <2> QED
    BY <1>3, <2>1
<1>5. doing'[t] # <<>> /\ Head(doing'[t]).do = "adopt"
  BY <1>4, RestoreHeads
<1>6. MacroType'
  BY <1>1, <1>2, <1>3 DEF MacroType
<1>7. CallStep(t)'
  <2>1. Carries(t, c, 1)'
    <3>1. ASSUME NEW p \in Managed \ touched'  PROVE doing'[Other(t)] \in Sparing(Other(t), p)
      BY <1>1, <1>2, <1>3, <3>1, NotInFlight, ThreadsAre
    <3> QED
      BY <3>1 DEF Carries
  <2>2. RestoreStep(t, c)'
    BY <1>4, <2>1 DEF RestoreStep
  <2> QED
    BY <2>2 DEF CallStep
<1>9. GuardInv'
  <2>1. doing[t] \notin Guarded(t)
    BY <1>1, NotGuarded DEF Middle
  <2>2. doing'[t] \in Guarded(t)
    BY <1>4, GuardedIs
  <2>3. restoring' = 1 + Guards(Other(t))
    BY <1>1, <1>2, <1>3, <2>1, CountIs
  <2> QED
    BY <1>2, <1>3, <2>2, <2>3, CountIs
<1> QED
  BY <1>1, <1>3, <1>5, <1>6, <1>7, <1>9, ChangesOn DEF Small, Bulk

LEMMA AdoptKeeps ==
    ASSUME MacroInv, NEW t \in DrainThreads, Adopt(t)
    PROVE  MacroInv'
<1> DEFINE h == Head(doing[t])
<1>1. /\ doing[t] # <<>> /\ h.do = "adopt" /\ Continue(t, <<>>)
      /\ macro' = h.state.macro /\ value' = h.state.value
      /\ armed' = (armed \/ h.state.macro # macro)
      /\ UNCHANGED <<mask, bits, reengage, restoring, stands, touched>>
  BY DEF Adopt, MakesStep, latches
<1>2. MacroType /\ CallStep(t) /\ CallStep(Other(t)) /\ GuardInv /\ OwedInv /\ BulkWhere(t, h.do)
  BY <1>1, Begun
<1>3. doing'[t] = Tail(doing[t]) /\ doing'[Other(t)] = doing[Other(t)] /\ doing' \in [DrainThreads -> Calls]
  BY <1>1, <1>2, Passed
<1>c. PICK c \in States : doing[t] \in Adopting(t, c) /\ Carries(t, c, 1)
  BY <1>1, <1>2 DEF BulkWhere
<1>4. doing'[t] \in DroppingBits(t, c) /\ h.state = c
  <2>1. Tail(doing[t]) \in DroppingBits(t, c)
    BY <1>c, RestoreHeads
  <2>2. h.state = c
    BY <1>c, RestoreHeads
  <2> QED
    BY <1>3, <2>1, <2>2
<1>5. doing'[t] # <<>> /\ Head(doing'[t]).do = "drop bits"
  BY <1>4, RestoreHeads
<1>6. MacroType'
  <2>1. macro' \in Positions /\ value' \in [Managed -> Values]
    BY <1>1, <1>4 DEF States
  <2>2. armed' \in BOOLEAN
    BY <1>1, <1>2 DEF MacroType
  <2> QED
    BY <1>1, <1>2, <1>3, <2>1, <2>2 DEF MacroType
<1>7. CallStep(t)'
  <2>1. Carries(t, c, 2)'
    BY <1>1, <1>3, <1>4, <1>c DEF Carries
  <2>2. RestoreStep(t, c)'
    BY <1>4, <2>1 DEF RestoreStep
  <2> QED
    BY <2>2 DEF CallStep
<1>9. GuardInv'
  <2>1. (doing'[t] \in Guarded(t)) = (doing[t] \in Guarded(t))
    <3>1. doing[t] \in Guarded(t)
      BY <1>c, GuardedIs
    <3>2. doing'[t] \in Guarded(t)
      BY <1>4, GuardedIs
    <3> QED
      BY <3>1, <3>2
  <2> QED
    BY <1>1, <1>2, <1>3, <2>1, GuardsStay
<1> QED
  BY <1>1, <1>3, <1>5, <1>6, <1>7, <1>9, ChangesOn DEF Small, Bulk

LEMMA AbortKeeps ==
    ASSUME MacroInv, NEW t \in DrainThreads, Abort(t)
    PROVE  MacroInv'
<1> DEFINE h == Head(doing[t])
<1>1. /\ doing[t] # <<>> /\ h.do = "abort" /\ Continue(t, <<>>) /\ armed' = FALSE
      /\ UNCHANGED <<macro, value, mask, bits, reengage, restoring, stands, touched>>
  BY DEF Abort, MakesStep, surface, latches
<1>2. MacroType /\ CallStep(t) /\ CallStep(Other(t)) /\ GuardInv /\ OwedInv /\ BulkWhere(t, h.do)
  BY <1>1, Begun
<1>3. doing'[t] = Tail(doing[t]) /\ doing'[Other(t)] = doing[Other(t)] /\ doing' \in [DrainThreads -> Calls]
  BY <1>1, <1>2, Passed
<1>c. PICK c \in States : doing[t] \in Aborting(t, c) /\ Carries(t, c, 5)
  BY <1>1, <1>2 DEF BulkWhere
<1>4. doing'[t] \in Lowering(t, c)
  <2>1. Tail(doing[t]) \in Lowering(t, c)
    BY <1>c, RestoreHeads
  <2> QED
    BY <1>3, <2>1
<1>5. doing'[t] # <<>> /\ Head(doing'[t]).do = "lower"
  BY <1>4, RestoreHeads
<1>6. MacroType'
  BY <1>1, <1>2, <1>3 DEF MacroType
<1>7. CallStep(t)'
  <2>1. Carries(t, c, 6)'
    BY <1>1, <1>3, <1>4, <1>c DEF Carries
  <2>2. RestoreStep(t, c)'
    BY <1>4, <2>1 DEF RestoreStep
  <2> QED
    BY <2>2 DEF CallStep
<1>9. GuardInv'
  <2>1. (doing'[t] \in Guarded(t)) = (doing[t] \in Guarded(t))
    <3>1. doing[t] \in Guarded(t)
      BY <1>c, GuardedIs
    <3>2. doing'[t] \in Guarded(t)
      BY <1>4, GuardedIs
    <3> QED
      BY <3>1, <3>2
  <2> QED
    BY <1>1, <1>2, <1>3, <2>1, GuardsStay
<1> QED
  BY <1>1, <1>3, <1>5, <1>6, <1>7, <1>9, ChangesOn DEF Small, Bulk

LEMMA LowerGuardKeeps ==
    ASSUME MacroInv, NEW t \in DrainThreads, LowerGuard(t)
    PROVE  MacroInv'
<1> DEFINE h == Head(doing[t])
           x == h.state
<1>1. /\ doing[t] # <<>> /\ h.do = "lower" /\ Continue(t, <<>>) /\ restoring' = restoring - 1
      /\ stands' = [p \in Managed |->
                      IF p \in touched THEN [by |-> "unknown"]
                      ELSE [by |-> "carried", v |-> x.value[p], detached |-> p \in x.mask]]
      /\ UNCHANGED <<macro, value, mask, bits, reengage, armed, touched>>
  BY DEF LowerGuard, MakesStep, surface, pending
<1>2. MacroType /\ CallStep(t) /\ CallStep(Other(t)) /\ GuardInv /\ OwedInv /\ BulkWhere(t, h.do)
  BY <1>1, Begun
<1>3. doing'[t] = Tail(doing[t]) /\ doing'[Other(t)] = doing[Other(t)] /\ doing' \in [DrainThreads -> Calls]
  BY <1>1, <1>2, Passed
<1>c. PICK c \in States : doing[t] \in Lowering(t, c) /\ Carries(t, c, 6)
  BY <1>1, <1>2 DEF BulkWhere
<1>4. x = c /\ (doing'[t] = <<>> \/ (t = "message" /\ c.mask = {} /\ doing'[t] \in RelandBits))
  <2>1. Tail(doing[t]) \in Afterwards(t, c)
    BY <1>c, RestoreHeads
  <2>2. x = c
    BY <1>c, RestoreHeads
  <2> QED
    BY <1>3, <2>1, <2>2 DEF Afterwards, Over
<1>5. doing'[t] = <<>> \/ Head(doing'[t]).do = "drop bits"
  BY <1>4, ResetHeads
<1>g. doing[t] \in Guarded(t) /\ doing'[t] \notin Guarded(t)
  <2>1. doing[t] \in Guarded(t)
    BY <1>c, GuardedIs
  <2>2. CASE doing'[t] = <<>>
    BY <2>1, <2>2, NotGuarded
  <2>3. CASE doing'[t] \in RelandBits
    BY <2>1, <2>3, ResetsAreNot
  <2> QED
    BY <1>4, <2>2, <2>3
<1>9. GuardInv' /\ restoring' \in Nat
  <2>1. restoring' = Guards(Other(t)) /\ Guards(Other(t)) \in {0, 1}
    BY <1>1, <1>2, <1>3, <1>g, CountIs
  <2>2. GuardInv'
    BY <1>2, <1>3, <1>g, <2>1, CountIs
  <2> QED
    BY <2>1, <2>2
<1>6. MacroType'
  <2>1. ASSUME NEW p \in Managed
        PROVE  [by |-> "carried", v |-> c.value[p], detached |-> p \in c.mask] \in Standings
    <3>1. c.value[p] \in Values
      BY DEF States
    <3> QED
      BY <3>1 DEF Standings
  <2>2. stands' \in [Managed -> Standings]
    <3>1. [by |-> "unknown"] \in Standings
      BY DEF Standings
    <3> QED
      BY <1>1, <1>4, <2>1, <3>1
  <2> QED
    BY <1>1, <1>2, <1>3, <1>9, <2>2 DEF MacroType
<1>7. CallStep(t)'
  <2>1. CASE doing'[t] = <<>>
    BY <2>1, OverIs DEF CallStep
  <2>2. CASE t = "message" /\ c.mask = {} /\ doing'[t] \in RelandBits
    <3>1. Resets(4)'
      <4>1. Other(t) = "other"
        BY <2>2, ThreadsAre
      <4>2. ASSUME NEW p \in Managed \ touched'
            PROVE  doing'["other"] \in Sparing("other", p) /\ p \notin bits' /\ ~reengage' /\ p \notin mask'
        BY <1>1, <1>3, <1>c, <2>2, <4>1 DEF Carries
      <4> QED
        BY <4>2 DEF Resets
    <3>2. ResetStep'
      BY <2>2, <3>1 DEF ResetStep
    <3> QED
      BY <2>2, <3>2 DEF CallStep
  <2> QED
    BY <1>4, <2>1, <2>2
<1>8. CallStep(Other(t))'
  BY <1>1, <1>2, <1>3, OtherAlone DEF Small
<1>10. OwedInv'
  <2>1. ASSUME NEW p \in Managed  PROVE Owed(p)'
    <3>1. CASE p \in touched
      <4>1. stands'[p].by = "unknown"
        BY <1>1, <3>1
      <4> QED
        BY <4>1, StandingBy
    <3>2. CASE p \notin touched
      <4>1. stands'[p] = [by |-> "carried", v |-> c.value[p], detached |-> p \in c.mask]
        BY <1>1, <1>4, <3>2
      <4>2. /\ value[p] = c.value[p] /\ p \notin bits /\ ~reengage /\ (p \in mask) = (p \in c.mask) /\ ~armed
            /\ doing[Other(t)] \in Sparing(Other(t), p)
        BY <1>c, <3>2 DEF Carries
      <4>3. ~Lands(p)'
        <5>1. CASE t = "message"
          BY <1>5, <5>1 DEF Lands, Makes
        <5>2. CASE t = "other"
          <6>1. doing'["message"] \in Sparing("message", p)
            BY <1>3, <4>2, <5>2, ThreadsAre
          <6>2. ~Makes("message", {"land"})'
            BY <6>1, SparingNames, ThreadsAre DEF Makes, Small
          <6> QED
            BY <6>2 DEF Lands
        <5> QED
          BY <5>1, <5>2 DEF DrainThreads
      <4>4. stands'[p].by = "carried" /\ stands'[p].v = c.value[p] /\ stands'[p].detached = (p \in c.mask)
        BY <4>1
      <4>5. CarriedOwed(p)'
        BY <1>1, <4>2, <4>3, <4>4 DEF CarriedOwed
      <4> QED
        BY <4>4, <4>5 DEF Owed
    <3> QED
      BY <3>1, <3>2
  <2> QED
    BY <2>1 DEF OwedInv
<1> QED
  BY <1>6, <1>7, <1>8, <1>9, <1>10, Ended

\* A restore that has made its first n steps makes one more.
LEMMA CarriesOn ==
    ASSUME NEW t \in DrainThreads, NEW c \in States, NEW n \in {2, 3, 4}, Carries(t, c, n),
           doing'[Other(t)] = doing[Other(t)], value' = value, touched' = touched,
           n = 2 => bits' = {},
           n > 2 => bits' = bits,
           n = 3 => ~reengage', n = 4 => reengage' = reengage,
           n = 4 => mask' = c.mask
    PROVE  Carries(t, c, n + 1)'
<1>1. ASSUME NEW p \in Managed \ touched'
      PROVE  /\ doing'[Other(t)] \in Sparing(Other(t), p) /\ value'[p] = c.value[p] /\ p \notin bits'
             /\ n > 2 => ~reengage'
             /\ n > 3 => (p \in mask') = (p \in c.mask)
  BY DEF Carries
<1> QED
  BY <1>1 DEF Carries

\* And so does a reset.
LEMMA ResetsOn ==
    ASSUME NEW n \in {1, 2, 3, 4}, NEW k \in {2, 3, 4}, Resets(n), k = n + 1 \/ (n = 4 /\ k = 4),
           doing'["other"] = doing["other"], touched' = touched,
           bits' = bits \/ bits' = {}, reengage' = reengage \/ ~reengage', mask' = mask \/ mask' = {},
           n = 1 => bits' = {}, n = 2 => ~reengage', n = 3 => mask' = {}
    PROVE  Resets(k)'
<1>1. ASSUME NEW p \in Managed \ touched'
      PROVE  /\ doing'["other"] \in Sparing("other", p)
             /\ p \notin bits'
             /\ k > 2 => ~reengage'
             /\ k > 3 => p \notin mask'
  BY DEF Resets
<1> QED
  BY <1>1 DEF Resets

\* What the three ways of Replace have in common.
LEMMA ReplaceOn ==
    ASSUME MacroInv, NEW t \in DrainThreads, Replace(t), CallStep(t)',
           doing'[t] # <<>>, Head(doing'[t]).do \in Bulk,
           (doing'[t] \in Guarded(t)) = (doing[t] \in Guarded(t))
    PROVE  MacroInv'
<1> DEFINE h == Head(doing[t])
<1>1. /\ doing[t] # <<>> /\ h.do \in {"drop bits", "drop ask", "replace"} /\ Continue(t, <<>>)
      /\ UNCHANGED <<macro, value, armed, restoring, stands, touched>>
      /\ bits' \in {bits, {}} /\ reengage' \in {reengage, FALSE} /\ mask' \in {mask, h.mask}
      /\ h.do # "replace" => mask' = mask
  BY DEF Replace, MakesStep, latches
<1>2. MacroType /\ GuardInv /\ BulkWhere(t, h.do)
  BY <1>1, Begun
<1>3. doing'[t] = Tail(doing[t]) /\ doing'[Other(t)] = doing[Other(t)] /\ doing' \in [DrainThreads -> Calls]
  BY <1>1, <1>2, Passed
<1>4. mask' \subseteq Managed
  <2>1. CASE h.do # "replace"
    BY <1>1, <1>2, <2>1 DEF MacroType
  <2>2. ASSUME NEW c \in States, doing[t] \in Replacing(t, c)  PROVE h.mask \subseteq Managed
    <3>1. h.mask = c.mask
      BY <2>2, RestoreHeads
    <3> QED
      BY <3>1 DEF States
  <2>3. ASSUME doing[t] \in ResetMask  PROVE h.mask \subseteq Managed
    <3>1. h.mask = {}
      BY <2>3, ResetHeads
    <3> QED
      BY <3>1
  <2>4. CASE h.do = "replace"
    <3>1. h.mask \subseteq Managed
      BY <1>2, <2>2, <2>3, <2>4 DEF BulkWhere
    <3> QED
      BY <1>1, <1>2, <3>1 DEF MacroType
  <2> QED
    BY <2>1, <2>4
<1>5. MacroType'
  BY <1>1, <1>2, <1>3, <1>4 DEF MacroType
<1>6. GuardInv'
  BY <1>1, <1>2, <1>3, GuardsStay
<1> QED
  BY <1>1, <1>3, <1>5, <1>6, ChangesOn DEF Small

LEMMA ReplaceKeeps ==
    ASSUME MacroInv, NEW t \in DrainThreads, Replace(t)
    PROVE  MacroInv'
<1> DEFINE h == Head(doing[t])
<1>1. /\ doing[t] # <<>> /\ h.do \in {"drop bits", "drop ask", "replace"} /\ Continue(t, <<>>)
      /\ UNCHANGED <<macro, value, armed, restoring, stands, touched>>
      /\ h.do = "drop bits" => bits' = {} /\ UNCHANGED <<mask, reengage>>
      /\ h.do = "drop ask" => reengage' = FALSE /\ UNCHANGED <<mask, bits>>
      /\ h.do = "replace" => mask' = h.mask /\ UNCHANGED <<bits, reengage>>
  BY DEF Replace, MakesStep, latches
<1>2. MacroType /\ BulkWhere(t, h.do)
  BY <1>1, Begun
<1>3. doing'[t] = Tail(doing[t]) /\ doing'[Other(t)] = doing[Other(t)]
  BY <1>1, <1>2, Passed
<1>4. ASSUME NEW c \in States, NEW n \in {2, 3, 4}, Carries(t, c, n),
             n = 2 => doing[t] \in DroppingBits(t, c),
             n = 3 => doing[t] \in DroppingAsk(t, c),
             n = 4 => doing[t] \in Replacing(t, c)
      PROVE  MacroInv'
  <2>1. /\ n = 2 => h.do = "drop bits" /\ Tail(doing[t]) \in DroppingAsk(t, c)
        /\ n = 3 => h.do = "drop ask" /\ Tail(doing[t]) \in Replacing(t, c)
        /\ n = 4 => h.do = "replace" /\ h.mask = c.mask /\ Tail(doing[t]) \in Aborting(t, c)
    BY <1>4, RestoreHeads
  <2>2. Carries(t, c, n + 1)'
    <3>1. /\ n = 2 => bits' = {}
          /\ n > 2 => bits' = bits
          /\ n = 3 => ~reengage'
          /\ n = 4 => reengage' = reengage
          /\ n = 4 => mask' = c.mask
      <4>1. CASE n = 2
        <5>1. h.do = "drop bits"
          BY <2>1, <4>1
        <5>2. bits' = {}
          BY <1>1, <5>1
        <5> QED
          BY <4>1, <5>2
      <4>2. CASE n = 3
        BY <1>1, <2>1, <4>2
      <4>3. CASE n = 4
        BY <1>1, <2>1, <4>3
      <4> QED
        BY <4>1, <4>2, <4>3
    <3> QED
      BY <1>1, <1>3, <1>4, <3>1, CarriesOn
  <2>3. /\ n = 2 => doing'[t] \in DroppingAsk(t, c)
        /\ n = 3 => doing'[t] \in Replacing(t, c)
        /\ n = 4 => doing'[t] \in Aborting(t, c)
    BY <1>3, <2>1
  <2>4. RestoreStep(t, c)'
    <3>1. CASE n = 2
      BY <2>2, <2>3, <3>1 DEF RestoreStep
    <3>2. CASE n = 3
      BY <2>2, <2>3, <3>2 DEF RestoreStep
    <3>3. CASE n = 4
      BY <2>2, <2>3, <3>3 DEF RestoreStep
    <3> QED
      BY <3>1, <3>2, <3>3
  <2>5. CallStep(t)'
    BY <2>4 DEF CallStep
  <2>6. doing'[t] # <<>> /\ Head(doing'[t]).do \in Bulk
    <3>1. CASE n = 2
      BY <2>3, <3>1, RestoreHeads DEF Bulk
    <3>2. CASE n = 3
      BY <2>3, <3>2, RestoreHeads DEF Bulk
    <3>3. CASE n = 4
      BY <2>3, <3>3, RestoreHeads DEF Bulk
    <3> QED
      BY <3>1, <3>2, <3>3
  <2>7. (doing'[t] \in Guarded(t)) = (doing[t] \in Guarded(t))
    <3>1. doing[t] \in Guarded(t)
      BY <1>4, GuardedIs
    <3>2. doing'[t] \in Guarded(t)
      BY <2>3, GuardedIs
    <3> QED
      BY <3>1, <3>2
  <2> QED
    BY <2>5, <2>6, <2>7, ReplaceOn
<1>5. ASSUME t = "message", NEW n \in {1, 2, 3, 4}, Resets(n),
             n = 1 => doing[t] \in ResetBits,
             n = 2 => doing[t] \in ResetAsk,
             n = 3 => doing[t] \in ResetMask,
             n = 4 => doing[t] \in RelandBits \union RelandAsk
      PROVE  MacroInv'
  <2>1. /\ n = 1 => h.do = "drop bits" /\ doing'[t] \in ResetAsk
        /\ n = 2 => h.do = "drop ask" /\ doing'[t] \in ResetMask
        /\ n = 3 => h.do = "replace" /\ h.mask = {} /\ doing'[t] \in RelandBits
        /\ n = 4 => \/ h.do = "drop bits" /\ doing'[t] \in RelandAsk
                    \/ h.do = "drop ask" /\ doing'[t] \in ArmingAll
    BY <1>3, <1>5, ResetHeads
  <2>2. \A k \in {2, 3, 4} : k = n + 1 \/ (n = 4 /\ k = 4) => Resets(k)'
    <3>1. /\ bits' = bits \/ bits' = {}
          /\ reengage' = reengage \/ ~reengage'
          /\ mask' = mask \/ mask' = {}
          /\ n = 1 => bits' = {}
          /\ n = 2 => ~reengage'
          /\ n = 3 => mask' = {}
      BY <1>1, <2>1
    <3>2. doing'["other"] = doing["other"]
      BY <1>3, <1>5, ThreadsAre
    <3> QED
      BY <1>1, <1>5, <3>1, <3>2, ResetsOn
  <2>3. ResetStep'
    <3>1. CASE n = 1
      <4>1. Resets(2)'
        BY <2>2, <3>1
      <4> QED
        BY <1>5, <2>1, <3>1, <4>1 DEF ResetStep
    <3>2. CASE n = 2
      <4>1. Resets(3)'
        BY <2>2, <3>2
      <4> QED
        BY <1>5, <2>1, <3>2, <4>1 DEF ResetStep
    <3>3. CASE n = 3
      <4>1. Resets(4)'
        BY <2>2, <3>3
      <4> QED
        BY <1>5, <2>1, <3>3, <4>1 DEF ResetStep
    <3>4. CASE n = 4
      <4>1. Resets(4)'
        BY <2>2, <3>4
      <4> QED
        BY <1>5, <2>1, <3>4, <4>1 DEF ResetStep
    <3> QED
      BY <3>1, <3>2, <3>3, <3>4
  <2>4. CallStep(t)'
    BY <1>5, <2>3 DEF CallStep
  <2>5. doing'[t] \in ResetAsk \union ResetMask \union RelandBits \union RelandAsk \union ArmingAll
    BY <2>1
  <2>6. doing'[t] # <<>> /\ Head(doing'[t]).do \in Bulk
    BY <2>5, ResetHeads DEF Bulk
  <2>7. (doing'[t] \in Guarded(t)) = (doing[t] \in Guarded(t))
    <3>1. doing[t] \notin Guarded(t)
      BY <1>5, ResetsAreNot
    <3>2. doing'[t] \notin Guarded(t)
      BY <2>5, ResetsAreNot
    <3> QED
      BY <3>1, <3>2
  <2> QED
    BY <2>4, <2>6, <2>7, ReplaceOn
<1>6. CASE h.do = "drop bits"
  <2>1. ASSUME NEW c \in States, doing[t] \in DroppingBits(t, c) /\ Carries(t, c, 2)  PROVE MacroInv'
    BY <1>4, <2>1
  <2>2. CASE t = "message" /\ doing[t] \in ResetBits /\ Resets(1)
    BY <1>5, <2>2
  <2>3. CASE t = "message" /\ doing[t] \in RelandBits /\ Resets(4)
    BY <1>5, <2>3
  <2> QED
    BY <1>2, <1>6, <2>1, <2>2, <2>3 DEF BulkWhere
<1>7. CASE h.do = "drop ask"
  <2>1. ASSUME NEW c \in States, doing[t] \in DroppingAsk(t, c) /\ Carries(t, c, 3)  PROVE MacroInv'
    BY <1>4, <2>1
  <2>2. CASE t = "message" /\ doing[t] \in ResetAsk /\ Resets(2)
    BY <1>5, <2>2
  <2>3. CASE t = "message" /\ doing[t] \in RelandAsk /\ Resets(4)
    BY <1>5, <2>3
  <2> QED
    BY <1>2, <1>7, <2>1, <2>2, <2>3 DEF BulkWhere
<1>8. CASE h.do = "replace"
  <2>1. ASSUME NEW c \in States, doing[t] \in Replacing(t, c) /\ Carries(t, c, 4)  PROVE MacroInv'
    BY <1>4, <2>1
  <2>2. CASE t = "message" /\ doing[t] \in ResetMask /\ Resets(3)
    BY <1>5, <2>2
  <2> QED
    BY <1>2, <1>8, <2>1, <2>2 DEF BulkWhere
<1> QED
  BY <1>1, <1>6, <1>7, <1>8

-----------------------------------------------------------------------------
(* A call enters, a drain starts.                                           *)

LEMMA StartKeeps ==
    ASSUME MacroInv, NEW t \in DrainThreads, NEW steps \in Calls, Resting(t),
           doing' = [doing EXCEPT ![t] = steps],
           UNCHANGED <<macro, value, mask, bits, reengage, armed, restoring, stands>>,
           steps \notin Guarded(t), steps # <<>>, Head(steps).do \notin Late,
           CallStep(t)', CallStep(Other(t))'
    PROVE  MacroInv'
<1>1. MacroType /\ GuardInv /\ OwedInv
  BY DEF MacroInv
<1>2. doing'[t] = steps /\ doing'[Other(t)] = doing[Other(t)] /\ doing' \in [DrainThreads -> Calls]
  BY <1>1, ThreadsAre DEF MacroType
<1>3. MacroType'
  BY <1>1, <1>2 DEF MacroType
<1>4. GuardInv'
  <2>1. doing[t] \notin Guarded(t)
    BY NotGuarded DEF Resting
  <2> QED
    BY <1>1, <1>2, <2>1, NoGuard
<1>5. OwedInv'
  <2>1. ~Makes(t, Bulk) /\ ~Makes(t, {"ask", "arm", "move"}) /\ ~Makes(t, Late)
    BY DEF Makes, Resting
  <2>2. ~Makes(t, Late)'
    BY <1>2 DEF Makes
  <2> QED
    BY <1>1, <1>2, <2>1, <2>2, OwedInvStays
<1> QED
  BY <1>3, <1>4, <1>5, Ended

\* In the middle of a bulk change everything is in flight.
LEMMA MiddleInFlight ==
    ASSUME NEW u \in DrainThreads, MacroType, Makes(u, Middle)
    PROVE  InFlight(u) = Managed
<1>1. doing[u] \in Seq(MacroSteps) /\ doing[u] # <<>> /\ Head(doing[u]).do \in Middle
  BY DEF MacroType, Calls, Makes
<1>2. Head(doing[u]) = doing[u][1] /\ 1 \in DOMAIN doing[u]
  BY <1>1, HeadTailProperties, LenProperties
<1>3. Head(doing[u]) \in Range(doing[u])
  BY <1>2 DEF Range
<1>4. \E s \in Range(doing[u]) : s.do \notin {"begin", "write", "listen", "stage", "end"}
  BY <1>1, <1>3 DEF Middle
<1> QED
  BY <1>4 DEF InFlight

\* A call of one parameter or of the macro.
LEMMA HostEnters ==
    ASSUME MacroInv, NEW t \in DrainThreads, NEW steps \in Hosting, NEW writes,
           EnterCall(t, steps, writes, FALSE), steps # <<>>, Head(steps).do \notin Late \union Middle,
           \A p \in Managed \ writes : steps \in Sparing(t, p)
    PROVE  MacroInv'
<1>1. /\ Resting(t) /\ doing' = [doing EXCEPT ![t] = steps] /\ touched' = touched \union writes
      /\ UNCHANGED <<macro, value, mask, bits, reengage, armed, restoring, stands>>
  BY DEF EnterCall, surface, pending, latches
<1>2. MacroType /\ CallStep(Other(t)) /\ steps \in Calls
  BY Begun DEF Hosting
<1>3. doing'[t] = steps /\ doing'[Other(t)] = doing[Other(t)]
  BY <1>1, <1>2, ThreadsAre DEF MacroType
<1>4. CallStep(t)'
  BY <1>3 DEF CallStep
<1>5. CallStep(Other(t))'
  <2>1. ASSUME NEW p \in Managed \ touched'  PROVE Undisturbed(Other(t), p)
    BY <1>1, <1>3, <2>1, ThreadsAre DEF Undisturbed
  <2> QED
    BY <1>2, <1>3, <2>1, OtherStays, ThreadsAre
<1>6. steps \notin Guarded(t)
  BY NotGuarded
<1> QED
  BY <1>1, <1>2, <1>4, <1>5, <1>6, StartKeeps

\* A bulk change.
LEMMA BulkEnters ==
    ASSUME MacroInv, NEW t \in DrainThreads, NEW steps \in Calls,
           EnterCall(t, steps, {}, TRUE), steps # <<>>, Head(steps).do \notin Late,
           steps \notin Guarded(t),
           (/\ doing'[t] = steps /\ touched' = InFlight(Other(t))
            /\ \A p \in Managed \ touched' : doing'[Other(t)] \in Sparing(Other(t), p)) => CallStep(t)'
    PROVE  MacroInv'
<1>1. /\ Resting(t) /\ doing' = [doing EXCEPT ![t] = steps] /\ touched' = InFlight(Other(t))
      /\ UNCHANGED <<macro, value, mask, bits, reengage, armed, restoring, stands>>
  BY DEF EnterCall, surface, pending, latches
<1>2. MacroType /\ CallStep(Other(t))
  BY Begun
<1>3. doing'[t] = steps /\ doing'[Other(t)] = doing[Other(t)]
  BY <1>1, <1>2, ThreadsAre DEF MacroType
<1>4. CallStep(t)'
  <2>1. ASSUME NEW p \in Managed \ touched'  PROVE doing'[Other(t)] \in Sparing(Other(t), p)
    BY <1>1, <1>2, <1>3, <2>1, NotInFlight, ThreadsAre
  <2> QED
    BY <1>1, <1>3, <2>1
<1>5. CallStep(Other(t))'
  <2>1. ASSUME NEW p \in Managed \ touched', Makes(Other(t), Middle)  PROVE FALSE
    BY <1>1, <1>2, <2>1, MiddleInFlight, ThreadsAre
  <2> QED
    BY <1>2, <1>3, <2>1, OtherStays, ThreadsAre
<1> QED
  BY <1>1, <1>4, <1>5, StartKeeps

LEMMA HostCallKeeps ==
    ASSUME MacroInv, NEW t \in DrainThreads,
           \/ \E p \in Managed : Drag(t, p) \/ Automate(t, p)
           \/ MacroGesture(t) \/ \E m \in Positions : MacroMove(t, m)
    PROVE  MacroInv'
<1>1. ASSUME NEW p \in Managed, Drag(t, p)  PROVE MacroInv'
  <2> DEFINE s == DragSteps(p, Hand)
  <2>1. s \in Beginning(p)
    BY HostCalls
  <2>2. s # <<>> /\ Head(s).do = "begin"
    BY <2>1, HostHeads
  <2>3. s \in Hosting
    BY <2>1, HostingIs
  <2>4. \A r \in Managed \ {p} : s \in Sparing(t, r)
    BY <2>1, SparingIs
  <2>5. EnterCall(t, s, {p}, FALSE)
    BY <1>1 DEF Drag
  <2> HIDE DEF s
  <2> QED
    BY <2>2, <2>3, <2>4, <2>5, HostEnters DEF Late, Middle
<1>2. ASSUME NEW p \in Managed, Automate(t, p)  PROVE MacroInv'
  <2> DEFINE s == AutomateSteps(p, Hand)
  <2>1. s \in Writing(p)
    BY HostCalls
  <2>2. s # <<>> /\ Head(s).do = "write"
    BY <2>1, HostHeads
  <2>3. s \in Hosting
    BY <2>1, HostingIs
  <2>4. \A r \in Managed \ {p} : s \in Sparing(t, r)
    BY <2>1, SparingIs
  <2>5. EnterCall(t, s, {p}, FALSE)
    BY <1>2 DEF Automate
  <2> HIDE DEF s
  <2> QED
    BY <2>2, <2>3, <2>4, <2>5, HostEnters DEF Late, Middle
<1>3. CASE MacroGesture(t)
  <2>1. ReengageSteps \in Asking
    BY MacroCalls
  <2>2. ReengageSteps # <<>> /\ Head(ReengageSteps).do = "ask"
    BY <2>1, MacroHeads
  <2>3. ReengageSteps \in Hosting
    BY <2>1, HostingIs
  <2>4. EnterCall(t, ReengageSteps, Managed, FALSE)
    BY <1>3 DEF MacroGesture
  <2> QED
    BY <2>2, <2>3, <2>4, HostEnters DEF Late, Middle
<1>4. ASSUME NEW m \in Positions, MacroMove(t, m)  PROVE MacroInv'
  <2>1. MoveSteps(m) \in Moving(m)
    BY MacroCalls
  <2>2. MoveSteps(m) # <<>> /\ Head(MoveSteps(m)).do = "move"
    BY <2>1, MoveHeads
  <2>3. MoveSteps(m) \in Hosting
    BY <2>1, HostingIs
  <2>4. EnterCall(t, MoveSteps(m), Managed, FALSE)
    BY <1>4 DEF MacroMove
  <2> QED
    BY <2>2, <2>3, <2>4, HostEnters DEF Late, Middle
<1> QED
  BY <1>1, <1>2, <1>3, <1>4

LEMMA BulkCallKeeps ==
    ASSUME MacroInv,
           \/ \E t \in DrainThreads, c \in Slots : Restore(t, c)
           \/ ResetToMacro \/ \E m \in Positions : FactoryPreset(m)
    PROVE  MacroInv'
<1>r. ASSUME NEW t \in DrainThreads, NEW c \in States, NEW s \in Raising(t, c), EnterCall(t, s, {}, TRUE)
      PROVE  MacroInv'
  <2>1. s \in Calls /\ s # <<>> /\ Head(s).do = "raise"
    BY RestoreHeads
  <2>2. s \notin Guarded(t)
    BY <2>1, NotGuarded DEF Middle
  <2>3. ASSUME doing'[t] = s  PROVE CallStep(t)'
    <3>1. RestoreStep(t, c)'
      BY <2>3 DEF RestoreStep
    <3> QED
      BY <3>1 DEF CallStep
  <2>4. Head(s).do \notin Late
    BY <2>1 DEF Late
  <2> QED
    BY <1>r, <2>1, <2>2, <2>3, <2>4, BulkEnters
<1>1. ASSUME NEW t \in DrainThreads, NEW c \in Slots, Restore(t, c)  PROVE MacroInv'
  <2>1. c \in States
    BY DrainAssumption
  <2>2. RestoreSteps(c) \in Raising(t, c)
    BY <2>1, BulkCalls
  <2>3. EnterCall(t, RestoreSteps(c), {}, TRUE)
    BY <1>1 DEF Restore
  <2> QED
    BY <1>r, <2>1, <2>2, <2>3
<1>2. ASSUME NEW m \in Positions, FactoryPreset(m)  PROVE MacroInv'
  <2>1. PICK c \in States : FactorySteps(m) \in Raising("message", c)
    BY BulkCalls
  <2>2. EnterCall("message", FactorySteps(m), {}, TRUE) /\ "message" \in DrainThreads
    BY <1>2 DEF FactoryPreset, DrainThreads
  <2> QED
    BY <1>r, <2>1, <2>2
<1>3. CASE ResetToMacro
  <2>1. ResetSteps \in ResetBits
    BY ResetCalls
  <2>2. ResetSteps \in Calls /\ ResetSteps # <<>> /\ Head(ResetSteps).do = "drop bits"
    BY <2>1, ResetHeads
  <2>3. ResetSteps \notin Guarded("message")
    BY <2>1, ResetsAreNot
  <2>4. "message" \in DrainThreads /\ Other("message") = "other"
    BY DEF DrainThreads, Other
  <2>5. EnterCall("message", ResetSteps, {}, TRUE)
    BY <1>3 DEF ResetToMacro
  <2>6. ASSUME doing'["message"] = ResetSteps,
               \A p \in Managed \ touched' : doing'[Other("message")] \in Sparing(Other("message"), p)
        PROVE  CallStep("message")'
    <3>1. Resets(1)'
      BY <2>4, <2>6 DEF Resets
    <3>2. ResetStep'
      BY <2>1, <2>6, <3>1 DEF ResetStep
    <3> QED
      BY <3>2 DEF CallStep
  <2>7. Head(ResetSteps).do \notin Late
    BY <2>2 DEF Late
  <2> QED
    BY <2>2, <2>3, <2>4, <2>5, <2>6, <2>7, BulkEnters
<1> QED
  BY <1>1, <1>2, <1>3

LEMMA TickKeeps ==
    ASSUME MacroInv, Tick
    PROVE  MacroInv'
<1>1. /\ Resting("message") /\ restoring = 0 /\ doing' = [doing EXCEPT !["message"] = DrainSteps]
      /\ UNCHANGED <<macro, value, mask, bits, reengage, armed, restoring, stands, touched>>
  BY DEF Tick, MayDrain, surface, pending, latches
<1>2. "message" \in DrainThreads /\ Other("message") = "other" /\ "other" \in DrainThreads
      /\ Other("other") = "message"
  BY DEF DrainThreads, Other
<1>3. MacroType /\ CallStep("other") /\ GuardInv
  BY <1>2, Begun
<1>4. DrainSteps \in Bringing /\ DrainSteps \in Calls /\ DrainSteps # <<>> /\ Head(DrainSteps).do = "bits"
  <2>1. DrainSteps \in Bringing
    BY MacroCalls
  <2> QED
    BY <2>1, DrainHeads
<1>5. doing'["message"] = DrainSteps /\ doing'["other"] = doing["other"]
  BY <1>1, <1>2, <1>3 DEF MacroType
<1>6. CallStep("message")'
  BY <1>4, <1>5, DrainingIs DEF CallStep
<1>7. CallStep("other")'
  <2>1. ~Makes("other", Middle)
    BY <1>1, <1>3, OtherGuarded
  <2> QED
    BY <1>2, <1>3, <1>5, <2>1, OtherStays
<1>8. DrainSteps \notin Guarded("message") /\ Head(DrainSteps).do \notin Late
  BY <1>4, NotGuarded DEF Middle, Late
<1> QED
  BY <1>1, <1>2, <1>4, <1>6, <1>7, <1>8, StartKeeps

LEMMA StutterKeeps ==
    ASSUME MacroInv, UNCHANGED <<macro, value, mask, bits, reengage, armed, restoring, doing, stands, touched>>
    PROVE  MacroInv'
<1>1. MacroType'
  BY DEF MacroInv, MacroType
<1>2. ASSUME NEW u \in DrainThreads  PROVE CallStep(u)'
  <2>1. CallStep(u) /\ CallStep(Other(u))
    BY Begun
  <2>2. ASSUME NEW p \in Managed \ touched', p \notin touched => doing[Other(u)] \in Sparing(Other(u), p)
        PROVE  Undisturbed(u, p)
    BY <2>2 DEF Undisturbed
  <2> QED
    BY <2>1, <2>2, OtherStays
<1>3. GuardInv'
  BY DEF MacroInv, GuardInv, Guards
<1>4. OwedInv'
  BY DEF MacroInv, OwedInv, Changing, Owed, HandOwed, MacroOwed, CarriedOwed, Coming, Lands, Follows, Makes
<1> QED
  BY <1>1, <1>2, <1>3, <1>4 DEF MacroInv, CallInv

-----------------------------------------------------------------------------
LEMMA MacroInit ==
    ASSUME DrainInit
    PROVE  MacroInv
<1>1. /\ macro = Default /\ value = [p \in Managed |-> Default] /\ mask = {} /\ bits = {}
      /\ reengage = FALSE /\ armed = FALSE /\ restoring = 0
      /\ \A t \in DrainThreads : doing[t] = <<>>
      /\ doing = [t \in DrainThreads |-> <<>>]
      /\ stands = [p \in Managed |-> [by |-> "unknown"]]
  BY DEF DrainInit
<1>2. MacroType
  <2>1. Default \in Positions /\ Default \in Values
    BY DrainAssumption DEF Values
  <2>2. [by |-> "unknown"] \in Standings
    BY DEF Standings
  <2>3. doing \in [DrainThreads -> Calls]
    BY <1>1, OverIs
  <2> QED
    BY <1>1, <2>1, <2>2, <2>3 DEF MacroType
<1>3. CallInv
  BY <1>1, OverIs DEF CallInv, CallStep
<1>4. GuardInv
  <2>1. doing["message"] = <<>> /\ doing["other"] = <<>>
    BY <1>1 DEF DrainThreads
  <2> QED
    BY <1>1, <2>1, NotGuarded DEF GuardInv, Guards
<1>5. OwedInv
  BY <1>1 DEF OwedInv, Owed
<1> QED
  BY <1>2, <1>3, <1>4, <1>5 DEF MacroInv

LEMMA DrainStepKeeps ==
    ASSUME MacroInv, NEW t \in DrainThreads, DrainStep(t)
    PROVE  MacroInv'
<1>1. CASE BeginOrEnd(t) \/ HostWrite(t) \/ Listen(t) \/ Stage(t) \/ Soon(t)
  BY <1>1, BeginOrEndKeeps, HostWriteKeeps, ListenKeeps, StageKeeps, SoonKeeps
<1>2. CASE AskAll(t) \/ Arm(t) \/ ArmAll(t) \/ Move(t)
  BY <1>2, AskAllKeeps, ArmKeeps, ArmAllKeeps, MoveKeeps
<1>3. CASE TakeBits(t) \/ Clear(t) \/ TakeMapping(t) \/ LandCurve(t) \/ Landed(t) \/ Flush(t)
  BY <1>3, TakeBitsKeeps, ClearKeeps, TakeMappingKeeps, LandCurveKeeps, LandedKeeps, FlushKeeps
<1>4. CASE RaiseGuard(t) \/ Abort(t) \/ LowerGuard(t) \/ Adopt(t) \/ Replace(t)
  BY <1>4, RaiseGuardKeeps, AbortKeeps, LowerGuardKeeps, AdoptKeeps, ReplaceKeeps
<1> QED
  BY <1>1, <1>2, <1>3, <1>4 DEF DrainStep

\* How far the calls have come, what the bulk changes have brought about and
\* what the drain owes: inductive.
THEOREM MacroInvariantHolds == DrainSpec => []MacroInv
<1>1. DrainInit => MacroInv
  BY MacroInit
<1>2. MacroInv /\ [DrainNext]_drainVars => MacroInv'
  <2> SUFFICES ASSUME MacroInv, [DrainNext]_drainVars  PROVE MacroInv'
    OBVIOUS
  <2>1. CASE \E t \in DrainThreads, p \in Managed : Drag(t, p) \/ Automate(t, p)
    BY <2>1, HostCallKeeps
  <2>2. CASE \E t \in DrainThreads : MacroGesture(t) \/ (\E m \in Positions : MacroMove(t, m))
    BY <2>2, HostCallKeeps
  <2>3. CASE \/ \E t \in DrainThreads, c \in Slots : Restore(t, c)
             \/ ResetToMacro \/ (\E m \in Positions : FactoryPreset(m))
    BY <2>3, BulkCallKeeps
  <2>4. CASE Tick
    BY <2>4, TickKeeps
  <2>5. CASE StopDraining
    BY <2>5, StutterKeeps DEF StopDraining, surface, pending
  <2>6. CASE \E t \in DrainThreads : DrainStep(t)
    BY <2>6, DrainStepKeeps
  <2>7. CASE UNCHANGED drainVars
    BY <2>7, StutterKeeps DEF drainVars, surface, pending, latches
  <2> QED
    BY <2>1, <2>2, <2>3, <2>4, <2>5, <2>6, <2>7 DEF DrainNext
<1> QED
  BY <1>1, <1>2, PTL DEF DrainSpec

\* Settled, the drain owes nothing: what came last for a parameter has happened.
LEMMA NothingOwed ==
    ASSUME MacroInv
    PROVE  LastVerbStands
<1> SUFFICES ASSUME Settled, NEW p \in Managed  PROVE Settles(p)
  BY DEF LastVerbStands
<1>1. /\ \A t \in DrainThreads : doing[t] = <<>>
      /\ ~armed /\ ~reengage /\ bits = {}
  BY DEF Settled, Resting
<1>2. \A t \in DrainThreads : \A names : ~Makes(t, names)
  BY <1>1 DEF Makes
<1>3. ~Changing /\ ~Coming /\ ~Lands(p)
  BY <1>1, <1>2 DEF Changing, Coming, Lands, DrainThreads
<1>4. Owed(p)
  BY <1>3 DEF MacroInv, OwedInv
<1>5. stands[p].by = "hand" => value[p] = Hand /\ p \in mask
  BY <1>1, <1>4 DEF Owed, HandOwed
<1>6. stands[p].by = "macro" => value[p] = macro /\ p \notin mask
  BY <1>1, <1>3, <1>4 DEF Owed, MacroOwed, Follows
<1>7. stands[p].by = "carried" => value[p] = stands[p].v /\ ((p \in mask) = stands[p].detached)
  BY <1>4 DEF Owed, CarriedOwed
<1> QED
  BY <1>5, <1>6, <1>7 DEF Settles

\* Once the drain has caught up, every parameter stands as what came last for it
\* says: the user's edit, the macro, or the restore.
THEOREM TheLastVerbStands == DrainSpec => []LastVerbStands
<1>1. MacroInv => LastVerbStands
  BY NothingOwed
<1> QED
  BY <1>1, MacroInvariantHolds, PTL
=============================================================================
