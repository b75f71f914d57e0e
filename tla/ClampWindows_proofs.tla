------------------------ MODULE ClampWindows_proofs ------------------------
(***************************************************************************)
(* A frame leaves under the ceiling in force and with a gain that keeps    *)
(* what every segment reading it asked for, for any detector length,       *)
(* attack, reach and lead, any ceilings and any readings.                  *)
(***************************************************************************)
EXTENDS ClampWindows, FiniteSetTheorems, WellFoundedInduction, TLAPS

Floor    == Quiet - Max(Readings)     \* the least requirement there can be
Gains    == Floor .. 0
Ceilings == [0 .. Delay -> Quiet .. 0]
Segments == [0 .. Hist - 1 -> [peak : Readings, req : Gains, entry : Gains]]

\* GainKeepsPromise of any gain, for the frame v + Taps - 1 steps old.
Keeps(cs, segs, g, v) ==
    /\ g <= Required(SegmentCeiling(cs, v + Lag - 1), segs[v + Lag - 1].peak)
    /\ \A u \in v + Lag - Reach .. v + Lag - 2 :
          g <= Required(Greatest(SegmentCeiling(cs, u),
                                 Lowest(cs, v + Taps - 1 - Lead, v + Taps - 1)),
                        segs[u].peak)
    /\ \A u \in v .. v + Taps - 1 : g <= segs[u].entry

\* A ceiling in flight is in force by the time its frame leaves, and where a
\* later frame has a lower one the glide's steepest descent does not pass under
\* it before then.
InForce(cs, l, t) ==
    \A a \in 0 .. Delay :
       /\ cs[a] <= l
       /\ cs[a] <= Glided(l, t, Delay - a)
       /\ \A b \in 0 .. a - 1 : cs[b] < cs[a] => cs[a] <= l - (Delay - a)

GlideInv ==
    /\ live \in Quiet .. 0 /\ target \in Levels
    /\ primed \in BOOLEAN /\ emitted \in BOOLEAN /\ (emitted => primed)
    /\ ceilings \in Ceilings
    /\ primed => InForce(ceilings, live, target)

\* A revised requirement is that of the ceiling now in force.
Reqs(cs, segs) ==
    /\ \A u \in 0 .. Hist - 1 : segs[u].req <= segs[u].entry
    /\ \A u \in 0 .. Delay - Lag :
          segs[u].req = Required(SegmentCeiling(cs, u), segs[u].peak)

SegmentInv ==
    /\ segments \in Segments
    /\ ~primed => segments = Unread
    /\ Reqs(ceilings, segments)

\* The windows count what they hold, and the first holds the requirements.
WindowInv ==
    /\ requirement = Counted([u \in 0 .. Taps - 1 |-> segments[u].req])
    /\ need = Counted(need.at) /\ need.at \in [0 .. Attack - 1 -> Gains]
    /\ forwardMin = Counted(forwardMin.at) /\ forwardMin.at \in [0 .. Attack - 1 -> Gains]

\* Every gain planned for a frame still to be emitted keeps its promise.
Planned(cs, segs, nd, fwd) ==
    \A v \in 0 .. Attack - 2 :
       /\ Keeps(cs, segs, nd[v], v)
       /\ \A w \in 0 .. v : Keeps(cs, segs, fwd[w], v)

PlanInv ==
    /\ Planned(ceilings, segments, need.at, forwardMin.at)
    /\ gain \in Int
    /\ emitted => Keeps(ceilings, segments, gain, Attack - 1)

ClampInv == GlideInv /\ SegmentInv /\ WindowInv /\ PlanInv

-----------------------------------------------------------------------------
(* Least elements.                                                         *)

LEMMA LeastNatural ==
    ASSUME NEW T, T \subseteq Nat, T # {}
    PROVE  \E x \in T : \A y \in T : x <= y
<1>1. PICK x \in T : \A y \in T : ~ (<<y, x>> \in OpToRel(<, Nat))
  BY WFMin, NatLessThanWellFounded
<1>2. ASSUME NEW y \in T, y < x PROVE FALSE
  <2>1. <<y, x>> \in Nat \X Nat
    OBVIOUS
  <2>2. <<y, x>> \in OpToRel(<, Nat)
    BY <1>2, <2>1 DEF OpToRel
  <2> QED
    BY <1>1, <2>2
<1> QED
  BY <1>2

LEMMA LeastInteger ==
    ASSUME NEW S, S \subseteq Int, S # {}, NEW b \in Int, \A s \in S : b <= s
    PROVE  \E m \in S : \A s \in S : m <= s
<1> DEFINE T == {s - b : s \in S}
<1>1. T \subseteq Nat
  <2> SUFFICES ASSUME NEW s \in S PROVE s - b \in Nat
    OBVIOUS
  <2> QED
    OBVIOUS
<1>2. T # {}
  OBVIOUS
<1>3. PICK x \in T : \A y \in T : x <= y
  <2> HIDE DEF T
  <2> QED
    BY <1>1, <1>2, LeastNatural
<1>4. PICK m \in S : x = m - b
  BY <1>3
<1>5. \A s \in S : m <= s
  <2> TAKE s \in S
  <2>1. s - b \in T
    OBVIOUS
  <2> QED
    BY <1>3, <1>4, <2>1
<1> QED
  BY <1>5

LEMMA MinIs ==
    ASSUME NEW S, S \subseteq Int, S # {}, NEW b \in Int, \A s \in S : b <= s
    PROVE  Min(S) \in S /\ \A s \in S : Min(S) <= s
BY LeastInteger DEF Min

LEMMA MaxIs ==
    ASSUME NEW S, S \subseteq Int, S # {}, NEW b \in Int, \A s \in S : s <= b
    PROVE  Max(S) \in S /\ \A s \in S : s <= Max(S)
<1> DEFINE T == {-s : s \in S}
<1>1. T \subseteq Int
  <2> SUFFICES ASSUME NEW s \in S PROVE -s \in Int
    OBVIOUS
  <2> QED
    OBVIOUS
<1>2. T # {}
  OBVIOUS
<1>3. PICK x \in T : \A y \in T : x <= y
  <2>1. \A t \in T : -b <= t
    <3> SUFFICES ASSUME NEW s \in S PROVE -b <= -s
      OBVIOUS
    <3>1. s \in Int /\ s <= b
      OBVIOUS
    <3> QED
      BY <3>1
  <2>2. -b \in Int
    OBVIOUS
  <2> HIDE DEF T
  <2> QED
    BY <1>1, <1>2, <2>1, <2>2, LeastInteger
<1>4. PICK m \in S : x = -m
  BY <1>3
<1>5. \A s \in S : m >= s
  <2> TAKE s \in S
  <2>1. -s \in T
    OBVIOUS
  <2> QED
    BY <1>3, <1>4, <2>1
<1> QED
  BY <1>5 DEF Max

\* A finite set of integers has bounds: there is no least cardinality of one
\* that has none.
LEMMA FiniteIsBounded ==
    ASSUME NEW S, S \subseteq Int, IsFiniteSet(S)
    PROVE  \E b \in Int : \A s \in S : -b <= s /\ s <= b
<1> DEFINE Bounded(U) == \E b \in Int : \A s \in U : -b <= s /\ s <= b
           Bad == {n \in Nat : \E U \in SUBSET S : Cardinality(U) = n /\ ~Bounded(U)}
<1> SUFFICES ASSUME ~Bounded(S) PROVE FALSE
  OBVIOUS
<1>1. Cardinality(S) \in Bad
  BY FS_CardinalityType
<1>2. PICK n \in Bad : \A k \in Bad : n <= k
  <2>1. Bad \subseteq Nat /\ Bad # {}
    BY <1>1
  <2> HIDE DEF Bad
  <2> QED
    BY <2>1, LeastNatural
<1>3. PICK U \in SUBSET S : Cardinality(U) = n /\ ~Bounded(U)
  BY <1>2
<1>4. PICK x \in U : TRUE
  <2>1. U # {}
    <3>1. ASSUME U = {} PROVE Bounded(U)
      <4> WITNESS 0 \in Int
      <4> QED
        BY <3>1
    <3> QED
      BY <1>3, <3>1
  <2> QED
    BY <2>1
<1> DEFINE V == U \ {x}
<1>5. Cardinality(V) = n - 1 /\ Cardinality(V) \in Nat
  <2>1. IsFiniteSet(U)
    BY FS_Subset
  <2>2. IsFiniteSet(V) /\ Cardinality(V) = n - 1
    BY <1>3, <2>1, FS_RemoveElement
  <2> QED
    BY <2>2, FS_CardinalityType
<1>6. Bounded(V)
  <2>1. ASSUME ~Bounded(V) PROVE n - 1 \in Bad
    BY <1>5, <2>1
  <2>2. n \in Nat /\ ~(n <= n - 1)
    BY <1>2
  <2> QED
    BY <1>2, <2>1, <2>2
<1>7. PICK b \in Int : \A s \in V : -b <= s /\ s <= b
  BY <1>6
<1>8. x \in Int
  OBVIOUS
<1>9. \E c \in Int : b <= c /\ -x <= c /\ x <= c
  <2> DEFINE c == IF b >= x /\ b >= -x THEN b ELSE IF x >= 0 THEN x ELSE -x
  <2>1. c \in Int /\ b <= c /\ -x <= c /\ x <= c
    BY <1>8
  <2> QED
    BY <2>1
<1>10. PICK c \in Int : b <= c /\ -x <= c /\ x <= c
  BY <1>9
<1>11. Bounded(U)
  <2>1. \A s \in U : -c <= s /\ s <= c
    BY <1>7, <1>8, <1>10
  <2> QED
    BY <2>1
<1> QED
  BY <1>3, <1>11

-----------------------------------------------------------------------------
(* The sizes and the levels.                                               *)

LEMMA Sizes ==
    /\ Lag \in Nat \ {0} /\ Taps = 2 * Lag /\ Taps \in Nat
    /\ Attack \in Nat /\ Attack >= 2
    /\ Delay = Attack + Taps - 2 /\ Delay \in Nat
    /\ Hist = 2 * Attack + Taps /\ Hist \in Nat
    /\ Reach \in 1 .. Lag /\ Lead \in 0 .. Lag - 1
<1>1. /\ Taps \in Nat /\ Taps % 2 = 0 /\ Attack \in Nat /\ Attack >= 2
      /\ Reach \in 1 .. Lag /\ Lead \in 0 .. Lag - 1
  BY ClampAssumption
<1>2. Lag \in Nat /\ Taps = 2 * Lag
  BY <1>1 DEF Lag
<1>3. Lag # 0
  BY <1>1, <1>2
<1> QED
  BY <1>1, <1>2, <1>3 DEF Delay, Hist

LEMMA LevelsAre ==
    /\ Quiet \in Int /\ Quiet <= 0 /\ Quiet \in Levels
    /\ \A l \in Levels : l \in Quiet .. 0
    /\ Quiet \in Readings
    /\ Max(Readings) \in Int /\ \A p \in Readings : p \in Int /\ p <= Max(Readings)
    /\ Floor \in Int /\ Floor <= 0
<1>1. Quiet \in Levels /\ \A l \in Levels : Quiet <= l
  <2>1. Levels \subseteq Int /\ Levels # {} /\ IsFiniteSet(Levels)
    BY ClampAssumption
  <2>2. PICK b \in Int : \A l \in Levels : -b <= l /\ l <= b
    BY <2>1, FiniteIsBounded
  <2>3. -b \in Int
    OBVIOUS
  <2> QED
    BY <2>1, <2>2, <2>3, MinIs DEF Quiet
<1>2. Max(Readings) \in Readings /\ \A p \in Readings : p <= Max(Readings)
  <2>1. Readings \subseteq Int /\ Readings # {} /\ IsFiniteSet(Readings)
    BY ClampAssumption
  <2>2. PICK b \in Int : \A p \in Readings : -b <= p /\ p <= b
    BY <2>1, FiniteIsBounded
  <2> QED
    BY <2>1, <2>2, MaxIs
<1>3. /\ Levels \subseteq Int /\ (\A l \in Levels : l <= 0)
      /\ Readings \subseteq Int /\ Quiet \in Readings
  BY ClampAssumption
<1>4. Quiet \in Int /\ Quiet <= 0 /\ Max(Readings) \in Int /\ Quiet <= Max(Readings)
  BY <1>1, <1>2, <1>3
<1>5. Floor \in Int /\ Floor <= 0
  BY <1>4 DEF Floor
<1>6. \A l \in Levels : l \in Quiet .. 0
  BY <1>1, <1>3, <1>4
<1> QED
  BY <1>1, <1>2, <1>3, <1>4, <1>5, <1>6

LEMMA RequiredIs ==
    ASSUME NEW c \in Quiet .. 0, NEW p \in Readings
    PROVE  /\ Required(c, p) \in Gains
           /\ Required(c, Quiet) = 0
           /\ \A d \in Quiet .. 0 : c <= d => Required(c, p) <= Required(d, p)
<1> DEFINE top == Max(Readings)
<1>1. p \in Int /\ p <= top /\ top \in Int /\ Quiet \in Int /\ Quiet <= top
  BY LevelsAre
<1>2. Floor = Quiet - top
  BY DEF Floor
<1> HIDE DEF top
<1>3. c \in Int /\ Quiet <= c /\ c <= 0
  BY <1>1
<1>4. Required(c, p) \in Gains
  BY <1>1, <1>2, <1>3 DEF Required, Least, Gains
<1>5. Required(c, Quiet) = 0
  BY <1>1, <1>3 DEF Required, Least
<1>6. ASSUME NEW d \in Quiet .. 0, c <= d PROVE Required(c, p) <= Required(d, p)
  BY <1>1, <1>3, <1>6 DEF Required, Least
<1> QED
  BY <1>4, <1>5, <1>6

LEMMA LowestIs ==
    ASSUME NEW from \in Int, NEW to \in Int, from <= to, NEW ring, NEW b \in Int,
           \A i \in from .. to : ring[i] \in b .. 0
    PROVE  /\ Lowest(ring, from, to) \in b .. 0
           /\ \A i \in from .. to : Lowest(ring, from, to) <= ring[i]
           /\ \E i \in from .. to : Lowest(ring, from, to) = ring[i]
<1> DEFINE S == {ring[i] : i \in from .. to}
<1>1. S \subseteq Int /\ \A s \in S : b <= s
  OBVIOUS
<1>2. S # {}
  <2>1. from \in from .. to
    OBVIOUS
  <2> QED
    BY <2>1
<1>3. Min(S) \in S /\ \A s \in S : Min(S) <= s
  <2> HIDE DEF S
  <2> QED
    BY <1>1, <1>2, MinIs
<1>4. Lowest(ring, from, to) = Min(S)
  BY DEF Lowest
<1> HIDE DEF Min
<1> QED
  BY <1>3, <1>4

\* Two stretches that read the same have the same lowest.
LEMMA SameLowest ==
    ASSUME NEW r1, NEW r2, NEW from \in Int, NEW to \in Int,
           \A i \in from .. to : r2[i + 1] = r1[i]
    PROVE  Lowest(r2, from + 1, to + 1) = Lowest(r1, from, to)
<1>1. {r2[i] : i \in from + 1 .. to + 1} = {r1[i] : i \in from .. to}
  <2>1. ASSUME NEW i \in from + 1 .. to + 1 PROVE \E j \in from .. to : r2[i] = r1[j]
    <3>1. i - 1 \in from .. to /\ (i - 1) + 1 = i
      OBVIOUS
    <3> QED
      BY <3>1
  <2>2. ASSUME NEW j \in from .. to PROVE \E i \in from + 1 .. to + 1 : r1[j] = r2[i]
    <3>1. j + 1 \in from + 1 .. to + 1
      OBVIOUS
    <3> QED
      BY <3>1
  <2> QED
    BY <2>1, <2>2
<1> QED
  BY <1>1 DEF Lowest

LEMMA SegmentCeilingIs ==
    ASSUME NEW cs \in Ceilings, NEW u \in 0 .. Delay - Lag
    PROVE  /\ SegmentCeiling(cs, u) \in Quiet .. 0
           /\ Lag + u \in 0 .. Delay /\ Lag + u - 1 \in 0 .. Delay
           /\ SegmentCeiling(cs, u) <= cs[Lag + u]
           /\ SegmentCeiling(cs, u) <= cs[Lag + u - 1]
           /\ SegmentCeiling(cs, u) \in {cs[Lag + u], cs[Lag + u - 1]}
<1>1. Lag + u \in 0 .. Delay /\ Lag + u - 1 \in 0 .. Delay
  BY Sizes
<1>2. cs[Lag + u] \in Quiet .. 0 /\ cs[Lag + u - 1] \in Quiet .. 0
  BY <1>1 DEF Ceilings
<1> QED
  BY <1>1, <1>2, LevelsAre DEF SegmentCeiling, Least

-----------------------------------------------------------------------------
(* The counted windows.                                                    *)

Under(f) == {i \in DOMAIN f : f[i] < 0}

LEMMA UnderIs ==
    ASSUME NEW n \in Nat \ {0}, NEW f \in [0 .. n - 1 -> Int]
    PROVE  /\ IsFiniteSet(DOMAIN f) /\ Cardinality(DOMAIN f) = n
           /\ IsFiniteSet(Under(f))
           /\ Counted(f) = [at |-> f, below |-> Cardinality(Under(f))]
<1>1. DOMAIN f = 0 .. n - 1 /\ 0 \in Int /\ n - 1 \in Int
  OBVIOUS
<1>2. IsFiniteSet(0 .. n - 1) /\ Cardinality(0 .. n - 1) = n
  BY <1>1, FS_Interval
<1>3. Under(f) \in SUBSET (0 .. n - 1)
  BY DEF Under
<1>4. IsFiniteSet(Under(f))
  BY <1>2, <1>3, FS_Subset
<1> QED
  BY <1>1, <1>2, <1>4 DEF Counted, Under

LEMMA PushedIs ==
    ASSUME NEW n \in Nat \ {0}, NEW f \in [0 .. n - 1 -> Int], NEW x \in Int
    PROVE  /\ Shifted(f, x) \in [0 .. n - 1 -> Int]
           /\ Pushed(Counted(f), x) = Counted(Shifted(f, x))
<1> DEFINE g == Shifted(f, x)
           A == Under(f)
           B == Under(g)
<1>1. /\ g = [i \in 0 .. n - 1 |-> IF i = 0 THEN x ELSE f[i - 1]]
      /\ g \in [0 .. n - 1 -> Int]
      /\ g[0] = x /\ \A i \in 1 .. n - 1 : g[i] = f[i - 1]
  BY DEF Shifted
<1> HIDE DEF g
<1>2. /\ \A i : i \in A <=> i \in 0 .. n - 1 /\ f[i] < 0
      /\ \A i : i \in B <=> i \in 0 .. n - 1 /\ g[i] < 0
  BY <1>1 DEF Under
<1>3. /\ IsFiniteSet(A) /\ IsFiniteSet(B)
      /\ Counted(f) = [at |-> f, below |-> Cardinality(A)]
      /\ Counted(g) = [at |-> g, below |-> Cardinality(B)]
      /\ Cardinality(DOMAIN f) = n
  BY <1>1, UnderIs
<1> HIDE DEF A, B
<1>4. ExistsBijection(A \ {n - 1}, B \ {0})
  <2> DEFINE step == [i \in A \ {n - 1} |-> i + 1]
  <2>1. step \in [A \ {n - 1} -> B \ {0}]
    <3> SUFFICES ASSUME NEW i \in A \ {n - 1} PROVE i + 1 \in B \ {0}
      OBVIOUS
    <3>1. i \in 0 .. n - 2 /\ f[i] < 0
      BY <1>2
    <3>2. i + 1 \in 1 .. n - 1 /\ (i + 1) - 1 = i
      BY <3>1
    <3>3. g[i + 1] = f[i]
      BY <1>1, <3>2
    <3>4. i + 1 \in B /\ i + 1 # 0
      BY <1>2, <3>1, <3>2, <3>3
    <3> QED
      BY <3>4
  <2>2. \A i, j \in A \ {n - 1} : step[i] = step[j] => i = j
    BY <1>2
  <2>3. \A k \in B \ {0} : \E i \in A \ {n - 1} : step[i] = k
    <3> TAKE k \in B \ {0}
    <3>1. k \in 1 .. n - 1 /\ f[k - 1] < 0
      <4>1. k \in 0 .. n - 1 /\ g[k] < 0 /\ k # 0
        BY <1>2
      <4>2. k \in 1 .. n - 1
        BY <4>1
      <4> QED
        BY <1>1, <4>1, <4>2
    <3>2. k - 1 \in A \ {n - 1} /\ (k - 1) + 1 = k
      BY <1>2, <3>1
    <3> QED
      BY <3>2
  <2>4. step \in Bijection(A \ {n - 1}, B \ {0})
    <3>1. DOMAIN step = A \ {n - 1}
      OBVIOUS
    <3> HIDE DEF step
    <3> QED
      BY <2>1, <2>2, <2>3, <3>1
         DEF Bijection, Injection, Surjection, IsInjective
  <2> QED
    BY <2>4 DEF ExistsBijection
<1>5. Cardinality(A \ {n - 1}) = Cardinality(B \ {0})
  <2>1. IsFiniteSet(A \ {n - 1})
    BY <1>3, FS_RemoveElement
  <2> QED
    BY <1>4, <2>1, FS_Bijection
<1>6. /\ Cardinality(A) \in Nat /\ Cardinality(B) \in Nat
      /\ Cardinality(A \ {n - 1}) = Cardinality(A) - One(f[n - 1])
      /\ Cardinality(B \ {0}) = Cardinality(B) - One(x)
  <2>1. (n - 1 \in A <=> f[n - 1] < 0) /\ (0 \in B <=> x < 0)
    <3>1. n - 1 \in 0 .. n - 1 /\ 0 \in 0 .. n - 1
      OBVIOUS
    <3> QED
      BY <1>1, <1>2, <3>1
  <2>2. Cardinality(A) \in Nat /\ Cardinality(B) \in Nat
    BY <1>3, FS_CardinalityType
  <2>3. Cardinality(A \ {n - 1}) = IF n - 1 \in A THEN Cardinality(A) - 1 ELSE Cardinality(A)
    BY <1>3, FS_RemoveElement
  <2>4. Cardinality(B \ {0}) = IF 0 \in B THEN Cardinality(B) - 1 ELSE Cardinality(B)
    BY <1>3, FS_RemoveElement
  <2> QED
    BY <2>1, <2>2, <2>3, <2>4 DEF One
<1>7. One(x) \in Int /\ One(f[n - 1]) \in Int
  BY DEF One
<1>8. Cardinality(B) = Cardinality(A) + One(x) - One(f[n - 1])
  <2> DEFINE a == Cardinality(A)
             b == Cardinality(B)
             dx == One(x)
             df == One(f[n - 1])
  <2>1. a \in Nat /\ b \in Nat /\ dx \in Int /\ df \in Int
    BY <1>6, <1>7
  <2>2. a - df = b - dx
    BY <1>5, <1>6
  <2> HIDE DEF a, b, dx, df
  <2>3. b = a + dx - df
    BY <2>1, <2>2
  <2> QED
    BY <2>3 DEF a, b, dx, df
<1>9. Counted(f).at = f /\ Counted(f).below = Cardinality(A)
  BY <1>3
<1>10. Pushed(Counted(f), x)
         = [at |-> g, below |-> Cardinality(A) + One(x) - One(f[n - 1])]
  BY <1>3, <1>9 DEF Pushed, g
<1> QED
  BY <1>1, <1>3, <1>8, <1>10 DEF g

LEMMA ShiftedGains ==
    ASSUME NEW n \in Nat \ {0}, NEW f \in [0 .. n - 1 -> Gains], NEW x \in Gains
    PROVE  /\ Shifted(f, x) \in [0 .. n - 1 -> Gains]
           /\ Pushed(Counted(f), x) = Counted(Shifted(f, x))
           /\ Shifted(f, x)[0] = x
           /\ \A i \in 1 .. n - 1 : Shifted(f, x)[i] = f[i - 1]
<1>1. Gains \subseteq Int
  BY DEF Gains
<1>2. f \in [0 .. n - 1 -> Int] /\ x \in Int
  BY <1>1
<1>3. Pushed(Counted(f), x) = Counted(Shifted(f, x))
  BY <1>2, PushedIs
<1> QED
  BY <1>3 DEF Shifted

\* Without an entry under unity the answer is unity, and so is every entry.
LEMMA AnswerIs ==
    ASSUME NEW n \in Nat \ {0}, NEW f \in [0 .. n - 1 -> Gains]
    PROVE  /\ Answer(Counted(f)) \in Gains
           /\ \A i \in 0 .. n - 1 : Answer(Counted(f)) <= f[i]
           /\ Counted(f).at = f
           /\ Counted(f).below = 0 => \A i \in 0 .. n - 1 : f[i] = 0
<1>1. Gains \subseteq Int /\ 0 \in Gains /\ Floor \in Int
  BY LevelsAre DEF Gains
<1>2. f \in [0 .. n - 1 -> Int]
  BY <1>1
<1>3. /\ IsFiniteSet(Under(f)) /\ Cardinality(DOMAIN f) = n
      /\ Counted(f) = [at |-> f, below |-> Cardinality(Under(f))]
  BY <1>2, UnderIs
<1>4. Counted(f).at = f /\ Counted(f).below = Cardinality(Under(f))
  BY <1>3
<1>5. ASSUME Counted(f).below = 0, NEW i \in 0 .. n - 1 PROVE f[i] = 0
  <2>1. Under(f) = {}
    BY <1>3, <1>4, <1>5, FS_EmptySet
  <2>2. ~(f[i] < 0) /\ f[i] \in Gains
    BY <2>1 DEF Under
  <2> QED
    BY <1>1, <2>2 DEF Gains
<1>6. CASE Counted(f).below = 0
  BY <1>1, <1>4, <1>5, <1>6 DEF Answer
<1>7. CASE Counted(f).below # 0
  <2>1. Answer(Counted(f)) = Lowest(f, 0, n - 1)
    BY <1>3, <1>4, <1>7 DEF Answer
  <2>2. \A i \in 0 .. n - 1 : f[i] \in Floor .. 0
    BY DEF Gains
  <2>3. Lowest(f, 0, n - 1) \in Floor .. 0 /\ \A i \in 0 .. n - 1 : Lowest(f, 0, n - 1) <= f[i]
    <3>1. 0 \in Int /\ n - 1 \in Int /\ 0 <= n - 1
      OBVIOUS
    <3> QED
      BY <1>1, <2>2, <3>1, LowestIs
  <2> QED
    BY <1>4, <1>7, <2>1, <2>3 DEF Gains
<1> QED
  BY <1>4, <1>5, <1>6, <1>7

-----------------------------------------------------------------------------
(* What a gain promises, while its frame ages.                             *)

SegmentRecords == [peak : Readings, req : Gains, entry : Gains]

LEMMA ShiftedRing ==
    ASSUME NEW n \in Nat, NEW f, DOMAIN f = 0 .. n, NEW x
    PROVE  /\ Shifted(f, x)[0] = x
           /\ \A i \in 0 .. n - 1 : Shifted(f, x)[i + 1] = f[i]
<1>1. \A i \in 0 .. n - 1 : i + 1 \in 0 .. n /\ i + 1 # 0 /\ (i + 1) - 1 = i
  OBVIOUS
<1>2. \A i \in 0 .. n : i # 0 => i - 1 \in 0 .. n
  OBVIOUS
<1> QED
  BY <1>1, <1>2 DEF Shifted

\* The segments and ceilings that a frame not yet emitted reads.
LEMMA Reads ==
    ASSUME NEW v \in 0 .. Attack - 1
    PROVE  /\ v + Lag - 1 \in 0 .. Delay - Lag /\ v + Lag - 1 \in v .. v + Taps - 1
           /\ v .. v + Taps - 1 \subseteq 0 .. Hist - 1
           /\ v + Lag - Reach .. v + Lag - 2 \subseteq 0 .. Delay - Lag
           /\ v + Lag - Reach .. v + Lag - 2 \subseteq v .. v + Taps - 1
           /\ v + Taps - 1 - Lead .. v + Taps - 1 \subseteq 0 .. Delay
           /\ v + Taps - 1 - Lead <= v + Taps - 1
           /\ v + Taps - 1 - Lead \in Int /\ v + Taps - 1 \in Int
           /\ 0 .. Delay - Lag \subseteq 0 .. Hist - 1
BY Sizes

LEMMA Reached ==
    \A u \in 0 .. Delay - Lag : /\ u \in 0 .. Hist - 1
                               /\ Lag + u - 1 \in Lag + u - 1 .. Delay
                               /\ Lag + u \in Lag + u - 1 .. Delay
BY Sizes

LEMMA AheadIs ==
    ASSUME NEW cs \in Ceilings, NEW v \in 0 .. Attack - 1
    PROVE  /\ Lowest(cs, v + Taps - 1 - Lead, v + Taps - 1) \in Quiet .. 0
           /\ \A a \in v + Taps - 1 - Lead .. v + Taps - 1 :
                 Lowest(cs, v + Taps - 1 - Lead, v + Taps - 1) <= cs[a]
           /\ \E a \in v + Taps - 1 - Lead .. v + Taps - 1 :
                 Lowest(cs, v + Taps - 1 - Lead, v + Taps - 1) = cs[a]
<1> DEFINE from == v + Taps - 1 - Lead
           to   == v + Taps - 1
<1>1. from \in Int /\ to \in Int /\ from <= to /\ from .. to \subseteq 0 .. Delay
  BY Reads
<1>2. \A a \in from .. to : cs[a] \in Quiet .. 0
  BY <1>1 DEF Ceilings
<1>3. Quiet \in Int
  BY LevelsAre
<1> HIDE DEF from, to
<1>4. /\ Lowest(cs, from, to) \in Quiet .. 0
      /\ \A a \in from .. to : Lowest(cs, from, to) <= cs[a]
      /\ \E a \in from .. to : Lowest(cs, from, to) = cs[a]
  BY <1>1, <1>2, <1>3, LowestIs
<1> QED
  BY <1>4 DEF from, to

LEMMA GreatestIs ==
    ASSUME NEW c \in Quiet .. 0, NEW d \in Quiet .. 0
    PROVE  Greatest(c, d) \in Quiet .. 0 /\ c <= Greatest(c, d) /\ d <= Greatest(c, d)
           /\ (d <= c => Greatest(c, d) = c)
BY LevelsAre DEF Greatest

LEMMA KeepsLess ==
    ASSUME NEW cs \in Ceilings, NEW segs \in Segments, NEW v \in 0 .. Attack - 1,
           NEW g \in Int, NEW h \in Int, h <= g, Keeps(cs, segs, g, v)
    PROVE  Keeps(cs, segs, h, v)
<1>1. \A u \in 0 .. Hist - 1 : segs[u].entry \in Int /\ segs[u].peak \in Readings
  BY DEF Segments, Gains
<1>2. h <= Required(SegmentCeiling(cs, v + Lag - 1), segs[v + Lag - 1].peak)
  <2>1. Required(SegmentCeiling(cs, v + Lag - 1), segs[v + Lag - 1].peak) \in Int
    BY <1>1, Reads, SegmentCeilingIs, RequiredIs DEF Gains
  <2> QED
    BY <2>1 DEF Keeps
<1>3. ASSUME NEW u \in v + Lag - Reach .. v + Lag - 2
      PROVE  h <= Required(Greatest(SegmentCeiling(cs, u),
                                    Lowest(cs, v + Taps - 1 - Lead, v + Taps - 1)),
                           segs[u].peak)
  <2>1. Required(Greatest(SegmentCeiling(cs, u),
                          Lowest(cs, v + Taps - 1 - Lead, v + Taps - 1)),
                 segs[u].peak) \in Int
    <3>1. u \in 0 .. Delay - Lag /\ segs[u].peak \in Readings
      BY <1>1, Reads
    <3>2. Greatest(SegmentCeiling(cs, u), Lowest(cs, v + Taps - 1 - Lead, v + Taps - 1))
            \in Quiet .. 0
      BY <3>1, SegmentCeilingIs, AheadIs, GreatestIs
    <3> QED
      BY <3>1, <3>2, RequiredIs DEF Gains
  <2>2. g <= Required(Greatest(SegmentCeiling(cs, u),
                               Lowest(cs, v + Taps - 1 - Lead, v + Taps - 1)),
                      segs[u].peak)
    BY DEF Keeps
  <2> QED
    BY <2>1, <2>2
<1>4. ASSUME NEW u \in v .. v + Taps - 1 PROVE h <= segs[u].entry
  <2>1. g <= segs[u].entry /\ segs[u].entry \in Int
    BY <1>1, Reads DEF Keeps
  <2> QED
    BY <2>1
<1> QED
  BY <1>2, <1>3, <1>4 DEF Keeps

\* As a frame ages what it reads ages with it.
LEMMA KeepsShifted ==
    ASSUME NEW cs \in Ceilings, NEW segs \in Segments, NEW c \in Quiet .. 0,
           NEW s \in SegmentRecords, NEW v \in 0 .. Attack - 2, NEW g,
           Keeps(cs, segs, g, v)
    PROVE  Keeps(Shifted(cs, c), Shifted(segs, s), g, v + 1)
<1> DEFINE cs2   == Shifted(cs, c)
           segs2 == Shifted(segs, s)
<1>1. \A i \in 0 .. Delay - 1 : cs2[i + 1] = cs[i]
  <2>1. Delay \in Nat /\ DOMAIN cs = 0 .. Delay
    BY Sizes DEF Ceilings
  <2> QED
    BY <2>1, ShiftedRing
<1>2. \A u \in 0 .. Hist - 2 : segs2[u + 1] = segs[u]
  <2> DEFINE n == Hist - 1
  <2>1. n \in Nat /\ n - 1 = Hist - 2 /\ DOMAIN segs = 0 .. n
    BY Sizes DEF Segments
  <2> HIDE DEF n
  <2>2. \A u \in 0 .. n - 1 : segs2[u + 1] = segs[u]
    BY <2>1, ShiftedRing
  <2> QED
    BY <2>1, <2>2
<1> HIDE DEF cs2, segs2
<1>3. \A u \in 0 .. Delay - Lag - 1 : SegmentCeiling(cs2, u + 1) = SegmentCeiling(cs, u)
  <2> TAKE u \in 0 .. Delay - Lag - 1
  <2>1. /\ Lag + u \in 0 .. Delay - 1 /\ Lag + u - 1 \in 0 .. Delay - 1
        /\ Lag + (u + 1) = (Lag + u) + 1 /\ Lag + (u + 1) - 1 = (Lag + u - 1) + 1
    BY Sizes
  <2>2. cs2[Lag + (u + 1)] = cs[Lag + u] /\ cs2[Lag + (u + 1) - 1] = cs[Lag + u - 1]
    BY <1>1, <2>1
  <2> QED
    BY <2>2 DEF SegmentCeiling
<1>4. Lowest(cs2, (v + 1) + Taps - 1 - Lead, (v + 1) + Taps - 1)
        = Lowest(cs, v + Taps - 1 - Lead, v + Taps - 1)
  <2>1. /\ (v + 1) + Taps - 1 - Lead = (v + Taps - 1 - Lead) + 1
        /\ (v + 1) + Taps - 1 = (v + Taps - 1) + 1
        /\ v + Taps - 1 - Lead \in Int /\ v + Taps - 1 \in Int
        /\ v + Taps - 1 - Lead .. v + Taps - 1 \subseteq 0 .. Delay - 1
    BY Sizes
  <2>2. \A i \in v + Taps - 1 - Lead .. v + Taps - 1 : cs2[i + 1] = cs[i]
    BY <1>1, <2>1
  <2> QED
    BY <2>1, <2>2, SameLowest
<1>5. g <= Required(SegmentCeiling(cs2, (v + 1) + Lag - 1), segs2[(v + 1) + Lag - 1].peak)
  <2>1. /\ (v + 1) + Lag - 1 = (v + Lag - 1) + 1 /\ v + Lag - 1 \in 0 .. Delay - Lag - 1
        /\ v + Lag - 1 \in 0 .. Hist - 2
    BY Sizes
  <2> QED
    BY <1>2, <1>3, <2>1 DEF Keeps
<1>6. ASSUME NEW u \in (v + 1) + Lag - Reach .. (v + 1) + Lag - 2
      PROVE  g <= Required(Greatest(SegmentCeiling(cs2, u),
                                    Lowest(cs2, (v + 1) + Taps - 1 - Lead,
                                           (v + 1) + Taps - 1)),
                           segs2[u].peak)
  <2>1. /\ u = (u - 1) + 1 /\ u - 1 \in v + Lag - Reach .. v + Lag - 2
        /\ u - 1 \in 0 .. Delay - Lag - 1 /\ u - 1 \in 0 .. Hist - 2
    BY Sizes
  <2>2. SegmentCeiling(cs2, u) = SegmentCeiling(cs, u - 1) /\ segs2[u] = segs[u - 1]
    BY <1>2, <1>3, <2>1
  <2> QED
    BY <1>4, <2>1, <2>2 DEF Keeps
<1>7. ASSUME NEW u \in v + 1 .. (v + 1) + Taps - 1 PROVE g <= segs2[u].entry
  <2>1. u = (u - 1) + 1 /\ u - 1 \in v .. v + Taps - 1 /\ u - 1 \in 0 .. Hist - 2
    BY Sizes
  <2> QED
    BY <1>2, <2>1 DEF Keeps
<1> QED
  BY <1>5, <1>6, <1>7 DEF Keeps, cs2, segs2

\* Nothing is promised to a frame read by segments that no ceiling limits.
LEMMA KeepsUnread ==
    ASSUME NEW cs \in Ceilings, NEW s \in SegmentRecords, NEW v \in 1 .. Attack - 1,
           NEW g \in Int, g <= 0
    PROVE  Keeps(cs, Shifted(Unread, s), g, v)
<1> DEFINE segs == Shifted(Unread, s)
<1>1. \A u \in 1 .. Hist - 1 : segs[u].peak = Quiet /\ segs[u].entry = 0
  BY Sizes DEF Unread, Shifted
<1> HIDE DEF segs
<1>2. v \in 0 .. Attack - 1
  OBVIOUS
<1>3. Quiet \in Readings
  BY LevelsAre
<1>4. \A c \in Quiet .. 0 : Required(c, Quiet) = 0
  BY <1>3, RequiredIs
<1>5. g <= Required(SegmentCeiling(cs, v + Lag - 1), segs[v + Lag - 1].peak)
  <2>1. v + Lag - 1 \in 0 .. Delay - Lag /\ v + Lag - 1 \in 1 .. Hist - 1
    BY Sizes
  <2>2. SegmentCeiling(cs, v + Lag - 1) \in Quiet .. 0
    BY <2>1, SegmentCeilingIs
  <2> QED
    BY <1>1, <1>4, <2>1, <2>2
<1>6. ASSUME NEW u \in v + Lag - Reach .. v + Lag - 2
      PROVE  g <= Required(Greatest(SegmentCeiling(cs, u),
                                    Lowest(cs, v + Taps - 1 - Lead, v + Taps - 1)),
                           segs[u].peak)
  <2>1. u \in 0 .. Delay - Lag /\ u \in 1 .. Hist - 1
    BY Sizes
  <2>2. Greatest(SegmentCeiling(cs, u), Lowest(cs, v + Taps - 1 - Lead, v + Taps - 1))
          \in Quiet .. 0
    BY <1>2, <2>1, SegmentCeilingIs, AheadIs, GreatestIs
  <2> QED
    BY <1>1, <1>4, <2>1, <2>2
<1>7. \A u \in v .. v + Taps - 1 : g <= segs[u].entry
  BY <1>1, Sizes
<1> QED
  BY <1>5, <1>6, <1>7 DEF Keeps, segs

\* A gain under every requirement of the segments that read a frame keeps its
\* promise.
LEMMA KeepsRequirements ==
    ASSUME NEW cs \in Ceilings, NEW segs \in Segments, Reqs(cs, segs),
           NEW v \in 0 .. Attack - 1, NEW g \in Int,
           \A u \in v .. v + Taps - 1 : g <= segs[u].req
    PROVE  Keeps(cs, segs, g, v)
<1>1. \A u \in 0 .. Hist - 1 : /\ segs[u].peak \in Readings /\ segs[u].req \in Int
                               /\ segs[u].entry \in Int /\ segs[u].req <= segs[u].entry
  BY DEF Segments, Gains, Reqs
<1>2. g <= Required(SegmentCeiling(cs, v + Lag - 1), segs[v + Lag - 1].peak)
  BY Reads DEF Reqs
<1>3. ASSUME NEW u \in v + Lag - Reach .. v + Lag - 2
      PROVE  g <= Required(Greatest(SegmentCeiling(cs, u),
                                    Lowest(cs, v + Taps - 1 - Lead, v + Taps - 1)),
                           segs[u].peak)
  <2> DEFINE S == SegmentCeiling(cs, u)
             M == Greatest(S, Lowest(cs, v + Taps - 1 - Lead, v + Taps - 1))
  <2>1. u \in 0 .. Delay - Lag /\ u \in v .. v + Taps - 1 /\ segs[u].peak \in Readings
    BY <1>1, Reads
  <2>2. S \in Quiet .. 0 /\ M \in Quiet .. 0 /\ S <= M
    BY <2>1, SegmentCeilingIs, AheadIs, GreatestIs
  <2> HIDE DEF S, M
  <2>3. /\ Required(S, segs[u].peak) \in Int /\ Required(M, segs[u].peak) \in Int
        /\ Required(S, segs[u].peak) <= Required(M, segs[u].peak)
    BY <2>1, <2>2, RequiredIs DEF Gains
  <2>4. g <= Required(S, segs[u].peak)
    BY <2>1 DEF Reqs, S
  <2>5. g <= Required(M, segs[u].peak)
    BY <2>3, <2>4
  <2> QED
    BY <2>5 DEF M, S
<1>4. ASSUME NEW u \in v .. v + Taps - 1 PROVE g <= segs[u].entry
  <2>1. u \in 0 .. Hist - 1 /\ g <= segs[u].req
    BY Reads
  <2> QED
    BY <1>1, <2>1
<1> QED
  BY <1>2, <1>3, <1>4 DEF Keeps

LEMMA PlayableKeeps ==
    ASSUME NEW cs \in Ceilings, NEW segs \in Segments, Reqs(cs, segs),
           NEW v \in 0 .. Attack - 2
    PROVE  Playable(cs, segs, v) \in Gains /\ Keeps(cs, segs, Playable(cs, segs, v), v)
<1> DEFINE ahead == Lowest(cs, v + Taps - 1 - Lead, v + Taps - 1)
           relaxed(u) == Required(Greatest(SegmentCeiling(cs, u), ahead), segs[u].peak)
           A == {segs[u].entry : u \in v .. v + Taps - 1}
           B == {segs[u].req : u \in v + Lag - 1 .. v + Lag - 1 + Reach}
           C == {relaxed(u) : u \in v + Lag - Reach .. v + Lag - 2}
           P == Playable(cs, segs, v)
<1>1. v \in 0 .. Attack - 1
  BY Sizes
<1>2. \A u \in 0 .. Hist - 1 : /\ segs[u].peak \in Readings /\ segs[u].req \in Gains
                               /\ segs[u].entry \in Gains
  BY DEF Segments
<1>3. A \subseteq Gains
  BY <1>1, <1>2, Reads
<1>4. B \subseteq Gains
  <2>1. v + Lag - 1 .. v + Lag - 1 + Reach \subseteq 0 .. Hist - 1
    BY Sizes
  <2> QED
    BY <1>2, <2>1
<1>5. C \subseteq Gains
  <2> SUFFICES ASSUME NEW u \in v + Lag - Reach .. v + Lag - 2 PROVE relaxed(u) \in Gains
    OBVIOUS
  <2>1. u \in 0 .. Delay - Lag /\ segs[u].peak \in Readings
    BY <1>1, <1>2, Reads
  <2>2. Greatest(SegmentCeiling(cs, u), ahead) \in Quiet .. 0
    BY <1>1, <2>1, SegmentCeilingIs, AheadIs, GreatestIs
  <2> QED
    BY <2>1, <2>2, RequiredIs
<1>6. segs[v + Lag - 1].req \in B
  <2>1. v + Lag - 1 \in v + Lag - 1 .. v + Lag - 1 + Reach
    BY Sizes
  <2> QED
    BY <2>1
<1>7. P = Min(A \cup B \cup C)
  BY DEF Playable
<1>8. (\A u \in v .. v + Taps - 1 : segs[u].entry \in A)
      /\ (\A u \in v + Lag - Reach .. v + Lag - 2 : relaxed(u) \in C)
  OBVIOUS
<1> HIDE DEF A, B, C, P
<1>9. P \in A \cup B \cup C /\ \A g \in A \cup B \cup C : P <= g
  <2>1. A \cup B \cup C \subseteq Int /\ A \cup B \cup C # {}
        /\ Floor \in Int /\ \A g \in A \cup B \cup C : Floor <= g
    BY <1>3, <1>4, <1>5, <1>6, LevelsAre DEF Gains
  <2> QED
    BY <1>7, <2>1, MinIs
<1>10. P \in Gains
  BY <1>3, <1>4, <1>5, <1>9
<1>11. P <= Required(SegmentCeiling(cs, v + Lag - 1), segs[v + Lag - 1].peak)
  <2>1. P <= segs[v + Lag - 1].req
    BY <1>6, <1>9
  <2> QED
    BY <1>1, <2>1, Reads DEF Reqs
<1>12. \A u \in v + Lag - Reach .. v + Lag - 2 : P <= relaxed(u)
  BY <1>8, <1>9
<1>13. \A u \in v .. v + Taps - 1 : P <= segs[u].entry
  BY <1>8, <1>9
<1> QED
  BY <1>10, <1>11, <1>12, <1>13 DEF Keeps, P

\* Ceilings that are lowered and revise no requirement leave every promise
\* standing, when no frame younger than a lowered one had a lower ceiling.
LEMMA KeepsUnrevised ==
    ASSUME NEW cs \in Ceilings, NEW cs2 \in Ceilings, NEW segs \in Segments,
           Reqs(cs, segs), Reqs(cs2, segs), NEW v \in 0 .. Attack - 1, NEW g \in Int,
           Keeps(cs, segs, g, v),
           \A a \in 0 .. Delay : cs2[a] # cs[a] => \A b \in 0 .. a - 1 : cs[a] <= cs[b]
    PROVE  Keeps(cs2, segs, g, v)
<1>1. g <= Required(SegmentCeiling(cs2, v + Lag - 1), segs[v + Lag - 1].peak)
  BY Reads DEF Keeps, Reqs
<1>2. ASSUME NEW u \in v + Lag - Reach .. v + Lag - 2
      PROVE  g <= Required(Greatest(SegmentCeiling(cs2, u),
                                    Lowest(cs2, v + Taps - 1 - Lead, v + Taps - 1)),
                           segs[u].peak)
  <2> DEFINE S  == SegmentCeiling(cs, u)
             S2 == SegmentCeiling(cs2, u)
             A  == Lowest(cs, v + Taps - 1 - Lead, v + Taps - 1)
             A2 == Lowest(cs2, v + Taps - 1 - Lead, v + Taps - 1)
             M  == Greatest(S, A)
             M2 == Greatest(S2, A2)
             p  == segs[u].peak
  <2>1. u \in 0 .. Delay - Lag /\ p \in Readings
    BY Reads DEF Segments
  <2>2. /\ S \in Quiet .. 0 /\ S2 \in Quiet .. 0 /\ A \in Quiet .. 0 /\ A2 \in Quiet .. 0
        /\ \E b \in {Lag + u, Lag + u - 1} : b \in 0 .. Delay /\ S = cs[b]
        /\ \A a \in v + Taps - 1 - Lead .. v + Taps - 1 : A <= cs[a]
        /\ \E a \in v + Taps - 1 - Lead .. v + Taps - 1 : A2 = cs2[a]
    BY <2>1, SegmentCeilingIs, AheadIs
  <2>3. Required(S, p) = Required(S2, p) /\ g <= Required(M, p)
    BY <2>1 DEF Reqs, Keeps
  <2> HIDE DEF S, S2, A, A2, p
  <2>4. M \in Quiet .. 0 /\ M2 \in Quiet .. 0 /\ S2 <= M2 /\ A2 <= M2 /\ Quiet \in Int
    BY <2>2, GreatestIs, LevelsAre
  <2>5. CASE A <= S
    <3>1. M = S
      BY <2>2, <2>5, GreatestIs
    <3>2. /\ Required(S2, p) \in Int /\ Required(M2, p) \in Int
          /\ Required(S2, p) <= Required(M2, p)
      BY <2>1, <2>2, <2>4, RequiredIs DEF Gains
    <3> QED
      BY <2>3, <3>1, <3>2 DEF S2, A2, p
  <2>6. CASE S < A
    <3>1. A <= A2
      <4> SUFFICES ASSUME A2 < A PROVE FALSE
        BY <2>2
      <4>1. PICK a \in v + Taps - 1 - Lead .. v + Taps - 1 : A2 = cs2[a]
        BY <2>2
      <4>2. PICK b \in {Lag + u, Lag + u - 1} : b \in 0 .. Delay /\ S = cs[b]
        BY <2>2
      <4>3. a \in 0 .. Delay /\ A <= cs[a] /\ cs[a] \in Quiet .. 0 /\ cs[b] \in Quiet .. 0
        BY <2>2, <4>1, <4>2, Reads DEF Ceilings
      <4>4. cs2[a] # cs[a]
        BY <2>2, <2>4, <4>1, <4>3
      <4>5. CASE b < a
        <5>1. b \in 0 .. a - 1
          BY <4>2, <4>3, <4>5
        <5>2. cs[a] <= cs[b]
          BY <4>3, <4>4, <5>1
        <5> QED
          BY <2>2, <2>4, <2>6, <4>2, <4>3, <5>2
      <4>6. CASE a <= b
        <5>1. b \in v + Taps - 1 - Lead .. v + Taps - 1
          BY <4>1, <4>2, <4>6, Sizes
        <5>2. A <= cs[b]
          BY <2>2, <5>1
        <5> QED
          BY <2>2, <2>4, <2>6, <4>2, <4>3, <5>2
      <4> QED
        BY <4>2, <4>3, <4>5, <4>6
    <3>2. M <= M2
      BY <2>2, <2>4, <2>6, <3>1 DEF Greatest
    <3>3. /\ Required(M, p) \in Int /\ Required(M2, p) \in Int
          /\ Required(M, p) <= Required(M2, p)
      BY <2>1, <2>4, <3>2, RequiredIs DEF Gains
    <3> QED
      BY <2>3, <3>3 DEF S2, A2, p
  <2> QED
    BY <2>2, <2>4, <2>5, <2>6
<1> QED
  BY <1>1, <1>2 DEF Keeps

-----------------------------------------------------------------------------
(* The glide.                                                              *)

LEMMA GlidedIs ==
    ASSUME NEW l \in Int, NEW t \in Int, NEW k \in Nat
    PROVE  /\ Glided(l, t, k) \in Int
           /\ Glided(l, t, 0) = l
           /\ l <= t => l <= Glided(l, t, k) /\ Glided(l, t, k) <= t
           /\ t < l => /\ t <= Glided(l, t, k) /\ Glided(l, t, k) <= l
                       /\ Glided(l, t, k) = l - k \/ Glided(l, t, k) = t
           /\ l - k <= Glided(l, t, k)
BY DEF Glided, Greatest, Least

LEMMA GlidesOn ==
    ASSUME NEW l \in Int, NEW t \in Int, NEW k \in Nat
    PROVE  Glided(Glided(l, t, 1), t, k) = Glided(l, t, k + 1)
BY DEF Glided, Greatest, Least

LEMMA GlidesFurther ==
    ASSUME NEW l \in Int, NEW t \in Int, NEW j \in Nat, NEW k \in Nat, j <= k
    PROVE  /\ l <= t => Glided(l, t, j) <= Glided(l, t, k)
           /\ t < l => Glided(l, t, k) <= Glided(l, t, j)
BY DEF Glided, Greatest, Least

\* What lowering the ceilings in flight does to them.
LEMMA Lowering ==
    ASSUME ceilings \in Ceilings, live \in Quiet .. 0, NEW t \in Quiet .. 0,
           InForce(ceilings, live, target)
    PROVE  /\ LoweredCeilings(t) \in Ceilings /\ InForce(LoweredCeilings(t), live, t)
           /\ \A a \in 0 .. Delay :
                 /\ LoweredCeilings(t)[a] <= ceilings[a]
                 /\ LoweredCeilings(t)[a] # ceilings[a] =>
                       \A b \in 0 .. a - 1 : ceilings[a] <= ceilings[b]
<1> DEFINE cs  == ceilings
           l   == live
           cs2 == LoweredCeilings(t)
<1> cs2 = [a \in 0 .. Delay |->
             IF a = Delay THEN cs[a] ELSE Least(cs[a], Glided(l, t, Delay - a))]
  BY DEF LoweredCeilings
<1> HIDE DEF cs2
<1>1. Quiet \in Int /\ Delay \in Nat /\ l \in Int /\ t \in Int
  BY LevelsAre, Sizes
<1>2. \A a \in 0 .. Delay :
         /\ cs[a] \in Quiet .. 0 /\ cs[a] <= l
         /\ Delay - a \in Nat /\ Glided(l, t, Delay - a) \in Int
         /\ \A b \in 0 .. a - 1 : b \in 0 .. Delay /\ (cs[b] < cs[a] => cs[a] <= l - (Delay - a))
  <2> TAKE a \in 0 .. Delay
  <2>1. cs[a] \in Quiet .. 0 /\ cs[a] <= l
    BY DEF Ceilings, InForce
  <2>2. Delay - a \in Nat
    BY <1>1
  <2>3. Glided(l, t, Delay - a) \in Int
    BY <1>1, <2>2, GlidedIs
  <2>4. \A b \in 0 .. a - 1 : cs[b] < cs[a] => cs[a] <= l - (Delay - a)
    BY DEF InForce
  <2>5. 0 .. a - 1 \subseteq 0 .. Delay
    BY <1>1
  <2> QED
    BY <2>1, <2>2, <2>3, <2>4, <2>5
<1>3. \A a \in 0 .. Delay :
         /\ cs2[a] \in Int /\ cs2[a] <= cs[a] /\ cs2[a] <= Glided(l, t, Delay - a)
         /\ cs2[a] = cs[a] \/ cs2[a] = Glided(l, t, Delay - a)
         /\ Quiet <= cs2[a]
  <2> TAKE a \in 0 .. Delay
  <2>1. CASE a = Delay
    <3>1. cs2[a] = cs[a] /\ Delay - a = 0
      BY <1>1, <2>1
    <3>2. Glided(l, t, 0) = l
      BY <1>1, GlidedIs
    <3> QED
      BY <1>1, <1>2, <3>1, <3>2
  <2>2. CASE a # Delay
    <3> DEFINE k == Delay - a
    <3>1. cs2[a] = Least(cs[a], Glided(l, t, k)) /\ k \in Nat
      BY <1>2, <2>2
    <3> HIDE DEF k
    <3>2. Glided(l, t, k) \in Int /\ (t <= Glided(l, t, k) \/ l <= Glided(l, t, k))
      BY <1>1, <3>1, GlidedIs
    <3>3. /\ cs2[a] \in Int /\ cs2[a] <= cs[a] /\ cs2[a] <= Glided(l, t, k)
          /\ cs2[a] = cs[a] \/ cs2[a] = Glided(l, t, k)
          /\ Quiet <= cs2[a]
      BY <1>1, <1>2, <3>1, <3>2 DEF Least
    <3> QED
      BY <3>3 DEF k
  <2> QED
    BY <2>1, <2>2
<1>4. cs2 \in Ceilings
  <2>1. \A a \in 0 .. Delay : cs2[a] \in Quiet .. 0
    <3> TAKE a \in 0 .. Delay
    <3> QED
      BY <1>1, <1>2, <1>3
  <2> QED
    BY <2>1 DEF Ceilings
<1>5. ASSUME NEW a \in 0 .. Delay, cs2[a] # cs[a], NEW b \in 0 .. a - 1
      PROVE  cs[a] <= cs[b]
  <2> DEFINE k == Delay - a
  <2>1. k \in Nat /\ Glided(l, t, k) < cs[a]
    BY <1>2, <1>3, <1>5
  <2>2. l - k <= Glided(l, t, k) /\ Glided(l, t, k) \in Int
    BY <1>1, <2>1, GlidedIs
  <2>3. /\ cs[a] \in Int /\ cs[b] \in Int
        /\ cs[b] < cs[a] => cs[a] <= l - k
    BY <1>1, <1>2
  <2> HIDE DEF k
  <2> QED
    BY <1>1, <2>1, <2>2, <2>3
<1>6. ASSUME NEW a \in 0 .. Delay, NEW b \in 0 .. a - 1, cs2[b] < cs2[a],
             ~ (cs2[a] <= l - (Delay - a))
      PROVE  FALSE
  <2> DEFINE k == Delay - a
             j == Delay - b
             G == Glided(l, t, k)
             H == Glided(l, t, j)
  <2>1. b \in 0 .. Delay /\ k \in Nat /\ j \in Nat /\ k < j
    BY <1>1
  <2>2. /\ cs[a] \in Int /\ cs[b] \in Int /\ cs2[a] \in Int /\ cs2[b] \in Int
        /\ cs2[a] <= cs[a] /\ cs2[a] <= G /\ ~ (cs2[a] <= l - k)
        /\ cs2[b] = cs[b] \/ cs2[b] = H
    <3>1. cs[a] \in Int /\ cs[b] \in Int
      BY <1>1, <1>2, <2>1
    <3>2. cs2[a] \in Int /\ cs2[a] <= cs[a] /\ cs2[a] <= G
      BY <1>3
    <3>3. cs2[b] \in Int /\ (cs2[b] = cs[b] \/ cs2[b] = H)
      BY <1>3, <2>1
    <3>4. ~ (cs2[a] <= l - k)
      BY <1>6
    <3> QED
      BY <3>1, <3>2, <3>3, <3>4
  <2>3. cs[b] < cs[a] => cs[a] <= l - k
    BY <1>2
  <2>4. G \in Int /\ (t < l => (G = l - k \/ G = t))
    BY <1>1, <2>1, GlidedIs
  <2>5. H \in Int /\ (t < l => t <= H)
    BY <1>1, <2>1, GlidedIs
  <2>6. l <= t => G <= H
    BY <1>1, <2>1, GlidesFurther
  <2> HIDE DEF k, j, G, H
  <2>7. cs2[b] = H
    BY <1>1, <1>6, <2>1, <2>2, <2>3
  <2> QED
    BY <1>1, <1>6, <2>1, <2>2, <2>4, <2>5, <2>6, <2>7
<1>7. InForce(cs2, l, t)
  <2>1. \A a \in 0 .. Delay : cs2[a] <= l
    <3> TAKE a \in 0 .. Delay
    <3> QED
      BY <1>1, <1>2, <1>3
  <2> QED
    BY <1>3, <1>6, <2>1 DEF InForce
<1> QED
  BY <1>3, <1>4, <1>5, <1>7 DEF cs2

\* A frame enters under the lower ends of the rest of the glide.
LEMMA Entering ==
    ASSUME NEW l \in Quiet .. 0, NEW t \in Quiet .. 0, NEW now, now = Glided(l, t, 1)
    PROVE  /\ now \in Quiet .. 0
           /\ EntryCeiling(now, t) \in Quiet .. 0
           /\ EntryCeiling(now, t) <= now
           /\ \A k \in 0 .. Delay : EntryCeiling(now, t) <= Glided(now, t, k)
           /\ l - 1 <= now
           /\ t < l => t <= now
           /\ l <= t => l <= now /\ now <= t
           /\ now <= t => EntryCeiling(now, t) = now
           /\ t < now => t <= EntryCeiling(now, t)
<1>1. Quiet \in Int /\ Delay \in Nat /\ l \in Int /\ t \in Int
  BY LevelsAre, Sizes
<1>2. /\ now \in Quiet .. 0 /\ l - 1 <= now /\ (t < l => t <= now)
      /\ (l <= t => l <= now /\ now <= t)
  BY <1>1 DEF Glided, Greatest, Least
<1> DEFINE e == EntryCeiling(now, t)
           G == Glided(now, t, Delay)
<1>3. /\ G \in Int /\ (now <= t => now <= G) /\ (t < now => t <= G /\ G <= now)
  BY <1>1, <1>2, GlidedIs
<1>4. e = Least(now, G)
  BY DEF EntryCeiling
<1> HIDE DEF e, G
<1>5. /\ e \in Quiet .. 0 /\ e <= now /\ e <= G
      /\ (now <= t => e = now) /\ (t < now => t <= e)
  BY <1>1, <1>2, <1>3, <1>4 DEF Least
<1>6. ASSUME NEW k \in 0 .. Delay PROVE e <= Glided(now, t, k)
  <2> DEFINE H == Glided(now, t, k)
  <2>1. k \in Nat /\ k <= Delay
    BY <1>1
  <2>2. H \in Int /\ (now <= t => now <= H)
    BY <1>1, <1>2, <2>1, GlidedIs
  <2>3. t < now => G <= H
    BY <1>1, <1>2, <2>1, GlidesFurther DEF G
  <2> HIDE DEF H
  <2>4. e <= H
    BY <1>1, <1>2, <1>3, <1>5, <2>2, <2>3
  <2> QED
    BY <2>4 DEF H
<1> QED
  BY <1>2, <1>5, <1>6 DEF e

Level(e) == [a \in 0 .. Delay |-> e]

LEMMA FirstInForce ==
    ASSUME NEW l \in Quiet .. 0, NEW t \in Quiet .. 0, NEW now, now = Glided(l, t, 1)
    PROVE  /\ Level(EntryCeiling(now, t)) \in Ceilings
           /\ InForce(Level(EntryCeiling(now, t)), now, t)
<1> DEFINE e  == EntryCeiling(now, t)
           cs == Level(e)
<1>1. Delay \in Nat /\ Quiet \in Int
  BY Sizes, LevelsAre
<1>2. /\ e \in Quiet .. 0 /\ e <= now
      /\ \A k \in 0 .. Delay : e <= Glided(now, t, k)
  BY Entering
<1>3. \A a \in 0 .. Delay : cs[a] = e
  BY DEF Level
<1>4. cs \in Ceilings
  BY <1>2 DEF Ceilings, Level
<1> HIDE DEF e, cs
<1>5. ASSUME NEW a \in 0 .. Delay
      PROVE  /\ cs[a] <= now /\ cs[a] <= Glided(now, t, Delay - a)
             /\ \A b \in 0 .. a - 1 : ~ (cs[b] < cs[a])
  <2>1. cs[a] = e /\ Delay - a \in 0 .. Delay
    BY <1>1, <1>3
  <2>2. \A b \in 0 .. a - 1 : cs[b] = e
    BY <1>1, <1>3
  <2>3. ~ (e < e)
    BY <1>1, <1>2
  <2>4. cs[a] <= now /\ cs[a] <= Glided(now, t, Delay - a)
    BY <1>2, <2>1
  <2>5. \A b \in 0 .. a - 1 : ~ (cs[b] < cs[a])
    BY <2>1, <2>2, <2>3
  <2> QED
    BY <2>4, <2>5
<1> QED
  BY <1>4, <1>5 DEF InForce, cs, e

LEMMA NextInForce ==
    ASSUME NEW l \in Quiet .. 0, NEW t \in Quiet .. 0, NEW now, now = Glided(l, t, 1),
           NEW old \in Ceilings, InForce(old, l, t),
           NEW cs, cs = Shifted(old, EntryCeiling(now, t))
    PROVE  cs \in Ceilings /\ InForce(cs, now, t)
<1> DEFINE e == EntryCeiling(now, t)
<1>1. Quiet \in Int /\ Delay \in Nat /\ l \in Int /\ t \in Int /\ now \in Int
      /\ now \in Quiet .. 0 /\ e \in Quiet .. 0 /\ e \in Int
  BY LevelsAre, Sizes, Entering
<1>2. /\ l - 1 <= now /\ (t < l => t <= now) /\ (l <= t => l <= now /\ now <= t)
      /\ (now <= t => e = now) /\ (t < now => t <= e)
  <2>1. l - 1 <= now
    BY Entering
  <2>2. t < l => t <= now
    BY Entering
  <2>3. l <= t => l <= now /\ now <= t
    BY Entering
  <2>4. now <= t => e = now
    BY Entering
  <2>5. t < now => t <= e
    BY Entering
  <2> QED
    BY <2>1, <2>2, <2>3, <2>4, <2>5
<1>3. e <= now /\ \A k \in 0 .. Delay : e <= Glided(now, t, k)
  BY Entering
<1>4. /\ cs[0] = e
      /\ \A i \in 0 .. Delay - 1 : cs[i + 1] = old[i]
      /\ DOMAIN old = 0 .. Delay
  BY <1>1, ShiftedRing DEF Ceilings
<1>5. cs \in Ceilings
  BY <1>1 DEF Shifted, Ceilings
<1> HIDE DEF e
<1>6. \A a \in 1 .. Delay : a - 1 \in 0 .. Delay /\ cs[a] = old[a - 1] /\ cs[a] \in Int
  <2> TAKE a \in 1 .. Delay
  <2>1. a - 1 \in 0 .. Delay - 1 /\ (a - 1) + 1 = a /\ a - 1 \in 0 .. Delay
    BY <1>1
  <2>2. old[a - 1] \in Quiet .. 0
    BY <2>1 DEF Ceilings
  <2> QED
    BY <1>1, <1>4, <2>1, <2>2
<1>7. ASSUME NEW a \in 1 .. Delay
      PROVE  /\ cs[a] <= now /\ cs[a] <= Glided(now, t, Delay - a)
             /\ \A b \in 0 .. a - 1 : cs[b] < cs[a] => cs[a] <= now - (Delay - a)
  <2> DEFINE k == Delay - a
             G == Glided(now, t, k)
             c == cs[a]
  <2>1. k \in Nat /\ Delay - (a - 1) = k + 1 /\ k + 1 \in Nat
    BY <1>1
  <2>2. c \in Int /\ c <= l /\ c <= G
    <3>1. c = old[a - 1] /\ a - 1 \in 0 .. Delay /\ c \in Int
      BY <1>6
    <3>2. c <= l /\ c <= Glided(l, t, k + 1)
      BY <2>1, <3>1 DEF InForce
    <3>3. Glided(l, t, k + 1) = G
      BY <1>1, <2>1, GlidesOn
    <3> QED
      BY <3>1, <3>2, <3>3
  <2>3. /\ G \in Int /\ (now <= t => now <= G /\ G <= t)
        /\ (t < now => t <= G /\ G <= now) /\ (t < now => G = now - k \/ G = t)
    BY <1>1, <2>1, GlidedIs
  <2>4. /\ l - 1 <= now /\ (t < l => t <= now) /\ (l <= t => l <= now /\ now <= t)
        /\ (now <= t => e = now) /\ (t < now => t <= e)
    BY <1>2
  <2> HIDE DEF k, G, c
  <2>5. c <= now
    BY <1>1, <2>2, <2>3, <2>4
  <2>6. e < c => c <= now - k
    BY <1>1, <2>1, <2>2, <2>3, <2>4, <2>5
  <2>7. ASSUME NEW b \in 1 .. a - 1, cs[b] < c PROVE c <= now - k
    <3>1. b \in 1 .. Delay /\ b - 1 \in 0 .. (a - 1) - 1
      BY <1>1
    <3>2. cs[b] = old[b - 1] /\ c = old[a - 1] /\ a - 1 \in 0 .. Delay
      BY <1>6, <3>1 DEF c
    <3>3. c <= l - (k + 1)
      BY <2>1, <2>7, <3>1, <3>2 DEF InForce
    <3> QED
      BY <1>1, <2>1, <2>2, <2>4, <3>3
  <2>8. \A b \in 0 .. a - 1 : cs[b] < c => c <= now - k
    <3> TAKE b \in 0 .. a - 1
    <3>1. b = 0 \/ b \in 1 .. a - 1
      OBVIOUS
    <3> QED
      BY <1>4, <2>6, <2>7, <3>1
  <2> QED
    BY <2>2, <2>5, <2>8 DEF k, G, c
<1>8. cs[0] <= now /\ cs[0] <= Glided(now, t, Delay - 0) /\ 0 .. 0 - 1 = {}
  <2>1. Delay \in 0 .. Delay /\ Delay - 0 = Delay
    BY <1>1
  <2> QED
    BY <1>4, <1>3, <2>1
<1>9. \A a \in 0 .. Delay : a = 0 \/ a \in 1 .. Delay
  BY <1>1
<1> QED
  BY <1>5, <1>7, <1>8, <1>9 DEF InForce

-----------------------------------------------------------------------------
(* The steps.                                                              *)

LEMMA FreshClamp ==
    /\ Unlimited \in Ceilings /\ Unread \in Segments /\ Reqs(Unlimited, Unread)
    /\ Unity(Taps) = Counted([u \in 0 .. Taps - 1 |-> Unread[u].req])
    /\ Unity(Attack) = Counted(Unity(Attack).at)
    /\ Unity(Attack).at \in [0 .. Attack - 1 -> Gains]
    /\ Planned(Unlimited, Unread, Unity(Attack).at, Unity(Attack).at)
<1>1. Unlimited \in Ceilings
  BY LevelsAre DEF Unlimited, Ceilings
<1>2. Quiet \in Readings /\ 0 \in Gains
  BY LevelsAre DEF Gains
<1>3. Unread \in Segments
  BY <1>2 DEF Unread, Segments
<1>4. \A u \in 0 .. Hist - 1 : Unread[u].peak = Quiet /\ Unread[u].req = 0 /\ Unread[u].entry = 0
  BY DEF Unread
<1>5. Reqs(Unlimited, Unread)
  <2>1. ASSUME NEW u \in 0 .. Delay - Lag
        PROVE  Unread[u].req = Required(SegmentCeiling(Unlimited, u), Unread[u].peak)
    <3>1. u \in 0 .. Hist - 1
      BY Sizes
    <3>2. SegmentCeiling(Unlimited, u) \in Quiet .. 0
      BY <1>1, SegmentCeilingIs
    <3> QED
      BY <1>2, <1>4, <3>1, <3>2, RequiredIs
  <2> QED
    BY <1>4, <2>1 DEF Reqs
<1>6. Unity(Taps) = Counted([u \in 0 .. Taps - 1 |-> Unread[u].req])
  <2>1. \A u \in 0 .. Taps - 1 : Unread[u].req = 0
    BY <1>4, Sizes
  <2>2. [u \in 0 .. Taps - 1 |-> Unread[u].req] = [i \in 0 .. Taps - 1 |-> 0]
    BY <2>1
  <2> QED
    BY <2>2 DEF Unity
<1>7. Unity(Attack).at = [i \in 0 .. Attack - 1 |-> 0]
  BY DEF Unity, Counted
<1>8. Unity(Attack) = Counted(Unity(Attack).at)
  BY <1>7 DEF Unity
<1>9. Unity(Attack).at \in [0 .. Attack - 1 -> Gains]
  BY <1>2, <1>7
<1>10. Planned(Unlimited, Unread, Unity(Attack).at, Unity(Attack).at)
  <2>1. ASSUME NEW v \in 0 .. Attack - 2 PROVE Keeps(Unlimited, Unread, 0, v)
    <3>1. v \in 0 .. Attack - 1
      BY Sizes
    <3>2. \A u \in v .. v + Taps - 1 : 0 <= Unread[u].req
      BY <1>4, <3>1, Reads
    <3> QED
      BY <1>1, <1>3, <1>5, <3>1, <3>2, KeepsRequirements
  <2>2. ASSUME NEW v \in 0 .. Attack - 2, NEW w \in 0 .. v
        PROVE  Unity(Attack).at[v] = 0 /\ Unity(Attack).at[w] = 0
    BY <1>7, Sizes
  <2>3. \A v \in 0 .. Attack - 2 : v \in 0 .. v
    BY Sizes
  <2> QED
    BY <2>1, <2>2, <2>3 DEF Planned
<1> QED
  BY <1>1, <1>3, <1>5, <1>6, <1>8, <1>9, <1>10

LEMMA ClampInitInv == ClampInit => ClampInv
<1> SUFFICES ASSUME ClampInit PROVE ClampInv
  OBVIOUS
<1>1. GlideInv
  BY LevelsAre, FreshClamp DEF ClampInit, GlideInv
<1>2. SegmentInv /\ WindowInv /\ PlanInv
  BY FreshClamp DEF ClampInit, SegmentInv, WindowInv, PlanInv
<1> QED
  BY <1>1, <1>2 DEF ClampInv

LEMMA ClearKeeps == ASSUME ClampInv, ClearWindows PROVE ClampInv'
<1>1. GlideInv'
  BY FreshClamp DEF ClearWindows, ClampInv, GlideInv
<1>2. SegmentInv' /\ WindowInv' /\ PlanInv'
  BY FreshClamp DEF ClearWindows, SegmentInv, WindowInv, PlanInv
<1> QED
  BY <1>1, <1>2 DEF ClampInv

\* The requirements once they are revised for the lowered ceilings.
LEMMA RevisedIs ==
    ASSUME ceilings \in Ceilings, segments \in Segments, Reqs(ceilings, segments),
           NEW cs2 \in Ceilings, \A a \in 0 .. Delay : cs2[a] <= ceilings[a]
    PROVE  Revised(cs2) \in Segments /\ Reqs(cs2, Revised(cs2))
<1> DEFINE cs    == ceilings
           old   == segments
           moved == MovedSegments(cs2)
           segs  == Revised(cs2)
<1> moved = {u \in 0 .. Delay - Lag : \E a \in Lag + u - 1 .. Delay : cs2[a] # cs[a]}
  BY DEF MovedSegments
<1> segs = [u \in 0 .. Hist - 1 |->
              IF u \in moved
              THEN [old[u] EXCEPT !.req = Least(@, Required(SegmentCeiling(cs2, u),
                                                           old[u].peak))]
              ELSE old[u]]
  BY DEF Revised
<1> HIDE DEF moved, segs
<1>1. \A u \in 0 .. Hist - 1 : /\ old[u] \in SegmentRecords
                               /\ old[u].peak \in Readings /\ old[u].req \in Gains
                               /\ old[u].entry \in Gains /\ old[u].req <= old[u].entry
  BY DEF Segments, SegmentRecords, Reqs
<1>2. Gains \subseteq Int
  BY DEF Gains
<1>3. \A u \in 0 .. Delay - Lag :
         /\ Required(SegmentCeiling(cs2, u), old[u].peak) \in Gains
         /\ Required(SegmentCeiling(cs2, u), old[u].peak) <= old[u].req
  <2> TAKE u \in 0 .. Delay - Lag
  <2>1. u \in 0 .. Hist - 1
    BY Reached
  <2>2. old[u].peak \in Readings /\ old[u].req = Required(SegmentCeiling(cs, u), old[u].peak)
    BY <1>1, <2>1 DEF Reqs
  <2>3. SegmentCeiling(cs, u) \in Quiet .. 0 /\ SegmentCeiling(cs2, u) \in Quiet .. 0
    BY SegmentCeilingIs
  <2>4. SegmentCeiling(cs2, u) <= SegmentCeiling(cs, u)
    <3>1. /\ Lag + u \in 0 .. Delay /\ Lag + u - 1 \in 0 .. Delay
      BY SegmentCeilingIs
    <3>2. /\ cs[Lag + u] \in Int /\ cs[Lag + u - 1] \in Int
          /\ cs2[Lag + u] \in Int /\ cs2[Lag + u - 1] \in Int
          /\ cs2[Lag + u] <= cs[Lag + u] /\ cs2[Lag + u - 1] <= cs[Lag + u - 1]
      BY <3>1, LevelsAre DEF Ceilings
    <3> QED
      BY <3>2 DEF SegmentCeiling, Least
  <2> QED
    BY <2>2, <2>3, <2>4, RequiredIs
<1>4. ASSUME NEW u \in 0 .. Hist - 1, u \in moved
      PROVE  /\ segs[u] \in SegmentRecords
             /\ segs[u].peak = old[u].peak /\ segs[u].entry = old[u].entry
             /\ segs[u].req = Required(SegmentCeiling(cs2, u), old[u].peak)
             /\ segs[u].req <= old[u].req
  <2> DEFINE r == Required(SegmentCeiling(cs2, u), old[u].peak)
  <2>1. u \in 0 .. Delay - Lag
    BY <1>4
  <2>2. r \in Gains /\ r <= old[u].req
    BY <1>3, <2>1
  <2>3. segs[u] = [old[u] EXCEPT !.req = Least(old[u].req, r)]
    BY <1>4
  <2> HIDE DEF r
  <2>4. Least(old[u].req, r) = r
    BY <1>1, <1>2, <2>2 DEF Least
  <2>5. segs[u] = [old[u] EXCEPT !.req = r]
    BY <2>3, <2>4
  <2>6. /\ segs[u] \in SegmentRecords /\ segs[u].req = r
        /\ segs[u].peak = old[u].peak /\ segs[u].entry = old[u].entry
    BY <1>1, <2>2, <2>5 DEF SegmentRecords
  <2> QED
    BY <2>2, <2>6 DEF r
<1>5. \A u \in 0 .. Hist - 1 : u \notin moved => segs[u] = old[u]
  OBVIOUS
<1>6. segs \in Segments
  <2>1. \A u \in 0 .. Hist - 1 : segs[u] \in SegmentRecords
    BY <1>1, <1>4, <1>5
  <2>2. segs = [u \in 0 .. Hist - 1 |-> segs[u]]
    OBVIOUS
  <2> QED
    BY <2>1, <2>2 DEF Segments, SegmentRecords
<1>7. ASSUME NEW u \in 0 .. Hist - 1 PROVE segs[u].req <= segs[u].entry
  <2>1. CASE u \in moved
    <3>1. /\ segs[u].req <= old[u].req /\ segs[u].entry = old[u].entry
          /\ segs[u].req \in Int
      BY <1>2, <1>4, <2>1 DEF SegmentRecords
    <3>2. old[u].req <= old[u].entry /\ old[u].req \in Int /\ old[u].entry \in Int
      BY <1>1, <1>2
    <3> QED
      BY <3>1, <3>2
  <2> QED
    BY <1>1, <1>5, <2>1
<1>8. ASSUME NEW u \in 0 .. Delay - Lag
      PROVE  segs[u].req = Required(SegmentCeiling(cs2, u), segs[u].peak)
  <2>1. u \in 0 .. Hist - 1
    BY Reached
  <2>2. CASE u \in moved
    BY <1>4, <2>1, <2>2
  <2>3. CASE u \notin moved
    <3>1. \A a \in Lag + u - 1 .. Delay : cs2[a] = cs[a]
      BY <2>3
    <3>2. Lag + u - 1 \in Lag + u - 1 .. Delay /\ Lag + u \in Lag + u - 1 .. Delay
      BY Reached
    <3>3. SegmentCeiling(cs2, u) = SegmentCeiling(cs, u)
      BY <3>1, <3>2 DEF SegmentCeiling
    <3> QED
      BY <1>5, <2>1, <2>3, <3>3 DEF Reqs
  <2> QED
    BY <2>2, <2>3
<1> QED
  BY <1>6, <1>7, <1>8 DEF Reqs, segs

\* The windows built anew hold what each frame in flight may play at.
LEMMA NeedsKeep ==
    ASSUME NEW cs \in Ceilings, NEW segs \in Segments, Reqs(cs, segs),
           NEW qq, qq = Needs(cs, segs),
           NEW nd, nd = [v \in 0 .. Attack - 1 |-> qq[v]],
           NEW fwd, fwd = [w \in 0 .. Attack - 1 |-> Lowest(qq, w, w + Attack - 1)]
    PROVE  /\ nd \in [0 .. Attack - 1 -> Gains] /\ fwd \in [0 .. Attack - 1 -> Gains]
           /\ Planned(cs, segs, nd, fwd)
<1>1. \A v \in 0 .. Attack - 2 : v \in 0 .. 2 * Attack - 2 /\ qq[v] = Playable(cs, segs, v)
  BY Sizes DEF Needs
<1>2. ASSUME NEW v \in 0 .. 2 * Attack - 2 PROVE qq[v] \in Gains
  <2>1. CASE v \in 0 .. Attack - 2
    BY <1>1, <2>1, PlayableKeeps
  <2>2. CASE v \notin 0 .. Attack - 2
    <3> DEFINE E == {segs[u].entry : u \in v .. v + Taps - 1}
    <3>1. qq[v] = Min(E)
      BY <2>2, Sizes DEF Needs
    <3>2. v .. v + Taps - 1 \subseteq 0 .. Hist - 1 /\ v \in v .. v + Taps - 1
      BY Sizes
    <3>3. E \subseteq Gains /\ E # {}
      BY <3>2 DEF Segments
    <3> HIDE DEF E
    <3>4. E \subseteq Int /\ Floor \in Int /\ \A g \in E : Floor <= g
      BY <3>3, LevelsAre DEF Gains
    <3> QED
      BY <3>1, <3>3, <3>4, MinIs
  <2> QED
    BY <2>1, <2>2
<1>3. nd \in [0 .. Attack - 1 -> Gains]
  <2>1. 0 .. Attack - 1 \subseteq 0 .. 2 * Attack - 2
    BY Sizes
  <2> QED
    BY <1>2, <2>1
<1>4. ASSUME NEW w \in 0 .. Attack - 1
      PROVE  /\ fwd[w] \in Gains
             /\ \A v \in w .. w + Attack - 1 : fwd[w] <= qq[v]
  <2>1. /\ w \in Int /\ w + Attack - 1 \in Int /\ w <= w + Attack - 1
        /\ w .. w + Attack - 1 \subseteq 0 .. 2 * Attack - 2
    BY Sizes
  <2>2. \A v \in w .. w + Attack - 1 : qq[v] \in Floor .. 0
    BY <1>2, <2>1 DEF Gains
  <2> DEFINE to == w + Attack - 1
  <2>3. fwd[w] = Lowest(qq, w, to) /\ Floor \in Int
    BY LevelsAre
  <2> HIDE DEF to
  <2>4. Lowest(qq, w, to) \in Floor .. 0 /\ \A v \in w .. to : Lowest(qq, w, to) <= qq[v]
    BY <2>1, <2>2, <2>3, LowestIs DEF to
  <2> QED
    BY <2>3, <2>4 DEF Gains, to
<1>5. ASSUME NEW v \in 0 .. Attack - 2
      PROVE  /\ Keeps(cs, segs, nd[v], v)
             /\ \A w \in 0 .. v : Keeps(cs, segs, fwd[w], v)
  <2>1. v \in 0 .. Attack - 1 /\ nd[v] = Playable(cs, segs, v) /\ qq[v] = nd[v]
    BY <1>1, Sizes
  <2>2. Keeps(cs, segs, nd[v], v) /\ nd[v] \in Int
    BY <2>1, PlayableKeeps DEF Gains
  <2>3. ASSUME NEW w \in 0 .. v PROVE Keeps(cs, segs, fwd[w], v)
    <3>1. w \in 0 .. Attack - 1 /\ v \in w .. w + Attack - 1
      BY Sizes
    <3>2. fwd[w] <= nd[v] /\ fwd[w] \in Int
      BY <1>4, <2>1, <3>1 DEF Gains
    <3> QED
      BY <2>1, <2>2, <3>2, KeepsLess
  <2> QED
    BY <2>2, <2>3
<1>6. fwd \in [0 .. Attack - 1 -> Gains]
  <2>1. \A w \in 0 .. Attack - 1 : fwd[w] \in Gains
    BY <1>4
  <2> QED
    BY <2>1
<1> QED
  BY <1>3, <1>5, <1>6 DEF Planned

LEMMA CountedAt == \A f : Counted(f).at = f
BY DEF Counted

LEMMA RetargetKeeps == ASSUME ClampInv, Retarget PROVE ClampInv'
<1>1. PICK t \in Levels :
         /\ target' = t
         /\ IF live # t /\ primed
            THEN LowerInFlight(t)
            ELSE UNCHANGED <<ceilings, segments, requirement, need, forwardMin>>
         /\ emitted' = FALSE
         /\ UNCHANGED <<live, gain, primed>>
  BY DEF Retarget
<1>2. t \in Quiet .. 0 /\ Quiet \in Int
  BY LevelsAre
<1>3. CASE ~ (live # t /\ primed)
  <2>1. UNCHANGED <<ceilings, segments, requirement, need, forwardMin>>
    BY <1>1, <1>3
  <2>2. primed => InForce(ceilings, live, t)
    <3> SUFFICES ASSUME primed PROVE InForce(ceilings, live, t)
      OBVIOUS
    <3>1. live = t
      BY <1>3
    <3>2. InForce(ceilings, live, target)
      BY DEF ClampInv, GlideInv
    <3>3. \A k \in Nat : live <= Glided(live, live, k)
      BY <1>2, <3>1, GlidedIs
    <3>4. \A a \in 0 .. Delay : Delay - a \in Nat
      BY Sizes
    <3>5. ASSUME NEW a \in 0 .. Delay PROVE ceilings[a] <= Glided(live, t, Delay - a)
      <4> DEFINE G == Glided(live, live, Delay - a)
      <4>1. live \in Int /\ ceilings[a] \in Int /\ ceilings[a] <= live
        BY <1>2, <3>1, <3>2 DEF ClampInv, GlideInv, Ceilings, InForce
      <4>2. live <= G /\ G \in Int
        BY <3>3, <3>4, <4>1, GlidedIs
      <4> HIDE DEF G
      <4>3. ceilings[a] <= G
        BY <4>1, <4>2
      <4> QED
        BY <3>1, <4>3 DEF G
    <3> QED
      BY <3>2, <3>5 DEF InForce
  <2>3. GlideInv'
    BY <1>1, <2>1, <2>2 DEF ClampInv, GlideInv
  <2>4. SegmentInv' /\ WindowInv' /\ PlanInv'
    BY <1>1, <2>1 DEF ClampInv, SegmentInv, WindowInv, PlanInv
  <2> QED
    BY <2>3, <2>4 DEF ClampInv
<1>4. CASE live # t /\ primed
  <2> DEFINE cs   == LoweredCeilings(t)
             segs == Revised(cs)
             qq   == Needs(cs, segs)
  <2>1. /\ ceilings' = cs /\ segments' = segs
        /\ IF segs = segments
           THEN UNCHANGED <<requirement, need, forwardMin>>
           ELSE /\ requirement' = Counted([u \in 0 .. Taps - 1 |-> segs[u].req])
                /\ need' = Counted([v \in 0 .. Attack - 1 |-> qq[v]])
                /\ forwardMin' = Counted([w \in 0 .. Attack - 1 |->
                                             Lowest(qq, w, w + Attack - 1)])
    BY <1>1, <1>4 DEF LowerInFlight
  <2>2. /\ ceilings \in Ceilings /\ live \in Quiet .. 0
        /\ InForce(ceilings, live, target)
        /\ segments \in Segments /\ Reqs(ceilings, segments)
    BY <1>4 DEF ClampInv, GlideInv, SegmentInv
  <2>3. /\ cs \in Ceilings /\ InForce(cs, live, t)
        /\ \A a \in 0 .. Delay :
              /\ cs[a] <= ceilings[a]
              /\ cs[a] # ceilings[a] => \A b \in 0 .. a - 1 : ceilings[a] <= ceilings[b]
    BY <1>2, <2>2, Lowering
  <2>4. segs \in Segments /\ Reqs(cs, segs)
    <3> HIDE DEF cs
    <3> QED
      BY <2>2, <2>3, RevisedIs
  <2> HIDE DEF cs, segs
  <2>5. GlideInv'
    BY <1>1, <1>4, <2>1, <2>3 DEF ClampInv, GlideInv
  <2>6. SegmentInv'
    BY <1>1, <1>4, <2>1, <2>4 DEF ClampInv, SegmentInv
  <2>7. CASE segs = segments
    <3>1. UNCHANGED <<segments, requirement, need, forwardMin>>
      BY <2>1, <2>7
    <3>2. WindowInv'
      BY <3>1 DEF ClampInv, WindowInv
    <3>3. ASSUME NEW v \in 0 .. Attack - 2, NEW g \in Int, Keeps(ceilings, segments, g, v)
          PROVE  Keeps(cs, segments, g, v)
      <4>1. v \in 0 .. Attack - 1
        BY Sizes
      <4> QED
        BY <2>2, <2>3, <2>4, <2>7, <3>3, <4>1, KeepsUnrevised
    <3>4. ASSUME NEW v \in 0 .. Attack - 2
          PROVE  /\ need.at[v] \in Int /\ \A w \in 0 .. v : forwardMin.at[w] \in Int
      <4>1. v \in 0 .. Attack - 1 /\ 0 .. v \subseteq 0 .. Attack - 1
        BY Sizes
      <4>2. /\ need.at \in [0 .. Attack - 1 -> Gains]
            /\ forwardMin.at \in [0 .. Attack - 1 -> Gains]
        BY DEF ClampInv, WindowInv
      <4>3. Gains \subseteq Int
        BY DEF Gains
      <4> QED
        BY <4>1, <4>2, <4>3
    <3>5. Planned(cs, segments, need.at, forwardMin.at)
      BY <3>3, <3>4 DEF ClampInv, PlanInv, Planned
    <3>6. PlanInv'
      BY <1>1, <2>1, <3>1, <3>5 DEF ClampInv, PlanInv
    <3> QED
      BY <2>5, <2>6, <3>2, <3>6 DEF ClampInv
  <2>8. CASE segs # segments
    <3> DEFINE nd  == [v \in 0 .. Attack - 1 |-> qq[v]]
               fwd == [w \in 0 .. Attack - 1 |-> Lowest(qq, w, w + Attack - 1)]
    <3>1. /\ requirement' = Counted([u \in 0 .. Taps - 1 |-> segs[u].req])
          /\ need' = Counted(nd) /\ forwardMin' = Counted(fwd)
      BY <2>1, <2>8
    <3>2. /\ nd \in [0 .. Attack - 1 -> Gains] /\ fwd \in [0 .. Attack - 1 -> Gains]
          /\ Planned(cs, segs, nd, fwd)
      BY <2>3, <2>4, NeedsKeep
    <3> HIDE DEF nd, fwd, qq
    <3>3. need'.at = nd /\ forwardMin'.at = fwd
      BY <3>1, CountedAt
    <3>4. WindowInv'
      BY <2>1, <3>1, <3>2, <3>3 DEF WindowInv
    <3>5. PlanInv'
      BY <1>1, <2>1, <3>2, <3>3 DEF ClampInv, PlanInv
    <3> QED
      BY <2>5, <2>6, <3>4, <3>5 DEF ClampInv
  <2> QED
    BY <2>7, <2>8
<1> QED
  BY <1>3, <1>4

\* The ceilings after a frame has entered under one of c.
Aged(cs, c) == cs = IF primed THEN Shifted(ceilings, c) ELSE Level(c)

Read(cs, p) == [peak  |-> p, req |-> Required(SegmentCeiling(cs, 0), p),
                entry |-> Required(SegmentCeiling(cs, 0), p)]

LEMMA FrameSegments ==
    ASSUME GlideInv, SegmentInv, NEW p \in Readings, NEW cs \in Ceilings,
           NEW c \in Quiet .. 0, Aged(cs, c)
    PROVE  /\ Read(cs, p) \in SegmentRecords
           /\ Shifted(segments, Read(cs, p)) \in Segments
           /\ Shifted(segments, Read(cs, p))[0] = Read(cs, p)
           /\ \A u \in 0 .. Hist - 2 : Shifted(segments, Read(cs, p))[u + 1] = segments[u]
           /\ Reqs(cs, Shifted(segments, Read(cs, p)))
<1> DEFINE rec  == Read(cs, p)
           segs == Shifted(segments, rec)
           n    == Hist - 1
<1>1. 0 \in 0 .. Delay - Lag /\ n \in Nat /\ n - 1 = Hist - 2
  BY Sizes
<1>2. rec \in SegmentRecords
  <2>1. SegmentCeiling(cs, 0) \in Quiet .. 0
    BY <1>1, SegmentCeilingIs
  <2> QED
    BY <2>1, RequiredIs DEF SegmentRecords, Read
<1>3. /\ segments \in [0 .. n -> SegmentRecords] /\ DOMAIN segments = 0 .. n
  BY DEF SegmentInv, Segments, SegmentRecords
<1>4. segs[0] = rec /\ \A u \in 0 .. n - 1 : segs[u + 1] = segments[u]
  <2> HIDE DEF rec, n
  <2> QED
    BY <1>1, <1>3, ShiftedRing
<1>6. rec.peak = p /\ rec.req = rec.entry /\ rec.req = Required(SegmentCeiling(cs, 0), p)
  BY DEF Read
<1> HIDE DEF rec, segs
<1>7. \A u \in 1 .. n : u - 1 \in 0 .. n - 1 /\ segs[u] = segments[u - 1]
  <2> TAKE u \in 1 .. n
  <2>1. u - 1 \in 0 .. n - 1 /\ (u - 1) + 1 = u
    BY <1>1
  <2> QED
    BY <1>4, <2>1
<1>5. segs \in Segments
  <2>1. ASSUME NEW u \in 0 .. n PROVE segs[u] \in SegmentRecords
    <3>1. u = 0 \/ u \in 1 .. n
      BY <1>1
    <3>2. CASE u = 0
      BY <1>2, <1>4, <3>2
    <3>3. CASE u \in 1 .. n
      <4>1. u - 1 \in 0 .. n
        BY <1>1, <3>3
      <4> QED
        BY <1>3, <1>7, <3>3, <4>1
    <3> QED
      BY <3>1, <3>2, <3>3
  <2>2. segs = [u \in 0 .. n |-> segs[u]]
    BY <1>3 DEF segs, Shifted
  <2>3. segs \in [0 .. n -> SegmentRecords]
    BY <2>1, <2>2
  <2> QED
    BY <2>3 DEF Segments, SegmentRecords
<1>8. ASSUME NEW u \in 0 .. n PROVE segs[u].req <= segs[u].entry
  <2>1. CASE u = 0
    <3>1. rec.req \in Int
      BY <1>2 DEF SegmentRecords, Gains
    <3>2. rec.entry = rec.req
      BY <1>6
    <3>3. rec.req <= rec.entry
      BY <3>1, <3>2
    <3>4. segs[u] = rec
      BY <1>4, <2>1
    <3> QED
      BY <3>3, <3>4
  <2>2. CASE u # 0
    <3>1. u \in 1 .. n /\ u - 1 \in 0 .. Hist - 1
      BY <1>1, <2>2
    <3>2. segments[u - 1].req <= segments[u - 1].entry
      BY <3>1 DEF SegmentInv, Reqs
    <3>3. segs[u] = segments[u - 1]
      BY <1>7, <3>1
    <3> QED
      BY <3>2, <3>3
  <2> QED
    BY <2>1, <2>2
<1>9. ASSUME NEW u \in 0 .. Delay - Lag
      PROVE  segs[u].req = Required(SegmentCeiling(cs, u), segs[u].peak)
  <2>1. CASE u = 0
    BY <1>4, <1>6, <2>1
  <2>2. CASE u # 0
    <3>1. u \in 1 .. n /\ u - 1 \in 0 .. Delay - Lag /\ u - 1 \in 0 .. Hist - 1
      BY <2>2, Sizes
    <3>2. segs[u] = segments[u - 1]
      BY <1>7, <3>1
    <3>3. CASE primed
      <4>1. cs = Shifted(ceilings, c) /\ DOMAIN ceilings = 0 .. Delay /\ Delay \in Nat
        BY <3>3, Sizes DEF Aged, GlideInv, Ceilings
      <4>2. \A i \in 0 .. Delay - 1 : cs[i + 1] = ceilings[i]
        BY <4>1, ShiftedRing
      <4>3. /\ Lag + (u - 1) \in 0 .. Delay - 1 /\ Lag + u = (Lag + (u - 1)) + 1
            /\ Lag + (u - 1) - 1 \in 0 .. Delay - 1
            /\ Lag + u - 1 = (Lag + (u - 1) - 1) + 1
        BY <3>1, Sizes
      <4>4. cs[Lag + u] = ceilings[Lag + (u - 1)] /\ cs[Lag + u - 1] = ceilings[Lag + (u - 1) - 1]
        BY <4>2, <4>3
      <4>5. SegmentCeiling(cs, u) = SegmentCeiling(ceilings, u - 1)
        BY <4>4 DEF SegmentCeiling
      <4> QED
        BY <3>1, <3>2, <4>5 DEF SegmentInv, Reqs
    <3>4. CASE ~primed
      <4>1. segs[u].req = 0 /\ segs[u].peak = Quiet
        BY <3>1, <3>2, <3>4 DEF SegmentInv, Unread
      <4>2. SegmentCeiling(cs, u) \in Quiet .. 0 /\ Quiet \in Readings
        BY SegmentCeilingIs, LevelsAre
      <4> QED
        BY <4>1, <4>2, RequiredIs
    <3> QED
      BY <3>3, <3>4
  <2> QED
    BY <2>1, <2>2
<1>10. Reqs(cs, segs)
  BY <1>8, <1>9 DEF Reqs
<1> QED
  BY <1>1, <1>2, <1>4, <1>5, <1>10 DEF segs, rec

LEMMA FrameKeeps ==
    ASSUME GlideInv, SegmentInv, NEW p \in Readings, NEW cs \in Ceilings,
           NEW c \in Quiet .. 0, Aged(cs, c),
           NEW v \in 0 .. Attack - 2, NEW g \in Gains, Keeps(ceilings, segments, g, v)
    PROVE  Keeps(cs, Shifted(segments, Read(cs, p)), g, v + 1)
<1>1. Read(cs, p) \in SegmentRecords
  BY FrameSegments
<1>2. CASE primed
  <2>1. cs = Shifted(ceilings, c) /\ ceilings \in Ceilings /\ segments \in Segments
    BY <1>2 DEF Aged, GlideInv, SegmentInv
  <2> QED
    BY <1>1, <2>1, KeepsShifted
<1>3. CASE ~primed
  <2>1. segments = Unread /\ v + 1 \in 1 .. Attack - 1 /\ g \in Int /\ g <= 0
    BY <1>3, Sizes, LevelsAre DEF SegmentInv, Gains
  <2> QED
    BY <1>1, <2>1, KeepsUnread
<1> QED
  BY <1>2, <1>3


\* The plan once a frame has entered: the newest need is under every
\* requirement, a window's minimum under every need in it, and what was planned
\* has aged with its frame.
LEMMA FramePlan ==
    ASSUME GlideInv, SegmentInv, PlanInv, NEW p \in Readings, NEW cs \in Ceilings,
           NEW c \in Quiet .. 0, Aged(cs, c),
           NEW segs, segs = Shifted(segments, Read(cs, p)),
           NEW nd0 \in [0 .. Attack - 1 -> Gains], need.at = nd0,
           NEW fw0 \in [0 .. Attack - 1 -> Gains], forwardMin.at = fw0,
           NEW q \in Gains, \A u \in 0 .. Taps - 1 : q <= segs[u].req,
           NEW nd \in [0 .. Attack - 1 -> Gains], nd[0] = q,
           \A v \in 1 .. Attack - 1 : nd[v] = nd0[v - 1],
           NEW fw \in [0 .. Attack - 1 -> Gains],
           \A v \in 0 .. Attack - 1 : fw[0] <= nd[v],
           \A w \in 1 .. Attack - 1 : fw[w] = fw0[w - 1],
           NEW v \in 0 .. Attack - 1
    PROVE  /\ Keeps(cs, segs, nd[v], v)
           /\ \A w \in 0 .. v : Keeps(cs, segs, fw[w], v)
<1>1. segs \in Segments /\ Reqs(cs, segs)
  BY FrameSegments
<1>2. Gains \subseteq Int /\ Attack \in Nat /\ Attack >= 2 /\ Taps \in Nat
  BY Sizes DEF Gains
<1>3. Planned(ceilings, segments, nd0, fw0)
  BY DEF PlanInv
<1>4. Keeps(cs, segs, nd[v], v)
  <2>1. CASE v = 0
    <3>1. q \in Int /\ \A u \in v .. v + Taps - 1 : q <= segs[u].req
      BY <1>2, <2>1
    <3> QED
      BY <1>1, <2>1, <3>1, KeepsRequirements
  <2>2. CASE v # 0
    <3>1. v - 1 \in 0 .. Attack - 2 /\ (v - 1) + 1 = v /\ v \in 1 .. Attack - 1
      BY <1>2, <2>2
    <3>2. nd[v] = nd0[v - 1] /\ nd[v] \in Gains
      BY <3>1
    <3>3. Keeps(ceilings, segments, nd[v], v - 1)
      BY <1>3, <3>1, <3>2 DEF Planned
    <3>4. Keeps(cs, segs, nd[v], (v - 1) + 1)
      BY <3>1, <3>2, <3>3, FrameKeeps
    <3> QED
      BY <3>1, <3>4
  <2> QED
    BY <2>1, <2>2
<1>5. ASSUME NEW w \in 0 .. v PROVE Keeps(cs, segs, fw[w], v)
  <2>1. CASE w = 0
    <3>1. fw[w] <= nd[v]
      BY <2>1
    <3>2. fw[w] \in Gains /\ nd[v] \in Gains
      BY <1>2
    <3>3. fw[w] \in Int /\ nd[v] \in Int
      BY <1>2, <3>2
    <3> QED
      BY <1>1, <1>4, <3>1, <3>3, KeepsLess
  <2>2. CASE w # 0
    <3>1. v - 1 \in 0 .. Attack - 2 /\ (v - 1) + 1 = v
          /\ w \in 1 .. Attack - 1 /\ w - 1 \in 0 .. v - 1
      BY <1>2, <2>2
    <3>2. fw[w] = fw0[w - 1] /\ fw[w] \in Gains
      BY <3>1
    <3>3. Keeps(ceilings, segments, fw[w], v - 1)
      BY <1>3, <3>1, <3>2 DEF Planned
    <3>4. Keeps(cs, segs, fw[w], (v - 1) + 1)
      BY <3>1, <3>2, <3>3, FrameKeeps
    <3> QED
      BY <3>1, <3>4
  <2> QED
    BY <2>1, <2>2
<1> QED
  BY <1>4, <1>5

\* No gain the hold permits is over every minimum in the window.
LEMMA TopIs ==
    ASSUME NEW fw \in [0 .. Attack - 1 -> Gains], NEW top,
           top = IF Counted(fw).below = 0 THEN 0
                 ELSE Max({fw[a] : a \in 0 .. Attack - 1})
    PROVE  \E w \in 0 .. Attack - 1 : top = fw[w]
<1>1. Attack \in Nat \ {0} /\ 0 \in 0 .. Attack - 1
  BY Sizes
<1>2. CASE Counted(fw).below = 0
  <2>1. fw[0] = 0
    BY <1>1, <1>2, AnswerIs
  <2> QED
    BY <1>1, <1>2, <2>1
<1>3. CASE Counted(fw).below # 0
  <2> DEFINE S == {fw[a] : a \in 0 .. Attack - 1}
  <2>1. S \subseteq Int /\ \A s \in S : s <= 0
    BY LevelsAre DEF Gains
  <2>2. S # {}
    BY <1>1
  <2>3. top = Max(S)
    BY <1>3
  <2> HIDE DEF S
  <2>4. 0 \in Int
    OBVIOUS
  <2>5. Max(S) \in S
    BY <2>1, <2>2, <2>4, MaxIs
  <2> QED
    BY <2>3, <2>5 DEF S
<1> QED
  BY <1>2, <1>3


\* The requirements in the window, once the newest is pushed, are those of the
\* segments.
LEMMA RequirementsFollow ==
    ASSUME SegmentInv, WindowInv, NEW rec \in SegmentRecords,
           NEW segs \in Segments, segs[0] = rec,
           \A u \in 0 .. Hist - 2 : segs[u + 1] = segments[u]
    PROVE  Pushed(requirement, rec.req) = Counted([u \in 0 .. Taps - 1 |-> segs[u].req])
<1> DEFINE f == [u \in 0 .. Taps - 1 |-> segments[u].req]
           g == [u \in 0 .. Taps - 1 |-> segs[u].req]
<1>1. Taps \in Nat \ {0} /\ 0 .. Taps - 1 \subseteq 0 .. Hist - 1 /\ Hist \in Nat
  BY Sizes
<1>2. \A u \in 0 .. Hist - 1 : segments[u].req \in Gains
  BY DEF SegmentInv, Segments
<1>3. f \in [0 .. Taps - 1 -> Gains] /\ requirement = Counted(f) /\ rec.req \in Gains
  BY <1>1, <1>2 DEF WindowInv, SegmentRecords
<1>4. ASSUME NEW u \in 0 .. Taps - 1 PROVE g[u] = Shifted(f, rec.req)[u]
  <2>1. CASE u = 0
    BY <1>3, <2>1 DEF Shifted
  <2>2. CASE u # 0
    <3>1. u - 1 \in 0 .. Taps - 1 /\ u - 1 \in 0 .. Hist - 2 /\ (u - 1) + 1 = u
      BY <1>1, <2>2
    <3>2. segs[u] = segments[u - 1]
      BY <3>1
    <3>3. Shifted(f, rec.req)[u] = f[u - 1]
      BY <1>3, <2>2 DEF Shifted
    <3> QED
      BY <3>1, <3>2, <3>3
  <2> QED
    BY <2>1, <2>2
<1> DEFINE h == Shifted(f, rec.req)
<1> HIDE DEF f
<1>5. h \in [0 .. Taps - 1 -> Gains] /\ Pushed(requirement, rec.req) = Counted(h)
  BY <1>1, <1>3, ShiftedGains
<1> HIDE DEF h
<1>6. g = h
  BY <1>4, <1>5 DEF h
<1> QED
  BY <1>5, <1>6

LEMMA FrameStepKeeps == ASSUME ClampInv, ProcessFrame PROVE ClampInv'
<1> USE DEF ClampInv
<1>1. PICK peak \in Readings :
        LET now    == Glided(live, target, 1)
            entry  == EntryCeiling(now, target)
            cs     == IF primed THEN Shifted(ceilings, entry)
                      ELSE [t \in 0 .. Delay |-> entry]
            r      == Required(SegmentCeiling(cs, 0), peak)
            newReq == Pushed(requirement, r)
            newNd  == Pushed(need, Answer(newReq))
            newFwd == Pushed(forwardMin, Answer(newNd))
            top    == IF newFwd.below = 0 THEN 0
                      ELSE Max({newFwd.at[a] : a \in 0 .. Attack - 1})
            low    == IF newFwd.below = 0 THEN 0
                      ELSE Lowest(newFwd.at, 0, Attack - 1)
        IN  /\ live' = now
            /\ ceilings' = cs
            /\ segments' = Shifted(segments, [peak |-> peak, req |-> r, entry |-> r])
            /\ requirement' = newReq
            /\ need' = newNd
            /\ forwardMin' = newFwd
            /\ gain' \in Least(gain, low) .. top
            /\ primed' = TRUE
            /\ emitted' = TRUE
            /\ UNCHANGED <<target, moves>>
  BY DEF ProcessFrame
<1> DEFINE now   == Glided(live, target, 1)
           entry == EntryCeiling(now, target)
           cs    == IF primed THEN Shifted(ceilings, entry) ELSE Level(entry)
           rec   == Read(cs, peak)
           segs  == Shifted(segments, rec)
<1>2. /\ live' = now /\ ceilings' = cs /\ segments' = segs
      /\ requirement' = Pushed(requirement, rec.req)
      /\ need' = Pushed(need, Answer(requirement'))
      /\ forwardMin' = Pushed(forwardMin, Answer(need'))
      /\ primed' = TRUE /\ emitted' = TRUE /\ target' = target
  BY <1>1 DEF Read, Level
<1>3. \E low : gain' \in Least(gain, low) ..
                 (IF forwardMin'.below = 0 THEN 0
                  ELSE Max({forwardMin'.at[a] : a \in 0 .. Attack - 1}))
  BY <1>1
<1>4. target \in Quiet .. 0 /\ live \in Quiet .. 0 /\ primed \in BOOLEAN
      /\ ceilings \in Ceilings /\ (primed => InForce(ceilings, live, target))
  BY LevelsAre DEF GlideInv
<1>5. now \in Quiet .. 0 /\ entry \in Quiet .. 0
  <2> HIDE DEF now
  <2>1. now = Glided(live, target, 1)
    BY DEF now
  <2> QED
    BY <1>4, <2>1, Entering
<1>6. cs \in Ceilings /\ InForce(cs, now, target)
  <2>1. CASE primed
    <3>1. now = Glided(live, target, 1) /\ cs = Shifted(ceilings, EntryCeiling(now, target))
      BY <2>1
    <3> HIDE DEF now, cs
    <3> QED
      BY <1>4, <2>1, <3>1, NextInForce
  <2>2. CASE ~primed
    <3>1. now = Glided(live, target, 1) /\ cs = Level(EntryCeiling(now, target))
      BY <2>2
    <3> HIDE DEF now, cs
    <3> QED
      BY <1>4, <3>1, FirstInForce
  <2> QED
    BY <2>1, <2>2
<1>7. Aged(cs, entry)
  BY DEF Aged
<1> HIDE DEF now, entry, cs
<1>8. /\ rec \in SegmentRecords /\ segs \in Segments /\ segs[0] = rec
      /\ \A u \in 0 .. Hist - 2 : segs[u + 1] = segments[u]
      /\ Reqs(cs, segs)
  BY <1>5, <1>6, <1>7, FrameSegments
<1>9. GlideInv'
  BY <1>2, <1>5, <1>6 DEF GlideInv
<1>10. SegmentInv'
  BY <1>2, <1>8 DEF SegmentInv
<1> DEFINE f == [u \in 0 .. Taps - 1 |-> segs[u].req]
           q == Answer(Counted(f))
<1>11. requirement' = Counted(f)
  <2> HIDE DEF rec, segs
  <2> QED
    BY <1>2, <1>8, RequirementsFollow
<1>12. /\ Taps \in Nat \ {0} /\ Attack \in Nat \ {0} /\ 0 \in 0 .. Attack - 1
       /\ 0 .. Taps - 1 \subseteq 0 .. Hist - 1
  BY Sizes
<1>13. q \in Gains /\ \A u \in 0 .. Taps - 1 : q <= segs[u].req
  <2> HIDE DEF segs
  <2>1. f \in [0 .. Taps - 1 -> Gains] /\ \A u \in 0 .. Taps - 1 : f[u] = segs[u].req
    BY <1>8, <1>12 DEF Segments
  <2> HIDE DEF f
  <2>2. q \in Gains /\ \A u \in 0 .. Taps - 1 : q <= f[u]
    BY <1>12, <2>1, AnswerIs
  <2> HIDE DEF q
  <2> QED
    BY <2>1, <2>2
<1> DEFINE nd0 == need.at
           fw0 == forwardMin.at
           nd  == Shifted(nd0, q)
           a   == Answer(Counted(nd))
           fw  == Shifted(fw0, a)
<1>14. /\ nd0 \in [0 .. Attack - 1 -> Gains] /\ need = Counted(nd0)
       /\ fw0 \in [0 .. Attack - 1 -> Gains] /\ forwardMin = Counted(fw0)
  BY DEF WindowInv
<1> HIDE DEF q, f, nd0, fw0
<1>15. /\ nd \in [0 .. Attack - 1 -> Gains] /\ Pushed(need, q) = Counted(nd)
       /\ nd[0] = q /\ \A v \in 1 .. Attack - 1 : nd[v] = nd0[v - 1]
  <2>1. /\ nd \in [0 .. Attack - 1 -> Gains] /\ Pushed(Counted(nd0), q) = Counted(nd)
        /\ nd[0] = q
    BY <1>12, <1>13, <1>14, ShiftedGains
  <2>2. \A v \in 1 .. Attack - 1 : nd[v] = nd0[v - 1]
    BY <1>12, <1>13, <1>14, ShiftedGains
  <2> QED
    BY <1>14, <2>1, <2>2
<1>16. need' = Counted(nd)
  BY <1>2, <1>11, <1>15 DEF q
<1> HIDE DEF nd
<1>17. a \in Gains /\ \A v \in 0 .. Attack - 1 : a <= nd[v]
  BY <1>12, <1>15, AnswerIs
<1>18. forwardMin' = Pushed(forwardMin, a)
  BY <1>2, <1>16
<1> HIDE DEF a
<1>19. /\ fw \in [0 .. Attack - 1 -> Gains] /\ Pushed(forwardMin, a) = Counted(fw)
       /\ fw[0] = a /\ \A w \in 1 .. Attack - 1 : fw[w] = fw0[w - 1]
  BY <1>12, <1>14, <1>17, ShiftedGains
<1> HIDE DEF fw, rec, segs
<1>20. /\ need' = Counted(nd) /\ need'.at = nd
       /\ forwardMin' = Counted(fw) /\ forwardMin'.at = fw
  BY <1>16, <1>18, <1>19, CountedAt
<1>21. WindowInv'
  BY <1>2, <1>11, <1>15, <1>19, <1>20 DEF WindowInv, f
<1>22. ASSUME NEW v \in 0 .. Attack - 1
       PROVE  /\ Keeps(cs, segs, nd[v], v)
              /\ \A w \in 0 .. v : Keeps(cs, segs, fw[w], v)
  <2>1. segs = Shifted(segments, Read(cs, peak)) /\ need.at = nd0 /\ forwardMin.at = fw0
    BY DEF segs, rec, nd0, fw0
  <2>2. \A u \in 0 .. Attack - 1 : fw[0] <= nd[u]
    BY <1>17, <1>19
  <2> QED
    BY <1>5, <1>6, <1>7, <1>13, <1>14, <1>15, <1>19, <2>1, <2>2, FramePlan
<1>23. gain' \in Int /\ Keeps(cs, segs, gain', Attack - 1)
  <2> DEFINE top == IF Counted(fw).below = 0 THEN 0
                    ELSE Max({fw[i] : i \in 0 .. Attack - 1})
  <2>1. PICK low : gain' \in Least(gain, low) .. top
    BY <1>3, <1>20
  <2>2. PICK w \in 0 .. Attack - 1 : top = fw[w]
    BY <1>19, TopIs
  <2>3. top \in Int
    BY <1>19, <2>2 DEF Gains
  <2> HIDE DEF top
  <2>4. gain' \in Int /\ gain' <= top
    BY <2>1, <2>3
  <2>5. Attack - 1 \in 0 .. Attack - 1
    BY <1>12
  <2>6. Keeps(cs, segs, top, Attack - 1)
    BY <1>22, <2>2, <2>5
  <2> QED
    BY <1>6, <1>8, <2>3, <2>4, <2>5, <2>6, KeepsLess
<1>24. PlanInv'
  <2>1. Planned(cs, segs, nd, fw)
    <3>1. 0 .. Attack - 2 \subseteq 0 .. Attack - 1
      BY <1>12
    <3> QED
      BY <1>22, <3>1 DEF Planned
  <2> QED
    BY <1>2, <1>20, <1>23, <2>1 DEF PlanInv
<1> QED
  BY <1>9, <1>10, <1>21, <1>24

LEMMA ClampStutters == ASSUME ClampInv, UNCHANGED clampVars PROVE ClampInv'
BY DEF ClampInv, GlideInv, SegmentInv, WindowInv, PlanInv, clampVars

LEMMA ClampStepKeeps == ASSUME ClampInv, [ClampNext]_clampVars PROVE ClampInv'
<1>1. CASE ProcessFrame
  BY <1>1, FrameStepKeeps
<1>2. CASE Retarget
  BY <1>2, RetargetKeeps
<1>3. CASE ClearWindows
  BY <1>3, ClearKeeps
<1>4. CASE UNCHANGED clampVars
  BY <1>4, ClampStutters
<1> QED
  BY <1>1, <1>2, <1>3, <1>4 DEF ClampNext

-----------------------------------------------------------------------------
(* What holds of every behaviour.                                          *)

\* The ceilings in flight are in force when their frames leave, the windows
\* count what they hold, and every gain planned keeps its promise, however
\* process, lowerInFlightCeilings and reset follow one another.
THEOREM ClampKeeps == ClampSpec => []ClampInv
<1>1. ClampInit => ClampInv
  BY ClampInitInv
<1>2. ClampInv /\ [ClampNext]_clampVars => ClampInv'
  BY ClampStepKeeps
<1> QED
  BY <1>1, <1>2, PTL DEF ClampSpec

\* A frame leaves under the ceiling in force when it leaves
\* (processFrameTruePeak clips to it), wherever the ceiling was moved to.
THEOREM CeilingAtEmission == ClampSpec => []JudgedAtEmission
<1>1. ClampInv => JudgedAtEmission
  <2>1. Delay \in 0 .. Delay
    BY Sizes
  <2> QED
    BY <2>1 DEF ClampInv, GlideInv, InForce, JudgedAtEmission
<1> QED
  BY <1>1, ClampKeeps, PTL

\* The gain of an emitted frame keeps what each segment that reads it was
\* promised (processFrameTruePeak, lowerInFlightCeilings).
THEOREM GainKept == ClampSpec => []GainKeepsPromise
<1>1. ClampInv => GainKeepsPromise
  <2>1. Delay = (Attack - 1) + Taps - 1 /\ Delay - Lead = (Attack - 1) + Taps - 1 - Lead
        /\ (Attack - 1) + Lag - 1 - 1 = (Attack - 1) + Lag - 2
    BY Sizes
  <2> SUFFICES ASSUME ClampInv, emitted PROVE GainKeepsPromise
    BY DEF GainKeepsPromise
  <2>2. Keeps(ceilings, segments, gain, Attack - 1)
    BY DEF ClampInv, PlanInv
  <2> DEFINE v     == Attack - 1
             own   == v + Lag - 1
             ahead == Lowest(ceilings, Delay - Lead, Delay)
  <2>3. own - 1 = v + Lag - 2 /\ ahead = Lowest(ceilings, v + Taps - 1 - Lead, v + Taps - 1)
    <3>1. own - 1 = v + Lag - 2
      BY Sizes
    <3>2. Delay = v + Taps - 1 /\ Delay - Lead = v + Taps - 1 - Lead
      BY <2>1
    <3>3. ahead = Lowest(ceilings, v + Taps - 1 - Lead, v + Taps - 1)
      BY <3>2
    <3> QED
      BY <3>1, <3>3
  <2>4. Keeps(ceilings, segments, gain, v) /\ own = v + Lag - 1
    BY <2>2
  <2> HIDE DEF v, own, ahead
  <2>5. gain <= Required(SegmentCeiling(ceilings, own), segments[own].peak)
    BY <2>4 DEF Keeps
  <2>6. \A u \in v + Lag - Reach .. own - 1 :
           gain <= Required(Greatest(SegmentCeiling(ceilings, u), ahead),
                            segments[u].peak)
    BY <2>3, <2>4 DEF Keeps
  <2>7. \A u \in v .. v + Taps - 1 : gain <= segments[u].entry
    BY <2>4 DEF Keeps
  <2> QED
    BY <2>5, <2>6, <2>7 DEF GainKeepsPromise, v, own, ahead
<1> QED
  BY <1>1, ClampKeeps, PTL

=============================================================================
