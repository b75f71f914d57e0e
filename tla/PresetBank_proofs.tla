------------------------- MODULE PresetBank_proofs -------------------------
(***************************************************************************)
(* The identity of the sound and its edited mark tell the truth, for any   *)
(* factory presets, any folder and any number of edits, saves, session     *)
(* loads and changes that other programs make to the files.                *)
(***************************************************************************)
EXTENDS PresetBank, FiniteSetTheorems, FunctionTheorems, WellFoundedInduction,
        SequenceTheorems, TLAPS

\* What a sound can have come from.
Items == {FactoryId(i) : i \in DOMAIN Factory} \cup {UserFile(p) : p \in Files}

\* The identity shown is the source's, and a stored one reads back as it was.
IdentityInv ==
    /\ selection = source /\ source \in Items \cup {None}
    /\ session # None => /\ session.source \in Items \cup {None}
                         /\ Decode(session.fields) = session.source

\* The datum of the mark is what the file holds that the sound landed from.
LandedInv ==
    asLanded => /\ source \in {UserFile(p) : p \in Files} /\ name # ""
                /\ \E m, v : /\ presetBaseline = [mask |-> m, value |-> v]
                             /\ disk[source.file] =
                                  [kind |-> "preset", mask |-> m, value |-> v]

ListInv == /\ DOMAIN disk = Files
           /\ \A i \in DOMAIN menu : menu[i] \in Items

BankInv == IdentityInv /\ LandedInv /\ ListInv

-----------------------------------------------------------------------------
(* The list.                                                               *)

\* The files behind one another have ranks without a gap.
LEMMA RankFinds ==
    ASSUME NEW S, NEW n \in Nat, S \subseteq 1..n
    PROVE  /\ Cardinality(S) \in Nat
           /\ \A k \in 1..Cardinality(S) :
                 \E i \in S : Cardinality({j \in S : j <= i}) = k
<1>1. IsFiniteSet(S) /\ Cardinality(S) \in Nat
  <2>1. IsFiniteSet(1..n)
    BY FS_Interval
  <2> QED
    BY <2>1, FS_Subset, FS_CardinalityType
<1> DEFINE N == Cardinality(S)
           Low(i) == {j \in S : j <= i}
           rank == [i \in S |-> Cardinality(Low(i))]
<1>2. ASSUME NEW i \in S
      PROVE  IsFiniteSet(Low(i)) /\ Cardinality(Low(i)) \in 1..N
  <2>1. Low(i) \subseteq S /\ i \in Low(i)
    OBVIOUS
  <2>2. IsFiniteSet(Low(i)) /\ Cardinality(Low(i)) <= N
    BY <1>1, <2>1, FS_Subset
  <2>3. Cardinality(Low(i)) \in Nat /\ Cardinality(Low(i)) # 0
    BY <2>1, <2>2, FS_CardinalityType, FS_EmptySet
  <2> QED
    BY <1>1, <2>2, <2>3
<1>3. ASSUME NEW i \in S, NEW h \in S, i < h
      PROVE  Cardinality(Low(i)) < Cardinality(Low(h))
  <2>1. Low(i) \subseteq Low(h) /\ h \in Low(h) /\ h \notin Low(i)
    <3>1. i \in Int /\ h \in Int /\ \A j \in S : j \in Int
      OBVIOUS
    <3>2. h <= h /\ ~ (h <= i) /\ \A j \in S : j <= i => j <= h
      BY <1>3, <3>1
    <3>3. h \in Low(h) /\ h \notin Low(i)
      BY <3>2
    <3>4. Low(i) \subseteq Low(h)
      BY <3>2
    <3> QED
      BY <3>3, <3>4
  <2>2. Low(i) # Low(h)
    BY <2>1
  <2>3. IsFiniteSet(Low(h)) /\ Cardinality(Low(i)) \in Nat /\ Cardinality(Low(h)) \in Nat
    BY <1>2
  <2>4. /\ Cardinality(Low(i)) <= Cardinality(Low(h))
        /\ Cardinality(Low(i)) = Cardinality(Low(h)) => Low(h) = Low(i)
    <3> HIDE DEF Low
    <3> QED
      BY <2>1, <2>3, FS_Subset
  <2> QED
    BY <2>2, <2>3, <2>4
<1>4. rank \in [S -> 1..N]
  <2> HIDE DEF Low, N
  <2> QED
    BY <1>2
<1>5. \A i, h \in S : rank[i] = rank[h] => i = h
  <2> SUFFICES ASSUME NEW i \in S, NEW h \in S, i # h PROVE rank[i] # rank[h]
    OBVIOUS
  <2>1. i < h \/ h < i
    OBVIOUS
  <2>2. Cardinality(Low(i)) \in Nat /\ Cardinality(Low(h)) \in Nat
    BY <1>2
  <2>3. Cardinality(Low(i)) # Cardinality(Low(h))
    <3> HIDE DEF Low
    <3> QED
      BY <1>3, <2>1, <2>2
  <2> QED
    BY <2>3
<1>6. rank \in Injection(S, 1..N)
  <2> HIDE DEF rank, N
  <2> QED
    BY <1>4, <1>5 DEF Injection, IsInjective
<1>7. IsFiniteSet(1..N) /\ Cardinality(1..N) = N
  <2> HIDE DEF N
  <2>1. N \in Nat
    BY <1>1 DEF N
  <2> QED
    BY <2>1, FS_Interval
<1>8. rank \in Surjection(S, 1..N)
  <2> HIDE DEF rank
  <2> QED
    BY <1>6, <1>7, FS_Injection
<1>9. \A k \in 1..N : \E i \in S : rank[i] = k
  <2> HIDE DEF rank, N
  <2> QED
    BY <1>8 DEF Surjection
<1> QED
  BY <1>1, <1>9

LEMMA ListedIsOfOrder ==
    Listed \in Seq(Range(SortedNames))
<1> DEFINE there   == {i \in DOMAIN SortedNames : disk[<<Folder, SortedNames[i]>>] # NoFile}
           Rank(i) == Cardinality({j \in there : j <= i})
           n == Cardinality(there)
           at(k) == CHOOSE i \in there : Rank(i) = k
<1>1. Len(SortedNames) \in Nat /\ DOMAIN SortedNames = 1..Len(SortedNames)
  BY LenProperties, BankAssumption
<1>2. there \subseteq 1..Len(SortedNames)
  BY <1>1
<1>3. n \in Nat /\ \A k \in 1..n : \E i \in there : Rank(i) = k
  <2> HIDE DEF there
  <2> QED
    BY <1>1, <1>2, RankFinds
<1>4. \A k \in 1..n : at(k) \in there
  <2> HIDE DEF there, Rank
  <2> QED
    BY <1>3
<1>5. \A k \in 1..n : SortedNames[at(k)] \in Range(SortedNames)
  <2> HIDE DEF at, n
  <2> QED
    BY <1>4 DEF Range
<1>6. Listed = [k \in 1..n |-> SortedNames[at(k)]]
  BY DEF Listed
<1> HIDE DEF at, n
<1> QED
  BY <1>3, <1>5, <1>6

LEMMA RowsAreItems ==
    /\ Len(Rows) \in Nat \ {0, 1} /\ DOMAIN Rows = 1..Len(Rows)
    /\ \A i \in DOMAIN Rows : Rows[i] \in Items
    /\ Rows[1].kind = "factory" /\ Rows[2].kind = "factory"
<1> DEFINE F == Len(Factory)
           L == Len(Listed)
<1>1. F \in Nat /\ F > 1 /\ DOMAIN Factory = 1..F
  BY LenProperties, BankAssumption
<1>2. L \in Nat /\ DOMAIN Listed = 1..L /\ \A i \in 1..L : Listed[i] \in Range(SortedNames)
  BY ListedIsOfOrder, LenProperties, ElementOfSeq
<1> DEFINE row(i) == IF i <= F THEN FactoryId(i) ELSE UserFile(<<Folder, Listed[i - F]>>)
<1>3. Rows = [i \in 1..F + L |-> row(i)]
  BY DEF Rows
<1>4. Len(Rows) = F + L /\ DOMAIN Rows = 1..F + L
  <2> HIDE DEF row, F, L
  <2>1. F + L \in Nat
    BY <1>1, <1>2
  <2> QED
    BY <1>3, <2>1
<1>5. ASSUME NEW i \in 1..F + L PROVE row(i) \in Items
  <2>1. CASE i <= F
    BY <1>1, <2>1 DEF Items
  <2>2. CASE ~(i <= F)
    <3>1. i - F \in 1..L
      BY <1>1, <1>2, <2>2
    <3>2. <<Folder, Listed[i - F]>> \in Files
      <4> HIDE DEF F, L
      <4> QED
        BY <1>2, <3>1 DEF Files
    <3> QED
      BY <2>2, <3>2 DEF Items
  <2> QED
    BY <2>1, <2>2
<1>6. row(1).kind = "factory" /\ row(2).kind = "factory"
  BY <1>1 DEF FactoryId
<1>7. 1 \in 1..F + L /\ 2 \in 1..F + L /\ F + L \in Nat \ {0, 1}
  BY <1>1, <1>2
<1> QED
  <2> HIDE DEF F, L, row
  <2> QED
    BY <1>3, <1>4, <1>5, <1>6, <1>7

\* The first of some indices.
LEMMA FirstIndex ==
    ASSUME NEW n \in Nat, NEW S, S \subseteq 1..n, S # {}
    PROVE  Min(S) \in S /\ Min(S) \in Int /\ \A y \in S : Min(S) <= y
<1>1. PICK x \in S : \A y \in S : ~ (<<y, x>> \in OpToRel(<, Nat))
  <2>1. S \subseteq Nat
    OBVIOUS
  <2> QED
    BY <2>1, WFMin, NatLessThanWellFounded
<1>2. \A y \in S : x <= y
  <2> SUFFICES ASSUME NEW y \in S, y < x PROVE FALSE
    OBVIOUS
  <2>1. <<y, x>> \in OpToRel(<, Nat)
    BY DEF OpToRel
  <2> QED
    BY <1>1, <2>1
<1>3. Min(S) \in S /\ \A y \in S : Min(S) <= y
  BY <1>2 DEF Min
<1>4. \A y \in S : y \in Int
  OBVIOUS
<1> QED
  BY <1>3, <1>4

\* What the modulus of an arrow gives.
LEMMA Wrapped ==
    ASSUME NEW t \in Nat \ {0}, NEW x \in 0..3 * t - 1
    PROVE  x % t = IF x < t THEN x ELSE IF x < t + t THEN x - t ELSE x - t - t
<1>1. CASE x < t
  BY <1>1
<1>2. CASE ~(x < t) /\ x < t + t
  <2>1. x - t \in 0..t - 1 /\ x = t * 1 + (x - t)
    BY <1>2
  <2> QED
    BY <1>2, <2>1
<1>3. CASE ~(x < t + t)
  <2>1. x - t - t \in 0..t - 1 /\ x = t * 2 + (x - t - t) /\ ~(x < t)
    BY <1>3
  <2> QED
    BY <1>3, <2>1
<1> QED
  BY <1>1, <1>2, <1>3

\* The row an arrow offers k-th, from a row and from none.
KthRow(t, here, dir, k) ==
    IF dir = 1 THEN IF here + k <= t THEN here + k ELSE here + k - t
    ELSE IF here = 0 THEN t + 1 - k
    ELSE IF here > k THEN here - k ELSE here - k + t

LEMMA KthInRing ==
    ASSUME NEW t \in Nat \ {0}, NEW here \in 0..t, NEW dir \in {-1, 1}, NEW k \in 1..t
    PROVE  KthRow(t, here, dir, k) \in 1..t
BY DEF KthRow

LEMMA OfferedRows ==
    ASSUME NEW rows, Len(rows) \in Nat \ {0}, NEW here \in 0..Len(rows), NEW dir \in {-1, 1}
    PROVE  Offered(rows, here, dir) =
              [k \in 1..Len(rows) |-> KthRow(Len(rows), here, dir, k)]
<1> DEFINE t == Len(rows)
           first == IF here = 0 THEN IF dir > 0 THEN 1 ELSE t
                    ELSE ((here - 1 + dir + t) % t) + 1
           at(k) == ((first - 1 + dir * (k - 1) + t) % t) + 1
<1>1. t \in Nat \ {0} /\ here \in 0..t
  OBVIOUS
<1>2. first \in 1..t /\ first = KthRow(t, here, dir, 1)
  <2> HIDE DEF t
  <2>1. CASE here = 0
    BY <1>1, <2>1 DEF KthRow
  <2>2. CASE here # 0
    <3>1. here - 1 + dir + t \in 0..3 * t - 1
      BY <1>1, <2>2
    <3>2. (here - 1 + dir + t) % t = LET x == here - 1 + dir + t IN
             IF x < t THEN x ELSE IF x < t + t THEN x - t ELSE x - t - t
      BY <1>1, <3>1, Wrapped
    <3> QED
      BY <1>1, <2>2, <3>2 DEF KthRow
  <2> QED
    BY <2>1, <2>2
<1> HIDE DEF t, first
<1>3. ASSUME NEW k \in 1..t PROVE at(k) = KthRow(t, here, dir, k)
  <2> DEFINE step == dir * (k - 1)
             x == first - 1 + step + t
  <2>1. step = IF dir = 1 THEN k - 1 ELSE 1 - k
    BY <1>1
  <2> HIDE DEF step
  <2>2. x \in 0..3 * t - 1
    BY <1>1, <1>2, <2>1
  <2>3. x % t = IF x < t THEN x ELSE IF x < t + t THEN x - t ELSE x - t - t
    <3> HIDE DEF x
    <3> QED
      BY <1>1, <2>2, Wrapped
  <2>4. (x % t) + 1 = KthRow(t, here, dir, k)
    BY <1>1, <1>2, <2>1, <2>3 DEF KthRow
  <2> QED
    BY <2>4 DEF step
<1>4. Offered(rows, here, dir) = [k \in 1..t |-> at(k)]
  BY DEF Offered, t, first
<1> HIDE DEF at
<1> QED
  BY <1>3, <1>4 DEF t

\* How far ahead of a row another one is.
Ahead(t, row, good, dir) ==
    IF dir = 1 THEN IF good > row THEN good - row ELSE good - row + t
    ELSE IF row = 0 THEN t + 1 - good
    ELSE IF row > good THEN row - good ELSE row - good + t

LEMMA AheadIs ==
    ASSUME NEW t \in Nat \ {0}, NEW row \in 0..t, NEW good \in 1..t, NEW dir \in {-1, 1}
    PROVE  /\ Ahead(t, row, good, dir) \in 1..t
           /\ row # good => Ahead(t, row, good, dir) < t \/ row = 0
           /\ \A k \in 1..t : KthRow(t, row, dir, k) = row => k = t
<1>1. CASE dir = 1
  BY <1>1 DEF Ahead, KthRow
<1>2. CASE dir = -1
  BY <1>2 DEF Ahead, KthRow
<1> QED
  BY <1>1, <1>2

LEMMA AheadFinds ==
    ASSUME NEW t \in Nat \ {0}, NEW row \in 0..t, NEW good \in 1..t, NEW dir \in {-1, 1}
    PROVE  KthRow(t, row, dir, Ahead(t, row, good, dir)) = good
<1>1. CASE dir = 1
  BY <1>1 DEF Ahead, KthRow
<1>2. CASE dir = -1
  BY <1>2 DEF Ahead, KthRow
<1> QED
  BY <1>1, <1>2

LEMMA AheadShrinks ==
    ASSUME NEW t \in Nat \ {0}, NEW row \in 1..t, NEW good \in 1..t, NEW dir \in {-1, 1},
           NEW k \in 1..t, k < Ahead(t, row, good, dir)
    PROVE  Ahead(t, KthRow(t, row, dir, k), good, dir) = Ahead(t, row, good, dir) - k
<1>1. CASE dir = 1
  BY <1>1 DEF Ahead, KthRow
<1>2. CASE dir = -1
  BY <1>2 DEF Ahead, KthRow
<1> QED
  BY <1>1, <1>2

\* A press of an arrow lands on the first row that applies.
LEMMA LandsOnFirst ==
    ASSUME NEW here \in 0..Len(Rows), NEW dir \in {-1, 1}
    PROVE  \E k \in 1..Len(Rows) :
              /\ Landing(Rows, here, dir) = KthRow(Len(Rows), here, dir, k)
              /\ Applies(Rows[Landing(Rows, here, dir)])
              /\ \A good \in 1..Len(Rows) :
                    Applies(Rows[good]) => k <= Ahead(Len(Rows), here, good, dir)
<1> DEFINE t == Len(Rows)
           o == Offered(Rows, here, dir)
           I == {k \in 1..Len(o) : Applies(Rows[o[k]])}
<1>1. t \in Nat \ {0} /\ 1 \in 1..t /\ Rows[1].kind = "factory"
  BY RowsAreItems
<1>2. o = [k \in 1..t |-> KthRow(t, here, dir, k)] /\ Len(o) = t
  <2>1. o = [k \in 1..t |-> KthRow(t, here, dir, k)]
    BY <1>1, OfferedRows
  <2> HIDE DEF o, t
  <2> QED
    BY <1>1, <2>1
<1>3. Applies(Rows[1])
  BY <1>1 DEF Applies
<1> HIDE DEF o
<1>4. ASSUME NEW good \in 1..t, Applies(Rows[good]) PROVE Ahead(t, here, good, dir) \in I
  <2> DEFINE a == Ahead(t, here, good, dir)
  <2>1. here \in 0..t
    OBVIOUS
  <2> HIDE DEF t
  <2>2. a \in 1..t
    BY <1>1, <2>1, AheadIs
  <2>3. KthRow(t, here, dir, a) = good
    BY <1>1, <2>1, AheadFinds
  <2> HIDE DEF a
  <2>4. o[a] = good /\ a \in 1..Len(o)
    BY <1>2, <2>2, <2>3
  <2> QED
    BY <1>4, <2>4 DEF a
<1>5. I # {}
  BY <1>1, <1>3, <1>4
<1>6. Landing(Rows, here, dir) = o[Min(I)]
  BY <1>5 DEF Landing, SelectInSeq, o
<1>7. Min(I) \in I /\ \A y \in I : Min(I) <= y
  <2>1. I \subseteq 1..t
    BY <1>2
  <2> HIDE DEF I
  <2> QED
    BY <1>1, <1>5, <2>1, FirstIndex
<1>8. Min(I) \in 1..t /\ Applies(Rows[o[Min(I)]])
  BY <1>2, <1>7
<1> HIDE DEF I, t
<1>9. o[Min(I)] = KthRow(t, here, dir, Min(I))
  BY <1>2, <1>8
<1>10. \A good \in 1..t : Applies(Rows[good]) => Min(I) <= Ahead(t, here, good, dir)
  BY <1>4, <1>7
<1> QED
  BY <1>6, <1>8, <1>9, <1>10 DEF t

LEMMA LandsOnARow ==
    ASSUME NEW here \in 0..Len(Rows), NEW dir \in {-1, 1}
    PROVE  /\ Landing(Rows, here, dir) \in DOMAIN Rows
           /\ Applies(Rows[Landing(Rows, here, dir)])
<1>1. Len(Rows) \in Nat \ {0} /\ DOMAIN Rows = 1..Len(Rows)
  BY RowsAreItems
<1> QED
  BY <1>1, LandsOnFirst, KthInRing

LEMMA SelectedIsARow ==
    SelectedRow(Rows) \in 0..Len(Rows)
<1> DEFINE J == {i \in 1..Len(Rows) : RowName(Rows[i]) = name}
           K == {i \in 1..Len(Rows) : Rows[i] = selection}
<1>1. Len(Rows) \in Nat
  BY RowsAreItems
<1>2. SelectedRow(Rows) = IF selection = None THEN IF J # {} THEN Min(J) ELSE 0
                          ELSE IF K # {} THEN Min(K) ELSE 0
  BY DEF SelectedRow, ByName, RowOf, SelectInSeq
<1>3. J \subseteq 1..Len(Rows) /\ K \subseteq 1..Len(Rows)
  OBVIOUS
<1> HIDE DEF J, K
<1>4. J # {} => Min(J) \in J
  BY <1>1, <1>3, FirstIndex
<1>5. K # {} => Min(K) \in K
  BY <1>1, <1>3, FirstIndex
<1>6. 0 \in 0..Len(Rows) /\ \A i \in 1..Len(Rows) : i \in 0..Len(Rows)
  BY <1>1
<1>7. J # {} => Min(J) \in 0..Len(Rows)
  BY <1>3, <1>4, <1>6
<1>8. K # {} => Min(K) \in 0..Len(Rows)
  BY <1>3, <1>5, <1>6
<1> QED
  BY <1>2, <1>6, <1>7, <1>8

\* A set of rows that presses do not leave holds every row that applies: the
\* one nearest ahead of a row outside would be landed on, or come nearer.
LEMMA ClosedHoldsAll ==
    ASSUME NEW dir \in {-1, 1},
           NEW reached, reached \subseteq DOMAIN Rows, reached # {},
           \A row \in reached : Landing(Rows, row, dir) \in reached,
           NEW good \in DOMAIN Rows, Applies(Rows[good])
    PROVE  good \in reached
<1> SUFFICES ASSUME good \notin reached PROVE FALSE
  OBVIOUS
<1> DEFINE t == Len(Rows)
           D == {Ahead(t, row, good, dir) : row \in reached}
<1>1. t \in Nat \ {0} /\ DOMAIN Rows = 1..t /\ reached \subseteq 1..t /\ good \in 1..t
  BY RowsAreItems
<1>2. \A row \in 1..t : row \in 0..t
  BY <1>1
<1> HIDE DEF t
<1>3. D \subseteq 1..t
  <2> SUFFICES ASSUME NEW row \in reached PROVE Ahead(t, row, good, dir) \in 1..t
    OBVIOUS
  <2>1. row \in 0..t
    BY <1>1, <1>2
  <2> QED
    BY <1>1, <2>1, AheadIs
<1>4. D # {}
  OBVIOUS
<1>5. Min(D) \in D /\ \A y \in D : Min(D) <= y
  <2> HIDE DEF D
  <2> QED
    BY <1>1, <1>3, <1>4, FirstIndex
<1>6. PICK row \in reached : Min(D) = Ahead(t, row, good, dir)
  BY <1>5
<1> DEFINE a == Ahead(t, row, good, dir)
           next == Landing(Rows, row, dir)
<1>7. row \in 1..t /\ row \in 0..t
  BY <1>1, <1>2
<1>8. a \in 1..t
  BY <1>1, <1>7, AheadIs
<1>8a. KthRow(t, row, dir, a) = good
  BY <1>1, <1>7, AheadFinds
<1>9. PICK k \in 1..t : next = KthRow(t, row, dir, k) /\ k <= a
  BY <1>1, <1>7, LandsOnFirst DEF t
<1>10. next \in reached /\ Ahead(t, next, good, dir) \in D
  OBVIOUS
<1> HIDE DEF D, next
<1>11. k # a
  BY <1>8a, <1>9, <1>10
<1>12. k < a
  BY <1>1, <1>8, <1>9, <1>11
<1>13. Ahead(t, next, good, dir) = a - k
  BY <1>1, <1>7, <1>9, <1>12, AheadShrinks
<1>14. a <= Ahead(t, next, good, dir)
  BY <1>5, <1>6, <1>10
<1> HIDE DEF a
<1> QED
  BY <1>1, <1>8, <1>9, <1>13, <1>14

\* With two rows that apply, a press moves.
LEMMA PressMoves ==
    ASSUME NEW here \in 0..Len(Rows), NEW dir \in {-1, 1}
    PROVE  Landing(Rows, here, dir) # here
<1> DEFINE t == Len(Rows)
<1>1. /\ t \in Nat \ {0, 1} /\ 1 \in 1..t /\ 2 \in 1..t
      /\ Applies(Rows[1]) /\ Applies(Rows[2])
  BY RowsAreItems DEF Applies
<1>2. PICK good \in 1..t : Applies(Rows[good]) /\ good # here
  BY <1>1
<1>3. PICK k \in 1..t : /\ Landing(Rows, here, dir) = KthRow(t, here, dir, k)
                        /\ k <= Ahead(t, here, good, dir)
  BY <1>2, LandsOnFirst
<1>4. here \in 0..t
  OBVIOUS
<1> HIDE DEF t
<1>5. Ahead(t, here, good, dir) \in 1..t /\ (here # 0 => Ahead(t, here, good, dir) < t)
  BY <1>1, <1>2, <1>4, AheadIs
<1>6. here # 0 => k < t
  BY <1>1, <1>3, <1>5
<1>7. KthRow(t, here, dir, k) = here => k = t
  BY <1>1, <1>4, AheadIs
<1>8. KthRow(t, here, dir, k) \in 1..t
  BY <1>1, <1>4, KthInRing
<1> QED
  BY <1>1, <1>3, <1>6, <1>7, <1>8

-----------------------------------------------------------------------------
(* The steps.                                                              *)

LEMMA StoredReadsBack ==
    ASSUME NEW s \in Items \cup {None}
    PROVE  Decode(Encode(s)) = s
<1>1. CASE s = None
  BY <1>1 DEF None, Encode, Decode
<1>2. ASSUME NEW i, s = FactoryId(i) PROVE Decode(Encode(s)) = s
  BY <1>2 DEF FactoryId, Encode, Decode
<1>3. ASSUME NEW p \in Files, s = UserFile(p) PROVE Decode(Encode(s)) = s
  <2>1. s.kind = "userFile" /\ s.file = p
    BY <1>3 DEF UserFile
  <2>2. CASE StoredByName(p)
    <3>1. p = <<Folder, p[2]>> /\ p[2] \notin Tilde
      BY <1>3, <2>2 DEF StoredByName, Files
    <3>2. Encode(s) = [kind |-> "user", bare |-> p[2]]
      BY <2>1, <2>2 DEF Encode
    <3> DEFINE f == [kind |-> "user", bare |-> p[2]]
    <3>3. f.kind = "user" /\ f.bare = p[2] /\ "path" \notin DOMAIN f
      OBVIOUS
    <3>4. Decode(f) = UserFile(<<Folder, p[2]>>)
      <4> HIDE DEF f
      <4> QED
        BY <3>1, <3>3 DEF Decode
    <3> QED
      BY <1>3, <3>1, <3>2, <3>4
  <2>3. CASE ~StoredByName(p)
    <3> DEFINE f == [kind |-> "user", path |-> p]
    <3>1. Encode(s) = f
      BY <2>1, <2>3 DEF Encode
    <3>2. f.kind = "user" /\ f.path = p /\ "path" \in DOMAIN f
      OBVIOUS
    <3>3. Decode(f) = UserFile(p)
      <4> HIDE DEF f
      <4> QED
        BY <3>2 DEF Decode
    <3> QED
      BY <1>3, <3>1, <3>3
  <2> QED
    BY <2>2, <2>3
<1> QED
  BY <1>1, <1>2, <1>3 DEF Items

\* A file has a name.
LEMMA Named ==
    ASSUME NEW p \in Files
    PROVE  p[2] # "" /\ p[2] \in Range(SortedNames)
<1>1. p[2] \in Range(SortedNames)
  BY DEF Files
<1>2. \A n \in Range(SortedNames) : n # ""
  BY BankAssumption
<1> QED
  BY <1>1, <1>2

\* A sound that lands brings its identity, and its datum if it is the file's.
LEMMA ApplyKeeps ==
    ASSUME BankInv, NEW item \in Items, Apply(item), ListInv'
    PROVE  BankInv'
<1>1. selection' = item /\ source' = item /\ UNCHANGED <<disk, session>>
  BY DEF Apply, Land
<1>2. IdentityInv'
  BY <1>1 DEF IdentityInv, BankInv
<1>3. ASSUME asLanded' PROVE LandedInv'
  <2>1. item.kind # "factory"
    BY <1>3 DEF Apply, Land
  <2>2. PICK p \in Files : item = UserFile(p)
    BY <2>1 DEF Items, FactoryId
  <2>3. item.file = p
    BY <2>2 DEF UserFile
  <2> DEFINE doc == disk[p]
             s   == Written(doc.value)
             mine == Document(s, doc.mask)
  <2>4. Land(s, doc.mask, p[2], item, mine = doc)
    BY <2>1, <2>3 DEF Apply
  <2>5. mine = doc /\ name' = p[2] /\ presetBaseline' = Shape(s, doc.mask)
    BY <1>3, <2>4 DEF Land
  <2>6. mine = [kind |-> "preset", mask |-> doc.mask, value |-> mine.value]
    BY DEF Document
  <2>7. presetBaseline' = [mask |-> doc.mask, value |-> mine.value]
    BY <2>5 DEF Shape
  <2>8. name' # ""
    BY <2>5, Named
  <2>9. source'.file = p /\ source' \in {UserFile(f) : f \in Files} /\ disk' = disk
    BY <1>1, <2>2, <2>3
  <2> HIDE DEF mine
  <2>10. disk'[source'.file] = [kind |-> "preset", mask |-> doc.mask, value |-> mine.value]
    BY <2>5, <2>6, <2>9
  <2> QED
    BY <2>7, <2>8, <2>9, <2>10 DEF LandedInv
<1> QED
  BY <1>2, <1>3 DEF BankInv, LandedInv

LEMMA KeepKeeps ==
    ASSUME BankInv, Keep, ListInv'
    PROVE  BankInv'
BY DEF BankInv, IdentityInv, LandedInv, Keep

LEMMA ApplyOrKeepKeeps ==
    ASSUME BankInv, NEW item \in Items, ApplyOrKeep(item), ListInv'
    PROVE  BankInv'
BY ApplyKeeps, KeepKeeps DEF ApplyOrKeep

LEMMA ListStands ==
    ASSUME ListInv, UNCHANGED disk, menu' = menu \/ menu' = <<>>
    PROVE  ListInv'
<1>1. \A i \in DOMAIN <<>> : FALSE
  OBVIOUS
<1> QED
  BY <1>1 DEF ListInv

LEMMA OpenMenuKeeps == ASSUME BankInv, OpenMenu PROVE BankInv'
<1>1. ListInv'
  BY RowsAreItems DEF OpenMenu, Keep, BankInv, ListInv
<1> QED
  BY <1>1, KeepKeeps DEF OpenMenu

LEMMA ChooseKeeps == ASSUME BankInv, Choose PROVE BankInv'
<1>1. UNCHANGED disk
  BY DEF Choose, ApplyOrKeep, Apply, Keep
<1>2. ListInv'
  BY <1>1, ListStands DEF Choose, BankInv
<1>3. Keep \/ \E i \in DOMAIN menu : ApplyOrKeep(menu[i])
  BY DEF Choose
<1> QED
  BY <1>2, <1>3, KeepKeeps, ApplyOrKeepKeeps DEF BankInv, ListInv

LEMMA LoadFileKeeps == ASSUME BankInv, LoadFile PROVE BankInv'
<1>1. PICK p \in Files : ApplyOrKeep(UserFile(p)) /\ UNCHANGED menu
  BY DEF LoadFile
<1>2. UNCHANGED disk
  BY <1>1 DEF ApplyOrKeep, Apply, Keep
<1>3. ListInv' /\ UserFile(p) \in Items
  BY <1>1, <1>2, ListStands DEF BankInv, Items
<1> QED
  BY <1>1, <1>3, ApplyOrKeepKeeps

LEMMA StepKeeps == ASSUME BankInv, Step PROVE BankInv'
<1>1. PICK dir \in {-1, 1} :
         Apply(Rows[Landing(Rows, SelectedRow(Rows), dir)]) /\ UNCHANGED menu
  BY DEF Step
<1> DEFINE row == Landing(Rows, SelectedRow(Rows), dir)
<1>2. row \in DOMAIN Rows
  BY SelectedIsARow, LandsOnARow
<1>3. Rows[row] \in Items
  <2> HIDE DEF row
  <2> QED
    BY <1>2, RowsAreItems
<1>4. ListInv'
  BY <1>1, ListStands DEF BankInv, Apply
<1> HIDE DEF row
<1> QED
  BY <1>1, <1>3, <1>4, ApplyKeeps DEF row

LEMMA SaveKeeps == ASSUME BankInv, SaveFile PROVE BankInv'
<1>1. PICK n \in Range(SortedNames) :
         /\ disk' = [disk EXCEPT ![<<Folder, n>>] = Document(sound, detachMask)]
         /\ Land(sound, detachMask, n, UserFile(<<Folder, n>>), TRUE)
         /\ UNCHANGED <<locked, menu, session>>
  BY DEF SaveFile
<1> DEFINE p == <<Folder, n>>
           v == Document(sound, detachMask).value
<1>2. p \in Files /\ p[2] = n
  BY DEF Files
<1>3. n # ""
  BY <1>2, Named
<1>4. UserFile(p).file = p /\ UserFile(p) \in Items
  BY <1>2 DEF UserFile, Items
<1>5. source' = UserFile(p) /\ selection' = UserFile(p) /\ name' = n /\ UNCHANGED session
  BY <1>1 DEF Land
<1>6. IdentityInv'
  BY <1>4, <1>5 DEF BankInv, IdentityInv
<1>7. DOMAIN disk' = Files /\ disk'[p] = Document(sound, detachMask)
  BY <1>1, <1>2 DEF BankInv, ListInv
<1>8. ListInv'
  BY <1>1, <1>7 DEF BankInv, ListInv
<1>9. presetBaseline' = [mask |-> detachMask, value |-> v]
  BY <1>1 DEF Land, Shape
<1>10. Document(sound, detachMask) = [kind |-> "preset", mask |-> detachMask, value |-> v]
  BY DEF Document
<1>11. source'.file = p /\ source' \in {UserFile(f) : f \in Files} /\ name' # ""
  BY <1>2, <1>3, <1>4, <1>5
<1> HIDE DEF p, v
<1>12. LandedInv'
  BY <1>7, <1>9, <1>10, <1>11 DEF LandedInv
<1> QED
  BY <1>6, <1>8, <1>12 DEF BankInv

LEMMA EditKeeps == ASSUME BankInv, Edit PROVE BankInv'
BY DEF BankInv, IdentityInv, LandedInv, ListInv, Edit

LEMMA DiskKeeps == ASSUME BankInv, DiskChanges PROVE BankInv'
<1>1. PICK p \in Files, doc \in Foreign \cup {NoFile, Damaged} :
         /\ disk' = [disk EXCEPT ![p] = doc]
         /\ asLanded' = (asLanded /\ source # UserFile(p))
         /\ UNCHANGED <<name, selection, presetBaseline, menu, session, source>>
  BY DEF DiskChanges
<1>2. IdentityInv' /\ ListInv'
  BY <1>1 DEF BankInv, IdentityInv, ListInv
<1>3. ASSUME asLanded' PROVE LandedInv'
  <2>1. asLanded /\ source # UserFile(p)
    BY <1>1, <1>3
  <2>2. PICK f \in Files : source = UserFile(f)
    BY <2>1 DEF BankInv, LandedInv
  <2>3. source.file = f /\ f # p
    BY <2>1, <2>2 DEF UserFile
  <2>4. disk'[f] = disk[f]
    BY <1>1, <2>3 DEF BankInv, ListInv
  <2> QED
    BY <1>1, <2>1, <2>3, <2>4 DEF BankInv, LandedInv
<1> QED
  BY <1>2, <1>3 DEF BankInv, LandedInv

LEMMA SaveSessionKeeps == ASSUME BankInv, SaveSession PROVE BankInv'
<1>1. session'.fields = Encode(selection) /\ session'.source = source
  BY DEF SaveSession
<1>2. Decode(session'.fields) = session'.source
  BY <1>1, StoredReadsBack DEF BankInv, IdentityInv
<1>3. IdentityInv'
  BY <1>1, <1>2 DEF SaveSession, BankInv, IdentityInv
<1> QED
  BY <1>3 DEF SaveSession, BankInv, LandedInv, ListInv

LEMMA LoadSessionKeeps == ASSUME BankInv, LoadSession PROVE BankInv'
<1>1. IdentityInv'
  BY DEF LoadSession, BankInv, IdentityInv
<1> QED
  BY <1>1 DEF LoadSession, BankInv, LandedInv, ListInv

LEMMA BankInitInv == ASSUME BankInit PROVE BankInv
<1>1. 1 \in DOMAIN Factory
  <2>1. Len(Factory) \in Nat /\ Len(Factory) > 1 /\ DOMAIN Factory = 1..Len(Factory)
    BY LenProperties, BankAssumption
  <2> QED
    BY <2>1
<1>2. IdentityInv
  BY <1>1 DEF BankInit, IdentityInv, Items
<1>3. \A i \in DOMAIN <<>> : FALSE
  OBVIOUS
<1>4. ListInv
  BY <1>3 DEF BankInit, ListInv
<1> QED
  BY <1>2, <1>4 DEF BankInit, LandedInv, BankInv

-----------------------------------------------------------------------------
(* What holds of every behaviour.                                          *)

\* What the identity, the mark's datum and the lists have to do with the
\* source of the sound and with the files (liveSelection, livePresetName,
\* presetBaseline), in any order of what the user and other programs do.
THEOREM BankKeeps == BankSpec => []BankInv
<1>1. BankInit => BankInv
  BY BankInitInv
<1>2. BankInv /\ [BankNext]_bankVars => BankInv'
  <2>1. CASE UNCHANGED bankVars
    BY <2>1 DEF bankVars, BankInv, IdentityInv, LandedInv, ListInv
  <2> QED
    BY <2>1, OpenMenuKeeps, ChooseKeeps, LoadFileKeeps, StepKeeps, SaveKeeps, EditKeeps,
       DiskKeeps, SaveSessionKeeps, LoadSessionKeeps DEF BankNext
<1> QED
  BY <1>1, <1>2, PTL DEF BankSpec

\* The ticked row is that of the sound's source (selectedPresetRow, encode and
\* decode of the identity), whatever the folder holds meanwhile.
THEOREM TickIsSource == BankSpec => []TickedRowIsSource
<1>1. BankInv => TickedRowIsSource
  BY DEF BankInv, IdentityInv, TickedRowIsSource, SelectedRow
<1> QED
  BY <1>1, BankKeeps, PTL

\* The mark says "edited" exactly when a save over the file the sound landed
\* from would change it (presetDirty).
THEOREM MarkIsHonest == BankSpec => []MarkIsAboutTheFile
<1>1. ASSUME BankInv, asLanded PROVE Dirty <=> disk[source.file] # Document(sound, detachMask)
  <2>1. PICK m, v : /\ presetBaseline = [mask |-> m, value |-> v]
                    /\ disk[source.file] = [kind |-> "preset", mask |-> m, value |-> v]
    BY <1>1 DEF BankInv, LandedInv
  <2> DEFINE w == Document(sound, detachMask).value
  <2>2. name # "" /\ presetBaseline # None
    BY <1>1, <2>1 DEF BankInv, LandedInv, None
  <2>3. Document(sound, detachMask) = [kind |-> "preset", mask |-> detachMask, value |-> w]
    BY DEF Document
  <2>4. Shape(sound, detachMask) = [mask |-> detachMask, value |-> w]
    BY DEF Shape
  <2> HIDE DEF w
  <2>5. presetBaseline = Shape(sound, detachMask) <=> m = detachMask /\ v = w
    BY <2>1, <2>4
  <2>6. disk[source.file] = Document(sound, detachMask) <=> m = detachMask /\ v = w
    BY <2>1, <2>3
  <2> QED
    BY <2>2, <2>5, <2>6 DEF Dirty
<1>2. BankInv => MarkIsAboutTheFile
  BY <1>1 DEF MarkIsAboutTheFile
<1> QED
  BY <1>2, BankKeeps, PTL

\* Presses of an arrow reach every row that applies, in any folder
\* (stepPreset), and none lands where it started.
THEOREM RingReaches == BankSpec => []RingReachesAll
<1>1. RingReachesAll
  <2> SUFFICES ASSUME NEW dir \in {-1, 1}
               PROVE  LET presses == {<<row, Landing(Rows, row, dir)>> : row \in 0..Len(Rows)}
                      IN  /\ \A p \in presses : p[1] # p[2]
                          /\ \A reached \in SUBSET (DOMAIN Rows) :
                               (\A p \in presses :
                                   p[1] \in reached \cup {SelectedRow(Rows)} => p[2] \in reached)
                                 => {row \in DOMAIN Rows : Applies(Rows[row])} \subseteq reached
    BY DEF RingReachesAll
  <2> DEFINE here == SelectedRow(Rows)
             press(row) == Landing(Rows, row, dir)
             presses == {<<row, press(row)>> : row \in 0..Len(Rows)}
  <2>1. here \in 0..Len(Rows) /\ DOMAIN Rows = 1..Len(Rows) /\ Len(Rows) \in Nat
    BY SelectedIsARow, RowsAreItems
  <2>2. \A row \in 0..Len(Rows) : press(row) # row
    BY PressMoves
  <2>3. \A p \in presses : p[1] # p[2]
    <3> HIDE DEF press
    <3> QED
      BY <2>2
  <2>4. ASSUME NEW reached \in SUBSET (DOMAIN Rows),
               \A p \in presses : p[1] \in reached \cup {here} => p[2] \in reached
        PROVE  {row \in DOMAIN Rows : Applies(Rows[row])} \subseteq reached
    <3>1. \A row \in reached \cup {here} : row \in 0..Len(Rows)
      BY <2>1
    <3>2. ASSUME NEW row \in reached \cup {here} PROVE press(row) \in reached
      <4>1. <<row, press(row)>> \in presses
        BY <3>1
      <4> HIDE DEF presses, press
      <4> QED
        BY <2>4, <4>1
    <3>3. reached # {}
      BY <3>2
    <3> QED
      BY <3>2, <3>3, ClosedHoldsAll
  <2> QED
    BY <2>3, <2>4
<1> QED
  BY <1>1, PTL

=============================================================================
