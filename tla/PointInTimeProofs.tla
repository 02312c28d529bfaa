------------------------- MODULE PointInTimeProofs -------------------------
(* What an Item shows (PointInTime) as known on every day: its versions keep *)
(* their type, none of them passes for verified before the observations it   *)
(* reads are, a build that ends shows the producer's view of every day of    *)
(* its range, and that history stands; for every calendar, window, producer  *)
(* and number of commits and builds.                                         *)
EXTENDS PointInTime, Integers, FiniteSets, FiniteSetTheorems, WellFoundedInduction, TLAPS

-----------------------------------------------------------------------------
(* Least and greatest numbers, and ranks.                                  *)

\* A nonempty set of natural numbers has a least element.
LEMMA NatLeast ==
    ASSUME NEW T \in SUBSET Nat, T # {}
    PROVE  \E x \in T : \A y \in T : x <= y
<1>1. PICK x \in T : \A y \in T : ~(<<y, x>> \in OpToRel(<, Nat))
    BY NatLessThanWellFounded, WFMin
<1>2. \A y \in T : ~(y < x)
    BY <1>1 DEF OpToRel
<1> QED  BY <1>2

\* A nonempty bounded one has a greatest element.
LEMMA NatGreatest ==
    ASSUME NEW n \in Nat, NEW T \in SUBSET (0 .. n), T # {}
    PROVE  \E x \in T : \A y \in T : y <= x
<1> DEFINE Bounds == {b \in Nat : \A y \in T : y <= b}
<1>1. n \in Bounds
    OBVIOUS
<1>2. PICK b \in Bounds : \A c \in Bounds : b <= c
    BY <1>1, NatLeast
<1>3. CASE b \in T
    BY <1>3
<1>4. CASE b \notin T
  <2>1. \A y \in T : y <= b - 1
      BY <1>4
  <2>2. b - 1 \in Nat
    <3>1. PICK y \in T : TRUE
        OBVIOUS
    <3>2. y \in Nat /\ y <= b - 1
        BY <2>1
    <3> QED  BY <3>2
  <2> QED  BY <1>2, <2>1, <2>2
<1> QED  BY <1>3, <1>4

\* A set of numbers up to n is finite.
LEMMA FinitePart ==
    ASSUME NEW n \in Nat, NEW S \in SUBSET (1 .. n)
    PROVE  IsFiniteSet(S) /\ Cardinality(S) \in Nat
<1>1. IsFiniteSet(1 .. n)
    BY FS_Interval
<1>2. IsFiniteSet(S)
    BY <1>1, FS_Subset
<1> QED  BY <1>2, FS_CardinalityType

\* The elements of a finite set of numbers can be counted off in order.
LEMMA RankExists ==
    ASSUME NEW n \in Nat, NEW S \in SUBSET (1 .. n), NEW i \in 1 .. Cardinality(S)
    PROVE  \E s \in S : Cardinality({t \in S : t <= s}) = i
<1> DEFINE Below(s) == {t \in S : t <= s}
           T == {s \in S : i <= Cardinality(Below(s))}
<1>0. /\ S \in SUBSET (0 .. n) /\ T \in SUBSET Nat
      /\ \A s : Below(s) \in SUBSET S
  <2>1. \A s \in S : s \in 1 .. n
      OBVIOUS
  <2>2. \A s \in S : s \in 0 .. n /\ s \in Nat
      BY <2>1
  <2> QED  BY <2>2
<1>1. IsFiniteSet(S) /\ Cardinality(S) \in Nat
    BY FinitePart
<1>2. \A s : IsFiniteSet(Below(s)) /\ Cardinality(Below(s)) \in Nat
    BY <1>0, <1>1, FS_Subset, FS_CardinalityType
<1>3. T # {}
  <2>1. S # {}
      BY <1>1, FS_EmptySet
  <2>2. PICK m \in S : \A t \in S : t <= m
      BY <1>0, <2>1, NatGreatest
  <2>3. Below(m) = S
      BY <2>2
  <2> QED  BY <1>1, <2>3
<1>4. PICK s \in T : \A t \in T : s <= t
  <2> HIDE DEF T
  <2> QED  BY <1>0, <1>3, NatLeast
<1>5. ASSUME Cardinality(Below(s)) # i PROVE FALSE
  <2> DEFINE R == Below(s) \ {s}
  <2>1. Cardinality(Below(s)) > i
      BY <1>2, <1>4, <1>5
  <2>2. Cardinality(R) = Cardinality(Below(s)) - 1
      BY <1>2, <1>4, FS_RemoveElement
  <2>3. R # {} /\ i <= Cardinality(R)
      BY <1>2, <2>1, <2>2, FS_EmptySet
  <2>4. PICK g \in R : \A t \in R : t <= g
    <3>1. R \in SUBSET (0 .. n)
        BY <1>0
    <3> HIDE DEF R
    <3> QED  BY <2>3, <3>1, NatGreatest
  <2>5. Below(g) = R
    <3>1. s \in Nat /\ g \in S /\ g <= s /\ g # s /\ \A t \in S : t \in Nat
        BY <1>0, <1>4, <2>4
    <3>2. ASSUME NEW t \in S PROVE t \in Below(g) <=> t \in R
        BY <2>4, <3>1
    <3>3. Below(g) \subseteq S /\ R \subseteq S
        BY <1>0
    <3> HIDE DEF Below, R
    <3> QED  BY <3>2, <3>3
  <2>6. g \in T /\ g < s
      BY <1>4, <2>3, <2>4, <2>5
  <2> QED  BY <1>4, <2>6
<1> QED  BY <1>4, <1>5

-----------------------------------------------------------------------------
(* The inductive invariant.                                                 *)

\* Every unverified observation of a window known by a day is replaced by then.
Clean(t, day) ==
    \A s \in raw :
        s.baseline /\ s.time \in t - Window + 1 .. t /\ s.at <= day =>
            \E q \in raw : q.time = s.time /\ q.at <= day /\ Later(q, s)

ItemValues == Readings \cup {Null, Foreign}

\* Versions of one dataset: there is a last commit among them.
Versions(rows, values) ==
    rows \subseteq Rows(values) /\ \E n \in Nat : \A r \in rows : r.seq <= n

RawOK ==
    /\ Versions(raw, Values)
    /\ \A r \in raw : r.time <= r.at /\ (r.baseline => r.at = r.time)

BuildTyped ==
    /\ build \in [phase : {"none", "building", "repairing", "withdrawing"},
                  first : Days, last : Days, on : Days, raw : Nat,
                  inputs : SUBSET Rows(Values), reconciled : SUBSET Nat,
                  previous : SUBSET Rows(ItemValues), pending : SUBSET Rows(ItemValues)]
    /\ build.first <= build.last
    /\ Versions(build.previous, ItemValues) /\ Versions(build.pending, ItemValues)

\* A build has frozen every version known by the end of its range.
Frozen == build.inputs = {r \in raw : r.at <= build.last}

\* The evaluations reconciled so far are the first ones, the last of them kept.
PreviousKept ==
    \E k \in 0 .. NumBoundaries :
        /\ build.reconciled = 1 .. k
        /\ build.previous = IF k = 0 THEN {} ELSE Output(k)

PendingClean ==
    \A r \in build.pending : r.time <= r.at /\ (~r.baseline => Clean(r.time, r.at))

BuildOK == Building => raw # {} /\ Frozen /\ PreviousKept /\ PendingClean

ItemClean == \A r \in item : ~r.baseline /\ r.value # Foreign => Clean(r.time, r.at)

IInv ==
    /\ TypeOK /\ Versions(item, ItemValues)
    /\ RawOK /\ BuildTyped /\ BuildOK
    /\ ItemClean /\ (raw = {} => item = {})
-----------------------------------------------------------------------------
(* Numbers of days and of commits.                                          *)

LEMMA Constants ==
    /\ LastDay \in Nat /\ Window \in Nat /\ Lag \in Nat /\ LastDay >= 1 /\ Window >= 1
    /\ \A d \in Days : d \in Nat /\ d \in Int /\ d >= 1
BY PointInTimeAssumption DEF Days

LEMMA MaxPair ==
    ASSUME NEW a \in Nat, NEW b \in Nat
    PROVE  /\ Max({a, b}) \in Nat
           /\ a <= Max({a, b}) /\ b <= Max({a, b})
           /\ Max({a, b}) = a \/ Max({a, b}) = b
<1>1. \E x \in {a, b} : \A y \in {a, b} : x >= y
  <2>1. CASE a >= b
      BY <2>1
  <2>2. CASE ~(a >= b)
      BY <2>2
  <2> QED  BY <2>1, <2>2
<1>2. Max({a, b}) \in {a, b} /\ \A y \in {a, b} : Max({a, b}) >= y
    BY <1>1, Zenon DEF Max
<1> QED  BY <1>2

\* The number of the last commit, 0 when there is none.
LEMMA LastCommitTyped ==
    ASSUME NEW values, NEW rows, Versions(rows, values)
    PROVE  LastCommit(rows) \in Nat /\ \A r \in rows : r.seq <= LastCommit(rows)
<1> DEFINE T == {0} \cup {r.seq : r \in rows}
<1>1. PICK n \in Nat : \A r \in rows : r.seq <= n
    BY DEF Versions
<1>2. T \in SUBSET (0 .. n) /\ T # {}
    BY <1>1 DEF Versions, Rows
<1>3. PICK x \in T : \A y \in T : y <= x
    BY <1>2, NatGreatest
<1>4. \E x1 \in T : \A y \in T : x1 >= y
    BY <1>2, <1>3
<1>5. Max(T) \in T /\ \A y \in T : Max(T) >= y
    BY <1>4, Zenon DEF Max
<1>6. LastCommit(rows) = Max(T)
    BY DEF LastCommit
<1> QED  BY <1>1, <1>2, <1>5, <1>6 DEF Versions, Rows

\* What a commit adds: its rows with the next number, and witnesses of baselines,
\* known from no earlier than the row that repeats them.
Added(q, rows, old, of) ==
    LET seq == LastCommit(old) + 1
    IN \/ \E r \in rows : q = [r EXCEPT !.seq = seq]
       \/ \E r \in rows, s \in old :
             /\ ~r.baseline /\ s.baseline
             /\ r.time = s.time /\ r.value = s.value
             /\ q = Witness(s, r, of, seq)

LEMMA CommittedRows ==
    ASSUME NEW values, NEW rows, Versions(rows, values), NEW old, Versions(old, values),
           NEW of
    PROVE  /\ Versions(Committed(rows, old, of), values)
           /\ \A q \in Committed(rows, old, of) : q \in old \/ Added(q, rows, old, of)
           /\ old \subseteq Committed(rows, old, of)
<1> DEFINE seq == LastCommit(old) + 1
<1>1. seq \in Nat /\ \A r \in old : r.seq <= seq
  <2>1. LastCommit(old) \in Nat /\ \A r \in old : r.seq <= LastCommit(old)
      BY LastCommitTyped
  <2>2. \A r \in old : r.seq \in Nat
      BY DEF Versions, Rows
  <2> QED  BY <2>1, <2>2
<1>2. ASSUME NEW q \in Committed(rows, old, of)
      PROVE  q \in old \/ Added(q, rows, old, of)
  <2>1. CASE q \in old
      BY <2>1
  <2>2. CASE q \in {[r EXCEPT !.seq = seq] : r \in NewRows(rows, old)}
      BY <2>2 DEF NewRows, Added
  <2>3. CASE q \in Attested(rows, old, of, seq)
    <3>1. PICK r \in {x \in rows : ~x.baseline} :
              q \in {Witness(s, r, of, seq) : s \in {x \in Latest(old) :
                        x.time = r.time /\ x.value = r.value /\ x.baseline}}
        BY <2>3 DEF Attested
    <3>2. PICK s \in Latest(old) :
              s.time = r.time /\ s.value = r.value /\ s.baseline /\ q = Witness(s, r, of, seq)
        BY <3>1
    <3>3. r \in rows /\ ~r.baseline /\ s \in old
        BY DEF Latest
    <3> QED  BY <3>2, <3>3, Zenon DEF Added
  <2> QED  BY <1>2, <2>1, <2>2, <2>3 DEF Committed
<1>3. ASSUME NEW q \in Committed(rows, old, of)
      PROVE  q \in Rows(values) /\ q.seq <= seq
  <2>1. CASE q \in old
      BY <2>1, <1>1 DEF Versions
  <2>2. ASSUME NEW r \in rows, q = [r EXCEPT !.seq = seq]
        PROVE  q \in Rows(values) /\ q.seq <= seq
      BY <2>2, <1>1 DEF Versions, Rows
  <2>3. ASSUME NEW r \in rows, NEW s \in old, q = Witness(s, r, of, seq)
        PROVE  q \in Rows(values) /\ q.seq <= seq
    <3>1. r \in Rows(values) /\ s \in Rows(values)
        BY DEF Versions
    <3>2. Floor(s, of) \in Nat /\ r.at \in Nat
        BY <3>1, Constants DEF Floor, Rows
    <3>3. Max({Floor(s, of), r.at}) \in Nat
        BY <3>2, MaxPair
    <3> HIDE DEF seq
    <3>4. Witness(s, r, of, seq) \in Rows(values) /\ Witness(s, r, of, seq).seq = seq
        BY <3>1, <3>3, <1>1 DEF Rows, Witness
    <3> QED  BY <2>3, <3>4, <1>1
  <2> QED  BY <1>2, <2>1, <2>2, <2>3, Zenon DEF Added
<1>4. Versions(Committed(rows, old, of), values)
    BY <1>1, <1>3 DEF Versions
<1>5. old \subseteq Committed(rows, old, of)
    BY DEF Committed
<1> QED  BY <1>2, <1>4, <1>5

-----------------------------------------------------------------------------
(* Boundaries.                                                              *)

LEMMA BoundariesTyped ==
    ASSUME RawOK, BuildTyped, Frozen
    PROVE  /\ Boundaries \in SUBSET (0 .. LastDay) /\ 0 \in Boundaries
           /\ IsFiniteSet(Boundaries) /\ \A b \in Boundaries : b \in Nat
           /\ NumBoundaries \in Nat /\ NumBoundaries >= 1
           /\ \A b \in Boundaries : b <= build.last /\ (b = 0 \/ b > build.first)
           /\ \A r \in build.inputs :
                 r.at > r.time /\ r.at > build.first /\ r.at <= build.last => r.at \in Boundaries
<1>1. build.last \in 1 .. LastDay /\ build.first \in 1 .. LastDay
    BY DEF BuildTyped, Days
<1>2. \A r \in build.inputs : r.at \in Nat
    BY DEF RawOK, Versions, Frozen, Rows
<1>3. /\ Boundaries \in SUBSET (0 .. LastDay) /\ 0 \in Boundaries
      /\ \A b \in Boundaries : b \in Nat
    BY <1>1, <1>2, Constants DEF Boundaries
<1>4. IsFiniteSet(Boundaries)
  <2>1. IsFiniteSet(0 .. LastDay)
      BY FS_Interval, Constants
  <2> QED  BY <1>3, <2>1, FS_Subset
<1>5. NumBoundaries \in Nat /\ NumBoundaries # 0
    BY <1>3, <1>4, FS_CardinalityType, FS_EmptySet DEF NumBoundaries
<1>6. \A b \in Boundaries : b <= build.last /\ (b = 0 \/ b > build.first)
    BY <1>1, Constants DEF Boundaries
<1>7. \A r \in build.inputs :
          r.at > r.time /\ r.at > build.first /\ r.at <= build.last => r.at \in Boundaries
    BY DEF Boundaries
<1> QED  BY <1>3, <1>4, <1>5, <1>6, <1>7

\* The boundaries are counted off in order: none lies between two neighbours
\* and none after the last.
LEMMA BoundaryRank ==
    ASSUME RawOK, BuildTyped, Frozen, NEW i \in 1 .. NumBoundaries
    PROVE  /\ Boundary(i) \in Boundaries
           /\ Cardinality({c \in Boundaries : c < Boundary(i)}) = i - 1
<1> DEFINE S == Boundaries \ {0}
           Below(b) == {c \in Boundaries : c < b}
<1>0. /\ Boundaries \in SUBSET (0 .. LastDay) /\ 0 \in Boundaries
      /\ IsFiniteSet(Boundaries) /\ NumBoundaries \in Nat /\ LastDay \in Nat
      /\ \A b \in Boundaries : b \in Nat
    BY BoundariesTyped, Constants
<1>a. 0 \in Boundaries /\ \A b \in Boundaries : b \in Nat
    BY BoundariesTyped
<1>1. S \in SUBSET (1 .. LastDay) /\ IsFiniteSet(S) /\ Cardinality(S) = NumBoundaries - 1
    BY <1>0, FS_RemoveElement DEF NumBoundaries
<1>2. \E b \in Boundaries : Cardinality(Below(b)) = i - 1
  <2>1. CASE i = 1
    <3>1. Below(0) = {}
        BY <1>a
    <3> QED  BY <2>1, <3>1, <1>0, FS_EmptySet
  <2>2. CASE i # 1
    <3>1. i - 1 \in 1 .. Cardinality(S)
        BY <1>0, <1>1, <2>2
    <3>2. PICK b \in S : Cardinality({t \in S : t <= b}) = i - 1
        BY <1>0, <1>1, <3>1, RankExists
    <3> DEFINE T == {t \in S : t <= b}
    <3>3. IsFiniteSet(T) /\ b \in T /\ 0 \notin T
        BY <1>1, FS_Subset
    <3>4. IsFiniteSet(T \ {b}) /\ Cardinality(T \ {b}) = i - 2
        BY <3>2, <3>3, FS_RemoveElement
    <3>b. b \in Boundaries /\ b # 0
        OBVIOUS
    <3>5. Below(b) = (T \ {b}) \cup {0}
        BY <1>a, <3>b
    <3>6. Cardinality(Below(b)) = i - 1
        BY <3>3, <3>4, <3>5, FS_AddElement
    <3> QED  BY <3>6
  <2> QED  BY <2>1, <2>2
<1> QED  BY <1>2, Zenon DEF Boundary

LEMMA BoundaryOrder ==
    ASSUME RawOK, BuildTyped, Frozen, NEW i \in 1 .. NumBoundaries
    PROVE  /\ Boundary(i) \in Nat /\ Cutoff(i) \in Nat /\ Boundary(i) <= Cutoff(i)
           /\ Cutoff(i) <= build.last /\ build.first <= Cutoff(i)
           /\ \A c \in Boundaries : ~(Boundary(i) < c /\ c <= Cutoff(i))
           /\ i < NumBoundaries => Cutoff(i) = Boundary(i + 1) - 1
           /\ i = NumBoundaries => Cutoff(i) = build.last
<1> DEFINE Below(b) == {c \in Boundaries : c < b}
<1>0. /\ Boundaries \in SUBSET (0 .. LastDay) /\ 0 \in Boundaries
      /\ IsFiniteSet(Boundaries) /\ NumBoundaries \in Nat /\ LastDay \in Nat
      /\ \A b \in Boundaries : b \in Nat /\ b <= build.last /\ (b = 0 \/ b > build.first)
      /\ build.last \in Nat /\ build.first \in Nat /\ build.first <= build.last
    BY BoundariesTyped, Constants DEF BuildTyped
<1>a. /\ \A b \in Boundaries : b \in Nat /\ b <= build.last /\ (b = 0 \/ b > build.first)
      /\ build.last \in Nat /\ build.first \in Nat /\ build.first <= build.last
    BY <1>0
<1>1. /\ Boundary(i) \in Boundaries /\ Cardinality(Below(Boundary(i))) = i - 1
      /\ IsFiniteSet(Below(Boundary(i)))
    BY BoundaryRank, <1>0, FS_Subset
<1>b. Boundary(i) \in Boundaries
    BY <1>1
<1>2. ASSUME NEW c \in Boundaries, Boundary(i) < c,
             NEW T \in SUBSET Boundaries, Below(Boundary(i)) \cup {Boundary(i), c} \subseteq T
      PROVE  Cardinality(T) >= i + 1
  <2> DEFINE L == Below(Boundary(i))
  <2>0. Boundary(i) \notin L
      BY <1>a, <1>b
  <2>1. IsFiniteSet(L \cup {Boundary(i)}) /\ Cardinality(L \cup {Boundary(i)}) = i
      BY <2>0, <1>1, FS_AddElement
  <2>2. c \notin L \cup {Boundary(i)}
      BY <1>a, <1>b, <1>2
  <2>3. Cardinality((L \cup {Boundary(i)}) \cup {c}) = i + 1
      BY <2>1, <2>2, FS_AddElement
  <2>4. (L \cup {Boundary(i)}) \cup {c} \in SUBSET T /\ IsFiniteSet(T)
      BY <1>2, <1>0, FS_Subset
  <2>5. Cardinality((L \cup {Boundary(i)}) \cup {c}) <= Cardinality(T)
      BY <2>4, FS_Subset
  <2>6. Cardinality(T) \in Nat
      BY <2>4, FS_CardinalityType
  <2> QED  BY <2>3, <2>5, <2>6
<1>3. CASE i = NumBoundaries
  <2>1. \A c \in Boundaries : ~(Boundary(i) < c)
    <3> SUFFICES ASSUME NEW c \in Boundaries, Boundary(i) < c PROVE FALSE
        OBVIOUS
    <3>1. Below(Boundary(i)) \cup {Boundary(i), c} \subseteq Boundaries
        BY <1>1
    <3>2. Cardinality(Boundaries) >= i + 1
        BY <1>2, <3>1
    <3> QED  BY <3>2, <1>3, <1>0 DEF NumBoundaries
  <2>2. Cutoff(i) = build.last
      BY <1>3 DEF Cutoff
  <2> QED  BY <1>a, <1>b, <1>3, <2>1, <2>2
<1>4. CASE i # NumBoundaries
  <2>0. i + 1 \in 1 .. NumBoundaries
      BY <1>4, <1>0
  <2>1. /\ Boundary(i + 1) \in Boundaries /\ Cardinality(Below(Boundary(i + 1))) = i
    <3> HIDE DEF Below
    <3>1. Cardinality({c \in Boundaries : c < Boundary(i + 1)}) = (i + 1) - 1
        BY BoundaryRank, <2>0
    <3> QED  BY BoundaryRank, <2>0, <3>1 DEF Below
  <2>b. Boundary(i + 1) \in Boundaries
      BY <2>1
  <2>2. Boundary(i) < Boundary(i + 1)
    <3> SUFFICES ASSUME ~(Boundary(i) < Boundary(i + 1)) PROVE FALSE
        OBVIOUS
    <3>1. Below(Boundary(i + 1)) \in SUBSET Below(Boundary(i))
        BY <1>a, <1>b, <2>b
    <3>2. Cardinality(Below(Boundary(i + 1))) <= Cardinality(Below(Boundary(i)))
        BY <3>1, <1>1, FS_Subset
    <3> QED  BY <3>2, <1>1, <2>1
  <2>3. \A c \in Boundaries : ~(Boundary(i) < c /\ c < Boundary(i + 1))
    <3> SUFFICES ASSUME NEW c \in Boundaries, Boundary(i) < c, c < Boundary(i + 1) PROVE FALSE
        OBVIOUS
    <3>1. /\ Below(Boundary(i)) \cup {Boundary(i), c} \subseteq Below(Boundary(i + 1))
          /\ Below(Boundary(i + 1)) \in SUBSET Boundaries
        BY <1>a, <1>b, <2>b, <2>2
    <3>2. Cardinality(Below(Boundary(i + 1))) >= i + 1
        BY <1>2, <3>1
    <3> QED  BY <3>2, <2>1
  <2>4. Cutoff(i) = Boundary(i + 1) - 1
      BY <1>4 DEF Cutoff
  <2>5. Boundary(i + 1) \in Nat /\ Boundary(i + 1) > build.first /\ Boundary(i + 1) <= build.last
      BY <1>a, <1>b, <2>b, <2>2
  <2>6. i \in Nat /\ NumBoundaries \in Nat
      BY <1>0
  <2> QED  BY <1>a, <1>b, <1>4, <2>2, <2>3, <2>4, <2>5, <2>6
<1> QED  BY <1>3, <1>4

-----------------------------------------------------------------------------
(* Evaluations.                                                             *)

LEMMA OutputRows ==
    ASSUME RawOK, BuildTyped, Frozen, NEW i \in 1 .. NumBoundaries, NEW r \in Output(i)
    PROVE  /\ r \in Rows(ItemValues) /\ r.seq = 0
           /\ build.first <= r.time /\ r.time <= build.last /\ r.time <= Cutoff(i)
           /\ r.time <= r.at /\ Boundary(i) <= r.at
           /\ r.baseline = Unverified(Known(build.inputs, Cutoff(i)))
<1> DEFINE known == Known(build.inputs, Cutoff(i))
           at(t) == Max({t + Lag, Boundary(i)})
<1>0. /\ Boundary(i) \in Nat /\ Cutoff(i) \in Nat /\ Lag \in Nat
      /\ build.first \in Days /\ build.last \in Days
      /\ \A d \in Days : d \in Nat
    BY BoundaryOrder, Constants DEF BuildTyped
<1>1. PICK t \in Produced(known) \cap build.first .. build.last :
          r = Row(t, at(t), Reading(known, t), Unverified(known))
    BY Zenon DEF Output
<1>2. PICK s \in known : s.time = t
    BY DEF Produced
<1>3. s \in raw /\ s.at <= Cutoff(i)
    BY DEF Known, Latest, Frozen
<1>4. t \in Days /\ t \in Nat /\ t <= Cutoff(i)
    BY <1>0, <1>2, <1>3 DEF RawOK, Versions, Rows
<1>5. at(t) \in Nat /\ t <= at(t) /\ Boundary(i) <= at(t)
  <2>1. t + Lag \in Nat /\ t <= t + Lag
      BY <1>0, <1>4
  <2>2. at(t) \in Nat /\ t + Lag <= at(t) /\ Boundary(i) <= at(t)
      BY <2>1, <1>0, MaxPair
  <2> QED  BY <2>1, <2>2, <1>0, <1>4
<1>6. Reading(known, t) \in ItemValues
  <2>1. \A q \in known : q \in raw
      BY DEF Known, Latest, Frozen
  <2>2. \A q \in raw : q.time \in Days /\ q.value \in Values
      BY DEF RawOK, Versions, Rows
  <2> HIDE DEF known
  <2>3. Reading(known, t) \subseteq Days \X Values
      BY <2>1, <2>2 DEF Reading
  <2> QED  BY <2>3 DEF ItemValues, Readings
<1>7. Unverified(known) \in BOOLEAN
    BY DEF Unverified
<1> HIDE DEF known, at
<1>8. r \in Rows(ItemValues) /\ r.seq = 0 /\ r.time = t /\ r.at = at(t)
      /\ r.baseline = Unverified(known)
    BY <1>1, <1>4, <1>5, <1>6, <1>7 DEF Row, Rows
<1> QED  BY <1>1, <1>4, <1>5, <1>8, <1>0 DEF known

\* An evaluation that saw no unverified observation vouches for its rows on every
\* day after its boundary: what became known since it is of later observations.
LEMMA EvaluationClean ==
    ASSUME RawOK, BuildTyped, Frozen, NEW i \in 1 .. NumBoundaries,
           ~Unverified(Known(build.inputs, Cutoff(i))),
           NEW t \in Days, build.first <= t, t <= build.last, t <= Cutoff(i),
           NEW day \in Nat, t <= day, Boundary(i) <= day
    PROVE  Clean(t, day)
<1> SUFFICES ASSUME NEW s \in raw, s.baseline, s.time \in t - Window + 1 .. t, s.at <= day
             PROVE  \E q \in raw : q.time = s.time /\ q.at <= day /\ Later(q, s)
    BY DEF Clean
<1>0. /\ Boundary(i) \in Nat /\ Cutoff(i) \in Nat /\ Cutoff(i) <= build.last
      /\ build.first \in Nat /\ build.last \in Nat /\ t \in Nat
    BY BoundaryOrder, Constants DEF BuildTyped
<1>1. s.at = s.time /\ s.at \in Nat /\ s.time <= t
  <2>1. s.time \in Days /\ s.at \in Nat
      BY DEF RawOK, Versions, Rows
  <2> QED  BY <2>1, <1>0, Constants DEF RawOK
<1>2. s \in build.inputs /\ s.at <= Cutoff(i)
    BY <1>0, <1>1 DEF Frozen
<1>3. PICK q \in build.inputs : q.at <= Cutoff(i) /\ q.time = s.time /\ Later(q, s)
  <2>1. s \notin Known(build.inputs, Cutoff(i))
      BY DEF Unverified
  <2> QED  BY <2>1, <1>2 DEF Known, Latest
<1>4. q \in raw /\ q.at \in Nat /\ q.at <= build.last
    BY DEF Frozen, RawOK, Versions, Rows
<1>5. q.at <= day
  <2> SUFFICES ASSUME ~(q.at <= day) PROVE FALSE
      OBVIOUS
  <2>1. q.at > q.time /\ q.at > build.first
      BY <1>0, <1>1, <1>3, <1>4
  <2>2. q.at \in Boundaries
      BY <2>1, <1>4, BoundariesTyped
  <2>3. Boundary(i) < q.at /\ q.at <= Cutoff(i)
      BY <1>0, <1>3, <1>4
  <2> QED  BY <2>2, <2>3, BoundaryOrder
<1> QED  BY <1>3, <1>4, <1>5

\* A row is vouched for on every day after it was.
LEMMA CleanLater ==
    ASSUME RawOK, NEW t \in Days, NEW day \in Nat, NEW later \in Nat,
           t <= day, day <= later, Clean(t, day)
    PROVE  Clean(t, later)
<1> SUFFICES ASSUME NEW s \in raw, s.baseline, s.time \in t - Window + 1 .. t, s.at <= later
             PROVE  \E q \in raw : q.time = s.time /\ q.at <= later /\ Later(q, s)
    BY DEF Clean
<1>1. s.time \in Nat /\ s.at = s.time /\ t \in Nat
    BY Constants DEF RawOK, Versions, Rows
<1>2. s.at <= day
    BY <1>1, Constants
<1>3. PICK q \in raw : q.time = s.time /\ q.at <= day /\ Later(q, s)
    BY <1>2 DEF Clean
<1>4. q.at \in Nat
    BY DEF RawOK, Versions, Rows
<1> QED  BY <1>3, <1>4

\* Later commits of the input add verified versions only.
LEMMA CleanStays ==
    ASSUME NEW t, NEW day, Clean(t, day), raw \subseteq raw',
           \A r \in raw' : r \in raw \/ ~r.baseline
    PROVE  Clean(t, day)'
BY DEF Clean, Later

LEMMA SameEvaluations ==
    ASSUME build'.first = build.first, build'.last = build.last, build'.inputs = build.inputs
    PROVE  /\ NumBoundaries' = NumBoundaries
           /\ \A i : /\ Boundary(i)' = Boundary(i) /\ Cutoff(i)' = Cutoff(i)
                     /\ Output(i)' = Output(i)
<1>1. Boundaries' = Boundaries
    BY DEF Boundaries
<1>2. NumBoundaries' = NumBoundaries
    BY <1>1 DEF NumBoundaries
<1>3. \A i : Boundary(i)' = Boundary(i)
    BY <1>1 DEF Boundary
<1>4. \A i : Cutoff(i)' = Cutoff(i)
    BY <1>2, <1>3 DEF Cutoff
<1>5. ASSUME NEW i PROVE Output(i)' = Output(i)
    BY <1>3, <1>4 DEF Output
<1> QED  BY <1>2, <1>3, <1>4, <1>5

-----------------------------------------------------------------------------
(* Steps of the inputs.                                                     *)

LEMMA NewRowsTyped ==
    ASSUME NEW t \in Days, NEW at \in Nat, NEW values, NEW value \in values,
           NEW baseline \in BOOLEAN
    PROVE  /\ Row(t, at, value, baseline) \in Rows(values)
           /\ Versions({Row(t, at, value, baseline)}, values)
<1>1. Row(t, at, value, baseline) \in Rows(values) /\ Row(t, at, value, baseline).seq = 0
    BY DEF Row, Rows
<1> QED  BY <1>1 DEF Versions

\* The rest of the invariant when the input alone grew, between two builds.
LEMMA RawStep ==
    ASSUME IInv, ~Building, UNCHANGED <<today, item, build, frozen>>, RawOK',
           raw \subseteq raw', \A r \in raw' : r \in raw \/ ~r.baseline \/ item = {},
           raw' # {}
    PROVE  IInv'
<1>1. ItemClean'
  <2> SUFFICES ASSUME NEW r \in item', ~r.baseline, r.value # Foreign
               PROVE  Clean(r.time, r.at)'
      BY DEF ItemClean
  <2>1. Clean(r.time, r.at) /\ item # {}
      BY DEF IInv, ItemClean
  <2> QED  BY <2>1, CleanStays
<1>2. BuildTyped' /\ BuildOK'
    BY DEF IInv, BuildTyped, BuildOK, Building, Versions
<1>3. TypeOK'
    BY DEF IInv, TypeOK, RawOK, Versions
<1>4. Versions(item, ItemValues)'
    BY DEF IInv, Versions
<1> QED  BY <1>1, <1>2, <1>3, <1>4 DEF IInv

LEMMA InitializeRawStep == ASSUME IInv, InitializeRaw PROVE IInv'
<1> USE DEF IInv
<1>1. PICK reported \in [1 .. today -> Values] :
          raw' = {[Row(t, t, reported[t], TRUE) EXCEPT !.seq = 1] : t \in 1 .. today}
    BY DEF InitializeRaw
<1>2. today \in Days /\ today \in Nat /\ today >= 1
    BY Constants DEF TypeOK
<1>3. \A t \in 1 .. today : t \in Days /\ t \in Nat
    BY <1>2, Constants DEF Days
<1>4. ASSUME NEW r \in raw'
      PROVE  r \in Rows(Values) /\ r.at = r.time /\ r.seq = 1
  <2>1. PICK t \in 1 .. today : r = [Row(t, t, reported[t], TRUE) EXCEPT !.seq = 1]
      BY <1>1
  <2>2. t \in Days /\ t \in Nat /\ reported[t] \in Values
      BY <1>3
  <2> QED  BY <2>1, <2>2 DEF Row, Rows
<1>5. \A r \in raw' : r.time \in Nat
    BY <1>4, Constants DEF Rows
<1>6. RawOK'
    BY <1>4, <1>5 DEF RawOK, Versions
<1>7. raw' # {}
  <2>1. 1 \in 1 .. today
      BY <1>2
  <2> QED  BY <1>1, <2>1
<1>8. ~Building /\ item = {} /\ raw = {}
    BY DEF InitializeRaw, BuildOK
<1>9. UNCHANGED <<today, item, build, frozen>>
    BY DEF InitializeRaw
<1> QED  BY <1>6, <1>7, <1>8, <1>9, RawStep

LEMMA UpdateRawStep == ASSUME IInv, UpdateRaw PROVE IInv'
<1> USE DEF IInv
<1>1. PICK t \in 1 .. today, value \in Values :
          raw' = Committed({Row(t, today, value, FALSE)}, raw, "raw")
    BY DEF UpdateRaw
<1> DEFINE new == Row(t, today, value, FALSE)
<1>2. today \in Days /\ today \in Nat /\ t \in Days /\ t \in Nat /\ t <= today
    BY Constants DEF TypeOK, Days
<1>3. Versions({new}, Values) /\ Versions(raw, Values)
    BY <1>2, NewRowsTyped DEF RawOK
<1>a. new.time = t /\ new.at = today /\ new.baseline = FALSE
      /\ new = [time |-> t, at |-> today, value |-> value, baseline |-> FALSE, seq |-> 0]
    BY DEF Row
<1> HIDE DEF new
<1>4. /\ Versions(raw', Values) /\ raw \subseteq raw'
      /\ \A q \in raw' : q \in raw \/ Added(q, {new}, raw, "raw")
    BY <1>1, <1>3, CommittedRows DEF new
<1>5. ASSUME NEW q \in raw'
      PROVE  q \in raw \/ (q.time <= q.at /\ q.baseline = FALSE)
  <2> DEFINE seq == LastCommit(raw) + 1
  <2>1. CASE q \in raw
      BY <2>1
  <2>2. CASE q = [new EXCEPT !.seq = seq]
      BY <2>2, <1>a, <1>2
  <2>3. ASSUME NEW s \in raw, q = Witness(s, new, "raw", seq)
        PROVE  q.time <= q.at /\ q.baseline = FALSE
    <3>1. /\ s \in Rows(Values) /\ s.at \in Nat /\ s.time \in Nat /\ s.time <= s.at
        BY Constants DEF RawOK, Versions, Rows
    <3>2. Floor(s, "raw") = s.at
        BY DEF Floor
    <3>3. Max({s.at, new.at}) \in Nat /\ s.at <= Max({s.at, new.at})
        BY <3>1, <1>a, <1>2, MaxPair
    <3>4. q.time = s.time /\ q.at = Max({s.at, new.at}) /\ q.baseline = FALSE
        BY <2>3, <3>1, <3>2 DEF Rows, Witness
    <3> QED  BY <3>1, <3>3, <3>4
  <2>4. CASE Added(q, {new}, raw, "raw")
    <3>1. CASE \E r \in {new} : q = [r EXCEPT !.seq = seq]
        BY <3>1, <2>2
    <3>2. CASE \E r \in {new}, s \in raw : q = Witness(s, r, "raw", seq)
        BY <3>2, <2>3
    <3> QED  BY <2>4, <3>1, <3>2, Zenon DEF Added
  <2> QED  BY <1>4, <2>1, <2>4
<1>6. RawOK'
  <2>1. \A q \in raw' : q.time <= q.at /\ (q.baseline => q.at = q.time)
      BY <1>5 DEF RawOK
  <2> QED  BY <1>4, <2>1 DEF RawOK
<1>7. raw' # {}
  <2>1. raw' # raw
      BY DEF UpdateRaw
  <2> QED  BY <2>1, <1>4
<1>8. ~Building /\ UNCHANGED <<today, item, build, frozen>>
    BY DEF UpdateRaw
<1> HIDE DEF IInv
<1> QED  BY <1>4, <1>5, <1>6, <1>7, <1>8, RawStep

LEMMA TickStep == ASSUME IInv, Tick PROVE IInv'
<1>1. today' \in Days
    BY Constants DEF IInv, TypeOK, Tick, Days
<1>2. ~Building /\ UNCHANGED <<raw, item, build, frozen>>
    BY DEF Tick
<1>3. RawOK' /\ ItemClean'
    BY <1>2 DEF IInv, RawOK, Versions, ItemClean, Clean, Later
<1>4. BuildTyped' /\ BuildOK'
    BY <1>2 DEF IInv, BuildTyped, BuildOK, Building, Versions
<1>5. TypeOK' /\ Versions(item, ItemValues)'
    BY <1>1, <1>2 DEF IInv, TypeOK, Versions
<1> QED  BY <1>2, <1>3, <1>4, <1>5 DEF IInv

-----------------------------------------------------------------------------
(* Steps of the Item.                                                       *)

\* A commit of rows that are vouched for, or of another caller's.
LEMMA ItemStep ==
    ASSUME IInv, raw # {}, NEW rows, Versions(rows, ItemValues),
           \A r \in rows : r.time <= r.at /\ (~r.baseline /\ r.value # Foreign => Clean(r.time, r.at)),
           item' = Committed(rows, item, "item"), UNCHANGED <<today, raw, frozen>>
    PROVE  /\ Versions(item, ItemValues)' /\ ItemClean' /\ RawOK' /\ (raw = {} => item = {})'
           /\ (today \in Days)' /\ (raw \subseteq Rows(Values))'
           /\ (item \subseteq Rows(Readings \cup {Null, Foreign}))'
<1> USE DEF IInv
<1>1. /\ Versions(item', ItemValues) /\ item \subseteq item'
      /\ \A q \in item' : q \in item \/ Added(q, rows, item, "item")
    BY CommittedRows
<1>2. ASSUME NEW q \in item', ~q.baseline, q.value # Foreign
      PROVE  Clean(q.time, q.at)
  <2> DEFINE seq == LastCommit(item) + 1
  <2>1. CASE q \in item
      BY <2>1, <1>2 DEF ItemClean
  <2>2. ASSUME NEW r \in rows, q = [r EXCEPT !.seq = seq]
        PROVE  Clean(q.time, q.at)
    <3>1. r \in Rows(ItemValues)
        BY DEF Versions
    <3>2. q.time = r.time /\ q.at = r.at /\ q.baseline = r.baseline /\ q.value = r.value
        BY <2>2, <3>1 DEF Rows
    <3> QED  BY <3>2, <1>2
  <2>3. ASSUME NEW r \in rows, NEW s \in item, ~r.baseline, r.time = s.time, r.value = s.value,
               q = Witness(s, r, "item", seq)
        PROVE  Clean(q.time, q.at)
    <3>1. /\ s \in Rows(ItemValues) /\ s.time \in Nat
          /\ r \in Rows(ItemValues) /\ r.time \in Days /\ r.at \in Nat
        BY Constants DEF Versions, Rows
    <3>2. Floor(s, "item") \in Nat
        BY <3>1, Constants DEF Floor
    <3>3. /\ Max({Floor(s, "item"), r.at}) \in Nat
          /\ r.at <= Max({Floor(s, "item"), r.at})
        BY <3>1, <3>2, MaxPair
    <3>4. q.time = r.time /\ q.at = Max({Floor(s, "item"), r.at}) /\ q.value = r.value
        BY <2>3, <3>1 DEF Rows, Witness
    <3>5. Clean(r.time, r.at) /\ r.time <= r.at
        BY <3>4, <1>2, <2>3
    <3>6. Clean(r.time, Max({Floor(s, "item"), r.at}))
        BY <3>1, <3>3, <3>5, CleanLater
    <3> QED  BY <3>4, <3>6
  <2>4. CASE Added(q, rows, item, "item")
      BY <2>4, <2>2, <2>3, Zenon DEF Added
  <2> QED  BY <1>1, <2>1, <2>4
<1>3. ItemClean'
  <2> SUFFICES ASSUME NEW q \in item', ~q.baseline, q.value # Foreign
               PROVE  Clean(q.time, q.at)'
      BY DEF ItemClean
  <2> QED  BY <1>2, CleanStays
<1>4. RawOK' /\ (raw = {} => item = {})' /\ (today \in Days)' /\ (raw \subseteq Rows(Values))'
    BY DEF RawOK, Versions, TypeOK
<1>5. Versions(item, ItemValues)' /\ (item \subseteq Rows(Readings \cup {Null, Foreign}))'
    BY <1>1 DEF Versions, ItemValues, Readings
<1> QED  BY <1>3, <1>4, <1>5

LEMMA IngestStep == ASSUME IInv, Ingest PROVE IInv'
<1>1. PICK t \in 1 .. today : item' = Committed({Row(t, today, Foreign, FALSE)}, item, "item")
    BY DEF Ingest
<1> DEFINE new == Row(t, today, Foreign, FALSE)
<1>2. today \in Days /\ today \in Nat /\ t \in Days /\ t \in Nat /\ t <= today
    BY Constants DEF IInv, TypeOK, Days
<1>3. Versions({new}, ItemValues)
    BY <1>2, NewRowsTyped DEF ItemValues
<1>4. new.value = Foreign /\ new.time <= new.at
    BY <1>2 DEF Row
<1>5. ~Building /\ raw # {} /\ UNCHANGED <<today, raw, build, frozen>>
    BY DEF Ingest, IInv
<1> HIDE DEF new
<1>6. /\ Versions(item, ItemValues)' /\ ItemClean' /\ RawOK' /\ (raw = {} => item = {})'
      /\ (today \in Days)' /\ (raw \subseteq Rows(Values))'
      /\ (item \subseteq Rows(Readings \cup {Null, Foreign}))'
  <2>1. \A r \in {new} : r.time <= r.at /\ (~r.baseline /\ r.value # Foreign => Clean(r.time, r.at))
      BY <1>4
  <2>2. item' = Committed({new}, item, "item")
      BY <1>1 DEF new
  <2> QED  BY <1>3, <1>5, <2>1, <2>2, ItemStep
<1>7. BuildTyped' /\ BuildOK'
    BY <1>5 DEF IInv, BuildTyped, BuildOK, Building, Versions
<1>8. TypeOK'
    BY <1>5, <1>6 DEF IInv, TypeOK
<1> QED  BY <1>6, <1>7, <1>8 DEF IInv

-----------------------------------------------------------------------------
(* Steps of a build.                                                        *)

\* A withdrawal is vouched for like the row it withdraws.
LEMMA WithdrawalClean ==
    ASSUME RawOK, BuildTyped, Frozen, NEW i \in 1 .. NumBoundaries, NEW s \in Output(i),
           NEW day \in Nat, Boundary(i) <= day
    PROVE  LET q == Row(s.time, Max({s.time, day}), Null, s.baseline)
           IN /\ q \in Rows(ItemValues) /\ q.seq = 0 /\ q.time <= q.at
              /\ ~q.baseline => Clean(q.time, q.at)
<1> DEFINE at == Max({s.time, day})
           q == Row(s.time, at, Null, s.baseline)
<1>1. /\ s \in Rows(ItemValues) /\ s.time \in Days /\ s.time \in Nat /\ s.baseline \in BOOLEAN
      /\ build.first <= s.time /\ s.time <= build.last /\ s.time <= Cutoff(i)
      /\ s.baseline = Unverified(Known(build.inputs, Cutoff(i)))
    BY OutputRows, Constants DEF Rows
<1>2. at \in Nat /\ s.time <= at /\ Boundary(i) <= at
  <2>1. at \in Nat /\ s.time <= at /\ day <= at
      BY <1>1, MaxPair
  <2> QED  BY <2>1, BoundaryOrder
<1> HIDE DEF at
<1>3. q.time = s.time /\ q.at = at /\ q.baseline = s.baseline /\ q.seq = 0
    BY DEF Row
<1>4. q \in Rows(ItemValues)
    BY <1>1, <1>2, NewRowsTyped DEF ItemValues
<1>5. ~s.baseline => Clean(s.time, at)
    BY <1>1, <1>2, EvaluationClean
<1> QED  BY <1>1, <1>2, <1>3, <1>4, <1>5 DEF at

LEMMA ChangesClean ==
    ASSUME RawOK, BuildTyped, Frozen, NEW i \in 1 .. NumBoundaries,
           build.previous = IF i = 1 THEN {} ELSE Output(i - 1), NEW r \in Changes(i)
    PROVE  /\ r \in Rows(ItemValues) /\ r.seq = 0 /\ r.time <= r.at
           /\ ~r.baseline => Clean(r.time, r.at)
<1>1. CASE r \in Output(i)
  <2>1. /\ r \in Rows(ItemValues) /\ r.seq = 0 /\ r.time \in Days /\ r.at \in Nat
        /\ build.first <= r.time /\ r.time <= build.last /\ r.time <= Cutoff(i)
        /\ r.time <= r.at /\ Boundary(i) <= r.at
        /\ r.baseline = Unverified(Known(build.inputs, Cutoff(i)))
      BY <1>1, OutputRows DEF Rows
  <2> QED  BY <2>1, EvaluationClean
<1>2. CASE r \notin Output(i)
  <2>1. PICK s \in build.previous :
            r = Row(s.time, Max({s.time, Boundary(i)}), Null, s.baseline)
      BY <1>2 DEF Changes, Withdrawn
  <2>2. i # 1 /\ s \in Output(i - 1)
      BY <2>1
  <2>3. i - 1 \in 1 .. NumBoundaries /\ i - 1 < NumBoundaries /\ (i - 1) + 1 = i
      BY <2>2, BoundariesTyped
  <2>4. Boundary(i) \in Nat /\ Boundary(i - 1) \in Nat /\ Boundary(i - 1) <= Boundary(i)
    <3>1. /\ Boundary(i - 1) \in Nat /\ Boundary(i - 1) <= Cutoff(i - 1)
          /\ Cutoff(i - 1) = Boundary((i - 1) + 1) - 1
        BY <2>3, BoundaryOrder
    <3>2. Boundary(i) \in Nat
        BY BoundaryOrder
    <3> QED  BY <3>1, <3>2, <2>3
  <2> QED  BY <2>1, <2>2, <2>3, <2>4, WithdrawalClean
<1> QED  BY <1>1, <1>2

\* The rest of the invariant when only the build moved on.
LEMMA BuildStep ==
    ASSUME IInv, UNCHANGED <<today, raw, item>>, BuildTyped', BuildOK',
           (frozen \subseteq [first : Days, last : Days, on : Days, raw : Nat, done : BOOLEAN])'
    PROVE  IInv'
<1>1. RawOK' /\ ItemClean' /\ Versions(item, ItemValues)'
    BY DEF IInv, RawOK, Versions, ItemClean, Clean, Later
<1>2. TypeOK'
    BY DEF IInv, TypeOK, BuildTyped
<1> QED  BY <1>1, <1>2 DEF IInv

\* Within a build, when its range and its input stay.
LEMMA PhaseStep ==
    ASSUME IInv, Building, UNCHANGED <<today, raw>>,
           UNCHANGED <<build.first, build.last, build.inputs>>,
           NEW k \in 0 .. NumBoundaries, build'.reconciled = 1 .. k,
           build'.previous = IF k = 0 THEN {} ELSE Output(k),
           \A r \in build'.pending : r.time <= r.at /\ (~r.baseline => Clean(r.time, r.at))
    PROVE  BuildOK'
<1>1. raw # {} /\ Frozen
    BY DEF IInv, BuildOK
<1>2. Frozen'
    BY <1>1 DEF Frozen
<1>3. PreviousKept'
  <2>1. /\ NumBoundaries' = NumBoundaries /\ Output(k)' = Output(k)
      BY SameEvaluations
  <2> QED  BY <2>1 DEF PreviousKept
<1>4. PendingClean'
  <2> SUFFICES ASSUME NEW r \in build'.pending
               PROVE  r.time <= r.at /\ (~r.baseline => Clean(r.time, r.at)')
      BY DEF PendingClean
  <2>1. Clean(r.time, r.at)' <=> Clean(r.time, r.at)
      BY DEF Clean, Later
  <2> QED  BY <2>1
<1> QED  BY <1>1, <1>2, <1>3, <1>4 DEF BuildOK

LEMMA NoRows == Versions({}, ItemValues)
BY DEF Versions

LEMMA NoBuildStep ==
    ASSUME IInv, build' = NoBuild, UNCHANGED raw
    PROVE  BuildTyped' /\ BuildOK'
<1>1. 1 \in Days
    BY Constants DEF Days
<1> QED  BY <1>1, NoRows DEF BuildTyped, BuildOK, Building, NoBuild

LEMMA CancelStep == ASSUME IInv, Cancel PROVE IInv'
<1>1. BuildTyped' /\ BuildOK'
    BY NoBuildStep DEF Cancel
<1>2. (frozen \subseteq [first : Days, last : Days, on : Days, raw : Nat, done : BOOLEAN])'
    BY DEF Cancel, IInv, TypeOK
<1> QED  BY <1>1, <1>2, BuildStep DEF Cancel

LEMMA CompleteStep == ASSUME IInv, Complete PROVE IInv'
<1>1. BuildTyped' /\ BuildOK'
    BY NoBuildStep DEF Complete
<1>2. [Receipt(build) EXCEPT !.done = TRUE]
          \in [first : Days, last : Days, on : Days, raw : Nat, done : BOOLEAN]
    BY DEF IInv, BuildTyped, Receipt
<1>3. (frozen \subseteq [first : Days, last : Days, on : Days, raw : Nat, done : BOOLEAN])'
    BY <1>2 DEF Complete, IInv, TypeOK
<1> QED  BY <1>1, <1>3, BuildStep DEF Complete

LEMMA NumBoundariesTyped == RawOK /\ BuildTyped /\ Frozen => NumBoundaries \in Nat
BY BoundariesTyped

LEMMA StartBuildStep == ASSUME IInv, StartBuild PROVE IInv'
<1>1. PICK range \in Ranges :
          build' = [NoBuild EXCEPT !.phase = "building", !.first = range[1],
                        !.last = range[2], !.on = today, !.raw = LastCommit(raw),
                        !.inputs = {r \in raw : r.at <= range[2]}]
    BY DEF StartBuild
<1> DEFINE inputs == {r \in raw : r.at <= range[2]}
<1>2. range[1] \in Days /\ range[2] \in Days /\ range[1] <= range[2] /\ today \in Days
    BY PointInTimeAssumption DEF Days, IInv, TypeOK
<1>3. LastCommit(raw) \in Nat
    BY LastCommitTyped DEF IInv, RawOK
<1>4. inputs \in SUBSET Rows(Values)
    BY DEF IInv, RawOK, Versions
<1>5. /\ build'.phase = "building" /\ build'.first = range[1] /\ build'.last = range[2]
      /\ build'.on = today /\ build'.raw = LastCommit(raw) /\ build'.inputs = inputs
      /\ build'.reconciled = {} /\ build'.previous = {} /\ build'.pending = {}
    BY <1>1 DEF NoBuild
<1>6. BuildTyped'
  <2> HIDE DEF inputs
  <2>1. build' = [phase |-> "building", first |-> range[1], last |-> range[2], on |-> today,
                  raw |-> LastCommit(raw), inputs |-> inputs, reconciled |-> {},
                  previous |-> {}, pending |-> {}]
      BY <1>1 DEF NoBuild, inputs
  <2> QED  BY <1>2, <1>3, <1>4, <1>5, <2>1, NoRows DEF BuildTyped
<1>7. UNCHANGED <<today, raw, item>> /\ raw # {} /\ frozen' = frozen \cup {Receipt(build')}
    BY DEF StartBuild
<1>8. RawOK'
    BY <1>7 DEF IInv, RawOK, Versions
<1>9. Frozen'
    BY <1>5, <1>7 DEF Frozen
<1>10. PreviousKept'
  <2>1. NumBoundaries' \in Nat
    <3>1. (RawOK /\ BuildTyped /\ Frozen => NumBoundaries \in Nat)'
        BY NumBoundariesTyped, PTL
    <3> QED  BY <1>6, <1>8, <1>9, <3>1
  <2>2. 0 \in 0 .. NumBoundaries' /\ 1 .. 0 = {}
      BY <2>1
  <2> QED  BY <1>5, <2>2 DEF PreviousKept
<1>11. BuildOK'
    BY <1>5, <1>7, <1>9, <1>10 DEF BuildOK, PendingClean
<1>12. (frozen \subseteq [first : Days, last : Days, on : Days, raw : Nat, done : BOOLEAN])'
  <2>1. Receipt(build') \in [first : Days, last : Days, on : Days, raw : Nat, done : BOOLEAN]
      BY <1>2, <1>3, <1>5 DEF Receipt
  <2> QED  BY <1>7, <2>1 DEF IInv, TypeOK
<1> QED  BY <1>6, <1>7, <1>11, <1>12, BuildStep

LEMMA ReconcileStep == ASSUME IInv, Reconcile PROVE IInv'
<1>1. PICK i \in 1 .. NumBoundaries \ build.reconciled :
          /\ NextResult(i)
          /\ build' = [build EXCEPT !.pending = Changes(i), !.previous = Output(i),
                          !.reconciled = @ \cup {i}]
    BY DEF Reconcile
<1>2. /\ Building /\ raw # {} /\ Frozen /\ PreviousKept /\ BuildTyped /\ RawOK
      /\ UNCHANGED <<today, raw, item, frozen>>
    BY DEF Reconcile, IInv, BuildOK, Building
<1>3. PICK k \in 0 .. NumBoundaries :
          build.reconciled = 1 .. k /\ build.previous = IF k = 0 THEN {} ELSE Output(k)
    BY <1>2 DEF PreviousKept
<1>4. NumBoundaries \in Nat
    BY <1>2, BoundariesTyped
<1>5. i = k + 1 /\ i \in 1 .. NumBoundaries /\ i \in Nat
  <2>1. ~(i <= k)
      BY <1>1, <1>3, <1>4
  <2>2. ~(k + 1 < i)
    <3> SUFFICES ASSUME k + 1 < i PROVE FALSE
        OBVIOUS
    <3>1. k + 1 \in 1 .. i - 1
        BY <1>4
    <3>2. k + 1 \in 1 .. k
        BY <3>1, <1>1, <1>3 DEF NextResult
    <3> QED  BY <3>2, <1>4
  <2> QED  BY <2>1, <2>2, <1>1, <1>4
<1>6. /\ build'.pending = Changes(i) /\ build'.previous = Output(i)
      /\ build'.reconciled = build.reconciled \cup {i}
      /\ build'.first = build.first /\ build'.last = build.last
      /\ build'.inputs = build.inputs /\ build'.phase = build.phase
    BY <1>1, <1>2 DEF BuildTyped
<1>7. build'.reconciled = 1 .. i
    BY <1>3, <1>5, <1>6
<1>8. build.previous = IF i = 1 THEN {} ELSE Output(i - 1)
  <2>1. i - 1 = k /\ (i = 1 <=> k = 0)
      BY <1>5, <1>4
  <2> QED  BY <1>3, <2>1
<1>9. \A r \in Changes(i) : /\ r \in Rows(ItemValues) /\ r.seq = 0 /\ r.time <= r.at
                            /\ ~r.baseline => Clean(r.time, r.at)
    BY <1>2, <1>5, <1>8, ChangesClean
<1>10. \A r \in Output(i) : r \in Rows(ItemValues) /\ r.seq = 0
    BY <1>2, <1>5, OutputRows
<1>11. BuildTyped'
  <2>1. Versions(Changes(i), ItemValues) /\ Versions(Output(i), ItemValues)
      BY <1>9, <1>10 DEF Versions
  <2>2. build.reconciled \cup {i} \in SUBSET Nat
      BY <1>2, <1>5 DEF BuildTyped
  <2>3. Changes(i) \in SUBSET Rows(ItemValues) /\ Output(i) \in SUBSET Rows(ItemValues)
      BY <1>9, <1>10
  <2> QED  BY <1>1, <1>2, <1>6, <2>1, <2>2, <2>3 DEF BuildTyped
<1>12. BuildOK'
  <2>1. \A r \in build'.pending : r.time <= r.at /\ (~r.baseline => Clean(r.time, r.at))
      BY <1>6, <1>9
  <2>2. i \in 0 .. NumBoundaries /\ build'.previous = IF i = 0 THEN {} ELSE Output(i)
      BY <1>4, <1>5, <1>6
  <2>3. UNCHANGED <<today, raw>> /\ UNCHANGED <<build.first, build.last, build.inputs>>
      BY <1>2, <1>6
  <2> QED  BY <1>2, <1>7, <2>1, <2>2, <2>3, PhaseStep
<1>13. (frozen \subseteq [first : Days, last : Days, on : Days, raw : Nat, done : BOOLEAN])'
    BY <1>2 DEF IInv, TypeOK
<1> QED  BY <1>2, <1>11, <1>12, <1>13, BuildStep

LEMMA PublishStep == ASSUME IInv, Publish PROVE IInv'
<1> DEFINE rows == Group
<1>1. /\ Building /\ raw # {} /\ Frozen /\ PreviousKept /\ PendingClean /\ BuildTyped
      /\ UNCHANGED <<today, raw, frozen>> /\ item' = Committed(rows, item, "item")
      /\ build' = [build EXCEPT !.pending = @ \ rows]
    BY DEF Publish, IInv, BuildOK
<1>2. rows \subseteq build.pending
    BY DEF Group
<1> HIDE DEF rows
<1>3. /\ build'.pending = build.pending \ rows /\ build'.previous = build.previous
      /\ build'.reconciled = build.reconciled /\ build'.first = build.first
      /\ build'.last = build.last /\ build'.inputs = build.inputs /\ build'.phase = build.phase
    BY <1>1 DEF BuildTyped
<1>4. Versions(rows, ItemValues) /\ Versions(build.pending \ rows, ItemValues)
    BY <1>1, <1>2 DEF BuildTyped, Versions
<1>5. \A r \in rows : r.time <= r.at /\ (~r.baseline /\ r.value # Foreign => Clean(r.time, r.at))
    BY <1>1, <1>2 DEF PendingClean
<1>6. /\ Versions(item, ItemValues)' /\ ItemClean' /\ RawOK' /\ (raw = {} => item = {})'
      /\ (today \in Days)' /\ (raw \subseteq Rows(Values))'
      /\ (item \subseteq Rows(Readings \cup {Null, Foreign}))'
    BY <1>1, <1>4, <1>5, ItemStep
<1>7. BuildTyped'
    BY <1>1, <1>3, <1>4 DEF BuildTyped
<1>8. BuildOK'
  <2>1. PICK k \in 0 .. NumBoundaries :
            build.reconciled = 1 .. k /\ build.previous = IF k = 0 THEN {} ELSE Output(k)
      BY <1>1 DEF PreviousKept
  <2>2. \A r \in build'.pending : r.time <= r.at /\ (~r.baseline => Clean(r.time, r.at))
      BY <1>1, <1>3 DEF PendingClean
  <2>3. UNCHANGED <<today, raw>> /\ UNCHANGED <<build.first, build.last, build.inputs>>
      BY <1>1, <1>3
  <2>4. build'.reconciled = 1 .. k /\ build'.previous = IF k = 0 THEN {} ELSE Output(k)
      BY <1>3, <2>1
  <2> QED  BY <1>1, <2>2, <2>3, <2>4, PhaseStep
<1>9. TypeOK'
    BY <1>1, <1>6, <1>7 DEF IInv, TypeOK, BuildTyped
<1> QED  BY <1>6, <1>7, <1>8, <1>9 DEF IInv

\* A build that goes on to another phase with rows it may publish.
LEMMA PendingStep ==
    ASSUME IInv, Building, UNCHANGED <<today, raw, item, frozen>>,
           NEW phase \in {"repairing", "withdrawing"}, NEW rows,
           build' = [build EXCEPT !.phase = phase, !.pending = rows],
           \A r \in rows : r.time <= r.at /\ (~r.baseline => Clean(r.time, r.at)),
           Versions(rows, ItemValues)
    PROVE  IInv'
<1>1. /\ raw # {} /\ PreviousKept /\ BuildTyped
    BY DEF IInv, BuildOK
<1>2. /\ build'.pending = rows /\ build'.previous = build.previous
      /\ build'.reconciled = build.reconciled /\ build'.first = build.first
      /\ build'.last = build.last /\ build'.inputs = build.inputs
    BY <1>1 DEF BuildTyped
<1>3. BuildTyped'
  <2>1. rows \in SUBSET Rows(ItemValues)
      BY DEF Versions
  <2> QED  BY <1>1, <1>2, <2>1 DEF BuildTyped
<1>4. BuildOK'
  <2>1. PICK k \in 0 .. NumBoundaries :
            build.reconciled = 1 .. k /\ build.previous = IF k = 0 THEN {} ELSE Output(k)
      BY <1>1 DEF PreviousKept
  <2>2. \A r \in build'.pending : r.time <= r.at /\ (~r.baseline => Clean(r.time, r.at))
      BY <1>2
  <2>3. UNCHANGED <<today, raw>> /\ UNCHANGED <<build.first, build.last, build.inputs>>
      BY <1>2
  <2>4. build'.reconciled = 1 .. k /\ build'.previous = IF k = 0 THEN {} ELSE Output(k)
      BY <1>2, <2>1
  <2> QED  BY <2>2, <2>3, <2>4, PhaseStep
<1>5. (frozen \subseteq [first : Days, last : Days, on : Days, raw : Nat, done : BOOLEAN])'
    BY DEF IInv, TypeOK
<1> QED  BY <1>3, <1>4, <1>5, BuildStep

LEMMA RepairStep == ASSUME IInv, Repair PROVE IInv'
<1> DEFINE rows == IF item = {} THEN {} ELSE Repairs
<1>1. /\ Building /\ Frozen /\ BuildTyped /\ RawOK /\ UNCHANGED <<today, raw, item, frozen>>
      /\ build' = [build EXCEPT !.phase = "repairing", !.pending = rows]
    BY DEF Repair, IInv, BuildOK, Building
<1>2. NumBoundaries \in 1 .. NumBoundaries
    BY <1>1, BoundariesTyped
<1>3. ASSUME NEW r \in rows
      PROVE  /\ r \in Rows(ItemValues) /\ r.seq = 0 /\ r.time <= r.at
             /\ ~r.baseline => Clean(r.time, r.at)
  <2>1. PICK s \in Output(NumBoundaries) : r = [s EXCEPT !.at = build.last]
      BY <1>3 DEF Repairs, Final
  <2>2. /\ s \in Rows(ItemValues) /\ s.seq = 0 /\ s.time \in Days
        /\ build.first <= s.time /\ s.time <= build.last /\ s.time <= Cutoff(NumBoundaries)
        /\ s.baseline = Unverified(Known(build.inputs, Cutoff(NumBoundaries)))
      BY <1>1, <1>2, OutputRows DEF Rows
  <2>3. build.last \in Nat /\ Boundary(NumBoundaries) <= build.last
    <3>1. build.last \in Nat
        BY <1>1, Constants DEF BuildTyped
    <3>2. /\ Boundary(NumBoundaries) <= Cutoff(NumBoundaries)
          /\ Cutoff(NumBoundaries) = build.last
        BY <1>1, <1>2, BoundaryOrder
    <3> QED  BY <3>1, <3>2
  <2>4. /\ r \in Rows(ItemValues) /\ r.seq = 0 /\ r.time = s.time /\ r.at = build.last
        /\ r.baseline = s.baseline
      BY <2>1, <2>2, <2>3 DEF Rows
  <2>5. ~s.baseline => Clean(s.time, build.last)
      BY <1>1, <1>2, <2>2, <2>3, EvaluationClean
  <2> QED  BY <2>2, <2>4, <2>5
<1> HIDE DEF rows
<1>4. Versions(rows, ItemValues)
    BY <1>3 DEF Versions
<1> QED  BY <1>1, <1>3, <1>4, PendingStep

LEMMA WithdrawStep == ASSUME IInv, Withdraw PROVE IInv'
<1> DEFINE unverified == Unverified(Known(build.inputs, build.last))
           rows == {[r EXCEPT !.baseline = unverified] : r \in Withdrawn(StaleKeys, build.last)}
<1>1. /\ Building /\ Frozen /\ BuildTyped /\ RawOK /\ UNCHANGED <<today, raw, item, frozen>>
      /\ build' = [build EXCEPT !.phase = "withdrawing", !.pending = rows]
    BY DEF Withdraw, IInv, BuildOK, Building
<1>2. NumBoundaries \in 1 .. NumBoundaries
    BY <1>1, BoundariesTyped
<1>3. unverified \in BOOLEAN
    BY DEF Unverified
<1>4. ASSUME NEW r \in rows
      PROVE  /\ r \in Rows(ItemValues) /\ r.seq = 0 /\ r.time <= r.at
             /\ ~r.baseline => Clean(r.time, r.at)
  <2>1. PICK s \in StaleKeys :
            r = [Row(s.time, Max({s.time, build.last}), Null, s.baseline)
                    EXCEPT !.baseline = unverified]
      BY DEF Withdrawn
  <2>2. s \in item /\ s.time \in build.first .. build.last
      BY DEF StaleKeys, Shown, Known, Latest
  <2>3. /\ s.time \in Days /\ s.time \in Nat /\ build.last \in Nat
        /\ build.first <= s.time /\ s.time <= build.last
    <3>1. s.time \in Days
        BY <2>2 DEF IInv, Versions, Rows
    <3> QED  BY <1>1, <2>2, <3>1, Constants DEF BuildTyped
  <2>4. Max({s.time, build.last}) = build.last
      BY <2>3, MaxPair
  <2>5. /\ r = Row(s.time, build.last, Null, unverified)
        /\ r.seq = 0 /\ r.time = s.time /\ r.at = build.last /\ r.baseline = unverified
      BY <2>1, <2>4 DEF Row
  <2>6. r \in Rows(ItemValues)
      BY <2>3, <2>5, <1>3, NewRowsTyped DEF ItemValues
  <2>7. ~unverified => Clean(s.time, build.last)
    <3>1. /\ Boundary(NumBoundaries) <= Cutoff(NumBoundaries)
          /\ Cutoff(NumBoundaries) = build.last
        BY <1>1, <1>2, BoundaryOrder
    <3> QED  BY <1>1, <1>2, <2>3, <3>1, EvaluationClean
  <2> QED  BY <2>3, <2>5, <2>6, <2>7
<1> HIDE DEF rows
<1>5. Versions(rows, ItemValues)
    BY <1>4 DEF Versions
<1> QED  BY <1>1, <1>4, <1>5, PendingStep

-----------------------------------------------------------------------------
(* The history of an Item whose observations are available on their day.    *)

\* A row tells what its inputs, as known on its day, make of its observation.
Matches(r) == {r.value} \ {Null} = Expected(raw, r.time, r.at)

Good(t, day) ==
    Seen(t, day) = Expected(raw, t, day) \/ Overruled(t, day) \/ Overtaken(day)

\* The view of an observation is right up to every row of a build, so that a row
\* that repeats the latest version may be left out.
RowRight(r) ==
    /\ r.time <= r.at /\ r.at <= today
    /\ r.value # Foreign =>
          /\ Matches(r) \/ Overtaken(r.at)
          /\ \A day \in r.time .. r.at : Good(r.time, day)
          /\ \E f \in frozen : r.at <= f.on

OneValue ==
    \A r, s \in item : r.time = s.time /\ r.at = s.at /\ r.seq = s.seq => r.value = s.value

Dated ==
    /\ \A r \in raw : r.at <= today
    /\ \A f \in frozen : f.on <= today /\ f.last <= f.on /\ f.raw <= LastCommit(raw)
    /\ raw = {} => frozen = {}

HistoryRight ==
    \A f \in frozen : f.done =>
        \A t \in f.first .. f.last : \A day \in t .. f.last : day < f.on => Good(t, day)

Span == build.first .. build.last

PendingRight ==
    /\ \A r \in build.pending :
          /\ r.value # Foreign
          /\ r.time \in Span /\ r.time <= r.at /\ r.at <= build.last
          /\ Matches(r)
          /\ \A day \in r.time .. build.last : day < r.at => Good(r.time, day)
    /\ \A r, s \in build.pending : r.time = s.time => r = s

\* After k evaluations the view is right up to the eve of the next boundary, or
\* waits for a row that is pending.
Progress(k) ==
    /\ build.reconciled = 1 .. k
    /\ build.previous = IF k = 0 THEN {} ELSE Output(k)
    /\ k = 0 => build.pending = {}
    /\ k > 0 =>
          /\ \A t \in Span : \A day \in t .. Cutoff(k) :
                Good(t, day) \/ \E r \in build.pending : r.time = t /\ r.at <= day
          /\ \A r \in build.pending : Boundary(k) <= r.at

Waiting(t) == \E r \in build.pending : r.time = t

\* At the end of its range a build has overruled whatever was there before.
Settled(t) ==
    (\E r \in item : r.at > build.last) \/ Seen(t, build.last) = Expected(raw, t, build.last)

AllGood == \A t \in Span : \A day \in t .. build.last : Good(t, day)

PhaseRight ==
    /\ build.phase = "building" =>
          /\ \E k \in 0 .. NumBoundaries : Progress(k)
          /\ item = {} /\ build.pending = {} => build.previous = {}
    /\ build.phase # "building" => AllGood /\ \A r \in build.pending : r.at = build.last
    /\ build.phase = "repairing" => \A t \in Span : Covers(Final, t) => Waiting(t) \/ Settled(t)
    /\ build.phase = "withdrawing" => \A t \in Span : Waiting(t) \/ Settled(t)

BuildRight ==
    Building =>
        /\ build.last <= build.on /\ build.on = today /\ Receipt(build) \in frozen
        /\ PendingRight /\ PhaseRight

HInv ==
    /\ IInv /\ Dated /\ OneValue /\ HistoryRight /\ BuildRight
    /\ \A r \in item : RowRight(r)

-----------------------------------------------------------------------------
(* Views.                                                                   *)

VisibleIn(rows, t, day) == {r \in Known(rows, day) : r.time = t}
SeenIn(rows, t, day) == {r.value : r \in VisibleIn(rows, t, day)} \ {Null}

LEMMA SeenNow ==
    ASSUME NEW t, NEW day
    PROVE  Seen(t, day) = SeenIn(item, t, day)
BY DEF Seen, SeenIn, VisibleIn

LEMMA SeenNext ==
    ASSUME NEW t, NEW day
    PROVE  Seen(t, day)' = SeenIn(item', t, day)
BY DEF Seen, SeenIn, VisibleIn

LEMMA InView ==
    ASSUME NEW rows, NEW t, NEW day, NEW r
    PROVE  r \in VisibleIn(rows, t, day) <=>
              /\ r \in rows /\ r.at <= day /\ r.time = t
              /\ \A s \in rows : s.at <= day /\ s.time = t => ~Later(s, r)
BY DEF VisibleIn, Known, Latest

\* What is seen when all that is visible says the same.
LEMMA SeenIs ==
    ASSUME NEW rows, NEW t, NEW day
    PROVE  \A E : /\ \A r \in VisibleIn(rows, t, day) : {r.value} \ {Null} = E
                  /\ VisibleIn(rows, t, day) = {} => E = {}
                  => SeenIn(rows, t, day) = E
<1> SUFFICES ASSUME NEW E,
                    \A r \in VisibleIn(rows, t, day) : {r.value} \ {Null} = E,
                    VisibleIn(rows, t, day) = {} => E = {}
             PROVE  SeenIn(rows, t, day) = E
    OBVIOUS
<1>1. ASSUME NEW x \in SeenIn(rows, t, day) PROVE x \in E
  <2>1. PICK r \in VisibleIn(rows, t, day) : x = r.value /\ x # Null
      BY DEF SeenIn
  <2>2. x \in {r.value} \ {Null}
      BY <2>1
  <2> QED  BY <2>2
<1>2. ASSUME NEW x \in E PROVE x \in SeenIn(rows, t, day)
  <2>1. PICK r \in VisibleIn(rows, t, day) : TRUE
      BY <1>2
  <2>2. x = r.value /\ x # Null
      BY <1>2
  <2> QED  BY <2>2 DEF SeenIn
<1> QED  BY <1>1, <1>2

\* Something is visible as soon as some version is known.
LEMMA ViewExists ==
    ASSUME NEW rows, Versions(rows, ItemValues), NEW t, NEW day \in Nat,
           NEW r \in rows, r.time = t, r.at <= day
    PROVE  VisibleIn(rows, t, day) # {}
<1> DEFINE Of == {s \in rows : s.time = t /\ s.at <= day}
           Ats == {s.at : s \in Of}
<1>1. PICK n \in Nat : \A s \in rows : s.seq <= n
    BY DEF Versions
<1>2. \A s \in rows : s.at \in Nat /\ s.seq \in Nat /\ s.seq <= n
    BY <1>1 DEF Versions, Rows
<1>3. Ats \in SUBSET (0 .. day) /\ Ats # {}
    BY <1>2
<1>4. PICK a \in Ats : \A b \in Ats : b <= a
    BY <1>3, NatGreatest
<1> DEFINE Top == {s \in Of : s.at = a}
           Seqs == {s.seq : s \in Top}
<1>5. Seqs \in SUBSET (0 .. n) /\ Seqs # {}
    BY <1>2, <1>4
<1>6. PICK m \in Seqs : \A b \in Seqs : b <= m
    BY <1>5, NatGreatest
<1>7. PICK s \in Top : s.seq = m
    BY <1>6
<1>8. ASSUME NEW q \in rows, q.at <= day, q.time = t PROVE ~Later(q, s)
  <2>1. q \in Of /\ q.at \in Ats /\ q.at <= a /\ s.at = a /\ q.at \in Nat /\ q.seq \in Nat
      BY <1>2, <1>4, <1>7, <1>8
  <2>2. q.at = a => q.seq <= m
      BY <2>1, <1>6
  <2>3. s.seq = m /\ m \in Nat /\ a \in Nat
      BY <1>2, <1>7
  <2> QED  BY <2>1, <2>2, <2>3 DEF Later
<1>9. s \in rows /\ s.at <= day /\ s.time = t
    BY <1>7
<1>10. s \in VisibleIn(rows, t, day)
    BY <1>8, <1>9, InView
<1> QED  BY <1>10

\* Nothing that became known between two days: both show the same.
LEMMA SameView ==
    ASSUME NEW rows, \A r \in rows : r.at \in Nat, NEW t, NEW a \in Nat, NEW day \in Nat, a <= day,
           \A s \in rows : s.time = t /\ s.at <= day => s.at <= a
    PROVE  SeenIn(rows, t, a) = SeenIn(rows, t, day)
<1>1. \A s \in rows : s.time = t => (s.at <= day <=> s.at <= a)
    OBVIOUS
<1>2. \A r : r \in VisibleIn(rows, t, a) <=> r \in VisibleIn(rows, t, day)
    BY <1>1, InView
<1>3. VisibleIn(rows, t, a) = VisibleIn(rows, t, day)
    BY <1>2
<1> QED  BY <1>3 DEF SeenIn

LEMMA OvertakenLater ==
    ASSUME Dated, RawOK, NEW a \in Nat, NEW day \in Nat, a <= day, Overtaken(a)
    PROVE  Overtaken(day)
<1>1. \A r \in raw : r.at \in Nat
    BY DEF RawOK, Versions, Rows
<1> QED  BY <1>1 DEF Overtaken

LEMMA OverruledLater ==
    ASSUME Versions(item, ItemValues), NEW t, NEW a \in Nat, NEW day \in Nat, a <= day, Overruled(t, a)
    PROVE  Overruled(t, day)
<1>1. \A r \in item : r.at \in Nat
    BY DEF Versions, Rows
<1> QED  BY <1>1 DEF Overruled

\* A view is right when all that is visible says what the inputs do.
LEMMA GoodIs ==
    ASSUME NEW t, NEW day,
           \A r \in VisibleIn(item, t, day) : {r.value} \ {Null} = Expected(raw, t, day),
           VisibleIn(item, t, day) = {} => Expected(raw, t, day) = {}
    PROVE  Good(t, day)
<1>1. \A E : /\ \A r \in VisibleIn(item, t, day) : {r.value} \ {Null} = E
             /\ VisibleIn(item, t, day) = {} => E = {}
             => SeenIn(item, t, day) = E
    BY SeenIs
<1> QED  BY <1>1, SeenNow DEF Good

\* A right view stays right when rows are added that match their days.
LEMMA Keep ==
    ASSUME Dated, RawOK, UNCHANGED <<raw, frozen>>,
           Versions(item, ItemValues), Versions(item', ItemValues), item \subseteq item',
           NEW t \in Nat, NEW day \in Nat, t <= day,
           \A a \in t .. day : Good(t, a),
           \A r \in item' : r.time = t /\ r.at <= day /\ r.value # Foreign =>
                               t <= r.at /\ (Matches(r) \/ Overtaken(r.at))
    PROVE  Good(t, day)'
<1>1. /\ Expected(raw, t, day)' = Expected(raw, t, day) /\ Overtaken(day)' = Overtaken(day)
    BY DEF Overtaken
<1>2. CASE Overtaken(day) \/ Overruled(t, day)'
    BY <1>1, <1>2 DEF Good
<1>3. CASE ~Overtaken(day) /\ ~Overruled(t, day)'
  <2> DEFINE E == Expected(raw, t, day)
  <2>1. \A r \in item' : r.at \in Nat
      BY DEF Versions, Rows
  <2>2. \A a \in t .. day : SeenIn(item, t, a) = Expected(raw, t, a)
    <3> SUFFICES ASSUME NEW a \in t .. day PROVE SeenIn(item, t, a) = Expected(raw, t, a)
        OBVIOUS
    <3>1. a \in Nat /\ a <= day
        OBVIOUS
    <3>2. ~Overtaken(a)
        BY <3>1, <1>3, OvertakenLater
    <3>3. ~Overruled(t, a)
        BY <3>1, <1>3, <2>1 DEF Overruled
    <3> QED  BY <3>2, <3>3, SeenNow DEF Good
  <2>3. ASSUME NEW v \in VisibleIn(item', t, day) PROVE {v.value} \ {Null} = E
    <3>1. /\ v \in item' /\ v.at <= day /\ v.time = t /\ v.at \in Nat
          /\ \A s \in item' : s.at <= day /\ s.time = t => ~Later(s, v)
        BY <2>1, InView
    <3>2. v.value # Foreign
        BY <3>1, <1>3 DEF Overruled
    <3>3. t <= v.at /\ v.at \in t .. day
        BY <3>1, <3>2
    <3>4. ~Overtaken(v.at)
        BY <3>1, <1>3, OvertakenLater
    <3>5. {v.value} \ {Null} = Expected(raw, t, v.at)
        BY <3>1, <3>2, <3>4 DEF Matches
    <3>6. \A s \in item : s.time = t /\ s.at <= day => s.at <= v.at
        BY <3>1, <2>1 DEF Later
    <3>7. SeenIn(item, t, v.at) = SeenIn(item, t, day)
        BY <3>1, <3>6, <2>1, SameView
    <3> QED  BY <3>3, <3>5, <3>7, <2>2
  <2>4. ASSUME VisibleIn(item', t, day) = {} PROVE E = {}
    <3>1. VisibleIn(item, t, day) = {}
      <4> SUFFICES ASSUME NEW v \in VisibleIn(item, t, day) PROVE FALSE
          OBVIOUS
      <4>1. v \in item' /\ v.time = t /\ v.at <= day
          BY InView
      <4> QED  BY <4>1, <2>4, ViewExists
    <3>2. SeenIn(item, t, day) = {}
        BY <3>1 DEF SeenIn
    <3> QED  BY <3>2, <2>2
  <2> HIDE DEF E
  <2>5. SeenIn(item', t, day) = E
      BY <2>3, <2>4, SeenIs
  <2> QED  BY <2>5, <1>1, SeenNext DEF Good, E
<1> QED  BY <1>2, <1>3

-----------------------------------------------------------------------------
(* Evaluations and the days they stand for.                                 *)

LEMMA FirstBoundary ==
    ASSUME RawOK, BuildTyped, Frozen
    PROVE  1 \in 1 .. NumBoundaries /\ Boundary(1) = 0
<1>1. NumBoundaries \in Nat /\ NumBoundaries >= 1 /\ 0 \in Boundaries /\ IsFiniteSet(Boundaries)
    BY BoundariesTyped
<1>2. 1 \in 1 .. NumBoundaries
    BY <1>1
<1> DEFINE Below == {c \in Boundaries : c < Boundary(1)}
<1>3. Cardinality({c \in Boundaries : c < Boundary(1)}) = 1 - 1
    BY <1>2, BoundaryRank
<1>4. Cardinality(Below) = 0 /\ IsFiniteSet(Below)
    BY <1>1, <1>3, FS_Subset
<1>5. Below = {}
    BY <1>4, FS_EmptySet
<1>6. Boundary(1) \in Nat
    BY <1>2, BoundaryOrder
<1> QED  BY <1>1, <1>2, <1>5, <1>6

\* From a boundary to the eve of the next, no earlier observation changes: what
\* is known of the days up to t is what the evaluation saw.
LEMMA Interval ==
    ASSUME Lag = 0, RawOK, BuildTyped, Frozen, NEW i \in 1 .. NumBoundaries,
           NEW t \in Span, NEW day \in Nat, t <= day, Boundary(i) <= day, day <= Cutoff(i)
    PROVE  LET known == Known(build.inputs, Cutoff(i))
           IN Expected(raw, t, day) = IF t \in Produced(known) THEN {Reading(known, t)} ELSE {}
<1> DEFINE known == Known(build.inputs, Cutoff(i))
           now == Known(raw, day)
<1>0. /\ Boundary(i) \in Nat /\ Cutoff(i) \in Nat /\ Cutoff(i) <= build.last
      /\ build.first \in Nat /\ build.last \in Nat /\ t \in Nat /\ build.first <= t
    BY BoundaryOrder, Constants DEF BuildTyped, Span
<1>1. \A s \in raw : s.at \in Nat /\ s.time \in Nat /\ s.time <= s.at
    BY Constants DEF RawOK, Versions, Rows
<1>2. ASSUME NEW s \in raw, s.time <= t
      PROVE  s.at <= day <=> s \in build.inputs /\ s.at <= Cutoff(i)
  <2>1. s.at <= day => s \in build.inputs /\ s.at <= Cutoff(i)
      BY <1>0, <1>1 DEF Frozen
  <2>2. ASSUME s \in build.inputs, s.at <= Cutoff(i), ~(s.at <= day) PROVE FALSE
    <3>1. s.at \in Nat /\ s.time \in Nat
        BY <1>1
    <3>2. s.at > s.time /\ s.at > build.first /\ s.at <= build.last
        BY <1>0, <1>2, <2>2, <3>1
    <3>3. s.at \in Boundaries
        BY <2>2, <3>2, BoundariesTyped
    <3>4. Boundary(i) < s.at
        BY <1>0, <2>2, <3>1
    <3> QED  BY <2>2, <3>3, <3>4, BoundaryOrder
  <2> QED  BY <2>1, <2>2
<1>3. ASSUME NEW s, s.time <= t PROVE s \in now <=> s \in known
  <2>1. s \in now <=> /\ s \in raw /\ s.at <= day
                      /\ \A q \in raw : q.at <= day /\ q.time = s.time => ~Later(q, s)
      BY DEF Known, Latest
  <2>2. s \in known <=> /\ s \in build.inputs /\ s.at <= Cutoff(i)
                        /\ \A q \in build.inputs :
                              q.at <= Cutoff(i) /\ q.time = s.time => ~Later(q, s)
      BY DEF Known, Latest
  <2>3. build.inputs \subseteq raw
      BY DEF Frozen
  <2> HIDE DEF known, now
  <2>4. s \in raw /\ s.at <= day <=> s \in build.inputs /\ s.at <= Cutoff(i)
      BY <1>2, <1>3, <2>3
  <2>5. \A q : q \in raw /\ q.at <= day /\ q.time = s.time
                  <=> q \in build.inputs /\ q.at <= Cutoff(i) /\ q.time = s.time
      BY <1>2, <1>3, <2>3
  <2> QED  BY <2>1, <2>2, <2>4, <2>5
<1>4. \A s \in now : s.time \in Nat
    BY <1>1 DEF Known, Latest
<1>5. \A s \in known : s.time \in Nat
    BY <1>1 DEF Known, Latest, Frozen
<1> HIDE DEF known, now
<1>6. t \in Produced(now) <=> t \in Produced(known)
    BY <1>0, <1>3 DEF Produced
<1>7. Reading(now, t) = Reading(known, t)
  <2>1. \A s : s \in now /\ s.time \in t - Window + 1 .. t
                  <=> s \in known /\ s.time \in t - Window + 1 .. t
      BY <1>0, <1>3, <1>4, <1>5
  <2>2. {s \in now : s.time \in t - Window + 1 .. t} = {s \in known : s.time \in t - Window + 1 .. t}
      BY <2>1
  <2> QED  BY <2>2, Zenon DEF Reading
<1>8. Expected(raw, t, day) = IF t \in Produced(now) THEN {Reading(now, t)} ELSE {}
    BY <1>0 DEF Expected, now
<1> QED  BY <1>6, <1>7, <1>8 DEF known

\* What the rows of an evaluation tell, and of which observations there is none.
LEMMA OutputRight ==
    ASSUME Lag = 0, RawOK, BuildTyped, Frozen, NEW i \in 1 .. NumBoundaries
    PROVE  /\ \A r \in Output(i) :
                 /\ r.time \in Span /\ r.value # Foreign /\ r.value # Null
                 /\ r.time <= r.at /\ Boundary(i) <= r.at /\ r.at <= Cutoff(i)
                 /\ r.at = r.time \/ r.at = Boundary(i)
                 /\ \A day \in Nat : r.time <= day /\ Boundary(i) <= day /\ day <= Cutoff(i) =>
                       Expected(raw, r.time, day) = {r.value}
           /\ \A r, s \in Output(i) : r.time = s.time => r = s
           /\ \A t \in Span : ~Covers(Output(i), t) =>
                 \A day \in Nat : t <= day /\ Boundary(i) <= day /\ day <= Cutoff(i) =>
                    Expected(raw, t, day) = {}
<1> DEFINE known == Known(build.inputs, Cutoff(i))
           Of(t) == Row(t, Max({t + Lag, Boundary(i)}), Reading(known, t), Unverified(known))
<1>0. /\ Boundary(i) \in Nat /\ Cutoff(i) \in Nat /\ Boundary(i) <= Cutoff(i)
      /\ build.first \in Nat /\ build.last \in Nat
    BY BoundaryOrder, Constants DEF BuildTyped
<1>1. Output(i) = {Of(t) : t \in Produced(known) \cap build.first .. build.last}
    BY DEF Output
<1>2. ASSUME NEW r \in Output(i)
      PROVE  /\ r.time \in Span /\ r.time \in Produced(known)
             /\ r = Of(r.time) /\ r.value = Reading(known, r.time)
             /\ r.at = Max({r.time, Boundary(i)})
  <2>1. PICK t \in Produced(known) \cap build.first .. build.last : r = Of(t)
      BY <1>1
  <2>2. t + Lag = t
      BY <1>0
  <2> HIDE DEF known
  <2>3. r.time = t /\ r.value = Reading(known, t) /\ r.at = Max({t + Lag, Boundary(i)})
      BY <2>1 DEF Row
  <2> QED  BY <2>1, <2>2, <2>3 DEF Span
<1>3. ASSUME NEW r \in Output(i)
      PROVE  /\ r.time \in Span /\ r.value # Foreign /\ r.value # Null
             /\ r.time <= r.at /\ Boundary(i) <= r.at /\ r.at <= Cutoff(i)
             /\ r.at = r.time \/ r.at = Boundary(i)
             /\ \A day \in Nat : r.time <= day /\ Boundary(i) <= day /\ day <= Cutoff(i) =>
                   Expected(raw, r.time, day) = {r.value}
  <2>1. r.time \in Span /\ r.time \in Nat /\ r.time <= Cutoff(i) /\ r \in Rows(ItemValues)
    <3>a. r.time \in Span
        BY <1>2
    <3>1. r.time \in Span /\ r.time \in Nat
        BY <1>0, <3>a DEF Span
    <3>2. r.time <= Cutoff(i) /\ r \in Rows(ItemValues)
        BY OutputRows
    <3> QED  BY <3>1, <3>2
  <2>2. /\ Max({r.time, Boundary(i)}) \in Nat
        /\ r.time <= Max({r.time, Boundary(i)}) /\ Boundary(i) <= Max({r.time, Boundary(i)})
        /\ Max({r.time, Boundary(i)}) = r.time \/ Max({r.time, Boundary(i)}) = Boundary(i)
      BY <1>0, <2>1, MaxPair
  <2>3. r.value # Foreign /\ r.value # Null
    <3>1. \A q \in known : q \in raw
        BY DEF Known, Latest, Frozen
    <3>2. \A q \in raw : q.time \in Days /\ q.value \in Values
        BY DEF RawOK, Versions, Rows
    <3> HIDE DEF known
    <3>3. Reading(known, r.time) \subseteq Days \X Values
        BY <3>1, <3>2 DEF Reading
    <3> QED  BY <1>2, <3>3, ReadingAssumption DEF Readings
  <2>4. \A day \in Nat : r.time <= day /\ Boundary(i) <= day /\ day <= Cutoff(i) =>
            Expected(raw, r.time, day) = {r.value}
      BY <1>2, <2>1, Interval
  <2> QED  BY <1>0, <1>2, <2>1, <2>2, <2>3, <2>4
<1>4. \A r, s \in Output(i) : r.time = s.time => r = s
    BY <1>2
<1>5. ASSUME NEW t \in Span, ~Covers(Output(i), t),
             NEW day \in Nat, t <= day, Boundary(i) <= day, day <= Cutoff(i)
      PROVE  Expected(raw, t, day) = {}
  <2>1. Of(t).time = t
      BY DEF Row
  <2>2. t \notin Produced(known)
      BY <1>1, <1>5, <2>1 DEF Covers, Span
  <2> QED  BY <1>5, <2>2, Interval
<1> QED  BY <1>3, <1>4, <1>5

\* The last evaluation stands for the end of the range.
LEMMA LastCutoff ==
    ASSUME RawOK, BuildTyped, Frozen
    PROVE  /\ NumBoundaries \in 1 .. NumBoundaries /\ NumBoundaries \in Nat
           /\ Cutoff(NumBoundaries) = build.last
           /\ Boundary(NumBoundaries) \in Nat /\ Boundary(NumBoundaries) <= build.last
<1>1. NumBoundaries \in 1 .. NumBoundaries /\ NumBoundaries \in Nat
    BY BoundariesTyped
<1> QED  BY <1>1, BoundaryOrder

-----------------------------------------------------------------------------
(* What an evaluation changes.                                              *)

\* The days before a boundary, when the evaluation before it has been published.
LEMMA EarlierGood ==
    ASSUME Lag = 0, RawOK, BuildTyped, Frozen, NEW k \in 0 .. NumBoundaries, Progress(k),
           build.pending = {}, k + 1 \in 1 .. NumBoundaries
    PROVE  /\ Boundary(k + 1) \in Nat
           /\ k = 0 => Boundary(k + 1) = 0
           /\ k > 0 => /\ k \in 1 .. NumBoundaries
                       /\ Cutoff(k) \in Nat /\ Cutoff(k) = Boundary(k + 1) - 1
           /\ \A t \in Span : \A day \in Nat :
                 t <= day /\ day < Boundary(k + 1) => Good(t, day)
<1>0. NumBoundaries \in Nat /\ k \in Nat
    BY BoundariesTyped
<1>1. Boundary(k + 1) \in Nat /\ (k = 0 => Boundary(k + 1) = 0)
    BY <1>0, BoundaryOrder, FirstBoundary
<1>2. k > 0 => /\ k \in 1 .. NumBoundaries
               /\ Cutoff(k) \in Nat /\ Cutoff(k) = Boundary(k + 1) - 1
  <2> SUFFICES ASSUME k > 0
               PROVE  /\ k \in 1 .. NumBoundaries
                      /\ Cutoff(k) \in Nat /\ Cutoff(k) = Boundary(k + 1) - 1
      OBVIOUS
  <2>1. k \in 1 .. NumBoundaries /\ k < NumBoundaries
      BY <1>0
  <2> QED  BY <2>1, BoundaryOrder
<1>3. ASSUME NEW t \in Span, NEW day \in Nat, t <= day, day < Boundary(k + 1)
      PROVE  Good(t, day)
  <2>1. k > 0
      BY <1>0, <1>1, <1>3
  <2>2. t \in Nat
      BY Constants DEF Span, BuildTyped
  <2>3. day \in t .. Cutoff(k)
      BY <1>1, <1>2, <1>3, <2>1, <2>2
  <2> QED  BY <2>1, <2>3 DEF Progress
<1> QED  BY <1>1, <1>2, <1>3

LEMMA ChangedRows ==
    ASSUME Lag = 0, RawOK, BuildTyped, Frozen, NEW k \in 0 .. NumBoundaries, Progress(k),
           build.pending = {}, k + 1 \in 1 .. NumBoundaries
    PROVE  /\ \A r \in Changes(k + 1) :
                 /\ r.value # Foreign
                 /\ r.time \in Span /\ r.time <= r.at /\ r.at <= build.last
                 /\ Boundary(k + 1) <= r.at /\ (r.at = r.time \/ r.at = Boundary(k + 1))
                 /\ Matches(r)
                 /\ \A day \in r.time .. build.last : day < r.at => Good(r.time, day)
           /\ \A r, s \in Changes(k + 1) : r.time = s.time => r = s
<1> DEFINE i == k + 1
           Gone(s) == Row(s.time, Max({s.time, Boundary(i)}), Null, s.baseline)
<1>0. /\ i \in 1 .. NumBoundaries /\ Boundary(i) \in Nat
      /\ k = 0 => Boundary(i) = 0
      /\ k > 0 => k \in 1 .. NumBoundaries /\ Cutoff(k) \in Nat /\ Cutoff(k) = Boundary(i) - 1
    BY EarlierGood
<1>a. \A t \in Span : \A day \in Nat : t <= day /\ day < Boundary(i) => Good(t, day)
    BY EarlierGood
<1>b. k \in Nat /\ \A t \in Span : t \in Nat
    BY BoundariesTyped, Constants DEF Span, BuildTyped
<1> HIDE DEF i
<1>1. /\ Cutoff(i) \in Nat /\ Cutoff(i) <= build.last /\ Boundary(i) <= Cutoff(i)
      /\ build.last \in Nat
    BY <1>0, BoundaryOrder, Constants DEF BuildTyped
<1>2. ASSUME NEW r \in Output(i)
      PROVE  /\ r.value # Foreign
             /\ r.time \in Span /\ r.time <= r.at /\ r.at <= build.last
             /\ Boundary(i) <= r.at /\ (r.at = r.time \/ r.at = Boundary(i))
             /\ Matches(r)
  <2>1. /\ r.time \in Span /\ r.value # Foreign /\ r.value # Null
        /\ r.time <= r.at /\ Boundary(i) <= r.at /\ r.at <= Cutoff(i)
        /\ r.at = r.time \/ r.at = Boundary(i)
        /\ \A day \in Nat : r.time <= day /\ Boundary(i) <= day /\ day <= Cutoff(i) =>
              Expected(raw, r.time, day) = {r.value}
      BY <1>0, OutputRight
  <2>2. r.at \in Nat
      BY <1>0, <1>b, <2>1
  <2>3. Expected(raw, r.time, r.at) = {r.value}
      BY <2>1, <2>2
  <2> QED  BY <1>1, <2>1, <2>2, <2>3 DEF Matches
<1>3. ASSUME NEW s \in build.previous, ~Covers(Output(i), s.time)
      PROVE  /\ s.time \in Span
             /\ Gone(s).value = Null /\ Gone(s).time = s.time /\ Gone(s).at = Boundary(i)
             /\ s.time <= Boundary(i) /\ Matches(Gone(s))
  <2>1. k > 0 /\ s \in Output(k)
      BY <1>3, <1>b DEF Progress
  <2>2. s.time \in Span /\ s.time \in Nat /\ s.time <= Cutoff(k)
    <3>1. s.time \in Span /\ s.time <= s.at /\ s.at <= Cutoff(k)
        BY <1>0, <2>1, OutputRight
    <3>2. s.at \in Nat
        BY <1>0, <2>1, OutputRows DEF Rows
    <3> QED  BY <1>0, <1>b, <2>1, <3>1, <3>2
  <2>3. s.time <= Boundary(i)
      BY <1>0, <2>1, <2>2
  <2>4. Max({s.time, Boundary(i)}) = Boundary(i)
      BY <1>0, <2>2, <2>3, MaxPair
  <2>5. Expected(raw, s.time, Boundary(i)) = {}
      BY <1>0, <1>1, <1>3, <2>2, <2>3, OutputRight
  <2>6. Gone(s).value = Null /\ Gone(s).time = s.time /\ Gone(s).at = Boundary(i)
      BY <2>4 DEF Row
  <2> HIDE DEF Gone
  <2> QED  BY <2>2, <2>3, <2>5, <2>6 DEF Matches
<1>4. ASSUME NEW r \in Changes(i), r \notin Output(i)
      PROVE  \E s \in build.previous : ~Covers(Output(i), s.time) /\ r = Gone(s)
    BY <1>4 DEF Changes, Withdrawn
<1> HIDE DEF Gone
<1>5. ASSUME NEW r \in Changes(i)
      PROVE  /\ r.value # Foreign
             /\ r.time \in Span /\ r.time <= r.at /\ r.at <= build.last
             /\ Boundary(i) <= r.at /\ (r.at = r.time \/ r.at = Boundary(i))
             /\ Matches(r)
  <2>1. CASE r \in Output(i)
      BY <2>1, <1>2
  <2>2. CASE r \notin Output(i)
    <3>1. PICK s \in build.previous : ~Covers(Output(i), s.time) /\ r = Gone(s)
        BY <2>2, <1>4
    <3>2. /\ s.time \in Span
          /\ r.value = Null /\ r.time = s.time /\ r.at = Boundary(i)
          /\ s.time <= Boundary(i) /\ Matches(r)
        BY <3>1, <1>3
    <3>3. Null # Foreign
        BY PointInTimeAssumption
    <3> QED  BY <3>2, <3>3, <1>0, <1>1
  <2> QED  BY <2>1, <2>2
<1>6. ASSUME NEW r \in Changes(i), NEW day \in r.time .. build.last, day < r.at
      PROVE  Good(r.time, day)
  <2>1. r.time \in Span /\ r.time \in Nat /\ (r.at = r.time \/ r.at = Boundary(i))
      BY <1>5, <1>b
  <2>2. day \in Nat /\ r.time <= day /\ day < Boundary(i)
      BY <2>1, <1>0, <1>1, <1>6
  <2> QED  BY <2>1, <2>2, <1>a
<1>7. ASSUME NEW r \in Changes(i), NEW s \in Changes(i), r.time = s.time PROVE r = s
  <2>1. CASE r \in Output(i) /\ s \in Output(i)
      BY <2>1, <1>0, <1>7, OutputRight
  <2>2. ASSUME NEW q \in Output(i), NEW w \in build.previous, ~Covers(Output(i), w.time),
               q.time = Gone(w).time
        PROVE  FALSE
      BY <2>2, <1>3 DEF Covers
  <2>3. CASE r \notin Output(i) /\ s \notin Output(i)
    <3>1. PICK v \in build.previous : ~Covers(Output(i), v.time) /\ r = Gone(v)
        BY <2>3, <1>4
    <3>2. PICK w \in build.previous : ~Covers(Output(i), w.time) /\ s = Gone(w)
        BY <2>3, <1>4
    <3>3. v.time = w.time
        BY <3>1, <3>2, <1>3, <1>7
    <3>4. k > 0 /\ v \in Output(k) /\ w \in Output(k)
        BY <1>b DEF Progress
    <3>5. v = w
        BY <1>0, <3>3, <3>4, OutputRight
    <3> QED  BY <3>1, <3>2, <3>5
  <2> QED  BY <1>4, <1>7, <2>1, <2>2, <2>3
<1> QED  BY <1>5, <1>6, <1>7 DEF i

\* Where an evaluation changes nothing, the view of the evaluation before holds on.
LEMMA UnchangedGood ==
    ASSUME Lag = 0, HInv, Frozen, NEW k \in 0 .. NumBoundaries, Progress(k),
           build.pending = {}, k + 1 \in 1 .. NumBoundaries,
           NEW t \in Span, NEW day \in Nat, t <= day, Boundary(k + 1) <= day,
           day <= Cutoff(k + 1), \A r \in Changes(k + 1) : r.time # t
    PROVE  Good(t, day)
<1> DEFINE i == k + 1
           E == Expected(raw, t, day)
<1>z. RawOK /\ BuildTyped /\ Versions(item, ItemValues) /\ Dated
    BY DEF HInv, IInv
<1>0. /\ i \in 1 .. NumBoundaries /\ Boundary(i) \in Nat
      /\ k = 0 => Boundary(i) = 0
      /\ k > 0 => k \in 1 .. NumBoundaries /\ Cutoff(k) \in Nat /\ Cutoff(k) = Boundary(i) - 1
    BY <1>z, EarlierGood
<1>a. \A d \in Nat : t <= d /\ d < Boundary(i) => Good(t, d)
    BY <1>z, EarlierGood
<1>b. k \in Nat /\ t \in Nat /\ build.last \in Nat
    BY <1>z, BoundariesTyped, Constants DEF Span, BuildTyped
<1>c. Boundary(i) <= day /\ day <= Cutoff(i) /\ \A r \in Changes(i) : r.time # t
    OBVIOUS
<1> HIDE DEF i
<1>1. /\ Cutoff(i) \in Nat /\ Cutoff(i) <= build.last /\ Boundary(i) <= Cutoff(i)
    BY <1>z, <1>0, BoundaryOrder
<1>2. \/ k > 0 /\ t <= Cutoff(k) /\ Expected(raw, t, Cutoff(k)) = E
      \/ E = {} /\ (k = 0 \/ t > Cutoff(k))
  <2>0. k > 0 => Boundary(k) <= Cutoff(k) /\ build.previous = Output(k)
      BY <1>z, <1>0, BoundaryOrder DEF Progress
  <2>1. ASSUME NEW q \in Output(i), q.time = t
        PROVE  k > 0 /\ t <= Cutoff(k) /\ Expected(raw, t, Cutoff(k)) = E
    <3>1. /\ q.at <= Cutoff(i) /\ E = {q.value}
        BY <1>z, <1>0, <1>c, <2>1, OutputRight
    <3>2. q.at \in Nat
        BY <1>z, <1>0, OutputRows DEF Rows
    <3>3. q.at <= build.last
        BY <1>1, <1>b, <3>1, <3>2
    <3>4. PICK s \in build.previous : SameRow(q, s)
        BY <1>c, <2>1, <3>3 DEF Changes
    <3>5. k > 0 /\ s \in Output(k) /\ s.time = t /\ s.value = q.value
        BY <1>b, <2>1, <3>4 DEF Progress, SameRow
    <3>6. s.time <= s.at /\ s.at <= Cutoff(k) /\ s.at \in Nat
        BY <1>z, <1>0, <3>5, OutputRight, OutputRows DEF Rows
    <3>7. t <= Cutoff(k)
        BY <1>0, <1>b, <3>5, <3>6
    <3>8. Expected(raw, t, Cutoff(k)) = {s.value}
        BY <1>z, <1>0, <2>0, <3>5, <3>7, OutputRight
    <3> QED  BY <3>1, <3>5, <3>7, <3>8
  <2>2. ASSUME ~Covers(Output(i), t)
        PROVE  E = {} /\ (k > 0 /\ t <= Cutoff(k) => Expected(raw, t, Cutoff(k)) = E)
    <3>1. E = {}
        BY <1>z, <1>0, <1>c, <2>2, OutputRight
    <3>2. ASSUME k > 0, t <= Cutoff(k) PROVE Expected(raw, t, Cutoff(k)) = {}
      <4>1. ~Covers(Output(k), t)
        <5> SUFFICES ASSUME NEW s \in Output(k), s.time = t PROVE FALSE
            BY DEF Covers
        <5> DEFINE q == Row(s.time, Max({s.time, Boundary(i)}), Null, s.baseline)
        <5>1. s.time <= Boundary(i)
            BY <1>0, <1>b, <3>2
        <5>2. Max({s.time, Boundary(i)}) = Boundary(i)
            BY <1>0, <1>b, <5>1, MaxPair
        <5>3. q.at <= build.last /\ q.time = t
            BY <1>0, <1>1, <1>b, <5>2 DEF Row
        <5>4. q \in Changes(i)
            BY <2>0, <2>2, <3>2, <5>3 DEF Changes, Withdrawn
        <5> QED  BY <5>3, <5>4, <1>c
      <4> QED  BY <1>z, <1>0, <2>0, <3>2, <4>1, OutputRight
    <3> QED  BY <3>1, <3>2
  <2> HIDE DEF E
  <2>3. CASE Covers(Output(i), t)
      BY <2>1, <2>3 DEF Covers
  <2>4. CASE ~Covers(Output(i), t)
    <3>1. k = 0 \/ (k > 0 /\ t <= Cutoff(k)) \/ (k > 0 /\ t > Cutoff(k))
        BY <1>0, <1>b
    <3> QED  BY <2>2, <2>4, <3>1
  <2> QED  BY <2>3, <2>4
<1>3. CASE Overtaken(day) \/ Overruled(t, day)
    BY <1>3 DEF Good
<1>4. CASE ~Overtaken(day) /\ ~Overruled(t, day)
  <2>0. \A r \in item : r.at \in Nat
      BY <1>z DEF Versions, Rows
  <2>1. ASSUME NEW v \in VisibleIn(item, t, day), Boundary(i) <= v.at
        PROVE  {v.value} \ {Null} = E
    <3>1. v \in item /\ v.at <= day /\ v.time = t /\ v.at \in Nat
        BY <2>0, InView
    <3>2. v.value # Foreign /\ RowRight(v)
        BY <3>1, <1>4 DEF Overruled, HInv
    <3>3. t <= v.at /\ Matches(v)
        BY <1>z, <3>1, <3>2, <1>4, OvertakenLater DEF RowRight
    <3>4. {v.value} \ {Null} = Expected(raw, t, v.at)
        BY <3>1, <3>3 DEF Matches
    <3>5. v.at <= Cutoff(i)
        BY <1>1, <1>c, <3>1
    <3> DEFINE known == Known(build.inputs, Cutoff(i))
    <3>6. Expected(raw, t, v.at) = IF t \in Produced(known) THEN {Reading(known, t)} ELSE {}
        BY <1>z, <1>0, <2>1, <3>1, <3>3, <3>5, Interval
    <3>7. E = IF t \in Produced(known) THEN {Reading(known, t)} ELSE {}
        BY <1>z, <1>0, <1>c, Interval
    <3> QED  BY <3>4, <3>6, <3>7
  <2> HIDE DEF E
  <2>2. CASE \E s \in item : s.time = t /\ s.at <= day /\ Boundary(i) <= s.at
    <3>1. PICK s \in item : s.time = t /\ s.at <= day /\ Boundary(i) <= s.at
        BY <2>2
    <3>2. VisibleIn(item, t, day) # {}
        BY <1>z, <3>1, ViewExists
    <3>3. \A v \in VisibleIn(item, t, day) : Boundary(i) <= v.at
      <4> SUFFICES ASSUME NEW v \in VisibleIn(item, t, day) PROVE Boundary(i) <= v.at
          OBVIOUS
      <4>1. v \in item /\ ~Later(s, v)
          BY <3>1, InView
      <4>2. v.at \in Nat /\ s.at \in Nat
          BY <2>0, <4>1
      <4> QED  BY <1>0, <3>1, <4>1, <4>2 DEF Later
    <3>4. \A v \in VisibleIn(item, t, day) : {v.value} \ {Null} = E
        BY <2>1, <3>3
    <3>5. VisibleIn(item, t, day) = {} => E = {}
        BY <3>2
    <3> QED  BY <3>4, <3>5, GoodIs DEF E
  <2>3. CASE ~\E s \in item : s.time = t /\ s.at <= day /\ Boundary(i) <= s.at
    <3>1. CASE k > 0 /\ t <= Cutoff(k) /\ Expected(raw, t, Cutoff(k)) = E
      <4>1. Cutoff(k) \in Nat /\ Cutoff(k) <= day /\ Cutoff(k) < Boundary(i)
          BY <1>0, <1>c, <3>1
      <4>2. \A s \in item : s.time = t /\ s.at <= day => s.at <= Cutoff(k)
          BY <2>0, <2>3, <1>0, <3>1
      <4>3. SeenIn(item, t, Cutoff(k)) = SeenIn(item, t, day)
          BY <2>0, <4>1, <4>2, SameView
      <4>4. Good(t, Cutoff(k))
          BY <1>a, <3>1, <4>1
      <4>5. ~Overtaken(Cutoff(k)) /\ ~Overruled(t, Cutoff(k))
          BY <1>z, <1>4, <4>1, OvertakenLater, OverruledLater
      <4>6. SeenIn(item, t, day) = E
          BY <3>1, <4>3, <4>4, <4>5, SeenNow DEF Good
      <4> QED  BY <4>6, SeenNow DEF Good, E
    <3>2. CASE E = {} /\ (k = 0 \/ t > Cutoff(k))
      <4>1. VisibleIn(item, t, day) = {}
        <5> SUFFICES ASSUME NEW v \in VisibleIn(item, t, day) PROVE FALSE
            OBVIOUS
        <5>1. v \in item /\ v.at <= day /\ v.time = t /\ v.at \in Nat
            BY <2>0, InView
        <5>2. t <= v.at
            BY <5>1 DEF HInv, RowRight
        <5>3. Boundary(i) <= v.at
            BY <1>0, <1>b, <3>2, <5>1, <5>2
        <5> QED  BY <2>3, <5>1, <5>3
      <4>2. SeenIn(item, t, day) = E
          BY <3>2, <4>1 DEF SeenIn
      <4> QED  BY <4>2, SeenNow DEF Good, E
    <3> QED  BY <1>2, <3>1, <3>2
  <2> QED  BY <2>2, <2>3
<1> QED  BY <1>3, <1>4

-----------------------------------------------------------------------------
(* What a commit makes of the views.                                        *)

\* A row of the next commit: what r says, with the next number.
Copy(q, r) ==
    /\ q.time = r.time /\ q.at = r.at /\ q.value = r.value
    /\ q.seq = LastCommit(item) + 1

LEMMA AddedCopies ==
    ASSUME Lag = 0, Versions(item, ItemValues), NEW rows, Versions(rows, ItemValues),
           \A r \in rows : r.time <= r.at, NEW q, Added(q, rows, item, "item")
    PROVE  \E r \in rows : Copy(q, r)
<1> DEFINE seq == LastCommit(item) + 1
<1>1. CASE \E r \in rows : q = [r EXCEPT !.seq = seq]
  <2>1. PICK r \in rows : q = [r EXCEPT !.seq = seq]
      BY <1>1
  <2>2. r \in Rows(ItemValues)
      BY DEF Versions
  <2> HIDE DEF seq
  <2>3. q.time = r.time /\ q.at = r.at /\ q.value = r.value /\ q.seq = seq
      BY <2>1, <2>2 DEF Rows
  <2> QED  BY <2>3 DEF Copy, seq
<1>2. CASE \E r \in rows, s \in item : /\ ~r.baseline /\ s.baseline
                                       /\ r.time = s.time /\ r.value = s.value
                                       /\ q = Witness(s, r, "item", seq)
  <2>1. PICK r \in rows, s \in item :
            r.time = s.time /\ r.value = s.value /\ q = Witness(s, r, "item", seq)
      BY <1>2
  <2>2. r \in Rows(ItemValues) /\ s \in Rows(ItemValues) /\ r.time <= r.at
      BY DEF Versions
  <2>3. r.time \in Nat /\ r.at \in Nat
      BY <2>2, Constants DEF Rows
  <2>4. Floor(s, "item") = r.time
      BY <2>1, <2>3 DEF Floor
  <2>5. Max({r.time, r.at}) = r.at
      BY <2>2, <2>3, MaxPair
  <2> HIDE DEF seq
  <2>6. q.time = s.time /\ q.at = r.at /\ q.value = s.value /\ q.seq = seq
      BY <2>1, <2>2, <2>4, <2>5 DEF Rows, Witness
  <2> QED  BY <2>1, <2>6 DEF Copy, seq
<1> QED  BY <1>1, <1>2, Zenon DEF Added

LEMMA CommitCopies ==
    ASSUME Lag = 0, Versions(item, ItemValues), NEW rows, Versions(rows, ItemValues),
           \A r \in rows : r.time <= r.at, item' = Committed(rows, item, "item")
    PROVE  /\ Versions(item', ItemValues) /\ item \subseteq item'
           /\ LastCommit(item) \in Nat /\ \A q \in item : q.seq <= LastCommit(item)
           /\ \A q \in item' : q.at \in Nat /\ q.seq \in Nat /\ q.time \in Nat
           /\ \A q \in item' : q \in item \/ \E r \in rows : Copy(q, r)
           /\ \A r \in rows : \/ \E q \in item' : Copy(q, r)
                              \/ \E q \in Latest(item) : q.time = r.time /\ q.value = r.value
<1> DEFINE seq == LastCommit(item) + 1
<1>1. /\ Versions(item', ItemValues) /\ item \subseteq item'
      /\ \A q \in item' : q \in item \/ Added(q, rows, item, "item")
    BY CommittedRows
<1>2. LastCommit(item) \in Nat /\ \A q \in item : q.seq <= LastCommit(item)
    BY LastCommitTyped
<1>3. ASSUME NEW r \in rows
      PROVE  \/ \E q \in item' : Copy(q, r)
             \/ \E q \in Latest(item) : q.time = r.time /\ q.value = r.value
  <2>1. CASE r \in NewRows(rows, item)
    <3>1. [r EXCEPT !.seq = seq] \in item'
        BY <2>1 DEF Committed
    <3>2. r \in Rows(ItemValues)
        BY DEF Versions
    <3> HIDE DEF seq
    <3>3. /\ [r EXCEPT !.seq = seq].time = r.time /\ [r EXCEPT !.seq = seq].at = r.at
          /\ [r EXCEPT !.seq = seq].value = r.value /\ [r EXCEPT !.seq = seq].seq = seq
        BY <3>2 DEF Rows
    <3>4. Copy([r EXCEPT !.seq = seq], r)
        BY <3>3 DEF Copy, seq
    <3> QED  BY <3>1, <3>4
  <2>2. CASE r \notin NewRows(rows, item)
      BY <2>2 DEF NewRows
  <2> QED  BY <2>1, <2>2
<1>4. ASSUME NEW q \in item' PROVE q \in item \/ \E r \in rows : Copy(q, r)
    BY <1>1, AddedCopies
<1>5. \A q \in item' : q.at \in Nat /\ q.seq \in Nat /\ q.time \in Nat
    BY <1>1, Constants DEF Versions, Rows
<1> QED  BY <1>1, <1>2, <1>3, <1>4, <1>5

\* What a published row says of the days for which it stands is what is seen.
LEMMA Establish ==
    ASSUME Lag = 0, RawOK, Dated, OneValue, UNCHANGED <<raw, frozen>>,
           Versions(item, ItemValues), \A q \in item : RowRight(q),
           NEW rows, Versions(rows, ItemValues), item' = Committed(rows, item, "item"),
           \A r \in rows : r.time <= r.at,
           \A r, s \in rows : r.time = s.time => r = s,
           NEW r \in rows, r.value # Foreign, Matches(r),
           NEW first \in Nat, NEW day \in Nat, first <= r.at, r.at <= day,
           \A d \in Nat : r.time <= d /\ first <= d /\ d <= day =>
              Expected(raw, r.time, d) = Expected(raw, r.time, r.at)
    PROVE  Good(r.time, day)'
<1> DEFINE t == r.time
           E == Expected(raw, t, r.at)
           N == LastCommit(item)
<1>1. /\ Versions(item', ItemValues) /\ item \subseteq item'
      /\ N \in Nat /\ \A q \in item : q.seq <= N
      /\ \A q \in item' : q.at \in Nat /\ q.seq \in Nat /\ q.time \in Nat
      /\ \A q \in item' : q \in item \/ \E s \in rows : Copy(q, s)
      /\ \/ \E q \in item' : Copy(q, r)
         \/ \E q \in Latest(item) : q.time = t /\ q.value = r.value
    BY CommitCopies
<1>2. t \in Nat /\ r.at \in Nat /\ t <= r.at
    BY Constants DEF Versions, Rows
<1>3. {r.value} \ {Null} = E
    BY DEF Matches
<1>4. ASSUME NEW q \in item', q.time = t
      PROVE  q \in item \/ Copy(q, r)
    BY <1>1, <1>4 DEF Copy
<1>5. ASSUME NEW q \in item', q.time = t, q.value # Foreign
      PROVE  t <= q.at /\ (Matches(q) \/ Overtaken(q.at))
  <2>1. CASE q \in item
      BY <1>5, <2>1 DEF RowRight
  <2>2. CASE Copy(q, r)
      BY <1>2, <2>2 DEF Copy, Matches
  <2> QED  BY <1>4, <1>5, <2>1, <2>2
<1>6. CASE Overtaken(day) \/ Overruled(t, day)'
  <2>1. Overtaken(day)' = Overtaken(day)
      BY DEF Overtaken
  <2> QED  BY <1>6, <2>1 DEF Good
<1>7. CASE \E q \in item : q.time = t /\ q.value = r.value /\ day < q.at
  <2>1. PICK q \in item : q.time = t /\ q.value = r.value /\ day < q.at
      BY <1>7
  <2>2. \A a \in t .. q.at : Good(t, a)
      BY <2>1 DEF RowRight
  <2>3. q.at \in Nat
      BY <1>1
  <2>4. \A a \in t .. day : Good(t, a)
    <3> SUFFICES ASSUME NEW a \in t .. day PROVE Good(t, a)
        OBVIOUS
    <3>1. a \in t .. q.at
        BY <1>2, <2>1, <2>3
    <3> QED  BY <2>2, <3>1
  <2>5. t <= day
      BY <1>2
  <2> QED  BY <1>1, <1>2, <1>5, <2>4, <2>5, Keep
<1>8. CASE /\ ~Overtaken(day) /\ ~Overruled(t, day)'
           /\ ~\E q \in item : q.time = t /\ q.value = r.value /\ day < q.at
  <2>1. ASSUME NEW v \in VisibleIn(item', t, day)
        PROVE  {v.value} \ {Null} = E
    <3>1. /\ v \in item' /\ v.at <= day /\ v.time = t /\ v.at \in Nat /\ v.seq \in Nat
          /\ \A s \in item' : s.at <= day /\ s.time = t => ~Later(s, v)
        BY <1>1, InView
    <3>2. v.value # Foreign
        BY <1>8, <3>1 DEF Overruled
    <3>3. t <= v.at /\ Matches(v)
        BY <1>5, <1>8, <3>1, <3>2, OvertakenLater
    <3>4. CASE first <= v.at
        BY <3>1, <3>3, <3>4 DEF Matches
    <3>5. CASE Copy(v, r)
        BY <1>3, <3>5 DEF Copy
    <3>6. CASE v \in item /\ v.at < first
      <4>1. ~\E q \in item' : Copy(q, r)
        <5> SUFFICES ASSUME NEW q \in item', Copy(q, r) PROVE FALSE
            OBVIOUS
        <5>1. q.time = t /\ q.at = r.at
            BY DEF Copy
        <5> QED  BY <1>2, <3>1, <3>6, <5>1 DEF Later
      <4>2. PICK q \in Latest(item) : q.time = t /\ q.value = r.value
          BY <1>1, <4>1
      <4>3. q \in item /\ ~Later(v, q)
          BY <3>1, <3>6, <4>2 DEF Latest
      <4>4. q.at \in Nat /\ q.seq \in Nat /\ q.at <= day
          BY <1>1, <1>8, <4>2, <4>3
      <4>5. ~Later(q, v)
          BY <1>1, <3>1, <4>2, <4>3, <4>4
      <4>6. q.at = v.at /\ q.seq = v.seq
          BY <3>1, <4>3, <4>4, <4>5 DEF Later
      <4>7. q.value = v.value
          BY <3>1, <3>6, <4>2, <4>3, <4>6 DEF OneValue
      <4> QED  BY <1>3, <4>2, <4>7
    <3>7. first <= v.at \/ v.at < first
        BY <3>1
    <3> QED  BY <1>4, <3>1, <3>4, <3>5, <3>6, <3>7
  <2>2. VisibleIn(item', t, day) # {}
    <3>1. CASE \E q \in item' : Copy(q, r)
      <4>1. PICK q \in item' : Copy(q, r)
          BY <3>1
      <4>2. q.time = t /\ q.at <= day
          BY <4>1 DEF Copy
      <4> QED  BY <1>1, <4>2, ViewExists
    <3>2. CASE \E q \in Latest(item) : q.time = t /\ q.value = r.value
      <4>1. PICK q \in Latest(item) : q.time = t /\ q.value = r.value
          BY <3>2
      <4>2. q \in item'
          BY <1>1, <4>1 DEF Latest
      <4>3. q \in item
          BY <4>1 DEF Latest
      <4>4. q.at <= day
          BY <1>1, <1>8, <4>1, <4>2, <4>3
      <4> QED  BY <1>1, <4>1, <4>2, <4>4, ViewExists
    <3> QED  BY <1>1, <3>1, <3>2
  <2>3. \A C : (\A v \in VisibleIn(item', t, day) : {v.value} \ {Null} = C)
               => SeenIn(item', t, day) = C
      BY <2>2, SeenIs
  <2>4. SeenIn(item', t, day) = E
      BY <2>1, <2>3
  <2>5. Expected(raw, t, day)' = E
      BY <1>2
  <2> QED  BY <2>4, <2>5, SeenNext DEF Good
<1> QED  BY <1>6, <1>7, <1>8

-----------------------------------------------------------------------------
(* A publication.                                                           *)

\* A row published for the end of the range overrules whatever was there.
LEMMA SettleNow ==
    ASSUME Lag = 0, RawOK, OneValue, UNCHANGED raw,
           Versions(item, ItemValues),
           NEW rows, Versions(rows, ItemValues), item' = Committed(rows, item, "item"),
           \A r \in rows : r.time <= r.at,
           \A r, s \in rows : r.time = s.time => r = s,
           NEW r \in rows, Matches(r), ~\E q \in item' : q.at > r.at
    PROVE  SeenIn(item', r.time, r.at) = Expected(raw, r.time, r.at)
<1> DEFINE t == r.time
           last == r.at
           E == Expected(raw, t, last)
           N == LastCommit(item)
<1>1. /\ Versions(item', ItemValues) /\ item \subseteq item'
      /\ N \in Nat /\ \A q \in item : q.seq <= N
      /\ \A q \in item' : q.at \in Nat /\ q.seq \in Nat /\ q.time \in Nat
      /\ \A q \in item' : q \in item \/ \E s \in rows : Copy(q, s)
      /\ \/ \E q \in item' : Copy(q, r)
         \/ \E q \in Latest(item) : q.time = t /\ q.value = r.value
    BY CommitCopies
<1>2. {r.value} \ {Null} = E /\ last \in Nat
    BY DEF Matches, Versions, Rows
<1>3. \A q \in item' : q.at <= last
    BY <1>1, <1>2
<1>4. ASSUME NEW v \in VisibleIn(item', t, last) PROVE {v.value} \ {Null} = E
  <2>1. /\ v \in item' /\ v.at <= last /\ v.time = t /\ v.at \in Nat /\ v.seq \in Nat
        /\ \A s \in item' : s.at <= last /\ s.time = t => ~Later(s, v)
      BY <1>1, InView
  <2>2. CASE Copy(v, r)
      BY <1>2, <2>2 DEF Copy
  <2>3. CASE v \in item
    <3>1. CASE \E q \in item' : Copy(q, r)
      <4>1. PICK q \in item' : Copy(q, r)
          BY <3>1
      <4>2. q.time = t /\ q.at = last /\ q.seq = N + 1 /\ v.seq <= N
          BY <1>1, <2>3, <4>1 DEF Copy
      <4>3. Later(q, v)
          BY <1>1, <2>1, <4>2 DEF Later
      <4> QED  BY <1>3, <2>1, <4>2, <4>3
    <3>2. CASE \E q \in Latest(item) : q.time = t /\ q.value = r.value
      <4>1. PICK q \in Latest(item) : q.time = t /\ q.value = r.value
          BY <3>2
      <4>2. q \in item /\ q \in item' /\ ~Later(v, q)
          BY <1>1, <2>1, <2>3, <4>1 DEF Latest
      <4>3. ~Later(q, v)
          BY <1>3, <2>1, <4>1, <4>2
      <4>4. q.at = v.at /\ q.seq = v.seq
          BY <1>1, <2>1, <4>2, <4>3 DEF Later
      <4>5. q.value = v.value
          BY <2>1, <2>3, <4>1, <4>2, <4>4 DEF OneValue
      <4> QED  BY <1>2, <4>1, <4>5
    <3> QED  BY <1>1, <3>1, <3>2
  <2>4. v \in item \/ Copy(v, r)
      BY <1>1, <2>1 DEF Copy
  <2> QED  BY <2>2, <2>3, <2>4
<1>5. VisibleIn(item', t, last) # {}
  <2>1. PICK q \in item' : q.time = t
      BY <1>1 DEF Copy, Latest
  <2> QED  BY <1>1, <1>2, <1>3, <2>1, ViewExists
<1>6. \A C : (\A v \in VisibleIn(item', t, last) : {v.value} \ {Null} = C)
             => SeenIn(item', t, last) = C
    BY <1>5, SeenIs
<1> QED  BY <1>4, <1>6

\* The group a commit takes is not empty.
LEMMA GroupSome ==
    ASSUME BuildTyped, build.pending # {}
    PROVE  Group # {} /\ Group \subseteq build.pending
<1> DEFINE verified == {r \in build.pending : ~r.baseline}
           rows == IF verified # {} THEN verified ELSE build.pending
           Ats == {r.at : r \in rows}
<1>1. rows \subseteq build.pending /\ rows # {}
    OBVIOUS
<1>2. Ats \in SUBSET Nat /\ Ats # {}
    BY <1>1 DEF BuildTyped, Rows
<1>3. PICK a \in Ats : \A b \in Ats : a <= b
    BY <1>2, NatLeast
<1>4. PICK r \in rows : r.at = a
    BY <1>3
<1>5. r \in {q \in rows : \A s \in rows : q.at <= s.at}
    BY <1>3, <1>4
<1> QED  BY <1>1, <1>5 DEF Group

LEMMA PublishFacts ==
    ASSUME HInv, Publish
    PROVE  /\ RawOK /\ BuildTyped /\ Frozen /\ Dated /\ OneValue /\ PendingRight /\ PhaseRight
           /\ build.last <= build.on /\ build.on = today /\ Receipt(build) \in frozen
           /\ Versions(item, ItemValues) /\ \A q \in item : RowRight(q)
           /\ Versions(Group, ItemValues) /\ Group \subseteq build.pending /\ Group # {}
           /\ \A r \in Group : r.time <= r.at
           /\ \A r, s \in Group : r.time = s.time => r = s
           /\ item' = Committed(Group, item, "item") /\ UNCHANGED <<today, raw, frozen>>
           /\ build'.pending = build.pending \ Group /\ build'.previous = build.previous
           /\ build'.reconciled = build.reconciled /\ build'.first = build.first
           /\ build'.last = build.last /\ build'.inputs = build.inputs
           /\ build'.phase = build.phase /\ build'.on = build.on /\ build'.raw = build.raw
<1>1. /\ Building /\ build.pending # {} /\ UNCHANGED <<today, raw, frozen>>
      /\ item' = Committed(Group, item, "item")
      /\ build' = [build EXCEPT !.pending = @ \ Group]
    BY DEF Publish
<1>2. /\ RawOK /\ BuildTyped /\ Frozen /\ Versions(item, ItemValues)
      /\ Dated /\ OneValue /\ \A q \in item : RowRight(q)
    BY <1>1 DEF HInv, IInv, BuildOK
<1>3. /\ PendingRight /\ PhaseRight
      /\ build.last <= build.on /\ build.on = today /\ Receipt(build) \in frozen
    BY <1>1 DEF HInv, BuildRight
<1>4. Group # {} /\ Group \subseteq build.pending
    BY <1>1, <1>2, GroupSome
<1>5. Versions(Group, ItemValues)
    BY <1>2, <1>4 DEF BuildTyped, Versions
<1>6. /\ \A r \in Group : r.time <= r.at
      /\ \A r, s \in Group : r.time = s.time => r = s
    BY <1>3, <1>4 DEF PendingRight
<1>7. /\ build'.pending = build.pending \ Group /\ build'.previous = build.previous
      /\ build'.reconciled = build.reconciled /\ build'.first = build.first
      /\ build'.last = build.last /\ build'.inputs = build.inputs
      /\ build'.phase = build.phase /\ build'.on = build.on /\ build'.raw = build.raw
    BY <1>1, <1>2 DEF BuildTyped
<1> QED  BY <1>1, <1>2, <1>3, <1>4, <1>5, <1>6, <1>7

\* A publication leaves right what was right up to a day.
LEMMA PublishKeeps ==
    ASSUME Lag = 0, HInv, Publish
    PROVE  /\ Versions(item', ItemValues) /\ item \subseteq item'
           /\ \A q \in item' : q.at \in Nat /\ q.time \in Nat
           /\ \A q \in item' : q \in item \/ \E p \in Group : Copy(q, p)
           /\ \A t \in Nat, day \in Nat :
                 t <= day /\ (\A a \in t .. day : Good(t, a)) => Good(t, day)'
<1>1. /\ Versions(item', ItemValues) /\ item \subseteq item'
      /\ \A q \in item' : q.at \in Nat /\ q.time \in Nat
      /\ \A q \in item' : q \in item \/ \E p \in Group : Copy(q, p)
    BY PublishFacts, CommitCopies
<1>2. ASSUME NEW q \in item', q.value # Foreign
      PROVE  q.time <= q.at /\ (Matches(q) \/ Overtaken(q.at))
  <2>1. CASE q \in item
      BY <1>2, <2>1, PublishFacts DEF RowRight
  <2>2. CASE \E p \in Group : Copy(q, p)
    <3>1. PICK p \in Group : Copy(q, p)
        BY <2>2
    <3>2. Matches(p) /\ p.time <= p.at
        BY PublishFacts DEF PendingRight
    <3> QED  BY <3>1, <3>2 DEF Copy, Matches
  <2> QED  BY <1>1, <2>1, <2>2
<1>3. ASSUME NEW t \in Nat, NEW day \in Nat, t <= day, \A a \in t .. day : Good(t, a)
      PROVE  Good(t, day)'
  <2>1. \A q \in item' : q.time = t /\ q.at <= day /\ q.value # Foreign =>
                            t <= q.at /\ (Matches(q) \/ Overtaken(q.at))
      BY <1>2
  <2> QED  BY <1>1, <1>3, <2>1, PublishFacts, Keep
<1> QED  BY <1>1, <1>3

\* A published row is seen for the days for which it stands.
LEMMA PublishEstablishes ==
    ASSUME Lag = 0, HInv, Publish, NEW r \in Group, NEW first \in Nat, NEW day \in Nat,
           first <= r.at, r.at <= day,
           \A d \in Nat : r.time <= d /\ first <= d /\ d <= day =>
              Expected(raw, r.time, d) = Expected(raw, r.time, r.at)
    PROVE  Good(r.time, day)'
<1>1. r.value # Foreign /\ Matches(r)
    BY PublishFacts DEF PendingRight
<1> QED  BY <1>1, PublishFacts, Establish

LEMMA PublishRows ==
    ASSUME Lag = 0, HInv, Publish
    PROVE  \A r \in item' : RowRight(r)'
<1> SUFFICES ASSUME NEW r \in item' PROVE RowRight(r)'
    OBVIOUS
<1>0. r.at \in Nat /\ r.time \in Nat
    BY PublishKeeps
<1>1. /\ r.at \in Nat /\ r.time \in Nat
      /\ \A t \in Nat, day \in Nat :
            t <= day /\ (\A a \in t .. day : Good(t, a)) => Good(t, day)'
    BY PublishKeeps
<1>2. UNCHANGED <<today, raw, frozen>>
    BY PublishFacts
<1>3. (Matches(r) \/ Overtaken(r.at)) => (Matches(r) \/ Overtaken(r.at))'
    BY <1>2 DEF Matches, Overtaken
<1>4. CASE r \in item
  <2>1. RowRight(r)
      BY <1>4, PublishFacts
  <2>2. ASSUME r.value # Foreign, NEW day \in r.time .. r.at PROVE Good(r.time, day)'
    <3>1. day \in Nat /\ r.time <= day
        BY <1>1
    <3>2. \A a \in r.time .. day : Good(r.time, a)
      <4> SUFFICES ASSUME NEW a \in r.time .. day PROVE Good(r.time, a)
          OBVIOUS
      <4>1. a \in r.time .. r.at
          BY <1>1, <3>1
      <4> QED  BY <2>1, <2>2, <4>1 DEF RowRight
    <3> QED  BY <1>1, <3>1, <3>2
  <2> QED  BY <1>2, <1>3, <2>1, <2>2 DEF RowRight
<1>5. CASE \E p \in Group : Copy(r, p)
  <2>1. PICK p \in Group : Copy(r, p)
      BY <1>5
  <2>2. r.time = p.time /\ r.at = p.at /\ r.value = p.value
      BY <2>1 DEF Copy
  <2>3. /\ p.value # Foreign /\ p.time \in Span /\ p.time <= p.at /\ p.at <= build.last
        /\ Matches(p) /\ \A day \in p.time .. build.last : day < p.at => Good(p.time, day)
      BY PublishFacts DEF PendingRight
  <2>4. build.last \in Nat /\ build.last <= today /\ today \in Nat
      BY PublishFacts, Constants DEF BuildTyped
  <2>5. ASSUME NEW day \in r.time .. r.at PROVE Good(r.time, day)'
    <3>1. day \in Nat /\ r.time <= day /\ day <= r.at
        BY <1>1
    <3>2. CASE day = r.at
      <4>1. \A d \in Nat : p.time <= d /\ p.at <= d /\ d <= day =>
               Expected(raw, p.time, d) = Expected(raw, p.time, p.at)
        <5> SUFFICES ASSUME NEW d \in Nat, p.at <= d, d <= day
                     PROVE  Expected(raw, p.time, d) = Expected(raw, p.time, p.at)
            OBVIOUS
        <5>1. d = p.at
            BY <1>0, <2>2, <3>2
        <5> QED  BY <5>1
      <4>2. p.at \in Nat /\ p.at <= p.at /\ p.at <= day
          BY <1>1, <2>2, <3>2
      <4>3. Good(p.time, day)'
          BY <3>1, <4>1, <4>2, PublishEstablishes
      <4> QED  BY <2>2, <4>3
    <3>3. CASE day < r.at
      <4>1. \A a \in r.time .. day : Good(r.time, a)
        <5> SUFFICES ASSUME NEW a \in r.time .. day PROVE Good(r.time, a)
            OBVIOUS
        <5>1. a \in p.time .. build.last /\ a < p.at
            BY <1>1, <2>2, <2>3, <2>4, <3>1, <3>3
        <5> QED  BY <2>2, <2>3, <5>1
      <4> QED  BY <1>1, <3>1, <4>1
    <3>4. day = r.at \/ day < r.at
        BY <1>0, <3>1
    <3> QED  BY <3>2, <3>3, <3>4
  <2>6. Matches(r)
      BY <2>2, <2>3 DEF Matches
  <2>7. \E f \in frozen : r.at <= f.on
    <3>1. Receipt(build) \in frozen /\ Receipt(build).on = build.on /\ build.on \in Nat
        BY PublishFacts, Constants DEF Receipt, BuildTyped
    <3>2. r.at <= build.on
        BY <1>1, <2>2, <2>3, <2>4, <3>1, PublishFacts
    <3> QED  BY <3>1, <3>2
  <2>8. r.time <= r.at /\ r.at <= today
      BY <1>1, <2>2, <2>3, <2>4
  <2> QED  BY <1>2, <1>3, <2>5, <2>6, <2>7, <2>8 DEF RowRight
<1> QED  BY <1>4, <1>5, PublishKeeps

LEMMA PublishOneValue ==
    ASSUME Lag = 0, HInv, Publish
    PROVE  OneValue'
<1> SUFFICES ASSUME NEW r \in item', NEW s \in item',
                    r.time = s.time, r.at = s.at, r.seq = s.seq
             PROVE  r.value = s.value
    BY DEF OneValue
<1>1. /\ LastCommit(item) \in Nat /\ \A q \in item : q.seq <= LastCommit(item) /\ q.seq \in Nat
      /\ \A q \in item' : q \in item \/ \E p \in Group : Copy(q, p)
      /\ \A p, q \in Group : p.time = q.time => p = q
  <2>1. \A q \in item : q.seq \in Nat
      BY PublishFacts DEF Versions, Rows
  <2> QED  BY <2>1, PublishFacts, CommitCopies
<1>2. CASE r \in item /\ s \in item
    BY <1>2, PublishFacts DEF OneValue
<1>3. CASE r \notin item /\ s \notin item
    BY <1>1, <1>3 DEF Copy
<1>4. ASSUME NEW q \in item, NEW x \in item', x \notin item, x.seq = q.seq PROVE FALSE
    BY <1>1, <1>4 DEF Copy
<1> QED  BY <1>2, <1>3, <1>4

LEMMA PublishHistory ==
    ASSUME Lag = 0, HInv, Publish
    PROVE  HistoryRight'
<1>1. frozen' = frozen /\ frozen \subseteq [first : Days, last : Days, on : Days, raw : Nat, done : BOOLEAN]
    BY PublishFacts DEF HInv, IInv, TypeOK
<1> SUFFICES ASSUME NEW f \in frozen, f.done, NEW t \in f.first .. f.last,
                    NEW day \in t .. f.last, day < f.on
             PROVE  Good(t, day)'
    BY <1>1 DEF HistoryRight
<1>2. /\ t \in Nat /\ day \in Nat /\ t <= day /\ day <= f.last
      /\ f.last \in Nat /\ f.on \in Nat
  <2>1. f.first \in Nat /\ f.last \in Nat /\ f.on \in Nat
      BY <1>1, Constants
  <2> QED  BY <2>1
<1>3. \A a \in t .. day : Good(t, a)
  <2> SUFFICES ASSUME NEW a \in t .. day PROVE Good(t, a)
      OBVIOUS
  <2>1. a \in t .. f.last /\ a < f.on
      BY <1>2
  <2> QED  BY <2>1 DEF HInv, HistoryRight
<1> QED  BY <1>2, <1>3, PublishKeeps

LEMMA PublishPending ==
    ASSUME Lag = 0, HInv, Publish
    PROVE  PendingRight'
<1>1. /\ build'.pending \subseteq build.pending /\ Span' = Span /\ build'.last = build.last
      /\ PendingRight /\ raw' = raw
    BY PublishFacts DEF Span
<1>2. ASSUME NEW r \in build.pending, NEW day \in r.time .. build.last, day < r.at
      PROVE  Good(r.time, day)'
  <2>1. r.time \in Nat /\ r.at \in Nat /\ build.last \in Nat
      BY PublishFacts, Constants DEF BuildTyped, Rows
  <2>2. day \in Nat /\ r.time <= day /\ day <= build.last
      BY <2>1
  <2>3. \A a \in r.time .. day : Good(r.time, a)
    <3> SUFFICES ASSUME NEW a \in r.time .. day PROVE Good(r.time, a)
        OBVIOUS
    <3>1. a \in r.time .. build.last /\ a < r.at
        BY <1>2, <2>1, <2>2
    <3> QED  BY <1>1, <3>1 DEF PendingRight
  <2> QED  BY <2>1, <2>2, <2>3, PublishKeeps
<1>3. \A r : Matches(r)' <=> Matches(r)
    BY <1>1 DEF Matches
<1> QED  BY <1>1, <1>2, <1>3 DEF PendingRight

\* While the evaluations are reconciled.
LEMMA PublishProgress ==
    ASSUME Lag = 0, HInv, Publish, NEW k \in 0 .. NumBoundaries, Progress(k)
    PROVE  Progress(k)'
<1>1. /\ NumBoundaries' = NumBoundaries
      /\ \A i : Boundary(i)' = Boundary(i) /\ Cutoff(i)' = Cutoff(i) /\ Output(i)' = Output(i)
    BY PublishFacts, SameEvaluations
<1>2. /\ build'.reconciled = build.reconciled /\ build'.previous = build.previous
      /\ build'.pending = build.pending \ Group /\ Span' = Span /\ build.pending # {}
    BY PublishFacts DEF Span
<1>3. k > 0 /\ k \in Nat /\ k \in 1 .. NumBoundaries
  <2>1. NumBoundaries \in Nat
      BY PublishFacts, BoundariesTyped
  <2> QED  BY <1>2, <2>1 DEF Progress
<1>4. /\ Boundary(k) \in Nat /\ Cutoff(k) \in Nat /\ Cutoff(k) <= build.last /\ build.last \in Nat
      /\ \A t \in Span : t \in Nat
  <2>1. build.last \in Nat /\ build.first \in Nat
      BY PublishFacts, Constants DEF BuildTyped
  <2> QED  BY <1>3, <2>1, PublishFacts, BoundaryOrder DEF Span
<1>5. ASSUME NEW t \in Span, NEW day \in t .. Cutoff(k)
      PROVE  Good(t, day)' \/ \E r \in build'.pending : r.time = t /\ r.at <= day
  <2>1. t \in Nat /\ day \in Nat /\ t <= day /\ day <= Cutoff(k)
      BY <1>4
  <2>2. CASE \E r \in Group : r.time = t /\ r.at <= day
    <3>1. PICK r \in Group : r.time = t /\ r.at <= day
        BY <2>2
    <3>2. r \in build.pending /\ Boundary(k) <= r.at /\ r.time <= r.at /\ r.at \in Nat
        BY <1>3, PublishFacts DEF Progress, Versions, Rows
    <3> DEFINE known == Known(build.inputs, Cutoff(k))
               E == IF t \in Produced(known) THEN {Reading(known, t)} ELSE {}
    <3>3. ASSUME NEW d \in Nat, t <= d, Boundary(k) <= d, d <= day
          PROVE  Expected(raw, t, d) = E
      <4>1. d <= Cutoff(k)
          BY <1>4, <2>1, <3>3
      <4> QED  BY <1>3, <3>3, <4>1, PublishFacts, Interval
    <3> HIDE DEF E
    <3>4. Expected(raw, t, r.at) = E
        BY <3>1, <3>2, <3>3
    <3>5. \A d \in Nat : r.time <= d /\ Boundary(k) <= d /\ d <= day =>
              Expected(raw, r.time, d) = Expected(raw, r.time, r.at)
        BY <3>1, <3>3, <3>4
    <3> QED  BY <1>4, <2>1, <3>1, <3>2, <3>5, PublishEstablishes
  <2>3. CASE \E r \in build.pending \ Group : r.time = t /\ r.at <= day
      BY <1>2, <2>3
  <2>4. CASE ~\E r \in build.pending : r.time = t /\ r.at <= day
    <3>1. \A a \in t .. day : Good(t, a)
      <4> SUFFICES ASSUME NEW a \in t .. day PROVE Good(t, a)
          OBVIOUS
      <4>1. a \in t .. Cutoff(k) /\ a <= day /\ a \in Nat
          BY <1>4, <2>1
      <4>2. \A r \in build.pending : r.at \in Nat
          BY PublishFacts DEF BuildTyped, Rows
      <4>3. ~\E r \in build.pending : r.time = t /\ r.at <= a
          BY <2>1, <2>4, <4>1, <4>2
      <4> QED  BY <1>3, <4>1, <4>3 DEF Progress
    <3> QED  BY <2>1, <3>1, PublishKeeps
  <2> QED  BY <2>2, <2>3, <2>4
<1> QED  BY <1>1, <1>2, <1>3, <1>5 DEF Progress

\* After the last evaluation.
LEMMA PublishSettles ==
    ASSUME Lag = 0, HInv, Publish, NEW t \in Span, Waiting(t) \/ Settled(t),
           \A r \in build.pending : r.at = build.last
    PROVE  Waiting(t)' \/ Settled(t)'
<1>1. /\ build'.pending = build.pending \ Group /\ build'.last = build.last /\ raw' = raw
      /\ item \subseteq item' /\ Group \subseteq build.pending
    BY PublishFacts, PublishKeeps
<1>2. CASE \E r \in item' : r.at > build.last
    BY <1>1, <1>2 DEF Settled
<1>3. CASE \E r \in Group : r.time = t
  <2> SUFFICES ASSUME ~\E r \in item' : r.at > build.last
               PROVE  Settled(t)'
      BY <1>2
  <2>1. PICK r \in Group : r.time = t
      BY <1>3
  <2>2. r.at = build.last /\ Matches(r)
      BY <1>1, PublishFacts DEF PendingRight
  <2>3. ~\E q \in item' : q.at > r.at
      BY <2>2
  <2>4. SeenIn(item', r.time, r.at) = Expected(raw, r.time, r.at)
      BY <2>2, <2>3, PublishFacts, SettleNow
  <2>5. Seen(t, build.last)' = SeenIn(item', t, build'.last)
      BY SeenNext DEF Seen, SeenIn, VisibleIn
  <2> QED  BY <1>1, <2>1, <2>2, <2>4, <2>5 DEF Settled
<1>4. CASE ~(\E r \in Group : r.time = t) /\ ~\E r \in item' : r.at > build.last
  <2>1. CASE Waiting(t)
      BY <1>1, <1>4, <2>1 DEF Waiting
  <2>2. CASE Settled(t)
    <3>1. Seen(t, build.last) = Expected(raw, t, build.last)
        BY <1>1, <1>4, <2>2 DEF Settled
    <3>2. \A r : r.time = t => (r \in item' <=> r \in item)
        BY <1>1, <1>4, PublishKeeps DEF Copy
    <3>3. \A r, day : r \in VisibleIn(item', t, day) <=> r \in VisibleIn(item, t, day)
        BY <3>2, InView
    <3>4. \A day : VisibleIn(item', t, day) = VisibleIn(item, t, day)
        BY <3>3
    <3>5. Seen(t, build.last)' = Seen(t, build.last)
        BY <1>1, <3>4 DEF Seen, VisibleIn
    <3> QED  BY <1>1, <3>1, <3>5 DEF Settled
  <2> QED  BY <2>1, <2>2
<1> QED  BY <1>2, <1>3, <1>4

LEMMA PublishPhase ==
    ASSUME Lag = 0, HInv, Publish
    PROVE  PhaseRight'
<1>1. /\ NumBoundaries' = NumBoundaries /\ \A i : Output(i)' = Output(i)
    BY PublishFacts, SameEvaluations
<1>2. /\ build'.phase = build.phase /\ build'.pending \subseteq build.pending
      /\ build'.last = build.last /\ Span' = Span /\ Final' = Final /\ PhaseRight
  <2>1. /\ build'.phase = build.phase /\ build'.pending \subseteq build.pending
        /\ build'.last = build.last /\ Span' = Span /\ PhaseRight
      BY PublishFacts DEF Span
  <2> QED  BY <1>1, <2>1 DEF Final
<1>3. item' # {}
  <2>1. CASE item # {}
      BY <2>1, PublishKeeps
  <2>2. CASE item = {}
    <3>1. PICK r \in Group : TRUE
        BY PublishFacts
    <3>2. (\E q \in item' : Copy(q, r)) \/ Latest(item) # {}
        BY PublishFacts, CommitCopies
    <3> QED  BY <2>2, <3>2 DEF Latest
  <2> QED  BY <2>1, <2>2
<1>4. ASSUME build.phase = "building"
      PROVE  \E k \in 0 .. NumBoundaries' : Progress(k)'
  <2>1. PICK k \in 0 .. NumBoundaries : Progress(k)
      BY <1>2, <1>4 DEF PhaseRight
  <2> QED  BY <1>1, <2>1, PublishProgress
<1>5. ASSUME AllGood PROVE AllGood'
  <2> SUFFICES ASSUME NEW t \in Span, NEW day \in t .. build.last PROVE Good(t, day)'
      BY <1>2 DEF AllGood
  <2>1. t \in Nat /\ build.last \in Nat
      BY PublishFacts, Constants DEF BuildTyped, Span
  <2>2. day \in Nat /\ t <= day /\ day <= build.last
      BY <2>1
  <2>3. \A a \in t .. day : Good(t, a)
    <3> SUFFICES ASSUME NEW a \in t .. day PROVE Good(t, a)
        OBVIOUS
    <3>1. a \in t .. build.last
        BY <2>1, <2>2
    <3> QED  BY <1>5, <3>1 DEF AllGood
  <2> QED  BY <2>1, <2>2, <2>3, PublishKeeps
<1>6. ASSUME build.phase # "building"
      PROVE  \A r \in build.pending : r.at = build.last
    BY <1>2, <1>6 DEF PhaseRight
<1>7. \A t \in Span : build.phase # "building" /\ (Waiting(t) \/ Settled(t)) =>
                         Waiting(t)' \/ Settled(t)'
    BY <1>6, PublishSettles
<1>8. (build.phase = "repairing" => \A t \in Span : Covers(Final, t) => Waiting(t) \/ Settled(t))'
  <2> SUFFICES ASSUME build.phase = "repairing", NEW t \in Span, Covers(Final, t)
               PROVE  Waiting(t)' \/ Settled(t)'
      BY <1>2 DEF Covers
  <2>1. Waiting(t) \/ Settled(t)
      BY <1>2 DEF PhaseRight
  <2> QED  BY <1>7, <2>1
<1>9. (build.phase = "withdrawing" => \A t \in Span : Waiting(t) \/ Settled(t))'
  <2> SUFFICES ASSUME build.phase = "withdrawing", NEW t \in Span
               PROVE  Waiting(t)' \/ Settled(t)'
      BY <1>2
  <2>1. Waiting(t) \/ Settled(t)
      BY <1>2 DEF PhaseRight
  <2> QED  BY <1>7, <2>1
<1>10. (build.phase = "building" =>
          /\ \E k \in 0 .. NumBoundaries : Progress(k)
          /\ item = {} /\ build.pending = {} => build.previous = {})'
    BY <1>2, <1>3, <1>4
<1>11. (build.phase # "building" => AllGood /\ \A r \in build.pending : r.at = build.last)'
    BY <1>2, <1>5, <1>6 DEF PhaseRight
<1> QED  BY <1>8, <1>9, <1>10, <1>11 DEF PhaseRight

LEMMA PublishHStep == ASSUME Lag = 0, HInv, Publish PROVE HInv'
<1>1. IInv'
    BY PublishStep DEF HInv
<1>2. Dated'
    BY PublishFacts DEF Dated
<1>3. BuildRight'
  <2>1. Receipt(build)' = Receipt(build)
      BY PublishFacts DEF Receipt
  <2>2. (build.last <= build.on /\ build.on = today /\ Receipt(build) \in frozen)'
      BY <2>1, PublishFacts
  <2> QED  BY <2>2, PublishPending, PublishPhase DEF BuildRight
<1> QED  BY <1>1, <1>2, <1>3, PublishOneValue, PublishHistory, PublishRows DEF HInv

-----------------------------------------------------------------------------
(* The other steps of a build.                                              *)

LEMMA StillGood ==
    ASSUME UNCHANGED <<raw, item>>, frozen \subseteq frozen'
    PROVE  /\ \A t, day : Good(t, day) => Good(t, day)'
           /\ \A r : Matches(r)' <=> Matches(r)
<1>1. \A t, day : Seen(t, day)' = Seen(t, day)
    BY DEF Seen
<1>2. \A t, day : Overruled(t, day)' <=> Overruled(t, day)
    BY DEF Overruled
<1>3. \A day : Overtaken(day) => Overtaken(day)'
    BY DEF Overtaken
<1>4. \A t, day : Expected(raw, t, day)' = Expected(raw, t, day)
    OBVIOUS
<1>5. \A r : Matches(r)' <=> Matches(r)
    BY DEF Matches
<1> QED  BY <1>1, <1>2, <1>3, <1>4, <1>5 DEF Good

\* The rest of the invariant when neither the inputs nor the Item change.
LEMMA QuietStep ==
    ASSUME HInv, IInv', UNCHANGED <<raw, item>>, today' \in Nat, today <= today',
           frozen \subseteq frozen', BuildRight',
           \A f \in frozen' : f \in frozen \/
              /\ f.on <= today' /\ f.last <= f.on /\ f.raw <= LastCommit(raw) /\ raw # {}
              /\ f.done => \A t \in f.first .. f.last : \A day \in t .. f.last : Good(t, day)
    PROVE  HInv'
<1>0. today \in Nat
    BY Constants DEF HInv, IInv, TypeOK
<1>1. /\ \A t, day : Good(t, day) => Good(t, day)'
      /\ \A r : Matches(r)' <=> Matches(r)
    BY StillGood
<1>2. \A r \in raw : r.at \in Nat
    BY DEF HInv, IInv, RawOK, Versions, Rows
<1>3. /\ \A f \in frozen : f.on \in Nat
    BY Constants DEF HInv, IInv, TypeOK
<1>4. Dated'
  <2>1. \A r \in raw : r.at <= today'
      BY <1>0, <1>2 DEF HInv, Dated
  <2>2. \A f \in frozen' : f.on <= today' /\ f.last <= f.on /\ f.raw <= LastCommit(raw)
      BY <1>0, <1>3 DEF HInv, Dated
  <2>3. raw = {} => frozen' = {}
    <3> SUFFICES ASSUME raw = {}, NEW f \in frozen' PROVE FALSE
        OBVIOUS
    <3> QED  BY DEF HInv, Dated
  <2>4. LastCommit(raw)' = LastCommit(raw)
      BY DEF LastCommit
  <2> QED  BY <2>1, <2>2, <2>3, <2>4 DEF Dated
<1>5. OneValue'
    BY DEF HInv, OneValue
<1>6. HistoryRight'
  <2> SUFFICES ASSUME NEW f \in frozen', f.done, NEW t \in f.first .. f.last,
                      NEW day \in t .. f.last, day < f.on
               PROVE  Good(t, day)'
      BY DEF HistoryRight
  <2>1. Good(t, day)
      BY DEF HInv, HistoryRight
  <2> QED  BY <1>1, <2>1
<1>7. ASSUME NEW r \in item PROVE RowRight(r)'
  <2>1. RowRight(r) /\ r.at \in Nat
      BY DEF HInv, IInv, Versions, Rows
  <2>2. \A day : Overtaken(day) => Overtaken(day)'
      BY DEF Overtaken
  <2>3. r.at <= today'
      BY <1>0, <2>1 DEF RowRight
  <2> QED  BY <1>1, <2>1, <2>2, <2>3 DEF RowRight
<1> QED  BY <1>4, <1>5, <1>6, <1>7 DEF HInv

LEMMA TickHStep == ASSUME HInv, Tick PROVE HInv'
<1>1. IInv'
    BY TickStep DEF HInv
<1>2. today \in Nat /\ today' = today + 1 /\ UNCHANGED <<raw, item, build, frozen>> /\ ~Building
    BY Constants DEF HInv, IInv, TypeOK, Tick
<1>3. BuildRight'
    BY <1>2 DEF BuildRight, Building
<1> QED  BY <1>1, <1>2, <1>3, QuietStep

LEMMA CancelHStep == ASSUME HInv, Cancel PROVE HInv'
<1>1. IInv'
    BY CancelStep DEF HInv
<1>2. today \in Nat /\ UNCHANGED <<today, raw, item, frozen>> /\ ~Building'
    BY Constants DEF HInv, IInv, TypeOK, Cancel, Building, NoBuild
<1> QED  BY <1>1, <1>2, QuietStep DEF BuildRight

LEMMA CompleteHStep == ASSUME HInv, Complete PROVE HInv'
<1> DEFINE f == [Receipt(build) EXCEPT !.done = TRUE]
<1>1. IInv'
    BY CompleteStep DEF HInv
<1>2. /\ today \in Nat /\ UNCHANGED <<today, raw, item>> /\ ~Building'
      /\ frozen' = frozen \cup {f} /\ build.phase = "withdrawing"
    BY Constants DEF HInv, IInv, TypeOK, Complete, Building, NoBuild
<1>3. /\ Receipt(build) \in frozen /\ AllGood /\ raw # {} /\ Dated
    BY <1>2 DEF HInv, IInv, BuildOK, BuildRight, PhaseRight, Building
<1>4. /\ f.first = build.first /\ f.last = build.last
      /\ f.on = Receipt(build).on /\ f.raw = Receipt(build).raw /\ f.last = Receipt(build).last
    BY DEF Receipt
<1> HIDE DEF f
<1>5. /\ f.on <= today /\ f.last <= f.on /\ f.raw <= LastCommit(raw)
    BY <1>3, <1>4 DEF Dated
<1>6. \A t \in f.first .. f.last : \A day \in t .. f.last : Good(t, day)
    BY <1>3, <1>4 DEF AllGood, Span
<1>7. \A g \in frozen' : g \in frozen \/
         /\ g.on <= today' /\ g.last <= g.on /\ g.raw <= LastCommit(raw) /\ raw # {}
         /\ g.done => \A t \in g.first .. g.last : \A day \in t .. g.last : Good(t, day)
    BY <1>2, <1>3, <1>5, <1>6
<1> QED  BY <1>1, <1>2, <1>7, QuietStep DEF BuildRight

LEMMA StartBuildHStep == ASSUME HInv, StartBuild PROVE HInv'
<1>1. IInv'
    BY StartBuildStep DEF HInv
<1>2. PICK range \in Ranges :
          /\ range[2] <= today
          /\ build' = [NoBuild EXCEPT !.phase = "building", !.first = range[1],
                        !.last = range[2], !.on = today, !.raw = LastCommit(raw),
                        !.inputs = {r \in raw : r.at <= range[2]}]
    BY DEF StartBuild
<1>3. /\ build'.phase = "building" /\ build'.last = range[2]
      /\ build'.on = today /\ build'.raw = LastCommit(raw)
      /\ build'.reconciled = {} /\ build'.previous = {} /\ build'.pending = {}
    BY <1>2 DEF NoBuild
<1>4. /\ today \in Nat /\ UNCHANGED <<today, raw, item>> /\ raw # {}
      /\ frozen' = frozen \cup {Receipt(build')}
    BY Constants DEF StartBuild, HInv, IInv, TypeOK
<1>5. /\ Receipt(build').on = today /\ Receipt(build').last = range[2]
      /\ Receipt(build').raw = LastCommit(raw) /\ Receipt(build').done = FALSE
      /\ LastCommit(raw) \in Nat
    BY <1>3, LastCommitTyped DEF Receipt, HInv, IInv, RawOK
<1>6. BuildRight'
  <2>1. Receipt(build)' \in frozen'
      BY <1>4 DEF Receipt
  <2>2. PendingRight'
      BY <1>3 DEF PendingRight
  <2>3. \E k \in 0 .. NumBoundaries' : Progress(k)'
    <3>1. (RawOK /\ BuildTyped /\ Frozen => NumBoundaries \in Nat)'
        BY NumBoundariesTyped, PTL
    <3>2. RawOK' /\ BuildTyped' /\ Frozen'
        BY <1>1, <1>3 DEF IInv, BuildOK, Building
    <3>3. 0 \in 0 .. NumBoundaries' /\ 1 .. 0 = {}
        BY <3>1, <3>2
    <3> QED  BY <1>3, <3>3 DEF Progress
  <2>4. PhaseRight'
      BY <1>3, <2>3 DEF PhaseRight
  <2> QED  BY <1>2, <1>3, <1>4, <2>1, <2>2, <2>4 DEF BuildRight
<1>7. \A g \in frozen' : g \in frozen \/
         /\ g.on <= today' /\ g.last <= g.on /\ g.raw <= LastCommit(raw) /\ raw # {}
         /\ g.done => \A t \in g.first .. g.last : \A day \in t .. g.last : Good(t, day)
  <2> DEFINE f == Receipt(build')
  <2>1. f.on <= today /\ f.last <= f.on /\ f.raw <= LastCommit(raw) /\ f.done = FALSE
    <3>1. range[2] <= today /\ today \in Nat
        BY <1>2, <1>4
    <3> QED  BY <1>5, <3>1
  <2>2. frozen' = frozen \cup {f} /\ today' = today /\ raw # {}
      BY <1>4
  <2> HIDE DEF f
  <2> QED  BY <2>1, <2>2
<1> QED  BY <1>1, <1>4, <1>6, <1>7, QuietStep

\* Results are taken in order: the next one follows those taken.
LEMMA NextInOrder ==
    ASSUME NEW n \in Nat, NEW k \in 0 .. n, build.reconciled = 1 .. k,
           NEW i \in 1 .. n \ build.reconciled, NextResult(i)
    PROVE  i = k + 1 /\ k + 1 \in 1 .. n
<1>1. ~(i <= k)
    OBVIOUS
<1>2. ~(k + 1 < i)
  <2> SUFFICES ASSUME k + 1 < i PROVE FALSE
      OBVIOUS
  <2>1. k + 1 \in 1 .. i - 1
      OBVIOUS
  <2>2. k + 1 \in 1 .. k
      BY <2>1 DEF NextResult
  <2> QED  BY <2>2
<1> QED  BY <1>1, <1>2

LEMMA ReconcileHStep == ASSUME Lag = 0, HInv, Reconcile PROVE HInv'
<1>1. IInv'
    BY ReconcileStep DEF HInv
<1>2. /\ RawOK /\ BuildTyped /\ Frozen /\ PhaseRight /\ build.pending = {}
      /\ build.phase = "building" /\ NumBoundaries \in Nat /\ today \in Nat
      /\ UNCHANGED <<today, raw, item, frozen>>
      /\ build.last <= build.on /\ build.on = today /\ Receipt(build) \in frozen
  <2>1. RawOK /\ BuildTyped /\ Frozen /\ build.phase = "building"
      BY DEF Reconcile, HInv, IInv, BuildOK, Building
  <2>2. NumBoundaries \in Nat /\ today \in Nat
      BY <2>1, BoundariesTyped, Constants DEF HInv, IInv, TypeOK
  <2> QED  BY <2>1, <2>2 DEF Reconcile, HInv, BuildRight, Building
<1>3. PICK i \in 1 .. NumBoundaries \ build.reconciled :
          /\ NextResult(i)
          /\ build' = [build EXCEPT !.pending = Changes(i), !.previous = Output(i),
                          !.reconciled = @ \cup {i}]
    BY DEF Reconcile
<1>4. PICK k \in 0 .. NumBoundaries : Progress(k)
    BY <1>2 DEF PhaseRight
<1>5. i = k + 1 /\ k + 1 \in 1 .. NumBoundaries /\ k \in Nat
    BY <1>2, <1>3, <1>4, NextInOrder DEF Progress
<1>6. /\ build'.pending = Changes(i) /\ build'.previous = Output(i)
      /\ build'.reconciled = build.reconciled \cup {i} /\ build'.phase = "building"
      /\ build'.first = build.first /\ build'.last = build.last
      /\ build'.inputs = build.inputs /\ build'.on = build.on /\ build'.raw = build.raw
    BY <1>2, <1>3 DEF BuildTyped
<1>7. /\ NumBoundaries' = NumBoundaries /\ Span' = Span
      /\ \A j : Boundary(j)' = Boundary(j) /\ Cutoff(j)' = Cutoff(j) /\ Output(j)' = Output(j)
    BY <1>6, SameEvaluations DEF Span
<1>8. /\ \A t, day : Good(t, day) => Good(t, day)'
      /\ \A r : Matches(r)' <=> Matches(r)
    BY <1>2, StillGood
<1>9. /\ \A r \in Changes(i) :
            /\ r.value # Foreign
            /\ r.time \in Span /\ r.time <= r.at /\ r.at <= build.last
            /\ Boundary(i) <= r.at /\ (r.at = r.time \/ r.at = Boundary(i))
            /\ Matches(r)
            /\ \A day \in r.time .. build.last : day < r.at => Good(r.time, day)
      /\ \A r, s \in Changes(i) : r.time = s.time => r = s
    BY <1>2, <1>4, <1>5, ChangedRows
<1>10. PendingRight'
    BY <1>6, <1>7, <1>8, <1>9 DEF PendingRight
<1>11. Progress(i)'
  <2>1. build'.reconciled = 1 .. i
      BY <1>4, <1>5, <1>6 DEF Progress
  <2>2. ASSUME NEW t \in Span, NEW day \in t .. Cutoff(i)
        PROVE  Good(t, day)' \/ \E r \in build'.pending : r.time = t /\ r.at <= day
    <3>1. t \in Nat /\ Boundary(i) \in Nat /\ Cutoff(i) \in Nat
        BY <1>2, <1>5, BoundaryOrder, Constants DEF BuildTyped, Span
    <3>2. day \in Nat /\ t <= day /\ day <= Cutoff(i)
        BY <3>1
    <3>3. CASE day < Boundary(i)
        BY <1>2, <1>4, <1>5, <1>8, <3>2, <3>3, EarlierGood
    <3>4. CASE Boundary(i) <= day
      <4>1. CASE \E r \in Changes(i) : r.time = t
        <5>1. PICK r \in Changes(i) : r.time = t
            BY <4>1
        <5>2. r.at <= day
            BY <1>9, <3>2, <3>4, <5>1
        <5> QED  BY <1>6, <5>1, <5>2
      <4>2. CASE \A r \in Changes(i) : r.time # t
        <5>1. Good(t, day)
            BY <1>2, <1>4, <1>5, <3>2, <3>4, <4>2, UnchangedGood
        <5> QED  BY <1>8, <5>1
      <4> QED  BY <4>1, <4>2
    <3> QED  BY <3>1, <3>2, <3>3, <3>4
  <2>3. i > 0 /\ i # 0
      BY <1>5
  <2> QED  BY <1>6, <1>7, <1>9, <2>1, <2>2, <2>3 DEF Progress
<1>12. item = {} /\ Changes(i) = {} => Output(i) = {}
  <2> SUFFICES ASSUME item = {}, Changes(i) = {}, NEW r \in Output(i) PROVE FALSE
      OBVIOUS
  <2>1. build.previous = {}
      BY <1>2 DEF PhaseRight
  <2>2. r.at <= Cutoff(i) /\ r.at \in Nat
      BY <1>2, <1>5, OutputRight, OutputRows DEF Rows
  <2>3. Cutoff(i) <= build.last /\ Cutoff(i) \in Nat /\ build.last \in Nat
      BY <1>2, <1>5, BoundaryOrder, Constants DEF BuildTyped
  <2>4. r.at <= build.last
      BY <2>2, <2>3
  <2> QED  BY <2>1, <2>4 DEF Changes
<1>13. PhaseRight'
  <2>1. i \in 0 .. NumBoundaries'
      BY <1>2, <1>5, <1>7
  <2> QED  BY <1>2, <1>6, <1>11, <1>12, <2>1 DEF PhaseRight
<1>14. BuildRight'
  <2>1. Receipt(build)' = Receipt(build)
      BY <1>6 DEF Receipt
  <2> QED  BY <1>2, <1>6, <1>10, <1>13, <2>1 DEF BuildRight
<1> QED  BY <1>1, <1>2, <1>14, QuietStep

\* Whatever is visible of one view says the same.
LEMMA SameVisible ==
    ASSUME OneValue, Versions(item, ItemValues), NEW t, NEW day,
           NEW r \in VisibleIn(item, t, day), NEW s \in VisibleIn(item, t, day)
    PROVE  r.value = s.value
<1>1. /\ r \in item /\ s \in item /\ r.time = t /\ s.time = t
      /\ ~Later(r, s) /\ ~Later(s, r)
    BY InView
<1>2. r.at \in Nat /\ s.at \in Nat /\ r.seq \in Nat /\ s.seq \in Nat
    BY <1>1 DEF Versions, Rows
<1>3. r.at = s.at /\ r.seq = s.seq
    BY <1>1, <1>2 DEF Later
<1> QED  BY <1>1, <1>3 DEF OneValue

\* After the last evaluation, with nothing pending.
LEMMA BuildFacts ==
    ASSUME Lag = 0, HInv, Building
    PROVE  /\ RawOK /\ BuildTyped /\ Frozen /\ Versions(item, ItemValues) /\ OneValue
           /\ PendingRight /\ PhaseRight /\ today \in Nat /\ build.last \in Nat
           /\ build.last <= build.on /\ build.on = today /\ Receipt(build) \in frozen
           /\ NumBoundaries \in 1 .. NumBoundaries /\ NumBoundaries \in Nat
           /\ Cutoff(NumBoundaries) = build.last
           /\ \A t \in Span : t \in Nat /\ t <= build.last
           /\ \A r \in Output(NumBoundaries) :
                 /\ r \in Rows(ItemValues) /\ r.time \in Span /\ r.time <= build.last
                 /\ r.value # Foreign /\ r.value # Null
                 /\ Expected(raw, r.time, build.last) = {r.value}
           /\ \A r, s \in Output(NumBoundaries) : r.time = s.time => r = s
           /\ Final = Output(NumBoundaries)
           /\ \A t \in Span : ~Covers(Final, t) => Expected(raw, t, build.last) = {}
<1>1. /\ RawOK /\ BuildTyped /\ Frozen /\ Versions(item, ItemValues) /\ OneValue
      /\ PendingRight /\ PhaseRight /\ today \in Nat /\ build.last \in Nat /\ build.first \in Nat
      /\ build.last <= build.on /\ build.on = today /\ Receipt(build) \in frozen
  <2>1. BuildTyped /\ today \in Nat
      BY Constants DEF HInv, IInv, TypeOK
  <2>2. build.last \in Nat /\ build.first \in Nat
      BY <2>1, Constants DEF BuildTyped
  <2> QED  BY <2>1, <2>2 DEF HInv, IInv, BuildOK, BuildRight
<1>2. /\ NumBoundaries \in 1 .. NumBoundaries /\ NumBoundaries \in Nat
      /\ Cutoff(NumBoundaries) = build.last
      /\ Boundary(NumBoundaries) \in Nat /\ Boundary(NumBoundaries) <= build.last
    BY <1>1, LastCutoff
<1>3. \A t \in Span : t \in Nat /\ t <= build.last
    BY <1>1 DEF Span
<1>4. ASSUME NEW r \in Output(NumBoundaries)
      PROVE  /\ r \in Rows(ItemValues) /\ r.time \in Span /\ r.time <= build.last
             /\ r.value # Foreign /\ r.value # Null
             /\ Expected(raw, r.time, build.last) = {r.value}
  <2>1. r \in Rows(ItemValues)
      BY <1>1, <1>2, OutputRows
  <2>2. /\ r.time \in Span /\ r.value # Foreign /\ r.value # Null
        /\ \A day \in Nat : r.time <= day /\ Boundary(NumBoundaries) <= day
                            /\ day <= Cutoff(NumBoundaries) =>
              Expected(raw, r.time, day) = {r.value}
      BY <1>1, <1>2, OutputRight
  <2>3. r.time <= build.last
      BY <1>3, <2>2
  <2>4. build.last <= Cutoff(NumBoundaries)
      BY <1>1, <1>2
  <2> QED  BY <1>1, <1>2, <2>1, <2>2, <2>3, <2>4
<1>5. \A r, s \in Output(NumBoundaries) : r.time = s.time => r = s
    BY <1>1, <1>2, OutputRight
<1>6. Final = Output(NumBoundaries)
  <2>1. \A r \in Output(NumBoundaries) : r.time + Lag <= build.last
      BY <1>1, <1>3, <1>4
  <2> QED  BY <2>1 DEF Final
<1>7. ASSUME NEW t \in Span, ~Covers(Final, t) PROVE Expected(raw, t, build.last) = {}
  <2>1. t <= build.last /\ build.last <= Cutoff(NumBoundaries)
      BY <1>1, <1>2, <1>3
  <2> QED  BY <1>1, <1>2, <1>6, <1>7, <2>1, OutputRight
<1> QED  BY <1>1, <1>2, <1>3, <1>4, <1>5, <1>6, <1>7

\* A build that goes on to another phase with rows for the end of its range.
GoesOn(phase, rows) ==
    /\ phase \in {"repairing", "withdrawing"}
    /\ build' = [build EXCEPT !.phase = phase, !.pending = rows]
    /\ \A r \in rows : /\ r.value # Foreign /\ r.time \in Span
                       /\ r.at = build.last /\ Matches(r)
    /\ \A r, s \in rows : r.time = s.time => r = s
    /\ \A t \in Span : phase = "withdrawing" \/ Covers(Final, t) =>
                           (\E r \in rows : r.time = t) \/ Settled(t)

LEMMA PhaseHStep ==
    ASSUME Lag = 0, HInv, IInv', Building, UNCHANGED <<today, raw, item, frozen>>, AllGood,
           NEW phase, NEW rows, GoesOn(phase, rows)
    PROVE  HInv'
<1>0. /\ phase \in {"repairing", "withdrawing"}
      /\ build' = [build EXCEPT !.phase = phase, !.pending = rows]
      /\ \A r \in rows : /\ r.value # Foreign /\ r.time \in Span
                         /\ r.at = build.last /\ Matches(r)
      /\ \A r, s \in rows : r.time = s.time => r = s
      /\ \A t \in Span : phase = "withdrawing" \/ Covers(Final, t) =>
                             (\E r \in rows : r.time = t) \/ Settled(t)
    BY DEF GoesOn
<1>1. /\ build'.phase = phase /\ build'.pending = rows /\ build'.first = build.first
      /\ build'.last = build.last /\ build'.inputs = build.inputs
      /\ build'.on = build.on /\ build'.raw = build.raw
    BY <1>0, BuildFacts DEF BuildTyped
<1>2. /\ NumBoundaries' = NumBoundaries /\ Span' = Span /\ \A j : Output(j)' = Output(j)
    BY <1>1, SameEvaluations DEF Span
<1>3. /\ \A t, day : Good(t, day) => Good(t, day)'
      /\ \A r : Matches(r)' <=> Matches(r)
    BY StillGood
<1>4. AllGood'
    BY <1>1, <1>2, <1>3 DEF AllGood
<1>5. PendingRight'
  <2>1. ASSUME NEW r \in rows, NEW day \in r.time .. build.last PROVE Good(r.time, day)'
      BY <1>0, <1>3, <2>1 DEF AllGood
  <2>2. \A r \in rows : r.time <= r.at /\ r.at <= build.last
      BY <1>0, BuildFacts
  <2> QED  BY <1>0, <1>1, <1>2, <1>3, <2>1, <2>2 DEF PendingRight
<1>6. Final' = Final
    BY <1>1, <1>2 DEF Final
<1>7. \A t : Settled(t)' <=> Settled(t)
  <2>1. \A t : Seen(t, build.last)' = Seen(t, build.last)
      BY <1>1 DEF Seen
  <2> QED  BY <1>1, <2>1 DEF Settled
<1>8. PhaseRight'
  <2>1. (build.phase = "building" =>
            /\ \E k \in 0 .. NumBoundaries : Progress(k)
            /\ item = {} /\ build.pending = {} => build.previous = {})'
      BY <1>0, <1>1
  <2>2. (build.phase # "building" => AllGood /\ \A r \in build.pending : r.at = build.last)'
      BY <1>0, <1>1, <1>4
  <2>3. (build.phase = "repairing" => \A t \in Span : Covers(Final, t) => Waiting(t) \/ Settled(t))'
      BY <1>0, <1>1, <1>2, <1>6, <1>7 DEF Covers, Waiting
  <2>4. (build.phase = "withdrawing" => \A t \in Span : Waiting(t) \/ Settled(t))'
      BY <1>0, <1>1, <1>2, <1>7 DEF Waiting
  <2> QED  BY <2>1, <2>2, <2>3, <2>4 DEF PhaseRight
<1>9. BuildRight'
  <2>1. Receipt(build)' = Receipt(build)
      BY <1>1 DEF Receipt
  <2> QED  BY <1>1, <1>5, <1>8, <2>1, BuildFacts DEF BuildRight
<1>10. today \in Nat
    BY BuildFacts
<1> QED  BY <1>9, <1>10, QuietStep

LEMMA RepairHStep == ASSUME Lag = 0, HInv, Repair PROVE HInv'
<1> DEFINE rows == IF item = {} THEN {} ELSE Repairs
           N == NumBoundaries
<1>1. IInv'
    BY RepairStep DEF HInv
<1>2. /\ Building /\ build.phase = "building" /\ build.pending = {} /\ Evaluated
      /\ UNCHANGED <<today, raw, item, frozen>>
      /\ build' = [build EXCEPT !.phase = "repairing", !.pending = rows]
    BY DEF Repair, Building
<1>3. Progress(N)
  <2>1. PICK k \in 0 .. N : Progress(k)
      BY <1>2, BuildFacts DEF PhaseRight
  <2>2. 1 .. k = 1 .. N /\ N \in Nat
      BY <1>2, <2>1, BuildFacts DEF Progress, Evaluated
  <2>3. k = N
    <3> SUFFICES ASSUME k < N PROVE FALSE
        BY <2>2
    <3>1. k + 1 \in 1 .. N
        BY <2>2
    <3>2. k + 1 \in 1 .. k
        BY <2>2, <3>1
    <3> QED  BY <2>2, <3>2
  <2> QED  BY <2>1, <2>3
<1>4. AllGood
  <2> SUFFICES ASSUME NEW t \in Span, NEW day \in t .. build.last PROVE Good(t, day)
      BY DEF AllGood
  <2>1. N > 0 /\ Cutoff(N) = build.last
      BY <1>2, BuildFacts
  <2> QED  BY <1>2, <1>3, <2>1 DEF Progress
<1>5. ASSUME NEW r \in rows
      PROVE  \E s \in Output(N) : /\ r = [s EXCEPT !.at = build.last]
                                  /\ r.time = s.time /\ r.value = s.value /\ r.at = build.last
  <2>1. PICK s \in Final : r = [s EXCEPT !.at = build.last]
      BY <1>5 DEF Repairs
  <2>2. s \in Output(N) /\ s \in Rows(ItemValues)
      BY <1>2, BuildFacts
  <2> QED  BY <2>1, <2>2 DEF Rows
<1>6. ASSUME NEW r \in rows
      PROVE  r.value # Foreign /\ r.time \in Span /\ r.at = build.last /\ Matches(r)
  <2>1. PICK s \in Output(N) : r.time = s.time /\ r.value = s.value /\ r.at = build.last
      BY <1>5, <1>6
  <2>2. /\ s.time \in Span /\ s.value # Foreign /\ s.value # Null
        /\ Expected(raw, s.time, build.last) = {s.value}
      BY <1>2, BuildFacts
  <2> QED  BY <2>1, <2>2 DEF Matches
<1>7. ASSUME NEW r \in rows, NEW s \in rows, r.time = s.time PROVE r = s
  <2>1. PICK v \in Output(N) : r = [v EXCEPT !.at = build.last] /\ r.time = v.time
      BY <1>5
  <2>2. PICK w \in Output(N) : s = [w EXCEPT !.at = build.last] /\ s.time = w.time
      BY <1>5
  <2>3. v = w
      BY <1>2, <1>7, <2>1, <2>2, BuildFacts
  <2> QED  BY <2>1, <2>2, <2>3
<1>8. ASSUME NEW t \in Span, Covers(Final, t)
      PROVE  (\E r \in rows : r.time = t) \/ Settled(t)
  <2>1. PICK s \in Final : s.time = t
      BY <1>8 DEF Covers
  <2>2. /\ s \in Output(N) /\ s \in Rows(ItemValues) /\ s.value # Null
        /\ Expected(raw, t, build.last) = {s.value}
      BY <1>2, <2>1, BuildFacts
  <2>3. CASE item = {}
    <3>1. build.previous = {} /\ build.previous = Output(N)
        BY <1>2, <1>3, <2>3, BuildFacts DEF PhaseRight, Progress
    <3> QED  BY <2>2, <3>1
  <2>4. CASE item # {} /\ ~\E q \in Shown : SameRow(s, q)
    <3>1. [s EXCEPT !.at = build.last] \in rows
        BY <2>1, <2>4 DEF Repairs
    <3>2. [s EXCEPT !.at = build.last].time = t
        BY <2>1, <2>2 DEF Rows
    <3> QED  BY <3>1, <3>2
  <2>5. CASE \E q \in Shown : SameRow(s, q)
    <3>1. PICK q \in Shown : SameRow(s, q)
        BY <2>5
    <3>2. q \in VisibleIn(item, t, build.last) /\ q.value = s.value
        BY <2>1, <3>1 DEF Shown, VisibleIn, SameRow
    <3>3. \A v \in VisibleIn(item, t, build.last) : v.value = s.value
        BY <1>2, <3>2, BuildFacts, SameVisible
    <3>4. SeenIn(item, t, build.last) = {s.value}
        BY <2>2, <3>2, <3>3 DEF SeenIn
    <3>5. Seen(t, build.last) = SeenIn(item, t, build.last)
        BY DEF Seen, SeenIn, VisibleIn
    <3> QED  BY <2>2, <3>4, <3>5 DEF Settled
  <2> QED  BY <2>3, <2>4, <2>5
<1> HIDE DEF rows
<1>9. GoesOn("repairing", rows)
    BY <1>2, <1>6, <1>7, <1>8 DEF GoesOn
<1> QED  BY <1>1, <1>2, <1>4, <1>9, PhaseHStep

LEMMA WithdrawHStep == ASSUME Lag = 0, HInv, Withdraw PROVE HInv'
<1> DEFINE unverified == Unverified(Known(build.inputs, build.last))
           Gone(s) == [Row(s.time, Max({s.time, build.last}), Null, s.baseline)
                          EXCEPT !.baseline = unverified]
           rows == {[r EXCEPT !.baseline = unverified] : r \in Withdrawn(StaleKeys, build.last)}
<1>1. IInv'
    BY WithdrawStep DEF HInv
<1>2. /\ Building /\ build.phase = "repairing" /\ build.pending = {}
      /\ UNCHANGED <<today, raw, item, frozen>>
      /\ build' = [build EXCEPT !.phase = "withdrawing", !.pending = rows]
    BY DEF Withdraw, Building
<1>3. AllGood
    BY <1>2, BuildFacts DEF PhaseRight
<1>4. ASSUME NEW t \in Span
      PROVE  Max({t, build.last}) = build.last
  <2>1. t \in Nat /\ build.last \in Nat /\ t <= build.last
      BY <1>2, BuildFacts
  <2> QED  BY <2>1, MaxPair
<1>5. ASSUME NEW s \in Shown
      PROVE  /\ s \in VisibleIn(item, s.time, build.last) /\ s.time \in Span
             /\ Gone(s).time = s.time /\ Gone(s).at = build.last /\ Gone(s).value = Null
             /\ Gone(s) = [time |-> s.time, at |-> build.last, value |-> Null,
                           baseline |-> unverified, seq |-> 0]
  <2>1. s.time \in Span /\ s \in VisibleIn(item, s.time, build.last)
      BY DEF Shown, Span, VisibleIn
  <2>2. Max({s.time, build.last}) = build.last
      BY <1>4, <2>1
  <2> HIDE DEF unverified
  <2> QED  BY <2>1, <2>2 DEF Row
<1>6. ASSUME NEW r \in rows PROVE \E s \in Shown : ~Covers(Final, s.time) /\ r = Gone(s)
    BY <1>6 DEF Withdrawn, StaleKeys
<1>7. ASSUME NEW s \in Shown, ~Covers(Final, s.time) PROVE Gone(s) \in rows
    BY <1>7 DEF Withdrawn, StaleKeys
<1> HIDE DEF unverified, Gone, rows
<1>8. ASSUME NEW r \in rows
      PROVE  r.value # Foreign /\ r.time \in Span /\ r.at = build.last /\ Matches(r)
  <2>1. PICK s \in Shown : ~Covers(Final, s.time) /\ r = Gone(s)
      BY <1>6
  <2>2. r.time = s.time /\ s.time \in Span /\ r.at = build.last /\ r.value = Null
      BY <1>5, <2>1
  <2>3. Expected(raw, r.time, build.last) = {}
      BY <1>2, <2>1, <2>2, BuildFacts
  <2>4. Null # Foreign
      BY PointInTimeAssumption
  <2> QED  BY <2>2, <2>3, <2>4 DEF Matches
<1>9. ASSUME NEW r \in rows, NEW s \in rows, r.time = s.time PROVE r = s
  <2>1. PICK v \in Shown : r = Gone(v)
      BY <1>6
  <2>2. PICK w \in Shown : s = Gone(w)
      BY <1>6
  <2>3. v.time = w.time
      BY <1>5, <1>9, <2>1, <2>2
  <2> QED  BY <1>5, <2>1, <2>2, <2>3
<1>10. ASSUME NEW t \in Span PROVE (\E r \in rows : r.time = t) \/ Settled(t)
  <2>1. CASE Covers(Final, t)
    <3>1. Waiting(t) \/ Settled(t)
        BY <1>2, <2>1, BuildFacts DEF PhaseRight
    <3> QED  BY <1>2, <3>1 DEF Waiting
  <2>2. CASE ~Covers(Final, t) /\ \E s \in Shown : s.time = t
    <3>1. PICK s \in Shown : s.time = t
        BY <2>2
    <3>2. Gone(s) \in rows /\ Gone(s).time = t
        BY <1>5, <1>7, <2>2, <3>1
    <3> QED  BY <3>2
  <2>3. CASE ~Covers(Final, t) /\ ~\E s \in Shown : s.time = t
    <3>1. \A r \in Known(item, build.last) : r.time # t
        BY <2>3 DEF Shown, Span
    <3>2. Seen(t, build.last) = {}
        BY <3>1 DEF Seen
    <3>3. Expected(raw, t, build.last) = {}
        BY <1>2, <2>3, BuildFacts
    <3> QED  BY <3>2, <3>3 DEF Settled
  <2> QED  BY <2>1, <2>2, <2>3
<1>11. GoesOn("withdrawing", rows)
    BY <1>2, <1>8, <1>9, <1>10 DEF GoesOn
<1> QED  BY <1>1, <1>2, <1>3, <1>11, PhaseHStep

-----------------------------------------------------------------------------
(* Another caller's rows, and the inputs.                                   *)

LEMMA IngestHStep == ASSUME Lag = 0, HInv, Ingest PROVE HInv'
<1>1. IInv'
    BY IngestStep DEF HInv
<1>2. PICK t0 \in 1 .. today : item' = Committed({Row(t0, today, Foreign, FALSE)}, item, "item")
    BY DEF Ingest
<1> DEFINE new == Row(t0, today, Foreign, FALSE)
<1>3. today \in Nat /\ t0 \in Days /\ t0 \in Nat /\ t0 <= today
    BY Constants DEF HInv, IInv, TypeOK, Days
<1>4. new.value = Foreign /\ new.time = t0 /\ new.at = today /\ Versions({new}, ItemValues)
    BY <1>3, NewRowsTyped DEF Row, ItemValues
<1>5. ~Building /\ UNCHANGED <<today, raw, build, frozen>> /\ item' = Committed({new}, item, "item")
    BY <1>2 DEF Ingest
<1>6. Versions(item, ItemValues) /\ OneValue /\ Dated /\ HistoryRight /\ \A r \in item : RowRight(r)
    BY DEF HInv, IInv
<1> HIDE DEF new
<1>7. /\ item \subseteq item' /\ LastCommit(item) \in Nat
      /\ \A q \in item : q.seq <= LastCommit(item) /\ q.seq \in Nat
      /\ \A q \in item' : q \in item \/
            /\ q.time = t0 /\ q.at = today /\ q.value = Foreign
            /\ q.seq = LastCommit(item) + 1
  <2>1. \A r \in {new} : r.time <= r.at
      BY <1>3, <1>4
  <2>2. /\ item \subseteq item' /\ LastCommit(item) \in Nat
        /\ \A q \in item : q.seq <= LastCommit(item)
        /\ \A q \in item' : q \in item \/ \E r \in {new} : Copy(q, r)
        /\ \A q \in item' : q.seq \in Nat
      BY <1>4, <1>5, <1>6, <2>1, CommitCopies
  <2> QED  BY <1>4, <2>2 DEF Copy
<1>8. ASSUME NEW t, NEW day, Good(t, day) PROVE Good(t, day)'
  <2>1. /\ Overtaken(day)' <=> Overtaken(day)
        /\ Expected(raw, t, day)' = Expected(raw, t, day)
        /\ Overruled(t, day) => Overruled(t, day)'
      BY <1>5, <1>7 DEF Overtaken, Overruled
  <2>2. CASE \E q \in item' : q \notin item /\ q.time = t /\ q.at <= day
      BY <1>7, <2>2 DEF Good, Overruled
  <2>3. CASE ~\E q \in item' : q \notin item /\ q.time = t /\ q.at <= day
    <3>1. \A r : r.time = t /\ r.at <= day => (r \in item' <=> r \in item)
        BY <1>7, <2>3
    <3>2. \A r : r \in VisibleIn(item', t, day) <=> r \in VisibleIn(item, t, day)
        BY <3>1, InView
    <3>3. VisibleIn(item', t, day) = VisibleIn(item, t, day)
        BY <3>2
    <3>4. Seen(t, day)' = Seen(t, day)
        BY <3>3 DEF Seen, VisibleIn
    <3> QED  BY <1>8, <2>1, <3>4 DEF Good
  <2> QED  BY <2>2, <2>3
<1>9. OneValue'
  <2> SUFFICES ASSUME NEW r \in item', NEW s \in item',
                      r.time = s.time, r.at = s.at, r.seq = s.seq
               PROVE  r.value = s.value
      BY DEF OneValue
  <2>1. CASE r \in item /\ s \in item
      BY <1>6, <2>1 DEF OneValue
  <2>2. CASE r \notin item /\ s \notin item
      BY <1>7, <2>2
  <2>3. ASSUME NEW q \in item, NEW x \in item', x \notin item, x.seq = q.seq PROVE FALSE
      BY <1>7, <2>3
  <2> QED  BY <2>1, <2>2, <2>3
<1>10. ASSUME NEW r \in item' PROVE RowRight(r)'
  <2>1. CASE r \in item
      BY <1>5, <1>6, <1>8, <2>1 DEF RowRight, Matches, Overtaken
  <2>2. CASE r \notin item
    <3>1. r.time = t0 /\ r.at = today /\ r.value = Foreign
        BY <1>7, <2>2
    <3>2. r.time <= r.at /\ r.at <= today'
        BY <1>3, <1>5, <3>1
    <3> QED  BY <3>1, <3>2 DEF RowRight
  <2> QED  BY <2>1, <2>2
<1>11. Dated' /\ HistoryRight' /\ BuildRight'
    BY <1>5, <1>6, <1>8 DEF Dated, HistoryRight, BuildRight, Building
<1> QED  BY <1>1, <1>9, <1>10, <1>11 DEF HInv

\* A commit of the input reaches the days from its own on only, and overtakes a
\* build that froze its input on that day.
LEMMA UpdateRawAdds ==
    ASSUME HInv, UpdateRaw
    PROVE  /\ raw \subseteq raw' /\ raw' # raw /\ LastCommit(raw) \in Nat
           /\ \A r \in raw : r.seq <= LastCommit(raw)
           /\ \A q \in raw' : q \in raw \/ (q.at = today /\ q.seq = LastCommit(raw) + 1)
           /\ LastCommit(raw) <= LastCommit(raw')
<1> DEFINE seq == LastCommit(raw) + 1
<1>1. PICK t \in 1 .. today, value \in Values :
          raw' = Committed({Row(t, today, value, FALSE)}, raw, "raw")
    BY DEF UpdateRaw
<1> DEFINE new == Row(t, today, value, FALSE)
<1>2. today \in Days /\ today \in Nat /\ t \in Days
    BY Constants DEF HInv, IInv, TypeOK, Days
<1>3. Versions({new}, Values) /\ Versions(raw, Values) /\ RawOK /\ Dated
    BY <1>2, NewRowsTyped DEF HInv, IInv, RawOK
<1>4. new.at = today /\ new \in Rows(Values)
    BY <1>3 DEF Row, Versions
<1> HIDE DEF new
<1>5. /\ Versions(raw', Values) /\ raw \subseteq raw'
      /\ \A q \in raw' : q \in raw \/ Added(q, {new}, raw, "raw")
    BY <1>1, <1>3, CommittedRows DEF new
<1>6. LastCommit(raw) \in Nat /\ \A r \in raw : r.seq <= LastCommit(raw)
    BY <1>3, LastCommitTyped
<1>7. ASSUME NEW q \in raw', q \notin raw PROVE q.at = today /\ q.seq = seq
  <2> HIDE DEF seq
  <2>1. CASE q = [new EXCEPT !.seq = seq]
      BY <1>4, <2>1 DEF Rows
  <2>2. ASSUME NEW s \in raw, q = Witness(s, new, "raw", seq)
        PROVE  q.at = today /\ q.seq = seq
    <3>1. s \in Rows(Values) /\ s.at \in Nat /\ s.at <= today
        BY <1>3 DEF Versions, Rows, Dated
    <3>2. Floor(s, "raw") = s.at
        BY DEF Floor
    <3>3. Max({s.at, today}) = today
        BY <1>2, <3>1, MaxPair
    <3> QED  BY <1>4, <2>2, <3>1, <3>2, <3>3 DEF Rows, Witness
  <2>3. Added(q, {new}, raw, "raw")
      BY <1>5, <1>7
  <2>4. CASE \E r \in {new} : q = [r EXCEPT !.seq = seq]
      BY <2>1, <2>4
  <2>5. CASE \E r \in {new}, s \in raw : q = Witness(s, r, "raw", seq)
      BY <2>2, <2>5
  <2> QED  BY <2>3, <2>4, <2>5, Zenon DEF Added, seq
<1>8. raw' # raw
    BY DEF UpdateRaw
<1>9. LastCommit(raw) <= LastCommit(raw')
  <2>1. LastCommit(raw') \in Nat /\ \A r \in raw' : r.seq <= LastCommit(raw')
      BY <1>5, LastCommitTyped
  <2>2. PICK q \in raw' : q.seq = seq
      BY <1>5, <1>7, <1>8
  <2> QED  BY <1>6, <2>1, <2>2
<1> QED  BY <1>5, <1>6, <1>7, <1>8, <1>9

LEMMA UpdateRawHStep == ASSUME Lag = 0, HInv, UpdateRaw PROVE HInv'
<1>1. IInv'
    BY UpdateRawStep DEF HInv
<1>2. /\ today \in Nat /\ ~Building /\ UNCHANGED <<today, item, build, frozen>>
      /\ \A r \in item : r.at \in Nat /\ r.time \in Nat
      /\ \A f \in frozen : f.on \in Nat /\ f.raw \in Nat /\ f.last \in Nat /\ f.first \in Nat
  <2>1. \A r \in item : r.at \in Nat /\ r.time \in Nat
      BY Constants DEF HInv, IInv, Versions, Rows
  <2>2. \A f \in frozen : f.on \in Nat /\ f.raw \in Nat /\ f.last \in Nat /\ f.first \in Nat
      BY Constants DEF HInv, IInv, TypeOK
  <2>3. today \in Nat
      BY Constants DEF HInv, IInv, TypeOK
  <2> QED  BY <2>1, <2>2, <2>3 DEF UpdateRaw
<1>3. /\ raw \subseteq raw' /\ raw' # raw /\ LastCommit(raw) \in Nat
      /\ \A q \in raw' : q \in raw \/ (q.at = today /\ q.seq = LastCommit(raw) + 1)
      /\ LastCommit(raw) <= LastCommit(raw')
    BY UpdateRawAdds
<1>4. OneValue /\ Dated /\ HistoryRight /\ \A r \in item : RowRight(r)
    BY DEF HInv
<1>5. \A t, day : /\ Seen(t, day)' = Seen(t, day)
                  /\ Overruled(t, day) => Overruled(t, day)'
                  /\ Overtaken(day) => Overtaken(day)'
    BY <1>2, <1>3 DEF Seen, Overruled, Overtaken
<1>6. ASSUME NEW t, NEW day \in Nat, day < today
      PROVE  Expected(raw, t, day)' = Expected(raw, t, day)
  <2>1. \A r : r.at <= day => (r \in raw' <=> r \in raw)
      BY <1>2, <1>3, <1>6
  <2>2. {r \in raw' : r.at <= day} = {r \in raw : r.at <= day}
      BY <1>3, <2>1
  <2>3. Known(raw', day) = Known(raw, day)
      BY <2>2 DEF Known
  <2> QED  BY <2>3 DEF Expected
<1>7. ASSUME NEW f \in frozen, NEW day \in Nat, today <= f.on, today <= day
      PROVE  Overtaken(day)'
  <2>1. PICK q \in raw' : q.at = today /\ q.seq = LastCommit(raw) + 1
      BY <1>3
  <2>2. f.raw <= LastCommit(raw)
      BY <1>4 DEF Dated
  <2>3. q.seq > f.raw /\ q.at <= f.on /\ q.at <= day
      BY <1>2, <1>3, <1>7, <2>1, <2>2
  <2>4. f \in frozen'
      BY <1>2
  <2> QED  BY <2>1, <2>3, <2>4 DEF Overtaken
<1>8. ASSUME NEW t, NEW day \in Nat, Good(t, day),
             day < today \/ \E f \in frozen : today <= f.on
      PROVE  Good(t, day)'
  <2>1. CASE day < today
    <3>1. Expected(raw, t, day)' = Expected(raw, t, day)
        BY <1>6, <2>1
    <3> QED  BY <1>5, <1>8, <3>1 DEF Good
  <2>2. CASE today <= day
      BY <1>2, <1>7, <1>8, <2>2 DEF Good
  <2> QED  BY <1>2, <2>1, <2>2
<1>9. ASSUME NEW r \in item PROVE RowRight(r)'
  <2>1. r.at \in Nat /\ r.time \in Nat /\ RowRight(r)
      BY <1>2, <1>4
  <2>2. CASE r.value = Foreign
      BY <1>2, <2>1, <2>2 DEF RowRight
  <2>3. CASE r.value # Foreign
    <3>1. PICK f \in frozen : r.at <= f.on
        BY <2>1, <2>3 DEF RowRight
    <3>2. r.at < today \/ today <= f.on
        BY <1>2, <2>1, <3>1
    <3>3. (Matches(r) \/ Overtaken(r.at))'
      <4>1. CASE r.at < today
        <5>1. Expected(raw, r.time, r.at)' = Expected(raw, r.time, r.at)
            BY <1>6, <2>1, <4>1
        <5> QED  BY <1>5, <2>1, <2>3, <5>1 DEF RowRight, Matches
      <4>2. CASE today <= f.on /\ today <= r.at
          BY <1>7, <2>1, <4>2
      <4> QED  BY <1>2, <2>1, <3>2, <4>1, <4>2
    <3>4. ASSUME NEW day \in r.time .. r.at PROVE Good(r.time, day)'
      <4>1. day \in Nat /\ day <= r.at /\ Good(r.time, day)
          BY <2>1, <2>3 DEF RowRight
      <4>2. day < today \/ today <= f.on
          BY <1>2, <2>1, <3>1, <4>1
      <4> QED  BY <1>8, <4>1, <4>2
    <3>5. r.time <= r.at /\ r.at <= today' /\ \E g \in frozen' : r.at <= g.on
        BY <1>2, <2>1, <3>1 DEF RowRight
    <3> QED  BY <2>3, <3>3, <3>4, <3>5 DEF RowRight
  <2> QED  BY <2>2, <2>3
<1>10. HistoryRight'
  <2> SUFFICES ASSUME NEW f \in frozen, f.done, NEW t \in f.first .. f.last,
                      NEW day \in t .. f.last, day < f.on
               PROVE  Good(t, day)'
      BY <1>2 DEF HistoryRight
  <2>1. Good(t, day) /\ f.on <= today
      BY <1>4 DEF HistoryRight, Dated
  <2>2. f.on \in Nat /\ f.last \in Nat /\ f.first \in Nat
      BY <1>2
  <2>3. day \in Nat
      BY <2>2
  <2>4. day < today
      BY <1>2, <2>1, <2>2, <2>3
  <2> QED  BY <1>8, <2>1, <2>3, <2>4
<1>11. Dated'
  <2>1. \A r \in raw' : r.at <= today
      BY <1>2, <1>3, <1>4 DEF Dated
  <2>2. LastCommit(raw') \in Nat
    <3>1. Versions(raw', Values)
        BY <1>1 DEF IInv, RawOK, Versions
    <3> QED  BY <3>1, LastCommitTyped
  <2>3. \A f \in frozen : f.raw <= LastCommit(raw')
      BY <1>2, <1>3, <1>4, <2>2 DEF Dated
  <2>4. raw' # {}
      BY <1>3
  <2>5. LastCommit(raw)' = LastCommit(raw')
      BY DEF LastCommit
  <2> QED  BY <1>2, <1>4, <2>1, <2>3, <2>4, <2>5 DEF Dated
<1>12. OneValue' /\ BuildRight'
    BY <1>2, <1>4 DEF OneValue, BuildRight, Building
<1> QED  BY <1>1, <1>2, <1>9, <1>10, <1>11, <1>12 DEF HInv

LEMMA InitializeRawHStep == ASSUME HInv, InitializeRaw PROVE HInv'
<1>1. IInv'
    BY InitializeRawStep DEF HInv
<1>2. raw = {} /\ item = {} /\ frozen = {} /\ ~Building /\ today \in Nat
    BY Constants DEF InitializeRaw, HInv, IInv, BuildOK, Dated, TypeOK
<1>3. UNCHANGED <<today, item, build, frozen>>
    BY DEF InitializeRaw
<1>4. \A r \in raw' : r.at <= today
  <2>1. PICK reported \in [1 .. today -> Values] :
            raw' = {[Row(t, t, reported[t], TRUE) EXCEPT !.seq = 1] : t \in 1 .. today}
      BY DEF InitializeRaw
  <2>2. \A t \in 1 .. today : [Row(t, t, reported[t], TRUE) EXCEPT !.seq = 1].at = t /\ t <= today
      BY <1>2 DEF Row
  <2> QED  BY <2>1, <2>2
<1>5. Dated'
    BY <1>2, <1>3, <1>4 DEF Dated
<1> QED  BY <1>1, <1>2, <1>3, <1>5 DEF HInv, OneValue, HistoryRight, BuildRight, Building

-----------------------------------------------------------------------------
(* Types and verification.                                                  *)

LEMMA Inductive == IInv /\ [Next]_vars => IInv'
<1> SUFFICES ASSUME IInv, [Next]_vars PROVE IInv'
    OBVIOUS
<1>1. CASE Next
    BY <1>1, TickStep, InitializeRawStep, UpdateRawStep, IngestStep, StartBuildStep,
       ReconcileStep, PublishStep, RepairStep, WithdrawStep, CompleteStep, CancelStep DEF Next
<1>2. CASE UNCHANGED vars
  <2>1. UNCHANGED <<today, raw, item, build, frozen>>
      BY <1>2 DEF vars
  <2>2. BuildTyped'
      BY <2>1 DEF IInv, BuildTyped, Versions
  <2>3. BuildOK'
    <3>1. Frozen' = Frozen /\ PendingClean' = PendingClean
        BY <2>1 DEF Frozen, PendingClean, Clean, Later
    <3>2. NumBoundaries' = NumBoundaries /\ \A i : Output(i)' = Output(i)
        BY <2>1, SameEvaluations
    <3>3. PreviousKept => PreviousKept'
        BY <2>1, <3>2 DEF PreviousKept
    <3> QED  BY <2>1, <3>1, <3>3 DEF IInv, BuildOK, Building
  <2>4. (frozen \subseteq [first : Days, last : Days, on : Days, raw : Nat, done : BOOLEAN])'
      BY <2>1 DEF IInv, TypeOK
  <2> QED  BY <2>1, <2>2, <2>3, <2>4, BuildStep
<1> QED  BY <1>1, <1>2

LEMMA Initial == Init => IInv
<1> SUFFICES ASSUME Init PROVE IInv
    OBVIOUS
<1>1. 1 \in Days
    BY Constants DEF Days
<1>2. Versions({}, Values) /\ Versions({}, ItemValues)
    BY DEF Versions
<1>3. BuildTyped /\ ~Building
    BY <1>1, <1>2 DEF Init, NoBuild, BuildTyped, Building
<1>4. TypeOK
    BY <1>1, <1>3 DEF Init, TypeOK, BuildTyped
<1> QED  BY <1>2, <1>3, <1>4 DEF Init, IInv, RawOK, BuildOK, ItemClean

LEMMA IInvHolds == Spec => []IInv
<1>1. Init => IInv
    BY Initial
<1>2. IInv /\ [Next]_vars => IInv'
    BY Inductive
<1> QED  BY <1>1, <1>2, PTL DEF Spec

\* Days, versions, receipts and the phase of a build keep their types.
THEOREM TypesHold == Spec => []TypeOK
<1>1. IInv => TypeOK
    BY DEF IInv
<1> QED  BY <1>1, IInvHolds, PTL

\* No row of an Item passes for verified on a day on which an observation it
\* reads is known only as the unverified baseline (ItemAPI._build).
THEOREM NeverPromoted == Spec => []NoPromotion
<1>1. IInv => NoPromotion
  <2> SUFFICES ASSUME IInv, NEW r \in item, ~r.baseline, r.value # Foreign,
                      NEW s \in Known(raw, r.at), s.time \in r.time - Window + 1 .. r.time
               PROVE  ~s.baseline
      BY DEF NoPromotion
  <2>1. Clean(r.time, r.at)
      BY DEF IInv, ItemClean
  <2> QED  BY <2>1 DEF Clean, Known, Latest
<1> QED  BY <1>1, IInvHolds, PTL

-----------------------------------------------------------------------------
(* History as it was known.                                                 *)

LEMMA InitialHistory == Init => HInv
<1> SUFFICES ASSUME Init PROVE HInv
    OBVIOUS
<1>1. IInv
    BY Initial
<1> QED  BY <1>1 DEF Init, HInv, Dated, OneValue, HistoryRight, BuildRight, Building, NoBuild

LEMMA InductiveHistory == ASSUME Lag = 0 PROVE HInv /\ [Next]_vars => HInv'
<1> SUFFICES ASSUME HInv, [Next]_vars PROVE HInv'
    OBVIOUS
<1>1. CASE Next
    BY <1>1, TickHStep, InitializeRawHStep, UpdateRawHStep, IngestHStep, StartBuildHStep,
       ReconcileHStep, PublishHStep, RepairHStep, WithdrawHStep, CompleteHStep, CancelHStep
       DEF Next
<1>2. CASE UNCHANGED vars
  <2>1. UNCHANGED <<today, raw, item, build, frozen>>
      BY <1>2 DEF vars
  <2>2. IInv'
      BY <1>2, Inductive DEF HInv
  <2>3. today \in Nat
      BY Constants DEF HInv, IInv, TypeOK
  <2>4. BuildRight'
    <3>1. /\ NumBoundaries' = NumBoundaries
          /\ \A i : /\ Boundary(i)' = Boundary(i) /\ Cutoff(i)' = Cutoff(i)
                    /\ Output(i)' = Output(i)
        BY <2>1, SameEvaluations
    <3>2. /\ \A t, day : Good(t, day)' <=> Good(t, day)
          /\ \A r : Matches(r)' <=> Matches(r)
      <4>1. \A t, day : Seen(t, day)' = Seen(t, day)
          BY <2>1 DEF Seen
      <4> QED  BY <2>1, <4>1 DEF Good, Overruled, Overtaken, Matches
    <3>3. \A t : Settled(t)' <=> Settled(t)
      <4>1. \A t : Seen(t, build.last)' = Seen(t, build.last)
          BY <2>1 DEF Seen
      <4> QED  BY <2>1, <4>1 DEF Settled
    <3>4. Final' = Final /\ Span' = Span
        BY <2>1, <3>1 DEF Final, Span
    <3>5. PendingRight => PendingRight'
        BY <2>1, <3>2, <3>4 DEF PendingRight
    <3>6. \A k : Progress(k) => Progress(k)'
        BY <2>1, <3>1, <3>2, <3>4 DEF Progress
    <3>7. PhaseRight => PhaseRight'
        BY <2>1, <3>1, <3>2, <3>3, <3>4, <3>6 DEF PhaseRight, AllGood, Covers, Waiting
    <3> QED  BY <2>1, <3>5, <3>7 DEF HInv, BuildRight, Building, Receipt
  <2> QED  BY <2>1, <2>2, <2>3, <2>4, QuietStep DEF HInv
<1> QED  BY <1>1, <1>2

LEMMA HInvHolds == ASSUME Lag = 0 PROVE Spec => []HInv
<1>1. Init => HInv
    BY InitialHistory
<1>2. HInv /\ [Next]_vars => HInv'
    BY InductiveHistory
<1> QED  BY <1>1, <1>2, PTL DEF Spec

\* With observations available on their day, a build that ends in success shows,
\* as known on every day of its range, what the producer makes of the frozen input
\* as known on that day (ItemAPI._build, iter_computed_versions).
THEOREM BuildsArePointInTime == ASSUME Lag = 0 PROVE Spec => []PointInTime
<1>1. HInv => PointInTime
  <2> SUFFICES ASSUME HInv, build.phase = "withdrawing", build.pending = {},
                      NEW t \in build.first .. build.last, NEW day \in t .. build.last
               PROVE  \/ Seen(t, day) = Expected(build.inputs, t, day)
                      \/ /\ Overruled(t, day) \/ Overtaken(day)
                         /\ day < build.last \/ \E r \in item : r.at > build.last
      BY DEF PointInTime
  <2>1. Building /\ t \in Span
      BY DEF Building, Span
  <2>2. Good(t, day) /\ Settled(t)
      BY <2>1, BuildFacts DEF PhaseRight, AllGood, Waiting
  <2>3. day \in Nat /\ build.last \in Nat /\ day <= build.last
      BY <2>1, BuildFacts
  <2>4. Expected(build.inputs, t, day) = Expected(raw, t, day)
    <3>1. \A r \in raw : r.at \in Nat
        BY <2>1, BuildFacts DEF RawOK, Versions, Rows
    <3>2. {r \in build.inputs : r.at <= day} = {r \in raw : r.at <= day}
        BY <2>1, <2>3, <3>1, BuildFacts DEF Frozen
    <3>3. Known(build.inputs, day) = Known(raw, day)
        BY <3>2 DEF Known
    <3> QED  BY <3>3 DEF Expected
  <2>5. CASE day < build.last
      BY <2>2, <2>4, <2>5 DEF Good
  <2>6. CASE day = build.last
      BY <2>2, <2>4, <2>6 DEF Good, Settled
  <2> QED  BY <2>3, <2>5, <2>6
<1> QED  BY <1>1, HInvHolds, PTL

\* With observations available on their day, what a completed build has shown of
\* days before it began is never rewritten, by no later commit, revision, build,
\* cancellation or withdrawal (commit_versions, ItemAPI._build).
THEOREM PublishedHistoryStands == ASSUME Lag = 0 PROVE Spec => []HistoryStands
<1>1. HInv => HistoryStands
    BY DEF HInv, HistoryRight, HistoryStands, Good
<1> QED  BY <1>1, HInvHolds, PTL

=============================================================================
