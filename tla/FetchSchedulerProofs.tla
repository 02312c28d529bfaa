-------------------------- MODULE FetchSchedulerProofs --------------------------
(***************************************************************************)
(* What holds of a fetch phase for any requests, halves, threads and bounds. *)
(***************************************************************************)
EXTENDS FetchScheduler, Integers, FiniteSets, FiniteSetTheorems, WellFoundedInduction, SequenceTheorems, TLAPS

-----------------------------------------------------------------------------
(* Least and greatest numbers, and folds over finite sets.                 *)

\* A nonempty set of natural numbers has a least element.
LEMMA NatLeast ==
    ASSUME NEW T \in SUBSET Nat, T # {}
    PROVE  \E x \in T : \A y \in T : x <= y
<1>1. PICK x \in T : \A y \in T : ~(<<y, x>> \in OpToRel(<, Nat))
    BY NatLessThanWellFounded, WFMin
<1>2. \A y \in T : ~(y < x)
    BY <1>1 DEF OpToRel
<1> QED  BY <1>2

\* A nonempty bounded one has a greatest element.
LEMMA NatGreatest ==
    ASSUME NEW n \in Nat, NEW T \in SUBSET (0 .. n), T # {}
    PROVE  \E x \in T : \A y \in T : y <= x
<1> DEFINE Bounds == {b \in Nat : \A y \in T : y <= b}
<1>1. n \in Bounds
    OBVIOUS
<1>2. PICK b \in Bounds : \A c \in Bounds : b <= c
    BY <1>1, NatLeast
<1>3. CASE b \in T
    BY <1>3
<1>4. CASE b \notin T
  <2>1. \A y \in T : y <= b - 1
      BY <1>4
  <2>2. b - 1 \in Nat
    <3>1. PICK y \in T : TRUE
        OBVIOUS
    <3>2. y \in Nat /\ y <= b - 1
        BY <2>1
    <3> QED  BY <3>2
  <2> QED  BY <1>2, <2>1, <2>2
<1> QED  BY <1>3, <1>4

\* A nonempty set of finite sets has a minimal one.
LEMMA FiniteMinimal ==
    ASSUME NEW T, \A s \in T : IsFiniteSet(s), T # {}
    PROVE  \E s \in T : \A t \in T : t \subseteq s => t = s
<1> DEFINE Cards == {Cardinality(s) : s \in T}
<1>1. Cards \in SUBSET Nat /\ Cards # {}
    BY FS_CardinalityType
<1>2. PICK n \in Cards : \A m \in Cards : n <= m
    BY <1>1, NatLeast
<1>3. PICK s \in T : Cardinality(s) = n
    OBVIOUS
<1>4. ASSUME NEW t \in T, t \subseteq s PROVE t = s
  <2>1. Cardinality(t) <= Cardinality(s) /\ (Cardinality(t) = Cardinality(s) => t = s)
      BY <1>4, FS_Subset
  <2>2. n <= Cardinality(t) /\ Cardinality(t) \in Nat /\ Cardinality(s) \in Nat
      BY <1>2, FS_CardinalityType
  <2> QED  BY <1>3, <2>1, <2>2
<1> QED  BY <1>4

\* f folds the values of h over the parts of T, from b, in the order that c chooses.
FoldsBy(f, T, b, c, h) ==
    \A s \in SUBSET T : f[s] = IF s = {} THEN b ELSE h[c[s]][f[s \ {c[s]}]]

\* A fold over a finite set exists, in whatever order its elements are chosen.
LEMMA FoldExists ==
    ASSUME NEW T, IsFiniteSet(T), NEW V, NEW b \in V, NEW c, NEW h,
           \A s \in SUBSET T : s # {} => c[s] \in s,
           \A x \in T, v \in V : h[x][v] \in V
    PROVE  \E f : f \in [SUBSET T -> V] /\ FoldsBy(f, T, b, c, h)
<1> DEFINE Solves(f, s) ==
             /\ f \in [SUBSET s -> V]
             /\ \A t \in SUBSET s : f[t] = IF t = {} THEN b ELSE h[c[t]][f[t \ {c[t]}]]
<1>0. \A s \in SUBSET T : s \subseteq T /\ IsFiniteSet(s)
    BY FS_Subset
<1>1. ASSUME NEW s \in SUBSET T, NEW u \in SUBSET T, NEW f, NEW g, Solves(f, s), Solves(g, u),
             NEW t \in SUBSET (s \cap u)
      PROVE  f[t] = g[t]
  <2> DEFINE Bad == {x \in SUBSET (s \cap u) : f[x] # g[x]}
  <2> SUFFICES ASSUME Bad # {} PROVE FALSE
      OBVIOUS
  <2>1. \A x \in Bad : x \subseteq T /\ IsFiniteSet(x)
      BY <1>0
  <2>2. PICK x \in Bad : \A y \in Bad : y \subseteq x => y = x
    <3> HIDE DEF Bad, Solves
    <3> QED  BY <2>1, FiniteMinimal
  <2>3. CASE x = {}
      BY <1>1, <2>3
  <2>4. CASE x # {}
    <3>1. c[x] \in x /\ x \subseteq s /\ x \subseteq u
        BY <2>4
    <3>2. (x \ {c[x]}) \notin Bad /\ (x \ {c[x]}) \in SUBSET (s \cap u)
        BY <2>2, <3>1
    <3>3. f[x \ {c[x]}] = g[x \ {c[x]}]
        BY <3>2
    <3>4. f[x] = h[c[x]][f[x \ {c[x]}]] /\ g[x] = h[c[x]][g[x \ {c[x]}]]
        BY <1>1, <2>4, <3>1
    <3> QED  BY <3>3, <3>4
  <2> QED  BY <2>3, <2>4
<1>2. \A s \in SUBSET T : \E f : Solves(f, s)
  <2> DEFINE Bad == {s \in SUBSET T : ~\E f : Solves(f, s)}
  <2> SUFFICES ASSUME Bad # {} PROVE FALSE
      OBVIOUS
  <2>1. PICK s \in Bad : \A y \in Bad : y \subseteq s => y = s
    <3>1. \A x \in Bad : x \subseteq T /\ IsFiniteSet(x)
        BY <1>0
    <3> HIDE DEF Bad, Solves
    <3> QED  BY <3>1, FiniteMinimal
  <2> DEFINE Is(t, v) == \E f : Solves(f, t) /\ v = f[t]
             val(t) == CHOOSE v : Is(t, v)
             g == [t \in SUBSET s |-> IF t = s
                     THEN IF s = {} THEN b ELSE h[c[s]][val(s \ {c[s]})]
                     ELSE val(t)]
  <2>2. ASSUME NEW t \in SUBSET s, t # s PROVE \E f : Solves(f, t) /\ val(t) = f[t]
    <3>1. t \in SUBSET T /\ t \notin Bad
        BY <2>1, <2>2
    <3>2. PICK f : Solves(f, t)
        BY <3>1
    <3>3. Is(t, f[t])
        BY <3>2
    <3>4. Is(t, val(t))
      <4> HIDE DEF Is
      <4> QED  BY <3>3
    <3> QED  BY <3>4
  <2>3. \A t \in SUBSET s : t # {} => c[t] \in t /\ (t \ {c[t]}) \in SUBSET s /\ (t \ {c[t]}) # s
      OBVIOUS
  <2>4. \A t \in SUBSET s : t # s => val(t) \in V
    <3> TAKE t \in SUBSET s
    <3> HAVE t # s
    <3>1. PICK f : Solves(f, t) /\ val(t) = f[t]
        BY <2>2
    <3> HIDE DEF val
    <3> QED  BY <3>1
  <2>5. \A t \in SUBSET s : t # s => g[t] = val(t)
    <3> HIDE DEF val
    <3> QED  OBVIOUS
  <2>6. g[s] = IF s = {} THEN b ELSE h[c[s]][val(s \ {c[s]})]
    <3> HIDE DEF val
    <3> QED  OBVIOUS
  <2>7. ASSUME NEW t \in SUBSET s, t # s
        PROVE  val(t) = IF t = {} THEN b ELSE h[c[t]][val(t \ {c[t]})]
    <3>1. PICK f : Solves(f, t) /\ val(t) = f[t]
        BY <2>2, <2>7
    <3>2. CASE t = {}
        BY <3>1, <3>2
    <3>3. CASE t # {}
      <4>1. (t \ {c[t]}) \in SUBSET s /\ (t \ {c[t]}) # s /\ c[t] \in t
          BY <2>3, <3>3
      <4>2. PICK e : Solves(e, t \ {c[t]}) /\ val(t \ {c[t]}) = e[t \ {c[t]}]
          BY <2>2, <4>1
      <4>3. t \in SUBSET T /\ (t \ {c[t]}) \in SUBSET T
          OBVIOUS
      <4>4. (t \ {c[t]}) \in SUBSET (t \cap (t \ {c[t]}))
          OBVIOUS
      <4> HIDE DEF Solves, val
      <4>5. f[t \ {c[t]}] = e[t \ {c[t]}]
          BY <1>1, <3>1, <4>2, <4>3, <4>4
      <4>6. f[t] = h[c[t]][f[t \ {c[t]}]]
          BY <3>1, <3>3 DEF Solves
      <4> QED  BY <3>1, <3>3, <4>2, <4>5, <4>6
    <3> QED  BY <3>2, <3>3
  <2>8. s \in SUBSET T
      OBVIOUS
  <2>9. DOMAIN g = SUBSET s /\ g = [t \in SUBSET s |-> g[t]]
      OBVIOUS
  <2> HIDE DEF val, g
  <2>10. \A t \in SUBSET s : g[t] = IF t = {} THEN b ELSE h[c[t]][g[t \ {c[t]}]]
    <3> TAKE t \in SUBSET s
    <3>1. t # {} => g[t \ {c[t]}] = val(t \ {c[t]})
        BY <2>3, <2>5
    <3> QED  BY <2>5, <2>6, <2>7, <3>1
  <2>11. \A t \in SUBSET s : g[t] \in V
    <3> TAKE t \in SUBSET s
    <3>1. t # {} => c[t] \in T /\ val(t \ {c[t]}) \in V
        BY <2>3, <2>4, <2>8
    <3> QED  BY <2>4, <2>5, <2>6, <3>1
  <2>12. Solves(g, s)
      BY <2>9, <2>10, <2>11, Zenon
  <2> QED  BY <2>1, <2>12
<1> QED  BY <1>2 DEF FoldsBy

-----------------------------------------------------------------------------
(* Sequences without repetition *)

\* The members of a sequence.
LEMMA Members ==
    ASSUME NEW R, NEW s \in Seq(R)
    PROVE  /\ ToSet(s) \subseteq R /\ (s = <<>> <=> ToSet(s) = {})
           /\ DOMAIN s = 1 .. Len(s) /\ Len(s) \in Nat
           /\ \A k \in 1 .. Len(s) : s[k] \in ToSet(s)
<1>1. DOMAIN s = 1 .. Len(s) /\ Len(s) \in Nat /\ \A k \in 1 .. Len(s) : s[k] \in R
    BY LenProperties, ElementOfSeq
<1>2. s # <<>> => 1 \in 1 .. Len(s)
    BY <1>1, EmptySeq
<1> QED  BY <1>1, <1>2 DEF ToSet

\* What is left without its head.
LEMMA TailMembers ==
    ASSUME NEW R, NEW s \in Seq(R), s # <<>>, IsInjective(s)
    PROVE  /\ Tail(s) \in Seq(R) /\ IsInjective(Tail(s))
           /\ Head(s) \in ToSet(s) /\ ToSet(Tail(s)) = ToSet(s) \ {Head(s)}
<1>1. Tail(s) \in Seq(R) /\ Len(s) \in Nat \ {0} /\ Len(Tail(s)) = Len(s) - 1
    BY HeadTailProperties, EmptySeq
<1>2. \A k \in 1 .. Len(s) - 1 : Tail(s)[k] = s[k + 1]
    BY <1>1, HeadTailProperties
<1>3. Head(s) = s[1]
    BY <1>1
<1>4. DOMAIN s = 1 .. Len(s) /\ DOMAIN Tail(s) = 1 .. Len(s) - 1
    BY <1>1, LenProperties
<1>5. \A k \in 1 .. Len(s) - 1 : k + 1 \in 1 .. Len(s) /\ k + 1 # 1
    BY <1>1
<1>6. \A k \in 1 .. Len(s) : k = 1 \/ (k - 1 \in 1 .. Len(s) - 1 /\ Tail(s)[k - 1] = s[k])
  <2> TAKE k \in 1 .. Len(s)
  <2>1. k # 1 => k - 1 \in 1 .. Len(s) - 1 /\ (k - 1) + 1 = k
      BY <1>1
  <2> QED  BY <1>2, <2>1
<1>7. IsInjective(Tail(s))
  <2> SUFFICES ASSUME NEW a \in 1 .. Len(s) - 1, NEW b \in 1 .. Len(s) - 1, Tail(s)[a] = Tail(s)[b]
               PROVE  a = b
      BY <1>4 DEF IsInjective
  <2>1. a + 1 = b + 1
      BY <1>2, <1>4, <1>5 DEF IsInjective
  <2> QED  BY <2>1
<1>8. Head(s) \in ToSet(s)
    BY <1>1, <1>3, <1>4 DEF ToSet
<1>9. \A x : x \in ToSet(Tail(s)) <=> x \in ToSet(s) /\ x # Head(s)
  <2> TAKE x
  <2>1. ASSUME x \in ToSet(Tail(s)) PROVE x \in ToSet(s) /\ x # Head(s)
    <3>1. PICK k \in 1 .. Len(s) - 1 : x = s[k + 1]
        BY <1>2, <1>4, <2>1 DEF ToSet
    <3>2. 1 \in 1 .. Len(s)
        BY <1>1
    <3> QED  BY <1>3, <1>4, <1>5, <3>1, <3>2 DEF ToSet, IsInjective
  <2>2. ASSUME x \in ToSet(s), x # Head(s) PROVE x \in ToSet(Tail(s))
    <3>1. PICK k \in 1 .. Len(s) : x = s[k]
        BY <1>4, <2>2 DEF ToSet
    <3> QED  BY <1>3, <1>4, <1>6, <2>2, <3>1 DEF ToSet
  <2> QED  BY <2>1, <2>2
<1> QED  BY <1>1, <1>7, <1>8, <1>9

\* Two sequences one after the other.
LEMMA ConcatMembers ==
    ASSUME NEW R, NEW s \in Seq(R), NEW t \in Seq(R), IsInjective(s), IsInjective(t),
           ToSet(s) \cap ToSet(t) = {}
    PROVE  s \o t \in Seq(R) /\ IsInjective(s \o t) /\ ToSet(s \o t) = ToSet(s) \cup ToSet(t)
<1> DEFINE u == s \o t
           m == Len(s)
           n == Len(t)
<1>1. /\ m \in Nat /\ n \in Nat /\ DOMAIN s = 1 .. m /\ DOMAIN t = 1 .. n
      /\ u \in Seq(R) /\ DOMAIN u = 1 .. m + n
    BY LenProperties, ConcatProperties
<1>2. \A k \in 1 .. m + n : u[k] = IF k <= m THEN s[k] ELSE t[k - m]
    BY ConcatProperties
<1> HIDE DEF u, m, n
<1>3. \A k \in 1 .. m + n : \/ k \in 1 .. m /\ u[k] = s[k]
                            \/ k - m \in 1 .. n /\ u[k] = t[k - m]
    BY <1>1, <1>2
<1>4. \A k \in 1 .. m : k \in 1 .. m + n /\ u[k] = s[k]
    BY <1>1, <1>2
<1>5. \A k \in 1 .. n : k + m \in 1 .. m + n /\ u[k + m] = t[k]
  <2> TAKE k \in 1 .. n
  <2>1. k + m \in 1 .. m + n /\ ~(k + m <= m) /\ (k + m) - m = k
      BY <1>1
  <2> QED  BY <1>2, <2>1
<1>6. IsInjective(u)
  <2> SUFFICES ASSUME NEW a \in 1 .. m + n, NEW b \in 1 .. m + n, u[a] = u[b] PROVE a = b
      BY <1>1 DEF IsInjective
  <2>1. CASE a \in 1 .. m /\ u[a] = s[a]
    <3>1. b \in 1 .. m /\ u[b] = s[b]
        BY <1>1, <1>3, <2>1 DEF ToSet
    <3> QED  BY <1>1, <2>1, <3>1 DEF IsInjective
  <2>2. CASE a - m \in 1 .. n /\ u[a] = t[a - m]
    <3>1. b - m \in 1 .. n /\ u[b] = t[b - m]
        BY <1>1, <1>3, <2>2 DEF ToSet
    <3>2. a - m = b - m
        BY <1>1, <2>2, <3>1 DEF IsInjective
    <3> QED  BY <1>1, <3>2
  <2> QED  BY <1>3, <2>1, <2>2
<1>7. ToSet(u) = ToSet(s) \cup ToSet(t)
  <2>1. \A x \in ToSet(u) : x \in ToSet(s) \cup ToSet(t)
      BY <1>1, <1>3 DEF ToSet
  <2>2. \A x \in ToSet(s) : x \in ToSet(u)
      BY <1>1, <1>4 DEF ToSet
  <2>3. \A x \in ToSet(t) : x \in ToSet(u)
      BY <1>1, <1>5 DEF ToSet
  <2> QED  BY <2>1, <2>2, <2>3
<1> QED  BY <1>1, <1>6, <1>7 DEF u

\* A sequence of one.
LEMMA SingleMember ==
    ASSUME NEW R, NEW x \in R
    PROVE  <<x>> \in Seq(R) /\ IsInjective(<<x>>) /\ ToSet(<<x>>) = {x}
BY DEF IsInjective, ToSet

\* Appending what is not yet there.
LEMMA AppendMembers ==
    ASSUME NEW R, NEW s \in Seq(R), NEW x \in R, IsInjective(s), x \notin ToSet(s)
    PROVE  /\ Append(s, x) \in Seq(R) /\ IsInjective(Append(s, x))
           /\ ToSet(Append(s, x)) = ToSet(s) \cup {x}
<1>1. PICK t : t = <<x>>
    OBVIOUS
<1>2. t \in Seq(R) /\ IsInjective(t) /\ ToSet(t) = {x} /\ Append(s, x) = s \o t
    BY <1>1, SingleMember, AppendIsConcat
<1>3. ToSet(s) \cap ToSet(t) = {}
    BY <1>2
<1>4. s \o t \in Seq(R) /\ IsInjective(s \o t) /\ ToSet(s \o t) = ToSet(s) \cup ToSet(t)
    BY <1>2, <1>3, ConcatMembers
<1> QED  BY <1>2, <1>4

\* A sequence parted in two.
LEMMA PartedMembers ==
    ASSUME NEW R, NEW s \in Seq(R), IsInjective(s), NEW k \in 0 .. Len(s)
    PROVE  LET a == SubSeq(s, 1, k)
               b == SubSeq(s, k + 1, Len(s))
           IN  /\ a \in Seq(R) /\ b \in Seq(R) /\ IsInjective(a) /\ IsInjective(b)
               /\ Len(a) = k /\ ToSet(a) \cap ToSet(b) = {} /\ ToSet(a) \cup ToSet(b) = ToSet(s)
<1> DEFINE a == SubSeq(s, 1, k)
           b == SubSeq(s, k + 1, Len(s))
           n == Len(s)
<1>1. n \in Nat /\ DOMAIN s = 1 .. n /\ k \in Nat /\ k <= n
    BY LenProperties
<1>2. a \in Seq(R) /\ Len(a) = k /\ \A i \in 1 .. k : a[i] = s[i]
  <2>1. \A i \in 1 .. k : s[i] \in R
      BY <1>1, ElementOfSeq
  <2>2. (k - 1) + 1 = k /\ (1 <= k => k - 1 + 1 = k) /\ (~(1 <= k) => k = 0)
      BY <1>1
  <2>3. /\ a \in Seq(R) /\ Len(a) = (IF 1 <= k THEN k - 1 + 1 ELSE 0)
        /\ \A i \in 1 .. k - 1 + 1 : a[i] = s[1 + i - 1]
      BY <1>1, <2>1, SubSeqProperties
  <2>4. \A i \in 1 .. k : 1 + i - 1 = i
      BY <1>1
  <2> HIDE DEF a
  <2> QED  BY <2>2, <2>3, <2>4
<1>3. b \in Seq(R) /\ Len(b) = n - k /\ \A i \in 1 .. n - k : b[i] = s[k + i]
  <2>1. \A i \in k + 1 .. n : s[i] \in R
      BY <1>1, ElementOfSeq
  <2>2. k + 1 \in Int /\ n \in Int
      BY <1>1
  <2>3. /\ b \in Seq(R) /\ Len(b) = (IF k + 1 <= n THEN n - (k + 1) + 1 ELSE 0)
        /\ \A i \in 1 .. n - (k + 1) + 1 : b[i] = s[(k + 1) + i - 1]
      BY <2>1, <2>2, SubSeqProperties
  <2>4. n - (k + 1) + 1 = n - k /\ (n < k + 1 => n - k = 0) /\ (~(k + 1 <= n) <=> n < k + 1)
    <3> HIDE DEF n
    <3> QED  BY <1>1
  <2>5. \A i \in 1 .. n - k : (k + 1) + i - 1 = k + i
      BY <1>1
  <2> HIDE DEF b, n
  <2>6. Len(b) = n - k
      BY <2>3, <2>4
  <2>7. \A i \in 1 .. n - k : b[i] = s[k + i]
      BY <2>3, <2>4, <2>5
  <2> QED  BY <2>3, <2>6, <2>7
<1>4. DOMAIN a = 1 .. k /\ DOMAIN b = 1 .. n - k
    BY <1>2, <1>3, LenProperties
<1> HIDE DEF a, b, n
<1>5. \A i \in 1 .. k : i \in 1 .. n
    BY <1>1
<1>6. \A i \in 1 .. n - k : k + i \in 1 .. n /\ k + i \notin 1 .. k
    BY <1>1
<1>7. \A i \in 1 .. n : i \in 1 .. k \/ (i - k \in 1 .. n - k /\ b[i - k] = s[i])
  <2> TAKE i \in 1 .. n
  <2>1. i \notin 1 .. k => i - k \in 1 .. n - k /\ k + (i - k) = i
      BY <1>1
  <2> QED  BY <1>3, <2>1
<1>8. IsInjective(a)
    BY <1>1, <1>2, <1>4, <1>5 DEF IsInjective
<1>9. IsInjective(b)
  <2> SUFFICES ASSUME NEW i \in 1 .. n - k, NEW j \in 1 .. n - k, b[i] = b[j] PROVE i = j
      BY <1>4 DEF IsInjective
  <2>1. k + i = k + j
      BY <1>1, <1>3, <1>6 DEF IsInjective
  <2> QED  BY <1>1, <2>1
<1>10. ToSet(a) \cap ToSet(b) = {}
  <2> SUFFICES ASSUME NEW i \in 1 .. k, NEW j \in 1 .. n - k, a[i] = b[j] PROVE FALSE
      BY <1>4 DEF ToSet
  <2>1. i = k + j
      BY <1>1, <1>2, <1>3, <1>5, <1>6 DEF IsInjective
  <2> QED  BY <1>6, <2>1
<1>11. ToSet(a) \cup ToSet(b) = ToSet(s)
  <2>1. \A x \in ToSet(a) : x \in ToSet(s)
      BY <1>1, <1>2, <1>4, <1>5 DEF ToSet
  <2>2. \A x \in ToSet(b) : x \in ToSet(s)
      BY <1>1, <1>3, <1>4, <1>6 DEF ToSet
  <2>3. \A x \in ToSet(s) : x \in ToSet(a) \cup ToSet(b)
      BY <1>1, <1>2, <1>4, <1>7 DEF ToSet
  <2> QED  BY <2>1, <2>2, <2>3
<1> QED  BY <1>2, <1>3, <1>8, <1>9, <1>10, <1>11 DEF a, b, n

-----------------------------------------------------------------------------
(* Bytes *)

\* Bytes, of the sizes z.
Weigh(z, S) == MapThenSumSet(LAMBDA r : IF z[r] = Oversized THEN 0 ELSE z[r], S)

Weight(z, r) == IF z[r] = Oversized THEN 0 ELSE z[r]

First(s) == CHOOSE x \in s : TRUE

\* f adds up the weights of every part of S.
Adds(z, f, S) ==
    \A s \in SUBSET S : f[s] = IF s = {} THEN 0 ELSE Weight(z, First(s)) + f[s \ {First(s)}]

\* The first of a set is in it.
LEMMA FirstIn == \A s : s # {} => First(s) \in s
BY DEF First

\* Sums of the same weights agree.
LEMMA AddsAgree ==
    ASSUME NEW z, NEW y, NEW S, NEW T, IsFiniteSet(S), NEW f, NEW g,
           Adds(z, f, S), Adds(y, g, T), NEW s \in SUBSET (S \cap T),
           \A x \in s : Weight(z, x) = Weight(y, x)
    PROVE  f[s] = g[s]
<1> DEFINE Bad == {t \in SUBSET s : f[t] # g[t]}
<1> SUFFICES ASSUME Bad # {} PROVE FALSE
    OBVIOUS
<1>1. \A t \in Bad : IsFiniteSet(t)
    BY FS_Subset
<1>2. PICK t \in Bad : \A u \in Bad : u \subseteq t => u = t
  <2> HIDE DEF Bad
  <2> QED  BY <1>1, FiniteMinimal
<1>3. t \in SUBSET S /\ t \in SUBSET T /\ t \in SUBSET s /\ f[t] # g[t]
    OBVIOUS
<1>4. t # {}
    BY <1>3 DEF Adds
<1>5. First(t) \in t
    BY <1>4, FirstIn
<1>6. f[t \ {First(t)}] = g[t \ {First(t)}]
    BY <1>2, <1>5
<1>7. Weight(z, First(t)) = Weight(y, First(t))
    BY <1>3, <1>5
<1>8. f[t] = Weight(z, First(t)) + f[t \ {First(t)}]
    BY <1>3, <1>4 DEF Adds
<1>9. g[t] = Weight(y, First(t)) + g[t \ {First(t)}]
    BY <1>3, <1>4 DEF Adds
<1> QED  BY <1>3, <1>6, <1>7, <1>8, <1>9

\* What is weighed is such a sum.
LEMMA WeighAdds ==
    ASSUME NEW z \in [Requests -> Nat], NEW S \in SUBSET Requests
    PROVE  /\ IsFiniteSet(S)
           /\ \E f : /\ f \in [SUBSET S -> Nat] /\ Adds(z, f, S)
                     /\ Weigh(z, S) = f[S]
<1>1. IsFiniteSet(S)
    BY RequestAssumption, FS_Subset
<1> DEFINE c == [s \in SUBSET S |-> First(s)]
           h == [x \in S |-> [v \in Nat |-> Weight(z, x) + v]]
<1>2. \A s \in SUBSET S : s # {} => c[s] \in s /\ c[s] = First(s)
    BY FirstIn
<1>3. \A x \in S : Weight(z, x) \in Nat
    BY DEF Weight
<1>4. \A x \in S, v \in Nat : h[x][v] = Weight(z, x) + v /\ h[x][v] \in Nat
    BY <1>3
<1> HIDE DEF c, h
<1>5. PICK f : f \in [SUBSET S -> Nat] /\ FoldsBy(f, S, 0, c, h)
  <2>1. \A s \in SUBSET S : s # {} => c[s] \in s
      BY <1>2
  <2>2. \A x \in S, v \in Nat : h[x][v] \in Nat
      BY <1>4
  <2>3. 0 \in Nat
      OBVIOUS
  <2> QED  BY <1>1, <2>1, <2>2, <2>3, FoldExists, Zenon
<1>6. Adds(z, f, S)
  <2> SUFFICES ASSUME NEW s \in SUBSET S, s # {}
               PROVE  f[s] = Weight(z, First(s)) + f[s \ {First(s)}]
      BY <1>5 DEF Adds, FoldsBy
  <2>1. First(s) \in S /\ f[s \ {First(s)}] \in Nat
      BY <1>5, FirstIn
  <2> QED  BY <1>2, <1>4, <1>5, <2>1 DEF FoldsBy
<1> DEFINE Is(g) == g = [s \in SUBSET S |-> IF s = {} THEN 0
                         ELSE (IF z[First(s)] = Oversized THEN 0 ELSE z[First(s)])
                              + g[s \ {First(s)}]]
           g == CHOOSE g : Is(g)
<1>7. Is(f)
    BY <1>5, <1>6 DEF Adds, Weight
<1>8. Is(g)
  <2> HIDE DEF Is
  <2> QED  BY <1>7
<1>9. Adds(z, g, S)
  <2> HIDE DEF g
  <2> QED  BY <1>8 DEF Adds, Weight
<1>10. Weigh(z, S) = g[S]
    BY DEF Weigh, MapThenSumSet, MapThenFoldSet, First
<1>11. f[S] = g[S]
  <2> HIDE DEF g
  <2>1. S \in SUBSET (S \cap S) /\ \A x \in S : Weight(z, x) = Weight(z, x)
      OBVIOUS
  <2> QED  BY <1>1, <1>6, <1>9, <2>1, AddsAgree
<1> QED  BY <1>1, <1>5, <1>6, <1>10, <1>11

\* Weights add up, one by one, in any order.
LEMMA WeighOne ==
    ASSUME NEW z \in [Requests -> Nat], NEW S \in SUBSET Requests, NEW x \in S
    PROVE  Weigh(z, S) = Weight(z, x) + Weigh(z, S \ {x})
<1>1. PICK f : f \in [SUBSET S -> Nat] /\ Adds(z, f, S) /\ Weigh(z, S) = f[S]
    BY WeighAdds
<1>2. S \ {x} \in SUBSET Requests /\ IsFiniteSet(S)
    BY WeighAdds
<1>3. PICK g : Adds(z, g, S \ {x}) /\ Weigh(z, S \ {x}) = g[S \ {x}]
    BY <1>2, WeighAdds
<1>4. f[S \ {x}] = g[S \ {x}]
  <2>1. (S \ {x}) \in SUBSET (S \cap (S \ {x}))
      OBVIOUS
  <2>2. \A r \in S \ {x} : Weight(z, r) = Weight(z, r)
      OBVIOUS
  <2> QED  BY <1>1, <1>2, <1>3, <2>1, <2>2, AddsAgree
<1>5. \A r \in S : Weight(z, r) \in Nat
    BY DEF Weight
<1> DEFINE Bad == {t \in SUBSET S : \E r \in t : f[t] # Weight(z, r) + f[t \ {r}]}
<1>6. Bad = {}
  <2> SUFFICES ASSUME Bad # {} PROVE FALSE
      OBVIOUS
  <2>1. \A t \in Bad : IsFiniteSet(t)
      BY <1>2, FS_Subset
  <2>2. PICK t \in Bad : \A u \in Bad : u \subseteq t => u = t
    <3> HIDE DEF Bad
    <3> QED  BY <2>1, FiniteMinimal
  <2>3. PICK r \in t : f[t] # Weight(z, r) + f[t \ {r}]
      OBVIOUS
  <2> DEFINE c == First(t)
  <2>4. c \in t /\ f[t] = Weight(z, c) + f[t \ {c}]
      BY <1>1, <2>3, FirstIn DEF Adds
  <2> HIDE DEF c
  <2>5. c # r
      BY <2>3, <2>4
  <2>6. f[t \ {c}] = Weight(z, r) + f[(t \ {c}) \ {r}]
    <3>1. (t \ {c}) \notin Bad /\ (t \ {c}) \in SUBSET S /\ r \in t \ {c}
        BY <2>2, <2>4, <2>5
    <3> QED  BY <3>1
  <2>7. f[t \ {r}] = Weight(z, c) + f[(t \ {r}) \ {c}]
    <3>1. (t \ {r}) \notin Bad /\ (t \ {r}) \in SUBSET S /\ c \in t \ {r}
        BY <2>2, <2>3, <2>4, <2>5
    <3> QED  BY <3>1
  <2>8. (t \ {c}) \ {r} = (t \ {r}) \ {c}
      OBVIOUS
  <2>9. PICK u \in SUBSET S : u = (t \ {c}) \ {r} /\ u = (t \ {r}) \ {c}
      BY <2>8
  <2>10. /\ f[u] \in Nat /\ Weight(z, c) \in Nat /\ Weight(z, r) \in Nat
         /\ f[t \ {c}] = Weight(z, r) + f[u] /\ f[t \ {r}] = Weight(z, c) + f[u]
    <3>1. c \in S /\ r \in S
        BY <2>3, <2>4
    <3>2. f[u] \in Nat
        BY <1>1
    <3> QED  BY <1>5, <2>6, <2>7, <2>9, <3>1, <3>2
  <2> QED  BY <2>3, <2>4, <2>10
<1>7. f[S] = Weight(z, x) + f[S \ {x}]
    BY <1>6
<1> QED  BY <1>1, <1>3, <1>4, <1>7

\* A weight is a number.
LEMMA WeighType ==
    ASSUME NEW z \in [Requests -> Nat], NEW S \in SUBSET Requests
    PROVE  Weigh(z, S) \in Nat /\ (S = {} => Weigh(z, S) = 0)
<1>1. PICK f : f \in [SUBSET S -> Nat] /\ Adds(z, f, S) /\ Weigh(z, S) = f[S]
    BY WeighAdds
<1> QED  BY <1>1 DEF Adds

\* Weights of others do not matter.
LEMMA WeighAgree ==
    ASSUME NEW z \in [Requests -> Nat], NEW y \in [Requests -> Nat], NEW S \in SUBSET Requests,
           \A r \in S : z[r] = y[r]
    PROVE  Weigh(z, S) = Weigh(y, S)
<1>1. PICK f : IsFiniteSet(S) /\ Adds(z, f, S) /\ Weigh(z, S) = f[S]
    BY WeighAdds
<1>2. PICK g : Adds(y, g, S) /\ Weigh(y, S) = g[S]
    BY WeighAdds
<1>3. \A r \in S : Weight(z, r) = Weight(y, r)
    BY DEF Weight
<1>4. S \in SUBSET (S \cap S)
    OBVIOUS
<1>5. f[S] = g[S]
    BY <1>1, <1>2, <1>3, <1>4, AddsAgree
<1> QED  BY <1>1, <1>2, <1>5

\* One request more weighs as much more.
LEMMA WeighMore ==
    ASSUME NEW z \in [Requests -> Nat], NEW S \in SUBSET Requests, NEW x \in Requests \ S
    PROVE  Weigh(z, S \cup {x}) = Weight(z, x) + Weigh(z, S)
<1>1. (S \cup {x}) \in SUBSET Requests /\ x \in S \cup {x} /\ (S \cup {x}) \ {x} = S
    OBVIOUS
<1> QED  BY <1>1, WeighOne

\* The weights of two parts, and a bound of them.
LEMMA WeighUnion ==
    ASSUME NEW z \in [Requests -> Nat], NEW S \in SUBSET Requests, NEW T \in SUBSET Requests,
           S \cap T = {}
    PROVE  Weigh(z, S \cup T) = Weigh(z, S) + Weigh(z, T)
<1> DEFINE Bad == {A \in SUBSET S : Weigh(z, A \cup T) # Weigh(z, A) + Weigh(z, T)}
<1> SUFFICES ASSUME Bad # {} PROVE FALSE
    OBVIOUS
<1>1. \A A \in Bad : IsFiniteSet(A)
  <2>1. \A A \in Bad : A \in SUBSET Requests
      OBVIOUS
  <2> HIDE DEF Bad
  <2> QED  BY <2>1, RequestAssumption, FS_Subset
<1>2. PICK A \in Bad : \A B \in Bad : B \subseteq A => B = A
  <2> HIDE DEF Bad
  <2> QED  BY <1>1, FiniteMinimal
<1>3. CASE A = {}
  <2>1. A \cup T = T /\ Weigh(z, A) = 0 /\ Weigh(z, T) \in Nat
      BY <1>3, WeighType
  <2>2. Weigh(z, A \cup T) # Weigh(z, A) + Weigh(z, T)
      BY <1>2
  <2>3. PICK w \in Nat : w = Weigh(z, T)
      BY <2>1
  <2>4. Weigh(z, A \cup T) = w
      BY <2>1, <2>3
  <2>5. Weigh(z, A) + Weigh(z, T) = w
      BY <2>1, <2>3
  <2> QED  BY <2>2, <2>4, <2>5
<1>4. CASE A # {}
  <2>1. PICK x \in A : TRUE
      BY <1>4
  <2>2. PICK B : B = A \ {x}
      OBVIOUS
  <2>3. /\ B \in SUBSET S /\ B \notin Bad /\ A \in SUBSET Requests /\ x \in A
        /\ (A \cup T) \in SUBSET Requests /\ x \in A \cup T /\ (A \cup T) \ {x} = B \cup T
      BY <1>2, <2>1, <2>2
  <2>4. Weigh(z, A \cup T) = Weight(z, x) + Weigh(z, B \cup T)
      BY <2>3, WeighOne
  <2>5. Weigh(z, A) = Weight(z, x) + Weigh(z, B)
      BY <2>2, <2>3, WeighOne
  <2>6. Weigh(z, B \cup T) = Weigh(z, B) + Weigh(z, T)
      BY <2>3
  <2>7. Weight(z, x) \in Nat /\ Weigh(z, B) \in Nat /\ Weigh(z, T) \in Nat
      BY <2>3, WeighType DEF Weight
  <2>8. Weigh(z, A \cup T) # Weigh(z, A) + Weigh(z, T)
      BY <1>2
  <2> QED  BY <2>4, <2>5, <2>6, <2>7, <2>8
<1> QED  BY <1>3, <1>4

\* A set weighs at most its size times the heaviest.
LEMMA WeighBound ==
    ASSUME NEW z \in [Requests -> Nat], NEW S \in SUBSET Requests, NEW n \in Nat,
           \A r \in S : Weight(z, r) <= n
    PROVE  /\ IsFiniteSet(S) /\ Cardinality(S) \in Nat
           /\ Weigh(z, S) <= Cardinality(S) * n
<1>0. \A A \in SUBSET S : A \in SUBSET Requests /\ IsFiniteSet(A) /\ Cardinality(A) \in Nat
    BY RequestAssumption, FS_Subset, FS_CardinalityType
<1> DEFINE Bad == {A \in SUBSET S : ~(Weigh(z, A) <= Cardinality(A) * n)}
<1> SUFFICES ASSUME Bad # {} PROVE FALSE
    BY <1>0
<1>2. PICK A \in Bad : \A B \in Bad : B \subseteq A => B = A
  <2>1. \A A \in Bad : IsFiniteSet(A)
      BY <1>0
  <2> HIDE DEF Bad
  <2> QED  BY <2>1, FiniteMinimal
<1>3. CASE A = {}
  <2>1. Weigh(z, A) = 0 /\ Cardinality(A) = 0
      BY <1>3, WeighType, FS_EmptySet
  <2> QED  BY <2>1
<1>4. CASE A # {}
  <2>1. PICK x \in A : TRUE
      BY <1>4
  <2>2. PICK B : B = A \ {x}
      OBVIOUS
  <2>3. B \in SUBSET S /\ B \notin Bad /\ A \in SUBSET Requests /\ x \in A /\ x \in S
      BY <1>2, <2>1, <2>2
  <2>5. Weigh(z, A) = Weight(z, x) + Weigh(z, B)
      BY <2>2, <2>3, WeighOne
  <2>6. PICK k \in Nat : k = Cardinality(B) /\ Cardinality(A) = k + 1
    <3>1. Cardinality(B) = Cardinality(A) - 1
        BY <1>0, <2>2, <2>3, FS_RemoveElement
    <3>2. Cardinality(A) \in Nat /\ Cardinality(B) \in Nat
        BY <1>0, <2>3
    <3> QED  BY <3>1, <3>2
  <2>7. /\ Weight(z, x) \in Nat /\ Weigh(z, B) \in Nat /\ Weight(z, x) <= n
        /\ Weigh(z, B) <= k * n
      BY <2>3, <2>6, WeighType DEF Weight
  <2>8. ~(Weigh(z, A) <= (k + 1) * n)
      BY <1>2, <2>6
  <2>9. (k + 1) * n = k * n + n /\ k * n \in Nat
      OBVIOUS
  <2> QED  BY <2>5, <2>7, <2>8, <2>9
<1> QED  BY <1>3, <1>4

\* Bytes are weighed by the sizes of responses.
LEMMA BytesWeigh == \A S : Bytes(S) = Weigh(size, S)
BY Zenon DEF Bytes, Weigh

-----------------------------------------------------------------------------
(* Claims *)

Keep(q) == FoldLeft(LAMBDA s, r : IF r \in Taken THEN s ELSE Append(s, r), <<>>, q)

\* What is kept of a draw are its requests that nobody else holds.
LEMMA KeepMembers ==
    ASSUME NEW q \in Seq(Requests), IsInjective(q)
    PROVE  /\ Keep(q) \in Seq(Requests) /\ IsInjective(Keep(q))
           /\ ToSet(Keep(q)) = ToSet(q) \ Taken
<1> DEFINE n == Len(q)
           c == [s \in SUBSET (1 .. n) |-> Max(s)]
           h == [i \in 1 .. n |-> [v \in Seq(Requests) |->
                   IF q[i] \in Taken THEN v ELSE Append(v, q[i])]]
<1>1. /\ n \in Nat /\ DOMAIN q = 1 .. n /\ \A i \in 1 .. n : q[i] \in Requests
      /\ IsFiniteSet(1 .. n)
    BY LenProperties, ElementOfSeq, FS_Interval
<1> HIDE DEF n
<1>2. \A s \in SUBSET (1 .. n) : s # {} => Max(s) \in s /\ c[s] = Max(s)
  <2> TAKE s \in SUBSET (1 .. n)
  <2> HAVE s # {}
  <2>1. s \in SUBSET (0 .. n)
      BY <1>1
  <2>2. \E x \in s : \A y \in s : y <= x
      BY <1>1, <2>1, NatGreatest
  <2>3. \E x \in s : \A y \in s : x >= y
      BY <1>1, <2>2
  <2> QED  BY <2>3 DEF Max
<1>3. \A i \in 1 .. n, v \in Seq(Requests) :
        /\ h[i][v] = IF q[i] \in Taken THEN v ELSE Append(v, q[i])
        /\ h[i][v] \in Seq(Requests)
    BY <1>1
<1> HIDE DEF h
<1>4. PICK f : f \in [SUBSET (1 .. n) -> Seq(Requests)] /\ FoldsBy(f, 1 .. n, <<>>, c, h)
  <2>1. \A s \in SUBSET (1 .. n) : s # {} => c[s] \in s
      BY <1>2
  <2>2. \A i \in 1 .. n, v \in Seq(Requests) : h[i][v] \in Seq(Requests)
      BY <1>3
  <2>3. <<>> \in Seq(Requests)
      OBVIOUS
  <2> HIDE DEF c
  <2>4. PICK D, V, b : D = 1 .. n /\ V = Seq(Requests) /\ b = <<>>
      OBVIOUS
  <2>5. /\ IsFiniteSet(D) /\ b \in V /\ \A s \in SUBSET D : s # {} => c[s] \in s
        /\ \A i \in D, v \in V : h[i][v] \in V
      BY <1>1, <2>1, <2>2, <2>3, <2>4
  <2>6. \E f : f \in [SUBSET D -> V] /\ FoldsBy(f, D, b, c, h)
      BY <2>5, FoldExists
  <2> QED  BY <2>4, <2>6
<1> DEFINE Is(g) == g = [s \in SUBSET (1 .. n) |-> IF s = {} THEN <<>>
                         ELSE IF q[Max(s)] \in Taken THEN g[s \ {Max(s)}]
                              ELSE Append(g[s \ {Max(s)}], q[Max(s)])]
           g == CHOOSE g : Is(g)
<1>5. Is(f)
  <2>1. ASSUME NEW s \in SUBSET (1 .. n), s # {}
        PROVE  f[s] = IF q[Max(s)] \in Taken THEN f[s \ {Max(s)}]
                      ELSE Append(f[s \ {Max(s)}], q[Max(s)])
    <3>1. Max(s) \in s /\ c[s] = Max(s) /\ Max(s) \in 1 .. n
        BY <1>2, <2>1
    <3>2. f[s \ {Max(s)}] \in Seq(Requests)
        BY <1>4
    <3>3. f[s] = h[c[s]][f[s \ {c[s]}]]
        BY <1>4, <2>1 DEF FoldsBy
    <3> HIDE DEF c
    <3> QED  BY <1>3, <3>1, <3>2, <3>3
  <2>2. f[{}] = <<>>
      BY <1>4 DEF FoldsBy
  <2> HIDE DEF c
  <2> QED  BY <1>4, <2>1, <2>2
<1>6. Is(g)
  <2> HIDE DEF Is
  <2> QED  BY <1>5
<1>7. Keep(q) = g[1 .. n]
    BY <1>1 DEF Keep, FoldLeft, MapThenFoldSet
<1> HIDE DEF g
<1> DEFINE Good(k) == /\ g[1 .. k] \in Seq(Requests) /\ IsInjective(g[1 .. k])
                      /\ ToSet(g[1 .. k]) = {q[i] : i \in 1 .. k} \ Taken
           Bad == {k \in 0 .. n : ~Good(k)}
<1>8. Bad = {}
  <2> SUFFICES ASSUME Bad # {} PROVE FALSE
      OBVIOUS
  <2>1. PICK k \in Bad : \A j \in Bad : k <= j
    <3>1. Bad \in SUBSET Nat
        BY <1>1
    <3> HIDE DEF Bad
    <3> QED  BY <3>1, NatLeast
  <2>2. k \in 0 .. n /\ ~Good(k)
      OBVIOUS
  <2>3. CASE k = 0
    <3>1. 1 .. k = {}
        BY <2>3
    <3>2. g[1 .. k] = <<>>
        BY <1>6, <3>1
    <3>3. ToSet(<<>>) = {} /\ IsInjective(<<>>)
        BY DEF ToSet, IsInjective
    <3> QED  BY <2>2, <3>1, <3>2, <3>3
  <2>4. CASE k # 0
    <3>1. k \in 1 .. n /\ k - 1 \in 0 .. n /\ ~(k <= k - 1)
        BY <1>1, <2>2, <2>4
    <3>2. Good(k - 1)
        BY <2>1, <3>1
    <3>3. k \in 1 .. k /\ (1 .. k) \ {k} = 1 .. (k - 1) /\ (1 .. k) \in SUBSET (1 .. n)
        BY <1>1, <3>1
    <3>4. Max(1 .. k) = k
      <4>1. Max(1 .. k) \in 1 .. k /\ \A y \in 1 .. k : Max(1 .. k) >= y
        <5>1. \A y \in 1 .. k : k >= y
            BY <3>1
        <5> QED  BY <3>3, <5>1 DEF Max
      <4> QED  BY <3>3, <4>1
    <3>5. g[1 .. k] = IF q[k] \in Taken THEN g[1 .. (k - 1)]
                      ELSE Append(g[1 .. (k - 1)], q[k])
        BY <1>6, <3>3, <3>4
    <3>6. {q[i] : i \in 1 .. k} = {q[i] : i \in 1 .. (k - 1)} \cup {q[k]}
      <4>1. \A i \in 1 .. k : i = k \/ i \in 1 .. (k - 1)
          BY <3>1
      <4>2. \A i \in 1 .. (k - 1) : i \in 1 .. k
          BY <3>1
      <4> QED  BY <3>3, <4>1, <4>2
    <3>7. q[k] \notin {q[i] : i \in 1 .. (k - 1)}
      <4>1. \A i \in 1 .. (k - 1) : i \in 1 .. n /\ i # k
          BY <1>1, <3>1
      <4> QED  BY <1>1, <3>1, <4>1 DEF IsInjective
    <3> HIDE DEF g
    <3>8. CASE q[k] \in Taken
        BY <2>2, <3>2, <3>5, <3>6, <3>8
    <3>9. CASE q[k] \notin Taken
      <4>1. PICK s \in Seq(Requests) : s = g[1 .. (k - 1)] /\ IsInjective(s)
                                       /\ ToSet(s) = {q[i] : i \in 1 .. (k - 1)} \ Taken
          BY <3>2
      <4>2. q[k] \in Requests /\ q[k] \notin ToSet(s) /\ g[1 .. k] = Append(s, q[k])
          BY <1>1, <3>1, <3>5, <3>7, <3>9, <4>1
      <4>3. /\ Append(s, q[k]) \in Seq(Requests) /\ IsInjective(Append(s, q[k]))
            /\ ToSet(Append(s, q[k])) = ToSet(s) \cup {q[k]}
          BY <4>1, <4>2, AppendMembers
      <4> QED  BY <2>2, <3>6, <3>9, <4>1, <4>2, <4>3
    <3> QED  BY <3>8, <3>9
  <2> QED  BY <2>3, <2>4
<1>9. Good(n)
  <2>1. n \in 0 .. n
      BY <1>1
  <2> QED  BY <1>8, <2>1
<1> QED  BY <1>1, <1>7, <1>9 DEF ToSet

-----------------------------------------------------------------------------
(* Bounds *)

\* The bounds are numbers in the order the code checks.
LEMMA Bounds ==
    /\ Reservation \in Nat /\ Reservation >= 1 /\ Reservation <= Budget
    /\ Oversized \in Nat /\ Oversized # 0 /\ Budget \in Nat
    /\ MaxInFlight \in Nat /\ MaxInFlight >= 1 /\ Workers \in Nat
    /\ \A k \in Sizes : k \in Nat /\ k # 0 /\ k <= Reservation /\ k # Oversized
    /\ CommittingCapacity \in Int /\ CommittingCapacity <= MaxInFlight
<1>1. Budget \in Nat /\ Budget >= 1 /\ MaxInFlight \in Nat /\ MaxInFlight >= 1 /\ Workers \in Nat
    BY SchedulerAssumption
<1>2. PICK x : x = Budget \div MaxInFlight /\ x \in Nat /\ x <= Budget
  <2>1. Budget \div MaxInFlight \in Nat /\ Budget \div MaxInFlight <= Budget
      BY <1>1
  <2> QED  BY <2>1
<1>3. Reservation = Max({1, x})
    BY <1>2 DEF Reservation
<1>4. Reservation = 1 \/ Reservation = x
  <2>1. \E y \in {1, x} : \A z \in {1, x} : y >= z
      BY <1>2
  <2> QED  BY <1>3, <2>1 DEF Max
<1>5. Reservation >= 1
  <2>1. \E y \in {1, x} : \A z \in {1, x} : y >= z
      BY <1>2
  <2> QED  BY <1>3, <2>1 DEF Max
<1>6. Reservation \in Nat /\ Reservation <= Budget
    BY <1>1, <1>2, <1>4
<1>7. \A k \in Sizes : k \in Nat /\ k # 0 /\ k <= Reservation /\ k # Oversized
    BY <1>1, <1>6, SizeAssumption DEF Oversized
<1>8. CommittingCapacity \in Int /\ CommittingCapacity <= MaxInFlight
  <2>1. PICK w : w = Max({0, Workers - 1})
      OBVIOUS
  <2>2. w \in Int
    <3>1. \E y \in {0, Workers - 1} : \A z \in {0, Workers - 1} : y >= z
        BY <1>1
    <3> QED  BY <1>1, <2>1, <3>1 DEF Max
  <2>3. \E y \in {MaxInFlight, w} : \A z \in {MaxInFlight, w} : y <= z
      BY <1>1, <2>2
  <2>4. CommittingCapacity = Min({MaxInFlight, w})
      BY <2>1 DEF CommittingCapacity
  <2> QED  BY <1>1, <2>2, <2>3, <2>4 DEF Min
<1> QED  BY <1>1, <1>5, <1>6, <1>7, <1>8 DEF Oversized

-----------------------------------------------------------------------------
(* The inductive invariant *)

Stages == {"none", "queued", "network", "gate", "done"}

Typed ==
    /\ rest \in Seq(Requests) /\ ready \in Seq(Requests)
    /\ prefetched \in Seq(Requests) /\ pending \in Seq(Requests)
    /\ future \in [Requests -> Stages] /\ size \in [Requests -> Sizes \cup {0, Oversized}]
    /\ buffered \in SUBSET Requests /\ settled \in SUBSET Requests
    /\ snapshot \in SUBSET Requests /\ queue \in Seq(Requests \cup {0})

\* No two of the seven places share a request.
Disjoint(A, B, F, P, H, U, S) ==
    /\ A \cap B = {} /\ A \cap F = {} /\ A \cap P = {} /\ A \cap H = {} /\ A \cap U = {}
    /\ A \cap S = {} /\ B \cap F = {} /\ B \cap P = {} /\ B \cap H = {} /\ B \cap U = {}
    /\ B \cap S = {} /\ F \cap P = {} /\ F \cap H = {} /\ F \cap U = {} /\ F \cap S = {}
    /\ P \cap H = {} /\ P \cap U = {} /\ P \cap S = {} /\ H \cap U = {} /\ H \cap S = {}
    /\ U \cap S = {}

Apart ==
    /\ IsInjective(rest) /\ IsInjective(ready)
    /\ IsInjective(prefetched) /\ IsInjective(pending)
    /\ Disjoint(ToSet(rest), ToSet(ready), Futures, ToSet(prefetched), ToSet(pending),
                buffered, settled)

Held == ToSet(rest) \cup ToSet(ready) \cup Futures \cup ToSet(prefetched) \cup ToSet(pending)
          \cup buffered \cup settled

SplitOnes == {q \in settled : Splits(q)}
Wanted == ToSet(Tasks) \cup UNION {ToSet(Halves[q]) : q \in SplitOnes}

\* Only what was received has a size.
Sized ==
    \A r \in Requests : size[r] # 0 =>
        future[r] = "done" \/ r \in ToSet(prefetched) \cup ToSet(pending) \cup buffered \cup settled

\* The pool's queue holds each submitted request once.
Queued ==
    /\ \A i \in DOMAIN queue : queue[i] # 0 => future[queue[i]] = "queued"
    /\ \A i, j \in DOMAIN queue : queue[i] = queue[j] /\ queue[i] # 0 => i = j

\* What the last wait saw may have been prefetched since, and nothing else.
Seen == \A r \in snapshot : future[r] = "done" \/ r \in ToSet(prefetched)

PlaceInv == Typed /\ Apart /\ Held = Wanted /\ Sized /\ Queued /\ Seen

\* Nothing is left to be sent, unless the phase was stopped or starved.
Exhausted == (rest = <<>> \/ stop \/ starved) /\ (ready = <<>> \/ stop)

Committing(next) == at \in {"gate", "write"} /\ after = next

EndInv ==
    /\ at \in {"gate", "write"} => after \in {"collect", "harvest", "end"}
    /\ pending # <<>> => at \in {"harvest", "raised"} \/ Committing("harvest")
    /\ at \in {"loop", "collect"} \/ Committing("collect") =>
         Futures # {} \/ prefetched # <<>> \/ Exhausted
    /\ at = "end" \/ Committing("end") => Futures = {} /\ prefetched = <<>> /\ Exhausted
    /\ at = "end" => buffered = {}

\* The bytes that wait and may still arrive, and those of a batch.
BudgetInv ==
    /\ Weigh(size, ToSet(prefetched) \cup ToSet(pending)) + Cardinality(Futures) * Reservation
         <= Budget
    /\ Weigh(size, buffered) <= Budget
    /\ ~refused

PhaseInv == PlaceInv /\ BudgetInv /\ EndInv /\ left[1] \in Nat

-----------------------------------------------------------------------------
(* Draws *)

\* Requests in flight can be counted.
LEMMA FuturesCount ==
    ASSUME NEW F \in SUBSET Requests
    PROVE  IsFiniteSet(F) /\ Cardinality(F) \in Nat /\ (F = {} <=> Cardinality(F) = 0)
BY RequestAssumption, FS_Subset, FS_CardinalityType, FS_EmptySet

\* A draw parts what is left, and what is claimed of it is nobody else's.
LEMMA DrawMembers ==
    ASSUME Typed, IsInjective(rest), Cardinality(Futures) < MaxInFlight
    PROVE  LET later == SubSeq(rest, Len(Drawn) + 1, Len(rest))
           IN  /\ Claimed \in Seq(Requests) /\ IsInjective(Claimed)
               /\ later \in Seq(Requests) /\ IsInjective(later)
               /\ Drawn \in Seq(Requests)
               /\ ToSet(Claimed) = ToSet(Drawn) \ Taken
               /\ ToSet(Drawn) \cap ToSet(later) = {}
               /\ ToSet(Drawn) \cup ToSet(later) = ToSet(rest)
<1>1. Futures \in SUBSET Requests
    BY DEF Futures
<1>2. PICK n \in Nat : n = Cardinality(Futures) /\ MaxInFlight - n \in Nat
    BY <1>1, FuturesCount, Bounds
<1>3. PICK k \in 0 .. Len(rest) : Drawn = SubSeq(rest, 1, k)
  <2>1. PICK k : k = Min({MaxInFlight - n, Len(rest)})
      OBVIOUS
  <2>2. Len(rest) \in Nat
      BY DEF Typed
  <2>3. \E y \in {MaxInFlight - n, Len(rest)} : \A z \in {MaxInFlight - n, Len(rest)} : y <= z
      BY <1>2, <2>2
  <2>4. k \in 0 .. Len(rest)
      BY <1>2, <2>1, <2>2, <2>3 DEF Min
  <2>5. Drawn = SubSeq(rest, 1, k)
      BY <1>2, <2>1 DEF Drawn
  <2> QED  BY <2>4, <2>5
<1>4. rest \in Seq(Requests)
    BY DEF Typed
<1>5. PICK later : later = SubSeq(rest, k + 1, Len(rest))
    OBVIOUS
<1>6. /\ Drawn \in Seq(Requests) /\ IsInjective(Drawn) /\ Len(Drawn) = k
      /\ later \in Seq(Requests) /\ IsInjective(later)
      /\ ToSet(Drawn) \cap ToSet(later) = {}
      /\ ToSet(Drawn) \cup ToSet(later) = ToSet(rest)
    BY <1>3, <1>4, <1>5, PartedMembers
<1>7. Claimed = Keep(Drawn)
    BY Zenon DEF Claimed, Keep
<1>8. /\ Claimed \in Seq(Requests) /\ IsInjective(Claimed)
      /\ ToSet(Claimed) = ToSet(Drawn) \ Taken
    BY <1>6, <1>7, KeepMembers
<1>9. later = SubSeq(rest, Len(Drawn) + 1, Len(rest))
    BY <1>5, <1>6
<1> QED  BY <1>6, <1>8, <1>9

\* What a draw does: X is sent and D skipped, of what was left or claimed.
Drawing(X, D) ==
    /\ rest' \in Seq(Requests) /\ ready' \in Seq(Requests)
    /\ IsInjective(rest') /\ IsInjective(ready')
    /\ ToSet(rest') \cap ToSet(ready') = {} /\ X \cap ToSet(rest') = {}
    /\ X \cap ToSet(ready') = {} /\ D \cap ToSet(rest') = {} /\ D \cap ToSet(ready') = {}
    /\ X \cap D = {}
    /\ ToSet(rest') \cup ToSet(ready') \cup X \cup D = ToSet(rest) \cup ToSet(ready)
    /\ settled' = settled \cup D

\* Submitting draws what it skips and sends one request.
LEMMA SubmitDraws ==
    ASSUME PlaceInv, NEW capacity, capacity \in Int, capacity <= MaxInFlight, Submit(capacity)
    PROVE  \E x \in Requests : \E D : Drawing({x}, D) /\ Send(x)
<1> USE DEF PlaceInv
<1>1. /\ rest \in Seq(Requests) /\ ready \in Seq(Requests)
      /\ IsInjective(rest) /\ IsInjective(ready) /\ ToSet(rest) \cap ToSet(ready) = {}
      /\ settled \in SUBSET Requests
    BY DEF Typed, Apart, Disjoint
<1>2. CASE ready # <<>> /\ Send(Head(ready)) /\ ready' = Tail(ready) /\ UNCHANGED <<rest, settled>>
  <2>1. PICK x : x = Head(ready)
      OBVIOUS
  <2>2. PICK t : t = Tail(ready) /\ t \in Seq(Requests) /\ IsInjective(t)
                 /\ ToSet(t) = ToSet(ready) \ {x} /\ x \in ToSet(ready) /\ x \in Requests
      BY <1>1, <1>2, <2>1, TailMembers, Members
  <2>3. Drawing({x}, {})
      BY <1>1, <1>2, <2>2 DEF Drawing
  <2> QED  BY <1>2, <2>1, <2>2, <2>3
<1>3. CASE FillReady(Claimed) /\ Claimed # <<>> /\ Send(Head(Claimed)) /\ ready' = Tail(Claimed)
  <2>1. Cardinality(Futures) < MaxInFlight
    <3>1. Cardinality(Futures) < capacity
        BY DEF Submit, Room
    <3>2. Cardinality(Futures) \in Nat
        BY FuturesCount DEF Futures
    <3> QED  BY <3>1, <3>2, Bounds
  <2>2. PICK c, d, l :
          /\ c = Claimed /\ d = ToSet(Drawn) /\ l = SubSeq(rest, Len(Drawn) + 1, Len(rest))
          /\ c \in Seq(Requests) /\ IsInjective(c) /\ l \in Seq(Requests) /\ IsInjective(l)
          /\ ToSet(c) = d \ Taken /\ d \cap ToSet(l) = {} /\ d \cup ToSet(l) = ToSet(rest)
      BY <1>1, <2>1, DrawMembers
  <2>3. PICK x : x = Head(c)
      OBVIOUS
  <2>4. PICK t : t = Tail(c) /\ t \in Seq(Requests) /\ IsInjective(t)
                 /\ ToSet(t) = ToSet(c) \ {x} /\ x \in ToSet(c) /\ x \in Requests
      BY <1>3, <2>2, <2>3, TailMembers, Members
  <2>5. ready = <<>> /\ rest' = l /\ ready' = t /\ settled' = settled \cup (d \cap Taken)
      BY <1>3, <2>2, <2>4 DEF FillReady
  <2>6. ToSet(ready) = {}
      BY <1>1, <2>5, Members
  <2>7. Drawing({x}, d \cap Taken)
      BY <2>2, <2>4, <2>5, <2>6 DEF Drawing
  <2> QED  BY <1>3, <2>2, <2>3, <2>4, <2>7
<1> QED  BY <1>2, <1>3 DEF Submit

\* Finding nothing to submit draws all there is.
LEMMA StarveDraws ==
    ASSUME PlaceInv, NEW capacity, capacity \in Int, capacity <= MaxInFlight, Starve(capacity),
           UNCHANGED ready
    PROVE  ready = <<>> /\ \E D : Drawing({}, D)
<1> USE DEF PlaceInv
<1>1. /\ rest \in Seq(Requests) /\ ready \in Seq(Requests)
      /\ IsInjective(rest) /\ IsInjective(ready)
    BY DEF Typed, Apart
<1>2. Cardinality(Futures) < MaxInFlight
  <2>1. Cardinality(Futures) < capacity
      BY DEF Starve, Room
  <2>2. Cardinality(Futures) \in Nat
      BY FuturesCount DEF Futures
  <2> QED  BY <2>1, <2>2, Bounds
<1>3. PICK d, l :
        /\ d = ToSet(Drawn) /\ l = SubSeq(rest, Len(Drawn) + 1, Len(rest))
        /\ l \in Seq(Requests) /\ IsInjective(l) /\ ToSet(Claimed) = d \ Taken
        /\ d \cap ToSet(l) = {} /\ d \cup ToSet(l) = ToSet(rest)
    BY <1>1, <1>2, DrawMembers
<1>4. Claimed = <<>> /\ ready = <<>> /\ rest' = l /\ settled' = settled \cup (d \cap Taken)
    BY <1>3 DEF Starve, FillReady
<1>5. ToSet(<<>>) = {}
    BY DEF ToSet
<1>6. Drawing({}, d \cap Taken)
    BY <1>1, <1>3, <1>4, <1>5 DEF Drawing
<1> QED  BY <1>4, <1>6

\* A draw moves requests from place to place.
LEMMA DrawKeeps ==
    ASSUME PlaceInv, NEW X, NEW D, Drawing(X, D), Futures' = Futures \cup X,
           \A r \in Requests : future[r] = "done" => future'[r] = "done",
           future' \in [Requests -> Stages], queue' \in Seq(Requests \cup {0}),
           UNCHANGED <<size, prefetched, pending, buffered, snapshot>>
    PROVE  Typed' /\ Apart' /\ (Held = Wanted)' /\ Sized' /\ Seen'
<1> USE DEF PlaceInv
<1>0. PICK A, B, F, P, H, C, E :
        /\ A = ToSet(rest) /\ B = ToSet(ready) /\ F = Futures /\ P = ToSet(prefetched)
        /\ H = ToSet(pending) /\ C = ToSet(rest') /\ E = ToSet(ready')
    OBVIOUS
<1>1. /\ Disjoint(A, B, F, P, H, buffered, settled)
      /\ P = ToSet(prefetched') /\ H = ToSet(pending')
    BY <1>0 DEF Apart
<1>2. /\ C \cap E = {} /\ X \cap C = {} /\ X \cap E = {} /\ D \cap C = {} /\ D \cap E = {}
      /\ X \cap D = {} /\ C \cup E \cup X \cup D = A \cup B /\ settled' = settled \cup D
    BY <1>0 DEF Drawing
<1>3. Disjoint(C, E, F \cup X, P, H, buffered, settled \cup D)
    BY <1>1, <1>2 DEF Disjoint
<1>4. Apart'
    BY <1>0, <1>1, <1>2, <1>3 DEF Apart, Drawing
<1>5. D \subseteq Requests
  <2>1. A \subseteq Requests /\ B \subseteq Requests
      BY <1>0, Members DEF Typed
  <2> QED  BY <1>2, <2>1
<1>6. Typed'
    BY <1>2, <1>5 DEF Typed, Drawing
<1>7. \A q \in D : ~Splits(q)
  <2> SUFFICES ASSUME NEW q \in D PROVE size[q] = 0
      BY Bounds DEF Splits
  <2>1. q \in A \cup B /\ q \in Requests
      BY <1>2, <1>5
  <2>2. q \notin F /\ q \notin P /\ q \notin H /\ q \notin buffered /\ q \notin settled
      BY <1>1, <2>1 DEF Disjoint
  <2>3. future[q] # "done"
      BY <1>0, <2>1, <2>2 DEF Futures
  <2> QED  BY <1>0, <2>1, <2>2, <2>3 DEF Sized
<1>8. SplitOnes' = SplitOnes
    BY <1>2, <1>7 DEF SplitOnes, Splits
<1>9. Wanted' = Wanted
    BY <1>8 DEF Wanted
<1>10. Held' = Held
  <2>1. Held = A \cup B \cup F \cup P \cup H \cup buffered \cup settled
      BY <1>0 DEF Held
  <2>2. Held' = C \cup E \cup (F \cup X) \cup P \cup H \cup buffered \cup (settled \cup D)
      BY <1>0, <1>1, <1>2 DEF Held
  <2> QED  BY <1>2, <2>1, <2>2
<1>11. Sized'
    BY <1>2 DEF Sized, Typed
<1>12. Seen'
    BY DEF Seen, Typed
<1> QED  BY <1>4, <1>6, <1>9, <1>10, <1>11, <1>12

-----------------------------------------------------------------------------
(* The steps of the phase *)

\* Steps that move no request.
LEMMA StillPlaces ==
    ASSUME PlaceInv,
           UNCHANGED <<source, future, size, results, buffered, settled, queue, snapshot>>
    PROVE  PlaceInv'
<1>1. /\ UNCHANGED <<rest, ready, future, size, prefetched, pending, buffered, settled>>
      /\ UNCHANGED <<queue, snapshot>>
    BY DEF source, results
<1>2. Futures' = Futures
    BY <1>1 DEF Futures
<1>3. SplitOnes' = SplitOnes
    BY <1>1 DEF SplitOnes, Splits
<1>4. Wanted' = Wanted /\ Held' = Held
    BY <1>1, <1>2, <1>3 DEF Wanted, Held
<1>5. Apart'
    BY <1>1, <1>2 DEF PlaceInv, Apart
<1>6. Typed'
    BY <1>1 DEF PlaceInv, Typed
<1>7. Sized' /\ Queued' /\ Seen'
    BY <1>1 DEF PlaceInv, Sized, Queued, Seen
<1> QED  BY <1>4, <1>5, <1>6, <1>7 DEF PlaceInv

\* The bounds stand while nothing weighed changes.
LEMMA StillBudget ==
    ASSUME BudgetInv, UNCHANGED <<future, size, results, buffered, refused>>
    PROVE  BudgetInv'
<1>1. UNCHANGED <<future, size, prefetched, pending, buffered, refused>> /\ Futures' = Futures
    BY DEF results, Futures
<1> QED  BY <1>1 DEF BudgetInv

\* Of what is typed: the places are sets of requests, and sizes are numbers.
LEMMA PlaceSets ==
    ASSUME Typed
    PROVE  /\ Futures \in SUBSET Requests /\ Futures = {r \in Requests : future[r] # "none"}
           /\ ToSet(rest) \in SUBSET Requests /\ ToSet(ready) \in SUBSET Requests
           /\ ToSet(prefetched) \in SUBSET Requests /\ ToSet(pending) \in SUBSET Requests
           /\ size \in [Requests -> Nat]
           /\ \A r \in Requests : future[r] \in Stages /\ size[r] \in Sizes \cup {0, Oversized}
<1>1. size \in [Requests -> Nat]
    BY Bounds DEF Typed
<1>2. /\ ToSet(rest) \in SUBSET Requests /\ ToSet(ready) \in SUBSET Requests
      /\ ToSet(prefetched) \in SUBSET Requests /\ ToSet(pending) \in SUBSET Requests
    BY Members DEF Typed
<1> QED  BY <1>1, <1>2 DEF Typed, Futures

\* A submitted request moves in flight, with its reservation.
LEMMA SubmitKeeps ==
    ASSUME PlaceInv, BudgetInv, NEW capacity, capacity \in Int, capacity <= MaxInFlight,
           Submit(capacity), UNCHANGED <<size, results, buffered, snapshot, refused>>
    PROVE  PlaceInv' /\ BudgetInv' /\ Futures' # {}
<1>0. /\ Typed /\ Apart /\ Queued
      /\ UNCHANGED <<size, prefetched, pending, buffered, snapshot, refused>>
    BY DEF PlaceInv, results
<1>10. PICK x \in Requests : \E D : Drawing({x}, D) /\ Send(x)
    BY SubmitDraws
<1>1. PICK D : Drawing({x}, D) /\ Send(x)
    BY <1>10
<1>2. PICK F, P, H : /\ F = Futures /\ P = ToSet(prefetched) /\ H = ToSet(pending)
                     /\ F \in SUBSET Requests /\ P \in SUBSET Requests /\ H \in SUBSET Requests
    BY <1>0, PlaceSets
<1>3. x \notin F /\ future[x] = "none" /\ P \cap H = {}
  <2>1. x \in ToSet(rest) \cup ToSet(ready)
      BY <1>1 DEF Drawing
  <2> QED  BY <1>0, <1>2, <2>1, PlaceSets DEF Apart, Disjoint
<1>4. /\ queue \in Seq(Requests \cup {0}) /\ future \in [Requests -> Stages]
      /\ future' = [future EXCEPT ![x] = "queued"] /\ queue' = Append(queue, x)
    BY <1>0, <1>1 DEF Send, Typed
<1>5. /\ future' \in [Requests -> Stages] /\ queue' \in Seq(Requests \cup {0})
      /\ future'[x] = "queued" /\ \A r \in Requests : r # x => future'[r] = future[r]
    BY <1>4 DEF Stages
<1>6. Futures' = F \cup {x}
    BY <1>2, <1>5 DEF Futures
<1>7. Typed' /\ Apart' /\ (Held = Wanted)' /\ Sized' /\ Seen'
  <2>1. \A r \in Requests : future[r] = "done" => future'[r] = "done"
      BY <1>3, <1>5
  <2> QED  BY <1>0, <1>1, <1>2, <1>5, <1>6, <2>1, DrawKeeps
<1>8. Queued'
  <2>1. PICK n \in Nat : /\ n = Len(queue) /\ DOMAIN queue = 1 .. n
                         /\ DOMAIN queue' = 1 .. n + 1 /\ queue'[n + 1] = x
                         /\ \A i \in 1 .. n : queue'[i] = queue[i] /\ queue[i] \in Requests \cup {0}
      BY <1>4
  <2>2. \A i \in 1 .. n : queue[i] # 0 => queue[i] \in Requests /\ queue[i] # x
                                         /\ future'[queue[i]] = "queued"
      BY <1>0, <1>3, <1>5, <2>1 DEF Queued
  <2>3. x # 0 /\ \A i \in 1 .. n + 1 : i \in 1 .. n \/ i = n + 1
      BY <2>1, RequestAssumption
  <2>4. \A i \in DOMAIN queue' : queue'[i] # 0 => future'[queue'[i]] = "queued"
      BY <1>5, <2>1, <2>2, <2>3
  <2>5. ASSUME NEW i \in 1 .. n + 1, NEW j \in 1 .. n + 1, queue'[i] = queue'[j], queue'[i] # 0
        PROVE  i = j
    <3>1. CASE i \in 1 .. n /\ j \in 1 .. n
        BY <1>0, <2>1, <2>5, <3>1 DEF Queued
    <3>2. CASE ~(i \in 1 .. n /\ j \in 1 .. n)
        BY <2>1, <2>2, <2>3, <2>5, <3>2
    <3> QED  BY <3>1, <3>2
  <2> QED  BY <2>1, <2>4, <2>5 DEF Queued
<1>9. BudgetInv'
  <2>1. size \in [Requests -> Nat]
      BY <1>0, PlaceSets
  <2>2. PICK b \in Nat, c \in Nat : b = Weigh(size, P) /\ c = Weigh(size, H)
                                    /\ Weigh(size, P \cup H) = b + c
      BY <1>2, <1>3, <2>1, WeighUnion, WeighType
  <2>3. PICK k \in Nat : k = Cardinality(F) /\ Cardinality(F \cup {x}) = k + 1
    <3>1. IsFiniteSet(F) /\ Cardinality(F) \in Nat
        BY <1>2, FuturesCount
    <3> QED  BY <1>3, <3>1, FS_AddElement
  <2>4. b + c + (k + 1) * Reservation <= Budget
      BY <1>2, <2>2, <2>3, BytesWeigh DEF Submit, Room
  <2>5. Weigh(size', ToSet(prefetched') \cup ToSet(pending')) = b + c
      BY <1>0, <1>2, <2>2
  <2>6. (b + c) + Cardinality(Futures') * Reservation <= Budget
      BY <1>6, <2>3, <2>4
  <2> QED  BY <1>0, <2>5, <2>6 DEF BudgetInv
<1> QED  BY <1>0, <1>6, <1>7, <1>8, <1>9 DEF PlaceInv

\* Drawing everything sends nothing.
LEMMA StarveKeeps ==
    ASSUME PlaceInv, BudgetInv, NEW capacity, capacity \in Int, capacity <= MaxInFlight,
           Starve(capacity),
           UNCHANGED <<ready, future, size, results, buffered, queue, snapshot, refused>>
    PROVE  PlaceInv' /\ BudgetInv' /\ Futures' = Futures /\ ready = <<>>
<1>0. /\ UNCHANGED <<ready, future, size, prefetched, pending, buffered, queue, snapshot, refused>>
      /\ Futures' = Futures
    BY DEF results, Futures
<1>1. ready = <<>> /\ \E D : Drawing({}, D)
    BY <1>0, StarveDraws
<1>2. PICK D : Drawing({}, D)
    BY <1>1
<1>3. PICK X : X = {} /\ Drawing(X, D) /\ Futures' = Futures \cup X
    BY <1>0, <1>2
<1>4. /\ \A r \in Requests : future[r] = "done" => future'[r] = "done"
      /\ future' \in [Requests -> Stages] /\ queue' \in Seq(Requests \cup {0})
    BY <1>0 DEF PlaceInv, Typed
<1>5. Typed' /\ Apart' /\ (Held = Wanted)' /\ Sized' /\ Seen'
    BY <1>0, <1>3, <1>4, DrawKeeps
<1>6. Queued'
    BY <1>0 DEF PlaceInv, Queued
<1>7. BudgetInv'
    BY StillBudget
<1> QED  BY <1>0, <1>1, <1>5, <1>6, <1>7 DEF PlaceInv

\* An enumeration of a set has each member once.
LEMMA Enumerated ==
    ASSUME NEW C \in SUBSET Requests, NEW s \in SetToSeqs(C)
    PROVE  s \in Seq(Requests) /\ IsInjective(s) /\ ToSet(s) = C
<1>1. PICK n \in Nat : n = Cardinality(C) /\ IsFiniteSet(C)
    BY FuturesCount
<1>2. s \in [1 .. n -> C] /\ \A i, j \in 1 .. n : i # j => s[i] # s[j]
    BY <1>1 DEF SetToSeqs
<1>3. s \in Seq(Requests)
  <2>1. s \in [1 .. n -> Requests]
      BY <1>2
  <2> QED  BY <1>1, <2>1, IsASeq
<1>4. DOMAIN s = 1 .. n
    BY <1>2
<1>5. IsInjective(s)
    BY <1>2, <1>4 DEF IsInjective
<1>6. ASSUME NEW x \in C PROVE \E i \in 1 .. n : s[i] = x
  <2> SUFFICES ASSUME \A i \in 1 .. n : s[i] # x PROVE FALSE
      OBVIOUS
  <2>1. PICK T : T = C \ {x}
      OBVIOUS
  <2>2. IsFiniteSet(T) /\ Cardinality(T) = n - 1
      BY <1>1, <1>6, <2>1, FS_RemoveElement
  <2>3. IsFiniteSet(1 .. n) /\ Cardinality(1 .. n) = n
    <3>1. 1 \in Int /\ n \in Int
        BY <1>1
    <3>2. IsFiniteSet(1 .. n) /\ Cardinality(1 .. n) = IF 1 > n THEN 0 ELSE n - 1 + 1
        BY <3>1, FS_Interval
    <3> QED  BY <1>1, <3>2
  <2>4. s \in [1 .. n -> T]
      BY <1>2, <2>1
  <2>5. Cardinality(T) < Cardinality(1 .. n)
      BY <1>1, <2>2, <2>3
  <2>6. PICK D : D = 1 .. n
      OBVIOUS
  <2>7. \E i, j \in D : i # j /\ s[i] = s[j]
      BY <2>2, <2>3, <2>4, <2>5, <2>6, FS_PigeonHole
  <2> QED  BY <1>2, <2>6, <2>7
<1>7. ToSet(s) = C
    BY <1>2, <1>4, <1>6 DEF ToSet
<1> QED  BY <1>3, <1>5, <1>7

\* A collected response moves from flight or prefetch into hand.
LEMMA CollectKeeps ==
    ASSUME PhaseInv, Collect
    PROVE  PlaceInv' /\ BudgetInv'
<1>0. /\ PlaceInv /\ BudgetInv /\ Typed /\ Apart /\ Queued /\ Seen /\ Sized
      /\ UNCHANGED <<rest, ready, size, buffered, settled, queue, refused>>
      /\ pending = <<>> /\ prefetched' = <<>> /\ snapshot' = {}
    BY DEF PhaseInv, PlaceInv, EndInv, Collect, Committing, source, pool, ends
<1>1. PICK s \in SetToSeqs(Consumable) : pending' = prefetched \o s
    BY DEF Collect
<1>2. PICK F, P, C : /\ F = Futures /\ P = ToSet(prefetched) /\ C = Consumable
                     /\ F \in SUBSET Requests /\ P \in SUBSET Requests /\ C \subseteq F
                     /\ C \in SUBSET Requests /\ C \subseteq snapshot
  <2>1. Futures \in SUBSET Requests /\ ToSet(prefetched) \in SUBSET Requests
      BY <1>0, PlaceSets
  <2>2. /\ Consumable \subseteq Futures /\ Consumable \in SUBSET Requests
        /\ Consumable \subseteq snapshot
      BY <2>1 DEF Consumable
  <2> QED  BY <2>1, <2>2
<1>3. s \in Seq(Requests) /\ IsInjective(s) /\ ToSet(s) = C
    BY <1>1, <1>2, Enumerated
<1>4. ToSet(<<>>) = {} /\ IsInjective(<<>>) /\ <<>> \in Seq(Requests)
    BY DEF ToSet, IsInjective
<1>5. Disjoint(ToSet(rest), ToSet(ready), F, P, {}, buffered, settled)
    BY <1>0, <1>2, <1>4 DEF Apart
<1>6. P \cap C = {}
    BY <1>2, <1>5 DEF Disjoint
<1>7. pending' \in Seq(Requests) /\ IsInjective(pending') /\ ToSet(pending') = P \cup C
  <2>1. prefetched \in Seq(Requests) /\ IsInjective(prefetched)
      BY <1>0 DEF Typed, Apart
  <2> QED  BY <1>1, <1>2, <1>3, <1>6, <2>1, ConcatMembers
<1>8. /\ future' = [r \in Requests |-> IF r \in C THEN "none" ELSE future[r]]
      /\ future \in [Requests -> Stages]
    BY <1>0, <1>2 DEF Collect, Typed
<1>9. future' \in [Requests -> Stages] /\ Futures' = F \ C
    BY <1>2, <1>8 DEF Futures, Stages
<1>10. Typed'
    BY <1>0, <1>4, <1>7, <1>9 DEF Typed
<1>11. Apart'
  <2>1. Disjoint(ToSet(rest), ToSet(ready), F \ C, {}, P \cup C, buffered, settled)
      BY <1>2, <1>5, <1>6 DEF Disjoint
  <2> QED  BY <1>0, <1>4, <1>7, <1>9, <2>1 DEF Apart
<1>12. SplitOnes' = SplitOnes /\ Wanted' = Wanted
    BY <1>0 DEF SplitOnes, Splits, Wanted
<1>13. Held' = Held
  <2>1. Held = ToSet(rest) \cup ToSet(ready) \cup F \cup P \cup {} \cup buffered \cup settled
      BY <1>0, <1>2, <1>4 DEF Held
  <2>2. Held' = ToSet(rest) \cup ToSet(ready) \cup (F \ C) \cup {} \cup (P \cup C)
                  \cup buffered \cup settled
      BY <1>0, <1>4, <1>7, <1>9 DEF Held
  <2> QED  BY <1>2, <2>1, <2>2
<1>14. Sized'
  <2> SUFFICES ASSUME NEW r \in Requests, size[r] # 0
               PROVE  \/ future'[r] = "done"
                      \/ r \in {} \cup (P \cup C) \cup buffered \cup settled
      BY <1>0, <1>4, <1>7 DEF Sized
  <2>1. future[r] = "done" \/ r \in P \cup {} \cup buffered \cup settled
      BY <1>0, <1>2, <1>4 DEF Sized
  <2> QED  BY <1>8, <2>1
<1>15. \A r \in C : future[r] = "done"
    BY <1>0, <1>2, <1>5 DEF Seen, Disjoint
<1>16. Queued'
  <2>1. \A i \in DOMAIN queue : queue[i] \in Requests \cup {0}
      BY <1>0, ElementOfSeq, LenProperties DEF Typed
  <2>2. \A r \in Requests : future[r] = "queued" => future'[r] = "queued"
      BY <1>8, <1>15
  <2> QED  BY <1>0, <2>1, <2>2 DEF Queued
<1>17. BudgetInv'
  <2>1. size \in [Requests -> Nat]
      BY <1>0, PlaceSets
  <2>2. \A r \in C : Weight(size, r) <= Reservation
    <3>1. \A r \in Requests : size[r] \in Sizes \cup {0, Oversized}
        BY <1>0, PlaceSets
    <3> QED  BY <1>2, <3>1, Bounds DEF Weight
  <2>3. PICK b \in Nat, c \in Nat :
          /\ b = Weigh(size, P) /\ c = Weigh(size, C) /\ Weigh(size, P \cup C) = b + c
          /\ Weigh(size, P \cup {}) = b
      BY <1>2, <1>6, <2>1, WeighUnion, WeighType
  <2>4. Reservation \in Nat /\ Budget \in Nat
      BY Bounds
  <2>5. PICK k \in Nat : k = Cardinality(C) /\ c <= k * Reservation /\ IsFiniteSet(C)
      BY <1>2, <2>1, <2>2, <2>3, <2>4, WeighBound
  <2>6. PICK m \in Nat : m = Cardinality(F \ C) /\ Cardinality(F) = m + k
    <3>1. IsFiniteSet(F) /\ Cardinality(F) \in Nat
        BY <1>2, FuturesCount
    <3>2. F \cap C = C /\ F \ C \in SUBSET Requests
        BY <1>2
    <3>3. Cardinality(F \ C) = Cardinality(F) - Cardinality(F \cap C)
        BY <3>1, FS_Difference
    <3>4. Cardinality(F \ C) \in Nat
        BY <3>2, FuturesCount
    <3>5. PICK m \in Nat : m = Cardinality(F \ C)
        BY <3>4
    <3>6. Cardinality(F \cap C) = k
        BY <2>5, <3>2
    <3>7. Cardinality(F) = m + k
        BY <3>1, <3>3, <3>5, <3>6
    <3> QED  BY <3>5, <3>7
  <2>7. b + (m + k) * Reservation <= Budget
    <3>1. Weigh(size, P \cup {}) + Cardinality(F) * Reservation <= Budget
        BY <1>0, <1>2, <1>4 DEF BudgetInv
    <3> QED  BY <2>3, <2>6, <3>1
  <2>8. (m + k) * Reservation = m * Reservation + k * Reservation
        /\ m * Reservation \in Nat /\ k * Reservation \in Nat
      BY <2>4
  <2>9. (b + c) + m * Reservation <= Budget
    <3>1. PICK mr \in Nat, kr \in Nat : mr = m * Reservation /\ kr = k * Reservation
        BY <2>8
    <3> QED  BY <2>4, <2>5, <2>7, <2>8, <3>1
  <2>10. Weigh(size', ToSet(prefetched') \cup ToSet(pending')) = b + c
    <3>1. {} \cup (P \cup C) = P \cup C
        OBVIOUS
    <3> QED  BY <1>0, <1>4, <1>7, <2>3, <3>1
  <2> QED  BY <1>0, <1>9, <2>6, <2>9, <2>10 DEF BudgetInv
<1> QED  BY <1>10, <1>11, <1>12, <1>13, <1>14, <1>16, <1>17, <1>0 DEF PlaceInv, Seen

\* The response in hand waits for its turn and has no other place.
LEMMA InHandMember ==
    ASSUME PlaceInv, pending # <<>>
    PROVE  /\ InHand \in Requests /\ InHand \in ToSet(pending)
           /\ Tail(pending) \in Seq(Requests) /\ IsInjective(Tail(pending))
           /\ ToSet(Tail(pending)) = ToSet(pending) \ {InHand}
           /\ InHand \notin settled /\ InHand \notin buffered /\ InHand \notin ToSet(prefetched)
<1>1. pending \in Seq(Requests) /\ IsInjective(pending)
    BY DEF PlaceInv, Typed, Apart
<1>2. /\ InHand \in ToSet(pending) /\ ToSet(pending) \subseteq Requests
      /\ Tail(pending) \in Seq(Requests) /\ IsInjective(Tail(pending))
      /\ ToSet(Tail(pending)) = ToSet(pending) \ {InHand}
    BY <1>1, TailMembers, Members DEF InHand
<1> QED  BY <1>2 DEF PlaceInv, Apart, Disjoint

\* One response less leaves room.
LEMMA LessInHand ==
    ASSUME PlaceInv, BudgetInv, pending # <<>>, pending' = Tail(pending),
           UNCHANGED <<size, prefetched, future, refused>>,
           Weigh(size, buffered') <= Budget
    PROVE  BudgetInv'
<1>1. PICK x, P, H : /\ x = InHand /\ P = ToSet(prefetched) /\ H = ToSet(pending)
                     /\ x \in Requests /\ x \in H /\ x \notin P /\ ToSet(pending') = H \ {x}
    BY InHandMember
<1>2. P \in SUBSET Requests /\ H \in SUBSET Requests /\ size \in [Requests -> Nat]
    BY <1>1, PlaceSets DEF PlaceInv
<1>3. PICK S : S = P \cup H /\ S \in SUBSET Requests /\ x \in S /\ S \ {x} = P \cup (H \ {x})
  <2>1. P \cup H \in SUBSET Requests /\ x \in P \cup H
      BY <1>1, <1>2
  <2>2. (P \cup H) \ {x} = P \cup (H \ {x})
      BY <1>1
  <2> QED  BY <2>1, <2>2, Zenon
<1>4. Weigh(size, S) = Weight(size, x) + Weigh(size, S \ {x})
    BY <1>2, <1>3, WeighOne
<1>5. Weight(size, x) \in Nat /\ Weigh(size, S \ {x}) \in Nat
    BY <1>1, <1>2, <1>3, WeighType DEF Weight
<1>6. PICK k \in Nat : k = Cardinality(Futures) * Reservation
  <2>1. Futures \in SUBSET Requests
      BY DEF Futures
  <2> QED  BY <2>1, FuturesCount, Bounds
<1>7. Futures' = Futures
    BY DEF Futures
<1>8. Weigh(size, S) + k <= Budget
    BY <1>1, <1>3, <1>6 DEF BudgetInv
<1>9. Weigh(size, S \ {x}) + k <= Budget
    BY <1>4, <1>5, <1>8, Bounds
<1>10. Weigh(size', ToSet(prefetched') \cup ToSet(pending')) = Weigh(size, S \ {x})
    BY <1>1, <1>3
<1> QED  BY <1>6, <1>7, <1>9, <1>10 DEF BudgetInv

\* A split request is replaced by its two halves.
LEMMA SplitKeeps ==
    ASSUME PhaseInv, SplitRange
    PROVE  PlaceInv' /\ BudgetInv'
<1>0. /\ PlaceInv /\ BudgetInv /\ Typed /\ Apart /\ Queued /\ Seen /\ Sized /\ Held = Wanted
      /\ UNCHANGED <<rest, future, size, prefetched, buffered, queue, snapshot, refused>>
      /\ pending # <<>> /\ pending' = Tail(pending) /\ Futures' = Futures
    BY DEF PhaseInv, PlaceInv, SplitRange, pool, ends, Futures
<1>1. PICK x, P, H, B, h :
        /\ x = InHand /\ P = ToSet(prefetched) /\ H = ToSet(pending) /\ B = ToSet(ready)
        /\ h = ToSet(Halves[x]) /\ x \in Requests /\ x \in H /\ x \notin settled
        /\ ToSet(pending') = H \ {x} /\ pending' \in Seq(Requests) /\ IsInjective(pending')
    BY <1>0, InHandMember
<1>2. /\ Splits(x) /\ settled' = settled \cup {x} /\ ready' = Halves[x] \o ready
    BY <1>1 DEF SplitRange
<1>3. /\ Halves[x] \in Seq(Requests) /\ IsInjective(Halves[x]) /\ h \cap ToSet(Tasks) = {}
      /\ \A q \in Requests : q # x => h \cap ToSet(Halves[q]) = {}
    BY <1>1, SchedulerAssumption, RequestAssumption
<1>4. SplitOnes' = SplitOnes \cup {x} /\ x \notin SplitOnes /\ SplitOnes \in SUBSET Requests
    BY <1>0, <1>1, <1>2 DEF SplitOnes, Splits, Typed
<1>5. Wanted' = Wanted \cup h
    BY <1>1, <1>4 DEF Wanted
<1>6. h \cap Wanted = {}
    BY <1>3, <1>4 DEF Wanted
<1>7. Held = ToSet(rest) \cup B \cup Futures \cup P \cup H \cup buffered \cup settled
    BY <1>1 DEF Held
<1>8. Disjoint(ToSet(rest), B, Futures, P, H, buffered, settled)
    BY <1>0, <1>1 DEF Apart
<1>9. ready' \in Seq(Requests) /\ IsInjective(ready') /\ ToSet(ready') = h \cup B
  <2>1. h \cap B = {}
      BY <1>0, <1>6, <1>7
  <2>2. ready \in Seq(Requests) /\ IsInjective(ready)
      BY <1>0 DEF Typed, Apart
  <2>3. PICK t : t = Halves[x]
      OBVIOUS
  <2>4. t \in Seq(Requests) /\ IsInjective(t) /\ ToSet(t) \cap ToSet(ready) = {}
      BY <1>1, <1>3, <2>1, <2>3
  <2> QED  BY <1>1, <1>2, <2>2, <2>3, <2>4, ConcatMembers
<1>10. Disjoint(ToSet(rest), h \cup B, Futures, P, H \ {x}, buffered, settled \cup {x})
  <2>1. /\ h \cap ToSet(rest) = {} /\ h \cap Futures = {} /\ h \cap P = {} /\ h \cap H = {}
        /\ h \cap buffered = {} /\ h \cap settled = {}
      BY <1>0, <1>6, <1>7
  <2> QED  BY <1>1, <1>8, <2>1 DEF Disjoint
<1>11. Apart'
    BY <1>0, <1>1, <1>2, <1>9, <1>10 DEF Apart
<1>12. Typed'
    BY <1>0, <1>1, <1>2, <1>9 DEF Typed
<1>13. Held' = Held \cup h
  <2>1. Held' = ToSet(rest) \cup (h \cup B) \cup Futures \cup P \cup (H \ {x})
                  \cup buffered \cup (settled \cup {x})
      BY <1>0, <1>1, <1>2, <1>9 DEF Held
  <2> QED  BY <1>1, <1>7, <2>1
<1>14. Sized'
  <2> SUFFICES ASSUME NEW r \in Requests, size[r] # 0
               PROVE  \/ future[r] = "done"
                      \/ r \in P \cup (H \ {x}) \cup buffered \cup (settled \cup {x})
      BY <1>0, <1>1, <1>2 DEF Sized
  <2> QED  BY <1>0, <1>1 DEF Sized
<1>15. Queued' /\ Seen'
    BY <1>0 DEF Queued, Seen
<1>16. BudgetInv'
  <2>1. Weigh(size, buffered') <= Budget
      BY <1>0 DEF BudgetInv
  <2> QED  BY <1>0, <2>1, LessInHand
<1> QED  BY <1>0, <1>5, <1>11, <1>12, <1>13, <1>14, <1>15, <1>16 DEF PlaceInv

\* A harvested response moves to the buffer or is settled.
LEMMA HarvestKeeps ==
    ASSUME PhaseInv, Harvest
    PROVE  PlaceInv' /\ BudgetInv'
<1>0. /\ PlaceInv /\ BudgetInv /\ Typed /\ Apart /\ Queued /\ Seen /\ Sized /\ Held = Wanted
      /\ UNCHANGED <<rest, ready, future, size, prefetched, queue, snapshot, refused>>
      /\ pending # <<>> /\ pending' = Tail(pending) /\ Futures' = Futures
    BY DEF PhaseInv, PlaceInv, Harvest, source, pool, ends, Futures
<1>1. PICK x, P, H :
        /\ x = InHand /\ P = ToSet(prefetched) /\ H = ToSet(pending)
        /\ x \in Requests /\ x \in H /\ x \notin settled /\ x \notin buffered
        /\ ToSet(pending') = H \ {x} /\ pending' \in Seq(Requests) /\ IsInjective(pending')
    BY <1>0, InHandMember
<1>2. PICK U, S : /\ U = buffered' /\ S = settled'
                  /\ \/ U = buffered \cup {x} /\ S = settled
                     \/ U = buffered /\ S = settled \cup {x}
    BY <1>1 DEF Harvest
<1>3. ~Splits(x) /\ ~(Weigh(size, buffered \cup {x}) > Budget)
    BY <1>1, BytesWeigh DEF Harvest, Overflows
<1>4. Disjoint(ToSet(rest), ToSet(ready), Futures, P, H, buffered, settled)
    BY <1>0, <1>1 DEF Apart
<1>5. Disjoint(ToSet(rest), ToSet(ready), Futures, P, H \ {x}, U, S)
    BY <1>1, <1>2, <1>4 DEF Disjoint
<1>6. Apart'
    BY <1>0, <1>1, <1>2, <1>5 DEF Apart
<1>7. Typed'
    BY <1>0, <1>1, <1>2 DEF Typed
<1>8. SplitOnes' = SplitOnes
    BY <1>0, <1>2, <1>3 DEF SplitOnes, Splits
<1>9. Wanted' = Wanted
    BY <1>8 DEF Wanted
<1>10. Held' = Held
  <2>1. Held = ToSet(rest) \cup ToSet(ready) \cup Futures \cup P \cup H \cup buffered \cup settled
      BY <1>1 DEF Held
  <2>2. Held' = ToSet(rest) \cup ToSet(ready) \cup Futures \cup P \cup (H \ {x}) \cup U \cup S
      BY <1>0, <1>1, <1>2 DEF Held
  <2> QED  BY <1>1, <1>2, <2>1, <2>2
<1>11. Sized'
  <2> SUFFICES ASSUME NEW r \in Requests, size[r] # 0
               PROVE  future[r] = "done" \/ r \in P \cup (H \ {x}) \cup U \cup S
      BY <1>0, <1>1, <1>2 DEF Sized
  <2> QED  BY <1>0, <1>1, <1>2 DEF Sized
<1>12. Queued' /\ Seen'
    BY <1>0 DEF Queued, Seen
<1>13. Weigh(size, buffered') <= Budget
  <2>1. Weigh(size, buffered) <= Budget
      BY <1>0 DEF BudgetInv
  <2>2. Weigh(size, buffered \cup {x}) <= Budget
    <3>1. (buffered \cup {x}) \in SUBSET Requests /\ size \in [Requests -> Nat]
        BY <1>0, <1>1, PlaceSets DEF Typed
    <3>2. Weigh(size, buffered \cup {x}) \in Nat
        BY <3>1, WeighType
    <3> QED  BY <1>3, <3>2, Bounds
  <2> QED  BY <1>2, <2>1, <2>2
<1>14. BudgetInv'
    BY <1>0, <1>13, LessInHand
<1> QED  BY <1>0, <1>6, <1>7, <1>9, <1>10, <1>11, <1>12, <1>14 DEF PlaceInv

\* A commit that ends, however it does, settles its batch.
LEMMA ClearKeeps ==
    ASSUME PlaceInv, BudgetInv, ClearBuffer
    PROVE  PlaceInv' /\ BudgetInv'
<1>0. /\ Typed /\ Apart /\ Queued /\ Seen /\ Sized /\ Held = Wanted
      /\ UNCHANGED <<rest, ready, future, prefetched, pending, queue, snapshot, refused>>
      /\ Futures' = Futures /\ settled' = settled \cup buffered /\ buffered' = {}
      /\ size' = [r \in Requests |-> IF r \in buffered THEN 0 ELSE size[r]]
    BY DEF PlaceInv, ClearBuffer, source, results, pool, ends, Futures
<1>1. PICK P, H : /\ P = ToSet(prefetched) /\ H = ToSet(pending)
                  /\ P \in SUBSET Requests /\ H \in SUBSET Requests
    BY <1>0, PlaceSets
<1>2. Disjoint(ToSet(rest), ToSet(ready), Futures, P, H, buffered, settled)
    BY <1>0, <1>1 DEF Apart
<1>3. Disjoint(ToSet(rest), ToSet(ready), Futures, P, H, {}, settled \cup buffered)
    BY <1>2 DEF Disjoint
<1>4. Apart'
    BY <1>0, <1>1, <1>3 DEF Apart
<1>5. /\ size' \in [Requests -> Sizes \cup {0, Oversized}] /\ buffered \in SUBSET Requests
      /\ settled \in SUBSET Requests
    BY <1>0 DEF Typed
<1>6. Typed'
    BY <1>0, <1>5 DEF Typed
<1>7. SplitOnes' = SplitOnes
  <2>1. \A q \in Requests : q \in buffered => ~Splits(q)'
      BY <1>0, Bounds DEF Splits
  <2>2. \A q \in Requests : q \notin buffered => size'[q] = size[q]
      BY <1>0
  <2>3. \A q \in settled : q \in Requests /\ q \notin buffered
      BY <1>2, <1>5 DEF Disjoint
  <2>4. \A q \in settled : Splits(q)' <=> Splits(q)
      BY <2>2, <2>3 DEF Splits
  <2> QED  BY <1>0, <1>5, <2>1, <2>4 DEF SplitOnes
<1>8. Wanted' = Wanted
    BY <1>7 DEF Wanted
<1>9. Held' = Held
  <2>1. Held = ToSet(rest) \cup ToSet(ready) \cup Futures \cup P \cup H \cup buffered \cup settled
      BY <1>1 DEF Held
  <2>2. Held' = ToSet(rest) \cup ToSet(ready) \cup Futures \cup P \cup H \cup {}
                  \cup (settled \cup buffered)
      BY <1>0, <1>1 DEF Held
  <2> QED  BY <2>1, <2>2
<1>10. Sized'
    BY <1>0 DEF Sized
<1>11. Queued' /\ Seen'
    BY <1>0 DEF Queued, Seen
<1>12. BudgetInv'
  <2>1. size \in [Requests -> Nat]
      BY <1>0, PlaceSets
  <2>2. size' \in [Requests -> Nat]
      BY <1>5, Bounds
  <2>3. (P \cup H) \in SUBSET Requests /\ \A r \in P \cup H : size[r] = size'[r]
      BY <1>0, <1>1, <1>2 DEF Disjoint
  <2>4. PICK S, z : S = P \cup H /\ z = size'
      OBVIOUS
  <2>5. Weigh(z, S) = Weigh(size, S)
      BY <2>1, <2>2, <2>3, <2>4, WeighAgree
  <2>6. Weigh(z, {}) = 0
    <3>1. PICK E \in SUBSET Requests : E = {}
        OBVIOUS
    <3> QED  BY <2>2, <2>4, <3>1, WeighType
  <2>7. Weigh(size', ToSet(prefetched') \cup ToSet(pending')) = Weigh(size, P \cup H)
      BY <1>0, <1>1, <2>4, <2>5
  <2>8. Weigh(size', buffered') = 0
      BY <1>0, <2>4, <2>6
  <2> QED  BY <1>0, <1>1, <2>7, <2>8, Bounds DEF BudgetInv
<1> QED  BY <1>0, <1>4, <1>6, <1>8, <1>9, <1>10, <1>11, <1>12 DEF PlaceInv

\* The pump of a commit: there is always room for a response that was reserved.
LEMMA PrefetchKeeps ==
    ASSUME PlaceInv, BudgetInv, NEW x \in Requests, Prefetch(x)
    PROVE  /\ PlaceInv' /\ BudgetInv' /\ prefetched' # <<>>
           /\ UNCHANGED <<settled, refused>>
<1>0. /\ Typed /\ Apart /\ Queued /\ Seen /\ Sized /\ Held = Wanted
      /\ UNCHANGED <<rest, ready, size, pending, buffered, queue, snapshot>>
      /\ future[x] = "done" /\ future' = [future EXCEPT ![x] = "none"]
    BY DEF PlaceInv, Prefetch, source, pool, Done
<1>1. PICK F, P, H : /\ F = Futures /\ P = ToSet(prefetched) /\ H = ToSet(pending)
                     /\ F \in SUBSET Requests /\ P \in SUBSET Requests /\ H \in SUBSET Requests
    BY <1>0, PlaceSets
<1>2. Disjoint(ToSet(rest), ToSet(ready), F, P, H, buffered, settled)
    BY <1>0, <1>1 DEF Apart
<1>3. x \in F /\ x \notin P /\ x \notin H
    BY <1>0, <1>1, <1>2 DEF Futures, Disjoint
<1>4. future \in [Requests -> Stages] /\ size \in [Requests -> Nat]
    BY <1>0, PlaceSets DEF Typed
<1>5. /\ future' \in [Requests -> Stages] /\ future'[x] = "none"
      /\ \A r \in Requests : r # x => future'[r] = future[r]
    BY <1>0, <1>4 DEF Stages
<1>6. Futures' = F \ {x}
    BY <1>1, <1>5 DEF Futures
<1>7. PICK S, T : /\ S = P \cup H /\ T = S \cup {x} /\ S \in SUBSET Requests
                  /\ T \in SUBSET Requests /\ x \in Requests \ S
  <2>1. (P \cup H) \in SUBSET Requests /\ x \in Requests \ (P \cup H)
      BY <1>1, <1>3
  <2>2. ((P \cup H) \cup {x}) \in SUBSET Requests
      BY <2>1
  <2> QED  BY <2>1, <2>2, Zenon
<1>8. PICK w \in Nat, v \in Nat : /\ w = Weigh(size, S) /\ v = Weight(size, x)
                                  /\ Weigh(size, T) = v + w /\ v <= Reservation
  <2>1. Weigh(size, T) = Weight(size, x) + Weigh(size, S)
      BY <1>4, <1>7, WeighMore
  <2>2. Weigh(size, S) \in Nat /\ Weight(size, x) \in Nat
      BY <1>4, <1>7, WeighType DEF Weight
  <2>3. Weight(size, x) <= Reservation
    <3>1. size[x] \in Sizes \cup {0, Oversized}
        BY <1>0, PlaceSets
    <3> QED  BY <3>1, Bounds DEF Weight
  <2> QED  BY <2>1, <2>2, <2>3
<1>9. PICK k \in Nat : k = Cardinality(F \ {x}) /\ Cardinality(F) = k + 1
  <2>1. IsFiniteSet(F) /\ Cardinality(F) \in Nat
      BY <1>1, FuturesCount
  <2>2. F \ {x} \in SUBSET Requests
      BY <1>1
  <2>3. Cardinality(F \ {x}) \in Nat
      BY <2>2, FuturesCount
  <2>4. Cardinality(F \ {x}) = Cardinality(F) - 1
      BY <1>3, <2>1, FS_RemoveElement
  <2> QED  BY <2>1, <2>3, <2>4
<1>10. (v + w) + k * Reservation <= Budget
  <2>1. w + (k + 1) * Reservation <= Budget
      BY <1>0, <1>1, <1>7, <1>8, <1>9 DEF BudgetInv
  <2>2. Reservation \in Nat /\ Budget \in Nat
      BY Bounds
  <2>3. PICK kr \in Nat : kr = k * Reservation /\ (k + 1) * Reservation = kr + Reservation
    <3>1. k * Reservation \in Nat /\ (k + 1) * Reservation = k * Reservation + Reservation
        BY <2>2
    <3> QED  BY <3>1
  <2> QED  BY <1>8, <2>1, <2>2, <2>3
<1>11. prefetched' = Append(prefetched, x) /\ UNCHANGED <<refused, settled>>
  <2>1. (P \cup H) \cup {x} = T
      BY <1>7
  <2>2. k * Reservation \in Nat
      BY Bounds
  <2>3. ~(v + w > Budget)
      BY <1>10, <2>2, Bounds
  <2>4. ~(Bytes(ToSet(prefetched) \cup ToSet(pending) \cup {x}) > Budget)
      BY <1>1, <1>8, <2>1, <2>3, BytesWeigh
  <2> QED  BY <2>4 DEF Prefetch
<1>12. /\ prefetched' \in Seq(Requests) /\ IsInjective(prefetched')
       /\ ToSet(prefetched') = P \cup {x}
  <2>1. prefetched \in Seq(Requests) /\ IsInjective(prefetched)
      BY <1>0 DEF Typed, Apart
  <2> QED  BY <1>1, <1>3, <1>11, <2>1, AppendMembers
<1>13. Apart'
  <2>1. Disjoint(ToSet(rest), ToSet(ready), F \ {x}, P \cup {x}, H, buffered, settled)
      BY <1>2, <1>3 DEF Disjoint
  <2> QED  BY <1>0, <1>1, <1>6, <1>11, <1>12, <2>1 DEF Apart
<1>14. Typed'
    BY <1>0, <1>5, <1>11, <1>12 DEF Typed
<1>15. SplitOnes' = SplitOnes /\ Wanted' = Wanted
    BY <1>0, <1>11 DEF SplitOnes, Splits, Wanted
<1>16. Held' = Held
  <2>1. Held = ToSet(rest) \cup ToSet(ready) \cup F \cup P \cup H \cup buffered \cup settled
      BY <1>1 DEF Held
  <2>2. Held' = ToSet(rest) \cup ToSet(ready) \cup (F \ {x}) \cup (P \cup {x}) \cup H
                  \cup buffered \cup settled
      BY <1>0, <1>1, <1>6, <1>11, <1>12 DEF Held
  <2> QED  BY <1>3, <2>1, <2>2
<1>17. Sized'
  <2> SUFFICES ASSUME NEW r \in Requests, size[r] # 0
               PROVE  \/ future'[r] = "done"
                      \/ r \in (P \cup {x}) \cup H \cup buffered \cup settled
      BY <1>0, <1>1, <1>11, <1>12 DEF Sized
  <2> QED  BY <1>0, <1>1, <1>5 DEF Sized
<1>18. Queued'
  <2>1. \A i \in DOMAIN queue : queue[i] \in Requests \cup {0}
      BY <1>0, ElementOfSeq, LenProperties DEF Typed
  <2>2. \A r \in Requests : future[r] = "queued" => future'[r] = "queued"
      BY <1>0, <1>5
  <2> QED  BY <1>0, <2>1, <2>2 DEF Queued
<1>19. Seen'
  <2>1. \A r \in snapshot : r \in Requests
      BY <1>0 DEF Typed
  <2> QED  BY <1>0, <1>1, <1>5, <1>12, <2>1 DEF Seen
<1>20. BudgetInv'
  <2>1. (P \cup {x}) \cup H = T
      BY <1>7
  <2>2. Weigh(size', ToSet(prefetched') \cup ToSet(pending')) = v + w
      BY <1>0, <1>1, <1>8, <1>12, <2>1
  <2> QED  BY <1>0, <1>6, <1>9, <1>10, <1>11, <2>2 DEF BudgetInv
<1>21. prefetched' # <<>>
    BY <1>12, Members
<1> QED  BY <1>0, <1>11, <1>13, <1>14, <1>15, <1>16, <1>17, <1>18, <1>19, <1>20, <1>21 DEF PlaceInv

\* What the threads do: a submitted request goes through its stages, where only
\* one that is done has a new size.
LEMMA StageKeeps ==
    ASSUME PlaceInv, BudgetInv, Queued', future' \in [Requests -> Stages],
           size' \in [Requests -> Sizes \cup {0, Oversized}],
           queue' \in Seq(Requests \cup {0}),
           \A r \in Requests : /\ future'[r] = "none" <=> future[r] = "none"
                               /\ future[r] = "done" => future'[r] = "done"
                               /\ size'[r] = size[r] \/ future'[r] = "done",
           UNCHANGED <<rest, ready, prefetched, pending, buffered, settled, snapshot, refused>>
    PROVE  PlaceInv' /\ BudgetInv' /\ Futures' = Futures
<1>0. Typed /\ Apart /\ Seen /\ Sized /\ Held = Wanted
    BY DEF PlaceInv
<1>1. PICK P, H : /\ P = ToSet(prefetched) /\ H = ToSet(pending)
                  /\ P \in SUBSET Requests /\ H \in SUBSET Requests
    BY <1>0, PlaceSets
<1>2. Futures' = Futures
    BY DEF Futures
<1>3. Apart'
    BY <1>0, <1>2 DEF Apart
<1>4. Typed'
    BY <1>0 DEF Typed
<1>5. \A r \in P \cup H \cup buffered \cup settled : r \in Requests /\ size'[r] = size[r]
  <2> SUFFICES ASSUME NEW r \in P \cup H \cup buffered \cup settled
               PROVE  r \in Requests /\ size'[r] = size[r]
      OBVIOUS
  <2>1. r \in Requests
      BY <1>0, <1>1 DEF Typed
  <2>2. r \notin Futures
      BY <1>0, <1>1 DEF Apart, Disjoint
  <2>3. future'[r] = "none"
      BY <2>1, <2>2 DEF Futures
  <2> QED  BY <2>1, <2>3
<1>6. SplitOnes' = SplitOnes
    BY <1>5 DEF SplitOnes, Splits
<1>7. Wanted' = Wanted /\ Held' = Held
    BY <1>2, <1>6 DEF Wanted, Held
<1>8. Sized'
  <2> SUFFICES ASSUME NEW r \in Requests, size'[r] # 0
               PROVE  future'[r] = "done" \/ r \in P \cup H \cup buffered \cup settled
      BY <1>1 DEF Sized
  <2> QED  BY <1>0, <1>1 DEF Sized
<1>9. Seen'
    BY <1>0 DEF Seen, Typed
<1>10. BudgetInv'
  <2>1. /\ size \in [Requests -> Nat] /\ size' \in [Requests -> Nat]
        /\ buffered \in SUBSET Requests /\ (P \cup H) \in SUBSET Requests
    <3>1. size' \in [Requests -> Nat]
        BY Bounds
    <3>2. size \in [Requests -> Nat]
        BY <1>0, PlaceSets
    <3>3. buffered \in SUBSET Requests
        BY <1>0 DEF Typed
    <3> QED  BY <1>1, <3>1, <3>2, <3>3
  <2>2. PICK z, S : z = size' /\ S = P \cup H
      OBVIOUS
  <2>3. Weigh(z, S) = Weigh(size, S) /\ Weigh(z, buffered) = Weigh(size, buffered)
      BY <1>5, <2>1, <2>2, WeighAgree
  <2>4. Weigh(size', ToSet(prefetched') \cup ToSet(pending')) = Weigh(size, P \cup H)
      BY <1>1, <2>2, <2>3
  <2>5. Weigh(size', buffered') = Weigh(size, buffered)
      BY <2>2, <2>3
  <2> QED  BY <1>1, <1>2, <2>4, <2>5 DEF BudgetInv
<1> QED  BY <1>2, <1>3, <1>4, <1>7, <1>8, <1>9, <1>10 DEF PlaceInv

\* A worker takes a job that stays in flight.
LEMMA TakeKeeps ==
    ASSUME PlaceInv, BudgetInv, TakeJob
    PROVE  PlaceInv' /\ BudgetInv' /\ Futures' = Futures
<1>0. /\ Typed /\ Queued /\ queue # <<>> /\ queue' = Tail(queue)
      /\ UNCHANGED <<rest, ready, size, prefetched, pending, buffered, settled, snapshot, refused>>
    BY DEF PlaceInv, TakeJob, source, results, ends
<1>1. PICK n \in Nat : /\ n + 1 = Len(queue) /\ DOMAIN queue = 1 .. n + 1
                       /\ DOMAIN queue' = 1 .. n /\ queue' \in Seq(Requests \cup {0})
                       /\ Head(queue) = queue[1]
                       /\ \A i \in 1 .. n : queue'[i] = queue[i + 1]
  <2>1. queue \in Seq(Requests \cup {0})
      BY <1>0 DEF Typed
  <2>2. Len(queue) \in Nat /\ Len(queue) # 0
      BY <1>0, <2>1, EmptySeq
  <2>3. /\ queue' \in Seq(Requests \cup {0}) /\ Len(queue') = Len(queue) - 1
        /\ \A i \in 1 .. Len(queue) - 1 : queue'[i] = queue[i + 1]
      BY <1>0, <2>1, HeadTailProperties
  <2>4. PICK n \in Nat : n = Len(queue) - 1
      BY <2>2
  <2>5. n + 1 = Len(queue)
      BY <2>2, <2>4
  <2>6. DOMAIN queue = 1 .. n + 1 /\ DOMAIN queue' = 1 .. n
      BY <2>1, <2>3, <2>4, <2>5, LenProperties
  <2> QED  BY <2>1, <2>3, <2>4, <2>5, <2>6
<1>2. \A i \in 1 .. n : i + 1 \in 1 .. n + 1 /\ i + 1 # 1
    BY <1>1
<1>3. 1 \in 1 .. n + 1 /\ \A i \in 1 .. n + 1 : queue[i] \in Requests \cup {0}
    BY <1>0, <1>1, ElementOfSeq DEF Typed
<1>4. PICK x : x = queue[1] /\ x \in Requests \cup {0}
    BY <1>3
<1>5. future \in [Requests -> Stages] /\ size \in [Requests -> Sizes \cup {0, Oversized}]
    BY <1>0 DEF Typed
<1>6. \/ x = 0 /\ UNCHANGED future
      \/ x \in Requests /\ x # 0 /\ future[x] = "queued" /\ future' = [future EXCEPT ![x] = "network"]
    BY <1>0, <1>1, <1>3, <1>4 DEF TakeJob, Queued
<1>7. /\ future' \in [Requests -> Stages]
      /\ \A r \in Requests : /\ future'[r] = "none" <=> future[r] = "none"
                             /\ future[r] = "done" => future'[r] = "done"
                             /\ r # x => future'[r] = future[r]
    BY <1>5, <1>6 DEF Stages
<1>8. ASSUME NEW i \in 1 .. n, NEW j \in 1 .. n, queue'[i] = queue'[j], queue'[i] # 0 PROVE i = j
  <2>1. i + 1 = j + 1
      BY <1>0, <1>1, <1>2, <1>8 DEF Queued
  <2> QED  BY <2>1
<1>9. ASSUME NEW i \in 1 .. n, queue'[i] # 0 PROVE future'[queue'[i]] = "queued"
  <2>1. queue'[i] = queue[i + 1] /\ queue[i + 1] # 0 /\ queue[i + 1] \in Requests
      BY <1>1, <1>2, <1>3, <1>9
  <2>2. future[queue[i + 1]] = "queued" /\ queue[i + 1] # x
      BY <1>0, <1>1, <1>2, <1>3, <1>4, <2>1 DEF Queued
  <2> QED  BY <1>7, <2>1, <2>2
<1>10. Queued'
    BY <1>1, <1>8, <1>9 DEF Queued
<1> QED  BY <1>0, <1>1, <1>5, <1>7, <1>10, StageKeeps

\* A thread's request is received, and then converted.
LEMMA WorkKeeps ==
    ASSUME PlaceInv, BudgetInv, NEW x \in Requests, Work(x)
    PROVE  PlaceInv' /\ BudgetInv' /\ Futures' = Futures
<1>0. /\ Typed /\ Queued
      /\ UNCHANGED <<rest, ready, prefetched, pending, buffered, settled, snapshot, refused, queue>>
    BY DEF PlaceInv, Work, Receive, Convert, source, results, ends, pool
<1>1. /\ future \in [Requests -> Stages] /\ size \in [Requests -> Sizes \cup {0, Oversized}]
      /\ queue \in Seq(Requests \cup {0})
    BY <1>0 DEF Typed
<1>2. \/ /\ future[x] = "network" /\ future' = [future EXCEPT ![x] = "gate"] /\ UNCHANGED size
      \/ /\ future[x] = "gate" /\ future' = [future EXCEPT ![x] = "done"]
         /\ \E n \in Sizes \cup {Oversized} : size' = [size EXCEPT ![x] = n]
    BY DEF Work, Receive, Convert
<1>3. /\ future' \in [Requests -> Stages] /\ size' \in [Requests -> Sizes \cup {0, Oversized}]
      /\ \A r \in Requests : /\ future'[r] = "none" <=> future[r] = "none"
                             /\ future[r] = "done" => future'[r] = "done"
                             /\ future[r] = "queued" => future'[r] = "queued"
                             /\ size'[r] = size[r] \/ future'[r] = "done"
    BY <1>1, <1>2 DEF Stages
<1>4. Queued'
  <2>1. \A i \in DOMAIN queue : queue[i] \in Requests \cup {0}
      BY <1>1, ElementOfSeq, LenProperties
  <2> QED  BY <1>0, <1>3, <2>1 DEF Queued
<1> QED  BY <1>0, <1>1, <1>3, <1>4, StageKeeps

\* The coordinator looks at what is done.
LEMMA LoopKeeps ==
    ASSUME PlaceInv, BudgetInv, Loop
    PROVE  PlaceInv' /\ BudgetInv'
<1>0. /\ UNCHANGED <<rest, ready, future, size, prefetched, pending, buffered, settled, queue>>
      /\ UNCHANGED refused /\ snapshot' = Done
    BY DEF Loop, source, results, pool, ends
<1>1. Futures' = Futures
    BY <1>0 DEF Futures
<1>2. SplitOnes' = SplitOnes
    BY <1>0 DEF SplitOnes, Splits
<1>3. Wanted' = Wanted /\ Held' = Held
    BY <1>0, <1>1, <1>2 DEF Wanted, Held
<1>4. Apart'
    BY <1>0, <1>1 DEF PlaceInv, Apart
<1>5. Typed' /\ Seen'
    BY <1>0 DEF PlaceInv, Typed, Seen, Done
<1>6. Sized' /\ Queued'
    BY <1>0 DEF PlaceInv, Sized, Queued
<1>7. BudgetInv'
    BY <1>0, <1>1 DEF BudgetInv
<1> QED  BY <1>3, <1>4, <1>5, <1>6, <1>7 DEF PlaceInv

\* Partitions handed out to the pool are no requests.
LEMMA HandOutKeeps ==
    ASSUME PlaceInv, BudgetInv, NEW n \in Nat, HandOut(n),
           UNCHANGED <<source, future, size, results, buffered, settled, snapshot, refused>>
    PROVE  PlaceInv' /\ BudgetInv' /\ left'[1] \in Nat
<1>0. /\ UNCHANGED <<rest, ready, future, size, prefetched, pending, buffered, settled, snapshot>>
      /\ UNCHANGED refused /\ Typed /\ Queued
    BY DEF source, results, PlaceInv
<1>1. PICK m \in Nat : m = Chunk(n) /\ n - m \in Nat
  <2>1. PICK k \in Nat : Chunk(n) = Min({k, n})
      BY Bounds DEF Chunk
  <2>2. \E y \in {k, n} : \A z \in {k, n} : y <= z
      OBVIOUS
  <2>3. PICK m : m = Min({k, n})
      OBVIOUS
  <2>4. m \in Nat /\ m <= n
      BY <2>2, <2>3 DEF Min
  <2>5. n - m \in Nat
      BY <2>4
  <2> QED  BY <2>1, <2>3, <2>4, <2>5
<1>2. PICK z : z = [i \in 1 .. m |-> 0] /\ z \in Seq(Requests \cup {0})
  <2>1. [i \in 1 .. m |-> 0] \in [1 .. m -> Requests \cup {0}]
      OBVIOUS
  <2>2. [i \in 1 .. m |-> 0] \in Seq(Requests \cup {0})
      BY <2>1, IsASeq
  <2> QED  BY <2>2
<1>3. queue \in Seq(Requests \cup {0})
    BY <1>0 DEF Typed
<1>4. queue' = queue \/ queue' = queue \o z
    BY <1>1, <1>2 DEF HandOut
<1>5. PICK k \in Nat : k = Len(queue) /\ DOMAIN queue = 1 .. k
    BY <1>3, LenProperties
<1>6. /\ queue' \in Seq(Requests \cup {0})
      /\ \A i \in DOMAIN queue' : queue'[i] # 0 => i \in DOMAIN queue /\ queue'[i] = queue[i]
  <2>1. CASE queue' = queue
      BY <1>3, <2>1
  <2>2. CASE queue' = queue \o z
    <3>1. Len(z) = m /\ \A i \in 1 .. m : z[i] = 0
        BY <1>2, <1>1, LenProperties
    <3>2. /\ queue' \in Seq(Requests \cup {0}) /\ DOMAIN queue' = 1 .. k + m
          /\ \A i \in 1 .. k + m : queue'[i] = IF i <= k THEN queue[i] ELSE z[i - k]
        BY <1>2, <1>3, <1>5, <2>2, <3>1, ConcatProperties, LenProperties
    <3>3. ASSUME NEW i \in 1 .. k + m, queue'[i] # 0 PROVE i \in 1 .. k /\ queue'[i] = queue[i]
      <4>1. CASE i <= k
          BY <1>5, <3>2, <4>1
      <4>2. CASE ~(i <= k)
        <5>1. i - k \in 1 .. m
            BY <1>1, <1>5, <4>2
        <5> QED  BY <3>1, <3>2, <3>3, <4>2, <5>1
      <4> QED  BY <4>1, <4>2
    <3> QED  BY <1>5, <3>2, <3>3
  <2> QED  BY <1>4, <2>1, <2>2
<1>7. Queued'
  <2>1. \A i \in DOMAIN queue' : queue'[i] # 0 => future'[queue'[i]] = "queued"
      BY <1>0, <1>6 DEF Queued
  <2>2. \A i, j \in DOMAIN queue' : queue'[i] = queue'[j] /\ queue'[i] # 0 => i = j
      BY <1>0, <1>6 DEF Queued
  <2> QED  BY <2>1, <2>2 DEF Queued
<1>8. PlaceInv' /\ BudgetInv'
  <2>1. \A r \in Requests : /\ future'[r] = "none" <=> future[r] = "none"
                            /\ future[r] = "done" => future'[r] = "done"
                            /\ size'[r] = size[r] \/ future'[r] = "done"
      BY <1>0
  <2>2. future' \in [Requests -> Stages] /\ size' \in [Requests -> Sizes \cup {0, Oversized}]
      BY <1>0 DEF Typed
  <2> QED  BY <1>0, <1>6, <1>7, <2>1, <2>2, StageKeeps
<1>9. left'[1] = n - m
    BY <1>1 DEF HandOut
<1> QED  BY <1>1, <1>8, <1>9

-----------------------------------------------------------------------------
(* Where the phase may end *)

\* Steps that leave the coordinator, and what is in flight, where they are.
LEMMA EndStill ==
    ASSUME EndInv, UNCHANGED <<at, after, pending, buffered, prefetched>>, Futures' = Futures,
           Exhausted => Exhausted'
    PROVE  EndInv'
BY DEF EndInv, Committing

\* Pumping during a commit keeps the place of the coordinator.
LEMMA EndPump ==
    ASSUME EndInv, UNCHANGED <<at, after, pending>>, at = "write", after # "end",
           Futures' # {} \/ prefetched' # <<>>
    PROVE  EndInv'
BY DEF EndInv, Committing

\* With nothing in flight there is always room for a request.
LEMMA FillDoneKeeps ==
    ASSUME PhaseInv, FillDone
    PROVE  PhaseInv'
<1>0. /\ PlaceInv /\ BudgetInv /\ EndInv /\ left[1] \in Nat
      /\ UNCHANGED <<rest, ready, future, size, prefetched, pending, buffered, settled, queue>>
      /\ UNCHANGED <<snapshot, refused, left, after, starved>>
      /\ at = "fill" /\ at' = "loop"
    BY DEF PhaseInv, FillDone, source, results, pool, commit, ends
<1>1. PlaceInv' /\ BudgetInv'
    BY <1>0, StillPlaces, StillBudget DEF source, results
<1>2. Futures' = Futures
    BY <1>0 DEF Futures
<1>3. pending = <<>>
    BY <1>0 DEF EndInv, Committing
<1>4. ASSUME Futures = {}, prefetched = <<>> PROVE Room(MaxInFlight)
  <2>1. PICK E : E = {} /\ ToSet(prefetched) = E /\ ToSet(pending) = E /\ Futures = E
                 /\ E \in SUBSET Requests
      BY <1>3, <1>4 DEF ToSet
  <2>2. Bytes(E) = 0
    <3>1. size \in [Requests -> Nat]
        BY <1>0, PlaceSets DEF PlaceInv
    <3> QED  BY <2>1, <3>1, WeighType, BytesWeigh
  <2>3. Cardinality(E) = 0
      BY <2>1, FS_EmptySet
  <2>4. Len(prefetched) = 0 /\ ResponseCountLimit > 0
      BY <1>4, Bounds DEF ResponseCountLimit
  <2>5. 0 + 0 + (0 + 1) * Reservation <= Budget /\ 0 < MaxInFlight
      BY Bounds
  <2> QED  BY <2>1, <2>2, <2>3, <2>4, <2>5 DEF Room
<1>5. ASSUME Futures = {}, prefetched = <<>> PROVE Exhausted'
  <2>1. stop' = (stop \/ (ready = <<>> /\ cancel))
      BY <1>4, <1>5 DEF FillDone, StopIfCancelled
  <2>2. stop \/ (ready = <<>> /\ (cancel \/ rest = <<>>))
      BY <1>4, <1>5 DEF FillDone, CannotSubmit
  <2> QED  BY <1>0, <2>1, <2>2 DEF Exhausted
<1>6. EndInv'
    BY <1>0, <1>2, <1>3, <1>5 DEF EndInv, Committing
<1> QED  BY <1>0, <1>1, <1>6 DEF PhaseInv

\* Filling the pool, request by request.
LEMMA FillSubmitKeeps ==
    ASSUME PhaseInv, FillSubmit
    PROVE  PhaseInv'
<1>0. /\ PlaceInv /\ BudgetInv /\ EndInv /\ left[1] \in Nat
      /\ UNCHANGED <<size, results, buffered, snapshot, refused, left, at, after, pending>>
      /\ at = "fill" /\ Submit(MaxInFlight)
    BY DEF PhaseInv, FillSubmit, results, commit, ends
<1>1. PICK c : c = MaxInFlight /\ c \in Int /\ c <= MaxInFlight
    BY Bounds
<1>2. PlaceInv' /\ BudgetInv'
    BY <1>0, <1>1, SubmitKeeps
<1>3. EndInv'
    BY <1>0 DEF EndInv, Committing
<1> QED  BY <1>0, <1>2, <1>3 DEF PhaseInv

\* Filling it until nothing is left to submit.
LEMMA FillStarveKeeps ==
    ASSUME PhaseInv, FillStarve
    PROVE  PhaseInv'
<1>0. /\ PlaceInv /\ BudgetInv /\ EndInv /\ left[1] \in Nat
      /\ UNCHANGED <<ready, future, size, results, buffered, queue, snapshot, refused>>
      /\ UNCHANGED <<left, after, pending>>
      /\ at = "fill" /\ at' = "loop" /\ Starve(MaxInFlight) /\ starved' = TRUE
    BY DEF PhaseInv, FillStarve, Starve, results, commit, pool
<1>1. PICK c : c = MaxInFlight /\ c \in Int /\ c <= MaxInFlight
    BY Bounds
<1>2. PlaceInv' /\ BudgetInv' /\ ready = <<>>
    BY <1>0, <1>1, StarveKeeps
<1>3. Exhausted'
    BY <1>0, <1>2 DEF Exhausted
<1>4. EndInv'
    BY <1>0, <1>3 DEF EndInv, Committing
<1> QED  BY <1>0, <1>2, <1>4 DEF PhaseInv

\* Refilling the pool during a commit.
LEMMA RefillKeeps ==
    ASSUME PhaseInv, RefillSubmit \/ RefillStarve \/ RefillStop
    PROVE  PhaseInv'
<1>0. PlaceInv /\ BudgetInv /\ EndInv /\ left[1] \in Nat
    BY DEF PhaseInv
<1>1. PICK c : c = CommittingCapacity /\ c \in Int /\ c <= MaxInFlight
    BY Bounds
<1>2. CASE RefillSubmit
  <2>1. /\ UNCHANGED <<size, results, buffered, snapshot, refused, left, at, after, pending>>
        /\ at = "write" /\ after # "end" /\ Submit(c)
      BY <1>1, <1>2 DEF RefillSubmit, Pumping, results, commit, ends
  <2>2. PlaceInv' /\ BudgetInv' /\ Futures' # {}
      BY <1>0, <1>1, <2>1, SubmitKeeps
  <2>3. EndInv'
      BY <1>0, <2>1, <2>2, EndPump
  <2> QED  BY <1>0, <2>1, <2>2, <2>3 DEF PhaseInv
<1>3. CASE RefillStarve
  <2>1. /\ UNCHANGED <<ready, future, size, results, buffered, queue, snapshot, refused>>
        /\ UNCHANGED <<left, at, after, pending, prefetched, stop>>
        /\ Starve(c) /\ starved' = TRUE
      BY <1>1, <1>3 DEF RefillStarve, Starve, results, commit, pool
  <2>2. PlaceInv' /\ BudgetInv' /\ Futures' = Futures /\ ready = <<>>
      BY <1>0, <1>1, <2>1, StarveKeeps
  <2>3. Exhausted'
      BY <2>1, <2>2 DEF Exhausted
  <2>4. EndInv'
      BY <1>0, <2>1, <2>2, <2>3, EndStill
  <2> QED  BY <1>0, <2>1, <2>2, <2>4 DEF PhaseInv
<1>4. CASE RefillStop
  <2>1. /\ UNCHANGED <<source, future, size, results, buffered, settled, queue, snapshot, refused>>
        /\ UNCHANGED <<left, at, after, pending, prefetched, rest, ready>>
        /\ stop' = TRUE
      BY <1>4 DEF RefillStop, source, results, commit, pool
  <2>2. PlaceInv' /\ BudgetInv' /\ Futures' = Futures
      BY <1>0, <2>1, StillPlaces, StillBudget DEF Futures
  <2>3. Exhausted'
      BY <2>1 DEF Exhausted
  <2>4. EndInv'
      BY <1>0, <2>1, <2>2, <2>3, EndStill
  <2> QED  BY <1>0, <2>1, <2>2, <2>4 DEF PhaseInv
<1> QED  BY <1>2, <1>3, <1>4

\* Waiting, and coming to the end of the phase.
LEMMA WaitKeeps ==
    ASSUME PhaseInv, Loop \/ LoopDone \/ HarvestDone \/ MakeRoom
    PROVE  PhaseInv'
<1>0. PlaceInv /\ BudgetInv /\ EndInv /\ left[1] \in Nat
    BY DEF PhaseInv
<1>1. CASE Loop
  <2>1. /\ UNCHANGED <<rest, ready, future, prefetched, pending, buffered, left>>
        /\ at = "loop" /\ ~NothingInFlight /\ Futures' = Futures
        /\ \/ at' = "collect"
           \/ at' = "gate" /\ after' = "collect"
      BY <1>1 DEF Loop, StartCommit, source, results, commit, Futures
  <2>2. EndInv'
      BY <1>0, <2>1 DEF EndInv, Committing, NothingInFlight
  <2>3. PlaceInv' /\ BudgetInv'
      BY <1>0, <1>1, LoopKeeps
  <2> QED  BY <1>0, <2>1, <2>2, <2>3 DEF PhaseInv
<1>2. CASE LoopDone \/ HarvestDone \/ MakeRoom
  <2>1. /\ UNCHANGED <<source, future, size, results, buffered, settled, queue, snapshot, refused>>
        /\ UNCHANGED <<left, pending, prefetched, rest, ready, stop, starved>>
      BY <1>2 DEF LoopDone, HarvestDone, MakeRoom, StartCommit, source, results, commit, pool, ends
  <2>2. PlaceInv' /\ BudgetInv' /\ Futures' = Futures
      BY <1>0, <2>1, StillPlaces, StillBudget DEF Futures
  <2>3. EndInv'
    <3>1. CASE LoopDone
        BY <1>0, <2>1, <2>2, <3>1
        DEF EndInv, Committing, LoopDone, NothingInFlight, StartCommit, Exhausted
    <3>2. CASE HarvestDone
        BY <1>0, <2>1, <2>2, <3>2 DEF EndInv, Committing, HarvestDone
    <3>3. CASE MakeRoom
        BY <1>0, <2>1, <2>2, <3>3 DEF EndInv, Committing, MakeRoom, StartCommit
    <3> QED  BY <1>2, <3>1, <3>2, <3>3
  <2> QED  BY <1>0, <2>1, <2>2, <2>3 DEF PhaseInv
<1> QED  BY <1>1, <1>2

\* Taking a response in hand, splitting or harvesting it.
LEMMA HandKeeps ==
    ASSUME PhaseInv, Collect \/ SplitRange \/ Harvest
    PROVE  PhaseInv'
<1>0. PlaceInv /\ BudgetInv /\ EndInv /\ left[1] \in Nat
    BY DEF PhaseInv
<1>1. CASE Collect
  <2>1. /\ UNCHANGED <<rest, ready, left, after, stop, starved>>
        /\ at = "collect" /\ at' = IF pending' = <<>> THEN "loop" ELSE "harvest"
      BY <1>1 DEF Collect, source, commit, ends
  <2>2. ASSUME pending' = <<>>
        PROVE  Futures' # {} \/ prefetched' # <<>> \/ Exhausted'
    <3>1. PICK C : C = Consumable /\ C \in SUBSET Requests
        BY <1>0, PlaceSets DEF Consumable, PlaceInv
    <3>2. PICK s \in SetToSeqs(C) : <<>> = prefetched \o s
        BY <1>1, <2>2, <3>1 DEF Collect
    <3>3. prefetched \in Seq(Requests) /\ s \in Seq(Requests) /\ ToSet(s) = C
        BY <1>0, <3>1, Enumerated DEF PlaceInv, Typed
    <3>4. Len(prefetched) \in Nat /\ Len(s) \in Nat /\ Len(prefetched \o s) = Len(prefetched) + Len(s)
        BY <3>3, LenProperties, ConcatProperties
    <3>5. Len(prefetched) = 0 /\ Len(s) = 0
      <4>1. PICK t : t = prefetched \o s /\ t = <<>>
          BY <3>2
      <4>2. Len(t) = 0
          BY <4>1
      <4> QED  BY <3>4, <4>1, <4>2
    <3>6. prefetched = <<>> /\ s = <<>>
        BY <3>3, <3>5, EmptySeq
    <3>7. C = {}
        BY <3>3, <3>6, Members
    <3>8. Futures' = Futures
        BY <1>1, <3>1, <3>7 DEF Collect, Futures
    <3> QED  BY <1>0, <2>1, <3>6, <3>8 DEF EndInv, Exhausted
  <2>3. EndInv'
      BY <2>1, <2>2 DEF EndInv, Committing
  <2>4. PlaceInv' /\ BudgetInv'
      BY <1>1, CollectKeeps
  <2> QED  BY <1>0, <2>1, <2>3, <2>4 DEF PhaseInv
<1>2. CASE SplitRange
  <2>1. UNCHANGED <<left, at>> /\ at = "harvest"
      BY <1>2 DEF SplitRange, commit
  <2>2. EndInv'
      BY <2>1 DEF EndInv, Committing
  <2>3. PlaceInv' /\ BudgetInv'
      BY <1>2, SplitKeeps
  <2> QED  BY <1>0, <2>1, <2>2, <2>3 DEF PhaseInv
<1>3. CASE Harvest
  <2>1. /\ UNCHANGED left
        /\ at' = "harvest" \/ (at' = "gate" /\ after' = "harvest")
      BY <1>3 DEF Harvest, StartCommit, commit
  <2>2. EndInv'
      BY <2>1 DEF EndInv, Committing
  <2>3. PlaceInv' /\ BudgetInv'
      BY <1>3, HarvestKeeps
  <2> QED  BY <1>0, <2>1, <2>2, <2>3 DEF PhaseInv
<1> QED  BY <1>1, <1>2, <1>3

\* Committing the buffer, at the end or to make room.
LEMMA CommitKeeps ==
    ASSUME PhaseInv, EnterGate \/ WriteInline \/ NextChunk \/ Publish \/ CommitFails
    PROVE  PhaseInv'
<1>0. /\ PlaceInv /\ BudgetInv /\ EndInv /\ left[1] \in Nat
      /\ UNCHANGED <<source, future, results, snapshot, refused>>
      /\ UNCHANGED <<rest, ready, prefetched, pending, after, stop, starved>>
      /\ Futures' = Futures /\ Exhausted' = Exhausted
    BY DEF PhaseInv, EnterGate, WriteInline, NextChunk, Publish, CommitFails, ClearBuffer,
           source, results, commit, ends, Futures, Exhausted
<1>1. CASE EnterGate /\ buffered = {}
  <2>1. /\ UNCHANGED <<size, buffered, settled, queue, left>>
        /\ at = "gate" /\ at' = after
      BY <1>1 DEF EnterGate
  <2>2. PlaceInv' /\ BudgetInv'
      BY <1>0, <2>1, StillPlaces, StillBudget
  <2>3. EndInv'
      BY <1>0, <1>1, <2>1 DEF EndInv, Committing
  <2> QED  BY <1>0, <2>1, <2>2, <2>3 DEF PhaseInv
<1>2. CASE (EnterGate /\ buffered # {}) \/ NextChunk
  <2>1. PICK n \in Nat : HandOut(n)
    <3>1. Partitions \in Nat
        BY SchedulerAssumption
    <3> QED  BY <1>0, <1>2, <3>1 DEF EnterGate, NextChunk
  <2>2. /\ UNCHANGED <<size, buffered, settled>>
        /\ at \in {"gate", "write"} /\ at' = "write"
      BY <1>2 DEF EnterGate, NextChunk
  <2>3. PlaceInv' /\ BudgetInv' /\ left'[1] \in Nat
      BY <1>0, <2>1, <2>2, HandOutKeeps
  <2>4. EndInv'
      BY <1>0, <2>2 DEF EndInv, Committing
  <2> QED  BY <2>3, <2>4 DEF PhaseInv
<1>3. CASE WriteInline
  <2>1. UNCHANGED <<size, buffered, settled, queue, at>> /\ left'[1] = left[1]
      BY <1>3 DEF WriteInline, pool
  <2>2. PlaceInv' /\ BudgetInv'
      BY <1>0, <2>1, StillPlaces, StillBudget
  <2>3. EndInv'
      BY <1>0, <2>1, EndStill
  <2> QED  BY <1>0, <2>1, <2>2, <2>3 DEF PhaseInv
<1>4. CASE Publish \/ CommitFails
  <2>1. /\ ClearBuffer /\ UNCHANGED left /\ buffered' = {} /\ at = "write"
        /\ at' = after \/ at' = "raised"
      BY <1>4 DEF Publish, CommitFails, ClearBuffer, commit
  <2>2. PlaceInv' /\ BudgetInv'
      BY <1>0, <2>1, ClearKeeps
  <2>3. EndInv'
      BY <1>0, <2>1 DEF EndInv, Committing
  <2> QED  BY <1>0, <2>1, <2>2, <2>3 DEF PhaseInv
<1> QED  BY <1>1, <1>2, <1>3, <1>4

\* Workers, prefetching, the native gate and cancellation.
LEMMA OtherKeeps ==
    ASSUME PhaseInv,
           \/ \E r \in Requests : Prefetch(r) \/ Work(r)
           \/ TakeJob \/ WritePartition \/ MixedAsks \/ MixedRuns \/ MixedLeaves \/ Cancel
           \/ UNCHANGED vars
    PROVE  PhaseInv'
<1>0. PlaceInv /\ BudgetInv /\ EndInv /\ left[1] \in Nat
    BY DEF PhaseInv
<1>1. ASSUME NEW r \in Requests, Prefetch(r) PROVE PhaseInv'
  <2>1. /\ UNCHANGED <<left, at, after, pending>> /\ at = "write" /\ after # "end"
      BY <1>1 DEF Prefetch, Pumping, commit
  <2>2. PlaceInv' /\ BudgetInv' /\ prefetched' # <<>>
      BY <1>0, <1>1, PrefetchKeeps
  <2>3. EndInv'
      BY <1>0, <2>1, <2>2, EndPump
  <2> QED  BY <1>0, <2>1, <2>2, <2>3 DEF PhaseInv
<1>2. ASSUME (\E r \in Requests : Work(r)) \/ TakeJob PROVE PhaseInv'
  <2>1. /\ UNCHANGED <<left, at, after, pending, buffered, prefetched>>
        /\ UNCHANGED <<rest, ready, stop, starved>>
      BY <1>2 DEF Work, Receive, Convert, TakeJob, commit, results, source, ends
  <2>2. PlaceInv' /\ BudgetInv' /\ Futures' = Futures
      BY <1>0, <1>2, WorkKeeps, TakeKeeps
  <2>3. EndInv'
      BY <1>0, <2>1, <2>2, EndStill DEF Exhausted
  <2> QED  BY <1>0, <2>1, <2>2, <2>3 DEF PhaseInv
<1>3. ASSUME WritePartition \/ MixedAsks \/ MixedRuns \/ MixedLeaves \/ Cancel \/ UNCHANGED vars
      PROVE  PhaseInv'
  <2>1. /\ UNCHANGED <<source, future, size, results, buffered, settled, queue, snapshot, refused>>
        /\ UNCHANGED <<at, after, pending, prefetched, rest, ready, stop, starved>>
        /\ left'[1] = left[1]
      BY <1>3 DEF WritePartition, MixedAsks, MixedRuns, MixedLeaves, Cancel, vars, source, results,
                  commit, pool, gate, ends
  <2>2. PlaceInv' /\ BudgetInv' /\ Futures' = Futures
      BY <1>0, <2>1, StillPlaces, StillBudget DEF Futures
  <2>3. EndInv'
      BY <1>0, <2>1, <2>2, EndStill DEF Exhausted
  <2> QED  BY <1>0, <2>1, <2>2, <2>3 DEF PhaseInv
<1> QED  BY <1>1, <1>2, <1>3

-----------------------------------------------------------------------------
(* The invariant holds                                                     *)

\* Every wanted request is not yet drawn.
LEMMA PhaseStarts == Init => PhaseInv
<1> SUFFICES ASSUME Init PROVE PhaseInv
    OBVIOUS
<1>1. /\ rest = Tasks /\ ready = <<>> /\ future = [r \in Requests |-> "none"]
      /\ size = [r \in Requests |-> 0] /\ prefetched = <<>> /\ pending = <<>>
      /\ buffered = {} /\ settled = {} /\ queue = <<>> /\ left = <<0, 0>> /\ at = "fill"
      /\ snapshot = {} /\ ~refused
    BY DEF Init
<1>2. ToSet(<<>>) = {} /\ IsInjective(<<>>) /\ \A i \in DOMAIN <<>> : FALSE
    BY DEF ToSet, IsInjective
<1>3. Futures = {} /\ SplitOnes = {}
    BY <1>1 DEF Futures, SplitOnes
<1>4. Typed
    BY <1>1, SchedulerAssumption DEF Typed, Stages
<1>5. Apart
  <2>1. Disjoint(ToSet(Tasks), {}, {}, {}, {}, {}, {})
      BY DEF Disjoint
  <2> QED  BY <1>1, <1>2, <1>3, <2>1, RequestAssumption DEF Apart
<1>6. Held = Wanted
    BY <1>1, <1>2, <1>3 DEF Held, Wanted
<1>7. Sized
    BY <1>1 DEF Sized
<1>8. Queued
    BY <1>1, <1>2 DEF Queued
<1>9. Seen
    BY <1>1 DEF Seen
<1>10. BudgetInv
  <2>1. PICK E : /\ E = {} /\ ToSet(prefetched) \cup ToSet(pending) = E /\ buffered = E
                 /\ Futures = E /\ E \in SUBSET Requests
      BY <1>1, <1>2, <1>3
  <2>2. size \in [Requests -> Nat]
      BY <1>1
  <2>3. Weigh(size, E) = 0
      BY <2>1, <2>2, WeighType
  <2>4. Cardinality(E) = 0
      BY <2>1, FS_EmptySet
  <2>5. 0 + 0 * Reservation <= Budget /\ 0 <= Budget
      BY Bounds
  <2> QED  BY <1>1, <2>1, <2>3, <2>4, <2>5 DEF BudgetInv
<1>11. EndInv
    BY <1>1 DEF EndInv, Committing
<1>12. left[1] \in Nat
    BY <1>1
<1> QED  BY <1>4, <1>5, <1>6, <1>7, <1>8, <1>9, <1>10, <1>11, <1>12 DEF PhaseInv, PlaceInv

\* Every step keeps places, bounds and ends.
LEMMA PhaseKeeps == PhaseInv /\ [Next]_vars => PhaseInv'
<1> SUFFICES ASSUME PhaseInv, [Next]_vars PROVE PhaseInv'
    OBVIOUS
<1>1. CASE Coordinate
    BY <1>1, FillSubmitKeeps, FillStarveKeeps, FillDoneKeeps, WaitKeeps, HandKeeps, CommitKeeps
    DEF Coordinate
<1>2. CASE CommitFails
    BY <1>2, CommitKeeps
<1>3. CASE Pump
    BY <1>3, RefillKeeps, OtherKeeps DEF Pump
<1>4. CASE TakeJob \/ WritePartition \/ (\E r \in Requests : Work(r))
    BY <1>4, OtherKeeps
<1>5. CASE MixedAsks \/ MixedRuns \/ MixedLeaves \/ Cancel \/ UNCHANGED vars
    BY <1>5, OtherKeeps
<1> QED  BY <1>1, <1>2, <1>3, <1>4, <1>5 DEF Next

\* The inductive invariant: where each request is, what waits has its room,
\* and where the coordinator may come to its end.
THEOREM Scheduled == Spec => []PhaseInv
<1> QED  BY PhaseStarts, PhaseKeeps, PTL DEF Spec

-----------------------------------------------------------------------------
(* What follows of it                                                      *)

\* A sequence without repetition has each of its members at one place.
LEMMA AtOnePlace ==
    ASSUME NEW s \in Seq(Requests), IsInjective(s), NEW r
    PROVE  Cardinality({k \in DOMAIN s : s[k] = r}) = IF r \in ToSet(s) THEN 1 ELSE 0
<1>1. CASE r \in ToSet(s)
  <2>1. PICK k \in DOMAIN s : s[k] = r
      BY <1>1 DEF ToSet
  <2>2. {i \in DOMAIN s : s[i] = r} = {k}
      BY <2>1 DEF IsInjective
  <2> QED  BY <1>1, <2>2, FS_Singleton
<1>2. CASE r \notin ToSet(s)
  <2>1. {k \in DOMAIN s : s[k] = r} = {}
      BY <1>2 DEF ToSet
  <2> QED  BY <1>2, <2>1, FS_EmptySet
<1> QED  BY <1>1, <1>2

\* Each request that was asked for, or is the half of one that was split, is at
\* one place of the seven, at one index of it: it is submitted once and its
\* response consumed once, whoever moved it.
THEOREM EachOnce == Spec => []ConsumedOnce
<1>1. PlaceInv => ConsumedOnce
  <2> SUFFICES ASSUME PlaceInv, NEW r \in Requests
               PROVE  Occurrences(r) = IF \/ r \in ToSet(Tasks)
                                          \/ \E q \in settled : r \in ToSet(Halves[q]) /\ Splits(q)
                                         THEN 1 ELSE 0
      BY DEF ConsumedOnce
  <2>1. PICK A, B, F, P, H :
          /\ A = ToSet(rest) /\ B = ToSet(ready) /\ F = Futures /\ P = ToSet(prefetched)
          /\ H = ToSet(pending)
      OBVIOUS
  <2>2. /\ Disjoint(A, B, F, P, H, buffered, settled)
        /\ IsInjective(rest) /\ IsInjective(ready)
        /\ IsInjective(prefetched) /\ IsInjective(pending)
        /\ rest \in Seq(Requests) /\ ready \in Seq(Requests)
        /\ prefetched \in Seq(Requests) /\ pending \in Seq(Requests)
      BY <2>1 DEF PlaceInv, Apart, Typed
  <2>3. r \in A \cup B \cup F \cup P \cup H \cup buffered \cup settled
          <=> r \in ToSet(Tasks) \/ \E q \in settled : r \in ToSet(Halves[q]) /\ Splits(q)
      BY <2>1 DEF PlaceInv, Held, Wanted, SplitOnes
  <2>4. /\ Cardinality({k \in DOMAIN prefetched : prefetched[k] = r}) = IF r \in P THEN 1 ELSE 0
        /\ Cardinality({k \in DOMAIN pending : pending[k] = r}) = IF r \in H THEN 1 ELSE 0
        /\ Cardinality({k \in DOMAIN ready : ready[k] = r}) = IF r \in B THEN 1 ELSE 0
        /\ Cardinality({k \in DOMAIN rest : rest[k] = r}) = IF r \in A THEN 1 ELSE 0
      BY <2>1, <2>2, AtOnePlace
  <2>5. Cardinality({S \in {F, buffered, settled} : r \in S})
          = IF r \in F \cup buffered \cup settled THEN 1 ELSE 0
    <3>1. CASE r \notin F \cup buffered \cup settled
      <4>1. {S \in {F, buffered, settled} : r \in S} = {}
          BY <3>1
      <4> QED  BY <3>1, <4>1, FS_EmptySet
    <3>2. CASE r \in F \cup buffered \cup settled
      <4>1. \E U : {S \in {F, buffered, settled} : r \in S} = {U}
        <5>1. PICK U \in {F, buffered, settled} : r \in U
            BY <3>2
        <5>2. \A S \in {F, buffered, settled} : r \in S => S = U
            BY <2>2, <5>1 DEF Disjoint
        <5>3. {S \in {F, buffered, settled} : r \in S} = {U}
            BY <5>1, <5>2
        <5> QED  BY <5>3
      <4> QED  BY <3>2, <4>1, FS_Singleton
    <3> QED  BY <3>1, <3>2
  <2>6. Occurrences(r) = (IF r \in P THEN 1 ELSE 0) + (IF r \in H THEN 1 ELSE 0)
                           + (IF r \in B THEN 1 ELSE 0) + (IF r \in A THEN 1 ELSE 0)
                           + (IF r \in F \cup buffered \cup settled THEN 1 ELSE 0)
      BY <2>1, <2>4, <2>5 DEF Occurrences
  <2>7. Occurrences(r) = IF r \in A \cup B \cup F \cup P \cup H \cup buffered \cup settled
                           THEN 1 ELSE 0
      BY <2>2, <2>6 DEF Disjoint
  <2> QED  BY <2>3, <2>7
<1> QED  BY <1>1, Scheduled, PTL DEF PhaseInv

\* What waits, is in hand or may still arrive fits its half of the buffer, a
\* batch the other half, and no response that was let in is refused.
THEOREM BudgetKept == Spec => []BudgetHolds
<1>1. BudgetInv => BudgetHolds
    BY BytesWeigh DEF BudgetInv, BudgetHolds
<1> QED  BY <1>1, Scheduled, PTL DEF PhaseInv

\* A phase that ends has settled what it let in, and leaves requests behind only
\* when it was stopped or starved.
THEOREM NoneLeftBehind == Spec => []EndsComplete
<1>1. EndInv => EndsComplete
    BY DEF EndInv, EndsComplete, Committing, Exhausted
<1> QED  BY <1>1, Scheduled, PTL DEF PhaseInv
===============================================================================
