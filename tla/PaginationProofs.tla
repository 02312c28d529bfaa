-------------------------- MODULE PaginationProofs --------------------------
(***************************************************************************)
(* Every day becomes what the provider has for it, for every history, row  *)
(* limit, cohort size, page count, byte bound and number of faults.        *)
(*                                                                         *)
(* The invariant says where each row is that the request in hand asks for: *)
(* due from exactly one call that is still to make, or in exactly one page *)
(* that is kept.  Bisection divides what a call is due to deliver; a page  *)
(* that is not full holds all of it; so do the windows of an offset run    *)
(* whose last page is not full.                                            *)
(***************************************************************************)
EXTENDS Pagination, Integers, FiniteSets, FiniteSetTheorems, WellFoundedInduction, SequenceTheorems, TLAPS

-----------------------------------------------------------------------------
(* Least and greatest numbers, and ranks.                                  *)

\* A nonempty set of natural numbers has a least element.
LEMMA NatLeast ==
    ASSUME NEW T \in SUBSET Nat, T # {}
    PROVE  \E x \in T : \A y \in T : x <= y
<1>1. PICK x \in T : \A y \in T : ~(<<y, x>> \in OpToRel(<, Nat))
    BY NatLessThanWellFounded, WFMin
<1>2. \A y \in T : ~(y < x)
    BY <1>1 DEF OpToRel
<1> QED  BY <1>2

\* A nonempty bounded one has a greatest element.
LEMMA NatGreatest ==
    ASSUME NEW n \in Nat, NEW T \in SUBSET (0 .. n), T # {}
    PROVE  \E x \in T : \A y \in T : y <= x
<1> DEFINE Bounds == {b \in Nat : \A y \in T : y <= b}
<1>1. n \in Bounds
    OBVIOUS
<1>2. PICK b \in Bounds : \A c \in Bounds : b <= c
    BY <1>1, NatLeast
<1>3. CASE b \in T
    BY <1>3
<1>4. CASE b \notin T
  <2>1. \A y \in T : y <= b - 1
      BY <1>4
  <2>2. b - 1 \in Nat
    <3>1. PICK y \in T : TRUE
        OBVIOUS
    <3>2. y \in Nat /\ y <= b - 1
        BY <2>1
    <3> QED  BY <3>2
  <2> QED  BY <1>2, <2>1, <2>2
<1> QED  BY <1>3, <1>4

\* A set of numbers up to n is finite.
LEMMA FinitePart ==
    ASSUME NEW n \in Nat, NEW S \in SUBSET (1 .. n)
    PROVE  IsFiniteSet(S) /\ Cardinality(S) \in Nat
<1>1. IsFiniteSet(1 .. n)
    BY FS_Interval
<1>2. IsFiniteSet(S)
    BY <1>1, FS_Subset
<1> QED  BY <1>2, FS_CardinalityType

\* The elements of a finite set of numbers can be counted off in order.
LEMMA RankExists ==
    ASSUME NEW n \in Nat, NEW S \in SUBSET (1 .. n), NEW i \in 1 .. Cardinality(S)
    PROVE  \E s \in S : Cardinality({t \in S : t <= s}) = i
<1> DEFINE Below(s) == {t \in S : t <= s}
           T == {s \in S : i <= Cardinality(Below(s))}
<1>0. /\ S \in SUBSET (0 .. n) /\ T \in SUBSET Nat
      /\ \A s : Below(s) \in SUBSET S
  <2>1. \A s \in S : s \in 1 .. n
      OBVIOUS
  <2>2. \A s \in S : s \in 0 .. n /\ s \in Nat
      BY <2>1
  <2> QED  BY <2>2
<1>1. IsFiniteSet(S) /\ Cardinality(S) \in Nat
    BY FinitePart
<1>2. \A s : IsFiniteSet(Below(s)) /\ Cardinality(Below(s)) \in Nat
    BY <1>0, <1>1, FS_Subset, FS_CardinalityType
<1>3. T # {}
  <2>1. S # {}
      BY <1>1, FS_EmptySet
  <2>2. PICK m \in S : \A t \in S : t <= m
      BY <1>0, <2>1, NatGreatest
  <2>3. Below(m) = S
      BY <2>2
  <2> QED  BY <1>1, <2>3
<1>4. PICK s \in T : \A t \in T : s <= t
  <2> HIDE DEF T
  <2> QED  BY <1>0, <1>3, NatLeast
<1>5. ASSUME Cardinality(Below(s)) # i PROVE FALSE
  <2> DEFINE R == Below(s) \ {s}
  <2>1. Cardinality(Below(s)) > i
      BY <1>2, <1>4, <1>5
  <2>2. Cardinality(R) = Cardinality(Below(s)) - 1
      BY <1>2, <1>4, FS_RemoveElement
  <2>3. R # {} /\ i <= Cardinality(R)
      BY <1>2, <2>1, <2>2, FS_EmptySet
  <2>4. PICK g \in R : \A t \in R : t <= g
    <3>1. R \in SUBSET (0 .. n)
        BY <1>0
    <3> HIDE DEF R
    <3> QED  BY <2>3, <3>1, NatGreatest
  <2>5. Below(g) = R
    <3>1. s \in Nat /\ g \in S /\ g <= s /\ g # s /\ \A t \in S : t \in Nat
        BY <1>0, <1>4, <2>4
    <3>2. ASSUME NEW t \in S PROVE t \in Below(g) <=> t \in R
        BY <2>4, <3>1
    <3>3. Below(g) \subseteq S /\ R \subseteq S
        BY <1>0
    <3> HIDE DEF Below, R
    <3> QED  BY <3>2, <3>3
  <2>6. g \in T /\ g < s
      BY <1>4, <2>3, <2>4, <2>5
  <2> QED  BY <1>4, <2>6
<1> QED  BY <1>4, <1>5

-----------------------------------------------------------------------------
(* Windows of rows.                                                        *)

\* Products with the page size are ordered as their factors.
LEMMA Multiples ==
    ASSUME NEW L \in Nat \ {0}, NEW x \in Int, NEW y \in Int
    PROVE  /\ x * L \in Int
           /\ (x + 1) * L = x * L + L
           /\ (x - 1) * L = x * L - L
           /\ x <= y => x * L <= y * L
           /\ x * L < y * L => x < y
<1>1. ASSUME x <= y PROVE x * L <= y * L
  <2>1. PICK z \in Nat : z = y - x
      BY <1>1
  <2>2. z * L \in Nat
      OBVIOUS
  <2>3. y = x + z
      BY <2>1
  <2>4. y * L = x * L + z * L
      BY <2>3
  <2> QED  BY <2>2, <2>4
<1>2. ASSUME x > y PROVE y * L <= x * L
  <2>1. PICK z \in Nat : z = x - y
      BY <1>2
  <2>2. z * L \in Nat
      OBVIOUS
  <2>3. x = y + z
      BY <2>1
  <2>4. x * L = y * L + z * L
      BY <2>3
  <2> QED  BY <2>2, <2>4
<1>3. x * L \in Int /\ (x + 1) * L = x * L + L /\ (x - 1) * L = x * L - L /\ y * L \in Int
    OBVIOUS
<1>4. (x = y) => x * L = y * L
    OBVIOUS
<1> QED  BY <1>1, <1>2, <1>3, <1>4

\* The rows of the provider's order are numbers.
LEMMA RowsBound == NumDays * NumAssets \in Nat /\ Rows \subseteq Nat
BY PaginationAssumption DEF Rows

Rank(S, r) == Cardinality({x \in S : x < r})

\* The rank of a row of a set of rows.
LEMMA RankType ==
    ASSUME NEW S \in SUBSET Rows, NEW r
    PROVE  IsFiniteSet({x \in S : x < r}) /\ Rank(S, r) \in Nat
<1>1. {x \in S : x < r} \in SUBSET (1 .. (NumDays * NumAssets))
    BY DEF Rows
<1> QED  BY <1>1, RowsBound, FinitePart DEF Rank

\* Those up to a row are one more than those below it.
LEMMA RankNext ==
    ASSUME NEW S \in SUBSET Rows, NEW r \in S
    PROVE  Cardinality({x \in S : x <= r}) = Rank(S, r) + 1
<1> DEFINE B == {x \in S : x < r}
<1>1. \A x \in S : x \in Nat
    BY RowsBound
<1>2. \A x \in S : x <= r <=> x < r \/ x = r
    BY <1>1
<1>3. {x \in S : x <= r} = B \cup {r}
    BY <1>2
<1>4. r \notin B
    BY <1>1
<1>5. IsFiniteSet(B) /\ Rank(S, r) = Cardinality(B)
    BY RankType DEF Rank
<1> HIDE DEF B
<1> QED  BY <1>3, <1>4, <1>5, FS_AddElement

\* Every lower rank than that of a row is the rank of a row.
LEMMA RankTaken ==
    ASSUME NEW S \in SUBSET Rows, NEW r \in S, NEW k \in Nat, k <= Rank(S, r)
    PROVE  \E s \in S : Rank(S, s) = k
<1> DEFINE T == {x \in S : x <= r}
           n == NumDays * NumAssets
<1>1. S \in SUBSET (1 .. n) /\ n \in Nat /\ T \in SUBSET (1 .. n)
    BY RowsBound DEF Rows
<1>2. Cardinality(T) = Rank(S, r) + 1 /\ Rank(S, r) \in Nat
    BY RankNext, RankType
<1>3. \A x \in S : x \in Nat
    BY RowsBound
<1>4. \A s \in T, t \in S : t <= s => t <= r
    BY <1>3
<1> HIDE DEF n
<1>5. k + 1 \in 1 .. Cardinality(T)
  <2> HIDE DEF T
  <2> QED  BY <1>2
<1>6. PICK s \in T : Cardinality({t \in T : t <= s}) = k + 1
  <2> HIDE DEF T
  <2> QED  BY <1>1, <1>5, RankExists
<1>7. {t \in T : t <= s} = {x \in S : x <= s}
    BY <1>4
<1>8. s \in S /\ Cardinality({x \in S : x <= s}) = Rank(S, s) + 1
    BY <1>7, RankNext
<1>9. Rank(S, s) \in Nat
    BY RankType
<1>10. Rank(S, s) + 1 = k + 1
    BY <1>6, <1>7, <1>8
<1>11. Rank(S, s) = k
    BY <1>9, <1>10
<1> QED  BY <1>8, <1>11

\* Rows of a set have different ranks.
LEMMA RankUnique ==
    ASSUME NEW S \in SUBSET Rows, NEW r \in S, NEW s \in S, r < s
    PROVE  Rank(S, r) < Rank(S, s)
<1> DEFINE T == {x \in S : x <= r}
           B == {x \in S : x < s}
<1>1. \A x \in S : x \in Nat
    BY RowsBound
<1>2. T \subseteq B
    BY <1>1
<1>3. IsFiniteSet(B) /\ Cardinality(B) = Rank(S, s)
    BY RankType DEF Rank
<1>4. Cardinality(T) = Rank(S, r) + 1
    BY RankNext
<1> HIDE DEF T, B
<1>5. Cardinality(T) <= Cardinality(B)
    BY <1>2, <1>3, FS_Subset
<1>6. Rank(S, r) \in Nat /\ Rank(S, s) \in Nat
    BY RankType
<1>7. Rank(S, r) + 1 <= Rank(S, s)
    BY <1>3, <1>4, <1>5
<1> QED  BY <1>6, <1>7

\* A window below a row of the set is full.
LEMMA WindowFull ==
    ASSUME NEW S \in SUBSET Rows, NEW r \in S, NEW k \in Nat, NEW n \in Nat \ {0},
           k + n <= Rank(S, r)
    PROVE  Cardinality(Window(S, k, n)) >= n
<1> DEFINE W == Window(S, k, n)
           f == [x \in k .. (k + n - 1) |-> CHOOSE s \in S : Rank(S, s) = x]
<1>1. ASSUME NEW x \in k .. (k + n - 1)
      PROVE  f[x] \in W /\ Rank(S, f[x]) = x
  <2>1. \E s \in S : Rank(S, s) = x
      BY RankTaken, RankType
  <2>2. f[x] \in S /\ Rank(S, f[x]) = x
      BY <2>1
  <2> QED  BY <2>2 DEF Window, Rank
<1>2. f \in Injection(k .. (k + n - 1), W)
    BY <1>1 DEF Injection, IsInjective
<1>3. IsFiniteSet(W)
  <2>1. W \in SUBSET (1 .. (NumDays * NumAssets))
      BY DEF Window, Rows
  <2> QED  BY <2>1, RowsBound, FinitePart
<1>4. IsFiniteSet(k .. (k + n - 1)) /\ Cardinality(k .. (k + n - 1)) = n
    BY FS_Interval
<1> HIDE DEF f, W
<1>5. Cardinality(k .. (k + n - 1)) <= Cardinality(W)
    BY <1>2, <1>3, FS_Injection
<1>6. Cardinality(W) \in Nat
    BY <1>3, FS_CardinalityType
<1> QED  BY <1>4, <1>5, <1>6 DEF W

\* The n-th window from the first row, of n rows each.
Nth(S, n, i) == Window(S, (i - 1) * n, n)

\* Successive windows have no row in common.
LEMMA WindowsApart ==
    ASSUME NEW S \in SUBSET Rows, NEW n \in Nat \ {0}, NEW i \in Nat \ {0}, NEW j \in Nat \ {0},
           i # j
    PROVE  Nth(S, n, i) \cap Nth(S, n, j) = {}
<1>1. ASSUME NEW a \in Nat \ {0}, NEW b \in Nat \ {0}, a < b,
             NEW r \in Nth(S, n, a), r \in Nth(S, n, b)
      PROVE  FALSE
  <2>1. /\ Rank(S, r) \in (a - 1) * n .. ((a - 1) * n + n - 1)
        /\ Rank(S, r) \in (b - 1) * n .. ((b - 1) * n + n - 1)
      BY <1>1 DEF Nth, Window, Rank
  <2>2. a * n <= (b - 1) * n /\ (a - 1) * n = a * n - n /\ a * n \in Int /\ (b - 1) * n \in Int
      BY <1>1, Multiples
  <2> QED  BY <2>1, <2>2
<1> QED  BY <1>1

\* When the last of them is not full they hold every row.
LEMMA WindowsCover ==
    ASSUME NEW S \in SUBSET Rows, NEW n \in Nat \ {0}, NEW m \in Nat \ {0}, NEW r \in S,
           Cardinality(Nth(S, n, m)) < n
    PROVE  \E i \in 1 .. m : r \in Nth(S, n, i)
<1>1. Rank(S, r) \in Nat /\ m * n \in Int /\ (m - 1) * n \in Nat /\ (m - 1) * n = m * n - n
  <2>1. m * n \in Int /\ (m - 1) * n \in Int /\ (m - 1) * n = m * n - n /\ 0 * n <= (m - 1) * n
      BY Multiples
  <2>2. Rank(S, r) \in Nat
      BY RankType
  <2>3. 0 * n = 0
      OBVIOUS
  <2> QED  BY <2>1, <2>2, <2>3
<1>2. Rank(S, r) < m * n
  <2>1. ASSUME (m - 1) * n + n <= Rank(S, r) PROVE FALSE
    <3>1. Cardinality(Nth(S, n, m)) >= n
        BY <1>1, <2>1, WindowFull DEF Nth
    <3>2. Cardinality(Nth(S, n, m)) \in Nat
      <4>1. Nth(S, n, m) \in SUBSET (1 .. (NumDays * NumAssets))
          BY DEF Nth, Window, Rows
      <4> QED  BY <4>1, RowsBound, FinitePart
    <3> QED  BY <3>1, <3>2
  <2> QED  BY <1>1, <2>1
<1> DEFINE T == {i \in Nat \ {0} : Rank(S, r) < i * n}
<1>3. PICK i \in T : \A j \in T : i <= j
  <2>1. m \in T /\ T \in SUBSET Nat
      BY <1>2
  <2> HIDE DEF T
  <2> QED  BY <2>1, NatLeast
<1>4. i \in 1 .. m
    BY <1>2, <1>3
<1>5. (i - 1) * n <= Rank(S, r)
  <2>1. CASE i = 1
      BY <1>1, <2>1, Multiples
  <2>2. CASE i # 1
    <3>1. i - 1 \in Nat \ {0} /\ ~(i <= i - 1)
        BY <1>4, <2>2
    <3>2. i - 1 \notin T
        BY <1>3, <3>1
    <3>3. (i - 1) * n \in Int
        BY <1>4, Multiples
    <3> QED  BY <1>1, <3>1, <3>2, <3>3
  <2> QED  BY <2>1, <2>2
<1>6. (i - 1) * n = i * n - n /\ i * n \in Int /\ Rank(S, r) < i * n
    BY <1>3, <1>4, Multiples
<1>7. Rank(S, r) \in (i - 1) * n .. ((i - 1) * n + n - 1)
    BY <1>1, <1>5, <1>6
<1> QED  BY <1>4, <1>7 DEF Nth, Window, Rank

-----------------------------------------------------------------------------
(* Types.                                                                  *)

Calls == [days : SUBSET Days, assets : SUBSET Assets]
Pages == [rows : SUBSET Rows, kept : BOOLEAN,
          status : {"success", "invalid", "oversized", "failed", "cancelled"}]
Outcomes == {"unclaimed", "running", "buffered", "empty", "invalid", "failed"}

TypeInv ==
    /\ options \in OptionSets /\ history \in SUBSET Rows
    /\ loose \in BOOLEAN /\ (loose => options.kind = "scan")
    /\ requests \in Seq(SUBSET Days) /\ scopes \in SUBSET Days
    /\ calls \in Seq(Calls) /\ pages \in Seq(Pages)
    /\ base \in Nat \cup {NotPaging} /\ attempts \in Nat
    /\ cancelled \in BOOLEAN /\ faults \in Nat
    /\ outcome \in [Days -> Outcomes] /\ held \in [Rows -> Nat]

\* The requests to come and the one in hand share no day, and their days have no outcome.
ClaimInv ==
    /\ \A i \in DOMAIN requests : requests[i] # {} /\ requests[i] \cap scopes = {}
    /\ \A i, j \in DOMAIN requests : i # j => requests[i] \cap requests[j] = {}
    /\ \A d \in Days : d \in scopes \/ (\E i \in DOMAIN requests : d \in requests[i])
                      => outcome[d] = "running"

\* The bounds of the model and of the provider.
LEMMA Constants ==
    /\ NumDays \in Nat \ {0} /\ NumAssets \in Nat \ {0} /\ CohortSize \in Nat \ {0}
    /\ RowLimit \in Nat \ {0} /\ MaxFaults \in Nat
BY PaginationAssumption

\* Pages of every kind are pages.
LEMMA PageTypes ==
    /\ \A rows \in SUBSET Rows : Page(rows) \in Pages /\ Page(rows).kept /\ Page(rows).rows = rows
                                 /\ Page(rows).status = "success"
    /\ \A page \in Pages : Dropped(page) \in Pages /\ ~Dropped(page).kept
                           /\ Dropped(page).status = page.status
    /\ \A status \in {"invalid", "oversized", "failed", "cancelled"} :
          BadPage(status) \in Pages /\ BadPage(status).status # "success"
BY DEF Page, Dropped, BadPage, Pages

\* A page that says that a call failed, or that the bound was exceeded, makes all fail.
LEMMA BadFails ==
    ASSUME NEW ps \in Seq(Pages), NEW bad \in Pages, bad.status # "success"
    PROVE  Append(ps, bad) \in Seq(Pages) /\ Failing(Append(ps, bad))
<1>1. Append(ps, bad) \in Seq(Pages) /\ Len(ps) + 1 \in DOMAIN Append(ps, bad)
      /\ Append(ps, bad)[Len(ps) + 1] = bad
    OBVIOUS
<1> QED  BY <1>1 DEF Failing

\* Nothing of what exceeds the bound is kept, and it fails.
LEMMA BoundFails ==
    ASSUME NEW ps \in Seq(Pages), ~WithinBuffer(ps)
    PROVE  Bound(ps) \in Seq(Pages) /\ Failing(Bound(ps))
<1> DEFINE qs == [i \in DOMAIN ps |-> Dropped(ps[i])]
<1>1. qs \in Seq(Pages)
  <2>1. DOMAIN ps = 1 .. Len(ps) /\ Len(ps) \in Nat /\ \A i \in DOMAIN ps : ps[i] \in Pages
      OBVIOUS
  <2>2. qs \in [1 .. Len(ps) -> Pages]
      BY <2>1, PageTypes
  <2> HIDE DEF qs
  <2> QED  BY <2>1, <2>2, IsASeq
<1>2. Bound(ps) = Append(qs, BadPage("oversized"))
    BY DEF Bound
<1> HIDE DEF qs
<1> QED  BY <1>1, <1>2, PageTypes, BadFails

\* A page of rows fails as little as the pages before it.
LEMMA GoodPage ==
    ASSUME NEW ps \in Seq(Pages), NEW p \in Pages, p.status = "success", ~Failing(ps)
    PROVE  Append(ps, p) \in Seq(Pages) /\ ~Failing(Append(ps, p))
<1>1. /\ Append(ps, p) \in Seq(Pages)
      /\ \A i \in DOMAIN Append(ps, p) :
            Append(ps, p)[i] = p \/ (i \in DOMAIN ps /\ Append(ps, p)[i] = ps[i])
    OBVIOUS
<1> QED  BY <1>1 DEF Failing

-----------------------------------------------------------------------------
(* Where the rows of the request in hand are: each row it asks for is      *)
(* either due from exactly one call that is still to make or in exactly    *)
(* one page that is kept, the pages of a run of offsets under way apart.   *)

\* What a call is to deliver: a cohort's call only its own assets.
Due(call) == {r \in Matching(call) : options.kind = "scan" => Asset(r) \in call.assets}
Waiting(cs, r) == \E i \in DOMAIN cs : r \in Due(cs[i])
\* The pages, of the first n, that a row is in.
In(ps, r, n) == {i \in 1 .. n : ps[i].kept /\ r \in ps[i].rows}
Before(ps, b) == IF b = NotPaging THEN Len(ps) ELSE b

\* The calls still to make: intervals of the days asked for, no row due from two.
Orderly(span, cs) ==
    /\ \A i \in DOMAIN cs : cs[i].days \subseteq span
                            /\ \E lo, hi \in Days : lo <= hi /\ cs[i].days = lo .. hi
    /\ \A i, j \in DOMAIN cs : i # j => Due(cs[i]) \cap Due(cs[j]) = {}
    /\ options.kind = "daily" => Len(cs) <= 1

Once(span, cs, ps, n) ==
    \A r \in Rows :
        IF r \in history /\ Day(r) \in span /\ ~Waiting(cs, r)
        THEN \E i \in 1 .. n : In(ps, r, n) = {i}
        ELSE In(ps, r, n) = {}

\* The pages of a run of offsets: full windows of what its call matches, in order.
Run(cs, ps, b) ==
    b # NotPaging =>
        /\ cs # <<>> /\ b <= Len(ps)
        /\ \A i \in (b + 1) .. Len(ps) :
              /\ ps[i].kept /\ ps[i].rows = Nth(Matching(Head(cs)), RowLimit, i - b)
              /\ Cardinality(ps[i].rows) >= RowLimit

FetchAt(span, cs, ps, b) ==
    /\ cs = <<>> => b = NotPaging
    /\ Failing(ps) => cs = <<>>
    /\ ~Failing(ps) => /\ Orderly(span, cs)
                       /\ Once(span, cs, ps, Before(ps, b))
                       /\ Run(cs, ps, b)
                       /\ options.kind = "scan" /\ cs # <<>> => b # NotPaging

\* The days that are asked for: a scan asks for all of them.
Span == IF options.kind = "scan" THEN Days ELSE Min(scopes) .. Max(scopes)

FetchInv == scopes # {} => FetchAt(Span, calls, pages, base)

\* The inductive invariant.
IInv == TypeInv /\ ClaimInv /\ FetchInv /\ SettledAsProvided

\* A request that failed is at its end.
LEMMA FailedEnd ==
    ASSUME NEW span, NEW ps, Failing(ps)
    PROVE  FetchAt(span, <<>>, ps, NotPaging)
BY DEF FetchAt

\* The first of the calls has delivered all that was due from it, each row in one page.
LEMMA Delivered ==
    ASSUME NEW span, NEW cs \in Seq(Calls), cs # <<>>, NEW ps, NEW n, NEW qs, NEW m,
           Orderly(span, cs), Once(span, cs, ps, n), history \in SUBSET Rows,
           \A r \in Due(Head(cs)) : \E i : In(qs, r, m) = In(ps, r, n) \cup {i},
           \A r \in Rows \ Due(Head(cs)) : In(qs, r, m) = In(ps, r, n)
    PROVE  Orderly(span, Tail(cs)) /\ Once(span, Tail(cs), qs, m)
<1>1. /\ Tail(cs) \in Seq(Calls) /\ Len(Tail(cs)) = Len(cs) - 1 /\ Head(cs) = cs[1]
      /\ DOMAIN cs = 1 .. Len(cs) /\ 1 \in DOMAIN cs
      /\ DOMAIN Tail(cs) = 1 .. (Len(cs) - 1)
      /\ \A i \in DOMAIN Tail(cs) : Tail(cs)[i] = cs[i + 1] /\ i + 1 \in DOMAIN cs /\ i + 1 # 1
      /\ \A i \in DOMAIN cs : i # 1 => i - 1 \in DOMAIN Tail(cs) /\ cs[i] = Tail(cs)[i - 1]
    OBVIOUS
<1>2. Orderly(span, Tail(cs))
  <2>1. \A i, j \in DOMAIN Tail(cs) : i # j => i + 1 # j + 1
      BY <1>1
  <2> QED  BY <1>1, <2>1 DEF Orderly
<1>3. \A r : Waiting(cs, r) <=> r \in Due(Head(cs)) \/ Waiting(Tail(cs), r)
    BY <1>1 DEF Waiting
<1>4. \A r \in Due(Head(cs)) : ~Waiting(Tail(cs), r)
    BY <1>1 DEF Waiting, Orderly
<1>5. \A r \in Due(Head(cs)) : r \in history /\ r \in Rows /\ Day(r) \in span
    BY <1>1 DEF Due, Matching, Orderly
<1>6. Once(span, Tail(cs), qs, m)
  <2> SUFFICES ASSUME NEW r \in Rows
               PROVE  IF r \in history /\ Day(r) \in span /\ ~Waiting(Tail(cs), r)
                      THEN \E i \in 1 .. m : In(qs, r, m) = {i}
                      ELSE In(qs, r, m) = {}
      BY DEF Once
  <2>1. CASE r \in Due(Head(cs))
    <3>1. In(ps, r, n) = {}
        BY <1>3, <2>1 DEF Once
    <3>2. PICK i : In(qs, r, m) = {i}
        BY <2>1, <3>1
    <3>3. i \in 1 .. m
        BY <3>2 DEF In
    <3> QED  BY <1>4, <1>5, <2>1, <3>2, <3>3
  <2>2. CASE r \notin Due(Head(cs))
    <3>1. In(qs, r, m) = In(ps, r, n)
        BY <2>2
    <3>2. Waiting(cs, r) <=> Waiting(Tail(cs), r)
        BY <1>3, <2>2
    <3>3. CASE r \in history /\ Day(r) \in span /\ ~Waiting(cs, r)
      <4>1. PICK i \in 1 .. n : In(ps, r, n) = {i}
          BY <3>3 DEF Once
      <4>2. In(qs, r, m) = {i}
          BY <3>1, <4>1
      <4>3. i \in 1 .. m
          BY <4>2 DEF In
      <4> QED  BY <3>2, <3>3, <4>2, <4>3
    <3>4. CASE ~(r \in history /\ Day(r) \in span /\ ~Waiting(cs, r))
        BY <3>1, <3>2, <3>4 DEF Once
    <3> QED  BY <3>3, <3>4
  <2> QED  BY <2>1, <2>2
<1> QED  BY <1>2, <1>6

-----------------------------------------------------------------------------
(* A request begins.                                                       *)

\* Division with remainder.
LEMMA Quotient ==
    ASSUME NEW a \in Nat, NEW b \in Nat \ {0}
    PROVE  /\ a \div b \in Nat /\ a % b \in 0 .. (b - 1)
           /\ (a \div b) * b <= a /\ a < ((a \div b) + 1) * b
<1>1. a \div b \in Int /\ a % b \in 0 .. (b - 1) /\ a = (a \div b) * b + (a % b)
    OBVIOUS
<1>2. a \div b >= 0
    OBVIOUS
<1>3. (a \div b) * b \in Int /\ ((a \div b) + 1) * b = (a \div b) * b + b
    BY <1>1, Multiples
<1> QED  BY <1>1, <1>2, <1>3

\* Every row is of one of the days and of one of the assets.
LEMMA DayAsset ==
    ASSUME NEW r \in Rows
    PROVE  Day(r) \in Days /\ Asset(r) \in Assets
<1> DEFINE q == (r - 1) \div NumAssets
<1>1. r - 1 \in Nat /\ r - 1 < NumDays * NumAssets /\ NumDays * NumAssets \in Nat
    BY RowsBound DEF Rows
<1>2. q \in Nat /\ q * NumAssets <= r - 1 /\ (r - 1) % NumAssets \in 0 .. (NumAssets - 1)
    BY <1>1, Quotient, Constants
<1>3. q * NumAssets \in Int /\ (q * NumAssets < NumDays * NumAssets => q < NumDays)
    BY <1>2, Multiples, Constants
<1>4. q < NumDays
    BY <1>1, <1>2, <1>3
<1>5. Day(r) = q + 1
    BY DEF Day
<1> HIDE DEF q
<1>6. Day(r) \in Days
    BY <1>2, <1>4, <1>5, Constants DEF Days
<1>7. Asset(r) \in Assets
    BY <1>2, Constants DEF Asset, Assets
<1> QED  BY <1>6, <1>7

\* Every asset is in one of the cohorts, of which there is one at least.
LEMMA CohortsCover ==
    LET Q == (NumAssets + CohortSize - 1) \div CohortSize IN
    /\ Q \in Nat \ {0}
    /\ \A a \in Assets : \E i \in 1 .. Q : (a - 1) \div CohortSize = i - 1
<1> DEFINE n == NumAssets + CohortSize - 1
           Q == n \div CohortSize
<1>1. n \in Nat /\ Q \in Nat /\ n < (Q + 1) * CohortSize /\ (Q + 1) * CohortSize = Q * CohortSize + CohortSize
      /\ Q * CohortSize \in Int
  <2>1. n \in Nat /\ CohortSize \in Nat \ {0}
      BY Constants
  <2> HIDE DEF n
  <2>2. Q \in Nat /\ n < (Q + 1) * CohortSize
      BY <2>1, Quotient
  <2> HIDE DEF Q
  <2>3. (Q + 1) * CohortSize = Q * CohortSize + CohortSize /\ Q * CohortSize \in Int
      BY <2>1, <2>2, Multiples
  <2> QED  BY <2>1, <2>2, <2>3
<1>2. NumAssets <= Q * CohortSize
  <2> HIDE DEF Q
  <2> QED  BY <1>1, Constants
<1> HIDE DEF Q, n
<1>3. ASSUME NEW a \in Assets
      PROVE  (a - 1) \div CohortSize \in Nat /\ (a - 1) \div CohortSize < Q
  <2>1. a - 1 \in Nat /\ a - 1 < Q * CohortSize
      BY <1>1, <1>2, Constants DEF Assets
  <2>2. PICK q : q = (a - 1) \div CohortSize
      OBVIOUS
  <2>3. q \in Nat /\ q * CohortSize <= a - 1
      BY <2>1, <2>2, Quotient, Constants
  <2>4. q * CohortSize \in Int /\ (q * CohortSize < Q * CohortSize => q < Q)
      BY <1>1, <2>3, Multiples, Constants
  <2> QED  BY <1>1, <2>1, <2>2, <2>3, <2>4
<1>4. Q # 0
  <2>1. 1 \in Assets
      BY Constants DEF Assets
  <2> QED  BY <1>1, <1>3, <2>1
<1>5. \A a \in Assets : \E i \in 1 .. Q : (a - 1) \div CohortSize = i - 1
  <2> TAKE a \in Assets
  <2>1. PICK q \in Nat : q = (a - 1) \div CohortSize /\ q < Q
      BY <1>3
  <2>2. q + 1 \in 1 .. Q /\ q = (q + 1) - 1
      BY <1>1, <2>1
  <2> QED  BY <2>1, <2>2
<1> QED  BY <1>1, <1>4, <1>5 DEF Q, n

\* The first and the last of some days.
LEMMA Extremes ==
    ASSUME NEW S \in SUBSET Days, S # {}
    PROVE  /\ Min(S) \in S /\ Max(S) \in S
           /\ \A d \in S : d \in Min(S) .. Max(S)
           /\ Min(S) .. Max(S) \subseteq Days
<1>1. S \in SUBSET Nat /\ S \in SUBSET (0 .. NumDays) /\ NumDays \in Nat
    BY Constants DEF Days
<1>2. \E x \in S : \A y \in S : x <= y
    BY <1>1, NatLeast
<1>3. \E x \in S : \A y \in S : y <= x
    BY <1>1, NatGreatest
<1>4. \E x \in S : \A y \in S : x >= y
    BY <1>1, <1>3
<1>5. Min(S) \in S /\ \A y \in S : Min(S) <= y
    BY <1>2 DEF Min
<1>6. Max(S) \in S /\ \A y \in S : Max(S) >= y
    BY <1>4 DEF Max
<1>7. PICK lo, hi \in S : lo = Min(S) /\ hi = Max(S)
    BY <1>5, <1>6
<1>8. \A d \in S : lo <= d /\ d <= hi /\ d \in 1 .. NumDays
    BY <1>5, <1>6, <1>7 DEF Days
<1>9. lo .. hi \subseteq Days
    BY <1>1, <1>8 DEF Days
<1>10. \A d \in S : d \in lo .. hi
    BY <1>1, <1>8
<1> QED  BY <1>5, <1>6, <1>7, <1>9, <1>10

\* The first calls for a request are due to deliver what it asks for.
LEMMA CallsCover ==
    ASSUME options \in OptionSets, history \in SUBSET Rows, NEW days \in SUBSET Days, days # {},
           NEW span, span = IF options.kind = "scan" THEN Days ELSE Min(days) .. Max(days)
    PROVE  /\ CallsOf(days) \in Seq(Calls) /\ CallsOf(days) # <<>>
           /\ Orderly(span, CallsOf(days))
           /\ \A r \in history : Day(r) \in span => Waiting(CallsOf(days), r)
<1>1. CASE options.kind = "scan"
  <2> DEFINE Q == (NumAssets + CohortSize - 1) \div CohortSize
             Of(i) == {a \in Assets : (a - 1) \div CohortSize = i - 1}
  <2>1. Q \in Nat \ {0} /\ \A a \in Assets : \E i \in 1 .. Q : (a - 1) \div CohortSize = i - 1
      BY CohortsCover
  <2>2. /\ CallsOf(days) = Cohorts /\ Cohorts \in Seq(Calls) /\ DOMAIN Cohorts = 1 .. Q
        /\ Len(Cohorts) = Q
        /\ \A i \in 1 .. Q : Cohorts[i] = [days |-> Days, assets |-> Of(i)]
    <3>1. Cohorts = [i \in 1 .. Q |-> [days |-> Days, assets |-> Of(i)]]
        BY DEF Cohorts
    <3>2. \A i \in 1 .. Q : [days |-> Days, assets |-> Of(i)] \in Calls
        BY DEF Calls
    <3> HIDE DEF Q, Of
    <3>3. Cohorts \in Seq(Calls)
        BY <2>1, <3>1, <3>2
    <3>4. DOMAIN Cohorts = 1 .. Q
        BY <3>1
    <3> QED  BY <1>1, <2>1, <3>1, <3>3, <3>4, LenProperties DEF CallsOf
  <2>3. \A i \in 1 .. Q : Due(Cohorts[i]) = {r \in Matching(Cohorts[i]) : Asset(r) \in Of(i)}
    <3> TAKE i \in 1 .. Q
    <3> HIDE DEF Of, Q
    <3>1. Cohorts[i].assets = Of(i)
        BY <2>2
    <3> QED  BY <1>1, <3>1 DEF Due
  <2>4. ASSUME NEW i \in 1 .. Q, NEW j \in 1 .. Q, i # j
        PROVE  Due(Cohorts[i]) \cap Due(Cohorts[j]) = {}
    <3>1. Of(i) \cap Of(j) = {}
        BY <2>4
    <3> HIDE DEF Of, Q
    <3> QED  BY <2>3, <3>1
  <2>5. ASSUME NEW r \in history
        PROVE  Waiting(Cohorts, r)
    <3>1. Day(r) \in Days /\ Asset(r) \in Assets
        BY DayAsset
    <3>2. PICK i \in 1 .. Q : (Asset(r) - 1) \div CohortSize = i - 1
        BY <2>1, <3>1
    <3>3. Asset(r) \in Of(i)
        BY <3>1, <3>2
    <3> HIDE DEF Of, Q
    <3>4. r \in Matching(Cohorts[i])
        BY <2>2, <3>1, <3>3 DEF Matching
    <3> QED  BY <2>2, <2>3, <3>3, <3>4 DEF Waiting
  <2>6. 1 \in Days /\ NumDays \in Days /\ 1 <= NumDays /\ Days = 1 .. NumDays
      BY Constants DEF Days
  <2>7. span = Days /\ options.kind # "daily"
      BY <1>1
  <2> HIDE DEF Of, Q
  <2>8. \A i \in DOMAIN Cohorts : Cohorts[i].days = Days
      BY <2>2
  <2>9. Orderly(span, Cohorts)
    <3>1. \A i \in DOMAIN Cohorts : Cohorts[i].days \subseteq span
                            /\ \E lo, hi \in Days : lo <= hi /\ Cohorts[i].days = lo .. hi
        BY <2>6, <2>7, <2>8
    <3>2. \A i, j \in DOMAIN Cohorts : i # j => Due(Cohorts[i]) \cap Due(Cohorts[j]) = {}
        BY <2>2, <2>4
    <3> QED  BY <2>7, <3>1, <3>2 DEF Orderly
  <2>10. Cohorts # <<>>
      BY <2>1, <2>2
  <2> QED  BY <2>2, <2>5, <2>9, <2>10
<1>2. CASE options.kind # "scan"
  <2>1. CallsOf(days) = <<Whole(days)>> /\ span = Min(days) .. Max(days)
      BY <1>2 DEF CallsOf
  <2>2. PICK lo, hi \in Days : lo = Min(days) /\ hi = Max(days) /\ lo <= hi /\ span \subseteq Days
    <3>1. Min(days) \in Days /\ Max(days) \in Days /\ Min(days) \in Min(days) .. Max(days)
          /\ span \subseteq Days
        BY <2>1, Extremes
    <3> QED  BY <3>1, Constants DEF Days
  <2>3. Whole(days) = [days |-> lo .. hi, assets |-> Assets] /\ span = lo .. hi
      BY <2>1, <2>2 DEF Whole
  <2>4. Whole(days) \in Calls
      BY <2>2, <2>3 DEF Calls
  <2>5. CallsOf(days) \in Seq(Calls) /\ Len(CallsOf(days)) = 1 /\ CallsOf(days)[1] = Whole(days)
        /\ DOMAIN CallsOf(days) = {1}
      BY <2>1, <2>4
  <2>6. Orderly(span, CallsOf(days))
      BY <2>2, <2>3, <2>5 DEF Orderly
  <2>7. ASSUME NEW r \in history, Day(r) \in span PROVE Waiting(CallsOf(days), r)
    <3>1. Asset(r) \in Assets /\ Day(r) \in lo .. hi
        BY <2>3, <2>7, DayAsset
    <3>2. r \in Matching(Whole(days))
        BY <2>3, <3>1 DEF Matching
    <3> QED  BY <1>2, <2>5, <3>2 DEF Waiting, Due
  <2>8. CallsOf(days) # <<>>
      BY <2>5
  <2> QED  BY <2>5, <2>6, <2>7, <2>8
<1> QED  BY <1>1, <1>2

\* Before a request has pages every row it asks for is due.
LEMMA NothingYet ==
    ASSUME options \in OptionSets, history \in SUBSET Rows, NEW days \in SUBSET Days, days # {},
           NEW span, span = (IF options.kind = "scan" THEN Days ELSE Min(days) .. Max(days)),
           NEW b, b = (IF options.paged THEN 0 ELSE NotPaging)
    PROVE  FetchAt(span, CallsOf(days), <<>>, b)
<1> DEFINE cs == CallsOf(days)
<1>1. /\ cs \in Seq(Calls) /\ cs # <<>> /\ Orderly(span, cs)
      /\ \A r \in history : Day(r) \in span => Waiting(cs, r)
    BY CallsCover
<1> HIDE DEF cs
<1>2. ~Failing(<<>>)
    BY DEF Failing
<1>3. Before(<<>>, b) = 0
    BY DEF Before
<1>4. \A r : In(<<>>, r, 0) = {}
    BY DEF In
<1>5. Once(span, cs, <<>>, 0)
    BY <1>1, <1>4 DEF Once
<1>6. Run(cs, <<>>, b)
    BY <1>1 DEF Run
<1>7. options.kind = "scan" => b # NotPaging
  <2>1. options.kind = "scan" => options.paged
      BY DEF OptionSets
  <2> QED  BY <2>1 DEF NotPaging
<1> QED  BY <1>1, <1>2, <1>3, <1>5, <1>6, <1>7 DEF FetchAt, cs

-----------------------------------------------------------------------------
(* A call is answered.                                                     *)

\* A further page holds what it holds if it is kept.
LEMMA InAppend ==
    ASSUME NEW ps \in Seq(Pages), NEW p \in Pages, NEW r
    PROVE  /\ \A n \in 0 .. Len(ps) : In(Append(ps, p), r, n) = In(ps, r, n)
           /\ In(Append(ps, p), r, Len(ps) + 1) =
                 In(ps, r, Len(ps)) \cup (IF p.kept /\ r \in p.rows THEN {Len(ps) + 1} ELSE {})
<1>1. /\ Len(ps) \in Nat /\ Append(ps, p)[Len(ps) + 1] = p
      /\ \A i \in 1 .. Len(ps) : Append(ps, p)[i] = ps[i]
    OBVIOUS
<1>2. \A n \in 0 .. Len(ps) : In(Append(ps, p), r, n) = In(ps, r, n)
  <2> TAKE n \in 0 .. Len(ps)
  <2>1. \A i \in 1 .. n : Append(ps, p)[i] = ps[i]
      BY <1>1
  <2> QED  BY <2>1 DEF In
<1>3. 1 .. (Len(ps) + 1) = (1 .. Len(ps)) \cup {Len(ps) + 1}
    BY <1>1
<1>4. ASSUME NEW i \in 1 .. (Len(ps) + 1)
      PROVE  i \in In(Append(ps, p), r, Len(ps) + 1)
             <=> i \in In(ps, r, Len(ps)) \/ (i = Len(ps) + 1 /\ p.kept /\ r \in p.rows)
  <2>1. CASE i \in 1 .. Len(ps)
      BY <1>1, <2>1 DEF In
  <2>2. CASE i = Len(ps) + 1
      BY <1>1, <2>2 DEF In
  <2> QED  BY <1>3, <2>1, <2>2
<1>5. In(Append(ps, p), r, Len(ps) + 1) \subseteq 1 .. (Len(ps) + 1)
      /\ In(ps, r, Len(ps)) \subseteq 1 .. (Len(ps) + 1)
    BY <1>3 DEF In
<1>6. Len(ps) + 1 \in 1 .. (Len(ps) + 1)
    BY <1>1
<1> QED  BY <1>2, <1>4, <1>5, <1>6

\* What the provider has for a call, and what the call is to deliver, are rows.
LEMMA RowsMatch ==
    ASSUME history \in SUBSET Rows, NEW call
    PROVE  /\ Matching(call) \in SUBSET Rows /\ Due(call) \subseteq Matching(call)
           /\ options.kind # "scan" => Due(call) = Matching(call)
           /\ \A k, n : Window(Matching(call), k, n) \in SUBSET Rows
BY DEF Matching, Due, Window

\* The halves of a call are due to deliver what it is.
LEMMA HalvesCover ==
    ASSUME NEW span, NEW cs \in Seq(Calls), cs # <<>>, Orderly(span, cs),
           options.kind = "range", Cardinality(Head(cs).days) > 1
    PROVE  LET hs == Halves(Head(cs)) \o Tail(cs) IN
           /\ hs \in Seq(Calls) /\ hs # <<>> /\ Orderly(span, hs)
           /\ \A r : Waiting(hs, r) <=> Waiting(cs, r)
<1>1. /\ Head(cs) = cs[1] /\ 1 \in DOMAIN cs /\ Head(cs) \in Calls
      /\ DOMAIN cs = 1 .. Len(cs) /\ Tail(cs) \in Seq(Calls) /\ Len(Tail(cs)) = Len(cs) - 1
      /\ \A i \in 1 .. (Len(cs) - 1) : Tail(cs)[i] = cs[i + 1]
      /\ Len(cs) \in Nat \ {0}
    OBVIOUS
<1>2. PICK call \in Calls : call = Head(cs)
    BY <1>1
<1>3. PICK lo, hi \in Days : lo <= hi /\ call.days = lo .. hi /\ call.days \subseteq span
    BY <1>1, <1>2 DEF Orderly
<1>4. lo \in Nat /\ hi \in Nat /\ lo \in lo .. hi /\ hi \in lo .. hi
    BY <1>3, Constants DEF Days
<1>5. lo < hi
  <2>1. ASSUME lo = hi PROVE FALSE
    <3>1. lo .. hi = {lo}
        BY <1>4, <2>1
    <3>2. Cardinality({lo}) = 1
        BY FS_Singleton
    <3>3. Head(cs).days = {lo}
        BY <1>2, <1>3, <3>1
    <3>4. Cardinality(Head(cs).days) = 1
        BY <3>2, <3>3
    <3> QED  BY <3>4
  <2> QED  BY <1>3, <1>4, <2>1
<1>6. Min(lo .. hi) = lo /\ Max(lo .. hi) = hi
  <2>1. lo .. hi \in SUBSET Days /\ lo .. hi # {}
      BY <1>3, <1>4 DEF Calls
  <2>2. PICK a, b \in lo .. hi : a = Min(lo .. hi) /\ b = Max(lo .. hi)
                                /\ \A d \in lo .. hi : d \in a .. b
      BY <2>1, Extremes
  <2>3. lo \in a .. b /\ hi \in a .. b
      BY <1>4, <2>2
  <2>4. a = lo /\ b = hi
      BY <1>4, <2>2, <2>3
  <2> QED  BY <2>2, <2>4
<1> DEFINE mid == lo + ((hi - lo) \div 2)
           one == [call EXCEPT !.days = lo .. mid]
           two == [call EXCEPT !.days = (mid + 1) .. hi]
           hs == <<one, two>> \o Tail(cs)
<1>7. mid \in Nat /\ lo <= mid /\ mid < hi
    BY <1>4, <1>5
<1>8. Halves(Head(cs)) = <<one, two>>
    BY <1>2, <1>3, <1>6 DEF Halves
<1> HIDE DEF mid
<1>9. one \in Calls /\ two \in Calls /\ one.days = lo .. mid /\ two.days = (mid + 1) .. hi
      /\ one.assets = call.assets /\ two.assets = call.assets
  <2>1. lo .. hi \subseteq Days
      BY <1>3 DEF Calls
  <2>2. lo .. mid \subseteq lo .. hi /\ (mid + 1) .. hi \subseteq lo .. hi
      BY <1>4, <1>7
  <2> QED  BY <2>1, <2>2 DEF Calls
<1>10. lo .. hi = (lo .. mid) \cup ((mid + 1) .. hi) /\ (lo .. mid) \cap ((mid + 1) .. hi) = {}
    BY <1>4, <1>7
<1> HIDE DEF one, two
<1>11. /\ hs \in Seq(Calls) /\ Len(hs) = Len(cs) + 1 /\ hs[1] = one /\ hs[2] = two
       /\ \A i \in 3 .. (Len(cs) + 1) : hs[i] = cs[i - 1]
  <2>1. <<one, two>> \in Seq(Calls) /\ Len(<<one, two>>) = 2
        /\ <<one, two>>[1] = one /\ <<one, two>>[2] = two
      BY <1>9
  <2>2. /\ hs \in Seq(Calls) /\ Len(hs) = 2 + Len(Tail(cs))
        /\ \A i \in 1 .. Len(hs) : hs[i] = IF i <= 2 THEN <<one, two>>[i] ELSE Tail(cs)[i - 2]
      BY <1>1, <2>1, ConcatProperties
  <2> HIDE DEF hs
  <2>3. Len(hs) = Len(cs) + 1 /\ 1 \in 1 .. Len(hs) /\ 2 \in 1 .. Len(hs)
      BY <1>1, <2>2
  <2>4. ASSUME NEW i \in 3 .. (Len(cs) + 1) PROVE hs[i] = cs[i - 1]
    <3>1. i \in 1 .. Len(hs) /\ ~(i <= 2) /\ i - 2 \in 1 .. (Len(cs) - 1) /\ (i - 2) + 1 = i - 1
        BY <1>1, <2>3, <2>4
    <3> QED  BY <1>1, <2>2, <3>1
  <2> QED  BY <2>1, <2>2, <2>3, <2>4
<1> HIDE DEF hs
<1>12. /\ DOMAIN hs = 1 .. (Len(cs) + 1)
       /\ \A i \in DOMAIN hs : i = 1 \/ i = 2 \/ (i \in 3 .. (Len(cs) + 1) /\ i - 1 \in DOMAIN cs
                                                  /\ i - 1 # 1)
       /\ \A i \in DOMAIN cs : i # 1 => i + 1 \in 3 .. (Len(cs) + 1) /\ (i + 1) - 1 = i
                                         /\ i + 1 \in DOMAIN hs
       /\ 1 \in DOMAIN hs /\ 2 \in DOMAIN hs
    BY <1>1, <1>11
<1>13. Due(call) = Due(one) \cup Due(two) /\ Due(one) \cap Due(two) = {}
    BY <1>3, <1>9, <1>10 DEF Due, Matching
<1>14. \A i \in DOMAIN cs : i # 1 => Due(cs[i]) \cap Due(call) = {}
    BY <1>1, <1>2 DEF Orderly
<1>15. ASSUME NEW i \in DOMAIN hs
       PROVE  hs[i].days \subseteq span /\ \E x, y \in Days : x <= y /\ hs[i].days = x .. y
  <2>1. CASE i = 1
    <3>1. mid \in Days
        BY <1>3, <1>4, <1>7, Constants DEF Days
    <3>2. lo .. mid \subseteq span
        BY <1>3, <1>10
    <3> QED  BY <1>7, <1>9, <1>11, <2>1, <3>1, <3>2
  <2>2. CASE i = 2
    <3>1. mid + 1 \in Days /\ mid + 1 <= hi
        BY <1>3, <1>4, <1>7, Constants DEF Days
    <3>2. (mid + 1) .. hi \subseteq span
        BY <1>3, <1>10
    <3> QED  BY <1>9, <1>11, <2>2, <3>1, <3>2
  <2>3. CASE i \in 3 .. (Len(cs) + 1) /\ i - 1 \in DOMAIN cs
      BY <1>11, <2>3 DEF Orderly
  <2> QED  BY <1>12, <2>1, <2>2, <2>3
<1>16. ASSUME NEW i \in DOMAIN hs, NEW j \in DOMAIN hs, i < j
       PROVE  Due(hs[i]) \cap Due(hs[j]) = {}
  <2>1. CASE i = 1 /\ j = 2
      BY <1>11, <1>13, <2>1
  <2>2. CASE i \in {1, 2} /\ j \in 3 .. (Len(cs) + 1)
    <3>1. hs[j] = cs[j - 1] /\ j - 1 \in DOMAIN cs /\ j - 1 # 1
        BY <1>11, <1>12, <2>2
    <3>2. Due(hs[i]) \subseteq Due(call)
        BY <1>11, <1>13, <2>2
    <3>3. Due(cs[j - 1]) \cap Due(call) = {}
        BY <1>14, <3>1
    <3> QED  BY <3>1, <3>2, <3>3
  <2>3. CASE i \in 3 .. (Len(cs) + 1) /\ j \in 3 .. (Len(cs) + 1)
    <3>1. hs[i] = cs[i - 1] /\ hs[j] = cs[j - 1] /\ i - 1 \in DOMAIN cs /\ j - 1 \in DOMAIN cs
          /\ i - 1 # j - 1
        BY <1>11, <1>12, <1>16, <2>3
    <3>2. Due(cs[i - 1]) \cap Due(cs[j - 1]) = {}
        BY <3>1 DEF Orderly
    <3> QED  BY <3>1, <3>2
  <2> QED  BY <1>1, <1>12, <1>16, <2>1, <2>2, <2>3
<1>17. Orderly(span, hs)
  <2>1. \A i, j \in DOMAIN hs : i # j => i < j \/ j < i
      BY <1>12, <1>1
  <2>2. \A i, j \in DOMAIN hs : i # j => Due(hs[i]) \cap Due(hs[j]) = {}
      BY <1>16, <2>1
  <2> QED  BY <1>15, <2>2 DEF Orderly
<1>18. ASSUME NEW r PROVE Waiting(hs, r) <=> Waiting(cs, r)
  <2>1. ASSUME Waiting(cs, r) PROVE Waiting(hs, r)
    <3>1. PICK i \in DOMAIN cs : r \in Due(cs[i])
        BY <2>1 DEF Waiting
    <3>2. CASE i = 1
        BY <1>1, <1>2, <1>11, <1>12, <1>13, <3>1, <3>2 DEF Waiting
    <3>3. CASE i # 1
      <4>1. hs[i + 1] = cs[i] /\ i + 1 \in DOMAIN hs
          BY <1>11, <1>12, <3>3
      <4> QED  BY <3>1, <4>1 DEF Waiting
    <3> QED  BY <3>2, <3>3
  <2>2. ASSUME Waiting(hs, r) PROVE Waiting(cs, r)
    <3>1. PICK i \in DOMAIN hs : r \in Due(hs[i])
        BY <2>2 DEF Waiting
    <3>2. CASE i \in {1, 2}
        BY <1>1, <1>2, <1>11, <1>13, <3>1, <3>2 DEF Waiting
    <3>3. CASE i \in 3 .. (Len(cs) + 1)
      <4>1. hs[i] = cs[i - 1] /\ i - 1 \in DOMAIN cs
          BY <1>11, <1>12, <3>3
      <4> QED  BY <3>1, <4>1 DEF Waiting
    <3> QED  BY <1>12, <3>1, <3>2, <3>3
  <2> QED  BY <2>1, <2>2
<1>19. hs # <<>>
    BY <1>1, <1>11
<1> QED  BY <1>8, <1>11, <1>17, <1>18, <1>19 DEF hs

\* A window from the first row that is not full holds all that a call matches.
LEMMA OneWindow ==
    ASSUME history \in SUBSET Rows, NEW call,
           Cardinality(Window(Matching(call), 0, RowLimit)) < RowLimit
    PROVE  Window(Matching(call), 0, RowLimit) = Matching(call)
<1> DEFINE M == Matching(call)
<1>1. M \in SUBSET Rows /\ Window(M, 0, RowLimit) \subseteq M
    BY RowsMatch DEF Window
<1>2. Nth(M, RowLimit, 1) = Window(M, 0, RowLimit)
  <2>1. (1 - 1) * RowLimit = 0
      BY Constants
  <2> QED  BY <2>1 DEF Nth
<1> HIDE DEF M
<1>3. ASSUME NEW r \in M PROVE r \in Window(M, 0, RowLimit)
  <2>1. \E i \in 1 .. 1 : r \in Nth(M, RowLimit, i)
      BY <1>1, <1>2, WindowsCover, Constants DEF M
  <2> QED  BY <1>2, <2>1
<1> QED  BY <1>1, <1>3 DEF M

\* Pages that hold what those before them did leave the rows where they were.
LEMMA OnceStays ==
    ASSUME NEW span, NEW cs, NEW ds, NEW ps, NEW n, NEW qs, NEW m, Once(span, cs, ps, n),
           \A r : In(qs, r, m) = In(ps, r, n), \A r : Waiting(ds, r) <=> Waiting(cs, r)
    PROVE  Once(span, ds, qs, m)
<1> SUFFICES ASSUME NEW r \in Rows
             PROVE  IF r \in history /\ Day(r) \in span /\ ~Waiting(ds, r)
                    THEN \E i \in 1 .. m : In(qs, r, m) = {i}
                    ELSE In(qs, r, m) = {}
    BY DEF Once
<1>1. CASE r \in history /\ Day(r) \in span /\ ~Waiting(ds, r)
  <2>1. PICK i \in 1 .. n : In(ps, r, n) = {i}
      BY <1>1 DEF Once
  <2>2. In(qs, r, m) = {i}
      BY <2>1
  <2>3. i \in 1 .. m
      BY <2>2 DEF In
  <2> QED  BY <1>1, <2>2, <2>3
<1>2. CASE ~(r \in history /\ Day(r) \in span /\ ~Waiting(ds, r))
    BY <1>2 DEF Once
<1> QED  BY <1>1, <1>2

\* A kept page with all that the first call is to deliver completes the call.
LEMMA PageDelivers ==
    ASSUME NEW span, NEW cs \in Seq(Calls), cs # <<>>, NEW ps \in Seq(Pages), ~Failing(ps),
           Orderly(span, cs), Once(span, cs, ps, Len(ps)), history \in SUBSET Rows,
           options.kind # "scan"
    PROVE  FetchAt(span, Tail(cs), Append(ps, Page(Due(Head(cs)))), NotPaging)
<1> DEFINE rows == Due(Head(cs))
           qs == Append(ps, Page(rows))
<1>1. rows \in SUBSET Rows
    BY RowsMatch
<1> HIDE DEF rows
<1>2. Page(rows) \in Pages /\ Page(rows).kept /\ Page(rows).rows = rows
      /\ Page(rows).status = "success"
    BY <1>1, PageTypes
<1>3. qs \in Seq(Pages) /\ ~Failing(qs) /\ Len(qs) = Len(ps) + 1
  <2>1. Len(qs) = Len(ps) + 1
      BY <1>2, AppendProperties
  <2> QED  BY <1>2, <2>1, GoodPage
<1>4. \A r : In(qs, r, Len(ps) + 1) =
                 In(ps, r, Len(ps)) \cup (IF r \in rows THEN {Len(ps) + 1} ELSE {})
    BY <1>2, InAppend
<1>5. /\ \A r \in rows : \E i : In(qs, r, Len(ps) + 1) = In(ps, r, Len(ps)) \cup {i}
      /\ \A r \in Rows \ rows : In(qs, r, Len(ps) + 1) = In(ps, r, Len(ps))
    BY <1>4
<1> HIDE DEF qs
<1>6. Orderly(span, Tail(cs)) /\ Once(span, Tail(cs), qs, Len(ps) + 1)
    BY <1>5, Delivered DEF rows
<1>7. Before(qs, NotPaging) = Len(ps) + 1
    BY <1>3 DEF Before
<1> QED  BY <1>3, <1>6, <1>7 DEF FetchAt, Run, qs, rows

\* The steps of a call that go on with pages and calls that are in order.
Goes == \E ps \in Seq(Pages), cs \in Seq(Calls), b \in Nat \cup {NotPaging} :
            Continue(ps, cs, b) /\ FetchAt(Span, cs, ps, b)

\* A step to pages and calls that are in order is one of them.
LEMMA GoesOn ==
    ASSUME NEW ps \in Seq(Pages), NEW cs \in Seq(Calls), NEW b \in Nat \cup {NotPaging},
           Continue(ps, cs, b), FetchAt(Span, cs, ps, b)
    PROVE  Goes
BY DEF Goes

\* Those that end the request with a page that failed are such steps.
LEMMA EndsFailed ==
    ASSUME NEW ps \in Seq(Pages), Failing(ps), End(ps)
    PROVE  Goes
<1>1. <<>> \in Seq(Calls) /\ NotPaging \in Nat \cup {NotPaging}
    OBVIOUS
<1>2. Continue(ps, <<>>, NotPaging) /\ FetchAt(Span, <<>>, ps, NotPaging)
    BY FailedEnd DEF End
<1> QED  BY <1>1, <1>2 DEF Goes

\* The state of a request that is being fetched.
LEMMA InHand ==
    ASSUME TypeInv, FetchInv, Fetching
    PROVE  /\ pages \in Seq(Pages) /\ calls \in Seq(Calls) /\ calls # <<>>
           /\ Head(calls) \in Calls /\ Tail(calls) \in Seq(Calls) /\ history \in SUBSET Rows
           /\ ~Failing(pages) /\ Orderly(Span, calls)
           /\ Once(Span, calls, pages, Before(pages, base)) /\ Run(calls, pages, base)
           /\ options.kind = "scan" => base # NotPaging
           /\ base # NotPaging => base \in Nat /\ base <= Len(pages)
<1>1. pages \in Seq(Pages) /\ calls \in Seq(Calls) /\ calls # <<>> /\ scopes # {}
      /\ history \in SUBSET Rows /\ base \in Nat \cup {NotPaging}
    BY DEF TypeInv, Fetching
<1>2. Head(calls) \in Calls /\ Tail(calls) \in Seq(Calls)
    BY <1>1
<1>3. FetchAt(Span, calls, pages, base)
    BY <1>1 DEF FetchInv
<1>4. ~Failing(pages)
    BY <1>1, <1>3 DEF FetchAt
<1> QED  BY <1>1, <1>2, <1>3, <1>4 DEF FetchAt, Run

\* A day by one call.
LEMMA PlainStep ==
    ASSUME TypeInv, FetchInv, Fetching, base = NotPaging, options.kind = "daily",
           NEW rows \in Answers(Head(calls)), PlainPage(rows)
    PROVE  Goes
<1>1. /\ pages \in Seq(Pages) /\ calls \in Seq(Calls) /\ calls # <<>> /\ history \in SUBSET Rows
      /\ ~Failing(pages) /\ Orderly(Span, calls) /\ Once(Span, calls, pages, Len(pages))
    BY InHand DEF Before
<1>2. rows = Window(Matching(Head(calls)), 0, RowLimit)
  <2>1. options.bisectEmpty = FALSE
      BY DEF TypeInv, OptionSets
  <2> QED  BY <2>1 DEF Answers
<1>3. rows \in SUBSET Rows /\ Page(rows) \in Pages /\ Page(rows).status = "success"
  <2>1. rows \in SUBSET Rows
      BY <1>1, <1>2, RowsMatch
  <2> QED  BY <2>1, PageTypes
<1> DEFINE ps == Append(pages, Page(rows))
<1>4. ps \in Seq(Pages)
    BY <1>1, <1>3
<1>5. CASE Saturated(rows)
  <2>1. End(Append(ps, BadPage("invalid")))
      BY <1>5 DEF PlainPage
  <2> HIDE DEF ps
  <2>2. Append(ps, BadPage("invalid")) \in Seq(Pages) /\ Failing(Append(ps, BadPage("invalid")))
      BY <1>4, PageTypes, BadFails
  <2> QED  BY <2>1, <2>2, EndsFailed
<1>6. CASE ~Saturated(rows)
  <2>1. Cardinality(rows) < RowLimit
    <3>1. Cardinality(rows) \in Nat
        BY <1>3, RowsBound, FinitePart DEF Rows
    <3> QED  BY <1>6, <3>1, Constants DEF Saturated
  <2>2. rows = Due(Head(calls))
      BY <1>1, <1>2, <2>1, OneWindow, RowsMatch
  <2>3. Tail(calls) = <<>>
    <3>1. Len(calls) <= 1 /\ Len(calls) \in Nat /\ Len(calls) # 0
        BY <1>1 DEF Orderly
    <3> QED  BY <1>1, <3>1
  <2>4. FetchAt(Span, Tail(calls), ps, NotPaging)
      BY <1>1, <2>2, PageDelivers
  <2>5. Continue(ps, <<>>, NotPaging)
      BY <1>6 DEF PlainPage, End
  <2> HIDE DEF ps
  <2>6. FetchAt(Span, <<>>, ps, NotPaging)
      BY <2>3, <2>4, Zenon
  <2>7. <<>> \in Seq(Calls)
      OBVIOUS
  <2> QED  BY <1>4, <2>5, <2>6, <2>7, GoesOn
<1> QED  BY <1>5, <1>6

\* A range: complete, bisected, or at one day handed to offset pages.
LEMMA RangeStep ==
    ASSUME TypeInv, FetchInv, Fetching, base = NotPaging, options.kind = "range",
           NEW rows \in Answers(Head(calls)), RangePage(rows)
    PROVE  Goes
<1> DEFINE ps == Append(pages, Page(rows))
           without == Append(pages, Dropped(Page(rows)))
           call == Head(calls)
           wide == Cardinality(call.days) > 1
           unsure == (rows = {} /\ options.bisectEmpty) \/ Saturated(rows)
<1>1. /\ pages \in Seq(Pages) /\ calls \in Seq(Calls) /\ calls # <<>> /\ history \in SUBSET Rows
      /\ ~Failing(pages) /\ Orderly(Span, calls) /\ Once(Span, calls, pages, Len(pages))
      /\ call \in Calls /\ Tail(calls) \in Seq(Calls)
    BY InHand DEF Before
<1>2. rows = Window(Matching(call), 0, RowLimit) \/ (rows = {} /\ options.bisectEmpty /\ wide)
    BY DEF Answers
<1>3. rows \in SUBSET Rows /\ Page(rows) \in Pages /\ Page(rows).status = "success"
      /\ Cardinality(rows) \in Nat /\ Dropped(Page(rows)) \in Pages
      /\ ~Dropped(Page(rows)).kept /\ Dropped(Page(rows)).status = "success"
  <2>1. rows \in SUBSET Rows
      BY <1>1, <1>2, RowsMatch
  <2>2. Cardinality(rows) \in Nat
      BY <2>1, RowsBound, FinitePart DEF Rows
  <2> QED  BY <2>1, <2>2, PageTypes
<1>4. ps \in Seq(Pages) /\ without \in Seq(Pages) /\ ~Failing(without)
      /\ Len(without) = Len(pages) + 1
  <2>1. ps \in Seq(Pages) /\ Len(without) = Len(pages) + 1
      BY <1>1, <1>3, AppendProperties
  <2> QED  BY <1>1, <1>3, <2>1, GoodPage
<1>5. \A r : In(without, r, Len(without)) = In(pages, r, Len(pages))
  <2> DEFINE p == Dropped(Page(rows))
  <2>1. p \in Pages /\ ~p.kept /\ Len(without) = Len(pages) + 1
      BY <1>3, <1>4
  <2> HIDE DEF p
  <2>2. \A r : In(Append(pages, p), r, Len(pages) + 1) =
                 In(pages, r, Len(pages)) \cup (IF p.kept /\ r \in p.rows THEN {Len(pages) + 1} ELSE {})
      BY <1>1, <2>1, InAppend
  <2>3. \A r : In(Append(pages, p), r, Len(pages) + 1) = In(pages, r, Len(pages))
      BY <2>1, <2>2
  <2>4. \A r : In(without, r, Len(pages) + 1) = In(pages, r, Len(pages))
      BY <2>3 DEF p
  <2> QED  BY <2>1, <2>4
<1>6. CASE ~WithinBuffer(ps) /\ End(Bound(ps))
  <2> HIDE DEF ps
  <2> QED  BY <1>4, <1>6, BoundFails, EndsFailed
<1>7. CASE unsure /\ wide /\ Continue(without, Halves(call) \o Tail(calls), NotPaging)
  <2> DEFINE hs == Halves(call) \o Tail(calls)
  <2>1. hs \in Seq(Calls) /\ hs # <<>> /\ Orderly(Span, hs)
        /\ \A r : Waiting(hs, r) <=> Waiting(calls, r)
      BY <1>1, <1>7, HalvesCover
  <2> HIDE DEF hs, without
  <2>2. Once(Span, hs, without, Len(without))
      BY <1>1, <1>5, <1>4, <2>1, OnceStays
  <2>3. FetchAt(Span, hs, without, NotPaging)
      BY <1>4, <2>1, <2>2 DEF FetchAt, Before, Run
  <2>4. Continue(without, hs, NotPaging)
      BY <1>7 DEF hs
  <2> QED  BY <1>4, <2>1, <2>3, <2>4, GoesOn
<1>8. CASE Saturated(rows) /\ ~wide /\ Continue(without, calls, Len(without))
  <2> HIDE DEF without
  <2>1. Once(Span, calls, without, Len(without))
      BY <1>1, <1>5, <1>4, OnceStays
  <2>2. Len(without) \in Nat /\ Len(without) # NotPaging
      BY <1>4 DEF NotPaging
  <2>3. Run(calls, without, Len(without))
      BY <1>1, <2>2 DEF Run
  <2>4. FetchAt(Span, calls, without, Len(without))
      BY <1>1, <1>4, <2>1, <2>2, <2>3 DEF FetchAt, Before
  <2> QED  BY <1>1, <1>4, <1>8, <2>2, <2>4, GoesOn
<1>9. CASE ~Saturated(rows) /\ ~(unsure /\ wide) /\ Continue(ps, Tail(calls), NotPaging)
  <2>1. rows = Window(Matching(call), 0, RowLimit)
      BY <1>2, <1>9
  <2>2. Cardinality(rows) < RowLimit
      BY <1>3, <1>9, Constants DEF Saturated
  <2>3. rows = Due(call)
      BY <1>1, <2>1, <2>2, OneWindow, RowsMatch
  <2>4. FetchAt(Span, Tail(calls), ps, NotPaging)
      BY <1>1, <2>3, PageDelivers
  <2> HIDE DEF ps
  <2> QED  BY <1>1, <1>4, <1>9, <2>4, GoesOn
<1>10. \/ ~WithinBuffer(ps) /\ End(Bound(ps))
       \/ unsure /\ wide /\ Continue(without, Halves(call) \o Tail(calls), NotPaging)
       \/ Saturated(rows) /\ ~wide /\ Continue(without, calls, Len(without))
       \/ ~Saturated(rows) /\ ~(unsure /\ wide) /\ Continue(ps, Tail(calls), NotPaging)
    BY Zenon DEF RangePage
<1> QED  BY <1>6, <1>7, <1>8, <1>9, <1>10

\* The pages of ps after the first b are the windows of M in order.
InOrder(M, ps, b) ==
    \A i \in (b + 1) .. Len(ps) : ps[i].kept /\ ps[i].rows = Nth(M, RowLimit, i - b)

\* The pages of an offset run that is complete hold what its call matches, each row once.
LEMMA RunDelivers ==
    ASSUME NEW M \in SUBSET Rows, NEW ps \in Seq(Pages), NEW b \in Nat, b <= Len(ps),
           InOrder(M, ps, b),
           Cardinality(Nth(M, RowLimit, (Len(ps) - b) + 1)) < RowLimit
    PROVE  LET qs == Append(ps, Page(Nth(M, RowLimit, (Len(ps) - b) + 1))) IN
           /\ \A r \in M : \E i : In(qs, r, Len(ps) + 1) = In(ps, r, b) \cup {i}
           /\ \A r : r \notin M => In(qs, r, Len(ps) + 1) = In(ps, r, b)
<1> DEFINE rows == Nth(M, RowLimit, (Len(ps) - b) + 1)
           qs == Append(ps, Page(rows))
           n == Len(ps) + 1
           m == n - b
<1>1. /\ Len(ps) \in Nat /\ n \in Nat /\ m \in Nat \ {0} /\ m = (Len(ps) - b) + 1
      /\ \A i \in 1 .. m : b + i \in 1 .. n /\ b + i \notin 1 .. b /\ (b + i) - b = i
      /\ \A i \in (b + 1) .. n : i - b \in 1 .. m /\ i = b + (i - b)
      /\ 1 .. n = (1 .. b) \cup ((b + 1) .. n) /\ 1 .. b \subseteq 1 .. Len(ps)
      /\ \A i \in (b + 1) .. n : i = n \/ i \in (b + 1) .. Len(ps)
    OBVIOUS
<1>2. rows \in SUBSET Rows /\ Page(rows) \in Pages /\ Page(rows).kept /\ Page(rows).rows = rows
  <2>1. rows \in SUBSET Rows
      BY DEF Nth, Window
  <2> QED  BY <2>1, PageTypes
<1>3. /\ \A i \in 1 .. Len(ps) : qs[i] = ps[i]
      /\ qs[n] = Page(rows)
    BY <1>2, AppendProperties
<1> HIDE DEF n, m
<1>4. \A i \in (b + 1) .. n : qs[i].kept /\ qs[i].rows = Nth(M, RowLimit, i - b)
  <2> TAKE i \in (b + 1) .. n
  <2>1. CASE i = n
      BY <1>1, <1>2, <1>3, <2>1 DEF m
  <2>2. CASE i \in (b + 1) .. Len(ps)
    <3>1. i \in 1 .. Len(ps)
        BY <1>1, <2>2
    <3> QED  BY <1>3, <2>2, <3>1 DEF InOrder
  <2> QED  BY <1>1, <2>1, <2>2
<1>5. ASSUME NEW r
      PROVE  In(qs, r, n) = In(ps, r, b) \cup {i \in (b + 1) .. n : r \in Nth(M, RowLimit, i - b)}
  <2>1. \A i \in 1 .. b : qs[i] = ps[i]
      BY <1>1, <1>3
  <2> QED  BY <1>1, <1>4, <2>1 DEF In
<1>6. \A r : r \notin M => \A i : r \notin Nth(M, RowLimit, i)
    BY DEF Nth, Window
<1>7. ASSUME NEW r \in M
      PROVE  \E i : {j \in (b + 1) .. n : r \in Nth(M, RowLimit, j - b)} = {i}
  <2>1. PICK i \in 1 .. m : r \in Nth(M, RowLimit, i)
      BY <1>1, WindowsCover, Constants
  <2>2. ASSUME NEW j \in (b + 1) .. n, r \in Nth(M, RowLimit, j - b) PROVE j = b + i
    <3>1. PICK k \in 1 .. m : k = j - b /\ j = b + k
        BY <1>1
    <3>2. k \in Nat \ {0} /\ i \in Nat \ {0}
        BY <1>1
    <3>3. ASSUME k # i PROVE FALSE
        BY <2>1, <2>2, <3>1, <3>2, <3>3, WindowsApart, Constants
    <3> QED  BY <3>1, <3>3
  <2>3. b + i \in (b + 1) .. n /\ (b + i) - b = i
      BY <1>1
  <2>4. {j \in (b + 1) .. n : r \in Nth(M, RowLimit, j - b)} = {b + i}
      BY <2>1, <2>2, <2>3
  <2> QED  BY <2>4
<1>8. \A r \in M : \E i : In(qs, r, n) = In(ps, r, b) \cup {i}
  <2> TAKE r \in M
  <2>1. PICK i : {j \in (b + 1) .. n : r \in Nth(M, RowLimit, j - b)} = {i}
      BY <1>7
  <2> QED  BY <1>5, <2>1
<1>9. \A r : r \notin M => In(qs, r, n) = In(ps, r, b)
  <2> TAKE r
  <2> HAVE r \notin M
  <2>1. {j \in (b + 1) .. n : r \in Nth(M, RowLimit, j - b)} = {}
      BY <1>6
  <2> QED  BY <1>5, <2>1
<1> QED  BY <1>8, <1>9 DEF n

\* Pages fail if the last of them do.
LEMMA ConcatFails ==
    ASSUME NEW ps \in Seq(Pages), NEW qs \in Seq(Pages), Failing(qs)
    PROVE  ps \o qs \in Seq(Pages) /\ Failing(ps \o qs)
<1>1. PICK i \in 1 .. Len(qs) : qs[i].status # "success"
    BY DEF Failing
<1>2. ps \o qs \in Seq(Pages) /\ Len(ps \o qs) = Len(ps) + Len(qs) /\ Len(ps) \in Nat
      /\ \A j \in 1 .. Len(ps \o qs) : (ps \o qs)[j] = IF j <= Len(ps) THEN ps[j] ELSE qs[j - Len(ps)]
    BY ConcatProperties
<1> DEFINE all == ps \o qs
<1> HIDE DEF all
<1>3. Len(ps) + i \in 1 .. Len(all) /\ ~(Len(ps) + i <= Len(ps)) /\ (Len(ps) + i) - Len(ps) = i
    BY <1>2 DEF all
<1>4. all[Len(ps) + i] = qs[i]
    BY <1>2, <1>3 DEF all
<1>5. Len(ps) + i \in DOMAIN all
    BY <1>2, <1>3 DEF all
<1> QED  BY <1>1, <1>2, <1>4, <1>5 DEF Failing, all

\* A page of an offset run: what comes after it, or what came before it once more.
LEMMA OffsetStep ==
    ASSUME TypeInv, FetchInv, Fetching, base # NotPaging, NEW rows,
           \/ rows = Nth(Matching(Head(calls)), RowLimit, (Len(pages) - base) + 1)
           \/ Len(pages) > base /\ rows = Nth(Matching(Head(calls)), RowLimit, Len(pages) - base),
           OffsetPage(rows)
    PROVE  Goes
<1> DEFINE run == SubSeq(pages, base + 1, Len(pages))
           mine == Append(run, Page(rows))
           ps == Append(pages, Page(rows))
           repeated == rows # {} /\ \E i \in DOMAIN run : run[i].rows = rows
           exhausted == Saturated(rows) /\ Len(mine) = MaxPages
           foreign == /\ options.kind = "scan" /\ ~Saturated(rows)
                      /\ \E i \in DOMAIN mine : \E r \in mine[i].rows :
                              Asset(r) \notin Head(calls).assets
           more == options.kind = "scan" /\ Len(calls) > 1
           next == IF more THEN Len(ps) ELSE NotPaging
           n == Len(pages) - base
<1> DEFINE M == Matching(Head(calls))
<1>1. /\ pages \in Seq(Pages) /\ calls \in Seq(Calls) /\ calls # <<>> /\ history \in SUBSET Rows
      /\ ~Failing(pages) /\ Orderly(Span, calls) /\ Once(Span, calls, pages, base)
      /\ Tail(calls) \in Seq(Calls) /\ Len(calls) \in Nat \ {0} /\ Len(Tail(calls)) = Len(calls) - 1
      /\ base \in Nat /\ base <= Len(pages) /\ n \in Nat /\ Len(pages) \in Nat
      /\ M \in SUBSET Rows
  <2>1. M \in SUBSET Rows
      BY InHand, RowsMatch
  <2> HIDE DEF M
  <2>2. /\ pages \in Seq(Pages) /\ calls \in Seq(Calls) /\ calls # <<>> /\ history \in SUBSET Rows
        /\ ~Failing(pages) /\ Orderly(Span, calls) /\ Once(Span, calls, pages, base)
        /\ Tail(calls) \in Seq(Calls) /\ base \in Nat /\ base <= Len(pages)
      BY InHand DEF Before
  <2> QED  BY <2>1, <2>2
<1>2. \A i \in (base + 1) .. Len(pages) :
          /\ pages[i].kept /\ pages[i].rows = Nth(M, RowLimit, i - base)
          /\ Cardinality(pages[i].rows) >= RowLimit
    BY InHand DEF Run
<1>3. rows = Nth(M, RowLimit, n + 1) \/ (Len(pages) > base /\ rows = Nth(M, RowLimit, n))
    OBVIOUS
<1>4. Len(pages) > base => /\ Len(pages) \in (base + 1) .. Len(pages)
                           /\ pages[Len(pages)].rows = Nth(M, RowLimit, n)
                           /\ Cardinality(pages[Len(pages)].rows) >= RowLimit
  <2> SUFFICES ASSUME Len(pages) > base
               PROVE  /\ Len(pages) \in (base + 1) .. Len(pages)
                      /\ pages[Len(pages)].rows = Nth(M, RowLimit, n)
                      /\ Cardinality(pages[Len(pages)].rows) >= RowLimit
      OBVIOUS
  <2>1. Len(pages) \in (base + 1) .. Len(pages)
      BY <1>1
  <2> HIDE DEF M
  <2> QED  BY <1>2, <2>1
<1>5. rows \in SUBSET Rows /\ Page(rows) \in Pages /\ Page(rows).status = "success"
      /\ Page(rows).kept /\ Page(rows).rows = rows /\ Cardinality(rows) \in Nat
  <2> HIDE DEF M, n
  <2>1. rows \in SUBSET Rows
      BY <1>1, <1>3 DEF Nth, Window
  <2>2. Cardinality(rows) \in Nat
      BY <2>1, RowsBound, FinitePart DEF Rows
  <2> QED  BY <2>1, <2>2, PageTypes
<1>6. ps \in Seq(Pages) /\ ~Failing(ps) /\ Len(ps) = Len(pages) + 1
  <2>1. Len(ps) = Len(pages) + 1
      BY <1>1, <1>5, AppendProperties
  <2> QED  BY <1>1, <1>5, <2>1, GoodPage
<1>7. run \in Seq(Pages) /\ Len(run) = n /\ \A i \in 1 .. n : run[i] = pages[base + i]
  <2>1. run \in Seq(Pages) /\ Len(run) = n
      BY <1>1, SubSeqProperties
  <2>2. \A i \in 1 .. n : run[i] = pages[(base + 1) + i - 1]
      BY <1>1, <2>1, SubSeqProperties
  <2>3. \A i \in 1 .. n : (base + 1) + i - 1 = base + i
      BY <1>1
  <2> QED  BY <2>1, <2>2, <2>3
<1>8. mine \in Seq(Pages) /\ DOMAIN mine = 1 .. (n + 1) /\ mine[n + 1] = Page(rows)
      /\ \A i \in 1 .. n : mine[i] = pages[base + i]
  <2> HIDE DEF run, n
  <2>1. mine \in Seq(Pages) /\ Len(mine) = n + 1 /\ mine[n + 1] = Page(rows)
        /\ \A i \in 1 .. n : mine[i] = run[i]
      BY <1>5, <1>7, AppendProperties
  <2> QED  BY <1>7, <2>1
<1>9. \/ ~WithinBuffer(mine) /\ End(SubSeq(pages, 1, base) \o Bound(mine))
      \/ End(Append(ps, BadPage("invalid")))
      \/ ~repeated /\ Saturated(rows) /\ Continue(ps, calls, base)
      \/ ~WithinBuffer(ps) /\ End(Bound(ps))
      \/ ~foreign /\ ~Saturated(rows) /\ Continue(ps, Tail(calls), next)
    BY Zenon DEF OffsetPage
<1> HIDE DEF run, mine, ps, M, n
<1>10. CASE ~WithinBuffer(mine) /\ End(SubSeq(pages, 1, base) \o Bound(mine))
  <2>1. Bound(mine) \in Seq(Pages) /\ Failing(Bound(mine))
      BY <1>8, <1>10, BoundFails
  <2>2. SubSeq(pages, 1, base) \in Seq(Pages)
      BY <1>1, SubSeqProperties
  <2> QED  BY <1>10, <2>1, <2>2, ConcatFails, EndsFailed
<1>11. CASE End(Append(ps, BadPage("invalid")))
  <2>1. Append(ps, BadPage("invalid")) \in Seq(Pages) /\ Failing(Append(ps, BadPage("invalid")))
      BY <1>6, PageTypes, BadFails
  <2> QED  BY <1>11, <2>1, EndsFailed
<1>12. CASE ~WithinBuffer(ps) /\ End(Bound(ps))
    BY <1>6, <1>12, BoundFails, EndsFailed
<1>13. CASE ~repeated /\ Saturated(rows) /\ Continue(ps, calls, base)
  <2>1. rows # {}
    <3>1. ASSUME rows = {} PROVE Cardinality(rows) = 0
        BY <3>1, FS_EmptySet
    <3>2. Cardinality(rows) >= RowLimit
        BY <1>13 DEF Saturated
    <3> QED  BY <3>1, <3>2, Constants
  <2>2. rows = Nth(M, RowLimit, n + 1)
    <3>1. ASSUME Len(pages) > base, rows = Nth(M, RowLimit, n) PROVE FALSE
      <4>1. n \in 1 .. n /\ base + n = Len(pages) /\ n \in DOMAIN run
          BY <1>1, <1>7, <3>1 DEF n
      <4>2. run[n].rows = rows
          BY <1>4, <1>7, <3>1, <4>1
      <4> QED  BY <1>13, <2>1, <4>1, <4>2
    <3> QED  BY <1>3, <3>1
  <2>3. \A i \in 1 .. Len(pages) : ps[i] = pages[i]
      BY <1>1, <1>5, AppendProperties DEF ps
  <2>4. ps[Len(pages) + 1] = Page(rows)
      BY <1>1, <1>5, AppendProperties DEF ps
  <2>5. Run(calls, ps, base)
    <3>1. ASSUME NEW i \in (base + 1) .. Len(ps)
          PROVE  /\ ps[i].kept /\ ps[i].rows = Nth(M, RowLimit, i - base)
                 /\ Cardinality(ps[i].rows) >= RowLimit
      <4>1. CASE i = Len(pages) + 1
        <5>1. i - base = n + 1
            BY <1>1, <4>1 DEF n
        <5> QED  BY <1>5, <1>13, <2>2, <2>4, <4>1, <5>1 DEF Saturated
      <4>2. CASE i \in (base + 1) .. Len(pages)
        <5>1. i \in 1 .. Len(pages)
            BY <1>1, <4>2
        <5> QED  BY <1>2, <2>3, <4>2, <5>1
      <4> QED  BY <1>1, <1>6, <4>1, <4>2
    <3>2. base <= Len(ps)
        BY <1>1, <1>6
    <3> QED  BY <1>1, <3>1, <3>2 DEF Run, M
  <2>6. Once(Span, calls, ps, base)
    <3>1. base \in 0 .. Len(pages)
        BY <1>1
    <3>2. \A r : In(ps, r, base) = In(pages, r, base)
        BY <1>1, <1>5, <3>1, InAppend DEF ps
    <3> QED  BY <1>1, <3>2, OnceStays
  <2>7. FetchAt(Span, calls, ps, base)
      BY <1>1, <1>6, <2>5, <2>6 DEF FetchAt, Before
  <2> QED  BY <1>1, <1>6, <1>13, <2>7, GoesOn
<1>14. CASE ~foreign /\ ~Saturated(rows) /\ Continue(ps, Tail(calls), next)
  <2>1. Cardinality(rows) < RowLimit
      BY <1>5, <1>14, Constants DEF Saturated
  <2>2. rows = Nth(M, RowLimit, n + 1)
      BY <1>3, <1>4, <1>5, <2>1, Constants
  <2>3. \A i \in 1 .. (n + 1) : mine[i].rows = Nth(M, RowLimit, i)
    <3> TAKE i \in 1 .. (n + 1)
    <3>1. CASE i = n + 1
        BY <1>5, <1>8, <2>2, <3>1
    <3>2. CASE i \in 1 .. n
      <4>1. base + i \in (base + 1) .. Len(pages) /\ (base + i) - base = i
          BY <1>1, <3>2 DEF n
      <4> QED  BY <1>2, <1>8, <3>2, <4>1
    <3> QED  BY <1>1, <3>1, <3>2
  <2>4. M = Due(Head(calls))
    <3>1. CASE options.kind # "scan"
        BY <1>1, <3>1, RowsMatch DEF M
    <3>2. CASE options.kind = "scan"
      <4>1. ASSUME NEW r \in M PROVE Asset(r) \in Head(calls).assets
        <5>1. n + 1 \in Nat \ {0}
            BY <1>1
        <5>2. PICK i \in 1 .. (n + 1) : r \in Nth(M, RowLimit, i)
            BY <1>1, <2>1, <2>2, <5>1, WindowsCover, Constants
        <5>3. r \in mine[i].rows /\ i \in DOMAIN mine
            BY <1>8, <2>3, <5>2
        <5> QED  BY <1>14, <3>2, <5>3
      <4> QED  BY <4>1 DEF Due, M
    <3> QED  BY <3>1, <3>2
  <2>5. /\ \A r \in M : \E i : In(ps, r, Len(pages) + 1) = In(pages, r, base) \cup {i}
        /\ \A r : r \notin M => In(ps, r, Len(pages) + 1) = In(pages, r, base)
    <3>1. InOrder(M, pages, base)
        BY <1>2 DEF InOrder
    <3>2. rows = Nth(M, RowLimit, (Len(pages) - base) + 1)
        BY <2>2 DEF n
    <3>3. M \in SUBSET Rows /\ pages \in Seq(Pages) /\ base \in Nat /\ base <= Len(pages)
        BY <1>1
    <3>4. ps = Append(pages, Page(Nth(M, RowLimit, (Len(pages) - base) + 1)))
        BY <3>2 DEF ps
    <3>5. Cardinality(Nth(M, RowLimit, (Len(pages) - base) + 1)) < RowLimit
        BY <2>1, <3>2
    <3>6. LET qs == Append(pages, Page(Nth(M, RowLimit, (Len(pages) - base) + 1))) IN
          /\ \A r \in M : \E i : In(qs, r, Len(pages) + 1) = In(pages, r, base) \cup {i}
          /\ \A r : r \notin M => In(qs, r, Len(pages) + 1) = In(pages, r, base)
        BY <3>1, <3>3, <3>5, RunDelivers
    <3> QED  BY <3>4, <3>6
  <2>6. Orderly(Span, Tail(calls)) /\ Once(Span, Tail(calls), ps, Len(ps))
    <3>1. /\ \A r \in Due(Head(calls)) : \E i : In(ps, r, Len(ps)) = In(pages, r, base) \cup {i}
          /\ \A r \in Rows \ Due(Head(calls)) : In(ps, r, Len(ps)) = In(pages, r, base)
        BY <1>6, <2>4, <2>5
    <3>2. /\ calls \in Seq(Calls) /\ calls # <<>> /\ history \in SUBSET Rows
          /\ Orderly(Span, calls) /\ Once(Span, calls, pages, base)
        BY <1>1
    <3> QED  BY <3>1, <3>2, Delivered
  <2>7. Len(ps) \in Nat /\ Len(ps) # NotPaging /\ next \in Nat \cup {NotPaging}
      BY <1>1, <1>6 DEF NotPaging
  <2>8. Before(ps, next) = Len(ps)
      BY <2>7 DEF Before
  <2>9. Tail(calls) = <<>> <=> ~(Len(calls) > 1)
    <3>1. \A s \in Seq(Calls) : s = <<>> <=> Len(s) = 0
        OBVIOUS
    <3>2. Tail(calls) \in Seq(Calls) /\ Len(Tail(calls)) = Len(calls) - 1 /\ Len(calls) \in Nat \ {0}
        BY <1>1
    <3>3. Tail(calls) = <<>> <=> Len(Tail(calls)) = 0
        BY <3>1, <3>2
    <3> QED  BY <3>2, <3>3
  <2>10. Run(Tail(calls), ps, next)
      BY <2>7, <2>9 DEF Run
  <2>11. FetchAt(Span, Tail(calls), ps, next)
      BY <1>6, <2>6, <2>7, <2>8, <2>9, <2>10 DEF FetchAt
  <2> QED  BY <1>1, <1>6, <1>14, <2>7, <2>11, GoesOn
<1> QED  BY <1>9, <1>10, <1>11, <1>12, <1>13, <1>14

-----------------------------------------------------------------------------
(* The steps of a call keep the invariant.                                 *)

\* Where the rows are, of the next state, is said by what the provider has now.
LEMMA FetchNext ==
    ASSUME UNCHANGED provider,
           scopes' # {} =>
               FetchAt(IF options.kind = "scan" THEN Days ELSE Min(scopes') .. Max(scopes'),
                       calls', pages', base')
    PROVE  FetchInv'
<1>1. options' = options /\ history' = history /\ loose' = loose
    BY DEF provider
<1>2. ASSUME NEW call PROVE Matching(call)' = Matching(call) /\ Due(call)' = Due(call)
    BY <1>1 DEF Due, Matching
<1>3. Span' = IF options.kind = "scan" THEN Days ELSE Min(scopes') .. Max(scopes')
    BY <1>1 DEF Span
<1> QED  BY <1>1, <1>3 DEF FetchInv, FetchAt, Orderly, Once, Run, Waiting, Due, Matching, In, Before

\* What a day has become agrees with what the provider has for it.
DaySettled(d, becomes, count) ==
    LET rows == {r \in history : Day(r) = d} IN
    /\ becomes = "buffered" => rows # {} /\ \A r \in rows : count[r] = 1
    /\ becomes # "buffered" => \A r \in Rows : Day(r) = d => count[r] = 0
    /\ becomes = "empty" => rows = {} /\ d \notin options.required

\* It does of every day now ...
LEMMA SettledNow == SettledAsProvided <=> \A d \in Days : DaySettled(d, outcome[d], held)
BY DEF SettledAsProvided, DaySettled

\* ... and after a step by which it does.
LEMMA SettledNext ==
    ASSUME UNCHANGED provider, \A d \in Days : DaySettled(d, outcome'[d], held')
    PROVE  SettledAsProvided'
BY DEF SettledAsProvided, DaySettled, provider

\* The steps that go on do.
LEMMA GoesKeeps ==
    ASSUME IInv, scopes # {}, Goes, faults' \in Nat
    PROVE  IInv'
<1>1. PICK ps \in Seq(Pages), cs \in Seq(Calls), b \in Nat \cup {NotPaging} :
          Continue(ps, cs, b) /\ FetchAt(Span, cs, ps, b)
    BY DEF Goes
<1>2. /\ pages' = ps /\ calls' = cs /\ base' = b /\ attempts' = 0
      /\ UNCHANGED <<provider, requests, scopes, cancelled, outcome, held>>
    BY <1>1 DEF Continue
<1>3. TypeInv'
    BY <1>2 DEF IInv, TypeInv, provider
<1>4. ClaimInv'
    BY <1>2 DEF IInv, ClaimInv
<1>5. FetchInv'
    BY <1>1, <1>2, FetchNext DEF Span
<1>6. SettledAsProvided'
    BY <1>2, SettledNow, SettledNext DEF IInv
<1> QED  BY <1>3, <1>4, <1>5, <1>6 DEF IInv

\* So do those that only try again.
LEMMA AttemptKeeps ==
    ASSUME IInv, Fetching, NEW status \in {"failed", "invalid"}, NextAttempt(status), faults' \in Nat
    PROVE  IInv'
<1>1. CASE attempts + 1 < MaxRetries
  <2>1. /\ attempts' = attempts + 1
        /\ UNCHANGED <<provider, requests, scopes, calls, base, pages, cancelled, outcome, held>>
      BY <1>1 DEF NextAttempt
  <2>2. TypeInv'
      BY <2>1 DEF IInv, TypeInv, provider
  <2>3. ClaimInv'
      BY <2>1 DEF IInv, ClaimInv
  <2>4. FetchInv'
      BY <2>1, FetchNext DEF IInv, FetchInv, Span
  <2>5. SettledAsProvided'
      BY <2>1, SettledNow, SettledNext DEF IInv
  <2> QED  BY <2>2, <2>3, <2>4, <2>5 DEF IInv
<1>2. CASE ~(attempts + 1 < MaxRetries)
  <2>1. End(Append(pages, BadPage(status)))
      BY <1>2 DEF NextAttempt
  <2>2. pages \in Seq(Pages) /\ scopes # {}
      BY DEF IInv, TypeInv, Fetching
  <2>3. Append(pages, BadPage(status)) \in Seq(Pages) /\ Failing(Append(pages, BadPage(status)))
      BY <2>2, PageTypes, BadFails
  <2> QED  BY <2>1, <2>2, <2>3, EndsFailed, GoesKeeps
<1> QED  BY <1>1, <1>2

\* A request ends because no page is left to ask for, or because it is cancelled.
LEMMA StopKeeps ==
    ASSUME IInv, Exhaust \/ CallCancelled
    PROVE  IInv'
<1>1. PICK status \in {"invalid", "cancelled"} : End(Append(pages, BadPage(status)))
    BY DEF Exhaust, CallCancelled
<1>2. pages \in Seq(Pages) /\ scopes # {} /\ faults' \in Nat
    BY DEF IInv, TypeInv, Fetching, Exhaust, CallCancelled
<1>3. Append(pages, BadPage(status)) \in Seq(Pages) /\ Failing(Append(pages, BadPage(status)))
    BY <1>2, PageTypes, BadFails
<1> QED  BY <1>1, <1>2, <1>3, EndsFailed, GoesKeeps

\* A call is answered, or a page comes once more.
LEMMA AnswerKeeps ==
    ASSUME IInv, CallAnswered \/ CallRepeated
    PROVE  IInv'
<1>1. TypeInv /\ FetchInv /\ Fetching /\ scopes # {}
    BY DEF IInv, Fetching, CallAnswered, CallRepeated
<1>2. faults' \in Nat
  <2>1. faults \in Nat /\ (faults' = faults \/ (faults > 0 /\ faults' = faults - 1))
      BY <1>1 DEF TypeInv, CallAnswered, CallRepeated
  <2> QED  BY <2>1
<1> DEFINE M == Matching(Head(calls))
           n == Len(pages) - base
<1>3. base # NotPaging => /\ Window(M, Offset, RowLimit) = Nth(M, RowLimit, n + 1)
                          /\ Window(M, Offset - RowLimit, RowLimit) = Nth(M, RowLimit, n)
  <2> SUFFICES ASSUME base # NotPaging
               PROVE  /\ Window(M, Offset, RowLimit) = Nth(M, RowLimit, n + 1)
                      /\ Window(M, Offset - RowLimit, RowLimit) = Nth(M, RowLimit, n)
      OBVIOUS
  <2>1. n \in Int /\ Offset = n * RowLimit
      BY <1>1, InHand DEF Offset
  <2> HIDE DEF n, M
  <2>2. (n + 1) - 1 = n /\ (n - 1) * RowLimit = n * RowLimit - RowLimit
      BY <2>1, Multiples, Constants
  <2> QED  BY <2>1, <2>2 DEF Nth
<1>4. CASE CallAnswered
  <2>1. PICK rows \in Answers(Head(calls)) : Arrive(rows)
      BY <1>4 DEF CallAnswered
  <2>2. CASE base # NotPaging
    <3>1. rows = Nth(M, RowLimit, n + 1)
        BY <1>3, <2>1, <2>2 DEF Answers
    <3>2. OffsetPage(rows)
        BY <2>1, <2>2 DEF Arrive
    <3>3. Goes
        BY <1>1, <2>2, <3>1, <3>2, OffsetStep
    <3> QED  BY <1>1, <1>2, <3>3, GoesKeeps
  <2>3. CASE base = NotPaging /\ options.kind = "range"
    <3>1. RangePage(rows)
        BY <2>1, <2>3 DEF Arrive
    <3>2. Goes
        BY <1>1, <2>1, <2>3, <3>1, RangeStep
    <3> QED  BY <1>1, <1>2, <3>2, GoesKeeps
  <2>4. CASE base = NotPaging /\ options.kind # "range"
    <3>1. PlainPage(rows)
        BY <2>1, <2>4 DEF Arrive
    <3>2. options.kind = "daily"
      <4>1. options.kind \in {"range", "daily", "scan"}
          BY <1>1 DEF TypeInv, OptionSets
      <4> QED  BY <1>1, <2>4, <4>1, InHand
    <3>3. Goes
        BY <1>1, <2>1, <2>4, <3>1, <3>2, PlainStep
    <3> QED  BY <1>1, <1>2, <3>3, GoesKeeps
  <2> QED  BY <2>2, <2>3, <2>4
<1>5. CASE CallRepeated
  <2>1. base # NotPaging /\ Len(pages) > base /\ Arrive(Repeats(Head(calls)))
      BY <1>5 DEF CallRepeated
  <2>2. PICK rows : rows = Repeats(Head(calls))
      OBVIOUS
  <2>3. rows = Nth(M, RowLimit, n)
      BY <1>3, <2>1, <2>2 DEF Repeats
  <2>4. OffsetPage(rows)
      BY <2>1, <2>2 DEF Arrive
  <2>5. Goes
      BY <1>1, <2>1, <2>3, <2>4, OffsetStep
  <2> QED  BY <1>1, <1>2, <2>5, GoesKeeps
<1> QED  BY <1>4, <1>5

-----------------------------------------------------------------------------
(* Requests begin, are split and become outcomes.                          *)

\* A request is taken from the claim.
LEMMA BeginKeeps ==
    ASSUME IInv, Begin
    PROVE  IInv'
<1>1. /\ scopes = {} /\ requests \in Seq(SUBSET Days) /\ requests # <<>>
      /\ scopes' = Head(requests) /\ requests' = Tail(requests) /\ calls' = CallsOf(scopes')
      /\ base' = (IF options.paged THEN 0 ELSE NotPaging) /\ pages' = <<>> /\ attempts' = 0
      /\ UNCHANGED <<provider, cancelled, faults, outcome, held>>
      /\ options \in OptionSets /\ history \in SUBSET Rows
    BY DEF IInv, TypeInv, Begin
<1>2. /\ Head(requests) = requests[1] /\ 1 \in DOMAIN requests
      /\ Tail(requests) \in Seq(SUBSET Days)
      /\ \A i \in DOMAIN Tail(requests) : /\ i + 1 \in DOMAIN requests /\ i + 1 # 1
                                          /\ Tail(requests)[i] = requests[i + 1]
      /\ \A i, j \in DOMAIN Tail(requests) : i # j => i + 1 # j + 1
    BY <1>1
<1>3. PICK days \in SUBSET Days : days = scopes' /\ days = requests[1] /\ days # {}
    BY <1>1, <1>2 DEF IInv, ClaimInv
<1> DEFINE span == IF options.kind = "scan" THEN Days ELSE Min(days) .. Max(days)
<1>4. CallsOf(days) \in Seq(Calls)
    BY <1>1, <1>3, CallsCover
<1>5. FetchAt(span, CallsOf(days), <<>>, base')
    BY <1>1, <1>3, NothingYet
<1>6. TypeInv'
  <2>1. base' \in Nat \cup {NotPaging}
      BY <1>1
  <2>2. <<>> \in Seq(Pages)
      OBVIOUS
  <2> QED  BY <1>1, <1>2, <1>3, <1>4, <2>1, <2>2 DEF IInv, TypeInv, provider
<1>7. ClaimInv'
  <2>1. \A i \in DOMAIN requests' : requests'[i] # {} /\ requests'[i] \cap scopes' = {}
      BY <1>1, <1>2 DEF IInv, ClaimInv
  <2>2. \A i, j \in DOMAIN requests' : i # j => requests'[i] \cap requests'[j] = {}
      BY <1>1, <1>2 DEF IInv, ClaimInv
  <2>3. \A d \in Days : d \in scopes' \/ (\E i \in DOMAIN requests' : d \in requests'[i])
                      => outcome'[d] = "running"
      BY <1>1, <1>2 DEF IInv, ClaimInv
  <2> QED  BY <2>1, <2>2, <2>3 DEF ClaimInv
<1>8. FetchInv'
    BY <1>1, <1>3, <1>5, FetchNext
<1>9. SettledAsProvided'
    BY <1>1, SettledNow, SettledNext DEF IInv
<1> QED  BY <1>6, <1>7, <1>8, <1>9 DEF IInv

\* The lower half of some days is a part of them.
LEMMA LowPart ==
    ASSUME scopes \in SUBSET Days, Cardinality(scopes) > 1
    PROVE  LowDays \subseteq scopes /\ LowDays # {} /\ scopes \ LowDays # {}
<1> DEFINE n == Cardinality(scopes)
           Up(d) == Cardinality({e \in scopes : e <= d})
<1>1. n \in Nat /\ NumDays \in Nat /\ scopes \in SUBSET (1 .. NumDays)
  <2>1. NumDays \in Nat /\ scopes \in SUBSET (1 .. NumDays)
      BY Constants DEF Days
  <2> QED  BY <2>1, FinitePart
<1>2. 1 \in 1 .. n /\ n \in 1 .. n /\ 1 <= n \div 2 /\ ~(n <= n \div 2)
  <2> HIDE DEF n
  <2>1. n > 1
      BY DEF n
  <2> QED  BY <1>1, <2>1
<1>3. PICK d \in scopes : Up(d) = 1
    BY <1>1, <1>2, RankExists
<1>4. PICK e \in scopes : Up(e) = n
    BY <1>1, <1>2, RankExists
<1>5. LowDays = {x \in scopes : Up(x) <= n \div 2}
    BY DEF LowDays
<1> HIDE DEF Up, n
<1>6. d \in LowDays /\ e \notin LowDays
    BY <1>2, <1>3, <1>4, <1>5
<1> QED  BY <1>5, <1>6

\* A range that is too large becomes two requests.
LEMMA SplitKeeps ==
    ASSUME IInv, SplitRange
    PROVE  IInv'
<1>1. /\ scopes \in SUBSET Days /\ requests \in Seq(SUBSET Days) /\ Cardinality(scopes) > 1
      /\ requests' = <<LowDays, scopes \ LowDays>> \o requests /\ scopes' = {} /\ pages' = <<>>
      /\ UNCHANGED <<provider, calls, base, attempts, cancelled, faults, outcome, held>>
    BY DEF IInv, TypeInv, SplitRange, Splittable
<1>2. PICK low, high \in SUBSET Days :
          /\ low = LowDays /\ high = scopes \ LowDays
          /\ low \subseteq scopes /\ low # {} /\ high # {}
    BY <1>1, LowPart
<1>3. low \cap high = {} /\ low \cup high = scopes
    BY <1>2
<1> DEFINE rs == <<low, high>> \o requests
<1>4. /\ rs \in Seq(SUBSET Days) /\ Len(rs) = Len(requests) + 2 /\ rs[1] = low /\ rs[2] = high
      /\ \A i \in 3 .. (Len(requests) + 2) : rs[i] = requests[i - 2]
  <2>1. <<low, high>> \in Seq(SUBSET Days) /\ Len(<<low, high>>) = 2
        /\ <<low, high>>[1] = low /\ <<low, high>>[2] = high
      OBVIOUS
  <2>2. /\ rs \in Seq(SUBSET Days) /\ Len(rs) = 2 + Len(requests)
        /\ \A i \in 1 .. Len(rs) : rs[i] = IF i <= 2 THEN <<low, high>>[i] ELSE requests[i - 2]
      BY <1>1, <2>1, ConcatProperties
  <2>3. Len(requests) \in Nat
      BY <1>1
  <2> HIDE DEF rs
  <2>4. 1 \in 1 .. Len(rs) /\ 2 \in 1 .. Len(rs)
        /\ \A i \in 3 .. (Len(requests) + 2) : i \in 1 .. Len(rs) /\ ~(i <= 2)
      BY <2>2, <2>3
  <2> QED  BY <2>1, <2>2, <2>3, <2>4
<1> HIDE DEF rs
<1>5. /\ DOMAIN rs = 1 .. (Len(requests) + 2) /\ DOMAIN requests = 1 .. Len(requests)
      /\ \A i \in DOMAIN rs : i = 1 \/ i = 2 \/ (i \in 3 .. (Len(requests) + 2)
                                                 /\ i - 2 \in DOMAIN requests)
      /\ \A i, j \in DOMAIN rs : i # j => i < j \/ j < i
      /\ \A i, j \in DOMAIN rs : i # j => i - 2 # j - 2
    BY <1>1, <1>4
<1>6. TypeInv'
  <2>1. <<>> \in Seq(Pages) /\ {} \in SUBSET Days
      OBVIOUS
  <2> QED  BY <1>1, <1>2, <1>4, <2>1 DEF IInv, TypeInv, provider, rs
<1>7. \A i \in DOMAIN requests : requests[i] # {} /\ requests[i] \cap scopes = {}
    BY DEF IInv, ClaimInv
<1>8. ClaimInv'
  <2>1. \A i \in DOMAIN rs : rs[i] # {}
      BY <1>2, <1>4, <1>5, <1>7
  <2>2. ASSUME NEW i \in DOMAIN rs, NEW j \in DOMAIN rs, i < j PROVE rs[i] \cap rs[j] = {}
    <3>1. CASE i = 1 /\ j = 2
        BY <1>3, <1>4, <3>1
    <3>2. CASE i \in {1, 2} /\ j \in 3 .. (Len(requests) + 2)
      <4>1. rs[i] \subseteq scopes
          BY <1>3, <1>4, <3>2
      <4>2. rs[j] \cap scopes = {}
          BY <1>4, <1>5, <1>7, <3>2
      <4> QED  BY <4>1, <4>2
    <3>3. CASE i \in 3 .. (Len(requests) + 2) /\ j \in 3 .. (Len(requests) + 2)
      <4>1. i - 2 \in DOMAIN requests /\ j - 2 \in DOMAIN requests /\ i - 2 # j - 2
          BY <1>5, <2>2, <3>3
      <4> QED  BY <1>4, <3>3, <4>1 DEF IInv, ClaimInv
    <3> QED  BY <1>1, <1>5, <2>2, <3>1, <3>2, <3>3
  <2>3. \A i, j \in DOMAIN rs : i # j => rs[i] \cap rs[j] = {}
      BY <1>5, <2>2
  <2>4. ASSUME NEW d \in Days, NEW i \in DOMAIN rs, d \in rs[i] PROVE outcome[d] = "running"
    <3>1. CASE i \in {1, 2}
        BY <1>3, <1>4, <2>4, <3>1 DEF IInv, ClaimInv
    <3>2. CASE i \in 3 .. (Len(requests) + 2) /\ i - 2 \in DOMAIN requests
        BY <1>4, <2>4, <3>2 DEF IInv, ClaimInv
    <3> QED  BY <1>5, <3>1, <3>2
  <2> QED  BY <1>1, <1>2, <2>1, <2>3, <2>4 DEF ClaimInv, rs
<1>9. FetchInv'
    BY <1>1 DEF FetchInv
<1>10. SettledAsProvided'
    BY <1>1, SettledNow, SettledNext DEF IInv
<1> QED  BY <1>6, <1>8, <1>9, <1>10 DEF IInv

\* The days of a request get outcomes that agree with what the provider has.
LEMMA SettleKeeps ==
    ASSUME IInv, NEW becomes, Settle(becomes), requests' = requests, held' \in [Rows -> Nat],
           \A r \in Rows : Day(r) \notin scopes => held'[r] = held[r],
           \A d \in scopes : becomes[d] \in Outcomes /\ DaySettled(d, becomes[d], held')
    PROVE  IInv'
<1>1. /\ outcome' = [d \in Days |-> IF d \in scopes THEN becomes[d] ELSE outcome[d]]
      /\ scopes' = {} /\ pages' = <<>>
      /\ UNCHANGED <<provider, calls, base, attempts, cancelled, faults>>
    BY DEF Settle
<1>2. TypeInv'
  <2>1. <<>> \in Seq(Pages) /\ {} \in SUBSET Days
      OBVIOUS
  <2>2. outcome' \in [Days -> Outcomes]
      BY <1>1 DEF IInv, TypeInv
  <2> QED  BY <1>1, <2>1, <2>2 DEF IInv, TypeInv, provider
<1>3. ClaimInv'
  <2>1. \A d \in Days : (\E i \in DOMAIN requests : d \in requests[i]) => d \notin scopes
      BY DEF IInv, ClaimInv
  <2>2. \A d \in Days : (\E i \in DOMAIN requests : d \in requests[i]) => outcome'[d] = "running"
      BY <1>1, <2>1 DEF IInv, ClaimInv
  <2> QED  BY <1>1, <2>2 DEF IInv, ClaimInv
<1>4. FetchInv'
    BY <1>1 DEF FetchInv
<1>5. SettledAsProvided'
  <2>1. ASSUME NEW d \in Days PROVE DaySettled(d, outcome'[d], held')
    <3>1. CASE d \in scopes
        BY <1>1, <3>1
    <3>2. CASE d \notin scopes
      <4>1. outcome'[d] = outcome[d] /\ DaySettled(d, outcome[d], held)
          BY <1>1, <3>2, SettledNow DEF IInv
      <4>2. \A r \in Rows : Day(r) = d => held'[r] = held[r]
          BY <3>2
      <4>3. history \in SUBSET Rows
          BY DEF IInv, TypeInv
      <4> QED  BY <4>1, <4>2, <4>3 DEF DaySettled
    <3> QED  BY <3>1, <3>2
  <2> QED  BY <1>1, <2>1, SettledNext
<1> QED  BY <1>2, <1>3, <1>4, <1>5 DEF IInv

\* Nothing is held of a day of the request in hand.
LEMMA NothingHeld ==
    ASSUME IInv
    PROVE  /\ held \in [Rows -> Nat] /\ scopes \in SUBSET Days /\ history \in SUBSET Rows
           /\ \A r \in Rows : Day(r) \in scopes => held[r] = 0
<1>1. held \in [Rows -> Nat] /\ scopes \in SUBSET Days /\ history \in SUBSET Rows
    BY DEF IInv, TypeInv
<1>2. \A d \in scopes : outcome[d] # "buffered" /\ d \in Days
    BY <1>1 DEF IInv, ClaimInv
<1> QED  BY <1>1, <1>2 DEF IInv, SettledAsProvided

\* A request is refused.
LEMMA RefuseKeeps ==
    ASSUME IInv, Refuse \/ RefuseDates
    PROVE  IInv'
<1>1. PICK becomes : /\ Settle(becomes) /\ UNCHANGED <<requests, held>>
                     /\ \A d \in scopes : becomes[d] \in {"invalid", "failed"}
  <2>1. CASE Refuse
    <3> DEFINE of == [d \in scopes |->
                         IF \E i \in DOMAIN Final : Final[i].status \in {"invalid", "oversized"}
                         THEN "invalid" ELSE "failed"]
    <3>1. Settle(of) /\ UNCHANGED <<requests, held>>
        BY <2>1 DEF Refuse
    <3>2. \A d \in scopes : of[d] \in {"invalid", "failed"}
        OBVIOUS
    <3> HIDE DEF of
    <3> QED  BY <3>1, <3>2
  <2>2. CASE RefuseDates
    <3> DEFINE of == [d \in scopes |-> "invalid"]
    <3>1. Settle(of) /\ UNCHANGED <<requests, held>>
        BY <2>2 DEF RefuseDates
    <3>2. \A d \in scopes : of[d] \in {"invalid", "failed"}
        OBVIOUS
    <3> HIDE DEF of
    <3> QED  BY <3>1, <3>2
  <2> QED  BY <2>1, <2>2
<1>2. \A d \in scopes : becomes[d] \in Outcomes /\ DaySettled(d, becomes[d], held)
  <2> TAKE d \in scopes
  <2>1. becomes[d] \in {"invalid", "failed"}
      BY <1>1
  <2>2. becomes[d] \in Outcomes /\ becomes[d] # "buffered" /\ becomes[d] # "empty"
      BY <2>1 DEF Outcomes
  <2>3. \A r \in Rows : Day(r) = d => held[r] = 0
      BY NothingHeld
  <2> QED  BY <2>2, <2>3 DEF DaySettled
<1> QED  BY <1>1, <1>2, NothingHeld, SettleKeeps

\* The frame of a valid response has what the provider has of its days, each row once.
LEMMA FrameIsWhole ==
    ASSUME IInv, Fetched, ~Failing(Final), ValidResponse
    PROVE  /\ Frame = {r \in history : Day(r) \in scopes}
           /\ \A r \in Frame : Copies(r) = 1
<1>1. /\ pages \in Seq(Pages) /\ history \in SUBSET Rows /\ scopes \in SUBSET Days /\ scopes # {}
      /\ calls = <<>> /\ FetchAt(Span, calls, pages, base)
    BY DEF IInv, TypeInv, FetchInv, Fetched
<1>2. ~Failing(pages)
  <2>1. WithinBuffer(pages)
      BY <1>1, BoundFails DEF Final
  <2> QED  BY <2>1 DEF Final, Bound
<1>3. Once(Span, <<>>, pages, Len(pages)) /\ base = NotPaging
    BY <1>1, <1>2 DEF FetchAt, Before
<1>4. \A r : ~Waiting(<<>>, r)
    BY DEF Waiting
<1>5. \A r : Copies(r) = Cardinality(In(pages, r, Len(pages)))
  <2>1. DOMAIN pages = 1 .. Len(pages)
      BY <1>1
  <2> QED  BY <2>1 DEF Copies, In
<1>6. ASSUME NEW r \in Rows
      PROVE  Copies(r) = IF r \in history /\ Day(r) \in Span THEN 1 ELSE 0
  <2>1. CASE r \in history /\ Day(r) \in Span
    <3>1. PICK i : In(pages, r, Len(pages)) = {i}
        BY <1>3, <1>4, <2>1 DEF Once
    <3> QED  BY <1>5, <2>1, <3>1, FS_Singleton
  <2>2. CASE ~(r \in history /\ Day(r) \in Span)
    <3>1. In(pages, r, Len(pages)) = {}
        BY <1>3, <1>4, <2>2 DEF Once
    <3> QED  BY <1>5, <2>2, <3>1, FS_EmptySet
  <2> QED  BY <2>1, <2>2
<1>7. \A d \in scopes : d \in Span
    BY <1>1, Extremes DEF Span
<1>8. \A r \in Frame : r \in Rows /\ Copies(r) > 0 /\ Day(r) \in scopes
    BY DEF Frame, ValidResponse
<1>9. \A r \in Rows : Copies(r) > 0 => r \in history /\ Copies(r) = 1
    BY <1>6
<1>10. \A r \in history : Day(r) \in scopes => r \in Rows /\ Copies(r) > 0
    BY <1>1, <1>6, <1>7
<1>11. \A r \in history : Day(r) \in scopes => r \in Frame
    BY <1>10 DEF Frame
<1> QED  BY <1>8, <1>9, <1>11

\* A valid response is harvested.
LEMMA HarvestKeeps ==
    ASSUME IInv, Harvest
    PROVE  IInv'
<1> DEFINE becomes == [d \in scopes |-> IF \E r \in Frame : Day(r) = d THEN "buffered"
                                        ELSE EmptyOutcome(d)]
<1>1. /\ Settle(becomes) /\ requests' = requests
      /\ held' = [r \in Rows |-> held[r] + IF r \in Frame THEN Copies(r) ELSE 0]
    BY DEF Harvest
<1>2. Frame = {r \in history : Day(r) \in scopes} /\ \A r \in Frame : Copies(r) = 1
    BY FrameIsWhole DEF Harvest
<1>3. /\ held \in [Rows -> Nat] /\ scopes \in SUBSET Days /\ history \in SUBSET Rows
      /\ \A r \in Rows : Day(r) \in scopes => held[r] = 0
    BY NothingHeld
<1>4. ASSUME NEW r \in Rows
      PROVE  /\ held'[r] \in Nat
             /\ Day(r) \notin scopes => held'[r] = held[r]
             /\ Day(r) \in scopes => held'[r] = IF r \in history THEN 1 ELSE 0
    BY <1>1, <1>2, <1>3
<1>5. held' \in [Rows -> Nat]
    BY <1>1, <1>4
<1>6. \A d \in scopes : becomes[d] \in Outcomes /\ DaySettled(d, becomes[d], held')
  <2> TAKE d \in scopes
  <2> DEFINE rows == {r \in history : Day(r) = d}
  <2>1. becomes[d] = IF \E r \in Frame : Day(r) = d THEN "buffered" ELSE EmptyOutcome(d)
      OBVIOUS
  <2>2. (\E r \in Frame : Day(r) = d) <=> rows # {}
      BY <1>2
  <2>3. /\ \A r \in rows : held'[r] = 1
        /\ rows = {} => \A r \in Rows : Day(r) = d => held'[r] = 0
      BY <1>3, <1>4
  <2>4. CASE rows # {}
    <3>1. becomes[d] = "buffered"
        BY <2>1, <2>2, <2>4
    <3> QED  BY <2>3, <2>4, <3>1 DEF DaySettled, Outcomes
  <2>5. CASE rows = {}
    <3>1. becomes[d] = EmptyOutcome(d)
        BY <2>1, <2>2, <2>5
    <3>2. EmptyOutcome(d) = IF d \in options.required THEN "invalid" ELSE "empty"
        BY DEF EmptyOutcome
    <3>3. becomes[d] \in Outcomes /\ becomes[d] # "buffered"
          /\ (becomes[d] = "empty" => d \notin options.required)
        BY <3>1, <3>2 DEF Outcomes
    <3> QED  BY <2>3, <2>5, <3>3 DEF DaySettled
  <2> QED  BY <2>4, <2>5
<1> HIDE DEF becomes
<1> QED  BY <1>1, <1>4, <1>5, <1>6, SettleKeeps

\* A cancellation is noted.
LEMMA CancelKeeps ==
    ASSUME IInv, Cancel
    PROVE  IInv'
<1>1. /\ cancelled' = TRUE
      /\ UNCHANGED <<provider, requests, scopes, calls, base, pages, attempts, faults, outcome, held>>
    BY DEF Cancel
<1>2. TypeInv'
    BY <1>1 DEF IInv, TypeInv, provider
<1>3. ClaimInv'
    BY <1>1 DEF IInv, ClaimInv
<1>4. FetchInv'
    BY <1>1, FetchNext DEF IInv, FetchInv, Span
<1>5. SettledAsProvided'
    BY <1>1, SettledNow, SettledNext DEF IInv
<1> QED  BY <1>2, <1>3, <1>4, <1>5 DEF IInv

-----------------------------------------------------------------------------
(* The claim starts in order.                                              *)

\* The days of a claim are running, and nothing is held.
LEMMA InitHolds ==
    ASSUME Init
    PROVE  IInv
<1>1. /\ options \in OptionSets /\ history \in SUBSET Rows
      /\ loose \in BOOLEAN /\ (loose => options.kind = "scan")
      /\ scopes = {} /\ calls = <<>> /\ pages = <<>> /\ base = NotPaging /\ attempts = 0
      /\ cancelled = FALSE /\ faults \in Nat /\ held = [r \in Rows |-> 0]
    BY Constants DEF Init
<1>2. PICK claim \in Claims :
          /\ requests = IF options.kind = "daily"
                        THEN [i \in 1 .. Cardinality(claim) |->
                                  {d \in claim : Cardinality({e \in claim : e <= d}) = i}]
                        ELSE <<claim>>
          /\ outcome = [d \in Days |-> IF d \in claim THEN "running" ELSE "unclaimed"]
    BY DEF Init
<1>3. claim \in SUBSET Days /\ claim # {} /\ claim \in SUBSET (1 .. NumDays) /\ NumDays \in Nat
    BY PaginationAssumption DEF Days
<1>4. Cardinality(claim) \in Nat
    BY <1>3, FinitePart
<1>5. /\ requests \in Seq(SUBSET Days)
      /\ \A i \in DOMAIN requests : requests[i] # {} /\ requests[i] \subseteq claim
      /\ \A i, j \in DOMAIN requests : i # j => requests[i] \cap requests[j] = {}
  <2>1. CASE options.kind = "daily"
    <3> DEFINE n == Cardinality(claim)
               At(i) == {d \in claim : Cardinality({e \in claim : e <= d}) = i}
    <3>1. requests = [i \in 1 .. n |-> At(i)] /\ n \in Nat
        BY <1>2, <1>4, <2>1
    <3>2. \A i \in 1 .. n : At(i) # {}
      <4> TAKE i \in 1 .. n
      <4>1. PICK s \in claim : Cardinality({e \in claim : e <= s}) = i
          BY <1>3, RankExists
      <4> QED  BY <4>1
    <3>3. \A i : At(i) \in SUBSET Days /\ At(i) \subseteq claim
        BY <1>3
    <3>4. \A i, j : i # j => At(i) \cap At(j) = {}
        OBVIOUS
    <3> HIDE DEF n, At
    <3>5. requests \in Seq(SUBSET Days) /\ DOMAIN requests = 1 .. n
        BY <3>1, <3>3
    <3> QED  BY <3>1, <3>2, <3>3, <3>4, <3>5
  <2>2. CASE options.kind # "daily"
    <3>1. requests = <<claim>>
        BY <1>2, <2>2
    <3>2. requests \in Seq(SUBSET Days) /\ DOMAIN requests = {1} /\ requests[1] = claim
        BY <1>3, <3>1
    <3> QED  BY <1>3, <3>2
  <2> QED  BY <2>1, <2>2
<1>6. TypeInv
  <2>1. <<>> \in Seq(Calls) /\ <<>> \in Seq(Pages) /\ {} \in SUBSET Days
      OBVIOUS
  <2>2. outcome \in [Days -> Outcomes] /\ held \in [Rows -> Nat]
      BY <1>1, <1>2 DEF Outcomes
  <2> QED  BY <1>1, <1>5, <2>1, <2>2 DEF TypeInv
<1>7. ClaimInv
    BY <1>1, <1>2, <1>5 DEF ClaimInv
<1>8. FetchInv
    BY <1>1 DEF FetchInv
<1>9. SettledAsProvided
    BY <1>1, <1>2 DEF SettledAsProvided
<1> QED  BY <1>6, <1>7, <1>8, <1>9 DEF IInv

\* No step leaves it.
LEMMA StepKeeps ==
    ASSUME IInv, [Next]_vars
    PROVE  IInv'
<1>1. CASE Begin
    BY <1>1, BeginKeeps
<1>2. CASE Exhaust \/ CallCancelled
    BY <1>2, StopKeeps
<1>3. CASE CallFails
  <2>1. Fetching /\ NextAttempt("failed") /\ faults' \in Nat
      BY <1>3 DEF CallFails, IInv, TypeInv
  <2> QED  BY <2>1, AttemptKeeps
<1>4. CASE CallEmpty
  <2>1. Fetching /\ NextAttempt("invalid") /\ faults' \in Nat
      BY <1>4 DEF CallEmpty, IInv, TypeInv
  <2> QED  BY <2>1, AttemptKeeps
<1>5. CASE CallAnswered \/ CallRepeated
    BY <1>5, AnswerKeeps
<1>6. CASE SplitRange
    BY <1>6, SplitKeeps
<1>7. CASE Refuse \/ RefuseDates
    BY <1>7, RefuseKeeps
<1>8. CASE Harvest
    BY <1>8, HarvestKeeps
<1>9. CASE Cancel
    BY <1>9, CancelKeeps
<1>10. CASE UNCHANGED vars
  <2>1. UNCHANGED <<provider, requests, scopes, calls, base, pages, attempts, cancelled, faults,
                    outcome, held>>
      BY <1>10 DEF vars
  <2>2. TypeInv'
      BY <2>1 DEF IInv, TypeInv, provider
  <2>3. ClaimInv'
      BY <2>1 DEF IInv, ClaimInv
  <2>4. FetchInv'
      BY <2>1, FetchNext DEF IInv, FetchInv, Span
  <2>5. SettledAsProvided'
      BY <2>1, SettledNow, SettledNext DEF IInv
  <2> QED  BY <2>2, <2>3, <2>4, <2>5 DEF IInv
<1> QED  BY <1>1, <1>2, <1>3, <1>4, <1>5, <1>6, <1>7, <1>8, <1>9, <1>10 DEF Next, Work

\* A day is buffered only with all the rows the provider has for it, each once, and called
\* empty only if it has none (_fetch_adaptive_date_range, _fetch_offset_pages,
\* _fetch_initialization_scan and _harvest_request).
THEOREM Settled == Spec => []SettledAsProvided
<1>1. Init => IInv
    BY InitHolds
<1>2. IInv /\ [Next]_vars => IInv'
    BY StepKeeps
<1>3. IInv => SettledAsProvided
    BY DEF IInv
<1> QED  BY <1>1, <1>2, <1>3, PTL DEF Spec

=============================================================================
