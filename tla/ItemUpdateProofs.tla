-------------------------- MODULE ItemUpdateProofs --------------------------
(***************************************************************************)
(* What completions certify, what a plan leaves out and what a flag is     *)
(* written over, for every graph of inputs, every number of days,          *)
(* definitions, revisions and calls: for one process and one row from      *)
(* outside, as the runs have it, and for any number of both as long as no  *)
(* two processes work on one Item at once and no row arrives at the Item   *)
(* between what a build finds to repair and the repair.  Without the one   *)
(* or the other hypothesis TLC finds counterexamples.  Which days a flag   *)
(* may advertise is proved without any.                                    *)
(*                                                                         *)
(* The invariant is that every certificate is true of the rows nobody has  *)
(* written over since, and what each operation has reached of its range.   *)
(***************************************************************************)
EXTENDS ItemUpdate, Integers, FiniteSetTheorems, WellFoundedInduction, TLAPS

-----------------------------------------------------------------------------
(* Least and greatest numbers.                                             *)

\* A nonempty set of natural numbers has a least element.
LEMMA NatLeast ==
    ASSUME NEW T \in SUBSET Nat, T # {}
    PROVE  \E x \in T : \A y \in T : x <= y
<1>1. PICK x \in T : \A y \in T : ~(<<y, x>> \in OpToRel(<, Nat))
    BY NatLessThanWellFounded, WFMin
<1>2. \A y \in T : ~(y < x)
    BY <1>1 DEF OpToRel
<1> QED  BY <1>2

\* A nonempty bounded one has a greatest element.
LEMMA NatGreatest ==
    ASSUME NEW n \in Nat, NEW T \in SUBSET (0 .. n), T # {}
    PROVE  \E x \in T : \A y \in T : y <= x
<1> DEFINE Bounds == {b \in Nat : \A y \in T : y <= b}
<1>1. n \in Bounds
    OBVIOUS
<1>2. PICK b \in Bounds : \A c \in Bounds : b <= c
    BY <1>1, NatLeast
<1>3. CASE b \in T
    BY <1>3
<1>4. CASE b \notin T
  <2>1. \A y \in T : y <= b - 1
      BY <1>4
  <2>2. b - 1 \in Nat
    <3>1. PICK y \in T : TRUE
        OBVIOUS
    <3>2. y \in Nat /\ y <= b - 1
        BY <2>1
    <3> QED  BY <3>2
  <2> QED  BY <1>2, <2>1, <2>2
<1> QED  BY <1>3, <1>4

-----------------------------------------------------------------------------
(* Days.                                                                   *)

\* Days are numbers, and what lies between two of them are days.
LEMMA DayFacts ==
    /\ Days \subseteq Nat
    /\ \A a, b \in Days : a .. b \subseteq Days
    /\ \E n \in Nat : Days \in SUBSET (0 .. n)
<1>1. Cardinality(Days) \in Nat /\ Days = 1 .. Cardinality(Days)
    BY FS_CardinalityType, DeclarationAssumption
<1>2. \A n \in Nat : Days = 1 .. n =>
          Days \subseteq Nat /\ Days \in SUBSET (0 .. n) /\ \A a, b \in Days : a .. b \subseteq Days
    OBVIOUS
<1> QED  BY <1>1, <1>2

\* The days are ordered as numbers are.
LEMMA DayOrder == \A a, b, c \in Days : a <= b /\ b <= c => a <= c
<1> TAKE a, b, c \in Days
<1>1. a \in Nat /\ b \in Nat /\ c \in Nat
    BY DayFacts
<1> QED  BY <1>1

\* A part of the days has a first one.
LEMMA FirstDay ==
    ASSUME NEW S \in SUBSET Days, S # {}
    PROVE  Min(S) \in S /\ \A x \in S : Min(S) <= x
<1>1. S \in SUBSET Nat
    BY DayFacts
<1>2. PICK x \in S : \A y \in S : x <= y
    BY <1>1, NatLeast
<1> QED  BY <1>2 DEF Min

\* And a last one.
LEMMA LastOfDays ==
    ASSUME NEW S \in SUBSET Days, S # {}
    PROVE  Max(S) \in S /\ \A x \in S : x <= Max(S)
<1>1. PICK n \in Nat : S \in SUBSET (0 .. n)
    BY DayFacts
<1>2. PICK x \in S : \A y \in S : y <= x
    BY <1>1, NatGreatest
<1>3. S \subseteq Nat
    BY DayFacts
<1> QED  BY <1>2, <1>3 DEF Max

\* The hull of a set of days holds it.
LEMMA HullFacts ==
    ASSUME NEW S \in SUBSET Days
    PROVE  S \subseteq Hull(S) /\ Hull(S) \subseteq Days
<1>1. CASE S = {}
    BY <1>1 DEF Hull
<1>2. CASE S # {}
  <2>1. /\ Min(S) \in S /\ Max(S) \in S
        /\ \A x \in S : Min(S) <= x /\ x <= Max(S)
      BY <1>2, FirstDay, LastOfDays
  <2>2. Hull(S) = Min(S) .. Max(S) /\ S \subseteq Nat
      BY <1>2, DayFacts DEF Hull
  <2>3. Hull(S) \subseteq Days
      BY <2>1, <2>2, DayFacts
  <2>4. Min(S) \in Nat /\ Max(S) \in Nat
      BY <2>1, <2>2
  <2>5. S \subseteq Min(S) .. Max(S)
      BY <2>1, <2>2, <2>4
  <2> QED  BY <2>2, <2>3, <2>5
<1> QED  BY <1>1, <1>2

\* An interval of days.
Contiguous(S) == S \in SUBSET Days /\ S # {} /\ S = Min(S) .. Max(S)

\* The days from one to a later one are a run.
LEMMA IntervalContiguous ==
    ASSUME NEW a \in Days, NEW b \in Days, a <= b
    PROVE  Contiguous(a .. b)
<1>1. a .. b \in SUBSET Days /\ a \in a .. b /\ b \in a .. b /\ a \in Nat /\ b \in Nat
    BY DayFacts
<1>2. /\ Min(a .. b) \in a .. b /\ Max(a .. b) \in a .. b
      /\ \A x \in a .. b : Min(a .. b) <= x /\ x <= Max(a .. b)
    BY <1>1, FirstDay, LastOfDays
<1>3. Min(a .. b) = a /\ Max(a .. b) = b
    BY <1>1, <1>2
<1> QED  BY <1>1, <1>3 DEF Contiguous

\* The first run of a set of days is an interval of it.
LEMMA FirstRunFacts ==
    ASSUME NEW S \in SUBSET Days, S # {}
    PROVE  Contiguous(FirstRun(S)) /\ FirstRun(S) \subseteq S /\ Min(FirstRun(S)) = Min(S)
<1> DEFINE R == FirstRun(S)
<1>1. S \subseteq Nat /\ Min(S) \in S /\ \A x \in S : Min(S) <= x
    BY FirstDay, DayFacts
<1>2. R \subseteq S /\ Min(S) \in R
  <2>1. Min(S) .. Min(S) = {Min(S)}
      BY <1>1
  <2> QED  BY <1>1, <2>1 DEF FirstRun
<1>3. /\ Min(R) \in R /\ Max(R) \in R
      /\ \A x \in R : Min(R) <= x /\ x <= Max(R)
    BY <1>2, FirstDay, LastOfDays
<1>4. Min(R) = Min(S)
  <2>1. Min(R) \in S /\ Min(R) <= Min(S)
      BY <1>2, <1>3
  <2>2. Min(S) <= Min(R) /\ Min(S) \in Nat /\ Min(R) \in Nat
      BY <1>1, <2>1
  <2> QED  BY <2>1, <2>2
<1>5. ASSUME NEW x \in Min(R) .. Max(R) PROVE x \in R
  <2>1. Min(S) .. Max(R) \subseteq S
      BY <1>3 DEF FirstRun
  <2>2. Min(S) \in Nat /\ Max(R) \in Nat /\ x \in Min(S) .. Max(R)
      BY <1>1, <1>2, <1>3, <1>4, <1>5
  <2>3. Min(S) .. x \subseteq Min(S) .. Max(R)
      BY <2>2
  <2>4. Min(S) .. x \subseteq S /\ x \in S
      BY <2>1, <2>2, <2>3
  <2> QED  BY <2>4 DEF FirstRun
<1>6. R = Min(R) .. Max(R)
  <2>1. Min(R) \in Nat /\ Max(R) \in Nat /\ R \subseteq Nat
      BY <1>1, <1>2, <1>3
  <2>2. R \subseteq Min(R) .. Max(R)
    <3> HIDE DEF R
    <3> QED  BY <1>3, <2>1
  <2> QED  BY <1>5, <2>2
<1> QED  BY <1>2, <1>4, <1>6 DEF Contiguous

-----------------------------------------------------------------------------
(* The log: what the last publication of a day is, and when it stays so.    *)

Touch(l, k, n, d) == l[k].kind = "commit" /\ l[k].node = n /\ d \in DOMAIN l[k].at

LastIn(l, n, d, max) ==
    CHOOSE k \in 0 .. max :
        /\ k > 0 => Touch(l, k, n, d)
        /\ \A j \in (k + 1) .. max : ~Touch(l, j, n, d)

ContentIn(l, n, d, max) ==
    IF LastIn(l, n, d, max) = 0 THEN Nothing ELSE l[LastIn(l, n, d, max)].at[d]

ComputeIn(l, i, s, max, d) ==
    [by |-> s, of |-> [n \in Inputs[i] |-> [e \in Reads(i, d) |-> ContentIn(l, n, e, max)]]]

IsLast(l, n, d, max, k) ==
    /\ k \in 0 .. max
    /\ k > 0 => Touch(l, k, n, d)
    /\ \A j \in (k + 1) .. max : ~Touch(l, j, n, d)

\* There is one last publication of a day.
LEMMA LastFacts ==
    ASSUME NEW l, NEW n, NEW d, NEW max \in Nat
    PROVE  /\ IsLast(l, n, d, max, LastIn(l, n, d, max))
           /\ \A k : IsLast(l, n, d, max, k) => k = LastIn(l, n, d, max)
<1> DEFINE T == {k \in 1 .. max : Touch(l, k, n, d)}
<1>1. \E k : IsLast(l, n, d, max, k)
  <2>1. CASE T = {}
    <3>1. IsLast(l, n, d, max, 0)
        BY <2>1 DEF IsLast
    <3> QED  BY <3>1
  <2>2. CASE T # {}
    <3>1. PICK k \in T : \A j \in T : j <= k
      <4>1. T \in SUBSET (0 .. max)
          OBVIOUS
      <4> HIDE DEF T
      <4> QED  BY <2>2, <4>1, NatGreatest
    <3>2. ASSUME NEW j \in (k + 1) .. max PROVE j \notin T /\ j \in 1 .. max
        BY <3>1, <3>2
    <3>3. IsLast(l, n, d, max, k)
        BY <3>1, <3>2 DEF IsLast
    <3> QED  BY <3>3
  <2> QED  BY <2>1, <2>2
<1>2. IsLast(l, n, d, max, LastIn(l, n, d, max))
    BY <1>1 DEF IsLast, LastIn
<1>3. ASSUME NEW j, NEW k, IsLast(l, n, d, max, j), IsLast(l, n, d, max, k) PROVE ~(j < k)
    BY <1>3 DEF IsLast
<1>4. ASSUME NEW k, IsLast(l, n, d, max, k) PROVE k = LastIn(l, n, d, max)
  <2>1. k \in Nat /\ LastIn(l, n, d, max) \in Nat
      BY <1>2, <1>4 DEF IsLast
  <2> QED  BY <1>2, <1>3, <1>4, <2>1
<1> QED  BY <1>2, <1>4

Agree(l, m, max) == \A k \in 1 .. max : l[k] = m[k]

\* It depends on the log up to there only.
LEMMA SamePast ==
    ASSUME NEW l, NEW m, NEW max \in Nat, Agree(l, m, max), NEW n, NEW d
    PROVE  /\ LastIn(l, n, d, max) = LastIn(m, n, d, max)
           /\ ContentIn(l, n, d, max) = ContentIn(m, n, d, max)
<1> DEFINE k == LastIn(l, n, d, max)
<1>1. IsLast(l, n, d, max, k)
    BY LastFacts
<1>2. k \in 0 .. max /\ (k > 0 => l[k] = m[k])
    BY <1>1 DEF IsLast, Agree
<1>3. \A j \in (k + 1) .. max : l[j] = m[j]
    BY <1>2 DEF Agree
<1>4. IsLast(m, n, d, max, k)
    BY <1>1, <1>2, <1>3 DEF IsLast, Touch
<1>5. LastIn(m, n, d, max) = k
    BY <1>4, LastFacts
<1> HIDE DEF k
<1>6. k = LastIn(l, n, d, max)
    BY DEF k
<1> QED  BY <1>2, <1>5, <1>6 DEF ContentIn

\* So does what is computed from it.
LEMMA SameInputs ==
    ASSUME NEW l, NEW m, NEW max \in Nat, Agree(l, m, max),
           NEW i, NEW s, NEW d
    PROVE  ComputeIn(l, i, s, max, d) = ComputeIn(m, i, s, max, d)
<1>1. ASSUME NEW n, NEW e PROVE ContentIn(l, n, e, max) = ContentIn(m, n, e, max)
    BY SamePast
<1> QED  BY <1>1 DEF ComputeIn

\* Publications of other days change nothing.
LEMMA UntouchedSince ==
    ASSUME NEW l, NEW max \in Nat, NEW top \in Nat, max <= top, NEW n, NEW d,
           \A k \in (max + 1) .. top : ~Touch(l, k, n, d)
    PROVE  /\ LastIn(l, n, d, top) = LastIn(l, n, d, max)
           /\ ContentIn(l, n, d, top) = ContentIn(l, n, d, max)
<1> DEFINE k == LastIn(l, n, d, max)
<1>1. IsLast(l, n, d, max, k)
    BY LastFacts
<1>2. IsLast(l, n, d, top, k)
  <2>1. \A j \in (k + 1) .. top : j \in (k + 1) .. max \/ j \in (max + 1) .. top
      BY <1>1 DEF IsLast
  <2> QED  BY <1>1, <2>1 DEF IsLast
<1>3. LastIn(l, n, d, top) = k
    BY <1>2, LastFacts
<1> QED  BY <1>3 DEF ContentIn

\* Publications of what an Item does not read change nothing of its output.
LEMMA UnreadSince ==
    ASSUME NEW l, NEW max \in Nat, NEW top \in Nat, max <= top, NEW i, NEW s, NEW d,
           \A n \in Inputs[i] : \A e \in Reads(i, d) :
               \A k \in (max + 1) .. top : ~Touch(l, k, n, e)
    PROVE  ComputeIn(l, i, s, top, d) = ComputeIn(l, i, s, max, d)
<1>1. \A n \in Inputs[i], e \in Reads(i, d) : ContentIn(l, n, e, top) = ContentIn(l, n, e, max)
    BY UntouchedSince
<1> QED  BY <1>1 DEF ComputeIn

\* A publication of a day is its last.
LEMMA TouchedNow ==
    ASSUME NEW l, NEW top \in Nat, top > 0, NEW n, NEW d, Touch(l, top, n, d)
    PROVE  LastIn(l, n, d, top) = top /\ ContentIn(l, n, d, top) = l[top].at[d]
<1>1. IsLast(l, n, d, top, top)
    BY DEF IsLast
<1>2. LastIn(l, n, d, top) = top
    BY <1>1, LastFacts
<1> QED  BY <1>2 DEF ContentIn

-----------------------------------------------------------------------------
(* Logs and receipts only grow.                                            *)

IsSeq(l) == \E S : l \in Seq(S)

Extends(l, m) ==
    Len(l) \in Nat /\ Len(m) \in Nat /\ Len(l) <= Len(m) /\ Agree(l, m, Len(l))

\* Sequences have natural lengths, and what is appended extends them.
LEMMA Appended ==
    ASSUME NEW l, IsSeq(l), NEW e
    PROVE  /\ IsSeq(Append(l, e)) /\ Len(l) \in Nat /\ Len(Append(l, e)) = Len(l) + 1
           /\ Append(l, e)[Len(l) + 1] = e
           /\ \A k \in 1 .. Len(l) : Append(l, e)[k] = l[k]
           /\ Extends(l, Append(l, e)) /\ Extends(l, l)
<1>1. PICK S : l \in Seq(S)
    BY DEF IsSeq
<1> DEFINE T == S \cup {e}
<1>2. l \in Seq(T) /\ e \in T
  <2>1. Len(l) \in Nat /\ l \in [1 .. Len(l) -> S]
      BY <1>1
  <2>2. l \in [1 .. Len(l) -> T]
      BY <2>1
  <2> QED  BY <2>1, <2>2
<1> HIDE DEF T
<1>3. /\ Append(l, e) \in Seq(T) /\ Len(l) \in Nat /\ Len(Append(l, e)) = Len(l) + 1
      /\ Append(l, e)[Len(l) + 1] = e
      /\ \A k \in 1 .. Len(l) : Append(l, e)[k] = l[k]
    BY <1>2
<1> QED  BY <1>3 DEF IsSeq, Extends, Agree

YieldsIn(l, rs, i, s, k, d) ==
    ContentIn(l, i, d, Len(l)) = ComputeIn(l, i, s, rs[k].max, d)

-----------------------------------------------------------------------------
(* The invariant.                                                          *)

\* An output is what a definition makes of what a receipt selects.
Yields(i, s, k, d) == Content(i, d, Len(log)) = Compute(i, s, receipts[k].max, d)

\* A certificate speaks of the rows nobody wrote over since.
Certifies(i, b) ==
    \A d \in b.first .. b.last :
        LastEvent(i, d, Len(log)) <= b.result => Yields(i, b.spec, b.receipt, d)

\* A receipt of the Item that selects all up to a day.
Vouches(i, k, last) ==
    k \in 1 .. Len(receipts) /\ receipts[k].item = i /\ last <= receipts[k].cutoff

\* A publication carries days of a node, and a receipt of that node or none.
EntryOK(e) ==
    /\ e.kind \in {"commit", "check"} /\ e.node \in Nodes /\ DOMAIN e.at \subseteq Days
    /\ e.receipt \in 0 .. Len(receipts)
    /\ e.receipt > 0 => receipts[e.receipt].item = e.node

\* A receipt of an Item selects a prefix of the log.
ReceiptOK(r) == r.item \in Items /\ r.max \in 0 .. Len(log) /\ r.cutoff \in Days

\* What is certified is true; published rows and pinned sources name receipts of
\* their Item.
BuildOK(i, b) ==
    /\ b.first \in Days /\ b.last \in Days /\ b.result \in 0 .. Len(log)
    /\ Vouches(i, b.receipt, b.last)
    /\ Certifies(i, b)

RowOK(i, r) == r.receipt \in 1 .. Len(receipts) /\ receipts[r.receipt].item = i

PinOK(i, x) == Vouches(i, x.receipt, x.last)

\* Somebody else has published the Item since the call began.
Overwritten(f) ==
    \E k \in (f.before + 1) .. Len(log) : log[k].node = f.item /\ log[k].receipt # f.receipt

\* A row of some Item came from outside.
Ingested == \E k \in 1 .. Len(log) : log[k].node \in Items /\ log[k].receipt = 0

\* A day is what the operation's definition yields from its receipt.
Correct(f, d) == Yields(f.item, f.spec, f.receipt, d)

Publishing == {"publish", "settle", "repair", "certify"}

Phases ==
    Publishing \cup {"parents", "freeze", "recheck", "finish", "reuse", "rebind", "refresh", "units"}

Frames ==
    [op : {"update", "initialize", "resume"}, item : Items, first : Days, last : Days,
     phase : Phases, spec : Nat, before : Nat, receipt : Nat, todo : SUBSET Items,
     left : SUBSET Days, unit : SUBSET Days, unpublished : SUBSET Days, result : Nat, prior : Nat]

\* The days an operation works on lie in its range, and from the time it has
\* frozen its inputs its receipt is one of its Item.
FrameOK(f) ==
    /\ f.first <= f.last /\ f.before <= Len(log) /\ f.result <= Len(log)
    /\ f.receipt <= Len(receipts)
    /\ f.left \subseteq f.first .. f.last /\ f.unit \subseteq f.first .. f.last
    /\ f.unpublished \subseteq f.unit
    /\ f.phase \in Publishing \cup {"recheck", "finish", "units", "rebind"} =>
          Vouches(f.item, f.receipt, f.last)
    /\ f.phase \in Publishing => Contiguous(f.unit)
    /\ f.phase \in {"publish", "repair"} <=> f.unpublished # {}
    /\ f.phase \in {"freeze", "recheck", "finish", "reuse", "rebind", "refresh"} => f.op = "update"
    /\ f.phase = "units" => f.op = "initialize"
    /\ f.phase = "finish" => f.left = {} /\ f.unit = {}

\* Every build of the Item was made of what a receipt up to m selects.
BuiltBefore(i, m) == \A k \in 1 .. Len(builds[i]) : receipts[builds[i][k].receipt].max <= m

\* What the operation a process is in has reached: outside the unit it works on
\* and those it has still to do, its range is right or somebody wrote over it;
\* while it repairs, a row has come from outside and only what it is about to
\* publish is wrong.
Work(f) ==
    /\ f.phase = "recheck" => BuiltBefore(f.item, receipts[f.receipt].max)
    /\ f.phase = "reuse" => f.prior \in 1 .. Len(builds[f.item])
    /\ f.op = "update" /\ f.phase \in Publishing \cup {"finish"} =>
          \A d \in (f.first .. f.last) \ (f.left \cup f.unit) : Correct(f, d) \/ Overwritten(f)
    /\ f.phase \in {"publish", "settle"} =>
          \A d \in f.unit \ f.unpublished : Correct(f, d) \/ Ingested
    /\ f.phase = "repair" => Ingested /\ \A d \in f.unit \ f.unpublished : Correct(f, d)
    /\ f.phase = "certify" =>
          \A d \in f.unit :
             Correct(f, d) \/ (LastEvent(f.item, d, Len(log)) > f.result /\ Overwritten(f))

LogInv == IsSeq(log) /\ \A k \in 1 .. Len(log) : EntryOK(log[k])
ReceiptsInv == IsSeq(receipts) /\ \A k \in 1 .. Len(receipts) : ReceiptOK(receipts[k])

PinType == [spec : Nat, first : Days, last : Days, receipt : Nat]
RowType == [spec : Nat, receipt : Nat, first : Days, last : Days]
Status == {"none", "running", "complete"}
InitialType == [status : Status, spec : Nat, first : Nat, last : Nat, pinned : SUBSET PinType]

BuildsInv ==
    /\ DOMAIN builds = Items
    /\ \A i \in Items :
         IsSeq(builds[i]) /\ \A k \in 1 .. Len(builds[i]) : BuildOK(i, builds[i][k])
RowsInv ==
    /\ rows \in [Items -> SUBSET RowType]
    /\ \A i \in Items : \A r \in rows[i] : RowOK(i, r)
PinsInv ==
    /\ initial \in [Items -> InitialType]
    /\ \A i \in Items : \A x \in initial[i].pinned : PinOK(i, x)

DataInv == LogInv /\ ReceiptsInv /\ BuildsInv /\ RowsInv /\ PinsInv /\ spec \in [Nodes -> Nat]

StackOK(p) ==
    /\ call[p] \in Seq(Frames)
    /\ \A k \in 1 .. Len(call[p]) :
         FrameOK(call[p][k]) /\ (k < Len(call[p]) => call[p][k].phase = "parents")

CallInv ==
    /\ DOMAIN call = Procs
    /\ \A p \in Procs : StackOK(p) /\ (call[p] # <<>> => Work(Top(p)))

IInv == DataInv /\ CallInv

\* No two processes work on the same Item at once.
Busy(p) == call[p] # <<>> /\ Top(p).phase # "parents"
Apart == \A p, q \in Procs : p # q /\ Busy(p) /\ Busy(q) => Top(p).item # Top(q).item

\* No row arrives from outside between what a build finds to repair and the repair.
RepairAlone ==
    \A i \in Items : Ingest(i) => \A p \in Procs : ~(At(p, "repair") /\ Top(p).item = i)

-----------------------------------------------------------------------------
(* The same of a log that is given.                                        *)

\* What the log of a state holds is what that log, as a parameter, holds.
LEMMA Named ==
    /\ \A n, d, max : LastEvent(n, d, max) = LastIn(log, n, d, max)
    /\ \A n, d, max : Content(n, d, max) = ContentIn(log, n, d, max)
    /\ \A i, s, max, d : Compute(i, s, max, d) = ComputeIn(log, i, s, max, d)
    /\ \A i, s, k, d : Yields(i, s, k, d) <=> YieldsIn(log, receipts, i, s, k, d)
    /\ \A k, n, d : Touches(k, n, d) <=> Touch(log, k, n, d)
<1>1. \A k, n, d : Touches(k, n, d) <=> Touch(log, k, n, d)
    BY DEF Touches, Touch
<1>2. ASSUME NEW n, NEW d, NEW max PROVE LastEvent(n, d, max) = LastIn(log, n, d, max)
    BY DEF LastEvent, LastIn, Touches, Touch
<1>3. \A n, d, max : Content(n, d, max) = ContentIn(log, n, d, max)
    BY <1>2 DEF Content, ContentIn
<1>4. \A i, s, max, d : Compute(i, s, max, d) = ComputeIn(log, i, s, max, d)
    BY <1>3 DEF Compute, ComputeIn
<1> QED  BY <1>1, <1>2, <1>3, <1>4 DEF Yields, YieldsIn

\* So in the next state.
LEMMA NamedNext ==
    /\ \A n, d, max : LastEvent(n, d, max)' = LastIn(log', n, d, max)
    /\ \A i, s, k, d : Yields(i, s, k, d)' <=> YieldsIn(log', receipts', i, s, k, d)
<1>2. ASSUME NEW n, NEW d, NEW max PROVE LastEvent(n, d, max)' = LastIn(log', n, d, max)
    BY DEF LastEvent, LastIn, Touches, Touch
<1>3. ASSUME NEW n, NEW d, NEW max PROVE Content(n, d, max)' = ContentIn(log', n, d, max)
    BY <1>2 DEF Content, ContentIn
<1> QED  BY <1>2, <1>3 DEF Compute, ComputeIn, Yields, YieldsIn, Content, LastEvent, LastIn, Touches, Touch, ContentIn

-----------------------------------------------------------------------------
(* Whether a receipt is current is well defined: the receipts that vouch    *)
(* for what it selects of an Item are receipts of that Item, which is       *)
(* deeper in the graph.                                                    *)

CurrentBy(F, k) ==
    k > 0 =>
        LET r == receipts[k]
        IN \A n \in Inputs[r.item] :
             \/ n \in Raws /\ EqualSelection(r, n)
             \/ n \in Items /\ CompletedSource(r, n)
             \/ /\ n \in Items /\ EqualSelection(r, n)
                /\ VisibleDays(n, r.max, r.cutoff) # {}
                /\ \A d \in VisibleDays(n, r.max, r.cutoff) :
                      \E a \in Authorities(r, n, d) : F[a]

\* Completions and rows of an Item were made from receipts of that Item.
LEMMA AuthorityFacts ==
    ASSUME DataInv, NEW k \in 1 .. Len(receipts), NEW n \in Items,
           NEW d \in VisibleDays(n, receipts[k].max, receipts[k].cutoff),
           NEW a \in Authorities(receipts[k], n, d)
    PROVE  a \in 0 .. Len(receipts) /\ (a > 0 => receipts[a].item = n)
<1> DEFINE r == receipts[k]
           e == LastEvent(n, d, r.max)
           found == Covering(r, n, d)
<1>0. Len(log) \in Nat /\ Len(receipts) \in Nat
    BY Appended DEF DataInv, LogInv, ReceiptsInv
<1>1. r.max \in 0 .. Len(log)
    BY DEF DataInv, ReceiptsInv, ReceiptOK
<1>2. IsLast(log, n, d, r.max, e)
  <2>1. r.max \in Nat /\ e = LastIn(log, n, d, r.max)
      BY <1>0, <1>1, Named
  <2> HIDE DEF r, e
  <2> QED  BY <2>1, LastFacts
<1>3. PICK j \in 1 .. r.max : Touch(log, j, n, d)
  <2>1. Touching(n, d, r.max) # {}
      BY DEF VisibleDays
  <2> QED  BY <2>1, Named DEF Touching, Commits, Touch
<1>4. e \in 1 .. Len(log) /\ log[e].node = n
  <2>1. e \in 0 .. r.max /\ (e = 0 => j \in (e + 1) .. r.max)
      BY <1>2, <1>3 DEF IsLast
  <2>2. e # 0
    <3> HIDE DEF e, r
    <3> QED  BY <1>2, <1>3, <2>1 DEF IsLast
  <2>3. e > 0 /\ e \in 1 .. Len(log)
      BY <1>0, <1>1, <2>1, <2>2
  <2> QED  BY <1>2, <2>3 DEF IsLast, Touch
<1>5. CASE a = log[e].receipt
    BY <1>4, <1>5 DEF DataInv, LogInv, EntryOK
<1>6. CASE found # {} /\ a = builds[n][Max(found)].receipt
  <2>1. IsSeq(builds[n]) /\ Len(builds[n]) \in Nat
      BY Appended DEF DataInv, BuildsInv
  <2>2. found \in SUBSET (0 .. Len(builds[n])) /\ found \subseteq 1 .. Len(builds[n])
      BY <2>1 DEF Covering, Whole
  <2>3. Max(found) \in found
    <3>1. PICK x \in found : \A y \in found : y <= x
      <4> HIDE DEF found
      <4> QED  BY <1>6, <2>1, <2>2, NatGreatest
    <3>2. found \subseteq Nat
        BY <2>2
    <3> HIDE DEF found
    <3> QED  BY <3>1, <3>2 DEF Max
  <2>4. BuildOK(n, builds[n][Max(found)])
      BY <2>2, <2>3 DEF DataInv, BuildsInv
  <2> QED  BY <1>0, <1>6, <2>4 DEF BuildOK, Vouches
<1>7. a = log[e].receipt \/ (found # {} /\ a = builds[n][Max(found)].receipt)
    BY DEF Authorities
<1> QED  BY <1>5, <1>6, <1>7

\* Receipts of Items that are deep enough in the graph need no others.
LEMMA CurrentExists ==
    ASSUME DataInv
    PROVE  \E F : F = [k \in 0 .. Len(receipts) |-> CurrentBy(F, k)]
<1> DEFINE L == 0 .. Len(receipts)
<1>0. Len(receipts) \in Nat
    BY Appended DEF DataInv, ReceiptsInv
<1>1. PICK depth \in [Items -> 0 .. Cardinality(Items)] :
          \A i \in Items : \A n \in Inputs[i] \cap Items : depth[n] < depth[i]
    BY DeclarationAssumption
<1>2. Cardinality(Items) \in Nat
    BY DeclarationAssumption, FS_CardinalityType
<1> DEFINE deep(k) == IF k = 0 THEN 0 ELSE depth[receipts[k].item]
           Solves(F, h) == \A k \in L : k = 0 \/ deep(k) < h => F[k] = CurrentBy(F, k)
           Bad == {h \in Nat : ~\E F : Solves(F, h)}
<1>3. \A k \in L : deep(k) \in 0 .. Cardinality(Items)
    BY <1>0, <1>1, <1>2 DEF DataInv, ReceiptsInv, ReceiptOK
<1>4. ASSUME NEW F, NEW G, NEW k \in L, \A a \in L : deep(a) < deep(k) \/ a = 0 => F[a] = G[a]
      PROVE  CurrentBy(F, k) = CurrentBy(G, k)
  <2>1. CASE k = 0
      BY <2>1 DEF CurrentBy
  <2>2. CASE k # 0
    <3>1. k \in 1 .. Len(receipts) /\ receipts[k].item \in Items
        BY <1>0, <2>2 DEF DataInv, ReceiptsInv, ReceiptOK
    <3>2. ASSUME NEW n \in Inputs[receipts[k].item], n \in Items,
                 NEW d \in VisibleDays(n, receipts[k].max, receipts[k].cutoff),
                 NEW a \in Authorities(receipts[k], n, d)
          PROVE  F[a] = G[a]
      <4>1. a \in 0 .. Len(receipts) /\ (a > 0 => receipts[a].item = n)
          BY <3>1, <3>2, AuthorityFacts
      <4>2. depth[n] < depth[receipts[k].item]
          BY <1>1, <3>1, <3>2
      <4>3. deep(a) < deep(k) \/ a = 0
          BY <1>0, <2>2, <4>1, <4>2
      <4> QED  BY <1>4, <4>1, <4>3
    <3> QED  BY <3>2 DEF CurrentBy
  <2> QED  BY <2>1, <2>2
<1>5. Bad = {}
  <2> SUFFICES ASSUME Bad # {} PROVE FALSE
      OBVIOUS
  <2>1. PICK h \in Bad : \A g \in Bad : h <= g
      BY NatLeast
  <2>2. h # 0
    <3>1. \A k \in L : ~(deep(k) < 0)
        BY <1>2, <1>3
    <3>2. Solves([k \in L |-> TRUE], 0)
        BY <3>1 DEF CurrentBy
    <3> QED  BY <3>2
  <2>3. h - 1 \in Nat /\ h - 1 \notin Bad
    <3>1. h \in Nat
        OBVIOUS
    <3> HIDE DEF Bad
    <3> QED  BY <2>1, <2>2, <3>1
  <2>4. PICK F : Solves(F, h - 1)
      BY <2>3
  <2> DEFINE G == [k \in L |-> CurrentBy(F, k)]
  <2>5. ASSUME NEW k \in L, k = 0 \/ deep(k) < h PROVE G[k] = CurrentBy(G, k)
    <3>1. G[k] = CurrentBy(F, k)
        OBVIOUS
    <3>2. ASSUME NEW a \in L, deep(a) < deep(k) \/ a = 0 PROVE F[a] = G[a]
      <4>1. G[a] = CurrentBy(F, a)
          OBVIOUS
      <4>2. a = 0 \/ deep(a) < h - 1
        <5>1. deep(a) \in Nat /\ deep(k) \in Nat /\ h \in Nat /\ (k = 0 => deep(k) = 0)
            BY <1>2, <1>3
        <5> HIDE DEF deep
        <5> QED  BY <2>5, <3>2, <5>1
      <4> QED  BY <2>4, <4>1, <4>2
    <3> HIDE DEF G
    <3>3. CurrentBy(F, k) = CurrentBy(G, k)
        BY <1>4, <3>2
    <3> QED  BY <3>1, <3>3
  <2> QED  BY <2>5
<1> DEFINE top == Cardinality(Items) + 1
<1>6. top \in Nat /\ \A k \in L : deep(k) < top
    BY <1>2, <1>3
<1>7. PICK F : Solves(F, top)
  <2> HIDE DEF Solves, top
  <2> QED  BY <1>5, <1>6
<1> DEFINE G == [k \in L |-> CurrentBy(F, k)]
<1>8. \A k \in L : G[k] = F[k]
    BY <1>6, <1>7
<1>9. \A k \in L : CurrentBy(G, k) = CurrentBy(F, k)
  <2> HIDE DEF G
  <2> TAKE k \in L
  <2> QED  BY <1>4, <1>8
<1>10. G = [k \in L |-> CurrentBy(G, k)]
    BY <1>9
<1> QED  BY <1>10

\* What it is for a receipt to be current, unfolded once.
LEMMA CurrentUnfolds ==
    ASSUME DataInv, NEW k \in 1 .. Len(receipts), CurrentReceipt[k]
    PROVE  CurrentBy(CurrentReceipt, k)
<1> DEFINE C == CHOOSE F : F = [j \in 0 .. Len(receipts) |-> CurrentBy(F, j)]
<1>1. C = [j \in 0 .. Len(receipts) |-> CurrentBy(C, j)]
    BY CurrentExists
<1>2. CurrentReceipt = C
    BY DEF CurrentReceipt, CurrentBy
<1>3. k \in 0 .. Len(receipts)
    OBVIOUS
<1> HIDE DEF C
<1> QED  BY <1>1, <1>2, <1>3

\* Nothing that a current receipt selects has been published again.
LEMMA CurrentUnread ==
    ASSUME DataInv, NEW k \in 1 .. Len(receipts), CurrentReceipt[k],
           NEW n \in Inputs[receipts[k].item], NEW e \in Days, e <= receipts[k].cutoff,
           NEW j \in (receipts[k].max + 1) .. Len(log)
    PROVE  ~Touch(log, j, n, e)
<1> DEFINE r == receipts[k]
<1>0. r.max \in Nat /\ Len(log) \in Nat /\ j \in 1 .. Len(log)
    BY Appended DEF DataInv, LogInv, ReceiptsInv, ReceiptOK
<1>1. CurrentBy(CurrentReceipt, k)
    BY CurrentUnfolds
<1>2. EqualSelection(r, n) \/ CompletedSource(r, n)
    BY <1>1 DEF CurrentBy
<1>3. CASE EqualSelection(r, n)
  <2>1. Touching(n, e, Len(log)) = Touching(n, e, r.max)
      BY <1>3 DEF EqualSelection
  <2>2. j \notin Touching(n, e, r.max)
      BY <1>0 DEF Touching, Commits
  <2> QED  BY <1>0, <2>1, <2>2 DEF Touching, Commits, Touch
<1>4. CASE CompletedSource(r, n)
    BY <1>4 DEF CompletedSource, UnchangedSince, Touch
<1> QED  BY <1>2, <1>3, <1>4

-----------------------------------------------------------------------------
(* Planning: what an update leaves out is what its definition gives.        *)

\* Builds are listed by Item, and each is of days.
Ranged ==
    /\ DOMAIN builds = Items
    /\ \A i \in Items :
         /\ IsSeq(builds[i])
         /\ \A k \in 1 .. Len(builds[i]) : builds[i][k].first \in Days /\ builds[i][k].last \in Days

\* Of the builds that cover a day one reaches furthest, and one of those is latest.
LEMMA PredecessorFacts ==
    ASSUME Ranged, NEW i \in Items, NEW s, NEW first, Completed(i, s, first) # {}
    PROVE  Predecessor(i, s, first) \in Completed(i, s, first)
<1> DEFINE T == Completed(i, s, first)
           ends == {builds[i][k].last : k \in T}
<1>1. Len(builds[i]) \in Nat
    BY Appended DEF Ranged
<1>2. T \subseteq 1 .. Len(builds[i])
    BY DEF Completed, Whole
<1>3. \A k \in T : builds[i][k].last \in Days
    BY <1>2 DEF Ranged
<1>4. PICK j \in T : \A k \in T : builds[i][k].last <= builds[i][j].last
  <2>1. ends \in SUBSET Days /\ ends # {}
      BY <1>3
  <2>2. Max(ends) \in ends /\ \A x \in ends : x <= Max(ends)
    <3> HIDE DEF ends
    <3> QED  BY <2>1, LastOfDays
  <2> QED  BY <2>2
<1> DEFINE U == {k \in T : builds[i][k].last = builds[i][j].last}
<1>5. PICK g \in U : \A k \in U : k <= g
  <2>1. U \in SUBSET (0 .. Len(builds[i])) /\ U # {}
      BY <1>1, <1>2
  <2> HIDE DEF U
  <2> QED  BY <1>1, <2>1, NatGreatest
<1>6. \A k \in T : \/ builds[i][k].last < builds[i][g].last
                   \/ builds[i][k].last = builds[i][g].last /\ k <= g
  <2> TAKE k \in T
  <2>1. builds[i][k].last \in Nat /\ builds[i][j].last \in Nat /\ builds[i][g].last = builds[i][j].last
      BY <1>3, <1>5, DayFacts
  <2>2. CASE builds[i][k].last = builds[i][j].last
      BY <1>5, <2>1, <2>2
  <2>3. CASE builds[i][k].last # builds[i][j].last
      BY <1>4, <2>1, <2>3
  <2> QED  BY <2>2, <2>3
<1>7. g \in T
    BY <1>5
<1> HIDE DEF T, U, ends
<1> QED  BY <1>6, <1>7 DEF Predecessor, T

\* Neither the rows nor the inputs of a day were published again since a build.
Unmoved(i, b, d) ==
    /\ \A j \in (b.result + 1) .. Len(log) : ~Touch(log, j, i, d)
    /\ \A n \in Inputs[i], e \in Reads(i, d) :
         \A j \in (receipts[b.receipt].max + 1) .. Len(log) : ~Touch(log, j, n, e)

\* The days a build covers and no window names have not moved.
LEMMA WindowsComplete ==
    ASSUME DataInv, NEW i \in Items, NEW b, BuildOK(i, b),
           NEW first \in Days, NEW last \in Days, NEW d \in first .. last, d <= b.last
    PROVE  /\ d \notin OutputWindows(i, b, first, last) =>
                \A j \in (b.result + 1) .. Len(log) : ~Touch(log, j, i, d)
           /\ d \notin InputWindows(i, b, first, last) =>
                \A n \in Inputs[i], e \in Reads(i, d) :
                  \A j \in (receipts[b.receipt].max + 1) .. Len(log) : ~Touch(log, j, n, e)
<1> DEFINE through == Min({last, b.last})
           affected(k) == {e \in Hull(DOMAIN log[k].at) : e <= last}
<1>0. /\ Len(log) \in Nat /\ b.result \in 0 .. Len(log) /\ receipts[b.receipt].max \in 0 .. Len(log)
      /\ b.last \in Days /\ d \in Days /\ first <= d /\ d <= last
    BY Appended, DayFacts DEF DataInv, LogInv, ReceiptsInv, ReceiptOK, BuildOK, Vouches
<1>1. through \in Days /\ d <= through /\ d \in first .. through
  <2>1. {last, b.last} \in SUBSET Days
      BY <1>0
  <2>2. through \in {last, b.last}
    <3>1. {last, b.last} # {}
        OBVIOUS
    <3> QED  BY <2>1, <3>1, FirstDay
  <2> QED  BY <1>0, <2>2, DayFacts
<1>2. ASSUME NEW j \in 1 .. Len(log)
      PROVE  DOMAIN log[j].at \subseteq Hull(DOMAIN log[j].at) /\ Hull(DOMAIN log[j].at) \subseteq Days
  <2>1. DOMAIN log[j].at \in SUBSET Days
      BY DEF DataInv, LogInv, EntryOK
  <2> QED  BY <2>1, HullFacts
<1>3. ASSUME NEW j \in (b.result + 1) .. Len(log), Touch(log, j, i, d)
      PROVE  d \in OutputWindows(i, b, first, last)
  <2>1. j \in 1 .. Len(log)
      BY <1>0
  <2>2. d \in Hull(DOMAIN log[j].at) \cap (first .. through)
      BY <1>1, <1>2, <1>3, <2>1 DEF Touch
  <2>3. j \in {k \in (b.result + 1) .. Len(log) : log[k].kind = "commit" /\ log[k].node = i}
      BY <1>3 DEF Touch
  <2> HIDE DEF through
  <2> QED  BY <2>2, <2>3 DEF OutputWindows, through
<1>4. ASSUME NEW n \in Inputs[i], NEW e \in Reads(i, d),
             NEW j \in (receipts[b.receipt].max + 1) .. Len(log), Touch(log, j, n, e)
      PROVE  d \in InputWindows(i, b, first, last)
  <2> DEFINE later == {k \in (receipts[b.receipt].max + 1) .. Len(log) :
                         /\ log[k].kind = "commit" /\ log[k].node \in Inputs[i]
                         /\ \E x \in affected(k) : x <= through}
  <2>1. j \in 1 .. Len(log)
      BY <1>0
  <2>2. e \in Days /\ e <= d /\ (i \notin Forward => e = d)
      BY <1>0, DayFacts DEF Reads
  <2>3. e \in affected(j) /\ e <= through /\ affected(j) \subseteq Days
    <3>1. e \in Hull(DOMAIN log[j].at)
        BY <1>2, <1>4, <2>1 DEF Touch
    <3>2. e <= last /\ e <= through
        BY <1>0, <1>1, <2>2, DayOrder
    <3> QED  BY <1>2, <2>1, <3>1, <3>2
  <2>4. j \in later
      BY <1>4, <2>3 DEF Touch
  <2>5. d \in Impact(i, affected(j), first, through, last)
    <3>1. CASE i \in Forward
      <4>1. Min(affected(j)) \in Days /\ Min(affected(j)) <= e
        <5> HIDE DEF affected
        <5> QED  BY <2>3, FirstDay
      <4>2. d >= Min(affected(j))
        <5>1. Min(affected(j)) <= d
            BY <1>0, <2>2, <4>1, DayOrder
        <5>2. d \in Nat /\ Min(affected(j)) \in Nat
            BY <1>0, <4>1, DayFacts
        <5> QED  BY <5>1, <5>2
      <4> HIDE DEF affected, through
      <4> QED  BY <3>1, <4>2 DEF Impact
    <3>2. CASE i \notin Forward
      <4>1. d \in affected(j)
          BY <2>2, <2>3, <3>2
      <4>2. affected(j) \subseteq Hull(affected(j))
        <5> HIDE DEF affected
        <5> QED  BY <2>3, HullFacts
      <4> HIDE DEF affected, through
      <4> QED  BY <1>1, <3>2, <4>1, <4>2 DEF Impact
    <3> QED  BY <3>1, <3>2
  <2>6. InputWindows(i, b, first, last) = UNION {Impact(i, affected(k), first, through, last) : k \in later}
      BY DEF InputWindows
  <2> HIDE DEF affected, through, later
  <2> QED  BY <2>4, <2>5, <2>6
<1> QED  BY <1>3, <1>4

\* Windows lie within what is asked for.
LEMMA WindowsWithin ==
    ASSUME NEW i \in Items, NEW b, b.last \in Days,
           NEW first \in Days, NEW last \in Days
    PROVE  /\ OutputWindows(i, b, first, last) \subseteq first .. last
           /\ InputWindows(i, b, first, last) \subseteq first .. last
<1> DEFINE through == Min({last, b.last})
<1>1. through \in Days /\ through <= last
  <2>1. {last, b.last} \in SUBSET Days /\ {last, b.last} # {} /\ last \in {last, b.last}
      OBVIOUS
  <2> QED  BY <2>1, FirstDay
<1>2. first .. through \subseteq first .. last
  <2>1. first \in Nat /\ last \in Nat /\ through \in Nat
      BY <1>1, DayFacts
  <2> HIDE DEF through
  <2> QED  BY <1>1, <2>1
<1>3. \A S : Impact(i, S, first, through, last) \subseteq first .. last
    BY <1>2 DEF Impact
<1> HIDE DEF through
<1> QED  BY <1>2, <1>3 DEF OutputWindows, InputWindows, through

\* A day that did not move is still what its build made of it, and what any later
\* receipt would yield.
LEMMA UnmovedYields ==
    ASSUME DataInv, NEW i \in Items, NEW b, BuildOK(i, b), NEW d \in b.first .. b.last,
           Unmoved(i, b, d), NEW m \in receipts[b.receipt].max .. Len(log)
    PROVE  Content(i, d, Len(log)) = Compute(i, b.spec, m, d)
<1> DEFINE max == receipts[b.receipt].max
<1>0. /\ Len(log) \in Nat /\ b.result \in 0 .. Len(log) /\ max \in 0 .. Len(log) /\ max \in Nat
      /\ m \in Nat /\ max <= m
    BY Appended DEF DataInv, LogInv, ReceiptsInv, ReceiptOK, BuildOK, Vouches
<1>1. LastEvent(i, d, Len(log)) <= b.result
  <2> DEFINE k == LastIn(log, i, d, Len(log))
  <2>1. IsLast(log, i, d, Len(log), k)
      BY <1>0, LastFacts
  <2>2. k \in 0 .. Len(log) /\ (k > 0 => Touch(log, k, i, d))
      BY <2>1 DEF IsLast
  <2> HIDE DEF k
  <2>3. ~(k \in (b.result + 1) .. Len(log))
      BY <1>0, <2>2 DEF Unmoved
  <2>4. k <= b.result
      BY <1>0, <2>2, <2>3
  <2> QED  BY <2>4, Named DEF k
<1>2. Content(i, d, Len(log)) = Compute(i, b.spec, max, d)
    BY <1>1 DEF BuildOK, Certifies, Yields
<1>3. ComputeIn(log, i, b.spec, m, d) = ComputeIn(log, i, b.spec, max, d)
  <2>1. ASSUME NEW n \in Inputs[i], NEW e \in Reads(i, d), NEW k \in (max + 1) .. m
        PROVE  ~Touch(log, k, n, e)
      BY <1>0, <2>1 DEF Unmoved
  <2> HIDE DEF max
  <2> QED  BY <1>0, <2>1, UnreadSince
<1> QED  BY <1>2, <1>3, Named

\* An Item that reads all earlier days is computed from the first day found to its last.
LEMMA SpreadFacts ==
    ASSUME NEW i, NEW first \in Days, NEW last \in Days, NEW found, found \subseteq first .. last
    PROVE  LET spread == IF i \in Forward /\ found # {} THEN Min(found) .. last ELSE found
           IN found \subseteq spread /\ spread \subseteq first .. last
<1>1. CASE i \in Forward /\ found # {}
  <2>1. found \in SUBSET Days
      BY DayFacts
  <2>2. Min(found) \in found /\ \A x \in found : Min(found) <= x
      BY <1>1, <2>1, FirstDay
  <2>3. first \in Nat /\ last \in Nat
      BY DayFacts
  <2>4. PICK m : m = Min(found)
      OBVIOUS
  <2>a. m \in found /\ \A x \in found : m <= x
      BY <2>2, <2>4
  <2>b. ASSUME NEW x \in found PROVE x \in Nat /\ first <= x /\ x <= last
    <3>1. x \in first .. last
        OBVIOUS
    <3> QED  BY <2>3, <3>1
  <2>5. m \in Nat /\ first <= m /\ m <= last /\ \A x \in found : m <= x /\ x \in Nat /\ x <= last
      BY <2>a, <2>b
  <2>6. found \subseteq m .. last /\ m .. last \subseteq first .. last
      BY <2>3, <2>5
  <2> QED  BY <1>1, <2>4, <2>6
<1>2. CASE ~(i \in Forward /\ found # {})
    BY <1>2
<1> QED  BY <1>1, <1>2

\* What lies beyond a build that reaches a range lies in that range.
LEMMA BeyondFacts ==
    ASSUME NEW first \in Days, NEW last \in Days, NEW end \in Days, first <= end,
           NEW d \in Days, d > end, d <= last
    PROVE  d \in first .. last
<1>1. first \in Nat /\ last \in Nat /\ end \in Nat /\ Days \subseteq Nat
    BY DayFacts
<1> QED  BY <1>1

\* Planned days lie in the request.
LEMMA PlanWithin ==
    ASSUME Ranged, NEW i \in Items, NEW s, NEW first \in Days, NEW last \in Days
    PROVE  Plan(i, s, first, last).days \subseteq first .. last
<1> DEFINE b == builds[i][Predecessor(i, s, first)]
<1>1. Blocked.days = {} /\ \A days : Rebuild(days).days = days
    BY DEF Blocked, Rebuild
<1>2. ASSUME Completed(i, s, first) # {}
      PROVE  CompletedActions(i, b, first, last).days \subseteq first .. last
  <2>1. b.last \in Days /\ first <= b.last
      BY <1>2, PredecessorFacts DEF Ranged, Completed, Whole
  <2> HIDE DEF b
  <2> DEFINE own == OutputWindows(i, b, first, last)
             found == own \cup InputWindows(i, b, first, last)
             spread == IF i \in Forward /\ found # {} THEN Min(found) .. last ELSE found
             all == spread \cup {d \in Days : d > b.last /\ d <= last}
  <2>2. found \subseteq first .. last
      BY <2>1, WindowsWithin
  <2>3. spread \subseteq first .. last
    <3> HIDE DEF found
    <3> QED  BY <2>2, SpreadFacts
  <2>4. all \subseteq first .. last
    <3>1. \A d \in Days : d > b.last /\ d <= last => d \in first .. last
        BY <2>1, BeyondFacts
    <3> HIDE DEF spread
    <3> QED  BY <2>3, <3>1
  <2>5. \/ CompletedActions(i, b, first, last) = Rebuild({})
        \/ CompletedActions(i, b, first, last) = Blocked
        \/ CompletedActions(i, b, first, last) = Rebuild(all)
      BY DEF CompletedActions
  <2> HIDE DEF all
  <2> QED  BY <1>1, <2>4, <2>5
<1>3. \/ Plan(i, s, first, last) = Blocked
      \/ Plan(i, s, first, last) = Rebuild(first .. last)
      \/ /\ Completed(i, s, first) # {}
         /\ Plan(i, s, first, last) = CompletedActions(i, b, first, last)
    BY DEF Plan
<1> HIDE DEF b
<1> QED  BY <1>1, <1>2, <1>3

\* Planned days lie in the request, and a day that is left out is covered by a build
\* of the definition and has not moved since.
LEMMA PlanComplete ==
    ASSUME DataInv, NEW i \in Items, NEW s, NEW first \in Days, NEW last \in Days, first <= last,
           Plan(i, s, first, last).mode # "blocked"
    PROVE  /\ Plan(i, s, first, last).days \subseteq first .. last
           /\ \A d \in (first .. last) \ Plan(i, s, first, last).days :
                \E k \in 1 .. Len(builds[i]) :
                   /\ builds[i][k].spec = s /\ d \in builds[i][k].first .. builds[i][k].last
                   /\ Unmoved(i, builds[i][k], d)
           /\ Plan(i, s, first, last).mode = "unchanged" =>
                /\ Plan(i, s, first, last).days = {}
                /\ Predecessor(i, s, first) \in 1 .. Len(builds[i])
<1> DEFINE plan == Plan(i, s, first, last)
           pre == Predecessor(i, s, first)
           b == builds[i][pre]
<1>0. /\ first \in Nat /\ last \in Nat /\ first \in first .. last /\ first .. last # {}
      /\ Len(builds[i]) \in Nat
    BY DayFacts, Appended DEF DataInv, BuildsInv
<1>a. \A days : Rebuild(days).days = days /\ (Rebuild(days).mode = "unchanged" <=> days = {})
    BY DEF Rebuild
<1>b. Blocked.mode = "blocked"
    BY DEF Blocked
<1>1. CASE Completed(i, s, first) = {}
  <2>1. plan = Rebuild(first .. last)
      BY <1>1, <1>b DEF Plan
  <2> HIDE DEF plan
  <2>2. plan.days = first .. last /\ plan.mode # "unchanged"
      BY <1>0, <1>a, <2>1
  <2> QED  BY <2>2 DEF plan
<1>2. CASE Completed(i, s, first) # {}
  <2>1. pre \in Completed(i, s, first)
    <3>1. Ranged
        BY DEF DataInv, BuildsInv, BuildOK, Ranged
    <3> QED  BY <1>2, <3>1, PredecessorFacts
  <2>2. /\ pre \in 1 .. Len(builds[i]) /\ b.spec = s /\ b.first <= first /\ first <= b.last
      BY <2>1 DEF Completed, Whole
  <2>3. /\ BuildOK(i, b) /\ b.first \in Nat /\ b.last \in Nat /\ b.last \in Days
      BY <2>2, DayFacts DEF DataInv, BuildsInv, BuildOK
  <2> HIDE DEF b, pre
  <2> DEFINE own == OutputWindows(i, b, first, last)
             found == own \cup InputWindows(i, b, first, last)
             spread == IF i \in Forward /\ found # {} THEN Min(found) .. last ELSE found
             all == spread \cup {d \in Days : d > b.last /\ d <= last}
  <2>4. found \subseteq first .. last
      BY <2>3, WindowsWithin
  <2>5. found \subseteq spread /\ spread \subseteq first .. last
    <3> HIDE DEF found
    <3> QED  BY <2>4, SpreadFacts
  <2>6. all \subseteq first .. last
    <3>1. \A d \in Days : d > b.last /\ d <= last => d \in first .. last
        BY <2>2, <2>3, BeyondFacts
    <3> HIDE DEF spread
    <3> QED  BY <2>5, <3>1
  <2>7. plan = CompletedActions(i, b, first, last)
      BY <1>2, <1>b DEF Plan, b, pre
  <2>8. CASE own = {} /\ last <= b.last /\ CurrentReceipt[b.receipt]
    <3>1. plan = Rebuild({})
        BY <2>7, <2>8 DEF CompletedActions
    <3>2. ASSUME NEW d \in first .. last
          PROVE  d \in b.first .. b.last /\ Unmoved(i, b, d)
      <4>1. d \in Days /\ d \in Nat /\ d <= b.last
          BY <1>0, <2>3, <2>8, DayFacts
      <4>2. \A j \in (b.result + 1) .. Len(log) : ~Touch(log, j, i, d)
          BY <2>3, <2>8, <4>1, WindowsComplete
      <4>3. ASSUME NEW n \in Inputs[i], NEW e \in Reads(i, d),
                   NEW j \in (receipts[b.receipt].max + 1) .. Len(log)
            PROVE  ~Touch(log, j, n, e)
        <5>1. /\ b.receipt \in 1 .. Len(receipts) /\ receipts[b.receipt].item = i
              /\ b.last <= receipts[b.receipt].cutoff /\ receipts[b.receipt].cutoff \in Days
            BY <2>3 DEF DataInv, ReceiptsInv, ReceiptOK, BuildOK, Vouches
        <5>2. e \in Days /\ e <= d
            BY <4>1 DEF Reads
        <5>3. e <= receipts[b.receipt].cutoff
            BY <2>3, <4>1, <5>1, <5>2, DayOrder
        <5> QED  BY <2>8, <5>1, <5>2, <5>3, CurrentUnread
      <4>4. d \in b.first .. b.last
          BY <1>0, <2>2, <2>3, <4>1
      <4> QED  BY <4>2, <4>3, <4>4 DEF Unmoved
    <3>3. plan.days = {}
        BY <1>a, <3>1
    <3> HIDE DEF plan
    <3> QED  BY <2>2, <3>2, <3>3 DEF plan, b, pre
  <2>9. CASE ~(own = {} /\ last <= b.last /\ CurrentReceipt[b.receipt])
    <3>1. plan = Rebuild(all)
        BY <1>b, <2>7, <2>9 DEF CompletedActions
    <3>2. plan.days = all /\ (plan.mode = "unchanged" => all = {})
      <4> HIDE DEF plan, all
      <4> QED  BY <1>a, <3>1
    <3>3. ASSUME NEW d \in (first .. last) \ all
          PROVE  d \in b.first .. b.last /\ Unmoved(i, b, d)
      <4>1. d \in Days /\ d \in Nat /\ d <= b.last
          BY <1>0, <2>3, <3>3, DayFacts
      <4>2. d \notin own /\ d \notin InputWindows(i, b, first, last)
        <5> HIDE DEF spread
        <5> QED  BY <2>5, <3>3
      <4>3. d \in b.first .. b.last
          BY <1>0, <2>2, <2>3, <4>1
      <4> QED  BY <2>3, <4>1, <4>2, <4>3, WindowsComplete DEF Unmoved
    <3> HIDE DEF plan, all
    <3> QED  BY <2>2, <2>6, <3>2, <3>3 DEF plan, b, pre
  <2> QED  BY <2>8, <2>9
<1> QED  BY <1>1, <1>2

\* What a plan leaves out is what its definition makes of anything a receipt
\* captured since the last build can select.
LEMMA PlanLeavesRight ==
    ASSUME DataInv, NEW i \in Items, NEW s, NEW first \in Days, NEW last \in Days, first <= last,
           Plan(i, s, first, last).mode # "blocked", NEW m \in 0 .. Len(log),
           BuiltBefore(i, m),
           NEW d \in (first .. last) \ Plan(i, s, first, last).days
    PROVE  Content(i, d, Len(log)) = Compute(i, s, m, d)
<1>1. PICK k \in 1 .. Len(builds[i]) :
          /\ builds[i][k].spec = s /\ d \in builds[i][k].first .. builds[i][k].last
          /\ Unmoved(i, builds[i][k], d)
    BY PlanComplete
<1>2. BuildOK(i, builds[i][k])
    BY <1>1 DEF DataInv, BuildsInv
<1>3. m \in receipts[builds[i][k].receipt].max .. Len(log)
  <2>1. receipts[builds[i][k].receipt].max \in 0 .. Len(log) /\ Len(log) \in Nat
      BY <1>2, Appended DEF DataInv, LogInv, ReceiptsInv, ReceiptOK, BuildOK, Vouches
  <2>2. receipts[builds[i][k].receipt].max <= m
      BY DEF BuiltBefore
  <2> QED  BY <2>1, <2>2
<1> QED  BY <1>1, <1>2, <1>3, UnmovedYields

\* The two invariants of the runs follow.
LEMMA InvariantGivesCompletion == ASSUME DataInv PROVE CompletionHolds
BY DEF DataInv, BuildsInv, BuildOK, Certifies, CompletionHolds, Whole, Yields

\* A day that a plan leaves out is not stale.
LEMMA InvariantGivesRepairs == ASSUME DataInv PROVE RepairsArePlanned
<1> SUFFICES ASSUME NEW i \in Items, NEW q \in Requests,
                    Plan(i, spec[i], q[1], q[2]).mode # "blocked",
                    NEW d \in q[1] .. q[2], d \notin Plan(i, spec[i], q[1], q[2]).days
             PROVE  ~Stale(i, d)
    BY DEF RepairsArePlanned
<1>1. q[1] \in Days /\ q[2] \in Days /\ q[1] <= q[2]
    BY DeclarationAssumption
<1>2. Len(log) \in 0 .. Len(log)
    BY Appended DEF DataInv, LogInv
<1>3. BuiltBefore(i, Len(log))
    BY <1>2 DEF BuiltBefore, DataInv, BuildsInv, BuildOK, Vouches, ReceiptsInv, ReceiptOK
<1>4. ASSUME NEW s, NEW first \in Days, NEW last \in Days, first <= last,
             Plan(i, s, first, last).mode # "blocked",
             NEW e \in (first .. last) \ Plan(i, s, first, last).days
      PROVE  Content(i, e, Len(log)) = Compute(i, s, Len(log), e)
    BY <1>2, <1>3, <1>4, PlanLeavesRight
<1> QED  BY <1>1, <1>4 DEF Stale

-----------------------------------------------------------------------------
(* What a step leaves as it was.                                           *)

Grows == Extends(log, log') /\ Extends(receipts, receipts')

\* Nobody publishes Item i in a step.
Still(i) == \A j \in (Len(log) + 1) .. Len(log') : log'[j].node # i

\* The lengths of the log, the receipts and the builds are numbers.
LEMMA Lengths ==
    ASSUME DataInv
    PROVE  Len(log) \in Nat /\ Len(receipts) \in Nat /\ \A i \in Items : Len(builds[i]) \in Nat
BY Appended DEF DataInv, LogInv, ReceiptsInv, BuildsInv

\* What is recorded stays, at its place.
LEMMA GrowsFacts ==
    ASSUME Grows
    PROVE  /\ Len(log) \in Nat /\ Len(log') \in Nat /\ Len(log) <= Len(log')
           /\ Len(receipts) \in Nat /\ Len(receipts') \in Nat /\ Len(receipts) <= Len(receipts')
           /\ \A k \in 1 .. Len(log) : log'[k] = log[k]
           /\ \A k \in 1 .. Len(receipts) : receipts'[k] = receipts[k] /\ k \in 1 .. Len(receipts')
           /\ Agree(log, log', Len(log))
BY DEF Grows, Extends, Agree

\* Outputs that are not published again stay as they are.
LEMMA OutputKept ==
    ASSUME DataInv, Grows, NEW i, NEW d,
           \A j \in (Len(log) + 1) .. Len(log') : ~Touch(log', j, i, d)
    PROVE  /\ \A s : \A k \in 1 .. Len(receipts) : Yields(i, s, k, d)' <=> Yields(i, s, k, d)
           /\ LastEvent(i, d, Len(log))' = LastEvent(i, d, Len(log))
<1>1. \A k \in 1 .. Len(receipts) : receipts[k].max \in 0 .. Len(log)
    BY DEF DataInv, ReceiptsInv, ReceiptOK
<1>2. ASSUME NEW s, NEW k \in 1 .. Len(receipts)
      PROVE  YieldsIn(log', receipts', i, s, k, d) <=> YieldsIn(log, receipts, i, s, k, d)
  <2>1. receipts'[k] = receipts[k] /\ receipts[k].max \in Nat /\ Agree(log, log', receipts[k].max)
      BY <1>1, GrowsFacts DEF Agree
  <2>2. ComputeIn(log, i, s, receipts[k].max, d) = ComputeIn(log', i, s, receipts[k].max, d)
      BY <2>1, SameInputs
  <2>3. LastIn(log', i, d, Len(log')) = LastIn(log', i, d, Len(log))
      BY GrowsFacts, UntouchedSince
  <2>4. ContentIn(log, i, d, Len(log)) = ContentIn(log', i, d, Len(log))
      BY GrowsFacts, SamePast
  <2>5. ContentIn(log', i, d, Len(log')) = ContentIn(log', i, d, Len(log))
      BY <2>3 DEF ContentIn
  <2> QED  BY <2>1, <2>2, <2>4, <2>5 DEF YieldsIn
<1>3. LastIn(log', i, d, Len(log')) = LastIn(log, i, d, Len(log))
  <2>1. LastIn(log', i, d, Len(log')) = LastIn(log', i, d, Len(log))
      BY GrowsFacts, UntouchedSince
  <2>2. LastIn(log, i, d, Len(log)) = LastIn(log', i, d, Len(log))
      BY GrowsFacts, SamePast
  <2> QED  BY <2>1, <2>2
<1> QED  BY <1>2, <1>3, Named, NamedNext

\* The last publication of a day is not before one of its publications.
LEMMA LastAtLeast ==
    ASSUME NEW l, NEW top \in Nat, NEW i, NEW d, NEW j \in 1 .. top, Touch(l, j, i, d)
    PROVE  j <= LastIn(l, i, d, top)
<1> DEFINE k == LastIn(l, i, d, top)
<1>1. IsLast(l, i, d, top, k)
    BY LastFacts
<1>2. k \in 0 .. top /\ ~(j \in (k + 1) .. top)
    BY <1>1 DEF IsLast
<1> HIDE DEF k
<1>3. j <= k
    BY <1>2
<1> QED  BY <1>3 DEF k

\* A certificate stays true.
LEMMA CertificateKept ==
    ASSUME DataInv, Grows, NEW i, NEW b, BuildOK(i, b)
    PROVE  BuildOK(i, b)'
<1>1. /\ b.first \in Days /\ b.last \in Days /\ b.result \in 0 .. Len(log)
      /\ b.receipt \in 1 .. Len(receipts) /\ Vouches(i, b.receipt, b.last)
    BY DEF BuildOK, Vouches
<1>2. ASSUME NEW d \in b.first .. b.last, LastEvent(i, d, Len(log))' <= b.result
      PROVE  Yields(i, b.spec, b.receipt, d)'
  <2>1. ASSUME NEW j \in (Len(log) + 1) .. Len(log'), Touch(log', j, i, d) PROVE FALSE
    <3>1. j \in 1 .. Len(log') /\ Len(log') \in Nat /\ j > b.result
        BY <1>1, <2>1, GrowsFacts
    <3>2. LastIn(log', i, d, Len(log')) <= b.result
        BY <1>2, NamedNext
    <3>3. j <= LastIn(log', i, d, Len(log'))
        BY <2>1, <3>1, LastAtLeast
    <3>4. LastIn(log', i, d, Len(log')) \in Nat
      <4>1. IsLast(log', i, d, Len(log'), LastIn(log', i, d, Len(log')))
          BY GrowsFacts, LastFacts
      <4> QED  BY <4>1 DEF IsLast
    <3> QED  BY <1>1, <3>1, <3>2, <3>3, <3>4
  <2>2. /\ Yields(i, b.spec, b.receipt, d)' <=> Yields(i, b.spec, b.receipt, d)
        /\ LastEvent(i, d, Len(log))' = LastEvent(i, d, Len(log))
      BY <1>1, <2>1, OutputKept
  <2> QED  BY <1>2, <2>2 DEF BuildOK, Certifies
<1>3. b.result \in 0 .. Len(log')
    BY <1>1, GrowsFacts
<1>4. Vouches(i, b.receipt, b.last)'
    BY <1>1, GrowsFacts DEF Vouches
<1> QED  BY <1>1, <1>2, <1>3, <1>4 DEF BuildOK, Certifies

\* Entries, receipts, records and pins stay what they are.
LEMMA RecordsKept ==
    ASSUME DataInv, Grows
    PROVE  /\ \A e : EntryOK(e) => EntryOK(e)'
           /\ \A r : ReceiptOK(r) => ReceiptOK(r)'
           /\ \A i, r : RowOK(i, r) => RowOK(i, r)'
           /\ \A i, k, last : Vouches(i, k, last) => Vouches(i, k, last)'
           /\ \A i, x : PinOK(i, x) => PinOK(i, x)'
<1>1. \A i, k, last : Vouches(i, k, last) => Vouches(i, k, last)'
    BY GrowsFacts DEF Vouches
<1>2. \A r : ReceiptOK(r) => ReceiptOK(r)'
    BY GrowsFacts DEF ReceiptOK
<1>3. \A i, r : RowOK(i, r) => RowOK(i, r)'
    BY GrowsFacts DEF RowOK
<1>4. ASSUME NEW e, EntryOK(e) PROVE EntryOK(e)'
  <2>1. e.receipt \in 0 .. Len(receipts) /\ e.receipt \in 0 .. Len(receipts')
      BY <1>4, GrowsFacts DEF EntryOK
  <2>2. e.receipt > 0 => receipts'[e.receipt] = receipts[e.receipt]
      BY <2>1, GrowsFacts
  <2> QED  BY <1>4, <2>1, <2>2 DEF EntryOK
<1> QED  BY <1>1, <1>2, <1>3, <1>4 DEF PinOK

\* The parts of the data that a step does not write stay sound.
LEMMA DataKept ==
    ASSUME DataInv, Grows
    PROVE  /\ log' = log => LogInv'
           /\ receipts' = receipts => ReceiptsInv'
           /\ builds' = builds => BuildsInv'
           /\ rows' = rows => RowsInv'
           /\ initial' = initial => PinsInv'
<1>1. log' = log => LogInv'
    BY RecordsKept DEF DataInv, LogInv
<1>2. receipts' = receipts => ReceiptsInv'
    BY RecordsKept DEF DataInv, ReceiptsInv
<1>3. builds' = builds => BuildsInv'
    BY CertificateKept DEF DataInv, BuildsInv
<1>4. rows' = rows => RowsInv'
    BY RecordsKept DEF DataInv, RowsInv
<1>5. initial' = initial => PinsInv'
    BY RecordsKept DEF DataInv, PinsInv
<1> QED  BY <1>1, <1>2, <1>3, <1>4, <1>5

\* So does what an operation has reached, while nobody else works on its Item.
LEMMA FrameKept ==
    ASSUME DataInv, Grows, NEW f \in Frames, FrameOK(f)
    PROVE  FrameOK(f)'
<1>1. Vouches(f.item, f.receipt, f.last) => Vouches(f.item, f.receipt, f.last)'
    BY RecordsKept
<1>2. f.before \in Nat /\ f.result \in Nat /\ f.receipt \in Nat
    BY DEF Frames
<1>3. f.before <= Len(log') /\ f.result <= Len(log') /\ f.receipt <= Len(receipts')
    BY <1>2, GrowsFacts DEF FrameOK
<1> QED  BY <1>1, <1>3 DEF FrameOK

\* What was written over stays so.
LEMMA OverwrittenKept ==
    ASSUME Grows, NEW f \in Frames, Overwritten(f)
    PROVE  Overwritten(f)'
<1>1. PICK k \in (f.before + 1) .. Len(log) : log[k].node = f.item /\ log[k].receipt # f.receipt
    BY DEF Overwritten
<1>2. k \in 1 .. Len(log) /\ k \in (f.before + 1) .. Len(log')
    BY GrowsFacts DEF Frames
<1> QED  BY <1>1, <1>2, GrowsFacts DEF Overwritten

\* A row that came from outside stays in the log.
LEMMA IngestedKept ==
    ASSUME Grows, Ingested
    PROVE  Ingested'
<1>1. PICK k \in 1 .. Len(log) : log[k].node \in Items /\ log[k].receipt = 0
    BY DEF Ingested
<1>2. k \in 1 .. Len(log') /\ log'[k] = log[k]
    BY GrowsFacts
<1> QED  BY <1>1, <1>2 DEF Ingested

\* What an operation has reached stays while nobody else works on its Item.
LEMMA WorkKept ==
    ASSUME DataInv, Grows, NEW f \in Frames, FrameOK(f), Work(f),
           Still(f.item), builds'[f.item] = builds[f.item]
    PROVE  Work(f)'
<1>1. ASSUME NEW d, f.receipt \in 1 .. Len(receipts)
      PROVE  /\ Correct(f, d)' <=> Correct(f, d)
             /\ LastEvent(f.item, d, Len(log))' = LastEvent(f.item, d, Len(log))
  <2>1. \A j \in (Len(log) + 1) .. Len(log') : ~Touch(log', j, f.item, d)
      BY DEF Still, Touch
  <2> QED  BY <1>1, <2>1, OutputKept DEF Correct
<1>2. f.phase \in Publishing \cup {"recheck", "finish"} => f.receipt \in 1 .. Len(receipts)
    BY DEF FrameOK, Vouches
<1>3. (Overwritten(f) => Overwritten(f)') /\ (Ingested => Ingested')
    BY OverwrittenKept, IngestedKept
<1>4. f.phase = "recheck" => BuiltBefore(f.item, receipts[f.receipt].max)'
  <2>1. HAVE f.phase = "recheck"
  <2>2. receipts'[f.receipt] = receipts[f.receipt]
      BY <1>2, <2>1, GrowsFacts
  <2>3. \A k \in 1 .. Len(builds[f.item]) :
            receipts'[builds[f.item][k].receipt] = receipts[builds[f.item][k].receipt]
      BY GrowsFacts DEF DataInv, BuildsInv, BuildOK, Vouches, Frames
  <2> QED  BY <2>1, <2>2, <2>3 DEF Work, BuiltBefore
<1> QED  BY <1>1, <1>2, <1>3, <1>4 DEF Work, Publishing

-----------------------------------------------------------------------------
(* Stacks of calls.                                                        *)

\* The operation a process is in.
LEMMA TopFacts ==
    ASSUME CallInv, NEW p \in Procs, call[p] # <<>>
    PROVE  /\ call[p] \in Seq(Frames) /\ Len(call[p]) \in Nat \ {0}
           /\ Top(p) \in Frames /\ FrameOK(Top(p)) /\ Work(Top(p))
<1>1. call[p] \in Seq(Frames) /\ Work(Top(p)) /\ \A k \in 1 .. Len(call[p]) : FrameOK(call[p][k])
    BY DEF CallInv, StackOK
<1>2. Len(call[p]) \in Nat \ {0}
    BY <1>1
<1> QED  BY <1>1, <1>2 DEF Top

\* The last frame of a stack is another.
LEMMA Replaced ==
    ASSUME NEW s \in Seq(Frames), s # <<>>, NEW g \in Frames
    PROVE  LET t == [s EXCEPT ![Len(s)] = g]
           IN /\ t \in Seq(Frames) /\ t # <<>> /\ Len(t) = Len(s) /\ Len(s) \in Nat \ {0}
              /\ t[Len(s)] = g /\ \A k \in 1 .. Len(s) : k # Len(s) => t[k] = s[k]
OBVIOUS

\* The operation goes on.
LEMMA OwnSet ==
    ASSUME DataInv, CallInv, Grows, NEW p \in Procs, call[p] # <<>>,
           NEW g \in Frames, Set(p, g), FrameOK(g)', Work(g)'
    PROVE  StackOK(p)' /\ Work(Top(p))'
<1>1. call'[p] = [call[p] EXCEPT ![Len(call[p])] = g]
    BY DEF Set, CallInv
<1>2. call[p] \in Seq(Frames)
    BY DEF CallInv, StackOK
<1>3. /\ call'[p] \in Seq(Frames) /\ Len(call'[p]) = Len(call[p]) /\ Len(call[p]) \in Nat \ {0}
      /\ call'[p][Len(call[p])] = g
      /\ \A k \in 1 .. Len(call[p]) : k # Len(call[p]) => call'[p][k] = call[p][k]
    BY <1>1, <1>2, Replaced
<1>4. Top(p)' = g
    BY <1>3 DEF Top
<1>a. Work(Top(p))'
    BY <1>4 DEF Work
<1>5. ASSUME NEW k \in 1 .. Len(call'[p])
      PROVE  FrameOK(call[p][k])' /\ (k < Len(call'[p]) => call'[p][k].phase = "parents")
  <2>1. CASE k = Len(call[p])
      BY <1>3, <2>1 DEF FrameOK
  <2>2. CASE k # Len(call[p])
    <3>1. k \in 1 .. Len(call[p]) /\ call'[p][k] = call[p][k] /\ k < Len(call[p])
        BY <1>3, <2>2
    <3>2. FrameOK(call[p][k]) /\ call[p][k].phase = "parents" /\ call[p][k] \in Frames
        BY <1>2, <3>1 DEF CallInv, StackOK
    <3>3. FrameOK(call[p][k])'
      <4>1. ASSUME NEW h \in Frames, FrameOK(h) PROVE FrameOK(h)'
          BY <4>1, FrameKept
      <4>2. PICK h : h = call'[p][k]
          OBVIOUS
      <4>3. FrameOK(h)'
          BY <3>1, <3>2, <4>1, <4>2
      <4> QED  BY <4>2, <4>3 DEF FrameOK
    <3> QED  BY <3>1, <3>2, <3>3
  <2> QED  BY <2>1, <2>2
<1> QED  BY <1>3, <1>a, <1>5 DEF StackOK

\* It is given up, with all it was part of.
LEMMA OwnFail ==
    ASSUME NEW p \in Procs, call'[p] = <<>>
    PROVE  StackOK(p)'
<1>1. <<>> \in Seq(Frames) /\ Len(<<>>) = 0
    OBVIOUS
<1> QED  BY <1>1 DEF StackOK

\* What nobody else touches stays.
LEMMA OthersKept ==
    ASSUME DataInv, CallInv, Grows, NEW q \in Procs, call'[q] = call[q],
           Busy(q) => Still(Top(q).item) /\ builds'[Top(q).item] = builds[Top(q).item]
    PROVE  StackOK(q)' /\ (call'[q] # <<>> => Work(Top(q))')
<1>1. StackOK(q)'
  <2>1. ASSUME NEW k \in 1 .. Len(call[q])
        PROVE  FrameOK(call[q][k])' /\ (k < Len(call[q]) => call[q][k].phase = "parents")
    <3>1. call[q][k] \in Frames /\ FrameOK(call[q][k]) /\ (k < Len(call[q]) => call[q][k].phase = "parents")
        BY DEF CallInv, StackOK
    <3>2. ASSUME NEW h \in Frames, FrameOK(h) PROVE FrameOK(h)'
        BY <3>2, FrameKept
    <3>3. PICK h : h = call[q][k]
        OBVIOUS
    <3>4. FrameOK(h)' /\ h = call'[q][k]
        BY <3>1, <3>2, <3>3
    <3>5. FrameOK(call[q][k])'
        BY <3>4 DEF FrameOK
    <3> QED  BY <3>1, <3>5
  <2> QED  BY <2>1 DEF StackOK, CallInv
<1>2. ASSUME call[q] # <<>> PROVE Work(Top(q))'
  <2>1. PICK f : f = Top(q)
      OBVIOUS
  <2>2. f \in Frames /\ FrameOK(f) /\ Work(f)
      BY <1>2, <2>1, TopFacts
  <2>3. Work(f)'
    <3>1. CASE f.phase = "parents"
        BY <3>1 DEF Work, Publishing
    <3>2. CASE f.phase # "parents"
      <4>1. Still(f.item) /\ builds'[f.item] = builds[f.item]
          BY <1>2, <2>1, <3>2 DEF Busy
      <4> QED  BY <2>2, <4>1, WorkKept
    <3> QED  BY <3>1, <3>2
  <2>4. Top(q)' = f
      BY <2>1 DEF Top
  <2> QED  BY <2>3, <2>4
<1> QED  BY <1>1, <1>2

\* A stack without its last frame.
LEMMA Popped ==
    ASSUME NEW s \in Seq(Frames), s # <<>>
    PROVE  LET t == SubSeq(s, 1, Len(s) - 1)
           IN /\ t \in Seq(Frames) /\ Len(t) = Len(s) - 1 /\ Len(s) \in Nat \ {0}
              /\ \A k \in 1 .. Len(t) : k \in 1 .. Len(s) /\ k < Len(s) /\ t[k] = s[k]
<1>1. Len(s) \in Nat \ {0} /\ \A k \in 1 .. Len(s) : s[k] \in Frames
    OBVIOUS
<1>2. PICK n \in Nat : n = Len(s) - 1
    BY <1>1
<1>3. /\ Len(SubSeq(s, 1, n)) = n
      /\ \A k \in 1 .. n : SubSeq(s, 1, n)[k] = s[k]
    BY <1>1, <1>2
<1>4. SubSeq(s, 1, n) \in Seq(Frames)
    BY <1>1, <1>2
<1> QED  BY <1>1, <1>2, <1>3, <1>4

\* It is done, and the one that asked for it goes on.
LEMMA OwnReturn ==
    ASSUME DataInv, CallInv, Grows, NEW p \in Procs, call[p] # <<>>, Return(p)
    PROVE  StackOK(p)' /\ (call'[p] # <<>> => Work(Top(p))')
<1> DEFINE s == call[p]
           t == SubSeq(s, 1, Len(s) - 1)
<1>1. /\ s \in Seq(Frames) /\ s # <<>>
      /\ \A k \in 1 .. Len(s) : FrameOK(s[k]) /\ (k < Len(s) => s[k].phase = "parents")
    BY DEF CallInv, StackOK
<1>2. /\ t \in Seq(Frames) /\ Len(t) = Len(s) - 1 /\ Len(s) \in Nat \ {0}
      /\ \A k \in 1 .. Len(t) : k \in 1 .. Len(s) /\ k < Len(s) /\ t[k] = s[k]
  <2> HIDE DEF s
  <2> QED  BY <1>1, Popped
<1>3. \A k \in 1 .. Len(t) : t[k] \in Frames /\ FrameOK(t[k]) /\ t[k].phase = "parents"
  <2> HIDE DEF s, t
  <2> QED  BY <1>1, <1>2
<1>4. call'[p] = IF Len(t) = 0 THEN t ELSE [t EXCEPT ![Len(t)].todo = @ \ {Top(p).item}]
    BY DEF Return, CallInv
<1>5. CASE Len(t) = 0
  <2>1. call'[p] = t /\ t = <<>>
    <3> HIDE DEF s, t
    <3> QED  BY <1>2, <1>4, <1>5
  <2> QED  BY <2>1, OwnFail
<1>6. CASE Len(t) # 0
  <2>1. PICK g : g = [t[Len(t)] EXCEPT !.todo = @ \ {Top(p).item}]
      OBVIOUS
  <2> HIDE DEF s, t
  <2>2. Len(t) \in 1 .. Len(t) /\ t # <<>>
      BY <1>2, <1>6
  <2>3. PICK h : h = t[Len(t)]
      OBVIOUS
  <2>4. h \in Frames /\ FrameOK(h) /\ h.phase = "parents"
      BY <1>3, <2>2, <2>3
  <2>5. g \in Frames /\ g.phase = "parents" /\ FrameOK(g)
    <3>1. g = [h EXCEPT !.todo = @ \ {Top(p).item}]
        BY <2>1, <2>3
    <3>2. g \in Frames /\ g.phase = "parents"
        BY <2>4, <3>1 DEF Frames
    <3>3. /\ g.first = h.first /\ g.last = h.last /\ g.before = h.before /\ g.result = h.result
          /\ g.receipt = h.receipt /\ g.left = h.left /\ g.unit = h.unit
          /\ g.unpublished = h.unpublished
        BY <2>4, <3>1 DEF Frames
    <3> QED  BY <2>4, <3>2, <3>3 DEF FrameOK, Publishing
  <2>6. call'[p] = [t EXCEPT ![Len(t)] = g]
      BY <1>4, <1>6, <2>1
  <2>7. /\ call'[p] \in Seq(Frames) /\ Len(call'[p]) = Len(t) /\ call'[p][Len(t)] = g
        /\ \A k \in 1 .. Len(t) : k # Len(t) => call'[p][k] = t[k]
      BY <1>2, <2>2, <2>5, <2>6, Replaced
  <2>8. ASSUME NEW k \in 1 .. Len(call'[p])
        PROVE  FrameOK(call[p][k])' /\ call'[p][k].phase = "parents"
    <3>1. PICK x : x = call'[p][k]
        OBVIOUS
    <3>2. x \in Frames /\ FrameOK(x) /\ x.phase = "parents"
        BY <1>3, <2>5, <2>7, <3>1
    <3>3. FrameOK(x)'
        BY <3>2, FrameKept
    <3> QED  BY <3>1, <3>2, <3>3 DEF FrameOK
  <2>9. Work(Top(p))'
    <3>1. Top(p)' = g
        BY <2>7 DEF Top
    <3> QED  BY <2>5, <3>1 DEF Work, Publishing
  <2> QED  BY <2>7, <2>8, <2>9 DEF StackOK
<1> QED  BY <1>5, <1>6

\* One more is begun, on top of what is there.
LEMMA OwnPush ==
    ASSUME DataInv, CallInv, Grows, NEW p \in Procs,
           call[p] # <<>> => Top(p).phase = "parents",
           NEW g \in Frames, call' = [call EXCEPT ![p] = Append(@, g)], FrameOK(g)', Work(g)'
    PROVE  StackOK(p)' /\ Work(Top(p))'
<1>1. call'[p] = Append(call[p], g) /\ call[p] \in Seq(Frames)
    BY DEF CallInv, StackOK
<1>2. PICK s \in Seq(Frames) : s = call[p]
    BY <1>1
<1>3. /\ Append(s, g) \in Seq(Frames) /\ Len(Append(s, g)) = Len(s) + 1 /\ Len(s) \in Nat
      /\ Append(s, g)[Len(s) + 1] = g
      /\ \A k \in 1 .. Len(s) : Append(s, g)[k] = s[k]
      /\ Len(s) > 0 => s # <<>>
    OBVIOUS
<1>4. Top(p)' = g
    BY <1>1, <1>2, <1>3 DEF Top
<1>5. ASSUME NEW k \in 1 .. Len(call'[p])
      PROVE  FrameOK(call[p][k])' /\ (k < Len(call'[p]) => call'[p][k].phase = "parents")
  <2>1. CASE k = Len(s) + 1
      BY <1>1, <1>2, <1>3, <2>1 DEF FrameOK
  <2>2. CASE k # Len(s) + 1
    <3>1. k \in 1 .. Len(s) /\ call'[p][k] = s[k] /\ k <= Len(s)
        BY <1>1, <1>2, <1>3, <2>2
    <3>2. PICK h : h = s[k]
        OBVIOUS
    <3>3. /\ h \in Frames /\ FrameOK(h) /\ (k < Len(s) => h.phase = "parents")
          /\ (k = Len(s) => h = Top(p))
        BY <1>2, <1>3, <3>1, <3>2 DEF CallInv, StackOK, Top
    <3>4. h.phase = "parents"
      <4>1. k = Len(s) => call[p] # <<>>
          BY <1>2, <1>3, <3>1
      <4> QED  BY <1>3, <3>1, <3>3, <4>1
    <3>5. FrameOK(h)'
        BY <3>3, FrameKept
    <3> QED  BY <3>1, <3>2, <3>4, <3>5 DEF FrameOK
  <2> QED  BY <2>1, <2>2
<1>6. Work(Top(p))'
    BY <1>4 DEF Work
<1> QED  BY <1>1, <1>2, <1>3, <1>5, <1>6 DEF StackOK

-----------------------------------------------------------------------------
(* Steps: what the operation of one process does to the rest.               *)

\* The invariant of the calls is put together from that of one process and the others.
LEMMA Assemble ==
    ASSUME DataInv, CallInv, Apart, Grows, DataInv', NEW p \in Procs,
           DOMAIN call' = Procs, \A q \in Procs : q # p => call'[q] = call[q],
           \A i \in Items : (Busy(p) /\ Top(p).item = i) \/ (Still(i) /\ builds'[i] = builds[i]),
           StackOK(p)' /\ (call'[p] # <<>> => Work(Top(p))')
    PROVE  IInv'
<1>1. ASSUME NEW q \in Procs PROVE StackOK(q)' /\ (call'[q] # <<>> => Work(Top(q))')
  <2>1. CASE q = p
      BY <2>1
  <2>2. CASE q # p
    <3>1. Busy(q) => Still(Top(q).item) /\ builds'[Top(q).item] = builds[Top(q).item]
      <4>1. HAVE Busy(q)
      <4>2. Top(q).item \in Items
          BY <4>1, TopFacts DEF Busy, Frames
      <4> QED  BY <2>2, <4>1, <4>2 DEF Apart
    <3> QED  BY <2>2, <3>1, OthersKept
  <2> QED  BY <2>1, <2>2
<1> QED  BY <1>1 DEF IInv, CallInv

\* The step goes on, ends with failure, or returns.
Moves(p) == \E x : call' = [call EXCEPT ![p] = x]

\* The other processes stay where they are.
LEMMA Elsewhere ==
    ASSUME CallInv, NEW p \in Procs, Moves(p)
    PROVE  DOMAIN call' = Procs /\ \A q \in Procs : q # p => call'[q] = call[q]
BY DEF Moves, CallInv

\* A step that sets, ends or extends the operation of p moves no other process.
LEMMA MovesBy ==
    ASSUME NEW p
    PROVE  (Return(p) => Moves(p)) /\ \A g : Set(p, g) => Moves(p)
BY DEF Return, Set, Moves

\* Nothing is published, certified or frozen.
Quiet == UNCHANGED <<log, receipts, builds, rows, initial>> /\ spec' \in [Nodes -> Nat]

\* A step that publishes, freezes and certifies nothing keeps the data.
LEMMA QuietKeeps ==
    ASSUME DataInv, Quiet
    PROVE  DataInv' /\ Grows /\ \A i \in Items : Still(i) /\ builds'[i] = builds[i]
<1>1. Grows
    BY Appended DEF Quiet, Grows, DataInv, LogInv, ReceiptsInv
<1>2. \A i \in Items : Still(i)
  <2>1. (Len(log) + 1) .. Len(log') = {}
      BY Lengths DEF Quiet
  <2> QED  BY <2>1 DEF Still
<1>3. DataInv'
    BY <1>1, DataKept DEF Quiet, DataInv
<1> QED  BY <1>1, <1>2, <1>3 DEF Quiet

\* Such a step goes on with another frame.
LEMMA QuietSet ==
    ASSUME DataInv, CallInv, Apart, Quiet, NEW p \in Procs, call[p] # <<>>,
           NEW g \in Frames, Set(p, g), FrameOK(g)', Work(g)'
    PROVE  IInv'
<1>1. StackOK(p)' /\ Work(Top(p))'
    BY QuietKeeps, OwnSet
<1> QED  BY <1>1, QuietKeeps, Elsewhere, MovesBy, Assemble

\* Such a step fails: the process is in no operation any more.
LEMMA QuietFail ==
    ASSUME DataInv, CallInv, Apart, Quiet, NEW p \in Procs, call' = [call EXCEPT ![p] = <<>>]
    PROVE  IInv'
<1>1. StackOK(p)' /\ call'[p] = <<>>
    BY OwnFail DEF CallInv
<1>2. Moves(p)
    BY DEF Moves
<1> QED  BY <1>1, <1>2, QuietKeeps, Elsewhere, Assemble

\* Such a step begins an operation.
LEMMA QuietPush ==
    ASSUME DataInv, CallInv, Apart, Quiet, NEW p \in Procs,
           call[p] # <<>> => Top(p).phase = "parents",
           NEW g \in Frames, call' = [call EXCEPT ![p] = Append(@, g)], FrameOK(g)', Work(g)'
    PROVE  IInv'
<1>1. StackOK(p)' /\ Work(Top(p))'
    BY QuietKeeps, OwnPush
<1>2. Moves(p)
    BY DEF Moves
<1> QED  BY <1>1, <1>2, QuietKeeps, Elsewhere, Assemble

\* Nobody's operation moves.
LEMMA CallsKept ==
    ASSUME DataInv, CallInv, Grows, DataInv', call' = call,
           \A q \in Procs :
              Busy(q) => \/ Work(Top(q))'
                         \/ Still(Top(q).item) /\ builds'[Top(q).item] = builds[Top(q).item]
    PROVE  IInv'
<1>1. ASSUME NEW q \in Procs PROVE StackOK(q)' /\ (call'[q] # <<>> => Work(Top(q))')
  <2>1. CASE Busy(q) => Still(Top(q).item) /\ builds'[Top(q).item] = builds[Top(q).item]
      BY <2>1, OthersKept
  <2>2. CASE Busy(q) /\ Work(Top(q))'
    <3>1. StackOK(q)'
      <4>1. \A k \in 1 .. Len(call[q]) : call[q][k] \in Frames /\ FrameOK(call[q][k])
          BY DEF CallInv, StackOK
      <4>2. ASSUME NEW h \in Frames, FrameOK(h) PROVE FrameOK(h)'
          BY <4>2, FrameKept
      <4>3. ASSUME NEW k \in 1 .. Len(call[q]) PROVE FrameOK(call[q][k])'
        <5>1. PICK h : h = call[q][k]
            OBVIOUS
        <5> QED  BY <4>1, <4>2, <5>1 DEF FrameOK
      <4> QED  BY <4>3 DEF StackOK, CallInv
    <3> QED  BY <2>2, <3>1
  <2> QED  BY <2>1, <2>2
<1> QED  BY <1>1 DEF IInv, CallInv

\* Nothing is published or frozen.
Steady == UNCHANGED <<log, receipts>>

\* While nothing is published or frozen, frames stay sound.
LEMMA SteadyFrame ==
    ASSUME Steady, NEW g, builds' = builds \/ g.phase \notin {"recheck", "reuse"}
    PROVE  (FrameOK(g) => FrameOK(g)') /\ (Work(g) => Work(g)')
<1>1. FrameOK(g) => FrameOK(g)'
    BY DEF Steady, FrameOK, Vouches
<1>2. \A i, s, k, d : Yields(i, s, k, d)' <=> Yields(i, s, k, d)
    BY Named, NamedNext DEF Steady
<1>3. \A n, d : LastEvent(n, d, Len(log))' = LastEvent(n, d, Len(log))
    BY Named, NamedNext DEF Steady
<1>4. (Overwritten(g)' <=> Overwritten(g)) /\ (Ingested' <=> Ingested)
    BY DEF Steady, Overwritten, Ingested
<1>5. g.phase = "recheck" =>
        \A i : BuiltBefore(i, receipts[g.receipt].max) => BuiltBefore(i, receipts[g.receipt].max)'
    BY DEF Steady, BuiltBefore
<1> QED  BY <1>1, <1>2, <1>3, <1>4, <1>5 DEF Work, Correct

\* So they do in a quiet step.
LEMMA QuietFrame ==
    ASSUME Quiet, NEW g
    PROVE  (FrameOK(g) => FrameOK(g)') /\ (Work(g) => Work(g)')
BY SteadyFrame DEF Quiet, Steady

\* The operation of a process goes on with frame g, which is sound already.
LEMMA QuietGoes ==
    ASSUME DataInv, CallInv, Apart, Quiet, NEW p \in Procs, call[p] # <<>>,
           NEW g \in Frames, Set(p, g), FrameOK(g), Work(g)
    PROVE  IInv'
BY QuietFrame, QuietSet

\* A new operation has done nothing yet.
LEMMA NewFrame ==
    ASSUME DataInv, NEW i \in Items, NEW first \in Days, NEW last \in Days, first <= last,
           NEW op \in {"update", "initialize", "resume"}
    PROVE  /\ Frame(op, i, first, last) \in Frames
           /\ FrameOK(Frame(op, i, first, last)) /\ Work(Frame(op, i, first, last))
<1>1. spec[i] \in Nat /\ Len(log) \in Nat /\ Len(receipts) \in Nat
    BY Lengths DEF DataInv, Nodes
<1>2. PICK f : f = Frame(op, i, first, last)
    OBVIOUS
<1>3. f \in Frames
  <2>1. PICK todo \in SUBSET Items : todo = {n \in Inputs[i] : n \in Items}
      OBVIOUS
  <2>2. PICK s \in Nat, top \in Nat : s = spec[i] /\ top = Len(log)
      BY <1>1
  <2>3. {} \in SUBSET Days /\ "parents" \in Phases /\ 0 \in Nat
      BY DEF Phases
  <2>4. f = [op |-> op, item |-> i, first |-> first, last |-> last, phase |-> "parents",
             spec |-> s, before |-> top, receipt |-> 0, todo |-> todo,
             left |-> {}, unit |-> {}, unpublished |-> {}, result |-> 0, prior |-> 0]
      BY <1>2, <2>1, <2>2 DEF Frame
  <2> QED  BY <2>3, <2>4 DEF Frames
<1>4. /\ f.phase = "parents" /\ f.first = first /\ f.last = last /\ f.before = Len(log) /\ f.result = 0
      /\ f.receipt = 0 /\ f.left = {} /\ f.unit = {} /\ f.unpublished = {}
    BY <1>2 DEF Frame
<1>5. FrameOK(f) /\ Work(f)
    BY <1>1, <1>4 DEF FrameOK, Work, Publishing
<1> QED  BY <1>2, <1>3, <1>5

\* A request is a range of days.
LEMMA RequestFacts ==
    ASSUME NEW r \in Requests
    PROVE  r[1] \in Days /\ r[2] \in Days /\ r[1] <= r[2]
BY DeclarationAssumption

\* A call of update or initialize begins.
LEMMA StartStep ==
    ASSUME IInv, Apart, NEW p \in Procs, NEW op \in {"update", "initialize"}, NEW i \in Targets,
           Start(p, op, i)
    PROVE  IInv'
<1>1. PICK r \in Requests : call' = [call EXCEPT ![p] = <<Frame(op, i, r[1], r[2])>>]
    BY DEF Start
<1>2. i \in Items /\ call[p] = <<>>
    BY DeclarationAssumption DEF Start
<1>3. PICK g : g = Frame(op, i, r[1], r[2])
    OBVIOUS
<1>4. g \in Frames /\ FrameOK(g) /\ Work(g)
    BY <1>2, <1>3, NewFrame, RequestFacts DEF IInv
<1>5. Quiet
    BY DEF Start, data, evidence, Quiet, IInv, DataInv
<1>6. Append(<<>>, g) = <<g>>
    OBVIOUS
<1>7. call' = [call EXCEPT ![p] = Append(@, g)]
    BY <1>1, <1>2, <1>3, <1>6
<1> QED  BY <1>2, <1>4, <1>5, <1>7, QuietFrame, QuietPush DEF IInv

\* An operation first updates the Items its Item reads.
LEMMA UpdateParentStep ==
    ASSUME IInv, Apart, NEW p \in Procs, UpdateParent(p)
    PROVE  IInv'
<1>1. call[p] # <<>> /\ Top(p).phase = "parents"
    BY DEF UpdateParent, At
<1>2. PICK n \in Top(p).todo :
          call' = [call EXCEPT ![p] = Append(@, Frame("update", n, Top(p).first, Top(p).last))]
    BY DEF UpdateParent
<1>3. PICK f \in Frames : f = Top(p) /\ FrameOK(f)
    BY <1>1, TopFacts DEF IInv
<1>4. PICK g : g = Frame("update", n, f.first, f.last)
    OBVIOUS
<1>5. g \in Frames /\ FrameOK(g) /\ Work(g)
  <2>1. n \in Items /\ f.first \in Days /\ f.last \in Days /\ f.first <= f.last
      BY <1>2, <1>3 DEF Frames, FrameOK
  <2> QED  BY <1>4, <2>1, NewFrame DEF IInv
<1>6. Quiet
    BY DEF UpdateParent, data, evidence, Quiet, IInv, DataInv
<1>7. call' = [call EXCEPT ![p] = Append(@, g)]
    BY <1>2, <1>3, <1>4
<1> QED  BY <1>1, <1>5, <1>6, <1>7, QuietFrame, QuietPush DEF IInv

\* A raw dataset is marked complete again.
LEMMA RawCompleteStep ==
    ASSUME IInv, NEW r \in Raws, RawComplete(r)
    PROVE  IInv'
<1>1. Quiet
    BY DEF RawComplete, evidence, Quiet, IInv, DataInv
<1>2. call' = call /\ \A q \in Procs : Busy(q) => Top(q).item \in Items
    BY TopFacts DEF RawComplete, Busy, Frames, IInv
<1> QED  BY <1>1, <1>2, QuietKeeps, CallsKept DEF IInv

\* A node is given another definition.
LEMMA RedefineStep ==
    ASSUME IInv, NEW n \in Nodes, Redefine(n)
    PROVE  IInv'
<1>1. Quiet
  <2>1. spec' \in [Nodes -> Nat]
      BY DEF Redefine, IInv, DataInv
  <2> QED  BY <2>1 DEF Redefine, evidence, Quiet
<1>2. call' = call /\ \A q \in Procs : Busy(q) => Top(q).item \in Items
    BY TopFacts DEF Redefine, Busy, Frames, IInv
<1> QED  BY <1>1, <1>2, QuietKeeps, CallsKept DEF IInv

\* The leases of a process that died are given back.
LEMMA AbandonStep ==
    ASSUME IInv, NEW p \in Procs, Abandon(p)
    PROVE  IInv'
<1>1. Quiet
    BY DEF Abandon, data, evidence, Quiet, IInv, DataInv
<1>2. call' = call /\ \A q \in Procs : Busy(q) => Top(q).item \in Items
    BY TopFacts DEF Abandon, Busy, Frames, IInv
<1> QED  BY <1>1, <1>2, QuietKeeps, CallsKept DEF IInv

\* A call raises, or its process dies.
LEMMA InterruptStep ==
    ASSUME IInv, Apart, NEW p \in Procs, Interrupt(p) \/ Die(p)
    PROVE  IInv'
<1>1. Quiet
    BY DEF Interrupt, Die, data, evidence, Quiet, IInv, DataInv
<1>2. call' = [call EXCEPT ![p] = <<>>]
    BY DEF Interrupt, Die, Fail
<1> QED  BY <1>1, <1>2, QuietFail DEF IInv

\* Two frames of the same operation ask for the same.
Alike(f, g) ==
    /\ g.op = f.op /\ g.item = f.item /\ g.first = f.first /\ g.last = f.last /\ g.spec = f.spec
    /\ g.before = f.before /\ g.receipt = f.receipt

\* Frames of one operation that only differ in their progress judge days alike.
LEMMA AlikeFacts ==
    ASSUME NEW f, NEW g, Alike(f, g)
    PROVE  (\A d : Correct(g, d) <=> Correct(f, d)) /\ (Overwritten(g) <=> Overwritten(f))
BY DEF Alike, Correct, Overwritten

\* The next unit of an update is begun, or there is none.
LEMMA AdvanceOK ==
    ASSUME NEW f \in Frames, FrameOK(f), Vouches(f.item, f.receipt, f.last), f.op = "update",
           f.unpublished = {},
           \A d \in (f.first .. f.last) \ f.left : Correct(f, d) \/ Overwritten(f)
    PROVE  /\ Advance(f) \in Frames /\ FrameOK(Advance(f)) /\ Work(Advance(f))
           /\ Advance(f).phase \notin {"recheck", "reuse"}
<1>1. PICK g : g = Advance(f)
    OBVIOUS
<1>2. CASE f.left = {}
  <2>1. g = [f EXCEPT !.phase = "finish", !.unit = {}]
      BY <1>1, <1>2 DEF Advance
  <2>2. /\ g \in Frames /\ Alike(f, g) /\ g.phase = "finish" /\ g.unit = {} /\ g.left = {}
        /\ g.unpublished = {} /\ g.result = f.result
      BY <1>2, <2>1 DEF Frames, Phases, Alike
  <2>4. FrameOK(g)
      BY <2>2 DEF FrameOK, Alike, Publishing
  <2>5. Work(g)
      BY <1>2, <2>2, AlikeFacts DEF Work, Alike, Publishing
  <2> QED  BY <1>1, <2>2, <2>4, <2>5
<1>3. CASE f.left # {}
  <2>1. PICK run \in SUBSET Days : run = FirstRun(f.left) /\ Contiguous(run) /\ run \subseteq f.left
    <3>1. f.left \in SUBSET Days
        BY DEF Frames
    <3>2. Contiguous(FirstRun(f.left)) /\ FirstRun(f.left) \subseteq f.left
        BY <1>3, <3>1, FirstRunFacts
    <3> QED  BY <3>2 DEF Contiguous
  <2>2. g = [f EXCEPT !.phase = "publish", !.unit = run, !.unpublished = run, !.left = @ \ run]
      BY <1>1, <1>3, <2>1 DEF Advance
  <2>3. /\ Alike(f, g) /\ g.phase = "publish" /\ g.unit = run /\ g.unpublished = run
        /\ g.left = f.left \ run /\ g.result = f.result
      BY <2>2 DEF Frames, Alike
  <2>4. g \in Frames
    <3>1. f.left \ run \in SUBSET Days
        BY DEF Frames
    <3> QED  BY <2>2, <3>1 DEF Frames, Phases, Publishing
  <2>5. run # {} /\ g.unit \subseteq f.first .. f.last /\ g.left \subseteq f.first .. f.last
      BY <2>1, <2>3 DEF FrameOK, Contiguous
  <2>6. FrameOK(g)
      BY <2>1, <2>3, <2>5 DEF FrameOK, Alike, Publishing
  <2>7. Work(g)
    <3>1. (g.first .. g.last) \ (g.left \cup g.unit) \subseteq (f.first .. f.last) \ f.left
        BY <2>1, <2>3 DEF Alike
    <3> QED  BY <2>3, <3>1, AlikeFacts DEF Work, Publishing
  <2> QED  BY <1>1, <2>3, <2>4, <2>6, <2>7
<1> QED  BY <1>2, <1>3

\* A plan is refused, computes days, or finds nothing to compute.
LEMMA PlanModes ==
    ASSUME NEW i, NEW s, NEW first, NEW last
    PROVE  Plan(i, s, first, last).mode \in {"blocked", "build", "unchanged"}
<1>1. Blocked.mode = "blocked" /\ \A days : Rebuild(days).mode \in {"build", "unchanged"}
    BY DEF Blocked, Rebuild
<1>2. \A b : CompletedActions(i, b, first, last).mode \in {"blocked", "build", "unchanged"}
  <2> TAKE b
  <2>1. \/ CompletedActions(i, b, first, last) = Blocked
        \/ \E days : CompletedActions(i, b, first, last) = Rebuild(days)
      BY DEF CompletedActions
  <2> QED  BY <1>1, <2>1
<1> QED  BY <1>1, <1>2 DEF Plan

\* An update plans.
LEMMA PlanUpdateStep ==
    ASSUME IInv, Apart, NEW p \in Procs, PlanUpdate(p)
    PROVE  IInv'
<1>1. Quiet
    BY DEF PlanUpdate, data, evidence, Quiet, IInv, DataInv
<1>2. PICK f : f = Top(p)
    OBVIOUS
<1>3. call[p] # <<>> /\ f \in Frames /\ FrameOK(f) /\ f.phase = "parents" /\ f.op = "update"
    BY <1>2, TopFacts DEF PlanUpdate, At, IInv
<1>4. f.item \in Items /\ f.first \in Days /\ f.last \in Days /\ f.first <= f.last
    BY <1>3 DEF Frames, FrameOK
<1>5. PICK plan : plan = Plan(f.item, f.spec, f.first, f.last)
    OBVIOUS
<1>6. plan.mode \in {"blocked", "build", "unchanged"}
    BY <1>5, PlanModes
<1>7. CASE plan.mode = "blocked"
  <2>1. Fail(p)
      BY <1>2, <1>5, <1>7 DEF PlanUpdate, PlanOf
  <2> QED  BY <1>1, <2>1, QuietFail DEF Fail, IInv
<1>8. CASE plan.mode = "build"
  <2>1. Set(p, [f EXCEPT !.phase = "freeze", !.left = plan.days])
      BY <1>2, <1>5, <1>8 DEF PlanUpdate, PlanOf
  <2>2. PICK left : left = plan.days
      OBVIOUS
  <2>3. left \in SUBSET Days /\ left \subseteq f.first .. f.last
    <3>1. left \subseteq f.first .. f.last
        BY <1>4, <1>5, <1>8, <2>2, PlanComplete DEF IInv
    <3> QED  BY <1>4, <3>1, DayFacts
  <2>4. PICK g : g = [f EXCEPT !.phase = "freeze", !.left = left]
      OBVIOUS
  <2>5. /\ g \in Frames /\ Alike(f, g) /\ g.phase = "freeze" /\ g.left = left /\ g.unit = f.unit
        /\ g.unpublished = f.unpublished /\ g.result = f.result
      BY <1>3, <2>3, <2>4 DEF Frames, Phases, Alike
  <2>6. FrameOK(g) /\ Work(g)
      BY <1>3, <2>3, <2>5 DEF FrameOK, Work, Alike, Publishing
  <2> QED  BY <1>1, <1>3, <2>1, <2>2, <2>4, <2>5, <2>6, QuietGoes DEF IInv
<1>9. CASE plan.mode = "unchanged"
  <2>1. Set(p, [f EXCEPT !.phase = "reuse", !.prior = Predecessor(f.item, f.spec, f.first)])
      BY <1>2, <1>5, <1>9 DEF PlanUpdate, PlanOf
  <2>2. PICK prior : prior = Predecessor(f.item, f.spec, f.first)
      OBVIOUS
  <2>3. prior \in Nat /\ prior \in 1 .. Len(builds[f.item])
    <3>1. prior \in 1 .. Len(builds[f.item])
        BY <1>4, <1>5, <1>9, <2>2, PlanComplete DEF IInv
    <3>2. Len(builds[f.item]) \in Nat
        BY <1>4, Lengths DEF IInv
    <3> QED  BY <3>1, <3>2
  <2>4. PICK g : g = [f EXCEPT !.phase = "reuse", !.prior = prior]
      OBVIOUS
  <2>5. /\ g \in Frames /\ Alike(f, g) /\ g.phase = "reuse" /\ g.left = f.left /\ g.unit = f.unit
        /\ g.prior = prior
        /\ g.unpublished = f.unpublished /\ g.result = f.result
      BY <1>3, <2>3, <2>4 DEF Frames, Phases, Alike
  <2>6. FrameOK(g) /\ Work(g)
      BY <1>3, <2>3, <2>5 DEF FrameOK, Work, Alike, Publishing
  <2> QED  BY <1>1, <1>3, <2>1, <2>2, <2>4, <2>5, <2>6, QuietGoes DEF IInv
<1> QED  BY <1>6, <1>7, <1>8, <1>9

\* An update plans again, against the receipt it froze: the days it leaves out are right.
LEMMA RecheckPlanStep ==
    ASSUME IInv, Apart, NEW p \in Procs, RecheckPlan(p)
    PROVE  IInv'
<1>1. Quiet
    BY DEF RecheckPlan, data, evidence, Quiet, IInv, DataInv
<1>2. PICK f : f = Top(p)
    OBVIOUS
<1>3. call[p] # <<>> /\ f \in Frames /\ FrameOK(f) /\ Work(f) /\ f.phase = "recheck"
    BY <1>2, TopFacts DEF RecheckPlan, At, IInv
<1>4. /\ f.item \in Items /\ f.first \in Days /\ f.last \in Days /\ f.first <= f.last
      /\ Vouches(f.item, f.receipt, f.last) /\ f.op = "update"
    BY <1>3 DEF Frames, FrameOK
<1>5. CASE PlanOf(f) = Rebuild(f.left)
  <2>1. PlanOf(f).mode # "blocked" /\ PlanOf(f).days = f.left
      BY <1>5 DEF Rebuild
  <2>2. PICK m \in 0 .. Len(log) : m = receipts[f.receipt].max
      BY <1>4 DEF Vouches, IInv, DataInv, ReceiptsInv, ReceiptOK
  <2>a. ASSUME NEW i \in Items, NEW s, NEW first \in Days, NEW last \in Days, first <= last,
               BuiltBefore(i, m), Plan(i, s, first, last).mode # "blocked",
               NEW d \in (first .. last) \ Plan(i, s, first, last).days
        PROVE  Content(i, d, Len(log)) = Compute(i, s, m, d)
      BY <2>a, PlanLeavesRight DEF IInv
  <2>3. BuiltBefore(f.item, m)
      BY <1>3, <2>2 DEF Work
  <2>4. PICK plan : plan = Plan(f.item, f.spec, f.first, f.last)
      OBVIOUS
  <2>5. plan.mode # "blocked" /\ plan.days = f.left
      BY <2>1, <2>4 DEF PlanOf
  <2>6. ASSUME NEW d \in (f.first .. f.last) \ f.left PROVE Correct(f, d)
    <3>1. d \in (f.first .. f.last) \ Plan(f.item, f.spec, f.first, f.last).days
        BY <2>4, <2>5
    <3>2. Content(f.item, d, Len(log)) = Compute(f.item, f.spec, m, d)
        BY <1>4, <2>3, <2>4, <2>5, <2>a, <3>1
    <3> QED  BY <2>2, <3>2 DEF Correct, Yields
  <2>7. PICK g : g = Advance(f)
      OBVIOUS
  <2>8. g \in Frames /\ FrameOK(g) /\ Work(g)
    <3>1. f.unpublished = {}
        BY <1>3 DEF FrameOK
    <3> QED  BY <1>3, <1>4, <2>6, <2>7, <3>1, AdvanceOK
  <2>9. Set(p, g)
      BY <1>2, <1>5, <2>7 DEF RecheckPlan
  <2> QED  BY <1>1, <1>3, <2>8, <2>9, QuietGoes DEF IInv
<1>6. CASE PlanOf(f) # Rebuild(f.left)
  <2>1. Fail(p)
      BY <1>2, <1>6 DEF RecheckPlan
  <2> QED  BY <1>1, <2>1, QuietFail DEF Fail, IInv
<1> QED  BY <1>5, <1>6

\* What an update finds is settled: the days of its unit that are not what they
\* should be are those it goes on to repair.
LEMMA SettleStep ==
    ASSUME IInv, Apart, NEW p \in Procs, Settle(p)
    PROVE  IInv'
<1>1. Quiet
    BY DEF Settle, data, evidence, Quiet, IInv, DataInv
<1>2. PICK f : f = Top(p)
    OBVIOUS
<1>3. call[p] # <<>> /\ f \in Frames /\ FrameOK(f) /\ Work(f) /\ f.phase = "settle"
    BY <1>2, TopFacts DEF Settle, At, IInv
<1>4. PICK drift : drift = Differs(f, f.unit)
    OBVIOUS
<1>5. drift \subseteq f.unit /\ drift \in SUBSET Days /\ \A d \in f.unit : d \notin drift <=> Correct(f, d)
    BY <1>3, <1>4 DEF Differs, Output, Correct, Yields, Frames
<1>6. PICK phase \in {"certify", "repair"} : phase = IF drift = {} THEN "certify" ELSE "repair"
    OBVIOUS
<1>7. PICK g : g = [f EXCEPT !.phase = phase, !.unpublished = drift]
    OBVIOUS
<1>8. Set(p, g)
    BY <1>2, <1>4, <1>6, <1>7 DEF Settle
<1>9. /\ g \in Frames /\ Alike(f, g) /\ g.phase = phase /\ g.left = f.left /\ g.unit = f.unit
      /\ g.unpublished = drift /\ g.result = f.result
    BY <1>3, <1>5, <1>7 DEF Frames, Phases, Publishing, Alike
<1>10. FrameOK(g)
    BY <1>3, <1>5, <1>6, <1>9 DEF FrameOK, Alike, Publishing
<1>11. Work(g)
  <2>1. phase = "certify" => drift = {}
      BY <1>6
  <2>2. phase = "repair" => Ingested
    <3>1. f.unpublished = {}
        BY <1>3 DEF FrameOK
    <3> QED  BY <1>3, <1>5, <1>6, <3>1 DEF Work
  <2> QED  BY <1>3, <1>5, <1>6, <1>9, <2>1, <2>2, AlikeFacts DEF Work, Alike, Publishing
<1> QED  BY <1>1, <1>3, <1>8, <1>9, <1>10, <1>11, QuietGoes DEF IInv

\* A reuse refreshes the flag.
LEMMA RefreshFlagStep ==
    ASSUME IInv, Apart, NEW p \in Procs, RefreshFlag(p)
    PROVE  IInv'
<1>1. Quiet
    BY DEF RefreshFlag, data, evidence, Quiet, IInv, DataInv
<1>2. call[p] # <<>>
    BY DEF RefreshFlag, At
<1>3. CASE Return(p)
  <2>1. StackOK(p)' /\ (call'[p] # <<>> => Work(Top(p))')
      BY <1>1, <1>2, <1>3, QuietKeeps, OwnReturn DEF IInv
  <2> QED  BY <1>1, <1>3, <2>1, QuietKeeps, MovesBy, Elsewhere, Assemble DEF IInv
<1>4. CASE Fail(p)
    BY <1>1, <1>4, QuietFail DEF Fail, IInv
<1> QED  BY <1>3, <1>4 DEF RefreshFlag

\* A call of resume begins.
LEMMA StartResumeStep ==
    ASSUME IInv, Apart, NEW p \in Procs, NEW i \in Items, StartResume(p, i)
    PROVE  IInv'
<1>1. Quiet /\ call[p] = <<>>
    BY DEF StartResume, data, evidence, Quiet, IInv, DataInv
<1>2. PICK row \in rows[i], r \in Requests :
          /\ Resumable(i, row, r[1], r[2])
          /\ call' = [call EXCEPT ![p] =
               <<[Frame("resume", i, r[1], r[2]) EXCEPT
                    !.phase = "publish", !.todo = {}, !.receipt = row.receipt,
                    !.unit = r[1] .. r[2], !.unpublished = r[1] .. r[2]]>>]
    BY DEF StartResume
<1>3. PICK first \in Days, last \in Days : first = r[1] /\ last = r[2] /\ first <= last
    BY RequestFacts
<1>4. PICK f : f = Frame("resume", i, first, last)
    OBVIOUS
<1>5. f \in Frames /\ FrameOK(f)
    BY <1>3, <1>4, NewFrame DEF IInv
<1>6. PICK k \in Nat : k = row.receipt
    BY DEF IInv, DataInv, RowsInv, RowType
<1>7. Vouches(i, k, last) /\ k <= Len(receipts)
  <2>1. k \in 1 .. Len(receipts) /\ receipts[k].item = i
      BY <1>6 DEF IInv, DataInv, RowsInv, RowOK
  <2>2. receipts[k].cutoff = last /\ last <= last
      BY <1>2, <1>3, <1>6, DayFacts DEF Resumable
  <2> QED  BY <2>1, <2>2, Lengths DEF Vouches, IInv
<1>8. PICK unit \in SUBSET Days : unit = first .. last /\ Contiguous(unit)
  <2>1. Contiguous(first .. last)
      BY <1>3, IntervalContiguous
  <2>2. first .. last \in SUBSET Days
      BY <2>1 DEF Contiguous
  <2> QED  BY <2>1, <2>2
<1>9. PICK g : g = [f EXCEPT !.phase = "publish", !.todo = {}, !.receipt = k,
                             !.unit = unit, !.unpublished = unit]
    OBVIOUS
<1>10. /\ g.op = "resume" /\ g.phase = "publish" /\ g.receipt = k /\ g.unit = unit /\ g.unpublished = unit
       /\ g.item = i /\ g.first = first /\ g.last = last /\ g.left = {}
       /\ g.before = f.before /\ g.result = f.result
    BY <1>4, <1>9 DEF Frame
<1>11. g \in Frames
    BY <1>5, <1>9 DEF Frames, Phases, Publishing
<1>12. f.first = first /\ f.last = last
    BY <1>4 DEF Frame
<1>13. FrameOK(g)
  <2>1. unit # {}
      BY <1>8 DEF Contiguous
  <2> QED  BY <1>3, <1>5, <1>7, <1>8, <1>10, <1>12, <2>1 DEF FrameOK, Publishing
<1>14. Work(g)
    BY <1>10 DEF Work, Publishing
<1>15. call' = [call EXCEPT ![p] = Append(@, g)]
  <2>1. Append(<<>>, g) = <<g>>
      OBVIOUS
  <2>2. call' = [call EXCEPT ![p] = <<g>>]
      BY <1>2, <1>3, <1>4, <1>6, <1>8, <1>9
  <2> QED  BY <1>1, <2>1, <2>2
<1> QED  BY <1>1, <1>11, <1>13, <1>14, <1>15, QuietFrame, QuietPush DEF IInv

\* An initialization begins a unit.
LEMMA InitializeUnitStep ==
    ASSUME IInv, Apart, NEW p \in Procs, InitializeUnit(p)
    PROVE  IInv'
<1>1. Quiet
    BY DEF InitializeUnit, data, evidence, Quiet, IInv, DataInv
<1>2. PICK f : f = Top(p)
    OBVIOUS
<1>3. call[p] # <<>> /\ f \in Frames /\ FrameOK(f) /\ f.phase = "units"
    BY <1>2, TopFacts DEF InitializeUnit, At, IInv
<1>4. Gap(f) # {} /\ Gap(f) \in SUBSET Days /\ Gap(f) \subseteq f.first .. f.last
  <2>1. f.first .. f.last \subseteq Days
      BY <1>3, DayFacts DEF Frames
  <2> QED  BY <1>2, <2>1 DEF InitializeUnit, Gap
<1>5. PICK stop \in FirstRun(Gap(f)) :
          Set(p, [f EXCEPT !.phase = "publish", !.unit = Min(Gap(f)) .. stop,
                           !.unpublished = Min(Gap(f)) .. stop])
    BY <1>2 DEF InitializeUnit
<1>6. PICK first \in Days : first = Min(Gap(f)) /\ \A x \in Gap(f) : first <= x
    BY <1>4, FirstDay
<1>7. stop \in Days /\ first <= stop /\ first .. stop \subseteq Gap(f)
    BY <1>4, <1>6 DEF FirstRun
<1>8. PICK unit \in SUBSET Days : unit = first .. stop /\ Contiguous(unit)
  <2>1. Contiguous(first .. stop)
      BY <1>7, IntervalContiguous
  <2>2. first .. stop \in SUBSET Days
      BY <2>1 DEF Contiguous
  <2> QED  BY <2>1, <2>2
<1>9. PICK g : g = [f EXCEPT !.phase = "publish", !.unit = unit, !.unpublished = unit]
    OBVIOUS
<1>10. /\ g \in Frames /\ Alike(f, g) /\ g.phase = "publish" /\ g.left = f.left /\ g.unit = unit
       /\ g.unpublished = unit /\ g.result = f.result
    BY <1>3, <1>9 DEF Frames, Phases, Publishing, Alike
<1>11. FrameOK(g)
  <2>1. unit # {} /\ unit \subseteq f.first .. f.last
      BY <1>4, <1>7, <1>8 DEF Contiguous
  <2> QED  BY <1>3, <1>8, <1>10, <2>1 DEF FrameOK, Alike, Publishing
<1>12. Work(g)
  <2>1. g.op = "initialize"
      BY <1>3, <1>10 DEF FrameOK, Alike
  <2> QED  BY <1>10, <2>1 DEF Work, Publishing
<1>13. Set(p, g)
    BY <1>5, <1>6, <1>8, <1>9
<1> QED  BY <1>1, <1>3, <1>10, <1>11, <1>12, <1>13, QuietGoes DEF IInv

-----------------------------------------------------------------------------
(* What steps add to the data.                                             *)

\* An entry of the log.
LEMMA LogAppended ==
    ASSUME DataInv, NEW e, EntryOK(e), log' = Append(log, e), receipts' = receipts
    PROVE  /\ Grows /\ LogInv' /\ Len(log') = Len(log) + 1 /\ log'[Len(log) + 1] = e
           /\ \A i : e.node # i => Still(i)
<1>1. /\ IsSeq(log') /\ Len(log') = Len(log) + 1 /\ log'[Len(log) + 1] = e /\ Len(log) \in Nat
      /\ \A k \in 1 .. Len(log) : log'[k] = log[k]
      /\ Extends(log, log')
    BY Appended DEF DataInv, LogInv
<1>2. Grows
    BY <1>1, Appended DEF Grows, DataInv, ReceiptsInv
<1>3. ASSUME NEW k \in 1 .. Len(log') PROVE EntryOK(log[k])'
  <2>1. PICK x : x = log'[k]
      OBVIOUS
  <2>2. EntryOK(x)
      BY <1>1, <2>1 DEF DataInv, LogInv
  <2>3. EntryOK(x)'
      BY <1>2, <2>2, RecordsKept
  <2> QED  BY <2>1, <2>3 DEF EntryOK
<1>4. (Len(log) + 1) .. Len(log') = {Len(log) + 1}
    BY <1>1
<1> QED  BY <1>1, <1>2, <1>3, <1>4 DEF LogInv, Still

\* A receipt, under its identity.
LEMMA ReceiptRegistered ==
    ASSUME DataInv, NEW r, ReceiptOK(r), receipts' = Register(r), log' = log
    PROVE  /\ Grows /\ ReceiptsInv' /\ Identity(r) \in 1 .. Len(receipts') /\ receipts'[Identity(r)] = r
           /\ Identity(r) \in Nat /\ Len(receipts') \in Nat
<1>1. CASE Registered(r)
  <2>1. receipts' = receipts /\ Identity(r) \in 1 .. Len(receipts) /\ receipts[Identity(r)] = r
      BY <1>1 DEF Register, Identity, Registered
  <2>2. Grows
      BY <2>1, Appended DEF Grows, DataInv, LogInv, ReceiptsInv
  <2> QED  BY <2>1, <2>2, DataKept, Lengths
<1>2. CASE ~Registered(r)
  <2>1. receipts' = Append(receipts, r) /\ Identity(r) = Len(receipts) + 1
      BY <1>2 DEF Register, Identity
  <2>2. /\ IsSeq(receipts') /\ Len(receipts') = Len(receipts) + 1 /\ receipts'[Len(receipts) + 1] = r
        /\ Len(receipts) \in Nat
        /\ \A k \in 1 .. Len(receipts) : receipts'[k] = receipts[k]
        /\ Extends(receipts, receipts')
      BY <2>1, Appended DEF DataInv, ReceiptsInv
  <2>3. Grows
      BY <2>2, Appended DEF Grows, DataInv, LogInv
  <2>4. ASSUME NEW k \in 1 .. Len(receipts') PROVE ReceiptOK(receipts[k])'
    <3>1. PICK x : x = receipts'[k]
        OBVIOUS
    <3>2. ReceiptOK(x)
        BY <2>2, <3>1 DEF DataInv, ReceiptsInv
    <3>3. ReceiptOK(x)'
        BY <2>3, <3>2, RecordsKept
    <3> QED  BY <3>1, <3>3 DEF ReceiptOK
  <2> QED  BY <2>1, <2>2, <2>3, <2>4 DEF ReceiptsInv
<1> QED  BY <1>1, <1>2

\* A receipt captured now is sound.
LEMMA CaptureOK ==
    ASSUME DataInv, NEW i \in Items, NEW last \in Days
    PROVE  /\ ReceiptOK(Capture(i, last)) /\ Capture(i, last).item = i
           /\ Capture(i, last).cutoff = last /\ Capture(i, last).max = Len(log)
<1>1. Len(log) \in Nat
    BY Lengths
<1> QED  BY <1>1 DEF Capture, ReceiptOK

\* A build, certified.
LEMMA BuildCertified ==
    ASSUME DataInv, Steady, NEW i \in Items, NEW b, BuildOK(i, b), Certify(i, b)
    PROVE  /\ Grows /\ BuildsInv'
           /\ \A j \in Items : Still(j) /\ (j # i => builds'[j] = builds[j])
<1>1. Grows
    BY Appended DEF Steady, Grows, DataInv, LogInv, ReceiptsInv
<1>2. builds' = [builds EXCEPT ![i] = Append(@, b)] /\ DOMAIN builds = Items
    BY DEF Certify, DataInv, BuildsInv
<1>3. ASSUME NEW j \in Items
      PROVE  IsSeq(builds'[j]) /\ \A k \in 1 .. Len(builds'[j]) : BuildOK(j, builds[j][k])'
  <2>1. CASE j = i
    <3>1. PICK s : s = builds[i]
        OBVIOUS
    <3>2. IsSeq(s) /\ builds'[j] = Append(s, b) /\ \A k \in 1 .. Len(s) : BuildOK(i, s[k])
        BY <1>2, <2>1, <3>1 DEF DataInv, BuildsInv
    <3>3. /\ IsSeq(Append(s, b)) /\ Len(Append(s, b)) = Len(s) + 1 /\ Len(s) \in Nat
          /\ Append(s, b)[Len(s) + 1] = b /\ \A k \in 1 .. Len(s) : Append(s, b)[k] = s[k]
        BY <3>2, Appended
    <3>4. ASSUME NEW k \in 1 .. Len(builds'[j]) PROVE BuildOK(j, builds[j][k])'
      <4>1. PICK x : x = builds'[j][k]
          OBVIOUS
      <4>2. BuildOK(j, x)
          BY <2>1, <3>2, <3>3, <4>1
      <4>3. BuildOK(j, x)'
          BY <1>1, <4>2, CertificateKept
      <4> QED  BY <4>1, <4>3 DEF BuildOK, Certifies
    <3> QED  BY <3>2, <3>3, <3>4
  <2>2. CASE j # i
    <3>1. builds'[j] = builds[j] /\ IsSeq(builds[j])
        BY <1>2, <2>2 DEF DataInv, BuildsInv
    <3>2. ASSUME NEW k \in 1 .. Len(builds'[j]) PROVE BuildOK(j, builds[j][k])'
      <4>1. PICK x : x = builds'[j][k]
          OBVIOUS
      <4>2. BuildOK(j, x)
          BY <3>1, <4>1 DEF DataInv, BuildsInv
      <4>3. BuildOK(j, x)'
          BY <1>1, <4>2, CertificateKept
      <4> QED  BY <4>1, <4>3 DEF BuildOK, Certifies
    <3> QED  BY <3>1, <3>2
  <2> QED  BY <2>1, <2>2
<1>4. ASSUME NEW j \in Items PROVE Still(j) /\ (j # i => builds'[j] = builds[j])
  <2>1. (Len(log) + 1) .. Len(log') = {}
      BY Lengths DEF Steady
  <2> QED  BY <1>2, <2>1 DEF Still
<1> QED  BY <1>1, <1>2, <1>3, <1>4 DEF BuildsInv

\* The first call of an initialization fixes its definition and range.
LEMMA DeclaredFacts ==
    ASSUME DataInv, NEW f \in Frames
    PROVE  /\ Declared(f) \in InitialType
           /\ \A x \in Declared(f).pinned : PinOK(f.item, x)
<1>1. f.item \in Items /\ f.first \in Nat /\ f.last \in Nat /\ f.spec \in Nat
  <2>1. f.item \in Items /\ f.first \in Days /\ f.last \in Days /\ f.spec \in Nat
      BY DEF Frames
  <2> QED  BY <2>1, DayFacts
<1>2. initial[f.item] \in InitialType /\ \A x \in initial[f.item].pinned : PinOK(f.item, x)
    BY <1>1 DEF DataInv, PinsInv
<1>3. CASE initial[f.item].status # "none"
    BY <1>2, <1>3 DEF Declared
<1>4. CASE initial[f.item].status = "none"
  <2>1. Declared(f) = [status |-> "running", spec |-> f.spec, first |-> f.first, last |-> f.last,
                       pinned |-> {}]
      BY <1>4 DEF Declared
  <2>2. {} \in SUBSET PinType /\ "running" \in Status
      BY DEF Status
  <2> QED  BY <1>1, <2>1, <2>2 DEF InitialType
<1> QED  BY <1>3, <1>4

\* An initialization is cancelled before it captured anything.
LEMMA CancelInitializeStep ==
    ASSUME IInv, Apart, NEW p \in Procs, CancelInitialize(p)
    PROVE  IInv'
<1>1. PICK f : f = Top(p)
    OBVIOUS
<1>2. call[p] # <<>> /\ f \in Frames /\ f.item \in Items
    BY <1>1, TopFacts DEF CancelInitialize, At, IInv, Frames
<1>3. UNCHANGED <<spec, log, receipts, builds, rows>>
    BY DEF CancelInitialize, data
<1>4. Grows /\ \A i \in Items : Still(i)
  <2>1. Grows
      BY <1>3, Appended DEF Grows, IInv, DataInv, LogInv, ReceiptsInv
  <2>2. (Len(log) + 1) .. Len(log') = {}
      BY <1>3, Lengths DEF IInv
  <2> QED  BY <2>1, <2>2 DEF Still
<1>5. PICK d : d = Declared(f)
    OBVIOUS
<1>6. d \in InitialType /\ \A x \in d.pinned : PinOK(f.item, x)
    BY <1>2, <1>5, DeclaredFacts DEF IInv
<1>7. initial' = initial \/ initial' = [initial EXCEPT ![f.item] = d]
    BY <1>1, <1>5 DEF CancelInitialize
<1>8. PinsInv'
  <2>1. initial' \in [Items -> InitialType]
      BY <1>2, <1>6, <1>7 DEF IInv, DataInv, PinsInv
  <2>2. ASSUME NEW i \in Items, NEW x \in initial'[i].pinned PROVE PinOK(i, x)'
    <3>1. PinOK(i, x)
        BY <1>2, <1>6, <1>7, <2>2 DEF IInv, DataInv, PinsInv
    <3> QED  BY <1>4, <3>1, RecordsKept DEF IInv
  <2> QED  BY <2>1, <2>2 DEF PinsInv
<1>9. DataInv'
    BY <1>3, <1>4, <1>8, DataKept DEF IInv, DataInv
<1>10. call' = [call EXCEPT ![p] = <<>>]
    BY DEF CancelInitialize, Fail
<1>11. StackOK(p)' /\ call'[p] = <<>> /\ Moves(p)
    BY <1>10, OwnFail DEF IInv, CallInv, Moves
<1> QED  BY <1>3, <1>4, <1>9, <1>11, Elsewhere, Assemble DEF IInv

\* What is pinned for a call is a receipt of the Item that selects all of its range.
LEMMA AdmitInitializeStep ==
    ASSUME IInv, Apart, NEW p \in Procs, AdmitInitialize(p)
    PROVE  IInv'
<1>1. PICK f : f = Top(p)
    OBVIOUS
<1>2. /\ call[p] # <<>> /\ f \in Frames /\ FrameOK(f) /\ f.op = "initialize" /\ f.phase = "parents"
      /\ f.item \in Items /\ f.last \in Days /\ f.first \in Days /\ f.spec \in Nat
    BY <1>1, TopFacts DEF AdmitInitialize, At, IInv, Frames
<1>3. UNCHANGED <<spec, log, builds, rows>>
    BY DEF AdmitInitialize
<1> DEFINE i == f.item
           saved == {k \in 1 .. Len(receipts) : Pin(f, k) \in initial[i].pinned}
           r == Capture(i, f.last)
           k == IF saved # {} THEN Max(saved) ELSE Identity(r)
<1>4. CASE Fail(p) /\ UNCHANGED <<receipts, initial, incomplete>>
  <2>1. Quiet
      BY <1>3, <1>4 DEF Quiet, IInv, DataInv
  <2> QED  BY <1>4, <2>1, QuietFail DEF Fail, IInv
<1>5. CASE /\ receipts' = IF saved # {} THEN receipts ELSE Register(r)
           /\ initial' = [initial EXCEPT ![i] = [Declared(f) EXCEPT !.pinned = @ \cup {Pin(f, k)}]]
           /\ Set(p, [f EXCEPT !.phase = "units", !.receipt = k])
  <2>1. Grows /\ ReceiptsInv' /\ \E m \in Nat : m = k /\ Vouches(i, m, f.last)' /\ m <= Len(receipts')
    <3>1. CASE saved # {}
      <4>1. receipts' = receipts /\ k = Max(saved)
          BY <1>5, <3>1
      <4>2. Grows
          BY <1>3, <4>1, Appended DEF Grows, IInv, DataInv, LogInv, ReceiptsInv
      <4>3. Max(saved) \in saved
        <5>1. saved \in SUBSET (0 .. Len(receipts)) /\ Len(receipts) \in Nat /\ saved \subseteq Nat
            BY Lengths DEF IInv
        <5>2. PICK x \in saved : \A y \in saved : y <= x
          <6> HIDE DEF saved
          <6> QED  BY <3>1, <5>1, NatGreatest
        <5> HIDE DEF saved
        <5> QED  BY <5>1, <5>2 DEF Max
      <4>4. PICK m \in 1 .. Len(receipts) : m = k /\ Pin(f, m) \in initial[i].pinned
          BY <4>1, <4>3
      <4>5. Vouches(i, m, f.last)
        <5>1. PinOK(i, Pin(f, m))
            BY <1>2, <4>4 DEF IInv, DataInv, PinsInv
        <5> QED  BY <5>1 DEF PinOK, Pin
      <4>6. Vouches(i, m, f.last)'
          BY <4>2, <4>5, RecordsKept DEF IInv
      <4>7. m \in Nat /\ m <= Len(receipts')
          BY <4>1, Lengths DEF IInv
      <4>9. ReceiptsInv'
          BY <4>1, <4>2, DataKept DEF IInv
      <4> HIDE DEF k, saved
      <4> QED  BY <4>2, <4>4, <4>6, <4>7, <4>9
    <3>2. CASE saved = {}
      <4>1. receipts' = Register(r) /\ k = Identity(r)
          BY <1>5, <3>2
      <4>2. PICK c : c = r
          OBVIOUS
      <4>3. ReceiptOK(c) /\ c.item = i /\ c.cutoff = f.last
          BY <1>2, <4>2, CaptureOK DEF IInv
      <4>4. /\ Grows /\ ReceiptsInv' /\ Identity(c) \in 1 .. Len(receipts') /\ receipts'[Identity(c)] = c
            /\ Identity(c) \in Nat /\ Len(receipts') \in Nat
          BY <1>3, <4>1, <4>2, <4>3, ReceiptRegistered DEF IInv
      <4>5. PICK m : m = k
          OBVIOUS
      <4>6. m = Identity(c)
          BY <4>1, <4>2, <4>5
      <4>7. f.last <= f.last /\ m \in 1 .. Len(receipts') /\ receipts'[m] = c /\ m \in Nat /\ m <= Len(receipts')
        <5>1. f.last \in Nat
            BY <1>2, DayFacts
        <5> HIDE DEF k, saved, r
        <5>2. m \in 1 .. Len(receipts') /\ receipts'[m] = c
            BY <4>4, <4>6
        <5> QED  BY <4>4, <5>1, <5>2
      <4>8. Vouches(i, m, f.last)'
        <5> HIDE DEF k, saved, r
        <5> QED  BY <4>3, <4>7 DEF Vouches
      <4> HIDE DEF k, saved, r
      <4> QED  BY <4>4, <4>5, <4>7, <4>8
    <3> QED  BY <3>1, <3>2
  <2>2. PICK m \in Nat : m = k /\ Vouches(i, m, f.last)' /\ m <= Len(receipts')
      BY <2>1
  <2> HIDE DEF k, saved, r
  <2>4. PICK d : d = Declared(f)
      OBVIOUS
  <2>5. d \in InitialType /\ \A x \in d.pinned : PinOK(i, x)
      BY <1>2, <2>4, DeclaredFacts DEF IInv
  <2>6. PICK pin : pin = Pin(f, m)
      OBVIOUS
  <2>7. pin \in PinType /\ pin.last = f.last /\ pin.receipt = m
      BY <1>2, <2>2, <2>6 DEF Pin, PinType
  <2>8. PICK e : e = [d EXCEPT !.pinned = @ \cup {pin}]
      OBVIOUS
  <2>9. e \in InitialType /\ e.pinned = d.pinned \cup {pin}
      BY <2>5, <2>7, <2>8 DEF InitialType
  <2>10. initial' = [initial EXCEPT ![i] = e]
      BY <1>5, <2>2, <2>4, <2>6, <2>8
  <2>11. PinsInv'
    <3>1. initial' \in [Items -> InitialType]
        BY <1>2, <2>9, <2>10 DEF IInv, DataInv, PinsInv
    <3>2. ASSUME NEW j \in Items, NEW x \in initial'[j].pinned PROVE PinOK(j, x)'
      <4>1. CASE j = i /\ x = pin
          BY <2>2, <2>7, <4>1 DEF PinOK, Vouches
      <4>2. CASE ~(j = i /\ x = pin)
        <5>1. PinOK(j, x)
            BY <1>2, <2>5, <2>9, <2>10, <3>2, <4>2 DEF IInv, DataInv, PinsInv
        <5> QED  BY <2>1, <5>1, RecordsKept DEF IInv
      <4> QED  BY <4>1, <4>2
    <3> QED  BY <3>1, <3>2 DEF PinsInv
  <2>12. DataInv'
      BY <1>3, <2>1, <2>11, DataKept DEF IInv, DataInv
  <2>13. PICK g : g = [f EXCEPT !.phase = "units", !.receipt = m]
      OBVIOUS
  <2>14. Set(p, g)
      BY <1>5, <2>2, <2>13
  <2>15. /\ g \in Frames /\ g.op = f.op /\ g.item = f.item /\ g.first = f.first /\ g.last = f.last
         /\ g.before = f.before /\ g.phase = "units" /\ g.left = f.left /\ g.unit = f.unit
         /\ g.unpublished = f.unpublished /\ g.result = f.result /\ g.receipt = m
      BY <1>2, <2>13 DEF Frames, Phases
  <2>16. FrameOK(g)'
    <3>1. FrameOK(f)'
        BY <1>2, <2>1, FrameKept DEF IInv
    <3> QED  BY <1>2, <2>2, <2>15, <3>1 DEF FrameOK, Publishing, Vouches
  <2>17. Work(g)'
      BY <2>15 DEF Work, Publishing
  <2>18. StackOK(p)' /\ Work(Top(p))'
      BY <1>2, <2>1, <2>14, <2>15, <2>16, <2>17, OwnSet DEF IInv
  <2>19. \A j \in Items : Still(j) /\ builds'[j] = builds[j]
    <3>1. (Len(log) + 1) .. Len(log') = {}
        BY <1>3, Lengths DEF IInv
    <3> QED  BY <1>3, <3>1 DEF Still
  <2> QED  BY <2>1, <2>12, <2>14, <2>18, <2>19, MovesBy, Elsewhere, Assemble DEF IInv
<1> QED  BY <1>1, <1>4, <1>5 DEF AdmitInitialize

-----------------------------------------------------------------------------
(* What is published around the calls.                                     *)

\* One day of a node is published by nobody's call.
LEMMA OutsideEntry ==
    ASSUME DataInv, NEW n \in Nodes, NEW d \in Days, NEW v,
           log' = Append(log, [kind |-> "commit", node |-> n, at |-> [e \in {d} |-> v], receipt |-> 0]),
           UNCHANGED <<spec, receipts, builds, rows, initial>>
    PROVE  /\ DataInv' /\ Grows /\ Len(log') = Len(log) + 1
           /\ \A i : i # n => Still(i)
           /\ log'[Len(log) + 1].node = n /\ log'[Len(log) + 1].receipt = 0
           /\ \A x : Touch(log', Len(log) + 1, n, x) <=> x = d
<1>1. PICK e : e = [kind |-> "commit", node |-> n, at |-> [y \in {d} |-> v], receipt |-> 0]
    OBVIOUS
<1>2. e.kind = "commit" /\ e.node = n /\ DOMAIN e.at = {d} /\ e.receipt = 0
    BY <1>1
<1>3. EntryOK(e)
    BY <1>2, Lengths DEF EntryOK
<1>4. log' = Append(log, e)
    BY <1>1
<1>5. /\ Grows /\ LogInv' /\ Len(log') = Len(log) + 1 /\ log'[Len(log) + 1] = e
      /\ \A i : e.node # i => Still(i)
    BY <1>3, <1>4, LogAppended
<1>6. DataInv'
    BY <1>5, DataKept DEF DataInv
<1> QED  BY <1>2, <1>5, <1>6 DEF Touch

\* A raw dataset publishes: no operation works on it.
LEMMA RawCommitStep ==
    ASSUME IInv, NEW r \in Raws, RawCommit(r)
    PROVE  IInv'
<1>1. PICK d \in Days : Commit(r, [e \in {d} |-> [by |-> 0, of |-> <<Len(log) + 1>>]], 0)
    BY DEF RawCommit
<1>2. PICK v : v = [by |-> 0, of |-> <<Len(log) + 1>>]
    OBVIOUS
<1>3. log' = Append(log, [kind |-> "commit", node |-> r, at |-> [e \in {d} |-> v], receipt |-> 0])
    BY <1>1, <1>2 DEF Commit
<1>4. UNCHANGED <<spec, receipts, builds, rows, initial, call>>
    BY DEF RawCommit, evidence
<1>5. DataInv' /\ Grows /\ \A i : i # r => Still(i)
    BY <1>3, <1>4, OutsideEntry DEF IInv, Nodes
<1>6. \A q \in Procs : Busy(q) => Top(q).item \in Items /\ Top(q).item # r
    BY TopFacts, DeclarationAssumption DEF Busy, Frames, IInv
<1> QED  BY <1>4, <1>5, <1>6, CallsKept DEF IInv

\* A row from outside is written over by the operation that works on the Item, or
\* makes it fail: it covers the rows it is about to certify.
LEMMA IngestWork ==
    ASSUME DataInv, NEW f \in Frames, FrameOK(f), Work(f), f.phase # "repair",
           Grows, Len(log') = Len(log) + 1, UNCHANGED <<receipts, builds>>,
           log'[Len(log) + 1].node = f.item, log'[Len(log) + 1].receipt = 0,
           NEW d \in Days, \A x : Touch(log', Len(log) + 1, f.item, x) <=> x = d
    PROVE  Work(f)'
<1>1. /\ Len(log) \in Nat /\ f.before \in Nat /\ f.before <= Len(log) /\ f.result \in Nat
      /\ f.result <= Len(log) /\ (Len(log) + 1) .. Len(log') = {Len(log) + 1}
    BY Lengths DEF Frames, FrameOK
<1>2. f.phase \in Publishing \cup {"recheck", "finish"} =>
          f.receipt \in 1 .. Len(receipts) /\ f.receipt # 0
    BY DEF FrameOK, Vouches
<1>3. f.phase \in Publishing \cup {"finish"} => Overwritten(f)'
  <2>1. HAVE f.phase \in Publishing \cup {"finish"}
  <2>2. Len(log) + 1 \in (f.before + 1) .. Len(log')
      BY <1>1
  <2> QED  BY <1>2, <2>1, <2>2 DEF Overwritten
<1>4. ASSUME f.phase = "certify", NEW x \in f.unit
      PROVE  Correct(f, x)' \/ LastEvent(f.item, x, Len(log))' > f.result
  <2>1. CASE x = d
    <3>1. Len(log') \in Nat /\ Len(log') > 0 /\ Touch(log', Len(log'), f.item, x)
        BY <1>1, <2>1
    <3>2. LastIn(log', f.item, x, Len(log')) = Len(log) + 1
        BY <3>1, TouchedNow
    <3>3. LastEvent(f.item, x, Len(log))' = Len(log) + 1
        BY <3>2, NamedNext
    <3> QED  BY <1>1, <3>3
  <2>2. CASE x # d
    <3>1. \A j \in (Len(log) + 1) .. Len(log') : ~Touch(log', j, f.item, x)
        BY <1>1, <2>2
    <3>2. /\ Correct(f, x)' <=> Correct(f, x)
          /\ LastEvent(f.item, x, Len(log))' = LastEvent(f.item, x, Len(log))
      <4>1. f.receipt \in 1 .. Len(receipts)
          BY <1>2, <1>4 DEF Publishing
      <4> QED  BY <3>1, <4>1, OutputKept DEF Correct
    <3> QED  BY <1>4, <3>2 DEF Work
  <2> QED  BY <2>1, <2>2
<1>5. f.phase = "recheck" => BuiltBefore(f.item, receipts[f.receipt].max)'
    BY DEF Work, BuiltBefore
<1>6. f.phase = "reuse" => f.prior \in 1 .. Len(builds'[f.item])
    BY DEF Work
<1>7. f.phase = "certify" => f.phase \in Publishing \cup {"finish"}
    BY DEF Publishing
<1>8. Ingested'
  <2>1. Len(log) + 1 \in 1 .. Len(log') /\ f.item \in Items
      BY <1>1 DEF Frames
  <2> QED  BY <2>1 DEF Ingested
<1> QED  BY <1>3, <1>4, <1>5, <1>6, <1>7, <1>8 DEF Work

\* A row is ingested into an Item.
LEMMA IngestStep ==
    ASSUME IInv, NEW i \in Items, Ingest(i), RepairAlone
    PROVE  IInv'
<1>1. PICK d \in Days : Commit(i, [e \in {d} |-> [by |-> 0, of |-> <<Len(log) + 1>>]], 0)
    BY DEF Ingest
<1>2. PICK v : v = [by |-> 0, of |-> <<Len(log) + 1>>]
    OBVIOUS
<1>3. log' = Append(log, [kind |-> "commit", node |-> i, at |-> [e \in {d} |-> v], receipt |-> 0])
    BY <1>1, <1>2 DEF Commit
<1>4. UNCHANGED <<spec, receipts, builds, rows, initial, call>>
    BY DEF Ingest, evidence
<1>5. /\ DataInv' /\ Grows /\ Len(log') = Len(log) + 1 /\ \A j : j # i => Still(j)
      /\ log'[Len(log) + 1].node = i /\ log'[Len(log) + 1].receipt = 0
      /\ \A x : Touch(log', Len(log) + 1, i, x) <=> x = d
    BY <1>3, <1>4, OutsideEntry DEF IInv, Nodes
<1>6. ASSUME NEW q \in Procs, Busy(q), Top(q).item = i PROVE Work(Top(q))'
  <2>1. PICK f : f = Top(q)
      OBVIOUS
  <2>2. f \in Frames /\ FrameOK(f) /\ Work(f) /\ f.item = i
      BY <1>6, <2>1, TopFacts DEF Busy, IInv
  <2>3. f.phase # "repair"
      BY <1>6, <2>1 DEF RepairAlone, At, Busy
  <2>4. Work(f)'
      BY <1>4, <1>5, <2>2, <2>3, IngestWork DEF IInv
  <2>5. Top(q)' = f
      BY <1>4, <2>1 DEF Top
  <2> QED  BY <2>4, <2>5 DEF Work
<1>7. ASSUME NEW q \in Procs, Busy(q), Top(q).item # i
      PROVE  Still(Top(q).item) /\ builds'[Top(q).item] = builds[Top(q).item]
    BY <1>4, <1>5, <1>7
<1> QED  BY <1>4, <1>5, <1>6, <1>7, CallsKept DEF IInv

-----------------------------------------------------------------------------
(* Freezing inputs.                                                        *)

\* A frozen receipt of the operation's Item selects all up to its last day, and
\* everything any build of the Item was made of.
LEMMA RegisteredFrame ==
    ASSUME IInv, NEW f \in Frames, FrameOK(f), receipts' = Register(Capture(f.item, f.last)), log' = log,
           NEW g \in Frames, g.item = f.item, g.first = f.first, g.last = f.last, g.op = f.op,
           g.receipt = Identity(Capture(f.item, f.last)), g.before = f.before, g.result = f.result,
           g.left = f.left, g.unit = f.unit, g.unpublished = f.unpublished,
           g.phase \in {"recheck", "rebind"}, f.op = "update", f.phase \notin {"publish", "repair"}
    PROVE  /\ Grows /\ ReceiptsInv' /\ FrameOK(g)'
           /\ builds' = builds => BuiltBefore(g.item, receipts[g.receipt].max)'
<1>1. PICK c : c = Capture(f.item, f.last)
    OBVIOUS
<1>2. ReceiptOK(c) /\ c.item = f.item /\ c.cutoff = f.last /\ c.max = Len(log)
    BY <1>1, CaptureOK DEF IInv, Frames
<1>3. /\ Grows /\ ReceiptsInv' /\ Identity(c) \in 1 .. Len(receipts') /\ receipts'[Identity(c)] = c
      /\ Len(receipts') \in Nat
    BY <1>1, <1>2, ReceiptRegistered DEF IInv
<1>4. PICK k : k = g.receipt
    OBVIOUS
<1>5. k \in 1 .. Len(receipts') /\ receipts'[k] = c
    BY <1>1, <1>3, <1>4
<1>6. f.last <= f.last
  <2>1. f.last \in Days
      BY DEF Frames
  <2>2. f.last \in Nat
      BY <2>1, DayFacts
  <2> QED  BY <2>2
<1>7. Vouches(g.item, g.receipt, g.last)'
    BY <1>2, <1>4, <1>5, <1>6 DEF Vouches
<1>8. FrameOK(f)'
    BY <1>3, FrameKept DEF IInv
<1>9. g.receipt <= Len(receipts')
    BY <1>3, <1>4, <1>5
<1>10. FrameOK(g)'
    BY <1>7, <1>8, <1>9 DEF FrameOK, Publishing
<1>11. builds' = builds => BuiltBefore(g.item, receipts[g.receipt].max)'
  <2>1. HAVE builds' = builds
  <2>2. ASSUME NEW j \in 1 .. Len(builds[f.item])
        PROVE  receipts'[builds[f.item][j].receipt].max <= Len(log)
    <3>1. PICK b : b = builds[f.item][j]
        OBVIOUS
    <3>2. b.receipt \in 1 .. Len(receipts)
        BY <3>1 DEF Frames, IInv, DataInv, BuildsInv, BuildOK, Vouches
    <3>3. receipts'[b.receipt] = receipts[b.receipt] /\ receipts[b.receipt].max \in 0 .. Len(log)
        BY <1>3, <3>2, GrowsFacts DEF IInv, DataInv, ReceiptsInv, ReceiptOK
    <3> QED  BY <3>1, <3>3, Lengths DEF IInv
  <2> QED  BY <1>2, <1>4, <1>5, <2>1, <2>2 DEF BuiltBefore
<1> QED  BY <1>3, <1>10, <1>11

\* An update freezes its inputs.
LEMMA FreezeInputsStep ==
    ASSUME IInv, Apart, NEW p \in Procs, FreezeInputs(p)
    PROVE  IInv'
<1>1. PICK f : f = Top(p)
    OBVIOUS
<1>2. call[p] # <<>> /\ f \in Frames /\ FrameOK(f) /\ f.phase = "freeze" /\ f.op = "update"
  <2>1. call[p] # <<>> /\ f \in Frames /\ FrameOK(f) /\ f.phase = "freeze"
      BY <1>1, TopFacts DEF FreezeInputs, At, IInv
  <2> QED  BY <2>1 DEF FrameOK
<1>3. UNCHANGED <<spec, log, builds, rows, initial>> /\ receipts' = Register(Capture(f.item, f.last))
    BY <1>1 DEF FreezeInputs, data
<1>4. PICK k : k = Identity(Capture(f.item, f.last))
    OBVIOUS
<1>5. k \in Nat
    BY <1>2, <1>3, <1>4, CaptureOK, ReceiptRegistered DEF IInv, Frames
<1>6. PICK g : g = [f EXCEPT !.phase = "recheck", !.receipt = k]
    OBVIOUS
<1>7. /\ g \in Frames /\ g.op = f.op /\ g.item = f.item /\ g.first = f.first /\ g.last = f.last
      /\ g.before = f.before /\ g.phase = "recheck" /\ g.left = f.left /\ g.unit = f.unit
      /\ g.unpublished = f.unpublished /\ g.result = f.result /\ g.receipt = k
    BY <1>2, <1>5, <1>6 DEF Frames, Phases
<1>8. /\ Grows /\ ReceiptsInv' /\ FrameOK(g)'
      /\ BuiltBefore(g.item, receipts[g.receipt].max)'
    BY <1>2, <1>3, <1>4, <1>7, RegisteredFrame
<1>9. Work(g)'
    BY <1>7, <1>8 DEF Work, Publishing
<1>10. Set(p, g)
    BY <1>1, <1>4, <1>6 DEF FreezeInputs
<1>11. DataInv'
    BY <1>3, <1>8, DataKept DEF IInv, DataInv
<1>12. StackOK(p)' /\ Work(Top(p))'
    BY <1>2, <1>7, <1>8, <1>9, <1>10, OwnSet DEF IInv
<1>13. \A j \in Items : Still(j) /\ builds'[j] = builds[j]
  <2>1. (Len(log) + 1) .. Len(log') = {}
      BY <1>3, Lengths DEF IInv
  <2> QED  BY <1>3, <2>1 DEF Still
<1> QED  BY <1>8, <1>10, <1>11, <1>12, <1>13, MovesBy, Elsewhere, Assemble DEF IInv

\* A reuse keeps the receipt of the build it found, or freezes another.
LEMMA DecideReuseStep ==
    ASSUME IInv, Apart, NEW p \in Procs, DecideReuse(p)
    PROVE  IInv'
<1>1. PICK f : f = Top(p)
    OBVIOUS
<1>2. /\ call[p] # <<>> /\ f \in Frames /\ FrameOK(f) /\ Work(f) /\ f.phase = "reuse" /\ f.op = "update"
  <2>1. call[p] # <<>> /\ f \in Frames /\ FrameOK(f) /\ Work(f) /\ f.phase = "reuse"
      BY <1>1, TopFacts DEF DecideReuse, At, IInv
  <2> QED  BY <2>1 DEF FrameOK
<1>3. UNCHANGED <<spec, log, builds, rows, initial>>
    BY DEF DecideReuse, data
<1>4. CASE CurrentReceipt[builds[f.item][f.prior].receipt]
  <2>1. PICK k : k = builds[f.item][f.prior].receipt
      OBVIOUS
  <2>2. k \in Nat /\ k <= Len(receipts)
    <3>1. BuildOK(f.item, builds[f.item][f.prior])
        BY <1>2 DEF Work, Frames, IInv, DataInv, BuildsInv
    <3>2. k \in 1 .. Len(receipts)
        BY <2>1, <3>1 DEF BuildOK, Vouches
    <3> QED  BY <3>2, Lengths DEF IInv
  <2>3. PICK g : g = [f EXCEPT !.phase = "refresh", !.receipt = k]
      OBVIOUS
  <2>4. /\ g \in Frames /\ g.op = f.op /\ g.item = f.item /\ g.first = f.first /\ g.last = f.last
        /\ g.before = f.before /\ g.phase = "refresh" /\ g.left = f.left /\ g.unit = f.unit
        /\ g.unpublished = f.unpublished /\ g.result = f.result /\ g.receipt = k
      BY <1>2, <2>2, <2>3 DEF Frames, Phases
  <2>5. FrameOK(g) /\ Work(g)
      BY <1>2, <2>2, <2>4 DEF FrameOK, Work, Publishing
  <2>6. Set(p, g) /\ receipts' = receipts
      BY <1>1, <1>4, <2>1, <2>3 DEF DecideReuse
  <2>7. Quiet
      BY <1>3, <2>6 DEF Quiet, IInv, DataInv
  <2> QED  BY <1>2, <2>4, <2>5, <2>6, <2>7, QuietGoes DEF IInv
<1>5. CASE ~CurrentReceipt[builds[f.item][f.prior].receipt]
  <2>1. receipts' = Register(Capture(f.item, f.last))
      BY <1>1, <1>5 DEF DecideReuse
  <2>2. PICK k : k = Identity(Capture(f.item, f.last))
      OBVIOUS
  <2>3. k \in Nat
      BY <1>2, <1>3, <2>1, <2>2, CaptureOK, ReceiptRegistered DEF IInv, Frames
  <2>4. PICK g : g = [f EXCEPT !.phase = "rebind", !.receipt = k]
      OBVIOUS
  <2>5. /\ g \in Frames /\ g.op = f.op /\ g.item = f.item /\ g.first = f.first /\ g.last = f.last
        /\ g.before = f.before /\ g.phase = "rebind" /\ g.left = f.left /\ g.unit = f.unit
        /\ g.unpublished = f.unpublished /\ g.result = f.result /\ g.receipt = k
      BY <1>2, <2>3, <2>4 DEF Frames, Phases
  <2>6. Grows /\ ReceiptsInv' /\ FrameOK(g)'
      BY <1>2, <1>3, <2>1, <2>2, <2>5, RegisteredFrame
  <2>7. Work(g)'
      BY <2>5 DEF Work, Publishing
  <2>8. Set(p, g)
      BY <1>1, <1>5, <2>2, <2>4 DEF DecideReuse
  <2>9. DataInv'
      BY <1>3, <2>6, DataKept DEF IInv, DataInv
  <2>10. StackOK(p)' /\ Work(Top(p))'
      BY <1>2, <2>5, <2>6, <2>7, <2>8, OwnSet DEF IInv
  <2>11. \A j \in Items : Still(j) /\ builds'[j] = builds[j]
    <3>1. (Len(log) + 1) .. Len(log') = {}
        BY <1>3, Lengths DEF IInv
    <3> QED  BY <1>3, <3>1 DEF Still
  <2> QED  BY <2>6, <2>8, <2>9, <2>10, <2>11, MovesBy, Elsewhere, Assemble DEF IInv
<1> QED  BY <1>4, <1>5

-----------------------------------------------------------------------------
(* Publishing.                                                             *)

\* The last commit of an Item is one of its commits, or none.
LEMMA ResultFacts ==
    ASSUME DataInv, NEW n
    PROVE  ResultCommit(n) \in 0 .. Len(log)
<1> DEFINE T == {0} \cup Commits(n, Len(log))
<1>1. T \in SUBSET (0 .. Len(log)) /\ T # {} /\ Len(log) \in Nat /\ T \subseteq Nat
    BY Lengths DEF Commits
<1>2. PICK x \in T : \A y \in T : y <= x
  <2> HIDE DEF T
  <2> QED  BY <1>1, NatGreatest
<1>3. Max(T) \in T
  <2> HIDE DEF T
  <2> QED  BY <1>1, <1>2 DEF Max
<1>4. Max(T) \in 0 .. Len(log)
  <2> HIDE DEF T
  <2> QED  BY <1>1, <1>3
<1> QED  BY <1>4 DEF ResultCommit

\* A publication by an operation: what it wrote is what it should be, and what it
\* did not write is what it was.
LEMMA Rewritten ==
    ASSUME DataInv, NEW f \in Frames, f.receipt \in 1 .. Len(receipts),
           NEW days \in SUBSET Days, NEW e, Grows, log' = Append(log, e),
           Len(log') = Len(log) + 1, log'[Len(log) + 1] = e, receipts' = receipts,
           e.node = f.item, DOMAIN e.at = Differs(f, days),
           e.kind = "commit" \/ Differs(f, days) = {},
           \A d \in Differs(f, days) : e.at[d] = Output(f, d)
    PROVE  \A d : d \in days \/ Correct(f, d) => Correct(f, d)'
<1>1. PICK m : m = receipts[f.receipt].max
    OBVIOUS
<1>2. m \in 0 .. Len(log) /\ m \in Nat /\ Len(log) \in Nat /\ Len(log') \in Nat /\ m <= Len(log)
    BY <1>1, Lengths DEF DataInv, ReceiptsInv, ReceiptOK
<1>3. (Len(log) + 1) .. Len(log') = {Len(log) + 1}
    BY <1>2
<1>4. ASSUME NEW d \in Differs(f, days) PROVE Correct(f, d)'
  <2>1. Touch(log', Len(log'), f.item, d)
      BY <1>4 DEF Touch
  <2>2. ContentIn(log', f.item, d, Len(log')) = Output(f, d)
    <3>1. Len(log') \in Nat /\ Len(log') > 0
        BY <1>2
    <3>2. ContentIn(log', f.item, d, Len(log')) = log'[Len(log')].at[d]
      <4>1. LastIn(log', f.item, d, Len(log')) = Len(log')
          BY <2>1, <3>1, TouchedNow
      <4> QED  BY <3>1, <4>1 DEF ContentIn
    <3>3. log'[Len(log')].at[d] = e.at[d] /\ e.at[d] = Output(f, d)
        BY <1>4
    <3> QED  BY <3>2, <3>3
  <2>3. Output(f, d) = ComputeIn(log, f.item, f.spec, m, d)
      BY <1>1, Named DEF Output
  <2>4. ComputeIn(log, f.item, f.spec, m, d) = ComputeIn(log', f.item, f.spec, m, d)
    <3>1. Agree(log, log', m)
        BY <1>2, GrowsFacts DEF Agree
    <3> QED  BY <1>2, <3>1, SameInputs
  <2>5. YieldsIn(log', receipts', f.item, f.spec, f.receipt, d)
      BY <1>1, <2>2, <2>3, <2>4 DEF YieldsIn
  <2> QED  BY <2>5, NamedNext DEF Correct
<1>5. ASSUME NEW d, d \notin Differs(f, days), Correct(f, d) PROVE Correct(f, d)'
  <2>1. ~Touch(log', Len(log) + 1, f.item, d)
      BY <1>5 DEF Touch
  <2>2. \A j \in (Len(log) + 1) .. Len(log') : ~Touch(log', j, f.item, d)
      BY <1>3, <2>1
  <2> QED  BY <1>5, <2>2, OutputKept DEF Correct
<1>6. ASSUME NEW d \in days, d \notin Differs(f, days) PROVE Correct(f, d)
    BY <1>6 DEF Differs, Output, Correct, Yields
<1> QED  BY <1>4, <1>5, <1>6

\* Rows of a unit are published: those days are right from then on.
LEMMA PublishStep ==
    ASSUME IInv, Apart, NEW p \in Procs, NEW days, NEW phase \in {"settle", "certify"},
           call[p] # <<>>, Top(p).phase \in {"publish", "repair"},
           days \subseteq Top(p).unpublished, days # {},
           phase = "settle" <=> Top(p).phase = "publish",
           phase = "certify" => days = Top(p).unpublished,
           Publish(p, days, phase), UNCHANGED <<spec, receipts, builds, initial>>
    PROVE  IInv'
<1>1. PICK f : f = Top(p)
    OBVIOUS
<1>2. f \in Frames /\ FrameOK(f) /\ Work(f) /\ f.phase \in {"publish", "repair"}
    BY <1>1, TopFacts DEF IInv
<1>3. /\ f.item \in Items /\ f.spec \in Nat /\ f.receipt \in 1 .. Len(receipts) /\ f.receipt \in Nat
      /\ receipts[f.receipt].item = f.item
    BY <1>2 DEF Frames, FrameOK, Vouches, Publishing
<1>4. days \in SUBSET Days /\ days \subseteq f.unit /\ days \subseteq f.unpublished
    BY <1>1, <1>2 DEF Frames, FrameOK
<1>5. CASE Fail(p) /\ UNCHANGED <<log, incomplete, rows>>
  <2>1. Quiet
      BY <1>5 DEF Quiet, IInv, DataInv
  <2> QED  BY <1>5, <2>1, QuietFail DEF Fail, IInv
<1>6. CASE ~Fail(p) \/ ~UNCHANGED <<log, incomplete, rows>>
  <2>1. PICK changed : changed = Differs(f, days)
      OBVIOUS
  <2>2. changed \in SUBSET Days /\ changed \subseteq days
      BY <1>4, <2>1 DEF Differs
  <2>3. PICK e : /\ log' = Append(log, e) /\ e.node = f.item /\ e.receipt = f.receipt
                 /\ e.kind \in {"commit", "check"} /\ DOMAIN e.at = changed
                 /\ e.kind = "commit" \/ changed = {}
                 /\ \A d \in changed : e.at[d] = Output(f, d)
    <3>1. CASE changed # {}
      <4>1. PICK at : at = [d \in changed |-> Output(f, d)]
          OBVIOUS
      <4>2. PICK e : e = [kind |-> "commit", node |-> f.item, at |-> at, receipt |-> f.receipt]
          OBVIOUS
      <4>3. log' = Append(log, e)
          BY <1>1, <1>6, <2>1, <3>1, <4>1, <4>2 DEF Publish, Commit
      <4>4. DOMAIN at = changed /\ \A d \in changed : at[d] = Output(f, d)
          BY <4>1
      <4>5. e.kind = "commit" /\ e.node = f.item /\ e.at = at /\ e.receipt = f.receipt
          BY <4>2
      <4> QED  BY <4>3, <4>4, <4>5
    <3>2. CASE changed = {}
      <4>1. PICK e : e = [kind |-> "check", node |-> f.item, at |-> <<>>, receipt |-> f.receipt]
          OBVIOUS
      <4>2. log' = Append(log, e)
          BY <1>1, <1>6, <2>1, <3>2, <4>1 DEF Publish
      <4>3. DOMAIN <<>> = {}
          OBVIOUS
      <4>4. e.kind = "check" /\ e.node = f.item /\ e.at = <<>> /\ e.receipt = f.receipt
          BY <4>1
      <4> QED  BY <3>2, <4>2, <4>3, <4>4
    <3> QED  BY <3>1, <3>2
  <2>4. EntryOK(e)
      BY <1>3, <2>2, <2>3 DEF EntryOK, Nodes
  <2>5. /\ Grows /\ LogInv' /\ Len(log') = Len(log) + 1 /\ log'[Len(log) + 1] = e
        /\ \A i : i # f.item => Still(i)
      BY <2>3, <2>4, LogAppended DEF IInv
  <2>6. RowsInv'
    <3>1. PICK row : row = [spec |-> f.spec, receipt |-> f.receipt, first |-> Min(days), last |-> Max(days)]
        OBVIOUS
    <3>2. rows' = [rows EXCEPT ![f.item] = @ \cup {row}]
        BY <1>1, <1>6, <3>1 DEF Publish
    <3>3. Min(days) \in Days /\ Max(days) \in Days
        BY <1>4, FirstDay, LastOfDays
    <3>4. row \in RowType /\ row.receipt = f.receipt
        BY <1>3, <3>1, <3>3 DEF RowType
    <3>5. rows' \in [Items -> SUBSET RowType]
        BY <1>3, <3>2, <3>4 DEF IInv, DataInv, RowsInv
    <3>6. ASSUME NEW i \in Items, NEW r \in rows'[i] PROVE RowOK(i, r)'
      <4>1. RowOK(i, r)
          BY <1>3, <3>2, <3>4, <3>6 DEF IInv, DataInv, RowsInv, RowOK
      <4> QED  BY <2>5, <4>1, RecordsKept DEF IInv
    <3> QED  BY <3>5, <3>6 DEF RowsInv
  <2>7. DataInv'
      BY <2>5, <2>6, DataKept DEF IInv, DataInv
  <2>8. PICK next : next = IF f.unpublished = days THEN phase ELSE "publish"
      OBVIOUS
  <2>9. PICK result : result = IF changed # {} THEN Len(log) + 1 ELSE ResultCommit(f.item)
      OBVIOUS
  <2>10. result \in Nat /\ result <= Len(log')
    <3>1. Len(log) \in Nat /\ ResultCommit(f.item) \in 0 .. Len(log)
        BY Lengths, ResultFacts DEF IInv
    <3> QED  BY <2>5, <2>9, <3>1
  <2>11. PICK rest : rest = f.unpublished \ days
      OBVIOUS
  <2>12. PICK g : g = [f EXCEPT !.unpublished = rest, !.result = result, !.phase = next]
      OBVIOUS
  <2>13. Set(p, g)
    <3>1. Set(p, [f EXCEPT !.unpublished = @ \ days,
                           !.result = IF changed # {} THEN Len(log) + 1 ELSE ResultCommit(f.item),
                           !.phase = IF f.unpublished = days THEN phase ELSE "publish"])
        BY <1>1, <1>6, <2>1 DEF Publish
    <3> QED  BY <2>8, <2>9, <2>11, <2>12, <3>1
  <2>14. rest \in SUBSET Days /\ rest \subseteq f.unit /\ next \in {"publish", "settle", "certify"}
      BY <1>2, <2>8, <2>11 DEF Frames, FrameOK
  <2>15. /\ g \in Frames /\ Alike(f, g) /\ g.phase = next /\ g.left = f.left /\ g.unit = f.unit
         /\ g.unpublished = rest /\ g.result = result
      BY <1>2, <2>10, <2>12, <2>14 DEF Frames, Phases, Publishing, Alike
  <2>16. FrameOK(g)'
    <3>1. FrameOK(f)'
        BY <1>2, <2>5, FrameKept DEF IInv
    <3>2. next = "publish" <=> rest # {}
      <4>1. rest = {} <=> f.unpublished = days
          BY <1>4, <2>11
      <4> QED  BY <2>8, <4>1
    <3> QED  BY <1>2, <2>10, <2>14, <2>15, <3>1, <3>2 DEF FrameOK, Alike, Publishing, Vouches
  <2>17. \A d : d \in days \/ Correct(f, d) => Correct(f, d)'
      BY <1>2, <1>3, <1>4, <2>1, <2>3, <2>5, Rewritten DEF IInv
  <2>18. \A d : d \in days \/ Correct(f, d) => Correct(g, d)'
      BY <2>15, <2>17 DEF Alike, Correct
  <2>19. Overwritten(f) => Overwritten(g)'
    <3>1. Overwritten(f) => Overwritten(f)'
        BY <1>2, <2>5, OverwrittenKept
    <3> QED  BY <2>15, <3>1 DEF Overwritten, Alike
  <2>20. Work(g)'
    <3>1. next = "certify" => f.phase = "repair" /\ days = f.unpublished
        BY <1>1, <1>2, <2>8
    <3>2. next = "certify" => \A d \in g.unit : Correct(g, d)'
        BY <1>2, <2>15, <2>18, <3>1 DEF Work
    <3>3. g.op = "update" =>
            \A d \in (g.first .. g.last) \ (g.left \cup g.unit) : Correct(g, d)' \/ Overwritten(g)'
        BY <1>2, <2>15, <2>18, <2>19 DEF Work, Alike, Publishing
    <3>4. next \in {"publish", "settle"} =>
            \A d \in g.unit \ g.unpublished : Correct(g, d)' \/ Ingested'
      <4>1. HAVE next \in {"publish", "settle"}
      <4>2. f.phase = "publish"
          BY <1>1, <1>2, <2>8, <4>1
      <4>3. \A d \in f.unit \ f.unpublished : Correct(f, d) \/ Ingested
          BY <1>2, <4>2 DEF Work
      <4> QED  BY <2>5, <2>11, <2>15, <2>18, <4>3, IngestedKept
    <3> QED  BY <2>14, <2>15, <3>2, <3>3, <3>4 DEF Work
  <2>21. StackOK(p)' /\ Work(Top(p))'
      BY <2>5, <2>13, <2>15, <2>16, <2>20, OwnSet DEF IInv
  <2>22. Busy(p) /\ Top(p).item = f.item
      BY <1>1, <1>2 DEF Busy
  <2> QED  BY <2>5, <2>7, <2>13, <2>21, <2>22, MovesBy, Elsewhere, Assemble DEF IInv
<1> QED  BY <1>5, <1>6

\* A build publishes a unit, all at once or, over existing rows, day by day.
LEMMA PublishRowsStep ==
    ASSUME IInv, Apart, NEW p \in Procs, PublishRows(p)
    PROVE  IInv'
<1>1. PICK f : f = Top(p)
    OBVIOUS
<1>2. /\ call[p] # <<>> /\ f \in Frames /\ FrameOK(f) /\ f.phase = "publish"
    BY <1>1, TopFacts DEF PublishRows, At, IInv
<1>3. PICK days : days = IF ResultCommit(Top(p).item) = 0 THEN Top(p).unpublished
                         ELSE {Min(Top(p).unpublished)}
    OBVIOUS
<1>4. days \subseteq f.unpublished /\ days # {}
  <2>1. f.unpublished \in SUBSET Days /\ f.unpublished # {}
      BY <1>2 DEF FrameOK, Frames
  <2>2. Min(f.unpublished) \in f.unpublished
      BY <2>1, FirstDay
  <2> QED  BY <1>1, <1>3, <2>1, <2>2
<1>5. Publish(p, days, "settle") /\ UNCHANGED <<spec, receipts, builds, initial>>
    BY <1>3 DEF PublishRows
<1> QED  BY <1>1, <1>2, <1>4, <1>5, PublishStep

\* A build publishes again the days it found different.
LEMMA RepairRowsStep ==
    ASSUME IInv, Apart, NEW p \in Procs, RepairRows(p)
    PROVE  IInv'
<1>1. PICK f : f = Top(p)
    OBVIOUS
<1>2. /\ call[p] # <<>> /\ f \in Frames /\ FrameOK(f) /\ f.phase = "repair"
    BY <1>1, TopFacts DEF RepairRows, At, IInv
<1>3. PICK days : days = Top(p).unpublished
    OBVIOUS
<1>4. days \subseteq f.unpublished /\ days # {}
    BY <1>1, <1>2, <1>3 DEF FrameOK
<1>5. Publish(p, days, "certify") /\ UNCHANGED <<spec, receipts, builds, initial>>
    BY <1>3 DEF RepairRows
<1> QED  BY <1>1, <1>2, <1>3, <1>4, <1>5, PublishStep

-----------------------------------------------------------------------------
(* Certifying.                                                             *)

\* The unit an operation has settled can be certified.
LEMMA UnitOK ==
    ASSUME DataInv, NEW f \in Frames, FrameOK(f), Work(f), f.phase = "certify", NEW kind
    PROVE  BuildOK(f.item, UnitBuild(f, kind))
<1>1. PICK b : b = UnitBuild(f, kind)
    OBVIOUS
<1>2. /\ b.first = Min(f.unit) /\ b.last = Max(f.unit) /\ b.spec = f.spec /\ b.receipt = f.receipt
      /\ b.result = f.result
    BY <1>1 DEF UnitBuild, Build
<1>3. Contiguous(f.unit) /\ Vouches(f.item, f.receipt, f.last) /\ f.unit \subseteq f.first .. f.last
    BY DEF FrameOK, Publishing
<1>4. b.first \in Days /\ b.last \in Days /\ b.first .. b.last = f.unit /\ b.last \in f.unit
    BY <1>2, <1>3, FirstDay, LastOfDays DEF Contiguous
<1>5. Vouches(f.item, b.receipt, b.last)
  <2>1. receipts[f.receipt].cutoff \in Days /\ f.last \in Days /\ b.last <= f.last
      BY <1>3, <1>4 DEF Vouches, DataInv, ReceiptsInv, ReceiptOK, Frames
  <2>2. b.last <= receipts[f.receipt].cutoff
      BY <1>3, <1>4, <2>1, DayOrder DEF Vouches
  <2> QED  BY <1>2, <1>3, <2>2 DEF Vouches
<1>6. b.result \in 0 .. Len(log)
    BY <1>2, Lengths DEF Frames, FrameOK
<1>7. ASSUME NEW d \in b.first .. b.last, LastEvent(f.item, d, Len(log)) <= b.result
      PROVE  Yields(f.item, b.spec, b.receipt, d)
  <2>1. LastEvent(f.item, d, Len(log)) \in Nat
    <3>1. LastIn(log, f.item, d, Len(log)) \in 0 .. Len(log)
        BY Lengths, LastFacts DEF IsLast
    <3> QED  BY <3>1, Named
  <2>2. ~(LastEvent(f.item, d, Len(log)) > f.result)
      BY <1>2, <1>6, <1>7, <2>1
  <2>3. Correct(f, d)
      BY <1>4, <1>7, <2>2 DEF Work
  <2> QED  BY <1>2, <2>3 DEF Correct
<1> QED  BY <1>1, <1>4, <1>5, <1>6, <1>7 DEF BuildOK, Certifies

\* So can the whole range once every day of it is right.
LEMMA WholeOK ==
    ASSUME DataInv, NEW f \in Frames, FrameOK(f), Vouches(f.item, f.receipt, f.last),
           \A d \in f.first .. f.last : Correct(f, d), NEW result \in 0 .. Len(log)
    PROVE  BuildOK(f.item, Build("whole", f.spec, f.first, f.last, f.receipt, result))
<1>1. PICK b : b = Build("whole", f.spec, f.first, f.last, f.receipt, result)
    OBVIOUS
<1>2. /\ b.first = f.first /\ b.last = f.last /\ b.spec = f.spec /\ b.receipt = f.receipt
      /\ b.result = result
    BY <1>1 DEF Build
<1>3. Certifies(f.item, b)
    BY <1>2 DEF Correct, Certifies
<1> QED  BY <1>1, <1>2, <1>3 DEF BuildOK, Frames

\* A process that certifies goes on, or is done, or has failed.
LEMMA CertifyStep ==
    ASSUME IInv, Apart, NEW p \in Procs, Busy(p), NEW b, BuildOK(Top(p).item, b), Certify(Top(p).item, b),
           UNCHANGED <<spec, log, receipts, rows>>, PinsInv', Moves(p),
           \/ Return(p)
           \/ call'[p] = <<>>
           \/ \E g \in Frames : /\ Set(p, g) /\ FrameOK(g) /\ Work(g)
                                /\ g.phase \notin {"recheck", "reuse"}
    PROVE  IInv'
<1>1. PICK i : i = Top(p).item
    OBVIOUS
<1>2. i \in Items /\ call[p] # <<>>
    BY <1>1, TopFacts DEF Busy, Frames, IInv
<1>3. Steady
    BY DEF Steady
<1>4. /\ Grows /\ BuildsInv'
      /\ \A j \in Items : Still(j) /\ (j # i => builds'[j] = builds[j])
    BY <1>1, <1>2, <1>3, BuildCertified DEF IInv
<1>5. DataInv'
    BY <1>4, DataKept DEF IInv, DataInv
<1>6. StackOK(p)' /\ (call'[p] # <<>> => Work(Top(p))')
  <2>1. CASE Return(p)
      BY <1>2, <1>4, <2>1, OwnReturn DEF IInv
  <2>2. CASE call'[p] = <<>>
      BY <2>2, OwnFail
  <2>3. CASE \E g \in Frames : /\ Set(p, g) /\ FrameOK(g) /\ Work(g)
                               /\ g.phase \notin {"recheck", "reuse"}
    <3>1. PICK g \in Frames : /\ Set(p, g) /\ FrameOK(g) /\ Work(g)
                              /\ g.phase \notin {"recheck", "reuse"}
        BY <2>3
    <3>2. FrameOK(g)' /\ Work(g)'
        BY <1>3, <3>1, SteadyFrame
    <3> QED  BY <1>2, <1>4, <3>1, <3>2, OwnSet DEF IInv
  <2> QED  BY <2>1, <2>2, <2>3
<1>7. \A j \in Items : (Busy(p) /\ Top(p).item = j) \/ (Still(j) /\ builds'[j] = builds[j])
    BY <1>1, <1>4
<1>8. DOMAIN call' = Procs /\ \A q \in Procs : q # p => call'[q] = call[q]
    BY Elsewhere DEF IInv
<1> QED  BY <1>4, <1>5, <1>6, <1>7, <1>8, Assemble DEF IInv

\* A unit is certified, and an update goes on to the next.
LEMMA CertifyUnitStep ==
    ASSUME IInv, Apart, NEW p \in Procs, CertifyUnit(p)
    PROVE  IInv'
<1>1. PICK f : f = Top(p)
    OBVIOUS
<1>2. /\ call[p] # <<>> /\ f \in Frames /\ FrameOK(f) /\ Work(f) /\ f.phase = "certify"
      /\ f.op \in {"update", "initialize"} /\ Busy(p)
    BY <1>1, TopFacts DEF CertifyUnit, At, IInv, Frames, Busy
<1>3. PICK kind : kind = IF f.op = "initialize" THEN "unit" ELSE "whole"
    OBVIOUS
<1>4. PICK b : b = UnitBuild(f, kind)
    OBVIOUS
<1>5. BuildOK(f.item, b)
    BY <1>2, <1>4, UnitOK DEF IInv
<1>6. Certify(f.item, b) /\ UNCHANGED <<spec, log, receipts, rows, initial>>
    BY <1>1, <1>3, <1>4 DEF CertifyUnit
<1>7. PinsInv'
  <2>1. Grows
      BY <1>6, Appended DEF Grows, IInv, DataInv, LogInv, ReceiptsInv
  <2> QED  BY <1>6, <2>1, DataKept DEF IInv
<1>8. PICK g \in Frames : Set(p, g) /\ FrameOK(g) /\ Work(g) /\ g.phase \notin {"recheck", "reuse"}
  <2>1. CASE f.op = "initialize"
    <3>1. PICK g : g = [f EXCEPT !.phase = "units"]
        OBVIOUS
    <3>2. Set(p, g)
        BY <1>1, <2>1, <3>1 DEF CertifyUnit, Goto
    <3>3. /\ g \in Frames /\ Alike(f, g) /\ g.phase = "units" /\ g.left = f.left /\ g.unit = f.unit
          /\ g.unpublished = f.unpublished /\ g.result = f.result
        BY <1>2, <3>1 DEF Frames, Phases, Alike
    <3>4. FrameOK(g) /\ Work(g)
        BY <1>2, <2>1, <3>3 DEF FrameOK, Work, Alike, Publishing
    <3> QED  BY <3>2, <3>3, <3>4
  <2>2. CASE f.op = "update"
    <3>1. PICK g : g = Advance(f)
        OBVIOUS
    <3>2. Set(p, g)
        BY <1>1, <2>2, <3>1 DEF CertifyUnit
    <3>3. ASSUME NEW d \in (f.first .. f.last) \ f.left PROVE Correct(f, d) \/ Overwritten(f)
        BY <1>2, <2>2, <3>3 DEF Work, Publishing
    <3>4. Vouches(f.item, f.receipt, f.last) /\ f.unpublished = {}
        BY <1>2 DEF FrameOK, Publishing
    <3>5. g \in Frames /\ FrameOK(g) /\ Work(g) /\ g.phase \notin {"recheck", "reuse"}
        BY <1>2, <2>2, <3>1, <3>3, <3>4, AdvanceOK
    <3> QED  BY <3>2, <3>5
  <2> QED  BY <1>2, <2>1, <2>2
<1> QED  BY <1>1, <1>2, <1>5, <1>6, <1>7, <1>8, MovesBy, CertifyStep

\* An update whose output nobody else wrote has made all of its range right.
LEMMA FinishUpdateStep ==
    ASSUME IInv, Apart, NEW p \in Procs, FinishUpdate(p)
    PROVE  IInv'
<1>1. PICK f : f = Top(p)
    OBVIOUS
<1>2. /\ call[p] # <<>> /\ f \in Frames /\ FrameOK(f) /\ Work(f) /\ f.phase = "finish" /\ Busy(p)
    BY <1>1, TopFacts DEF FinishUpdate, At, IInv, Busy
<1>3. /\ f.op = "update" /\ f.left = {} /\ f.unit = {} /\ Vouches(f.item, f.receipt, f.last)
    BY <1>2 DEF FrameOK
<1>4. UNCHANGED <<spec, log, receipts, rows, initial>>
    BY DEF FinishUpdate
<1> DEFINE foreign == {k \in (f.before + 1) .. Len(log) :
                         log[k].node = f.item /\ log[k].receipt # f.receipt}
<1>5. CASE spec[f.item] # f.spec \/ foreign # {}
  <2>1. Fail(p) /\ builds' = builds
      BY <1>1, <1>5 DEF FinishUpdate
  <2>2. Quiet
      BY <1>4, <2>1 DEF Quiet, IInv, DataInv
  <2> QED  BY <2>1, <2>2, QuietFail DEF Fail, IInv
<1>6. CASE ~(spec[f.item] # f.spec \/ foreign # {})
  <2>1. ~Overwritten(f)
      BY <1>6 DEF Overwritten
  <2>2. \A d \in f.first .. f.last : Correct(f, d)
      BY <1>2, <1>3, <2>1 DEF Work
  <2>3. PICK b : b = Build("whole", f.spec, f.first, f.last, f.receipt, f.result)
      OBVIOUS
  <2>4. BuildOK(f.item, b)
    <3>1. f.result \in 0 .. Len(log)
        BY <1>2, Lengths DEF Frames, FrameOK, IInv
    <3> QED  BY <1>2, <1>3, <2>2, <2>3, <3>1, WholeOK DEF IInv
  <2>5. Certify(f.item, b) /\ Return(p)
      BY <1>1, <1>6, <2>3 DEF FinishUpdate
  <2>6. PinsInv'
    <3>1. Grows
        BY <1>4, Appended DEF Grows, IInv, DataInv, LogInv, ReceiptsInv
    <3> QED  BY <1>4, <3>1, DataKept DEF IInv
  <2> QED  BY <1>1, <1>2, <1>4, <2>4, <2>5, <2>6, MovesBy, CertifyStep
<1> QED  BY <1>5, <1>6

\* What an operation's receipt selects is what its definition would read now, while
\* the receipt is current.
LEMMA CurrentComputes ==
    ASSUME DataInv, NEW f \in Frames, f.first <= f.last, Vouches(f.item, f.receipt, f.last),
           CurrentReceipt[f.receipt], NEW d \in f.first .. f.last
    PROVE  Compute(f.item, f.spec, Len(log), d)
             = Compute(f.item, f.spec, receipts[f.receipt].max, d)
<1>1. f.item \in Items /\ f.first \in Days /\ f.last \in Days
    BY DEF Frames
<1>2. PICK k \in 1 .. Len(receipts) : k = f.receipt /\ receipts[k].item = f.item /\ f.last <= receipts[k].cutoff
    BY DEF Vouches
<1>3. PICK m \in 0 .. Len(log) : m = receipts[k].max
    BY DEF DataInv, ReceiptsInv, ReceiptOK
<1>4. Len(log) \in Nat /\ m \in Nat /\ m <= Len(log)
    BY <1>3, Lengths
<1>5. d \in Days /\ d <= f.last
  <2>1. f.first .. f.last \subseteq Days /\ f.first \in Nat /\ f.last \in Nat
      BY <1>1, DayFacts
  <2> QED  BY <2>1
<1>6. ASSUME NEW n \in Inputs[f.item], NEW e \in Reads(f.item, d), NEW j \in (m + 1) .. Len(log)
      PROVE  ~Touch(log, j, n, e)
  <2>1. e \in Days /\ e <= d
    <3>1. d <= d
        BY <1>5, DayFacts
    <3> QED  BY <1>5, <1>6, <3>1 DEF Reads
  <2>2. e <= receipts[k].cutoff
    <3>1. receipts[k].cutoff \in Days
        BY DEF DataInv, ReceiptsInv, ReceiptOK
    <3>2. e <= f.last
        BY <1>1, <1>5, <2>1, DayOrder
    <3> QED  BY <1>1, <1>2, <2>1, <3>1, <3>2, DayOrder
  <2> QED  BY <1>2, <1>3, <1>6, <2>1, <2>2, CurrentUnread
<1>7. ComputeIn(log, f.item, f.spec, Len(log), d) = ComputeIn(log, f.item, f.spec, m, d)
    BY <1>4, <1>6, UnreadSince
<1> QED  BY <1>2, <1>3, <1>7, Named

\* A range that needs no computing is what its definition yields now.
LEMMA ReuseRight ==
    ASSUME DataInv, NEW f \in Frames, f.first <= f.last, PlanOf(f).mode = "unchanged",
           NEW d \in f.first .. f.last
    PROVE  Content(f.item, d, Len(log)) = Compute(f.item, f.spec, Len(log), d)
<1>1. f.item \in Items /\ f.first \in Days /\ f.last \in Days
    BY DEF Frames
<1>2. Len(log) \in 0 .. Len(log)
    BY Lengths
<1>3. BuiltBefore(f.item, Len(log))
    BY <1>1, <1>2 DEF BuiltBefore, DataInv, BuildsInv, BuildOK, Vouches, ReceiptsInv, ReceiptOK
<1>4. PICK plan : plan = Plan(f.item, f.spec, f.first, f.last)
    OBVIOUS
<1>5. plan.mode # "blocked" /\ plan.days = {}
  <2>1. plan.mode = "unchanged"
      BY <1>4 DEF PlanOf
  <2>2. ASSUME NEW i \in Items, NEW s, NEW first \in Days, NEW last \in Days, first <= last,
               Plan(i, s, first, last).mode = "unchanged"
        PROVE  Plan(i, s, first, last).days = {}
      BY <2>2, PlanComplete
  <2> QED  BY <1>1, <1>4, <2>1, <2>2
<1>6. ASSUME NEW i \in Items, NEW s, NEW first \in Days, NEW last \in Days, first <= last,
             BuiltBefore(i, Len(log)), Plan(i, s, first, last).mode # "blocked",
             NEW e \in (first .. last) \ Plan(i, s, first, last).days
      PROVE  Content(i, e, Len(log)) = Compute(i, s, Len(log), e)
    BY <1>2, <1>6, PlanLeavesRight
<1> QED  BY <1>1, <1>3, <1>4, <1>5, <1>6

\* A reuse certifies rows that a completed build covers and that nothing has moved
\* since, for inputs that are the ones that build read.
LEMMA RebindStep ==
    ASSUME IInv, Apart, NEW p \in Procs, Rebind(p)
    PROVE  IInv'
<1>1. PICK f : f = Top(p)
    OBVIOUS
<1>2. /\ call[p] # <<>> /\ f \in Frames /\ FrameOK(f) /\ f.phase = "rebind" /\ Busy(p)
    BY <1>1, TopFacts DEF Rebind, At, IInv, Busy
<1>3. /\ Vouches(f.item, f.receipt, f.last) /\ f.item \in Items /\ f.first \in Days /\ f.last \in Days
      /\ f.first <= f.last
    BY <1>2 DEF FrameOK, Frames
<1>4. UNCHANGED <<spec, log, receipts, rows, initial>>
    BY DEF Rebind
<1>5. CASE ~(Undisturbed(f) /\ PlanOf(f).mode = "unchanged")
  <2>1. Fail(p) /\ builds' = builds
      BY <1>1, <1>5 DEF Rebind
  <2>2. Quiet
      BY <1>4, <2>1 DEF Quiet, IInv, DataInv
  <2> QED  BY <2>1, <2>2, QuietFail DEF Fail, IInv
<1>6. CASE Undisturbed(f) /\ PlanOf(f).mode = "unchanged"
  <2>8. \A d \in f.first .. f.last : Correct(f, d)
      BY <1>2, <1>3, <1>6, CurrentComputes, ReuseRight DEF Undisturbed, Correct, Yields, IInv
  <2>9. PICK b : b = Build("whole", f.spec, f.first, f.last, f.receipt, ResultCommit(f.item))
      OBVIOUS
  <2>10. BuildOK(f.item, b)
    <3>1. PICK result \in 0 .. Len(log) : result = ResultCommit(f.item)
        BY ResultFacts DEF IInv
    <3> QED  BY <1>2, <1>3, <2>8, <2>9, <3>1, WholeOK DEF IInv
  <2>11. Certify(f.item, b) /\ Return(p)
      BY <1>1, <1>6, <2>9 DEF Rebind
  <2>12. PinsInv'
    <3>1. Grows
        BY <1>4, Appended DEF Grows, IInv, DataInv, LogInv, ReceiptsInv
    <3> QED  BY <1>4, <3>1, DataKept DEF IInv
  <2> QED  BY <1>1, <1>2, <1>4, <2>10, <2>11, <2>12, MovesBy, CertifyStep
<1> QED  BY <1>5, <1>6

\* The reusable units that cover the range make every day of it right.
\* The units of an initialization that nobody wrote over are right.
LEMMA UnitsRight ==
    ASSUME DataInv, NEW f \in Frames, Gap(f) = {}, NEW d \in f.first .. f.last
    PROVE  Correct(f, d)
<1>1. \A u \in Reusable(f) :
        /\ BuildOK(f.item, u) /\ u.spec = f.spec /\ u.receipt = f.receipt
        /\ \A k \in (u.result + 1) .. Len(log) :
             log[k].kind = "commit" /\ log[k].node = f.item
               => Hull(DOMAIN log[k].at) \cap (u.first .. u.last) = {}
    BY DEF Reusable, DataInv, BuildsInv, Frames
<1>2. PICK u \in Reusable(f) : d \in u.first .. u.last
    BY DEF Gap
<1>3. BuildOK(f.item, u) /\ u.spec = f.spec /\ u.receipt = f.receipt
    BY <1>1
<1>4. LastEvent(f.item, d, Len(log)) <= u.result
  <2>1. PICK k : k = LastIn(log, f.item, d, Len(log))
      OBVIOUS
  <2>2. IsLast(log, f.item, d, Len(log), k) /\ Len(log) \in Nat /\ u.result \in 0 .. Len(log)
      BY <1>3, <2>1, Lengths, LastFacts DEF BuildOK
  <2>3. k \in 0 .. Len(log) /\ (k > 0 => Touch(log, k, f.item, d))
      BY <2>2 DEF IsLast
  <2>4. ASSUME k \in (u.result + 1) .. Len(log) PROVE FALSE
    <3>1. k \in 1 .. Len(log) /\ Touch(log, k, f.item, d)
        BY <2>2, <2>3, <2>4
    <3>2. DOMAIN log[k].at \in SUBSET Days
        BY <3>1 DEF DataInv, LogInv, EntryOK
    <3>3. d \in Hull(DOMAIN log[k].at)
        BY <3>1, <3>2, HullFacts DEF Touch
    <3> QED  BY <1>1, <1>2, <2>4, <3>1, <3>3 DEF Touch
  <2>5. k <= u.result
      BY <2>2, <2>3, <2>4
  <2> QED  BY <2>1, <2>5, Named
<1> QED  BY <1>2, <1>3, <1>4 DEF BuildOK, Certifies, Correct

\* An initialization certifies its whole range.
LEMMA FinishInitializeStep ==
    ASSUME IInv, Apart, NEW p \in Procs, FinishInitialize(p)
    PROVE  IInv'
<1>1. PICK f : f = Top(p)
    OBVIOUS
<1>2. /\ call[p] # <<>> /\ f \in Frames /\ FrameOK(f) /\ f.phase = "units" /\ Busy(p)
    BY <1>1, TopFacts DEF FinishInitialize, At, IInv, Busy
<1>3. /\ Vouches(f.item, f.receipt, f.last) /\ f.item \in Items /\ f.first \in Days /\ f.last \in Days
      /\ f.first <= f.last
    BY <1>2 DEF FrameOK, Frames
<1>4. UNCHANGED <<spec, log, receipts, rows>> /\ Gap(f) = {}
    BY <1>1 DEF FinishInitialize
<1>5. CASE spec[f.item] # f.spec
  <2>1. call' = [call EXCEPT ![p] = <<>>] /\ builds' = builds /\ initial' = initial
      BY <1>1, <1>5 DEF FinishInitialize
  <2>2. Quiet
      BY <1>4, <2>1 DEF Quiet, IInv, DataInv
  <2> QED  BY <2>1, <2>2, QuietFail DEF IInv
<1>6. CASE spec[f.item] = f.spec
  <2> DEFINE results == {u.result : u \in Reusable(f)}
  <2>1. \A u \in Reusable(f) : BuildOK(f.item, u)
      BY <1>3 DEF Reusable, IInv, DataInv, BuildsInv
  <2>2. \A d \in f.first .. f.last : \E u \in Reusable(f) : d \in u.first .. u.last
      BY <1>4 DEF Gap
  <2>3. \A d \in f.first .. f.last : Correct(f, d)
      BY <1>2, <1>4, UnitsRight DEF IInv
  <2>4. PICK result \in 0 .. Len(log) : result = Max(results)
    <3>1. results \in SUBSET (0 .. Len(log)) /\ results # {} /\ Len(log) \in Nat /\ results \subseteq Nat
      <4>1. f.first \in f.first .. f.last
        <5>1. f.first \in Nat /\ f.last \in Nat
            BY <1>3, DayFacts
        <5> QED  BY <1>3, <5>1
      <4>2. PICK u \in Reusable(f) : TRUE
          BY <2>2, <4>1
      <4>3. \A x \in Reusable(f) : x.result \in 0 .. Len(log)
          BY <2>1 DEF BuildOK
      <4> QED  BY <4>2, <4>3, Lengths DEF IInv
    <3>2. PICK x \in results : \A y \in results : y <= x
      <4> HIDE DEF results
      <4> QED  BY <3>1, NatGreatest
    <3>3. Max(results) \in results
      <4> HIDE DEF results
      <4> QED  BY <3>1, <3>2 DEF Max
    <3> HIDE DEF results
    <3> QED  BY <3>1, <3>3
  <2>5. PICK b : b = Build("whole", f.spec, f.first, f.last, f.receipt, result)
      OBVIOUS
  <2>6. BuildOK(f.item, b)
      BY <1>2, <1>3, <2>3, <2>5, WholeOK DEF IInv
  <2>7. Certify(f.item, b) /\ Return(p)
      BY <1>1, <1>6, <2>4, <2>5 DEF FinishInitialize
  <2>8. PinsInv'
    <3>1. initial' = [initial EXCEPT ![f.item].status = "complete",
                                     ![f.item].pinned = @ \ {Pin(f, f.receipt)}]
        BY <1>1, <1>6 DEF FinishInitialize
    <3>2. PICK pin : pin = Pin(f, f.receipt)
        OBVIOUS
    <3>3. PICK e : e = [initial[f.item] EXCEPT !.status = "complete", !.pinned = @ \ {pin}]
        OBVIOUS
    <3>4. initial[f.item] \in InitialType
        BY <1>3 DEF IInv, DataInv, PinsInv
    <3>5. e \in InitialType /\ e.pinned = initial[f.item].pinned \ {pin}
        BY <3>3, <3>4 DEF InitialType, Status
    <3>6. initial' = [initial EXCEPT ![f.item] = e]
        BY <1>3, <3>1, <3>2, <3>3 DEF IInv, DataInv, PinsInv
    <3>7. Grows
        BY <1>4, Appended DEF Grows, IInv, DataInv, LogInv, ReceiptsInv
    <3>8. initial' \in [Items -> InitialType]
        BY <1>3, <3>5, <3>6 DEF IInv, DataInv, PinsInv
    <3>9. ASSUME NEW i \in Items, NEW x \in initial'[i].pinned PROVE PinOK(i, x)'
      <4>1. PinOK(i, x)
          BY <1>3, <3>5, <3>6, <3>9 DEF IInv, DataInv, PinsInv
      <4> QED  BY <3>7, <4>1, RecordsKept DEF IInv
    <3> QED  BY <3>8, <3>9 DEF PinsInv
  <2> QED  BY <1>1, <1>2, <1>4, <2>6, <2>7, <2>8, MovesBy, CertifyStep
<1> QED  BY <1>5, <1>6

\* A resumed build certifies its range.
LEMMA FinishResumeStep ==
    ASSUME IInv, Apart, NEW p \in Procs, FinishResume(p)
    PROVE  IInv'
<1>1. PICK f : f = Top(p)
    OBVIOUS
<1>2. /\ call[p] # <<>> /\ f \in Frames /\ FrameOK(f) /\ Work(f) /\ f.phase = "certify" /\ Busy(p)
    BY <1>1, TopFacts DEF FinishResume, At, IInv, Busy
<1>3. UNCHANGED <<spec, log, receipts, rows, initial>> /\ call' = [call EXCEPT ![p] = <<>>]
    BY DEF FinishResume
<1>4. CASE builds' = builds
  <2>1. Quiet
      BY <1>3, <1>4 DEF Quiet, IInv, DataInv
  <2> QED  BY <1>3, <2>1, QuietFail DEF IInv
<1>5. CASE builds' # builds
  <2>1. PICK b : b = UnitBuild(f, "whole")
      OBVIOUS
  <2>2. BuildOK(f.item, b)
      BY <1>2, <2>1, UnitOK DEF IInv
  <2>3. Certify(f.item, b)
      BY <1>1, <1>5, <2>1 DEF FinishResume
  <2>4. PinsInv'
    <3>1. Grows
        BY <1>3, Appended DEF Grows, IInv, DataInv, LogInv, ReceiptsInv
    <3> QED  BY <1>3, <3>1, DataKept DEF IInv
  <2>5. Moves(p) /\ call'[p] = <<>>
      BY <1>3 DEF Moves, IInv, CallInv
  <2> QED  BY <1>1, <1>2, <1>3, <2>2, <2>3, <2>4, <2>5, CertifyStep
<1> QED  BY <1>4, <1>5

-----------------------------------------------------------------------------
(* The invariant holds.                                                    *)

\* A sequence of the raw nodes has raw nodes in it.
LEMMA RawSequence ==
    ASSUME NEW k \in 1 .. Cardinality(Raws)
    PROVE  SetToSeq(Raws)[k] \in Raws
<1> DEFINE n == Cardinality(Raws)
<1>1. PICK m \in Nat : ExistsBijection(1 .. m, Raws)
    BY DeclarationAssumption, FS_NatBijection
<1>2. n = m
    BY <1>1, FS_CountingElements
<1>3. PICK g : g \in [1 .. n -> Raws] /\ IsInjective(g)
    BY <1>1, <1>2 DEF ExistsBijection, Bijection, Injection
<1>4. SetToSeq(Raws) \in [1 .. n -> Raws]
    BY <1>3 DEF SetToSeq
<1> QED  BY <1>4

\* It holds at first: only raw data is published and nobody is in a call.
LEMMA InitGives == ASSUME Init PROVE IInv
<1>1. LogInv
  <2> DEFINE entry(k) == [kind |-> "commit", node |-> SetToSeq(Raws)[k], receipt |-> 0,
                          at |-> [d \in Days |-> [by |-> 0, of |-> <<0>>]]]
             S == {entry(k) : k \in 1 .. Cardinality(Raws)}
  <2>1. log = [k \in 1 .. Cardinality(Raws) |-> entry(k)] /\ Cardinality(Raws) \in Nat
      BY DeclarationAssumption, FS_CardinalityType DEF Init
  <2>2. log \in Seq(S) /\ Len(log) = Cardinality(Raws)
    <3>1. \A k \in 1 .. Cardinality(Raws) : entry(k) \in S
        OBVIOUS
    <3>2. log \in [1 .. Cardinality(Raws) -> S]
      <4> HIDE DEF S, entry
      <4> QED  BY <2>1, <3>1
    <3> HIDE DEF S, entry
    <3> QED  BY <2>1, <3>2
  <2>3. ASSUME NEW k \in 1 .. Len(log) PROVE EntryOK(log[k])
    <3>1. PICK r \in Raws : r = SetToSeq(Raws)[k]
        BY <2>2, RawSequence
    <3>2. log[k] = [kind |-> "commit", node |-> r, receipt |-> 0,
                    at |-> [d \in Days |-> [by |-> 0, of |-> <<0>>]]]
        BY <2>1, <2>2, <3>1
    <3>3. /\ log[k].kind = "commit" /\ log[k].node = r /\ DOMAIN log[k].at = Days
          /\ log[k].receipt = 0
        BY <3>2
    <3>4. Len(receipts) \in Nat
        BY DEF Init
    <3> QED  BY <3>3, <3>4 DEF EntryOK, Nodes
  <2> HIDE DEF S, entry
  <2> QED  BY <2>2, <2>3 DEF LogInv, IsSeq
<1>2. IsSeq(<<>>) /\ Len(<<>>) = 0
    BY DEF IsSeq
<1>3. ReceiptsInv /\ BuildsInv
    BY <1>2 DEF Init, ReceiptsInv, BuildsInv
<1>4. RowsInv
    BY DEF Init, RowsInv
<1>5. PinsInv
    BY DEF Init, PinsInv, InitialType, Status
<1>6. spec \in [Nodes -> Nat]
    BY DEF Init
<1>7. CallInv
  <2>1. <<>> \in Seq(Frames) /\ Len(<<>>) = 0
      OBVIOUS
  <2>2. \A p \in Procs : call[p] = <<>>
      BY DEF Init
  <2> QED  BY <2>1, <2>2 DEF Init, CallInv, StackOK
<1> QED  BY <1>1, <1>3, <1>4, <1>5, <1>6, <1>7 DEF IInv, DataInv

\* Each step leaves the invariant.
LEMMA StepKeeps ==
    ASSUME IInv, Apart, [Next]_vars, [RepairAlone]_vars
    PROVE  IInv'
<1>1. CASE UNCHANGED vars
  <2>1. Quiet /\ call' = call
      BY <1>1 DEF vars, data, evidence, Quiet, IInv, DataInv
  <2>2. \A q \in Procs : Busy(q) => Top(q).item \in Items
      BY TopFacts DEF Busy, Frames, IInv
  <2> QED  BY <2>1, <2>2, QuietKeeps, CallsKept DEF IInv
<1>2. CASE RepairAlone /\ Environment
  <2>1. CASE \E r \in Raws : RawCommit(r) \/ RawComplete(r)
      BY <2>1, RawCommitStep, RawCompleteStep
  <2>2. CASE \E i \in Items : Ingest(i)
      BY <1>2, <2>2, IngestStep
  <2>3. CASE \E n \in Nodes : Redefine(n)
      BY <2>3, RedefineStep
  <2>4. CASE \E p \in Procs : CancelInitialize(p) \/ Interrupt(p) \/ Die(p) \/ Abandon(p)
      BY <2>4, CancelInitializeStep, InterruptStep, AbandonStep
  <2> QED  BY <1>2, <2>1, <2>2, <2>3, <2>4 DEF Environment
<1>3. ASSUME NEW p \in Procs, Begin(p) PROVE IInv'
  <2>1. PICK i \in Targets : Start(p, "update", i) \/ Start(p, "initialize", i) \/ StartResume(p, i)
      BY <1>3 DEF Begin
  <2>2. i \in Items
      BY DeclarationAssumption
  <2> QED  BY <2>1, <2>2, StartStep, StartResumeStep
<1>4. ASSUME NEW p \in Procs, Proceed(p) PROVE IInv'
  <2>1. CASE UpdateParent(p) \/ PlanUpdate(p) \/ FreezeInputs(p) \/ RecheckPlan(p)
      BY <2>1, UpdateParentStep, PlanUpdateStep, FreezeInputsStep, RecheckPlanStep
  <2>2. CASE PublishRows(p) \/ Settle(p) \/ RepairRows(p) \/ CertifyUnit(p) \/ FinishUpdate(p)
      BY <2>2, PublishRowsStep, SettleStep, RepairRowsStep, CertifyUnitStep, FinishUpdateStep
  <2>3. CASE DecideReuse(p) \/ Rebind(p) \/ RefreshFlag(p)
      BY <2>3, DecideReuseStep, RebindStep, RefreshFlagStep
  <2>4. CASE AdmitInitialize(p) \/ InitializeUnit(p) \/ FinishInitialize(p) \/ FinishResume(p)
      BY <2>4, AdmitInitializeStep, InitializeUnitStep, FinishInitializeStep, FinishResumeStep
  <2> QED  BY <1>4, <2>1, <2>2, <2>3, <2>4 DEF Proceed
<1> QED  BY <1>1, <1>2, <1>3, <1>4 DEF Next

\* While no row has come from outside nothing is found to repair, and the bound
\* lets no second one come.
LEMMA RowsComeOnce ==
    ASSUME IInv, MaxIngests \in {0, 1}
    PROVE  RepairAlone
<1>1. SUFFICES ASSUME NEW i \in Items, Ingest(i), NEW p \in Procs, At(p, "repair")
               PROVE  FALSE
    BY DEF RepairAlone
<1>2. PICK outside : outside = {k \in 1 .. Len(log) : log[k].node \in Items /\ log[k].receipt = 0}
    OBVIOUS
<1>3. Cardinality(outside) < MaxIngests
    BY <1>1, <1>2 DEF Ingest
<1>4. outside # {}
  <2>1. Work(Top(p)) /\ Top(p).phase = "repair"
      BY <1>1, TopFacts DEF At, IInv
  <2> QED  BY <1>2, <2>1 DEF Work, Ingested
<1>5. IsFiniteSet(outside)
  <2>1. Len(log) \in Nat
      BY Lengths DEF IInv
  <2>2. IsFiniteSet(1 .. Len(log))
      BY <2>1, FS_Interval
  <2> QED  BY <1>2, <2>2, FS_Subset
<1>6. Cardinality(outside) \in Nat \ {0}
    BY <1>4, <1>5, FS_CardinalityType, FS_EmptySet
<1> QED  BY <1>3, <1>6

\* It holds always.
LEMMA InvariantHolds == Spec /\ []Apart /\ [][RepairAlone]_vars => []IInv
<1>1. Init => IInv
    BY InitGives
<1>2. IInv /\ Apart /\ [Next]_vars /\ [RepairAlone]_vars => IInv'
    BY StepKeeps
<1> QED  BY <1>1, <1>2, PTL DEF Spec

\* It holds always, for one process and at most one row from outside.
LEMMA InvariantHoldsAlone ==
    ASSUME \A p, q \in Procs : p = q, MaxIngests \in {0, 1}
    PROVE  Spec => []IInv
<1>1. Init => IInv
    BY InitGives
<1>2. IInv /\ [Next]_vars => IInv'
  <2>1. Apart
      BY DEF Apart
  <2>2. IInv => RepairAlone
      BY RowsComeOnce
  <2> QED  BY <2>1, <2>2, StepKeeps
<1> QED  BY <1>1, <1>2, PTL DEF Spec

\* When an initialization or a reuse writes its Item's flag, every row of its range
\* is what the Item's definition yields from its inputs as they are.
LEMMA FlagFresh ==
    ASSUME IInv, NEW p \in Procs, FinishInitialize(p) \/ Rebind(p),
           flag'[Top(p).item] # flag[Top(p).item],
           NEW d \in Top(p).first .. Top(p).last
    PROVE  ~Stale(Top(p).item, d)
<1>1. PICK f : f = Top(p)
    OBVIOUS
<1>2. f \in Frames /\ FrameOK(f) /\ f.phase \in {"units", "rebind"}
    BY <1>1, TopFacts DEF FinishInitialize, Rebind, At, IInv
<1>3. f.first <= f.last /\ Vouches(f.item, f.receipt, f.last)
    BY <1>2 DEF FrameOK
<1>4. CASE FinishInitialize(p)
  <2>1. Gap(f) = {} /\ spec[f.item] = f.spec /\ CurrentReceipt[f.receipt]
      BY <1>1, <1>4 DEF FinishInitialize, PinnedIsCurrent
  <2>2. Content(f.item, d, Len(log)) = Compute(f.item, f.spec, receipts[f.receipt].max, d)
      BY <1>1, <1>2, <2>1, UnitsRight DEF IInv, Correct, Yields
  <2> QED  BY <1>1, <1>2, <1>3, <2>1, <2>2, CurrentComputes DEF IInv, Stale
<1>5. CASE Rebind(p)
  <2>1. PlanOf(f).mode = "unchanged" /\ spec[f.item] = f.spec
      BY <1>1, <1>5 DEF Rebind, Undisturbed
  <2> QED  BY <1>1, <1>2, <1>3, <2>1, ReuseRight DEF IInv, Stale
<1> QED  BY <1>4, <1>5

\* A completion of an Item certifies nothing false: the rows of its range that
\* nobody wrote over since are what its definition yields from the receipt it
\* names, also where an update kept a prefix, an initialization was interrupted or
\* nothing was computed.  For one process and at most one row from outside.
THEOREM CompletionsHoldAlone ==
    ASSUME \A p, q \in Procs : p = q, MaxIngests \in {0, 1}
    PROVE  Spec => []CompletionHolds
<1>1. IInv => CompletionHolds
    BY InvariantGivesCompletion DEF IInv
<1> QED  BY <1>1, InvariantHoldsAlone, PTL

\* The same of any number of processes and rows, while no two processes work on
\* one Item at once and no row arrives between what a build finds to repair and
\* the repair.
THEOREM CompletionsHold == Spec /\ []Apart /\ [][RepairAlone]_vars => []CompletionHolds
<1>1. IInv => CompletionHolds
    BY InvariantGivesCompletion DEF IInv
<1> QED  BY <1>1, InvariantHolds, PTL

\* An update that is not refused computes every day of its request whose rows are
\* no longer what its definition gives from its inputs.  For one process and at
\* most one row from outside.
THEOREM NothingStaleIsOverlookedAlone ==
    ASSUME \A p, q \in Procs : p = q, MaxIngests \in {0, 1}
    PROVE  Spec => []RepairsArePlanned
<1>1. IInv => RepairsArePlanned
    BY InvariantGivesRepairs DEF IInv
<1> QED  BY <1>1, InvariantHoldsAlone, PTL

\* The same of any number of processes and rows, as above.
THEOREM NothingStaleIsOverlooked == Spec /\ []Apart /\ [][RepairAlone]_vars => []RepairsArePlanned
<1>1. IInv => RepairsArePlanned
    BY InvariantGivesRepairs DEF IInv
<1> QED  BY <1>1, InvariantHolds, PTL

\* An initialization and a reuse advertise rows of theirs only while they are what
\* the inputs give.  For one process and at most one row from outside.
THEOREM PinnedFlagsAreFreshAlone ==
    ASSUME \A p, q \in Procs : p = q, MaxIngests \in {0, 1}
    PROVE  Spec => PinnedFlagIsFresh
<1>1. IInv => [\A p \in Procs :
                 LET f == Top(p)
                 IN (FinishInitialize(p) \/ Rebind(p)) /\ flag'[f.item] # flag[f.item] =>
                        \A d \in f.first .. f.last : ~Stale(f.item, d)]_vars
    BY FlagFresh
<1> QED  BY <1>1, InvariantHoldsAlone, PTL DEF PinnedFlagIsFresh

\* The same of any number of processes and rows, as above.
THEOREM PinnedFlagsAreFresh == Spec /\ []Apart /\ [][RepairAlone]_vars => PinnedFlagIsFresh
<1>1. IInv => [\A p \in Procs :
                 LET f == Top(p)
                 IN (FinishInitialize(p) \/ Rebind(p)) /\ flag'[f.item] # flag[f.item] =>
                        \A d \in f.first .. f.last : ~Stale(f.item, d)]_vars
    BY FlagFresh
<1> QED  BY <1>1, InvariantHolds, PTL DEF PinnedFlagIsFresh
-----------------------------------------------------------------------------
(* Windows: whatever else happens, they are united without a gap.  This     *)
(* needs no more than that builds, operations and flags are of days.        *)

Fields ==
    {"op", "item", "first", "last", "phase", "spec", "before", "receipt", "todo", "left", "unit",
     "unpublished", "result", "prior"}

\* An operation is of a range of days and works on days, and while it publishes
\* there are some.
Shaped(f) ==
    /\ DOMAIN f = Fields
    /\ f.item \in Items /\ f.todo \subseteq Items
    /\ f.first \in Days /\ f.last \in Days /\ f.first <= f.last
    /\ f.left \subseteq Days /\ f.unit \subseteq Days
    /\ f.phase \in Publishing => f.unit # {}

Stacked ==
    /\ DOMAIN call = Procs
    /\ \A p \in Procs : IsSeq(call[p]) /\ \A k \in 1 .. Len(call[p]) : Shaped(call[p][k])

FlagInv ==
    /\ DOMAIN flag = Items
    /\ \A i \in Items : flag[i].first \in Nat /\ flag[i].last \in Nat
    /\ AdvertisedIsCertified

WindowInv == Ranged /\ Stacked /\ FlagInv

\* The last element of a sequence is taken away.
LEMMA PoppedAny ==
    ASSUME NEW s, IsSeq(s), s # <<>>
    PROVE  LET t == SubSeq(s, 1, Len(s) - 1)
           IN /\ IsSeq(t) /\ Len(t) = Len(s) - 1 /\ Len(s) \in Nat \ {0}
              /\ \A k \in 1 .. Len(t) : k \in 1 .. Len(s) /\ t[k] = s[k]
<1>1. PICK S : s \in Seq(S)
    BY DEF IsSeq
<1>2. Len(s) \in Nat \ {0} /\ \A k \in 1 .. Len(s) : s[k] \in S
    BY <1>1
<1>3. PICK n \in Nat : n = Len(s) - 1
    BY <1>2
<1>4. /\ Len(SubSeq(s, 1, n)) = n /\ SubSeq(s, 1, n) \in Seq(S)
      /\ \A k \in 1 .. n : SubSeq(s, 1, n)[k] = s[k]
    BY <1>1, <1>2, <1>3
<1> QED  BY <1>2, <1>3, <1>4 DEF IsSeq

\* Its last operation is replaced by one of days.
LEMMA ReplacedShaped ==
    ASSUME NEW s, IsSeq(s), s # <<>>, \A k \in 1 .. Len(s) : Shaped(s[k]), NEW g, Shaped(g),
           NEW t, t = [s EXCEPT ![Len(s)] = g]
    PROVE  IsSeq(t) /\ \A k \in 1 .. Len(t) : Shaped(t[k])
<1>1. PICK S : s \in Seq(S)
    BY DEF IsSeq
<1> DEFINE T == S \cup {g}
<1>2. s \in Seq(T) /\ g \in T
  <2>1. Len(s) \in Nat /\ s \in [1 .. Len(s) -> S]
      BY <1>1
  <2>2. s \in [1 .. Len(s) -> T]
      BY <2>1
  <2> QED  BY <2>1, <2>2
<1> HIDE DEF T
<1>3. /\ t \in Seq(T) /\ Len(t) = Len(s) /\ Len(s) \in Nat \ {0} /\ t[Len(s)] = g
      /\ \A k \in 1 .. Len(s) : k # Len(s) => t[k] = s[k]
    BY <1>2
<1>4. IsSeq(t)
    BY <1>3 DEF IsSeq
<1>5. ASSUME NEW k \in 1 .. Len(t) PROVE Shaped(t[k])
    BY <1>3
<1> QED  BY <1>4, <1>5

\* A sequence that is not empty has a length.
LEMMA NotEmpty ==
    ASSUME NEW s, IsSeq(s), s # <<>>
    PROVE  Len(s) \in 1 .. Len(s)
<1>1. PICK S : s \in Seq(S)
    BY DEF IsSeq
<1> QED  BY <1>1

\* The operation a process is in is of days.
LEMMA ShapedTop ==
    ASSUME Stacked, NEW p \in Procs, call[p] # <<>>
    PROVE  Shaped(Top(p))
<1>1. PICK s : s = call[p]
    OBVIOUS
<1>2. IsSeq(s) /\ s # <<>> /\ \A k \in 1 .. Len(s) : Shaped(s[k])
    BY <1>1 DEF Stacked
<1>3. Len(s) \in 1 .. Len(s)
    BY <1>2, NotEmpty
<1> QED  BY <1>1, <1>2, <1>3 DEF Top

\* One process moves.
LEMMA StackMoves ==
    ASSUME Stacked, NEW p \in Procs, NEW x, call' = [call EXCEPT ![p] = x], IsSeq(x),
           \A k \in 1 .. Len(x) : Shaped(x[k])
    PROVE  Stacked'
<1>1. DOMAIN call' = Procs /\ call'[p] = x /\ \A q \in Procs : q # p => call'[q] = call[q]
    BY DEF Stacked
<1>2. ASSUME NEW q \in Procs
      PROVE  IsSeq(call'[q]) /\ \A k \in 1 .. Len(call'[q]) : Shaped(call'[q][k])
    BY <1>1 DEF Stacked
<1> QED  BY <1>1, <1>2 DEF Stacked, IsSeq, Shaped

\* It goes on with its operation.
LEMMA StackSet ==
    ASSUME Stacked, NEW p \in Procs, call[p] # <<>>, NEW g, Shaped(g), Set(p, g)
    PROVE  Stacked'
<1>1. PICK s : s = call[p]
    OBVIOUS
<1>2. PICK t : t = [s EXCEPT ![Len(s)] = g]
    OBVIOUS
<1>3. IsSeq(s) /\ \A k \in 1 .. Len(s) : Shaped(s[k])
    BY <1>1 DEF Stacked
<1>4. IsSeq(t) /\ \A k \in 1 .. Len(t) : Shaped(t[k])
    BY <1>1, <1>2, <1>3, ReplacedShaped
<1>6. call' = [call EXCEPT ![p] = t]
    BY <1>1, <1>2 DEF Set, Stacked
<1> QED  BY <1>4, <1>6, StackMoves

\* It gives up.
LEMMA StackEnds ==
    ASSUME Stacked, NEW p \in Procs, call' = [call EXCEPT ![p] = <<>>]
    PROVE  Stacked'
<1>1. IsSeq(<<>>) /\ Len(<<>>) = 0
    BY DEF IsSeq
<1>2. \A k \in 1 .. Len(<<>>) : Shaped(<<>>[k])
    BY <1>1
<1> QED  BY <1>1, <1>2, StackMoves

\* It begins another operation.
LEMMA StackPush ==
    ASSUME Stacked, NEW p \in Procs, NEW g, Shaped(g), call' = [call EXCEPT ![p] = Append(@, g)]
    PROVE  Stacked'
<1>1. PICK s : s = call[p]
    OBVIOUS
<1>2. PICK t : t = Append(s, g)
    OBVIOUS
<1>3. IsSeq(s) /\ \A k \in 1 .. Len(s) : Shaped(s[k])
    BY <1>1 DEF Stacked
<1>4. /\ IsSeq(t) /\ Len(s) \in Nat /\ Len(t) = Len(s) + 1 /\ t[Len(s) + 1] = g
      /\ \A k \in 1 .. Len(s) : t[k] = s[k]
    BY <1>2, <1>3, Appended
<1>5. \A k \in 1 .. Len(t) : Shaped(t[k])
  <2>1. \A k \in 1 .. Len(t) : k \in 1 .. Len(s) \/ k = Len(s) + 1
      BY <1>4
  <2> QED  BY <1>3, <1>4, <2>1
<1>6. call' = [call EXCEPT ![p] = t]
    BY <1>1, <1>2 DEF Stacked
<1> QED  BY <1>4, <1>5, <1>6, StackMoves

\* It is done with one, and the operation below has one Item less to wait for.
LEMMA StackReturn ==
    ASSUME Stacked, NEW p \in Procs, call[p] # <<>>, Return(p)
    PROVE  Stacked'
<1>1. PICK s : s = call[p]
    OBVIOUS
<1>2. PICK t : t = SubSeq(s, 1, Len(s) - 1)
    OBVIOUS
<1>3. IsSeq(s) /\ s # <<>> /\ \A k \in 1 .. Len(s) : Shaped(s[k])
    BY <1>1 DEF Stacked
<1>4. /\ IsSeq(t) /\ Len(s) \in Nat \ {0} /\ Len(t) = Len(s) - 1
      /\ \A k \in 1 .. Len(t) : k \in 1 .. Len(s) /\ t[k] = s[k]
    BY <1>2, <1>3, PoppedAny
<1>5. \A k \in 1 .. Len(t) : Shaped(t[k])
    BY <1>3, <1>4
<1>6. CASE Len(t) = 0
  <2>1. call' = [call EXCEPT ![p] = t]
      BY <1>1, <1>2, <1>6 DEF Return
  <2> QED  BY <1>4, <1>5, <2>1, StackMoves
<1>7. CASE Len(t) # 0
  <2>1. PICK g : g = [t[Len(t)] EXCEPT !.todo = @ \ {Top(p).item}]
      OBVIOUS
  <2>2. Len(t) \in 1 .. Len(t)
      BY <1>4, <1>7
  <2>3. PICK f : f = t[Len(t)]
      OBVIOUS
  <2>4. Shaped(f) /\ g = [f EXCEPT !.todo = @ \ {Top(p).item}]
      BY <1>5, <2>1, <2>2, <2>3
  <2>5. Shaped(g)
      BY <2>4 DEF Shaped, Fields
  <2>6. PICK u : u = [t EXCEPT ![Len(t)] = g]
      OBVIOUS
  <2>7. t # <<>>
      BY <1>7
  <2>8. IsSeq(u) /\ \A k \in 1 .. Len(u) : Shaped(u[k])
      BY <1>4, <1>5, <2>5, <2>6, <2>7, ReplacedShaped
  <2>10. call' = [call EXCEPT ![p] = u]
    <3>1. call' = [call EXCEPT ![p] = [t EXCEPT ![Len(t)].todo = @ \ {Top(p).item}]]
        BY <1>1, <1>2, <1>7 DEF Return
    <3>2. [t EXCEPT ![Len(t)].todo = @ \ {Top(p).item}] = u
        BY <2>1, <2>6
    <3> QED  BY <3>1, <3>2
  <2> QED  BY <2>8, <2>10, StackMoves
<1> QED  BY <1>6, <1>7

\* An operation begins with nothing to publish.
LEMMA ShapedFrame ==
    ASSUME NEW op, NEW i \in Items, NEW first \in Days, NEW last \in Days, first <= last
    PROVE  Shaped(Frame(op, i, first, last))
BY DEF Shaped, Fields, Frame, Publishing

\* It opens its next unit, if there is one.
LEMMA ShapedAdvance ==
    ASSUME NEW f, Shaped(f)
    PROVE  Shaped(Advance(f))
<1>1. CASE f.left = {}
  <2>1. Advance(f) = [f EXCEPT !.phase = "finish", !.unit = {}]
      BY <1>1 DEF Advance
  <2> QED  BY <2>1 DEF Shaped, Fields, Publishing
<1>2. CASE f.left # {}
  <2>1. PICK run : run = FirstRun(f.left)
      OBVIOUS
  <2>2. run # {} /\ run \subseteq Days
    <3>1. f.left \in SUBSET Days
        BY DEF Shaped
    <3> QED  BY <1>2, <2>1, <3>1, FirstRunFacts DEF Contiguous
  <2>3. Advance(f) = [f EXCEPT !.phase = "publish", !.unit = run, !.unpublished = run, !.left = @ \ run]
      BY <1>2, <2>1 DEF Advance
  <2> QED  BY <2>2, <2>3 DEF Shaped, Fields, Publishing
<1> QED  BY <1>1, <1>2

\* A call that fails ends.
LEMMA StackFail ==
    ASSUME Stacked, NEW p \in Procs, Fail(p)
    PROVE  Stacked'
BY StackEnds DEF Fail

\* A new call is of the days that are asked for.
LEMMA StackBegin ==
    ASSUME Stacked, NEW p \in Procs, NEW i \in Items,
           \/ \E op \in {"update", "initialize"} : Start(p, op, i)
           \/ StartResume(p, i)
    PROVE  Stacked'
<1>1. call[p] = <<>>
    BY DEF Start, StartResume
<1>2. ASSUME NEW g, Shaped(g), call' = [call EXCEPT ![p] = <<g>>] PROVE Stacked'
  <2>1. <<g>> = Append(<<>>, g)
      OBVIOUS
  <2>2. call' = [call EXCEPT ![p] = Append(@, g)]
      BY <1>1, <1>2, <2>1 DEF Stacked
  <2> QED  BY <1>2, <2>2, StackPush
<1>3. ASSUME NEW op, Start(p, op, i) PROVE Stacked'
  <2>1. PICK r \in Requests : call' = [call EXCEPT ![p] = <<Frame(op, i, r[1], r[2])>>]
      BY <1>3 DEF Start
  <2>2. Shaped(Frame(op, i, r[1], r[2]))
      BY RequestFacts, ShapedFrame
  <2> QED  BY <1>2, <2>1, <2>2
<1>4. CASE StartResume(p, i)
  <2>1. PICK row \in rows[i], r \in Requests :
            call' = [call EXCEPT ![p] =
               <<[Frame("resume", i, r[1], r[2]) EXCEPT
                    !.phase = "publish", !.todo = {}, !.receipt = row.receipt,
                    !.unit = r[1] .. r[2], !.unpublished = r[1] .. r[2]]>>]
      BY <1>4 DEF StartResume
  <2>2. PICK f : f = Frame("resume", i, r[1], r[2])
      OBVIOUS
  <2>3. Shaped(f)
      BY <2>2, RequestFacts, ShapedFrame
  <2>4. PICK unit : unit = r[1] .. r[2]
      OBVIOUS
  <2>5. unit \subseteq Days /\ unit # {}
    <3>1. r[1] \in Days /\ r[2] \in Days /\ r[1] <= r[2]
        BY RequestFacts
    <3>2. Contiguous(r[1] .. r[2])
        BY <3>1, IntervalContiguous
    <3> QED  BY <2>4, <3>2 DEF Contiguous
  <2>6. PICK g : g = [f EXCEPT !.phase = "publish", !.todo = {}, !.receipt = row.receipt,
                               !.unit = unit, !.unpublished = unit]
      OBVIOUS
  <2>7. Shaped(g)
      BY <2>3, <2>5, <2>6 DEF Shaped, Fields
  <2> QED  BY <1>2, <2>1, <2>2, <2>4, <2>6, <2>7
<1> QED  BY <1>3, <1>4

\* The steps of an update before it publishes.
LEMMA StackUpdate ==
    ASSUME Ranged, Stacked, NEW p \in Procs,
           \/ UpdateParent(p) \/ PlanUpdate(p) \/ FreezeInputs(p) \/ RecheckPlan(p) \/ DecideReuse(p)
    PROVE  Stacked'
<1>1. call[p] # <<>>
    BY DEF UpdateParent, PlanUpdate, FreezeInputs, RecheckPlan, DecideReuse, At
<1>2. PICK f : f = Top(p)
    OBVIOUS
<1>3. Shaped(f)
    BY <1>1, <1>2, ShapedTop
<1>4. CASE UpdateParent(p)
  <2>1. PICK n \in f.todo : call' = [call EXCEPT ![p] = Append(@, Frame("update", n, f.first, f.last))]
      BY <1>2, <1>4 DEF UpdateParent
  <2>2. Shaped(Frame("update", n, f.first, f.last))
      BY <1>3, ShapedFrame DEF Shaped
  <2> QED  BY <2>1, <2>2, StackPush
<1>5. CASE PlanUpdate(p)
  <2>1. CASE Fail(p)
      BY <2>1, StackFail
  <2>2. CASE Set(p, [f EXCEPT !.phase = "freeze", !.left = PlanOf(f).days])
    <3>1. PICK left : left = PlanOf(f).days
        OBVIOUS
    <3>2. left \subseteq Days
      <4>1. left \subseteq f.first .. f.last
        <5>1. f.item \in Items /\ f.first \in Days /\ f.last \in Days
            BY <1>3 DEF Shaped
        <5>2. PICK plan : plan = Plan(f.item, f.spec, f.first, f.last)
            OBVIOUS
        <5>3. plan.days \subseteq f.first .. f.last
            BY <5>1, <5>2, PlanWithin
        <5> QED  BY <3>1, <5>2, <5>3 DEF PlanOf
      <4> QED  BY <1>3, <4>1, DayFacts DEF Shaped
    <3>3. PICK g : g = [f EXCEPT !.phase = "freeze", !.left = left]
        OBVIOUS
    <3>4. Shaped(g)
        BY <1>3, <3>2, <3>3 DEF Shaped, Fields, Publishing
    <3> QED  BY <1>1, <2>2, <3>1, <3>3, <3>4, StackSet
  <2>3. CASE Set(p, [f EXCEPT !.phase = "reuse", !.prior = Predecessor(f.item, f.spec, f.first)])
    <3>1. PICK prior : prior = Predecessor(f.item, f.spec, f.first)
        OBVIOUS
    <3>2. PICK g : g = [f EXCEPT !.phase = "reuse", !.prior = prior]
        OBVIOUS
    <3>3. Shaped(g)
        BY <1>3, <3>2 DEF Shaped, Fields, Publishing
    <3> QED  BY <1>1, <2>3, <3>1, <3>2, <3>3, StackSet
  <2>4. PlanOf(f).mode \in {"blocked", "build", "unchanged"}
      BY PlanModes DEF PlanOf
  <2> QED  BY <1>2, <1>5, <2>1, <2>2, <2>3, <2>4 DEF PlanUpdate
<1>6. CASE FreezeInputs(p)
  <2>1. PICK k : k = Identity(Capture(f.item, f.last))
      OBVIOUS
  <2>2. PICK g : g = [f EXCEPT !.phase = "recheck", !.receipt = k]
      OBVIOUS
  <2>3. Shaped(g)
      BY <1>3, <2>2 DEF Shaped, Fields, Publishing
  <2>4. Set(p, g)
      BY <1>2, <1>6, <2>1, <2>2 DEF FreezeInputs
  <2> QED  BY <1>1, <2>3, <2>4, StackSet
<1>7. CASE RecheckPlan(p)
  <2>1. CASE Fail(p)
      BY <2>1, StackFail
  <2>2. CASE Set(p, Advance(f))
      BY <1>1, <1>3, <2>2, ShapedAdvance, StackSet
  <2> QED  BY <1>2, <1>7, <2>1, <2>2 DEF RecheckPlan
<1>8. CASE DecideReuse(p)
  <2>1. PICK k, phase : /\ phase \notin Publishing
                        /\ Set(p, [f EXCEPT !.phase = phase, !.receipt = k])
    <3>1. PICK original : original = builds[f.item][f.prior].receipt
        OBVIOUS
    <3>2. PICK new : new = Identity(Capture(f.item, f.last))
        OBVIOUS
    <3>3. \/ Set(p, [f EXCEPT !.phase = "refresh", !.receipt = original])
          \/ Set(p, [f EXCEPT !.phase = "rebind", !.receipt = new])
        BY <1>2, <1>8, <3>1, <3>2 DEF DecideReuse
    <3>4. "refresh" \notin Publishing /\ "rebind" \notin Publishing
        BY DEF Publishing
    <3> QED  BY <3>3, <3>4
  <2>2. PICK g : g = [f EXCEPT !.phase = phase, !.receipt = k]
      OBVIOUS
  <2>3. Shaped(g)
      BY <1>3, <2>1, <2>2 DEF Shaped, Fields
  <2> QED  BY <1>1, <2>1, <2>2, <2>3, StackSet
<1> QED  BY <1>4, <1>5, <1>6, <1>7, <1>8

\* The steps of a unit.
LEMMA StackPublish ==
    ASSUME Stacked, NEW p \in Procs, PublishRows(p) \/ Settle(p) \/ RepairRows(p)
    PROVE  Stacked'
<1>1. call[p] # <<>>
    BY DEF PublishRows, Settle, RepairRows, At
<1>2. PICK f : f = Top(p)
    OBVIOUS
<1>3. Shaped(f) /\ f.unit # {}
  <2>1. f.phase \in Publishing
      BY <1>2 DEF PublishRows, Settle, RepairRows, At, Publishing
  <2> QED  BY <1>1, <1>2, <2>1, ShapedTop DEF Shaped
<1>4. ASSUME NEW days, NEW phase, Publish(p, days, phase) PROVE Stacked'
  <2>1. CASE Fail(p)
      BY <2>1, StackFail
  <2>2. CASE ~Fail(p)
    <3>1. PICK left, result, next :
              Set(p, [f EXCEPT !.unpublished = left, !.result = result, !.phase = next])
      <4>1. PICK left : left = f.unpublished \ days
          OBVIOUS
      <4>2. PICK result : result = IF Differs(f, days) # {} THEN Len(log) + 1 ELSE ResultCommit(f.item)
          OBVIOUS
      <4>3. PICK next : next = IF f.unpublished = days THEN phase ELSE "publish"
          OBVIOUS
      <4>4. Set(p, [f EXCEPT !.unpublished = left, !.result = result, !.phase = next])
        <5>1. Set(p, [f EXCEPT !.unpublished = @ \ days,
                               !.result = IF Differs(f, days) # {} THEN Len(log) + 1
                                          ELSE ResultCommit(f.item),
                               !.phase = IF f.unpublished = days THEN phase ELSE "publish"])
            BY <1>2, <1>4, <2>2 DEF Publish
        <5> QED  BY <1>3, <4>1, <4>2, <4>3, <5>1 DEF Shaped, Fields
      <4> QED  BY <4>4
    <3>2. PICK g : g = [f EXCEPT !.unpublished = left, !.result = result, !.phase = next]
        OBVIOUS
    <3>3. Shaped(g)
        BY <1>3, <3>2 DEF Shaped, Fields
    <3> QED  BY <1>1, <3>1, <3>2, <3>3, StackSet
  <2> QED  BY <2>1, <2>2
<1>5. CASE Settle(p)
  <2>1. PICK left, next : Set(p, [f EXCEPT !.phase = next, !.unpublished = left])
    <3>1. PICK left : left = Differs(f, f.unit)
        OBVIOUS
    <3>2. PICK next : next = IF left = {} THEN "certify" ELSE "repair"
        OBVIOUS
    <3>3. Set(p, [f EXCEPT !.phase = next, !.unpublished = left])
        BY <1>2, <1>5, <3>1, <3>2 DEF Settle
    <3> QED  BY <3>3
  <2>2. PICK g : g = [f EXCEPT !.phase = next, !.unpublished = left]
      OBVIOUS
  <2>3. Shaped(g)
      BY <1>3, <2>2 DEF Shaped, Fields
  <2> QED  BY <1>1, <2>1, <2>2, <2>3, StackSet
<1> QED  BY <1>4, <1>5 DEF PublishRows, RepairRows

\* The steps that end a unit or an operation.
LEMMA StackCertify ==
    ASSUME Stacked, NEW p \in Procs,
           \/ CertifyUnit(p) \/ FinishUpdate(p) \/ Rebind(p) \/ RefreshFlag(p)
           \/ FinishInitialize(p) \/ FinishResume(p)
    PROVE  Stacked'
<1>1. call[p] # <<>>
    BY DEF CertifyUnit, FinishUpdate, Rebind, RefreshFlag, FinishInitialize, FinishResume, At
<1>2. PICK f : f = Top(p)
    OBVIOUS
<1>3. Shaped(f)
    BY <1>1, <1>2, ShapedTop
<1>4. CASE Return(p)
    BY <1>1, <1>4, StackReturn
<1>5. CASE call' = [call EXCEPT ![p] = <<>>]
    BY <1>5, StackEnds
<1>6. CASE Set(p, Advance(f))
    BY <1>1, <1>3, <1>6, ShapedAdvance, StackSet
<1>7. CASE Goto(p, "units")
  <2>1. PICK g : g = [f EXCEPT !.phase = "units"]
      OBVIOUS
  <2>2. Shaped(g)
      BY <1>3, <2>1 DEF Shaped, Fields, Publishing
  <2> QED  BY <1>1, <1>2, <1>7, <2>1, <2>2, StackSet DEF Goto
<1>8. CASE CertifyUnit(p)
    BY <1>2, <1>6, <1>7, <1>8 DEF CertifyUnit
<1> QED  BY <1>4, <1>5, <1>8 DEF FinishUpdate, Rebind, RefreshFlag, FinishInitialize, FinishResume, Fail

\* The steps of an initialization.
LEMMA StackInitialize ==
    ASSUME Stacked, NEW p \in Procs, AdmitInitialize(p) \/ InitializeUnit(p)
    PROVE  Stacked'
<1>1. call[p] # <<>>
    BY DEF AdmitInitialize, InitializeUnit, At
<1>2. PICK f : f = Top(p)
    OBVIOUS
<1>3. Shaped(f)
    BY <1>1, <1>2, ShapedTop
<1>4. CASE AdmitInitialize(p)
  <2>1. CASE Fail(p)
      BY <2>1, StackFail
  <2>2. CASE \E k : Set(p, [f EXCEPT !.phase = "units", !.receipt = k])
    <3>1. PICK k : Set(p, [f EXCEPT !.phase = "units", !.receipt = k])
        BY <2>2
    <3>2. PICK g : g = [f EXCEPT !.phase = "units", !.receipt = k]
        OBVIOUS
    <3>3. Shaped(g)
        BY <1>3, <3>2 DEF Shaped, Fields, Publishing
    <3> QED  BY <1>1, <3>1, <3>2, <3>3, StackSet
  <2> QED  BY <1>2, <1>4, <2>1, <2>2 DEF AdmitInitialize
<1>5. CASE InitializeUnit(p)
  <2>1. PICK gap \in SUBSET Days : gap = Gap(f) /\ gap # {}
    <3>1. f.first .. f.last \subseteq Days
        BY <1>3, DayFacts DEF Shaped
    <3> QED  BY <1>2, <1>5, <3>1 DEF InitializeUnit, Gap
  <2>2. PICK stop \in FirstRun(gap) :
            Set(p, [f EXCEPT !.phase = "publish", !.unit = Min(gap) .. stop,
                             !.unpublished = Min(gap) .. stop])
      BY <1>2, <1>5, <2>1 DEF InitializeUnit
  <2>3. PICK first \in Days : first = Min(gap) /\ \A x \in gap : first <= x
      BY <2>1, FirstDay
  <2>4. stop \in Days /\ first <= stop
      BY <2>1, <2>3 DEF FirstRun
  <2>5. PICK unit : unit = first .. stop
      OBVIOUS
  <2>6. unit \subseteq Days /\ unit # {}
    <3>1. first \in first .. stop
        BY <2>4, DayFacts
    <3> QED  BY <2>4, <2>5, <3>1, DayFacts
  <2>7. PICK g : g = [f EXCEPT !.phase = "publish", !.unit = unit, !.unpublished = unit]
      OBVIOUS
  <2>8. Shaped(g)
      BY <1>3, <2>6, <2>7 DEF Shaped, Fields
  <2>9. Set(p, g)
      BY <2>2, <2>3, <2>5, <2>7
  <2> QED  BY <1>1, <2>8, <2>9, StackSet
<1> QED  BY <1>4, <1>5

\* Operations stay of days.
LEMMA StacksHold ==
    ASSUME Ranged, Stacked, [Next]_vars
    PROVE  Stacked'
<1>1. CASE call' = call
    BY <1>1 DEF Stacked, IsSeq, Shaped
<1>2. CASE Environment
  <2>1. ASSUME NEW p \in Procs, Fail(p) \/ call' = [call EXCEPT ![p] = <<>>] PROVE Stacked'
      BY <2>1, StackFail, StackEnds
  <2>2. \/ call' = call
        \/ \E p \in Procs : Fail(p) \/ call' = [call EXCEPT ![p] = <<>>]
      BY <1>2 DEF Environment, RawCommit, RawComplete, Ingest, Redefine, CancelInitialize, Interrupt,
                  Die, Abandon
  <2> QED  BY <1>1, <2>1, <2>2
<1>3. ASSUME NEW p \in Procs, Begin(p) PROVE Stacked'
  <2>1. PICK i \in Items : \/ \E op \in {"update", "initialize"} : Start(p, op, i)
                           \/ StartResume(p, i)
      BY <1>3, DeclarationAssumption DEF Begin
  <2> QED  BY <2>1, StackBegin
<1>4. ASSUME NEW p \in Procs, Proceed(p) PROVE Stacked'
    BY <1>4, StackUpdate, StackPublish, StackCertify, StackInitialize DEF Proceed
<1> QED  BY <1>1, <1>2, <1>3, <1>4 DEF Next, vars

\* A step certifies at most one more range of an Item.
Certifying(i) == builds'[i] = builds[i] \/ \E b : builds'[i] = Append(builds[i], b)

\* What was certified stays so.
LEMMA CertifiedStay ==
    ASSUME Ranged, NEW i \in Items, Certifying(i), NEW k \in 1 .. Len(builds[i])
    PROVE  k \in 1 .. Len(builds'[i]) /\ builds'[i][k] = builds[i][k]
<1>1. IsSeq(builds[i]) /\ Len(builds[i]) \in Nat
    BY Appended DEF Ranged
<1>2. ASSUME NEW b, builds'[i] = Append(builds[i], b)
      PROVE  Len(builds'[i]) = Len(builds[i]) + 1 /\ builds'[i][k] = builds[i][k]
    BY <1>1, <1>2, Appended
<1> QED  BY <1>1, <1>2 DEF Certifying

\* A flag that stays is backed as before.
LEMMA FlagStays ==
    ASSUME Ranged, FlagInv, NEW i \in Items, Certifying(i), flag'[i] = flag[i],
           NEW d \in flag[i].first .. flag[i].last
    PROVE  \E k \in Whole(i)' : builds'[i][k].spec = flag'[i].spec
                                /\ d \in builds'[i][k].first .. builds'[i][k].last
<1>1. PICK k \in Whole(i) : /\ builds[i][k].spec = flag[i].spec
                            /\ d \in builds[i][k].first .. builds[i][k].last
    BY DEF FlagInv, AdvertisedIsCertified
<1>2. k \in 1 .. Len(builds'[i]) /\ builds'[i][k] = builds[i][k]
    BY <1>1, CertifiedStay DEF Whole
<1> QED  BY <1>1, <1>2 DEF Whole

\* All stay so in a step that writes none.
LEMMA FlagsStay ==
    ASSUME Ranged, FlagInv, flag' = flag, \A i \in Items : Certifying(i)
    PROVE  FlagInv'
<1>1. \A i \in Items : \A d \in flag[i].first .. flag[i].last :
         \E k \in Whole(i)' : builds'[i][k].spec = flag'[i].spec
                              /\ d \in builds'[i][k].first .. builds'[i][k].last
    BY FlagStays
<1> QED  BY <1>1 DEF FlagInv, AdvertisedIsCertified

\* The least and the greatest of two numbers.
LEMMA OfTwo ==
    ASSUME NEW a \in Nat, NEW b \in Nat
    PROVE  /\ Min({a, b}) = IF a <= b THEN a ELSE b
           /\ Max({a, b}) = IF a <= b THEN b ELSE a
<1>1. PICK m \in {a, b} : m = IF a <= b THEN a ELSE b
    OBVIOUS
<1>2. m <= a /\ m <= b
    BY <1>1
<1>3. \A x \in {a, b} : x <= a /\ x <= b => x = m
    BY <1>1
<1>4. Min({a, b}) = m
    BY <1>2, <1>3 DEF Min
<1>5. PICK n \in {a, b} : n = IF a <= b THEN b ELSE a
    OBVIOUS
<1>6. a <= n /\ b <= n
    BY <1>5
<1>7. \A x \in {a, b} : a <= x /\ b <= x => x = n
    BY <1>5
<1>8. Max({a, b}) = n
    BY <1>6, <1>7 DEF Max
<1> QED  BY <1>1, <1>4, <1>5, <1>8

\* What is written spans no day but those of the new window and, of the same
\* definition, those of the old one.
LEMMA WindowsUnite ==
    ASSUME NEW i, NEW s, NEW first \in Nat, NEW last \in Nat, NEW target, NEW build,
           flag[i].first \in Nat, flag[i].last \in Nat
    PROVE  LET new == WriteCompletion(i, s, first, last, target, build)
           IN /\ new.first \in Nat /\ new.last \in Nat
              /\ \A d \in new.first .. new.last :
                   \/ new.spec = s /\ d \in first .. last
                   \/ new.spec = flag[i].spec /\ d \in flag[i].first .. flag[i].last
<1>1. PICK old : old = flag[i]
    OBVIOUS
<1>2. PICK new : new = WriteCompletion(i, s, first, last, target, build)
    OBVIOUS
<1>3. \/ new = old
      \/ new.spec = s /\ new.first = first /\ new.last = last
      \/ /\ new.spec = s /\ old.spec = s /\ first <= old.last + 1 /\ old.first <= last + 1
         /\ new.first = Min({first, old.first}) /\ new.last = Max({last, old.last})
    BY <1>1, <1>2 DEF WriteCompletion
<1>4. old.first \in Nat /\ old.last \in Nat
    BY <1>1
<1>5. CASE new = old
    BY <1>1, <1>2, <1>4, <1>5
<1>6. CASE new.spec = s /\ new.first = first /\ new.last = last
    BY <1>2, <1>6
<1>7. CASE /\ new.spec = s /\ old.spec = s /\ first <= old.last + 1 /\ old.first <= last + 1
           /\ new.first = Min({first, old.first}) /\ new.last = Max({last, old.last})
  <2>1. /\ new.first = IF first <= old.first THEN first ELSE old.first
        /\ new.last = IF last <= old.last THEN old.last ELSE last
      BY <1>4, <1>7, OfTwo
  <2>2. \A d \in new.first .. new.last : d \in first .. last \/ d \in old.first .. old.last
      BY <1>4, <1>7, <2>1
  <2> QED  BY <1>1, <1>2, <1>4, <1>7, <2>1, <2>2
<1> QED  BY <1>3, <1>5, <1>6, <1>7

\* A flag written with the certificate of a range is backed by it and by those of
\* the window it had.
LEMMA FlagWritten ==
    ASSUME Ranged, FlagInv, NEW i \in Items, NEW b, b.kind = "whole", b.first \in Nat, b.last \in Nat,
           Certify(i, b), PublishFlag(i, b)
    PROVE  FlagInv'
<1>1. PICK new : new = WriteCompletion(i, b.spec, b.first, b.last, b.last, Len(builds[i]) + 1)
    OBVIOUS
<1>2. flag' = [flag EXCEPT ![i] = new] /\ builds' = [builds EXCEPT ![i] = Append(@, b)]
    BY <1>1 DEF PublishFlag, Certify
<1>3. /\ new.first \in Nat /\ new.last \in Nat
      /\ \A d \in new.first .. new.last :
           \/ new.spec = b.spec /\ d \in b.first .. b.last
           \/ new.spec = flag[i].spec /\ d \in flag[i].first .. flag[i].last
    BY <1>1, WindowsUnite DEF FlagInv
<1>4. \A j \in Items : Certifying(j)
    BY <1>2 DEF Certifying, Ranged
<1>5. DOMAIN flag' = Items /\ flag'[i] = new /\ \A j \in Items : j # i => flag'[j] = flag[j]
    BY <1>2 DEF FlagInv
<1>6. ASSUME NEW d \in new.first .. new.last
      PROVE  \E k \in Whole(i)' : builds'[i][k].spec = new.spec
                                  /\ d \in builds'[i][k].first .. builds'[i][k].last
  <2>1. CASE new.spec = b.spec /\ d \in b.first .. b.last
    <3>1. PICK k : k = Len(builds[i]) + 1
        OBVIOUS
    <3>2. k \in 1 .. Len(builds'[i]) /\ builds'[i][k] = b
        BY <1>2, <3>1, Appended DEF Ranged
    <3> QED  BY <2>1, <3>2 DEF Whole
  <2>2. CASE new.spec = flag[i].spec /\ d \in flag[i].first .. flag[i].last
    <3>1. PICK k \in Whole(i) : /\ builds[i][k].spec = flag[i].spec
                                /\ d \in builds[i][k].first .. builds[i][k].last
        BY <2>2 DEF FlagInv, AdvertisedIsCertified
    <3>2. k \in 1 .. Len(builds'[i]) /\ builds'[i][k] = builds[i][k]
        BY <1>4, <3>1, CertifiedStay DEF Whole
    <3> QED  BY <2>2, <3>1, <3>2 DEF Whole
  <2> QED  BY <1>3, <1>6, <2>1, <2>2
<1>7. ASSUME NEW j \in Items, j # i, NEW d \in flag'[j].first .. flag'[j].last
      PROVE  \E k \in Whole(j)' : builds'[j][k].spec = flag'[j].spec
                                  /\ d \in builds'[j][k].first .. builds'[j][k].last
  <2>1. flag'[j] = flag[j] /\ d \in flag[j].first .. flag[j].last
      BY <1>5, <1>7
  <2> QED  BY <1>4, <1>7, <2>1, FlagStays
<1>8. \A j \in Items : flag'[j].first \in Nat /\ flag'[j].last \in Nat
    BY <1>3, <1>5 DEF FlagInv
<1> QED  BY <1>5, <1>6, <1>7, <1>8 DEF FlagInv, AdvertisedIsCertified

\* The steps that write no flag.
LEMMA FlagsStayIn ==
    ASSUME Ranged, FlagInv, UNCHANGED <<builds, flag>>
    PROVE  FlagInv'
BY FlagsStay DEF Certifying

\* What is certified is of days.
LEMMA RangedGrows ==
    ASSUME Ranged, NEW i \in Items, NEW b, b.first \in Days, b.last \in Days, Certify(i, b)
    PROVE  Ranged'
<1>1. ASSUME NEW j \in Items
      PROVE  /\ IsSeq(builds'[j])
             /\ \A k \in 1 .. Len(builds'[j]) :
                  builds'[j][k].first \in Days /\ builds'[j][k].last \in Days
  <2>1. CASE j # i
      BY <2>1 DEF Certify, Ranged
  <2>2. CASE j = i
    <3>1. PICK l : l = builds[i]
        OBVIOUS
    <3>2. IsSeq(l) /\ \A k \in 1 .. Len(l) : l[k].first \in Days /\ l[k].last \in Days
        BY <3>1 DEF Ranged
    <3>3. PICK m : m = Append(l, b)
        OBVIOUS
    <3>4. /\ IsSeq(m) /\ Len(l) \in Nat /\ Len(m) = Len(l) + 1 /\ m[Len(l) + 1] = b
          /\ \A k \in 1 .. Len(l) : m[k] = l[k]
        BY <3>2, <3>3, Appended
    <3>5. \A k \in 1 .. Len(m) : k \in 1 .. Len(l) \/ k = Len(l) + 1
        BY <3>4
    <3>6. builds'[j] = m
        BY <2>2, <3>1, <3>3 DEF Certify, Ranged
    <3> QED  BY <3>2, <3>4, <3>5, <3>6
  <2> QED  BY <2>1, <2>2
<1>2. DOMAIN builds' = Items
    BY DEF Certify, Ranged
<1> QED  BY <1>1, <1>2 DEF Ranged, IsSeq

\* Until then it is what it was.
LEMMA RangedStays == ASSUME Ranged, builds' = builds PROVE Ranged'
BY DEF Ranged, IsSeq

\* The steps of an operation that write its flag.
LEMMA FlagSteps ==
    ASSUME WindowInv, NEW p \in Procs,
           \/ CertifyUnit(p) \/ FinishUpdate(p) \/ Rebind(p) \/ RefreshFlag(p)
           \/ FinishInitialize(p) \/ FinishResume(p)
    PROVE  Ranged' /\ FlagInv'
<1>1. PICK f : f = Top(p)
    OBVIOUS
<1>2. Ranged /\ FlagInv
    BY DEF WindowInv
<1>3. f.item \in Items /\ f.first \in Days /\ f.last \in Days /\ f.unit \subseteq Days
      /\ f.first \in Nat /\ f.last \in Nat /\ (f.phase \in Publishing => f.unit # {})
  <2>1. call[p] # <<>>
      BY DEF CertifyUnit, FinishUpdate, Rebind, RefreshFlag, FinishInitialize, FinishResume, At
  <2> QED  BY <1>1, <2>1, ShapedTop, DayFacts DEF WindowInv, Shaped
<1>4. ASSUME UNCHANGED <<builds, flag>> PROVE Ranged' /\ FlagInv'
    BY <1>2, <1>4, FlagsStayIn, RangedStays
<1>5. ASSUME NEW b, b.first \in Days, b.last \in Days, Certify(f.item, b),
             (b.kind = "whole" /\ PublishFlag(f.item, b)) \/ flag' = flag
      PROVE  Ranged' /\ FlagInv'
  <2>0. Ranged' /\ b.first \in Nat /\ b.last \in Nat
      BY <1>2, <1>3, <1>5, RangedGrows, DayFacts
  <2>1. CASE b.kind = "whole" /\ PublishFlag(f.item, b)
      BY <1>2, <1>3, <1>5, <2>0, <2>1, FlagWritten
  <2>2. CASE flag' = flag
    <3>1. \A i \in Items : Certifying(i)
        BY <1>2, <1>3, <1>5 DEF Certify, Certifying, Ranged
    <3> QED  BY <1>2, <2>0, <2>2, <3>1, FlagsStay
  <2> QED  BY <1>5, <2>1, <2>2
<1>6. ASSUME NEW kind, CertifyUnit(p) \/ FinishResume(p)
      PROVE  /\ UnitBuild(f, kind).kind = kind /\ UnitBuild(f, kind).first \in Days
             /\ UnitBuild(f, kind).last \in Days
  <2>1. f.unit \in SUBSET Days /\ f.unit # {}
      BY <1>1, <1>3, <1>6 DEF CertifyUnit, FinishResume, At, Publishing
  <2>2. Min(f.unit) \in Days /\ Max(f.unit) \in Days
      BY <2>1, FirstDay, LastOfDays
  <2> QED  BY <2>2 DEF UnitBuild, Build
<1>7. ASSUME NEW result
      PROVE  LET b == Build("whole", f.spec, f.first, f.last, f.receipt, result)
             IN b.kind = "whole" /\ b.first \in Days /\ b.last \in Days
    BY <1>3 DEF Build
<1>8. CASE CertifyUnit(p)
  <2>1. CASE f.op = "initialize"
    <3>1. flag' = flag /\ Certify(f.item, UnitBuild(f, "unit"))
        BY <1>1, <1>8, <2>1 DEF CertifyUnit
    <3> QED  BY <1>5, <1>6, <1>8, <3>1
  <2>2. CASE f.op # "initialize"
    <3>1. Certify(f.item, UnitBuild(f, "whole")) /\ PublishFlag(f.item, UnitBuild(f, "whole"))
        BY <1>1, <1>8, <2>2 DEF CertifyUnit
    <3> QED  BY <1>5, <1>6, <1>8, <3>1
  <2> QED  BY <2>1, <2>2
<1>9. CASE FinishResume(p)
  <2>1. CASE UNCHANGED <<builds, flag>>
      BY <1>4, <2>1
  <2>2. CASE Certify(f.item, UnitBuild(f, "whole")) /\ PublishFlag(f.item, UnitBuild(f, "whole"))
      BY <1>5, <1>6, <1>9, <2>2
  <2> QED  BY <1>1, <1>9, <2>1, <2>2 DEF FinishResume
<1>10. CASE FinishUpdate(p)
  <2>1. CASE UNCHANGED <<builds, flag>>
      BY <1>4, <2>1
  <2>2. PICK b : b = Build("whole", f.spec, f.first, f.last, f.receipt, f.result)
      OBVIOUS
  <2>3. CASE Certify(f.item, b) /\ PublishFlag(f.item, b)
      BY <1>5, <1>7, <2>2, <2>3
  <2> QED  BY <1>1, <1>10, <2>1, <2>2, <2>3 DEF FinishUpdate
<1>11. CASE Rebind(p)
  <2>1. CASE UNCHANGED <<builds, flag>>
      BY <1>4, <2>1
  <2>2. PICK b : b = Build("whole", f.spec, f.first, f.last, f.receipt, ResultCommit(f.item))
      OBVIOUS
  <2>3. CASE Certify(f.item, b) /\ PublishFlag(f.item, b)
      BY <1>5, <1>7, <2>2, <2>3
  <2> QED  BY <1>1, <1>11, <2>1, <2>2, <2>3 DEF Rebind
<1>12. CASE FinishInitialize(p)
  <2>1. CASE UNCHANGED <<builds, flag>>
      BY <1>4, <2>1
  <2>2. PICK b : b = Build("whole", f.spec, f.first, f.last, f.receipt, Max({u.result : u \in Reusable(f)}))
      OBVIOUS
  <2>3. CASE Certify(f.item, b) /\ (PublishFlag(f.item, b) \/ flag' = flag)
      BY <1>5, <1>7, <2>2, <2>3
  <2> QED  BY <1>1, <1>12, <2>1, <2>2, <2>3 DEF FinishInitialize
<1>13. CASE RefreshFlag(p)
  <2>1. builds' = builds
      BY <1>13 DEF RefreshFlag
  <2>2. CASE flag' = flag
      BY <1>4, <2>1, <2>2
  <2>3. CASE flag' # flag
    <3>1. PICK old : old = flag[f.item]
        OBVIOUS
    <3>2. PICK new : new = WriteCompletion(f.item, old.spec, old.first, old.last, old.target, old.build)
        OBVIOUS
    <3>3. flag' = [flag EXCEPT ![f.item] = new]
        BY <1>1, <1>13, <2>3, <3>1, <3>2 DEF RefreshFlag
    <3>4. /\ new.first \in Nat /\ new.last \in Nat
          /\ \A d \in new.first .. new.last :
               new.spec = flag[f.item].spec /\ d \in flag[f.item].first .. flag[f.item].last
        BY <1>2, <1>3, <3>1, <3>2, WindowsUnite DEF FlagInv
    <3>5. DOMAIN flag' = Items /\ flag'[f.item] = new /\ \A j \in Items : j # f.item => flag'[j] = flag[j]
        BY <1>2, <1>3, <3>3 DEF FlagInv
    <3>6. ASSUME NEW d \in new.first .. new.last
          PROVE  \E k \in Whole(f.item) : builds[f.item][k].spec = new.spec
                                          /\ d \in builds[f.item][k].first .. builds[f.item][k].last
      <4>1. new.spec = flag[f.item].spec /\ d \in flag[f.item].first .. flag[f.item].last
          BY <3>4
      <4> QED  BY <1>2, <1>3, <4>1 DEF FlagInv, AdvertisedIsCertified
    <3>7. \A j \in Items : Whole(j)' = Whole(j)
        BY <2>1 DEF Whole
    <3>8. \A j \in Items : flag'[j].first \in Nat /\ flag'[j].last \in Nat
        BY <1>2, <3>4, <3>5 DEF FlagInv
    <3>9. ASSUME NEW j \in Items, NEW d \in flag'[j].first .. flag'[j].last
          PROVE  \E k \in Whole(j)' : builds'[j][k].spec = flag'[j].spec
                                       /\ d \in builds'[j][k].first .. builds'[j][k].last
      <4>1. CASE j = f.item
          BY <2>1, <3>5, <3>6, <3>7, <3>9, <4>1
      <4>2. CASE j # f.item
        <5>1. flag'[j] = flag[j] /\ d \in flag[j].first .. flag[j].last
            BY <3>5, <3>9, <4>2
        <5> QED  BY <1>2, <2>1, <3>7, <5>1 DEF FlagInv, AdvertisedIsCertified
      <4> QED  BY <4>1, <4>2
    <3>10. Ranged'
        BY <1>2, <2>1, RangedStays
    <3> QED  BY <3>5, <3>8, <3>9, <3>10 DEF FlagInv, AdvertisedIsCertified
  <2> QED  BY <2>2, <2>3
<1> QED  BY <1>8, <1>9, <1>10, <1>11, <1>12, <1>13

\* Windows hold step by step.
LEMMA WindowsHold == ASSUME WindowInv, [Next]_vars PROVE WindowInv'
<1>1. Ranged /\ FlagInv /\ Stacked'
    BY StacksHold DEF WindowInv
<1>2. CASE UNCHANGED <<builds, flag>>
    BY <1>1, <1>2, FlagsStayIn, RangedStays DEF WindowInv
<1>3. CASE UNCHANGED vars
    BY <1>2, <1>3 DEF vars, evidence
<1>4. CASE Environment
    BY <1>2, <1>4 DEF Environment, RawCommit, RawComplete, Ingest, Redefine, CancelInitialize, Interrupt,
                      Die, Abandon, evidence
<1>5. ASSUME NEW p \in Procs, Begin(p) PROVE WindowInv'
    BY <1>2, <1>5 DEF Begin, Start, StartResume, evidence
<1>6. ASSUME NEW p \in Procs, Proceed(p) PROVE WindowInv'
  <2>1. CASE \/ UpdateParent(p) \/ PlanUpdate(p) \/ FreezeInputs(p) \/ RecheckPlan(p)
             \/ PublishRows(p) \/ Settle(p) \/ RepairRows(p) \/ DecideReuse(p)
             \/ AdmitInitialize(p) \/ InitializeUnit(p)
      BY <1>2, <2>1 DEF UpdateParent, PlanUpdate, FreezeInputs, RecheckPlan, PublishRows, Settle,
                        RepairRows, DecideReuse, AdmitInitialize, InitializeUnit, evidence
  <2> QED  BY <1>1, <1>6, <2>1, FlagSteps DEF Proceed, WindowInv
<1> QED  BY <1>3, <1>4, <1>5, <1>6 DEF Next

\* At first no flag advertises anything.
LEMMA WindowsBegin == ASSUME Init PROVE WindowInv
<1>1. IsSeq(<<>>) /\ Len(<<>>) = 0
    BY DEF IsSeq
<1>2. \A p \in Procs : call[p] = <<>>
    BY DEF Init
<1>3. Stacked
  <2>1. ASSUME NEW p \in Procs PROVE IsSeq(call[p]) /\ \A k \in 1 .. Len(call[p]) : Shaped(call[p][k])
      BY <1>1, <1>2
  <2> QED  BY <2>1 DEF Init, Stacked
<1>4. Ranged
    BY <1>1 DEF Init, Ranged
<1>5. FlagInv
  <2>1. \A i \in Items : flag[i].first = 1 /\ flag[i].last = 0
      BY DEF Init, NoFlag
  <2> QED  BY <2>1 DEF Init, FlagInv, AdvertisedIsCertified
<1> QED  BY <1>3, <1>4, <1>5 DEF WindowInv

\* No flag advertises a day that no completed build of its definition covers,
\* however windows were united, a reuse refreshed them or a definition came back,
\* and whoever else writes (data_meta.write_completion, items/api.py).
THEOREM WindowsAreCertified == Spec => []AdvertisedIsCertified
<1>1. Init => WindowInv
    BY WindowsBegin
<1>2. WindowInv /\ [Next]_vars => WindowInv'
    BY WindowsHold
<1>3. WindowInv => AdvertisedIsCertified
    BY DEF WindowInv, FlagInv
<1> QED  BY <1>1, <1>2, <1>3, PTL DEF Spec
=============================================================================
