--------------------------- MODULE MaintenanceProofs ---------------------------
(***************************************************************************)
(* What holds of removal, cleanup and copies for any set of Items, whatever *)
(* they read, and for any number of builds, receipts, removals and deaths.  *)
(***************************************************************************)
EXTENDS Maintenance, Integers, FiniteSets, FiniteSetTheorems, WellFoundedInduction, TLAPS

-----------------------------------------------------------------------------
(* Least numbers.                                                          *)

\* A nonempty set of natural numbers has a least element.
LEMMA NatLeast ==
    ASSUME NEW T \in SUBSET Nat, T # {}
    PROVE  \E x \in T : \A y \in T : x <= y
<1>1. PICK x \in T : \A y \in T : ~(<<y, x>> \in OpToRel(<, Nat))
    BY NatLessThanWellFounded, WFMin
<1>2. \A y \in T : ~(y < x)
    BY <1>1 DEF OpToRel
<1> QED  BY <1>2

-----------------------------------------------------------------------------
(* Shapes *)

FileNames  == [name : Names, id : Nat]
CommitRows == [seq : Nat, name : Names, receipt : Nat, file : Nat]
Receipts   == [id : Nat, of : SUBSET Names, commits : SUBSET Nat]
Plans      == [names : SUBSET Names, receipts : SUBSET Receipts,
               commits : SUBSET CommitRows, files : SUBSET FileNames]
Entries    == [plan : Plans, status : {"detached", "complete"}]
Metas      == [defs : SUBSET Names, commits : SUBSET CommitRows, receipts : SUBSET Receipts,
               journal : SUBSET Entries, issued : Nat, lease : [Names -> Holders]]
Builds     == [stage : {"none", "begun", "frozen", "written", "renamed"},
               receipt : Nat, file : Nat]
Removers   == [at : {"idle", "unlink", "release"}, plan : Plans \cup {[names |-> {}]},
               todo : SUBSET FileNames]
Cleaners   == [at : {"idle", "planned", "unlink"}, todo : SUBSET FileNames]
Copies     == [at : {"none", "files", "done", "failed"}, meta : Metas,
               files : SUBSET FileNames]
Spendings  == [builds : Nat, freezes : Nat, crashes : Nat]

Shape ==
    /\ meta \in Metas /\ disk \in SUBSET FileNames /\ temps \in SUBSET FileNames
    /\ build \in [Names -> Builds] /\ plans \in SUBSET Plans
    /\ remover \in Removers /\ cleaner \in Cleaners /\ copy \in Copies
    /\ spent \in Spendings

\* Rows are numbered by the counter of the database.
Numbered(m) ==
    /\ \A c \in m.commits : /\ c.seq \in 1 .. m.issued /\ c.receipt \in 1 .. m.issued
                            /\ c.file \in 0 .. m.issued
    /\ \A r \in m.receipts : r.id \in 1 .. m.issued

-----------------------------------------------------------------------------
(* The receipts a removal takes with it *)

\* What makes the receipt of number k needed, when f says it of smaller ones.
NeededBy(m, S, f, k) ==
    \E r \in m.receipts :
        /\ r.id = k
        /\ Direct(m, S, r) \/ \E j \in Parents(m, r) : j < k /\ f[j]

\* Whether a number is needed is decided by the smaller ones, one by one.
LEMMA NeededExists ==
    ASSUME NEW m \in Metas, NEW S, NEW n \in Nat
    PROVE  \E f \in [0 .. n -> BOOLEAN] : f = [k \in 0 .. n |-> NeededBy(m, S, f, k)]
<1> DEFINE Solves(f, i) == f \in [0 .. i -> BOOLEAN] /\ \A k \in 0 .. i : f[k] = NeededBy(m, S, f, k)
           Bad == {i \in Nat : ~\E f : Solves(f, i)}
<1>1. ASSUME NEW i \in Nat, NEW f, NEW g, NEW k \in 0 .. i,
             \A j \in Nat : j < k => f[j] = g[j]
      PROVE  NeededBy(m, S, f, k) = NeededBy(m, S, g, k)
  <2>1. \A r \in m.receipts : \A j \in Parents(m, r) : j \in Nat
      BY DEF Parents, Metas, CommitRows
  <2> QED  BY <1>1, <2>1 DEF NeededBy
<1>2. Bad = {}
  <2> SUFFICES ASSUME Bad # {} PROVE FALSE
      OBVIOUS
  <2>1. PICK i \in Bad : \A j \in Bad : i <= j
      BY NatLeast
  <2>2. \E f : \A k \in 0 .. (i - 1) : f[k] \in BOOLEAN /\ f[k] = NeededBy(m, S, f, k)
    <3>1. CASE i = 0
        BY <3>1
    <3>2. CASE i # 0
      <4>1. i - 1 \in Nat /\ i - 1 \notin Bad
        <5>1. i \in Nat
            OBVIOUS
        <5> HIDE DEF Bad
        <5> QED  BY <2>1, <3>2, <5>1
      <4>2. PICK f : Solves(f, i - 1)
          BY <4>1
      <4>3. \A k \in 0 .. (i - 1) : f[k] \in BOOLEAN
          BY <4>2
      <4> QED  BY <4>2, <4>3
    <3> QED  BY <3>1, <3>2
  <2>3. PICK f : \A k \in 0 .. (i - 1) : f[k] \in BOOLEAN /\ f[k] = NeededBy(m, S, f, k)
      BY <2>2
  <2> DEFINE g == [k \in 0 .. i |-> IF k = i THEN NeededBy(m, S, f, k) ELSE f[k]]
  <2>4. \A j \in 0 .. i : j < i => g[j] = f[j]
      OBVIOUS
  <2>5. g[i] = NeededBy(m, S, f, i) /\ NeededBy(m, S, f, i) \in BOOLEAN
      BY DEF NeededBy
  <2>a. DOMAIN g = 0 .. i /\ g = [k \in 0 .. i |-> g[k]]
      OBVIOUS
  <2> HIDE DEF g
  <2>6. \A k \in 0 .. i : NeededBy(m, S, g, k) = NeededBy(m, S, f, k)
      BY <1>1, <2>4
  <2>7. \A k \in 0 .. i : g[k] \in BOOLEAN /\ g[k] = NeededBy(m, S, g, k)
    <3>1. ASSUME NEW k \in 0 .. i, k # i PROVE k \in 0 .. (i - 1) /\ k < i
        BY <3>1
    <3> QED  BY <2>3, <2>4, <2>5, <2>6, <3>1
  <2>8. Solves(g, i)
      BY <2>a, <2>7, Zenon
  <2> QED  BY <2>1, <2>8
<1>3. PICK f : Solves(f, n)
    BY <1>2
<1> QED  BY <1>3

\* A receipt that a removal touches directly is among those it must name.
LEMMA DirectRequired ==
    ASSUME NEW m \in Metas, NEW S, Numbered(m), NEW r \in m.receipts, Direct(m, S, r)
    PROVE  r.id \in Required(m, S)
<1> DEFINE n == m.issued
           needed == CHOOSE f : f = [k \in 0 .. n |-> NeededBy(m, S, f, k)]
<1>1. n \in Nat /\ r.id \in 0 .. n
    BY DEF Metas, Numbered
<1>2. \E f : f = [k \in 0 .. n |-> NeededBy(m, S, f, k)]
  <2> HIDE DEF n
  <2>1. n \in Nat => \E f \in [0 .. n -> BOOLEAN] : f = [k \in 0 .. n |-> NeededBy(m, S, f, k)]
      BY NeededExists
  <2> QED  BY <1>1, <2>1
<1>3. needed = [k \in 0 .. n |-> NeededBy(m, S, needed, k)]
    BY <1>2
<1>4. needed[r.id]
    BY <1>1, <1>3 DEF NeededBy
<1>5. Required(m, S) = {x.id : x \in {y \in m.receipts : needed[y.id]}}
    BY DEF Required, NeededBy
<1> HIDE DEF needed
<1> QED  BY <1>4, <1>5

-----------------------------------------------------------------------------
(* The inductive invariant *)

Own(n) == [name |-> n, id |-> build[n].file]

\* A publication under way holds its Item, and its receipt and file are new.
BuildInv(n) ==
    /\ build[n].file = IF build[n].stage \in {"written", "renamed"} THEN build[n].receipt ELSE 0
    /\ build[n].stage # "none" => n \in meta.defs /\ meta.lease[n] = "build"
    /\ build[n].stage \in {"frozen", "written", "renamed"} =>
         /\ build[n].receipt \in 1 .. meta.issued
         /\ \E r \in meta.receipts : r.id = build[n].receipt
         /\ \A c \in meta.commits : c.name = n => c.file # build[n].receipt

\* The files of a plan lie under its names.
PlansInv ==
    /\ \A p \in plans : \A f \in p.files : f.name \in p.names
    /\ \A j \in meta.journal : j.plan \in plans

\* While old files are unlinked nobody publishes under their names.
RemoverInv ==
    remover.at # "idle" =>
        /\ remover.plan \in plans /\ remover.todo \subseteq remover.plan.files
        /\ \A n \in remover.plan.names : meta.lease[n] = "removal"
        /\ remover.plan.files \cap Registered(meta) = {}

CleanerInv == cleaner.at = "unlink" => \A f \in cleaner.todo : meta.lease[f.name] = "cleanup"

CopyInv == copy.at = "files" => Rests(copy.meta)

MaintenanceInv ==
    /\ Shape /\ Numbered(meta) /\ NothingDangles /\ OriginalsKept
    /\ \A n \in Names : BuildInv(n)
    /\ PlansInv /\ RemoverInv /\ CleanerInv /\ CopyInv

-----------------------------------------------------------------------------
(* Changes of the metadata *)

\* A change of leases leaves the rows alone.
LEMMA LeasedFields ==
    ASSUME NEW m \in Metas, NEW S, NEW who \in Holders
    PROVE  /\ Leased(m, S, who) \in Metas
           /\ Leased(m, S, who).defs = m.defs /\ Leased(m, S, who).commits = m.commits
           /\ Leased(m, S, who).receipts = m.receipts /\ Leased(m, S, who).journal = m.journal
           /\ Leased(m, S, who).issued = m.issued
           /\ \A n \in Names : Leased(m, S, who).lease[n] = IF n \in S THEN who ELSE m.lease[n]
<1> DEFINE l == [n \in Names |-> IF n \in S THEN who ELSE m.lease[n]]
           w == [m EXCEPT !.lease = l]
<1>1. l \in [Names -> Holders]
    BY DEF Metas
<1>2. Leased(m, S, who) = w
    BY Zenon DEF Leased
<1>3. \A n \in Names : l[n] = IF n \in S THEN who ELSE m.lease[n]
    OBVIOUS
<1> HIDE DEF l
<1>4. /\ w \in Metas /\ w.defs = m.defs /\ w.commits = m.commits /\ w.receipts = m.receipts
      /\ w.journal = m.journal /\ w.issued = m.issued /\ w.lease = l
    BY <1>1 DEF Metas
<1> QED  BY <1>2, <1>3, <1>4

\* The rows of one database are those of another.
SameRows(m, w) ==
    /\ w.defs = m.defs /\ w.commits = m.commits /\ w.receipts = m.receipts
    /\ w.issued = m.issued

\* What rests on the rows follows them.
LEMMA SameRowsKeep ==
    ASSUME NEW m, NEW w, SameRows(m, w)
    PROVE  /\ Numbered(w) <=> Numbered(m)
           /\ Rests(w) <=> Rests(m)
           /\ Registered(w) = Registered(m)
BY DEF SameRows, Numbered, Rests, Registered

\* What is registered are names and numbers.
LEMMA RegisteredShape ==
    ASSUME NEW m \in Metas
    PROVE  Registered(m) \subseteq FileNames
BY DEF Metas, CommitRows, Registered, Files, FileNames

\* The file of a publication under way is registered by nobody.
LEMMA OwnIsNew ==
    ASSUME Shape, NEW n \in Names, BuildInv(n), build[n].stage \in {"written", "renamed"}
    PROVE  Own(n) \notin Registered(meta)
BY DEF BuildInv, Own, Registered, Files

\* The file of a name is a file name.
LEMMA OwnShape ==
    ASSUME Shape, NEW n \in Names
    PROVE  Own(n) \in FileNames
BY DEF Shape, Builds, Own, FileNames

-----------------------------------------------------------------------------
(* Steps that leave the metadata alone *)

\* A temporary is written under the name its builder has reserved.
LEMMA StepWriteTemporary ==
    ASSUME MaintenanceInv, NEW n \in Names, WriteTemporary(n)
    PROVE  MaintenanceInv'
<1> USE DEF MaintenanceInv, WriteTemporary
<1>1. /\ build \in [Names -> Builds] /\ build[n] \in Builds /\ build[n].receipt \in Nat
      /\ temps \in SUBSET FileNames
    BY DEF Shape, Builds
<1> DEFINE b == [build[n] EXCEPT !.stage = "written", !.file = build[n].receipt]
<1>2. /\ b \in Builds /\ b.stage = "written" /\ b.file = build[n].receipt
      /\ b.receipt = build[n].receipt
    BY <1>1 DEF Builds
<1>3. build' = [build EXCEPT ![n] = b]
    OBVIOUS
<1> HIDE DEF b
<1>4. /\ build' \in [Names -> Builds] /\ build'[n] = b
      /\ \A k \in Names \ {n} : build'[k] = build[k]
    BY <1>1, <1>2, <1>3
<1>5. [name |-> n, id |-> build[n].receipt] \in FileNames
    BY <1>1 DEF FileNames
<1>6. Shape'
    BY <1>1, <1>4, <1>5 DEF Shape
<1>7. Numbered(meta)' /\ NothingDangles' /\ PlansInv' /\ RemoverInv' /\ CleanerInv' /\ CopyInv'
    BY DEF Numbered, NothingDangles, PlansInv, RemoverInv, CleanerInv, CopyInv, Registered, Rests
<1>8. OriginalsKept'
  <2>1. (Registered(meta) \subseteq disk)'
      BY DEF OriginalsKept, Registered
  <2>2. ASSUME NEW k \in Names
        PROVE  /\ build'[k].stage = "written" => [name |-> k, id |-> build'[k].file] \in temps'
               /\ build'[k].stage = "renamed" => [name |-> k, id |-> build'[k].file] \in disk'
    <3>1. CASE k = n
        BY <1>2, <1>4, <3>1
    <3>2. CASE k # n
        BY <1>4, <3>2 DEF OriginalsKept
    <3> QED  BY <3>1, <3>2
  <2> QED  BY <2>1, <2>2 DEF OriginalsKept
<1>9. ASSUME NEW k \in Names PROVE BuildInv(k)'
  <2>1. CASE k = n
      BY <1>2, <1>4, <2>1 DEF BuildInv
  <2>2. CASE k # n
      BY <1>4, <2>2 DEF BuildInv
  <2> QED  BY <2>1, <2>2
<1> QED  BY <1>6, <1>7, <1>8, <1>9

\* A rename gives the builder its file, which only its temporary named.
LEMMA StepRename ==
    ASSUME MaintenanceInv, NEW n \in Names, Rename(n)
    PROVE  MaintenanceInv'
<1> USE DEF MaintenanceInv
<1>0. /\ build[n].stage = "written" /\ Own(n) \in temps
      /\ build' = [build EXCEPT ![n] = [build[n] EXCEPT !.stage = "renamed"]]
      /\ temps' = temps \ {Own(n)} /\ disk' = disk \cup {Own(n)}
      /\ UNCHANGED <<meta, plans, remover, cleaner, copy, spent>>
    BY DEF Rename, Own
<1>1. /\ build \in [Names -> Builds] /\ build[n] \in Builds
      /\ temps \in SUBSET FileNames /\ Own(n) \in FileNames
    BY <1>0, OwnShape DEF Shape
<1> DEFINE b == [build[n] EXCEPT !.stage = "renamed"]
<1>2. /\ b \in Builds /\ b.stage = "renamed" /\ b.file = build[n].file
      /\ b.receipt = build[n].receipt
    BY <1>1 DEF Builds
<1>3. build' = [build EXCEPT ![n] = b]
    BY <1>0
<1> HIDE DEF b
<1>4. /\ build' \in [Names -> Builds] /\ build'[n] = b
      /\ \A k \in Names \ {n} : build'[k] = build[k]
    BY <1>1, <1>2, <1>3
<1>6. Shape'
    BY <1>0, <1>1, <1>4 DEF Shape
<1>7. Numbered(meta)' /\ NothingDangles' /\ PlansInv' /\ RemoverInv' /\ CleanerInv' /\ CopyInv'
    BY <1>0 DEF Numbered, NothingDangles, PlansInv, RemoverInv, CleanerInv, CopyInv, Registered, Rests
<1>8. OriginalsKept'
  <2>1. (Registered(meta) \subseteq disk)'
      BY <1>0 DEF OriginalsKept, Registered
  <2>2. ASSUME NEW k \in Names
        PROVE  /\ build'[k].stage = "written" => [name |-> k, id |-> build'[k].file] \in temps'
               /\ build'[k].stage = "renamed" => [name |-> k, id |-> build'[k].file] \in disk'
    <3>1. CASE k = n
        BY <1>0, <1>2, <1>4, <3>1 DEF Own
    <3>2. CASE k # n
        BY <1>0, <1>4, <3>2 DEF OriginalsKept, Own
    <3> QED  BY <3>1, <3>2
  <2> QED  BY <2>1, <2>2 DEF OriginalsKept
<1>9. ASSUME NEW k \in Names PROVE BuildInv(k)'
  <2>1. CASE k = n
      BY <1>0, <1>2, <1>4, <2>1 DEF BuildInv
  <2>2. CASE k # n
      BY <1>0, <1>4, <2>2 DEF BuildInv
  <2> QED  BY <2>1, <2>2
<1> QED  BY <1>6, <1>7, <1>8, <1>9

\* A plan names files under its names only.
LEMMA PlanShape ==
    ASSUME Shape, NEW S \in SUBSET Names, NEW D
    PROVE  /\ PlanOf(S, D) \in Plans /\ PlanOf(S, D).names = S
           /\ \A f \in PlanOf(S, D).files : f.name \in S
<1>1. meta.commits \in SUBSET CommitRows /\ meta.receipts \in SUBSET Receipts
    BY DEF Shape, Metas
<1>2. Published(meta, S) \in SUBSET CommitRows /\ \A c \in Published(meta, S) : c.name \in S
    BY <1>1 DEF Published
<1>3. /\ Files(Published(meta, S)) \in SUBSET FileNames
      /\ \A f \in Files(Published(meta, S)) : f.name \in S
    BY <1>2 DEF Files, FileNames, CommitRows
<1>4. {r \in meta.receipts : r.id \in D} \in SUBSET Receipts
    BY <1>1
<1> QED  BY <1>2, <1>3, <1>4 DEF PlanOf, Plans

\* A plan names the rows that its receipt detaches, or that still stand.
LEMMA StepMakePlan ==
    ASSUME MaintenanceInv, NEW S \in SUBSET Names, MakePlan(S)
    PROVE  MaintenanceInv'
<1> USE DEF MaintenanceInv
<1>1. /\ plans' = plans \cup {PlanOf(S, Required(meta, S))}
      /\ UNCHANGED <<meta, disk, temps, build, remover, cleaner, copy, spent>>
    BY Zenon DEF MakePlan
<1>0. \A D : /\ PlanOf(S, D) \in Plans
             /\ \A f \in PlanOf(S, D).files : f.name \in PlanOf(S, D).names
    BY PlanShape
<1>2. PICK p : p = PlanOf(S, Required(meta, S)) /\ p \in Plans /\ \A f \in p.files : f.name \in p.names
    BY <1>0
<1>3. plans' = plans \cup {p}
    BY <1>1, <1>2
<1>4. Shape'
    BY <1>1, <1>2, <1>3 DEF Shape
<1>5. Numbered(meta)' /\ NothingDangles' /\ CleanerInv' /\ CopyInv'
    BY <1>1 DEF Numbered, NothingDangles, CleanerInv, CopyInv, Rests
<1>6. PlansInv' /\ RemoverInv'
    BY <1>1, <1>2, <1>3 DEF PlansInv, RemoverInv, Registered
<1>7. OriginalsKept'
    BY <1>1 DEF OriginalsKept, Registered
<1>8. ASSUME NEW k \in Names PROVE BuildInv(k)'
    BY <1>1 DEF BuildInv
<1> QED  BY <1>4, <1>5, <1>6, <1>7, <1>8

\* Nothing that is unlinked is registered, or about to be.
LEMMA StepUnlink ==
    ASSUME MaintenanceInv, NEW f \in remover.todo, Unlink(f)
    PROVE  MaintenanceInv'
<1> USE DEF MaintenanceInv
<1>1. /\ remover.at = "unlink" /\ disk' = disk \ {f}
      /\ remover' = [remover EXCEPT !.todo = remover.todo \ {f}]
      /\ UNCHANGED <<meta, temps, build, plans, cleaner, copy, spent>>
    BY DEF Unlink
<1>2. remover \in Removers /\ disk \in SUBSET FileNames
    BY DEF Shape
<1>3. /\ remover' \in Removers /\ remover'.at = "unlink" /\ remover'.plan = remover.plan
      /\ remover'.todo = remover.todo \ {f}
    BY <1>1, <1>2 DEF Removers
<1>4. Shape'
    BY <1>1, <1>2, <1>3 DEF Shape
<1>5. Numbered(meta)' /\ NothingDangles' /\ PlansInv' /\ CleanerInv' /\ CopyInv'
    BY <1>1 DEF Numbered, NothingDangles, PlansInv, CleanerInv, CopyInv, Rests
<1>6. RemoverInv'
    BY <1>1, <1>3 DEF RemoverInv, Registered
<1>7. /\ f \in remover.plan.files /\ f \notin Registered(meta)
      /\ f.name \in remover.plan.names
    BY <1>1 DEF RemoverInv, PlansInv
<1>8. OriginalsKept'
  <2>1. (Registered(meta) \subseteq disk)'
      BY <1>1, <1>7 DEF OriginalsKept, Registered
  <2>2. ASSUME NEW k \in Names
        PROVE  /\ build'[k].stage = "written" => [name |-> k, id |-> build'[k].file] \in temps'
               /\ build'[k].stage = "renamed" => [name |-> k, id |-> build'[k].file] \in disk'
    <3>1. build[k].stage = "renamed" => Own(k) # f
        BY <1>1, <1>7 DEF BuildInv, RemoverInv, Own
    <3> QED  BY <1>1, <3>1 DEF OriginalsKept, Own
  <2> QED  BY <2>1, <2>2 DEF OriginalsKept
<1>9. ASSUME NEW k \in Names PROVE BuildInv(k)'
    BY <1>1 DEF BuildInv
<1> QED  BY <1>4, <1>5, <1>6, <1>8, <1>9

\* A cleanup plans unregistered files only.
LEMMA StepPlanCleanup ==
    ASSUME MaintenanceInv, PlanCleanup
    PROVE  MaintenanceInv'
<1> USE DEF MaintenanceInv, PlanCleanup
<1>1. cleaner' \in Cleaners /\ cleaner'.at = "planned"
    BY DEF Shape, Cleaners, Eligible
<1>2. Shape'
    BY <1>1 DEF Shape
<1>3. Numbered(meta)' /\ NothingDangles' /\ PlansInv' /\ RemoverInv' /\ CleanerInv' /\ CopyInv'
    BY <1>1 DEF Numbered, NothingDangles, PlansInv, RemoverInv, CleanerInv, CopyInv, Registered, Rests
<1>4. OriginalsKept'
    BY DEF OriginalsKept, Registered
<1>5. ASSUME NEW k \in Names PROVE BuildInv(k)'
    BY DEF BuildInv
<1> QED  BY <1>2, <1>3, <1>4, <1>5

-----------------------------------------------------------------------------
(* Copies *)

\* An empty store and no copy have their shapes.
LEMMA EmptyShape == EmptyMeta \in Metas /\ NoCopy \in Copies
<1>1. EmptyMeta \in Metas
    BY DEF EmptyMeta, Metas, Holders
<1> HIDE DEF EmptyMeta
<1> QED  BY <1>1 DEF NoCopy, Copies

\* A copy takes the metadata as it is, and then changes nothing else.
Copying == CopyDatabase \/ (\E f \in disk : CopyFile(f)) \/ CopyFails \/ CopyDone

\* What a copy has taken stays on disk until it is whole.
LEMMA StepCopying ==
    ASSUME MaintenanceInv, Copying
    PROVE  MaintenanceInv'
<1> USE DEF MaintenanceInv
<1>1. UNCHANGED <<meta, disk, temps, build, plans, remover, cleaner, spent>>
    BY DEF Copying, CopyDatabase, CopyFile, CopyFails, CopyDone
<1>2. copy' \in Copies /\ CopyInv'
  <2>0. meta \in Metas /\ copy \in Copies /\ disk \in SUBSET FileNames
      BY DEF Shape
  <2>1. CASE CopyDatabase
    <3>1. copy' = [at |-> "files", meta |-> meta, files |-> {}]
        BY <2>1 DEF CopyDatabase
    <3>2. copy' \in Copies /\ copy'.meta = meta
        BY <2>0, <3>1 DEF Copies
    <3> QED  BY <3>2, <1>1 DEF CopyInv, NothingDangles, Rests
  <2>2. CASE \E f \in disk : CopyFile(f)
    <3>1. PICK f \in disk : CopyFile(f)
        BY <2>2
    <3>2. copy' = [copy EXCEPT !.files = copy.files \cup {f}] /\ copy.at = "files"
        BY <3>1 DEF CopyFile
    <3>3. copy' \in Copies /\ copy'.meta = copy.meta
        BY <2>0, <3>2 DEF Copies
    <3> QED  BY <3>2, <3>3 DEF CopyInv, Rests
  <2>3. CASE CopyFails \/ CopyDone
    <3>1. PICK s \in {"failed", "done"} : copy' = [NoCopy EXCEPT !.at = s]
        BY <2>3 DEF CopyFails, CopyDone
    <3>2. copy' \in Copies /\ copy'.at = s
        BY <3>1, EmptyShape DEF Copies
    <3> QED  BY <3>2 DEF CopyInv
  <2> QED  BY <2>1, <2>2, <2>3 DEF Copying
<1>3. Shape'
    BY <1>1, <1>2 DEF Shape
<1>4. Numbered(meta)' /\ NothingDangles' /\ PlansInv' /\ RemoverInv' /\ CleanerInv'
    BY <1>1 DEF Numbered, NothingDangles, PlansInv, RemoverInv, CleanerInv, Registered, Rests
<1>5. OriginalsKept'
    BY <1>1 DEF OriginalsKept, Registered
<1>6. ASSUME NEW k \in Names PROVE BuildInv(k)'
    BY <1>1 DEF BuildInv
<1> QED  BY <1>2, <1>3, <1>4, <1>5, <1>6

-----------------------------------------------------------------------------
(* Steps that only pass leases on *)

\* What a change of leases leaves standing.
LEMMA LeaseStep ==
    ASSUME MaintenanceInv, NEW S, NEW who \in Holders, meta' = Leased(meta, S, who), copy' = copy
    PROVE  /\ meta' \in Metas /\ meta'.defs = meta.defs /\ meta'.commits = meta.commits
           /\ meta'.receipts = meta.receipts /\ meta'.journal = meta.journal
           /\ meta'.issued = meta.issued
           /\ \A n \in Names : meta'.lease[n] = IF n \in S THEN who ELSE meta.lease[n]
           /\ Numbered(meta)' /\ NothingDangles' /\ CopyInv'
           /\ Registered(meta') = Registered(meta)
<1>1. meta \in Metas
    BY DEF MaintenanceInv, Shape
<1>2. /\ meta' \in Metas /\ meta'.defs = meta.defs /\ meta'.commits = meta.commits
      /\ meta'.receipts = meta.receipts /\ meta'.journal = meta.journal
      /\ meta'.issued = meta.issued
      /\ \A n \in Names : meta'.lease[n] = IF n \in S THEN who ELSE meta.lease[n]
    BY <1>1, LeasedFields
<1>3. SameRows(meta, meta')
    BY <1>2 DEF SameRows
<1>4. Numbered(meta') /\ Rests(meta') /\ Registered(meta') = Registered(meta)
    BY <1>3, SameRowsKeep DEF MaintenanceInv, NothingDangles
<1>5. Numbered(meta)' /\ NothingDangles'
    BY <1>4 DEF NothingDangles, Numbered, Rests
<1>6. CopyInv'
    BY DEF MaintenanceInv, CopyInv, Rests
<1> QED  BY <1>2, <1>4, <1>5, <1>6

\* A build starts with a number of its own.
LEMMA StepBeginBuild ==
    ASSUME MaintenanceInv, NEW n \in Names, BeginBuild(n)
    PROVE  MaintenanceInv'
<1>0. /\ n \in meta.defs /\ build[n].stage = "none" /\ meta.lease[n] = "none"
      /\ spent' = [spent EXCEPT !.builds = spent.builds + 1]
      /\ meta' = Leased(meta, {n}, "build")
      /\ build' = [build EXCEPT ![n] = [build[n] EXCEPT !.stage = "begun"]]
      /\ UNCHANGED <<disk, temps, plans, remover, cleaner, copy>>
    BY DEF BeginBuild, Free
<1>1. /\ meta' \in Metas /\ meta'.defs = meta.defs /\ meta'.commits = meta.commits
      /\ meta'.receipts = meta.receipts /\ meta'.journal = meta.journal
      /\ meta'.issued = meta.issued
      /\ \A k \in Names : meta'.lease[k] = IF k \in {n} THEN "build" ELSE meta.lease[k]
      /\ Numbered(meta)' /\ NothingDangles' /\ CopyInv'
      /\ Registered(meta') = Registered(meta)
    BY <1>0, LeaseStep DEF Holders
<1> USE DEF MaintenanceInv
<1> DEFINE b == [build[n] EXCEPT !.stage = "begun"]
<1>2. build \in [Names -> Builds] /\ build[n] \in Builds
    BY DEF Shape
<1>3. b \in Builds /\ b.stage = "begun" /\ b.file = build[n].file
    BY <1>2 DEF Builds
<1>4. build' = [build EXCEPT ![n] = b]
    BY <1>0
<1> HIDE DEF b
<1>5. /\ build' \in [Names -> Builds] /\ build'[n] = b
      /\ \A k \in Names \ {n} : build'[k] = build[k]
    BY <1>2, <1>3, <1>4
<1>6. Shape'
  <2>1. spent' \in Spendings
      BY <1>0 DEF Shape, Spendings
  <2> QED  BY <1>0, <1>1, <1>5, <2>1 DEF Shape
<1>7. PlansInv' /\ OriginalsKept'
  <2>1. PlansInv'
      BY <1>0, <1>1 DEF PlansInv
  <2>2. (Registered(meta) \subseteq disk)'
      BY <1>0, <1>1 DEF OriginalsKept
  <2>3. ASSUME NEW k \in Names
        PROVE  /\ build'[k].stage = "written" => [name |-> k, id |-> build'[k].file] \in temps'
               /\ build'[k].stage = "renamed" => [name |-> k, id |-> build'[k].file] \in disk'
    <3>1. CASE k = n
        BY <1>3, <1>5, <3>1
    <3>2. CASE k # n
        BY <1>0, <1>5, <3>2 DEF OriginalsKept
    <3> QED  BY <3>1, <3>2
  <2> QED  BY <2>1, <2>2, <2>3 DEF OriginalsKept
<1>8. RemoverInv' /\ CleanerInv'
  <2>1. remover \in Removers /\ cleaner \in Cleaners
      BY DEF Shape
  <2>2. RemoverInv'
    <3>1. \A k \in remover.plan.names : remover.at # "idle" => k \in Names /\ k # n
        BY <1>0, <2>1 DEF RemoverInv, Shape, Plans
    <3> QED  BY <1>0, <1>1, <3>1 DEF RemoverInv
  <2>3. CleanerInv'
    <3>1. \A f \in cleaner.todo : cleaner.at = "unlink" => f.name \in Names /\ f.name # n
        BY <1>0, <2>1 DEF CleanerInv, Cleaners, FileNames
    <3> QED  BY <1>0, <1>1, <3>1 DEF CleanerInv
  <2> QED  BY <2>2, <2>3
<1>9. ASSUME NEW k \in Names PROVE BuildInv(k)'
  <2>1. CASE k = n
      BY <1>0, <1>1, <1>3, <1>5, <2>1 DEF BuildInv
  <2>2. CASE k # n
      BY <1>1, <1>5, <2>2 DEF BuildInv
  <2> QED  BY <2>1, <2>2
<1> QED  BY <1>1, <1>6, <1>7, <1>8, <1>9

\* A publication that ends without a commit takes only its own files along.
LEMMA StepStops ==
    ASSUME MaintenanceInv, NEW n \in Names, BuildFails(n) \/ BuilderDies(n)
    PROVE  MaintenanceInv'
<1> USE DEF MaintenanceInv
<1>0. /\ build[n].stage # "none"
      /\ build' = [build EXCEPT ![n] = NoBuild]
      /\ UNCHANGED <<plans, remover, cleaner, copy>>
      /\ temps \ {Own(n)} \subseteq temps' /\ temps' \subseteq temps
      /\ disk \ {Own(n)} \subseteq disk' /\ disk' \subseteq disk
      /\ disk' # disk => build[n].stage \in {"frozen", "written", "renamed"}
      /\ spent' \in Spendings
  <2>1. CASE BuildFails(n)
      BY <2>1 DEF BuildFails, Own, Shape
  <2>2. CASE BuilderDies(n)
      BY <2>2 DEF BuilderDies, Dies, Shape, Spendings
  <2> QED  BY <2>1, <2>2
<1>a. PICK who \in {"none", "dead"} : meta' = Leased(meta, {n}, who)
    BY DEF BuildFails, BuilderDies
<1>1. /\ meta' \in Metas /\ meta'.defs = meta.defs /\ meta'.commits = meta.commits
      /\ meta'.receipts = meta.receipts /\ meta'.journal = meta.journal
      /\ meta'.issued = meta.issued
      /\ \A k \in Names : meta'.lease[k] = IF k \in {n} THEN who ELSE meta.lease[k]
      /\ Numbered(meta)' /\ NothingDangles' /\ CopyInv'
      /\ Registered(meta') = Registered(meta)
  <2>1. who \in Holders
      BY DEF Holders
  <2> QED  BY <1>0, <1>a, <2>1, LeaseStep
<1>2. meta.lease[n] = "build"
    BY <1>0 DEF BuildInv
<1>3. build \in [Names -> Builds] /\ NoBuild \in Builds
    BY DEF Shape, NoBuild, Builds
<1>4. NoBuild.stage = "none" /\ NoBuild.file = 0
    BY DEF NoBuild
<1>5. /\ build' \in [Names -> Builds] /\ build'[n] = NoBuild
      /\ \A k \in Names \ {n} : build'[k] = build[k]
    BY <1>0, <1>3
<1>6. Shape'
    BY <1>0, <1>1, <1>5 DEF Shape
<1>7. PlansInv' /\ OriginalsKept'
  <2>1. PlansInv'
      BY <1>0, <1>1 DEF PlansInv
  <2>2. (Registered(meta) \subseteq disk)'
    <3>1. Own(n) \notin Registered(meta) \/ disk' = disk
      <4>1. CASE build[n].stage \in {"written", "renamed"}
          BY <4>1, OwnIsNew
      <4>2. CASE build[n].stage \notin {"written", "renamed"}
          BY <4>2 DEF BuildInv, Own, Registered, Files
      <4> QED  BY <4>1, <4>2
    <3> QED  BY <1>0, <1>1, <3>1 DEF OriginalsKept
  <2>3. ASSUME NEW k \in Names
        PROVE  /\ build'[k].stage = "written" => [name |-> k, id |-> build'[k].file] \in temps'
               /\ build'[k].stage = "renamed" => [name |-> k, id |-> build'[k].file] \in disk'
    <3>1. CASE k = n
        BY <1>4, <1>5, <3>1
    <3>2. CASE k # n
        BY <1>0, <1>5, <3>2 DEF OriginalsKept, Own
    <3> QED  BY <3>1, <3>2
  <2> QED  BY <2>1, <2>2, <2>3 DEF OriginalsKept
<1>8. RemoverInv' /\ CleanerInv'
  <2>1. remover \in Removers /\ cleaner \in Cleaners
      BY DEF Shape
  <2>2. RemoverInv'
    <3>1. \A k \in remover.plan.names : remover.at # "idle" => k \in Names /\ k # n
        BY <1>2, <2>1 DEF RemoverInv, Shape, Plans
    <3> QED  BY <1>0, <1>1, <3>1 DEF RemoverInv
  <2>3. CleanerInv'
    <3>1. \A f \in cleaner.todo : cleaner.at = "unlink" => f.name \in Names /\ f.name # n
        BY <1>2, <2>1 DEF CleanerInv, Cleaners, FileNames
    <3> QED  BY <1>0, <1>1, <3>1 DEF CleanerInv
  <2> QED  BY <2>2, <2>3
<1>9. ASSUME NEW k \in Names PROVE BuildInv(k)'
  <2>1. CASE k = n
      BY <1>4, <1>5, <2>1 DEF BuildInv
  <2>2. CASE k # n
      BY <1>1, <1>5, <2>2 DEF BuildInv
  <2> QED  BY <2>1, <2>2
<1> QED  BY <1>1, <1>6, <1>7, <1>8, <1>9

\* A process that ends its own lease disturbs no other.
LEMMA StepAbandon ==
    ASSUME MaintenanceInv, NEW n \in Names, Abandon(n)
    PROVE  MaintenanceInv'
<1> USE DEF MaintenanceInv
<1>0. /\ meta.lease[n] = "dead" /\ meta' = Leased(meta, {n}, "none")
      /\ UNCHANGED <<disk, temps, build, plans, remover, cleaner, copy, spent>>
    BY DEF Abandon
<1>1. /\ meta' \in Metas /\ meta'.defs = meta.defs /\ meta'.commits = meta.commits
      /\ meta'.receipts = meta.receipts /\ meta'.journal = meta.journal
      /\ meta'.issued = meta.issued
      /\ \A k \in Names : meta'.lease[k] = IF k \in {n} THEN "none" ELSE meta.lease[k]
      /\ Numbered(meta)' /\ NothingDangles' /\ CopyInv'
      /\ Registered(meta') = Registered(meta)
    BY <1>0, LeaseStep DEF Holders
<1>2. remover \in Removers /\ cleaner \in Cleaners /\ plans \in SUBSET Plans
    BY DEF Shape
<1>3. Shape' /\ PlansInv' /\ OriginalsKept'
  <2>1. PlansInv'
      BY <1>0, <1>1 DEF PlansInv
  <2>2. OriginalsKept'
      BY <1>0, <1>1 DEF OriginalsKept
  <2> QED  BY <1>0, <1>1, <2>1, <2>2 DEF Shape
<1>4. RemoverInv'
  <2>1. \A k \in remover.plan.names : remover.at # "idle" => k \in Names /\ k # n
      BY <1>0, <1>2 DEF RemoverInv, Plans
  <2> QED  BY <1>0, <1>1, <2>1 DEF RemoverInv
<1>5. CleanerInv'
  <2>1. \A f \in cleaner.todo : cleaner.at = "unlink" => f.name \in Names /\ f.name # n
      BY <1>0, <1>2 DEF CleanerInv, Cleaners, FileNames
  <2> QED  BY <1>0, <1>1, <2>1 DEF CleanerInv
<1>6. ASSUME NEW k \in Names PROVE BuildInv(k)'
    BY <1>0, <1>1 DEF BuildInv
<1> QED  BY <1>1, <1>3, <1>4, <1>5, <1>6

\* A remover that ends or dies leaves its journal for the next.
LEMMA StepRemoverEnds ==
    ASSUME MaintenanceInv, ReleaseRemoval \/ RemoverDies
    PROVE  MaintenanceInv'
<1> USE DEF MaintenanceInv
<1> DEFINE S == remover.plan.names
<1>0. /\ remover.at # "idle" /\ remover' = Idle
      /\ UNCHANGED <<disk, temps, build, plans, cleaner, copy>>
      /\ spent' \in Spendings
    BY DEF ReleaseRemoval, RemoverDies, Dies, Shape, Spendings
<1>a. PICK who \in {"none", "dead"} : meta' = Leased(meta, S, who)
    BY DEF ReleaseRemoval, RemoverDies
<1>b. \A k \in S : meta.lease[k] = "removal"
    BY <1>0 DEF RemoverInv
<1> HIDE DEF S
<1>1. /\ meta' \in Metas /\ meta'.defs = meta.defs /\ meta'.commits = meta.commits
      /\ meta'.receipts = meta.receipts /\ meta'.journal = meta.journal
      /\ meta'.issued = meta.issued
      /\ \A k \in Names : meta'.lease[k] = IF k \in S THEN who ELSE meta.lease[k]
      /\ Numbered(meta)' /\ NothingDangles' /\ CopyInv'
      /\ Registered(meta') = Registered(meta)
  <2>1. who \in Holders
      BY DEF Holders
  <2> QED  BY <1>0, <1>a, <2>1, LeaseStep
<1>2. Idle \in Removers /\ Idle.at = "idle"
    BY DEF Idle, Removers
<1>3. Shape' /\ PlansInv' /\ OriginalsKept' /\ RemoverInv'
  <2>1. PlansInv'
      BY <1>0, <1>1 DEF PlansInv
  <2>2. OriginalsKept'
      BY <1>0, <1>1 DEF OriginalsKept
  <2>3. RemoverInv'
      BY <1>0, <1>2 DEF RemoverInv
  <2> QED  BY <1>0, <1>1, <1>2, <2>1, <2>2, <2>3 DEF Shape
<1>5. CleanerInv'
  <2>1. \A f \in cleaner.todo : cleaner.at = "unlink" => f.name \in Names /\ f.name \notin S
      BY <1>b DEF CleanerInv, Shape, Cleaners, FileNames
  <2> QED  BY <1>0, <1>1, <2>1 DEF CleanerInv
<1>6. ASSUME NEW k \in Names PROVE BuildInv(k)'
  <2>1. build[k].stage # "none" => k \notin S
      BY <1>b DEF BuildInv
  <2> QED  BY <1>0, <1>1, <2>1 DEF BuildInv
<1> QED  BY <1>1, <1>3, <1>5, <1>6

\* A removal is repeated only while nobody else is at work.
LEMMA StepResume ==
    ASSUME MaintenanceInv, NEW p \in plans, Resume(p)
    PROVE  MaintenanceInv'
<1> USE DEF MaintenanceInv
<1> DEFINE S == p.names
<1>0. /\ remover' = [at |-> "unlink", plan |-> p, todo |-> p.files]
      /\ meta' = Leased(meta, S, "removal")
      /\ \A k \in Names : meta.lease[k] = "none"
      /\ p.files \cap Registered(meta) = {}
      /\ UNCHANGED <<disk, temps, build, plans, cleaner, copy, spent>>
    BY DEF Resume, StartRemoval, OldFiles, Active, Resumable
<1>p. p \in Plans /\ S \subseteq Names
    BY DEF Shape, Plans
<1> HIDE DEF S
<1>1. /\ meta' \in Metas /\ meta'.defs = meta.defs /\ meta'.commits = meta.commits
      /\ meta'.receipts = meta.receipts /\ meta'.journal = meta.journal
      /\ meta'.issued = meta.issued
      /\ \A k \in Names : meta'.lease[k] = IF k \in S THEN "removal" ELSE meta.lease[k]
      /\ Numbered(meta)' /\ NothingDangles' /\ CopyInv'
      /\ Registered(meta') = Registered(meta)
    BY <1>0, LeaseStep DEF Holders
<1>2. remover' \in Removers
    BY <1>0, <1>p DEF Removers, Plans
<1>3. Shape' /\ PlansInv' /\ OriginalsKept'
  <2>1. PlansInv'
      BY <1>0, <1>1 DEF PlansInv
  <2>2. OriginalsKept'
      BY <1>0, <1>1 DEF OriginalsKept
  <2> QED  BY <1>0, <1>1, <1>2, <2>1, <2>2 DEF Shape
<1>4. RemoverInv'
    BY <1>0, <1>1, <1>p DEF RemoverInv, S
<1>5. CleanerInv'
  <2>1. \A f \in cleaner.todo : cleaner.at = "unlink" => f.name \in Names
      BY DEF Shape, Cleaners, FileNames
  <2> QED  BY <1>0, <1>1, <2>1 DEF CleanerInv
<1>6. ASSUME NEW k \in Names PROVE BuildInv(k)'
    BY <1>0, <1>1 DEF BuildInv
<1> QED  BY <1>1, <1>3, <1>4, <1>5, <1>6

\* A cleanup leases what it looks at again, and takes nothing of a publisher.
LEMMA StepStartCleanup ==
    ASSUME MaintenanceInv, StartCleanup
    PROVE  MaintenanceInv'
<1> USE DEF MaintenanceInv
<1> DEFINE S == Owners(cleaner.todo)
<1>0. UNCHANGED <<disk, temps, build, plans, remover, copy, spent>>
    BY DEF StartCleanup
<1>s. cleaner \in Cleaners /\ remover \in Removers /\ plans \in SUBSET Plans /\ meta \in Metas
    BY DEF Shape
<1>t. \A f \in cleaner.todo : f.name \in S /\ f.name \in Names
    BY <1>s DEF Owners, Cleaners, FileNames
<1>1. CASE Free(meta, S)
  <2>1. /\ meta' = Leased(meta, S, "cleanup") /\ cleaner' = [cleaner EXCEPT !.at = "unlink"]
        /\ \A k \in S : meta.lease[k] = "none"
      BY <1>1 DEF StartCleanup, Free
  <2> HIDE DEF S
  <2>2. /\ meta' \in Metas /\ meta'.defs = meta.defs /\ meta'.commits = meta.commits
        /\ meta'.receipts = meta.receipts /\ meta'.journal = meta.journal
        /\ meta'.issued = meta.issued
        /\ \A k \in Names : meta'.lease[k] = IF k \in S THEN "cleanup" ELSE meta.lease[k]
        /\ Numbered(meta)' /\ NothingDangles' /\ CopyInv'
        /\ Registered(meta') = Registered(meta)
      BY <1>0, <2>1, LeaseStep DEF Holders
  <2>3. cleaner' \in Cleaners /\ cleaner'.todo = cleaner.todo
      BY <1>s, <2>1 DEF Cleaners
  <2>4. PlansInv'
      BY <1>0, <2>2 DEF PlansInv
  <2>5. OriginalsKept'
      BY <1>0, <2>2 DEF OriginalsKept
  <2>6. Shape'
      BY <1>0, <2>2, <2>3 DEF Shape
  <2>7. RemoverInv'
    <3>1. \A k \in remover.plan.names : remover.at # "idle" => k \in Names /\ k \notin S
        BY <1>s, <2>1 DEF RemoverInv, Plans
    <3> QED  BY <1>0, <2>2, <3>1 DEF RemoverInv
  <2>8. CleanerInv'
      BY <1>t, <2>2, <2>3 DEF CleanerInv
  <2>9. ASSUME NEW k \in Names PROVE BuildInv(k)'
    <3>1. build[k].stage # "none" => k \notin S
        BY <2>1 DEF BuildInv
    <3> QED  BY <1>0, <2>2, <3>1 DEF BuildInv
  <2> QED  BY <2>2, <2>4, <2>5, <2>6, <2>7, <2>8, <2>9
<1>2. CASE ~Free(meta, S)
  <2>1. cleaner' = [at |-> "idle", todo |-> {}] /\ meta' = meta
      BY <1>2 DEF StartCleanup
  <2>2. cleaner' \in Cleaners /\ cleaner'.at = "idle"
      BY <2>1 DEF Cleaners
  <2>3. Shape'
      BY <1>0, <2>1, <2>2 DEF Shape
  <2>4. Numbered(meta)' /\ NothingDangles' /\ PlansInv' /\ RemoverInv' /\ CleanerInv' /\ CopyInv'
      BY <1>0, <2>1, <2>2
         DEF Numbered, NothingDangles, PlansInv, RemoverInv, CleanerInv, CopyInv, Registered, Rests
  <2>5. OriginalsKept'
      BY <1>0, <2>1 DEF OriginalsKept, Registered
  <2>6. ASSUME NEW k \in Names PROVE BuildInv(k)'
      BY <1>0, <2>1 DEF BuildInv
  <2> QED  BY <2>3, <2>4, <2>5, <2>6
<1> QED  BY <1>1, <1>2

\* A cleaner unlinks only temporaries of no live builder.
LEMMA StepUnlinkTemporaries ==
    ASSUME MaintenanceInv, UnlinkTemporaries
    PROVE  MaintenanceInv'
<1> USE DEF MaintenanceInv
<1> DEFINE S == Owners(cleaner.todo)
<1>0. /\ cleaner.at = "unlink" /\ temps' = temps \ cleaner.todo
      /\ meta' = Leased(meta, S, "none") /\ cleaner' = [at |-> "idle", todo |-> {}]
      /\ UNCHANGED <<disk, build, plans, remover, copy, spent>>
    BY DEF UnlinkTemporaries
<1>s. cleaner \in Cleaners /\ remover \in Removers /\ plans \in SUBSET Plans /\ meta \in Metas
    BY DEF Shape
<1>t. /\ \A f \in cleaner.todo : f.name \in S /\ f.name \in Names
      /\ \A k \in S : meta.lease[k] = "cleanup"
    BY <1>0, <1>s DEF Owners, Cleaners, FileNames, CleanerInv
<1> HIDE DEF S
<1>1. /\ meta' \in Metas /\ meta'.defs = meta.defs /\ meta'.commits = meta.commits
      /\ meta'.receipts = meta.receipts /\ meta'.journal = meta.journal
      /\ meta'.issued = meta.issued
      /\ \A k \in Names : meta'.lease[k] = IF k \in S THEN "none" ELSE meta.lease[k]
      /\ Numbered(meta)' /\ NothingDangles' /\ CopyInv'
      /\ Registered(meta') = Registered(meta)
    BY <1>0, LeaseStep DEF Holders
<1>2. cleaner' \in Cleaners /\ cleaner'.at = "idle"
    BY <1>0 DEF Cleaners
<1>3. Shape' /\ PlansInv' /\ CleanerInv'
  <2>1. PlansInv'
      BY <1>0, <1>1 DEF PlansInv
  <2>2. CleanerInv'
      BY <1>2 DEF CleanerInv
  <2> QED  BY <1>0, <1>1, <1>2, <2>1, <2>2 DEF Shape
<1>4. RemoverInv'
  <2>1. \A k \in remover.plan.names : remover.at # "idle" => k \in Names /\ k \notin S
      BY <1>s, <1>t DEF RemoverInv, Plans
  <2> QED  BY <1>0, <1>1, <2>1 DEF RemoverInv
<1>5. \A k \in Names : build[k].stage # "none" => k \notin S
    BY <1>t DEF BuildInv
<1>6. OriginalsKept'
  <2>1. ASSUME NEW k \in Names, build[k].stage = "written" PROVE Own(k) \in temps'
    <3>1. Own(k) \in temps /\ Own(k).name = k /\ k \notin S
        BY <1>5, <2>1 DEF OriginalsKept, Own
    <3> QED  BY <1>0, <1>t, <3>1
  <2>2. \A k \in Names : build[k].stage = "renamed" => Own(k) \in disk
      BY DEF OriginalsKept, Own
  <2>3. Registered(meta) \subseteq disk
      BY DEF OriginalsKept
  <2> QED  BY <1>0, <1>1, <2>1, <2>2, <2>3 DEF OriginalsKept, Own
<1>7. ASSUME NEW k \in Names PROVE BuildInv(k)'
    BY <1>0, <1>1, <1>5 DEF BuildInv
<1> QED  BY <1>1, <1>3, <1>4, <1>6, <1>7

-----------------------------------------------------------------------------
(* Steps that change the rows *)

\* A declaration reads declared Items only.
LEMMA StepRegister ==
    ASSUME MaintenanceInv, NEW n \in Names, Register(n)
    PROVE  MaintenanceInv'
<1> USE DEF MaintenanceInv
<1>0. /\ n \notin meta.defs /\ Reads[n] \subseteq meta.defs
      /\ meta' = [meta EXCEPT !.defs = meta.defs \cup {n}]
      /\ UNCHANGED <<disk, temps, build, plans, remover, cleaner, copy, spent>>
    BY DEF Register
<1>1. /\ meta' \in Metas /\ meta'.defs = meta.defs \cup {n} /\ meta'.commits = meta.commits
      /\ meta'.receipts = meta.receipts /\ meta'.journal = meta.journal
      /\ meta'.issued = meta.issued /\ meta'.lease = meta.lease
    BY <1>0 DEF Shape, Metas
<1>2. Shape' /\ Numbered(meta)'
    BY <1>0, <1>1 DEF Shape, Numbered
<1>3. NothingDangles'
    BY <1>0, <1>1 DEF NothingDangles, Rests
<1>4. PlansInv' /\ OriginalsKept'
    BY <1>0, <1>1 DEF PlansInv, OriginalsKept, Registered
<1>5. RemoverInv' /\ CleanerInv' /\ CopyInv'
    BY <1>0, <1>1 DEF RemoverInv, CleanerInv, CopyInv, Registered, Rests
<1>6. ASSUME NEW k \in Names PROVE BuildInv(k)'
    BY <1>0, <1>1 DEF BuildInv
<1> QED  BY <1>2, <1>3, <1>4, <1>5, <1>6

\* A receipt is registered over declared Items and their present commits.
LEMMA FreezeStep ==
    ASSUME MaintenanceInv, NEW S \in SUBSET meta.defs, Freeze(S), copy' = copy
    PROVE  /\ meta' \in Metas /\ meta'.defs = meta.defs /\ meta'.commits = meta.commits
           /\ meta'.receipts = meta.receipts \cup {Captured(S)}
           /\ Captured(S).id = meta.issued + 1
           /\ meta'.journal = meta.journal /\ meta'.lease = meta.lease
           /\ meta'.issued = meta.issued + 1 /\ meta.issued \in Nat
           /\ Numbered(meta)' /\ NothingDangles' /\ CopyInv'
           /\ Registered(meta') = Registered(meta)
<1> USE DEF MaintenanceInv
<1>0. /\ meta \in Metas /\ meta.issued \in Nat /\ meta.commits \in SUBSET CommitRows
      /\ meta.receipts \in SUBSET Receipts /\ S \in SUBSET Names
    BY DEF Shape, Metas
<1>i. meta.issued + 1 \in Nat
    BY <1>0
<1>s. {c.seq : c \in Published(meta, S)} \in SUBSET Nat
    BY <1>0 DEF Published, CommitRows
<1>1. PICK r : /\ r = Captured(S) /\ r \in Receipts /\ r.id = meta.issued + 1 /\ r.of = S
               /\ r.commits = {c.seq : c \in Published(meta, S)}
  <2>1. Captured(S) \in Receipts
      BY <1>0, <1>i, <1>s DEF Captured, Receipts
  <2>2. /\ Captured(S).id = meta.issued + 1 /\ Captured(S).of = S
        /\ Captured(S).commits = {c.seq : c \in Published(meta, S)}
      BY DEF Captured
  <2> QED  BY <2>1, <2>2
<1>2. meta' = [meta EXCEPT !.receipts = meta.receipts \cup {r}, !.issued = meta.issued + 1]
    BY <1>1 DEF Freeze
<1>3. /\ meta' \in Metas /\ meta'.defs = meta.defs /\ meta'.commits = meta.commits
      /\ meta'.receipts = meta.receipts \cup {r}
      /\ meta'.journal = meta.journal /\ meta'.lease = meta.lease
      /\ meta'.issued = meta.issued + 1
  <2>1. meta.receipts \cup {r} \in SUBSET Receipts
      BY <1>0, <1>1
  <2>2. PICK R, k : R = meta.receipts \cup {r} /\ k = meta.issued + 1
      OBVIOUS
  <2>3. R \in SUBSET Receipts /\ k \in Nat /\ meta' = [meta EXCEPT !.receipts = R, !.issued = k]
      BY <1>2, <1>i, <2>1, <2>2
  <2>4. /\ meta' \in Metas /\ meta'.defs = meta.defs /\ meta'.commits = meta.commits
        /\ meta'.receipts = R /\ meta'.journal = meta.journal /\ meta'.lease = meta.lease
        /\ meta'.issued = k
      BY <1>0, <2>3 DEF Metas
  <2> QED  BY <2>2, <2>4
<1>4. Numbered(meta)'
  <2>1. \A k \in Nat : k \in 0 .. meta.issued => k \in 0 .. meta.issued + 1
      BY <1>0
  <2>2. \A k \in Nat : k \in 1 .. meta.issued => k \in 1 .. meta.issued + 1
      BY <1>0
  <2>3. \A c \in meta.commits : /\ c.seq \in 1 .. meta.issued + 1
                                /\ c.receipt \in 1 .. meta.issued + 1
                                /\ c.file \in 0 .. meta.issued + 1
      BY <1>0, <2>1, <2>2 DEF Numbered, CommitRows
  <2>4. \A x \in meta.receipts \cup {r} : x.id \in 1 .. meta.issued + 1
    <3>1. \A x \in meta.receipts : x.id \in 1 .. meta.issued + 1
        BY <1>0, <2>2 DEF Numbered, Receipts
    <3>2. r.id \in 1 .. meta.issued + 1
        BY <1>0, <1>1
    <3> QED  BY <3>1, <3>2
  <2> QED  BY <1>3, <2>3, <2>4 DEF Numbered
<1>5. NothingDangles'
  <2>1. r.of \subseteq meta.defs /\ r.commits \subseteq {c.seq : c \in meta.commits}
      BY <1>1 DEF Published
  <2> QED  BY <1>3, <2>1 DEF NothingDangles, Rests
<1>6. CopyInv' /\ Registered(meta') = Registered(meta)
    BY <1>3 DEF CopyInv, Registered, Rests
<1> QED  BY <1>0, <1>1, <1>3, <1>4, <1>5, <1>6

\* A frozen receipt rests on rows that stand.
LEMMA StepConsumerFreezes ==
    ASSUME MaintenanceInv, NEW n \in Names, ConsumerFreezes(n)
    PROVE  MaintenanceInv'
<1>0. /\ {n} \in SUBSET meta.defs /\ Freeze({n})
      /\ spent' = [spent EXCEPT !.freezes = spent.freezes + 1]
      /\ UNCHANGED <<disk, temps, build, plans, remover, cleaner, copy>>
    BY DEF ConsumerFreezes
<1>1. PICK r : /\ meta' \in Metas /\ meta'.defs = meta.defs /\ meta'.commits = meta.commits
               /\ meta'.receipts = meta.receipts \cup {r}
               /\ r.id = meta.issued + 1
               /\ meta'.journal = meta.journal /\ meta'.lease = meta.lease
               /\ meta'.issued = meta.issued + 1 /\ meta.issued \in Nat
               /\ Numbered(meta)' /\ NothingDangles' /\ CopyInv'
               /\ Registered(meta') = Registered(meta)
    BY <1>0, FreezeStep
<1> USE DEF MaintenanceInv
<1>2. Shape'
  <2>1. spent' \in Spendings
      BY <1>0 DEF Shape, Spendings
  <2> QED  BY <1>0, <1>1, <2>1 DEF Shape
<1>3. PlansInv'
    BY <1>0, <1>1 DEF PlansInv
<1>4. OriginalsKept'
    BY <1>0, <1>1 DEF OriginalsKept
<1>5. RemoverInv' /\ CleanerInv'
    BY <1>0, <1>1 DEF RemoverInv, CleanerInv
<1>6. ASSUME NEW k \in Names PROVE BuildInv(k)'
  <2>1. \A i \in Nat : i \in 1 .. meta.issued => i \in 1 .. meta.issued + 1
      BY <1>1
  <2>2. build[k].receipt \in Nat
      BY DEF Shape, Builds
  <2> QED  BY <1>0, <1>1, <2>1, <2>2 DEF BuildInv
<1> QED  BY <1>1, <1>2, <1>3, <1>4, <1>5, <1>6

\* The receipt of a publication is newer than every file.
LEMMA StepBuildFreezes ==
    ASSUME MaintenanceInv, NEW n \in Names, BuildFreezes(n)
    PROVE  MaintenanceInv'
<1> USE DEF MaintenanceInv
<1> DEFINE b == [build[n] EXCEPT !.stage = "frozen", !.receipt = meta.issued + 1]
<1>0. /\ build[n].stage = "begun" /\ Freeze(Reads[n]) /\ build' = [build EXCEPT ![n] = b]
      /\ UNCHANGED <<disk, temps, plans, remover, cleaner, copy, spent>>
    BY DEF BuildFreezes
<1>a. n \in meta.defs /\ Reads[n] \in SUBSET meta.defs
    BY <1>0 DEF BuildInv, NothingDangles, Rests
<1>b. build \in [Names -> Builds] /\ build[n] \in Builds /\ meta.issued \in Nat
    BY DEF Shape, Metas
<1>2. b \in Builds /\ b.stage = "frozen" /\ b.receipt = meta.issued + 1 /\ b.file = build[n].file
  <2>1. PICK i \in Nat : i = meta.issued + 1
      BY <1>b
  <2>2. b = [build[n] EXCEPT !.stage = "frozen", !.receipt = i]
      BY <2>1
  <2> HIDE DEF b
  <2> QED  BY <1>b, <2>1, <2>2 DEF Builds
<1> HIDE DEF b
<1>3. /\ build' \in [Names -> Builds] /\ build'[n] = b
      /\ \A k \in Names \ {n} : build'[k] = build[k]
    BY <1>0, <1>b, <1>2
<1>1. PICK r : /\ meta' \in Metas /\ meta'.defs = meta.defs /\ meta'.commits = meta.commits
               /\ meta'.receipts = meta.receipts \cup {r}
               /\ r.id = meta.issued + 1
               /\ meta'.journal = meta.journal /\ meta'.lease = meta.lease
               /\ meta'.issued = meta.issued + 1 /\ meta.issued \in Nat
               /\ Numbered(meta)' /\ NothingDangles' /\ CopyInv'
               /\ Registered(meta') = Registered(meta)
    BY <1>0, <1>a, FreezeStep
<1>4. Shape' /\ PlansInv'
  <2>1. PlansInv'
      BY <1>0, <1>1 DEF PlansInv
  <2> QED  BY <1>0, <1>1, <1>3, <2>1 DEF Shape
<1>5. OriginalsKept'
  <2>1. ASSUME NEW k \in Names
        PROVE  /\ build'[k].stage = "written" => [name |-> k, id |-> build'[k].file] \in temps'
               /\ build'[k].stage = "renamed" => [name |-> k, id |-> build'[k].file] \in disk'
    <3>1. CASE k = n
        BY <1>2, <1>3, <3>1
    <3>2. CASE k # n
        BY <1>0, <1>3, <3>2 DEF OriginalsKept
    <3> QED  BY <3>1, <3>2
  <2> QED  BY <1>0, <1>1, <2>1 DEF OriginalsKept
<1>6. RemoverInv' /\ CleanerInv'
    BY <1>0, <1>1 DEF RemoverInv, CleanerInv
<1>7. ASSUME NEW k \in Names PROVE BuildInv(k)'
  <2>1. CASE k = n
    <3>1. \A c \in meta.commits : c.file # meta.issued + 1
        BY <1>b DEF Numbered
    <3>2. b.receipt \in 1 .. meta.issued + 1
        BY <1>b, <1>2
    <3>3. b.file = 0 /\ meta.lease[n] = "build"
        BY <1>0, <1>2 DEF BuildInv
    <3> QED  BY <1>0, <1>a, <1>1, <1>2, <1>3, <2>1, <3>1, <3>2, <3>3 DEF BuildInv
  <2>2. CASE k # n
    <3>1. \A i \in Nat : i \in 1 .. meta.issued => i \in 1 .. meta.issued + 1
        BY <1>1
    <3>2. build[k].receipt \in Nat
        BY DEF Shape, Builds
    <3> QED  BY <1>0, <1>1, <1>3, <2>2, <3>1, <3>2 DEF BuildInv
  <2> QED  BY <2>1, <2>2
<1> QED  BY <1>1, <1>4, <1>5, <1>6, <1>7

\* A removal completes when all its files are unlinked.
LEMMA StepCompleteRemoval ==
    ASSUME MaintenanceInv, CompleteRemoval
    PROVE  MaintenanceInv'
<1> USE DEF MaintenanceInv
<1> DEFINE J == Saved(meta, remover.plan, "complete")
<1>0. /\ remover.at = "unlink" /\ meta' = [meta EXCEPT !.journal = J]
      /\ remover' = [remover EXCEPT !.at = "release"]
      /\ UNCHANGED <<disk, temps, build, plans, cleaner, copy, spent>>
    BY DEF CompleteRemoval
<1>1. meta \in Metas /\ remover \in Removers /\ plans \in SUBSET Plans /\ remover.plan \in plans
    BY <1>0 DEF Shape, RemoverInv
<1>2. J \in SUBSET Entries /\ \A j \in J : j.plan \in plans
    BY <1>1 DEF Saved, Entries, Metas, PlansInv
<1> HIDE DEF J
<1>3. /\ meta' \in Metas /\ meta'.defs = meta.defs /\ meta'.commits = meta.commits
      /\ meta'.receipts = meta.receipts /\ meta'.journal = J
      /\ meta'.issued = meta.issued /\ meta'.lease = meta.lease
    BY <1>0, <1>1, <1>2 DEF Metas
<1>4. /\ remover' \in Removers /\ remover'.plan = remover.plan /\ remover'.todo = remover.todo
    BY <1>0, <1>1 DEF Removers
<1>5. Shape' /\ Numbered(meta)' /\ NothingDangles'
    BY <1>0, <1>3, <1>4 DEF Shape, Numbered, NothingDangles, Rests
<1>6. PlansInv' /\ OriginalsKept'
    BY <1>0, <1>2, <1>3 DEF PlansInv, OriginalsKept, Registered
<1>7. RemoverInv' /\ CleanerInv' /\ CopyInv'
    BY <1>0, <1>3, <1>4 DEF RemoverInv, CleanerInv, CopyInv, Registered, Rests
<1>8. ASSUME NEW k \in Names PROVE BuildInv(k)'
    BY <1>0, <1>3 DEF BuildInv
<1> QED  BY <1>5, <1>6, <1>7, <1>8

\* A commit registers a file that is there and that no removal is taking.
LEMMA StepCommitBuild ==
    ASSUME MaintenanceInv, NEW n \in Names, CommitBuild(n)
    PROVE  MaintenanceInv'
<1> USE DEF MaintenanceInv
<1> DEFINE row == [seq |-> meta.issued + 1, name |-> n,
                   receipt |-> build[n].receipt, file |-> build[n].file]
           m == Leased(meta, {n}, "none")
<1>0. /\ build[n].stage \in {"frozen", "renamed"}
      /\ meta' = [m EXCEPT !.commits = m.commits \cup {row}, !.issued = m.issued + 1]
      /\ build' = [build EXCEPT ![n] = NoBuild]
      /\ UNCHANGED <<disk, temps, plans, remover, cleaner, copy, spent>>
    BY DEF CommitBuild
<1>b. /\ build \in [Names -> Builds] /\ build[n] \in Builds /\ NoBuild \in Builds
      /\ meta \in Metas /\ meta.issued \in Nat /\ meta.commits \in SUBSET CommitRows
    BY DEF Shape, Metas, NoBuild, Builds
<1>r. row \in CommitRows
  <2>1. meta.issued + 1 \in Nat
      BY <1>b
  <2> QED  BY <1>b, <2>1 DEF Builds, CommitRows
<1>n. /\ row.seq = meta.issued + 1 /\ row.name = n /\ row.receipt = build[n].receipt
      /\ row.file = build[n].file
    OBVIOUS
<1> HIDE DEF row
<1>m. /\ m \in Metas /\ m.defs = meta.defs /\ m.commits = meta.commits
      /\ m.receipts = meta.receipts /\ m.journal = meta.journal /\ m.issued = meta.issued
      /\ \A k \in Names : m.lease[k] = IF k \in {n} THEN "none" ELSE meta.lease[k]
    BY <1>b, LeasedFields DEF Holders
<1> HIDE DEF m
<1>1. /\ meta' \in Metas /\ meta'.defs = meta.defs /\ meta'.commits = meta.commits \cup {row}
      /\ meta'.receipts = meta.receipts /\ meta'.journal = meta.journal
      /\ meta'.issued = meta.issued + 1
      /\ \A k \in Names : meta'.lease[k] = IF k = n THEN "none" ELSE meta.lease[k]
  <2>1. PICK C, i : C = m.commits \cup {row} /\ i = m.issued + 1
      OBVIOUS
  <2>2. C \in SUBSET CommitRows /\ i \in Nat
      BY <1>b, <1>r, <1>m, <2>1
  <2>3. meta' = [m EXCEPT !.commits = C, !.issued = i]
      BY <1>0, <2>1
  <2>4. /\ meta' \in Metas /\ meta'.defs = m.defs /\ meta'.commits = C
        /\ meta'.receipts = m.receipts /\ meta'.journal = m.journal
        /\ meta'.issued = i /\ meta'.lease = m.lease
      BY <1>m, <2>2, <2>3 DEF Metas
  <2> QED  BY <1>m, <2>1, <2>4
<1>2. NoBuild.stage = "none" /\ NoBuild.file = 0
    BY DEF NoBuild
<1>3. /\ build' \in [Names -> Builds] /\ build'[n] = NoBuild
      /\ \A k \in Names \ {n} : build'[k] = build[k]
    BY <1>0, <1>b
<1>4. Registered(meta') \subseteq Registered(meta) \cup {Own(n)}
    BY <1>1, <1>n DEF Registered, Files, Own
<1>5. build[n].file # 0 => Own(n) \in disk
    BY <1>0 DEF OriginalsKept, BuildInv, Own
<1>6. build[n].file = 0 => Registered(meta') = Registered(meta)
    BY <1>1, <1>n DEF Registered, Files
<1>7. meta.lease[n] = "build"
    BY <1>0 DEF BuildInv
<1>8. Shape' /\ PlansInv'
  <2>1. PlansInv'
      BY <1>0, <1>1 DEF PlansInv
  <2> QED  BY <1>0, <1>1, <1>3, <2>1 DEF Shape
<1>9. Numbered(meta)'
  <2>1. \A k \in Nat : k \in 0 .. meta.issued => k \in 0 .. meta.issued + 1
      BY <1>b
  <2>2. \A k \in Nat : k \in 1 .. meta.issued => k \in 1 .. meta.issued + 1
      BY <1>b
  <2>3. \A c \in meta.commits : /\ c.seq \in 1 .. meta.issued + 1
                                /\ c.receipt \in 1 .. meta.issued + 1
                                /\ c.file \in 0 .. meta.issued + 1
      BY <1>b, <2>1, <2>2 DEF Numbered, CommitRows
  <2>4. \A r \in meta.receipts : r.id \in 1 .. meta.issued + 1
      BY <1>b, <2>2 DEF Numbered, Metas, Receipts
  <2>5. /\ row.seq \in 1 .. meta.issued + 1 /\ row.receipt \in 1 .. meta.issued + 1
        /\ row.file \in 0 .. meta.issued + 1
    <3>1. build[n].receipt \in 1 .. meta.issued
        BY <1>0 DEF BuildInv
    <3>2. build[n].file = build[n].receipt \/ build[n].file = 0
        BY <1>0 DEF BuildInv
    <3> QED  BY <1>b, <1>n, <3>1, <3>2
  <2> QED  BY <1>1, <2>3, <2>4, <2>5 DEF Numbered
<1>10. NothingDangles'
  <2>1. n \in meta.defs /\ \E r \in meta.receipts : r.id = row.receipt
      BY <1>0, <1>n DEF BuildInv
  <2> QED  BY <1>1, <1>n, <2>1 DEF NothingDangles, Rests
<1>11. OriginalsKept'
  <2>1. Registered(meta') \subseteq disk'
      BY <1>0, <1>4, <1>5, <1>6 DEF OriginalsKept
  <2>2. ASSUME NEW k \in Names
        PROVE  /\ build'[k].stage = "written" => [name |-> k, id |-> build'[k].file] \in temps'
               /\ build'[k].stage = "renamed" => [name |-> k, id |-> build'[k].file] \in disk'
    <3>1. CASE k = n
        BY <1>2, <1>3, <3>1
    <3>2. CASE k # n
        BY <1>0, <1>3, <3>2 DEF OriginalsKept
    <3> QED  BY <3>1, <3>2
  <2> QED  BY <2>1, <2>2 DEF OriginalsKept
<1>12. RemoverInv'
  <2>1. \A k \in remover.plan.names : remover.at # "idle" => k \in Names /\ k # n
      BY <1>7 DEF RemoverInv, Shape, Plans
  <2>2. remover.at # "idle" => Own(n) \notin remover.plan.files
      BY <2>1 DEF RemoverInv, PlansInv, Own
  <2> QED  BY <1>0, <1>1, <1>4, <2>1, <2>2 DEF RemoverInv
<1>13. CleanerInv' /\ CopyInv'
  <2>1. \A f \in cleaner.todo : cleaner.at = "unlink" => f.name \in Names /\ f.name # n
      BY <1>7 DEF CleanerInv, Shape, Cleaners, FileNames
  <2> QED  BY <1>0, <1>1, <2>1 DEF CleanerInv, CopyInv, Rests
<1>14. ASSUME NEW k \in Names PROVE BuildInv(k)'
  <2>1. CASE k = n
      BY <1>2, <1>3, <2>1 DEF BuildInv
  <2>2. CASE k # n
    <3>1. \A i \in Nat : i \in 1 .. meta.issued => i \in 1 .. meta.issued + 1
        BY <1>b
    <3>2. build[k].receipt \in Nat
        BY DEF Shape, Builds
    <3> QED  BY <1>1, <1>n, <1>3, <2>2, <3>1, <3>2 DEF BuildInv
  <2> QED  BY <2>1, <2>2
<1> QED  BY <1>8, <1>9, <1>10, <1>11, <1>12, <1>13, <1>14

\* A detachment takes exactly what nothing retained rests on.
LEMMA StepDetach ==
    ASSUME MaintenanceInv, NEW p \in plans, Detach(p)
    PROVE  MaintenanceInv'
<1> USE DEF MaintenanceInv
<1> DEFINE S == p.names
           D == Ids(p.receipts)
           J == Saved(meta, p, "detached")
           w == [meta EXCEPT !.defs = meta.defs \ S, !.commits = meta.commits \ p.commits,
                             !.receipts = meta.receipts \ p.receipts, !.journal = J]
<1>0. /\ \A k \in Names : meta.lease[k] = "none"
      /\ PlanOf(S, D) = p /\ ~Blocked(S, D)
      /\ meta' = Leased(w, S, "removal")
      /\ remover' = [at |-> "unlink", plan |-> p, todo |-> p.files]
      /\ UNCHANGED <<disk, temps, build, plans, cleaner, copy, spent>>
    BY DEF Detach, StartRemoval, OldFiles, Active, Unchanged
<1>p. p \in Plans /\ S \subseteq Names /\ meta \in Metas
    BY DEF Shape, Plans
<1>i. /\ p.receipts = {r \in meta.receipts : r.id \in D}
      /\ p.commits = Published(meta, S) /\ p.files = Files(Published(meta, S))
    BY <1>0 DEF PlanOf
<1>d. Required(meta, S) = D /\ ~RetainedDeclaration(meta, S) /\ ~RetainedCreator(meta, S, D)
    BY <1>0 DEF Blocked
<1>j. J \in SUBSET Entries /\ \A j \in J : j.plan \in plans
    BY <1>p DEF Saved, Entries, Metas, PlansInv
<1> HIDE DEF S, D, J
<1>w. /\ w \in Metas /\ w.defs = meta.defs \ S /\ w.commits = meta.commits \ p.commits
      /\ w.receipts = meta.receipts \ p.receipts /\ w.journal = J
      /\ w.issued = meta.issued /\ w.lease = meta.lease
  <2>1. PICK d, C, R : /\ d = meta.defs \ S /\ C = meta.commits \ p.commits
                       /\ R = meta.receipts \ p.receipts
      OBVIOUS
  <2>2. d \in SUBSET Names /\ C \in SUBSET CommitRows /\ R \in SUBSET Receipts
      BY <1>p, <2>1 DEF Metas
  <2>3. w = [meta EXCEPT !.defs = d, !.commits = C, !.receipts = R, !.journal = J]
      BY <2>1
  <2> HIDE DEF w
  <2>4. /\ w \in Metas /\ w.defs = d /\ w.commits = C /\ w.receipts = R /\ w.journal = J
        /\ w.issued = meta.issued /\ w.lease = meta.lease
      BY <1>p, <1>j, <2>2, <2>3 DEF Metas
  <2> QED  BY <2>1, <2>4
<1> HIDE DEF w
<1>1. /\ meta' \in Metas /\ meta'.defs = meta.defs \ S
      /\ meta'.commits = {c \in meta.commits : c.name \notin S}
      /\ meta'.receipts = {r \in meta.receipts : r.id \notin D} /\ meta'.journal = J
      /\ meta'.issued = meta.issued
      /\ \A k \in Names : meta'.lease[k] = IF k \in S THEN "removal" ELSE "none"
  <2>1. /\ meta' \in Metas /\ meta'.defs = w.defs /\ meta'.commits = w.commits
        /\ meta'.receipts = w.receipts /\ meta'.journal = w.journal /\ meta'.issued = w.issued
        /\ \A k \in Names : meta'.lease[k] = IF k \in S THEN "removal" ELSE w.lease[k]
      BY <1>0, <1>w, LeasedFields DEF Holders
  <2>2. w.commits = {c \in meta.commits : c.name \notin S}
      BY <1>w, <1>i DEF Published
  <2>3. w.receipts = {r \in meta.receipts : r.id \notin D}
      BY <1>w, <1>i
  <2> QED  BY <1>0, <1>w, <2>1, <2>2, <2>3
<1>2. \A k \in Names : build[k].stage = "none" /\ build[k].file = 0
    BY <1>0 DEF BuildInv
<1>3. Shape' /\ PlansInv'
  <2>1. PlansInv'
      BY <1>0, <1>1, <1>j DEF PlansInv
  <2>2. remover' \in Removers
      BY <1>0, <1>p DEF Removers, Plans
  <2> QED  BY <1>0, <1>1, <2>1, <2>2 DEF Shape
<1>4. Numbered(meta)'
    BY <1>1 DEF Numbered
<1>5. NothingDangles'
  <2>1. ASSUME NEW n \in meta'.defs PROVE Reads[n] \subseteq meta'.defs
      BY <1>1, <1>d DEF NothingDangles, Rests, RetainedDeclaration
  <2>2. ASSUME NEW c \in meta'.commits
        PROVE  c.name \in meta'.defs /\ \E r \in meta'.receipts : r.id = c.receipt
    <3>1. c \in meta.commits /\ c.name \notin S /\ c.receipt \notin D
        BY <1>1, <1>d DEF RetainedCreator
    <3> QED  BY <1>1, <3>1 DEF NothingDangles, Rests
  <2>3. ASSUME NEW r \in meta'.receipts
        PROVE  r.of \subseteq meta'.defs /\ r.commits \subseteq {c.seq : c \in meta'.commits}
    <3>1. r \in meta.receipts /\ ~Direct(meta, S, r)
        BY <1>1, <1>d, <1>p, DirectRequired
    <3>2. r.of \cap S = {} /\ r.commits \cap {c.seq : c \in Published(meta, S)} = {}
        BY <3>1 DEF Direct
    <3>3. r.of \subseteq meta.defs /\ r.commits \subseteq {c.seq : c \in meta.commits}
        BY <3>1 DEF NothingDangles, Rests
    <3>4. \A k \in r.commits : k \in {c.seq : c \in meta'.commits}
        BY <1>1, <3>2, <3>3 DEF Published
    <3> QED  BY <1>1, <3>2, <3>3, <3>4
  <2> QED  BY <2>1, <2>2, <2>3 DEF NothingDangles, Rests
<1>6. OriginalsKept'
  <2>1. Registered(meta') \subseteq disk'
      BY <1>0, <1>1 DEF OriginalsKept, Registered, Files
  <2> QED  BY <1>0, <1>2, <2>1 DEF OriginalsKept
<1>7. RemoverInv'
  <2>1. p.files \cap Registered(meta') = {}
      BY <1>1, <1>i DEF Published, Registered, Files
  <2>2. \A k \in S : meta'.lease[k] = "removal"
      BY <1>1, <1>p
  <2> QED  BY <1>0, <2>1, <2>2 DEF RemoverInv, S
<1>8. CleanerInv' /\ CopyInv'
  <2>1. \A f \in cleaner.todo : cleaner.at = "unlink" => f.name \in Names
      BY DEF Shape, Cleaners, FileNames
  <2>2. cleaner.at = "unlink" => cleaner.todo = {}
      BY <1>0, <2>1 DEF CleanerInv
  <2> QED  BY <1>0, <2>2 DEF CleanerInv, CopyInv, Rests
<1>9. ASSUME NEW k \in Names PROVE BuildInv(k)'
    BY <1>0, <1>2 DEF BuildInv
<1> QED  BY <1>3, <1>4, <1>5, <1>6, <1>7, <1>8, <1>9

-----------------------------------------------------------------------------
(* Every behaviour *)

\* The empty store satisfies the invariant.
LEMMA InitMaintains == Init => MaintenanceInv
<1> SUFFICES ASSUME Init PROVE MaintenanceInv
    OBVIOUS
<1> USE DEF Init
<1>1. /\ EmptyMeta.defs = {} /\ EmptyMeta.commits = {} /\ EmptyMeta.receipts = {}
      /\ EmptyMeta.journal = {}
    BY DEF EmptyMeta
<1>2. /\ \A n \in Names : build[n] = NoBuild
      /\ NoBuild.stage = "none" /\ NoBuild.file = 0 /\ NoBuild \in Builds
      /\ Idle \in Removers /\ Idle.at = "idle" /\ NoCopy.at = "none"
    BY DEF NoBuild, Builds, Idle, Removers, NoCopy
<1>3. cleaner \in Cleaners /\ cleaner.at = "idle" /\ spent \in Spendings
    BY DEF Cleaners, Spendings
<1>4. Shape
    BY <1>2, <1>3, EmptyShape DEF Shape
<1>5. Registered(meta) = {}
    BY <1>1 DEF Registered, Files
<1>6. Numbered(meta) /\ NothingDangles
    BY <1>1 DEF Numbered, NothingDangles, Rests
<1>7. OriginalsKept
    BY <1>2, <1>5 DEF OriginalsKept
<1>8. PlansInv /\ RemoverInv /\ CleanerInv /\ CopyInv
    BY <1>1, <1>2, <1>3 DEF PlansInv, RemoverInv, CleanerInv, CopyInv
<1>9. ASSUME NEW n \in Names PROVE BuildInv(n)
    BY <1>2 DEF BuildInv
<1> QED  BY <1>4, <1>6, <1>7, <1>8, <1>9 DEF MaintenanceInv

\* Every step keeps it.
LEMMA NextMaintains == MaintenanceInv /\ [Next]_vars => MaintenanceInv'
<1> SUFFICES ASSUME MaintenanceInv, [Next]_vars PROVE MaintenanceInv'
    OBVIOUS
<1>1. CASE \E n \in Names : Register(n) \/ ConsumerFreezes(n) \/ BeginBuild(n)
    BY <1>1, StepRegister, StepConsumerFreezes, StepBeginBuild
<1>2. CASE \E n \in Names : Publishing(n)
    BY <1>2, StepBuildFreezes, StepWriteTemporary, StepRename, StepCommitBuild, StepStops
       DEF Publishing, EndBuild
<1>3. CASE \E n \in Names : BuilderDies(n) \/ Abandon(n)
    BY <1>3, StepStops, StepAbandon
<1>4. CASE \E S \in SUBSET Names : MakePlan(S)
    BY <1>4, StepMakePlan
<1>5. CASE \E p \in plans : Detach(p) \/ Resume(p)
    BY <1>5, StepDetach, StepResume
<1>6. CASE Removing \/ RemoverDies
    BY <1>6, StepUnlink, StepCompleteRemoval, StepRemoverEnds DEF Removing
<1>7. CASE PlanCleanup \/ Cleaning
    BY <1>7, StepPlanCleanup, StepStartCleanup, StepUnlinkTemporaries DEF Cleaning
<1>8. CASE Copying
    BY <1>8, StepCopying
<1>9. CASE UNCHANGED vars
  <2>1. Shape' /\ Numbered(meta)' /\ NothingDangles' /\ OriginalsKept'
      BY <1>9 DEF vars, MaintenanceInv, Shape, Numbered, NothingDangles, Rests, OriginalsKept, Registered
  <2>2. PlansInv' /\ RemoverInv' /\ CleanerInv' /\ CopyInv'
      BY <1>9 DEF vars, MaintenanceInv, PlansInv, RemoverInv, CleanerInv, CopyInv, Registered, Rests
  <2>3. ASSUME NEW n \in Names PROVE BuildInv(n)'
      BY <1>9 DEF vars, MaintenanceInv, BuildInv
  <2> QED  BY <2>1, <2>2, <2>3 DEF MaintenanceInv
<1> QED  BY <1>1, <1>2, <1>3, <1>4, <1>5, <1>6, <1>7, <1>8, <1>9 DEF Next, Copying

\* What the metadata says, what lies on the disk and what each process is about
\* to do agree after any steps of registrations, publications, removals,
\* cleanups, copies and deaths.
THEOREM Maintained == Spec => []MaintenanceInv
BY InitMaintains, NextMaintains, PTL DEF Spec

\* The state of removal, cleanup and copies keeps its type.
THEOREM TypeCorrect == Spec => []TypeOK
<1>1. MaintenanceInv => TypeOK
  <2> SUFFICES ASSUME MaintenanceInv PROVE TypeOK
      OBVIOUS
  <2> USE DEF MaintenanceInv
  <2>1. meta \in Metas /\ \A p \in plans : p \in Plans
      BY DEF Shape
  <2>2. /\ meta.defs \subseteq Names /\ meta.lease \in [Names -> Holders]
        /\ \A j \in meta.journal : j.status \in {"detached", "complete"} /\ j.plan \in plans
      BY <2>1 DEF Metas, Entries, PlansInv
  <2>3. /\ \A c \in meta.commits : c.name \in Names /\ c.seq \in 1 .. meta.issued
        /\ \A r \in meta.receipts : r.of \subseteq Names /\ r.id \in 1 .. meta.issued
      BY <2>1 DEF Metas, CommitRows, Receipts, Numbered
  <2>4. /\ \A n \in Names : build[n].stage \in {"none", "begun", "frozen", "written", "renamed"}
        /\ \A f \in disk \cup temps : f.name \in Names
      BY DEF Shape, Builds, FileNames
  <2>5. /\ remover.at \in {"idle", "unlink", "release"}
        /\ cleaner.at \in {"idle", "planned", "unlink"}
        /\ copy.at \in {"none", "files", "done", "failed"}
      BY DEF Shape, Removers, Cleaners, Copies
  <2> QED  BY <2>2, <2>3, <2>4, <2>5 DEF TypeOK
<1> QED  BY <1>1, Maintained, PTL

\* No removal, planned or repeated at any moment, takes what a declaration, a
\* publication or a receipt that stays still rests on.
THEOREM RemovalLeavesNoGap == Spec => []NothingDangles
<1>1. MaintenanceInv => NothingDangles
    BY DEF MaintenanceInv
<1> QED  BY <1>1, Maintained, PTL

\* Registered originals stay on the disk, and so does what a live publisher
\* wrote, whatever removals and cleanups unlink beside it.
THEOREM OriginalsStay == Spec => []OriginalsKept
<1>1. MaintenanceInv => OriginalsKept
    BY DEF MaintenanceInv
<1> QED  BY <1>1, Maintained, PTL

\* A copy that is handed out holds every original of the metadata it took.
THEOREM CopiesAreWhole == Spec => CopyIsWhole
<1> DEFINE Whole == /\ Registered(copy.meta) \subseteq copy.files
                    /\ Rests(copy.meta)
<1>1. MaintenanceInv /\ [Next]_vars => (copy.at = "files" /\ copy'.at = "done" => Whole)
  <2> SUFFICES ASSUME MaintenanceInv, [Next]_vars, copy.at = "files", copy'.at = "done"
               PROVE  Whole
      OBVIOUS
  <2>1. CopyDone
    <3>1. copy' # copy
        OBVIOUS
    <3>2. copy.at # "none"
        OBVIOUS
    <3>3. copy \in Copies
        BY DEF MaintenanceInv, Shape
    <3>4. Copying
        BY <3>1 DEF Next, vars, Copying, Register, ConsumerFreezes, BeginBuild, Publishing,
                    EndBuild, BuildFreezes, WriteTemporary, Rename, CommitBuild, BuildFails,
                    BuilderDies, Abandon, MakePlan, Detach, Resume, StartRemoval, Removing,
                    Unlink, CompleteRemoval, ReleaseRemoval, RemoverDies, PlanCleanup,
                    Cleaning, StartCleanup, UnlinkTemporaries
    <3>5. ASSUME NEW f, CopyFile(f) PROVE FALSE
      <4>1. copy'.at = copy.at
          BY <3>3, <3>5 DEF CopyFile, Copies
      <4> QED  BY <4>1
    <3>6. CopyFails => copy'.at = "failed"
        BY EmptyShape DEF CopyFails, Copies
    <3> QED  BY <3>2, <3>4, <3>5, <3>6 DEF Copying, CopyDatabase
  <2>2. Registered(copy.meta) \ copy.files = {}
      BY <2>1 DEF CopyDone, ToCopy
  <2> QED  BY <2>2 DEF MaintenanceInv, CopyInv
<1>2. MaintenanceInv /\ [Next]_vars
        => [copy.at = "files" /\ copy'.at = "done" =>
              Registered(copy.meta) \subseteq copy.files /\ Rests(copy.meta)]_vars
    BY <1>1
<1> QED  BY <1>2, Maintained, PTL DEF Spec, CopyIsWhole
===============================================================================
