---------------------------- MODULE Maintenance ----------------------------
(***************************************************************************)
(* Maintenance beside publication: explicit removal of DataItems with their *)
(* evidence, cleanup of abandoned temporary files and independent copies of *)
(* the store, while Items are registered, built and frozen by others.       *)
(*                                                                         *)
(* The metadata is one database whose transactions are serial; the files    *)
(* are not part of it.  A removal detaches the metadata first, keeps a      *)
(* receipt of the old files and unlinks them afterwards; a copy takes the   *)
(* metadata first and the files it names one by one.  Any of these          *)
(* processes may die between two steps and leave its lease behind.          *)
(***************************************************************************)
EXTENDS Naturals, FiniteSets, FiniteSetsExt

CONSTANTS
    Names,        \* DataItems
    Reads,        \* the Items each one reads: [Names -> SUBSET Names]
    MaxBuilds,    \* bound: builds begun
    MaxFreezes,   \* bound: receipts frozen by consumers
    MaxRemovals,  \* bound: removal plans
    MaxCrashes    \* bound: processes that die

ASSUME MaintenanceAssumption ==
    /\ Reads \in [Names -> SUBSET Names]
    /\ {MaxBuilds, MaxFreezes, MaxRemovals, MaxCrashes} \subseteq Nat

VARIABLES
    meta,      \* the metadata database
    disk,      \* generation files: [name, id]
    temps,     \* atomic-write temporaries: [name, id]
    build,     \* the publication under way of each Item
    plans,     \* removal plans the caller holds
    remover,   \* remove_items
    cleaner,   \* cleanup_temporary
    copy,      \* snapshot or export
    spent      \* builds, freezes and crashes so far

vars == <<meta, disk, temps, build, plans, remover, cleaner, copy, spent>>

\* Who holds the lease of an Item: nobody, a live process, or one that died.
Holders == {"none", "build", "removal", "cleanup", "dead"}

NoBuild == [stage |-> "none", receipt |-> 0, file |-> 0]
Idle == [at |-> "idle", plan |-> [names |-> {}], todo |-> {}]
EmptyMeta ==
    [defs |-> {}, commits |-> {}, receipts |-> {}, journal |-> {}, issued |-> 0,
     lease |-> [n \in Names |-> "none"]]
NoCopy == [at |-> "none", meta |-> EmptyMeta, files |-> {}]

-----------------------------------------------------------------------------
(* What the metadata says.                                                 *)

Published(m, S) == {c \in m.commits : c.name \in S}

\* An empty build is completed without rows: it has no file.
Files(C) == {[name |-> c.name, id |-> c.file] : c \in {x \in C : x.file # 0}}
Registered(m) == Files(m.commits)

\* The creators of the commits that a receipt's evidence lists.
Parents(m, r) == {c.receipt : c \in {x \in m.commits : x.seq \in r.commits}}

Free(m, S) == \A n \in S : m.lease[n] = "none"
Leased(m, S, who) == [m EXCEPT !.lease = [n \in Names |-> IF n \in S THEN who ELSE @[n]]]

-----------------------------------------------------------------------------
(* Declarations, frozen receipts and publications by others.               *)

\* A declaration is fenced by its Item's lease; what it reads must be active.
Register(n) ==
    /\ n \notin meta.defs /\ Free(meta, {n}) /\ Reads[n] \subseteq meta.defs
    /\ meta' = [meta EXCEPT !.defs = @ \cup {n}]
    /\ UNCHANGED <<disk, temps, build, plans, remover, cleaner, copy, spent>>

\* Capture and registration of a receipt are one transaction.
Captured(S) ==
    [id |-> meta.issued + 1, of |-> S, commits |-> {c.seq : c \in Published(meta, S)}]

Freeze(S) == meta' = [meta EXCEPT !.receipts = @ \cup {Captured(S)}, !.issued = @ + 1]

ConsumerFreezes(n) ==
    /\ spent.freezes < MaxFreezes /\ n \in meta.defs
    /\ Freeze({n}) /\ spent' = [spent EXCEPT !.freezes = @ + 1]
    /\ UNCHANGED <<disk, temps, build, plans, remover, cleaner, copy>>

BeginBuild(n) ==
    /\ n \in meta.defs /\ build[n].stage = "none" /\ Free(meta, {n})
    /\ spent.builds < MaxBuilds /\ spent' = [spent EXCEPT !.builds = @ + 1]
    /\ meta' = Leased(meta, {n}, "build")
    /\ build' = [build EXCEPT ![n].stage = "begun"]
    /\ UNCHANGED <<disk, temps, plans, remover, cleaner, copy>>

BuildFreezes(n) ==
    /\ build[n].stage = "begun"
    /\ Freeze(Reads[n])
    /\ build' = [build EXCEPT ![n] = [@ EXCEPT !.stage = "frozen", !.receipt = meta.issued + 1]]
    /\ UNCHANGED <<disk, temps, plans, remover, cleaner, copy, spent>>

\* Every file has a name of its own; here the number of the build.
WriteTemporary(n) ==
    /\ build[n].stage = "frozen"
    /\ build' = [build EXCEPT ![n] = [@ EXCEPT !.stage = "written", !.file = build[n].receipt]]
    /\ temps' = temps \cup {[name |-> n, id |-> build[n].receipt]}
    /\ UNCHANGED <<meta, disk, plans, remover, cleaner, copy, spent>>

Rename(n) ==
    LET f == [name |-> n, id |-> build[n].file]
    IN /\ build[n].stage = "written" /\ f \in temps
       /\ build' = [build EXCEPT ![n].stage = "renamed"]
       /\ temps' = temps \ {f} /\ disk' = disk \cup {f}
       /\ UNCHANGED <<meta, plans, remover, cleaner, copy, spent>>

\* The commit, the build row and, in the end, the lease.
CommitBuild(n) ==
    /\ build[n].stage \in {"frozen", "renamed"}
    /\ meta' = [Leased(meta, {n}, "none") EXCEPT
                  !.commits = @ \cup {[seq |-> meta.issued + 1, name |-> n,
                                       receipt |-> build[n].receipt, file |-> build[n].file]},
                  !.issued = @ + 1]
    /\ build' = [build EXCEPT ![n] = NoBuild]
    /\ UNCHANGED <<disk, temps, plans, remover, cleaner, copy, spent>>

\* A failure removes what it wrote before its lease is released.
BuildFails(n) ==
    LET f == [name |-> n, id |-> build[n].file]
    IN /\ build[n].stage \in {"frozen", "written", "renamed"}
       /\ temps' = temps \ {f} /\ disk' = disk \ {f}
       /\ meta' = Leased(meta, {n}, "none")
       /\ build' = [build EXCEPT ![n] = NoBuild]
       /\ UNCHANGED <<plans, remover, cleaner, copy, spent>>

Dies == spent.crashes < MaxCrashes /\ spent' = [spent EXCEPT !.crashes = @ + 1]

BuilderDies(n) ==
    /\ build[n].stage # "none" /\ Dies
    /\ meta' = Leased(meta, {n}, "dead")
    /\ build' = [build EXCEPT ![n] = NoBuild]
    /\ UNCHANGED <<disk, temps, plans, remover, cleaner, copy>>

\* The owner of a dead process's leases is abandoned explicitly.
Abandon(n) ==
    /\ meta.lease[n] = "dead"
    /\ meta' = Leased(meta, {n}, "none")
    /\ UNCHANGED <<disk, temps, build, plans, remover, cleaner, copy, spent>>

-----------------------------------------------------------------------------
(* Removal.                                                                *)

\* Receipts over the Items, and the receipts that rest on those, older first.
Direct(m, S, r) ==
    r.of \cap S # {} \/ r.commits \cap {c.seq : c \in Published(m, S)} # {}

Required(m, S) ==
    LET needed[k \in 0 .. m.issued] ==
            \E r \in m.receipts :
                /\ r.id = k
                /\ Direct(m, S, r) \/ \E j \in Parents(m, r) : j < k /\ needed[j]
    IN {r.id : r \in {x \in m.receipts : needed[x.id]}}

\* Retained authority that rests on what would go.
RetainedDeclaration(m, S) == \E n \in m.defs \ S : Reads[n] \cap S # {}
RetainedCreator(m, S, D) == \E c \in m.commits : c.name \notin S /\ c.receipt \in D

Unregistered(S) ==
    \E f \in disk \cup temps : f.name \in S /\ f \notin Registered(meta)

Active(m) == \E n \in Names : m.lease[n] # "none"

\* Fault: builds of other Items are not asked what they rest on.
BlockedByReceiptsOnly(S, D) ==
    Required(meta, S) # D \/ Unregistered(S) \/ Active(meta)

Blocked(S, D) ==
    \/ Required(meta, S) # D
    \/ RetainedDeclaration(meta, S) \/ RetainedCreator(meta, S, D)
    \/ Unregistered(S) \/ Active(meta)

\* A plan is the exact inventory of what goes.
PlanOf(S, D) ==
    [names |-> S, receipts |-> {r \in meta.receipts : r.id \in D},
     commits |-> Published(meta, S), files |-> Files(Published(meta, S))]

\* A plan with blockers is never applied.
MakePlan(S) ==
    /\ Cardinality(plans) < MaxRemovals /\ S # {} /\ S \subseteq meta.defs
    /\ LET D == Required(meta, S) IN
         /\ ~Blocked(S, D) /\ plans' = plans \cup {PlanOf(S, D)}
    /\ UNCHANGED <<meta, disk, temps, build, remover, cleaner, copy, spent>>

Ids(R) == {r.id : r \in R}

\* A plan is applied only while the inventory is still exactly the same.
Unchanged(p) ==
    /\ p.names \subseteq meta.defs
    /\ PlanOf(p.names, Ids(p.receipts)) = p /\ ~Blocked(p.names, Ids(p.receipts))

Journal(m, p) == {j \in m.journal : j.plan = p}
Saved(m, p, status) == (m.journal \ Journal(m, p)) \cup {[plan |-> p, status |-> status]}

\* Fault: whatever lies under the names goes.
FilesUnder(p) == {f \in disk : f.name \in p.names}

OldFiles(p) == p.files

StartRemoval(p, m) ==
    /\ meta' = Leased(m, p.names, "removal")
    /\ remover' = [at |-> "unlink", plan |-> p, todo |-> OldFiles(p)]
    /\ UNCHANGED <<disk, temps, build, plans, cleaner, copy, spent>>

\* The originals are verified, then the metadata goes in one transaction.
Detach(p) ==
    /\ remover.at = "idle" /\ p \in plans
    /\ Journal(meta, p) = {} /\ ~Active(meta) /\ Unchanged(p) /\ p.files \subseteq disk
    /\ StartRemoval(p, [meta EXCEPT !.defs = @ \ p.names, !.commits = @ \ p.commits,
                                    !.receipts = @ \ p.receipts,
                                    !.journal = Saved(meta, p, "detached")])

\* Fault: a repeated plan must still describe the current inventory.
ResumableIfUnchanged(p) == Unchanged(p)

Resumable(p) ==
    /\ p.files \cap Registered(meta) = {}
    /\ \A j \in Journal(meta, p) : j.status = "complete" => p.files \cap disk = {}

\* The same plan again: only its own old files, never registered ones.
Resume(p) ==
    /\ remover.at = "idle" /\ p \in plans
    /\ Journal(meta, p) # {} /\ ~Active(meta) /\ Resumable(p)
    /\ StartRemoval(p, meta)

Unlink(f) ==
    /\ remover.at = "unlink" /\ f \in remover.todo
    /\ disk' = disk \ {f} /\ remover' = [remover EXCEPT !.todo = @ \ {f}]
    /\ UNCHANGED <<meta, temps, build, plans, cleaner, copy, spent>>

CompleteRemoval ==
    /\ remover.at = "unlink" /\ remover.todo = {}
    /\ meta' = [meta EXCEPT !.journal = Saved(meta, remover.plan, "complete")]
    /\ remover' = [remover EXCEPT !.at = "release"]
    /\ UNCHANGED <<disk, temps, build, plans, cleaner, copy, spent>>

ReleaseRemoval ==
    /\ remover.at = "release"
    /\ meta' = Leased(meta, remover.plan.names, "none") /\ remover' = Idle
    /\ UNCHANGED <<disk, temps, build, plans, cleaner, copy, spent>>

RemoverDies ==
    /\ remover.at # "idle" /\ Dies
    /\ meta' = Leased(meta, remover.plan.names, "dead") /\ remover' = Idle
    /\ UNCHANGED <<disk, temps, build, plans, cleaner, copy>>

-----------------------------------------------------------------------------
(* Cleanup of temporaries that no active writer owns.                      *)

Eligible == {f \in temps : meta.lease[f.name] = "none"}
Owners(F) == {f.name : f \in F}

PlanCleanup ==
    /\ cleaner.at = "idle" /\ Eligible # {}
    /\ cleaner' = [at |-> "planned", todo |-> Eligible]
    /\ UNCHANGED <<meta, disk, temps, build, plans, remover, copy, spent>>

\* The frozen candidates are looked at again under their owners' leases.
StartCleanup ==
    /\ cleaner.at = "planned"
    /\ IF Free(meta, Owners(cleaner.todo))
         THEN /\ meta' = Leased(meta, Owners(cleaner.todo), "cleanup")
              /\ cleaner' = [cleaner EXCEPT !.at = "unlink"]
         ELSE cleaner' = [at |-> "idle", todo |-> {}] /\ UNCHANGED meta
    /\ UNCHANGED <<disk, temps, build, plans, remover, copy, spent>>

UnlinkTemporaries ==
    /\ cleaner.at = "unlink"
    /\ temps' = temps \ cleaner.todo
    /\ meta' = Leased(meta, Owners(cleaner.todo), "none")
    /\ cleaner' = [at |-> "idle", todo |-> {}]
    /\ UNCHANGED <<disk, build, plans, remover, copy, spent>>

-----------------------------------------------------------------------------
(* An independent copy.                                                    *)

\* One committed state of the metadata; its own inventory is copied then.
CopyDatabase ==
    /\ copy.at = "none" /\ Registered(meta) # {}
    /\ copy' = [at |-> "files", meta |-> meta, files |-> {}]
    /\ UNCHANGED <<meta, disk, temps, build, plans, remover, cleaner, spent>>

\* Fault: the inventory is what the original registers by now.
ToCopyOfOriginal == Registered(meta) \ copy.files

ToCopy == Registered(copy.meta) \ copy.files

CopyFile(f) ==
    /\ copy.at = "files" /\ f \in ToCopy /\ f \in disk
    /\ copy' = [copy EXCEPT !.files = @ \cup {f}]
    /\ UNCHANGED <<meta, disk, temps, build, plans, remover, cleaner, spent>>

\* A file that is gone fails the copy, which removes its new destination.
CopyFails ==
    /\ copy.at = "files" /\ ToCopy \ disk # {}
    /\ copy' = [NoCopy EXCEPT !.at = "failed"]
    /\ UNCHANGED <<meta, disk, temps, build, plans, remover, cleaner, spent>>

CopyDone ==
    /\ copy.at = "files" /\ ToCopy = {}
    /\ copy' = [NoCopy EXCEPT !.at = "done"]
    /\ UNCHANGED <<meta, disk, temps, build, plans, remover, cleaner, spent>>

-----------------------------------------------------------------------------
Init ==
    /\ meta = EmptyMeta
    /\ disk = {} /\ temps = {} /\ build = [n \in Names |-> NoBuild]
    /\ plans = {} /\ remover = Idle
    /\ cleaner = [at |-> "idle", todo |-> {}] /\ copy = NoCopy
    /\ spent = [builds |-> 0, freezes |-> 0, crashes |-> 0]

EndBuild(n) == CommitBuild(n) \/ BuildFails(n)
Publishing(n) == BuildFreezes(n) \/ WriteTemporary(n) \/ Rename(n) \/ EndBuild(n)
Removing == (\E f \in remover.todo : Unlink(f)) \/ CompleteRemoval \/ ReleaseRemoval
Cleaning == StartCleanup \/ UnlinkTemporaries

Next ==
    \/ \E n \in Names : Register(n) \/ ConsumerFreezes(n) \/ BeginBuild(n) \/ Publishing(n)
    \/ \E n \in Names : BuilderDies(n) \/ Abandon(n)
    \/ \E S \in SUBSET Names : MakePlan(S)
    \/ \E p \in plans : Detach(p) \/ Resume(p)
    \/ Removing \/ RemoverDies
    \/ PlanCleanup \/ Cleaning
    \/ CopyDatabase \/ (\E f \in disk : CopyFile(f)) \/ CopyFails \/ CopyDone

Spec == Init /\ [][Next]_vars

\* Processes end, the dead are abandoned, and an interrupted removal is repeated.
Fairness ==
    /\ \A n \in Names : WF_vars(Publishing(n)) /\ WF_vars(Abandon(n))
    /\ WF_vars(Removing) /\ WF_vars(Cleaning)
    /\ SF_vars(\E p \in plans : Resume(p))

FairSpec == Spec /\ Fairness

-----------------------------------------------------------------------------
(* What must hold.                                                         *)

TypeOK ==
    /\ meta.defs \subseteq Names /\ meta.lease \in [Names -> Holders]
    /\ \A c \in meta.commits : c.name \in Names /\ c.seq \in 1 .. meta.issued
    /\ \A r \in meta.receipts : r.of \subseteq Names /\ r.id \in 1 .. meta.issued
    /\ \A j \in meta.journal : j.status \in {"detached", "complete"} /\ j.plan \in plans
    /\ \A n \in Names : build[n].stage \in {"none", "begun", "frozen", "written", "renamed"}
    /\ \A f \in disk \cup temps : f.name \in Names
    /\ remover.at \in {"idle", "unlink", "release"}
    /\ cleaner.at \in {"idle", "planned", "unlink"}
    /\ copy.at \in {"none", "files", "done", "failed"}

(* Retained authority never loses what it rests on: the inputs an Item       *)
(* declares, the receipt of a publication and the commits and Items of a     *)
(* receipt, whatever was removed beside them.                               *)
Rests(m) ==
    /\ \A n \in m.defs : Reads[n] \subseteq m.defs
    /\ \A c \in m.commits : c.name \in m.defs /\ \E r \in m.receipts : r.id = c.receipt
    /\ \A r \in m.receipts : r.of \subseteq m.defs /\ r.commits \subseteq {c.seq : c \in m.commits}

NothingDangles == Rests(meta)

(* Neither a removal, repeated over a recreated Item, nor a cleanup ever      *)
(* takes a registered original, or a file a live publisher is about to       *)
(* publish.                                                                *)
OriginalsKept ==
    /\ Registered(meta) \subseteq disk
    /\ \A n \in Names :
         LET f == [name |-> n, id |-> build[n].file]
         IN /\ build[n].stage = "written" => f \in temps
            /\ build[n].stage = "renamed" => f \in disk

(* A copy that is handed out is whole by itself: it holds every original     *)
(* its metadata registers, and that metadata rests on nothing it lacks.      *)
CopyIsWhole ==
    [][copy.at = "files" /\ copy'.at = "done" =>
         Registered(copy.meta) \subseteq copy.files /\ Rests(copy.meta)]_vars

(* A removal that died after its detachment, repeated, comes to its end: its *)
(* old files are gone, whatever was recreated under the names meanwhile.     *)
RemovalEnds ==
    meta.journal # {}
        ~> \A j \in meta.journal : j.status = "complete" /\ j.plan.files \cap disk = {}
=============================================================================
