----------------------------- MODULE Publication -----------------------------
(* Version publication of one by_date dataset: commit_versions               *)
(* (pipeline/versions.py) with the writer lease around it, the immutable     *)
(* files it prepares (storage/parquet.py, storage/atomic.py), the segments   *)
(* it registers (storage/recovery.py), the transaction that makes a version  *)
(* visible (storage/data_meta.py), and what other callers do meanwhile.      *)
(*                                                                           *)
(* An action is one metadata transaction, one read or one step on one file.  *)
(* A writer is one call, or one update that makes one call; its name is its  *)
(* run identifier and its process.                                           *)
EXTENDS VersionContent

CONSTANTS Writers,
          Enclosed,          \* writers that hold the lease around the call (updates)
          NoWriter,
          Partitions,        \* year/month directories
          Month,             \* the partition a row goes to
          Definitions,       \* spec_hash values
          FirstDefinition,
          Earlier,           \* contents a dataset may have at the start
          PartitionWorkers,  \* partition_workers
          MaxDeclarations,   \* bound: registrations and removals
          MaxAccidents       \* bound: deaths, and live owners abandoned

ASSUME PublicationAssumption ==
    /\ NoWriter \notin Writers
    /\ Enclosed \subseteq Writers
    /\ Month \in [Keys -> Partitions]
    /\ IsFiniteSet(Partitions)
    /\ FirstDefinition \in Definitions
    /\ PartitionWorkers \in Nat \ {0}
    /\ Frames \subseteq Contents
    /\ Earlier \subseteq Frames \cup {[k \in {} |-> 0]}
    /\ MaxDeclarations \in Nat
    /\ MaxAccidents \in Nat

VARIABLES lease,        \* update_leases.run_id of the dataset
          definition,   \* datasets.spec_hash
          active,       \* datasets.active
          commits,      \* version_commits; the index is seq
          segments,     \* version_segments, as files
          manifest,     \* partition_manifest, as files
          checks,       \* version_checks
          temps,        \* .data-*.tmp files
          files,        \* complete data-*.parquet files
          call,         \* the frame of commit_versions, for each writer
          stray,        \* history: files whose registration or removal failed
          declarations, \* counter: registrations and removals
          accidents     \* counter: deaths, and live owners abandoned

storage  == <<segments, manifest, temps, files>>
others   == <<lease, definition, active, declarations, accidents>>
exceptLease == <<definition, active, declarations, accidents>>
vars == <<lease, definition, active, commits, segments, manifest, checks,
          temps, files, call, stray, declarations, accidents>>

\* A generation path: uuid4 makes it unique, a commit writes one per partition.
File(seq, p) == <<seq, p>>

EmptyRows == [k \in {} |-> 0]
NoFlight  == [p \in Partitions |-> "none"]

NewCall == [pc |-> "idle", frame |-> EmptyRows, spec |-> FirstDefinition,
            owns |-> FALSE, parent |-> {}, hash |-> FirstDefinition,
            delta |-> EmptyRows, seq |-> 0, todo |-> {}, flight |-> NoFlight,
            writes |-> {}, failed |-> FALSE, outcome |-> "none"]

Phases   == {"none", "submitted", "temporary", "whole", "done", "lost"}
Points   == {"idle", "declared", "entered", "assert", "parent", "hash", "compare",
             "check", "prepare", "write", "publish", "rollback", "leave",
             "close", "ended", "dead"}
Outcomes == {"none", "committed", "checked", "raised"}

Committed == {s \in DOMAIN commits : commits[s].status = "committed"}

\* The seq of the i-th visible version.
Nth(i) == CHOOSE s \in Committed : Cardinality({t \in Committed : t <= s}) = i

\* What a reader finds of a version: the rows whose file is listed and there.
\* A file of a version holds its rows of that month.
Readable(s) == [k \in {x \in DOMAIN commits[s].delta :
                           File(s, Month[x]) \in manifest \cap files}
                  |-> commits[s].delta[k]]

\* The versions a reader sees (dataset_snapshot): whatever the boundary, they
\* are ordered by seq.
VisibleHistory == [i \in 1..Cardinality(Committed) |-> Readable(Nth(i))]

RecordedChecks ==
    [i \in DOMAIN checks |->
        [upto  |-> Cardinality({s \in Committed : s <= checks[i].upto}),
         frame |-> checks[i].frame]]

Greatest(S) == IF S = {} THEN 0 ELSE CHOOSE s \in S : \A t \in S : t <= s

\* A witness names the last commit that is visible when it is written.
CheckOf(frame) == [upto |-> Greatest(Committed), frame |-> frame]

\* The tables of a new dataset, or of one that has a first version.
FirstVersion(frame) ==
    /\ commits = IF frame = EmptyRows THEN << >>
                 ELSE <<[status |-> "committed", spec |-> FirstDefinition,
                         delta |-> frame]>>
    /\ manifest = {File(1, Month[k]) : k \in DOMAIN frame}

Init == /\ \E frame \in Earlier : FirstVersion(frame)
        /\ segments = manifest
        /\ files = manifest
        /\ lease = NoWriter
        /\ definition = FirstDefinition
        /\ active = TRUE
        /\ checks = << >>
        /\ temps = {}
        /\ call = [w \in Writers |-> NewCall]
        /\ stray = {}
        /\ declarations = 0
        /\ accidents = 0

-----------------------------------------------------------------------------
\* The call, outside the lease

At(w, pc)   == call[w].pc = pc
Goto(w, pc) == call' = [call EXCEPT ![w].pc = pc]
\* raise: the call goes on in the finally clause of dataset_writer.
Raise(w) == call' = [call EXCEPT ![w].pc = "leave", ![w].outcome = "raised"]

\* The caller reads the declaration and gets a response under it.
Declare(w, frame) ==
    /\ At(w, "idle")
    /\ active
    /\ call' = [call EXCEPT ![w].pc = "declared", ![w].spec = definition,
                            ![w].frame = frame]
    /\ UNCHANGED <<others, storage, commits, checks, stray>>

\* acquire_update_leases of an update.
EnterUpdate(w) ==
    /\ At(w, "declared")
    /\ w \in Enclosed
    /\ lease = NoWriter
    /\ lease' = w
    /\ Goto(w, "entered")
    /\ UNCHANGED <<exceptLease, storage, commits, checks, stray>>

\* dataset_writer: a lease of the same run is kept, one of another refuses.
DatasetWriter(w) ==
    /\ IF w \in Enclosed THEN At(w, "entered") ELSE At(w, "declared")
    /\ lease \in {NoWriter, w}
    /\ lease' = w
    /\ call' = [call EXCEPT ![w].pc = "assert", ![w].owns = (lease = NoWriter)]
    /\ UNCHANGED <<exceptLease, storage, commits, checks, stray>>

Refused(w) ==
    /\ lease \notin {NoWriter, w}
    /\ \/ At(w, "declared") /\ call' = [call EXCEPT ![w].pc = "ended",
                                                    ![w].outcome = "raised"]
       \/ At(w, "entered")  /\ call' = [call EXCEPT ![w].pc = "close",
                                                    ![w].outcome = "raised"]
    /\ UNCHANGED <<others, storage, commits, checks, stray>>

-----------------------------------------------------------------------------
\* Reads before anything is written

\* Fault: the declaration is not compared again.
DefinitionNotAsserted(w) ==
    /\ At(w, "assert")
    /\ Goto(w, "parent")
    /\ UNCHANGED <<others, storage, commits, checks, stray>>

AssertDefinition(w) ==
    /\ At(w, "assert")
    /\ IF active /\ definition = call[w].spec THEN Goto(w, "parent") ELSE Raise(w)
    /\ UNCHANGED <<others, storage, commits, checks, stray>>

ReadParent(w) ==
    /\ At(w, "parent")
    /\ call' = [call EXCEPT ![w].pc = "hash", ![w].parent = manifest]
    /\ UNCHANGED <<others, storage, commits, checks, stray>>

ReadHash(w) ==
    /\ At(w, "hash")
    /\ call' = [call EXCEPT ![w].pc = "compare", ![w].hash = definition]
    /\ UNCHANGED <<others, storage, commits, checks, stray>>

\* The content is queried only when the parent has files.
Compare(w) ==
    /\ At(w, "compare")
    /\ LET old   == IF call[w].parent = {} THEN EmptyRows ELSE Latest(VisibleHistory)
           delta == Changes(old, call[w].frame)
       IN  call' = [call EXCEPT ![w].delta = delta,
                      ![w].pc = IF DOMAIN delta = {} THEN "check" ELSE "prepare"]
    /\ UNCHANGED <<others, storage, commits, checks, stray>>

-----------------------------------------------------------------------------
\* Nothing changed: one transaction

\* Fault: nothing is compared in the publishing transaction.
NoFence(w) == TRUE

\* assert_dataset_parent
Fence(w) == /\ manifest = call[w].parent
            /\ active /\ definition = call[w].hash
            /\ lease = w

\* Fault: an unchanged response is recorded without the fence.
CheckWithoutFence(w) ==
    /\ At(w, "check")
    /\ checks' = Append(checks, CheckOf(call[w].frame))
    /\ call' = [call EXCEPT ![w].pc = "leave", ![w].outcome = "checked"]
    /\ UNCHANGED <<others, storage, commits, stray>>

RecordCheck(w) ==
    /\ At(w, "check")
    /\ Fence(w)
    /\ checks' = Append(checks, CheckOf(call[w].frame))
    /\ call' = [call EXCEPT ![w].pc = "leave", ![w].outcome = "checked"]
    /\ UNCHANGED <<others, storage, commits, stray>>

\* The transaction is refused by the fence or by the database.
CheckFails(w) ==
    /\ At(w, "check")
    /\ Raise(w)
    /\ UNCHANGED <<others, storage, commits, checks, stray>>

-----------------------------------------------------------------------------
\* Something changed: a prepared commit, files, one transaction

PrepareCommit(w) ==
    /\ At(w, "prepare")
    /\ commits' = Append(commits, [status |-> "prepared", spec |-> definition,
                                   delta |-> call[w].delta])
    /\ call' = [call EXCEPT ![w].pc = "write", ![w].seq = Len(commits) + 1,
                  ![w].todo = {Month[k] : k \in DOMAIN call[w].delta}]
    /\ UNCHANGED <<others, storage, checks, stray>>

\* One batch of at most PartitionWorkers tasks; a smaller one when submitting
\* is interrupted.
SubmitBatch(w) ==
    /\ At(w, "write")
    /\ call[w].flight = NoFlight
    /\ call[w].todo # {}
    /\ \E batch \in SUBSET call[w].todo :
          LET full == \/ batch = call[w].todo
                      \/ Cardinality(batch) = PartitionWorkers
          IN  /\ Cardinality(batch) <= PartitionWorkers
              /\ call' = [call EXCEPT ![w].todo = @ \ batch,
                   ![w].failed = ~full,
                   ![w].pc = IF batch = {} THEN "rollback" ELSE @,
                   ![w].flight = [p \in Partitions |->
                                    IF p \in batch THEN "submitted" ELSE "none"]]
    /\ UNCHANGED <<others, storage, commits, checks, stray>>

\* A task of _write_version_partition moves from one phase to the next.
TaskMoves(w, p, from, to) ==
    /\ At(w, "write")
    /\ call[w].flight[p] = from
    /\ call' = [call EXCEPT ![w].flight[p] = to]

WriteTemporary(w, p) ==
    /\ TaskMoves(w, p, "submitted", "temporary")
    /\ temps' = temps \cup {File(call[w].seq, p)}
    /\ UNCHANGED <<others, segments, manifest, files, commits, checks, stray>>

\* os.replace; the temporary file may have been cleaned up under the writer.
ReplaceFile(w, p) ==
    /\ TaskMoves(w, p, "temporary", "whole")
    /\ File(call[w].seq, p) \in temps
    /\ temps' = temps \ {File(call[w].seq, p)}
    /\ files' = files \cup {File(call[w].seq, p)}
    /\ UNCHANGED <<others, segments, manifest, commits, checks, stray>>

\* atomic_write_parquet removes its temporary file before it raises.
WriteFails(w, p) ==
    /\ TaskMoves(w, p, "submitted", "lost") \/ TaskMoves(w, p, "temporary", "lost")
    /\ temps' = temps \ {File(call[w].seq, p)}
    /\ UNCHANGED <<others, segments, manifest, files, commits, checks, stray>>

RegisterSegment(w, p) ==
    /\ TaskMoves(w, p, "whole", "done")
    /\ commits[call[w].seq].status = "prepared"
    /\ segments' = segments \cup {File(call[w].seq, p)}
    /\ UNCHANGED <<others, manifest, temps, files, commits, checks, stray>>

\* The file is there, but the writer of it never returns it.
RegisterFails(w, p) ==
    /\ TaskMoves(w, p, "whole", "lost")
    /\ stray' = stray \cup {File(call[w].seq, p)}
    /\ UNCHANGED <<others, storage, commits, checks>>

\* Fault: the first failed task ends the wait.
SettledByFirstLoss(w) ==
    \/ \E p \in Partitions : call[w].flight[p] = "lost"
    \/ \A p \in Partitions : call[w].flight[p] \in {"none", "done"}

\* Fault: a failed task is waited for like a running one.
SettledBySuccess(w) == \A p \in Partitions : call[w].flight[p] \in {"none", "done"}

\* Every submitted task has ended; on_wait (the heartbeat) may have raised.
Settled(w) == \A p \in Partitions : call[w].flight[p] \in {"none", "done", "lost"}

\* Fault: the results are collected and the failures are not.
SettleWithoutFailures(w) ==
    /\ At(w, "write")
    /\ call[w].flight # NoFlight
    /\ Settled(w)
    /\ LET done == {p \in Partitions : call[w].flight[p] = "done"}
       IN  call' = [call EXCEPT ![w].flight = NoFlight,
              ![w].writes = @ \cup {File(call[w].seq, p) : p \in done},
              ![w].pc = IF call[w].todo = {} THEN "publish" ELSE "write"]
    /\ UNCHANGED <<others, storage, commits, checks, stray>>

SettleBatch(w) ==
    /\ At(w, "write")
    /\ call[w].flight # NoFlight
    /\ Settled(w)
    /\ \E interrupted \in BOOLEAN :
          LET done   == {p \in Partitions : call[w].flight[p] = "done"}
              failed == \/ call[w].failed \/ interrupted
                        \/ \E p \in Partitions : call[w].flight[p] = "lost"
          IN  call' = [call EXCEPT ![w].failed = failed, ![w].flight = NoFlight,
                 ![w].writes = @ \cup {File(call[w].seq, p) : p \in done},
                 ![w].pc = CASE failed -> "rollback"
                             [] ~failed /\ call[w].todo = {} -> "publish"
                             [] OTHER -> "write"]
    /\ UNCHANGED <<others, storage, commits, checks, stray>>

\* commit_dataset_metadata
Publish(w) ==
    /\ At(w, "publish")
    /\ Fence(w)
    /\ call[w].writes \subseteq segments
    /\ commits[call[w].seq].status = "prepared"
    /\ commits' = [commits EXCEPT ![call[w].seq].status = "committed"]
    /\ manifest' = manifest \cup call[w].writes
    /\ call' = [call EXCEPT ![w].pc = "leave", ![w].outcome = "committed"]
    /\ UNCHANGED <<others, segments, temps, files, checks, stray>>

PublishFails(w) ==
    /\ At(w, "publish")
    /\ call' = [call EXCEPT ![w].pc = "rollback", ![w].failed = TRUE]
    /\ UNCHANGED <<others, storage, commits, checks, stray>>

\* rollback_partition_writes: file by file, going on after an error.
UnlinkWrite(w, f) ==
    /\ At(w, "rollback")
    /\ f \in call[w].writes
    /\ call' = [call EXCEPT ![w].writes = @ \ {f}]
    /\ \/ files' = files \ {f} /\ UNCHANGED stray
       \/ stray' = stray \cup {f} /\ UNCHANGED files
    /\ UNCHANGED <<others, segments, manifest, temps, commits, checks>>

RolledBack(w) ==
    /\ At(w, "rollback")
    /\ call[w].writes = {}
    /\ Raise(w)
    /\ UNCHANGED <<others, storage, commits, checks, stray>>

-----------------------------------------------------------------------------
\* The end of the call, and the end of the update around it

\* The frame of the call is gone; its outcome and its seq are remembered.
Forget(w, pc) ==
    call' = [call EXCEPT ![w] =
        [NewCall EXCEPT !.pc = pc, !.spec = call[w].spec, !.seq = call[w].seq,
                        !.outcome = call[w].outcome]]

Released(w) == IF lease = w THEN NoWriter ELSE lease

\* Fault: the lease is given back by the last statement, not by finally.
LeaveOnSuccess(w) ==
    /\ At(w, "leave")
    /\ lease' = IF call[w].owns /\ call[w].outcome # "raised" THEN Released(w) ELSE lease
    /\ Forget(w, IF w \in Enclosed THEN "close" ELSE "ended")
    /\ UNCHANGED <<exceptLease, storage, commits, checks, stray>>

LeaveWriter(w) ==
    /\ At(w, "leave")
    /\ lease' = IF call[w].owns THEN Released(w) ELSE lease
    /\ Forget(w, IF w \in Enclosed THEN "close" ELSE "ended")
    /\ UNCHANGED <<exceptLease, storage, commits, checks, stray>>

CloseUpdate(w) ==
    /\ At(w, "close")
    /\ lease' = Released(w)
    /\ Goto(w, "ended")
    /\ UNCHANGED <<exceptLease, storage, commits, checks, stray>>

\* The process dies with its threads; only the lake stays.
Die(w) ==
    /\ call[w].pc \notin {"idle", "ended", "dead"}
    /\ accidents < MaxAccidents
    /\ accidents' = accidents + 1
    /\ Forget(w, "dead")
    /\ UNCHANGED <<lease, definition, active, declarations, storage, commits,
                   checks, stray>>

-----------------------------------------------------------------------------
\* Other callers

\* abandon_update_owner: the code cannot know whether the owner is alive.
AbandonOwner(w) ==
    /\ lease = w
    /\ At(w, "dead") \/ accidents < MaxAccidents
    /\ lease' = NoWriter
    /\ accidents' = IF At(w, "dead") THEN accidents ELSE accidents + 1
    /\ UNCHANGED <<definition, active, declarations, storage, commits, checks,
                   call, stray>>

\* raw.register and raw.remove hold a lease of their own.
Declaration ==
    /\ lease = NoWriter
    /\ declarations < MaxDeclarations
    /\ declarations' = declarations + 1
    /\ UNCHANGED <<lease, accidents, storage, commits, checks, call, stray>>

Register(d) == Declaration /\ definition' = d /\ active' = TRUE
Remove      == Declaration /\ active' = FALSE /\ UNCHANGED definition

\* cleanup_temporary: under a lease of its own, temporaries only.
CleanupTemporary ==
    /\ lease = NoWriter
    /\ temps # {}
    /\ \E gone \in SUBSET temps : temps' = temps \ gone
    /\ UNCHANGED <<others, segments, manifest, files, commits, checks, call, stray>>

Task(w, p) == \/ WriteTemporary(w, p) \/ ReplaceFile(w, p) \/ WriteFails(w, p)
              \/ RegisterSegment(w, p) \/ RegisterFails(w, p)

\* What a writer does by itself once it has a response.
Step(w) ==
    \/ EnterUpdate(w) \/ DatasetWriter(w) \/ Refused(w)
    \/ AssertDefinition(w) \/ ReadParent(w) \/ ReadHash(w) \/ Compare(w)
    \/ RecordCheck(w) \/ CheckFails(w)
    \/ PrepareCommit(w) \/ SubmitBatch(w) \/ SettleBatch(w)
    \/ \E p \in Partitions : Task(w, p)
    \/ Publish(w) \/ PublishFails(w)
    \/ \E f \in call[w].writes : UnlinkWrite(w, f)
    \/ RolledBack(w) \/ LeaveWriter(w) \/ CloseUpdate(w)

Next == \/ \E w \in Writers :
              \/ \E frame \in Frames : Declare(w, frame)
              \/ Step(w) \/ Die(w) \/ AbandonOwner(w)
        \/ \E d \in Definitions : Register(d)
        \/ Remove \/ CleanupTemporary

Spec == Init /\ [][Next]_vars

\* Coordinator and writer threads run; recovery after a death is documented.
Fairness == \A w \in Writers : /\ WF_vars(Step(w))
                               /\ WF_vars(At(w, "dead") /\ AbandonOwner(w))
FairSpec == Spec /\ Fairness

-----------------------------------------------------------------------------
\* Properties

Seqs     == DOMAIN commits
AllFiles == {File(s, p) : s \in Seqs, p \in Partitions}

Calls == [pc : Points, frame : Contents, spec : Definitions, owns : BOOLEAN,
          parent : SUBSET manifest, hash : Definitions, delta : Contents,
          seq : {0} \cup Seqs, todo : SUBSET Partitions,
          flight : [Partitions -> Phases], writes : SUBSET AllFiles,
          failed : BOOLEAN, outcome : Outcomes]

\* Shape of the tables, of the disk and of the calls.
TypeOK ==
    /\ lease \in Writers \cup {NoWriter}
    /\ definition \in Definitions
    /\ active \in BOOLEAN
    /\ commits \in Seq([status : {"prepared", "committed"},
                        spec : Definitions, delta : Contents])
    /\ segments \subseteq AllFiles
    /\ manifest \subseteq AllFiles
    /\ checks \in Seq([upto : {0} \cup Seqs, frame : Contents])
    /\ temps \subseteq AllFiles
    /\ files \subseteq AllFiles
    /\ call \in [Writers -> Calls]
    /\ stray \subseteq AllFiles
    /\ declarations \in 0..MaxDeclarations
    /\ accidents \in 0..MaxAccidents

\* "Only committed segments are visible", and a version is visible as a whole:
\* the manifest lists exactly the files of the committed versions, every one
\* registered and on disk, whatever died or failed beside it
\* (commit_dataset_metadata after _write_version_partition).
VisibleIsWhole ==
    /\ manifest = UNION {{File(s, Month[k]) : k \in DOMAIN commits[s].delta} :
                            s \in Committed}
    /\ manifest \subseteq files \cap segments

\* A call that is over, and did not die, left no file behind except those of
\* its visible version and those whose registration or removal failed
\* (settling of every submitted writer before rollback_partition_writes).
NothingLeftBehind ==
    \A w \in Writers : At(w, "ended") =>
        \A p \in Partitions :
            LET f == File(call[w].seq, p)
            IN  f \notin temps /\ (f \in files => f \in manifest \cup stray)

\* A visible version carries the definition its response was requested under,
\* whatever was registered in between (assert_definition, assert_dataset_parent).
OwnDefinition ==
    \A w \in Writers : call[w].outcome = "committed" =>
        commits[call[w].seq].spec = call[w].spec

\* What a reader sees below a boundary it has pinned (max_commit) never
\* changes: versions become visible in the order of their seq.
UpTo(b) == Latest([i \in 1..Cardinality({s \in Committed : s <= b}) |->
                      VisibleHistory[i]])
BoundaryIsStable == [][\A b \in 1..Greatest(Committed) : UpTo(b)' = UpTo(b)]_vars

\* The code keeps the promise of AtomicPublication: readers see whole versions
\* appended one by one, each the difference to its predecessor, and a check is
\* recorded only for content that agrees with the response.
Promise  == INSTANCE AtomicPublication WITH history <- VisibleHistory,
                                            checked <- RecordedChecks
Implements == Promise!ASpec

\* Every call that got a response comes to an end.
CallEnds == \A w \in Writers : At(w, "declared") ~> (At(w, "ended") \/ At(w, "dead"))

\* The lease comes back, from a call that raised or after a death.
LeaseComesBack == \A w \in Writers : lease = w ~> lease # w
=============================================================================
