---------------------------- MODULE UpdateLedger ----------------------------
(***************************************************************************)
(* The update ledger of one by_date Raw dataset: what every concurrent     *)
(* caller of raw.initialize / raw.update / raw.refresh does to the         *)
(* metadata database, from planning to the completion flag.                *)
(*                                                                         *)
(* An update (a "run", named by its run_id) plans from the scope rows      *)
(* BEFORE it takes the dataset's lease, then claims scopes, harvests       *)
(* provider responses, commits buffers, settles what is left, counts the   *)
(* remaining scopes, finalizes its run row, writes the completion flag,    *)
(* drops the lease and only then finishes an initialization.  Each action  *)
(* below is one metadata transaction (or one read) of that sequence; other *)
(* runs, registrations, scope resets, reopenings, process deaths and owner *)
(* recovery interleave between them.                                       *)
(*                                                                         *)
(* Durable state (SQLite): spec, row, lease, runs, flag, incomplete, init, *)
(* history.  Volatile state of a run: pc, seen, work, held, buf, report.   *)
(* got is a history variable; used counts the bounded environment events.  *)
(***************************************************************************)
EXTENDS Integers, FiniteSets

CONSTANTS
    Runs,          \* run ids; each is one call of the update API
    NoRun,         \* the null run id
    Owners,        \* workflow owners
    OwnerOf,       \* [Runs -> Owners]
    ModeOf,        \* [Runs -> Modes]
    First, Last,   \* [Runs -> Days]: the requested window of each run
    NumDays,       \* the declared scopes are the days 1 .. NumDays
    Defs,          \* definition hashes
    FirstDef,      \* the definition registered first
    Recent,        \* days inside recent_recheck_days
    Required,      \* days that require_nonempty_scopes makes mandatory
    Backfill,      \* is daily_range_backfill configured
    Reasons,       \* the kinds of invalid response: {"other"} or with "all_null"
    Serial,        \* TRUE: callers make one API call at a time
    SilentInterrupts,  \* TRUE: an exception with an empty text may interrupt
                       \* an update (KeyboardInterrupt is one)
    MaxRegisters, MaxCrashes, MaxResets, MaxReopens  \* environment bounds

Modes  == {"initialize", "incremental", "refresh"}
Days   == 1 .. NumDays

ASSUME LedgerAssumption ==
    /\ NumDays \in Nat \ {0}
    /\ NoRun \notin Runs
    /\ OwnerOf \in [Runs -> Owners]
    /\ ModeOf \in [Runs -> Modes]
    /\ First \in [Runs -> Days] /\ Last \in [Runs -> Days]
    /\ FirstDef \in Defs
    /\ Recent \subseteq Days /\ Required \subseteq Days
    /\ Reasons \subseteq {"all_null", "other"}
    /\ Backfill \in BOOLEAN /\ Serial \in BOOLEAN /\ SilentInterrupts \in BOOLEAN
    /\ MaxRegisters \in Nat /\ MaxCrashes \in Nat
    /\ MaxResets \in Nat /\ MaxReopens \in Nat

VARIABLES
    spec,        \* datasets.spec_hash: the registered definition
    row,         \* update_scopes
    lease,       \* update_leases.run_id
    runs,        \* ingestion_runs.status
    flag,        \* node_completions: a set of at most one completion flag
    incomplete,  \* datasets.update_incomplete
    init,        \* dataset_initializations
    history,     \* modes of committed versions, and "verified" for a check
    pc, seen, work, held, buf, report,   \* one running update
    got,         \* the definition a day's last outcome was obtained under, if any
    used

durable  == <<spec, row, lease, runs, flag, incomplete, init, history, got>>
volatile == <<pc, seen, work, held, buf, report>>
vars     == <<durable, volatile, used>>
-----------------------------------------------------------------------------
ScopeStatus == {"absent", "pending", "running", "success", "empty", "failed",
                "invalid"}
RunStatus   == {"none", "running", "success", "no_data", "partial", "failed",
                "cancelled"}
Leased      == {"leased", "fetching", "failing", "failrunning", "finishing",
                "counted", "finalized", "finished"}
Phases      == Leased \cup {"idle", "discovering", "planned", "released",
                            "done", "dead"}

Row    == [status : ScopeStatus, run : Runs \cup {NoRun}, hash : Defs,
           tried : BOOLEAN, why : {"none", "all_null", "other"}]
Flag   == [hash : Defs, lo : Days, hi : Days, run : Runs]
InitRow == [status : {"none", "running", "complete"}, hash : Defs,
            lo : Days, hi : Days]
Report == [success : BOOLEAN, empty : BOOLEAN, bad : BOOLEAN,
           cancelled : BOOLEAN, raised : BOOLEAN, fatal : BOOLEAN,
           remaining : BOOLEAN]

Absent    == [status |-> "absent", run |-> NoRun, hash |-> FirstDef,
              tried |-> FALSE, why |-> "none"]
NewReport == [success |-> FALSE, empty |-> FALSE, bad |-> FALSE,
              cancelled |-> FALSE, raised |-> FALSE, fatal |-> FALSE,
              remaining |-> FALSE]

Terminal   == {"success", "empty"}
Retryable  == {"pending", "failed", "invalid"}
Claimable  == Retryable \cup Terminal
Window(r)  == First[r] .. Last[r]

\* A run that has started and not yet returned, raised or died.
Live(r) == pc[r] \notin {"idle", "done", "dead"}
Quiet   == \A r \in Runs : ~Live(r)
CallAllowed == Serial => Quiet

Init ==
    /\ spec = FirstDef
    /\ row = [d \in Days |-> Absent]
    /\ lease = NoRun
    /\ runs = [r \in Runs |-> "none"]
    /\ flag = {}
    /\ incomplete = FALSE
    /\ init = [status |-> "none", hash |-> FirstDef, lo |-> 1, hi |-> 1]
    /\ history = {}
    /\ pc = [r \in Runs |-> "idle"]
    /\ seen = [r \in Runs |-> FirstDef]
    /\ work = [r \in Runs |-> {}]
    /\ held = [r \in Runs |-> {}]
    /\ buf = [r \in Runs |-> {}]
    /\ report = [r \in Runs |-> NewReport]
    /\ got = [d \in Days |-> {}]
    /\ used = [register |-> 0, crash |-> 0, reset |-> 0, reopen |-> 0]

-----------------------------------------------------------------------------
(* Scope rows.  A definition whose comment begins with "Fault:" is not part   *)
(* of the model: it is the definition below it with a plausible bug, and a    *)
(* run shows that a property notices it.                                      *)

\* One transition transaction: the days of S leave the hands of their run.
Settle(S, status, why) ==
    [d \in Days |-> IF d \in S
                    THEN [row[d] EXCEPT !.status = status, !.why = why,
                                        !.run = NoRun]
                    ELSE row[d]]

Owned(r, S)  == \A d \in S : row[d].run = r
Mine(r)      == {d \in Days : row[d].status = "running" /\ row[d].run = r}

\* The days a loop of one transition per day may have settled when it ends:
\* all of them, or those before the first day the run no longer owns.
SettledByLoop(r, S) ==
    IF Owned(r, S) THEN {S} ELSE SUBSET {d \in S : row[d].run = r}

\* Fault: a conflicting row is always reset, also under an unchanged hash.
SynchronizedAlways(r, hash) ==
    [d \in Days |-> IF d \in Window(r)
                    THEN [Absent EXCEPT !.status = "pending", !.hash = hash]
                    ELSE row[d]]
\* Fault: a conflicting row takes the new hash but keeps its outcome.
SynchronizedOutcomeKept(r, hash) ==
    [d \in Days |->
        IF d \notin Window(r) THEN row[d]
        ELSE IF row[d].status = "absent"
             THEN [Absent EXCEPT !.status = "pending", !.hash = hash]
             ELSE [row[d] EXCEPT !.hash = hash]]
\* Rows after synchronize_update_scopes and remove_obsolete_update_scopes.
Synchronized(r, hash) ==
    [d \in Days |->
        IF d \in Window(r)
        THEN IF row[d].status = "absent"
             THEN [Absent EXCEPT !.status = "pending", !.hash = hash]
             ELSE IF row[d].hash # hash
             THEN [row[d] EXCEPT !.status = "pending", !.run = NoRun,
                                 !.why = "none", !.hash = hash]
             ELSE row[d]
        ELSE IF row[d].hash # hash /\ row[d].status # "running"
             THEN Absent
             ELSE row[d]]

\* The days of a synchronized ledger that the plan of run r requests.
Eligible(r, rows) ==
    {d \in Window(r) :
        \/ rows[d].status \in Retryable
        \/ ModeOf[r] = "refresh"
        \/ rows[d].status \in Terminal /\ d \in Recent}

\* Physical requests: one day each, or the maximal ranges of untouched days.
Requests(S, rows) ==
    LET untouched == IF Backfill
                     THEN {d \in S : rows[d].status = "pending" /\ ~rows[d].tried}
                     ELSE {}
    IN  {{d} : d \in S \ untouched} \cup
        {q \in {lo .. hi : lo, hi \in Days} :
            /\ q # {} /\ q \subseteq untouched
            /\ \A d \in untouched \ q : d - 1 \notin q /\ d + 1 \notin q}
-----------------------------------------------------------------------------
(* The run's own record *)

\* Every exception of the update body ends here; an exception whose text is
\* empty (a KeyboardInterrupt) leaves fatal_error falsy.
RaiseWith(r, rep, silent) ==
    /\ pc' = [pc EXCEPT ![r] = "failing"]
    /\ report' = [report EXCEPT ![r] =
                    [rep EXCEPT !.raised = TRUE, !.fatal = ~silent]]
Raise(r, rep) == RaiseWith(r, rep, FALSE)
Proceed(r, rep) ==
    /\ pc' = pc
    /\ report' = [report EXCEPT ![r] = rep]

Forget(r) ==
    /\ seen' = [seen EXCEPT ![r] = FirstDef]
    /\ work' = [work EXCEPT ![r] = {}]
    /\ held' = [held EXCEPT ![r] = {}]
    /\ buf' = [buf EXCEPT ![r] = {}]
    /\ report' = [report EXCEPT ![r] = NewReport]

FinalStatus(rep) ==
    LET attempted == rep.success \/ rep.empty \/ rep.bad
    IN  IF rep.cancelled THEN "cancelled"
        ELSE IF rep.fatal \/ (attempted /\ ~rep.success /\ ~rep.empty)
        THEN "failed"
        ELSE IF rep.bad THEN "partial"
        ELSE IF rep.empty /\ ~rep.success THEN "no_data"
        ELSE "success"
-----------------------------------------------------------------------------
(* Planning: before the lease *)

\* prepare_initialization: the frozen bounds of an unfinished baseline.
InitializationAdmits(r) ==
    IF init.status # "none"
    THEN init = [status |-> "running", hash |-> spec,
                 lo |-> First[r], hi |-> Last[r]]
    ELSE history \subseteq {"verified"}

\* raw.get(dataset), then prepare_initialization.
ReadDeclaration(r) ==
    /\ pc[r] = "idle" /\ CallAllowed
    /\ seen' = [seen EXCEPT ![r] = spec]
    /\ \/ /\ ModeOf[r] = "initialize" => InitializationAdmits(r)
          /\ pc' = [pc EXCEPT ![r] = "discovering"]
          /\ init' = IF ModeOf[r] = "initialize"
                     THEN [status |-> "running", hash |-> spec,
                           lo |-> First[r], hi |-> Last[r]]
                     ELSE init
       \/ /\ ModeOf[r] = "initialize" /\ ~InitializationAdmits(r)
          /\ pc' = [pc EXCEPT ![r] = "done"]
          /\ UNCHANGED init
    /\ UNCHANGED <<spec, row, lease, runs, flag, incomplete, history, got,
                   work, held, buf, report, used>>

\* synchronize_requests: the rows take the hash registered NOW, the requests
\* carry the parameters of the declaration read before discovery.
SynchronizeRequests(r) ==
    /\ pc[r] = "discovering"
    /\ row' = Synchronized(r, spec)
    /\ work' = [work EXCEPT ![r] = Requests(Eligible(r, row'), row')]
    /\ pc' = [pc EXCEPT ![r] = "planned"]
    /\ UNCHANGED <<spec, lease, runs, flag, incomplete, init, history, got,
                   seen, held, buf, report, used>>
-----------------------------------------------------------------------------
(* Under the lease *)

\* Fault: the existing lease row is overwritten.
AcquireLeaseOverwriting(r) ==
    /\ pc[r] = "planned"
    /\ lease' = r
    /\ pc' = [pc EXCEPT ![r] = "leased"]
    /\ UNCHANGED <<spec, row, runs, flag, incomplete, init, history, got,
                   seen, work, held, buf, report, used>>
AcquireLease(r) ==
    /\ pc[r] = "planned" /\ lease = NoRun
    /\ lease' = r
    /\ pc' = [pc EXCEPT ![r] = "leased"]
    /\ UNCHANGED <<spec, row, runs, flag, incomplete, init, history, got,
                   seen, work, held, buf, report, used>>

\* "Dataset update already active": whatever the heartbeat says.
RefuseLease(r) ==
    /\ pc[r] = "planned" /\ lease # NoRun
    /\ pc' = [pc EXCEPT ![r] = "done"]
    /\ Forget(r)
    /\ UNCHANGED <<durable, used>>

\* Fault: the run row is written without update_incomplete.
BeginRunUnmarked(r) ==
    /\ pc[r] = "leased"
    /\ runs' = [runs EXCEPT ![r] = "running"]
    /\ pc' = [pc EXCEPT ![r] = "fetching"]
    /\ UNCHANGED <<spec, row, lease, flag, incomplete, init, history, got,
                   seen, work, held, buf, report, used>>
\* The run row and the mark are one transaction; when the audit of the
\* discovery call then fails, the run never counts as begun, so nothing
\* finalizes its row.
BeginRun(r) ==
    /\ pc[r] = "leased"
    /\ incomplete' = TRUE
    /\ runs' = [runs EXCEPT ![r] = "running"]
    /\ \/ /\ pc' = [pc EXCEPT ![r] = "fetching"]
          /\ UNCHANGED report
       \/ /\ pc' = [pc EXCEPT ![r] = "finished"]
          /\ report' = [report EXCEPT ![r].raised = TRUE]
    /\ UNCHANGED <<spec, row, lease, flag, init, history, got,
                   seen, work, held, buf, used>>

\* fill_ready for one request: all of its days, none of them, or an error.
ClaimScopes(r) ==
    /\ pc[r] = "fetching" /\ ~report[r].cancelled
    /\ \E q \in work[r] :
        LET free == {d \in q : row[d].status \in Claimable} IN
        /\ row' = [d \in Days |->
                     IF d \in free
                     THEN [row[d] EXCEPT !.status = "running", !.run = r,
                                         !.tried = TRUE]
                     ELSE row[d]]
        /\ \/ /\ free = q
              /\ held' = [held EXCEPT ![r] = @ \cup {q}]
              /\ work' = [work EXCEPT ![r] = @ \ {q}]
              /\ Proceed(r, report[r])
           \/ /\ free = {} /\ q # {}
              \* a batch without one claim and nothing in flight ends the loop
              /\ \E rest \in {work[r] \ {q}} \cup
                             (IF held[r] = {} THEN {{}} ELSE {}) :
                    work' = [work EXCEPT ![r] = rest]
              /\ UNCHANGED held
              /\ Proceed(r, report[r])
           \/ /\ free # q /\ free # {}
              /\ UNCHANGED <<held, work>>
              /\ Raise(r, report[r])
    /\ UNCHANGED <<spec, lease, runs, flag, incomplete, init, history, got,
                   seen, buf, used>>

\* Fault: the upper half of a bisected range is never queued.
SplitRequestLow(r) ==
    /\ pc[r] = "fetching"
    /\ \E q \in held[r] :
        LET half == Cardinality(q) \div 2
            low  == {d \in q : Cardinality({e \in q : e < d}) < half}
        IN  /\ Cardinality(q) > 1
            /\ held' = [held EXCEPT ![r] = (@ \ {q}) \cup {low}]
    /\ UNCHANGED <<durable, pc, seen, work, buf, report, used>>
\* An oversized range is bisected; its days stay claimed.
SplitRequest(r) ==
    /\ pc[r] = "fetching"
    /\ \E q \in held[r] :
        LET half == Cardinality(q) \div 2
            low  == {d \in q : Cardinality({e \in q : e < d}) < half}
        IN  /\ Cardinality(q) > 1
            /\ held' = [held EXCEPT ![r] = (@ \ {q}) \cup {low, q \ low}]
    /\ UNCHANGED <<durable, pc, seen, work, buf, report, used>>

\* A provider failure, a cancellation or an invalid response to request q.
FailedResponse(r, q, outcome) ==
    LET rep == [report[r] EXCEPT !.cancelled = @ \/ outcome = "cancelled"]
    IN  /\ held' = [held EXCEPT ![r] = @ \ {q}]
        /\ \/ /\ Owned(r, q)
              /\ row' = IF outcome \in Reasons THEN Settle(q, "invalid", outcome)
                                               ELSE Settle(q, "failed", "other")
              /\ Proceed(r, [rep EXCEPT !.bad = TRUE])
           \/ /\ ~Owned(r, q)
              /\ UNCHANGED row
              /\ Raise(r, rep)

HarvestFailure(r) ==
    /\ pc[r] = "fetching"
    /\ \E q \in held[r], outcome \in {"failed", "cancelled"} \cup Reasons :
         FailedResponse(r, q, outcome)
    /\ UNCHANGED <<spec, lease, runs, flag, incomplete, init, history, got,
                   seen, work, buf, used>>

\* record_empty_scope_results, one transaction, when any day is empty.
EmptyResponse(r, empties, full) ==
    \/ /\ Owned(r, empties)
       /\ row' = Settle(empties, "empty", "none")
       /\ got' = [d \in Days |-> IF d \in empties THEN {seen[r]} ELSE got[d]]
       /\ buf' = [buf EXCEPT ![r] = @ \cup full]
       /\ Proceed(r, [report[r] EXCEPT !.empty = @ \/ empties # {}])
    \/ /\ ~Owned(r, empties)
       /\ UNCHANGED <<row, got, buf>>
       /\ Raise(r, report[r])

\* A mandatory day is missing: it is invalid, one transition each.  It raises
\* on a lost claim, or because permitted empties beside it have "at least one
\* API audit row" to go with them no more.
SparseResponse(r, missing, empties, full) ==
    \E done \in SettledByLoop(r, missing) :
        LET rep == [report[r] EXCEPT !.bad = @ \/ done # {}] IN
        /\ row' = Settle(done, "invalid", "other")
        /\ UNCHANGED got
        /\ \/ /\ done = missing /\ empties = {}
              /\ buf' = [buf EXCEPT ![r] = @ \cup full]
              /\ Proceed(r, rep)
           \/ /\ done # missing \/ empties # {}
              /\ UNCHANGED buf
              /\ Raise(r, rep)

\* A valid response with rows for the days of full and none for the others.
HarvestDaily(r) ==
    /\ pc[r] = "fetching"
    /\ \E q \in held[r] : \E full \in SUBSET q :
        LET missing == (q \ full) \cap Required
            empties == (q \ full) \ Required
        IN
        /\ held' = [held EXCEPT ![r] = @ \ {q}]
        /\ \/ missing = {} /\ EmptyResponse(r, empties, full)
           \/ missing # {} /\ SparseResponse(r, missing, empties, full)
    /\ UNCHANGED <<spec, lease, runs, flag, incomplete, init, history,
                   seen, work, used>>
-----------------------------------------------------------------------------
(* Publishing a buffer *)

\* commit_versions in initialize mode: only an unfinished baseline, never on
\* top of incremental history.
BaselineOpen(r) ==
    ModeOf[r] = "initialize" =>
        /\ init.status \in {"none", "running"}
        /\ history \subseteq {"initialize", "verified"}
        /\ init.status = "none" => history \subseteq {"verified"}

\* assert_definition, assert_dataset_parent and the claims of every day.
CommitFence(r) ==
    /\ seen[r] = spec
    /\ lease = r
    /\ Owned(r, buf[r])

\* Content and coverage in one transaction; identical content publishes only
\* a check, which is verified unless it belongs to a baseline.
CommitBuffer(r) ==
    /\ pc[r] = "fetching" /\ buf[r] # {}
    /\ BaselineOpen(r) /\ CommitFence(r)
    /\ row' = Settle(buf[r], "success", "none")
    /\ got' = [d \in Days |-> IF d \in buf[r] THEN {seen[r]} ELSE got[d]]
    /\ buf' = [buf EXCEPT ![r] = {}]
    /\ Proceed(r, [report[r] EXCEPT !.success = TRUE])
    /\ \/ /\ history' = history \cup {ModeOf[r]}
          /\ incomplete' = TRUE
       \/ /\ history' = history \cup
                        (IF ModeOf[r] = "initialize" THEN {} ELSE {"verified"})
          /\ UNCHANGED incomplete
    /\ UNCHANGED <<spec, lease, runs, flag, init, seen, work, held, used>>

\* Any failure of the commit: each buffered day is failed, then it is raised.
CommitFails(r) ==
    /\ pc[r] = "fetching" /\ buf[r] # {}
    /\ \E done \in SettledByLoop(r, buf[r]) :
        /\ row' = Settle(done, "failed", "other")
        /\ Raise(r, [report[r] EXCEPT !.bad = @ \/ done # {}])
    /\ buf' = [buf EXCEPT ![r] = {}]
    /\ UNCHANGED <<spec, lease, runs, flag, incomplete, init, history, got,
                   seen, work, held, used>>
-----------------------------------------------------------------------------
(* Cancellation, interruption and the end of a run *)

CancelRequested(r) ==
    /\ pc[r] = "fetching" /\ ~report[r].cancelled
    /\ Proceed(r, [report[r] EXCEPT !.cancelled = TRUE])
    /\ UNCHANGED <<durable, seen, work, held, buf, used>>

\* Any other exception in the body of _update_datasets.
Interrupt(r) ==
    /\ pc[r] = "fetching"
    /\ \E silent \in {FALSE, SilentInterrupts} : RaiseWith(r, report[r], silent)
    /\ UNCHANGED <<durable, seen, work, held, buf, used>>

\* Fault: a cancelled run goes on to its end without settling its claims.
EndFetchesUnsettled(r) ==
    /\ pc[r] = "fetching" /\ buf[r] = {}
    /\ report[r].cancelled \/ (held[r] = {} /\ work[r] = {})
    /\ pc' = [pc EXCEPT ![r] = "finishing"]
    /\ UNCHANGED <<durable, seen, work, held, buf, report, used>>
\* Fault: the loop waits for its whole queue although it was cancelled.
EndFetchesDrained(r) ==
    /\ pc[r] = "fetching" /\ buf[r] = {} /\ held[r] = {} /\ work[r] = {}
    /\ pc' = [pc EXCEPT ![r] = IF report[r].cancelled THEN "failrunning"
                                                      ELSE "finishing"]
    /\ UNCHANGED <<durable, seen, work, held, buf, report, used>>
\* Nothing in flight and nothing buffered.  A cancelled run may still hold
\* claims that never reached the transport; _finish_state settles them.
EndFetches(r) ==
    /\ pc[r] = "fetching" /\ buf[r] = {}
    /\ report[r].cancelled \/ (held[r] = {} /\ work[r] = {})
    /\ pc' = [pc EXCEPT ![r] = IF report[r].cancelled THEN "failrunning"
                                                      ELSE "finishing"]
    /\ UNCHANGED <<durable, seen, work, held, buf, report, used>>

\* _fail_buffered; when it raises, _fail_running is skipped and only the
\* finally block still runs.
FailBuffered(r) ==
    /\ pc[r] = "failing"
    /\ \E done \in SettledByLoop(r, buf[r]) :
        /\ row' = Settle(done, "failed", "other")
        /\ report' = [report EXCEPT ![r].bad = @ \/ done # {}]
        /\ pc' = [pc EXCEPT ![r] =
                    IF done = buf[r] \/ report[r].cancelled
                    THEN "failrunning" ELSE "finishing"]
    /\ buf' = [buf EXCEPT ![r] = {}]
    /\ UNCHANGED <<spec, lease, runs, flag, incomplete, init, history, got,
                   seen, work, held, used>>

FailRunning(r) ==
    /\ pc[r] = "failrunning"
    /\ row' = Settle(Mine(r), "failed", "other")
    /\ pc' = [pc EXCEPT ![r] = "finishing"]
    /\ UNCHANGED <<spec, lease, runs, flag, incomplete, init, history, got,
                   seen, work, held, buf, report, used>>

\* _remaining_scope_count: pending and failed, never invalid or running.
CountRemaining(r) ==
    /\ pc[r] = "finishing"
    /\ report' = [report EXCEPT ![r].remaining =
                    \E d \in Days : row[d].status \in {"pending", "failed"}]
    /\ pc' = [pc EXCEPT ![r] = "counted"]
    /\ UNCHANGED <<durable, seen, work, held, buf, used>>

FinalizeRun(r) ==
    /\ pc[r] = "counted"
    /\ runs' = [runs EXCEPT ![r] = FinalStatus(report[r])]
    /\ pc' = [pc EXCEPT ![r] = "finalized"]
    /\ UNCHANGED <<spec, row, lease, flag, incomplete, init, history, got,
                   seen, work, held, buf, report, used>>

Certifies(r) == runs[r] \in {"success", "no_data"} /\ ~report[r].remaining

\* write_completion: overlapping or adjacent windows are united only while
\* the previous flag still stands.
NextFlag(r) ==
    LET new == [hash |-> spec, lo |-> First[r], hi |-> Last[r], run |-> r]
        standing == {f \in flag : f.hash = spec /\ ~incomplete}
        older == {f \in standing : f.hi > new.hi}
        touching == {f \in standing : new.lo <= f.hi + 1 /\ f.lo <= new.hi + 1}
    IN  IF older # {} THEN flag
        ELSE IF touching # {}
        THEN {[new EXCEPT !.lo = IF f.lo < @ THEN f.lo ELSE @,
                          !.hi = IF f.hi > @ THEN f.hi ELSE @] : f \in touching}
        ELSE {new}

CompleteNode(r) ==
    /\ pc[r] = "finalized"
    /\ IF Certifies(r)
       THEN /\ flag' = NextFlag(r)
            /\ incomplete' = FALSE
       ELSE UNCHANGED <<flag, incomplete>>
    /\ pc' = [pc EXCEPT ![r] = "finished"]
    /\ UNCHANGED <<spec, row, lease, runs, init, history, got,
                   seen, work, held, buf, report, used>>

\* The finally block of datasets(); a caught exception is raised right after.
ReleaseLease(r) ==
    /\ pc[r] = "finished"
    /\ lease' = IF lease = r THEN NoRun ELSE lease
    /\ \/ /\ report[r].raised
          /\ pc' = [pc EXCEPT ![r] = "done"]
          /\ Forget(r)
       \/ /\ ~report[r].raised
          /\ pc' = [pc EXCEPT ![r] = "released"]
          /\ UNCHANGED <<seen, work, held, buf, report>>
    /\ UNCHANGED <<spec, row, runs, flag, incomplete, init, history, got, used>>

\* Fault: an initialization is complete whenever its run returned.
FinishInitializationAlways(r) ==
    /\ pc[r] = "released"
    /\ init' = IF ModeOf[r] = "initialize" /\ init.status = "running"
               THEN [init EXCEPT !.status = "complete"] ELSE init
    /\ pc' = [pc EXCEPT ![r] = "done"]
    /\ Forget(r)
    /\ UNCHANGED <<spec, row, lease, runs, flag, incomplete, history, got, used>>
\* finish_initialization, after the lease is gone.
FinishInitialization(r) ==
    /\ pc[r] = "released"
    /\ init' = IF ModeOf[r] = "initialize" /\ Certifies(r)
                  /\ init.status = "running"
               THEN [init EXCEPT !.status = "complete"] ELSE init
    /\ pc' = [pc EXCEPT ![r] = "done"]
    /\ Forget(r)
    /\ UNCHANGED <<spec, row, lease, runs, flag, incomplete, history, got, used>>
-----------------------------------------------------------------------------
(* Other callers, process death and recovery *)

\* raw.register: under its own short lease, hence never during an update.
Register(h) ==
    /\ CallAllowed /\ lease = NoRun
    /\ used.register < MaxRegisters /\ h # spec
    /\ spec' = h
    /\ used' = [used EXCEPT !.register = @ + 1]
    /\ UNCHANGED <<row, lease, runs, flag, incomplete, init, history, got,
                   volatile>>

\* Fault: a reset leaves the completion flag readable.
ResetScopesQuietly(S) ==
    /\ CallAllowed /\ used.reset < MaxResets
    /\ S # {} /\ \A d \in S : row[d].status # "absent"
    /\ row' = Settle({d \in S : row[d].status \in
                        {"failed", "invalid", "empty", "success"}},
                     "pending", "none")
    /\ used' = [used EXCEPT !.reset = @ + 1]
    /\ UNCHANGED <<spec, lease, runs, flag, incomplete, init, history, got,
                   volatile>>
\* Fault: a reset also takes scopes that an update is working on.
ResetScopesInFlight(S) ==
    /\ CallAllowed /\ used.reset < MaxResets
    /\ S # {} /\ \A d \in S : row[d].status # "absent"
    /\ incomplete' = TRUE
    /\ row' = Settle(S, "pending", "none")
    /\ used' = [used EXCEPT !.reset = @ + 1]
    /\ UNCHANGED <<spec, lease, runs, flag, init, history, got, volatile>>
\* integrity.reset_update_scopes: takes no lease.
ResetScopes(S) ==
    /\ CallAllowed /\ used.reset < MaxResets
    /\ S # {} /\ \A d \in S : row[d].status # "absent"
    /\ incomplete' = TRUE
    /\ row' = Settle({d \in S : row[d].status \in
                        {"failed", "invalid", "empty", "success"}},
                     "pending", "none")
    /\ used' = [used EXCEPT !.reset = @ + 1]
    /\ UNCHANGED <<spec, lease, runs, flag, init, history, got, volatile>>

\* integrity.reopen_raw_initialization at the original bounds and hash.
ReopenInitialization ==
    LET bounds == {d \in init.lo .. init.hi :
                     row[d].status # "absent" /\ row[d].hash = spec}
    IN
    /\ CallAllowed /\ used.reopen < MaxReopens
    /\ init.status = "complete" /\ init.hash = spec
    /\ lease = NoRun
    /\ \A r \in Runs : runs[r] # "running"
    /\ \A d \in Days : row[d].status \in Terminal \cup {"absent"}
    /\ history \subseteq {"initialize"}
    /\ bounds # {}
    /\ init' = [init EXCEPT !.status = "running"]
    /\ incomplete' = TRUE
    /\ row' = Settle(bounds, "pending", "none")
    /\ used' = [used EXCEPT !.reopen = @ + 1]
    /\ UNCHANGED <<spec, lease, runs, flag, history, got, volatile>>

\* The process of a run dies; everything it kept in memory is gone.
Crash(r) ==
    /\ Live(r) /\ used.crash < MaxCrashes
    /\ pc' = [pc EXCEPT ![r] = "dead"]
    /\ Forget(r)
    /\ used' = [used EXCEPT !.crash = @ + 1]
    /\ UNCHANGED durable

\* Fault: only runs that reached begin_run are recovered.
LostRunsRecorded(o) == {r \in Runs : OwnerOf[r] = o /\ runs[r] = "running"}
\* The active runs of an owner: by their run row or by their lease.
LostRuns(o) ==
    {r \in Runs : OwnerOf[r] = o /\ (runs[r] = "running" \/ lease = r)}

\* Fault: recovery drops the lease but not the claims under it.
AbandonedScopesNone(lost) == {}
AbandonedScopes(lost) ==
    {d \in Days : row[d].status = "running" /\ row[d].run \in lost}

\* integrity.abandon_update_owner, once every publisher of the owner exited.
AbandonOwner(o) ==
    LET mine == {r \in Runs : OwnerOf[r] = o}
        lost == LostRuns(o)
    IN
    /\ CallAllowed
    /\ \A r \in mine : ~Live(r)
    /\ lost # {}
    /\ row' = Settle(AbandonedScopes(lost), "failed", "other")
    /\ runs' = [r \in Runs |-> IF r \in lost /\ runs[r] = "running"
                               THEN "cancelled" ELSE runs[r]]
    /\ lease' = IF lease \in mine THEN NoRun ELSE lease
    /\ UNCHANGED <<spec, flag, incomplete, init, history, got, volatile, used>>
-----------------------------------------------------------------------------
Fetch(r) == ClaimScopes(r) \/ SplitRequest(r) \/ HarvestFailure(r)
            \/ HarvestDaily(r) \/ CommitBuffer(r) \/ CommitFails(r)
            \/ EndFetches(r)
Finish(r) == FailBuffered(r) \/ FailRunning(r) \/ CountRemaining(r)
             \/ FinalizeRun(r) \/ CompleteNode(r) \/ ReleaseLease(r)
             \/ FinishInitialization(r)
\* What the code of a run does by itself; the caller decides when it starts.
Advance(r) == SynchronizeRequests(r) \/ AcquireLease(r) \/ RefuseLease(r)
              \/ BeginRun(r) \/ Fetch(r) \/ Finish(r)
Update(r) == ReadDeclaration(r) \/ Advance(r) \/ CancelRequested(r)
             \/ Interrupt(r) \/ Crash(r)

Next == \/ \E r \in Runs : Update(r)
        \/ \E h \in Defs : Register(h)
        \/ \E S \in SUBSET Days : ResetScopes(S)
        \/ ReopenInitialization
        \/ \E o \in Owners : AbandonOwner(o)

Spec == Init /\ [][Next]_vars

\* Every future ends (transports have timeouts), the coordinator thread keeps
\* running, and recovery is eventually called for an owner that died.
FairSpec == /\ Spec
            /\ \A r \in Runs : WF_vars(Advance(r))
            /\ \A o \in Owners : WF_vars(AbandonOwner(o))
-----------------------------------------------------------------------------
(* Properties *)

\* Every variable keeps its shape.
TypeOK ==
    /\ spec \in Defs
    /\ row \in [Days -> Row]
    /\ lease \in Runs \cup {NoRun}
    /\ runs \in [Runs -> RunStatus]
    /\ flag \in SUBSET Flag
    /\ incomplete \in BOOLEAN
    /\ init \in InitRow
    /\ history \subseteq Modes \cup {"verified"}
    /\ pc \in [Runs -> Phases]
    /\ seen \in [Runs -> Defs]
    /\ work \in [Runs -> SUBSET SUBSET Days]
    /\ held \in [Runs -> SUBSET SUBSET Days]
    /\ buf \in [Runs -> SUBSET Days]
    /\ report \in [Runs -> Report]
    /\ got \in [Days -> SUBSET Defs]
    /\ used \in [register : Nat, crash : Nat, reset : Nat, reopen : Nat]

\* Two updates of one dataset are never between acquiring and releasing the
\* lease together, whatever dies, raises or is recovered: the lease of a run
\* in its update section is its own (acquire_update_leases,
\* release_update_leases, abandon_update_owner).
ExclusiveUpdate == \A r \in Runs : pc[r] \in Leased => lease = r

\* A claim that is still to be settled is protected: the scopes that carry
\* the id of a run that has not returned are under that run's lease, also
\* after its process died and until its owner is abandoned.
LiveClaimIsLeased ==
    \A d \in Days :
        row[d].status = "running" /\ pc[row[d].run] \notin {"released", "done"}
            => lease = row[d].run

\* No update loses sight of a claim: while it fetches, each scope it claimed
\* is in a request it still holds or in its buffer; once it goes on to its end
\* without an exception, and after it has returned its lease, it has none left
\* (fill_ready, submit_next, _harvest_request, _fail_running).
Ending == {"finishing", "counted", "finalized", "finished"}
Accounted(r) ==
    /\ pc[r] = "leased" => Mine(r) = {}
    /\ pc[r] = "fetching" => Mine(r) \subseteq (UNION held[r]) \cup buf[r]
    /\ pc[r] = "failing" => report[r].raised
    /\ pc[r] \in Ending /\ ~report[r].raised => Mine(r) = {}
    /\ pc[r] = "released" => Mine(r) = {}
ClaimsAccountedFor == \A r \in Runs : Accounted(r)

\* An update leaves no claim behind: once its lease is dropped no scope is
\* "running" under it, so every unfinished scope can be planned again.
NoStrandedClaim ==
    \A d \in Days : row[d].status = "running" => lease = row[d].run

\* From begin_run to the end of the run no earlier completion flag can be
\* read as current: the dataset is marked incomplete all that time, unless
\* this very run has just certified it.
UpdateMarksIncomplete ==
    \A r \in Runs :
        pc[r] \in Leased \ {"leased", "finished"} => incomplete

\* A completion flag that planners read as current (definition_current and
\* publication_current) covers only scopes with a terminal outcome.
FlagIsCurrent == ~incomplete /\ \E f \in flag : f.hash = spec
CertifiedRangeTerminal ==
    FlagIsCurrent =>
        \A f \in flag : \A d \in f.lo .. f.hi : row[d].status \in Terminal

\* ... and every one of those days has an outcome that was obtained under the
\* definition the flag binds.
CertifiedRangeCurrent ==
    FlagIsCurrent =>
        \A f \in flag : \A d \in f.lo .. f.hi : got[d] = {f.hash}

\* The outcome of a claimed scope is decided by a step of the run that
\* claimed it, by the recovery of its owner after its process died, or by a
\* new definition; never by another update, a reset or a reopening.
Steps(r) == <<pc[r], held[r], buf[r]>>
OutcomeByClaimant ==
    [][\A d \in Days, r \in Runs :
        row[d].status = "running" /\ row[d].run = r /\ row'[d] # row[d] =>
            \/ Steps(r)' # Steps(r)
            \/ pc[r] = "dead" /\ row'[d].status = "failed"
            \/ row'[d].hash # row[d].hash]_vars

\* Coverage never goes back by itself: a scope with a terminal outcome is
\* only reopened by a claim under a lease, an explicit reset or reopening,
\* or a new definition.
TerminalIsKept ==
    [][\A d \in Days :
        row[d].status \in Terminal /\ row'[d] # row[d] =>
            \/ row'[d].status = "running" /\ lease = row'[d].run
            \/ used'.reset # used.reset \/ used'.reopen # used.reopen
            \/ row'[d].hash # row[d].hash \/ row'[d].status = "absent"]_vars

\* An initialization is only declared complete over scopes that all reached
\* a terminal outcome.
InitializationCompletesTerminal ==
    [][init.status = "running" /\ init'.status = "complete" =>
        \A d \in init.lo .. init.hi : row[d].status \in Terminal]_vars

\* Every update that was planned returns or raises unless its process dies.
UpdateEnds == \A r \in Runs : pc[r] = "planned" ~> pc[r] \in {"done", "dead"}

\* Writer ownership is always given back in the end, also after a process
\* death followed by the recovery of its owner.
LeaseIsReturned == (lease # NoRun) ~> (lease = NoRun)

\* A scope that is claimed does not stay claimed for ever.
ClaimIsSettled ==
    \A d \in Days : (row[d].status = "running") ~> (row[d].status # "running")
=============================================================================
