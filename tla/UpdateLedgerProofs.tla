------------------------- MODULE UpdateLedgerProofs -------------------------
(***************************************************************************)
(* The update ledger, for every number of runs, owners, days and           *)
(* definitions, every window, mode and bound: the shape of its state, its  *)
(* exclusion and claim accounting, who decides an outcome, and what the    *)
(* completion flag certifies.                                              *)
(***************************************************************************)
EXTENDS UpdateLedger, TLAPS

USE LedgerAssumption DEF Days, Modes

-----------------------------------------------------------------------------
(* The shape of the state, exclusion and claim accounting.  The invariants  *)
(* are proved together: the lease of a live claim can only be kept track of *)
(* if no run returns with a claim (a returned run may still die), and that  *)
(* rests on every claim being in a held request or in the buffer.           *)

Why == {"none", "all_null", "other"}
-----------------------------------------------------------------------------
(* The helpers on scope rows *)

\* Settling keeps the shape of the ledger.
LEMMA SettleTyped ==
    ASSUME row \in [Days -> Row], NEW S, NEW st \in ScopeStatus, NEW why \in Why
    PROVE  Settle(S, st, why) \in [Days -> Row]
BY DEF Settle, Row, Why

\* The outcomes that the actions settle scopes with.
LEMMA OutcomesTyped ==
    ASSUME row \in [Days -> Row], NEW S
    PROVE  /\ \A why \in Reasons : Settle(S, "invalid", why) \in [Days -> Row]
           /\ Settle(S, "invalid", "other") \in [Days -> Row]
           /\ Settle(S, "failed", "other") \in [Days -> Row]
           /\ Settle(S, "empty", "none") \in [Days -> Row]
           /\ Settle(S, "success", "none") \in [Days -> Row]
           /\ Settle(S, "pending", "none") \in [Days -> Row]
<1>1. {"invalid", "failed", "empty", "success", "pending"} \subseteq ScopeStatus
    BY DEF ScopeStatus
<1>2. Reasons \subseteq Why /\ "other" \in Why /\ "none" \in Why
    BY DEF LedgerAssumption, Why
<1> QED  BY <1>1, <1>2, SettleTyped

\* Settling a day gives it the outcome and takes it from its run; no other
\* day and no definition hash changes.
LEMMA SettleAt ==
    ASSUME row \in [Days -> Row], NEW S, NEW st, NEW why, NEW d \in Days
    PROVE  /\ d \in S => /\ Settle(S, st, why)[d].status = st
                         /\ Settle(S, st, why)[d].run = NoRun
           /\ d \notin S => Settle(S, st, why)[d] = row[d]
           /\ Settle(S, st, why)[d].hash = row[d].hash
BY DEF Settle, Row

\* A missing row has a shape.
LEMMA AbsentTyped == Absent \in Row
BY DEF Absent, Row, ScopeStatus

\* Synchronizing keeps the shape of the ledger.
LEMMA SynchronizedTyped ==
    ASSUME row \in [Days -> Row], NEW r \in Runs, NEW hash \in Defs
    PROVE  Synchronized(r, hash) \in [Days -> Row]
<1> SUFFICES ASSUME NEW d \in Days
             PROVE  Synchronized(r, hash)[d] \in Row
    BY DEF Synchronized
<1>1. row[d] \in Row  OBVIOUS
<1>2. [Absent EXCEPT !.status = "pending", !.hash = hash] \in Row
    BY DEF Absent, Row, ScopeStatus
<1>3. [row[d] EXCEPT !.status = "pending", !.run = NoRun, !.why = "none",
                     !.hash = hash] \in Row
    BY <1>1 DEF Row, ScopeStatus
<1> QED  BY <1>1, <1>2, <1>3, AbsentTyped DEF Synchronized

\* A row that is "running" after synchronizing is the row it was before.
LEMMA SynchronizedRunning ==
    ASSUME row \in [Days -> Row], NEW r \in Runs, NEW hash \in Defs,
           NEW d \in Days, Synchronized(r, hash)[d].status = "running"
    PROVE  Synchronized(r, hash)[d] = row[d]
<1>1. row[d] \in Row  OBVIOUS
<1>2. [Absent EXCEPT !.status = "pending", !.hash = hash].status # "running"
    BY DEF Absent
<1>3. [row[d] EXCEPT !.status = "pending", !.run = NoRun, !.why = "none",
                     !.hash = hash].status # "running"
    BY <1>1 DEF Row
<1>4. Absent.status # "running"  BY DEF Absent
<1> QED  BY <1>2, <1>3, <1>4 DEF Synchronized

\* The planned requests are sets of declared days.
LEMMA RequestsTyped ==
    ASSUME NEW S \in SUBSET Days, NEW rows
    PROVE  Requests(S, rows) \in SUBSET SUBSET Days
BY DEF Requests

\* What a loop of transitions settles is part of what it was given.
LEMMA SettledByLoopOwned ==
    ASSUME NEW r, NEW S \in SUBSET Days, NEW done \in SettledByLoop(r, S)
    PROVE  done \subseteq S /\ \A d \in done : row[d].run = r
BY DEF SettledByLoop, Owned

\* The status of a report is one of a run that ended.
LEMMA FinalStatusTyped ==
    ASSUME NEW rep PROVE FinalStatus(rep) \in RunStatus \ {"running", "none"}
BY DEF FinalStatus, RunStatus

\* Changing a field keeps the shape of a report.
LEMMA ReportTyped ==
    /\ NewReport \in Report
    /\ \A rep \in Report, b \in BOOLEAN :
         /\ [rep EXCEPT !.bad = b] \in Report
         /\ [rep EXCEPT !.empty = b] \in Report
         /\ [rep EXCEPT !.success = b] \in Report
         /\ [rep EXCEPT !.cancelled = b] \in Report
         /\ [rep EXCEPT !.remaining = b] \in Report
         /\ [rep EXCEPT !.raised = b] \in Report
         /\ \A c \in BOOLEAN : [rep EXCEPT !.raised = TRUE, !.fatal = c] \in Report
BY DEF NewReport, Report
\* Certifying keeps the shape of the flag.
LEMMA NextFlagTyped ==
    ASSUME spec \in Defs, flag \in SUBSET Flag, NEW r \in Runs
    PROVE  NextFlag(r) \in SUBSET Flag
<1> DEFINE new == [hash |-> spec, lo |-> First[r], hi |-> Last[r], run |-> r]
<1>1. new \in Flag
    BY DEF Flag, LedgerAssumption
<1>2. ASSUME NEW f \in Flag
      PROVE  [new EXCEPT !.lo = IF f.lo < @ THEN f.lo ELSE @,
                         !.hi = IF f.hi > @ THEN f.hi ELSE @] \in Flag
    BY <1>2, LedgerAssumption DEF Flag, LedgerAssumption
<1> DEFINE standing == {f \in flag : f.hash = spec /\ ~incomplete}
           touching == {f \in standing : new.lo <= f.hi + 1 /\ f.lo <= new.hi + 1}
           united == {[new EXCEPT !.lo = IF f.lo < @ THEN f.lo ELSE @,
                                  !.hi = IF f.hi > @ THEN f.hi ELSE @] : f \in touching}
<1>3. united \in SUBSET Flag
  <2>1. touching \subseteq Flag
      OBVIOUS
  <2> HIDE DEF touching, new
  <2> QED  BY <1>2, <2>1
<1>4. NextFlag(r) \in {flag, united, {new}}
    BY DEF NextFlag
<1> HIDE DEF united, new
<1> QED  BY <1>1, <1>3, <1>4
-----------------------------------------------------------------------------
(* Type correctness *)

Used == [register : Nat, crash : Nat, reset : Nat, reopen : Nat]

\* Counting one more environment event keeps the shape of the counters.
LEMMA UsedTyped ==
    ASSUME NEW u \in Used
    PROVE  /\ [u EXCEPT !.register = @ + 1] \in Used
           /\ [u EXCEPT !.crash = @ + 1] \in Used
           /\ [u EXCEPT !.reset = @ + 1] \in Used
           /\ [u EXCEPT !.reopen = @ + 1] \in Used
<1>1. /\ u.register + 1 \in Nat /\ u.crash + 1 \in Nat
      /\ u.reset + 1 \in Nat /\ u.reopen + 1 \in Nat
    BY SMT DEF Used
<1> QED  BY <1>1 DEF Used

\* So does forgetting a run.
LEMMA ForgetTyped ==
    ASSUME TypeOK, NEW r \in Runs, Forget(r)
    PROVE  /\ seen' \in [Runs -> Defs]
           /\ work' \in [Runs -> SUBSET SUBSET Days]
           /\ held' \in [Runs -> SUBSET SUBSET Days]
           /\ buf' \in [Runs -> SUBSET Days]
           /\ report' \in [Runs -> Report]
BY ReportTyped DEF Forget, TypeOK

\* Going on and raising keep the shape of pc and report.
LEMMA MovesTyped ==
    ASSUME TypeOK, NEW r \in Runs, NEW rep \in Report, NEW silent \in BOOLEAN,
           Proceed(r, rep) \/ Raise(r, rep) \/ RaiseWith(r, rep, silent)
    PROVE  pc' \in [Runs -> Phases] /\ report' \in [Runs -> Report]
<1>1. report \in [Runs -> Report] /\ pc \in [Runs -> Phases]
    BY DEF TypeOK
<1>2. \A c \in BOOLEAN : [rep EXCEPT !.raised = TRUE, !.fatal = c] \in Report
    BY ReportTyped
<1>3. \A c \in BOOLEAN : (~c) \in BOOLEAN
    OBVIOUS
<1>4. CASE Proceed(r, rep)
    BY <1>1, <1>4 DEF Proceed
<1>5. ASSUME NEW c \in BOOLEAN, RaiseWith(r, rep, c)
      PROVE  pc' \in [Runs -> Phases] /\ report' \in [Runs -> Report]
    BY <1>1, <1>2, <1>3, <1>5 DEF RaiseWith, Phases, Leased
<1> QED  BY <1>4, <1>5 DEF Raise

\* The empty ledger has its shape.
LEMMA InitTyped == Init => TypeOK
<1> SUFFICES ASSUME Init PROVE TypeOK
    OBVIOUS
<1>1. 1 \in Days
    BY SMT
<1>2. row \in [Days -> Row] /\ report \in [Runs -> Report]
    BY AbsentTyped, ReportTyped DEF Init
<1>3. init \in InitRow
    BY <1>1 DEF Init, InitRow
<1>4. runs \in [Runs -> RunStatus] /\ pc \in [Runs -> Phases]
    BY DEF Init, RunStatus, Phases
<1>5. used \in [register : Nat, crash : Nat, reset : Nat, reopen : Nat]
    BY DEF Init
<1> QED  BY <1>2, <1>3, <1>4, <1>5 DEF Init, TypeOK

\* Every step keeps the shape of the variables.
LEMMA StepTyped == TypeOK /\ [Next]_vars => TypeOK'
<1> SUFFICES ASSUME TypeOK, [Next]_vars PROVE TypeOK'
    OBVIOUS
<1>row. row \in [Days -> Row]
    BY DEF TypeOK
<1>rep. report \in [Runs -> Report]
    BY DEF TypeOK
<1>pc. pc \in [Runs -> Phases]
    BY DEF TypeOK
<1>sets. /\ work \in [Runs -> SUBSET SUBSET Days]
         /\ held \in [Runs -> SUBSET SUBSET Days]
         /\ buf \in [Runs -> SUBSET Days]
    BY DEF TypeOK
<1>used. used \in Used
    BY DEF TypeOK, Used
<1>1. ASSUME NEW r \in Runs, ReadDeclaration(r) PROVE TypeOK'
  <2>1. init' \in InitRow
      BY <1>1 DEF ReadDeclaration, InitRow, TypeOK
  <2>2. pc' \in [Runs -> Phases]
      BY <1>1, <1>pc DEF ReadDeclaration, Phases
  <2> QED  BY <1>1, <2>1, <2>2 DEF ReadDeclaration, TypeOK
<1>2. ASSUME NEW r \in Runs, SynchronizeRequests(r) PROVE TypeOK'
  <2>1. row' \in [Days -> Row]
      BY <1>2, SynchronizedTyped DEF SynchronizeRequests, TypeOK
  <2>2. Requests(Eligible(r, row'), row') \in SUBSET SUBSET Days
      BY RequestsTyped DEF Eligible, Window
  <2>3. pc' \in [Runs -> Phases] /\ work' \in [Runs -> SUBSET SUBSET Days]
      BY <1>2, <1>pc, <1>sets, <2>2 DEF SynchronizeRequests, Phases
  <2> QED  BY <1>2, <2>1, <2>3 DEF SynchronizeRequests, TypeOK
<1>3. ASSUME NEW r \in Runs, AcquireLease(r) PROVE TypeOK'
  <2>1. pc' \in [Runs -> Phases]
      BY <1>3, <1>pc DEF AcquireLease, Phases, Leased
  <2> QED  BY <1>3, <2>1 DEF AcquireLease, TypeOK
<1>4. ASSUME NEW r \in Runs, RefuseLease(r) PROVE TypeOK'
  <2>1. pc' \in [Runs -> Phases]
      BY <1>4, <1>pc DEF RefuseLease, Phases
  <2> QED  BY <1>4, <2>1, ForgetTyped DEF RefuseLease, durable, TypeOK
<1>5. ASSUME NEW r \in Runs, BeginRun(r) PROVE TypeOK'
  <2>1. report' \in [Runs -> Report]
    <3>1. [report[r] EXCEPT !.raised = TRUE] \in Report
        BY <1>rep, ReportTyped
    <3> QED  BY <1>5, <1>rep, <3>1 DEF BeginRun
  <2>2. pc' \in [Runs -> Phases]
      BY <1>5, <1>pc DEF BeginRun, Phases, Leased
  <2>3. runs' \in [Runs -> RunStatus]
      BY <1>5 DEF BeginRun, RunStatus, TypeOK
  <2> QED  BY <1>5, <2>1, <2>2, <2>3 DEF BeginRun, TypeOK
<1>6. ASSUME NEW r \in Runs, ClaimScopes(r) PROVE TypeOK'
  <2>1. row' \in [Days -> Row]
    <3>1. ASSUME NEW d \in Days
          PROVE  [row[d] EXCEPT !.status = "running", !.run = r,
                                !.tried = TRUE] \in Row
      <4>1. row[d] \in Row  BY <1>row
      <4> QED  BY <4>1 DEF Row, ScopeStatus
    <3>2. PICK S \in SUBSET Days :
            row' = [d \in Days |->
                     IF d \in S
                     THEN [row[d] EXCEPT !.status = "running", !.run = r,
                                         !.tried = TRUE]
                     ELSE row[d]]
        BY <1>6, <1>sets DEF ClaimScopes
    <3> QED  BY <3>1, <3>2, <1>row
  <2>2. held' \in [Runs -> SUBSET SUBSET Days] /\ work' \in [Runs -> SUBSET SUBSET Days]
    <3>1. \E q \in work[r] : \/ held' = [held EXCEPT ![r] = held[r] \cup {q}]
                            \/ held' = held
        BY <1>6 DEF ClaimScopes
    <3>2. \E q \in work[r] : \/ work' = [work EXCEPT ![r] = work[r] \ {q}]
                            \/ work' = [work EXCEPT ![r] = {}]
                            \/ work' = work
        BY <1>6 DEF ClaimScopes
    <3> QED  BY <3>1, <3>2, <1>sets
  <2>3. pc' \in [Runs -> Phases] /\ report' \in [Runs -> Report]
    <3>1. Proceed(r, report[r]) \/ Raise(r, report[r])
        BY <1>6 DEF ClaimScopes
    <3> QED  BY <3>1, <1>rep, MovesTyped
  <2> QED  BY <1>6, <2>1, <2>2, <2>3 DEF ClaimScopes, TypeOK
<1>7. ASSUME NEW r \in Runs, SplitRequest(r) PROVE TypeOK'
  <2>1. \E q, low : q \in held[r] /\ low \subseteq q
                    /\ held' = [held EXCEPT ![r] = (held[r] \ {q}) \cup {low, q \ low}]
      BY <1>7 DEF SplitRequest
  <2>2. held' \in [Runs -> SUBSET SUBSET Days]
    <3>1. PICK q, low : /\ q \in held[r] /\ low \subseteq q
                        /\ held' = [held EXCEPT ![r] =
                                      (held[r] \ {q}) \cup {low, q \ low}]
        BY <2>1
    <3>2. q \subseteq Days /\ held[r] \subseteq SUBSET Days
        BY <3>1, <1>sets
    <3>3. (held[r] \ {q}) \cup {low, q \ low} \in SUBSET SUBSET Days
      <4>1. low \in SUBSET Days /\ q \ low \in SUBSET Days
          BY <3>1, <3>2
      <4> QED  BY <3>2, <4>1
    <3> QED  BY <3>1, <3>3, <1>sets
  <2> QED  BY <1>7, <2>2 DEF SplitRequest, durable, TypeOK
<1>8. ASSUME NEW r \in Runs, HarvestFailure(r) PROVE TypeOK'
  <2>1. PICK q \in held[r], outcome \in {"failed", "cancelled"} \cup Reasons :
          FailedResponse(r, q, outcome)
      BY <1>8 DEF HarvestFailure
  <2>2. row' \in [Days -> Row]
    <3>1. \/ row' = row
          \/ outcome \in Reasons /\ row' = Settle(q, "invalid", outcome)
          \/ row' = Settle(q, "failed", "other")
        BY <2>1 DEF FailedResponse
    <3>2. /\ \A why \in Reasons : Settle(q, "invalid", why) \in [Days -> Row]
          /\ Settle(q, "failed", "other") \in [Days -> Row]
        BY <1>row, OutcomesTyped
    <3>3. CASE row' = row
        BY <3>3, <1>row
    <3>4. CASE outcome \in Reasons /\ row' = Settle(q, "invalid", outcome)
        BY <3>4, <3>2
    <3>5. CASE row' = Settle(q, "failed", "other")
        BY <3>5, <3>2
    <3> QED  BY <3>1, <3>3, <3>4, <3>5
  <2>3. held' \in [Runs -> SUBSET SUBSET Days]
      BY <2>1, <1>sets DEF FailedResponse
  <2>4. pc' \in [Runs -> Phases] /\ report' \in [Runs -> Report]
    <3> DEFINE cancelled == report[r].cancelled \/ outcome = "cancelled"
               rep == [report[r] EXCEPT !.cancelled = cancelled]
    <3>1. rep \in Report
      <4>1. cancelled \in BOOLEAN  OBVIOUS
      <4>2. \A b \in BOOLEAN : [report[r] EXCEPT !.cancelled = b] \in Report
          BY <1>rep, ReportTyped
      <4> HIDE DEF cancelled
      <4> QED  BY <4>1, <4>2
    <3>2. [rep EXCEPT !.bad = TRUE] \in Report
        BY <3>1, ReportTyped
    <3>3. Proceed(r, [rep EXCEPT !.bad = TRUE]) \/ Raise(r, rep)
        BY <2>1 DEF FailedResponse
    <3> HIDE DEF rep
    <3> QED  BY <3>1, <3>2, <3>3, MovesTyped
  <2> QED  BY <1>8, <2>2, <2>3, <2>4 DEF HarvestFailure, TypeOK
<1>9. ASSUME NEW r \in Runs, HarvestDaily(r) PROVE TypeOK'
  <2>1. PICK q \in held[r], full \in SUBSET Days :
          \/ EmptyResponse(r, (q \ full) \ Required, full)
          \/ SparseResponse(r, (q \ full) \cap Required, (q \ full) \ Required, full)
      BY <1>9, <1>sets DEF HarvestDaily
  <2> DEFINE empties == (q \ full) \ Required
             missing == (q \ full) \cap Required
  <2>3. held' \in [Runs -> SUBSET SUBSET Days]
    <3>1. \E x : held' = [held EXCEPT ![r] = held[r] \ {x}]
        BY <1>9 DEF HarvestDaily
    <3> QED  BY <3>1, <1>sets
  <2>4. CASE EmptyResponse(r, empties, full)
    <3>1. row' \in [Days -> Row]
      <4>1. Settle(empties, "empty", "none") \in [Days -> Row]
          BY <1>row, OutcomesTyped
      <4>2. row' = row \/ row' = Settle(empties, "empty", "none")
          BY <2>4 DEF EmptyResponse
      <4> QED  BY <4>1, <4>2, <1>row
    <3>2. got' \in [Days -> SUBSET Defs] /\ buf' \in [Runs -> SUBSET Days]
      <4>1. {seen[r]} \in SUBSET Defs /\ got \in [Days -> SUBSET Defs]
          BY DEF TypeOK
      <4>2. got' \in [Days -> SUBSET Defs]
          BY <2>4, <4>1 DEF EmptyResponse
      <4>3. buf' = [buf EXCEPT ![r] = buf[r] \cup full] \/ buf' = buf
          BY <2>4 DEF EmptyResponse
      <4>4. buf[r] \cup full \in SUBSET Days
          BY <1>sets, <2>1
      <4>5. buf' \in [Runs -> SUBSET Days]
          BY <4>3, <4>4, <1>sets
      <4> QED  BY <4>2, <4>5
    <3>3. pc' \in [Runs -> Phases] /\ report' \in [Runs -> Report]
      <4> DEFINE empty == report[r].empty \/ empties # {}
      <4>1. empty \in BOOLEAN
          OBVIOUS
      <4>2. \A b \in BOOLEAN : [report[r] EXCEPT !.empty = b] \in Report
          BY <1>rep, ReportTyped
      <4>3. Proceed(r, [report[r] EXCEPT !.empty = empty]) \/ Raise(r, report[r])
          BY <2>4 DEF EmptyResponse
      <4> HIDE DEF empty
      <4> QED  BY <4>1, <4>2, <4>3, <1>rep, MovesTyped
    <3> QED  BY <1>9, <2>3, <3>1, <3>2, <3>3 DEF HarvestDaily, TypeOK
  <2>5. CASE SparseResponse(r, missing, empties, full)
    <3>1. PICK done \in SettledByLoop(r, missing) :
            LET bad == report[r].bad \/ done # {}
                rep == [report[r] EXCEPT !.bad = bad]
            IN  /\ row' = Settle(done, "invalid", "other")
                /\ got' = got
                /\ buf' = [buf EXCEPT ![r] = @ \cup full] \/ buf' = buf
                /\ Proceed(r, rep) \/ Raise(r, rep)
        BY <2>5 DEF SparseResponse
    <3>2. row' \in [Days -> Row]
      <4>1. Settle(done, "invalid", "other") \in [Days -> Row]
          BY <1>row, OutcomesTyped
      <4> QED  BY <4>1, <3>1
    <3>3. buf' \in [Runs -> SUBSET Days]
        BY <1>sets, <3>1
    <3>4. pc' \in [Runs -> Phases] /\ report' \in [Runs -> Report]
      <4> DEFINE bad == report[r].bad \/ done # {}
      <4>1. bad \in BOOLEAN
          OBVIOUS
      <4>2. \A b \in BOOLEAN : [report[r] EXCEPT !.bad = b] \in Report
          BY <1>rep, ReportTyped
      <4>3. Proceed(r, [report[r] EXCEPT !.bad = bad])
            \/ Raise(r, [report[r] EXCEPT !.bad = bad])
          BY <3>1
      <4> HIDE DEF bad
      <4> QED  BY <4>1, <4>2, <4>3, MovesTyped
    <3> QED  BY <1>9, <2>3, <3>1, <3>2, <3>3, <3>4 DEF HarvestDaily, TypeOK
  <2> QED  BY <2>1, <2>4, <2>5
<1>10. ASSUME NEW r \in Runs, CommitBuffer(r) PROVE TypeOK'
  <2>1. row' \in [Days -> Row]
    <3>1. Settle(buf[r], "success", "none") \in [Days -> Row]
        BY <1>row, OutcomesTyped
    <3> QED  BY <1>10, <3>1 DEF CommitBuffer
  <2>2. got' \in [Days -> SUBSET Defs] /\ buf' \in [Runs -> SUBSET Days]
      BY <1>10 DEF CommitBuffer, TypeOK
  <2>3. pc' \in [Runs -> Phases] /\ report' \in [Runs -> Report]
    <3>1. [report[r] EXCEPT !.success = TRUE] \in Report
        BY <1>rep, ReportTyped
    <3> QED  BY <1>10, <3>1, MovesTyped DEF CommitBuffer
  <2>4. history' \subseteq Modes \cup {"verified"} /\ incomplete' \in BOOLEAN
      BY <1>10 DEF CommitBuffer, TypeOK, LedgerAssumption
  <2> QED  BY <1>10, <2>1, <2>2, <2>3, <2>4 DEF CommitBuffer, TypeOK
<1>11. ASSUME NEW r \in Runs, CommitFails(r) PROVE TypeOK'
  <2>1. PICK done \in SettledByLoop(r, buf[r]) :
          LET bad == report[r].bad \/ done # {}
          IN  /\ row' = Settle(done, "failed", "other")
              /\ Raise(r, [report[r] EXCEPT !.bad = bad])
      BY <1>11 DEF CommitFails
  <2>2. row' \in [Days -> Row]
    <3>1. Settle(done, "failed", "other") \in [Days -> Row]
        BY <1>row, OutcomesTyped
    <3> QED  BY <2>1, <3>1
  <2>3. pc' \in [Runs -> Phases] /\ report' \in [Runs -> Report]
    <3> DEFINE bad == report[r].bad \/ done # {}
    <3>1. bad \in BOOLEAN
        OBVIOUS
    <3>2. \A b \in BOOLEAN : [report[r] EXCEPT !.bad = b] \in Report
        BY <1>rep, ReportTyped
    <3>3. Raise(r, [report[r] EXCEPT !.bad = bad])
        BY <2>1
    <3> HIDE DEF bad
    <3> QED  BY <3>1, <3>2, <3>3, MovesTyped
  <2>4. buf' \in [Runs -> SUBSET Days]
      BY <1>11, <1>sets DEF CommitFails
  <2> QED  BY <1>11, <2>2, <2>3, <2>4 DEF CommitFails, TypeOK
<1>12. ASSUME NEW r \in Runs, CancelRequested(r) PROVE TypeOK'
  <2>1. [report[r] EXCEPT !.cancelled = TRUE] \in Report
      BY <1>rep, ReportTyped
  <2>2. pc' \in [Runs -> Phases] /\ report' \in [Runs -> Report]
      BY <1>12, <2>1, MovesTyped DEF CancelRequested
  <2> QED  BY <1>12, <2>2 DEF CancelRequested, durable, TypeOK
<1>13. ASSUME NEW r \in Runs, Interrupt(r) PROVE TypeOK'
  <2>1. pc' \in [Runs -> Phases] /\ report' \in [Runs -> Report]
    <3>1. \E silent \in BOOLEAN : RaiseWith(r, report[r], silent)
        BY <1>13 DEF Interrupt, LedgerAssumption
    <3> QED  BY <3>1, <1>rep, MovesTyped
  <2> QED  BY <1>13, <2>1 DEF Interrupt, durable, TypeOK
<1>14. ASSUME NEW r \in Runs, EndFetches(r) PROVE TypeOK'
  <2>1. pc' \in [Runs -> Phases]
      BY <1>14, <1>pc DEF EndFetches, Phases, Leased
  <2> QED  BY <1>14, <2>1 DEF EndFetches, durable, TypeOK
<1>15. ASSUME NEW r \in Runs, FailBuffered(r) PROVE TypeOK'
  <2>1. PICK done :
          LET bad == report[r].bad \/ done # {}
          IN  /\ row' = Settle(done, "failed", "other")
              /\ report' = [report EXCEPT ![r] = [report[r] EXCEPT !.bad = bad]]
      BY <1>15 DEF FailBuffered
  <2>2. row' \in [Days -> Row]
    <3>1. Settle(done, "failed", "other") \in [Days -> Row]
        BY <1>row, OutcomesTyped
    <3> QED  BY <2>1, <3>1
  <2>3. report' \in [Runs -> Report]
    <3> DEFINE bad == report[r].bad \/ done # {}
    <3>1. bad \in BOOLEAN
        OBVIOUS
    <3>2. \A b \in BOOLEAN : [report[r] EXCEPT !.bad = b] \in Report
        BY <1>rep, ReportTyped
    <3>3. report' = [report EXCEPT ![r] = [report[r] EXCEPT !.bad = bad]]
        BY <2>1
    <3> HIDE DEF bad
    <3> QED  BY <3>1, <3>2, <3>3, <1>rep
  <2>4. pc' \in [Runs -> Phases] /\ buf' \in [Runs -> SUBSET Days]
      BY <1>15, <1>pc, <1>sets DEF FailBuffered, Phases, Leased
  <2> QED  BY <1>15, <2>2, <2>3, <2>4 DEF FailBuffered, TypeOK
<1>16. ASSUME NEW r \in Runs, FailRunning(r) PROVE TypeOK'
  <2>1. row' \in [Days -> Row]
    <3>1. Settle(Mine(r), "failed", "other") \in [Days -> Row]
        BY <1>row, OutcomesTyped
    <3> QED  BY <1>16, <3>1 DEF FailRunning
  <2>2. pc' \in [Runs -> Phases]
      BY <1>16, <1>pc DEF FailRunning, Phases, Leased
  <2> QED  BY <1>16, <2>1, <2>2 DEF FailRunning, TypeOK
<1>17. ASSUME NEW r \in Runs, CountRemaining(r) PROVE TypeOK'
  <2>1. report' \in [Runs -> Report]
    <3> DEFINE remaining == \E d \in Days : row[d].status \in {"pending", "failed"}
    <3>1. remaining \in BOOLEAN
        OBVIOUS
    <3>2. \A b \in BOOLEAN : [report[r] EXCEPT !.remaining = b] \in Report
        BY <1>rep, ReportTyped
    <3>3. report' = [report EXCEPT ![r] = [report[r] EXCEPT !.remaining = remaining]]
        BY <1>17 DEF CountRemaining
    <3> HIDE DEF remaining
    <3> QED  BY <3>1, <3>2, <3>3, <1>rep
  <2>2. pc' \in [Runs -> Phases]
      BY <1>17, <1>pc DEF CountRemaining, Phases, Leased
  <2> QED  BY <1>17, <2>1, <2>2 DEF CountRemaining, durable, TypeOK
<1>18. ASSUME NEW r \in Runs, FinalizeRun(r) PROVE TypeOK'
  <2>1. runs' \in [Runs -> RunStatus]
    <3>1. FinalStatus(report[r]) \in RunStatus
        BY FinalStatusTyped
    <3> QED  BY <1>18, <3>1 DEF FinalizeRun, TypeOK
  <2>2. pc' \in [Runs -> Phases]
      BY <1>18, <1>pc DEF FinalizeRun, Phases, Leased
  <2> QED  BY <1>18, <2>1, <2>2 DEF FinalizeRun, TypeOK
<1>19. ASSUME NEW r \in Runs, CompleteNode(r) PROVE TypeOK'
  <2>1. flag' \in SUBSET Flag /\ incomplete' \in BOOLEAN
    <3>1. spec \in Defs /\ flag \in SUBSET Flag /\ incomplete \in BOOLEAN
        BY DEF TypeOK
    <3>2. NextFlag(r) \in SUBSET Flag
        BY <3>1, NextFlagTyped
    <3>3. CASE Certifies(r)
        BY <1>19, <3>2, <3>3 DEF CompleteNode
    <3>4. CASE ~Certifies(r)
        BY <1>19, <3>1, <3>4 DEF CompleteNode
    <3> QED  BY <3>3, <3>4
  <2>2. pc' \in [Runs -> Phases]
      BY <1>19, <1>pc DEF CompleteNode, Phases, Leased
  <2> QED  BY <1>19, <2>1, <2>2 DEF CompleteNode, TypeOK
<1>20. ASSUME NEW r \in Runs, ReleaseLease(r) PROVE TypeOK'
  <2>1. lease' \in Runs \cup {NoRun}
      BY <1>20 DEF ReleaseLease, TypeOK
  <2>2. pc' \in [Runs -> Phases]
      BY <1>20, <1>pc DEF ReleaseLease, Phases, Leased
  <2>3. CASE Forget(r)
      BY <1>20, <2>1, <2>2, <2>3, ForgetTyped DEF ReleaseLease, TypeOK
  <2>4. CASE UNCHANGED <<seen, work, held, buf, report>>
      BY <1>20, <2>1, <2>2, <2>4 DEF ReleaseLease, TypeOK
  <2> QED  BY <1>20, <2>3, <2>4 DEF ReleaseLease
<1>21. ASSUME NEW r \in Runs, FinishInitialization(r) PROVE TypeOK'
  <2>1. init' \in InitRow
      BY <1>21 DEF FinishInitialization, InitRow, TypeOK
  <2>2. pc' \in [Runs -> Phases]
      BY <1>21, <1>pc DEF FinishInitialization, Phases
  <2> QED  BY <1>21, <2>1, <2>2, ForgetTyped DEF FinishInitialization, TypeOK
<1>22. ASSUME NEW h \in Defs, Register(h) PROVE TypeOK'
  <2>1. used' \in Used
      BY <1>22, <1>used, UsedTyped DEF Register
  <2> QED  BY <1>22, <2>1 DEF Register, volatile, Used, TypeOK
<1>23. ASSUME NEW S \in SUBSET Days, ResetScopes(S) PROVE TypeOK'
  <2>1. used' \in Used
      BY <1>23, <1>used, UsedTyped DEF ResetScopes
  <2>2. row' \in [Days -> Row]
    <3>1. \A T : Settle(T, "pending", "none") \in [Days -> Row]
        BY <1>row, OutcomesTyped
    <3> QED  BY <1>23, <3>1 DEF ResetScopes
  <2> QED  BY <1>23, <2>1, <2>2 DEF ResetScopes, volatile, Used, TypeOK
<1>24. ASSUME ReopenInitialization PROVE TypeOK'
  <2>1. used' \in Used
      BY <1>24, <1>used, UsedTyped DEF ReopenInitialization
  <2>2. row' \in [Days -> Row]
    <3>1. \A T : Settle(T, "pending", "none") \in [Days -> Row]
        BY <1>row, OutcomesTyped
    <3> QED  BY <1>24, <3>1 DEF ReopenInitialization
  <2>3. init' \in InitRow
      BY <1>24 DEF ReopenInitialization, InitRow, TypeOK
  <2> QED  BY <1>24, <2>1, <2>2, <2>3 DEF ReopenInitialization, volatile, Used, TypeOK
<1>25. ASSUME NEW r \in Runs, Crash(r) PROVE TypeOK'
  <2>1. used' \in Used
      BY <1>25, <1>used, UsedTyped DEF Crash
  <2>2. pc' \in [Runs -> Phases]
      BY <1>25, <1>pc DEF Crash, Phases
  <2> QED  BY <1>25, <2>1, <2>2, ForgetTyped DEF Crash, durable, Used, TypeOK
<1>26. ASSUME NEW o \in Owners, AbandonOwner(o) PROVE TypeOK'
  <2>1. row' \in [Days -> Row]
    <3>1. \A T : Settle(T, "failed", "other") \in [Days -> Row]
        BY <1>row, OutcomesTyped
    <3> QED  BY <1>26, <3>1 DEF AbandonOwner
  <2>2. runs' \in [Runs -> RunStatus]
      BY <1>26 DEF AbandonOwner, RunStatus, TypeOK
  <2>3. lease' \in Runs \cup {NoRun}
      BY <1>26 DEF AbandonOwner, TypeOK
  <2> QED  BY <1>26, <2>1, <2>2, <2>3 DEF AbandonOwner, volatile, TypeOK
<1>27. CASE UNCHANGED vars
    BY <1>27 DEF vars, durable, volatile, TypeOK
<1> QED
    BY <1>1, <1>2, <1>3, <1>4, <1>5, <1>6, <1>7, <1>8, <1>9, <1>10, <1>11,
       <1>12, <1>13, <1>14, <1>15, <1>16, <1>17, <1>18, <1>19, <1>20, <1>21,
       <1>22, <1>23, <1>24, <1>25, <1>26, <1>27
       DEF Next, Update, Advance, Fetch, Finish

\* The variables keep their shape (TypeOK) in every state of the ledger.
THEOREM TypeCorrect == Spec => []TypeOK
BY InitTyped, StepTyped, PTL DEF Spec

-----------------------------------------------------------------------------
(* Exclusion and accounting *)

\* A claim names the run that made it.
ClaimHasRun == \A d \in Days : row[d].status = "running" => row[d].run \in Runs

SafetyInv == /\ TypeOK
             /\ ClaimHasRun
             /\ ExclusiveUpdate
             /\ LiveClaimIsLeased
             /\ UpdateMarksIncomplete
             /\ ClaimsAccountedFor
-----------------------------------------------------------------------------
(* How a step can move runs and claims *)

\* Only the run r moves.
Aside(r) == \A s \in Runs \ {r} :
                /\ pc'[s] = pc[s] /\ held'[s] = held[s]
                /\ buf'[s] = buf[s] /\ report'[s] = report[s]
\* No row becomes "running".
ClaimsKept == \A d \in Days : row'[d].status = "running" => row'[d] = row[d]
\* A row that becomes "running" is claimed by r.
ClaimsBy(r) == \A d \in Days : row'[d].status = "running" =>
                                  row'[d] = row[d] \/ row'[d].run = r

\* Settling makes no claim.
LEMMA SettleKeepsClaims ==
    ASSUME row \in [Days -> Row], NEW S, NEW st, NEW why, st # "running",
           row' = Settle(S, st, why)
    PROVE  ClaimsKept
BY SettleAt DEF ClaimsKept

\* Neither does synchronizing.
LEMMA SynchronizeKeepsClaims ==
    ASSUME row \in [Days -> Row], NEW r \in Runs, NEW hash \in Defs,
           row' = Synchronized(r, hash)
    PROVE  ClaimsKept
BY SynchronizedRunning DEF ClaimsKept

\* Neither does leaving the rows.
LEMMA UnchangedKeepsClaims == ASSUME row' = row PROVE ClaimsKept
BY DEF ClaimsKept

\* Forgetting, proceeding and raising concern one run.
LEMMA ForgetAside ==
    ASSUME TypeOK, NEW r \in Runs, NEW ph, Forget(r), pc' = [pc EXCEPT ![r] = ph]
    PROVE  Aside(r)
BY DEF Forget, Aside, TypeOK

\* Going on or raising leaves the other runs.
LEMMA MovesAside ==
    ASSUME TypeOK, NEW r \in Runs, NEW rep \in Report, NEW silent \in BOOLEAN,
           Proceed(r, rep) \/ Raise(r, rep) \/ RaiseWith(r, rep, silent)
    PROVE  /\ \A s \in Runs \ {r} : pc'[s] = pc[s] /\ report'[s] = report[s]
           /\ \/ pc' = pc
              \/ pc'[r] = "failing" /\ report'[r].raised
<1>1. report \in [Runs -> Report] /\ pc \in [Runs -> Phases]
    BY DEF TypeOK
<1>2. CASE Proceed(r, rep)
    BY <1>1, <1>2 DEF Proceed
<1>3. ASSUME NEW c \in BOOLEAN, RaiseWith(r, rep, c)
      PROVE  /\ \A s \in Runs \ {r} : pc'[s] = pc[s] /\ report'[s] = report[s]
             /\ pc'[r] = "failing" /\ report'[r].raised
  <2>1. [rep EXCEPT !.raised = TRUE, !.fatal = ~c].raised
      BY DEF Report
  <2> QED  BY <1>1, <1>3, <2>1 DEF RaiseWith
<1> QED  BY <1>2, <1>3 DEF Raise
-----------------------------------------------------------------------------
(* What such steps leave intact *)

Returned == {"released", "done"}
Marked   == Leased \ {"leased", "finished"}

\* A step of r leaves the claims of the other runs accounted for.
LEMMA OthersAccounted ==
    ASSUME NEW r \in Runs, Aside(r), ClaimsBy(r), NEW s \in Runs \ {r}, Accounted(s)
    PROVE  Accounted(s)'
<1>1. Mine(s)' \subseteq Mine(s)
    BY DEF Mine, ClaimsBy
<1>2. /\ pc'[s] = pc[s] /\ held'[s] = held[s]
      /\ buf'[s] = buf[s] /\ report'[s] = report[s]
    BY DEF Aside
<1> QED  BY <1>1, <1>2 DEF Accounted

\* A step of r in its update section that keeps the lease.
LEMMA SectionStep ==
    ASSUME SafetyInv, TypeOK', NEW r \in Runs, Aside(r), lease' = lease,
           pc'[r] \in Leased => pc[r] \in Leased,
           pc'[r] \notin Returned => pc[r] \notin Returned,
           ClaimsKept \/ (ClaimsBy(r) /\ lease = r),
           \/ incomplete'
           \/ incomplete' = incomplete /\ (pc'[r] \in Marked => pc[r] \in Marked),
           Accounted(r)'
    PROVE  SafetyInv'
<1>1. ClaimsBy(r)
    BY DEF ClaimsKept, ClaimsBy
<1>2. \A s \in Runs \ {r} : pc'[s] = pc[s]
    BY DEF Aside
<1>3. ClaimHasRun'
    BY <1>1 DEF ClaimHasRun, ClaimsBy, SafetyInv
<1>4. ExclusiveUpdate'
    BY <1>2 DEF ExclusiveUpdate, SafetyInv
<1>5. LiveClaimIsLeased'
  <2>1. SUFFICES ASSUME NEW d \in Days, row'[d].status = "running",
                        pc'[row'[d].run] \notin Returned
                 PROVE  lease' = row'[d].run
      BY DEF LiveClaimIsLeased, Returned
  <2>2. CASE row'[d] = row[d]
    <3>1. row[d].run \in Runs
        BY <2>1, <2>2 DEF ClaimHasRun, SafetyInv
    <3>2. pc[row[d].run] \notin Returned
        BY <1>2, <2>1, <2>2, <3>1
    <3> QED  BY <2>1, <2>2, <3>2 DEF LiveClaimIsLeased, Returned, SafetyInv
  <2>3. CASE row'[d] # row[d]
      BY <2>1, <2>3 DEF ClaimsKept, ClaimsBy
  <2> QED  BY <2>2, <2>3
<1>6. UpdateMarksIncomplete'
    BY <1>2 DEF UpdateMarksIncomplete, Marked, SafetyInv
<1>7. ClaimsAccountedFor'
    BY <1>1, OthersAccounted DEF ClaimsAccountedFor, SafetyInv
<1> QED  BY <1>3, <1>4, <1>5, <1>6, <1>7 DEF SafetyInv

\* A step of the environment that makes no claim and keeps the lease.
LEMMA EnvironmentStep ==
    ASSUME SafetyInv, TypeOK', UNCHANGED volatile, lease' = lease, ClaimsKept,
           incomplete' \/ incomplete' = incomplete
    PROVE  SafetyInv'
<1>1. ClaimHasRun'
    BY DEF ClaimHasRun, ClaimsKept, SafetyInv
<1>2. ExclusiveUpdate'
    BY DEF ExclusiveUpdate, volatile, SafetyInv
<1>3. LiveClaimIsLeased'
    BY DEF LiveClaimIsLeased, ClaimsKept, volatile, SafetyInv
<1>4. UpdateMarksIncomplete'
    BY DEF UpdateMarksIncomplete, volatile, SafetyInv
<1>5. ClaimsAccountedFor'
  <2>1. ASSUME NEW s \in Runs PROVE Mine(s)' \subseteq Mine(s)
      BY DEF Mine, ClaimsKept
  <2> QED  BY <2>1 DEF ClaimsAccountedFor, Accounted, volatile, SafetyInv
<1> QED  BY <1>1, <1>2, <1>3, <1>4, <1>5 DEF SafetyInv
-----------------------------------------------------------------------------
(* The steps of the fetch loop *)

\* In the fetch loop an update either goes on with its claims accounted for
\* or fails.
LEMMA FetchStep ==
    ASSUME SafetyInv, TypeOK', NEW r \in Runs, pc[r] = "fetching",
           \A s \in Runs \ {r} : held'[s] = held[s] /\ buf'[s] = buf[s],
           \A s \in Runs \ {r} : pc'[s] = pc[s] /\ report'[s] = report[s],
           \/ pc' = pc
           \/ pc'[r] = "failing" /\ report'[r].raised,
           pc' = pc => Mine(r)' \subseteq (UNION held'[r]) \cup buf'[r],
           ClaimsBy(r), lease' = lease, incomplete' \/ incomplete' = incomplete
    PROVE  SafetyInv'
<1>1. lease = r
    BY DEF SafetyInv, ExclusiveUpdate, Leased
<1>2. Aside(r)
    BY DEF Aside
<1>3. pc'[r] \in {"fetching", "failing"}
    OBVIOUS
<1>4. Accounted(r)'
  <2>1. CASE pc' = pc
      BY <2>1 DEF Accounted, Ending
  <2>2. CASE pc'[r] = "failing" /\ report'[r].raised
      BY <2>2 DEF Accounted, Ending
  <2> QED  BY <2>1, <2>2
<1>5. pc[r] \in Leased /\ pc[r] \in Marked /\ pc'[r] \notin Returned /\ pc[r] \notin Returned
    BY <1>3 DEF Leased, Marked, Returned
<1> QED  BY <1>1, <1>2, <1>4, <1>5, SectionStep

\* Settling takes its days from the run and leaves it the others.
LEMMA SettleMine ==
    ASSUME row \in [Days -> Row], NEW r, NEW S, NEW st, NEW why, st # "running",
           row' = Settle(S, st, why)
    PROVE  Mine(r)' \subseteq Mine(r) \ S
BY SettleAt DEF Mine

\* A claimed request is held, or the run raises.
LEMMA ClaimSafe ==
    ASSUME SafetyInv, TypeOK', NEW r \in Runs, ClaimScopes(r) PROVE SafetyInv'
<1>row. row \in [Days -> Row]
    BY DEF SafetyInv, TypeOK
<1>sets. /\ held \in [Runs -> SUBSET SUBSET Days] /\ report[r] \in Report
         /\ TypeOK /\ pc \in [Runs -> Phases]
    BY DEF SafetyInv, TypeOK
<1>at. pc[r] = "fetching" /\ buf' = buf /\ lease' = lease /\ incomplete' = incomplete
    BY DEF ClaimScopes
<1>mine. Mine(r) \subseteq (UNION held[r]) \cup buf[r]
    BY <1>at DEF SafetyInv, ClaimsAccountedFor, Accounted
<1>1. PICK q, free :
        /\ row' = [d \in Days |->
                     IF d \in free
                     THEN [row[d] EXCEPT !.status = "running", !.run = r,
                                         !.tried = TRUE]
                     ELSE row[d]]
        /\ \/ /\ free = q
              /\ held' = [held EXCEPT ![r] = @ \cup {q}]
              /\ Proceed(r, report[r])
           \/ free = {} /\ UNCHANGED held /\ Proceed(r, report[r])
           \/ UNCHANGED held /\ Raise(r, report[r])
    BY DEF ClaimScopes
<1>2. ASSUME NEW d \in Days, d \in free PROVE row'[d].run = r
  <2>1. row[d] \in Row  BY <1>row
  <2> QED  BY <1>1, <1>2, <2>1 DEF Row
<1>3. \A d \in Days : d \notin free => row'[d] = row[d]
    BY <1>1
<1>4. ClaimsBy(r)
    BY <1>2, <1>3 DEF ClaimsBy
<1>5. Mine(r)' \subseteq Mine(r) \cup free
    BY <1>3 DEF Mine
<1>6. Proceed(r, report[r]) \/ Raise(r, report[r])
    BY <1>1
<1>7. /\ \A s \in Runs \ {r} : pc'[s] = pc[s] /\ report'[s] = report[s]
      /\ \/ pc' = pc
         \/ pc'[r] = "failing" /\ report'[r].raised
    BY <1>6, <1>sets, MovesAside
<1>8. \A s \in Runs \ {r} : held'[s] = held[s] /\ buf'[s] = buf[s]
    BY <1>1, <1>at, <1>sets
<1>9. ASSUME pc' = pc PROVE Mine(r)' \subseteq (UNION held'[r]) \cup buf'[r]
  <2>1. CASE free = q /\ held' = [held EXCEPT ![r] = @ \cup {q}]
    <3>1. held'[r] = held[r] \cup {q}
        BY <2>1, <1>sets
    <3> QED  BY <2>1, <3>1, <1>5, <1>mine, <1>at
  <2>2. CASE free = {} /\ UNCHANGED held
      BY <2>2, <1>5, <1>mine, <1>at
  <2>3. CASE Raise(r, report[r])
    <3>1. pc'[r] = "failing"
        BY <2>3, <1>sets DEF Raise, RaiseWith
    <3> QED  BY <3>1, <1>9, <1>at
  <2> QED  BY <1>1, <2>1, <2>2, <2>3
<1> QED  BY <1>at, <1>4, <1>7, <1>8, <1>9, FetchStep

\* The halves hold what the request held.
LEMMA SplitSafe ==
    ASSUME SafetyInv, TypeOK', NEW r \in Runs, SplitRequest(r) PROVE SafetyInv'
<1>1. /\ pc[r] = "fetching" /\ UNCHANGED <<durable, pc, buf, report>>
      /\ held \in [Runs -> SUBSET SUBSET Days]
    BY DEF SplitRequest, SafetyInv, TypeOK
<1>2. PICK q, low : /\ q \in held[r] /\ low \subseteq q
                    /\ held' = [held EXCEPT ![r] = (@ \ {q}) \cup {low, q \ low}]
  <2>1. \A q : {d \in q : Cardinality({e \in q : e < d}) < Cardinality(q) \div 2} \subseteq q
      OBVIOUS
  <2> QED  BY <2>1 DEF SplitRequest
<1>3. held'[r] = (held[r] \ {q}) \cup {low, q \ low}
    BY <1>1, <1>2
<1>4. ASSUME NEW d \in UNION held[r] PROVE d \in UNION held'[r]
  <2>1. PICK x \in held[r] : d \in x
      OBVIOUS
  <2>2. CASE x = q
    <3>1. low \in held'[r] /\ q \ low \in held'[r]
        BY <1>3
    <3> QED  BY <2>1, <2>2, <3>1
  <2>3. CASE x # q
    <3>1. x \in held'[r]
        BY <2>1, <2>3, <1>3
    <3> QED  BY <2>1, <3>1
  <2> QED  BY <2>2, <2>3
<1>5. ClaimsBy(r) /\ Mine(r)' = Mine(r) /\ lease' = lease /\ incomplete' = incomplete
    BY <1>1 DEF durable, ClaimsBy, Mine
<1>6. Mine(r) \subseteq (UNION held[r]) \cup buf[r]
    BY <1>1 DEF SafetyInv, ClaimsAccountedFor, Accounted
<1>7. Mine(r)' \subseteq (UNION held'[r]) \cup buf'[r]
    BY <1>1, <1>4, <1>5, <1>6
<1>8. \A s \in Runs \ {r} : /\ held'[s] = held[s] /\ buf'[s] = buf[s]
                            /\ pc'[s] = pc[s] /\ report'[s] = report[s]
    BY <1>1, <1>2
<1> QED  BY <1>1, <1>5, <1>7, <1>8, FetchStep

\* Going on or failing with a report of the right shape.
LEMMA MovesFetching ==
    ASSUME TypeOK, NEW r \in Runs, pc[r] = "fetching", NEW rep \in Report,
           Proceed(r, rep) \/ Raise(r, rep)
    PROVE  /\ \A s \in Runs \ {r} : pc'[s] = pc[s] /\ report'[s] = report[s]
           /\ \/ pc' = pc
              \/ pc'[r] = "failing" /\ report'[r].raised
           /\ Raise(r, rep) => pc' # pc
<1>1. Raise(r, rep) => pc'[r] = "failing"
    BY DEF Raise, RaiseWith, TypeOK
<1> QED  BY <1>1, MovesAside

\* A failed response settles all days of its request, or the run raises.
LEMMA HarvestFailureSafe ==
    ASSUME SafetyInv, TypeOK', NEW r \in Runs, HarvestFailure(r) PROVE SafetyInv'
<1>type. /\ TypeOK /\ row \in [Days -> Row] /\ report[r] \in Report
         /\ held \in [Runs -> SUBSET SUBSET Days]
    BY DEF SafetyInv, TypeOK
<1>at. pc[r] = "fetching" /\ buf' = buf /\ lease' = lease /\ incomplete' = incomplete
    BY DEF HarvestFailure
<1>mine. Mine(r) \subseteq (UNION held[r]) \cup buf[r]
    BY <1>at DEF SafetyInv, ClaimsAccountedFor, Accounted
<1>1. PICK q \in held[r], outcome \in {"failed", "cancelled"} \cup Reasons :
        FailedResponse(r, q, outcome)
    BY DEF HarvestFailure
<1>2. held' = [held EXCEPT ![r] = @ \ {q}]
    BY <1>1 DEF FailedResponse
<1>3. \/ row' = Settle(q, "invalid", outcome)
      \/ row' = Settle(q, "failed", "other")
      \/ row' = row
    BY <1>1 DEF FailedResponse
<1> DEFINE cancelled == report[r].cancelled \/ outcome = "cancelled"
           rep == [report[r] EXCEPT !.cancelled = cancelled]
<1>4. rep \in Report
  <2>1. cancelled \in BOOLEAN  OBVIOUS
  <2>2. \A b \in BOOLEAN : [report[r] EXCEPT !.cancelled = b] \in Report
      BY <1>type, ReportTyped
  <2> HIDE DEF cancelled
  <2> QED  BY <2>1, <2>2
<1>5. [rep EXCEPT !.bad = TRUE] \in Report
    BY <1>4, ReportTyped
<1>6. \/ Raise(r, rep)
      \/ Proceed(r, [rep EXCEPT !.bad = TRUE]) /\ row' = Settle(q, "invalid", outcome)
      \/ Proceed(r, [rep EXCEPT !.bad = TRUE]) /\ row' = Settle(q, "failed", "other")
    BY <1>1 DEF FailedResponse
<1> HIDE DEF rep
<1>7. /\ \A s \in Runs \ {r} : pc'[s] = pc[s] /\ report'[s] = report[s]
      /\ \/ pc' = pc
         \/ pc'[r] = "failing" /\ report'[r].raised
      /\ Raise(r, rep) => pc' # pc
  <2>1. CASE Raise(r, rep)
      BY <2>1, <1>type, <1>at, <1>4, MovesFetching
  <2>2. CASE Proceed(r, [rep EXCEPT !.bad = TRUE]) /\ ~Raise(r, rep)
      BY <2>2, <1>type, <1>at, <1>5, MovesFetching
  <2> QED  BY <1>6, <2>1, <2>2
<1>8. ClaimsBy(r)
    BY <1>3, <1>type, SettleKeepsClaims, UnchangedKeepsClaims DEF ClaimsKept, ClaimsBy
<1>9. ASSUME pc' = pc PROVE Mine(r)' \subseteq (UNION held'[r]) \cup buf'[r]
  <2>1. row' = Settle(q, "invalid", outcome) \/ row' = Settle(q, "failed", "other")
      BY <1>3, <1>6, <1>7, <1>9
  <2>2. Mine(r)' \subseteq Mine(r) \ q
      BY <2>1, <1>type, SettleMine
  <2>3. held'[r] = held[r] \ {q}
      BY <1>2, <1>type
  <2> QED  BY <2>2, <2>3, <1>mine, <1>at
<1>10. \A s \in Runs \ {r} : held'[s] = held[s] /\ buf'[s] = buf[s]
    BY <1>2, <1>at, <1>type
<1> QED  BY <1>at, <1>7, <1>8, <1>9, <1>10, FetchStep

\* The days of a response are settled or buffered, or the run raises.
LEMMA HarvestDailySafe ==
    ASSUME SafetyInv, TypeOK', NEW r \in Runs, HarvestDaily(r) PROVE SafetyInv'
<1>type. /\ TypeOK /\ row \in [Days -> Row] /\ report[r] \in Report
         /\ held \in [Runs -> SUBSET SUBSET Days] /\ buf \in [Runs -> SUBSET Days]
    BY DEF SafetyInv, TypeOK
<1>at. pc[r] = "fetching" /\ lease' = lease /\ incomplete' = incomplete
    BY DEF HarvestDaily
<1>mine. Mine(r) \subseteq (UNION held[r]) \cup buf[r]
    BY <1>at DEF SafetyInv, ClaimsAccountedFor, Accounted
<1>1. PICK q \in held[r], full \in SUBSET Days :
        /\ full \subseteq q
        /\ held' = [held EXCEPT ![r] = @ \ {q}]
        /\ \/ /\ (q \ full) \cap Required = {}
              /\ EmptyResponse(r, (q \ full) \ Required, full)
           \/ SparseResponse(r, (q \ full) \cap Required, (q \ full) \ Required, full)
    BY <1>type DEF HarvestDaily
<1>2. held'[r] = held[r] \ {q} /\ \A s \in Runs \ {r} : held'[s] = held[s]
    BY <1>1, <1>type
<1>3. ASSUME NEW settled, Mine(r)' \subseteq Mine(r) \ settled,
             buf'[r] = buf[r] \cup full, q \subseteq settled \cup full
      PROVE  Mine(r)' \subseteq (UNION held'[r]) \cup buf'[r]
  <2>1. ASSUME NEW d \in Mine(r)' PROVE d \in (UNION held'[r]) \cup buf'[r]
    <3>1. d \in (UNION held[r]) \cup buf[r] /\ d \notin settled
        BY <2>1, <1>3, <1>mine
    <3>2. CASE d \in q
        BY <3>1, <3>2, <1>3
    <3>3. CASE d \notin q
        BY <3>1, <3>3, <1>2, <1>3
    <3> QED  BY <3>2, <3>3
  <2> QED  BY <2>1
<1>4. CASE /\ (q \ full) \cap Required = {}
           /\ EmptyResponse(r, (q \ full) \ Required, full)
  <2> DEFINE empties == (q \ full) \ Required
             empty == report[r].empty \/ empties # {}
             rep == [report[r] EXCEPT !.empty = empty]
  <2>1. q \subseteq empties \cup full
      BY <1>4
  <2>2. rep \in Report
    <3>1. empty \in BOOLEAN  OBVIOUS
    <3>2. \A b \in BOOLEAN : [report[r] EXCEPT !.empty = b] \in Report
        BY <1>type, ReportTyped
    <3> HIDE DEF empty
    <3> QED  BY <3>1, <3>2
  <2>3. EmptyResponse(r, empties, full)
      BY <1>4
  <2> HIDE DEF empties
  <2>4. \/ /\ row' = Settle(empties, "empty", "none")
           /\ buf' = [buf EXCEPT ![r] = @ \cup full]
           /\ Proceed(r, rep)
        \/ /\ UNCHANGED <<row, buf>>
           /\ Raise(r, report[r])
      BY <2>3 DEF EmptyResponse
  <2> HIDE DEF rep
  <2>5. CASE /\ row' = Settle(empties, "empty", "none")
             /\ buf' = [buf EXCEPT ![r] = @ \cup full]
             /\ Proceed(r, rep)
    <3>1. ClaimsBy(r) /\ Mine(r)' \subseteq Mine(r) \ empties
        BY <2>5, <1>type, SettleKeepsClaims, SettleMine DEF ClaimsKept, ClaimsBy
    <3>2. buf'[r] = buf[r] \cup full /\ \A s \in Runs \ {r} : buf'[s] = buf[s]
        BY <2>5, <1>type
    <3>3. Mine(r)' \subseteq (UNION held'[r]) \cup buf'[r]
        BY <1>3, <2>1, <3>1, <3>2
    <3>4. /\ \A s \in Runs \ {r} : pc'[s] = pc[s] /\ report'[s] = report[s]
          /\ \/ pc' = pc
             \/ pc'[r] = "failing" /\ report'[r].raised
        BY <2>5, <2>2, <1>type, <1>at, MovesFetching
    <3> QED  BY <1>at, <1>2, <3>1, <3>2, <3>3, <3>4, FetchStep
  <2>6. CASE UNCHANGED <<row, buf>> /\ Raise(r, report[r])
    <3>1. ClaimsBy(r)
        BY <2>6 DEF ClaimsBy
    <3>2. /\ \A s \in Runs \ {r} : pc'[s] = pc[s] /\ report'[s] = report[s]
          /\ \/ pc' = pc
             \/ pc'[r] = "failing" /\ report'[r].raised
          /\ pc' # pc
        BY <2>6, <1>type, <1>at, MovesFetching
    <3> QED  BY <1>at, <1>2, <2>6, <3>1, <3>2, FetchStep
  <2> QED  BY <2>4, <2>5, <2>6
<1>5. CASE SparseResponse(r, (q \ full) \cap Required, (q \ full) \ Required, full)
  <2> DEFINE missing == (q \ full) \cap Required
             empties == (q \ full) \ Required
  <2>0. q \subseteq missing \cup empties \cup full
      OBVIOUS
  <2>1. SparseResponse(r, missing, empties, full)
      BY <1>5
  <2> HIDE DEF missing, empties
  <2>2. PICK done :
          LET bad == report[r].bad \/ done # {}
              rep == [report[r] EXCEPT !.bad = bad]
          IN  /\ row' = Settle(done, "invalid", "other")
              /\ \/ /\ done = missing /\ empties = {}
                    /\ buf' = [buf EXCEPT ![r] = @ \cup full]
                    /\ Proceed(r, rep)
                 \/ buf' = buf /\ Raise(r, rep)
      BY <2>1 DEF SparseResponse
  <2> DEFINE bad == report[r].bad \/ done # {}
             rep == [report[r] EXCEPT !.bad = bad]
  <2>3. rep \in Report
    <3>1. bad \in BOOLEAN  OBVIOUS
    <3>2. \A b \in BOOLEAN : [report[r] EXCEPT !.bad = b] \in Report
        BY <1>type, ReportTyped
    <3> HIDE DEF bad
    <3> QED  BY <3>1, <3>2
  <2>4. /\ row' = Settle(done, "invalid", "other")
        /\ \/ /\ done = missing /\ empties = {}
              /\ buf' = [buf EXCEPT ![r] = @ \cup full]
              /\ Proceed(r, rep)
           \/ buf' = buf /\ Raise(r, rep)
      BY <2>2
  <2> HIDE DEF rep
  <2>5. ClaimsBy(r) /\ Mine(r)' \subseteq Mine(r) \ done
      BY <2>4, <1>type, SettleKeepsClaims, SettleMine DEF ClaimsKept, ClaimsBy
  <2>6. /\ \A s \in Runs \ {r} : pc'[s] = pc[s] /\ report'[s] = report[s]
        /\ \/ pc' = pc
           \/ pc'[r] = "failing" /\ report'[r].raised
        /\ Raise(r, rep) => pc' # pc
      BY <2>3, <2>4, <1>type, <1>at, MovesFetching
  <2>7. \A s \in Runs \ {r} : buf'[s] = buf[s]
      BY <2>4, <1>type
  <2>8. ASSUME pc' = pc PROVE Mine(r)' \subseteq (UNION held'[r]) \cup buf'[r]
    <3>1. done = missing /\ empties = {} /\ buf' = [buf EXCEPT ![r] = @ \cup full]
        BY <2>4, <2>6, <2>8
    <3>2. buf'[r] = buf[r] \cup full
        BY <3>1, <1>type
    <3> QED  BY <1>3, <2>0, <2>5, <3>1, <3>2
  <2> QED  BY <1>at, <1>2, <2>5, <2>6, <2>7, <2>8, FetchStep
<1> QED  BY <1>1, <1>4, <1>5

\* A committed buffer is settled.
LEMMA CommitBufferSafe ==
    ASSUME SafetyInv, TypeOK', NEW r \in Runs, CommitBuffer(r) PROVE SafetyInv'
<1>type. /\ TypeOK /\ row \in [Days -> Row] /\ report[r] \in Report
         /\ buf \in [Runs -> SUBSET Days]
    BY DEF SafetyInv, TypeOK
<1>at. /\ pc[r] = "fetching" /\ lease' = lease /\ held' = held
       /\ incomplete' \/ incomplete' = incomplete
       /\ row' = Settle(buf[r], "success", "none")
       /\ buf' = [buf EXCEPT ![r] = {}]
       /\ Proceed(r, [report[r] EXCEPT !.success = TRUE])
    BY DEF CommitBuffer
<1>1. ClaimsBy(r) /\ Mine(r)' \subseteq Mine(r) \ buf[r]
    BY <1>at, <1>type, SettleKeepsClaims, SettleMine DEF ClaimsKept, ClaimsBy
<1>2. Mine(r) \subseteq (UNION held[r]) \cup buf[r]
    BY <1>at DEF SafetyInv, ClaimsAccountedFor, Accounted
<1>3. Mine(r)' \subseteq (UNION held'[r]) \cup buf'[r]
  <2>1. ASSUME NEW d \in Mine(r)' PROVE d \in (UNION held[r])
      BY <2>1, <1>1, <1>2
  <2> QED  BY <2>1, <1>at
<1>4. [report[r] EXCEPT !.success = TRUE] \in Report
    BY <1>type, ReportTyped
<1>5. /\ \A s \in Runs \ {r} : pc'[s] = pc[s] /\ report'[s] = report[s]
      /\ \/ pc' = pc
         \/ pc'[r] = "failing" /\ report'[r].raised
    BY <1>at, <1>type, <1>4, MovesFetching
<1>6. \A s \in Runs \ {r} : held'[s] = held[s] /\ buf'[s] = buf[s]
    BY <1>at, <1>type
<1> QED  BY <1>at, <1>1, <1>3, <1>5, <1>6, FetchStep

\* A failed commit raises.
LEMMA CommitFailsSafe ==
    ASSUME SafetyInv, TypeOK', NEW r \in Runs, CommitFails(r) PROVE SafetyInv'
<1>type. /\ TypeOK /\ row \in [Days -> Row] /\ report[r] \in Report
         /\ buf \in [Runs -> SUBSET Days]
    BY DEF SafetyInv, TypeOK
<1>at. /\ pc[r] = "fetching" /\ lease' = lease /\ held' = held
       /\ incomplete' = incomplete /\ buf' = [buf EXCEPT ![r] = {}]
    BY DEF CommitFails
<1>1. PICK done :
        LET bad == report[r].bad \/ done # {}
        IN  /\ row' = Settle(done, "failed", "other")
            /\ Raise(r, [report[r] EXCEPT !.bad = bad])
    BY DEF CommitFails
<1> DEFINE bad == report[r].bad \/ done # {}
           rep == [report[r] EXCEPT !.bad = bad]
<1>2. rep \in Report
  <2>1. bad \in BOOLEAN  OBVIOUS
  <2>2. \A b \in BOOLEAN : [report[r] EXCEPT !.bad = b] \in Report
      BY <1>type, ReportTyped
  <2> HIDE DEF bad
  <2> QED  BY <2>1, <2>2
<1>3. row' = Settle(done, "failed", "other") /\ Raise(r, rep)
    BY <1>1
<1> HIDE DEF rep
<1>4. ClaimsBy(r)
    BY <1>3, <1>type, SettleKeepsClaims DEF ClaimsKept, ClaimsBy
<1>5. /\ \A s \in Runs \ {r} : pc'[s] = pc[s] /\ report'[s] = report[s]
      /\ \/ pc' = pc
         \/ pc'[r] = "failing" /\ report'[r].raised
      /\ pc' # pc
    BY <1>at, <1>2, <1>3, <1>type, MovesFetching
<1>6. \A s \in Runs \ {r} : held'[s] = held[s] /\ buf'[s] = buf[s]
    BY <1>at, <1>type
<1> QED  BY <1>at, <1>4, <1>5, <1>6, FetchStep

\* A cancellation leaves claims and requests.
LEMMA CancelSafe ==
    ASSUME SafetyInv, TypeOK', NEW r \in Runs, CancelRequested(r) PROVE SafetyInv'
<1>1. /\ TypeOK /\ report[r] \in Report
      /\ pc[r] = "fetching" /\ held' = held /\ buf' = buf
      /\ row' = row /\ lease' = lease /\ incomplete' = incomplete
    BY DEF SafetyInv, TypeOK, CancelRequested, durable
<1>2. [report[r] EXCEPT !.cancelled = TRUE] \in Report
    BY <1>1, ReportTyped
<1>3. /\ \A s \in Runs \ {r} : pc'[s] = pc[s] /\ report'[s] = report[s]
      /\ \/ pc' = pc
         \/ pc'[r] = "failing" /\ report'[r].raised
    BY <1>1, <1>2, MovesFetching DEF CancelRequested
<1>4. ClaimsBy(r) /\ Mine(r)' \subseteq (UNION held'[r]) \cup buf'[r]
    BY <1>1 DEF ClaimsBy, Mine, SafetyInv, ClaimsAccountedFor, Accounted
<1> QED  BY <1>1, <1>3, <1>4, FetchStep

\* So does an interruption, which raises.
LEMMA InterruptSafe ==
    ASSUME SafetyInv, TypeOK', NEW r \in Runs, Interrupt(r) PROVE SafetyInv'
<1>1. /\ TypeOK /\ report[r] \in Report
      /\ pc[r] = "fetching" /\ held' = held /\ buf' = buf
      /\ row' = row /\ lease' = lease /\ incomplete' = incomplete
    BY DEF SafetyInv, TypeOK, Interrupt, durable
<1>2. PICK silent \in BOOLEAN : RaiseWith(r, report[r], silent)
    BY DEF Interrupt
<1>3. /\ \A s \in Runs \ {r} : pc'[s] = pc[s] /\ report'[s] = report[s]
      /\ \/ pc' = pc
         \/ pc'[r] = "failing" /\ report'[r].raised
    BY <1>1, <1>2, MovesAside
<1>4. ClaimsBy(r) /\ Mine(r)' \subseteq (UNION held[r]) \cup buf[r]
    BY <1>1 DEF ClaimsBy, Mine, SafetyInv, ClaimsAccountedFor, Accounted
<1> QED  BY <1>1, <1>3, <1>4, FetchStep
-----------------------------------------------------------------------------
(* The other steps of an update *)

\* Planning and refusal: outside the update section.
LEMMA PlanningSafe ==
    ASSUME SafetyInv, TypeOK', NEW r \in Runs,
           ReadDeclaration(r) \/ SynchronizeRequests(r) \/ RefuseLease(r)
    PROVE  SafetyInv'
<1>type. TypeOK /\ row \in [Days -> Row] /\ pc \in [Runs -> Phases] /\ spec \in Defs
    BY DEF SafetyInv, TypeOK
<1>1. CASE ReadDeclaration(r)
  <2>1. /\ Aside(r) /\ ClaimsKept /\ lease' = lease /\ incomplete' = incomplete
        /\ pc[r] = "idle" /\ pc'[r] \in {"discovering", "done"}
      BY <1>1, <1>type DEF ReadDeclaration, Aside, ClaimsKept
  <2> QED  BY <2>1, SectionStep
           DEF Accounted, Ending, Leased, Marked, Returned
<1>2. CASE SynchronizeRequests(r)
  <2>1. ClaimsKept
      BY <1>2, <1>type, SynchronizeKeepsClaims DEF SynchronizeRequests
  <2>2. /\ Aside(r) /\ lease' = lease /\ incomplete' = incomplete
        /\ pc[r] = "discovering" /\ pc'[r] = "planned"
      BY <1>2, <1>type DEF SynchronizeRequests, Aside
  <2> QED  BY <2>1, <2>2, SectionStep
           DEF Accounted, Ending, Leased, Marked, Returned
<1>3. CASE RefuseLease(r)
  <2>1. Aside(r)
      BY <1>3, <1>type, ForgetAside DEF RefuseLease
  <2>2. /\ ClaimsKept /\ lease' = lease /\ incomplete' = incomplete
        /\ pc[r] = "planned" /\ pc'[r] = "done"
      BY <1>3, <1>type DEF RefuseLease, durable, ClaimsKept
  <2> QED  BY <2>1, <2>2, SectionStep
           DEF Accounted, Ending, Leased, Marked, Returned
<1> QED  BY <1>1, <1>2, <1>3

\* The lease is only taken when no run holds it: whoever is in its section
\* would hold it, and so would the owner of any live claim.
LEMMA AcquireSafe ==
    ASSUME SafetyInv, TypeOK', NEW r \in Runs, AcquireLease(r) PROVE SafetyInv'
<1>at. /\ pc[r] = "planned" /\ lease = NoRun /\ lease' = r /\ row' = row
       /\ pc' = [pc EXCEPT ![r] = "leased"] /\ incomplete' = incomplete
       /\ held' = held /\ buf' = buf /\ report' = report
       /\ pc \in [Runs -> Phases]
    BY DEF AcquireLease, SafetyInv, TypeOK
<1>1. pc'[r] = "leased" /\ \A s \in Runs \ {r} : pc'[s] = pc[s]
    BY <1>at
<1>2. \A s \in Runs : pc[s] \notin Leased
    BY <1>at DEF SafetyInv, ExclusiveUpdate, LedgerAssumption
<1>3. \A d \in Days : row[d].status = "running" => pc[row[d].run] \in Returned
    BY <1>at DEF SafetyInv, LiveClaimIsLeased, ClaimHasRun, Returned, LedgerAssumption
<1>4. Mine(r) = {}
    BY <1>at, <1>3 DEF Mine, Returned
<1>5. ClaimHasRun'
    BY <1>at DEF ClaimHasRun, SafetyInv
<1>6. ExclusiveUpdate'
    BY <1>at, <1>1, <1>2 DEF ExclusiveUpdate
<1>7. LiveClaimIsLeased'
  <2> SUFFICES ASSUME NEW d \in Days, row[d].status = "running",
                      pc'[row[d].run] \notin Returned
               PROVE  row[d].run = r
      BY <1>at DEF LiveClaimIsLeased, Returned
  <2>1. row[d].run \in Runs
      BY DEF SafetyInv, ClaimHasRun
  <2> QED  BY <1>1, <1>3, <2>1
<1>8. UpdateMarksIncomplete'
    BY <1>1, <1>at DEF UpdateMarksIncomplete, SafetyInv
<1>9. ClaimsAccountedFor'
  <2>1. Accounted(r)'
      BY <1>1, <1>4, <1>at DEF Accounted, Ending, Mine
  <2>2. ASSUME NEW s \in Runs \ {r} PROVE Accounted(s)'
    <3>1. Aside(r) /\ ClaimsBy(r) /\ Accounted(s)
        BY <1>1, <1>at DEF Aside, ClaimsBy, SafetyInv, ClaimsAccountedFor
    <3> QED  BY <3>1, OthersAccounted
  <2> QED  BY <2>1, <2>2 DEF ClaimsAccountedFor
<1> QED  BY <1>5, <1>6, <1>7, <1>8, <1>9 DEF SafetyInv

\* From begin_run to the run row: the steps before the flag.
LEMMA FinishingSafe ==
    ASSUME SafetyInv, TypeOK', NEW r \in Runs,
           \/ BeginRun(r) \/ EndFetches(r) \/ FailBuffered(r)
           \/ FailRunning(r) \/ CountRemaining(r) \/ FinalizeRun(r)
    PROVE  SafetyInv'
<1>type. /\ row \in [Days -> Row] /\ pc \in [Runs -> Phases]
         /\ report \in [Runs -> Report] /\ buf \in [Runs -> SUBSET Days]
    BY DEF SafetyInv, TypeOK
<1>mine. Accounted(r)
    BY DEF SafetyInv, ClaimsAccountedFor
<1>1. CASE BeginRun(r)
  <2>1. /\ Aside(r) /\ ClaimsKept /\ lease' = lease /\ incomplete' /\ row' = row
        /\ pc[r] = "leased"
      BY <1>1, <1>type DEF BeginRun, Aside, ClaimsKept
  <2>2. \/ pc'[r] = "fetching"
        \/ pc'[r] = "finished" /\ report'[r].raised
      BY <1>1, <1>type DEF BeginRun, Report
  <2>3. Mine(r)' = {}
      BY <2>1, <1>mine DEF Accounted, Mine
  <2>4. Accounted(r)'
      BY <2>2, <2>3 DEF Accounted, Ending
  <2> QED  BY <2>1, <2>2, <2>4, SectionStep DEF Leased, Returned
<1>2. CASE EndFetches(r)
  <2>1. /\ Aside(r) /\ ClaimsKept /\ lease' = lease /\ incomplete' = incomplete
        /\ row' = row /\ report' = report /\ pc[r] = "fetching" /\ buf[r] = {}
      BY <1>2, <1>type DEF EndFetches, durable, Aside, ClaimsKept
  <2>2. \/ pc'[r] = "failrunning"
        \/ pc'[r] = "finishing" /\ held[r] = {}
      BY <1>2, <1>type DEF EndFetches
  <2>3. Mine(r)' = Mine(r)
      BY <2>1 DEF Mine
  <2>4. pc'[r] = "finishing" => Mine(r)' = {}
      BY <2>1, <2>2, <2>3, <1>mine DEF Accounted
  <2>5. Accounted(r)'
      BY <2>2, <2>4 DEF Accounted, Ending
  <2> QED  BY <2>1, <2>2, <2>5, SectionStep DEF Leased, Marked, Returned
<1>3. CASE FailBuffered(r)
  <2>1. PICK done : row' = Settle(done, "failed", "other")
      BY <1>3 DEF FailBuffered
  <2>2. ClaimsKept
      BY <2>1, <1>type, SettleKeepsClaims
  <2>3. /\ Aside(r) /\ lease' = lease /\ incomplete' = incomplete
        /\ pc[r] = "failing" /\ pc'[r] \in {"failrunning", "finishing"}
      BY <1>3, <1>type DEF FailBuffered, Aside
  <2>4. report'[r].raised
    <3>1. report[r].raised /\ report[r] \in Report
        BY <2>3, <1>mine, <1>type DEF Accounted
    <3>2. \E b : report'[r] = [report[r] EXCEPT !.bad = b]
        BY <1>3, <1>type DEF FailBuffered
    <3> QED  BY <3>1, <3>2 DEF Report
  <2>5. Accounted(r)'
      BY <2>3, <2>4 DEF Accounted, Ending
  <2> QED  BY <2>2, <2>3, <2>5, SectionStep DEF Leased, Marked, Returned
<1>4. CASE FailRunning(r)
  <2>1. ClaimsKept /\ Mine(r)' = {}
      BY <1>4, <1>type, SettleKeepsClaims, SettleMine DEF FailRunning
  <2>2. /\ Aside(r) /\ lease' = lease /\ incomplete' = incomplete
        /\ pc[r] = "failrunning" /\ pc'[r] = "finishing"
      BY <1>4, <1>type DEF FailRunning, Aside
  <2>3. Accounted(r)'
      BY <2>1, <2>2 DEF Accounted, Ending
  <2> QED  BY <2>1, <2>2, <2>3, SectionStep DEF Leased, Marked, Returned
<1>5. CASE CountRemaining(r)
  <2>1. /\ Aside(r) /\ ClaimsKept /\ lease' = lease /\ incomplete' = incomplete
        /\ row' = row /\ pc[r] = "finishing" /\ pc'[r] = "counted"
      BY <1>5, <1>type DEF CountRemaining, durable, Aside, ClaimsKept
  <2>2. report'[r].raised = report[r].raised
    <3>1. \E b : report'[r] = [report[r] EXCEPT !.remaining = b]
        BY <1>5, <1>type DEF CountRemaining
    <3> QED  BY <3>1, <1>type DEF Report
  <2>3. Accounted(r)'
      BY <2>1, <2>2, <1>mine DEF Accounted, Ending, Mine
  <2> QED  BY <2>1, <2>3, SectionStep DEF Leased, Marked, Returned
<1>6. CASE FinalizeRun(r)
  <2>1. /\ Aside(r) /\ ClaimsKept /\ lease' = lease /\ incomplete' = incomplete
        /\ row' = row /\ report' = report
        /\ pc[r] = "counted" /\ pc'[r] = "finalized"
      BY <1>6, <1>type DEF FinalizeRun, Aside, ClaimsKept
  <2>2. Accounted(r)'
      BY <2>1, <1>mine DEF Accounted, Ending, Mine
  <2> QED  BY <2>1, <2>2, SectionStep DEF Leased, Marked, Returned
<1> QED  BY <1>1, <1>2, <1>3, <1>4, <1>5, <1>6

\* Certifying clears the mark; no other run can be between begin_run and its
\* own certification.
LEMMA CompleteSafe ==
    ASSUME SafetyInv, TypeOK', NEW r \in Runs, CompleteNode(r) PROVE SafetyInv'
<1>at. /\ pc[r] = "finalized" /\ pc' = [pc EXCEPT ![r] = "finished"]
       /\ row' = row /\ lease' = lease /\ held' = held /\ buf' = buf
       /\ report' = report /\ pc \in [Runs -> Phases]
    BY DEF CompleteNode, SafetyInv, TypeOK
<1>1. pc'[r] = "finished" /\ \A s \in Runs \ {r} : pc'[s] = pc[s]
    BY <1>at
<1>2. lease = r
    BY <1>at DEF SafetyInv, ExclusiveUpdate, Leased
<1>3. ClaimHasRun'
    BY <1>at DEF ClaimHasRun, SafetyInv
<1>4. ExclusiveUpdate'
    BY <1>1, <1>2, <1>at DEF ExclusiveUpdate, SafetyInv
<1>5. LiveClaimIsLeased'
  <2> SUFFICES ASSUME NEW d \in Days, row[d].status = "running",
                      pc'[row[d].run] \notin Returned
               PROVE  lease = row[d].run
      BY <1>at DEF LiveClaimIsLeased, Returned
  <2>1. row[d].run \in Runs
      BY DEF SafetyInv, ClaimHasRun
  <2>2. pc[row[d].run] \notin Returned
      BY <1>1, <1>at, <2>1 DEF Returned
  <2> QED  BY <2>2 DEF SafetyInv, LiveClaimIsLeased, Returned
<1>6. UpdateMarksIncomplete'
  <2>1. \A s \in Runs : pc'[s] \notin Marked
      BY <1>1, <1>2 DEF SafetyInv, ExclusiveUpdate, Marked
  <2> QED  BY <2>1 DEF UpdateMarksIncomplete, Marked
<1>7. ClaimsAccountedFor'
  <2>1. Accounted(r)'
      BY <1>1, <1>at DEF Accounted, Ending, Mine, SafetyInv, ClaimsAccountedFor
  <2>2. ASSUME NEW s \in Runs \ {r} PROVE Accounted(s)'
    <3>1. Aside(r) /\ ClaimsBy(r) /\ Accounted(s)
        BY <1>1, <1>at DEF Aside, ClaimsBy, SafetyInv, ClaimsAccountedFor
    <3> QED  BY <3>1, OthersAccounted
  <2> QED  BY <2>1, <2>2 DEF ClaimsAccountedFor
<1> QED  BY <1>3, <1>4, <1>5, <1>6, <1>7 DEF SafetyInv

\* An update that gives the lease back has no claim left unless it raised,
\* and a run that raised has returned.
LEMMA ReleaseSafe ==
    ASSUME SafetyInv, TypeOK', NEW r \in Runs, ReleaseLease(r) PROVE SafetyInv'
<1>type. TypeOK /\ pc \in [Runs -> Phases] /\ row' = row /\ incomplete' = incomplete
    BY DEF ReleaseLease, SafetyInv, TypeOK
<1>at. pc[r] = "finished" /\ lease = r /\ lease' = NoRun
    BY DEF ReleaseLease, SafetyInv, ExclusiveUpdate, Leased
<1>1. /\ Aside(r)
      /\ \/ report[r].raised /\ pc'[r] = "done"
         \/ ~report[r].raised /\ pc'[r] = "released"
  <2>1. CASE report[r].raised
    <3>1. pc' = [pc EXCEPT ![r] = "done"] /\ Forget(r)
        BY <2>1 DEF ReleaseLease
    <3> QED  BY <2>1, <3>1, <1>type, ForgetAside
  <2>2. CASE ~report[r].raised
    <3>1. /\ pc' = [pc EXCEPT ![r] = "released"]
          /\ held' = held /\ buf' = buf /\ report' = report
        BY <2>2 DEF ReleaseLease
    <3> QED  BY <2>2, <3>1, <1>type DEF Aside
  <2> QED  BY <2>1, <2>2
<1>2. \A s \in Runs \ {r} : pc'[s] = pc[s]
    BY <1>1 DEF Aside
<1>3. ClaimHasRun'
    BY <1>type DEF ClaimHasRun, SafetyInv
<1>4. ExclusiveUpdate'
  <2>1. \A s \in Runs : pc'[s] \notin Leased
      BY <1>1, <1>2, <1>at DEF SafetyInv, ExclusiveUpdate, Leased
  <2> QED  BY <2>1 DEF ExclusiveUpdate
<1>5. LiveClaimIsLeased'
  <2>1. ASSUME NEW d \in Days, row[d].status = "running"
        PROVE  pc'[row[d].run] \in Returned
    <3>1. row[d].run \in Runs
        BY <2>1 DEF SafetyInv, ClaimHasRun
    <3>2. CASE row[d].run = r
        BY <3>2, <1>1 DEF Returned
    <3>3. CASE row[d].run # r
        BY <2>1, <3>1, <3>3, <1>2, <1>at DEF SafetyInv, LiveClaimIsLeased, Returned
    <3> QED  BY <3>2, <3>3
  <2> QED  BY <2>1, <1>type DEF LiveClaimIsLeased, Returned
<1>6. UpdateMarksIncomplete'
    BY <1>1, <1>2, <1>type DEF SafetyInv, UpdateMarksIncomplete, Leased
<1>7. ClaimsAccountedFor'
  <2>1. Accounted(r)'
    <3>1. ~report[r].raised => Mine(r)' = {}
        BY <1>type, <1>at DEF SafetyInv, ClaimsAccountedFor, Accounted, Ending, Mine
    <3> QED  BY <3>1, <1>1 DEF Accounted, Ending
  <2>2. ASSUME NEW s \in Runs \ {r} PROVE Accounted(s)'
    <3>1. ClaimsBy(r) /\ Accounted(s)
        BY <1>type DEF ClaimsBy, SafetyInv, ClaimsAccountedFor
    <3> QED  BY <1>1, <3>1, OthersAccounted
  <2> QED  BY <2>1, <2>2 DEF ClaimsAccountedFor
<1> QED  BY <1>3, <1>4, <1>5, <1>6, <1>7 DEF SafetyInv

\* A run that returns has no claims.
LEMMA FinishInitializationSafe ==
    ASSUME SafetyInv, TypeOK', NEW r \in Runs, FinishInitialization(r)
    PROVE  SafetyInv'
<1>1. TypeOK /\ pc \in [Runs -> Phases]
    BY DEF SafetyInv, TypeOK
<1>2. Aside(r)
    BY <1>1, ForgetAside DEF FinishInitialization
<1>3. /\ ClaimsKept /\ lease' = lease /\ incomplete' = incomplete
      /\ pc[r] = "released" /\ pc'[r] = "done"
    BY <1>1 DEF FinishInitialization, ClaimsKept
<1> QED  BY <1>2, <1>3, SectionStep DEF Accounted, Ending, Leased, Marked, Returned

\* A run that dies keeps its lease, and with it its claims; one that dies
\* after it gave the lease back had none.
LEMMA CrashSafe ==
    ASSUME SafetyInv, TypeOK', NEW r \in Runs, Crash(r) PROVE SafetyInv'
<1>type. TypeOK /\ pc \in [Runs -> Phases]
    BY DEF SafetyInv, TypeOK
<1>at. /\ pc' = [pc EXCEPT ![r] = "dead"] /\ pc[r] # "done"
       /\ row' = row /\ lease' = lease /\ incomplete' = incomplete
    BY DEF Crash, Live, durable
<1>1. pc'[r] = "dead" /\ \A s \in Runs \ {r} : pc'[s] = pc[s]
    BY <1>at, <1>type
<1>2. Aside(r)
    BY <1>at, <1>type, ForgetAside DEF Crash
<1>3. ClaimHasRun'
    BY <1>at DEF ClaimHasRun, SafetyInv
<1>4. ExclusiveUpdate'
    BY <1>1, <1>at DEF ExclusiveUpdate, Leased, SafetyInv
<1>5. LiveClaimIsLeased'
  <2> SUFFICES ASSUME NEW d \in Days, row[d].status = "running",
                      pc'[row[d].run] \notin Returned
               PROVE  lease = row[d].run
      BY <1>at DEF LiveClaimIsLeased, Returned
  <2>1. row[d].run \in Runs
      BY DEF SafetyInv, ClaimHasRun
  <2>2. pc[row[d].run] \notin Returned
    <3>1. CASE row[d].run = r
      <4>1. d \in Mine(r)
          BY <3>1 DEF Mine
      <4>2. pc[r] # "released"
          BY <4>1 DEF SafetyInv, ClaimsAccountedFor, Accounted
      <4> QED  BY <3>1, <4>2, <1>at DEF Returned
    <3>2. CASE row[d].run # r
        BY <1>1, <2>1, <3>2
    <3> QED  BY <3>1, <3>2
  <2> QED  BY <2>2 DEF SafetyInv, LiveClaimIsLeased, Returned
<1>6. UpdateMarksIncomplete'
    BY <1>1, <1>at DEF UpdateMarksIncomplete, Leased, SafetyInv
<1>7. ClaimsAccountedFor'
  <2>1. Accounted(r)'
      BY <1>1 DEF Accounted, Ending
  <2>2. ASSUME NEW s \in Runs \ {r} PROVE Accounted(s)'
    <3>1. ClaimsBy(r) /\ Accounted(s)
        BY <1>at DEF ClaimsBy, SafetyInv, ClaimsAccountedFor
    <3> QED  BY <1>2, <3>1, OthersAccounted
  <2> QED  BY <2>1, <2>2 DEF ClaimsAccountedFor
<1> QED  BY <1>3, <1>4, <1>5, <1>6, <1>7 DEF SafetyInv
-----------------------------------------------------------------------------
(* Steps of other callers *)

\* Registrations, resets and reopenings claim nothing.
LEMMA OtherCallersSafe ==
    ASSUME SafetyInv, TypeOK',
           \/ \E h \in Defs : Register(h)
           \/ \E S \in SUBSET Days : ResetScopes(S)
           \/ ReopenInitialization
    PROVE  SafetyInv'
<1>1. row \in [Days -> Row]
    BY DEF SafetyInv, TypeOK
<1>2. /\ UNCHANGED volatile /\ lease' = lease
      /\ incomplete' \/ incomplete' = incomplete
      /\ row' = row \/ \E T : row' = Settle(T, "pending", "none")
    BY DEF Register, ResetScopes, ReopenInitialization
<1>3. ClaimsKept
    BY <1>1, <1>2, SettleKeepsClaims, UnchangedKeepsClaims
<1> QED  BY <1>2, <1>3, EnvironmentStep

\* Recovery drops a lease together with every claim under it.
LEMMA AbandonSafe ==
    ASSUME SafetyInv, TypeOK', NEW o \in Owners, AbandonOwner(o) PROVE SafetyInv'
<1>type. row \in [Days -> Row]
    BY DEF SafetyInv, TypeOK
<1> DEFINE lost == LostRuns(o)
           mine == {s \in Runs : OwnerOf[s] = o}
<1>at. /\ UNCHANGED volatile /\ incomplete' = incomplete
       /\ \A s \in mine : ~Live(s)
       /\ row' = Settle(AbandonedScopes(lost), "failed", "other")
       /\ lease' = IF lease \in mine THEN NoRun ELSE lease
    BY DEF AbandonOwner
<1>1. ClaimsKept
    BY <1>at, <1>type, SettleKeepsClaims
<1>2. lease \in mine => lease \in lost
    BY DEF LostRuns
<1>3. ASSUME NEW d \in Days, row'[d].status = "running"
      PROVE  row[d].run \notin lost
  <2>1. d \notin AbandonedScopes(lost)
      BY <1>3, <1>at, <1>type, SettleAt
  <2>2. row[d].status = "running"
      BY <1>1, <1>3 DEF ClaimsKept
  <2> HIDE DEF lost
  <2> QED  BY <2>1, <2>2 DEF AbandonedScopes
<1>4. ClaimHasRun'
    BY <1>1 DEF ClaimHasRun, ClaimsKept, SafetyInv
<1>5. ExclusiveUpdate'
    BY <1>at DEF ExclusiveUpdate, Live, Leased, volatile, SafetyInv
<1>6. LiveClaimIsLeased'
  <2> SUFFICES ASSUME NEW d \in Days, row'[d].status = "running",
                      pc'[row'[d].run] \notin Returned
               PROVE  lease' = row'[d].run
      BY DEF LiveClaimIsLeased, Returned
  <2>1. row'[d] = row[d] /\ lease = row[d].run
      BY <1>1, <1>at DEF ClaimsKept, volatile, SafetyInv, LiveClaimIsLeased, Returned
  <2> QED  BY <2>1, <1>2, <1>3, <1>at
<1>7. UpdateMarksIncomplete'
    BY <1>at DEF UpdateMarksIncomplete, volatile, SafetyInv
<1>8. ClaimsAccountedFor'
  <2>1. ASSUME NEW s \in Runs PROVE Mine(s)' \subseteq Mine(s)
      BY <1>1 DEF Mine, ClaimsKept
  <2> QED  BY <2>1, <1>at DEF ClaimsAccountedFor, Accounted, volatile, SafetyInv
<1> QED  BY <1>4, <1>5, <1>6, <1>7, <1>8 DEF SafetyInv
-----------------------------------------------------------------------------
(* The theorems *)

\* The empty ledger satisfies the invariant.
LEMMA InitSafe == Init => SafetyInv
<1> SUFFICES ASSUME Init PROVE SafetyInv
    OBVIOUS
<1>1. \A d \in Days : row[d].status = "absent"
    BY DEF Init, Absent
<1>2. ClaimHasRun /\ LiveClaimIsLeased
    BY <1>1 DEF ClaimHasRun, LiveClaimIsLeased
<1>3. \A r \in Runs : pc[r] = "idle"
    BY DEF Init
<1>4. ExclusiveUpdate /\ UpdateMarksIncomplete /\ ClaimsAccountedFor
    BY <1>3 DEF ExclusiveUpdate, UpdateMarksIncomplete, ClaimsAccountedFor,
                Accounted, Ending, Leased
<1> QED  BY <1>2, <1>4, InitTyped DEF SafetyInv

\* Every step keeps it.
LEMMA StepSafe == SafetyInv /\ [Next]_vars => SafetyInv'
<1> SUFFICES ASSUME SafetyInv, [Next]_vars PROVE SafetyInv'
    OBVIOUS
<1>0. TypeOK'
    BY StepTyped DEF SafetyInv
<1>1. ASSUME NEW r \in Runs, Update(r) PROVE SafetyInv'
  <2>1. CASE ReadDeclaration(r) \/ SynchronizeRequests(r) \/ RefuseLease(r)
      BY <1>0, <2>1, PlanningSafe
  <2>2. CASE AcquireLease(r)
      BY <1>0, <2>2, AcquireSafe
  <2>3. CASE Fetch(r) /\ ~EndFetches(r)
      BY <1>0, <2>3, ClaimSafe, SplitSafe, HarvestFailureSafe,
         HarvestDailySafe, CommitBufferSafe, CommitFailsSafe DEF Fetch
  <2>4. CASE CancelRequested(r) \/ Interrupt(r) \/ Crash(r)
      BY <1>0, <2>4, CancelSafe, InterruptSafe, CrashSafe
  <2>5. CASE \/ BeginRun(r) \/ EndFetches(r) \/ FailBuffered(r)
             \/ FailRunning(r) \/ CountRemaining(r) \/ FinalizeRun(r)
      BY <1>0, <2>5, FinishingSafe
  <2>6. CASE CompleteNode(r) \/ ReleaseLease(r) \/ FinishInitialization(r)
      BY <1>0, <2>6, CompleteSafe, ReleaseSafe, FinishInitializationSafe
  <2> QED  BY <1>1, <2>1, <2>2, <2>3, <2>4, <2>5, <2>6
           DEF Update, Advance, Fetch, Finish
<1>2. CASE \/ \E h \in Defs : Register(h)
           \/ \E S \in SUBSET Days : ResetScopes(S)
           \/ ReopenInitialization
    BY <1>0, <1>2, OtherCallersSafe
<1>3. ASSUME NEW o \in Owners, AbandonOwner(o) PROVE SafetyInv'
    BY <1>0, <1>3, AbandonSafe
<1>4. CASE UNCHANGED vars
  <2>1. /\ UNCHANGED volatile /\ lease' = lease /\ incomplete' = incomplete
        /\ ClaimsKept
      BY <1>4 DEF vars, durable, ClaimsKept
  <2> QED  BY <1>0, <2>1, EnvironmentStep
<1> QED  BY <1>1, <1>2, <1>3, <1>4 DEF Next

\* The inductive invariant holds in every state.
THEOREM Safe == Spec => []SafetyInv
BY InitSafe, StepSafe, PTL DEF Spec

\* No two updates of a dataset are in their update section together
\* (acquire_update_leases, release_update_leases, abandon_update_owner).
THEOREM Exclusive == Spec => []ExclusiveUpdate
<1>1. SafetyInv => ExclusiveUpdate
    BY DEF SafetyInv
<1> QED  BY <1>1, Safe, PTL

\* A claim that is still to be settled stays under the lease of its run,
\* through the death of the process and until recovery.
THEOREM LiveClaimsLeased == Spec => []LiveClaimIsLeased
<1>1. SafetyInv => LiveClaimIsLeased
    BY DEF SafetyInv
<1> QED  BY <1>1, Safe, PTL

\* From begin_run on no earlier completion flag can be read as current until
\* the run itself certifies the dataset.
THEOREM MarkedIncomplete == Spec => []UpdateMarksIncomplete
<1>1. SafetyInv => UpdateMarksIncomplete
    BY DEF SafetyInv
<1> QED  BY <1>1, Safe, PTL

\* Every claim is in a request, in the buffer, or settled before a run that
\* did not raise comes to its end.
THEOREM AccountedFor == Spec => []ClaimsAccountedFor
<1>1. SafetyInv => ClaimsAccountedFor
    BY DEF SafetyInv
<1> QED  BY <1>1, Safe, PTL

-----------------------------------------------------------------------------
(* Outcomes and the completion flag.  Who decides an outcome is proved for  *)
(* any callers.  What the flag certifies is proved for callers that make    *)
(* one call at a time: a plan is made before the lease, so only then does   *)
(* the plan still describe the rows when the run that holds it ends.        *)

-----------------------------------------------------------------------------
(* Claims and run rows *)

Early == {"idle", "discovering", "planned", "leased"}

\* A run that recovery may take for lost has claims only if it died.
ClaimInv(r) ==
    /\ pc[r] \in Early => Mine(r) = {}
    /\ pc[r] = "finalized" => runs[r] # "running"
    /\ pc[r] \in {"finished", "released", "done"} /\ runs[r] = "running" => Mine(r) = {}
    /\ lease = r => pc[r] \in Leased \cup {"dead"}

\* Only a running row names a run.
RunMeansRunning == \A d \in Days : row[d].run # NoRun => row[d].status = "running"

OutcomeInv == SafetyInv /\ RunMeansRunning /\ \A r \in Runs : ClaimInv(r)

-----------------------------------------------------------------------------
(* What a step of an update does to a row *)

\* Synchronizing gives it a new definition, or makes or removes it.
Renewed(r, d) ==
    /\ pc[r] = "discovering"
    /\ row'[d].run = NoRun /\ row'[d].status \in {"pending", "absent"}
    /\ \/ row'[d].hash # row[d].hash \/ row[d].status = "absent"
       \/ row'[d].status = "absent" /\ row[d].status # "running"
Claimed(r, d) ==
    /\ pc[r] = "fetching" /\ row[d].status \in Claimable
    /\ row'[d].status = "running" /\ row'[d].run = r /\ row'[d].hash = row[d].hash
Settled(r, d) ==
    /\ row[d].run = r /\ Steps(r)' # Steps(r)
    /\ row'[d].run = NoRun /\ row'[d].hash = row[d].hash
    /\ row'[d].status \in Terminal \cup {"failed", "invalid"}
RowStep(r, d) == row'[d] = row[d] \/ Renewed(r, d) \/ Claimed(r, d) \/ Settled(r, d)

\* Settling days of a run, in a step that changes what the run holds.
LEMMA SettleRows ==
    ASSUME row \in [Days -> Row], NEW r \in Runs, NEW S, NEW st, NEW why,
           st \in Terminal \cup {"failed", "invalid"},
           Owned(r, S), Steps(r)' # Steps(r), row' = Settle(S, st, why)
    PROVE  \A d \in Days : RowStep(r, d)
<1> SUFFICES ASSUME NEW d \in Days PROVE RowStep(r, d)
    OBVIOUS
<1>1. CASE d \in S
    BY <1>1, SettleAt DEF Owned, Settled, RowStep
<1>2. CASE d \notin S
    BY <1>2, SettleAt DEF RowStep
<1> QED  BY <1>1, <1>2

\* Synchronizing renews rows or keeps them.
LEMMA SynchronizeRows ==
    ASSUME row \in [Days -> Row], NEW r \in Runs, NEW hash \in Defs,
           pc[r] = "discovering", row' = Synchronized(r, hash), NEW d \in Days
    PROVE  row'[d] = row[d] \/ Renewed(r, d)
<1>1. row[d] \in Row
    OBVIOUS
<1>2. row'[d] = IF d \in Window(r)
                THEN IF row[d].status = "absent"
                     THEN [Absent EXCEPT !.status = "pending", !.hash = hash]
                     ELSE IF row[d].hash # hash
                     THEN [row[d] EXCEPT !.status = "pending", !.run = NoRun,
                                         !.why = "none", !.hash = hash]
                     ELSE row[d]
                ELSE IF row[d].hash # hash /\ row[d].status # "running"
                     THEN Absent
                     ELSE row[d]
    BY DEF Synchronized
<1>3. CASE d \in Window(r) /\ row[d].status = "absent"
    BY <1>2, <1>3 DEF Renewed, Absent
<1>4. CASE d \in Window(r) /\ row[d].status # "absent" /\ row[d].hash # hash
    BY <1>1, <1>2, <1>4 DEF Renewed, Row
<1>5. CASE d \notin Window(r) /\ row[d].hash # hash /\ row[d].status # "running"
    BY <1>2, <1>5 DEF Renewed, Absent
<1> QED  BY <1>2, <1>3, <1>4, <1>5

\* Whatever an update does, a row is kept, renewed, claimed or settled.
LEMMA UpdateRows ==
    ASSUME TypeOK, NEW r \in Runs, Update(r)
    PROVE  \A d \in Days : RowStep(r, d)
<1>type. /\ row \in [Days -> Row] /\ pc \in [Runs -> Phases] /\ spec \in Defs
         /\ held \in [Runs -> SUBSET SUBSET Days] /\ buf \in [Runs -> SUBSET Days]
    BY DEF TypeOK
<1>1. CASE row' = row
    BY <1>1 DEF RowStep
<1>2. CASE SynchronizeRequests(r)
    BY <1>2, <1>type, SynchronizeRows DEF SynchronizeRequests, RowStep
<1>3. CASE ClaimScopes(r)
  <2>1. PICK free : /\ \A d \in free : d \in Days => row[d].status \in Claimable
                    /\ row' = [d \in Days |->
                                 IF d \in free
                                 THEN [row[d] EXCEPT !.status = "running", !.run = r,
                                                     !.tried = TRUE]
                                 ELSE row[d]]
      BY <1>3 DEF ClaimScopes
  <2>2. pc[r] = "fetching"
      BY <1>3 DEF ClaimScopes
  <2>3. ASSUME NEW d \in Days, d \in free PROVE Claimed(r, d)
    <3>1. row[d] \in Row  BY <1>type
    <3> QED  BY <2>1, <2>2, <2>3, <3>1 DEF Row, Claimed
  <2> QED  BY <2>1, <2>3 DEF RowStep
<1>4. CASE HarvestFailure(r)
  <2>1. PICK q \in held[r] : /\ held' = [held EXCEPT ![r] = @ \ {q}]
                             /\ \/ row' = row
                                \/ Owned(r, q) /\ \E st \in {"failed", "invalid"} : \E why :
                                                    row' = Settle(q, st, why)
    <3>1. PICK q \in held[r], outcome \in {"failed", "cancelled"} \cup Reasons :
            FailedResponse(r, q, outcome)
        BY <1>4 DEF HarvestFailure
    <3> QED  BY <3>1 DEF FailedResponse
  <2>2. held'[r] # held[r]
      BY <2>1, <1>type
  <2>3. Steps(r)' # Steps(r)
      BY <2>2 DEF Steps
  <2> QED  BY <1>1, <2>1, <2>3, <1>type, SettleRows
<1>5. CASE HarvestDaily(r)
  <2>1. PICK q \in held[r] : /\ held' = [held EXCEPT ![r] = @ \ {q}]
                             /\ \/ row' = row
                                \/ \E st \in {"empty", "invalid"} : \E S, why :
                                     Owned(r, S) /\ row' = Settle(S, st, why)
    <3>1. PICK q \in held[r], full \in SUBSET Days :
            /\ held' = [held EXCEPT ![r] = @ \ {q}]
            /\ \/ EmptyResponse(r, (q \ full) \ Required, full)
               \/ SparseResponse(r, (q \ full) \cap Required, (q \ full) \ Required, full)
        BY <1>5, <1>type DEF HarvestDaily
    <3>2. CASE EmptyResponse(r, (q \ full) \ Required, full)
        BY <3>1, <3>2 DEF EmptyResponse
    <3>3. CASE SparseResponse(r, (q \ full) \cap Required, (q \ full) \ Required, full)
      <4>0. (q \ full) \cap Required \in SUBSET Days
          BY <1>type
      <4>1. PICK done \in SettledByLoop(r, (q \ full) \cap Required) :
              row' = Settle(done, "invalid", "other")
          BY <3>3 DEF SparseResponse
      <4>2. Owned(r, done)
          BY <4>0, <4>1, SettledByLoopOwned DEF Owned
      <4> QED  BY <3>1, <4>1, <4>2
    <3> QED  BY <3>1, <3>2, <3>3
  <2>2. held'[r] # held[r]
      BY <2>1, <1>type
  <2>3. Steps(r)' # Steps(r)
      BY <2>2 DEF Steps
  <2> QED  BY <1>1, <2>1, <2>3, <1>type, SettleRows DEF Terminal
<1>6. CASE CommitBuffer(r) \/ CommitFails(r)
  <2>1. buf[r] # {} /\ buf'[r] = {}
      BY <1>6, <1>type DEF CommitBuffer, CommitFails
  <2>2. Steps(r)' # Steps(r)
      BY <2>1 DEF Steps
  <2>3. PICK S, st, why : /\ Owned(r, S) /\ row' = Settle(S, st, why)
                            /\ st \in {"success", "failed"}
    <3>1. CASE CommitBuffer(r)
        BY <3>1 DEF CommitBuffer, CommitFence
    <3>2. CASE CommitFails(r)
      <4>1. PICK done \in SettledByLoop(r, buf[r]) : row' = Settle(done, "failed", "other")
          BY <3>2 DEF CommitFails
      <4>2. buf[r] \in SUBSET Days
          BY <1>type
      <4>3. Owned(r, done)
          BY <4>1, <4>2, SettledByLoopOwned DEF Owned
      <4> QED  BY <4>1, <4>3
    <3> QED  BY <1>6, <3>1, <3>2
  <2> QED  BY <2>2, <2>3, <1>type, SettleRows DEF Terminal
<1>7. CASE FailBuffered(r) \/ FailRunning(r)
  <2>1. pc'[r] # pc[r]
      BY <1>7, <1>type DEF FailBuffered, FailRunning
  <2>2. Steps(r)' # Steps(r)
      BY <2>1 DEF Steps
  <2>3. PICK S, why : Owned(r, S) /\ row' = Settle(S, "failed", why)
    <3>1. CASE FailBuffered(r)
      <4>1. PICK done \in SettledByLoop(r, buf[r]) : row' = Settle(done, "failed", "other")
          BY <3>1 DEF FailBuffered
      <4>2. buf[r] \in SUBSET Days
          BY <1>type
      <4>3. Owned(r, done)
          BY <4>1, <4>2, SettledByLoopOwned DEF Owned
      <4> QED  BY <4>1, <4>3
    <3>2. CASE FailRunning(r)
        BY <3>2 DEF FailRunning, Owned, Mine
    <3> QED  BY <1>7, <3>1, <3>2
  <2> QED  BY <2>2, <2>3, <1>type, SettleRows
<1>8. \/ row' = row \/ SynchronizeRequests(r) \/ ClaimScopes(r) \/ HarvestFailure(r)
      \/ HarvestDaily(r) \/ CommitBuffer(r) \/ CommitFails(r)
      \/ FailBuffered(r) \/ FailRunning(r)
    BY DEF Update, Advance, Fetch, Finish, ReadDeclaration, AcquireLease, RefuseLease,
           BeginRun, SplitRequest, EndFetches, CountRemaining, FinalizeRun, CompleteNode,
           ReleaseLease, FinishInitialization, CancelRequested, Interrupt, Crash, durable
<1> QED  BY <1>1, <1>2, <1>3, <1>4, <1>5, <1>6, <1>7, <1>8

-----------------------------------------------------------------------------
(* Who moves *)

\* A step of r leaves what the other runs keep in memory, and their run rows.
Sideways(r) ==
    \A s \in Runs \ {r} :
        /\ pc'[s] = pc[s] /\ runs'[s] = runs[s] /\ report'[s] = report[s]
        /\ seen'[s] = seen[s] /\ work'[s] = work[s]
        /\ held'[s] = held[s] /\ buf'[s] = buf[s]

\* This holds of every step of an update.
LEMMA UpdateSideways ==
    ASSUME TypeOK, NEW r \in Runs, Update(r)
    PROVE  Sideways(r)
<1>type. /\ pc \in [Runs -> Phases] /\ runs \in [Runs -> RunStatus]
         /\ report \in [Runs -> Report] /\ seen \in [Runs -> Defs]
         /\ work \in [Runs -> SUBSET SUBSET Days]
         /\ held \in [Runs -> SUBSET SUBSET Days] /\ buf \in [Runs -> SUBSET Days]
    BY DEF TypeOK
<1>1. ASSUME Forget(r), runs' = runs, NEW p, pc' = [pc EXCEPT ![r] = p]
      PROVE  Sideways(r)
    BY <1>1, <1>type DEF Forget, Sideways
<1>2. ASSUME NEW rep, NEW p, pc' = pc \/ pc' = [pc EXCEPT ![r] = p],
             report' = [report EXCEPT ![r] = rep]
      PROVE  \A s \in Runs \ {r} : pc'[s] = pc[s] /\ report'[s] = report[s]
    BY <1>2, <1>type
<1>3. ASSUME NEW rep, Proceed(r, rep) \/ Raise(r, rep) \/ \E c : RaiseWith(r, rep, c)
      PROVE  \A s \in Runs \ {r} : pc'[s] = pc[s] /\ report'[s] = report[s]
    BY <1>2, <1>3 DEF Proceed, Raise, RaiseWith
<1>4. CASE \/ ReadDeclaration(r) \/ SynchronizeRequests(r) \/ AcquireLease(r)
           \/ BeginRun(r) \/ EndFetches(r) \/ FailBuffered(r) \/ FailRunning(r)
           \/ CountRemaining(r) \/ FinalizeRun(r) \/ CompleteNode(r) \/ SplitRequest(r)
    BY <1>4, <1>type
       DEF ReadDeclaration, SynchronizeRequests, AcquireLease, BeginRun, EndFetches,
           FailBuffered, FailRunning, CountRemaining, FinalizeRun, CompleteNode,
           SplitRequest, durable, Sideways
<1>5. CASE RefuseLease(r) \/ FinishInitialization(r) \/ Crash(r)
    BY <1>1, <1>5 DEF RefuseLease, FinishInitialization, Crash, durable
<1>6. CASE ReleaseLease(r)
  <2>1. CASE report[r].raised
      BY <1>1, <1>6, <2>1 DEF ReleaseLease
  <2>2. CASE ~report[r].raised
      BY <1>6, <1>type, <2>2 DEF ReleaseLease, Sideways
  <2> QED  BY <2>1, <2>2
<1>7. CASE \/ ClaimScopes(r) \/ HarvestFailure(r) \/ HarvestDaily(r)
           \/ CommitBuffer(r) \/ CommitFails(r) \/ CancelRequested(r) \/ Interrupt(r)
  <2>1. /\ runs' = runs /\ seen' = seen
        /\ \A s \in Runs \ {r} : /\ held'[s] = held[s] /\ buf'[s] = buf[s]
                                 /\ work'[s] = work[s]
    <3>1. CASE ClaimScopes(r)
        BY <3>1, <1>type DEF ClaimScopes
    <3>2. CASE HarvestFailure(r)
        BY <3>2, <1>type DEF HarvestFailure, FailedResponse
    <3>3. CASE HarvestDaily(r)
        BY <3>3, <1>type DEF HarvestDaily, EmptyResponse, SparseResponse
    <3>4. CASE CommitBuffer(r) \/ CommitFails(r) \/ CancelRequested(r) \/ Interrupt(r)
        BY <3>4, <1>type DEF CommitBuffer, CommitFails, CancelRequested, Interrupt, durable
    <3> QED  BY <1>7, <3>1, <3>2, <3>3, <3>4
  <2>2. \E rep : Proceed(r, rep) \/ Raise(r, rep) \/ \E c : RaiseWith(r, rep, c)
    <3>1. CASE ClaimScopes(r)
        BY <3>1 DEF ClaimScopes
    <3>2. CASE HarvestFailure(r)
        BY <3>2 DEF HarvestFailure, FailedResponse
    <3>3. CASE HarvestDaily(r)
        BY <3>3 DEF HarvestDaily, EmptyResponse, SparseResponse
    <3>4. CASE CommitBuffer(r) \/ CommitFails(r) \/ CancelRequested(r) \/ Interrupt(r)
        BY <3>4 DEF CommitBuffer, CommitFails, CancelRequested, Interrupt
    <3> QED  BY <1>7, <3>1, <3>2, <3>3, <3>4
  <2> QED  BY <1>3, <2>1, <2>2 DEF Sideways
<1> QED  BY <1>4, <1>5, <1>6, <1>7 DEF Update, Advance, Fetch, Finish

\* Claims of others only go.
LEMMA OthersClaims ==
    ASSUME NEW r \in Runs, \A d \in Days : RowStep(r, d), NEW s \in Runs, s # r
    PROVE  Mine(s)' \subseteq Mine(s)
BY DEF RowStep, Renewed, Claimed, Settled, Mine, Terminal

\* So do those of r itself, but while it fetches.
LEMMA OwnRows ==
    ASSUME NEW r \in Runs, \A d \in Days : RowStep(r, d), pc[r] # "fetching"
    PROVE  Mine(r)' \subseteq Mine(r)
BY DEF RowStep, Renewed, Claimed, Settled, Mine, Terminal

-----------------------------------------------------------------------------
(* Who decides an outcome *)

\* No row is claimed and no run has begun.
LEMMA InitOutcome == Init => OutcomeInv
<1> SUFFICES ASSUME Init PROVE OutcomeInv
    OBVIOUS
<1>1. \A d \in Days : row[d].status = "absent" /\ row[d].run = NoRun
    BY DEF Init, Absent
<1>2. \A r \in Runs : Mine(r) = {} /\ pc[r] = "idle" /\ lease # r
    BY <1>1 DEF Init, Mine
<1> QED  BY <1>1, <1>2, InitSafe DEF OutcomeInv, RunMeansRunning, ClaimInv

\* A step of a run keeps its own claims and run row in order.
LEMMA OwnClaimInv ==
    ASSUME OutcomeInv, NEW r \in Runs, Update(r) PROVE ClaimInv(r)'
<1>type. /\ TypeOK /\ pc \in [Runs -> Phases] /\ runs \in [Runs -> RunStatus] /\ ClaimInv(r)
    BY DEF OutcomeInv, SafetyInv, TypeOK
<1>rows. \A d \in Days : RowStep(r, d)
    BY <1>type, UpdateRows
<1>mine. pc[r] # "fetching" => Mine(r)' \subseteq Mine(r)
    BY <1>rows, OwnRows
<1>1. CASE \/ ReadDeclaration(r) \/ SynchronizeRequests(r) \/ AcquireLease(r)
           \/ RefuseLease(r) \/ BeginRun(r)
    BY <1>1, <1>type, <1>mine
       DEF ReadDeclaration, SynchronizeRequests, AcquireLease, RefuseLease, BeginRun,
           durable, ClaimInv, Early, Leased
<1>2. CASE pc'[r] \in {"fetching", "failing", "failrunning", "finishing", "counted", "dead"}
    BY <1>2 DEF ClaimInv, Early, Leased
<1>3. CASE FinalizeRun(r)
  <2>1. FinalStatus(report[r]) # "running"
      BY FinalStatusTyped
  <2> QED  BY <1>3, <1>type, <2>1 DEF FinalizeRun, ClaimInv, Early, Leased
<1>4. CASE CompleteNode(r) \/ ReleaseLease(r) \/ FinishInitialization(r)
    BY <1>4, <1>type, <1>mine
       DEF CompleteNode, ReleaseLease, FinishInitialization, ClaimInv, Early, Leased
<1>5. CASE \/ Fetch(r) \/ FailBuffered(r) \/ FailRunning(r) \/ CountRemaining(r)
           \/ CancelRequested(r) \/ Interrupt(r) \/ Crash(r)
  <2>1. CASE \/ EndFetches(r) \/ FailBuffered(r) \/ FailRunning(r) \/ CountRemaining(r)
             \/ Crash(r) \/ SplitRequest(r)
    <3>1. pc'[r] \in {"fetching", "failrunning", "finishing", "counted", "dead"}
        BY <2>1, <1>type DEF EndFetches, FailBuffered, FailRunning, CountRemaining, Crash,
                             SplitRequest
    <3> QED  BY <1>2, <3>1
  <2>2. CASE \/ ClaimScopes(r) \/ HarvestFailure(r) \/ HarvestDaily(r)
             \/ CommitBuffer(r) \/ CommitFails(r) \/ CancelRequested(r) \/ Interrupt(r)
    <3>1. /\ pc[r] = "fetching"
          /\ \E rep : Proceed(r, rep) \/ Raise(r, rep) \/ \E c : RaiseWith(r, rep, c)
      <4>1. CASE ClaimScopes(r)
          BY <4>1 DEF ClaimScopes
      <4>2. CASE HarvestFailure(r)
          BY <4>2 DEF HarvestFailure, FailedResponse
      <4>3. CASE HarvestDaily(r)
          BY <4>3 DEF HarvestDaily, EmptyResponse, SparseResponse
      <4>4. CASE CommitBuffer(r) \/ CommitFails(r) \/ CancelRequested(r) \/ Interrupt(r)
          BY <4>4 DEF CommitBuffer, CommitFails, CancelRequested, Interrupt
      <4> QED  BY <2>2, <4>1, <4>2, <4>3, <4>4
    <3>2. pc'[r] \in {"fetching", "failing"}
        BY <3>1, <1>type DEF Proceed, Raise, RaiseWith
    <3> QED  BY <1>2, <3>2
  <2> QED  BY <1>5, <2>1, <2>2 DEF Fetch
<1> QED  BY <1>1, <1>3, <1>4, <1>5 DEF Update, Advance, Finish

\* Every step keeps claims, run rows and running rows in order.
LEMMA StepOutcome == OutcomeInv /\ [Next]_vars => OutcomeInv'
<1> SUFFICES ASSUME OutcomeInv, [Next]_vars PROVE OutcomeInv'
    OBVIOUS
<1>type. TypeOK /\ row \in [Days -> Row] /\ runs \in [Runs -> RunStatus]
    BY DEF OutcomeInv, SafetyInv, TypeOK
<1>safe. SafetyInv'
    BY StepSafe DEF OutcomeInv
<1>1. ASSUME NEW r \in Runs, Update(r) PROVE OutcomeInv'
  <2>1. \A d \in Days : RowStep(r, d)
      BY <1>1, <1>type, UpdateRows
  <2>2. RunMeansRunning'
      BY <2>1 DEF RowStep, Renewed, Claimed, Settled, RunMeansRunning, OutcomeInv
  <2>3. ASSUME NEW s \in Runs, s # r PROVE ClaimInv(s)'
    <3>1. Mine(s)' \subseteq Mine(s) /\ pc'[s] = pc[s] /\ runs'[s] = runs[s]
        BY <1>1, <1>type, <2>1, <2>3, OthersClaims, UpdateSideways DEF Sideways
    <3>2. lease' = s => lease = s
        BY <1>1, <2>3
           DEF Update, Advance, Fetch, Finish, ReadDeclaration, SynchronizeRequests,
               AcquireLease, RefuseLease, BeginRun, ClaimScopes, SplitRequest, HarvestFailure,
               HarvestDaily, CommitBuffer, CommitFails, EndFetches, FailBuffered,
               FailRunning, CountRemaining, FinalizeRun, CompleteNode, ReleaseLease,
               FinishInitialization, CancelRequested, Interrupt, Crash, durable
    <3> QED  BY <3>1, <3>2 DEF ClaimInv, OutcomeInv
  <2>4. ClaimInv(r)'
      BY <1>1, OwnClaimInv
  <2> QED  BY <1>safe, <2>2, <2>3, <2>4 DEF OutcomeInv
<1>2. ASSUME /\ pc' = pc
             /\ \A s \in Runs : Mine(s)' \subseteq Mine(s) /\ (lease' = s => lease = s)
             /\ \A s \in Runs : runs'[s] = "running" => runs[s] = "running"
             /\ RunMeansRunning'
      PROVE  OutcomeInv'
    BY <1>2, <1>safe DEF ClaimInv, OutcomeInv
<1>3. CASE \/ \E h \in Defs : Register(h)
           \/ \E S \in SUBSET Days : ResetScopes(S)
           \/ ReopenInitialization
           \/ UNCHANGED vars
  <2>1. /\ pc' = pc /\ lease' = lease /\ runs' = runs
        /\ row' = row \/ \E T : row' = Settle(T, "pending", "none")
      BY <1>3 DEF Register, ResetScopes, ReopenInitialization, vars, volatile, durable
  <2>2. \A d \in Days : row'[d] = row[d] \/ (row'[d].run = NoRun /\ row'[d].status = "pending")
      BY <2>1, <1>type, SettleAt
  <2>3. RunMeansRunning' /\ \A s \in Runs : Mine(s)' \subseteq Mine(s)
      BY <2>2 DEF RunMeansRunning, Mine, OutcomeInv
  <2> QED  BY <1>2, <2>1, <2>3
<1>4. ASSUME NEW o \in Owners, AbandonOwner(o) PROVE OutcomeInv'
  <2>1. /\ pc' = pc /\ \E T : row' = Settle(T, "failed", "other")
        /\ lease' = lease \/ lease' = NoRun
        /\ \A s \in Runs : runs'[s] = "running" => runs[s] = "running"
      BY <1>4, <1>type DEF AbandonOwner, volatile
  <2>2. \A d \in Days : row'[d] = row[d] \/ (row'[d].run = NoRun /\ row'[d].status = "failed")
      BY <2>1, <1>type, SettleAt
  <2>3. RunMeansRunning' /\ \A s \in Runs : Mine(s)' \subseteq Mine(s)
      BY <2>2 DEF RunMeansRunning, Mine, OutcomeInv
  <2> QED  BY <1>2, <2>1, <2>3
<1> QED  BY <1>1, <1>3, <1>4 DEF Next

\* No claim is lost sight of by recovery: a run that returned, and that
\* recovery may still find running, has none.
THEOREM Decided == Spec => []OutcomeInv
BY InitOutcome, StepOutcome, PTL DEF Spec

\* The outcome of a claim is decided by a step of its own run, by the recovery
\* of its owner after a death, or by a new definition: a reset, a reopening and
\* another update find it running and leave it (reset_update_scopes,
\* reopen_raw_initialization, abandon_update_owner).
THEOREM ClaimantDecides == Spec => OutcomeByClaimant
<1> DEFINE Allowed(d, r) == \/ Steps(r)' # Steps(r)
                            \/ pc[r] = "dead" /\ row'[d].status = "failed"
                            \/ row'[d].hash # row[d].hash
           Decides == \A d \in Days, r \in Runs :
                        row[d].status = "running" /\ row[d].run = r /\ row'[d] # row[d] =>
                            Allowed(d, r)
<1>1. ASSUME OutcomeInv, [Next]_vars PROVE [Decides]_vars
  <2> SUFFICES ASSUME Next, NEW d \in Days, NEW r \in Runs,
                      row[d].status = "running", row[d].run = r, row'[d] # row[d]
               PROVE  Allowed(d, r)
      BY <1>1
  <2>type. TypeOK /\ row \in [Days -> Row] /\ pc \in [Runs -> Phases] /\ ClaimInv(r)
      BY <1>1 DEF OutcomeInv, SafetyInv, TypeOK
  <2>1. ASSUME NEW s \in Runs, Update(s) PROVE Allowed(d, r)
    <3>1. RowStep(s, d)
        BY <2>1, <2>type, UpdateRows
    <3> QED  BY <3>1 DEF RowStep, Renewed, Claimed, Settled, Claimable, Retryable, Terminal
  <2>2. ASSUME NEW o \in Owners, AbandonOwner(o) PROVE Allowed(d, r)
    <3> DEFINE lost == LostRuns(o)
    <3>1. row' = Settle(AbandonedScopes(lost), "failed", "other")
        BY <2>2 DEF AbandonOwner
    <3>2. d \in AbandonedScopes(lost) /\ row'[d].status = "failed"
        BY <3>1, <2>type, SettleAt
    <3>3. r \in LostRuns(o)
        BY <3>2 DEF AbandonedScopes
    <3>4. ~Live(r) /\ (runs[r] = "running" \/ lease = r)
        BY <2>2, <3>3 DEF AbandonOwner, LostRuns
    <3>5. d \in Mine(r)
        BY DEF Mine
    <3>6. pc[r] = "dead"
        BY <3>4, <3>5, <2>type DEF Live, ClaimInv, Early, Leased
    <3> QED  BY <3>2, <3>6
  <2>3. ASSUME NEW S \in SUBSET Days, ResetScopes(S) PROVE FALSE
    <3> DEFINE T == {e \in S : row[e].status \in {"failed", "invalid", "empty", "success"}}
    <3>1. row' = Settle(T, "pending", "none")
        BY <2>3 DEF ResetScopes
    <3>2. d \notin T
        OBVIOUS
    <3> HIDE DEF T
    <3>3. row'[d] = row[d]
        BY <3>1, <3>2, <2>type, SettleAt
    <3> QED  BY <3>3
  <2>4. ~ReopenInitialization /\ \A h \in Defs : ~Register(h)
      BY DEF ReopenInitialization, Register, Terminal
  <2> QED  BY <2>1, <2>2, <2>3, <2>4 DEF Next
<1>2. Decides <=> (\A d \in Days, r \in Runs :
                     row[d].status = "running" /\ row[d].run = r /\ row'[d] # row[d] =>
                         \/ Steps(r)' # Steps(r)
                         \/ pc[r] = "dead" /\ row'[d].status = "failed"
                         \/ row'[d].hash # row[d].hash)
    OBVIOUS
<1> HIDE DEF Decides
<1> QED  BY <1>1, <1>2, Decided, PTL DEF Spec, OutcomeByClaimant

\* Coverage does not go back by itself: a terminal outcome is only taken by a
\* claim under the lease, a reset, a reopening or a new definition
\* (synchronize_update_scopes, transition_update_scope).
THEOREM TerminalStays == Spec => TerminalIsKept
<1> DEFINE Allowed(d) == \/ row'[d].status = "running" /\ lease = row'[d].run
                         \/ used'.reset # used.reset \/ used'.reopen # used.reopen
                         \/ row'[d].hash # row[d].hash \/ row'[d].status = "absent"
           Kept == \A d \in Days : row[d].status \in Terminal /\ row'[d] # row[d] => Allowed(d)
<1>1. ASSUME OutcomeInv, [Next]_vars PROVE [Kept]_vars
  <2> SUFFICES ASSUME Next, NEW d \in Days, row[d].status \in Terminal, row'[d] # row[d]
               PROVE  Allowed(d)
      BY <1>1
  <2>type. /\ TypeOK /\ row \in [Days -> Row]
           /\ used \in [register : Nat, crash : Nat, reset : Nat, reopen : Nat]
      BY <1>1 DEF OutcomeInv, SafetyInv, TypeOK
  <2>1. ASSUME NEW s \in Runs, Update(s) PROVE Allowed(d)
    <3>1. RowStep(s, d)
        BY <2>1, <2>type, UpdateRows
    <3>2. ~Settled(s, d)
        BY <1>1 DEF Settled, OutcomeInv, RunMeansRunning, Terminal
    <3>3. Claimed(s, d) => lease = s
        BY <1>1 DEF Claimed, OutcomeInv, SafetyInv, ExclusiveUpdate, Leased
    <3> QED  BY <3>1, <3>2, <3>3 DEF RowStep, Renewed, Claimed, Terminal
  <2>2. ASSUME NEW o \in Owners, AbandonOwner(o) PROVE FALSE
    <3> DEFINE lost == LostRuns(o)
    <3>1. row' = Settle(AbandonedScopes(lost), "failed", "other")
        BY <2>2 DEF AbandonOwner
    <3>2. d \in AbandonedScopes(lost)
        BY <3>1, <2>type, SettleAt
    <3> QED  BY <3>2 DEF AbandonedScopes, Terminal
  <2>3. CASE \E S \in SUBSET Days : ResetScopes(S)
    <3>1. used' = [used EXCEPT !.reset = @ + 1]
        BY <2>3 DEF ResetScopes
    <3>2. used.reset \in Nat /\ used'.reset = used.reset + 1
        BY <3>1, <2>type
    <3> QED  BY <3>2
  <2>4. CASE ReopenInitialization
    <3>1. used' = [used EXCEPT !.reopen = @ + 1]
        BY <2>4 DEF ReopenInitialization
    <3>2. used.reopen \in Nat /\ used'.reopen = used.reopen + 1
        BY <3>1, <2>type
    <3> QED  BY <3>2
  <2>5. \A h \in Defs : ~Register(h)
      BY DEF Register
  <2> QED  BY <2>1, <2>2, <2>3, <2>4, <2>5 DEF Next
<1>2. Kept <=> (\A d \in Days :
                  row[d].status \in Terminal /\ row'[d] # row[d] =>
                      \/ row'[d].status = "running" /\ lease = row'[d].run
                      \/ used'.reset # used.reset \/ used'.reopen # used.reopen
                      \/ row'[d].hash # row[d].hash \/ row'[d].status = "absent")
    OBVIOUS
<1> HIDE DEF Kept
<1> QED  BY <1>1, <1>2, Decided, PTL DEF Spec, TerminalIsKept

-----------------------------------------------------------------------------
(* One caller at a time *)

Alone == \A r, s \in Runs : Live(r) /\ Live(s) => r = s

Planned == Leased \cup {"planned", "released"}

Fresh(r) ==
    pc[r] \in Early => held[r] = {} /\ buf[r] = {} /\ report[r] = NewReport

\* Claims are gone when the run comes to its end, however it ends.
Clean(r) == pc[r] \notin {"fetching", "failing", "failrunning", "dead"} => Mine(r) = {}

\* No day is in two requests, or in a request and in the buffer.
Apart(r) ==
    pc[r] \in {"planned", "leased", "fetching"} =>
        /\ \A q \in work[r] \cup held[r] : q \subseteq Window(r) /\ q \cap buf[r] = {}
        /\ \A p, q \in work[r] : p = q \/ p \cap q = {}
        /\ \A p, q \in held[r] : p = q \/ p \cap q = {}
        /\ \A p \in work[r], q \in held[r] : p \cap q = {}
        /\ buf[r] \subseteq Window(r)

\* What is in flight or waits to be committed is claimed.
OwnClaims(r) ==
    /\ pc[r] = "fetching" => \A q \in held[r] : q \subseteq Mine(r)
    /\ pc[r] \in {"fetching", "failing"} => buf[r] \subseteq Mine(r)

\* The definition read is the one registered, and the window is under it.
Known(r) ==
    /\ Live(r) => seen[r] = spec
    /\ pc[r] \in Planned =>
         \A d \in Window(r) : row[d].status # "absent" /\ row[d].hash = spec

\* An invalid day is still to be requested, or the run cannot certify.
Covered(r) ==
    pc[r] \in Planned =>
        \A d \in Window(r) : row[d].status = "invalid" =>
            \/ pc[r] \in {"planned", "leased", "fetching"} /\ d \in UNION work[r]
            \/ report[r].bad \/ report[r].cancelled \/ report[r].raised

RunInv(r) == Fresh(r) /\ Clean(r) /\ Apart(r) /\ OwnClaims(r) /\ Known(r) /\ Covered(r)

\* An outcome was obtained under the definition its row carries.
GotInv == \A d \in Days : row[d].status \in Terminal => got[d] = {row[d].hash}

SerialInv == SafetyInv /\ Alone /\ GotInv /\ \A r \in Runs : RunInv(r)

-----------------------------------------------------------------------------
(* Only one run moves *)

\* Starting a call needs that no other is under way.
LEMMA Sole ==
    ASSUME Serial, SerialInv, NEW r \in Runs, Update(r)
    PROVE  \A s \in Runs : s # r => ~Live(s)
<1>1. CASE ReadDeclaration(r)
    BY <1>1 DEF ReadDeclaration, CallAllowed, Quiet
<1>2. CASE ~ReadDeclaration(r)
  <2>1. Live(r)
      BY <1>2 DEF Update, Advance, Fetch, Finish, SynchronizeRequests,
         AcquireLease, RefuseLease, BeginRun, ClaimScopes, SplitRequest, HarvestFailure,
         HarvestDaily, CommitBuffer, CommitFails, EndFetches, FailBuffered,
         FailRunning, CountRemaining, FinalizeRun, CompleteNode, ReleaseLease,
         FinishInitialization, CancelRequested, Interrupt, Crash, Live
  <2> QED  BY <2>1 DEF SerialInv, Alone
<1> QED  BY <1>1, <1>2

\* What the others are owed stays so.
LEMMA OthersSerial ==
    ASSUME Serial, SerialInv, NEW r \in Runs, Update(r), NEW s \in Runs, s # r
    PROVE  RunInv(s)' /\ ~Live(s) /\ ~Live(s)'
<1>1. TypeOK /\ RunInv(s)
    BY DEF SerialInv, SafetyInv
<1>2. Sideways(r) /\ Mine(s)' \subseteq Mine(s)
    BY <1>1, UpdateRows, UpdateSideways, OthersClaims
<1>3. ~Live(s)
    BY Sole
<1>4. pc'[s] = pc[s] /\ held'[s] = held[s] /\ buf'[s] = buf[s] /\ report'[s] = report[s]
    BY <1>2 DEF Sideways
<1>5. ~Live(s)' /\ pc[s] \in {"idle", "done", "dead"}
    BY <1>3, <1>4 DEF Live
<1> QED  BY <1>1, <1>2, <1>3, <1>4, <1>5
         DEF RunInv, Fresh, Clean, Apart, OwnClaims, Known, Covered, Planned, Leased

\* A planned run keeps the definition of its window, step by step.
LEMMA KnownStep ==
    ASSUME SerialInv, NEW r \in Runs, Update(r), pc[r] \in Planned,
           pc'[r] \in Planned => seen'[r] = seen[r] /\ spec' = spec,
           pc'[r] \in Planned \cup {"done", "dead"}
    PROVE  Known(r)'
<1>1. TypeOK /\ Known(r)
    BY DEF SerialInv, SafetyInv, RunInv
<1>2. \A d \in Days : RowStep(r, d)
    BY <1>1, UpdateRows
<1>3. pc[r] # "discovering" /\ Live(r)
    BY DEF Planned, Leased, Live
<1>4. \A d \in Days : /\ row'[d].hash = row[d].hash
                      /\ row[d].status # "absent" => row'[d].status # "absent"
    BY <1>2, <1>3 DEF RowStep, Renewed, Claimed, Settled, Terminal
<1>5. Window(r) \subseteq Days
    BY DEF Window
<1> QED  BY <1>1, <1>3, <1>4, <1>5 DEF Known, Live, Planned, Leased, Window

-----------------------------------------------------------------------------
(* Requests *)

\* Requests lie in what was planned and share no day: two maximal ranges that
\* met would each go on into the other.
LEMMA RequestsApart ==
    ASSUME NEW S \in SUBSET Days, NEW rows,
           NEW p \in Requests(S, rows), NEW q \in Requests(S, rows)
    PROVE  p \subseteq S /\ (p = q \/ p \cap q = {})
<1> DEFINE untouched == IF Backfill
                        THEN {d \in S : rows[d].status = "pending" /\ ~rows[d].tried}
                        ELSE {}
           Range(x) == /\ \E lo, hi \in Days : x = lo .. hi
                       /\ x # {} /\ x \subseteq untouched
                       /\ \A d \in untouched \ x : d - 1 \notin x /\ d + 1 \notin x
           Single(x) == \E d \in S \ untouched : x = {d}
<1>0. untouched \subseteq S
    OBVIOUS
<1>1. ASSUME NEW x \in Requests(S, rows) PROVE Single(x) \/ Range(x)
    BY <1>1 DEF Requests
<1> HIDE DEF untouched
<1>2. \A x : Single(x) \/ Range(x) => x \subseteq S
    BY <1>0
<1>3. ASSUME NEW x, NEW y, Range(x), Range(y), x \cap y # {} PROVE y \subseteq x
  <2>1. PICK a \in Days, b \in Days : x = a .. b
      BY <1>3
  <2>2. PICK c \in Days, e \in Days : y = c .. e
      BY <1>3
  <2>3. PICK m : m \in x /\ m \in y
      BY <1>3
  <2>4. SUFFICES ASSUME NEW n \in y, n \notin x PROVE FALSE
      OBVIOUS
  <2>5. /\ a \in Int /\ b \in Int /\ c \in Int /\ e \in Int /\ m \in Int /\ n \in Int
        /\ a <= m /\ m <= b /\ c <= m /\ m <= e /\ c <= n /\ n <= e
        /\ n < a \/ b < n
      BY <2>1, <2>2, <2>3, <2>4
  <2>6. CASE b < n
    <3>1. b + 1 \in y /\ b + 1 \notin x /\ (b + 1) - 1 \in x
        BY <2>1, <2>2, <2>5, <2>6
    <3> QED  BY <1>3, <3>1
  <2>7. CASE n < a
    <3>1. a - 1 \in y /\ a - 1 \notin x /\ (a - 1) + 1 \in x
        BY <2>1, <2>2, <2>5, <2>7
    <3> QED  BY <1>3, <3>1
  <2> QED  BY <2>5, <2>6, <2>7
<1>4. \A x, y : Single(x) /\ (Single(y) \/ Range(y)) => x = y \/ x \cap y = {}
    OBVIOUS
<1>5. Range(p) /\ Range(q) /\ p \cap q # {} => p = q
  <2>1. Range(p) /\ Range(q) /\ p \cap q # {} => q \subseteq p
      BY <1>3
  <2>2. Range(p) /\ Range(q) /\ q \cap p # {} => p \subseteq q
      BY <1>3
  <2> QED  BY <2>1, <2>2
<1>6. (Single(p) \/ Range(p)) /\ (Single(q) \/ Range(q))
    BY <1>1
<1> HIDE DEF Single, Range
<1> QED  BY <1>2, <1>4, <1>5, <1>6

\* A day that is not untouched has a request of its own.
LEMMA InvalidRequested ==
    ASSUME NEW S, NEW rows, NEW d \in S, rows[d].status # "pending"
    PROVE  d \in UNION Requests(S, rows)
<1>1. {d} \in Requests(S, rows)
    BY DEF Requests
<1> QED  BY <1>1

-----------------------------------------------------------------------------
(* The fetch loop of the only run *)

\* The shapes and the parts of the invariant that the steps use.
LEMMA SerialFacts ==
    ASSUME SerialInv, NEW r \in Runs
    PROVE  /\ TypeOK /\ SafetyInv /\ GotInv /\ RunInv(r)
           /\ row \in [Days -> Row] /\ pc \in [Runs -> Phases] /\ spec \in Defs
           /\ report[r] \in Report /\ report \in [Runs -> Report]
           /\ work \in [Runs -> SUBSET SUBSET Days]
           /\ held \in [Runs -> SUBSET SUBSET Days] /\ buf \in [Runs -> SUBSET Days]
           /\ got \in [Days -> SUBSET Defs] /\ seen \in [Runs -> Defs]
           /\ Window(r) \subseteq Days
<1>1. TypeOK /\ SafetyInv /\ GotInv /\ RunInv(r)
    BY DEF SerialInv, SafetyInv
<1>2. Window(r) \subseteq Days
    BY DEF Window
<1> QED  BY <1>1, <1>2 DEF TypeOK

\* A step of the loop goes on with its requests apart, or raises.
LEMMA FetchingSerial ==
    ASSUME SerialInv, NEW r \in Runs, Update(r), pc[r] = "fetching",
           spec' = spec, seen'[r] = seen[r], buf'[r] \subseteq Mine(r)',
           \/ pc'[r] = "fetching" /\ Apart(r)' /\ Covered(r)'
              /\ \A q \in held'[r] : q \subseteq Mine(r)'
           \/ pc'[r] = "failing" /\ report'[r].raised
    PROVE  RunInv(r)'
<1>1. Known(r)'
    BY KnownStep DEF Planned, Leased
<1>2. Fresh(r)' /\ Clean(r)' /\ Apart(r)' /\ OwnClaims(r)' /\ Covered(r)'
    BY DEF Fresh, Clean, Apart, OwnClaims, Covered, Early
<1> QED  BY <1>1, <1>2 DEF RunInv

\* A change of one field of a report leaves the others.
LEMMA ReportFields ==
    ASSUME NEW rep \in Report, NEW b \in BOOLEAN
    PROVE  /\ LET new == [rep EXCEPT !.bad = b] IN
                 /\ new \in Report /\ new.bad = b /\ new.cancelled = rep.cancelled
                 /\ new.raised = rep.raised /\ new.fatal = rep.fatal
                 /\ new.remaining = rep.remaining
           /\ LET new == [rep EXCEPT !.empty = b] IN
                 /\ new \in Report /\ new.bad = rep.bad /\ new.cancelled = rep.cancelled
                 /\ new.raised = rep.raised /\ new.fatal = rep.fatal
           /\ LET new == [rep EXCEPT !.success = b] IN
                 /\ new \in Report /\ new.bad = rep.bad /\ new.cancelled = rep.cancelled
                 /\ new.raised = rep.raised /\ new.fatal = rep.fatal
           /\ LET new == [rep EXCEPT !.cancelled = b] IN
                 /\ new \in Report /\ new.bad = rep.bad /\ new.cancelled = b
                 /\ new.raised = rep.raised /\ new.fatal = rep.fatal
           /\ LET new == [rep EXCEPT !.remaining = b] IN
                 /\ new \in Report /\ new.bad = rep.bad /\ new.cancelled = rep.cancelled
                 /\ new.raised = rep.raised /\ new.fatal = rep.fatal
                 /\ new.remaining = b
BY DEF Report

\* Going on or raising with a report: where the run is, and what it reports.
LEMMA Moved ==
    ASSUME TypeOK, NEW r \in Runs, NEW rep \in Report
    PROVE  /\ Proceed(r, rep) => pc'[r] = pc[r] /\ report'[r] = rep
           /\ Raise(r, rep) => pc'[r] = "failing" /\ report'[r].raised
           /\ \A c : RaiseWith(r, rep, c) => pc'[r] = "failing" /\ report'[r].raised
<1>1. report \in [Runs -> Report] /\ pc \in [Runs -> Phases]
    BY DEF TypeOK
<1>2. \A c : RaiseWith(r, rep, c) => pc'[r] = "failing" /\ report'[r].raised
    BY <1>1 DEF RaiseWith, Report
<1> QED  BY <1>1, <1>2 DEF Proceed, Raise

\* A request that is not yet claimed has only days nobody has claimed.
LEMMA WorkIsFree ==
    ASSUME SerialInv, NEW r \in Runs, pc[r] = "fetching", NEW q \in work[r], NEW d \in q
    PROVE  d \in Days /\ row[d].status \in Claimable /\ d \notin Mine(r)
<1>1. /\ Apart(r) /\ Known(r) /\ row \in [Days -> Row]
      /\ Mine(r) \subseteq (UNION held[r]) \cup buf[r]
    BY SerialFacts DEF RunInv, SafetyInv, ClaimsAccountedFor, Accounted
<1>2. d \in Window(r) /\ d \in Days
    BY <1>1, SerialFacts DEF Apart
<1>3. d \notin UNION held[r] /\ d \notin buf[r]
    BY <1>1 DEF Apart
<1>4. row[d].status # "absent"
    BY <1>1, <1>2 DEF Known, Planned, Leased
<1>5. row[d].status # "running"
  <2>1. SUFFICES ASSUME row[d].status = "running" PROVE FALSE
      OBVIOUS
  <2>2. row[d].run \in Runs /\ d \in Mine(row[d].run)
      BY <1>2, <2>1 DEF SerialInv, SafetyInv, ClaimHasRun, Mine
  <2>3. pc[row[d].run] \notin {"released", "done"}
      BY <2>2 DEF SerialInv, RunInv, Clean
  <2>4. lease = row[d].run /\ lease = r
      BY <1>2, <2>1, <2>3 DEF SerialInv, SafetyInv, LiveClaimIsLeased, ExclusiveUpdate, Leased
  <2> QED  BY <1>1, <1>3, <2>2, <2>4
<1>6. row[d].status \in ScopeStatus
    BY <1>2, <1>1 DEF Row
<1> QED  BY <1>1, <1>2, <1>3, <1>4, <1>5, <1>6
         DEF ScopeStatus, Claimable, Retryable, Terminal

\* A claim takes the whole request: no other call has touched its days.
LEMMA ClaimSerial ==
    ASSUME SerialInv, NEW r \in Runs, ClaimScopes(r) PROVE RunInv(r)' /\ GotInv'
<1>type. /\ TypeOK /\ row \in [Days -> Row] /\ report[r] \in Report
         /\ held \in [Runs -> SUBSET SUBSET Days] /\ work \in [Runs -> SUBSET SUBSET Days]
         /\ RunInv(r) /\ GotInv /\ Window(r) \subseteq Days
    BY SerialFacts
<1>at. /\ pc[r] = "fetching" /\ buf' = buf /\ got' = got /\ spec' = spec /\ seen' = seen
       /\ Apart(r) /\ OwnClaims(r) /\ Covered(r)
    BY <1>type DEF ClaimScopes, RunInv
<1>1. PICK q \in work[r] :
        LET free == {d \in q : row[d].status \in Claimable} IN
        /\ row' = [d \in Days |->
                     IF d \in free
                     THEN [row[d] EXCEPT !.status = "running", !.run = r,
                                         !.tried = TRUE]
                     ELSE row[d]]
        /\ \/ /\ free = q
              /\ held' = [held EXCEPT ![r] = @ \cup {q}]
              /\ work' = [work EXCEPT ![r] = @ \ {q}]
              /\ Proceed(r, report[r])
           \/ free = {} /\ q # {}
           \/ free # q
    BY DEF ClaimScopes
<1>2. {d \in q : row[d].status \in Claimable} = q
    BY <1>at, WorkIsFree
<1>3. /\ row' = [d \in Days |->
                   IF d \in q
                   THEN [row[d] EXCEPT !.status = "running", !.run = r, !.tried = TRUE]
                   ELSE row[d]]
      /\ held' = [held EXCEPT ![r] = @ \cup {q}]
      /\ work' = [work EXCEPT ![r] = @ \ {q}]
      /\ Proceed(r, report[r])
    BY <1>1, <1>2
<1>4. /\ held'[r] = held[r] \cup {q} /\ work'[r] = work[r] \ {q}
      /\ pc'[r] = "fetching" /\ report'[r] = report[r]
    BY <1>3, <1>at, <1>type, Moved
<1>5. \A d \in Days : /\ d \notin q => row'[d] = row[d]
                      /\ d \in q => row'[d].status = "running" /\ row'[d].run = r
  <2> SUFFICES ASSUME NEW d \in Days
               PROVE  /\ d \notin q => row'[d] = row[d]
                      /\ d \in q => row'[d].status = "running" /\ row'[d].run = r
      OBVIOUS
  <2>1. row[d] \in Row
      BY <1>type
  <2> QED  BY <1>3, <2>1 DEF Row
<1>6. /\ q \subseteq Days
      /\ \A x \in held[r] : x \cap q = {} /\ x \subseteq Days
      /\ buf[r] \cap q = {} /\ \A x \in work[r] : x = q \/ x \cap q = {}
    BY <1>at, <1>type DEF Apart
<1>7. \A d \in Mine(r) : d \notin q => d \in Mine(r)'
    BY <1>5 DEF Mine
<1>8. q \subseteq Mine(r)'
    BY <1>5, <1>6 DEF Mine
<1>9. \A x \in held'[r] : x \subseteq Mine(r)'
    BY <1>4, <1>6, <1>7, <1>8, <1>at DEF OwnClaims
<1>10. buf'[r] \subseteq Mine(r)'
    BY <1>6, <1>7, <1>at DEF OwnClaims
<1>11. Apart(r)'
  <2>1. /\ \A p \in work[r] \ {q}, x \in held[r] \cup {q} : p \cap x = {}
        /\ \A p, x \in held[r] \cup {q} : p = x \/ p \cap x = {}
        /\ \A p, x \in work[r] \ {q} : p = x \/ p \cap x = {}
        /\ \A x \in (work[r] \ {q}) \cup (held[r] \cup {q}) :
              x \subseteq Window(r) /\ x \cap buf[r] = {}
        /\ buf[r] \subseteq Window(r)
      BY <1>at, <1>6 DEF Apart
  <2> QED  BY <2>1, <1>4, <1>at DEF Apart, Window
<1>12. Covered(r)'
  <2> SUFFICES ASSUME NEW d \in Window(r), row'[d].status = "invalid"
               PROVE  \/ d \in UNION work'[r]
                      \/ report'[r].bad \/ report'[r].cancelled \/ report'[r].raised
      BY <1>4 DEF Covered, Window
  <2>1. d \in Days /\ d \notin q /\ row'[d] = row[d]
      BY <1>5, <1>type
  <2>2. \/ d \in UNION work[r]
        \/ report[r].bad \/ report[r].cancelled \/ report[r].raised
      BY <2>1, <1>at DEF Covered, Planned, Leased
  <2> QED  BY <2>1, <2>2, <1>4
<1>13. GotInv'
    BY <1>5, <1>at, <1>type DEF GotInv, Terminal
<1>14. Update(r)
    BY DEF Update, Advance, Fetch
<1> QED  BY <1>4, <1>9, <1>10, <1>11, <1>12, <1>13, <1>14, <1>at, FetchingSerial

\* The halves of a request share no day.
LEMMA SplitSerial ==
    ASSUME SerialInv, NEW r \in Runs, SplitRequest(r) PROVE RunInv(r)' /\ GotInv'
<1>type. /\ TypeOK /\ row \in [Days -> Row] /\ held \in [Runs -> SUBSET SUBSET Days]
         /\ RunInv(r) /\ GotInv
    BY SerialFacts
<1>at. /\ pc[r] = "fetching" /\ UNCHANGED <<durable, pc, seen, work, buf, report>>
       /\ Apart(r) /\ OwnClaims(r) /\ Covered(r)
    BY <1>type DEF SplitRequest, RunInv
<1>same. /\ row' = row /\ got' = got /\ spec' = spec /\ seen' = seen /\ pc' = pc
         /\ work' = work /\ buf' = buf /\ report' = report
    BY <1>at DEF durable
<1>1. PICK q, low : /\ q \in held[r] /\ low \subseteq q
                    /\ held' = [held EXCEPT ![r] = (@ \ {q}) \cup {low, q \ low}]
  <2>1. \A q : {d \in q : Cardinality({e \in q : e < d}) < Cardinality(q) \div 2} \subseteq q
      OBVIOUS
  <2> QED  BY <2>1 DEF SplitRequest
<1>2. held'[r] = (held[r] \ {q}) \cup {low, q \ low}
    BY <1>1, <1>type
<1>3. Mine(r)' = Mine(r)
    BY <1>same DEF Mine
<1>4. \A x \in held'[r] : \E y \in held[r] : x \subseteq y
    BY <1>1, <1>2
<1>5. \A x \in held'[r] : x \subseteq Mine(r)'
    BY <1>3, <1>4, <1>at DEF OwnClaims
<1>6. Apart(r)'
  <2>1. \A x, y \in held'[r] : x = y \/ x \cap y = {}
    <3>1. \A x \in held[r] \ {q} : x \cap q = {}
        BY <1>1, <1>at DEF Apart
    <3>2. \A x, y \in held[r] \ {q} : x = y \/ x \cap y = {}
        BY <1>at DEF Apart
    <3>3. ASSUME NEW x \in held'[r], NEW y \in held'[r] PROVE x = y \/ x \cap y = {}
      <4>1. CASE x \in held[r] \ {q} /\ y \in held[r] \ {q}
          BY <3>2, <4>1
      <4>2. CASE x \in held[r] \ {q} /\ y \in {low, q \ low}
          BY <1>1, <3>1, <4>2
      <4>3. CASE x \in {low, q \ low} /\ y \in held[r] \ {q}
          BY <1>1, <3>1, <4>3
      <4>4. CASE x \in {low, q \ low} /\ y \in {low, q \ low}
          BY <4>4
      <4> QED  BY <1>2, <4>1, <4>2, <4>3, <4>4
    <3> QED  BY <3>3
  <2>2. \A x \in held'[r] : x \subseteq Window(r) /\ x \cap buf[r] = {}
      BY <1>4, <1>at DEF Apart
  <2>3. \A p \in work[r], x \in held'[r] : p \cap x = {}
      BY <1>4, <1>at DEF Apart
  <2> QED  BY <2>1, <2>2, <2>3, <1>same, <1>at DEF Apart, Window
<1>7. Covered(r)' /\ GotInv'
    BY <1>same, <1>at, <1>type DEF Covered, GotInv, Window
<1>8. Update(r) /\ buf'[r] \subseteq Mine(r)'
    BY <1>same, <1>3, <1>at DEF Update, Advance, Fetch, OwnClaims
<1> QED  BY <1>5, <1>6, <1>7, <1>8, <1>same, <1>at, FetchingSerial

\* A harvested request leaves the hands of the run: some of its days are
\* settled, others go to the buffer.
LEMMA HarvestKeeps ==
    ASSUME SerialInv, NEW r \in Runs, pc[r] = "fetching", NEW q \in held[r],
           NEW S, S \subseteq q, NEW full, full \subseteq q \ S,
           NEW st, NEW why, row' = Settle(S, st, why),
           held' = [held EXCEPT ![r] = @ \ {q}], work' = work,
           buf' = [buf EXCEPT ![r] = @ \cup full]
    PROVE  /\ Apart(r)' /\ buf'[r] \subseteq Mine(r)'
           /\ \A x \in held'[r] : x \subseteq Mine(r)'
<1>type. /\ row \in [Days -> Row] /\ held \in [Runs -> SUBSET SUBSET Days]
         /\ buf \in [Runs -> SUBSET Days] /\ RunInv(r)
    BY SerialFacts
<1>at. Apart(r) /\ OwnClaims(r)
    BY <1>type DEF RunInv
<1>1. held'[r] = held[r] \ {q} /\ buf'[r] = buf[r] \cup full /\ work'[r] = work[r]
    BY <1>type
<1>2. \A d \in Days : d \notin S => row'[d] = row[d]
    BY <1>type, SettleAt
<1>3. \A d \in Mine(r) : d \notin S => d \in Mine(r)'
    BY <1>2 DEF Mine
<1>4. /\ \A x \in held'[r] : x \cap q = {}
      /\ q \cap buf[r] = {} /\ q \subseteq Window(r)
      /\ \A p \in work[r] : p \cap q = {}
    BY <1>1, <1>at DEF Apart
<1>5. \A x \in held'[r] : x \subseteq Mine(r)'
    BY <1>1, <1>3, <1>4, <1>at DEF OwnClaims
<1>6. buf'[r] \subseteq Mine(r)'
    BY <1>1, <1>3, <1>4, <1>at DEF OwnClaims
<1>7. Apart(r)'
  <2>1. \A p, x \in held'[r] : p = x \/ p \cap x = {}
      BY <1>1, <1>at DEF Apart
  <2>2. ASSUME NEW x \in work[r] \cup held'[r]
        PROVE  x \subseteq Window(r) /\ x \cap buf'[r] = {}
    <3>1. x \subseteq Window(r) /\ x \cap buf[r] = {} /\ x \cap q = {}
        BY <1>1, <1>4, <1>at DEF Apart
    <3> QED  BY <1>1, <3>1
  <2>3. \A p \in work[r], x \in held'[r] : p \cap x = {}
      BY <1>1, <1>at DEF Apart
  <2>4. buf'[r] \subseteq Window(r)
      BY <1>1, <1>4, <1>at DEF Apart
  <2>5. \A p, x \in work[r] : p = x \/ p \cap x = {}
      BY <1>at DEF Apart
  <2> QED  BY <1>1, <2>1, <2>2, <2>3, <2>4, <2>5 DEF Apart, Window
<1> QED  BY <1>5, <1>6, <1>7

\* An invalid day stays covered while rows only leave that status, or become
\* invalid in a step that is reported.
LEMMA CoveredKept ==
    ASSUME SerialInv, NEW r \in Runs, pc[r] = "fetching", work' = work,
           pc'[r] = "fetching",
           \/ report'[r].bad \/ report'[r].cancelled
           \/ /\ \A d \in Days : row'[d].status = "invalid" => row[d].status = "invalid"
              /\ report'[r].bad = report[r].bad
              /\ report'[r].cancelled = report[r].cancelled
              /\ report'[r].raised = report[r].raised
    PROVE  Covered(r)'
<1>1. Covered(r) /\ Window(r) \subseteq Days
    BY SerialFacts DEF RunInv
<1> QED  BY <1>1 DEF Covered, Planned, Leased, Window

\* Settling as failed or invalid makes no outcome.
LEMMA GotKept ==
    ASSUME row \in [Days -> Row], GotInv, got' = got, NEW S, NEW st, NEW why,
           st \notin Terminal, row' = row \/ row' = Settle(S, st, why)
    PROVE  GotInv'
<1> SUFFICES ASSUME NEW d \in Days, row'[d].status \in Terminal
             PROVE  got[d] = {row'[d].hash}
    BY DEF GotInv
<1>1. row'[d] = row[d]
  <2>1. CASE row' = row
      BY <2>1
  <2>2. CASE row' = Settle(S, st, why)
      BY <2>2, SettleAt
  <2> QED  BY <2>1, <2>2
<1> QED  BY <1>1 DEF GotInv

\* A failed response settles its days and shows in the report.
LEMMA HarvestFailureSerial ==
    ASSUME SerialInv, NEW r \in Runs, HarvestFailure(r) PROVE RunInv(r)' /\ GotInv'
<1>type. /\ TypeOK /\ row \in [Days -> Row] /\ report[r] \in Report
         /\ held \in [Runs -> SUBSET SUBSET Days] /\ buf \in [Runs -> SUBSET Days]
         /\ RunInv(r) /\ GotInv
    BY SerialFacts
<1>at. /\ pc[r] = "fetching" /\ work' = work /\ buf' = buf /\ got' = got /\ spec' = spec
       /\ seen' = seen /\ OwnClaims(r)
    BY <1>type DEF HarvestFailure, RunInv
<1>1. PICK q \in held[r], outcome \in {"failed", "cancelled"} \cup Reasons :
        FailedResponse(r, q, outcome)
    BY DEF HarvestFailure
<1>2. Owned(r, q)
    BY <1>at DEF OwnClaims, Owned, Mine
<1> DEFINE cancelled == report[r].cancelled \/ outcome = "cancelled"
           rep == [report[r] EXCEPT !.cancelled = cancelled]
           last == [rep EXCEPT !.bad = TRUE]
<1>3. /\ held' = [held EXCEPT ![r] = @ \ {q}]
      /\ \E st \in {"invalid", "failed"} : \E why : row' = Settle(q, st, why)
      /\ Proceed(r, last)
    BY <1>1, <1>2 DEF FailedResponse
<1>4. last \in Report /\ last.bad
  <2>1. cancelled \in BOOLEAN  OBVIOUS
  <2> HIDE DEF cancelled
  <2>2. rep \in Report
      BY <2>1, <1>type, ReportFields
  <2> HIDE DEF rep
  <2> QED  BY <2>2, ReportFields
<1> HIDE DEF last
<1>5. PICK st, why : row' = Settle(q, st, why) /\ st \in {"invalid", "failed"}
    BY <1>3
<1>6. pc'[r] = "fetching" /\ report'[r].bad
    BY <1>3, <1>4, <1>at, <1>type, Moved
<1>7. buf' = [buf EXCEPT ![r] = @ \cup {}]
    BY <1>at, <1>type
<1>8. /\ Apart(r)' /\ buf'[r] \subseteq Mine(r)'
      /\ \A x \in held'[r] : x \subseteq Mine(r)'
    BY <1>3, <1>5, <1>7, <1>at, HarvestKeeps
<1>9. Covered(r)' /\ GotInv'
    BY <1>5, <1>6, <1>at, <1>type, CoveredKept, GotKept DEF Terminal
<1>10. Update(r)
    BY DEF Update, Advance, Fetch
<1> QED  BY <1>6, <1>8, <1>9, <1>10, <1>at, FetchingSerial

\* Empty days have their outcome under the definition read, which is registered;
\* missing days show in the report.
LEMMA HarvestDailySerial ==
    ASSUME SerialInv, NEW r \in Runs, HarvestDaily(r) PROVE RunInv(r)' /\ GotInv'
<1>type. /\ TypeOK /\ row \in [Days -> Row] /\ report[r] \in Report
         /\ held \in [Runs -> SUBSET SUBSET Days] /\ buf \in [Runs -> SUBSET Days]
         /\ RunInv(r) /\ GotInv /\ got \in [Days -> SUBSET Defs] /\ Window(r) \subseteq Days
    BY SerialFacts
<1>at. /\ pc[r] = "fetching" /\ work' = work /\ spec' = spec /\ seen' = seen
       /\ OwnClaims(r) /\ Apart(r) /\ Known(r)
    BY <1>type DEF HarvestDaily, RunInv
<1>1. PICK q \in held[r], full \in SUBSET Days :
        /\ full \subseteq q
        /\ held' = [held EXCEPT ![r] = @ \ {q}]
        /\ \/ EmptyResponse(r, (q \ full) \ Required, full)
           \/ SparseResponse(r, (q \ full) \cap Required, (q \ full) \ Required, full)
    BY <1>type DEF HarvestDaily
<1>2. q \subseteq Mine(r) /\ q \subseteq Window(r) /\ Update(r)
    BY <1>at DEF OwnClaims, Apart, Update, Advance, Fetch
<1>3. CASE EmptyResponse(r, (q \ full) \ Required, full)
  <2> DEFINE S == (q \ full) \ Required
             empty == report[r].empty \/ S # {}
             rep == [report[r] EXCEPT !.empty = empty]
  <2>1. S \subseteq q /\ full \subseteq q \ S
      BY <1>1
  <2>2. EmptyResponse(r, S, full)
      BY <1>3
  <2> HIDE DEF S
  <2>3. Owned(r, S)
      BY <1>2, <2>1 DEF Owned, Mine
  <2>4. /\ row' = Settle(S, "empty", "none")
        /\ got' = [d \in Days |-> IF d \in S THEN {seen[r]} ELSE got[d]]
        /\ buf' = [buf EXCEPT ![r] = @ \cup full]
        /\ Proceed(r, rep)
      BY <2>2, <2>3 DEF EmptyResponse
  <2>5. /\ rep \in Report /\ rep.bad = report[r].bad /\ rep.cancelled = report[r].cancelled
        /\ rep.raised = report[r].raised
    <3>1. empty \in BOOLEAN  OBVIOUS
    <3>2. \A b \in BOOLEAN :
            LET new == [report[r] EXCEPT !.empty = b] IN
            /\ new \in Report /\ new.bad = report[r].bad
            /\ new.cancelled = report[r].cancelled /\ new.raised = report[r].raised
      <4>1. report[r] \in Report  BY <1>type
      <4> QED  BY <4>1 DEF Report
    <3> HIDE DEF empty
    <3> QED  BY <3>1, <3>2, Zenon
  <2> HIDE DEF rep
  <2>6. pc'[r] = "fetching" /\ report'[r] = rep
      BY <2>4, <2>5, <1>at, <1>type, Moved
  <2>7. /\ Apart(r)' /\ buf'[r] \subseteq Mine(r)'
        /\ \A x \in held'[r] : x \subseteq Mine(r)'
      BY <1>1, <1>at, <2>1, <2>4, HarvestKeeps
  <2>8. \A d \in Days : /\ d \in S => row'[d].status = "empty" /\ row'[d].hash = row[d].hash
                        /\ d \notin S => row'[d] = row[d]
      BY <2>4, <1>type, SettleAt
  <2>9. Covered(r)'
      BY <2>5, <2>6, <2>8, <1>at, CoveredKept
  <2>10. GotInv'
    <3>1. \A d \in S : row[d].hash = seen[r]
        BY <1>2, <2>1, <1>at DEF Known, Planned, Leased, Live
    <3> QED  BY <2>4, <2>8, <3>1, <1>type DEF GotInv
  <2> QED  BY <1>2, <2>6, <2>7, <2>9, <2>10, <1>at, FetchingSerial
<1>4. CASE SparseResponse(r, (q \ full) \cap Required, (q \ full) \ Required, full)
  <2> DEFINE S == (q \ full) \cap Required
  <2>1. S \subseteq q /\ full \subseteq q \ S
      BY <1>1
  <2>2. SparseResponse(r, S, (q \ full) \ Required, full)
      BY <1>4
  <2> HIDE DEF S
  <2>3. Owned(r, S)
      BY <1>2, <2>1 DEF Owned, Mine
  <2>4. PICK done \in SettledByLoop(r, S) :
          LET rep == [report[r] EXCEPT !.bad = @ \/ done # {}] IN
          /\ row' = Settle(done, "invalid", "other") /\ got' = got
          /\ \/ buf' = [buf EXCEPT ![r] = @ \cup full] /\ Proceed(r, rep)
             \/ buf' = buf /\ Raise(r, rep)
      BY <2>2 DEF SparseResponse
  <2>5. done = S
      BY <2>3, <2>4 DEF SettledByLoop
  <2> DEFINE bad == report[r].bad \/ done # {}
             rep == [report[r] EXCEPT !.bad = bad]
  <2>6. /\ row' = Settle(S, "invalid", "other") /\ got' = got
        /\ \/ buf' = [buf EXCEPT ![r] = @ \cup full] /\ Proceed(r, rep)
           \/ buf' = buf /\ Raise(r, rep)
      BY <2>4, <2>5
  <2>7. /\ rep \in Report /\ (rep.bad <=> (report[r].bad \/ S # {}))
        /\ rep.cancelled = report[r].cancelled /\ rep.raised = report[r].raised
    <3>1. bad \in BOOLEAN /\ (bad <=> (report[r].bad \/ S # {}))
        BY <2>5
    <3>2. \A b \in BOOLEAN :
            LET new == [report[r] EXCEPT !.bad = b] IN
            /\ new \in Report /\ new.bad = b
            /\ new.cancelled = report[r].cancelled /\ new.raised = report[r].raised
      <4>1. report[r] \in Report  BY <1>type
      <4> QED  BY <4>1 DEF Report
    <3> HIDE DEF bad
    <3> QED  BY <3>1, <3>2, Zenon
  <2> HIDE DEF rep
  <2>8. GotInv'
    <3>1. "invalid" \notin Terminal
        BY DEF Terminal
    <3> QED  BY <2>6, <3>1, <1>type, GotKept
  <2>9. CASE buf' = [buf EXCEPT ![r] = @ \cup full] /\ Proceed(r, rep)
    <3>1. pc'[r] = "fetching" /\ report'[r] = rep
        BY <2>7, <2>9, <1>at, <1>type, Moved
    <3>2. /\ Apart(r)' /\ buf'[r] \subseteq Mine(r)'
          /\ \A x \in held'[r] : x \subseteq Mine(r)'
        BY <1>1, <1>at, <2>1, <2>6, <2>9, HarvestKeeps
    <3>3. Covered(r)'
      <4>1. S = {} => \A d \in Days : row'[d] = row[d]
          BY <2>6, <1>type, SettleAt
      <4>2. report[r].bad \in BOOLEAN /\ rep.bad \in BOOLEAN
          BY <2>7, <1>type DEF Report
      <4> QED  BY <2>7, <3>1, <4>1, <4>2, <1>at, CoveredKept
    <3> QED  BY <1>2, <2>8, <3>1, <3>2, <3>3, <1>at, FetchingSerial
  <2>10. CASE buf' = buf /\ Raise(r, rep)
    <3>1. pc'[r] = "failing" /\ report'[r].raised
        BY <2>7, <2>10, <1>type, Moved
    <3>2. buf[r] \cap S = {} /\ buf[r] \subseteq Mine(r)
        BY <2>1, <1>at DEF Apart, OwnClaims
    <3>3. buf'[r] \subseteq Mine(r)'
        BY <2>6, <2>10, <3>2, <1>type, SettleAt DEF Mine
    <3> QED  BY <1>2, <2>8, <3>1, <3>3, <1>at, FetchingSerial
  <2> QED  BY <2>6, <2>9, <2>10
<1> QED  BY <1>1, <1>3, <1>4

\* A published buffer has its outcome under the definition just checked.
LEMMA CommitBufferSerial ==
    ASSUME SerialInv, NEW r \in Runs, CommitBuffer(r) PROVE RunInv(r)' /\ GotInv'
<1>type. /\ TypeOK /\ row \in [Days -> Row] /\ report[r] \in Report
         /\ held \in [Runs -> SUBSET SUBSET Days] /\ buf \in [Runs -> SUBSET Days]
         /\ RunInv(r) /\ GotInv /\ got \in [Days -> SUBSET Defs] /\ Window(r) \subseteq Days
    BY SerialFacts
<1>at. /\ pc[r] = "fetching" /\ work' = work /\ held' = held /\ spec' = spec /\ seen' = seen
       /\ row' = Settle(buf[r], "success", "none")
       /\ got' = [d \in Days |-> IF d \in buf[r] THEN {seen[r]} ELSE got[d]]
       /\ Proceed(r, [report[r] EXCEPT !.success = TRUE])
       /\ OwnClaims(r) /\ Apart(r) /\ Known(r) /\ Update(r)
    BY <1>type DEF CommitBuffer, RunInv, Update, Advance, Fetch
<1>1. buf'[r] = {}
    BY <1>type DEF CommitBuffer
<1> DEFINE rep == [report[r] EXCEPT !.success = TRUE]
<1>2. /\ rep \in Report /\ rep.bad = report[r].bad /\ rep.cancelled = report[r].cancelled
      /\ rep.raised = report[r].raised
    BY <1>type, ReportFields
<1> HIDE DEF rep
<1>3. pc'[r] = "fetching" /\ report'[r] = rep
    BY <1>2, <1>at, <1>type, Moved DEF rep
<1>4. \A d \in Days :
        /\ d \in buf[r] => row'[d].status = "success" /\ row'[d].hash = row[d].hash
        /\ d \notin buf[r] => row'[d] = row[d]
    BY <1>at, <1>type, SettleAt
<1>5. \A q \in held'[r] : q \subseteq Mine(r)'
  <2>1. \A q \in held[r] : q \subseteq Mine(r) /\ q \cap buf[r] = {}
      BY <1>at DEF OwnClaims, Apart
  <2>2. \A d \in Mine(r) : d \notin buf[r] => d \in Mine(r)'
      BY <1>4 DEF Mine
  <2> QED  BY <2>1, <2>2, <1>at
<1>6. Apart(r)'
  <2>1. held'[r] = held[r] /\ work'[r] = work[r]
      BY <1>at
  <2> QED  BY <1>1, <1>at, <2>1 DEF Apart, Window
<1>7. Covered(r)'
  <2>1. \A d \in Days : row'[d].status = "invalid" => row[d].status = "invalid"
      BY <1>4
  <2> QED  BY <1>2, <1>3, <1>at, <2>1, CoveredKept
<1>8. GotInv'
  <2>1. \A d \in buf[r] : row[d].hash = seen[r]
      BY <1>at DEF Known, Planned, Leased, Live, Apart
  <2> QED  BY <1>4, <1>at, <1>type, <2>1 DEF GotInv
<1> QED  BY <1>1, <1>3, <1>5, <1>6, <1>7, <1>8, <1>at, FetchingSerial

\* A failed commit, a cancellation and an interruption make no outcome.
LEMMA CommitFailsSerial ==
    ASSUME SerialInv, NEW r \in Runs, CommitFails(r) PROVE RunInv(r)' /\ GotInv'
<1>type. /\ TypeOK /\ row \in [Days -> Row] /\ report[r] \in Report
         /\ buf \in [Runs -> SUBSET Days] /\ GotInv
    BY SerialFacts
<1>at. /\ pc[r] = "fetching" /\ spec' = spec /\ seen' = seen /\ got' = got /\ Update(r)
    BY DEF CommitFails, Update, Advance, Fetch
<1>1. buf'[r] = {}
    BY <1>type DEF CommitFails
<1>2. PICK done : /\ row' = Settle(done, "failed", "other")
                  /\ Raise(r, [report[r] EXCEPT !.bad = @ \/ done # {}])
    BY DEF CommitFails
<1> DEFINE bad == report[r].bad \/ done # {}
           rep == [report[r] EXCEPT !.bad = bad]
<1>3. rep \in Report /\ Raise(r, rep)
  <2>1. bad \in BOOLEAN /\ Raise(r, rep)
      BY <1>2
  <2> HIDE DEF bad
  <2> QED  BY <1>type, <2>1, ReportFields
<1> HIDE DEF rep
<1>4. pc'[r] = "failing" /\ report'[r].raised
    BY <1>3, <1>type, Moved
<1>5. GotInv'
  <2>1. "failed" \notin Terminal
      BY DEF Terminal
  <2> QED  BY <1>2, <1>at, <1>type, <2>1, GotKept
<1> QED  BY <1>1, <1>4, <1>5, <1>at, FetchingSerial

\* A cancellation shows in the report.
LEMMA CancelSerial ==
    ASSUME SerialInv, NEW r \in Runs, CancelRequested(r) PROVE RunInv(r)' /\ GotInv'
<1>type. TypeOK /\ report[r] \in Report /\ RunInv(r) /\ GotInv
    BY SerialFacts
<1>at. /\ pc[r] = "fetching" /\ row' = row /\ spec' = spec /\ seen' = seen /\ got' = got
       /\ work' = work /\ held' = held /\ buf' = buf /\ Update(r)
       /\ Apart(r) /\ OwnClaims(r) /\ Proceed(r, [report[r] EXCEPT !.cancelled = TRUE])
    BY <1>type DEF CancelRequested, durable, Update, RunInv
<1>1. LET rep == [report[r] EXCEPT !.cancelled = TRUE] IN rep \in Report /\ rep.cancelled
    BY <1>type, ReportFields
<1>2. pc'[r] = "fetching" /\ report'[r].cancelled
    BY <1>1, <1>at, <1>type, Moved
<1>3. Apart(r)' /\ buf'[r] \subseteq Mine(r)' /\ \A q \in held'[r] : q \subseteq Mine(r)'
    BY <1>2, <1>at DEF Apart, OwnClaims, Mine, Window
<1>4. Covered(r)' /\ GotInv'
    BY <1>2, <1>at, <1>type, CoveredKept DEF GotInv
<1> QED  BY <1>2, <1>3, <1>4, <1>at, FetchingSerial

\* An interruption leaves the buffer claimed.
LEMMA InterruptSerial ==
    ASSUME SerialInv, NEW r \in Runs, Interrupt(r) PROVE RunInv(r)' /\ GotInv'
<1>type. TypeOK /\ report[r] \in Report /\ RunInv(r) /\ GotInv
    BY SerialFacts
<1>at. /\ pc[r] = "fetching" /\ row' = row /\ spec' = spec /\ seen' = seen /\ got' = got
       /\ buf' = buf /\ Update(r) /\ OwnClaims(r)
    BY <1>type DEF Interrupt, durable, Update, RunInv
<1>1. pc'[r] = "failing" /\ report'[r].raised
    BY <1>type, Moved DEF Interrupt
<1>2. buf'[r] \subseteq Mine(r)' /\ GotInv'
    BY <1>at, <1>type DEF OwnClaims, Mine, GotInv
<1> QED  BY <1>1, <1>2, <1>at, FetchingSerial

-----------------------------------------------------------------------------
(* The end of the only run *)

\* A run at its end has let its claims go and reports what is invalid.
LEMMA EndSerial ==
    ASSUME SerialInv, NEW r \in Runs, Update(r), pc[r] \in Planned,
           spec' = spec, seen'[r] = seen[r],
           \/ pc'[r] = "failrunning"
           \/ /\ pc'[r] \in {"finishing", "counted", "finalized", "finished", "released"}
              /\ Mine(r)' = {},
           \A d \in Window(r) : row'[d].status = "invalid" =>
               report'[r].bad \/ report'[r].cancelled \/ report'[r].raised
    PROVE  RunInv(r)'
<1>1. Known(r)'
    BY KnownStep DEF Planned, Leased
<1>2. Fresh(r)' /\ Clean(r)' /\ Apart(r)' /\ OwnClaims(r)' /\ Covered(r)'
    BY DEF Fresh, Clean, Apart, OwnClaims, Covered, Early, Window
<1> QED  BY <1>1, <1>2 DEF RunInv

\* A run that is gone owes nothing, if it returned.
LEMMA GoneSerial ==
    ASSUME NEW r \in Runs, pc'[r] \in {"done", "dead"}, pc'[r] = "done" => Mine(r)' = {}
    PROVE  RunInv(r)'
BY DEF RunInv, Fresh, Clean, Apart, OwnClaims, Known, Covered, Early, Planned, Leased, Live

\* A loop that ended without cancellation has requested and settled everything.
LEMMA EndFetchesSerial ==
    ASSUME SerialInv, SafetyInv', NEW r \in Runs, EndFetches(r) PROVE RunInv(r)' /\ GotInv'
<1>type. /\ TypeOK /\ pc \in [Runs -> Phases] /\ RunInv(r) /\ GotInv
         /\ Mine(r) \subseteq (UNION held[r]) \cup buf[r] \/ pc[r] # "fetching"
    BY SerialFacts DEF SafetyInv, ClaimsAccountedFor, Accounted
<1>at. /\ pc[r] = "fetching" /\ row' = row /\ spec' = spec /\ seen' = seen /\ got' = got
       /\ report' = report /\ Covered(r) /\ Update(r)
       /\ buf[r] = {} /\ (report[r].cancelled \/ (held[r] = {} /\ work[r] = {}))
       /\ pc'[r] = IF report[r].cancelled THEN "failrunning" ELSE "finishing"
    BY <1>type DEF EndFetches, durable, Update, Advance, Fetch, RunInv
<1>1. GotInv' /\ Mine(r)' = Mine(r)
    BY <1>at, <1>type DEF GotInv, Mine
<1>2. ~report[r].cancelled => Mine(r) = {}
    BY <1>at, <1>type
<1>3. \A d \in Window(r) : row'[d].status = "invalid" =>
          report'[r].bad \/ report'[r].cancelled \/ report'[r].raised
    BY <1>at DEF Covered, Planned, Leased
<1>4. pc[r] \in Planned
    BY <1>at DEF Planned, Leased
<1> QED  BY <1>1, <1>2, <1>3, <1>4, <1>at, EndSerial

\* The buffer of a run that fails is its own, so all of it is settled.
LEMMA FailBufferedSerial ==
    ASSUME SerialInv, NEW r \in Runs, FailBuffered(r) PROVE RunInv(r)' /\ GotInv'
<1>type. /\ TypeOK /\ row \in [Days -> Row] /\ pc \in [Runs -> Phases]
         /\ report \in [Runs -> Report] /\ RunInv(r) /\ GotInv /\ Window(r) \subseteq Days
    BY SerialFacts
<1>at. /\ pc[r] = "failing" /\ spec' = spec /\ seen' = seen /\ got' = got
       /\ buf[r] \subseteq Mine(r) /\ report[r].raised /\ Update(r)
    BY <1>type DEF FailBuffered, Update, Advance, Finish, RunInv, OwnClaims, SerialInv,
                   SafetyInv, ClaimsAccountedFor, Accounted
<1>1. PICK done \in SettledByLoop(r, buf[r]) :
        /\ row' = Settle(done, "failed", "other")
        /\ report' = [report EXCEPT ![r].bad = @ \/ done # {}]
        /\ pc' = [pc EXCEPT ![r] =
                    IF done = buf[r] \/ report[r].cancelled
                    THEN "failrunning" ELSE "finishing"]
    BY DEF FailBuffered
<1>2. done = buf[r]
    BY <1>1, <1>at DEF SettledByLoop, Owned, Mine
<1>3. pc'[r] = "failrunning"
    BY <1>1, <1>2, <1>type
<1>4. report'[r].raised
    BY <1>1, <1>at, <1>type DEF Report
<1>5. GotInv'
  <2>1. "failed" \notin Terminal
      BY DEF Terminal
  <2> QED  BY <1>1, <1>at, <1>type, <2>1, GotKept
<1>6. pc[r] \in Planned
    BY <1>at DEF Planned, Leased
<1> QED  BY <1>3, <1>4, <1>5, <1>6, <1>at, EndSerial

\* Whatever the run still holds is failed.
LEMMA FailRunningSerial ==
    ASSUME SerialInv, NEW r \in Runs, FailRunning(r) PROVE RunInv(r)' /\ GotInv'
<1>type. /\ TypeOK /\ row \in [Days -> Row] /\ pc \in [Runs -> Phases]
         /\ RunInv(r) /\ GotInv /\ Window(r) \subseteq Days
    BY SerialFacts
<1>at. /\ pc[r] = "failrunning" /\ spec' = spec /\ seen' = seen /\ got' = got
       /\ report' = report /\ row' = Settle(Mine(r), "failed", "other")
       /\ pc'[r] = "finishing" /\ Update(r)
    BY <1>type DEF FailRunning, Update, Advance, Finish
<1>1. \A d \in Days : /\ d \in Mine(r) => row'[d].status = "failed"
                      /\ d \notin Mine(r) => row'[d] = row[d]
    BY <1>at, <1>type, SettleAt
<1>2. Mine(r)' = {}
    BY <1>1 DEF Mine
<1>3. \A d \in Window(r) : row'[d].status = "invalid" =>
          report'[r].bad \/ report'[r].cancelled \/ report'[r].raised
    BY <1>1, <1>at, <1>type DEF RunInv, Covered, Planned, Leased
<1>4. GotInv'
  <2>1. "failed" \notin Terminal
      BY DEF Terminal
  <2> QED  BY <1>at, <1>type, <2>1, GotKept
<1>5. pc[r] \in Planned
    BY <1>at DEF Planned, Leased
<1> QED  BY <1>2, <1>3, <1>4, <1>5, <1>at, EndSerial

\* Counting, finalizing, certifying and giving back the lease leave the rows.
LEMMA FinishingSerial ==
    ASSUME SerialInv, NEW r \in Runs,
           \/ CountRemaining(r) \/ FinalizeRun(r) \/ CompleteNode(r)
           \/ ReleaseLease(r) /\ ~report[r].raised
    PROVE  RunInv(r)' /\ GotInv'
<1>type. /\ TypeOK /\ row \in [Days -> Row] /\ pc \in [Runs -> Phases]
         /\ report \in [Runs -> Report] /\ RunInv(r) /\ GotInv /\ Window(r) \subseteq Days
    BY SerialFacts
<1>at. /\ pc[r] \in {"finishing", "counted", "finalized", "finished"}
       /\ row' = row /\ spec' = spec /\ seen' = seen /\ got' = got /\ Update(r)
       /\ pc'[r] \in {"counted", "finalized", "finished", "released"}
    BY <1>type DEF CountRemaining, FinalizeRun, CompleteNode, ReleaseLease, Update, Advance,
                   Finish, durable
<1>1. /\ report'[r].bad = report[r].bad /\ report'[r].cancelled = report[r].cancelled
      /\ report'[r].raised = report[r].raised
  <2>1. CASE report' = report
      BY <2>1
  <2>2. CASE CountRemaining(r)
      BY <2>2, <1>type DEF CountRemaining, Report
  <2> QED  BY <2>1, <2>2 DEF FinalizeRun, CompleteNode, ReleaseLease
<1>2. Mine(r)' = {} /\ GotInv'
    BY <1>at, <1>type DEF RunInv, Clean, Mine, GotInv
<1>3. \A d \in Window(r) : row'[d].status = "invalid" =>
          report'[r].bad \/ report'[r].cancelled \/ report'[r].raised
    BY <1>1, <1>at, <1>type DEF RunInv, Covered, Planned, Leased
<1>4. pc[r] \in Planned
    BY <1>at DEF Planned, Leased
<1> QED  BY <1>2, <1>3, <1>4, <1>at, EndSerial

\* Returning, raising and dying.
LEMMA GoingSerial ==
    ASSUME SerialInv, NEW r \in Runs,
           \/ (ReleaseLease(r) /\ report[r].raised) \/ FinishInitialization(r)
           \/ RefuseLease(r) \/ Crash(r)
    PROVE  RunInv(r)' /\ GotInv'
<1>type. pc \in [Runs -> Phases] /\ RunInv(r) /\ GotInv
    BY SerialFacts
<1>at. /\ row' = row /\ got' = got /\ pc'[r] \in {"done", "dead"}
       /\ pc'[r] = "done" => pc[r] \in {"finished", "released", "planned"}
    BY <1>type DEF ReleaseLease, FinishInitialization, RefuseLease, Crash, durable
<1>1. Mine(r)' = Mine(r) /\ GotInv'
    BY <1>at, <1>type DEF Mine, GotInv
<1>2. pc'[r] = "done" => Mine(r)' = {}
    BY <1>1, <1>at, <1>type DEF RunInv, Clean
<1> QED  BY <1>1, <1>2, <1>at, GoneSerial

-----------------------------------------------------------------------------
(* The plan of the only run *)

\* A call reads the definition that stays registered until it ends.
LEMMA ReadSerial ==
    ASSUME SerialInv, NEW r \in Runs, ReadDeclaration(r) PROVE RunInv(r)' /\ GotInv'
<1>type. pc \in [Runs -> Phases] /\ seen \in [Runs -> Defs] /\ RunInv(r) /\ GotInv
    BY SerialFacts
<1>at. /\ pc[r] = "idle" /\ row' = row /\ got' = got /\ spec' = spec /\ work' = work
       /\ held' = held /\ buf' = buf /\ report' = report
       /\ pc'[r] \in {"discovering", "done"} /\ seen'[r] = spec
    BY <1>type DEF ReadDeclaration
<1>1. Mine(r)' = {} /\ GotInv'
    BY <1>at, <1>type DEF Mine, GotInv, RunInv, Clean
<1>2. Fresh(r)'
    BY <1>at, <1>type DEF RunInv, Fresh, Early
<1> QED  BY <1>1, <1>2, <1>at
         DEF RunInv, Clean, Apart, OwnClaims, Known, Covered, Planned, Leased

\* A plan made from the synchronized rows requests every invalid day of the
\* window, once, and nothing else changes them before the lease.
LEMMA SynchronizeSerial ==
    ASSUME SerialInv, NEW r \in Runs, SynchronizeRequests(r) PROVE RunInv(r)' /\ GotInv'
<1>type. /\ TypeOK /\ row \in [Days -> Row] /\ pc \in [Runs -> Phases] /\ spec \in Defs
         /\ work \in [Runs -> SUBSET SUBSET Days] /\ RunInv(r) /\ GotInv
         /\ Window(r) \subseteq Days
    BY SerialFacts
<1>at. /\ pc[r] = "discovering" /\ row' = Synchronized(r, spec) /\ got' = got
       /\ spec' = spec /\ seen' = seen /\ held' = held /\ buf' = buf /\ report' = report
       /\ pc'[r] = "planned" /\ Update(r)
    BY <1>type DEF SynchronizeRequests, Update, Advance
<1>1. work'[r] = Requests(Eligible(r, row'), row')
    BY <1>type DEF SynchronizeRequests
<1>2. \A d \in Days : RowStep(r, d)
    BY <1>at, <1>type, UpdateRows
<1>3. Mine(r)' = {}
    BY <1>2, <1>at, <1>type, OwnRows DEF RunInv, Clean
<1>4. GotInv'
  <2>1. \A d \in Days : row'[d] = row[d] \/ Renewed(r, d)
      BY <1>at, <1>type, SynchronizeRows
  <2> QED  BY <2>1, <1>at, <1>type DEF GotInv, Renewed, Terminal
<1>5. held'[r] = {} /\ buf'[r] = {} /\ report'[r] = NewReport /\ seen'[r] = spec
    BY <1>at, <1>type DEF RunInv, Fresh, Early, Known, Live
<1>6. \A d \in Window(r) : row'[d].status # "absent" /\ row'[d].hash = spec
  <2> SUFFICES ASSUME NEW d \in Window(r) PROVE row'[d].status # "absent" /\ row'[d].hash = spec
      OBVIOUS
  <2>1. d \in Days /\ row[d] \in Row
      BY <1>type
  <2>2. row'[d] = IF row[d].status = "absent"
                  THEN [Absent EXCEPT !.status = "pending", !.hash = spec]
                  ELSE IF row[d].hash # spec
                  THEN [row[d] EXCEPT !.status = "pending", !.run = NoRun,
                                      !.why = "none", !.hash = spec]
                  ELSE row[d]
      BY <1>at, <2>1 DEF Synchronized
  <2> QED  BY <2>1, <2>2 DEF Row, Absent
<1>7. PICK S : S = Eligible(r, row')
    OBVIOUS
<1>8. S \subseteq Window(r) /\ \A d \in Window(r) : row'[d].status = "invalid" => d \in S
    BY <1>7 DEF Eligible, Retryable
<1>9. PICK rows : rows = row'
    OBVIOUS
<1>10. \A p, q \in work'[r] : p \subseteq S /\ (p = q \/ p \cap q = {})
  <2>1. S \in SUBSET Days /\ work'[r] = Requests(S, rows)
      BY <1>1, <1>7, <1>8, <1>9, <1>type
  <2> QED  BY <2>1, RequestsApart
<1>11. \A d \in Window(r) : row'[d].status = "invalid" => d \in UNION work'[r]
  <2>1. work'[r] = Requests(S, rows)
      BY <1>1, <1>7, <1>9
  <2>2. \A d \in S : rows[d].status # "pending" => d \in UNION Requests(S, rows)
      BY InvalidRequested
  <2> QED  BY <1>8, <1>9, <2>1, <2>2
<1>12. Apart(r)'
    BY <1>5, <1>8, <1>10 DEF Apart, Window
<1>13. Known(r)' /\ Covered(r)'
    BY <1>5, <1>6, <1>11, <1>at DEF Known, Covered, Window
<1>14. Fresh(r)' /\ Clean(r)' /\ OwnClaims(r)'
    BY <1>3, <1>5, <1>at DEF Fresh, Clean, OwnClaims
<1> QED  BY <1>4, <1>12, <1>13, <1>14 DEF RunInv

\* The plan still describes the rows when the lease is taken.
LEMMA AcquireSerial ==
    ASSUME SerialInv, NEW r \in Runs, AcquireLease(r) PROVE RunInv(r)' /\ GotInv'
<1>type. pc \in [Runs -> Phases] /\ RunInv(r) /\ GotInv
    BY SerialFacts
<1>at. /\ pc[r] = "planned" /\ row' = row /\ got' = got /\ spec' = spec /\ seen' = seen
       /\ work' = work /\ held' = held /\ buf' = buf /\ report' = report
       /\ pc'[r] = "leased" /\ Update(r)
    BY <1>type DEF AcquireLease, Update, Advance
<1>1. Mine(r)' = {} /\ GotInv'
    BY <1>at, <1>type DEF Mine, GotInv, RunInv, Clean
<1>2. Known(r)'
    BY <1>at, KnownStep DEF Planned, Leased
<1>3. Apart(r)' /\ Covered(r)'
    BY <1>at, <1>type DEF RunInv, Apart, Covered, Planned, Leased, Window
<1>4. Fresh(r)' /\ Clean(r)' /\ OwnClaims(r)'
    BY <1>1, <1>at, <1>type DEF RunInv, Fresh, Clean, OwnClaims, Early
<1> QED  BY <1>1, <1>2, <1>3, <1>4 DEF RunInv

\* The loop starts with its plan, no request in flight and nothing buffered.
LEMMA BeginSerial ==
    ASSUME SerialInv, NEW r \in Runs, BeginRun(r) PROVE RunInv(r)' /\ GotInv'
<1>type. /\ pc \in [Runs -> Phases] /\ report \in [Runs -> Report] /\ RunInv(r) /\ GotInv
    BY SerialFacts
<1>at. /\ pc[r] = "leased" /\ row' = row /\ got' = got /\ spec' = spec /\ seen' = seen
       /\ work' = work /\ held' = held /\ buf' = buf /\ Update(r)
       /\ held[r] = {} /\ buf[r] = {}
    BY <1>type DEF BeginRun, Update, Advance, RunInv, Fresh, Early
<1>1. Mine(r)' = {} /\ GotInv' /\ pc[r] \in Planned
    BY <1>at, <1>type DEF Mine, GotInv, RunInv, Clean, Planned, Leased
<1>2. CASE pc'[r] = "fetching" /\ report' = report
  <2>1. Known(r)'
      BY <1>1, <1>2, <1>at, KnownStep DEF Planned, Leased
  <2>2. Apart(r)' /\ Covered(r)'
      BY <1>2, <1>at, <1>type DEF RunInv, Apart, Covered, Planned, Leased, Window
  <2>3. Fresh(r)' /\ Clean(r)' /\ OwnClaims(r)'
      BY <1>2, <1>at DEF Fresh, Clean, OwnClaims, Early
  <2> QED  BY <1>1, <2>1, <2>2, <2>3 DEF RunInv
<1>3. CASE pc'[r] = "finished" /\ report'[r].raised
    BY <1>1, <1>3, <1>at, EndSerial
<1>4. \/ pc'[r] = "fetching" /\ report' = report
      \/ pc'[r] = "finished" /\ report'[r].raised
    BY <1>type DEF BeginRun, Report
<1> QED  BY <1>2, <1>3, <1>4

-----------------------------------------------------------------------------
(* No claim is stranded *)

\* No call is under way.
LEMMA InitSerial == Init => SerialInv
<1> SUFFICES ASSUME Init PROVE SerialInv
    OBVIOUS
<1>1. \A d \in Days : row[d].status = "absent"
    BY DEF Init, Absent
<1>2. \A r \in Runs : /\ Mine(r) = {} /\ pc[r] = "idle"
                      /\ held[r] = {} /\ buf[r] = {} /\ report[r] = NewReport
    BY <1>1 DEF Init, Mine
<1>3. GotInv /\ Alone /\ \A r \in Runs : RunInv(r)
    BY <1>1, <1>2 DEF GotInv, Alone, Live, RunInv, Fresh, Clean, Apart, OwnClaims, Known,
                      Covered, Planned, Leased, Terminal
<1> QED  BY <1>3, InitSafe DEF SerialInv

\* Between two calls only rows that are not claimed change.
LEMMA QuietSerial ==
    ASSUME SerialInv, SafetyInv', Quiet, UNCHANGED volatile, GotInv',
           \A d \in Days : row'[d].status = "running" => row'[d] = row[d]
    PROVE  SerialInv'
<1>1. ASSUME NEW r \in Runs PROVE RunInv(r)' /\ ~Live(r)'
  <2>1. /\ ~Live(r) /\ RunInv(r) /\ Mine(r)' \subseteq Mine(r)
      BY DEF Quiet, SerialInv, Mine
  <2>2. /\ pc' = pc /\ held' = held /\ buf' = buf /\ report' = report
        /\ work' = work /\ seen' = seen
      BY DEF volatile
  <2> QED  BY <2>1, <2>2 DEF RunInv, Fresh, Clean, Apart, OwnClaims, Known, Covered,
                             Planned, Leased, Live
<1> QED  BY <1>1 DEF SerialInv, Alone

\* Every step keeps what the one call owes.
LEMMA StepSerial == Serial /\ SerialInv /\ [Next]_vars => SerialInv'
<1> SUFFICES ASSUME Serial, SerialInv, [Next]_vars PROVE SerialInv'
    OBVIOUS
<1>type. /\ TypeOK /\ row \in [Days -> Row] /\ GotInv
    BY DEF SerialInv, SafetyInv, TypeOK
<1>safe. SafetyInv'
    BY StepSafe DEF SerialInv
<1>1. ASSUME NEW r \in Runs, Update(r) PROVE SerialInv'
  <2>1. RunInv(r)' /\ GotInv'
    <3>1. CASE Fetch(r) \/ CancelRequested(r) \/ Interrupt(r)
        BY <3>1, <1>safe, ClaimSerial, SplitSerial, HarvestFailureSerial, HarvestDailySerial,
           CommitBufferSerial, CommitFailsSerial, EndFetchesSerial, CancelSerial,
           InterruptSerial DEF Fetch
    <3>2. CASE Finish(r) \/ Crash(r) \/ RefuseLease(r)
        BY <3>2, FailBufferedSerial, FailRunningSerial, FinishingSerial, GoingSerial DEF Finish
    <3>3. CASE ReadDeclaration(r) \/ SynchronizeRequests(r) \/ AcquireLease(r) \/ BeginRun(r)
        BY <3>3, ReadSerial, SynchronizeSerial, AcquireSerial, BeginSerial
    <3> QED  BY <1>1, <3>1, <3>2, <3>3 DEF Update, Advance
  <2>2. \A s \in Runs : s # r => RunInv(s)' /\ ~Live(s)'
      BY <1>1, OthersSerial
  <2>3. Alone'
      BY <2>2 DEF Alone
  <2> QED  BY <1>safe, <2>1, <2>2, <2>3 DEF SerialInv
<1>2. ASSUME NEW h \in Defs, Register(h) PROVE SerialInv'
  <2>1. Quiet /\ UNCHANGED volatile /\ row' = row /\ got' = got
      BY <1>2 DEF Register, CallAllowed
  <2>2. GotInv'
      BY <2>1, <1>type DEF GotInv
  <2> QED  BY <1>safe, <2>1, <2>2, QuietSerial
<1>3. ASSUME NEW S, NEW st, NEW why, row' = Settle(S, st, why), st \in {"pending", "failed"},
             Quiet, UNCHANGED volatile, got' = got
      PROVE  SerialInv'
  <2>1. st \notin Terminal /\ st # "running"
      BY <1>3 DEF Terminal
  <2>2. GotInv'
      BY <1>3, <1>type, <2>1, GotKept
  <2>3. \A d \in Days : row'[d].status = "running" => row'[d] = row[d]
      BY <1>3, <1>type, <2>1, SettleAt
  <2> QED  BY <1>3, <1>safe, <2>2, <2>3, QuietSerial
<1>4. ASSUME NEW S \in SUBSET Days, ResetScopes(S) PROVE SerialInv'
    BY <1>3, <1>4 DEF ResetScopes, CallAllowed
<1>5. CASE ReopenInitialization
    BY <1>3, <1>5 DEF ReopenInitialization, CallAllowed
<1>6. ASSUME NEW o \in Owners, AbandonOwner(o) PROVE SerialInv'
    BY <1>3, <1>6 DEF AbandonOwner, CallAllowed
<1>7. CASE UNCHANGED vars
  <2>1. /\ row' = row /\ got' = got /\ spec' = spec /\ UNCHANGED volatile
      BY <1>7 DEF vars, durable
  <2> QED  BY <2>1, <1>safe DEF SerialInv, Alone, Live, GotInv, RunInv, Fresh, Clean, Apart,
           OwnClaims, Known, Covered, Planned, Leased, Mine, Window, volatile
<1> QED  BY <1>1, <1>2, <1>4, <1>5, <1>6, <1>7 DEF Next

\* Behind one caller at a time the plan of an update still describes the rows
\* when it ends.
THEOREM SerialHolds == Serial => (Spec => []SerialInv)
<1>1. ASSUME Serial PROVE SerialInv /\ [Next]_vars => SerialInv'
    BY <1>1, StepSerial
<1>2. Serial \in BOOLEAN
    OBVIOUS
<1>3. CASE Serial
    BY <1>1, <1>3, InitSerial, PTL DEF Spec
<1> QED  BY <1>3

\* Whoever drops the lease of a dataset leaves no scope "running": no update
\* of a single caller strands a claim that nobody may settle
\* (_fail_running, release_update_leases, abandon_update_owner).
THEOREM NoneStranded == Serial => (Spec => []NoStrandedClaim)
<1>1. SerialInv => NoStrandedClaim
  <2> SUFFICES ASSUME SerialInv, NEW d \in Days, row[d].status = "running"
               PROVE  lease = row[d].run
      BY DEF NoStrandedClaim
  <2>1. row[d].run \in Runs /\ d \in Mine(row[d].run)
      BY DEF SerialInv, SafetyInv, ClaimHasRun, Mine
  <2>2. pc[row[d].run] \notin {"released", "done"}
      BY <2>1 DEF SerialInv, RunInv, Clean
  <2> QED  BY <2>2 DEF SerialInv, SafetyInv, LiveClaimIsLeased
<1>2. CASE Serial
    BY <1>1, <1>2, SerialHolds, PTL
<1> QED  BY <1>2

-----------------------------------------------------------------------------
(* What the end of a run reports *)

Counted(r) == pc[r] \in {"finalized", "released"} \/ (pc[r] = "finished" /\ ~report[r].raised)

\* An exception is not forgotten: only its text tells a failed run from a
\* successful one.
ReportsRaised(r) == Live(r) /\ pc[r] # "finished" /\ report[r].raised => report[r].fatal
RowIsFinal(r) == Counted(r) => runs[r] = FinalStatus(report[r])
\* What was counted before the run row was finalized still is so.
CountStands(r) ==
    /\ (Counted(r) \/ pc[r] = "counted") /\ ~report[r].remaining =>
         \A d \in Days : row[d].status \notin {"pending", "failed"}
    /\ pc[r] = "released" => \A d \in Days : row[d].status # "running"
OwnBounds(r) ==
    Live(r) /\ ModeOf[r] = "initialize" => init.lo = First[r] /\ init.hi = Last[r]

Honest(r) == ReportsRaised(r) /\ RowIsFinal(r) /\ CountStands(r) /\ OwnBounds(r)

HonestInv == SerialInv /\ \A r \in Runs : Honest(r)

\* A run that certifies has left every day of its window with an outcome under
\* the registered definition.
LEMMA CertifiedWindow ==
    ASSUME HonestInv, NEW r \in Runs, pc[r] \in {"finalized", "released"}, Certifies(r)
    PROVE  \A d \in Window(r) : row[d].status \in Terminal /\ row[d].hash = spec
<1>type. /\ row \in [Days -> Row] /\ report[r] \in Report /\ RunInv(r) /\ Honest(r)
         /\ Window(r) \subseteq Days
    BY SerialFacts DEF HonestInv
<1>1. ~report[r].cancelled /\ ~report[r].fatal /\ ~report[r].bad
  <2>1. FinalStatus(report[r]) \in {"success", "no_data"}
      BY <1>type DEF Honest, RowIsFinal, Counted, Certifies
  <2> QED  BY <2>1 DEF FinalStatus
<1>2. ~report[r].raised
    BY <1>1, <1>type DEF Honest, ReportsRaised, Live
<1> SUFFICES ASSUME NEW d \in Window(r)
             PROVE  row[d].status \in Terminal /\ row[d].hash = spec
    OBVIOUS
<1>3. row[d].status # "absent" /\ row[d].hash = spec
    BY <1>type DEF RunInv, Known, Planned, Leased
<1>4. row[d].status # "invalid"
    BY <1>1, <1>2, <1>type DEF RunInv, Covered, Planned, Leased
<1>5. row[d].status \notin {"pending", "failed"}
    BY <1>type DEF Honest, CountStands, Counted, Certifies
<1>6. row[d].status # "running"
  <2>1. CASE pc[r] = "released"
      BY <2>1, <1>type DEF Honest, CountStands
  <2>2. CASE pc[r] = "finalized"
    <3>1. SUFFICES ASSUME row[d].status = "running" PROVE FALSE
        OBVIOUS
    <3>2. row[d].run \in Runs /\ d \in Mine(row[d].run)
        BY <3>1, <1>type DEF HonestInv, SerialInv, SafetyInv, ClaimHasRun, Mine
    <3>3. pc[row[d].run] \notin {"released", "done"}
        BY <3>2 DEF HonestInv, SerialInv, RunInv, Clean
    <3>4. lease = row[d].run /\ lease = r
        BY <3>1, <3>3, <2>2, <1>type DEF HonestInv, SerialInv, SafetyInv, LiveClaimIsLeased,
                                         ExclusiveUpdate, Leased
    <3> QED  BY <3>2, <3>4, <2>2, <1>type DEF RunInv, Clean
  <2> QED  BY <2>1, <2>2
<1>7. d \in Days /\ row[d].status \in ScopeStatus
    BY <1>type DEF Row
<1> QED  BY <1>3, <1>4, <1>5, <1>6, <1>7 DEF ScopeStatus, Terminal

\* A run that is not under way owes no report.
LEMMA IdleHonest == ASSUME NEW r \in Runs, ~Live(r)' PROVE Honest(r)'
BY DEF Honest, ReportsRaised, RowIsFinal, CountStands, OwnBounds, Counted, Live

\* A step of the fetch loop goes on or raises, with the exception so far.
LEMMA FetchReports ==
    ASSUME TypeOK, ~SilentInterrupts, NEW r \in Runs,
           \/ ClaimScopes(r) \/ HarvestFailure(r) \/ HarvestDaily(r) \/ CommitBuffer(r)
           \/ CommitFails(r) \/ CancelRequested(r) \/ Interrupt(r)
    PROVE  \E rep \in Report : /\ rep.raised = report[r].raised /\ rep.fatal = report[r].fatal
                               /\ Proceed(r, rep) \/ RaiseWith(r, rep, FALSE)
<1>type. report[r] \in Report
    BY DEF TypeOK
<1> DEFINE Reported(rep) == /\ rep.raised = report[r].raised /\ rep.fatal = report[r].fatal
                            /\ Proceed(r, rep) \/ RaiseWith(r, rep, FALSE)
           Bad(b) == [report[r] EXCEPT !.bad = b]
           Empty(b) == [report[r] EXCEPT !.empty = b]
           Cancelled(b) == [report[r] EXCEPT !.cancelled = b]
           CancelledBad(b) == [Cancelled(b) EXCEPT !.bad = TRUE]
           Success == [report[r] EXCEPT !.success = TRUE]
           Same(rep) == /\ rep \in Report
                        /\ rep.raised = report[r].raised /\ rep.fatal = report[r].fatal
<1>1. /\ Same(report[r]) /\ Same(Success)
      /\ \A b \in BOOLEAN : Same(Bad(b)) /\ Same(Empty(b)) /\ Same(Cancelled(b))
                            /\ Same(CancelledBad(b))
    BY <1>type DEF Report
<1>2. \E rep : /\ \/ rep = report[r] \/ rep = Success
                  \/ \E b \in BOOLEAN : \/ rep = Bad(b) \/ rep = Empty(b)
                                        \/ rep = Cancelled(b) \/ rep = CancelledBad(b)
               /\ Proceed(r, rep) \/ RaiseWith(r, rep, FALSE)
  <2>1. CASE ClaimScopes(r) \/ Interrupt(r)
    <3>1. Proceed(r, report[r]) \/ RaiseWith(r, report[r], FALSE)
        BY <2>1 DEF ClaimScopes, Interrupt, Raise
    <3> QED  BY <3>1
  <2>2. CASE HarvestFailure(r)
    <3>1. PICK q \in held[r], outcome \in {"failed", "cancelled"} \cup Reasons :
            FailedResponse(r, q, outcome)
        BY <2>2 DEF HarvestFailure
    <3> DEFINE c == report[r].cancelled \/ outcome = "cancelled"
    <3>2. c \in BOOLEAN /\ (Proceed(r, CancelledBad(c)) \/ RaiseWith(r, Cancelled(c), FALSE))
        BY <3>1 DEF FailedResponse, Raise
    <3> HIDE DEF c
    <3> QED  BY <3>2
  <2>3. CASE HarvestDaily(r)
    <3>1. PICK e, m, full :
            EmptyResponse(r, e, full) \/ \E x : SparseResponse(r, m, x, full)
        BY <2>3 DEF HarvestDaily
    <3>2. CASE EmptyResponse(r, e, full)
      <4> DEFINE b == report[r].empty \/ e # {}
      <4>1. b \in BOOLEAN /\ (Proceed(r, Empty(b)) \/ RaiseWith(r, report[r], FALSE))
          BY <3>2 DEF EmptyResponse, Raise
      <4> HIDE DEF b
      <4> QED  BY <4>1
    <3>3. CASE \E x : SparseResponse(r, m, x, full)
      <4>1. PICK done : \/ Proceed(r, [report[r] EXCEPT !.bad = @ \/ done # {}])
                        \/ Raise(r, [report[r] EXCEPT !.bad = @ \/ done # {}])
          BY <3>3 DEF SparseResponse
      <4> DEFINE b == report[r].bad \/ done # {}
      <4>2. b \in BOOLEAN /\ (Proceed(r, Bad(b)) \/ RaiseWith(r, Bad(b), FALSE))
          BY <4>1 DEF Raise
      <4> HIDE DEF b
      <4> QED  BY <4>2
    <3> QED  BY <3>1, <3>2, <3>3
  <2>4. CASE CommitBuffer(r)
      BY <2>4 DEF CommitBuffer
  <2>5. CASE CommitFails(r)
    <3>1. PICK done : Raise(r, [report[r] EXCEPT !.bad = @ \/ done # {}])
        BY <2>5 DEF CommitFails
    <3> DEFINE b == report[r].bad \/ done # {}
    <3>2. b \in BOOLEAN /\ RaiseWith(r, Bad(b), FALSE)
        BY <3>1 DEF Raise
    <3> HIDE DEF b
    <3> QED  BY <3>2
  <2>6. CASE CancelRequested(r)
      BY <2>6 DEF CancelRequested
  <2> QED  BY <2>1, <2>2, <2>3, <2>4, <2>5, <2>6
<1>3. PICK rep : /\ Same(rep)
                 /\ Proceed(r, rep) \/ RaiseWith(r, rep, FALSE)
  <2> HIDE DEF Same, Bad, Empty, Cancelled, CancelledBad, Success
  <2> QED  BY <1>1, <1>2
<1> QED  BY <1>3

\* The loop keeps an exception with the report it is noted in.
LEMMA FetchHonest ==
    ASSUME HonestInv, ~SilentInterrupts, NEW r \in Runs,
           \/ ClaimScopes(r) \/ HarvestFailure(r) \/ HarvestDaily(r) \/ CommitBuffer(r)
           \/ CommitFails(r) \/ CancelRequested(r) \/ Interrupt(r)
    PROVE  Honest(r)'
<1>type. /\ TypeOK /\ pc \in [Runs -> Phases] /\ report \in [Runs -> Report] /\ Honest(r)
    BY SerialFacts DEF HonestInv
<1>1. pc[r] = "fetching" /\ init' = init
    BY DEF ClaimScopes, HarvestFailure, HarvestDaily, CommitBuffer, CommitFails,
           CancelRequested, Interrupt, durable
<1>2. PICK rep \in Report : /\ rep.raised = report[r].raised /\ rep.fatal = report[r].fatal
                            /\ Proceed(r, rep) \/ RaiseWith(r, rep, FALSE)
    BY <1>type, FetchReports
<1>3. /\ pc'[r] \in {"fetching", "failing"}
      /\ report'[r].raised => report'[r].fatal
  <2>1. report[r].raised => report[r].fatal
      BY <1>1, <1>type DEF Honest, ReportsRaised, Live
  <2>2. CASE Proceed(r, rep)
      BY <2>1, <2>2, <1>1, <1>2, <1>type DEF Proceed
  <2>3. CASE RaiseWith(r, rep, FALSE)
    <3>1. report'[r] = [rep EXCEPT !.raised = TRUE, !.fatal = ~FALSE] /\ pc'[r] = "failing"
        BY <2>3, <1>type DEF RaiseWith
    <3> QED  BY <3>1 DEF Report
  <2> QED  BY <1>2, <2>2, <2>3
<1> QED  BY <1>1, <1>3, <1>type
         DEF Honest, ReportsRaised, RowIsFinal, CountStands, OwnBounds, Counted, Live

\* Before the loop there is no exception; after it, it stays in the report.
LEMMA PlanHonest ==
    ASSUME HonestInv, NEW r \in Runs,
           \/ ReadDeclaration(r) \/ SynchronizeRequests(r) \/ AcquireLease(r) \/ BeginRun(r)
    PROVE  Honest(r)'
<1>type. /\ pc \in [Runs -> Phases] /\ report \in [Runs -> Report] /\ Honest(r) /\ Fresh(r)
    BY SerialFacts DEF HonestInv, RunInv
<1>1. report[r] = NewReport /\ pc[r] \in {"idle", "discovering", "planned", "leased"}
    BY <1>type DEF Fresh, Early, ReadDeclaration, SynchronizeRequests, AcquireLease, BeginRun
<1>2. /\ pc'[r] \in {"discovering", "done", "planned", "leased", "fetching", "finished"}
      /\ report' = report \/ (pc'[r] = "finished" /\ report'[r].raised)
      /\ pc'[r] = "finished" => report'[r].raised
    BY <1>type DEF ReadDeclaration, SynchronizeRequests, AcquireLease, BeginRun, Report
<1>3. OwnBounds(r)'
    BY <1>1, <1>type DEF ReadDeclaration, SynchronizeRequests, AcquireLease, BeginRun, Honest,
                         OwnBounds, Live
<1> QED  BY <1>1, <1>2, <1>3
         DEF Honest, ReportsRaised, RowIsFinal, CountStands, Counted, NewReport

\* The count, the run row and the report agree as the run comes to its end.
LEMMA FinishHonest ==
    ASSUME HonestInv, NEW r \in Runs,
           \/ SplitRequest(r) \/ EndFetches(r) \/ FailBuffered(r) \/ FailRunning(r)
           \/ CountRemaining(r) \/ FinalizeRun(r) \/ CompleteNode(r)
    PROVE  Honest(r)'
<1>type. /\ pc \in [Runs -> Phases] /\ report \in [Runs -> Report] /\ Honest(r)
         /\ runs \in [Runs -> RunStatus]
    BY SerialFacts DEF HonestInv, TypeOK
<1>1. pc[r] \in {"fetching", "failing", "failrunning", "finishing", "counted", "finalized"}
      /\ init' = init
    BY DEF SplitRequest, EndFetches, FailBuffered, FailRunning, CountRemaining, FinalizeRun,
           CompleteNode, durable
<1>2. report'[r].raised = report[r].raised /\ report'[r].fatal = report[r].fatal
  <2>1. CASE FailBuffered(r)
      BY <2>1, <1>type DEF FailBuffered, Report
  <2>2. CASE CountRemaining(r)
      BY <2>2, <1>type DEF CountRemaining, Report
  <2>3. CASE report' = report
      BY <2>3
  <2> QED  BY <2>1, <2>2, <2>3 DEF SplitRequest, EndFetches, FailRunning, FinalizeRun,
                                   CompleteNode
<1>3. ReportsRaised(r)' /\ OwnBounds(r)'
    BY <1>1, <1>2, <1>type DEF Honest, ReportsRaised, OwnBounds, Live
<1>4. CASE SplitRequest(r) \/ EndFetches(r) \/ FailBuffered(r) \/ FailRunning(r)
  <2>1. pc'[r] \in {"fetching", "failrunning", "finishing"}
      BY <1>4, <1>type DEF SplitRequest, EndFetches, FailBuffered, FailRunning
  <2> QED  BY <1>3, <2>1 DEF Honest, RowIsFinal, CountStands, Counted
<1>5. CASE CountRemaining(r)
  <2>1. /\ pc'[r] = "counted" /\ row' = row
        /\ report'[r].remaining = \E d \in Days : row[d].status \in {"pending", "failed"}
      BY <1>5, <1>type DEF CountRemaining, durable, Report
  <2> QED  BY <1>3, <2>1 DEF Honest, RowIsFinal, CountStands, Counted
<1>6. CASE FinalizeRun(r)
  <2>1. /\ pc[r] = "counted" /\ pc'[r] = "finalized" /\ row' = row /\ report' = report
        /\ runs'[r] = FinalStatus(report[r])
      BY <1>6, <1>type DEF FinalizeRun
  <2> QED  BY <1>3, <1>type, <2>1 DEF Honest, RowIsFinal, CountStands, Counted
<1>7. CASE CompleteNode(r)
  <2>1. /\ pc[r] = "finalized" /\ pc'[r] = "finished" /\ row' = row /\ report' = report
        /\ runs' = runs
      BY <1>7, <1>type DEF CompleteNode
  <2> QED  BY <1>3, <1>type, <2>1 DEF Honest, RowIsFinal, CountStands, Counted
<1> QED  BY <1>4, <1>5, <1>6, <1>7

\* When the lease is dropped no scope is running, whoever claimed it.
LEMMA ReleaseHonest ==
    ASSUME HonestInv, NEW r \in Runs, ReleaseLease(r), ~report[r].raised
    PROVE  Honest(r)'
<1>type. /\ pc \in [Runs -> Phases] /\ row \in [Days -> Row] /\ Honest(r) /\ RunInv(r)
    BY SerialFacts DEF HonestInv
<1>1. /\ pc[r] = "finished" /\ pc'[r] = "released" /\ row' = row /\ report' = report
      /\ runs' = runs /\ init' = init
    BY <1>type DEF ReleaseLease
<1>2. \A d \in Days : row[d].status # "running"
  <2> SUFFICES ASSUME NEW d \in Days, row[d].status = "running" PROVE FALSE
      OBVIOUS
  <2>1. row[d].run \in Runs /\ d \in Mine(row[d].run)
      BY DEF HonestInv, SerialInv, SafetyInv, ClaimHasRun, Mine
  <2>2. pc[row[d].run] \notin {"released", "done"}
      BY <2>1 DEF HonestInv, SerialInv, RunInv, Clean
  <2>3. lease = row[d].run /\ lease = r
      BY <2>2, <1>1 DEF HonestInv, SerialInv, SafetyInv, LiveClaimIsLeased, ExclusiveUpdate,
                        Leased
  <2> QED  BY <2>1, <2>3, <1>1, <1>type DEF RunInv, Clean
<1> QED  BY <1>1, <1>2, <1>type
         DEF Honest, ReportsRaised, RowIsFinal, CountStands, OwnBounds, Counted, Live

\* No run has a report.
LEMMA InitHonest == Init => HonestInv
<1> SUFFICES ASSUME Init PROVE HonestInv
    OBVIOUS
<1>1. \A r \in Runs : pc[r] = "idle"
    BY DEF Init
<1> QED  BY <1>1, InitSerial
         DEF HonestInv, Honest, ReportsRaised, RowIsFinal, CountStands, OwnBounds, Counted, Live

\* Every step keeps reports honest.
LEMMA StepHonest ==
    Serial /\ ~SilentInterrupts /\ HonestInv /\ [Next]_vars => HonestInv'
<1> SUFFICES ASSUME Serial, ~SilentInterrupts, HonestInv, [Next]_vars PROVE HonestInv'
    OBVIOUS
<1>serial. SerialInv /\ SerialInv'
    BY StepSerial DEF HonestInv
<1>1. ASSUME NEW r \in Runs, Update(r) PROVE HonestInv'
  <2>1. \A s \in Runs : s # r => Honest(s)'
      BY <1>1, <1>serial, OthersSerial, IdleHonest
  <2>2. Honest(r)'
    <3>1. CASE RefuseLease(r) \/ FinishInitialization(r) \/ Crash(r)
               \/ (ReleaseLease(r) /\ report[r].raised)
      <4>1. ~Live(r)'
          BY <3>1, SerialFacts, <1>serial
             DEF RefuseLease, FinishInitialization, Crash, ReleaseLease, Live
      <4> QED  BY <4>1, IdleHonest
    <3> QED  BY <1>1, <3>1, FetchHonest, PlanHonest, FinishHonest, ReleaseHonest
             DEF Update, Advance, Fetch, Finish
  <2> QED  BY <1>serial, <2>1, <2>2 DEF HonestInv
<1>2. ASSUME Quiet, UNCHANGED volatile PROVE HonestInv'
  <2>1. \A r \in Runs : ~Live(r)'
      BY <1>2 DEF Quiet, Live, volatile
  <2> QED  BY <2>1, <1>serial, IdleHonest DEF HonestInv
<1>3. CASE \/ \E h \in Defs : Register(h)
           \/ \E S \in SUBSET Days : ResetScopes(S)
           \/ ReopenInitialization
           \/ \E o \in Owners : AbandonOwner(o)
    BY <1>2, <1>3 DEF Register, ResetScopes, ReopenInitialization, AbandonOwner, CallAllowed
<1>4. CASE UNCHANGED vars
  <2>1. /\ pc' = pc /\ report' = report /\ runs' = runs /\ row' = row /\ init' = init
      BY <1>4 DEF vars, volatile, durable
  <2> QED  BY <2>1, <1>serial DEF HonestInv, Honest, ReportsRaised, RowIsFinal, CountStands,
                                  OwnBounds, Counted, Live
<1> QED  BY <1>1, <1>3, <1>4 DEF Next

\* The run row, the count and the report of a run agree with the rows until it
\* returns.
THEOREM HonestHolds == Serial /\ ~SilentInterrupts => (Spec => []HonestInv)
<1>1. CASE Serial /\ ~SilentInterrupts
  <2>1. HonestInv /\ [Next]_vars => HonestInv'
      BY <1>1, StepHonest
  <2> QED  BY <2>1, InitHonest, PTL DEF Spec
<1> QED  BY <1>1

\* No initialization is declared complete over a scope without an outcome: its
\* frozen bounds are the window of the run that certifies them
\* (finish_initialization).
THEOREM InitializationCompletes ==
    Serial /\ ~SilentInterrupts => (Spec => InitializationCompletesTerminal)
<1> DEFINE Completes == init.status = "running" /\ init'.status = "complete" =>
                          \A d \in init.lo .. init.hi : row[d].status \in Terminal
<1>1. HonestInv /\ [Next]_vars => [Completes]_vars
  <2> SUFFICES ASSUME HonestInv, Next, init.status = "running", init'.status = "complete"
               PROVE  \A d \in init.lo .. init.hi : row[d].status \in Terminal
      OBVIOUS
  <2>1. PICK r \in Runs : FinishInitialization(r)
    <3>1. ASSUME NEW r \in Runs, ReadDeclaration(r) PROVE FALSE
        BY <3>1 DEF ReadDeclaration
    <3> QED  BY <3>1 DEF Next, Update, Advance, Fetch, Finish, SynchronizeRequests,
               AcquireLease, RefuseLease, BeginRun, ClaimScopes, SplitRequest, HarvestFailure,
               HarvestDaily, CommitBuffer, CommitFails, EndFetches, FailBuffered,
               FailRunning, CountRemaining, FinalizeRun, CompleteNode, ReleaseLease,
               CancelRequested, Interrupt, Crash, durable, Register, ResetScopes,
               ReopenInitialization, AbandonOwner
  <2>2. pc[r] = "released" /\ ModeOf[r] = "initialize" /\ Certifies(r)
      BY <2>1 DEF FinishInitialization
  <2>3. init.lo = First[r] /\ init.hi = Last[r]
      BY <2>2 DEF HonestInv, Honest, OwnBounds, Live
  <2> QED  BY <2>2, <2>3, CertifiedWindow DEF Window
<1>2. Completes <=> (init.status = "running" /\ init'.status = "complete" =>
                       \A d \in init.lo .. init.hi : row[d].status \in Terminal)
    OBVIOUS
<1> HIDE DEF Completes
<1>3. CASE Serial /\ ~SilentInterrupts
    BY <1>1, <1>2, <1>3, HonestHolds, PTL DEF Spec, InitializationCompletesTerminal
<1> QED  BY <1>3

-----------------------------------------------------------------------------
(* The completion flag *)

\* A flag that may be read binds outcomes under its definition.
FlagStands ==
    ~incomplete =>
        \A f \in flag : f.hash = spec =>
            \A d \in f.lo .. f.hi : row[d].status \in Terminal /\ row[d].hash = spec

FlagInv == /\ HonestInv
           /\ \A f, g \in flag : f = g
           /\ FlagStands

\* No definition is registered again while a flag still binds it.
NeverBack == spec' # spec => \A f \in flag : f.hash # spec'

\* A flag stands while it may not be read, or while no row it binds changes.
LEMMA FlagKept ==
    ASSUME FlagInv, flag' = flag, spec' = spec,
           \/ incomplete'
           \/ /\ incomplete' = incomplete
              /\ \A d \in Days : row[d].status \in Terminal /\ row[d].hash = spec =>
                                    row'[d] = row[d]
    PROVE  FlagStands' /\ \A f, g \in flag' : f = g
<1>1. ASSUME NEW f \in flag, NEW d \in f.lo .. f.hi PROVE d \in Days
  <2>1. f \in Flag
      BY DEF FlagInv, HonestInv, SerialInv, SafetyInv, TypeOK
  <2>2. f.lo \in Days /\ f.hi \in Days
      BY <2>1 DEF Flag
  <2> QED  BY <1>1, <2>2
<1>2. FlagStands'
    BY <1>1 DEF FlagStands, FlagInv
<1> QED  BY <1>2 DEF FlagInv

\* A flag is written over the window of the run alone: the dataset has been
\* marked incomplete since the run began, so no earlier flag is united with it.
LEMMA CompleteFlag ==
    ASSUME FlagInv, NEW r \in Runs, CompleteNode(r)
    PROVE  FlagStands' /\ \A f, g \in flag' : f = g
<1>at. /\ pc[r] = "finalized" /\ row' = row /\ spec' = spec /\ incomplete
  <2>1. pc[r] = "finalized" /\ row' = row /\ spec' = spec
      BY DEF CompleteNode
  <2> QED  BY <2>1 DEF FlagInv, HonestInv, SerialInv, SafetyInv, UpdateMarksIncomplete, Leased
<1>1. CASE ~Certifies(r)
    BY <1>1, <1>at, FlagKept DEF CompleteNode
<1>2. CASE Certifies(r)
  <2>1. flag' = {[hash |-> spec, lo |-> First[r], hi |-> Last[r], run |-> r]}
      BY <1>2, <1>at DEF CompleteNode, NextFlag
  <2>2. \A d \in Window(r) : row[d].status \in Terminal /\ row[d].hash = spec
      BY <1>2, <1>at, CertifiedWindow DEF FlagInv
  <2> QED  BY <2>1, <2>2, <1>at DEF FlagStands, Window
<1> QED  BY <1>1, <1>2

\* Between certifications a step of an update leaves the rows of a readable flag.
LEMMA UpdateFlag ==
    ASSUME FlagInv, OutcomeInv, NEW r \in Runs, Update(r), ~CompleteNode(r)
    PROVE  FlagStands' /\ \A f, g \in flag' : f = g
<1>type. TypeOK /\ row \in [Days -> Row]
    BY DEF OutcomeInv, SafetyInv, TypeOK
<1>1. flag' = flag /\ spec' = spec /\ (incomplete' \/ incomplete' = incomplete)
    BY DEF Update, Advance, Fetch, Finish, ReadDeclaration, SynchronizeRequests,
           AcquireLease, RefuseLease, BeginRun, ClaimScopes, SplitRequest, HarvestFailure,
           HarvestDaily, CommitBuffer, CommitFails, EndFetches, FailBuffered,
           FailRunning, CountRemaining, FinalizeRun, ReleaseLease, FinishInitialization,
           CancelRequested, Interrupt, Crash, durable
<1>2. ASSUME NEW d \in Days, row[d].status \in Terminal, row[d].hash = spec, ~incomplete
      PROVE  row'[d] = row[d]
  <2>1. CASE SynchronizeRequests(r)
    <3>1. row[d].status # "absent"
        BY <1>2 DEF Terminal
    <3> QED  BY <1>2, <2>1, <3>1 DEF SynchronizeRequests, Synchronized
  <2>2. CASE row' = row
      BY <2>2
  <2>3. CASE ~SynchronizeRequests(r) /\ row' # row
    <3>1. pc[r] \in {"fetching", "failing", "failrunning"}
        BY <2>3 DEF Update, Advance, Fetch, Finish, ReadDeclaration, AcquireLease,
           RefuseLease, BeginRun, ClaimScopes, SplitRequest, HarvestFailure,
           HarvestDaily, CommitBuffer, CommitFails, EndFetches, FailBuffered,
           FailRunning, CountRemaining, FinalizeRun, CompleteNode, ReleaseLease,
           FinishInitialization, CancelRequested, Interrupt, Crash, durable
    <3> QED  BY <1>2, <3>1 DEF OutcomeInv, SafetyInv, UpdateMarksIncomplete, Leased
  <2> QED  BY <2>1, <2>2, <2>3
<1> QED  BY <1>1, <1>2, FlagKept

\* Every step keeps the flag true, but for a definition that comes back.
LEMMA StepFlag ==
    /\ Serial /\ ~SilentInterrupts
    /\ FlagInv /\ OutcomeInv /\ [Next]_vars /\ [NeverBack]_vars
    => FlagInv'
<1> SUFFICES ASSUME Serial, ~SilentInterrupts, FlagInv, OutcomeInv, [Next]_vars, [NeverBack]_vars
             PROVE  FlagInv'
    OBVIOUS
<1>honest. HonestInv'
    BY StepHonest DEF FlagInv
<1>type. row \in [Days -> Row]
    BY DEF OutcomeInv, SafetyInv, TypeOK
<1>1. CASE \E r \in Runs : Update(r)
    BY <1>1, <1>honest, UpdateFlag, CompleteFlag DEF FlagInv
<1>2. ASSUME NEW h \in Defs, Register(h) PROVE FlagInv'
  <2>1. /\ spec' = h /\ h # spec /\ flag' = flag /\ incomplete' = incomplete /\ row' = row
      BY <1>2 DEF Register
  <2>2. \A f \in flag : f.hash # spec'
      BY <2>1 DEF NeverBack, vars, durable
  <2> QED  BY <1>honest, <2>1, <2>2 DEF FlagInv, FlagStands
<1>3. CASE \/ \E S \in SUBSET Days : ResetScopes(S)
           \/ ReopenInitialization
    BY <1>3, <1>honest, FlagKept DEF FlagInv, ResetScopes, ReopenInitialization
<1>4. ASSUME NEW o \in Owners, AbandonOwner(o) PROVE FlagInv'
  <2> DEFINE lost == LostRuns(o)
  <2>1. /\ flag' = flag /\ spec' = spec /\ incomplete' = incomplete
        /\ row' = Settle(AbandonedScopes(lost), "failed", "other")
      BY <1>4 DEF AbandonOwner
  <2>2. \A d \in AbandonedScopes(lost) : row[d].status \notin Terminal
      BY DEF AbandonedScopes, Terminal
  <2>3. PICK S : S = AbandonedScopes(lost)
      OBVIOUS
  <2>4. \A d \in Days : row[d].status \in Terminal => row'[d] = row[d]
      BY <2>1, <2>2, <2>3, <1>type, SettleAt
  <2> QED  BY <2>1, <2>4, <1>honest, FlagKept DEF FlagInv
<1>5. CASE UNCHANGED vars
  <2>1. /\ row' = row /\ flag' = flag /\ spec' = spec /\ incomplete' = incomplete
      BY <1>5 DEF vars, durable
  <2> QED  BY <2>1, <1>honest DEF FlagInv, FlagStands
<1> QED  BY <1>1, <1>2, <1>3, <1>4, <1>5 DEF Next

\* The completion flag is true to the rows it binds as long as no definition
\* is registered again that it still binds.
THEOREM FlagHolds ==
    Serial /\ ~SilentInterrupts => (Spec /\ [][NeverBack]_vars => []FlagInv)
<1>1. CASE Serial /\ ~SilentInterrupts
  <2>1. FlagInv /\ OutcomeInv /\ [Next]_vars /\ [NeverBack]_vars => FlagInv'
      BY <1>1, StepFlag
  <2>2. Init => FlagInv
    <3>1. Init => FlagStands /\ \A f, g \in flag : f = g
        BY DEF Init, FlagStands
    <3> QED  BY <3>1, InitHonest DEF FlagInv
  <2> QED  BY <2>1, <2>2, Decided, PTL DEF Spec
<1> QED  BY <1>1

\* A flag that planners read as current covers only scopes with an outcome, and
\* every one of them was obtained under the definition the flag binds
\* (write_completion, definition_current, publication_current).
THEOREM FlagCertifies ==
    Serial /\ ~SilentInterrupts =>
        (Spec /\ [][NeverBack]_vars => [](CertifiedRangeTerminal /\ CertifiedRangeCurrent))
<1>1. FlagInv => CertifiedRangeTerminal /\ CertifiedRangeCurrent
  <2> SUFFICES ASSUME FlagInv, FlagIsCurrent, NEW f \in flag, NEW d \in f.lo .. f.hi
               PROVE  row[d].status \in Terminal /\ got[d] = {f.hash}
      BY DEF CertifiedRangeTerminal, CertifiedRangeCurrent
  <2>1. f.hash = spec /\ ~incomplete
      BY DEF FlagInv, FlagIsCurrent
  <2>2. row[d].status \in Terminal /\ row[d].hash = spec
      BY <2>1 DEF FlagInv, FlagStands
  <2>3. d \in Days
    <3>1. f \in Flag
        BY DEF FlagInv, HonestInv, SerialInv, SafetyInv, TypeOK
    <3>2. f.lo \in Days /\ f.hi \in Days
        BY <3>1 DEF Flag
    <3> QED  BY <3>2
  <2> QED  BY <2>1, <2>2, <2>3 DEF FlagInv, HonestInv, SerialInv, GotInv
<1>2. CASE Serial /\ ~SilentInterrupts
    BY <1>1, <1>2, FlagHolds, PTL
<1> QED  BY <1>2

-----------------------------------------------------------------------------
(* One change of definition *)

\* The first definition stands until the first registration.
FirstStands == used.register = 0 => spec = FirstDef /\ \A f \in flag : f.hash = FirstDef

\* What is registered once cannot come back.
THEOREM OneChange == MaxRegisters <= 1 => (Spec => [][NeverBack]_vars)
<1>1. Init => FirstStands
    BY DEF Init, FirstStands
<1>2. TypeOK /\ FirstStands /\ [Next]_vars => FirstStands'
  <2> SUFFICES ASSUME TypeOK, FirstStands, [Next]_vars PROVE FirstStands'
      OBVIOUS
  <2>type. used \in [register : Nat, crash : Nat, reset : Nat, reopen : Nat]
      BY DEF TypeOK
  <2>1. ASSUME NEW r \in Runs, CompleteNode(r) PROVE FirstStands'
    <3>1. spec' = spec /\ used' = used /\ (flag' = flag \/ flag' = NextFlag(r))
        BY <2>1 DEF CompleteNode
    <3>2. \A f \in NextFlag(r) : f.hash = spec \/ f \in flag
      <4> DEFINE new == [hash |-> spec, lo |-> First[r], hi |-> Last[r], run |-> r]
                 wide(f) == [new EXCEPT !.lo = IF f.lo < @ THEN f.lo ELSE @,
                                        !.hi = IF f.hi > @ THEN f.hi ELSE @]
                 touching == {f \in {g \in flag : g.hash = spec /\ ~incomplete} :
                                new.lo <= f.hi + 1 /\ f.lo <= new.hi + 1}
                 united == {wide(f) : f \in touching}
      <4>1. new.hash = spec /\ \A f : wide(f).hash = spec
          OBVIOUS
      <4>2. NextFlag(r) \in {flag, united, {new}}
          BY DEF NextFlag
      <4> HIDE DEF new, wide, touching
      <4> QED  BY <4>1, <4>2
    <3> QED  BY <3>1, <3>2 DEF FirstStands
  <2>2. ASSUME NEW r \in Runs, Update(r), ~CompleteNode(r) PROVE FirstStands'
    <3>1. /\ spec' = spec /\ flag' = flag
          /\ used' = used \/ used' = [used EXCEPT !.crash = @ + 1]
        BY <2>2 DEF Update, Advance, Fetch, Finish, ReadDeclaration, SynchronizeRequests,
           AcquireLease, RefuseLease, BeginRun, ClaimScopes, SplitRequest, HarvestFailure,
           HarvestDaily, CommitBuffer, CommitFails, EndFetches, FailBuffered,
           FailRunning, CountRemaining, FinalizeRun, ReleaseLease, FinishInitialization,
           CancelRequested, Interrupt, Crash, durable
    <3> QED  BY <3>1, <2>type DEF FirstStands
  <2>3. ASSUME NEW h \in Defs, Register(h) PROVE FirstStands'
    <3>1. used' = [used EXCEPT !.register = @ + 1] /\ used.register \in Nat
        BY <2>3, <2>type DEF Register
    <3>2. used'.register = used.register + 1
        BY <3>1, <2>type
    <3> QED  BY <3>1, <3>2 DEF FirstStands
  <2>4. CASE \/ \E S \in SUBSET Days : ResetScopes(S)
             \/ ReopenInitialization
             \/ \E o \in Owners : AbandonOwner(o)
    <3>1. /\ spec' = spec /\ flag' = flag
          /\ \/ used' = used \/ used' = [used EXCEPT !.reset = @ + 1]
             \/ used' = [used EXCEPT !.reopen = @ + 1]
        BY <2>4 DEF ResetScopes, ReopenInitialization, AbandonOwner
    <3> QED  BY <3>1, <2>type DEF FirstStands
  <2>5. CASE UNCHANGED vars
      BY <2>5 DEF vars, durable, FirstStands
  <2> QED  BY <2>1, <2>2, <2>3, <2>4, <2>5 DEF Next
<1>3. ASSUME MaxRegisters <= 1
      PROVE  TypeOK /\ FirstStands /\ [Next]_vars => [NeverBack]_vars
  <2> SUFFICES ASSUME TypeOK, FirstStands, Next, spec' # spec
               PROVE  \A f \in flag : f.hash # spec'
      BY DEF NeverBack
  <2>1. PICK h \in Defs : Register(h)
      BY DEF Next, Update, Advance, Fetch, Finish, ReadDeclaration, SynchronizeRequests,
           AcquireLease, RefuseLease, BeginRun, ClaimScopes, SplitRequest, HarvestFailure,
           HarvestDaily, CommitBuffer, CommitFails, EndFetches, FailBuffered,
           FailRunning, CountRemaining, FinalizeRun, CompleteNode, ReleaseLease,
           FinishInitialization, CancelRequested, Interrupt, Crash, durable, ResetScopes,
           ReopenInitialization, AbandonOwner
  <2>2. used.register < MaxRegisters /\ used.register \in Nat
      BY <2>1 DEF Register, TypeOK
  <2>3. used.register = 0
      BY <1>3, <2>2
  <2> QED  BY <2>3 DEF FirstStands
<1>4. CASE MaxRegisters <= 1
    BY <1>1, <1>2, <1>3, <1>4, TypeCorrect, PTL DEF Spec
<1> QED  BY <1>4

\* So behind one caller and one change of definition every current flag covers
\* a range of outcomes.
THEOREM CertifiedTerminal ==
    Serial /\ ~SilentInterrupts /\ MaxRegisters <= 1 => (Spec => []CertifiedRangeTerminal)
<1>1. CASE Serial /\ ~SilentInterrupts /\ MaxRegisters <= 1
    BY <1>1, FlagCertifies, OneChange, PTL
<1> QED  BY <1>1

\* ... of outcomes under the definition it binds.
THEOREM CertifiedCurrent ==
    Serial /\ ~SilentInterrupts /\ MaxRegisters <= 1 => (Spec => []CertifiedRangeCurrent)
<1>1. CASE Serial /\ ~SilentInterrupts /\ MaxRegisters <= 1
    BY <1>1, FlagCertifies, OneChange, PTL
<1> QED  BY <1>1

=============================================================================
