----------------------------- MODULE ItemUpdate -----------------------------
(***************************************************************************)
(* DataItems: how a computed Item is initialized, updated, reused and      *)
(* certified while the data it reads keeps being published.                *)
(*                                                                         *)
(* The immutable history is one log of publications: raw commits, the      *)
(* commits and unchanged-content checks of Items, and rows ingested from   *)
(* outside.  A frozen receipt is a prefix of that log together with the    *)
(* definitions it was captured under; a build certifies that a range of an *)
(* Item's output is what its definition yields from one receipt; a flag    *)
(* (node_completions) advertises such a range for as long as definition,   *)
(* publication and direct dependencies are the recorded ones.              *)
(*                                                                         *)
(* A revision of a day becomes known on that day: availability dates are   *)
(* left out.                                                               *)
(***************************************************************************)
EXTENDS Naturals, Sequences, FiniteSets, FiniteSetsExt, SequencesExt

CONSTANTS
    Raws, Items,     \* the nodes of the declaration graph
    Inputs,          \* the nodes an Item reads: [Items -> SUBSET nodes]
    Forward,         \* Items whose value depends on all earlier days too
    Days,            \* the observation days, 1 .. n
    Requests,        \* ranges <<first, last>> a caller asks for
    Targets,         \* Items that callers ask for by themselves
    Procs,           \* threads and processes that call the API
    NoProc,          \* no lease holder
    MaxIngests,      \* bound: rows ingested into an Item from outside
    MaxDefinitions,  \* bound: definitions per node
    MaxCalls,        \* bound: calls (counted only while it is positive)
    MaxEvents        \* bound: raw revisions, ingested rows, new definitions and
                     \*   calls that are cancelled, raise or die, together

Nodes == Raws \cup Items

ASSUME DeclarationAssumption ==
    /\ IsFiniteSet(Raws) /\ IsFiniteSet(Items) /\ Raws \cap Items = {}
    /\ IsFiniteSet(Days) /\ Days = 1 .. Cardinality(Days)
    /\ Inputs \in [Items -> SUBSET Nodes]
    /\ \E depth \in [Items -> 0 .. Cardinality(Items)] :
         \A i \in Items : \A n \in Inputs[i] \cap Items : depth[n] < depth[i]
    /\ Forward \subseteq Items /\ Targets \subseteq Items
    /\ Requests \subseteq {r \in Days \X Days : r[1] <= r[2]}
    /\ NoProc \notin Procs

VARIABLES
    spec,        \* definition hash of each node, a number
    log,         \* committed publications and checks, in sequence
    incomplete,  \* datasets.update_incomplete
    receipts,    \* frozen_inputs
    builds,      \* item_builds with a completion proof or of a unit
    rows,        \* item_builds of published rows alone, without a proof
    initial,     \* item_initializations and its pinned build
    flag,        \* node_completions of Items
    lease,       \* update_leases of Items
    call,        \* the stack of operations each process is in
    calls, events \* counters behind MaxCalls and MaxEvents

data == <<spec, log, incomplete>>
evidence == <<receipts, builds, rows, initial, flag>>
vars == <<data, evidence, lease, call, calls, events>>

-----------------------------------------------------------------------------
(* The log.  A value is the definition that made it and what it was made of *)

Nothing == [by |-> 0, of |-> <<>>]

Touches(k, n, d) ==
    LET e == log[k] IN e.kind = "commit" /\ e.node = n /\ d \in DOMAIN e.at

Commits(n, max) == {k \in 1 .. max : log[k].kind = "commit" /\ log[k].node = n}

Touching(n, d, max) == {k \in Commits(n, max) : d \in DOMAIN log[k].at}

(* The last publication of a day of a node, or 0.                           *)
LastEvent(n, d, max) ==
    CHOOSE k \in 0 .. max :
        /\ k > 0 => Touches(k, n, d)
        /\ \A j \in (k + 1) .. max : ~Touches(j, n, d)

Content(n, d, max) ==
    LET k == LastEvent(n, d, max) IN IF k = 0 THEN Nothing ELSE log[k].at[d]

ResultCommit(n) == Max({0} \cup Commits(n, Len(log)))

Revision(n) == Cardinality(Commits(n, Len(log)))

VisibleDays(n, max, cutoff) == {d \in Days : d <= cutoff /\ Touching(n, d, max) # {}}

Reads(i, d) == IF i \in Forward THEN {e \in Days : e <= d} ELSE {d}

(* What item i's producer returns for day d under definition s at log max. *)
Compute(i, s, max, d) ==
    [by |-> s, of |-> [n \in Inputs[i] |-> [e \in Reads(i, d) |-> Content(n, e, max)]]]

-----------------------------------------------------------------------------
(* Frozen receipts.                                                        *)

Capture(i, last) ==
    [item |-> i, max |-> Len(log), cutoff |-> last,
     specs |-> [n \in Inputs[i] |-> spec[n]]]

Registered(r) == \E k \in 1 .. Len(receipts) : receipts[k] = r

(* The receipts after r is registered, and the identity r has in them.     *)
Register(r) == IF Registered(r) THEN receipts ELSE Append(receipts, r)

Identity(r) ==
    IF Registered(r) THEN CHOOSE k \in 1 .. Len(receipts) : receipts[k] = r
    ELSE Len(receipts) + 1

DependencyState(i) ==
    [n \in Inputs[i] |-> <<spec[n], Revision(n), incomplete[n]>>]

DefinitionCurrent(i) == flag[i].spec = spec[i]
PublicationCurrent(i) == ~incomplete[i] /\ flag[i].revision = Revision(i)
DependencyCurrent(i) == flag[i].deps = DependencyState(i)

FlagCurrent(i) == DefinitionCurrent(i) /\ PublicationCurrent(i) /\ DependencyCurrent(i)

(* The declaration graph below an Item, itself included: Item inputs only.  *)
Below[k \in 0 .. Cardinality(Items)] ==
    [i \in Items |-> IF k = 0 THEN {i}
                     ELSE {i} \cup UNION {Below[k - 1][j] : j \in Inputs[i] \cap Items}]

CompletedClosure(i) == \A j \in Below[Cardinality(Items)][i] : FlagCurrent(j)

(* No commit and no check of node n since receipt r captured it.            *)
UnchangedSince(r, n) ==
    /\ r.specs[n] = spec[n]
    /\ \A k \in (r.max + 1) .. Len(log) : log[k].node # n

(* Whole-range authority of Item n over all that receipt r selects of it.   *)
CompletedSource(r, n) ==
    LET seen == {d \in Days : Touching(n, d, r.max) # {}}
    IN /\ UnchangedSince(r, n)
       /\ CompletedClosure(n)
       /\ flag[n].target >= r.cutoff
       /\ seen # {}
       /\ flag[n].first <= Min(seen) /\ flag[n].last >= Max(seen)

EqualSelection(r, n) ==
    /\ r.specs[n] = spec[n]
    /\ \A d \in Days : d <= r.cutoff => Touching(n, d, Len(log)) = Touching(n, d, r.max)

Whole(n) == {k \in 1 .. Len(builds[n]) : builds[n][k].kind = "whole"}

(* The completed builds of Item n that were certified by the time of receipt *)
(* r and cover the row of day d that r selects.                             *)
Covering(r, n, d) ==
    {b \in Whole(n) :
        LET w == builds[n][b]
        IN /\ w.spec = r.specs[n]
           /\ d \in w.first .. w.last /\ LastEvent(n, d, r.max) <= w.result
           /\ w.result <= r.max
           /\ \A k \in (r.max + 1) .. w.bound : log[k].kind = "commit"
           /\ receipts[w.receipt].max <= r.max
           /\ receipts[w.receipt].cutoff <= r.cutoff}

(* The receipts that vouch for that row while they are current: its         *)
(* creator's, 0 if it has none, and that of the latest build covering it.   *)
Authorities(r, n, d) ==
    LET found == Covering(r, n, d)
    IN {log[LastEvent(n, d, r.max)].receipt}
       \cup (IF found = {} THEN {} ELSE {builds[n][Max(found)].receipt})

(* inputs.is_current, for every registered receipt.  The authorities of a   *)
(* receipt belong to Items below its own.                                   *)
CurrentReceipt[k \in 0 .. Len(receipts)] ==
    k > 0 =>
        LET r == receipts[k]
        IN \A n \in Inputs[r.item] :
             \/ n \in Raws /\ EqualSelection(r, n)
             \/ n \in Items /\ CompletedSource(r, n)
             \/ /\ n \in Items /\ EqualSelection(r, n)
                /\ VisibleDays(n, r.max, r.cutoff) # {}
                /\ \A d \in VisibleDays(n, r.max, r.cutoff) :
                      \E a \in Authorities(r, n, d) : CurrentReceipt[a]

-----------------------------------------------------------------------------
(* Planning: which days of a request must be computed.                     *)

Hull(S) == IF S = {} THEN {} ELSE Min(S) .. Max(S)

Completed(i, s, first) ==
    {k \in Whole(i) : LET b == builds[i][k]
                      IN b.spec = s /\ b.first <= first /\ first <= b.last}

(* The completed build that reaches furthest, the latest of those.          *)
Predecessor(i, s, first) ==
    CHOOSE k \in Completed(i, s, first) :
        \A j \in Completed(i, s, first) :
            \/ builds[i][j].last < builds[i][k].last
            \/ builds[i][j].last = builds[i][k].last /\ j <= k

(* The days of the request one input publication can change.                *)
Impact(i, days, first, through, last) ==
    IF i \in Forward THEN {d \in first .. last : d >= Min(days)}
    ELSE Hull(days) \cap (first .. through)

\* Fault: inputs published while the build computed are passed over.
InputWindowsSinceResult(i, b, first, last) ==
    LET later == {k \in (b.result + 1) .. Len(log) :
                     log[k].kind = "commit" /\ log[k].node \in Inputs[i]}
    IN UNION {Impact(i, Hull(DOMAIN log[k].at), first, Min({last, b.last}), last) : k \in later}

InputWindows(i, b, first, last) ==
    LET through == Min({last, b.last})
        affected(k) == {d \in Hull(DOMAIN log[k].at) : d <= last}
        later == {k \in (receipts[b.receipt].max + 1) .. Len(log) :
                     /\ log[k].kind = "commit" /\ log[k].node \in Inputs[i]
                     /\ \E d \in affected(k) : d <= through}
    IN UNION {Impact(i, affected(k), first, through, last) : k \in later}

(* Later publications of the Item itself do not inherit its completion.     *)
OutputWindows(i, b, first, last) ==
    UNION {Hull(DOMAIN log[k].at) \cap (first .. Min({last, b.last}))
           : k \in {j \in (b.result + 1) .. Len(log) :
                       log[j].kind = "commit" /\ log[j].node = i}}

InputsRedefined(i, b) == \E n \in Inputs[i] : receipts[b.receipt].specs[n] # spec[n]

Blocked == [mode |-> "blocked", days |-> {}]
Rebuild(days) == [mode |-> IF days = {} THEN "unchanged" ELSE "build", days |-> days]

CompletedActions(i, b, first, last) ==
    LET own == OutputWindows(i, b, first, last)
        found == own \cup InputWindows(i, b, first, last)
        spread == IF i \in Forward /\ found # {} THEN Min(found) .. last ELSE found
        all == spread \cup {d \in Days : d > b.last /\ d <= last}
    IN IF own = {} /\ last <= b.last /\ CurrentReceipt[b.receipt] THEN Rebuild({})
       ELSE IF InputsRedefined(i, b) THEN Blocked
       ELSE IF first .. b.last \subseteq all THEN Blocked
       ELSE Rebuild(all)

Overlaps(i, s, first, last) ==
    \/ \E k \in Whole(i) :
          /\ builds[i][k].spec = s
          /\ builds[i][k].first <= last /\ builds[i][k].last >= first
    \/ \E r \in rows[i] : r.spec = s /\ r.first <= last /\ r.last >= first

Plan(i, s, first, last) ==
    IF initial[i].status = "running" THEN Blocked
    ELSE IF Completed(i, s, first) # {}
         THEN CompletedActions(i, builds[i][Predecessor(i, s, first)], first, last)
    ELSE IF Overlaps(i, s, first, last) THEN Blocked
    ELSE Rebuild(first .. last)

(* The windows of a plan are computed one at a time, each a run of days.    *)
FirstRun(days) ==
    {d \in days : Min(days) .. d \subseteq days}

-----------------------------------------------------------------------------
(* Certificates and flags.                                                 *)

NoFlag == [spec |-> 0, first |-> 1, last |-> 0, target |-> 0, revision |-> 0,
           deps |-> <<>>, build |-> 0]

\* Fault: windows are united whatever they were written under.
WriteCompletionOfAnything(i, s, first, last, target, build) ==
    LET old == flag[i]
        same == /\ old.spec = s /\ ~incomplete[i]
                /\ old.revision = Revision(i) /\ old.deps = DependencyState(i)
        contiguous == first <= old.last + 1 /\ old.first <= last + 1
        new == [spec |-> s, target |-> target, build |-> build,
                first |-> IF contiguous THEN Min({first, old.first}) ELSE first,
                last |-> IF contiguous THEN Max({last, old.last}) ELSE last,
                revision |-> Revision(i), deps |-> DependencyState(i)]
    IN IF same /\ old.target > target THEN old ELSE new

(* write_completion: the windows of unchanged neighbours are united, and an *)
(* older target cannot replace a later one.                                 *)
WriteCompletion(i, s, first, last, target, build) ==
    LET old == flag[i]
        same == /\ old.spec = s /\ ~incomplete[i]
                /\ old.revision = Revision(i) /\ old.deps = DependencyState(i)
        contiguous == same /\ first <= old.last + 1 /\ old.first <= last + 1
        new == [spec |-> s, target |-> target, build |-> build,
                first |-> IF contiguous THEN Min({first, old.first}) ELSE first,
                last |-> IF contiguous THEN Max({last, old.last}) ELSE last,
                revision |-> Revision(i), deps |-> DependencyState(i)]
    IN IF same /\ old.target > target THEN old ELSE new

Build(kind, s, first, last, receipt, result) ==
    [kind |-> kind, spec |-> s, first |-> first, last |-> last,
     receipt |-> receipt, result |-> result, bound |-> Len(log)]

(* save_completion, with and without its flag.                              *)
Certify(i, b) == builds' = [builds EXCEPT ![i] = Append(@, b)]

PublishFlag(i, b) ==
    /\ flag' = [flag EXCEPT ![i] = WriteCompletion(i, b.spec, b.first, b.last, b.last,
                                                   Len(builds[i]) + 1)]
    /\ incomplete' = [incomplete EXCEPT ![i] = FALSE]

-----------------------------------------------------------------------------
(* Calls.  A frame is one operation; an update runs the updates of the      *)
(* Items it reads on top of itself.                                         *)

Frame(op, i, first, last) ==
    [op |-> op, item |-> i, first |-> first, last |-> last, phase |-> "parents",
     spec |-> spec[i], before |-> Len(log), receipt |-> 0, todo |-> {n \in Inputs[i] : n \in Items},
     left |-> {}, unit |-> {}, unpublished |-> {}, result |-> 0, prior |-> 0]

Top(p) == call[p][Len(call[p])]
At(p, phase) == call[p] # <<>> /\ Top(p).phase = phase

Set(p, frame) == call' = [call EXCEPT ![p] = [@ EXCEPT ![Len(@)] = frame]]
Goto(p, phase) == Set(p, [Top(p) EXCEPT !.phase = phase])

\* Fault: the Item below does not learn that its input is done.
ReturnKeepingParent(p) ==
    LET k == Len(call[p]) - 1
    IN call' = [call EXCEPT ![p] = SubSeq(@, 1, k)]

(* An operation that is done resumes the one below; one that fails ends all. *)
Return(p) ==
    LET below == SubSeq(call[p], 1, Len(call[p]) - 1)
        k == Len(below)
    IN call' = [call EXCEPT ![p] =
           IF k = 0 THEN below
           ELSE [below EXCEPT ![k].todo = @ \ {Top(p).item}]]

Held(p) == {i \in Items : lease[i] = p}
Fail(p) ==
    /\ call' = [call EXCEPT ![p] = <<>>]
    /\ lease' = [i \in Items |-> IF i \in Held(p) THEN NoProc ELSE lease[i]]

MayWrite(p, i) == lease[i] \in {NoProc, p}

(* The raw baselines are published; no Item is.                             *)
Init ==
    /\ spec = [n \in Nodes |-> 1]
    /\ log = [k \in 1 .. Cardinality(Raws) |->
                [kind |-> "commit", node |-> SetToSeq(Raws)[k], receipt |-> 0,
                 at |-> [d \in Days |-> [by |-> 0, of |-> <<0>>]]]]
    /\ incomplete = [n \in Nodes |-> FALSE]
    /\ receipts = <<>>
    /\ builds = [i \in Items |-> <<>>]
    /\ rows = [i \in Items |-> {}]
    /\ initial = [i \in Items |-> [status |-> "none", spec |-> 0, first |-> 1, last |-> 1, pinned |-> {}]]
    /\ flag = [i \in Items |-> NoFlag]
    /\ lease = [i \in Items |-> NoProc]
    /\ call = [p \in Procs |-> <<>>]
    /\ calls = 0 /\ events = 0

-----------------------------------------------------------------------------
(* What is published around the calls.                                     *)

Surprise == events < MaxEvents /\ events' = events + 1

Commit(n, at, receipt) ==
    /\ log' = Append(log, [kind |-> "commit", node |-> n, at |-> at, receipt |-> receipt])
    /\ incomplete' = [incomplete EXCEPT ![n] = TRUE]

(* A raw update publishes rows, and advances its own flag once it is done.  *)
RawCommit(r) ==
    /\ Surprise
    /\ \E d \in Days : Commit(r, [e \in {d} |-> [by |-> 0, of |-> <<Len(log) + 1>>]], 0)
    /\ UNCHANGED <<spec, evidence, lease, call, calls>>

RawComplete(r) ==
    /\ incomplete[r]
    /\ incomplete' = [incomplete EXCEPT ![r] = FALSE]
    /\ UNCHANGED <<spec, log, evidence, lease, call, calls, events>>

(* ItemAPI.ingest without an input receipt: rows from outside.              *)
Ingest(i) ==
    /\ lease[i] = NoProc
    /\ Cardinality({k \in 1 .. Len(log) : log[k].node \in Items /\ log[k].receipt = 0})
         < MaxIngests
    /\ Surprise
    /\ \E d \in Days : Commit(i, [e \in {d} |-> [by |-> 0, of |-> <<Len(log) + 1>>]], 0)
    /\ UNCHANGED <<spec, evidence, lease, call, calls>>

(* register, and a raw declaration: the numerical definition is another.    *)
Redefine(n) ==
    /\ spec[n] < MaxDefinitions
    /\ n \in Items => lease[n] = NoProc
    /\ Surprise
    /\ spec' = [spec EXCEPT ![n] = @ + 1]
    /\ UNCHANGED <<log, incomplete, evidence, lease, call, calls>>

-----------------------------------------------------------------------------
(* Starting a call, and the updates of the Items it reads.                  *)

(* The first call fixed definition and range; a completed one is unchanged.  *)
Initializable(i, r) ==
    \/ initial[i].status = "none"
    \/ /\ initial[i].status = "running" /\ initial[i].spec = spec[i]
       /\ <<initial[i].first, initial[i].last>> = r

Start(p, op, i) ==
    /\ call[p] = <<>>
    /\ MaxCalls > 0 => calls < MaxCalls
    /\ calls' = IF MaxCalls > 0 THEN calls + 1 ELSE 0
    /\ \E r \in Requests :
         /\ call' = [call EXCEPT ![p] = <<Frame(op, i, r[1], r[2])>>]
         /\ op = "initialize" => Initializable(i, r)
    /\ UNCHANGED <<data, evidence, lease, events>>

UpdateParent(p) ==
    /\ At(p, "parents") /\ Top(p).todo # {}
    /\ \E n \in Top(p).todo :
         call' = [call EXCEPT ![p] = Append(@, Frame("update", n, Top(p).first, Top(p).last))]
    /\ UNCHANGED <<data, evidence, lease, calls, events>>

(* The frame with its next unit opened, or ready to finish.                 *)
Advance(f) ==
    IF f.left = {} THEN [f EXCEPT !.phase = "finish", !.unit = {}]
    ELSE [f EXCEPT !.phase = "publish", !.unit = FirstRun(f.left),
                   !.unpublished = FirstRun(f.left), !.left = @ \ FirstRun(f.left)]

PlanOf(f) == Plan(f.item, f.spec, f.first, f.last)

PlanUpdate(p) ==
    LET f == Top(p)
    IN /\ At(p, "parents") /\ f.todo = {} /\ f.op = "update"
       /\ CASE PlanOf(f).mode = "blocked" -> Fail(p)
            [] PlanOf(f).mode = "build" ->
                 Set(p, [f EXCEPT !.phase = "freeze", !.left = PlanOf(f).days]) /\ UNCHANGED lease
            [] PlanOf(f).mode = "unchanged" ->
                 /\ Set(p, [f EXCEPT !.phase = "reuse", !.prior = Predecessor(f.item, f.spec, f.first)])
                 /\ UNCHANGED lease
       /\ UNCHANGED <<data, evidence, calls, events>>

FreezeInputs(p) ==
    LET f == Top(p)
        r == Capture(f.item, f.last)
    IN /\ At(p, "freeze")
       /\ receipts' = Register(r)
       /\ Set(p, [f EXCEPT !.phase = "recheck", !.receipt = Identity(r)])
       /\ UNCHANGED <<data, builds, rows, initial, flag, lease, calls, events>>

(* An input commit between the plan and the capture may not be overlooked.  *)
RecheckPlan(p) ==
    LET f == Top(p)
    IN /\ At(p, "recheck")
       /\ IF PlanOf(f) = Rebuild(f.left) THEN Set(p, Advance(f)) /\ UNCHANGED lease ELSE Fail(p)
       /\ UNCHANGED <<data, evidence, calls, events>>

-----------------------------------------------------------------------------
(* One unit: its rows, the repair of what others wrote meanwhile, and its   *)
(* certificate.  The producer runs outside any transaction.                 *)

Output(f, d) == Compute(f.item, f.spec, receipts[f.receipt].max, d)

Differs(f, days) == {d \in days : Content(f.item, d, Len(log)) # Output(f, d)}

(* _publish_proven: a commit of the changed rows or a check of equal ones,  *)
(* and the record of the published range.                                  *)
Publish(p, days, phase) ==
    LET f == Top(p)
        changed == Differs(f, days)
        row == [spec |-> f.spec, receipt |-> f.receipt, first |-> Min(days), last |-> Max(days)]
    IN IF ~MayWrite(p, f.item) \/ spec[f.item] # f.spec
       THEN Fail(p) /\ UNCHANGED <<log, incomplete, rows>>
       ELSE /\ IF changed # {} THEN Commit(f.item, [d \in changed |-> Output(f, d)], f.receipt)
               ELSE /\ log' = Append(log, [kind |-> "check", node |-> f.item,
                                           at |-> <<>>, receipt |-> f.receipt])
                    /\ UNCHANGED incomplete
            /\ rows' = [rows EXCEPT ![f.item] = @ \cup {row}]
            /\ Set(p, [f EXCEPT !.unpublished = @ \ days,
                                !.result = IF changed # {} THEN Len(log) + 1 ELSE ResultCommit(f.item),
                                !.phase = IF f.unpublished = days THEN phase ELSE "publish"])
            /\ UNCHANGED lease

(* A first panel is one commit; later ones are published day by day.        *)
PublishRows(p) ==
    /\ At(p, "publish")
    /\ Publish(p, IF ResultCommit(Top(p).item) = 0 THEN Top(p).unpublished
                  ELSE {Min(Top(p).unpublished)}, "settle")
    /\ UNCHANGED <<spec, receipts, builds, initial, flag, calls, events>>

Settle(p) ==
    LET f == Top(p)
        drift == Differs(f, f.unit)
    IN /\ At(p, "settle")
       /\ Set(p, [f EXCEPT !.phase = IF drift = {} THEN "certify" ELSE "repair",
                           !.unpublished = drift])
       /\ UNCHANGED <<data, evidence, lease, calls, events>>

RepairRows(p) ==
    /\ At(p, "repair")
    /\ Publish(p, Top(p).unpublished, "certify")
    /\ UNCHANGED <<spec, receipts, builds, initial, flag, calls, events>>

UnitBuild(f, kind) == Build(kind, f.spec, Min(f.unit), Max(f.unit), f.receipt, f.result)

CertifyUnit(p) ==
    LET f == Top(p)
        b == UnitBuild(f, IF f.op = "initialize" THEN "unit" ELSE "whole")
    IN /\ At(p, "certify") /\ f.op # "resume"
       /\ Certify(f.item, b)
       /\ IF f.op = "initialize"
          THEN Goto(p, "units") /\ UNCHANGED <<flag, incomplete>>
          ELSE Set(p, Advance(f)) /\ PublishFlag(f.item, b)
       /\ UNCHANGED <<spec, log, receipts, rows, initial, lease, calls, events>>

(* The whole requested range, unless someone else wrote the output.         *)
FinishUpdate(p) ==
    LET f == Top(p)
        foreign == {k \in (f.before + 1) .. Len(log) :
                       log[k].node = f.item /\ log[k].receipt # f.receipt}
        b == Build("whole", f.spec, f.first, f.last, f.receipt, f.result)
    IN /\ At(p, "finish")
       /\ IF spec[f.item] # f.spec \/ foreign # {}
          THEN Fail(p) /\ UNCHANGED <<builds, flag, incomplete>>
          ELSE Certify(f.item, b) /\ PublishFlag(f.item, b) /\ Return(p) /\ UNCHANGED lease
       /\ UNCHANGED <<spec, log, receipts, rows, initial, calls, events>>

-----------------------------------------------------------------------------
(* An update with nothing to compute certifies the completed rows against   *)
(* current inputs, under the writer fence.                                  *)

DecideReuse(p) ==
    LET f == Top(p)
        original == builds[f.item][f.prior].receipt
        r == Capture(f.item, f.last)
    IN /\ At(p, "reuse")
       /\ IF CurrentReceipt[original]
          THEN /\ Set(p, [f EXCEPT !.phase = "refresh", !.receipt = original])
               /\ UNCHANGED receipts
          ELSE /\ receipts' = Register(r)
               /\ Set(p, [f EXCEPT !.phase = "rebind", !.receipt = Identity(r)])
       /\ UNCHANGED <<data, builds, rows, initial, flag, lease, calls, events>>

Undisturbed(f) ==
    /\ CurrentReceipt[f.receipt]
    /\ \A k \in (f.before + 1) .. Len(log) : log[k].node # f.item
    /\ spec[f.item] = f.spec

Rebind(p) ==
    LET f == Top(p)
        b == Build("whole", f.spec, f.first, f.last, f.receipt, ResultCommit(f.item))
    IN /\ At(p, "rebind")
       /\ IF Undisturbed(f) /\ PlanOf(f).mode = "unchanged"
          THEN Certify(f.item, b) /\ PublishFlag(f.item, b) /\ Return(p) /\ UNCHANGED lease
          ELSE Fail(p) /\ UNCHANGED <<builds, flag, incomplete>>
       /\ UNCHANGED <<spec, log, receipts, rows, initial, calls, events>>

(* refresh_completion_dependencies: only the flag of exactly that build.    *)
Refreshable(f) ==
    LET i == f.item
        b == builds[i][f.prior]
    IN /\ ~incomplete[i] /\ flag[i].revision = Revision(i)
       /\ flag[i].build = f.prior /\ flag[i].spec = b.spec
       /\ flag[i].first = b.first /\ flag[i].last = b.last
       /\ b.result = ResultCommit(i)
       /\ \A k \in (b.bound + 1) .. Len(log) : log[k].node # i
       /\ flag[i].target \in flag[i].last .. receipts[b.receipt].cutoff

RefreshFlag(p) ==
    LET f == Top(p)
        old == flag[f.item]
    IN /\ At(p, "refresh")
       /\ IF Undisturbed(f)
          THEN /\ flag' = IF ~Refreshable(f) \/ DependencyCurrent(f.item) THEN flag
                          ELSE [flag EXCEPT ![f.item] =
                                  WriteCompletion(f.item, old.spec, old.first, old.last,
                                                  old.target, old.build)]
               /\ Return(p) /\ UNCHANGED lease
          ELSE Fail(p) /\ UNCHANGED flag
       /\ UNCHANGED <<data, receipts, builds, rows, initial, calls, events>>

-----------------------------------------------------------------------------
(* Initialization: one pinned receipt, units that survive cancellation, and *)
(* a certificate only for the whole range.  The lease is held throughout.   *)

(* The first call fixes definition and bounds; a pinned build is sought by   *)
(* the bounds of the call.                                                 *)
Declared(f) ==
    IF initial[f.item].status # "none" THEN initial[f.item]
    ELSE [status |-> "running", spec |-> f.spec, first |-> f.first, last |-> f.last,
          pinned |-> {}]

Historical(i) == initial[i].status = "none" /\ ResultCommit(i) # 0

(* A call cancelled before it captured anything still fixes them.           *)
CancelInitialize(p) ==
    LET f == Top(p)
    IN /\ At(p, "parents") /\ f.op = "initialize"
       /\ initial' = IF Historical(f.item) THEN initial
                     ELSE [initial EXCEPT ![f.item] = Declared(f)]
       /\ Surprise
       /\ Fail(p)
       /\ UNCHANGED <<data, receipts, builds, rows, flag, calls>>

Pin(f, k) == [spec |-> f.spec, first |-> f.first, last |-> f.last, receipt |-> k]

AdmitInitialize(p) ==
    LET f == Top(p)
        i == f.item
        r == Capture(i, f.last)
        saved == {k \in 1 .. Len(receipts) : Pin(f, k) \in initial[i].pinned}
        k == IF saved # {} THEN Max(saved) ELSE Identity(r)
    IN /\ At(p, "parents") /\ f.op = "initialize" /\ f.todo = {}
       /\ IF lease[i] # NoProc \/ spec[i] # f.spec \/ Historical(i)
          THEN Fail(p) /\ UNCHANGED <<receipts, initial, incomplete>>
          ELSE /\ receipts' = IF saved # {} THEN receipts ELSE Register(r)
               /\ initial' = [initial EXCEPT ![i] =
                    [Declared(f) EXCEPT !.pinned = @ \cup {Pin(f, k)}]]
               /\ incomplete' = [incomplete EXCEPT ![i] = TRUE]
               /\ lease' = [lease EXCEPT ![i] = p]
               /\ Set(p, [f EXCEPT !.phase = "units", !.receipt = k])
       /\ UNCHANGED <<spec, log, builds, rows, flag, calls, events>>

\* Fault: a unit counts whatever was written over it.
ReusableOverForeignRows(f) ==
    {b \in {builds[f.item][k] : k \in 1 .. Len(builds[f.item])} :
        b.kind = "unit" /\ b.spec = f.spec /\ b.receipt = f.receipt}

(* _reusable_unit: a unit of the pinned source nobody has written over.     *)
Reusable(f) ==
    {b \in {builds[f.item][k] : k \in 1 .. Len(builds[f.item])} :
        /\ b.kind = "unit" /\ b.spec = f.spec /\ b.receipt = f.receipt
        /\ \A k \in (b.result + 1) .. Len(log) :
             log[k].kind = "commit" /\ log[k].node = f.item
               => Hull(DOMAIN log[k].at) \cap (b.first .. b.last) = {}}

Gap(f) == (f.first .. f.last) \ UNION {b.first .. b.last : b \in Reusable(f)}

(* Windows end where the month or the caller's resources say.               *)
InitializeUnit(p) ==
    LET f == Top(p)
    IN /\ At(p, "units") /\ Gap(f) # {}
       /\ \E stop \in FirstRun(Gap(f)) :
            Set(p, [f EXCEPT !.phase = "publish", !.unit = Min(Gap(f)) .. stop,
                             !.unpublished = Min(Gap(f)) .. stop])
       /\ UNCHANGED <<data, evidence, lease, calls, events>>

\* Fault: only the definitions of the pinned source are compared.
PinnedUnderDefinition(f) == receipts[f.receipt].specs = [n \in Inputs[f.item] |-> spec[n]]

PinnedIsCurrent(f) == CurrentReceipt[f.receipt]

(* The flag is published only if the pinned source is still the current one. *)
FinishInitialize(p) ==
    LET f == Top(p)
        i == f.item
        b == Build("whole", f.spec, f.first, f.last, f.receipt,
                   Max({u.result : u \in Reusable(f)}))
    IN /\ At(p, "units") /\ Gap(f) = {}
       /\ lease' = [lease EXCEPT ![i] = NoProc]
       /\ IF spec[i] # f.spec
          THEN call' = [call EXCEPT ![p] = <<>>] /\ UNCHANGED <<builds, flag, incomplete, initial>>
          ELSE /\ Certify(i, b) /\ Return(p)
               /\ IF PinnedIsCurrent(f) THEN PublishFlag(i, b)
                  ELSE UNCHANGED <<flag, incomplete>>
               /\ initial' = [initial EXCEPT ![i].status = "complete",
                                              ![i].pinned = @ \ {Pin(f, f.receipt)}]
       /\ UNCHANGED <<spec, log, receipts, rows, calls, events>>

-----------------------------------------------------------------------------
(* resume_update: a first build that left rows without a completion.        *)

Resumable(i, row, first, last) ==
    /\ row.spec = spec[i]
    /\ \A k \in Whole(i) : builds[i][k].spec # spec[i]
    /\ \A r \in {q \in rows[i] : q.spec = spec[i]} :
         /\ r.receipt = row.receipt
         /\ first <= r.first /\ r.last <= last
         /\ ~(r.first <= first /\ last <= r.last)
    /\ initial[i].status # "running"
    /\ initial[i].status = "none" \/ initial[i].spec # spec[i]
    /\ receipts[row.receipt].cutoff = last
    /\ CurrentReceipt[row.receipt]

StartResume(p, i) ==
    /\ call[p] = <<>> /\ lease[i] = NoProc
    /\ MaxCalls > 0 => calls < MaxCalls
    /\ \E row \in rows[i], r \in Requests :
         /\ Resumable(i, row, r[1], r[2])
         /\ call' = [call EXCEPT ![p] =
              <<[Frame("resume", i, r[1], r[2]) EXCEPT
                   !.phase = "publish", !.todo = {}, !.receipt = row.receipt,
                   !.unit = r[1] .. r[2], !.unpublished = r[1] .. r[2]]>>]
    /\ lease' = [lease EXCEPT ![i] = p]
    /\ calls' = IF MaxCalls > 0 THEN calls + 1 ELSE 0
    /\ UNCHANGED <<data, evidence, events>>

FinishResume(p) ==
    LET f == Top(p)
        b == UnitBuild(f, "whole")
        partial == \A r \in rows[f.item] :
            r.spec = f.spec => r.receipt = f.receipt /\ f.first <= r.first /\ r.last <= f.last
    IN /\ At(p, "certify") /\ f.op = "resume"
       /\ lease' = [lease EXCEPT ![f.item] = NoProc]
       /\ call' = [call EXCEPT ![p] = <<>>]
       /\ IF /\ spec[f.item] = f.spec /\ partial /\ CurrentReceipt[f.receipt]
             /\ \A k \in Whole(f.item) : builds[f.item][k].spec # f.spec
          THEN Certify(f.item, b) /\ PublishFlag(f.item, b)
          ELSE UNCHANGED <<builds, flag, incomplete>>
       /\ UNCHANGED <<spec, log, receipts, rows, initial, calls, events>>

-----------------------------------------------------------------------------
(* A call may be cancelled or raise, or its process may die with its lease.  *)

Interrupt(p) ==
    /\ call[p] # <<>>
    /\ Surprise
    /\ Fail(p)
    /\ UNCHANGED <<data, evidence, calls>>

Die(p) ==
    /\ Held(p) # {} /\ call[p] # <<>>
    /\ Surprise
    /\ call' = [call EXCEPT ![p] = <<>>]
    /\ UNCHANGED <<data, evidence, lease, calls>>

Abandon(p) ==
    /\ Held(p) # {} /\ call[p] = <<>>
    /\ lease' = [i \in Items |-> IF i \in Held(p) THEN NoProc ELSE lease[i]]
    /\ UNCHANGED <<data, evidence, call, calls, events>>

-----------------------------------------------------------------------------
Proceed(p) ==
    \/ UpdateParent(p) \/ PlanUpdate(p) \/ FreezeInputs(p) \/ RecheckPlan(p)
    \/ PublishRows(p) \/ Settle(p) \/ RepairRows(p) \/ CertifyUnit(p) \/ FinishUpdate(p)
    \/ DecideReuse(p) \/ Rebind(p) \/ RefreshFlag(p)
    \/ AdmitInitialize(p) \/ InitializeUnit(p) \/ FinishInitialize(p) \/ FinishResume(p)

Begin(p) ==
    \E i \in Targets : Start(p, "update", i) \/ Start(p, "initialize", i) \/ StartResume(p, i)

Environment ==
    \/ \E r \in Raws : RawCommit(r) \/ RawComplete(r)
    \/ \E i \in Items : Ingest(i)
    \/ \E n \in Nodes : Redefine(n)
    \/ \E p \in Procs : CancelInitialize(p) \/ Interrupt(p) \/ Die(p) \/ Abandon(p)

Next == Environment \/ \E p \in Procs : Begin(p) \/ Proceed(p)

Spec == Init /\ [][Next]_vars

(* A caller that keeps asking, raw updates that finish, recovery that acts.  *)
Fairness ==
    /\ \A p \in Procs : WF_vars(Proceed(p)) /\ WF_vars(Abandon(p))
    /\ \A r \in Raws : WF_vars(RawComplete(r))
    /\ \A p \in Procs, i \in Targets : SF_vars(Start(p, "update", i))

FairSpec == Spec /\ Fairness

-----------------------------------------------------------------------------
(* What must hold.                                                         *)

TypeOK ==
    /\ spec \in [Nodes -> 1 .. MaxDefinitions]
    /\ \A k \in 1 .. Len(log) :
         /\ log[k].kind \in {"commit", "check"} /\ log[k].node \in Nodes
         /\ DOMAIN log[k].at \subseteq Days /\ log[k].receipt \in 0 .. Len(receipts)
    /\ incomplete \in [Nodes -> BOOLEAN]
    /\ \A k \in 1 .. Len(receipts) : receipts[k].item \in Items /\ receipts[k].max \in 0 .. Len(log)
    /\ \A i \in Items : \A k \in 1 .. Len(builds[i]) :
         /\ builds[i][k].kind \in {"unit", "whole"}
         /\ builds[i][k].receipt \in 1 .. Len(receipts)
         /\ builds[i][k].result \in 0 .. Len(log)
    /\ \A i \in Items : initial[i].status \in {"none", "running", "complete"}
    /\ lease \in [Items -> Procs \cup {NoProc}]
    /\ \A p \in Procs : \A k \in 1 .. Len(call[p]) :
         call[p][k].receipt \in 0 .. Len(receipts)

(* A completion is what it says: the rows of its range that nobody wrote     *)
(* over since are what its definition yields from its frozen receipt.  The   *)
(* prefix an update did not recompute, the units of an interrupted           *)
(* initialization and a reuse without computing are all certified by that.   *)
CompletionHolds ==
    \A i \in Items : \A k \in Whole(i) :
        LET w == builds[i][k] IN
        \A d \in w.first .. w.last :
            LastEvent(i, d, Len(log)) <= w.result
              => Content(i, d, Len(log)) = Compute(i, w.spec, receipts[w.receipt].max, d)

(* Nothing stale is overlooked: unless it is refused, an update computes     *)
(* every day of its request whose inputs or rows are no longer the ones its  *)
(* definition would give now, whatever raced with the earlier updates.       *)
Stale(i, d) == Content(i, d, Len(log)) # Compute(i, spec[i], Len(log), d)

RepairsArePlanned ==
    \A i \in Items : \A q \in Requests :
        LET plan == Plan(i, spec[i], q[1], q[2])
        IN plan.mode # "blocked" => {d \in q[1] .. q[2] : Stale(i, d)} \subseteq plan.days

(* Windows are united, but a day that no completed build of the flag's       *)
(* definition covers is never advertised.                                    *)
AdvertisedIsCertified ==
    \A i \in Items : \A d \in flag[i].first .. flag[i].last :
        \E k \in Whole(i) : builds[i][k].spec = flag[i].spec
                            /\ d \in builds[i][k].first .. builds[i][k].last

(* An initialization or a reuse never advertises inputs that moved on: when  *)
(* it writes the flag, every row of its range is what its inputs still give. *)
(* (The flag unites that range with the one it had, which an update wrote.)  *)
PinnedFlagIsFresh ==
    [][\A p \in Procs :
         LET f == Top(p)
         IN (FinishInitialize(p) \/ Rebind(p)) /\ flag'[f.item] # flag[f.item] =>
                \A d \in f.first .. f.last : ~Stale(f.item, d)]_vars

(* An update asked for often enough gets there: in the end every range is    *)
(* what its inputs give, or an update of it, or of what it reads, is refused. *)
Refused(i, q) == \E j \in Below[Cardinality(Items)][i] : Plan(j, spec[j], q[1], q[2]).mode = "blocked"

EventuallyFresh ==
    <>[](\A i \in Items, q \in Requests :
            Refused(i, q) \/ \A d \in q[1] .. q[2] : ~Stale(i, d))
=============================================================================
