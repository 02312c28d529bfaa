--------------------------- MODULE PointInTime -----------------------------
(* What a DataItem shows for a day as it was known on a later day            *)
(* (items/pit.py, commit_versions, ItemAPI._build and _ingest).  Raw rows    *)
(* and Item rows are versions: an observation time, the day from which the  *)
(* version is known, a value, and whether that day is only the unverified    *)
(* baseline of an initialization.  A build freezes its input, evaluates the *)
(* producer at every day on which an earlier observation changed, and        *)
(* publishes the differences in the order of those days.                    *)
EXTENDS Integers, FiniteSets, FiniteSetsExt

CONSTANTS
    LastDay,      \* the calendar is 1 .. LastDay, one asset, one value a day
    Ranges,       \* ranges a caller may build, pairs of days
    Values,       \* values a provider may report
    Kept,         \* values of which the producer makes a row
    Window,       \* observations a producer's row reads, its own the last
    Lag,          \* days from an observation to its declared availability
    Null,         \* a withdrawn value
    Foreign,      \* a value another caller wrote into the Item
    MaxCommits, MaxBuilds, MaxForeign   \* bounds

ASSUME PointInTimeAssumption ==
    /\ LastDay \in Nat \ {0} /\ Window \in Nat \ {0}
    /\ Ranges \subseteq {p \in (1 .. LastDay) \X (1 .. LastDay) : p[1] <= p[2]}
    /\ Lag \in Nat /\ Kept \subseteq Values
    /\ MaxCommits \in Nat /\ MaxBuilds \in Nat /\ MaxForeign \in Nat
    /\ Null # Foreign

VARIABLES
    today,
    raw,       \* versions of the raw input, the attested copies among them
    item,      \* versions of the Item
    build,     \* the build in progress
    frozen,    \* the builds begun: range, day, last raw commit, whether completed
    count      \* commits, builds and foreign rows so far

vars == <<today, raw, item, build, frozen, count>>

Days == 1 .. LastDay
Rows(values) == [time : Days, at : Nat, value : values, baseline : BOOLEAN, seq : Nat]
Readings == SUBSET (Days \X Values)

\* What the producer makes of its inputs is neither a withdrawal nor foreign.
ASSUME ReadingAssumption == \A reading \in Readings : reading # Null /\ reading # Foreign

TypeOK ==
    /\ today \in Days
    /\ raw \subseteq Rows(Values)
    /\ item \subseteq Rows(Readings \cup {Null, Foreign})
    /\ frozen \subseteq [first : Days, last : Days, on : Days, raw : Nat, done : BOOLEAN]
    /\ build.phase \in {"none", "building", "repairing", "withdrawing"}

-----------------------------------------------------------------------------
(* Versions.                                                                *)

\* Fault: the last commit wins, whatever day its version is known from.
LaterCommit(r, s) == r.seq > s.seq

\* Versions are resolved by the day they are known from, then by commit.
Later(r, s) == r.at > s.at \/ (r.at = s.at /\ r.seq > s.seq)

\* The latest of a set of versions for each observation time.
Latest(rows) == {r \in rows : ~\E s \in rows : s.time = r.time /\ Later(s, r)}

Known(rows, day) == Latest({r \in rows : r.at <= day})

\* A commit keeps only rows whose content differs from the latest version.
NewRows(rows, old) ==
    {r \in rows : ~\E s \in Latest(old) : s.time = r.time /\ s.value = r.value}

\* A witness of a raw row keeps the day the row had; the day an Item baseline
\* was given is not an observed one, so its time and declared availability count.
Floor(r, of) == IF of = "item" THEN r.time + Lag ELSE r.at

\* The copy of baseline row s that row r of a later commit witnesses.
Witness(s, r, of, seq) ==
    [s EXCEPT !.at = Max({Floor(s, of), r.at}), !.baseline = FALSE, !.seq = seq]

\* Fault: a repeated baseline passes for a witness too.
AttestedByAny(rows, old, of, seq) ==
    UNION {{Witness(s, r, of, seq) :
              s \in {q \in Latest(old) : q.time = r.time /\ q.value = r.value /\ q.baseline}} :
           r \in rows}

\* A verified commit that repeats a baseline row witnesses it: the copy is
\* known from the day of the new row, and no earlier than the floor of the old.
Attested(rows, old, of, seq) ==
    UNION {{Witness(s, r, of, seq) :
              s \in {q \in Latest(old) : q.time = r.time /\ q.value = r.value /\ q.baseline}} :
           r \in {q \in rows : ~q.baseline}}

LastCommit(rows) == Max({0} \cup {r.seq : r \in rows})

Committed(rows, old, of) ==
    LET seq == LastCommit(old) + 1
    IN old \cup {[r EXCEPT !.seq = seq] : r \in NewRows(rows, old)}
           \cup Attested(rows, old, of, seq)

-----------------------------------------------------------------------------
(* The raw input.  A build reads only what it froze, so that a commit or a   *)
(* new day during a build changes nothing of it: both are taken after it.   *)

NoBuild == [phase |-> "none", first |-> 1, last |-> 1, on |-> 1, raw |-> 0, inputs |-> {},
            reconciled |-> {}, previous |-> {}, pending |-> {}]

Receipt(b) == [first |-> b.first, last |-> b.last, on |-> b.on, raw |-> b.raw,
               done |-> FALSE]

Building == build.phase # "none"

Row(t, at, value, baseline) ==
    [time |-> t, at |-> at, value |-> value, baseline |-> baseline, seq |-> 0]

\* The first commit of a dataset: history as the provider reports it now,
\* dated to its own days.
InitializeRaw ==
    /\ raw = {}
    /\ \E reported \in [1 .. today -> Values] :
        raw' = {[Row(t, t, reported[t], TRUE) EXCEPT !.seq = 1] : t \in 1 .. today}
    /\ UNCHANGED <<today, item, build, frozen, count>>

\* An incremental or refresh commit of one day's scope; one that changes
\* nothing only leaves a check behind.
UpdateRaw ==
    /\ ~Building /\ count.commit < MaxCommits
    /\ \E t \in 1 .. today, value \in Values :
        raw' = Committed({Row(t, today, value, FALSE)}, raw, "raw")
    /\ raw' # raw
    /\ count' = [count EXCEPT !.commit = @ + 1]
    /\ UNCHANGED <<today, item, build, frozen>>

Tick ==
    /\ ~Building /\ today < LastDay
    /\ today' = today + 1
    /\ UNCHANGED <<raw, item, build, frozen, count>>

-----------------------------------------------------------------------------
(* The build.                                                               *)

\* The days after the first on which an earlier observation got a version,
\* a revision, a late row or a witness; 0 stands for no boundary.
Boundaries ==
    {0} \cup {r.at : r \in {r \in build.inputs :
                        r.at > r.time /\ r.at > build.first /\ r.at <= build.last}}

NumBoundaries == Cardinality(Boundaries)

Boundary(i) ==
    CHOOSE b \in Boundaries : Cardinality({c \in Boundaries : c < b}) = i - 1

\* An evaluation sees its input as known on the eve of the next boundary.
Cutoff(i) == IF i = NumBoundaries THEN build.last ELSE Boundary(i + 1) - 1

\* The producer: a causal function of the known observations that may leave
\* an observation out.
Reading(known, t) ==
    {<<r.time, r.value>> : r \in {s \in known : s.time \in t - Window + 1 .. t}}

Produced(known) == {r.time : r \in {s \in known : s.value \in Kept}}

\* One unverified version among the selected inputs marks the whole output.
Unverified(known) == \E r \in known : r.baseline

Output(i) ==
    LET known == Known(build.inputs, Cutoff(i))
    IN {Row(t, Max({t + Lag, Boundary(i)}), Reading(known, t), Unverified(known)) :
            t \in Produced(known) \cap build.first .. build.last}

\* What a row is compared by between one evaluation and the next.
SameRow(r, s) == r.time = s.time /\ r.value = s.value /\ r.baseline = s.baseline

Covers(rows, t) == \E r \in rows : r.time = t

Withdrawn(rows, day) ==
    {Row(r.time, Max({r.time, day}), Null, r.baseline) : r \in rows}

\* The rows an evaluation changes, the rows it no longer makes among them.
Changes(i) ==
    LET output == Output(i)
        changed == {r \in output : ~\E s \in build.previous : SameRow(r, s)}
        removed == {s \in build.previous : ~Covers(output, s.time)}
    IN {r \in changed \cup Withdrawn(removed, Boundary(i)) : r.at <= build.last}

StartBuild ==
    /\ ~Building /\ raw # {} /\ count.build < MaxBuilds
    /\ \E range \in Ranges :
        /\ range[2] <= today
        /\ build' = [NoBuild EXCEPT !.phase = "building", !.first = range[1],
                        !.last = range[2], !.on = today, !.raw = LastCommit(raw),
                        !.inputs = {r \in raw : r.at <= range[2]}]
    /\ frozen' = frozen \cup {Receipt(build')}
    /\ count' = [count EXCEPT !.build = @ + 1]
    /\ UNCHANGED <<today, raw, item>>

\* Fault: results are taken in the order in which the workers finish.
AnyResult(i) == TRUE

\* Boundaries are evaluated by several workers; whatever the order in which
\* they finish, results are taken in the order of the boundaries.
NextResult(i) == \A j \in 1 .. i - 1 : j \in build.reconciled

Evaluated == build.reconciled = 1 .. NumBoundaries

Reconcile ==
    /\ build.phase = "building" /\ build.pending = {}
    /\ \E i \in 1 .. NumBoundaries \ build.reconciled :
        /\ NextResult(i)
        /\ build' = [build EXCEPT !.pending = Changes(i), !.previous = Output(i),
                        !.reconciled = @ \cup {i}]
    /\ UNCHANGED <<today, raw, item, frozen, count>>

\* Verified rows go first, day by day; the first publication of an Item and
\* the baseline rows of a build are committed together.
Group ==
    LET verified == {r \in build.pending : ~r.baseline}
        rows == IF verified # {} THEN verified ELSE build.pending
        bulk == item = {} \/ (verified = {} /\ build.phase = "building")
    IN IF bulk THEN rows ELSE {r \in rows : \A s \in rows : r.at <= s.at}

Publish ==
    /\ Building /\ build.pending # {}
    /\ item' = Committed(Group, item, "item")
    /\ build' = [build EXCEPT !.pending = @ \ Group]
    /\ UNCHANGED <<today, raw, frozen, count>>

\* After the last evaluation: its rows that are available by the end.
Final == {r \in Output(NumBoundaries) : r.time + Lag <= build.last}

Shown == {r \in Known(item, build.last) : r.time \in build.first .. build.last}

\* Rows of the final view that the store does not show are published again
\* at the end of the range.
Repairs ==
    {[r EXCEPT !.at = build.last] : r \in {s \in Final : ~\E q \in Shown : SameRow(s, q)}}

StaleKeys == {r \in Shown : ~Covers(Final, r.time)}

Repair ==
    /\ build.phase = "building" /\ build.pending = {} /\ Evaluated
    /\ build' = [build EXCEPT !.phase = "repairing",
                    !.pending = IF item = {} THEN {} ELSE Repairs]
    /\ UNCHANGED <<today, raw, item, frozen, count>>

\* Then what the store shows and the final view lacks is withdrawn.
Withdraw ==
    /\ build.phase = "repairing" /\ build.pending = {}
    /\ build' = [build EXCEPT !.phase = "withdrawing",
                    !.pending = {[r EXCEPT !.baseline = Unverified(Known(build.inputs, build.last))] :
                                    r \in Withdrawn(StaleKeys, build.last)}]
    /\ UNCHANGED <<today, raw, item, frozen, count>>

Complete ==
    /\ build.phase = "withdrawing" /\ build.pending = {}
    /\ build' = NoBuild
    /\ frozen' = frozen \cup {[Receipt(build) EXCEPT !.done = TRUE]}
    /\ UNCHANGED <<today, raw, item, count>>

\* Cancelled, interrupted or failed: what was committed stays.
Cancel ==
    /\ Building
    /\ build' = NoBuild
    /\ UNCHANGED <<today, raw, item, frozen, count>>

\* Another caller publishes a row of its own over what builds have published.
Ingest ==
    /\ ~Building /\ item # {} /\ count.foreign < MaxForeign
    /\ \E t \in 1 .. today :
        item' = Committed({Row(t, today, Foreign, FALSE)}, item, "item")
    /\ count' = [count EXCEPT !.foreign = @ + 1]
    /\ UNCHANGED <<today, raw, build, frozen>>

Init ==
    /\ today = 1 /\ raw = {} /\ item = {} /\ build = NoBuild /\ frozen = {}
    /\ count = [commit |-> 0, build |-> 0, foreign |-> 0]

Next ==
    \/ Tick \/ InitializeRaw \/ UpdateRaw \/ Ingest
    \/ StartBuild \/ Reconcile \/ Publish
    \/ Repair \/ Withdraw \/ Complete \/ Cancel

Spec == Init /\ [][Next]_vars

-----------------------------------------------------------------------------
(* Properties.                                                              *)

\* The value the versions show for t as known on a day; a withdrawn row
\* shows nothing.
Seen(t, day) == {r.value : r \in {s \in Known(item, day) : s.time = t}} \ {Null}

\* The value the producer makes of the inputs as known on that day.
Expected(inputs, t, day) ==
    IF t + Lag <= day /\ t \in Produced(Known(inputs, day))
    THEN {Reading(Known(inputs, day), t)} ELSE {}

Overruled(t, day) == \E r \in item : r.value = Foreign /\ r.time = t /\ r.at <= day

\* A row of the input became known later on the very day on which a build
\* froze it: what that build published of the day is kept as history.
Overtaken(day) ==
    \E f \in frozen, r \in raw : r.seq > f.raw /\ r.at <= f.on /\ r.at <= day

\* A build that ends in success shows, for every day of its range and as
\* known on every day up to its end, what the producer makes of the frozen
\* input as known on that day; and at the end of the range it has overruled
\* whatever was published before (_build, iter_computed_versions).
PointInTime ==
    build.phase = "withdrawing" /\ build.pending = {} =>
        \A t \in build.first .. build.last : \A day \in t .. build.last :
            \/ Seen(t, day) = Expected(build.inputs, t, day)
            \/ /\ Overruled(t, day) \/ Overtaken(day)
               /\ day < build.last \/ \E r \in item : r.at > build.last

\* What a completed build has shown of days before it began stays as it is,
\* whatever is committed, revised, rebuilt or cancelled later.
HistoryStands ==
    \A f \in {g \in frozen : g.done} :
        \A t \in f.first .. f.last : \A day \in t .. f.last :
            day < f.on => \/ Seen(t, day) = Expected(raw, t, day)
                          \/ Overruled(t, day) \/ Overtaken(day)

\* An Item row counts as verified only from a day on which every observation
\* it reads was verified itself (ItemAPI._build, _attested_versions).
NoPromotion ==
    \A r \in item :
        ~r.baseline /\ r.value # Foreign =>
            \A s \in Known(raw, r.at) :
                s.time \in r.time - Window + 1 .. r.time => ~s.baseline
=============================================================================
