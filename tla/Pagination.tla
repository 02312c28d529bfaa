----------------------------- MODULE Pagination -----------------------------
(***************************************************************************)
(* The transport of one claim of daily scopes: which provider calls are    *)
(* made for it, when a response is complete, and what each day becomes.    *)
(* A range whose response is saturated is bisected down to a day and then  *)
(* paged by offset; an inventory scan is paged cohort by cohort; a range   *)
(* that outgrows the byte bound is split into two requests.                *)
(*                                                                         *)
(* The provider is a fixed history that it serves in row order, at most    *)
(* RowLimit rows a call.  It may fail, repeat the page before, ignore the  *)
(* assets asked for, or leave a wide range empty.                          *)
(***************************************************************************)
EXTENDS Integers, FiniteSetsExt, SequencesExt

CONSTANTS
    NumDays,      \* days of the provider's history
    NumAssets,    \* rows a day may have, one per asset
    CohortSize,   \* initialization_scan.cohort_size
    RowLimit,     \* row_limit, and page_size
    MaxPages,     \* max_pages
    MaxRetries,   \* max_retries
    BufferLimit,  \* _buffer_limit_bytes, in rows
    Claims,       \* the sets of days a claim may cover
    MaxFaults     \* bound: calls that fail or repeat a page

ASSUME PaginationAssumption ==
    /\ {NumDays, NumAssets, CohortSize, RowLimit, MaxPages, MaxRetries, BufferLimit} \subseteq Nat \ {0}
    /\ Claims \subseteq (SUBSET (1 .. NumDays)) \ {{}}
    /\ MaxFaults \in Nat

Days == 1 .. NumDays
Assets == 1 .. NumAssets
Rows == 1 .. (NumDays * NumAssets)   \* the provider's row order
Day(r) == ((r - 1) \div NumAssets) + 1
Asset(r) == ((r - 1) % NumAssets) + 1

\* Options of a request: a range backfill by adaptive ranges or by offset pages (a
\* calendar month), a day by one call or by offset pages, a scan of the whole inventory.
\* required is the days from required_nonempty_start on.
OptionSets ==
    [kind : {"range"}, paged : BOOLEAN, bisectEmpty : BOOLEAN, required : {{}, 2 .. NumDays}]
    \cup [kind : {"daily"}, paged : BOOLEAN, bisectEmpty : {FALSE}, required : {{}, 2 .. NumDays}]
    \cup [kind : {"scan"}, paged : {TRUE}, bisectEmpty : {FALSE}, required : {{}}]

NotPaging == -1

VARIABLES
    options,    \* request_options and request_kind
    history,    \* the provider's rows
    loose,      \* the provider ignores the assets asked for
    requests,   \* claimed requests not yet fetched, each its set of days
    scopes,     \* daily_scopes of the request in hand, or {}
    calls,      \* pending: what is still to ask of the provider for it
    base,       \* the pages before this offset run, or NotPaging
    pages,      \* pages of the request in hand
    attempts,   \* attempts of the call in hand
    cancelled,  \* cancel_requested
    faults,
    outcome,    \* what each day has become
    held        \* how often a row was harvested

provider == <<options, history, loose>>
vars == <<provider, requests, scopes, calls, base, pages, attempts, cancelled, faults, outcome, held>>

-----------------------------------------------------------------------------
(* The provider.                                                           *)

Matching(call) == {r \in history : Day(r) \in call.days /\ (loose \/ Asset(r) \in call.assets)}

\* n rows of S after the first `from`.
Window(S, from, n) == {r \in S : Cardinality({x \in S : x < r}) \in from .. (from + n - 1)}

Offset == (Len(pages) - base) * RowLimit

Repeats(call) == Window(Matching(call), Offset - RowLimit, RowLimit)

Answers(call) ==
    IF base # NotPaging THEN {Window(Matching(call), Offset, RowLimit)}
    ELSE {Window(Matching(call), 0, RowLimit)}
         \cup {none \in {{}} : options.bisectEmpty /\ Cardinality(call.days) > 1}

-----------------------------------------------------------------------------
(* Pages.                                                                  *)

Page(rows) == [rows |-> rows, status |-> "success", kept |-> TRUE]
BadPage(status) == [rows |-> {}, status |-> status, kept |-> FALSE]
Dropped(page) == [page EXCEPT !.kept = FALSE]

Retained(ps) == FoldSeq(LAMBDA p, n : n + (IF p.kept THEN Cardinality(p.rows) ELSE 0), 0, ps)
WithinBuffer(ps) == Retained(ps) <= BufferLimit

\* _bound_pages: nothing of an oversized response is retained.
Bound(ps) == IF WithinBuffer(ps) THEN ps
             ELSE Append([i \in DOMAIN ps |-> Dropped(ps[i])], BadPage("oversized"))
Failing(ps) == \E i \in DOMAIN ps : ps[i].status # "success"

-----------------------------------------------------------------------------
(* Requests.                                                               *)

Whole(days) == [days |-> Min(days) .. Max(days), assets |-> Assets]
Cohorts == [i \in 1 .. ((NumAssets + CohortSize - 1) \div CohortSize) |->
              [days |-> Days, assets |-> {a \in Assets : (a - 1) \div CohortSize = i - 1}]]
CallsOf(days) == IF options.kind = "scan" THEN Cohorts ELSE <<Whole(days)>>

\* Only a request for one day must not come back empty as a whole.
MustAnswer == /\ options.kind # "scan" /\ Cardinality(scopes) = 1
              /\ scopes \subseteq options.required
\* ... which a range without pages checks only after the harvest.
EmptyRefused == /\ MustAnswer
                /\ IF base = NotPaging THEN options.kind = "daily" ELSE Len(pages) = base

Begin ==
    /\ scopes = {} /\ requests # <<>>
    /\ scopes' = Head(requests)
    /\ requests' = Tail(requests)
    /\ calls' = CallsOf(scopes')
    /\ base' = IF options.paged THEN 0 ELSE NotPaging
    /\ pages' = <<>> /\ attempts' = 0
    /\ UNCHANGED <<provider, cancelled, faults, outcome, held>>

\* The pages ps so far, and the calls cs still to make.
Continue(ps, cs, b) ==
    /\ pages' = ps /\ calls' = cs /\ base' = b
    /\ attempts' = 0
    /\ UNCHANGED <<provider, requests, scopes, cancelled, outcome, held>>
End(ps) == Continue(ps, <<>>, NotPaging)

Fetching == scopes # {} /\ calls # <<>>

\* The next range would exceed max_pages, discarded pages included.
Exhausted == base = NotPaging /\ options.kind = "range" /\ Len(pages) >= MaxPages
Exhaust ==
    /\ Fetching /\ Exhausted
    /\ End(Append(pages, BadPage("invalid")))
    /\ UNCHANGED faults

-----------------------------------------------------------------------------
(* One call: cancelled before an attempt or in a backoff, failed, answered. *)

CallCancelled ==
    /\ Fetching /\ ~Exhausted /\ cancelled
    /\ End(Append(pages, BadPage("cancelled")))
    /\ UNCHANGED faults

\* Fault: an attempt that came back empty is not counted.
NextAttemptUncounted(status) ==
    IF attempts + 1 < MaxRetries
    THEN /\ attempts' = IF status = "invalid" THEN attempts ELSE attempts + 1
         /\ UNCHANGED <<provider, requests, scopes, calls, base, pages, cancelled, outcome, held>>
    ELSE End(Append(pages, BadPage(status)))
NextAttempt(status) ==
    IF attempts + 1 < MaxRetries
    THEN /\ attempts' = attempts + 1
         /\ UNCHANGED <<provider, requests, scopes, calls, base, pages, cancelled, outcome, held>>
    ELSE End(Append(pages, BadPage(status)))

CallFails ==
    /\ Fetching /\ ~Exhausted /\ ~cancelled /\ faults > 0
    /\ NextAttempt("failed")
    /\ faults' = faults - 1

CallEmpty ==
    /\ Fetching /\ ~Exhausted /\ ~cancelled /\ EmptyRefused
    /\ {} \in Answers(Head(calls))
    /\ NextAttempt("invalid")
    /\ UNCHANGED faults

\* Fault: the halves share the midpoint.
HalvesSharingMidpoint(call) ==
    LET lower == Min(call.days)  upper == Max(call.days)
        midpoint == lower + ((upper - lower) \div 2)
    IN  <<[call EXCEPT !.days = lower .. midpoint], [call EXCEPT !.days = midpoint .. upper]>>
Halves(call) ==
    LET lower == Min(call.days)  upper == Max(call.days)
        midpoint == lower + ((upper - lower) \div 2)
    IN  <<[call EXCEPT !.days = lower .. midpoint], [call EXCEPT !.days = (midpoint + 1) .. upper]>>

Saturated(rows) == Cardinality(rows) >= RowLimit
\* A day by one call: a saturated response has no further page.
PlainPage(rows) ==
    LET ps == Append(pages, Page(rows)) IN
    End(IF Saturated(rows) THEN Append(ps, BadPage("invalid")) ELSE ps)

\* A range: complete, bisected, or at one day handed to offset pages.
RangePage(rows) ==
    LET ps == Append(pages, Page(rows))
        without == Append(pages, Dropped(Page(rows)))
        call == Head(calls)
        wide == Cardinality(call.days) > 1
        unsure == \/ rows = {} /\ options.bisectEmpty
                  \/ Saturated(rows)
    IN  \/ ~WithinBuffer(ps) /\ End(Bound(ps))
        \/ WithinBuffer(ps) /\ unsure /\ wide
           /\ Continue(without, Halves(call) \o Tail(calls), NotPaging)
        \/ WithinBuffer(ps) /\ Saturated(rows) /\ ~wide
           /\ Continue(without, calls, Len(without))
        \/ WithinBuffer(ps) /\ ~Saturated(rows) /\ ~(unsure /\ wide)
           /\ Continue(ps, Tail(calls), NotPaging)

\* The byte bound and the digests of an offset run are its own; a run that is complete
\* is then held against the cohort it asked for and the bound of the request.
OffsetPage(rows) ==
    LET run == SubSeq(pages, base + 1, Len(pages))
        mine == Append(run, Page(rows))
        ps == Append(pages, Page(rows))
        repeated == rows # {} /\ \E i \in DOMAIN run : run[i].rows = rows
        exhausted == Saturated(rows) /\ Len(mine) = MaxPages
        foreign == /\ options.kind = "scan" /\ ~Saturated(rows)
                   /\ \E i \in DOMAIN mine : \E r \in mine[i].rows : Asset(r) \notin Head(calls).assets
        more == options.kind = "scan" /\ Len(calls) > 1
    IN  \/ ~WithinBuffer(mine) /\ End(SubSeq(pages, 1, base) \o Bound(mine))
        \/ /\ WithinBuffer(mine)
           /\ repeated \/ exhausted \/ foreign
           /\ End(Append(ps, BadPage("invalid")))
        \/ /\ WithinBuffer(mine) /\ ~(repeated \/ exhausted \/ foreign)
           /\ \/ Saturated(rows) /\ Continue(ps, calls, base)
              \/ ~Saturated(rows) /\ ~WithinBuffer(ps) /\ End(Bound(ps))
              \/ /\ ~Saturated(rows) /\ WithinBuffer(ps)
                 /\ Continue(ps, Tail(calls), IF more THEN Len(ps) ELSE NotPaging)

Arrive(rows) ==
    IF base # NotPaging THEN OffsetPage(rows)
    ELSE IF options.kind = "range" THEN RangePage(rows) ELSE PlainPage(rows)

CallAnswered ==
    /\ Fetching /\ ~Exhausted /\ ~cancelled
    /\ \E rows \in Answers(Head(calls)) :
          (rows = {} => ~EmptyRefused) /\ Arrive(rows)
    /\ UNCHANGED faults

\* The provider serves the page before once more.
CallRepeated ==
    /\ Fetching /\ ~cancelled /\ faults > 0
    /\ base # NotPaging /\ Len(pages) > base
    /\ Arrive(Repeats(Head(calls)))
    /\ faults' = faults - 1

-----------------------------------------------------------------------------
(* The harvest of a request.                                               *)

Fetched == scopes # {} /\ calls = <<>>
Final == Bound(pages)
Oversized == \E i \in DOMAIN Final : Final[i].status = "oversized"

Settle(becomes) ==
    /\ outcome' = [d \in Days |-> IF d \in scopes THEN becomes[d] ELSE outcome[d]]
    /\ scopes' = {} /\ pages' = <<>>
    /\ UNCHANGED <<provider, calls, base, attempts, cancelled, faults>>

\* The claimed days of an oversized range are fetched again as two requests.
LowDays == {d \in scopes : Cardinality({e \in scopes : e <= d}) <= Cardinality(scopes) \div 2}
Splittable == Oversized /\ options.kind = "range" /\ Cardinality(scopes) > 1
SplitRange ==
    /\ Fetched /\ Splittable
    /\ requests' = <<LowDays, scopes \ LowDays>> \o requests
    /\ scopes' = {} /\ pages' = <<>>
    /\ UNCHANGED <<provider, calls, base, attempts, cancelled, faults, outcome, held>>

Refuse ==
    /\ Fetched /\ Failing(Final) /\ ~Splittable
    /\ Settle([d \in scopes |->
          IF \E i \in DOMAIN Final : Final[i].status \in {"invalid", "oversized"}
          THEN "invalid" ELSE "failed"])
    /\ UNCHANGED <<requests, held>>

\* concat_compatible_frames of the retained pages.
Copies(r) == Cardinality({i \in DOMAIN pages : pages[i].kept /\ r \in pages[i].rows})
\* Only a scan is cut down to the claimed days before it is validated.
Frame == {r \in Rows : Copies(r) > 0 /\ (options.kind = "scan" => Day(r) \in scopes)}
ValidResponse == \A r \in Frame : Day(r) \in scopes

RefuseDates ==
    /\ Fetched /\ ~Failing(Final) /\ ~ValidResponse
    /\ Settle([d \in scopes |-> "invalid"])
    /\ UNCHANGED <<requests, held>>

EmptyOutcome(d) == IF d \in options.required THEN "invalid" ELSE "empty"
Harvest ==
    /\ Fetched /\ ~Failing(Final) /\ ValidResponse
    /\ Settle([d \in scopes |-> IF \E r \in Frame : Day(r) = d THEN "buffered" ELSE EmptyOutcome(d)])
    /\ held' = [r \in Rows |-> held[r] + IF r \in Frame THEN Copies(r) ELSE 0]
    /\ UNCHANGED requests

-----------------------------------------------------------------------------
Cancel ==
    /\ ~cancelled /\ cancelled' = TRUE
    /\ scopes # {}
    /\ UNCHANGED <<provider, requests, scopes, calls, base, pages, attempts, faults, outcome, held>>

Init ==
    /\ options \in OptionSets
    /\ history \in SUBSET Rows
    /\ loose \in (IF options.kind = "scan" THEN BOOLEAN ELSE {FALSE})
    /\ \E claim \in Claims :
          /\ requests = IF options.kind = "daily"
                        THEN [i \in 1 .. Cardinality(claim) |->
                                  {d \in claim : Cardinality({e \in claim : e <= d}) = i}]
                        ELSE <<claim>>
          /\ outcome = [d \in Days |-> IF d \in claim THEN "running" ELSE "unclaimed"]
    /\ scopes = {} /\ calls = <<>> /\ pages = <<>>
    /\ base = NotPaging /\ attempts = 0
    /\ cancelled = FALSE /\ faults = MaxFaults
    /\ held = [r \in Rows |-> 0]

Work == \/ Begin \/ Exhaust
        \/ CallCancelled \/ CallFails \/ CallEmpty \/ CallAnswered \/ CallRepeated
        \/ SplitRange \/ Refuse \/ RefuseDates \/ Harvest
Next == Work \/ Cancel

Spec == Init /\ [][Next]_vars
\* A fetch worker runs its request to the end: retries and pages are counted.
FairSpec == Spec /\ WF_vars(Work)

-----------------------------------------------------------------------------
(* Properties.                                                             *)

\* A day is buffered only with all the rows the provider has for it, each once, and
\* recorded empty only if it has none and need not have any - through bisection, offset
\* pages, retries, repeated pages, splits and cancellation.
SettledAsProvided ==
    \A d \in Days :
        LET rows == {r \in history : Day(r) = d} IN
        /\ outcome[d] = "buffered" => rows # {} /\ \A r \in rows : held[r] = 1
        /\ outcome[d] # "buffered" => \A r \in Rows : Day(r) = d => held[r] = 0
        /\ outcome[d] = "empty" => rows = {} /\ d \notin options.required

\* Every claimed day gets its outcome, however the range is bisected and split.
EveryDaySettles == <>(\A d \in Days : outcome[d] # "running")
=============================================================================
