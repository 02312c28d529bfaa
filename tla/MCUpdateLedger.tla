--------------------------- MODULE MCUpdateLedger ---------------------------
(* Small instances of the update ledger for TLC.  Without an enclosing        *)
(* update_owner context a run is its own owner, as in acquire_update_leases. *)
EXTENDS UpdateLedger, TLC

CONSTANTS r1, r2, r3, v1, v2   \* model values

MCOwnerIsRun  == [r \in Runs |-> r]
MCIncremental == [r \in Runs |-> "incremental"]
\* A baseline, its resumption or reopening, and a later refresh.
MCLifecycle   == [r \in Runs |-> IF r = r3 THEN "refresh" ELSE "initialize"]
\* The two baselines of MCLifecycle are interchangeable.
MCBaselines   == Permutations({r1, r2})
MCFirst       == [r \in Runs |-> 1]
MCLast        == [r \in Runs |-> NumDays]
\* r3 (or r2) asks for the last day only.
MCLateFirst   == [r \in Runs |-> IF r = r3 THEN NumDays ELSE 1]
MCTailFirst   == [r \in Runs |-> IF r = r2 THEN NumDays ELSE 1]
=============================================================================
