-------------------------- MODULE MCFetchScheduler --------------------------
(* A small phase for TLC: a range of two days, a single request and another run's.         *)
EXTENDS FetchScheduler, TLC

CONSTANTS range, h1, h2, r1, r2, f1, f2   \* model values

MCTasks == <<range, r1, f1, f2, r2>>
MCHalves == [r \in Requests |-> IF r = range THEN <<h1, h2>> ELSE <<>>]
=============================================================================
