--------------------------- MODULE FetchScheduler ---------------------------
(***************************************************************************)
(* One phase of one dataset's update: a coordinator draws requests, claims *)
(* and submits them to a thread pool, harvests the responses and commits   *)
(* batches whose partition files are written by the same pool.  While it   *)
(* waits for partitions it goes on moving responses to a bounded queue and *)
(* submitting requests.  A native admission gate that prefers its writers  *)
(* (a mixed Item elsewhere in the process) may hold up the conversion of   *)
(* every response while the coordinator keeps its own shared permit.       *)
(*                                                                         *)
(* What becomes of a claim in the ledger is module UpdateLedger's matter:  *)
(* here a request that has its outcome is settled.                         *)
(***************************************************************************)
EXTENDS Integers, FiniteSetsExt, SequencesExt

CONSTANTS
    Requests,      \* physical requests, the halves of range requests included
    Tasks,         \* the requests of the phase, in order
    Halves,        \* the halves of a range request, or <<>>
    Taken,         \* requests whose scopes another run holds
    MaxInFlight,   \* options.max_in_flight
    Workers,       \* options.workers, the threads of the pool
    Budget,        \* half of max_buffer_bytes
    Sizes,         \* bytes a prepared response may have
    BatchSize,     \* options.batch_size
    Partitions,    \* partition files of one commit
    MaxMixed       \* bound: mixed Items that ask for the gate

ASSUME SchedulerAssumption ==
    /\ Tasks \in Seq(Requests) /\ Halves \in [Requests -> Seq(Requests)]
    /\ Taken \subseteq Requests
    /\ {MaxInFlight, Workers, Budget, BatchSize, Partitions} \subseteq Nat \ {0}
    /\ MaxMixed \in Nat

\* A physical request is a task of its own, with an index no other one has.
ASSUME RequestAssumption ==
    /\ IsFiniteSet(Requests) /\ 0 \notin Requests
    /\ IsInjective(Tasks)
    /\ \A r \in Requests : IsInjective(Halves[r]) /\ ToSet(Halves[r]) \cap ToSet(Tasks) = {}
    /\ \A q, r \in Requests : q # r => ToSet(Halves[q]) \cap ToSet(Halves[r]) = {}

Reservation == Max({1, Budget \div MaxInFlight})
ResponseCountLimit == 2 * MaxInFlight
Oversized == Budget + 1

\* Each fetch bounds its own response by buffer_limit // (2 * max_in_flight).
ASSUME SizeAssumption == Sizes \subseteq 1 .. Reservation

VARIABLES
    rest,        \* task_iter
    ready,       \* claimed and not submitted
    future,      \* futures: the stage of a submitted request, or "none"
    size,        \* bytes of a prepared response; Oversized: it failed, or exceeded its bound
    prefetched,  \* responses collected while a commit waits
    pending,     \* pending_results; its head is the one in hand
    buffered,    \* state.buffered
    settled,     \* requests with an outcome, split and skipped ones included
    queue,       \* the pool's queue: requests, and 0 for a partition to write
    writing,     \* partitions a thread is writing
    left,        \* partitions of the commit: not yet handed out, and handed out
    at,          \* where the coordinator is
    snapshot,    \* done, as the last wait saw it
    inline,      \* the commit prepares its partitions on the coordinator
    after,       \* where the coordinator goes on after its commit
    mixed,       \* a mixed Item at the gate: "away", "waiting" or "running"
    mixedLeft,   \* mixed Items still to come
    cancel,      \* the owner asked to cancel
    stop,        \* stop_submission
    starved,     \* a draw was claimed by others to the last request
    refused      \* MemoryError while prefetching

source == <<rest, ready>>
pool == <<queue, writing>>
results == <<prefetched, pending>>
commit == <<left, inline, after>>
gate == <<mixed, mixedLeft>>
ends == <<cancel, stop, starved, refused>>
vars == <<source, future, size, results, buffered, settled, pool, at, snapshot, commit, gate, ends>>

Bytes(S) == MapThenSumSet(LAMBDA r : IF size[r] = Oversized THEN 0 ELSE size[r], S)

Futures == {r \in Requests : future[r] # "none"}
Done == {r \in Requests : future[r] = "done"}
Running == {r \in Requests : future[r] \in {"network", "gate"}}

Init ==
    /\ rest = Tasks /\ ready = <<>>
    /\ future = [r \in Requests |-> "none"] /\ size = [r \in Requests |-> 0]
    /\ prefetched = <<>> /\ pending = <<>> /\ buffered = {} /\ settled = {}
    /\ queue = <<>> /\ writing = 0 /\ left = <<0, 0>>
    /\ at = "fill" /\ snapshot = {} /\ inline = FALSE /\ after = "loop"
    /\ mixed = "away" /\ mixedLeft = MaxMixed
    /\ cancel = FALSE /\ stop = FALSE /\ starved = FALSE /\ refused = FALSE

-----------------------------------------------------------------------------
(* Admission of requests.                                                  *)

\* Fault: the request about to be sent reserves nothing.
RoomForOthersOnly(capacity) ==
    /\ Cardinality(Futures) < capacity
    /\ Len(prefetched) < ResponseCountLimit
    /\ Bytes(ToSet(prefetched)) + Bytes(ToSet(pending))
         + Cardinality(Futures) * Reservation <= Budget

\* Prefetched and in-hand responses and the reservations of what is in flight.
Room(capacity) ==
    /\ Cardinality(Futures) < capacity
    /\ Len(prefetched) < ResponseCountLimit
    /\ Bytes(ToSet(prefetched)) + Bytes(ToSet(pending))
         + (Cardinality(Futures) + 1) * Reservation <= Budget

Drawn == SubSeq(rest, 1, Min({MaxInFlight - Cardinality(Futures), Len(rest)}))
Claimed == FoldLeft(LAMBDA s, r : IF r \in Taken THEN s ELSE Append(s, r), <<>>, Drawn)

\* The claims of a draw are taken in one transaction; another run's are skipped.
FillReady(claimed) ==
    /\ ready = <<>> /\ ~stop /\ ~cancel /\ Drawn # <<>>
    /\ claimed = Claimed
    /\ rest' = SubSeq(rest, Len(Drawn) + 1, Len(rest))
    /\ settled' = settled \cup (ToSet(Drawn) \cap Taken)

Send(r) ==
    /\ future' = [future EXCEPT ![r] = "queued"]
    /\ queue' = Append(queue, r)

Submit(capacity) ==
    /\ Room(capacity)
    /\ \/ /\ ready # <<>>
          /\ Send(Head(ready)) /\ ready' = Tail(ready)
          /\ UNCHANGED <<rest, settled>>
       \/ /\ FillReady(Claimed) /\ Claimed # <<>>
          /\ Send(Head(Claimed)) /\ ready' = Tail(Claimed)

\* A draw that others have claimed to the last request ends this round.
Starve(capacity) ==
    /\ Room(capacity) /\ FillReady(<<>>)
    /\ starved' = TRUE

\* fill_ready reads the caller's cancellation before it draws.
CannotSubmit(capacity) ==
    ~Room(capacity) \/ (ready = <<>> /\ (stop \/ cancel \/ rest = <<>>))

StopIfCancelled(capacity) ==
    stop' = (stop \/ (Room(capacity) /\ ready = <<>> /\ cancel))

FillSubmit ==
    /\ at = "fill" /\ ~stop /\ Submit(MaxInFlight)
    /\ UNCHANGED <<size, results, buffered, writing, at, snapshot, commit, gate, ends>>

FillStarve ==
    /\ at = "fill" /\ ~stop /\ Starve(MaxInFlight) /\ at' = "loop"
    /\ UNCHANGED <<ready, future, size, results, buffered, pool, snapshot, commit, gate,
                   cancel, stop, refused>>

FillDone ==
    /\ at = "fill" /\ (stop \/ CannotSubmit(MaxInFlight))
    /\ StopIfCancelled(MaxInFlight) /\ at' = "loop"
    /\ UNCHANGED <<source, future, size, results, buffered, settled, pool, snapshot, commit,
                   gate, cancel, starved, refused>>

-----------------------------------------------------------------------------
(* The coordinator's loop.                                                 *)

\* Fault: partitions always go to the pool.
AlwaysPool == FALSE

\* Queued fetches count; without a guaranteed slot the coordinator writes itself.
NoGuaranteedSlot == Cardinality(Futures \ Done) >= Workers

StartCommit(next) ==
    /\ at' = "gate" /\ after' = next
    /\ inline' = (next # "end" /\ NoGuaranteedSlot)
    /\ UNCHANGED left

\* Fault: responses a commit has prefetched are not waited for.
IdleIgnoringPrefetched == Futures = {}

NothingInFlight ==
    Futures = {} /\ prefetched = <<>>

\* Wait for a first response; the interval may have run out for a buffer.
Loop ==
    /\ at = "loop" /\ ~NothingInFlight
    /\ Futures = {} \/ prefetched # <<>> \/ Done # {} \/ buffered # {}
    /\ stop' = (stop \/ cancel)
    /\ snapshot' = Done
    /\ \/ at' = "collect" /\ UNCHANGED commit
       \/ buffered # {} /\ StartCommit("collect")
    /\ UNCHANGED <<source, future, size, results, buffered, settled, pool, gate,
                   cancel, starved, refused>>

\* Fault: the earlier wait result is trusted.
ConsumableAsSeen == snapshot

\* done.intersection(futures): a commit may have consumed some of them.
Consumable == snapshot \cap Futures

Collect ==
    /\ at = "collect"
    /\ \E s \in SetToSeqs(Consumable) : pending' = prefetched \o s
    /\ prefetched' = <<>>
    /\ future' = [r \in Requests |-> IF r \in Consumable THEN "none" ELSE future[r]]
    /\ snapshot' = {} /\ at' = IF pending' = <<>> THEN "loop" ELSE "harvest"
    /\ UNCHANGED <<source, size, buffered, settled, pool, commit, gate, ends>>

InHand == Head(pending)
Overflows == Bytes(buffered \cup {InHand}) > Budget

Splits(r) == size[r] = Oversized /\ Halves[r] # <<>>

\* The claimed halves of an oversized range go back to the front of the line.
SplitRange ==
    /\ at = "harvest" /\ pending # <<>> /\ Splits(InHand)
    /\ ready' = Halves[InHand] \o ready
    /\ settled' = settled \cup {InHand}
    /\ pending' = Tail(pending)
    /\ UNCHANGED <<rest, future, size, prefetched, buffered, pool, at, snapshot, commit, gate, ends>>

HasFrame(r) == size[r] # Oversized

\* What does not fit behind the buffer has the buffer committed first.
MakeRoom ==
    /\ at = "harvest" /\ pending # <<>> /\ ~Splits(InHand) /\ Overflows
    /\ StartCommit("harvest")
    /\ UNCHANGED <<source, future, size, results, buffered, settled, pool, snapshot, gate, ends>>

Full(S) == Cardinality(S) >= BatchSize \/ Bytes(S) >= Budget

Harvest ==
    /\ at = "harvest" /\ pending # <<>> /\ ~Splits(InHand) /\ ~Overflows
    /\ IF HasFrame(InHand)
         THEN buffered' = buffered \cup {InHand} /\ UNCHANGED settled
         ELSE settled' = settled \cup {InHand} /\ UNCHANGED buffered
    /\ pending' = Tail(pending)
    /\ IF Full(buffered') THEN StartCommit("harvest") ELSE UNCHANGED <<at, commit>>
    /\ UNCHANGED <<source, future, size, prefetched, pool, snapshot, gate, ends>>

HarvestDone ==
    /\ at = "harvest" /\ pending = <<>> /\ at' = "fill"
    /\ UNCHANGED <<source, future, size, results, buffered, settled, pool, snapshot, commit,
                   gate, ends>>

\* What is buffered then is committed.
LoopDone ==
    /\ at = "loop" /\ NothingInFlight
    /\ StartCommit("end")
    /\ UNCHANGED <<source, future, size, results, buffered, settled, pool, snapshot, gate, ends>>

-----------------------------------------------------------------------------
(* A commit holds a shared permit of the gate from EnterGate on.           *)

\* At most `workers` partitions are handed out, to the pool or to itself.
Chunk(n) == IF inline THEN Min({1, n}) ELSE Min({Workers, n})
HandOut(n) ==
    /\ left' = <<n - Chunk(n), Chunk(n)>>
    /\ queue' = IF inline THEN queue ELSE queue \o [i \in 1 .. Chunk(n) |-> 0]

EnterGate ==
    /\ at = "gate" /\ mixed = "away"
    /\ IF buffered = {} THEN at' = after /\ UNCHANGED <<left, queue>>
                        ELSE at' = "write" /\ HandOut(Partitions)
    /\ UNCHANGED <<source, future, size, results, buffered, settled, writing, snapshot, inline,
                   after, gate, ends>>

WriteInline ==
    /\ at = "write" /\ inline /\ left[2] > 0
    /\ left' = <<left[1], 0>>
    /\ UNCHANGED <<source, future, size, results, buffered, settled, pool, at, snapshot, inline,
                   after, gate, ends>>

NextChunk ==
    /\ at = "write" /\ left[2] = 0 /\ left[1] > 0 /\ ~refused
    /\ HandOut(left[1])
    /\ UNCHANGED <<source, future, size, results, buffered, settled, writing, at, snapshot,
                   inline, after, gate, ends>>

\* The buffer is cleared however its commit ends.
ClearBuffer ==
    /\ settled' = settled \cup buffered /\ buffered' = {}
    /\ size' = [r \in Requests |-> IF r \in buffered THEN 0 ELSE size[r]]
    /\ UNCHANGED <<source, future, results, pool, snapshot, commit, gate, ends>>

Publish ==
    /\ at = "write" /\ left = <<0, 0>> /\ ~refused
    /\ ClearBuffer /\ at' = after

\* Every partition handed out is settled before the failure is raised.
CommitFails ==
    /\ at = "write" /\ left[2] = 0
    /\ ClearBuffer /\ at' = "raised"

-----------------------------------------------------------------------------
(* While a partition of the pool is unfinished, the coordinator pumps.     *)

Pumping == at = "write" /\ ~inline /\ after # "end" /\ left[2] > 0 /\ ~refused

CommittingCapacity == Min({MaxInFlight, Max({0, Workers - 1})})

Prefetch(r) ==
    /\ Pumping /\ r \in Done /\ Len(prefetched) < ResponseCountLimit
    /\ future' = [future EXCEPT ![r] = "none"]
    /\ IF Bytes(ToSet(prefetched) \cup ToSet(pending) \cup {r}) > Budget
         THEN refused' = TRUE /\ settled' = settled \cup {r} /\ UNCHANGED prefetched
         ELSE prefetched' = Append(prefetched, r) /\ UNCHANGED <<refused, settled>>
    /\ UNCHANGED <<source, size, pending, buffered, pool, at, snapshot, commit, gate,
                   cancel, stop, starved>>

RefillSubmit ==
    /\ Pumping /\ ~stop /\ Submit(CommittingCapacity)
    /\ UNCHANGED <<size, results, buffered, writing, at, snapshot, commit, gate, ends>>

RefillStarve ==
    /\ Pumping /\ ~stop /\ Starve(CommittingCapacity)
    /\ UNCHANGED <<ready, future, size, results, buffered, pool, at, snapshot, commit, gate,
                   cancel, stop, refused>>

RefillStop ==
    /\ Pumping /\ cancel /\ ~stop /\ stop' = TRUE
    /\ UNCHANGED <<source, future, size, results, buffered, settled, pool, at, snapshot, commit,
                   gate, cancel, starved, refused>>

-----------------------------------------------------------------------------
(* The threads of the pool.                                                *)

TakeJob ==
    /\ queue # <<>> /\ Cardinality(Running) + writing < Workers
    /\ queue' = Tail(queue)
    /\ IF Head(queue) = 0
         THEN writing' = writing + 1 /\ UNCHANGED future
         ELSE future' = [future EXCEPT ![Head(queue)] = "network"] /\ UNCHANGED writing
    /\ UNCHANGED <<source, size, results, buffered, settled, at, snapshot, commit, gate, ends>>

\* A network or limiter wait holds no permit.
Receive(r) ==
    /\ future[r] = "network" /\ future' = [future EXCEPT ![r] = "gate"]
    /\ UNCHANGED <<source, size, results, buffered, settled, pool, at, snapshot, commit, gate, ends>>

\* A conversion needs a shared permit.
Convert(r) ==
    /\ future[r] = "gate" /\ mixed = "away"
    /\ future' = [future EXCEPT ![r] = "done"]
    /\ \E n \in Sizes \cup {Oversized} : size' = [size EXCEPT ![r] = n]
    /\ UNCHANGED <<source, results, buffered, settled, pool, at, snapshot, commit, gate, ends>>

WritePartition ==
    /\ writing > 0 /\ writing' = writing - 1
    /\ left' = <<left[1], left[2] - 1>>
    /\ UNCHANGED <<source, future, size, results, buffered, settled, queue, at, snapshot, inline,
                   after, gate, ends>>

-----------------------------------------------------------------------------
(* The gate's other users, and the owner of the update.                    *)

MixedAsks ==
    /\ mixed = "away" /\ mixedLeft > 0
    /\ mixed' = "waiting" /\ mixedLeft' = mixedLeft - 1
    /\ UNCHANGED <<source, future, size, results, buffered, settled, pool, at, snapshot, commit, ends>>

MixedRuns ==
    /\ mixed = "waiting" /\ at # "write" /\ mixed' = "running"
    /\ UNCHANGED <<source, future, size, results, buffered, settled, pool, at, snapshot, commit,
                   mixedLeft, ends>>

MixedLeaves ==
    /\ mixed = "running" /\ mixed' = "away"
    /\ UNCHANGED <<source, future, size, results, buffered, settled, pool, at, snapshot, commit,
                   mixedLeft, ends>>

Cancel ==
    /\ ~cancel /\ cancel' = TRUE
    /\ UNCHANGED <<source, future, size, results, buffered, settled, pool, at, snapshot, commit,
                   gate, stop, starved, refused>>

Coordinate ==
    \/ FillSubmit \/ FillStarve \/ FillDone
    \/ Loop \/ Collect \/ SplitRange \/ MakeRoom \/ Harvest \/ HarvestDone \/ LoopDone
    \/ EnterGate \/ WriteInline \/ NextChunk \/ Publish

Pump ==
    \/ \E r \in Requests : Prefetch(r)
    \/ RefillSubmit \/ RefillStarve \/ RefillStop

Work(r) == Receive(r) \/ Convert(r)

Next ==
    \/ Coordinate \/ CommitFails \/ Pump
    \/ TakeJob \/ WritePartition \/ \E r \in Requests : Work(r)
    \/ MixedAsks \/ MixedRuns \/ MixedLeaves \/ Cancel

Spec == Init /\ [][Next]_vars

\* Threads run, the provider answers or gives up, a mixed Item comes to its end.
Fairness ==
    /\ WF_vars(Coordinate) /\ WF_vars(TakeJob) /\ WF_vars(WritePartition)
    /\ \A r \in Requests : WF_vars(Work(r))
    /\ WF_vars(MixedRuns) /\ WF_vars(MixedLeaves)

FairSpec == Spec /\ Fairness

-----------------------------------------------------------------------------
(* What must hold.                                                         *)

TypeOK ==
    /\ rest \in Seq(Requests) /\ ready \in Seq(Requests)
    /\ future \in [Requests -> {"none", "queued", "network", "gate", "done"}]
    /\ size \in [Requests -> Sizes \cup {0, Oversized}]
    /\ prefetched \in Seq(Requests) /\ pending \in Seq(Requests)
    /\ buffered \subseteq Requests /\ settled \subseteq Requests
    /\ queue \in Seq(Requests \cup {0})
    /\ writing \in 0 .. Workers /\ left \in (0 .. Partitions) \X (0 .. Workers)
    /\ at \in {"fill", "loop", "collect", "harvest", "gate", "write", "end", "raised"}
    /\ after \in {"loop", "collect", "harvest", "end"} /\ inline \in BOOLEAN
    /\ snapshot \subseteq Requests
    /\ mixed \in {"away", "waiting", "running"} /\ mixedLeft \in 0 .. MaxMixed
    /\ {cancel, stop, starved, refused} \subseteq BOOLEAN

(* A response is consumed once and a request is fetched once, whoever moves  *)
(* it: the loop's wait result, the pump of a commit or the split of a range. *)
Occurrences(r) ==
    Cardinality({k \in DOMAIN prefetched : prefetched[k] = r})
      + Cardinality({k \in DOMAIN pending : pending[k] = r})
      + Cardinality({k \in DOMAIN ready : ready[k] = r})
      + Cardinality({k \in DOMAIN rest : rest[k] = r})
      + Cardinality({S \in {Futures, buffered, settled} : r \in S})

ConsumedOnce ==
    \A r \in Requests :
        Occurrences(r) = IF r \in ToSet(Tasks) \/ \E q \in settled : r \in ToSet(Halves[q]) /\ Splits(q)
                           THEN 1 ELSE 0

(* Responses that wait, are in hand or may still arrive never exceed their  *)
(* half of the buffer, nor a batch the other half: nothing admitted is ever *)
(* refused for memory.                                                     *)
BudgetHolds ==
    /\ Bytes(ToSet(prefetched) \cup ToSet(pending)) + Cardinality(Futures) * Reservation <= Budget
    /\ Bytes(buffered) <= Budget
    /\ ~refused

(* A phase that ends has an outcome for all it admitted, and leaves requests *)
(* undrawn or unsubmitted only after a cancellation or a draw that other     *)
(* runs had claimed to the last request.                                    *)
EndsComplete ==
    at = "end" =>
        /\ Futures = {} /\ prefetched = <<>> /\ pending = <<>> /\ buffered = {}
        /\ rest = <<>> \/ stop \/ starved
        /\ ready = <<>> \/ stop

(* Every phase ends: a commit never waits for a thread that waits for the    *)
(* permit it holds.                                                        *)
PhaseEnds == <>(at \in {"end", "raised"})
=============================================================================
