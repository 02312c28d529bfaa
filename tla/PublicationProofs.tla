------------------------- MODULE PublicationProofs ---------------------------
(***************************************************************************)
(* The shape of the state of version publication, that a visible version   *)
(* is whole and carries its own definition, that a call that is over       *)
(* leaves no file behind, and that Publication keeps the promise of        *)
(* AtomicPublication, for every number of writers, partitions, responses,  *)
(* definitions, deaths and abandoned owners.                               *)
(*                                                                         *)
(* The invariant follows every file of a call from the thread that writes  *)
(* it to the manifest, the removal or the list of strays.  No two calls    *)
(* share a number, so that no call's step touches another's files.         *)
(*                                                                         *)
(* A response is compared outside the publishing transaction.  For the     *)
(* refinement the proof shows that the lease keeps what was compared:      *)
(* while a writer holds it, nobody else publishes, and its number is above *)
(* every visible one.                                                      *)
(***************************************************************************)
EXTENDS Publication, Integers, FiniteSets, FiniteSetTheorems, WellFoundedInduction, SequenceTheorems, TLAPS

-----------------------------------------------------------------------------
(* Least and greatest numbers, and ranks.                                  *)

\* A nonempty set of natural numbers has a least element.
LEMMA NatLeast ==
    ASSUME NEW T \in SUBSET Nat, T # {}
    PROVE  \E x \in T : \A y \in T : x <= y
<1>1. PICK x \in T : \A y \in T : ~(<<y, x>> \in OpToRel(<, Nat))
    BY NatLessThanWellFounded, WFMin
<1>2. \A y \in T : ~(y < x)
    BY <1>1 DEF OpToRel
<1> QED  BY <1>2

\* A nonempty bounded one has a greatest element.
LEMMA NatGreatest ==
    ASSUME NEW n \in Nat, NEW T \in SUBSET (0 .. n), T # {}
    PROVE  \E x \in T : \A y \in T : y <= x
<1> DEFINE Bounds == {b \in Nat : \A y \in T : y <= b}
<1>1. n \in Bounds
    OBVIOUS
<1>2. PICK b \in Bounds : \A c \in Bounds : b <= c
    BY <1>1, NatLeast
<1>3. CASE b \in T
    BY <1>3
<1>4. CASE b \notin T
  <2>1. \A y \in T : y <= b - 1
      BY <1>4
  <2>2. b - 1 \in Nat
    <3>1. PICK y \in T : TRUE
        OBVIOUS
    <3>2. y \in Nat /\ y <= b - 1
        BY <2>1
    <3> QED  BY <3>2
  <2> QED  BY <1>2, <2>1, <2>2
<1> QED  BY <1>3, <1>4

\* A set of numbers up to n is finite.
LEMMA FinitePart ==
    ASSUME NEW n \in Nat, NEW S \in SUBSET (1 .. n)
    PROVE  IsFiniteSet(S) /\ Cardinality(S) \in Nat
<1>1. IsFiniteSet(1 .. n)
    BY FS_Interval
<1>2. IsFiniteSet(S)
    BY <1>1, FS_Subset
<1> QED  BY <1>2, FS_CardinalityType

\* The elements of a finite set of numbers can be counted off in order.
LEMMA RankExists ==
    ASSUME NEW n \in Nat, NEW S \in SUBSET (1 .. n), NEW i \in 1 .. Cardinality(S)
    PROVE  \E s \in S : Cardinality({t \in S : t <= s}) = i
<1> DEFINE Below(s) == {t \in S : t <= s}
           T == {s \in S : i <= Cardinality(Below(s))}
<1>0. /\ S \in SUBSET (0 .. n) /\ T \in SUBSET Nat
      /\ \A s : Below(s) \in SUBSET S
  <2>1. \A s \in S : s \in 1 .. n
      OBVIOUS
  <2>2. \A s \in S : s \in 0 .. n /\ s \in Nat
      BY <2>1
  <2> QED  BY <2>2
<1>1. IsFiniteSet(S) /\ Cardinality(S) \in Nat
    BY FinitePart
<1>2. \A s : IsFiniteSet(Below(s)) /\ Cardinality(Below(s)) \in Nat
    BY <1>0, <1>1, FS_Subset, FS_CardinalityType
<1>3. T # {}
  <2>1. S # {}
      BY <1>1, FS_EmptySet
  <2>2. PICK m \in S : \A t \in S : t <= m
      BY <1>0, <2>1, NatGreatest
  <2>3. Below(m) = S
      BY <2>2
  <2> QED  BY <1>1, <2>3
<1>4. PICK s \in T : \A t \in T : s <= t
  <2> HIDE DEF T
  <2> QED  BY <1>0, <1>3, NatLeast
<1>5. ASSUME Cardinality(Below(s)) # i PROVE FALSE
  <2> DEFINE R == Below(s) \ {s}
  <2>1. Cardinality(Below(s)) > i
      BY <1>2, <1>4, <1>5
  <2>2. Cardinality(R) = Cardinality(Below(s)) - 1
      BY <1>2, <1>4, FS_RemoveElement
  <2>3. R # {} /\ i <= Cardinality(R)
      BY <1>2, <2>1, <2>2, FS_EmptySet
  <2>4. PICK g \in R : \A t \in R : t <= g
    <3>1. R \in SUBSET (0 .. n)
        BY <1>0
    <3> HIDE DEF R
    <3> QED  BY <2>3, <3>1, NatGreatest
  <2>5. Below(g) = R
    <3>1. s \in Nat /\ g \in S /\ g <= s /\ g # s /\ \A t \in S : t \in Nat
        BY <1>0, <1>4, <2>4
    <3>2. ASSUME NEW t \in S PROVE t \in Below(g) <=> t \in R
        BY <2>4, <3>1
    <3>3. Below(g) \subseteq S /\ R \subseteq S
        BY <1>0
    <3> HIDE DEF Below, R
    <3> QED  BY <3>2, <3>3
  <2>6. g \in T /\ g < s
      BY <1>4, <2>3, <2>4, <2>5
  <2> QED  BY <1>4, <2>6
<1> QED  BY <1>4, <1>5

-----------------------------------------------------------------------------
\* The shape of version_commits rows.
Commits == [status : {"prepared", "committed"}, spec : Definitions, delta : Contents]

-----------------------------------------------------------------------------
(* Contents and files *)

\* A response, and what a version keeps of it, is a set of rows.
LEMMA ContentsTyped ==
    /\ EmptyRows \in Contents
    /\ \A f \in Contents : f \in [DOMAIN f -> Values] /\ DOMAIN f \in SUBSET Keys
    /\ \A K \in SUBSET Keys : \A f \in [K -> Values] : f \in Contents
BY DEF EmptyRows, Contents

\* The difference to a content has the changed keys of the response.
LEMMA ChangesTyped ==
    ASSUME NEW old, NEW frame \in Contents
    PROVE  /\ Changes(old, frame) \in Contents
           /\ DOMAIN Changes(old, frame) = Changed(old, frame)
<1> DEFINE D == Changed(old, frame)
<1>1. D \in SUBSET Keys /\ \A k \in D : frame[k] \in Values
    BY ContentsTyped DEF Changed
<1>2. [k \in D |-> frame[k]] \in [D -> Values]
    BY <1>1
<1>3. Changes(old, frame) = [k \in D |-> frame[k]]
    BY DEF Changes
<1>4. D = Changed(old, frame)
    OBVIOUS
<1> HIDE DEF D
<1> QED  BY <1>1, <1>2, <1>3, <1>4, ContentsTyped

\* A file names its version and its partition.
LEMMA FileNames ==
    /\ \A s, t, p, q : File(s, p) = File(t, q) <=> s = t /\ p = q
    /\ \A s \in Seqs, p \in Partitions : File(s, p) \in AllFiles
    /\ \A f \in AllFiles : \E s \in Seqs, p \in Partitions : f = File(s, p)
BY DEF File, AllFiles

\* Only a version and a partition name a file.
LEMMA FilesOfSeq ==
    ASSUME NEW s, NEW p, File(s, p) \in AllFiles PROVE s \in Seqs /\ p \in Partitions
BY FileNames DEF AllFiles

\* The rows of version_commits are numbered from one.
LEMMA CommitsTyped ==
    ASSUME commits \in Seq(Commits)
    PROVE  /\ Seqs = 1 .. Len(commits) /\ Len(commits) \in Nat
           /\ \A s \in Seqs : commits[s] \in Commits
BY DEF Seqs

-----------------------------------------------------------------------------
(* Type correctness *)

\* The tables only grow: a call keeps its shape when they do.
LEMMA CallsGrow ==
    ASSUME TypeOK, manifest \subseteq manifest', commits' \in Seq(Commits),
           Len(commits) <= Len(commits')
    PROVE  /\ Calls \subseteq Calls' /\ call \in [Writers -> Calls']
           /\ AllFiles \subseteq AllFiles' /\ Seqs \subseteq Seqs'
<1>1. Seqs \subseteq Seqs'
    BY CommitsTyped DEF TypeOK, Seqs, Commits
<1>2. AllFiles \subseteq AllFiles'
    BY <1>1 DEF AllFiles, File
<1>3. Calls \subseteq Calls'
    BY <1>1, <1>2 DEF Calls
<1> QED  BY <1>1, <1>2, <1>3 DEF TypeOK

\* The empty store has its shape.
LEMMA InitTyped == ASSUME PublicationAssumption PROVE Init => TypeOK
<1> SUFFICES ASSUME Init PROVE TypeOK  OBVIOUS
<1>1. PICK frame \in Earlier : FirstVersion(frame)
    BY DEF Init
<1>2. frame \in Contents
    BY ContentsTyped DEF PublicationAssumption, EmptyRows
<1>3. commits \in Seq(Commits)
  <2>1. [status |-> "committed", spec |-> FirstDefinition, delta |-> frame] \in Commits
      BY <1>2 DEF Commits, PublicationAssumption
  <2> QED  BY <1>1, <2>1 DEF FirstVersion
<1>4. manifest \subseteq AllFiles
  <2>1. CASE frame = EmptyRows
      BY <1>1, <2>1 DEF FirstVersion, EmptyRows
  <2>2. CASE frame # EmptyRows
    <3>1. 1 \in Seqs
        BY <1>1, <2>2 DEF FirstVersion, Seqs
    <3>2. \A k \in DOMAIN frame : Month[k] \in Partitions
        BY <1>2, ContentsTyped DEF PublicationAssumption
    <3> QED  BY <1>1, <3>1, <3>2, FileNames DEF FirstVersion
  <2> QED  BY <2>1, <2>2
<1>5. NewCall \in Calls
    BY ContentsTyped DEF NewCall, Calls, Points, Outcomes, Phases, NoFlight,
       PublicationAssumption
<1> QED
    BY <1>3, <1>4, <1>5 DEF Init, TypeOK, Commits, PublicationAssumption

\* What a step may assign to the fields of a call.
LEMMA CallFields ==
    ASSUME NEW c \in Calls, NEW pc \in Points, NEW outcome \in Outcomes
    PROVE  /\ [c EXCEPT !.pc = pc] \in Calls
           /\ [c EXCEPT !.pc = pc, !.outcome = outcome] \in Calls
           /\ \A d \in Definitions, f \in Contents :
                [c EXCEPT !.pc = pc, !.spec = d, !.frame = f] \in Calls
           /\ \A b \in BOOLEAN : [c EXCEPT !.pc = pc, !.owns = b] \in Calls
           /\ [c EXCEPT !.pc = pc, !.failed = TRUE] \in Calls
           /\ [c EXCEPT !.pc = pc, !.parent = manifest] \in Calls
           /\ \A d \in Definitions : [c EXCEPT !.pc = pc, !.hash = d] \in Calls
           /\ \A f \in Contents : [c EXCEPT !.delta = f, !.pc = pc] \in Calls
           /\ \A p \in Partitions, ph \in Phases : [c EXCEPT !.flight[p] = ph] \in Calls
           /\ \A f : [c EXCEPT !.writes = @ \ {f}] \in Calls
BY DEF Calls

\* Submitting and settling a batch keep the shape of a call.
LEMMA BatchFields ==
    ASSUME NEW c \in Calls, NEW pc \in Points, NEW b \in BOOLEAN,
           NEW flight \in [Partitions -> Phases]
    PROVE  /\ \A S : [c EXCEPT !.todo = @ \ S, !.failed = b, !.pc = pc,
                             !.flight = flight] \in Calls
           /\ \A S \in SUBSET AllFiles :
                [c EXCEPT !.failed = b, !.flight = flight, !.writes = @ \cup S,
                          !.pc = pc] \in Calls
BY DEF Calls

\* So does starting anew with a definition, a number and an outcome.
LEMMA NewCallFields ==
    ASSUME PublicationAssumption, NEW c \in Calls, NEW pc \in Points
    PROVE  [NewCall EXCEPT !.pc = pc, !.spec = c.spec, !.seq = c.seq,
                           !.outcome = c.outcome] \in Calls
<1>1. EmptyRows \in Contents /\ NoFlight \in [Partitions -> Phases]
    BY ContentsTyped DEF NoFlight, Phases
<1> QED
    BY <1>1 DEF Calls, NewCall, Points, Outcomes, PublicationAssumption

\* A call that has prepared its commit knows its number.
Numbered == \A w \in Writers : call[w].pc \in {"write", "publish", "rollback"} =>
                                   call[w].seq \in Seqs

\* A step of the caller or of its threads that leaves the tables alone.
Inside(w) ==
    \/ \E frame \in Frames : Declare(w, frame)
    \/ EnterUpdate(w) \/ DatasetWriter(w) \/ Refused(w)
    \/ AssertDefinition(w) \/ ReadParent(w) \/ ReadHash(w) \/ Compare(w)
    \/ CheckFails(w) \/ SubmitBatch(w) \/ SettleBatch(w)
    \/ PublishFails(w) \/ RolledBack(w) \/ LeaveWriter(w) \/ CloseUpdate(w)

\* A step of a call keeps the shape of calls.
LEMMA InsideTyped ==
    ASSUME TypeOK, Numbered, PublicationAssumption, NEW w \in Writers, Inside(w)
    PROVE  call' \in [Writers -> Calls]
<1> DEFINE c == call[w]
           New(x) == call' = [call EXCEPT ![w] = x]
<1> USE DEF At, Goto, Raise
<1>0. /\ c \in Calls /\ call \in [Writers -> Calls]
      /\ definition \in Definitions /\ (lease = NoWriter) \in BOOLEAN
    BY DEF TypeOK
<1>a. Points = {"idle", "declared", "entered", "assert", "parent", "hash", "compare",
                "check", "prepare", "write", "publish", "rollback", "leave",
                "close", "ended", "dead"}
    BY DEF Points
<1>b. Outcomes = {"none", "committed", "checked", "raised"}
    BY DEF Outcomes
<1>c. SUFFICES \E x \in Calls : New(x)
    BY <1>0
<1>1. ASSUME NEW frame \in Frames, Declare(w, frame) PROVE \E x \in Calls : New(x)
  <2>1. New([c EXCEPT !.pc = "declared", !.spec = definition, !.frame = frame])
      BY <1>1 DEF Declare
  <2>2. frame \in Contents
      BY DEF PublicationAssumption
  <2> QED  BY <1>0, <1>a, <1>b, <2>1, <2>2, CallFields
<1>2. CASE EnterUpdate(w)
  <2>1. New([c EXCEPT !.pc = "entered"])  BY <1>2 DEF EnterUpdate
  <2> QED  BY <1>0, <1>a, <1>b, <2>1, CallFields
<1>3. CASE DatasetWriter(w)
  <2>1. New([c EXCEPT !.pc = "assert", !.owns = (lease = NoWriter)])
      BY <1>3 DEF DatasetWriter
  <2> QED  BY <1>0, <1>a, <1>b, <2>1, CallFields
<1>4. CASE Refused(w)
  <2>1. \/ New([c EXCEPT !.pc = "ended", !.outcome = "raised"])
        \/ New([c EXCEPT !.pc = "close", !.outcome = "raised"])
      BY <1>4 DEF Refused
  <2> QED  BY <1>0, <1>a, <1>b, <2>1, CallFields
<1>5. CASE AssertDefinition(w) \/ CheckFails(w) \/ RolledBack(w)
  <2>1. \/ New([c EXCEPT !.pc = "parent"])
        \/ New([c EXCEPT !.pc = "leave", !.outcome = "raised"])
      BY <1>5 DEF AssertDefinition, CheckFails, RolledBack
  <2> QED  BY <1>0, <1>a, <1>b, <2>1, CallFields
<1>6. CASE ReadParent(w)
  <2>1. New([c EXCEPT !.pc = "hash", !.parent = manifest])  BY <1>6 DEF ReadParent
  <2> QED  BY <1>0, <1>a, <1>b, <2>1, CallFields
<1>7. CASE ReadHash(w)
  <2>1. New([c EXCEPT !.pc = "compare", !.hash = definition])  BY <1>7 DEF ReadHash
  <2> QED  BY <1>0, <1>a, <1>b, <2>1, CallFields
<1>8. CASE Compare(w)
  <2> DEFINE old == IF c.parent = {} THEN EmptyRows ELSE Latest(VisibleHistory)
             delta == Changes(old, c.frame)
  <2>1. New([c EXCEPT !.delta = delta,
                      !.pc = IF DOMAIN delta = {} THEN "check" ELSE "prepare"])
      BY <1>8 DEF Compare
  <2>2. c.frame \in Contents
      BY <1>0 DEF Calls
  <2>3. delta \in Contents
      BY <2>2, ChangesTyped
  <2> HIDE DEF delta
  <2> QED  BY <1>0, <1>a, <1>b, <2>1, <2>3, CallFields
<1>9. CASE PublishFails(w)
  <2>1. New([c EXCEPT !.pc = "rollback", !.failed = TRUE])  BY <1>9 DEF PublishFails
  <2> QED  BY <1>0, <1>a, <1>b, <2>1, CallFields
<1>10. CASE LeaveWriter(w)
  <2>1. \E pc \in Points : Forget(w, pc)
      BY <1>10, <1>a DEF LeaveWriter
  <2> QED  BY <1>0, <2>1, NewCallFields DEF Forget
<1>11. CASE CloseUpdate(w)
  <2>1. New([c EXCEPT !.pc = "ended"])  BY <1>11 DEF CloseUpdate
  <2> QED  BY <1>0, <1>a, <1>b, <2>1, CallFields
<1>12. CASE SubmitBatch(w)
  <2>1. PICK batch \in SUBSET c.todo :
            LET full == batch = c.todo \/ Cardinality(batch) = PartitionWorkers
            IN  call' = [call EXCEPT ![w].todo = @ \ batch,
                   ![w].failed = ~full,
                   ![w].pc = IF batch = {} THEN "rollback" ELSE @,
                   ![w].flight = [p \in Partitions |->
                                    IF p \in batch THEN "submitted" ELSE "none"]]
      BY <1>12 DEF SubmitBatch
  <2> DEFINE failed == ~(batch = c.todo \/ Cardinality(batch) = PartitionWorkers)
             pc == IF batch = {} THEN "rollback" ELSE c.pc
             flight == [p \in Partitions |-> IF p \in batch THEN "submitted" ELSE "none"]
             x == [c EXCEPT !.todo = @ \ batch, !.failed = failed, !.pc = pc,
                            !.flight = flight]
  <2>2. flight \in [Partitions -> Phases]
      BY DEF Phases
  <2>3. failed \in BOOLEAN /\ pc \in Points
      BY <1>0, <1>a DEF Calls
  <2>4. New(x)
      BY <2>1
  <2>5. x \in Calls
    <3> HIDE DEF failed, pc, flight, c
    <3> QED  BY <1>0, <2>2, <2>3, BatchFields
  <2> QED  BY <2>4, <2>5
<1>13. CASE SettleBatch(w)
  <2> DEFINE more == {File(c.seq, p) : p \in {q \in Partitions : c.flight[q] = "done"}}
  <2>1. PICK interrupted \in BOOLEAN :
          LET failed == \/ c.failed \/ interrupted
                        \/ \E p \in Partitions : c.flight[p] = "lost"
          IN  call' = [call EXCEPT ![w].failed = failed, ![w].flight = NoFlight,
                 ![w].writes = @ \cup more,
                 ![w].pc = CASE failed -> "rollback"
                             [] ~failed /\ c.todo = {} -> "publish"
                             [] OTHER -> "write"]
      BY <1>13 DEF SettleBatch
  <2> DEFINE failed == \/ c.failed \/ interrupted
                       \/ \E p \in Partitions : c.flight[p] = "lost"
             pc == CASE failed -> "rollback"
                     [] ~failed /\ c.todo = {} -> "publish"
                     [] OTHER -> "write"
             x == [c EXCEPT !.failed = failed, !.flight = NoFlight,
                            !.writes = @ \cup more, !.pc = pc]
  <2>2. NoFlight \in [Partitions -> Phases]
      BY DEF Phases, NoFlight
  <2>3. more \subseteq AllFiles
    <3>1. c.seq \in Seqs
        BY <1>13 DEF SettleBatch, Numbered
    <3> QED  BY <3>1, FileNames
  <2>4. failed \in BOOLEAN /\ pc \in Points
      BY <1>a
  <2>5. New(x)
      BY <2>1
  <2>6. x \in Calls
    <3> HIDE DEF failed, pc, more, c
    <3> QED  BY <1>0, <2>2, <2>3, <2>4, BatchFields
  <2> QED  BY <2>5, <2>6
<1> QED
    BY <1>1, <1>2, <1>3, <1>4, <1>5, <1>6, <1>7, <1>8, <1>9, <1>10, <1>11, <1>12, <1>13
       DEF Inside

\* It keeps its number, and leaves the other calls.
LEMMA InsideNumbered ==
    ASSUME TypeOK, NEW w \in Writers, Inside(w)
    PROVE  /\ \A v \in Writers \ {w} : call'[v] = call[v]
           /\ call'[w].seq = call[w].seq
           /\ call'[w].pc \in {"write", "publish", "rollback"} =>
                 call[w].pc \in {"write", "publish", "rollback"}
<1>0. call \in [Writers -> Calls] /\ call[w] \in Calls
    BY DEF TypeOK
<1> USE <1>0 DEF At, Goto, Raise, Calls
<1>1. ASSUME NEW frame \in Frames, Declare(w, frame)
      PROVE  /\ \A v \in Writers \ {w} : call'[v] = call[v]
             /\ call'[w].seq = call[w].seq /\ call'[w].pc = "declared"
    BY <1>1 DEF Declare
<1>2. CASE EnterUpdate(w)  BY <1>2 DEF EnterUpdate
<1>3. CASE DatasetWriter(w)  BY <1>3 DEF DatasetWriter
<1>4. CASE Refused(w)  BY <1>4 DEF Refused
<1>5. CASE AssertDefinition(w)  BY <1>5 DEF AssertDefinition
<1>6. CASE CheckFails(w)  BY <1>6 DEF CheckFails
<1>7. CASE RolledBack(w)  BY <1>7 DEF RolledBack
<1>8. CASE ReadParent(w)  BY <1>8 DEF ReadParent
<1>9. CASE ReadHash(w)  BY <1>9 DEF ReadHash
<1>10. CASE Compare(w)
  <2> DEFINE old == IF call[w].parent = {} THEN EmptyRows ELSE Latest(VisibleHistory)
             delta == Changes(old, call[w].frame)
             pc == IF DOMAIN delta = {} THEN "check" ELSE "prepare"
  <2>1. call' = [call EXCEPT ![w].delta = delta, ![w].pc = pc]
      BY <1>10 DEF Compare
  <2>2. pc \in {"check", "prepare"}
      OBVIOUS
  <2> HIDE DEF delta, pc
  <2> QED  BY <2>1, <2>2
<1>11. CASE PublishFails(w)  BY <1>11 DEF PublishFails
<1>12. CASE LeaveWriter(w)  BY <1>12 DEF LeaveWriter, Forget, NewCall
<1>13. CASE CloseUpdate(w)  BY <1>13 DEF CloseUpdate
<1>14. CASE SubmitBatch(w)
  <2>1. PICK batch \in SUBSET call[w].todo :
          LET full == batch = call[w].todo \/ Cardinality(batch) = PartitionWorkers
          IN  call' = [call EXCEPT ![w].todo = @ \ batch,
                 ![w].failed = ~full,
                 ![w].pc = IF batch = {} THEN "rollback" ELSE @,
                 ![w].flight = [p \in Partitions |->
                                  IF p \in batch THEN "submitted" ELSE "none"]]
      BY <1>14 DEF SubmitBatch
  <2>2. call[w].pc = "write"
      BY <1>14 DEF SubmitBatch
  <2> QED  BY <2>1, <2>2
<1>15. CASE SettleBatch(w)
  <2>1. PICK interrupted :
          LET failed == \/ call[w].failed \/ interrupted
                        \/ \E p \in Partitions : call[w].flight[p] = "lost"
              done == {p \in Partitions : call[w].flight[p] = "done"}
          IN  call' = [call EXCEPT ![w].failed = failed, ![w].flight = NoFlight,
                 ![w].writes = @ \cup {File(call[w].seq, p) : p \in done},
                 ![w].pc = CASE failed -> "rollback"
                             [] ~failed /\ call[w].todo = {} -> "publish"
                             [] OTHER -> "write"]
      BY <1>15 DEF SettleBatch
  <2>2. call[w].pc = "write"
      BY <1>15 DEF SettleBatch
  <2> QED  BY <2>1, <2>2
<1> QED
    BY <1>1, <1>2, <1>3, <1>4, <1>5, <1>6, <1>7, <1>8, <1>9, <1>10, <1>11, <1>12, <1>13,
       <1>14, <1>15 DEF Inside

TypeInv == TypeOK /\ Numbered

\* A step of a call keeps types and numbers.
LEMMA InsideTypeInv ==
    ASSUME TypeInv, PublicationAssumption, NEW w \in Writers, Inside(w)
    PROVE  TypeInv'
<1>0. TypeOK /\ Numbered
    BY DEF TypeInv
<1>1. UNCHANGED <<storage, commits, checks, stray, definition, active, declarations, accidents>>
    BY DEF Inside, Declare, EnterUpdate, DatasetWriter, Refused, AssertDefinition, ReadParent,
       ReadHash, Compare, CheckFails, SubmitBatch, SettleBatch, PublishFails, RolledBack,
       LeaveWriter, CloseUpdate, others, exceptLease
<1>2. lease' \in Writers \cup {NoWriter}
    BY <1>0 DEF TypeOK, Inside, Declare, EnterUpdate, DatasetWriter, Refused, AssertDefinition,
       ReadParent, ReadHash, Compare, CheckFails, SubmitBatch, SettleBatch, PublishFails,
       RolledBack, LeaveWriter, CloseUpdate, others, Released
<1>3. call' \in [Writers -> Calls]
    BY <1>0, InsideTyped
<1>4. Calls' = Calls /\ AllFiles' = AllFiles /\ Seqs' = Seqs
    BY <1>1 DEF Calls, AllFiles, Seqs, storage
<1>5. TypeOK'
    BY <1>0, <1>1, <1>2, <1>3, <1>4 DEF TypeOK, storage
<1>6. Numbered'
    BY <1>0, <1>4, InsideNumbered DEF Numbered
<1> QED  BY <1>5, <1>6 DEF TypeInv

\* A prepared version takes the next number.
LEMMA PrepareTypeInv ==
    ASSUME TypeInv, PublicationAssumption, NEW w \in Writers, PrepareCommit(w)
    PROVE  TypeInv'
<1> DEFINE c == call[w]
           row == [status |-> "prepared", spec |-> definition, delta |-> c.delta]
           x == [c EXCEPT !.pc = "write", !.seq = Len(commits) + 1,
                          !.todo = {Month[k] : k \in DOMAIN c.delta}]
<1>0. TypeOK /\ Numbered
    BY DEF TypeInv
<1>1. c \in Calls /\ commits \in Seq(Commits)
    BY <1>0 DEF TypeOK, Commits
<1>2. row \in Commits
    BY <1>0, <1>1 DEF TypeOK, Commits, Calls
<1>3. commits' = Append(commits, row) /\ call' = [call EXCEPT ![w] = x]
    BY DEF PrepareCommit
<1>4. /\ commits' \in Seq(Commits) /\ Len(commits') = Len(commits) + 1
      /\ Len(commits) + 1 \in Seqs'
    BY <1>1, <1>2, <1>3 DEF Seqs
<1>5. /\ Calls \subseteq Calls' /\ call \in [Writers -> Calls']
      /\ AllFiles \subseteq AllFiles' /\ Seqs \subseteq Seqs'
    BY <1>0, <1>1, <1>4, CallsGrow DEF PrepareCommit, storage
<1>6. {Month[k] : k \in DOMAIN c.delta} \subseteq Partitions
    BY <1>1, ContentsTyped DEF Calls, PublicationAssumption
<1>7. x \in Calls'
    BY <1>1, <1>4, <1>5, <1>6 DEF Calls, Points
<1>8. call' \in [Writers -> Calls']
    BY <1>3, <1>5, <1>7
<1>9. UNCHANGED <<lease, definition, active, segments, manifest, checks, temps, files, stray,
                  declarations, accidents>>
    BY DEF PrepareCommit, others, storage
<1>10. checks \in Seq([upto : {0} \cup Seqs', frame : Contents])
  <2>1. [upto : {0} \cup Seqs, frame : Contents] \subseteq [upto : {0} \cup Seqs', frame : Contents]
      BY <1>5
  <2>2. checks \in Seq([upto : {0} \cup Seqs, frame : Contents])
      BY <1>0 DEF TypeOK
  <2> QED  BY <2>1, <2>2, SeqMonotonic
<1>11. TypeOK'
    BY <1>0, <1>4, <1>5, <1>8, <1>9, <1>10 DEF TypeOK, Commits
<1>12. Numbered'
  <2> SUFFICES ASSUME NEW v \in Writers,
                      call'[v].pc \in {"write", "publish", "rollback"}
               PROVE  call'[v].seq \in Seqs'
      BY DEF Numbered
  <2>1. CASE v = w
    <3>1. call'[v].seq = Len(commits) + 1
        BY <1>0, <1>1, <1>3, <2>1 DEF TypeOK, Calls
    <3> QED  BY <1>4, <3>1
  <2>2. CASE v # w
      BY <1>0, <1>3, <1>5, <2>2 DEF Numbered, TypeOK
  <2> QED  BY <2>1, <2>2
<1> QED  BY <1>11, <1>12 DEF TypeInv

\* A step that changes the tables and numbers no commit.
LEMMA TablesByParts ==
    ASSUME TypeInv,
           call' \in [Writers -> Calls],
           \A v \in Writers :
               /\ call'[v].seq = call[v].seq
               /\ call'[v].pc \in {"write", "publish", "rollback"} =>
                     call[v].pc \in {"write", "publish", "rollback"},
           lease' \in Writers \cup {NoWriter}, definition' \in Definitions,
           active' \in BOOLEAN,
           commits' \in Seq(Commits), Len(commits') = Len(commits),
           segments' \subseteq AllFiles, manifest' \subseteq AllFiles,
           manifest \subseteq manifest',
           checks' \in Seq([upto : {0} \cup Seqs, frame : Contents]),
           temps' \subseteq AllFiles, files' \subseteq AllFiles, stray' \subseteq AllFiles,
           declarations' \in 0 .. MaxDeclarations, accidents' \in 0 .. MaxAccidents
    PROVE  TypeInv'
<1>0. TypeOK /\ Numbered
    BY DEF TypeInv
<1>1. Seqs' = Seqs /\ AllFiles' = AllFiles
  <2>1. Len(commits) = Len(commits') /\ commits \in Seq(Commits) /\ commits' \in Seq(Commits)
      BY <1>0 DEF TypeOK, Commits
  <2>2. DOMAIN commits' = DOMAIN commits
      BY <2>1, LenProperties
  <2> QED  BY <2>2 DEF Seqs, AllFiles
<1>2. Calls \subseteq Calls'
    BY <1>0, CallsGrow DEF TypeOK, Commits
<1>3. call' \in [Writers -> Calls']
    BY <1>2
<1>4. TypeOK'
    BY <1>1, <1>3 DEF TypeOK, Commits
<1>5. Numbered'
    BY <1>0, <1>1 DEF Numbered, TypeOK
<1> QED  BY <1>4, <1>5 DEF TypeInv

\* The same of the calls one by one: the step is w's.
LEMMA TypeInvByParts ==
    ASSUME TypeInv, NEW w \in Writers, NEW x \in Calls,
           call' = [call EXCEPT ![w] = x], x.seq = call[w].seq,
           x.pc \in {"write", "publish", "rollback"} =>
               call[w].pc \in {"write", "publish", "rollback"},
           lease' \in Writers \cup {NoWriter}, definition' \in Definitions,
           active' \in BOOLEAN,
           commits' \in Seq(Commits), Len(commits') = Len(commits),
           segments' \subseteq AllFiles, manifest' \subseteq AllFiles,
           manifest \subseteq manifest',
           checks' \in Seq([upto : {0} \cup Seqs, frame : Contents]),
           temps' \subseteq AllFiles, files' \subseteq AllFiles, stray' \subseteq AllFiles,
           declarations' \in 0 .. MaxDeclarations, accidents' \in 0 .. MaxAccidents
    PROVE  TypeInv'
<1>1. call \in [Writers -> Calls]
    BY DEF TypeInv, TypeOK
<1>2. /\ call' \in [Writers -> Calls]
      /\ \A v \in Writers :
            /\ call'[v].seq = call[v].seq
            /\ call'[v].pc \in {"write", "publish", "rollback"} =>
                  call[v].pc \in {"write", "publish", "rollback"}
    BY <1>1
<1> QED  BY <1>2, TablesByParts

\* The last commit of a set of commits.
LEMMA GreatestIsLast ==
    ASSUME NEW n \in Nat, NEW S \in SUBSET (1 .. n)
    PROVE  /\ S = {} => Greatest(S) = 0
           /\ S # {} => Greatest(S) \in S /\ \A t \in S : t <= Greatest(S)
<1>1. CASE S = {}
    BY <1>1 DEF Greatest
<1>2. CASE S # {}
  <2>1. S \in SUBSET (0 .. n)
      OBVIOUS
  <2>2. \E s \in S : \A t \in S : t <= s
      BY <1>2, <2>1, NatGreatest
  <2> QED  BY <1>2, <2>2 DEF Greatest
<1> QED  BY <1>1, <1>2

\* The latest version is a version, or none.
LEMMA GreatestTyped ==
    ASSUME commits \in Seq(Commits) PROVE Greatest(Committed) \in {0} \cup Seqs
<1>1. Committed \subseteq Seqs /\ Seqs = 1 .. Len(commits) /\ Len(commits) \in Nat
    BY CommitsTyped DEF Committed, Seqs
<1> QED  BY <1>1, GreatestIsLast

\* The tasks of a batch, the transactions and the removal of files.
LEMMA TablesTypeInv ==
    ASSUME TypeInv, PublicationAssumption, NEW w \in Writers,
           \/ RecordCheck(w) \/ Publish(w) \/ Die(w)
           \/ \E p \in Partitions : Task(w, p)
           \/ \E f \in call[w].writes : UnlinkWrite(w, f)
    PROVE  TypeInv'
<1> DEFINE c == call[w]
<1>0. /\ TypeOK /\ Numbered
      /\ c \in Calls /\ call \in [Writers -> Calls] /\ commits \in Seq(Commits)
    BY DEF TypeInv, TypeOK, Commits
<1>a. Points = {"idle", "declared", "entered", "assert", "parent", "hash", "compare",
                "check", "prepare", "write", "publish", "rollback", "leave",
                "close", "ended", "dead"}
    BY DEF Points
<1>b. Outcomes = {"none", "committed", "checked", "raised"}
    BY DEF Outcomes
<1>1. CASE RecordCheck(w)
  <2> DEFINE x == [c EXCEPT !.pc = "leave", !.outcome = "checked"]
  <2>1. x \in Calls /\ x.seq = c.seq /\ x.pc = "leave"
    <3>1. x \in Calls
        BY <1>0, <1>a, <1>b, CallFields
    <3>2. x.seq = c.seq /\ x.pc = "leave"
        BY <1>0 DEF Calls
    <3> QED  BY <3>1, <3>2
  <2>2. call' = [call EXCEPT ![w] = x]
      BY <1>1 DEF RecordCheck
  <2>3. checks' \in Seq([upto : {0} \cup Seqs, frame : Contents])
    <3>1. Greatest(Committed) \in {0} \cup Seqs
        BY <1>0, GreatestTyped
    <3>2. CheckOf(c.frame) \in [upto : {0} \cup Seqs, frame : Contents]
        BY <1>0, <3>1 DEF CheckOf, Calls
    <3> QED  BY <1>0, <1>1, <3>2 DEF RecordCheck, TypeOK
  <2>4. UNCHANGED <<others, storage, commits, stray>>
      BY <1>1 DEF RecordCheck
  <2> HIDE DEF x
  <2> QED  BY <1>0, <2>1, <2>2, <2>3, <2>4, TypeInvByParts DEF others, storage, TypeOK
<1>2. CASE Publish(w)
  <2> DEFINE x == [c EXCEPT !.pc = "leave", !.outcome = "committed"]
  <2>1. x \in Calls /\ x.seq = c.seq /\ x.pc = "leave"
    <3>1. x \in Calls
        BY <1>0, <1>a, <1>b, CallFields
    <3>2. x.seq = c.seq /\ x.pc = "leave"
        BY <1>0 DEF Calls
    <3> QED  BY <3>1, <3>2
  <2>2. call' = [call EXCEPT ![w] = x]
      BY <1>2 DEF Publish
  <2>3. commits' \in Seq(Commits) /\ Len(commits') = Len(commits)
    <3>1. c.seq \in Seqs
        BY <1>0, <1>2 DEF Publish, At, Numbered
    <3>2. commits' = [commits EXCEPT ![c.seq] = [commits[c.seq] EXCEPT !.status = "committed"]]
        BY <1>2 DEF Publish
    <3>3. [commits[c.seq] EXCEPT !.status = "committed"] \in Commits
        BY <1>0, <3>1, CommitsTyped DEF Commits
    <3> QED  BY <1>0, <3>1, <3>2, <3>3, ExceptSeq, CommitsTyped
  <2>4. manifest' \subseteq AllFiles /\ manifest \subseteq manifest'
      BY <1>0, <1>2 DEF Publish, TypeOK, Calls
  <2>5. UNCHANGED <<others, segments, temps, files, checks, stray>>
      BY <1>2 DEF Publish
  <2> HIDE DEF x
  <2> QED  BY <1>0, <2>1, <2>2, <2>3, <2>4, <2>5, TypeInvByParts DEF others, TypeOK
<1>3. CASE Die(w)
  <2> DEFINE x == [NewCall EXCEPT !.pc = "dead", !.spec = c.spec, !.seq = c.seq,
                                  !.outcome = c.outcome]
  <2>1. x \in Calls
      BY <1>0, <1>a, NewCallFields
  <2>2. x.seq = c.seq /\ x.pc = "dead"
      BY DEF NewCall
  <2>3. call' = [call EXCEPT ![w] = x]
      BY <1>3 DEF Die, Forget
  <2>4. /\ UNCHANGED <<lease, definition, active, declarations, storage, commits, checks, stray>>
        /\ accidents < MaxAccidents /\ accidents' = accidents + 1
      BY <1>3 DEF Die
  <2>5. accidents' \in 0 .. MaxAccidents
      BY <1>0, <2>4 DEF TypeOK, PublicationAssumption
  <2> HIDE DEF x
  <2> QED  BY <1>0, <2>1, <2>2, <2>3, <2>4, <2>5, TypeInvByParts DEF storage, TypeOK
<1>4. ASSUME NEW p \in Partitions, Task(w, p) PROVE TypeInv'
  <2>1. PICK from \in Phases, to \in Phases : TaskMoves(w, p, from, to)
      BY <1>4 DEF Task, WriteTemporary, ReplaceFile, WriteFails, RegisterSegment,
         RegisterFails, Phases
  <2> DEFINE x == [c EXCEPT !.flight[p] = to]
  <2>2. x \in Calls
      BY <1>0, CallFields DEF Outcomes, Points
  <2>3. x.seq = c.seq /\ x.pc = c.pc
      BY <1>0 DEF Calls
  <2>4. call' = [call EXCEPT ![w] = x]
      BY <2>1 DEF TaskMoves
  <2>5. File(c.seq, p) \in AllFiles
      BY <1>0, <2>1, FileNames DEF TaskMoves, At, Numbered
  <2>6. /\ UNCHANGED <<others, manifest, commits, checks>>
        /\ segments' \subseteq AllFiles /\ temps' \subseteq AllFiles
        /\ files' \subseteq AllFiles /\ stray' \subseteq AllFiles
      BY <1>0, <1>4, <2>5 DEF Task, WriteTemporary, ReplaceFile, WriteFails, RegisterSegment,
         RegisterFails, TypeOK, storage
  <2> HIDE DEF x
  <2> QED  BY <1>0, <2>2, <2>3, <2>4, <2>6, TypeInvByParts DEF others, TypeOK
<1>5. ASSUME NEW f \in call[w].writes, UnlinkWrite(w, f) PROVE TypeInv'
  <2> DEFINE x == [c EXCEPT !.writes = @ \ {f}]
  <2>1. x \in Calls
      BY <1>0, <1>a, <1>b, CallFields
  <2>2. x.seq = c.seq /\ x.pc = c.pc
      BY <1>0 DEF Calls
  <2>3. call' = [call EXCEPT ![w] = x]
      BY <1>5 DEF UnlinkWrite
  <2>4. /\ UNCHANGED <<others, segments, manifest, temps, commits, checks>>
        /\ files' \subseteq AllFiles /\ stray' \subseteq AllFiles
      BY <1>0, <1>5 DEF UnlinkWrite, TypeOK, Calls
  <2> HIDE DEF x
  <2> QED  BY <1>0, <2>1, <2>2, <2>3, <2>4, TypeInvByParts DEF others, TypeOK
<1> QED  BY <1>1, <1>2, <1>3, <1>4, <1>5

\* What other callers do.
Environment ==
    \/ \E w \in Writers : AbandonOwner(w)
    \/ (\E d \in Definitions : Register(d)) \/ Remove \/ CleanupTemporary

\* Leases, declarations and recovery keep types and numbers.
LEMMA EnvironmentTypeInv ==
    ASSUME TypeInv, PublicationAssumption, Environment
    PROVE  TypeInv'
<1>0. TypeOK /\ commits \in Seq(Commits) /\ call \in [Writers -> Calls]
    BY DEF TypeInv, TypeOK, Commits
<1>1. UNCHANGED <<commits, segments, manifest, files, checks, call, stray>>
    BY DEF Environment, AbandonOwner, Register, Remove, Declaration, CleanupTemporary,
       others, storage
<1>2. /\ lease' \in Writers \cup {NoWriter} /\ definition' \in Definitions
      /\ active' \in BOOLEAN /\ temps' \subseteq AllFiles
      /\ declarations' \in 0 .. MaxDeclarations /\ accidents' \in 0 .. MaxAccidents
  <2>1. CASE \E w \in Writers : AbandonOwner(w)
      BY <1>0, <2>1 DEF AbandonOwner, TypeOK, PublicationAssumption, storage
  <2>2. ASSUME NEW d \in Definitions, Register(d) \/ Remove
        PROVE  /\ UNCHANGED <<lease, temps, accidents>>
               /\ definition' \in Definitions /\ active' \in BOOLEAN
               /\ declarations' \in 0 .. MaxDeclarations
    <3>1. /\ Declaration /\ definition' \in {d, definition} /\ active' \in BOOLEAN
        BY <2>2 DEF Register, Remove
    <3>2. definition \in Definitions /\ declarations \in 0 .. MaxDeclarations
        BY <1>0 DEF TypeOK
    <3>3. UNCHANGED <<lease, temps, accidents>>
        BY <3>1 DEF Declaration, storage
    <3>4. declarations' \in 0 .. MaxDeclarations
        BY <3>1, <3>2 DEF Declaration, PublicationAssumption
    <3> QED  BY <3>1, <3>2, <3>3, <3>4
  <2>3. CASE CleanupTemporary
      BY <1>0, <2>3 DEF CleanupTemporary, TypeOK, others
  <2>4. FirstDefinition \in Definitions
      BY DEF PublicationAssumption
  <2> QED  BY <1>0, <2>1, <2>2, <2>3, <2>4 DEF Environment, TypeOK
<1> QED  BY <1>0, <1>1, <1>2, TablesByParts DEF TypeOK

\* Every step is one of these.
LEMMA StepsOf ==
    ASSUME [Next]_vars
    PROVE  \/ UNCHANGED vars \/ Environment
           \/ \E w \in Writers :
                \/ Inside(w) \/ PrepareCommit(w)
                \/ RecordCheck(w) \/ Publish(w) \/ Die(w)
                \/ \E p \in Partitions : Task(w, p)
                \/ \E f \in call[w].writes : UnlinkWrite(w, f)
BY DEF Next, Step, Inside, Environment

\* Every step does.
LEMMA StepTypeInv ==
    ASSUME TypeInv, PublicationAssumption, [Next]_vars PROVE TypeInv'
<1>1. ASSUME NEW w \in Writers, PrepareCommit(w) PROVE TypeInv'
    BY <1>1, PrepareTypeInv
<1>2. ASSUME NEW w \in Writers, Inside(w) PROVE TypeInv'
    BY <1>2, InsideTypeInv
<1>3. ASSUME NEW w \in Writers,
             \/ RecordCheck(w) \/ Publish(w) \/ Die(w)
             \/ \E p \in Partitions : Task(w, p)
             \/ \E f \in call[w].writes : UnlinkWrite(w, f)
      PROVE  TypeInv'
    BY <1>3, TablesTypeInv
<1>4. CASE UNCHANGED vars
    BY <1>4 DEF vars, TypeInv, TypeOK, Numbered, Seqs, Calls, AllFiles
<1> QED  BY <1>1, <1>2, <1>3, <1>4, EnvironmentTypeInv, StepsOf

\* The tables, the disk and the calls keep their shape, whatever fails
\* between preparing a commit and its end.
THEOREM TypeCorrect == Spec => []TypeOK
<1> USE PublicationAssumption
<1>1. Init => TypeInv
    BY InitTyped DEF TypeInv, Numbered, Init, NewCall
<1>2. TypeInv /\ [Next]_vars => TypeInv'
    BY StepTypeInv
<1>3. TypeInv => TypeOK
    BY DEF TypeInv
<1> QED  BY <1>1, <1>2, <1>3, PTL DEF Spec

-----------------------------------------------------------------------------
(* The life of a call and of its files *)

Early    == {"idle", "declared", "entered", "assert", "parent", "hash", "compare",
             "check", "prepare"}
Working  == {"write", "publish", "rollback"}
Over     == {"leave", "close", "ended"}
Asserted == {"parent", "hash", "compare", "check", "prepare", "write", "publish"}

Own(w, p) == File(call[w].seq, p)
Months(rows) == {Month[k] : k \in DOMAIN rows}

\* Before its commit is prepared a call has no number and no file.
Fresh(w) ==
    call[w].pc \in Early => /\ call[w].seq = 0 /\ call[w].outcome = "none"
                            /\ call[w].flight = NoFlight /\ call[w].writes = {}

\* A working call's commit is its own and not yet visible.
Prepared(w) ==
    call[w].pc \in Working =>
        /\ call[w].seq \in Seqs /\ call[w].outcome = "none"
        /\ commits[call[w].seq].status = "prepared"
        /\ commits[call[w].seq].delta = call[w].delta
        /\ \A f \in call[w].writes : \E p \in Partitions : f = Own(w, p)

\* While a batch is in flight every file is with its thread, returned or stray.
Writing(w) ==
    call[w].pc = "write" =>
        /\ \A p \in Partitions :
             /\ Own(w, p) \in temps => call[w].flight[p] = "temporary"
             /\ call[w].flight[p] \in {"whole", "done"} => Own(w, p) \in files
             /\ call[w].flight[p] = "done" => Own(w, p) \in segments
             /\ Own(w, p) \in files =>
                   \/ call[w].flight[p] \in {"whole", "done"}
                   \/ Own(w, p) \in call[w].writes \cup stray
             /\ p \in Months(call[w].delta) <=>
                   \/ p \in call[w].todo \/ call[w].flight[p] # "none"
                   \/ Own(w, p) \in call[w].writes
        /\ call[w].writes \subseteq files \cap segments

\* What is about to be published is the whole version.
Publishing(w) ==
    call[w].pc = "publish" =>
        /\ call[w].writes = {Own(w, p) : p \in Months(call[w].delta)}
        /\ call[w].writes \subseteq files \cap segments

\* Once the threads have ended no temporary is left, nor a file out of sight.
Tidy(w) ==
    /\ call[w].pc \in {"publish", "rollback"} =>
         \A p \in Partitions :
             Own(w, p) \notin temps /\ (Own(w, p) \in files => Own(w, p) \in call[w].writes \cup stray)
    /\ call[w].pc \in Over =>
         \A p \in Partitions :
             Own(w, p) \notin temps /\ (Own(w, p) \in files => Own(w, p) \in manifest \cup stray)

\* The lease keeps the definition that was asserted.
Declared(w) ==
    /\ lease = w /\ call[w].pc \in Asserted => active /\ definition = call[w].spec
    /\ lease = w /\ call[w].pc \in {"write", "publish"} =>
          commits[call[w].seq].spec = call[w].spec
    /\ call[w].outcome = "committed" =>
          /\ call[w].seq \in Seqs /\ commits[call[w].seq].status = "committed"
          /\ commits[call[w].seq].spec = call[w].spec

CallInv(w) == /\ Fresh(w) /\ Prepared(w) /\ Writing(w) /\ Publishing(w)
              /\ Tidy(w) /\ Declared(w)

OwnNumber == \A v, w \in Writers : v # w /\ call[v].seq # 0 => call[v].seq # call[w].seq

SafetyInv == /\ TypeInv
             /\ VisibleIsWhole
             /\ OwnNumber
             /\ \A w \in Writers : CallInv(w)

-----------------------------------------------------------------------------
(* Steps of others                                                         *)

\* The shapes and the parts of the invariant that the steps use.
LEMMA SafetyFacts ==
    ASSUME SafetyInv
    PROVE  /\ TypeInv /\ TypeOK /\ Numbered /\ VisibleIsWhole /\ OwnNumber
           /\ call \in [Writers -> Calls] /\ commits \in Seq(Commits)
           /\ \A w \in Writers : CallInv(w) /\ call[w] \in Calls
BY DEF SafetyInv, TypeInv, TypeOK, Commits

\* A call is not disturbed by a step that keeps its frame, its commit and its
\* files, takes nothing from the tables, and changes no declaration under its
\* lease.
LEMMA OtherKept ==
    ASSUME SafetyInv, NEW v \in Writers, call'[v] = call[v],
           Seqs \subseteq Seqs',
           call[v].seq \in Seqs => commits'[call[v].seq] = commits[call[v].seq],
           \A p \in Partitions : /\ Own(v, p) \in temps' => Own(v, p) \in temps
                                 /\ Own(v, p) \in files' <=> Own(v, p) \in files,
           segments \subseteq segments', manifest \subseteq manifest', stray \subseteq stray',
           lease' = v => lease = v /\ active' = active /\ definition' = definition
    PROVE  CallInv(v)'
<1>0. /\ CallInv(v)
      /\ call[v].pc \in {"write", "publish", "rollback"} => call[v].seq \in Seqs
    BY DEF SafetyInv, TypeInv, Numbered
<1>1. \A p : Own(v, p)' = Own(v, p)
    BY DEF Own
<1>2. Fresh(v)'
    BY <1>0 DEF CallInv, Fresh, NoFlight
<1>3. Prepared(v)'
    BY <1>0, <1>1 DEF CallInv, Prepared, Working
<1>4. \A f \in call[v].writes : call[v].pc \in Working /\ f \in files => f \in files'
    BY <1>0 DEF CallInv, Prepared
<1>5. Writing(v)'
    BY <1>0, <1>1, <1>4 DEF CallInv, Writing, Working, Months
<1>6. Publishing(v)'
    BY <1>0, <1>1, <1>4 DEF CallInv, Publishing, Working, Months
<1>7. Tidy(v)'
    BY <1>0, <1>1 DEF CallInv, Tidy
<1>8. Declared(v)'
  <2>1. Declared(v) /\ (call[v].pc \in {"write", "publish"} => call[v].seq \in Seqs)
      BY <1>0 DEF CallInv
  <2> QED  BY <2>1 DEF Declared
<1> QED  BY <1>2, <1>3, <1>5, <1>6, <1>7, <1>8 DEF CallInv

\* The files of another call have another number.
LEMMA OtherFiles ==
    ASSUME SafetyInv, NEW v \in Writers, NEW w \in Writers, v # w, call[w].seq \in Seqs,
           NEW p, NEW q
    PROVE  Own(v, p) # Own(w, q)
<1>1. call[w].seq # 0
    BY DEF SafetyInv, TypeInv, TypeOK, Seqs
<1> QED  BY <1>1, FileNames DEF SafetyInv, OwnNumber, Own

-----------------------------------------------------------------------------
(* Before a commit is prepared                                             *)

\* What a call before its commit owes.
LEMMA EarlyKept ==
    ASSUME NEW w \in Writers, call'[w].pc \in Early, call'[w].seq = 0,
           call'[w].outcome = "none", call'[w].flight = NoFlight, call'[w].writes = {},
           lease' = w /\ call'[w].pc \in Asserted => active' /\ definition' = call'[w].spec
    PROVE  CallInv(w)'
BY DEF CallInv, Fresh, Prepared, Writing, Publishing, Tidy, Declared, Early, Working, Over,
   NoFlight

\* The steps from the declaration to the comparison.
LEMMA EarlySafe ==
    ASSUME SafetyInv, NEW w \in Writers,
           \/ \E frame \in Frames : Declare(w, frame)
           \/ EnterUpdate(w) \/ DatasetWriter(w) \/ ReadParent(w) \/ ReadHash(w) \/ Compare(w)
           \/ AssertDefinition(w) /\ call'[w].pc = "parent"
    PROVE  CallInv(w)' /\ call'[w].seq = call[w].seq
<1> DEFINE c == call[w]
           d == call'[w]
           Same == d.seq = c.seq /\ d.outcome = c.outcome /\ d.flight = c.flight /\ d.writes = c.writes
<1>0. /\ call \in [Writers -> Calls] /\ c \in Calls /\ Fresh(w) /\ Declared(w)
    BY SafetyFacts DEF CallInv
<1>1. ASSUME NEW frame \in Frames, Declare(w, frame)
      PROVE  Same /\ c.pc = "idle" /\ d.pc = "declared"
    BY <1>0, <1>1 DEF Declare, At, Calls
<1>2. ASSUME EnterUpdate(w) PROVE Same /\ c.pc = "declared" /\ d.pc = "entered"
    BY <1>0, <1>2 DEF EnterUpdate, At, Goto, Calls
<1>3. ASSUME DatasetWriter(w)
      PROVE  Same /\ c.pc \in {"declared", "entered"} /\ d.pc = "assert"
    BY <1>0, <1>3 DEF DatasetWriter, At, Calls
<1>4. ASSUME ReadParent(w)
      PROVE  /\ Same /\ c.pc = "parent" /\ d.pc = "hash" /\ d.spec = c.spec
             /\ UNCHANGED <<lease, active, definition>>
    BY <1>0, <1>4 DEF ReadParent, At, Calls, others
<1>5. ASSUME ReadHash(w)
      PROVE  /\ Same /\ c.pc = "hash" /\ d.pc = "compare" /\ d.spec = c.spec
             /\ UNCHANGED <<lease, active, definition>>
    BY <1>0, <1>5 DEF ReadHash, At, Calls, others
<1>6. ASSUME Compare(w)
      PROVE  /\ Same /\ c.pc = "compare" /\ d.pc \in {"check", "prepare"} /\ d.spec = c.spec
             /\ UNCHANGED <<lease, active, definition>>
  <2> DEFINE old == IF c.parent = {} THEN EmptyRows ELSE Latest(VisibleHistory)
             delta == Changes(old, c.frame)
             pc == IF DOMAIN delta = {} THEN "check" ELSE "prepare"
  <2>1. call' = [call EXCEPT ![w].delta = delta, ![w].pc = pc]
      BY <1>6 DEF Compare
  <2>2. pc \in {"check", "prepare"}
      OBVIOUS
  <2>3. c.pc = "compare" /\ UNCHANGED <<lease, active, definition>>
      BY <1>6 DEF Compare, At, others
  <2> HIDE DEF delta, pc
  <2> QED  BY <1>0, <2>1, <2>2, <2>3 DEF Calls
<1>7. ASSUME AssertDefinition(w), d.pc = "parent"
      PROVE  /\ Same /\ c.pc = "assert" /\ d.spec = c.spec
             /\ active /\ definition = c.spec /\ UNCHANGED <<lease, active, definition>>
  <2>1. CASE active /\ definition = c.spec
      BY <1>0, <1>7, <2>1 DEF AssertDefinition, At, Goto, Calls, others
  <2>2. CASE ~(active /\ definition = c.spec)
    <3>1. Raise(w)
        BY <1>7, <2>2 DEF AssertDefinition
    <3> QED  BY <1>0, <1>7, <3>1 DEF Raise, Calls
  <2> QED  BY <2>1, <2>2
<1>8. Same /\ c.pc \in Early /\ d.pc \in Early
    BY <1>1, <1>2, <1>3, <1>4, <1>5, <1>6, <1>7 DEF Early
<1>9. ASSUME lease' = w, d.pc \in Asserted PROVE active' /\ definition' = d.spec
  <2>1. CASE ReadParent(w) \/ ReadHash(w) \/ Compare(w)
      BY <1>0, <1>4, <1>5, <1>6, <1>9, <2>1 DEF Declared, Asserted
  <2>2. CASE AssertDefinition(w) /\ d.pc = "parent"
      BY <1>7, <2>2
  <2>3. CASE \/ \E frame \in Frames : Declare(w, frame)
             \/ EnterUpdate(w) \/ DatasetWriter(w)
      BY <1>1, <1>2, <1>3, <1>9, <2>3 DEF Asserted
  <2> QED  BY <2>1, <2>2, <2>3
<1> HIDE DEF Same
<1>10. d.seq = 0 /\ d.outcome = "none" /\ d.flight = NoFlight /\ d.writes = {} /\ d.seq = c.seq
    BY <1>0, <1>8 DEF Same, Fresh
<1> QED  BY <1>8, <1>9, <1>10, EarlyKept

-----------------------------------------------------------------------------
(* Ends of a call                                                          *)

\* What a call that is over, or died, leaves.
LEMMA OverKept ==
    ASSUME NEW w \in Writers, call'[w].pc \in Over \cup {"dead"},
           call'[w].pc \in Over =>
             \A p \in Partitions :
                 /\ Own(w, p)' \notin temps'
                 /\ Own(w, p)' \in files' => Own(w, p)' \in manifest' \cup stray',
           call'[w].outcome = "committed" =>
             /\ call'[w].seq \in Seqs' /\ commits'[call'[w].seq].status = "committed"
             /\ commits'[call'[w].seq].spec = call'[w].spec
    PROVE  CallInv(w)'
BY DEF CallInv, Fresh, Prepared, Writing, Publishing, Tidy, Declared, Early, Working, Over,
   Asserted

\* A call that ends before it prepared a commit has no files.
LEMMA NoFiles ==
    ASSUME SafetyInv, NEW w \in Writers, call[w].seq = 0, NEW p
    PROVE  Own(w, p) \notin temps \cup files
<1>1. 0 \notin Seqs
    BY SafetyFacts, CommitsTyped
<1> QED  BY <1>1, SafetyFacts, FilesOfSeq DEF Own, TypeOK

\* Leaving, refusing, checking and dying keep it so.
LEMMA OverSafe ==
    ASSUME SafetyInv, NEW w \in Writers,
           \/ Refused(w) \/ CheckFails(w) \/ RecordCheck(w) \/ RolledBack(w)
           \/ AssertDefinition(w) /\ call'[w].pc = "leave"
           \/ LeaveWriter(w) \/ CloseUpdate(w) \/ Die(w)
    PROVE  CallInv(w)' /\ call'[w].seq = call[w].seq
<1> DEFINE c == call[w]
           d == call'[w]
           Files == UNCHANGED <<temps, files, manifest, stray, commits>>
<1>0. /\ call \in [Writers -> Calls] /\ c \in Calls /\ CallInv(w)
    BY SafetyFacts
<1>1. ASSUME Refused(w) \/ CheckFails(w) \/ RecordCheck(w)
             \/ (AssertDefinition(w) /\ d.pc = "leave")
      PROVE  /\ c.pc \in Early /\ d.pc \in Over /\ d.seq = c.seq
             /\ d.outcome \in {"raised", "checked"} /\ Files
  <2>1. CASE Refused(w)
      BY <1>0, <2>1 DEF Refused, At, Calls, Early, Over, storage
  <2>2. CASE CheckFails(w)
      BY <1>0, <2>2 DEF CheckFails, Raise, At, Calls, Early, Over, storage
  <2>3. CASE RecordCheck(w)
      BY <1>0, <2>3 DEF RecordCheck, At, Calls, Early, Over, storage
  <2>4. CASE AssertDefinition(w) /\ d.pc = "leave"
    <3>1. At(w, "assert") /\ Raise(w) /\ Files
      <4>1. Goto(w, "parent") => d.pc = "parent"
          BY <1>0 DEF Goto, Calls
      <4> QED  BY <2>4, <4>1 DEF AssertDefinition, storage
    <3> QED  BY <1>0, <3>1 DEF Raise, At, Calls, Early, Over
  <2> QED  BY <1>1, <2>1, <2>2, <2>3, <2>4
<1>2. ASSUME RolledBack(w)
      PROVE  /\ c.pc = "rollback" /\ c.writes = {} /\ d.pc \in Over /\ d.seq = c.seq
             /\ d.outcome = "raised" /\ Files
    BY <1>0, <1>2 DEF RolledBack, At, Raise, Calls, Over, storage
<1>3. ASSUME LeaveWriter(w) \/ CloseUpdate(w)
      PROVE  /\ c.pc \in Over /\ d.pc \in Over /\ d.seq = c.seq /\ d.spec = c.spec
             /\ d.outcome = c.outcome /\ Files
  <2>1. CASE LeaveWriter(w)
    <3>1. PICK pc \in {"close", "ended"} : Forget(w, pc)
        BY <2>1 DEF LeaveWriter
    <3> QED
        BY <1>0, <2>1, <3>1 DEF LeaveWriter, At, Forget, NewCall, Over, storage
  <2>2. CASE CloseUpdate(w)
      BY <1>0, <2>2 DEF CloseUpdate, At, Goto, Calls, Over, storage
  <2> QED  BY <1>3, <2>1, <2>2
<1>4. ASSUME Die(w)
      PROVE  /\ d.pc = "dead" /\ d.seq = c.seq /\ d.spec = c.spec /\ d.outcome = c.outcome
             /\ Files
    BY <1>0, <1>4 DEF Die, Forget, NewCall, storage
<1>5. /\ d.pc \in Over \cup {"dead"} /\ d.seq = c.seq /\ Files
      /\ d.outcome = "committed" => d.outcome = c.outcome /\ d.spec = c.spec
  <2>1. CASE Refused(w) \/ CheckFails(w) \/ RecordCheck(w)
             \/ (AssertDefinition(w) /\ d.pc = "leave")
      BY <1>1, <2>1
  <2>2. CASE RolledBack(w)
      BY <1>2, <2>2
  <2>3. CASE LeaveWriter(w) \/ CloseUpdate(w)
      BY <1>3, <2>3
  <2>4. CASE Die(w)
      BY <1>4, <2>4
  <2> QED  BY <2>1, <2>2, <2>3, <2>4
<1>6. ASSUME d.pc \in Over, NEW p \in Partitions
      PROVE  Own(w, p) \notin temps /\ (Own(w, p) \in files => Own(w, p) \in manifest \cup stray)
  <2>1. CASE c.pc \in Early
      BY <1>0, <2>1, NoFiles DEF CallInv, Fresh
  <2>2. CASE RolledBack(w)
      BY <1>0, <1>2, <2>2 DEF CallInv, Tidy
  <2>3. CASE c.pc \in Over
      BY <1>0, <2>3 DEF CallInv, Tidy
  <2>4. CASE Die(w)
      BY <1>4, <1>6, <2>4 DEF Over
  <2> QED  BY <1>1, <1>3, <2>1, <2>2, <2>3, <2>4
<1>7. \A p : Own(w, p)' = Own(w, p)
    BY <1>5 DEF Own
<1>8. d.outcome = "committed" =>
             /\ d.seq \in Seqs' /\ commits'[d.seq].status = "committed"
             /\ commits'[d.seq].spec = d.spec
  <2>1. Declared(w) /\ Seqs' = Seqs
      BY <1>0, <1>5 DEF CallInv, Seqs
  <2> QED  BY <1>5, <2>1 DEF Declared
<1> QED  BY <1>5, <1>6, <1>7, <1>8, OverKept

-----------------------------------------------------------------------------
(* The files of a batch                                                    *)

\* What a writing call owes.
LEMMA WriteKept ==
    ASSUME NEW w \in Writers, call'[w].pc = "write", Prepared(w)', Writing(w)',
           lease' = w => /\ active' /\ definition' = call'[w].spec
                         /\ commits'[call'[w].seq].spec = call'[w].spec
    PROVE  CallInv(w)'
<1>1. call'[w].outcome = "none"
    BY DEF Prepared, Working
<1> QED
    BY <1>1 DEF CallInv, Fresh, Publishing, Tidy, Declared, Early, Working, Over, Asserted

\* A prepared call owns a new number, under which there is no file yet.
LEMMA PrepareSafe ==
    ASSUME SafetyInv, PublicationAssumption, NEW w \in Writers, PrepareCommit(w)
    PROVE  CallInv(w)' /\ call'[w].seq = Len(commits) + 1
<1> DEFINE c == call[w]
           d == call'[w]
           n == Len(commits) + 1
           row == [status |-> "prepared", spec |-> definition, delta |-> c.delta]
<1>0. /\ call \in [Writers -> Calls] /\ c \in Calls /\ CallInv(w) /\ TypeOK
      /\ commits \in Seq(Commits)
    BY SafetyFacts
<1>1. /\ d.pc = "write" /\ d.seq = n /\ d.todo = Months(c.delta) /\ d.delta = c.delta
      /\ d.outcome = c.outcome /\ d.flight = c.flight /\ d.writes = c.writes /\ d.spec = c.spec
    BY <1>0 DEF PrepareCommit, Calls, Months
<1>2. c.pc = "prepare" /\ UNCHANGED <<lease, active, definition, temps, files, segments, stray>>
    BY DEF PrepareCommit, At, others, storage
<1>3. c.outcome = "none" /\ c.flight = NoFlight /\ c.writes = {}
    BY <1>0, <1>2 DEF CallInv, Fresh, Early
<1>4. commits' = Append(commits, row) /\ n \in Seqs' /\ commits'[n] = row
    BY <1>0 DEF PrepareCommit, Seqs
<1>5. n \notin Seqs
    BY <1>0, CommitsTyped
<1>6. \A p \in Partitions : Own(w, p)' \notin AllFiles
    BY <1>1, <1>5, FilesOfSeq DEF Own
<1>7. Prepared(w)'
    BY <1>1, <1>3, <1>4 DEF Prepared
<1>8. Writing(w)'
    BY <1>0, <1>1, <1>2, <1>3, <1>6 DEF Writing, TypeOK, NoFlight
<1>9. lease' = w => active' /\ definition' = d.spec /\ commits'[d.seq].spec = d.spec
    BY <1>0, <1>1, <1>2, <1>4 DEF CallInv, Declared, Asserted
<1> QED  BY <1>1, <1>7, <1>8, <1>9, WriteKept

\* Submitted partitions are in flight.
LEMMA SubmitSafe ==
    ASSUME SafetyInv, NEW w \in Writers, SubmitBatch(w)
    PROVE  CallInv(w)' /\ call'[w].seq = call[w].seq
<1> DEFINE c == call[w]
           d == call'[w]
<1>0. /\ call \in [Writers -> Calls] /\ c \in Calls /\ CallInv(w) /\ c.seq \in Seqs
    BY SafetyFacts DEF CallInv, Prepared, Working, SubmitBatch, At
<1>1. PICK batch \in SUBSET c.todo :
          LET full == batch = c.todo \/ Cardinality(batch) = PartitionWorkers
          IN  call' = [call EXCEPT ![w].todo = @ \ batch,
                 ![w].failed = ~full,
                 ![w].pc = IF batch = {} THEN "rollback" ELSE @,
                 ![w].flight = [p \in Partitions |->
                                  IF p \in batch THEN "submitted" ELSE "none"]]
    BY DEF SubmitBatch
<1>2. /\ d.seq = c.seq /\ d.todo = c.todo \ batch /\ d.delta = c.delta /\ d.spec = c.spec
      /\ d.outcome = c.outcome /\ d.writes = c.writes
      /\ d.pc = IF batch = {} THEN "rollback" ELSE c.pc
      /\ d.flight = [p \in Partitions |-> IF p \in batch THEN "submitted" ELSE "none"]
    BY <1>0, <1>1 DEF Calls
<1>3. /\ c.pc = "write" /\ c.flight = NoFlight
      /\ UNCHANGED <<lease, active, definition, temps, files, segments, stray, commits>>
    BY DEF SubmitBatch, At, others, storage
<1>4. /\ \A p : Own(w, p)' = Own(w, p)
      /\ Seqs' = Seqs
    BY <1>2, <1>3 DEF Own, Seqs
<1>5. Prepared(w)'
    BY <1>0, <1>2, <1>3, <1>4 DEF CallInv, Prepared, Working
<1>6. \A p \in Partitions :
        /\ Own(w, p) \notin temps
        /\ Own(w, p) \in files => Own(w, p) \in c.writes \cup stray
        /\ p \in Months(c.delta) <=> p \in c.todo \/ Own(w, p) \in c.writes
    BY <1>0, <1>3 DEF CallInv, Writing, NoFlight
<1>7. c.writes \subseteq files \cap segments /\ c.todo \subseteq Partitions
    BY <1>0, <1>3 DEF CallInv, Writing, Calls
<1>8. CASE batch # {}
  <2>1. Writing(w)'
      BY <1>2, <1>3, <1>4, <1>6, <1>7, <1>8 DEF Writing, Months
  <2>2. lease' = w => active' /\ definition' = d.spec /\ commits'[d.seq].spec = d.spec
      BY <1>0, <1>2, <1>3 DEF CallInv, Declared, Asserted
  <2> QED  BY <1>2, <1>3, <1>5, <1>8, <2>1, <2>2, WriteKept
<1>9. CASE batch = {}
    BY <1>2, <1>3, <1>4, <1>5, <1>6, <1>9
       DEF CallInv, Fresh, Prepared, Writing, Publishing, Tidy, Declared, Early, Working, Over,
           Asserted
<1> QED  BY <1>2, <1>8, <1>9

\* A settled batch has its files, or is rolled back.
LEMMA SettleSafe ==
    ASSUME SafetyInv, NEW w \in Writers, SettleBatch(w)
    PROVE  CallInv(w)' /\ call'[w].seq = call[w].seq
<1> DEFINE c == call[w]
           d == call'[w]
           done == {p \in Partitions : c.flight[p] = "done"}
<1>0. /\ call \in [Writers -> Calls] /\ c \in Calls /\ CallInv(w) /\ c.pc = "write"
    BY SafetyFacts DEF SettleBatch, At
<1>1. PICK interrupted \in BOOLEAN :
          LET gone   == {p \in Partitions : call[w].flight[p] = "done"}
              failed == \/ call[w].failed \/ interrupted
                        \/ \E p \in Partitions : call[w].flight[p] = "lost"
          IN  call' = [call EXCEPT ![w].failed = failed, ![w].flight = NoFlight,
                 ![w].writes = @ \cup {File(call[w].seq, p) : p \in gone},
                 ![w].pc = CASE failed -> "rollback"
                             [] ~failed /\ call[w].todo = {} -> "publish"
                             [] OTHER -> "write"]
    BY DEF SettleBatch
<1> DEFINE failed == \/ c.failed \/ interrupted
                     \/ \E p \in Partitions : c.flight[p] = "lost"
           pc == CASE failed -> "rollback"
                   [] ~failed /\ c.todo = {} -> "publish"
                   [] OTHER -> "write"
<1>2. call' = [call EXCEPT ![w].failed = failed, ![w].flight = NoFlight,
                 ![w].writes = @ \cup {File(call[w].seq, p) : p \in done}, ![w].pc = pc]
    BY <1>1
<1>3. /\ pc \in {"rollback", "publish", "write"}
      /\ pc \in {"publish", "write"} => \A p \in Partitions : c.flight[p] # "lost"
      /\ pc = "publish" => c.todo = {}
    OBVIOUS
<1>4. /\ \A p \in Partitions : c.flight[p] \in {"none", "done", "lost"}
      /\ UNCHANGED <<lease, active, definition, temps, files, segments, stray, commits>>
    BY DEF SettleBatch, Settled, others, storage
<1> HIDE DEF failed, pc
<1>5. /\ d.seq = c.seq /\ d.todo = c.todo /\ d.delta = c.delta /\ d.spec = c.spec
      /\ d.outcome = c.outcome /\ d.flight = NoFlight /\ d.pc = pc
      /\ d.writes = c.writes \cup {Own(w, p) : p \in done}
    BY <1>0, <1>2 DEF Calls, Own
<1>6. \A p : Own(w, p)' = Own(w, p)
    BY <1>5 DEF Own
<1>7. Prepared(w)'
  <2>1. Seqs' = Seqs /\ Prepared(w)
      BY <1>0, <1>4 DEF Seqs, CallInv
  <2> QED  BY <1>0, <1>3, <1>4, <1>5, <1>6, <2>1 DEF Prepared, Working
<1>8. d.writes \subseteq files \cap segments
    BY <1>0, <1>5 DEF CallInv, Writing
<1>9. \A p, q \in Partitions : Own(w, p) = Own(w, q) => p = q
    BY FileNames DEF Own
<1>10. \A p \in Partitions :
        /\ Own(w, p) \notin temps
        /\ Own(w, p) \in files => Own(w, p) \in d.writes \cup stray
        /\ Own(w, p) \in d.writes <=> p \in done \/ Own(w, p) \in c.writes
    BY <1>0, <1>4, <1>5, <1>9 DEF CallInv, Writing
<1>11. ASSUME pc # "rollback", NEW p \in Partitions
       PROVE  p \in Months(c.delta) <=> p \in c.todo \/ Own(w, p) \in d.writes
  <2>1. c.flight[p] # "none" <=> p \in done
      BY <1>3, <1>4, <1>11
  <2> QED  BY <1>0, <1>10, <2>1 DEF CallInv, Writing
<1>12. lease' = w /\ d.pc # "rollback" => /\ active' /\ definition' = d.spec
                                          /\ commits'[d.seq].spec = d.spec
    BY <1>0, <1>4, <1>5 DEF CallInv, Declared, Asserted
<1>13. CASE pc = "write"
  <2>1. Writing(w)'
      BY <1>4, <1>5, <1>6, <1>8, <1>10, <1>11, <1>13 DEF Writing, Months, NoFlight
  <2> QED  BY <1>5, <1>7, <1>12, <1>13, <2>1, WriteKept
<1>14. CASE pc = "publish"
  <2>1. d.writes = {Own(w, p) : p \in Months(c.delta)}
    <3>1. \A f \in d.writes : \E p \in Partitions : f = Own(w, p)
        BY <1>5, <1>6, <1>7, <1>14 DEF Prepared, Working
    <3>2. Months(c.delta) \subseteq Partitions
        BY <1>0, PublicationAssumption, ContentsTyped DEF Months, Calls, PublicationAssumption
    <3> QED  BY <1>3, <1>11, <1>14, <3>1, <3>2
  <2>2. Publishing(w)'
      BY <1>4, <1>5, <1>6, <1>8, <2>1 DEF Publishing, Months
  <2> QED
      BY <1>4, <1>5, <1>6, <1>7, <1>10, <1>12, <1>14, <2>2
         DEF CallInv, Fresh, Prepared, Writing, Tidy, Declared, Early, Working, Over
<1>15. CASE pc = "rollback"
    BY <1>4, <1>5, <1>6, <1>7, <1>10, <1>15
       DEF CallInv, Fresh, Prepared, Writing, Publishing, Tidy, Declared, Early, Working, Over,
           Asserted
<1> QED  BY <1>3, <1>5, <1>13, <1>14, <1>15

\* A step of one thread, by what it does to the file of its partition.
Moved(w, p, to) ==
    LET f == Own(w, p)
    IN  /\ call[w].pc = "write" /\ call[w].flight[p] # "none" /\ to \in Phases \ {"none"}
        /\ call' = [call EXCEPT ![w].flight[p] = to]
        /\ UNCHANGED <<lease, active, definition, commits>>
        /\ segments \subseteq segments' /\ stray \subseteq stray' /\ files \subseteq files'
        /\ temps' \subseteq temps \cup {f} /\ files' \subseteq files \cup {f}
        /\ f \in temps' => to = "temporary"
        /\ to \in {"whole", "done"} => f \in files'
        /\ to = "done" => f \in segments'
        /\ f \in files' => to \in {"whole", "done"} \/ f \in call[w].writes \cup stray'

\* A task moves one file of its own call.
LEMMA MovedSafe ==
    ASSUME SafetyInv, NEW w \in Writers, NEW p \in Partitions, NEW to, Moved(w, p, to)
    PROVE  CallInv(w)' /\ call'[w].seq = call[w].seq
<1> DEFINE c == call[w]
           d == call'[w]
<1>0. /\ call \in [Writers -> Calls] /\ c \in Calls /\ Prepared(w) /\ Writing(w) /\ Declared(w)
      /\ c.pc = "write" /\ UNCHANGED <<lease, active, definition, commits>>
    BY SafetyFacts DEF CallInv, Moved
<1>1. /\ d.seq = c.seq /\ d.todo = c.todo /\ d.delta = c.delta /\ d.spec = c.spec /\ d.pc = c.pc
      /\ d.outcome = c.outcome /\ d.writes = c.writes
      /\ d.flight[p] = to /\ \A q \in Partitions \ {p} : d.flight[q] = c.flight[q]
    BY <1>0 DEF Calls, Moved
<1>2. /\ \A q : Own(w, q)' = Own(w, q)
      /\ Seqs' = Seqs
    BY <1>0, <1>1 DEF Own, Seqs
<1>3. Prepared(w)'
    BY <1>0, <1>1, <1>2 DEF Prepared, Working
<1>4. ASSUME NEW q \in Partitions
      PROVE  /\ Own(w, q) \in temps' => d.flight[q] = "temporary"
             /\ d.flight[q] \in {"whole", "done"} => Own(w, q) \in files'
             /\ d.flight[q] = "done" => Own(w, q) \in segments'
             /\ Own(w, q) \in files' => \/ d.flight[q] \in {"whole", "done"}
                                        \/ Own(w, q) \in d.writes \cup stray'
             /\ q \in Months(d.delta) <=> \/ q \in d.todo \/ d.flight[q] # "none"
                                          \/ Own(w, q) \in d.writes
  <2>1. CASE q = p
      BY <1>0, <1>1, <2>1 DEF Writing, Moved
  <2>2. CASE q # p
    <3>1. Own(w, q) # Own(w, p)
        BY <2>2, FileNames DEF Own
    <3> QED  BY <1>0, <1>1, <2>2, <3>1 DEF Writing, Moved
  <2> QED  BY <2>1, <2>2
<1>5. d.writes \subseteq files' \cap segments'
    BY <1>0, <1>1 DEF Writing, Moved
<1>6. Writing(w)'
    BY <1>2, <1>4, <1>5 DEF Writing, Months
<1>7. lease' = w => active' /\ definition' = d.spec /\ commits'[d.seq].spec = d.spec
    BY <1>0, <1>1 DEF Declared, Asserted
<1> QED  BY <1>0, <1>1, <1>3, <1>6, <1>7, WriteKept

\* So does every step of a task.
LEMMA TaskSafe ==
    ASSUME SafetyInv, NEW w \in Writers, NEW p \in Partitions, Task(w, p)
    PROVE  CallInv(w)' /\ call'[w].seq = call[w].seq
<1> DEFINE c == call[w]
<1>0. Writing(w) /\ c.pc = "write"
    BY SafetyFacts DEF CallInv, Task, WriteTemporary, ReplaceFile, WriteFails, RegisterSegment,
       RegisterFails, TaskMoves, At
<1>1. /\ Own(w, p) \in temps => c.flight[p] = "temporary"
      /\ c.flight[p] \in {"whole", "done"} => Own(w, p) \in files
      /\ c.flight[p] = "done" => Own(w, p) \in segments
      /\ Own(w, p) \in files => \/ c.flight[p] \in {"whole", "done"}
                                \/ Own(w, p) \in c.writes \cup stray
    BY <1>0 DEF Writing
<1>2. CASE WriteTemporary(w, p)
  <2>1. Moved(w, p, "temporary")
      BY <1>0, <1>1, <1>2 DEF WriteTemporary, TaskMoves, Moved, Phases, others, Own
  <2> QED  BY <2>1, MovedSafe
<1>3. CASE ReplaceFile(w, p)
  <2>1. Moved(w, p, "whole")
      BY <1>0, <1>1, <1>3 DEF ReplaceFile, TaskMoves, Moved, Phases, others, Own
  <2> QED  BY <2>1, MovedSafe
<1>4. CASE WriteFails(w, p)
  <2>1. Moved(w, p, "lost")
      BY <1>0, <1>1, <1>4 DEF WriteFails, TaskMoves, Moved, Phases, others, Own
  <2> QED  BY <2>1, MovedSafe
<1>5. CASE RegisterSegment(w, p)
  <2>1. Moved(w, p, "done")
      BY <1>0, <1>1, <1>5 DEF RegisterSegment, TaskMoves, Moved, Phases, others, Own
  <2> QED  BY <2>1, MovedSafe
<1>6. CASE RegisterFails(w, p)
  <2>1. Moved(w, p, "lost")
      BY <1>0, <1>1, <1>6 DEF RegisterFails, TaskMoves, Moved, Phases, others, storage, Own
  <2> QED  BY <2>1, MovedSafe
<1> QED  BY <1>2, <1>3, <1>4, <1>5, <1>6 DEF Task

-----------------------------------------------------------------------------
(* The end of the attempt                                                  *)

\* A published call registers what it wrote.
LEMMA PublishSafe ==
    ASSUME SafetyInv, NEW w \in Writers, Publish(w)
    PROVE  CallInv(w)' /\ call'[w].seq = call[w].seq
<1> DEFINE c == call[w]
           d == call'[w]
<1>0. /\ call \in [Writers -> Calls] /\ c \in Calls /\ CallInv(w) /\ c.pc = "publish"
      /\ lease = w /\ commits \in Seq(Commits)
    BY SafetyFacts DEF Publish, At, Fence
<1>1. /\ d.seq = c.seq /\ d.spec = c.spec /\ d.pc = "leave" /\ d.outcome = "committed"
    BY <1>0 DEF Publish, Calls
<1>2. /\ c.seq \in Seqs /\ commits[c.seq].spec = c.spec
      /\ \A p \in Partitions :
           Own(w, p) \notin temps /\ (Own(w, p) \in files => Own(w, p) \in c.writes \cup stray)
    BY <1>0 DEF CallInv, Prepared, Declared, Tidy, Working
<1>3. commits' = [commits EXCEPT ![c.seq].status = "committed"]
      /\ manifest' = manifest \cup c.writes /\ UNCHANGED <<temps, files, stray>>
    BY DEF Publish
<1>4. d.seq \in Seqs' /\ commits'[d.seq].status = "committed" /\ commits'[d.seq].spec = d.spec
    BY <1>0, <1>1, <1>2, <1>3, CommitsTyped DEF Seqs, Commits
<1>5. \A p : Own(w, p)' = Own(w, p)
    BY <1>1 DEF Own
<1> QED  BY <1>1, <1>2, <1>3, <1>4, <1>5, OverKept DEF Over

\* A rollback unlinks what it wrote, or lists it as stray.
LEMMA RollbackSafe ==
    ASSUME SafetyInv, NEW w \in Writers,
           PublishFails(w) \/ \E f \in call[w].writes : UnlinkWrite(w, f)
    PROVE  CallInv(w)' /\ call'[w].seq = call[w].seq
<1> DEFINE c == call[w]
           d == call'[w]
<1>0. /\ call \in [Writers -> Calls] /\ c \in Calls /\ CallInv(w)
    BY SafetyFacts
<1>1. ASSUME PublishFails(w)
      PROVE  /\ c.pc = "publish" /\ d.pc = "rollback" /\ d.seq = c.seq /\ d.spec = c.spec
             /\ d.delta = c.delta /\ d.outcome = c.outcome /\ d.writes = c.writes
             /\ UNCHANGED <<commits, temps, files, stray>>
    BY <1>0, <1>1 DEF PublishFails, At, Calls, storage
<1>2. ASSUME NEW f \in c.writes, UnlinkWrite(w, f)
      PROVE  /\ c.pc = "rollback" /\ d.pc = "rollback" /\ d.seq = c.seq /\ d.spec = c.spec
             /\ d.delta = c.delta /\ d.outcome = c.outcome /\ d.writes = c.writes \ {f}
             /\ UNCHANGED <<commits, temps>>
             /\ \/ files' = files \ {f} /\ stray' = stray
                \/ stray' = stray \cup {f} /\ files' = files
    BY <1>0, <1>2 DEF UnlinkWrite, At, Calls
<1>3. /\ c.pc \in {"publish", "rollback"} /\ d.pc = "rollback" /\ d.seq = c.seq
      /\ d.spec = c.spec /\ d.delta = c.delta /\ d.outcome = c.outcome
      /\ d.writes \subseteq c.writes /\ UNCHANGED <<commits, temps>>
    BY <1>1, <1>2
<1>4. \A p \in Partitions : Own(w, p) \in files' => Own(w, p) \in d.writes \cup stray'
  <2>1. \A p \in Partitions : Own(w, p) \in files => Own(w, p) \in c.writes \cup stray
      BY <1>0, <1>3 DEF CallInv, Tidy
  <2>2. CASE PublishFails(w)
      BY <1>1, <2>1, <2>2
  <2>3. ASSUME NEW f \in c.writes, UnlinkWrite(w, f)
        PROVE  \A p \in Partitions : Own(w, p) \in files' => Own(w, p) \in d.writes \cup stray'
      BY <1>2, <2>1, <2>3
  <2> QED  BY <2>2, <2>3
<1>5. /\ \A p : Own(w, p)' = Own(w, p)
      /\ Seqs' = Seqs
    BY <1>3 DEF Own, Seqs
<1>6. Prepared(w)'
    BY <1>0, <1>3, <1>5 DEF CallInv, Prepared, Working
<1>7. \A p \in Partitions : Own(w, p) \notin temps
    BY <1>0, <1>3 DEF CallInv, Tidy
<1> QED
    BY <1>3, <1>4, <1>5, <1>6, <1>7
       DEF CallInv, Fresh, Prepared, Writing, Publishing, Tidy, Declared, Early, Working, Over,
           Asserted

-----------------------------------------------------------------------------
(* Every step                                                              *)

\* What a writer, its threads or its end do.
Acts(w) == \/ Inside(w) \/ RecordCheck(w) \/ Die(w) \/ PrepareCommit(w) \/ Publish(w)
           \/ \E p \in Partitions : Task(w, p)
           \/ \E f \in call[w].writes : UnlinkWrite(w, f)

\* Reads, checks and ends leave the versions and the files alone.
LEMMA QuietTables ==
    ASSUME NEW w \in Writers, Inside(w) \/ RecordCheck(w) \/ Die(w)
    PROVE  UNCHANGED <<commits, segments, manifest, temps, files, stray>>
BY DEF Inside, RecordCheck, Die, Declare, EnterUpdate, DatasetWriter, Refused, AssertDefinition,
   ReadParent, ReadHash, Compare, CheckFails, SubmitBatch, SettleBatch, PublishFails, RolledBack,
   LeaveWriter, CloseUpdate, storage

\* A writer's steps leave the frames of the others and the declaration alone.
LEMMA FrameOf ==
    ASSUME SafetyInv, NEW w \in Writers, Acts(w)
    PROVE  /\ \A v \in Writers \ {w} : call'[v] = call[v]
           /\ lease' \in {lease, w, NoWriter} /\ UNCHANGED <<definition, active>>
<1>0. call \in [Writers -> Calls]
    BY SafetyFacts
<1>1. CASE Inside(w)
  <2>1. lease' \in {lease, w, NoWriter} /\ UNCHANGED <<definition, active>>
      BY <1>1 DEF Inside, Declare, EnterUpdate, DatasetWriter, Refused, AssertDefinition,
         ReadParent, ReadHash, Compare, CheckFails, SubmitBatch, SettleBatch, PublishFails,
         RolledBack, LeaveWriter, CloseUpdate, Released, others, exceptLease
  <2> QED  BY <1>1, <2>1, SafetyFacts, InsideNumbered
<1>2. CASE RecordCheck(w)
    BY <1>0, <1>2 DEF RecordCheck, others
<1>3. CASE Die(w)
    BY <1>0, <1>3 DEF Die, Forget
<1>4. CASE PrepareCommit(w)
    BY <1>0, <1>4 DEF PrepareCommit, others
<1>5. CASE Publish(w)
    BY <1>0, <1>5 DEF Publish, others
<1>6. CASE \E p \in Partitions : Task(w, p)
    BY <1>0, <1>6 DEF Task, WriteTemporary, ReplaceFile, WriteFails, RegisterSegment,
       RegisterFails, TaskMoves, others
<1>7. CASE \E f \in call[w].writes : UnlinkWrite(w, f)
    BY <1>0, <1>7 DEF UnlinkWrite, others
<1> QED  BY <1>1, <1>2, <1>3, <1>4, <1>5, <1>6, <1>7 DEF Acts

\* The writer that moves keeps its invariant and, but for PrepareCommit, its number.
LEMMA MoverSafe ==
    ASSUME SafetyInv, NEW w \in Writers, Acts(w)
    PROVE  /\ CallInv(w)'
           /\ \/ PrepareCommit(w) /\ call'[w].seq = Len(commits) + 1
              \/ call'[w].seq = call[w].seq
<1>1. CASE \/ \E frame \in Frames : Declare(w, frame)
           \/ EnterUpdate(w) \/ DatasetWriter(w) \/ ReadParent(w) \/ ReadHash(w) \/ Compare(w)
           \/ AssertDefinition(w) /\ call'[w].pc = "parent"
    BY <1>1, EarlySafe
<1>2. CASE \/ Refused(w) \/ CheckFails(w) \/ RecordCheck(w) \/ RolledBack(w)
           \/ AssertDefinition(w) /\ call'[w].pc = "leave"
           \/ LeaveWriter(w) \/ CloseUpdate(w) \/ Die(w)
    BY <1>2, OverSafe
<1>3. AssertDefinition(w) => call'[w].pc \in {"parent", "leave"}
  <2>1. call \in [Writers -> Calls] /\ call[w] \in Calls
      BY SafetyFacts
  <2> QED  BY <2>1 DEF AssertDefinition, Goto, Raise, Calls
<1>4. CASE PrepareCommit(w)  BY <1>4, PrepareSafe, PublicationAssumption
<1>5. CASE SubmitBatch(w)  BY <1>5, SubmitSafe
<1>6. CASE SettleBatch(w)  BY <1>6, SettleSafe
<1>7. CASE \E p \in Partitions : Task(w, p)  BY <1>7, TaskSafe
<1>8. CASE Publish(w)  BY <1>8, PublishSafe
<1>9. CASE PublishFails(w) \/ \E f \in call[w].writes : UnlinkWrite(w, f)  BY <1>9, RollbackSafe
<1> QED
    BY <1>1, <1>2, <1>3, <1>4, <1>5, <1>6, <1>7, <1>8, <1>9 DEF Acts, Inside

\* What one writer's step does to another: nothing.
LEMMA OtherSafe ==
    ASSUME SafetyInv, NEW w \in Writers, Acts(w), NEW v \in Writers, v # w
    PROVE  CallInv(v)'
<1>0. /\ call'[v] = call[v] /\ UNCHANGED <<definition, active>>
      /\ lease' = v => lease = v
    BY FrameOf, PublicationAssumption DEF PublicationAssumption
<1>1. commits \in Seq(Commits) /\ Numbered
    BY SafetyFacts
<1>2. /\ Seqs \subseteq Seqs' /\ manifest \subseteq manifest' /\ segments \subseteq segments'
      /\ stray \subseteq stray'
      /\ call[v].seq \in Seqs => commits'[call[v].seq] = commits[call[v].seq]
      /\ \A p \in Partitions : /\ Own(v, p) \in temps' => Own(v, p) \in temps
                               /\ Own(v, p) \in files' <=> Own(v, p) \in files
  <2>1. CASE Inside(w) \/ RecordCheck(w) \/ Die(w)
      BY <2>1, QuietTables DEF Seqs
  <2>2. CASE PrepareCommit(w)
      BY <1>1, <2>2 DEF PrepareCommit, storage, Seqs
  <2>3. CASE Publish(w)
    <3>1. /\ call[w].seq \in Seqs /\ commits' = [commits EXCEPT ![call[w].seq].status = "committed"]
          /\ manifest \subseteq manifest' /\ UNCHANGED <<segments, stray, temps, files>>
        BY <1>1, <2>3 DEF Publish, At, Numbered
    <3>2. call[v].seq # call[w].seq
      <4>1. call[w].seq # 0
          BY <1>1, <3>1, CommitsTyped
      <4> QED  BY <4>1, SafetyFacts DEF OwnNumber
    <3> QED  BY <1>1, <3>1, <3>2 DEF Seqs
  <2>4. ASSUME NEW p \in Partitions, Task(w, p)
        PROVE  /\ UNCHANGED <<commits, manifest>>
               /\ segments \subseteq segments' /\ stray \subseteq stray'
               /\ temps' \subseteq temps \cup {Own(w, p)}
               /\ files \subseteq files' /\ files' \subseteq files \cup {Own(w, p)}
               /\ call[w].seq \in Seqs
      BY <1>1, <2>4 DEF Task, WriteTemporary, ReplaceFile, WriteFails, RegisterSegment,
         RegisterFails, TaskMoves, At, Own, Numbered, storage
  <2>5. ASSUME NEW f \in call[w].writes, UnlinkWrite(w, f)
        PROVE  /\ UNCHANGED <<commits, manifest, segments, temps>> /\ stray \subseteq stray'
               /\ files' \subseteq files /\ files \subseteq files' \cup {f}
               /\ call[w].seq \in Seqs /\ \E p \in Partitions : f = Own(w, p)
    <3>1. call[w].pc = "rollback" /\ Prepared(w)
        BY <2>5, SafetyFacts DEF UnlinkWrite, At, CallInv
    <3> QED  BY <2>5, <3>1 DEF UnlinkWrite, Prepared, Working
  <2>6. call[w].seq \in Seqs => \A p, q : Own(v, p) # Own(w, q)
      BY OtherFiles
  <2>7. CASE \E p \in Partitions : Task(w, p)
      BY <2>4, <2>6, <2>7 DEF Seqs
  <2>8. CASE \E f \in call[w].writes : UnlinkWrite(w, f)
      BY <2>5, <2>6, <2>8 DEF Seqs
  <2> QED  BY <2>1, <2>2, <2>3, <2>7, <2>8 DEF Acts
<1> QED  BY <1>0, <1>2, OtherKept

\* Nor do callers that declare, remove, recover or clean up disturb a call.
LEMMA EnvironmentSafe ==
    ASSUME SafetyInv, Environment, NEW v \in Writers
    PROVE  CallInv(v)'
<1>1. UNCHANGED <<commits, segments, manifest, files, call, stray>> /\ temps' \subseteq temps
    BY DEF Environment, AbandonOwner, Register, Remove, Declaration, CleanupTemporary, others,
       storage
<1>2. lease' = v => lease = v /\ UNCHANGED <<active, definition>>
    BY PublicationAssumption DEF PublicationAssumption, Environment, AbandonOwner, Register,
       Remove, Declaration, CleanupTemporary, others
<1>3. Seqs' = Seqs
    BY <1>1 DEF Seqs
<1> QED  BY <1>1, <1>2, <1>3, OtherKept

\* Numbers stay different: a new one is the next of the table.
LEMMA NumberSafe ==
    ASSUME SafetyInv, NEW w \in Writers, Acts(w)
    PROVE  OwnNumber'
<1>1. \A v \in Writers \ {w} : call'[v] = call[v]
    BY FrameOf
<1>2. \/ call'[w].seq = Len(commits) + 1
      \/ call'[w].seq = call[w].seq
    BY MoverSafe
<1>3. \A v \in Writers : call[v].seq \in 0 .. Len(commits)
    BY SafetyFacts, CommitsTyped DEF Calls
<1>4. Len(commits) \in Nat /\ OwnNumber
    BY SafetyFacts, CommitsTyped
<1> QED  BY <1>1, <1>2, <1>3, <1>4 DEF OwnNumber

-----------------------------------------------------------------------------
(* What is visible is whole                                                *)

FilesOf(s) == {File(s, Month[k]) : k \in DOMAIN commits[s].delta}

\* Readers see whole versions while what they see stays as it is.
LEMMA WholeKept ==
    ASSUME VisibleIsWhole, Committed' = Committed, manifest' = manifest,
           \A s \in Committed : commits'[s].delta = commits[s].delta,
           manifest \subseteq files' \cap segments'
    PROVE  VisibleIsWhole'
<1>1. \A s \in Committed : FilesOf(s)' = FilesOf(s)
    BY DEF FilesOf
<1>2. UNION {FilesOf(s) : s \in Committed}' = UNION {FilesOf(s) : s \in Committed}
    BY <1>1
<1> QED  BY <1>2 DEF VisibleIsWhole, FilesOf

\* A file of a commit that is not visible is not visible.
LEMMA HiddenFiles ==
    ASSUME VisibleIsWhole, NEW s, s \notin Committed, NEW p
    PROVE  File(s, p) \notin manifest
BY FileNames DEF VisibleIsWhole

\* Every step of a call keeps what readers see whole.
LEMMA VisibleSafe ==
    ASSUME SafetyInv, NEW w \in Writers, Acts(w)
    PROVE  VisibleIsWhole'
<1>0. /\ VisibleIsWhole /\ Numbered /\ CallInv(w) /\ commits \in Seq(Commits)
      /\ manifest \subseteq files \cap segments
    BY SafetyFacts DEF VisibleIsWhole
<1>1. CASE Inside(w) \/ RecordCheck(w) \/ Die(w) \/ \E p \in Partitions : Task(w, p)
  <2>1. UNCHANGED <<commits, manifest>> /\ files \subseteq files' /\ segments \subseteq segments'
    <3>1. CASE Inside(w) \/ RecordCheck(w) \/ Die(w)
        BY <3>1, QuietTables
    <3>2. CASE \E p \in Partitions : Task(w, p)
        BY <3>2 DEF Task, WriteTemporary, ReplaceFile, WriteFails, RegisterSegment,
           RegisterFails, storage
    <3> QED  BY <1>1, <3>1, <3>2
  <2> QED  BY <1>0, <2>1, WholeKept DEF Committed
<1>2. CASE PrepareCommit(w)
  <2> DEFINE row == [status |-> "prepared", spec |-> definition, delta |-> call[w].delta]
  <2>1. commits' = Append(commits, row) /\ UNCHANGED <<manifest, files, segments>>
      BY <1>2 DEF PrepareCommit, storage
  <2>2. /\ Seqs' = Seqs \cup {Len(commits) + 1} /\ commits'[Len(commits) + 1] = row
        /\ \A s \in Seqs : commits'[s] = commits[s]
      BY <1>0, <2>1 DEF Seqs
  <2>3. Committed' = Committed /\ \A s \in Committed : commits'[s] = commits[s]
      BY <2>2 DEF Committed, Seqs
  <2> QED  BY <1>0, <2>1, <2>3, WholeKept
<1>3. CASE Publish(w)
  <2> DEFINE s == call[w].seq
  <2>1. /\ s \in Seqs /\ commits[s].delta = call[w].delta
        /\ call[w].writes = {Own(w, p) : p \in Months(call[w].delta)}
        /\ call[w].writes \subseteq files \cap segments
      BY <1>0, <1>3 DEF Publish, At, CallInv, Prepared, Publishing, Working
  <2>2. commits' = [commits EXCEPT ![s].status = "committed"]
        /\ manifest' = manifest \cup call[w].writes /\ UNCHANGED <<files, segments>>
      BY <1>3 DEF Publish
  <2>3. /\ Seqs' = Seqs /\ commits'[s].status = "committed" /\ commits'[s].delta = commits[s].delta
        /\ \A t \in Seqs \ {s} : commits'[t] = commits[t]
      BY <1>0, <2>1, <2>2, CommitsTyped DEF Seqs, Commits
  <2>4. Committed' = Committed \cup {s} /\ \A t \in Committed' : commits'[t].delta = commits[t].delta
      BY <2>1, <2>3 DEF Committed, Seqs
  <2>5. call[w].writes = FilesOf(s)
      BY <2>1 DEF FilesOf, Own, Months
  <2>6. \A t \in Committed' : FilesOf(t)' = FilesOf(t)
      BY <2>4 DEF FilesOf
  <2>7. manifest = UNION {FilesOf(t) : t \in Committed}
      BY <1>0 DEF VisibleIsWhole, FilesOf
  <2>8. manifest' = UNION {FilesOf(t)' : t \in Committed'}
      BY <2>2, <2>4, <2>5, <2>6, <2>7
  <2> QED  BY <1>0, <2>1, <2>2, <2>8 DEF VisibleIsWhole, FilesOf
<1>4. CASE \E f \in call[w].writes : UnlinkWrite(w, f)
  <2>1. PICK f \in call[w].writes : UnlinkWrite(w, f)
      BY <1>4
  <2>2. UNCHANGED <<commits, manifest, segments>> /\ files \ {f} \subseteq files'
      BY <2>1 DEF UnlinkWrite
  <2>3. f \notin manifest
    <3>1. call[w].seq \notin Committed /\ \E p \in Partitions : f = Own(w, p)
        BY <1>0, <2>1 DEF UnlinkWrite, At, CallInv, Prepared, Working, Committed
    <3> QED  BY <1>0, <3>1, HiddenFiles DEF Own
  <2> QED  BY <1>0, <2>2, <2>3, WholeKept DEF Committed
<1> QED  BY <1>1, <1>2, <1>3, <1>4 DEF Acts

-----------------------------------------------------------------------------
(* The theorems                                                            *)

\* The empty store satisfies the invariant.
LEMMA InitSafe == Init => SafetyInv
<1> SUFFICES ASSUME Init PROVE SafetyInv
    OBVIOUS
<1>1. TypeInv
    BY InitTyped, PublicationAssumption DEF TypeInv, Numbered, Init, NewCall
<1>2. \A w \in Writers : call[w] = NewCall
    BY DEF Init
<1>3. OwnNumber
    BY <1>2 DEF OwnNumber, NewCall
<1>4. \A w \in Writers : CallInv(w)
    BY <1>2 DEF NewCall, CallInv, Fresh, Prepared, Writing, Publishing, Tidy, Declared, Early,
       Working, Over, Asserted
<1>5. VisibleIsWhole
  <2>1. PICK frame \in Earlier : FirstVersion(frame)
      BY DEF Init
  <2>2. manifest = files /\ manifest = segments
      BY DEF Init
  <2>3. CASE frame = EmptyRows
    <3>1. commits = << >> /\ manifest = {} /\ Committed = {}
        BY <2>1, <2>3 DEF FirstVersion, EmptyRows, Committed
    <3> QED  BY <2>2, <3>1 DEF VisibleIsWhole
  <2>4. CASE frame # EmptyRows
    <3>1. commits = <<[status |-> "committed", spec |-> FirstDefinition, delta |-> frame]>>
        BY <2>1, <2>4 DEF FirstVersion
    <3>2. Committed = {1} /\ commits[1].delta = frame
        BY <3>1 DEF Committed
    <3>3. manifest = {File(1, Month[k]) : k \in DOMAIN frame}
        BY <2>1 DEF FirstVersion
    <3> QED  BY <2>2, <3>2, <3>3 DEF VisibleIsWhole
  <2> QED  BY <2>3, <2>4
<1> QED  BY <1>1, <1>3, <1>4, <1>5 DEF SafetyInv

\* Every step keeps it.
LEMMA StepSafe == ASSUME SafetyInv, [Next]_vars PROVE SafetyInv'
<1>1. TypeInv'
    BY SafetyFacts, StepTypeInv, PublicationAssumption
<1>2. CASE UNCHANGED vars
  <2>1. VisibleIsWhole' /\ OwnNumber'
      BY <1>2, SafetyFacts DEF vars, VisibleIsWhole, OwnNumber, Committed
  <2>2. \A w \in Writers : CallInv(w)'
      BY <1>2, SafetyFacts DEF vars, CallInv, Fresh, Prepared, Writing, Publishing, Tidy, Declared,
         Own, Seqs
  <2> QED  BY <1>1, <2>1, <2>2 DEF SafetyInv
<1>3. CASE Environment
  <2>1. UNCHANGED <<commits, manifest, files, segments, call>>
      BY <1>3 DEF Environment, AbandonOwner, Register, Remove, Declaration, CleanupTemporary,
         others, storage
  <2>2. VisibleIsWhole' /\ OwnNumber'
      BY <2>1, SafetyFacts DEF VisibleIsWhole, OwnNumber, Committed
  <2> QED  BY <1>1, <1>3, <2>2, EnvironmentSafe DEF SafetyInv
<1>4. ASSUME NEW w \in Writers, Acts(w) PROVE SafetyInv'
  <2>1. \A v \in Writers : CallInv(v)'
      BY <1>4, MoverSafe, OtherSafe
  <2> QED  BY <1>1, <1>4, <2>1, NumberSafe, VisibleSafe DEF SafetyInv
<1> QED  BY <1>2, <1>3, <1>4, StepsOf DEF Acts

\* The strengthening that the properties below are read from.
THEOREM Safe == Spec => []SafetyInv
<1>1. Init => SafetyInv
    BY InitSafe
<1>2. SafetyInv /\ [Next]_vars => SafetyInv'
    BY StepSafe
<1> QED  BY <1>1, <1>2, PTL DEF Spec

\* Whoever fails, dies or is abandoned, and whenever: what readers see is
\* exactly the registered files of the committed versions, all of them on disk
\* (commit_dataset_metadata publishes after every _write_version_partition).
THEOREM Whole == Spec => []VisibleIsWhole
<1>1. SafetyInv => VisibleIsWhole
    BY DEF SafetyInv
<1> QED  BY <1>1, Safe, PTL

\* A call that ended without dying leaves no file but those of a visible
\* version and those whose registration or removal failed: every submitted
\* thread has settled before rollback_partition_writes looks at its files.
THEOREM Clean == Spec => []NothingLeftBehind
<1>1. SafetyInv => NothingLeftBehind
    BY DEF SafetyInv, CallInv, Tidy, Over, Own, NothingLeftBehind, At
<1> QED  BY <1>1, Safe, PTL

\* A visible version carries the definition its response was requested under,
\* although the declaration is read before the lease is taken
\* (assert_definition under the lease, assert_dataset_parent in the transaction).
THEOREM Owned == Spec => []OwnDefinition
<1>1. SafetyInv => OwnDefinition
    BY DEF SafetyInv, CallInv, Declared, OwnDefinition
<1> QED  BY <1>1, Safe, PTL

-----------------------------------------------------------------------------
(* The list of visible versions                                            *)

\* The visible versions in the order of their numbers.
History == [i \in 1 .. Cardinality(Committed) |-> commits[Nth(i)].delta]

\* There are finitely many committed versions.
LEMMA CommittedFacts ==
    ASSUME SafetyInv
    PROVE  /\ Committed \in SUBSET (1 .. Len(commits)) /\ Len(commits) \in Nat
           /\ IsFiniteSet(Committed) /\ Cardinality(Committed) \in Nat
           /\ \A s \in Committed : commits[s] \in Commits
<1>1. Committed \in SUBSET (1 .. Len(commits)) /\ Len(commits) \in Nat
      /\ \A s \in Committed : commits[s] \in Commits
    BY SafetyFacts, CommitsTyped DEF Committed
<1> QED  BY <1>1, FinitePart

\* There is an i-th committed version for every number of them.
LEMMA NthCommitted ==
    ASSUME SafetyInv, NEW i \in 1 .. Cardinality(Committed)
    PROVE  Nth(i) \in Committed
<1>1. \E s \in Committed : Cardinality({t \in Committed : t <= s}) = i
    BY CommittedFacts, RankExists
<1> QED  BY <1>1 DEF Nth

\* A reader finds every row of a visible version.
LEMMA ReadWhole ==
    ASSUME SafetyInv, NEW s \in Committed PROVE Readable(s) = commits[s].delta
<1>1. \A k \in DOMAIN commits[s].delta : File(s, Month[k]) \in manifest \cap files
    BY SafetyFacts DEF VisibleIsWhole
<1>2. commits[s].delta \in [DOMAIN commits[s].delta -> Values]
    BY CommittedFacts, ContentsTyped DEF Commits
<1> QED  BY <1>1, <1>2 DEF Readable

\* What readers see is the history of committed contents.
LEMMA VisibleIsHistory == SafetyInv => VisibleHistory = History
BY NthCommitted, ReadWhole DEF VisibleHistory, History

\* The history has one content for each committed version.
LEMMA HistoryTyped ==
    SafetyInv => History \in Seq(Contents) /\ Len(History) = Cardinality(Committed)
<1> SUFFICES ASSUME SafetyInv PROVE History \in Seq(Contents) /\ Len(History) = Cardinality(Committed)
    OBVIOUS
<1>1. History \in [1 .. Cardinality(Committed) -> Contents]
    BY NthCommitted, CommittedFacts DEF History, Commits
<1> QED  BY <1>1, CommittedFacts, SeqDef

\* What does not touch a visible version leaves the list as it is.
LEMMA HistoryKept ==
    ASSUME SafetyInv, Committed' = Committed,
           \A s \in Committed : commits'[s].delta = commits[s].delta
    PROVE  History' = History
<1>1. \A i : Nth(i)' = Nth(i)
    BY Zenon DEF Nth
<1>2. \A i \in 1 .. Cardinality(Committed) : commits'[Nth(i)].delta = commits[Nth(i)].delta
    BY NthCommitted
<1> QED  BY <1>1, <1>2 DEF History

\* A version above all visible ones becomes the last of the list.
LEMMA HistoryGrows ==
    ASSUME SafetyInv, NEW n, n = Cardinality(Committed),
           NEW s \in Seqs, Committed' = Committed \cup {s}, \A t \in Committed : t < s,
           \A t \in Committed' : commits'[t].delta = commits[t].delta
    PROVE  /\ Cardinality(Committed') = n + 1
           /\ \A i \in 1 .. n : Nth(i)' = Nth(i)
           /\ Nth(n + 1)' = s
           /\ History' = Append(History, commits[s].delta)
<1> DEFINE Below(x) == {t \in Committed : t <= x}
           NewBelow(x) == {t \in Committed' : t <= x}
<1>0. /\ IsFiniteSet(Committed) /\ n \in Nat /\ s \in Nat /\ s \notin Committed
      /\ \A t \in Committed : t \in Nat
  <2>1. IsFiniteSet(Committed) /\ n \in Nat /\ Committed \in SUBSET Seqs
      BY CommittedFacts DEF Committed, Seqs
  <2>2. \A t \in Seqs : t \in Nat
      BY SafetyFacts, CommitsTyped
  <2>3. s \notin Committed
      BY <2>2
  <2> QED  BY <2>1, <2>2, <2>3
<1>1. Cardinality(Committed') = n + 1
    BY <1>0, FS_AddElement
<1>2. \A x \in Committed : NewBelow(x) = Below(x)
    BY <1>0
<1>3. NewBelow(s) = Committed'
    BY <1>0
<1>4. \A x : Cardinality(Below(x)) \in Nat /\ Cardinality(Below(x)) <= n
    BY <1>0, FS_Subset, FS_CardinalityType
<1>5. /\ \A i : Nth(i) = CHOOSE x \in Committed : Cardinality(Below(x)) = i
      /\ \A i : Nth(i)' = CHOOSE x \in Committed' : Cardinality(NewBelow(x)) = i
    BY DEF Nth
<1> HIDE DEF Below, NewBelow
<1>6. Cardinality(NewBelow(s)) = n + 1
    BY <1>1, <1>3
<1>7. ASSUME NEW i \in 1 .. n PROVE Nth(i)' = Nth(i)
  <2>1. i # n + 1
      BY <1>0
  <2>2. \A x : x \in Committed' /\ Cardinality(NewBelow(x)) = i
                 <=> x \in Committed /\ Cardinality(Below(x)) = i
      BY <1>2, <1>6, <2>1
  <2> QED  BY <1>5, <2>2, Zenon
<1>8. Nth(n + 1)' = s
  <2>1. s \in Committed'
      OBVIOUS
  <2>2. ASSUME NEW x \in Committed', Cardinality(NewBelow(x)) = n + 1 PROVE x = s
    <3>1. x \notin Committed
        BY <1>0, <1>2, <1>4, <2>2
    <3> QED  BY <3>1
  <2> QED  BY <1>5, <1>6, <2>1, <2>2
<1>9. History' = Append(History, commits[s].delta)
  <2>1. History \in Seq(Contents) /\ Len(History) = n /\ commits[s].delta \in Contents
      BY HistoryTyped, SafetyFacts, CommitsTyped DEF Commits
  <2>2. History = [i \in 1 .. n |-> commits[Nth(i)].delta]
      BY DEF History
  <2>3. History' = [i \in 1 .. n + 1 |-> commits'[Nth(i)'].delta]
      BY <1>1 DEF History
  <2>4. ASSUME NEW i \in 1 .. n + 1
        PROVE  commits'[Nth(i)'].delta = IF i = n + 1 THEN commits[s].delta ELSE History[i]
    <3>1. CASE i = n + 1
        BY <1>8, <3>1
    <3>2. CASE i # n + 1
      <4>1. i \in 1 .. n /\ Nth(i)' = Nth(i)
          BY <1>0, <1>7, <3>2
      <4>2. commits'[Nth(i)].delta = commits[Nth(i)].delta
          BY <4>1, NthCommitted
      <4> QED  BY <2>2, <3>2, <4>1, <4>2
    <3> QED  BY <3>1, <3>2
  <2>5. History' = [i \in 1 .. n + 1 |-> IF i = n + 1 THEN commits[s].delta ELSE History[i]]
      BY <2>3, <2>4
  <2> QED  BY <1>0, <2>1, <2>5
<1> QED  BY <1>1, <1>7, <1>8, <1>9

-----------------------------------------------------------------------------
(* What was compared is still so when it is published                      *)

Responded == {"declared", "entered", "assert", "parent", "hash", "compare"}
Compared  == {"check", "prepare", "write", "publish"}

Old(w) == IF call[w].parent = {} THEN EmptyRows ELSE Latest(History)

\* While a call holds the lease, its difference is the one to the content now,
\* and its number is above every visible one.
PlanInv(w) ==
    /\ call[w].pc \in Responded \cup Compared => call[w].frame \in Frames
    /\ call[w].pc \in Compared => (DOMAIN call[w].delta = {} <=> call[w].pc = "check")
    /\ lease = w /\ call[w].pc \in Compared => call[w].delta = Changes(Old(w), call[w].frame)
    /\ lease = w /\ call[w].pc \in {"write", "publish"} =>
          \A s \in Committed : s < call[w].seq

\* A visible version changed something; a check names a visible version.
PromiseInv == /\ SafetyInv
              /\ \A s \in Committed : DOMAIN commits[s].delta # {}
              /\ \A i \in DOMAIN checks : checks[i].upto \in {0} \cup Committed
              /\ \A w \in Writers : PlanInv(w)

\* The shapes and the parts of the invariant that the steps use.
LEMMA PromiseFacts ==
    ASSUME PromiseInv
    PROVE  /\ SafetyInv /\ call \in [Writers -> Calls]
           /\ \A w \in Writers : PlanInv(w) /\ CallInv(w) /\ call[w] \in Calls
BY SafetyFacts DEF PromiseInv

\* Everything but a publication leaves the visible versions alone.
LEMMA VersionsKept ==
    ASSUME SafetyInv,
           \/ UNCHANGED vars \/ Environment
           \/ \E w \in Writers : Acts(w) /\ ~Publish(w)
    PROVE  /\ Committed' = Committed /\ \A s \in Committed : commits'[s].delta = commits[s].delta
           /\ History' = History
<1>1. CASE UNCHANGED commits
    BY <1>1, HistoryKept DEF Committed
<1>2. ASSUME NEW w \in Writers, PrepareCommit(w)
      PROVE  Committed' = Committed /\ \A s \in Committed : commits'[s] = commits[s]
  <2> DEFINE row == [status |-> "prepared", spec |-> definition, delta |-> call[w].delta]
  <2>1. commits \in Seq(Commits) /\ commits' = Append(commits, row)
      BY <1>2, SafetyFacts DEF PrepareCommit
  <2>2. /\ Seqs' = Seqs \cup {Len(commits) + 1} /\ commits'[Len(commits) + 1] = row
        /\ \A s \in Seqs : commits'[s] = commits[s]
      BY <2>1 DEF Seqs
  <2> QED  BY <2>2 DEF Committed, Seqs
<1>3. UNCHANGED commits \/ \E w \in Writers : PrepareCommit(w)
  <2>1. CASE UNCHANGED vars \/ Environment
      BY <2>1 DEF vars, Environment, AbandonOwner, Register, Remove, Declaration, CleanupTemporary
  <2>2. ASSUME NEW w \in Writers, Acts(w), ~Publish(w)
        PROVE  UNCHANGED commits \/ PrepareCommit(w)
    <3>1. CASE Inside(w) \/ RecordCheck(w) \/ Die(w)
        BY <3>1, QuietTables
    <3>2. CASE \E p \in Partitions : Task(w, p)
        BY <3>2 DEF Task, WriteTemporary, ReplaceFile, WriteFails, RegisterSegment, RegisterFails
    <3>3. CASE \E f \in call[w].writes : UnlinkWrite(w, f)
        BY <3>3 DEF UnlinkWrite
    <3> QED  BY <2>2, <3>1, <3>2, <3>3 DEF Acts
  <2> QED  BY <2>1, <2>2
<1> QED  BY <1>1, <1>2, <1>3, HistoryKept

\* A publication appends the difference that was compared.
LEMMA PublishGrows ==
    ASSUME PromiseInv, NEW w \in Writers, Publish(w), NEW n, n = Cardinality(Committed)
    PROVE  /\ Committed' = Committed \cup {call[w].seq}
           /\ \A t \in Committed : t < call[w].seq
           /\ \A t \in Committed' : commits'[t].delta = commits[t].delta
           /\ commits[call[w].seq].delta = call[w].delta /\ DOMAIN call[w].delta # {}
           /\ Cardinality(Committed') = n + 1
           /\ \A i \in 1 .. n : Nth(i)' = Nth(i)
           /\ History' = Append(History, call[w].delta)
<1> DEFINE s == call[w].seq
<1>1. /\ s \in Seqs /\ commits[s].delta = call[w].delta /\ commits \in Seq(Commits)
      /\ commits' = [commits EXCEPT ![s].status = "committed"]
      /\ lease = w /\ call[w].pc = "publish"
    BY PromiseFacts, SafetyFacts DEF Publish, At, Fence, CallInv, Prepared, Working
<1>2. (\A t \in Committed : t < s) /\ DOMAIN call[w].delta # {}
    BY <1>1, PromiseFacts DEF PlanInv, Compared
<1>3. /\ Seqs' = Seqs /\ commits'[s].status = "committed" /\ commits'[s].delta = commits[s].delta
      /\ \A t \in Seqs \ {s} : commits'[t] = commits[t]
    BY <1>1, CommitsTyped DEF Seqs, Commits
<1>4. Committed' = Committed \cup {s} /\ \A t \in Committed' : commits'[t].delta = commits[t].delta
    BY <1>1, <1>3 DEF Committed, Seqs
<1> QED  BY <1>1, <1>2, <1>4, PromiseFacts, HistoryGrows

\* The writer that moves keeps its plan.
LEMMA MoverPlan ==
    ASSUME PromiseInv, NEW w \in Writers, Acts(w)
    PROVE  PlanInv(w)'
<1> DEFINE c == call[w]
           d == call'[w]
<1>0. /\ call \in [Writers -> Calls] /\ c \in Calls /\ PlanInv(w) /\ CallInv(w) /\ SafetyInv
    BY PromiseFacts
<1>1. ASSUME d.pc \in Responded, d.frame \in Frames PROVE PlanInv(w)'
    BY <1>1 DEF PlanInv, Responded, Compared
<1>2. ASSUME d.pc \notin Responded \cup Compared PROVE PlanInv(w)'
    BY <1>2 DEF PlanInv, Compared
<1>3. ASSUME NEW frame \in Frames, Declare(w, frame) PROVE PlanInv(w)'
  <2>1. d.pc = "declared" /\ d.frame = frame
      BY <1>0, <1>3 DEF Declare, Calls
  <2> QED  BY <1>1, <2>1 DEF Responded
<1>4. CASE EnterUpdate(w) \/ DatasetWriter(w) \/ ReadParent(w) \/ ReadHash(w)
  <2>1. c.pc \in Responded /\ d.pc \in Responded /\ d.frame = c.frame
    <3>1. CASE EnterUpdate(w)
        BY <1>0, <3>1 DEF EnterUpdate, At, Goto, Calls, Responded
    <3>2. CASE DatasetWriter(w)
        BY <1>0, <3>2 DEF DatasetWriter, At, Calls, Responded
    <3>3. CASE ReadParent(w)
        BY <1>0, <3>3 DEF ReadParent, At, Calls, Responded
    <3>4. CASE ReadHash(w)
        BY <1>0, <3>4 DEF ReadHash, At, Calls, Responded
    <3> QED  BY <1>4, <3>1, <3>2, <3>3, <3>4
  <2> QED  BY <1>0, <1>1, <2>1 DEF PlanInv
<1>5. CASE AssertDefinition(w)
  <2>1. c.pc = "assert" /\ (Goto(w, "parent") \/ Raise(w))
      BY <1>5 DEF AssertDefinition, At
  <2>2. CASE Goto(w, "parent")
    <3>1. d.pc = "parent" /\ d.frame = c.frame
        BY <1>0, <2>2 DEF Goto, Calls
    <3> QED  BY <1>0, <1>1, <2>1, <3>1 DEF PlanInv, Responded
  <2>3. CASE Raise(w)
    <3>1. d.pc = "leave"
        BY <1>0, <2>3 DEF Raise, Calls
    <3> QED  BY <1>2, <3>1 DEF Responded, Compared
  <2> QED  BY <2>1, <2>2, <2>3
<1>6. CASE \/ Refused(w) \/ CheckFails(w) \/ RecordCheck(w) \/ RolledBack(w) \/ Publish(w)
           \/ LeaveWriter(w) \/ CloseUpdate(w) \/ Die(w) \/ PublishFails(w)
           \/ \E f \in c.writes : UnlinkWrite(w, f)
  <2>1. d.pc \in {"leave", "close", "ended", "dead", "rollback"}
    <3>1. CASE Refused(w) \/ CheckFails(w) \/ RecordCheck(w) \/ RolledBack(w) \/ Publish(w)
        BY <1>0, <3>1 DEF Refused, CheckFails, RecordCheck, RolledBack, Raise, Publish, Calls
    <3>2. CASE LeaveWriter(w)
      <4>1. PICK pc \in {"close", "ended"} : Forget(w, pc)
          BY <3>2 DEF LeaveWriter
      <4> QED  BY <1>0, <4>1 DEF Forget, NewCall
    <3>3. CASE CloseUpdate(w) \/ PublishFails(w)
        BY <1>0, <3>3 DEF CloseUpdate, PublishFails, Goto, Calls
    <3>4. CASE Die(w)
        BY <1>0, <3>4 DEF Die, Forget, NewCall
    <3>5. CASE \E f \in c.writes : UnlinkWrite(w, f)
        BY <1>0, <3>5 DEF UnlinkWrite, At, Calls
    <3> QED  BY <1>6, <3>1, <3>2, <3>3, <3>4, <3>5
  <2> QED  BY <1>2, <2>1 DEF Responded, Compared
<1>7. CASE Compare(w)
  <2> DEFINE old == IF c.parent = {} THEN EmptyRows ELSE Latest(VisibleHistory)
             delta == Changes(old, c.frame)
             pc == IF DOMAIN delta = {} THEN "check" ELSE "prepare"
  <2>1. call' = [call EXCEPT ![w].delta = delta, ![w].pc = pc] /\ c.pc = "compare"
      BY <1>7 DEF Compare, At
  <2>2. pc \in {"check", "prepare"} /\ (DOMAIN delta = {} <=> pc = "check")
      OBVIOUS
  <2>3. old = Old(w)
      BY <1>0, VisibleIsHistory DEF Old
  <2> HIDE DEF pc, old
  <2>4. d.pc = pc /\ d.frame = c.frame /\ d.parent = c.parent /\ d.delta = delta
    <3> HIDE DEF delta
    <3> QED  BY <1>0, <2>1 DEF Calls
  <2>5. c.frame \in Frames
      BY <1>0, <2>1 DEF PlanInv, Responded
  <2>6. History' = History
    <3>1. ~Publish(w)
        BY <2>1 DEF Publish, At
    <3> QED  BY <1>0, <3>1, VersionsKept
  <2>7. Old(w)' = Old(w)
      BY <2>4, <2>6 DEF Old
  <2>8. d.delta = Changes(Old(w)', d.frame)
      BY <2>3, <2>4, <2>7
  <2> HIDE DEF delta
  <2> QED  BY <2>2, <2>4, <2>5, <2>8 DEF PlanInv
<1>8. CASE PrepareCommit(w) \/ SubmitBatch(w) \/ SettleBatch(w) \/ \E p \in Partitions : Task(w, p)
  <2>1. /\ d.frame = c.frame /\ d.parent = c.parent /\ d.delta = c.delta
        /\ c.pc \in {"prepare", "write"} /\ d.pc \in {"write", "publish", "rollback"}
        /\ UNCHANGED lease
        /\ \/ c.pc = "write" /\ d.seq = c.seq
           \/ d.seq = Len(commits) + 1
    <3>1. CASE PrepareCommit(w)
        BY <1>0, <3>1 DEF PrepareCommit, At, Calls, others
    <3>2. CASE SubmitBatch(w)
      <4>1. PICK batch \in SUBSET c.todo :
                LET full == batch = c.todo \/ Cardinality(batch) = PartitionWorkers
                IN  call' = [call EXCEPT ![w].todo = @ \ batch,
                       ![w].failed = ~full,
                       ![w].pc = IF batch = {} THEN "rollback" ELSE @,
                       ![w].flight = [p \in Partitions |->
                                        IF p \in batch THEN "submitted" ELSE "none"]]
          BY <3>2 DEF SubmitBatch
      <4>2. c.pc = "write" /\ UNCHANGED lease
          BY <3>2 DEF SubmitBatch, At, others
      <4> QED  BY <1>0, <4>1, <4>2 DEF Calls
    <3>3. CASE SettleBatch(w)
      <4>1. \E failed, flight, writes, pc :
               /\ pc \in {"rollback", "publish", "write"}
               /\ call' = [call EXCEPT ![w].failed = failed, ![w].flight = flight,
                                       ![w].writes = writes, ![w].pc = pc]
        <5>1. PICK interrupted \in BOOLEAN :
                LET done   == {p \in Partitions : call[w].flight[p] = "done"}
                    failed == \/ call[w].failed \/ interrupted
                              \/ \E p \in Partitions : call[w].flight[p] = "lost"
                IN  call' = [call EXCEPT ![w].failed = failed, ![w].flight = NoFlight,
                       ![w].writes = @ \cup {File(call[w].seq, p) : p \in done},
                       ![w].pc = CASE failed -> "rollback"
                                   [] ~failed /\ call[w].todo = {} -> "publish"
                                   [] OTHER -> "write"]
            BY <3>3 DEF SettleBatch
        <5> DEFINE done   == {p \in Partitions : c.flight[p] = "done"}
                   failed == \/ c.failed \/ interrupted
                             \/ \E p \in Partitions : c.flight[p] = "lost"
                   pc == CASE failed -> "rollback"
                           [] ~failed /\ c.todo = {} -> "publish"
                           [] OTHER -> "write"
                   writes == c.writes \cup {File(c.seq, p) : p \in done}
        <5>2. call' = [call EXCEPT ![w].failed = failed, ![w].flight = NoFlight,
                          ![w].writes = writes, ![w].pc = pc]
            BY <5>1
        <5>3. pc \in {"rollback", "publish", "write"}
            OBVIOUS
        <5> HIDE DEF failed, pc, writes
        <5> QED  BY <5>2, <5>3
      <4>2. c.pc = "write" /\ UNCHANGED lease
          BY <3>3 DEF SettleBatch, At, others
      <4> QED  BY <1>0, <4>1, <4>2 DEF Calls
    <3>4. CASE \E p \in Partitions : Task(w, p)
        BY <1>0, <3>4 DEF Task, WriteTemporary, ReplaceFile, WriteFails, RegisterSegment,
           RegisterFails, TaskMoves, At, Calls, others
    <3> QED  BY <1>8, <3>1, <3>2, <3>3, <3>4
  <2>2. Committed' = Committed /\ History' = History
    <3>1. ~Publish(w)
        BY <2>1 DEF Publish, At
    <3> QED  BY <1>0, <3>1, VersionsKept
  <2>3. Old(w)' = Old(w)
      BY <2>1, <2>2 DEF Old
  <2>4. lease = w => \/ \A s \in Committed : s < c.seq
                     \/ c.pc = "prepare"
      BY <1>0, <2>1 DEF PlanInv, Compared
  <2>5. \A s \in Committed : s < Len(commits) + 1
      BY <1>0, CommittedFacts
  <2> QED  BY <1>0, <2>1, <2>2, <2>3, <2>4, <2>5 DEF PlanInv, Responded, Compared
<1> QED  BY <1>3, <1>4, <1>5, <1>6, <1>7, <1>8 DEF Acts, Inside

\* A call that does not move keeps its plan: under its lease nobody publishes.
LEMMA OtherPlan ==
    ASSUME PromiseInv, NEW v \in Writers,
           \/ UNCHANGED vars \/ Environment
           \/ \E w \in Writers \ {v} : Acts(w)
    PROVE  PlanInv(v)'
<1>0. SafetyInv /\ PlanInv(v)
    BY PromiseFacts
<1>1. CASE UNCHANGED vars \/ Environment
  <2>1. Committed' = Committed /\ History' = History
      BY <1>0, <1>1, VersionsKept
  <2>2. call' = call /\ (lease' = v => lease = v)
      BY <1>1, PublicationAssumption DEF PublicationAssumption, vars, Environment, AbandonOwner,
         Register, Remove, Declaration, CleanupTemporary, others
  <2>3. Old(v)' = Old(v)
      BY <2>1, <2>2 DEF Old
  <2> QED  BY <1>0, <2>1, <2>2, <2>3 DEF PlanInv
<1>2. ASSUME NEW w \in Writers \ {v}, Acts(w) PROVE PlanInv(v)'
  <2>1. call'[v] = call[v] /\ (lease' = v => lease = v)
      BY <1>0, <1>2, FrameOf, PublicationAssumption DEF PublicationAssumption
  <2>2. CASE lease # v
      BY <1>0, <2>1, <2>2 DEF PlanInv
  <2>3. CASE lease = v
    <3>1. ~Publish(w)
        BY <2>3 DEF Publish, Fence
    <3>2. Committed' = Committed /\ History' = History
        BY <1>0, <1>2, <3>1, VersionsKept
    <3>3. Old(v)' = Old(v)
        BY <2>1, <3>2 DEF Old
    <3> QED  BY <1>0, <2>1, <3>2, <3>3 DEF PlanInv
  <2> QED  BY <2>2, <2>3
<1> QED  BY <1>1, <1>2

\* Only RecordCheck writes a check.
LEMMA ChecksKept ==
    ASSUME SafetyInv,
           \/ UNCHANGED vars \/ Environment
           \/ \E w \in Writers : Acts(w) /\ ~RecordCheck(w)
    PROVE  UNCHANGED checks
<1>1. CASE UNCHANGED vars \/ Environment
    BY <1>1 DEF vars, Environment, AbandonOwner, Register, Remove, Declaration, CleanupTemporary
<1>2. ASSUME NEW w \in Writers, Inside(w) \/ Die(w) PROVE UNCHANGED checks
    BY <1>2 DEF Inside, Die, Declare, EnterUpdate, DatasetWriter, Refused, AssertDefinition,
       ReadParent, ReadHash, Compare, CheckFails, SubmitBatch, SettleBatch, PublishFails,
       RolledBack, LeaveWriter, CloseUpdate
<1>3. ASSUME NEW w \in Writers, PrepareCommit(w) \/ Publish(w) PROVE UNCHANGED checks
    BY <1>3 DEF PrepareCommit, Publish
<1>4. ASSUME NEW w \in Writers, NEW p \in Partitions, Task(w, p) PROVE UNCHANGED checks
    BY <1>4 DEF Task, WriteTemporary, ReplaceFile, WriteFails, RegisterSegment, RegisterFails
<1>5. ASSUME NEW w \in Writers, NEW f, UnlinkWrite(w, f) PROVE UNCHANGED checks
    BY <1>5 DEF UnlinkWrite
<1> QED  BY <1>1, <1>2, <1>3, <1>4, <1>5 DEF Acts

\* The latest version is the greatest committed one.
LEMMA LastCommitted ==
    ASSUME SafetyInv
    PROVE  /\ Greatest(Committed) \in {0} \cup Committed
           /\ \A s \in Committed : s <= Greatest(Committed)
BY CommittedFacts, GreatestIsLast

\* Every step keeps what prepared versions were computed from.
LEMMA StepPromise == ASSUME PromiseInv, [Next]_vars PROVE PromiseInv'
<1>0. SafetyInv /\ SafetyInv' /\ checks \in Seq([upto : {0} \cup Seqs, frame : Contents])
    BY PromiseFacts, StepSafe, SafetyFacts DEF TypeOK
<1>1. \/ UNCHANGED vars \/ Environment
      \/ \E w \in Writers : Acts(w)
    BY StepsOf DEF Acts
<1>2. \A v \in Writers : PlanInv(v)'
    BY <1>1, MoverPlan, OtherPlan
<1>3. /\ Committed \subseteq Committed'
      /\ \A s \in Committed' : DOMAIN commits'[s].delta # {}
  <2>1. CASE \E w \in Writers : Publish(w)
      BY <2>1, PublishGrows DEF PromiseInv
  <2>2. CASE ~\E w \in Writers : Publish(w)
      BY <1>0, <1>1, <2>2, VersionsKept DEF PromiseInv
  <2> QED  BY <2>1, <2>2
<1>4. \A i \in DOMAIN checks' : checks'[i].upto \in {0} \cup Committed'
  <2>1. \A i \in DOMAIN checks : checks[i].upto \in {0} \cup Committed'
      BY <1>3 DEF PromiseInv
  <2>2. CASE \E w \in Writers : RecordCheck(w)
    <3>1. PICK w \in Writers : RecordCheck(w)
        BY <2>2
    <3>2. checks' = Append(checks, CheckOf(call[w].frame))
        BY <3>1 DEF RecordCheck
    <3>3. CheckOf(call[w].frame).upto \in {0} \cup Committed'
        BY <1>0, <1>3, LastCommitted DEF CheckOf
    <3> HIDE DEF CheckOf
    <3>4. ASSUME NEW i \in DOMAIN checks'
          PROVE  checks'[i] = CheckOf(call[w].frame) \/ (i \in DOMAIN checks /\ checks'[i] = checks[i])
        BY <1>0, <3>2
    <3> QED  BY <2>1, <3>3, <3>4
  <2>3. CASE ~\E w \in Writers : RecordCheck(w)
      BY <1>0, <1>1, <2>1, <2>3, ChecksKept
  <2> QED  BY <2>2, <2>3
<1> QED  BY <1>0, <1>2, <1>3, <1>4 DEF PromiseInv

\* The version a dataset may start with, and the list it makes.
LEMMA InitHistory ==
    ASSUME Init
    PROVE  \/ Committed = {} /\ VisibleHistory = << >>
           \/ \E frame \in Frames : /\ Committed = {1} /\ commits[1].delta = frame
                                    /\ DOMAIN frame # {} /\ VisibleHistory = <<frame>>
<1>0. SafetyInv
    BY InitSafe
<1>1. PICK frame \in Earlier : FirstVersion(frame)
    BY DEF Init
<1>2. CASE frame = EmptyRows
  <2>1. commits = << >> /\ Committed = {}
      BY <1>1, <1>2 DEF FirstVersion, Committed
  <2>2. Cardinality(Committed) = 0
      BY <2>1, FS_EmptySet
  <2>3. VisibleHistory = [i \in 1 .. 0 |-> Readable(Nth(i))]
      BY <2>2 DEF VisibleHistory
  <2>4. VisibleHistory \in Seq(Contents) /\ Len(VisibleHistory) = 0
      BY <1>0, <2>2, VisibleIsHistory, HistoryTyped
  <2>5. VisibleHistory = << >>
      BY <2>4, EmptySeq
  <2> QED  BY <2>1, <2>5
<1>3. CASE frame # EmptyRows
  <2>1. commits = <<[status |-> "committed", spec |-> FirstDefinition, delta |-> frame]>>
      BY <1>1, <1>3 DEF FirstVersion
  <2>2. Committed = {1} /\ commits[1].delta = frame
      BY <2>1 DEF Committed
  <2>3. frame \in Frames /\ frame \in Contents
      BY <1>3, PublicationAssumption DEF PublicationAssumption, EmptyRows
  <2>4. DOMAIN frame # {}
    <3>1. ASSUME DOMAIN frame = {} PROVE frame = EmptyRows
        BY <2>3, <3>1, ContentsTyped DEF EmptyRows
    <3> QED  BY <1>3, <3>1
  <2>5. Cardinality(Committed) = 1
      BY <2>2, FS_Singleton
  <2>6. Nth(1) = 1
      BY <1>0, <2>2, <2>5, NthCommitted
  <2>7. History = <<frame>>
    <3>1. History = [i \in 1 .. 1 |-> commits[Nth(i)].delta]
        BY <2>5 DEF History
    <3>2. History \in Seq(Contents) /\ Len(History) = 1 /\ History[1] = frame
        BY <1>0, <2>2, <2>5, <2>6, <3>1, HistoryTyped
    <3> QED  BY <2>3, <3>2
  <2> QED  BY <1>0, <2>2, <2>3, <2>4, <2>7, VisibleIsHistory
<1> QED  BY <1>2, <1>3

\* Nothing is prepared.
LEMMA InitPromise == Init => PromiseInv
<1> SUFFICES ASSUME Init PROVE PromiseInv
    OBVIOUS
<1>1. \A w \in Writers : call[w].pc = "idle"
    BY DEF Init, NewCall
<1>2. \A w \in Writers : PlanInv(w)
    BY <1>1 DEF PlanInv, Responded, Compared
<1>3. \A i \in DOMAIN checks : checks[i].upto \in {0} \cup Committed
    BY DEF Init
<1>4. \A s \in Committed : DOMAIN commits[s].delta # {}
    BY InitHistory
<1> QED  BY <1>2, <1>3, <1>4, InitSafe DEF PromiseInv

-----------------------------------------------------------------------------
(* Every step is a step of the promise, or none                            *)

\* With the parent unchanged, what was read for the comparison is the content.
LEMMA OldIsLatest ==
    ASSUME PromiseInv, NEW w \in Writers, manifest = call[w].parent
    PROVE  Old(w) = Latest(History)
<1>1. CASE call[w].parent # {}
    BY <1>1 DEF Old
<1>2. CASE call[w].parent = {}
  <2>1. Committed = {}
    <3>1. ASSUME NEW s \in Committed PROVE FALSE
      <4>1. PICK k \in DOMAIN commits[s].delta : TRUE
          BY DEF PromiseInv
      <4>2. File(s, Month[k]) \in manifest
          BY SafetyFacts, PromiseFacts DEF VisibleIsWhole
      <4> QED  BY <1>2, <4>2
    <3> QED  BY <3>1
  <2>2. Cardinality(Committed) = 0
      BY <2>1, FS_EmptySet
  <2>3. DOMAIN History = {}
      BY <2>2 DEF History
  <2>4. Written(History) = {}
      BY <2>3 DEF Written
  <2>5. Latest(History) = EmptyRows
      BY <2>4 DEF Latest, EmptyRows
  <2> QED  BY <1>2, <2>5 DEF Old
<1> QED  BY <1>1, <1>2

\* What a check has seen does not change: versions are added above it.
LEMMA ChecksStand ==
    ASSUME PromiseInv, checks' = checks,
           \/ Committed' = Committed
           \/ \E s \in Seqs : Committed' = Committed \cup {s} /\ \A t \in Committed : t < s
    PROVE  RecordedChecks' = RecordedChecks
<1>1. \A s \in Committed \cup Seqs : s \in Nat /\ s > 0
  <2>1. Committed \subseteq Seqs /\ Seqs = 1 .. Len(commits) /\ Len(commits) \in Nat
      BY PromiseFacts, SafetyFacts, CommitsTyped DEF Committed, Seqs
  <2> QED  BY <2>1
<1>2. ASSUME NEW b \in {0} \cup Committed
      PROVE  {s \in Committed' : s <= b} = {s \in Committed : s <= b}
  <2>1. CASE Committed' = Committed
      BY <2>1
  <2>2. ASSUME NEW s \in Seqs, Committed' = Committed \cup {s}, \A t \in Committed : t < s
        PROVE  {t \in Committed' : t <= b} = {t \in Committed : t <= b}
    <3>1. ~(s <= b)
        BY <1>1, <2>2
    <3> QED  BY <2>2, <3>1
  <2> QED  BY <2>1, <2>2
<1>3. \A i \in DOMAIN checks :
          {s \in Committed' : s <= checks[i].upto} = {s \in Committed : s <= checks[i].upto}
    BY <1>2 DEF PromiseInv
<1> QED  BY <1>3 DEF RecordedChecks

\* The operators of the promise are those of the code.
LEMMA PromiseOperators ==
    /\ \A h : Promise!Latest(h) = Latest(h)
    /\ \A old, frame : /\ Promise!Changed(old, frame) = Changed(old, frame)
                       /\ Promise!Changes(old, frame) = Changes(old, frame)
BY DEF Promise!Latest, Latest, Promise!Written, Written, Promise!LastWriter, LastWriter,
   Promise!Changed, Changed, Promise!Changes, Changes

\* After the step too, readers see the history.
LEMMA VisibleAfter == ASSUME SafetyInv' PROVE VisibleHistory' = History'
<1>1. (SafetyInv => VisibleHistory = History)'
    BY VisibleIsHistory, PTL
<1> QED  BY <1>1

\* Publishing is the abstract publication.
LEMMA PublishImplements ==
    ASSUME PromiseInv, SafetyInv', NEW w \in Writers, Publish(w)
    PROVE  Promise!ANext
<1> DEFINE frame == call[w].frame
<1>1. /\ frame \in Frames /\ DOMAIN call[w].delta # {}
      /\ call[w].delta = Changes(Latest(History), frame)
  <2>1. lease = w /\ call[w].pc = "publish" /\ manifest = call[w].parent
      BY DEF Publish, At, Fence
  <2> QED  BY <2>1, PromiseFacts, OldIsLatest DEF PlanInv, Compared
<1>2. Changed(Latest(History), frame) # {}
  <2>1. frame \in Contents
      BY <1>1, PublicationAssumption DEF PublicationAssumption
  <2> QED  BY <1>1, <2>1, ChangesTyped
<1>3. PICK n : n = Cardinality(Committed)
    OBVIOUS
<1>4. VisibleHistory' = Append(VisibleHistory, Changes(Latest(History), frame))
    BY <1>1, <1>3, PublishGrows, PromiseFacts, VisibleIsHistory, VisibleAfter
<1>5. RecordedChecks' = RecordedChecks
  <2>1. checks' = checks /\ call[w].seq \in Seqs
      BY PromiseFacts DEF Publish, At, CallInv, Prepared, Working
  <2>2. Committed' = Committed \cup {call[w].seq} /\ \A t \in Committed : t < call[w].seq
      BY <1>3, PublishGrows
  <2> QED  BY <2>1, <2>2, ChecksStand
<1>6. Promise!AppendVersion(frame)
    BY <1>2, <1>4, <1>5, PromiseFacts, VisibleIsHistory, PromiseOperators
       DEF Promise!AppendVersion
<1> QED  BY <1>1, <1>6 DEF Promise!ANext

\* Recording a check is the abstract check.
LEMMA CheckImplements ==
    ASSUME PromiseInv, SafetyInv', NEW w \in Writers, RecordCheck(w)
    PROVE  Promise!ANext
<1> DEFINE frame == call[w].frame
           n == Cardinality(Committed)
<1>1. lease = w /\ call[w].pc = "check" /\ manifest = call[w].parent
      /\ checks' = Append(checks, CheckOf(frame)) /\ UNCHANGED commits
    BY DEF RecordCheck, At, Fence
<1>2. frame \in Frames /\ Changed(Latest(History), frame) = {}
  <2>1. /\ frame \in Frames /\ DOMAIN call[w].delta = {}
        /\ call[w].delta = Changes(Latest(History), frame)
      BY <1>1, PromiseFacts, OldIsLatest DEF PlanInv, Compared
  <2>2. frame \in Contents
      BY <2>1, PublicationAssumption DEF PublicationAssumption
  <2> QED  BY <2>1, <2>2, ChangesTyped
<1>3. Committed' = Committed /\ VisibleHistory' = VisibleHistory
  <2>1. ~Publish(w)
      BY <1>1 DEF Publish, At
  <2>2. Committed' = Committed /\ History' = History
      BY <2>1, PromiseFacts, VersionsKept DEF Acts
  <2> QED  BY <2>2, PromiseFacts, VisibleIsHistory, VisibleAfter
<1>4. RecordedChecks' = Append(RecordedChecks, [upto |-> Len(VisibleHistory), frame |-> frame])
  <2> DEFINE Record(c) == [upto |-> Cardinality({s \in Committed : s <= c.upto}), frame |-> c.frame]
             Checks == [upto : {0} \cup Seqs, frame : Contents]
             Records == [upto : Nat, frame : Contents]
             m == Len(checks)
  <2>1. checks \in Seq(Checks) /\ CheckOf(frame) \in Checks
      BY <1>2, PromiseFacts, SafetyFacts, GreatestTyped, PublicationAssumption
         DEF TypeOK, CheckOf, PublicationAssumption
  <2>2. \A c \in Checks : Record(c) \in Records
      BY PromiseFacts, CommittedFacts, FS_Subset, FS_CardinalityType
  <2>3. Record(CheckOf(frame)) = [upto |-> Len(VisibleHistory), frame |-> frame]
    <3>1. {s \in Committed : s <= Greatest(Committed)} = Committed
        BY PromiseFacts, LastCommitted
    <3>2. Len(VisibleHistory) = n
        BY PromiseFacts, VisibleIsHistory, HistoryTyped
    <3>3. CheckOf(frame).upto = Greatest(Committed) /\ CheckOf(frame).frame = frame
        BY DEF CheckOf
    <3> QED  BY <3>1, <3>2, <3>3
  <2>4. /\ RecordedChecks = [i \in 1 .. m |-> Record(checks[i])]
        /\ RecordedChecks' = [i \in 1 .. m + 1 |-> Record(checks'[i])]
    <3>1. DOMAIN checks = 1 .. m /\ DOMAIN checks' = 1 .. m + 1
        BY <1>1, <2>1
    <3> QED  BY <1>3, <3>1 DEF RecordedChecks
  <2>5. \A i \in 1 .. m + 1 : checks'[i] = IF i = m + 1 THEN CheckOf(frame) ELSE checks[i]
      BY <1>1, <2>1
  <2>6. m \in Nat /\ \A i \in 1 .. m : checks[i] \in Checks
    <3> HIDE DEF Checks
    <3> QED  BY <2>1, LenProperties, ElementOfSeq
  <2> HIDE DEF Record, Records, Checks, m
  <2>7. RecordedChecks \in Seq(Records) /\ Len(RecordedChecks) = m
    <3>1. RecordedChecks \in [1 .. m -> Records]
        BY <2>2, <2>4, <2>6
    <3> QED  BY <2>6, <3>1, SeqDef
  <2>8. RecordedChecks' = [i \in 1 .. m + 1 |->
                              IF i = m + 1 THEN Record(CheckOf(frame)) ELSE RecordedChecks[i]]
    <3>1. \A i \in 1 .. m + 1 : i # m + 1 => i \in 1 .. m
        BY <2>6
    <3> QED  BY <2>4, <2>5, <3>1
  <2>9. Record(CheckOf(frame)) \in Records
      BY <2>1, <2>2
  <2>10. RecordedChecks' = Append(RecordedChecks, Record(CheckOf(frame)))
      BY <2>6, <2>7, <2>8, <2>9
  <2> QED  BY <2>3, <2>10
<1>5. Promise!AppendCheck(frame)
    BY <1>2, <1>3, <1>4, PromiseFacts, VisibleIsHistory, PromiseOperators
       DEF Promise!AppendCheck
<1> QED  BY <1>2, <1>5 DEF Promise!ANext

\* Every step is an abstract step or a stutter.
LEMMA StepImplements ==
    ASSUME PromiseInv, [Next]_vars PROVE [Promise!ANext]_<<VisibleHistory, RecordedChecks>>
<1>0. SafetyInv /\ SafetyInv'
    BY PromiseFacts, StepSafe
<1>1. CASE \E w \in Writers : Publish(w)
    BY <1>0, <1>1, PublishImplements
<1>2. CASE \E w \in Writers : RecordCheck(w)
    BY <1>0, <1>2, CheckImplements
<1>3. CASE ~\E w \in Writers : Publish(w) \/ RecordCheck(w)
  <2>1. \/ UNCHANGED vars \/ Environment
        \/ \E w \in Writers : Acts(w) /\ ~Publish(w) /\ ~RecordCheck(w)
      BY <1>3, StepsOf DEF Acts
  <2>2. checks' = checks /\ Committed' = Committed /\ History' = History
      BY <1>0, <2>1, ChecksKept, VersionsKept
  <2> QED  BY <1>0, <2>2, ChecksStand, VisibleIsHistory, VisibleAfter
<1> QED  BY <1>1, <1>2, <1>3

\* The history starts empty.
LEMMA InitImplements == Init => Promise!AInit
<1> SUFFICES ASSUME Init PROVE Promise!AInit
    OBVIOUS
<1>1. VisibleHistory \in {<< >>} \cup {<<frame>> : frame \in Frames}
    BY InitHistory
<1>2. RecordedChecks = << >>
    BY DEF Init, RecordedChecks
<1> QED  BY <1>1, <1>2 DEF Promise!AInit

\* What a step may do to the content below a boundary: nothing.
LEMMA StepKeepsBoundary ==
    ASSUME PromiseInv, [Next]_vars, NEW b \in 1 .. Greatest(Committed)
    PROVE  UpTo(b)' = UpTo(b)
<1> DEFINE Seen(S) == {s \in S : s <= b}
<1>0. SafetyInv /\ SafetyInv'
    BY PromiseFacts, StepSafe
<1>1. VisibleHistory = History /\ VisibleHistory' = History'
    BY <1>0, VisibleIsHistory, VisibleAfter
<1>2. CASE ~\E w \in Writers : Publish(w)
  <2>1. \/ UNCHANGED vars \/ Environment
        \/ \E w \in Writers : Acts(w) /\ ~Publish(w)
      BY <1>2, StepsOf DEF Acts
  <2>2. Committed' = Committed /\ History' = History
      BY <1>0, <2>1, VersionsKept
  <2> QED  BY <1>1, <2>2 DEF UpTo
<1>3. ASSUME NEW w \in Writers, Publish(w) PROVE UpTo(b)' = UpTo(b)
  <2>1. PICK n : n = Cardinality(Committed)
      OBVIOUS
  <2>2. /\ Committed' = Committed \cup {call[w].seq}
        /\ \A t \in Committed : t < call[w].seq
        /\ History' = Append(History, call[w].delta)
      BY <1>3, <2>1, PublishGrows
  <2>3. IsFiniteSet(Committed) /\ n \in Nat /\ History \in Seq(Contents) /\ Len(History) = n
      BY <1>0, <2>1, CommittedFacts, HistoryTyped
  <2>4. call[w].seq \in Nat /\ Greatest(Committed) \in Nat
    <3>1. Committed \in SUBSET (1 .. Len(commits)) /\ Len(commits) \in Nat
        BY <1>0, CommittedFacts
    <3>2. Greatest(Committed) \in {0} \cup Committed
        BY <1>0, LastCommitted
    <3>3. call[w].seq \in 0 .. Len(commits)
        BY <1>0, SafetyFacts, CommitsTyped DEF Calls
    <3> QED  BY <3>1, <3>2, <3>3
  <2>5. Seen(Committed') = Seen(Committed)
    <3>1. Greatest(Committed) \in Committed
        BY <1>0, <2>4, LastCommitted
    <3>2. ~(call[w].seq <= b)
        BY <2>2, <2>4, <3>1
    <3> QED  BY <2>2, <3>2
  <2>6. PICK m : m = Cardinality(Seen(Committed))
      OBVIOUS
  <2>7. m \in Nat /\ m <= n
    <3>1. Seen(Committed) \in SUBSET Committed
        OBVIOUS
    <3> HIDE DEF Seen
    <3> QED  BY <2>1, <2>3, <2>6, <3>1, FS_Subset, FS_CardinalityType
  <2>8. \A i \in 1 .. m : i \in 1 .. n
      BY <2>3, <2>7
  <2>9. \A i \in 1 .. n : History'[i] = History[i]
    <3>1. call[w].delta \in Contents
        BY <1>0, SafetyFacts DEF Calls
    <3> QED  BY <2>2, <2>3, <3>1
  <2>10. /\ UpTo(b) = Latest([i \in 1 .. m |-> History[i]])
         /\ UpTo(b)' = Latest([i \in 1 .. m |-> History'[i]])
      BY <1>1, <2>5, <2>6 DEF UpTo
  <2>11. [i \in 1 .. m |-> History'[i]] = [i \in 1 .. m |-> History[i]]
      BY <2>8, <2>9
  <2> QED  BY <2>10, <2>11
<1> QED  BY <1>2, <1>3

-----------------------------------------------------------------------------
(* The theorems                                                            *)

\* The strengthening that both theorems below are read from.
THEOREM Promised == Spec => []PromiseInv
<1>1. Init => PromiseInv
    BY InitPromise
<1>2. PromiseInv /\ [Next]_vars => PromiseInv'
    BY StepPromise
<1> QED  BY <1>1, <1>2, PTL DEF Spec

\* What a reader has pinned with a max_commit boundary never changes: no
\* version becomes visible below one that is, although numbers are given
\* before files are written (prepare_version_commit, commit_dataset_metadata).
THEOREM Stable == Spec => BoundaryIsStable
<1> DEFINE Kept == \A b \in 1 .. Greatest(Committed) : UpTo(b)' = UpTo(b)
<1>1. PromiseInv /\ [Next]_vars => [Kept]_vars
    BY StepKeepsBoundary
<1>2. Spec => [][Kept]_vars
    BY <1>1, Promised, PTL DEF Spec
<1> QED  BY <1>2 DEF BoundaryIsStable

\* The code implements AtomicPublication: to its readers a dataset is a list of
\* whole versions, each the difference to the content before it, whatever
\* writers, threads, deaths and redefinitions do to the call that makes it
\* (commit_versions, and dataset_snapshot for the reader).
THEOREM Refines == Spec => Implements
<1>1. Init => Promise!AInit
    BY InitImplements
<1>2. PromiseInv /\ [Next]_vars => [Promise!ANext]_<<VisibleHistory, RecordedChecks>>
    BY StepImplements
<1>3. Spec => [][Promise!ANext]_<<VisibleHistory, RecordedChecks>>
    BY <1>2, Promised, PTL DEF Spec
<1> QED  BY <1>1, <1>3, PTL DEF Spec, Implements, Promise!ASpec, Promise!avars
==============================================================================
