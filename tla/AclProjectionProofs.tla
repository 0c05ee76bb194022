------------------------ MODULE AclProjectionProofs ------------------------
(***************************************************************************)
(* Proofs about AclProjection, for every number of processes, lists,       *)
(* batches and failures; and, in the last part, about the composed         *)
(* DocumentsSpec, which draws on them, DeliveryProofs and LineageProofs.   *)
(***************************************************************************)
EXTENDS MCDocuments, FiniteSetTheorems, TLAPS

Actors == Writers \union AllReaders

(***************************************************************************)
(* Types.                                                                  *)
(***************************************************************************)
LEMMA RestampedType ==
  ASSUME TypeOK, NEW a \in Acl
  PROVE  Restamped(a) \in [Batches -> Payload \union {NoPoint}]
BY DEF TypeOK, Restamped, Payload, NoPoint

\* What an ORM session loads of a row is a snapshot.
LEMMA SessionType ==
  ASSUME row \in Row
  PROVE  SessionOf(row) \in Snapshot
BY DEF Row, SessionOf, Snapshot

\* Going to a step leaves every writer and reader at a step.
LEMMA GotoType ==
  ASSUME TypeOK, NEW p, NEW step \in WriterSteps \union ReaderSteps, Goto(p, step)
  PROVE  pc' \in [Actors -> WriterSteps \union ReaderSteps]
BY DEF TypeOK, Goto, Actors

\* Loading the row leaves every session with a snapshot.
LEMMA LoadType ==
  ASSUME TypeOK, NEW p, Load(p)
  PROVE  snap' \in [Writers -> Snapshot]
BY SessionType DEF TypeOK, Load

\* The first states are typed.
LEMMA TypeInit == Init => TypeOK
<1> SUFFICES ASSUME Init PROVE TypeOK
  OBVIOUS
<1>1. PICK a \in Acl, served \in BOOLEAN :
        /\ row = [acl |-> a, revision |-> 0, projected |-> 0, index_state |-> "active",
                  status |-> IF served THEN "indexed" ELSE "queued",
                  current |-> served, enriched |-> FALSE]
        /\ points = [b \in Batches |->
                       IF served THEN [acl |-> a, current |-> TRUE] ELSE NoPoint]
  BY DEF Init
<1>2. 0 \in Revisions /\ 0 \in 0..MaxFaults /\ 0 \in 0..NumBatches
  BY BoundsNat, NumBatchesPos DEF Revisions
<1>3. row \in Row
  BY <1>1, <1>2 DEF Row, IndexStates, Statuses
<1>4. points \in [Batches -> Payload \union {NoPoint}]
  BY <1>1 DEF Payload
<1>5. SessionOf(row) \in Snapshot
  BY <1>3, SessionType
<1>6. row.acl \in Acl
  BY <1>3 DEF Row
<1> QED
  BY <1>2, <1>3, <1>4, <1>5, <1>6 DEF Init, TypeOK, WriterSteps, ReaderSteps

\* Every step keeps the types.
LEMMA TypeNext == TypeOK /\ [Next]_vars => TypeOK'
<1> SUFFICES ASSUME TypeOK, [Next]_vars PROVE TypeOK'
  OBVIOUS
<1> USE DEF readerVars, WriterSteps, ReaderSteps
<1>0. /\ NumBatches \in Nat /\ 0 \in 0..NumBatches
      /\ \A n \in 0..NumBatches : n < NumBatches => n + 1 \in 0..NumBatches
  BY NumBatchesPos
<1>1. ASSUME NEW r \in Requests, LoadForAcl(r) PROVE TypeOK'
  BY <1>1, GotoType, LoadType DEF TypeOK, LoadForAcl, Actors
<1>2. ASSUME NEW r \in Requests, CommitAcl(r) PROVE TypeOK'
  <2>1. PICK a \in Acl :
          /\ row' = [row EXCEPT !.acl = IF a # snap[r].acl THEN a ELSE @,
                                !.revision = @ + 1, !.index_state = "pending"]
          /\ snap' = [snap EXCEPT ![r] = [acl |-> a, revision |-> row.revision + 1,
                                          index_state |-> "pending"]]
    BY <1>2 DEF CommitAcl
  <2>2. row.revision + 1 \in Revisions
    BY <1>2, BoundsNat DEF CommitAcl, TypeOK, Row, Revisions
  <2>3. row' \in Row
    BY <2>1, <2>2 DEF TypeOK, Row, IndexStates
  <2>4. snap' \in [Writers -> Snapshot]
    BY <2>1, <2>2 DEF TypeOK, Snapshot, IndexStates
  <2>5. window' \in [Readers -> SUBSET Acl]
    BY <1>2, <2>3 DEF TypeOK, CommitAcl, Row
  <2> QED
    BY <1>2, <2>3, <2>4, <2>5, GotoType DEF TypeOK, CommitAcl, Actors
<1>3. ASSUME NEW s \in Sweeps, SweepLoad(s) PROVE TypeOK'
  BY <1>3, GotoType, LoadType DEF TypeOK, SweepLoad, Actors
<1>4. ASSUME NEW p \in Projectors, Projection(p) PROVE TypeOK'
  <2>0. snap[p].acl \in Acl /\ snap[p].revision \in Revisions
    BY DEF TypeOK, Snapshot, Writers
  <2>1. CASE WriteStore(p)
    BY <2>0, <2>1, GotoType, RestampedType DEF TypeOK, WriteStore, Actors
  <2>2. CASE WriteFails(p)
    <3>1. faults' \in 0..MaxFaults
      BY <2>2, BoundsNat DEF TypeOK, WriteFails
    <3> QED
      BY <2>0, <2>2, <3>1, GotoType, RestampedType DEF TypeOK, WriteFails, Actors
  <2>3. CASE RecordFailure(p)
    <3>1. row' \in Row
      BY <2>3 DEF TypeOK, RecordFailure, Row, IndexStates
    <3> QED
      BY <2>3, <3>1, GotoType DEF TypeOK, RecordFailure, Actors
  <2>4. CASE Activate(p)
    <3>1. row' \in Row
      BY <2>0, <2>4 DEF TypeOK, Activate, Row, IndexStates
    <3> QED
      BY <2>4, <3>1, GotoType DEF TypeOK, Activate, Actors
  <2>5. CASE Superseded(p)
    <3>1. row' \in Row
      BY <2>0, <2>5 DEF TypeOK, Superseded, Row, IndexStates
    <3> QED
      BY <2>5, <3>1, GotoType DEF TypeOK, Superseded, Actors
  <2> QED
    BY <1>4, <2>1, <2>2, <2>3, <2>4, <2>5 DEF Projection
<1>5. ASSUME NEW i \in Ingests, Ingestion(i) PROVE TypeOK'
  <2>0. snap[i].acl \in Acl /\ done[i] \in 0..NumBatches
    BY DEF TypeOK, Snapshot, Writers
  <2>1. CASE IngestLoad(i)
    <3>1. row' \in Row
      BY <2>1 DEF TypeOK, IngestLoad, Row, Statuses
    <3>2. done' \in [Writers -> 0..NumBatches]
      BY <1>0, <2>1 DEF TypeOK, IngestLoad
    <3> QED
      BY <2>1, <3>1, <3>2, GotoType, LoadType DEF TypeOK, IngestLoad, Actors
  <2>2. CASE IngestUpsert(i)
    <3>1. done' \in [Writers -> 0..NumBatches]
      BY <1>0, <2>0, <2>2 DEF TypeOK, IngestUpsert
    <3>2. points' \in [Batches -> Payload \union {NoPoint}]
      BY <2>0, <2>2 DEF TypeOK, IngestUpsert, Payload
    <3> QED
      BY <2>2, <3>1, <3>2 DEF TypeOK, IngestUpsert
  <2>3. CASE IngestReread(i)
    BY <2>3, GotoType, LoadType DEF TypeOK, IngestReread, Actors
  <2>4. CASE IngestRestamp(i)
    BY <2>0, <2>4, GotoType, RestampedType DEF TypeOK, IngestRestamp, Actors
  <2>5. CASE IngestIndex(i)
    <3>1. row' \in Row
      BY <2>5 DEF TypeOK, IngestIndex, Row, Statuses
    <3> QED
      BY <2>5, <3>1, GotoType DEF TypeOK, IngestIndex, Actors
  <2>6. CASE IngestPromote(i)
    <3>1. row' \in Row
      BY <2>6 DEF TypeOK, IngestPromote, Row
    <3> QED
      BY <2>6, <3>1, GotoType DEF TypeOK, IngestPromote, Actors
  <2>7. CASE IngestShow(i)
    <3>1. points' \in [Batches -> Payload \union {NoPoint}]
      BY <2>7 DEF TypeOK, IngestShow, Payload, NoPoint
    <3> QED
      BY <2>7, <3>1, GotoType DEF TypeOK, IngestShow, Actors
  <2> QED
    BY <1>5, <2>1, <2>2, <2>3, <2>4, <2>5, <2>6, <2>7 DEF Ingestion
<1>6. ASSUME NEW b \in Backfills, Backfill(b) PROVE TypeOK'
  <2>0. snap[b].acl \in Acl /\ done[b] \in 0..NumBatches
    BY DEF TypeOK, Snapshot, Writers
  <2>1. CASE BackfillLoad(b)
    <3>1. done' \in [Writers -> 0..NumBatches]
      BY <1>0, <2>1 DEF TypeOK, BackfillLoad
    <3> QED
      BY <2>1, <3>1, GotoType, LoadType DEF TypeOK, BackfillLoad, Actors
  <2>2. CASE BackfillUpsert(b)
    <3>1. done' \in [Writers -> 0..NumBatches]
      BY <1>0, <2>0, <2>2 DEF TypeOK, BackfillUpsert
    <3>2. points' \in [Batches -> Payload \union {NoPoint}]
      BY <2>0, <2>2 DEF TypeOK, BackfillUpsert, Payload
    <3> QED
      BY <2>2, <3>1, <3>2 DEF TypeOK, BackfillUpsert
  <2>3. CASE BackfillFinish(b)
    <3>1. row' \in Row
      BY <2>3 DEF TypeOK, BackfillFinish, Row
    <3> QED
      BY <2>3, <3>1, GotoType DEF TypeOK, BackfillFinish, Actors
  <2> QED
    BY <1>6, <2>1, <2>2, <2>3 DEF Backfill
<1>7. ASSUME NEW p \in Writers, Killed(p) PROVE TypeOK'
  <2>1. faults' \in 0..MaxFaults
    BY <1>7, BoundsNat DEF TypeOK, Killed
  <2> QED
    BY <1>7, <2>1, GotoType DEF TypeOK, Killed, Actors
<1>8. ASSUME MarkDeleting PROVE TypeOK'
  <2>1. row' \in Row
    BY <1>8 DEF TypeOK, MarkDeleting, Row, Statuses
  <2> QED
    BY <1>8, <2>1 DEF TypeOK, MarkDeleting
<1>9. ASSUME NEW r \in Readers, Retrieval(r) PROVE TypeOK'
  <2>0. row.acl \in Acl /\ row.projected \in Revisions
    BY DEF TypeOK, Row
  <2>1. CASE ReadStart(r)
    BY <2>0, <2>1, GotoType DEF TypeOK, ReadStart, Actors
  <2>2. CASE Query(r)
    <3>1. {points[b].acl : b \in {c \in Present : points[c].current /\ ~hidden[r]}} \subseteq Acl
      BY DEF TypeOK, Present, Payload
    <3>2. hits' \in [AllReaders -> SUBSET Acl]
      BY <2>2, <3>1 DEF TypeOK, Query
    <3>3. asked' \in [Readers -> [acl : Acl, projected : Revisions]]
      BY <2>0, <2>2 DEF TypeOK, Query
    <3> QED
      BY <2>2, <3>2, <3>3, GotoType DEF TypeOK, Query, Actors
  <2>3. CASE Recheck(r)
    <3>1. hits' \in [AllReaders -> SUBSET Acl]
      BY <2>3 DEF TypeOK, Recheck
    <3> QED
      BY <2>3, <3>1, GotoType DEF TypeOK, Recheck, Actors
  <2> QED
    BY <1>9, <2>1, <2>2, <2>3 DEF Retrieval
<1>10. ASSUME NEW r \in ChunkReaders, ReadChunks(r) PROVE TypeOK'
  <2>1. {points[b].acl : b \in Present} \subseteq Acl
    BY DEF TypeOK, Present, Payload
  <2>2. hits' \in [AllReaders -> SUBSET Acl]
    BY <1>10, <2>1 DEF TypeOK, ReadChunks
  <2> QED
    BY <1>10, <2>2 DEF TypeOK, ReadChunks
<1>11. CASE UNCHANGED vars
  BY <1>11 DEF TypeOK, vars
<1> QED
  BY <1>1, <1>2, <1>3, <1>4, <1>5, <1>6, <1>7, <1>8, <1>9, <1>10, <1>11 DEF Next

\* Every variable keeps its type.
THEOREM TypeCorrect == Spec => []TypeOK
BY TypeInit, TypeNext, PTL DEF Spec

(***************************************************************************)
(* The revision protocol, for any number of overlapping requests, sweeps,  *)
(* ingestions, backfills and crashes.  ActiveIsProjected is not inductive: *)
(* the compare-and-set that loses records the revision it projected, and   *)
(* that this one is below the row's needs SnapBehind.                      *)
(***************************************************************************)
SnapBehind == \A p \in Writers : snap[p].revision <= row.revision

RevInv == TypeOK /\ SnapBehind /\ ActiveIsProjected

\* The steps that leave every part of RevInv alone.
LEMMA RevStable ==
  ASSUME RevInv, TypeOK',
         row'.revision = row.revision, row'.projected = row.projected,
         row'.index_state # "active" \/ row'.index_state = row.index_state,
         \A p \in Writers : snap'[p].revision = snap[p].revision \/ snap'[p].revision = row.revision
  PROVE  RevInv'
<1>1. \A p \in Writers : snap[p].revision \in Nat /\ row.revision \in Nat
  BY BoundsNat DEF RevInv, TypeOK, Snapshot, Row, Revisions
<1>2. SnapBehind'
  BY <1>1 DEF RevInv, SnapBehind
<1> QED
  BY <1>2 DEF RevInv, ActiveIsProjected

\* At first snapshots are behind the row, and an active row is projected.
LEMMA RevInit == Init => RevInv
<1> SUFFICES ASSUME Init PROVE RevInv
  OBVIOUS
<1>1. TypeOK
  BY TypeInit
<1>2. row.revision = 0 /\ row.projected = 0
  BY DEF Init
<1>3. \A p \in Writers : snap[p].revision = 0
  BY <1>2 DEF Init, SessionOf
<1> QED
  BY <1>1, <1>2, <1>3 DEF RevInv, SnapBehind, ActiveIsProjected

\* Every step keeps snapshots behind the row, and an active row projected.
LEMMA RevNext == RevInv /\ [Next]_vars => RevInv'
<1> SUFFICES ASSUME RevInv, [Next]_vars PROVE RevInv'
  OBVIOUS
<1> USE DEF readerVars
<1>0. TypeOK /\ TypeOK'
  BY TypeNext DEF RevInv
<1>a. row \in Row /\ snap \in [Writers -> Snapshot]
  BY <1>0 DEF TypeOK
<1>b. row.revision \in Nat /\ row.projected \in Nat
  BY <1>a, BoundsNat DEF Row, Revisions
<1>c. \A p \in Writers : snap[p].revision \in Nat /\ snap[p].revision <= row.revision
  BY <1>a, BoundsNat DEF RevInv, SnapBehind, Snapshot, Revisions
<1>d. ASSUME NEW p, Load(p)
      PROVE  \A q \in Writers : snap'[q].revision = snap[q].revision \/ snap'[q].revision = row.revision
  BY <1>a, <1>d DEF Load, SessionOf
<1>1. ASSUME NEW r \in Requests, LoadForAcl(r) PROVE RevInv'
  BY <1>0, <1>1, <1>d, RevStable DEF LoadForAcl
<1>2. ASSUME NEW r \in Requests, CommitAcl(r) PROVE RevInv'
  <2>1. row'.revision = row.revision + 1 /\ row'.index_state = "pending"
        /\ row'.projected = row.projected
    BY <1>2, <1>a DEF CommitAcl, Row
  <2>2. \A q \in Writers : snap'[q].revision = snap[q].revision
                              \/ snap'[q].revision = row.revision + 1
    BY <1>2, <1>a DEF CommitAcl
  <2>3. SnapBehind'
    BY <2>1, <2>2, <1>b, <1>c DEF SnapBehind
  <2> QED
    BY <1>0, <1>b, <2>1, <2>3 DEF RevInv, ActiveIsProjected
<1>3. ASSUME NEW s \in Sweeps, SweepLoad(s) PROVE RevInv'
  BY <1>0, <1>3, <1>d, RevStable DEF SweepLoad
<1>4. ASSUME NEW p \in Projectors, Projection(p) PROVE RevInv'
  <2>0. p \in Writers
    BY DEF Writers
  <2>1. CASE WriteStore(p) \/ WriteFails(p)
    BY <1>0, <2>1, RevStable DEF WriteStore, WriteFails
  <2>2. CASE RecordFailure(p)
    BY <1>0, <1>a, <2>2, RevStable DEF RecordFailure, Row
  <2>3. CASE Activate(p)
    <3>1. row'.revision = row.revision /\ row'.projected = row.revision /\ snap' = snap
      BY <1>a, <2>3 DEF Activate, Row
    <3> QED
      BY <1>0, <1>b, <3>1 DEF RevInv, SnapBehind, ActiveIsProjected
  <2>4. CASE Superseded(p)
    <3>1. /\ row'.revision = row.revision /\ row'.projected = snap[p].revision
          /\ row'.index_state = "pending" /\ snap' = snap
      BY <1>a, <2>4 DEF Superseded, Row
    <3> QED
      BY <1>0, <1>c, <2>0, <3>1 DEF RevInv, SnapBehind, ActiveIsProjected
  <2> QED
    BY <1>4, <2>1, <2>2, <2>3, <2>4 DEF Projection
<1>5. ASSUME NEW i \in Ingests, Ingestion(i) PROVE RevInv'
  <2>1. CASE IngestLoad(i)
    BY <1>0, <1>a, <1>d, <2>1, RevStable DEF IngestLoad, Row
  <2>2. CASE IngestReread(i)
    BY <1>0, <1>d, <2>2, RevStable DEF IngestReread
  <2>3. CASE IngestUpsert(i) \/ IngestRestamp(i) \/ IngestShow(i)
    BY <1>0, <2>3, RevStable DEF IngestUpsert, IngestRestamp, IngestShow
  <2>4. CASE IngestIndex(i)
    BY <1>0, <1>a, <2>4, RevStable DEF IngestIndex, Row
  <2>5. CASE IngestPromote(i)
    BY <1>0, <1>a, <2>5, RevStable DEF IngestPromote, Row
  <2> QED
    BY <1>5, <2>1, <2>2, <2>3, <2>4, <2>5 DEF Ingestion
<1>6. ASSUME NEW b \in Backfills, Backfill(b) PROVE RevInv'
  <2>1. CASE BackfillLoad(b)
    BY <1>0, <1>d, <2>1, RevStable DEF BackfillLoad
  <2>2. CASE BackfillUpsert(b)
    BY <1>0, <2>2, RevStable DEF BackfillUpsert
  <2>3. CASE BackfillFinish(b)
    BY <1>0, <1>a, <2>3, RevStable DEF BackfillFinish, Row
  <2> QED
    BY <1>6, <2>1, <2>2, <2>3 DEF Backfill
<1>7. ASSUME NEW p \in Writers, Killed(p) PROVE RevInv'
  BY <1>0, <1>7, RevStable DEF Killed
<1>8. ASSUME MarkDeleting PROVE RevInv'
  BY <1>0, <1>a, <1>8, RevStable DEF MarkDeleting, Row
<1>9. ASSUME NEW r \in Readers, Retrieval(r) PROVE RevInv'
  BY <1>0, <1>9, RevStable DEF Retrieval, ReadStart, Query, Recheck
<1>10. ASSUME NEW r \in ChunkReaders, ReadChunks(r) PROVE RevInv'
  BY <1>0, <1>10, RevStable DEF ReadChunks
<1>11. CASE UNCHANGED vars
  BY <1>0, <1>11, RevStable DEF vars
<1> QED
  BY <1>1, <1>2, <1>3, <1>4, <1>5, <1>6, <1>7, <1>8, <1>9, <1>10, <1>11 DEF Next

\* The database constraint ck_documents_active_is_projected never rejects a commit of this
\* protocol: a row is active only at the revision it records as projected.
THEOREM ActiveIsProjectedAlways == Spec => []ActiveIsProjected
<1>1. RevInv => ActiveIsProjected
  BY DEF RevInv
<1> QED
  BY <1>1, RevInit, RevNext, PTL DEF Spec

(***************************************************************************)
(* The increment in SQL gives every request a target of its own, as long   *)
(* as a process is not request and sweep at once.                          *)
(***************************************************************************)
RequestsDoNotSweep == Requests \intersect Sweeps = {}

\* The steps after which a request is in flight only if it was, with the same target.
LEMMA DistinctStable ==
  ASSUME DistinctTargets,
         \A p \in Requests : InFlight(p)' => InFlight(p) /\ snap'[p].revision = snap[p].revision
  PROVE  DistinctTargets'
BY DEF DistinctTargets

\* Requests that commit bump the revision, so two in flight never aim at the same one.
LEMMA DistinctNext ==
  RequestsDoNotSweep /\ RevInv /\ DistinctTargets /\ [Next]_vars => DistinctTargets'
<1> SUFFICES ASSUME RequestsDoNotSweep, RevInv, DistinctTargets, [Next]_vars
             PROVE  DistinctTargets'
  OBVIOUS
<1> USE DEF readerVars
<1>a. /\ row \in Row /\ snap \in [Writers -> Snapshot]
      /\ pc \in [Actors -> WriterSteps \union ReaderSteps]
  BY DEF RevInv, TypeOK, Actors
<1>b. \A p \in Requests : p \in Writers /\ p \in Actors
  BY DEF Writers, Projectors, Actors
<1>c. \A p \in Writers : snap[p].revision \in Nat /\ snap[p].revision <= row.revision
  BY <1>a, BoundsNat DEF RevInv, SnapBehind, Snapshot, Revisions
\* A process that loads or moves to a step outside the projection.
<1>d. ASSUME NEW q, NEW step, Goto(q, step), step \notin {"write", "cas", "fail"},
             snap' = snap \/ Load(q)
      PROVE  DistinctTargets'
  <2>1. \A p \in Requests : InFlight(p)' => p # q /\ pc'[p] = pc[p]
    BY <1>a, <1>b, <1>d DEF InFlight, Goto
  <2>2. \A p \in Requests : p # q => snap'[p] = snap[p]
    BY <1>a, <1>b, <1>d DEF Load
  <2> QED
    BY <2>1, <2>2, DistinctStable DEF InFlight
\* A process in flight that goes on.
<1>e. ASSUME NEW q, NEW step, InFlight(q), Goto(q, step), snap' = snap
      PROVE  DistinctTargets'
  <2>1. \A p \in Requests : InFlight(p)' => InFlight(p)
    BY <1>a, <1>b, <1>e DEF InFlight, Goto
  <2> QED
    BY <1>e, <2>1, DistinctStable
<1>f. ASSUME pc' = pc, snap' = snap PROVE DistinctTargets'
  BY <1>f DEF DistinctTargets, InFlight
<1>1. ASSUME NEW r \in Requests, LoadForAcl(r) PROVE DistinctTargets'
  BY <1>1, <1>d DEF LoadForAcl
<1>2. ASSUME NEW r \in Requests, CommitAcl(r) PROVE DistinctTargets'
  <2>1. snap'[r].revision = row.revision + 1
    BY <1>2, <1>a, <1>b DEF CommitAcl
  <2>2. \A p \in Requests : p # r => snap'[p] = snap[p] /\ (InFlight(p)' <=> InFlight(p))
    BY <1>2, <1>a, <1>b DEF CommitAcl, Goto, InFlight
  <2>3. \A p \in Requests : p # r => snap'[p].revision # row.revision + 1
    BY <2>2, <1>a, <1>b, <1>c, BoundsNat DEF Row, Revisions
  <2> QED
    BY <2>1, <2>2, <2>3 DEF DistinctTargets
<1>3. ASSUME NEW s \in Sweeps, SweepLoad(s) PROVE DistinctTargets'
  <2>1. \A p \in Requests : p # s /\ pc'[p] = pc[p] /\ snap'[p] = snap[p]
    BY <1>3, <1>a, <1>b DEF SweepLoad, Load, Goto, RequestsDoNotSweep
  <2> QED
    BY <2>1, DistinctStable DEF InFlight
<1>4. ASSUME NEW p \in Projectors, Projection(p) PROVE DistinctTargets'
  BY <1>4, <1>e DEF Projection, WriteStore, WriteFails, RecordFailure, Activate,
                    Superseded, InFlight
<1>5. ASSUME NEW i \in Ingests, Ingestion(i) PROVE DistinctTargets'
  BY <1>5, <1>d, <1>f DEF Ingestion, IngestLoad, IngestUpsert, IngestReread, IngestRestamp,
                          IngestIndex, IngestPromote, IngestShow
<1>6. ASSUME NEW b \in Backfills, Backfill(b) PROVE DistinctTargets'
  BY <1>6, <1>d, <1>f DEF Backfill, BackfillLoad, BackfillUpsert, BackfillFinish
<1>7. ASSUME NEW p \in Writers, Killed(p) PROVE DistinctTargets'
  BY <1>7, <1>d DEF Killed
<1>8. ASSUME NEW r \in Readers, Retrieval(r) PROVE DistinctTargets'
  BY <1>8, <1>d DEF Retrieval, ReadStart, Query, Recheck
<1>9. CASE MarkDeleting \/ UNCHANGED vars \/ \E r \in ChunkReaders : ReadChunks(r)
  BY <1>9, <1>f DEF MarkDeleting, vars, ReadChunks
<1> QED
  BY <1>1, <1>2, <1>3, <1>4, <1>5, <1>6, <1>7, <1>8, <1>9 DEF Next

\* Two requests that are projecting at once never share a target revision, so at most one
\* of their compare-and-sets can match the row.
THEOREM DistinctTargetsAlways == RequestsDoNotSweep => (Spec => []DistinctTargets)
<1> SUFFICES ASSUME RequestsDoNotSweep PROVE Spec => []DistinctTargets
  OBVIOUS
<1>1. Init => RevInv /\ DistinctTargets
  BY RevInit DEF Init, DistinctTargets, InFlight, Writers, Projectors
<1>2. RevInv /\ DistinctTargets /\ [Next]_vars => (RevInv /\ DistinctTargets)'
  BY RevNext, DistinctNext
<1> QED
  BY <1>1, <1>2, PTL DEF Spec

(***************************************************************************)
(* One projector at a time.  When the requests and the sweeps of one       *)
(* document do not overlap, and nothing else writes its points, the store  *)
(* agrees with every active row and retrieve serves only lists that were   *)
(* committed during the call, whatever fails or is killed.  Without this   *)
(* assumption both are false (run AclOverlap).                             *)
(***************************************************************************)
OneProjector ==
  /\ Ingests = {} /\ Backfills = {}
  /\ \A p, q \in Projectors : p = q

Stored(a) == \A b \in Present : points[b].acl = a

SeqInv ==
  /\ RevInv
  /\ ActiveMeansStored
  /\ \A p \in Projectors :
       /\ pc[p] = "loaded" => snap[p].acl = row.acl
       /\ InFlight(p) => snap[p].acl = row.acl /\ row.index_state # "active"
       /\ pc[p] = "cas" => Stored(row.acl)

\* What a reader holds: the hits of its query, and before the query, every point that the
\* snapshot does not exclude, carry lists of its window.
ReadInv ==
  \A r \in Readers :
    /\ pc[r] # "idle" => row.acl \in window[r]
    /\ pc[r] = "query" /\ ~hidden[r] => \A b \in Present : points[b].acl \in window[r]
    /\ pc[r] \in {"recheck", "served"} => hits[r] \subseteq window[r]

\* A restamp with a list stores that list in every point.
LEMMA RestampedStored ==
  ASSUME TypeOK, NEW a \in Acl, points' = Restamped(a)
  PROVE  Stored(a)'
BY DEF TypeOK, Restamped, Stored, Present, NoPoint

\* Steps of readers and of the delete route: the projection does not see them.
LEMMA SeqStable ==
  ASSUME SeqInv, RevInv', points' = points, snap' = snap, row'.acl = row.acl,
         row'.index_state = row.index_state,
         \A p \in Projectors : pc'[p] = pc[p] \/ pc'[p] = "idle"
  PROVE  SeqInv'
BY DEF SeqInv, ActiveMeansStored, InFlight, Stored, Present

\* A step that touches neither readers, points nor list keeps what readers know.
LEMMA ReadStable ==
  ASSUME ReadInv, points' = points, row'.acl = row.acl,
         UNCHANGED readerVars, \A r \in Readers : pc'[r] = pc[r]
  PROVE  ReadInv'
BY DEF ReadInv, readerVars, Present

\* The invariant of one projector holds at first.
LEMMA SeqInit == Init => SeqInv /\ ReadInv
<1> SUFFICES ASSUME Init PROVE SeqInv /\ ReadInv
  OBVIOUS
<1>1. RevInv
  BY RevInit
<1>2. \A p \in Writers \union AllReaders : pc[p] = "idle"
  BY DEF Init
<1>3. ActiveMeansStored
  BY DEF Init, ActiveMeansStored, Present
<1> QED
  BY <1>1, <1>2, <1>3 DEF SeqInv, ReadInv, InFlight, Writers, AllReaders

\* With one projector at a time every step keeps its invariant.
LEMMA SeqNext == OneProjector /\ SeqInv /\ ReadInv /\ [Next]_vars => SeqInv' /\ ReadInv'
<1> SUFFICES ASSUME OneProjector, SeqInv, ReadInv, [Next]_vars PROVE SeqInv' /\ ReadInv'
  OBVIOUS
<1>0. RevInv' /\ RevInv /\ TypeOK /\ TypeOK'
  BY RevNext DEF SeqInv, RevInv
<1>a. /\ row \in Row /\ snap \in [Writers -> Snapshot]
      /\ pc \in [Actors -> WriterSteps \union ReaderSteps]
  BY <1>0 DEF TypeOK, Actors
<1>b. /\ \A p \in Projectors : p \in Writers /\ p \in Actors /\ p \notin AllReaders
      /\ \A r \in Readers : r \in Actors /\ r \notin Writers
      /\ Requests \subseteq Projectors /\ Sweeps \subseteq Projectors
  BY ReadersOnlyRead DEF Writers, Projectors, Actors, AllReaders
\* A projector's step does not move the readers, a reader's step not the projectors.
<1>c. ASSUME NEW p \in Projectors, NEW step, Goto(p, step)
      PROVE  /\ \A r \in Readers : pc'[r] = pc[r]
             /\ \A q \in Projectors : pc'[q] = step
  BY <1>a, <1>b, <1>c DEF Goto, OneProjector, AllReaders
<1>d. ASSUME NEW r \in Readers, NEW step, Goto(r, step)
      PROVE  /\ \A p \in Projectors : pc'[p] = pc[p]
             /\ pc'[r] = step
             /\ \A q \in Readers : q # r => pc'[q] = pc[q]
  BY <1>a, <1>b, <1>d DEF Goto, AllReaders
<1>1. ASSUME NEW r \in Requests, LoadForAcl(r) PROVE SeqInv' /\ ReadInv'
  <2>0. r \in Projectors
    BY <1>b
  <2>1. \A q \in Projectors : pc'[q] = "loaded" /\ snap'[q].acl = row.acl
    BY <1>1, <1>a, <1>b, <1>c, <2>0 DEF LoadForAcl, Load, SessionOf, OneProjector
  <2>2. SeqInv'
    BY <1>0, <1>1, <2>1 DEF SeqInv, ActiveMeansStored, LoadForAcl, InFlight, Present
  <2>3. ReadInv'
    BY <1>1, <1>c, <2>0, ReadStable DEF LoadForAcl
  <2> QED
    BY <2>2, <2>3
<1>2. ASSUME NEW r \in Requests, CommitAcl(r) PROVE SeqInv' /\ ReadInv'
  <2>0. r \in Projectors /\ snap[r].acl = row.acl
    BY <1>b, <1>2 DEF SeqInv, CommitAcl
  <2>1. PICK a \in Acl :
          /\ row' = [row EXCEPT !.acl = IF a # snap[r].acl THEN a ELSE @,
                                !.revision = @ + 1, !.index_state = "pending"]
          /\ snap' = [snap EXCEPT ![r] = [acl |-> a, revision |-> row.revision + 1,
                                          index_state |-> "pending"]]
    BY <1>2 DEF CommitAcl
  <2>2. row'.acl = a /\ row'.index_state = "pending" /\ snap'[r].acl = a
    BY <1>a, <1>b, <2>0, <2>1 DEF Row
  <2>3. \A q \in Projectors : pc'[q] = "write" /\ snap'[q].acl = row'.acl
    BY <1>2, <1>c, <2>0, <2>2 DEF CommitAcl, OneProjector
  <2>4. SeqInv'
    BY <1>0, <2>2, <2>3 DEF SeqInv, ActiveMeansStored, InFlight
  <2>5. ReadInv'
    <3>1. \A q \in Readers : window'[q] = window[q] \union {row'.acl} /\ pc'[q] = pc[q]
      BY <1>2, <1>c, <2>0 DEF CommitAcl
    <3> QED
      BY <1>2, <3>1 DEF ReadInv, CommitAcl, Present
  <2> QED
    BY <2>4, <2>5
<1>3. ASSUME NEW s \in Sweeps, SweepLoad(s) PROVE SeqInv' /\ ReadInv'
  <2>0. s \in Projectors
    BY <1>b
  <2>1. row.index_state # "active"
    BY <1>0, <1>3 DEF SweepLoad, RevInv, ActiveIsProjected
  <2>2. \A q \in Projectors : pc'[q] = "write" /\ snap'[q].acl = row.acl
    BY <1>3, <1>a, <1>b, <1>c, <2>0 DEF SweepLoad, Load, SessionOf, OneProjector
  <2>3. SeqInv'
    BY <1>0, <1>3, <2>1, <2>2 DEF SeqInv, ActiveMeansStored, SweepLoad, InFlight
  <2>4. ReadInv'
    BY <1>3, <1>c, <2>0, ReadStable DEF SweepLoad
  <2> QED
    BY <2>3, <2>4
<1>4. ASSUME NEW p \in Projectors, Projection(p) PROVE SeqInv' /\ ReadInv'
  <2>0. /\ InFlight(p) /\ snap[p].acl = row.acl /\ row.index_state # "active"
        /\ snap[p].acl \in Acl
    BY <1>4, <1>a, <1>b DEF Projection, WriteStore, WriteFails, RecordFailure, Activate,
                            Superseded, InFlight, SeqInv, Snapshot
  <2>1. ASSUME points' \in {points, Restamped(row.acl)}, UNCHANGED readerVars,
               row'.acl = row.acl, \A r \in Readers : pc'[r] = pc[r]
        PROVE  ReadInv'
    <3>1. CASE points' = points
      BY <2>1, <3>1, ReadStable
    <3>2. CASE points' = Restamped(row.acl)
      <4>1. Stored(row.acl)'
        BY <1>0, <2>0, <2>1, <3>2, RestampedStored DEF Stored
      <4> QED
        BY <2>1, <4>1 DEF ReadInv, readerVars, Stored
    <3> QED
      BY <2>1, <3>1, <3>2
  <2>2. CASE WriteStore(p)
    <3>1. Stored(row.acl)'
      BY <1>0, <2>0, <2>2, RestampedStored DEF WriteStore, Stored
    <3>2. \A q \in Projectors : pc'[q] = "cas" /\ snap'[q].acl = row.acl
      BY <2>2, <2>0, <1>c DEF WriteStore, OneProjector
    <3>3. SeqInv'
      BY <1>0, <2>0, <2>2, <3>1, <3>2 DEF SeqInv, ActiveMeansStored, WriteStore, InFlight, Stored
    <3> QED
      BY <2>0, <2>1, <2>2, <3>3, <1>c DEF WriteStore
  <2>3. CASE WriteFails(p)
    <3>1. \A q \in Projectors : pc'[q] = "fail" /\ snap'[q].acl = row.acl
      BY <2>3, <2>0, <1>c DEF WriteFails, OneProjector
    <3>2. SeqInv'
      BY <1>0, <2>0, <2>3, <3>1 DEF SeqInv, ActiveMeansStored, WriteFails, InFlight
    <3> QED
      BY <2>0, <2>1, <2>3, <3>2, <1>c DEF WriteFails
  <2>4. CASE RecordFailure(p)
    <3>1. row'.acl = row.acl /\ row'.index_state # "active"
      BY <1>a, <2>0, <2>4 DEF RecordFailure, Row
    <3>2. SeqInv'
      BY <1>0, <1>c, <2>4, <3>1 DEF SeqInv, ActiveMeansStored, RecordFailure, InFlight
    <3> QED
      BY <2>1, <2>4, <3>1, <3>2, <1>c DEF RecordFailure
  <2>5. CASE Activate(p)
    <3>1. row'.acl = row.acl /\ Stored(row.acl)
      BY <1>a, <2>5 DEF Activate, Row, SeqInv
    <3>2. ActiveMeansStored'
      BY <2>5, <3>1 DEF ActiveMeansStored, Activate, Stored, Present
    <3>3. SeqInv'
      BY <1>0, <1>c, <2>5, <3>2 DEF SeqInv, Activate, InFlight
    <3> QED
      BY <2>1, <2>5, <3>1, <3>3, <1>c DEF Activate
  <2>6. CASE Superseded(p)
    <3>1. row'.acl = row.acl /\ row'.index_state = "pending"
      BY <1>a, <2>6 DEF Superseded, Row
    <3>2. SeqInv'
      BY <1>0, <1>c, <2>6, <3>1 DEF SeqInv, ActiveMeansStored, Superseded, InFlight
    <3> QED
      BY <2>1, <2>6, <3>1, <3>2, <1>c DEF Superseded
  <2> QED
    BY <1>4, <2>2, <2>3, <2>4, <2>5, <2>6 DEF Projection
<1>5. ASSUME NEW p \in Writers, Killed(p) PROVE SeqInv' /\ ReadInv'
  <2>1. p \in Projectors
    BY DEF OneProjector, Writers
  <2>2. \A q \in Projectors : pc'[q] = "idle"
    BY <1>5, <1>c, <2>1 DEF Killed
  <2>3. SeqInv'
    BY <1>0, <1>5, <2>2, SeqStable DEF Killed
  <2>4. ReadInv'
    BY <1>5, <1>c, <2>1, ReadStable DEF Killed
  <2> QED
    BY <2>3, <2>4
<1>6. ASSUME MarkDeleting PROVE SeqInv' /\ ReadInv'
  <2>1. row'.acl = row.acl /\ row'.index_state = row.index_state
    BY <1>6, <1>a DEF MarkDeleting, Row
  <2> QED
    BY <1>0, <1>6, <2>1, SeqStable, ReadStable DEF MarkDeleting
<1>7. ASSUME NEW r \in Readers, Retrieval(r) PROVE SeqInv' /\ ReadInv'
  <2>1. SeqInv'
    BY <1>0, <1>7, <1>d, SeqStable DEF Retrieval, ReadStart, Query, Recheck
  <2>2. CASE ReadStart(r)
    <3>1. /\ window'[r] = {row.acl}
          /\ \A q \in Readers : q # r => window'[q] = window[q] /\ hits'[q] = hits[q]
                                          /\ hidden'[q] = hidden[q]
          /\ ~hidden'[r] => row.index_state = "active"
      BY <2>2, <1>0 DEF ReadStart, TypeOK, AllReaders
    <3>2. ~hidden'[r] => \A b \in Present : points[b].acl = row.acl
      BY <3>1 DEF SeqInv, ActiveMeansStored
    <3> QED
      BY <2>1, <2>2, <3>1, <3>2, <1>d DEF ReadInv, ReadStart, Present
  <2>3. CASE Query(r)
    <3>1. /\ hits'[r] = {points[b].acl : b \in {c \in Present : points[c].current /\ ~hidden[r]}}
          /\ \A q \in Readers : q # r => hits'[q] = hits[q]
      BY <2>3, <1>0 DEF Query, TypeOK, AllReaders
    <3>2. hits'[r] \subseteq window[r]
      BY <2>3, <3>1 DEF ReadInv, Query
    <3> QED
      BY <2>1, <2>3, <3>1, <3>2, <1>d DEF ReadInv, Query, Present
  <2>4. CASE Recheck(r)
    <3>1. /\ hits'[r] \subseteq hits[r]
          /\ \A q \in Readers : q # r => hits'[q] = hits[q]
      BY <2>4, <1>0 DEF Recheck, TypeOK, AllReaders
    <3> QED
      BY <2>1, <2>4, <3>1, <1>d DEF ReadInv, Recheck, Present
  <2> QED
    BY <1>7, <2>2, <2>3, <2>4 DEF Retrieval
<1>8. ASSUME NEW r \in ChunkReaders, ReadChunks(r) PROVE SeqInv' /\ ReadInv'
  <2>1. SeqInv'
    BY <1>0, <1>8, SeqStable DEF ReadChunks
  <2>2. \A q \in Readers : hits'[q] = hits[q]
    BY <1>8, <1>0, ReadersApart DEF ReadChunks, TypeOK, AllReaders
  <2>3. ReadInv'
    BY <1>8, <2>2 DEF ReadInv, ReadChunks, Present
  <2> QED
    BY <2>1, <2>3
<1>9. CASE UNCHANGED vars
  BY <1>0, <1>9, SeqStable, ReadStable DEF vars, readerVars
<1> QED
  BY <1>1, <1>2, <1>3, <1>4, <1>5, <1>6, <1>7, <1>8, <1>9 DEF Next, OneProjector

\* With one projector at a time, an active row means that every stored point carries the
\* committed access list, through failed and half-applied store calls and crashes.
THEOREM ActiveMeansStoredAlways == OneProjector => (Spec => []ActiveMeansStored)
<1> SUFFICES ASSUME OneProjector PROVE Spec => []ActiveMeansStored
  OBVIOUS
<1>1. SeqInv /\ ReadInv /\ [Next]_vars => (SeqInv /\ ReadInv)'
  BY SeqNext
<1>2. SeqInv => ActiveMeansStored
  BY DEF SeqInv
<1> QED
  BY <1>1, <1>2, SeqInit, PTL DEF Spec

\* With one projector at a time, retrieve serves a point only under an access list that was
\* committed between the start of the call and its answer.
THEOREM ServedWasCommittedAlways == OneProjector => (Spec => []ServedWasCommitted)
<1> SUFFICES ASSUME OneProjector PROVE Spec => []ServedWasCommitted
  OBVIOUS
<1>1. SeqInv /\ ReadInv /\ [Next]_vars => (SeqInv /\ ReadInv)'
  BY SeqNext
<1>2. ReadInv => ServedWasCommitted
  BY DEF ReadInv, ServedWasCommitted
<1> QED
  BY <1>1, <1>2, SeqInit, PTL DEF Spec

(***************************************************************************)
(* The restamp.  One projector and one task that writes payloads may       *)
(* overlap in any way; a second of either may write an older list between  *)
(* the restamp and the mark.                                               *)
(***************************************************************************)
OneOfEach ==
  /\ \A p, q \in Projectors : p = q
  /\ \A i, j \in Ingests \union Backfills : i = j

\* How far the ingestion i has come: the batches behind it are there, and the row it
\* read again is the committed one unless the revision moved since.
Restamping(i) ==
  /\ pc[i] = "upsert" => \A b \in 1..done[i] : points[b] # NoPoint
  /\ pc[i] \in {"restamp", "index"} =>
       /\ \A b \in Batches : points[b] # NoPoint
       /\ snap[i].revision = row.revision => snap[i].acl = row.acl

Projecting(p) == pc[p] = "loaded" \/ InFlight(p) => snap[p].acl = row.acl

RestampInv ==
  /\ RevInv
  /\ \A p \in Projectors : Projecting(p)
  /\ \A i \in Ingests : Restamping(i)
  /\ IngestRestampsAll

\* Steps that leave the store, the list and the tasks' copies alone.
LEMMA RestampStable ==
  ASSUME RestampInv, RevInv', points' = points, snap' = snap, done' = done,
         row'.acl = row.acl, row'.revision = row.revision,
         \A p \in Writers : \/ pc'[p] = pc[p]
                            \/ pc'[p] \in {"idle", "promote", "show", "query", "recheck", "served"}
  PROVE  RestampInv'
BY DEF RestampInv, Projecting, Restamping, IngestRestampsAll, InFlight, Writers, Projectors

\* The invariant of one ingestion beside one request holds at first.
LEMMA RestampInit == Init => RestampInv
<1> SUFFICES ASSUME Init PROVE RestampInv
  OBVIOUS
<1>1. \A p \in Writers : pc[p] = "idle"
  BY DEF Init
<1> QED
  BY <1>1, RevInit DEF RestampInv, Projecting, Restamping, IngestRestampsAll, InFlight, Writers,
                       Projectors

\* With one of each, every step keeps the invariant of the restamp.
LEMMA RestampNext == OneOfEach /\ RestampInv /\ [Next]_vars => RestampInv'
<1> SUFFICES ASSUME OneOfEach, RestampInv, [Next]_vars PROVE RestampInv'
  OBVIOUS
<1>0. RevInv' /\ RevInv /\ TypeOK /\ TypeOK'
  BY RevNext DEF RestampInv, RevInv
<1>a. /\ row \in Row /\ snap \in [Writers -> Snapshot] /\ done \in [Writers -> 0..NumBatches]
      /\ pc \in [Actors -> WriterSteps \union ReaderSteps]
      /\ points \in [Batches -> Payload \union {NoPoint}] /\ NumBatches \in Nat
  BY <1>0, NumBatchesPos DEF TypeOK, Actors
<1>b. /\ \A p \in Projectors : p \in Writers
      /\ \A i \in Ingests \union Backfills : i \in Writers
      /\ \A p \in Writers : p \in Actors /\ p \notin AllReaders
      /\ Requests \subseteq Projectors /\ Sweeps \subseteq Projectors
  BY ReadersOnlyRead DEF Writers, Projectors, Actors, AllReaders
<1>c. ASSUME NEW p \in Writers, NEW step, Goto(p, step)
      PROVE  pc'[p] = step /\ \A q \in Writers : q # p => pc'[q] = pc[q]
  BY <1>a, <1>b, <1>c DEF Goto
<1>d. ASSUME NEW p \in Writers, Load(p)
      PROVE  /\ snap'[p].acl = row.acl /\ snap'[p].revision = row.revision
             /\ \A q \in Writers : q # p => snap'[q] = snap[q]
  BY <1>a, <1>d DEF Load, SessionOf
\* A restamp puts the committed list on every point, and takes none away.
<1>e. ASSUME NEW a \in Acl, points' = Restamped(a)
      PROVE  \A b \in Batches : points[b] # NoPoint => points'[b] # NoPoint /\ points'[b].acl = a
  BY <1>a, <1>e, AclNonEmpty DEF Restamped, Payload, NoPoint
<1>1. ASSUME NEW r \in Requests, LoadForAcl(r) PROVE RestampInv'
  <2>1. r \in Writers /\ pc'[r] = "loaded" /\ snap'[r].acl = row.acl
        /\ \A q \in Writers : q # r => pc'[q] = pc[q] /\ snap'[q] = snap[q]
    BY <1>1, <1>b, <1>c, <1>d DEF LoadForAcl
  <2> QED
    BY <1>0, <1>1, <1>b, <2>1 DEF LoadForAcl, RestampInv, Projecting, Restamping,
                                  IngestRestampsAll, InFlight
<1>2. ASSUME NEW r \in Requests, CommitAcl(r) PROVE RestampInv'
  <2>0. r \in Projectors /\ r \in Writers /\ snap[r].acl = row.acl
    BY <1>2, <1>b DEF RestampInv, Projecting, CommitAcl
  <2>1. PICK a \in Acl :
          /\ row' = [row EXCEPT !.acl = IF a # snap[r].acl THEN a ELSE @,
                                !.revision = @ + 1, !.index_state = "pending"]
          /\ snap' = [snap EXCEPT ![r] = [acl |-> a, revision |-> row.revision + 1,
                                          index_state |-> "pending"]]
    BY <1>2 DEF CommitAcl
  <2>2. row'.acl = a /\ row'.revision = row.revision + 1 /\ snap'[r].acl = a
        /\ \A q \in Writers : q # r => snap'[q] = snap[q]
    BY <1>a, <1>b, <2>0, <2>1 DEF Row
  <2>3. pc'[r] = "write" /\ \A q \in Writers : q # r => pc'[q] = pc[q]
    BY <1>2, <1>c, <2>0 DEF CommitAcl
  <2>4. \A p \in Projectors : p = r
    BY <2>0 DEF OneOfEach
  <2>5. \A q \in Writers : snap[q].revision < row'.revision
    BY <1>0, <1>a, <2>2, BoundsNat DEF RevInv, SnapBehind, Snapshot, Row, Revisions
  <2>6. \A p \in Projectors : Projecting(p)'
    BY <2>2, <2>3, <2>4 DEF Projecting
  <2>7. points' = points /\ done' = done
    BY <1>2 DEF CommitAcl
  <2>8. ASSUME NEW i \in Ingests PROVE Restamping(i)'
    <3>1. i \in Writers /\ Restamping(i)
      BY <1>b DEF RestampInv
    <3>2. CASE i = r
      BY <2>3, <3>2 DEF Restamping
    <3>3. CASE i # r
      <4>1. pc'[i] = pc[i] /\ snap'[i].revision # row'.revision
        BY <2>2, <2>3, <2>5, <3>1, <3>3, <1>a, BoundsNat DEF Snapshot, Revisions
      <4> QED
        BY <2>7, <3>1, <4>1 DEF Restamping
    <3> QED
      BY <3>2, <3>3
  <2>9. IngestRestampsAll'
    <3> SUFFICES ASSUME NEW i \in Ingests, (pc[i] = "index")', (snap[i].revision = row.revision)'
                 PROVE  FALSE
      BY DEF IngestRestampsAll
    <3>1. i \in Writers
      BY <1>b
    <3>2. i # r
      BY <2>3
    <3>3. snap'[i].revision # row'.revision
      BY <2>2, <2>5, <3>1, <3>2, <1>a, BoundsNat DEF Snapshot, Revisions
    <3> QED
      BY <3>3
  <2> QED
    BY <1>0, <2>6, <2>8, <2>9 DEF RestampInv
<1>3. ASSUME NEW s \in Sweeps, SweepLoad(s) PROVE RestampInv'
  <2>1. s \in Writers /\ pc'[s] = "write" /\ snap'[s].acl = row.acl
        /\ \A q \in Writers : q # s => pc'[q] = pc[q] /\ snap'[q] = snap[q]
    BY <1>3, <1>b, <1>c, <1>d DEF SweepLoad
  <2> QED
    BY <1>0, <1>3, <1>b, <2>1 DEF SweepLoad, RestampInv, Projecting, Restamping,
                                  IngestRestampsAll, InFlight
<1>4. ASSUME NEW p \in Projectors, Projection(p) PROVE RestampInv'
  <2>0. /\ p \in Writers /\ snap[p].acl = row.acl /\ snap[p].acl \in Acl
        /\ \A q \in Projectors : q = p
    BY <1>4, <1>a, <1>b DEF Projection, WriteStore, WriteFails, RecordFailure, Activate,
                            Superseded, InFlight, RestampInv, Projecting, Snapshot, OneOfEach
  <2>1. CASE WriteStore(p) \/ WriteFails(p)
    <3>1. /\ points' = points \/ points' = Restamped(row.acl)
          /\ row' = row /\ snap' = snap /\ done' = done
      BY <2>0, <2>1 DEF WriteStore, WriteFails
    <3>2. pc'[p] \in {"cas", "fail"} /\ \A q \in Writers : q # p => pc'[q] = pc[q]
      BY <1>c, <2>0, <2>1 DEF WriteStore, WriteFails
    <3>3. \A b \in Batches : points[b] # NoPoint =>
             points'[b] # NoPoint /\ (points'[b].acl = row.acl \/ points'[b] = points[b])
      BY <1>e, <2>0, <3>1
    <3>4. \A i \in Ingests : Restamping(i)'
      BY <1>a, <1>b, <3>1, <3>2, <3>3 DEF RestampInv, Restamping, Batches
    <3>5. IngestRestampsAll'
      BY <1>b, <3>1, <3>2, <3>3 DEF RestampInv, Restamping, IngestRestampsAll
    <3> QED
      BY <1>0, <2>0, <3>1, <3>2, <3>4, <3>5 DEF RestampInv, Projecting
  <2>2. CASE RecordFailure(p) \/ Activate(p) \/ Superseded(p)
    <3>1. row'.acl = row.acl /\ row'.revision = row.revision
      BY <1>a, <2>2 DEF RecordFailure, Activate, Superseded, Row
    <3>2. pc'[p] = "idle" /\ \A q \in Writers : q # p => pc'[q] = pc[q]
      BY <1>c, <2>0, <2>2 DEF RecordFailure, Activate, Superseded
    <3> QED
      BY <1>0, <2>2, <3>1, <3>2, RestampStable DEF RecordFailure, Activate, Superseded
  <2> QED
    BY <1>4, <2>1, <2>2 DEF Projection
<1>5. ASSUME NEW i \in Ingests, Ingestion(i) PROVE RestampInv'
  <2>0. i \in Writers /\ \A j \in Ingests : j = i
    BY <1>b DEF OneOfEach
  <2>1. CASE IngestLoad(i)
    <3>1. row'.acl = row.acl /\ row'.revision = row.revision /\ done'[i] = 0 /\ points' = points
      BY <1>a, <2>0, <2>1 DEF IngestLoad, Row
    <3>2. pc'[i] = "upsert" /\ \A q \in Writers : q # i => pc'[q] = pc[q] /\ snap'[q] = snap[q]
      BY <1>c, <1>d, <2>0, <2>1 DEF IngestLoad
    <3> QED
      BY <1>0, <1>b, <2>0, <3>1, <3>2 DEF RestampInv, Projecting, Restamping, IngestRestampsAll,
                                          InFlight
  <2>2. CASE IngestUpsert(i)
    <3>1. /\ done[i] \in 0..NumBatches /\ done[i] < NumBatches /\ done'[i] = done[i] + 1
          /\ snap[i].acl \in Acl /\ UNCHANGED <<row, snap, pc>> /\ pc[i] = "upsert"
      BY <1>a, <2>0, <2>2 DEF IngestUpsert, Snapshot
    <3>2. points'[done[i] + 1] # NoPoint
      BY <1>a, <2>2, <3>1, AclNonEmpty DEF IngestUpsert, NoPoint, Batches
    <3>3. \A b \in 1..done[i] : points'[b] # NoPoint
      BY <1>a, <2>0, <2>2, <3>1 DEF IngestUpsert, RestampInv, Restamping, Batches
    <3>4. Restamping(i)'
      BY <1>a, <3>1, <3>2, <3>3 DEF Restamping
    <3> QED
      BY <1>0, <2>0, <3>1, <3>4 DEF RestampInv, Projecting, IngestRestampsAll, InFlight
  <2>3. CASE IngestReread(i)
    <3>1. /\ pc'[i] = "restamp" /\ snap'[i].acl = row.acl /\ UNCHANGED <<row, points>>
          /\ \A q \in Writers : q # i => pc'[q] = pc[q] /\ snap'[q] = snap[q]
      BY <1>c, <1>d, <2>0, <2>3 DEF IngestReread
    <3>2. \A b \in Batches : points[b] # NoPoint
      BY <1>a, <2>0, <2>3 DEF IngestReread, RestampInv, Restamping, Batches
    <3> QED
      BY <1>0, <1>b, <2>0, <3>1, <3>2 DEF RestampInv, Projecting, Restamping, IngestRestampsAll,
                                          InFlight
  <2>4. CASE IngestRestamp(i)
    <3>1. /\ pc'[i] = "index" /\ UNCHANGED <<row, snap>> /\ snap[i].acl \in Acl
          /\ \A q \in Writers : q # i => pc'[q] = pc[q]
      BY <1>a, <1>c, <2>0, <2>4 DEF IngestRestamp, Snapshot
    <3>2. /\ \A b \in Batches : points'[b] # NoPoint /\ points'[b].acl = snap[i].acl
          /\ snap[i].revision = row.revision => snap[i].acl = row.acl
      BY <1>e, <2>0, <2>4, <3>1 DEF IngestRestamp, RestampInv, Restamping
    <3> QED
      BY <1>0, <1>b, <2>0, <3>1, <3>2 DEF RestampInv, Projecting, Restamping, IngestRestampsAll,
                                          InFlight
  <2>5. CASE IngestIndex(i) \/ IngestPromote(i)
    <3>1. /\ row'.acl = row.acl /\ row'.revision = row.revision
          /\ UNCHANGED <<points, snap, done>>
      BY <1>a, <2>5 DEF IngestIndex, IngestPromote, Row
    <3>2. /\ pc'[i] \in {"promote", "show", "idle"}
          /\ \A q \in Writers : q # i => pc'[q] = pc[q]
      BY <1>c, <2>0, <2>5 DEF IngestIndex, IngestPromote
    <3> QED
      BY <1>0, <3>1, <3>2, RestampStable
  <2>6. CASE IngestShow(i)
    <3>1. /\ pc'[i] = "idle" /\ UNCHANGED <<row, snap>>
          /\ \A q \in Writers : q # i => pc'[q] = pc[q]
      BY <1>c, <2>0, <2>6 DEF IngestShow
    <3> QED
      BY <1>0, <1>b, <2>0, <3>1 DEF RestampInv, Projecting, Restamping, IngestRestampsAll, InFlight
  <2> QED
    BY <1>5, <2>1, <2>2, <2>3, <2>4, <2>5, <2>6 DEF Ingestion
<1>6. ASSUME NEW i \in Backfills, Backfill(i) PROVE RestampInv'
  <2>0. i \in Writers /\ \A j \in Ingests : j = i
    BY <1>b DEF OneOfEach
  <2>1. CASE BackfillLoad(i)
    <3>1. /\ pc'[i] = "backfill" /\ UNCHANGED <<row, points>>
          /\ \A q \in Writers : q # i => pc'[q] = pc[q] /\ snap'[q] = snap[q]
      BY <1>c, <1>d, <2>0, <2>1 DEF BackfillLoad
    <3> QED
      BY <1>0, <1>b, <2>0, <3>1 DEF RestampInv, Projecting, Restamping, IngestRestampsAll, InFlight
  <2>2. CASE BackfillUpsert(i)
    BY <1>0, <2>0, <2>2 DEF BackfillUpsert, RestampInv, Projecting, Restamping, IngestRestampsAll,
                            InFlight
  <2>3. CASE BackfillFinish(i)
    <3>1. row'.acl = row.acl /\ row'.revision = row.revision
      BY <1>a, <2>3 DEF BackfillFinish, Row
    <3>2. pc'[i] = "idle" /\ \A q \in Writers : q # i => pc'[q] = pc[q]
      BY <1>c, <2>0, <2>3 DEF BackfillFinish
    <3> QED
      BY <1>0, <2>3, <3>1, <3>2, RestampStable DEF BackfillFinish
  <2> QED
    BY <1>6, <2>1, <2>2, <2>3 DEF Backfill
<1>7. ASSUME NEW p \in Writers, Killed(p) PROVE RestampInv'
  BY <1>0, <1>7, <1>c, RestampStable DEF Killed
<1>8. ASSUME MarkDeleting PROVE RestampInv'
  <2>1. row'.acl = row.acl /\ row'.revision = row.revision
    BY <1>8, <1>a DEF MarkDeleting, Row
  <2> QED
    BY <1>0, <1>8, <2>1, RestampStable DEF MarkDeleting
<1>9. ASSUME NEW r \in Readers, Retrieval(r) PROVE RestampInv'
  <2>1. \A q \in Writers : pc'[q] = pc[q]
    BY <1>9, <1>a, <1>b DEF Retrieval, ReadStart, Query, Recheck, Goto, AllReaders
  <2> QED
    BY <1>0, <1>9, <2>1, RestampStable DEF Retrieval, ReadStart, Query, Recheck
<1>10. ASSUME NEW r \in ChunkReaders, ReadChunks(r) PROVE RestampInv'
  BY <1>0, <1>10, RestampStable DEF ReadChunks
<1>11. CASE UNCHANGED vars
  BY <1>0, <1>11, RestampStable DEF vars
<1> QED
  BY <1>1, <1>2, <1>3, <1>4, <1>5, <1>6, <1>7, <1>8, <1>9, <1>10, <1>11 DEF Next

\* With one projector and one task that writes payloads, unless the list was changed after
\* the row was read again, every point carries the committed list when run_embed_upsert
\* marks the document indexed, through killed processes and failed calls.
THEOREM IngestRestampsAllAlways == OneOfEach => (Spec => []IngestRestampsAll)
<1> SUFFICES ASSUME OneOfEach PROVE Spec => []IngestRestampsAll
  OBVIOUS
<1>1. RestampInv /\ [Next]_vars => RestampInv'
  BY RestampNext
<1>2. RestampInv => IngestRestampsAll
  BY DEF RestampInv
<1> QED
  BY <1>1, <1>2, RestampInit, PTL DEF Spec

-----------------------------------------------------------------------------
(* The composed system. *)

\* The same beside whatever else comes in, as the run checks it: unless the list was
\* changed after the row was read again, run_embed_upsert marks a document indexed only
\* when every point carries the committed list.
THEOREM IngestRestampsAllHere == OneOfEach => (DocumentsSpec => []IngestRestampsAll)
<1>1. DocumentsInit => Init
  BY DEF DocumentsInit
<1>2. [DocumentsNext]_documentVars => [Next]_vars
  BY DEF DocumentsNext, documentVars
<1>3. DocumentsSpec => Spec
  BY <1>1, <1>2, PTL DEF DocumentsSpec, Spec
<1> QED
  BY <1>3, IngestRestampsAllAlways

\* What the sweep of stuck documents and Metadata keep for any instance, for those here; the
\* other modules of DeliveryProofs are not part of this system, and nothing is said of them.
Resending == INSTANCE DeliveryProofs
    WITH Workers <- {}, Messages <- {}, Platforms <- {}, Skew <- 0, TTL <- 0, MarkTTL <- 0,
         MaxTime <- 0, platform <- 0, signed <- <<>>, time <- 0, seen <- {}, mark <- 0, bot <- 0,
         convo <- 0, work <- <<>>, done <- <<>>,
         Queries <- {}, Scorers <- {}, Members <- {}, MaxChanges <- 0, MaxEvents <- 0,
         MaxNights <- 0, MaxStarts <- 0, settings <- 0, golden <- {}, request <- <<>>,
         events <- <<>>, nights <- 0, runs <- <<>>, scoring <- <<>>,
         Askers <- {}, Payers <- {}, Allotments <- {}, Lived <- 0, Late <- 0, Month <- 0,
         MaxRows <- 0, Horizon <- 0, instant <- 0, ledger <- {}, userQuota <- <<>>, orgQuota <- 0,
         cache <- <<>>, check <- <<>>, full <- <<>>,
         FirstYear <- 0, LastYear <- 0, date <- <<>>, resetDay <- 0,
         Loops <- {}, AskerOf <- <<>>, House <- 0, Cap <- <<>>, Calls <- 0, Iterations <- 0,
         Addresses <- {}, Base <- 0, Days <- 0, providers <- 0, today <- 0, count <- <<>>,
         gather <- <<>>,
         Attached <- {}, MaxKills <- 0, attachment <- <<>>, old <- {}, blob <- {}, chunks <- {},
         queue <- {}, extracting <- 0, send <- <<>>, sweep <- <<>>, deaths <- 0, dangling <- {},
         Papers <- {d1, d2}, Cutoff <- 2, Limit <- 2, MaxOwed <- 2, Clock <- 5,
         Kinds <- [kind |-> "select", day |-> "date"], Presets <- {"kind"},
         Bodies <- {[kind |-> 1, day |-> 0], [kind |-> 2, day |-> 1]}, Filters <- Search,
         Editors <- {"r1", "r2"}, Parts <- 1..2, MaxLosses <- 1,
         Filers <- {q1, q2}, Movers <- {}, Shelves <- {f1, f2, f3}, Titles <- {n1, n2},
         Ways <- {<<n1>>, <<n1, n2>>}, Filed <- {n3}

\* The two instances of StuckSweep take the same documents in a sweep.
LEMMA SameSweep == Sweeping!Sweep <=> Resending!Sweeping!Sweep
  BY DEF Sweeping!Waiting, Sweeping!NoJob, Sweeping!Liveness, Sweeping!Silent,
     Sweeping!Sweep, Sweeping!Min, Sweeping!Cardinality, Resending!Sweeping!Waiting,
     Resending!Sweeping!NoJob, Resending!Sweeping!Liveness, Resending!Sweeping!Silent,
     Resending!Sweeping!Sweep, Resending!Sweeping!Min, Resending!Sweeping!Cardinality

\* The sweep of the run is that of StuckSweep.
LEMMA SweepsHere == DocumentsSpec => Resending!Sweeping!Spec
<1>1. DocumentsInit => Resending!Sweeping!Init
  BY DEF DocumentsInit, Sweeping!NoJob, Sweeping!Init, Resending!Sweeping!NoJob,
     Resending!Sweeping!Init
<1>2. [DocumentsNext]_documentVars => [Sweeping!Next]_(Sweeping!sweepVars)
  BY DEF DocumentsNext, documentVars, sweepVars, Sweeping!sweepVars
<1>3. [Sweeping!Next]_(Sweeping!sweepVars) => [Resending!Sweeping!Next]_(Resending!Sweeping!sweepVars)
  <2>1. ASSUME NEW d \in {d1, d2}
        PROVE  /\ Sweeping!Upload(d) <=> Resending!Sweeping!Upload(d)
               /\ Sweeping!RequestDelete(d) <=> Resending!Sweeping!RequestDelete(d)
               /\ Sweeping!Take(d) <=> Resending!Sweeping!Take(d)
               /\ Sweeping!Progress(d) <=> Resending!Sweeping!Progress(d)
               /\ Sweeping!FinishIngest(d) <=> Resending!Sweeping!FinishIngest(d)
               /\ Sweeping!FinishDelete(d) <=> Resending!Sweeping!FinishDelete(d)
               /\ Sweeping!Lose(d) <=> Resending!Sweeping!Lose(d)
    BY DEF Sweeping!NoJob, Sweeping!Waiting, Sweeping!SetRow, Sweeping!SetWorker,
       Sweeping!Owe, Sweeping!Seen, Sweeping!Upload, Sweeping!RequestDelete,
       Sweeping!Take, Sweeping!Progress, Sweeping!FinishIngest, Sweeping!FinishDelete,
       Sweeping!Lose, Resending!Sweeping!NoJob, Resending!Sweeping!Waiting,
       Resending!Sweeping!SetRow, Resending!Sweeping!SetWorker, Resending!Sweeping!Owe,
       Resending!Sweeping!Seen, Resending!Sweeping!Upload,
       Resending!Sweeping!RequestDelete, Resending!Sweeping!Take,
       Resending!Sweeping!Progress, Resending!Sweeping!FinishIngest,
       Resending!Sweeping!FinishDelete, Resending!Sweeping!Lose
  <2>2. Sweeping!Sweep <=> Resending!Sweeping!Sweep
    BY SameSweep
  <2>3. Sweeping!Tick <=> Resending!Sweeping!Tick
    BY DEF Sweeping!Tick, Resending!Sweeping!Tick
  <2>4. UNCHANGED Sweeping!sweepVars <=> UNCHANGED Resending!Sweeping!sweepVars
    BY DEF Sweeping!sweepVars, Resending!Sweeping!sweepVars
  <2> QED
    BY <2>1, <2>2, <2>3, <2>4 DEF Sweeping!Next, Resending!Sweeping!Next
<1> QED
  BY <1>1, <1>2, <1>3, PTL DEF DocumentsSpec, Resending!Sweeping!Spec

\* A document that waits with no message and no worker is sent again at most one beat
\* after the cutoff, and a stage that goes on is left alone, beside whatever else comes in:
\* reconcile_stuck_documents.
THEOREM OnlyStrandedAreSweptHere == DocumentsSpec => OnlyStrandedAreSwept
<1> DEFINE Taken == \A d \in {d1, d2} :
             /\ Sweeping!Stranded(d)' => beat' <= since'[d] + 2 + 1
             /\ Sweeping!Sweep /\ worker[d] = "ingest" => owed'[d] = owed[d]
<1> DEFINE TakenThere == \A d \in {d1, d2} :
             /\ Resending!Sweeping!Stranded(d)' => beat' <= since'[d] + 2 + 1
             /\ Resending!Sweeping!Sweep /\ worker[d] = "ingest" => owed'[d] = owed[d]
<1>1. Resending!SweepBounds
  <2>1. IsFiniteSet({d1}) /\ Cardinality({d1}) = 1
    BY FS_Singleton
  <2>2. IsFiniteSet({d1} \union {d2}) /\ Cardinality({d1} \union {d2}) <= 2
    BY <2>1, FS_AddElement
  <2>3. {d1} \union {d2} = {d1, d2}
    OBVIOUS
  <2>4. Resending!IsFiniteSet({d1, d2}) /\ Resending!Cardinality({d1, d2}) <= 2
    BY <2>2, <2>3 DEF IsFiniteSet, Cardinality, Resending!IsFiniteSet, Resending!Cardinality
  <2> QED
    BY <2>4 DEF Resending!SweepBounds
<1>2. Resending!Sweeping!Spec => Resending!Sweeping!OnlyStrandedAreSwept
  BY <1>1, Resending!OnlyStrandedAreSweptAlways
<1>3. TakenThere => Taken
  BY SameSweep DEF Sweeping!Stranded, Resending!Sweeping!Stranded, Sweeping!Waiting,
     Resending!Sweeping!Waiting
<1>4. [TakenThere]_(Resending!Sweeping!sweepVars) => [Taken]_(Sweeping!sweepVars)
  BY <1>3 DEF Sweeping!sweepVars, Resending!Sweeping!sweepVars
<1>5. Resending!Sweeping!OnlyStrandedAreSwept <=> [][TakenThere]_(Resending!Sweeping!sweepVars)
  BY DEF Resending!Sweeping!OnlyStrandedAreSwept
<1>6. OnlyStrandedAreSwept <=> [][Taken]_(Sweeping!sweepVars)
  BY DEF OnlyStrandedAreSwept, Sweeping!OnlyStrandedAreSwept
<1> HIDE DEF Taken, TakenThere
<1> QED
  BY <1>2, <1>4, <1>5, <1>6, SweepsHere, PTL

\* The fields, values and filters of the run are such as Metadata asks for.
LEMMA MetaBoundsHere == Resending!MetaBounds
<1>1. DOMAIN [kind |-> "select", day |-> "date"] = {"kind", "day"}
  OBVIOUS
<1>2. {[kind |-> 1, day |-> 0], [kind |-> 2, day |-> 1]}
        \subseteq [DOMAIN [kind |-> "select", day |-> "date"] -> Nat]
  OBVIOUS
<1>3. \A s \in Search : s.range \in BOOLEAN /\ s.from \in Nat /\ s.to \in Nat
  <2>1. ASSUME NEW s \in [field : {"day"}, range : BOOLEAN, from : {0, 1, 2, 9}, to : 0..2]
        PROVE  s.range \in BOOLEAN /\ s.from \in {0, 1, 2, 9} /\ s.to \in 0..2
    OBVIOUS
  <2>2. ASSUME NEW s, s = [field |-> "kind", range |-> FALSE, from |-> 1, to |-> 0]
        PROVE  s.range = FALSE /\ s.from = 1 /\ s.to = 0
    BY <2>2
  <2>3. {0, 1, 2, 9} \subseteq Nat /\ 0..2 \subseteq Nat /\ FALSE \in BOOLEAN
    OBVIOUS
  <2> QED
    BY <2>1, <2>2, <2>3 DEF Search
<1>4. \E n \in Nat : 1..2 = 1..n
  OBVIOUS
<1> QED
  BY <1>1, <1>2, <1>3, <1>4 DEF Resending!MetaBounds

\* The metadata of the run, while it has the focus, keeps the invariant of Metadata.
LEMMA TagsHere == DocumentsSpec => [](focus = "tags" => Resending!MetaInv)
<1>1. DocumentsInit => (focus = "tags" => Resending!MetaInv)
  <2>1. DocumentsInit /\ focus = "tags" => Resending!Tagging!Init
    BY DEF DocumentsInit, Tagging!Names, Tagging!Unset, Tagging!Bare, Tagging!Collections,
       Tagging!Absent, Tagging!Served, Tagging!Tasks, Tagging!Init, Resending!Tagging!Names,
       Resending!Tagging!Unset, Resending!Tagging!Bare, Resending!Tagging!Collections,
       Resending!Tagging!Absent, Resending!Tagging!Served, Resending!Tagging!Tasks,
       Resending!Tagging!Init
  <2> QED
    BY <2>1, MetaBoundsHere, Resending!MetaInit
<1>2. (focus = "tags" => Resending!MetaInv) /\ [DocumentsNext]_documentVars
        => (focus = "tags" => Resending!MetaInv)'
  <2>1. (focus = "tags")' /\ [DocumentsNext]_documentVars
          => focus = "tags" /\ [Tagging!Next]_(Tagging!metadataVars)
    BY DEF DocumentsNext, TagsNext, documentVars, metadataVars, Tagging!metadataVars
  <2>2. [Tagging!Next]_(Tagging!metadataVars) => [Resending!Tagging!Next]_(Resending!Tagging!metadataVars)
    BY DEF Tagging!SeedRead, Tagging!SeedCommit, Tagging!Names, Tagging!Unset, Tagging!Valid,
       Tagging!ValidValue, Tagging!Accepted, Tagging!PutRead, Tagging!Tasks, Tagging!Stale,
       Tagging!Mirroring, Tagging!PutCommit, Tagging!Bare, Tagging!Served, Tagging!Absent,
       Tagging!Stamped, Tagging!Settles, Tagging!PutMirror, Tagging!PutFails,
       Tagging!CreateField, Tagging!DeleteField, Tagging!Indexed, Tagging!Load, Tagging!Upsert,
       Tagging!Die, Tagging!Reread, Tagging!IngestReread, Tagging!IngestStamp,
       Tagging!BackfillDone, Tagging!ReembedDone, Tagging!Next, Tagging!metadataVars,
       Resending!Tagging!SeedRead, Resending!Tagging!SeedCommit, Resending!Tagging!Names,
       Resending!Tagging!Unset, Resending!Tagging!Valid, Resending!Tagging!ValidValue,
       Resending!Tagging!Accepted, Resending!Tagging!PutRead, Resending!Tagging!Tasks,
       Resending!Tagging!Stale, Resending!Tagging!Mirroring, Resending!Tagging!PutCommit,
       Resending!Tagging!Bare, Resending!Tagging!Served, Resending!Tagging!Absent,
       Resending!Tagging!Stamped, Resending!Tagging!Settles, Resending!Tagging!PutMirror,
       Resending!Tagging!PutFails, Resending!Tagging!CreateField, Resending!Tagging!DeleteField,
       Resending!Tagging!Indexed, Resending!Tagging!Load, Resending!Tagging!Upsert,
       Resending!Tagging!Die, Resending!Tagging!Reread, Resending!Tagging!IngestReread,
       Resending!Tagging!IngestStamp, Resending!Tagging!BackfillDone,
       Resending!Tagging!ReembedDone, Resending!Tagging!Next, Resending!Tagging!metadataVars
  <2> QED
    BY <2>1, <2>2, MetaBoundsHere, Resending!MetaNext
<1> QED
  BY <1>1, <1>2, PTL DEF DocumentsSpec

\* At rest a search by metadata finds a document exactly when its row has the value, beside
\* whatever else comes in: set_document_metadata, run_embed_upsert, build_clauses.
THEOREM FindsByMetadataHere == DocumentsSpec => []FindsByMetadata
<1>1. (focus = "tags" => Resending!MetaInv) => FindsByMetadata
  <2>1. Resending!MetaInv => Resending!Tagging!FindsByMetadata
    BY MetaBoundsHere, Resending!FoundByRow
  <2>2. Resending!Tagging!FindsByMetadata => Tagging!FindsByMetadata
    BY DEF Tagging!Tasks, Tagging!AtRest, Tagging!Indexed, Tagging!Known, Tagging!Bounds,
       Tagging!Valid, Tagging!Unset, Tagging!Proper, Tagging!Holds, Tagging!Clause,
       Tagging!Wanted, Tagging!FindsByMetadata, Resending!Tagging!Tasks,
       Resending!Tagging!AtRest, Resending!Tagging!Indexed, Resending!Tagging!Known,
       Resending!Tagging!Bounds, Resending!Tagging!Valid, Resending!Tagging!Unset,
       Resending!Tagging!Proper, Resending!Tagging!Holds, Resending!Tagging!Clause,
       Resending!Tagging!Wanted, Resending!Tagging!FindsByMetadata
  <2> QED
    BY <2>1, <2>2 DEF FindsByMetadata
<1> QED
  BY <1>1, TagsHere, PTL

-----------------------------------------------------------------------------
(* Filing: folders and uploads, one module at a time. *)

\* The same with the other instance of Folders.
Shapes == INSTANCE DeliveryProofs
    WITH Workers <- {}, Messages <- {}, Platforms <- {}, Skew <- 0, TTL <- 0, MarkTTL <- 0,
         MaxTime <- 0, platform <- 0, signed <- <<>>, time <- 0, seen <- {}, mark <- 0, bot <- 0,
         convo <- 0, work <- <<>>, done <- <<>>,
         Queries <- {}, Scorers <- {}, Members <- {}, MaxChanges <- 0, MaxEvents <- 0,
         MaxNights <- 0, MaxStarts <- 0, settings <- 0, golden <- {}, request <- <<>>,
         events <- <<>>, nights <- 0, runs <- <<>>, scoring <- <<>>,
         Askers <- {}, Payers <- {}, Allotments <- {}, Lived <- 0, Late <- 0, Month <- 0,
         MaxRows <- 0, Horizon <- 0, instant <- 0, ledger <- {}, userQuota <- <<>>, orgQuota <- 0,
         cache <- <<>>, check <- <<>>, full <- <<>>,
         FirstYear <- 0, LastYear <- 0, date <- <<>>, resetDay <- 0,
         Loops <- {}, AskerOf <- <<>>, House <- 0, Cap <- <<>>, Calls <- 0, Iterations <- 0,
         Addresses <- {}, Base <- 0, Days <- 0, providers <- 0, today <- 0, count <- <<>>,
         gather <- <<>>,
         Attached <- {}, MaxKills <- 0, attachment <- <<>>, old <- {}, blob <- {}, chunks <- {},
         queue <- {}, extracting <- 0, send <- <<>>, sweep <- <<>>, deaths <- 0, dangling <- {},
         Papers <- {d1, d2}, Cutoff <- 2, Limit <- 2, MaxOwed <- 2, Clock <- 5,
         Kinds <- [kind |-> "select", day |-> "date"], Presets <- {"kind"},
         Bodies <- {[kind |-> 1, day |-> 0], [kind |-> 2, day |-> 1]}, Filters <- Search,
         Editors <- {"r1", "r2"}, Parts <- 1..2, MaxLosses <- 1,
         Filers <- {q1, q2}, Movers <- {q1}, Shelves <- {f1, f2, f3}, Titles <- {n1, n2},
         Ways <- {}, Filed <- {}

\* The three instances of Uploads; of Lineage nothing is said here.
Limiting == INSTANCE LineageProofs
    WITH Uploaders <- {"r1", "r2"}, Spots <- {"root"}, Contents <- {"x", "y", "z"},
         Weights <- [x |-> 1, y |-> 1, z |-> 2],
         FileCap <- 2, RowCap <- 2, ByteCap <- 3,
         entry <- files, MaxFalls <- 0, Pieces <- <<>>, Serials <- 1..3,
         Versions <- {}, Processes <- {}, MaxRequests <- 0, MaxErrors <- 0, MaxCuts <- 0,
         row <- <<>>, store <- <<>>, owed <- {}, pc <- <<>>, job <- <<>>, mine <- <<>>,
         plan <- <<>>, requests <- 0, errors <- 0, cuts <- 0
Shifting == INSTANCE LineageProofs
    WITH Uploaders <- {"r1"}, Spots <- {"root", "sub"}, Contents <- {"x", "y", "z"},
         Weights <- [x |-> 1, y |-> 1, z |-> 1],
         FileCap <- 2, RowCap <- 0, ByteCap <- 0,
         entry <- files, MaxFalls <- 0, Pieces <- <<>>, Serials <- 1..3,
         Versions <- {}, Processes <- {}, MaxRequests <- 0, MaxErrors <- 0, MaxCuts <- 0,
         row <- <<>>, store <- <<>>, owed <- {}, pc <- <<>>, job <- <<>>, mine <- <<>>,
         plan <- <<>>, requests <- 0, errors <- 0, cuts <- 0
Keeping == INSTANCE LineageProofs
    WITH Uploaders <- {"r1"}, Spots <- {"root"}, Contents <- {"x", "y", "z"},
         Weights <- [x |-> 1, y |-> 2, z |-> 3],
         FileCap <- 2, RowCap <- 0, ByteCap <- 2,
         entry <- files, MaxFalls <- 1, Pieces <- <<"blocks", "chunks">>, Serials <- 1..2,
         Versions <- {}, Processes <- {}, MaxRequests <- 0, MaxErrors <- 0, MaxCuts <- 0,
         row <- <<>>, store <- <<>>, owed <- {}, pc <- <<>>, job <- <<>>, mine <- <<>>,
         plan <- <<>>, requests <- 0, errors <- 0, cuts <- 0

\* The ids, names and requests the run takes are none of the words of the rows.
Apart ==
    /\ q1 \notin {"root", "nobody", "deleted"} /\ q2 \notin {"root", "nobody", "deleted"}
    /\ {f1, f2, f3} \intersect {"root", "keep"} = {} /\ "keep" \notin {n1, n2}

\* So they are such as Folders asks for.
LEMMA FolderBoundsHere == Apart => Resending!FolderBounds /\ Shapes!FolderBounds /\ Shapes!OneMover
<1> SUFFICES ASSUME Apart PROVE Resending!FolderBounds /\ Shapes!FolderBounds /\ Shapes!OneMover
  OBVIOUS
<1>1. IsFiniteSet({f1, f2, f3})
  <2>1. IsFiniteSet({f1})
    BY FS_Singleton, Zenon
  <2>2. IsFiniteSet({f1} \union {f2})
    BY <2>1, FS_AddElement
  <2>3. IsFiniteSet(({f1} \union {f2}) \union {f3})
    BY <2>2, FS_AddElement
  <2>4. ({f1} \union {f2}) \union {f3} = {f1, f2, f3}
    OBVIOUS
  <2> QED
    BY <2>3, <2>4
<1>2. Resending!IsFiniteSet({f1, f2, f3}) /\ Shapes!IsFiniteSet({f1, f2, f3})
  BY <1>1 DEF IsFiniteSet, Resending!IsFiniteSet, Shapes!IsFiniteSet
<1>3. \A p \in {<<n1>>, <<n1, n2>>} : p \in Seq({n1, n2}) /\ Len(p) > 0
  <2>1. <<n1>> \in Seq({n1, n2}) /\ Len(<<n1>>) = 1
    OBVIOUS
  <2>2. <<n1, n2>> \in Seq({n1, n2}) /\ Len(<<n1, n2>>) = 2
    OBVIOUS
  <2>3. 1 > 0 /\ 2 > 0
    OBVIOUS
  <2> QED
    BY <2>1, <2>2, <2>3, Zenon
<1>4. Resending!FolderBounds
  BY <1>2, <1>3, Zenon DEF Apart, Resending!FolderBounds
<1>5. Shapes!FolderBounds
  BY <1>2, Zenon DEF Apart, Shapes!FolderBounds
<1>6. Shapes!OneMover
  BY DEF Shapes!OneMover
<1> QED
  BY <1>4, <1>5, <1>6

\* The folders of the run, while they have the focus, keep the invariant of paths.
LEMMA FoldersHere == Apart => (DocumentsSpec => [](focus = "folders" => Resending!PathInv))
<1> SUFFICES ASSUME Apart PROVE DocumentsSpec => [](focus = "folders" => Resending!PathInv)
  OBVIOUS
<1>1. DocumentsInit => (focus = "folders" => Resending!PathInv)
  <2>1. DocumentsInit /\ focus = "folders" => Resending!Shelving!Init
    BY DEF DocumentsInit,
       Filing!Init, Filing!Unborn, Filing!Row, Filing!Root, Filing!Keep, Filing!Idle,
       Resending!Shelving!Init, Resending!Shelving!Unborn, Resending!Shelving!Row,
       Resending!Shelving!Root, Resending!Shelving!Keep, Resending!Shelving!Idle
  <2> QED
    BY <2>1, FolderBoundsHere, Resending!PathStart
<1>2. (focus = "folders" => Resending!PathInv) /\ [DocumentsNext]_documentVars
        => (focus = "folders" => Resending!PathInv)'
  <2>1. (focus = "folders")' /\ [DocumentsNext]_documentVars
          => focus = "folders" /\ [Filing!Next]_(Filing!folderVars)
    BY DEF DocumentsNext, documentVars, folderVars, Filing!folderVars
  <2>2. [Filing!Next]_(Filing!folderVars)
          => [Resending!Shelving!Next]_(Resending!Shelving!folderVars)
    BY Zenon DEF Filing!folderVars, Filing!Root, Filing!Keep, Filing!Row, Filing!Unborn,
       Filing!Gone, Filing!Committed, Filing!Visible, Filing!Idle, Filing!Step,
       Filing!Done, Filing!Above, Filing!IsAncestorOrSelf, Filing!Subtree,
       Filing!Named, Filing!MustWait, Filing!Refused, Filing!Unused, Filing!Drawn,
       Filing!Create, Filing!CreateCommit, Filing!EnsurePath, Filing!Deeper,
       Filing!FindSegment, Filing!InsertSegment, Filing!RereadSegment,
       Filing!EnsureCommit, Filing!Move, Filing!MoveCommit, Filing!Delete,
       Filing!EventsLater, Filing!Events, Filing!DeleteCommit, Filing!File,
       Filing!FileCommit, Filing!Remove, Filing!Drop, Filing!Ensure, Filing!Next,
       Filing!Cardinality, Resending!Shelving!folderVars, Resending!Shelving!Root,
       Resending!Shelving!Keep, Resending!Shelving!Row, Resending!Shelving!Unborn,
       Resending!Shelving!Gone, Resending!Shelving!Committed,
       Resending!Shelving!Visible, Resending!Shelving!Idle, Resending!Shelving!Step,
       Resending!Shelving!Done, Resending!Shelving!Above,
       Resending!Shelving!IsAncestorOrSelf, Resending!Shelving!Subtree,
       Resending!Shelving!Named, Resending!Shelving!MustWait,
       Resending!Shelving!Refused, Resending!Shelving!Unused, Resending!Shelving!Drawn,
       Resending!Shelving!Create, Resending!Shelving!CreateCommit,
       Resending!Shelving!EnsurePath, Resending!Shelving!Deeper,
       Resending!Shelving!FindSegment, Resending!Shelving!InsertSegment,
       Resending!Shelving!RereadSegment, Resending!Shelving!EnsureCommit,
       Resending!Shelving!Move, Resending!Shelving!MoveCommit,
       Resending!Shelving!Delete, Resending!Shelving!EventsLater,
       Resending!Shelving!Events, Resending!Shelving!DeleteCommit,
       Resending!Shelving!File, Resending!Shelving!FileCommit,
       Resending!Shelving!Remove, Resending!Shelving!Drop, Resending!Shelving!Ensure,
       Resending!Shelving!Next, Resending!Shelving!Cardinality
  <2> QED
    BY <2>1, <2>2, FolderBoundsHere, Resending!PathNext
<1> QED
  BY <1>1, <1>2, PTL DEF DocumentsSpec

\* The tree of the run keeps the invariant of trees.
LEMMA TreeHere == Apart => (DocumentsSpec => [](focus = "tree" => Shapes!TreeInv))
<1> SUFFICES ASSUME Apart PROVE DocumentsSpec => [](focus = "tree" => Shapes!TreeInv)
  OBVIOUS
<1>1. DocumentsInit => (focus = "tree" => Shapes!TreeInv)
  <2>1. DocumentsInit /\ focus = "tree" => Shapes!Shelving!Init
    BY DEF DocumentsInit,
       Shaping!Init, Shaping!Unborn, Shaping!Row, Shaping!Root, Shaping!Keep,
       Shaping!Idle, Shapes!Shelving!Init, Shapes!Shelving!Unborn, Shapes!Shelving!Row,
       Shapes!Shelving!Root, Shapes!Shelving!Keep, Shapes!Shelving!Idle
  <2> QED
    BY <2>1, FolderBoundsHere, Shapes!FolderStart
<1>2. (focus = "tree" => Shapes!TreeInv) /\ [DocumentsNext]_documentVars
        => (focus = "tree" => Shapes!TreeInv)'
  <2>1. (focus = "tree")' /\ [DocumentsNext]_documentVars
          => focus = "tree" /\ [Shaping!Next]_(Shaping!folderVars)
    BY DEF DocumentsNext, documentVars, folderVars, Shaping!folderVars
  <2>2. [Shaping!Next]_(Shaping!folderVars)
          => [Shapes!Shelving!Next]_(Shapes!Shelving!folderVars)
    BY Zenon DEF Shaping!folderVars, Shaping!Root, Shaping!Keep, Shaping!Row, Shaping!Unborn,
       Shaping!Gone, Shaping!Committed, Shaping!Visible, Shaping!Idle, Shaping!Step,
       Shaping!Done, Shaping!Above, Shaping!IsAncestorOrSelf, Shaping!Subtree,
       Shaping!Named, Shaping!MustWait, Shaping!Refused, Shaping!Unused, Shaping!Drawn,
       Shaping!Create, Shaping!CreateCommit, Shaping!EnsurePath, Shaping!Deeper,
       Shaping!FindSegment, Shaping!InsertSegment, Shaping!RereadSegment,
       Shaping!EnsureCommit, Shaping!Move, Shaping!MoveCommit, Shaping!Delete,
       Shaping!EventsLater, Shaping!Events, Shaping!DeleteCommit, Shaping!File,
       Shaping!FileCommit, Shaping!Remove, Shaping!Drop, Shaping!Ensure, Shaping!Next,
       Shaping!Cardinality, Shapes!Shelving!folderVars, Shapes!Shelving!Root,
       Shapes!Shelving!Keep, Shapes!Shelving!Row, Shapes!Shelving!Unborn,
       Shapes!Shelving!Gone, Shapes!Shelving!Committed, Shapes!Shelving!Visible,
       Shapes!Shelving!Idle, Shapes!Shelving!Step, Shapes!Shelving!Done,
       Shapes!Shelving!Above, Shapes!Shelving!IsAncestorOrSelf,
       Shapes!Shelving!Subtree, Shapes!Shelving!Named, Shapes!Shelving!MustWait,
       Shapes!Shelving!Refused, Shapes!Shelving!Unused, Shapes!Shelving!Drawn,
       Shapes!Shelving!Create, Shapes!Shelving!CreateCommit,
       Shapes!Shelving!EnsurePath, Shapes!Shelving!Deeper, Shapes!Shelving!FindSegment,
       Shapes!Shelving!InsertSegment, Shapes!Shelving!RereadSegment,
       Shapes!Shelving!EnsureCommit, Shapes!Shelving!Move, Shapes!Shelving!MoveCommit,
       Shapes!Shelving!Delete, Shapes!Shelving!EventsLater, Shapes!Shelving!Events,
       Shapes!Shelving!DeleteCommit, Shapes!Shelving!File, Shapes!Shelving!FileCommit,
       Shapes!Shelving!Remove, Shapes!Shelving!Drop, Shapes!Shelving!Ensure,
       Shapes!Shelving!Next, Shapes!Shelving!Cardinality
  <2> QED
    BY <2>1, <2>2, FolderBoundsHere, Shapes!TreeNext
<1> QED
  BY <1>1, <1>2, PTL DEF DocumentsSpec

\* There is nothing in Lineage here.
LEMMA NoLineage ==
    /\ Limiting!VersionAssumption /\ Limiting!BoundAssumption
    /\ Shifting!VersionAssumption /\ Shifting!BoundAssumption
    /\ Keeping!VersionAssumption /\ Keeping!BoundAssumption
BY FS_EmptySet DEF Limiting!VersionAssumption, Limiting!BoundAssumption,
   Shifting!VersionAssumption, Shifting!BoundAssumption, Keeping!VersionAssumption,
   Keeping!BoundAssumption, IsFiniteSet, Limiting!IsFiniteSet, Shifting!IsFiniteSet,
   Keeping!IsFiniteSet

\* Each instance of Uploads is such as the proofs ask for.
LEMMA UploadBoundsHere == Limiting!UploadBounds /\ Shifting!UploadBounds /\ Keeping!UploadBounds
<1>1. IsFiniteSet({"r1"}) /\ IsFiniteSet({"r1", "r2"})
  <2>1. IsFiniteSet({"r1"})
    BY FS_Singleton, Zenon
  <2>2. IsFiniteSet({"r1"} \union {"r2"})
    BY <2>1, FS_AddElement
  <2>3. {"r1"} \union {"r2"} = {"r1", "r2"}
    OBVIOUS
  <2> QED
    BY <2>1, <2>2, <2>3
<1>2. /\ Limiting!IsFiniteSet({"r1", "r2"}) /\ Shifting!IsFiniteSet({"r1"})
      /\ Keeping!IsFiniteSet({"r1"})
  BY <1>1 DEF IsFiniteSet, Limiting!IsFiniteSet, Shifting!IsFiniteSet, Keeping!IsFiniteSet
<1>3. (\E n \in Nat : 1..3 = 1..n) /\ (\E n \in Nat : 1..2 = 1..n)
  OBVIOUS
<1>4. /\ [x |-> 1, y |-> 1, z |-> 2] \in [{"x", "y", "z"} -> Nat]
      /\ [x |-> 1, y |-> 1, z |-> 1] \in [{"x", "y", "z"} -> Nat]
      /\ [x |-> 1, y |-> 2, z |-> 3] \in [{"x", "y", "z"} -> Nat]
  OBVIOUS
<1>5. /\ <<>> \in Seq({}) /\ Len(<<>>) = 0
      /\ <<"blocks", "chunks">> \in Seq({"blocks", "chunks"}) /\ Len(<<"blocks", "chunks">>) = 2
  OBVIOUS
<1>6. Limiting!UploadBounds
  BY <1>2, <1>3, <1>4, <1>5 DEF Limiting!UploadBounds
<1>7. Shifting!UploadBounds
  BY <1>2, <1>3, <1>4, <1>5 DEF Shifting!UploadBounds
<1>8. Keeping!UploadBounds
  <2>1. PICK s : s = <<"blocks", "chunks">>
    BY Zenon
  <2>2. Len(s) = 2 /\ s[1] = "blocks" /\ s[2] = "chunks" /\ \E S : s \in Seq(S)
    BY <1>5, <2>1, Zenon
  <2>3. \A i, j \in 1..2 : s[i] # "original" /\ (s[i] = s[j] => i = j)
    BY <2>2
  <2>4. /\ \E S : <<"blocks", "chunks">> \in Seq(S)
        /\ \A i, j \in 1..Len(<<"blocks", "chunks">>) :
              /\ <<"blocks", "chunks">>[i] # "original"
              /\ <<"blocks", "chunks">>[i] = <<"blocks", "chunks">>[j] => i = j
    BY <2>1, <2>2, <2>3
  <2>5. /\ {"root"} # {} /\ {"x", "y", "z"} # {} /\ 0 \in Nat /\ 1 \in Nat /\ 2 \in Nat
    OBVIOUS
  <2> QED
    BY <1>2, <1>3, <1>4, <2>4, <2>5, Zenon DEF Keeping!UploadBounds
<1> QED
  BY <1>6, <1>7, <1>8

\* The uploads of the run under caps keep the invariant of Uploads.
LEMMA CappedHere == (DocumentsSpec => [](focus = "uploads" => Limiting!UploadInv))
<1>1. DocumentsInit => (focus = "uploads" => Limiting!UploadInv)
  <2>1. DocumentsInit /\ focus = "uploads" => Limiting!Uploading!Init
    BY DEF DocumentsInit,
       Capped!Init, Capped!Idle, Capped!Unborn, Capped!Somewhere, Capped!Something,
       Capped!None, Limiting!Uploading!Init, Limiting!Uploading!Idle,
       Limiting!Uploading!Unborn, Limiting!Uploading!Somewhere,
       Limiting!Uploading!Something, Limiting!Uploading!None
  <2> QED
    BY <2>1, NoLineage, UploadBoundsHere, Limiting!UploadStart
<1>2. (focus = "uploads" => Limiting!UploadInv) /\ [DocumentsNext]_documentVars
        => (focus = "uploads" => Limiting!UploadInv)'
  <2>1. (focus = "uploads")' /\ [DocumentsNext]_documentVars
          => focus = "uploads" /\ [Capped!Next]_(Capped!uploadVars)
    BY DEF DocumentsNext, documentVars, uploadVars, Capped!uploadVars
  <2>2. [Capped!Next]_(Capped!uploadVars)
          => [Limiting!Uploading!Next]_(Limiting!Uploading!uploadVars)
    BY Zenon DEF Capped!uploadVars, Capped!Kinds, Capped!None, Capped!Somewhere,
       Capped!MapThenSumSet, Capped!MapThenFoldSet, Capped!Cardinality,
       Limiting!Uploading!MapThenSumSet, Limiting!Uploading!MapThenFoldSet,
       Limiting!Uploading!Cardinality,
       Capped!Something, Capped!Idle, Capped!Unborn, Capped!Gone, Capped!Committed,
       Capped!Inserted, Capped!Step, Capped!To, Capped!Active, Capped!Measured,
       Capped!Bytes, Capped!WithinCaps, Capped!Upload, Capped!FindDuplicate,
       Capped!Newest, Capped!FindPredecessor, Capped!VersionOf, Capped!Insert,
       Capped!RolledBack, Capped!Store, Capped!CommitUpload, Capped!DieUploading,
       Capped!StartStage, Capped!PutArtifact, Capped!Reingest, Capped!Move,
       Capped!Delete, Capped!StartDelete, Capped!Wiped, Capped!DeleteObject,
       Capped!RemoveRow, Capped!DieDeleting, Capped!Next, Capped!Min,
       Limiting!Uploading!uploadVars, Limiting!Uploading!Kinds,
       Limiting!Uploading!None, Limiting!Uploading!Somewhere,
       Limiting!Uploading!Something, Limiting!Uploading!Idle,
       Limiting!Uploading!Unborn, Limiting!Uploading!Gone,
       Limiting!Uploading!Committed, Limiting!Uploading!Inserted,
       Limiting!Uploading!Step, Limiting!Uploading!To, Limiting!Uploading!Active,
       Limiting!Uploading!Measured, Limiting!Uploading!Bytes,
       Limiting!Uploading!WithinCaps, Limiting!Uploading!Upload,
       Limiting!Uploading!FindDuplicate, Limiting!Uploading!Newest,
       Limiting!Uploading!FindPredecessor, Limiting!Uploading!VersionOf,
       Limiting!Uploading!Insert, Limiting!Uploading!RolledBack,
       Limiting!Uploading!Store, Limiting!Uploading!CommitUpload,
       Limiting!Uploading!DieUploading, Limiting!Uploading!StartStage,
       Limiting!Uploading!PutArtifact, Limiting!Uploading!Reingest,
       Limiting!Uploading!Move, Limiting!Uploading!Delete,
       Limiting!Uploading!StartDelete, Limiting!Uploading!Wiped,
       Limiting!Uploading!DeleteObject, Limiting!Uploading!RemoveRow,
       Limiting!Uploading!DieDeleting, Limiting!Uploading!Next, Limiting!Uploading!Min
  <2> QED
    BY <2>1, <2>2, NoLineage, UploadBoundsHere, Limiting!UploadNext
<1> QED
  BY <1>1, <1>2, PTL DEF DocumentsSpec

\* So do those beside which documents are moved.
LEMMA MovingHere == (DocumentsSpec => [](focus = "moves" => Shifting!UploadInv))
<1>1. DocumentsInit => (focus = "moves" => Shifting!UploadInv)
  <2>1. DocumentsInit /\ focus = "moves" => Shifting!Uploading!Init
    BY DEF DocumentsInit,
       Moving!Init, Moving!Idle, Moving!Unborn, Moving!Somewhere, Moving!Something,
       Moving!None, Shifting!Uploading!Init, Shifting!Uploading!Idle,
       Shifting!Uploading!Unborn, Shifting!Uploading!Somewhere,
       Shifting!Uploading!Something, Shifting!Uploading!None
  <2> QED
    BY <2>1, NoLineage, UploadBoundsHere, Shifting!UploadStart
<1>2. (focus = "moves" => Shifting!UploadInv) /\ [DocumentsNext]_documentVars
        => (focus = "moves" => Shifting!UploadInv)'
  <2>1. (focus = "moves")' /\ [DocumentsNext]_documentVars
          => focus = "moves" /\ [Moving!Next]_(Moving!uploadVars)
    BY DEF DocumentsNext, documentVars, uploadVars, Moving!uploadVars
  <2>2. [Moving!Next]_(Moving!uploadVars)
          => [Shifting!Uploading!Next]_(Shifting!Uploading!uploadVars)
    BY Zenon DEF Moving!uploadVars, Moving!Kinds, Moving!None, Moving!Somewhere,
       Moving!MapThenSumSet, Moving!MapThenFoldSet, Moving!Cardinality,
       Shifting!Uploading!MapThenSumSet, Shifting!Uploading!MapThenFoldSet,
       Shifting!Uploading!Cardinality,
       Moving!Something, Moving!Idle, Moving!Unborn, Moving!Gone, Moving!Committed,
       Moving!Inserted, Moving!Step, Moving!To, Moving!Active, Moving!Measured,
       Moving!Bytes, Moving!WithinCaps, Moving!Upload, Moving!FindDuplicate,
       Moving!Newest, Moving!FindPredecessor, Moving!VersionOf, Moving!Insert,
       Moving!RolledBack, Moving!Store, Moving!CommitUpload, Moving!DieUploading,
       Moving!StartStage, Moving!PutArtifact, Moving!Reingest, Moving!Move,
       Moving!Delete, Moving!StartDelete, Moving!Wiped, Moving!DeleteObject,
       Moving!RemoveRow, Moving!DieDeleting, Moving!Next, Moving!Min,
       Shifting!Uploading!uploadVars, Shifting!Uploading!Kinds,
       Shifting!Uploading!None, Shifting!Uploading!Somewhere,
       Shifting!Uploading!Something, Shifting!Uploading!Idle,
       Shifting!Uploading!Unborn, Shifting!Uploading!Gone,
       Shifting!Uploading!Committed, Shifting!Uploading!Inserted,
       Shifting!Uploading!Step, Shifting!Uploading!To, Shifting!Uploading!Active,
       Shifting!Uploading!Measured, Shifting!Uploading!Bytes,
       Shifting!Uploading!WithinCaps, Shifting!Uploading!Upload,
       Shifting!Uploading!FindDuplicate, Shifting!Uploading!Newest,
       Shifting!Uploading!FindPredecessor, Shifting!Uploading!VersionOf,
       Shifting!Uploading!Insert, Shifting!Uploading!RolledBack,
       Shifting!Uploading!Store, Shifting!Uploading!CommitUpload,
       Shifting!Uploading!DieUploading, Shifting!Uploading!StartStage,
       Shifting!Uploading!PutArtifact, Shifting!Uploading!Reingest,
       Shifting!Uploading!Move, Shifting!Uploading!Delete,
       Shifting!Uploading!StartDelete, Shifting!Uploading!Wiped,
       Shifting!Uploading!DeleteObject, Shifting!Uploading!RemoveRow,
       Shifting!Uploading!DieDeleting, Shifting!Uploading!Next, Shifting!Uploading!Min
  <2> QED
    BY <2>1, <2>2, NoLineage, UploadBoundsHere, Shifting!UploadNext
<1> QED
  BY <1>1, <1>2, PTL DEF DocumentsSpec

\* So do those whose objects are staged and deleted.
LEMMA StoringHere == (DocumentsSpec => [](focus = "objects" => Keeping!UploadInv))
<1>1. DocumentsInit => (focus = "objects" => Keeping!UploadInv)
  <2>1. DocumentsInit /\ focus = "objects" => Keeping!Uploading!Init
    BY DEF DocumentsInit,
       Storing!Init, Storing!Idle, Storing!Unborn, Storing!Somewhere,
       Storing!Something, Storing!None, Keeping!Uploading!Init, Keeping!Uploading!Idle,
       Keeping!Uploading!Unborn, Keeping!Uploading!Somewhere,
       Keeping!Uploading!Something, Keeping!Uploading!None
  <2> QED
    BY <2>1, NoLineage, UploadBoundsHere, Keeping!UploadStart
<1>2. (focus = "objects" => Keeping!UploadInv) /\ [DocumentsNext]_documentVars
        => (focus = "objects" => Keeping!UploadInv)'
  <2>1. (focus = "objects")' /\ [DocumentsNext]_documentVars
          => focus = "objects" /\ [Storing!Next]_(Storing!uploadVars)
    BY DEF DocumentsNext, documentVars, uploadVars, Storing!uploadVars
  <2>2. [Storing!Next]_(Storing!uploadVars)
          => [Keeping!Uploading!Next]_(Keeping!Uploading!uploadVars)
    BY Zenon DEF Storing!uploadVars, Storing!Kinds, Storing!None, Storing!Somewhere,
       Storing!MapThenSumSet, Storing!MapThenFoldSet, Storing!Cardinality,
       Keeping!Uploading!MapThenSumSet, Keeping!Uploading!MapThenFoldSet,
       Keeping!Uploading!Cardinality,
       Storing!Something, Storing!Idle, Storing!Unborn, Storing!Gone,
       Storing!Committed, Storing!Inserted, Storing!Step, Storing!To, Storing!Active,
       Storing!Measured, Storing!Bytes, Storing!WithinCaps, Storing!Upload,
       Storing!FindDuplicate, Storing!Newest, Storing!FindPredecessor,
       Storing!VersionOf, Storing!Insert, Storing!RolledBack, Storing!Store,
       Storing!CommitUpload, Storing!DieUploading, Storing!StartStage,
       Storing!PutArtifact, Storing!Reingest, Storing!Move, Storing!Delete,
       Storing!StartDelete, Storing!Wiped, Storing!DeleteObject, Storing!RemoveRow,
       Storing!DieDeleting, Storing!Next, Storing!Min, Keeping!Uploading!uploadVars,
       Keeping!Uploading!Kinds, Keeping!Uploading!None, Keeping!Uploading!Somewhere,
       Keeping!Uploading!Something, Keeping!Uploading!Idle, Keeping!Uploading!Unborn,
       Keeping!Uploading!Gone, Keeping!Uploading!Committed, Keeping!Uploading!Inserted,
       Keeping!Uploading!Step, Keeping!Uploading!To, Keeping!Uploading!Active,
       Keeping!Uploading!Measured, Keeping!Uploading!Bytes,
       Keeping!Uploading!WithinCaps, Keeping!Uploading!Upload,
       Keeping!Uploading!FindDuplicate, Keeping!Uploading!Newest,
       Keeping!Uploading!FindPredecessor, Keeping!Uploading!VersionOf,
       Keeping!Uploading!Insert, Keeping!Uploading!RolledBack, Keeping!Uploading!Store,
       Keeping!Uploading!CommitUpload, Keeping!Uploading!DieUploading,
       Keeping!Uploading!StartStage, Keeping!Uploading!PutArtifact,
       Keeping!Uploading!Reingest, Keeping!Uploading!Move, Keeping!Uploading!Delete,
       Keeping!Uploading!StartDelete, Keeping!Uploading!Wiped,
       Keeping!Uploading!DeleteObject, Keeping!Uploading!RemoveRow,
       Keeping!Uploading!DieDeleting, Keeping!Uploading!Next, Keeping!Uploading!Min
  <2> QED
    BY <2>1, <2>2, NoLineage, UploadBoundsHere, Keeping!UploadNext
<1> QED
  BY <1>1, <1>2, PTL DEF DocumentsSpec

\* Beside whatever else comes in, requests for one path answer with one folder, what is being
\* deleted has its event, folders hang from the root, and files, versions, stored objects and
\* caps agree but for the overlaps the code leaves open: ensure_path, delete_folder,
\* rename_or_move_folder, create_from_upload, run_delete.
THEOREM FilingHoldsHere == Apart => (DocumentsSpec => []FilingHolds)
<1> SUFFICES ASSUME Apart PROVE DocumentsSpec => []FilingHolds
  OBVIOUS
<1>1. Resending!PathInv => Filing!EnsureConverges /\ Filing!DeletionsAreQueued
  <2>1. Resending!PathInv
          => Resending!Shelving!EnsureConverges /\ Resending!Shelving!DeletionsAreQueued
    BY FolderBoundsHere, Resending!PathsAgree DEF Resending!PathInv, Resending!FolderInv
  <2> QED
    BY <2>1 DEF Filing!EnsureConverges, Filing!DeletionsAreQueued, Filing!Committed,
       Filing!Root, Resending!Shelving!EnsureConverges,
       Resending!Shelving!DeletionsAreQueued, Resending!Shelving!Committed,
       Resending!Shelving!Root
<1>2. Shapes!TreeInv => Shaping!Forest
  <2>1. Shapes!TreeInv => Shapes!Shelving!Forest
    BY FolderBoundsHere, Shapes!TreeIsForest
  <2> QED
    BY <2>1, Zenon DEF Shaping!Forest, Shaping!Committed, Shaping!Above, Shaping!Root,
       Shaping!Cardinality, Shapes!Shelving!Forest, Shapes!Shelving!Committed,
       Shapes!Shelving!Above, Shapes!Shelving!Root, Shapes!Shelving!Cardinality
<1>3. Limiting!UploadInv => Capped!UploadsHold
  <2>1. Limiting!UploadInv => Limiting!Uploading!UploadsHold
    BY NoLineage, UploadBoundsHere, Limiting!UploadsAre
  <2> QED
    BY <2>1 DEF Capped!OriginalsAreThere, Capped!ObjectsHaveRows, Capped!NewestSucceeds,
       Capped!CapsHold, Capped!StoredOnce, Capped!UploadsHold, Capped!File,
       Capped!Committed, Capped!Inserted, Capped!Bytes, Capped!MapThenSumSet,
       Capped!MapThenFoldSet, Capped!Cardinality, Limiting!Uploading!OriginalsAreThere,
       Limiting!Uploading!ObjectsHaveRows, Limiting!Uploading!NewestSucceeds,
       Limiting!Uploading!CapsHold, Limiting!Uploading!StoredOnce,
       Limiting!Uploading!UploadsHold, Limiting!Uploading!File,
       Limiting!Uploading!Committed, Limiting!Uploading!Inserted,
       Limiting!Uploading!Bytes, Limiting!Uploading!MapThenSumSet,
       Limiting!Uploading!MapThenFoldSet, Limiting!Uploading!Cardinality
<1>4. Shifting!UploadInv => Moving!UploadsHold
  <2>1. Shifting!UploadInv => Shifting!Uploading!UploadsHold
    BY NoLineage, UploadBoundsHere, Shifting!UploadsAre
  <2> QED
    BY <2>1 DEF Moving!OriginalsAreThere, Moving!ObjectsHaveRows, Moving!NewestSucceeds,
       Moving!CapsHold, Moving!StoredOnce, Moving!UploadsHold, Moving!File,
       Moving!Committed, Moving!Inserted, Moving!Bytes, Moving!MapThenSumSet,
       Moving!MapThenFoldSet, Moving!Cardinality, Shifting!Uploading!OriginalsAreThere,
       Shifting!Uploading!ObjectsHaveRows, Shifting!Uploading!NewestSucceeds,
       Shifting!Uploading!CapsHold, Shifting!Uploading!StoredOnce,
       Shifting!Uploading!UploadsHold, Shifting!Uploading!File,
       Shifting!Uploading!Committed, Shifting!Uploading!Inserted,
       Shifting!Uploading!Bytes, Shifting!Uploading!MapThenSumSet,
       Shifting!Uploading!MapThenFoldSet, Shifting!Uploading!Cardinality
<1>5. Keeping!UploadInv => Storing!UploadsHold
  <2>1. Keeping!UploadInv => Keeping!Uploading!UploadsHold
    BY NoLineage, UploadBoundsHere, Keeping!UploadsAre
  <2> QED
    BY <2>1 DEF Storing!OriginalsAreThere, Storing!ObjectsHaveRows, Storing!NewestSucceeds,
       Storing!CapsHold, Storing!StoredOnce, Storing!UploadsHold, Storing!File,
       Storing!Committed, Storing!Inserted, Storing!Bytes, Storing!MapThenSumSet,
       Storing!MapThenFoldSet, Storing!Cardinality,
       Keeping!Uploading!OriginalsAreThere, Keeping!Uploading!ObjectsHaveRows,
       Keeping!Uploading!NewestSucceeds, Keeping!Uploading!CapsHold,
       Keeping!Uploading!StoredOnce, Keeping!Uploading!UploadsHold,
       Keeping!Uploading!File, Keeping!Uploading!Committed, Keeping!Uploading!Inserted,
       Keeping!Uploading!Bytes, Keeping!Uploading!MapThenSumSet,
       Keeping!Uploading!MapThenFoldSet, Keeping!Uploading!Cardinality
<1>6. /\ (focus = "folders" => Resending!PathInv) /\ (focus = "tree" => Shapes!TreeInv)
      /\ (focus = "uploads" => Limiting!UploadInv) /\ (focus = "moves" => Shifting!UploadInv)
      /\ (focus = "objects" => Keeping!UploadInv)
      => FilingHolds
  BY <1>1, <1>2, <1>3, <1>4, <1>5 DEF FilingHolds
<1> QED
  BY <1>6, FoldersHere, TreeHere, CappedHere, MovingHere, StoringHere, PTL
=============================================================================
