--------------------------- MODULE AclProjection ---------------------------
(***************************************************************************)
(* The fail-closed projection of one document's access list from Postgres  *)
(* into the vector store (documents/service.py, documents/ingest.py) and   *)
(* the reads that rely on it (retrieval/service.py).                       *)
(*                                                                         *)
(* A change of the list commits a new security_revision and takes the row  *)
(* out of retrieval; a projector then rewrites the payload of the stored   *)
(* points and puts the row back with a compare-and-set on the revision.    *)
(* The two stores are written in separate steps, by API requests, by the   *)
(* sweep of the beat, by ingestion and by the enrichment backfill.         *)
(***************************************************************************)
EXTENDS Naturals

CONSTANTS
  Acl,          \* values of documents.acl_group_ids
  Requests,     \* processes that run set_document_acl
  Sweeps,       \* processes that run reconcile_security_projections
  Ingests,      \* processes that run run_embed_upsert
  Backfills,    \* processes that run run_enrichment_backfill
  Readers,      \* processes that run retrieve
  ChunkReaders, \* processes that run list_document_chunks / get_chunks_by_refs
  NumBatches,   \* batches of chunks a document is upserted in
  MaxRevision,  \* bound: changes of the access list
  MaxFaults     \* bound: failed vector-store calls and killed processes

ASSUME AclNonEmpty == Acl # {} /\ "none" \notin Acl
ASSUME NumBatchesPos == NumBatches \in Nat \ {0}
ASSUME BoundsNat == MaxRevision \in Nat /\ MaxFaults \in Nat
\* One process may play several of the first roles one after the other, never
\* a reading and a writing one.
ASSUME ReadersOnlyRead ==
  (Readers \union ChunkReaders) \intersect
    (Requests \union Sweeps \union Ingests \union Backfills) = {}
ASSUME ReadersApart == Readers \intersect ChunkReaders = {}

VARIABLES
  row,     \* the committed documents row
  points,  \* points[b]: the payload of batch b's points in Qdrant
  pc,      \* pc[p]: the next step of process p
  snap,    \* snap[p]: the row as p's session holds it
  done,    \* done[p]: batches p has upserted
  hidden,  \* hidden[r]: r's snapshot of unprojected_document_ids has the document
  hits,    \* hits[r]: access lists of the points r's last query returned
  asked,   \* history: row.acl and row.projected when r queried the store
  window,  \* history: the access lists committed since r started
  faults   \* failures so far

vars == <<row, points, pc, snap, done, hidden, hits, asked, window, faults>>

Projectors == Requests \union Sweeps
Writers    == Projectors \union Ingests \union Backfills
AllReaders == Readers \union ChunkReaders
Batches    == 1..NumBatches

Revisions   == 0..MaxRevision
IndexStates == {"active", "pending", "failed"}
Statuses    == {"queued", "processing", "indexed", "deleting"}
WriterSteps == {"idle", "loaded", "write", "cas", "fail",
                "upsert", "restamp", "index", "promote", "show", "backfill"}
ReaderSteps == {"idle", "query", "recheck", "served"}

Payload  == [acl : Acl, current : BOOLEAN]
NoPoint  == [acl |-> "none", current |-> FALSE]
Snapshot == [acl : Acl, revision : Revisions, index_state : IndexStates]
Row == [acl : Acl, revision : Revisions, projected : Revisions,
        index_state : IndexStates, status : Statuses,
        current : BOOLEAN, enriched : BOOLEAN]

Present == {b \in Batches : points[b] # NoPoint}

TypeOK ==
  /\ row \in Row
  /\ points \in [Batches -> Payload \union {NoPoint}]
  /\ pc \in [Writers \union AllReaders -> WriterSteps \union ReaderSteps]
  /\ snap \in [Writers -> Snapshot]
  /\ done \in [Writers -> 0..NumBatches]
  /\ hidden \in [Readers -> BOOLEAN]
  /\ hits \in [AllReaders -> SUBSET Acl]
  /\ asked \in [Readers -> [acl : Acl, projected : Revisions]]
  /\ window \in [Readers -> SUBSET Acl]
  /\ faults \in 0..MaxFaults

----------------------------------------------------------------------------
\* A document as create_from_upload leaves it, or one already served.

SessionOf(r) == [acl |-> r.acl, revision |-> r.revision, index_state |-> r.index_state]

Init ==
  /\ \E a \in Acl, served \in BOOLEAN :
       /\ row = [acl |-> a, revision |-> 0, projected |-> 0, index_state |-> "active",
                 status |-> IF served THEN "indexed" ELSE "queued",
                 current |-> served, enriched |-> FALSE]
       /\ points = [b \in Batches |->
                      IF served THEN [acl |-> a, current |-> TRUE] ELSE NoPoint]
  /\ pc = [p \in Writers \union AllReaders |-> "idle"]
  /\ snap = [p \in Writers |-> SessionOf(row)]
  /\ done = [p \in Writers |-> 0]
  /\ hidden = [r \in Readers |-> FALSE]
  /\ hits = [r \in AllReaders |-> {}]
  /\ asked = [r \in Readers |-> [acl |-> row.acl, projected |-> 0]]
  /\ window = [r \in Readers |-> {}]
  /\ faults = 0

Goto(p, step) == pc' = [pc EXCEPT ![p] = step]
Load(p)       == snap' = [snap EXCEPT ![p] = SessionOf(row)]

\* update_document_acl: set_payload on the points that exist, and only on those.
Restamped(a) ==
  [b \in Batches |-> IF points[b] = NoPoint THEN NoPoint ELSE [points[b] EXCEPT !.acl = a]]

readerVars == <<hidden, hits, asked, window>>

----------------------------------------------------------------------------
\* set_document_acl, in one API request.

\* get_document_checked: the session's copy of the row.
LoadForAcl(r) ==
  /\ pc[r] = "idle"
  /\ row.revision < MaxRevision
  /\ Load(r)
  /\ Goto(r, "loaded")
  /\ UNCHANGED <<row, points, done, readerVars, faults>>

\* Mutant: the row is left in retrieval.
CommitAclStaysActive(r) ==
  /\ pc[r] = "loaded"
  /\ row.revision < MaxRevision
  /\ \E a \in Acl :
       /\ row' = [row EXCEPT !.acl = a, !.revision = @ + 1]
       /\ snap' = [snap EXCEPT ![r] = [@ EXCEPT !.acl = a, !.revision = row.revision + 1]]
  /\ window' = [q \in Readers |-> window[q] \union {row'.acl}]
  /\ Goto(r, "write")
  /\ UNCHANGED <<points, done, hidden, hits, asked, faults>>

\* The ORM emits a column only when it differs from the loaded value, so the list is
\* written when a # snap[r].acl; the revision is incremented in SQL, from the row.
CommitAcl(r) ==
  /\ pc[r] = "loaded"
  /\ row.revision < MaxRevision
  /\ \E a \in Acl :
       /\ row' = [row EXCEPT !.acl = IF a # snap[r].acl THEN a ELSE @,
                             !.revision = @ + 1,
                             !.index_state = "pending"]
       /\ snap' = [snap EXCEPT ![r] = [acl |-> a, revision |-> row.revision + 1,
                                       index_state |-> "pending"]]
  /\ window' = [q \in Readers |-> window[q] \union {row'.acl}]
  /\ Goto(r, "write")
  /\ UNCHANGED <<points, done, hidden, hits, asked, faults>>

----------------------------------------------------------------------------
\* reconcile_security_projections: the sweep selects a row that is not projected.

\* Mutant: only the failed rows are selected.
SweepFailedOnly(s) ==
  /\ pc[s] = "idle"
  /\ row.index_state = "failed"
  /\ row.status # "deleting"
  /\ Load(s)
  /\ Goto(s, "write")
  /\ UNCHANGED <<row, points, done, readerVars, faults>>

SweepLoad(s) ==
  /\ pc[s] = "idle"
  /\ row.index_state # "active" \/ row.projected # row.revision
  /\ row.status # "deleting"
  /\ Load(s)
  /\ Goto(s, "write")
  /\ UNCHANGED <<row, points, done, readerVars, faults>>

----------------------------------------------------------------------------
\* project_document_security, in a request or in the sweep.

WriteStore(p) ==
  /\ pc[p] = "write"
  /\ points' = Restamped(snap[p].acl)
  /\ Goto(p, "cas")
  /\ UNCHANGED <<row, snap, done, readerVars, faults>>

\* The call raises: the store may or may not have applied it.
WriteFails(p) ==
  /\ pc[p] = "write"
  /\ faults < MaxFaults
  /\ faults' = faults + 1
  /\ points' \in {points, Restamped(snap[p].acl)}
  /\ Goto(p, "fail")
  /\ UNCHANGED <<row, snap, done, readerVars>>

\* index_state = "failed"; no column is emitted when the session already held "failed".
RecordFailure(p) ==
  /\ pc[p] = "fail"
  /\ row' = IF snap[p].index_state = "failed" THEN row
            ELSE [row EXCEPT !.index_state = "failed"]
  /\ Goto(p, "idle")
  /\ UNCHANGED <<points, snap, done, readerVars, faults>>

\* Mutant: the UPDATE without its condition on the revision.
ActivateUnchecked(p) ==
  /\ pc[p] = "cas"
  /\ row' = [row EXCEPT !.projected = snap[p].revision, !.index_state = "active"]
  /\ Goto(p, "idle")
  /\ UNCHANGED <<points, snap, done, readerVars, faults>>

\* UPDATE ... WHERE security_revision = target matches the row.
Activate(p) ==
  /\ pc[p] = "cas"
  /\ row.revision = snap[p].revision
  /\ row' = [row EXCEPT !.projected = snap[p].revision, !.index_state = "active"]
  /\ Goto(p, "idle")
  /\ UNCHANGED <<points, snap, done, readerVars, faults>>

\* It matches no row: the revision moved during the projection.
Superseded(p) ==
  /\ pc[p] = "cas"
  /\ row.revision # snap[p].revision
  /\ row' = [row EXCEPT !.projected = snap[p].revision, !.index_state = "pending"]
  /\ Goto(p, "idle")
  /\ UNCHANGED <<points, snap, done, readerVars, faults>>

----------------------------------------------------------------------------
\* run_embed_upsert on a lineage of one version.

IngestLoad(i) ==
  /\ pc[i] = "idle"
  /\ Load(i)
  /\ row' = [row EXCEPT !.status = "processing"]
  /\ done' = [done EXCEPT ![i] = 0]
  /\ Goto(i, "upsert")
  /\ UNCHANGED <<points, readerVars, faults>>

\* upsert_points: the whole payload is replaced, from the row as loaded.
IngestUpsert(i) ==
  /\ pc[i] = "upsert"
  /\ done[i] < NumBatches
  /\ points' = [points EXCEPT ![done[i] + 1] = [acl |-> snap[i].acl, current |-> FALSE]]
  /\ done' = [done EXCEPT ![i] = @ + 1]
  /\ UNCHANGED <<row, pc, snap, readerVars, faults>>

\* Mutant: the identity map answers with the row of the task's start.
IngestRereadStale(i) ==
  /\ pc[i] = "upsert"
  /\ done[i] = NumBatches
  /\ snap' = [snap EXCEPT ![i].revision = row.revision]
  /\ Goto(i, "restamp")
  /\ UNCHANGED <<row, points, done, readerVars, faults>>

\* The row is read again (populate_existing) before the points are restamped.
IngestReread(i) ==
  /\ pc[i] = "upsert"
  /\ done[i] = NumBatches
  /\ Load(i)
  /\ Goto(i, "restamp")
  /\ UNCHANGED <<row, points, done, readerVars, faults>>

IngestRestamp(i) ==
  /\ pc[i] = "restamp"
  /\ points' = Restamped(snap[i].acl)
  /\ Goto(i, "index")
  /\ UNCHANGED <<row, snap, done, readerVars, faults>>

IngestIndex(i) ==
  /\ pc[i] = "index"
  /\ \E enriched \in {row.enriched, TRUE} :
       row' = [row EXCEPT !.status = "indexed", !.enriched = enriched]
  /\ Goto(i, "promote")
  /\ UNCHANGED <<points, snap, done, readerVars, faults>>

\* promote_lineage: the only version wins when it is still indexed.
IngestPromote(i) ==
  /\ pc[i] = "promote"
  /\ IF row.status = "indexed"
       THEN row' = [row EXCEPT !.current = TRUE] /\ Goto(i, "show")
       ELSE row' = row /\ Goto(i, "idle")
  /\ UNCHANGED <<points, snap, done, readerVars, faults>>

\* update_document_current makes the points retrievable.
IngestShow(i) ==
  /\ pc[i] = "show"
  /\ points' = [b \in Batches |-> IF points[b] = NoPoint THEN NoPoint
                                  ELSE [points[b] EXCEPT !.current = TRUE]]
  /\ Goto(i, "idle")
  /\ UNCHANGED <<row, snap, done, readerVars, faults>>

----------------------------------------------------------------------------
\* run_enrichment_backfill: every batch again, from the row as loaded.

BackfillLoad(b) ==
  /\ pc[b] = "idle"
  /\ row.current /\ row.status = "indexed" /\ ~row.enriched
  /\ Load(b)
  /\ done' = [done EXCEPT ![b] = 0]
  /\ Goto(b, "backfill")
  /\ UNCHANGED <<row, points, readerVars, faults>>

BackfillUpsert(b) ==
  /\ pc[b] = "backfill"
  /\ done[b] < NumBatches
  /\ points' = [points EXCEPT ![done[b] + 1] = [acl |-> snap[b].acl, current |-> TRUE]]
  /\ done' = [done EXCEPT ![b] = @ + 1]
  /\ UNCHANGED <<row, pc, snap, readerVars, faults>>

BackfillFinish(b) ==
  /\ pc[b] = "backfill"
  /\ done[b] = NumBatches
  /\ row' = [row EXCEPT !.enriched = TRUE]
  /\ Goto(b, "idle")
  /\ UNCHANGED <<points, snap, done, readerVars, faults>>

----------------------------------------------------------------------------
\* The delete route; run_delete itself is in DocumentLifecycle.

MarkDeleting ==
  /\ row.status # "deleting"
  /\ row' = [row EXCEPT !.status = "deleting"]
  /\ UNCHANGED <<points, pc, snap, done, readerVars, faults>>

\* A process is killed between two steps: what it committed stays.
Killed(p) ==
  /\ pc[p] # "idle"
  /\ faults < MaxFaults
  /\ faults' = faults + 1
  /\ Goto(p, "idle")
  /\ UNCHANGED <<row, points, snap, done, readerVars>>

----------------------------------------------------------------------------
\* retrieve: snapshot of the unprojected documents, query, second snapshot.

ReadStart(r) ==
  /\ pc[r] \in {"idle", "served"}
  /\ hidden' = [hidden EXCEPT ![r] = row.index_state # "active"]
  /\ hits' = [hits EXCEPT ![r] = {}]
  /\ window' = [window EXCEPT ![r] = {row.acl}]
  /\ Goto(r, "query")
  /\ UNCHANGED <<row, points, snap, done, asked, faults>>

\* Mutant: the filter without the exclusion.
QueryUnfiltered(r) ==
  /\ pc[r] = "query"
  /\ hits' = [hits EXCEPT ![r] = {points[b].acl : b \in {c \in Present : points[c].current}}]
  /\ asked' = [asked EXCEPT ![r] = [acl |-> row.acl, projected |-> row.projected]]
  /\ Goto(r, "recheck")
  /\ UNCHANGED <<row, points, snap, done, hidden, window, faults>>

Query(r) ==
  /\ pc[r] = "query"
  /\ hits' = [hits EXCEPT ![r] =
       {points[b].acl : b \in {c \in Present : points[c].current /\ ~hidden[r]}}]
  /\ asked' = [asked EXCEPT ![r] = [acl |-> row.acl, projected |-> row.projected]]
  /\ Goto(r, "recheck")
  /\ UNCHANGED <<row, points, snap, done, hidden, window, faults>>

Recheck(r) ==
  /\ pc[r] = "recheck"
  /\ hits' = [hits EXCEPT ![r] =
       IF row.index_state # "active" /\ ~hidden[r] THEN {} ELSE @]
  /\ Goto(r, "served")
  /\ UNCHANGED <<row, points, snap, done, hidden, asked, window, faults>>

\* list_document_chunks and get_chunks_by_refs: no snapshot, current_only=False.
ReadChunks(r) ==
  /\ hits' = [hits EXCEPT ![r] = {points[b].acl : b \in Present}]
  /\ UNCHANGED <<row, points, pc, snap, done, hidden, asked, window, faults>>

----------------------------------------------------------------------------
Projection(p) == \/ WriteStore(p) \/ WriteFails(p) \/ RecordFailure(p)
                 \/ Activate(p) \/ Superseded(p)
Ingestion(i)  == \/ IngestLoad(i) \/ IngestUpsert(i) \/ IngestReread(i)
                 \/ IngestRestamp(i) \/ IngestIndex(i) \/ IngestPromote(i)
                 \/ IngestShow(i)
Backfill(b)   == BackfillLoad(b) \/ BackfillUpsert(b) \/ BackfillFinish(b)
Retrieval(r)  == ReadStart(r) \/ Query(r) \/ Recheck(r)

Next ==
  \/ \E r \in Requests : LoadForAcl(r) \/ CommitAcl(r)
  \/ \E s \in Sweeps : SweepLoad(s)
  \/ \E p \in Projectors : Projection(p)
  \/ \E i \in Ingests : Ingestion(i)
  \/ \E b \in Backfills : Backfill(b)
  \/ \E p \in Writers : Killed(p)
  \/ MarkDeleting
  \/ \E r \in Readers : Retrieval(r)
  \/ \E r \in ChunkReaders : ReadChunks(r)

Spec == Init /\ [][Next]_vars

\* The beat runs the sweep again and again, and a process that was not killed goes on.
Fairness ==
  /\ \A p \in Projectors : WF_vars(Projection(p))
  /\ \A s \in Sweeps : WF_vars(SweepLoad(s))

FairSpec == Spec /\ Fairness

----------------------------------------------------------------------------
\* Properties.

InFlight(p) == pc[p] \in {"write", "cas", "fail"}

\* ck_documents_active_is_projected: whatever requests, sweeps, ingestions and crashes
\* interleave, a row is active only at the revision last recorded as projected, and a
\* projection never gets ahead of the committed revision.
ActiveIsProjected ==
  /\ row.index_state = "active" => row.projected = row.revision
  /\ row.projected <= row.revision

\* The increment in SQL (set_document_acl): two requests that are projecting hold
\* different target revisions, so at most one of their compare-and-sets can succeed.
DistinctTargets ==
  \A p, q \in Requests : p # q /\ InFlight(p) /\ InFlight(q)
                           => snap[p].revision # snap[q].revision

\* What an active row claims: the points in the store carry the committed list.
ActiveMeansStored ==
  row.index_state = "active" => \A b \in Present : points[b].acl = row.acl

\* retrieve: every access list under which a point was served was committed at some
\* moment between the start of the call and its answer.
ServedWasCommitted ==
  \A r \in Readers : pc[r] = "served" => hits[r] \subseteq window[r]

\* The restamp of run_embed_upsert: unless the list was changed after the row was read
\* again, every point carries the committed list when the document is marked indexed,
\* however the upserts of the batches and a change of the list interleaved.
IngestRestampsAll ==
  \A i \in Ingests : pc[i] = "index" /\ snap[i].revision = row.revision
                       => \A b \in Batches : points[b].acl = row.acl

\* reconcile_security_projections: a document that is out of retrieval comes back, or is
\* being deleted, although calls fail and processes are killed.
Reprojected ==
  row.index_state # "active" ~> row.index_state = "active" \/ row.status = "deleting"
=============================================================================
