------------------------------ MODULE Lineage ------------------------------
(***************************************************************************)
(* The versions of one document: ingestion, re-indexing, deletion and      *)
(* approval, all of which end in promote_lineage, which makes one version  *)
(* current in Postgres and in Qdrant.                                      *)
(*                                                                         *)
(* A process is a Celery task or an API request.  Its steps are the        *)
(* stretches between two awaits that another process can see: a commit, or *)
(* a call to Qdrant.  A task takes a message and puts it back when it      *)
(* raises or is killed (task_acks_late, retries); a message that was       *)
(* published is not lost (module Outbox).                                  *)
(*                                                                         *)
(* A session keeps the rows it has loaded: SELECT ... FOR UPDATE does not  *)
(* refresh them, and an attribute assigned the value the session already   *)
(* has is not written.  mine[p] is that copy of the task's own document.   *)
(***************************************************************************)
EXTENDS Naturals, FiniteSets, FiniteSetsExt

CONSTANTS
    Versions,     \* numbers of the uploads of one file name
    Processes,
    MaxRequests,  \* bound on approvals and manual re-indexes
    MaxErrors,    \* bound on stages that raise
    MaxCuts       \* bound on processes that end inside a promotion

ASSUME VersionAssumption == Versions \subseteq Nat /\ IsFiniteSet(Versions)
ASSUME BoundAssumption == MaxRequests \in Nat /\ MaxErrors \in Nat /\ MaxCuts \in Nat

VARIABLES
    row,       \* documents: one row per version
    store,     \* the points of each version, and their is_current payload
    owed,      \* published messages no task is working on
    pc,
    job,       \* the message or request a process is working on
    mine,      \* its session's copy of the row of its document
    plan,      \* what promote_lineage carries past its first commit
    requests, errors, cuts

bounds == <<requests, errors, cuts>>
vars == <<row, store, owed, pc, job, mine, plan, bounds>>

Statuses == {"absent", "queued", "processing", "indexed", "failed", "deleting", "gone"}
Row == [status : Statuses, approved : BOOLEAN, current : BOOLEAN, vectors : BOOLEAN]

NoRow == [status |-> "absent", approved |-> FALSE, current |-> FALSE, vectors |-> FALSE]

Messages == {"ingest", "reindex", "delete"} \X Versions
Jobs == Messages \union ({"approve"} \X Versions)
NoJob == <<"none", 0>>

Steps == {"idle", "parse", "embed", "upsert", "reread", "mark", "points", "erase",
          "promote", "flip", "drop", "clear", "enqueue"}

Plans == [winner : Versions \union {0}, demoted : SUBSET Versions]
NoPlan == [winner |-> 0, demoted |-> {}]

TypeOK ==
    /\ row \in [Versions -> Row]
    /\ store \in [Versions -> {"none", "hidden", "visible"}]
    /\ owed \subseteq Messages
    /\ pc \in [Processes -> Steps]
    /\ job \in [Processes -> Jobs \union {NoJob}]
    /\ mine \in [Processes -> Row]
    /\ plan \in [Processes -> Plans]
    /\ requests \in 0..MaxRequests /\ errors \in 0..MaxErrors /\ cuts \in 0..MaxCuts

Init ==
    /\ row = [v \in Versions |-> NoRow]
    /\ store = [v \in Versions |-> "none"]
    /\ owed = {}
    /\ pc = [p \in Processes |-> "idle"]
    /\ job = [p \in Processes |-> NoJob]
    /\ mine = [p \in Processes |-> NoRow]
    /\ plan = [p \in Processes |-> NoPlan]
    /\ requests = 0 /\ errors = 0 /\ cuts = 0

Exists(v) == row[v].status \notin {"absent", "gone"}

\* The document p works on.
Doc(p) == job[p][2]

Goto(p, step) == pc' = [pc EXCEPT ![p] = step]

\* The process ends; its message, if any, is acknowledged.
End(p) ==
    /\ Goto(p, "idle")
    /\ job' = [job EXCEPT ![p] = NoJob]
    /\ mine' = [mine EXCEPT ![p] = NoRow]
    /\ plan' = [plan EXCEPT ![p] = NoPlan]

\* The column after a flush: an assignment that changes nothing in the
\* session is not written.
Written(stored, loaded, assigned) == IF assigned = loaded THEN stored ELSE assigned

-----------------------------------------------------------------------------
(* The API. *)

\* create_from_upload: the row and its event in one commit.  The predecessor
\* is the highest version still there; without one a new lineage starts.
Upload(v) ==
    /\ row[v].status = "absent"
    /\ \A u \in Versions : u < v => row[u].status # "absent"
    /\ (\E u \in Versions : u < v) => \E u \in Versions : Exists(u)
    /\ row' = [row EXCEPT ![v].status = "queued"]
    /\ owed' = owed \union {<<"ingest", v>>}
    /\ UNCHANGED <<store, pc, job, mine, plan, bounds>>

\* DELETE /documents/{id}.
RequestDelete(v) ==
    /\ Exists(v)
    /\ row' = [row EXCEPT ![v].status = "deleting"]
    /\ owed' = owed \union {<<"delete", v>>}
    /\ UNCHANGED <<store, pc, job, mine, plan, bounds>>

\* POST /documents/{id}/reindex, from a settled state only.
RequestReindex(v) ==
    /\ requests < MaxRequests
    /\ row[v].status \in {"indexed", "failed"}
    /\ owed' = owed \union {<<"reindex", v>>}
    /\ requests' = requests + 1
    /\ UNCHANGED <<row, store, pc, job, mine, plan, errors, cuts>>

\* set_approved, up to its first commit; the promotion follows in the same
\* session.
Approve(p, v) ==
    /\ pc[p] = "idle"
    /\ requests < MaxRequests
    /\ Exists(v)
    /\ \E approved \in BOOLEAN : row' = [row EXCEPT ![v].approved = approved]
    /\ mine' = [mine EXCEPT ![p] = row'[v]]
    /\ job' = [job EXCEPT ![p] = <<"approve", v>>]
    /\ Goto(p, "promote")
    /\ requests' = requests + 1
    /\ UNCHANGED <<store, owed, plan, errors, cuts>>

-----------------------------------------------------------------------------
(* Ingestion and re-indexing. *)

FirstStep(kind) ==
    CASE kind = "ingest" -> "parse" [] kind = "reindex" -> "embed" [] kind = "delete" -> "points"

\* A task starts and loads its document; a message about a row that is gone
\* is dropped.  (Only run_parse assigns from this first copy.)
Take(p) ==
    /\ pc[p] = "idle"
    /\ \E m \in owed :
        /\ owed' = owed \ {m}
        /\ IF Exists(m[2])
           THEN /\ job' = [job EXCEPT ![p] = m]
                /\ mine' = IF m[1] = "ingest" THEN [mine EXCEPT ![p] = row[m[2]]] ELSE mine
                /\ Goto(p, FirstStep(m[1]))
           ELSE UNCHANGED <<job, mine, pc>>
    /\ UNCHANGED <<row, store, plan, bounds>>

\* A flush that finds no row to update raises, and the retry finds no document.
\* After the batches it may: the jobs whose progress it writes are gone, and
\* whether the driver reports the row count of two updates is not fixed.
Vanished(p) ==
    /\ pc[p] \in {"parse", "embed", "reread", "mark"}
    /\ ~Exists(Doc(p))
    /\ End(p)
    /\ UNCHANGED <<row, store, owed, bounds>>

\* run_parse and run_chunk: the row is "processing" when the blocks are stored.
Parse(p) ==
    /\ pc[p] = "parse"
    /\ Exists(Doc(p))
    /\ row' = [row EXCEPT ![Doc(p)].status = Written(@, mine[p].status, "processing")]
    /\ mine' = [mine EXCEPT ![p] = NoRow]
    /\ Goto(p, "embed")
    /\ UNCHANGED <<store, owed, job, plan, bounds>>

\* run_embed_upsert opens a session of its own and says "processing".
EmbedStart(p) ==
    /\ pc[p] = "embed"
    /\ Exists(Doc(p))
    /\ row' = [row EXCEPT ![Doc(p)].status = "processing"]
    /\ Goto(p, "upsert")
    /\ UNCHANGED <<store, owed, job, mine, plan, bounds>>

\* The batches, with is_current = False in every payload.
Upsert(p) ==
    /\ pc[p] = "upsert"
    /\ store' = [store EXCEPT ![Doc(p)] = "hidden"]
    /\ Goto(p, "reread")
    /\ UNCHANGED <<row, owed, job, mine, plan, bounds>>

\* still_exists, with populate_existing: the last time this session reads its
\* own row.
Reread(p) ==
    /\ pc[p] = "reread"
    /\ IF Exists(Doc(p))
       THEN /\ mine' = [mine EXCEPT ![p] = row[Doc(p)]]
            /\ Goto(p, "mark")
            /\ UNCHANGED <<store, job, plan>>
       ELSE /\ store' = [store EXCEPT ![Doc(p)] = "none"]
            /\ End(p)
    /\ UNCHANGED <<row, owed, bounds>>

\* Mutant: vectors_present is not set again.
MarkIndexedOnly(p) ==
    /\ pc[p] = "mark"
    /\ Exists(Doc(p))
    /\ row' = [row EXCEPT ![Doc(p)].status = Written(@, mine[p].status, "indexed")]
    /\ mine' = [mine EXCEPT ![p].status = "indexed"]
    /\ Goto(p, "promote")
    /\ UNCHANGED <<store, owed, job, plan, bounds>>

\* The row is indexed and has vectors.
MarkIndexed(p) ==
    /\ pc[p] = "mark"
    /\ Exists(Doc(p))
    /\ row' = [row EXCEPT
                 ![Doc(p)].status = Written(@, mine[p].status, "indexed"),
                 ![Doc(p)].vectors = Written(@, mine[p].vectors, TRUE)]
    /\ mine' = [mine EXCEPT ![p].status = "indexed", ![p].vectors = TRUE]
    /\ Goto(p, "promote")
    /\ UNCHANGED <<store, owed, job, plan, bounds>>

-----------------------------------------------------------------------------
(* Deletion. *)

\* Mutant: only a document that is still indexed is thought to have points.
DeletePointsOfIndexed(p) ==
    /\ pc[p] = "points"
    /\ store' = IF row[Doc(p)].status = "indexed"
                THEN [store EXCEPT ![Doc(p)] = "none"] ELSE store
    /\ Goto(p, "erase")
    /\ UNCHANGED <<row, owed, job, mine, plan, bounds>>

\* run_delete: the points first, then the stored files, ...
DeletePoints(p) ==
    /\ pc[p] = "points"
    /\ store' = [store EXCEPT ![Doc(p)] = "none"]
    /\ Goto(p, "erase")
    /\ UNCHANGED <<row, owed, job, mine, plan, bounds>>

\* ... then the row, whose commit ends the deletion; the lineage follows.
EraseRow(p) ==
    /\ pc[p] = "erase"
    /\ row' = [row EXCEPT ![Doc(p)] = [NoRow EXCEPT !.status = "gone"]]
    /\ Goto(p, "promote")
    /\ UNCHANGED <<store, owed, job, mine, plan, bounds>>

-----------------------------------------------------------------------------
(* promote_lineage. *)

Indexed == {v \in Versions : row[v].status = "indexed"}

\* A row as p's session sees it under FOR UPDATE.
Seen(p, v) == IF v = Doc(p) /\ job[p][1] # "delete" THEN mine[p] ELSE row[v]

\* The highest approved version, or the highest when none is approved.
Effective(rows, approved) ==
    IF approved # {} THEN Max(approved) ELSE Max(rows)

\* Mutant: approvals are ignored.
WinnerNewest(p) == Max(Indexed)

Winner(p) == Effective(Indexed, {v \in Indexed : Seen(p, v).approved})

NothingIndexed(p) ==
    /\ pc[p] = "promote"
    /\ Indexed = {}
    /\ End(p)
    /\ UNCHANGED <<row, store, owed, bounds>>

\* The winner has no points: it is left to the caller to have it re-indexed.
NeedsReindex(p) ==
    /\ pc[p] = "promote"
    /\ Indexed # {}
    /\ ~Seen(p, Winner(p)).vectors
    /\ plan' = [plan EXCEPT ![p].winner = Winner(p)]
    /\ Goto(p, "enqueue")
    /\ UNCHANGED <<row, store, owed, job, mine, bounds>>

\* Flags of all indexed rows in one commit, which releases the row locks.
Converge(p) ==
    /\ pc[p] = "promote"
    /\ Indexed # {}
    /\ Seen(p, Winner(p)).vectors
    /\ row' = [v \in Versions |->
                 IF v \in Indexed
                 THEN [row[v] EXCEPT !.current =
                          Written(@, Seen(p, v).current, v = Winner(p))]
                 ELSE row[v]]
    /\ plan' = [plan EXCEPT ![p] =
                  [winner |-> Winner(p),
                   demoted |-> {v \in Indexed \ {Winner(p)} : Seen(p, v).vectors}]]
    /\ Goto(p, "flip")
    /\ UNCHANGED <<store, owed, job, mine, bounds>>

\* update_document_current on the winner.
Flip(p) ==
    /\ pc[p] = "flip"
    /\ store' = [store EXCEPT ![plan[p].winner] = IF @ = "none" THEN @ ELSE "visible"]
    /\ Goto(p, "drop")
    /\ UNCHANGED <<row, owed, job, mine, plan, bounds>>

\* delete_document_points on the versions that were demoted.
DropDemoted(p) ==
    /\ pc[p] = "drop"
    /\ store' = [v \in Versions |-> IF v \in plan[p].demoted THEN "none" ELSE store[v]]
    /\ Goto(p, "clear")
    /\ UNCHANGED <<row, owed, job, mine, plan, bounds>>

\* vectors_present = False and the last commit, when no row of it is gone.
ClearVectors(p) ==
    /\ pc[p] = "clear"
    /\ row' = IF \A v \in plan[p].demoted : Exists(v)
              THEN [v \in Versions |-> IF v \in plan[p].demoted
                                       THEN [row[v] EXCEPT !.vectors = FALSE] ELSE row[v]]
              ELSE row
    /\ End(p)
    /\ UNCHANGED <<store, owed, bounds>>

\* The task wrapper's enqueue_reindex, or the event set_approved publishes.
Enqueue(p) ==
    /\ pc[p] = "enqueue"
    /\ owed' = owed \union {<<"reindex", plan[p].winner>>}
    /\ End(p)
    /\ UNCHANGED <<row, store, bounds>>

-----------------------------------------------------------------------------
(* Failures. *)

Promoting == {"promote", "flip", "drop", "clear", "enqueue"}

\* A task is tried again, or its retries are exhausted and on_failure calls
\* mark_failed; a request is answered with an error.
GiveBack(p) ==
    \/ /\ job[p] \in Messages
       /\ owed' = owed \union {job[p]}
       /\ UNCHANGED row
    \/ /\ job[p] \in Messages
       /\ row' = IF Exists(Doc(p)) THEN [row EXCEPT ![Doc(p)].status = "failed"] ELSE row
       /\ UNCHANGED owed
    \/ job[p] \notin Messages /\ UNCHANGED <<row, owed>>

StageRaises(p) ==
    /\ pc[p] \notin Promoting \union {"idle"}
    /\ errors < MaxErrors
    /\ errors' = errors + 1
    /\ GiveBack(p)
    /\ End(p)
    /\ UNCHANGED <<store, requests, cuts>>

\* The process is killed, or a call raises, between the commits of a promotion.
PromotionCut(p) ==
    /\ pc[p] \in Promoting
    /\ cuts < MaxCuts
    /\ cuts' = cuts + 1
    /\ GiveBack(p)
    /\ End(p)
    /\ UNCHANGED <<store, requests, errors>>

-----------------------------------------------------------------------------

Promote(p) ==
    \/ NothingIndexed(p) \/ NeedsReindex(p) \/ Converge(p)
    \/ Flip(p) \/ DropDemoted(p) \/ ClearVectors(p) \/ Enqueue(p)

Task(p) ==
    \/ Take(p) \/ Vanished(p)
    \/ Parse(p) \/ EmbedStart(p) \/ Upsert(p) \/ Reread(p) \/ MarkIndexed(p)
    \/ DeletePoints(p) \/ EraseRow(p)
    \/ Promote(p)

Next ==
    \/ \E v \in Versions : Upload(v) \/ RequestDelete(v) \/ RequestReindex(v)
    \/ \E p \in Processes :
        \/ Task(p) \/ StageRaises(p) \/ PromotionCut(p)
        \/ \E v \in Versions : Approve(p, v)

Spec == Init /\ [][Next]_vars

\* Workers consume their queues, and a process that was not killed goes on.
FairSpec == Spec /\ \A p \in Processes : WF_vars(Task(p))

-----------------------------------------------------------------------------
(* Properties. *)

AtRest == owed = {} /\ \A p \in Processes : pc[p] = "idle"

Approved == {v \in Indexed : row[v].approved}

\* promote_lineage, whatever uploads, approvals, re-indexes and deletions came
\* before and whatever stages had to be tried again: once nothing is owed and
\* every version is indexed, the effective version and no other is current
\* and served, and the rows that claim vectors are those that have points.
ConvergedAtRest ==
    AtRest /\ Indexed # {} /\ (\A v \in Versions : Exists(v) => v \in Indexed) =>
        \A v \in Versions :
            /\ row[v].current <=> v = Effective(Indexed, Approved)
            /\ store[v] = "visible" <=> v = Effective(Indexed, Approved)
            /\ row[v].vectors <=> store[v] # "none"

\* run_delete: a document that was deleted is not served.
DeletedNotServed ==
    \A v \in Versions : row[v].status = "gone" => store[v] # "visible"

\* Promotion and re-indexing call each other through the queue: once the
\* requests stop, so do the tasks, whatever overlaps and whatever is cut short.
Settles == <>[]AtRest
=============================================================================
