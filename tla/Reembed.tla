------------------------------- MODULE Reembed -------------------------------
(***************************************************************************)
(* Moving a workspace to another embedding model: start_reembed records a  *)
(* job and hands a task to Celery; the task (run_reembed_workspace) copies *)
(* the workspace's indexed documents into the new model's collection one   *)
(* by one, empties the old collection, and turns the workspace to the new  *)
(* model.  Uploads are refused while a job is unfinished.  The task is     *)
(* acknowledged late: one that was killed is delivered again, one that     *)
(* failed is retried, although its job is stamped finished by then.        *)
(*                                                                         *)
(* A failed call of the store changes nothing in it, and a task is not     *)
(* delivered again while it still runs.                                    *)
(***************************************************************************)
EXTENDS Naturals

CONSTANTS
    Docs,
    Models,       \* embedding models, each with a collection of its own
    First,        \* the model the workspace starts with
    MaxJobs,      \* bound: re-embeddings requested
    MaxRetries,   \* _MAX_RETRIES
    MaxKills      \* bound: tasks killed

ASSUME ReembedAssumption ==
    First \in Models /\ MaxJobs \in Nat /\ MaxRetries \in Nat /\ MaxKills \in Nat

VARIABLES
    model,    \* Workspace.embedding_model_id
    doc,      \* documents on their way through the ingestion chain
    points,   \* Qdrant: the documents each collection holds points of
    job,      \* reembed_jobs, in the order of their creation
    task,     \* Celery: the message of each job and the run it is in
    kills,
    caught    \* documents no run and no guard could look after (history)

reembedVars == <<model, doc, points, job, task, kills, caught>>

Jobs == 1..MaxJobs
NoJob == [state |-> "none", new |-> First]
NoTask == [pc |-> "none", old |-> First, todo |-> {}, tries |-> 0, emptied |-> FALSE]

TypeOK ==
    /\ model \in Models
    /\ doc \in [Docs -> [status : {"none", "checked", "queued", "embedding", "indexed"},
                         into : Models]]
    /\ points \in [Models -> SUBSET Docs] /\ caught \subseteq Docs
    /\ job \in [Jobs -> [state : {"none", "running", "finished"}, new : Models]]
    /\ task \in [Jobs -> [pc : {"none", "sent", "copy", "flip", "ack"}, old : Models,
                          todo : SUBSET Docs,
                          tries : 0..MaxRetries, emptied : BOOLEAN]]
    /\ kills \in 0..MaxKills

Init ==
    /\ model = First
    /\ doc = [d \in Docs |-> [status |-> "none", into |-> First]]
    /\ points = [m \in Models |-> {}]
    /\ job = [j \in Jobs |-> NoJob] /\ task = [j \in Jobs |-> NoTask]
    /\ kills = 0 /\ caught = {}

-----------------------------------------------------------------------------
Pending == {d \in Docs : doc[d].status \in {"checked", "queued", "embedding"}}
IndexedDocs == {d \in Docs : doc[d].status = "indexed"}

\* A task that is still to run for a job no guard sees any more.
Unguarded == \E j \in Jobs : job[j].state = "finished" /\ task[j].pc # "none"

\* create_from_upload: a job with started_at and no finished_at
Busy == \E j \in Jobs : job[j].state = "running"

SetDoc(d, status) == doc' = [doc EXCEPT ![d].status = status]

\* create_from_upload up to its test, and its commit.
CheckUpload(d) ==
    /\ doc[d].status = "none" /\ ~Busy
    /\ SetDoc(d, "checked")
    /\ caught' = IF Unguarded THEN caught \union {d} ELSE caught
    /\ UNCHANGED <<model, points, job, task, kills>>

CommitUpload(d) ==
    /\ doc[d].status = "checked" /\ SetDoc(d, "queued")
    /\ UNCHANGED <<model, points, job, task, kills, caught>>

\* run_embed_upsert: the workspace's model is read, and the points written
\* and the document marked indexed later.
StartEmbedding(d) ==
    /\ doc[d].status = "queued"
    /\ doc' = [doc EXCEPT ![d] = [status |-> "embedding", into |-> model]]
    /\ UNCHANGED <<model, points, job, task, kills, caught>>

FinishEmbedding(d) ==
    /\ doc[d].status = "embedding"
    /\ points' = [points EXCEPT ![doc[d].into] = @ \union {d}]
    /\ SetDoc(d, "indexed")
    /\ UNCHANGED <<model, job, task, kills, caught>>

-----------------------------------------------------------------------------
SetTask(j, pc) == task' = [task EXCEPT ![j].pc = pc]
SetJob(j, state) == job' = [job EXCEPT ![j].state = state]

NextJob(j) == job[j].state = "none" /\ \A i \in Jobs : i < j => job[i].state # "none"

\* start_reembed: the job is committed, then the task sent.
StartReembed(j, m) ==
    /\ NextJob(j) /\ m # model
    /\ job' = [job EXCEPT ![j] = [state |-> "running", new |-> m]]
    /\ SetTask(j, "sent")
    /\ caught' = caught \union Pending
    /\ UNCHANGED <<model, doc, points, kills>>

\* start_reembed when the broker is down: the job is closed at once.
StartUnsent(j, m) ==
    /\ NextJob(j) /\ m # model
    /\ job' = [job EXCEPT ![j] = [state |-> "finished", new |-> m]]
    /\ UNCHANGED <<model, doc, points, task, kills, caught>>

\* Mutant: a replayed task does not notice that its work is done.
SameModelUnseen(j) == FALSE

SameModel(j) == model = job[j].new

\* run_reembed_workspace up to its list of documents.
TakeTask(j) ==
    /\ task[j].pc = "sent"
    /\ \/ SameModel(j) /\ SetJob(j, "finished") /\ SetTask(j, "ack")
       \/ /\ ~SameModel(j)
          /\ task' = [task EXCEPT ![j] = [@ EXCEPT !.pc = "copy", !.old = model,
                                                   !.todo = IndexedDocs]]
          /\ UNCHANGED job
    /\ UNCHANGED <<model, doc, points, kills, caught>>

CopyDoc(j, d) ==
    /\ task[j].pc = "copy" /\ d \in task[j].todo
    /\ points' = [points EXCEPT ![job[j].new] = @ \union {d}]
    /\ task' = [task EXCEPT ![j].todo = @ \ {d}]
    /\ UNCHANGED <<model, doc, job, kills, caught>>

\* Another run is filling the collection that this one empties, or has filled it
\* and not turned the workspace to it: nothing keeps two jobs of a workspace apart.
FilledByOther(j) ==
    \E i \in Jobs \ {j} : task[i].pc \in {"copy", "flip"} /\ job[i].new = task[j].old

\* delete_workspace_points of the old collection
WipeOld(j) ==
    /\ task[j].pc = "copy" /\ task[j].todo = {}
    /\ points' = [points EXCEPT ![task[j].old] = {}]
    /\ task' = [task EXCEPT ![j].pc = "flip", ![j].emptied = TRUE]
    /\ caught' = IF FilledByOther(j) THEN Docs ELSE caught
    /\ UNCHANGED <<model, doc, job, kills>>

Flip(j) ==
    /\ task[j].pc = "flip"
    /\ model' = job[j].new /\ SetJob(j, "finished") /\ SetTask(j, "ack")
    /\ UNCHANGED <<doc, points, kills, caught>>

Acknowledge(j) ==
    /\ task[j].pc = "ack" /\ SetTask(j, "none")
    /\ UNCHANGED <<model, doc, points, job, kills, caught>>

\* Mutant: the last retry is retried.
RetriesOnceMore(j) == task[j].tries <= MaxRetries

\* max_retries
Retries(j) == task[j].tries < MaxRetries

\* An exception before the old collection is emptied: the job is stamped
\* and the task retried, or given up.
FailTask(j) ==
    /\ task[j].pc = "copy"
    /\ SetJob(j, "finished")
    /\ \/ /\ Retries(j)
          /\ task' = [task EXCEPT ![j].pc = "sent", ![j].tries = @ + 1]
          /\ UNCHANGED caught
       \/ /\ ~Retries(j) /\ SetTask(j, "none")
          /\ caught' = IF task[j].emptied THEN Docs ELSE caught
    /\ UNCHANGED <<model, doc, points, kills>>

\* The worker is killed; its message, not acknowledged, comes again.
KillTask(j) ==
    /\ task[j].pc \in {"copy", "flip", "ack"} /\ kills < MaxKills
    /\ kills' = kills + 1 /\ SetTask(j, "sent")
    /\ UNCHANGED <<model, doc, points, job, caught>>

Next ==
    \/ \E d \in Docs : CheckUpload(d) \/ CommitUpload(d) \/ StartEmbedding(d) \/ FinishEmbedding(d)
    \/ \E j \in Jobs :
         \/ \E m \in Models : StartReembed(j, m) \/ StartUnsent(j, m)
         \/ \E d \in Docs : CopyDoc(j, d)
         \/ TakeTask(j) \/ WipeOld(j) \/ Flip(j) \/ Acknowledge(j) \/ FailTask(j) \/ KillTask(j)

Spec == Init /\ [][Next]_reembedVars

-----------------------------------------------------------------------------
\* Once no task is left, every indexed document has its points in the
\* collection the workspace searches, whatever was killed, failed and
\* retried, and whichever of two jobs came first: unless it was on its way
\* through ingestion when a job began, was uploaded behind a failed job that
\* was about to be retried, a task killed after it emptied the old
\* collection failed for good when it came again, or one run emptied the
\* collection another was filling.  run_reembed_workspace, create_from_upload.
NothingLeftBehind ==
    (\A j \in Jobs : task[j].pc = "none") => IndexedDocs \ caught \subseteq points[model]
=============================================================================
