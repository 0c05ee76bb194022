----------------------------- MODULE StuckSweep -----------------------------
(***************************************************************************)
(* The hourly sweep that drives stranded documents again                   *)
(* (reconcile_stuck_documents).  Nothing reads the status column, so a     *)
(* document whose message or worker was lost stays "queued", "processing"  *)
(* or "deleting" until the sweep finds it silent: no stage of its          *)
(* ingestion has written its job's row, or, without a job, nothing its own *)
(* row, for longer than the cutoff.                                        *)
(*                                                                         *)
(* The clock counts beats of the sweep.  A deletion is not requested while *)
(* a stage runs (Lineage has that race).                                   *)
(***************************************************************************)
EXTENDS FiniteSetsExt

CONSTANTS
    Docs,
    Cutoff,     \* _STUCK_AFTER_SECONDS, in beats
    Limit,      \* limit of one sweep
    MaxOwed,    \* bound: messages in the queue for one document
    MaxTime     \* bound: the clock

VARIABLES
    time,
    swept,    \* whether this beat's sweep has run
    row,      \* documents: status, updated_at, newest job's updated_at
    owed,     \* messages in the outbox or the broker
    worker,   \* who works on each document
    since     \* when each document last had a message or a worker (history)

sweepVars == <<time, swept, row, owed, worker, since>>

NoJob == 0
Waiting == {"queued", "processing", "deleting"}

TypeOK ==
    /\ time \in 1..MaxTime /\ swept \in BOOLEAN
    /\ row \in [Docs -> [status : Waiting \union {"none", "indexed", "gone"},
                         touched : 1..MaxTime, beat : 0..MaxTime]]
    /\ owed \in [Docs -> 0..MaxOwed] /\ worker \in [Docs -> {"none", "ingest", "delete"}]
    /\ since \in [Docs -> 1..MaxTime]

Init ==
    /\ time = 1 /\ swept = FALSE
    /\ row = [d \in Docs |-> [status |-> "none", touched |-> 1, beat |-> NoJob]]
    /\ owed = [d \in Docs |-> 0] /\ worker = [d \in Docs |-> "none"]
    /\ since = [d \in Docs |-> 1]

-----------------------------------------------------------------------------
SetRow(d, status, beat) == row' = [row EXCEPT ![d] = [status |-> status, touched |-> time, beat |-> beat]]
SetWorker(d, w) == worker' = [worker EXCEPT ![d] = w]
Owe(d) == owed' = [owed EXCEPT ![d] = IF @ < MaxOwed THEN @ + 1 ELSE @]
Seen(d) == since' = [since EXCEPT ![d] = time]

\* create_from_upload
Upload(d) ==
    /\ row[d].status = "none"
    /\ SetRow(d, "queued", NoJob) /\ Owe(d) /\ Seen(d)
    /\ UNCHANGED <<time, swept, worker>>

\* request_delete; the jobs of the ingestion stay until run_delete.
RequestDelete(d) ==
    /\ row[d].status \in {"queued", "processing", "indexed"} /\ worker[d] = "none"
    /\ SetRow(d, "deleting", row[d].beat) /\ Owe(d) /\ Seen(d)
    /\ UNCHANGED <<time, swept, worker>>

\* A worker takes a message: a stage starts with a job of its own
\* (_start_stage), a deletion with none.
Take(d) ==
    /\ owed[d] > 0 /\ worker[d] = "none"
    /\ owed' = [owed EXCEPT ![d] = @ - 1]
    /\ Seen(d)
    /\ CASE row[d].status = "deleting" -> SetWorker(d, "delete") /\ UNCHANGED row
         [] row[d].status \in {"none", "gone"} -> UNCHANGED <<worker, row>>
         [] OTHER -> SetWorker(d, "ingest") /\ row' = [row EXCEPT ![d].beat = time]
    /\ UNCHANGED <<time, swept>>

\* Progress of a stage, the end of one and the start of the next.
Progress(d) ==
    /\ worker[d] = "ingest"
    /\ \/ row' = [row EXCEPT ![d].beat = time]
       \/ SetRow(d, "processing", time)
    /\ Seen(d)
    /\ UNCHANGED <<time, swept, owed, worker>>

FinishIngest(d) ==
    /\ worker[d] = "ingest"
    /\ SetRow(d, "indexed", time) /\ SetWorker(d, "none") /\ Seen(d)
    /\ UNCHANGED <<time, swept, owed>>

\* run_delete
FinishDelete(d) ==
    /\ worker[d] = "delete"
    /\ SetRow(d, "gone", NoJob) /\ SetWorker(d, "none") /\ Seen(d)
    /\ UNCHANGED <<time, swept, owed>>

\* A worker dies for good, or the queue loses what it held.
Lose(d) ==
    /\ \/ worker[d] # "none" /\ SetWorker(d, "none") /\ UNCHANGED owed
       \/ owed[d] > 0 /\ owed' = [owed EXCEPT ![d] = 0] /\ UNCHANGED worker
    /\ Seen(d)
    /\ UNCHANGED <<time, swept, row>>

-----------------------------------------------------------------------------
\* Mutant: only the document's own row is looked at.
LivenessOfRow(d) == row[d].touched

\* coalesce(max(IngestJob.updated_at), Document.updated_at)
Liveness(d) == IF row[d].beat = NoJob THEN row[d].touched ELSE row[d].beat

Silent(d) == row[d].status \in Waiting /\ Liveness(d) + Cutoff < time

\* reconcile_stuck_documents, the longest silent first.
Sweep ==
    /\ ~swept /\ swept' = TRUE
    /\ \E stuck \in SUBSET {d \in Docs : Silent(d)} :
         /\ Cardinality(stuck) = Min({Limit, Cardinality({d \in Docs : Silent(d)})})
         /\ \A d \in stuck, e \in Docs \ stuck : Silent(e) => Liveness(d) <= Liveness(e)
         /\ owed' = [d \in Docs |-> IF d \in stuck THEN Min({owed[d] + 1, MaxOwed}) ELSE owed[d]]
         /\ row' = [d \in Docs |-> IF d \in stuck THEN [row[d] EXCEPT !.touched = time] ELSE row[d]]
         /\ since' = [d \in Docs |-> IF d \in stuck THEN time ELSE since[d]]
    /\ UNCHANGED <<time, worker>>

\* A stage that runs writes its job's row within the cutoff.
Tick ==
    /\ time < MaxTime /\ swept
    /\ \A d \in Docs : worker[d] = "ingest" => time < row[d].beat + Cutoff
    /\ time' = time + 1 /\ swept' = FALSE
    /\ since' = [d \in Docs |-> IF owed[d] > 0 \/ worker[d] # "none" THEN time' ELSE since[d]]
    /\ UNCHANGED <<row, owed, worker>>

Next ==
    \/ \E d \in Docs : \/ Upload(d) \/ RequestDelete(d) \/ Take(d) \/ Progress(d)
                       \/ FinishIngest(d) \/ FinishDelete(d) \/ Lose(d)
    \/ Sweep \/ Tick

Spec == Init /\ [][Next]_sweepVars

-----------------------------------------------------------------------------
Stranded(d) == row[d].status \in Waiting /\ owed[d] = 0 /\ worker[d] = "none"

\* A document that waits with no message and no worker is sent again at
\* most one beat after the cutoff, whenever it was lost and whatever was
\* lost: each sweep takes every silent document.  And a stage that goes on,
\* however long, is not started a second time beside itself: the sweep leaves
\* it alone.  reconcile_stuck_documents, _STUCK_AFTER_SECONDS' comment.
OnlyStrandedAreSwept ==
    [][\A d \in Docs :
          /\ Stranded(d)' => time' <= since'[d] + Cutoff + 1
          /\ Sweep /\ worker[d] = "ingest" => owed'[d] = owed[d]]_sweepVars
=============================================================================
