---------------------------- MODULE AnswersProofs ----------------------------
(***************************************************************************)
(* Proofs about the composed AnswersSpec.  The first part is about Reembed *)
(* alone, for any number of documents, models, jobs, retries and kills:    *)
(* its types, and that nothing is left behind.  The second part draws from *)
(* it, and from DeliveryProofs, what the composed system keeps.            *)
(*                                                                         *)
(* The invariant of Reembed says nothing while a task is left, so it is    *)
(* proved from what holds in between.  Swept says how far each run has     *)
(* come: what is indexed and not on its list is in the collection it       *)
(* fills.  Still says that a document on its way in is either recorded as  *)
(* caught or alone with the workspace's model.  Covered says that the      *)
(* collection which is searched is complete, or that the run which emptied *)
(* it is not over.                                                         *)
(***************************************************************************)
EXTENDS MCAnswers, FiniteSetTheorems, TLAPS

Safe == IndexedDocs \ caught

\* A job's task follows the job, and a run fills another collection than the
\* one it empties.
Shaped ==
    \A j \in Jobs :
        /\ job[j].state = "none" => task[j].pc = "none" /\ ~task[j].emptied
        /\ job[j].state = "running" => task[j].pc \in {"sent", "copy", "flip"}
        /\ task[j].pc \in {"copy", "flip"} => task[j].old # job[j].new

Still ==
    \A d \in Pending \ caught :
        /\ \A j \in Jobs : task[j].pc = "none"
        /\ doc[d].status = "embedding" => doc[d].into = model

Swept ==
    \A j \in Jobs :
        /\ task[j].pc = "copy" => Safe \subseteq points[job[j].new] \union task[j].todo
        /\ task[j].pc = "flip" => Safe \subseteq points[job[j].new]

\* The run j emptied a collection and is not over, or will come again; the one that
\* is searched is not the one it fills.
Pursued(j) ==
    task[j].emptied /\ task[j].pc \in {"sent", "copy", "flip"} /\ job[j].new # model

Covered == Safe \subseteq points[model] \/ \E j \in Jobs : Pursued(j)

ReembedInv == TypeOK /\ Shaped /\ Still /\ Swept /\ Covered

\* The first states are typed.
LEMMA TypeInit == Init => TypeOK
  BY ReembedAssumption DEF Init, TypeOK, NoJob, NoTask, Jobs

\* The types again, with a name for each kind of record.
DocSet == [status : {"none", "checked", "queued", "embedding", "indexed"}, into : Models]
JobSet == [state : {"none", "running", "finished"}, new : Models]
TaskSet == [pc : {"none", "sent", "copy", "flip", "ack"}, old : Models, todo : SUBSET Docs,
            tries : 0..MaxRetries, emptied : BOOLEAN]

Typed ==
    /\ model \in Models /\ caught \subseteq Docs /\ kills \in 0..MaxKills
    /\ doc \in [Docs -> DocSet] /\ points \in [Models -> SUBSET Docs]
    /\ job \in [Jobs -> JobSet] /\ task \in [Jobs -> TaskSet]

\* Giving a document, a job or a task another status keeps its type.
LEMMA StatusTyped ==
    ASSUME Typed
    PROVE  /\ \A d \in Docs, s \in {"checked", "queued", "indexed"} :
                SetDoc(d, s) => doc' \in [Docs -> DocSet]
           /\ \A j \in Jobs : SetJob(j, "finished") => job' \in [Jobs -> JobSet]
           /\ \A j \in Jobs, s \in {"none", "sent", "ack"} :
                SetTask(j, s) => task' \in [Jobs -> TaskSet]
<1>1. ASSUME NEW d \in Docs, NEW s \in {"checked", "queued", "indexed"}, SetDoc(d, s)
      PROVE  doc' \in [Docs -> DocSet]
  <2>1. doc \in [Docs -> DocSet] /\ doc' = [doc EXCEPT ![d].status = s]
    BY <1>1 DEF Typed, SetDoc
  <2>2. [doc[d] EXCEPT !.status = s] \in DocSet
    BY <2>1 DEF DocSet
  <2> QED
    BY <2>1, <2>2
<1>2. ASSUME NEW j \in Jobs, SetJob(j, "finished")
      PROVE  job' \in [Jobs -> JobSet]
  <2>1. job \in [Jobs -> JobSet] /\ job' = [job EXCEPT ![j].state = "finished"]
    BY <1>2 DEF Typed, SetJob
  <2>2. [job[j] EXCEPT !.state = "finished"] \in JobSet
    BY <2>1 DEF JobSet
  <2> QED
    BY <2>1, <2>2
<1>3. ASSUME NEW j \in Jobs, NEW s \in {"none", "sent", "ack"}, SetTask(j, s)
      PROVE  task' \in [Jobs -> TaskSet]
  <2>1. task \in [Jobs -> TaskSet] /\ task' = [task EXCEPT ![j].pc = s]
    BY <1>3 DEF Typed, SetTask
  <2>2. [task[j] EXCEPT !.pc = s] \in TaskSet
    BY <2>1 DEF TaskSet
  <2> QED
    BY <2>1, <2>2
<1> QED
  BY <1>1, <1>2, <1>3

\* Every step keeps the types.
LEMMA TypeNext == TypeOK /\ [Next]_reembedVars => TypeOK'
<1> SUFFICES ASSUME Typed, [Next]_reembedVars PROVE Typed'
  BY DEF Typed, TypeOK, DocSet, JobSet, TaskSet
<1> USE ReembedAssumption DEF Typed
<1>1. ASSUME NEW d \in Docs, CheckUpload(d) PROVE Typed'
  BY <1>1, StatusTyped DEF CheckUpload
<1>2. ASSUME NEW d \in Docs, CommitUpload(d) PROVE Typed'
  BY <1>2, StatusTyped DEF CommitUpload
<1>3. ASSUME NEW d \in Docs, StartEmbedding(d) PROVE Typed'
  <2>1. [status |-> "embedding", into |-> model] \in DocSet
    BY DEF DocSet
  <2> QED
    BY <1>3, <2>1 DEF StartEmbedding
<1>4. ASSUME NEW d \in Docs, FinishEmbedding(d) PROVE Typed'
  <2>1. points' \in [Models -> SUBSET Docs]
    BY <1>4 DEF FinishEmbedding, DocSet
  <2> QED
    BY <1>4, <2>1, StatusTyped DEF FinishEmbedding
<1>5. ASSUME NEW j \in Jobs, NEW m \in Models, StartReembed(j, m) PROVE Typed'
  <2>1. [state |-> "running", new |-> m] \in JobSet
    BY DEF JobSet
  <2>2. job' \in [Jobs -> JobSet]
    BY <1>5, <2>1 DEF StartReembed
  <2>3. Pending \subseteq Docs
    BY DEF Pending
  <2> QED
    BY <1>5, <2>2, <2>3, StatusTyped DEF StartReembed
<1>6. ASSUME NEW j \in Jobs, NEW m \in Models, StartUnsent(j, m) PROVE Typed'
  <2>1. [state |-> "finished", new |-> m] \in JobSet
    BY DEF JobSet
  <2> QED
    BY <1>6, <2>1 DEF StartUnsent
<1>7. ASSUME NEW j \in Jobs, NEW d \in Docs, CopyDoc(j, d) PROVE Typed'
  <2>1. /\ points' = [points EXCEPT ![job[j].new] = @ \union {d}]
        /\ task' = [task EXCEPT ![j].todo = @ \ {d}]
        /\ UNCHANGED <<model, doc, job, kills, caught>>
    BY <1>7 DEF CopyDoc
  <2>2. [task[j] EXCEPT !.todo = @ \ {d}] \in TaskSet
    BY DEF TaskSet
  <2>3. points' \in [Models -> SUBSET Docs]
    BY <2>1
  <2>4. task' \in [Jobs -> TaskSet]
    BY <2>1, <2>2
  <2> QED
    BY <2>1, <2>3, <2>4
<1>8. ASSUME NEW j \in Jobs, TakeTask(j) PROVE Typed'
  <2>1. [task[j] EXCEPT !.pc = "copy", !.old = model, !.todo = IndexedDocs] \in TaskSet
    BY DEF TaskSet, IndexedDocs
  <2> QED
    BY <1>8, <2>1, StatusTyped DEF TakeTask
<1>9. ASSUME NEW j \in Jobs, WipeOld(j) PROVE Typed'
  <2>1. /\ points' = [points EXCEPT ![task[j].old] = {}]
        /\ task' = [task EXCEPT ![j].pc = "flip", ![j].emptied = TRUE]
        /\ caught' = IF FilledByOther(j) THEN Docs ELSE caught
        /\ UNCHANGED <<model, doc, job, kills>>
    BY <1>9 DEF WipeOld
  <2>2. [[task[j] EXCEPT !.pc = "flip"] EXCEPT !.emptied = TRUE] \in TaskSet
    BY DEF TaskSet
  <2>3. points' \in [Models -> SUBSET Docs]
    BY <2>1
  <2>4. task' \in [Jobs -> TaskSet]
    BY <2>1, <2>2
  <2> QED
    BY <2>1, <2>3, <2>4
<1>10. ASSUME NEW j \in Jobs, Flip(j) PROVE Typed'
  <2>1. job[j].new \in Models
    BY DEF JobSet
  <2> QED
    BY <1>10, <2>1, StatusTyped DEF Flip
<1>11. ASSUME NEW j \in Jobs, Acknowledge(j) PROVE Typed'
  BY <1>11, StatusTyped DEF Acknowledge
<1>12. ASSUME NEW j \in Jobs, FailTask(j) PROVE Typed'
  <2>1. CASE Retries(j)
    <3>a. task[j].tries + 1 \in 0..MaxRetries /\ task[j] \in TaskSet
      BY <2>1 DEF Retries, TaskSet
    <3>1. [task[j] EXCEPT !.pc = "sent", !.tries = task[j].tries + 1] \in TaskSet
      BY <3>a DEF TaskSet
    <3>2. /\ SetJob(j, "finished") /\ UNCHANGED <<caught, model, doc, points, kills>>
          /\ task' = [task EXCEPT ![j].pc = "sent", ![j].tries = @ + 1]
      BY <1>12, <2>1 DEF FailTask
    <3>3. task' \in [Jobs -> TaskSet]
      BY <3>1, <3>2
    <3>4. QED
      BY <3>2, <3>3, StatusTyped
  <2>2. CASE ~Retries(j)
    BY <1>12, <2>2, StatusTyped DEF FailTask
  <2>3. QED
    BY <2>1, <2>2
<1>13. ASSUME NEW j \in Jobs, KillTask(j) PROVE Typed'
  <2>1. kills' \in 0..MaxKills
    BY <1>13 DEF KillTask
  <2>2. QED
    BY <1>13, <2>1, StatusTyped DEF KillTask
<1>14. CASE UNCHANGED reembedVars
  BY <1>14 DEF reembedVars
<1>15. QED
  BY <1>1, <1>2, <1>3, <1>4, <1>5, <1>6, <1>7, <1>8, <1>9, <1>10, <1>11, <1>12, <1>13, <1>14 DEF Next

\* Every step keeps tasks and jobs in step.
LEMMA ShapedNext == TypeOK /\ Shaped /\ [Next]_reembedVars => Shaped'
<1> SUFFICES ASSUME TypeOK /\ Shaped, [Next]_reembedVars PROVE Shaped'
  OBVIOUS
<1> USE DEF TypeOK, Shaped
<1>1. ASSUME NEW d \in Docs, CheckUpload(d) PROVE Shaped'
  BY <1>1 DEF CheckUpload, SetDoc
<1>2. ASSUME NEW d \in Docs, CommitUpload(d) PROVE Shaped'
  BY <1>2 DEF CommitUpload, SetDoc
<1>3. ASSUME NEW d \in Docs, StartEmbedding(d) PROVE Shaped'
  BY <1>3 DEF StartEmbedding
<1>4. ASSUME NEW d \in Docs, FinishEmbedding(d) PROVE Shaped'
  BY <1>4 DEF FinishEmbedding, SetDoc
<1>5. ASSUME NEW i \in Jobs, NEW m \in Models, StartReembed(i, m) PROVE Shaped'
  BY <1>5 DEF StartReembed, SetTask, Pending, NextJob
<1>6. ASSUME NEW i \in Jobs, NEW m \in Models, StartUnsent(i, m) PROVE Shaped'
  BY <1>6 DEF StartUnsent, NextJob
<1>7. ASSUME NEW i \in Jobs, NEW d \in Docs, CopyDoc(i, d) PROVE Shaped'
  BY <1>7 DEF CopyDoc
<1>8. ASSUME NEW i \in Jobs, TakeTask(i) PROVE Shaped'
  <2>1. CASE SameModel(i)
    <3>1. SetJob(i, "finished") /\ SetTask(i, "ack") /\ UNCHANGED <<model, doc, points, kills, caught>>
      BY <1>8, <2>1 DEF TakeTask
    <3>2. QED
      BY <1>8, <2>1, <3>1 DEF SetTask, SetJob, SameModel
  <2>2. CASE ~SameModel(i)
    <3>1. /\ task' = [task EXCEPT ![i] = [@ EXCEPT !.pc = "copy", !.old = model,
                                                   !.todo = IndexedDocs]]
          /\ UNCHANGED <<job, model, doc, points, kills, caught>>
      BY <1>8, <2>2 DEF TakeTask
    <3>2. QED
      BY <1>8, <2>2, <3>1 DEF TakeTask, SameModel
  <2>3. QED
    BY <2>1, <2>2
<1>9. ASSUME NEW i \in Jobs, WipeOld(i) PROVE Shaped'
  BY <1>9 DEF WipeOld
<1>10. ASSUME NEW i \in Jobs, Flip(i) PROVE Shaped'
  BY <1>10 DEF Flip, SetTask, SetJob
<1>11. ASSUME NEW i \in Jobs, Acknowledge(i) PROVE Shaped'
  BY <1>11 DEF Acknowledge, SetTask
<1>12. ASSUME NEW i \in Jobs, FailTask(i) PROVE Shaped'
  BY <1>12 DEF FailTask, SetTask, SetJob
<1>13. ASSUME NEW i \in Jobs, KillTask(i) PROVE Shaped'
  BY <1>13 DEF KillTask, SetTask
<1>14. CASE UNCHANGED reembedVars
  BY <1>14 DEF reembedVars
<1>15. QED
  BY <1>1, <1>2, <1>3, <1>4, <1>5, <1>6, <1>7, <1>8, <1>9, <1>10, <1>11, <1>12, <1>13, <1>14 DEF Next

\* Every step keeps the documents on their way in caught or alone.
LEMMA StillNext == TypeOK /\ Shaped /\ Still /\ [Next]_reembedVars => Still'
<1> SUFFICES ASSUME TypeOK /\ Shaped /\ Still, [Next]_reembedVars PROVE Still'
  OBVIOUS
<1> USE DEF TypeOK, Shaped, Still, Pending
<1>1. ASSUME NEW d \in Docs, CheckUpload(d) PROVE Still'
  BY <1>1 DEF CheckUpload, SetDoc, Busy, Unguarded
<1>2. ASSUME NEW d \in Docs, CommitUpload(d) PROVE Still'
  BY <1>2 DEF CommitUpload, SetDoc
<1>3. ASSUME NEW d \in Docs, StartEmbedding(d) PROVE Still'
  BY <1>3 DEF StartEmbedding
<1>4. ASSUME NEW d \in Docs, FinishEmbedding(d) PROVE Still'
  BY <1>4 DEF FinishEmbedding, SetDoc
<1>5. ASSUME NEW i \in Jobs, NEW m \in Models, StartReembed(i, m) PROVE Still'
  BY <1>5 DEF StartReembed, SetTask, Pending, NextJob
<1>6. ASSUME NEW i \in Jobs, NEW m \in Models, StartUnsent(i, m) PROVE Still'
  BY <1>6 DEF StartUnsent, NextJob
<1>7. ASSUME NEW i \in Jobs, NEW d \in Docs, CopyDoc(i, d) PROVE Still'
  BY <1>7 DEF CopyDoc
<1>8. ASSUME NEW i \in Jobs, TakeTask(i) PROVE Still'
  BY <1>8 DEF TakeTask, SetTask, SetJob
<1>9. ASSUME NEW i \in Jobs, WipeOld(i) PROVE Still'
  BY <1>9 DEF WipeOld
<1>10. ASSUME NEW i \in Jobs, Flip(i) PROVE Still'
  BY <1>10 DEF Flip, SetTask, SetJob
<1>11. ASSUME NEW i \in Jobs, Acknowledge(i) PROVE Still'
  BY <1>11 DEF Acknowledge, SetTask
<1>12. ASSUME NEW i \in Jobs, FailTask(i) PROVE Still'
  BY <1>12 DEF FailTask, SetTask, SetJob
<1>13. ASSUME NEW i \in Jobs, KillTask(i) PROVE Still'
  BY <1>13 DEF KillTask, SetTask
<1>14. CASE UNCHANGED reembedVars
  BY <1>14 DEF reembedVars
<1>15. QED
  BY <1>1, <1>2, <1>3, <1>4, <1>5, <1>6, <1>7, <1>8, <1>9, <1>10, <1>11, <1>12, <1>13, <1>14 DEF Next

\* Every step keeps what a run has copied.
LEMMA SweptNext == TypeOK /\ Shaped /\ Still /\ Swept /\ [Next]_reembedVars => Swept'
<1> SUFFICES ASSUME TypeOK /\ Shaped /\ Still /\ Swept, [Next]_reembedVars PROVE Swept'
  OBVIOUS
<1> USE DEF TypeOK, Swept, Safe, IndexedDocs
<1>1. ASSUME NEW d \in Docs, CheckUpload(d) PROVE Swept'
  BY <1>1 DEF CheckUpload, SetDoc
<1>2. ASSUME NEW d \in Docs, CommitUpload(d) PROVE Swept'
  BY <1>2 DEF CommitUpload, SetDoc
<1>3. ASSUME NEW d \in Docs, StartEmbedding(d) PROVE Swept'
  BY <1>3 DEF StartEmbedding
<1>4. ASSUME NEW d \in Docs, FinishEmbedding(d) PROVE Swept'
  BY <1>4 DEF FinishEmbedding, SetDoc, Still, Pending
<1>5. ASSUME NEW i \in Jobs, NEW m \in Models, StartReembed(i, m) PROVE Swept'
  BY <1>5 DEF StartReembed, SetTask, Pending, NextJob
<1>6. ASSUME NEW i \in Jobs, NEW m \in Models, StartUnsent(i, m) PROVE Swept'
  BY <1>6 DEF StartUnsent, NextJob, Shaped
<1>7. ASSUME NEW i \in Jobs, NEW d \in Docs, CopyDoc(i, d) PROVE Swept'
  BY <1>7 DEF CopyDoc
<1>8. ASSUME NEW i \in Jobs, TakeTask(i) PROVE Swept'
  <2>1. CASE SameModel(i)
    <3>1. SetJob(i, "finished") /\ SetTask(i, "ack") /\ UNCHANGED <<model, doc, points, kills, caught>>
      BY <1>8, <2>1 DEF TakeTask
    <3>2. QED
      BY <1>8, <2>1, <3>1 DEF SetTask, SetJob, SameModel
  <2>2. CASE ~SameModel(i)
    <3>1. /\ task' = [task EXCEPT ![i] = [@ EXCEPT !.pc = "copy", !.old = model,
                                                   !.todo = IndexedDocs]]
          /\ UNCHANGED <<job, model, doc, points, kills, caught>>
      BY <1>8, <2>2 DEF TakeTask
    <3>2. QED
      BY <1>8, <2>2, <3>1 DEF TakeTask, SameModel
  <2>3. QED
    BY <2>1, <2>2
<1>9. ASSUME NEW i \in Jobs, WipeOld(i) PROVE Swept'
  BY <1>9 DEF WipeOld, Shaped, FilledByOther
<1>10. ASSUME NEW i \in Jobs, Flip(i) PROVE Swept'
  BY <1>10 DEF Flip, SetTask, SetJob
<1>11. ASSUME NEW i \in Jobs, Acknowledge(i) PROVE Swept'
  BY <1>11 DEF Acknowledge, SetTask
<1>12. ASSUME NEW i \in Jobs, FailTask(i) PROVE Swept'
  BY <1>12 DEF FailTask, SetTask, SetJob
<1>13. ASSUME NEW i \in Jobs, KillTask(i) PROVE Swept'
  BY <1>13 DEF KillTask, SetTask
<1>14. CASE UNCHANGED reembedVars
  BY <1>14 DEF reembedVars
<1>15. QED
  BY <1>1, <1>2, <1>3, <1>4, <1>5, <1>6, <1>7, <1>8, <1>9, <1>10, <1>11, <1>12, <1>13, <1>14 DEF Next

\* Every step keeps the collection that is searched complete, or its run going.
LEMMA CoveredNext == ReembedInv /\ [Next]_reembedVars => Covered'
<1> SUFFICES ASSUME ReembedInv, [Next]_reembedVars PROVE Covered'
  OBVIOUS
<1> USE DEF ReembedInv, TypeOK, Covered, Safe, IndexedDocs, Pursued
<1>1. ASSUME NEW d \in Docs, CheckUpload(d) PROVE Covered'
  BY <1>1 DEF CheckUpload, SetDoc
<1>2. ASSUME NEW d \in Docs, CommitUpload(d) PROVE Covered'
  BY <1>2 DEF CommitUpload, SetDoc
<1>3. ASSUME NEW d \in Docs, StartEmbedding(d) PROVE Covered'
  BY <1>3 DEF StartEmbedding
<1>4. ASSUME NEW d \in Docs, FinishEmbedding(d) PROVE Covered'
  BY <1>4 DEF FinishEmbedding, SetDoc, Still, Pending
<1>5. ASSUME NEW i \in Jobs, NEW m \in Models, StartReembed(i, m) PROVE Covered'
  BY <1>5 DEF StartReembed, SetTask, Pending, NextJob
<1>6. ASSUME NEW i \in Jobs, NEW m \in Models, StartUnsent(i, m) PROVE Covered'
  BY <1>6 DEF StartUnsent, NextJob
<1>7. ASSUME NEW i \in Jobs, NEW d \in Docs, CopyDoc(i, d) PROVE Covered'
  BY <1>7 DEF CopyDoc
<1>8. ASSUME NEW i \in Jobs, TakeTask(i) PROVE Covered'
  <2>1. CASE SameModel(i)
    <3>1. SetJob(i, "finished") /\ SetTask(i, "ack") /\ UNCHANGED <<model, doc, points, kills, caught>>
      BY <1>8, <2>1 DEF TakeTask
    <3>2. QED
      BY <1>8, <2>1, <3>1 DEF SetTask, SetJob, SameModel
  <2>2. CASE ~SameModel(i)
    <3>1. /\ task' = [task EXCEPT ![i] = [@ EXCEPT !.pc = "copy", !.old = model,
                                                   !.todo = IndexedDocs]]
          /\ UNCHANGED <<job, model, doc, points, kills, caught>>
      BY <1>8, <2>2 DEF TakeTask
    <3>2. QED
      BY <1>8, <2>2, <3>1 DEF TakeTask, SameModel
  <2>3. QED
    BY <2>1, <2>2
<1>9. ASSUME NEW i \in Jobs, WipeOld(i) PROVE Covered'
  BY <1>9 DEF WipeOld, Shaped
<1>10. ASSUME NEW i \in Jobs, Flip(i) PROVE Covered'
  BY <1>10 DEF Flip, SetTask, SetJob, Swept
<1>11. ASSUME NEW i \in Jobs, Acknowledge(i) PROVE Covered'
  BY <1>11 DEF Acknowledge, SetTask
<1>12. ASSUME NEW i \in Jobs, FailTask(i) PROVE Covered'
  BY <1>12 DEF FailTask, SetTask, SetJob
<1>13. ASSUME NEW i \in Jobs, KillTask(i) PROVE Covered'
  BY <1>13 DEF KillTask, SetTask
<1>14. CASE UNCHANGED reembedVars
  BY <1>14 DEF reembedVars
<1>15. QED
  BY <1>1, <1>2, <1>3, <1>4, <1>5, <1>6, <1>7, <1>8, <1>9, <1>10, <1>11, <1>12, <1>13, <1>14 DEF Next

\* All of it at once, for every state of every behaviour.
LEMMA InvAlways == Spec => []ReembedInv
<1>1. Init => ReembedInv
  <2>1. SUFFICES ASSUME Init PROVE ReembedInv
    OBVIOUS
  <2>2. Shaped /\ Swept
    BY <2>1 DEF Init, Shaped, Swept, NoJob, NoTask
  <2>3. Still /\ Covered
    BY <2>1 DEF Init, Still, Pending, Covered, Safe, IndexedDocs
  <2>4. QED
    BY <2>1, <2>2, <2>3, TypeInit DEF ReembedInv
<1>2. ReembedInv /\ [Next]_reembedVars => ReembedInv'
  BY TypeNext, ShapedNext, StillNext, SweptNext, CoveredNext DEF ReembedInv
<1>3. QED
  BY <1>1, <1>2, PTL DEF Spec

\* Every variable keeps its type, for any number of documents, models, jobs,
\* retries and kills.  run_reembed_workspace, create_from_upload.
THEOREM TypeCorrect == Spec => []TypeOK
<1>1. ReembedInv => TypeOK
  BY DEF ReembedInv
<1>2. QED
  BY <1>1, InvAlways, PTL

\* Once no task is left, the documents that no overlap caught have their points in
\* the collection the workspace searches.  run_reembed_workspace.
THEOREM NothingLeftBehindAlways == Spec => []NothingLeftBehind
<1>1. ReembedInv => NothingLeftBehind
  BY DEF ReembedInv, Covered, Pursued, Safe, NothingLeftBehind
<1>2. QED
  BY <1>1, InvAlways, PTL

-----------------------------------------------------------------------------
(* The composed system. *)

\* What Deliveries, Evals, Quota, Periods, Gather and Attachments keep for any instance, for
\* the instances here; StuckSweep, Metadata and Folders are not part of this system, and nothing
\* is said of them.
Handing == INSTANCE DeliveryProofs
    WITH Workers <- {w1, w2}, Messages <- {1, 2}, Platforms <- {"telegram", "slack", "discord"},
         Skew <- 1, TTL <- 3, MarkTTL <- 9, MaxTime <- 3,
         Queries <- {"g"}, Scorers <- {w1, w2}, Members <- {"r"},
         MaxChanges <- 2, MaxEvents <- 2, MaxNights <- 1, MaxStarts <- 2,
         settings <- ranking, request <- patching, events <- changed, runs <- measured,
         Askers <- {q1, q2}, Payers <- {u1}, Allotments <- {1, 2}, Lived <- 1, Late <- 1,
         Month <- 3, MaxRows <- 1, Horizon <- 3, instant <- now,
         FirstYear <- 2027, LastYear <- 2028,
         Loops <- Turns, AskerOf <- [t \in Turns |-> u1], House <- org,
         Cap <- [c \in {u1, org} |-> IF c = u1 THEN 1 ELSE 2], Calls <- 2, Iterations <- 2, Addresses <- {home},
         Base <- home, Days <- 2, providers <- settings,
         Attached <- Attached, MaxKills <- 1,
         Papers <- {}, Cutoff <- 0, Limit <- 0, MaxOwed <- 1, Clock <- 1, beat <- 1,
         swept <- FALSE, stuck <- <<>>, owed <- <<>>, worker <- <<>>, since <- <<>>,
         Kinds <- <<>>, Presets <- {}, Bodies <- {}, Filters <- {}, Editors <- {}, Parts <- {},
         MaxLosses <- 0, fields <- {}, meta <- <<>>, active <- 0, tagged <- <<>>, put <- <<>>,
         seed <- <<>>, writing <- <<>>, losses <- 0, loose <- FALSE,
         Filers <- {}, Movers <- {}, Shelves <- {}, Titles <- {}, Ways <- {}, Filed <- {},
         folder <- <<>>, doc <- <<>>, queued <- {}, task <- <<>>, stirred <- FALSE

\* The same with the other instance of Gather.
Paging == INSTANCE DeliveryProofs
    WITH Workers <- {w1, w2}, Messages <- {1, 2}, Platforms <- {"telegram", "slack", "discord"},
         Skew <- 1, TTL <- 3, MarkTTL <- 9, MaxTime <- 3,
         Queries <- {"g"}, Scorers <- {w1, w2}, Members <- {"r"},
         MaxChanges <- 2, MaxEvents <- 2, MaxNights <- 1, MaxStarts <- 2,
         settings <- ranking, request <- patching, events <- changed, runs <- measured,
         Askers <- {q1, q2}, Payers <- {u1}, Allotments <- {1, 2}, Lived <- 1, Late <- 1,
         Month <- 3, MaxRows <- 1, Horizon <- 3, instant <- now,
         FirstYear <- 2027, LastYear <- 2028,
         Loops <- {t1}, AskerOf <- [t \in {t1} |-> u1], House <- org,
         Cap <- [c \in {u1, org} |-> 0], Calls <- 2, Iterations <- 3, Addresses <- {page, home},
         Base <- home, Days <- 1, providers <- settings,
         Attached <- Attached, MaxKills <- 1,
         Papers <- {}, Cutoff <- 0, Limit <- 0, MaxOwed <- 1, Clock <- 1, beat <- 1,
         swept <- FALSE, stuck <- <<>>, owed <- <<>>, worker <- <<>>, since <- <<>>,
         Kinds <- <<>>, Presets <- {}, Bodies <- {}, Filters <- {}, Editors <- {}, Parts <- {},
         MaxLosses <- 0, fields <- {}, meta <- <<>>, active <- 0, tagged <- <<>>, put <- <<>>,
         seed <- <<>>, writing <- <<>>, losses <- 0, loose <- FALSE,
         Filers <- {}, Movers <- {}, Shelves <- {}, Titles <- {}, Ways <- {}, Filed <- {},
         folder <- <<>>, doc <- <<>>, queued <- {}, task <- <<>>, stirred <- FALSE

\* No behaviour leaves an indexed document behind, beside whatever else the system does:
\* run_reembed_workspace, create_from_upload.
THEOREM NothingLeftBehindHere == AnswersSpec => []NothingLeftBehind
<1>1. AnswersInit => Init
  BY DEF AnswersInit
<1>2. [AnswersNext]_answerVars => [Next]_reembedVars
  BY DEF AnswersNext, answerVars
<1>3. AnswersSpec => Spec
  BY <1>1, <1>2, PTL DEF AnswersSpec, Spec
<1> QED
  BY <1>3, NothingLeftBehindAlways, PTL

\* The bot deliveries of the run are those of Deliveries.
LEMMA DeliveriesHere == AnswersSpec => Handing!Spec
<1>1. AnswersInit => Handing!Init
  BY DEF AnswersInit, Delivery!NoChat, Delivery!Idle, Delivery!NoMark, Delivery!Init,
     Handing!NoChat, Handing!Idle, Handing!NoMark, Handing!Init
<1>2. [AnswersNext]_answerVars => [Delivery!Next]_(Delivery!deliveryVars)
  BY DEF AnswersNext, answerVars, deliveryVars, Delivery!deliveryVars
<1>3. [Delivery!Next]_(Delivery!deliveryVars) => [Handing!Next]_(Handing!deliveryVars)
  BY DEF Delivery!deliveryVars, Delivery!NoChat, Delivery!Idle, Delivery!NoMark,
     Delivery!MoreThanTwice, Delivery!Step, Delivery!Once, Delivery!Fresh, Delivery!Deliver,
     Delivery!Lifetime, Delivery!ClaimOnce, Delivery!ClaimMark, Delivery!Relay,
     Delivery!Inserted, Delivery!SaveMapping, Delivery!Reread, Delivery!Send,
     Delivery!SetEnabled, Delivery!DeleteIntegration, Delivery!Fail, Delivery!Tick,
     Delivery!Next, Handing!deliveryVars, Handing!NoChat, Handing!Idle, Handing!NoMark,
     Handing!MoreThanTwice, Handing!Step, Handing!Once, Handing!Fresh, Handing!Deliver,
     Handing!Lifetime, Handing!ClaimOnce, Handing!ClaimMark, Handing!Relay, Handing!Inserted,
     Handing!SaveMapping, Handing!Reread, Handing!Send, Handing!SetEnabled,
     Handing!DeleteIntegration, Handing!Fail, Handing!Tick, Handing!Next
<1> QED
  BY <1>1, <1>2, <1>3, PTL DEF AnswersSpec, Handing!Spec

\* The evaluation runs of the run are those of Evals.
LEMMA EvaluationsHere == AnswersSpec => Handing!Evaluation!Spec
<1>1. AnswersInit => Handing!Evaluation!Init
  BY DEF AnswersInit, Evaluating!NoEvent, Evaluating!Idle, Evaluating!Resting,
     Evaluating!Init, Handing!Evaluation!NoEvent, Handing!Evaluation!Idle,
     Handing!Evaluation!Resting, Handing!Evaluation!Init
<1>2. [AnswersNext]_answerVars => [Evaluating!Next]_(Evaluating!evalVars)
  BY DEF AnswersNext, answerVars, evalVars, Evaluating!evalVars
<1>3. [Evaluating!Next]_(Evaluating!evalVars) => [Handing!Evaluation!Next]_(Handing!Evaluation!evalVars)
  BY DEF Evaluating!evalVars, Evaluating!NoEvent, Evaluating!Idle, Evaluating!Resting,
     Evaluating!Call, Evaluating!Publish, Evaluating!CreateGoldenQuery,
     Evaluating!DeleteGoldenQuery, Evaluating!Prepared, Evaluating!Patch,
     Evaluating!PatchCommit, Evaluating!PatchFails, Evaluating!Trigger, Evaluating!Do,
     Evaluating!Snapshot, Evaluating!Load, Evaluating!Start, Evaluating!Nightly,
     Evaluating!Overtaken, Evaluating!Row, Evaluating!Reserved, Evaluating!Claim,
     Evaluating!Fill, Evaluating!Fail, Evaluating!Next, Handing!Evaluation!evalVars,
     Handing!Evaluation!NoEvent, Handing!Evaluation!Idle, Handing!Evaluation!Resting,
     Handing!Evaluation!Call, Handing!Evaluation!Publish,
     Handing!Evaluation!CreateGoldenQuery, Handing!Evaluation!DeleteGoldenQuery,
     Handing!Evaluation!Prepared, Handing!Evaluation!Patch, Handing!Evaluation!PatchCommit,
     Handing!Evaluation!PatchFails, Handing!Evaluation!Trigger, Handing!Evaluation!Do,
     Handing!Evaluation!Snapshot, Handing!Evaluation!Load, Handing!Evaluation!Start,
     Handing!Evaluation!Nightly, Handing!Evaluation!Overtaken, Handing!Evaluation!Row,
     Handing!Evaluation!Reserved, Handing!Evaluation!Claim, Handing!Evaluation!Fill,
     Handing!Evaluation!Fail, Handing!Evaluation!Next
<1> QED
  BY <1>1, <1>2, <1>3, PTL DEF AnswersSpec, Handing!Evaluation!Spec

\* Both at once, as the run checks them: a message that is delivered again is answered
\* once, and a run measures the change that started it, in a row of its own.
\* claim_once, claim_monotonic, run_eval.
THEOREM DeliveredOnceHere == AnswersSpec => []DeliveredOnce
<1>1. Handing!DeliveryBounds
  BY DEF Handing!DeliveryBounds
<1>2. Handing!Spec => []Handing!DeliveredOnce
  BY <1>1, Handing!DeliveredOnceAlways
<1>3. Handing!DeliveredOnce /\ Handing!Evaluation!RunsMeasureTheirChange => DeliveredOnce
  BY DEF DeliveredOnce, Delivery!DeliveredOnce, Delivery!NoChat, Handing!DeliveredOnce,
     Handing!NoChat, Evaluating!RunsMeasureTheirChange, Evaluating!NoEvent,
     Handing!Evaluation!RunsMeasureTheirChange, Handing!Evaluation!NoEvent
<1> QED
  BY <1>2, <1>3, DeliveriesHere, EvaluationsHere, Handing!RunsMeasureTheirChangeAlways, PTL

\* The quotas of the run are those of Quota, and the days those of Periods.
LEMMA SpendingHere == AnswersSpec => Handing!Spending!Spec
<1>1. AnswersInit => Handing!Spending!Init
  BY DEF AnswersInit, Spending!Init, Spending!Unset, Spending!Period, Spending!Periods,
     Spending!Org, Spending!Keys, Spending!Idle, Spending!NoEntry,
     Handing!Spending!Init, Handing!Spending!Unset, Handing!Spending!Period,
     Handing!Spending!Periods, Handing!Spending!Org, Handing!Spending!Keys,
     Handing!Spending!Idle, Handing!Spending!NoEntry
<1>2. [AnswersNext]_answerVars => [Spending!Next]_(Spending!quotaVars)
  BY DEF AnswersNext, answerVars, quotaVars, Spending!quotaVars
<1>3. [Spending!Next]_(Spending!quotaVars) => [Handing!Spending!Next]_(Handing!Spending!quotaVars)
  BY DEF Spending!quotaVars, Spending!Unset, Spending!Period, Spending!Periods,
     Spending!Org, Spending!Keys, Spending!Total, Spending!Cardinality,
     Spending!Allocated, Spending!Idle, Spending!NoEntry, Spending!Step, Spending!Since,
     Spending!Recorded, Spending!Reallocated, Spending!Open, Spending!KeyOf,
     Spending!Got, Spending!Filling, Spending!Cached, Spending!Expiry, Spending!Fill,
     Spending!Blocked, Spending!Decide, Spending!Record, Spending!SetUserQuota,
     Spending!SetOrgQuota, Spending!Prompt, Spending!Tick, Spending!Next,
     Handing!Spending!quotaVars, Handing!Spending!Unset, Handing!Spending!Period,
     Handing!Spending!Periods, Handing!Spending!Org, Handing!Spending!Keys,
     Handing!Spending!Total, Handing!Spending!Cardinality, Handing!Spending!Allocated,
     Handing!Spending!Idle, Handing!Spending!NoEntry, Handing!Spending!Step,
     Handing!Spending!Since, Handing!Spending!Recorded, Handing!Spending!Reallocated,
     Handing!Spending!Open, Handing!Spending!KeyOf, Handing!Spending!Got,
     Handing!Spending!Filling, Handing!Spending!Cached, Handing!Spending!Expiry,
     Handing!Spending!Fill, Handing!Spending!Blocked, Handing!Spending!Decide,
     Handing!Spending!Record, Handing!Spending!SetUserQuota,
     Handing!Spending!SetOrgQuota, Handing!Spending!Prompt, Handing!Spending!Tick,
     Handing!Spending!Next
<1> QED
  BY <1>1, <1>2, <1>3, PTL DEF AnswersSpec, Handing!Spending!Spec

\* The days of the run are those of Periods.
LEMMA CalendarHere == AnswersSpec => Handing!Calendar!Spec
<1>1. AnswersInit => Handing!Calendar!Init
  BY DEF AnswersInit, Calendar!Init, Handing!Calendar!Init
<1>2. [AnswersNext]_answerVars => [Calendar!Next]_(Calendar!periodVars)
  BY DEF AnswersNext, answerVars, periodVars, Calendar!periodVars
<1>3. [Calendar!Next]_(Calendar!periodVars) => [Handing!Calendar!Next]_(Handing!Calendar!periodVars)
  BY DEF Calendar!periodVars, Calendar!LeapYear, Calendar!MonthLength,
     Calendar!MonthAfter, Calendar!NextDay, Calendar!Next, Handing!Calendar!periodVars,
     Handing!Calendar!LeapYear, Handing!Calendar!MonthLength,
     Handing!Calendar!MonthAfter, Handing!Calendar!NextDay, Handing!Calendar!Next
<1> QED
  BY <1>1, <1>2, <1>3, PTL DEF AnswersSpec, Handing!Calendar!Spec

\* Both as the run checks them: a turn passes an allocation only within the lifetime of a
\* cached total, nobody is refused who has tokens left, and each day lies in one period.
\* check_quota, _cached_sum, period_bounds.
THEOREM AllocationsHoldHere == ASSUME u1 # "org" PROVE AnswersSpec => AllocationsHold
<1> DEFINE Fair == \A q \in {q1, q2} :
      /\ Spending!Admits(q) => \A k \in Spending!KeysOf(q) : ~(full[k] + 1 + 1 <= check[q].opened)
      /\ Spending!Refuses(q) =>
           \/ Spending!Total(ledger, <<check[q].user, check[q].period>>) >= userQuota[check[q].user]
           \/ Spending!Total(ledger, <<Spending!Org, check[q].period>>) >= check[q].limit
<1> DEFINE FairThere == \A q \in {q1, q2} :
      /\ Handing!Spending!Admits(q) =>
           \A k \in Handing!Spending!KeysOf(q) : ~(full[k] + 1 + 1 <= check[q].opened)
      /\ Handing!Spending!Refuses(q) =>
           \/ Handing!Spending!Total(ledger, <<check[q].user, check[q].period>>) >= userQuota[check[q].user]
           \/ Handing!Spending!Total(ledger, <<Handing!Spending!Org, check[q].period>>) >= check[q].limit
<1>1. Handing!QuotaBounds
  BY DEF Handing!QuotaBounds, Handing!Spending!Org
<1>2. Handing!Spending!Spec => Handing!Spending!AllocationsHold
  BY <1>1, Handing!AllocationsHoldAlways
<1>3. Handing!CalendarBounds
  BY DEF Handing!CalendarBounds
<1>4. Handing!Calendar!Spec => []Handing!Calendar!PeriodsTile
  BY <1>3, Handing!PeriodsTileAlways
<1>5. FairThere => Fair
  BY DEF Spending!Admits, Spending!Refuses, Spending!KeysOf, Spending!Total,
     Spending!Org, Spending!Cardinality, Handing!Spending!Admits,
     Handing!Spending!Refuses, Handing!Spending!KeysOf, Handing!Spending!Total,
     Handing!Spending!Org, Handing!Spending!Cardinality
<1>6. [FairThere]_(Handing!Spending!quotaVars) => [Fair]_(Spending!quotaVars)
  BY <1>5 DEF Spending!quotaVars, Handing!Spending!quotaVars
<1>7. Handing!Spending!AllocationsHold <=> [][FairThere]_(Handing!Spending!quotaVars)
  BY DEF Handing!Spending!AllocationsHold
<1>8. Spending!AllocationsHold <=> [][Fair]_(Spending!quotaVars)
  BY DEF Spending!AllocationsHold
<1>9. Handing!Calendar!PeriodsTile => (focus = "periods" => Calendar!PeriodsTile)
  <2>1. \A y, m : Calendar!MonthLength(y, m) = Handing!Calendar!MonthLength(y, m)
    BY DEF Calendar!MonthLength, Handing!Calendar!MonthLength, Calendar!LeapYear,
       Handing!Calendar!LeapYear
  <2>2. \A y, m, d : Calendar!Clamped(y, m, d) = Handing!Calendar!Clamped(y, m, d)
    BY <2>1 DEF Calendar!Clamped, Handing!Calendar!Clamped
  <2>3. \A a, b : Calendar!Earlier(a, b) <=> Handing!Calendar!Earlier(a, b)
    BY DEF Calendar!Earlier, Calendar!Ordinal, Handing!Calendar!Earlier,
       Handing!Calendar!Ordinal
  <2>4. \A y, m : /\ Calendar!MonthAfter(y, m) = Handing!Calendar!MonthAfter(y, m)
                  /\ Calendar!MonthBefore(y, m) = Handing!Calendar!MonthBefore(y, m)
    BY DEF Calendar!MonthAfter, Calendar!MonthBefore, Handing!Calendar!MonthAfter,
       Handing!Calendar!MonthBefore
  <2>5. \A x, r : Calendar!PeriodBounds(x, r) = Handing!Calendar!PeriodBounds(x, r)
    BY <2>2, <2>3, <2>4, Zenon DEF Calendar!PeriodBounds, Handing!Calendar!PeriodBounds
  <2> QED
    BY <2>3, <2>5, Zenon DEF Calendar!PeriodsTile, Handing!Calendar!PeriodsTile
<1> HIDE DEF Fair, FairThere
<1> QED
  BY <1>2, <1>4, <1>6, <1>7, <1>8, <1>9, SpendingHere, CalendarHere, PTL DEF AllocationsHold

\* The turns of the run, those that share capped counters, keep the invariant of Gather.
LEMMA CapsHere ==
  ASSUME u1 # org
  PROVE  Handing!GatherBounds /\ (AnswersSpec => [](focus = "caps" => Handing!GatherInv))
<1>1. Handing!GatherBounds
  <2>1. Handing!IsFiniteSet(Turns)
    <3>1. IsFiniteSet({t1} \union {t2})
      BY FS_Singleton, FS_AddElement
    <3>2. {t1} \union {t2} = Turns
      BY DEF Turns
    <3> QED
      BY <3>1, <3>2 DEF IsFiniteSet, Handing!IsFiniteSet
  <2>2. [c \in {u1, org} |-> IF c = u1 THEN 1 ELSE 2]
          \in [Handing!Gathering!Counters -> Nat]
    BY DEF Turns, Handing!Gathering!Counters
  <2> QED
    BY <2>1, <2>2 DEF Handing!GatherBounds
<1>2. AnswersInit => (focus = "caps" => Handing!GatherInv)
  <2>1. AnswersInit /\ focus = "caps" => Handing!Gathering!Init
    BY DEF AnswersInit, Turns, Caps!Counters, Caps!Fresh, Caps!Init, Handing!Gathering!Counters,
       Handing!Gathering!Fresh, Handing!Gathering!Init
  <2> QED
    BY <1>1, <2>1, Handing!GatherInit
<1>3. (focus = "caps" => Handing!GatherInv) /\ [AnswersNext]_answerVars
        => (focus = "caps" => Handing!GatherInv)'
  <2>1. (focus = "caps")' /\ [AnswersNext]_answerVars
          => focus = "caps" /\ [Caps!Next]_(Caps!vars)
    BY DEF AnswersNext, answerVars, gatherVars, Caps!vars, CapsNext, Caps!Local, Caps!Turn,
       Caps!Next
  <2>2. [Caps!Next]_(Caps!vars) => [Handing!Gathering!Next]_(Handing!Gathering!vars)
    BY DEF Turns, Caps!Providers, Caps!Keyed, Caps!Configure, Caps!Midnight, Caps!At,
       Caps!Become, Caps!Fresh, Caps!SearcherOf, Caps!Private, Caps!Ask, Caps!ResearcherOf,
       Caps!Begin, Caps!Step, Caps!FirstTool, Caps!DocumentTools, Caps!WebTools, Caps!Parsed,
       Caps!Offered, Caps!Plan, Caps!After, Caps!ReadDocuments, Caps!Allowed, Caps!Gate,
       Caps!Capped, Caps!Gates, Caps!BelowCap, Caps!Peek, Caps!Redact, Caps!CanCall,
       Caps!Provider, Caps!Answered, Caps!Joined, Caps!Search, Caps!Research, Caps!MayRaise,
       Caps!ProviderRaises, Caps!Record, Caps!Degrade, Caps!End, Caps!Turn, Caps!Next,
       Caps!vars, Handing!Gathering!Providers, Handing!Gathering!Keyed,
       Handing!Gathering!Configure, Handing!Gathering!Midnight, Handing!Gathering!At,
       Handing!Gathering!Become, Handing!Gathering!Fresh, Handing!Gathering!SearcherOf,
       Handing!Gathering!Private, Handing!Gathering!Ask, Handing!Gathering!ResearcherOf,
       Handing!Gathering!Begin, Handing!Gathering!Step, Handing!Gathering!FirstTool,
       Handing!Gathering!DocumentTools, Handing!Gathering!WebTools, Handing!Gathering!Parsed,
       Handing!Gathering!Offered, Handing!Gathering!Plan, Handing!Gathering!After,
       Handing!Gathering!ReadDocuments, Handing!Gathering!Allowed, Handing!Gathering!Gate,
       Handing!Gathering!Capped, Handing!Gathering!Gates, Handing!Gathering!BelowCap,
       Handing!Gathering!Peek, Handing!Gathering!Redact, Handing!Gathering!CanCall,
       Handing!Gathering!Provider, Handing!Gathering!Answered, Handing!Gathering!Joined,
       Handing!Gathering!Search, Handing!Gathering!Research, Handing!Gathering!MayRaise,
       Handing!Gathering!ProviderRaises, Handing!Gathering!Record, Handing!Gathering!Degrade,
       Handing!Gathering!End, Handing!Gathering!Turn, Handing!Gathering!Next,
       Handing!Gathering!vars
  <2> QED
    BY <1>1, <2>1, <2>2, Handing!GatherNext
<1> QED
  BY <1>1, <1>2, <1>3, PTL DEF AnswersSpec

\* The turns of the run, those that find pages, keep the invariant of Gather.
LEMMA PagesHere ==
  ASSUME u1 # org
  PROVE  Paging!GatherBounds /\ (AnswersSpec => [](focus = "pages" => Paging!GatherInv))
<1>1. Paging!GatherBounds
  <2>1. Paging!IsFiniteSet({t1})
    BY FS_Singleton DEF IsFiniteSet, Paging!IsFiniteSet
  <2>2. [c \in {u1, org} |-> 0] \in [Paging!Gathering!Counters -> Nat]
    BY DEF Paging!Gathering!Counters
  <2> QED
    BY <2>1, <2>2 DEF Paging!GatherBounds
<1>2. AnswersInit => (focus = "pages" => Paging!GatherInv)
  <2>1. AnswersInit /\ focus = "pages" => Paging!Gathering!Init
    BY DEF AnswersInit, Turns, Pages!Counters, Pages!Fresh, Pages!Init,
       Paging!Gathering!Counters, Paging!Gathering!Fresh, Paging!Gathering!Init
  <2> QED
    BY <1>1, <2>1, Paging!GatherInit
<1>3. (focus = "pages" => Paging!GatherInv) /\ [AnswersNext]_answerVars
        => (focus = "pages" => Paging!GatherInv)'
  <2>1. (focus = "pages")' /\ [AnswersNext]_answerVars
          => focus = "pages" /\ [Pages!Next]_(Pages!vars)
    BY DEF AnswersNext, answerVars, gatherVars, Pages!vars
  <2>2. [Pages!Next]_(Pages!vars) => [Paging!Gathering!Next]_(Paging!Gathering!vars)
    BY DEF Turns, Pages!Providers, Pages!Keyed, Pages!Configure, Pages!Midnight, Pages!At,
       Pages!Become, Pages!Fresh, Pages!SearcherOf, Pages!Private, Pages!Ask,
       Pages!ResearcherOf, Pages!Begin, Pages!Step, Pages!FirstTool, Pages!DocumentTools,
       Pages!WebTools, Pages!Parsed, Pages!Offered, Pages!Plan, Pages!After,
       Pages!ReadDocuments, Pages!Allowed, Pages!Gate, Pages!Capped, Pages!Gates,
       Pages!BelowCap, Pages!Peek, Pages!Redact, Pages!CanCall, Pages!Provider, Pages!Answered,
       Pages!Joined, Pages!Search, Pages!Research, Pages!MayRaise, Pages!ProviderRaises,
       Pages!Record, Pages!Degrade, Pages!End, Pages!Turn, Pages!Next, Pages!vars,
       Paging!Gathering!Providers, Paging!Gathering!Keyed, Paging!Gathering!Configure,
       Paging!Gathering!Midnight, Paging!Gathering!At, Paging!Gathering!Become,
       Paging!Gathering!Fresh, Paging!Gathering!SearcherOf, Paging!Gathering!Private,
       Paging!Gathering!Ask, Paging!Gathering!ResearcherOf, Paging!Gathering!Begin,
       Paging!Gathering!Step, Paging!Gathering!FirstTool, Paging!Gathering!DocumentTools,
       Paging!Gathering!WebTools, Paging!Gathering!Parsed, Paging!Gathering!Offered,
       Paging!Gathering!Plan, Paging!Gathering!After, Paging!Gathering!ReadDocuments,
       Paging!Gathering!Allowed, Paging!Gathering!Gate, Paging!Gathering!Capped,
       Paging!Gathering!Gates, Paging!Gathering!BelowCap, Paging!Gathering!Peek,
       Paging!Gathering!Redact, Paging!Gathering!CanCall, Paging!Gathering!Provider,
       Paging!Gathering!Answered, Paging!Gathering!Joined, Paging!Gathering!Search,
       Paging!Gathering!Research, Paging!Gathering!MayRaise, Paging!Gathering!ProviderRaises,
       Paging!Gathering!Record, Paging!Gathering!Degrade, Paging!Gathering!End,
       Paging!Gathering!Turn, Paging!Gathering!Next, Paging!Gathering!vars
  <2> QED
    BY <1>1, <2>1, <2>2, Paging!GatherNext
<1> QED
  BY <1>1, <1>2, <1>3, PTL DEF AnswersSpec

\* The attachments of the run keep the invariant of Attachments.
LEMMA AttachmentsHere == AnswersSpec => []Handing!AttachmentInv
<1>1. AnswersInit => Handing!Attaching!Init
  BY DEF AnswersInit, Attaching!Absent, Attaching!Nobody, Attaching!NoSend, Attaching!Rest,
     Attaching!Init, Handing!Attaching!Absent, Handing!Attaching!Nobody,
     Handing!Attaching!NoSend, Handing!Attaching!Rest, Handing!Attaching!Init
<1>2. [AnswersNext]_answerVars => [Attaching!Next]_(Attaching!vars)
  BY DEF AnswersNext, answerVars, attachmentVars, Attaching!vars
<1>3. [Attaching!Next]_(Attaching!vars) => [Handing!Attaching!Next]_(Handing!Attaching!vars)
  BY DEF Attaching!Absent, Attaching!Exists, Attaching!New, Attaching!Upload, Attaching!Nobody,
     Attaching!Set, Attaching!Fetch, Attaching!NoSend, Attaching!Route, Attaching!Age,
     Attaching!SweepRow, Attaching!Extract, Attaching!WorkerDies, Attaching!Upsert,
     Attaching!SendDies, Attaching!SweepList, Attaching!Doomed, Attaching!Rest,
     Attaching!SweepPoints, Attaching!SweepDies, Attaching!DeleteChat, Attaching!Next,
     Attaching!vars, Handing!Attaching!Absent, Handing!Attaching!Exists, Handing!Attaching!New,
     Handing!Attaching!Upload, Handing!Attaching!Nobody, Handing!Attaching!Set,
     Handing!Attaching!Fetch, Handing!Attaching!NoSend, Handing!Attaching!Route,
     Handing!Attaching!Age, Handing!Attaching!SweepRow, Handing!Attaching!Extract,
     Handing!Attaching!WorkerDies, Handing!Attaching!Upsert, Handing!Attaching!SendDies,
     Handing!Attaching!SweepList, Handing!Attaching!Doomed, Handing!Attaching!Rest,
     Handing!Attaching!SweepPoints, Handing!Attaching!SweepDies, Handing!Attaching!DeleteChat,
     Handing!Attaching!Next, Handing!Attaching!vars
<1>4. Handing!AttachmentInv /\ [Handing!Attaching!Next]_(Handing!Attaching!vars) => Handing!AttachmentInv'
  BY Handing!AttachmentNext
<1> QED
  BY <1>1, <1>2, <1>3, <1>4, Handing!AttachmentInit, PTL DEF AnswersSpec

\* Gather and Attachments as the run checks them: daily caps survive the race of turns that
\* overlap, what was fetched is a source, and a turn trips over points without a row only
\* for one of the reasons recorded. run_agent_gather, peek_daily_cap, route_attachment.
THEOREM GatheringHoldsHere == ASSUME u1 # org PROVE AnswersSpec => []GatheringHolds
<1>1. (focus = "caps" => Handing!GatherInv) => (focus = "caps" => Caps!CapsHold /\ Caps!PagesAreKept)
  <2>1. Handing!GatherInv => Handing!Gathering!CapsHold /\ Handing!Gathering!PagesAreKept
    BY CapsHere, Handing!GatherHolds
  <2>2. Handing!Gathering!CapsHold /\ Handing!Gathering!PagesAreKept
          => Caps!CapsHold /\ Caps!PagesAreKept
    BY DEF Caps!Counters, Caps!CapsHold, Caps!PagesAreKept, Handing!Gathering!Counters,
       Handing!Gathering!CapsHold, Handing!Gathering!PagesAreKept, Caps!Cardinality,
       Handing!Gathering!Cardinality, Turns
  <2> QED
    BY <2>1, <2>2
<1>2. (focus = "pages" => Paging!GatherInv) => (focus = "pages" => Pages!CapsHold /\ Pages!PagesAreKept)
  <2>1. Paging!GatherInv => Paging!Gathering!CapsHold /\ Paging!Gathering!PagesAreKept
    BY PagesHere, Paging!GatherHolds
  <2>2. Paging!Gathering!CapsHold /\ Paging!Gathering!PagesAreKept
          => Pages!CapsHold /\ Pages!PagesAreKept
    BY DEF Pages!Counters, Pages!CapsHold, Pages!PagesAreKept, Paging!Gathering!Counters,
       Paging!Gathering!CapsHold, Paging!Gathering!PagesAreKept, Pages!Cardinality,
       Paging!Gathering!Cardinality
  <2> QED
    BY <2>1, <2>2
<1>3. Handing!AttachmentInv => Attaching!FailuresAreDangling
  <2>1. Handing!Attaching!FailuresAreDangling => Attaching!FailuresAreDangling
    BY DEF Attaching!Named, Attaching!Searched, Attaching!TurnFails,
       Attaching!FailuresAreDangling, Handing!Attaching!Named, Handing!Attaching!Searched,
       Handing!Attaching!TurnFails, Handing!Attaching!FailuresAreDangling
  <2> QED
    BY <2>1, Handing!AttachmentHolds
<1> QED
  BY <1>1, <1>2, <1>3, CapsHere, PagesHere, AttachmentsHere, PTL DEF GatheringHolds

\* The three instances of Reviews, and with them those of Retrieval; of ChatTurn nothing is
\* said here.
Marking == INSTANCE ChatTurnProofs
    WITH deaths <- fatal, events <- logged, task <- rated,
         Messages <- 1..3, ChatOf <- <<"mine", "mine", "theirs">>,
         OrgOf <- [mine |-> "o1", theirs |-> "o2"], Mine <- {"mine"}, Org <- "o1",
         Sound <- {}, Events <- {}, OrgOfEvent <- <<>>, Requests <- {"r1", "r2"}, Replies <- {},
         PageSize <- 1, MaxDeaths <- 0, MaxTime <- 2,
         Turns <- {}, SmallTalk <- {}, Trigger <- 1, Keep <- 1, MaxSteps <- 1,
         msgs <- <<>>, memory <- <<>>, exists <- TRUE, holder <- 0, turn <- <<>>, rescue <- <<>>,
         Points <- {p1}, ChunkOf <- (p1 :> c1), DocOf <- (c1 :> e1),
         Payloads <- [tenant : {{"own"}, {"other"}}, workspace : {{"this"}, {"elsewhere"}},
                      acl : SUBSET {g1, g2}, current : {{"yes"}, {"no"}, {}},
                      meta : {{}, {"new"}, {"old"}}],
         Callers <- [groups : SUBSET {g1, g2}, bypass : BOOLEAN],
         Clauses <- {{}, {"new"}, {"new", "old"}}, Ks <- {1}, Scores <- {1}, MinScore <- 1, Prefetch <- 1
Recording == INSTANCE ChatTurnProofs
    WITH deaths <- fatal, events <- logged, task <- rated,
         Messages <- {}, ChatOf <- <<>>, OrgOf <- <<>>, Mine <- {}, Org <- "o1",
         Sound <- {}, Events <- 1..4, OrgOfEvent <- <<"o1", "o1", "o1", "o2">>,
         Requests <- {}, Replies <- {}, PageSize <- 2, MaxDeaths <- 0, MaxTime <- 1,
         Turns <- {}, SmallTalk <- {}, Trigger <- 1, Keep <- 1, MaxSteps <- 1,
         msgs <- <<>>, memory <- <<>>, exists <- TRUE, holder <- 0, turn <- <<>>, rescue <- <<>>,
         Points <- {p1, p2, p3, p4},
         ChunkOf <- (p1 :> c1 @@ p2 :> c1 @@ p3 :> c2 @@ p4 :> c3),
         DocOf <- (c1 :> e1 @@ c2 :> e1 @@ c3 :> e2),
         Payloads <- {[tenant |-> {"own"}, workspace |-> {"this"}, acl |-> {},
                       current |-> {"yes"}, meta |-> {}]},
         Callers <- {[groups |-> {}, bypass |-> FALSE]}, Clauses <- {{}},
         Ks <- {1, 2}, Scores <- {1, 2, 3}, MinScore <- 2, Prefetch <- 4
Grading == INSTANCE ChatTurnProofs
    WITH deaths <- fatal, events <- logged, task <- rated,
         Messages <- 1..2, ChatOf <- <<"mine", "mine">>, OrgOf <- [mine |-> "o1"],
         Mine <- {"mine"}, Org <- "o1", Sound <- {1, 2}, Events <- {}, OrgOfEvent <- <<>>,
         Requests <- {}, PageSize <- 2, MaxDeaths <- 1, MaxTime <- 0,
         Replies <- {[grounding |-> 5, completeness |-> -1], [grounding |-> 1, completeness |-> 99]},
         Turns <- {}, SmallTalk <- {}, Trigger <- 1, Keep <- 1, MaxSteps <- 1,
         msgs <- <<>>, memory <- <<>>, exists <- TRUE, holder <- 0, turn <- <<>>, rescue <- <<>>,
         Points <- {}, ChunkOf <- <<>>, DocOf <- <<>>, Payloads <- {}, Callers <- {}, Clauses <- {},
         Ks <- {}, Scores <- {}, MinScore <- 0, Prefetch <- 0

\* There are no turns in them.
LEMMA NoTurns ==
    /\ Marking!ChatAssumption /\ Marking!TurnsNamed
    /\ Recording!ChatAssumption /\ Recording!TurnsNamed
    /\ Grading!ChatAssumption /\ Grading!TurnsNamed
BY DEF Marking!ChatAssumption, Marking!TurnsNamed, Recording!ChatAssumption,
   Recording!TurnsNamed, Grading!ChatAssumption, Grading!TurnsNamed

\* Each instance of Reviews is such as the proofs ask for.
LEMMA ReviewBoundsHere == Marking!ReviewBounds /\ Recording!ReviewBounds /\ Grading!ReviewBounds
<1>1. 1 \in Int /\ 2 \in Int /\ 3 \in Int /\ 4 \in Int
  OBVIOUS
<1>2. /\ IsFiniteSet(1..2) /\ IsFiniteSet(1..3) /\ IsFiniteSet(1..4)
      /\ IsFiniteSet({})
  BY <1>1, FS_Interval, FS_EmptySet, Zenon
<1>3. /\ Marking!IsFiniteSet(1..3) /\ Marking!IsFiniteSet({})
      /\ Recording!IsFiniteSet(1..4) /\ Recording!IsFiniteSet({})
      /\ Grading!IsFiniteSet(1..2) /\ Grading!IsFiniteSet({})
  BY <1>2, Zenon DEF IsFiniteSet, Marking!IsFiniteSet, Recording!IsFiniteSet, Grading!IsFiniteSet
<1> QED
  BY <1>3 DEF Marking!ReviewBounds, Recording!ReviewBounds, Grading!ReviewBounds

\* Members who rate answers and the reader of the queue keep the invariant of Reviews.
LEMMA QueueHere == AnswersSpec => [](focus = "queue" => Marking!ReviewInv)
<1>1. AnswersInit => (focus = "queue" => Marking!ReviewInv)
  <2>1. AnswersInit /\ focus = "queue" => Marking!Reviewing!Init
    <3>1. AnswersInit /\ focus = "queue" => Queue!Init
      BY DEF AnswersInit
    <3>2. Queue!Init => Marking!Reviewing!Init
      BY Zenon DEF Queue!None, Queue!Idle, Queue!Closed, Queue!Init, Marking!Reviewing!None,
         Marking!Reviewing!Idle, Marking!Reviewing!Closed, Marking!Reviewing!Init
    <3> QED
      BY <3>1, <3>2
  <2> QED
    BY <2>1, NoTurns, ReviewBoundsHere, Marking!ReviewStart
<1>2. (focus = "queue" => Marking!ReviewInv) /\ [AnswersNext]_answerVars
        => (focus = "queue" => Marking!ReviewInv)'
  <2>1. (focus = "queue")' /\ [AnswersNext]_answerVars
          => focus = "queue" /\ [Queue!Next]_(Queue!reviewVars)
    BY DEF AnswersNext, answerVars, reviewVars, Queue!reviewVars
  <2>2. [Queue!Next]_(Queue!reviewVars) => [Marking!Reviewing!Next]_(Marking!Reviewing!reviewVars)
    BY Zenon DEF Queue!reviewVars, Queue!None, Queue!Ratings, Queue!Full, Queue!Missing,
       Queue!Without, Queue!Idle, Queue!Closed, Queue!Before, Queue!FeedbackKeys,
       Queue!EventKeys, Queue!Keys, Queue!AfterCursor, Queue!NewerThan, Queue!Newest,
       Queue!Cardinality, Queue!Changed, Queue!Due, Queue!SetRead, Queue!SetFlush, Queue!SetInsert,
       Queue!SetUpdate, Queue!ClearRead, Queue!ClearCommit, Queue!DeleteChat, Queue!Clamp01,
       Queue!Readable, Queue!Parsed, Queue!AuditRead, Queue!AuditDone, Queue!Acknowledge,
       Queue!WorkerDies, Queue!RecordAudit, Queue!CommitAudit, Queue!Open, Queue!Turn,
       Queue!Tick, Queue!Next, Marking!Reviewing!reviewVars, Marking!Reviewing!None,
       Marking!Reviewing!Ratings, Marking!Reviewing!Full, Marking!Reviewing!Missing,
       Marking!Reviewing!Without, Marking!Reviewing!Idle, Marking!Reviewing!Closed,
       Marking!Reviewing!Before, Marking!Reviewing!FeedbackKeys,
       Marking!Reviewing!EventKeys, Marking!Reviewing!Keys, Marking!Reviewing!AfterCursor,
       Marking!Reviewing!NewerThan, Marking!Reviewing!Newest, Marking!Reviewing!Cardinality,
       Marking!Reviewing!Changed, Marking!Reviewing!Due, Marking!Reviewing!SetRead, Marking!Reviewing!SetFlush,
       Marking!Reviewing!SetInsert, Marking!Reviewing!SetUpdate,
       Marking!Reviewing!ClearRead, Marking!Reviewing!ClearCommit,
       Marking!Reviewing!DeleteChat, Marking!Reviewing!Clamp01, Marking!Reviewing!Readable,
       Marking!Reviewing!Parsed, Marking!Reviewing!AuditRead, Marking!Reviewing!AuditDone,
       Marking!Reviewing!Acknowledge, Marking!Reviewing!WorkerDies,
       Marking!Reviewing!RecordAudit, Marking!Reviewing!CommitAudit, Marking!Reviewing!Open,
       Marking!Reviewing!Turn, Marking!Reviewing!Tick, Marking!Reviewing!Next
  <2> QED
    BY <2>1, <2>2, NoTurns, ReviewBoundsHere, Marking!ReviewNext
<1> QED
  BY <1>1, <1>2, PTL DEF AnswersSpec

\* So do requests that write audit events and the reader of the log.
LEMMA LogHere == AnswersSpec => [](focus = "log" => Recording!ReviewInv)
<1>1. AnswersInit => (focus = "log" => Recording!ReviewInv)
  <2>1. AnswersInit /\ focus = "log" => Recording!Reviewing!Init
    <3>1. AnswersInit /\ focus = "log" => Log!Init
      BY DEF AnswersInit
    <3>2. Log!Init => Recording!Reviewing!Init
      BY Zenon DEF Log!None, Log!Idle, Log!Closed, Log!Init, Recording!Reviewing!None,
         Recording!Reviewing!Idle, Recording!Reviewing!Closed, Recording!Reviewing!Init
    <3> QED
      BY <3>1, <3>2
  <2> QED
    BY <2>1, NoTurns, ReviewBoundsHere, Recording!ReviewStart
<1>2. (focus = "log" => Recording!ReviewInv) /\ [AnswersNext]_answerVars
        => (focus = "log" => Recording!ReviewInv)'
  <2>1. (focus = "log")' /\ [AnswersNext]_answerVars
          => focus = "log" /\ [Log!Next]_(Log!reviewVars)
    BY DEF AnswersNext, answerVars, reviewVars, Log!reviewVars
  <2>2. [Log!Next]_(Log!reviewVars) => [Recording!Reviewing!Next]_(Recording!Reviewing!reviewVars)
    BY Zenon DEF Log!reviewVars, Log!None, Log!Ratings, Log!Full, Log!Missing, Log!Without, Log!Idle,
       Log!Closed, Log!Before, Log!FeedbackKeys, Log!EventKeys, Log!Keys, Log!AfterCursor,
       Log!NewerThan, Log!Newest, Log!Cardinality, Log!Changed, Log!Due, Log!SetRead, Log!SetFlush,
       Log!SetInsert, Log!SetUpdate, Log!ClearRead, Log!ClearCommit, Log!DeleteChat,
       Log!Clamp01, Log!Readable, Log!Parsed, Log!AuditRead, Log!AuditDone, Log!Acknowledge,
       Log!WorkerDies, Log!RecordAudit, Log!CommitAudit, Log!Open, Log!Turn, Log!Tick,
       Log!Next, Recording!Reviewing!reviewVars, Recording!Reviewing!None,
       Recording!Reviewing!Ratings, Recording!Reviewing!Full, Recording!Reviewing!Missing,
       Recording!Reviewing!Without, Recording!Reviewing!Idle, Recording!Reviewing!Closed,
       Recording!Reviewing!Before, Recording!Reviewing!FeedbackKeys,
       Recording!Reviewing!EventKeys, Recording!Reviewing!Keys,
       Recording!Reviewing!AfterCursor, Recording!Reviewing!NewerThan,
       Recording!Reviewing!Newest, Recording!Reviewing!Cardinality,
       Recording!Reviewing!Changed, Recording!Reviewing!Due, Recording!Reviewing!SetRead,
       Recording!Reviewing!SetFlush, Recording!Reviewing!SetInsert,
       Recording!Reviewing!SetUpdate, Recording!Reviewing!ClearRead,
       Recording!Reviewing!ClearCommit, Recording!Reviewing!DeleteChat,
       Recording!Reviewing!Clamp01, Recording!Reviewing!Readable,
       Recording!Reviewing!Parsed, Recording!Reviewing!AuditRead,
       Recording!Reviewing!AuditDone, Recording!Reviewing!Acknowledge,
       Recording!Reviewing!WorkerDies, Recording!Reviewing!RecordAudit,
       Recording!Reviewing!CommitAudit, Recording!Reviewing!Open, Recording!Reviewing!Turn,
       Recording!Reviewing!Tick, Recording!Reviewing!Next
  <2> QED
    BY <2>1, <2>2, NoTurns, ReviewBoundsHere, Recording!ReviewNext
<1> QED
  BY <1>1, <1>2, PTL DEF AnswersSpec

\* And the Auditor, who judges answers.
LEMMA JudgingHere == AnswersSpec => [](focus = "audits" => Grading!ReviewInv)
<1>1. AnswersInit => (focus = "audits" => Grading!ReviewInv)
  <2>1. AnswersInit /\ focus = "audits" => Grading!Reviewing!Init
    <3>1. AnswersInit /\ focus = "audits" => Judging!Init
      BY DEF AnswersInit
    <3>2. Judging!Init => Grading!Reviewing!Init
      BY Zenon DEF Judging!None, Judging!Idle, Judging!Closed, Judging!Init, Grading!Reviewing!None,
         Grading!Reviewing!Idle, Grading!Reviewing!Closed, Grading!Reviewing!Init
    <3> QED
      BY <3>1, <3>2
  <2> QED
    BY <2>1, NoTurns, ReviewBoundsHere, Grading!ReviewStart
<1>2. (focus = "audits" => Grading!ReviewInv) /\ [AnswersNext]_answerVars
        => (focus = "audits" => Grading!ReviewInv)'
  <2>1. (focus = "audits")' /\ [AnswersNext]_answerVars
          => focus = "audits" /\ [Judging!Next]_(Judging!reviewVars)
    BY DEF AnswersNext, answerVars, reviewVars, Judging!reviewVars
  <2>2. [Judging!Next]_(Judging!reviewVars) => [Grading!Reviewing!Next]_(Grading!Reviewing!reviewVars)
    BY Zenon DEF Judging!reviewVars, Judging!None, Judging!Ratings, Judging!Full, Judging!Missing,
       Judging!Without, Judging!Idle, Judging!Closed, Judging!Before, Judging!FeedbackKeys,
       Judging!EventKeys, Judging!Keys, Judging!AfterCursor, Judging!NewerThan,
       Judging!Newest, Judging!Cardinality, Judging!Changed, Judging!Due, Judging!SetRead,
       Judging!SetFlush, Judging!SetInsert, Judging!SetUpdate, Judging!ClearRead,
       Judging!ClearCommit, Judging!DeleteChat, Judging!Clamp01, Judging!Readable,
       Judging!Parsed, Judging!AuditRead, Judging!AuditDone, Judging!Acknowledge,
       Judging!WorkerDies, Judging!RecordAudit, Judging!CommitAudit, Judging!Open,
       Judging!Turn, Judging!Tick, Judging!Next, Grading!Reviewing!reviewVars,
       Grading!Reviewing!None, Grading!Reviewing!Ratings, Grading!Reviewing!Full,
       Grading!Reviewing!Missing, Grading!Reviewing!Without, Grading!Reviewing!Idle,
       Grading!Reviewing!Closed, Grading!Reviewing!Before, Grading!Reviewing!FeedbackKeys,
       Grading!Reviewing!EventKeys, Grading!Reviewing!Keys, Grading!Reviewing!AfterCursor,
       Grading!Reviewing!NewerThan, Grading!Reviewing!Newest, Grading!Reviewing!Cardinality,
       Grading!Reviewing!Changed, Grading!Reviewing!Due, Grading!Reviewing!SetRead, Grading!Reviewing!SetFlush,
       Grading!Reviewing!SetInsert, Grading!Reviewing!SetUpdate,
       Grading!Reviewing!ClearRead, Grading!Reviewing!ClearCommit,
       Grading!Reviewing!DeleteChat, Grading!Reviewing!Clamp01, Grading!Reviewing!Readable,
       Grading!Reviewing!Parsed, Grading!Reviewing!AuditRead, Grading!Reviewing!AuditDone,
       Grading!Reviewing!Acknowledge, Grading!Reviewing!WorkerDies,
       Grading!Reviewing!RecordAudit, Grading!Reviewing!CommitAudit, Grading!Reviewing!Open,
       Grading!Reviewing!Turn, Grading!Reviewing!Tick, Grading!Reviewing!Next
  <2> QED
    BY <2>1, <2>2, NoTurns, ReviewBoundsHere, Grading!ReviewNext
<1> QED
  BY <1>1, <1>2, PTL DEF AnswersSpec

\* Reviews as the run checks it: no page skips a row that stays or shows one twice, what is
\* counted is what is listed, and what has scores was paid for. list_feedback_queue,
\* list_audit_events, feedback_summary, answer_quality_summary.
THEOREM ReviewsHoldHere == AnswersSpec => []ReviewsHold
<1>1. (focus = "queue" => Marking!ReviewInv) => (focus = "queue" => Queue!ReviewsHold)
  <2>1. Marking!ReviewInv => Marking!Reviewing!ReviewsHold
    BY NoTurns, ReviewBoundsHere, Marking!ReviewsAre
  <2>2. Marking!Reviewing!ReviewsHold => Queue!ReviewsHold
    BY DEF Queue!None, Queue!Before, Queue!FeedbackKeys, Queue!Total, Queue!Down, Queue!Audited,
       Queue!Cardinality, Queue!PagesAreComplete, Queue!SummaryIsTheQueue,
       Queue!AuditedIsMetered, Queue!ReviewsHold, Marking!Reviewing!None,
       Marking!Reviewing!Before, Marking!Reviewing!FeedbackKeys, Marking!Reviewing!Total,
       Marking!Reviewing!Down, Marking!Reviewing!Audited, Marking!Reviewing!Cardinality,
       Marking!Reviewing!PagesAreComplete, Marking!Reviewing!SummaryIsTheQueue,
       Marking!Reviewing!AuditedIsMetered, Marking!Reviewing!ReviewsHold
  <2> QED
    BY <2>1, <2>2
<1>2. (focus = "log" => Recording!ReviewInv) => (focus = "log" => Log!ReviewsHold)
  <2>1. Recording!ReviewInv => Recording!Reviewing!ReviewsHold
    BY NoTurns, ReviewBoundsHere, Recording!ReviewsAre
  <2>2. Recording!Reviewing!ReviewsHold => Log!ReviewsHold
    BY DEF Log!None, Log!Before, Log!FeedbackKeys, Log!Total, Log!Down, Log!Audited,
       Log!Cardinality, Log!PagesAreComplete, Log!SummaryIsTheQueue, Log!AuditedIsMetered,
       Log!ReviewsHold, Recording!Reviewing!None, Recording!Reviewing!Before,
       Recording!Reviewing!FeedbackKeys, Recording!Reviewing!Total,
       Recording!Reviewing!Down, Recording!Reviewing!Audited,
       Recording!Reviewing!Cardinality, Recording!Reviewing!PagesAreComplete,
       Recording!Reviewing!SummaryIsTheQueue, Recording!Reviewing!AuditedIsMetered,
       Recording!Reviewing!ReviewsHold
  <2> QED
    BY <2>1, <2>2
<1>3. (focus = "audits" => Grading!ReviewInv) => (focus = "audits" => Judging!ReviewsHold)
  <2>1. Grading!ReviewInv => Grading!Reviewing!ReviewsHold
    BY NoTurns, ReviewBoundsHere, Grading!ReviewsAre
  <2>2. Grading!Reviewing!ReviewsHold => Judging!ReviewsHold
    BY DEF Judging!None, Judging!Before, Judging!FeedbackKeys, Judging!Total, Judging!Down,
       Judging!Audited, Judging!Cardinality, Judging!PagesAreComplete,
       Judging!SummaryIsTheQueue, Judging!AuditedIsMetered, Judging!ReviewsHold,
       Grading!Reviewing!None, Grading!Reviewing!Before, Grading!Reviewing!FeedbackKeys,
       Grading!Reviewing!Total, Grading!Reviewing!Down, Grading!Reviewing!Audited,
       Grading!Reviewing!Cardinality, Grading!Reviewing!PagesAreComplete,
       Grading!Reviewing!SummaryIsTheQueue, Grading!Reviewing!AuditedIsMetered,
       Grading!Reviewing!ReviewsHold
  <2> QED
    BY <2>1, <2>2
<1> QED
  BY <1>1, <1>2, <1>3, QueueHere, LogHere, JudgingHere, PTL DEF ReviewsHold

\* Each instance of Retrieval is such as the proofs ask for.
LEMMA RetrievalBoundsHere == Marking!RetrievalBounds /\ Recording!RetrievalBounds
<1>1. IsFiniteSet({p1}) /\ IsFiniteSet({p1, p2, p3, p4})
  <2>1. IsFiniteSet({p1}) /\ IsFiniteSet({p2}) /\ IsFiniteSet({p3}) /\ IsFiniteSet({p4})
    BY FS_Singleton
  <2>2. IsFiniteSet({p1} \union {p2}) /\ IsFiniteSet({p3} \union {p4})
    BY <2>1, FS_Union
  <2>3. IsFiniteSet(({p1} \union {p2}) \union ({p3} \union {p4}))
    BY <2>2, FS_Union
  <2>4. {p1, p2, p3, p4} = ({p1} \union {p2}) \union ({p3} \union {p4})
    OBVIOUS
  <2> QED
    BY <2>1, <2>3, <2>4
<1>2. Marking!IsFiniteSet({p1}) /\ Recording!IsFiniteSet({p1, p2, p3, p4})
  BY <1>1, Zenon DEF IsFiniteSet, Marking!IsFiniteSet, Recording!IsFiniteSet
<1>3. Marking!RetrievalBounds
  <2>1. ASSUME NEW x \in [tenant : {{"own"}, {"other"}}, workspace : {{"this"}, {"elsewhere"}},
                         acl : SUBSET {g1, g2}, current : {{"yes"}, {"no"}, {}},
                         meta : {{}, {"new"}, {"old"}}]
        PROVE  (\E v : x.tenant = {v}) /\ (\E v : x.workspace = {v})
    <3>1. x.tenant \in {{"own"}, {"other"}} /\ x.workspace \in {{"this"}, {"elsewhere"}}
      OBVIOUS
    <3>2. \E v : x.tenant = {v}
      BY <3>1, Zenon
    <3>3. \E v : x.workspace = {v}
      BY <3>1, Zenon
    <3> QED
      BY <3>2, <3>3
  <2>2. {1} \subseteq Nat \ {0} /\ {1} \subseteq Int /\ 1 \in Int
    OBVIOUS
  <2> QED
    BY <1>2, <2>1, <2>2, Zenon DEF Marking!RetrievalBounds
<1>4. Recording!RetrievalBounds
  BY <1>2 DEF Recording!RetrievalBounds
<1> QED
  BY <1>3, <1>4

\* A query whose filter meets every payload keeps the invariant of Retrieval.
LEMMA FilteringHere == AnswersSpec => [](focus = "filter" => Marking!RetrievalInv)
<1>1. AnswersInit => (focus = "filter" => Marking!RetrievalInv)
  <2>1. AnswersInit /\ focus = "filter" => Filtering!Init
    BY DEF AnswersInit
  <2>2. Filtering!Init => Marking!Serving!Init
    BY Zenon DEF Filtering!None, Filtering!Init, Filtering!Range, Marking!Serving!None,
       Marking!Serving!Init, Marking!Serving!Range
  <2> QED
    BY <2>1, <2>2, NoTurns, RetrievalBoundsHere, Marking!RetrievalStart
<1>2. (focus = "filter" => Marking!RetrievalInv) /\ [AnswersNext]_answerVars
        => (focus = "filter" => Marking!RetrievalInv)'
  <2>1. (focus = "filter")' /\ [AnswersNext]_answerVars
          => focus = "filter" /\ [Filtering!Next]_(Filtering!vars)
    BY DEF AnswersNext, answerVars, retrievalVars, Filtering!vars
  <2>2. [Filtering!Next]_(Filtering!vars) => [Marking!Serving!Next]_(Marking!Serving!vars)
    BY Zenon DEF Filtering!vars, Filtering!Chunks, Filtering!Is, Filtering!AnyOf, Filtering!NoneOf,
       Filtering!Empty, Filtering!Holds, Filtering!Matches, Filtering!AclOmitted,
       Filtering!Acl, Filtering!Meta, Filtering!TenantFilter, Filtering!Payload,
       Filtering!ReadPending, Filtering!Unproject, Filtering!Listings, Filtering!FetchK,
       Filtering!Fuse, Filtering!InOrder, Filtering!Collapsed, Filtering!Recheck,
       Filtering!Answers, Filtering!Aligned, Filtering!Above, Filtering!Ranked,
       Filtering!FirstK, Filtering!Rerank, Filtering!FusionOrder, Filtering!Next,
       Filtering!Range, Filtering!IsInjective, Filtering!Cardinality, Marking!Serving!vars,
       Marking!Serving!Chunks, Marking!Serving!Is, Marking!Serving!AnyOf,
       Marking!Serving!NoneOf, Marking!Serving!Empty, Marking!Serving!Holds,
       Marking!Serving!Matches, Marking!Serving!AclOmitted, Marking!Serving!Acl,
       Marking!Serving!Meta, Marking!Serving!TenantFilter, Marking!Serving!Payload,
       Marking!Serving!ReadPending, Marking!Serving!Unproject, Marking!Serving!Listings,
       Marking!Serving!FetchK, Marking!Serving!Fuse, Marking!Serving!InOrder,
       Marking!Serving!Collapsed, Marking!Serving!Recheck, Marking!Serving!Answers,
       Marking!Serving!Aligned, Marking!Serving!Above, Marking!Serving!Ranked,
       Marking!Serving!FirstK, Marking!Serving!Rerank, Marking!Serving!FusionOrder,
       Marking!Serving!Next, Marking!Serving!Range, Marking!Serving!IsInjective,
       Marking!Serving!Cardinality
  <2> QED
    BY <2>1, <2>2, NoTurns, RetrievalBoundsHere, Marking!RetrievalNext
<1> QED
  BY <1>1, <1>2, PTL DEF AnswersSpec

\* So does one that ranks what was found.
LEMMA RankingHere == AnswersSpec => [](focus = "rank" => Recording!RetrievalInv)
<1>1. AnswersInit => (focus = "rank" => Recording!RetrievalInv)
  <2>1. AnswersInit /\ focus = "rank" => Ranking!Init
    BY DEF AnswersInit
  <2>2. Ranking!Init => Recording!Serving!Init
    BY Zenon DEF Ranking!None, Ranking!Init, Ranking!Range, Recording!Serving!None,
       Recording!Serving!Init, Recording!Serving!Range
  <2> QED
    BY <2>1, <2>2, NoTurns, RetrievalBoundsHere, Recording!RetrievalStart
<1>2. (focus = "rank" => Recording!RetrievalInv) /\ [AnswersNext]_answerVars
        => (focus = "rank" => Recording!RetrievalInv)'
  <2>1. (focus = "rank")' /\ [AnswersNext]_answerVars
          => focus = "rank" /\ [Ranking!Next]_(Ranking!vars)
    BY DEF AnswersNext, answerVars, retrievalVars, Ranking!vars
  <2>2. [Ranking!Next]_(Ranking!vars) => [Recording!Serving!Next]_(Recording!Serving!vars)
    BY Zenon DEF Ranking!vars, Ranking!Chunks, Ranking!Is, Ranking!AnyOf, Ranking!NoneOf,
       Ranking!Empty, Ranking!Holds, Ranking!Matches, Ranking!AclOmitted, Ranking!Acl,
       Ranking!Meta, Ranking!TenantFilter, Ranking!Payload, Ranking!ReadPending,
       Ranking!Unproject, Ranking!Listings, Ranking!FetchK, Ranking!Fuse, Ranking!InOrder,
       Ranking!Collapsed, Ranking!Recheck, Ranking!Answers, Ranking!Aligned, Ranking!Above,
       Ranking!Ranked, Ranking!FirstK, Ranking!Rerank, Ranking!FusionOrder, Ranking!Next,
       Ranking!Range, Ranking!IsInjective, Ranking!Cardinality, Recording!Serving!vars,
       Recording!Serving!Chunks, Recording!Serving!Is, Recording!Serving!AnyOf,
       Recording!Serving!NoneOf, Recording!Serving!Empty, Recording!Serving!Holds,
       Recording!Serving!Matches, Recording!Serving!AclOmitted, Recording!Serving!Acl,
       Recording!Serving!Meta, Recording!Serving!TenantFilter, Recording!Serving!Payload,
       Recording!Serving!ReadPending, Recording!Serving!Unproject,
       Recording!Serving!Listings, Recording!Serving!FetchK, Recording!Serving!Fuse,
       Recording!Serving!InOrder, Recording!Serving!Collapsed, Recording!Serving!Recheck,
       Recording!Serving!Answers, Recording!Serving!Aligned, Recording!Serving!Above,
       Recording!Serving!Ranked, Recording!Serving!FirstK, Recording!Serving!Rerank,
       Recording!Serving!FusionOrder, Recording!Serving!Next, Recording!Serving!Range,
       Recording!Serving!IsInjective, Recording!Serving!Cardinality
  <2> QED
    BY <2>1, <2>2, NoTurns, RetrievalBoundsHere, Recording!RetrievalNext
<1> QED
  BY <1>1, <1>2, PTL DEF AnswersSpec

\* Retrieval as the run checks it: what a turn is given the caller may read, each chunk once,
\* and after a rerank the best in the order of the reranker. retrieve, _tenant_filter,
\* _dedupe_hq.
THEOREM SourcesHoldHere == AnswersSpec => []SourcesHold
<1>1. (focus = "filter" => Marking!RetrievalInv) => (focus = "filter" => Filtering!ServesTheBestReadable)
  <2>1. Marking!RetrievalInv => Marking!Serving!ServesTheBestReadable
    BY DEF Marking!RetrievalInv
  <2>2. Marking!Serving!ServesTheBestReadable => Filtering!ServesTheBestReadable
    BY Zenon DEF Filtering!MayRead, Filtering!Given, Filtering!Range, Filtering!IsInjective,
       Filtering!ServesTheBestReadable, Marking!Serving!MayRead, Marking!Serving!Given,
       Marking!Serving!Range, Marking!Serving!IsInjective,
       Marking!Serving!ServesTheBestReadable
  <2> QED
    BY <2>1, <2>2
<1>2. (focus = "rank" => Recording!RetrievalInv) => (focus = "rank" => Ranking!ServesTheBestReadable)
  <2>1. Recording!RetrievalInv => Recording!Serving!ServesTheBestReadable
    BY DEF Recording!RetrievalInv
  <2>2. Recording!Serving!ServesTheBestReadable => Ranking!ServesTheBestReadable
    BY Zenon DEF Ranking!MayRead, Ranking!Given, Ranking!Range, Ranking!IsInjective,
       Ranking!ServesTheBestReadable, Recording!Serving!MayRead, Recording!Serving!Given,
       Recording!Serving!Range, Recording!Serving!IsInjective,
       Recording!Serving!ServesTheBestReadable
  <2> QED
    BY <2>1, <2>2
<1> QED
  BY <1>1, <1>2, FilteringHere, RankingHere, PTL DEF SourcesHold
=============================================================================
