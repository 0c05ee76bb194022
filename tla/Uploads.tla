------------------------------ MODULE Uploads ------------------------------
(***************************************************************************)
(* The rows and the stored objects of uploaded documents: create_from_upload *)
(* with its caps, its duplicate check and its predecessor, the artifacts the *)
(* ingestion stages store beside the original, moving, and run_delete.     *)
(*                                                                         *)
(* An upload reads in several statements, inserts its row, stores the file *)
(* while the row is uncommitted, and commits.  The database waits for an   *)
(* uncommitted row with the same content, refuses a second one, and keeps  *)
(* a predecessor's row while a version of it is being inserted.  Files that *)
(* are uploaded to one place have one name.                                *)
(***************************************************************************)
EXTENDS Integers, Sequences, FiniteSetsExt

CONSTANTS
    Requests,
    Places,         \* <<folder, filename>>
    Contents, Size, \* what is uploaded, and its bytes
    MaxFile,        \* max_upload_mb
    MaxRows, MaxBytes,  \* org_max_documents, org_max_storage_bytes; 0 for none
    Artifacts,      \* what the stages store, in their order
    Ids, MaxDeaths

VARIABLES
    row,      \* documents; ids are drawn in order and never again
    object,   \* object storage: <<id, kind>>
    upload,   \* the requests in progress
    stage,    \* the ingestion of a document: the artifact it is at and its pc
    wipe,     \* run_delete of a document: the next key it deletes
    deaths,
    stirred, crowded, orphans   \* what the properties except (history)

uploadVars == <<row, object, upload, stage, wipe, deaths, stirred, crowded, orphans>>

Kinds == <<"original">> \o Artifacts
None == 0
Somewhere == CHOOSE p \in Places : TRUE
Something == CHOOSE c \in Contents : TRUE
Idle == [pc |-> "idle", content |-> Something, place |-> Somewhere, pred |-> None, id |-> None]
Unborn == [state |-> "unborn", content |-> Something, place |-> Somewhere, pred |-> None,
           version |-> 0, lineage |-> None]
Gone == [Unborn EXCEPT !.state = "gone"]
Committed == {d \in Ids : row[d].state = "committed"}
Inserted == {d \in Ids : row[d].state = "inserted"}

TypeOK ==
    /\ row \in [Ids -> [state : {"unborn", "inserted", "committed", "gone"}, content : Contents,
                        place : Places, pred : Ids \union {None}, version : 0..Cardinality(Ids),
                        lineage : Ids \union {None}]]
    /\ object \subseteq Ids \X {Kinds[i] : i \in DOMAIN Kinds}
    /\ upload \in [Requests -> [pc : {"idle", "duplicate", "predecessor", "insert", "store", "commit"},
                                content : Contents, place : Places,
                                pred : Ids \union {None}, id : Ids \union {None}]]
    /\ stage \in [Ids -> [at : 1..(Len(Artifacts) + 1), pc : {"due", "running", "over"}]]
    /\ wipe \in [Ids -> [pc : {"kept", "due", "running"}, at : 1..(Len(Kinds) + 1)]]
    /\ deaths \in 0..MaxDeaths /\ stirred \subseteq Places /\ crowded \in BOOLEAN
    /\ orphans \subseteq Ids \X {Kinds[i] : i \in DOMAIN Kinds}

Init ==
    /\ row = [d \in Ids |-> Unborn] /\ object = {}
    /\ upload = [r \in Requests |-> Idle]
    /\ stage = [d \in Ids |-> [at |-> 1, pc |-> "over"]]
    /\ wipe = [d \in Ids |-> [pc |-> "kept", at |-> 1]]
    /\ deaths = 0 /\ stirred = {} /\ crowded = FALSE /\ orphans = {}

-----------------------------------------------------------------------------
\* create_from_upload

Step(r, u) == upload' = [upload EXCEPT ![r] = u]
To(r, pc) == upload' = [upload EXCEPT ![r].pc = pc]
Active == {r \in Requests : upload[r].pc # "idle"}

\* measure_upload: a file past the limit is given up as soon as it is passed.
Measured(c) == Size[c] <= MaxFile

\* _enforce_org_upload_quota: rows on their way out count.
Bytes(D) == MapThenSumSet(LAMBDA d : Size[row[d].content], D)

WithinCaps(c) ==
    /\ MaxRows = 0 \/ Cardinality(Committed) < MaxRows
    /\ MaxBytes = 0 \/ Bytes(Committed) + Size[c] <= MaxBytes

Upload(r, c, p) ==
    /\ upload[r].pc = "idle" /\ Measured(c) /\ WithinCaps(c)
    /\ Step(r, [Idle EXCEPT !.pc = "duplicate", !.content = c, !.place = p])
    /\ crowded' = (crowded \/ Active # {})
    /\ UNCHANGED <<row, object, stage, wipe, deaths, stirred, orphans>>

FindDuplicate(r) ==
    /\ upload[r].pc = "duplicate"
    /\ IF \E d \in Committed : row[d].content = upload[r].content THEN Step(r, Idle)
       ELSE To(r, "predecessor")
    /\ UNCHANGED <<row, object, stage, wipe, deaths, stirred, crowded, orphans>>

\* The newest version at the same place, of which there may be several.
Newest(p) ==
    LET here == {d \in Committed : row[d].place = p}
    IN {d \in here : \A e \in here : row[e].version <= row[d].version}

FindPredecessor(r) ==
    LET p == upload[r].place
    IN /\ upload[r].pc = "predecessor"
       /\ \/ Newest(p) = {} /\ To(r, "insert")
          \/ \E d \in Newest(p) :
                upload' = [upload EXCEPT ![r].pc = "insert", ![r].pred = d]
       \* Another upload to the place has looked and not committed.
       /\ stirred' = IF \E q \in Requests : /\ upload[q].pc \in {"insert", "store", "commit"}
                                            /\ upload[q].place = p
                     THEN stirred \union {p} ELSE stirred
       /\ UNCHANGED <<row, object, stage, wipe, deaths, crowded, orphans>>

\* Mutant: numbered after all documents there are.
VersionAfterAll(u) ==
    IF u.pred = None THEN 1 ELSE row[u.pred].version + Cardinality(Committed)

VersionOf(u) == IF u.pred = None THEN 1 ELSE row[u.pred].version + 1

\* The flush.  It fails when the content has been uploaded or the predecessor is
\* gone since.
Insert(r) ==
    LET u == upload[r]
        d == Min({e \in Ids : row[e].state = "unborn"})
    IN /\ u.pc = "insert" /\ \A e \in Inserted : row[e].content # u.content
       /\ IF \/ \E e \in Committed : row[e].content = u.content
             \/ u.pred # None /\ u.pred \notin Committed
          THEN Step(r, Idle) /\ UNCHANGED row
          ELSE /\ \E e \in Ids : row[e].state = "unborn"
               /\ row' = [row EXCEPT ![d] =
                             [state |-> "inserted", content |-> u.content, place |-> u.place,
                              pred |-> u.pred,
                              version |-> VersionOf(u),
                              lineage |-> IF u.pred = None THEN d ELSE row[u.pred].lineage]]
               /\ upload' = [upload EXCEPT ![r].pc = "store", ![r].id = d]
       /\ UNCHANGED <<object, stage, wipe, deaths, stirred, crowded, orphans>>

RolledBack(d) == row' = [row EXCEPT ![d] = Gone]

\* put_stream: a failed upload is aborted, and the failure may still come after
\* the object is there.
Store(r) ==
    LET d == upload[r].id
        new == <<d, "original">>
    IN /\ upload[r].pc = "store"
       /\ \/ To(r, "commit") /\ object' = object \union {new} /\ UNCHANGED <<row, orphans>>
          \/ Step(r, Idle) /\ RolledBack(d) /\ UNCHANGED <<object, orphans>>
          \/ /\ Step(r, Idle) /\ RolledBack(d)
             /\ object' = object \union {new} /\ orphans' = orphans \union {new}
       /\ UNCHANGED <<stage, wipe, deaths, stirred, crowded>>

\* The row, its audit event and its ingest event.
CommitUpload(r) ==
    LET d == upload[r].id
    IN /\ upload[r].pc = "commit" /\ Step(r, Idle)
       /\ row' = [row EXCEPT ![d].state = "committed"]
       /\ stage' = [stage EXCEPT ![d].pc = "due"]
       /\ UNCHANGED <<object, wipe, deaths, stirred, crowded, orphans>>

\* The process dies, or the commit fails.
DieUploading(r) ==
    LET d == upload[r].id
    IN /\ upload[r].pc \in {"store", "commit"} /\ deaths < MaxDeaths /\ deaths' = deaths + 1
       /\ Step(r, Idle) /\ RolledBack(d)
       /\ orphans' = orphans \union (object \intersect {<<d, "original">>})
       /\ UNCHANGED <<object, stage, wipe, stirred, crowded>>

-----------------------------------------------------------------------------
\* run_parse and run_chunk: each reads the object before its own.

StartStage(d) ==
    LET s == stage[d]
    IN /\ s.pc = "due"
       /\ stage' = [stage EXCEPT ![d].pc =
                       IF /\ s.at <= Len(Artifacts) /\ d \in Committed
                          /\ <<d, Kinds[s.at]>> \in object
                       THEN "running" ELSE "over"]
       /\ UNCHANGED <<row, object, upload, wipe, deaths, stirred, crowded, orphans>>

\* It does not look whether the document is being deleted.
PutArtifact(d) ==
    LET s == stage[d]
        new == <<d, Kinds[s.at + 1]>>
    IN /\ s.pc = "running"
       /\ object' = object \union {new}
       /\ stage' = [stage EXCEPT ![d] = IF d \in Committed THEN [at |-> s.at + 1, pc |-> "due"]
                                        ELSE [s EXCEPT !.pc = "over"]]
       /\ orphans' = IF d \notin Committed \/ (wipe[d].pc = "running" /\ wipe[d].at > s.at + 1)
                     THEN orphans \union {new} ELSE orphans
       /\ UNCHANGED <<row, upload, wipe, deaths, stirred, crowded>>

\* documents.reindex starts at the artifacts; a new ingest event at the original.
Reingest(d) ==
    /\ d \in Committed /\ stage[d].pc = "over"
    /\ stage' = [stage EXCEPT ![d] = [at |-> 1, pc |-> "due"]]
    /\ UNCHANGED <<row, object, upload, wipe, deaths, stirred, crowded, orphans>>

-----------------------------------------------------------------------------
\* Moving: the row keeps its version and its lineage.
Move(d, p) ==
    /\ d \in Committed /\ row[d].place # p
    /\ row' = [row EXCEPT ![d].place = p] /\ stirred' = stirred \union {p}
    /\ UNCHANGED <<object, upload, stage, wipe, deaths, crowded, orphans>>

\* The flip to deleting, with its event.
Delete(d) ==
    /\ d \in Committed /\ wipe[d].pc = "kept"
    /\ wipe' = [wipe EXCEPT ![d].pc = "due"]
    /\ UNCHANGED <<row, object, upload, stage, deaths, stirred, crowded, orphans>>

StartDelete(d) ==
    /\ wipe[d].pc = "due" /\ wipe' = [wipe EXCEPT ![d] = [pc |-> "running", at |-> 1]]
    /\ UNCHANGED <<row, object, upload, stage, deaths, stirred, crowded, orphans>>

\* Mutant: the last artifact is forgotten.
WipedButLast == SubSeq(Kinds, 1, Len(Kinds) - 1)

\* The keys run_delete deletes.
Wiped == Kinds

DeleteObject(d) ==
    LET gone == <<d, Wiped[wipe[d].at]>>
    IN /\ wipe[d].pc = "running" /\ wipe[d].at <= Len(Wiped)
       /\ object' = object \ {gone} /\ orphans' = orphans \ {gone}
       /\ wipe' = [wipe EXCEPT ![d].at = @ + 1]
       /\ UNCHANGED <<row, upload, stage, deaths, stirred, crowded>>

\* It waits for a version that is being inserted, and the versions that came after
\* it lose their predecessor.
RemoveRow(d) ==
    /\ wipe[d].pc = "running" /\ wipe[d].at > Len(Wiped)
    /\ \A e \in Inserted : row[e].pred # d
    /\ row' = [e \in Ids |-> IF e = d THEN Gone
                             ELSE IF row[e].pred = d THEN [row[e] EXCEPT !.pred = None]
                             ELSE row[e]]
    /\ wipe' = [wipe EXCEPT ![d] = [pc |-> "kept", at |-> 1]]
    /\ UNCHANGED <<object, upload, stage, deaths, stirred, crowded, orphans>>

DieDeleting(d) ==
    /\ wipe[d].pc = "running" /\ deaths < MaxDeaths /\ deaths' = deaths + 1
    /\ wipe' = [wipe EXCEPT ![d] = [pc |-> "due", at |-> 1]]
    /\ UNCHANGED <<row, object, upload, stage, stirred, crowded, orphans>>

Next ==
    \/ \E r \in Requests :
          \/ \E c \in Contents, p \in Places : Upload(r, c, p)
          \/ FindDuplicate(r) \/ FindPredecessor(r) \/ Insert(r) \/ Store(r) \/ CommitUpload(r)
          \/ DieUploading(r)
    \/ \E d \in Ids :
          \/ StartStage(d) \/ PutArtifact(d) \/ Reingest(d)
          \/ \E p \in Places : Move(d, p)
          \/ Delete(d) \/ StartDelete(d) \/ DeleteObject(d) \/ RemoveRow(d) \/ DieDeleting(d)

Spec == Init /\ [][Next]_uploadVars

-----------------------------------------------------------------------------
\* get_document_file: what a reader of the document gets.
File(d) ==
    IF d \notin Committed THEN "no document"
    ELSE IF <<d, "original">> \in object THEN "the file" ELSE "not in storage"

\* get_document_file: the original of a document is there until it is deleted.
OriginalsAreThere == \A d \in Committed : wipe[d].pc = "kept" => File(d) = "the file"

\* run_delete, create_from_upload: an object outlives its row only when the
\* upload that stored it did not commit, or a stage stored it behind the deletion.
ObjectsHaveRows ==
    \A o \in object : row[o[1]].state \in {"inserted", "committed"} \/ o \in orphans

\* create_from_upload: of the files at one place the later one is the next
\* version of the earlier one, unless a file was moved there or two uploads to it
\* overlapped.
NewestSucceeds ==
    \A d, e \in Committed :
        /\ d < e /\ row[d].place = row[e].place /\ row[d].place \notin stirred
        => row[d].lineage = row[e].lineage /\ row[d].version < row[e].version

\* _enforce_org_upload_quota: the caps hold, but for uploads that overlap.
CapsHold ==
    /\ MaxRows # 0 /\ ~crowded => Cardinality(Committed) <= MaxRows
    /\ MaxBytes # 0 /\ ~crowded => Bytes(Committed) <= MaxBytes
    /\ MaxRows # 0 => Cardinality(Committed) < MaxRows + Cardinality(Requests)

\* uq_documents_workspace_hash: no content is stored twice.
StoredOnce == \A d, e \in Committed \union Inserted : row[d].content = row[e].content => d = e

UploadsHold ==
    OriginalsAreThere /\ ObjectsHaveRows /\ NewestSucceeds /\ CapsHold /\ StoredOnce
=============================================================================
