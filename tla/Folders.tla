------------------------------ MODULE Folders ------------------------------
(***************************************************************************)
(* The folder tree of a workspace and the documents filed in it: create,   *)
(* ensure_path for a tree dropped into the browser, rename and move, the   *)
(* cascading delete, and moving a document.                                *)
(*                                                                         *)
(* A request reads first and commits in a later step.  The database keeps  *)
(* names unique below a parent (and at the root), refuses a row whose      *)
(* parent is gone, deletes the folders below a deleted one, and files      *)
(* their documents at the root; an insert that clashes with another        *)
(* request's uncommitted row waits for it.                                 *)
(***************************************************************************)
EXTENDS Naturals, Sequences, FiniteSets

CONSTANTS
    Requests,
    Movers,     \* the requests that may rename and move folders
    Ids,        \* the folder ids the database may draw
    Names,
    Paths,      \* sequences of names given to ensure_path
    Docs

VARIABLES
    folder,   \* folders; by names the request that has not committed the row
    doc,      \* documents: the folder and whether deletion was requested
    queued,   \* documents with a documents.delete event in the outbox
    task,     \* the requests in progress
    stirred   \* a folder has been renamed, moved or deleted (history)

folderVars == <<folder, doc, queued, task, stirred>>

Root == "root"
Keep == "keep"
Row(p, n, q) == [parent |-> p, name |-> n, by |-> q]
Unborn == Row(Root, Keep, "nobody")
Gone == Row(Root, Keep, "deleted")   \* ids are not drawn twice
Committed == {f \in Ids : folder[f].by = Root}
Visible(q) == {f \in Ids : folder[f].by \in {Root, q}}
Idle == [pc |-> "idle", path |-> <<>>, n |-> 0, at |-> Root, name |-> Keep, docs |-> {}]

TypeOK ==
    /\ \A f \in Ids : \/ folder[f] \in {Unborn, Gone}
                      \/ /\ folder[f].parent \in Ids \union {Root} /\ folder[f].name \in Names
                         /\ folder[f].by \in Requests \union {Root}
    /\ doc \in [Docs -> [folder : Ids \union {Root}, status : {"none", "stored", "deleting", "gone"}]]
    /\ queued \subseteq Docs /\ stirred \in BOOLEAN
    /\ \A q \in Requests : task[q].pc \in {"idle", "segment", "insert", "reread", "commit", "done",
                                           "failed", "create", "move", "delete", "file"}

Init ==
    /\ folder = [f \in Ids |-> Unborn]
    /\ doc = [d \in Docs |-> [folder |-> Root, status |-> "none"]]
    /\ queued = {} /\ stirred = FALSE
    /\ task = [q \in Requests |-> Idle]

-----------------------------------------------------------------------------
Step(q, r) == task' = [task EXCEPT ![q] = r]
Done(q) == Step(q, Idle)

\* The folder n levels above f.
Above(f) ==
    LET up[n \in 0..Cardinality(Ids)] ==
            IF n = 0 THEN f ELSE IF up[n - 1] = Root THEN Root ELSE folder[up[n - 1]].parent
    IN  up

\* Mutant: the walk stops at the parent.
IsAncestorOrSelfNear(c, f) == c \in {Above(f)[0], Above(f)[1]}

\* _is_ancestor_or_self; a chain that does not end counts as unsafe.
IsAncestorOrSelf(c, f) ==
    \/ \E n \in DOMAIN Above(f) : Above(f)[n] = c
    \/ Above(f)[Cardinality(Ids)] # Root

\* _collect_subtree_folder_ids
Subtree(f) == {x \in Committed : \E n \in DOMAIN Above(x) : Above(x)[n] = f}

Named(S, p, n) == {f \in S : folder[f].parent = p /\ folder[f].name = n}

\* An uncommitted row of another request is in the way of this name.
MustWait(q, p, n) == Named(Ids \ Visible(q), p, n) # {}

\* Mutant: the constraint on (workspace, parent, name) alone, for which two
\* NULL parents differ.
RefusedBelowRoot(q, p, n) ==
    \/ p # Root /\ Named(Visible(q), p, n) # {}
    \/ ~(p \in Visible(q) \union {Root})

\* The unique constraints and the foreign key.
Refused(q, p, n) == Named(Visible(q), p, n) # {} \/ ~(p \in Visible(q) \union {Root})

Unused == {f \in Ids : folder[f] = Unborn}

\* The id a new row gets: they are all alike, so any of the unused ones will do.
Drawn == IF Unused = {} THEN {} ELSE {CHOOSE f \in Unused : TRUE}

\* create_folder: the parent was read; the insert and its commit.
Create(q) ==
    /\ task[q].pc = "idle"
    /\ \E p \in Committed \union {Root}, n \in Names :
          Step(q, [Idle EXCEPT !.pc = "create", !.at = p, !.name = n])
    /\ UNCHANGED <<folder, doc, queued, stirred>>

CreateCommit(q) ==
    LET r == task[q]
    IN  /\ r.pc = "create" /\ ~MustWait(q, r.at, r.name)
        /\ IF Refused(q, r.at, r.name) THEN UNCHANGED folder
           ELSE \E f \in Drawn : folder' = [folder EXCEPT ![f] = Row(r.at, r.name, Root)]
        /\ Done(q)
        /\ UNCHANGED <<doc, queued, stirred>>

\* ensure_path, segment by segment.
EnsurePath(q) ==
    /\ task[q].pc = "idle"
    /\ \E p \in Paths : Step(q, [Idle EXCEPT !.pc = "segment", !.path = p, !.n = 1])
    /\ UNCHANGED <<folder, doc, queued, stirred>>

Deeper(r, f) ==
    [r EXCEPT !.at = f, !.n = r.n + 1, !.pc = IF r.n = Len(r.path) THEN "commit" ELSE "segment"]

FindSegment(q) ==
    LET r == task[q]
        found == Named(Visible(q), r.at, r.path[r.n])
    IN  /\ r.pc = "segment"
        /\ IF found = {} THEN Step(q, [r EXCEPT !.pc = "insert"])
           ELSE \E f \in found : Step(q, Deeper(r, f))
        /\ UNCHANGED <<folder, doc, queued, stirred>>

\* The INSERT, or its IntegrityError and the rollback of the transaction.
InsertSegment(q) ==
    LET r == task[q]
        n == r.path[r.n]
    IN  /\ r.pc = "insert" /\ ~MustWait(q, r.at, n)
        /\ IF Refused(q, r.at, n)
           THEN /\ folder' = [f \in Ids |-> IF folder[f].by = q THEN Gone ELSE folder[f]]
                /\ Step(q, [r EXCEPT !.pc = "reread"])
           ELSE \E f \in Drawn : /\ folder' = [folder EXCEPT ![f] = Row(r.at, n, q)]
                                 /\ Step(q, Deeper(r, f))
        /\ UNCHANGED <<doc, queued, stirred>>

\* The winner's row is read again; scalar_one fails if it has gone.
RereadSegment(q) ==
    LET r == task[q]
        found == Named(Committed, r.at, r.path[r.n])
    IN  /\ r.pc = "reread"
        /\ IF found = {} THEN Step(q, [r EXCEPT !.pc = "failed"])
           ELSE \E f \in found : Step(q, Deeper(r, f))
        /\ UNCHANGED <<folder, doc, queued, stirred>>

EnsureCommit(q) ==
    /\ task[q].pc = "commit"
    /\ folder' = [f \in Ids |-> IF folder[f].by = q THEN [folder[f] EXCEPT !.by = Root]
                                ELSE folder[f]]
    /\ Step(q, [task[q] EXCEPT !.pc = "done"])
    /\ UNCHANGED <<doc, queued, stirred>>

\* rename_or_move_folder: Keep is a field the patch does not set.
Move(q) ==
    /\ task[q].pc = "idle" /\ q \in Movers
    /\ \E f \in Committed, p \in Committed \union {Root, Keep}, n \in Names \union {Keep} :
          /\ p \in Ids => p # f /\ ~IsAncestorOrSelf(f, p)
          /\ Step(q, [Idle EXCEPT !.pc = "move", !.path = <<f>>, !.at = p, !.name = n])
    /\ UNCHANGED <<folder, doc, queued, stirred>>

MoveCommit(q) ==
    LET r == task[q]
        f == r.path[1]
        p == IF r.at = Keep THEN folder[f].parent ELSE r.at
        n == IF r.name = Keep THEN folder[f].name ELSE r.name
    IN  /\ r.pc = "move" /\ ~MustWait(q, p, n)
        /\ IF \/ f \notin Committed \/ p \notin Committed \union {Root}
              \/ Named(Committed \ {f}, p, n) # {}
           THEN UNCHANGED <<folder, stirred>>
           ELSE folder' = [folder EXCEPT ![f] = Row(p, n, Root)] /\ stirred' = TRUE
        /\ Done(q)
        /\ UNCHANGED <<doc, queued>>

\* delete_folder: the subtree and its documents are collected ...
Delete(q) ==
    /\ task[q].pc = "idle"
    /\ \E f \in Committed :
          Step(q, [Idle EXCEPT !.pc = "delete", !.path = <<f>>,
                   !.docs = {d \in Docs : doc[d].status \in {"stored", "deleting"}
                                          /\ doc[d].folder \in Subtree(f)}])
    /\ UNCHANGED <<folder, doc, queued, stirred>>

\* Mutant: the route publishes, in a transaction of its own.
EventsLater(q) == {}

\* ... and one commit flips their status, publishes their deletion and
\* removes the folder, by cascade what is below it now; a document that has
\* been removed meanwhile fails the whole (StaleDataError).
Events(q) == task[q].docs

DeleteCommit(q) ==
    LET r == task[q]
        S == Subtree(r.path[1])
    IN  /\ r.pc = "delete"
        /\ \A f \in Ids : folder[f].by \in Requests => folder[f].parent \notin S
        /\ IF \E d \in r.docs : doc[d].status = "gone" THEN UNCHANGED <<folder, doc, queued, stirred>>
           ELSE /\ doc' = [d \in Docs |->
                             [folder |-> IF doc[d].folder \in S THEN Root ELSE doc[d].folder,
                              status |-> IF d \in r.docs THEN "deleting" ELSE doc[d].status]]
                /\ queued' = queued \union Events(q)
                /\ folder' = [f \in Ids |-> IF f \in S THEN Gone ELSE folder[f]]
                /\ stirred' = TRUE
        /\ Done(q)

\* move_document, and an upload into a folder.
File(q) ==
    /\ task[q].pc = "idle"
    /\ \E d \in Docs, f \in Committed \union {Root} :
          /\ doc[d].status # "gone"
          /\ Step(q, [Idle EXCEPT !.pc = "file", !.at = f, !.docs = {d}])
    /\ UNCHANGED <<folder, doc, queued, stirred>>

FileCommit(q) ==
    LET r == task[q]
    IN  /\ r.pc = "file"
        /\ \E d \in r.docs :
              IF r.at \notin Committed \union {Root} \/ doc[d].status = "gone" THEN UNCHANGED doc
              ELSE doc' = [doc EXCEPT ![d].folder = r.at,
                                      ![d].status = IF @ = "none" THEN "stored" ELSE @]
        /\ Done(q)
        /\ UNCHANGED <<folder, queued, stirred>>

\* The worker handles the event (Lineage!Delete): the row is removed.
Remove(d) ==
    /\ d \in queued /\ doc[d].status = "deleting"
    /\ doc' = [doc EXCEPT ![d] = [folder |-> Root, status |-> "gone"]]
    /\ queued' = queued \ {d}
    /\ UNCHANGED <<folder, task, stirred>>

\* A request dies: its transaction is rolled back.
Drop(q) ==
    /\ task[q].pc \notin {"idle", "done", "failed"}
    /\ folder' = [f \in Ids |-> IF folder[f].by = q THEN Gone ELSE folder[f]]
    /\ Done(q)
    /\ UNCHANGED <<doc, queued, stirred>>

Ensure(q) == \/ EnsurePath(q) \/ FindSegment(q) \/ InsertSegment(q)
             \/ RereadSegment(q) \/ EnsureCommit(q)

Next ==
    \/ \E q \in Requests : \/ Create(q) \/ CreateCommit(q) \/ Ensure(q)
                           \/ Move(q) \/ MoveCommit(q) \/ Delete(q) \/ DeleteCommit(q)
                           \/ File(q) \/ FileCommit(q) \/ Drop(q)
    \/ \E d \in Docs : Remove(d)

Spec == Init /\ [][Next]_folderVars

-----------------------------------------------------------------------------
\* Two clients that upload the same tree at once get one set of folders and
\* no error, unless somebody renames, moves or deletes folders meanwhile:
\* requests for the same path answer with the same folder.  ensure_path.
EnsureConverges ==
    stirred \/ \A p, q \in Requests :
        /\ task[p].pc # "failed"
        /\ task[p].pc = "done" /\ task[q].pc = "done" /\ task[p].path = task[q].path
              => task[p].at = task[q].at /\ task[p].at \in Committed

\* A document whose deletion was requested is never stranded: as long as it
\* is there, an event that deletes it is in the outbox, wherever the
\* request died.  delete_folder.
DeletionsAreQueued == \A d \in Docs : doc[d].status = "deleting" => d \in queued

\* Every folder hangs from the root.  One request moving folders at a time
\* keeps it so, whatever is created and deleted meanwhile; two do not.
\* rename_or_move_folder, _is_ancestor_or_self.
Forest == \A f \in Committed : Above(f)[Cardinality(Ids)] = Root
=============================================================================
