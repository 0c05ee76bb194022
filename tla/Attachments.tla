---------------------------- MODULE Attachments -----------------------------
(***************************************************************************)
(* Chat attachments of one chat: a row and a blob from the upload on, the  *)
(* text a worker extracts, points in a store of their own from the first   *)
(* send that finds the text too long to inline, and the daily sweep that   *)
(* takes all three away after a day.                                       *)
(*                                                                         *)
(* Extraction is queued after the upload's commit and not through the      *)
(* outbox; Celery acknowledges late, so a worker that dies starts over.    *)
(* The sweep deletes row by row and the points at the end.                 *)
(***************************************************************************)
EXTENDS Naturals, Sequences, SequencesExt, FiniteSets

CONSTANTS Files, MaxDeaths    \* MaxDeaths: bound, processes killed

VARIABLES
    row,       \* ChatAttachment, or absent
    old,       \* past the cutoff of the sweep
    blob, points,
    queue,     \* attachments.process messages
    worker,    \* the attachment a worker extracts, if any
    send,      \* a request that routes an attachment
    sweep,     \* listed: what it deletes; cleared: rows it has deleted
    deaths,
    dangling   \* history: what a death, a late send or a new route left points of

vars == <<row, old, blob, points, queue, worker, send, sweep, deaths, dangling>>

Nobody == "nobody"
Absent == [status |-> "absent", text |-> "none", routed |-> "none"]
Exists(a) == row[a] # Absent
Rest == [pc |-> "rest", listed |-> {}, cleared |-> {}]
NoSend == [pc |-> "none", file |-> Nobody]

TypeOK ==
    /\ row \in [Files -> [status : {"absent", "queued", "processing", "ready", "failed"},
                          text : {"none", "blank", "some"},
                          routed : {"none", "inline", "retrieval"}]]
    /\ old \subseteq Files /\ blob \subseteq Files /\ points \subseteq Files
    /\ queue \subseteq Files /\ worker \in Files \union {Nobody}
    /\ send.pc \in {"none", "embed", "turn"} /\ sweep.pc \in {"rest", "rows", "points"}
    /\ deaths \in 0..MaxDeaths /\ dangling \subseteq Files

Init ==
    /\ row = [a \in Files |-> Absent]
    /\ old = {} /\ blob = {} /\ points = {} /\ queue = {} /\ dangling = {}
    /\ worker = Nobody /\ send = NoSend /\ sweep = Rest /\ deaths = 0

New(a) == ~Exists(a) /\ a \notin blob \union old \union dangling

\* create_attachment puts the blob and commits the row; the route queues the
\* extraction, or dies before it, or before the commit.
Upload(a) ==
    /\ New(a)
    /\ blob' = blob \union {a}
    /\ \E died \in {"no", "before", "after"} :
        /\ died # "no" => deaths < MaxDeaths
        /\ deaths' = IF died = "no" THEN deaths ELSE deaths + 1
        /\ row' = IF died = "before" THEN row ELSE [row EXCEPT ![a] = [Absent EXCEPT !.status = "queued"]]
        /\ queue' = IF died = "no" THEN queue \union {a} ELSE queue
    /\ UNCHANGED <<old, points, worker, send, sweep, dangling>>

-----------------------------------------------------------------------------
(* process_attachment_task. *)

\* UPDATE of one row, which may be gone.
Set(a, r) == row' = IF Exists(a) THEN [row EXCEPT ![a] = r] ELSE row

Fetch(a) ==
    /\ worker = Nobody /\ a \in queue
    /\ worker' = IF Exists(a) THEN a ELSE Nobody
    /\ queue' = IF Exists(a) THEN queue ELSE queue \ {a}
    /\ Set(a, [row[a] EXCEPT !.status = "processing"])
    /\ UNCHANGED <<old, blob, points, send, sweep, deaths, dangling>>

\* extract_text comes back empty-handed rather than raise; storage may raise, and
\* does for a blob that was swept.
Extract ==
    /\ worker # Nobody
    /\ \/ /\ worker \in blob
          /\ \E text \in {"blank", "some"} :
                Set(worker, [row[worker] EXCEPT !.status = "ready", !.text = text])
       \/ Set(worker, [row[worker] EXCEPT !.status = "failed"])
    /\ worker' = Nobody /\ queue' = queue \ {worker}
    /\ UNCHANGED <<old, blob, points, send, sweep, deaths, dangling>>

\* The message is not acknowledged and comes back.
WorkerDies ==
    /\ worker # Nobody /\ deaths < MaxDeaths
    /\ worker' = Nobody /\ deaths' = deaths + 1
    /\ UNCHANGED <<row, old, blob, points, queue, send, sweep, dangling>>

-----------------------------------------------------------------------------
(* route_attachment, and the search of a turn. *)

\* Whatever the status: without text the attachment is passed over.  Whether the
\* text fits depends on the tokens the turn's model counts.
Route(a) ==
    /\ send.pc = "none" /\ row[a].text = "some"
    /\ \E to \in {"inline", "retrieval"} :
        /\ Set(a, [row[a] EXCEPT !.routed = to])
        /\ send' = IF to = "retrieval" THEN [pc |-> "embed", file |-> a] ELSE NoSend
        /\ dangling' = IF to = "inline" /\ a \in points THEN dangling \union {a} ELSE dangling
    /\ UNCHANGED <<old, blob, points, queue, worker, sweep, deaths>>

\* Embedding takes a while; the row is not looked at again.
Upsert ==
    /\ send.pc = "embed"
    /\ points' = points \union {send.file}
    /\ dangling' = IF Exists(send.file) THEN dangling ELSE dangling \union {send.file}
    /\ send' = NoSend
    /\ UNCHANGED <<row, old, blob, queue, worker, sweep, deaths>>

SendDies ==
    /\ send.pc = "embed"
    /\ send' = NoSend
    /\ UNCHANGED <<row, old, blob, points, queue, worker, sweep, deaths, dangling>>

Named == {a \in Files : row[a].routed = "retrieval"}

\* search_ephemeral_attachments filters by chat alone; a hit whose attachment is not
\* among the rows just read is taken for a document, and the turn fails.
Searched(hits) == Named # {} /\ hits \subseteq points
TurnFails == \E hits \in SUBSET Files : Searched(hits) /\ ~(hits \subseteq Named)

-----------------------------------------------------------------------------
(* cleanup_stale_attachments_task. *)

Age(a) ==
    /\ Exists(a)
    /\ old' = old \union {a}
    /\ UNCHANGED <<row, blob, points, queue, worker, send, sweep, deaths, dangling>>

SweepList ==
    /\ sweep.pc = "rest"
    /\ sweep' = [pc |-> "rows", listed |-> {a \in old : Exists(a)}, cleared |-> {}]
    /\ UNCHANGED <<row, old, blob, points, queue, worker, send, deaths, dangling>>

\* The blob may fail to go; the row goes all the same.
SweepRow(a) ==
    /\ sweep.pc = "rows" /\ a \in sweep.listed \ sweep.cleared
    /\ blob' \in {blob, blob \ {a}}
    /\ row' = [row EXCEPT ![a] = Absent]
    /\ sweep' = [sweep EXCEPT !.cleared = @ \union {a}]
    /\ UNCHANGED <<old, points, queue, worker, send, deaths, dangling>>

\* Mutant: the groups are built from the rows that are left.
DoomedLate == {a \in sweep.listed : Exists(a)}

\* delete_ephemeral_points
Doomed == sweep.listed

SweepPoints ==
    /\ sweep.pc = "rows" /\ sweep.cleared = sweep.listed
    /\ points' = points \ Doomed /\ dangling' = dangling \ Doomed
    /\ sweep' = Rest
    /\ UNCHANGED <<row, old, blob, queue, worker, send, deaths>>

SweepDies ==
    /\ sweep.pc = "rows" /\ deaths < MaxDeaths
    /\ deaths' = deaths + 1 /\ sweep' = Rest
    /\ dangling' = dangling \union (sweep.cleared \intersect points)
    /\ UNCHANGED <<row, old, blob, points, queue, worker, send>>

\* Rows cascade with the chat, and nothing else.
DeleteChat ==
    /\ \E a \in Files : Exists(a)
    /\ row' = [a \in Files |-> Absent]
    /\ old' = Files /\ dangling' = points
    /\ UNCHANGED <<blob, points, queue, worker, send, sweep, deaths>>

Next ==
    \/ \E a \in Files : Upload(a) \/ Fetch(a) \/ Route(a) \/ Age(a) \/ SweepRow(a)
    \/ Extract \/ WorkerDies \/ Upsert \/ SendDies
    \/ SweepList \/ SweepPoints \/ SweepDies \/ DeleteChat

Spec == Init /\ [][Next]_vars

-----------------------------------------------------------------------------
(* Properties. *)

\* A turn trips over points no row names only while a sweep is between its rows
\* and its points, or over what a death, a send that embedded past the sweep, or a
\* model that counts fewer tokens left behind.
FailuresAreDangling ==
    TurnFails => \/ sweep.cleared \intersect points # {}
                 \/ dangling # {}
=============================================================================
