------------------------------ MODULE Metadata ------------------------------
(***************************************************************************)
(* The metadata of documents: a workspace's fields, the values on a        *)
(* document's row, the copy of them in the payload of each of its points,  *)
(* and the clauses a search is filtered by.  A PUT commits the row and     *)
(* then rewrites the payloads; ingestion, the enrichment backfill and a    *)
(* re-embedding write whole payloads from the row they loaded when they    *)
(* began.  Only ingestion reads the row again at its end and stamps its    *)
(* points once more.                                                       *)
(*                                                                         *)
(* Values are numbers: those in Valid are options of a select field or     *)
(* days of a date field, and Unset stands for no value.                    *)
(***************************************************************************)
EXTENDS Integers, FiniteSets

CONSTANTS
    Types,         \* fields there may be: "text", "select" or "date" by name
    Presets,       \* PRESET_FIELDS
    Inputs,        \* bodies of PUT: a value by name
    Searches,      \* filters of a search, see Clause
    Requests, Batches, MaxDeaths

VARIABLES
    fields,    \* metadata_fields of the workspace
    meta,      \* Document.meta
    active,    \* the collection of the workspace's embedding model
    points,    \* payloads: by collection and batch of chunks
    put,       \* requests: [pc, values, writes]
    seed,      \* list_fields that found no field
    work,      \* tasks that write whole payloads: [pc, next, loaded, into]
    deaths,
    loose      \* the row changed where no writer looks again (history)

metadataVars == <<fields, meta, active, points, put, seed, work, deaths, loose>>

Names == DOMAIN Types
Unset == 0
Valid == 1..2
Metas == [Names -> {Unset} \union Valid]
Bare == [n \in Names |-> Unset]
Served == [pc |-> "idle", values |-> Bare, writes |-> FALSE]
Absent == [n \in Names |-> -1]    \* no points of the batch
Tasks == {"ingest", "backfill", "reembed"}
Collections == {"old", "new"}

TypeOK ==
    /\ fields \subseteq Names /\ meta \in Metas /\ active \in Collections
    /\ points \in [Collections -> [Batches -> Metas \union {Absent}]]
    /\ \A r \in Requests : put[r].pc \in {"idle", "checked", "committed"}
    /\ seed \in [Requests -> {"idle", "empty", "done"}]
    /\ \A t \in Tasks :
          /\ work[t].pc \in {"idle", "writing", "reread", "done"}
          /\ work[t].next \in 1..(Cardinality(Batches) + 1)
          /\ work[t].loaded \in Metas /\ work[t].into \in Collections
    /\ deaths \in 0..MaxDeaths /\ loose \in BOOLEAN

Init ==
    /\ fields = {} /\ meta = Bare /\ active = "old"
    /\ points = [c \in Collections |-> [b \in Batches |-> Absent]]
    /\ put = [r \in Requests |-> Served]
    /\ seed = [r \in Requests |-> "idle"]
    /\ work = [t \in Tasks |-> [pc |-> "idle", next |-> 1, loaded |-> Bare, into |-> "old"]]
    /\ deaths = 0 /\ loose = FALSE

-----------------------------------------------------------------------------
\* The fields.  A workspace without one gets the presets when they are listed;
\* of two such calls the second one fails on the name.

SeedRead(r) ==
    /\ seed[r] = "idle" /\ fields = {}
    /\ seed' = [seed EXCEPT ![r] = "empty"]
    /\ UNCHANGED <<fields, meta, active, points, put, work, deaths, loose>>

SeedCommit(r) ==
    /\ seed[r] = "empty" /\ seed' = [seed EXCEPT ![r] = "done"]
    /\ fields' = IF fields \intersect Presets = {} THEN fields \union Presets ELSE fields
    /\ UNCHANGED <<meta, active, points, put, work, deaths, loose>>

CreateField(n) ==
    /\ n \notin fields /\ fields' = fields \union {n}
    /\ UNCHANGED <<meta, active, points, put, seed, work, deaths, loose>>

\* The values stay on the rows and in the payloads.
DeleteField(n) ==
    /\ n \in fields /\ fields' = fields \ {n}
    /\ UNCHANGED <<meta, active, points, put, seed, work, deaths, loose>>

-----------------------------------------------------------------------------
\* set_document_metadata.

ValidValue(n, v) == Types[n] = "text" \/ v \in Valid
Accepted(values) ==
    \A n \in Names : values[n] # Unset => n \in fields /\ ValidValue(n, values[n])

\* Tasks that will still write what they have loaded.
Stale ==
    {t \in Tasks : work[t].pc = "reread" \/ (t # "ingest" /\ work[t].pc = "writing")}
Mirroring(r) == \E q \in Requests \ {r} : put[q].pc = "committed"

\* The session holds the row as it was read: values equal to those are no change
\* to it, and its commit will send no UPDATE.  No values may be a NULL, which
\* differs from any body, or an empty object.
PutRead(r, values) ==
    /\ put[r].pc = "idle" /\ Accepted(values)
    /\ \E writes \in {values # meta, values = Bare} :
        /\ values # meta => writes
        /\ put' = [put EXCEPT ![r] = [pc |-> "checked", values |-> values, writes |-> writes]]
    /\ UNCHANGED <<fields, meta, active, points, seed, work, deaths, loose>>

\* What is mirrored next is the row if the commit wrote it, and the row as it was
\* read if not.
PutCommit(r) ==
    /\ put[r].pc = "checked" /\ put' = [put EXCEPT ![r].pc = "committed"]
    /\ \/ /\ put[r].writes /\ meta' = put[r].values
          /\ loose' = (loose \/ Stale # {} \/ Mirroring(r))
       \/ /\ ~put[r].writes /\ meta' = meta
          /\ loose' = (loose \/ meta # put[r].values)
    /\ UNCHANGED <<fields, active, points, seed, work, deaths>>

\* The payload's meta is replaced on every point there is.
Stamped(c, values) ==
    [points EXCEPT ![c] = [b \in Batches |-> IF @[b] = Absent THEN Absent ELSE values]]

\* What a PUT that overlaps no other writer leaves agrees with the row.
Settles(r) == Stale = {} /\ ~Mirroring(r) /\ meta = put[r].values

\* The collection is resolved after the commit.
PutMirror(r) ==
    /\ put[r].pc = "committed" /\ put' = [put EXCEPT ![r] = Served]
    /\ points' = Stamped(active, put[r].values)
    /\ loose' = (loose /\ ~Settles(r))
    /\ UNCHANGED <<fields, meta, active, seed, work, deaths>>

\* The vector store is down: the caller has to send the PUT again.
PutFails(r) ==
    /\ put[r].pc = "committed" /\ put' = [put EXCEPT ![r] = Served]
    /\ loose' = TRUE
    /\ UNCHANGED <<fields, meta, active, points, seed, work, deaths>>

-----------------------------------------------------------------------------
\* The tasks.  Backfill and re-embedding take indexed documents.

Indexed == work["ingest"].pc = "done"

Load(t) ==
    /\ work[t].pc = "idle" /\ (t # "ingest" => Indexed)
    /\ work' = [work EXCEPT ![t] = [pc |-> "writing", next |-> 1, loaded |-> meta,
                                    into |-> IF t = "reembed" THEN "new" ELSE active]]
    /\ UNCHANGED <<fields, meta, active, points, put, seed, deaths, loose>>

\* upsert_points and upsert_hq_points of one batch
Upsert(t) ==
    /\ work[t].pc = "writing" /\ work[t].next \in Batches
    /\ points' = [points EXCEPT ![work[t].into][work[t].next] = work[t].loaded]
    /\ work' = [work EXCEPT ![t].next = @ + 1]
    /\ UNCHANGED <<fields, meta, active, put, seed, deaths, loose>>

\* Mutant: the row is not read again, for the session holds it already.
RereadHeld(t) == work[t].loaded

Reread(t) == meta

IngestReread ==
    /\ work["ingest"].pc = "writing" /\ work["ingest"].next \notin Batches
    /\ work' = [work EXCEPT !["ingest"].pc = "reread", !["ingest"].loaded = Reread("ingest")]
    /\ UNCHANGED <<fields, meta, active, points, put, seed, deaths, loose>>

IngestStamp ==
    /\ work["ingest"].pc = "reread" /\ work' = [work EXCEPT !["ingest"].pc = "done"]
    /\ points' = Stamped(work["ingest"].into, work["ingest"].loaded)
    /\ UNCHANGED <<fields, meta, active, put, seed, deaths, loose>>

BackfillDone ==
    /\ work["backfill"].pc = "writing" /\ work["backfill"].next \notin Batches
    /\ work' = [work EXCEPT !["backfill"].pc = "done"]
    /\ UNCHANGED <<fields, meta, active, points, put, seed, deaths, loose>>

\* The old collection is emptied, then the workspace turned to the new one.
ReembedDone ==
    /\ work["reembed"].pc = "writing" /\ work["reembed"].next \notin Batches
    /\ work' = [work EXCEPT !["reembed"].pc = "done"]
    /\ points' = [points EXCEPT !["old"] = [b \in Batches |-> Absent]] /\ active' = "new"
    /\ UNCHANGED <<fields, meta, put, seed, deaths, loose>>

\* A task that is killed or fails is delivered again and starts over.
Die(t) ==
    /\ work[t].pc \in {"writing", "reread"} /\ deaths < MaxDeaths /\ deaths' = deaths + 1
    /\ work' = [work EXCEPT ![t].pc = "idle"]
    /\ UNCHANGED <<fields, meta, active, points, put, seed, loose>>

Next ==
    \/ \E r \in Requests :
          \/ SeedRead(r) \/ SeedCommit(r)
          \/ \E values \in Inputs : PutRead(r, values)
          \/ PutCommit(r) \/ PutMirror(r) \/ PutFails(r)
    \/ \E n \in Names : CreateField(n) \/ DeleteField(n)
    \/ \E t \in Tasks : Load(t) \/ Upsert(t) \/ Die(t)
    \/ IngestReread \/ IngestStamp \/ BackfillDone \/ ReembedDone

Spec == Init /\ [][Next]_metadataVars

-----------------------------------------------------------------------------
\* build_clauses: what a search for one field's value becomes.  A date is a
\* moment, two of them to a day; a filter by date is a day or a range of days,
\* and an end that is Unset is open.

Known(s) == s.field \in fields
Bounds(s) == IF s.range THEN <<s.from, s.to>> ELSE <<s.from, s.from>>
Proper(s) ==
    Types[s.field] = "date" =>
        \A i \in 1..2 : Bounds(s)[i] \in IF s.range THEN Valid \union {Unset} ELSE Valid

Clause(s) ==
    IF Types[s.field] = "date"
    THEN [field |-> s.field, gte |-> 2 * Bounds(s)[1],
          lte |-> IF Bounds(s)[2] = Unset THEN -1 ELSE 2 * Bounds(s)[2] + 1]
    ELSE [field |-> s.field, gte |-> s.from, lte |-> s.from]

\* The store's reading of a clause: a date is stored as the start of its day.
Holds(c, payload) ==
    LET v == payload[c.field]
        stored == IF Types[c.field] = "date" THEN 2 * v ELSE v
    IN v > Unset /\ stored >= c.gte /\ (c.lte # -1 => stored <= c.lte)

\* What the search means.
Wanted(s, values) ==
    LET v == values[s.field]
    IN /\ v # Unset
       /\ IF Types[s.field] = "date" /\ s.range
          THEN (s.from = Unset \/ s.from <= v) /\ (s.to = Unset \/ v <= s.to)
          ELSE v = s.from

AtRest ==
    /\ \A r \in Requests : put[r].pc # "committed"
    /\ \A t \in Tasks : work[t].pc \in {"idle", "done"}

\* set_document_metadata, run_embed_upsert, build_clauses: when no task and no
\* mirror is under way, a search by metadata finds the points of a document
\* exactly when its row has the value, unless the row changed between the reading
\* and the writing of a backfill, a re-embedding or the last stamp of an
\* ingestion, between the commit and the mirror of another PUT, or between the
\* reading and the commit of one that asked for the values it had read (it writes
\* nothing and mirrors them), or a mirror failed, and no PUT ran alone since.
FindsByMetadata ==
    (AtRest /\ Indexed /\ ~loose) =>
        \A s \in {x \in Searches : Known(x) /\ Proper(x)}, b \in Batches :
            Holds(Clause(s), points[active][b]) <=> Wanted(s, meta)
=============================================================================
