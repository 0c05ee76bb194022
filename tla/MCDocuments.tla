----------------------------- MODULE MCDocuments -----------------------------
(***************************************************************************)
(* The modules about bringing documents in and keeping them in order, on   *)
(* small instances: AclProjection with an ingestion and a backfill beside  *)
(* the requests, folders, the stuck-document sweep, chunking, metadata and *)
(* uploads.  They share no state here, so one run takes them side by side: *)
(* focus is the module whose actions a behaviour takes, and the variables  *)
(* of the others keep their initial values.                                *)
(***************************************************************************)
EXTENDS AclProjection, Sequences, TLC

CONSTANTS a1, a2, i1, p1, q1, q2, f1, f2, f3, n1, n2, n3, d1, d2

VARIABLES
    focus,
    folder, doc, queued, task, stirred,                           \* Folders
    beat, swept, stuck, owed, worker, since,                      \* StuckSweep
    shape, scanned, method, blocks, at, cut, phase,               \* Chunking
    fields, meta, active, tagged, put, seed, writing, losses, loose, \* Metadata
    files, object, upload, stage, wipe, fell, mixed, crowded, orphans \* Uploads

folderVars == <<folder, doc, queued, task, stirred>>
sweepVars == <<beat, swept, stuck, owed, worker, since>>
chunkingVars == <<shape, scanned, method, blocks, at, cut, phase>>
metadataVars == <<fields, meta, active, tagged, put, seed, writing, losses, loose>>
uploadVars == <<files, object, upload, stage, wipe, fell, mixed, crowded, orphans>>
documentVars ==
    <<focus, vars, folderVars, sweepVars, chunkingVars, metadataVars, uploadVars>>

\* Two requests that create, ensure, delete and file; and two that shape the tree,
\* one of which moves what the other creates and deletes.
Filing == INSTANCE Folders
    WITH Requests <- {q1, q2}, Movers <- {}, Ids <- {f1, f2, f3}, Names <- {n1, n2},
         Paths <- {<<n1>>, <<n1, n2>>}, Docs <- {n3}
Shaping == INSTANCE Folders
    WITH Requests <- {q1, q2}, Movers <- {q1}, Ids <- {f1, f2, f3}, Names <- {n1, n2},
         Paths <- {}, Docs <- {}
Sweeping == INSTANCE StuckSweep
    WITH time <- beat, row <- stuck, Docs <- {d1, d2}, Cutoff <- 2, Limit <- 2, MaxOwed <- 2, MaxTime <- 5

\* Documents of up to three blocks on two pages, of words of several lengths.
Block(kind, levels, words) ==
    {[kind |-> kind, level |-> l, page |-> p, words |-> w] : l \in levels, p \in 1..2, w \in words}
Blocks == Block("text", {1}, {<<1>>, <<2, 1, 3>>, <<5>>}) \union Block("heading", {1, 2}, {<<1>>})
          \union Block("table", {1}, {<<1>>})
Cutting == INSTANCE Chunking
    WITH work <- cut,
         Shapes <- {s \in UNION {[1..n -> Blocks] : n \in 1..3} :
                       \A i \in 1..(Len(s) - 1) : s[i].page <= s[i + 1].page},
         Scans <- {<<>>, <<[kind |-> "text", level |-> 1, page |-> 1, words |-> <<2, 1, 3>>]>>},
         Methods <- {"heading", "table_qa", "fixed", "page"},
         Target <- 6, Overlap <- 3, MinPerPage <- 2

\* Two callers who set a document's metadata while three tasks write its points,
\* and two who list and edit the fields.
Search == {[field |-> "kind", range |-> FALSE, from |-> 1, to |-> 0]}
          \union [field : {"day"}, range : BOOLEAN, from : {0, 1, 2, 9}, to : 0..2]
Tagging == INSTANCE Metadata
    WITH points <- tagged, work <- writing, deaths <- losses,
         Types <- [kind |-> "select", day |-> "date"], Presets <- {"kind"},
         Inputs <- {[kind |-> 1, day |-> 0], [kind |-> 2, day |-> 1]}, Searches <- Search,
         Requests <- {"r1", "r2"}, Batches <- 1..2, MaxDeaths <- 1
Fielding == INSTANCE Metadata
    WITH points <- tagged, work <- writing, deaths <- losses,
         Types <- [kind |-> "select", day |-> "date"], Presets <- {"kind"},
         Inputs <- {[kind |-> 2, day |-> 0], [kind |-> 0, day |-> 9]}, Searches <- Search,
         Requests <- {"r1", "r2"}, Batches <- {}, MaxDeaths <- 0

\* Two uploads at a time under caps; moves between two places; and the objects of
\* documents that are ingested, deleted and left by a process that dies.
Capped == INSTANCE Uploads
    WITH row <- files, deaths <- fell, stirred <- mixed,
         Requests <- {"r1", "r2"}, Places <- {"root"}, Contents <- {"x", "y", "z"},
         Size <- [x |-> 1, y |-> 1, z |-> 2], MaxFile <- 2, MaxRows <- 2, MaxBytes <- 3,
         Artifacts <- <<>>, Ids <- 1..3, MaxDeaths <- 0
Moving == INSTANCE Uploads
    WITH row <- files, deaths <- fell, stirred <- mixed,
         Requests <- {"r1"}, Places <- {"root", "sub"}, Contents <- {"x", "y", "z"},
         Size <- [x |-> 1, y |-> 1, z |-> 1], MaxFile <- 2, MaxRows <- 0, MaxBytes <- 0,
         Artifacts <- <<>>, Ids <- 1..3, MaxDeaths <- 0
Storing == INSTANCE Uploads
    WITH row <- files, deaths <- fell, stirred <- mixed,
         Requests <- {"r1"}, Places <- {"root"}, Contents <- {"x", "y", "z"},
         Size <- [x |-> 1, y |-> 2, z |-> 3], MaxFile <- 2, MaxRows <- 0, MaxBytes <- 2,
         Artifacts <- <<"blocks", "chunks">>, Ids <- 1..2, MaxDeaths <- 1

Modules == {"ingest", "folders", "tree", "sweep", "chunks", "tags", "fields", "uploads", "moves",
            "objects"}

\* What a module starts with is fixed while another one has the focus.
DocumentsInit ==
    /\ focus \in Modules
    /\ Init /\ (focus # "ingest" => row.acl = a1 /\ ~row.current)
    /\ IF focus = "tree" THEN Shaping!Init ELSE Filing!Init
    /\ Sweeping!Init
    /\ Cutting!Init
    /\ (focus # "chunks" =>
            /\ method = "page"
            /\ shape = <<[kind |-> "text", level |-> 1, page |-> 1, words |-> <<1>>]>>)
    /\ IF focus = "fields" THEN Fielding!Init ELSE Tagging!Init
    /\ CASE focus = "uploads" -> Capped!Init [] focus = "objects" -> Storing!Init
         [] OTHER -> Moving!Init

\* The fields are there before the values.
TagsNext ==
    /\ Tagging!Next
    /\ seed' = seed /\ (fields' = fields => fields = {"kind", "day"})
    /\ fields' # fields => fields' \in {{"kind"}, {"kind", "day"}} /\ fields \subseteq fields'

\* Where no stage stores anything there is no ingestion to follow.
Unstaged == stage' = stage \/ upload' # upload
OneDeletion == \A d, e \in DOMAIN wipe : wipe'[d].pc # "kept" /\ wipe'[e].pc # "kept" => d = e

DocumentsNext ==
    \/ /\ focus = "ingest" /\ Next
       /\ UNCHANGED <<focus, folderVars, sweepVars, chunkingVars, metadataVars, uploadVars>>
    \/ /\ \/ focus = "folders" /\ Filing!Next
          \/ focus = "tree" /\ Shaping!Next
       /\ UNCHANGED <<focus, vars, sweepVars, chunkingVars, metadataVars, uploadVars>>
    \/ /\ focus = "sweep" /\ Sweeping!Next
       /\ UNCHANGED <<focus, vars, folderVars, chunkingVars, metadataVars, uploadVars>>
    \/ /\ focus = "chunks" /\ Cutting!Next
       /\ UNCHANGED <<focus, vars, folderVars, sweepVars, metadataVars, uploadVars>>
    \/ /\ \/ focus = "tags" /\ TagsNext
          \/ focus = "fields" /\ Fielding!Next
       /\ UNCHANGED <<focus, vars, folderVars, sweepVars, chunkingVars, uploadVars>>
    \/ /\ \/ focus = "uploads" /\ Capped!Next /\ Unstaged
          \/ focus = "moves" /\ Moving!Next /\ Unstaged /\ OneDeletion
          \/ focus = "objects" /\ Storing!Next
       /\ UNCHANGED <<focus, vars, folderVars, sweepVars, chunkingVars, metadataVars>>

DocumentsSpec == DocumentsInit /\ [][DocumentsNext]_documentVars

-----------------------------------------------------------------------------
\* The variables of every module have their types.
Types ==
    /\ TypeOK
    /\ focus = "folders" => Filing!TypeOK
    /\ focus = "tree" => Shaping!TypeOK
    /\ focus = "sweep" => Sweeping!TypeOK
    /\ focus = "chunks" => Cutting!TypeOK
    /\ focus = "tags" => Tagging!TypeOK
    /\ focus = "fields" => Fielding!TypeOK
    /\ focus = "uploads" => Capped!TypeOK
    /\ focus = "moves" => Moving!TypeOK
    /\ focus = "objects" => Storing!TypeOK

\* Folders: two callers of ensure_path for one path get one folder, and a document
\* that is being deleted has its event in the outbox.  Uploads: files, versions,
\* stored objects and caps agree, but for the overlaps the code leaves open.
FilingHolds ==
    /\ focus = "folders" => Filing!EnsureConverges /\ Filing!DeletionsAreQueued
    /\ focus = "tree" => Shaping!Forest
    /\ focus = "uploads" => Capped!UploadsHold
    /\ focus = "moves" => Moving!UploadsHold
    /\ focus = "objects" => Storing!UploadsHold

\* StuckSweep: a row nobody works on gets an event before the cutoff passes
\* twice, and a row whose job beats is not published again.
OnlyStrandedAreSwept == Sweeping!OnlyStrandedAreSwept

\* Chunking: the chunks of a document hold its text, in order and under their
\* headings.
ChunksCoverTheText == focus = "chunks" => Cutting!ChunksCoverTheText

\* Metadata: a search by metadata finds a document exactly when its row has the
\* value, once nobody writes and no writer missed a change.
FindsByMetadata == focus = "tags" => Tagging!FindsByMetadata
=============================================================================
