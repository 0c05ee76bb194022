--------------------------- MODULE LineageProofs ---------------------------
(***************************************************************************)
(* Proofs about Lineage when one process does all the work: a deleted      *)
(* document is not served, and at rest the effective version, and no       *)
(* other, is current and served.  With two processes the first is false    *)
(* (run LineageDeleteRace).                                                *)
(*                                                                         *)
(* The invariant has a part for each step a process can be at: what it     *)
(* carries (its document is still there, its copy of the row agrees with   *)
(* the row but for the status) and, past the first commit of a promotion,  *)
(* that its plan is still the right one as long as nothing new is owed.    *)
(*                                                                         *)
(* The second half is about Uploads, of any number of requests: its        *)
(* invariant has a part for each of the promises UploadsHold makes, and    *)
(* adds up the bytes of the rows without a recursive operator.             *)
(***************************************************************************)
EXTENDS Lineage, Integers, Sequences, FiniteSetTheorems, WellFoundedInduction, TLAPS

\* The hypothesis of both theorems.
OneProcess == \E p : Processes = {p}

Here(rows, v) == rows[v].status \notin {"absent", "gone"}
IndexedIn(rows) == {v \in Versions : rows[v].status = "indexed"}
TopOf(rows) == Effective(IndexedIn(rows), {v \in IndexedIn(rows) : rows[v].approved})
Agrees(r, m) == r.approved = m.approved /\ r.current = m.current /\ r.vectors = m.vectors

\* What is absent or gone has no flags and no points.
NoTrace(rows, st) ==
    \A v \in Versions : ~Here(rows, v) => ~rows[v].current /\ ~rows[v].vectors /\ st[v] = "none"

Ingesting == {"parse", "embed", "upsert", "reread", "mark"}
Deleting == {"points", "erase"}
Carried == {"flip", "drop", "clear"}

\* A process at step c, with the job j, its copy m and its plan d.
At(rows, st, c, j, m, d) ==
    /\ c \in Ingesting => j \in {"ingest", "reindex"} \X Versions /\ Here(rows, j[2])
    /\ c \in Deleting => j \in {"delete"} \X Versions /\ Here(rows, j[2])
    /\ c \in {"upsert", "reread", "mark"} => rows[j[2]].status \in {"processing", "deleting"}
    /\ c \in {"reread", "mark"} => st[j[2]] # "none"
    /\ c = "mark" => Agrees(rows[j[2]], m)
    /\ c = "erase" => st[j[2]] = "none"
    /\ c = "promote" => j \in Jobs /\ (j[1] # "delete" => Agrees(rows[j[2]], m))
    /\ c \in Carried \union {"enqueue"} =>
         d.winner \in Versions /\ Here(rows, d.winner)
    /\ c \in Carried => d.winner \notin d.demoted /\ \A v \in d.demoted : Here(rows, v)
    /\ c = "clear" => \A v \in d.demoted : st[v] = "none"

Safe ==
    /\ TypeOK /\ NoTrace(row, store)
    /\ \A p \in Processes : At(row, store, pc[p], job[p], mine[p], plan[p])

\* The rows that claim vectors are those with points, but for the version a deletion or
\* the end of a promotion is about to write.
Backed(rows, st, ow, c, j, d) ==
    \A v \in IndexedIn(rows) :
        \/ rows[v].vectors <=> st[v] # "none"
        \/ <<"delete", v>> \in ow
        \/ c \in Deleting /\ v = j[2]
        \/ c = "clear" /\ v \in d.demoted

\* Nothing more will be done on its own account.
Calm(rows, ow) ==
    /\ \A x \in ow : ~Here(rows, x[2])
    /\ \A v \in Versions : Here(rows, v) => v \in IndexedIn(rows)
    /\ IndexedIn(rows) # {}

Convergent(rows, st) ==
    \A v \in Versions : /\ rows[v].current <=> v = TopOf(rows)
                        /\ st[v] = "visible" <=> v = TopOf(rows)
                        /\ rows[v].vectors <=> st[v] # "none"

\* The plan a promotion carries.
Planned(rows, d) ==
    /\ d.winner = TopOf(rows) /\ rows[TopOf(rows)].vectors
    /\ d.demoted = {v \in IndexedIn(rows) : v # TopOf(rows) /\ rows[v].vectors}
    /\ \A v \in IndexedIn(rows) : rows[v].current <=> v = TopOf(rows)

Decided(rows, st, ow, c, d) ==
    Calm(rows, ow) =>
        /\ c = "idle" => Convergent(rows, st)
        /\ c \in Carried => Planned(rows, d)
        /\ c \in {"drop", "clear"} => st[TopOf(rows)] = "visible"

Converges ==
    \A p \in Processes : /\ Backed(row, store, owed, pc[p], job[p], plan[p])
                         /\ Decided(row, store, owed, pc[p], plan[p])

-----------------------------------------------------------------------------
\* A non-empty set of versions has a highest one.
LEMMA MaxVersion ==
  ASSUME NEW S \in SUBSET Versions, S # {}
  PROVE  Max(S) \in S
<1> DEFINE Above(x) == {y \in S : y > x}
           T == {Above(x) : x \in S}
<1>1. \A x \in S : x \in Nat
  BY VersionAssumption
<1>2. T \subseteq FiniteSubsetsOf(Versions)
  <2>1. ASSUME NEW x \in S PROVE Above(x) \in FiniteSubsetsOf(Versions)
    <3>1. Above(x) \in SUBSET Versions
      OBVIOUS
    <3>2. IsFiniteSet(Above(x))
      BY <3>1, FS_Subset, VersionAssumption
    <3> QED
      BY <3>1, <3>2 DEF FiniteSubsetsOf
  <2> QED
    BY <2>1
<1>3. T # {}
  OBVIOUS
<1>4. PICK U \in T : \A W \in T : ~(<<W, U>> \in StrictSubsetOrdering(Versions))
  <2> HIDE DEF T
  <2> QED
    BY <1>2, <1>3, FS_StrictSubsetOrderingWellFounded, WFMin
<1>5. PICK x \in S : U = Above(x)
  BY <1>4
<1>6. ASSUME NEW y \in S PROVE x >= y
  <2> SUFFICES ASSUME y > x PROVE FALSE
    BY <1>1
  <2>1. Above(y) \subseteq Above(x) /\ y \in Above(x) /\ y \notin Above(y)
    BY <1>1
  <2>2. Above(y) \in T /\ Above(x) \in SUBSET Versions /\ Above(y) \in SUBSET Versions
    OBVIOUS
  <2>3. <<Above(y), Above(x)>> \in StrictSubsetOrdering(Versions)
    <3> HIDE DEF Above
    <3> QED
      BY <2>1, <2>2 DEF StrictSubsetOrdering
  <2> QED
    BY <1>4, <1>5, <2>2, <2>3
<1> QED
  BY <1>6 DEF Max

\* The effective version is one of those it is chosen from.
LEMMA TopIn ==
  ASSUME NEW S \in SUBSET Versions, S # {}, NEW A \in SUBSET S
  PROVE  Effective(S, A) \in S
BY MaxVersion DEF Effective

\* A change of one status, and of nothing else in the row.
LEMMA StatusSet ==
  ASSUME NEW rows \in [Versions -> Row], NEW v \in Versions, NEW s \in Statuses, NEW more,
         more = [rows EXCEPT ![v].status = s]
  PROVE  /\ more \in [Versions -> Row] /\ more[v].status = s /\ Agrees(more[v], rows[v])
         /\ \A u \in Versions : u # v => more[u] = rows[u]
BY DEF Row, Agrees

\* The invariant's operators are the module's.
LEMMA OperatorsAre ==
  /\ \A v : Exists(v) <=> Here(row, v)
  /\ Indexed = IndexedIn(row)
  /\ Effective(Indexed, Approved) = TopOf(row)
BY DEF Exists, Here, Indexed, IndexedIn, Approved, TopOf

\* A step of the only process, to the step c of its work.
LEMMA AtOnly ==
  ASSUME NEW p, Processes = {p}, TypeOK', NoTrace(row', store'),
         At(row', store', pc'[p], job'[p], mine'[p], plan'[p])
  PROVE  Safe'
BY DEF Safe

\* Nothing is expected of an idle process, or of one about to start a document's work.
LEMMA AtIdle ==
  ASSUME NEW rows, NEW st, NEW j, NEW m, NEW d
  PROVE  At(rows, st, "idle", j, m, d)
BY DEF At, Ingesting, Deleting, Carried

\* The start.
LEMMA SafeInit == Init => Safe
<1> SUFFICES ASSUME Init PROVE Safe
  OBVIOUS
<1>1. NoRow \in Row
  BY DEF NoRow, Row, Statuses
<1>2. NoPlan \in Plans
  BY DEF NoPlan, Plans
<1>3. TypeOK
  BY <1>1, <1>2, BoundAssumption DEF Init, TypeOK, Steps
<1>4. NoTrace(row, store)
  BY DEF Init, NoTrace, NoRow
<1> QED
  BY <1>3, <1>4, AtIdle DEF Safe, Init

\* The API: a new message, a status that stays or becomes that of a document that is there.
LEMMA SafeApi ==
  ASSUME Safe, NEW v \in Versions, Upload(v) \/ RequestDelete(v) \/ RequestReindex(v)
  PROVE  Safe'
<1>0. TypeOK /\ NoTrace(row, store) /\ row \in [Versions -> Row] /\ owed \subseteq Messages
      /\ \A p \in Processes : At(row, store, pc[p], job[p], mine[p], plan[p])
  BY DEF Safe, TypeOK
<1>1. /\ UNCHANGED <<store, pc, job, mine, plan, errors, cuts>>
      /\ requests' \in 0..MaxRequests
  BY <1>0, BoundAssumption DEF Upload, RequestDelete, RequestReindex, bounds, TypeOK
<1>2. owed' \subseteq Messages
  BY <1>0 DEF Upload, RequestDelete, RequestReindex, Messages
<1>3. /\ row' \in [Versions -> Row]
      /\ \A u \in Versions : /\ Agrees(row'[u], row[u])
                             /\ Here(row, u) => Here(row', u)
                             /\ ~Here(row', u) => ~Here(row, u)
                             /\ row[u].status \in {"processing", "deleting"} =>
                                  row'[u].status \in {"processing", "deleting"}
  <2>1. CASE Upload(v)
    BY <1>0, <2>1, StatusSet DEF Upload, Here, Agrees, Statuses
  <2>2. CASE RequestDelete(v)
    BY <1>0, <2>2, StatusSet DEF RequestDelete, Exists, Here, Agrees, Statuses
  <2>3. CASE RequestReindex(v)
    BY <1>0, <2>3 DEF RequestReindex, Agrees
  <2> QED
    BY <2>1, <2>2, <2>3
<1>4. TypeOK'
  BY <1>0, <1>1, <1>2, <1>3 DEF TypeOK
<1>5. NoTrace(row', store')
  BY <1>0, <1>1, <1>3 DEF NoTrace, Agrees
<1>6. ASSUME NEW p \in Processes PROVE At(row', store', pc'[p], job'[p], mine'[p], plan'[p])
  <2>1. At(row, store, pc[p], job[p], mine[p], plan[p]) /\ job[p] \in Jobs \union {NoJob}
    BY <1>0 DEF TypeOK
  <2>2. job[p] \in Jobs => job[p][2] \in Versions
    BY DEF Jobs, Messages
  <2>3. job[p] \in {"ingest", "reindex"} \X Versions => job[p] \in Jobs
    BY DEF Jobs, Messages
  <2>4. job[p] \in {"delete"} \X Versions => job[p] \in Jobs
    BY DEF Jobs, Messages
  <2>5. plan[p].demoted \subseteq Versions
    BY <1>0 DEF TypeOK, Plans
  <2> QED
    BY <1>1, <1>3, <2>1, <2>2, <2>3, <2>4, <2>5 DEF At, Agrees, Ingesting, Deleting, Carried
<1> QED
  BY <1>4, <1>5, <1>6 DEF Safe

\* The steps of an ingestion or a re-indexing.
LEMMA SafeIngest ==
  ASSUME Safe, NEW p, Processes = {p},
         Vanished(p) \/ Parse(p) \/ EmbedStart(p) \/ Upsert(p) \/ Reread(p) \/ MarkIndexed(p)
  PROVE  Safe'
<1> DEFINE v == Doc(p)
<1>0. /\ TypeOK /\ NoTrace(row, store) /\ At(row, store, pc[p], job[p], mine[p], plan[p])
      /\ row \in [Versions -> Row] /\ p \in Processes /\ mine[p] \in Row
      /\ store \in [Versions -> {"none", "hidden", "visible"}]
      /\ pc \in [Processes -> Steps] /\ job \in [Processes -> Jobs \union {NoJob}]
      /\ mine \in [Processes -> Row] /\ plan \in [Processes -> Plans]
  BY DEF Safe, TypeOK
<1>1. /\ v = job[p][2] /\ v \in Versions /\ Here(row, v)
      /\ job[p] \in Jobs /\ job[p][1] # "delete"
  BY <1>0 DEF Vanished, Parse, EmbedStart, Upsert, Reread, MarkIndexed, At, Ingesting, Doc,
              Jobs, Messages
<1>2. NoRow \in Row /\ NoPlan \in Plans /\ "idle" \in Steps
  BY DEF NoRow, Row, Statuses, NoPlan, Plans, Steps
<1>3. CASE Vanished(p)
  BY <1>1, <1>3, OperatorsAre DEF Vanished
<1>4. CASE Parse(p)
  <2>1. /\ row' = [row EXCEPT ![v].status = Written(row[v].status, mine[p].status, "processing")]
        /\ UNCHANGED <<store, owed, job, plan, bounds>>
        /\ pc' = [pc EXCEPT ![p] = "embed"] /\ mine' = [mine EXCEPT ![p] = NoRow]
        /\ pc[p] = "parse"
    BY <1>0, <1>1, <1>4 DEF Parse, Goto
  <2>2. Written(row[v].status, mine[p].status, "processing") \in Statuses \ {"absent", "gone"}
    BY <1>0, <1>1 DEF Written, Row, Statuses, Here
  <2>3. /\ row' \in [Versions -> Row] /\ Here(row', v) /\ Agrees(row'[v], row[v])
        /\ \A u \in Versions : u # v => row'[u] = row[u]
    BY <1>0, <1>1, <2>1, <2>2, StatusSet DEF Here
  <2>4. TypeOK'
    BY <1>0, <1>2, <2>1, <2>3 DEF TypeOK, Steps, bounds
  <2>5. NoTrace(row', store')
    BY <1>0, <2>1, <2>3 DEF NoTrace, Here
  <2>6. At(row', store', pc'[p], job'[p], mine'[p], plan'[p])
    BY <1>0, <1>1, <2>1, <2>3 DEF At, Ingesting, Deleting, Carried
  <2> QED
    BY <2>4, <2>5, <2>6, AtOnly
<1>5. CASE EmbedStart(p)
  <2>1. /\ row' = [row EXCEPT ![v].status = "processing"]
        /\ UNCHANGED <<store, owed, job, mine, plan, bounds>>
        /\ pc' = [pc EXCEPT ![p] = "upsert"] /\ pc[p] = "embed"
    BY <1>5 DEF EmbedStart, Goto
  <2>2. /\ row' \in [Versions -> Row] /\ row'[v].status = "processing"
        /\ Agrees(row'[v], row[v]) /\ \A u \in Versions : u # v => row'[u] = row[u]
    <3>1. row \in [Versions -> Row] /\ v \in Versions /\ "processing" \in Statuses
      BY <1>0, <1>1 DEF Statuses
    <3>2. row' = [row EXCEPT ![v].status = "processing"]
      BY <2>1
    <3> HIDE DEF v
    <3> QED
      BY <3>1, <3>2, StatusSet
  <2>4. TypeOK'
    BY <1>0, <1>2, <2>1, <2>2 DEF TypeOK, Steps, bounds
  <2>5. NoTrace(row', store')
    BY <1>0, <2>1, <2>2 DEF NoTrace, Here
  <2>6. At(row', store', pc'[p], job'[p], mine'[p], plan'[p])
    BY <1>0, <1>1, <2>1, <2>2 DEF At, Ingesting, Deleting, Carried, Here
  <2> QED
    BY <2>4, <2>5, <2>6, AtOnly
<1>6. CASE Upsert(p)
  <2>1. /\ store' = [store EXCEPT ![v] = "hidden"] /\ pc' = [pc EXCEPT ![p] = "reread"]
        /\ UNCHANGED <<row, owed, job, mine, plan, bounds>> /\ pc[p] = "upsert"
    BY <1>6 DEF Upsert, Goto
  <2>4. TypeOK'
    BY <1>0, <1>1, <2>1 DEF TypeOK, Steps, bounds
  <2>5. NoTrace(row', store')
    BY <1>0, <1>1, <2>1 DEF NoTrace
  <2>6. At(row', store', pc'[p], job'[p], mine'[p], plan'[p])
    BY <1>0, <1>1, <2>1 DEF At, Ingesting, Deleting, Carried
  <2> QED
    BY <2>4, <2>5, <2>6, AtOnly
<1>7. CASE Reread(p)
  <2>1. /\ mine' = [mine EXCEPT ![p] = row[v]] /\ pc' = [pc EXCEPT ![p] = "mark"]
        /\ UNCHANGED <<row, store, owed, job, plan, bounds>> /\ pc[p] = "reread"
    BY <1>1, <1>7, OperatorsAre DEF Reread, Goto
  <2>4. TypeOK'
    BY <1>0, <1>1, <2>1 DEF TypeOK, Steps, bounds
  <2>5. NoTrace(row', store')
    BY <1>0, <2>1
  <2>6. At(row', store', pc'[p], job'[p], mine'[p], plan'[p])
    BY <1>0, <1>1, <2>1 DEF At, Ingesting, Deleting, Carried, Agrees
  <2> QED
    BY <2>4, <2>5, <2>6, AtOnly
<1>8. CASE MarkIndexed(p)
  <2> DEFINE s == Written(row[v].status, mine[p].status, "indexed")
  <2>0. pc[p] = "mark" /\ row[v] \in Row /\ Agrees(row[v], mine[p]) /\ store[v] # "none"
    BY <1>0, <1>1, <1>8 DEF MarkIndexed, At
  <2>1. /\ Written(row[v].vectors, mine[p].vectors, TRUE) = TRUE
        /\ s \in Statuses \ {"absent", "gone"}
    BY <1>0, <1>1, <2>0 DEF Written, Agrees, Row, Here, Statuses
  <2>2. /\ row' = [row EXCEPT ![v].status = s, ![v].vectors = TRUE]
        /\ mine' = [mine EXCEPT ![p].status = "indexed", ![p].vectors = TRUE]
        /\ pc' = [pc EXCEPT ![p] = "promote"]
        /\ UNCHANGED <<store, owed, job, plan, bounds>>
    <3>1. row' = [row EXCEPT ![v].status = s,
                             ![v].vectors = Written(row[v].vectors, mine[p].vectors, TRUE)]
      BY <1>0, <1>1, <1>8 DEF MarkIndexed, Row
    <3> QED
      BY <1>8, <2>1, <3>1 DEF MarkIndexed, Goto
  <2> HIDE DEF s
  <2>3. /\ row' \in [Versions -> Row] /\ row'[v].status = s /\ row'[v].vectors = TRUE
        /\ row'[v].approved = row[v].approved /\ row'[v].current = row[v].current
        /\ \A u \in Versions : u # v => row'[u] = row[u]
    BY <1>0, <1>1, <2>0, <2>1, <2>2 DEF Row
  <2>a. /\ mine' \in [Processes -> Row] /\ mine'[p].vectors = TRUE
        /\ mine'[p].approved = mine[p].approved /\ mine'[p].current = mine[p].current
    BY <1>0, <2>2 DEF Row, Statuses
  <2>4. TypeOK'
    BY <1>0, <2>2, <2>3, <2>a DEF TypeOK, Steps, bounds
  <2>5. NoTrace(row', store')
    BY <1>0, <2>1, <2>2, <2>3 DEF NoTrace, Here
  <2>6. At(row', store', pc'[p], job'[p], mine'[p], plan'[p])
    <3>1. Agrees(row'[v], mine'[p])
      BY <2>0, <2>3, <2>a DEF Agrees
    <3> QED
      BY <1>0, <1>1, <2>2, <3>1 DEF At, Ingesting, Deleting, Carried
  <2> QED
    BY <2>4, <2>5, <2>6, AtOnly
<1> QED
  BY <1>3, <1>4, <1>5, <1>6, <1>7, <1>8

\* A deletion: the points are gone before the row is.
LEMMA SafeDelete ==
  ASSUME Safe, NEW p, Processes = {p}, DeletePoints(p) \/ EraseRow(p)
  PROVE  Safe'
<1> DEFINE v == Doc(p)
<1>0. /\ TypeOK /\ NoTrace(row, store) /\ At(row, store, pc[p], job[p], mine[p], plan[p])
      /\ row \in [Versions -> Row] /\ p \in Processes
      /\ store \in [Versions -> {"none", "hidden", "visible"}]
      /\ pc \in [Processes -> Steps]
  BY DEF Safe, TypeOK
<1>1. /\ v = job[p][2] /\ v \in Versions /\ Here(row, v)
      /\ job[p] \in Jobs /\ job[p][1] = "delete"
  BY <1>0 DEF DeletePoints, EraseRow, At, Deleting, Doc, Jobs, Messages
<1>2. CASE DeletePoints(p)
  <2>1. /\ store' = [store EXCEPT ![v] = "none"] /\ pc' = [pc EXCEPT ![p] = "erase"]
        /\ UNCHANGED <<row, owed, job, mine, plan, bounds>> /\ pc[p] = "points"
    BY <1>2 DEF DeletePoints, Goto
  <2>2. TypeOK'
    BY <1>0, <1>1, <2>1 DEF TypeOK, Steps, bounds
  <2>3. NoTrace(row', store')
    BY <1>0, <1>1, <2>1 DEF NoTrace
  <2>4. At(row', store', pc'[p], job'[p], mine'[p], plan'[p])
    BY <1>0, <1>1, <2>1 DEF At, Ingesting, Deleting, Carried
  <2> QED
    BY <2>2, <2>3, <2>4, AtOnly
<1>3. CASE EraseRow(p)
  <2> DEFINE r == [NoRow EXCEPT !.status = "gone"]
  <2>1. /\ row' = [row EXCEPT ![v] = r] /\ pc' = [pc EXCEPT ![p] = "promote"]
        /\ UNCHANGED <<store, owed, job, mine, plan, bounds>> /\ store[v] = "none"
    BY <1>0, <1>1, <1>3 DEF EraseRow, Goto, At
  <2>2. r \in Row /\ ~r.current /\ ~r.vectors
    BY DEF NoRow, Row, Statuses
  <2> HIDE DEF r
  <2>3. /\ row' \in [Versions -> Row] /\ row'[v] = r
        /\ \A u \in Versions : u # v => row'[u] = row[u]
    BY <1>0, <1>1, <2>1, <2>2
  <2>4. TypeOK'
    BY <1>0, <2>1, <2>3 DEF TypeOK, Steps, bounds
  <2>5. NoTrace(row', store')
    BY <1>0, <1>1, <2>1, <2>2, <2>3 DEF NoTrace, Here
  <2>6. At(row', store', pc'[p], job'[p], mine'[p], plan'[p])
    BY <1>0, <1>1, <2>1 DEF At, Ingesting, Deleting, Carried
  <2> QED
    BY <2>4, <2>5, <2>6, AtOnly
<1> QED
  BY <1>2, <1>3

\* In a promotion the only process sees the rows as they are, but for one status.
LEMMA SeenIs ==
  ASSUME Safe, NEW p, Processes = {p}, pc[p] = "promote", Indexed # {}
  PROVE  /\ \A v \in Indexed : Agrees(Seen(p, v), row[v])
         /\ Winner(p) = TopOf(row) /\ Winner(p) \in Indexed
<1>1. /\ job[p] \in Jobs /\ (job[p][1] # "delete" => Agrees(row[Doc(p)], mine[p]))
  BY DEF Safe, At, Doc
<1>2. \A v \in Indexed : Agrees(Seen(p, v), row[v])
  BY <1>1 DEF Seen, Agrees
<1>3. {v \in Indexed : Seen(p, v).approved} = {v \in Indexed : row[v].approved}
  BY <1>2 DEF Agrees
<1>4. Winner(p) = TopOf(row)
  BY <1>3 DEF Winner, TopOf, Indexed, IndexedIn
<1>5. Winner(p) \in Indexed
  BY <1>3, TopIn DEF Winner, Indexed
<1> QED
  BY <1>2, <1>4, <1>5

\* The flags after a promotion's first commit: those of the rows, whatever was loaded.
LEMMA FlagsAre ==
  ASSUME Safe, NEW p, Processes = {p}, Converge(p)
  PROVE  /\ row' = [v \in Versions |->
                      IF v \in Indexed THEN [row[v] EXCEPT !.current = (v = Winner(p))] ELSE row[v]]
         /\ plan' = [plan EXCEPT ![p] =
                       [winner |-> Winner(p),
                        demoted |-> {v \in Indexed \ {Winner(p)} : row[v].vectors}]]
         /\ row[Winner(p)].vectors
<1>1. pc[p] = "promote" /\ Indexed # {} /\ Seen(p, Winner(p)).vectors
  BY DEF Converge
<1>2. \A v \in Indexed : Agrees(Seen(p, v), row[v])
  BY <1>1, SeenIs
<1>3. Winner(p) \in Indexed
  BY <1>1, SeenIs
<1>4. ASSUME NEW v \in Indexed
      PROVE  [row[v] EXCEPT !.current = Written(@, Seen(p, v).current, v = Winner(p))]
               = [row[v] EXCEPT !.current = (v = Winner(p))]
  <2>1. row[v] \in Row
    BY DEF Safe, TypeOK, Indexed
  <2>2. Written(row[v].current, Seen(p, v).current, v = Winner(p)) = (v = Winner(p))
    BY <1>2 DEF Written, Agrees
  <2> QED
    BY <2>1, <2>2 DEF Row
<1>5. {v \in Indexed \ {Winner(p)} : Seen(p, v).vectors}
        = {v \in Indexed \ {Winner(p)} : row[v].vectors}
  BY <1>2 DEF Agrees
<1> QED
  BY <1>1, <1>2, <1>3, <1>4, <1>5 DEF Converge, Agrees

\* The end of a process's work; its document's row may have been marked failed.
LEMMA SafeEnd ==
  ASSUME Safe, NEW p, Processes = {p}, End(p), store' = store, owed' \subseteq Messages,
         requests' \in 0..MaxRequests, errors' \in 0..MaxErrors, cuts' \in 0..MaxCuts,
         row' \in [Versions -> Row],
         \A v \in Versions : ~Here(row', v) => row'[v] = row[v]
  PROVE  Safe'
<1>0. /\ TypeOK /\ NoTrace(row, store) /\ p \in Processes
      /\ pc \in [Processes -> Steps] /\ job \in [Processes -> Jobs \union {NoJob}]
      /\ mine \in [Processes -> Row] /\ plan \in [Processes -> Plans]
  BY DEF Safe, TypeOK
<1>1. NoRow \in Row /\ NoPlan \in Plans /\ "idle" \in Steps
  BY DEF NoRow, Row, Statuses, NoPlan, Plans, Steps
<1>2. /\ pc' = [pc EXCEPT ![p] = "idle"] /\ job' = [job EXCEPT ![p] = NoJob]
      /\ mine' = [mine EXCEPT ![p] = NoRow] /\ plan' = [plan EXCEPT ![p] = NoPlan]
  BY DEF End, Goto
<1>3. TypeOK'
  BY <1>0, <1>1, <1>2 DEF TypeOK
<1>4. NoTrace(row', store')
  BY <1>0 DEF NoTrace, Here
<1>5. pc'[p] = "idle"
  BY <1>0, <1>2
<1> QED
  BY <1>3, <1>4, <1>5, AtIdle, AtOnly

\* A promotion.
LEMMA SafePromote ==
  ASSUME Safe, NEW p, Processes = {p}, Promote(p)
  PROVE  Safe'
<1>0. /\ TypeOK /\ NoTrace(row, store) /\ At(row, store, pc[p], job[p], mine[p], plan[p])
      /\ row \in [Versions -> Row] /\ p \in Processes /\ owed \subseteq Messages
      /\ store \in [Versions -> {"none", "hidden", "visible"}]
      /\ pc \in [Processes -> Steps] /\ plan \in [Processes -> Plans] /\ plan[p] \in Plans
      /\ requests \in 0..MaxRequests /\ errors \in 0..MaxErrors /\ cuts \in 0..MaxCuts
  BY DEF Safe, TypeOK
<1>a. plan[p].demoted \subseteq Versions
  BY <1>0 DEF Plans
<1>1. CASE NothingIndexed(p)
  BY <1>0, <1>1, SafeEnd DEF NothingIndexed, bounds
<1>2. CASE NeedsReindex(p)
  <2>1. /\ plan' = [plan EXCEPT ![p].winner = Winner(p)] /\ pc' = [pc EXCEPT ![p] = "enqueue"]
        /\ UNCHANGED <<row, store, owed, job, mine, bounds>> /\ Winner(p) \in Indexed
    BY <1>2, SeenIs DEF NeedsReindex, Goto
  <2>2. Winner(p) \in Versions /\ Here(row, Winner(p))
    BY <2>1 DEF Indexed, Here
  <2>3. plan' \in [Processes -> Plans] /\ plan'[p].winner = Winner(p)
    BY <1>0, <2>1, <2>2 DEF Plans
  <2>4. TypeOK'
    BY <1>0, <2>1, <2>3 DEF TypeOK, Steps, bounds
  <2>5. At(row', store', pc'[p], job'[p], mine'[p], plan'[p])
    BY <1>0, <2>1, <2>2, <2>3 DEF At, Ingesting, Deleting, Carried
  <2> QED
    BY <1>0, <2>1, <2>4, <2>5, AtOnly
<1>3. CASE Converge(p)
  <2> DEFINE w == Winner(p)
             d == [winner |-> w, demoted |-> {v \in Indexed \ {w} : row[v].vectors}]
  <2>1. /\ row' = [v \in Versions |->
                     IF v \in Indexed THEN [row[v] EXCEPT !.current = (v = w)] ELSE row[v]]
        /\ plan' = [plan EXCEPT ![p] = d] /\ pc' = [pc EXCEPT ![p] = "flip"]
        /\ UNCHANGED <<store, owed, job, mine, bounds>> /\ w \in Indexed
    BY <1>3, FlagsAre, SeenIs DEF Converge, Goto
  <2>2. d \in Plans /\ d.winner = w /\ w \notin d.demoted /\ w \in Versions
        /\ d.demoted \subseteq Indexed
    BY <2>1 DEF Plans, Indexed
  <2> HIDE DEF w, d
  <2>3. /\ row' \in [Versions -> Row]
        /\ \A v \in Versions : /\ row'[v].status = row[v].status
                               /\ v \notin Indexed => row'[v] = row[v]
    BY <1>0, <2>1 DEF Row
  <2>4. TypeOK'
    BY <1>0, <2>1, <2>2, <2>3 DEF TypeOK, Steps, bounds
  <2>5. NoTrace(row', store')
    BY <1>0, <2>1, <2>3 DEF NoTrace, Here, Indexed
  <2>6. At(row', store', pc'[p], job'[p], mine'[p], plan'[p])
    BY <1>0, <2>1, <2>2, <2>3 DEF At, Ingesting, Deleting, Carried, Here, Indexed
  <2> QED
    BY <2>4, <2>5, <2>6, AtOnly
<1>4. CASE Flip(p)
  <2>0. plan[p].winner \in Versions /\ Here(row, plan[p].winner)
        /\ plan[p].winner \notin plan[p].demoted /\ \A v \in plan[p].demoted : Here(row, v)
    BY <1>0, <1>4 DEF Flip, At, Carried
  <2>1. /\ store' = [store EXCEPT ![plan[p].winner] =
                       IF store[plan[p].winner] = "none" THEN "none" ELSE "visible"]
        /\ pc' = [pc EXCEPT ![p] = "drop"]
        /\ UNCHANGED <<row, owed, job, mine, plan, bounds>>
    BY <1>0, <1>4, <2>0 DEF Flip, Goto
  <2>4. TypeOK'
    BY <1>0, <2>0, <2>1 DEF TypeOK, Steps, bounds
  <2>5. NoTrace(row', store')
    BY <1>0, <2>0, <2>1 DEF NoTrace
  <2>6. At(row', store', pc'[p], job'[p], mine'[p], plan'[p])
    BY <1>0, <2>0, <2>1 DEF At, Ingesting, Deleting, Carried
  <2> QED
    BY <2>4, <2>5, <2>6, AtOnly
<1>5. CASE DropDemoted(p)
  <2>1. /\ store' = [v \in Versions |-> IF v \in plan[p].demoted THEN "none" ELSE store[v]]
        /\ pc' = [pc EXCEPT ![p] = "clear"] /\ pc[p] = "drop"
        /\ UNCHANGED <<row, owed, job, mine, plan, bounds>>
    BY <1>5 DEF DropDemoted, Goto
  <2>4. TypeOK'
    BY <1>0, <2>1 DEF TypeOK, Steps, bounds
  <2>5. NoTrace(row', store')
    BY <1>0, <2>1 DEF NoTrace
  <2>6. At(row', store', pc'[p], job'[p], mine'[p], plan'[p])
    BY <1>0, <1>a, <2>1 DEF At, Ingesting, Deleting, Carried
  <2> QED
    BY <2>4, <2>5, <2>6, AtOnly
<1>6. CASE ClearVectors(p)
  <2>1. row' \in [Versions -> Row] /\ \A v \in Versions : ~Here(row', v) => row'[v] = row[v]
    <3>1. CASE row' = row
      BY <1>0, <3>1
    <3>2. CASE /\ \A v \in plan[p].demoted : Exists(v)
               /\ row' = [v \in Versions |-> IF v \in plan[p].demoted
                                             THEN [row[v] EXCEPT !.vectors = FALSE] ELSE row[v]]
      <4>1. \A v \in Versions : row'[v] \in Row /\ row'[v].status = row[v].status
        BY <1>0, <3>2 DEF Row
      <4>2. row' \in [Versions -> Row]
        BY <3>2, <4>1
      <4> QED
        BY <3>2, <4>1, <4>2 DEF Here, Exists
    <3> QED
      BY <1>6, <3>1, <3>2 DEF ClearVectors
  <2> QED
    BY <1>0, <1>6, <2>1, SafeEnd DEF ClearVectors, bounds
<1>7. CASE Enqueue(p)
  <2>1. owed' \subseteq Messages
    BY <1>0, <1>7 DEF Enqueue, At, Carried, Messages
  <2> QED
    BY <1>0, <1>7, <2>1, SafeEnd DEF Enqueue, bounds
<1> QED
  BY <1>1, <1>2, <1>3, <1>4, <1>5, <1>6, <1>7 DEF Promote

\* A failure: the message is put back, or the document is marked failed.
LEMMA SafeFailure ==
  ASSUME Safe, NEW p, Processes = {p}, StageRaises(p) \/ PromotionCut(p)
  PROVE  Safe'
<1>0. /\ row \in [Versions -> Row] /\ owed \subseteq Messages
      /\ requests \in 0..MaxRequests /\ errors \in 0..MaxErrors /\ cuts \in 0..MaxCuts
  BY DEF Safe, TypeOK
<1>1. /\ GiveBack(p) /\ End(p) /\ store' = store /\ requests' = requests
      /\ errors' \in 0..MaxErrors /\ cuts' \in 0..MaxCuts
  BY <1>0, BoundAssumption DEF StageRaises, PromotionCut
<1>2. owed' \subseteq Messages
  BY <1>0, <1>1 DEF GiveBack
<1>3. row' \in [Versions -> Row] /\ \A v \in Versions : ~Here(row', v) => row'[v] = row[v]
  <2>1. CASE row' = row
    BY <1>0, <2>1
  <2>2. CASE Exists(Doc(p)) /\ job[p] \in Messages /\ row' = [row EXCEPT ![Doc(p)].status = "failed"]
    <3>1. Doc(p) \in Versions
      BY <2>2 DEF Messages, Doc
    <3>2. PICK w \in Versions : w = Doc(p)
      BY <3>1
    <3>3. row' = [row EXCEPT ![w].status = "failed"] /\ "failed" \in Statuses
      BY <2>2, <3>2 DEF Statuses
    <3>4. row' \in [Versions -> Row] /\ \A v \in Versions : v # w => row'[v] = row[v]
      BY <1>0, <3>3, StatusSet
    <3>5. Here(row', w)
      <4>1. row'[w].status = "failed"
        BY <1>0, <3>3, StatusSet
      <4> QED
        BY <4>1 DEF Here
    <3> QED
      BY <3>4, <3>5
  <2> QED
    BY <1>1, <2>1, <2>2 DEF GiveBack
<1> QED
  BY <1>0, <1>1, <1>2, <1>3, SafeEnd

\* The start of a task, or of an approval.
LEMMA SafeStart ==
  ASSUME Safe, NEW p, Processes = {p}, Take(p) \/ \E v \in Versions : Approve(p, v)
  PROVE  Safe'
<1>0. /\ TypeOK /\ NoTrace(row, store)
      /\ row \in [Versions -> Row] /\ p \in Processes /\ owed \subseteq Messages
      /\ pc \in [Processes -> Steps] /\ mine \in [Processes -> Row]
      /\ job \in [Processes -> Jobs \union {NoJob}] /\ requests \in 0..MaxRequests
  BY DEF Safe, TypeOK
<1>1. CASE Take(p)
  <2>1. PICK x \in owed :
          /\ owed' = owed \ {x}
          /\ IF Exists(x[2])
             THEN /\ job' = [job EXCEPT ![p] = x]
                  /\ mine' = IF x[1] = "ingest" THEN [mine EXCEPT ![p] = row[x[2]]] ELSE mine
                  /\ pc' = [pc EXCEPT ![p] = FirstStep(x[1])]
             ELSE UNCHANGED <<job, mine, pc>>
    BY <1>1 DEF Take, Goto
  <2>2. x \in Messages /\ x[2] \in Versions /\ x[1] \in {"ingest", "reindex", "delete"}
        /\ x = <<x[1], x[2]>> /\ x \in Jobs
    BY <1>0, <2>1 DEF Messages, Jobs
  <2>3. UNCHANGED <<row, store, plan, bounds>> /\ owed' \subseteq Messages /\ pc[p] = "idle"
    BY <1>0, <1>1, <2>1 DEF Take
  <2>4. /\ x[1] = "ingest" => FirstStep(x[1]) = "parse"
        /\ x[1] = "reindex" => FirstStep(x[1]) = "embed"
        /\ x[1] = "delete" => FirstStep(x[1]) = "points"
    BY DEF FirstStep
  <2>5. CASE Exists(x[2])
    <3>1. job'[p] = x /\ pc'[p] = FirstStep(x[1]) /\ mine' \in [Processes -> Row]
      BY <1>0, <2>1, <2>2, <2>5
    <3>2. job' \in [Processes -> Jobs \union {NoJob}] /\ pc' \in [Processes -> Steps]
      BY <1>0, <2>1, <2>2, <2>4, <2>5 DEF Steps
    <3>3. TypeOK'
      BY <1>0, <2>3, <3>1, <3>2 DEF TypeOK, bounds
    <3>4. At(row', store', pc'[p], job'[p], mine'[p], plan'[p])
      <4>1. Here(row', x[2])
        BY <2>3, <2>5 DEF Here, Exists
      <4>2. /\ x[1] \in {"ingest", "reindex"} => x \in {"ingest", "reindex"} \X Versions
            /\ x[1] = "delete" => x \in {"delete"} \X Versions
        BY <2>2
      <4> QED
        BY <2>2, <2>4, <3>1, <4>1, <4>2 DEF At, Ingesting, Deleting, Carried
    <3> QED
      BY <1>0, <2>3, <3>3, <3>4, AtOnly
  <2>6. CASE ~Exists(x[2])
    <3>1. TypeOK'
      BY <1>0, <2>1, <2>3, <2>6 DEF TypeOK, bounds
    <3>2. pc'[p] = "idle"
      BY <2>1, <2>3, <2>6
    <3> QED
      BY <1>0, <2>3, <3>1, <3>2, AtIdle, AtOnly
  <2> QED
    BY <2>5, <2>6
<1>2. ASSUME NEW v \in Versions, Approve(p, v) PROVE Safe'
  <2>1. PICK a \in BOOLEAN : row' = [row EXCEPT ![v].approved = a]
    BY <1>2 DEF Approve
  <2>2. /\ mine' = [mine EXCEPT ![p] = row'[v]] /\ job' = [job EXCEPT ![p] = <<"approve", v>>]
        /\ pc' = [pc EXCEPT ![p] = "promote"] /\ Exists(v)
        /\ requests < MaxRequests /\ requests' = requests + 1
        /\ UNCHANGED <<store, owed, plan, errors, cuts>>
    BY <1>2 DEF Approve, Goto
  <2>3. /\ row' \in [Versions -> Row] /\ row'[v].status = row[v].status
        /\ row'[v].current = row[v].current /\ row'[v].vectors = row[v].vectors
        /\ \A u \in Versions : u # v => row'[u] = row[u]
    BY <1>0, <2>1 DEF Row
  <2>4. requests' \in 0..MaxRequests
    BY <1>0, <2>2, BoundAssumption
  <2>5. job'[p] = <<"approve", v>> /\ <<"approve", v>> \in Jobs
    BY <1>0, <2>2 DEF Jobs
  <2>6. TypeOK'
    BY <1>0, <2>2, <2>3, <2>4, <2>5 DEF TypeOK, Steps
  <2>7. NoTrace(row', store')
    BY <1>0, <2>2, <2>3 DEF NoTrace, Here
  <2>8. At(row', store', pc'[p], job'[p], mine'[p], plan'[p])
    BY <1>0, <2>2, <2>3, <2>5 DEF At, Ingesting, Deleting, Carried, Agrees
  <2> QED
    BY <2>6, <2>7, <2>8, AtOnly
<1> QED
  BY <1>1, <1>2

\* Every step keeps it.
LEMMA SafeNext ==
  ASSUME OneProcess, Safe, [Next]_vars
  PROVE  Safe'
<1>1. PICK p : Processes = {p}
  BY DEF OneProcess
<1>2. CASE UNCHANGED vars
  BY <1>2 DEF vars, bounds, Safe, TypeOK, NoTrace
<1>3. CASE Next
  <2>1. \A q \in Processes : q = p
    BY <1>1
  <2> QED
    BY <1>1, <1>3, <2>1, SafeApi, SafeStart, SafeIngest, SafeDelete, SafePromote, SafeFailure
       DEF Next, Task
<1> QED
  BY <1>2, <1>3

\* A document that was deleted is not served: run_delete removes the points first, and no
\* other work puts them back when nothing overlaps.
THEOREM DeletedNotServedAlways == OneProcess => (Spec => []DeletedNotServed)
<1> SUFFICES ASSUME OneProcess PROVE Spec => []DeletedNotServed
  OBVIOUS
<1>1. Safe => DeletedNotServed
  BY DEF Safe, NoTrace, Here, DeletedNotServed
<1>2. Safe /\ [Next]_vars => Safe'
  BY SafeNext
<1> QED
  BY <1>1, <1>2, SafeInit, PTL DEF Spec

-----------------------------------------------------------------------------
\* As long as a message about a document that is there is owed, or a document is not
\* indexed, nothing has to be decided.
LEMMA NotCalm ==
  ASSUME NEW rows, NEW st, NEW ow, NEW c, NEW d,
         \/ \E x \in ow : Here(rows, x[2])
         \/ \E v \in Versions : Here(rows, v) /\ v \notin IndexedIn(rows)
         \/ IndexedIn(rows) = {}
         \/ c \notin Carried \union {"idle"}
  PROVE  Decided(rows, st, ow, c, d)
BY DEF Decided, Calm, Carried

\* The API.
LEMMA ConvergesApi ==
  ASSUME Safe, Converges, NEW v \in Versions,
         Upload(v) \/ RequestDelete(v) \/ RequestReindex(v)
  PROVE  Converges'
<1>0. row \in [Versions -> Row] /\ UNCHANGED <<store, pc, job, plan>>
  BY DEF Safe, TypeOK, Upload, RequestDelete, RequestReindex
<1>1. Here(row', v) /\ owed \subseteq owed' /\ \E x \in owed' : Here(row', x[2])
  <2>1. PICK kind \in {"ingest", "reindex", "delete"} : <<kind, v>> \in owed'
    BY DEF Upload, RequestDelete, RequestReindex
  <2>2. Here(row', v)
    BY <1>0 DEF Upload, RequestDelete, RequestReindex, Exists, Here, Row
  <2>3. <<kind, v>>[2] = v
    OBVIOUS
  <2> QED
    BY <2>1, <2>2, <2>3 DEF Upload, RequestDelete, RequestReindex
<1>2. \A u \in IndexedIn(row') : u \in IndexedIn(row) /\ row'[u] = row[u]
  BY <1>0, StatusSet DEF Upload, RequestDelete, RequestReindex, IndexedIn, Row
<1>3. ASSUME NEW p \in Processes
      PROVE  /\ Backed(row', store', owed', pc'[p], job'[p], plan'[p])
             /\ Decided(row', store', owed', pc'[p], plan'[p])
  <2>1. Backed(row', store', owed', pc'[p], job'[p], plan'[p])
    BY <1>0, <1>1, <1>2 DEF Converges, Backed
  <2> QED
    BY <1>1, <2>1, NotCalm
<1> QED
  BY <1>3 DEF Converges

\* The start of a task, or of an approval.
LEMMA ConvergesStart ==
  ASSUME Safe, Converges, NEW p, Processes = {p}, Take(p) \/ \E v \in Versions : Approve(p, v)
  PROVE  Converges'
<1>0. /\ row \in [Versions -> Row] /\ p \in Processes /\ owed \subseteq Messages
      /\ pc \in [Processes -> Steps] /\ job \in [Processes -> Jobs \union {NoJob}]
      /\ Backed(row, store, owed, pc[p], job[p], plan[p])
      /\ Decided(row, store, owed, pc[p], plan[p])
  BY DEF Safe, TypeOK, Converges
<1>1. CASE Take(p)
  <2>1. PICK x \in owed :
          /\ owed' = owed \ {x}
          /\ IF Exists(x[2])
             THEN /\ job' = [job EXCEPT ![p] = x]
                  /\ mine' = IF x[1] = "ingest" THEN [mine EXCEPT ![p] = row[x[2]]] ELSE mine
                  /\ pc' = [pc EXCEPT ![p] = FirstStep(x[1])]
             ELSE UNCHANGED <<job, mine, pc>>
    BY <1>1 DEF Take, Goto
  <2>2. x[2] \in Versions /\ x[1] \in {"ingest", "reindex", "delete"} /\ x = <<x[1], x[2]>>
    BY <1>0, <2>1 DEF Messages
  <2>3. UNCHANGED <<row, store, plan>> /\ pc[p] = "idle"
    BY <1>1 DEF Take
  <2>4. /\ x[1] \in {"ingest", "reindex"} => FirstStep(x[1]) \in Ingesting
        /\ x[1] = "delete" => FirstStep(x[1]) \in Deleting
    BY DEF FirstStep, Ingesting, Deleting
  <2>5. CASE Exists(x[2])
    <3>1. job'[p] = x /\ pc'[p] = FirstStep(x[1])
      BY <1>0, <2>1, <2>5
    <3>2. pc'[p] \notin Carried \union {"idle"}
      BY <2>2, <2>4, <3>1 DEF Ingesting, Deleting, Carried
    <3>3. \A u : <<"delete", u>> \in owed /\ <<"delete", u>> \notin owed' =>
                    pc'[p] \in Deleting /\ u = job'[p][2]
      <4> SUFFICES ASSUME NEW u, x = <<"delete", u>> PROVE pc'[p] \in Deleting /\ u = job'[p][2]
        BY <2>1
      <4>1. x[1] = "delete" /\ x[2] = u
        OBVIOUS
      <4> QED
        BY <2>4, <3>1, <4>1
    <3>4. Backed(row', store', owed', pc'[p], job'[p], plan'[p])
      BY <1>0, <2>3, <3>3 DEF Backed, Deleting
    <3> QED
      BY <3>2, <3>4, NotCalm DEF Converges
  <2>6. CASE ~Exists(x[2])
    <3>1. UNCHANGED <<row, store, plan, pc, job>> /\ ~Here(row, x[2])
      BY <2>1, <2>3, <2>6 DEF Exists, Here
    <3>2. Calm(row', owed') => Calm(row, owed)
      BY <2>1, <3>1 DEF Calm
    <3>3. Backed(row', store', owed', pc'[p], job'[p], plan'[p])
      <4>1. ASSUME NEW u \in IndexedIn(row), <<"delete", u>> \in owed PROVE <<"delete", u>> \in owed'
        <5>1. Here(row, u)
          BY DEF IndexedIn, Here
        <5>2. <<"delete", u>> # x
          BY <3>1, <5>1
        <5> QED
          BY <2>1, <4>1, <5>2
      <4> QED
        BY <1>0, <3>1, <4>1 DEF Backed
    <3>4. Decided(row', store', owed', pc'[p], plan'[p])
      BY <1>0, <3>1, <3>2 DEF Decided
    <3> QED
      BY <3>3, <3>4 DEF Converges
  <2> QED
    BY <2>5, <2>6
<1>2. ASSUME NEW v \in Versions, Approve(p, v) PROVE Converges'
  <2>1. /\ pc[p] = "idle" /\ pc'[p] = "promote" /\ UNCHANGED <<store, owed, plan>>
    BY <1>0, <1>2 DEF Approve, Goto
  <2>2. \A u \in Versions : row'[u].status = row[u].status /\ row'[u].vectors = row[u].vectors
    BY <1>0, <1>2 DEF Approve, Row
  <2>3. Backed(row', store', owed', pc'[p], job'[p], plan'[p])
    BY <1>0, <2>1, <2>2 DEF Backed, Deleting, IndexedIn
  <2>4. Decided(row', store', owed', pc'[p], plan'[p])
    BY <2>1, NotCalm DEF Carried
  <2> QED
    BY <2>3, <2>4 DEF Converges
<1> QED
  BY <1>1, <1>2

\* The steps of an ingestion, of a re-indexing and of a deletion.
LEMMA ConvergesWork ==
  ASSUME Safe, Converges, NEW p, Processes = {p},
         \/ Vanished(p) \/ Parse(p) \/ EmbedStart(p) \/ Upsert(p) \/ Reread(p) \/ MarkIndexed(p)
         \/ DeletePoints(p) \/ EraseRow(p)
  PROVE  Converges'
<1> DEFINE v == Doc(p)
<1>0. /\ At(row, store, pc[p], job[p], mine[p], plan[p])
      /\ Backed(row, store, owed, pc[p], job[p], plan[p])
      /\ row \in [Versions -> Row] /\ p \in Processes /\ mine[p] \in Row
      /\ store \in [Versions -> {"none", "hidden", "visible"}]
      /\ pc \in [Processes -> Steps]
  BY DEF Safe, TypeOK, Converges
<1>1. /\ v = job[p][2] /\ v \in Versions /\ Here(row, v) /\ ~Vanished(p)
  BY <1>0, OperatorsAre DEF Vanished, Parse, EmbedStart, Upsert, Reread, MarkIndexed,
              DeletePoints, EraseRow, At, Ingesting, Deleting, Doc
<1>2. /\ UNCHANGED <<owed, job, plan>>
      /\ pc'[p] \in {"embed", "upsert", "reread", "mark", "promote", "erase"}
  BY <1>0, <1>1, OperatorsAre DEF Parse, EmbedStart, Upsert, Reread, MarkIndexed, DeletePoints,
                                  EraseRow, Goto
<1>3. ASSUME NEW u \in IndexedIn(row')
      PROVE  \/ /\ u \in IndexedIn(row) /\ row'[u].vectors = row[u].vectors
                /\ store'[u] = store[u] /\ ~(pc[p] \in Deleting /\ u = v)
             \/ row'[u].vectors <=> store'[u] # "none"
             \/ pc'[p] \in Deleting /\ u = v
  <2>0. u \in Versions /\ row'[u].status = "indexed"
    BY <1>3 DEF IndexedIn
  <2>1. CASE Parse(p) \/ EmbedStart(p)
    <3>1. pc[p] \in Ingesting /\ store' = store
      BY <2>1 DEF Parse, EmbedStart, Ingesting
    <3>2. row'[u].vectors = row[u].vectors /\ row[u].status = "indexed"
      BY <1>0, <1>1, <2>0, <2>1 DEF Parse, EmbedStart, Row, Written
    <3> QED
      BY <2>0, <3>1, <3>2 DEF IndexedIn, Ingesting, Deleting
  <2>2. CASE Upsert(p)
    <3>1. row' = row /\ pc[p] = "upsert" /\ u # v /\ store'[u] = store[u]
      BY <1>0, <1>1, <2>0, <2>2 DEF Upsert, At
    <3> QED
      BY <2>0, <3>1 DEF IndexedIn, Deleting
  <2>3. CASE Reread(p)
    BY <1>1, <2>0, <2>3, OperatorsAre DEF Reread, IndexedIn, Deleting
  <2>4. CASE MarkIndexed(p)
    <3>1. pc[p] = "mark" /\ store' = store /\ store[v] # "none" /\ Agrees(row[v], mine[p])
      BY <1>0, <1>1, <2>4 DEF MarkIndexed, At
    <3>2. CASE u = v
      <4>1. row'[v].vectors = TRUE
        BY <1>0, <1>1, <2>4, <3>1 DEF MarkIndexed, Row, Written, Agrees
      <4> QED
        BY <3>1, <3>2, <4>1
    <3>3. CASE u # v
      <4>1. row'[u] = row[u]
        BY <1>0, <2>0, <2>4, <3>3 DEF MarkIndexed
      <4> QED
        BY <2>0, <3>1, <3>3, <4>1 DEF IndexedIn
    <3> QED
      BY <3>2, <3>3
  <2>5. CASE DeletePoints(p)
    <3>1. pc'[p] = "erase" /\ row' = row /\ u # v => store'[u] = store[u]
      BY <1>0, <2>0, <2>5 DEF DeletePoints, Goto
    <3> QED
      BY <1>0, <2>0, <2>5, <3>1 DEF IndexedIn, Deleting, DeletePoints, Goto
  <2>6. CASE EraseRow(p)
    <3>1. u # v /\ row'[u] = row[u] /\ store' = store
      BY <1>0, <1>1, <2>0, <2>6 DEF EraseRow, NoRow
    <3> QED
      BY <2>0, <3>1 DEF IndexedIn
  <2> QED
    BY <1>1, <2>1, <2>2, <2>3, <2>4, <2>5, <2>6
<1>4. pc[p] # "clear"
  BY <1>1 DEF Vanished, Parse, EmbedStart, Upsert, Reread, MarkIndexed, DeletePoints, EraseRow
<1>5. Backed(row', store', owed', pc'[p], job'[p], plan'[p])
  BY <1>0, <1>1, <1>2, <1>3, <1>4 DEF Backed
<1>6. Decided(row', store', owed', pc'[p], plan'[p])
  BY <1>2, NotCalm DEF Carried
<1> QED
  BY <1>5, <1>6 DEF Converges

\* A failure leaves the message, or a document that is not indexed.
LEMMA ConvergesFailure ==
  ASSUME Safe, Converges, NEW p, Processes = {p}, MaxCuts = 0, StageRaises(p) \/ PromotionCut(p)
  PROVE  Converges'
<1> DEFINE v == Doc(p)
<1>0. /\ At(row, store, pc[p], job[p], mine[p], plan[p]) /\ cuts \in 0..MaxCuts
      /\ Backed(row, store, owed, pc[p], job[p], plan[p])
      /\ row \in [Versions -> Row] /\ p \in Processes
      /\ pc \in [Processes -> Steps]
  BY DEF Safe, TypeOK, Converges
<1>1. StageRaises(p)
  BY <1>0 DEF PromotionCut
<1>2. /\ GiveBack(p) /\ store' = store /\ pc'[p] = "idle"
      /\ pc[p] \in Ingesting \union Deleting
  BY <1>0, <1>1 DEF StageRaises, End, Goto, Promoting, Steps, Ingesting, Deleting
<1>3. /\ v = job[p][2] /\ v \in Versions /\ Here(row, v) /\ job[p] \in Messages
      /\ pc[p] \in Deleting => job[p] = <<"delete", v>>
  BY <1>0, <1>2 DEF At, Doc, Messages, Ingesting, Deleting
<1>4. CASE owed' = owed \union {job[p]} /\ row' = row
  <2>1. Backed(row', store', owed', pc'[p], job'[p], plan'[p])
    BY <1>0, <1>2, <1>3, <1>4 DEF Backed, Ingesting, Deleting
  <2>2. Decided(row', store', owed', pc'[p], plan'[p])
    <3>1. job[p] \in owed' /\ Here(row', job[p][2])
      BY <1>3, <1>4
    <3> QED
      BY <3>1, NotCalm
  <2> QED
    BY <2>1, <2>2 DEF Converges
<1>5. CASE row' = [row EXCEPT ![v].status = "failed"] /\ owed' = owed
  <2>1. row'[v].status = "failed" /\ \A u \in Versions : u # v => row'[u] = row[u]
    BY <1>0, <1>3, <1>5 DEF Row
  <2>2. Backed(row', store', owed', pc'[p], job'[p], plan'[p])
    BY <1>0, <1>2, <1>3, <1>5, <2>1 DEF Backed, Ingesting, Deleting, IndexedIn
  <2>3. Decided(row', store', owed', pc'[p], plan'[p])
    <3>1. Here(row', v) /\ v \notin IndexedIn(row')
      BY <2>1 DEF Here, IndexedIn
    <3> QED
      BY <1>3, <3>1, NotCalm
  <2> QED
    BY <2>2, <2>3 DEF Converges
<1> QED
  BY <1>2, <1>3, <1>4, <1>5, OperatorsAre DEF GiveBack

\* What the operators depend on.
LEMMA SameTop ==
  ASSUME NEW rows, NEW more, NEW ow,
         \A v \in Versions : more[v].status = rows[v].status /\ more[v].approved = rows[v].approved
  PROVE  /\ IndexedIn(more) = IndexedIn(rows) /\ TopOf(more) = TopOf(rows)
         /\ ow \subseteq Messages => (Calm(more, ow) <=> Calm(rows, ow))
<1>1. IndexedIn(more) = IndexedIn(rows)
  BY DEF IndexedIn
<1>2. {v \in IndexedIn(more) : more[v].approved} = {v \in IndexedIn(rows) : rows[v].approved}
  BY <1>1 DEF IndexedIn
<1>3. ASSUME ow \subseteq Messages PROVE Calm(more, ow) <=> Calm(rows, ow)
  <2>1. \A x \in ow : x[2] \in Versions
    BY <1>3 DEF Messages
  <2> QED
    BY <1>1, <2>1 DEF Calm, Here
<1> QED
  BY <1>1, <1>2, <1>3 DEF TopOf

\* The effective version is indexed, and no deletion of it is owed when all is calm.
LEMMA CalmTop ==
  ASSUME NEW rows, NEW ow, Calm(rows, ow)
  PROVE  /\ TopOf(rows) \in IndexedIn(rows) /\ TopOf(rows) \in Versions
         /\ \A v \in IndexedIn(rows) : <<"delete", v>> \notin ow
<1>1. IndexedIn(rows) \in SUBSET Versions /\ IndexedIn(rows) # {}
      /\ {v \in IndexedIn(rows) : rows[v].approved} \in SUBSET IndexedIn(rows)
  BY DEF Calm, IndexedIn
<1>2. TopOf(rows) \in IndexedIn(rows)
  BY <1>1, TopIn DEF TopOf
<1>3. ASSUME NEW v \in IndexedIn(rows), <<"delete", v>> \in ow PROVE FALSE
  <2>1. <<"delete", v>>[2] = v /\ Here(rows, v)
    BY DEF IndexedIn, Here
  <2> QED
    BY <1>3, <2>1 DEF Calm
<1> QED
  BY <1>1, <1>2, <1>3

\* A promotion.
LEMMA ConvergesPromote ==
  ASSUME Safe, Converges, NEW p, Processes = {p}, Promote(p)
  PROVE  Converges'
<1> DEFINE d == plan[p]
           top == TopOf(row)
<1>0. /\ At(row, store, pc[p], job[p], mine[p], d) /\ NoTrace(row, store)
      /\ Backed(row, store, owed, pc[p], job[p], d) /\ Decided(row, store, owed, pc[p], d)
      /\ row \in [Versions -> Row] /\ p \in Processes /\ owed \subseteq Messages
      /\ store \in [Versions -> {"none", "hidden", "visible"}]
      /\ pc \in [Processes -> Steps] /\ plan \in [Processes -> Plans] /\ d \in Plans
  BY DEF Safe, TypeOK, Converges
<1>a. d.demoted \subseteq Versions
  BY <1>0 DEF Plans
<1>b. SUFFICES /\ Backed(row', store', owed', pc'[p], job'[p], plan'[p])
               /\ Decided(row', store', owed', pc'[p], plan'[p])
  BY DEF Converges
<1>1. CASE NothingIndexed(p)
  <2>1. IndexedIn(row') = {}
    BY <1>1, OperatorsAre DEF NothingIndexed
  <2> QED
    BY <2>1, NotCalm DEF Backed
<1>2. CASE NeedsReindex(p)
  <2>1. pc[p] = "promote" /\ pc'[p] = "enqueue" /\ UNCHANGED <<row, store, owed, job>>
    BY <1>0, <1>2 DEF NeedsReindex, Goto
  <2>2. Backed(row', store', owed', pc'[p], job'[p], plan'[p])
    BY <1>0, <2>1 DEF Backed, Deleting
  <2> QED
    BY <2>1, <2>2, NotCalm DEF Carried
<1>3. CASE Converge(p)
  <2> DEFINE w == Winner(p)
  <2>1. /\ row' = [v \in Versions |->
                     IF v \in Indexed THEN [row[v] EXCEPT !.current = (v = w)] ELSE row[v]]
        /\ plan'[p] = [winner |-> w, demoted |-> {v \in Indexed \ {w} : row[v].vectors}]
        /\ row[w].vectors
    BY <1>0, <1>3, FlagsAre
  <2>2. /\ pc[p] = "promote" /\ pc'[p] = "flip" /\ UNCHANGED <<store, owed, job>>
        /\ w = top /\ w \in Indexed
    BY <1>0, <1>3, SeenIs DEF Converge, Goto
  <2> HIDE DEF w
  <2>3. \A v \in Versions : /\ row'[v].status = row[v].status
                            /\ row'[v].approved = row[v].approved
                            /\ row'[v].vectors = row[v].vectors
                            /\ v \in Indexed => row'[v].current = (v = w)
    BY <1>0, <2>1 DEF Row
  <2>4. TopOf(row') = w /\ IndexedIn(row') = Indexed
    BY <2>2, <2>3, SameTop, OperatorsAre
  <2>5. Indexed \subseteq Versions
    BY DEF Indexed
  <2>6. Planned(row', plan'[p])
    <3>1. {v \in Indexed \ {w} : row[v].vectors} = {v \in Indexed : v # w /\ row'[v].vectors}
      BY <2>3, <2>5
    <3>2. plan'[p].winner = w /\ plan'[p].demoted = {v \in Indexed : v # w /\ row'[v].vectors}
      BY <2>1, <3>1
    <3>3. row'[w].vectors /\ \A v \in Indexed : row'[v].current <=> v = w
      BY <2>1, <2>2, <2>3, <2>5
    <3> QED
      BY <2>4, <3>2, <3>3 DEF Planned
  <2>7. Backed(row', store', owed', pc'[p], job'[p], plan'[p])
    BY <1>0, <2>2, <2>3, <2>4, <2>5, OperatorsAre DEF Backed, Deleting
  <2> QED
    BY <2>2, <2>6, <2>7 DEF Decided
<1>4. CASE Flip(p)
  <2>1. /\ store' = [store EXCEPT ![d.winner] =
                       IF store[d.winner] = "none" THEN "none" ELSE "visible"]
        /\ pc[p] = "flip" /\ pc'[p] = "drop" /\ UNCHANGED <<row, owed, job, plan>>
        /\ d.winner \in Versions
    BY <1>0, <1>4 DEF Flip, Goto, At, Carried
  <2>2. Backed(row', store', owed', pc'[p], job'[p], plan'[p])
    <3>1. \A v \in Versions : (store'[v] # "none") <=> (store[v] # "none")
      BY <1>0, <2>1
    <3> QED
      BY <1>0, <2>1, <3>1 DEF Backed, Deleting, IndexedIn
  <2>3. ASSUME Calm(row, owed)
        PROVE  Planned(row, d) /\ store'[top] = "visible"
    <3>1. Planned(row, d)
      BY <1>0, <2>1, <2>3 DEF Decided, Carried
    <3>2. top \in IndexedIn(row) /\ top \in Versions /\ <<"delete", top>> \notin owed
      BY <2>3, CalmTop
    <3>3. store[top] # "none"
      BY <1>0, <2>1, <3>1, <3>2 DEF Backed, Deleting, Planned
    <3> QED
      BY <1>0, <2>1, <3>1, <3>2, <3>3 DEF Planned
  <2> QED
    BY <2>1, <2>2, <2>3 DEF Decided
<1>5. CASE DropDemoted(p)
  <2>1. /\ store' = [v \in Versions |-> IF v \in d.demoted THEN "none" ELSE store[v]]
        /\ pc[p] = "drop" /\ pc'[p] = "clear" /\ UNCHANGED <<row, owed, job, plan>>
    BY <1>0, <1>5 DEF DropDemoted, Goto
  <2>2. Backed(row', store', owed', pc'[p], job'[p], plan'[p])
    BY <1>0, <2>1 DEF Backed, Deleting, IndexedIn
  <2>3. ASSUME Calm(row, owed)
        PROVE  Planned(row, d) /\ store'[top] = "visible"
    <3>1. Planned(row, d) /\ store[top] = "visible"
      BY <1>0, <2>1, <2>3 DEF Decided, Carried
    <3>2. top \in Versions
      BY <2>3, CalmTop
    <3> QED
      BY <2>1, <3>1, <3>2 DEF Planned
  <2> QED
    BY <2>1, <2>2, <2>3 DEF Decided
<1>6. CASE ClearVectors(p)
  <2>1. /\ pc[p] = "clear" /\ pc'[p] = "idle" /\ UNCHANGED <<store, owed>>
        /\ \A v \in d.demoted : Here(row, v) /\ store[v] = "none"
    BY <1>0, <1>6 DEF ClearVectors, End, Goto, bounds, At, Carried
  <2>2. row' = [v \in Versions |-> IF v \in d.demoted THEN [row[v] EXCEPT !.vectors = FALSE]
                                   ELSE row[v]]
    BY <1>6, <2>1, OperatorsAre DEF ClearVectors
  <2>3. \A v \in Versions : /\ row'[v].status = row[v].status
                            /\ row'[v].approved = row[v].approved
                            /\ row'[v].current = row[v].current
                            /\ row'[v].vectors = (v \notin d.demoted /\ row[v].vectors)
    BY <1>0, <2>2 DEF Row
  <2>4. /\ IndexedIn(row') = IndexedIn(row) /\ TopOf(row') = top
        /\ Calm(row', owed) <=> Calm(row, owed)
    BY <1>0, <2>3, SameTop
  <2>5. Backed(row', store', owed', pc'[p], job'[p], plan'[p])
    BY <1>0, <2>1, <2>3, <2>4 DEF Backed, Deleting, IndexedIn
  <2>6. ASSUME Calm(row, owed) PROVE Convergent(row', store')
    <3>1. Planned(row, d) /\ store[top] = "visible"
      BY <1>0, <2>1, <2>6 DEF Decided, Carried
    <3>2. /\ top \in IndexedIn(row) /\ top \in Versions
          /\ \A v \in IndexedIn(row) : <<"delete", v>> \notin owed
      BY <2>6, CalmTop
    <3>3. ASSUME NEW v \in Versions, v \in IndexedIn(row)
          PROVE  /\ row'[v].current <=> v = top
                 /\ store'[v] = "visible" <=> v = top
                 /\ row'[v].vectors <=> store'[v] # "none"
      <4>1. v \in d.demoted \/ (row[v].vectors <=> store[v] # "none")
        BY <1>0, <2>1, <3>2, <3>3 DEF Backed, Deleting
      <4> QED
        BY <2>1, <2>3, <3>1, <3>3, <4>1 DEF Planned
    <3>4. ASSUME NEW v \in Versions, v \notin IndexedIn(row)
          PROVE  ~row'[v].current /\ ~row'[v].vectors /\ store'[v] = "none" /\ v # top
      BY <1>0, <2>1, <2>3, <2>6, <3>2, <3>4 DEF Calm, NoTrace
    <3> QED
      BY <2>4, <3>3, <3>4 DEF Convergent
  <2> QED
    BY <2>1, <2>4, <2>5, <2>6 DEF Decided, Carried
<1>7. CASE Enqueue(p)
  <2>1. /\ pc[p] = "enqueue" /\ <<"reindex", d.winner>> \in owed' /\ owed \subseteq owed'
        /\ Here(row, d.winner) /\ UNCHANGED <<row, store>>
    BY <1>0, <1>7 DEF Enqueue, At, bounds
  <2>2. <<"reindex", d.winner>>[2] = d.winner
    OBVIOUS
  <2>3. Backed(row', store', owed', pc'[p], job'[p], plan'[p])
    BY <1>0, <2>1 DEF Backed, Deleting, IndexedIn
  <2> QED
    BY <2>1, <2>2, <2>3, NotCalm
<1> QED
  BY <1>1, <1>2, <1>3, <1>4, <1>5, <1>6, <1>7 DEF Promote

\* Nothing is indexed at the start.
LEMMA ConvergesInit == Init => Converges
<1> SUFFICES ASSUME Init PROVE Converges
  OBVIOUS
<1>1. IndexedIn(row) = {}
  BY DEF Init, IndexedIn, NoRow
<1> QED
  BY <1>1, NotCalm DEF Converges, Backed

\* Every step keeps it, if no promotion is cut.
LEMMA ConvergesNext ==
  ASSUME OneProcess, MaxCuts = 0, Safe, Converges, [Next]_vars
  PROVE  Converges'
<1>1. PICK p : Processes = {p}
  BY DEF OneProcess
<1>2. CASE UNCHANGED vars
  BY <1>2 DEF vars, Converges
<1>3. CASE Next
  <2>1. \A q \in Processes : q = p
    BY <1>1
  <2> QED
    BY <1>1, <1>3, <2>1, ConvergesApi, ConvergesStart, ConvergesWork, ConvergesPromote,
       ConvergesFailure DEF Next, Task
<1> QED
  BY <1>2, <1>3

\* promote_lineage converges: when nothing is owed and every document that is there is
\* indexed, the effective version and no other is current and served, and the rows claim
\* the points that are there; through stages that raise, retries and exhausted retries,
\* as long as nothing overlaps and no promotion is cut between its commits.
THEOREM ConvergedAtRestAlways ==
  OneProcess /\ MaxCuts = 0 => (Spec => []ConvergedAtRest)
<1> SUFFICES ASSUME OneProcess, MaxCuts = 0 PROVE Spec => []ConvergedAtRest
  OBVIOUS
<1>1. Safe /\ Converges => ConvergedAtRest
  <2> SUFFICES ASSUME Safe, Converges, AtRest, Indexed # {},
                      \A v \in Versions : Exists(v) => v \in Indexed
               PROVE  Convergent(row, store)
    BY OperatorsAre DEF ConvergedAtRest, Convergent
  <2>1. PICK p : Processes = {p}
    BY DEF OneProcess
  <2>2. pc[p] = "idle" /\ Decided(row, store, owed, pc[p], plan[p]) /\ Calm(row, owed)
    BY <2>1, OperatorsAre DEF AtRest, Converges, Calm
  <2> QED
    BY <2>2 DEF Decided
<1>2. Safe /\ Converges /\ [Next]_vars => (Safe /\ Converges)'
  BY SafeNext, ConvergesNext
<1>3. Init => Safe /\ Converges
  BY SafeInit, ConvergesInit
<1> QED
  BY <1>1, <1>2, <1>3, PTL DEF Spec

-----------------------------------------------------------------------------
(* Uploads *)

CONSTANTS Uploaders, Spots, Contents, Weights, FileCap, RowCap, ByteCap, Pieces, Serials, MaxFalls

VARIABLES entry, object, upload, stage, wipe, fell, mixed, crowded, orphans

Uploading == INSTANCE Uploads
    WITH Requests <- Uploaders, Places <- Spots, Size <- Weights, MaxFile <- FileCap,
         MaxRows <- RowCap, MaxBytes <- ByteCap, Artifacts <- Pieces, Ids <- Serials,
         MaxDeaths <- MaxFalls, row <- entry, deaths <- fell, stirred <- mixed

\* Ids are drawn in order, and the artifacts of a document have names of their own.
UploadBounds ==
    /\ \E n \in Nat : Serials = 1..n
    /\ IsFiniteSet(Uploaders) /\ Spots # {} /\ Contents # {}
    /\ Weights \in [Contents -> Nat] /\ RowCap \in Nat /\ ByteCap \in Nat /\ MaxFalls \in Nat
    /\ \E S : Pieces \in Seq(S)
    /\ \A i, j \in 1..Len(Pieces) : Pieces[i] # "original" /\ (Pieces[i] = Pieces[j] => i = j)

Numbered == Serials \union {0}
EntryRow ==
    [state : {"unborn", "inserted", "committed", "gone"}, content : Contents, place : Spots,
     pred : Numbered, version : Nat, lineage : Numbered]
UploadTask ==
    [pc : {"idle", "duplicate", "predecessor", "insert", "store", "commit"}, content : Contents,
     place : Spots, pred : Numbered, id : Numbered]
Flushed == {"store", "commit"}
Pending == {"insert"} \union Flushed

\* Rows are drawn in order, a version is at most the number of its row, and a request that
\* has inserted one has it for itself.
EntryInv ==
    /\ entry \in [Serials -> EntryRow] /\ upload \in [Uploaders -> UploadTask]
    /\ \A d \in Serials : entry[d].version <= d
    /\ \A d, e \in Serials : entry[d].state = "unborn" /\ entry[e].state # "unborn" => e < d
    /\ \A r \in Uploaders : upload[r].pc \in Flushed =>
          /\ upload[r].id \in Serials /\ entry[upload[r].id].state = "inserted"
          /\ entry[upload[r].id].content = upload[r].content
          /\ entry[upload[r].id].place = upload[r].place
    /\ \A q, r \in Uploaders :
          upload[q].pc \in Flushed /\ upload[r].pc \in Flushed /\ upload[q].id = upload[r].id
          => q = r

\* Ids are numbers.
LEMMA SerialNat == ASSUME UploadBounds PROVE Serials \subseteq Nat \ {0}
BY DEF UploadBounds

\* A set of numbers that is not empty has a least one.
LEMMA LeastNat ==
    ASSUME NEW T, T \subseteq Nat, T # {}
    PROVE  \E n \in T : \A m \in T : n <= m
<1> DEFINE R == {ss \in Nat \X Nat : ss[1] < ss[2]}
<1>1. IsWellFoundedOn(R, Nat)
  BY NatLessThanWellFounded, Zenon DEF OpToRel
<1>2. PICK n \in T : \A m \in T : ~ (<<m, n>> \in R)
  <2> HIDE DEF R
  <2> QED BY <1>1, WFMin, Zenon
<1>3. ASSUME NEW m \in T PROVE n <= m
  <2>1. m \in Nat /\ n \in Nat
    OBVIOUS
  <2>2. <<m, n>>[1] = m /\ <<m, n>>[2] = n /\ <<m, n>> \in Nat \X Nat
    BY <2>1
  <2>3. ~(<<m, n>>[1] < <<m, n>>[2])
    BY <1>2, <2>2, Zenon
  <2>4. QED
    BY <2>1, <2>2, <2>3
<1>4. QED
  BY <1>3

\* The first number that is unused is the least of them.
LEMMA FirstUnused ==
  ASSUME UploadBounds, NEW S, S \subseteq Serials, S # {}
  PROVE  Uploading!Min(S) \in S /\ \A e \in S : Uploading!Min(S) <= e
<1>1. S \subseteq Nat
  BY DEF UploadBounds
<1>2. \E n \in S : \A m \in S : n <= m
  BY <1>1, LeastNat
<1> QED
  BY <1>2 DEF Uploading!Min

\* A request goes on.
LEMMA UploadStep ==
  ASSUME EntryInv, NEW r \in Uploaders, NEW u, u \in UploadTask,
         upload' = [upload EXCEPT ![r] = u]
  PROVE  /\ upload' \in [Uploaders -> UploadTask] /\ upload'[r] = u
         /\ \A q \in Uploaders : q # r => upload'[q] = upload[q]
BY DEF EntryInv

\* A request that does nothing is a task, without a predecessor.
LEMMA IdleUpload ==
  ASSUME UploadBounds
  PROVE  /\ Uploading!Idle \in UploadTask /\ Uploading!Idle.pc = "idle"
         /\ Uploading!Idle.pred = 0
BY DEF UploadBounds, Uploading!Idle, Uploading!Somewhere, Uploading!Something, Uploading!None,
   UploadTask, Numbered

\* A row that is not there yet, and one that is gone, are rows.
LEMMA UnbornRow ==
  ASSUME UploadBounds
  PROVE  /\ Uploading!Unborn \in EntryRow /\ Uploading!Gone \in EntryRow
         /\ Uploading!Unborn.state = "unborn" /\ Uploading!Gone.state = "gone"
         /\ Uploading!Unborn.version = 0 /\ Uploading!Gone.version = 0
BY DEF UploadBounds, Uploading!Unborn, Uploading!Gone, Uploading!Somewhere, Uploading!Something,
   Uploading!None, EntryRow, Numbered

\* What the flush of a new row does.
Inserts(r, d) ==
    LET u == upload[r]
    IN /\ u.pc = "insert" /\ d \in Serials /\ entry[d].state = "unborn"
       /\ \A e \in Serials : entry[e].state = "unborn" => d <= e
       /\ \A e \in Uploading!Committed \union Uploading!Inserted : entry[e].content # u.content
       /\ u.pred = 0 \/ u.pred \in Uploading!Committed
       /\ \E t \in EntryRow :
             /\ t.state = "inserted" /\ t.content = u.content /\ t.place = u.place
             /\ t.version = (IF u.pred = 0 THEN 1 ELSE entry[u.pred].version + 1)
             /\ t.lineage = (IF u.pred = 0 THEN d ELSE entry[u.pred].lineage)
             /\ entry' = [entry EXCEPT ![d] = t]
       /\ \E t \in UploadTask :
             /\ t.pc = "store" /\ t.id = d /\ t.content = u.content /\ t.place = u.place
             /\ upload' = [upload EXCEPT ![r] = t]

\* A request is given up.
GivesUp(r) == upload' = [upload EXCEPT ![r] = Uploading!Idle]

\* The flush gives the request up, or inserts the first row that is free.
LEMMA InsertDoes ==
  ASSUME UploadBounds, EntryInv, NEW r \in Uploaders, Uploading!Insert(r)
  PROVE  /\ upload[r].pc = "insert"
         /\ \/ GivesUp(r) /\ UNCHANGED entry
            \/ \E d \in Serials : Inserts(r, d)
<1> DEFINE S == {e \in Serials : entry[e].state = "unborn"}
           d == Uploading!Min(S)
           u == upload[r]
<1>1. upload[r].pc = "insert"
  BY DEF Uploading!Insert
<1>2. CASE \/ \E e \in Uploading!Committed : entry[e].content = u.content
           \/ u.pred # Uploading!None /\ u.pred \notin Uploading!Committed
  BY <1>1, <1>2 DEF Uploading!Insert, Uploading!Step, GivesUp
<1>3. CASE ~ \/ \E e \in Uploading!Committed : entry[e].content = u.content
             \/ u.pred # Uploading!None /\ u.pred \notin Uploading!Committed
  <2>1. S # {} /\ S \subseteq Serials
    BY <1>3 DEF Uploading!Insert
  <2>2. d \in S /\ \A e \in S : d <= e
    <3> HIDE DEF S
    <3> QED
      BY <2>1, FirstUnused
  <2>3. u \in UploadTask
    BY DEF EntryInv
  <2>4. \A e \in Uploading!Committed \union Uploading!Inserted : entry[e].content # u.content
    BY <1>3 DEF Uploading!Insert
  <2>5. u.pred = 0 \/ u.pred \in Uploading!Committed
    BY <1>3 DEF Uploading!None
  <2> DEFINE t == [state |-> "inserted", content |-> u.content, place |-> u.place,
                   pred |-> u.pred, version |-> Uploading!VersionOf(u),
                   lineage |-> IF u.pred = Uploading!None THEN d ELSE entry[u.pred].lineage]
             w == [u EXCEPT !.pc = "store", !.id = d]
  <2>6. entry' = [entry EXCEPT ![d] = t]
    BY <1>3 DEF Uploading!Insert
  <2>7. upload' = [upload EXCEPT ![r] = w]
    BY <1>3 DEF Uploading!Insert
  <2>8. /\ t.version = (IF u.pred = 0 THEN 1 ELSE entry[u.pred].version + 1)
        /\ t.lineage = (IF u.pred = 0 THEN d ELSE entry[u.pred].lineage)
    BY DEF Uploading!VersionOf, Uploading!None
  <2>9. u.pred # 0 => entry[u.pred] \in EntryRow
    BY <2>5 DEF EntryInv, Uploading!Committed
  <2>10. t \in EntryRow
    <3>1. (IF u.pred = 0 THEN 1 ELSE entry[u.pred].version + 1) \in Nat
      BY <2>9 DEF EntryRow
    <3>2. (IF u.pred = 0 THEN d ELSE entry[u.pred].lineage) \in Numbered
      BY <2>2, <2>9 DEF EntryRow, Numbered
    <3>3. u.content \in Contents /\ u.place \in Spots /\ u.pred \in Numbered
      BY <2>3 DEF UploadTask
    <3> QED
      BY <2>8, <3>1, <3>2, <3>3 DEF EntryRow
  <2>11. w \in UploadTask /\ w.pc = "store" /\ w.id = d /\ w.content = u.content /\ w.place = u.place
    BY <2>2, <2>3 DEF UploadTask, Numbered
  <2> HIDE DEF t, w, d
  <2>12. t.state = "inserted" /\ t.content = u.content /\ t.place = u.place
    BY DEF t
  <2> QED
    BY <1>1, <2>2, <2>4, <2>5, <2>6, <2>7, <2>8, <2>10, <2>11, <2>12 DEF Inserts
<1> QED
  BY <1>1, <1>2, <1>3

\* EntryInv holds at first.
LEMMA EntryInit ==
  ASSUME UploadBounds, Uploading!Init
  PROVE  EntryInv
<1> DEFINE i == Uploading!Idle
           z == Uploading!Unborn
<1>1. entry = [d \in Serials |-> z] /\ upload = [r \in Uploaders |-> i]
  BY DEF Uploading!Init
<1>2. i \in UploadTask /\ i.pc = "idle" /\ z \in EntryRow /\ z.state = "unborn" /\ z.version = 0
  BY IdleUpload, UnbornRow
<1>3. \A d \in Serials : d \in Nat
  BY SerialNat
<1> HIDE DEF i, z
<1> QED
  BY <1>1, <1>2, <1>3 DEF EntryInv, Flushed

\* The rows are as they were, or the row of a request is taken back, and requests that had
\* inserted one have not changed.
LEMMA EntryKept ==
  ASSUME UploadBounds, EntryInv, NEW r \in Uploaders, NEW u \in UploadTask,
         upload' = [upload EXCEPT ![r] = u], u.pc \notin Flushed,
         \/ UNCHANGED entry
         \/ upload[r].pc \in Flushed /\ Uploading!RolledBack(upload[r].id)
  PROVE  EntryInv'
<1>1. /\ upload' \in [Uploaders -> UploadTask] /\ upload'[r] = u
      /\ \A q \in Uploaders : q # r => upload'[q] = upload[q]
  BY UploadStep
<1>2. CASE UNCHANGED entry
  BY <1>1, <1>2 DEF EntryInv
<1>3. CASE upload[r].pc \in Flushed /\ Uploading!RolledBack(upload[r].id)
  <2> DEFINE d == upload[r].id
  <2>1. d \in Serials /\ entry[d].state = "inserted"
    BY <1>3 DEF EntryInv
  <2>2. \A q \in Uploaders : q # r /\ upload[q].pc \in Flushed => upload[q].id # d
    BY <1>3 DEF EntryInv
  <2>3. entry' = [entry EXCEPT ![d] = Uploading!Gone]
    BY <1>3 DEF Uploading!RolledBack
  <2> HIDE DEF d
  <2>4. /\ entry' \in [Serials -> EntryRow] /\ entry'[d] = Uploading!Gone
        /\ \A e \in Serials : e # d => entry'[e] = entry[e]
    <3>1. PICK z : z = Uploading!Gone
      OBVIOUS
    <3>2. z \in EntryRow /\ entry \in [Serials -> EntryRow]
      BY <3>1, UnbornRow DEF EntryInv
    <3>3. entry' = [entry EXCEPT ![d] = z]
      BY <2>3, <3>1
    <3> QED
      BY <2>1, <3>1, <3>2, <3>3
  <2>5. \A e \in Serials : entry'[e].version <= e
    BY <2>1, <2>4, UnbornRow, SerialNat DEF EntryInv
  <2>6. \A e \in Serials : entry'[e].state = "unborn" <=> entry[e].state = "unborn"
    BY <2>1, <2>4, UnbornRow
  <2>7. \A q \in Uploaders : upload'[q].pc \in Flushed =>
           q # r /\ upload[q].pc \in Flushed /\ upload'[q] = upload[q] /\ upload[q].id # d
    BY <1>1, <2>2
  <2> QED
    BY <1>1, <2>4, <2>5, <2>6, <2>7 DEF EntryInv
<1> QED
  BY <1>2, <1>3

\* A row is inserted.
LEMMA EntryInserted ==
  ASSUME UploadBounds, EntryInv, NEW r \in Uploaders, NEW d \in Serials, Inserts(r, d)
  PROVE  EntryInv'
<1> DEFINE u == upload[r]
<1>1. PICK t \in EntryRow :
         /\ t.state = "inserted" /\ t.content = u.content /\ t.place = u.place
         /\ t.version = (IF u.pred = 0 THEN 1 ELSE entry[u.pred].version + 1)
         /\ t.lineage = (IF u.pred = 0 THEN d ELSE entry[u.pred].lineage)
         /\ entry' = [entry EXCEPT ![d] = t]
  BY DEF Inserts
<1>2. PICK w \in UploadTask :
         /\ w.pc = "store" /\ w.id = d /\ w.content = u.content /\ w.place = u.place
         /\ upload' = [upload EXCEPT ![r] = w]
  BY DEF Inserts
<1>3. /\ upload' \in [Uploaders -> UploadTask] /\ upload'[r] = w
      /\ \A q \in Uploaders : q # r => upload'[q] = upload[q]
  BY <1>2, UploadStep
<1>4. /\ entry' \in [Serials -> EntryRow] /\ entry'[d] = t
      /\ \A e \in Serials : e # d => entry'[e] = entry[e]
  BY <1>1 DEF EntryInv
<1>5. entry[d].state = "unborn" /\ \A e \in Serials : entry[e].state = "unborn" => d <= e
  BY DEF Inserts
<1>6. d \in Nat \ {0} /\ t.version <= d
  <2>1. d \in Nat \ {0}
    BY SerialNat
  <2>2. CASE u.pred = 0
    BY <1>1, <2>1, <2>2
  <2>3. CASE u.pred # 0
    <3>1. u.pred \in Serials /\ entry[u.pred].state = "committed"
      BY <2>3 DEF Inserts, Uploading!Committed
    <3>2. u.pred < d /\ u.pred \in Nat
      BY <1>5, <3>1, SerialNat DEF EntryInv
    <3>3. entry[u.pred].version \in Nat /\ entry[u.pred].version <= u.pred
      BY <3>1 DEF EntryInv, EntryRow
    <3> QED
      BY <1>1, <2>1, <2>3, <3>2, <3>3
  <2> QED
    BY <2>2, <2>3, <2>1
<1>7. \A e \in Serials : entry'[e].version <= e
  BY <1>4, <1>6 DEF EntryInv
<1>8. \A e, f \in Serials : entry'[e].state = "unborn" /\ entry'[f].state # "unborn" => f < e
  BY <1>1, <1>4, <1>5, SerialNat DEF EntryInv
<1>9. \A q \in Uploaders : upload[q].pc \in Flushed => upload[q].id \in Serials \ {d}
  BY <1>5 DEF EntryInv
<1>10. \A q \in Uploaders : upload'[q].pc \in Flushed =>
          /\ upload'[q].id \in Serials /\ entry'[upload'[q].id].state = "inserted"
          /\ entry'[upload'[q].id].content = upload'[q].content
          /\ entry'[upload'[q].id].place = upload'[q].place
  <2>1. ASSUME NEW q \in Uploaders, q # r, upload'[q].pc \in Flushed
        PROVE  /\ upload'[q].id \in Serials /\ entry'[upload'[q].id].state = "inserted"
               /\ entry'[upload'[q].id].content = upload'[q].content
               /\ entry'[upload'[q].id].place = upload'[q].place
    BY <1>3, <1>4, <1>9, <2>1 DEF EntryInv
  <2>2. /\ upload'[r].id \in Serials /\ entry'[upload'[r].id].state = "inserted"
        /\ entry'[upload'[r].id].content = upload'[r].content
        /\ entry'[upload'[r].id].place = upload'[r].place
    BY <1>1, <1>2, <1>3, <1>4
  <2> QED
    BY <2>1, <2>2
<1>11. \A q, p \in Uploaders :
          upload'[q].pc \in Flushed /\ upload'[p].pc \in Flushed /\ upload'[q].id = upload'[p].id
          => q = p
  BY <1>2, <1>3, <1>9 DEF EntryInv
<1> QED
  BY <1>3, <1>4, <1>7, <1>8, <1>10, <1>11 DEF EntryInv

\* The rows of the requests stay as they are, and no row becomes unborn or ceases to be.
LEMMA EntrySame ==
  ASSUME UploadBounds, EntryInv, entry' \in [Serials -> EntryRow],
         upload' \in [Uploaders -> UploadTask],
         \A d \in Serials :
            /\ entry'[d].version <= d
            /\ entry'[d].state = "unborn" <=> entry[d].state = "unborn",
         \A r \in Uploaders : upload'[r].pc \in Flushed =>
            /\ upload[r].pc \in Flushed /\ upload'[r].id = upload[r].id
            /\ upload'[r].content = upload[r].content /\ upload'[r].place = upload[r].place
            /\ entry'[upload[r].id].state = "inserted"
            /\ entry'[upload[r].id].content = entry[upload[r].id].content
            /\ entry'[upload[r].id].place = entry[upload[r].id].place
  PROVE  EntryInv'
<1>1. /\ \A d \in Serials : entry'[d].version <= d
      /\ \A d, e \in Serials : entry'[d].state = "unborn" /\ entry'[e].state # "unborn" => e < d
  BY DEF EntryInv
<1>2. \A r \in Uploaders : upload'[r].pc \in Flushed =>
          /\ upload'[r].id \in Serials /\ entry'[upload'[r].id].state = "inserted"
          /\ entry'[upload'[r].id].content = upload'[r].content
          /\ entry'[upload'[r].id].place = upload'[r].place
  BY DEF EntryInv
<1>3. \A q, r \in Uploaders :
          upload'[q].pc \in Flushed /\ upload'[r].pc \in Flushed /\ upload'[q].id = upload'[r].id
          => q = r
  BY DEF EntryInv
<1> QED
  BY <1>1, <1>2, <1>3 DEF EntryInv

\* A request whose object was stored goes on to its commit.
LEMMA CommitNext ==
  ASSUME EntryInv, NEW r \in Uploaders, upload[r].pc = "store", Uploading!To(r, "commit")
  PROVE  /\ upload' \in [Uploaders -> UploadTask] /\ upload'[r].pc = "commit"
         /\ upload'[r].id = upload[r].id /\ upload'[r].content = upload[r].content
         /\ upload'[r].place = upload[r].place /\ upload'[r].pred = upload[r].pred
         /\ \A q \in Uploaders : q # r => upload'[q] = upload[q]
<1>1. PICK u : u = upload[r]
  OBVIOUS
<1>2. PICK w : w = [u EXCEPT !.pc = "commit"]
  OBVIOUS
<1>3. u \in UploadTask /\ upload \in [Uploaders -> UploadTask]
  BY <1>1 DEF EntryInv
<1>4. /\ w \in UploadTask /\ w.pc = "commit" /\ w.id = u.id /\ w.content = u.content
      /\ w.place = u.place /\ w.pred = u.pred
  BY <1>2, <1>3 DEF UploadTask
<1>5. upload' = [upload EXCEPT ![r] = w]
  BY <1>1, <1>2, <1>3 DEF Uploading!To
<1> QED
  BY <1>1, <1>3, <1>4, <1>5

\* A row of a request that commits.
LEMMA CommitDoes ==
  ASSUME UploadBounds, EntryInv, NEW r \in Uploaders, Uploading!CommitUpload(r)
  PROVE  /\ upload[r].pc = "commit" /\ upload[r].id \in Serials
         /\ entry[upload[r].id].state = "inserted" /\ GivesUp(r)
         /\ entry' \in [Serials -> EntryRow] /\ entry'[upload[r].id].state = "committed"
         /\ entry'[upload[r].id].content = entry[upload[r].id].content
         /\ entry'[upload[r].id].place = entry[upload[r].id].place
         /\ entry'[upload[r].id].version = entry[upload[r].id].version
         /\ entry'[upload[r].id].lineage = entry[upload[r].id].lineage
         /\ \A d \in Serials : d # upload[r].id => entry'[d] = entry[d]
<1>1. PICK d : d = upload[r].id
  OBVIOUS
<1>2. upload[r].pc = "commit" /\ d \in Serials /\ entry[d].state = "inserted" /\ GivesUp(r)
  BY <1>1 DEF EntryInv, Uploading!CommitUpload, Flushed, GivesUp, Uploading!Step
<1>3. PICK t : t = entry[d]
  OBVIOUS
<1>4. PICK w : w = [t EXCEPT !.state = "committed"]
  OBVIOUS
<1>5. t \in EntryRow
  BY <1>2, <1>3 DEF EntryInv
<1>6. /\ w \in EntryRow /\ w.state = "committed" /\ w.content = t.content /\ w.place = t.place
      /\ w.version = t.version /\ w.lineage = t.lineage
  BY <1>4, <1>5 DEF EntryRow
<1>7. entry' = [entry EXCEPT ![d] = w]
  BY <1>1, <1>3, <1>4 DEF Uploading!CommitUpload
<1>8. /\ entry' \in [Serials -> EntryRow] /\ entry'[d] = w
      /\ \A e \in Serials : e # d => entry'[e] = entry[e]
  BY <1>2, <1>6, <1>7 DEF EntryInv
<1> QED
  BY <1>1, <1>2, <1>3, <1>6, <1>8

\* A document is moved.
LEMMA MoveDoes ==
  ASSUME UploadBounds, EntryInv, NEW d \in Serials, NEW p \in Spots, Uploading!Move(d, p)
  PROVE  /\ entry[d].state = "committed" /\ entry'[d].state = "committed"
         /\ entry' \in [Serials -> EntryRow] /\ entry'[d].place = p
         /\ entry'[d].content = entry[d].content /\ entry'[d].version = entry[d].version
         /\ entry'[d].lineage = entry[d].lineage /\ mixed' = mixed \union {p}
         /\ \A e \in Serials : e # d => entry'[e] = entry[e]
         /\ upload' = upload
<1>1. PICK t : t = entry[d]
  OBVIOUS
<1>2. PICK w : w = [t EXCEPT !.place = p]
  OBVIOUS
<1>3. t \in EntryRow /\ t.state = "committed" /\ mixed' = mixed \union {p} /\ upload' = upload
  BY <1>1 DEF EntryInv, Uploading!Move, Uploading!Committed
<1>4. /\ w \in EntryRow /\ w.state = t.state /\ w.content = t.content /\ w.place = p
      /\ w.version = t.version /\ w.lineage = t.lineage
  BY <1>2, <1>3 DEF EntryRow
<1>5. entry' = [entry EXCEPT ![d] = w]
  BY <1>1, <1>2 DEF Uploading!Move
<1>6. /\ entry' \in [Serials -> EntryRow] /\ entry'[d] = w
      /\ \A e \in Serials : e # d => entry'[e] = entry[e]
  BY <1>4, <1>5 DEF EntryInv
<1> QED
  BY <1>1, <1>3, <1>4, <1>6

\* A row is removed: of the others, only what came before them changes.
LEMMA RemoveDoes ==
  ASSUME UploadBounds, EntryInv, NEW d \in Serials, Uploading!RemoveRow(d)
  PROVE  /\ entry' \in [Serials -> EntryRow] /\ entry'[d] = Uploading!Gone
         /\ \A e \in Serials : e # d =>
               /\ entry'[e].state = entry[e].state /\ entry'[e].content = entry[e].content
               /\ entry'[e].place = entry[e].place /\ entry'[e].version = entry[e].version
               /\ entry'[e].lineage = entry[e].lineage
         /\ upload' = upload
<1>1. PICK z : z = Uploading!Gone
  OBVIOUS
<1>2. z \in EntryRow
  BY <1>1, UnbornRow
<1>3. ASSUME NEW e \in Serials
      PROVE  /\ [entry[e] EXCEPT !.pred = Uploading!None] \in EntryRow
             /\ [entry[e] EXCEPT !.pred = Uploading!None].state = entry[e].state
             /\ [entry[e] EXCEPT !.pred = Uploading!None].content = entry[e].content
             /\ [entry[e] EXCEPT !.pred = Uploading!None].place = entry[e].place
             /\ [entry[e] EXCEPT !.pred = Uploading!None].version = entry[e].version
             /\ [entry[e] EXCEPT !.pred = Uploading!None].lineage = entry[e].lineage
  <2>1. PICK t : t = entry[e]
    OBVIOUS
  <2>2. t \in EntryRow
    BY <2>1 DEF EntryInv
  <2>3. PICK w : w = [t EXCEPT !.pred = 0]
    OBVIOUS
  <2>4. /\ w \in EntryRow /\ w.state = t.state /\ w.content = t.content /\ w.place = t.place
        /\ w.version = t.version /\ w.lineage = t.lineage
    BY <2>2, <2>3 DEF EntryRow, Numbered
  <2>5. w = [entry[e] EXCEPT !.pred = Uploading!None]
    BY <2>1, <2>3 DEF Uploading!None
  <2> QED
    BY <2>1, <2>4, <2>5
<1>4. entry' = [e \in Serials |-> IF e = d THEN z
                                  ELSE IF entry[e].pred = d
                                       THEN [entry[e] EXCEPT !.pred = Uploading!None]
                                       ELSE entry[e]]
  BY <1>1 DEF Uploading!RemoveRow
<1>5. \A e \in Serials : entry[e] \in EntryRow
  BY DEF EntryInv
<1>6. entry' \in [Serials -> EntryRow]
  BY <1>2, <1>3, <1>4, <1>5
<1>7. upload' = upload
  BY DEF Uploading!RemoveRow
<1>8. \A e \in Serials : e # d =>
               /\ entry'[e].state = entry[e].state /\ entry'[e].content = entry[e].content
               /\ entry'[e].place = entry[e].place /\ entry'[e].version = entry[e].version
               /\ entry'[e].lineage = entry[e].lineage
  <2>1. ASSUME NEW e \in Serials, e # d
        PROVE  entry'[e] = entry[e] \/ entry'[e] = [entry[e] EXCEPT !.pred = Uploading!None]
    BY <1>4, <2>1
  <2> QED
    BY <1>3, <2>1
<1>9. entry'[d] = z
  BY <1>4
<1> QED
  BY <1>1, <1>6, <1>7, <1>8, <1>9

\* Only a document that is stored is being deleted.
WipeInv ==
    /\ wipe \in [Serials -> [pc : {"kept", "due", "running"}, at : Nat \ {0}]]
    /\ \A d \in Serials : wipe[d].pc # "kept" => entry[d].state = "committed"

\* The steps by which a request that has not inserted a row goes on.
LEMMA SearchDoes ==
  ASSUME UploadBounds, EntryInv, NEW r \in Uploaders,
         \/ \E c \in Contents, p \in Spots : Uploading!Upload(r, c, p)
         \/ Uploading!FindDuplicate(r) \/ Uploading!FindPredecessor(r)
  PROVE  \E u \in UploadTask :
            /\ upload' = [upload EXCEPT ![r] = u] /\ UNCHANGED entry
            /\ u.pc \notin Flushed /\ upload[r].pc \notin Pending
            /\ u.pc \in Pending => Uploading!FindPredecessor(r)
            /\ u.pc \in {"duplicate", "predecessor"} =>
                  u.pred = 0 \/ (upload[r].pc = "duplicate" /\ u.pred = upload[r].pred)
<1>1. ASSUME NEW c \in Contents, NEW p \in Spots, Uploading!Upload(r, c, p)
      PROVE  \E u \in UploadTask :
                /\ upload' = [upload EXCEPT ![r] = u] /\ UNCHANGED entry
                /\ u.pc \notin Flushed /\ upload[r].pc \notin Pending
                /\ u.pc \notin Pending /\ u.pred = 0
  <2>1. PICK i : i = Uploading!Idle
    OBVIOUS
  <2>2. PICK u : u = [i EXCEPT !.pc = "duplicate", !.content = c, !.place = p]
    OBVIOUS
  <2>3. u \in UploadTask /\ u.pc = "duplicate" /\ u.pred = i.pred
    BY <2>1, <2>2, IdleUpload DEF UploadTask
  <2>4. upload' = [upload EXCEPT ![r] = u] /\ UNCHANGED entry /\ upload[r].pc = "idle"
    BY <1>1, <2>1, <2>2 DEF Uploading!Upload, Uploading!Step
  <2> QED
    BY <2>1, <2>3, <2>4, IdleUpload DEF Flushed, Pending
<1>2. PICK t : t = upload[r]
  OBVIOUS
<1>3. t \in UploadTask
  BY <1>2 DEF EntryInv
<1>4. CASE Uploading!FindDuplicate(r)
  <2>1. t.pc = "duplicate" /\ UNCHANGED entry
    BY <1>2, <1>4 DEF Uploading!FindDuplicate
  <2>2. PICK w : w = [t EXCEPT !.pc = "predecessor"]
    OBVIOUS
  <2>3. w \in UploadTask /\ w.pc = "predecessor" /\ w.pred = t.pred
    BY <1>3, <2>2 DEF UploadTask
  <2>4. upload' = [upload EXCEPT ![r] = Uploading!Idle] \/ upload' = [upload EXCEPT ![r] = w]
    BY <1>2, <1>4, <2>2 DEF Uploading!FindDuplicate, Uploading!Step, Uploading!To, EntryInv
  <2> QED
    BY <1>2, <2>1, <2>3, <2>4, IdleUpload DEF Flushed, Pending
<1>5. CASE Uploading!FindPredecessor(r)
  <2>1. t.pc = "predecessor" /\ UNCHANGED entry
    BY <1>2, <1>5 DEF Uploading!FindPredecessor
  <2>2. PICK w : w = [t EXCEPT !.pc = "insert"]
    OBVIOUS
  <2>3. w \in UploadTask /\ w.pc = "insert"
    BY <1>3, <2>2 DEF UploadTask
  <2>4. ASSUME NEW d \in Serials PROVE [t EXCEPT !.pc = "insert", !.pred = d] \in UploadTask
                                       /\ [t EXCEPT !.pc = "insert", !.pred = d].pc = "insert"
    BY <1>3 DEF UploadTask, Numbered
  <2>5. \/ upload' = [upload EXCEPT ![r] = w]
        \/ \E d \in Serials : upload' = [upload EXCEPT ![r] = [t EXCEPT !.pc = "insert", !.pred = d]]
    BY <1>2, <1>5, <2>2 DEF Uploading!FindPredecessor, Uploading!To, EntryInv, Uploading!Newest,
       Uploading!Committed
  <2>6. PICK u \in UploadTask : upload' = [upload EXCEPT ![r] = u] /\ u.pc = "insert"
    BY <2>3, <2>4, <2>5
  <2> QED
    BY <1>2, <1>5, <2>1, <2>6 DEF Flushed, Pending
<1> QED
  BY <1>1, <1>4, <1>5

\* The ways in which a request that has inserted a row ends without it.
LEMMA FailsDoes ==
  ASSUME UploadBounds, EntryInv, NEW r \in Uploaders,
         \/ Uploading!Store(r) /\ ~Uploading!To(r, "commit")
         \/ Uploading!DieUploading(r)
  PROVE  /\ upload[r].pc \in Flushed /\ GivesUp(r) /\ Uploading!RolledBack(upload[r].id)
         /\ UNCHANGED <<stage, wipe, mixed, crowded>>
BY DEF Uploading!Store, Uploading!DieUploading, Flushed, GivesUp, Uploading!Step

\* EntryInv is kept.
LEMMA EntryNext ==
  ASSUME UploadBounds, EntryInv, WipeInv, [Uploading!Next]_(Uploading!uploadVars)
  PROVE  EntryInv'
<1>1. ASSUME NEW r \in Uploaders,
             \/ \E c \in Contents, p \in Spots : Uploading!Upload(r, c, p)
             \/ Uploading!FindDuplicate(r) \/ Uploading!FindPredecessor(r)
      PROVE  EntryInv'
  <2>1. PICK u \in UploadTask :
            upload' = [upload EXCEPT ![r] = u] /\ UNCHANGED entry /\ u.pc \notin Flushed
    BY <1>1, SearchDoes
  <2> QED
    BY <2>1, EntryKept
<1>2. ASSUME NEW r \in Uploaders, Uploading!Insert(r)
      PROVE  EntryInv'
  <2>1. CASE GivesUp(r) /\ UNCHANGED entry
    BY <2>1, IdleUpload, EntryKept DEF GivesUp, Flushed
  <2>2. CASE \E d \in Serials : Inserts(r, d)
    BY <2>2, EntryInserted
  <2> QED
    BY <1>2, <2>1, <2>2, InsertDoes
<1>3. ASSUME NEW r \in Uploaders,
             \/ Uploading!Store(r) /\ ~Uploading!To(r, "commit")
         \/ Uploading!DieUploading(r)
      PROVE  EntryInv'
  <2>1. upload[r].pc \in Flushed /\ GivesUp(r) /\ Uploading!RolledBack(upload[r].id)
    BY <1>3, FailsDoes
  <2> QED
    BY <2>1, IdleUpload, EntryKept DEF GivesUp, Flushed
<1>4. ASSUME NEW r \in Uploaders, Uploading!Store(r), Uploading!To(r, "commit")
      PROVE  EntryInv'
  <2>1. upload[r].pc = "store" /\ UNCHANGED entry
    <3>1. upload[r].pc = "store"
      BY <1>4 DEF Uploading!Store
    <3>2. upload'[r].pc = "commit"
      BY <1>4, <3>1, CommitNext
    <3>3. ~Uploading!Step(r, Uploading!Idle)
      BY <3>2, IdleUpload DEF Uploading!Step, EntryInv
    <3> QED
      BY <1>4, <3>1, <3>3 DEF Uploading!Store
  <2>2. /\ upload' \in [Uploaders -> UploadTask] /\ upload'[r].pc = "commit"
        /\ upload'[r].id = upload[r].id /\ upload'[r].content = upload[r].content
        /\ upload'[r].place = upload[r].place
        /\ \A q \in Uploaders : q # r => upload'[q] = upload[q]
    BY <1>4, <2>1, CommitNext
  <2> QED
    BY <2>1, <2>2, EntrySame DEF EntryInv, Flushed
<1>5. ASSUME NEW r \in Uploaders, Uploading!CommitUpload(r)
      PROVE  EntryInv'
  <2>1. PICK d : d = upload[r].id
    OBVIOUS
  <2>2. /\ upload[r].pc = "commit" /\ d \in Serials
        /\ entry[d].state = "inserted" /\ GivesUp(r)
        /\ entry' \in [Serials -> EntryRow] /\ entry'[d].state = "committed"
        /\ entry'[d].version = entry[d].version
        /\ \A e \in Serials : e # d => entry'[e] = entry[e]
    BY <1>5, <2>1, CommitDoes
  <2>3. /\ upload' \in [Uploaders -> UploadTask] /\ upload'[r].pc = "idle"
        /\ \A q \in Uploaders : q # r => upload'[q] = upload[q]
    BY <2>2, UploadStep, IdleUpload DEF GivesUp
  <2>4. \A q \in Uploaders : upload'[q].pc \in Flushed =>
           q # r /\ upload[q].pc \in Flushed /\ upload'[q] = upload[q] /\ upload[q].id \in Serials \ {d}
    BY <2>1, <2>2, <2>3 DEF EntryInv, Flushed
  <2>5. \A e \in Serials : entry'[e].version <= e
    BY <2>2 DEF EntryInv
  <2>6. \A e \in Serials : entry'[e].state = "unborn" <=> entry[e].state = "unborn"
    BY <2>2
  <2>7. \A q \in Uploaders : upload'[q].pc \in Flushed => entry'[upload[q].id] = entry[upload[q].id]
                                                         /\ entry[upload[q].id].state = "inserted"
    BY <2>2, <2>4 DEF EntryInv
  <2> QED
    BY <2>2, <2>3, <2>4, <2>5, <2>6, <2>7, EntrySame
<1>6. ASSUME NEW d \in Serials, NEW p \in Spots, Uploading!Move(d, p)
      PROVE  EntryInv'
  <2>1. /\ entry[d].state = "committed" /\ entry'[d].state = "committed"
        /\ entry' \in [Serials -> EntryRow] /\ entry'[d].version = entry[d].version
        /\ \A e \in Serials : e # d => entry'[e] = entry[e]
        /\ upload' = upload
    BY <1>6, MoveDoes
  <2>2. \A q \in Uploaders : upload'[q].pc \in Flushed =>
           /\ upload[q].id \in Serials /\ entry[upload[q].id].state = "inserted"
           /\ entry'[upload[q].id] = entry[upload[q].id]
    BY <2>1 DEF EntryInv
  <2>3. \A e \in Serials : entry'[e].version <= e
    BY <2>1 DEF EntryInv
  <2>4. \A e \in Serials : entry'[e].state = "unborn" <=> entry[e].state = "unborn"
    BY <2>1
  <2>5. upload' \in [Uploaders -> UploadTask]
    BY <2>1 DEF EntryInv
  <2> QED
    BY <2>1, <2>2, <2>3, <2>4, <2>5, EntrySame
<1>7. ASSUME NEW d \in Serials, Uploading!RemoveRow(d)
      PROVE  EntryInv'
  <2>1. /\ entry' \in [Serials -> EntryRow] /\ entry'[d] = Uploading!Gone
        /\ \A e \in Serials : e # d =>
               /\ entry'[e].state = entry[e].state /\ entry'[e].content = entry[e].content
               /\ entry'[e].place = entry[e].place /\ entry'[e].version = entry[e].version
        /\ upload' = upload
    BY <1>7, RemoveDoes
  <2>2. entry[d].state = "committed"
    BY <1>7 DEF WipeInv, Uploading!RemoveRow
  <2>3. \A q \in Uploaders : upload'[q].pc \in Flushed =>
           /\ upload[q].id \in Serials \ {d} /\ entry[upload[q].id].state = "inserted"
           /\ entry'[upload[q].id].state = "inserted"
           /\ entry'[upload[q].id].content = entry[upload[q].id].content
           /\ entry'[upload[q].id].place = entry[upload[q].id].place
    BY <2>1, <2>2 DEF EntryInv
  <2>4. \A e \in Serials : entry'[e].version <= e
    BY <2>1, UnbornRow, SerialNat DEF EntryInv
  <2>5. \A e \in Serials : entry'[e].state = "unborn" <=> entry[e].state = "unborn"
    BY <2>1, <2>2, UnbornRow
  <2>6. upload' \in [Uploaders -> UploadTask]
    BY <2>1 DEF EntryInv
  <2> QED
    BY <2>1, <2>3, <2>4, <2>5, <2>6, EntrySame
<1>8. ASSUME UNCHANGED <<entry, upload>>
      PROVE  EntryInv'
  BY <1>8 DEF EntryInv
<1>9. ASSUME NEW d \in Serials,
             \/ Uploading!StartStage(d) \/ Uploading!PutArtifact(d) \/ Uploading!Reingest(d)
             \/ Uploading!Delete(d) \/ Uploading!StartDelete(d) \/ Uploading!DeleteObject(d)
             \/ Uploading!DieDeleting(d)
      PROVE  UNCHANGED <<entry, upload>>
  BY <1>9 DEF Uploading!StartStage, Uploading!PutArtifact, Uploading!Reingest, Uploading!Delete,
     Uploading!StartDelete, Uploading!DeleteObject, Uploading!DieDeleting
<1>10. UNCHANGED Uploading!uploadVars => UNCHANGED <<entry, upload>>
  BY DEF Uploading!uploadVars
<1> QED
  BY <1>1, <1>2, <1>3, <1>4, <1>5, <1>6, <1>7, <1>8, <1>9, <1>10 DEF Uploading!Next

\* Where the row of a document is left alone, and where it is taken.
LEMMA StoreNext ==
  ASSUME UploadBounds, EntryInv, NEW r \in Uploaders, Uploading!Store(r), Uploading!To(r, "commit")
  PROVE  /\ upload[r].pc = "store" /\ upload[r].id \in Serials
         /\ entry[upload[r].id].state = "inserted"
         /\ object' = object \union {<<upload[r].id, "original">>}
         /\ UNCHANGED <<entry, stage, wipe, mixed, crowded, orphans>>
<1>1. upload[r].pc = "store"
  BY DEF Uploading!Store
<1>2. upload'[r].pc = "commit"
  BY <1>1, CommitNext
<1>3. ~Uploading!Step(r, Uploading!Idle)
  BY <1>2, IdleUpload DEF Uploading!Step, EntryInv
<1> QED
  BY <1>1, <1>3 DEF Uploading!Store, EntryInv, Flushed

\* WipeInv holds at first, and is kept.
LEMMA WipeInit ==
  ASSUME UploadBounds, Uploading!Init
  PROVE  WipeInv
<1>1. [pc |-> "kept", at |-> 1] \in [pc : {"kept", "due", "running"}, at : Nat \ {0}]
  OBVIOUS
<1>2. PICK k : k = [pc |-> "kept", at |-> 1]
  OBVIOUS
<1>3. wipe = [d \in Serials |-> k] /\ k.pc = "kept"
  BY <1>2 DEF Uploading!Init
<1> QED
  BY <1>1, <1>2, <1>3 DEF WipeInv

\* WipeInv is kept where no deletion goes on and every stored row stays.
LEMMA WipeSame ==
  ASSUME WipeInv, wipe' = wipe,
         \A d \in Serials : entry[d].state = "committed" => entry'[d].state = "committed"
  PROVE  WipeInv'
BY DEF WipeInv

\* WipeInv is kept where the deletion of one document goes on.
LEMMA WipeStep ==
  ASSUME WipeInv, NEW d \in Serials, NEW w, w \in [pc : {"kept", "due", "running"}, at : Nat \ {0}],
         wipe' = [wipe EXCEPT ![d] = w], w.pc = "kept" \/ entry'[d].state = "committed",
         \A e \in Serials : e # d /\ entry[e].state = "committed" => entry'[e].state = "committed"
  PROVE  WipeInv'
<1>1. /\ wipe' \in [Serials -> [pc : {"kept", "due", "running"}, at : Nat \ {0}]]
      /\ wipe'[d] = w /\ \A e \in Serials : e # d => wipe'[e] = wipe[e]
  BY DEF WipeInv
<1> QED
  BY <1>1 DEF WipeInv

\* WipeInv is kept.
LEMMA WipeNext ==
  ASSUME UploadBounds, EntryInv, WipeInv, [Uploading!Next]_(Uploading!uploadVars)
  PROVE  WipeInv'
<1>1. ASSUME NEW r \in Uploaders,
             \/ \E c \in Contents, p \in Spots : Uploading!Upload(r, c, p)
             \/ Uploading!FindDuplicate(r) \/ Uploading!FindPredecessor(r)
      PROVE  WipeInv'
  BY <1>1, WipeSame DEF Uploading!Upload, Uploading!FindDuplicate, Uploading!FindPredecessor
<1>2. ASSUME NEW r \in Uploaders, Uploading!Insert(r)
      PROVE  WipeInv'
  <2>1. wipe' = wipe
    BY <1>2 DEF Uploading!Insert
  <2>2. UNCHANGED entry \/ \E d \in Serials, t \in EntryRow :
             entry[d].state = "unborn" /\ entry' = [entry EXCEPT ![d] = t]
    BY <1>2, InsertDoes DEF Inserts
  <2>3. \A d \in Serials : entry[d].state = "committed" => entry'[d].state = "committed"
    BY <2>2 DEF EntryInv
  <2> QED
    BY <2>1, <2>3, WipeSame
<1>3. ASSUME NEW r \in Uploaders,
             \/ Uploading!Store(r) /\ ~Uploading!To(r, "commit")
             \/ Uploading!DieUploading(r)
      PROVE  WipeInv'
  <2>1. upload[r].pc \in Flushed /\ Uploading!RolledBack(upload[r].id) /\ wipe' = wipe
    BY <1>3, FailsDoes
  <2>2. PICK d \in Serials : d = upload[r].id /\ entry[d].state = "inserted"
    BY <2>1 DEF EntryInv
  <2>3. PICK z : z = Uploading!Gone
    OBVIOUS
  <2>4. \A e \in Serials : entry[e].state = "committed" => entry'[e].state = "committed"
    <3>1. entry' = [entry EXCEPT ![d] = z]
      BY <2>1, <2>2, <2>3 DEF Uploading!RolledBack
    <3>2. \A e \in Serials : e # d => entry'[e] = entry[e]
      BY <3>1 DEF EntryInv
    <3> QED
      BY <2>2, <3>2
  <2> QED
    BY <2>1, <2>4, WipeSame
<1>4. ASSUME NEW r \in Uploaders, Uploading!Store(r), Uploading!To(r, "commit")
      PROVE  WipeInv'
  BY <1>4, StoreNext, WipeSame
<1>5. ASSUME NEW r \in Uploaders, Uploading!CommitUpload(r)
      PROVE  WipeInv'
  <2>1. \A e \in Serials : entry[e].state = "committed" => entry'[e].state = "committed"
    BY <1>5, CommitDoes
  <2>2. wipe' = wipe
    BY <1>5 DEF Uploading!CommitUpload
  <2> QED
    BY <2>1, <2>2, WipeSame
<1>6. ASSUME NEW d \in Serials, NEW p \in Spots, Uploading!Move(d, p)
      PROVE  WipeInv'
  <2>1. \A e \in Serials : entry[e].state = "committed" => entry'[e].state = "committed"
    BY <1>6, MoveDoes
  <2>2. wipe' = wipe
    BY <1>6 DEF Uploading!Move
  <2> QED
    BY <2>1, <2>2, WipeSame
<1>7. ASSUME NEW d \in Serials, Uploading!RemoveRow(d)
      PROVE  WipeInv'
  <2>1. \A e \in Serials : e # d /\ entry[e].state = "committed" => entry'[e].state = "committed"
    BY <1>7, RemoveDoes
  <2>3. PICK w : w = [pc |-> "kept", at |-> 1]
    OBVIOUS
  <2>4. w \in [pc : {"kept", "due", "running"}, at : Nat \ {0}] /\ w.pc = "kept"
    BY <2>3
  <2>2. wipe' = [wipe EXCEPT ![d] = w]
    BY <1>7, <2>3 DEF Uploading!RemoveRow
  <2> QED
    BY <2>1, <2>2, <2>4, WipeStep
<1>8. ASSUME NEW d \in Serials,
             \/ Uploading!StartStage(d) \/ Uploading!PutArtifact(d) \/ Uploading!Reingest(d)
      PROVE  WipeInv'
  BY <1>8, WipeSame DEF Uploading!StartStage, Uploading!PutArtifact, Uploading!Reingest
<1>9. ASSUME NEW d \in Serials,
             \/ Uploading!Delete(d) \/ Uploading!StartDelete(d) \/ Uploading!DeleteObject(d)
             \/ Uploading!DieDeleting(d)
      PROVE  WipeInv'
  <2>1. entry' = entry
    BY <1>9 DEF Uploading!Delete, Uploading!StartDelete, Uploading!DeleteObject,
       Uploading!DieDeleting
  <2>2. entry[d].state = "committed"
    BY <1>9 DEF WipeInv, Uploading!Delete, Uploading!StartDelete, Uploading!DeleteObject,
       Uploading!DieDeleting, Uploading!Committed
  <2>3. PICK w : w = wipe[d]
    OBVIOUS
  <2>4. w \in [pc : {"kept", "due", "running"}, at : Nat \ {0}]
    BY <2>3 DEF WipeInv
  <2>5. \/ wipe' = [wipe EXCEPT ![d] = [w EXCEPT !.pc = "due"]]
        \/ wipe' = [wipe EXCEPT ![d] = [pc |-> "running", at |-> 1]]
        \/ wipe' = [wipe EXCEPT ![d] = [w EXCEPT !.at = w.at + 1]]
        \/ wipe' = [wipe EXCEPT ![d] = [pc |-> "due", at |-> 1]]
    BY <1>9, <2>3 DEF WipeInv, Uploading!Delete, Uploading!StartDelete, Uploading!DeleteObject,
       Uploading!DieDeleting
  <2>6. /\ [w EXCEPT !.pc = "due"] \in [pc : {"kept", "due", "running"}, at : Nat \ {0}]
        /\ [w EXCEPT !.at = w.at + 1] \in [pc : {"kept", "due", "running"}, at : Nat \ {0}]
        /\ [pc |-> "running", at |-> 1] \in [pc : {"kept", "due", "running"}, at : Nat \ {0}]
        /\ [pc |-> "due", at |-> 1] \in [pc : {"kept", "due", "running"}, at : Nat \ {0}]
    BY <2>4
  <2>7. PICK x \in [pc : {"kept", "due", "running"}, at : Nat \ {0}] : wipe' = [wipe EXCEPT ![d] = x]
    BY <2>5, <2>6
  <2> QED
    BY <2>1, <2>2, <2>7, WipeStep
<1>10. CASE UNCHANGED Uploading!uploadVars
  BY <1>10, WipeSame DEF Uploading!uploadVars
<1> QED
  BY <1>1, <1>2, <1>3, <1>4, <1>5, <1>6, <1>7, <1>8, <1>9, <1>10 DEF Uploading!Next

\* No content is stored twice: a step that stores nothing new.
LEMMA OnceSame ==
  ASSUME Uploading!StoredOnce,
         \A d \in Serials : entry'[d].state \in {"inserted", "committed"} =>
            /\ entry[d].state \in {"inserted", "committed"}
            /\ entry'[d].content = entry[d].content
  PROVE  Uploading!StoredOnce'
BY DEF Uploading!StoredOnce, Uploading!Committed, Uploading!Inserted

\* StoredOnce is kept.
LEMMA OnceNext ==
  ASSUME UploadBounds, EntryInv, WipeInv, Uploading!StoredOnce,
         [Uploading!Next]_(Uploading!uploadVars)
  PROVE  Uploading!StoredOnce'
<1>1. ASSUME UNCHANGED entry PROVE Uploading!StoredOnce'
  BY <1>1, OnceSame
<1>2. ASSUME NEW r \in Uploaders, Uploading!Insert(r)
      PROVE  Uploading!StoredOnce'
  <2>1. CASE \E d \in Serials : Inserts(r, d)
    <3>1. PICK d \in Serials : Inserts(r, d)
      BY <2>1
    <3>2. PICK t \in EntryRow : t.content = upload[r].content /\ entry' = [entry EXCEPT ![d] = t]
      BY <3>1 DEF Inserts
    <3>3. \A e \in Uploading!Committed \union Uploading!Inserted :
             e \in Serials \ {d} /\ entry[e].content # upload[r].content
      BY <3>1 DEF Inserts, Uploading!Committed, Uploading!Inserted
    <3>4. /\ entry'[d] = t /\ \A e \in Serials : e # d => entry'[e] = entry[e]
      BY <3>2 DEF EntryInv
    <3> QED
      BY <3>2, <3>3, <3>4 DEF Uploading!StoredOnce, Uploading!Committed, Uploading!Inserted
  <2> QED
    BY <1>1, <1>2, <2>1, InsertDoes
<1>3. ASSUME NEW r \in Uploaders,
             \/ Uploading!Store(r) /\ ~Uploading!To(r, "commit")
             \/ Uploading!DieUploading(r)
      PROVE  Uploading!StoredOnce'
  <2>1. upload[r].pc \in Flushed /\ Uploading!RolledBack(upload[r].id)
    BY <1>3, FailsDoes
  <2>2. PICK d \in Serials : d = upload[r].id /\ entry[d].state = "inserted"
    BY <2>1 DEF EntryInv
  <2>3. entry' = [entry EXCEPT ![d] = Uploading!Gone]
    BY <2>1, <2>2 DEF Uploading!RolledBack
  <2>4. entry'[d].state = "gone" /\ \A e \in Serials : e # d => entry'[e] = entry[e]
    BY <2>2, <2>3, UnbornRow DEF EntryInv
  <2> QED
    BY <2>4, OnceSame
<1>4. ASSUME NEW r \in Uploaders, Uploading!Store(r), Uploading!To(r, "commit")
      PROVE  Uploading!StoredOnce'
  BY <1>1, <1>4, StoreNext
<1>5. ASSUME NEW r \in Uploaders, Uploading!CommitUpload(r)
      PROVE  Uploading!StoredOnce'
  BY <1>5, CommitDoes, OnceSame
<1>6. ASSUME NEW d \in Serials, NEW p \in Spots, Uploading!Move(d, p)
      PROVE  Uploading!StoredOnce'
  BY <1>6, MoveDoes, OnceSame
<1>7. ASSUME NEW d \in Serials, Uploading!RemoveRow(d)
      PROVE  Uploading!StoredOnce'
  <2>1. entry'[d].state = "gone"
    BY <1>7, RemoveDoes, UnbornRow
  <2> QED
    BY <1>7, <2>1, RemoveDoes, OnceSame
<1>8. ASSUME NEW r \in Uploaders,
             \/ \E c \in Contents, p \in Spots : Uploading!Upload(r, c, p)
             \/ Uploading!FindDuplicate(r) \/ Uploading!FindPredecessor(r)
      PROVE  UNCHANGED entry
  BY <1>8 DEF Uploading!Upload, Uploading!FindDuplicate, Uploading!FindPredecessor
<1>9. ASSUME NEW d \in Serials,
             \/ Uploading!StartStage(d) \/ Uploading!PutArtifact(d) \/ Uploading!Reingest(d)
             \/ Uploading!Delete(d) \/ Uploading!StartDelete(d) \/ Uploading!DeleteObject(d)
             \/ Uploading!DieDeleting(d)
      PROVE  UNCHANGED entry
  BY <1>9 DEF Uploading!StartStage, Uploading!PutArtifact, Uploading!Reingest, Uploading!Delete,
     Uploading!StartDelete, Uploading!DeleteObject, Uploading!DieDeleting
<1>10. UNCHANGED Uploading!uploadVars => UNCHANGED entry
  BY DEF Uploading!uploadVars
<1> QED
  BY <1>1, <1>2, <1>3, <1>4, <1>5, <1>6, <1>7, <1>8, <1>9, <1>10 DEF Uploading!Next

\* The keys of a document's objects, each once.
Keys == {Uploading!Kinds[i] : i \in 1..(Len(Pieces) + 1)}

\* The original is the first of the keys, the artifacts are the others, and no two are the same.
LEMMA KeysAre ==
  ASSUME UploadBounds
  PROVE  /\ Len(Pieces) \in Nat /\ Uploading!Kinds[1] = "original" /\ "original" \in Keys
         /\ Len(Uploading!Kinds) = Len(Pieces) + 1 /\ Uploading!Wiped = Uploading!Kinds
         /\ DOMAIN Uploading!Kinds = 1..(Len(Pieces) + 1)
         /\ \A i \in 2..(Len(Pieces) + 1) : Uploading!Kinds[i] # "original"
         /\ \A i, j \in 1..(Len(Pieces) + 1) : Uploading!Kinds[i] = Uploading!Kinds[j] => i = j
<1>1. PICK p : p = Pieces
  OBVIOUS
<1>2. PICK S : p \in Seq(S)
  BY <1>1 DEF UploadBounds
<1>11. PICK o : o = "original"
  OBVIOUS
<1>12. PICK T : T = S \union {o}
  OBVIOUS
<1>13. p \in Seq(T) /\ <<o>> \in Seq(T)
  <2>1. Len(p) \in Nat /\ DOMAIN p = 1..Len(p) /\ p \in [1..Len(p) -> S]
    BY <1>2
  <2>2. p \in [1..Len(p) -> T] /\ o \in T
    BY <1>12, <2>1
  <2>3. p \in Seq(T)
    BY <2>1, <2>2
  <2> QED
    BY <2>2, <2>3
<1>3. PICK s : s = <<o>> \o p
  OBVIOUS
<1>4. /\ s \in Seq(T) /\ Len(s) = Len(p) + 1 /\ Len(p) \in Nat /\ s[1] = o
      /\ \A i \in 2..(Len(p) + 1) : s[i] = p[i - 1]
      /\ DOMAIN s = 1..(Len(p) + 1)
  BY <1>3, <1>13
<1>5. \A i, j \in 1..Len(p) : p[i] # "original" /\ (p[i] = p[j] => i = j)
  BY <1>1 DEF UploadBounds
<1>6. \A i \in 2..(Len(p) + 1) : s[i] # "original"
  <2>1. ASSUME NEW i \in 2..(Len(p) + 1) PROVE i - 1 \in 1..Len(p)
    BY <1>4
  <2> QED
    BY <1>4, <1>5, <2>1
<1>7. \A i, j \in 1..(Len(p) + 1) : s[i] = s[j] => i = j
  <2>1. ASSUME NEW i \in 1..(Len(p) + 1), NEW j \in 1..(Len(p) + 1), s[i] = s[j] PROVE i = j
    <3>1. CASE i = 1
      <4>1. j \notin 2..(Len(p) + 1)
        BY <1>4, <1>6, <1>11, <2>1, <3>1
      <4> QED
        BY <1>4, <3>1, <4>1
    <3>2. CASE i # 1
      <4>1. i \in 2..(Len(p) + 1)
        BY <1>4, <3>2
      <4>2. j # 1
        BY <1>4, <1>6, <1>11, <2>1, <4>1
      <4>3. j \in 2..(Len(p) + 1)
        BY <1>4, <4>2
      <4>4. i - 1 \in 1..Len(p) /\ j - 1 \in 1..Len(p) /\ p[i - 1] = p[j - 1]
        BY <1>4, <2>1, <4>1, <4>3
      <4>5. i - 1 = j - 1
        BY <1>5, <4>4
      <4> QED
        BY <4>5
    <3> QED
      BY <3>1, <3>2
  <2> QED
    BY <2>1
<1>8. s = Uploading!Kinds /\ Uploading!Wiped = Uploading!Kinds
  BY <1>1, <1>3, <1>11 DEF Uploading!Kinds, Uploading!Wiped
<1>9. s[1] \in {s[i] : i \in 1..(Len(p) + 1)}
  BY <1>4
<1>10. "original" \in Keys
  BY <1>1, <1>4, <1>8, <1>9, <1>11 DEF Keys
<1> QED
  BY <1>1, <1>4, <1>6, <1>7, <1>8, <1>10, <1>11

\* What the artifacts of a document and its deletion are at.
StageState == [at : 1..(Len(Pieces) + 1), pc : {"due", "running", "over"}]

StageInv ==
    /\ stage \in [Serials -> StageState]
    /\ \A d \in Serials :
          /\ stage[d].pc = "running" => stage[d].at <= Len(Pieces)
          /\ entry[d].state \in {"unborn", "inserted"} => stage[d].pc = "over"

\* The original is the first object of a document, its request knows whether it is there, and
\* what run_delete has passed is gone unless a stage put it back.
ObjectInv ==
    /\ object \subseteq Serials \X Keys
    /\ \A d \in Serials, k \in Keys : <<d, k>> \in object =>
          /\ entry[d].state # "unborn" /\ (entry[d].state = "inserted" => k = "original")
          /\ entry[d].state = "gone" => <<d, k>> \in orphans
    /\ \A r \in Uploaders :
          /\ upload[r].pc = "store" => <<upload[r].id, "original">> \notin object
          /\ upload[r].pc = "commit" => <<upload[r].id, "original">> \in object
    /\ \A d \in Serials : entry[d].state = "committed" /\ wipe[d].pc = "kept"
                          => <<d, "original">> \in object
    /\ \A d \in Serials, i \in 1..(Len(Pieces) + 1) :
          /\ wipe[d].pc = "running" /\ i < wipe[d].at /\ <<d, Uploading!Kinds[i]>> \in object
          => <<d, Uploading!Kinds[i]>> \in orphans

\* StageInv is kept where no stage goes on and no row becomes one that has no stages.
LEMMA StageSame ==
  ASSUME StageInv, stage' = stage,
         \A d \in Serials : entry'[d].state \in {"unborn", "inserted"} => stage[d].pc = "over"
  PROVE  StageInv'
BY DEF StageInv

\* StageInv is kept where the stages of one document go on.
LEMMA StageStep ==
  ASSUME StageInv, NEW d \in Serials, NEW s \in StageState, stage' = [stage EXCEPT ![d] = s],
         s.pc = "running" => s.at <= Len(Pieces),
         s.pc = "over" \/ entry'[d].state \notin {"unborn", "inserted"},
         \A e \in Serials : e # d /\ entry'[e].state \in {"unborn", "inserted"} => stage[e].pc = "over"
  PROVE  StageInv'
<1>1. /\ stage' \in [Serials -> StageState] /\ stage'[d] = s
      /\ \A e \in Serials : e # d => stage'[e] = stage[e]
  BY DEF StageInv
<1> QED
  BY <1>1 DEF StageInv

\* StageInv holds at first.
LEMMA StageInit ==
  ASSUME UploadBounds, Uploading!Init
  PROVE  StageInv
<1>1. PICK s : s = [at |-> 1, pc |-> "over"]
  OBVIOUS
<1>2. 1 \in 1..(Len(Pieces) + 1)
  BY KeysAre
<1>3. s \in StageState /\ s.pc = "over"
  BY <1>1, <1>2 DEF StageState
<1>4. stage = [d \in Serials |-> s]
  BY <1>1 DEF Uploading!Init
<1> QED
  BY <1>3, <1>4 DEF StageInv

\* StageInv is kept.
LEMMA StageNext ==
  ASSUME UploadBounds, EntryInv, WipeInv, StageInv, [Uploading!Next]_(Uploading!uploadVars)
  PROVE  StageInv'
<1>1. ASSUME UNCHANGED <<entry, stage>> PROVE StageInv'
  BY <1>1, StageSame DEF StageInv
<1>2. ASSUME NEW r \in Uploaders, Uploading!Insert(r)
      PROVE  StageInv'
  <2>1. CASE \E d \in Serials : Inserts(r, d)
    <3>1. PICK d \in Serials : Inserts(r, d)
      BY <2>1
    <3>2. PICK t \in EntryRow : entry' = [entry EXCEPT ![d] = t] /\ entry[d].state = "unborn"
      BY <3>1 DEF Inserts
    <3>3. \A e \in Serials : e # d => entry'[e] = entry[e]
      BY <3>2 DEF EntryInv
    <3>4. stage' = stage
      BY <1>2 DEF Uploading!Insert
    <3> QED
      BY <3>2, <3>3, <3>4, StageSame DEF StageInv
  <2>2. stage' = stage
    BY <1>2 DEF Uploading!Insert
  <2> QED
    BY <1>1, <1>2, <2>1, <2>2, InsertDoes
<1>3. ASSUME NEW r \in Uploaders,
             \/ Uploading!Store(r) /\ ~Uploading!To(r, "commit")
             \/ Uploading!DieUploading(r)
      PROVE  StageInv'
  <2>1. upload[r].pc \in Flushed /\ Uploading!RolledBack(upload[r].id) /\ stage' = stage
    BY <1>3, FailsDoes
  <2>2. PICK d \in Serials : d = upload[r].id /\ entry[d].state = "inserted"
    BY <2>1 DEF EntryInv
  <2>3. PICK z : z = Uploading!Gone
    OBVIOUS
  <2>4. entry' = [entry EXCEPT ![d] = z]
    BY <2>1, <2>2, <2>3 DEF Uploading!RolledBack
  <2>5. \A e \in Serials : e # d => entry'[e] = entry[e]
    BY <2>4 DEF EntryInv
  <2> QED
    BY <2>1, <2>2, <2>5, StageSame DEF StageInv
<1>4. ASSUME NEW r \in Uploaders, Uploading!Store(r), Uploading!To(r, "commit")
      PROVE  StageInv'
  BY <1>1, <1>4, StoreNext
<1>5. ASSUME NEW r \in Uploaders, Uploading!CommitUpload(r)
      PROVE  StageInv'
  <2>1. PICK d : d = upload[r].id
    OBVIOUS
  <2>2. /\ d \in Serials /\ entry'[d].state = "committed"
        /\ \A e \in Serials : e # d => entry'[e] = entry[e]
    BY <1>5, <2>1, CommitDoes
  <2>3. PICK s : s = stage[d]
    OBVIOUS
  <2>4. PICK t : t = [s EXCEPT !.pc = "due"]
    OBVIOUS
  <2>5. t \in StageState /\ t.pc = "due"
    BY <2>2, <2>3, <2>4 DEF StageInv, StageState
  <2>6. stage' = [stage EXCEPT ![d] = t]
    BY <1>5, <2>1, <2>3, <2>4 DEF Uploading!CommitUpload
  <2> QED
    BY <2>2, <2>5, <2>6, StageStep DEF StageInv
<1>6. ASSUME NEW d \in Serials, NEW p \in Spots, Uploading!Move(d, p)
      PROVE  StageInv'
  <2>1. stage' = stage
    BY <1>6 DEF Uploading!Move
  <2> QED
    BY <1>6, <2>1, MoveDoes, StageSame DEF StageInv
<1>7. ASSUME NEW d \in Serials, Uploading!RemoveRow(d)
      PROVE  StageInv'
  <2>1. entry'[d].state = "gone"
    BY <1>7, RemoveDoes, UnbornRow
  <2>2. stage' = stage
    BY <1>7 DEF Uploading!RemoveRow
  <2> QED
    BY <1>7, <2>1, <2>2, RemoveDoes, StageSame DEF StageInv
<1>8. ASSUME NEW d \in Serials,
             \/ Uploading!StartStage(d) \/ Uploading!PutArtifact(d) \/ Uploading!Reingest(d)
      PROVE  StageInv'
  <2>1. entry' = entry
    BY <1>8 DEF Uploading!StartStage, Uploading!PutArtifact, Uploading!Reingest
  <2>2. PICK s : s = stage[d]
    OBVIOUS
  <2>3. /\ s \in StageState /\ (s.pc = "running" => s.at <= Len(Pieces))
        /\ s.at \in 1..(Len(Pieces) + 1) /\ Len(Pieces) \in Nat
    BY <2>2, KeysAre DEF StageInv, StageState
  <2>4. entry[d].state \in {"unborn", "inserted"} => s.pc = "over"
    BY <2>2 DEF StageInv
  <2>5. PICK t : /\ t \in StageState /\ stage' = [stage EXCEPT ![d] = t]
                 /\ t.pc = "running" => t.at <= Len(Pieces)
                 /\ t.pc = "over" \/ entry[d].state \notin {"unborn", "inserted"}
    <3>1. CASE Uploading!StartStage(d)
      <4>1. PICK c : c = IF /\ s.at <= Len(Pieces) /\ d \in Uploading!Committed
                            /\ <<d, Uploading!Kinds[s.at]>> \in object
                         THEN "running" ELSE "over"
        OBVIOUS
      <4>2. PICK t : t = [s EXCEPT !.pc = c]
        OBVIOUS
      <4>3. t \in StageState /\ t.pc = c /\ t.at = s.at
        BY <2>3, <4>1, <4>2 DEF StageState
      <4>4. stage' = [stage EXCEPT ![d] = t] /\ s.pc = "due"
        BY <2>2, <3>1, <4>1, <4>2 DEF Uploading!StartStage
      <4> QED
        BY <2>4, <4>1, <4>3, <4>4
    <3>2. CASE Uploading!PutArtifact(d)
      <4>1. s.pc = "running" /\ entry[d].state \notin {"unborn", "inserted"}
        BY <2>2, <2>4, <3>2 DEF Uploading!PutArtifact
      <4>2. s.at + 1 \in 1..(Len(Pieces) + 1)
        BY <2>3, <4>1
      <4>3. PICK t : t = [at |-> s.at + 1, pc |-> "due"]
        OBVIOUS
      <4>4. PICK o : o = [s EXCEPT !.pc = "over"]
        OBVIOUS
      <4>5. t \in StageState /\ t.pc = "due" /\ o \in StageState /\ o.pc = "over"
        BY <2>3, <4>2, <4>3, <4>4 DEF StageState
      <4>6. stage' = [stage EXCEPT ![d] = t] \/ stage' = [stage EXCEPT ![d] = o]
        BY <2>2, <3>2, <4>3, <4>4 DEF Uploading!PutArtifact
      <4> QED
        BY <4>1, <4>5, <4>6
    <3>3. CASE Uploading!Reingest(d)
      <4>1. PICK t : t = [at |-> 1, pc |-> "due"]
        OBVIOUS
      <4>2. 1 \in 1..(Len(Pieces) + 1)
        BY <2>3
      <4>3. t \in StageState /\ t.pc = "due"
        BY <4>1, <4>2 DEF StageState
      <4>4. stage' = [stage EXCEPT ![d] = t] /\ entry[d].state = "committed"
        BY <3>3, <4>1 DEF Uploading!Reingest, Uploading!Committed
      <4> QED
        BY <4>3, <4>4
    <3> QED
      BY <1>8, <3>1, <3>2, <3>3
  <2> QED
    BY <2>1, <2>5, StageStep DEF StageInv
<1>9. ASSUME NEW d \in Serials,
             \/ Uploading!Delete(d) \/ Uploading!StartDelete(d) \/ Uploading!DeleteObject(d)
             \/ Uploading!DieDeleting(d)
      PROVE  UNCHANGED <<entry, stage>>
  BY <1>9 DEF Uploading!Delete, Uploading!StartDelete, Uploading!DeleteObject,
     Uploading!DieDeleting
<1>10. ASSUME NEW r \in Uploaders,
             \/ \E c \in Contents, p \in Spots : Uploading!Upload(r, c, p)
             \/ Uploading!FindDuplicate(r) \/ Uploading!FindPredecessor(r)
      PROVE  UNCHANGED <<entry, stage>>
  BY <1>10 DEF Uploading!Upload, Uploading!FindDuplicate, Uploading!FindPredecessor
<1>11. UNCHANGED Uploading!uploadVars => UNCHANGED <<entry, stage>>
  BY DEF Uploading!uploadVars
<1> QED
  BY <1>1, <1>2, <1>3, <1>4, <1>5, <1>6, <1>7, <1>8, <1>9, <1>10, <1>11 DEF Uploading!Next

\* ObjectInv holds at first.
LEMMA ObjectInit ==
  ASSUME UploadBounds, Uploading!Init
  PROVE  ObjectInv
<1>1. object = {}
  BY DEF Uploading!Init
<1>2. \A r \in Uploaders : upload[r].pc = "idle"
  BY IdleUpload DEF Uploading!Init
<1>3. \A d \in Serials : entry[d].state = "unborn"
  BY UnbornRow DEF Uploading!Init
<1> QED
  BY <1>1, <1>2, <1>3 DEF ObjectInv

\* The objects stay where they are.
LEMMA ObjectSame ==
  ASSUME UploadBounds, ObjectInv, UNCHANGED <<object, orphans>>,
         \A d \in Serials :
            /\ entry'[d].state = entry[d].state
            /\ wipe'[d].pc = "kept" => wipe[d].pc = "kept"
            /\ wipe'[d].pc = "running" => wipe'[d].at = 1 \/ wipe'[d] = wipe[d],
         \A r \in Uploaders : upload'[r].pc \in Flushed =>
            upload'[r].pc = upload[r].pc /\ upload'[r].id = upload[r].id
  PROVE  ObjectInv'
<1>1. \A d \in Serials, i \in 1..(Len(Pieces) + 1) :
          /\ wipe'[d].pc = "running" /\ i < wipe'[d].at /\ <<d, Uploading!Kinds[i]>> \in object'
          => <<d, Uploading!Kinds[i]>> \in orphans'
  <2>1. ASSUME NEW d \in Serials, NEW i \in 1..(Len(Pieces) + 1),
               wipe'[d].pc = "running" /\ i < wipe'[d].at /\ <<d, Uploading!Kinds[i]>> \in object'
        PROVE  <<d, Uploading!Kinds[i]>> \in orphans'
    <3>1. Len(Pieces) \in Nat
      BY KeysAre
    <3>2. wipe'[d].at # 1
      BY <2>1, <3>1
    <3>3. wipe'[d] = wipe[d]
      BY <2>1, <3>2
    <3> QED
      BY <2>1, <3>3 DEF ObjectInv
  <2> QED
    BY <2>1
<1>2. \A r \in Uploaders :
          /\ upload'[r].pc = "store" => <<upload'[r].id, "original">> \notin object'
          /\ upload'[r].pc = "commit" => <<upload'[r].id, "original">> \in object'
  BY DEF ObjectInv, Flushed
<1> QED
  BY <1>1, <1>2 DEF ObjectInv

\* A step that adds or takes away objects of one document d, which may come or go.
LEMMA ObjectStep ==
  ASSUME UploadBounds, EntryInv, WipeInv, ObjectInv, NEW d \in Serials,
         object' \subseteq Serials \X Keys,
         \A e \in Serials, k \in Keys : e # d =>
            /\ <<e, k>> \in object' <=> <<e, k>> \in object
            /\ <<e, k>> \in orphans' <=> <<e, k>> \in orphans,
         \A e \in Serials : e # d => entry'[e].state = entry[e].state /\ wipe'[e] = wipe[e],
         \A k \in Keys : <<d, k>> \in object' =>
            /\ entry'[d].state # "unborn" /\ (entry'[d].state = "inserted" => k = "original")
            /\ entry'[d].state = "gone" => <<d, k>> \in orphans',
         entry'[d].state = "committed" /\ wipe'[d].pc = "kept" => <<d, "original">> \in object',
         \A i \in 1..(Len(Pieces) + 1) :
            /\ wipe'[d].pc = "running" /\ i < wipe'[d].at /\ <<d, Uploading!Kinds[i]>> \in object'
            => <<d, Uploading!Kinds[i]>> \in orphans',
         \A r \in Uploaders : upload'[r].pc \in Flushed =>
            \/ /\ upload'[r].id \in Serials \ {d} /\ upload'[r].pc = upload[r].pc
               /\ upload'[r].id = upload[r].id
            \/ /\ upload'[r].id = d
               /\ upload'[r].pc = "commit" <=> <<d, "original">> \in object'
  PROVE  ObjectInv'
<1>1. "original" \in Keys /\ \A i \in 1..(Len(Pieces) + 1) : Uploading!Kinds[i] \in Keys
  BY KeysAre DEF Keys
<1>2. \A e \in Serials, k \in Keys : <<e, k>> \in object' =>
          /\ entry'[e].state # "unborn" /\ (entry'[e].state = "inserted" => k = "original")
          /\ entry'[e].state = "gone" => <<e, k>> \in orphans'
  BY DEF ObjectInv
<1>3. \A r \in Uploaders :
          /\ upload'[r].pc = "store" => <<upload'[r].id, "original">> \notin object'
          /\ upload'[r].pc = "commit" => <<upload'[r].id, "original">> \in object'
  BY <1>1 DEF ObjectInv, Flushed
<1>4. \A e \in Serials : entry'[e].state = "committed" /\ wipe'[e].pc = "kept"
                          => <<e, "original">> \in object'
  BY <1>1 DEF ObjectInv
<1>5. \A e \in Serials, i \in 1..(Len(Pieces) + 1) :
          /\ wipe'[e].pc = "running" /\ i < wipe'[e].at /\ <<e, Uploading!Kinds[i]>> \in object'
          => <<e, Uploading!Kinds[i]>> \in orphans'
  BY <1>1 DEF ObjectInv
<1> QED
  BY <1>2, <1>3, <1>4, <1>5 DEF ObjectInv

\* ObjectInv is kept.
LEMMA ObjectNext ==
  ASSUME UploadBounds, EntryInv, WipeInv, StageInv, ObjectInv,
         [Uploading!Next]_(Uploading!uploadVars)
  PROVE  ObjectInv'
<1>1. ASSUME UNCHANGED <<entry, object, wipe, orphans, upload>>
      PROVE  ObjectInv'
  BY <1>1, ObjectSame
<1>2. ASSUME NEW r \in Uploaders,
             \/ \E c \in Contents, p \in Spots : Uploading!Upload(r, c, p)
             \/ Uploading!FindDuplicate(r) \/ Uploading!FindPredecessor(r)
      PROVE  ObjectInv'
  <2>1. UNCHANGED <<entry, object, wipe, orphans>>
    BY <1>2 DEF Uploading!Upload, Uploading!FindDuplicate, Uploading!FindPredecessor
  <2>2. PICK u \in UploadTask : upload' = [upload EXCEPT ![r] = u] /\ u.pc \notin Flushed
    BY <1>2, SearchDoes
  <2>3. upload'[r] = u /\ \A q \in Uploaders : q # r => upload'[q] = upload[q]
    BY <2>2, UploadStep
  <2> QED
    BY <2>1, <2>2, <2>3, ObjectSame
<1>3. ASSUME NEW r \in Uploaders, Uploading!Insert(r)
      PROVE  ObjectInv'
  <2>1. UNCHANGED <<object, wipe, orphans>>
    BY <1>3 DEF Uploading!Insert
  <2>2. CASE GivesUp(r) /\ UNCHANGED entry
    <3>1. upload'[r].pc = "idle" /\ \A q \in Uploaders : q # r => upload'[q] = upload[q]
      BY <2>2, UploadStep, IdleUpload DEF GivesUp
    <3> QED
      BY <2>1, <2>2, <3>1, ObjectSame DEF Flushed
  <2>3. CASE \E d \in Serials : Inserts(r, d)
    <3>1. PICK d \in Serials : Inserts(r, d)
      BY <2>3
    <3>2. PICK t \in EntryRow : t.state = "inserted" /\ entry' = [entry EXCEPT ![d] = t]
      BY <3>1 DEF Inserts
    <3>3. PICK w \in UploadTask : w.pc = "store" /\ w.id = d /\ upload' = [upload EXCEPT ![r] = w]
      BY <3>1 DEF Inserts
    <3>4. upload'[r] = w /\ \A q \in Uploaders : q # r => upload'[q] = upload[q]
      BY <3>3, UploadStep
    <3>5. entry'[d] = t /\ \A e \in Serials : e # d => entry'[e] = entry[e]
      BY <3>2 DEF EntryInv
    <3>6. entry[d].state = "unborn"
      BY <3>1 DEF Inserts
    <3>7. \A k \in Keys : <<d, k>> \notin object
      BY <3>6 DEF ObjectInv
    <3>8. \A q \in Uploaders : q # r /\ upload'[q].pc \in Flushed =>
             upload'[q].id \in Serials \ {d}
      BY <3>4, <3>6 DEF EntryInv
    <3>9. wipe[d].pc = "kept"
      BY <3>6 DEF WipeInv
    <3>10. <<d, "original">> \notin object
      BY <3>7, KeysAre
    <3>11. \A q \in Uploaders : upload'[q].pc \in Flushed =>
            \/ /\ upload'[q].id \in Serials \ {d} /\ upload'[q].pc = upload[q].pc
               /\ upload'[q].id = upload[q].id
            \/ /\ upload'[q].id = d
               /\ upload'[q].pc = "commit" <=> <<d, "original">> \in object'
      BY <2>1, <3>3, <3>4, <3>8, <3>10
    <3>12. object' \subseteq Serials \X Keys
      BY <2>1 DEF ObjectInv
    <3> QED
      BY <2>1, <3>2, <3>5, <3>7, <3>9, <3>11, <3>12, ObjectStep
  <2> QED
    BY <1>3, <2>2, <2>3, InsertDoes
<1>4. ASSUME NEW r \in Uploaders,
             \/ Uploading!Store(r) /\ ~Uploading!To(r, "commit")
             \/ Uploading!DieUploading(r)
      PROVE  ObjectInv'
  <2>1. /\ upload[r].pc \in Flushed /\ GivesUp(r) /\ Uploading!RolledBack(upload[r].id)
        /\ wipe' = wipe
    BY <1>4, FailsDoes
  <2>2. PICK d \in Serials : d = upload[r].id /\ entry[d].state = "inserted"
    BY <2>1 DEF EntryInv
  <2>3. PICK z : z = Uploading!Gone
    OBVIOUS
  <2>4. entry' = [entry EXCEPT ![d] = z] /\ z.state = "gone"
    BY <2>1, <2>2, <2>3, UnbornRow DEF Uploading!RolledBack
  <2>5. entry'[d] = z /\ \A e \in Serials : e # d => entry'[e] = entry[e]
    BY <2>4 DEF EntryInv
  <2>6. upload'[r].pc = "idle" /\ \A q \in Uploaders : q # r => upload'[q] = upload[q]
    BY <2>1, UploadStep, IdleUpload DEF GivesUp
  <2>7. PICK n : n = <<d, "original">>
    OBVIOUS
  <2>8. /\ object \subseteq object' /\ object' \subseteq object \union {n}
        /\ orphans' = orphans \union (object' \intersect {n})
    <3>1. CASE Uploading!DieUploading(r)
      BY <2>2, <2>7, <3>1 DEF Uploading!DieUploading
    <3>2. CASE Uploading!Store(r) /\ ~Uploading!To(r, "commit")
      <4>1. n \notin object
        BY <2>2, <2>7, <3>2 DEF ObjectInv, Uploading!Store
      <4> QED
        BY <2>2, <2>7, <3>2, <4>1 DEF Uploading!Store
    <3> QED
      BY <1>4, <3>1, <3>2
  <2>9. \A e \in Serials, k \in Keys : e # d => <<e, k>> # n
    BY <2>7
  <2>10. \A k \in Keys : <<d, k>> \in object' => <<d, k>> \in orphans'
    <3>1. \A k \in Keys : <<d, k>> \in object => <<d, k>> = n
      BY <2>2, <2>7 DEF ObjectInv
    <3> QED
      BY <2>8, <3>1
  <2>11. \A e \in Serials, k \in Keys : e # d =>
            /\ <<e, k>> \in object' <=> <<e, k>> \in object
            /\ <<e, k>> \in orphans' <=> <<e, k>> \in orphans
    BY <2>8, <2>9
  <2>12. object' \subseteq Serials \X Keys
    <3>1. n \in Serials \X Keys
      BY <2>7, KeysAre
    <3> QED
      BY <2>8, <3>1 DEF ObjectInv
  <2>13. \A q \in Uploaders : upload'[q].pc \in Flushed =>
            /\ upload'[q].id \in Serials \ {d} /\ upload'[q].pc = upload[q].pc
            /\ upload'[q].id = upload[q].id
    BY <2>1, <2>2, <2>6 DEF EntryInv, Flushed
  <2>14. wipe[d].pc = "kept"
    BY <2>2 DEF WipeInv
  <2> QED
    BY <2>1, <2>4, <2>5, <2>10, <2>11, <2>12, <2>13, <2>14, ObjectStep
<1>5. ASSUME NEW r \in Uploaders, Uploading!Store(r), Uploading!To(r, "commit")
      PROVE  ObjectInv'
  <2>1. PICK d : d = upload[r].id
    OBVIOUS
  <2>2. /\ upload[r].pc = "store" /\ d \in Serials /\ entry[d].state = "inserted"
        /\ object' = object \union {<<d, "original">>}
        /\ UNCHANGED <<entry, stage, wipe, orphans>>
    BY <1>5, <2>1, StoreNext
  <2>3. /\ upload'[r].pc = "commit" /\ upload'[r].id = d
        /\ \A q \in Uploaders : q # r => upload'[q] = upload[q]
    BY <1>5, <2>1, <2>2, CommitNext
  <2>4. wipe[d].pc = "kept"
    BY <2>2 DEF WipeInv
  <2>5. \A q \in Uploaders : q # r /\ upload[q].pc \in Flushed => upload[q].id \in Serials \ {d}
    BY <2>1, <2>2 DEF EntryInv, Flushed
  <2>6. \A e \in Serials, k \in Keys : e # d => (<<e, k>> \in object' <=> <<e, k>> \in object)
    BY <2>2
  <2>7. \A k \in Keys : <<d, k>> \in object' => k = "original"
    BY <2>2 DEF ObjectInv
  <2>8. object' \subseteq Serials \X Keys
    BY <2>2, KeysAre DEF ObjectInv
  <2>9. <<d, "original">> \in object'
    BY <2>2
  <2>10. \A q \in Uploaders : upload'[q].pc \in Flushed =>
            \/ /\ upload'[q].id \in Serials \ {d} /\ upload'[q].pc = upload[q].pc
               /\ upload'[q].id = upload[q].id
            \/ /\ upload'[q].id = d
               /\ upload'[q].pc = "commit" <=> <<d, "original">> \in object'
    BY <2>3, <2>5, <2>9
  <2> QED
    BY <2>2, <2>4, <2>6, <2>7, <2>8, <2>9, <2>10, ObjectStep
<1>6. ASSUME NEW r \in Uploaders, Uploading!CommitUpload(r)
      PROVE  ObjectInv'
  <2>1. PICK d : d = upload[r].id
    OBVIOUS
  <2>2. /\ upload[r].pc = "commit" /\ d \in Serials /\ GivesUp(r)
        /\ entry[d].state = "inserted" /\ entry'[d].state = "committed"
        /\ \A e \in Serials : e # d => entry'[e] = entry[e]
    BY <1>6, <2>1, CommitDoes
  <2>3. UNCHANGED <<object, wipe, orphans>>
    BY <1>6 DEF Uploading!CommitUpload
  <2>4. upload'[r].pc = "idle" /\ \A q \in Uploaders : q # r => upload'[q] = upload[q]
    BY <2>2, UploadStep, IdleUpload DEF GivesUp
  <2>5. \A q \in Uploaders : upload'[q].pc \in Flushed =>
            /\ upload'[q].id \in Serials \ {d} /\ upload'[q].pc = upload[q].pc
            /\ upload'[q].id = upload[q].id
    BY <2>1, <2>2, <2>4 DEF EntryInv, Flushed
  <2>6. <<d, "original">> \in object /\ wipe[d].pc = "kept"
    BY <2>1, <2>2 DEF ObjectInv, WipeInv
  <2>7. object' \subseteq Serials \X Keys
    BY <2>3 DEF ObjectInv
  <2> QED
    BY <2>2, <2>3, <2>5, <2>6, <2>7, ObjectStep
<1>7. ASSUME NEW d \in Serials, NEW p \in Spots, Uploading!Move(d, p)
      PROVE  ObjectInv'
  <2>1. UNCHANGED <<object, wipe, orphans, upload>>
    BY <1>7 DEF Uploading!Move
  <2>2. \A e \in Serials : entry'[e].state = entry[e].state
    BY <1>7, MoveDoes
  <2> QED
    BY <2>1, <2>2, ObjectSame
<1>8. ASSUME NEW d \in Serials, Uploading!RemoveRow(d)
      PROVE  ObjectInv'
  <2>1. /\ entry'[d].state = "gone" /\ upload' = upload
        /\ \A e \in Serials : e # d => entry'[e].state = entry[e].state
    BY <1>8, RemoveDoes, UnbornRow
  <2>2. /\ UNCHANGED <<object, orphans>> /\ wipe[d].pc = "running" /\ wipe[d].at > Len(Pieces) + 1
        /\ wipe' = [wipe EXCEPT ![d] = [pc |-> "kept", at |-> 1]]
    BY <1>8, KeysAre DEF Uploading!RemoveRow
  <2>3. wipe'[d].pc = "kept" /\ \A e \in Serials : e # d => wipe'[e] = wipe[e]
    BY <2>2 DEF WipeInv
  <2>4. entry[d].state = "committed"
    BY <2>2 DEF WipeInv
  <2>5. \A k \in Keys : <<d, k>> \in object => <<d, k>> \in orphans
    <3>1. wipe[d].at \in Nat /\ Len(Pieces) \in Nat
      BY KeysAre DEF WipeInv
    <3>2. \A i \in 1..(Len(Pieces) + 1) : i < wipe[d].at
      BY <2>2, <3>1
    <3> QED
      BY <2>2, <3>2 DEF ObjectInv, Keys
  <2>6. \A q \in Uploaders : upload'[q].pc \in Flushed =>
            /\ upload'[q].id \in Serials \ {d} /\ upload'[q].pc = upload[q].pc
            /\ upload'[q].id = upload[q].id
    BY <2>1, <2>4 DEF EntryInv
  <2>7. object' \subseteq Serials \X Keys
    BY <2>2 DEF ObjectInv
  <2> QED
    BY <2>1, <2>2, <2>3, <2>5, <2>6, <2>7, ObjectStep
<1>9. ASSUME NEW d \in Serials, Uploading!PutArtifact(d)
      PROVE  ObjectInv'
  <2>1. PICK n \in 2..(Len(Pieces) + 1) : n = stage[d].at + 1
    <3>1. stage[d].pc = "running" /\ stage[d] \in StageState /\ Len(Pieces) \in Nat
      BY <1>9, KeysAre DEF StageInv, Uploading!PutArtifact
    <3>2. stage[d].at \in 1..Len(Pieces)
      BY <3>1 DEF StageInv, StageState
    <3>3. stage[d].at + 1 \in 2..(Len(Pieces) + 1)
      BY <3>1, <3>2
    <3> QED
      BY <3>3
  <2>2. /\ n \in 1..(Len(Pieces) + 1) /\ Uploading!Kinds[n] \in Keys
        /\ Uploading!Kinds[n] # "original"
    BY KeysAre DEF Keys
  <2>3. PICK a : a = <<d, Uploading!Kinds[n]>>
    OBVIOUS
  <2>4. /\ UNCHANGED <<entry, upload, wipe>> /\ object' = object \union {a}
        /\ orphans' = IF d \notin Uploading!Committed \/ (wipe[d].pc = "running" /\ wipe[d].at > n)
                      THEN orphans \union {a} ELSE orphans
    BY <1>9, <2>1, <2>3 DEF Uploading!PutArtifact
  <2>5. entry[d].state \notin {"unborn", "inserted"}
    BY <1>9 DEF StageInv, Uploading!PutArtifact
  <2>6. orphans \subseteq orphans'
    BY <2>4
  <2>7. \A e \in Serials, k \in Keys : e # d => <<e, k>> # a
    BY <2>3
  <2>8. \A e \in Serials, k \in Keys : e # d =>
            /\ <<e, k>> \in object' <=> <<e, k>> \in object
            /\ <<e, k>> \in orphans' <=> <<e, k>> \in orphans
    BY <2>4, <2>7
  <2>9. \A k \in Keys : <<d, k>> \in object' /\ entry[d].state = "gone" => <<d, k>> \in orphans'
    <3>1. entry[d].state = "gone" => a \in orphans'
      BY <2>4 DEF Uploading!Committed
    <3> QED
      BY <2>4, <2>6, <3>1 DEF ObjectInv
  <2>10. \A i \in 1..(Len(Pieces) + 1) :
            /\ wipe[d].pc = "running" /\ i < wipe[d].at /\ <<d, Uploading!Kinds[i]>> \in object'
            => <<d, Uploading!Kinds[i]>> \in orphans'
    <3>1. ASSUME NEW i \in 1..(Len(Pieces) + 1), wipe[d].pc = "running", i < wipe[d].at,
                 <<d, Uploading!Kinds[i]>> \in object'
          PROVE  <<d, Uploading!Kinds[i]>> \in orphans'
      <4>1. CASE <<d, Uploading!Kinds[i]>> \in object
        BY <2>6, <3>1, <4>1 DEF ObjectInv
      <4>2. CASE <<d, Uploading!Kinds[i]>> = a
        <5>1. i = n
          BY <2>2, <2>3, <4>2, KeysAre
        <5>2. i > 0 /\ wipe[d].at \in Nat
          BY KeysAre DEF WipeInv
        <5> QED
          BY <2>4, <3>1, <4>2, <5>1, <5>2
      <4> QED
        BY <2>4, <3>1, <4>1, <4>2
    <3> QED
      BY <3>1
  <2>11. object' \subseteq Serials \X Keys
    BY <2>2, <2>3, <2>4 DEF ObjectInv
  <2>12. entry[d].state = "committed" /\ wipe[d].pc = "kept" => <<d, "original">> \in object'
    BY <2>4 DEF ObjectInv
  <2>13. \A q \in Uploaders : upload'[q].pc \in Flushed =>
            /\ upload'[q].id \in Serials \ {d} /\ upload'[q].pc = upload[q].pc
            /\ upload'[q].id = upload[q].id
    BY <2>4, <2>5 DEF EntryInv
  <2> QED
    BY <2>4, <2>5, <2>8, <2>9, <2>10, <2>11, <2>12, <2>13, ObjectStep
<1>10. ASSUME NEW d \in Serials, Uploading!DeleteObject(d)
       PROVE  ObjectInv'
  <2>1. PICK n : n = wipe[d].at
    OBVIOUS
  <2>2. n \in 1..(Len(Pieces) + 1) /\ wipe[d].pc = "running" /\ Len(Pieces) \in Nat
    BY <1>10, <2>1, KeysAre DEF Uploading!DeleteObject, WipeInv
  <2>3. PICK a : a = <<d, Uploading!Kinds[n]>>
    OBVIOUS
  <2>4. /\ UNCHANGED <<entry, upload>> /\ object' = object \ {a} /\ orphans' = orphans \ {a}
    BY <1>10, <2>1, <2>3, KeysAre DEF Uploading!DeleteObject
  <2>5. /\ wipe'[d].pc = "running" /\ wipe'[d].at = n + 1
        /\ \A e \in Serials : e # d => wipe'[e] = wipe[e]
    <3>1. PICK w : w = wipe[d]
      OBVIOUS
    <3>2. PICK x : x = [w EXCEPT !.at = w.at + 1]
      OBVIOUS
    <3>3. wipe' = [wipe EXCEPT ![d] = x]
      BY <1>10, <3>1, <3>2 DEF Uploading!DeleteObject, WipeInv
    <3>4. x.pc = "running" /\ x.at = n + 1
      BY <2>1, <2>2, <3>1, <3>2 DEF WipeInv
    <3> QED
      BY <3>3, <3>4 DEF WipeInv
  <2>6. entry[d].state = "committed"
    BY <2>2 DEF WipeInv
  <2>7. \A e \in Serials, k \in Keys : e # d => <<e, k>> # a
    BY <2>3
  <2>8. \A e \in Serials, k \in Keys : e # d =>
            /\ <<e, k>> \in object' <=> <<e, k>> \in object
            /\ <<e, k>> \in orphans' <=> <<e, k>> \in orphans
    BY <2>4, <2>7
  <2>9. \A i \in 1..(Len(Pieces) + 1) :
            /\ i < n + 1 /\ <<d, Uploading!Kinds[i]>> \in object'
            => <<d, Uploading!Kinds[i]>> \in orphans'
    <3>1. ASSUME NEW i \in 1..(Len(Pieces) + 1), i < n + 1, <<d, Uploading!Kinds[i]>> \in object'
          PROVE  <<d, Uploading!Kinds[i]>> \in orphans'
      <4>1. <<d, Uploading!Kinds[i]>> \in object /\ <<d, Uploading!Kinds[i]>> # a
        BY <2>4, <3>1
      <4>2. i # n
        BY <2>3, <4>1
      <4>3. i < n
        BY <2>2, <3>1, <4>2
      <4> QED
        BY <2>1, <2>2, <2>4, <4>1, <4>3 DEF ObjectInv
    <3> QED
      BY <3>1
  <2>10. object' \subseteq Serials \X Keys
    BY <2>4 DEF ObjectInv
  <2>11. \A q \in Uploaders : upload'[q].pc \in Flushed =>
            /\ upload'[q].id \in Serials \ {d} /\ upload'[q].pc = upload[q].pc
            /\ upload'[q].id = upload[q].id
    BY <2>4, <2>6 DEF EntryInv
  <2>12. \A i \in 1..(Len(Pieces) + 1) :
            /\ wipe'[d].pc = "running" /\ i < wipe'[d].at /\ <<d, Uploading!Kinds[i]>> \in object'
            => <<d, Uploading!Kinds[i]>> \in orphans'
    BY <2>5, <2>9
  <2>13. /\ \A e \in Serials : e # d => entry'[e].state = entry[e].state /\ wipe'[e] = wipe[e]
         /\ entry'[d].state = "committed" /\ wipe'[d].pc # "kept"
    BY <2>4, <2>5, <2>6
  <2> QED
    BY <2>8, <2>10, <2>11, <2>12, <2>13, ObjectStep
<1>11. ASSUME NEW d \in Serials,
              Uploading!Delete(d) \/ Uploading!StartDelete(d) \/ Uploading!DieDeleting(d)
       PROVE  ObjectInv'
  <2>1. UNCHANGED <<entry, object, orphans, upload>>
    BY <1>11 DEF Uploading!Delete, Uploading!StartDelete, Uploading!DieDeleting
  <2>2. PICK w : w = wipe[d]
    OBVIOUS
  <2>3. PICK x : /\ x \in {[w EXCEPT !.pc = "due"], [pc |-> "running", at |-> 1], [pc |-> "due", at |-> 1]}
                 /\ wipe' = [wipe EXCEPT ![d] = x]
    BY <1>11, <2>2 DEF Uploading!Delete, Uploading!StartDelete, Uploading!DieDeleting, WipeInv
  <2>4. wipe'[d] = x /\ \A e \in Serials : e # d => wipe'[e] = wipe[e]
    BY <2>3 DEF WipeInv
  <2>5. x.pc # "kept" /\ (x.pc = "running" => x.at = 1)
    BY <2>2, <2>3 DEF WipeInv
  <2> QED
    BY <2>1, <2>4, <2>5, ObjectSame
<1>12. ASSUME NEW d \in Serials, Uploading!StartStage(d) \/ Uploading!Reingest(d)
       PROVE  UNCHANGED <<entry, object, wipe, orphans, upload>>
  BY <1>12 DEF Uploading!StartStage, Uploading!Reingest
<1>13. UNCHANGED Uploading!uploadVars => UNCHANGED <<entry, object, wipe, orphans, upload>>
  BY DEF Uploading!uploadVars
<1> QED
  BY <1>1, <1>2, <1>3, <1>4, <1>5, <1>6, <1>7, <1>8, <1>9, <1>10, <1>11, <1>12, <1>13
     DEF Uploading!Next

\* An upload that has looked for its predecessor, and that no other upload to its place and no
\* move to it has overtaken: it is alone there, and its row follows all that are stored there.
Knows(rows, u) ==
    /\ u.pc \in {"duplicate", "predecessor"} => u.pred = 0
    /\ u.pc = "insert" /\ u.pred # 0 => rows[u.pred].state \in {"committed", "gone"}
Alone(tasks, places, r) ==
    tasks[r].pc \in Pending /\ tasks[r].place \notin places =>
        \A q \in Uploaders : tasks[q].pc \in Pending /\ tasks[q].place = tasks[r].place => q = r
Follows(rows, u, d) ==
    /\ u.pc = "insert" =>
          /\ u.pred # 0
          /\ rows[u.pred].state = "committed" =>
                rows[d].lineage = rows[u.pred].lineage /\ rows[d].version <= rows[u.pred].version
    /\ u.pc \in Flushed =>
          /\ d < u.id /\ rows[d].lineage = rows[u.id].lineage
          /\ rows[d].version < rows[u.id].version

NewestInv ==
    /\ Uploading!NewestSucceeds
    /\ \A r \in Uploaders :
          /\ Knows(entry, upload[r]) /\ Alone(upload, mixed, r)
          /\ \A d \in Serials :
                /\ upload[r].place \notin mixed
                /\ entry[d].state = "committed" /\ entry[d].place = upload[r].place
                => Follows(entry, upload[r], d)

\* NewestInv holds at first.
LEMMA NewestInit ==
  ASSUME UploadBounds, Uploading!Init
  PROVE  NewestInv
<1>1. \A r \in Uploaders : upload[r].pc = "idle"
  BY IdleUpload DEF Uploading!Init
<1>2. \A d \in Serials : entry[d].state = "unborn"
  BY UnbornRow DEF Uploading!Init
<1> QED
  BY <1>1, <1>2 DEF NewestInv, Uploading!NewestSucceeds, Uploading!Committed, Pending, Flushed,
     Knows, Alone

\* A step that stores nothing new and looks for no predecessor.
LEMMA NewestSame ==
  ASSUME UploadBounds, EntryInv, NewestInv, mixed \subseteq mixed',
         \A d \in Serials :
            /\ entry[d].state \in {"committed", "gone"} => entry'[d].state \in {"committed", "gone"}
            /\ entry'[d].state = "committed" =>
                  /\ entry[d].state = "committed"
                  /\ entry'[d].lineage = entry[d].lineage /\ entry'[d].version = entry[d].version
                  /\ entry'[d].place \notin mixed' => entry'[d].place = entry[d].place,
         \A r \in Uploaders :
            /\ upload'[r].pc \in {"duplicate", "predecessor"} =>
                  upload'[r].pred = 0 \/ (upload[r].pc = "duplicate" /\ upload'[r].pred = upload[r].pred)
            /\ upload'[r].pc \in Pending =>
                  /\ upload[r].pc \in Pending /\ (upload'[r].pc = "insert" <=> upload[r].pc = "insert")
                  /\ upload'[r].place = upload[r].place
            /\ upload'[r].pc = "insert" => upload'[r].pred = upload[r].pred
            /\ upload'[r].pc \in Flushed =>
                  /\ upload'[r].id = upload[r].id
                  /\ entry'[upload[r].id].lineage = entry[upload[r].id].lineage
                  /\ entry'[upload[r].id].version = entry[upload[r].id].version
  PROVE  NewestInv'
<1>1. Uploading!NewestSucceeds'
  BY DEF NewestInv, Uploading!NewestSucceeds, Uploading!Committed
<1>2. ASSUME NEW r \in Uploaders PROVE Knows(entry', upload'[r])
  <2>1. upload'[r].pc \in {"duplicate", "predecessor"} => upload'[r].pred = 0
    BY DEF NewestInv, Knows
  <2>2. ASSUME upload'[r].pc = "insert", upload'[r].pred # 0
        PROVE  entry'[upload'[r].pred].state \in {"committed", "gone"}
    <3>1. upload[r].pc = "insert" /\ upload'[r].pred = upload[r].pred
      BY <2>2 DEF Pending
    <3>2. upload[r].pred \in Serials
      BY <2>2, <3>1 DEF EntryInv, UploadTask, Numbered
    <3> QED
      BY <2>2, <3>1, <3>2 DEF NewestInv, Knows
  <2> QED
    BY <2>1, <2>2 DEF Knows
<1>3. ASSUME NEW r \in Uploaders PROVE Alone(upload', mixed', r)
  BY DEF NewestInv, Alone
<1>4. ASSUME NEW r \in Uploaders, NEW d \in Serials, upload'[r].place \notin mixed',
             entry'[d].state = "committed" /\ entry'[d].place = upload'[r].place
      PROVE  Follows(entry', upload'[r], d)
  <2>1. /\ entry[d].state = "committed" /\ entry'[d].place = entry[d].place
        /\ entry'[d].lineage = entry[d].lineage /\ entry'[d].version = entry[d].version
    BY <1>4
  <2>2. upload'[r].pc \in Pending => Follows(entry, upload[r], d)
    BY <1>4, <2>1 DEF NewestInv
  <2>3. ASSUME upload'[r].pc = "insert"
        PROVE  /\ upload'[r].pred # 0
               /\ entry'[upload'[r].pred].state = "committed" =>
                     /\ entry'[d].lineage = entry'[upload'[r].pred].lineage
                     /\ entry'[d].version <= entry'[upload'[r].pred].version
    <3>1. upload[r].pc = "insert" /\ upload'[r].pred = upload[r].pred
      BY <2>3 DEF Pending
    <3>2. upload[r].pred # 0
      BY <2>2, <2>3, <3>1 DEF Follows, Pending
    <3>3. upload[r].pred \in Serials
      BY <3>2 DEF EntryInv, UploadTask, Numbered
    <3>4. entry[upload[r].pred].state = "committed" =>
             /\ entry[d].lineage = entry[upload[r].pred].lineage
             /\ entry[d].version <= entry[upload[r].pred].version
      BY <2>2, <2>3, <3>1 DEF Follows, Pending
    <3> QED
      BY <2>1, <3>1, <3>2, <3>3, <3>4
  <2>4. ASSUME upload'[r].pc \in Flushed
        PROVE  /\ d < upload'[r].id /\ entry'[d].lineage = entry'[upload'[r].id].lineage
               /\ entry'[d].version < entry'[upload'[r].id].version
    <3>1. upload[r].pc \in Flushed /\ upload'[r].id = upload[r].id
      BY <2>4 DEF Pending, Flushed
    <3>2. /\ d < upload[r].id /\ entry[d].lineage = entry[upload[r].id].lineage
          /\ entry[d].version < entry[upload[r].id].version
      BY <2>2, <2>4, <3>1 DEF Follows, Pending
    <3> QED
      BY <2>1, <2>4, <3>1, <3>2
  <2> QED
    BY <2>3, <2>4 DEF Follows
<1> QED
  BY <1>1, <1>2, <1>3, <1>4 DEF NewestInv

\* A place where a document is stored has a newest one.
LEMMA NewestExists ==
  ASSUME UploadBounds, EntryInv, NEW d \in Serials, entry[d].state = "committed"
  PROVE  Uploading!Newest(entry[d].place) # {}
<1>1. PICK n \in Nat : Serials = 1..n
  BY DEF UploadBounds
<1> DEFINE here == {e \in Serials : entry[e].state = "committed" /\ entry[e].place = entry[d].place}
           S == {n - entry[e].version : e \in here}
<1>2. \A e \in here : entry[e].version \in Nat /\ entry[e].version <= n
  <2>1. ASSUME NEW e \in here PROVE entry[e].version \in Nat /\ entry[e].version <= n
    <3>1. entry[e].version \in Nat /\ entry[e].version <= e
      BY DEF EntryInv, EntryRow
    <3>2. e \in Nat /\ e <= n
      BY <1>1
    <3> QED
      BY <1>1, <3>1, <3>2
  <2> QED
    BY <2>1
<1>3. S \subseteq Nat /\ S # {}
  <2>1. d \in here
    OBVIOUS
  <2> HIDE DEF here
  <2> QED
    BY <1>1, <1>2, <2>1
<1>4. PICK m \in S : \A k \in S : m <= k
  <2> HIDE DEF S
  <2> QED
    BY <1>3, LeastNat
<1>5. PICK e \in here : m = n - entry[e].version
  BY <1>4
<1>6. \A f \in here : entry[f].version <= entry[e].version
  <2>1. ASSUME NEW f \in here PROVE entry[f].version <= entry[e].version
    <3>1. n - entry[e].version <= n - entry[f].version
      BY <1>4, <1>5
    <3> QED
      BY <1>1, <1>2, <3>1
  <2> QED
    BY <2>1
<1>7. e \in Uploading!Newest(entry[d].place)
  BY <1>6 DEF Uploading!Newest, Uploading!Committed
<1> QED
  BY <1>7

\* An upload looks for its predecessor.
LEMMA NewestFound ==
  ASSUME UploadBounds, EntryInv, NewestInv, NEW r \in Uploaders, Uploading!FindPredecessor(r)
  PROVE  NewestInv'
<1>1. PICK t : t = upload[r]
  OBVIOUS
<1>2. PICK p : p = t.place
  OBVIOUS
<1>3. t \in UploadTask /\ t.pc = "predecessor" /\ t.pred = 0 /\ UNCHANGED entry
  BY <1>1 DEF EntryInv, NewestInv, Knows, Uploading!FindPredecessor
<1>4. PICK u \in UploadTask :
         /\ u.pc = "insert" /\ u.place = p /\ upload' = [upload EXCEPT ![r] = u]
         /\ \/ Uploading!Newest(p) = {} /\ u.pred = 0
            \/ u.pred \in Uploading!Newest(p)
  <2>1. PICK w : w = [t EXCEPT !.pc = "insert"]
    OBVIOUS
  <2>2. w \in UploadTask /\ w.pc = "insert" /\ w.pred = 0 /\ w.place = p
    BY <1>2, <1>3, <2>1 DEF UploadTask
  <2>3. CASE Uploading!Newest(p) = {} /\ Uploading!To(r, "insert")
    <3>1. upload' = [upload EXCEPT ![r] = w]
      BY <1>1, <2>1, <2>3 DEF Uploading!To, EntryInv
    <3> QED
      BY <2>2, <2>3, <3>1
  <2>4. CASE \E d \in Uploading!Newest(p) :
                upload' = [upload EXCEPT ![r].pc = "insert", ![r].pred = d]
    <3>1. PICK d \in Uploading!Newest(p) :
                upload' = [upload EXCEPT ![r].pc = "insert", ![r].pred = d]
      BY <2>4
    <3>2. d \in Serials
      BY DEF Uploading!Newest, Uploading!Committed
    <3>3. PICK x : x = [t EXCEPT !.pc = "insert", !.pred = d]
      OBVIOUS
    <3>4. x \in UploadTask /\ x.pc = "insert" /\ x.pred = d /\ x.place = p
      BY <1>2, <1>3, <3>2, <3>3 DEF UploadTask, Numbered
    <3>5. upload' = [upload EXCEPT ![r] = x]
      BY <1>1, <3>1, <3>3 DEF EntryInv
    <3> QED
      BY <3>4, <3>5
  <2> QED
    BY <1>1, <1>2, <2>3, <2>4 DEF Uploading!FindPredecessor
<1>5. upload'[r] = u /\ \A q \in Uploaders : q # r => upload'[q] = upload[q]
  BY <1>4, UploadStep
<1>6. mixed \subseteq mixed'
  BY DEF Uploading!FindPredecessor
<1>7. p \notin mixed' => \A q \in Uploaders : ~(upload[q].pc \in Pending /\ upload[q].place = p)
  BY <1>1, <1>2 DEF Uploading!FindPredecessor, Pending, Flushed
<1>8. u.pred # 0 => u.pred \in Serials /\ entry[u.pred].state = "committed" /\ entry[u.pred].place = p
  BY <1>4 DEF Uploading!Newest, Uploading!Committed
<1>9. ASSUME p \notin mixed, NEW d \in Serials, entry[d].state = "committed", entry[d].place = p
      PROVE  /\ u.pred # 0 /\ entry[d].lineage = entry[u.pred].lineage
             /\ entry[d].version <= entry[u.pred].version
  <2>1. Uploading!Newest(p) # {}
    BY <1>9, NewestExists
  <2>2. u.pred \in Uploading!Newest(p)
    BY <1>4, <2>1
  <2>3. u.pred \in Serials /\ u.pred # 0
    BY <2>2, SerialNat DEF Uploading!Newest, Uploading!Committed
  <2>4. entry[u.pred].state = "committed" /\ entry[u.pred].place = p
    BY <1>8, <2>3
  <2>5. entry[d].version <= entry[u.pred].version
    BY <1>9, <2>2 DEF Uploading!Newest, Uploading!Committed
  <2>6. entry[d].lineage = entry[u.pred].lineage
    <3>1. d \in Nat /\ u.pred \in Nat
      BY <2>3, SerialNat
    <3>2. CASE d < u.pred
      BY <1>9, <2>3, <2>4, <3>2 DEF NewestInv, Uploading!NewestSucceeds, Uploading!Committed
    <3>3. CASE u.pred < d
      BY <1>9, <2>3, <2>4, <3>3 DEF NewestInv, Uploading!NewestSucceeds, Uploading!Committed
    <3> QED
      BY <3>1, <3>2, <3>3
  <2> QED
    BY <2>3, <2>5, <2>6
<1>10. Uploading!NewestSucceeds'
  BY <1>3, <1>6 DEF NewestInv, Uploading!NewestSucceeds, Uploading!Committed
<1>11. ASSUME NEW q \in Uploaders PROVE Knows(entry', upload'[q])
  BY <1>3, <1>4, <1>5, <1>8 DEF NewestInv, Knows
<1>12. ASSUME NEW q \in Uploaders PROVE Alone(upload', mixed', q)
  BY <1>4, <1>5, <1>6, <1>7 DEF NewestInv, Alone
<1>13. ASSUME NEW q \in Uploaders, NEW d \in Serials, upload'[q].place \notin mixed',
              entry'[d].state = "committed" /\ entry'[d].place = upload'[q].place
       PROVE  Follows(entry', upload'[q], d)
  <2>1. CASE q = r
    BY <1>3, <1>4, <1>5, <1>6, <1>9, <1>13, <2>1 DEF Flushed, Follows
  <2>2. CASE q # r
    BY <1>3, <1>5, <1>6, <1>13, <2>2 DEF NewestInv
  <2> QED
    BY <2>1, <2>2
<1> QED
  BY <1>10, <1>11, <1>12, <1>13 DEF NewestInv

\* An upload inserts the row of the next version.
LEMMA NewestInserted ==
  ASSUME UploadBounds, EntryInv, NewestInv, NEW r \in Uploaders, NEW d \in Serials, Inserts(r, d),
         mixed' = mixed
  PROVE  NewestInv'
<1>1. PICK u : u = upload[r]
  OBVIOUS
<1>2. PICK t \in EntryRow :
         /\ t.state = "inserted" /\ t.place = u.place
         /\ t.version = (IF u.pred = 0 THEN 1 ELSE entry[u.pred].version + 1)
         /\ t.lineage = (IF u.pred = 0 THEN d ELSE entry[u.pred].lineage)
         /\ entry' = [entry EXCEPT ![d] = t]
  BY <1>1 DEF Inserts
<1>3. PICK w \in UploadTask :
         w.pc = "store" /\ w.id = d /\ w.place = u.place /\ upload' = [upload EXCEPT ![r] = w]
  BY <1>1 DEF Inserts
<1>4. upload'[r] = w /\ \A q \in Uploaders : q # r => upload'[q] = upload[q]
  BY <1>3, UploadStep
<1>5. entry'[d] = t /\ \A e \in Serials : e # d => entry'[e] = entry[e]
  BY <1>2 DEF EntryInv
<1>6. u.pc = "insert" /\ entry[d].state = "unborn" /\ (u.pred = 0 \/ u.pred \in Uploading!Committed)
  BY <1>1 DEF Inserts
<1>7. Uploading!NewestSucceeds'
  BY <1>2, <1>5 DEF NewestInv, Uploading!NewestSucceeds, Uploading!Committed
<1>8. ASSUME NEW q \in Uploaders PROVE Knows(entry', upload'[q])
  <2>1. CASE q = r
    BY <1>3, <1>4, <2>1 DEF Knows
  <2>2. CASE q # r
    <3>1. upload'[q].pc = "insert" /\ upload'[q].pred # 0 => upload[q].pred \in Serials \ {d}
      BY <1>4, <1>6, <2>2 DEF NewestInv, Knows, EntryInv, UploadTask, Numbered
    <3> QED
      BY <1>4, <1>5, <2>2, <3>1 DEF NewestInv, Knows
  <2> QED
    BY <2>1, <2>2
<1>9. ASSUME NEW q \in Uploaders PROVE Alone(upload', mixed', q)
  BY <1>1, <1>3, <1>4, <1>6 DEF NewestInv, Alone, Pending, Flushed
<1>10. ASSUME NEW q \in Uploaders, NEW e \in Serials, upload'[q].place \notin mixed',
              entry'[e].state = "committed" /\ entry'[e].place = upload'[q].place
       PROVE  Follows(entry', upload'[q], e)
  <2>1. e # d /\ entry[e].state = "committed" /\ entry[e].place = upload[q].place
        /\ upload[q].place \notin mixed
    BY <1>1, <1>2, <1>3, <1>4, <1>5, <1>10
  <2>2. Follows(entry, upload[q], e)
    BY <2>1 DEF NewestInv
  <2>3. CASE q = r
    <3>1. u.pred # 0 /\ u.pred \in Serials /\ entry[u.pred].state = "committed"
      BY <1>1, <1>6, <2>2, <2>3 DEF Follows, Uploading!Committed
    <3>2. entry[e].lineage = entry[u.pred].lineage /\ entry[e].version <= entry[u.pred].version
      BY <1>1, <1>6, <2>2, <2>3, <3>1 DEF Follows
    <3>3. entry[e].version \in Nat /\ entry[u.pred].version \in Nat
      BY <3>1 DEF EntryInv, EntryRow
    <3>4. t.lineage = entry[e].lineage /\ entry[e].version < t.version
      BY <1>2, <3>1, <3>2, <3>3
    <3>5. e < d
      BY <1>6, <2>1 DEF EntryInv
    <3> QED
      BY <1>3, <1>4, <1>5, <2>1, <2>3, <3>4, <3>5 DEF Follows
  <2>4. CASE q # r
    <3>1. upload[q].pc = "insert" /\ upload[q].pred # 0 => upload[q].pred \in Serials \ {d}
      BY <1>6 DEF NewestInv, Knows, EntryInv, UploadTask, Numbered
    <3>2. upload[q].pc \in Flushed => upload[q].id \in Serials \ {d}
      BY <1>6 DEF EntryInv
    <3> QED
      BY <1>4, <1>5, <2>1, <2>2, <2>4, <3>1, <3>2 DEF Follows
  <2> QED
    BY <2>3, <2>4
<1> QED
  BY <1>7, <1>8, <1>9, <1>10 DEF NewestInv

\* An upload commits.
LEMMA NewestCommitted ==
  ASSUME UploadBounds, EntryInv, NewestInv, NEW r \in Uploaders, Uploading!CommitUpload(r)
  PROVE  NewestInv'
<1>1. PICK d : d = upload[r].id
  OBVIOUS
<1>2. /\ upload[r].pc = "commit" /\ d \in Serials /\ GivesUp(r)
      /\ entry[d].state = "inserted" /\ entry'[d].state = "committed"
      /\ entry'[d].place = entry[d].place /\ entry'[d].version = entry[d].version
      /\ entry'[d].lineage = entry[d].lineage
      /\ \A e \in Serials : e # d => entry'[e] = entry[e]
  BY <1>1, CommitDoes
<1>3. mixed' = mixed
  BY DEF Uploading!CommitUpload
<1>4. upload'[r].pc = "idle" /\ \A q \in Uploaders : q # r => upload'[q] = upload[q]
  BY <1>2, UploadStep, IdleUpload DEF GivesUp
<1>5. entry[d].place = upload[r].place
  BY <1>1, <1>2 DEF EntryInv, Flushed
<1>6. ASSUME entry[d].place \notin mixed, NEW e \in Serials, entry[e].state = "committed",
             entry[e].place = entry[d].place
      PROVE  e < d /\ entry[e].lineage = entry[d].lineage /\ entry[e].version < entry[d].version
  BY <1>1, <1>2, <1>5, <1>6 DEF NewestInv, Follows, Flushed
<1>7. Uploading!NewestSucceeds'
  <2>1. ASSUME NEW e \in Serials, NEW f \in Serials, entry'[e].state = "committed",
               entry'[f].state = "committed", e < f, entry'[e].place = entry'[f].place,
               entry'[e].place \notin mixed'
        PROVE  entry'[e].lineage = entry'[f].lineage /\ entry'[e].version < entry'[f].version
    <3>1. e \in Nat /\ f \in Nat /\ d \in Nat
      BY <1>2, SerialNat
    <3>2. CASE e # d /\ f # d
      BY <1>2, <1>3, <2>1, <3>2 DEF NewestInv, Uploading!NewestSucceeds, Uploading!Committed
    <3>3. CASE f = d
      <4>1. e # d
        BY <2>1, <3>1, <3>3
      <4> QED
        BY <1>2, <1>3, <1>6, <2>1, <3>3, <4>1
    <3>4. CASE e = d
      <4>1. f # d
        BY <2>1, <3>1, <3>4
      <4>2. f < d
        BY <1>2, <1>3, <1>6, <2>1, <3>4, <4>1
      <4> QED
        BY <2>1, <3>1, <3>4, <4>2
    <3> QED
      BY <3>2, <3>3, <3>4
  <2> QED
    BY <2>1 DEF Uploading!NewestSucceeds, Uploading!Committed
<1>8. ASSUME NEW q \in Uploaders PROVE Knows(entry', upload'[q])
  <2>1. upload'[q].pc = "insert" /\ upload'[q].pred # 0 => q # r /\ upload[q].pred \in Serials \ {d}
    BY <1>2, <1>4 DEF NewestInv, Knows, EntryInv, UploadTask, Numbered
  <2> QED
    BY <1>2, <1>4, <2>1 DEF NewestInv, Knows
<1>9. ASSUME NEW q \in Uploaders PROVE Alone(upload', mixed', q)
  BY <1>3, <1>4 DEF NewestInv, Alone, Pending, Flushed
<1>10. ASSUME NEW q \in Uploaders, NEW e \in Serials, upload'[q].place \notin mixed',
              entry'[e].state = "committed" /\ entry'[e].place = upload'[q].place
       PROVE  Follows(entry', upload'[q], e)
  <2>1. CASE upload'[q].pc \notin Pending
    BY <2>1 DEF Follows, Pending
  <2>2. CASE upload'[q].pc \in Pending
    <3>1. q # r /\ upload[q].pc \in Pending /\ upload'[q] = upload[q]
      BY <1>4, <2>2 DEF Pending, Flushed
    <3>2. upload[q].place # upload[r].place
      BY <1>2, <1>3, <1>10, <3>1 DEF NewestInv, Alone, Pending, Flushed
    <3>3. e # d
      BY <1>2, <1>5, <1>10, <3>1, <3>2
    <3>4. Follows(entry, upload[q], e)
      BY <1>2, <1>3, <1>10, <3>1, <3>3 DEF NewestInv
    <3>5. upload[q].pc = "insert" /\ upload[q].pred # 0 => upload[q].pred \in Serials \ {d}
      BY <1>2 DEF NewestInv, Knows, EntryInv, UploadTask, Numbered
    <3>6. upload[q].pc \in Flushed => upload[q].id \in Serials \ {d}
      BY <1>1, <1>2, <3>1 DEF EntryInv, Flushed
    <3> QED
      BY <1>2, <3>1, <3>3, <3>4, <3>5, <3>6 DEF Follows
  <2> QED
    BY <2>1, <2>2
<1> QED
  BY <1>7, <1>8, <1>9, <1>10 DEF NewestInv

\* NewestInv is kept.
LEMMA NewestNext ==
  ASSUME UploadBounds, EntryInv, WipeInv, NewestInv, [Uploading!Next]_(Uploading!uploadVars)
  PROVE  NewestInv'
<1>1. ASSUME UNCHANGED <<entry, upload, mixed>>
      PROVE  NewestInv'
  <2>1. \A r \in Uploaders : upload[r].pc \in {"duplicate", "predecessor"} => upload[r].pred = 0
    BY DEF NewestInv, Knows
  <2> QED
    BY <1>1, <2>1, NewestSame
<1>2. ASSUME NEW r \in Uploaders,
             \/ \E c \in Contents, p \in Spots : Uploading!Upload(r, c, p)
             \/ Uploading!FindDuplicate(r) \/ Uploading!FindPredecessor(r)
      PROVE  NewestInv'
  <2>1. CASE Uploading!FindPredecessor(r)
    BY <2>1, NewestFound
  <2>2. CASE ~Uploading!FindPredecessor(r)
    <3>1. UNCHANGED <<entry, mixed>>
      BY <1>2, <2>2 DEF Uploading!Upload, Uploading!FindDuplicate
    <3>2. PICK u \in UploadTask :
             /\ upload' = [upload EXCEPT ![r] = u] /\ u.pc \notin Pending
             /\ u.pc \in {"duplicate", "predecessor"} =>
                   u.pred = 0 \/ (upload[r].pc = "duplicate" /\ u.pred = upload[r].pred)
      BY <1>2, <2>2, SearchDoes
    <3>3. upload'[r] = u /\ \A q \in Uploaders : q # r => upload'[q] = upload[q]
      BY <3>2, UploadStep
    <3>4. \A q \in Uploaders : upload[q].pc \in {"duplicate", "predecessor"} => upload[q].pred = 0
      BY DEF NewestInv, Knows
    <3>5. u.pc \notin Flushed /\ u.pc # "insert"
      BY <3>2 DEF Pending
    <3> QED
      BY <3>1, <3>2, <3>3, <3>4, <3>5, NewestSame
  <2> QED
    BY <2>1, <2>2
<1>3. ASSUME NEW r \in Uploaders, Uploading!Insert(r)
      PROVE  NewestInv'
  <2>1. mixed' = mixed
    BY <1>3 DEF Uploading!Insert
  <2>2. CASE GivesUp(r) /\ UNCHANGED entry
    <3>1. upload'[r].pc = "idle" /\ \A q \in Uploaders : q # r => upload'[q] = upload[q]
      BY <2>2, UploadStep, IdleUpload DEF GivesUp
    <3>2. \A q \in Uploaders : upload[q].pc \in {"duplicate", "predecessor"} => upload[q].pred = 0
      BY DEF NewestInv, Knows
    <3> QED
      BY <2>1, <2>2, <3>1, <3>2, NewestSame DEF Pending, Flushed
  <2>3. CASE \E d \in Serials : Inserts(r, d)
    BY <2>1, <2>3, NewestInserted
  <2> QED
    BY <1>3, <2>2, <2>3, InsertDoes
<1>4. ASSUME NEW r \in Uploaders,
             \/ Uploading!Store(r) /\ ~Uploading!To(r, "commit")
             \/ Uploading!DieUploading(r)
      PROVE  NewestInv'
  <2>1. /\ upload[r].pc \in Flushed /\ GivesUp(r) /\ Uploading!RolledBack(upload[r].id)
        /\ mixed' = mixed
    BY <1>4, FailsDoes
  <2>2. PICK d \in Serials : d = upload[r].id /\ entry[d].state = "inserted"
    BY <2>1 DEF EntryInv
  <2>3. PICK z : z = Uploading!Gone
    OBVIOUS
  <2>4. entry' = [entry EXCEPT ![d] = z] /\ z.state = "gone"
    BY <2>1, <2>2, <2>3, UnbornRow DEF Uploading!RolledBack
  <2>5. entry'[d] = z /\ \A e \in Serials : e # d => entry'[e] = entry[e]
    BY <2>4 DEF EntryInv
  <2>6. upload'[r].pc = "idle" /\ \A q \in Uploaders : q # r => upload'[q] = upload[q]
    BY <2>1, UploadStep, IdleUpload DEF GivesUp
  <2>7. \A q \in Uploaders : q # r /\ upload[q].pc \in Flushed => upload[q].id \in Serials \ {d}
    BY <2>1, <2>2 DEF EntryInv
  <2>8. \A q \in Uploaders : upload[q].pc \in {"duplicate", "predecessor"} => upload[q].pred = 0
    BY DEF NewestInv, Knows
  <2>9. \A e \in Serials :
            /\ entry[e].state \in {"committed", "gone"} => entry'[e].state \in {"committed", "gone"}
            /\ entry'[e].state = "committed" => entry'[e] = entry[e]
    BY <2>2, <2>4, <2>5
  <2>10. ASSUME NEW q \in Uploaders
         PROVE  /\ upload'[q].pc \in {"duplicate", "predecessor"} => upload'[q].pred = 0
                /\ upload'[q].pc \in Pending => upload'[q] = upload[q]
                /\ upload'[q].pc \in Flushed => entry'[upload[q].id] = entry[upload[q].id]
    BY <2>5, <2>6, <2>7, <2>8 DEF Pending, Flushed
  <2> QED
    BY <2>1, <2>9, <2>10, NewestSame DEF Pending
<1>5. ASSUME NEW r \in Uploaders, Uploading!Store(r), Uploading!To(r, "commit")
      PROVE  NewestInv'
  <2>1. upload[r].pc = "store" /\ UNCHANGED <<entry, mixed>>
    BY <1>5, StoreNext
  <2>2. /\ upload'[r].pc = "commit" /\ upload'[r].id = upload[r].id
        /\ upload'[r].place = upload[r].place
        /\ \A q \in Uploaders : q # r => upload'[q] = upload[q]
    BY <1>5, <2>1, CommitNext
  <2>3. \A q \in Uploaders : upload[q].pc \in {"duplicate", "predecessor"} => upload[q].pred = 0
    BY DEF NewestInv, Knows
  <2>4. ASSUME NEW q \in Uploaders
         PROVE  /\ upload'[q].pc \in {"duplicate", "predecessor"} => upload'[q].pred = 0
                /\ upload'[q].pc \in Pending =>
                      /\ upload[q].pc \in Pending /\ (upload'[q].pc = "insert" <=> upload[q].pc = "insert")
                      /\ upload'[q].place = upload[q].place
                /\ upload'[q].pc = "insert" => upload'[q].pred = upload[q].pred
                /\ upload'[q].pc \in Flushed => upload'[q].id = upload[q].id
    BY <2>1, <2>2, <2>3 DEF Pending, Flushed
  <2> QED
    BY <2>1, <2>4, NewestSame
<1>6. ASSUME NEW r \in Uploaders, Uploading!CommitUpload(r)
      PROVE  NewestInv'
  BY <1>6, NewestCommitted
<1>7. ASSUME NEW d \in Serials, NEW p \in Spots, Uploading!Move(d, p)
      PROVE  NewestInv'
  <2>1. /\ entry[d].state = "committed" /\ entry'[d].state = "committed" /\ entry'[d].place = p
        /\ entry'[d].version = entry[d].version /\ entry'[d].lineage = entry[d].lineage
        /\ mixed' = mixed \union {p} /\ upload' = upload
        /\ \A e \in Serials : e # d => entry'[e] = entry[e]
    BY <1>7, MoveDoes
  <2>2. \A q \in Uploaders : upload[q].pc \in {"duplicate", "predecessor"} => upload[q].pred = 0
    BY DEF NewestInv, Knows
  <2>3. \A q \in Uploaders : upload[q].pc \in Flushed => upload[q].id \in Serials
    BY DEF EntryInv
  <2> QED
    BY <2>1, <2>2, <2>3, NewestSame
<1>8. ASSUME NEW d \in Serials, Uploading!RemoveRow(d)
      PROVE  NewestInv'
  <2>1. /\ entry'[d].state = "gone" /\ upload' = upload
        /\ \A e \in Serials : e # d =>
               /\ entry'[e].state = entry[e].state /\ entry'[e].place = entry[e].place
               /\ entry'[e].version = entry[e].version /\ entry'[e].lineage = entry[e].lineage
    BY <1>8, RemoveDoes, UnbornRow
  <2>2. mixed' = mixed /\ entry[d].state = "committed"
    BY <1>8 DEF Uploading!RemoveRow, WipeInv
  <2>3. \A q \in Uploaders : upload[q].pc \in {"duplicate", "predecessor"} => upload[q].pred = 0
    BY DEF NewestInv, Knows
  <2>4. \A q \in Uploaders : upload[q].pc \in Flushed => upload[q].id \in Serials \ {d}
    BY <2>2 DEF EntryInv
  <2> QED
    BY <2>1, <2>2, <2>3, <2>4, NewestSame
<1>9. ASSUME NEW d \in Serials,
             \/ Uploading!StartStage(d) \/ Uploading!PutArtifact(d) \/ Uploading!Reingest(d)
             \/ Uploading!Delete(d) \/ Uploading!StartDelete(d) \/ Uploading!DeleteObject(d)
             \/ Uploading!DieDeleting(d)
      PROVE  UNCHANGED <<entry, upload, mixed>>
  BY <1>9 DEF Uploading!StartStage, Uploading!PutArtifact, Uploading!Reingest, Uploading!Delete,
     Uploading!StartDelete, Uploading!DeleteObject, Uploading!DieDeleting
<1>10. UNCHANGED Uploading!uploadVars => UNCHANGED <<entry, upload, mixed>>
  BY DEF Uploading!uploadVars
<1> QED
  BY <1>1, <1>2, <1>3, <1>4, <1>5, <1>6, <1>7, <1>8, <1>9, <1>10 DEF Uploading!Next

-----------------------------------------------------------------------------
\* What is chosen of a set.
Any(D) == CHOOSE x \in D : TRUE

\* A set of subsets of a finite set has one with the fewest elements.
LEMMA Fewest ==
  ASSUME NEW T, IsFiniteSet(T), NEW F, F \subseteq SUBSET T, F # {}
  PROVE  \E D \in F : \A E \in F : Cardinality(D) <= Cardinality(E)
<1>1. \A D \in F : Cardinality(D) \in Nat
  BY FS_Subset, FS_CardinalityType
<1>2. PICK n \in {Cardinality(D) : D \in F} : \A m \in {Cardinality(D) : D \in F} : n <= m
  <2>1. {Cardinality(D) : D \in F} \subseteq Nat /\ {Cardinality(D) : D \in F} # {}
    BY <1>1
  <2> QED
    BY <2>1, LeastNat
<1>3. PICK D \in F : n = Cardinality(D)
  BY <1>2
<1> QED
  BY <1>2, <1>3

\* Of a set that has elements it is one.
LEMMA AnyOf == ASSUME NEW D, D # {} PROVE Any(D) \in D
BY DEF Any

\* Without an element a finite set is smaller.
LEMMA Smaller ==
  ASSUME NEW T, IsFiniteSet(T), NEW D, D \subseteq T, NEW d \in D
  PROVE  /\ Cardinality(D \ {d}) < Cardinality(D)
         /\ Cardinality(D) \in Nat /\ Cardinality(D \ {d}) = Cardinality(D) - 1
<1>1. IsFiniteSet(D)
  BY FS_Subset
<1>2. Cardinality(D) \in Nat /\ Cardinality(D \ {d}) \in Nat
  BY <1>1, FS_CardinalityType, FS_RemoveElement
<1>3. Cardinality(D \ {d}) = Cardinality(D) - 1
  BY <1>1, FS_RemoveElement
<1> QED
  BY <1>2, <1>3

\* The sums of f over the subsets of T, up to n elements.
AddsTo(f, T, n, g) ==
  /\ g \in [{s \in SUBSET T : Cardinality(s) <= n} -> Nat]
  /\ \A s \in SUBSET T : Cardinality(s) <= n =>
        g[s] = IF s = {} THEN 0 ELSE f[Any(s)] + g[s \ {Any(s)}]

\* Up to each size there are such sums.
LEMMA AddsUpTo ==
  ASSUME NEW T, IsFiniteSet(T), NEW f \in [T -> Nat], NEW n \in Nat
  PROVE  \E g : AddsTo(f, T, n, g)
<1> DEFINE Upto(k) == {s \in SUBSET T : Cardinality(s) <= k}
           Sums(g, k) == \A s \in Upto(k) :
                            g[s] = IF s = {} THEN 0 ELSE f[Any(s)] + g[s \ {Any(s)}]
           Has(k) == \E g \in [Upto(k) -> Nat] : Sums(g, k)
           Not == {k \in Nat : ~Has(k)}
<1>1. Has(0)
  <2>1. \A s \in Upto(0) : s = {}
    BY FS_Subset, FS_CardinalityType, FS_EmptySet
  <2>2. [s \in Upto(0) |-> 0] \in [Upto(0) -> Nat] /\ Sums([s \in Upto(0) |-> 0], 0)
    BY <2>1
  <2> QED
    BY <2>2
<1>2. ASSUME NEW k \in Nat, Has(k) PROVE Has(k + 1)
  <2>1. PICK g \in [Upto(k) -> Nat] : Sums(g, k)
    BY <1>2
  <2> DEFINE G == [s \in Upto(k + 1) |-> IF s = {} THEN 0 ELSE f[Any(s)] + g[s \ {Any(s)}]]
  <2>2. ASSUME NEW s \in Upto(k + 1), s # {}
        PROVE  Any(s) \in T /\ s \ {Any(s)} \in Upto(k)
    <3>1. Any(s) \in s
      BY <2>2, AnyOf
    <3>2. Cardinality(s) \in Nat /\ Cardinality(s \ {Any(s)}) = Cardinality(s) - 1
      BY <3>1, Smaller
    <3> QED
      BY <3>1, <3>2
  <2>3. ASSUME NEW s \in Upto(k) PROVE s \in Upto(k + 1) /\ G[s] = g[s]
    <3>1. s \in Upto(k + 1)
      BY FS_Subset, FS_CardinalityType
    <3> QED
      BY <2>1, <3>1
  <2>4. G \in [Upto(k + 1) -> Nat]
    BY <2>2
  <2>5. ASSUME NEW s \in Upto(k + 1)
        PROVE  G[s] = IF s = {} THEN 0 ELSE f[Any(s)] + G[s \ {Any(s)}]
    <3>1. s # {} => G[s \ {Any(s)}] = g[s \ {Any(s)}]
      <4> HIDE DEF G, Upto
      <4> QED
        BY <2>2, <2>3
    <3> QED
      BY <3>1
  <2> HIDE DEF G, Upto
  <2> QED
    BY <2>4, <2>5
<1>3. Not = {}
  <2> SUFFICES ASSUME Not # {} PROVE FALSE
    OBVIOUS
  <2>1. PICK k \in Not : \A m \in Not : k <= m
    <3>1. Not \subseteq Nat
      OBVIOUS
    <3> HIDE DEF Not
    <3> QED
      BY <3>1, LeastNat
  <2>2. k \in Nat /\ ~Has(k) /\ k # 0
    <3>1. k \in Nat /\ ~Has(k)
      <4> HIDE DEF Has
      <4> QED
        BY <2>1
    <3>2. k # 0
      <4> HIDE DEF Has
      <4> QED
        BY <1>1, <3>1
    <3> QED
      BY <3>1, <3>2
  <2>3. k - 1 \in Nat /\ ~(k <= k - 1)
    BY <2>2
  <2>5. Has(k - 1)
    <3>1. k - 1 \notin Not
      <4> HIDE DEF Not
      <4> QED
        BY <2>1, <2>3
    <3> HIDE DEF Has
    <3> QED
      BY <2>3, <3>1
  <2>4. (k - 1) + 1 = k
    BY <2>2
  <2> HIDE DEF Has
  <2> QED
    BY <1>2, <2>2, <2>3, <2>4, <2>5
<1>4. Has(n)
  <2> HIDE DEF Has
  <2> QED
    BY <1>3
<1> QED
  BY <1>4 DEF AddsTo

\* The sums of f over all subsets of T.
Adding(f, T, g) ==
  /\ g \in [SUBSET T -> Nat]
  /\ \A s \in SUBSET T : g[s] = IF s = {} THEN 0 ELSE f[Any(s)] + g[s \ {Any(s)}]

\* There are such sums.
LEMMA AddsUp ==
  ASSUME NEW T, IsFiniteSet(T), NEW f \in [T -> Nat]
  PROVE  \E g : Adding(f, T, g)
<1>1. Cardinality(T) \in Nat /\ \A s \in SUBSET T : Cardinality(s) <= Cardinality(T)
  BY FS_Subset, FS_CardinalityType
<1>2. {s \in SUBSET T : Cardinality(s) <= Cardinality(T)} = SUBSET T
  BY <1>1
<1>3. PICK g : AddsTo(f, T, Cardinality(T), g)
  BY <1>1, AddsUpTo
<1>4. g \in [SUBSET T -> Nat]
  BY <1>2, <1>3, Zenon DEF AddsTo
<1>5. \A s \in SUBSET T : g[s] = IF s = {} THEN 0 ELSE f[Any(s)] + g[s \ {Any(s)}]
  BY <1>1, <1>3 DEF AddsTo
<1> QED
  BY <1>4, <1>5 DEF Adding

\* h adds up the subsets of D.
Within(f, D, h) ==
  \A s \in SUBSET D : h[s] = IF s = {} THEN 0 ELSE f[Any(s)] + h[s \ {Any(s)}]

\* There is one way to add up: what satisfies the recursion up to D agrees there.
LEMMA OneSum ==
  ASSUME NEW T, IsFiniteSet(T), NEW f \in [T -> Nat], NEW g, Adding(f, T, g), NEW D \in SUBSET T,
         NEW h, Within(f, D, h)
  PROVE  h[D] = g[D]
<1> DEFINE Off == {s \in SUBSET D : h[s] # g[s]}
<1>1. Off = {}
  <2> SUFFICES ASSUME Off # {} PROVE FALSE
    OBVIOUS
  <2>1. Off \subseteq SUBSET T
    OBVIOUS
  <2>2. PICK s \in Off : \A t \in Off : Cardinality(s) <= Cardinality(t)
    <3> HIDE DEF Off
    <3> QED
      BY <2>1, Fewest
  <2>3. s \in SUBSET D /\ s \in SUBSET T /\ h[s] # g[s]
    BY <2>2
  <2>4. s # {}
    BY <2>3 DEF Adding, Within
  <2>5. Any(s) \in s
    BY <2>4, AnyOf
  <2>6. /\ Cardinality(s \ {Any(s)}) < Cardinality(s) /\ Cardinality(s) \in Nat
        /\ Cardinality(s \ {Any(s)}) = Cardinality(s) - 1
    BY <2>3, <2>5, Smaller
  <2>7. h[s \ {Any(s)}] = g[s \ {Any(s)}]
    <3>1. s \ {Any(s)} \notin Off
      <4> HIDE DEF Off
      <4> QED
        BY <2>2, <2>6
    <3> QED
      BY <2>3, <3>1
  <2> QED
    BY <2>3, <2>4, <2>7 DEF Adding, Within
<1>2. D \in SUBSET D
  OBVIOUS
<1> QED
  BY <1>1, <1>2

\* Any element may be taken away first.
LEMMA TakesAway ==
  ASSUME NEW T, IsFiniteSet(T), NEW f \in [T -> Nat], NEW g, Adding(f, T, g),
         NEW D \in SUBSET T, NEW d \in D
  PROVE  g[D] = f[d] + g[D \ {d}]
<1> DEFINE Off == {s \in SUBSET T : \E x \in s : g[s] # f[x] + g[s \ {x}]}
<1>1. Off = {}
  <2> SUFFICES ASSUME Off # {} PROVE FALSE
    OBVIOUS
  <2>1. PICK s \in Off : \A t \in Off : Cardinality(s) <= Cardinality(t)
    <3>1. Off \subseteq SUBSET T
      OBVIOUS
    <3> HIDE DEF Off
    <3> QED
      BY <3>1, Fewest
  <2>2. PICK x \in s : g[s] # f[x] + g[s \ {x}]
    BY <2>1
  <2>3. s \in SUBSET T /\ s # {}
    BY <2>1, <2>2
  <2> DEFINE a == Any(s)
  <2>4. a \in s
    BY <2>3, AnyOf
  <2> HIDE DEF a
  <2>5. g[s] = f[a] + g[s \ {a}]
    BY <2>3 DEF Adding, a
  <2>6. a # x
    BY <2>2, <2>5
  <2>7. ASSUME NEW y \in s, NEW z \in s \ {y} PROVE g[s \ {y}] = f[z] + g[(s \ {y}) \ {z}]
    <3>1. Cardinality(s \ {y}) < Cardinality(s) /\ Cardinality(s) \in Nat
          /\ Cardinality(s \ {y}) = Cardinality(s) - 1
      BY <2>3, Smaller
    <3>2. s \ {y} \notin Off
      <4> HIDE DEF Off
      <4> QED
        BY <2>1, <3>1
    <3>3. s \ {y} \in SUBSET T
      BY <2>3
    <3> QED
      BY <3>2, <3>3
  <2>8. g[s \ {a}] = f[x] + g[(s \ {a}) \ {x}]
    BY <2>4, <2>6, <2>7
  <2>9. g[s \ {x}] = f[a] + g[(s \ {x}) \ {a}]
    BY <2>4, <2>6, <2>7
  <2>10. (s \ {a}) \ {x} = (s \ {x}) \ {a}
    OBVIOUS
  <2>11. f[x] \in Nat /\ f[a] \in Nat
    BY <2>3, <2>4
  <2>12. (s \ {x}) \ {a} \in SUBSET T
    BY <2>3
  <2>13. PICK m \in Nat : m = g[(s \ {x}) \ {a}]
    BY <2>12 DEF Adding
  <2>14. g[s \ {a}] = f[x] + m /\ g[s \ {x}] = f[a] + m
    BY <2>8, <2>9, <2>10, <2>13
  <2>15. g[s] = f[a] + (f[x] + m)
    BY <2>5, <2>14
  <2>16. f[a] + (f[x] + m) = f[x] + (f[a] + m)
    BY <2>11, <2>13
  <2> QED
    BY <2>2, <2>14, <2>15, <2>16
<1> QED
  BY <1>1

\* The sum of f over D.
Total(f, D) == (CHOOSE g : Adding(f, DOMAIN f, g))[D]

\* Sums of natural numbers over a finite set.
LEMMA TotalIs ==
  ASSUME NEW T, IsFiniteSet(T), NEW f \in [T -> Nat], NEW D, D \subseteq T
  PROVE  /\ Total(f, D) \in Nat /\ Total(f, {}) = 0
         /\ \A d \in D : Total(f, D) = f[d] + Total(f, D \ {d})
<1>1. PICK g : g = CHOOSE x : Adding(f, T, x)
  OBVIOUS
<1>2. Adding(f, T, g)
  BY <1>1, AddsUp, Zenon
<1>3. D \in SUBSET T /\ {} \in SUBSET T /\ \A d \in D : D \ {d} \in SUBSET T
  OBVIOUS
<1>4. g[D] \in Nat /\ g[{}] = 0
  BY <1>2, <1>3 DEF Adding
<1>5. \A d \in D : g[D] = f[d] + g[D \ {d}]
  BY <1>2, <1>3, TakesAway
<1>6. \A s : Total(f, s) = g[s]
  BY <1>1 DEF Total
<1> QED
  BY <1>4, <1>5, <1>6

\* Two functions that agree on a set have one sum over it.
LEMMA TotalSame ==
  ASSUME NEW T, IsFiniteSet(T), NEW f \in [T -> Nat], NEW e \in [T -> Nat], NEW D, D \subseteq T,
         \A d \in D : f[d] = e[d]
  PROVE  Total(f, D) = Total(e, D)
<1> DEFINE Off == {s \in SUBSET D : Total(f, s) # Total(e, s)}
<1>1. Off = {}
  <2> SUFFICES ASSUME Off # {} PROVE FALSE
    OBVIOUS
  <2>1. PICK s \in Off : \A t \in Off : Cardinality(s) <= Cardinality(t)
    <3>1. Off \subseteq SUBSET T
      OBVIOUS
    <3> HIDE DEF Off
    <3> QED
      BY <3>1, Fewest
  <2>2. s \in SUBSET T /\ s \in SUBSET D /\ Total(f, s) # Total(e, s)
    BY <2>1
  <2>3. PICK d : d \in s
    BY <2>2, TotalIs
  <2>4. /\ Total(f, s) = f[d] + Total(f, s \ {d})
        /\ Total(e, s) = e[d] + Total(e, s \ {d})
    BY <2>2, <2>3, TotalIs
  <2>5. Cardinality(s \ {d}) < Cardinality(s) /\ Cardinality(s) \in Nat
        /\ Cardinality(s \ {d}) = Cardinality(s) - 1
    BY <2>2, <2>3, Smaller
  <2>6. s \ {d} \notin Off
    <3> HIDE DEF Off
    <3> QED
      BY <2>1, <2>5
  <2> QED
    BY <2>2, <2>3, <2>4, <2>6
<1> QED
  BY <1>1

\* A part has at most the sum of the whole.
LEMMA TotalOfPart ==
  ASSUME NEW T, IsFiniteSet(T), NEW f \in [T -> Nat], NEW D, D \subseteq T, NEW C, C \subseteq D
  PROVE  Total(f, C) <= Total(f, D)
<1> DEFINE Off == {s \in SUBSET D : C \subseteq s /\ ~(Total(f, C) <= Total(f, s))}
<1>1. Off = {}
  <2> SUFFICES ASSUME Off # {} PROVE FALSE
    OBVIOUS
  <2>1. PICK s \in Off : \A t \in Off : Cardinality(s) <= Cardinality(t)
    <3>1. Off \subseteq SUBSET T
      OBVIOUS
    <3> HIDE DEF Off
    <3> QED
      BY <3>1, Fewest
  <2>2. s \in SUBSET T /\ s \in SUBSET D /\ C \subseteq s /\ ~(Total(f, C) <= Total(f, s))
    BY <2>1
  <2>3. Total(f, C) \in Nat /\ C \subseteq T
    BY TotalIs
  <2>4. s # C
    BY <2>2, <2>3
  <2>5. PICK d : d \in s /\ d \notin C
    BY <2>2, <2>4
  <2>6. Total(f, s) = f[d] + Total(f, s \ {d}) /\ Total(f, s \ {d}) \in Nat /\ f[d] \in Nat
    BY <2>2, <2>5, TotalIs
  <2>7. Cardinality(s \ {d}) < Cardinality(s) /\ Cardinality(s) \in Nat
        /\ Cardinality(s \ {d}) = Cardinality(s) - 1
    BY <2>2, <2>5, Smaller
  <2>8. s \ {d} \notin Off
    <3> HIDE DEF Off
    <3> QED
      BY <2>1, <2>7
  <2>9. Total(f, C) <= Total(f, s \ {d})
    BY <2>2, <2>5, <2>8
  <2> QED
    BY <2>2, <2>3, <2>6, <2>9
<1> QED
  BY <1>1

\* The bytes of each row.
Sizes(rows) == [d \in Serials |-> Weights[rows[d].content]]

\* The bytes of rows are numbers, and there are finitely many rows.
LEMMA SizesType ==
  ASSUME UploadBounds, NEW rows, rows \in [Serials -> EntryRow]
  PROVE  Sizes(rows) \in [Serials -> Nat] /\ IsFiniteSet(Serials)
<1>1. \A d \in Serials : Weights[rows[d].content] \in Nat
  BY DEF UploadBounds, EntryRow
<1>2. IsFiniteSet(Serials)
  BY FS_Interval DEF UploadBounds
<1> QED
  BY <1>1, <1>2 DEF Sizes

\* Bytes adds up what the rows have.
LEMMA BytesAre ==
  ASSUME UploadBounds, EntryInv, NEW D, D \subseteq Serials
  PROVE  Uploading!Bytes(D) = Total(Sizes(entry), D)
<1> DEFINE Folds(h) == h = [s \in SUBSET D |-> IF s = {} THEN 0
                              ELSE Weights[entry[Any(s)].content] + h[s \ {Any(s)}]]
<1>1. PICK f : f = Sizes(entry)
  OBVIOUS
<1>2. f \in [Serials -> Nat] /\ IsFiniteSet(Serials) /\ DOMAIN f = Serials
  BY <1>1, SizesType DEF EntryInv
<1>3. PICK h : h = CHOOSE x : Folds(x)
  OBVIOUS
<1>4. Uploading!Bytes(D) = h[D]
  BY <1>3 DEF Uploading!Bytes, Uploading!MapThenSumSet, Uploading!MapThenFoldSet, Any
<1>5. PICK g : g = CHOOSE x : Adding(f, Serials, x)
  OBVIOUS
<1>6. Adding(f, Serials, g)
  BY <1>2, <1>5, AddsUp, Zenon
<1>7. \A s \in SUBSET D : s # {} => Weights[entry[Any(s)].content] = f[Any(s)]
  <2>1. ASSUME NEW s \in SUBSET D, s # {} PROVE Any(s) \in Serials
    BY <2>1, AnyOf
  <2> QED
    BY <1>1, <2>1 DEF Sizes
<1> DEFINE G == [s \in SUBSET D |-> g[s]]
<1>8. Folds(G)
  <2>1. ASSUME NEW s \in SUBSET D
        PROVE  G[s] = IF s = {} THEN 0 ELSE Weights[entry[Any(s)].content] + G[s \ {Any(s)}]
    <3>1. s \in SUBSET Serials /\ s \ {Any(s)} \in SUBSET D
      OBVIOUS
    <3> QED
      BY <1>6, <1>7, <3>1 DEF Adding
  <2> QED
    BY <2>1
<1>9. Folds(h)
  <2> HIDE DEF G, Folds
  <2> QED
    BY <1>3, <1>8, Zenon
<1>10. Within(f, D, h)
  BY <1>7, <1>9 DEF Within
<1>11. h[D] = g[D]
  <2>1. D \in SUBSET Serials
    OBVIOUS
  <2> QED
    BY <1>2, <1>6, <1>10, <2>1, OneSum
<1>12. Total(f, D) = g[D]
  BY <1>2, <1>5 DEF Total
<1> QED
  BY <1>1, <1>4, <1>11, <1>12

\* The stored documents of rows, what they weigh, and the requests that have been admitted.
Kept(rows) == {d \in Serials : rows[d].state = "committed"}
Weighs(rows) == Total(Sizes(rows), Kept(rows))
Busy(tasks) == {r \in Uploaders : tasks[r].pc # "idle"}

\* Each request that was admitted fits in by itself, and all of them exceed the cap on the
\* documents by fewer than there are.
Caps(rows, tasks, full) ==
    /\ ~full => \A q, r \in Busy(tasks) : q = r
    /\ RowCap # 0 /\ ~full =>
          /\ Cardinality(Kept(rows)) <= RowCap
          /\ Busy(tasks) # {} => Cardinality(Kept(rows)) < RowCap
    /\ ByteCap # 0 /\ ~full =>
          /\ Weighs(rows) <= ByteCap
          /\ \A r \in Busy(tasks) : Weighs(rows) + Weights[tasks[r].content] <= ByteCap
    /\ RowCap # 0 =>
          Cardinality(Kept(rows)) + Cardinality(Busy(tasks)) < RowCap + Cardinality(Uploaders)

CapInv == crowded \in BOOLEAN /\ Caps(entry, upload, crowded)

\* The sets whose sizes the caps are about are finite.
LEMMA CapsFinite ==
  ASSUME UploadBounds, NEW rows, NEW tasks
  PROVE  /\ IsFiniteSet(Kept(rows)) /\ IsFiniteSet(Busy(tasks))
         /\ Cardinality(Kept(rows)) \in Nat /\ Cardinality(Busy(tasks)) \in Nat
         /\ Cardinality(Uploaders) \in Nat /\ Cardinality(Busy(tasks)) <= Cardinality(Uploaders)
<1>1. IsFiniteSet(Serials) /\ IsFiniteSet(Uploaders)
  BY FS_Interval DEF UploadBounds
<1>2. Kept(rows) \subseteq Serials /\ Busy(tasks) \subseteq Uploaders
  BY DEF Kept, Busy
<1> QED
  BY <1>1, <1>2, FS_Subset, FS_CardinalityType

\* Nothing is stored or admitted: what is left is within the caps.
LEMMA CapsLess ==
  ASSUME UploadBounds, NEW rows \in [Serials -> EntryRow], NEW rest \in [Serials -> EntryRow],
         NEW tasks \in [Uploaders -> UploadTask], NEW now \in [Uploaders -> UploadTask],
         NEW full \in BOOLEAN, Caps(rows, tasks, full),
         Kept(rest) \subseteq Kept(rows), Busy(now) \subseteq Busy(tasks),
         \A d \in Kept(rest) : rest[d].content = rows[d].content,
         \A r \in Busy(now) : now[r].content = tasks[r].content
  PROVE  Caps(rest, now, full)
<1>1. /\ Cardinality(Kept(rest)) \in Nat /\ Cardinality(Kept(rows)) \in Nat
      /\ Cardinality(Busy(now)) \in Nat /\ Cardinality(Busy(tasks)) \in Nat
      /\ Cardinality(Uploaders) \in Nat
  BY CapsFinite
<1>2. Cardinality(Kept(rest)) <= Cardinality(Kept(rows)) /\ Cardinality(Busy(now)) <= Cardinality(Busy(tasks))
  BY CapsFinite, FS_Subset
<1>3. Weighs(rest) <= Weighs(rows) /\ Weighs(rest) \in Nat /\ Weighs(rows) \in Nat
  <2>1. PICK f : f = Sizes(rows)
    OBVIOUS
  <2>2. PICK e : e = Sizes(rest)
    OBVIOUS
  <2>3. f \in [Serials -> Nat] /\ e \in [Serials -> Nat] /\ IsFiniteSet(Serials)
    BY <2>1, <2>2, SizesType
  <2>4. Kept(rest) \subseteq Serials /\ Kept(rows) \subseteq Serials
    BY DEF Kept
  <2>5. \A d \in Kept(rest) : e[d] = f[d]
    BY <2>1, <2>2, <2>4 DEF Sizes
  <2>6. Total(e, Kept(rest)) = Total(f, Kept(rest))
    BY <2>3, <2>4, <2>5, TotalSame
  <2>7. Total(f, Kept(rest)) <= Total(f, Kept(rows))
    BY <2>3, <2>4, TotalOfPart
  <2>8. Total(f, Kept(rest)) \in Nat /\ Total(f, Kept(rows)) \in Nat
    BY <2>3, <2>4, TotalIs
  <2> QED
    BY <2>1, <2>2, <2>6, <2>7, <2>8 DEF Weighs
<1>4. RowCap \in Nat /\ ByteCap \in Nat
  BY DEF UploadBounds
<1>5. ~full => \A q, r \in Busy(now) : q = r
  BY DEF Caps
<1>6. RowCap # 0 /\ ~full =>
          /\ Cardinality(Kept(rest)) <= RowCap
          /\ Busy(now) # {} => Cardinality(Kept(rest)) < RowCap
  BY <1>1, <1>2, <1>4 DEF Caps
<1>7. ByteCap # 0 /\ ~full =>
          /\ Weighs(rest) <= ByteCap
          /\ \A r \in Busy(now) : Weighs(rest) + Weights[now[r].content] <= ByteCap
  <2>1. \A r \in Busy(now) : Weights[now[r].content] \in Nat
    BY DEF UploadBounds, UploadTask, Busy
  <2> QED
    BY <1>3, <1>4, <2>1 DEF Caps
<1>8. RowCap # 0 =>
          Cardinality(Kept(rest)) + Cardinality(Busy(now)) < RowCap + Cardinality(Uploaders)
  BY <1>1, <1>2, <1>4 DEF Caps
<1> QED
  BY <1>5, <1>6, <1>7, <1>8 DEF Caps

\* A request is admitted.
LEMMA CapsAdmit ==
  ASSUME UploadBounds, NEW rows \in [Serials -> EntryRow],
         NEW tasks \in [Uploaders -> UploadTask], NEW now \in [Uploaders -> UploadTask],
         NEW full \in BOOLEAN, Caps(rows, tasks, full), NEW r \in Uploaders,
         Busy(now) = Busy(tasks) \union {r},
         RowCap = 0 \/ Cardinality(Kept(rows)) < RowCap,
         ByteCap = 0 \/ Weighs(rows) + Weights[now[r].content] <= ByteCap
  PROVE  Caps(rows, now, full \/ Busy(tasks) # {})
<1>1. /\ Cardinality(Kept(rows)) \in Nat /\ Cardinality(Busy(now)) \in Nat
      /\ Cardinality(Uploaders) \in Nat /\ Cardinality(Busy(now)) <= Cardinality(Uploaders)
  BY CapsFinite
<1>2. RowCap \in Nat /\ ByteCap \in Nat
  BY DEF UploadBounds
<1>3. RowCap # 0 =>
          Cardinality(Kept(rows)) + Cardinality(Busy(now)) < RowCap + Cardinality(Uploaders)
  BY <1>1, <1>2
<1>4. CASE full \/ Busy(tasks) # {}
  BY <1>3, <1>4 DEF Caps
<1>5. CASE ~(full \/ Busy(tasks) # {})
  <2>1. Busy(now) = {r}
    BY <1>5
  <2>2. RowCap # 0 =>
          /\ Cardinality(Kept(rows)) <= RowCap
          /\ Busy(now) # {} => Cardinality(Kept(rows)) < RowCap
    BY <1>1, <1>2
  <2>3. ByteCap # 0 =>
          /\ Weighs(rows) <= ByteCap
          /\ \A q \in Busy(now) : Weighs(rows) + Weights[now[q].content] <= ByteCap
    BY <1>5, <2>1 DEF Caps
  <2> QED
    BY <1>3, <2>1, <2>2, <2>3 DEF Caps
<1> QED
  BY <1>4, <1>5

\* The document of a request is stored.
LEMMA CapsCommit ==
  ASSUME UploadBounds, NEW rows \in [Serials -> EntryRow], NEW rest \in [Serials -> EntryRow],
         NEW tasks \in [Uploaders -> UploadTask], NEW now \in [Uploaders -> UploadTask],
         NEW full \in BOOLEAN, Caps(rows, tasks, full),
         NEW r \in Busy(tasks), NEW d \in Serials, d \notin Kept(rows),
         Kept(rest) = Kept(rows) \union {d}, Busy(now) = Busy(tasks) \ {r},
         rest[d].content = tasks[r].content,
         \A e \in Kept(rows) : rest[e].content = rows[e].content,
         \A q \in Busy(now) : now[q].content = tasks[q].content
  PROVE  Caps(rest, now, full)
<1>1. /\ Cardinality(Kept(rest)) \in Nat /\ Cardinality(Kept(rows)) \in Nat
      /\ Cardinality(Busy(now)) \in Nat /\ Cardinality(Busy(tasks)) \in Nat
      /\ Cardinality(Uploaders) \in Nat
  BY CapsFinite
<1>2. /\ Cardinality(Kept(rest)) = Cardinality(Kept(rows)) + 1
      /\ Cardinality(Busy(now)) = Cardinality(Busy(tasks)) - 1
  <2>1. IsFiniteSet(Kept(rows)) /\ IsFiniteSet(Busy(tasks))
    BY CapsFinite
  <2>2. Cardinality(Kept(rows) \union {d}) = Cardinality(Kept(rows)) + 1
    BY <2>1, FS_AddElement
  <2>3. Cardinality(Busy(tasks) \ {r}) = Cardinality(Busy(tasks)) - 1
    BY <2>1, FS_RemoveElement
  <2> QED
    BY <2>2, <2>3
<1>3. Weighs(rest) = Weights[tasks[r].content] + Weighs(rows)
  <2>1. PICK f : f = Sizes(rows)
    OBVIOUS
  <2>2. PICK e : e = Sizes(rest)
    OBVIOUS
  <2>3. f \in [Serials -> Nat] /\ e \in [Serials -> Nat] /\ IsFiniteSet(Serials)
    BY <2>1, <2>2, SizesType
  <2>4. Kept(rest) \subseteq Serials /\ Kept(rows) \subseteq Serials
    BY DEF Kept
  <2>5. \A x \in Kept(rows) : e[x] = f[x]
    BY <2>1, <2>2, <2>4 DEF Sizes
  <2>6. Total(e, Kept(rows)) = Total(f, Kept(rows))
    BY <2>3, <2>4, <2>5, TotalSame
  <2>7. e[d] = Weights[tasks[r].content]
    BY <2>2 DEF Sizes
  <2>8. Kept(rest) \ {d} = Kept(rows) /\ d \in Kept(rest)
    OBVIOUS
  <2>9. Total(e, Kept(rest)) = e[d] + Total(e, Kept(rest) \ {d})
    BY <2>3, <2>4, <2>8, TotalIs
  <2> QED
    BY <2>1, <2>2, <2>6, <2>7, <2>8, <2>9 DEF Weighs
<1>4. Weighs(rows) \in Nat /\ Weights[tasks[r].content] \in Nat
  <2>1. Kept(rows) \subseteq Serials /\ r \in Uploaders
    BY DEF Kept, Busy
  <2>2. Sizes(rows) \in [Serials -> Nat] /\ IsFiniteSet(Serials)
    BY SizesType
  <2>3. PICK f : f = Sizes(rows)
    OBVIOUS
  <2>4. Weighs(rows) \in Nat
    BY <2>1, <2>2, <2>3, TotalIs DEF Weighs
  <2> QED
    BY <2>1, <2>4 DEF UploadBounds, UploadTask
<1>5. RowCap \in Nat /\ ByteCap \in Nat
  BY DEF UploadBounds
<1>6. ~full => Busy(now) = {}
  BY DEF Caps
<1>7. RowCap # 0 /\ ~full => Cardinality(Kept(rest)) <= RowCap
  BY <1>1, <1>2, <1>5 DEF Caps
<1>8. ByteCap # 0 /\ ~full => Weighs(rest) <= ByteCap
  BY <1>3, <1>4, <1>5 DEF Caps
<1>9. RowCap # 0 =>
          Cardinality(Kept(rest)) + Cardinality(Busy(now)) < RowCap + Cardinality(Uploaders)
  BY <1>1, <1>2, <1>5 DEF Caps
<1> QED
  BY <1>6, <1>7, <1>8, <1>9 DEF Caps

\* The instance counts what the module counts.
LEMMA OneCardinality == ASSUME NEW S PROVE Uploading!Cardinality(S) = Cardinality(S)
BY DEF Cardinality, Uploading!Cardinality

\* CapInv holds at first.
LEMMA CapInit ==
  ASSUME UploadBounds, Uploading!Init
  PROVE  CapInv
<1> DEFINE i == Uploading!Idle
           z == Uploading!Unborn
<1>1. entry = [d \in Serials |-> z] /\ upload = [r \in Uploaders |-> i] /\ crowded = FALSE
  BY DEF Uploading!Init
<1>2. i.pc = "idle" /\ z.state = "unborn"
  BY IdleUpload, UnbornRow
<1> HIDE DEF i, z
<1>3. Kept(entry) = {} /\ Busy(upload) = {}
  BY <1>1, <1>2 DEF Kept, Busy
<1>4. Weighs(entry) = 0
  <2>1. entry \in [Serials -> EntryRow]
    BY EntryInit DEF EntryInv
  <2>2. PICK f : f = Sizes(entry)
    OBVIOUS
  <2>3. f \in [Serials -> Nat] /\ IsFiniteSet(Serials)
    BY <2>1, <2>2, SizesType
  <2> QED
    BY <1>3, <2>2, <2>3, TotalIs DEF Weighs
<1>5. Cardinality(Kept(entry)) = 0 /\ Cardinality(Busy(upload)) = 0
  BY <1>3, FS_EmptySet
<1>6. RowCap \in Nat /\ ByteCap \in Nat /\ Cardinality(Uploaders) \in Nat
  BY FS_CardinalityType DEF UploadBounds
<1>7. \A q \in Busy(upload) : FALSE
  BY <1>3
<1> HIDE DEF UploadBounds, Uploading!Init
<1>8. Caps(entry, upload, crowded)
  BY <1>3, <1>4, <1>5, <1>6, <1>7 DEF Caps
<1> QED
  BY <1>1, <1>8 DEF CapInv

\* Of a step that admits and stores nothing.
LEMMA CapSame ==
  ASSUME UploadBounds, EntryInv, EntryInv', CapInv, crowded' = crowded,
         \A d \in Serials : entry'[d].state = "committed" =>
            entry[d].state = "committed" /\ entry'[d].content = entry[d].content,
         \A r \in Uploaders : upload'[r].pc # "idle" =>
            upload[r].pc # "idle" /\ upload'[r].content = upload[r].content
  PROVE  CapInv'
<1>1. PICK rows : rows = entry
  OBVIOUS
<1>2. PICK rest : rest = entry'
  OBVIOUS
<1>3. PICK tasks : tasks = upload
  OBVIOUS
<1>4. PICK now : now = upload'
  OBVIOUS
<1>5. /\ rows \in [Serials -> EntryRow] /\ rest \in [Serials -> EntryRow]
      /\ tasks \in [Uploaders -> UploadTask] /\ now \in [Uploaders -> UploadTask]
      /\ crowded \in BOOLEAN /\ Caps(rows, tasks, crowded)
  BY <1>1, <1>2, <1>3, <1>4 DEF EntryInv, CapInv
<1>6. /\ Kept(rest) \subseteq Kept(rows) /\ \A d \in Kept(rest) : rest[d].content = rows[d].content
      /\ Busy(now) \subseteq Busy(tasks) /\ \A r \in Busy(now) : now[r].content = tasks[r].content
  BY <1>1, <1>2, <1>3, <1>4 DEF Kept, Busy
<1>7. Caps(rest, now, crowded)
  BY <1>5, <1>6, CapsLess
<1> QED
  BY <1>2, <1>4, <1>5, <1>7 DEF CapInv

\* CapInv is kept when a request is admitted.
LEMMA CapAdmitted ==
  ASSUME UploadBounds, EntryInv, EntryInv', CapInv, NEW r \in Uploaders, NEW c \in Contents,
         NEW p \in Spots, Uploading!Upload(r, c, p)
  PROVE  CapInv'
<1>1. PICK i : i = Uploading!Idle
  OBVIOUS
<1>2. PICK u : u = [i EXCEPT !.pc = "duplicate", !.content = c, !.place = p]
  OBVIOUS
<1>3. u \in UploadTask /\ u.pc = "duplicate" /\ u.content = c
  BY <1>1, <1>2, IdleUpload DEF UploadTask
<1>4. /\ upload' = [upload EXCEPT ![r] = u] /\ upload[r].pc = "idle"
      /\ crowded' = (crowded \/ Uploading!Active # {}) /\ entry' = entry
  BY <1>1, <1>2 DEF Uploading!Upload, Uploading!Step
<1>5. Uploading!Committed = Kept(entry) /\ Uploading!Active = Busy(upload)
  BY DEF Uploading!Committed, Kept, Uploading!Active, Busy
<1>6. Kept(entry) \subseteq Serials
  BY DEF Kept
<1>7. Uploading!Bytes(Kept(entry)) = Weighs(entry)
  BY <1>6, BytesAre DEF Weighs
<1>8. /\ RowCap = 0 \/ Cardinality(Kept(entry)) < RowCap
      /\ ByteCap = 0 \/ Weighs(entry) + Weights[c] <= ByteCap
  BY <1>5, <1>7, OneCardinality DEF Uploading!Upload, Uploading!WithinCaps
<1>9. PICK tasks : tasks = upload
  OBVIOUS
<1>10. PICK now : now = upload'
  OBVIOUS
<1>11. PICK rows : rows = entry
  OBVIOUS
<1>12. /\ rows \in [Serials -> EntryRow]
       /\ tasks \in [Uploaders -> UploadTask] /\ now \in [Uploaders -> UploadTask]
       /\ crowded \in BOOLEAN /\ Caps(rows, tasks, crowded)
  BY <1>9, <1>10, <1>11 DEF EntryInv, CapInv
<1>13. now[r] = u /\ Busy(now) = Busy(tasks) \union {r}
  BY <1>3, <1>4, <1>9, <1>10, <1>12 DEF Busy
<1>14. Caps(rows, now, crowded \/ Busy(tasks) # {})
  <2>1. /\ RowCap = 0 \/ Cardinality(Kept(rows)) < RowCap
        /\ ByteCap = 0 \/ Weighs(rows) + Weights[now[r].content] <= ByteCap
    BY <1>3, <1>8, <1>11, <1>13
  <2> QED
    BY <1>12, <1>13, <2>1, CapsAdmit
<1>15. crowded' = (crowded \/ Busy(tasks) # {}) /\ crowded' \in BOOLEAN
  BY <1>4, <1>5, <1>9, <1>12, Zenon
<1>16. Caps(rows, now, crowded')
  BY <1>14, <1>15
<1> QED
  BY <1>4, <1>10, <1>11, <1>15, <1>16 DEF CapInv

\* CapInv is kept when a document is stored.
LEMMA CapCommitted ==
  ASSUME UploadBounds, EntryInv, EntryInv', CapInv, NEW r \in Uploaders, Uploading!CommitUpload(r)
  PROVE  CapInv'
<1>1. PICK d : d = upload[r].id
  OBVIOUS
<1>2. /\ upload[r].pc = "commit" /\ d \in Serials /\ entry[d].state = "inserted" /\ GivesUp(r)
      /\ entry'[d].state = "committed" /\ entry'[d].content = entry[d].content
      /\ \A e \in Serials : e # d => entry'[e] = entry[e]
  BY <1>1, CommitDoes
<1>3. entry[d].content = upload[r].content
  BY <1>1, <1>2 DEF EntryInv, Flushed
<1>4. upload'[r].pc = "idle" /\ \A q \in Uploaders : q # r => upload'[q] = upload[q]
  BY <1>2, UploadStep, IdleUpload DEF GivesUp
<1>5. PICK tasks : tasks = upload
  OBVIOUS
<1>6. PICK now : now = upload'
  OBVIOUS
<1>7. PICK rows : rows = entry
  OBVIOUS
<1>8. PICK rest : rest = entry'
  OBVIOUS
<1>9. /\ rows \in [Serials -> EntryRow] /\ rest \in [Serials -> EntryRow]
      /\ tasks \in [Uploaders -> UploadTask] /\ now \in [Uploaders -> UploadTask]
      /\ crowded \in BOOLEAN /\ Caps(rows, tasks, crowded) /\ crowded' = crowded
  BY <1>5, <1>6, <1>7, <1>8 DEF EntryInv, CapInv, Uploading!CommitUpload
<1>10. /\ r \in Busy(tasks) /\ d \notin Kept(rows) /\ Kept(rest) = Kept(rows) \union {d}
       /\ Busy(now) = Busy(tasks) \ {r} /\ rest[d].content = tasks[r].content
       /\ \A e \in Kept(rows) : rest[e].content = rows[e].content
       /\ \A q \in Busy(now) : now[q].content = tasks[q].content
  BY <1>2, <1>3, <1>4, <1>5, <1>6, <1>7, <1>8 DEF Kept, Busy
<1>11. Caps(rest, now, crowded)
  BY <1>2, <1>9, <1>10, CapsCommit
<1> QED
  BY <1>6, <1>8, <1>9, <1>11 DEF CapInv

\* What a request uploads does not change while it goes on.
LEMMA SearchKeeps ==
  ASSUME UploadBounds, EntryInv, NEW r \in Uploaders,
         Uploading!FindDuplicate(r) \/ Uploading!FindPredecessor(r)
  PROVE  /\ UNCHANGED <<entry, crowded>>
         /\ \A q \in Uploaders : upload'[q].pc # "idle" =>
               upload[q].pc # "idle" /\ upload'[q].content = upload[q].content
<1>1. PICK t : t = upload[r]
  OBVIOUS
<1>2. t \in UploadTask /\ t.pc # "idle" /\ UNCHANGED <<entry, crowded>>
  BY <1>1 DEF EntryInv, Uploading!FindDuplicate, Uploading!FindPredecessor
<1>3. PICK i : i = Uploading!Idle
  OBVIOUS
<1>4. i \in UploadTask /\ i.pc = "idle"
  BY <1>3, IdleUpload
<1>5. \E u \in UploadTask : /\ upload' = [upload EXCEPT ![r] = u]
                            /\ u.pc # "idle" => u.content = t.content
  <2>1. CASE Uploading!FindDuplicate(r)
    <3>1. PICK w : w = [t EXCEPT !.pc = "predecessor"]
      OBVIOUS
    <3>2. w \in UploadTask /\ w.content = t.content
      BY <1>2, <3>1 DEF UploadTask
    <3>3. upload' = [upload EXCEPT ![r] = i] \/ upload' = [upload EXCEPT ![r] = w]
      BY <1>1, <1>3, <2>1, <3>1 DEF Uploading!FindDuplicate, Uploading!Step, Uploading!To, EntryInv
    <3> QED
      BY <1>4, <3>2, <3>3
  <2>2. CASE Uploading!FindPredecessor(r)
    <3>1. PICK w : w = [t EXCEPT !.pc = "insert"]
      OBVIOUS
    <3>2. w \in UploadTask /\ w.content = t.content
      BY <1>2, <3>1 DEF UploadTask
    <3>3. ASSUME NEW d \in Serials
          PROVE  [t EXCEPT !.pc = "insert", !.pred = d] \in UploadTask
                 /\ [t EXCEPT !.pc = "insert", !.pred = d].content = t.content
      BY <1>2 DEF UploadTask, Numbered
    <3>4. \/ upload' = [upload EXCEPT ![r] = w]
          \/ \E d \in Serials : upload' = [upload EXCEPT ![r] = [t EXCEPT !.pc = "insert", !.pred = d]]
      BY <1>1, <2>2, <3>1 DEF Uploading!FindPredecessor, Uploading!To, EntryInv, Uploading!Newest,
         Uploading!Committed
    <3> QED
      BY <3>2, <3>3, <3>4
  <2> QED
    BY <2>1, <2>2
<1>6. PICK u \in UploadTask : /\ upload' = [upload EXCEPT ![r] = u]
                              /\ u.pc # "idle" => u.content = t.content
  BY <1>5
<1>7. upload'[r] = u /\ \A q \in Uploaders : q # r => upload'[q] = upload[q]
  BY <1>6, UploadStep
<1> QED
  BY <1>1, <1>2, <1>6, <1>7

\* CapInv is kept.
LEMMA CapNext ==
  ASSUME UploadBounds, EntryInv, EntryInv', WipeInv, CapInv,
         [Uploading!Next]_(Uploading!uploadVars)
  PROVE  CapInv'
<1>1. ASSUME UNCHANGED <<entry, upload, crowded>> PROVE CapInv'
  BY <1>1 DEF CapInv
<1>2. ASSUME NEW r \in Uploaders, NEW c \in Contents, NEW p \in Spots, Uploading!Upload(r, c, p)
      PROVE  CapInv'
  BY <1>2, CapAdmitted
<1>3. ASSUME NEW r \in Uploaders, Uploading!FindDuplicate(r) \/ Uploading!FindPredecessor(r)
      PROVE  CapInv'
  BY <1>3, SearchKeeps, CapSame
<1>4. ASSUME NEW r \in Uploaders, GivesUp(r), crowded' = crowded,
             \A d \in Serials : entry'[d].state = "committed" =>
                entry[d].state = "committed" /\ entry'[d].content = entry[d].content
      PROVE  CapInv'
  <2>1. upload'[r].pc = "idle" /\ \A q \in Uploaders : q # r => upload'[q] = upload[q]
    BY <1>4, UploadStep, IdleUpload DEF GivesUp
  <2> QED
    BY <1>4, <2>1, CapSame
<1>5. ASSUME NEW r \in Uploaders, Uploading!Insert(r)
      PROVE  CapInv'
  <2>1. crowded' = crowded
    BY <1>5 DEF Uploading!Insert
  <2>2. CASE GivesUp(r) /\ UNCHANGED entry
    BY <1>4, <2>1, <2>2
  <2>3. ASSUME NEW d \in Serials, Inserts(r, d) PROVE CapInv'
    <3>1. PICK t \in EntryRow : t.state = "inserted" /\ entry' = [entry EXCEPT ![d] = t]
      BY <2>3 DEF Inserts
    <3>2. PICK w \in UploadTask : w.content = upload[r].content /\ upload' = [upload EXCEPT ![r] = w]
      BY <2>3 DEF Inserts
    <3>3. upload'[r] = w /\ \A q \in Uploaders : q # r => upload'[q] = upload[q]
      BY <3>2, UploadStep
    <3>4. upload[r].pc = "insert"
      BY <2>3 DEF Inserts
    <3>5. entry'[d] = t /\ \A e \in Serials : e # d => entry'[e] = entry[e]
      BY <3>1 DEF EntryInv
    <3>6. \A e \in Serials : entry'[e].state = "committed" =>
             entry[e].state = "committed" /\ entry'[e].content = entry[e].content
      BY <3>1, <3>5
    <3>7. \A q \in Uploaders : upload'[q].pc # "idle" =>
             upload[q].pc # "idle" /\ upload'[q].content = upload[q].content
      BY <3>2, <3>3, <3>4
    <3> QED
      BY <2>1, <3>6, <3>7, CapSame
  <2> QED
    BY <1>5, <2>2, <2>3, InsertDoes
<1>6. ASSUME NEW r \in Uploaders,
             \/ Uploading!Store(r) /\ ~Uploading!To(r, "commit")
             \/ Uploading!DieUploading(r)
      PROVE  CapInv'
  <2>1. upload[r].pc \in Flushed /\ GivesUp(r) /\ Uploading!RolledBack(upload[r].id) /\ crowded' = crowded
    BY <1>6, FailsDoes
  <2>2. PICK d \in Serials : d = upload[r].id
    BY <2>1 DEF EntryInv
  <2>3. entry' = [entry EXCEPT ![d] = Uploading!Gone]
    BY <2>1, <2>2 DEF Uploading!RolledBack
  <2>4. entry'[d].state = "gone" /\ \A e \in Serials : e # d => entry'[e] = entry[e]
    BY <2>3, UnbornRow DEF EntryInv
  <2> QED
    BY <1>4, <2>1, <2>4
<1>7. ASSUME NEW r \in Uploaders, Uploading!Store(r), Uploading!To(r, "commit")
      PROVE  CapInv'
  <2>1. UNCHANGED entry /\ crowded' = crowded
    BY <1>7, StoreNext DEF Uploading!Store
  <2>2. /\ upload[r].pc = "store" /\ upload'[r].content = upload[r].content
        /\ \A q \in Uploaders : q # r => upload'[q] = upload[q]
    BY <1>7, CommitNext, StoreNext
  <2> QED
    BY <2>1, <2>2, CapSame
<1>8. ASSUME NEW r \in Uploaders, Uploading!CommitUpload(r)
      PROVE  CapInv'
  BY <1>8, CapCommitted
<1>9. ASSUME NEW d \in Serials, NEW p \in Spots, Uploading!Move(d, p)
      PROVE  CapInv'
  <2>1. crowded' = crowded /\ upload' = upload
    BY <1>9 DEF Uploading!Move
  <2>2. \A e \in Serials : entry'[e].state = "committed" =>
           entry[e].state = "committed" /\ entry'[e].content = entry[e].content
    BY <1>9, MoveDoes
  <2> QED
    BY <2>1, <2>2, CapSame
<1>10. ASSUME NEW d \in Serials, Uploading!RemoveRow(d)
      PROVE  CapInv'
  <2>1. crowded' = crowded /\ upload' = upload
    BY <1>10 DEF Uploading!RemoveRow
  <2>2. entry'[d].state = "gone"
    BY <1>10, RemoveDoes, UnbornRow
  <2>3. \A e \in Serials : entry'[e].state = "committed" =>
           entry[e].state = "committed" /\ entry'[e].content = entry[e].content
    BY <1>10, <2>2, RemoveDoes
  <2> QED
    BY <2>1, <2>3, CapSame
<1>11. ASSUME NEW d \in Serials,
             \/ Uploading!StartStage(d) \/ Uploading!PutArtifact(d) \/ Uploading!Reingest(d)
             \/ Uploading!Delete(d) \/ Uploading!StartDelete(d) \/ Uploading!DeleteObject(d)
             \/ Uploading!DieDeleting(d)
      PROVE  UNCHANGED <<entry, upload, crowded>>
  BY <1>11 DEF Uploading!StartStage, Uploading!PutArtifact, Uploading!Reingest, Uploading!Delete,
     Uploading!StartDelete, Uploading!DeleteObject, Uploading!DieDeleting
<1>12. UNCHANGED Uploading!uploadVars => UNCHANGED <<entry, upload, crowded>>
  BY DEF Uploading!uploadVars
<1> QED
  BY <1>1, <1>2, <1>3, <1>5, <1>6, <1>7, <1>8, <1>9, <1>10, <1>11, <1>12 DEF Uploading!Next

\* CapInv says that the caps hold.
LEMMA CapsAre ==
  ASSUME UploadBounds, EntryInv, CapInv
  PROVE  Uploading!CapsHold
<1>1. Uploading!Committed = Kept(entry) /\ Kept(entry) \subseteq Serials
  BY DEF Uploading!Committed, Kept
<1>2. Uploading!Bytes(Kept(entry)) = Weighs(entry)
  BY <1>1, BytesAre DEF Weighs
<1>3. Cardinality(Busy(upload)) \in Nat /\ Cardinality(Kept(entry)) \in Nat
      /\ Cardinality(Uploaders) \in Nat /\ RowCap \in Nat
  BY CapsFinite DEF UploadBounds
<1>4. RowCap # 0 /\ ~crowded => Cardinality(Uploading!Committed) <= RowCap
  BY <1>1 DEF CapInv, Caps
<1>5. ByteCap # 0 /\ ~crowded => Uploading!Bytes(Uploading!Committed) <= ByteCap
  BY <1>1, <1>2 DEF CapInv, Caps
<1>6. RowCap # 0 => Cardinality(Uploading!Committed) < RowCap + Cardinality(Uploaders)
  BY <1>1, <1>3 DEF CapInv, Caps
<1> QED
  BY <1>4, <1>5, <1>6, OneCardinality DEF Uploading!CapsHold

\* The parts of the invariant.
UploadInv ==
    EntryInv /\ WipeInv /\ StageInv /\ ObjectInv /\ NewestInv /\ CapInv /\ Uploading!StoredOnce

\* At first nothing is stored.
LEMMA OnceInit ==
  ASSUME UploadBounds, Uploading!Init
  PROVE  Uploading!StoredOnce
<1>1. \A d \in Serials : entry[d].state = "unborn"
  BY UnbornRow DEF Uploading!Init
<1> QED
  BY <1>1 DEF Uploading!StoredOnce, Uploading!Committed, Uploading!Inserted

\* UploadInv says that uploads hold.
LEMMA UploadsAre ==
  ASSUME UploadBounds, UploadInv
  PROVE  Uploading!UploadsHold
<1>1. Uploading!OriginalsAreThere
  BY DEF UploadInv, ObjectInv, Uploading!OriginalsAreThere, Uploading!File, Uploading!Committed
<1>2. Uploading!ObjectsHaveRows
  <2>1. ASSUME NEW o \in object
        PROVE  entry[o[1]].state \in {"inserted", "committed"} \/ o \in orphans
    <3>1. PICK d \in Serials, k \in Keys : o = <<d, k>>
      BY DEF UploadInv, ObjectInv
    <3>2. entry[d].state # "unborn" /\ (entry[d].state = "gone" => <<d, k>> \in orphans)
      BY <2>1, <3>1 DEF UploadInv, ObjectInv
    <3>3. entry[d].state \in {"unborn", "inserted", "committed", "gone"}
      BY DEF UploadInv, EntryInv, EntryRow
    <3> QED
      BY <3>1, <3>2, <3>3
  <2> QED
    BY <2>1 DEF Uploading!ObjectsHaveRows
<1>3. Uploading!NewestSucceeds /\ Uploading!StoredOnce
  BY DEF UploadInv, NewestInv
<1>4. Uploading!CapsHold
  BY CapsAre DEF UploadInv
<1> QED
  BY <1>1, <1>2, <1>3, <1>4 DEF Uploading!UploadsHold

\* UploadInv holds at first.
LEMMA UploadStart == ASSUME UploadBounds, Uploading!Init PROVE UploadInv
BY EntryInit, WipeInit, StageInit, ObjectInit, NewestInit, CapInit, OnceInit DEF UploadInv

\* UploadInv is kept.
LEMMA UploadNext ==
  ASSUME UploadBounds, UploadInv, [Uploading!Next]_(Uploading!uploadVars)
  PROVE  UploadInv'
<1>1. EntryInv' /\ WipeInv' /\ Uploading!StoredOnce'
  BY EntryNext, WipeNext, OnceNext DEF UploadInv
<1>2. StageInv' /\ ObjectInv'
  BY StageNext, ObjectNext DEF UploadInv
<1>3. NewestInv'
  BY NewestNext DEF UploadInv
<1>4. CapInv'
  BY <1>1, CapNext DEF UploadInv
<1> QED
  BY <1>1, <1>2, <1>3, <1>4 DEF UploadInv

\* create_from_upload, run_parse, run_chunk, run_delete: whatever uploads, stages, moves,
\* deletions and deaths there are, the original of a document is there until it is deleted, an
\* object outlives its row only as an orphan, files at one place succeed one another unless
\* two uploads or a move mixed them up, the caps on rows and bytes hold unless two uploads
\* overlapped, and no content is stored twice.
THEOREM UploadsHoldAlways ==
  ASSUME UploadBounds
  PROVE  Uploading!Spec => []Uploading!UploadsHold
<1>1. Uploading!Init => UploadInv
  BY UploadStart
<1>2. UploadInv /\ [Uploading!Next]_(Uploading!uploadVars) => UploadInv'
  BY UploadNext
<1>3. UploadInv => Uploading!UploadsHold
  BY UploadsAre
<1> QED
  BY <1>1, <1>2, <1>3, PTL DEF Uploading!Spec
=============================================================================
