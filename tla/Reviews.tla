------------------------------ MODULE Reviews ------------------------------
(***************************************************************************)
(* What administrators read about answers and about who did what: the      *)
(* feedback queue and the audit log, page by page, the feedback rate and   *)
(* the Auditor's scores.  The tables change while they are read: members   *)
(* rate and unrate answers and delete chats, requests write audit events,  *)
(* the worker writes scores.                                               *)
(*                                                                         *)
(* A row is stamped with the time when it is flushed and seen when it is   *)
(* committed, so that a row may appear behind one with a later time.  A    *)
(* page starts after the last row of the page before it, in the order of   *)
(* time and id; ids are numbers.                                           *)
(***************************************************************************)
EXTENDS Integers, FiniteSets, Sequences

CONSTANTS
    Messages, ChatOf,     \* assistant messages, numbers, and their chats
    OrgOf, Mine, Org,     \* chats' organizations, those whose user acts, the reader's
    Sound,                \* messages with grounding = "documents" that answer something
    Events, OrgOfEvent,   \* audit events, numbers, and the organization they name
    Requests,
    Replies,              \* what the utility model may say: [grounding, completeness]
    PageSize, MaxDeaths, MaxTime

VARIABLES
    clock,
    live,      \* messages there are
    feedback,  \* message_feedback: [rating, at] by message
    scores,    \* grounding_score and completeness_score of audited messages
    auditing,  \* where the task that judges a message is
    deaths,    \* kills of the worker: the broker delivers the task again
    metered,   \* usage rows of feature "validation", by message
    events,    \* audit_events: created_at by event
    flushed,   \* audit events of transactions that are open
    task,      \* request: [pc, message, rating, at]
    reader     \* who turns the pages: [pc, table, rating, cursor, shown, steady, quiet]

reviewVars == <<clock, live, feedback, scores, auditing, deaths, metered, events, flushed, task, reader>>

None == "none"
Ratings == {"up", "down"}
Full == 4       \* a score of 1.0
Missing == 99   \* a score that is no number
Without(f, S) == [x \in DOMAIN f \ S |-> f[x]]
Idle == [pc |-> "idle", message |-> 0, rating |-> None, at |-> 0]
Closed == [pc |-> "idle", table |-> None, rating |-> None, cursor |-> <<>>, shown |-> <<>>,
           steady |-> {}, quiet |-> TRUE]

TypeOK ==
    /\ clock \in 0..MaxTime /\ live \subseteq Messages
    /\ DOMAIN feedback \subseteq live
    /\ \A m \in DOMAIN feedback : feedback[m] \in [rating : Ratings, at : 0..clock]
    /\ DOMAIN scores \subseteq live \intersect Sound
    /\ auditing \in [Sound -> {"queued", "judging", "committed", "done"}] /\ deaths \in 0..MaxDeaths
    /\ \A m \in DOMAIN scores : scores[m] \in [grounding : 0..Full, completeness : 0..Full]
    /\ metered \in [Sound -> 0..(1 + MaxDeaths)]
    /\ \A e \in DOMAIN events : e \in Events /\ events[e] \in 0..clock
    /\ \A e \in DOMAIN flushed : e \in Events \ DOMAIN events /\ flushed[e] \in 0..clock
    /\ \A r \in Requests : task[r].pc \in {"idle", "insert", "flushed", "update", "clear", "done"}
    /\ reader.pc \in {"idle", "reading", "done"}

Init ==
    /\ clock = 0 /\ live = Messages
    /\ \E rated \in SUBSET Messages : feedback = [m \in rated |-> [rating |-> "down", at |-> 0]]
    /\ scores = <<>> /\ metered = [m \in Sound |-> 0]
    /\ auditing = [m \in Sound |-> "queued"] /\ deaths = 0
    /\ events = <<>> /\ flushed = <<>>
    /\ task = [r \in Requests |-> Idle] /\ reader = Closed

-----------------------------------------------------------------------------
\* The queries.  Keys are compared as (created_at, id).

Before(k, l) == k[1] < l[1] \/ (k[1] = l[1] /\ k[2] < l[2])

\* The rows of a table that the reader's organization and filter let through.
FeedbackKeys(rating) ==
    {<<feedback[m].at, m>> : m \in {n \in DOMAIN feedback :
        OrgOf[ChatOf[n]] = Org /\ rating \in {None, feedback[n].rating}}}
EventKeys == {<<events[e], e>> : e \in {d \in DOMAIN events : OrgOfEvent[d] = Org}}
Keys(table, rating) == IF table = "feedback" THEN FeedbackKeys(rating) ELSE EventKeys

\* Mutant: a cursor that names the time of the last row only.
AfterCursorTime(keys, cursor) ==
    IF cursor = <<>> THEN keys ELSE {k \in keys : k[1] < cursor[1]}

AfterCursor(keys, cursor) ==
    IF cursor = <<>> THEN keys ELSE {k \in keys : Before(k, cursor)}

\* The keys in their order: the i-th has i - 1 before it.
NewerThan(keys, k) == {l \in keys : Before(k, l)}
Newest(keys) ==
    [i \in 1..Cardinality(keys) |-> CHOOSE k \in keys : Cardinality(NewerThan(keys, k)) = i - 1]

\* feedback_summary, over all the days there are.
Total == Cardinality(FeedbackKeys(None))
Down == Cardinality(FeedbackKeys("down"))

\* The rows answer_quality_summary takes its averages over.
Audited == {m \in DOMAIN scores : OrgOf[ChatOf[m]] = Org}

-----------------------------------------------------------------------------
\* A user's requests.  What the reader began with is steady as long as its rows
\* keep their keys and stay in the filter.

Changed ==
    reader' = [reader EXCEPT
        !.steady = {k \in @ : \/ reader.table = "audit"
                              \/ /\ k[2] \in DOMAIN feedback' /\ feedback'[k[2]].at = k[1]
                                 /\ reader.rating \in {None, feedback'[k[2]].rating}},
        !.quiet = @ /\ reader.table = "audit"]

\* A rating that is the one the session loaded is not written.
Due(m, rating) ==
    IF m \notin DOMAIN feedback THEN "insert"
    ELSE IF feedback[m].rating = rating THEN "done" ELSE "update"

SetRead(r, m, rating) ==
    /\ task[r].pc = "idle" /\ m \in live /\ ChatOf[m] \in Mine
    /\ task' = [task EXCEPT ![r] = [pc |-> Due(m, rating),
                                    message |-> m, rating |-> rating, at |-> 0]]
    /\ UNCHANGED <<clock, live, feedback, scores, auditing, deaths, metered, events, flushed, reader>>

\* The insert waits for another one of the same key, and fails when that one
\* commits or when the message is gone.
SetFlush(r) ==
    LET m == task[r].message
        failed == m \in DOMAIN feedback \/ m \notin live
    IN /\ task[r].pc = "insert"
       /\ \A q \in Requests : task[q].pc = "flushed" => task[q].message # m
       /\ task' = IF failed THEN [task EXCEPT ![r] = [Idle EXCEPT !.pc = "done"]]
                  ELSE [task EXCEPT ![r].pc = "flushed", ![r].at = clock]
       /\ UNCHANGED <<clock, live, feedback, scores, auditing, deaths, metered, events, flushed, reader>>

SetInsert(r) ==
    LET m == task[r].message
    IN /\ task[r].pc = "flushed"
       /\ feedback' = [n \in DOMAIN feedback \union {m} |->
             IF n = m THEN [rating |-> task[r].rating, at |-> task[r].at] ELSE feedback[n]]
       /\ task' = [task EXCEPT ![r] = [Idle EXCEPT !.pc = "done"]]
       /\ Changed
       /\ UNCHANGED <<clock, live, scores, auditing, deaths, metered, events, flushed>>

\* An update of a row that is gone fails; created_at stays.
SetUpdate(r) ==
    LET m == task[r].message
    IN /\ task[r].pc = "update"
       /\ task' = [task EXCEPT ![r] = [Idle EXCEPT !.pc = "done"]]
       /\ IF m \in DOMAIN feedback
          THEN feedback' = [feedback EXCEPT ![m].rating = task[r].rating] /\ Changed
          ELSE UNCHANGED <<feedback, reader>>
       /\ UNCHANGED <<clock, live, scores, auditing, deaths, metered, events, flushed>>

ClearRead(r, m) ==
    /\ task[r].pc = "idle" /\ m \in DOMAIN feedback /\ ChatOf[m] \in Mine
    /\ task' = [task EXCEPT ![r] = [Idle EXCEPT !.pc = "clear", !.message = m]]
    /\ UNCHANGED <<clock, live, feedback, scores, auditing, deaths, metered, events, flushed, reader>>

\* The DELETE names the key: it removes a row that was written since.
ClearCommit(r) ==
    LET m == task[r].message
    IN /\ task[r].pc = "clear"
       /\ feedback' = Without(feedback, {m})
       /\ task' = [task EXCEPT ![r] = [Idle EXCEPT !.pc = "done"]]
       /\ Changed
       /\ UNCHANGED <<clock, live, scores, auditing, deaths, metered, events, flushed>>

\* delete_chat cascades to messages and feedback; a row that is being inserted
\* holds its message until it commits.
DeleteChat(c) ==
    LET gone == {m \in live : ChatOf[m] = c}
    IN /\ gone # {} /\ c \in Mine
       /\ \A r \in Requests : task[r].pc = "flushed" => task[r].message \notin gone
       /\ live' = live \ gone
       /\ feedback' = Without(feedback, gone) /\ scores' = Without(scores, gone)
       /\ Changed
       /\ UNCHANGED <<clock, auditing, deaths, metered, events, flushed, task>>

-----------------------------------------------------------------------------
\* The Auditor.

Clamp01(x) == IF x < 0 THEN 0 ELSE IF x > Full THEN Full ELSE x

\* parse_auditor_scores: a reply counts only when both scores are numbers.
Readable(reply) == Missing \notin {reply.grounding, reply.completeness}
Parsed(reply) ==
    [grounding |-> Clamp01(reply.grounding), completeness |-> Clamp01(reply.completeness)]

\* Nothing to judge, or a message to show to the utility model.
AuditRead(m) ==
    /\ auditing[m] = "queued"
    /\ auditing' = [auditing EXCEPT ![m] = IF m \in live THEN "judging" ELSE "done"]
    /\ UNCHANGED <<clock, live, feedback, scores, deaths, metered, events, flushed, task, reader>>

\* The scores and the usage row are one commit, and fail when the message went.
AuditDone(m, reply) ==
    /\ auditing[m] = "judging"
    /\ \/ /\ m \in live /\ Readable(reply)
          /\ scores' = [n \in DOMAIN scores \union {m} |->
                IF n = m THEN Parsed(reply) ELSE scores[n]]
          /\ metered' = [metered EXCEPT ![m] = @ + 1]
          /\ auditing' = [auditing EXCEPT ![m] = "committed"]
       \/ /\ m \notin live \/ ~Readable(reply)
          /\ auditing' = [auditing EXCEPT ![m] = "done"]
          /\ UNCHANGED <<scores, metered>>
    /\ UNCHANGED <<clock, live, feedback, deaths, events, flushed, task, reader>>

\* acks_late: the task is acknowledged when it is over, whatever came of it.
Acknowledge(m) ==
    /\ auditing[m] = "committed" /\ auditing' = [auditing EXCEPT ![m] = "done"]
    /\ UNCHANGED <<clock, live, feedback, scores, deaths, metered, events, flushed, task, reader>>

WorkerDies(m) ==
    /\ auditing[m] \in {"judging", "committed"} /\ deaths < MaxDeaths
    /\ deaths' = deaths + 1 /\ auditing' = [auditing EXCEPT ![m] = "queued"]
    /\ UNCHANGED <<clock, live, feedback, scores, metered, events, flushed, task, reader>>

-----------------------------------------------------------------------------
\* Audit events commit with what they record.

RecordAudit(e) ==
    /\ e \notin DOMAIN events \union DOMAIN flushed
    /\ flushed' = [d \in DOMAIN flushed \union {e} |-> IF d = e THEN clock ELSE flushed[d]]
    /\ UNCHANGED <<clock, live, feedback, scores, auditing, deaths, metered, events, task, reader>>

CommitAudit(e) ==
    /\ e \in DOMAIN flushed /\ flushed' = Without(flushed, {e})
    /\ events' = [d \in DOMAIN events \union {e} |-> IF d = e THEN flushed[d] ELSE events[d]]
    /\ reader' = [reader EXCEPT !.quiet = @ /\ reader.table = "feedback"]
    /\ UNCHANGED <<clock, live, feedback, scores, auditing, deaths, metered, task>>

-----------------------------------------------------------------------------
\* The reader: the export, or somebody who turns the pages.

Open(table, rating) ==
    /\ reader.pc = "idle"
    /\ reader' = [Closed EXCEPT !.pc = "reading", !.table = table, !.rating = rating,
                              !.steady = Keys(table, rating)]
    /\ UNCHANGED <<clock, live, feedback, scores, auditing, deaths, metered, events, flushed, task>>

\* One row more than a page tells whether there is another one.
Turn ==
    LET found == Newest(AfterCursor(Keys(reader.table, reader.rating), reader.cursor))
        more == Len(found) > PageSize
        rows == IF more THEN SubSeq(found, 1, PageSize) ELSE found
    IN /\ reader.pc = "reading"
       /\ reader' = [reader EXCEPT !.pc = IF more THEN "reading" ELSE "done",
                               !.cursor = IF more THEN rows[Len(rows)] ELSE <<>>,
                               !.shown = @ \o rows]
       /\ UNCHANGED <<clock, live, feedback, scores, auditing, deaths, metered, events, flushed, task>>

Tick ==
    /\ clock < MaxTime /\ clock' = clock + 1
    /\ UNCHANGED <<live, feedback, scores, auditing, deaths, metered, events, flushed, task, reader>>

Next ==
    \/ \E r \in Requests, m \in Messages :
          ClearRead(r, m) \/ \E rating \in Ratings : SetRead(r, m, rating)
    \/ \E r \in Requests : SetFlush(r) \/ SetInsert(r) \/ SetUpdate(r) \/ ClearCommit(r)
    \/ \E c \in Mine : DeleteChat(c)
    \/ \E m \in Sound : \/ AuditRead(m) \/ Acknowledge(m) \/ WorkerDies(m)
                         \/ \E reply \in Replies : AuditDone(m, reply)
    \/ \E e \in Events : RecordAudit(e) \/ CommitAudit(e)
    \/ Open("audit", None) \/ \E rating \in Ratings \union {None} : Open("feedback", rating)
    \/ Turn \/ Tick

Spec == Init /\ [][Next]_reviewVars

-----------------------------------------------------------------------------
\* list_feedback_queue, list_audit_events, _export_lines: the pages hold no row
\* twice, in descending order, and when the last one is read they hold every
\* row that was there all the time.
PagesAreComplete ==
    /\ \A i, j \in DOMAIN reader.shown : i < j => Before(reader.shown[j], reader.shown[i])
    /\ \A i, j \in DOMAIN reader.shown : i # j => reader.shown[i][2] # reader.shown[j][2]
    /\ reader.pc = "done" => reader.steady \subseteq {reader.shown[i] : i \in DOMAIN reader.shown}

\* feedback_summary counts what the queue shows, when nothing changed meanwhile.
SummaryIsTheQueue ==
    (reader.pc = "done" /\ reader.table = "feedback" /\ reader.quiet /\ reader.rating # "up") =>
        Len(reader.shown) = IF reader.rating = None THEN Total ELSE Down

\* answer_quality_summary: an answer that counts was paid for, and more than once
\* only when the worker died between the commit and the acknowledgement.
AuditedIsMetered == \A m \in Audited : metered[m] \in 1..(1 + deaths)

ReviewsHold == PagesAreComplete /\ SummaryIsTheQueue /\ AuditedIsMetered
=============================================================================
