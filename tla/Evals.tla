------------------------------- MODULE Evals --------------------------------
(***************************************************************************)
(* Evaluation runs of one workspace.  Members keep golden queries with the *)
(* documents they should find; a change of the ranking settings, a caller  *)
(* and the night start a run, which scores every query and leaves a row;   *)
(* the dashboard shows the newest row.                                     *)
(*                                                                         *)
(* The ranking settings (top_k, min_score, rerank_enabled) are a number    *)
(* that rises with every change.  A run loads top_k once; min_score and    *)
(* rerank_enabled are read again by retrieve at each query, later than     *)
(* that, so `top` is the oldest setting a run is about.                    *)
(* An event is handed over at least once (Outbox), and each handover may   *)
(* run in a worker of its own.                                             *)
(***************************************************************************)
EXTENDS Naturals, Sequences

CONSTANTS
    Queries, Workers, Requests,
    MaxChanges, MaxEvents, MaxNights, MaxStarts  \* bounds; starts: handovers of an event

VARIABLES
    settings,
    golden,    \* golden_queries
    request,   \* calls in progress: the query to add, or whether a run is due
    events,    \* published: the settings the event is about, and its handovers
    nights,    \* nightly runs that were started
    runs,      \* eval_runs, in the order of created_at
    work       \* run_eval_task, per worker

evalVars == <<settings, golden, request, events, nights, runs, work>>

NoEvent == 0
Idle == [pc |-> "idle", due |-> FALSE]
Resting == [pc |-> "idle", event |-> NoEvent, top |-> 0, crossed |-> FALSE, row |-> 0]

TypeOK ==
    /\ settings \in 0..MaxChanges /\ golden \subseteq Queries
    /\ \A r \in Requests : request[r].pc \in {"idle", "patching"}
    /\ \A e \in DOMAIN events : events[e].about \in 0..MaxChanges /\ events[e].starts <= MaxStarts
    /\ nights <= MaxNights /\ Len(runs) <= MaxEvents + MaxNights
    /\ \A w \in Workers : work[w].pc \in {"idle", "loaded", "claimed"}

Init ==
    /\ settings = 0 /\ golden = {}
    /\ request = [r \in Requests |-> Idle] /\ events = <<>> /\ nights = 0
    /\ runs = <<>> /\ work = [w \in Workers |-> Resting]

-----------------------------------------------------------------------------
(* The members' calls. *)

Call(r, new) == request' = [request EXCEPT ![r] = new]
Publish(about) == events' = Append(events, [about |-> about, starts |-> 0])

\* create_golden_query, whose expected documents are in the workspace.
CreateGoldenQuery(q) ==
    /\ q \notin golden /\ golden' = golden \union {q}
    /\ UNCHANGED <<settings, request, events, nights, runs, work>>

DeleteGoldenQuery(q) ==
    /\ q \in golden /\ golden' = golden \ {q}
    /\ UNCHANGED <<settings, request, events, nights, runs, work>>

\* Mutant: the run is handed to the broker before the settings are committed.
PublishedEarly(r) ==
    IF golden # {} THEN Publish(settings + 1) /\ Call(r, [pc |-> "patching", due |-> FALSE])
    ELSE UNCHANGED events /\ Call(r, [pc |-> "patching", due |-> FALSE])

\* has_any_golden_query: a run is due; nobody can start it before the commit.
Prepared(r) == UNCHANGED events /\ Call(r, [pc |-> "patching", due |-> golden # {}])

\* update_retrieval_settings with a ranking field.
Patch(r) ==
    /\ request[r].pc = "idle" /\ settings < MaxChanges
    /\ Prepared(r)
    /\ UNCHANGED <<settings, golden, nights, runs, work>>

\* The settings and the event are one commit.
PatchCommit(r) ==
    /\ request[r].pc = "patching" /\ settings < MaxChanges /\ Call(r, Idle)
    /\ request[r].due => Len(events) < MaxEvents
    /\ settings' = settings + 1
    /\ IF request[r].due THEN Publish(settings') ELSE UNCHANGED events
    /\ UNCHANGED <<golden, nights, runs, work>>

PatchFails(r) ==
    /\ request[r].pc # "idle" /\ Call(r, Idle)
    /\ UNCHANGED <<settings, golden, events, nights, runs, work>>

\* trigger_eval_run
Trigger ==
    /\ Len(events) < MaxEvents /\ Publish(settings)
    /\ UNCHANGED <<settings, golden, request, nights, runs, work>>

-----------------------------------------------------------------------------
(* The worker. *)

Do(w, new) == work' = [work EXCEPT ![w] = new]

\* Mutant: the settings the event was published with.
SnapshotOfEvent(e) == IF e = NoEvent THEN settings ELSE events[e].about

\* get_workspace_view: a copy as it is now, of which top_k is used.
Snapshot(e) == settings

Load(w, e) == Do(w, [Resting EXCEPT !.pc = "loaded", !.event = e, !.top = Snapshot(e)])

\* run_eval_task for an event, once more after a lost acknowledgement.
Start(w, e) ==
    /\ work[w].pc = "idle" /\ events[e].starts < MaxStarts
    /\ events' = [events EXCEPT ![e].starts = @ + 1] /\ Load(w, e)
    /\ UNCHANGED <<settings, golden, request, nights, runs>>

\* run_all_workspaces_task: a run without an event, if there is a golden query.
Nightly(w) ==
    /\ work[w].pc = "idle" /\ nights < MaxNights /\ golden # {}
    /\ nights' = nights + 1 /\ Load(w, NoEvent)
    /\ UNCHANGED <<settings, golden, request, events, runs>>

\* What a worker loaded before another one's row was written may be older than
\* that row.
Overtaken(w) == [v \in Workers |-> [work[v] EXCEPT
    !.crossed = @ \/ (v # w /\ work[v].pc # "idle" /\ work[v].row = 0)]]
Row(w) == [event |-> work[w].event, top |-> work[w].top, crossed |-> work[w].crossed]

Reserved(w) == \E i \in DOMAIN runs : runs[i].event = work[w].event

\* run_eval: the row that claims an event is unique; a nightly run has none yet.
Claim(w) ==
    /\ work[w].pc = "loaded"
    /\ IF work[w].event = NoEvent THEN Do(w, [work[w] EXCEPT !.pc = "claimed"]) /\ UNCHANGED runs
       ELSE IF Reserved(w) THEN Do(w, Resting) /\ UNCHANGED runs
       ELSE /\ runs' = Append(runs, Row(w))
            /\ work' = [Overtaken(w) EXCEPT ![w].pc = "claimed", ![w].row = Len(runs')]
    /\ UNCHANGED <<settings, golden, request, events, nights>>

\* The queries are listed and scored one by one (_score_one), and the metrics go to
\* the claimed row, or to a new one.
Fill(w) ==
    /\ work[w].pc = "claimed"
    /\ IF work[w].row = 0
       THEN /\ runs' = Append(runs, Row(w))
            /\ work' = [Overtaken(w) EXCEPT ![w] = Resting]
       ELSE Do(w, Resting) /\ UNCHANGED runs
    /\ UNCHANGED <<settings, golden, request, events, nights>>

\* The process dies, or a deleted model, retrieval or the gateway stops the run:
\* its row stays empty.
Fail(w) ==
    /\ work[w].pc # "idle" /\ Do(w, Resting)
    /\ UNCHANGED <<settings, golden, request, events, nights, runs>>

Next ==
    \/ \E r \in Requests : Patch(r) \/ PatchCommit(r) \/ PatchFails(r)
    \/ \E q \in Queries : CreateGoldenQuery(q) \/ DeleteGoldenQuery(q)
    \/ Trigger
    \/ \E w \in Workers :
        \/ \E e \in DOMAIN events : Start(w, e)
        \/ Nightly(w) \/ Claim(w) \/ Fill(w) \/ Fail(w)

Spec == Init /\ [][Next]_evalVars

-----------------------------------------------------------------------------
\* A run that a change of settings started measures this change or a later one,
\* however often and in whatever order events are handed over; an event has one
\* row; and a row of the dashboard is never about older settings than the row
\* before it, unless the two runs overlapped; what a row is about is the top_k that
\* the run loaded, the other two are as new or newer.  update_retrieval_settings,
\* run_eval, latest_eval_run_per_workspace.
RunsMeasureTheirChange ==
    \A j \in DOMAIN runs :
        /\ runs[j].event # NoEvent => runs[j].top >= events[runs[j].event].about
        /\ \A i \in 1..j - 1 :
            /\ runs[i].top > runs[j].top => runs[j].crossed
            /\ runs[j].event = runs[i].event => runs[j].event = NoEvent
=============================================================================
