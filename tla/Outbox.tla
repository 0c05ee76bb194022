------------------------------- MODULE Outbox -------------------------------
(***************************************************************************)
(* The transactional outbox: outbox_events and the dispatchers that turn   *)
(* its rows into Celery messages.                                          *)
(*                                                                         *)
(* A dispatcher is one call of dispatch_pending: the beat sweep (every     *)
(* thirty seconds) or the nudge a request makes after its commit.  It      *)
(* locks a batch of due rows with FOR UPDATE SKIP LOCKED, sends one        *)
(* message per row, marks the rows in its session, and commits once at the *)
(* end; a dispatcher that dies loses its marks and its locks, never the    *)
(* messages it sent.                                                       *)
(*                                                                         *)
(* Time is the order of available_at: `due` holds the pending rows whose   *)
(* time has come, oldest first, and a row that backed off is outside it    *)
(* until Elapse puts it back, last because its time is the latest.         *)
(***************************************************************************)
EXTENDS Naturals, FiniteSets, SequencesExt

CONSTANTS
    Events,
    Sweepers,     \* runs of outbox.dispatch_pending, scheduled for ever
    Nudgers,      \* calls of nudge(): nothing promises that they happen
    Knows,        \* Knows[d]: the events whose topic d's build has a handler for
    Malformed,    \* events on which the handler itself raises, every time
    Limit,        \* rows of a batch
    MaxFaults     \* bound on broker errors, crashes and lost connections

Dispatchers == Sweepers \union Nudgers

ASSUME LimitAssumption == Limit \in Nat \ {0}
ASSUME FaultAssumption == MaxFaults \in Nat
ASSUME DispatcherAssumption == Sweepers \intersect Nudgers = {}
ASSUME KnowsAssumption == Knows \in [Dispatchers -> SUBSET Events]
ASSUME MalformedAssumption == Malformed \subseteq Events

VARIABLES
    row,      \* status of each event's row ("absent" before, "purged" after)
    due,      \* pending rows with available_at <= now, oldest first
    session,  \* session[d][e]: what d's open transaction holds of e's row
    lost,     \* dispatchers whose connection dropped, which do not know it yet
    sent,     \* messages for e the broker has accepted
    faults

vars == <<row, due, session, lost, sent, faults>>

RowStates == {"absent", "pending", "dispatched", "failed", "purged"}

\* "locked": claimed and still to be sent; the rest are uncommitted marks.
Marks == {"free", "locked", "dispatched", "retry", "failed"}

Held(d) == {e \in Events : session[d][e] # "free"}
Unsent(d) == {e \in Events : session[d][e] = "locked"}
Locked == UNION {Held(d) : d \in Dispatchers \ lost}

TypeOK ==
    /\ row \in [Events -> RowStates]
    /\ due \in Seq(Events)
    /\ session \in [Dispatchers -> [Events -> Marks]]
    /\ lost \subseteq Dispatchers
    /\ sent \in [Events -> Nat]
    /\ faults \in 0..MaxFaults

Init ==
    /\ row = [e \in Events |-> "absent"]
    /\ due = << >>
    /\ session = [d \in Dispatchers |-> [e \in Events |-> "free"]]
    /\ lost = {}
    /\ sent = [e \in Events |-> 0]
    /\ faults = 0

-----------------------------------------------------------------------------

\* The row appears with the commit of the change that justifies it.  Its
\* available_at is the time of the flush, so a commit that was slow can put
\* it ahead of rows that were visible before it.
Publish(e) ==
    /\ row[e] = "absent"
    /\ row' = [row EXCEPT ![e] = "pending"]
    /\ \E i \in 1..Len(due) + 1 : due' = InsertAt(due, i, e)
    /\ UNCHANGED <<session, lost, sent, faults>>

Due == {e \in ToSet(due) : row[e] = "pending"}

\* ORDER BY available_at, as pairs.
Age == UNION {{<<due[i], due[j]>> : j \in i + 1..Len(due)} : i \in DOMAIN due}

Older(e, f) == <<e, f>> \in Age

\* The first Limit rows of `free` in an order.
FirstOf(free, order) ==
    {C \in SUBSET free :
        /\ Cardinality(C) = IF Cardinality(free) < Limit
                            THEN Cardinality(free) ELSE Limit
        /\ \A e \in C, f \in free \ C : <<e, f>> \in order}

\* Mutant of Batches: ORDER BY available_at DESC.
BatchesNewest == FirstOf(Due \ Locked, {<<p[2], p[1]>> : p \in Age})

\* The rows a claim returns: due, pending, locked by nobody, the oldest
\* Limit of them.
Batches == FirstOf(Due \ Locked, Age)

\* claim_due, on a session of its own.
Claim(d) ==
    /\ Held(d) = {}
    /\ \E C \in Batches :
        /\ C # {}
        /\ session' = [session EXCEPT ![d] =
                          [e \in Events |-> IF e \in C THEN "locked" ELSE "free"]]
    /\ UNCHANGED <<row, due, lost, sent, faults>>

\* e is the row the loop of dispatch_pending is at, oldest first.  (Rows can
\* leave `due` under a dispatcher that lost its locks; their order is free.)
At(d, e) ==
    /\ e \in Unsent(d)
    /\ \A f \in Unsent(d) : ~Older(f, e)

Mark(d, e, m) == session' = [session EXCEPT ![d][e] = m]

\* No handler for the topic: the row is parked, nothing is sent.
Park(d, e) ==
    /\ At(d, e)
    /\ e \notin Knows[d]
    /\ Mark(d, e, "failed")
    /\ UNCHANGED <<row, due, lost, sent, faults>>

\* The handler returns: the broker has the message.
Send(d, e) ==
    /\ At(d, e)
    /\ e \in Knows[d] \ Malformed
    /\ sent' = [sent EXCEPT ![e] = @ + 1]
    /\ Mark(d, e, "dispatched")
    /\ UNCHANGED <<row, due, lost, faults>>

\* The handler raises on this payload before it reaches the broker.
Reject(d, e) ==
    /\ At(d, e)
    /\ e \in Knows[d] \intersect Malformed
    /\ Mark(d, e, "retry")
    /\ UNCHANGED <<row, due, lost, sent, faults>>

\* The broker call raises; the broker may have accepted the message all the
\* same (an answer that timed out).
BrokerError(d, e) ==
    /\ At(d, e)
    /\ e \in Knows[d] \ Malformed
    /\ faults < MaxFaults
    /\ faults' = faults + 1
    /\ \E n \in {0, 1} : sent' = [sent EXCEPT ![e] = @ + n]
    /\ Mark(d, e, "retry")
    /\ UNCHANGED <<row, due, lost>>

\* Mutants of Committed: no mark_dispatched; mark_dispatched also after
\* mark_failed.
CommittedNever(d) ==
    [e \in Events |-> IF session[d][e] = "failed" THEN "failed" ELSE row[e]]
CommittedAll(d) ==
    [e \in Events |-> CASE session[d][e] = "failed" -> "failed"
                        [] session[d][e] \in {"dispatched", "retry"} -> "dispatched"
                        [] OTHER -> row[e]]

\* Row states d's commit writes: mark_failed leaves the row pending.
Committed(d) ==
    [e \in Events |-> IF session[d][e] \in {"dispatched", "failed"}
                      THEN session[d][e] ELSE row[e]]

\* The one commit at the end of the batch; a row to retry moves into the
\* future (mark_failed), the others leave the due index.
Commit(d) ==
    /\ d \notin lost
    /\ Held(d) # {}
    /\ Unsent(d) = {}
    /\ row' = Committed(d)
    /\ due' = SelectSeq(due, LAMBDA e : e \notin Held(d))
    /\ session' = [session EXCEPT ![d] = [e \in Events |-> "free"]]
    /\ UNCHANGED <<lost, sent, faults>>

EndSession(d) ==
    /\ session' = [session EXCEPT ![d] = [e \in Events |-> "free"]]
    /\ lost' = lost \ {d}

\* The process dies: the transaction rolls back and its locks are released.
Crash(d) ==
    /\ Held(d) # {}
    /\ faults < MaxFaults
    /\ faults' = faults + 1
    /\ EndSession(d)
    /\ UNCHANGED <<row, due, sent>>

\* The connection drops while the loop runs: Postgres rolls back and releases
\* the locks, and the dispatcher, which sends to the broker, goes on.
LoseConnection(d) ==
    /\ Held(d) # {} /\ d \notin lost
    /\ faults < MaxFaults
    /\ faults' = faults + 1
    /\ lost' = lost \union {d}
    /\ UNCHANGED <<row, due, session, sent>>

\* Its commit raises.
CommitFails(d) ==
    /\ d \in lost /\ Unsent(d) = {}
    /\ EndSession(d)
    /\ UNCHANGED <<row, due, sent, faults>>

\* The backoff of a row is over: its available_at is the newest of those due.
Elapse(e) ==
    /\ row[e] = "pending"
    /\ e \notin ToSet(due)
    /\ due' = Append(due, e)
    /\ UNCHANGED <<row, session, lost, sent, faults>>

\* Mutant: the purge looks at the age of a row and not at its status.
PurgeAnything ==
    /\ \E doomed \in SUBSET {e \in Events : row[e] # "absent"} :
        /\ doomed # {}
        /\ row' = [e \in Events |-> IF e \in doomed THEN "purged" ELSE row[e]]
    /\ UNCHANGED <<due, session, lost, sent, faults>>

\* The daily purge: rows dispatched longer than the retention window ago.
PurgeDispatched ==
    /\ \E doomed \in SUBSET {e \in Events : row[e] = "dispatched"} :
        /\ doomed # {}
        /\ row' = [e \in Events |-> IF e \in doomed THEN "purged" ELSE row[e]]
    /\ UNCHANGED <<due, session, lost, sent, faults>>

Dispatch(d) ==
    \/ \E e \in Events : Park(d, e) \/ Send(d, e) \/ Reject(d, e) \/ BrokerError(d, e)
    \/ Commit(d)
    \/ CommitFails(d)

Next ==
    \/ \E e \in Events : Publish(e) \/ Elapse(e)
    \/ PurgeDispatched
    \/ \E d \in Dispatchers : Claim(d) \/ Dispatch(d) \/ Crash(d) \/ LoseConnection(d)

Spec == Init /\ [][Next]_vars

\* Beat starts a sweep every thirty seconds, a dispatcher that holds rows goes
\* on to its commit unless it dies, and clocks advance.
Fairness ==
    /\ \A s \in Sweepers : WF_vars(Claim(s))
    /\ \A d \in Dispatchers : WF_vars(Dispatch(d))
    /\ \A e \in Events : WF_vars(Elapse(e))

FairSpec == Spec /\ Fairness

-----------------------------------------------------------------------------
(* Properties. *)

\* No two dispatchers whose transactions are open hold the same row: SKIP
\* LOCKED gives a sweep and a nudge disjoint batches.
OneHolder ==
    \A d1, d2 \in Dispatchers \ lost : d1 # d2 => Held(d1) \intersect Held(d2) = {}

\* A row that left the backlog as done was accepted by the broker: no crash,
\* broker error or purge turns owed work into nothing.
HandedOver ==
    \A e \in Events : row[e] \in {"dispatched", "purged"} => sent[e] > 0

\* At-least-once costs one duplicate per failure and none without: dispatchers
\* that overlap do not send a row twice by themselves.
DuplicatesNeedFaults == \A e \in Events : sent[e] <= 1 + faults

\* What an open transaction holds is owed: a row that another dispatcher has
\* sent, parked or lost to the purge is not in a live batch.
OnlyPendingHeld == \A e \in Locked : row[e] = "pending"

Work ==
    [e \in Events |-> CASE row[e] = "absent"  -> "none"
                        [] row[e] = "pending" -> "owed"
                        [] row[e] = "failed"  -> "parked"
                        [] OTHER              -> "settled"]

Contract == INSTANCE DurableWork
                WITH work <- Work, delivered <- {e \in Events : sent[e] > 0}

\* The outbox keeps the promise of DurableWork, whatever is late, lost or dead.
KeepsContract == Contract!Spec

\* Work that a scheduled dispatcher knows how to send is sent in the end: bad
\* rows cannot stall the others, not even as many of them as fill a batch, and
\* neither can a dispatcher that dies.
HandledIsDelivered ==
    \A e \in UNION {Knows[s] : s \in Sweepers} \ Malformed :
        row[e] = "pending" ~> row[e] \in {"dispatched", "purged"}
=============================================================================
