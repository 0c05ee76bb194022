---------------------------- MODULE DurableWork ----------------------------
(***************************************************************************)
(* What the transactional outbox promises to the code that publishes:      *)
(* work owed in a commit stays owed until it has been handed over at least *)
(* once, or is put aside in the open for a person.  Outbox implements this *)
(* module; a consumer composes with it as its delivery channel and meets   *)
(* nothing else of the outbox.                                             *)
(***************************************************************************)
CONSTANT Events

VARIABLES
    work,      \* what the publisher is owed for each event
    delivered  \* the events handed to the broker at least once

vars == <<work, delivered>>

WorkStates == {"none", "owed", "settled", "parked"}

TypeOK ==
    /\ work \in [Events -> WorkStates]
    /\ delivered \subseteq Events

Init ==
    /\ work = [e \in Events |-> "none"]
    /\ delivered = {}

\* A commit owes work for e.
Owe(e) ==
    /\ work[e] = "none"
    /\ work' = [work EXCEPT ![e] = "owed"]
    /\ UNCHANGED delivered

\* A message for e reaches the broker; a second one changes nothing here, and
\* a sender that is late may deliver what another has closed.
Deliver(e) ==
    /\ work[e] # "none"
    /\ delivered' = delivered \union {e}
    /\ UNCHANGED work

\* One commit closes a batch: what was handed over, and what is put aside.
Close(done, aside) ==
    /\ \A e \in done \union aside : work[e] = "owed"
    /\ done \subseteq delivered
    /\ done \intersect aside = {}
    /\ work' = [e \in Events |-> IF e \in done THEN "settled"
                                 ELSE IF e \in aside THEN "parked"
                                 ELSE work[e]]
    /\ UNCHANGED delivered

Next ==
    \/ \E e \in Events : Owe(e) \/ Deliver(e)
    \/ \E done, aside \in SUBSET Events : Close(done, aside)

Spec == Init /\ [][Next]_vars
=============================================================================
