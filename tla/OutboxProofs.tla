---------------------------- MODULE OutboxProofs ----------------------------
(***************************************************************************)
(* Theorems about Outbox, for every set of events and of dispatchers, every*)
(* assignment of handlers and every batch size.                            *)
(*                                                                         *)
(* The order of `due` plays no part: the argument needs only that a claim  *)
(* returns pending rows nobody holds.                                      *)
(***************************************************************************)
EXTENDS Outbox, FiniteSetTheorems, TLAPS

\* The types the argument needs: `due` is left out.
RowTypes ==
    /\ row \in [Events -> RowStates]
    /\ session \in [Dispatchers -> [Events -> Marks]]
    /\ sent \in [Events -> Nat]

\* A mark "dispatched" is made after its message was accepted.
MarkedWasSent ==
    \A d \in Dispatchers, e \in Events : session[d][e] = "dispatched" => sent[e] > 0

\* What a dispatcher holds, or believes it holds, has a row or had one.
HeldWasPublished ==
    \A d \in Dispatchers, e \in Events : session[d][e] # "free" => row[e] # "absent"

\* OneHolder and OnlyPendingHeld, event by event.
LiveHolders ==
    \A d1, d2 \in Dispatchers \ lost, e \in Events :
        session[d1][e] # "free" /\ session[d2][e] # "free" => d1 = d2

LiveHoldsPending ==
    \A d \in Dispatchers \ lost, e \in Events :
        session[d][e] # "free" => row[e] = "pending"

IInv ==
    /\ RowTypes
    /\ MarkedWasSent
    /\ HeldWasPublished
    /\ LiveHolders
    /\ LiveHoldsPending
    /\ HandedOver

-----------------------------------------------------------------------------

\* A batch consists of pending rows that no open transaction holds.
LEMMA BatchIsFree ==
    ASSUME NEW C \in Batches, NEW e \in C
    PROVE  row[e] = "pending" /\ e \notin Locked
BY DEF Batches, FirstOf, Due

\* An event outside Locked is free in every open session.
LEMMA NotLockedIsFree ==
    ASSUME NEW e \in Events, e \notin Locked, NEW d \in Dispatchers \ lost
    PROVE  session[d][e] = "free"
BY DEF Locked, Held

\* The invariant holds at first.
LEMMA InitInv == Init => IInv
BY DEF Init, IInv, RowTypes, MarkedWasSent, HeldWasPublished, LiveHolders,
       LiveHoldsPending, HandedOver, RowStates, Marks

-----------------------------------------------------------------------------
(***************************************************************************)
(* The invariant is inductive: one lemma per group of actions that change  *)
(* the same variables.                                                     *)
(***************************************************************************)

\* The actions that mark one row of one session: the row states and the set
\* of locks stay, and messages only grow.
LEMMA MarkStep ==
    ASSUME IInv, NEW d \in Dispatchers, NEW e \in Events,
           NEW m \in Marks \ {"free"},
           session[d][e] # "free", Mark(d, e, m),
           sent' \in [Events -> Nat],
           \A f \in Events : sent[f] > 0 => sent'[f] > 0,
           m = "dispatched" => sent'[e] > 0,
           UNCHANGED <<row, lost>>
    PROVE  IInv'
<1>1. session' \in [Dispatchers -> [Events -> Marks]]
  BY DEF IInv, RowTypes, Mark
<1>2. \A c \in Dispatchers, f \in Events :
        session'[c][f] = IF c = d /\ f = e THEN m ELSE session[c][f]
  BY DEF IInv, RowTypes, Mark
<1>3. \A c \in Dispatchers, f \in Events :
        session'[c][f] # "free" <=> session[c][f] # "free"
  BY <1>2
<1>4. MarkedWasSent'
  BY <1>2 DEF IInv, MarkedWasSent
<1>5. HeldWasPublished' /\ LiveHolders' /\ LiveHoldsPending'
  BY <1>3 DEF IInv, HeldWasPublished, LiveHolders, LiveHoldsPending
<1>6. HandedOver'
  BY DEF IInv, HandedOver
<1> QED
  BY <1>1, <1>4, <1>5, <1>6 DEF IInv, RowTypes

\* The actions that end a session without a commit.
LEMMA EndStep ==
    ASSUME IInv, NEW d \in Dispatchers, EndSession(d), UNCHANGED <<row, sent>>
    PROVE  IInv'
<1>1. session' \in [Dispatchers -> [Events -> Marks]]
  BY DEF IInv, RowTypes, EndSession, Marks
<1>2. \A c \in Dispatchers, f \in Events :
        session'[c][f] = IF c = d THEN "free" ELSE session[c][f]
  BY DEF IInv, RowTypes, EndSession
<1>3. \A c \in Dispatchers \ lost' : c = d \/ c \in Dispatchers \ lost
  BY DEF EndSession
<1>4. MarkedWasSent' /\ HeldWasPublished'
  BY <1>2 DEF IInv, MarkedWasSent, HeldWasPublished
<1>5. LiveHolders'
  BY <1>2, <1>3 DEF IInv, LiveHolders
<1>6. LiveHoldsPending'
  BY <1>2, <1>3 DEF IInv, LiveHoldsPending
<1>7. HandedOver'
  BY DEF IInv, HandedOver
<1> QED
  BY <1>1, <1>4, <1>5, <1>6, <1>7 DEF IInv, RowTypes

\* A claim locks rows that nobody holds.
LEMMA ClaimStep ==
    ASSUME IInv, NEW d \in Dispatchers, Claim(d)
    PROVE  IInv'
<1>1. PICK C \in Batches :
        session' = [session EXCEPT ![d] =
                       [e \in Events |-> IF e \in C THEN "locked" ELSE "free"]]
  BY DEF Claim
<1>2. \A c \in Dispatchers, f \in Events :
        session'[c][f] = IF c = d THEN (IF f \in C THEN "locked" ELSE "free")
                         ELSE session[c][f]
  BY <1>1 DEF IInv, RowTypes
<1>3. session' \in [Dispatchers -> [Events -> Marks]]
  BY <1>1 DEF IInv, RowTypes, Marks
<1>4. row' = row /\ sent' = sent /\ lost' = lost
  BY DEF Claim
<1>5. \A f \in C : row[f] = "pending"
  BY BatchIsFree
<1>6. \A f \in C \intersect Events, c \in Dispatchers \ lost : session[c][f] = "free"
  BY BatchIsFree, NotLockedIsFree
<1>7. MarkedWasSent' /\ HeldWasPublished'
  BY <1>2, <1>4, <1>5 DEF IInv, MarkedWasSent, HeldWasPublished
<1>8. LiveHolders'
  BY <1>2, <1>4, <1>6 DEF IInv, LiveHolders
<1>9. LiveHoldsPending'
  BY <1>2, <1>4, <1>5 DEF IInv, LiveHoldsPending
<1> QED
  BY <1>3, <1>4, <1>7, <1>8, <1>9 DEF IInv, RowTypes, HandedOver

\* A commit writes the marks of one session and lets go of its rows.
LEMMA CommitStep ==
    ASSUME IInv, NEW d \in Dispatchers, Commit(d)
    PROVE  IInv'
<1>1. /\ d \in Dispatchers \ lost
      /\ row' = Committed(d)
      /\ sent' = sent /\ lost' = lost
      /\ session' = [session EXCEPT ![d] = [e \in Events |-> "free"]]
  BY DEF Commit
<1>2. \A c \in Dispatchers, f \in Events :
        session'[c][f] = IF c = d THEN "free" ELSE session[c][f]
  BY <1>1 DEF IInv, RowTypes
<1>3. \A f \in Events :
        row'[f] = IF session[d][f] \in {"dispatched", "failed"}
                  THEN session[d][f] ELSE row[f]
  BY <1>1 DEF Committed
<1>4. RowTypes'
  <2>1. row' \in [Events -> RowStates]
    BY <1>1 DEF IInv, RowTypes, Committed, RowStates
  <2>2. session' \in [Dispatchers -> [Events -> Marks]]
    BY <1>1 DEF IInv, RowTypes, Marks
  <2> QED
    BY <1>1, <2>1, <2>2 DEF IInv, RowTypes
<1>5. MarkedWasSent'
  BY <1>1, <1>2 DEF IInv, MarkedWasSent
<1>6. HeldWasPublished'
  BY <1>2, <1>3 DEF IInv, HeldWasPublished
<1>7. LiveHolders'
  BY <1>1, <1>2 DEF IInv, LiveHolders
<1>8. LiveHoldsPending'
  BY <1>1, <1>2, <1>3 DEF IInv, LiveHolders, LiveHoldsPending
<1>9. HandedOver'
  BY <1>1, <1>3 DEF IInv, HandedOver, MarkedWasSent
<1> QED
  BY <1>4, <1>5, <1>6, <1>7, <1>8, <1>9 DEF IInv

\* A lost connection changes no row; its session only stops counting as a live one.
LEMMA LoseStep ==
    ASSUME IInv, NEW d \in Dispatchers, LoseConnection(d)
    PROVE  IInv'
<1>1. /\ row' = row /\ sent' = sent /\ session' = session
      /\ Dispatchers \ lost' \subseteq Dispatchers \ lost
  BY DEF LoseConnection
<1>2. LiveHolders' /\ LiveHoldsPending'
  BY <1>1 DEF IInv, LiveHolders, LiveHoldsPending
<1> QED
  BY <1>1, <1>2 DEF IInv, RowTypes, MarkedWasSent, HeldWasPublished, HandedOver

\* Publish and PurgeDispatched change rows no open transaction holds.
LEMMA PublishStep ==
    ASSUME IInv, NEW e \in Events, Publish(e)
    PROVE  IInv'
<1>1. /\ row[e] = "absent" /\ row' = [row EXCEPT ![e] = "pending"]
      /\ session' = session /\ lost' = lost /\ sent' = sent
  BY DEF Publish
<1>2. \A f \in Events : row'[f] = IF f = e THEN "pending" ELSE row[f]
  BY <1>1 DEF IInv, RowTypes
<1>3. RowTypes'
  BY <1>1 DEF IInv, RowTypes, RowStates
<1> QED
  BY <1>1, <1>2, <1>3 DEF IInv, MarkedWasSent, HeldWasPublished, LiveHolders,
                          LiveHoldsPending, HandedOver

\* A purge deletes rows that are marked dispatched.
LEMMA PurgeStep ==
    ASSUME IInv, PurgeDispatched
    PROVE  IInv'
<1>1. PICK doomed \in SUBSET {e \in Events : row[e] = "dispatched"} :
        row' = [e \in Events |-> IF e \in doomed THEN "purged" ELSE row[e]]
  BY DEF PurgeDispatched
<1>2. session' = session /\ lost' = lost /\ sent' = sent
  BY DEF PurgeDispatched
<1>3. RowTypes'
  BY <1>1, <1>2 DEF IInv, RowTypes, RowStates
<1>4. LiveHoldsPending'
  BY <1>1, <1>2 DEF IInv, LiveHoldsPending
<1>5. HandedOver' /\ HeldWasPublished'
  BY <1>1, <1>2 DEF IInv, HandedOver, HeldWasPublished
<1> QED
  BY <1>2, <1>3, <1>4, <1>5 DEF IInv, MarkedWasSent, LiveHolders

\* A message is sent for a row that its dispatcher holds.
LEMMA SendStep ==
    ASSUME IInv, NEW d \in Dispatchers, NEW e \in Events, Send(d, e)
    PROVE  IInv'
<1>1. session[d][e] # "free"
  BY DEF Send, At, Unsent
<1>2. /\ sent' = [sent EXCEPT ![e] = @ + 1]
      /\ Mark(d, e, "dispatched")
      /\ UNCHANGED <<row, lost>>
  BY DEF Send
<1>3. /\ sent' \in [Events -> Nat]
      /\ sent'[e] > 0
      /\ \A f \in Events : sent[f] > 0 => sent'[f] > 0
  BY <1>2 DEF IInv, RowTypes
<1> QED
  BY <1>1, <1>2, <1>3, MarkStep DEF Marks

\* An error of the broker may have sent the message or not; the session marks a retry.
LEMMA BrokerErrorStep ==
    ASSUME IInv, NEW d \in Dispatchers, NEW e \in Events, BrokerError(d, e)
    PROVE  IInv'
<1>1. session[d][e] # "free"
  BY DEF BrokerError, At, Unsent
<1>2. PICK n \in {0, 1} : sent' = [sent EXCEPT ![e] = @ + n]
  BY DEF BrokerError
<1>3. Mark(d, e, "retry") /\ UNCHANGED <<row, lost>>
  BY DEF BrokerError
<1>4. /\ sent' \in [Events -> Nat]
      /\ \A f \in Events : sent[f] > 0 => sent'[f] > 0
  BY <1>2 DEF IInv, RowTypes
<1> QED
  BY <1>1, <1>3, <1>4, MarkStep DEF Marks

\* A row that is parked or rejected is marked without a message.
LEMMA QuietMarkStep ==
    ASSUME IInv, NEW d \in Dispatchers, NEW e \in Events, Park(d, e) \/ Reject(d, e)
    PROVE  IInv'
<1>1. session[d][e] # "free"
  BY DEF Park, Reject, At, Unsent
<1>2. Mark(d, e, "failed") \/ Mark(d, e, "retry")
  BY DEF Park, Reject
<1>3. UNCHANGED <<row, lost, sent>>
  BY DEF Park, Reject
<1> QED
  BY <1>1, <1>2, <1>3, MarkStep DEF Marks, IInv, RowTypes

\* Every step keeps the invariant.
LEMMA NextInv == IInv /\ [Next]_vars => IInv'
<1> SUFFICES ASSUME IInv, [Next]_vars PROVE IInv'
  OBVIOUS
<1>1. ASSUME NEW e \in Events, Publish(e) PROVE IInv'
  BY <1>1, PublishStep
<1>2. ASSUME NEW e \in Events, Elapse(e) PROVE IInv'
  BY <1>2 DEF Elapse, IInv, RowTypes, MarkedWasSent, HeldWasPublished, LiveHolders,
              LiveHoldsPending, HandedOver
<1>3. CASE PurgeDispatched
  BY <1>3, PurgeStep
<1>4. ASSUME NEW d \in Dispatchers, Claim(d) PROVE IInv'
  BY <1>4, ClaimStep
<1>5. ASSUME NEW d \in Dispatchers, Dispatch(d) PROVE IInv'
  <2>1. ASSUME NEW e \in Events, Send(d, e) PROVE IInv'
    BY <2>1, SendStep
  <2>2. ASSUME NEW e \in Events, BrokerError(d, e) PROVE IInv'
    BY <2>2, BrokerErrorStep
  <2>3. ASSUME NEW e \in Events, Park(d, e) \/ Reject(d, e) PROVE IInv'
    BY <2>3, QuietMarkStep
  <2>4. CASE Commit(d)
    BY <2>4, CommitStep
  <2>5. CASE CommitFails(d)
    BY <2>5, EndStep DEF CommitFails
  <2> QED
    BY <1>5, <2>1, <2>2, <2>3, <2>4, <2>5 DEF Dispatch
<1>6. ASSUME NEW d \in Dispatchers, Crash(d) PROVE IInv'
  BY <1>6, EndStep DEF Crash
<1>7. ASSUME NEW d \in Dispatchers, LoseConnection(d) PROVE IInv'
  BY <1>7, LoseStep
<1>8. CASE UNCHANGED vars
  BY <1>8 DEF vars, IInv, RowTypes, MarkedWasSent, HeldWasPublished, LiveHolders,
              LiveHoldsPending, HandedOver
<1> QED
  BY <1>1, <1>2, <1>3, <1>4, <1>5, <1>6, <1>7, <1>8 DEF Next

\* The invariant holds in every reachable state.
LEMMA Invariance == Spec => []IInv
BY InitInv, NextInv, PTL DEF Spec

-----------------------------------------------------------------------------

\* No two dispatchers with open transactions hold the same row: claim_due's
\* FOR UPDATE SKIP LOCKED, kept across every loss of a connection.
THEOREM OneHolderAlways == Spec => []OneHolder
<1>1. IInv => OneHolder
  BY DEF IInv, LiveHolders, OneHolder, Held
<1> QED
  BY <1>1, Invariance, PTL

\* What a live dispatcher holds is still owed when it commits.
THEOREM OnlyPendingHeldAlways == Spec => []OnlyPendingHeld
<1>1. IInv => OnlyPendingHeld
  BY DEF IInv, LiveHoldsPending, OnlyPendingHeld, Locked, Held
<1> QED
  BY <1>1, Invariance, PTL

\* No work is lost: a row marked dispatched, or purged, was handed over.
THEOREM HandedOverAlways == Spec => []HandedOver
<1>1. IInv => HandedOver
  BY DEF IInv
<1> QED
  BY <1>1, Invariance, PTL

-----------------------------------------------------------------------------
(***************************************************************************)
(* The outbox implements DurableWork.                                      *)
(***************************************************************************)
Delivered == {e \in Events : sent[e] > 0}

\* The first states are those of the contract.
LEMMA ContractInit == Init => Contract!Init
BY DEF Init, Contract!Init, Work

\* A row keeps its work when its state stays.
LEMMA SameWork ==
    ASSUME UNCHANGED row
    PROVE  Work' = Work
BY DEF Work

\* A message that is sent is a delivery, or repeats one.
LEMMA DeliverMaps ==
    ASSUME IInv, NEW d \in Dispatchers, NEW e \in Events, session[d][e] # "free",
           UNCHANGED row,
           NEW n \in {0, 1}, sent' = [sent EXCEPT ![e] = @ + n]
    PROVE  Contract!Deliver(e) \/ UNCHANGED <<Work, Delivered>>
<1>1. Work[e] # "none"
  BY DEF IInv, HeldWasPublished, Work
<1>2. \A f \in Events : sent'[f] = IF f = e THEN sent[f] + n ELSE sent[f]
  BY DEF IInv, RowTypes
<1>3. sent[e] \in Nat
  BY DEF IInv, RowTypes
<1>4. CASE n = 0
  BY <1>2, <1>3, <1>4, SameWork DEF Delivered
<1>5. CASE n = 1
  <2>1. Delivered' = Delivered \union {e}
    BY <1>2, <1>3, <1>5 DEF Delivered
  <2> QED
    BY <1>1, <2>1, SameWork DEF Contract!Deliver, Delivered
<1> QED
  BY <1>4, <1>5

\* A commit closes the rows it marks: those sent and those parked.
LEMMA CloseMaps ==
    ASSUME IInv, NEW d \in Dispatchers, Commit(d)
    PROVE  \E done, aside \in SUBSET Events : Contract!Close(done, aside)
<1> DEFINE done == {e \in Events : session[d][e] = "dispatched"}
           aside == {e \in Events : session[d][e] = "failed"}
<1>1. d \in Dispatchers \ lost /\ sent' = sent /\ row' = Committed(d)
  BY DEF Commit
<1>2. \A e \in done \union aside : Work[e] = "owed"
  BY <1>1 DEF IInv, LiveHoldsPending, Work
<1>3. done \subseteq Delivered
  BY DEF IInv, MarkedWasSent, Delivered
<1>4. Work' = [e \in Events |-> IF e \in done THEN "settled"
                                ELSE IF e \in aside THEN "parked"
                                ELSE Work[e]]
  <2>1. \A e \in Events :
          row'[e] = IF e \in done THEN "dispatched"
                    ELSE IF e \in aside THEN "failed" ELSE row[e]
    BY <1>1 DEF Committed
  <2> QED
    BY <2>1 DEF Work
<1>5. Delivered' = Delivered
  BY <1>1 DEF Delivered
<1>6. done \intersect aside = {}
  OBVIOUS
<1>7. Contract!Close(done, aside)
  BY <1>2, <1>3, <1>4, <1>5, <1>6 DEF Contract!Close, Delivered
<1> QED
  BY <1>7

\* Every step of the outbox is a step of DurableWork or changes nothing of it.
LEMMA ContractStep ==
    ASSUME IInv, [Next]_vars
    PROVE  [Contract!Next]_<<Work, Delivered>>
<1>1. ASSUME NEW e \in Events, Publish(e)
      PROVE  Contract!Owe(e)
  <2>1. row[e] = "absent" /\ row' = [row EXCEPT ![e] = "pending"] /\ sent' = sent
    BY <1>1 DEF Publish
  <2>2. \A f \in Events : row'[f] = IF f = e THEN "pending" ELSE row[f]
    BY <2>1 DEF IInv, RowTypes
  <2>3. Work[e] = "none" /\ Work'[e] = "owed"
    BY <2>1, <2>2 DEF Work
  <2>4. \A f \in Events \ {e} : Work'[f] = Work[f]
    BY <2>2 DEF Work
  <2>5. Work' = [Work EXCEPT ![e] = "owed"]
    BY <2>3, <2>4 DEF Work
  <2> QED
    BY <2>1, <2>3, <2>5 DEF Contract!Owe
<1>2. CASE PurgeDispatched
  <2>1. PICK doomed \in SUBSET {e \in Events : row[e] = "dispatched"} :
          row' = [e \in Events |-> IF e \in doomed THEN "purged" ELSE row[e]]
    BY <1>2 DEF PurgeDispatched
  <2>2. Work' = Work
    BY <2>1 DEF Work
  <2> QED
    BY <1>2, <2>2 DEF PurgeDispatched, Delivered
<1>3. ASSUME NEW d \in Dispatchers, Dispatch(d)
      PROVE  [Contract!Next]_<<Work, Delivered>>
  <2>1. ASSUME NEW e \in Events, Send(d, e) \/ BrokerError(d, e)
        PROVE  [Contract!Next]_<<Work, Delivered>>
    <3>1. PICK n \in {0, 1} : sent' = [sent EXCEPT ![e] = @ + n]
      BY <2>1 DEF Send, BrokerError
    <3>2. session[d][e] # "free" /\ UNCHANGED row
      BY <2>1 DEF Send, BrokerError, At, Unsent
    <3> QED
      BY <3>1, <3>2, DeliverMaps DEF Contract!Next
  <2>2. ASSUME NEW e \in Events, Park(d, e) \/ Reject(d, e)
        PROVE  UNCHANGED <<Work, Delivered>>
    BY <2>2, SameWork DEF Park, Reject, Delivered
  <2>3. CASE Commit(d)
    BY <2>3, CloseMaps DEF Contract!Next
  <2>4. CASE CommitFails(d)
    BY <2>4, SameWork DEF CommitFails, Delivered
  <2> QED
    BY <1>3, <2>1, <2>2, <2>3, <2>4 DEF Dispatch
<1>4. CASE UNCHANGED <<row, sent>>
  BY <1>4, SameWork DEF Delivered
<1>5. ASSUME NEW d \in Dispatchers, Claim(d) \/ Crash(d) \/ LoseConnection(d)
      PROVE  UNCHANGED <<row, sent>>
  BY <1>5 DEF Claim, Crash, LoseConnection
<1>6. ASSUME NEW e \in Events, Elapse(e)
      PROVE  UNCHANGED <<row, sent>>
  BY <1>6 DEF Elapse
<1> QED
  BY <1>1, <1>2, <1>3, <1>4, <1>5, <1>6 DEF Next, vars, Contract!Next

\* The outbox keeps the contract its publishers and consumers rely on: owed
\* work stays owed until it was handed over or put aside in the open.
THEOREM ContractKept == Spec => KeepsContract
<1>1. Init => Contract!Init
  BY ContractInit
<1>2. IInv /\ [Next]_vars => [Contract!Next]_<<Work, Delivered>>
  BY ContractStep
<1>3. [Contract!Next]_<<Work, Delivered>> <=> [Contract!Next]_(Contract!vars)
  BY DEF Contract!vars, Delivered
<1> QED
  BY <1>1, <1>2, <1>3, Invariance, PTL DEF Spec, KeepsContract, Contract!Spec

-----------------------------------------------------------------------------
(***************************************************************************)
(* One duplicate per failure.  A message beyond the first is paid for by a *)
(* fault: one that is still to come (a dispatcher that lost its locks and  *)
(* has the row yet to send) as well as one that was sent and not recorded. *)
(***************************************************************************)

\* Dispatchers that will send e without holding its row.
Zombies(e) == {d \in lost : session[d][e] = "locked"}

\* One message of e is on record, or will be at a commit that can succeed.
Recorded(e) ==
    \/ row[e] \in {"dispatched", "purged"}
    \/ \E d \in Dispatchers \ lost : session[d][e] = "dispatched"

Credit(e) == IF Recorded(e) THEN 1 ELSE 0

Paid == \A e \in Events : sent[e] + Cardinality(Zombies(e)) <= faults + Credit(e)

DupInv ==
    /\ faults \in Nat
    /\ lost \subseteq Dispatchers
    /\ IsFiniteSet(lost)
    /\ \A d \in lost : Held(d) # {}
    /\ Paid

\* Those that still send for an event after they were lost are finitely many.
LEMMA ZombieCount ==
    ASSUME DupInv, NEW e \in Events
    PROVE  IsFiniteSet(Zombies(e)) /\ Cardinality(Zombies(e)) \in Nat
<1>1. Zombies(e) \subseteq lost
  BY DEF Zombies
<1> QED
  BY <1>1, FS_Subset, FS_CardinalityType DEF DupInv

\* At first nothing was sent twice.
LEMMA DupInit == Init => DupInv
<1> SUFFICES ASSUME Init PROVE DupInv
  OBVIOUS
<1>1. IsFiniteSet({}) /\ Cardinality({}) = 0
  BY FS_EmptySet
<1>2. \A e \in Events : Zombies(e) = {}
  BY DEF Init, Zombies
<1>3. ASSUME NEW e \in Events
      PROVE  sent[e] + Cardinality(Zombies(e)) <= faults + Credit(e)
  <2>1. Cardinality(Zombies(e)) = 0 /\ Credit(e) \in {0, 1}
    BY <1>1, <1>2 DEF Credit
  <2>2. sent[e] = 0 /\ faults = 0
    BY DEF Init
  <2> QED
    BY <2>1, <2>2
<1> QED
  BY <1>1, <1>3 DEF Init, DupInv, Paid

\* A mark that replaces "locked": a dispatcher without its locks is one
\* sender less; one with its locks has recorded nothing of the row before.
LEMMA DupMark ==
    ASSUME IInv, DupInv, NEW d \in Dispatchers, NEW e \in Events,
           NEW m \in Marks \ {"free", "locked"},
           session[d][e] = "locked", Mark(d, e, m), UNCHANGED <<row, lost>>,
           NEW n \in {0, 1}, sent' = [sent EXCEPT ![e] = @ + n],
           NEW k \in {0, 1}, faults' = faults + k,
           n <= k \/ m = "dispatched"
    PROVE  DupInv'
<1>1. \A c \in Dispatchers, f \in Events :
        session'[c][f] = IF c = d /\ f = e THEN m ELSE session[c][f]
  BY DEF IInv, RowTypes, Mark
<1>2. \A c \in lost : Held(c)' # {}
  BY <1>1 DEF DupInv, Held
<1>3. \A f \in Events \ {e} : Zombies(f)' = Zombies(f) /\ Credit(f)' = Credit(f)
  <2> TAKE f \in Events \ {e}
  <2>1. \A c \in Dispatchers : session'[c][f] = session[c][f]
    BY <1>1
  <2> QED
    BY <2>1 DEF DupInv, Zombies, Credit, Recorded
<1>4. /\ sent[e] \in Nat /\ sent'[e] = sent[e] + n
      /\ \A f \in Events \ {e} : sent'[f] = sent[f]
  BY DEF IInv, RowTypes
<1>5. sent'[e] + Cardinality(Zombies(e)') <= faults' + Credit(e)'
  <2>1. CASE d \in lost
    <3>1. d \in Zombies(e) /\ Zombies(e)' = Zombies(e) \ {d}
      BY <2>1, <1>1 DEF Zombies, DupInv
    <3>2. Cardinality(Zombies(e)') = Cardinality(Zombies(e)) - 1
      BY <3>1, ZombieCount, FS_RemoveElement
    <3>3. Credit(e)' = Credit(e)
      BY <2>1, <1>1 DEF Credit, Recorded
    <3>4. Credit(e) \in Nat /\ Cardinality(Zombies(e)) \in Nat
      BY ZombieCount DEF Credit
    <3> QED
      BY <1>4, <3>2, <3>3, <3>4 DEF DupInv, Paid
  <2>2. CASE d \notin lost
    <3>1. Zombies(e)' = Zombies(e)
      BY <2>2, <1>1 DEF Zombies, DupInv
    <3>2. ~Recorded(e)
      BY <2>2 DEF IInv, LiveHolders, LiveHoldsPending, Recorded
    <3>3. m = "dispatched" => Recorded(e)'
      BY <2>2, <1>1 DEF Recorded
    <3>4. Cardinality(Zombies(e)) \in Nat
      BY ZombieCount
    <3> QED
      BY <1>4, <3>1, <3>2, <3>3, <3>4 DEF DupInv, Paid, Credit
  <2> QED
    BY <2>1, <2>2
<1>6. \A f \in Events \ {e} :
        sent'[f] + Cardinality(Zombies(f)') <= faults' + Credit(f)'
  <2> TAKE f \in Events \ {e}
  <2>1. /\ Cardinality(Zombies(f)) \in Nat /\ sent[f] \in Nat
        /\ Credit(f) \in Nat /\ faults \in Nat
    BY ZombieCount DEF IInv, RowTypes, Credit, DupInv
  <2> QED
    BY <1>3, <1>4, <2>1 DEF DupInv, Paid
<1> QED
  BY <1>2, <1>5, <1>6 DEF DupInv, Paid

\* The steps that send nothing and cost nothing: no sender is added, and what
\* is on record stays there.
LEMMA DupQuiet ==
    ASSUME IInv, DupInv, UNCHANGED <<sent, faults>>,
           lost' \subseteq lost,
           \A d \in lost' : Held(d)' # {},
           \A e \in Events : Zombies(e)' \subseteq Zombies(e),
           \A e \in Events : Recorded(e) => Recorded(e)'
    PROVE  DupInv'
<1>1. lost' \subseteq Dispatchers /\ IsFiniteSet(lost')
  BY FS_Subset DEF DupInv
<1>2. ASSUME NEW e \in Events
      PROVE  sent'[e] + Cardinality(Zombies(e)') <= faults' + Credit(e)'
  <2>1. /\ Cardinality(Zombies(e)) \in Nat
        /\ Cardinality(Zombies(e)') \in Nat
        /\ Cardinality(Zombies(e)') <= Cardinality(Zombies(e))
    BY ZombieCount, FS_Subset, FS_CardinalityType
  <2>2. Credit(e) <= Credit(e)' /\ Credit(e) \in Nat /\ Credit(e)' \in Nat
    BY DEF Credit
  <2>3. sent[e] \in Nat /\ faults \in Nat
    BY DEF IInv, RowTypes, DupInv
  <2> QED
    BY <2>1, <2>2, <2>3 DEF DupInv, Paid
<1> QED
  BY <1>1, <1>2 DEF DupInv, Paid

\* A claim by a live dispatcher neither sends nor loses anything.
LEMMA DupClaim ==
    ASSUME IInv, DupInv, NEW d \in Dispatchers, Claim(d)
    PROVE  DupInv'
<1>1. d \notin lost /\ UNCHANGED <<row, lost, sent, faults>>
  BY DEF Claim, DupInv
<1>2. \A c \in Dispatchers \ {d} : session'[c] = session[c]
  BY DEF Claim, IInv, RowTypes
<1>3. \A e \in Events : session[d][e] = "free"
  BY DEF Claim, Held
<1>4. \A c \in lost' : Held(c)' # {}
  BY <1>1, <1>2 DEF DupInv, Held
<1>5. \A e \in Events : Zombies(e)' \subseteq Zombies(e)
  BY <1>1, <1>2 DEF DupInv, Zombies
<1>6. \A e \in Events : Recorded(e) => Recorded(e)'
  BY <1>1, <1>2, <1>3 DEF Recorded
<1> QED
  BY <1>1, <1>4, <1>5, <1>6, DupQuiet

\* A commit puts on record what the session had marked.
LEMMA DupCommit ==
    ASSUME IInv, DupInv, NEW d \in Dispatchers, Commit(d)
    PROVE  DupInv'
<1>1. d \notin lost /\ UNCHANGED <<lost, sent, faults>> /\ row' = Committed(d)
  BY DEF Commit
<1>2. \A c \in Dispatchers \ {d} : session'[c] = session[c]
  BY DEF Commit, IInv, RowTypes
<1>3. \A c \in lost' : Held(c)' # {}
  BY <1>1, <1>2 DEF DupInv, Held
<1>4. \A e \in Events : Zombies(e)' \subseteq Zombies(e)
  BY <1>1, <1>2 DEF DupInv, Zombies
<1>5. ASSUME NEW e \in Events, Recorded(e) PROVE Recorded(e)'
  <2>1. row'[e] = IF session[d][e] \in {"dispatched", "failed"}
                  THEN session[d][e] ELSE row[e]
    BY <1>1 DEF Committed
  <2>2. row[e] \in {"dispatched", "purged"} => session[d][e] = "free"
    BY <1>1 DEF IInv, LiveHoldsPending
  <2> QED
    BY <1>1, <1>2, <1>5, <2>1, <2>2 DEF Recorded
<1> QED
  BY <1>1, <1>3, <1>4, <1>5, DupQuiet

\* The end of a session that had lost its locks and sent its last message.
LEMMA DupCommitFails ==
    ASSUME IInv, DupInv, NEW d \in Dispatchers, CommitFails(d)
    PROVE  DupInv'
<1>1. d \in lost /\ lost' = lost \ {d} /\ UNCHANGED <<row, sent, faults>>
  BY DEF CommitFails, EndSession
<1>2. \A c \in Dispatchers \ {d} : session'[c] = session[c]
  BY DEF CommitFails, EndSession, IInv, RowTypes
<1>3. \A c \in lost' : Held(c)' # {}
  BY <1>1, <1>2 DEF DupInv, Held
<1>4. \A e \in Events : Zombies(e)' \subseteq Zombies(e)
  BY <1>1, <1>2 DEF DupInv, Zombies
<1>5. \A e \in Events : Recorded(e) => Recorded(e)'
  BY <1>1, <1>2 DEF Recorded
<1> QED
  BY <1>1, <1>3, <1>4, <1>5, DupQuiet

\* The fault a crash counts pays for the marks it loses.
LEMMA DupCrash ==
    ASSUME IInv, DupInv, NEW d \in Dispatchers, Crash(d)
    PROVE  DupInv'
<1>1. lost' = lost \ {d} /\ UNCHANGED <<row, sent>> /\ faults' = faults + 1
  BY DEF Crash, EndSession
<1>2. \A c \in Dispatchers \ {d} : session'[c] = session[c]
  BY DEF Crash, EndSession, IInv, RowTypes
<1>3. /\ lost' \subseteq Dispatchers /\ IsFiniteSet(lost')
      /\ \A c \in lost' : Held(c)' # {}
      /\ faults' \in Nat
  <2>1. lost' \subseteq lost
    BY <1>1
  <2> QED
    BY <1>1, <1>2, <2>1, FS_Subset DEF DupInv, Held
<1>4. ASSUME NEW e \in Events
      PROVE  sent'[e] + Cardinality(Zombies(e)') <= faults' + Credit(e)'
  <2>1. Zombies(e)' \subseteq Zombies(e)
    BY <1>1, <1>2 DEF DupInv, Zombies
  <2>2. /\ Cardinality(Zombies(e)) \in Nat
        /\ Cardinality(Zombies(e)') \in Nat
        /\ Cardinality(Zombies(e)') <= Cardinality(Zombies(e))
    BY <2>1, ZombieCount, FS_Subset, FS_CardinalityType
  <2>3. Credit(e) <= Credit(e)' + 1 /\ Credit(e) \in Nat /\ Credit(e)' \in Nat
    BY DEF Credit
  <2>4. sent'[e] = sent[e] /\ sent[e] \in Nat /\ faults \in Nat
    BY <1>1 DEF IInv, RowTypes, DupInv
  <2> QED
    BY <1>1, <2>2, <2>3, <2>4 DEF DupInv, Paid
<1> QED
  BY <1>3, <1>4 DEF DupInv, Paid

\* A lost connection makes a row still to send a second message to come, or
\* takes a message off the record: one of the two for each row, never both.
LEMMA DupLose ==
    ASSUME IInv, DupInv, NEW d \in Dispatchers, LoseConnection(d)
    PROVE  DupInv'
<1>1. /\ d \notin lost /\ Held(d) # {} /\ lost' = lost \union {d}
      /\ UNCHANGED <<row, sent, session>> /\ faults' = faults + 1
  BY DEF LoseConnection
<1>2. /\ lost' \subseteq Dispatchers /\ IsFiniteSet(lost')
      /\ \A c \in lost' : Held(c)' # {}
      /\ faults' \in Nat
  BY <1>1, FS_AddElement DEF DupInv, Held
<1>3. ASSUME NEW e \in Events
      PROVE  sent'[e] + Cardinality(Zombies(e)') <= faults' + Credit(e)'
  <2>1. sent'[e] = sent[e] /\ sent[e] \in Nat /\ faults \in Nat
    BY <1>1 DEF IInv, RowTypes, DupInv
  <2>2. /\ Credit(e) \in Nat /\ Credit(e)' \in Nat
        /\ IsFiniteSet(Zombies(e)) /\ Cardinality(Zombies(e)) \in Nat
    BY ZombieCount DEF Credit
  <2>3. CASE session[d][e] = "locked"
    <3>1. d \notin Zombies(e) /\ Zombies(e)' = Zombies(e) \union {d}
      BY <1>1, <2>3 DEF Zombies
    <3>2. Cardinality(Zombies(e)') = Cardinality(Zombies(e)) + 1
      BY <2>2, <3>1, FS_AddElement
    <3>3. Credit(e)' = Credit(e)
      BY <1>1, <2>3 DEF Credit, Recorded
    <3> QED
      BY <1>1, <2>1, <2>2, <3>2, <3>3 DEF DupInv, Paid
  <2>4. CASE session[d][e] # "locked"
    <3>1. Zombies(e)' = Zombies(e)
      BY <1>1, <2>4 DEF Zombies
    <3>2. Credit(e) <= Credit(e)' + 1
      BY DEF Credit
    <3> QED
      BY <1>1, <2>1, <2>2, <3>1, <3>2 DEF DupInv, Paid
  <2> QED
    BY <2>3, <2>4
<1> QED
  BY <1>2, <1>3 DEF DupInv, Paid

\* Every step keeps the count of duplicates within that of faults.
LEMMA DupNext == IInv /\ DupInv /\ [Next]_vars => DupInv'
<1> SUFFICES ASSUME IInv, DupInv, [Next]_vars PROVE DupInv'
  OBVIOUS
<1>1. ASSUME UNCHANGED <<session, lost, sent, faults>>,
             \A e \in Events : Recorded(e) => Recorded(e)'
      PROVE  DupInv'
  <2>1. \A e \in Events : Zombies(e)' = Zombies(e)
    BY <1>1 DEF Zombies
  <2>2. \A d \in lost' : Held(d)' # {}
    BY <1>1 DEF DupInv, Held
  <2> QED
    BY <1>1, <2>1, <2>2, DupQuiet
<1>2. ASSUME NEW e \in Events, Publish(e) PROVE DupInv'
  <2>1. \A f \in Events : Recorded(f) => Recorded(f)'
    BY <1>2 DEF Publish, IInv, RowTypes, Recorded
  <2> QED
    BY <1>1, <1>2, <2>1 DEF Publish
<1>3. ASSUME NEW e \in Events, Elapse(e) PROVE DupInv'
  BY <1>1, <1>3 DEF Elapse, Recorded
<1>4. CASE PurgeDispatched
  <2>1. \A f \in Events : Recorded(f) => Recorded(f)'
    BY <1>4 DEF PurgeDispatched, Recorded
  <2> QED
    BY <1>1, <1>4, <2>1 DEF PurgeDispatched
<1>5. ASSUME NEW d \in Dispatchers, NEW e \in Events, Park(d, e) \/ Reject(d, e)
      PROVE  DupInv'
  <2>1. session[d][e] = "locked" /\ UNCHANGED <<row, lost, sent, faults>>
    BY <1>5 DEF Park, Reject, At, Unsent
  <2>2. PICK m \in Marks \ {"free", "locked"} : Mark(d, e, m)
    BY <1>5 DEF Park, Reject, Marks
  <2>3. sent' = [sent EXCEPT ![e] = @ + 0] /\ faults' = faults + 0 /\ 0 <= 0
    BY <2>1 DEF IInv, RowTypes, DupInv
  <2> QED
    BY <2>1, <2>2, <2>3, DupMark
<1>6. ASSUME NEW d \in Dispatchers, NEW e \in Events, Send(d, e) PROVE DupInv'
  <2>1. /\ session[d][e] = "locked" /\ UNCHANGED <<row, lost>>
        /\ Mark(d, e, "dispatched") /\ sent' = [sent EXCEPT ![e] = @ + 1]
        /\ faults' = faults + 0
    BY <1>6 DEF Send, At, Unsent, DupInv
  <2> QED
    BY <2>1, DupMark DEF Marks
<1>7. ASSUME NEW d \in Dispatchers, NEW e \in Events, BrokerError(d, e)
      PROVE  DupInv'
  <2>1. /\ session[d][e] = "locked" /\ UNCHANGED <<row, lost>>
        /\ Mark(d, e, "retry") /\ faults' = faults + 1
    BY <1>7 DEF BrokerError, At, Unsent
  <2>2. PICK n \in {0, 1} : sent' = [sent EXCEPT ![e] = @ + n]
    BY <1>7 DEF BrokerError
  <2>3. n <= 1
    OBVIOUS
  <2> QED
    BY <2>1, <2>2, <2>3, DupMark DEF Marks
<1>8. ASSUME NEW d \in Dispatchers,
             Claim(d) \/ Commit(d) \/ CommitFails(d) \/ Crash(d) \/ LoseConnection(d)
      PROVE  DupInv'
  BY <1>8, DupClaim, DupCommit, DupCommitFails, DupCrash, DupLose
<1>9. CASE UNCHANGED vars
  BY <1>1, <1>9 DEF vars, Recorded
<1> QED
  BY <1>2, <1>3, <1>4, <1>5, <1>6, <1>7, <1>8, <1>9 DEF Next, Dispatch

\* At-least-once delivery costs at most one extra message per failure,
\* however many dispatchers overlap and however they interleave.
THEOREM DuplicatesNeedFaultsAlways == Spec => []DuplicatesNeedFaults
<1>1. Init => DupInv
  BY DupInit
<1>2. IInv /\ DupInv /\ [Next]_vars => DupInv'
  BY DupNext
<1>3. ASSUME IInv, DupInv PROVE DuplicatesNeedFaults
  <2> SUFFICES ASSUME NEW e \in Events PROVE sent[e] <= 1 + faults
    BY DEF DuplicatesNeedFaults
  <2>1. /\ Cardinality(Zombies(e)) \in Nat /\ sent[e] \in Nat /\ faults \in Nat
        /\ Credit(e) \in {0, 1}
    BY <1>3, ZombieCount DEF IInv, RowTypes, DupInv, Credit
  <2> QED
    BY <1>3, <2>1 DEF DupInv, Paid
<1> QED
  BY <1>1, <1>2, <1>3, Invariance, PTL DEF Spec
=============================================================================
