--------------------------- MODULE DeliveryProofs ---------------------------
(***************************************************************************)
(* Proofs about modules that are composed with others in MCAnswers and     *)
(* MCDocuments: Deliveries, where a chat platform's message is claimed in  *)
(* Redis before it reaches the model; Evals, where a row claims the event  *)
(* that starts a run; StuckSweep, which sends stranded documents again;    *)
(* Quota, which checks a turn against cached totals; Periods, which says   *)
(* what a total counts; Gather, where turns pass the same daily counters;  *)
(* Attachments, whose rows and points are written apart; Metadata, whose   *)
(* values reach the points by several writers; and Folders, where requests *)
(* grow, move and delete one tree at once.                                 *)
(*                                                                         *)
(* Each part declares the state of its module and proves an inductive      *)
(* invariant of it. In the first two it says who holds a claim: a message  *)
(* that has been answered or is about to be has one for as long as its     *)
(* signature verifies; and a run without a row of its own is not older     *)
(* than the rows there are, unless it is marked as overtaken. In the next  *)
(* two it says how old a copy may be: what the sweep reads of a document   *)
(* is never newer than what last happened to it; and a cached total was    *)
(* one of the ledger a lifetime ago at most. In the next three it says     *)
(* what is still under way: a turn that has passed a counter's test and    *)
(* not written it stands for one call more; points without a row are those *)
(* the sweep is about to delete, or known to dangle; and each writer under *)
(* way has read the row as it is, or is known to have missed a change. In  *)
(* the last it says which folders a request may count on: those on its     *)
(* path, as long as nobody stirs the tree; and, if it moves one, those     *)
(* that are not below it.                                                  *)
(***************************************************************************)
EXTENDS Deliveries, Integers, Sequences, FiniteSetTheorems, TLAPS

\* The state of Evals, which Deliveries has no part in
CONSTANTS Queries, Scorers, Members, MaxChanges, MaxEvents, MaxNights, MaxStarts

VARIABLES settings, golden, request, events, nights, runs, scoring

Evaluation == INSTANCE Evals WITH Workers <- Scorers, Requests <- Members, work <- scoring

\* The state of StuckSweep
CONSTANTS Papers, Cutoff, Limit, MaxOwed, Clock

VARIABLES beat, swept, stuck, owed, worker, since

Sweeping == INSTANCE StuckSweep WITH Docs <- Papers, MaxTime <- Clock, time <- beat, row <- stuck

\* The state of Quota
CONSTANTS Askers, Payers, Allotments, Lived, Late, Month, MaxRows, Horizon

VARIABLES instant, ledger, userQuota, orgQuota, cache, check, full

Spending == INSTANCE Quota
    WITH Requests <- Askers, Users <- Payers, Limits <- Allotments, TTL <- Lived, Delay <- Late,
         PeriodLength <- Month, MaxUse <- MaxRows, MaxTime <- Horizon, now <- instant

\* The state of Periods
CONSTANTS FirstYear, LastYear

VARIABLES date, resetDay

Calendar == INSTANCE Periods WITH today <- date

\* The state of Gather
CONSTANTS Loops, AskerOf, House, Cap, Calls, Iterations, Addresses, Base, Days

VARIABLES providers, today, count, gather

Gathering == INSTANCE Gather
    WITH Turns <- Loops, UserOf <- AskerOf, Org <- House, Limit <- Cap, Budget <- Calls,
         MaxIterations <- Iterations, Urls <- Addresses, Home <- Base, MaxDay <- Days,
         settings <- providers

\* The state of Attachments
CONSTANTS Attached, MaxKills

VARIABLES attachment, old, blob, chunks, queue, extracting, send, sweep, deaths, dangling

Attaching == INSTANCE Attachments
    WITH Files <- Attached, MaxDeaths <- MaxKills, row <- attachment, points <- chunks,
         worker <- extracting

\* The state of Metadata
CONSTANTS Kinds, Presets, Bodies, Filters, Editors, Parts, MaxLosses

VARIABLES fields, meta, active, tagged, put, seed, writing, losses, loose

Tagging == INSTANCE Metadata
    WITH Types <- Kinds, Inputs <- Bodies, Searches <- Filters, Requests <- Editors,
         Batches <- Parts, MaxDeaths <- MaxLosses,
         points <- tagged, work <- writing, deaths <- losses

\* The state of Folders
CONSTANTS Filers, Movers, Shelves, Titles, Ways, Filed

VARIABLES folder, doc, queued, task, stirred

Shelving == INSTANCE Folders
    WITH Requests <- Filers, Ids <- Shelves, Names <- Titles, Paths <- Ways, Docs <- Filed

-----------------------------------------------------------------------------
(* Deliveries. *)

\* Message ids are numbers; a claim outlives the tolerance on both sides of the
\* clock, and a mark every delivery that is still to come.
DeliveryBounds ==
    /\ Messages \subseteq Nat /\ Skew \in Nat /\ TTL \in Nat /\ MarkTTL \in Nat /\ MaxTime \in Nat
    /\ TTL > 2 * Skew /\ MarkTTL > MaxTime

Work == [pc : {"idle", "resolved", "relay", "mapping", "reread", "send"}, msg : Nat, chat : Nat]
Entry == [msg : Messages, until : Nat]

DeliveryTyped ==
    /\ signed \in [Messages -> Nat] /\ time \in 0..MaxTime
    /\ seen \subseteq Entry /\ mark \in [value : Nat, until : Nat]
    /\ convo \in Nat /\ work \in [Workers -> Work] /\ done \in [Messages -> 0..MoreThanTwice]

\* Nobody can claim the message m any more.
Claimed(m) ==
    IF platform = "telegram" THEN mark.value >= m
    ELSE time > signed[m] + Skew \/ \E s \in seen : s.msg = m

\* The message m has reached the model, or a worker is about to take it there.
Answered(m) == done[m] > 0 \/ \E w \in Workers : work[w].pc = "relay" /\ work[w].msg = m

Named == \A w \in Workers : work[w].pc # "idle" => work[w].msg \in Messages
Verified == \A w \in Workers : work[w].pc = "resolved" => Fresh(work[w].msg)

\* A worker that is about to relay a message is the first and the only one.
Alone ==
    \A w \in Workers : work[w].pc = "relay" =>
        /\ done[work[w].msg] = 0
        /\ \A v \in Workers : work[v].pc = "relay" /\ work[v].msg = work[w].msg => v = w

Lasting ==
    /\ \A s \in seen : s.until > signed[s.msg] + Skew
    /\ mark.value > 0 => mark.until > MaxTime

DeliveryInv ==
    /\ DeliveryTyped /\ Named /\ Verified /\ Alone /\ Lasting
    /\ \A m \in Messages : Answered(m) => Claimed(m)
    /\ DeliveredOnce

\* Nothing was delivered at the start.
LEMMA DeliveryInit == DeliveryBounds /\ Init => DeliveryInv
<1> SUFFICES ASSUME DeliveryBounds, Init PROVE DeliveryInv
  OBVIOUS
<1>1. signed \in [Messages -> Nat]
  <2>1. 1..MaxTime \subseteq Nat
    BY DEF DeliveryBounds
  <2> QED
    BY <2>1 DEF Init
<1>2. Idle \in Work /\ NoMark \in [value : Nat, until : Nat] /\ Idle.pc = "idle" /\ NoMark.value = 0
  BY DEF Idle, Work, NoMark, NoChat
<1>3. DeliveryTyped
  BY <1>1, <1>2 DEF Init, DeliveryTyped, DeliveryBounds, MoreThanTwice, NoChat
<1>4. \A w \in Workers : work[w].pc = "idle"
  BY <1>2 DEF Init
<1>5. Named /\ Verified /\ Alone /\ Lasting
  BY <1>2, <1>4 DEF Named, Verified, Alone, Lasting, Init
<1>6. \A m \in Messages : ~Answered(m) /\ done[m] = 0
  BY <1>4 DEF Answered, Init
<1> QED
  BY <1>3, <1>5, <1>6 DEF DeliveryInv, DeliveredOnce, Init

\* A step of one worker that neither claims nor relays: its message, if it has one,
\* is the one it had.
LEMMA WorkerStep ==
  ASSUME DeliveryBounds, DeliveryInv, NEW w \in Workers, NEW r \in Work, Step(w, r),
         r.pc # "relay",
         r.pc # "idle" => r.msg \in Messages,
         r.pc = "resolved" => Fresh(r.msg),
         convo' \in Nat, bot = "gone" => convo' = NoChat,
         UNCHANGED <<platform, signed, time, seen, mark, bot, done>>
  PROVE  DeliveryInv'
<1>1. work' \in [Workers -> Work] /\ work' = [work EXCEPT ![w] = r] /\ work \in [Workers -> Work]
  BY DEF DeliveryInv, DeliveryTyped, Step
<1>2. \A v \in Workers : work'[v] = r \/ (work'[v] = work[v] /\ v # w)
  BY <1>1
<1>3. DeliveryTyped'
  BY <1>1 DEF DeliveryInv, DeliveryTyped
<1>4. Named' /\ Verified' /\ Lasting'
  BY <1>2 DEF DeliveryInv, Named, Verified, Lasting, Fresh
<1>5. Alone'
  BY <1>2 DEF DeliveryInv, Alone
<1>6. \A m \in Messages : (Answered(m)' => Answered(m)) /\ (Claimed(m)' <=> Claimed(m))
  BY <1>2 DEF Answered, Claimed
<1> QED
  BY <1>3, <1>4, <1>5, <1>6 DEF DeliveryInv, DeliveredOnce

\* A step of one worker from a claim that it has just made.
LEMMA ClaimStep ==
  ASSUME DeliveryBounds, DeliveryInv, NEW w \in Workers, work[w].pc = "resolved",
         Step(w, [work[w] EXCEPT !.pc = "relay"]),
         NEW m, m = work[w].msg, ~Claimed(m), Claimed(m)',
         \A n \in Messages : Claimed(n) => Claimed(n)',
         seen' \subseteq Entry, mark' \in [value : Nat, until : Nat], Lasting',
         UNCHANGED <<platform, signed, time, bot, convo, done>>
  PROVE  DeliveryInv'
<1> DEFINE r == [work[w] EXCEPT !.pc = "relay"]
<1>1. work[w] \in Work /\ work \in [Workers -> Work] /\ m \in Messages
  BY DEF DeliveryInv, DeliveryTyped, Named
<1>2. r \in Work /\ r.pc = "relay" /\ r.msg = m
  BY <1>1 DEF Work
<1>3. work' = [work EXCEPT ![w] = r]
  BY DEF Step
<1> HIDE DEF r
<1>4. work' \in [Workers -> Work] /\ work'[w] = r /\ \A v \in Workers : v # w => work'[v] = work[v]
  BY <1>1, <1>2, <1>3
<1>5. DeliveryTyped'
  BY <1>4 DEF DeliveryInv, DeliveryTyped
<1>6. Named' /\ Verified'
  BY <1>1, <1>2, <1>4 DEF DeliveryInv, Named, Verified, Fresh
<1>7. ~Answered(m)
  BY <1>1 DEF DeliveryInv
<1>8. done[m] = 0 /\ \A v \in Workers : work[v].pc = "relay" => work[v].msg # m
  BY <1>1, <1>7 DEF Answered, DeliveryInv, DeliveryTyped, MoreThanTwice
<1>9. Alone'
  BY <1>2, <1>4, <1>8 DEF DeliveryInv, Alone
<1>10. \A n \in Messages : Answered(n)' => Answered(n) \/ n = m
  BY <1>2, <1>4 DEF Answered
<1> QED
  BY <1>5, <1>6, <1>9, <1>10 DEF DeliveryInv, DeliveredOnce

\* claim_once: a key whose lifetime ends after the last time at which the signature verifies.
LEMMA ClaimOnceNext ==
  ASSUME DeliveryBounds, DeliveryInv, NEW w \in Workers, ClaimOnce(w)
  PROVE  DeliveryInv'
<1>1. /\ platform # "telegram" /\ work[w].pc = "resolved"
      /\ UNCHANGED <<platform, signed, time, mark, bot, convo, done>>
  BY DEF ClaimOnce
<1>m. PICK m \in Messages : m = work[w].msg
  BY <1>1 DEF DeliveryInv, Named
<1> DEFINE s == [msg |-> m, until |-> time + TTL]
<1>a. signed[m] \in Nat /\ time \in Nat
  BY DEF DeliveryInv, DeliveryTyped
<1>2. m \in Messages /\ Fresh(m) /\ signed[m] \in Nat /\ time \in Nat
  BY <1>1, <1>m, <1>a DEF DeliveryInv, Verified
<1>3. CASE \E e \in seen : e.msg = m
  <2>1. Step(w, Idle) /\ UNCHANGED seen
    BY <1>3, <1>m DEF ClaimOnce
  <2>2. Idle \in Work /\ Idle.pc = "idle"
    BY DEF Idle, Work, NoChat
  <2>3. convo' \in Nat /\ (bot = "gone" => convo' = NoChat)
    BY <1>1 DEF DeliveryInv, DeliveryTyped, DeliveredOnce
  <2> QED
    BY <1>1, <2>1, <2>2, <2>3, WorkerStep
<1>4. CASE ~\E e \in seen : e.msg = m
  <2>1. seen' = seen \union {s} /\ Step(w, [work[w] EXCEPT !.pc = "relay"])
    BY <1>4, <1>m DEF ClaimOnce, Lifetime
  <2>2. signed[m] <= time + Skew /\ time <= signed[m] + Skew
    BY <1>1, <1>2 DEF Fresh, DeliveryBounds
  <2>3. s \in Entry /\ s.until > signed[s.msg] + Skew
    BY <1>2, <2>2 DEF Entry, DeliveryBounds
  <2>4. ~Claimed(m) /\ Claimed(m)'
    <3>1. ~(time > signed[m] + Skew)
      BY <1>2, <2>2 DEF DeliveryBounds
    <3>2. s \in seen' /\ s.msg = m
      BY <2>1
    <3> HIDE DEF s
    <3>3. Claimed(m)'
      BY <1>1, <3>2 DEF Claimed
    <3> QED
      BY <1>1, <1>4, <3>1, <3>3 DEF Claimed
  <2>5. \A n \in Messages : Claimed(n) => Claimed(n)'
    BY <1>1, <2>1 DEF Claimed
  <2>6. seen' \subseteq Entry /\ mark' \in [value : Nat, until : Nat] /\ Lasting'
    BY <1>1, <2>1, <2>3 DEF DeliveryInv, DeliveryTyped, Lasting
  <2> HIDE DEF s
  <2> QED
    BY <1>1, <1>m, <2>1, <2>4, <2>5, <2>6, ClaimStep
<1> QED
  BY <1>3, <1>4

\* claim_monotonic: a mark that rises and stays.
LEMMA ClaimMarkNext ==
  ASSUME DeliveryBounds, DeliveryInv, NEW w \in Workers, ClaimMark(w)
  PROVE  DeliveryInv'
<1>1. /\ platform = "telegram" /\ work[w].pc = "resolved"
      /\ UNCHANGED <<platform, signed, time, seen, bot, convo, done>>
  BY DEF ClaimMark
<1>m. PICK m \in Messages : m = work[w].msg
  BY <1>1 DEF DeliveryInv, Named
<1>2. m \in Nat /\ time \in Nat /\ mark.value \in Nat
  BY DEF DeliveryInv, DeliveryTyped, DeliveryBounds
<1>3. CASE mark.value >= m
  <2>1. Step(w, Idle) /\ UNCHANGED mark
    BY <1>3, <1>m DEF ClaimMark
  <2>2. Idle \in Work /\ Idle.pc = "idle"
    BY DEF Idle, Work, NoChat
  <2>3. convo' \in Nat /\ (bot = "gone" => convo' = NoChat)
    BY <1>1 DEF DeliveryInv, DeliveryTyped, DeliveredOnce
  <2> QED
    BY <1>1, <2>1, <2>2, <2>3, WorkerStep
<1>4. CASE ~(mark.value >= m)
  <2>1. mark' = [value |-> m, until |-> time + MarkTTL] /\ Step(w, [work[w] EXCEPT !.pc = "relay"])
    BY <1>4, <1>m DEF ClaimMark
  <2>2. mark'.value = m /\ mark'.until > MaxTime /\ mark' \in [value : Nat, until : Nat]
    BY <1>2, <2>1 DEF DeliveryBounds
  <2>3. ~Claimed(m) /\ Claimed(m)'
    BY <1>1, <1>2, <1>4, <2>2 DEF Claimed
  <2>4. \A n \in Messages : Claimed(n) => Claimed(n)'
    <3>1. \A n \in Messages : n \in Nat
      BY DEF DeliveryBounds
    <3> QED
      BY <1>1, <1>2, <1>4, <2>2, <3>1 DEF Claimed
  <2>5. seen' \subseteq Entry /\ Lasting'
    BY <1>1, <2>2 DEF DeliveryInv, DeliveryTyped, Lasting
  <2> QED
    BY <1>1, <1>m, <2>1, <2>2, <2>3, <2>4, <2>5, ClaimStep
<1> QED
  BY <1>3, <1>4

\* answer_for_integration: the one worker that claimed the message takes it to the model.
LEMMA RelayNext ==
  ASSUME DeliveryBounds, DeliveryInv, NEW w \in Workers, Relay(w)
  PROVE  DeliveryInv'
<1> DEFINE m == work[w].msg
<1>1. /\ work[w].pc = "relay" /\ UNCHANGED <<platform, signed, time, seen, mark, bot, convo>>
      /\ done' = [done EXCEPT ![m] = IF @ < MoreThanTwice THEN @ + 1 ELSE @]
  BY DEF Relay, Once
<1>2. m \in Messages /\ done[m] = 0 /\ done \in [Messages -> 0..3]
  BY <1>1 DEF DeliveryInv, DeliveryTyped, Named, Alone, MoreThanTwice
<1>3. /\ done' \in [Messages -> 0..3] /\ done'[m] = 1
      /\ \A n \in Messages : n # m => done'[n] = done[n]
  BY <1>1, <1>2 DEF MoreThanTwice
<1>4. PICK r : /\ work' = [work EXCEPT ![w] = r] /\ r.pc \in {"mapping", "send"} /\ r.msg = m /\ r \in Work
  <2>1. \A c \in Nat, p \in {"mapping", "send"} :
          LET r == [work[w] EXCEPT !.pc = p, !.chat = c]
          IN  r \in Work /\ r.pc = p /\ r.msg = m
    BY DEF DeliveryInv, DeliveryTyped, Work
  <2>2. m \in Nat
    BY <1>2 DEF DeliveryBounds
  <2>3. CASE convo = NoChat
    <3>1. work' = [work EXCEPT ![w] = [work[w] EXCEPT !.pc = "mapping", !.chat = m]]
      BY <2>3 DEF Relay, Step
    <3> QED
      BY <2>1, <2>2, <3>1
  <2>4. CASE convo # NoChat
    <3>1. /\ work' = [work EXCEPT ![w] = [work[w] EXCEPT !.pc = "send", !.chat = convo]]
          /\ convo \in Nat
      BY <2>4 DEF Relay, Step, DeliveryInv, DeliveryTyped
    <3> QED
      BY <2>1, <3>1
  <2> QED
    BY <2>3, <2>4
<1>5. /\ work' \in [Workers -> Work] /\ work'[w] = r
      /\ \A v \in Workers : v # w => work'[v] = work[v]
  BY <1>4 DEF DeliveryInv, DeliveryTyped
<1>6. DeliveryTyped'
  BY <1>1, <1>3, <1>5 DEF DeliveryInv, DeliveryTyped, MoreThanTwice
<1>7. Named' /\ Verified' /\ Lasting'
  BY <1>1, <1>2, <1>4, <1>5 DEF DeliveryInv, Named, Verified, Lasting, Fresh
<1>8. \A v \in Workers : work'[v].pc = "relay" => work[v].pc = "relay" /\ work'[v] = work[v] /\ work[v].msg # m
  BY <1>1, <1>4, <1>5 DEF DeliveryInv, Alone
<1>9. Alone'
  <2>1. \A v \in Workers : work'[v].pc = "relay" => work'[v].msg \in Messages
    BY <1>7 DEF Named
  <2> QED
    BY <1>3, <1>8, <2>1 DEF DeliveryInv, Alone
<1>10. \A n \in Messages : (Answered(n)' => Answered(n)) /\ (Claimed(n)' <=> Claimed(n))
  BY <1>1, <1>3, <1>8 DEF Answered, Claimed
<1>11. DeliveredOnce'
  BY <1>1, <1>3 DEF DeliveryInv, DeliveredOnce
<1> QED
  BY <1>6, <1>7, <1>9, <1>10, <1>11 DEF DeliveryInv

\* The clock moves between requests: what expires no longer verifies.
LEMMA TickNext ==
  ASSUME DeliveryBounds, DeliveryInv, Tick
  PROVE  DeliveryInv'
<1>1. /\ time' = time + 1 /\ time' \in 0..MaxTime /\ time \in Nat
      /\ UNCHANGED <<platform, signed, bot, convo, work, done>>
      /\ \A w \in Workers : work[w].pc # "resolved"
  BY DEF Tick, DeliveryInv, DeliveryTyped, DeliveryBounds
<1>2. seen' = {s \in seen : s.until > time'} /\ mark' = IF mark.until <= time' THEN NoMark ELSE mark
  BY DEF Tick
<1>3. mark' = mark \/ (mark' = NoMark /\ mark.value = 0)
  BY <1>1, <1>2 DEF DeliveryInv, DeliveryTyped, Lasting, DeliveryBounds
<1>4. mark' \in [value : Nat, until : Nat] /\ mark'.value = mark.value /\ (mark'.value > 0 => mark' = mark)
  BY <1>3 DEF DeliveryInv, DeliveryTyped, NoMark
<1>5. DeliveryTyped'
  BY <1>1, <1>2, <1>4 DEF DeliveryInv, DeliveryTyped
<1>6. Named' /\ Verified' /\ Alone'
  BY <1>1 DEF DeliveryInv, Named, Verified, Alone
<1>7. Lasting'
  BY <1>1, <1>2, <1>4 DEF DeliveryInv, Lasting
<1>8. \A m \in Messages : Claimed(m) => Claimed(m)'
  <2> SUFFICES ASSUME NEW m \in Messages, Claimed(m) PROVE Claimed(m)'
    OBVIOUS
  <2>1. signed[m] \in Nat /\ Skew \in Nat
    BY DEF DeliveryInv, DeliveryTyped, DeliveryBounds
  <2>2. CASE platform = "telegram"
    BY <1>1, <1>4, <2>2 DEF Claimed
  <2>3. CASE platform # "telegram" /\ time > signed[m] + Skew
    BY <1>1, <2>1, <2>3 DEF Claimed
  <2>4. ASSUME platform # "telegram", NEW s \in seen, s.msg = m PROVE Claimed(m)'
    <3>1. s.until \in Nat /\ s.until > signed[m] + Skew
      BY <2>4 DEF DeliveryInv, DeliveryTyped, Entry, Lasting
    <3>2. CASE s.until > time'
      BY <1>1, <1>2, <2>4, <3>2 DEF Claimed
    <3>3. CASE ~(s.until > time')
      <4>1. time' > signed[m] + Skew
        BY <1>1, <2>1, <3>1, <3>3
      <4> QED
        BY <1>1, <2>4, <4>1 DEF Claimed
    <3> QED
      BY <3>2, <3>3
  <2> QED
    BY <2>2, <2>3, <2>4 DEF Claimed
<1>9. \A m \in Messages : Answered(m)' => Answered(m)
  BY <1>1 DEF Answered
<1> QED
  BY <1>1, <1>5, <1>6, <1>7, <1>8, <1>9 DEF DeliveryInv, DeliveredOnce

\* Every step keeps the invariant.
LEMMA DeliveryNext == DeliveryBounds /\ DeliveryInv /\ [Next]_deliveryVars => DeliveryInv'
<1> SUFFICES ASSUME DeliveryBounds, DeliveryInv, [Next]_deliveryVars PROVE DeliveryInv'
  OBVIOUS
<1>0. /\ Idle \in Work /\ Idle.pc = "idle" /\ work \in [Workers -> Work]
      /\ convo \in Nat /\ (bot = "gone" => convo = NoChat)
      /\ \A w \in Workers : work[w].pc # "idle" => work[w].msg \in Messages
  BY DEF Idle, Work, NoChat, DeliveryInv, DeliveryTyped, DeliveredOnce, Named
<1>1. \A w \in Workers, p \in {"idle", "resolved", "mapping", "reread", "send"} :
        LET r == [work[w] EXCEPT !.pc = p]
        IN  r \in Work /\ r.pc = p /\ r.msg = work[w].msg
  BY <1>0 DEF Work
<1>2. ASSUME NEW w \in Workers, NEW m \in Messages, Deliver(w, m) PROVE DeliveryInv'
  <2> DEFINE r == [Idle EXCEPT !.msg = m, !.pc = "resolved"]
  <2>1. r \in Work /\ r.pc = "resolved" /\ r.msg = m
    BY DEF Idle, Work, NoChat, DeliveryBounds
  <2> HIDE DEF r
  <2>2. Step(w, r) /\ Fresh(m) /\ UNCHANGED <<platform, signed, time, seen, mark, bot, convo, done>>
    BY <1>2 DEF Deliver, r
  <2> QED
    BY <1>0, <2>1, <2>2, WorkerStep
<1>3. ASSUME NEW w \in Workers, SaveMapping(w) PROVE DeliveryInv'
  <2>1. PICK p \in {"send", "reread"} :
          /\ Step(w, [work[w] EXCEPT !.pc = p]) /\ convo' \in Nat
          /\ bot = "gone" => convo' = NoChat
    BY <1>0, <1>3 DEF SaveMapping, Inserted, Work
  <2>2. work[w].pc = "mapping" /\ UNCHANGED <<platform, signed, time, seen, mark, bot, done>>
    BY <1>3 DEF SaveMapping
  <2> DEFINE r == [work[w] EXCEPT !.pc = p]
  <2>3. r \in Work /\ r.pc = p /\ r.msg \in Messages
    BY <1>0, <1>1, <2>2
  <2> HIDE DEF r
  <2>4. Step(w, r)
    BY <2>1 DEF r
  <2> QED
    BY <2>1, <2>2, <2>3, <2>4, WorkerStep
<1>4. ASSUME NEW w \in Workers, Reread(w) PROVE DeliveryInv'
  <2>1. work[w].pc = "reread" /\ UNCHANGED <<platform, signed, time, seen, mark, bot, convo, done>>
    BY <1>4 DEF Reread
  <2> DEFINE s == [work[w] EXCEPT !.pc = "send"]
             r == IF convo = NoChat THEN Idle ELSE s
  <2>2. s \in Work /\ s.pc = "send" /\ s.msg \in Messages
    BY <1>0, <1>1, <2>1
  <2>3. Step(w, r)
    BY <1>4 DEF Reread
  <2> HIDE DEF s
  <2>4. r \in Work /\ r.pc # "relay" /\ r.pc # "resolved" /\ (r.pc # "idle" => r.msg \in Messages)
    BY <1>0, <2>2
  <2> HIDE DEF r
  <2> QED
    BY <1>0, <2>1, <2>3, <2>4, WorkerStep
<1>5. ASSUME NEW w \in Workers, Send(w) \/ Fail(w) PROVE DeliveryInv'
  <2>1. Step(w, Idle) /\ UNCHANGED <<platform, signed, time, seen, mark, bot, convo, done>>
    BY <1>5 DEF Send, Fail
  <2> QED
    BY <1>0, <2>1, WorkerStep
<1>6. CASE SetEnabled \/ DeleteIntegration
  <2>1. /\ UNCHANGED <<platform, signed, time, seen, mark, work, done>>
        /\ convo' \in Nat /\ (bot' = "gone" => convo' = NoChat)
    BY <1>0, <1>6 DEF SetEnabled, DeleteIntegration, NoChat
  <2> QED
    BY <2>1 DEF DeliveryInv, DeliveryTyped, Named, Verified, Alone, Lasting, DeliveredOnce,
       Answered, Claimed, Fresh
<1>7. CASE UNCHANGED deliveryVars
  BY <1>7 DEF deliveryVars, DeliveryInv, DeliveryTyped, Named, Verified, Alone, Lasting,
     DeliveredOnce, Answered, Claimed, Fresh
<1> QED
  BY <1>2, <1>3, <1>4, <1>5, <1>6, <1>7, ClaimOnceNext, ClaimMarkNext, RelayNext, TickNext DEF Next

\* However often and however late a message is delivered, it reaches the model at most
\* once, and a deleted bot keeps no conversation: claim_once, claim_monotonic,
\* save_chat_mapping, for any number of workers and messages.
THEOREM DeliveredOnceAlways == ASSUME DeliveryBounds PROVE Spec => []DeliveredOnce
<1>1. Init => DeliveryInv
  BY DeliveryInit
<1>2. DeliveryInv /\ [Next]_deliveryVars => DeliveryInv'
  BY DeliveryNext
<1>3. DeliveryInv => DeliveredOnce
  BY DEF DeliveryInv
<1> QED
  BY <1>1, <1>2, <1>3, PTL DEF Spec

-----------------------------------------------------------------------------
(* Evals. *)

Event == [about : Nat, starts : Nat]
Run == [event : Nat, top : Nat, crossed : BOOLEAN]
Scoring == [pc : {"idle", "loaded", "claimed"}, event : Nat, top : Nat, crossed : BOOLEAN, row : Nat]

EvalTyped ==
    /\ settings \in Nat /\ events \in Seq(Event) /\ runs \in Seq(Run)
    /\ scoring \in [Scorers -> Scoring]

\* A run, or a row, is about settings that were there, after those its event is about.
Dated(r, es, latest) ==
    /\ r.top <= latest
    /\ r.event # 0 => r.event \in DOMAIN es /\ es[r.event].about <= r.top

\* A worker in the middle of a run: its row is still to come, and then no row is about
\* later settings unless the run is marked, or its row is there.
Ahead(r, rs) ==
    /\ r.pc = "loaded" => r.row = 0
    /\ r.pc = "claimed" /\ r.row = 0 => r.event = 0
    /\ r.row = 0 => \A i \in DOMAIN rs : rs[i].top > r.top => r.crossed

\* Rows in their order.
Ordered(rs) ==
    \A j \in DOMAIN rs : \A i \in 1..j - 1 :
        /\ rs[i].top > rs[j].top => rs[j].crossed
        /\ rs[j].event = rs[i].event => rs[j].event = 0

EvalInv ==
    /\ EvalTyped
    /\ \A e \in DOMAIN events : events[e].about <= settings
    /\ \A w \in Scorers : scoring[w].pc # "idle" =>
         Dated(scoring[w], events, settings) /\ Ahead(scoring[w], runs)
    /\ \A i \in DOMAIN runs : Dated(runs[i], events, settings)
    /\ Ordered(runs)

\* A sequence with one more element.
LEMMA Appended ==
  ASSUME NEW S, NEW s \in Seq(S), NEW e \in S
  PROVE  /\ Append(s, e) \in Seq(S) /\ Len(s) \in Nat /\ Len(Append(s, e)) = Len(s) + 1
         /\ DOMAIN Append(s, e) = 1..(Len(s) + 1) /\ Append(s, e)[Len(s) + 1] = e
         /\ \A i \in 1..Len(s) : Append(s, e)[i] = s[i]
  OBVIOUS

\* What rows and events are made of.
LEMMA EvalElements ==
  ASSUME EvalTyped
  PROVE  /\ \A i \in DOMAIN runs : runs[i].top \in Nat /\ runs[i].event \in Nat
         /\ \A e \in DOMAIN events : events[e] \in Event /\ events[e].about \in Nat
<1>1. \A i \in DOMAIN runs : runs[i] \in Run
  BY DEF EvalTyped
<1>2. \A e \in DOMAIN events : events[e] \in Event
  BY DEF EvalTyped
<1> QED
  BY <1>1, <1>2 DEF Run, Event

\* Nothing has run at the start.
LEMMA EvalInit == Evaluation!Init => EvalInv
<1> SUFFICES ASSUME Evaluation!Init PROVE EvalInv
  OBVIOUS
<1>1. Evaluation!Resting \in Scoring /\ Evaluation!Resting.pc = "idle"
  BY DEF Evaluation!Resting, Evaluation!NoEvent, Scoring
<1>2. EvalTyped
  BY <1>1 DEF Evaluation!Init, EvalTyped
<1>3. \A w \in Scorers : scoring[w].pc = "idle"
  BY <1>1 DEF Evaluation!Init
<1> QED
  BY <1>2, <1>3 DEF Evaluation!Init, EvalInv, Ordered

\* Settings rise and events are added: what was dated before still is.
LEMMA DatedStays ==
  ASSUME NEW es \in Seq(Event), NEW fs \in Seq(Event), NEW now \in Nat, NEW later \in Nat,
         now <= later, Len(es) <= Len(fs), \A e \in DOMAIN es : fs[e].about = es[e].about,
         NEW r, r.top \in Nat, r.event \in Nat, Dated(r, es, now)
  PROVE  Dated(r, fs, later)
<1>1. DOMAIN es = 1..Len(es) /\ DOMAIN fs = 1..Len(fs) /\ Len(es) \in Nat /\ Len(fs) \in Nat
  OBVIOUS
<1> QED
  BY <1>1 DEF Dated

\* The members' calls, and the events they publish.
LEMMA CallNext ==
  ASSUME EvalInv, UNCHANGED <<runs, scoring>>, settings' \in Nat, settings <= settings',
         UNCHANGED events \/ \E a \in 0..settings' : events' = Append(events, [about |-> a, starts |-> 0])
  PROVE  EvalInv'
<1>0. settings \in Nat /\ events \in Seq(Event) /\ Len(events) \in Nat /\ DOMAIN events = 1..Len(events)
  BY DEF EvalInv, EvalTyped
<1>1. /\ events' \in Seq(Event) /\ Len(events) <= Len(events')
      /\ \A e \in DOMAIN events : events'[e].about = events[e].about
      /\ \A e \in DOMAIN events' : events'[e].about <= settings'
  <2>1. CASE UNCHANGED events
    <3>1. \A e \in DOMAIN events : events[e].about <= settings
      BY DEF EvalInv
    <3>2. \A e \in DOMAIN events : events[e].about <= settings'
      BY <1>0, <3>1, EvalElements DEF EvalInv
    <3> QED
      BY <1>0, <2>1, <3>2
  <2>2. ASSUME NEW a \in 0..settings', events' = Append(events, [about |-> a, starts |-> 0])
        PROVE  <1>1!:
    <3>1. [about |-> a, starts |-> 0] \in Event
      BY DEF Event
    <3> DEFINE new == [about |-> a, starts |-> 0]
    <3>a. new.about = a /\ new \in Event /\ events' = Append(events, new)
      BY <2>2, <3>1
    <3> HIDE DEF new
    <3>2. /\ events' \in Seq(Event) /\ Len(events') = Len(events) + 1
          /\ DOMAIN events' = 1..(Len(events) + 1)
          /\ \A e \in 1..Len(events) : events'[e] = events[e]
          /\ events'[Len(events) + 1] = new
      <4>1. events \in Seq(Event) /\ new \in Event
        BY <1>0, <3>a
      <4> QED
        BY <3>a, <4>1, Appended
    <3>3. \A e \in 1..Len(events) : events[e].about \in Nat /\ events[e].about <= settings
      BY <1>0, EvalElements DEF EvalInv
    <3>4. \A e \in 1..(Len(events) + 1) : events'[e].about <= settings'
      <4> SUFFICES ASSUME NEW e \in 1..(Len(events) + 1) PROVE events'[e].about <= settings'
        OBVIOUS
      <4>1. CASE e = Len(events) + 1
        BY <3>a, <3>2, <4>1
      <4>2. CASE e # Len(events) + 1
        <5>1. e \in 1..Len(events)
          BY <1>0, <4>2
        <5> QED
          BY <1>0, <3>2, <3>3, <5>1
      <4> QED
        BY <4>1, <4>2
    <3> QED
      BY <1>0, <3>2, <3>4
  <2> QED
    BY <2>1, <2>2
<1>2. EvalTyped'
  BY <1>1 DEF EvalInv, EvalTyped
<1>3. \A i \in DOMAIN runs : Dated(runs[i], events', settings')
  <2>1. \A i \in DOMAIN runs : runs[i].top \in Nat /\ runs[i].event \in Nat
    BY EvalElements DEF EvalInv
  <2> QED
    BY <1>0, <1>1, <2>1, DatedStays DEF EvalInv
<1>4. \A w \in Scorers : scoring[w].pc # "idle" => Dated(scoring[w], events', settings')
  <2>1. \A w \in Scorers : scoring[w].top \in Nat /\ scoring[w].event \in Nat
    BY DEF EvalInv, EvalTyped, Scoring
  <2> QED
    BY <1>0, <1>1, <2>1, DatedStays DEF EvalInv
<1> QED
  BY <1>1, <1>2, <1>3, <1>4 DEF EvalInv

\* A worker loads the settings, is done, or goes on without a row: no row is added.
LEMMA ScorerNext ==
  ASSUME EvalInv, NEW w \in Scorers, NEW r \in Scoring, Evaluation!Do(w, r),
         r.pc # "idle" => Dated(r, events, settings) /\ Ahead(r, runs),
         UNCHANGED <<settings, runs>>, events' \in Seq(Event), Len(events') = Len(events),
         \A e \in DOMAIN events : events'[e].about = events[e].about
  PROVE  EvalInv'
<1>0. /\ settings \in Nat /\ events \in Seq(Event) /\ Len(events) \in Nat
      /\ DOMAIN events = 1..Len(events) /\ DOMAIN events' = 1..Len(events)
      /\ scoring \in [Scorers -> Scoring]
  BY DEF EvalInv, EvalTyped
<1>1. scoring' = [scoring EXCEPT ![w] = r]
  BY DEF Evaluation!Do
<1>2. scoring' \in [Scorers -> Scoring] /\ \A v \in Scorers : scoring'[v] = r \/ scoring'[v] = scoring[v]
  BY <1>0, <1>1
<1>3. EvalTyped'
  BY <1>2 DEF EvalInv, EvalTyped
<1>4. \A e \in DOMAIN events' : events'[e].about <= settings'
  BY <1>0 DEF EvalInv
<1>5. ASSUME NEW x, x.top \in Nat, x.event \in Nat, Dated(x, events, settings)
      PROVE  Dated(x, events', settings')
  BY <1>0, <1>5 DEF Dated
<1>6. \A i \in DOMAIN runs : Dated(runs[i], events', settings')
  <2>1. \A i \in DOMAIN runs : runs[i].top \in Nat /\ runs[i].event \in Nat
    BY EvalElements DEF EvalInv
  <2> QED
    BY <1>5, <2>1 DEF EvalInv
<1>7. \A v \in Scorers : scoring'[v].pc # "idle" => Dated(scoring'[v], events', settings') /\ Ahead(scoring'[v], runs')
  <2>1. \A v \in Scorers : scoring'[v].top \in Nat /\ scoring'[v].event \in Nat
    BY <1>2 DEF Scoring
  <2>2. \A v \in Scorers : scoring'[v].pc # "idle" => Dated(scoring'[v], events, settings) /\ Ahead(scoring'[v], runs)
    BY <1>2 DEF EvalInv
  <2> QED
    BY <1>5, <2>1, <2>2
<1> QED
  BY <1>3, <1>4, <1>6, <1>7 DEF EvalInv

\* A worker whose row is still to come adds it; all others that have none are marked.
LEMMA RowNext ==
  ASSUME EvalInv, NEW w \in Scorers, scoring[w].pc # "idle", scoring[w].row = 0,
         runs' = Append(runs, Evaluation!Row(w)),
         scoring[w].event # 0 => ~Evaluation!Reserved(w),
         NEW r \in Scoring, scoring' = [Evaluation!Overtaken(w) EXCEPT ![w] = r],
         r.pc = "loaded" => FALSE, r.pc # "idle" => r.row # 0 /\ Dated(r, events, settings),
         UNCHANGED <<settings, events>>
  PROVE  EvalInv'
<1> DEFINE n == Len(runs)
           new == Evaluation!Row(w)
<1>0. /\ settings \in Nat /\ events \in Seq(Event) /\ runs \in Seq(Run) /\ n \in Nat
      /\ DOMAIN runs = 1..n /\ scoring \in [Scorers -> Scoring]
  BY DEF EvalInv, EvalTyped
<1>1. /\ new \in Run /\ new.event = scoring[w].event /\ new.top = scoring[w].top
      /\ new.crossed = scoring[w].crossed
  BY <1>0 DEF Evaluation!Row, Run, Scoring
<1>2. Dated(new, events, settings) /\ \A i \in DOMAIN runs : runs[i].top > new.top => new.crossed
  BY <1>1 DEF EvalInv, Dated, Ahead
<1>3. \A i \in DOMAIN runs : new.event = runs[i].event => new.event = 0
  BY <1>1 DEF Evaluation!Reserved
<1> HIDE DEF new
<1>4. /\ runs' \in Seq(Run) /\ DOMAIN runs' = 1..(n + 1) /\ runs'[n + 1] = new
      /\ \A i \in 1..n : runs'[i] = runs[i]
  BY <1>0, <1>1, Appended DEF new
<1> HIDE DEF n
<1>5. \A i \in DOMAIN runs' : Dated(runs'[i], events', settings')
  <2>1. \A i \in DOMAIN runs' : Dated(runs'[i], events, settings)
    BY <1>0, <1>2, <1>4 DEF EvalInv
  <2> QED
    BY <2>1
<1>6. Ordered(runs')
  <2> SUFFICES ASSUME NEW j \in 1..(n + 1), NEW i \in 1..j - 1
               PROVE  /\ runs'[i].top > runs'[j].top => runs'[j].crossed
                      /\ runs'[j].event = runs'[i].event => runs'[j].event = 0
    BY <1>4 DEF Ordered
  <2>1. CASE j = n + 1
    <3>1. i \in DOMAIN runs /\ runs'[i] = runs[i] /\ runs'[j] = new
      BY <1>0, <1>4, <2>1
    <3> QED
      BY <1>2, <1>3, <3>1
  <2>2. CASE j # n + 1
    <3>1. j \in DOMAIN runs /\ i \in 1..n /\ runs'[i] = runs[i] /\ runs'[j] = runs[j]
      BY <1>0, <1>4, <2>2
    <3> QED
      BY <3>1 DEF EvalInv, Ordered
  <2> QED
    BY <2>1, <2>2
<1>7. scoring' \in [Scorers -> Scoring] /\ scoring'[w] = r
  <2>1. \A v \in Scorers, b \in BOOLEAN : [scoring[v] EXCEPT !.crossed = b] \in Scoring
    BY <1>0 DEF Scoring
  <2>2. Evaluation!Overtaken(w) \in [Scorers -> Scoring]
    <3>1. \A v \in Scorers : (scoring[v].crossed \/ (v # w /\ scoring[v].pc # "idle" /\ scoring[v].row = 0)) \in BOOLEAN
      BY <1>0 DEF Scoring
    <3> QED
      BY <2>1, <3>1 DEF Evaluation!Overtaken
  <2> QED
    BY <2>2
<1>8. \A v \in Scorers : v # w =>
        /\ scoring'[v].pc = scoring[v].pc /\ scoring'[v].event = scoring[v].event
        /\ scoring'[v].top = scoring[v].top /\ scoring'[v].row = scoring[v].row
        /\ (scoring[v].crossed => scoring'[v].crossed)
        /\ (scoring[v].pc # "idle" /\ scoring[v].row = 0 => scoring'[v].crossed)
  <2> SUFFICES ASSUME NEW v \in Scorers, v # w
               PROVE  <1>8!(v)!2
    OBVIOUS
  <2>1. scoring'[v] = Evaluation!Overtaken(w)[v]
    BY DEF Evaluation!Overtaken
  <2>2. scoring'[v] = [scoring[v] EXCEPT !.crossed = @ \/ (v # w /\ scoring[v].pc # "idle" /\ scoring[v].row = 0)]
    BY <2>1 DEF Evaluation!Overtaken
  <2>3. scoring[v].crossed \in BOOLEAN /\ scoring[v] \in Scoring
    BY <1>0 DEF Scoring
  <2> DEFINE b == scoring[v].crossed \/ (v # w /\ scoring[v].pc # "idle" /\ scoring[v].row = 0)
  <2>4. (scoring[v].crossed => b) /\ (scoring[v].pc # "idle" /\ scoring[v].row = 0 => b)
    OBVIOUS
  <2>5. scoring'[v] = [scoring[v] EXCEPT !.crossed = b]
    BY <2>2
  <2> HIDE DEF b
  <2>6. /\ scoring'[v].crossed = b
        /\ scoring'[v].pc = scoring[v].pc /\ scoring'[v].event = scoring[v].event
        /\ scoring'[v].top = scoring[v].top /\ scoring'[v].row = scoring[v].row
    BY <2>3, <2>5 DEF Scoring
  <2> QED
    BY <2>4, <2>6
<1>9. \A v \in Scorers : scoring'[v].pc # "idle" =>
        Dated(scoring'[v], events', settings') /\ Ahead(scoring'[v], runs')
  <2>1. ASSUME NEW v \in Scorers, v # w, scoring'[v].pc # "idle"
        PROVE  Dated(scoring'[v], events', settings') /\ Ahead(scoring'[v], runs')
    <3>1. scoring[v].pc # "idle" /\ Dated(scoring[v], events, settings) /\ Ahead(scoring[v], runs)
      BY <1>8, <2>1 DEF EvalInv
    <3>2. Dated(scoring'[v], events, settings)
      BY <1>8, <2>1, <3>1 DEF Dated
    <3>3. Ahead(scoring'[v], runs')
      BY <1>8, <2>1, <3>1 DEF Ahead
    <3> QED
      BY <3>2, <3>3
  <2>2. r.pc # "idle" => Dated(r, events', settings') /\ Ahead(r, runs')
    BY DEF Ahead
  <2> QED
    BY <1>7, <2>1, <2>2
<1>10. EvalTyped'
  BY <1>0, <1>4, <1>7 DEF EvalTyped
<1> QED
  BY <1>5, <1>6, <1>9, <1>10 DEF EvalInv

\* The row that a worker writes is a row.
LEMMA RowTyped ==
  ASSUME NEW w \in Scorers, scoring[w] \in Scoring, runs \in Seq(Run),
         runs' = Append(runs, Evaluation!Row(w))
  PROVE  Len(runs') = Len(runs) + 1 /\ Len(runs') \in Nat \ {0}
<1>1. Evaluation!Row(w) \in Run
  BY DEF Evaluation!Row, Run, Scoring
<1> HIDE DEF Evaluation!Row
<1> QED
  BY <1>1

\* A run that begins is about the settings as they are: no row is about later ones.
LEMMA LoadNext ==
  ASSUME EvalInv, NEW w \in Scorers, NEW e \in {0} \union DOMAIN events, Evaluation!Load(w, e),
         UNCHANGED <<settings, runs>>, events' \in Seq(Event), Len(events') = Len(events),
         \A d \in DOMAIN events : events'[d].about = events[d].about
  PROVE  EvalInv'
<1> DEFINE r == [Evaluation!Resting EXCEPT !.pc = "loaded", !.event = e, !.top = settings]
<1>0. /\ settings \in Nat /\ events \in Seq(Event) /\ runs \in Seq(Run)
      /\ DOMAIN events = 1..Len(events) /\ Len(events) \in Nat /\ e \in Nat
  BY DEF EvalInv, EvalTyped
<1>1. Evaluation!Do(w, r)
  BY DEF Evaluation!Load, Evaluation!Snapshot
<1>2. /\ r.pc = "loaded" /\ r.event = e /\ r.top = settings /\ r.crossed = FALSE /\ r.row = 0
  BY DEF Evaluation!Resting, Evaluation!NoEvent
<1>3. r \in Scoring
  BY <1>0 DEF Scoring, Evaluation!Resting, Evaluation!NoEvent
<1> HIDE DEF r
<1>4. Dated(r, events, settings)
  BY <1>0, <1>2 DEF Dated, EvalInv
<1>5. \A i \in DOMAIN runs : ~(runs[i].top > settings)
  <2>1. \A i \in DOMAIN runs : runs[i].top \in Nat /\ runs[i].top <= settings
    BY EvalElements DEF EvalInv, Dated
  <2> QED
    BY <1>0, <2>1
<1>6. Ahead(r, runs)
  BY <1>2, <1>5 DEF Ahead
<1> QED
  BY <1>1, <1>3, <1>4, <1>6, ScorerNext

\* Every step keeps the invariant.
LEMMA EvalNext == EvalInv /\ [Evaluation!Next]_(Evaluation!evalVars) => EvalInv'
<1> SUFFICES ASSUME EvalInv, [Evaluation!Next]_(Evaluation!evalVars) PROVE EvalInv'
  OBVIOUS
<1>0. /\ settings \in Nat /\ events \in Seq(Event) /\ runs \in Seq(Run) /\ Len(runs) \in Nat
      /\ DOMAIN events = 1..Len(events) /\ scoring \in [Scorers -> Scoring]
      /\ Evaluation!Resting \in Scoring /\ Evaluation!Resting.pc = "idle"
  BY DEF EvalInv, EvalTyped, Evaluation!Resting, Evaluation!NoEvent, Scoring
<1>1. ASSUME NEW q \in Members, Evaluation!Patch(q) \/ Evaluation!PatchFails(q) PROVE EvalInv'
  BY <1>0, <1>1, CallNext DEF Evaluation!Patch, Evaluation!Prepared, Evaluation!PatchFails
<1>2. ASSUME NEW q \in Members, Evaluation!PatchCommit(q) PROVE EvalInv'
  BY <1>0, <1>2, CallNext DEF Evaluation!PatchCommit, Evaluation!Publish
<1>3. ASSUME NEW g \in Queries, Evaluation!CreateGoldenQuery(g) \/ Evaluation!DeleteGoldenQuery(g)
      PROVE  EvalInv'
  BY <1>0, <1>3, CallNext DEF Evaluation!CreateGoldenQuery, Evaluation!DeleteGoldenQuery
<1>4. CASE Evaluation!Trigger
  <2>1. events' = Append(events, [about |-> settings, starts |-> 0]) /\ UNCHANGED <<settings, runs, scoring>>
    BY <1>4 DEF Evaluation!Trigger, Evaluation!Publish
  <2>2. settings \in 0..settings' /\ settings' \in Nat /\ settings <= settings'
    BY <1>0, <2>1
  <2> QED
    BY <2>1, <2>2, CallNext
<1>5. ASSUME NEW w \in Scorers, NEW e \in DOMAIN events, Evaluation!Start(w, e) PROVE EvalInv'
  <2>1. /\ events' = [events EXCEPT ![e].starts = @ + 1]
        /\ Evaluation!Load(w, e) /\ UNCHANGED <<settings, runs>>
    BY <1>5 DEF Evaluation!Start
  <2>2. [events[e] EXCEPT !.starts = @ + 1] \in Event /\ [events[e] EXCEPT !.starts = @ + 1].about = events[e].about
    <3>1. events[e] \in Event
      BY EvalElements DEF EvalInv
    <3> QED
      BY <3>1 DEF Event
  <2>3. events' \in Seq(Event) /\ Len(events') = Len(events) /\ \A d \in DOMAIN events : events'[d].about = events[d].about
    BY <1>0, <2>1, <2>2
  <2> QED
    BY <2>1, <2>3, LoadNext
<1>6. ASSUME NEW w \in Scorers, Evaluation!Nightly(w) PROVE EvalInv'
  BY <1>0, <1>6, LoadNext DEF Evaluation!Nightly, Evaluation!NoEvent
<1>7. ASSUME NEW w \in Scorers, Evaluation!Claim(w) PROVE EvalInv'
  <2>0. /\ scoring[w].pc = "loaded" /\ scoring[w].row = 0 /\ UNCHANGED <<settings, events>>
        /\ scoring[w] \in Scoring /\ Dated(scoring[w], events, settings) /\ Ahead(scoring[w], runs)
    BY <1>0, <1>7 DEF Evaluation!Claim, EvalInv, Ahead
  <2>1. CASE scoring[w].event = 0
    <3> DEFINE r == [scoring[w] EXCEPT !.pc = "claimed"]
    <3>1. r \in Scoring /\ Dated(r, events, settings) /\ Ahead(r, runs)
      BY <2>0, <2>1 DEF Scoring, Dated, Ahead
    <3>2. Evaluation!Do(w, r) /\ UNCHANGED runs
      BY <1>7, <2>1 DEF Evaluation!Claim, Evaluation!NoEvent
    <3> HIDE DEF r
    <3> QED
      BY <1>0, <2>0, <3>1, <3>2, ScorerNext
  <2>2. CASE scoring[w].event # 0 /\ Evaluation!Reserved(w)
    <3>1. Evaluation!Do(w, Evaluation!Resting) /\ UNCHANGED runs
      BY <1>7, <2>2 DEF Evaluation!Claim, Evaluation!NoEvent
    <3> QED
      BY <1>0, <2>0, <3>1, ScorerNext
  <2>3. CASE scoring[w].event # 0 /\ ~Evaluation!Reserved(w)
    <3>1. /\ runs' = Append(runs, Evaluation!Row(w))
          /\ scoring' = [Evaluation!Overtaken(w) EXCEPT ![w].pc = "claimed", ![w].row = Len(runs')]
      BY <1>7, <2>3 DEF Evaluation!Claim, Evaluation!NoEvent
    <3> DEFINE o == Evaluation!Overtaken(w)[w]
               r == [o EXCEPT !.pc = "claimed", !.row = Len(runs')]
    <3>2. Len(runs') \in Nat \ {0}
      BY <1>0, <3>1, RowTyped
    <3>3. o \in Scoring /\ o.event = scoring[w].event /\ o.top = scoring[w].top
      BY <2>0 DEF Evaluation!Overtaken, Scoring
    <3>4. scoring' = [Evaluation!Overtaken(w) EXCEPT ![w] = r]
      BY <3>1 DEF Evaluation!Overtaken
    <3> HIDE DEF o
    <3>5. r \in Scoring /\ r.pc = "claimed" /\ r.row # 0 /\ Dated(r, events, settings)
      BY <2>0, <3>2, <3>3 DEF Scoring, Dated
    <3> HIDE DEF r
    <3> QED
      BY <2>0, <2>3, <3>1, <3>4, <3>5, RowNext
  <2> QED
    BY <2>1, <2>2, <2>3
<1>8. ASSUME NEW w \in Scorers, Evaluation!Fill(w) PROVE EvalInv'
  <2>0. /\ scoring[w].pc = "claimed" /\ UNCHANGED <<settings, events>>
        /\ scoring[w].row = 0 => scoring[w].event = 0
    BY <1>8 DEF Evaluation!Fill, EvalInv, Ahead
  <2>1. CASE scoring[w].row = 0
    <3>1. /\ runs' = Append(runs, Evaluation!Row(w))
          /\ scoring' = [Evaluation!Overtaken(w) EXCEPT ![w] = Evaluation!Resting]
      BY <1>8, <2>1 DEF Evaluation!Fill
    <3> QED
      BY <1>0, <2>0, <2>1, <3>1, RowNext
  <2>2. CASE scoring[w].row # 0
    <3>1. Evaluation!Do(w, Evaluation!Resting) /\ UNCHANGED runs
      BY <1>8, <2>2 DEF Evaluation!Fill
    <3> QED
      BY <1>0, <2>0, <3>1, ScorerNext
  <2> QED
    BY <2>1, <2>2
<1>9. ASSUME NEW w \in Scorers, Evaluation!Fail(w) PROVE EvalInv'
  BY <1>0, <1>9, ScorerNext DEF Evaluation!Fail
<1>10. CASE UNCHANGED Evaluation!evalVars
  BY <1>10 DEF Evaluation!evalVars, EvalInv, EvalTyped
<1> QED
  BY <1>1, <1>2, <1>3, <1>4, <1>5, <1>6, <1>7, <1>8, <1>9, <1>10 DEF Evaluation!Next

\* A run measures the change that started it or a later one, an event has one row, and
\* rows keep the order of the settings but for runs that overlapped:
\* update_retrieval_settings, run_eval, for any number of changes, events and workers.
THEOREM RunsMeasureTheirChangeAlways == Evaluation!Spec => []Evaluation!RunsMeasureTheirChange
<1>1. EvalInv => Evaluation!RunsMeasureTheirChange
  <2> SUFFICES ASSUME EvalInv PROVE Evaluation!RunsMeasureTheirChange
    OBVIOUS
  <2>1. \A j \in DOMAIN runs : runs[j].event # 0 => runs[j].top >= events[runs[j].event].about
    <3> SUFFICES ASSUME NEW j \in DOMAIN runs, runs[j].event # 0
                 PROVE  runs[j].top >= events[runs[j].event].about
      OBVIOUS
    <3>1. runs[j].event \in DOMAIN events /\ events[runs[j].event].about <= runs[j].top
      BY DEF EvalInv, Dated
    <3>2. runs[j].top \in Nat /\ events[runs[j].event].about \in Nat
      BY <3>1, EvalElements DEF EvalInv
    <3> QED
      BY <3>1, <3>2
  <2> QED
    BY <2>1 DEF EvalInv, Ordered, Evaluation!RunsMeasureTheirChange, Evaluation!NoEvent
<1> QED
  BY <1>1, EvalInit, EvalNext, PTL DEF Evaluation!Spec

-----------------------------------------------------------------------------
(* StuckSweep. *)

\* The cutoff and the clock are numbers, a message can be owed, and one sweep may take
\* every document.
SweepBounds ==
    /\ Cutoff \in Nat /\ MaxOwed \in Nat \ {0} /\ Clock \in Nat \ {0} /\ Limit \in Nat
    /\ IsFiniteSet(Papers) /\ Cardinality(Papers) <= Limit

Status == {"none", "queued", "processing", "deleting", "indexed", "gone"}
StuckRow == [status : Status, touched : 1..Clock, beat : 0..Clock]

SweepTyped ==
    /\ beat \in 1..Clock /\ swept \in BOOLEAN
    /\ stuck \in [Papers -> StuckRow] /\ owed \in [Papers -> 0..MaxOwed]
    /\ worker \in [Papers -> {"none", "ingest", "delete"}] /\ since \in [Papers -> 1..Clock]

\* What the sweep reads of a document is not newer than what happened to it, and the
\* stage of a document is not silent.
Heard(d) ==
    /\ Sweeping!Liveness(d) <= since[d] /\ since[d] <= beat
    /\ stuck[d].touched <= beat /\ stuck[d].beat <= beat
    /\ stuck[d].status = "none" => worker[d] = "none"
    /\ worker[d] = "ingest" => stuck[d].beat # 0 /\ beat <= stuck[d].beat + Cutoff

\* A document without a message or a worker was found by the sweep of this beat, or will
\* be by the next one.
Found(d) == Sweeping!Stranded(d) => beat <= since[d] + Cutoff + (IF swept THEN 0 ELSE 1)

SweepInv == SweepTyped /\ \A d \in Papers : Heard(d) /\ Found(d)

\* No document is there at the start.
LEMMA SweepInit == SweepBounds /\ Sweeping!Init => SweepInv
<1> SUFFICES ASSUME SweepBounds, Sweeping!Init PROVE SweepInv
  OBVIOUS
<1>1. [status |-> "none", touched |-> 1, beat |-> 0] \in StuckRow
  BY DEF StuckRow, Status, SweepBounds
<1>2. SweepTyped
  <2>1. 1 \in 1..Clock /\ 0 \in 0..MaxOwed
    BY DEF SweepBounds
  <2> QED
    BY <1>1, <2>1 DEF Sweeping!Init, Sweeping!NoJob, SweepTyped
<1>3. \A d \in Papers : Heard(d)
  BY DEF Sweeping!Init, Sweeping!NoJob, Sweeping!Liveness, Heard
<1>4. \A d \in Papers : ~Sweeping!Stranded(d)
  BY DEF Sweeping!Init, Sweeping!Stranded, Sweeping!Waiting
<1> QED
  BY <1>2, <1>3, <1>4 DEF SweepInv, Found

\* What happens to one document happens now.
LEMMA DocStep ==
  ASSUME SweepBounds, SweepInv, NEW d \in Papers,
         NEW r \in StuckRow, stuck' = [stuck EXCEPT ![d] = r],
         NEW w \in {"none", "ingest", "delete"}, worker' = [worker EXCEPT ![d] = w],
         NEW n \in 0..MaxOwed, owed' = [owed EXCEPT ![d] = n],
         r.touched <= beat, r.beat <= beat,
         r.status = "none" => w = "none",
         w = "ingest" => r.beat # 0 /\ beat <= r.beat + Cutoff,
         Sweeping!Seen(d), UNCHANGED <<beat, swept>>
  PROVE  SweepInv'
<1>1. /\ beat \in 1..Clock /\ Clock \in Nat /\ Cutoff \in Nat /\ beat \in Nat
      /\ stuck \in [Papers -> StuckRow] /\ owed \in [Papers -> 0..MaxOwed]
      /\ worker \in [Papers -> {"none", "ingest", "delete"}] /\ since \in [Papers -> 1..Clock]
  BY DEF SweepBounds, SweepInv, SweepTyped
<1>2. since' = [since EXCEPT ![d] = beat]
  BY DEF Sweeping!Seen
<1>3. SweepTyped'
  BY <1>1, <1>2 DEF SweepInv, SweepTyped
<1>4. stuck'[d] = r /\ worker'[d] = w /\ owed'[d] = n /\ since'[d] = beat
  BY <1>1, <1>2
<1>5. Heard(d)' /\ Found(d)'
  <2>1. Heard(d)'
    BY <1>1, <1>4 DEF Heard, Sweeping!Liveness
  <2>2. Found(d)'
    BY <1>1, <1>4 DEF Found
  <2> QED
    BY <2>1, <2>2
<1>6. ASSUME NEW e \in Papers, e # d PROVE Heard(e)' /\ Found(e)'
  <2>1. stuck'[e] = stuck[e] /\ worker'[e] = worker[e] /\ owed'[e] = owed[e] /\ since'[e] = since[e]
    BY <1>1, <1>2, <1>6
  <2> QED
    BY <2>1 DEF SweepInv, Heard, Found, Sweeping!Liveness, Sweeping!Stranded
<1> QED
  BY <1>3, <1>5, <1>6 DEF SweepInv

\* The smaller of two numbers.
LEMMA Smaller ==
  ASSUME NEW i \in Nat, NEW j \in Nat
  PROVE  Sweeping!Min({i, j}) = IF i <= j THEN i ELSE j
<1>1. CASE i <= j
  BY <1>1 DEF Sweeping!Min
<1>2. CASE ~(i <= j)
  BY <1>2 DEF Sweeping!Min
<1> QED
  BY <1>1, <1>2

\* The cardinality that the instance of StuckSweep uses is the one of FiniteSets.
LEMMA SweepCardinality == \A S : Sweeping!Cardinality(S) = Cardinality(S)
BY DEF Sweeping!Cardinality, Cardinality

\* One sweep takes every silent document and leaves those in a stage alone.
LEMMA SweepTakes ==
  ASSUME SweepBounds, SweepInv, Sweeping!Sweep
  PROVE  /\ ~swept /\ swept' /\ UNCHANGED <<beat, worker>>
         /\ owed' = [d \in Papers |-> IF Sweeping!Silent(d) THEN Sweeping!Min({owed[d] + 1, MaxOwed}) ELSE owed[d]]
         /\ stuck' = [d \in Papers |-> IF Sweeping!Silent(d) THEN [stuck[d] EXCEPT !.touched = beat] ELSE stuck[d]]
         /\ since' = [d \in Papers |-> IF Sweeping!Silent(d) THEN beat ELSE since[d]]
<1> DEFINE Quiet == {d \in Papers : Sweeping!Silent(d)}
<1>1. PICK S \in SUBSET Quiet :
        /\ Sweeping!Cardinality(S) = Sweeping!Min({Limit, Sweeping!Cardinality(Quiet)})
        /\ owed' = [d \in Papers |-> IF d \in S THEN Sweeping!Min({owed[d] + 1, MaxOwed}) ELSE owed[d]]
        /\ stuck' = [d \in Papers |-> IF d \in S THEN [stuck[d] EXCEPT !.touched = beat] ELSE stuck[d]]
        /\ since' = [d \in Papers |-> IF d \in S THEN beat ELSE since[d]]
  BY DEF Sweeping!Sweep
<1>2. IsFiniteSet(Quiet) /\ Cardinality(Quiet) <= Cardinality(Papers)
      /\ Cardinality(Quiet) \in Nat /\ Cardinality(Papers) \in Nat
  <2>1. Quiet \subseteq Papers
    OBVIOUS
  <2> HIDE DEF Quiet
  <2> QED
    BY <2>1, FS_Subset, FS_CardinalityType DEF SweepBounds
<1>3. Sweeping!Min({Limit, Cardinality(Quiet)}) = Cardinality(Quiet)
  <2> HIDE DEF Quiet
  <2> QED
    BY <1>2, Smaller DEF SweepBounds
<1>4. Cardinality(S) = Cardinality(Quiet)
  BY <1>1, <1>3, SweepCardinality
<1>5. S = Quiet
  <2> HIDE DEF Quiet
  <2> QED
    BY <1>2, <1>4, FS_Subset
<1> QED
  BY <1>1, <1>5 DEF Sweeping!Sweep

\* A document in a stage is not silent.
LEMMA StageIsHeard ==
  ASSUME SweepBounds, SweepInv, NEW d \in Papers, worker[d] = "ingest"
  PROVE  ~Sweeping!Silent(d)
<1>1. stuck[d].beat # 0 /\ beat <= stuck[d].beat + Cutoff /\ beat \in Nat /\ Cutoff \in Nat /\ stuck[d].beat \in Nat
  BY DEF SweepInv, SweepTyped, StuckRow, Heard, SweepBounds
<1> QED
  BY <1>1 DEF Sweeping!Silent, Sweeping!Liveness, Sweeping!NoJob

\* The sweep keeps the invariant.
LEMMA SweepNext ==
  ASSUME SweepBounds, SweepInv, Sweeping!Sweep
  PROVE  SweepInv'
<1>1. /\ beat \in 1..Clock /\ Clock \in Nat /\ Cutoff \in Nat /\ beat \in Nat /\ MaxOwed \in Nat \ {0}
      /\ stuck \in [Papers -> StuckRow] /\ owed \in [Papers -> 0..MaxOwed]
      /\ since \in [Papers -> 1..Clock]
  BY DEF SweepBounds, SweepInv, SweepTyped
<1>2. ASSUME NEW d \in Papers, Sweeping!Silent(d)
      PROVE  /\ owed'[d] \in 1..MaxOwed /\ since'[d] = beat
             /\ stuck'[d] \in StuckRow /\ stuck'[d].touched = beat
             /\ stuck'[d].beat = stuck[d].beat /\ stuck'[d].status = stuck[d].status
  <2>1. owed'[d] = Sweeping!Min({owed[d] + 1, MaxOwed}) /\ since'[d] = beat
        /\ stuck'[d] = [stuck[d] EXCEPT !.touched = beat]
    BY <1>2, SweepTakes
  <2>2. owed[d] \in Nat /\ owed[d] + 1 \in Nat
    BY <1>1
  <2>3. owed'[d] \in 1..MaxOwed
    <3>1. Sweeping!Min({owed[d] + 1, MaxOwed}) = IF owed[d] + 1 <= MaxOwed THEN owed[d] + 1 ELSE MaxOwed
      BY <1>1, <2>2, Smaller
    <3> QED
      BY <1>1, <2>1, <2>2, <3>1
  <2>4. stuck[d] \in StuckRow
    BY <1>1
  <2> QED
    BY <1>1, <2>1, <2>3, <2>4 DEF StuckRow
<1>3. ASSUME NEW d \in Papers, ~Sweeping!Silent(d)
      PROVE  owed'[d] = owed[d] /\ stuck'[d] = stuck[d] /\ since'[d] = since[d]
  BY <1>3, SweepTakes
<1>4. SweepTyped'
  <2>1. owed' \in [Papers -> 0..MaxOwed]
    <3>1. \A d \in Papers : owed'[d] \in 0..MaxOwed
      BY <1>1, <1>2, <1>3
    <3> QED
      BY <3>1, SweepTakes
  <2>2. stuck' \in [Papers -> StuckRow]
    <3>1. \A d \in Papers : stuck'[d] \in StuckRow
      BY <1>1, <1>2, <1>3
    <3> QED
      BY <3>1, SweepTakes
  <2>3. since' \in [Papers -> 1..Clock]
    <3>1. \A d \in Papers : since'[d] \in 1..Clock
      BY <1>1, <1>2, <1>3
    <3> QED
      BY <3>1, SweepTakes
  <2> QED
    BY <1>1, <2>1, <2>2, <2>3, SweepTakes DEF SweepInv, SweepTyped
<1>5. ASSUME NEW d \in Papers PROVE Heard(d)'
  <2>1. CASE Sweeping!Silent(d)
    <3>1. worker'[d] = worker[d] /\ worker[d] # "ingest"
      BY <2>1, SweepTakes, StageIsHeard
    <3>2. stuck[d].beat \in Nat /\ Sweeping!Liveness(d) < beat
      BY <1>1, <2>1 DEF Sweeping!Silent, Sweeping!Liveness, StuckRow
    <3>3. Sweeping!Liveness(d)' <= beat
      BY <1>1, <1>2, <2>1, <3>2 DEF Sweeping!Liveness
    <3>4. beat' = beat /\ since'[d] = beat /\ stuck'[d].touched = beat /\ stuck'[d].beat = stuck[d].beat
      BY <1>2, <2>1, SweepTakes
    <3>5. stuck[d].beat <= beat /\ (stuck[d].status = "none" => worker[d] = "none") /\ stuck'[d].status = stuck[d].status
      BY <1>2, <2>1 DEF SweepInv, Heard
    <3> QED
      BY <1>1, <3>1, <3>3, <3>4, <3>5 DEF Heard
  <2>2. CASE ~Sweeping!Silent(d)
    BY <1>3, <2>2, SweepTakes DEF SweepInv, Heard, Sweeping!Liveness
  <2> QED
    BY <2>1, <2>2
<1>6. ASSUME NEW d \in Papers PROVE Found(d)'
  <2>1. CASE Sweeping!Silent(d)
    BY <1>1, <1>2, <2>1 DEF Found, Sweeping!Stranded
  <2>2. CASE ~Sweeping!Silent(d) /\ stuck[d].status \in Sweeping!Waiting
    <3>1. beat <= Sweeping!Liveness(d) + Cutoff /\ Sweeping!Liveness(d) <= since[d]
      <4>1. Sweeping!Liveness(d) \in Nat
        BY <1>1 DEF Sweeping!Liveness, StuckRow
      <4> QED
        BY <1>1, <2>2, <4>1 DEF Sweeping!Silent, SweepInv, Heard
    <3>2. Sweeping!Liveness(d) \in Nat /\ since[d] \in Nat
      BY <1>1 DEF Sweeping!Liveness, StuckRow
    <3>3. beat <= since[d] + Cutoff
      BY <1>1, <3>1, <3>2
    <3> QED
      BY <1>1, <1>3, <2>2, <3>2, <3>3, SweepTakes DEF Found
  <2>3. CASE ~Sweeping!Silent(d) /\ stuck[d].status \notin Sweeping!Waiting
    BY <1>3, <2>3 DEF Found, Sweeping!Stranded
  <2> QED
    BY <2>1, <2>2, <2>3
<1> QED
  BY <1>4, <1>5, <1>6 DEF SweepInv

\* The clock moves after the sweep, and no further than the stages have written.
LEMMA BeatNext ==
  ASSUME SweepBounds, SweepInv, Sweeping!Tick
  PROVE  SweepInv'
<1>1. /\ beat \in 1..Clock /\ Clock \in Nat /\ Cutoff \in Nat /\ beat \in Nat
      /\ since \in [Papers -> 1..Clock] /\ stuck \in [Papers -> StuckRow]
  BY DEF SweepBounds, SweepInv, SweepTyped
<1>2. /\ beat < Clock /\ swept /\ beat' = beat + 1 /\ ~swept' /\ UNCHANGED <<stuck, owed, worker>>
      /\ \A d \in Papers : worker[d] = "ingest" => beat < stuck[d].beat + Cutoff
      /\ since' = [d \in Papers |-> IF owed[d] > 0 \/ worker[d] # "none" THEN beat' ELSE since[d]]
  BY DEF Sweeping!Tick
<1>3. \A d \in Papers : since'[d] \in 1..Clock /\ since[d] \in Nat
  BY <1>1, <1>2
<1>4. SweepTyped'
  <2>1. since' \in [Papers -> 1..Clock]
    BY <1>2, <1>3
  <2>a. beat' \in 1..Clock
    BY <1>1, <1>2
  <2>2. beat' \in 1..Clock /\ swept' \in BOOLEAN
    BY <2>a DEF Sweeping!Tick
  <2> QED
    BY <1>2, <2>1, <2>2 DEF SweepInv, SweepTyped
<1>5. ASSUME NEW d \in Papers PROVE Heard(d)' /\ Found(d)'
  <2>1. stuck[d].beat \in Nat /\ stuck[d].touched \in Nat /\ Sweeping!Liveness(d) \in Nat
    BY <1>1 DEF Sweeping!Liveness, StuckRow
  <2>2. Sweeping!Liveness(d) <= since[d] /\ since[d] <= Clock
    BY <1>1 DEF SweepInv, Heard
  <2>3. Sweeping!Liveness(d)' = Sweeping!Liveness(d)
    BY <1>2 DEF Sweeping!Liveness
  <2>4. since'[d] = since[d] \/ since'[d] = beat + 1
    BY <1>2
  <2>5. Sweeping!Liveness(d) <= beat
    BY <1>1, <2>1, <2>2 DEF SweepInv, Heard
  <2>6. Heard(d)'
    <3>1. Sweeping!Liveness(d)' <= since'[d] /\ since'[d] <= beat'
      <4>1. since[d] \in Nat /\ since[d] <= beat
        BY <1>3 DEF SweepInv, Heard
      <4> QED
        BY <1>1, <1>2, <2>1, <2>2, <2>3, <2>4, <2>5, <4>1
    <3>2. stuck[d].touched <= beat /\ stuck[d].beat <= beat /\ (stuck[d].status = "none" => worker[d] = "none")
      BY DEF SweepInv, Heard
    <3>3. stuck'[d].touched <= beat' /\ stuck'[d].beat <= beat' /\ (stuck'[d].status = "none" => worker'[d] = "none")
      BY <1>1, <1>2, <2>1, <3>2
    <3>4. worker'[d] = "ingest" => stuck'[d].beat # 0 /\ beat' <= stuck'[d].beat + Cutoff
      <4>1. worker[d] = "ingest" => stuck[d].beat # 0 /\ beat < stuck[d].beat + Cutoff
        BY <1>2 DEF SweepInv, Heard
      <4> QED
        BY <1>1, <1>2, <2>1, <4>1
    <3> QED
      BY <3>1, <3>3, <3>4 DEF Heard
  <2>7. Found(d)'
    <3>1. CASE Sweeping!Stranded(d)'
      <4>1. Sweeping!Stranded(d) /\ since'[d] = since[d]
        BY <1>2, <3>1 DEF Sweeping!Stranded
      <4>2. beat <= since[d] + Cutoff
        BY <1>1, <1>2, <1>3, <4>1 DEF SweepInv, Found
      <4> QED
        BY <1>1, <1>2, <1>3, <4>1, <4>2 DEF Found
    <3>2. CASE ~Sweeping!Stranded(d)'
      BY <3>2 DEF Found
    <3> QED
      BY <3>1, <3>2
  <2> QED
    BY <2>6, <2>7
<1> QED
  BY <1>4, <1>5 DEF SweepInv

\* Every step keeps the invariant.
LEMMA SweepInvNext == SweepBounds /\ SweepInv /\ [Sweeping!Next]_(Sweeping!sweepVars) => SweepInv'
<1> SUFFICES ASSUME SweepBounds, SweepInv, [Sweeping!Next]_(Sweeping!sweepVars) PROVE SweepInv'
  OBVIOUS
<1>0. /\ beat \in 1..Clock /\ Clock \in Nat /\ Cutoff \in Nat /\ beat \in Nat /\ MaxOwed \in Nat \ {0}
      /\ stuck \in [Papers -> StuckRow] /\ owed \in [Papers -> 0..MaxOwed]
      /\ worker \in [Papers -> {"none", "ingest", "delete"}]
      /\ beat <= beat + Cutoff /\ 0 <= beat /\ beat # 0
  BY DEF SweepBounds, SweepInv, SweepTyped
<1>1. \A d \in Papers : /\ stuck[d] \in StuckRow /\ stuck[d].touched <= beat /\ stuck[d].beat <= beat
                        /\ stuck[d].beat \in 0..Clock
                        /\ stuck[d].status = "none" => worker[d] = "none"
                        /\ worker[d] = "ingest" => stuck[d].beat # 0 /\ beat <= stuck[d].beat + Cutoff
  BY <1>0 DEF SweepInv, Heard, StuckRow
<1>2. \A s \in Status, b \in 0..Clock : [status |-> s, touched |-> beat, beat |-> b] \in StuckRow
  BY <1>0 DEF StuckRow
<1>3. \A d \in Papers : /\ [stuck[d] EXCEPT !.beat = beat] \in StuckRow
                        /\ [stuck[d] EXCEPT !.beat = beat].touched = stuck[d].touched
                        /\ [stuck[d] EXCEPT !.beat = beat].beat = beat
  BY <1>0, <1>1 DEF StuckRow
<1>4. \A d \in Papers : /\ stuck = [stuck EXCEPT ![d] = stuck[d]] /\ owed = [owed EXCEPT ![d] = owed[d]]
                        /\ worker = [worker EXCEPT ![d] = worker[d]]
                        /\ owed[d] \in 0..MaxOwed /\ worker[d] \in {"none", "ingest", "delete"}
  BY <1>0
<1>5. \A d \in Papers : Sweeping!Owe(d) => \E n \in 0..MaxOwed : owed' = [owed EXCEPT ![d] = n]
  <2> SUFFICES ASSUME NEW d \in Papers, Sweeping!Owe(d)
               PROVE  \E n \in 0..MaxOwed : owed' = [owed EXCEPT ![d] = n]
    OBVIOUS
  <2>1. (IF owed[d] < MaxOwed THEN owed[d] + 1 ELSE owed[d]) \in 0..MaxOwed
    BY <1>0, <1>4
  <2> QED
    BY <2>1 DEF Sweeping!Owe
<1>6. ASSUME NEW d \in Papers, Sweeping!Upload(d) PROVE SweepInv'
  <2>1. PICK n \in 0..MaxOwed : owed' = [owed EXCEPT ![d] = n]
    BY <1>5, <1>6 DEF Sweeping!Upload
  <2> DEFINE r == [status |-> "queued", touched |-> beat, beat |-> 0]
  <2>2. r \in StuckRow /\ r.touched <= beat /\ r.beat <= beat
    BY <1>0, <1>2 DEF Status
  <2>3. /\ stuck' = [stuck EXCEPT ![d] = r] /\ Sweeping!Seen(d) /\ UNCHANGED <<beat, swept, worker>>
        /\ stuck[d].status = "none"
    BY <1>6 DEF Sweeping!Upload, Sweeping!SetRow, Sweeping!NoJob
  <2> HIDE DEF r
  <2> QED
    BY <1>1, <1>4, <2>1, <2>2, <2>3, DocStep
<1>7. ASSUME NEW d \in Papers, Sweeping!RequestDelete(d) PROVE SweepInv'
  <2>1. PICK n \in 0..MaxOwed : owed' = [owed EXCEPT ![d] = n]
    BY <1>5, <1>7 DEF Sweeping!RequestDelete
  <2> DEFINE r == [status |-> "deleting", touched |-> beat, beat |-> stuck[d].beat]
  <2>2. r \in StuckRow /\ r.touched <= beat /\ r.beat <= beat /\ r.status # "none"
    BY <1>0, <1>1, <1>2 DEF Status
  <2>3. /\ stuck' = [stuck EXCEPT ![d] = r] /\ Sweeping!Seen(d) /\ UNCHANGED <<beat, swept, worker>>
        /\ worker[d] = "none"
    BY <1>7 DEF Sweeping!RequestDelete, Sweeping!SetRow
  <2> HIDE DEF r
  <2> QED
    BY <1>4, <2>1, <2>2, <2>3, DocStep
<1>8. ASSUME NEW d \in Papers, Sweeping!Take(d) PROVE SweepInv'
  <2>1. /\ owed[d] > 0 /\ worker[d] = "none" /\ owed' = [owed EXCEPT ![d] = owed[d] - 1]
        /\ Sweeping!Seen(d) /\ UNCHANGED <<beat, swept>>
    BY <1>8 DEF Sweeping!Take
  <2>2. owed[d] - 1 \in 0..MaxOwed
    BY <1>0, <1>4, <2>1
  <2>3. CASE stuck[d].status = "deleting"
    <3>1. worker' = [worker EXCEPT ![d] = "delete"] /\ UNCHANGED stuck
      BY <1>8, <2>3 DEF Sweeping!Take, Sweeping!SetWorker
    <3> QED
      BY <1>1, <1>4, <2>1, <2>2, <2>3, <3>1, DocStep
  <2>4. CASE stuck[d].status \in {"none", "gone"}
    <3>1. UNCHANGED <<worker, stuck>>
      BY <1>8, <2>4 DEF Sweeping!Take
    <3> QED
      BY <1>1, <1>4, <2>1, <2>2, <3>1, DocStep
  <2>5. CASE stuck[d].status \notin {"deleting", "none", "gone"}
    <3>1. worker' = [worker EXCEPT ![d] = "ingest"] /\ stuck' = [stuck EXCEPT ![d].beat = beat]
      BY <1>8, <2>5 DEF Sweeping!Take, Sweeping!SetWorker
    <3> DEFINE r == [stuck[d] EXCEPT !.beat = beat]
    <3>2. r \in StuckRow /\ r.touched <= beat /\ r.beat = beat /\ r.status # "none"
      BY <1>1, <1>3, <2>5 DEF StuckRow
    <3>3. stuck' = [stuck EXCEPT ![d] = r]
      BY <3>1
    <3> HIDE DEF r
    <3>4. r.beat <= beat /\ r.beat # 0 /\ beat <= r.beat + Cutoff
      BY <1>0, <3>2
    <3> QED
      BY <2>1, <2>2, <3>1, <3>2, <3>3, <3>4, DocStep
  <2> QED
    BY <2>3, <2>4, <2>5
<1>9. ASSUME NEW d \in Papers, Sweeping!Progress(d) PROVE SweepInv'
  <2>1. worker[d] = "ingest" /\ stuck[d].status # "none" /\ Sweeping!Seen(d)
        /\ UNCHANGED <<beat, swept, owed, worker>>
    BY <1>1, <1>9 DEF Sweeping!Progress
  <2>2. CASE stuck' = [stuck EXCEPT ![d].beat = beat]
    <3> DEFINE r == [stuck[d] EXCEPT !.beat = beat]
    <3>1. r \in StuckRow /\ r.touched <= beat /\ r.beat = beat /\ r.status # "none"
      BY <1>1, <1>3, <2>1 DEF StuckRow
    <3>2. stuck' = [stuck EXCEPT ![d] = r]
      BY <2>2
    <3> HIDE DEF r
    <3>3. r.beat <= beat /\ r.beat # 0 /\ beat <= r.beat + Cutoff
      BY <1>0, <3>1
    <3> QED
      BY <1>4, <2>1, <3>1, <3>2, <3>3, DocStep
  <2>3. CASE Sweeping!SetRow(d, "processing", beat)
    <3> DEFINE r == [status |-> "processing", touched |-> beat, beat |-> beat]
    <3>1. r \in StuckRow /\ r.touched <= beat /\ r.beat = beat /\ r.status # "none"
      BY <1>0, <1>2 DEF Status
    <3>2. stuck' = [stuck EXCEPT ![d] = r]
      BY <2>3 DEF Sweeping!SetRow
    <3> HIDE DEF r
    <3>3. r.beat <= beat /\ r.beat # 0 /\ beat <= r.beat + Cutoff
      BY <1>0, <3>1
    <3> QED
      BY <1>4, <2>1, <3>1, <3>2, <3>3, DocStep
  <2> QED
    BY <1>9, <2>2, <2>3 DEF Sweeping!Progress
<1>10. ASSUME NEW d \in Papers, Sweeping!FinishIngest(d) \/ Sweeping!FinishDelete(d) PROVE SweepInv'
  <2>1. PICK s \in {"indexed", "gone"}, b \in {0, beat} :
          /\ stuck' = [stuck EXCEPT ![d] = [status |-> s, touched |-> beat, beat |-> b]]
          /\ worker' = [worker EXCEPT ![d] = "none"] /\ Sweeping!Seen(d)
          /\ UNCHANGED <<beat, swept, owed>>
    BY <1>10 DEF Sweeping!FinishIngest, Sweeping!FinishDelete, Sweeping!SetRow, Sweeping!SetWorker,
       Sweeping!NoJob
  <2> DEFINE r == [status |-> s, touched |-> beat, beat |-> b]
  <2>2. r \in StuckRow /\ r.touched <= beat /\ r.beat <= beat /\ r.status # "none"
    BY <1>0, <1>2 DEF Status
  <2>3. stuck' = [stuck EXCEPT ![d] = r]
    BY <2>1
  <2> HIDE DEF r
  <2> QED
    BY <1>4, <2>1, <2>2, <2>3, DocStep
<1>11. ASSUME NEW d \in Papers, Sweeping!Lose(d) PROVE SweepInv'
  <2>1. /\ Sweeping!Seen(d) /\ UNCHANGED <<beat, swept, stuck>>
        /\ \/ worker' = [worker EXCEPT ![d] = "none"] /\ UNCHANGED owed
           \/ owed' = [owed EXCEPT ![d] = 0] /\ UNCHANGED worker
    BY <1>11 DEF Sweeping!Lose, Sweeping!SetWorker
  <2>2. CASE worker' = [worker EXCEPT ![d] = "none"] /\ UNCHANGED owed
    BY <1>1, <1>4, <2>1, <2>2, DocStep
  <2>3. CASE owed' = [owed EXCEPT ![d] = 0] /\ UNCHANGED worker
    <3>1. 0 \in 0..MaxOwed
      BY <1>0
    <3> QED
      BY <1>1, <1>4, <2>1, <2>3, <3>1, DocStep
  <2> QED
    BY <2>1, <2>2, <2>3
<1>12. CASE UNCHANGED Sweeping!sweepVars
  BY <1>12 DEF Sweeping!sweepVars, SweepInv, SweepTyped, Heard, Found, Sweeping!Liveness,
     Sweeping!Stranded
<1> QED
  BY <1>6, <1>7, <1>8, <1>9, <1>10, <1>11, <1>12, SweepNext, BeatNext DEF Sweeping!Next

\* A document that waits with no message and no worker is sent again at most one beat
\* after the cutoff, and a stage that goes on is left alone: reconcile_stuck_documents,
\* for any number of documents that one sweep can take.
THEOREM OnlyStrandedAreSweptAlways ==
  ASSUME SweepBounds PROVE Sweeping!Spec => Sweeping!OnlyStrandedAreSwept
<1> DEFINE Taken == \A d \in Papers :
             /\ Sweeping!Stranded(d)' => beat' <= since'[d] + Cutoff + 1
             /\ Sweeping!Sweep /\ worker[d] = "ingest" => owed'[d] = owed[d]
<1>1. Sweeping!Init => SweepInv
  BY SweepInit
<1>2. SweepInv /\ [Sweeping!Next]_(Sweeping!sweepVars) => SweepInv'
  BY SweepInvNext
<1>3. SweepInv /\ SweepInv' => Taken
  <2> SUFFICES ASSUME SweepInv, SweepInv', NEW d \in Papers
               PROVE  /\ Sweeping!Stranded(d)' => beat' <= since'[d] + Cutoff + 1
                      /\ Sweeping!Sweep /\ worker[d] = "ingest" => owed'[d] = owed[d]
    OBVIOUS
  <2>1. Sweeping!Stranded(d)' => beat' <= since'[d] + Cutoff + 1
    <3>1. beat' \in Nat /\ since'[d] \in Nat /\ Cutoff \in Nat
      BY DEF SweepInv, SweepTyped, SweepBounds
    <3>2. Sweeping!Stranded(d)' => beat' <= since'[d] + Cutoff + (IF swept' THEN 0 ELSE 1)
      BY DEF SweepInv, Found
    <3> QED
      BY <3>1, <3>2
  <2>2. Sweeping!Sweep /\ worker[d] = "ingest" => owed'[d] = owed[d]
    BY SweepTakes, StageIsHeard
  <2> QED
    BY <2>1, <2>2
<1>4. Sweeping!OnlyStrandedAreSwept <=> [][Taken]_(Sweeping!sweepVars)
  BY DEF Sweeping!OnlyStrandedAreSwept
<1> HIDE DEF Taken
<1> QED
  BY <1>1, <1>2, <1>3, <1>4, PTL DEF Sweeping!Spec

-----------------------------------------------------------------------------
(* Quota. *)

\* Times and allocations are numbers, a total is cached for some time, and no user is
\* called what the organization is.
QuotaBounds ==
    /\ Allotments \subseteq Nat /\ Horizon \in Nat /\ Late \in Nat
    /\ Lived \in Nat \ {0} /\ Month \in Nat \ {0} /\ Spending!Org \notin Payers

CheckState == [pc : {"idle", "user", "fill user", "org", "fill org", "decide", "answering"},
               user : Payers \union {Spending!Org}, period : Nat, opened : Nat, limit : Nat,
               sum : Nat, at : Nat, used : Nat, orgUsed : Nat]

QuotaTyped ==
    /\ instant \in 0..Horizon /\ IsFiniteSet(ledger)
    /\ userQuota \in [Payers -> Nat] /\ orgQuota \in Nat
    /\ cache \in [Spending!Keys -> [value : Nat, until : Nat]]
    /\ check \in [Askers -> CheckState]
    /\ full \in [Spending!Keys -> Nat]

Held(k) == Spending!Total(ledger, k)
Allotted(k) == Spending!Allocated(k, userQuota, orgQuota)
OwnKey(r) == <<r.user, r.period>>
OrgKey(r) == <<Spending!Org, r.period>>

\* A total that has reached its allocation stays there.
FullSince(k) ==
    /\ full[k] <= instant \/ full[k] = Spending!Unset
    /\ full[k] <= instant => Held(k) >= Allotted(k)

\* A cached total was one of the ledger, not longer ago than a lifetime and the delay.
Entered(k) ==
    cache[k] # Spending!NoEntry =>
        /\ instant < cache[k].until /\ cache[k].until <= instant + Lived
        /\ cache[k].value <= Held(k)
        /\ full[k] + Lived + Late < cache[k].until => cache[k].value >= Allotted(k)

\* The sum that the check r took for k, and what it uses of k.
Summed(k, r) ==
    /\ r.opened <= r.at /\ r.at <= instant /\ instant <= r.at + Late
    /\ r.sum <= Held(k)
    /\ full[k] < r.at => r.sum >= Allotted(k)
Uses(k, r, n) ==
    /\ n <= Held(k)
    /\ full[k] + Lived + Late <= r.opened => n >= Allotted(k)

CheckSound(r) ==
    r.pc \notin {"idle", "answering"} =>
        /\ r.user \in Payers /\ r.period \in Spending!Periods /\ r.opened <= instant
        /\ full[OrgKey(r)] < r.opened => r.limit = orgQuota
        /\ r.pc = "fill user" => Summed(OwnKey(r), r)
        /\ r.pc = "fill org" => Summed(OrgKey(r), r)
        /\ r.pc \in {"org", "fill org", "decide"} => Uses(OwnKey(r), r, r.used)
        /\ r.pc = "decide" => Uses(OrgKey(r), r, r.orgUsed)

QuotaInv ==
    /\ QuotaTyped
    /\ \A k \in Spending!Keys : FullSince(k) /\ Entered(k)
    /\ \A q \in Askers : CheckSound(check[q])

\* Later instants lie in the same period or in later ones.
LEMMA PeriodsGrow ==
  ASSUME NEW a \in Nat, NEW b \in Nat, a <= b, NEW m \in Nat \ {0}
  PROVE  a \div m \in 0..(b \div m)
OBVIOUS

\* Totals are numbers, and do not fall when rows are added.
LEMMA RowsAdd ==
  ASSUME NEW l, NEW more, l \subseteq more, IsFiniteSet(more), NEW k
  PROVE  /\ Spending!Total(l, k) \in Nat /\ Spending!Total(more, k) \in Nat
         /\ Spending!Total(l, k) <= Spending!Total(more, k)
<1> DEFINE C(r) == (k[1] = Spending!Org \/ r.user = k[1]) /\ r.period >= k[2]
<1>1. /\ {r \in l : C(r)} \subseteq {r \in more : C(r)}
      /\ {r \in more : C(r)} \subseteq more
  OBVIOUS
<1>2. /\ IsFiniteSet({r \in more : C(r)}) /\ IsFiniteSet({r \in l : C(r)})
      /\ Cardinality({r \in l : C(r)}) \in Nat /\ Cardinality({r \in more : C(r)}) \in Nat
      /\ Cardinality({r \in l : C(r)}) <= Cardinality({r \in more : C(r)})
  <2> HIDE DEF C
  <2> QED
    BY <1>1, FS_Subset, FS_CardinalityType
<1>3. \A S : Spending!Cardinality(S) = Cardinality(S)
  BY DEF Spending!Cardinality, Cardinality
<1> QED
  BY <1>2, <1>3 DEF Spending!Total

\* What an organization and its members are allotted are numbers, and so are their totals.
LEMMA QuotaNumbers ==
  ASSUME QuotaBounds, QuotaTyped
  PROVE  /\ instant \in Nat /\ Horizon \in Nat /\ Lived \in Nat /\ Late \in Nat
         /\ Spending!Unset \in Nat /\ instant < Spending!Unset /\ Lived > 0
         /\ \A k \in Spending!Keys : /\ Allotted(k) \in Nat /\ Held(k) \in Nat /\ full[k] \in Nat
                                     /\ cache[k].value \in Nat /\ cache[k].until \in Nat
         /\ \A q \in Askers : check[q] \in CheckState
<1>1. \A k : Held(k) \in Nat
  BY RowsAdd DEF QuotaTyped, Held
<1>2. \A k \in Spending!Keys : Allotted(k) \in Nat
  BY DEF QuotaTyped, Allotted, Spending!Allocated, Spending!Keys
<1>3. instant \in Nat /\ Horizon \in Nat /\ Lived \in Nat /\ Late \in Nat
      /\ Spending!Unset \in Nat /\ instant < Spending!Unset /\ Lived > 0
  BY DEF QuotaTyped, QuotaBounds, Spending!Unset
<1> QED
  BY <1>1, <1>2, <1>3 DEF QuotaTyped

\* At first nothing is used, cached or asked.
LEMMA QuotaInit == QuotaBounds /\ Spending!Init => QuotaInv
<1> SUFFICES ASSUME QuotaBounds, Spending!Init PROVE QuotaInv
  OBVIOUS
<1>1. Spending!Idle \in CheckState /\ Spending!Idle.pc = "idle"
  BY DEF Spending!Idle, CheckState
<1>2. Spending!NoEntry \in [value : Nat, until : Nat]
  BY DEF Spending!NoEntry
<1>3. Spending!Unset \in Nat /\ Spending!Unset > 0
  BY DEF Spending!Unset, QuotaBounds
<1>4. IsFiniteSet({})
  BY FS_EmptySet
<1>5. QuotaTyped
  <2>1. instant \in 0..Horizon /\ IsFiniteSet(ledger)
    BY <1>4 DEF QuotaBounds, Spending!Init
  <2>2. userQuota \in [Payers -> Nat] /\ orgQuota \in Nat
    BY DEF QuotaBounds, Spending!Init
  <2>3. /\ cache \in [Spending!Keys -> [value : Nat, until : Nat]]
        /\ full \in [Spending!Keys -> Nat]
        /\ check \in [Askers -> CheckState]
    BY <1>1, <1>2, <1>3 DEF Spending!Init
  <2> QED
    BY <2>1, <2>2, <2>3 DEF QuotaTyped
<1>6. \A k \in Spending!Keys : FullSince(k) /\ Entered(k)
  BY <1>3 DEF FullSince, Entered, Spending!Init
<1> QED
  BY <1>1, <1>5, <1>6 DEF QuotaInv, CheckSound, Spending!Init

\* What holds of a record holds of the check that is this record.
LEMMA SoundCopy ==
  ASSUME NEW p \in Askers, NEW s \in CheckState, check'[p] = s, CheckSound(s)'
  PROVE  CheckSound(check[p])'
BY DEF CheckSound, Summed, Uses, OwnKey, OrgKey

\* A check takes a step that changes nothing else.
LEMMA CheckStep ==
  ASSUME QuotaInv, NEW q \in Askers, NEW r \in CheckState, Spending!Step(q, r), CheckSound(r),
         UNCHANGED <<instant, ledger, userQuota, orgQuota, cache, full>>
  PROVE  QuotaInv'
<1>1. check' \in [Askers -> CheckState] /\ \A p \in Askers : check'[p] = IF p = q THEN r ELSE check[p]
  BY DEF QuotaInv, QuotaTyped, Spending!Step
<1>2. QuotaTyped'
  BY <1>1 DEF QuotaInv, QuotaTyped
<1>3. \A k \in Spending!Keys : FullSince(k)' /\ Entered(k)'
  BY DEF QuotaInv, FullSince, Entered, Held, Allotted
<1>4. ASSUME NEW p \in Askers PROVE CheckSound(check[p])'
  <2>1. PICK s \in CheckState : s = check'[p] /\ CheckSound(s)
    BY <1>1 DEF QuotaInv, QuotaTyped
  <2>2. CheckSound(s)'
    BY <2>1 DEF CheckSound, Summed, Uses, Held, Allotted
  <2> QED
    BY <2>1, <2>2, SoundCopy
<1> QED
  BY <1>2, <1>3, <1>4 DEF QuotaInv

\* A check begins with the allocation of the organization as it is.
LEMMA OpenNext ==
  ASSUME QuotaBounds, QuotaInv, NEW q \in Askers, NEW u \in Payers, Spending!Open(q, u)
  PROVE  QuotaInv'
<1> DEFINE r == [Spending!Idle EXCEPT !.pc = "user", !.user = u,
                     !.period = Spending!Period(instant), !.opened = instant, !.limit = orgQuota]
<1>1. Spending!Period(instant) \in Spending!Periods /\ Spending!Period(instant) \in Nat
  <2>1. instant \in Nat /\ Horizon \in Nat /\ instant <= Horizon /\ Month \in Nat \ {0}
    BY DEF QuotaBounds, QuotaInv, QuotaTyped
  <2>2. instant \div Month \in 0..(Horizon \div Month)
    BY <2>1, PeriodsGrow
  <2>3. instant \div Month \in Nat
    BY <2>1, PeriodsGrow
  <2> QED
    BY <2>2, <2>3 DEF Spending!Period, Spending!Periods
<1>2. r \in CheckState /\ r.pc = "user" /\ r.user = u /\ r.period = Spending!Period(instant)
      /\ r.opened = instant /\ r.limit = orgQuota
  <2>1. instant \in Nat /\ orgQuota \in Nat
    BY DEF QuotaInv, QuotaTyped
  <2>2. Spending!Idle \in CheckState
    BY DEF CheckState, Spending!Idle
  <2> QED
    BY <1>1, <2>1, <2>2 DEF CheckState
<1>3. Spending!Step(q, r) /\ UNCHANGED <<instant, ledger, userQuota, orgQuota, cache, full>>
  BY DEF Spending!Open
<1> HIDE DEF r
<1>4. instant <= instant /\ ~(full[OrgKey(r)] < instant /\ r.limit # orgQuota)
  BY <1>2 DEF QuotaInv, QuotaTyped
<1>5. CheckSound(r)
  BY <1>1, <1>2, <1>4 DEF CheckSound
<1> QED
  BY <1>2, <1>3, <1>5, CheckStep

\* The keys that a check reads, and what it has when it got a total of n for one.
LEMMA KeysRead ==
  ASSUME QuotaInv, NEW q \in Askers, check[q].pc \notin {"idle", "answering"}
  PROVE  /\ OwnKey(check[q]) \in Spending!Keys /\ OrgKey(check[q]) \in Spending!Keys
         /\ Spending!KeyOf(q, "user") = OwnKey(check[q])
         /\ Spending!KeyOf(q, "org") = OrgKey(check[q])
BY DEF QuotaInv, CheckSound, OwnKey, OrgKey, Spending!KeyOf, Spending!Keys

\* A sum or a cached total that may be used takes its check to the next scope soundly.
LEMMA GotTotal ==
  ASSUME QuotaInv, NEW q \in Askers, NEW scope \in {"user", "org"}, NEW n \in Nat,
         check[q].pc \in {scope, Spending!Filling(scope)},
         Uses(Spending!KeyOf(q, scope), check[q], n)
  PROVE  /\ Spending!Got(check[q], scope, n) \in CheckState
         /\ CheckSound(Spending!Got(check[q], scope, n))
<1> DEFINE r == Spending!Got(check[q], scope, n)
<1>1. check[q] \in CheckState
  BY DEF QuotaInv, QuotaTyped
<1>2. CASE scope = "user"
  <2>1. /\ r.pc = "org" /\ r.used = n /\ r.user = check[q].user /\ r.period = check[q].period
        /\ r.opened = check[q].opened /\ r.limit = check[q].limit /\ r \in CheckState
    BY <1>1, <1>2 DEF CheckState, Spending!Got
  <2>2. check[q].pc \in {"user", "fill user"}
    BY <1>2 DEF Spending!Filling
  <2>3. CheckSound(check[q]) /\ Spending!KeyOf(q, "user") = OwnKey(check[q])
    BY <2>2, KeysRead DEF QuotaInv
  <2> HIDE DEF r
  <2>4. CheckSound(r)
    BY <1>2, <2>1, <2>2, <2>3 DEF CheckSound, Uses, OwnKey, OrgKey
  <2> QED
    BY <2>1, <2>4 DEF r
<1>3. CASE scope = "org"
  <2>1. /\ r.pc = "decide" /\ r.orgUsed = n /\ r.used = check[q].used
        /\ r.user = check[q].user /\ r.period = check[q].period
        /\ r.opened = check[q].opened /\ r.limit = check[q].limit /\ r \in CheckState
    BY <1>1, <1>3 DEF CheckState, Spending!Got
  <2>2. check[q].pc \in {"org", "fill org"}
    BY <1>3 DEF Spending!Filling
  <2>3. CheckSound(check[q]) /\ Spending!KeyOf(q, "org") = OrgKey(check[q])
    BY <2>2, KeysRead DEF QuotaInv
  <2> HIDE DEF r
  <2>4. CheckSound(r)
    BY <1>3, <2>1, <2>2, <2>3 DEF CheckSound, Uses, OwnKey, OrgKey
  <2> QED
    BY <2>1, <2>4 DEF r
<1> QED
  BY <1>2, <1>3

\* A hit is not older than the check; a miss takes the sum of the ledger.
LEMMA CachedNext ==
  ASSUME QuotaBounds, QuotaInv, NEW q \in Askers, NEW scope \in {"user", "org"},
         Spending!Cached(q, scope)
  PROVE  QuotaInv'
<1> DEFINE k == Spending!KeyOf(q, scope)
<1>1. /\ check[q].pc = scope /\ check[q] \in CheckState /\ CheckSound(check[q])
      /\ k \in Spending!Keys
      /\ UNCHANGED <<instant, ledger, userQuota, orgQuota, cache, full>>
  BY KeysRead DEF QuotaInv, QuotaTyped, Spending!Cached
<1>2. /\ instant \in Nat /\ Lived \in Nat /\ Late \in Nat /\ full[k] \in Nat /\ Held(k) \in Nat
      /\ cache[k].value \in Nat /\ cache[k].until \in Nat /\ check[q].opened \in Nat
      /\ Allotted(k) \in Nat /\ check[q].opened <= instant
  BY <1>1, QuotaNumbers DEF QuotaInv, CheckState, CheckSound
<1>3. Entered(k) /\ FullSince(k)
  BY <1>1 DEF QuotaInv
<1>4. CASE cache[k] # Spending!NoEntry
  <2>1. Uses(k, check[q], cache[k].value)
    BY <1>2, <1>3, <1>4 DEF Entered, Uses
  <2>2. Spending!Step(q, Spending!Got(check[q], scope, cache[k].value))
    BY <1>4 DEF Spending!Cached
  <2> QED
    BY <1>1, <1>2, <2>1, <2>2, GotTotal, CheckStep
<1>5. CASE cache[k] = Spending!NoEntry
  <2> DEFINE r == [check[q] EXCEPT !.pc = Spending!Filling(scope), !.at = instant,
                       !.sum = Spending!Total(ledger, <<k[1], check[q].period>>)]
  <2>1. Spending!Step(q, r)
    BY <1>5 DEF Spending!Cached
  <2>2. <<k[1], check[q].period>> = k
    BY DEF Spending!KeyOf
  <2>3. /\ r \in CheckState /\ r.pc = Spending!Filling(scope) /\ r.at = instant /\ r.sum = Held(k)
        /\ r.user = check[q].user /\ r.period = check[q].period /\ r.used = check[q].used
        /\ r.opened = check[q].opened /\ r.limit = check[q].limit
    BY <1>1, <1>2, <2>2 DEF CheckState, Held, Spending!Filling
  <2> HIDE DEF r
  <2>4. Summed(k, r)
    BY <1>2, <1>3, <2>3 DEF Summed, FullSince
  <2>5. CheckSound(r)
    BY <1>1, <2>3, <2>4, KeysRead DEF CheckSound, Uses, OwnKey, OrgKey, Spending!Filling
  <2> QED
    BY <1>1, <2>1, <2>3, <2>5, CheckStep
<1> QED
  BY <1>4, <1>5

\* The sum that was taken enters the cache, where it stays for a lifetime.
LEMMA FillNext ==
  ASSUME QuotaBounds, QuotaInv, NEW q \in Askers, NEW scope \in {"user", "org"},
         Spending!Fill(q, scope)
  PROVE  QuotaInv'
<1> DEFINE k == Spending!KeyOf(q, scope)
<1> DEFINE r == Spending!Got(check[q], scope, check[q].sum)
<1> DEFINE e == [value |-> check[q].sum, until |-> instant + Lived]
<1>1. /\ check[q].pc = Spending!Filling(scope) /\ check[q] \in CheckState /\ CheckSound(check[q])
      /\ check[q].pc \notin {"idle", "answering"} /\ cache' = [cache EXCEPT ![k] = e]
      /\ Spending!Step(q, r) /\ UNCHANGED <<instant, ledger, userQuota, orgQuota, full>>
  BY DEF QuotaInv, QuotaTyped, Spending!Fill, Spending!Filling, Spending!Expiry
<1>2. k \in Spending!Keys
  BY <1>1, KeysRead
<1>3. /\ instant \in Nat /\ Lived \in Nat /\ Late \in Nat /\ full[k] \in Nat /\ Held(k) \in Nat
      /\ check[q].opened \in Nat /\ check[q].sum \in Nat /\ check[q].at \in Nat
      /\ Allotted(k) \in Nat /\ Lived > 0
  BY <1>1, <1>2, QuotaNumbers DEF QuotaInv, CheckState
<1>4. Summed(k, check[q])
  BY <1>1, KeysRead DEF CheckSound, Spending!Filling
<1>5. Uses(k, check[q], check[q].sum)
  BY <1>3, <1>4 DEF Summed, Uses
<1>6. r \in CheckState /\ CheckSound(r)
  BY <1>1, <1>3, <1>5, GotTotal
<1>7. e.value = check[q].sum /\ e.until = instant + Lived /\ e \in [value : Nat, until : Nat]
  BY <1>3
<1> HIDE DEF k, r, e
<1>8. /\ cache' \in [Spending!Keys -> [value : Nat, until : Nat]]
      /\ \A j \in Spending!Keys : cache'[j] = IF j = k THEN e ELSE cache[j]
  BY <1>1, <1>2, <1>7 DEF QuotaInv, QuotaTyped
<1>9. check' \in [Askers -> CheckState] /\ \A p \in Askers : check'[p] = IF p = q THEN r ELSE check[p]
  BY <1>1, <1>6 DEF QuotaInv, QuotaTyped, Spending!Step
<1>10. QuotaTyped'
  BY <1>1, <1>8, <1>9 DEF QuotaInv, QuotaTyped
<1>11. \A j : Held(j)' = Held(j) /\ Allotted(j)' = Allotted(j)
  BY <1>1 DEF Held, Allotted
<1>12. ASSUME NEW j \in Spending!Keys PROVE FullSince(j)' /\ Entered(j)'
  <2>1. FullSince(j) /\ Entered(j)
    BY DEF QuotaInv
  <2>2. FullSince(j)'
    BY <1>1, <1>11, <2>1 DEF FullSince
  <2>3. CASE j # k
    BY <1>1, <1>8, <1>11, <2>1, <2>2, <2>3 DEF Entered
  <2>4. CASE j = k
    BY <1>1, <1>3, <1>4, <1>7, <1>8, <1>11, <2>2, <2>4 DEF Entered, Summed
  <2> QED
    BY <2>3, <2>4
<1>13. ASSUME NEW p \in Askers PROVE CheckSound(check[p])'
  <2>1. PICK s \in CheckState : s = check'[p] /\ CheckSound(s)
    BY <1>6, <1>9 DEF QuotaInv, QuotaTyped
  <2>2. CheckSound(s)'
    BY <1>1, <1>11, <2>1 DEF CheckSound, Summed, Uses
  <2> QED
    BY <2>1, <2>2, SoundCopy
<1> QED
  BY <1>10, <1>12, <1>13 DEF QuotaInv

\* A refusal ends a check; otherwise the turn goes on.
LEMMA DecideNext ==
  ASSUME QuotaInv, NEW q \in Askers, Spending!Decide(q)
  PROVE  QuotaInv'
<1> DEFINE r == IF Spending!Blocked(q) THEN Spending!Idle
                ELSE [Spending!Idle EXCEPT !.pc = "answering", !.user = check[q].user]
<1>1. check[q].user \in Payers
  BY DEF QuotaInv, CheckSound, Spending!Decide
<1>2. r \in CheckState /\ r.pc \in {"idle", "answering"}
  BY <1>1 DEF CheckState, Spending!Idle
<1>3. Spending!Step(q, r) /\ UNCHANGED <<instant, ledger, userQuota, orgQuota, cache, full>>
  BY DEF Spending!Decide
<1> HIDE DEF r
<1> QED
  BY <1>2, <1>3, CheckStep DEF CheckSound

\* What every check and entry holds of totals is kept when rows are added, and when an
\* allocation changes or is reached and its time starts anew.
LEMMA Standing ==
  ASSUME QuotaBounds, QuotaInv, UNCHANGED <<instant, cache>>, ledger \subseteq ledger',
         IsFiniteSet(ledger'), userQuota' \in [Payers -> Nat], orgQuota' \in Nat,
         full' \in [Spending!Keys -> Nat],
         \A k \in Spending!Keys : full'[k] >= instant \/ (full'[k] = full[k] /\ Allotted(k)' = Allotted(k))
  PROVE  /\ \A k \in Spending!Keys : Entered(k)'
         /\ \A r \in CheckState : CheckSound(r) => CheckSound(r)'
<1>1. \A k : Held(k) \in Nat /\ Held(k)' \in Nat /\ Held(k) <= Held(k)'
  BY RowsAdd DEF Held
<1>2. /\ instant \in Nat /\ Lived \in Nat /\ Late \in Nat /\ Lived > 0
      /\ \A k \in Spending!Keys : /\ Allotted(k) \in Nat /\ full[k] \in Nat /\ full'[k] \in Nat
                                  /\ cache[k].value \in Nat /\ cache[k].until \in Nat
  BY QuotaNumbers DEF QuotaInv
<1>3. ASSUME NEW k \in Spending!Keys PROVE Entered(k)'
  <2>1. Entered(k)
    BY DEF QuotaInv
  <2> QED
    BY <1>1, <1>2, <2>1 DEF Entered
<1>4. ASSUME NEW r \in CheckState, CheckSound(r) PROVE CheckSound(r)'
  <2> SUFFICES ASSUME r.pc \notin {"idle", "answering"} PROVE CheckSound(r)'
    BY DEF CheckSound
  <2>1. OwnKey(r) \in Spending!Keys /\ OrgKey(r) \in Spending!Keys /\ Allotted(OrgKey(r)) = orgQuota
        /\ Allotted(OrgKey(r))' = orgQuota'
    BY <1>4 DEF CheckSound, OwnKey, OrgKey, Allotted, Spending!Keys, Spending!Allocated
  <2>2. r.opened \in Nat /\ r.sum \in Nat /\ r.at \in Nat /\ r.used \in Nat /\ r.orgUsed \in Nat
        /\ r.opened <= instant
    BY <1>4 DEF CheckState, CheckSound
  <2>3. ASSUME NEW k \in Spending!Keys, Summed(k, r) PROVE Summed(k, r)'
    BY <1>1, <1>2, <2>2, <2>3 DEF Summed
  <2>4. ASSUME NEW k \in Spending!Keys, NEW n \in Nat, Uses(k, r, n) PROVE Uses(k, r, n)'
    BY <1>1, <1>2, <2>2, <2>4 DEF Uses
  <2>5. full'[OrgKey(r)] < r.opened => r.limit = orgQuota'
    <3>1. full[OrgKey(r)] < r.opened => r.limit = orgQuota
      BY <1>4 DEF CheckSound
    <3> QED
      BY <1>2, <2>1, <2>2, <3>1
  <2> QED
    BY <1>4, <2>1, <2>2, <2>3, <2>4, <2>5 DEF CheckSound, OwnKey, OrgKey
<1> QED
  BY <1>3, <1>4

\* A row is added to the ledger: some totals may reach their allocations.
LEMMA RecordNext ==
  ASSUME QuotaBounds, QuotaInv, NEW q \in Askers, Spending!Record(q)
  PROVE  QuotaInv'
<1>1. PICK x : ledger' = ledger \union {x}
  BY DEF Spending!Record
<1>2. /\ UNCHANGED <<instant, cache, userQuota, orgQuota>>
      /\ full' = [k \in Spending!Keys |-> Spending!Since(k, ledger', Allotted(k), full[k])]
      /\ Spending!Step(q, Spending!Idle)
  BY DEF Spending!Record, Spending!Recorded, Allotted
<1>3. IsFiniteSet(ledger') /\ ledger \subseteq ledger'
  BY <1>1, FS_AddElement DEF QuotaInv, QuotaTyped
<1>4. /\ instant \in Nat /\ Spending!Unset \in Nat /\ instant < Spending!Unset
      /\ \A k \in Spending!Keys : full[k] \in Nat /\ Allotted(k) \in Nat
  BY QuotaNumbers DEF QuotaInv
<1>5. ASSUME NEW k \in Spending!Keys
      PROVE  /\ full'[k] \in Nat /\ Allotted(k)' = Allotted(k) /\ Held(k)' \in Nat
             /\ \/ full'[k] = full[k] /\ Held(k)' >= Allotted(k)
                \/ full'[k] = instant /\ Held(k)' >= Allotted(k)
                \/ full'[k] = Spending!Unset
  <2>1. full'[k] = Spending!Since(k, ledger', Allotted(k), full[k])
    BY <1>2
  <2>2. Held(k)' = Spending!Total(ledger', k) /\ Held(k)' \in Nat
    BY <1>3, RowsAdd DEF Held
  <2>3. Allotted(k)' = Allotted(k)
    BY <1>2 DEF Allotted
  <2> QED
    BY <1>4, <2>1, <2>2, <2>3 DEF Spending!Since
<1>6. full' \in [Spending!Keys -> Nat]
  BY <1>2, <1>5
<1>7. /\ \A k \in Spending!Keys : Entered(k)'
      /\ \A r \in CheckState : CheckSound(r) => CheckSound(r)'
  <2>1. userQuota' \in [Payers -> Nat] /\ orgQuota' \in Nat
    BY <1>2 DEF QuotaInv, QuotaTyped
  <2>2. \A k \in Spending!Keys : full'[k] >= instant \/ (full'[k] = full[k] /\ Allotted(k)' = Allotted(k))
    BY <1>4, <1>5
  <2> QED
    BY <1>2, <1>3, <1>6, <2>1, <2>2, Standing
<1>8. \A k \in Spending!Keys : FullSince(k)'
  <2>1. Spending!Unset' = Spending!Unset
    BY DEF Spending!Unset
  <2>2. \A k \in Spending!Keys : FullSince(k)
    BY DEF QuotaInv
  <2> QED
    BY <1>2, <1>4, <1>5, <2>1, <2>2 DEF FullSince
<1>9. Spending!Idle \in CheckState /\ Spending!Idle.pc = "idle"
  BY DEF Spending!Idle, CheckState
<1>10. check' \in [Askers -> CheckState]
       /\ \A p \in Askers : check'[p] = IF p = q THEN Spending!Idle ELSE check[p]
  BY <1>2, <1>9 DEF QuotaInv, QuotaTyped, Spending!Step
<1>11. QuotaTyped'
  BY <1>2, <1>3, <1>6, <1>10 DEF QuotaInv, QuotaTyped
<1>12. \A p \in Askers : CheckSound(check[p])'
  <2> SUFFICES ASSUME NEW p \in Askers PROVE CheckSound(check[p])'
    OBVIOUS
  <2>1. CASE p = q
    BY <1>9, <1>10, <2>1 DEF CheckSound
  <2>2. CASE p # q
    <3>1. check'[p] = check[p] /\ check[p] \in CheckState /\ CheckSound(check[p])
      BY <1>10, <2>2 DEF QuotaInv, QuotaTyped
    <3>2. PICK r \in CheckState : r = check[p]
      BY <3>1
    <3>3. CheckSound(r)'
      BY <1>7, <3>1, <3>2
    <3> QED
      BY <3>1, <3>2, <3>3, SoundCopy
  <2> QED
    BY <2>1, <2>2
<1> QED
  BY <1>7, <1>8, <1>11, <1>12 DEF QuotaInv

\* An allocation is changed: what has reached it is counted from now.
LEMMA ReallocatedNext ==
  ASSUME QuotaBounds, QuotaInv, NEW of, NEW n \in Allotments, Spending!Reallocated(of, n),
         UNCHANGED <<instant, ledger, cache, check>>,
         userQuota' \in [Payers -> Nat], orgQuota' \in Nat,
         \A k \in Spending!Keys : Allotted(k)' = IF k[1] = of THEN n ELSE Allotted(k)
  PROVE  QuotaInv'
<1>1. /\ instant \in Nat /\ Spending!Unset \in Nat /\ instant < Spending!Unset /\ n \in Nat
      /\ \A k \in Spending!Keys : full[k] \in Nat /\ Allotted(k) \in Nat /\ Held(k) \in Nat
  BY QuotaNumbers DEF QuotaInv, QuotaBounds
<1>2. \A k : Held(k)' = Held(k)
  BY DEF Held
<1>3. ASSUME NEW k \in Spending!Keys
      PROVE  \/ full'[k] = full[k] /\ Allotted(k)' = Allotted(k)
             \/ full'[k] = instant /\ Held(k) >= Allotted(k)'
             \/ full'[k] = Spending!Unset
  <2>1. CASE k[1] = of
    BY <1>1, <2>1 DEF Spending!Reallocated, Spending!Since, Held
  <2>2. CASE k[1] # of
    BY <2>2 DEF Spending!Reallocated
  <2> QED
    BY <2>1, <2>2
<1>4. full' \in [Spending!Keys -> Nat]
  <2>1. DOMAIN full' = Spending!Keys /\ full' = [k \in Spending!Keys |-> full'[k]]
    BY DEF Spending!Reallocated
  <2> QED
    BY <1>1, <1>3, <2>1
<1>5. IsFiniteSet(ledger') /\ ledger \subseteq ledger'
  BY DEF QuotaInv, QuotaTyped
<1>6. /\ \A k \in Spending!Keys : Entered(k)'
      /\ \A r \in CheckState : CheckSound(r) => CheckSound(r)'
  <2>1. \A k \in Spending!Keys : full'[k] >= instant \/ (full'[k] = full[k] /\ Allotted(k)' = Allotted(k))
    BY <1>1, <1>3
  <2> QED
    BY <1>4, <1>5, <2>1, Standing
<1>7. \A k \in Spending!Keys : FullSince(k)'
  <2>1. Spending!Unset' = Spending!Unset
    BY DEF Spending!Unset
  <2>2. \A k \in Spending!Keys : FullSince(k)
    BY DEF QuotaInv
  <2> QED
    BY <1>1, <1>2, <1>3, <2>1, <2>2 DEF FullSince
<1>8. QuotaTyped'
  BY <1>4, <1>5 DEF QuotaInv, QuotaTyped
<1>9. \A q \in Askers : CheckSound(check[q])'
  <2> SUFFICES ASSUME NEW q \in Askers PROVE CheckSound(check[q])'
    OBVIOUS
  <2>1. check'[q] = check[q] /\ check[q] \in CheckState /\ CheckSound(check[q])
    BY DEF QuotaInv, QuotaTyped
  <2>2. PICK r \in CheckState : r = check[q]
    BY <2>1
  <2>3. CheckSound(r)'
    BY <1>6, <2>1, <2>2
  <2> QED
    BY <2>1, <2>2, <2>3, SoundCopy
<1> QED
  BY <1>6, <1>7, <1>8, <1>9 DEF QuotaInv

\* A changed allocation restarts the time since when a total has reached it.
LEMMA SetQuotaNext ==
  ASSUME QuotaBounds, QuotaInv, NEW n \in Allotments,
         Spending!SetOrgQuota(n) \/ \E u \in Payers : Spending!SetUserQuota(u, n)
  PROVE  QuotaInv'
<1>0. n \in Nat /\ userQuota \in [Payers -> Nat] /\ orgQuota \in Nat /\ Spending!Org \notin Payers
  BY DEF QuotaBounds, QuotaInv, QuotaTyped
<1>1. CASE Spending!SetOrgQuota(n)
  <2>1. /\ Spending!Reallocated(Spending!Org, n) /\ UNCHANGED <<instant, ledger, cache, check>>
        /\ userQuota' \in [Payers -> Nat] /\ orgQuota' \in Nat
    BY <1>0, <1>1 DEF Spending!SetOrgQuota
  <2>2. \A k \in Spending!Keys : Allotted(k)' = IF k[1] = Spending!Org THEN n ELSE Allotted(k)
    BY <1>1 DEF Spending!SetOrgQuota, Allotted, Spending!Allocated
  <2> QED
    BY <2>1, <2>2, ReallocatedNext
<1>2. ASSUME NEW u \in Payers, Spending!SetUserQuota(u, n) PROVE QuotaInv'
  <2>1. /\ Spending!Reallocated(u, n) /\ UNCHANGED <<instant, ledger, cache, check>>
        /\ userQuota' \in [Payers -> Nat] /\ orgQuota' \in Nat
    BY <1>0, <1>2 DEF Spending!SetUserQuota
  <2>2. \A k \in Spending!Keys : Allotted(k)' = IF k[1] = u THEN n ELSE Allotted(k)
    BY <1>0, <1>2 DEF Spending!SetUserQuota, Allotted, Spending!Allocated, Spending!Keys
  <2> QED
    BY <2>1, <2>2, ReallocatedNext
<1> QED
  BY <1>1, <1>2

\* Time passes; a sum that was taken is entered before the delay is over.
LEMMA QuotaTickNext ==
  ASSUME QuotaBounds, QuotaInv, Spending!Tick
  PROVE  QuotaInv'
<1>1. /\ instant \in Nat /\ Horizon \in Nat /\ instant < Horizon /\ instant' = instant + 1
      /\ Late \in Nat /\ Lived \in Nat /\ Spending!Unset = Horizon + 1
      /\ UNCHANGED <<ledger, userQuota, orgQuota, check, full>>
  BY QuotaNumbers DEF QuotaInv, Spending!Tick, Spending!Unset
<1>2. \A k : Held(k)' = Held(k) /\ Allotted(k)' = Allotted(k)
  BY <1>1 DEF Held, Allotted
<1>3. \A k \in Spending!Keys : /\ full[k] \in Nat /\ Held(k) \in Nat /\ Allotted(k) \in Nat
                              /\ cache[k].value \in Nat /\ cache[k].until \in Nat
  BY QuotaNumbers DEF QuotaInv
<1>4. /\ cache' \in [Spending!Keys -> [value : Nat, until : Nat]]
      /\ \A k \in Spending!Keys : \/ cache'[k] = Spending!NoEntry
                                  \/ cache'[k] = cache[k] /\ instant' < cache[k].until
  <2>1. cache' = [k \in Spending!Keys |-> IF cache[k].until <= instant' THEN Spending!NoEntry ELSE cache[k]]
    BY DEF Spending!Tick
  <2>2. Spending!NoEntry \in [value : Nat, until : Nat]
    BY DEF Spending!NoEntry
  <2> QED
    BY <1>1, <1>3, <2>1, <2>2 DEF QuotaInv, QuotaTyped
<1>5. QuotaTyped'
  BY <1>1, <1>4 DEF QuotaInv, QuotaTyped
<1>6. ASSUME NEW k \in Spending!Keys PROVE FullSince(k)' /\ Entered(k)'
  <2>1. FullSince(k) /\ Entered(k)
    BY DEF QuotaInv
  <2>2. Spending!Unset' = Spending!Unset /\ Spending!NoEntry' = Spending!NoEntry
    BY DEF Spending!Unset, Spending!NoEntry
  <2>3. FullSince(k)'
    BY <1>1, <1>2, <1>3, <2>1, <2>2 DEF FullSince
  <2>4. Entered(k)'
    BY <1>1, <1>2, <1>3, <1>4, <2>1, <2>2 DEF Entered
  <2> QED
    BY <2>3, <2>4
<1>7. ASSUME NEW q \in Askers PROVE CheckSound(check[q])'
  <2>1. check'[q] = check[q] /\ check[q] \in CheckState /\ CheckSound(check[q])
    BY <1>1 DEF QuotaInv, QuotaTyped
  <2>2. PICK r \in CheckState : r = check[q]
    BY <2>1
  <2>3. r.pc \in {"fill user", "fill org"} => instant - r.at < Late
    BY <2>2 DEF Spending!Tick, Spending!Prompt
  <2>4. r.opened \in Nat /\ r.at \in Nat
    BY DEF CheckState
  <2>5. \A k : Summed(k, r) /\ instant - r.at < Late => Summed(k, r)'
    BY <1>1, <1>2, <2>4 DEF Summed
  <2>6. \A k, n : Uses(k, r, n) => Uses(k, r, n)'
    BY <1>1, <1>2 DEF Uses
  <2>7. r.pc \notin {"idle", "answering"} =>
          /\ r.user \in Payers /\ r.period \in Spending!Periods /\ r.opened <= instant + 1
          /\ full[OrgKey(r)] < r.opened => r.limit = orgQuota
    <3>1. CheckSound(r)
      BY <2>1, <2>2
    <3>2. r.pc \notin {"idle", "answering"} =>
            /\ r.user \in Payers /\ r.period \in Spending!Periods /\ r.opened <= instant
            /\ full[OrgKey(r)] < r.opened => r.limit = orgQuota
      BY <3>1 DEF CheckSound
    <3> QED
      BY <1>1, <2>4, <3>2
  <2>8. /\ r.pc = "fill user" => Summed(OwnKey(r), r)'
        /\ r.pc = "fill org" => Summed(OrgKey(r), r)'
    BY <2>1, <2>2, <2>3, <2>5 DEF CheckSound
  <2>9. /\ r.pc \in {"org", "fill org", "decide"} => Uses(OwnKey(r), r, r.used)'
        /\ r.pc = "decide" => Uses(OrgKey(r), r, r.orgUsed)'
    BY <2>1, <2>2, <2>6 DEF CheckSound
  <2>10. CheckSound(r)'
    BY <1>1, <2>7, <2>8, <2>9 DEF CheckSound, OwnKey, OrgKey
  <2> QED
    BY <2>1, <2>2, <2>10, SoundCopy
<1> QED
  BY <1>5, <1>6, <1>7 DEF QuotaInv

\* Every step keeps the invariant of quotas.
LEMMA QuotaNext == QuotaBounds /\ QuotaInv /\ [Spending!Next]_(Spending!quotaVars) => QuotaInv'
<1> SUFFICES ASSUME QuotaBounds, QuotaInv, [Spending!Next]_(Spending!quotaVars) PROVE QuotaInv'
  OBVIOUS
<1>1. CASE UNCHANGED Spending!quotaVars
  BY <1>1 DEF Spending!quotaVars, QuotaInv, QuotaTyped, FullSince, Entered, CheckSound, Summed, Uses,
     Held, Allotted
<1>2. CASE Spending!Tick
  BY <1>2, QuotaTickNext
<1>3. ASSUME NEW q \in Askers, NEW u \in Payers, Spending!Open(q, u) PROVE QuotaInv'
  BY <1>3, OpenNext
<1>4. ASSUME NEW q \in Askers, NEW scope \in {"user", "org"},
             Spending!Cached(q, scope) \/ Spending!Fill(q, scope)
      PROVE  QuotaInv'
  BY <1>4, CachedNext, FillNext
<1>5. ASSUME NEW q \in Askers, Spending!Decide(q) \/ Spending!Record(q) PROVE QuotaInv'
  BY <1>5, DecideNext, RecordNext
<1>6. ASSUME NEW n \in Allotments, Spending!SetOrgQuota(n) \/ \E u \in Payers : Spending!SetUserQuota(u, n)
      PROVE  QuotaInv'
  BY <1>6, SetQuotaNext
<1> QED
  BY <1>1, <1>2, <1>3, <1>4, <1>5, <1>6 DEF Spending!Next

\* Only Decide ends what has come to its decision.
LEMMA DecidedHere ==
  ASSUME QuotaInv, Spending!Next, NEW q \in Askers, check[q].pc = "decide", check'[q].pc # "decide"
  PROVE  Spending!Decide(q)
<1>1. \A p \in Askers : \A r : p # q /\ Spending!Step(p, r) => check'[q] = check[q]
  BY DEF QuotaInv, QuotaTyped, Spending!Step
<1>2. ~UNCHANGED check
  OBVIOUS
<1>3. ASSUME NEW p \in Askers, NEW u \in Payers, Spending!Open(p, u) PROVE FALSE
  BY <1>1, <1>3 DEF Spending!Open
<1>4. ASSUME NEW p \in Askers, NEW scope \in {"user", "org"},
             Spending!Cached(p, scope) \/ Spending!Fill(p, scope)
      PROVE  FALSE
  BY <1>1, <1>4 DEF Spending!Cached, Spending!Fill, Spending!Filling
<1>5. ASSUME NEW p \in Askers, Spending!Record(p) PROVE FALSE
  BY <1>1, <1>5 DEF Spending!Record
<1>6. ASSUME NEW p \in Askers, Spending!Decide(p) PROVE p = q
  BY <1>1, <1>6 DEF Spending!Decide
<1> QED
  BY <1>2, <1>3, <1>4, <1>5, <1>6 DEF Spending!Next, Spending!Tick, Spending!SetOrgQuota,
     Spending!SetUserQuota

\* A turn passes an allocation only within the lifetime of a cached total, and nobody is
\* refused who has tokens left: check_quota, for any number of users, turns and periods,
\* any allocations, lifetime of a total and delay of its entry.
THEOREM AllocationsHoldAlways == ASSUME QuotaBounds PROVE Spending!Spec => Spending!AllocationsHold
<1> DEFINE Fair == \A q \in Askers :
      /\ Spending!Admits(q) =>
           \A k \in Spending!KeysOf(q) : ~(full[k] + Lived + Late <= check[q].opened)
      /\ Spending!Refuses(q) =>
           \/ Spending!Total(ledger, <<check[q].user, check[q].period>>) >= userQuota[check[q].user]
           \/ Spending!Total(ledger, <<Spending!Org, check[q].period>>) >= check[q].limit
<1>1. Spending!Init => QuotaInv
  BY QuotaInit
<1>2. QuotaInv /\ [Spending!Next]_(Spending!quotaVars) => QuotaInv'
  BY QuotaNext
<1>3. QuotaInv /\ [Spending!Next]_(Spending!quotaVars) => [Fair]_(Spending!quotaVars)
  <2> SUFFICES ASSUME QuotaInv, Spending!Next, NEW q \in Askers, check[q].pc = "decide",
                      check'[q].pc \in {"answering", "idle"}
               PROVE  /\ Spending!Admits(q) =>
                           \A k \in Spending!KeysOf(q) : ~(full[k] + Lived + Late <= check[q].opened)
                      /\ Spending!Refuses(q) =>
                           \/ Spending!Total(ledger, <<check[q].user, check[q].period>>) >= userQuota[check[q].user]
                           \/ Spending!Total(ledger, <<Spending!Org, check[q].period>>) >= check[q].limit
    BY DEF Spending!Admits, Spending!Refuses
  <2>1. Spending!Decide(q)
    BY DecidedHere
  <2>2. /\ check[q] \in CheckState /\ check[q].user \in Payers
        /\ OwnKey(check[q]) \in Spending!Keys /\ OrgKey(check[q]) \in Spending!Keys
        /\ Uses(OwnKey(check[q]), check[q], check[q].used)
        /\ Uses(OrgKey(check[q]), check[q], check[q].orgUsed)
        /\ full[OrgKey(check[q])] < check[q].opened => check[q].limit = orgQuota
    BY KeysRead DEF QuotaInv, QuotaTyped, CheckSound
  <2>3. Allotted(OwnKey(check[q])) = userQuota[check[q].user] /\ Allotted(OrgKey(check[q])) = orgQuota
    BY <2>2 DEF QuotaBounds, Allotted, Spending!Allocated, OwnKey, OrgKey
  <2>4. /\ check[q].used \in Nat /\ check[q].orgUsed \in Nat /\ check[q].limit \in Nat
        /\ check[q].opened \in Nat /\ Lived \in Nat /\ Late \in Nat /\ Lived > 0
        /\ \A k \in {OwnKey(check[q]), OrgKey(check[q])} :
             full[k] \in Nat /\ Held(k) \in Nat /\ Allotted(k) \in Nat
    BY <2>2, QuotaNumbers DEF QuotaInv, CheckState
  <2>5. CASE Spending!Blocked(q)
    <3>1. check'[q].pc # "answering"
      BY <2>1, <2>5 DEF Spending!Decide, Spending!Step, Spending!Idle, QuotaInv, QuotaTyped
    <3>2. check[q].used >= userQuota[check[q].user] \/ check[q].orgUsed >= check[q].limit
      BY <2>5 DEF Spending!Blocked
    <3> QED
      BY <2>2, <2>3, <2>4, <3>1, <3>2 DEF Uses, Held, OwnKey, OrgKey, Spending!Admits
  <2>6. CASE ~Spending!Blocked(q)
    <3>1. check'[q].pc # "idle"
      BY <2>1, <2>6 DEF Spending!Decide, Spending!Step, QuotaInv, QuotaTyped
    <3>2. ~(check[q].used >= userQuota[check[q].user]) /\ ~(check[q].orgUsed >= check[q].limit)
      BY <2>6 DEF Spending!Blocked
    <3>3. \A k \in {OwnKey(check[q]), OrgKey(check[q])} : ~(full[k] + Lived + Late <= check[q].opened)
      BY <2>2, <2>3, <2>4, <3>2 DEF Uses
    <3> QED
      BY <3>1, <3>3 DEF Spending!Refuses, Spending!KeysOf, OwnKey, OrgKey
  <2> QED
    BY <2>5, <2>6
<1>4. Spending!AllocationsHold <=> [][Fair]_(Spending!quotaVars)
  BY DEF Spending!AllocationsHold
<1> HIDE DEF Fair
<1> QED
  BY <1>1, <1>2, <1>3, <1>4, PTL DEF Spending!Spec

-----------------------------------------------------------------------------
(* Periods. *)

CalendarBounds == FirstYear \in Nat /\ LastYear \in Nat

CalendarInv ==
    /\ resetDay \in 1..31
    /\ \E y \in Nat, m \in 1..12 : \E d \in 1..Calendar!MonthLength(y, m) : date = <<y, m, d>>

Twelve == 1..12

\* No month is shorter than 28 days or longer than 31.
LEMMA MonthLengths == \A y, m : Calendar!MonthLength(y, m) \in 28..31
BY DEF Calendar!MonthLength

\* The reset day of a month, or its last day, is a day of that month.
LEMMA ClampedDay ==
  ASSUME NEW y, NEW m, NEW r \in 1..31
  PROVE  \E c \in 1..31 : Calendar!Clamped(y, m, r) = <<y, m, c>>
<1>1. Calendar!MonthLength(y, m) \in 28..31
  BY MonthLengths
<1>2. CASE r > Calendar!MonthLength(y, m)
  BY <1>1, <1>2 DEF Calendar!Clamped
<1>3. CASE ~(r > Calendar!MonthLength(y, m))
  BY <1>1, <1>3 DEF Calendar!Clamped
<1> QED
  BY <1>2, <1>3

\* A later month is later than an earlier one, whatever the days.
LEMMA EarlierMonths ==
  ASSUME NEW y \in Int, NEW m \in Twelve, NEW d \in 1..31, NEW e \in 1..31
  PROVE  /\ Calendar!Earlier(<<y, m, d>>, <<Calendar!MonthAfter(y, m)[1], Calendar!MonthAfter(y, m)[2], e>>)
         /\ ~Calendar!Earlier(<<y, m, d>>, <<Calendar!MonthBefore(y, m)[1], Calendar!MonthBefore(y, m)[2], e>>)
         /\ ~Calendar!Earlier(<<y, m, d>>, <<y, m, d>>)
BY DEF Twelve, Calendar!MonthAfter, Calendar!MonthBefore, Calendar!Earlier, Calendar!Ordinal

\* The month after the month before is the month itself.
LEMMA MonthsTurn ==
  ASSUME NEW y \in Int, NEW m \in Twelve
  PROVE  /\ Calendar!MonthAfter(y, m) \in Int \X Twelve
         /\ Calendar!MonthBefore(y, m) \in Int \X Twelve
         /\ Calendar!MonthAfter(Calendar!MonthBefore(y, m)[1], Calendar!MonthBefore(y, m)[2]) = <<y, m>>
BY DEF Twelve, Calendar!MonthAfter, Calendar!MonthBefore

\* The period that begins in a month reaches to the reset day of the next.
Begins(y, m, r) ==
    [start |-> Calendar!Clamped(y, m, r),
     reset |-> Calendar!Clamped(Calendar!MonthAfter(y, m)[1], Calendar!MonthAfter(y, m)[2], r)]

\* A day lies in the period that begins in its month, or in the month before.
LEMMA BoundsOf ==
  ASSUME NEW y \in Int, NEW m \in Twelve, NEW d \in 1..31, NEW r \in 1..31
  PROVE  Calendar!PeriodBounds(<<y, m, d>>, r) =
           IF ~Calendar!Earlier(<<y, m, d>>, Calendar!Clamped(y, m, r)) THEN Begins(y, m, r)
           ELSE Begins(Calendar!MonthBefore(y, m)[1], Calendar!MonthBefore(y, m)[2], r)
BY MonthsTurn DEF Calendar!PeriodBounds, Begins

\* The first day of a period lies in it.
LEMMA BoundsOfStart ==
  ASSUME NEW y \in Int, NEW m \in Twelve, NEW r \in 1..31
  PROVE  Calendar!PeriodBounds(Calendar!Clamped(y, m, r), r) = Begins(y, m, r)
<1>1. PICK c \in 1..31 : Calendar!Clamped(y, m, r) = <<y, m, c>>
  BY ClampedDay
<1>2. ~Calendar!Earlier(<<y, m, c>>, <<y, m, c>>)
  BY EarlierMonths
<1>3. Calendar!PeriodBounds(<<y, m, c>>, r) =
        IF ~Calendar!Earlier(<<y, m, c>>, Calendar!Clamped(y, m, r)) THEN Begins(y, m, r)
        ELSE Begins(Calendar!MonthBefore(y, m)[1], Calendar!MonthBefore(y, m)[2], r)
  BY BoundsOf
<1> QED
  BY <1>1, <1>2, <1>3

\* Periods tile time at any date.
LEMMA TilesAt ==
  ASSUME NEW y \in Int, NEW m \in Twelve, NEW d \in 1..31, NEW r \in 1..31,
         date = <<y, m, d>>, resetDay = r
  PROVE  Calendar!PeriodsTile
<1> DEFINE this == Calendar!Clamped(y, m, r)
<1> DEFINE nxt == Calendar!MonthAfter(y, m)
<1> DEFINE prev == Calendar!MonthBefore(y, m)
<1>1. /\ nxt[1] \in Int /\ nxt[2] \in Twelve /\ nxt = <<nxt[1], nxt[2]>>
      /\ prev[1] \in Int /\ prev[2] \in Twelve /\ prev = <<prev[1], prev[2]>>
  BY MonthsTurn
<1>2. PICK e \in 1..31 : Calendar!Clamped(nxt[1], nxt[2], r) = <<nxt[1], nxt[2], e>>
  BY ClampedDay
<1>3. PICK b \in 1..31 : Calendar!Clamped(prev[1], prev[2], r) = <<prev[1], prev[2], b>>
  BY ClampedDay
<1>4. CASE ~Calendar!Earlier(date, this)
  <2>1. Calendar!PeriodBounds(date, resetDay) = Begins(y, m, r)
    BY <1>4, BoundsOf
  <2>2. Begins(y, m, r).start = this /\ Begins(y, m, r).reset = Calendar!Clamped(nxt[1], nxt[2], r)
    BY DEF Begins
  <2>3. Calendar!Earlier(date, Begins(y, m, r).reset)
    <3>1. Calendar!Earlier(<<y, m, d>>, <<nxt[1], nxt[2], e>>)
      BY EarlierMonths
    <3> QED
      BY <1>2, <2>2, <3>1
  <2>4. Calendar!PeriodBounds(this, r) = Begins(y, m, r)
    BY BoundsOfStart
  <2>5. Calendar!PeriodBounds(Begins(y, m, r).reset, r).start = Begins(y, m, r).reset
    <3> HIDE DEF nxt
    <3>1. Calendar!PeriodBounds(Calendar!Clamped(nxt[1], nxt[2], r), r) = Begins(nxt[1], nxt[2], r)
      BY <1>1, BoundsOfStart
    <3>2. Begins(nxt[1], nxt[2], r).start = Calendar!Clamped(nxt[1], nxt[2], r)
      BY DEF Begins
    <3> QED
      BY <2>2, <3>1, <3>2
  <2> QED
    BY <1>4, <2>1, <2>2, <2>3, <2>4, <2>5 DEF Calendar!PeriodsTile
<1>5. CASE Calendar!Earlier(date, this)
  <2> DEFINE w == Begins(prev[1], prev[2], r)
  <2>1. Calendar!PeriodBounds(date, resetDay) = w
    BY <1>5, BoundsOf
  <2>2. w.start = Calendar!Clamped(prev[1], prev[2], r) /\ w.reset = this
    BY MonthsTurn DEF Begins
  <2>3. ~Calendar!Earlier(date, w.start)
    <3>1. ~Calendar!Earlier(<<y, m, d>>, <<prev[1], prev[2], b>>)
      BY EarlierMonths
    <3> QED
      BY <1>3, <2>2, <3>1
  <2>4. Calendar!PeriodBounds(w.start, r) = w
    BY <1>1, <2>2, BoundsOfStart
  <2>5. Calendar!PeriodBounds(w.reset, r).start = w.reset
    BY <2>2, BoundsOfStart DEF Begins
  <2> HIDE DEF w
  <2> QED
    BY <1>5, <2>1, <2>2, <2>3, <2>4, <2>5 DEF Calendar!PeriodsTile
<1> QED
  BY <1>4, <1>5

\* Every day lies in one period, and periods follow each other, whatever the day of the
\* month they begin on: period_bounds, from any year on.
THEOREM PeriodsTileAlways == ASSUME CalendarBounds PROVE Calendar!Spec => []Calendar!PeriodsTile
<1>1. Calendar!Init => CalendarInv
  <2> SUFFICES ASSUME Calendar!Init PROVE CalendarInv
    OBVIOUS
  <2>1. PICK y \in FirstYear..LastYear, m \in 1..12 : date = <<y, m, 1>>
    BY DEF Calendar!Init
  <2>2. y \in Nat /\ 1 \in 1..Calendar!MonthLength(y, m)
    BY MonthLengths DEF CalendarBounds
  <2> QED
    BY <2>1, <2>2 DEF CalendarInv, Calendar!Init
<1>2. CalendarInv /\ [Calendar!Next]_(Calendar!periodVars) => CalendarInv'
  <2> SUFFICES ASSUME CalendarInv, Calendar!NextDay PROVE CalendarInv'
    BY DEF Calendar!Next, Calendar!periodVars, CalendarInv
  <2>1. PICK y \in Nat, m \in 1..12 : \E d \in 1..Calendar!MonthLength(y, m) : date = <<y, m, d>>
    BY DEF CalendarInv
  <2>2. PICK d \in 1..Calendar!MonthLength(y, m) : date = <<y, m, d>>
    BY <2>1
  <2>3. /\ date' = IF d < Calendar!MonthLength(y, m) THEN <<y, m, d + 1>>
                   ELSE <<Calendar!MonthAfter(y, m)[1], Calendar!MonthAfter(y, m)[2], 1>>
        /\ resetDay' = resetDay
    BY <2>2 DEF Calendar!NextDay
  <2>4. Calendar!MonthLength(y, m) \in 28..31
    BY MonthLengths
  <2>5. CASE d < Calendar!MonthLength(y, m)
    <3>1. d + 1 \in 1..Calendar!MonthLength(y, m)
      BY <2>4, <2>5
    <3> QED
      BY <2>3, <2>5, <3>1 DEF CalendarInv
  <2>6. CASE ~(d < Calendar!MonthLength(y, m))
    <3>1. PICK z \in Nat, n \in 1..12 : z = Calendar!MonthAfter(y, m)[1] /\ n = Calendar!MonthAfter(y, m)[2]
      BY DEF Calendar!MonthAfter
    <3>2. 1 \in 1..Calendar!MonthLength(z, n)
      BY MonthLengths
    <3> QED
      BY <2>3, <2>6, <3>1, <3>2 DEF CalendarInv
  <2> QED
    BY <2>5, <2>6
<1>3. CalendarInv => Calendar!PeriodsTile
  <2> SUFFICES ASSUME CalendarInv PROVE Calendar!PeriodsTile
    OBVIOUS
  <2>1. PICK y \in Nat, m \in 1..12 : \E d \in 1..Calendar!MonthLength(y, m) : date = <<y, m, d>>
    BY DEF CalendarInv
  <2>2. PICK d \in 1..Calendar!MonthLength(y, m) : date = <<y, m, d>>
    BY <2>1
  <2>3. d \in 1..31 /\ y \in Int /\ m \in Twelve
    BY MonthLengths DEF Twelve
  <2>4. PICK r \in 1..31 : resetDay = r
    BY DEF CalendarInv
  <2> QED
    BY <2>2, <2>3, <2>4, TilesAt
<1> QED
  BY <1>1, <1>2, <1>3, PTL DEF Calendar!Spec

-----------------------------------------------------------------------------
(* Gather.  A turn that has passed the test of a counter and not written it   *)
(* yet stands for one call more than the counter says.                        *)

\* The turns are finitely many, and the organization is not one of their users.
GatherBounds ==
    /\ IsFiniteSet(Loops) /\ \A t \in Loops : AskerOf[t] # House
    /\ Cap \in [Gathering!Counters -> Nat] /\ Calls \in Nat /\ Days \in Nat /\ 1 <= Days

TurnPc ==
    {"idle", "asked", "plan", "tool", "peek", "call", "record", "degrade", "gathered", "over"}
Tools == Gathering!DocumentTools \union Gathering!WebTools \union {"answer"}
Looping ==
    [pc : TurnPc, searcher : {"none", "duckduckgo", "tavily"}, researcher : {"none", "perplexity"},
     consent : BOOLEAN, forced : BOOLEAN, n : Nat, tool : Tools, gate : Nat \ {0}, calls : Nat,
     grounded : BOOLEAN, answered : BOOLEAN, pages : [Addresses -> {"none", "cited", "page"}],
     fetched : SUBSET Addresses]

GatherTyped ==
    /\ today \in 1..Days /\ count \in [Gathering!Counters \X (1..Days) -> Nat]
    /\ gather \in [Loops -> Looping]

\* A turn stays within its budget, and has every page that it fetched.
TurnHolds(r) ==
    /\ r.calls <= Calls /\ (r.pc \in {"peek", "call"} => r.calls < Calls)
    /\ \A u \in r.fetched \ {Base} : r.pages[u] = "page"

\* The turn has passed the counter's test for the call it is about to make or has made, and
\* has not written it.
PassedGate(t, r, c) ==
    \E i \in 1..Len(Gathering!Gates(t)) :
        /\ Gathering!Gates(t)[i] = c
        /\ \/ r.pc = "peek" /\ i < r.gate
           \/ r.pc = "call"
           \/ r.pc = "record" /\ r.gate <= i

Sharing(c) == {t \in Loops : c \in {AskerOf[t], House}}
PassingGate(c) == {t \in Loops : PassedGate(t, gather[t], c)}

CountsHold ==
    \A c \in Gathering!Counters : Cap[c] > 0 =>
        /\ count[<<c, today>>] + Cardinality(PassingGate(c)) < Cap[c] + Cardinality(Sharing(c))
        /\ \A d \in 1..Days : /\ count[<<c, d>>] < Cap[c] + Cardinality(Sharing(c))
                              /\ d > today => count[<<c, d>>] = 0

GatherInv == GatherTyped /\ CountsHold /\ \A t \in Loops : TurnHolds(gather[t])

\* The gates of a turn are different counters with a cap.
LEMMA GatesOf ==
  ASSUME GatherBounds, NEW t \in Loops
  PROVE  /\ Len(Gathering!Gates(t)) \in Nat
         /\ \A i \in 1..Len(Gathering!Gates(t)) :
               /\ Gathering!Gates(t)[i] \in {AskerOf[t], House}
               /\ Gathering!Gates(t)[i] \in Gathering!Counters /\ Cap[Gathering!Gates(t)[i]] > 0
               /\ \A j \in 1..Len(Gathering!Gates(t)) :
                     Gathering!Gates(t)[i] = Gathering!Gates(t)[j] => i = j
<1>1. AskerOf[t] # House /\ AskerOf[t] \in Gathering!Counters /\ House \in Gathering!Counters
  BY DEF GatherBounds, Gathering!Counters
<1>2. Cap[AskerOf[t]] \in Nat /\ Cap[House] \in Nat
  BY <1>1 DEF GatherBounds
<1>3. CASE Cap[AskerOf[t]] > 0 /\ Cap[House] > 0
  <2>1. Len(Gathering!Gates(t)) = 2 /\ Gathering!Gates(t)[1] = AskerOf[t] /\ Gathering!Gates(t)[2] = House
    BY <1>3 DEF Gathering!Gates, Gathering!Capped
  <2> QED
    BY <1>1, <1>2, <1>3, <2>1
<1>4. CASE Cap[AskerOf[t]] > 0 /\ ~(Cap[House] > 0)
  <2>1. Len(Gathering!Gates(t)) = 1 /\ Gathering!Gates(t)[1] = AskerOf[t]
    BY <1>4 DEF Gathering!Gates, Gathering!Capped
  <2> QED
    BY <1>1, <1>2, <1>4, <2>1
<1>5. CASE ~(Cap[AskerOf[t]] > 0) /\ Cap[House] > 0
  <2>1. Len(Gathering!Gates(t)) = 1 /\ Gathering!Gates(t)[1] = House
    BY <1>5 DEF Gathering!Gates, Gathering!Capped
  <2> QED
    BY <1>1, <1>2, <1>5, <2>1
<1>6. CASE ~(Cap[AskerOf[t]] > 0) /\ ~(Cap[House] > 0)
  <2>1. Len(Gathering!Gates(t)) = 0
    BY <1>6 DEF Gathering!Gates, Gathering!Capped
  <2> QED
    BY <1>1, <1>2, <1>6, <2>1
<1> QED
  BY <1>3, <1>4, <1>5, <1>6

\* A counter is passed by turns that share it, and these are finitely many.
LEMMA PassingShare ==
  ASSUME GatherBounds, NEW c
  PROVE  /\ IsFiniteSet(Sharing(c)) /\ Cardinality(Sharing(c)) \in Nat
         /\ PassingGate(c) \subseteq Sharing(c) /\ IsFiniteSet(PassingGate(c))
         /\ Cardinality(PassingGate(c)) \in Nat /\ Cardinality(PassingGate(c)) <= Cardinality(Sharing(c))
<1>1. IsFiniteSet(Loops) /\ Sharing(c) \subseteq Loops
  BY DEF GatherBounds, Sharing
<1>2. IsFiniteSet(Sharing(c))
  BY <1>1, FS_Subset
<1>3. PassingGate(c) \subseteq Sharing(c)
  BY GatesOf DEF PassingGate, PassedGate, Sharing
<1>4. IsFiniteSet(PassingGate(c)) /\ Cardinality(PassingGate(c)) <= Cardinality(Sharing(c))
  BY <1>2, <1>3, FS_Subset
<1> QED
  BY <1>2, <1>3, <1>4, FS_CardinalityType

\* Nobody searches at the start.
LEMMA GatherInit == ASSUME GatherBounds PROVE Gathering!Init => GatherInv
<1> SUFFICES ASSUME Gathering!Init PROVE GatherInv
  OBVIOUS
<1>1. Gathering!Fresh \in Looping /\ Gathering!Fresh.pc = "idle" /\ TurnHolds(Gathering!Fresh)
  BY DEF Gathering!Fresh, Looping, Tools, TurnPc, TurnHolds, GatherBounds
<1>2. GatherTyped
  BY <1>1 DEF Gathering!Init, GatherTyped, GatherBounds
<1>3. \A t \in Loops : gather[t].pc = "idle" /\ TurnHolds(gather[t])
  BY <1>1 DEF Gathering!Init
<1>4. ASSUME NEW c \in Gathering!Counters, Cap[c] > 0
      PROVE  /\ count[<<c, today>>] + Cardinality(PassingGate(c)) < Cap[c] + Cardinality(Sharing(c))
             /\ \A d \in 1..Days : /\ count[<<c, d>>] < Cap[c] + Cardinality(Sharing(c))
                                   /\ d > today => count[<<c, d>>] = 0
  <2>1. PassingGate(c) = {}
    BY <1>3 DEF PassingGate, PassedGate
  <2>2. Cardinality(PassingGate(c)) = 0 /\ Cardinality(Sharing(c)) \in Nat /\ Cap[c] \in Nat
    BY <2>1, PassingShare, FS_EmptySet DEF GatherBounds
  <2>3. \A d \in 1..Days : count[<<c, d>>] = 0
    BY DEF Gathering!Init
  <2>4. today \in 1..Days
    BY <1>2 DEF GatherTyped
  <2> QED
    BY <1>4, <2>2, <2>3, <2>4
<1> QED
  BY <1>2, <1>3, <1>4 DEF GatherInv, CountsHold

\* A step of one turn that passes no test and writes no counter.
LEMMA TurnStep ==
  ASSUME GatherBounds, GatherInv, NEW t \in Loops, NEW r, Gathering!Become(t, r),
         UNCHANGED <<today, count>>, r \in Looping, TurnHolds(r),
         \A c : PassedGate(t, r, c) => PassedGate(t, gather[t], c)
  PROVE  GatherInv'
<1>1. gather' = [gather EXCEPT ![t] = r] /\ gather \in [Loops -> Looping]
  BY DEF Gathering!Become, GatherInv, GatherTyped
<1>2. gather'[t] = r /\ \A u \in Loops \ {t} : gather'[u] = gather[u]
  BY <1>1
<1>3. GatherTyped' /\ \A u \in Loops : TurnHolds(gather'[u])
  BY <1>1, <1>2 DEF GatherInv, GatherTyped
<1>4. ASSUME NEW c \in Gathering!Counters
      PROVE  Cardinality(PassingGate(c)') \in Nat /\ Cardinality(PassingGate(c)') <= Cardinality(PassingGate(c))
  <2>1. PassingGate(c)' \subseteq PassingGate(c)
    BY <1>2 DEF PassingGate
  <2> QED
    BY <2>1, PassingShare, FS_Subset, FS_CardinalityType
<1>5. CountsHold'
  <2> SUFFICES ASSUME NEW c \in Gathering!Counters, Cap[c] > 0
               PROVE  /\ count[<<c, today>>] + Cardinality(PassingGate(c)') < Cap[c] + Cardinality(Sharing(c))
                      /\ \A d \in 1..Days : /\ count[<<c, d>>] < Cap[c] + Cardinality(Sharing(c))
                                            /\ d > today => count[<<c, d>>] = 0
    BY DEF CountsHold, Sharing
  <2>1. count[<<c, today>>] \in Nat /\ Cap[c] \in Nat
    BY DEF GatherInv, GatherTyped, GatherBounds
  <2>2. Cardinality(Sharing(c)) \in Nat /\ Cardinality(PassingGate(c)) \in Nat
    BY PassingShare
  <2> QED
    BY <1>4, <2>1, <2>2 DEF GatherInv, CountsHold
<1> QED
  BY <1>3, <1>5 DEF GatherInv

\* The settings and the day change nothing that a turn has done.
LEMMA AroundNext ==
  ASSUME GatherBounds, GatherInv, Gathering!Configure \/ Gathering!Midnight
  PROVE  GatherInv'
<1>1. CASE Gathering!Configure
  BY <1>1 DEF Gathering!Configure, GatherInv, GatherTyped, CountsHold, PassingGate
<1>2. CASE Gathering!Midnight
  <2>1. today < Days /\ today' = today + 1 /\ UNCHANGED <<count, gather>>
    BY <1>2 DEF Gathering!Midnight
  <2>2. GatherTyped'
    BY <2>1 DEF GatherInv, GatherTyped, GatherBounds
  <2>3. CountsHold'
    <3> SUFFICES ASSUME NEW c \in Gathering!Counters, Cap[c] > 0
                 PROVE  /\ count[<<c, today'>>] + Cardinality(PassingGate(c)) < Cap[c] + Cardinality(Sharing(c))
                        /\ \A d \in 1..Days : /\ count[<<c, d>>] < Cap[c] + Cardinality(Sharing(c))
                                              /\ d > today' => count[<<c, d>>] = 0
      BY <2>1 DEF CountsHold, Sharing, PassingGate
    <3>1. Cardinality(PassingGate(c)) \in Nat /\ Cardinality(PassingGate(c)) <= Cardinality(Sharing(c))
          /\ Cardinality(Sharing(c)) \in Nat /\ Cap[c] \in Nat
      BY PassingShare DEF GatherBounds
    <3>2. today \in 1..Days /\ Days \in Nat
      BY DEF GatherInv, GatherTyped, GatherBounds
    <3>3. today' \in 1..Days /\ today' > today
      BY <2>1, <3>2
    <3>4. count[<<c, today'>>] = 0
      BY <3>3 DEF GatherInv, CountsHold
    <3>5. ASSUME NEW d \in 1..Days
          PROVE  /\ count[<<c, d>>] < Cap[c] + Cardinality(Sharing(c))
                 /\ d > today' => count[<<c, d>>] = 0
      <4>1. d > today' => d > today
        BY <2>1, <3>2
      <4>2. count[<<c, d>>] < Cap[c] + Cardinality(Sharing(c))
            /\ (d > today => count[<<c, d>>] = 0)
        BY DEF GatherInv, CountsHold
      <4> QED
        BY <4>1, <4>2
    <3>6. count[<<c, today'>>] + Cardinality(PassingGate(c)) < Cap[c] + Cardinality(Sharing(c))
      BY <3>1, <3>4
    <3> QED
      BY <3>5, <3>6
  <2> QED
    BY <2>1, <2>2, <2>3 DEF GatherInv
<1> QED
  BY <1>1, <1>2

\* What a turn does before and after its calls.
LEMMA PlanNext ==
  ASSUME GatherBounds, GatherInv, NEW t \in Loops,
         \/ Gathering!Ask(t) \/ Gathering!Begin(t) \/ Gathering!Plan(t)
         \/ Gathering!ReadDocuments(t) \/ Gathering!Gate(t)
         \/ Gathering!ProviderRaises(t) \/ Gathering!Degrade(t) \/ Gathering!End(t)
  PROVE  GatherInv'
<1>1. gather[t] \in Looping /\ TurnHolds(gather[t])
  BY DEF GatherInv, GatherTyped
<1>2. Gathering!Fresh \in Looping /\ TurnHolds(Gathering!Fresh)
  BY DEF Gathering!Fresh, Looping, Tools, TurnPc, TurnHolds, GatherBounds
<1>3. UNCHANGED <<today, count>>
  BY DEF Gathering!Private, Gathering!Ask, Gathering!Begin, Gathering!Plan, Gathering!ReadDocuments,
     Gathering!Gate, Gathering!ProviderRaises, Gathering!Degrade, Gathering!End
<1>4. \A r : r.pc \notin {"peek", "call", "record"} \/ (r.pc = "peek" /\ r.gate = 1)
             => \A c : ~PassedGate(t, r, c)
  BY GatesOf DEF PassedGate
<1>5. ASSUME NEW r \in Looping, TurnHolds(r), Gathering!Become(t, r),
             r.pc \notin {"peek", "call", "record"} \/ (r.pc = "peek" /\ r.gate = 1)
      PROVE  GatherInv'
  BY <1>3, <1>4, <1>5, TurnStep
<1>6. CASE Gathering!Ask(t)
  <2>1. PICK consent, allowed \in BOOLEAN :
          Gathering!Become(t, [Gathering!Fresh EXCEPT
            !.pc = "asked", !.consent = consent,
            !.searcher = IF allowed THEN Gathering!SearcherOf(providers) ELSE "none"])
    BY <1>6 DEF Gathering!Ask
  <2>2. PICK searcher : searcher = IF allowed THEN Gathering!SearcherOf(providers) ELSE "none"
    OBVIOUS
  <2>3. searcher \in {"none", "duckduckgo", "tavily"}
    BY <2>2 DEF Gathering!SearcherOf
  <2>4. PICK r : r = [Gathering!Fresh EXCEPT !.pc = "asked", !.consent = consent,
                                             !.searcher = searcher]
    OBVIOUS
  <2>5. Gathering!Become(t, r)
    BY <2>1, <2>2, <2>4
  <2>6. "asked" \in TurnPc
    BY DEF TurnPc
  <2>7. r \in Looping /\ r.pc = "asked" /\ r.fetched = Gathering!Fresh.fetched
        /\ r.pages = Gathering!Fresh.pages /\ r.calls = Gathering!Fresh.calls
    BY <1>2, <2>3, <2>4, <2>6 DEF Looping
  <2>8. TurnHolds(r)
    BY <1>2, <2>7 DEF TurnHolds
  <2> QED
    BY <1>5, <2>5, <2>7, <2>8
<1>7. CASE Gathering!Begin(t)
  <2>1. PICK r :
          /\ Gathering!Become(t, r)
          /\ r = [gather[t] EXCEPT
                    !.pc = "plan", !.forced = gather[t].consent /\ gather[t].searcher # "none",
                    !.researcher = IF gather[t].searcher = "none" THEN "none"
                                   ELSE Gathering!ResearcherOf(providers)]
    BY <1>7 DEF Gathering!Begin
  <2>2. r \in Looping /\ r.pc = "plan" /\ TurnHolds(r)
    BY <1>1, <2>1 DEF Gathering!ResearcherOf, Looping, TurnPc, TurnHolds
  <2> QED
    BY <1>5, <2>1, <2>2
<1>8. CASE Gathering!Plan(t)
  <2>1. PICK tool : Gathering!Step(t, tool) /\ tool \in Tools
    BY <1>8 DEF Gathering!Plan, Gathering!FirstTool, Gathering!Parsed, Tools, Gathering!DocumentTools,
       Gathering!WebTools
  <2>2. PICK r :
          /\ Gathering!Become(t, r)
          /\ \/ r = [gather[t] EXCEPT !.pc = "gathered", !.tool = tool]
             \/ r = [gather[t] EXCEPT !.pc = "tool", !.n = gather[t].n + 1, !.tool = tool]
    BY <2>1 DEF Gathering!Step
  <2>3. CASE r = [gather[t] EXCEPT !.pc = "gathered", !.tool = tool]
    <3>1. r \in Looping /\ r.pc = "gathered" /\ TurnHolds(r)
      BY <1>1, <2>1, <2>3 DEF Looping, TurnPc, TurnHolds
    <3> QED
      BY <1>5, <2>2, <3>1
  <2>4. CASE r = [gather[t] EXCEPT !.pc = "tool", !.n = gather[t].n + 1, !.tool = tool]
    <3>1. PICK n \in Nat : n = gather[t].n + 1
      BY <1>1 DEF Looping
    <3>2. r \in Looping /\ r.pc = "tool" /\ TurnHolds(r)
      BY <1>1, <2>1, <2>4, <3>1 DEF Looping, TurnPc, TurnHolds
    <3> QED
      BY <1>5, <2>2, <3>2
  <2> QED
    BY <2>2, <2>3, <2>4
<1>9. ASSUME NEW pc \in {"gathered", "plan", "degrade"}, NEW grounded \in BOOLEAN,
             Gathering!Become(t, [gather[t] EXCEPT !.pc = pc,
                                                   !.grounded = gather[t].grounded \/ grounded])
      PROVE  GatherInv'
  <2>1. PICK r : r = [gather[t] EXCEPT !.pc = pc, !.grounded = gather[t].grounded \/ grounded]
    OBVIOUS
  <2>2. gather[t].grounded \/ grounded \in BOOLEAN
    OBVIOUS
  <2>3. r \in Looping /\ r.pc = pc /\ TurnHolds(r)
    BY <1>1, <2>1, <2>2 DEF Looping, TurnPc, TurnHolds
  <2> QED
    BY <1>5, <1>9, <2>1, <2>3
<1>10. ASSUME Gathering!Become(t, [gather[t] EXCEPT !.pc = "degrade"]) PROVE GatherInv'
  <2>1. PICK r : r = [gather[t] EXCEPT !.pc = "degrade"]
    OBVIOUS
  <2>2. r \in Looping /\ r.pc = "degrade" /\ TurnHolds(r)
    BY <1>1, <2>1 DEF Looping, TurnPc, TurnHolds
  <2> QED
    BY <1>5, <1>10, <2>1, <2>2
<1>11. CASE Gathering!ReadDocuments(t)
  <2>1. PICK pc : pc = Gathering!After(gather[t])
    OBVIOUS
  <2>2. pc \in {"gathered", "plan", "degrade"}
    BY <2>1 DEF Gathering!After
  <2>3. CASE \E grounded \in BOOLEAN :
               Gathering!Become(t, [gather[t] EXCEPT !.pc = pc,
                                                     !.grounded = gather[t].grounded \/ grounded])
    BY <1>9, <2>2, <2>3
  <2>4. CASE Gathering!Become(t, [gather[t] EXCEPT !.pc = "degrade"])
    BY <1>10, <2>4
  <2> QED
    BY <1>11, <2>1, <2>3, <2>4 DEF Gathering!ReadDocuments
<1>12. CASE Gathering!ProviderRaises(t) \/ Gathering!Degrade(t)
  <2>1. CASE Gathering!ProviderRaises(t)
    BY <1>10, <2>1 DEF Gathering!ProviderRaises
  <2>2. CASE Gathering!Degrade(t)
    <3>1. PICK grounded \in BOOLEAN :
            Gathering!Become(t, [gather[t] EXCEPT !.pc = "gathered",
                                                  !.grounded = gather[t].grounded \/ grounded])
      BY <2>2 DEF Gathering!Degrade
    <3> QED
      BY <1>9, <3>1
  <2> QED
    BY <1>12, <2>1, <2>2
<1>13. CASE Gathering!Gate(t)
  <2>1. PICK pc : pc = IF Gathering!Allowed(gather[t]) THEN "peek" ELSE "degrade"
    OBVIOUS
  <2>2. PICK first \in Nat \ {0} : first = 1
    OBVIOUS
  <2>3. PICK r : r = [gather[t] EXCEPT !.pc = pc, !.gate = first]
    OBVIOUS
  <2>4. pc \in {"peek", "degrade"}
    BY <2>1
  <2>5. Gathering!Become(t, r)
    <3>1. Gathering!Become(t, [gather[t] EXCEPT
              !.pc = IF Gathering!Allowed(gather[t]) THEN "peek" ELSE "degrade", !.gate = 1])
      BY <1>13 DEF Gathering!Gate
    <3> QED
      BY <2>1, <2>2, <2>3, <3>1
  <2>6. r \in Looping /\ r.pc = pc /\ r.gate = first /\ r.calls = gather[t].calls
        /\ r.fetched = gather[t].fetched /\ r.pages = gather[t].pages
    BY <1>1, <2>3, <2>4 DEF Looping, TurnPc
  <2>7. pc = "peek" => gather[t].calls < Calls
    BY <2>1 DEF Gathering!Allowed
  <2>8. TurnHolds(r)
    BY <1>1, <2>4, <2>6, <2>7 DEF TurnHolds
  <2> QED
    BY <1>5, <2>2, <2>4, <2>5, <2>6, <2>8
<1>14. CASE Gathering!End(t)
  <2>1. PICK r : Gathering!Become(t, r) /\ r = [Gathering!Fresh EXCEPT !.pc = "over"]
    BY <1>14 DEF Gathering!End
  <2>2. r \in Looping /\ r.pc = "over" /\ TurnHolds(r)
    BY <1>2, <2>1 DEF Looping, TurnPc, TurnHolds
  <2> QED
    BY <1>5, <2>1, <2>2
<1> QED
  BY <1>6, <1>7, <1>8, <1>11, <1>12, <1>13, <1>14

\* A turn whose call was answered has made one more.
LEMMA AnsweredTurn ==
  ASSUME NEW g \in Looping
  PROVE  /\ Gathering!Answered(g) \in Looping /\ Gathering!Answered(g).pc = "record"
         /\ Gathering!Answered(g).fetched = g.fetched /\ Gathering!Answered(g).calls = g.calls + 1
<1>1. PICK n \in Nat, first \in Nat \ {0} : n = g.calls + 1 /\ first = 1
  BY DEF Looping
<1>2. Gathering!Answered(g) = [g EXCEPT !.pc = "record", !.gate = first, !.calls = n]
  BY <1>1 DEF Gathering!Answered
<1>3. "record" \in TurnPc
  BY DEF TurnPc
<1>4. PICK r : r = [g EXCEPT !.pc = "record", !.gate = first, !.calls = n]
  OBVIOUS
<1>5. r \in Looping
  BY <1>1, <1>3, <1>4 DEF Looping
<1>6. r.pc = "record" /\ r.fetched = g.fetched /\ r.calls = n
  BY <1>4 DEF Looping
<1> QED
  BY <1>1, <1>2, <1>4, <1>5, <1>6

\* A call, which the tests have let through: a page that a search brings is kept, and a
\* bibliography hides none.
LEMMA WebCallNext ==
  ASSUME GatherBounds, GatherInv, NEW t \in Loops,
         Gathering!Redact(t) \/ Gathering!Search(t) \/ Gathering!Research(t)
  PROVE  GatherInv'
<1>1. gather[t] \in Looping /\ TurnHolds(gather[t])
  BY DEF GatherInv, GatherTyped
<1>2. UNCHANGED <<today, count>>
  BY DEF Gathering!Private, Gathering!Redact, Gathering!Search, Gathering!Research
<1>3. CASE Gathering!Redact(t)
  <2>0. PICK pc \in {"call", "degrade"} : Gathering!Become(t, [gather[t] EXCEPT !.pc = pc])
    BY <1>3 DEF Gathering!Redact
  <2>1. PICK r : Gathering!Become(t, r) /\ r = [gather[t] EXCEPT !.pc = pc]
    BY <2>0
  <2>2. gather[t].pc = "peek" /\ gather[t].gate > Len(Gathering!Gates(t))
    BY <1>3 DEF Gathering!Redact, Gathering!At
  <2>3. r \in Looping /\ r.pc = pc /\ TurnHolds(r)
    BY <1>1, <2>1, <2>2 DEF Looping, TurnPc, TurnHolds
  <2>4. gather[t].gate \in Nat
    BY <1>1 DEF Looping
  <2>5. \A c : PassedGate(t, r, c) => PassedGate(t, gather[t], c)
    BY <2>2, <2>3, <2>4, GatesOf DEF PassedGate
  <2> QED
    BY <1>2, <2>1, <2>3, <2>5, TurnStep
<1>4. ASSUME NEW r \in Looping, Gathering!Become(t, r), r.pc = "record", TurnHolds(r),
             gather[t].pc = "call"
      PROVE  GatherInv'
  <2>1. \A c : PassedGate(t, r, c) => PassedGate(t, gather[t], c)
    BY <1>4 DEF PassedGate
  <2> QED
    BY <1>2, <1>4, <2>1, TurnStep
<1>5. CASE Gathering!Search(t)
  <2>0. PICK urls \in SUBSET Addresses :
          Gathering!Become(t, [Gathering!Answered(gather[t]) EXCEPT
                     !.grounded = Gathering!Answered(gather[t]).grounded \/ urls # {},
                     !.pages = Gathering!Joined(gather[t], "page", urls),
                     !.fetched = Gathering!Answered(gather[t]).fetched \union urls])
    BY <1>5 DEF Gathering!Search
  <2>1. PICK r :
          /\ Gathering!Become(t, r)
          /\ r = [Gathering!Answered(gather[t]) EXCEPT
                     !.grounded = Gathering!Answered(gather[t]).grounded \/ urls # {},
                     !.pages = Gathering!Joined(gather[t], "page", urls),
                     !.fetched = Gathering!Answered(gather[t]).fetched \union urls]
    BY <2>0
  <2>2. gather[t].pc = "call"
    BY <1>5 DEF Gathering!Search, Gathering!At
  <2>3. Gathering!Answered(gather[t]) \in Looping /\ Gathering!Answered(gather[t]).pc = "record"
        /\ Gathering!Answered(gather[t]).fetched = gather[t].fetched
        /\ Gathering!Answered(gather[t]).calls = gather[t].calls + 1
    BY <1>1, AnsweredTurn
  <2>4. Gathering!Joined(gather[t], "page", urls) \in [Addresses -> {"none", "cited", "page"}]
        /\ \A u \in (gather[t].fetched \union urls) \ {Base} :
               Gathering!Joined(gather[t], "page", urls)[u] = "page"
    BY <1>1 DEF Gathering!Joined, Looping, TurnHolds
  <2>5. r \in Looping /\ r.pc = "record" /\ r.calls = gather[t].calls + 1
        /\ r.fetched = gather[t].fetched \union urls
        /\ r.pages = Gathering!Joined(gather[t], "page", urls)
    BY <1>1, <2>1, <2>3, <2>4 DEF Looping
  <2>6. TurnHolds(r)
    BY <1>1, <2>2, <2>4, <2>5 DEF TurnHolds, Looping, GatherBounds
  <2> QED
    BY <1>4, <2>1, <2>2, <2>5, <2>6
<1>6. CASE Gathering!Research(t)
  <2>0. PICK urls \in SUBSET Addresses :
          Gathering!Become(t, [Gathering!Answered(gather[t]) EXCEPT
              !.grounded = TRUE, !.answered = TRUE,
              !.pages = Gathering!Joined([gather[t] EXCEPT !.answered = TRUE], "cited", urls)])
    BY <1>6 DEF Gathering!Research
  <2>1. PICK pages : pages = Gathering!Joined([gather[t] EXCEPT !.answered = TRUE], "cited", urls)
    OBVIOUS
  <2>7. PICK r :
          /\ Gathering!Become(t, r)
          /\ r = [Gathering!Answered(gather[t]) EXCEPT !.grounded = TRUE, !.answered = TRUE,
                                                       !.pages = pages]
    BY <2>0, <2>1
  <2>2. gather[t].pc = "call"
    BY <1>6 DEF Gathering!Research, Gathering!At
  <2>3. Gathering!Answered(gather[t]) \in Looping /\ Gathering!Answered(gather[t]).pc = "record"
        /\ Gathering!Answered(gather[t]).fetched = gather[t].fetched
        /\ Gathering!Answered(gather[t]).calls = gather[t].calls + 1
    BY <1>1, AnsweredTurn
  <2>4. pages \in [Addresses -> {"none", "cited", "page"}]
        /\ \A u \in gather[t].fetched \ {Base} : pages[u] = "page"
    BY <1>1, <2>1 DEF Gathering!Joined, Looping, TurnHolds
  <2>5. r \in Looping /\ r.pc = "record" /\ r.calls = gather[t].calls + 1
        /\ r.fetched = gather[t].fetched /\ r.pages = pages
    BY <1>1, <2>3, <2>4, <2>7 DEF Looping
  <2>6. TurnHolds(r)
    BY <1>1, <2>2, <2>4, <2>5 DEF TurnHolds, Looping, GatherBounds
  <2> QED
    BY <1>4, <2>2, <2>5, <2>6, <2>7
<1> QED
  BY <1>3, <1>5, <1>6

\* A turn passes the test of a counter, and writes one: the sum over both stays below the
\* cap and the number of turns that share the counter.
LEMMA CounterNext ==
  ASSUME GatherBounds, GatherInv, NEW t \in Loops, Gathering!Peek(t) \/ Gathering!Record(t)
  PROVE  GatherInv'
<1>1. gather[t] \in Looping /\ TurnHolds(gather[t]) /\ gather \in [Loops -> Looping]
  BY DEF GatherInv, GatherTyped
<1>2. PICK m \in Nat \ {0} : m = gather[t].gate
  BY <1>1 DEF Looping
<1>3. PICK next \in Nat \ {0} : next = m + 1
  OBVIOUS
<1>4. PICK r : r = [gather[t] EXCEPT !.gate = next]
  OBVIOUS
<1>5. r \in Looping /\ r.pc = gather[t].pc /\ r.gate = next /\ TurnHolds(r)
  BY <1>1, <1>4 DEF Looping, TurnHolds
<1>6. ASSUME NEW q \in Looping, TurnHolds(q), q.pc \notin {"peek", "call", "record"},
             Gathering!Become(t, q), UNCHANGED <<today, count>>
      PROVE  GatherInv'
  <2>1. \A c : ~PassedGate(t, q, c)
    BY <1>6 DEF PassedGate
  <2> QED
    BY <1>6, <2>1, TurnStep
<1>7. ASSUME Gathering!Become(t, r)
      PROVE  gather' = [gather EXCEPT ![t] = r] /\ gather'[t] = r
             /\ (\A u \in Loops \ {t} : gather'[u] = gather[u])
             /\ gather' \in [Loops -> Looping] /\ \A u \in Loops : TurnHolds(gather'[u])
  BY <1>1, <1>5, <1>7 DEF Gathering!Become, GatherInv
<1>8. CASE Gathering!Peek(t)
  <2>1. gather[t].pc = "peek" /\ m \in 1..Len(Gathering!Gates(t)) /\ UNCHANGED <<today, count>>
    BY <1>2, <1>8, GatesOf DEF Gathering!Peek, Gathering!At, Gathering!Private
  <2>2. PICK g : g = Gathering!Gates(t)[m]
    OBVIOUS
  <2>3. CASE ~Gathering!BelowCap(g)
    <3>1. PICK q : q = [gather[t] EXCEPT !.pc = "degrade"]
      OBVIOUS
    <3>2. q \in Looping /\ q.pc = "degrade" /\ TurnHolds(q)
      BY <1>1, <3>1 DEF Looping, TurnPc, TurnHolds
    <3>3. Gathering!Become(t, q)
      BY <1>2, <1>8, <2>2, <2>3, <3>1 DEF Gathering!Peek
    <3> QED
      BY <1>6, <2>1, <3>2, <3>3
  <2>4. CASE Gathering!BelowCap(g)
    <3>1. Gathering!Become(t, r)
      BY <1>2, <1>3, <1>4, <1>8, <2>2, <2>4 DEF Gathering!Peek
    <3>2. g \in Gathering!Counters /\ g \in {AskerOf[t], House} /\ Cap[g] > 0
      BY <2>1, <2>2, GatesOf
    <3>3. \A c : PassedGate(t, r, c) => c = g \/ PassedGate(t, gather[t], c)
      BY <1>2, <1>3, <1>5, <2>1, <2>2, GatesOf DEF PassedGate
    <3>4. \A c : c # g => PassingGate(c)' \subseteq PassingGate(c)
      BY <1>7, <3>1, <3>3 DEF PassingGate
    <3>5. ASSUME NEW c \in Gathering!Counters, Cap[c] > 0
          PROVE  count[<<c, today>>] + Cardinality(PassingGate(c)') < Cap[c] + Cardinality(Sharing(c))
      <4>1. Cardinality(Sharing(c)) \in Nat /\ Cardinality(PassingGate(c)) \in Nat /\ IsFiniteSet(Sharing(c))
            /\ IsFiniteSet(PassingGate(c)) /\ Cap[c] \in Nat /\ count[<<c, today>>] \in Nat
        BY PassingShare DEF GatherBounds, GatherInv, GatherTyped
      <4>2. CASE c # g
        <5>1. Cardinality(PassingGate(c)') \in Nat /\ Cardinality(PassingGate(c)') <= Cardinality(PassingGate(c))
          BY <3>4, <4>1, <4>2, FS_Subset, FS_CardinalityType
        <5> QED
          BY <3>5, <4>1, <5>1 DEF GatherInv, CountsHold
      <4>3. CASE c = g
        <5>1. PassingGate(c)' \subseteq Sharing(c)
          BY <1>7, <3>1, <3>3, <3>2, <4>3, GatesOf DEF PassingGate, PassedGate, Sharing
        <5>2. Cardinality(PassingGate(c)') \in Nat /\ Cardinality(PassingGate(c)') <= Cardinality(Sharing(c))
          BY <4>1, <5>1, FS_Subset, FS_CardinalityType
        <5>3. count[<<c, today>>] < Cap[c]
          BY <2>4, <4>3 DEF Gathering!BelowCap
        <5> QED
          BY <4>1, <5>2, <5>3
      <4> QED
        BY <4>2, <4>3
    <3>6. CountsHold'
      BY <2>1, <3>5 DEF GatherInv, CountsHold, Sharing
    <3> QED
      BY <1>7, <2>1, <3>1, <3>6 DEF GatherInv, GatherTyped
  <2> QED
    BY <2>3, <2>4
<1>9. CASE Gathering!Record(t)
  <2>1. gather[t].pc = "record" /\ today' = today
    BY <1>9 DEF Gathering!Record, Gathering!At
  <2>2. CASE ~(m <= Len(Gathering!Gates(t)))
    <3>1. PICK pc \in {"gathered", "plan"} : pc = Gathering!After(gather[t])
      BY DEF Gathering!After
    <3>2. PICK first \in Nat \ {0} : first = 1
      OBVIOUS
    <3>3. PICK q : q = [gather[t] EXCEPT !.pc = pc, !.gate = first]
      OBVIOUS
    <3>4. q \in Looping /\ q.pc = pc /\ TurnHolds(q)
      BY <1>1, <3>3 DEF Looping, TurnPc, TurnHolds
    <3>5. Gathering!Become(t, q) /\ count' = count
      BY <1>2, <1>9, <2>2, <3>1, <3>2, <3>3 DEF Gathering!Record
    <3> QED
      BY <1>6, <2>1, <3>4, <3>5
  <2>3. CASE m <= Len(Gathering!Gates(t))
    <3>1. m \in 1..Len(Gathering!Gates(t))
      BY <2>3, GatesOf
    <3>2. PICK g : g = Gathering!Gates(t)[m]
      OBVIOUS
    <3>3. Gathering!Become(t, r) /\ count' = [count EXCEPT ![<<g, today>>] = count[<<g, today>>] + 1]
      BY <1>2, <1>3, <1>4, <1>9, <2>3, <3>2 DEF Gathering!Record
    <3>4. g \in Gathering!Counters /\ Cap[g] > 0
      BY <3>1, <3>2, GatesOf
    <3>5. PassedGate(t, gather[t], g) /\ ~PassedGate(t, r, g)
      BY <1>2, <1>3, <1>5, <2>1, <3>1, <3>2, GatesOf DEF PassedGate
    <3>6. \A c : PassedGate(t, r, c) => PassedGate(t, gather[t], c)
      BY <1>2, <1>3, <1>5, <2>1, GatesOf DEF PassedGate
    <3>7. \A c : PassingGate(c)' \subseteq PassingGate(c)
      BY <1>7, <3>3, <3>6 DEF PassingGate
    <3>8. t \in PassingGate(g) /\ t \notin PassingGate(g)'
      BY <1>7, <3>3, <3>5 DEF PassingGate
    <3>9. today \in 1..Days /\ count \in [Gathering!Counters \X (1..Days) -> Nat]
      BY DEF GatherInv, GatherTyped
    <3>10. count' \in [Gathering!Counters \X (1..Days) -> Nat]
           /\ \A c \in Gathering!Counters, d \in 1..Days :
                 count'[<<c, d>>] = IF c = g /\ d = today THEN count[<<c, d>>] + 1 ELSE count[<<c, d>>]
      BY <3>3, <3>4, <3>9
    <3>11. ASSUME NEW c \in Gathering!Counters, Cap[c] > 0
           PROVE  /\ count'[<<c, today>>] + Cardinality(PassingGate(c)') < Cap[c] + Cardinality(Sharing(c))
                  /\ count'[<<c, today>>] < Cap[c] + Cardinality(Sharing(c))
      <4>1. Cardinality(Sharing(c)) \in Nat /\ Cardinality(PassingGate(c)) \in Nat
            /\ IsFiniteSet(PassingGate(c)) /\ Cap[c] \in Nat /\ count[<<c, today>>] \in Nat
        BY <3>9, PassingShare DEF GatherBounds
      <4>2. count[<<c, today>>] + Cardinality(PassingGate(c)) < Cap[c] + Cardinality(Sharing(c))
        BY <3>11 DEF GatherInv, CountsHold
      <4>3. IsFiniteSet(PassingGate(c)') /\ Cardinality(PassingGate(c)') \in Nat
            /\ Cardinality(PassingGate(c)') <= Cardinality(PassingGate(c))
        BY <3>7, <4>1, FS_Subset, FS_CardinalityType
      <4>4. CASE c = g
        <5>1. PassingGate(c)' \subseteq PassingGate(c) \ {t}
          BY <3>7, <3>8, <4>4
        <5>2. IsFiniteSet(PassingGate(c) \ {t}) /\ Cardinality(PassingGate(c) \ {t}) = Cardinality(PassingGate(c)) - 1
          BY <3>8, <4>1, <4>4, FS_RemoveElement
        <5>3. Cardinality(PassingGate(c)') <= Cardinality(PassingGate(c)) - 1
          BY <5>1, <5>2, FS_Subset
        <5>4. count'[<<c, today>>] = count[<<c, today>>] + 1
          BY <3>9, <3>10, <4>4
        <5> QED
          BY <4>1, <4>2, <4>3, <5>3, <5>4
      <4>5. CASE c # g
        <5>1. count'[<<c, today>>] = count[<<c, today>>]
          BY <3>9, <3>10, <4>5
        <5> QED
          BY <4>1, <4>2, <4>3, <5>1
      <4> QED
        BY <4>4, <4>5
    <3>12. ASSUME NEW c \in Gathering!Counters, Cap[c] > 0, NEW d \in 1..Days
           PROVE  /\ count'[<<c, d>>] < Cap[c] + Cardinality(Sharing(c))
                  /\ d > today => count'[<<c, d>>] = 0
      <4>1. CASE d = today
        BY <3>9, <3>11, <3>12, <4>1
      <4>2. CASE d # today
        <5>1. count'[<<c, d>>] = count[<<c, d>>]
          BY <3>10, <4>2
        <5> QED
          BY <3>12, <5>1 DEF GatherInv, CountsHold
      <4> QED
        BY <4>1, <4>2
    <3>13. CountsHold'
      BY <2>1, <3>11, <3>12 DEF CountsHold, Sharing
    <3> QED
      BY <1>7, <2>1, <3>3, <3>9, <3>10, <3>13 DEF GatherInv, GatherTyped
  <2> QED
    BY <2>2, <2>3
<1> QED
  BY <1>8, <1>9

\* Every step keeps the invariant.
LEMMA GatherNext == GatherBounds /\ GatherInv /\ [Gathering!Next]_(Gathering!vars) => GatherInv'
<1> SUFFICES ASSUME GatherBounds, GatherInv, [Gathering!Next]_(Gathering!vars) PROVE GatherInv'
  OBVIOUS
<1>1. CASE UNCHANGED Gathering!vars
  BY <1>1 DEF Gathering!vars, GatherInv, GatherTyped, CountsHold, PassingGate
<1>2. CASE Gathering!Next
  BY <1>2, AroundNext, PlanNext, WebCallNext, CounterNext DEF Gathering!Next, Gathering!Turn
<1> QED
  BY <1>1, <1>2

\* Both properties are read off the invariant.
LEMMA GatherHolds ==
  ASSUME GatherBounds
  PROVE  GatherInv => Gathering!CapsHold /\ Gathering!PagesAreKept
<1>1. ASSUME NEW c \in Gathering!Counters
      PROVE  Gathering!Cardinality({t \in Loops : c \in {AskerOf[t], House}}) = Cardinality(Sharing(c))
  BY DEF Sharing, Cardinality, Gathering!Cardinality
<1>2. GatherInv => Gathering!CapsHold
  BY <1>1 DEF GatherInv, CountsHold, TurnHolds, Gathering!CapsHold
<1>3. GatherInv => Gathering!PagesAreKept
  BY DEF GatherInv, TurnHolds, Gathering!PagesAreKept
<1> QED
  BY <1>2, <1>3

\* The daily caps survive the race between the test and the writing of a counter: turns
\* that overlap take it over by one each, the first excepted; and a turn never calls a
\* provider more often than its budget, for any caps, users and turns: peek_daily_cap,
\* record_daily_usage, run_agent_gather.
THEOREM CapsHoldAlways == ASSUME GatherBounds PROVE Gathering!Spec => []Gathering!CapsHold
<1>1. GatherInv /\ [Gathering!Next]_(Gathering!vars) => GatherInv'
  BY GatherNext
<1> QED
  BY GatherInit, GatherHolds, <1>1, PTL DEF Gathering!Spec

\* A page that a search brought back is among the results of the turn, whatever order of
\* searches and syntheses they came in: run_agent_gather.
THEOREM PagesAreKeptAlways == ASSUME GatherBounds PROVE Gathering!Spec => []Gathering!PagesAreKept
<1>1. GatherInv /\ [Gathering!Next]_(Gathering!vars) => GatherInv'
  BY GatherNext
<1> QED
  BY GatherInit, GatherHolds, <1>1, PTL DEF Gathering!Spec

-----------------------------------------------------------------------------
(* Attachments.  Points of an attachment have its row, or the sweep that     *)
(* cleared the row is still under way, or they are known to dangle.           *)

AttachmentRow ==
    [status : {"absent", "queued", "processing", "ready", "failed"},
     text : {"none", "blank", "some"}, routed : {"none", "inline", "retrieval"}]

AttachmentTyped ==
    /\ attachment \in [Attached -> AttachmentRow] /\ old \subseteq Attached
    /\ chunks \subseteq Attached /\ dangling \subseteq Attached
    /\ extracting \in Attached \union {Attaching!Nobody}
    /\ send \in [pc : {"none", "embed"}, file : Attached \union {Attaching!Nobody}]
    /\ sweep \in [pc : {"rest", "rows"}, listed : SUBSET old, cleared : SUBSET Attached]
    /\ sweep.cleared \subseteq sweep.listed

\* A file that is being embedded has the row that was routed, or one that never comes back.
Embedding ==
    send.pc = "embed" =>
        /\ send.file \in Attached
        /\ IF Attaching!Exists(send.file) THEN attachment[send.file].routed = "retrieval"
           ELSE send.file \in old

\* Whose points a search may bring up without their row among those it reads.
Accounted ==
    \A a \in chunks : \/ attachment[a].routed = "retrieval" \/ a \in dangling
                      \/ sweep.pc = "rows" /\ a \in sweep.cleared

AttachmentInv == AttachmentTyped /\ Embedding /\ Accounted

\* Nothing is attached at the start.
LEMMA AttachmentInit == Attaching!Init => AttachmentInv
<1> SUFFICES ASSUME Attaching!Init PROVE AttachmentInv
  OBVIOUS
<1>1. Attaching!Absent \in AttachmentRow
  BY DEF Attaching!Absent, AttachmentRow
<1> QED
  BY <1>1 DEF Attaching!Init, Attaching!Rest, Attaching!NoSend, AttachmentInv, AttachmentTyped,
     Embedding, Accounted

\* A step that sets one row, as the routing of it allows, and adds no points.
LEMMA AttachmentRowSet ==
  ASSUME AttachmentInv, NEW a \in Attached, NEW r \in AttachmentRow,
         attachment' = [attachment EXCEPT ![a] = r],
         r.routed = attachment[a].routed, r # Attaching!Absent,
         Attaching!Exists(a) \/ a \notin old,
         UNCHANGED <<old, chunks, send, sweep, dangling>>,
         extracting' \in Attached \union {Attaching!Nobody}
  PROVE  AttachmentInv'
<1>1. attachment' \in [Attached -> AttachmentRow]
  BY DEF AttachmentInv, AttachmentTyped
<1>2. \A b \in Attached : attachment'[b].routed = attachment[b].routed
  BY DEF AttachmentInv, AttachmentTyped
<1>3. \A b \in Attached \ {a} : attachment'[b] = attachment[b]
  BY DEF AttachmentInv, AttachmentTyped
<1>4. attachment'[a] = r
  BY DEF AttachmentInv, AttachmentTyped
<1>5. AttachmentTyped'
  BY <1>1 DEF AttachmentInv, AttachmentTyped
<1>6. Embedding'
  BY <1>2, <1>3, <1>4 DEF AttachmentInv, Embedding, Attaching!Exists, Attaching!Absent
<1>7. Accounted'
  BY <1>2 DEF AttachmentInv, AttachmentTyped, Accounted
<1> QED
  BY <1>5, <1>6, <1>7 DEF AttachmentInv

\* Upload, and the worker's steps: what a row is routed to stays.
LEMMA WorkerRowNext ==
  ASSUME AttachmentInv,
         \/ \E a \in Attached : Attaching!Upload(a) \/ Attaching!Fetch(a)
         \/ Attaching!Extract \/ Attaching!WorkerDies
  PROVE  AttachmentInv'
<1>1. ASSUME NEW a \in Attached, Attaching!Upload(a) PROVE AttachmentInv'
  <2> DEFINE r == [Attaching!Absent EXCEPT !.status = "queued"]
  <2>1. r \in AttachmentRow /\ r.routed = "none" /\ r # Attaching!Absent
    BY DEF AttachmentRow, Attaching!Absent
  <2>2. attachment[a] = Attaching!Absent /\ a \notin old /\ attachment[a].routed = "none"
    BY <1>1 DEF Attaching!Upload, Attaching!New, Attaching!Exists, Attaching!Absent
  <2>3. UNCHANGED <<old, chunks, send, sweep, dangling, extracting>>
        /\ (attachment' = attachment \/ attachment' = [attachment EXCEPT ![a] = r])
    BY <1>1 DEF Attaching!Upload
  <2> HIDE DEF r
  <2>4. CASE attachment' = attachment
    BY <2>3, <2>4 DEF AttachmentInv, AttachmentTyped, Embedding, Accounted, Attaching!Exists
  <2>5. CASE attachment' = [attachment EXCEPT ![a] = r]
    BY <2>1, <2>2, <2>3, <2>5, AttachmentRowSet DEF AttachmentInv, AttachmentTyped
  <2> QED
    BY <2>3, <2>4, <2>5
<1>2. ASSUME NEW a \in Attached, NEW r \in AttachmentRow, Attaching!Set(a, r),
             r.routed = attachment[a].routed, r.status # "absent",
             UNCHANGED <<old, chunks, send, sweep, dangling>>,
             extracting' \in Attached \union {Attaching!Nobody}
      PROVE  AttachmentInv'
  <2>1. r # Attaching!Absent
    BY <1>2 DEF Attaching!Absent
  <2>2. CASE Attaching!Exists(a)
    BY <1>2, <2>1, <2>2, AttachmentRowSet DEF Attaching!Set
  <2>3. CASE ~Attaching!Exists(a)
    BY <1>2, <2>3 DEF Attaching!Set, AttachmentInv, AttachmentTyped, Embedding, Accounted,
       Attaching!Exists
  <2> QED
    BY <2>2, <2>3
<1>3. ASSUME NEW a \in Attached, Attaching!Fetch(a) PROVE AttachmentInv'
  <2>1. PICK r : r = [attachment[a] EXCEPT !.status = "processing"]
    OBVIOUS
  <2>2. r \in AttachmentRow /\ r.routed = attachment[a].routed /\ r.status = "processing"
    BY <2>1 DEF AttachmentInv, AttachmentTyped, AttachmentRow
  <2>3. Attaching!Set(a, r) /\ UNCHANGED <<old, chunks, send, sweep, dangling>>
        /\ extracting' \in Attached \union {Attaching!Nobody}
    BY <1>3, <2>1 DEF Attaching!Fetch
  <2> QED
    BY <1>2, <2>2, <2>3
<1>4. ASSUME Attaching!Extract PROVE AttachmentInv'
  <2>1. extracting \in Attached /\ extracting' = Attaching!Nobody
        /\ UNCHANGED <<old, chunks, send, sweep, dangling>>
    BY <1>4 DEF Attaching!Extract, AttachmentInv, AttachmentTyped
  <2>2. PICK r : /\ Attaching!Set(extracting, r)
                 /\ \/ \E text \in {"blank", "some"} :
                          r = [attachment[extracting] EXCEPT !.status = "ready", !.text = text]
                    \/ r = [attachment[extracting] EXCEPT !.status = "failed"]
    BY <1>4 DEF Attaching!Extract
  <2>3. r \in AttachmentRow /\ r.routed = attachment[extracting].routed /\ r.status # "absent"
    BY <2>1, <2>2 DEF AttachmentInv, AttachmentTyped, AttachmentRow
  <2> QED
    BY <1>2, <2>1, <2>2, <2>3
<1>5. ASSUME Attaching!WorkerDies PROVE AttachmentInv'
  BY <1>5 DEF Attaching!WorkerDies, AttachmentInv, AttachmentTyped, Embedding, Accounted,
     Attaching!Exists
<1> QED
  BY <1>1, <1>3, <1>4, <1>5

\* A send routes an attachment, and embeds it without looking again.
LEMMA SendNext ==
  ASSUME AttachmentInv,
         \/ \E a \in Attached : Attaching!Route(a)
         \/ Attaching!Upsert \/ Attaching!SendDies
  PROVE  AttachmentInv'
<1>1. ASSUME NEW a \in Attached, Attaching!Route(a) PROVE AttachmentInv'
  <2>1. PICK to \in {"inline", "retrieval"} :
          /\ Attaching!Set(a, [attachment[a] EXCEPT !.routed = to])
          /\ send' = IF to = "retrieval" THEN [pc |-> "embed", file |-> a] ELSE Attaching!NoSend
          /\ dangling' = IF to = "inline" /\ a \in chunks THEN dangling \union {a} ELSE dangling
    BY <1>1 DEF Attaching!Route
  <2>2. UNCHANGED <<old, chunks, extracting, sweep>> /\ attachment[a].text = "some"
    BY <1>1 DEF Attaching!Route
  <2>3. Attaching!Exists(a)
    BY <2>2 DEF Attaching!Exists, Attaching!Absent
  <2>4. attachment' = [attachment EXCEPT ![a] = [attachment[a] EXCEPT !.routed = to]]
    BY <2>1, <2>3 DEF Attaching!Set
  <2>5. attachment'[a] = [attachment[a] EXCEPT !.routed = to] /\ attachment[a] \in AttachmentRow
        /\ \A b \in Attached \ {a} : attachment'[b] = attachment[b]
    BY <2>4 DEF AttachmentInv, AttachmentTyped
  <2>6. attachment'[a] \in AttachmentRow /\ attachment'[a].routed = to /\ attachment'[a].text = "some"
    BY <2>2, <2>5 DEF AttachmentRow
  <2>7. AttachmentTyped'
    BY <2>1, <2>2, <2>4, <2>5, <2>6 DEF AttachmentInv, AttachmentTyped, Attaching!NoSend
  <2>8. Embedding'
    BY <2>1, <2>6 DEF Embedding, Attaching!NoSend, Attaching!Exists, Attaching!Absent
  <2>9. Accounted'
    BY <2>1, <2>2, <2>5, <2>6 DEF AttachmentInv, AttachmentTyped, Accounted
  <2> QED
    BY <2>7, <2>8, <2>9 DEF AttachmentInv
<1>2. CASE Attaching!Upsert
  BY <1>2 DEF Attaching!Upsert, Attaching!NoSend, AttachmentInv, AttachmentTyped, Embedding, Accounted,
     Attaching!Exists
<1>3. CASE Attaching!SendDies
  BY <1>3 DEF Attaching!SendDies, Attaching!NoSend, AttachmentInv, AttachmentTyped, Embedding,
     Accounted, Attaching!Exists
<1> QED
  BY <1>1, <1>2, <1>3

\* The sweep clears rows, then points; the chat goes with its rows alone.
LEMMA SweepRowsNext ==
  ASSUME AttachmentInv,
         \/ \E a \in Attached : Attaching!Age(a) \/ Attaching!SweepRow(a)
         \/ Attaching!SweepList \/ Attaching!SweepPoints \/ Attaching!SweepDies
         \/ Attaching!DeleteChat
  PROVE  AttachmentInv'
<1>1. ASSUME NEW a \in Attached, Attaching!Age(a) PROVE AttachmentInv'
  BY <1>1 DEF Attaching!Age, AttachmentInv, AttachmentTyped, Embedding, Accounted, Attaching!Exists
<1>2. ASSUME NEW a \in Attached, Attaching!SweepRow(a) PROVE AttachmentInv'
  <2>1. attachment' = [attachment EXCEPT ![a] = Attaching!Absent] /\ sweep.pc = "rows"
        /\ a \in sweep.listed
        /\ UNCHANGED <<old, chunks, send, extracting, dangling>>
        /\ sweep' = [sweep EXCEPT !.cleared = sweep.cleared \union {a}]
    BY <1>2 DEF Attaching!SweepRow
  <2>2. Attaching!Absent \in AttachmentRow
    BY DEF Attaching!Absent, AttachmentRow
  <2>3. AttachmentTyped'
    BY <2>1, <2>2 DEF AttachmentInv, AttachmentTyped
  <2>4. a \in old
    BY <2>1 DEF AttachmentInv, AttachmentTyped
  <2>5. Embedding' /\ Accounted'
    BY <2>1, <2>4 DEF AttachmentInv, AttachmentTyped, Embedding, Accounted, Attaching!Exists
  <2> QED
    BY <2>3, <2>5 DEF AttachmentInv
<1>3. CASE Attaching!SweepList
  BY <1>3 DEF Attaching!SweepList, AttachmentInv, AttachmentTyped, Embedding, Accounted,
     Attaching!Exists
<1>4. CASE Attaching!SweepPoints \/ Attaching!SweepDies
  BY <1>4 DEF Attaching!SweepPoints, Attaching!SweepDies, Attaching!Doomed, Attaching!Rest,
     AttachmentInv, AttachmentTyped, Embedding, Accounted, Attaching!Exists
<1>5. CASE Attaching!DeleteChat
  <2>1. Attaching!Absent \in AttachmentRow
    BY DEF Attaching!Absent, AttachmentRow
  <2> QED
    BY <1>5, <2>1 DEF Attaching!DeleteChat, AttachmentInv, AttachmentTyped, Embedding, Accounted,
       Attaching!Exists
<1> QED
  BY <1>1, <1>2, <1>3, <1>4, <1>5

\* Every step keeps the invariant.
LEMMA AttachmentNext == AttachmentInv /\ [Attaching!Next]_(Attaching!vars) => AttachmentInv'
<1> SUFFICES ASSUME AttachmentInv, [Attaching!Next]_(Attaching!vars) PROVE AttachmentInv'
  OBVIOUS
<1>1. CASE UNCHANGED Attaching!vars
  BY <1>1 DEF Attaching!vars, AttachmentInv, AttachmentTyped, Embedding, Accounted, Attaching!Exists
<1>2. CASE Attaching!Next
  BY <1>2, WorkerRowNext, SendNext, SweepRowsNext DEF Attaching!Next
<1> QED
  BY <1>1, <1>2

\* The property is read off the invariant.
LEMMA AttachmentHolds == AttachmentInv => Attaching!FailuresAreDangling
<1> SUFFICES ASSUME AttachmentInv, Attaching!TurnFails
             PROVE  sweep.cleared \intersect chunks # {} \/ dangling # {}
  BY DEF Attaching!FailuresAreDangling
<1>1. PICK a \in chunks : a \notin Attaching!Named
  BY DEF Attaching!TurnFails, Attaching!Searched
<1>2. a \in dangling \/ a \in sweep.cleared
  BY <1>1 DEF AttachmentInv, AttachmentTyped, Accounted, Attaching!Named
<1> QED
  BY <1>1, <1>2

\* A turn that searches a chat's attachments trips over points without a row only while a
\* sweep is between its rows and its points, or over what a death, a late send or a new
\* route left behind, for any number of files and deaths: route_attachment,
\* cleanup_stale_attachments_task.
THEOREM FailuresAreDanglingAlways == Attaching!Spec => []Attaching!FailuresAreDangling
<1>1. AttachmentInv /\ [Attaching!Next]_(Attaching!vars) => AttachmentInv'
  BY AttachmentNext
<1> QED
  BY AttachmentInit, AttachmentHolds, <1>1, PTL DEF Attaching!Spec

-----------------------------------------------------------------------------
(* Metadata.  A row whose changes no writer has missed is what every writer   *)
(* under way will write, and what the points say unless a mirror is to come.  *)

\* A workspace has fields; what callers send and search for are numbers.
MetaBounds ==
    /\ DOMAIN Kinds # {} /\ Presets \subseteq DOMAIN Kinds /\ Bodies \subseteq [DOMAIN Kinds -> Nat]
    /\ \A s \in Filters : s.range \in BOOLEAN /\ s.from \in Nat /\ s.to \in Nat
    /\ \E n \in Nat : Parts = 1..n

Values == [DOMAIN Kinds -> Nat]
Payloads == Values \union {Tagging!Absent}
Editor == [pc : {"idle", "checked", "committed"}, values : Values, writes : BOOLEAN]
Filling ==
    [pc : {"idle", "writing", "reread", "done"}, next : Nat \ {0}, loaded : Values,
     into : {"old", "new"}]

MetaTyped ==
    /\ fields \subseteq DOMAIN Kinds /\ meta \in Values /\ active \in {"old", "new"}
    /\ tagged \in [{"old", "new"} -> [Parts -> Payloads]]
    /\ put \in [Editors -> Editor] /\ loose \in BOOLEAN
    /\ writing \in [{"ingest", "backfill", "reembed"} -> Filling]

\* Backfill and re-embedding come after ingestion, and each writes where it says.
InTurn ==
    /\ writing["ingest"].pc # "done" =>
          writing["backfill"].pc = "idle" /\ writing["reembed"].pc = "idle"
    /\ writing["ingest"].pc \in {"writing", "reread"} => writing["ingest"].into = "old"
    /\ writing["backfill"].pc # "reread" /\ writing["reembed"].pc # "reread"
    /\ active = "new" <=> writing["reembed"].pc = "done"
    /\ writing["reembed"].pc = "writing" => writing["reembed"].into = "new"
    /\ active = "old" /\ writing["backfill"].pc = "writing" => writing["backfill"].into = "old"

\* A batch that its task has passed has points.
BatchesPassed ==
    \A b \in Parts :
        /\ \/ writing["ingest"].pc = "writing" /\ b < writing["ingest"].next
           \/ writing["ingest"].pc = "reread"
           => tagged["old"][b] # Tagging!Absent
        /\ writing["ingest"].pc = "done" => tagged[active][b] # Tagging!Absent
        /\ writing["reembed"].pc = "writing" /\ b < writing["reembed"].next =>
               tagged["new"][b] = writing["reembed"].loaded

\* Nothing is about to write what the row no longer says.
NothingMissed ==
    /\ \A t \in Tagging!Stale : writing[t].loaded = meta
    /\ \A r \in Editors : put[r].pc = "committed" => put[r].values = meta
    /\ writing["ingest"].pc = "done" /\ (\A r \in Editors : put[r].pc # "committed") =>
          \A b \in Parts : tagged[active][b] = meta

MetaInv == MetaTyped /\ InTurn /\ BatchesPassed /\ (~loose => NothingMissed)

\* A payload is not the mark of a batch without points.
LEMMA PayloadIsThere == ASSUME MetaBounds PROVE Tagging!Absent \notin Values
<1>1. PICK n \in DOMAIN Kinds : TRUE
  BY DEF MetaBounds
<1>2. Tagging!Absent[n] = -1
  BY <1>1 DEF Tagging!Absent, Tagging!Names
<1> QED
  BY <1>1, <1>2 DEF Values

\* Nothing is written at the start.
LEMMA MetaInit == ASSUME MetaBounds PROVE Tagging!Init => MetaInv
<1> SUFFICES ASSUME Tagging!Init PROVE MetaInv
  OBVIOUS
<1>1. Tagging!Bare \in Values
  BY DEF Tagging!Bare, Tagging!Names, Tagging!Unset, Values
<1>2. MetaTyped
  <2>1. Tagging!Served \in Editor
    BY <1>1 DEF Tagging!Served, Editor
  <2>2. writing \in [{"ingest", "backfill", "reembed"} -> Filling]
    BY <1>1 DEF Tagging!Init, Tagging!Tasks, Filling
  <2>3. tagged \in [{"old", "new"} -> [Parts -> Payloads]]
    BY DEF Tagging!Init, Tagging!Collections, Payloads
  <2> QED
    BY <1>1, <2>1, <2>2, <2>3 DEF Tagging!Init, MetaTyped
<1>3. \A t \in Tagging!Tasks : writing[t].pc = "idle"
  BY DEF Tagging!Init
<1>4. \A r \in Editors : put[r].pc = "idle"
  BY DEF Tagging!Init, Tagging!Served
<1>5. InTurn /\ BatchesPassed /\ NothingMissed
  BY <1>3, <1>4 DEF InTurn, BatchesPassed, NothingMissed, Tagging!Tasks, Tagging!Stale, Tagging!Init
<1> QED
  BY <1>2, <1>5 DEF MetaInv

\* Reading the fields, seeding and editing them changes no value.
LEMMA FieldsNext ==
  ASSUME MetaBounds, MetaInv,
         \/ \E r \in Editors : Tagging!SeedRead(r) \/ Tagging!SeedCommit(r)
         \/ \E n \in Tagging!Names : Tagging!CreateField(n) \/ Tagging!DeleteField(n)
  PROVE  MetaInv'
<1>1. fields' \subseteq DOMAIN Kinds
  BY DEF MetaInv, MetaTyped, MetaBounds, Tagging!SeedRead, Tagging!SeedCommit, Tagging!CreateField,
     Tagging!DeleteField, Tagging!Names
<1>2. UNCHANGED <<meta, active, tagged, put, writing, loose>>
  BY DEF Tagging!SeedRead, Tagging!SeedCommit, Tagging!CreateField, Tagging!DeleteField
<1> QED
  BY <1>1, <1>2 DEF MetaInv, MetaTyped, InTurn, BatchesPassed, NothingMissed, Tagging!Stale

\* A PUT is checked, and commits the row.
LEMMA PutNext ==
  ASSUME MetaBounds, MetaInv, NEW r \in Editors,
         (\E values \in Bodies : Tagging!PutRead(r, values)) \/ Tagging!PutCommit(r)
  PROVE  MetaInv'
<1>1. CASE \E values \in Bodies : Tagging!PutRead(r, values)
  <2>1. PICK values \in Bodies : Tagging!PutRead(r, values)
    BY <1>1
  <2>2. values \in Values
    BY DEF MetaBounds, Values
  <2>3. put' \in [Editors -> Editor] /\ \A q \in Editors :
          put'[q].pc = "committed" => put[q].pc = "committed" /\ put'[q] = put[q]
    <3>1. PICK writes \in BOOLEAN :
            put' = [put EXCEPT ![r] = [pc |-> "checked", values |-> values, writes |-> writes]]
      BY <2>1 DEF Tagging!PutRead
    <3> QED
      BY <2>2, <3>1 DEF MetaInv, MetaTyped, Editor
  <2>4. \A q \in Editors : put[q].pc = "committed" => put'[q].pc = "committed"
    BY <2>1 DEF Tagging!PutRead, MetaInv, MetaTyped
  <2>5. UNCHANGED <<fields, meta, active, tagged, writing, loose>>
    BY <2>1 DEF Tagging!PutRead
  <2> QED
    BY <2>3, <2>4, <2>5 DEF MetaInv, MetaTyped, InTurn, BatchesPassed, NothingMissed, Tagging!Stale
<1>2. CASE Tagging!PutCommit(r)
  <2>1. put' = [put EXCEPT ![r].pc = "committed"] /\ meta' \in {put[r].values, meta}
    BY <1>2 DEF Tagging!PutCommit
  <2>2. UNCHANGED <<fields, active, tagged, writing>>
    BY <1>2 DEF Tagging!PutCommit
  <2>3. put[r] \in Editor
    BY DEF MetaInv, MetaTyped
  <2>4. put' \in [Editors -> Editor] /\ meta' \in Values
    BY <2>1, <2>3 DEF MetaInv, MetaTyped, Editor
  <2>5. /\ loose' \in BOOLEAN
        /\ ~loose' => /\ ~loose /\ meta' = put[r].values
                      /\ meta' = meta \/ (Tagging!Stale = {} /\ ~Tagging!Mirroring(r))
    BY <1>2 DEF Tagging!PutCommit
  <2>6. MetaTyped'
    BY <2>2, <2>4, <2>5 DEF MetaInv, MetaTyped
  <2>7. InTurn' /\ BatchesPassed'
    BY <2>2 DEF MetaInv, InTurn, BatchesPassed
  <2>8. /\ put'[r].pc = "committed" /\ put'[r].values = put[r].values
        /\ \A q \in Editors \ {r} : put'[q] = put[q]
    BY <2>1, <2>3 DEF MetaInv, MetaTyped, Editor
  <2>9. ~loose' => NothingMissed'
    BY <2>2, <2>5, <2>8 DEF MetaInv, NothingMissed, Tagging!Stale, Tagging!Mirroring
  <2> QED
    BY <2>6, <2>7, <2>9 DEF MetaInv
<1> QED
  BY <1>1, <1>2

\* A PUT mirrors what it committed on every point of the collection, or fails to.
LEMMA MirrorNext ==
  ASSUME MetaBounds, MetaInv, NEW r \in Editors, Tagging!PutMirror(r) \/ Tagging!PutFails(r)
  PROVE  MetaInv'
<1>1. put[r] \in Editor /\ put[r].pc = "committed" /\ put' = [put EXCEPT ![r] = Tagging!Served]
  BY DEF MetaInv, MetaTyped, Tagging!PutMirror, Tagging!PutFails
<1>2. put' \in [Editors -> Editor] /\ put'[r].pc = "idle" /\ \A q \in Editors \ {r} : put'[q] = put[q]
  BY <1>1 DEF MetaInv, MetaTyped, Editor, Tagging!Served, Tagging!Bare, Tagging!Names, Tagging!Unset,
     Values
<1>3. UNCHANGED <<fields, meta, active, writing>>
  BY DEF Tagging!PutMirror, Tagging!PutFails
<1>4. CASE Tagging!PutFails(r)
  BY <1>2, <1>3, <1>4 DEF Tagging!PutFails, MetaInv, MetaTyped, InTurn, BatchesPassed
<1>5. CASE Tagging!PutMirror(r)
  <2>1. tagged' = Tagging!Stamped(active, put[r].values) /\ put[r].values \in Values
    BY <1>1, <1>5 DEF Tagging!PutMirror, Editor
  <2>2. \A c \in {"old", "new"}, b \in Parts :
          tagged'[c][b] = IF c = active /\ tagged[c][b] # Tagging!Absent
                          THEN put[r].values ELSE tagged[c][b]
    BY <2>1 DEF Tagging!Stamped, MetaInv, MetaTyped
  <2>3. tagged' \in [{"old", "new"} -> [Parts -> Payloads]]
    BY <2>1 DEF Tagging!Stamped, MetaInv, MetaTyped, Payloads
  <2>4. loose' \in BOOLEAN /\ (~loose' => ~loose \/ Tagging!Settles(r))
    BY <1>5 DEF Tagging!PutMirror, MetaInv, MetaTyped
  <2>5. MetaTyped' /\ InTurn'
    BY <1>2, <1>3, <2>3, <2>4 DEF MetaInv, MetaTyped, InTurn
  <2>6. BatchesPassed'
    BY <1>3, <2>1, <2>2, PayloadIsThere DEF MetaInv, MetaTyped, InTurn, BatchesPassed
  <2>7. ASSUME ~loose' PROVE NothingMissed'
    <3>1. /\ put[r].values = meta
          /\ \A q \in Editors : put'[q].pc = "committed" => put'[q].values = meta
      BY <1>1, <1>2, <2>4, <2>7 DEF MetaInv, NothingMissed, Tagging!Settles, Tagging!Mirroring
    <3>2. \A t \in Tagging!Stale' : writing'[t].loaded = meta'
      BY <1>3, <2>4, <2>7 DEF MetaInv, NothingMissed, Tagging!Settles, Tagging!Stale
    <3>3. writing["ingest"].pc = "done" => \A b \in Parts : tagged'[active][b] = meta
      BY <2>2, <3>1 DEF MetaInv, MetaTyped, BatchesPassed
    <3> QED
      BY <1>2, <1>3, <3>1, <3>2, <3>3 DEF NothingMissed
  <2> QED
    BY <2>5, <2>6, <2>7 DEF MetaInv
<1> QED
  BY <1>4, <1>5

\* A task that starts writes what the row says now.
LEMMA LoadedNext ==
  ASSUME MetaBounds, MetaInv, NEW t \in Tagging!Tasks, Tagging!Load(t)
  PROVE  MetaInv'
<1> DEFINE e == [pc |-> "writing", next |-> 1, loaded |-> meta,
                 into |-> IF t = "reembed" THEN "new" ELSE active]
<1>1. writing' = [writing EXCEPT ![t] = e] /\ UNCHANGED <<fields, meta, active, tagged, put, loose>>
  BY DEF Tagging!Load
<1>2. writing[t].pc = "idle" /\ (t # "ingest" => writing["ingest"].pc = "done")
  BY DEF Tagging!Load, Tagging!Indexed
<1>3. e \in Filling /\ e.pc = "writing" /\ e.next = 1 /\ e.loaded = meta
  BY DEF MetaInv, MetaTyped, Filling
<1>4. e.into = IF t = "reembed" THEN "new" ELSE active
  OBVIOUS
<1> HIDE DEF e
<1>5. writing'[t] = e /\ \A u \in Tagging!Tasks \ {t} : writing'[u] = writing[u]
  BY <1>1 DEF MetaInv, MetaTyped, Tagging!Tasks
<1>6. MetaTyped'
  BY <1>1, <1>3 DEF MetaInv, MetaTyped, Tagging!Tasks
<1>7. InTurn'
  <2>1. CASE t = "ingest"
    BY <1>1, <1>2, <1>3, <1>4, <1>5, <2>1 DEF MetaInv, MetaTyped, InTurn, Tagging!Tasks
  <2>2. CASE t = "backfill"
    BY <1>1, <1>2, <1>3, <1>4, <1>5, <2>2 DEF MetaInv, MetaTyped, InTurn, Tagging!Tasks
  <2>3. CASE t = "reembed"
    BY <1>1, <1>2, <1>3, <1>4, <1>5, <2>3 DEF MetaInv, MetaTyped, InTurn, Tagging!Tasks
  <2> QED
    BY <2>1, <2>2, <2>3 DEF Tagging!Tasks
<1>8. \A b \in Parts : ~(b < 1)
  BY DEF MetaBounds
<1>9. BatchesPassed'
  BY <1>1, <1>2, <1>3, <1>5, <1>8 DEF MetaInv, BatchesPassed, Tagging!Tasks
<1>10. ASSUME ~loose' PROVE NothingMissed'
  <2>1. \A u \in Tagging!Stale' : u = t \/ u \in Tagging!Stale
    BY <1>5 DEF Tagging!Stale
  <2>2. \A u \in Tagging!Stale' : writing'[u].loaded = meta
    BY <1>1, <1>3, <1>5, <1>10, <2>1 DEF MetaInv, NothingMissed, Tagging!Stale
  <2>3. writing'["ingest"].pc = "done" => writing["ingest"].pc = "done"
    BY <1>3, <1>5 DEF Tagging!Tasks
  <2> QED
    BY <1>1, <1>10, <2>2, <2>3 DEF MetaInv, NothingMissed
<1> QED
  BY <1>6, <1>7, <1>9, <1>10 DEF MetaInv

\* A task writes one batch.
LEMMA UpsertNext ==
  ASSUME MetaBounds, MetaInv, NEW t \in Tagging!Tasks, Tagging!Upsert(t)
  PROVE  MetaInv'
<1>1. PICK c \in {"old", "new"} : c = writing[t].into
  BY DEF MetaInv, MetaTyped, Filling, Tagging!Tasks
<1>2. PICK m \in Nat \ {0} : m = writing[t].next
  BY DEF MetaInv, MetaTyped, Filling, Tagging!Tasks
<1>3. PICK v \in Values : v = writing[t].loaded
  BY DEF MetaInv, MetaTyped, Filling, Tagging!Tasks
<1>4. writing[t].pc = "writing" /\ m \in Parts /\ tagged' = [tagged EXCEPT ![c][m] = v]
      /\ UNCHANGED <<fields, meta, active, put, loose>>
  BY <1>1, <1>2, <1>3 DEF Tagging!Upsert
<1>5. writing' = [writing EXCEPT ![t] = [writing[t] EXCEPT !.next = m + 1]] /\ writing[t] \in Filling
  BY <1>2 DEF Tagging!Upsert, MetaInv, MetaTyped, Tagging!Tasks
<1>6. writing'[t].next = m + 1 /\ writing'[t].pc = writing[t].pc /\ writing'[t].loaded = v
      /\ writing'[t].into = c /\ writing'[t] \in Filling
  BY <1>1, <1>2, <1>3, <1>5 DEF MetaInv, MetaTyped, Filling, Tagging!Tasks
<1>7. \A u \in Tagging!Tasks \ {t} : writing'[u] = writing[u]
  BY <1>5 DEF MetaInv, MetaTyped, Tagging!Tasks
<1>8. \A u \in Tagging!Tasks :
        writing'[u].pc = writing[u].pc /\ writing'[u].loaded = writing[u].loaded
        /\ writing'[u].into = writing[u].into
  BY <1>1, <1>3, <1>6, <1>7
<1>9. \A d \in {"old", "new"}, b \in Parts :
        tagged'[d][b] = IF d = c /\ b = m THEN v ELSE tagged[d][b]
  BY <1>4 DEF MetaInv, MetaTyped
<1>10. tagged' \in [{"old", "new"} -> [Parts -> Payloads]]
  BY <1>4 DEF MetaInv, MetaTyped, Payloads
<1>11. writing' \in [{"ingest", "backfill", "reembed"} -> Filling]
  BY <1>5, <1>6, <1>7 DEF MetaInv, MetaTyped, Tagging!Tasks
<1>12. MetaTyped' /\ InTurn'
  BY <1>4, <1>8, <1>10, <1>11 DEF MetaInv, MetaTyped, InTurn, Tagging!Tasks
<1>13. v # Tagging!Absent
  BY PayloadIsThere
<1>14. Parts \subseteq Nat
  BY DEF MetaBounds
<1>15. BatchesPassed'
  <2> SUFFICES ASSUME NEW b \in Parts
               PROVE  /\ \/ writing'["ingest"].pc = "writing" /\ b < writing'["ingest"].next
                         \/ writing'["ingest"].pc = "reread"
                         => tagged'["old"][b] # Tagging!Absent
                      /\ writing'["ingest"].pc = "done" => tagged'[active'][b] # Tagging!Absent
                      /\ writing'["reembed"].pc = "writing" /\ b < writing'["reembed"].next =>
                             tagged'["new"][b] = writing'["reembed"].loaded
    BY DEF BatchesPassed
  <2>1. writing'["ingest"].pc = "reread" => tagged'["old"][b] # Tagging!Absent
    BY <1>8, <1>9, <1>13 DEF MetaInv, BatchesPassed, Tagging!Tasks
  <2>2. writing'["ingest"].pc = "done" => tagged'[active'][b] # Tagging!Absent
    BY <1>4, <1>8, <1>9, <1>13 DEF MetaInv, MetaTyped, BatchesPassed, Tagging!Tasks
  <2>3. ASSUME writing'["ingest"].pc = "writing", b < writing'["ingest"].next
        PROVE  tagged'["old"][b] # Tagging!Absent
    <3>1. t = "ingest" /\ c = "old"
      BY <1>1, <1>4, <1>8, <2>3 DEF MetaInv, InTurn, Tagging!Tasks
    <3>2. b = m \/ b < m
      BY <1>6, <1>14, <2>3, <3>1
    <3> QED
      BY <1>2, <1>4, <1>9, <1>13, <3>1, <3>2 DEF MetaInv, BatchesPassed
  <2>4. ASSUME writing'["reembed"].pc = "writing", b < writing'["reembed"].next
        PROVE  tagged'["new"][b] = writing'["reembed"].loaded
    <3>1. CASE t = "reembed"
      <4>1. c = "new" /\ (b = m \/ b < m)
        BY <1>1, <1>4, <1>6, <1>14, <2>4, <3>1 DEF MetaInv, InTurn
      <4> QED
        BY <1>2, <1>3, <1>4, <1>6, <1>9, <3>1, <4>1 DEF MetaInv, BatchesPassed
    <3>2. CASE t # "reembed"
      <4>1. writing["reembed"].pc = "writing" /\ b < writing["reembed"].next
            /\ writing'["reembed"].loaded = writing["reembed"].loaded
        BY <1>7, <2>4, <3>2 DEF Tagging!Tasks
      <4>2. c = "old"
        BY <1>1, <1>4, <3>2, <4>1 DEF MetaInv, MetaTyped, InTurn, Tagging!Tasks
      <4> QED
        BY <1>9, <4>1, <4>2 DEF MetaInv, BatchesPassed
    <3> QED
      BY <3>1, <3>2
  <2> QED
    BY <2>1, <2>2, <2>3, <2>4
<1>16. ASSUME ~loose' PROVE NothingMissed'
  <2>1. NothingMissed
    BY <1>4, <1>16 DEF MetaInv
  <2>2. Tagging!Stale' = Tagging!Stale
    BY <1>8 DEF Tagging!Stale
  <2>3. \A u \in Tagging!Stale' : writing'[u].loaded = meta'
    BY <1>4, <1>8, <2>1, <2>2 DEF NothingMissed, Tagging!Stale
  <2>4. writing["ingest"].pc = "done" => v = meta
    BY <1>3, <1>4, <2>1 DEF NothingMissed, Tagging!Stale
  <2>5. writing'["ingest"].pc = "done" /\ (\A r \in Editors : put'[r].pc # "committed") =>
          \A b \in Parts : tagged'[active'][b] = meta'
    BY <1>4, <1>8, <1>9, <2>1, <2>4 DEF NothingMissed, MetaInv, MetaTyped, Tagging!Tasks
  <2> QED
    BY <1>4, <2>1, <2>3, <2>5 DEF NothingMissed
<1> QED
  BY <1>12, <1>15, <1>16 DEF MetaInv

\* Ingestion reads the row once more, and stamps its points with what it read.
LEMMA IngestNext ==
  ASSUME MetaBounds, MetaInv, Tagging!IngestReread \/ Tagging!IngestStamp
  PROVE  MetaInv'
<1>1. writing["ingest"] \in Filling /\ writing["ingest"].into = "old" /\ active = "old"
      /\ writing["backfill"].pc = "idle" /\ writing["reembed"].pc = "idle"
  BY DEF MetaInv, MetaTyped, InTurn, Tagging!IngestReread, Tagging!IngestStamp
<1>2. CASE Tagging!IngestReread
  <2>1. writing' = [writing EXCEPT !["ingest"].pc = "reread", !["ingest"].loaded = meta]
        /\ UNCHANGED <<fields, meta, active, tagged, put, loose>>
    BY <1>2 DEF Tagging!IngestReread, Tagging!Reread
  <2>2. writing'["ingest"].pc = "reread" /\ writing'["ingest"].loaded = meta
        /\ writing'["ingest"].into = "old" /\ writing'["ingest"] \in Filling
        /\ writing'["backfill"] = writing["backfill"] /\ writing'["reembed"] = writing["reembed"]
    BY <1>1, <2>1 DEF MetaInv, MetaTyped, Filling
  <2>3. MetaTyped' /\ InTurn'
    BY <1>1, <2>1, <2>2 DEF MetaInv, MetaTyped, InTurn
  <2>4. \A b \in Parts : b < writing["ingest"].next
    BY <1>1, <1>2 DEF Tagging!IngestReread, MetaBounds, Filling
  <2>5. BatchesPassed'
    BY <1>1, <1>2, <2>1, <2>2, <2>4 DEF MetaInv, BatchesPassed, Tagging!IngestReread
  <2>6. ~loose' => NothingMissed'
    BY <1>1, <2>1, <2>2 DEF MetaInv, NothingMissed, Tagging!Stale, Tagging!Tasks
  <2> QED
    BY <2>3, <2>5, <2>6 DEF MetaInv
<1>3. CASE Tagging!IngestStamp
  <2>1. writing["ingest"].pc = "reread" /\ writing' = [writing EXCEPT !["ingest"].pc = "done"]
        /\ UNCHANGED <<fields, meta, active, put, loose>>
        /\ tagged' = Tagging!Stamped("old", writing["ingest"].loaded)
    BY <1>1, <1>3 DEF Tagging!IngestStamp
  <2>2. writing'["ingest"].pc = "done" /\ writing'["ingest"] \in Filling
        /\ writing'["backfill"] = writing["backfill"] /\ writing'["reembed"] = writing["reembed"]
    BY <1>1, <2>1 DEF MetaInv, MetaTyped, Filling
  <2>3. tagged' \in [{"old", "new"} -> [Parts -> Payloads]]
    BY <1>1, <2>1 DEF Tagging!Stamped, MetaInv, MetaTyped, Payloads, Filling
  <2>4. \A b \in Parts : tagged'["old"][b] = writing["ingest"].loaded
    BY <2>1 DEF Tagging!Stamped, MetaInv, MetaTyped, BatchesPassed
  <2>5. MetaTyped' /\ InTurn'
    BY <1>1, <2>1, <2>2, <2>3 DEF MetaInv, MetaTyped, InTurn
  <2>6. BatchesPassed'
    BY <1>1, <2>1, <2>2, <2>4, PayloadIsThere DEF BatchesPassed, Filling
  <2>7. ~loose' => NothingMissed'
    BY <1>1, <2>1, <2>2, <2>4 DEF MetaInv, NothingMissed, Tagging!Stale, Tagging!Tasks
  <2> QED
    BY <2>5, <2>6, <2>7 DEF MetaInv
<1> QED
  BY <1>2, <1>3

\* A task that is done, or dies, writes nothing more; a workspace that turns to the new
\* collection finds every batch there.
LEMMA TaskEnds ==
  ASSUME MetaBounds, MetaInv,
         \/ Tagging!BackfillDone \/ Tagging!ReembedDone
         \/ \E t \in Tagging!Tasks : Tagging!Die(t)
  PROVE  MetaInv'
<1>1. CASE Tagging!BackfillDone
  <2>1. writing' = [writing EXCEPT !["backfill"].pc = "done"]
        /\ UNCHANGED <<fields, meta, active, tagged, put, loose>>
        /\ writing["backfill"].pc = "writing"
    BY <1>1 DEF Tagging!BackfillDone
  <2>2. writing'["backfill"].pc = "done" /\ writing'["backfill"] \in Filling
        /\ writing'["ingest"] = writing["ingest"] /\ writing'["reembed"] = writing["reembed"]
    BY <2>1 DEF MetaInv, MetaTyped, Filling
  <2>3. MetaTyped' /\ InTurn' /\ BatchesPassed'
    BY <2>1, <2>2 DEF MetaInv, MetaTyped, InTurn, BatchesPassed
  <2>4. ~loose' => NothingMissed'
    BY <2>1, <2>2 DEF MetaInv, NothingMissed, Tagging!Stale, Tagging!Tasks
  <2> QED
    BY <2>3, <2>4 DEF MetaInv
<1>2. CASE Tagging!ReembedDone
  <2>1. writing' = [writing EXCEPT !["reembed"].pc = "done"] /\ active' = "new"
        /\ UNCHANGED <<fields, meta, put, loose>>
        /\ tagged' = [tagged EXCEPT !["old"] = [b \in Parts |-> Tagging!Absent]]
        /\ writing["reembed"].pc = "writing" /\ writing["reembed"] \in Filling
    BY <1>2 DEF Tagging!ReembedDone, MetaInv, MetaTyped
  <2>2. writing'["reembed"].pc = "done" /\ writing'["reembed"] \in Filling
        /\ writing'["ingest"] = writing["ingest"] /\ writing'["backfill"] = writing["backfill"]
    BY <2>1 DEF MetaInv, MetaTyped, Filling
  <2>3. tagged' \in [{"old", "new"} -> [Parts -> Payloads]] /\ tagged'["new"] = tagged["new"]
    BY <2>1 DEF MetaInv, MetaTyped, Payloads
  <2>4. \A b \in Parts : tagged'["new"][b] = writing["reembed"].loaded
    <3>1. \A b \in Parts : b < writing["reembed"].next
      BY <1>2, <2>1 DEF Tagging!ReembedDone, MetaBounds, Filling
    <3> QED
      BY <2>1, <2>3, <3>1 DEF MetaInv, BatchesPassed
  <2>5. MetaTyped' /\ InTurn'
    BY <2>1, <2>2, <2>3 DEF MetaInv, MetaTyped, InTurn
  <2>6. writing'["ingest"].pc = "done"
    BY <2>1, <2>2 DEF MetaInv, InTurn
  <2>7. BatchesPassed'
    BY <2>1, <2>2, <2>4, <2>6, PayloadIsThere DEF BatchesPassed, Filling
  <2>8. ~loose' => NothingMissed'
    BY <2>1, <2>2, <2>4 DEF MetaInv, NothingMissed, Tagging!Stale, Tagging!Tasks
  <2> QED
    BY <2>5, <2>7, <2>8 DEF MetaInv
<1>3. ASSUME NEW t \in Tagging!Tasks, Tagging!Die(t) PROVE MetaInv'
  <2>1. writing' = [writing EXCEPT ![t].pc = "idle"] /\ writing[t] \in Filling
        /\ UNCHANGED <<fields, meta, active, tagged, put, loose>>
        /\ writing[t].pc \in {"writing", "reread"}
    BY <1>3 DEF Tagging!Die, MetaInv, MetaTyped, Tagging!Tasks
  <2>2. writing'[t].pc = "idle" /\ writing'[t] \in Filling
        /\ \A u \in Tagging!Tasks \ {t} : writing'[u] = writing[u]
    BY <2>1 DEF MetaInv, MetaTyped, Filling, Tagging!Tasks
  <2>3. writing' \in [{"ingest", "backfill", "reembed"} -> Filling]
    BY <2>1, <2>2 DEF MetaInv, MetaTyped, Tagging!Tasks
  <2>4. \A u \in Tagging!Tasks : writing'[u] = writing[u] \/ (u = t /\ writing'[u].pc = "idle")
    BY <2>2
  <2>5. InTurn'
    BY <2>1, <2>4 DEF MetaInv, InTurn, Tagging!Tasks
  <2>6. MetaTyped' /\ BatchesPassed'
    BY <2>1, <2>3, <2>4 DEF MetaInv, MetaTyped, BatchesPassed, Tagging!Tasks
  <2>7. ~loose' => NothingMissed'
    BY <2>1, <2>4 DEF MetaInv, NothingMissed, Tagging!Stale, Tagging!Tasks
  <2> QED
    BY <2>5, <2>6, <2>7 DEF MetaInv
<1> QED
  BY <1>1, <1>2, <1>3

\* Every step keeps the invariant.
LEMMA MetaNext == MetaBounds /\ MetaInv /\ [Tagging!Next]_(Tagging!metadataVars) => MetaInv'
<1> SUFFICES ASSUME MetaBounds, MetaInv, [Tagging!Next]_(Tagging!metadataVars) PROVE MetaInv'
  OBVIOUS
<1>1. CASE UNCHANGED Tagging!metadataVars
  BY <1>1 DEF Tagging!metadataVars, MetaInv, MetaTyped, InTurn, BatchesPassed, NothingMissed, Tagging!Stale
<1>2. CASE Tagging!Next
  BY <1>2, FieldsNext, PutNext, MirrorNext, LoadedNext, UpsertNext, IngestNext, TaskEnds
     DEF Tagging!Next
<1> QED
  BY <1>1, <1>2

\* At rest the points say what the row says, and a clause reads it as the search means it.
LEMMA FoundByRow == MetaBounds /\ MetaInv => Tagging!FindsByMetadata
<1> SUFFICES ASSUME MetaBounds, MetaInv, Tagging!AtRest, Tagging!Indexed, ~loose,
                    NEW s \in Filters, Tagging!Known(s), Tagging!Proper(s), NEW b \in Parts
             PROVE  Tagging!Holds(Tagging!Clause(s), tagged[active][b]) <=> Tagging!Wanted(s, meta)
  BY DEF Tagging!FindsByMetadata
<1>1. tagged[active][b] = meta
  BY DEF Tagging!AtRest, Tagging!Indexed, MetaInv, NothingMissed
<1>2. meta[s.field] \in Nat /\ s.range \in BOOLEAN /\ s.from \in Nat /\ s.to \in Nat
  BY DEF Tagging!Known, MetaInv, MetaTyped, MetaBounds, Values
<1>3. CASE Kinds[s.field] # "date"
  BY <1>1, <1>2, <1>3 DEF Tagging!Clause, Tagging!Holds, Tagging!Wanted, Tagging!Unset
<1>4. CASE Kinds[s.field] = "date" /\ ~s.range
  <2>1. s.from \in 1..2
    BY <1>2, <1>4 DEF Tagging!Proper, Tagging!Bounds, Tagging!Valid
  <2>2. Tagging!Clause(s) = [field |-> s.field, gte |-> 2 * s.from, lte |-> 2 * s.from + 1]
    BY <1>4, <2>1 DEF Tagging!Clause, Tagging!Bounds, Tagging!Unset
  <2> QED
    BY <1>1, <1>2, <1>4, <2>1, <2>2 DEF Tagging!Holds, Tagging!Wanted, Tagging!Unset
<1>5. CASE Kinds[s.field] = "date" /\ s.range
  <2>1. Tagging!Clause(s) = [field |-> s.field, gte |-> 2 * s.from,
                             lte |-> IF s.to = 0 THEN -1 ELSE 2 * s.to + 1]
    BY <1>5 DEF Tagging!Clause, Tagging!Bounds, Tagging!Unset
  <2> QED
    BY <1>1, <1>2, <1>5, <2>1 DEF Tagging!Holds, Tagging!Wanted, Tagging!Unset
<1> QED
  BY <1>2, <1>3, <1>4, <1>5

\* A search by metadata finds the points of a document exactly when its row has the
\* value, once nobody writes and no writer missed a change, for any fields, callers and
\* number of batches: set_document_metadata, run_embed_upsert, build_clauses.
THEOREM FindsByMetadataAlways ==
  ASSUME MetaBounds PROVE Tagging!Spec => []Tagging!FindsByMetadata
<1>1. MetaInv /\ [Tagging!Next]_(Tagging!metadataVars) => MetaInv'
  BY MetaNext
<1> QED
  BY MetaInit, <1>1, FoundByRow, PTL DEF Tagging!Spec

-----------------------------------------------------------------------------
(* Folders.  Rows are added, rolled back, committed, moved and deleted; a     *)
(* folder that is moved stays apart from what is below it; and until the     *)
(* tree is stirred, whoever walks down a path keeps to the rows of the path.  *)

\* Ids, names and requests are not the words the rows use for none, and a path given to
\* ensure_path has a segment.
FolderBounds ==
    /\ IsFiniteSet(Shelves) /\ "root" \notin Shelves /\ "keep" \notin Shelves
    /\ "root" \notin Filers /\ "nobody" \notin Filers /\ "deleted" \notin Filers
    /\ "keep" \notin Titles
    /\ \A p \in Ways : p \in Seq(Titles) /\ Len(p) > 0

Places == Shelves \union {"root"}
FolderRow == [parent : Places, name : Titles \union {"keep"},
              by : Filers \union {"root", "nobody", "deleted"}]
Filing == [pc : {"idle", "segment", "insert", "reread", "commit", "done", "failed", "create",
                 "move", "delete", "file"},
           path : Seq(Titles) \union Seq(Shelves), n : Nat, at : Places \union {"keep"},
           name : Titles \union {"keep"}, docs : SUBSET Filed]
Document == [folder : Places, status : {"none", "stored", "deleting", "gone"}]

Alive == {f \in Shelves : folder[f].by \in Filers \union {"root"}}
Ensuring == {"segment", "insert", "reread"}
Ensured == {"commit", "done"}

\* What a request remembers between its reading and its commit.
Remembers(q, r) ==
    /\ r.pc \in Ensuring \union Ensured =>
         r.path \in Seq(Titles) /\ r.at \in Places /\ Len(r.path) > 0
    /\ r.pc \in Ensuring => r.n \in 1..Len(r.path)
    /\ r.pc \in Ensured => r.n = Len(r.path) + 1
    /\ r.pc = "create" => r.at \in Places /\ r.name \in Titles
    /\ r.pc = "move" => q \in Movers /\ r.path[1] \in Shelves
    /\ r.pc = "file" => r.at \in Places

\* An id is drawn once, and only rows that were drawn have rows below them.
RowsHold ==
    \A f \in Shelves :
        /\ f \in Alive => folder[f].name \in Titles
        /\ folder[f].by = "nobody" => folder[f] = Shelving!Unborn
        /\ folder[f].by = "deleted" => folder[f] = Shelving!Gone
        /\ folder[f].parent \in Shelves => folder[folder[f].parent].by # "nobody"

FolderInv ==
    /\ folder \in [Shelves -> FolderRow] /\ doc \in [Filed -> Document]
    /\ task \in [Filers -> Filing] /\ stirred \in BOOLEAN
    /\ RowsHold
    /\ \A q \in Filers : Remembers(q, task[q])
    /\ Shelving!DeletionsAreQueued

\* The ways in which a step changes the rows.
Adds(q, p, n, b) ==
    /\ p \in Shelving!Visible(q) \union {"root"} /\ n \in Titles /\ b \in {q, "root"}
    /\ Shelving!Named(Alive, p, n) = {}
    /\ \E f \in Shelves : /\ folder[f] = Shelving!Unborn
                          /\ folder' = [folder EXCEPT ![f] = Shelving!Row(p, n, b)]
RollsBack(q) == folder' = [f \in Shelves |-> IF folder[f].by = q THEN Shelving!Gone ELSE folder[f]]
Commits(q) ==
    folder' = [f \in Shelves |-> IF folder[f].by = q THEN [folder[f] EXCEPT !.by = "root"]
                                 ELSE folder[f]]

\* A set of naturals that has an element has a least one.
LEMMA LeastNat ==
    ASSUME NEW T, T \subseteq Nat, T # {}
    PROVE  \E n \in T : \A m \in T : n <= m
<1> DEFINE R == {ss \in Nat \X Nat : ss[1] < ss[2]}
<1>1. IsWellFoundedOn(R, Nat)
  BY NatLessThanWellFounded, Zenon DEF OpToRel
<1>2. PICK n \in T : \A m \in T : ~ (<<m, n>> \in R)
  <2> HIDE DEF R
  <2> QED BY <1>1, WFMin, Zenon
<1>3. ASSUME NEW m \in T PROVE n <= m
  <2>1. m \in Nat /\ n \in Nat
    OBVIOUS
  <2>2. <<m, n>>[1] = m /\ <<m, n>>[2] = n /\ <<m, n>> \in Nat \X Nat
    BY <2>1
  <2>3. ~(<<m, n>>[1] < <<m, n>>[2])
    BY <1>2, <2>2, Zenon
  <2>4. QED
    BY <2>1, <2>2, <2>3
<1>4. QED
  BY <1>3

\* A request's memory changes.
LEMMA TaskStep ==
  ASSUME FolderInv, NEW q \in Filers, NEW r, r \in Filing, Shelving!Step(q, r)
  PROVE  /\ task' \in [Filers -> Filing] /\ task'[q] = r
         /\ \A p \in Filers : p # q => task'[p] = task[p]
BY DEF FolderInv, Shelving!Step

\* The states of a request, and the states of a row.
LEMMA TaskTypes ==
  ASSUME FolderInv, NEW q \in Filers
  PROVE  /\ task[q] \in Filing /\ Remembers(q, task[q])
         /\ task[q].path \in Seq(Titles) \union Seq(Shelves) /\ task[q].n \in Nat
         /\ task[q].at \in Places \union {"keep"} /\ task[q].name \in Titles \union {"keep"}
         /\ task[q].docs \in SUBSET Filed
BY DEF FolderInv, Filing

\* A request that is done, or died, remembers nothing.
LEMMA IdleStep ==
  ASSUME FolderInv, NEW q \in Filers, Shelving!Done(q)
  PROVE  /\ task' \in [Filers -> Filing] /\ task'[q] = Shelving!Idle
         /\ \A p \in Filers : Remembers(p, task'[p])
         /\ \A p \in Filers : p # q => task'[p] = task[p]
<1>1. /\ Shelving!Idle \in Filing /\ Remembers(q, Shelving!Idle)
      /\ Shelving!Step(q, Shelving!Idle)
  <2>1. <<>> \in Seq(Titles) /\ 1 \in Nat
    OBVIOUS
  <2> QED
    BY <2>1 DEF Shelving!Idle, Shelving!Root, Shelving!Keep, Filing, Places, Remembers, Ensuring,
       Ensured, Shelving!Done
<1>2. /\ task' \in [Filers -> Filing] /\ task'[q] = Shelving!Idle
      /\ \A p \in Filers : p # q => task'[p] = task[p]
  BY <1>1, TaskStep
<1> QED
  BY <1>1, <1>2 DEF FolderInv

\* A name that is not refused, and that nobody else is about to use, is free.
LEMMA FreeName ==
  ASSUME FolderBounds, FolderInv, NEW q \in Filers, NEW p, NEW n \in Titles,
         ~Shelving!MustWait(q, p, n), ~Shelving!Refused(q, p, n)
  PROVE  p \in Shelving!Visible(q) \union {"root"} /\ Shelving!Named(Alive, p, n) = {}
BY DEF Shelving!MustWait, Shelving!Refused, Shelving!Named, Shelving!Visible, Alive, Shelving!Root

\* A row that is drawn had never been used.
LEMMA DrawnIsUnused ==
  ASSUME NEW f \in Shelving!Drawn
  PROVE  f \in Shelves /\ folder[f] = Shelving!Unborn
BY DEF Shelving!Drawn, Shelving!Unused

\* Rows that were added, rolled back, committed or deleted are as they should be.
LEMMA AddedRows ==
  ASSUME FolderBounds, FolderInv, NEW q \in Filers, NEW p, NEW n, NEW b, Adds(q, p, n, b)
  PROVE  folder' \in [Shelves -> FolderRow] /\ RowsHold'
<1>1. PICK f \in Shelves : /\ folder[f] = Shelving!Unborn
                           /\ folder' = [folder EXCEPT ![f] = Shelving!Row(p, n, b)]
  BY DEF Adds
<1>2. PICK x : x = Shelving!Row(p, n, b)
  OBVIOUS
<1>3. /\ x \in FolderRow /\ x.parent = p /\ x.name = n /\ x.by = b
      /\ b \in Filers \union {"root"} /\ n \in Titles
      /\ p \in Shelves => folder[p].by \in Filers \union {"root"}
  BY <1>2 DEF Shelving!Row, Adds, FolderRow, Places, Shelving!Visible, Shelving!Root, FolderBounds
<1>4. /\ folder' \in [Shelves -> FolderRow] /\ folder'[f] = x
      /\ \A g \in Shelves : g # f => folder'[g] = folder[g]
  BY <1>1, <1>2, <1>3 DEF FolderInv
<1>5. folder[f].by = "nobody"
  BY <1>1 DEF Shelving!Unborn, Shelving!Row
<1>6. ASSUME NEW g \in Shelves
      PROVE  /\ (g \in Alive)' => folder'[g].name \in Titles
             /\ folder'[g].by = "nobody" => folder'[g] = Shelving!Unborn
             /\ folder'[g].by = "deleted" => folder'[g] = Shelving!Gone
             /\ folder'[g].parent \in Shelves => folder'[folder'[g].parent].by # "nobody"
  <2>1. CASE g = f
    <3>1. b # "nobody" /\ b # "deleted"
      BY <1>3 DEF FolderBounds
    <3>2. p \in Shelves => p # f
      BY <1>3, <1>5 DEF FolderBounds
    <3> QED
      BY <1>3, <1>4, <2>1, <3>1, <3>2 DEF FolderBounds
  <2>2. CASE g # f
    <3>1. folder'[g] = folder[g] /\ ((g \in Alive)' <=> g \in Alive)
      BY <1>4, <2>2 DEF Alive
    <3>2. folder[g].parent \in Shelves => folder'[folder[g].parent].by # "nobody"
      BY <1>3, <1>4 DEF FolderInv, RowsHold, FolderBounds
    <3> QED
      BY <3>1, <3>2 DEF FolderInv, RowsHold
  <2> QED
    BY <2>1, <2>2
<1> QED
  BY <1>4, <1>6 DEF RowsHold

\* The rows that are deleted are gone, and the others are as they were.
LEMMA LostRows ==
  ASSUME FolderBounds, FolderInv, NEW S,
         folder' = [f \in Shelves |-> IF f \in S THEN Shelving!Gone ELSE folder[f]]
  PROVE  folder' \in [Shelves -> FolderRow] /\ RowsHold'
<1>1. PICK x : x = Shelving!Gone
  OBVIOUS
<1>2. x \in FolderRow /\ x.parent = "root" /\ x.by = "deleted"
  BY <1>1 DEF Shelving!Gone, Shelving!Row, Shelving!Root, Shelving!Keep, FolderRow, Places
<1>3. /\ folder' \in [Shelves -> FolderRow]
      /\ \A f \in Shelves : folder'[f] = IF f \in S THEN x ELSE folder[f]
  BY <1>1, <1>2 DEF FolderInv
<1>4. ASSUME NEW g \in Shelves
      PROVE  /\ (g \in Alive)' => folder'[g].name \in Titles
             /\ folder'[g].by = "nobody" => folder'[g] = Shelving!Unborn
             /\ folder'[g].by = "deleted" => folder'[g] = Shelving!Gone
             /\ folder'[g].parent \in Shelves => folder'[folder'[g].parent].by # "nobody"
  <2>1. CASE g \in S
    <3>1. folder'[g] = x
      BY <1>3, <2>1
    <3> QED
      BY <1>1, <1>2, <3>1 DEF Alive, FolderBounds
  <2>2. CASE g \notin S
    <3>1. folder'[g] = folder[g] /\ ((g \in Alive)' <=> g \in Alive)
      BY <1>3, <2>2 DEF Alive
    <3>2. folder[g].parent \in Shelves => folder'[folder[g].parent].by # "nobody"
      BY <1>2, <1>3 DEF FolderInv, RowsHold
    <3> QED
      BY <3>1, <3>2 DEF FolderInv, RowsHold
  <2> QED
    BY <2>1, <2>2
<1> QED
  BY <1>3, <1>4 DEF RowsHold

\* The rows of a request that goes back are gone.
LEMMA RolledBackRows ==
  ASSUME FolderBounds, FolderInv, NEW q, RollsBack(q)
  PROVE  folder' \in [Shelves -> FolderRow] /\ RowsHold'
<1>1. folder' = [f \in Shelves |-> IF f \in {g \in Shelves : folder[g].by = q} THEN Shelving!Gone
                                   ELSE folder[f]]
  BY DEF RollsBack
<1> QED
  BY <1>1, LostRows

\* The rows of a request that commits are everybody's.
LEMMA CommittedRows ==
  ASSUME FolderBounds, FolderInv, NEW q \in Filers, Commits(q)
  PROVE  folder' \in [Shelves -> FolderRow] /\ RowsHold'
<1>1. ASSUME NEW f \in Shelves
      PROVE  /\ folder'[f] \in FolderRow
             /\ folder'[f].parent = folder[f].parent /\ folder'[f].name = folder[f].name
             /\ folder'[f].by = IF folder[f].by = q THEN "root" ELSE folder[f].by
             /\ folder[f].by # q => folder'[f] = folder[f]
  <2>1. folder[f] \in FolderRow
    BY DEF FolderInv
  <2>2. folder'[f] = IF folder[f].by = q THEN [folder[f] EXCEPT !.by = "root"] ELSE folder[f]
    BY DEF Commits
  <2> QED
    BY <2>1, <2>2 DEF FolderRow
<1>2. folder' \in [Shelves -> FolderRow]
  BY <1>1 DEF Commits
<1>3. ASSUME NEW g \in Shelves
      PROVE  /\ (g \in Alive)' => folder'[g].name \in Titles
             /\ folder'[g].by = "nobody" => folder'[g] = Shelving!Unborn
             /\ folder'[g].by = "deleted" => folder'[g] = Shelving!Gone
             /\ folder'[g].parent \in Shelves => folder'[folder'[g].parent].by # "nobody"
  <2>1. (g \in Alive)' <=> g \in Alive
    BY <1>1 DEF Alive
  <2>2. folder[g].parent \in Shelves => folder'[folder[g].parent].by # "nobody"
    BY <1>1 DEF FolderInv, RowsHold
  <2> QED
    BY <1>1, <2>1, <2>2 DEF FolderInv, RowsHold
<1> QED
  BY <1>2, <1>3 DEF RowsHold

\* One request's memory changes and it remembers what it should; the rest of the invariant
\* does not look at it.
LEMMA RememberStep ==
  ASSUME FolderInv, NEW q \in Filers, NEW r, r \in Filing, Remembers(q, r), Shelving!Step(q, r),
         UNCHANGED <<doc, queued>>, stirred' \in BOOLEAN,
         folder' \in [Shelves -> FolderRow], RowsHold'
  PROVE  FolderInv'
<1>1. /\ task' \in [Filers -> Filing] /\ task'[q] = r
      /\ \A p \in Filers : p # q => task'[p] = task[p]
  BY TaskStep
<1>2. \A p \in Filers : Remembers(p, task'[p])
  BY <1>1 DEF FolderInv
<1>3. Shelving!DeletionsAreQueued'
  BY DEF FolderInv, Shelving!DeletionsAreQueued
<1> QED
  BY <1>1, <1>2, <1>3 DEF FolderInv

\* It remembers the next segment.
LEMMA DeeperStep ==
  ASSUME FolderBounds, FolderInv, NEW q \in Filers, NEW f \in Shelves, task[q].pc \in Ensuring,
         NEW r, r = Shelving!Deeper(task[q], f)
  PROVE  /\ r \in Filing /\ Remembers(q, r) /\ r.at = f /\ r.n = task[q].n + 1
         /\ r.path = task[q].path
         /\ r.pc = IF task[q].n = Len(task[q].path) THEN "commit" ELSE "segment"
<1>1. /\ task[q] \in Filing /\ Remembers(q, task[q]) /\ task[q].n \in Nat
  BY TaskTypes
<1>2. PICK pc : pc = IF task[q].n = Len(task[q].path) THEN "commit" ELSE "segment"
  OBVIOUS
<1>3. /\ task[q].path \in Seq(Titles) /\ Len(task[q].path) \in Nat /\ Len(task[q].path) > 0
      /\ task[q].n \in 1..Len(task[q].path)
  BY <1>1 DEF Remembers
<1>4. PICK n \in Nat : n = task[q].n + 1
  BY <1>1
<1>5. r = [task[q] EXCEPT !.at = f, !.n = n, !.pc = pc]
  BY <1>2, <1>4 DEF Shelving!Deeper
<1>6. r \in Filing /\ r.at = f /\ r.n = n /\ r.path = task[q].path /\ r.pc = pc
  BY <1>1, <1>2, <1>5 DEF Filing, Places
<1>7. /\ pc = "segment" => n \in 1..Len(task[q].path)
      /\ pc = "commit" => n = Len(task[q].path) + 1
  BY <1>2, <1>3, <1>4
<1>8. Remembers(q, r)
  BY <1>2, <1>3, <1>6, <1>7 DEF Remembers, Ensuring, Ensured, Places
<1> QED
  BY <1>2, <1>4, <1>6, <1>8

\* What a request remembers when it has read.
Reading(q, r) ==
    \/ r.pc \in {"create", "delete", "file"}
    \/ r.pc = "move" /\ Shelving!Move(q)
    \/ r.pc = "segment" /\ r.n = 1 /\ r.at = "root"

\* What the requests read.
LEMMA ReadersNext ==
  ASSUME FolderBounds, FolderInv, NEW q \in Filers,
         \/ Shelving!Create(q) \/ Shelving!EnsurePath(q) \/ Shelving!Move(q)
         \/ Shelving!Delete(q) \/ Shelving!File(q)
  PROVE  /\ FolderInv' /\ UNCHANGED <<folder, stirred>> /\ task[q].pc = "idle"
         /\ \E r : Shelving!Step(q, r) /\ Reading(q, r)
<1>0. task[q].pc = "idle"
  BY DEF Shelving!Create, Shelving!EnsurePath, Shelving!Move, Shelving!Delete, Shelving!File
<1>1. UNCHANGED <<folder, doc, queued, stirred>>
  BY DEF Shelving!Create, Shelving!EnsurePath, Shelving!Move, Shelving!Delete, Shelving!File
<1>2. ASSUME NEW r, r \in Filing, Remembers(q, r), Shelving!Step(q, r), Reading(q, r)
      PROVE  /\ FolderInv' /\ UNCHANGED <<folder, stirred>> /\ task[q].pc = "idle"
             /\ \E s : Shelving!Step(q, s) /\ Reading(q, s)
  <2>1. folder' \in [Shelves -> FolderRow] /\ RowsHold' /\ stirred' \in BOOLEAN
    BY <1>1 DEF FolderInv, RowsHold, Alive
  <2>2. UNCHANGED <<doc, queued>>
    BY <1>1
  <2>3. FolderInv'
    BY <1>2, <2>1, <2>2, RememberStep
  <2> QED
    BY <1>0, <1>1, <1>2, <2>3
<1>3. PICK idle : idle = Shelving!Idle
  OBVIOUS
<1>4. idle = [pc |-> "idle", path |-> <<>>, n |-> 0, at |-> "root", name |-> "keep", docs |-> {}]
  BY <1>3 DEF Shelving!Idle, Shelving!Root, Shelving!Keep
<1>5. idle \in Filing
  <2>1. <<>> \in Seq(Titles) /\ 0 \in Nat
    OBVIOUS
  <2> QED
    BY <1>4, <2>1 DEF Filing, Places
<1>6. CASE Shelving!Create(q)
  <2>1. PICK p \in Shelving!Committed \union {"root"}, n \in Titles :
          Shelving!Step(q, [idle EXCEPT !.pc = "create", !.at = p, !.name = n])
    BY <1>3, <1>6 DEF Shelving!Create, Shelving!Root
  <2>2. PICK r : r = [idle EXCEPT !.pc = "create", !.at = p, !.name = n]
    OBVIOUS
  <2>3. p \in Places
    BY DEF Shelving!Committed, Places
  <2>4. r \in Filing /\ Remembers(q, r) /\ r.pc = "create"
    BY <1>5, <2>2, <2>3 DEF Filing, Remembers, Ensuring, Ensured
  <2>5. Reading(q, r)
    BY <2>4 DEF Reading
  <2> QED
    BY <1>2, <2>1, <2>2, <2>4, <2>5
<1>7. CASE Shelving!EnsurePath(q)
  <2>1. PICK p \in Ways :
          Shelving!Step(q, [idle EXCEPT !.pc = "segment", !.path = p, !.n = 1])
    BY <1>3, <1>7 DEF Shelving!EnsurePath
  <2>2. PICK r : r = [idle EXCEPT !.pc = "segment", !.path = p, !.n = 1]
    OBVIOUS
  <2>3. p \in Seq(Titles) /\ Len(p) \in Nat /\ Len(p) > 0
    BY DEF FolderBounds
  <2>4. PICK one \in Nat : one = 1
    OBVIOUS
  <2>5. r \in Filing /\ r.pc = "segment" /\ r.path = p /\ r.n = one /\ r.at = "root"
    BY <1>4, <1>5, <2>2, <2>3, <2>4 DEF Filing
  <2>6. one \in 1..Len(p)
    BY <2>3, <2>4
  <2>7. Remembers(q, r)
    BY <2>3, <2>5, <2>6 DEF Remembers, Ensuring, Ensured, Places
  <2>8. Reading(q, r)
    BY <2>4, <2>5 DEF Reading
  <2> QED
    BY <1>2, <2>1, <2>2, <2>5, <2>7, <2>8
<1>8. CASE Shelving!Move(q)
  <2>1. PICK f \in Shelving!Committed, p \in Shelving!Committed \union {"root", "keep"},
             n \in Titles \union {"keep"} :
          Shelving!Step(q, [idle EXCEPT !.pc = "move", !.path = <<f>>, !.at = p, !.name = n])
    BY <1>3, <1>8 DEF Shelving!Move, Shelving!Root, Shelving!Keep
  <2>2. PICK r : r = [idle EXCEPT !.pc = "move", !.path = <<f>>, !.at = p, !.name = n]
    OBVIOUS
  <2>3. f \in Shelves /\ p \in Places \union {"keep"}
    BY DEF Shelving!Committed, Places
  <2>4. PICK path : path = <<f>>
    OBVIOUS
  <2>5. path \in Seq(Shelves) /\ path[1] = f
    BY <2>3, <2>4
  <2>6. r \in Filing /\ r.pc = "move" /\ r.path = path
    BY <1>5, <2>2, <2>3, <2>4, <2>5 DEF Filing
  <2>7. q \in Movers
    BY <1>8 DEF Shelving!Move
  <2>8. Remembers(q, r)
    BY <2>3, <2>5, <2>6, <2>7 DEF Remembers, Ensuring, Ensured
  <2>9. Reading(q, r)
    BY <1>8, <2>6 DEF Reading
  <2> QED
    BY <1>2, <2>1, <2>2, <2>6, <2>8, <2>9
<1>9. CASE Shelving!Delete(q)
  <2>1. PICK f \in Shelving!Committed, docs \in SUBSET Filed :
          Shelving!Step(q, [idle EXCEPT !.pc = "delete", !.path = <<f>>, !.docs = docs])
    <3>1. PICK f \in Shelving!Committed :
            Shelving!Step(q, [idle EXCEPT !.pc = "delete", !.path = <<f>>,
                     !.docs = {d \in Filed : doc[d].status \in {"stored", "deleting"}
                                             /\ doc[d].folder \in Shelving!Subtree(f)}])
      BY <1>3, <1>9 DEF Shelving!Delete
    <3> QED
      BY <3>1
  <2>2. PICK r : r = [idle EXCEPT !.pc = "delete", !.path = <<f>>, !.docs = docs]
    OBVIOUS
  <2>3. PICK path : path = <<f>>
    OBVIOUS
  <2>4. path \in Seq(Shelves)
    BY <2>3 DEF Shelving!Committed
  <2>5. r \in Filing /\ r.pc = "delete"
    BY <1>5, <2>2, <2>3, <2>4 DEF Filing
  <2>6. Remembers(q, r)
    BY <2>5 DEF Remembers, Ensuring, Ensured
  <2>7. Reading(q, r)
    BY <2>5 DEF Reading
  <2> QED
    BY <1>2, <2>1, <2>2, <2>5, <2>6, <2>7
<1>10. CASE Shelving!File(q)
  <2>1. PICK d \in Filed, f \in Shelving!Committed \union {"root"} :
          Shelving!Step(q, [idle EXCEPT !.pc = "file", !.at = f, !.docs = {d}])
    BY <1>3, <1>10 DEF Shelving!File, Shelving!Root
  <2>2. PICK r : r = [idle EXCEPT !.pc = "file", !.at = f, !.docs = {d}]
    OBVIOUS
  <2>3. f \in Places /\ {d} \in SUBSET Filed
    BY DEF Shelving!Committed, Places
  <2>4. r \in Filing /\ r.pc = "file" /\ r.at = f
    BY <1>5, <2>2, <2>3 DEF Filing
  <2>5. Remembers(q, r)
    BY <2>3, <2>4 DEF Remembers, Ensuring, Ensured
  <2>6. Reading(q, r)
    BY <2>4 DEF Reading
  <2> QED
    BY <1>2, <2>1, <2>2, <2>4, <2>5, <2>6
<1> QED
  BY <1>6, <1>7, <1>8, <1>9, <1>10

\* The steps of ensure_path that find a segment or fail to.
LEMMA FindNext ==
  ASSUME FolderBounds, FolderInv, NEW q \in Filers,
         Shelving!FindSegment(q) \/ Shelving!RereadSegment(q)
  PROVE  FolderInv' /\ UNCHANGED folder
<1>1. /\ UNCHANGED <<folder, doc, queued, stirred>> /\ task[q].pc \in Ensuring
      /\ folder' \in [Shelves -> FolderRow] /\ RowsHold' /\ stirred' \in BOOLEAN
  BY DEF Shelving!FindSegment, Shelving!RereadSegment, FolderInv, RowsHold, Alive, Ensuring
<1>2. task[q] \in Filing /\ Remembers(q, task[q])
  BY TaskTypes
<1>3. ASSUME NEW r, r \in Filing, Remembers(q, r), Shelving!Step(q, r)
      PROVE  FolderInv'
  BY <1>1, <1>3, RememberStep
<1>4. ASSUME NEW r, Shelving!Step(q, r),
             \/ r = [task[q] EXCEPT !.pc = "insert"] /\ task[q].pc = "segment"
             \/ r = [task[q] EXCEPT !.pc = "failed"]
      PROVE  FolderInv'
  <2>1. /\ r \in Filing /\ r.pc \in {"insert", "failed"}
        /\ r.pc = "insert" => task[q].pc = "segment"
        /\ r.path = task[q].path /\ r.n = task[q].n /\ r.at = task[q].at
    BY <1>2, <1>4 DEF Filing
  <2>2. Remembers(q, r)
    BY <1>2, <2>1 DEF Remembers, Ensuring, Ensured
  <2> QED
    BY <1>3, <1>4, <2>1, <2>2
<1>5. ASSUME NEW f \in Shelves, Shelving!Step(q, Shelving!Deeper(task[q], f))
      PROVE  FolderInv'
  <2>1. PICK r : r = Shelving!Deeper(task[q], f)
    OBVIOUS
  <2>2. r \in Filing /\ Remembers(q, r)
    BY <1>1, <2>1, DeeperStep
  <2> QED
    BY <1>3, <1>5, <2>1, <2>2
<1>6. CASE Shelving!FindSegment(q)
  <2>1. PICK r : r = [task[q] EXCEPT !.pc = "insert"]
    OBVIOUS
  <2>2. \/ task[q].pc = "segment" /\ Shelving!Step(q, r)
        \/ \E f \in Shelves : Shelving!Step(q, Shelving!Deeper(task[q], f))
    BY <1>6, <2>1 DEF Shelving!FindSegment, Shelving!Named, Shelving!Visible
  <2> QED
    BY <1>1, <1>4, <1>5, <2>1, <2>2
<1>7. CASE Shelving!RereadSegment(q)
  <2>1. PICK r : r = [task[q] EXCEPT !.pc = "failed"]
    OBVIOUS
  <2>2. \/ Shelving!Step(q, r)
        \/ \E f \in Shelves : Shelving!Step(q, Shelving!Deeper(task[q], f))
    BY <1>7, <2>1 DEF Shelving!RereadSegment, Shelving!Named, Shelving!Committed
  <2> QED
    BY <1>1, <1>4, <1>5, <2>1, <2>2
<1> QED
  BY <1>1, <1>6, <1>7

\* The insert of a segment: a row of the request's own, or a rollback.
LEMMA InsertNext ==
  ASSUME FolderBounds, FolderInv, NEW q \in Filers, Shelving!InsertSegment(q)
  PROVE  /\ FolderInv' /\ UNCHANGED stirred /\ task[q].pc = "insert"
         /\ \/ /\ Adds(q, task[q].at, task[q].path[task[q].n], q)
               /\ \E f \in Shelves :
                     /\ folder[f] = Shelving!Unborn
                     /\ folder' = [folder EXCEPT ![f] =
                                     Shelving!Row(task[q].at, task[q].path[task[q].n], q)]
                     /\ Shelving!Step(q, Shelving!Deeper(task[q], f))
            \/ /\ RollsBack(q) /\ Shelving!Step(q, [task[q] EXCEPT !.pc = "reread"])
               /\ Shelving!Refused(q, task[q].at, task[q].path[task[q].n])
<1> DEFINE n == task[q].path[task[q].n]
<1>1. /\ UNCHANGED <<doc, queued, stirred>> /\ task[q].pc = "insert" /\ task[q].pc \in Ensuring
      /\ ~Shelving!MustWait(q, task[q].at, n) /\ stirred' \in BOOLEAN
  BY DEF Shelving!InsertSegment, FolderInv, Ensuring
<1>2. task[q] \in Filing /\ Remembers(q, task[q])
  BY TaskTypes
<1>3. n \in Titles
  BY <1>1, <1>2 DEF Remembers
<1>4. CASE Shelving!Refused(q, task[q].at, n)
  <2>1. RollsBack(q) /\ Shelving!Step(q, [task[q] EXCEPT !.pc = "reread"])
    BY <1>4 DEF Shelving!InsertSegment, RollsBack
  <2>2. PICK r : r = [task[q] EXCEPT !.pc = "reread"]
    OBVIOUS
  <2>3. r \in Filing /\ r.pc = "reread" /\ r.path = task[q].path /\ r.n = task[q].n
        /\ r.at = task[q].at
    BY <1>2, <2>2 DEF Filing
  <2>4. Remembers(q, r)
    BY <1>1, <1>2, <2>3 DEF Remembers, Ensuring, Ensured
  <2>5. folder' \in [Shelves -> FolderRow] /\ RowsHold'
    BY <2>1, RolledBackRows
  <2>6. FolderInv'
    BY <1>1, <2>1, <2>2, <2>3, <2>4, <2>5, RememberStep
  <2> QED
    BY <1>1, <1>4, <2>1, <2>6
<1>5. CASE ~Shelving!Refused(q, task[q].at, n)
  <2>1. PICK f \in Shelving!Drawn :
          /\ folder' = [folder EXCEPT ![f] = Shelving!Row(task[q].at, n, q)]
          /\ Shelving!Step(q, Shelving!Deeper(task[q], f))
    BY <1>5 DEF Shelving!InsertSegment
  <2>2. f \in Shelves /\ folder[f] = Shelving!Unborn
    BY DrawnIsUnused
  <2>3. /\ task[q].at \in Shelving!Visible(q) \union {"root"}
        /\ Shelving!Named(Alive, task[q].at, n) = {}
    BY <1>1, <1>3, <1>5, FreeName
  <2>4. Adds(q, task[q].at, n, q)
    BY <1>3, <2>1, <2>2, <2>3 DEF Adds
  <2>5. folder' \in [Shelves -> FolderRow] /\ RowsHold'
    BY <2>4, AddedRows
  <2>6. PICK r : r = Shelving!Deeper(task[q], f)
    OBVIOUS
  <2>7. r \in Filing /\ Remembers(q, r)
    BY <1>1, <2>2, <2>6, DeeperStep
  <2>8. FolderInv'
    BY <1>1, <2>1, <2>5, <2>6, <2>7, RememberStep
  <2> QED
    BY <1>1, <2>1, <2>2, <2>4, <2>8
<1> QED
  BY <1>4, <1>5

\* The commit of ensure_path.
LEMMA EnsureCommitNext ==
  ASSUME FolderBounds, FolderInv, NEW q \in Filers, Shelving!EnsureCommit(q)
  PROVE  /\ FolderInv' /\ Commits(q) /\ UNCHANGED stirred /\ task[q].pc = "commit"
         /\ Shelving!Step(q, [task[q] EXCEPT !.pc = "done"])
<1>1. /\ UNCHANGED <<doc, queued, stirred>> /\ task[q].pc = "commit" /\ stirred' \in BOOLEAN
      /\ Shelving!Step(q, [task[q] EXCEPT !.pc = "done"]) /\ Commits(q)
  BY DEF Shelving!EnsureCommit, FolderInv, Commits, Shelving!Root
<1>2. task[q] \in Filing /\ Remembers(q, task[q])
  BY TaskTypes
<1>3. PICK r : r = [task[q] EXCEPT !.pc = "done"]
  OBVIOUS
<1>4. r \in Filing /\ r.pc = "done" /\ r.path = task[q].path /\ r.n = task[q].n
      /\ r.at = task[q].at
  BY <1>2, <1>3 DEF Filing
<1>5. Remembers(q, r)
  BY <1>1, <1>2, <1>4 DEF Remembers, Ensuring, Ensured
<1>6. folder' \in [Shelves -> FolderRow] /\ RowsHold'
  BY <1>1, CommittedRows
<1>7. FolderInv'
  BY <1>1, <1>3, <1>4, <1>5, <1>6, RememberStep
<1> QED
  BY <1>1, <1>7

\* A request whose commit, or death, ends it.
LEMMA EndingStep ==
  ASSUME FolderInv, NEW q \in Filers, Shelving!Done(q), stirred' \in BOOLEAN,
         folder' \in [Shelves -> FolderRow], RowsHold',
         doc' \in [Filed -> Document], Shelving!DeletionsAreQueued'
  PROVE  FolderInv'
BY IdleStep DEF FolderInv

\* create_folder.
LEMMA CreateNext ==
  ASSUME FolderBounds, FolderInv, NEW q \in Filers, Shelving!CreateCommit(q)
  PROVE  /\ FolderInv' /\ UNCHANGED stirred /\ Shelving!Done(q) /\ task[q].pc = "create"
         /\ UNCHANGED folder \/ Adds(q, task[q].at, task[q].name, "root")
<1>1. /\ UNCHANGED <<doc, queued, stirred>> /\ Shelving!Done(q) /\ task[q].pc = "create"
      /\ stirred' \in BOOLEAN /\ doc' \in [Filed -> Document] /\ Shelving!DeletionsAreQueued'
  BY DEF Shelving!CreateCommit, FolderInv, Shelving!DeletionsAreQueued
<1>2. task[q].name \in Titles
  BY <1>1, TaskTypes DEF Remembers
<1>3. CASE UNCHANGED folder
  <2>1. folder' \in [Shelves -> FolderRow] /\ RowsHold'
    BY <1>3 DEF FolderInv, RowsHold, Alive
  <2> QED
    BY <1>1, <1>3, <2>1, EndingStep
<1>4. CASE ~UNCHANGED folder
  <2>1. PICK f \in Shelving!Drawn :
          folder' = [folder EXCEPT ![f] = Shelving!Row(task[q].at, task[q].name, "root")]
    BY <1>4 DEF Shelving!CreateCommit, Shelving!Root
  <2>2. f \in Shelves /\ folder[f] = Shelving!Unborn
    BY DrawnIsUnused
  <2>3. /\ ~Shelving!MustWait(q, task[q].at, task[q].name)
        /\ ~Shelving!Refused(q, task[q].at, task[q].name)
    BY <1>4 DEF Shelving!CreateCommit
  <2>4. Adds(q, task[q].at, task[q].name, "root")
    BY <1>2, <2>1, <2>2, <2>3, FreeName DEF Adds
  <2>5. folder' \in [Shelves -> FolderRow] /\ RowsHold'
    BY <2>4, AddedRows
  <2> QED
    BY <1>1, <2>4, <2>5, EndingStep
<1> QED
  BY <1>3, <1>4

\* A row that is renamed or moved.
Moves(q, f, p, n) ==
    /\ p \in Shelving!Committed \union {"root"} /\ n \in Titles /\ f \in Shelving!Committed
    /\ folder' = [folder EXCEPT ![f] = Shelving!Row(p, n, "root")]

\* rename_or_move_folder.
LEMMA MoveNext ==
  ASSUME FolderBounds, FolderInv, NEW q \in Filers, Shelving!MoveCommit(q)
  PROVE  /\ FolderInv' /\ Shelving!Done(q) /\ task[q].pc = "move"
         /\ \/ UNCHANGED <<folder, stirred>>
            \/ /\ stirred' = TRUE
               /\ \E n \in Titles :
                     Moves(q, task[q].path[1],
                           IF task[q].at = "keep" THEN folder[task[q].path[1]].parent
                           ELSE task[q].at, n)
<1>1. /\ UNCHANGED <<doc, queued>> /\ Shelving!Done(q) /\ task[q].pc = "move"
      /\ stirred' \in BOOLEAN /\ doc' \in [Filed -> Document] /\ Shelving!DeletionsAreQueued'
  BY DEF Shelving!MoveCommit, FolderInv, Shelving!DeletionsAreQueued
<1>2. task[q].name \in Titles \union {"keep"} /\ task[q].path[1] \in Shelves
  BY <1>1, TaskTypes DEF Remembers
<1>3. CASE UNCHANGED <<folder, stirred>>
  <2>1. folder' \in [Shelves -> FolderRow] /\ RowsHold'
    BY <1>3 DEF FolderInv, RowsHold, Alive
  <2> QED
    BY <1>1, <1>3, <2>1, EndingStep
<1>4. CASE ~UNCHANGED <<folder, stirred>>
  <2>1. PICK f, p, n :
          /\ f = task[q].path[1] /\ f \in Shelving!Committed /\ f \in Shelves
          /\ p = (IF task[q].at = "keep" THEN folder[f].parent ELSE task[q].at)
          /\ n = (IF task[q].name = "keep" THEN folder[f].name ELSE task[q].name)
          /\ p \in Shelving!Committed \union {"root"}
          /\ folder' = [folder EXCEPT ![f] = Shelving!Row(p, n, "root")] /\ stirred' = TRUE
    BY <1>2, <1>4 DEF Shelving!MoveCommit, Shelving!Root, Shelving!Keep
  <2>2. f \in Alive /\ folder[f].name \in Titles
    BY <2>1 DEF Shelving!Committed, Shelving!Root, Alive, FolderInv, RowsHold
  <2>3. n \in Titles
    BY <1>2, <2>1, <2>2
  <2>4. PICK x : x = Shelving!Row(p, n, "root")
    OBVIOUS
  <2>5. /\ x \in FolderRow /\ x.parent = p /\ x.name = n /\ x.by = "root"
        /\ p \in Shelves => folder[p].by = "root"
    BY <2>1, <2>3, <2>4 DEF Shelving!Row, FolderRow, Places, Shelving!Committed, Shelving!Root,
       FolderBounds
  <2>6. /\ folder' \in [Shelves -> FolderRow] /\ folder'[f] = x
        /\ \A g \in Shelves : g # f => folder'[g] = folder[g]
    BY <2>1, <2>4, <2>5 DEF FolderInv
  <2>7. folder[f].by = "root"
    BY <2>1 DEF Shelving!Committed, Shelving!Root
  <2>8. ASSUME NEW g \in Shelves
        PROVE  /\ (g \in Alive)' => folder'[g].name \in Titles
               /\ folder'[g].by = "nobody" => folder'[g] = Shelving!Unborn
               /\ folder'[g].by = "deleted" => folder'[g] = Shelving!Gone
               /\ folder'[g].parent \in Shelves => folder'[folder'[g].parent].by # "nobody"
    <3>1. CASE g = f
      BY <2>3, <2>5, <2>6, <3>1
    <3>2. CASE g # f
      <4>1. folder'[g] = folder[g] /\ ((g \in Alive)' <=> g \in Alive)
        BY <2>6, <3>2 DEF Alive
      <4>2. folder[g].parent \in Shelves => folder'[folder[g].parent].by # "nobody"
        BY <2>5, <2>6 DEF FolderInv, RowsHold
      <4> QED
        BY <4>1, <4>2 DEF FolderInv, RowsHold
    <3> QED
      BY <3>1, <3>2
  <2>9. RowsHold'
    BY <2>8 DEF RowsHold
  <2>10. FolderInv'
    BY <1>1, <2>6, <2>9, EndingStep
  <2>11. Moves(q, f, p, n)
    BY <2>1, <2>3 DEF Moves
  <2> QED
    BY <1>1, <2>1, <2>3, <2>10, <2>11
<1> QED
  BY <1>3, <1>4

\* delete_folder: what it deletes has its event.
LEMMA DeleteNext ==
  ASSUME FolderBounds, FolderInv, NEW q \in Filers, Shelving!DeleteCommit(q)
  PROVE  /\ FolderInv' /\ Shelving!Done(q) /\ task[q].pc = "delete"
         /\ \/ UNCHANGED <<folder, stirred>>
            \/ /\ stirred' = TRUE
               /\ \E S : folder' = [f \in Shelves |-> IF f \in S THEN Shelving!Gone ELSE folder[f]]
<1>1. Shelving!Done(q) /\ task[q].pc = "delete"
  BY DEF Shelving!DeleteCommit
<1>2. CASE UNCHANGED <<folder, doc, queued, stirred>>
  <2>1. /\ folder' \in [Shelves -> FolderRow] /\ RowsHold' /\ stirred' \in BOOLEAN
        /\ doc' \in [Filed -> Document] /\ Shelving!DeletionsAreQueued'
    BY <1>2 DEF FolderInv, RowsHold, Alive, Shelving!DeletionsAreQueued
  <2> QED
    BY <1>1, <1>2, <2>1, EndingStep
<1>3. CASE ~UNCHANGED <<folder, doc, queued, stirred>>
  <2>1. PICK S : /\ doc' = [d \in Filed |->
                       [folder |-> IF doc[d].folder \in S THEN "root" ELSE doc[d].folder,
                        status |-> IF d \in task[q].docs THEN "deleting" ELSE doc[d].status]]
                 /\ queued' = queued \union task[q].docs
                 /\ folder' = [f \in Shelves |-> IF f \in S THEN Shelving!Gone ELSE folder[f]]
                 /\ stirred' = TRUE
    BY <1>3 DEF Shelving!DeleteCommit, Shelving!Events, Shelving!Root
  <2>2. folder' \in [Shelves -> FolderRow] /\ RowsHold'
    BY <2>1, LostRows
  <2>3. ASSUME NEW d \in Filed
        PROVE  doc'[d] \in Document /\ (doc'[d].status = "deleting" => d \in queued')
    <3>1. doc[d].folder \in Places /\ doc[d].status \in {"none", "stored", "deleting", "gone"}
          /\ (doc[d].status = "deleting" => d \in queued)
      BY DEF FolderInv, Document, Shelving!DeletionsAreQueued
    <3>2. doc'[d] = [folder |-> IF doc[d].folder \in S THEN "root" ELSE doc[d].folder,
                     status |-> IF d \in task[q].docs THEN "deleting" ELSE doc[d].status]
      BY <2>1
    <3> QED
      BY <2>1, <3>1, <3>2 DEF Document, Places
  <2>4. doc' \in [Filed -> Document] /\ Shelving!DeletionsAreQueued'
    BY <2>1, <2>3 DEF Shelving!DeletionsAreQueued
  <2>5. FolderInv'
    BY <1>1, <2>1, <2>2, <2>4, EndingStep
  <2> QED
    BY <1>1, <2>1, <2>5
<1> QED
  BY <1>2, <1>3

\* move_document, and the worker that removes a document.
LEMMA FileNext ==
  ASSUME FolderBounds, FolderInv, NEW q \in Filers, Shelving!FileCommit(q)
  PROVE  FolderInv' /\ Shelving!Done(q) /\ UNCHANGED <<folder, stirred>>
<1>1. /\ UNCHANGED <<folder, queued, stirred>> /\ Shelving!Done(q) /\ stirred' \in BOOLEAN
      /\ folder' \in [Shelves -> FolderRow] /\ RowsHold' /\ task[q].pc = "file"
  BY DEF Shelving!FileCommit, FolderInv, RowsHold, Alive
<1>2. task[q].at \in Places /\ task[q].docs \subseteq Filed
  BY <1>1, TaskTypes DEF Remembers
<1>3. CASE UNCHANGED doc
  <2>1. doc' \in [Filed -> Document] /\ Shelving!DeletionsAreQueued'
    BY <1>1, <1>3 DEF FolderInv, Shelving!DeletionsAreQueued
  <2> QED
    BY <1>1, <2>1, EndingStep
<1>4. CASE ~UNCHANGED doc
  <2>1. PICK d \in Filed :
          doc' = [doc EXCEPT ![d].folder = task[q].at,
                             ![d].status = IF @ = "none" THEN "stored" ELSE @]
    BY <1>2, <1>4 DEF Shelving!FileCommit
  <2>2. doc[d] \in Document /\ doc \in [Filed -> Document]
    BY DEF FolderInv
  <2>3. PICK a, status, x :
          /\ a = task[q].at
          /\ status = (IF doc[d].status = "none" THEN "stored" ELSE doc[d].status)
          /\ x = [doc[d] EXCEPT !.folder = a, !.status = status]
    OBVIOUS
  <2>4. doc' = [doc EXCEPT ![d] = x]
    <3>1. doc' = [doc EXCEPT ![d].folder = a, ![d].status = status]
      BY <2>1, <2>2, <2>3 DEF Document
    <3> QED
      BY <2>2, <2>3, <3>1
  <2>5. x \in Document /\ (x.status = "deleting" => doc[d].status = "deleting")
    BY <1>2, <2>2, <2>3 DEF Document
  <2>6. doc' \in [Filed -> Document] /\ doc'[d] = x /\ \A e \in Filed : e # d => doc'[e] = doc[e]
    BY <2>2, <2>4, <2>5
  <2>7. Shelving!DeletionsAreQueued'
    BY <1>1, <2>5, <2>6 DEF FolderInv, Shelving!DeletionsAreQueued
  <2> QED
    BY <1>1, <2>6, <2>7, EndingStep
<1> QED
  BY <1>1, <1>3, <1>4

\* The worker that removes a document takes its event away.
LEMMA RemoveNext ==
  ASSUME FolderBounds, FolderInv, NEW d \in Filed, Shelving!Remove(d)
  PROVE  FolderInv' /\ UNCHANGED <<folder, task, stirred>>
<1>1. /\ doc' = [doc EXCEPT ![d] = [folder |-> "root", status |-> "gone"]]
      /\ queued' = queued \ {d} /\ UNCHANGED <<folder, task, stirred>>
  BY DEF Shelving!Remove, Shelving!Root
<1>2. /\ doc' \in [Filed -> Document] /\ doc'[d].status = "gone"
      /\ \A e \in Filed : e # d => doc'[e] = doc[e]
  BY <1>1 DEF FolderInv, Document, Places
<1>3. Shelving!DeletionsAreQueued'
  BY <1>1, <1>2 DEF FolderInv, Shelving!DeletionsAreQueued
<1> QED
  BY <1>1, <1>2, <1>3 DEF FolderInv, RowsHold, Alive, Remembers

\* A request that dies.
LEMMA DropNext ==
  ASSUME FolderBounds, FolderInv, NEW q \in Filers, Shelving!Drop(q)
  PROVE  FolderInv' /\ Shelving!Done(q) /\ RollsBack(q) /\ UNCHANGED stirred
<1>1. /\ UNCHANGED <<doc, queued, stirred>> /\ Shelving!Done(q) /\ RollsBack(q)
      /\ stirred' \in BOOLEAN /\ doc' \in [Filed -> Document] /\ Shelving!DeletionsAreQueued'
  BY DEF Shelving!Drop, FolderInv, RollsBack, Shelving!DeletionsAreQueued
<1>2. folder' \in [Shelves -> FolderRow] /\ RowsHold'
  BY <1>1, RolledBackRows
<1> QED
  BY <1>1, <1>2, EndingStep

-----------------------------------------------------------------------------
(* The walk up from a folder, and the tree. *)

Depth == Cardinality(Shelves)
Higher(x) == IF x = "root" THEN "root" ELSE folder[x].parent
Climbs(h, f, n) == h[0] = f /\ \A i \in 1..n : h[i] = Higher(h[i - 1])

\* The recursion of Above has a solution, which climbs from the folder.
LEMMA AboveIs ==
  ASSUME FolderBounds, FolderInv, NEW f \in Shelves
  PROVE  /\ Depth \in Nat /\ Shelving!Cardinality(Shelves) = Depth
         /\ Shelving!Above(f) \in [0..Depth -> Places]
         /\ Climbs(Shelving!Above(f), f, Depth)
<1>1. Depth \in Nat
  BY FS_CardinalityType DEF Depth, FolderBounds
<1>2. Shelving!Cardinality(Shelves) = Depth
  BY DEF Depth, Cardinality, Shelving!Cardinality, IsFiniteSet, Shelving!IsFiniteSet
<1>3. ASSUME NEW x \in Places PROVE Higher(x) \in Places
  <2>1. x # "root" => folder[x] \in FolderRow
    BY DEF FolderInv, Places
  <2> QED
    BY <2>1 DEF Higher, Places, FolderRow
<1> DEFINE Wrong == {n \in 0..Depth : ~ \E h \in [0..n -> Places] : Climbs(h, f, n)}
<1>4. ASSUME Wrong # {} PROVE FALSE
  <2>1. Wrong \subseteq Nat
    BY <1>1
  <2>2. PICK n \in Wrong : \A m \in Wrong : n <= m
    <3> HIDE DEF Wrong
    <3> QED
      BY <1>4, <2>1, LeastNat
  <2>3. n \in Nat /\ n <= Depth /\ ~ \E h \in [0..n -> Places] : Climbs(h, f, n)
    BY <1>1
  <2>4. CASE n = 0
    <3>1. [i \in 0..0 |-> f] \in [0..0 -> Places] /\ Climbs([i \in 0..0 |-> f], f, 0)
      BY DEF Climbs, Places
    <3> QED
      BY <2>3, <2>4, <3>1
  <2>5. CASE n # 0
    <3>1. n - 1 \in 0..Depth /\ ~(n <= n - 1) /\ n - 1 \in Nat
      BY <1>1, <2>3, <2>5
    <3>2. PICK h \in [0..(n - 1) -> Places] : Climbs(h, f, n - 1)
      BY <2>2, <3>1
    <3>3. PICK g : g = [i \in 0..n |-> IF i = n THEN Higher(h[n - 1]) ELSE h[i]]
      OBVIOUS
    <3>4. \A i \in 0..n : i # n => i \in 0..(n - 1)
      BY <2>3
    <3>5. n - 1 \in 0..(n - 1)
      BY <3>1
    <3>6. Higher(h[n - 1]) \in Places
      BY <1>3, <3>2, <3>5
    <3>7. g \in [0..n -> Places]
      BY <3>2, <3>3, <3>4, <3>6
    <3>8. g[0] = f
      BY <2>3, <2>5, <3>2, <3>3 DEF Climbs
    <3>9. ASSUME NEW i \in 1..n PROVE g[i] = Higher(g[i - 1])
      <4>1. i - 1 \in 0..n /\ i - 1 # n /\ i \in 0..n /\ i - 1 \in 0..(n - 1)
        BY <2>3
      <4>2. g[i - 1] = h[i - 1]
        BY <3>3, <4>1
      <4>3. CASE i = n
        BY <3>3, <4>1, <4>2, <4>3
      <4>4. CASE i # n
        <5>1. i \in 1..(n - 1)
          BY <2>3, <4>4
        <5> QED
          BY <3>2, <3>3, <4>1, <4>2, <4>4, <5>1 DEF Climbs
      <4> QED
        BY <4>3, <4>4
    <3> QED
      BY <2>3, <3>7, <3>8, <3>9 DEF Climbs
  <2> QED
    BY <2>4, <2>5
<1>5. PICK h \in [0..Depth -> Places] : Climbs(h, f, Depth)
  <2>1. Depth \in 0..Depth
    BY <1>1
  <2> QED
    BY <1>4, <2>1
<1>6. h = [n \in 0..Depth |-> IF n = 0 THEN f ELSE IF h[n - 1] = "root" THEN "root"
                              ELSE folder[h[n - 1]].parent]
  <2> DEFINE g == [n \in 0..Depth |-> IF n = 0 THEN f ELSE IF h[n - 1] = "root" THEN "root"
                                      ELSE folder[h[n - 1]].parent]
  <2>1. ASSUME NEW n \in 0..Depth
        PROVE  h[n] = IF n = 0 THEN f ELSE IF h[n - 1] = "root" THEN "root"
                      ELSE folder[h[n - 1]].parent
    <3>1. n # 0 => n \in 1..Depth
      BY <1>1
    <3> QED
      BY <1>5, <3>1 DEF Climbs, Higher
  <2> QED
    BY <1>5, <2>1
<1>7. Shelving!Above(f) = [n \in 0..Depth |->
         IF n = 0 THEN f ELSE IF Shelving!Above(f)[n - 1] = "root" THEN "root"
         ELSE folder[Shelving!Above(f)[n - 1]].parent]
  BY <1>2, <1>6, Zenon DEF Shelving!Above, Shelving!Root
<1> DEFINE a == Shelving!Above(f)
<1>8. ASSUME NEW n \in 0..Depth
      PROVE  a[n] = IF n = 0 THEN f ELSE Higher(a[n - 1])
  BY <1>7 DEF Higher
<1>9. DOMAIN a = 0..Depth
  BY <1>7
<1>10. a = [n \in 0..Depth |-> a[n]]
  BY <1>7
<1> HIDE DEF a
<1>11. 0 \in 0..Depth /\ \A n \in 1..Depth : n \in 0..Depth /\ n # 0
  BY <1>1
<1>12. Climbs(a, f, Depth)
  BY <1>8, <1>11 DEF Climbs
<1>13. a \in [0..Depth -> Places]
  <2> DEFINE Off == {n \in 0..Depth : a[n] \notin Places}
  <2>1. ASSUME Off # {} PROVE FALSE
    <3>1. Off \subseteq Nat
      BY <1>1
    <3>2. PICK n \in Off : \A m \in Off : n <= m
      <4> HIDE DEF Off
      <4> QED
        BY <2>1, <3>1, LeastNat
    <3>3. n # 0
      BY <1>8, <1>11 DEF Places
    <3>4. n - 1 \in 0..Depth /\ ~(n <= n - 1)
      BY <1>1, <3>2, <3>3
    <3>5. a[n - 1] \in Places
      BY <3>2, <3>4
    <3>6. a[n] = Higher(a[n - 1])
      BY <1>8, <3>2, <3>3
    <3> QED
      BY <1>3, <3>2, <3>5, <3>6
  <2>2. \A n \in 0..Depth : a[n] \in Places
    BY <2>1
  <2> QED
    BY <1>10, <2>2
<1> QED
  BY <1>1, <1>2, <1>12, <1>13 DEF a

\* Above the root there is nothing.
LEMMA RootIsTop ==
  ASSUME NEW n \in Nat, NEW h, NEW f, Climbs(h, f, n), NEW i \in 0..n, h[i] = "root", NEW j \in i..n
  PROVE  h[j] = "root"
<1> DEFINE Off == {k \in i..n : h[k] # "root"}
<1>1. ASSUME Off # {} PROVE FALSE
  <2>1. Off \subseteq Nat
    OBVIOUS
  <2>2. PICK k \in Off : \A m \in Off : k <= m
    <3> HIDE DEF Off
    <3> QED
      BY <1>1, <2>1, LeastNat
  <2>3. k # i
    OBVIOUS
  <2>4. k - 1 \in i..n /\ ~(k <= k - 1) /\ k \in 1..n
    BY <2>2, <2>3
  <2>5. h[k - 1] = "root"
    BY <2>2, <2>4
  <2> QED
    BY <2>2, <2>4, <2>5 DEF Climbs, Higher
<1> QED
  BY <1>1

\* Every set of folders has one whose parent is not among them.
Acyclic == \A S \in SUBSET Shelves : S # {} => \E f \in S : folder[f].parent \notin S

\* So every climb ends at the root.
LEMMA ClimbsEnd ==
  ASSUME FolderBounds, FolderInv, Acyclic, NEW f \in Shelves
  PROVE  Shelving!Above(f)[Depth] = "root"
<1> DEFINE a == Shelving!Above(f)
<1>1. Depth \in Nat /\ a \in [0..Depth -> Places] /\ Climbs(a, f, Depth)
  BY AboveIs
<1> HIDE DEF a
<1> SUFFICES ASSUME a[Depth] # "root" PROVE FALSE
  BY DEF a
<1>2. ASSUME NEW i \in 0..Depth PROVE a[i] \in Shelves
  <2>1. Depth \in i..Depth
    BY <1>1
  <2>2. a[i] # "root"
    BY <1>1, <2>1, RootIsTop
  <2> QED
    BY <1>1, <2>2 DEF Places
<1>3. a \in [0..Depth -> Shelves]
  BY <1>1, <1>2
<1>4. IsFiniteSet(0..Depth) /\ Cardinality(0..Depth) = Depth + 1
  BY <1>1, FS_Interval
<1>5. \E i, j \in 0..Depth : i # j /\ a[i] = a[j]
  <2>1. Cardinality(Shelves) < Cardinality(0..Depth)
    BY <1>1, <1>4 DEF Depth
  <2> QED
    BY <1>3, <1>4, <2>1, FS_PigeonHole DEF FolderBounds
<1>6. PICK i \in 0..Depth, j \in 0..Depth : i < j /\ a[i] = a[j]
  <2>1. PICK i \in 0..Depth, j \in 0..Depth : i # j /\ a[i] = a[j]
    BY <1>5
  <2>2. i < j \/ j < i
    BY <1>1, <2>1
  <2> QED
    BY <2>1, <2>2
<1> DEFINE S == {a[k] : k \in i..(j - 1)}
<1>7. ASSUME NEW k \in i..(j - 1)
      PROVE  k \in 0..Depth /\ a[k] \in Shelves /\ folder[a[k]].parent \in S
  <2>1. k \in 0..Depth /\ k + 1 \in 1..Depth /\ (k + 1) - 1 = k /\ i \in i..(j - 1)
    BY <1>1, <1>6
  <2>2. a[k + 1] = Higher(a[k]) /\ a[k] \in Shelves
    BY <1>1, <1>2, <2>1 DEF Climbs
  <2>3. a[k + 1] = folder[a[k]].parent
    BY <2>2 DEF Higher, FolderBounds
  <2>4. CASE k + 1 = j
    BY <1>6, <2>1, <2>2, <2>3, <2>4
  <2>5. CASE k + 1 # j
    <3>1. k + 1 \in i..(j - 1)
      BY <1>1, <1>6, <2>5
    <3> QED
      BY <2>1, <2>2, <2>3, <3>1
  <2> QED
    BY <2>4, <2>5
<1>8. S \in SUBSET Shelves /\ \A f1 \in S : folder[f1].parent \in S
  BY <1>7
<1>9. a[i] \in S
  <2>1. i \in i..(j - 1)
    BY <1>1, <1>6
  <2> QED
    BY <2>1
<1> HIDE DEF S
<1> QED
  BY <1>8, <1>9 DEF Acyclic

\* A request that moves a folder remembers a place that is not below the folder.
Apart(q) ==
    task[q].pc = "move" /\ task[q].at \in Shelves =>
        \E P \in SUBSET Shelves :
            /\ task[q].at \in P /\ task[q].path[1] \notin P
            /\ \A x \in P : folder[x].parent \in P \union {"root"} /\ folder[x].by # "nobody"

TreeInv == FolderInv /\ Acyclic /\ \A q \in Filers : Apart(q)
OneMover == \A p, q \in Movers : p = q

\* A step that moves no folder below another one.
LEMMA LooseStep ==
  ASSUME FolderBounds, TreeInv, FolderInv',
         \A f \in Shelves : /\ folder'[f].parent \in {folder[f].parent, "root"}
                            /\ folder[f].by # "nobody" => folder'[f].by # "nobody",
         \A q \in Filers : task'[q] = task[q] \/ task'[q].pc # "move"
  PROVE  TreeInv'
<1>1. Acyclic'
  <2> SUFFICES ASSUME NEW S \in SUBSET Shelves, S # {} PROVE \E f \in S : folder'[f].parent \notin S
    BY DEF Acyclic
  <2>1. PICK f \in S : folder[f].parent \notin S
    BY DEF TreeInv, Acyclic
  <2>2. "root" \notin S
    BY DEF FolderBounds
  <2> QED
    BY <2>1, <2>2
<1>2. ASSUME NEW q \in Filers PROVE Apart(q)'
  <2>1. CASE task'[q].pc # "move"
    BY <2>1 DEF Apart
  <2>2. CASE task'[q] = task[q]
    <3> SUFFICES ASSUME task[q].pc = "move", task[q].at \in Shelves
                 PROVE  \E P \in SUBSET Shelves :
                           /\ task[q].at \in P /\ task[q].path[1] \notin P
                           /\ \A x \in P : /\ folder'[x].parent \in P \union {"root"}
                                           /\ folder'[x].by # "nobody"
      BY <2>2 DEF Apart
    <3>1. PICK P \in SUBSET Shelves :
             /\ task[q].at \in P /\ task[q].path[1] \notin P
             /\ \A x \in P : folder[x].parent \in P \union {"root"} /\ folder[x].by # "nobody"
      BY DEF TreeInv, Apart
    <3>2. \A x \in P : folder'[x].parent \in P \union {"root"} /\ folder'[x].by # "nobody"
      BY <3>1
    <3> QED
      BY <3>1, <3>2
  <2> QED
    BY <2>1, <2>2
<1> QED
  BY <1>1, <1>2 DEF TreeInv

\* A new folder has nothing below it.
LEMMA GrowingStep ==
  ASSUME FolderBounds, TreeInv, FolderInv', NEW r \in Filers, NEW p, NEW n, NEW b, Adds(r, p, n, b),
         \A q \in Filers : task'[q] = task[q] \/ task'[q].pc # "move"
  PROVE  TreeInv'
<1>1. PICK f \in Shelves : /\ folder[f] = Shelving!Unborn
                           /\ folder' = [folder EXCEPT ![f] = Shelving!Row(p, n, b)]
  BY DEF Adds
<1>2. PICK x : x = Shelving!Row(p, n, b)
  OBVIOUS
<1>3. x.parent = p /\ x.by = b
  BY <1>2 DEF Shelving!Row
<1>4. folder'[f] = x /\ \A g \in Shelves : g # f => folder'[g] = folder[g]
  BY <1>1, <1>2 DEF TreeInv, FolderInv
<1>5. folder[f].by = "nobody" /\ \A g \in Shelves : folder[g].parent # f
  BY <1>1 DEF Shelving!Unborn, Shelving!Row, TreeInv, FolderInv, RowsHold
<1>6. p # f
  BY <1>5 DEF Adds, Shelving!Visible, Shelving!Root, FolderBounds
<1>7. b # "nobody"
  BY DEF Adds, FolderBounds
<1>8. Acyclic'
  <2> SUFFICES ASSUME NEW S \in SUBSET Shelves, S # {}, \A g \in S : folder'[g].parent \in S
               PROVE  FALSE
    BY DEF Acyclic
  <2>1. CASE f \notin S
    BY <1>4, <2>1 DEF TreeInv, Acyclic
  <2>2. CASE f \in S
    <3>1. p \in S \ {f}
      BY <1>3, <1>4, <1>6, <2>2
    <3>2. \A g \in S \ {f} : folder[g].parent \in S \ {f}
      BY <1>4, <1>5
    <3>3. S \ {f} \in SUBSET Shelves /\ S \ {f} # {}
      BY <3>1
    <3>4. PICK g \in S \ {f} : folder[g].parent \notin S \ {f}
      BY <3>3 DEF TreeInv, Acyclic
    <3> QED
      BY <3>2, <3>4
  <2> QED
    BY <2>1, <2>2
<1>9. ASSUME NEW q \in Filers PROVE Apart(q)'
  <2>1. CASE task'[q].pc # "move"
    BY <2>1 DEF Apart
  <2>2. CASE task'[q] = task[q]
    <3> SUFFICES ASSUME task[q].pc = "move", task[q].at \in Shelves
                 PROVE  \E P \in SUBSET Shelves :
                           /\ task[q].at \in P /\ task[q].path[1] \notin P
                           /\ \A y \in P : /\ folder'[y].parent \in P \union {"root"}
                                           /\ folder'[y].by # "nobody"
      BY <2>2 DEF Apart
    <3>1. PICK P \in SUBSET Shelves :
             /\ task[q].at \in P /\ task[q].path[1] \notin P
             /\ \A y \in P : folder[y].parent \in P \union {"root"} /\ folder[y].by # "nobody"
      BY DEF TreeInv, Apart
    <3>2. f \notin P
      BY <1>5, <3>1
    <3>3. \A y \in P : folder'[y] = folder[y]
      BY <1>4, <3>2
    <3> QED
      BY <3>1, <3>3
  <2> QED
    BY <2>1, <2>2
<1> QED
  BY <1>8, <1>9 DEF TreeInv

\* Moving a folder: what is above its new place stays apart from it.
LEMMA MovingStep ==
  ASSUME FolderBounds, OneMover, TreeInv, FolderInv', NEW q \in Filers, Shelving!Done(q),
         task[q].pc = "move", NEW f, f = task[q].path[1], NEW n,
         Moves(q, f, IF task[q].at = "keep" THEN folder[f].parent ELSE task[q].at, n)
  PROVE  TreeInv'
<1>1. PICK p : p = IF task[q].at = "keep" THEN folder[f].parent ELSE task[q].at
  OBVIOUS
<1>2. PICK x : x = Shelving!Row(p, n, "root")
  OBVIOUS
<1>3. /\ f \in Shelves /\ x.parent = p /\ x.by = "root" /\ folder[f].by = "root"
      /\ folder' = [folder EXCEPT ![f] = x] /\ folder \in [Shelves -> FolderRow]
      /\ p \in Shelves \union {"root"}
  BY <1>1, <1>2 DEF Moves, Shelving!Row, Shelving!Committed, Shelving!Root, TreeInv, FolderInv
<1>4. folder'[f] = x /\ \A g \in Shelves : g # f => folder'[g] = folder[g]
  BY <1>3
<1>5. Acyclic'
  <2> SUFFICES ASSUME NEW S \in SUBSET Shelves, S # {}, \A g \in S : folder'[g].parent \in S
               PROVE  FALSE
    BY DEF Acyclic
  <2>1. CASE f \notin S \/ p = folder[f].parent
    BY <1>3, <1>4, <2>1 DEF TreeInv, Acyclic
  <2>2. CASE f \in S /\ p # folder[f].parent
    <3>1. p \in S /\ p = task[q].at
      BY <1>1, <1>3, <1>4, <2>2
    <3>2. PICK P \in SUBSET Shelves :
             /\ p \in P /\ f \notin P
             /\ \A y \in P : folder[y].parent \in P \union {"root"} /\ folder[y].by # "nobody"
      BY <3>1 DEF TreeInv, Apart
    <3>3. S \intersect P \in SUBSET Shelves /\ S \intersect P # {}
      BY <3>1, <3>2
    <3>4. PICK y \in S \intersect P : folder[y].parent \notin S \intersect P
      BY <3>3 DEF TreeInv, Acyclic
    <3>5. folder'[y] = folder[y] /\ folder'[y].parent \in S
      BY <1>4, <3>2, <3>4
    <3>6. folder[y].parent \in S /\ "root" \notin S
      BY <3>5 DEF FolderBounds
    <3> QED
      BY <3>2, <3>4, <3>6
  <2> QED
    BY <2>1, <2>2
<1>6. ASSUME NEW r \in Filers PROVE Apart(r)'
  <2>1. Shelving!Idle.pc = "idle"
    BY DEF Shelving!Idle
  <2>2. CASE r = q
    <3>1. task'[r].pc = "idle"
      BY <2>1, <2>2, IdleStep DEF TreeInv
    <3> QED
      BY <3>1 DEF Apart
  <2>3. CASE r # q
    <3>1. task'[r] = task[r]
      BY <2>3, IdleStep DEF TreeInv
    <3>2. task[r].pc # "move"
      BY <2>3, TaskTypes DEF TreeInv, Remembers, OneMover
    <3> QED
      BY <3>1, <3>2 DEF Apart
  <2> QED
    BY <2>2, <2>3
<1> QED
  BY <1>5, <1>6 DEF TreeInv

\* A folder is moved below one that is not below it.
LEMMA AimingStep ==
  ASSUME FolderBounds, TreeInv, FolderInv', NEW q \in Filers, Shelving!Move(q)
  PROVE  TreeInv'
<1>1. PICK f \in Shelving!Committed, p \in Shelving!Committed \union {"root", "keep"},
           n \in Titles \union {"keep"} :
         /\ p \in Shelves => p # f /\ ~Shelving!IsAncestorOrSelf(f, p)
         /\ Shelving!Step(q, [Shelving!Idle EXCEPT !.pc = "move", !.path = <<f>>, !.at = p,
                                                   !.name = n])
  BY DEF Shelving!Move, Shelving!Root, Shelving!Keep
<1>2. PICK r : r = [Shelving!Idle EXCEPT !.pc = "move", !.path = <<f>>, !.at = p, !.name = n]
  OBVIOUS
<1>3. r.pc = "move" /\ r.path[1] = f /\ r.at = p
  BY <1>2 DEF Shelving!Idle
<1>4. UNCHANGED folder /\ task \in [Filers -> Filing]
  BY DEF Shelving!Move, TreeInv, FolderInv
<1>5. task'[q] = r /\ \A t \in Filers : t # q => task'[t] = task[t]
  BY <1>1, <1>2, <1>4 DEF Shelving!Step
<1>6. Acyclic' /\ \A t \in Filers : t # q => Apart(t)'
  BY <1>4, <1>5 DEF TreeInv, Acyclic, Apart
<1>7. Apart(q)'
  <2> SUFFICES ASSUME p \in Shelves
               PROVE  \E P \in SUBSET Shelves :
                         /\ p \in P /\ f \notin P
                         /\ \A x \in P : /\ folder[x].parent \in P \union {"root"}
                                         /\ folder[x].by # "nobody"
    BY <1>3, <1>4, <1>5 DEF Apart
  <2> DEFINE a == Shelving!Above(p)
             P == {x \in Shelves : folder[x].by # "nobody" /\ \E i \in 0..Depth : a[i] = x}
  <2>1. /\ Depth \in Nat /\ Shelving!Cardinality(Shelves) = Depth
        /\ a \in [0..Depth -> Places] /\ Climbs(a, p, Depth)
    BY AboveIs DEF TreeInv
  <2>2. ~Shelving!IsAncestorOrSelf(f, p)
    BY <1>1
  <2> HIDE DEF a
  <2>3. a[Depth] = "root" /\ \A i \in 0..Depth : a[i] # f
    BY <2>1, <2>2 DEF Shelving!IsAncestorOrSelf, Shelving!Root, a
  <2>4. f \notin P
    BY <2>3
  <2>5. p \in P
    <3>1. a[0] = p /\ 0 \in 0..Depth
      BY <2>1 DEF Climbs
    <3>2. folder[p].by # "nobody"
      BY DEF Shelving!Committed, Shelving!Root, FolderBounds
    <3> QED
      BY <3>1, <3>2
  <2>6. ASSUME NEW x \in P PROVE folder[x].parent \in P \union {"root"}
    <3>1. PICK i \in 0..Depth : a[i] = x
      OBVIOUS
    <3>2. i # Depth
      BY <2>3, <3>1 DEF FolderBounds
    <3>3. i + 1 \in 1..Depth /\ (i + 1) - 1 = i /\ i + 1 \in 0..Depth
      BY <2>1, <3>2
    <3>4. a[i + 1] = Higher(a[i]) /\ a[i + 1] \in Places
      BY <2>1, <3>3 DEF Climbs
    <3>5. a[i + 1] = folder[x].parent
      BY <3>1, <3>4 DEF Higher, FolderBounds
    <3>6. folder[x].parent \in Shelves => folder[folder[x].parent].by # "nobody"
      BY DEF TreeInv, FolderInv, RowsHold
    <3> QED
      BY <3>3, <3>4, <3>5, <3>6 DEF Places
  <2>7. P \in SUBSET Shelves /\ \A x \in P : folder[x].by # "nobody"
    OBVIOUS
  <2> HIDE DEF P
  <2> QED
    BY <2>4, <2>5, <2>6, <2>7
<1> QED
  BY <1>6, <1>7 DEF TreeInv

\* A request that ends is not about to move anything.
LEMMA EndedTasks ==
  ASSUME FolderInv, NEW q \in Filers, Shelving!Done(q)
  PROVE  \A p \in Filers : task'[p] = task[p] \/ task'[p].pc # "move"
<1>1. Shelving!Idle.pc # "move"
  BY DEF Shelving!Idle
<1> QED
  BY <1>1, IdleStep

\* Nor is one that goes on to something else.
LEMMA SteppedTasks ==
  ASSUME FolderInv, NEW q \in Filers, NEW r, Shelving!Step(q, r), r.pc # "move"
  PROVE  \A p \in Filers : task'[p] = task[p] \/ task'[p].pc # "move"
BY DEF FolderInv, Shelving!Step

\* What the rows of a request that goes back or commits become.
LEMMA LooseRows ==
  ASSUME FolderBounds, FolderInv, NEW q \in Filers, RollsBack(q) \/ Commits(q)
  PROVE  \A f \in Shelves : /\ folder'[f].parent \in {folder[f].parent, "root"}
                            /\ folder[f].by # "nobody" => folder'[f].by # "nobody"
<1> SUFFICES ASSUME NEW f \in Shelves
             PROVE  /\ folder'[f].parent \in {folder[f].parent, "root"}
                    /\ folder[f].by # "nobody" => folder'[f].by # "nobody"
  OBVIOUS
<1>1. folder[f] \in FolderRow
  BY DEF FolderInv
<1>2. Shelving!Gone.parent = "root" /\ Shelving!Gone.by = "deleted"
  BY DEF Shelving!Gone, Shelving!Row, Shelving!Root
<1>3. CASE RollsBack(q)
  <2>1. folder'[f] = IF folder[f].by = q THEN Shelving!Gone ELSE folder[f]
    BY <1>3 DEF RollsBack
  <2> QED
    BY <1>2, <2>1
<1>4. CASE Commits(q)
  <2>1. folder'[f] = IF folder[f].by = q THEN [folder[f] EXCEPT !.by = "root"] ELSE folder[f]
    BY <1>4 DEF Commits
  <2> QED
    BY <1>1, <2>1 DEF FolderRow
<1> QED
  BY <1>3, <1>4

\* Every step keeps the rows and the events.
LEMMA FolderNext ==
  ASSUME FolderBounds, FolderInv, [Shelving!Next]_(Shelving!folderVars)
  PROVE  FolderInv'
<1>1. CASE UNCHANGED Shelving!folderVars
  BY <1>1 DEF Shelving!folderVars, FolderInv, RowsHold, Alive, Remembers,
     Shelving!DeletionsAreQueued
<1>2. ASSUME NEW d \in Filed, Shelving!Remove(d) PROVE FolderInv'
  BY <1>2, RemoveNext
<1>3. ASSUME NEW q \in Filers,
             \/ Shelving!Create(q) \/ Shelving!CreateCommit(q) \/ Shelving!Ensure(q)
             \/ Shelving!Move(q) \/ Shelving!MoveCommit(q) \/ Shelving!Delete(q)
             \/ Shelving!DeleteCommit(q) \/ Shelving!File(q) \/ Shelving!FileCommit(q)
             \/ Shelving!Drop(q)
      PROVE  FolderInv'
  BY <1>3, ReadersNext, FindNext, InsertNext, EnsureCommitNext, CreateNext, MoveNext, DeleteNext,
     FileNext, DropNext DEF Shelving!Ensure
<1> QED
  BY <1>1, <1>2, <1>3 DEF Shelving!Next

\* Every step keeps the tree.
LEMMA TreeNext ==
  ASSUME FolderBounds, OneMover, TreeInv, [Shelving!Next]_(Shelving!folderVars)
  PROVE  TreeInv'
<1>0. FolderInv /\ FolderInv'
  BY FolderNext DEF TreeInv
<1>1. ASSUME UNCHANGED folder, \A q \in Filers : task'[q] = task[q] \/ task'[q].pc # "move"
      PROVE  TreeInv'
  <2>1. \A f \in Shelves : /\ folder'[f].parent \in {folder[f].parent, "root"}
                           /\ folder[f].by # "nobody" => folder'[f].by # "nobody"
    BY <1>1
  <2> QED
    BY <1>0, <1>1, <2>1, LooseStep
<1>2. CASE UNCHANGED Shelving!folderVars
  BY <1>1, <1>2 DEF Shelving!folderVars
<1>3. ASSUME NEW d \in Filed, Shelving!Remove(d) PROVE TreeInv'
  BY <1>0, <1>1, <1>3, RemoveNext
<1>4. ASSUME NEW q \in Filers, ~Shelving!Move(q),
             Shelving!Create(q) \/ Shelving!EnsurePath(q) \/ Shelving!Delete(q) \/ Shelving!File(q)
      PROVE  TreeInv'
  <2>1. PICK r : Shelving!Step(q, r) /\ UNCHANGED folder /\ r.pc # "move"
    <3>1. UNCHANGED folder /\ \E r : Shelving!Step(q, r) /\ Reading(q, r)
      BY <1>0, <1>4, ReadersNext
    <3> QED
      BY <1>4, <3>1 DEF Reading
  <2>2. \A p \in Filers : task'[p] = task[p] \/ task'[p].pc # "move"
    BY <1>0, <2>1, SteppedTasks
  <2> QED
    BY <1>1, <2>1, <2>2
<1>5. ASSUME NEW q \in Filers, Shelving!Move(q) PROVE TreeInv'
  BY <1>0, <1>5, AimingStep
<1>6. ASSUME NEW q \in Filers, Shelving!FindSegment(q) \/ Shelving!RereadSegment(q) PROVE TreeInv'
  <2>1. task[q] \in Filing /\ task[q].pc # "move"
    BY <1>0, <1>6, TaskTypes DEF Shelving!FindSegment, Shelving!RereadSegment
  <2>2. PICK r : Shelving!Step(q, r) /\ r.pc # "move"
    <3>1. ASSUME NEW f PROVE Shelving!Deeper(task[q], f).pc # "move"
      <4>1. PICK r : r = Shelving!Deeper(task[q], f)
        OBVIOUS
      <4>2. PICK pc, n : /\ pc = (IF task[q].n = Len(task[q].path) THEN "commit" ELSE "segment")
                         /\ n = task[q].n + 1
        OBVIOUS
      <4>3. r = [task[q] EXCEPT !.at = f, !.n = n, !.pc = pc]
        BY <4>1, <4>2 DEF Shelving!Deeper
      <4>4. r.pc = pc
        BY <2>1, <4>3 DEF Filing
      <4> QED
        BY <4>1, <4>2, <4>4
    <3>2. PICK r, s : r = [task[q] EXCEPT !.pc = "insert"] /\ s = [task[q] EXCEPT !.pc = "failed"]
      OBVIOUS
    <3>3. r.pc = "insert" /\ s.pc = "failed"
      BY <2>1, <3>2 DEF Filing
    <3>4. \/ Shelving!Step(q, r) \/ Shelving!Step(q, s)
          \/ \E f : Shelving!Step(q, Shelving!Deeper(task[q], f))
      BY <1>6, <3>2 DEF Shelving!FindSegment, Shelving!RereadSegment
    <3> QED
      BY <3>1, <3>3, <3>4
  <2>3. \A p \in Filers : task'[p] = task[p] \/ task'[p].pc # "move"
    BY <1>0, <2>2, SteppedTasks
  <2>4. UNCHANGED folder
    BY <1>0, <1>6, FindNext
  <2> QED
    BY <1>1, <2>3, <2>4
<1>7. ASSUME NEW q \in Filers, Shelving!InsertSegment(q) PROVE TreeInv'
  <2>1. task[q] \in Filing
    BY <1>0, TaskTypes
  <2>2. CASE Adds(q, task[q].at, task[q].path[task[q].n], q)
             /\ \E f \in Shelves : Shelving!Step(q, Shelving!Deeper(task[q], f))
    <3>1. PICK f \in Shelves : Shelving!Step(q, Shelving!Deeper(task[q], f))
      BY <2>2
    <3>2. PICK r : r = Shelving!Deeper(task[q], f)
      OBVIOUS
    <3>3. task[q].pc \in Ensuring
      BY <1>0, <1>7, InsertNext DEF Ensuring
    <3>a. r.pc # "move"
      BY <1>0, <3>2, <3>3, DeeperStep
    <3>4. \A p \in Filers : task'[p] = task[p] \/ task'[p].pc # "move"
      BY <1>0, <3>1, <3>2, <3>a, SteppedTasks
    <3> QED
      BY <1>0, <2>2, <3>4, GrowingStep
  <2>3. CASE RollsBack(q) /\ Shelving!Step(q, [task[q] EXCEPT !.pc = "reread"])
    <3>1. PICK r : r = [task[q] EXCEPT !.pc = "reread"]
      OBVIOUS
    <3>2. r.pc # "move"
      BY <2>1, <3>1 DEF Filing
    <3>3. \A p \in Filers : task'[p] = task[p] \/ task'[p].pc # "move"
      BY <1>0, <2>3, <3>1, <3>2, SteppedTasks
    <3> QED
      BY <1>0, <2>3, <3>3, LooseRows, LooseStep
  <2> QED
    BY <1>0, <1>7, <2>2, <2>3, InsertNext
<1>8. ASSUME NEW q \in Filers, Shelving!EnsureCommit(q) PROVE TreeInv'
  <2>1. task[q] \in Filing /\ Commits(q) /\ Shelving!Step(q, [task[q] EXCEPT !.pc = "done"])
    BY <1>0, <1>8, TaskTypes, EnsureCommitNext
  <2>2. PICK r : r = [task[q] EXCEPT !.pc = "done"]
    OBVIOUS
  <2>3. r.pc # "move"
    BY <2>1, <2>2 DEF Filing
  <2>4. \A p \in Filers : task'[p] = task[p] \/ task'[p].pc # "move"
    BY <1>0, <2>1, <2>2, <2>3, SteppedTasks
  <2> QED
    BY <1>0, <2>1, <2>4, LooseRows, LooseStep
<1>9. ASSUME NEW q \in Filers, Shelving!CreateCommit(q) PROVE TreeInv'
  <2>1. \A p \in Filers : task'[p] = task[p] \/ task'[p].pc # "move"
    BY <1>0, <1>9, CreateNext, EndedTasks
  <2> QED
    BY <1>0, <1>1, <1>9, <2>1, CreateNext, GrowingStep
<1>10. ASSUME NEW q \in Filers, Shelving!MoveCommit(q) PROVE TreeInv'
  <2>1. \A p \in Filers : task'[p] = task[p] \/ task'[p].pc # "move"
    BY <1>0, <1>10, MoveNext, EndedTasks
  <2>2. CASE UNCHANGED folder
    BY <1>1, <2>1, <2>2
  <2>3. CASE ~UNCHANGED folder
    <3>1. /\ Shelving!Done(q) /\ task[q].pc = "move"
          /\ \E n \in Titles :
               Moves(q, task[q].path[1], IF task[q].at = "keep" THEN folder[task[q].path[1]].parent
                                         ELSE task[q].at, n)
      BY <1>0, <1>10, <2>3, MoveNext
    <3> QED
      BY <1>0, <3>1, MovingStep
  <2> QED
    BY <2>2, <2>3
<1>11. ASSUME NEW q \in Filers, Shelving!DeleteCommit(q) PROVE TreeInv'
  <2>1. \A p \in Filers : task'[p] = task[p] \/ task'[p].pc # "move"
    BY <1>0, <1>11, DeleteNext, EndedTasks
  <2>2. CASE UNCHANGED folder
    BY <1>1, <2>1, <2>2
  <2>3. CASE ~UNCHANGED folder
    <3>1. PICK S : folder' = [f \in Shelves |-> IF f \in S THEN Shelving!Gone ELSE folder[f]]
      BY <1>0, <1>11, <2>3, DeleteNext
    <3>2. Shelving!Gone.parent = "root" /\ Shelving!Gone.by = "deleted"
      BY DEF Shelving!Gone, Shelving!Row, Shelving!Root
    <3>3. \A f \in Shelves : /\ folder'[f].parent \in {folder[f].parent, "root"}
                             /\ folder[f].by # "nobody" => folder'[f].by # "nobody"
      BY <3>1, <3>2
    <3> QED
      BY <1>0, <2>1, <3>3, LooseStep
  <2> QED
    BY <2>2, <2>3
<1>12. ASSUME NEW q \in Filers, Shelving!FileCommit(q) PROVE TreeInv'
  BY <1>0, <1>1, <1>12, FileNext, EndedTasks
<1>13. ASSUME NEW q \in Filers, Shelving!Drop(q) PROVE TreeInv'
  <2>1. \A p \in Filers : task'[p] = task[p] \/ task'[p].pc # "move"
    BY <1>0, <1>13, DropNext, EndedTasks
  <2> QED
    BY <1>0, <1>13, <2>1, DropNext, LooseRows, LooseStep
<1>14. ASSUME NEW q \in Filers,
             \/ Shelving!Create(q) \/ Shelving!CreateCommit(q) \/ Shelving!Ensure(q)
             \/ Shelving!Move(q) \/ Shelving!MoveCommit(q) \/ Shelving!Delete(q)
             \/ Shelving!DeleteCommit(q) \/ Shelving!File(q) \/ Shelving!FileCommit(q)
             \/ Shelving!Drop(q)
      PROVE  TreeInv'
  BY <1>4, <1>5, <1>6, <1>7, <1>8, <1>9, <1>10, <1>11, <1>12, <1>13, <1>14 DEF Shelving!Ensure
<1> QED
  BY <1>2, <1>3, <1>14 DEF Shelving!Next

\* The workspace starts without folders.
LEMMA FolderStart == ASSUME FolderBounds, Shelving!Init PROVE TreeInv
<1>1. PICK x : x = Shelving!Unborn
  OBVIOUS
<1>2. x \in FolderRow /\ x.parent = "root" /\ x.by = "nobody"
  BY <1>1 DEF Shelving!Unborn, Shelving!Row, Shelving!Root, Shelving!Keep, FolderRow, Places
<1>3. folder \in [Shelves -> FolderRow] /\ \A f \in Shelves : folder[f] = x
  BY <1>1, <1>2 DEF Shelving!Init
<1>4. RowsHold
  <2> SUFFICES ASSUME NEW f \in Shelves
               PROVE  /\ f \in Alive => folder[f].name \in Titles
                      /\ folder[f].by = "nobody" => folder[f] = Shelving!Unborn
                      /\ folder[f].by = "deleted" => folder[f] = Shelving!Gone
                      /\ folder[f].parent \in Shelves => folder[folder[f].parent].by # "nobody"
    BY DEF RowsHold
  <2>1. folder[f] = x
    BY <1>3
  <2> QED
    BY <1>1, <1>2, <2>1 DEF Alive, FolderBounds
<1>5. PICK y : y = [folder |-> "root", status |-> "none"]
  OBVIOUS
<1>6. doc \in [Filed -> Document] /\ \A d \in Filed : doc[d].status = "none"
  <2>1. doc = [d \in Filed |-> y] /\ y \in Document /\ y.status = "none"
    BY <1>5 DEF Shelving!Init, Shelving!Root, Document, Places
  <2> QED
    BY <2>1
<1>7. PICK idle : idle = Shelving!Idle
  OBVIOUS
<1>8. idle \in Filing /\ idle.pc = "idle"
  <2>1. <<>> \in Seq(Titles) /\ 0 \in Nat
    OBVIOUS
  <2> QED
    BY <1>7, <2>1 DEF Shelving!Idle, Shelving!Root, Shelving!Keep, Filing, Places
<1>9. task \in [Filers -> Filing] /\ \A q \in Filers : task[q] = idle
  BY <1>7, <1>8 DEF Shelving!Init
<1>10. \A q \in Filers : Remembers(q, task[q])
  BY <1>8, <1>9 DEF Remembers, Ensuring, Ensured
<1>11. FolderInv
  BY <1>3, <1>4, <1>6, <1>9, <1>10 DEF FolderInv, Shelving!Init, Shelving!DeletionsAreQueued
<1>12. Acyclic
  BY <1>2, <1>3 DEF Acyclic, FolderBounds
<1>13. \A q \in Filers : Apart(q)
  BY <1>8, <1>9 DEF Apart
<1> QED
  BY <1>11, <1>12, <1>13 DEF TreeInv

\* So they always hold.
LEMMA FolderAlways == ASSUME FolderBounds PROVE Shelving!Spec => []FolderInv
<1>1. Shelving!Init => FolderInv
  BY FolderStart DEF TreeInv
<1>2. FolderInv /\ [Shelving!Next]_(Shelving!folderVars) => FolderInv'
  BY FolderNext
<1> QED
  BY <1>1, <1>2, PTL DEF Shelving!Spec

\* As long as a document whose deletion was requested is there, an event that deletes it is
\* in the outbox, whatever requests and workers do: delete_folder.
THEOREM DeletionsAreQueuedAlways ==
  ASSUME FolderBounds
  PROVE  Shelving!Spec => []Shelving!DeletionsAreQueued
<1>1. FolderInv => Shelving!DeletionsAreQueued
  BY DEF FolderInv
<1> QED
  BY <1>1, FolderAlways, PTL

\* In a tree every folder hangs from the root.
LEMMA TreeIsForest == ASSUME FolderBounds, TreeInv PROVE Shelving!Forest
<1>1. ASSUME NEW f \in Shelving!Committed
      PROVE  Shelving!Above(f)[Shelving!Cardinality(Shelves)] = "root"
  <2>1. f \in Shelves
    BY DEF Shelving!Committed
  <2> QED
    BY <2>1, AboveIs, ClimbsEnd DEF TreeInv
<1> QED
  BY <1>1 DEF Shelving!Forest, Shelving!Root

\* However many create, delete and file, the folders of a workspace hang from its root as
\* long as one request at a time moves them: rename_or_move_folder, _is_ancestor_or_self.
THEOREM ForestAlways ==
  ASSUME FolderBounds, OneMover
  PROVE  Shelving!Spec => []Shelving!Forest
<1>1. Shelving!Init => TreeInv
  BY FolderStart
<1>2. TreeInv /\ [Shelving!Next]_(Shelving!folderVars) => TreeInv'
  BY TreeNext
<1>3. TreeInv => Shelving!Forest
  BY TreeIsForest
<1> QED
  BY <1>1, <1>2, <1>3, PTL DEF Shelving!Spec

-----------------------------------------------------------------------------
(* Paths that several requests ensure at once. *)

Owned(rows, q) == {f \in Shelves : rows[f].by = q}

\* The rows a request sees; of these the first k names of a path lead from the root to a.
Seen(rows, q) == {f \in Shelves : rows[f].by \in {"root", q}}

Leads(rows, q, path, k, a) ==
    \E g \in [0..k -> Places] :
        /\ g[0] = "root" /\ g[k] = a
        /\ \A i \in 1..k : /\ g[i] \in Seen(rows, q)
                           /\ rows[g[i]].parent = g[i - 1] /\ rows[g[i]].name = path[i]

NamesUnique ==
    \A f, g \in Alive :
        folder[f].parent = folder[g].parent /\ folder[f].name = folder[g].name => f = g

\* A request has walked down its path; once it has a row of its own it walks on below that
\* row, where nobody else has one; and what it was refused is there.
Walks(rows, q, r) ==
    /\ r.pc # "failed"
    /\ r.pc \notin {"segment", "insert", "commit"} => Owned(rows, q) = {}
    /\ r.pc \in Ensuring \union Ensured =>
         /\ Leads(rows, q, r.path, r.n - 1, r.at)
         /\ r.at \notin Owned(rows, q) => Owned(rows, q) = {}
         /\ r.at \in Owned(rows, q) =>
              \A f \in Shelves : rows[f].by \in Filers \union {"root"} => rows[f].parent # r.at
    /\ r.pc = "reread" => \E f \in Shelves : /\ rows[f].by = "root" /\ rows[f].parent = r.at
                                             /\ rows[f].name = r.path[r.n]

PathInv == FolderInv /\ (~stirred => NamesUnique /\ \A q \in Filers : Walks(folder, q, task[q]))

\* The rows change, and q keeps those it sees.
Keeps(q) ==
    \A f \in Seen(folder, q) :
        /\ folder'[f].by \in {"root", q}
        /\ folder[f].by = "root" => folder'[f].by = "root"
        /\ folder'[f].parent = folder[f].parent
        /\ folder'[f].name = folder[f].name

\* A path goes on leading where it led.
LEMMA LeadsOn ==
  ASSUME NEW q, NEW path, NEW k \in Nat, NEW a, Leads(folder, q, path, k, a), Keeps(q)
  PROVE  Leads(folder', q, path, k, a)
<1>1. PICK g \in [0..k -> Places] :
         /\ g[0] = "root" /\ g[k] = a
         /\ \A i \in 1..k : /\ g[i] \in Seen(folder, q)
                            /\ folder[g[i]].parent = g[i - 1] /\ folder[g[i]].name = path[i]
  BY DEF Leads
<1>2. \A i \in 1..k : /\ g[i] \in Seen(folder', q)
                      /\ folder'[g[i]].parent = g[i - 1] /\ folder'[g[i]].name = path[i]
  BY <1>1 DEF Keeps, Seen
<1> QED
  BY <1>1, <1>2 DEF Leads, Seen

\* One name further down.
LEMMA LeadsFurther ==
  ASSUME NEW rows, NEW q, NEW path, NEW k \in Nat, NEW a, Leads(rows, q, path, k, a),
         NEW f \in Seen(rows, q),
         rows[f].parent = a, rows[f].name = path[k + 1]
  PROVE  Leads(rows, q, path, k + 1, f)
<1>1. PICK g \in [0..k -> Places] :
         /\ g[0] = "root" /\ g[k] = a
         /\ \A i \in 1..k : /\ g[i] \in Seen(rows, q)
                            /\ rows[g[i]].parent = g[i - 1] /\ rows[g[i]].name = path[i]
  BY DEF Leads
<1>2. PICK h : h = [i \in 0..(k + 1) |-> IF i = k + 1 THEN f ELSE g[i]]
  OBVIOUS
<1>3. \A i \in 0..(k + 1) : i # k + 1 => i \in 0..k
  OBVIOUS
<1>4. h \in [0..(k + 1) -> Places]
  BY <1>1, <1>2, <1>3 DEF Seen, Places
<1>5. h[0] = "root" /\ h[k + 1] = f
  BY <1>1, <1>2
<1>6. ASSUME NEW i \in 1..(k + 1)
      PROVE  /\ h[i] \in Seen(rows, q)
             /\ rows[h[i]].parent = h[i - 1] /\ rows[h[i]].name = path[i]
  <2>1. i - 1 \in 0..(k + 1) /\ i \in 0..(k + 1) /\ i - 1 # k + 1
    OBVIOUS
  <2>2. h[i - 1] = g[i - 1]
    BY <1>2, <2>1
  <2>3. CASE i = k + 1
    <3>1. i - 1 = k
      BY <2>3
    <3> QED
      BY <1>1, <1>5, <2>2, <2>3, <3>1
  <2>4. CASE i # k + 1
    <3>1. i \in 1..k
      BY <2>4
    <3>2. h[i] = g[i]
      BY <1>2, <2>1, <2>4
    <3> QED
      BY <1>1, <2>2, <3>1, <3>2
  <2> QED
    BY <2>3, <2>4
<1> QED
  BY <1>4, <1>5, <1>6 DEF Leads

\* Where a path leads, q sees the row.
LEMMA LeadsInside ==
  ASSUME NEW rows, NEW q, NEW path, NEW k \in Nat, NEW a, Leads(rows, q, path, k, a)
  PROVE  (k = 0 => a = "root") /\ (k > 0 => a \in Seen(rows, q))
<1>1. k > 0 => k \in 1..k
  OBVIOUS
<1> QED
  BY <1>1 DEF Leads

\* With unique names a path leads to one place.
LEMMA LeadsOnce ==
  ASSUME FolderBounds, NamesUnique, NEW p \in Filers, NEW q \in Filers, NEW path, NEW k \in Nat,
         NEW a, NEW b, Leads(folder, p, path, k, a), Leads(folder, q, path, k, b)
  PROVE  a = b
<1>1. PICK g \in [0..k -> Places] :
         /\ g[0] = "root" /\ g[k] = a
         /\ \A i \in 1..k : /\ g[i] \in Seen(folder, p)
                            /\ folder[g[i]].parent = g[i - 1] /\ folder[g[i]].name = path[i]
  BY DEF Leads
<1>2. PICK h \in [0..k -> Places] :
         /\ h[0] = "root" /\ h[k] = b
         /\ \A i \in 1..k : /\ h[i] \in Seen(folder, q)
                            /\ folder[h[i]].parent = h[i - 1] /\ folder[h[i]].name = path[i]
  BY DEF Leads
<1> DEFINE Off == {i \in 0..k : g[i] # h[i]}
<1>3. ASSUME Off # {} PROVE FALSE
  <2>1. Off \subseteq Nat
    OBVIOUS
  <2>2. PICK i \in Off : \A j \in Off : i <= j
    <3> HIDE DEF Off
    <3> QED
      BY <1>3, <2>1, LeastNat
  <2>3. i # 0
    BY <1>1, <1>2
  <2>4. i \in 1..k /\ i - 1 \in 0..k /\ ~(i <= i - 1)
    BY <2>2, <2>3
  <2>5. g[i - 1] = h[i - 1]
    BY <2>2, <2>4
  <2>6. /\ folder[g[i]].parent = folder[h[i]].parent /\ folder[g[i]].name = folder[h[i]].name
        /\ g[i] \in Alive /\ h[i] \in Alive
    BY <1>1, <1>2, <2>4, <2>5 DEF Seen, Alive
  <2>7. g[i] = h[i]
    BY <2>6 DEF NamesUnique
  <2> QED
    BY <2>2, <2>7
<1>4. k \in 0..k
  OBVIOUS
<1> QED
  BY <1>1, <1>2, <1>3, <1>4

\* Requests that are done with one path have one folder, which is there.
LEMMA PathsAgree == ASSUME FolderBounds, PathInv PROVE Shelving!EnsureConverges
<1> SUFFICES ASSUME ~stirred, NEW p \in Filers, NEW q \in Filers
             PROVE  /\ task[p].pc # "failed"
                    /\ task[p].pc = "done" /\ task[q].pc = "done" /\ task[p].path = task[q].path
                         => task[p].at = task[q].at /\ task[p].at \in Shelving!Committed
  BY DEF Shelving!EnsureConverges
<1>1. NamesUnique /\ Walks(folder, p, task[p]) /\ Walks(folder, q, task[q])
  BY DEF PathInv
<1>2. ASSUME task[p].pc = "done", task[q].pc = "done", task[p].path = task[q].path
      PROVE  task[p].at = task[q].at /\ task[p].at \in Shelving!Committed
  <2>1. PICK k \in Nat : k = Len(task[p].path) /\ k > 0
    BY <1>2, TaskTypes DEF PathInv, Remembers, Ensured
  <2>2. task[p].n - 1 = k /\ task[q].n - 1 = k
    BY <1>2, <2>1, TaskTypes DEF PathInv, Remembers, Ensured
  <2>3. /\ Leads(folder, p, task[p].path, k, task[p].at)
        /\ Leads(folder, q, task[p].path, k, task[q].at)
        /\ Owned(folder, p) = {}
    BY <1>1, <1>2, <2>2 DEF Walks, Ensured
  <2>4. task[p].at = task[q].at
    BY <1>1, <2>3, LeadsOnce
  <2>5. task[p].at \in Seen(folder, p)
    BY <2>1, <2>3, LeadsInside
  <2>6. task[p].at \in Shelving!Committed
    BY <2>3, <2>5 DEF Owned, Seen, Shelving!Committed, Shelving!Root
  <2> QED
    BY <2>4, <2>6
<1> QED
  BY <1>1, <1>2 DEF Walks

\* A request's step on the rows.
Edits(q) ==
    \/ UNCHANGED folder
    \/ \E p, n, b : Adds(q, p, n, b)
    \/ RollsBack(q)
    \/ Commits(q)

\* What a step of p's is to the rows of another request.
LEMMA OthersKeep ==
  ASSUME FolderBounds, FolderInv, NEW p \in Filers, Edits(p), NEW q \in Filers, p # q
  PROVE  /\ Keeps(q) /\ Owned(folder', q) = Owned(folder, q)
         /\ \A f \in Alive' : folder'[f].parent \in Owned(folder, q) =>
                f \in Alive /\ folder'[f].parent = folder[f].parent
<1>1. CASE UNCHANGED folder
  BY <1>1 DEF Keeps, Seen, Owned, Alive
<1>2. ASSUME NEW a, NEW n, NEW b, Adds(p, a, n, b)
      PROVE  /\ Keeps(q) /\ Owned(folder', q) = Owned(folder, q)
             /\ \A f \in Alive' : folder'[f].parent \in Owned(folder, q) =>
                    f \in Alive /\ folder'[f].parent = folder[f].parent
  <2>1. PICK f \in Shelves : /\ folder[f] = Shelving!Unborn
                             /\ folder' = [folder EXCEPT ![f] = Shelving!Row(a, n, b)]
    BY <1>2 DEF Adds
  <2>2. PICK x : x = Shelving!Row(a, n, b)
    OBVIOUS
  <2>3. x.parent = a /\ x.by = b /\ b \in {p, "root"} /\ b # q
    BY <1>2, <2>2 DEF Shelving!Row, Adds, FolderBounds
  <2>4. folder'[f] = x /\ \A g \in Shelves : g # f => folder'[g] = folder[g]
    BY <2>1, <2>2 DEF FolderInv
  <2>5. folder[f].by = "nobody" /\ q # "nobody"
    BY <2>1 DEF Shelving!Unborn, Shelving!Row, FolderBounds
  <2>6. a \notin Owned(folder, q)
    BY <1>2 DEF Adds, Owned, Shelving!Visible, Shelving!Root, FolderBounds
  <2>7. Keeps(q)
    BY <2>4, <2>5 DEF Keeps, Seen
  <2>8. Owned(folder', q) = Owned(folder, q)
    BY <2>3, <2>4, <2>5 DEF Owned
  <2>9. \A g \in Alive' : folder'[g].parent \in Owned(folder, q) =>
            g \in Alive /\ folder'[g].parent = folder[g].parent
    BY <2>3, <2>4, <2>6 DEF Alive
  <2> QED
    BY <2>7, <2>8, <2>9
<1>3. CASE RollsBack(p)
  <2>1. /\ Shelving!Gone.by = "deleted" /\ q # "deleted" /\ p # "root"
        /\ "deleted" \notin Filers \union {"root"}
    BY DEF Shelving!Gone, Shelving!Row, FolderBounds
  <2>2. \A f \in Shelves : folder'[f] = IF folder[f].by = p THEN Shelving!Gone ELSE folder[f]
    BY <1>3 DEF RollsBack
  <2>3. Keeps(q)
    BY <2>1, <2>2 DEF Keeps, Seen
  <2>4. Owned(folder', q) = Owned(folder, q)
    BY <2>1, <2>2 DEF Owned
  <2>5. \A g \in Alive' : g \in Alive /\ folder'[g].parent = folder[g].parent
    BY <2>1, <2>2 DEF Alive
  <2> QED
    BY <2>3, <2>4, <2>5
<1>4. CASE Commits(p)
  <2>1. ASSUME NEW f \in Shelves
        PROVE  /\ folder'[f].parent = folder[f].parent /\ folder'[f].name = folder[f].name
               /\ folder'[f].by = IF folder[f].by = p THEN "root" ELSE folder[f].by
    <3>1. folder[f] \in FolderRow
      BY DEF FolderInv
    <3>2. folder'[f] = IF folder[f].by = p THEN [folder[f] EXCEPT !.by = "root"] ELSE folder[f]
      BY <1>4 DEF Commits
    <3> QED
      BY <3>1, <3>2 DEF FolderRow
  <2>2. q # "root"
    BY DEF FolderBounds
  <2>3. Keeps(q)
    BY <2>1 DEF Keeps, Seen
  <2>4. Owned(folder', q) = Owned(folder, q)
    BY <2>1, <2>2 DEF Owned
  <2>5. \A g \in Alive' : g \in Alive /\ folder'[g].parent = folder[g].parent
    BY <2>1 DEF Alive
  <2> QED
    BY <2>3, <2>4, <2>5
<1> QED
  BY <1>1, <1>2, <1>3, <1>4 DEF Edits

\* Names stay unique.
LEMMA UniqueStep ==
  ASSUME FolderBounds, FolderInv, NamesUnique, NEW p \in Filers, Edits(p)
  PROVE  NamesUnique'
<1>1. ASSUME \A f \in Alive' : /\ f \in Alive /\ folder'[f].parent = folder[f].parent
                               /\ folder'[f].name = folder[f].name
      PROVE  NamesUnique'
  BY <1>1 DEF NamesUnique
<1>2. CASE UNCHANGED folder
  BY <1>2 DEF NamesUnique, Alive
<1>3. ASSUME NEW a, NEW n, NEW b, Adds(p, a, n, b) PROVE NamesUnique'
  <2>1. PICK f \in Shelves : /\ folder[f] = Shelving!Unborn
                             /\ folder' = [folder EXCEPT ![f] = Shelving!Row(a, n, b)]
    BY <1>3 DEF Adds
  <2>2. PICK x : x = Shelving!Row(a, n, b)
    OBVIOUS
  <2>3. x.parent = a /\ x.name = n
    BY <2>2 DEF Shelving!Row
  <2>4. folder'[f] = x /\ \A g \in Shelves : g # f => folder'[g] = folder[g]
    BY <2>1, <2>2 DEF FolderInv
  <2>5. \A g \in Alive' : g # f => /\ g \in Alive /\ folder'[g] = folder[g]
                                   /\ ~(folder[g].parent = a /\ folder[g].name = n)
    BY <1>3, <2>4 DEF Alive, Adds, Shelving!Named
  <2> QED
    BY <2>3, <2>4, <2>5 DEF NamesUnique
<1>4. CASE RollsBack(p)
  <2>1. Shelving!Gone.by = "deleted" /\ "deleted" \notin Filers \union {"root"}
    BY DEF Shelving!Gone, Shelving!Row, FolderBounds
  <2>2. \A f \in Shelves : folder'[f] = IF folder[f].by = p THEN Shelving!Gone ELSE folder[f]
    BY <1>4 DEF RollsBack
  <2>3. \A f \in Alive' : f \in Alive /\ folder'[f] = folder[f]
    BY <2>1, <2>2 DEF Alive
  <2> QED
    BY <1>1, <2>3
<1>5. CASE Commits(p)
  <2>1. ASSUME NEW f \in Shelves
        PROVE  /\ folder'[f].parent = folder[f].parent /\ folder'[f].name = folder[f].name
               /\ folder'[f].by = IF folder[f].by = p THEN "root" ELSE folder[f].by
    <3>1. folder[f] \in FolderRow
      BY DEF FolderInv
    <3>2. folder'[f] = IF folder[f].by = p THEN [folder[f] EXCEPT !.by = "root"] ELSE folder[f]
      BY <1>5 DEF Commits
    <3> QED
      BY <3>1, <3>2 DEF FolderRow
  <2>2. \A f \in Alive' : f \in Alive
    BY <2>1 DEF Alive
  <2> QED
    BY <1>1, <2>1, <2>2 DEF Alive
<1> QED
  BY <1>2, <1>3, <1>4, <1>5 DEF Edits

\* The walk of a request that a step leaves alone.
LEMMA WalkStays ==
  ASSUME FolderBounds, NEW q \in Filers, NEW r, Remembers(q, r), r.n \in Nat,
         Walks(folder, q, r), Keeps(q), Owned(folder', q) = Owned(folder, q),
         \A f \in Alive' : folder'[f].parent \in Owned(folder, q) =>
             f \in Alive /\ folder'[f].parent = folder[f].parent
  PROVE  Walks(folder', q, r)
<1>1. ASSUME r.pc \in Ensuring \union Ensured PROVE Leads(folder', q, r.path, r.n - 1, r.at)
  <2>1. r.n - 1 \in Nat
    BY <1>1 DEF Remembers, Ensured
  <2> QED
    BY <1>1, <2>1, LeadsOn DEF Walks
<1>2. ASSUME r.pc \in Ensuring \union Ensured, r.at \in Owned(folder, q)
      PROVE  \A f \in Shelves : folder'[f].by \in Filers \union {"root"} => folder'[f].parent # r.at
  BY <1>2 DEF Walks, Alive
<1>3. ASSUME r.pc = "reread"
      PROVE  \E f \in Shelves : /\ folder'[f].by = "root" /\ folder'[f].parent = r.at
                                /\ folder'[f].name = r.path[r.n]
  <2>1. PICK f \in Shelves :
          folder[f].by = "root" /\ folder[f].parent = r.at /\ folder[f].name = r.path[r.n]
    BY <1>3 DEF Walks
  <2> QED
    BY <2>1 DEF Keeps, Seen
<1> QED
  BY <1>1, <1>2, <1>3 DEF Walks

\* A step of one request, whose own walk goes on.
LEMMA WalkStep ==
  ASSUME FolderBounds, PathInv, FolderInv', ~stirred, NEW p \in Filers, Edits(p),
         \A q \in Filers : q # p => task'[q] = task[q],
         Walks(folder', p, task'[p])
  PROVE  PathInv'
<1>1. NamesUnique'
  BY UniqueStep DEF PathInv
<1>2. ASSUME NEW q \in Filers PROVE Walks(folder', q, task'[q])
  <2>1. CASE q = p
    BY <2>1
  <2>2. CASE q # p
    <3>1. /\ task'[q] = task[q] /\ task[q].n \in Nat
          /\ Walks(folder, q, task[q]) /\ Remembers(q, task[q])
      BY <2>2, TaskTypes DEF PathInv
    <3>2. /\ Keeps(q) /\ Owned(folder', q) = Owned(folder, q)
          /\ \A f \in Alive' : folder'[f].parent \in Owned(folder, q) =>
                f \in Alive /\ folder'[f].parent = folder[f].parent
      BY <2>2, OthersKeep DEF PathInv
    <3>3. PICK s : s = task[q]
      OBVIOUS
    <3>4. Walks(folder, q, s) /\ Remembers(q, s) /\ s.n \in Nat
      BY <3>1, <3>3
    <3>5. Walks(folder', q, s)
      BY <3>2, <3>4, WalkStays
    <3> QED
      BY <3>1, <3>3, <3>5
  <2> QED
    BY <2>1, <2>2
<1> QED
  BY <1>1, <1>2 DEF PathInv

\* A request that is not on a path has no row of its own, and need not have walked anywhere.
LEMMA Resting ==
  ASSUME NEW rows, NEW q, NEW r, r.pc \in {"idle", "create", "move", "delete", "file"},
         Owned(rows, q) = {}
  PROVE  Walks(rows, q, r)
BY DEF Walks, Ensuring, Ensured

\* One segment further down.
LEMMA GoesDeeper ==
  ASSUME NEW rows, NEW q, NEW s, NEW r, NEW f, s.n \in Nat \ {0},
         Leads(rows, q, s.path, s.n - 1, s.at), f \in Seen(rows, q),
         rows[f].parent = s.at, rows[f].name = s.path[s.n],
         r.at = f, r.n = s.n + 1, r.path = s.path, r.pc \in {"commit", "segment"},
         f \notin Owned(rows, q) => Owned(rows, q) = {},
         f \in Owned(rows, q) =>
             \A g \in Shelves : rows[g].by \in Filers \union {"root"} => rows[g].parent # f
  PROVE  Walks(rows, q, r)
<1>1. PICK k \in Nat : k = s.n - 1
  OBVIOUS
<1>2. k + 1 = s.n /\ r.n - 1 = k + 1
  BY <1>1
<1>3. Leads(rows, q, s.path, k + 1, f)
  BY <1>1, <1>2, LeadsFurther
<1> QED
  BY <1>2, <1>3 DEF Walks, Ensuring, Ensured

\* A request that ends with no row of its own.
LEMMA EndsWalk ==
  ASSUME FolderBounds, PathInv, FolderInv', ~stirred, NEW q \in Filers, Shelving!Done(q), Edits(q),
         Owned(folder', q) = {}
  PROVE  PathInv'
<1>1. /\ task'[q] = Shelving!Idle /\ Shelving!Idle.pc = "idle"
      /\ \A p \in Filers : p # q => task'[p] = task[p]
  BY IdleStep DEF PathInv, Shelving!Idle
<1>2. Walks(folder', q, task'[q])
  BY <1>1, Resting
<1> QED
  BY <1>1, <1>2, WalkStep

\* What the requests read.
LEMMA ReadsWalk ==
  ASSUME FolderBounds, PathInv, FolderInv', ~stirred, NEW q \in Filers,
         \/ Shelving!Create(q) \/ Shelving!EnsurePath(q) \/ Shelving!Move(q)
         \/ Shelving!Delete(q) \/ Shelving!File(q)
  PROVE  PathInv'
<1>1. PICK r : /\ UNCHANGED folder /\ task[q].pc = "idle"
               /\ Shelving!Step(q, r) /\ Reading(q, r)
  BY ReadersNext DEF PathInv
<1>2. Owned(folder', q) = {} /\ Edits(q)
  BY <1>1 DEF PathInv, Walks, Edits
<1>3. task'[q] = r /\ \A p \in Filers : p # q => task'[p] = task[p]
  BY <1>1 DEF Shelving!Step, PathInv, FolderInv
<1>4. CASE r.pc \in {"create", "move", "delete", "file"}
  BY <1>2, <1>3, <1>4, Resting, WalkStep
<1>5. CASE r.pc = "segment" /\ r.n = 1 /\ r.at = "root"
  <2>1. PICK g : g = [i \in 0..0 |-> "root"]
    OBVIOUS
  <2>2. g \in [0..0 -> Places] /\ g[0] = "root"
    BY <2>1 DEF Places
  <2>3. Leads(folder', q, r.path, 0, "root")
    BY <2>2 DEF Leads
  <2>4. Walks(folder', q, r)
    BY <1>2, <1>5, <2>3 DEF Walks, Ensuring, Ensured
  <2> QED
    BY <1>2, <1>3, <2>4, WalkStep
<1> QED
  BY <1>1, <1>4, <1>5 DEF Reading

\* What a request that is on a path knows of it.
LEMMA OnPath ==
  ASSUME FolderBounds, PathInv, ~stirred, NEW q \in Filers, task[q].pc \in Ensuring
  PROVE  /\ Leads(folder, q, task[q].path, task[q].n - 1, task[q].at)
         /\ task[q].n \in Nat \ {0}
         /\ task[q].at \in Seen(folder, q) \union {"root"}
         /\ \A f \in Seen(folder, q) : folder[f].parent = task[q].at =>
                task[q].at \notin Owned(folder, q) /\ Owned(folder, q) = {}
<1>1. Walks(folder, q, task[q]) /\ Remembers(q, task[q])
  BY TaskTypes DEF PathInv
<1>2. task[q].n \in Nat \ {0}
  BY <1>1 DEF Remembers
<1>3. PICK k \in Nat : k = task[q].n - 1
  BY <1>2
<1>4. Leads(folder, q, task[q].path, k, task[q].at)
  BY <1>1, <1>3 DEF Walks
<1>5. task[q].at \in Seen(folder, q) \union {"root"}
  BY <1>4, LeadsInside
<1>6. \A f \in Seen(folder, q) : folder[f].by \in Filers \union {"root"}
  BY DEF Seen
<1>7. ASSUME NEW f \in Seen(folder, q), folder[f].parent = task[q].at
      PROVE  task[q].at \notin Owned(folder, q) /\ Owned(folder, q) = {}
  <2>1. f \in Shelves
    BY DEF Seen
  <2> QED
    BY <1>1, <1>6, <1>7, <2>1 DEF Walks
<1> QED
  BY <1>2, <1>3, <1>4, <1>5, <1>7

\* The steps of ensure_path that find a segment.
LEMMA FindsWalk ==
  ASSUME FolderBounds, PathInv, FolderInv', ~stirred, NEW q \in Filers,
         Shelving!FindSegment(q) \/ Shelving!RereadSegment(q)
  PROVE  PathInv'
<1>1. /\ UNCHANGED folder /\ Edits(q) /\ task[q].pc \in Ensuring /\ FolderInv
      /\ task[q] \in Filing /\ Walks(folder, q, task[q])
  BY TaskTypes DEF Shelving!FindSegment, Shelving!RereadSegment, Edits, Ensuring, PathInv
<1>2. ASSUME NEW r, Shelving!Step(q, r), Walks(folder, q, r) PROVE PathInv'
  <2>1. task'[q] = r /\ \A p \in Filers : p # q => task'[p] = task[p]
    BY <1>2 DEF Shelving!Step, PathInv, FolderInv
  <2>2. Walks(folder', q, task'[q])
    BY <1>1, <1>2, <2>1
  <2> QED
    BY <1>1, <2>1, <2>2, WalkStep
<1>3. ASSUME NEW f \in Seen(folder, q), folder[f].parent = task[q].at,
             folder[f].name = task[q].path[task[q].n], Shelving!Step(q, Shelving!Deeper(task[q], f))
      PROVE  PathInv'
  <2>1. PICK r : r = Shelving!Deeper(task[q], f)
    OBVIOUS
  <2>2. f \in Shelves
    BY DEF Seen
  <2>3. r.at = f /\ r.n = task[q].n + 1 /\ r.path = task[q].path /\ r.pc \in {"commit", "segment"}
    BY <1>1, <2>1, <2>2, DeeperStep
  <2>4. PICK s : s = task[q]
    OBVIOUS
  <2>5. /\ s.n \in Nat \ {0} /\ Leads(folder, q, s.path, s.n - 1, s.at)
        /\ Owned(folder, q) = {}
    BY <1>1, <1>3, <2>4, OnPath
  <2>6. f \notin Owned(folder, q) /\ folder[f].parent = s.at /\ folder[f].name = s.path[s.n]
        /\ r.n = s.n + 1 /\ r.path = s.path
    BY <1>3, <2>3, <2>4, <2>5
  <2>7. Walks(folder, q, r)
    BY <2>3, <2>5, <2>6, GoesDeeper
  <2> QED
    BY <1>2, <1>3, <2>1, <2>7
<1>4. CASE Shelving!FindSegment(q)
  <2>1. CASE \E f \in Shelving!Named(Shelving!Visible(q), task[q].at, task[q].path[task[q].n]) :
               Shelving!Step(q, Shelving!Deeper(task[q], f))
    <3>1. PICK f \in Shelving!Named(Shelving!Visible(q), task[q].at, task[q].path[task[q].n]) :
            Shelving!Step(q, Shelving!Deeper(task[q], f))
      BY <2>1
    <3>2. /\ f \in Seen(folder, q) /\ folder[f].parent = task[q].at
          /\ folder[f].name = task[q].path[task[q].n]
      BY DEF Shelving!Named, Shelving!Visible, Shelving!Root, Seen
    <3> QED
      BY <1>3, <3>1, <3>2
  <2>2. CASE Shelving!Step(q, [task[q] EXCEPT !.pc = "insert"])
    <3>1. PICK r : r = [task[q] EXCEPT !.pc = "insert"]
      OBVIOUS
    <3>2. r.pc = "insert" /\ r.at = task[q].at /\ r.n = task[q].n /\ r.path = task[q].path
      BY <1>1, <3>1 DEF Filing
    <3>3. Walks(folder, q, r)
      BY <1>1, <3>2 DEF Walks, Ensuring
    <3> QED
      BY <1>2, <2>2, <3>1, <3>3
  <2> QED
    BY <1>4, <2>1, <2>2 DEF Shelving!FindSegment
<1>5. CASE Shelving!RereadSegment(q)
  <2>1. Shelving!Named(Shelving!Committed, task[q].at, task[q].path[task[q].n]) # {}
    <3>1. task[q].pc = "reread"
      BY <1>5 DEF Shelving!RereadSegment
    <3> QED
      BY <1>1, <3>1 DEF Walks, Shelving!Named, Shelving!Committed, Shelving!Root
  <2>2. PICK f \in Shelving!Named(Shelving!Committed, task[q].at, task[q].path[task[q].n]) :
          Shelving!Step(q, Shelving!Deeper(task[q], f))
    BY <1>5, <2>1 DEF Shelving!RereadSegment
  <2>3. /\ f \in Seen(folder, q) /\ folder[f].parent = task[q].at
        /\ folder[f].name = task[q].path[task[q].n]
    BY DEF Shelving!Named, Shelving!Committed, Shelving!Root, Seen
  <2> QED
    BY <1>3, <2>2, <2>3
<1> QED
  BY <1>4, <1>5

\* The insert of a segment.  What is refused is there: nobody has a row below one that the
\* request itself has added.
LEMMA InsertsWalk ==
  ASSUME FolderBounds, PathInv, FolderInv', ~stirred, NEW q \in Filers, Shelving!InsertSegment(q)
  PROVE  PathInv'
<1> DEFINE n == task[q].path[task[q].n]
<1>1. /\ task[q].pc = "insert" /\ task[q].pc \in Ensuring /\ FolderInv
      /\ task[q] \in Filing /\ Walks(folder, q, task[q])
  BY InsertNext, TaskTypes DEF PathInv, Ensuring
<1>2. PICK s : s = task[q]
  OBVIOUS
<1>3. /\ s.n \in Nat \ {0} /\ Leads(folder, q, s.path, s.n - 1, s.at)
      /\ s.at \in Seen(folder, q) \union {"root"}
      /\ \A f \in Seen(folder, q) : folder[f].parent = s.at =>
             s.at \notin Owned(folder, q) /\ Owned(folder, q) = {}
  BY <1>1, <1>2, OnPath
<1>4. ASSUME NEW r, Shelving!Step(q, r), Walks(folder', q, r), Edits(q) PROVE PathInv'
  <2>1. task'[q] = r /\ \A p \in Filers : p # q => task'[p] = task[p]
    BY <1>4 DEF Shelving!Step, PathInv, FolderInv
  <2> QED
    BY <1>4, <2>1, WalkStep
<1>5. ASSUME Adds(q, task[q].at, n, q), NEW f \in Shelves, folder[f] = Shelving!Unborn,
             folder' = [folder EXCEPT ![f] = Shelving!Row(task[q].at, n, q)],
             Shelving!Step(q, Shelving!Deeper(task[q], f))
      PROVE  PathInv'
  <2>1. PICK r : r = Shelving!Deeper(task[q], f)
    OBVIOUS
  <2>2. r.at = f /\ r.n = s.n + 1 /\ r.path = s.path /\ r.pc \in {"commit", "segment"}
    BY <1>1, <1>2, <2>1, DeeperStep
  <2>3. PICK x : x = Shelving!Row(task[q].at, n, q)
    OBVIOUS
  <2>4. x.parent = s.at /\ x.name = s.path[s.n] /\ x.by = q
    BY <1>2, <2>3 DEF Shelving!Row
  <2>5. folder'[f] = x /\ \A g \in Shelves : g # f => folder'[g] = folder[g]
    BY <1>1, <1>5, <2>3 DEF FolderInv
  <2>6. folder[f].by = "nobody" /\ \A g \in Shelves : folder[g].parent # f
    BY <1>1, <1>5 DEF Shelving!Unborn, Shelving!Row, FolderInv, RowsHold
  <2>7. f \notin Seen(folder, q)
    BY <2>6 DEF Seen, FolderBounds
  <2>8. s.at # f
    BY <1>3, <2>7 DEF FolderBounds
  <2>9. Keeps(q)
    BY <2>5, <2>7 DEF Keeps, Seen
  <2>10. Leads(folder', q, s.path, s.n - 1, s.at)
    <3>1. s.n - 1 \in Nat
      BY <1>3
    <3> QED
      BY <1>3, <2>9, <3>1, LeadsOn
  <2>11. f \in Seen(folder', q) /\ f \in Owned(folder', q)
    BY <2>4, <2>5 DEF Seen, Owned
  <2>12. \A g \in Shelves : folder'[g].parent # f
    BY <2>4, <2>5, <2>6, <2>8
  <2>13. folder'[f].parent = s.at /\ folder'[f].name = s.path[s.n]
    BY <2>4, <2>5
  <2>14. Walks(folder', q, r)
    BY <1>3, <2>2, <2>10, <2>11, <2>12, <2>13, GoesDeeper
  <2>15. Edits(q)
    BY <1>5 DEF Edits
  <2> QED
    BY <1>4, <1>5, <2>1, <2>14, <2>15
<1>6. ASSUME RollsBack(q), Shelving!Step(q, [task[q] EXCEPT !.pc = "reread"]),
             Shelving!Refused(q, task[q].at, n)
      PROVE  PathInv'
  <2>1. PICK r : r = [task[q] EXCEPT !.pc = "reread"]
    OBVIOUS
  <2>2. r.pc = "reread" /\ r.at = s.at /\ r.n = s.n /\ r.path = s.path
    BY <1>1, <1>2, <2>1 DEF Filing
  <2>3. PICK f \in Seen(folder, q) : folder[f].parent = s.at /\ folder[f].name = s.path[s.n]
    <3>1. s.at \in Shelving!Visible(q) \union {Shelving!Root}
      BY <1>3 DEF Seen, Shelving!Visible, Shelving!Root
    <3>2. Shelving!Named(Shelving!Visible(q), s.at, s.path[s.n]) # {}
      BY <1>2, <1>6, <3>1 DEF Shelving!Refused
    <3> QED
      BY <3>2 DEF Shelving!Named, Shelving!Visible, Shelving!Root, Seen
  <2>4. s.at \notin Owned(folder, q) /\ Owned(folder, q) = {}
    BY <1>3, <2>3
  <2>5. f \in Shelves /\ folder[f].by = "root"
    BY <2>4 DEF Seen, Owned
  <2>6. UNCHANGED folder
    <3>1. \A g \in Shelves : folder[g].by # q
      BY <2>4 DEF Owned
    <3>2. folder' = [g \in Shelves |-> folder[g]]
      BY <1>6, <3>1 DEF RollsBack
    <3> QED
      BY <1>1, <3>2 DEF FolderInv
  <2>7. Walks(folder, q, r)
    BY <1>3, <2>2, <2>3, <2>4, <2>5 DEF Walks, Ensuring, Ensured
  <2>8. Walks(folder', q, r)
    BY <2>6, <2>7
  <2>9. Edits(q)
    BY <2>6 DEF Edits
  <2> QED
    BY <1>4, <1>6, <2>1, <2>8, <2>9
<1> HIDE DEF n
<1>7. \/ /\ Adds(q, task[q].at, n, q)
         /\ \E f \in Shelves :
               /\ folder[f] = Shelving!Unborn
               /\ folder' = [folder EXCEPT ![f] = Shelving!Row(task[q].at, n, q)]
               /\ Shelving!Step(q, Shelving!Deeper(task[q], f))
      \/ /\ RollsBack(q) /\ Shelving!Step(q, [task[q] EXCEPT !.pc = "reread"])
         /\ Shelving!Refused(q, task[q].at, n)
  BY <1>1, InsertNext DEF n
<1> QED
  BY <1>5, <1>6, <1>7

\* The commit of ensure_path.
LEMMA CommitsWalk ==
  ASSUME FolderBounds, PathInv, FolderInv', ~stirred, NEW q \in Filers, Shelving!EnsureCommit(q)
  PROVE  PathInv'
<1>1. /\ task[q].pc = "commit" /\ FolderInv /\ Commits(q)
      /\ Shelving!Step(q, [task[q] EXCEPT !.pc = "done"])
      /\ task[q] \in Filing /\ Walks(folder, q, task[q]) /\ Remembers(q, task[q])
  BY EnsureCommitNext, TaskTypes DEF PathInv
<1>2. PICK r : r = [task[q] EXCEPT !.pc = "done"]
  OBVIOUS
<1>3. r.pc = "done" /\ r.at = task[q].at /\ r.n = task[q].n /\ r.path = task[q].path
  BY <1>1, <1>2 DEF Filing
<1>4. ASSUME NEW f \in Shelves
      PROVE  /\ folder'[f].parent = folder[f].parent /\ folder'[f].name = folder[f].name
             /\ folder'[f].by = IF folder[f].by = q THEN "root" ELSE folder[f].by
  <2>1. folder[f] \in FolderRow
    BY <1>1 DEF FolderInv
  <2>2. folder'[f] = IF folder[f].by = q THEN [folder[f] EXCEPT !.by = "root"] ELSE folder[f]
    BY <1>1 DEF Commits
  <2> QED
    BY <2>1, <2>2 DEF FolderRow
<1>5. Keeps(q)
  BY <1>4 DEF Keeps, Seen
<1>6. Owned(folder', q) = {}
  BY <1>4 DEF Owned, FolderBounds
<1>7. Leads(folder', q, r.path, r.n - 1, r.at)
  <2>1. task[q].n - 1 \in Nat
    BY <1>1 DEF Remembers, Ensured
  <2>2. Leads(folder, q, task[q].path, task[q].n - 1, task[q].at)
    BY <1>1 DEF Walks, Ensured
  <2> QED
    BY <1>3, <1>5, <2>1, <2>2, LeadsOn
<1>8. Walks(folder', q, r)
  BY <1>3, <1>6, <1>7 DEF Walks
<1>9. task'[q] = r /\ \A p \in Filers : p # q => task'[p] = task[p]
  BY <1>1, <1>2 DEF Shelving!Step, FolderInv
<1>10. Edits(q)
  BY <1>1 DEF Edits
<1> QED
  BY <1>8, <1>9, <1>10, WalkStep

\* That the tree has been stirred is not forgotten.
LEMMA StirredStays ==
  ASSUME FolderBounds, FolderInv, [Shelving!Next]_(Shelving!folderVars), stirred
  PROVE  stirred'
<1>1. CASE UNCHANGED Shelving!folderVars
  BY <1>1 DEF Shelving!folderVars
<1>2. ASSUME NEW d \in Filed, Shelving!Remove(d) PROVE stirred'
  BY <1>2, RemoveNext
<1>3. ASSUME NEW q \in Filers PROVE Shelving!MoveCommit(q) => stirred'
  BY MoveNext
<1>4. ASSUME NEW q \in Filers PROVE Shelving!DeleteCommit(q) => stirred'
  BY DeleteNext
<1>5. ASSUME NEW q \in Filers
      PROVE  Shelving!Create(q) \/ Shelving!EnsurePath(q) \/ Shelving!Move(q)
             \/ Shelving!Delete(q) \/ Shelving!File(q) => UNCHANGED stirred
  BY ReadersNext
<1>6. ASSUME NEW q \in Filers
      PROVE  /\ Shelving!FindSegment(q) \/ Shelving!RereadSegment(q) => UNCHANGED stirred
             /\ Shelving!InsertSegment(q) => UNCHANGED stirred
             /\ Shelving!EnsureCommit(q) => UNCHANGED stirred
  BY InsertNext, EnsureCommitNext DEF Shelving!FindSegment, Shelving!RereadSegment
<1>7. ASSUME NEW q \in Filers
      PROVE  /\ Shelving!CreateCommit(q) => UNCHANGED stirred
             /\ Shelving!FileCommit(q) => UNCHANGED stirred
             /\ Shelving!Drop(q) => UNCHANGED stirred
  BY CreateNext, FileNext, DropNext
<1> QED
  BY <1>1, <1>2, <1>3, <1>4, <1>5, <1>6, <1>7 DEF Shelving!Next, Shelving!Ensure

\* Every step keeps every request on its path, until the tree is stirred.
LEMMA PathNext ==
  ASSUME FolderBounds, PathInv, [Shelving!Next]_(Shelving!folderVars)
  PROVE  PathInv'
<1>1. FolderInv /\ FolderInv'
  BY FolderNext DEF PathInv
<1>2. CASE stirred'
  BY <1>1, <1>2 DEF PathInv
<1>3. CASE ~stirred'
  <2>1. ~stirred
    BY <1>1, <1>3, StirredStays
  <2>2. CASE UNCHANGED <<folder, task>>
    BY <1>1, <2>1, <2>2 DEF PathInv, NamesUnique, Alive
  <2>3. ASSUME NEW q \in Filers, Shelving!CreateCommit(q) PROVE PathInv'
    <3>1. /\ Shelving!Done(q) /\ task[q].pc = "create"
          /\ UNCHANGED folder \/ Adds(q, task[q].at, task[q].name, "root")
      BY <1>1, <2>3, CreateNext
    <3>2. Owned(folder, q) = {} /\ q # "root"
      BY <2>1, <3>1 DEF PathInv, Walks, FolderBounds
    <3>3. CASE UNCHANGED folder
      BY <1>1, <2>1, <3>1, <3>2, <3>3, EndsWalk DEF Edits
    <3>4. CASE Adds(q, task[q].at, task[q].name, "root")
      <4>1. PICK f \in Shelves :
              folder' = [folder EXCEPT ![f] = Shelving!Row(task[q].at, task[q].name, "root")]
        BY <3>4 DEF Adds
      <4>2. PICK x : x = Shelving!Row(task[q].at, task[q].name, "root")
        OBVIOUS
      <4>3. x.by = "root"
        BY <4>2 DEF Shelving!Row
      <4>4. folder'[f] = x /\ \A g \in Shelves : g # f => folder'[g] = folder[g]
        BY <1>1, <4>1, <4>2 DEF FolderInv
      <4>5. Owned(folder', q) = {}
        BY <3>2, <4>3, <4>4 DEF Owned
      <4>6. Edits(q)
        BY <3>4 DEF Edits
      <4> QED
        BY <1>1, <2>1, <3>1, <4>5, <4>6, EndsWalk
    <3> QED
      BY <3>1, <3>3, <3>4
  <2>4. ASSUME NEW q \in Filers, Shelving!Done(q), UNCHANGED folder,
               task[q].pc \in {"move", "delete", "file"}
        PROVE  PathInv'
    <3>1. Owned(folder, q) = {} /\ Owned(folder', q) = {}
      BY <2>1, <2>4 DEF PathInv, Walks
    <3> QED
      BY <1>1, <2>1, <2>4, <3>1, EndsWalk DEF Edits
  <2>5. ASSUME NEW q \in Filers, Shelving!MoveCommit(q) PROVE PathInv'
    BY <1>1, <1>3, <2>4, <2>5, MoveNext
  <2>6. ASSUME NEW q \in Filers, Shelving!DeleteCommit(q) PROVE PathInv'
    BY <1>1, <1>3, <2>4, <2>6, DeleteNext
  <2>7. ASSUME NEW q \in Filers, Shelving!FileCommit(q) PROVE PathInv'
    <3>1. task[q].pc = "file"
      BY <2>7 DEF Shelving!FileCommit
    <3> QED
      BY <1>1, <2>4, <2>7, <3>1, FileNext
  <2>8. ASSUME NEW q \in Filers, Shelving!Drop(q) PROVE PathInv'
    <3>1. Shelving!Done(q) /\ RollsBack(q)
      BY <1>1, <2>8, DropNext
    <3>2. Shelving!Gone.by # q
      BY DEF Shelving!Gone, Shelving!Row, FolderBounds
    <3>3. Owned(folder', q) = {}
      BY <3>1, <3>2 DEF RollsBack, Owned
    <3> QED
      BY <1>1, <2>1, <3>1, <3>3, EndsWalk DEF Edits
  <2>9. ASSUME NEW d \in Filed, Shelving!Remove(d) PROVE PathInv'
    BY <1>1, <2>2, <2>9, RemoveNext
  <2>10. ASSUME NEW q \in Filers,
                \/ Shelving!Create(q) \/ Shelving!CreateCommit(q) \/ Shelving!Ensure(q)
                \/ Shelving!Move(q) \/ Shelving!MoveCommit(q) \/ Shelving!Delete(q)
                \/ Shelving!DeleteCommit(q) \/ Shelving!File(q) \/ Shelving!FileCommit(q)
                \/ Shelving!Drop(q)
         PROVE  PathInv'
    BY <1>1, <2>1, <2>3, <2>5, <2>6, <2>7, <2>8, <2>10, ReadsWalk, FindsWalk, InsertsWalk,
       CommitsWalk DEF Shelving!Ensure
  <2>11. CASE UNCHANGED Shelving!folderVars
    BY <2>2, <2>11 DEF Shelving!folderVars
  <2> QED
    BY <2>9, <2>10, <2>11 DEF Shelving!Next
<1> QED
  BY <1>2, <1>3

\* Nobody has walked anywhere when the workspace starts.
LEMMA PathStart == ASSUME FolderBounds, Shelving!Init PROVE PathInv
<1>1. FolderInv
  BY FolderStart DEF TreeInv
<1>2. \A f \in Shelves : folder[f].by = "nobody"
  BY DEF Shelving!Init, Shelving!Unborn, Shelving!Row
<1>3. NamesUnique
  BY <1>2 DEF NamesUnique, Alive, FolderBounds
<1>4. ASSUME NEW q \in Filers PROVE Walks(folder, q, task[q])
  <2>1. Owned(folder, q) = {}
    BY <1>2 DEF Owned, FolderBounds
  <2>2. task[q].pc = "idle"
    BY DEF Shelving!Init, Shelving!Idle
  <2> QED
    BY <2>1, <2>2, Resting
<1> QED
  BY <1>1, <1>3, <1>4 DEF PathInv

\* Requests that create the same tree at once answer with the same folders, all committed,
\* and none fails, unless somebody renames, moves or deletes folders meanwhile: ensure_path.
THEOREM EnsureConvergesAlways ==
  ASSUME FolderBounds
  PROVE  Shelving!Spec => []Shelving!EnsureConverges
<1>1. Shelving!Init => PathInv
  BY PathStart
<1>2. PathInv /\ [Shelving!Next]_(Shelving!folderVars) => PathInv'
  BY PathNext
<1>3. PathInv => Shelving!EnsureConverges
  BY PathsAgree
<1> QED
  BY <1>1, <1>2, <1>3, PTL DEF Shelving!Spec
=============================================================================
