--------------------------- MODULE ChatTurnProofs ---------------------------
(***************************************************************************)
(* Proofs about ChatTurn.  The first part is about the tree: Path is given *)
(* by a recursion along parents, and what it computes is derived without   *)
(* induction.  That the recursion has a solution follows from an explicit  *)
(* one (the messages in every set closed under parents); what holds of all *)
(* paths follows from the least message for which it would not hold.       *)
(*                                                                         *)
(* The second part is the inductive invariant, ChatInv: each turn's record *)
(* is Good with respect to the messages, and who is between the count of   *)
(* the siblings and the insert holds the lock of the chat.  The operators  *)
(* it is made of take the messages as an argument, so that a fact proved   *)
(* of them holds before and after a step.                                  *)
(*                                                                         *)
(* The third part is about Reviews, what administrators read of the        *)
(* answers of all chats, and the last about Retrieval, which gives a turn  *)
(* its sources.                                                            *)
(***************************************************************************)
EXTENDS ChatTurn, Integers, FiniteSetTheorems, TLAPS

\* Messages, each after its parent.
Message == [parent : Nat, role : {"user", "assistant"}, index : Nat,
            by : Turns \union {None}, stopped : BOOLEAN]

Rooted(ms) == ms \in Seq(Message) /\ \A m \in 1..Len(ms) : ms[m].parent < m

\* Path as a function of the messages.
Up(ms) ==
    LET up[n \in 0..Len(ms)] ==
            IF n = None THEN {} ELSE {n} \union up[ms[n].parent]
    IN  up

\* Path is that function, before and after a step.
LEMMA PathUp == \A m : Path(m) = Up(msgs)[m] /\ Path(m)' = Up(msgs')[m]
BY Zenon DEF Path, Up

\* Closed: the sets that contain the parent of each of their messages.
Closed(ms, S) == \A j \in S : j # None => ms[j].parent \in S

\* The recursion has a solution.
LEMMA UpExists ==
  ASSUME NEW ms, Rooted(ms)
  PROVE  Up(ms) = [n \in 0..Len(ms) |->
                     IF n = None THEN {} ELSE {n} \union Up(ms)[ms[n].parent]]
<1> DEFINE All == 0..Len(ms)
           f == [n \in All |-> {k \in All \ {None} :
                     \A S \in SUBSET All : n \in S /\ Closed(ms, S) => k \in S}]
<1>1. ASSUME NEW n \in All \ {None} PROVE ms[n].parent \in All
  <2>1. n \in 1..Len(ms) /\ Len(ms) \in Nat
    BY DEF Rooted, None
  <2>2. ms[n] \in Message /\ ms[n].parent < n
    BY <2>1 DEF Rooted
  <2>3. ms[n].parent \in Nat
    BY <2>2 DEF Message
  <2> QED
    BY <2>1, <2>2, <2>3
<1>2. f[None] = {}
  <2>1. {None} \in SUBSET All /\ Closed(ms, {None})
    BY DEF Rooted, Closed, None
  <2> QED
    BY <2>1
<1>3. ASSUME NEW n \in All \ {None}
      PROVE  f[n] = {n} \union f[ms[n].parent]
  <2>1. ASSUME NEW k \in f[n], k # n PROVE k \in f[ms[n].parent]
    <3> SUFFICES ASSUME NEW S \in SUBSET All, ms[n].parent \in S, Closed(ms, S) PROVE k \in S
      BY <1>1, <2>1
    <3>1. Closed(ms, S \union {n}) /\ S \union {n} \in SUBSET All
      BY DEF Closed
    <3> QED
      BY <2>1, <3>1
  <2>2. ASSUME NEW k \in f[ms[n].parent] PROVE k \in f[n]
    <3> SUFFICES ASSUME NEW S \in SUBSET All, n \in S, Closed(ms, S) PROVE k \in S
      BY <1>1, <2>2
    <3>1. ms[n].parent \in S
      BY DEF Closed
    <3> QED
      BY <1>1, <2>2, <3>1
  <2>3. n \in f[n]
    OBVIOUS
  <2> QED
    BY <2>1, <2>2, <2>3
<1>4. f = [n \in All |-> IF n = None THEN {} ELSE {n} \union f[ms[n].parent]]
  <2> HIDE DEF All
  <2>1. \A n \in All : f[n] = IF n = None THEN {} ELSE {n} \union f[ms[n].parent]
    BY <1>2, <1>3
  <2> QED
    BY <2>1, Zenon
<1> HIDE DEF f
<1> QED
  BY <1>4, Zenon DEF Up

\* A nonempty set of naturals has a least element.
LEMMA LeastNat ==
    ASSUME NEW T, T \subseteq Nat, T # {}
    PROVE  \E n \in T : \A m \in T : n <= m
<1> DEFINE R == {ss \in Nat \X Nat : ss[1] < ss[2]}
<1>1. IsWellFoundedOn(R, Nat)
  BY NatLessThanWellFounded, Zenon DEF OpToRel
<1>2. PICK n \in T : \A m \in T : ~ (<<m, n>> \in R)
  <2> HIDE DEF R
  <2> QED BY <1>1, WFMin, Zenon
<1>3. ASSUME NEW m \in T PROVE n <= m
  <2>1. m \in Nat /\ n \in Nat
    OBVIOUS
  <2>2. <<m, n>>[1] = m /\ <<m, n>>[2] = n /\ <<m, n>> \in Nat \X Nat
    BY <2>1
  <2>3. ~(<<m, n>>[1] < <<m, n>>[2])
    BY <1>2, <2>2, Zenon
  <2>4. QED
    BY <2>1, <2>2, <2>3
<1>4. QED
  BY <1>3

\* The recursion of Path.
LEMMA UpRec ==
  ASSUME NEW ms, Rooted(ms)
  PROVE  /\ Up(ms)[None] = {}
         /\ \A m \in 1..Len(ms) : /\ ms[m].parent \in 0..(m - 1)
                                  /\ Up(ms)[m] = {m} \union Up(ms)[ms[m].parent]
<1>1. ASSUME NEW m \in 1..Len(ms)
      PROVE  ms[m].parent \in 0..(m - 1)
  <2>1. ms[m] \in Message /\ ms[m].parent < m
    BY DEF Rooted
  <2> QED
    BY <2>1 DEF Message
<1>2. None \in 0..Len(ms)
  BY DEF Rooted, None
<1>3. ASSUME NEW m \in 1..Len(ms) PROVE m \in 0..Len(ms) /\ m # None
  BY DEF Rooted, None
<1>4. ASSUME NEW n \in 0..Len(ms)
      PROVE  Up(ms)[n] = IF n = None THEN {} ELSE {n} \union Up(ms)[ms[n].parent]
  <2> DEFINE g == [k \in 0..Len(ms) |->
                     IF k = None THEN {} ELSE {k} \union Up(ms)[ms[k].parent]]
  <2>1. g[n] = IF n = None THEN {} ELSE {n} \union Up(ms)[ms[n].parent]
    OBVIOUS
  <2>2. Up(ms) = g
    BY UpExists, Zenon
  <2> HIDE DEF g
  <2> QED
    BY <2>1, <2>2, Zenon
<1> QED
  BY <1>1, <1>2, <1>3, <1>4, Zenon

\* A path to m holds messages up to m.
LEMMA UpBelow ==
  ASSUME NEW ms, Rooted(ms), NEW m \in 0..Len(ms)
  PROVE  Up(ms)[m] \subseteq 1..m
<1> DEFINE Wrong == {n \in 0..Len(ms) : ~(Up(ms)[n] \subseteq 1..n)}
<1>0. Len(ms) \in Nat
  BY DEF Rooted
<1>1. ASSUME Wrong # {} PROVE FALSE
  <2>1. PICK n \in Wrong : \A k \in Wrong : n <= k
    <3>1. Wrong \subseteq Nat
      BY <1>0
    <3> HIDE DEF Wrong
    <3> QED
      BY <1>1, <3>1, LeastNat
  <2>2. n # 0
    BY UpRec DEF None
  <2>3. /\ ms[n].parent \in 0..(n - 1)
        /\ Up(ms)[n] = {n} \union Up(ms)[ms[n].parent]
    BY <1>0, <2>2, UpRec
  <2>4. Up(ms)[ms[n].parent] \subseteq 1..ms[n].parent
    BY <1>0, <2>1, <2>3
  <2> QED
    BY <1>0, <2>1, <2>2, <2>3, <2>4
<1> QED
  BY <1>1

\* Paths are chains: what lies on a path below one of its messages is that message's path.
LEMMA UpChain ==
  ASSUME NEW ms, Rooted(ms), NEW m \in 0..Len(ms), NEW n \in Up(ms)[m]
  PROVE  Up(ms)[n] = {k \in Up(ms)[m] : k <= n}
<1> DEFINE Fits(j) == \A i \in Up(ms)[j] : Up(ms)[i] = {k \in Up(ms)[j] : k <= i}
           Wrong == {j \in 0..Len(ms) : ~Fits(j)}
<1>0. Len(ms) \in Nat
  BY DEF Rooted
<1>1. ASSUME Wrong # {} PROVE FALSE
  <2>1. PICK j \in Wrong : \A k \in Wrong : j <= k
    <3>1. Wrong \subseteq Nat
      BY <1>0
    <3> HIDE DEF Wrong
    <3> QED
      BY <1>1, <3>1, LeastNat
  <2>2. j # 0
    BY UpRec DEF None
  <2> DEFINE p == ms[j].parent
  <2>3. p \in 0..(j - 1) /\ Up(ms)[j] = {j} \union Up(ms)[p]
    BY <1>0, <2>2, UpRec
  <2>4. Fits(p) /\ p \in 0..Len(ms)
    BY <1>0, <2>1, <2>3
  <2>5. Up(ms)[p] \subseteq 1..p
    BY <2>4, UpBelow
  <2>6. ASSUME NEW i \in Up(ms)[j] PROVE Up(ms)[i] = {k \in Up(ms)[j] : k <= i}
    <3>1. CASE i = j
      BY <1>0, <2>3, <2>5, <3>1
    <3>2. CASE i # j
      <4>1. i \in Up(ms)[p] /\ i \in 1..p
        BY <2>3, <2>5, <3>2
      <4>2. Up(ms)[i] = {k \in Up(ms)[p] : k <= i}
        BY <2>4, <4>1
      <4> QED
        BY <1>0, <2>3, <2>5, <4>1, <4>2
    <3> QED
      BY <3>1, <3>2
  <2> QED
    BY <2>1, <2>6
<1>2. Fits(m)
  BY <1>1
<1> QED
  BY <1>2

\* A message that is added changes no path.
LEMMA UpStable ==
  ASSUME NEW ms, Rooted(ms), NEW x, Rooted(Append(ms, x)), NEW m \in 0..Len(ms)
  PROVE  Up(Append(ms, x))[m] = Up(ms)[m]
<1> DEFINE more == Append(ms, x)
           Wrong == {n \in 0..Len(ms) : Up(more)[n] # Up(ms)[n]}
<1>0. /\ Len(ms) \in Nat /\ Len(more) = Len(ms) + 1
      /\ \A n \in 1..Len(ms) : more[n] = ms[n]
  BY DEF Rooted
<1> HIDE DEF more
<1>1. ASSUME Wrong # {} PROVE FALSE
  <2>1. PICK n \in Wrong : \A k \in Wrong : n <= k
    <3>1. Wrong \subseteq Nat
      BY <1>0
    <3> HIDE DEF Wrong
    <3> QED
      BY <1>1, <3>1, LeastNat
  <2>2. n # 0
    BY UpRec DEF None, more
  <2>3. /\ ms[n].parent \in 0..(n - 1) /\ more[n].parent = ms[n].parent
        /\ Up(ms)[n] = {n} \union Up(ms)[ms[n].parent]
        /\ Up(more)[n] = {n} \union Up(more)[ms[n].parent]
    <3>1. n \in 1..Len(ms) /\ n \in 1..Len(more)
      BY <1>0, <2>2
    <3>2. Rooted(more)
      BY DEF more
    <3>3. /\ ms[n].parent \in 0..(n - 1)
          /\ Up(ms)[n] = {n} \union Up(ms)[ms[n].parent]
      BY <3>1, UpRec
    <3>4. Up(more)[n] = {n} \union Up(more)[more[n].parent]
      BY <3>1, <3>2, UpRec
    <3>5. more[n].parent = ms[n].parent
      BY <1>0, <3>1
    <3> QED
      BY <3>3, <3>4, <3>5
  <2>4. Up(more)[ms[n].parent] = Up(ms)[ms[n].parent]
    BY <1>0, <2>1, <2>3
  <2> QED
    BY <2>1, <2>3, <2>4
<1> QED
  BY <1>1 DEF more

-----------------------------------------------------------------------------
(* The inductive invariant. *)

RescueSteps == {"none", "owed", "counted", "kept", "metered", "lost"}
Steps == Before \union Gathering \union Replying \union {"over"}
Memory == [covers : SUBSET Nat, upto : Nat]
Turn == [pc : Steps, asked : Nat, at : Nat, slot : Nat, memory : Memory,
         prompt : SUBSET Nat, route : Routes, steps : 0..MaxSteps, partial : BOOLEAN,
         gathered : SUBSET Spends, carried : SUBSET Spends, usage : SUBSET Spends,
         staged : SUBSET Spends, owing : SUBSET Spends]

Typed ==
    /\ Rooted(msgs)
    /\ memory \in Memory
    /\ exists \in BOOLEAN
    /\ holder \in Turns \union {None}
    /\ turn \in [Turns -> Turn]
    /\ rescue \in [Turns -> RescueSteps]

\* The children of p, and what the memory m tells of, among the messages ms.
Kids(ms, p)  == {n \in DOMAIN ms : ms[n].parent = p}
Tells(ms, m) == /\ m.upto \in 0..Len(ms)
                /\ m.covers = Up(ms)[m.upto]

Question(ms, m)   == m \in 1..Len(ms) /\ ms[m].role = "user"
ReplyPoint(ms, m) == m = None \/ (m \in 1..Len(ms) /\ ms[m].role = "assistant")

\* Where the turn r is about to add a message, and what it counted there.
Placed(ms, r) ==
    /\ r.pc \in {"resolved", "counting"} => ReplyPoint(ms, r.at)
    /\ r.pc \in {"ready"} \union Gathering \union Replying => Question(ms, r.asked)
    /\ r.partial => Question(ms, r.asked)
    /\ r.pc = "counting" => r.slot = Cardinality(Kids(ms, r.at))
    /\ r.pc = "counted" => r.slot = Cardinality(Kids(ms, r.asked))

Told(ms, r) ==
    /\ Tells(ms, r.memory)
    /\ r.pc \in {"folded", "prompted"} => r.prompt = Up(ms)[r.asked] \ {r.asked}

\* What the turn r owes the ledger is where a commit to come will find it.
Paid(r) ==
    /\ r.pc \in Before \union Gathering \union {"history", "prompted", "streaming"} =>
         r.owing \subseteq r.staged \union r.gathered \union r.carried
    /\ r.pc = "folded" =>
         r.owing \subseteq r.staged \union r.gathered \union r.carried \union {<<"fold", 0>>}
    /\ r.pc \notin Gathering => r.gathered = {}
    /\ r.pc \in Before \union {"triage"} => r.carried = {}
    /\ r.pc \in Before \union Gathering \union {"history", "folded", "prompted", "streaming"} =>
         r.route # "decline"
    /\ r.pc \in {"write", "counted", "stored", "record"} =>
         r.owing \subseteq r.staged \union (IF r.route = "decline" THEN r.carried ELSE r.usage)
    /\ r.pc \in {"stored", "record"} => r.staged = {}
    /\ r.pc = "recorded" => r.owing = {}
    /\ r.pc = "closing" => r.owing \subseteq Unmetered

\* The planner's steps are counted within the bound, and every set holds calls of its kinds.
OfKind(s, kinds) == \A x \in s : x[1] \in kinds
Counted(r) ==
    /\ r.pc \in Before \union {"triage", "search"} => r.steps = 0
    /\ r.pc = "loop" => r.steps < MaxSteps
    /\ r.pc = "tool" => r.steps > 0
    /\ OfKind(r.staged, IF r.pc \in Before \union Gathering THEN {"embed"} ELSE {"embed", "web"})
    /\ OfKind(r.gathered, {"plan", "web"})
    /\ OfKind(r.carried, {"tiebreak", "plan"})
    /\ OfKind(r.usage, {"tiebreak", "plan", "synth", "judge"})
    /\ r.staged \union r.gathered \union r.carried \union r.usage \subseteq r.owing

Good(ms, r) == Placed(ms, r) /\ Told(ms, r) /\ Paid(r) /\ Counted(r)

Holding(t) == turn[t].pc \in {"counting", "counted"} \/ rescue[t] = "counted"
Rescued(t) ==
    /\ rescue[t] # "none" => turn[t].pc = "over"
    /\ rescue[t] \in {"owed", "counted"} => Question(msgs, turn[t].asked)
    /\ rescue[t] = "counted" => turn[t].slot = Cardinality(Kids(msgs, turn[t].asked))

ChatInv ==
    /\ Typed
    /\ TreeWellFormed
    /\ Tells(msgs, memory)
    /\ \A t \in Turns : /\ Good(msgs, turn[t])
                        /\ Holding(t) => holder = t
                        /\ Rescued(t)

\* Children is Kids of the messages.
LEMMA ChildrenKids == \A p : Children(p) = Kids(msgs, p)
BY DEF Children, Kids

-----------------------------------------------------------------------------
\* The children of a message are numbered from nought.
LEMMA Siblings ==
  ASSUME Typed, TreeWellFormed, NEW p
  PROVE  /\ IsFiniteSet(Children(p)) /\ Cardinality(Children(p)) \in Nat
         /\ {msgs[n].index : n \in Children(p)} = 0..(Cardinality(Children(p)) - 1)
<1>0. Len(msgs) \in Nat /\ DOMAIN msgs = 1..Len(msgs)
  BY DEF Typed, Rooted
<1>1. IsFiniteSet(Children(p)) /\ Cardinality(Children(p)) \in Nat
  <2>1. IsFiniteSet(1..Len(msgs))
    BY <1>0, FS_Interval
  <2>2. Children(p) \in SUBSET (1..Len(msgs))
    BY <1>0 DEF Children
  <2>3. IsFiniteSet(Children(p))
    BY <2>1, <2>2, FS_Subset
  <2> QED
    BY <2>3, FS_CardinalityType
<1>2. CASE Children(p) = {}
  BY <1>2, FS_EmptySet
<1>3. CASE Children(p) # {}
  <2>1. PICK m \in Children(p) : TRUE
    BY <1>3
  <2>2. m \in DOMAIN msgs /\ msgs[m].parent = p
    BY <2>1 DEF Children
  <2> QED
    BY <1>1, <2>2 DEF TreeWellFormed
<1> QED
  BY <1>1, <1>2, <1>3

\* A message added under p with the count of its siblings for an index keeps the tree.
LEMMA InsertKeeps ==
  ASSUME Typed, TreeWellFormed,
         NEW t \in Turns, NEW p \in 0..Len(msgs), NEW role \in {"user", "assistant"},
         NEW stopped \in BOOLEAN, NEW slot, slot = Cardinality(Children(p)),
         p = None => role = "user", p # None => role # msgs[p].role,
         Insert(p, role, slot, t, stopped)
  PROVE  /\ Rooted(msgs') /\ TreeWellFormed'
         /\ Len(msgs') = Len(msgs) + 1 /\ msgs'[Len(msgs) + 1].role = role
         /\ \A m \in 1..Len(msgs) : msgs'[m] = msgs[m]
         /\ \A m \in 0..Len(msgs) : Path(m)' = Path(m)
<1> DEFINE new == [parent |-> p, role |-> role, index |-> slot, by |-> t, stopped |-> stopped]
           k == Len(msgs) + 1
<1>0. Len(msgs) \in Nat /\ DOMAIN msgs = 1..Len(msgs) /\ msgs \in Seq(Message)
      /\ \A m \in 1..Len(msgs) : msgs[m] \in Message /\ msgs[m].parent < m
  BY DEF Typed, Rooted
<1>1. slot \in Nat
  BY Siblings
<1>2. new \in Message /\ new.parent = p /\ new.role = role /\ new.index = slot
  BY <1>0, <1>1 DEF Message
<1> HIDE DEF new
<1>3. /\ msgs' = Append(msgs, new) /\ Len(msgs') = k /\ msgs' \in Seq(Message)
      /\ msgs'[k] = new /\ DOMAIN msgs' = 1..k
      /\ \A m \in 1..Len(msgs) : msgs'[m] = msgs[m]
  BY <1>0, <1>2 DEF Insert, new
<1>4. Rooted(msgs')
  BY <1>0, <1>2, <1>3 DEF Rooted
<1>5. \A m \in 0..Len(msgs) : Path(m)' = Path(m)
  BY <1>3, <1>4, UpStable, PathUp DEF Typed
<1> DEFINE KidsNow(q) == {n \in DOMAIN msgs' : msgs'[n].parent = q}
<1>6. \A q : KidsNow(q) = IF q = p THEN Children(q) \union {k} ELSE Children(q)
  BY <1>0, <1>2, <1>3 DEF Children
<1>7. TreeWellFormed'
  <2> SUFFICES ASSUME NEW m \in DOMAIN msgs'
               PROVE  /\ msgs'[m].parent = None => msgs'[m].role = "user"
                      /\ msgs'[m].parent # None => msgs'[m].role # msgs'[msgs'[m].parent].role
                      /\ {msgs'[n].index : n \in KidsNow(msgs'[m].parent)}
                           = 0..(Cardinality(KidsNow(msgs'[m].parent)) - 1)
    BY Zenon DEF TreeWellFormed, Children
  <2> HIDE DEF KidsNow
  <2>1. ASSUME NEW q
        PROVE  {msgs'[n].index : n \in KidsNow(q)} = 0..(Cardinality(KidsNow(q)) - 1)
    <3>0. \A n \in Children(q) : n \in 1..Len(msgs)
      BY <1>0 DEF Children
    <3>1. {msgs'[n].index : n \in Children(q)} = {msgs[n].index : n \in Children(q)}
      BY <1>3, <3>0
    <3>2. CASE q # p
      <4>1. KidsNow(q) = Children(q)
        BY <1>6, <3>2
      <4> QED
        BY <3>1, <4>1, Siblings
    <3>3. CASE q = p
      <4>0. KidsNow(q) = Children(p) \union {k} /\ msgs'[k].index = slot
        BY <1>2, <1>3, <1>6, <3>3
      <4>1. k \notin Children(p)
        BY <1>0, <3>0, <3>3
      <4>2. Cardinality(Children(p) \union {k}) = slot + 1
        BY <4>1, Siblings, FS_AddElement
      <4>3. {msgs'[n].index : n \in Children(p) \union {k}}
              = {msgs'[n].index : n \in Children(p)} \union {slot}
        BY <4>0
      <4>4. {msgs'[n].index : n \in Children(p)} = 0..(slot - 1)
        BY <3>1, <3>3, Siblings
      <4>5. 0..((slot + 1) - 1) = (0..(slot - 1)) \union {slot}
        BY <1>1
      <4> QED
        BY <4>0, <4>2, <4>3, <4>4, <4>5
    <3> QED
      BY <3>2, <3>3
  <2>2. CASE m = k
    <3>1. msgs'[m].parent = p /\ msgs'[m].role = role
      BY <1>2, <1>3, <2>2
    <3>2. p # None => p \in 1..Len(msgs)
      BY <1>0 DEF None
    <3> QED
      BY <1>3, <2>1, <3>1, <3>2
  <2>3. CASE m # k
    <3>1. m \in 1..Len(msgs) /\ msgs'[m] = msgs[m]
      BY <1>0, <1>3, <2>3
    <3>2. msgs[m].parent # None => msgs[m].parent \in 1..Len(msgs)
      BY <1>0, <3>1 DEF Message, None
    <3>3. /\ msgs[m].parent = None => msgs[m].role = "user"
          /\ msgs[m].parent # None => msgs[m].role # msgs[msgs[m].parent].role
      BY <1>0, <3>1 DEF TreeWellFormed
    <3> QED
      BY <1>3, <2>1, <3>1, <3>2, <3>3
  <2> QED
    BY <2>2, <2>3
<1> QED
  BY <1>2, <1>3, <1>4, <1>5, <1>7

\* TreeWellFormed as a function of the messages.
WellFormed(ms) ==
    \A m \in DOMAIN ms :
        /\ ms[m].parent = None => ms[m].role = "user"
        /\ ms[m].parent # None => ms[m].role # ms[ms[m].parent].role
        /\ {ms[n].index : n \in Kids(ms, ms[m].parent)}
               = 0..(Cardinality(Kids(ms, ms[m].parent)) - 1)

\* TreeWellFormed is that function, before and after a step.
LEMMA TreeIs ==
  (TreeWellFormed <=> WellFormed(msgs)) /\ (TreeWellFormed' <=> WellFormed(msgs'))
BY Zenon DEF TreeWellFormed, WellFormed, Children, Kids

-----------------------------------------------------------------------------
\* A step of one turn that leaves what the others see alone, but for the lock.
LEMMA OwnStep ==
  ASSUME ChatInv, NEW t \in Turns, NEW r \in Turn, turn[t].pc # "over",
         turn' = [turn EXCEPT ![t] = r], Good(msgs, r),
         UNCHANGED <<msgs, exists, rescue>>, memory' \in Memory, Tells(msgs, memory'),
         \/ r.pc \notin {"counting", "counted"} /\ holder' = holder
         \/ r.pc \notin {"counting", "counted"} /\ holder' = IF holder = t THEN None ELSE holder
         \/ holder = None /\ holder' = t
  PROVE  ChatInv'
<1>1. Typed'
  BY DEF ChatInv, Typed
<1>2. TreeWellFormed' /\ Tells(msgs, memory)'
  <2>1. TreeWellFormed'
    BY TreeIs, Zenon DEF ChatInv
  <2> QED
    BY <2>1 DEF ChatInv
<1>3. turn'[t] = r /\ \A s \in Turns : s # t => turn'[s] = turn[s]
  BY DEF ChatInv, Typed
<1>4. rescue[t] = "none"
  BY DEF ChatInv, Rescued
<1>5. \A s \in Turns : Good(msgs, turn[s])'
  BY <1>3 DEF ChatInv
<1>6. \A s \in Turns : Rescued(s)'
  BY <1>3, <1>4 DEF ChatInv, Rescued
<1>7. ASSUME NEW s \in Turns, Holding(s)' PROVE holder' = s
  <2>1. CASE s = t
    BY <1>3, <1>4, <1>7, <2>1 DEF Holding
  <2>2. CASE s # t
    <3>1. Holding(s) /\ holder = s
      BY <1>3, <1>7, <2>2 DEF Holding, ChatInv
    <3> QED
      BY <2>2, <3>1, TurnsNamed
  <2> QED
    BY <2>1, <2>2
<1> QED
  BY <1>1, <1>2, <1>5, <1>6, <1>7 DEF ChatInv

\* A step that touches nothing but the record of the turn.
LEMMA PrivateStep ==
  ASSUME ChatInv, NEW t \in Turns, NEW r \in Turn, Good(msgs, r), Become(t, r), Private,
         turn[t].pc # "over", r.pc \notin {"counting", "counted"}
  PROVE  ChatInv'
<1>1. memory' \in Memory /\ Tells(msgs, memory')
  BY DEF ChatInv, Typed, Private
<1> QED
  BY <1>1, OwnStep DEF Become, Private

\* What holds of a turn that does not hold the lock still holds when a message is added.
LEMMA Grown ==
  ASSUME NEW ms, NEW more, NEW r \in Turn, Rooted(ms), Len(more) = Len(ms) + 1,
         \A m \in 1..Len(ms) : more[m] = ms[m],
         \A m \in 0..Len(ms) : Up(more)[m] = Up(ms)[m],
         Good(ms, r), r.pc \notin {"counting", "counted"}
  PROVE  Good(more, r)
<1>0. Len(ms) \in Nat
  BY DEF Rooted
<1>1. \A m : /\ Question(ms, m) => Question(more, m)
             /\ ReplyPoint(ms, m) => ReplyPoint(more, m)
  BY <1>0 DEF Question, ReplyPoint
<1>2. Placed(more, r)
  BY <1>1 DEF Good, Placed
<1>3. Told(more, r)
  <2>1. Tells(more, r.memory)
    BY <1>0 DEF Good, Told, Tells
  <2>2. r.pc \in {"folded", "prompted"} => r.asked \in 0..Len(ms)
    BY <1>0 DEF Good, Placed, Question, Replying
  <2> QED
    BY <2>1, <2>2 DEF Good, Told
<1> QED
  BY <1>2, <1>3 DEF Good

\* active_leaf is defined: some childless message has the newest sibling at every branch.
LEMMA LeafExists ==
  ASSUME Typed, TreeWellFormed, msgs # <<>>
  PROVE  \E m \in DOMAIN msgs : Children(m) = {} /\ \A n \in Path(m) : Newest(n)
<1>0. /\ Rooted(msgs) /\ Len(msgs) \in Nat \ {0} /\ DOMAIN msgs = 1..Len(msgs)
      /\ \A m \in 1..Len(msgs) : msgs[m].index \in Nat
      /\ Path(None) = {}
      /\ \A m \in 1..Len(msgs) : /\ Path(m) = {m} \union Path(msgs[m].parent)
                                 /\ msgs[m].parent \in 0..(m - 1)
  <2>1. Rooted(msgs) /\ Len(msgs) \in Nat \ {0} /\ DOMAIN msgs = 1..Len(msgs)
    BY DEF Typed, Rooted
  <2>2. \A m \in 1..Len(msgs) : msgs[m] \in Message
    BY <2>1 DEF Rooted
  <2>3. Up(msgs)[None] = {} /\ \A m \in 1..Len(msgs) :
          msgs[m].parent \in 0..(m - 1) /\ Up(msgs)[m] = {m} \union Up(msgs)[msgs[m].parent]
    BY <2>1, UpRec
  <2>4. \A m \in 1..Len(msgs) : msgs[m].index \in Nat
    BY <2>2 DEF Message
  <2>5. Path(None) = {} /\ \A m \in 1..Len(msgs) : Path(m) = {m} \union Path(msgs[m].parent)
    BY <2>3, PathUp
  <2> QED
    BY <2>1, <2>3, <2>4, <2>5
<1>1. ASSUME NEW p, Children(p) # {}
      PROVE  \E c \in Children(p) : Newest(c)
  <2>0. /\ IsFiniteSet(Children(p)) /\ Cardinality(Children(p)) \in Nat
        /\ {msgs[n].index : n \in Children(p)} = 0..(Cardinality(Children(p)) - 1)
    BY Siblings
  <2>1. Cardinality(Children(p)) # 0
    BY <1>1, <2>0, FS_EmptySet
  <2>2. Cardinality(Children(p)) - 1 \in {msgs[n].index : n \in Children(p)}
    BY <2>0, <2>1
  <2>3. PICK c \in Children(p) : msgs[c].index = Cardinality(Children(p)) - 1
    BY <2>2
  <2>4. \A n \in Children(p) : msgs[n].index <= msgs[c].index
    BY <2>0, <2>3
  <2> QED
    BY <2>4 DEF Newest, Children
<1> DEFINE S == {m \in DOMAIN msgs : \A n \in Path(m) : Newest(n)}
           Left == {Len(msgs) - m : m \in S}
<1>2. ASSUME NEW p \in {None} \union S, NEW c \in Children(p), Newest(c)
      PROVE  c \in S /\ c > p
  <2>1. c \in 1..Len(msgs) /\ msgs[c].parent = p
    BY <1>0, <1>2 DEF Children
  <2>2. Path(c) = {c} \union Path(p) /\ p \in 0..(c - 1)
    BY <1>0, <2>1
  <2>3. \A n \in Path(p) : Newest(n)
    BY <1>0, <1>2
  <2> QED
    BY <1>0, <1>2, <2>1, <2>2, <2>3
<1>3. S # {}
  <2>1. 1 \in Children(None)
    BY <1>0 DEF Children, None
  <2> QED
    BY <1>1, <1>2, <2>1
<1>4. PICK m \in S : \A n \in S : n <= m
  <2>1. Left \subseteq Nat /\ Left # {}
    BY <1>0, <1>3
  <2>2. PICK k \in Left : \A n \in Left : k <= n
    <3> HIDE DEF Left
    <3> QED
      BY <2>1, LeastNat
  <2>3. PICK m \in S : k = Len(msgs) - m
    BY <2>2
  <2>4. ASSUME NEW n \in S PROVE n <= m
    <3>1. Len(msgs) - n \in Left
      OBVIOUS
    <3>2. Len(msgs) - m <= Len(msgs) - n
      BY <2>2, <2>3, <3>1
    <3> QED
      BY <1>0, <3>2
  <2> QED
    BY <2>4
<1>5. Children(m) = {}
  <2>1. ASSUME NEW c \in Children(m), Newest(c) PROVE FALSE
    <3>1. c \in S /\ c > m
      BY <1>2, <2>1
    <3> QED
      BY <1>0, <1>4, <3>1
  <2> QED
    BY <1>1, <2>1
<1> QED
  BY <1>4, <1>5

\* The place resolve_parent settles on is no message, or an answer.
LEMMA AppendPointAnswers ==
  ASSUME Typed, TreeWellFormed
  PROVE  ReplyPoint(msgs, AppendPoint)
<1>1. /\ DOMAIN msgs = 1..Len(msgs)
      /\ \A m \in 1..Len(msgs) : /\ msgs[m].parent \in 0..(m - 1)
                                 /\ msgs[m].role \in {"user", "assistant"}
  <2>1. Rooted(msgs) /\ DOMAIN msgs = 1..Len(msgs)
    BY DEF Typed, Rooted
  <2>2. \A m \in 1..Len(msgs) : msgs[m] \in Message
    BY <2>1 DEF Rooted
  <2> QED
    BY <2>1, <2>2, UpRec DEF Message
<1>2. Leaf = None \/ Leaf \in 1..Len(msgs)
  BY <1>1, LeafExists DEF Leaf
<1> QED
  BY <1>1, <1>2 DEF AppendPoint, ReplyPoint, TreeWellFormed, None

\* A turn that has not begun.
LEMMA NewGood ==
  ASSUME Typed
  PROVE  NewTurn \in Turn /\ Good(msgs, NewTurn)
<1>1. MaxSteps \in Nat \ {0} /\ 0 \in 0..MaxSteps
  BY ChatAssumption
<1>2. NoMemory \in Memory /\ Tells(msgs, NoMemory)
  BY UpRec DEF Typed, NoMemory, Memory, Tells, None, Rooted
<1>3. NewTurn \in Turn
  BY <1>1, <1>2 DEF NewTurn, Turn, Steps, Before, Routes, None
<1> QED
  BY <1>1, <1>2, <1>3 DEF NewTurn, Good, Placed, Told, Paid, Counted, OfKind, Before, Gathering,
                          Replying

\* A turn that has ended.
LEMMA OverGood ==
  ASSUME Typed
  PROVE  Over \in Turn /\ Over.pc = "over" /\ Good(msgs, Over)
<1>1. Over \in Turn /\ Over.pc = "over"
  BY NewGood DEF Over, Turn, Steps
<1> QED
  BY <1>1, NewGood DEF Over, NewTurn, Good, Placed, Told, Paid, Counted, OfKind, Before, Gathering,
                       Replying

-----------------------------------------------------------------------------
USE DEF Steps, Before, Gathering, Replying

\* The steps of a turn that is settling on its question.
LEMMA AskNext ==
  ASSUME ChatInv, NEW t \in Turns,
         Load(t) \/ Resolve(t) \/ LockForUser(t) \/ Answer(t) \/ Regenerate(t)
  PROVE  ChatInv'
<1>0. /\ turn[t] \in Turn /\ Good(msgs, turn[t]) /\ memory \in Memory /\ Tells(msgs, memory)
      /\ Rooted(msgs) /\ DOMAIN msgs = 1..Len(msgs) /\ TreeWellFormed
      /\ \A m \in 1..Len(msgs) : msgs[m].parent \in 0..(m - 1)
  <2>1. Rooted(msgs) /\ DOMAIN msgs = 1..Len(msgs)
    BY DEF ChatInv, Typed, Rooted
  <2> QED
    BY <2>1, UpRec DEF ChatInv, Typed
<1>1. CASE Load(t)
  <2> DEFINE r == [turn[t] EXCEPT !.pc = "loaded", !.memory = memory]
  <2>1. r \in Turn
    BY <1>0, <1>1 DEF Load, At, Turn
  <2>2. Good(msgs, r)
    BY <1>0, <1>1 DEF Load, At, Turn, Good, Placed, Told, Paid, Counted, OfKind
  <2>5. Become(t, r) /\ Private /\ turn[t].pc # "over" /\ r.pc \notin {"counting", "counted"}
    BY <1>0, <1>1 DEF Load, At, Become, Turn
  <2> HIDE DEF r
  <2> QED
    BY <2>1, <2>2, <2>5, PrivateStep
<1>2. CASE Resolve(t)
  <2>1. PICK p \in {AppendPoint, None} \union {m \in DOMAIN msgs : msgs[m].role = "assistant"} :
          turn' = [turn EXCEPT ![t] = [turn[t] EXCEPT !.pc = "resolved", !.at = p]]
    BY <1>2 DEF Resolve, Become
  <2> DEFINE r == [turn[t] EXCEPT !.pc = "resolved", !.at = p]
  <2>2. ReplyPoint(msgs, p) /\ p \in Nat
    BY <1>0, AppendPointAnswers DEF ReplyPoint, ChatInv, None
  <2>3. r \in Turn
    BY <1>0, <1>2, <2>2 DEF Resolve, At, Turn
  <2>4. Good(msgs, r)
    BY <1>0, <1>2, <2>2 DEF Resolve, At, Turn, Good, Placed, Told, Paid, Counted
  <2>5. Become(t, r) /\ Private /\ turn[t].pc # "over" /\ r.pc \notin {"counting", "counted"}
    BY <1>0, <1>2, <2>1 DEF Resolve, At, Become, Turn
  <2> HIDE DEF r
  <2> QED
    BY <2>3, <2>4, <2>5, PrivateStep
<1>3. CASE LockForUser(t)
  <2> DEFINE r == [turn[t] EXCEPT !.pc = "counting", !.slot = Cardinality(Children(turn[t].at))]
  <2>1. Cardinality(Children(turn[t].at)) \in Nat
    BY Siblings DEF ChatInv
  <2>2. r \in Turn
    BY <1>0, <2>1 DEF Turn
  <2>3. Good(msgs, r)
    BY <1>0, <1>3, ChildrenKids
       DEF LockForUser, LockChat, At, Turn, Good, Placed, Told, Paid, Counted
  <2> QED
    BY <1>0, <1>3, <2>2, <2>3, OwnStep DEF LockForUser, LockChat, At, Become
<1>4. CASE Answer(t)
  <2>1. PICK m \in DOMAIN msgs :
          /\ msgs[m].role = "user"
          /\ turn' = [turn EXCEPT ![t] = [turn[t] EXCEPT !.pc = "ready", !.asked = m,
                                                        !.memory = memory]]
    BY <1>4 DEF Answer, Become
  <2> DEFINE r == [turn[t] EXCEPT !.pc = "ready", !.asked = m, !.memory = memory]
  <2>2. Question(msgs, m) /\ m \in Nat
    BY <1>0, <2>1 DEF Question
  <2>3. r \in Turn
    BY <1>0, <2>2 DEF Turn
  <2>4. Good(msgs, r)
    BY <1>0, <1>4, <2>2 DEF Answer, At, Turn, Good, Placed, Told, Paid, Counted
  <2>5. Become(t, r) /\ Private /\ turn[t].pc # "over" /\ r.pc \notin {"counting", "counted"}
    BY <1>0, <1>4, <2>1 DEF Answer, At, Become, Turn
  <2> HIDE DEF r
  <2> QED
    BY <2>3, <2>4, <2>5, PrivateStep
<1>5. CASE Regenerate(t)
  <2>1. PICK m \in DOMAIN msgs :
          /\ msgs[m].role = "assistant"
          /\ turn' = [turn EXCEPT ![t] = [turn[t] EXCEPT !.pc = "ready",
                                             !.asked = msgs[m].parent, !.memory = memory]]
    BY <1>5 DEF Regenerate, Become
  <2> DEFINE r == [turn[t] EXCEPT !.pc = "ready", !.asked = msgs[m].parent, !.memory = memory]
  <2>2. Question(msgs, msgs[m].parent) /\ msgs[m].parent \in Nat
    <3>1. msgs[m].parent # None /\ msgs[msgs[m].parent].role # "assistant"
      BY <1>0, <2>1 DEF TreeWellFormed
    <3>2. msgs[m].parent \in 1..Len(msgs)
      BY <1>0, <3>1 DEF None
    <3>3. msgs[msgs[m].parent] \in Message
      BY <1>0, <3>2 DEF Rooted
    <3> QED
      BY <3>1, <3>2, <3>3 DEF Question, Message
  <2>3. r \in Turn
    BY <1>0, <2>2 DEF Turn
  <2>4. Good(msgs, r)
    BY <1>0, <1>5, <2>2 DEF Regenerate, At, Turn, Good, Placed, Told, Paid, Counted
  <2>5. Become(t, r) /\ Private /\ turn[t].pc # "over" /\ r.pc \notin {"counting", "counted"}
    BY <1>0, <1>5, <2>1 DEF Regenerate, At, Become, Turn
  <2> HIDE DEF r
  <2> QED
    BY <2>3, <2>4, <2>5, PrivateStep
<1> QED
  BY <1>1, <1>2, <1>3, <1>4, <1>5

\* The steps of a turn that gathers its context.
LEMMA GatherNext ==
  ASSUME ChatInv, NEW t \in Turns, Gather(t)
  PROVE  ChatInv'
<1>0. turn[t] \in Turn /\ Good(msgs, turn[t])
  BY DEF ChatInv, Typed
<1>m. MaxSteps \in Nat \ {0} /\ 0 \in 0..MaxSteps /\ 1 \in 0..MaxSteps
  BY ChatAssumption
<1>s. /\ \A n \in 0..MaxSteps : /\ {<<"embed", n>>} \subseteq Spends
                              /\ {<<"web", n>>} \subseteq Spends
                              /\ {<<"plan", n>>} \subseteq Spends
      /\ {<<"embed", 0>>} \subseteq Spends /\ {<<"tiebreak", 0>>} \subseteq Spends
  BY <1>m DEF Spends
<1>1. CASE Begin(t)
  <2> DEFINE r == [turn[t] EXCEPT !.pc = IF t \in SmallTalk THEN "history" ELSE "triage"]
  <2>3. r \in Turn
    BY <1>0, <1>1 DEF Begin, At, Turn
  <2>4. Good(msgs, r)
    BY <1>0, <1>1 DEF Begin, At, Turn, Good, Placed, Told, Paid, Counted, OfKind
  <2>5. Become(t, r) /\ Private /\ turn[t].pc # "over" /\ r.pc \notin {"counting", "counted"}
    BY <1>0, <1>1 DEF Begin, At, Become, Turn
  <2> HIDE DEF r
  <2> QED
    BY <2>3, <2>4, <2>5, PrivateStep
<1>2. CASE Triage(t)
  <2>1. PICK call \in {{}, {<<"tiebreak", 0>>}}, next \in {"search", "loop"} :
          Become(t, [Pays(turn[t], call) EXCEPT !.pc = next, !.carried = call])
    BY <1>2 DEF Triage
  <2> DEFINE r == [Pays(turn[t], call) EXCEPT !.pc = next, !.carried = call]
  <2>2. /\ turn[t].pc = "triage" /\ call \in SUBSET Spends /\ next \in {"search", "loop"}
        /\ \A x \in call : x[1] = "tiebreak"
    BY <1>2, <1>s DEF Triage, At
  <2>3. r \in Turn
    BY <1>0, <2>2 DEF Turn, Pays
  <2>4. Good(msgs, r)
    BY <1>0, <1>m, <2>2 DEF Turn, Good, Placed, Told, Paid, Counted, OfKind, Pays
  <2>5. Become(t, r) /\ Private /\ turn[t].pc # "over" /\ r.pc \notin {"counting", "counted"}
    BY <1>0, <1>2, <2>1, <2>2 DEF Triage, Turn, Pays
  <2> HIDE DEF r
  <2> QED
    BY <2>3, <2>4, <2>5, PrivateStep
<1>3. CASE SingleShot(t)
  <2> DEFINE call == {<<"embed", 0>>}
  <2>1. PICK next \in {"loop", "gathered"} :
          Become(t, [Pays(turn[t], call) EXCEPT !.pc = next, !.staged = @ \union call])
    BY <1>3 DEF SingleShot
  <2>2. /\ turn[t].pc = "search" /\ call \in SUBSET Spends /\ next \in {"loop", "gathered"}
        /\ \A x \in call : x[1] = "embed"
    BY <1>3, <1>s DEF SingleShot, At
  <2> HIDE DEF call
  <2> DEFINE r == [Pays(turn[t], call) EXCEPT !.pc = next, !.staged = @ \union call]
  <2>3. r \in Turn
    BY <1>0, <2>2 DEF Turn, Pays
  <2>4. Good(msgs, r)
    BY <1>0, <1>m, <2>2 DEF Turn, Good, Placed, Told, Paid, Counted, OfKind, Pays
  <2>5. Become(t, r) /\ Private /\ turn[t].pc # "over" /\ r.pc \notin {"counting", "counted"}
    BY <1>0, <1>3, <2>1, <2>2 DEF SingleShot, Turn, Pays
  <2> HIDE DEF r
  <2> QED
    BY <2>3, <2>4, <2>5, PrivateStep
<1>4. CASE ForcedSearch(t)
  <2> DEFINE r == [turn[t] EXCEPT !.pc = "tool", !.steps = 1]
  <2>2. turn[t].pc = "loop"
    BY <1>4 DEF ForcedSearch, At
  <2>3. r \in Turn
    BY <1>0, <1>m DEF Turn
  <2>4. Good(msgs, r)
    BY <1>0, <1>m, <2>2 DEF Turn, Good, Placed, Told, Paid, Counted, OfKind
  <2>5. Become(t, r) /\ Private /\ turn[t].pc # "over" /\ r.pc \notin {"counting", "counted"}
    BY <1>0, <1>4, <2>2 DEF ForcedSearch, Turn
  <2> HIDE DEF r
  <2> QED
    BY <2>3, <2>4, <2>5, PrivateStep
<1>5. CASE Plan(t)
  <2> DEFINE n == turn[t].steps + 1
             call == {<<"plan", n>>}
  <2>1. PICK next \in {"tool", "gathered"} :
          Become(t, [Pays(Commit(turn[t]), call) EXCEPT
                          !.pc = next, !.steps = n, !.gathered = @ \union call])
    BY <1>5 DEF Plan
  <2>2. turn[t].pc = "loop"
    BY <1>5 DEF Plan, At
  <2>a. n \in 0..MaxSteps /\ n > 0
    <3>1. turn[t].steps \in 0..MaxSteps
      BY <1>0 DEF Turn
    <3>2. turn[t].steps < MaxSteps
      BY <1>0, <2>2 DEF Good, Counted
    <3> QED
      BY <1>m, <3>1, <3>2
  <2> HIDE DEF n
  <2>b. call \in SUBSET Spends /\ \A x \in call : x[1] = "plan"
    <3>1. call \subseteq Spends
      BY <1>s, <2>a
    <3> QED
      BY <3>1
  <2> HIDE DEF call
  <2> DEFINE c == [turn[t] EXCEPT !.owing = @ \ turn[t].staged, !.staged = {}]
             r == [c EXCEPT !.owing = @ \union call, !.pc = next, !.steps = n,
                            !.gathered = @ \union call]
  <2>c. c \in Turn /\ c.owing = turn[t].owing \ turn[t].staged /\ c.staged = {}
        /\ c.pc = "loop" /\ c = Commit(turn[t])
    BY <1>0, <2>2 DEF Turn, Commit
  <2>d. Good(msgs, c)
    <3>1. /\ c.at = turn[t].at /\ c.asked = turn[t].asked /\ c.slot = turn[t].slot
          /\ c.partial = turn[t].partial /\ c.memory = turn[t].memory /\ c.prompt = turn[t].prompt
          /\ c.steps = turn[t].steps /\ c.gathered = turn[t].gathered /\ c.carried = turn[t].carried
          /\ c.route = turn[t].route /\ c.usage = turn[t].usage
      BY <1>0 DEF Turn
    <3> HIDE DEF c
    <3>2. Placed(msgs, c) /\ Told(msgs, c)
      BY <1>0, <2>2, <2>c, <3>1 DEF Good, Placed, Told
    <3>3. Paid(c)
      BY <1>0, <2>2, <2>c, <3>1 DEF Good, Paid
    <3>4. Counted(c)
      <4>1. /\ c.steps < MaxSteps /\ OfKind(c.gathered, {"plan", "web"})
            /\ OfKind(c.carried, {"tiebreak", "plan"})
            /\ OfKind(c.usage, {"tiebreak", "plan", "synth", "judge"})
        BY <1>0, <2>2, <3>1 DEF Good, Counted
      <4>2. \A kinds : OfKind(c.staged, kinds)
        BY <2>c DEF OfKind
      <4>3. c.staged \union c.gathered \union c.carried \union c.usage \subseteq c.owing
        <5>1. \A x \in turn[t].gathered \union turn[t].carried \union turn[t].usage :
                x \notin turn[t].staged
          BY <1>0, <2>2 DEF Good, Counted, OfKind, Gathering
        <5> QED
          BY <1>0, <2>c, <3>1, <5>1 DEF Good, Counted
      <4>4. c.pc = "loop" /\ c.pc \notin Before \union {"triage", "search", "tool"}
        BY <2>c DEF Before
      <4> QED
        BY <4>1, <4>2, <4>3, <4>4 DEF Counted
    <3> QED
      BY <3>2, <3>3, <3>4 DEF Good
  <2> HIDE DEF c
  <2>3. r \in Turn
    <3>1. PICK owing, gathered : owing = c.owing \union call /\ gathered = c.gathered \union call
      OBVIOUS
    <3>2. owing \in SUBSET Spends /\ gathered \in SUBSET Spends
      BY <2>b, <2>c, <3>1 DEF Turn
    <3>3. next \in Steps
      BY DEF Steps, Gathering
    <3>4. r = [c EXCEPT !.owing = owing, !.pc = next, !.steps = n, !.gathered = gathered]
      BY <3>1
    <3> HIDE DEF r
    <3> QED
      BY <2>a, <2>c, <3>2, <3>3, <3>4 DEF Turn
  <2>4. Good(msgs, r)
    <3>1. /\ r.asked = c.asked /\ r.partial = c.partial /\ r.memory = c.memory
          /\ r.pc = next /\ r.steps = n /\ r.staged = c.staged /\ r.carried = c.carried
          /\ r.route = c.route /\ r.usage = c.usage
          /\ r.owing = c.owing \union call /\ r.gathered = c.gathered \union call
      BY <2>c DEF Turn
    <3> HIDE DEF r
    <3>2. Placed(msgs, r) /\ Told(msgs, r)
      BY <2>c, <2>d, <3>1 DEF Good, Placed, Told
    <3>3. Paid(r)
      BY <2>c, <2>d, <3>1 DEF Good, Paid
    <3>4. Counted(r)
      BY <1>m, <2>a, <2>b, <2>c, <2>d, <3>1 DEF Good, Counted, OfKind
    <3> QED
      BY <3>2, <3>3, <3>4 DEF Good
  <2>5. Become(t, r) /\ Private /\ turn[t].pc # "over" /\ r.pc \notin {"counting", "counted"}
    <3>1. r = [Pays(c, call) EXCEPT !.pc = next, !.steps = n, !.gathered = @ \union call]
      BY <2>c DEF Turn, Pays
    <3>2. r.pc = next
      BY <2>c DEF Turn
    <3> QED
      BY <1>5, <2>1, <2>2, <2>c, <3>1, <3>2 DEF Plan
  <2> HIDE DEF r
  <2> QED
    BY <2>3, <2>4, <2>5, PrivateStep
<1>6. CASE Tool(t)
  <2> DEFINE n == turn[t].steps
             done == IF n = MaxSteps THEN "gathered" ELSE "loop"
             searched == {<<"embed", n>>}
             browsed == {<<"web", n>>}
  <2>1. PICK to \in {done, "gathered"} :
          \/ Become(t, [Pays(turn[t], searched) EXCEPT !.pc = to, !.staged = @ \union searched])
          \/ Become(t, [Pays(turn[t], browsed) EXCEPT !.pc = to, !.gathered = @ \union browsed])
          \/ Become(t, [turn[t] EXCEPT !.pc = to])
    BY <1>6 DEF Tool
  <2>2. turn[t].pc = "tool"
    BY <1>6 DEF Tool, At
  <2>a. n \in 0..MaxSteps /\ n > 0
    <3>1. n \in 0..MaxSteps
      BY <1>0 DEF Turn
    <3>2. n > 0
      BY <1>0, <2>2 DEF Good, Counted
    <3> QED
      BY <1>m, <3>1, <3>2
  <2>b. /\ searched \in SUBSET Spends /\ \A x \in searched : x[1] = "embed"
        /\ browsed \in SUBSET Spends /\ \A x \in browsed : x[1] = "web"
    <3> HIDE DEF n
    <3>1. searched \subseteq Spends /\ browsed \subseteq Spends
      BY <1>s, <2>a
    <3> QED
      BY <3>1
  <2>c. to \in {"loop", "gathered"} /\ (to = "loop" => turn[t].steps < MaxSteps)
    BY <1>m, <2>a
  <2> HIDE DEF searched, browsed, done, n
  <2>3. ASSUME NEW r, r \in Turn, Good(msgs, r), r.pc = to, Become(t, r) PROVE ChatInv'
    <3>1. Private /\ turn[t].pc # "over" /\ r.pc \notin {"counting", "counted"}
      BY <1>6, <2>2, <2>3, <2>c DEF Tool
    <3> QED
      BY <2>3, <3>1, PrivateStep
  <2>4. CASE Become(t, [Pays(turn[t], searched) EXCEPT !.pc = to, !.staged = @ \union searched])
    <3> DEFINE r == [Pays(turn[t], searched) EXCEPT !.pc = to, !.staged = @ \union searched]
    <3>1. r \in Turn /\ r.pc = to
      BY <1>0, <2>b, <2>c DEF Turn, Pays
    <3>2. Good(msgs, r)
      BY <1>0, <2>2, <2>b, <2>c DEF Turn, Good, Placed, Told, Paid, Counted, OfKind, Pays
    <3> HIDE DEF r
    <3> QED
      BY <2>3, <2>4, <3>1, <3>2 DEF r
  <2>5. CASE Become(t, [Pays(turn[t], browsed) EXCEPT !.pc = to, !.gathered = @ \union browsed])
    <3> DEFINE r == [Pays(turn[t], browsed) EXCEPT !.pc = to, !.gathered = @ \union browsed]
    <3>1. r \in Turn /\ r.pc = to
      BY <1>0, <2>b, <2>c DEF Turn, Pays
    <3>2. Good(msgs, r)
      BY <1>0, <2>2, <2>b, <2>c DEF Turn, Good, Placed, Told, Paid, Counted, OfKind, Pays
    <3> HIDE DEF r
    <3> QED
      BY <2>3, <2>5, <3>1, <3>2 DEF r
  <2>6. CASE Become(t, [turn[t] EXCEPT !.pc = to])
    <3> DEFINE r == [turn[t] EXCEPT !.pc = to]
    <3>1. r \in Turn /\ r.pc = to
      BY <1>0, <2>c DEF Turn
    <3>2. Good(msgs, r)
      BY <1>0, <2>2, <2>c DEF Turn, Good, Placed, Told, Paid, Counted, OfKind
    <3> HIDE DEF r
    <3> QED
      BY <2>3, <2>6, <3>1, <3>2 DEF r
  <2> QED
    BY <2>1, <2>4, <2>5, <2>6
<1>7. CASE Route(t)
  <2> DEFINE c == turn[t]
  <2>1. PICK route \in Routes \ {"talk"} :
          Become(t, [c EXCEPT !.pc = IF route = "decline" THEN "write" ELSE "history",
                              !.route = route,
                              !.carried = Sum(c.carried, c.gathered),
                              !.staged = @ \union (c.gathered \ Planned(c.gathered)),
                              !.gathered = {}, !.steps = 0])
    BY <1>7 DEF Route
  <2> DEFINE r == [c EXCEPT !.pc = IF route = "decline" THEN "write" ELSE "history",
                            !.route = route,
                            !.carried = Sum(c.carried, c.gathered),
                            !.staged = @ \union (c.gathered \ Planned(c.gathered)),
                            !.gathered = {}, !.steps = 0]
  <2>2. c.pc = "gathered"
    BY <1>7 DEF Route, At
  <2> DEFINE plans == Planned(c.gathered)
             others == c.gathered \ Planned(c.gathered)
  <2>a. /\ plans \in SUBSET Spends /\ others \in SUBSET Spends
        /\ c.gathered = plans \union others
        /\ (\A x \in plans : x[1] = "plan") /\ (\A x \in others : x[1] = "web")
        /\ Sum(c.carried, c.gathered) = c.carried \union plans
    BY <1>0 DEF Turn, Planned, Sum, Good, Counted, OfKind
  <2> HIDE DEF plans, others
  <2>3. r \in Turn
    BY <1>0, <1>m, <2>a DEF Turn, plans, others
  <2>4. Good(msgs, r)
    BY <1>0, <2>2, <2>a DEF Turn, Good, Placed, Told, Paid, Counted, OfKind, plans, others
  <2>5. Become(t, r) /\ Private /\ turn[t].pc # "over" /\ r.pc \notin {"counting", "counted"}
    BY <1>0, <1>7, <2>1, <2>2 DEF Route, Turn
  <2> HIDE DEF r
  <2> QED
    BY <2>3, <2>4, <2>5, PrivateStep
<1> QED
  BY <1>1, <1>2, <1>3, <1>4, <1>5, <1>6, <1>7 DEF Gather

-----------------------------------------------------------------------------
\* The largest of some of the messages up to a.
LEMMA MaxIs ==
  ASSUME NEW a \in Nat, NEW S, S \subseteq 1..a, S # {}
  PROVE  Max(S) \in S /\ \A y \in S : Max(S) >= y
<1> DEFINE Left == {a - y : y \in S}
<1>1. Left \subseteq Nat /\ Left # {}
  <2>1. PICK y \in S : TRUE
    OBVIOUS
  <2>2. a - y \in Left
    OBVIOUS
  <2>3. \A z \in S : z \in 1..a
    OBVIOUS
  <2>4. \A z \in S : a - z \in Nat
    BY <2>3
  <2> QED
    BY <2>2, <2>4
<1>2. PICK k \in Left : \A n \in Left : k <= n
  <2> HIDE DEF Left
  <2> QED
    BY <1>1, LeastNat
<1>3. PICK x \in S : k = a - x
  BY <1>2
<1>4. ASSUME NEW y \in S PROVE x >= y
  <2>1. a - y \in Left
    OBVIOUS
  <2>2. a - x <= a - y
    BY <1>2, <1>3, <2>1
  <2> QED
    BY <2>2
<1> QED
  BY <1>4 DEF Max

\* A fold makes the memory tell of the path to the last message folded, which is all of
\* the path but its recent end.
LEMMA FoldTells ==
  ASSUME Rooted(msgs), NEW r \in Turn, NEW a \in 0..Len(msgs), Tells(msgs, r.memory),
         r.memory = NoMemory \/ Valid(r, Up(msgs)[a]), ToFold(r, Up(msgs)[a]) # {}
  PROVE  LET new == Folded(r, Up(msgs)[a])
         IN  new \in Memory /\ Tells(msgs, new)
             /\ new.covers = Older(Up(msgs)[a]) /\ Older(Up(msgs)[a]) \subseteq Up(msgs)[a]
<1> DEFINE path == Up(msgs)[a]
           old == Older(path)
           x == Max(old)
<1>0. Len(msgs) \in Nat /\ a \in Nat /\ path \subseteq 1..a
  BY UpBelow DEF Rooted
<1>1. old \subseteq path /\ old # {}
  BY DEF ToFold, Older
<1>2. x \in old /\ \A y \in old : x >= y
  <2> HIDE DEF old, path
  <2> QED
    BY <1>0, <1>1, MaxIs
<1>3. ASSUME NEW q \in path, q <= x PROVE q \in old
  <2> DEFINE Above(n) == {m \in path : m > n}
  <2>1. IsFiniteSet(Above(q))
    <3>1. IsFiniteSet(1..a)
      <4>1. 1 \in Int /\ a \in Int
        BY <1>0
      <4> QED
        BY <4>1, FS_Interval
    <3>2. Above(q) \in SUBSET (1..a)
      BY <1>0
    <3> QED
      BY <3>1, <3>2, FS_Subset
  <2>2. Above(x) \in SUBSET Above(q)
    BY <1>0, <1>1, <1>2, <1>3
  <2>3. Cardinality(Above(x)) <= Cardinality(Above(q)) /\ IsFiniteSet(Above(x))
    BY <2>1, <2>2, FS_Subset
  <2>4. Cardinality(Above(x)) \in Nat /\ Cardinality(Above(q)) \in Nat
    BY <2>1, <2>3, FS_CardinalityType
  <2>5. Cardinality(Above(x)) >= Keep
    BY <1>2 DEF Older
  <2>6. Cardinality(Above(q)) >= Keep
    BY <2>3, <2>4, <2>5, ChatAssumption
  <2> QED
    BY <2>6 DEF Older
<1>4. old = Up(msgs)[x] /\ x \in 0..Len(msgs)
  <2>1. old = {q \in path : q <= x}
    BY <1>0, <1>1, <1>2, <1>3
  <2>2. x \in path
    BY <1>1, <1>2
  <2>3. Up(msgs)[x] = {q \in path : q <= x}
    <3> HIDE DEF x
    <3> QED
      BY <2>2, UpChain
  <2>4. x \in 1..a
    BY <1>0, <2>2
  <2> HIDE DEF x, old, path
  <2> QED
    BY <1>0, <2>1, <2>3, <2>4
<1>5. r.memory.covers \union ToFold(r, path) = old
  <2> HIDE DEF x
  <2>1. CASE r.memory = NoMemory
    <3>1. r.memory.covers = {} /\ r.memory.upto = 0
      BY <2>1 DEF NoMemory, None
    <3> QED
      BY <1>0, <1>1, <3>1 DEF ToFold
  <2>2. CASE Valid(r, path)
    <3> DEFINE u == r.memory.upto
    <3>1. u \in path /\ r.memory.covers = Up(msgs)[u]
      BY <2>2 DEF Valid, Tells
    <3> HIDE DEF u
    <3>2. Up(msgs)[u] = {q \in path : q <= u}
      BY <3>1, UpChain
    <3>3. ToFold(r, path) = {q \in old : q > u}
      BY DEF ToFold, u
    <3>4. u <= x
      BY <1>0, <1>1, <1>2, <3>1, <3>3
    <3>5. Up(msgs)[u] \subseteq old
      <4>1. ASSUME NEW q \in path, q <= u PROVE q <= x
        BY <1>0, <1>1, <1>2, <3>1, <3>4, <4>1
      <4> QED
        BY <1>3, <3>2, <4>1
    <3>6. ASSUME NEW q \in old PROVE q \in Up(msgs)[u] \/ q \in ToFold(r, path)
      BY <1>0, <1>1, <3>1, <3>2, <3>3
    <3> QED
      BY <3>1, <3>3, <3>5, <3>6
  <2> QED
    BY <2>1, <2>2
<1> HIDE DEF x, old
<1>6. Folded(r, path) = [covers |-> old, upto |-> x]
  BY <1>5 DEF Folded, x, old
<1> QED
  BY <1>0, <1>1, <1>4, <1>6 DEF Memory, Tells, old

\* The steps that assemble the history.
LEMMA AssembleNext ==
  ASSUME ChatInv, NEW t \in Turns, Assemble(t)
  PROVE  ChatInv'
<1> DEFINE c == turn[t]
           a == msgs[c.asked].parent
<1>0. /\ c \in Turn /\ Good(msgs, c) /\ Rooted(msgs) /\ Tells(msgs, c.memory)
      /\ c.memory \in Memory
  BY DEF ChatInv, Typed, Good, Told, Turn
<1>1. c.pc = "history" => a \in 0..Len(msgs) /\ Ancestors(c.asked) = Up(msgs)[a]
                           /\ Up(msgs)[a] = Up(msgs)[c.asked] \ {c.asked}
  <2> SUFFICES ASSUME c.pc = "history"
               PROVE  a \in 0..Len(msgs) /\ Ancestors(c.asked) = Up(msgs)[a]
                      /\ Up(msgs)[a] = Up(msgs)[c.asked] \ {c.asked}
    OBVIOUS
  <2>1. c.asked \in 1..Len(msgs) /\ Len(msgs) \in Nat
    BY <1>0 DEF Good, Placed, Question, Rooted
  <2>2. a \in 0..(c.asked - 1) /\ Up(msgs)[c.asked] = {c.asked} \union Up(msgs)[a]
    BY <1>0, <2>1, UpRec
  <2>3. Up(msgs)[a] \subseteq 1..a
    BY <1>0, <2>1, <2>2, UpBelow
  <2> QED
    BY <2>1, <2>2, <2>3, PathUp DEF Ancestors
<1>2. CASE Forget(t)
  <2> DEFINE r == [Commit(c) EXCEPT !.memory = NoMemory]
  <2>1. NoMemory \in Memory /\ Tells(msgs, NoMemory)
    BY <1>0, UpRec DEF NoMemory, Memory, Tells, None, Rooted
  <2>2. c.pc = "history"
    BY <1>2 DEF Forget, At
  <2>3. r \in Turn /\ r.pc = "history"
    BY <1>0, <2>1, <2>2 DEF Turn, Commit
  <2>4. Good(msgs, r)
    BY <1>0, <2>1, <2>2 DEF Turn, Good, Placed, Told, Paid, Counted, OfKind, Commit
  <2>5. /\ turn' = [turn EXCEPT ![t] = r] /\ UNCHANGED <<msgs, exists, rescue, holder>>
        /\ memory' = NoMemory
    BY <1>2 DEF Forget, Become
  <2> HIDE DEF r
  <2> QED
    BY <2>1, <2>2, <2>3, <2>4, <2>5, OwnStep
<1>3. CASE Recall(t)
  <2> DEFINE r == [c EXCEPT !.pc = "prompted", !.prompt = c.memory.covers \union Up(msgs)[a]]
  <2>1. c.pc = "history"
    BY <1>3 DEF Recall, At
  <2>2. c.memory = NoMemory \/ Valid(c, Up(msgs)[a])
    BY <1>1, <1>3, <2>1 DEF Recall
  <2>3. c.memory.covers \union Up(msgs)[a] = Up(msgs)[a]
    <3>1. CASE c.memory = NoMemory
      BY <3>1 DEF NoMemory
    <3>2. CASE Valid(c, Up(msgs)[a])
      <4>1. c.memory.upto \in Up(msgs)[a] /\ c.memory.covers = Up(msgs)[c.memory.upto]
        BY <1>0, <3>2 DEF Valid, Tells
      <4>2. Up(msgs)[c.memory.upto] \subseteq Up(msgs)[a]
        BY <1>0, <1>1, <2>1, <4>1, UpChain
      <4> QED
        BY <4>1, <4>2
    <3> QED
      BY <2>2, <3>1, <3>2
  <2>4. Up(msgs)[a] \in SUBSET Nat
    BY <1>0, <1>1, <2>1, UpBelow
  <2> HIDE DEF a
  <2>5. r \in Turn /\ r.pc = "prompted" /\ r.prompt = Up(msgs)[a]
    BY <1>0, <2>3, <2>4 DEF Turn
  <2>6. Good(msgs, r)
    BY <1>0, <1>1, <2>1, <2>3 DEF Turn, Good, Placed, Told, Paid, Counted, OfKind
  <2>7. Become(t, r) /\ Private
    BY <1>1, <1>3, <2>1 DEF Recall
  <2> HIDE DEF r
  <2> QED
    BY <2>1, <2>5, <2>6, <2>7, PrivateStep
<1>4. CASE FoldSummary(t)
  <2> DEFINE new == Folded(c, Up(msgs)[a])
             old == Older(Up(msgs)[a])
             fold == {<<"fold", 0>>}
             b == [c EXCEPT !.owing = @ \ c.staged, !.staged = {}]
             r == [b EXCEPT !.owing = @ \union fold, !.pc = "folded", !.memory = new,
                            !.prompt = new.covers \union (Up(msgs)[a] \ old)]
  <2>1. c.pc = "history"
    BY <1>4 DEF FoldSummary, At
  <2>2. /\ c.memory = NoMemory \/ Valid(c, Up(msgs)[a])
        /\ ToFold(c, Up(msgs)[a]) # {}
    BY <1>1, <1>4, <2>1 DEF FoldSummary
  <2>3. /\ new \in Memory /\ Tells(msgs, new)
        /\ new.covers = old /\ old \subseteq Up(msgs)[a]
    BY <1>0, <1>1, <2>1, <2>2, FoldTells
  <2>4. Up(msgs)[a] \in SUBSET Nat
    BY <1>0, <1>1, <2>1, UpBelow
  <2>5. fold \in SUBSET Spends
    <3>1. 0 \in 0..MaxSteps
      BY ChatAssumption
    <3> QED
      BY <3>1 DEF Spends
  <2>6. /\ turn' = [turn EXCEPT ![t] =
                      [Pays(Commit(c), fold) EXCEPT !.pc = "folded", !.memory = new,
                         !.prompt = new.covers \union (Up(msgs)[a] \ old)]]
        /\ UNCHANGED <<msgs, exists, rescue, holder>> /\ memory' = new
    BY <1>1, <1>4, <2>1 DEF FoldSummary, Become
  <2> HIDE DEF new, old, a
  <2>7. b \in Turn /\ b.owing = c.owing \ c.staged /\ b = Commit(c) /\ b.pc = "history"
    BY <1>0, <2>1 DEF Turn, Commit
  <2>8. Good(msgs, b) /\ b.asked = c.asked /\ b.staged = {}
    BY <1>0, <2>1 DEF Turn, Good, Placed, Told, Paid, Counted, OfKind
  <2> HIDE DEF b
  <2>9. r \in Turn /\ r.pc = "folded"
    <3>1. new.covers \union (Up(msgs)[a] \ old) \in SUBSET Nat
      BY <2>3, <2>4
    <3>2. b \in Turn /\ b.owing \union fold \in SUBSET Spends
      BY <2>5, <2>7 DEF Turn
    <3> HIDE DEF fold
    <3>3. \A o, q : o \in SUBSET Spends /\ q \in SUBSET Nat =>
            [b EXCEPT !.owing = o, !.pc = "folded", !.memory = new, !.prompt = q] \in Turn
      BY <2>3, <3>2 DEF Turn, Steps
    <3>4. r \in Turn
      BY <3>1, <3>2, <3>3
    <3> QED
      BY <3>2, <3>4 DEF Turn
  <2>a. Good(msgs, r)
    <3>1. new.covers \union (Up(msgs)[a] \ old) = Up(msgs)[b.asked] \ {b.asked}
      BY <1>1, <2>1, <2>3, <2>8
    <3> QED
      BY <2>3, <2>7, <2>8, <3>1 DEF Turn, Good, Placed, Told, Paid, Counted, OfKind
  <2>b. turn' = [turn EXCEPT ![t] = r]
    BY <2>6, <2>7 DEF Pays, Turn
  <2> HIDE DEF r
  <2> QED
    BY <2>1, <2>3, <2>6, <2>9, <2>a, <2>b, OwnStep
<1>5. CASE RecordFold(t)
  <2> DEFINE r == [c EXCEPT !.pc = "prompted", !.owing = @ \ {<<"fold", 0>>}]
  <2>1. c.pc = "folded"
    BY <1>5 DEF RecordFold, At
  <2>2. r \in Turn /\ r.pc = "prompted"
    BY <1>0 DEF Turn
  <2>3. Good(msgs, r)
    BY <1>0, <2>1 DEF Turn, Good, Placed, Told, Paid, Counted, OfKind
  <2>4. Become(t, r) /\ Private
    BY <1>5 DEF RecordFold
  <2> HIDE DEF r
  <2> QED
    BY <2>1, <2>2, <2>3, <2>4, PrivateStep
<1> QED
  BY <1>2, <1>3, <1>4, <1>5 DEF Assemble

-----------------------------------------------------------------------------
\* What is true of the messages ms stays true when one is added.
LEMMA GrownFacts ==
  ASSUME NEW ms, NEW more, Rooted(ms), Len(more) = Len(ms) + 1,
         \A m \in 1..Len(ms) : more[m] = ms[m],
         \A m \in 0..Len(ms) : Up(more)[m] = Up(ms)[m]
  PROVE  /\ \A m : Tells(ms, m) => Tells(more, m)
         /\ \A m : Question(ms, m) => Question(more, m)
<1>1. Len(ms) \in Nat
  BY DEF Rooted
<1> QED
  BY <1>1 DEF Tells, Question

\* The commit of the holder of the lock that adds a message.
LEMMA InsertStep ==
  ASSUME ChatInv, NEW t \in Turns, holder = t,
         NEW p \in 0..Len(msgs), NEW role \in {"user", "assistant"}, NEW stopped \in BOOLEAN,
         NEW slot, slot = Cardinality(Kids(msgs, p)),
         p = None => role = "user", p # None => role # msgs[p].role,
         Insert(p, role, slot, t, stopped),
         NEW r \in Turn, r.pc \notin {"counting", "counted"}, turn' = [turn EXCEPT ![t] = r],
         \/ rescue' = rescue /\ rescue[t] = "none"
         \/ rescue' = [rescue EXCEPT ![t] = "kept"] /\ r.pc = "over",
         holder' = None, UNCHANGED <<memory, exists>>,
         (\A m : Tells(msgs, m) => Tells(msgs', m))
           /\ (\A m : Question(msgs, m) => Question(msgs', m))
           /\ (role = "user" => Question(msgs', Len(msgs) + 1))
           => Good(msgs', r)
  PROVE  ChatInv'
<1>1. /\ Rooted(msgs') /\ TreeWellFormed'
      /\ Len(msgs') = Len(msgs) + 1 /\ msgs'[Len(msgs) + 1].role = role
      /\ \A m \in 1..Len(msgs) : msgs'[m] = msgs[m]
      /\ \A m \in 0..Len(msgs) : Up(msgs')[m] = Up(msgs)[m]
  BY InsertKeeps, ChildrenKids, PathUp DEF ChatInv
<1>2. Rooted(msgs) /\ Len(msgs) \in Nat
  BY DEF ChatInv, Typed, Rooted
<1>3. /\ \A m : Tells(msgs, m) => Tells(msgs', m)
      /\ \A m : Question(msgs, m) => Question(msgs', m)
  BY <1>1, <1>2, GrownFacts
<1>4. role = "user" => Question(msgs', Len(msgs) + 1)
  BY <1>1, <1>2 DEF Question
<1>5. Good(msgs', r)
  BY <1>3, <1>4
<1>6. Typed'
  BY <1>1 DEF ChatInv, Typed, RescueSteps
<1>7. /\ turn'[t] = r /\ (\A s \in Turns : s # t => turn'[s] = turn[s] /\ rescue'[s] = rescue[s])
      /\ rescue'[t] \in {"none", "kept"} /\ (rescue'[t] = "kept" => r.pc = "over")
  BY DEF ChatInv, Typed
<1>8. ASSUME NEW s \in Turns, s # t
      PROVE  /\ Good(msgs', turn[s]) /\ ~Holding(s)'
             /\ Rescued(s)'
  <2>1. ~Holding(s)
    BY <1>8 DEF ChatInv
  <2>2. Good(msgs, turn[s]) /\ turn[s] \in Turn /\ Rescued(s)
    BY DEF ChatInv, Typed
  <2>3. turn[s].pc \notin {"counting", "counted"}
    BY <2>1 DEF Holding
  <2>4. Good(msgs', turn[s])
    BY <1>1, <1>2, <2>2, <2>3, Grown
  <2>5. Rescued(s)' /\ ~Holding(s)'
    BY <1>3, <1>7, <1>8, <2>1, <2>2 DEF Rescued, Holding
  <2> QED
    BY <2>4, <2>5
<1>9. Rescued(t)' /\ ~Holding(t)'
  BY <1>7 DEF Rescued, Holding
<1>10. Tells(msgs, memory)'
  BY <1>3 DEF ChatInv
<1> QED
  BY <1>1, <1>5, <1>6, <1>7, <1>8, <1>9, <1>10 DEF ChatInv

\* add_user_message's commit.
LEMMA InsertUserNext ==
  ASSUME ChatInv, NEW t \in Turns, InsertUser(t)
  PROVE  ChatInv'
<1> DEFINE c == turn[t]
           b == [c EXCEPT !.owing = @ \ c.staged, !.staged = {}]
           r == [b EXCEPT !.pc = "ready", !.asked = Len(msgs) + 1, !.at = None, !.slot = 0]
<1>0. c \in Turn /\ Good(msgs, c) /\ c.pc = "counting" /\ Len(msgs) \in Nat /\ Rescued(t)
  BY DEF ChatInv, Typed, Rooted, InsertUser, At
<1>1. holder = t /\ rescue[t] = "none"
  BY <1>0 DEF ChatInv, Holding, Rescued
<1>2. ReplyPoint(msgs, c.at) /\ c.slot = Cardinality(Kids(msgs, c.at))
  BY <1>0 DEF Good, Placed
<1>3. c.at \in 0..Len(msgs) /\ (c.at # None => msgs[c.at].role # "user")
  BY <1>0, <1>2 DEF ReplyPoint, None
<1>4. /\ Insert(c.at, "user", c.slot, t, FALSE)
      /\ turn' = [turn EXCEPT ![t] = [Commit(c) EXCEPT !.pc = "ready", !.asked = Len(msgs) + 1,
                                                      !.at = None, !.slot = 0]]
      /\ holder' = None /\ UNCHANGED <<memory, exists, rescue>>
  BY DEF InsertUser, Become
<1>5. b \in Turn /\ b = Commit(c) /\ b.staged = {} /\ b.memory = c.memory
      /\ b.partial = c.partial /\ b.asked = c.asked
  BY <1>0 DEF Turn, Commit
<1>6. Good(msgs, b) /\ b.pc = "counting"
  BY <1>0 DEF Turn, Good, Placed, Told, Paid, Counted, OfKind
<1>7. r \in Turn /\ r.pc = "ready"
  <2>1. b \in Turn
    BY <1>5
  <2>2. Len(msgs) + 1 \in Nat /\ None \in Nat
    BY <1>0 DEF None
  <2> HIDE DEF b
  <2> QED
    BY <2>1, <2>2 DEF Turn
<1>8. ASSUME \A m : Tells(msgs, m) => Tells(msgs', m), Question(msgs', Len(msgs) + 1)
      PROVE  Good(msgs', r)
  <2> HIDE DEF b
  <2>1. r.memory = b.memory /\ r.asked = Len(msgs) + 1 /\ r.pc = "ready"
    BY <1>0, <1>5 DEF Turn
  <2>2. Placed(msgs', r) /\ Told(msgs', r)
    BY <1>6, <1>8, <2>1 DEF Placed, Told, Good
  <2>3. Paid(r) /\ Counted(r)
    BY <1>5, <1>6 DEF Turn, Good, Paid, Counted, OfKind
  <2> QED
    BY <2>2, <2>3 DEF Good
<1>9. turn' = [turn EXCEPT ![t] = r]
  BY <1>4, <1>5
<1> HIDE DEF r, b
<1> QED
  BY <1>1, <1>2, <1>3, <1>4, <1>7, <1>8, <1>9, InsertStep

\* add_message's commit of the answer.
LEMMA StoreAnswerNext ==
  ASSUME ChatInv, NEW t \in Turns, StoreAnswer(t)
  PROVE  ChatInv'
<1> DEFINE c == turn[t]
           b == [c EXCEPT !.owing = @ \ c.staged, !.staged = {}]
           r == [b EXCEPT !.pc = "stored", !.slot = 0]
<1>0. c \in Turn /\ Good(msgs, c) /\ c.pc = "counted" /\ Len(msgs) \in Nat
  BY DEF ChatInv, Typed, Rooted, StoreAnswer, At
<1>1. holder = t /\ rescue[t] = "none"
  BY <1>0 DEF ChatInv, Holding, Rescued
<1>2. Question(msgs, c.asked) /\ c.slot = Cardinality(Kids(msgs, c.asked))
  BY <1>0 DEF Good, Placed
<1>3. c.asked \in 0..Len(msgs) /\ c.asked # None /\ msgs[c.asked].role = "user"
  BY <1>0, <1>2 DEF Question, None
<1>4. /\ Insert(c.asked, "assistant", c.slot, t, FALSE)
      /\ turn' = [turn EXCEPT ![t] = [Commit(c) EXCEPT !.pc = "stored", !.slot = 0]]
      /\ holder' = None /\ UNCHANGED <<memory, exists, rescue>>
  BY DEF StoreAnswer, Become
<1>5. r \in Turn /\ r.pc = "stored" /\ r = [Commit(c) EXCEPT !.pc = "stored", !.slot = 0]
  BY <1>0 DEF Turn, Commit
<1>6. ASSUME \A m : Tells(msgs, m) => Tells(msgs', m),
             \A m : Question(msgs, m) => Question(msgs', m)
      PROVE  Good(msgs', r)
  <2>1. r.memory = c.memory /\ r.asked = c.asked /\ r.pc = "stored"
    BY <1>0 DEF Turn
  <2>2. Placed(msgs', r) /\ Told(msgs', r)
    BY <1>0, <1>2, <1>6, <2>1 DEF Placed, Told, Good
  <2>3. Paid(r) /\ Counted(r)
    BY <1>0 DEF Turn, Good, Paid, Counted, OfKind
  <2> QED
    BY <2>2, <2>3 DEF Good
<1> HIDE DEF r
<1> QED
  BY <1>1, <1>2, <1>3, <1>4, <1>5, <1>6, InsertStep

\* The row of a stopped turn.
LEMMA RescueStoreNext ==
  ASSUME ChatInv, NEW t \in Turns, RescueStore(t)
  PROVE  ChatInv'
<1> DEFINE c == turn[t]
<1>0. c \in Turn /\ Len(msgs) \in Nat /\ rescue[t] = "counted"
  BY DEF ChatInv, Typed, Rooted, RescueStore
<1>1. holder = t /\ Question(msgs, c.asked) /\ c.slot = Cardinality(Kids(msgs, c.asked))
  BY <1>0 DEF ChatInv, Holding, Rescued
<1>2. c.asked \in 0..Len(msgs) /\ c.asked # None /\ msgs[c.asked].role = "user"
  BY <1>0, <1>1 DEF Question, None
<1>3. /\ Insert(c.asked, "assistant", c.slot, t, TRUE)
      /\ turn' = [turn EXCEPT ![t] = Over] /\ rescue' = [rescue EXCEPT ![t] = "kept"]
      /\ holder' = None /\ UNCHANGED <<memory, exists>>
  BY DEF RescueStore
<1>4. Over \in Turn /\ Over.pc = "over" /\ Good(msgs, Over)
  BY OverGood DEF ChatInv
<1>5. (\A m : Tells(msgs, m) => Tells(msgs', m)) => Good(msgs', Over)
  BY <1>4 DEF Good, Placed, Told, Over, NewTurn
<1>6. rescue[t] \in {"none", "counted"} /\ Over.pc \notin {"counting", "counted"}
  BY <1>0, <1>4
<1>7. PICK p, slot, over : p = c.asked /\ slot = c.slot /\ over = Over
  OBVIOUS
<1>8. /\ p \in 0..Len(msgs) /\ over \in Turn
      /\ slot = Cardinality(Kids(msgs, p)) /\ (p = None => "assistant" = "user")
      /\ (p # None => "assistant" # msgs[p].role) /\ Insert(p, "assistant", slot, t, TRUE)
      /\ turn' = [turn EXCEPT ![t] = over] /\ over.pc = "over"
      /\ (\A m : Tells(msgs, m) => Tells(msgs', m)) => Good(msgs', over)
  BY <1>1, <1>2, <1>3, <1>4, <1>5, <1>7
<1> HIDE DEF c
<1> QED
  BY <1>1, <1>3, <1>6, <1>8, InsertStep

\* The steps that stream the answer and put what it cost on record.
LEMMA ReplyNext ==
  ASSUME ChatInv, NEW t \in Turns, Reply(t)
  PROVE  ChatInv'
<1> DEFINE c == turn[t]
<1>0. c \in Turn /\ Good(msgs, c)
  BY DEF ChatInv, Typed
<1>a. NoMemory \in Memory /\ Tells(msgs, NoMemory)
  BY UpRec DEF ChatInv, Typed, NoMemory, Memory, Tells, None, Rooted
<1>b. /\ {<<"synth", 0>>} \subseteq Spends /\ Unmetered \subseteq Spends
      /\ \A paid \in Judged : paid \subseteq Spends
  <2>1. 0 \in 0..MaxSteps /\ 1 \in 0..MaxSteps
    BY ChatAssumption
  <2> QED
    BY <2>1 DEF Spends, Judged, Unmetered
<1>c. \A paid \in Judged : OfKind(paid, {"synth", "judge"})
  BY DEF Judged, OfKind
<1>1. CASE OpenStream(t)
  <2> DEFINE b == [c EXCEPT !.owing = @ \ c.staged, !.staged = {}]
             sent(x) == [x EXCEPT !.memory = NoMemory, !.prompt = {}, !.pc = "streaming"]
  <2>1. c.pc = "prompted"
    BY <1>1 DEF OpenStream, At
  <2>2. b \in Turn /\ b.pc = "prompted" /\ b = Commit(c)
    BY <1>0, <2>1 DEF Turn, Commit
  <2>3. Good(msgs, b)
    BY <1>0, <2>1 DEF Turn, Good, Placed, Told, Paid, Counted, OfKind
  <2> HIDE DEF b
  <2>4. PICK x \in {b, c} : turn' = [turn EXCEPT ![t] = [Prompted(x) EXCEPT !.pc = "streaming"]]
    BY <1>1, <2>2 DEF OpenStream, Become
  <2>5. x \in Turn /\ x.pc = "prompted" /\ Good(msgs, x)
    BY <1>0, <2>1, <2>2, <2>3
  <2>6. sent(x) \in Turn /\ sent(x).pc = "streaming"
    BY <1>a, <2>5 DEF Turn
  <2>7. Good(msgs, sent(x))
    BY <1>a, <2>5 DEF Turn, Good, Placed, Told, Paid, Counted, OfKind
  <2>8. Become(t, sent(x)) /\ Private
    BY <1>1, <2>4, <2>5 DEF OpenStream, Become, Prompted, Turn
  <2> HIDE DEF sent
  <2> QED
    BY <2>1, <2>6, <2>7, <2>8, PrivateStep
<1>2. CASE Token(t)
  <2> DEFINE r == [c EXCEPT !.partial = TRUE]
  <2>1. c.pc = "streaming"
    BY <1>2 DEF Token, At
  <2>2. r \in Turn /\ r.pc \notin {"counting", "counted"}
    BY <1>0, <2>1 DEF Turn
  <2>3. Good(msgs, r)
    BY <1>0, <2>1 DEF Turn, Good, Placed, Told, Paid, Counted, OfKind
  <2>4. Become(t, r) /\ Private
    BY <1>2 DEF Token
  <2> HIDE DEF r
  <2> QED
    BY <2>1, <2>2, <2>3, <2>4, PrivateStep
<1>3. CASE EndStream(t)
  <2>1. PICK reported \in {{}, {<<"synth", 0>>}} :
          Become(t, [Pays(c, reported) EXCEPT !.pc = "write", !.usage = reported \union c.carried])
    BY <1>3 DEF EndStream
  <2> DEFINE r == [Pays(c, reported) EXCEPT !.pc = "write", !.usage = reported \union c.carried]
  <2>2. c.pc = "streaming"
    BY <1>3 DEF EndStream, At
  <2>3. reported \in SUBSET Spends /\ OfKind(reported, {"synth"})
    BY <1>b DEF OfKind
  <2>4. r \in Turn /\ r.pc = "write"
    BY <1>0, <2>3 DEF Turn, Pays
  <2>5. Good(msgs, r)
    BY <1>0, <2>2, <2>3 DEF Turn, Good, Placed, Told, Paid, Counted, OfKind, Pays
  <2>6. Become(t, r) /\ Private
    BY <1>3, <2>1 DEF EndStream
  <2> HIDE DEF r
  <2> QED
    BY <2>2, <2>4, <2>5, <2>6, PrivateStep
<1>4. CASE Gatekeep(t)
  <2>1. PICK paid \in Judged :
          Become(t, [Pays(Prompted(c), paid) EXCEPT
                        !.pc = "write", !.partial = TRUE, !.usage = paid \union c.carried])
    BY <1>4 DEF Gatekeep
  <2> DEFINE b == [c EXCEPT !.memory = NoMemory, !.prompt = {}]
             r == [b EXCEPT !.owing = @ \union paid, !.pc = "write", !.partial = TRUE,
                            !.usage = paid \union c.carried]
  <2>2. c.pc = "prompted" /\ c.route = "judged"
    BY <1>4 DEF Gatekeep, At
  <2>3. paid \in SUBSET Spends /\ OfKind(paid, {"synth", "judge"})
    BY <1>b, <1>c
  <2>4. /\ b \in Turn /\ b.pc = "prompted" /\ b = Prompted(c) /\ b.route = "judged"
        /\ b.carried = c.carried /\ b.memory = NoMemory
    BY <1>0, <1>a, <2>2 DEF Turn, Prompted
  <2>5. /\ Placed(msgs, b) /\ Tells(msgs, b.memory) /\ Paid(b) /\ Counted(b)
    BY <1>0, <1>a, <2>2 DEF Turn, Good, Placed, Paid, Counted, OfKind
  <2> HIDE DEF b
  <2>6. r \in Turn /\ r.pc = "write"
    BY <1>0, <2>3, <2>4 DEF Turn
  <2>7. Good(msgs, r)
    BY <2>3, <2>4, <2>5 DEF Turn, Good, Placed, Told, Paid, Counted, OfKind
  <2>8. Become(t, r) /\ Private
    BY <1>4, <2>1, <2>4 DEF Gatekeep, Become, Pays, Turn
  <2> HIDE DEF r
  <2> QED
    BY <2>2, <2>6, <2>7, <2>8, PrivateStep
<1>5. CASE LockForAnswer(t)
  <2> DEFINE r == [c EXCEPT !.pc = "counted", !.slot = Cardinality(Children(c.asked))]
  <2>1. Cardinality(Children(c.asked)) \in Nat
    BY Siblings DEF ChatInv
  <2>2. r \in Turn
    BY <1>0, <2>1 DEF Turn
  <2>3. c.pc = "write"
    BY <1>5 DEF LockForAnswer, LockChat, At
  <2>4. Good(msgs, r)
    BY <1>0, <2>3, ChildrenKids DEF Turn, Good, Placed, Told, Paid, Counted, OfKind
  <2>5. /\ turn' = [turn EXCEPT ![t] = r] /\ holder = None /\ holder' = t
        /\ UNCHANGED <<msgs, exists, rescue>>
        /\ memory' \in Memory /\ Tells(msgs, memory')
    BY <1>5 DEF LockForAnswer, LockChat, Become, ChatInv, Typed
  <2> HIDE DEF r
  <2> QED
    BY <2>2, <2>3, <2>4, <2>5, OwnStep
<1>6. CASE StoreAnswer(t)
  BY <1>6, StoreAnswerNext
<1>7. CASE StoreCitations(t)
  <2> DEFINE r == [c EXCEPT !.pc = "record", !.partial = FALSE]
  <2>1. c.pc = "stored"
    BY <1>7 DEF StoreCitations, At
  <2>2. r \in Turn /\ r.pc \notin {"counting", "counted"}
    BY <1>0, <2>1 DEF Turn
  <2>3. Good(msgs, r)
    BY <1>0, <2>1 DEF Turn, Good, Placed, Told, Paid, Counted, OfKind
  <2>4. Become(t, r) /\ Private
    BY <1>7 DEF StoreCitations
  <2> HIDE DEF r
  <2> QED
    BY <2>1, <2>2, <2>3, <2>4, PrivateStep
<1>8. CASE RecordUsage(t)
  <2> DEFINE due == IF c.route = "decline" THEN c.carried ELSE c.usage
             r == [c EXCEPT !.pc = "recorded", !.owing = @ \ due, !.carried = {}, !.usage = {}]
  <2>1. c.pc = "record"
    BY <1>8 DEF RecordUsage, At
  <2>2. r \in Turn /\ r.pc = "recorded"
    BY <1>0 DEF Turn
  <2>3. Good(msgs, r)
    BY <1>0, <2>1 DEF Turn, Good, Placed, Told, Paid, Counted, OfKind
  <2>4. Become(t, r) /\ Private
    BY <1>8 DEF RecordUsage
  <2> HIDE DEF r
  <2> QED
    BY <2>1, <2>2, <2>3, <2>4, PrivateStep
<1>9. CASE Close(t)
  <2>1. c.pc = "closing" /\ Become(t, Over) /\ Private
    BY <1>9 DEF Close, At
  <2>2. Over \in Turn /\ Over.pc = "over" /\ Good(msgs, Over)
    BY OverGood DEF ChatInv
  <2> QED
    BY <2>1, <2>2, PrivateStep
<1>10. CASE DrawBlocks(t)
  <2>1. PICK call \in {{}, Unmetered} : Become(t, [Pays(c, call) EXCEPT !.pc = "closing"])
    BY <1>10 DEF DrawBlocks
  <2> DEFINE r == [Pays(c, call) EXCEPT !.pc = "closing"]
  <2>2. c.pc = "recorded"
    BY <1>10 DEF DrawBlocks, At
  <2>3. call \in SUBSET Spends /\ call \subseteq Unmetered
    BY <1>b
  <2>4. r \in Turn /\ r.pc = "closing"
    BY <1>0, <2>3 DEF Turn, Pays
  <2>5. Good(msgs, r)
    BY <1>0, <2>2, <2>3 DEF Turn, Good, Placed, Told, Paid, Counted, OfKind, Pays
  <2>6. Become(t, r) /\ Private
    BY <1>10, <2>1 DEF DrawBlocks
  <2> HIDE DEF r
  <2> QED
    BY <2>2, <2>4, <2>5, <2>6, PrivateStep
<1> QED
  BY <1>1, <1>2, <1>3, <1>4, <1>5, <1>6, <1>7, <1>8, <1>9, <1>10 DEF Reply

\* What ends a turn early.
LEMMA EndNext ==
  ASSUME ChatInv, NEW t \in Turns, Fail(t) \/ Abort(t)
  PROVE  ChatInv'
<1>0. /\ turn[t] \in Turn /\ Good(msgs, turn[t]) /\ Over \in Turn /\ Over.pc = "over"
      /\ Good(msgs, Over) /\ turn[t].pc # "over" /\ rescue[t] = "none"
      /\ memory \in Memory /\ Tells(msgs, memory)
  BY OverGood DEF ChatInv, Typed, Fail, Abort, Drop, Active, Rescued
<1>1. /\ holder' = IF holder = t THEN None ELSE holder
      /\ UNCHANGED <<msgs, memory, exists>>
  BY DEF Fail, Abort, Drop
<1>2. CASE turn' = [turn EXCEPT ![t] = Over] /\ rescue' = rescue
  BY <1>0, <1>1, <1>2, OwnStep
<1>3. CASE /\ turn[t].partial
           /\ turn' = [turn EXCEPT ![t] = [Over EXCEPT !.asked = turn[t].asked]]
           /\ rescue' = [rescue EXCEPT ![t] = "owed"]
  <2> DEFINE r == [Over EXCEPT !.asked = turn[t].asked]
  <2>1. r \in Turn /\ r.pc = "over" /\ r.asked = turn[t].asked
    BY <1>0 DEF Turn
  <2>2. Question(msgs, turn[t].asked)
    BY <1>0, <1>3 DEF Good, Placed
  <2>3. Good(msgs, r)
    BY <1>0, <2>2 DEF Turn, Good, Placed, Told, Paid, Counted, OfKind
  <2>4. turn' = [turn EXCEPT ![t] = r]
    BY <1>3
  <2> HIDE DEF r
  <2>5. Typed' /\ TreeWellFormed' /\ Tells(msgs, memory)'
    <3>1. Typed'
      BY <1>1, <1>3, <2>1, <2>4 DEF ChatInv, Typed, RescueSteps
    <3>2. TreeWellFormed'
      BY <1>1, TreeIs, Zenon DEF ChatInv
    <3> QED
      BY <1>0, <1>1, <3>1, <3>2
  <2>6. /\ turn'[t] = r /\ rescue'[t] = "owed"
        /\ \A s \in Turns : s # t => turn'[s] = turn[s] /\ rescue'[s] = rescue[s]
    BY <1>3, <2>4 DEF ChatInv, Typed
  <2>7. \A s \in Turns : Good(msgs, turn[s])' /\ Rescued(s)'
    BY <1>1, <2>1, <2>2, <2>3, <2>6 DEF ChatInv, Rescued
  <2>8. ASSUME NEW s \in Turns, Holding(s)' PROVE holder' = s
    <3>1. s # t /\ Holding(s)
      BY <2>1, <2>6, <2>8 DEF Holding
    <3> QED
      BY <1>1, <3>1 DEF ChatInv
  <2> QED
    BY <2>5, <2>7, <2>8 DEF ChatInv
<1> QED
  BY <1>2, <1>3 DEF Fail, Abort, Become

\* The detached task up to its commit, after it, and when it dies.
LEMMA RescueNext ==
  ASSUME ChatInv, NEW t \in Turns, RescueLock(t) \/ RescueMeter(t) \/ RescueDies(t)
  PROVE  ChatInv'
<1> DEFINE c == turn[t]
<1>0. /\ c \in Turn /\ Good(msgs, c) /\ Over \in Turn /\ Over.pc = "over" /\ Good(msgs, Over)
      /\ rescue[t] # "none" /\ c.pc = "over" /\ memory \in Memory /\ Tells(msgs, memory)
  BY OverGood DEF ChatInv, Typed, RescueLock, RescueMeter, RescueDies, Rescued
<1>1. UNCHANGED <<msgs, memory, exists>>
  BY DEF RescueLock, RescueMeter, RescueDies
\* In each case the record of t becomes r, and its rescue stands at step.
<1>2. ASSUME NEW r \in Turn, Good(msgs, r), r.pc = "over", turn' = [turn EXCEPT ![t] = r],
             NEW step \in RescueSteps \ {"none"}, rescue' = [rescue EXCEPT ![t] = step],
             step \in {"owed", "counted"} => Question(msgs, r.asked),
             step = "counted" => holder' = t /\ r.slot = Cardinality(Kids(msgs, r.asked)),
             \/ holder' = holder
             \/ holder = None /\ holder' = t
             \/ holder' = IF holder = t THEN None ELSE holder
      PROVE  ChatInv'
  <2>1. Typed'
    BY <1>1, <1>2 DEF ChatInv, Typed
  <2>2. TreeWellFormed'
    BY <1>1, TreeIs, Zenon DEF ChatInv
  <2>3. /\ turn'[t] = r /\ rescue'[t] = step
        /\ \A s \in Turns : s # t => turn'[s] = turn[s] /\ rescue'[s] = rescue[s]
    BY <1>2 DEF ChatInv, Typed
  <2>4. \A s \in Turns : Good(msgs, turn[s])' /\ Rescued(s)'
    BY <1>1, <1>2, <2>3 DEF ChatInv, Rescued
  <2>5. ASSUME NEW s \in Turns, Holding(s)' PROVE holder' = s
    <3>1. CASE s = t
      BY <1>2, <2>3, <2>5, <3>1 DEF Holding
    <3>2. CASE s # t
      <4>1. Holding(s) /\ holder = s
        BY <2>3, <2>5, <3>2 DEF Holding, ChatInv
      <4> QED
        BY <1>2, <3>2, <4>1, TurnsNamed
    <3> QED
      BY <3>1, <3>2
  <2> QED
    BY <1>0, <1>1, <2>1, <2>2, <2>4, <2>5 DEF ChatInv
<1>3. CASE RescueLock(t)
  <2>1. rescue[t] = "owed" /\ holder = None /\ Question(msgs, c.asked)
    BY <1>3 DEF RescueLock, ChatInv, Rescued
  <2>2. CASE exists
    <3> DEFINE r == [c EXCEPT !.slot = Cardinality(Children(c.asked))]
    <3>1. Cardinality(Children(c.asked)) \in Nat
      BY Siblings DEF ChatInv
    <3>2. r \in Turn /\ r.pc = "over" /\ r.asked = c.asked
          /\ r.slot = Cardinality(Kids(msgs, c.asked))
      BY <1>0, <3>1, ChildrenKids DEF Turn
    <3>3. Good(msgs, r)
      BY <1>0, <3>1 DEF Turn, Good, Placed, Told, Paid, Counted, OfKind
    <3>4. /\ turn' = [turn EXCEPT ![t] = r] /\ rescue' = [rescue EXCEPT ![t] = "counted"]
          /\ holder' = t
      BY <1>3, <2>2 DEF RescueLock
    <3> HIDE DEF r
    <3> QED
      BY <1>2, <2>1, <3>2, <3>3, <3>4 DEF RescueSteps
  <2>3. CASE ~exists
    BY <1>0, <1>2, <1>3, <2>3 DEF RescueLock, RescueSteps
  <2> QED
    BY <2>2, <2>3
<1>4. CASE RescueMeter(t)
  <2>1. turn' = [turn EXCEPT ![t] = c]
    BY <1>4 DEF RescueMeter, ChatInv, Typed
  <2> QED
    BY <1>0, <1>2, <1>4, <2>1 DEF RescueMeter, RescueSteps
<1>5. CASE RescueDies(t)
  BY <1>0, <1>2, <1>5 DEF RescueDies, RescueSteps
<1> QED
  BY <1>3, <1>4, <1>5

-----------------------------------------------------------------------------
\* The openings of a chat satisfy the invariant.
LEMMA ChatInit == Init => ChatInv
<1> SUFFICES ASSUME Init PROVE ChatInv
  OBVIOUS
<1>1. msgs \in Openings /\ memory = NoMemory /\ holder = None
      /\ turn = [s \in Turns |-> NewTurn] /\ rescue = [s \in Turns |-> "none"] /\ exists = TRUE
  BY DEF Init
<1> DEFINE first == Said(0, "user", None)
           second == Said(1, "assistant", None)
<1>2. /\ first \in Message /\ first.parent = 0 /\ first.role = "user" /\ first.index = 0
      /\ second \in Message /\ second.parent = 1 /\ second.role = "assistant"
      /\ second.index = 0
  BY DEF Said, Message
<1>3. msgs = <<>> \/ msgs = <<first>> \/ msgs = <<first, second>>
  BY <1>1 DEF Openings
<1> HIDE DEF first, second
<1>4. Rooted(msgs)
  <2>1. CASE msgs = <<>>
    BY <2>1 DEF Rooted
  <2>2. CASE msgs = <<first>>
    <3>1. Len(msgs) = 1 /\ msgs[1] = first /\ msgs \in Seq(Message)
      BY <1>2, <2>2
    <3> QED
      BY <1>2, <3>1 DEF Rooted
  <2>3. CASE msgs = <<first, second>>
    <3>1. /\ Len(msgs) = 2 /\ msgs[1] = first /\ msgs[2] = second
          /\ msgs \in Seq(Message)
      BY <1>2, <2>3
    <3> QED
      BY <1>2, <3>1 DEF Rooted
  <2> QED
    BY <1>3, <2>1, <2>2, <2>3
<1>5. WellFormed(msgs)
  <2>1. CASE msgs = <<>>
    BY <2>1 DEF WellFormed
  <2>2. CASE msgs = <<first>>
    <3>1. DOMAIN msgs = {1} /\ msgs[1] = first
      BY <2>2
    <3>2. Kids(msgs, 0) = {1} /\ Cardinality(Kids(msgs, 0)) = 1
      <4>1. Kids(msgs, 0) = {1}
        BY <1>2, <3>1 DEF Kids
      <4> QED
        BY <4>1, FS_Singleton
    <3> QED
      BY <1>2, <3>1, <3>2 DEF WellFormed, None
  <2>3. CASE msgs = <<first, second>>
    <3>1. DOMAIN msgs = {1, 2} /\ msgs[1] = first /\ msgs[2] = second
      BY <2>3
    <3>2. Kids(msgs, 0) = {1} /\ Cardinality(Kids(msgs, 0)) = 1
      <4>1. Kids(msgs, 0) = {1}
        BY <1>2, <3>1 DEF Kids
      <4> QED
        BY <4>1, FS_Singleton
    <3>3. Kids(msgs, 1) = {2} /\ Cardinality(Kids(msgs, 1)) = 1
      <4>1. Kids(msgs, 1) = {2}
        BY <1>2, <3>1 DEF Kids
      <4> QED
        BY <4>1, FS_Singleton
    <3> QED
      BY <1>2, <3>1, <3>2, <3>3 DEF WellFormed, None
  <2> QED
    BY <1>3, <2>1, <2>2, <2>3
<1>6. Tells(msgs, memory) /\ memory \in Memory
  BY <1>1, <1>4, UpRec DEF NoMemory, Memory, Tells, None, Rooted
<1>7. Typed
  <2>1. MaxSteps \in Nat /\ NewTurn \in Turn
    BY <1>6, <1>1, ChatAssumption DEF NewTurn, Turn, Routes, None
  <2> QED
    BY <1>1, <1>4, <1>6, <2>1 DEF Typed, RescueSteps
<1>8. \A t \in Turns : Good(msgs, turn[t]) /\ ~Holding(t) /\ Rescued(t)
  BY <1>1, <1>7, NewGood DEF Holding, Rescued, NewTurn
<1> QED
  BY <1>5, <1>6, <1>7, <1>8, TreeIs DEF ChatInv

\* Every step keeps it.
LEMMA ChatNext == ChatInv /\ [Next]_vars => ChatInv'
<1> SUFFICES ASSUME ChatInv, [Next]_vars PROVE ChatInv'
  OBVIOUS
<1>1. ASSUME NEW t \in Turns, Ask(t) PROVE ChatInv'
  BY <1>1, AskNext, InsertUserNext DEF Ask
<1>2. ASSUME NEW t \in Turns, Rescue(t) \/ RescueDies(t) PROVE ChatInv'
  BY <1>2, RescueNext, RescueStoreNext DEF Rescue
<1>3. ASSUME UNCHANGED <<msgs, memory, holder, turn, rescue>>, exists' \in BOOLEAN PROVE ChatInv'
  <2>1. TreeWellFormed'
    BY <1>3, TreeIs, Zenon DEF ChatInv
  <2> QED
    BY <1>3, <2>1 DEF ChatInv, Typed, Holding, Rescued
<1>4. CASE DeleteChat
  BY <1>3, <1>4 DEF DeleteChat
<1>5. CASE UNCHANGED vars
  BY <1>3, <1>5 DEF vars, ChatInv, Typed
<1> QED
  BY <1>1, <1>2, <1>4, <1>5, GatherNext, AssembleNext, ReplyNext, EndNext DEF Next

\* So it holds throughout.
LEMMA ChatAlways == Spec => []ChatInv
BY ChatInit, ChatNext, PTL DEF Spec

\* However sends, edits, answers and detached tasks interleave, roots are user messages,
\* roles alternate and siblings are numbered without gap or repetition: the count that
\* add_message takes behind the lock of the chat is still right when it inserts.
THEOREM TreeAlwaysWellFormed == Spec => []TreeWellFormed
<1>1. ChatInv => TreeWellFormed
  BY DEF ChatInv
<1> QED
  BY <1>1, ChatAlways, PTL

\* Whatever stale copies of the chat the turns fold from, the stored summary was asked
\* to tell of exactly the path that ends at its anchor (_assemble_history).
THEOREM SummaryAlwaysMatches == Spec => []SummaryMatchesAnchor
<1>1. ChatInv => SummaryMatchesAnchor
  BY PathUp, UpRec DEF ChatInv, Typed, Tells, SummaryMatchesAnchor
<1> QED
  BY <1>1, ChatAlways, PTL

\* The prompt of every turn is the whole path above its question and nothing else,
\* whether it was recalled or summarised, at any length of chat and any Keep and Trigger
\* (summarised as far as the folds' replies were readable).
THEOREM PromptIsAlwaysPath == Spec => []PromptIsPath
<1>1. ChatInv => PromptIsPath
  BY PathUp DEF ChatInv, Good, Told, PromptIsPath, At, Ancestors
<1> QED
  BY <1>1, ChatAlways, PTL

\* A turn that reaches its done frame has every call whose usage it was told in the
\* ledger, but the one that draws blocks, on each route and for any number of planner
\* steps.
THEOREM SpendAlwaysOnRecord == Spec => []SpendOnRecord
<1>1. ChatInv => SpendOnRecord
  BY DEF ChatInv, Good, Paid, SpendOnRecord, At
<1> QED
  BY <1>1, ChatAlways, PTL

\* The types: parents precede their children, and what is staged or carried is owed.
THEOREM TypeCorrect == Spec => []TypeOK
<1>1. ASSUME ChatInv PROVE TypeOK
  <2>1. Len(msgs) \in Nat /\ DOMAIN msgs = 1..Len(msgs) /\ Rooted(msgs)
    BY <1>1 DEF ChatInv, Typed, Rooted
  <2>2. \A m \in DOMAIN msgs : msgs[m].parent \in 0..(m - 1) /\ msgs[m].by \in Turns \union {None}
    <3>1. \A m \in 1..Len(msgs) : msgs[m] \in Message
      BY <2>1 DEF Rooted
    <3> QED
      BY <2>1, <3>1, UpRec DEF Message
  <2>3. memory.upto \in 0..Len(msgs) /\ memory.covers \subseteq DOMAIN msgs
    BY <1>1, <2>1, UpBelow DEF ChatInv, Tells
  <2>4. \A t \in Turns :
          /\ turn[t].pc \in Before \union Gathering \union Replying \union {"over"}
          /\ turn[t].route \in Routes
          /\ turn[t].owing \subseteq Spends
          /\ turn[t].staged \union turn[t].carried \union turn[t].usage \subseteq turn[t].owing
          /\ rescue[t] \in {"none", "owed", "counted", "kept", "metered", "lost"}
    BY <1>1 DEF ChatInv, Typed, Turn, RescueSteps, Good, Counted
  <2> QED
    BY <1>1, <2>2, <2>3, <2>4 DEF TypeOK, ChatInv, Typed
<1> QED
  BY <1>1, ChatAlways, PTL

\* active_leaf is defined in every state: a chat with messages has a childless one with
\* the newest sibling at every branch of its path.
ActiveLeaf ==
    msgs # <<>> => \E m \in DOMAIN msgs : Children(m) = {} /\ \A n \in Path(m) : Newest(n)

\* The CHOOSE of Leaf always has something to choose.
THEOREM ActiveLeafAlways == Spec => []ActiveLeaf
<1>1. ChatInv => ActiveLeaf
  BY LeafExists DEF ChatInv, ActiveLeaf
<1> QED
  BY <1>1, ChatAlways, PTL
-----------------------------------------------------------------------------
(***************************************************************************)
(* What administrators read of the answers: Reviews, for any messages,     *)
(* requests, audit events, kills of the worker and size of a page.  The    *)
(* invariant says of the store that whoever has flushed a rating is alone  *)
(* with its message; of the reader that a row which was shown is never     *)
(* made again with an earlier time (Settled), so that it cannot come after *)
(* the cursor; and that what was there all the time has been shown or lies *)
(* after the cursor.                                                       *)
(***************************************************************************)
CONSTANTS Messages, ChatOf, OrgOf, Mine, Org, Sound, Events, OrgOfEvent, Requests, Replies,
          PageSize, MaxDeaths, MaxTime

VARIABLES clock, live, feedback, scores, auditing, deaths, metered, events, flushed, task, reader

Reviewing == INSTANCE Reviews

\* Ids are numbers, and a page has room for a row.
ReviewBounds ==
    /\ Messages \subseteq Int /\ IsFiniteSet(Messages) /\ Events \subseteq Int /\ IsFiniteSet(Events)
    /\ PageSize \in Nat \ {0} /\ MaxTime \in Nat /\ MaxDeaths \in Nat

\* The key of a row: when it was made, and its id.
Key == Int \X Int

\* A key by its parts.
LEMMA KeyParts ==
  ASSUME NEW k \in Key
  PROVE  k[1] \in Int /\ k[2] \in Int /\ k = <<k[1], k[2]>>
BY DEF Key

\* A cursor is a key or nothing, which is none.
LEMMA KeyNotEmpty == \A k \in Key : k # <<>>
BY DEF Key

\* Keys are totally ordered.
LEMMA KeyOrder ==
  ASSUME NEW k \in Key, NEW l \in Key
  PROVE  /\ ~Reviewing!Before(k, k)
         /\ Reviewing!Before(k, l) => ~Reviewing!Before(l, k) /\ k # l
         /\ k # l => Reviewing!Before(k, l) \/ Reviewing!Before(l, k)
         /\ \A m \in Key : Reviewing!Before(k, l) /\ Reviewing!Before(l, m)
                              => Reviewing!Before(k, m)
<1>1. /\ k[1] \in Int /\ k[2] \in Int /\ k = <<k[1], k[2]>>
      /\ l[1] \in Int /\ l[2] \in Int /\ l = <<l[1], l[2]>>
  BY KeyParts
<1>2. k[1] = l[1] /\ k[2] = l[2] => k = l
  BY <1>1
<1>3. /\ ~Reviewing!Before(k, k)
      /\ Reviewing!Before(k, l) => ~Reviewing!Before(l, k)
      /\ k # l => Reviewing!Before(k, l) \/ Reviewing!Before(l, k)
  BY <1>1, <1>2 DEF Reviewing!Before
<1>4. ASSUME NEW m \in Key, Reviewing!Before(k, l), Reviewing!Before(l, m)
      PROVE  Reviewing!Before(k, m)
  <2>1. m[1] \in Int /\ m[2] \in Int
    BY KeyParts
  <2> QED
    BY <1>1, <1>4, <2>1 DEF Reviewing!Before
<1> QED
  BY <1>3, <1>4

\* The later keys first, and the keys in a sequence.
Sorted(s) == \A i, j \in DOMAIN s : i < j => Reviewing!Before(s[j], s[i])
Rows(s) == {s[i] : i \in DOMAIN s}

\* Where each member of a finite set has a set of those before it, and these sets grow along
\* the order, the sequence that picks members by how many are before them lists them all.
LEMMA RanksSort ==
  ASSUME NEW S, IsFiniteSet(S), NEW B \in [S -> SUBSET S],
         \A k \in S : k \notin B[k],
         \A k, l \in S : l \in B[k] => B[l] \subseteq B[k],
         \A k, l \in S : k # l => k \in B[l] \/ l \in B[k],
         NEW T, NEW s \in [1..Cardinality(S) -> T],
         \A i \in 1..Cardinality(S) : (\E k \in S : Cardinality(B[k]) = i - 1)
                                          => s[i] \in S /\ Cardinality(B[s[i]]) = i - 1
  PROVE  /\ s \in Seq(S) /\ Len(s) = Cardinality(S) /\ DOMAIN s = 1..Cardinality(S)
         /\ Rows(s) = S
         /\ \A i, j \in DOMAIN s : i < j => s[i] \in B[s[j]]
<1> DEFINE n == Cardinality(S)
           R(k) == Cardinality(B[k])
           f == [k \in S |-> R(k) + 1]
<1>1. n \in Nat /\ \A D \in SUBSET S : IsFiniteSet(D) /\ Cardinality(D) \in Nat
  BY FS_CardinalityType, FS_Subset
<1>2. ASSUME NEW k \in S PROVE R(k) \in Nat /\ R(k) < n
  <2>1. B[k] \in SUBSET S /\ k \notin B[k]
    OBVIOUS
  <2>2. Cardinality(B[k]) # Cardinality(S)
    BY <2>1, FS_Subset
  <2>3. Cardinality(B[k]) <= Cardinality(S)
    BY <2>1, FS_Subset
  <2> QED
    BY <1>1, <2>1, <2>2, <2>3
<1>3. ASSUME NEW k \in S, NEW l \in S, l \in B[k] PROVE R(l) < R(k)
  <2> DEFINE A == B[k]
             C == B[l]
  <2>1. C \subseteq A /\ l \in A /\ l \notin C
    BY <1>3
  <2>2. IsFiniteSet(A) /\ Cardinality(A) \in Nat /\ Cardinality(C) \in Nat
    BY <1>1
  <2> HIDE DEF A, C
  <2>3. Cardinality(C) <= Cardinality(A) /\ Cardinality(A) # Cardinality(C)
    BY <2>1, <2>2, FS_Subset
  <2>4. Cardinality(C) < Cardinality(A)
    BY <2>2, <2>3
  <2> QED
    BY <2>4 DEF A, C
<1>4. \A k, l \in S : R(k) = R(l) => k = l
  <2> SUFFICES ASSUME NEW k \in S, NEW l \in S, k # l PROVE R(k) # R(l)
    OBVIOUS
  <2>1. l \in B[k] \/ k \in B[l]
    OBVIOUS
  <2>2. R(k) \in Nat /\ R(l) \in Nat
    BY <1>2
  <2>3. R(l) < R(k) \/ R(k) < R(l)
    BY <1>3, <2>1
  <2> HIDE DEF R
  <2> QED
    BY <2>2, <2>3
<1> HIDE DEF R
<1>5. f \in Injection(S, 1..n)
  <2>1. f \in [S -> 1..n]
    <3> SUFFICES ASSUME NEW k \in S PROVE R(k) + 1 \in 1..n
      OBVIOUS
    <3> QED
      BY <1>1, <1>2
  <2>2. \A k, l \in S : f[k] = f[l] => k = l
    <3> SUFFICES ASSUME NEW k \in S, NEW l \in S, f[k] = f[l] PROVE k = l
      OBVIOUS
    <3>1. R(k) \in Nat /\ R(l) \in Nat
      BY <1>2
    <3> QED
      BY <1>4, <3>1
  <2> QED
    BY <2>1, <2>2 DEF Injection, IsInjective
<1>6. f \in Surjection(S, 1..n)
  <2>1. IsFiniteSet(1..n) /\ Cardinality(1..n) = n
    BY <1>1, FS_Interval
  <2> HIDE DEF f
  <2> QED
    BY <1>5, <2>1, FS_Injection
<1>7. ASSUME NEW i \in 1..n PROVE \E k \in S : R(k) = i - 1
  <2>1. PICK k \in S : f[k] = i
    <3> HIDE DEF f
    <3> QED
      BY <1>6 DEF Surjection
  <2>2. R(k) \in Nat
    BY <1>2
  <2> QED
    BY <2>1, <2>2
<1>8. \A i \in 1..n : s[i] \in S /\ R(s[i]) = i - 1
  BY <1>7 DEF R
<1>9. DOMAIN s = 1..n
  OBVIOUS
<1>10. s \in Seq(S) /\ Len(s) = n
  <2>1. s \in [1..n -> S]
    BY <1>8
  <2> HIDE DEF n
  <2> QED
    BY <1>1, <2>1
<1>11. Rows(s) = S
  <2>1. ASSUME NEW k \in S PROVE \E i \in 1..n : s[i] = k
    <3>1. R(k) \in Nat /\ R(k) < n
      BY <1>2
    <3>2. R(k) + 1 \in 1..n /\ (R(k) + 1) - 1 = R(k)
      BY <1>1, <3>1
    <3>3. s[R(k) + 1] \in S /\ R(s[R(k) + 1]) = R(k)
      BY <1>8, <3>2
    <3> QED
      BY <1>4, <3>2, <3>3
  <2> QED
    BY <1>8, <1>9, <2>1 DEF Rows
<1>12. ASSUME NEW i \in 1..n, NEW j \in 1..n, i < j PROVE s[i] \in B[s[j]]
  <2>1. s[i] \in S /\ s[j] \in S /\ R(s[i]) = i - 1 /\ R(s[j]) = j - 1
    BY <1>8
  <2>2. R(s[i]) < R(s[j])
    BY <1>1, <1>12, <2>1
  <2>3. s[i] # s[j] /\ s[j] \notin B[s[i]]
    BY <1>1, <1>3, <2>1, <2>2
  <2> QED
    BY <2>1, <2>3
<1> QED
  BY <1>9, <1>10, <1>11, <1>12

\* What Newest makes of finitely many keys is a sequence of them all, in their order.
LEMMA NewestSorts ==
  ASSUME NEW S, S \subseteq Key, IsFiniteSet(S)
  PROVE  /\ Reviewing!Newest(S) \in Seq(S) /\ Len(Reviewing!Newest(S)) = Cardinality(S)
         /\ Rows(Reviewing!Newest(S)) = S /\ Sorted(Reviewing!Newest(S))
<1> DEFINE s == Reviewing!Newest(S)
<1>1. PICK B : B = [k \in S |-> Reviewing!NewerThan(S, k)]
  OBVIOUS
<1>2. B \in [S -> SUBSET S] /\ \A k, l \in S : l \in B[k] <=> Reviewing!Before(k, l)
  BY <1>1 DEF Reviewing!NewerThan
<1>3. /\ \A k \in S : k \notin B[k]
      /\ \A k, l \in S : l \in B[k] => B[l] \subseteq B[k]
      /\ \A k, l \in S : k # l => k \in B[l] \/ l \in B[k]
  <2>1. ASSUME NEW k \in S, NEW l \in S, l \in B[k] PROVE B[l] \subseteq B[k]
    <3> SUFFICES ASSUME NEW m \in B[l] PROVE m \in B[k]
      OBVIOUS
    <3>1. m \in S /\ Reviewing!Before(k, l) /\ Reviewing!Before(l, m)
      BY <1>2, <2>1
    <3> QED
      BY <1>2, <3>1, KeyOrder
  <2> QED
    BY <1>2, <2>1, KeyOrder
<1>4. s = [i \in 1..Cardinality(S) |-> CHOOSE k \in S : Cardinality(Reviewing!NewerThan(S, k)) = i - 1]
  BY DEF Reviewing!Newest, Reviewing!Cardinality, Cardinality
<1>5. ASSUME NEW i \in 1..Cardinality(S), NEW k \in S, Cardinality(B[k]) = i - 1
      PROVE  s[i] \in S /\ Cardinality(B[s[i]]) = i - 1
  <2>1. s[i] = CHOOSE l \in S : Cardinality(Reviewing!NewerThan(S, l)) = i - 1
    BY <1>4, Zenon
  <2>2. Cardinality(Reviewing!NewerThan(S, k)) = i - 1
    BY <1>1, <1>5
  <2>3. s[i] \in S /\ Cardinality(Reviewing!NewerThan(S, s[i])) = i - 1
    BY <2>1, <2>2, Zenon
  <2> QED
    BY <1>1, <2>3
<1>6. s \in [1..Cardinality(S) -> Rows(s)]
  BY <1>4 DEF Rows
<1> HIDE DEF s
<1>7. /\ s \in Seq(S) /\ Len(s) = Cardinality(S) /\ DOMAIN s = 1..Cardinality(S)
      /\ Rows(s) = S /\ \A i, j \in DOMAIN s : i < j => s[i] \in B[s[j]]
  <2>1. \A i \in 1..Cardinality(S) : (\E k \in S : Cardinality(B[k]) = i - 1)
                                         => s[i] \in S /\ Cardinality(B[s[i]]) = i - 1
    BY <1>5
  <2> QED
    BY <1>2, <1>3, <1>6, <2>1, RanksSort
<1>8. Sorted(s)
  BY <1>2, <1>7 DEF Sorted
<1> QED
  BY <1>7, <1>8 DEF s

Votes == [rating : {"up", "down"}, at : Nat]
Rater == [pc : {"idle", "insert", "flushed", "update", "clear", "done"}, message : Int,
          rating : {"up", "down", "none"}, at : Nat]
ReaderState == [pc : {"idle", "reading", "done"}, table : {"none", "feedback", "audit"},
                rating : {"none", "up", "down"}, cursor : Key \union {<<>>},
                shown : Seq(Key), steady : SUBSET Key, quiet : BOOLEAN]

\* Whoever has flushed a rating is the only one for its message, which has none.
Rates(r) ==
    /\ r.pc \notin {"idle", "done"} => r.message \in Messages
    /\ r.pc \in {"insert", "flushed", "update"} => r.rating \in {"up", "down"}
    /\ r.pc = "flushed" => r.message \notin DOMAIN feedback /\ r.at <= clock

StoreInv ==
    /\ clock \in Nat
    /\ DOMAIN feedback \subseteq Messages /\ feedback \in [DOMAIN feedback -> Votes]
    /\ \A m \in DOMAIN feedback : feedback[m].at <= clock
    /\ DOMAIN events \subseteq Events /\ events \in [DOMAIN events -> 0..clock]
    /\ DOMAIN flushed \subseteq Events /\ flushed \in [DOMAIN flushed -> 0..clock]
    /\ DOMAIN events \intersect DOMAIN flushed = {}
    /\ task \in [Requests -> Rater] /\ \A r \in Requests : Rates(task[r])
    /\ \A q, r \in Requests :
          task[q].pc = "flushed" /\ task[r].pc = "flushed" /\ task[q].message = task[r].message
          => q = r

\* An answer that has scores was paid for, once and again for each death.
AuditInv ==
    /\ deaths \in Nat /\ metered \in [Sound -> Nat] /\ DOMAIN scores \subseteq Sound
    /\ auditing \in [Sound -> {"queued", "judging", "committed", "done"}]
    /\ \A m \in DOMAIN scores : metered[m] >= 1
    /\ \A m \in Sound : /\ metered[m] <= deaths + 1
                        /\ auditing[m] \in {"queued", "judging"} => metered[m] <= deaths

\* The rows of the table that is read; those the pages have shown, and those to come.
Current == Reviewing!Keys(reader.table, reader.rating)
Shown == Rows(reader.shown)
Left == IF reader.pc = "done" THEN {} ELSE Reviewing!AfterCursor(Current, reader.cursor)

\* A row that was shown is not made again with an earlier time.
Settled(k) ==
    IF reader.table = "audit" THEN k[2] \in DOMAIN events /\ k[1] = events[k[2]]
    ELSE /\ k[1] <= clock
         /\ k[2] \in DOMAIN feedback => k[1] <= feedback[k[2]].at
         /\ \A r \in Requests :
               task[r].pc = "flushed" /\ task[r].message = k[2] => k[1] <= task[r].at

ReaderInv ==
    /\ reader \in ReaderState
    /\ reader.pc = "idle" => reader.shown = <<>> /\ reader.steady = {}
    /\ reader.pc # "idle" => reader.table # "none"
    /\ Sorted(reader.shown)
    /\ \A i, j \in DOMAIN reader.shown : i # j => reader.shown[i][2] # reader.shown[j][2]
    /\ reader.pc = "reading" =>
          IF reader.cursor = <<>> THEN reader.shown = <<>>
          ELSE reader.shown # <<>> /\ reader.cursor = reader.shown[Len(reader.shown)]
    /\ \A k \in Shown : Settled(k)
    /\ reader.steady \subseteq Current /\ reader.steady \subseteq Shown \union Left
    /\ reader.pc # "idle" /\ reader.quiet => Current = Shown \union Left

ReviewInv == StoreInv /\ AuditInv /\ ReaderInv

\* The rows of a table are finitely many keys.
LEMMA CurrentRows ==
  ASSUME ReviewBounds, StoreInv, NEW t, NEW v
  PROVE  Reviewing!Keys(t, v) \subseteq Key /\ IsFiniteSet(Reviewing!Keys(t, v))
<1>1. Reviewing!Keys(t, v) \subseteq (0..clock) \X (Messages \union Events)
  BY DEF Reviewing!Keys, Reviewing!FeedbackKeys, Reviewing!EventKeys, StoreInv, Votes
<1>2. (0..clock) \X (Messages \union Events) \subseteq Key
  BY DEF Key, ReviewBounds, StoreInv
<1>3. IsFiniteSet((0..clock) \X (Messages \union Events))
  <2>1. IsFiniteSet(0..clock)
    <3>1. 0 \in Int /\ clock \in Int
      BY DEF StoreInv
    <3> QED
      BY <3>1, FS_Interval
  <2>2. IsFiniteSet(Messages \union Events)
    BY FS_Union DEF ReviewBounds
  <2> QED
    BY <2>1, <2>2, FS_Product
<1> QED
  BY <1>1, <1>2, <1>3, FS_Subset

\* Who flushes a rating does so now.
FlushesNow ==
    \A r \in Requests : task'[r].pc = "flushed" =>
        \/ /\ task[r].pc = "flushed" /\ task'[r].message = task[r].message
           /\ task'[r].at = task[r].at
        \/ clock <= task'[r].at

\* Where the tables and the reader stay, and time does not go back.
LEMMA ReaderWaits ==
  ASSUME StoreInv, StoreInv', ReaderInv, UNCHANGED <<feedback, events, reader>>, clock <= clock',
         FlushesNow
  PROVE  ReaderInv'
<1>1. Current' = Current /\ Shown' = Shown
  BY DEF Current, Shown, Rows, Reviewing!Keys, Reviewing!FeedbackKeys, Reviewing!EventKeys
<1>2. Left' = Left
  BY <1>1 DEF Left, Reviewing!AfterCursor, Reviewing!Before
<1>3. ASSUME NEW k \in Shown PROVE Settled(k)'
  <2>1. k[1] \in Int /\ k[2] \in Int
    <3>1. k \in Key
      BY DEF ReaderInv, ReaderState, Shown, Rows
    <3> QED
      BY <3>1, KeyParts
  <2>2. Settled(k)
    BY DEF ReaderInv
  <2>3. clock \in Nat /\ clock' \in Nat /\ \A r \in Requests : task'[r].at \in Nat
    BY DEF StoreInv, Rater
  <2>4. k[1] <= clock => \A r \in Requests : clock <= task'[r].at => k[1] <= task'[r].at
    BY <2>1, <2>3
  <2>5. CASE reader.table = "audit"
    BY <2>2, <2>5 DEF Settled
  <2>6. CASE reader.table # "audit"
    <3>1. k[1] <= clock'
      BY <2>1, <2>2, <2>3, <2>6 DEF Settled
    <3>2. ASSUME NEW r \in Requests, task'[r].pc = "flushed", task'[r].message = k[2]
          PROVE  k[1] <= task'[r].at
      BY <2>2, <2>4, <2>6, <3>2 DEF Settled, FlushesNow
    <3> QED
      BY <2>2, <2>6, <3>1, <3>2 DEF Settled
  <2> QED
    BY <2>5, <2>6
<1>4. Sorted(reader.shown)'
  BY DEF ReaderInv, Sorted, Reviewing!Before
<1> QED
  BY <1>1, <1>2, <1>3, <1>4 DEF ReaderInv

\* What Changed does to the reader.
LEMMA ChangedDoes ==
  ASSUME ReaderInv, Reviewing!Changed
  PROVE  /\ reader' \in ReaderState
         /\ reader'.pc = reader.pc /\ reader'.table = reader.table /\ reader'.rating = reader.rating
         /\ reader'.cursor = reader.cursor /\ reader'.shown = reader.shown
         /\ reader'.quiet <=> reader.quiet /\ reader.table = "audit"
         /\ \A k : k \in reader'.steady <=>
               /\ k \in reader.steady
               /\ \/ reader.table = "audit"
                  \/ /\ k[2] \in DOMAIN feedback' /\ feedback'[k[2]].at = k[1]
                     /\ reader.rating \in {"none", feedback'[k[2]].rating}
<1>1. PICK r : r = reader
  OBVIOUS
<1>2. PICK S : S = {k \in r.steady : \/ r.table = "audit"
                                     \/ /\ k[2] \in DOMAIN feedback' /\ feedback'[k[2]].at = k[1]
                                        /\ r.rating \in {"none", feedback'[k[2]].rating}}
  OBVIOUS
<1>3. PICK b : b = (r.quiet /\ r.table = "audit")
  OBVIOUS
<1>4. reader' = [r EXCEPT !.steady = S, !.quiet = b]
  BY <1>1, <1>2, <1>3 DEF Reviewing!Changed, Reviewing!None
<1>5. r \in ReaderState /\ S \in SUBSET Key /\ b \in BOOLEAN
  BY <1>1, <1>2, <1>3 DEF ReaderInv, ReaderState
<1>6. /\ reader' \in ReaderState
      /\ reader'.pc = r.pc /\ reader'.table = r.table /\ reader'.rating = r.rating
      /\ reader'.cursor = r.cursor /\ reader'.shown = r.shown
      /\ reader'.quiet = b /\ reader'.steady = S
  BY <1>4, <1>5 DEF ReaderState
<1> QED
  BY <1>1, <1>2, <1>3, <1>6

\* Ratings change, and the rows that are made carry the time of their flush.
LEMMA VotesChange ==
  ASSUME StoreInv, StoreInv', ReaderInv, Reviewing!Changed, UNCHANGED <<clock, events>>,
         \A r \in Requests : task'[r].pc = "flushed" =>
            task[r].pc = "flushed" /\ task'[r].message = task[r].message /\ task'[r].at = task[r].at,
         \A m \in DOMAIN feedback' :
            \/ m \in DOMAIN feedback /\ feedback'[m].at = feedback[m].at
            \/ \E r \in Requests : /\ task[r].pc = "flushed" /\ task[r].message = m
                                   /\ feedback'[m].at = task[r].at
  PROVE  ReaderInv'
<1>1. /\ reader' \in ReaderState
      /\ reader'.pc = reader.pc /\ reader'.table = reader.table /\ reader'.rating = reader.rating
      /\ reader'.cursor = reader.cursor /\ reader'.shown = reader.shown
      /\ reader'.quiet <=> reader.quiet /\ reader.table = "audit"
      /\ \A k : k \in reader'.steady <=>
               /\ k \in reader.steady
               /\ \/ reader.table = "audit"
                  \/ /\ k[2] \in DOMAIN feedback' /\ feedback'[k[2]].at = k[1]
                     /\ reader.rating \in {"none", feedback'[k[2]].rating}
  BY ChangedDoes
<1>2. Shown' = Shown /\ Sorted(reader.shown)'
  BY <1>1 DEF Shown, Rows, ReaderInv, Sorted, Reviewing!Before
<1>3. reader.table = "audit" => Current' = Current
  BY <1>1 DEF Current, Reviewing!Keys, Reviewing!EventKeys
<1>4. ASSUME NEW k \in reader'.steady PROVE k \in Current'
  <2>1. k \in reader.steady /\ k \in Current
    BY <1>1, <1>4 DEF ReaderInv
  <2>2. CASE reader.table = "audit"
    BY <1>3, <2>1, <2>2
  <2>3. CASE reader.table # "audit"
    <3>1. reader.table = "feedback"
      <4>1. reader.pc # "idle"
        BY <2>1 DEF ReaderInv
      <4> QED
        BY <2>3, <4>1 DEF ReaderInv, ReaderState
    <3>2. PICK m \in DOMAIN feedback : /\ k = <<feedback[m].at, m>>
                                       /\ OrgOf[ChatOf[m]] = Org
      BY <2>1, <3>1 DEF Current, Reviewing!Keys, Reviewing!FeedbackKeys
    <3>3. /\ m \in DOMAIN feedback' /\ feedback'[m].at = feedback[m].at
          /\ reader.rating \in {"none", feedback'[m].rating}
      BY <1>1, <1>4, <2>3, <3>2
    <3> QED
      BY <1>1, <3>1, <3>2, <3>3
         DEF Current, Reviewing!Keys, Reviewing!FeedbackKeys, Reviewing!None
  <2> QED
    BY <2>2, <2>3
<1>5. ASSUME NEW k \in reader'.steady PROVE k \in Shown' \union Left'
  <2>1. k \in Shown \union Left
    BY <1>1, <1>5 DEF ReaderInv
  <2>2. k \in Left => k \in Left'
    BY <1>1, <1>4, <1>5 DEF Left, Reviewing!AfterCursor, Reviewing!Before
  <2> QED
    BY <1>2, <2>1, <2>2
<1>6. reader'.pc # "idle" /\ reader'.quiet => Current' = Shown' \union Left'
  <2>1. reader.table = "audit" => Left' = Left
    BY <1>1, <1>3 DEF Left, Reviewing!AfterCursor, Reviewing!Before
  <2> QED
    BY <1>1, <1>2, <1>3, <2>1 DEF ReaderInv
<1>7. ASSUME NEW k \in Shown PROVE Settled(k)'
  <2>1. Settled(k)
    BY DEF ReaderInv
  <2>2. CASE reader.table = "audit"
    BY <1>1, <2>1, <2>2 DEF Settled
  <2>3. CASE reader.table # "audit"
    BY <1>1, <2>1, <2>3 DEF Settled
  <2> QED
    BY <2>2, <2>3
<1>8. reader'.pc = "idle" => reader'.steady = {}
  BY <1>1 DEF ReaderInv
<1> QED
  BY <1>1, <1>2, <1>4, <1>5, <1>6, <1>7, <1>8 DEF ReaderInv

\* An event is committed.
LEMMA EventCommits ==
  ASSUME StoreInv, StoreInv', ReaderInv, NEW e \in Events, Reviewing!CommitAudit(e)
  PROVE  ReaderInv'
<1>1. PICK r : r = reader
  OBVIOUS
<1>2. PICK b : b = (r.quiet /\ r.table = "feedback")
  OBVIOUS
<1>3. reader' = [r EXCEPT !.quiet = b]
  BY <1>1, <1>2 DEF Reviewing!CommitAudit
<1>4. r \in ReaderState /\ b \in BOOLEAN
  BY <1>1, <1>2 DEF ReaderInv
<1>5. /\ reader' \in ReaderState
      /\ reader'.pc = r.pc /\ reader'.table = r.table /\ reader'.rating = r.rating
      /\ reader'.cursor = r.cursor /\ reader'.shown = r.shown
      /\ reader'.quiet = b /\ reader'.steady = r.steady
  BY <1>3, <1>4 DEF ReaderState
<1>6. UNCHANGED <<clock, feedback, task>>
  BY DEF Reviewing!CommitAudit
<1>7. \A d \in DOMAIN events : d \in DOMAIN events' /\ events'[d] = events[d]
  BY DEF Reviewing!CommitAudit, StoreInv
<1>8. Shown' = Shown /\ Sorted(reader.shown)'
  BY <1>1, <1>5 DEF Shown, Rows, ReaderInv, Sorted, Reviewing!Before
<1>9. Current \subseteq Current' /\ (reader.table = "feedback" => Current' = Current)
  BY <1>1, <1>5, <1>6, <1>7 DEF Current, Reviewing!Keys, Reviewing!FeedbackKeys, Reviewing!EventKeys
<1>10. Left \subseteq Left' /\ (reader.table = "feedback" => Left' = Left)
  BY <1>1, <1>5, <1>9 DEF Left, Reviewing!AfterCursor, Reviewing!Before
<1>11. ASSUME NEW k \in Shown PROVE Settled(k)'
  <2>1. Settled(k)
    BY DEF ReaderInv
  <2> QED
    BY <1>1, <1>5, <1>6, <1>7, <2>1 DEF Settled
<1>12. reader'.pc # "idle" /\ reader'.quiet => Current' = Shown' \union Left'
  BY <1>1, <1>2, <1>5, <1>8, <1>9, <1>10 DEF ReaderInv
<1> QED
  BY <1>1, <1>5, <1>8, <1>9, <1>10, <1>11, <1>12 DEF ReaderInv

\* Somebody begins to read.
LEMMA ReaderOpens ==
  ASSUME ReviewBounds, StoreInv, ReaderInv, NEW t \in {"feedback", "audit"},
         NEW v \in {"none", "up", "down"}, Reviewing!Open(t, v)
  PROVE  ReaderInv'
<1>1. PICK c : c = Reviewing!Closed
  OBVIOUS
<1>2. PICK S : S = Reviewing!Keys(t, v)
  OBVIOUS
<1>3. reader' = [c EXCEPT !.pc = "reading", !.table = t, !.rating = v, !.steady = S]
  BY <1>1, <1>2 DEF Reviewing!Open
<1>4. /\ c = [pc |-> "idle", table |-> "none", rating |-> "none", cursor |-> <<>>,
              shown |-> <<>>, steady |-> {}, quiet |-> TRUE]
      /\ S \in SUBSET Key
  BY <1>1, <1>2, CurrentRows DEF Reviewing!Closed, Reviewing!None
<1>5. <<>> \in Seq(Key)
  OBVIOUS
<1>6. /\ reader' \in ReaderState
      /\ reader'.pc = "reading" /\ reader'.table = t /\ reader'.cursor = <<>>
      /\ reader'.shown = <<>> /\ reader'.steady = S /\ reader'.rating = v
  BY <1>3, <1>4, <1>5 DEF ReaderState
<1>7. UNCHANGED <<feedback, events>>
  BY DEF Reviewing!Open
<1>8. Current' = S
  BY <1>2, <1>6, <1>7 DEF Current, Reviewing!Keys, Reviewing!FeedbackKeys, Reviewing!EventKeys
<1>9. Shown' = {} /\ Left' = S /\ DOMAIN reader'.shown = {}
  BY <1>6, <1>8 DEF Shown, Rows, Left, Reviewing!AfterCursor
<1> QED
  BY <1>6, <1>8, <1>9 DEF ReaderInv, Sorted

\* The last page, or one of PageSize rows, is what comes next in the order.
LEMMA PageDoes ==
  ASSUME ReviewBounds, StoreInv, ReaderInv, Reviewing!Turn
  PROVE  \E rows \in Seq(Left) :
            /\ reader.pc = "reading" /\ Sorted(rows)
            /\ reader' \in ReaderState
            /\ reader'.table = reader.table /\ reader'.rating = reader.rating
            /\ reader'.steady = reader.steady /\ reader'.quiet = reader.quiet
            /\ reader'.shown = reader.shown \o rows
            /\ \/ /\ reader'.pc = "reading" /\ Len(rows) > 0 /\ reader'.cursor = rows[Len(rows)]
                  /\ \A k \in Left : k \in Rows(rows) \/ Reviewing!Before(k, reader'.cursor)
               \/ reader'.pc = "done" /\ Rows(rows) = Left
<1> DEFINE found == Reviewing!Newest(Reviewing!AfterCursor(Reviewing!Keys(reader.table, reader.rating), reader.cursor))
           more == Len(found) > PageSize
           rows == IF more THEN SubSeq(found, 1, PageSize) ELSE found
<1>1. reader.pc = "reading" /\ reader \in ReaderState
  BY DEF Reviewing!Turn, ReaderInv
<1>2. Left = Reviewing!AfterCursor(Reviewing!Keys(reader.table, reader.rating), reader.cursor)
  BY <1>1 DEF Left, Current
<1>3. Left \subseteq Key /\ IsFiniteSet(Left)
  <2>1. Left \subseteq Reviewing!Keys(reader.table, reader.rating)
    BY <1>2 DEF Reviewing!AfterCursor
  <2> QED
    BY <2>1, CurrentRows, FS_Subset
<1>4. found \in Seq(Left) /\ Rows(found) = Left /\ Sorted(found)
  BY <1>2, <1>3, NewestSorts
<1>5. reader' = [reader EXCEPT !.pc = IF more THEN "reading" ELSE "done",
                               !.cursor = IF more THEN rows[Len(rows)] ELSE <<>>,
                               !.shown = @ \o rows]
  BY DEF Reviewing!Turn
<1> HIDE DEF found
<1>6. PageSize \in Nat \ {0} /\ Len(found) \in Nat /\ DOMAIN found = 1..Len(found)
  BY <1>4 DEF ReviewBounds
<1>7. rows \in Seq(Left) /\ (more => Len(rows) = PageSize /\ \A i \in 1..PageSize : rows[i] = found[i])
  <2>1. CASE more
    <3>1. found \in Seq(Left) /\ PageSize \in 1..Len(found)
      BY <1>4, <1>6, <2>1
    <3>2. /\ SubSeq(found, 1, PageSize) \in Seq(Left) /\ Len(SubSeq(found, 1, PageSize)) = PageSize
          /\ \A i \in 1..PageSize : SubSeq(found, 1, PageSize)[i] = found[i]
      BY <1>6, <3>1
    <3> QED
      BY <2>1, <3>2
  <2>2. CASE ~more
    BY <1>4, <2>2
  <2> QED
    BY <2>1, <2>2
<1>8. Sorted(rows)
  <2>1. CASE more
    <3>1. DOMAIN rows = 1..PageSize
      BY <1>7, <2>1
    <3> QED
      BY <1>4, <1>6, <1>7, <2>1, <3>1 DEF Sorted
  <2> QED
    BY <1>4, <2>1
<1>9. more => /\ Len(rows) > 0 /\ rows[Len(rows)] = found[PageSize] /\ rows[Len(rows)] \in Key
              /\ \A k \in Left : k \in Rows(rows) \/ Reviewing!Before(k, found[PageSize])
  <2> SUFFICES ASSUME more
               PROVE  /\ Len(rows) > 0 /\ rows[Len(rows)] = found[PageSize] /\ rows[Len(rows)] \in Key
                      /\ \A k \in Left : k \in Rows(rows) \/ Reviewing!Before(k, found[PageSize])
    OBVIOUS
  <2>1. PageSize \in 1..Len(found) /\ DOMAIN rows = 1..PageSize
    BY <1>6, <1>7
  <2>2. found[PageSize] \in Left
    BY <1>4, <2>1
  <2>3. ASSUME NEW k \in Left PROVE k \in Rows(rows) \/ Reviewing!Before(k, found[PageSize])
    <3>1. PICK j \in 1..Len(found) : found[j] = k
      BY <1>4, <1>6 DEF Rows
    <3>2. CASE j <= PageSize
      <4>1. j \in DOMAIN rows /\ rows[j] = k
        BY <1>7, <2>1, <3>1, <3>2
      <4> QED
        BY <4>1 DEF Rows
    <3>3. CASE PageSize < j
      BY <1>4, <1>6, <2>1, <3>1, <3>3 DEF Sorted
    <3> QED
      BY <1>6, <3>2, <3>3
  <2> QED
    BY <1>3, <1>6, <1>7, <2>1, <2>2, <2>3
<1> HIDE DEF rows, more
<1>10. rows \in Seq(Key) /\ reader.shown \in Seq(Key)
  BY <1>1, <1>3, <1>7 DEF ReaderState
<1>11. /\ reader' \in ReaderState
       /\ reader'.pc = (IF more THEN "reading" ELSE "done")
       /\ reader'.table = reader.table /\ reader'.rating = reader.rating
       /\ reader'.steady = reader.steady /\ reader'.quiet = reader.quiet
       /\ reader'.shown = reader.shown \o rows
       /\ reader'.cursor = (IF more THEN rows[Len(rows)] ELSE <<>>)
  <2>1. PICK r : r = reader
    OBVIOUS
  <2>2. PICK p : p = IF more THEN "reading" ELSE "done"
    OBVIOUS
  <2>3. PICK c : c = IF more THEN rows[Len(rows)] ELSE <<>>
    OBVIOUS
  <2>4. PICK s : s = r.shown \o rows
    OBVIOUS
  <2>5. reader' = [r EXCEPT !.pc = p, !.cursor = c, !.shown = s]
    BY <1>5, <2>1, <2>2, <2>3, <2>4
  <2>6. r \in ReaderState /\ p \in {"reading", "done"} /\ c \in Key \union {<<>>} /\ s \in Seq(Key)
    <3>1. s \in Seq(Key)
      BY <1>10, <2>1, <2>4
    <3> QED
      BY <1>1, <1>9, <2>1, <2>2, <2>3, <3>1
  <2>7. /\ reader' \in ReaderState
        /\ reader'.pc = p /\ reader'.table = r.table /\ reader'.rating = r.rating
        /\ reader'.cursor = c /\ reader'.shown = s
        /\ reader'.quiet = r.quiet /\ reader'.steady = r.steady
    BY <2>5, <2>6 DEF ReaderState
  <2> QED
    BY <2>1, <2>2, <2>3, <2>4, <2>7
<1>12. ~more => Rows(rows) = Left
  BY <1>4 DEF rows
<1> QED
  BY <1>1, <1>7, <1>8, <1>9, <1>11, <1>12

\* A page is turned.
LEMMA PageTurns ==
  ASSUME ReviewBounds, StoreInv, ReaderInv, Reviewing!Turn
  PROVE  ReaderInv'
<1>1. PICK rows \in Seq(Left) :
            /\ reader.pc = "reading" /\ Sorted(rows)
            /\ reader' \in ReaderState
            /\ reader'.table = reader.table /\ reader'.rating = reader.rating
            /\ reader'.steady = reader.steady /\ reader'.quiet = reader.quiet
            /\ reader'.shown = reader.shown \o rows
            /\ \/ /\ reader'.pc = "reading" /\ Len(rows) > 0 /\ reader'.cursor = rows[Len(rows)]
                  /\ \A k \in Left : k \in Rows(rows) \/ Reviewing!Before(k, reader'.cursor)
               \/ reader'.pc = "done" /\ Rows(rows) = Left
  BY PageDoes
<1> DEFINE n == Len(reader.shown)
           m == Len(rows)
           s == reader.shown
           t == reader'.shown
<1>2. s \in Seq(Key) /\ n \in Nat /\ m \in Nat /\ DOMAIN s = 1..n /\ DOMAIN rows = 1..m
  BY <1>1 DEF ReaderInv, ReaderState
<1>3. Left \subseteq Current /\ Current \subseteq Key
  BY CurrentRows DEF Left, Current, Reviewing!AfterCursor
<1>4. UNCHANGED <<clock, feedback, events, task>>
  BY DEF Reviewing!Turn
<1>5. Current' = Current
  BY <1>1, <1>4 DEF Current, Reviewing!Keys, Reviewing!FeedbackKeys, Reviewing!EventKeys
<1>6. /\ Len(t) = n + m /\ DOMAIN t = 1..(n + m)
      /\ \A i \in 1..n : t[i] = s[i]
      /\ \A j \in 1..m : t[n + j] = rows[j]
      /\ \A i \in (n + 1)..(n + m) : i - n \in 1..m /\ t[i] = rows[i - n]
  <2>1. t = s \o rows /\ rows \in Seq(Key)
    BY <1>1, <1>3
  <2>2. Len(t) = n + m /\ DOMAIN t = 1..(n + m) /\ \A i \in 1..n : t[i] = s[i]
    BY <1>2, <2>1
  <2>3. \A j \in 1..m : t[n + j] = rows[j]
    BY <1>2, <2>1
  <2>4. \A i \in (n + 1)..(n + m) : i - n \in 1..m /\ n + (i - n) = i
    BY <1>2
  <2> QED
    BY <2>2, <2>3, <2>4
<1>7. /\ Shown = Rows(s) /\ Shown' = Rows(t) /\ Sorted(s)
       /\ \A i, j \in 1..n : i # j => s[i][2] # s[j][2]
  BY <1>2 DEF Shown, ReaderInv
<1>8. reader.pc = "reading" /\ n > 0 => reader.cursor = s[n] /\ reader.cursor # <<>>
  BY <1>2 DEF ReaderInv
<1> HIDE DEF n, m, s, t
<1>9. Shown' = Shown \union Rows(rows)
  <2>1. ASSUME NEW k \in Shown' PROVE k \in Shown \union Rows(rows)
    <3>1. PICK i \in 1..(n + m) : t[i] = k
      BY <1>6, <1>7 DEF Rows
    <3>2. i \in 1..n \/ i \in (n + 1)..(n + m)
      BY <1>2
    <3>3. CASE i \in 1..n
      BY <1>2, <1>6, <1>7, <3>1, <3>3 DEF Rows
    <3>4. CASE i \in (n + 1)..(n + m)
      <4>1. i - n \in 1..m /\ rows[i - n] = k
        BY <1>6, <3>1, <3>4
      <4> QED
        BY <1>2, <4>1 DEF Rows
    <3> QED
      BY <3>2, <3>3, <3>4
  <2>2. ASSUME NEW k \in Shown PROVE k \in Shown'
    <3>1. PICK i \in 1..n : s[i] = k
      BY <1>2, <1>7 DEF Rows
    <3>2. i \in 1..(n + m) /\ t[i] = k
      BY <1>2, <1>6, <3>1
    <3> QED
      BY <1>6, <1>7, <3>2 DEF Rows
  <2>3. ASSUME NEW k \in Rows(rows) PROVE k \in Shown'
    <3>1. PICK j \in 1..m : rows[j] = k
      BY <1>2 DEF Rows
    <3>2. n + j \in 1..(n + m) /\ t[n + j] = k
      BY <1>2, <1>6, <3>1
    <3> QED
      BY <1>6, <1>7, <3>2 DEF Rows
  <2> QED
    BY <2>1, <2>2, <2>3
<1>10. ASSUME NEW i \in 1..n, NEW j \in 1..m PROVE Reviewing!Before(rows[j], s[i])
  <2>1. rows[j] \in Left /\ rows[j] \in Key /\ s[i] \in Key
    <3>1. \A x \in 1..m : rows[x] \in Left
      BY <1>1, <1>2
    <3> QED
      BY <1>2, <1>3, <3>1
  <2>2. n \in 1..n /\ reader.cursor # <<>> /\ reader.cursor = s[n]
    BY <1>1, <1>2, <1>8
  <2>3. Reviewing!Before(rows[j], s[n]) /\ s[n] \in Key
    BY <1>1, <1>2, <2>1, <2>2 DEF Left, Reviewing!AfterCursor
  <2>4. i = n \/ Reviewing!Before(s[n], s[i])
    BY <1>2, <1>7, <2>2 DEF Sorted
  <2> QED
    BY <2>1, <2>3, <2>4, KeyOrder
<1>11. Sorted(t)
  <2> SUFFICES ASSUME NEW i \in 1..(n + m), NEW j \in 1..(n + m), i < j
               PROVE  Reviewing!Before(t[j], t[i])
    BY <1>6 DEF Sorted
  <2>1. CASE j <= n
    <3>1. i \in 1..n /\ j \in 1..n
      BY <1>2, <2>1
    <3>2. Reviewing!Before(s[j], s[i])
      BY <1>2, <1>7, <3>1 DEF Sorted
    <3> QED
      BY <1>6, <3>1, <3>2
  <2>2. CASE i <= n /\ n < j
    <3>1. i \in 1..n /\ j \in (n + 1)..(n + m)
      BY <1>2, <2>2
    <3>2. t[i] = s[i] /\ j - n \in 1..m /\ t[j] = rows[j - n]
      BY <1>6, <3>1
    <3> QED
      BY <1>10, <3>1, <3>2
  <2>3. CASE n < i
    <3>1. i \in (n + 1)..(n + m) /\ j \in (n + 1)..(n + m) /\ i - n < j - n
      BY <1>2, <2>3
    <3>2. /\ i - n \in 1..m /\ t[i] = rows[i - n]
          /\ j - n \in 1..m /\ t[j] = rows[j - n]
      BY <1>6, <3>1
    <3>3. Reviewing!Before(rows[j - n], rows[i - n])
      BY <1>1, <1>2, <3>1, <3>2 DEF Sorted
    <3> QED
      BY <3>2, <3>3
  <2> QED
    BY <1>2, <2>1, <2>2, <2>3
<1>12. ASSUME NEW k \in Current PROVE Settled(k)
  BY <1>1, <1>3 DEF Settled, Current, Reviewing!Keys, Reviewing!FeedbackKeys, Reviewing!EventKeys,
     StoreInv, Votes, Rates, ReaderInv, ReaderState
<1>13. ASSUME NEW k \in Shown, NEW l \in Current, k[2] = l[2] PROVE ~Reviewing!Before(l, k)
  <2>1. Settled(k) /\ k[1] \in Int /\ l[1] \in Int /\ k[2] \in Int /\ l[2] \in Int
    <3>1. k \in Key /\ l \in Key
      BY <1>2, <1>3, <1>7 DEF Rows
    <3> QED
      BY <3>1, KeyParts DEF ReaderInv
  <2>2. reader.table \in {"feedback", "audit"}
    BY <1>1 DEF ReaderInv, ReaderState
  <2>3. k[1] <= l[1]
    <3>1. CASE reader.table = "audit"
      <4>1. PICK e \in DOMAIN events : l = <<events[e], e>>
        BY <3>1 DEF Current, Reviewing!Keys, Reviewing!EventKeys
      <4> QED
        BY <1>13, <2>1, <3>1, <4>1 DEF Settled
    <3>2. CASE reader.table = "feedback"
      <4>1. PICK x \in DOMAIN feedback : l = <<feedback[x].at, x>>
        BY <3>2 DEF Current, Reviewing!Keys, Reviewing!FeedbackKeys
      <4> QED
        BY <1>13, <2>1, <3>2, <4>1 DEF Settled
    <3> QED
      BY <2>2, <3>1, <3>2
  <2> QED
    BY <1>13, <2>1, <2>3 DEF Reviewing!Before
<1>14. \A i, j \in 1..m : i # j => rows[i][2] # rows[j][2]
  <2> SUFFICES ASSUME NEW i \in 1..m, NEW j \in 1..m, i < j PROVE rows[i][2] # rows[j][2]
    BY <1>2
  <2>1. rows[i] \in Current /\ rows[j] \in Current /\ Reviewing!Before(rows[j], rows[i])
    <3>1. \A x \in 1..m : rows[x] \in Left
      BY <1>1, <1>2
    <3>2. Reviewing!Before(rows[j], rows[i])
      BY <1>1, <1>2 DEF Sorted
    <3> QED
      BY <1>3, <3>1, <3>2
  <2>2. \A k, l \in Current : k[2] = l[2] => k = l
    BY DEF Current, Reviewing!Keys, Reviewing!FeedbackKeys, Reviewing!EventKeys
  <2>3. rows[i] # rows[j]
    BY <1>3, <2>1, KeyOrder
  <2> QED
    BY <2>1, <2>2, <2>3
<1>15. \A i, j \in 1..(n + m) : i # j => t[i][2] # t[j][2]
  <2> SUFFICES ASSUME NEW i \in 1..(n + m), NEW j \in 1..(n + m), i < j PROVE t[i][2] # t[j][2]
    BY <1>2
  <2>1. CASE j <= n
    <3>1. i \in 1..n /\ j \in 1..n /\ i # j
      BY <1>2, <2>1
    <3>2. s[i][2] # s[j][2]
      BY <1>7, <3>1
    <3> QED
      BY <1>6, <3>1, <3>2
  <2>2. CASE i <= n /\ n < j
    <3>1. i \in 1..n /\ j \in (n + 1)..(n + m)
      BY <1>2, <2>2
    <3>2. t[i] = s[i] /\ j - n \in 1..m /\ t[j] = rows[j - n]
      BY <1>6, <3>1
    <3>3. s[i] \in Shown
      BY <1>2, <1>7, <3>1 DEF Rows
    <3>4. rows[j - n] \in Current
      BY <1>1, <1>2, <1>3, <3>2
    <3>5. Reviewing!Before(rows[j - n], s[i])
      BY <1>10, <3>1, <3>2
    <3>6. s[i][2] # rows[j - n][2]
      BY <1>13, <3>3, <3>4, <3>5
    <3> QED
      BY <3>2, <3>6
  <2>3. CASE n < i
    <3>1. i \in (n + 1)..(n + m) /\ j \in (n + 1)..(n + m) /\ i - n # j - n
      BY <1>2, <2>3
    <3>2. /\ i - n \in 1..m /\ t[i] = rows[i - n]
          /\ j - n \in 1..m /\ t[j] = rows[j - n]
      BY <1>6, <3>1
    <3>3. rows[i - n][2] # rows[j - n][2]
      BY <1>14, <3>1, <3>2
    <3> QED
      BY <3>2, <3>3
  <2> QED
    BY <1>2, <2>1, <2>2, <2>3
<1>16. \A k \in Shown' : Settled(k)'
  <2>1. \A k \in Shown' : Settled(k)
    BY <1>1, <1>2, <1>3, <1>9, <1>12 DEF ReaderInv, Rows
  <2> QED
    BY <1>1, <1>4, <2>1 DEF Settled
<1>17. Left \subseteq Rows(rows) \union Left' /\ Left' \subseteq Current /\ Rows(rows) \subseteq Current
  <2>1. Rows(rows) \subseteq Current
    BY <1>1, <1>2, <1>3 DEF Rows
  <2>2. Left' \subseteq Current
    BY <1>5 DEF Left, Reviewing!AfterCursor
  <2>3. CASE reader'.pc = "done" /\ Rows(rows) = Left
    BY <2>1, <2>2, <2>3
  <2>4. CASE /\ reader'.pc = "reading"
             /\ \A k \in Left : k \in Rows(rows) \/ Reviewing!Before(k, reader'.cursor)
    <3>1. \A k \in Left : k \in Rows(rows) \/ k \in Left'
      BY <1>3, <1>5, <2>4 DEF Left, Reviewing!AfterCursor, Reviewing!Before
    <3> QED
      BY <2>1, <2>2, <3>1
  <2> QED
    BY <1>1, <2>3, <2>4
<1>18. reader'.pc = "reading" => t # <<>> /\ reader'.cursor = t[Len(t)] /\ reader'.cursor # <<>>
  <2> SUFFICES ASSUME reader'.pc = "reading"
               PROVE  t # <<>> /\ reader'.cursor = t[Len(t)] /\ reader'.cursor # <<>>
    OBVIOUS
  <2>1. m > 0 /\ reader'.cursor = rows[m] /\ m \in 1..m
    <3>1. m > 0 /\ reader'.cursor = rows[m]
      BY <1>1 DEF m
    <3> QED
      BY <1>2, <3>1
  <2>2. rows[m] \in Key /\ t[n + m] = rows[m]
    BY <1>1, <1>2, <1>3, <1>6, <2>1
  <2>3. rows[m] # <<>>
    BY <2>2, KeyNotEmpty
  <2> QED
    BY <1>2, <1>6, <2>1, <2>2, <2>3
<1>19. (reader.steady \subseteq Current)' /\ (reader.steady \subseteq Shown \union Left)'
  BY <1>1, <1>5, <1>9, <1>17 DEF ReaderInv
<1>20. reader'.quiet => Current' = Shown' \union Left'
  BY <1>1, <1>5, <1>9, <1>17 DEF ReaderInv
<1>21. reader'.pc # "idle" /\ reader'.table # "none" /\ reader' \in ReaderState
  BY <1>1 DEF ReaderInv
<1>22. Sorted(reader.shown)'
  BY <1>11 DEF t, Sorted, Reviewing!Before
<1>23. (\A i, j \in DOMAIN reader.shown : i # j => reader.shown[i][2] # reader.shown[j][2])'
  BY <1>6, <1>15 DEF t
<1>24. reader'.pc = "reading" => reader'.shown # <<>> /\ reader'.cursor = reader'.shown[Len(reader'.shown)]
                                 /\ reader'.cursor # <<>>
  BY <1>18 DEF t
<1> QED
  BY <1>16, <1>19, <1>20, <1>21, <1>22, <1>23, <1>24 DEF ReaderInv

\* Ratings of one request change the store.
LEMMA StoreStep ==
  ASSUME StoreInv, UNCHANGED <<clock, events, flushed>>, NEW r \in Requests, NEW u \in Rater,
         task' = [task EXCEPT ![r] = u],
         DOMAIN feedback' \subseteq Messages, feedback' \in [DOMAIN feedback' -> Votes],
         \A m \in DOMAIN feedback' : feedback'[m].at <= clock,
         \A q \in Requests : q # r /\ task[q].pc = "flushed" =>
            task[q].message \notin DOMAIN feedback' /\ (u.pc = "flushed" => task[q].message # u.message),
         u.pc \notin {"idle", "done"} => u.message \in Messages,
         u.pc \in {"insert", "flushed", "update"} => u.rating \in {"up", "down"},
         u.pc = "flushed" => u.message \notin DOMAIN feedback' /\ u.at <= clock
  PROVE  StoreInv' /\ task'[r] = u /\ \A q \in Requests : q # r => task'[q] = task[q]
<1>1. /\ task' \in [Requests -> Rater] /\ task'[r] = u
      /\ \A q \in Requests : q # r => task'[q] = task[q]
  BY DEF StoreInv
<1>2. ASSUME NEW q \in Requests PROVE Rates(task[q])'
  <2>1. CASE q = r
    BY <1>1, <2>1 DEF Rates
  <2>2. CASE q # r
    BY <1>1, <2>2 DEF Rates, StoreInv
  <2> QED
    BY <2>1, <2>2
<1>3. ASSUME NEW p \in Requests, NEW q \in Requests, task'[p].pc = "flushed", task'[q].pc = "flushed",
             task'[p].message = task'[q].message
      PROVE  p = q
  BY <1>1, <1>3 DEF StoreInv
<1> QED
  BY <1>1, <1>2, <1>3 DEF StoreInv

\* A rating is flushed where there is none, and none that was flushed.
LEMMA FlushStep ==
  ASSUME StoreInv, UNCHANGED <<clock, feedback, events, flushed>>, NEW r \in Requests,
         task' \in [Requests -> Rater], \A q \in Requests : q # r => task'[q] = task[q],
         task'[r].message \in Messages \ DOMAIN feedback, task'[r].rating \in {"up", "down"},
         task'[r].at <= clock,
         \A q \in Requests : task[q].pc = "flushed" => task[q].message # task'[r].message
  PROVE  StoreInv'
<1>1. ASSUME NEW q \in Requests PROVE Rates(task[q])'
  <2>1. CASE q = r
    BY <2>1 DEF Rates
  <2>2. CASE q # r
    BY <2>2 DEF Rates, StoreInv
  <2> QED
    BY <2>1, <2>2
<1>2. ASSUME NEW p \in Requests, NEW q \in Requests, task'[p].pc = "flushed", task'[q].pc = "flushed",
             task'[p].message = task'[q].message
      PROVE  p = q
  BY <1>2 DEF StoreInv
<1> QED
  BY <1>1, <1>2 DEF StoreInv

\* A request that is over, or does nothing.
LEMMA DoneRater ==
  ASSUME NEW u, u = [Reviewing!Idle EXCEPT !.pc = "done"]
  PROVE  u \in Rater /\ u.pc = "done"
BY DEF Reviewing!Idle, Reviewing!None, Rater

\* The steps of a user's requests.
LEMMA RatingNext ==
  ASSUME ReviewBounds, StoreInv, ReaderInv, NEW r \in Requests,
         \/ \E m \in Messages : \/ Reviewing!ClearRead(r, m)
                                \/ \E v \in Reviewing!Ratings : Reviewing!SetRead(r, m, v)
         \/ Reviewing!SetFlush(r) \/ Reviewing!SetInsert(r) \/ Reviewing!SetUpdate(r)
         \/ Reviewing!ClearCommit(r)
  PROVE  StoreInv' /\ ReaderInv'
<1> DEFINE w == task[r]
<1>1. /\ w \in Rater /\ Rates(w) /\ clock \in Nat /\ Messages \subseteq Int
      /\ DOMAIN feedback \subseteq Messages /\ feedback \in [DOMAIN feedback -> Votes]
      /\ \A m \in DOMAIN feedback : feedback[m].at <= clock
      /\ \A q \in Requests : task[q].pc = "flushed" => task[q].message \notin DOMAIN feedback
  BY DEF StoreInv, Rates, ReviewBounds
<1>2. ASSUME NEW m \in Messages, NEW v \in Reviewing!Ratings, Reviewing!SetRead(r, m, v)
      PROVE  StoreInv' /\ ReaderInv'
  <2>1. PICK p : p = Reviewing!Due(m, v)
    OBVIOUS
  <2>2. PICK u : u = [pc |-> p, message |-> m, rating |-> v, at |-> 0]
    OBVIOUS
  <2>3. task' = [task EXCEPT ![r] = u] /\ UNCHANGED <<clock, feedback, events, flushed, reader>>
    BY <1>2, <2>1, <2>2 DEF Reviewing!SetRead
  <2>4. u \in Rater /\ u.pc \in {"update", "insert", "done"} /\ u.message = m /\ u.rating \in {"up", "down"}
    BY <1>1, <2>1, <2>2 DEF Rater, Reviewing!Ratings, Reviewing!Due
  <2>5. StoreInv' /\ task'[r] = u /\ \A q \in Requests : q # r => task'[q] = task[q]
    BY <1>1, <2>3, <2>4, StoreStep
  <2>6. FlushesNow
    BY <2>4, <2>5 DEF FlushesNow
  <2> QED
    BY <1>1, <2>3, <2>5, <2>6, ReaderWaits
<1>3. ASSUME NEW m \in Messages, Reviewing!ClearRead(r, m)
      PROVE  StoreInv' /\ ReaderInv'
  <2>1. PICK i : i = Reviewing!Idle
    OBVIOUS
  <2>2. PICK u : u = [i EXCEPT !.pc = "clear", !.message = m]
    OBVIOUS
  <2>3. task' = [task EXCEPT ![r] = u] /\ UNCHANGED <<clock, feedback, events, flushed, reader>>
    BY <1>3, <2>1, <2>2 DEF Reviewing!ClearRead
  <2>4. u \in Rater /\ u.pc = "clear" /\ u.message = m
    BY <1>1, <2>1, <2>2 DEF Rater, Reviewing!Idle, Reviewing!None
  <2>5. StoreInv' /\ task'[r] = u /\ \A q \in Requests : q # r => task'[q] = task[q]
    BY <1>1, <2>3, <2>4, StoreStep
  <2>6. FlushesNow
    BY <2>4, <2>5 DEF FlushesNow
  <2> QED
    BY <1>1, <2>3, <2>5, <2>6, ReaderWaits
<1>4. PICK d : d = [Reviewing!Idle EXCEPT !.pc = "done"]
  OBVIOUS
<1>5. d \in Rater /\ d.pc = "done"
  BY <1>4, DoneRater
<1>6. CASE Reviewing!SetFlush(r)
  <2>1. PICK u : u = [w EXCEPT !.pc = "flushed", !.at = clock]
    OBVIOUS
  <2>2. /\ UNCHANGED <<clock, feedback, events, flushed, reader>> /\ w.pc = "insert"
        /\ \A q \in Requests : task[q].pc = "flushed" => task[q].message # w.message
        /\ \/ task' = [task EXCEPT ![r] = d]
           \/ w.message \notin DOMAIN feedback /\ task' = [task EXCEPT ![r] = u]
    BY <1>4, <1>6, <2>1 DEF Reviewing!SetFlush
  <2>3. u \in Rater /\ u.pc = "flushed" /\ u.at = clock /\ u.message = w.message /\ u.rating = w.rating
    BY <1>1, <2>1 DEF Rater
  <2>4. w.message \in Messages /\ w.rating \in {"up", "down"}
    BY <1>1, <2>2 DEF Rates
  <2>5. CASE task' = [task EXCEPT ![r] = d]
    <3>1. StoreInv' /\ task'[r] = d /\ \A q \in Requests : q # r => task'[q] = task[q]
      BY <1>1, <1>5, <2>2, <2>5, StoreStep
    <3>2. FlushesNow
      BY <1>5, <3>1 DEF FlushesNow
    <3> QED
      BY <1>1, <2>2, <3>1, <3>2, ReaderWaits
  <2>6. CASE w.message \notin DOMAIN feedback /\ task' = [task EXCEPT ![r] = u]
    <3>1. /\ u.message \in Messages \ DOMAIN feedback /\ u.rating \in {"up", "down"} /\ u.at <= clock
          /\ \A q \in Requests : task[q].pc = "flushed" => task[q].message # u.message
      BY <1>1, <2>2, <2>3, <2>4, <2>6
    <3>2. /\ task' \in [Requests -> Rater] /\ task'[r] = u
          /\ \A q \in Requests : q # r => task'[q] = task[q]
      BY <2>3, <2>6 DEF StoreInv
    <3>3. StoreInv'
      BY <2>2, <3>1, <3>2, FlushStep
    <3>4. FlushesNow
      BY <1>1, <2>3, <3>2 DEF FlushesNow
    <3> QED
      BY <1>1, <2>2, <3>3, <3>4, ReaderWaits
  <2> QED
    BY <2>2, <2>5, <2>6
<1>7. CASE Reviewing!SetInsert(r)
  <2>1. PICK m : m = w.message
    OBVIOUS
  <2>2. PICK x : x = [rating |-> w.rating, at |-> w.at]
    OBVIOUS
  <2>3. /\ w.pc = "flushed" /\ task' = [task EXCEPT ![r] = d]
        /\ UNCHANGED <<clock, events, flushed>> /\ Reviewing!Changed
        /\ feedback' = [n \in DOMAIN feedback \union {m} |-> IF n = m THEN x ELSE feedback[n]]
    BY <1>4, <1>7, <2>1, <2>2 DEF Reviewing!SetInsert
  <2>4. m \in Messages /\ x \in Votes /\ x.at = w.at /\ w.at <= clock
    BY <1>1, <2>1, <2>2, <2>3 DEF Rates, Votes, Rater
  <2>5. /\ DOMAIN feedback' = DOMAIN feedback \union {m} /\ feedback'[m] = x
        /\ \A n \in DOMAIN feedback : n # m => feedback'[n] = feedback[n]
    BY <2>3
  <2>6. \A n \in DOMAIN feedback' : feedback'[n] \in Votes /\ feedback'[n].at <= clock
    BY <1>1, <2>4, <2>5
  <2>7. feedback' \in [DOMAIN feedback' -> Votes] /\ DOMAIN feedback' \subseteq Messages
    BY <1>1, <2>3, <2>4, <2>5, <2>6
  <2>8. \A q \in Requests : q # r /\ task[q].pc = "flushed" => task[q].message \notin DOMAIN feedback'
    BY <1>1, <2>1, <2>3, <2>5 DEF StoreInv
  <2>9. StoreInv' /\ task'[r] = d /\ \A q \in Requests : q # r => task'[q] = task[q]
    BY <1>5, <2>3, <2>6, <2>7, <2>8, StoreStep
  <2>10. ASSUME NEW n \in DOMAIN feedback'
         PROVE  \/ n \in DOMAIN feedback /\ feedback'[n].at = feedback[n].at
                \/ \E q \in Requests : /\ task[q].pc = "flushed" /\ task[q].message = n
                                       /\ feedback'[n].at = task[q].at
    BY <2>1, <2>3, <2>4, <2>5
  <2> QED
    BY <1>5, <2>3, <2>9, <2>10, VotesChange
<1>8. CASE Reviewing!SetUpdate(r)
  <2>1. PICK m : m = w.message
    OBVIOUS
  <2>2. w.pc = "update" /\ task' = [task EXCEPT ![r] = d] /\ UNCHANGED <<clock, events, flushed>>
    BY <1>4, <1>8 DEF Reviewing!SetUpdate
  <2>3. CASE m \notin DOMAIN feedback
    <3>1. UNCHANGED <<feedback, reader>>
      BY <1>8, <2>1, <2>3 DEF Reviewing!SetUpdate
    <3>2. StoreInv' /\ task'[r] = d /\ \A q \in Requests : q # r => task'[q] = task[q]
      BY <1>1, <1>5, <2>2, <3>1, StoreStep
    <3>3. FlushesNow
      BY <1>5, <3>2 DEF FlushesNow
    <3> QED
      BY <1>1, <2>2, <3>1, <3>2, <3>3, ReaderWaits
  <2>4. CASE m \in DOMAIN feedback
    <3>1. PICK x : x = [feedback[m] EXCEPT !.rating = w.rating]
      OBVIOUS
    <3>2. feedback' = [feedback EXCEPT ![m] = x] /\ Reviewing!Changed
      BY <1>8, <2>1, <2>4, <3>1 DEF Reviewing!SetUpdate
    <3>3. feedback[m] \in Votes /\ w.rating \in {"up", "down"}
      BY <1>1, <2>2, <2>4 DEF Rates
    <3>4. x \in Votes /\ x.at = feedback[m].at
      BY <3>1, <3>3 DEF Votes
    <3>5. /\ DOMAIN feedback' = DOMAIN feedback /\ feedback'[m] = x
          /\ \A n \in DOMAIN feedback : n # m => feedback'[n] = feedback[n]
      BY <2>4, <3>2
    <3>6. \A n \in DOMAIN feedback' : /\ feedback'[n] \in Votes /\ feedback'[n].at <= clock
                                      /\ feedback'[n].at = feedback[n].at
      BY <1>1, <2>4, <3>4, <3>5
    <3>7. feedback' \in [DOMAIN feedback' -> Votes] /\ DOMAIN feedback' \subseteq Messages
      BY <1>1, <3>2, <3>4, <3>5
    <3>8. StoreInv' /\ task'[r] = d /\ \A q \in Requests : q # r => task'[q] = task[q]
      BY <1>1, <1>5, <2>2, <3>5, <3>6, <3>7, StoreStep
    <3> QED
      BY <1>5, <2>2, <3>2, <3>5, <3>6, <3>8, VotesChange
  <2> QED
    BY <2>3, <2>4
<1>9. CASE Reviewing!ClearCommit(r)
  <2>1. PICK m : m = w.message
    OBVIOUS
  <2>2. /\ task' = [task EXCEPT ![r] = d] /\ UNCHANGED <<clock, events, flushed>>
        /\ Reviewing!Changed /\ feedback' = [n \in DOMAIN feedback \ {m} |-> feedback[n]]
    BY <1>4, <1>9, <2>1 DEF Reviewing!ClearCommit, Reviewing!Without
  <2>3. /\ DOMAIN feedback' = DOMAIN feedback \ {m} /\ feedback' \in [DOMAIN feedback' -> Votes]
        /\ \A n \in DOMAIN feedback' : feedback'[n] = feedback[n]
    BY <1>1, <2>2
  <2>4. StoreInv' /\ task'[r] = d /\ \A q \in Requests : q # r => task'[q] = task[q]
    BY <1>1, <1>5, <2>2, <2>3, StoreStep
  <2> QED
    BY <1>5, <2>2, <2>3, <2>4, VotesChange
<1> QED
  BY <1>2, <1>3, <1>6, <1>7, <1>8, <1>9

\* A chat is deleted with its ratings.
LEMMA ChatGoes ==
  ASSUME ReviewBounds, StoreInv, ReaderInv, NEW c \in Mine, Reviewing!DeleteChat(c)
  PROVE  StoreInv' /\ ReaderInv'
<1>1. PICK S : S = {m \in live : ChatOf[m] = c}
  OBVIOUS
<1>2. /\ UNCHANGED <<clock, events, flushed, task>> /\ Reviewing!Changed
      /\ feedback' = [n \in DOMAIN feedback \ S |-> feedback[n]]
  BY <1>1 DEF Reviewing!DeleteChat, Reviewing!Without
<1>3. /\ DOMAIN feedback' = DOMAIN feedback \ S /\ feedback' \in [DOMAIN feedback' -> Votes]
      /\ \A n \in DOMAIN feedback' : feedback'[n] = feedback[n]
  BY <1>2 DEF StoreInv
<1>4. \A r \in Requests : Rates(task[r])'
  BY <1>2, <1>3 DEF Rates, StoreInv
<1>5. StoreInv'
  BY <1>2, <1>3, <1>4 DEF StoreInv
<1> QED
  BY <1>2, <1>3, <1>5, VotesChange

\* Audit events are written and committed, and time goes on.
LEMMA EventNext ==
  ASSUME ReviewBounds, StoreInv, ReaderInv,
         Reviewing!Tick \/ \E e \in Events : Reviewing!RecordAudit(e) \/ Reviewing!CommitAudit(e)
  PROVE  StoreInv' /\ ReaderInv'
<1>1. CASE Reviewing!Tick
  <2>1. UNCHANGED <<feedback, events, flushed, task, reader>> /\ clock' = clock + 1 /\ clock \in Nat
    BY <1>1 DEF Reviewing!Tick, StoreInv
  <2>2. \A x \in 0..clock : x \in 0..clock'
    BY <2>1
  <2>3. events \in [DOMAIN events -> 0..clock'] /\ flushed \in [DOMAIN flushed -> 0..clock']
    BY <2>2 DEF StoreInv
  <2>4. \A m \in DOMAIN feedback : feedback[m].at <= clock'
    BY <2>1 DEF StoreInv, Votes
  <2>5. ASSUME NEW r \in Requests PROVE Rates(task[r])'
    <3>1. Rates(task[r]) /\ task[r] \in Rater
      BY DEF StoreInv
    <3> QED
      BY <2>1, <3>1 DEF Rates, Rater
  <2>6. StoreInv'
    BY <2>1, <2>3, <2>4, <2>5 DEF StoreInv
  <2>7. FlushesNow
    BY <2>1 DEF FlushesNow
  <2>8. clock <= clock'
    BY <2>1
  <2> QED
    BY <2>1, <2>6, <2>7, <2>8, ReaderWaits
<1>2. ASSUME NEW e \in Events, Reviewing!RecordAudit(e) PROVE StoreInv' /\ ReaderInv'
  <2>1. /\ UNCHANGED <<clock, feedback, events, task, reader>> /\ clock \in 0..clock
        /\ e \notin DOMAIN events
        /\ flushed' = [d \in DOMAIN flushed \union {e} |-> IF d = e THEN clock ELSE flushed[d]]
    BY <1>2 DEF Reviewing!RecordAudit, StoreInv
  <2>2. DOMAIN flushed' = DOMAIN flushed \union {e} /\ flushed' \in [DOMAIN flushed' -> 0..clock]
    BY <2>1 DEF StoreInv
  <2>3. \A r \in Requests : Rates(task[r])'
    BY <2>1 DEF Rates, StoreInv
  <2>4. StoreInv'
    BY <2>1, <2>2, <2>3 DEF StoreInv
  <2>5. FlushesNow
    BY <2>1 DEF FlushesNow
  <2>6. clock <= clock'
    BY <2>1 DEF StoreInv
  <2> QED
    BY <2>1, <2>4, <2>5, <2>6, ReaderWaits
<1>3. ASSUME NEW e \in Events, Reviewing!CommitAudit(e) PROVE StoreInv' /\ ReaderInv'
  <2>1. /\ UNCHANGED <<clock, feedback, task>> /\ e \in DOMAIN flushed
        /\ flushed' = [d \in DOMAIN flushed \ {e} |-> flushed[d]]
        /\ events' = [d \in DOMAIN events \union {e} |-> IF d = e THEN flushed[d] ELSE events[d]]
    BY <1>3 DEF Reviewing!CommitAudit, Reviewing!Without
  <2>2. DOMAIN flushed' = DOMAIN flushed \ {e} /\ flushed' \in [DOMAIN flushed' -> 0..clock]
    BY <2>1 DEF StoreInv
  <2>3. DOMAIN events' = DOMAIN events \union {e} /\ events' \in [DOMAIN events' -> 0..clock]
    BY <2>1 DEF StoreInv
  <2>4. \A r \in Requests : Rates(task[r])'
    BY <2>1 DEF Rates, StoreInv
  <2>5. StoreInv'
    BY <2>1, <2>2, <2>3, <2>4 DEF StoreInv
  <2> QED
    BY <1>3, <2>5, EventCommits
<1> QED
  BY <1>1, <1>2, <1>3

\* Where the store and the reader stay.
LEMMA StoreStays ==
  ASSUME StoreInv, ReaderInv, UNCHANGED <<clock, feedback, events, flushed, task>>
  PROVE  StoreInv' /\ (UNCHANGED reader => ReaderInv')
<1>1. \A r \in Requests : Rates(task[r])'
  BY DEF Rates, StoreInv
<1>2. StoreInv'
  BY <1>1 DEF StoreInv
<1>3. FlushesNow /\ clock <= clock'
  BY DEF FlushesNow, StoreInv
<1> QED
  BY <1>2, <1>3, ReaderWaits

\* The Auditor's steps.
LEMMA AuditorNext ==
  ASSUME AuditInv, NEW m \in Sound,
         \/ Reviewing!AuditRead(m) \/ Reviewing!Acknowledge(m) \/ Reviewing!WorkerDies(m)
         \/ \E a \in Replies : Reviewing!AuditDone(m, a)
  PROVE  AuditInv' /\ UNCHANGED <<clock, feedback, events, flushed, task, reader>>
<1>1. CASE Reviewing!AuditRead(m)
  BY <1>1 DEF Reviewing!AuditRead, AuditInv
<1>2. CASE Reviewing!Acknowledge(m)
  BY <1>2 DEF Reviewing!Acknowledge, AuditInv
<1>3. CASE Reviewing!WorkerDies(m)
  BY <1>3 DEF Reviewing!WorkerDies, AuditInv
<1>4. ASSUME NEW a \in Replies, Reviewing!AuditDone(m, a)
      PROVE  AuditInv' /\ UNCHANGED <<clock, feedback, events, flushed, task, reader>>
  <2>1. /\ UNCHANGED <<clock, feedback, events, flushed, task, reader, deaths>>
        /\ auditing[m] = "judging"
    BY <1>4 DEF Reviewing!AuditDone
  <2>2. CASE auditing' = [auditing EXCEPT ![m] = "done"] /\ UNCHANGED <<scores, metered>>
    BY <2>1, <2>2 DEF AuditInv
  <2>3. CASE /\ DOMAIN scores' = DOMAIN scores \union {m}
             /\ metered' = [metered EXCEPT ![m] = @ + 1]
             /\ auditing' = [auditing EXCEPT ![m] = "committed"]
    BY <2>1, <2>3 DEF AuditInv
  <2> QED
    BY <1>4, <2>1, <2>2, <2>3 DEF Reviewing!AuditDone
<1> QED
  BY <1>1, <1>2, <1>3, <1>4

\* At first nothing has been read or paid.
LEMMA ReviewStart ==
  ASSUME ReviewBounds, Reviewing!Init
  PROVE  ReviewInv
<1>1. PICK i : i = Reviewing!Idle
  OBVIOUS
<1>2. i \in Rater /\ i.pc = "idle"
  BY <1>1 DEF Reviewing!Idle, Reviewing!None, Rater
<1>3. task = [r \in Requests |-> i] /\ clock = 0 /\ events = <<>> /\ flushed = <<>>
  BY <1>1 DEF Reviewing!Init
<1>4. PICK S \in SUBSET Messages : feedback = [m \in S |-> [rating |-> "down", at |-> 0]]
  BY DEF Reviewing!Init
<1>5. /\ DOMAIN feedback \subseteq Messages /\ feedback \in [DOMAIN feedback -> Votes]
      /\ \A m \in DOMAIN feedback : feedback[m].at <= clock
  BY <1>3, <1>4 DEF Votes
<1>6. DOMAIN events = {} /\ DOMAIN flushed = {}
  BY <1>3
<1>7. events \in [DOMAIN events -> 0..clock] /\ flushed \in [DOMAIN flushed -> 0..clock]
  BY <1>3, <1>6
<1>8. StoreInv
  BY <1>2, <1>3, <1>5, <1>6, <1>7 DEF StoreInv, Rates
<1>9. AuditInv
  BY DEF Reviewing!Init, AuditInv
<1>10. /\ reader \in ReaderState /\ reader.pc = "idle" /\ reader.shown = <<>>
       /\ reader.steady = {} /\ reader.table = "none"
  <2>1. <<>> \in Seq(Key)
    OBVIOUS
  <2> QED
    BY <2>1 DEF Reviewing!Init, Reviewing!Closed, Reviewing!None, ReaderState
<1>11. ReaderInv
  BY <1>10 DEF ReaderInv, Sorted, Shown, Rows
<1> QED
  BY <1>8, <1>9, <1>11 DEF ReviewInv

\* Every step keeps it.
LEMMA ReviewNext ==
  ASSUME ReviewBounds, ReviewInv, [Reviewing!Next]_(Reviewing!reviewVars)
  PROVE  ReviewInv'
<1> USE DEF ReviewInv
<1>1. ASSUME NEW r \in Requests,
             \/ \E m \in Messages : \/ Reviewing!ClearRead(r, m)
                                    \/ \E v \in Reviewing!Ratings : Reviewing!SetRead(r, m, v)
             \/ Reviewing!SetFlush(r) \/ Reviewing!SetInsert(r) \/ Reviewing!SetUpdate(r)
             \/ Reviewing!ClearCommit(r)
      PROVE  ReviewInv'
  <2>1. UNCHANGED <<scores, auditing, deaths, metered>>
    BY <1>1 DEF Reviewing!ClearRead, Reviewing!SetRead, Reviewing!SetFlush, Reviewing!SetInsert,
       Reviewing!SetUpdate, Reviewing!ClearCommit
  <2>2. StoreInv' /\ ReaderInv'
    BY <1>1, RatingNext
  <2> QED
    BY <2>1, <2>2 DEF AuditInv
<1>2. ASSUME NEW c \in Mine, Reviewing!DeleteChat(c) PROVE ReviewInv'
  <2>1. DOMAIN scores' \subseteq DOMAIN scores /\ UNCHANGED <<auditing, deaths, metered>>
    BY <1>2 DEF Reviewing!DeleteChat, Reviewing!Without
  <2> QED
    BY <1>2, <2>1, ChatGoes DEF AuditInv
<1>3. ASSUME NEW m \in Sound,
             \/ Reviewing!AuditRead(m) \/ Reviewing!Acknowledge(m) \/ Reviewing!WorkerDies(m)
             \/ \E a \in Replies : Reviewing!AuditDone(m, a)
      PROVE  ReviewInv'
  BY <1>3, AuditorNext, StoreStays
<1>4. CASE Reviewing!Tick \/ \E e \in Events : Reviewing!RecordAudit(e) \/ Reviewing!CommitAudit(e)
  <2>1. UNCHANGED <<scores, auditing, deaths, metered>>
    BY <1>4 DEF Reviewing!Tick, Reviewing!RecordAudit, Reviewing!CommitAudit
  <2> QED
    BY <1>4, <2>1, EventNext DEF AuditInv
<1>5. ASSUME NEW t \in {"feedback", "audit"}, NEW v \in {"none", "up", "down"}, Reviewing!Open(t, v)
      PROVE  ReviewInv'
  <2>1. UNCHANGED <<clock, feedback, events, flushed, task, scores, auditing, deaths, metered>>
    BY <1>5 DEF Reviewing!Open
  <2> QED
    BY <1>5, <2>1, StoreStays, ReaderOpens DEF AuditInv
<1>6. CASE Reviewing!Turn
  <2>1. UNCHANGED <<clock, feedback, events, flushed, task, scores, auditing, deaths, metered>>
    BY <1>6 DEF Reviewing!Turn
  <2> QED
    BY <1>6, <2>1, StoreStays, PageTurns DEF AuditInv
<1>7. CASE UNCHANGED Reviewing!reviewVars
  <2>1. UNCHANGED <<clock, feedback, events, flushed, task, reader, scores, auditing, deaths, metered>>
    BY <1>7 DEF Reviewing!reviewVars
  <2> QED
    BY <2>1, StoreStays DEF AuditInv
<1> QED
  BY <1>1, <1>2, <1>3, <1>4, <1>5, <1>6, <1>7 DEF Reviewing!Next, Reviewing!Ratings, Reviewing!None

\* What it says of the pages, of the summary and of the scores.
LEMMA ReviewsAre ==
  ASSUME ReviewBounds, ReviewInv
  PROVE  Reviewing!ReviewsHold
<1>1. Reviewing!PagesAreComplete
  <2>1. reader.pc = "done" => reader.steady \subseteq {reader.shown[i] : i \in DOMAIN reader.shown}
    BY DEF ReviewInv, ReaderInv, Left, Shown, Rows
  <2> QED
    BY <2>1 DEF ReviewInv, ReaderInv, Sorted, Reviewing!PagesAreComplete
<1>2. Reviewing!SummaryIsTheQueue
  <2> SUFFICES ASSUME reader.pc = "done", reader.table = "feedback", reader.quiet, reader.rating # "up"
               PROVE  Len(reader.shown) = IF reader.rating = "none" THEN Reviewing!Total ELSE Reviewing!Down
    BY DEF Reviewing!SummaryIsTheQueue, Reviewing!None
  <2> DEFINE s == reader.shown
             n == Len(s)
  <2>1. s \in Seq(Key) /\ n \in Nat /\ DOMAIN s = 1..n
    BY DEF ReviewInv, ReaderInv, ReaderState
  <2>2. Current = Rows(s)
    BY DEF ReviewInv, ReaderInv, Left, Shown
  <2>3. \A i, j \in 1..n : i # j => s[i] # s[j]
    BY <2>1 DEF ReviewInv, ReaderInv
  <2> HIDE DEF n
  <2>4. s \in Injection(1..n, Rows(s))
    <3>1. s \in [1..n -> Rows(s)]
      BY <2>1 DEF Rows
    <3> QED
      BY <2>3, <3>1 DEF Injection, IsInjective
  <2>5. IsFiniteSet(Rows(s)) /\ Rows(s) = Reviewing!FeedbackKeys(reader.rating)
    <3>1. Rows(s) = Reviewing!Keys("feedback", reader.rating)
      BY <2>2 DEF Current
    <3> QED
      BY <3>1, CurrentRows DEF ReviewInv, Reviewing!Keys
  <2>6. s \in Surjection(1..n, Rows(s))
    <3>1. \A k \in Rows(s) : \E i \in 1..n : s[i] = k
      BY <2>1 DEF Rows
    <3> QED
      BY <2>4, <3>1 DEF Injection, Surjection
  <2>7. Cardinality(Rows(s)) = n
    <3>1. IsFiniteSet(1..n) /\ Cardinality(1..n) = n
      BY <2>1, FS_Interval
    <3>2. Cardinality(1..n) = Cardinality(Rows(s))
      BY <2>4, <2>5, <2>6, FS_Injection
    <3> QED
      BY <3>1, <3>2
  <2>8. reader.rating \in {"none", "down"}
    BY DEF ReviewInv, ReaderInv, ReaderState
  <2> QED
    BY <2>5, <2>7, <2>8 DEF n, Reviewing!Total, Reviewing!Down, Reviewing!None,
       Reviewing!Cardinality, Cardinality
<1>3. Reviewing!AuditedIsMetered
  BY DEF ReviewInv, AuditInv, Reviewing!AuditedIsMetered, Reviewing!Audited
<1> QED
  BY <1>1, <1>2, <1>3 DEF Reviewing!ReviewsHold

\* list_feedback_queue, list_audit_events, feedback_summary, answer_quality_summary: for any
\* messages, requests, events, kills and size of a page, the pages that are turned while rows
\* come and go hold none twice and all that stay, the summary counts what the queue shows, and
\* an answer with scores was paid for.
THEOREM ReviewsHoldAlways == ASSUME ReviewBounds PROVE Reviewing!Spec => []Reviewing!ReviewsHold
<1>1. Reviewing!Init => ReviewInv
  BY ReviewStart
<1>2. ReviewInv /\ [Reviewing!Next]_(Reviewing!reviewVars) => ReviewInv'
  BY ReviewNext
<1>3. ReviewInv => Reviewing!ReviewsHold
  BY ReviewsAre
<1> QED
  BY <1>1, <1>2, <1>3, PTL DEF Reviewing!Spec
-----------------------------------------------------------------------------
(***************************************************************************)
(* What a turn reads: Retrieval, for any points and payloads, callers,     *)
(* clauses, sizes of a page and scores.  What the filter lets through may  *)
(* be read, and no later step adds a hit, so the invariant says it of the  *)
(* hits until the last step, where the order is judged.  InOrder and       *)
(* Ranked are given by ranks, and RanksSort says that these list what they *)
(* are made of.                                                            *)
(***************************************************************************)
CONSTANTS Points, ChunkOf, DocOf, Payloads, Callers, Clauses, Ks, Scores, MinScore, Prefetch

VARIABLES store, caller, asked, pending, query

Serving == INSTANCE Retrieval

\* InOrder lists finitely many positions from the first to the last.
LEMMA InOrderLists ==
  ASSUME NEW S, S \subseteq Nat, IsFiniteSet(S)
  PROVE  /\ Serving!InOrder(S) \in Seq(S) /\ Len(Serving!InOrder(S)) = Cardinality(S)
         /\ Rows(Serving!InOrder(S)) = S
         /\ \A i, j \in DOMAIN Serving!InOrder(S) :
               i < j => Serving!InOrder(S)[i] < Serving!InOrder(S)[j]
<1> DEFINE s == Serving!InOrder(S)
<1>1. PICK B : B = [k \in S |-> {j \in S : j < k}]
  OBVIOUS
<1>2. /\ B \in [S -> SUBSET S] /\ \A k \in S : k \notin B[k]
      /\ \A k, l \in S : l \in B[k] => B[l] \subseteq B[k]
      /\ \A k, l \in S : k # l => k \in B[l] \/ l \in B[k]
  <2>1. B \in [S -> SUBSET S] /\ \A k, j \in S : j \in B[k] <=> j < k
    BY <1>1
  <2>2. ASSUME NEW k \in S, NEW l \in S, l \in B[k] PROVE B[l] \subseteq B[k]
    <3>1. k \in Nat /\ l \in Nat /\ l < k
      BY <2>1, <2>2
    <3>2. ASSUME NEW j \in B[l] PROVE j \in B[k]
      <4>1. j \in S /\ j \in Nat
        BY <2>1
      <4> QED
        BY <2>1, <3>1, <3>2, <4>1
    <3> QED
      BY <3>2
  <2>3. \A k \in S : k \in Nat
    OBVIOUS
  <2>4. /\ \A k \in S : k \notin B[k]
        /\ \A k, l \in S : k # l => k \in B[l] \/ l \in B[k]
    BY <2>1, <2>3
  <2> QED
    BY <2>1, <2>2, <2>4
<1>3. s = [i \in 1..Cardinality(S) |-> CHOOSE k \in S : Cardinality({j \in S : j < k}) = i - 1]
  BY DEF Serving!InOrder, Serving!Cardinality, Cardinality
<1>4. ASSUME NEW i \in 1..Cardinality(S), NEW k \in S, Cardinality(B[k]) = i - 1
      PROVE  s[i] \in S /\ Cardinality(B[s[i]]) = i - 1
  <2>1. s[i] = CHOOSE l \in S : Cardinality({j \in S : j < l}) = i - 1
    BY <1>3, Zenon
  <2>2. Cardinality({j \in S : j < k}) = i - 1
    BY <1>1, <1>4
  <2>3. s[i] \in S /\ Cardinality({j \in S : j < s[i]}) = i - 1
    BY <2>1, <2>2, Zenon
  <2> QED
    BY <1>1, <2>3
<1>5. s \in [1..Cardinality(S) -> Rows(s)]
  BY <1>3 DEF Rows
<1> HIDE DEF s
<1>6. /\ s \in Seq(S) /\ Len(s) = Cardinality(S) /\ Rows(s) = S
      /\ \A i, j \in DOMAIN s : i < j => s[i] \in B[s[j]]
  <2>1. \A i \in 1..Cardinality(S) : (\E k \in S : Cardinality(B[k]) = i - 1)
                                         => s[i] \in S /\ Cardinality(B[s[i]]) = i - 1
    BY <1>4
  <2>2. /\ s \in Seq(S) /\ Len(s) = Cardinality(S) /\ DOMAIN s = 1..Cardinality(S)
        /\ Rows(s) = S /\ \A i, j \in DOMAIN s : i < j => s[i] \in B[s[j]]
    BY <1>2, <1>5, <2>1, RanksSort
  <2> QED
    BY <2>2
<1>7. \A i \in DOMAIN s : s[i] \in S
  BY <1>6
<1>8. \A i, j \in DOMAIN s : i < j => s[i] < s[j]
  BY <1>1, <1>6, <1>7
<1> QED
  BY <1>6, <1>8 DEF s

\* Ranked lists positions from the best score to the worst.
LEMMA RankedLists ==
  ASSUME NEW n \in Nat, NEW f \in [1..n -> Int]
  PROVE  LET s == Serving!Ranked(f)
         IN  /\ s \in Seq(1..n) /\ Len(s) = n /\ Rows(s) = 1..n
             /\ \A i, j \in 1..n : i < j => f[s[i]] >= f[s[j]] /\ s[i] # s[j]
<1> DEFINE S == 1..n
           s == Serving!Ranked(f)
<1>1. IsFiniteSet(S) /\ Cardinality(S) = n
  BY FS_Interval
<1>2. PICK B : B = [k \in S |-> Serving!Above(f, k)]
  OBVIOUS
<1>3. \A k \in S : B[k] = {j \in S : f[j] > f[k] \/ (f[j] = f[k] /\ j < k)}
  BY <1>2 DEF Serving!Above
<1>4. /\ B \in [S -> SUBSET S] /\ \A k \in S : k \notin B[k]
      /\ \A k, l \in S : l \in B[k] => B[l] \subseteq B[k]
      /\ \A k, l \in S : k # l => k \in B[l] \/ l \in B[k]
  <2>1. B = [k \in S |-> B[k]] /\ \A k \in S : B[k] \in SUBSET S /\ k \notin B[k]
    BY <1>2, <1>3
  <2>2. ASSUME NEW k \in S, NEW l \in S, l \in B[k] PROVE B[l] \subseteq B[k]
    BY <1>3, <2>2
  <2>3. ASSUME NEW k \in S, NEW l \in S, k # l PROVE k \in B[l] \/ l \in B[k]
    BY <1>3, <2>3
  <2> QED
    BY <2>1, <2>2, <2>3
<1>5. s = [i \in 1..n |-> CHOOSE k \in S : Cardinality(Serving!Above(f, k)) = i - 1]
  <2>1. DOMAIN f = S /\ Cardinality(DOMAIN f) = n
    BY <1>1
  <2> QED
    BY <2>1 DEF Serving!Ranked, Serving!Cardinality, Cardinality
<1>6. ASSUME NEW i \in 1..n, NEW k \in S, Cardinality(B[k]) = i - 1
      PROVE  s[i] \in S /\ Cardinality(B[s[i]]) = i - 1
  <2>1. s[i] = CHOOSE l \in S : Cardinality(Serving!Above(f, l)) = i - 1
    BY <1>5, Zenon
  <2>2. Cardinality(Serving!Above(f, k)) = i - 1
    BY <1>2, <1>6
  <2>3. s[i] \in S /\ Cardinality(Serving!Above(f, s[i])) = i - 1
    BY <2>1, <2>2, Zenon
  <2> QED
    BY <1>2, <2>3
<1>7. s \in [1..n -> Rows(s)]
  BY <1>5 DEF Rows
<1> HIDE DEF S, s
<1>8. /\ s \in Seq(S) /\ Len(s) = n /\ Rows(s) = S /\ DOMAIN s = 1..n
      /\ \A i, j \in DOMAIN s : i < j => s[i] \in B[s[j]]
  <2>1. \A i \in 1..Cardinality(S) : (\E k \in S : Cardinality(B[k]) = i - 1)
                                         => s[i] \in S /\ Cardinality(B[s[i]]) = i - 1
    BY <1>1, <1>6
  <2>2. s \in [1..Cardinality(S) -> Rows(s)]
    BY <1>1, <1>7
  <2>3. /\ s \in Seq(S) /\ Len(s) = Cardinality(S) /\ DOMAIN s = 1..Cardinality(S)
        /\ Rows(s) = S /\ \A i, j \in DOMAIN s : i < j => s[i] \in B[s[j]]
    BY <1>1, <1>4, <2>1, <2>2, RanksSort
  <2> QED
    BY <1>1, <2>3
<1>9. ASSUME NEW i \in 1..n, NEW j \in 1..n, i < j PROVE f[s[i]] >= f[s[j]] /\ s[i] # s[j]
  <2>1. s[i] \in S /\ s[j] \in S /\ s[i] \in B[s[j]]
    BY <1>8, <1>9
  <2>2. f[s[i]] \in Int /\ f[s[j]] \in Int
    BY <2>1 DEF S
  <2> QED
    BY <1>3, <1>4, <2>1, <2>2
<1> QED
  BY <1>8, <1>9 DEF S, s

\* A point belongs to one organization and to one workspace; a page has room for a chunk.
RetrievalBounds ==
    /\ IsFiniteSet(Points) /\ Ks \subseteq Nat \ {0} /\ Scores \subseteq Int /\ MinScore \in Int
    /\ \A x \in Payloads : (\E v : x.tenant = {v}) /\ (\E v : x.workspace = {v})

\* What each condition says of a payload.
LEMMA ConditionsSay ==
  ASSUME NEW payload, NEW key, NEW v, NEW vs
  PROVE  /\ Serving!Holds(Serving!Is(key, v), payload) <=> v \in payload[key]
         /\ Serving!Holds(Serving!AnyOf(key, vs), payload) <=> payload[key] \intersect vs # {}
         /\ Serving!Holds(Serving!NoneOf(key, vs), payload) <=> payload[key] \intersect vs = {}
         /\ Serving!Holds(Serving!Empty(key), payload) <=> payload[key] = {}
<1>1. PICK c : c = Serving!Is(key, v)
  OBVIOUS
<1>2. PICK d : d = Serving!AnyOf(key, vs)
  OBVIOUS
<1>3. PICK e : e = Serving!NoneOf(key, vs)
  OBVIOUS
<1>4. PICK g : g = Serving!Empty(key)
  OBVIOUS
<1>5. c.kind = "is" /\ c.key = key /\ c.set = {v}
  BY <1>1 DEF Serving!Is
<1>6. d.kind = "any" /\ d.key = key /\ d.set = vs
  BY <1>2 DEF Serving!AnyOf
<1>7. e.kind = "none" /\ e.key = key /\ e.set = vs
  BY <1>3 DEF Serving!NoneOf
<1>8. g.kind = "empty" /\ g.key = key
  BY <1>4 DEF Serving!Empty
<1>9. Serving!Holds(c, payload) <=> v \in payload[key]
  BY <1>5 DEF Serving!Holds
<1>10. Serving!Holds(d, payload) <=> payload[key] \intersect vs # {}
  BY <1>6 DEF Serving!Holds
<1>11. Serving!Holds(e, payload) <=> payload[key] \intersect vs = {}
  BY <1>7 DEF Serving!Holds
<1>12. Serving!Holds(g, payload) <=> payload[key] = {}
  BY <1>8 DEF Serving!Holds
<1> QED
  BY <1>1, <1>2, <1>3, <1>4, <1>9, <1>10, <1>11, <1>12

\* What the filter lets through may be read, and is of no excluded document.
LEMMA FilterReads ==
  ASSUME RetrievalBounds, store \in [Points -> Payloads], NEW X, NEW p \in Points,
         Serving!Matches(Serving!TenantFilter(X), Serving!Payload(p))
  PROVE  Serving!MayRead(p) /\ DocOf[ChunkOf[p]] \notin X
<1> DEFINE y == Serving!Payload(p)
           x == store[p]
<1>1. /\ y["tenant"] = x.tenant /\ y["workspace"] = x.workspace /\ y["acl"] = x.acl
      /\ y["current"] = x.current /\ y["meta"] = x.meta /\ y["document"] = {DocOf[ChunkOf[p]]}
  BY DEF Serving!Payload
<1>2. \A some \in Serving!TenantFilter(X) : \E c \in some : Serving!Holds(c, y)
  BY DEF Serving!Matches
<1> HIDE DEF y
<1>3. "own" \in y["tenant"]
  <2>1. {Serving!Is("tenant", "own")} \in Serving!TenantFilter(X)
    BY Zenon DEF Serving!TenantFilter
  <2>2. Serving!Holds(Serving!Is("tenant", "own"), y)
    BY <1>2, <2>1
  <2> QED
    BY <2>2, ConditionsSay
<1>4. "this" \in y["workspace"]
  <2>1. {Serving!Is("workspace", "this")} \in Serving!TenantFilter(X)
    BY Zenon DEF Serving!TenantFilter
  <2>2. Serving!Holds(Serving!Is("workspace", "this"), y)
    BY <1>2, <2>1
  <2> QED
    BY <2>2, ConditionsSay
<1>5. "yes" \in y["current"] \/ y["current"] = {}
  <2>1. {Serving!Is("current", "yes"), Serving!Empty("current")} \in Serving!TenantFilter(X)
    BY Zenon DEF Serving!TenantFilter
  <2>2. Serving!Holds(Serving!Is("current", "yes"), y) \/ Serving!Holds(Serving!Empty("current"), y)
    BY <1>2, <2>1
  <2> QED
    BY <2>2, ConditionsSay
<1>6. y["document"] \intersect X = {}
  <2>1. {Serving!NoneOf("document", X)} \in Serving!TenantFilter(X)
    BY Zenon DEF Serving!TenantFilter
  <2>2. Serving!Holds(Serving!NoneOf("document", X), y)
    BY <1>2, <2>1
  <2> QED
    BY <2>2, ConditionsSay
<1>7. caller.bypass \/ y["acl"] = {} \/ \E g \in caller.groups : g \in y["acl"]
  <2> SUFFICES ASSUME ~caller.bypass PROVE y["acl"] = {} \/ \E g \in caller.groups : g \in y["acl"]
    OBVIOUS
  <2>1. PICK some : /\ some = {Serving!Empty("acl")} \union
                              (IF caller.groups = {} THEN {} ELSE {Serving!AnyOf("acl", caller.groups)})
                    /\ some \in Serving!TenantFilter(X)
    BY DEF Serving!TenantFilter, Serving!Acl
  <2>2. Serving!Holds(Serving!Empty("acl"), y) \/ Serving!Holds(Serving!AnyOf("acl", caller.groups), y)
    BY <1>2, <2>1
  <2> QED
    BY <2>2, ConditionsSay
<1>8. asked.clause # {} => y["meta"] \intersect asked.clause # {}
  <2> SUFFICES ASSUME asked.clause # {} PROVE y["meta"] \intersect asked.clause # {}
    OBVIOUS
  <2>1. {Serving!AnyOf("meta", asked.clause)} \in Serving!TenantFilter(X)
    BY DEF Serving!TenantFilter, Serving!Meta
  <2>2. Serving!Holds(Serving!AnyOf("meta", asked.clause), y)
    BY <1>2, <2>1
  <2> QED
    BY <2>2, ConditionsSay
<1>9. x.tenant = {"own"} /\ x.workspace = {"this"}
  <2>1. x \in Payloads
    OBVIOUS
  <2>2. PICK v : x.tenant = {v}
    BY <2>1 DEF RetrievalBounds
  <2>3. PICK w : x.workspace = {w}
    BY <2>1 DEF RetrievalBounds
  <2> QED
    BY <1>1, <1>3, <1>4, <2>2, <2>3
<1>10. x.current # {"no"}
  BY <1>1, <1>5
<1> QED
  BY <1>1, <1>6, <1>7, <1>8, <1>9, <1>10 DEF Serving!MayRead

\* The hits at some positions, in their order.
LEMMA HitsAt ==
  ASSUME NEW h \in Seq(Points), NEW F, F \subseteq DOMAIN h
  PROVE  LET o == Serving!InOrder(F)
         IN  /\ o \in Seq(F) /\ Rows(o) = F /\ Len(o) = Cardinality(F) /\ Len(o) \in Nat
             /\ F # {} => Len(o) >= 1
             /\ \A i, j \in DOMAIN o : i < j => o[i] < o[j]
<1> DEFINE o == Serving!InOrder(F)
<1>1. F \subseteq Nat /\ IsFiniteSet(F)
  <2>1. DOMAIN h = 1..Len(h) /\ Len(h) \in Nat
    OBVIOUS
  <2>2. IsFiniteSet(1..Len(h))
    BY <2>1, FS_Interval
  <2> QED
    BY <2>1, <2>2, FS_Subset
<1>2. /\ o \in Seq(F) /\ Len(o) = Cardinality(F) /\ Rows(o) = F
      /\ \A i, j \in DOMAIN o : i < j => o[i] < o[j]
  BY <1>1, InOrderLists
<1> HIDE DEF o
<1>3. Len(o) \in Nat /\ DOMAIN o = 1..Len(o)
  BY <1>2
<1>4. F # {} => Len(o) >= 1
  BY <1>2, <1>3 DEF Rows
<1> QED
  BY <1>2, <1>3, <1>4 DEF o

\* The hits by their chunks, each where its first hit is.
LEMMA CollapsedDoes ==
  ASSUME NEW h \in Seq(Points), NEW c, c = Serving!Collapsed(h)
  PROVE  /\ c \in Seq(Serving!Chunks) /\ Len(c) \in Nat /\ DOMAIN c = 1..Len(c)
         /\ \A i \in DOMAIN c : \E j \in DOMAIN h : c[i] = ChunkOf[h[j]]
         /\ \A i, j \in DOMAIN c : c[i] = c[j] => i = j
         /\ h # <<>> => Len(c) >= 1
<1> DEFINE F == {i \in DOMAIN h : \A j \in 1..i - 1 : ChunkOf[h[j]] # ChunkOf[h[i]]}
           o == Serving!InOrder(F)
<1>1. /\ o \in Seq(F) /\ Rows(o) = F /\ Len(o) = Cardinality(F) /\ Len(o) \in Nat
      /\ F # {} => Len(o) >= 1
      /\ \A i, j \in DOMAIN o : i < j => o[i] < o[j]
  BY HitsAt
<1>2. c = [i \in DOMAIN o |-> ChunkOf[h[o[i]]]]
  BY DEF Serving!Collapsed
<1>3. DOMAIN h = 1..Len(h) /\ Len(h) \in Nat /\ \A i \in DOMAIN h : h[i] \in Points
  OBVIOUS
<1>4. ASSUME NEW i \in F PROVE i \in Nat /\ i \in DOMAIN h /\ \A j \in 1..i - 1 : ChunkOf[h[j]] # ChunkOf[h[i]]
  BY <1>3
<1>5. h # <<>> => F # {}
  <2> SUFFICES ASSUME h # <<>> PROVE 1 \in F
    OBVIOUS
  <2>1. 1 \in DOMAIN h /\ 1..1 - 1 = {}
    BY <1>3
  <2> QED
    BY <2>1
<1> HIDE DEF F, o
<1>6. DOMAIN o = 1..Len(o) /\ \A i \in DOMAIN o : o[i] \in F
  BY <1>1
<1>7. \A i \in DOMAIN o : h[o[i]] \in Points /\ o[i] \in DOMAIN h /\ o[i] \in Nat /\ i \in Nat
  BY <1>3, <1>4, <1>6
<1>8. c \in [1..Len(o) -> Serving!Chunks]
  BY <1>2, <1>6, <1>7 DEF Serving!Chunks
<1>9. c \in Seq(Serving!Chunks) /\ Len(c) = Len(o) /\ DOMAIN c = 1..Len(o)
  BY <1>1, <1>8
<1>10. \A i \in DOMAIN c : \E j \in DOMAIN h : c[i] = ChunkOf[h[j]]
  BY <1>2, <1>7
<1>11. ASSUME NEW i \in DOMAIN o, NEW j \in DOMAIN o, i < j PROVE c[i] # c[j]
  <2>1. o[i] \in Nat /\ o[j] \in Nat /\ o[i] < o[j] /\ o[i] \in DOMAIN h
    BY <1>1, <1>7, <1>11
  <2>2. o[i] \in 1..o[j] - 1
    BY <1>3, <2>1
  <2>3. ChunkOf[h[o[i]]] # ChunkOf[h[o[j]]]
    BY <1>4, <1>6, <2>2
  <2> QED
    BY <1>2, <2>3
<1>12. \A i, j \in DOMAIN c : c[i] = c[j] => i = j
  <2> SUFFICES ASSUME NEW i \in DOMAIN c, NEW j \in DOMAIN c, i # j PROVE c[i] # c[j]
    OBVIOUS
  <2>1. i \in DOMAIN o /\ j \in DOMAIN o /\ i \in Nat /\ j \in Nat
    BY <1>6, <1>7, <1>9
  <2>2. i < j \/ j < i
    BY <2>1
  <2> QED
    BY <1>11, <2>1, <2>2
<1> QED
  BY <1>1, <1>5, <1>9, <1>10, <1>12

\* The first k of a list, or all.
LEMMA FirstKDoes ==
  ASSUME asked.k \in Nat \ {0}, NEW T, NEW s \in Seq(T), NEW t, t = Serving!FirstK(s)
  PROVE  /\ t \in Seq(T) /\ Len(t) \in Nat /\ Len(t) <= asked.k /\ Len(t) <= Len(s)
         /\ DOMAIN t = 1..Len(t) /\ \A i \in DOMAIN t : t[i] = s[i] /\ i \in DOMAIN s
         /\ Len(s) >= 1 => Len(t) >= 1
<1> DEFINE m == IF Len(s) < asked.k THEN Len(s) ELSE asked.k
<1>1. m \in Nat /\ m <= asked.k /\ m <= Len(s) /\ (Len(s) >= 1 => m >= 1) /\ Len(s) \in Nat
  OBVIOUS
<1>2. t = SubSeq(s, 1, m)
  BY DEF Serving!FirstK
<1> HIDE DEF m
<1>3. t \in Seq(T) /\ Len(t) = m /\ \A i \in 1..m : t[i] = s[i]
  BY <1>1, <1>2
<1> QED
  BY <1>1, <1>3

\* Scores in the order of the texts: each is the one the reranker gave to its text.
LEMMA AlignedDoes ==
  ASSUME Scores \subseteq Int, NEW c, Len(c) \in Nat, NEW a \in Serving!Answers(c),
         NEW f, f = Serving!Aligned(a)
  PROVE  /\ f \in [1..Len(c) -> Int] /\ DOMAIN a = 1..Len(c)
         /\ \A i \in 1..Len(c) : \E j \in DOMAIN a : a[j][1] = i
         /\ \A j \in DOMAIN a : /\ a[j][1] \in 1..Len(c) /\ a[j][2] \in Scores
                                /\ f[a[j][1]] = a[j][2]
<1> DEFINE n == Len(c)
           D == 1..n
           e == [j \in D |-> a[j][1]]
<1>1. /\ a \in [D -> D \X Scores] /\ DOMAIN a = D
      /\ \A i, j \in D : i # j => a[i][1] # a[j][1]
  BY DEF Serving!Answers
<1>2. \A j \in D : a[j][1] \in D /\ a[j][2] \in Scores
  <2> HIDE DEF D
  <2> QED
    BY <1>1
<1>3. e \in Injection(D, D)
  <2>1. e \in [D -> D] /\ \A i, j \in D : e[i] = e[j] => i = j
    BY <1>1, <1>2
  <2> HIDE DEF e, D
  <2> QED
    BY <2>1 DEF Injection, IsInjective
<1>4. e \in Surjection(D, D)
  <2>1. \A m \in Nat : IsFiniteSet(1..m) /\ Cardinality(1..m) = m
    BY FS_Interval
  <2>2. IsFiniteSet(D) /\ Cardinality(D) = n
    BY <2>1
  <2> HIDE DEF e, D
  <2> QED
    BY <1>3, <2>2, FS_Injection
<1>5. \A i \in D : \E j \in D : a[j][1] = i
  <2>1. \A i \in D : \E j \in D : e[j] = i
    <3> HIDE DEF e, D
    <3> QED
      BY <1>4 DEF Surjection
  <2> QED
    BY <2>1
<1>6. f = [i \in D |-> a[CHOOSE j \in D : a[j][1] = i][2]]
  BY <1>1 DEF Serving!Aligned
<1> HIDE DEF D, e
<1>7. ASSUME NEW j \in D PROVE f[a[j][1]] = a[j][2]
  <2>1. PICK i \in D : i = a[j][1]
    BY <1>2
  <2>2. PICK k : k = CHOOSE l \in D : a[l][1] = i
    OBVIOUS
  <2>3. k \in D /\ a[k][1] = i
    BY <2>1, <2>2
  <2>4. k = j
    BY <1>1, <2>1, <2>3
  <2>5. f[i] = a[k][2]
    BY <1>6, <2>2
  <2> QED
    BY <2>1, <2>4, <2>5
<1>8. f \in [D -> Int]
  <2>1. ASSUME NEW i \in D PROVE f[i] \in Int
    <3>1. PICK j \in D : a[j][1] = i
      BY <1>5
    <3>2. f[i] = a[j][2] /\ a[j][2] \in Scores
      BY <1>2, <1>7, <3>1
    <3> QED
      BY <3>2
  <2> QED
    BY <1>6, <2>1
<1> QED
  BY <1>1, <1>2, <1>5, <1>7, <1>8 DEF D

QueryState ==
    [pc : {"start", "pending", "hits", "candidates", "done"}, excluded : SUBSET Range(DocOf),
     hits : Seq(Points), scores : Seq(Serving!Chunks \X Scores), chunks : Seq(Serving!Chunks),
     noAnswer : BOOLEAN]

\* What was let through may be read.
Readable(h, X) ==
    \A i \in DOMAIN h : Serving!MayRead(h[i]) /\ DocOf[ChunkOf[h[i]]] \notin X

RetrievalInv ==
    /\ store \in [Points -> Payloads] /\ caller \in Callers /\ pending \subseteq Range(DocOf)
    /\ asked \in [k : Ks, rerank : BOOLEAN, clause : Clauses]
    /\ query \in QueryState
    /\ query.pc # "done" => query.scores = <<>> /\ query.chunks = <<>>
    /\ query.pc \in {"hits", "candidates"} => Readable(query.hits, query.excluded)
    /\ query.pc = "candidates" => query.hits # <<>>
    /\ Serving!ServesTheBestReadable

\* What may be read depends on the payload, the caller and the clause.
LEMMA ReadableStays ==
  ASSUME UNCHANGED <<store, caller, asked>>, NEW h, NEW X
  PROVE  /\ Readable(h, X)' <=> Readable(h, X)
         /\ \A p : Serving!MayRead(p)' <=> Serving!MayRead(p)
BY DEF Readable, Serving!MayRead

\* A call begins with nothing in hand.
LEMMA RetrievalStart ==
  ASSUME RetrievalBounds, Serving!Init
  PROVE  RetrievalInv
<1>1. PICK q : q = Serving!None
  OBVIOUS
<1>2. q \in QueryState /\ q.pc = "start" /\ q.scores = <<>> /\ q.chunks = <<>>
  BY <1>1 DEF Serving!None, QueryState
<1>3. query = q
  BY <1>1 DEF Serving!Init
<1>4. /\ store \in [Points -> Payloads] /\ caller \in Callers /\ pending \subseteq Range(DocOf)
      /\ asked \in [k : Ks, rerank : BOOLEAN, clause : Clauses]
  BY DEF Serving!Init, Serving!Range, Range
<1>5. Serving!ServesTheBestReadable
  BY <1>2, <1>3 DEF Serving!ServesTheBestReadable
<1> QED
  BY <1>2, <1>3, <1>4, <1>5 DEF RetrievalInv

\* The documents that are not projected yet are read before the query, and may become more.
LEMMA PendingGrows ==
  ASSUME RetrievalInv, Serving!ReadPending \/ \E d \in Range(DocOf) : Serving!Unproject(d)
  PROVE  RetrievalInv'
<1>1. CASE Serving!ReadPending
  <2>1. PICK q : q = [query EXCEPT !.pc = "pending", !.excluded = pending]
    OBVIOUS
  <2>2. query' = q /\ query.pc = "start" /\ UNCHANGED <<store, caller, asked, pending>>
    BY <1>1, <2>1 DEF Serving!ReadPending
  <2>3. /\ q \in QueryState /\ q.pc = "pending" /\ q.scores = query.scores /\ q.chunks = query.chunks
    BY <2>1 DEF RetrievalInv, QueryState
  <2>4. Serving!ServesTheBestReadable'
    BY <2>2, <2>3 DEF Serving!ServesTheBestReadable
  <2> QED
    BY <2>2, <2>3, <2>4 DEF RetrievalInv
<1>2. ASSUME NEW d \in Range(DocOf), Serving!Unproject(d) PROVE RetrievalInv'
  <2>1. /\ query.pc \in {"pending", "hits"} /\ pending' = pending \union {d}
        /\ UNCHANGED <<store, caller, asked, query>>
    BY <1>2 DEF Serving!Unproject
  <2>2. Serving!ServesTheBestReadable'
    BY <2>1 DEF Serving!ServesTheBestReadable
  <2>3. Readable(query.hits, query.excluded)' <=> Readable(query.hits, query.excluded)
    BY <2>1 DEF Readable, Serving!MayRead
  <2> QED
    BY <2>1, <2>2, <2>3 DEF RetrievalInv
<1> QED
  BY <1>1, <1>2

\* Fusion ranks points that may be read.
LEMMA FusionReads ==
  ASSUME RetrievalBounds, RetrievalInv, Serving!Fuse
  PROVE  RetrievalInv'
<1> DEFINE through == {p \in Points : Serving!Matches(Serving!TenantFilter(query.excluded), Serving!Payload(p))}
<1>1. PICK n : \E h \in {s \in Serving!Listings(through, n) : Len(s) = n} :
                  query' = [query EXCEPT !.pc = "hits", !.hits = h]
  BY DEF Serving!Fuse
<1>2. query.pc = "pending" /\ UNCHANGED <<store, caller, asked, pending>>
  BY DEF Serving!Fuse
<1>3. PICK h : /\ \E m \in 0..n : h \in [1..m -> through]
               /\ query' = [query EXCEPT !.pc = "hits", !.hits = h]
  BY <1>1 DEF Serving!Listings
<1>4. \A p \in through : p \in Points /\ Serving!MayRead(p) /\ DocOf[ChunkOf[p]] \notin query.excluded
  BY FilterReads DEF RetrievalInv
<1> HIDE DEF through
<1>5. h \in Seq(Points) /\ Readable(h, query.excluded)
  <2>1. PICK m \in 0..n : h \in [1..m -> through]
    BY <1>3
  <2>2. h \in [1..m -> Points] /\ m \in Nat
    BY <1>4, <2>1
  <2> QED
    BY <1>4, <2>1, <2>2 DEF Readable
<1>6. PICK q : q = [query EXCEPT !.pc = "hits", !.hits = h]
  OBVIOUS
<1>7. /\ q \in QueryState /\ q.pc = "hits" /\ q.hits = h /\ q.excluded = query.excluded
      /\ q.scores = query.scores /\ q.chunks = query.chunks
  BY <1>5, <1>6 DEF RetrievalInv, QueryState
<1>8. query' = q
  BY <1>3, <1>6
<1>9. Readable(query.hits, query.excluded)'
  BY <1>2, <1>5, <1>7, <1>8 DEF Readable, Serving!MayRead
<1>10. Serving!ServesTheBestReadable'
  BY <1>7, <1>8 DEF Serving!ServesTheBestReadable
<1> QED
  BY <1>2, <1>7, <1>8, <1>9, <1>10 DEF RetrievalInv

\* Of what may be read, some is left.
LEMMA RecheckReads ==
  ASSUME RetrievalInv, RetrievalBounds, Serving!Recheck
  PROVE  RetrievalInv'
<1> DEFINE h == query.hits
           F == {i \in DOMAIN h : DocOf[ChunkOf[h[i]]] \notin pending \ query.excluded}
           o == Serving!InOrder(F)
           left == [i \in DOMAIN o |-> h[o[i]]]
<1>1. /\ query.pc = "hits" /\ UNCHANGED <<store, caller, asked, pending>>
      /\ query' = IF left = <<>> THEN [query EXCEPT !.pc = "done", !.noAnswer = TRUE]
                  ELSE [query EXCEPT !.pc = "candidates", !.hits = left]
  BY DEF Serving!Recheck
<1>2. h \in Seq(Points) /\ Readable(h, query.excluded)
  BY <1>1 DEF RetrievalInv, QueryState
<1>3. o \in Seq(F) /\ Len(o) \in Nat
  BY <1>2, HitsAt
<1>4. \A i \in F : i \in DOMAIN h
  OBVIOUS
<1> HIDE DEF F, o
<1>5. DOMAIN o = 1..Len(o) /\ \A i \in DOMAIN o : o[i] \in F
  BY <1>3
<1>6. left \in Seq(Points) /\ Readable(left, query.excluded)
  <2>1. \A i \in DOMAIN o : o[i] \in DOMAIN h
    BY <1>4, <1>5
  <2>2. left \in [1..Len(o) -> Points] /\ DOMAIN left = DOMAIN o
    BY <1>2, <1>5, <2>1
  <2>3. \A i \in DOMAIN left : left[i] = h[o[i]] /\ o[i] \in DOMAIN h
    BY <2>1
  <2> HIDE DEF left
  <2> QED
    BY <1>2, <1>3, <2>2, <2>3 DEF Readable
<1> HIDE DEF left
<1>7. CASE left = <<>>
  <2>1. PICK q : q = [query EXCEPT !.pc = "done", !.noAnswer = TRUE]
    OBVIOUS
  <2>2. query' = q
    BY <1>1, <1>7, <2>1
  <2>3. q \in QueryState /\ q.pc = "done" /\ q.scores = <<>> /\ q.chunks = <<>>
    BY <1>1, <2>1 DEF RetrievalInv, QueryState
  <2>4. asked'.k \in Nat
    BY <1>1 DEF RetrievalInv, RetrievalBounds
  <2>5. Serving!ServesTheBestReadable'
    BY <2>2, <2>3, <2>4 DEF Serving!ServesTheBestReadable, Serving!Range, Serving!IsInjective
  <2> QED
    BY <1>1, <2>2, <2>3, <2>5 DEF RetrievalInv
<1>8. CASE left # <<>>
  <2>1. PICK q : q = [query EXCEPT !.pc = "candidates", !.hits = left]
    OBVIOUS
  <2>2. query' = q
    BY <1>1, <1>8, <2>1
  <2>3. /\ q \in QueryState /\ q.pc = "candidates" /\ q.scores = <<>> /\ q.chunks = <<>>
        /\ q.hits = left /\ q.excluded = query.excluded
    BY <1>1, <1>6, <2>1 DEF RetrievalInv, QueryState
  <2>4. Readable(query.hits, query.excluded)'
    BY <1>1, <1>6, <2>2, <2>3 DEF Readable, Serving!MayRead
  <2>5. Serving!ServesTheBestReadable'
    BY <2>2, <2>3 DEF Serving!ServesTheBestReadable
  <2> QED
    BY <1>1, <1>8, <2>2, <2>3, <2>4, <2>5 DEF RetrievalInv
<1> QED
  BY <1>7, <1>8

\* Chunks that stand for hits which may be read.
LEMMA ChunksRead ==
  ASSUME NEW h \in Seq(Points), NEW X, Readable(h, X), NEW c, c = Serving!Collapsed(h), NEW x,
         \A i \in DOMAIN x : \E j \in DOMAIN c : x[i] = c[j]
  PROVE  \A y \in Serving!Range(x) :
            \E p \in Points : ChunkOf[p] = y /\ Serving!MayRead(p) /\ DocOf[y] \notin X
<1> SUFFICES ASSUME NEW i \in DOMAIN x
             PROVE  \E p \in Points : ChunkOf[p] = x[i] /\ Serving!MayRead(p) /\ DocOf[x[i]] \notin X
  BY DEF Serving!Range
<1>1. PICK j \in DOMAIN c : x[i] = c[j]
  OBVIOUS
<1>2. PICK l \in DOMAIN h : c[j] = ChunkOf[h[l]]
  BY CollapsedDoes
<1>3. h[l] \in Points
  OBVIOUS
<1> QED
  BY <1>1, <1>2, <1>3 DEF Readable

\* Without a reranker the order of fusion is kept.
LEMMA FusionServes ==
  ASSUME RetrievalInv, RetrievalBounds, Serving!FusionOrder
  PROVE  RetrievalInv'
<1> DEFINE h == query.hits
<1>1. PICK c : c = Serving!Collapsed(h)
  OBVIOUS
<1>2. PICK t : t = Serving!FirstK(c)
  OBVIOUS
<1>3. PICK b \in BOOLEAN : query' = [query EXCEPT !.pc = "done", !.noAnswer = b, !.chunks = t]
  BY <1>1, <1>2 DEF Serving!FusionOrder
<1>4. query.pc = "candidates" /\ UNCHANGED <<store, caller, asked, pending>>
  BY DEF Serving!FusionOrder
<1>5. h \in Seq(Points) /\ Readable(h, query.excluded) /\ asked.k \in Nat \ {0}
  BY <1>4 DEF RetrievalInv, QueryState, RetrievalBounds
<1> HIDE DEF h
<1>6. c \in Seq(Serving!Chunks) /\ \A i, j \in DOMAIN c : c[i] = c[j] => i = j
  BY <1>1, <1>5, CollapsedDoes
<1>7. /\ t \in Seq(Serving!Chunks) /\ Len(t) <= asked.k
      /\ \A i \in DOMAIN t : t[i] = c[i] /\ i \in DOMAIN c
  BY <1>2, <1>5, <1>6, FirstKDoes
<1>8. PICK q : q = [query EXCEPT !.pc = "done", !.noAnswer = b, !.chunks = t]
  OBVIOUS
<1>9. /\ q \in QueryState /\ q.pc = "done" /\ q.scores = <<>> /\ q.chunks = t
      /\ q.excluded = query.excluded
  BY <1>4, <1>7, <1>8 DEF RetrievalInv, QueryState
<1>10. query' = q
  BY <1>3, <1>8
<1>11. \A y \in Serving!Range(t) :
          \E p \in Points : ChunkOf[p] = y /\ Serving!MayRead(p) /\ DocOf[y] \notin query.excluded
  BY <1>1, <1>5, <1>7, ChunksRead
<1>12. Serving!IsInjective(t)
  BY <1>6, <1>7 DEF Serving!IsInjective
<1>13. /\ \A y \in Serving!Range(t) :
            \E p \in Points : ChunkOf[p] = y /\ Serving!MayRead(p)' /\ DocOf[y] \notin query'.excluded
       /\ Len(t) <= asked'.k
  BY <1>4, <1>7, <1>9, <1>10, <1>11 DEF Serving!MayRead
<1>14. Serving!ServesTheBestReadable'
  BY <1>9, <1>10, <1>12, <1>13 DEF Serving!ServesTheBestReadable
<1> QED
  BY <1>4, <1>9, <1>10, <1>14 DEF RetrievalInv

\* The reranker's best come back, in its order, and its best score decides.
LEMMA RerankServes ==
  ASSUME RetrievalInv, RetrievalBounds, Serving!Rerank
  PROVE  RetrievalInv'
<1> DEFINE h == query.hits
<1>1. PICK c : c = Serving!Collapsed(h)
  OBVIOUS
<1>2. PICK a \in Serving!Answers(c) :
         LET given == Serving!Aligned(a)
             top == Serving!FirstK(Serving!Ranked(given))
         IN  query' = [query EXCEPT !.pc = "done",
                         !.scores = [i \in DOMAIN a |-> <<c[a[i][1]], a[i][2]>>],
                         !.chunks = [i \in DOMAIN top |-> c[top[i]]],
                         !.noAnswer = given[top[1]] < MinScore]
  BY <1>1 DEF Serving!Rerank
<1>3. query.pc = "candidates" /\ UNCHANGED <<store, caller, asked, pending>>
  BY DEF Serving!Rerank
<1>4. PICK f : f = Serving!Aligned(a)
  OBVIOUS
<1>5. PICK r : r = Serving!Ranked(f)
  OBVIOUS
<1>6. PICK t : t = Serving!FirstK(r)
  OBVIOUS
<1>7. PICK sc : sc = [i \in DOMAIN a |-> <<c[a[i][1]], a[i][2]>>]
  OBVIOUS
<1>8. PICK ch : ch = [i \in DOMAIN t |-> c[t[i]]]
  OBVIOUS
<1>9. PICK b : b = (f[t[1]] < MinScore)
  OBVIOUS
<1>10. PICK q : q = [query EXCEPT !.pc = "done", !.scores = sc, !.chunks = ch, !.noAnswer = b]
  OBVIOUS
<1>11. query' = q
  BY <1>2, <1>4, <1>5, <1>6, <1>7, <1>8, <1>9, <1>10
<1>12. /\ h \in Seq(Points) /\ h # <<>> /\ Readable(h, query.excluded)
       /\ asked.k \in Nat \ {0} /\ Scores \subseteq Int
  BY <1>3 DEF RetrievalInv, QueryState, RetrievalBounds
<1> HIDE DEF h
<1> DEFINE n == Len(c)
<1>13. /\ c \in Seq(Serving!Chunks) /\ n \in Nat /\ n >= 1 /\ DOMAIN c = 1..n
       /\ \A i, j \in DOMAIN c : c[i] = c[j] => i = j
  BY <1>1, <1>12, CollapsedDoes
<1>14. /\ f \in [1..n -> Int] /\ DOMAIN a = 1..n
       /\ \A i \in 1..n : \E j \in 1..n : a[j][1] = i
       /\ \A j \in 1..n : a[j][1] \in 1..n /\ a[j][2] \in Scores /\ f[a[j][1]] = a[j][2]
  <2>1. /\ f \in [1..Len(c) -> Int] /\ DOMAIN a = 1..Len(c)
        /\ \A i \in 1..Len(c) : \E j \in DOMAIN a : a[j][1] = i
        /\ \A j \in DOMAIN a : /\ a[j][1] \in 1..Len(c) /\ a[j][2] \in Scores
                               /\ f[a[j][1]] = a[j][2]
    BY <1>4, <1>12, <1>13, AlignedDoes
  <2> QED
    BY <2>1
<1> HIDE DEF n
<1>15. /\ r \in Seq(1..n) /\ Len(r) = n /\ Rows(r) = 1..n
       /\ \A i, j \in 1..n : i < j => f[r[i]] >= f[r[j]] /\ r[i] # r[j]
  <2>1. n \in Nat /\ f \in [1..n -> Int]
    BY <1>13, <1>14
  <2>2. LET s == Serving!Ranked(f)
        IN  /\ s \in Seq(1..n) /\ Len(s) = n /\ Rows(s) = 1..n
            /\ \A i, j \in 1..n : i < j => f[s[i]] >= f[s[j]] /\ s[i] # s[j]
    BY <2>1, RankedLists, Zenon
  <2> QED
    BY <1>5, <2>2
<1>16. DOMAIN r = 1..n /\ \A i \in 1..n : r[i] \in 1..n
  BY <1>13, <1>15
<1> DEFINE m == Len(t)
<1>17. /\ t \in Seq(1..n) /\ m \in Nat /\ m <= asked.k /\ m <= n /\ m >= 1 /\ DOMAIN t = 1..m
       /\ \A i \in 1..m : t[i] = r[i] /\ i \in 1..n
  <2>1. /\ t \in Seq(1..n) /\ Len(t) \in Nat /\ Len(t) <= asked.k /\ Len(t) <= Len(r)
        /\ DOMAIN t = 1..Len(t) /\ (\A i \in DOMAIN t : t[i] = r[i] /\ i \in DOMAIN r)
        /\ (Len(r) >= 1 => Len(t) >= 1)
    BY <1>6, <1>12, <1>15, FirstKDoes
  <2> QED
    BY <1>13, <1>15, <1>16, <2>1
<1> HIDE DEF m
<1>18. \A i \in 1..n : c[i] \in Serving!Chunks
  BY <1>13
<1>19. /\ ch \in Seq(Serving!Chunks) /\ Len(ch) = m /\ DOMAIN ch = 1..m
       /\ \A i \in 1..m : ch[i] = c[r[i]] /\ r[i] \in 1..n
  <2>1. /\ \A i \in 1..m : ch[i] = c[r[i]] /\ r[i] \in 1..n
        /\ ch = [i \in 1..m |-> ch[i]]
    BY <1>8, <1>16, <1>17
  <2>2. ch \in [1..m -> Serving!Chunks]
    BY <1>18, <2>1
  <2> QED
    BY <1>17, <2>1, <2>2
<1>20. b \in BOOLEAN
  <2>1. f[t[1]] \in Int /\ MinScore \in Int
    BY <1>14, <1>16, <1>17 DEF RetrievalBounds
  <2> QED
    BY <1>9, <2>1
<1>21. sc \in Seq(Serving!Chunks \X Scores)
  <2>1. \A i \in 1..n : <<c[a[i][1]], a[i][2]>> \in Serving!Chunks \X Scores
    BY <1>14, <1>18
  <2>2. sc \in [1..n -> Serving!Chunks \X Scores]
    BY <1>7, <1>14, <2>1
  <2> QED
    BY <1>13, <2>2
<1>22. /\ q \in QueryState /\ q.pc = "done" /\ q.scores = sc /\ q.chunks = ch
       /\ q.excluded = query.excluded /\ q.noAnswer = b
  BY <1>3, <1>10, <1>19, <1>21, <1>20 DEF RetrievalInv, QueryState
<1> DEFINE Scored == Serving!Range(query'.scores)
           Of(y) == Serving!Given(query'.scores, y)
<1>23. \A s : s \in Scored <=> \E i \in 1..n : s = <<c[i], f[i]>>
  <2>1. query'.scores = sc /\ DOMAIN sc = 1..n
    BY <1>7, <1>11, <1>14, <1>22
  <2>2. \A j \in 1..n : sc[j] = <<c[a[j][1]], f[a[j][1]]>> /\ a[j][1] \in 1..n
    BY <1>7, <1>14
  <2>3. Scored = {sc[j] : j \in 1..n}
    BY <2>1 DEF Serving!Range
  <2> HIDE DEF Scored
  <2>4. ASSUME NEW i \in 1..n PROVE <<c[i], f[i]>> \in Scored
    <3>1. PICK j \in 1..n : a[j][1] = i
      BY <1>14
    <3>2. sc[j] = <<c[i], f[i]>>
      BY <2>2, <3>1
    <3> QED
      BY <2>3, <3>2
  <2>5. ASSUME NEW s \in Scored PROVE \E i \in 1..n : s = <<c[i], f[i]>>
    <3>1. PICK j \in 1..n : s = sc[j]
      BY <2>3
    <3> QED
      BY <2>2, <3>1
  <2> QED
    BY <2>4, <2>5
<1>24. ASSUME NEW i \in 1..n PROVE Of(c[i]) = f[i]
  <2>1. PICK s : s = CHOOSE x \in Scored : x[1] = c[i]
    OBVIOUS
  <2>2. <<c[i], f[i]>> \in Scored /\ <<c[i], f[i]>>[1] = c[i]
    BY <1>23
  <2>3. s \in Scored /\ s[1] = c[i]
    BY <2>1, <2>2, Zenon
  <2>4. PICK j \in 1..n : s = <<c[j], f[j]>>
    BY <1>23, <2>3
  <2>5. j = i
    BY <1>13, <2>3, <2>4
  <2>6. s[2] = f[i]
    BY <2>4, <2>5
  <2>7. Of(c[i]) = s[2]
    BY <2>1, Zenon DEF Serving!Given
  <2> QED
    BY <2>6, <2>7
<1> HIDE DEF Scored, Of
<1>25. \A i \in 1..m : Of(ch[i]) = f[r[i]] /\ r[i] \in 1..n
  BY <1>19, <1>24
<1>26. \A i \in 1..Len(ch) - 1 : Of(ch[i]) >= Of(ch[i + 1])
  <2> SUFFICES ASSUME NEW i \in 1..m - 1 PROVE Of(ch[i]) >= Of(ch[i + 1])
    BY <1>19
  <2>1. i \in 1..m /\ i + 1 \in 1..m /\ i \in 1..n /\ i + 1 \in 1..n /\ i < i + 1
    BY <1>13, <1>17
  <2> QED
    BY <1>15, <1>25, <2>1
<1>27. ASSUME NEW x \in {s[1] : s \in Scored} \ Serving!Range(ch), NEW y \in Serving!Range(ch)
       PROVE  Of(x) <= Of(y)
  <2>1. PICK i \in 1..n : x = c[i]
    BY <1>23, <1>27
  <2>2. PICK j \in 1..n : r[j] = i
    BY <1>15, <1>16 DEF Rows
  <2>3. PICK l \in 1..m : y = ch[l]
    BY <1>19 DEF Serving!Range
  <2>4. j \notin 1..m
    BY <1>19, <1>27, <2>1, <2>2 DEF Serving!Range
  <2>5. l < j /\ l \in 1..n
    BY <1>13, <1>17, <2>4
  <2>6. f[r[l]] >= f[r[j]] /\ r[l] \in 1..n /\ f[r[l]] \in Int /\ f[r[j]] \in Int
    BY <1>14, <1>15, <1>16, <2>5
  <2> QED
    BY <1>24, <1>25, <2>1, <2>2, <2>3, <2>6
<1>28. Of(ch[1]) = f[t[1]]
  BY <1>17, <1>25
<1>29. \A y \in Serving!Range(ch) :
          \E p \in Points : ChunkOf[p] = y /\ Serving!MayRead(p) /\ DocOf[y] \notin query.excluded
  <2>1. \A i \in DOMAIN ch : \E j \in DOMAIN c : ch[i] = c[j]
    BY <1>13, <1>19
  <2> QED
    BY <1>1, <1>12, <2>1, ChunksRead
<1>30. Serving!IsInjective(ch)
  <2> SUFFICES ASSUME NEW i \in 1..m, NEW j \in 1..m, i # j PROVE ch[i] # ch[j]
    BY <1>19 DEF Serving!IsInjective
  <2>1. i \in 1..n /\ j \in 1..n /\ (i < j \/ j < i)
    BY <1>17
  <2>2. r[i] # r[j] /\ r[i] \in 1..n /\ r[j] \in 1..n
    BY <1>15, <1>16, <2>1
  <2> QED
    BY <1>13, <1>19, <2>2
<1>31. /\ \A y \in Serving!Range(query'.chunks) :
            \E p \in Points : /\ ChunkOf[p] = y /\ Serving!MayRead(p)'
                              /\ DocOf[y] \notin query'.excluded
       /\ Serving!IsInjective(query'.chunks) /\ Len(query'.chunks) <= asked'.k
  <2>1. \A p : Serving!MayRead(p)' <=> Serving!MayRead(p)
    BY <1>3 DEF Serving!MayRead
  <2>2. query'.chunks = ch /\ query'.excluded = query.excluded /\ asked'.k = asked.k /\ Len(ch) <= asked.k
    BY <1>3, <1>11, <1>17, <1>19, <1>22
  <2> QED
    BY <1>29, <1>30, <2>1, <2>2
<1>32. /\ \A i \in 1..Len(query'.chunks) - 1 : Of(query'.chunks[i]) >= Of(query'.chunks[i + 1])
       /\ \A x \in {s[1] : s \in Scored} \ Serving!Range(query'.chunks),
             y \in Serving!Range(query'.chunks) : Of(x) <= Of(y)
       /\ query'.noAnswer = (Of(query'.chunks[1]) < MinScore)
  BY <1>9, <1>11, <1>22, <1>26, <1>27, <1>28
<1>33. Serving!ServesTheBestReadable'
  BY <1>31, <1>32, Zenon DEF Serving!ServesTheBestReadable, Of, Scored
<1> QED
  BY <1>3, <1>11, <1>22, <1>33 DEF RetrievalInv

\* Every step of a call keeps it.
LEMMA RetrievalNext ==
  ASSUME RetrievalBounds, RetrievalInv, [Serving!Next]_(Serving!vars)
  PROVE  RetrievalInv'
<1>1. CASE UNCHANGED Serving!vars
  <2>1. UNCHANGED <<store, caller, asked, pending, query>>
    BY <1>1 DEF Serving!vars
  <2>2. Serving!ServesTheBestReadable'
    BY <2>1 DEF RetrievalInv, Serving!ServesTheBestReadable, Serving!MayRead
  <2>3. Readable(query.hits, query.excluded)' <=> Readable(query.hits, query.excluded)
    BY <2>1 DEF Readable, Serving!MayRead
  <2> QED
    BY <2>1, <2>2, <2>3 DEF RetrievalInv
<1>2. CASE Serving!ReadPending \/ \E d \in Range(DocOf) : Serving!Unproject(d)
  BY <1>2, PendingGrows
<1>3. CASE Serving!Fuse
  BY <1>3, FusionReads
<1>4. CASE Serving!Recheck
  BY <1>4, RecheckReads
<1>5. CASE Serving!Rerank
  BY <1>5, RerankServes
<1>6. CASE Serving!FusionOrder
  BY <1>6, FusionServes
<1> QED
  BY <1>1, <1>2, <1>3, <1>4, <1>5, <1>6 DEF Serving!Next, Serving!Range, Range

\* retrieve, _tenant_filter, _ctx_acl, _dedupe_hq: for any points, payloads, callers, clauses,
\* scores and sizes of a page, what comes back is what the caller may read, each chunk once, and
\* after a rerank the best of the reranker in its order and judged by its scores.
THEOREM ServesTheBestReadableAlways ==
  ASSUME RetrievalBounds
  PROVE  Serving!Spec => []Serving!ServesTheBestReadable
<1>1. Serving!Init => RetrievalInv
  BY RetrievalStart
<1>2. RetrievalInv /\ [Serving!Next]_(Serving!vars) => RetrievalInv'
  BY RetrievalNext
<1>3. RetrievalInv => Serving!ServesTheBestReadable
  BY DEF RetrievalInv
<1> QED
  BY <1>1, <1>2, <1>3, PTL DEF Serving!Spec
=============================================================================
