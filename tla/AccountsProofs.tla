--------------------------- MODULE AccountsProofs ---------------------------
(***************************************************************************)
(* Proofs about who comes to hold an account, a credential or a right:     *)
(* Accounts, whose unique names and row locks make each invitation, reset  *)
(* link and first registration work once; DeviceLogin, whose advisory lock *)
(* keeps the credential on file the last one issued; Principals, where     *)
(* taking a right away is all that revokes it; Roles, whose snapshots a    *)
(* rollback restores; SignOn, where a login comes to one session; Budgets, *)
(* where whoever changes an allocation writes it to the gateway; and       *)
(* Registry, where a change of a model owes a replay of all of them.       *)
(*                                                                         *)
(* Each part declares the state of its module and proves an inductive      *)
(* invariant of it; Requests are those of Accounts throughout.             *)
(***************************************************************************)
EXTENDS Accounts, FiniteSetTheorems, WellFoundedInduction, TLAPS

\* The state of DeviceLogin, which Accounts has no part in
CONSTANTS Clients, MaxLogins, MaxRotations

VARIABLES login, stored, lapsed, spent, issued, calls, ended, cut

Device == INSTANCE DeviceLogin

UserRow(n) == [role : {"none", "superadmin", "admin", "user"}, active : BOOLEAN,
               identity : Identities \union {None}, invite : 0..n]
Invitation == [email : Emails, role : {"admin", "user"}, open : BOOLEAN]
Link == [email : Emails, used : BOOLEAN, resets : {0, 1}]
Task == [pc : Kinds, email : Emails \union {None}, id : Identities \union {None},
         item : Nat, seen : BOOLEAN, targets : SUBSET Nat]

Typed ==
    /\ invites \in Seq(Invitation) /\ links \in Seq(Link)
    /\ user \in [Emails -> UserRow(Len(invites))]
    /\ platform \in BOOLEAN /\ lock \in Requests \union {None}
    /\ task \in [Requests -> Task]

\* What a request in progress relies on: a link that it found unspent is unspent.
Ready(r, ins, lks) ==
    /\ r.pc \in {"waiting", "registering", "bootstrapping", "provisioning", "linking"} =>
         r.email \in Emails
    /\ r.pc = "provisioning" => r.id \in Identities
    /\ r.pc = "accepting" => r.item \in DOMAIN ins
    /\ r.pc = "linking" => \A l \in r.targets : l \in DOMAIN lks /\ lks[l].email = r.email
    /\ r.pc = "resetting" => r.item \in DOMAIN lks /\ (~r.seen => ~lks[r.item].used)

Apart(ts) ==
    \A p, q \in Requests :
        ts[p].pc = "resetting" /\ ts[q].pc = "resetting" /\ ts[p].item = ts[q].item => p = q

\* Accounts and the invitations they were made from.
Matched(us, ins) ==
    /\ \A e \in Emails : us[e].invite # 0 => us[e].role # "none"
    /\ \A i \in DOMAIN ins : ~ins[i].open <=> us[ins[i].email].invite = i

\* The name of the first organization is taken with the first superadmin.
Single(us, taken) ==
    /\ ~taken => \A e \in Emails : us[e].role # "superadmin"
    /\ \A d, e \in Emails : us[d].role = "superadmin" /\ us[e].role = "superadmin" => d = e

Spent(lks) == \A l \in DOMAIN lks : lks[l].resets = 1 => lks[l].used

AccountsInv ==
    /\ Typed
    /\ \A q \in Requests : Ready(task[q], invites, links)
    /\ Apart(task) /\ Matched(user, invites) /\ Single(user, platform) /\ Spent(links)

-----------------------------------------------------------------------------
\* Nothing is there at the start.
LEMMA AccountsInit == Init => AccountsInv
<1> SUFFICES ASSUME Init PROVE AccountsInv
  OBVIOUS
<1>1. invites = <<>> /\ links = <<>> /\ Len(invites) = 0
      /\ invites \in Seq(Invitation) /\ links \in Seq(Link)
      /\ DOMAIN invites = {} /\ DOMAIN links = {}
  BY DEF Init
<1>2. NoUser \in UserRow(0) /\ Idle \in Task
  BY DEF NoUser, UserRow, Idle, Task, Kinds, None
<1>3. Typed
  BY <1>1, <1>2 DEF Init, Typed
<1>4. \A q \in Requests : task[q].pc = "idle"
  BY DEF Init, Idle
<1>5. \A e \in Emails : user[e].role = "none" /\ user[e].invite = 0
  BY DEF Init, NoUser, None
<1> QED
  BY <1>1, <1>3, <1>4, <1>5 DEF AccountsInv, Ready, Apart, Matched, Single, Spent

\* A request that reads, or that ends with nothing written.
LEMMA OnlyTask ==
  ASSUME AccountsInv, NEW q \in Requests, NEW r \in Task, Step(q, r), Ready(r, invites, links),
         r.pc = "resetting" => \A p \in Requests \ {q} :
                                  ~(task[p].pc = "resetting" /\ task[p].item = r.item),
         lock' \in Requests \union {None}, UNCHANGED <<user, platform, invites, links>>
  PROVE  AccountsInv'
<1>1. task' \in [Requests -> Task] /\ task'[q] = r /\ \A p \in Requests : p # q => task'[p] = task[p]
  BY DEF AccountsInv, Typed, Step
<1>2. Typed'
  BY <1>1 DEF AccountsInv, Typed
<1>3. \A p \in Requests : Ready(task'[p], invites', links')
  BY <1>1 DEF AccountsInv
<1>4. Apart(task')
  BY <1>1 DEF AccountsInv, Apart
<1> QED
  BY <1>2, <1>3, <1>4 DEF AccountsInv

\* A request that does nothing has a record and relies on nothing.
LEMMA IdleTask == Idle \in Task /\ Idle.pc = "idle" /\ \A ins, lks : Ready(Idle, ins, lks)
BY DEF Idle, Task, Kinds, None, Ready

\* A new account at an address that nobody has.
LEMMA NewUser ==
  ASSUME AccountsInv, NEW q \in Requests, Done(q), NEW e \in Emails, ~Exists(e),
         NEW role \in {"superadmin", "admin", "user"}, NEW id \in Identities \union {None},
         NEW i \in 0..Len(invites),
         user' = [user EXCEPT ![e] = Account(role, id, i)],
         IF i = 0 THEN invites' = invites
         ELSE invites[i].email = e /\ invites' = [invites EXCEPT ![i].open = FALSE],
         lock' \in Requests \union {None},
         IF role = "superadmin" THEN ~platform /\ platform' = TRUE ELSE platform' = platform,
         links' = links
  PROVE  AccountsInv'
<1>0. /\ invites \in Seq(Invitation) /\ Len(invites) \in Nat /\ DOMAIN invites = 1..Len(invites)
      /\ user \in [Emails -> UserRow(Len(invites))] /\ task \in [Requests -> Task]
      /\ user[e].role = "none" /\ user[e].invite = 0
  BY DEF AccountsInv, Typed, Matched, Exists
<1>a. \A j \in 1..Len(invites) : invites[j].email \in Emails /\ invites[j].open \in BOOLEAN
  <2>1. \A j \in 1..Len(invites) : invites[j] \in Invitation
    BY <1>0
  <2> QED
    BY <2>1 DEF Invitation
<1>b. i # 0 => i \in DOMAIN invites /\ invites[i].email = e
  BY <1>0
<1>1. task' \in [Requests -> Task] /\ task'[q] = Idle /\ \A p \in Requests : p # q => task'[p] = task[p]
  BY IdleTask DEF AccountsInv, Typed, Step, Done
<1>2. /\ invites' \in Seq(Invitation) /\ Len(invites') = Len(invites)
      /\ \A j \in 1..Len(invites) : /\ invites'[j].email = invites[j].email
                                    /\ invites'[j].open = (invites[j].open /\ j # i)
  <2>1. CASE i = 0
    BY <1>0, <1>a, <2>1
  <2>2. CASE i # 0
    <3>1. invites[i] \in Invitation /\ i \in 1..Len(invites)
      BY <1>0, <2>2
    <3>2. [invites[i] EXCEPT !.open = FALSE] \in Invitation
      BY <3>1 DEF Invitation
    <3>3. invites' = [invites EXCEPT ![i] = [invites[i] EXCEPT !.open = FALSE]]
      BY <2>2, <3>1
    <3>4. invites' \in Seq(Invitation) /\ Len(invites') = Len(invites)
      BY <1>0, <3>1, <3>2, <3>3
    <3>5. /\ invites'[i].open = FALSE /\ invites'[i].email = invites[i].email
          /\ \A j \in 1..Len(invites) : j # i => invites'[j] = invites[j]
      BY <1>0, <3>1, <3>3 DEF Invitation
    <3> QED
      BY <1>a, <3>1, <3>4, <3>5
  <2> QED
    BY <2>1, <2>2
<1>3. /\ user' \in [Emails -> UserRow(Len(invites))] /\ user'[e].role = role /\ user'[e].invite = i
      /\ \A d \in Emails : d # e => user'[d] = user[d]
  <2>1. /\ Account(role, id, i) \in UserRow(Len(invites)) /\ Account(role, id, i).role = role
        /\ Account(role, id, i).invite = i
    BY <1>0 DEF Account, UserRow
  <2> QED
    BY <1>0, <2>1
<1>4. Typed'
  BY <1>1, <1>2, <1>3 DEF AccountsInv, Typed
<1>5. \A p \in Requests : Ready(task'[p], invites', links')
  <2>1. DOMAIN invites' = DOMAIN invites
    BY <1>0, <1>2
  <2> QED
    BY <1>1, <2>1, IdleTask DEF AccountsInv, Ready
<1>6. Apart(task')
  BY <1>1, IdleTask DEF AccountsInv, Apart
<1>7. Matched(user', invites')
  <2>1. \A d \in Emails : user'[d].invite # 0 => user'[d].role # "none"
    BY <1>3 DEF AccountsInv, Matched
  <2>2. ASSUME NEW j \in DOMAIN invites'
        PROVE  ~invites'[j].open <=> user'[invites'[j].email].invite = j
    <3>1. j \in 1..Len(invites) /\ j \in DOMAIN invites
      BY <1>0, <1>2, <2>2
    <3>a. invites[j].email \in Emails /\ invites[j].open \in BOOLEAN
      BY <1>a, <3>1
    <3>2. ~invites[j].open <=> user[invites[j].email].invite = j
      BY <3>1 DEF AccountsInv, Matched
    <3>3. /\ invites'[j].email = invites[j].email
          /\ invites'[j].open = (invites[j].open /\ j # i)
      BY <1>2, <3>1
    <3>4. CASE invites[j].email = e
      <4>1. invites[j].open /\ user'[e].invite = i
        BY <1>0, <1>3, <3>1, <3>a, <3>2, <3>4
      <4> QED
        BY <3>3, <3>4, <4>1
    <3>5. CASE invites[j].email # e
      <4>1. j # i /\ user'[invites[j].email] = user[invites[j].email]
        BY <1>b, <1>3, <3>1, <3>a, <3>5
      <4> QED
        BY <3>2, <3>3, <4>1
    <3> QED
      BY <3>4, <3>5
  <2> QED
    BY <2>1, <2>2 DEF Matched
<1>8. Single(user', platform')
  BY <1>3 DEF AccountsInv, Single
<1> QED
  BY <1>4, <1>5, <1>6, <1>7, <1>8 DEF AccountsInv

\* An invitation more.
LEMMA NewInvitation ==
  ASSUME AccountsInv, NEW e \in Emails, NEW role \in {"admin", "user"}, Invite(e, role)
  PROVE  AccountsInv'
<1> DEFINE n == Len(invites)
           x == [email |-> e, role |-> role, open |-> TRUE]
<1>0. /\ invites \in Seq(Invitation) /\ n \in Nat /\ DOMAIN invites = 1..n
      /\ user \in [Emails -> UserRow(n)] /\ user[e].role = "none"
      /\ \A j \in 1..n : invites[j] \in Invitation
  BY DEF AccountsInv, Typed, Invite, Exists
<1>1. /\ invites' = Append(invites, x) /\ UNCHANGED <<user, platform, links, lock, task>>
      /\ x \in Invitation /\ x.open = TRUE /\ x.email = e
  BY DEF Invite, Invitation
<1> HIDE DEF x
<1>2. /\ invites' \in Seq(Invitation) /\ Len(invites') = n + 1 /\ DOMAIN invites' = 1..(n + 1)
      /\ invites'[n + 1] = x /\ \A j \in 1..n : invites'[j] = invites[j]
  BY <1>0, <1>1
<1>3. \A d \in Emails : user[d] \in UserRow(n + 1) /\ user[d].invite \in 0..n
  BY <1>0 DEF UserRow
<1>4. Typed'
  BY <1>0, <1>1, <1>2, <1>3 DEF AccountsInv, Typed
<1>5. \A p \in Requests : Ready(task'[p], invites', links')
  BY <1>0, <1>1, <1>2 DEF AccountsInv, Ready
<1>6. Matched(user', invites')
  <2>1. ASSUME NEW j \in 1..n
        PROVE  ~invites'[j].open <=> user'[invites'[j].email].invite = j
    BY <1>0, <1>1, <1>2 DEF AccountsInv, Matched
  <2>2. ~invites'[n + 1].open <=> user'[invites'[n + 1].email].invite = n + 1
    BY <1>0, <1>1, <1>2, <1>3
  <2>3. 1..(n + 1) = 1..n \union {n + 1}
    BY <1>0
  <2> QED
    BY <1>1, <1>2, <2>1, <2>2, <2>3 DEF AccountsInv, Matched
<1> QED
  BY <1>1, <1>4, <1>5, <1>6 DEF AccountsInv

\* The commit of a request about links: some are spent, none is taken back, and no other
\* request is at one of them.
LEMMA LinkWrite ==
  ASSUME AccountsInv, NEW q \in Requests, Done(q), links' \in Seq(Link),
         Len(links') >= Len(links),
         \A l \in 1..Len(links) : /\ links'[l].email = links[l].email
                                  /\ \/ links'[l].used = links[l].used
                                     \/ \A p \in Requests \ {q} :
                                           ~(task[p].pc = "resetting" /\ task[p].item = l),
         Spent(links'), lock' = lock, UNCHANGED <<user, platform, invites>>
  PROVE  AccountsInv'
<1>1. task' \in [Requests -> Task] /\ task'[q] = Idle /\ \A p \in Requests : p # q => task'[p] = task[p]
  BY IdleTask DEF AccountsInv, Typed, Step, Done
<1>2. Typed'
  BY <1>1 DEF AccountsInv, Typed
<1>3. /\ DOMAIN links = 1..Len(links) /\ DOMAIN links' = 1..Len(links')
      /\ Len(links) \in Nat /\ Len(links') \in Nat
  BY DEF AccountsInv, Typed
<1>4. ASSUME NEW p \in Requests, p # q PROVE Ready(task[p], invites, links')
  <2>1. Ready(task[p], invites, links) /\ task[p] \in Task
    BY DEF AccountsInv, Typed
  <2> QED
    BY <1>3, <1>4, <2>1 DEF Ready
<1>5. Apart(task')
  BY <1>1, IdleTask DEF AccountsInv, Apart
<1> QED
  BY <1>1, <1>2, <1>4, <1>5, IdleTask DEF AccountsInv

\* A new link spends those that the request found, but for the ones in use.
LEMMA SafeNewLink ==
  ASSUME AccountsInv, NEW q \in Requests, NewLink(q)
  PROVE  AccountsInv'
<1> DEFINE r == task[q]
           n == Len(links)
           nowUsed == [l \in DOMAIN links |->
                       IF l \in r.targets THEN [links[l] EXCEPT !.used = TRUE] ELSE links[l]]
           x == [email |-> r.email, used |-> FALSE, resets |-> 0]
<1>0. /\ links \in Seq(Link) /\ n \in Nat /\ DOMAIN links = 1..n /\ r \in Task
      /\ r.pc = "linking" /\ r.email \in Emails /\ Done(q) /\ lock' = lock
      /\ UNCHANGED <<user, platform, invites>> /\ links' = Append(nowUsed, x)
      /\ r.targets \cap LinkRows(r.email) \cap HeldLinks = {}
      /\ \A l \in r.targets : l \in DOMAIN links /\ links[l].email = r.email
      /\ Spent(links)
  BY DEF AccountsInv, Typed, Ready, NewLink
<1>1. \A l \in 1..n : links[l] \in Link
  BY <1>0
<1>2. ASSUME NEW l \in 1..n
      PROVE  /\ nowUsed[l] \in Link /\ nowUsed[l].email = links[l].email
             /\ nowUsed[l].resets = links[l].resets
             /\ IF l \in r.targets THEN nowUsed[l].used = TRUE ELSE nowUsed[l] = links[l]
  <2>1. nowUsed[l] = IF l \in r.targets THEN [links[l] EXCEPT !.used = TRUE] ELSE links[l]
    BY <1>0
  <2> HIDE DEF nowUsed
  <2> QED
    BY <1>1, <2>1 DEF Link
<1>3. nowUsed \in Seq(Link) /\ Len(nowUsed) = n
  <2>1. nowUsed = [l \in 1..n |-> nowUsed[l]]
    BY <1>0
  <2>2. \A l \in 1..n : nowUsed[l] \in Link
    BY <1>2
  <2> HIDE DEF nowUsed
  <2>3. n \in Nat
    BY <1>0
  <2> HIDE DEF n
  <2> QED
    BY <2>1, <2>2, <2>3
<1>4. x \in Link /\ x.resets = 0
  BY <1>0 DEF Link
<1> HIDE DEF nowUsed, x
<1>5. /\ links' \in Seq(Link) /\ Len(links') = n + 1 /\ links'[n + 1] = x
      /\ \A l \in 1..n : links'[l] = nowUsed[l]
  BY <1>0, <1>3, <1>4
<1>6. Spent(links')
  <2>1. DOMAIN links' = 1..n \union {n + 1}
    BY <1>0, <1>5
  <2>2. \A l \in 1..n : links'[l].resets = 1 => links'[l].used
    BY <1>0, <1>2, <1>5 DEF Spent
  <2> QED
    BY <1>4, <1>5, <2>1, <2>2 DEF Spent
<1>7. ASSUME NEW l \in 1..n, links'[l].used # links[l].used, NEW p \in Requests \ {q},
             task[p].pc = "resetting", task[p].item = l
      PROVE  FALSE
  <2>1. l \in r.targets /\ links'[l].used = TRUE
    BY <1>2, <1>5, <1>7
  <2>2. l \in HeldLinks
    BY <1>7 DEF HeldLinks
  <2>3. l \in LinkRows(r.email)
    BY <1>0, <1>1, <1>7, <2>1 DEF LinkRows, Link
  <2> QED
    BY <1>0, <2>1, <2>2, <2>3
<1>8. \A l \in 1..n : /\ links'[l].email = links[l].email
                      /\ \/ links'[l].used = links[l].used
                         \/ \A p \in Requests \ {q} : ~(task[p].pc = "resetting" /\ task[p].item = l)
  BY <1>2, <1>5, <1>7
<1>9. Len(links') >= n
  BY <1>0, <1>5
<1> QED
  BY <1>0, <1>5, <1>6, <1>8, <1>9, LinkWrite

\* A reset spends its link.
LEMMA SafeReset ==
  ASSUME AccountsInv, NEW q \in Requests, Reset(q)
  PROVE  AccountsInv'
<1> DEFINE r == task[q]
           l == r.item
           n == Len(links)
<1>0. /\ links \in Seq(Link) /\ n \in Nat /\ DOMAIN links = 1..n /\ r \in Task
      /\ r.pc = "resetting" /\ l \in 1..n /\ (~r.seen => ~links[l].used) /\ Done(q)
      /\ lock' = lock /\ UNCHANGED <<user, platform, invites>> /\ Spent(links)
      /\ \A k \in 1..n : links[k] \in Link
  BY DEF AccountsInv, Typed, Ready, Reset
<1>1. CASE links' = links
  BY <1>0, <1>1, LinkWrite
<1>2. CASE ~r.seen /\ links' = [links EXCEPT ![l].used = TRUE, ![l].resets = @ + 1]
  <2> DEFINE x == [links[l] EXCEPT !.used = TRUE, !.resets = 1]
  <2>1. links[l] \in Link /\ links[l].resets = 0
    BY <1>0, <1>2 DEF Spent, Link
  <2>2. links' = [links EXCEPT ![l] = x]
    BY <1>0, <1>2, <2>1 DEF Link
  <2>3. x \in Link /\ x.used = TRUE /\ x.email = links[l].email
    BY <2>1 DEF Link
  <2> HIDE DEF x
  <2>4. /\ links' \in Seq(Link) /\ Len(links') = n /\ links'[l] = x
        /\ \A k \in 1..n : k # l => links'[k] = links[k]
    BY <1>0, <2>2, <2>3
  <2>5. Spent(links')
    BY <1>0, <2>3, <2>4 DEF Spent
  <2>6. \A p \in Requests \ {q} : ~(task[p].pc = "resetting" /\ task[p].item = l)
    BY <1>0 DEF AccountsInv, Apart
  <2> QED
    BY <1>0, <2>3, <2>4, <2>5, <2>6, LinkWrite
<1> QED
  BY <1>1, <1>2 DEF Reset

\* An account switched off or on, or given another role; a superadmin's stays as it is.
LEMMA SafeSet ==
  ASSUME AccountsInv, NEW e \in Emails,
         SetActive(e) \/ \E role \in {"admin", "user"} : SetRole(e, role)
  PROVE  AccountsInv'
<1>0. /\ user \in [Emails -> UserRow(Len(invites))] /\ user[e] \in UserRow(Len(invites))
      /\ user[e].role \in {"admin", "user"} /\ UNCHANGED <<platform, invites, links, lock, task>>
  BY DEF AccountsInv, Typed, SetActive, SetRole
<1>1. PICK x \in UserRow(Len(invites)) : /\ user' = [user EXCEPT ![e] = x]
                                         /\ x.role \in {"admin", "user"}
                                         /\ x.invite = user[e].invite
  <2>1. CASE SetActive(e)
    <3> DEFINE x == [user[e] EXCEPT !.active = ~user[e].active]
    <3>1. x \in UserRow(Len(invites)) /\ x.role = user[e].role /\ x.invite = user[e].invite
      BY <1>0 DEF UserRow
    <3>2. user' = [user EXCEPT ![e] = x]
      BY <1>0, <2>1 DEF SetActive
    <3> QED
      BY <1>0, <3>1, <3>2
  <2>2. ASSUME NEW role \in {"admin", "user"}, SetRole(e, role)
        PROVE  \E x \in UserRow(Len(invites)) : /\ user' = [user EXCEPT ![e] = x]
                                                /\ x.role \in {"admin", "user"}
                                                /\ x.invite = user[e].invite
    <3> DEFINE x == [user[e] EXCEPT !.role = role]
    <3>1. x \in UserRow(Len(invites)) /\ x.role = role /\ x.invite = user[e].invite
      BY <1>0 DEF UserRow
    <3>2. user' = [user EXCEPT ![e] = x]
      BY <1>0, <2>2 DEF SetRole
    <3> QED
      BY <3>1, <3>2
  <2> QED
    BY <2>1, <2>2
<1>2. /\ user' \in [Emails -> UserRow(Len(invites))] /\ user'[e] = x
      /\ \A d \in Emails : d # e => user'[d] = user[d]
  BY <1>0, <1>1
<1>3. Typed'
  BY <1>0, <1>2 DEF AccountsInv, Typed
<1>4. Matched(user', invites')
  <2>1. \A i \in DOMAIN invites : invites[i].email \in Emails
    <3>1. \A i \in DOMAIN invites : invites[i] \in Invitation
      BY DEF AccountsInv, Typed
    <3> QED
      BY <3>1 DEF Invitation
  <2>2. \A d \in Emails : user'[d].invite = user[d].invite
    BY <1>1, <1>2
  <2> QED
    BY <1>0, <1>1, <1>2, <2>1, <2>2 DEF AccountsInv, Matched
<1>5. Single(user', platform')
  BY <1>0, <1>1, <1>2 DEF AccountsInv, Single
<1> QED
  BY <1>0, <1>3, <1>4, <1>5 DEF AccountsInv

\* The steps that read, and those that end with nothing written.
LEMMA SafeRead ==
  ASSUME AccountsInv, NEW q \in Requests,
         \/ \E e \in Emails : RegisterLock(q, e) \/ BootstrapCheck(q, e) \/ RequestReset(q, e)
         \/ \E id \in Identities, e \in Emails : ProvisionRead(q, id, e)
         \/ RegisterCheck(q) \/ Drop(q)
         \/ \E i \in DOMAIN invites : AcceptRead(q, i)
         \/ \E l \in DOMAIN links : ResetLock(q, l)
  PROVE  AccountsInv'
<1>0. /\ invites \in Seq(Invitation) /\ links \in Seq(Link)
      /\ DOMAIN invites \subseteq Nat /\ DOMAIN links \subseteq Nat
      /\ lock \in Requests \union {None}
      /\ task[q] \in Task /\ Ready(task[q], invites, links)
  BY DEF AccountsInv, Typed
<1>1. ASSUME Done(q), lock' \in Requests \union {None}, UNCHANGED <<user, platform, invites, links>>
      PROVE  AccountsInv'
  BY <1>1, IdleTask, OnlyTask DEF Done
<1>2. ASSUME NEW e \in Emails, RegisterLock(q, e) PROVE AccountsInv'
  <2> DEFINE r == [Idle EXCEPT !.pc = "waiting", !.email = e]
  <2>1. r \in Task /\ r.pc = "waiting" /\ r.email = e
    BY DEF Idle, Task, Kinds, None
  <2> QED
    BY <1>2, <2>1, OnlyTask DEF RegisterLock, Ready
<1>3. ASSUME NEW e \in Emails, BootstrapCheck(q, e) PROVE AccountsInv'
  <2> DEFINE r == [Idle EXCEPT !.pc = "bootstrapping", !.email = e]
  <2>1. r \in Task /\ r.pc = "bootstrapping" /\ r.email = e
    BY DEF Idle, Task, Kinds, None
  <2> QED
    BY <1>0, <1>3, <2>1, OnlyTask DEF BootstrapCheck, Ready
<1>4. ASSUME NEW e \in Emails, RequestReset(q, e) PROVE AccountsInv'
  <2> DEFINE r == [Idle EXCEPT !.pc = "linking", !.email = e, !.targets = LinkRows(e)]
  <2>1. LinkRows(e) \in SUBSET Nat /\ \A l \in LinkRows(e) : l \in DOMAIN links /\ links[l].email = e
    BY <1>0 DEF LinkRows
  <2>2. r \in Task /\ r.pc = "linking" /\ r.email = e /\ r.targets = LinkRows(e)
    BY <2>1 DEF Idle, Task, Kinds, None
  <2>3. Ready(r, invites, links)
    BY <2>1, <2>2 DEF Ready
  <2> QED
    BY <1>0, <1>4, <2>2, <2>3, OnlyTask DEF RequestReset
<1>5. ASSUME NEW id \in Identities, NEW e \in Emails, ProvisionRead(q, id, e) PROVE AccountsInv'
  <2> DEFINE r == [Idle EXCEPT !.pc = "provisioning", !.email = e, !.id = id]
  <2>1. r \in Task /\ r.pc = "provisioning" /\ r.email = e /\ r.id = id
    BY DEF Idle, Task, Kinds, None
  <2> QED
    BY <1>0, <1>5, <2>1, OnlyTask DEF ProvisionRead, Ready
<1>6. CASE RegisterCheck(q)
  <2>1. CASE Superadmins # {}
    BY <1>1, <1>6, <2>1 DEF RegisterCheck
  <2>2. CASE Superadmins = {}
    <3> DEFINE r == [task[q] EXCEPT !.pc = "registering"]
    <3>1. r \in Task /\ r.pc = "registering" /\ r.email = task[q].email
      BY <1>0 DEF Task, Kinds
    <3>2. task[q].email \in Emails
      BY <1>0, <1>6 DEF RegisterCheck, Ready
    <3> QED
      BY <1>0, <1>6, <2>2, <3>1, <3>2, OnlyTask DEF RegisterCheck, Ready
  <2> QED
    BY <2>1, <2>2
<1>7. CASE Drop(q)
  BY <1>0, <1>1, <1>7 DEF Drop
<1>8. ASSUME NEW i \in DOMAIN invites, AcceptRead(q, i) PROVE AccountsInv'
  <2> DEFINE r == [Idle EXCEPT !.pc = "accepting", !.item = i]
  <2>1. r \in Task /\ r.pc = "accepting" /\ r.item = i
    BY <1>0 DEF Idle, Task, Kinds, None
  <2> QED
    BY <1>0, <1>8, <2>1, OnlyTask DEF AcceptRead, Ready
<1>9. ASSUME NEW l \in DOMAIN links, ResetLock(q, l) PROVE AccountsInv'
  <2> DEFINE r == [Idle EXCEPT !.pc = "resetting", !.item = l, !.seen = links[l].used]
  <2>1. links[l] \in Link
    BY <1>0
  <2>2. r \in Task /\ r.pc = "resetting" /\ r.item = l /\ r.seen = links[l].used
    BY <1>0, <2>1 DEF Idle, Task, Kinds, None, Link
  <2>3. \A p \in Requests : ~(task[p].pc = "resetting" /\ task[p].item = l)
    BY <1>9 DEF ResetLock, HeldLinks
  <2>4. Ready(r, invites, links)
    BY <2>2 DEF Ready
  <2> QED
    BY <1>0, <1>9, <2>2, <2>3, <2>4, OnlyTask DEF ResetLock
<1> QED
  BY <1>2, <1>3, <1>4, <1>5, <1>6, <1>7, <1>8, <1>9

\* The commits that make an account, or are rolled back.
LEMMA SafeCommit ==
  ASSUME AccountsInv, NEW q \in Requests,
         CreateSuperadmin(q) \/ AcceptCommit(q) \/ ProvisionCommit(q)
  PROVE  AccountsInv'
<1>0. /\ invites \in Seq(Invitation) /\ lock \in Requests \union {None}
      /\ task[q] \in Task /\ Ready(task[q], invites, links) /\ Done(q)
      /\ Len(invites) \in Nat /\ DOMAIN invites = 1..Len(invites)
  BY DEF AccountsInv, Typed, CreateSuperadmin, AcceptCommit, ProvisionCommit
<1>1. ASSUME lock' \in Requests \union {None}, UNCHANGED <<user, platform, invites, links>>
      PROVE  AccountsInv'
  BY <1>0, <1>1, IdleTask, OnlyTask DEF Done
<1>2. CASE CreateSuperadmin(q)
  <2>1. task[q].email \in Emails /\ lock' \in Requests \union {None}
    BY <1>0, <1>2 DEF CreateSuperadmin, Ready
  <2>2. CASE Clash(q)
    BY <1>1, <1>2, <2>1, <2>2 DEF CreateSuperadmin
  <2>3. CASE ~Clash(q)
    <3>1. /\ ~platform /\ platform' = TRUE /\ ~Exists(task[q].email)
          /\ user' = [user EXCEPT ![task[q].email] = Account("superadmin", None, 0)]
          /\ UNCHANGED <<invites, links>>
      BY <1>2, <2>3 DEF CreateSuperadmin, Clash, None
    <3>2. 0 \in 0..Len(invites)
      BY <1>0
    <3> QED
      BY <1>0, <2>1, <3>1, <3>2, NewUser
  <2> QED
    BY <2>2, <2>3
<1>3. CASE AcceptCommit(q)
  <2> DEFINE i == task[q].item
  <2>1. i \in 1..Len(invites) /\ invites[i] \in Invitation /\ UNCHANGED <<platform, links, lock>>
    BY <1>0, <1>3 DEF AcceptCommit, Ready
  <2>2. invites[i].email \in Emails /\ invites[i].role \in {"admin", "user"}
    BY <2>1 DEF Invitation
  <2>3. CASE Exists(invites[i].email)
    BY <1>0, <1>1, <1>3, <2>1, <2>3 DEF AcceptCommit
  <2>4. CASE ~Exists(invites[i].email)
    <3>1. /\ user' = [user EXCEPT ![invites[i].email] = Account(invites[i].role, None, i)]
          /\ invites' = [invites EXCEPT ![i].open = FALSE]
      BY <1>3, <2>4 DEF AcceptCommit
    <3>2. i \in 0..Len(invites) /\ i # 0
      BY <1>0, <2>1
    <3> HIDE DEF i
    <3> QED
      BY <1>0, <2>1, <2>2, <2>4, <3>1, <3>2, NewUser
  <2> QED
    BY <2>3, <2>4
<1>4. CASE ProvisionCommit(q)
  <2>1. task[q].email \in Emails /\ task[q].id \in Identities
    BY <1>0, <1>4 DEF ProvisionCommit, Ready
  <2>2. CASE user' = user
    BY <1>0, <1>1, <1>4, <2>2 DEF ProvisionCommit
  <2>3. CASE /\ ~Exists(task[q].email)
             /\ user' = [user EXCEPT ![task[q].email] = Account("user", task[q].id, 0)]
    <3>1. 0 \in 0..Len(invites)
      BY <1>0
    <3> QED
      BY <1>0, <1>4, <2>1, <2>3, <3>1, NewUser DEF ProvisionCommit
  <2> QED
    BY <1>4, <2>2, <2>3 DEF ProvisionCommit, None
<1> QED
  BY <1>2, <1>3, <1>4

\* Every step keeps it.
LEMMA AccountsNext == AccountsInv /\ [Next]_accountVars => AccountsInv'
<1> SUFFICES ASSUME AccountsInv, [Next]_accountVars PROVE AccountsInv'
  OBVIOUS
<1>1. CASE UNCHANGED accountVars
  BY <1>1 DEF accountVars, AccountsInv, Typed
<1>2. CASE Next
  BY <1>2, SafeRead, SafeCommit, SafeSet, SafeNewLink, SafeReset, NewInvitation DEF Next
<1> QED
  BY <1>1, <1>2

\* The invariant holds throughout.
LEMMA AccountsAlways == Spec => []AccountsInv
BY AccountsInit, AccountsNext, PTL DEF Spec

\* However registrations and the bootstrap command race, there is one superadmin at most:
\* register_first_superadmin, bootstrap_superadmin.
THEOREM OneSuperadminAlways == Spec => []OneSuperadmin
<1>1. ASSUME AccountsInv PROVE OneSuperadmin
  <2>1. CASE Superadmins = {}
    BY <2>1, FS_EmptySet DEF OneSuperadmin
  <2>2. ASSUME NEW e \in Superadmins PROVE OneSuperadmin
    <3>1. Superadmins = {e}
      BY <1>1, <2>2 DEF AccountsInv, Single, Superadmins
    <3> QED
      BY <3>1, FS_Singleton DEF OneSuperadmin
  <2> QED
    BY <2>1, <2>2
<1> QED
  BY <1>1, AccountsAlways, PTL

\* An invitation is closed exactly when the account made from it exists, and a reset link
\* replaces a password at most once: accept_invitation, reset_password.
THEOREM SpentOnceAlways == Spec => []SpentOnce
<1>1. ASSUME AccountsInv PROVE SpentOnce
  <2>1. \A l \in DOMAIN links : links[l] \in Link
    BY <1>1 DEF AccountsInv, Typed
  <2>2. \A l \in DOMAIN links : links[l].resets <= 1
    BY <2>1 DEF Link
  <2> QED
    BY <1>1, <2>2 DEF AccountsInv, Matched, SpentOnce
<1> QED
  BY <1>1, AccountsAlways, PTL

-----------------------------------------------------------------------------
\* DeviceLogin.  One operation at a time has a record in hand, and it is the
\* one on file: nothing else can replace it before the operation is through.
SignIn == [id : 0..MaxLogins, grant : BOOLEAN,
           state : {"none", "pending", "authorised", "cancelled", "failed", "expired"}]
Held == [of : 0..MaxLogins, token : Nat]
Call == [op : {"idle", "poll", "refresh"}, rec : SignIn, cred : Held,
         answer : {"none", "wait", "grant", "tokens", "refused"}]

DeviceTyped ==
    /\ login \in SignIn /\ stored \in Held
    /\ issued \in [1..MaxLogins -> Nat] /\ calls \in [Clients -> Call]

OneAtATime(cs) == \A c, d \in Clients : cs[c].op # "idle" /\ cs[d].op # "idle" => c = d

\* The sign-in shown is the last one begun, and one that waits was not ended.
Shown(l, over, used, gone) ==
    /\ over \subseteq 1..l.id /\ used \subseteq 1..l.id /\ gone \subseteq 1..l.id
    /\ l.state = "pending" => l.id # 0 /\ l.id \notin gone

\* A credential comes from a code that was used, of a sign-in that stands.
Filed(s, used, gone) ==
    IF s.of = 0 THEN s.token = 0 ELSE s.of \in used /\ s.of \notin gone

InHand(r, l, s, used, tokens) ==
    /\ r.op = "poll" => r.rec = l /\ l.state = "pending"
    /\ r.op = "poll" /\ r.answer = "tokens" => l.id \in used /\ tokens[l.id] = 1
    /\ r.op = "refresh" =>
         r.cred = s /\ s.of # 0 /\ r.answer \in {"none", "tokens", "refused"}

Refreshed(cs) == \E c \in Clients : cs[c].op = "refresh" /\ cs[c].answer = "tokens"

\* The token on file is the provider's last, but for an answer not yet committed.
Current(s, tokens, unread, cs) ==
    s.of # 0 /\ s.of \notin unread /\ ~Refreshed(cs) => s.token = tokens[s.of]

DeviceInv ==
    /\ DeviceTyped /\ OneAtATime(calls) /\ Shown(login, lapsed, spent, ended)
    /\ Filed(stored, spent, ended)
    /\ \A c \in Clients : InHand(calls[c], login, stored, spent, issued)
    /\ Current(stored, issued, cut, calls)

\* No sign-in was begun and no credential is there at the start.
LEMMA DeviceInit == MaxLogins \in Nat /\ Device!Init => DeviceInv
BY DEF Device!Init, Device!NoLogin, Device!Nothing, Device!Idle, Device!Logins, DeviceInv,
       DeviceTyped, SignIn, Held, Call, OneAtATime, Shown, Filed, InHand, Current

\* An operation that holds the lock alone leaves the invariant to what it writes itself.
LEMMA WhileFree ==
  ASSUME MaxLogins \in Nat, DeviceInv, Device!Free, UNCHANGED calls,
         login' \in SignIn, stored' \in Held, UNCHANGED <<issued, cut>>,
         Shown(login', lapsed', spent', ended'), Filed(stored', spent', ended'),
         stored' = stored \/ stored'.of = 0
  PROVE  DeviceInv'
<1>1. \A c \in Clients : calls'[c].op = "idle"
  BY DEF Device!Free
<1>2. DeviceTyped' /\ OneAtATime(calls')
  BY <1>1 DEF DeviceInv, DeviceTyped, OneAtATime
<1>3. \A c \in Clients : InHand(calls'[c], login', stored', spent', issued')
  BY <1>1 DEF InHand
<1>4. Current(stored', issued', cut', calls')
  BY DEF DeviceInv, Current, Refreshed
<1> QED
  BY <1>2, <1>3, <1>4 DEF DeviceInv

\* One operation's record changes while no other has one.
LEMMA CallStep ==
  ASSUME MaxLogins \in Nat, DeviceInv, NEW c \in Clients, NEW r \in Call,
         calls' = [calls EXCEPT ![c] = r], UNCHANGED <<lapsed, ended>>,
         \/ Device!Free
         \/ calls[c].op # "idle",
         login' \in SignIn, stored' \in Held, issued' \in [1..MaxLogins -> Nat],
         Shown(login', lapsed, spent', ended), Filed(stored', spent', ended),
         InHand(r, login', stored', spent', issued'),
         ~(r.op = "refresh" /\ r.answer = "tokens") =>
             (stored'.of # 0 /\ stored'.of \notin cut' => stored'.token = issued'[stored'.of])
  PROVE  DeviceInv'
<1>1. calls' \in [Clients -> Call] /\ calls'[c] = r /\ \A d \in Clients \ {c} : calls'[d].op = "idle"
  BY DEF DeviceInv, DeviceTyped, OneAtATime, Device!Free
<1>2. DeviceTyped' /\ OneAtATime(calls')
  BY <1>1 DEF DeviceTyped, OneAtATime
<1>3. \A d \in Clients : InHand(calls'[d], login', stored', spent', issued')
  BY <1>1 DEF InHand
<1>4. Current(stored', issued', cut', calls')
  BY <1>1 DEF Current, Refreshed
<1> QED
  BY <1>2, <1>3, <1>4 DEF DeviceInv

\* What is known of the operation that has the lock, and of the credential under it.
LEMMA TheCall ==
  ASSUME MaxLogins \in Nat, DeviceInv, NEW c \in Clients, Device!Free \/ calls[c].op # "idle",
         ~(calls[c].op = "refresh" /\ calls[c].answer = "tokens")
  PROVE  stored.of # 0 /\ stored.of \notin cut => stored.token = issued[stored.of]
BY DEF DeviceInv, DeviceTyped, OneAtATime, Current, Refreshed, Device!Free

\* Every step of the sign-in keeps the invariant.
LEMMA DeviceStep ==
  ASSUME MaxLogins \in Nat, DeviceInv, Device!Next
  PROVE  DeviceInv'
<1>0. /\ login \in SignIn /\ login.id \in 0..MaxLogins /\ stored \in Held
      /\ issued \in [1..MaxLogins -> Nat] /\ calls \in [Clients -> Call]
      /\ Shown(login, lapsed, spent, ended) /\ Filed(stored, spent, ended)
      /\ Current(stored, issued, cut, calls)
  BY DEF DeviceInv, DeviceTyped, SignIn
<1>1. Device!State \in {"none", "pending", "authorised", "cancelled", "failed", "expired"}
  BY <1>0 DEF Device!State, SignIn
<1>2. ASSUME NEW now \in {"none", "pending", "authorised", "cancelled", "failed", "expired"},
             login' = Device!Settled(now), now # "pending"
      PROVE  /\ login' \in SignIn
             /\ \A gone : gone \subseteq 1..login.id => Shown(login', lapsed, spent, gone)
  BY <1>0, <1>2 DEF Device!Settled, SignIn, Shown
<1>idle. /\ Device!Idle \in Call /\ Device!Idle.op = "idle" /\ Device!Idle.answer = "none"
  BY DEF Device!Idle, Device!NoLogin, Device!Nothing, Call, SignIn, Held
<1>3. CASE Device!StartLogin
  <2>1. login' \in SignIn /\ login'.id = login.id + 1 /\ 1..login.id \subseteq 1..login'.id
        /\ login'.id \notin 1..login.id
    BY <1>0, <1>3 DEF Device!StartLogin, SignIn
  <2>2. Shown(login', lapsed, spent, ended)
    BY <1>0, <2>1 DEF Shown
  <2> QED
    BY <1>0, <1>3, <2>1, <2>2, WhileFree DEF Device!StartLogin
<1>4. CASE Device!PollSettled
  <2>1. login' \in SignIn /\ Shown(login', lapsed, spent, ended)
    BY <1>0, <1>1, <1>2, <1>4 DEF Device!PollSettled, Shown
  <2> QED
    BY <1>0, <1>4, <2>1, WhileFree DEF Device!PollSettled
<1>5. CASE Device!CancelLogin
  <2>1. ended' \subseteq 1..login.id
    <3>1. ended' = ended \union ({login.id} \ {0}) /\ ended \subseteq 1..login.id
      BY <1>0, <1>5 DEF Device!CancelLogin, Shown
    <3>2. {login.id} \ {0} \subseteq 1..login.id
      BY <1>0
    <3> QED
      BY <3>1, <3>2
  <2>2. login' \in SignIn /\ Shown(login', lapsed, spent, ended')
    BY <1>0, <1>2, <1>5, <2>1 DEF Device!CancelLogin
  <2>3. stored' \in Held /\ Filed(stored', spent, ended') /\ (stored' = stored \/ stored'.of = 0)
    BY <1>0, <1>5 DEF Device!CancelLogin, Device!TakesBack, Device!Nothing, Held, Filed
  <2> QED
    BY <1>0, <1>5, <2>2, <2>3, WhileFree DEF Device!CancelLogin
<1>6. CASE Device!Disconnect
  <2>1. login' \in SignIn /\ Shown(login', lapsed, spent, ended')
    BY <1>0, <1>2, <1>6 DEF Device!Disconnect
  <2>2. stored' \in Held /\ Filed(stored', spent, ended') /\ stored'.of = 0
    BY <1>0, <1>6 DEF Device!Disconnect, Device!Nothing, Held, Filed
  <2> QED
    BY <1>0, <1>6, <2>1, <2>2, WhileFree DEF Device!Disconnect
<1>7. CASE Device!Lapse
  <2>1. login.id \in 1..login.id
    BY <1>0, <1>7 DEF Device!Lapse, Shown
  <2>2. Shown(login', lapsed', spent', ended')
    BY <1>0, <1>7, <2>1 DEF Device!Lapse, Shown
  <2> QED
    BY <1>0, <1>7, <2>2 DEF Device!Lapse, DeviceInv, DeviceTyped, InHand, Current, Filed
<1>8. ASSUME NEW c \in Clients, Device!Poll(c) PROVE DeviceInv'
  <2> DEFINE r == [Device!Idle EXCEPT !.op = "poll", !.rec = login]
  <2>1. r \in Call /\ r.op = "poll" /\ r.rec = login /\ r.answer = "none"
    BY <1>0, <1>idle DEF Call
  <2>2. calls' = [calls EXCEPT ![c] = r] /\ login.state = "pending" /\ Device!Free
        /\ UNCHANGED <<login, stored, lapsed, spent, issued, ended, cut>>
    BY <1>8 DEF Device!Poll
  <2> HIDE DEF r
  <2>3. InHand(r, login', stored', spent', issued')
    BY <2>1, <2>2 DEF InHand
  <2> QED
    BY <1>0, <2>1, <2>2, <2>3, CallStep, TheCall DEF Device!Free
<1>9. ASSUME NEW c \in Clients, Device!Refresh(c) PROVE DeviceInv'
  <2> DEFINE r == [Device!Idle EXCEPT !.op = "refresh", !.cred = stored]
  <2>1. r \in Call /\ r.op = "refresh" /\ r.cred = stored /\ r.answer = "none"
    BY <1>0, <1>idle DEF Call
  <2>2. calls' = [calls EXCEPT ![c] = r] /\ stored # Device!Nothing /\ Device!Free
        /\ UNCHANGED <<login, stored, lapsed, spent, issued, ended, cut>>
    BY <1>9 DEF Device!Refresh
  <2>3. stored.of # 0
    BY <1>0, <2>2 DEF Filed, Held, Device!Nothing
  <2> HIDE DEF r
  <2>4. InHand(r, login', stored', spent', issued')
    BY <2>1, <2>2, <2>3 DEF InHand
  <2> QED
    BY <1>0, <2>1, <2>2, <2>4, CallStep, TheCall DEF Device!Free
<1>10. ASSUME NEW c \in Clients, Device!AnswerPoll(c) PROVE DeviceInv'
  <2>0. calls[c] \in Call /\ InHand(calls[c], login, stored, spent, issued)
        /\ calls[c].op = "poll" /\ calls[c].answer = "none"
    BY <1>0, <1>10 DEF DeviceInv, Device!AnswerPoll
  <2>1. calls[c].rec = login /\ login.state = "pending" /\ login.id \in 1..MaxLogins
    BY <1>0, <2>0 DEF InHand, Shown
  <2>2. PICK a \in {"refused", "wait", "grant", "tokens"} :
          /\ Device!Answered(c, a)
          /\ IF a = "tokens" THEN spent' = spent \union {login.id} /\ issued' = [issued EXCEPT ![login.id] = 1]
                                  /\ login.id \notin spent
             ELSE UNCHANGED <<spent, issued>>
          /\ UNCHANGED <<login, stored, lapsed, ended, cut>>
    BY <1>10, <2>1 DEF Device!AnswerPoll
  <2> DEFINE r == [calls[c] EXCEPT !.answer = a]
  <2>3. r \in Call /\ r.op = "poll" /\ r.rec = login /\ r.answer = a
    BY <2>0, <2>1 DEF Call
  <2>4. calls' = [calls EXCEPT ![c] = r]
    BY <2>2 DEF Device!Answered
  <2> HIDE DEF r
  <2>5. /\ issued' \in [1..MaxLogins -> Nat] /\ Shown(login', lapsed, spent', ended)
        /\ Filed(stored', spent', ended) /\ InHand(r, login', stored', spent', issued')
    <3>1. issued' \in [1..MaxLogins -> Nat] /\ spent \subseteq spent'
      BY <1>0, <2>1, <2>2
    <3>2. login.id \in 1..login.id
      BY <1>0, <2>1
    <3>3. Shown(login', lapsed, spent', ended)
      BY <1>0, <2>2, <3>2 DEF Shown
    <3>4. Filed(stored', spent', ended)
      BY <1>0, <2>2, <3>1 DEF Filed
    <3>5. InHand(r, login', stored', spent', issued')
      BY <1>0, <2>1, <2>2, <2>3 DEF InHand
    <3> QED
      BY <3>1, <3>3, <3>4, <3>5
  <2>6. stored.of # 0 /\ stored.of \notin cut => stored.token = issued'[stored.of]
    BY <1>0, <2>0, <2>1, <2>2, TheCall DEF Filed, Held
  <2> QED
    BY <1>0, <2>0, <2>2, <2>3, <2>4, <2>5, <2>6, CallStep
<1>11. ASSUME NEW c \in Clients, Device!AnswerRefresh(c) PROVE DeviceInv'
  <2>0. calls[c] \in Call /\ InHand(calls[c], login, stored, spent, issued)
        /\ calls[c].op = "refresh" /\ calls[c].answer = "none"
    BY <1>0, <1>11 DEF DeviceInv, Device!AnswerRefresh
  <2>1. calls[c].cred = stored /\ stored.of \in 1..MaxLogins
    BY <1>0, <2>0 DEF InHand, Held
  <2>2. PICK a \in {"refused", "tokens"} :
          /\ Device!Answered(c, a)
          /\ IF a = "tokens" THEN issued' = [issued EXCEPT ![stored.of] = @ + 1] ELSE issued' = issued
          /\ UNCHANGED <<login, stored, lapsed, spent, ended, cut>>
    BY <1>11, <2>1 DEF Device!AnswerRefresh
  <2> DEFINE r == [calls[c] EXCEPT !.answer = a]
  <2>3. r \in Call /\ r.op = "refresh" /\ r.cred = stored /\ r.answer = a
    BY <2>0, <2>1 DEF Call
  <2>4. calls' = [calls EXCEPT ![c] = r]
    BY <2>2 DEF Device!Answered
  <2> HIDE DEF r
  <2>5. /\ issued' \in [1..MaxLogins -> Nat] /\ InHand(r, login', stored', spent', issued')
    BY <1>0, <2>1, <2>2, <2>3 DEF InHand
  <2>6. a # "tokens" => (stored.of # 0 /\ stored.of \notin cut => stored.token = issued'[stored.of])
    BY <2>0, <2>2, TheCall
  <2> QED
    BY <1>0, <2>0, <2>2, <2>3, <2>4, <2>5, <2>6, CallStep
<1>12. ASSUME NEW c \in Clients, Device!FinishPoll(c) PROVE DeviceInv'
  <2> DEFINE a == calls[c].answer
  <2>0. calls[c] \in Call /\ InHand(calls[c], login, stored, spent, issued) /\ calls[c].op = "poll"
        /\ a \in {"wait", "grant", "tokens", "refused"}
    BY <1>0, <1>12 DEF DeviceInv, Device!FinishPoll, Call
  <2>1. /\ calls[c].rec = login /\ login.state = "pending" /\ login.id \in 1..MaxLogins
        /\ login.id \notin ended /\ (a = "tokens" => login.id \in spent /\ issued[login.id] = 1)
    BY <1>0, <2>0 DEF InHand, Shown
  <2>2. login' \in SignIn /\ login'.id = login.id
    BY <1>0, <1>12, <2>0, <2>1 DEF Device!FinishPoll, SignIn
  <2>3. /\ stored' \in Held /\ Filed(stored', spent, ended)
        /\ stored'.of # 0 /\ stored'.of \notin cut => stored'.token = issued[stored'.of]
    <3>1. CASE a = "tokens" /\ login.id \notin lapsed
      <4>1. stored' = [of |-> login.id, token |-> 1]
        BY <1>12, <2>1, <3>1 DEF Device!FinishPoll
      <4> QED
        BY <2>1, <3>1, <4>1 DEF Held, Filed
    <3>2. CASE ~(a = "tokens" /\ login.id \notin lapsed)
      <4>1. stored' = stored
        BY <1>12, <2>1, <3>2 DEF Device!FinishPoll
      <4> QED
        BY <1>0, <2>0, <4>1, TheCall
    <3> QED
      BY <3>1, <3>2
  <2>4. Shown(login', lapsed, spent, ended)
    BY <1>0, <2>1, <2>2 DEF Shown
  <2> QED
    BY <1>0, <1>12, <2>0, <2>2, <2>3, <2>4, <1>idle, CallStep DEF Device!FinishPoll, InHand
<1>13. ASSUME NEW c \in Clients, Device!FinishRefresh(c) PROVE DeviceInv'
  <2>0. InHand(calls[c], login, stored, spent, issued) /\ calls[c].op = "refresh"
    BY <1>13 DEF DeviceInv, Device!FinishRefresh
  <2>1. calls[c].cred = stored /\ stored.of \in 1..MaxLogins
    BY <1>0, <2>0 DEF InHand, Held
  <2>2. /\ stored' \in Held /\ Filed(stored', spent, ended)
        /\ stored'.of # 0 /\ stored'.of \notin cut => stored'.token = issued[stored'.of]
    BY <1>0, <1>13, <2>0, <2>1, TheCall DEF Device!FinishRefresh, Held, Filed
  <2> QED
    BY <1>0, <1>13, <2>0, <2>2, <1>idle, CallStep DEF Device!FinishRefresh, InHand
<1>14. ASSUME NEW c \in Clients, Device!Abort(c) PROVE DeviceInv'
  <2>0. InHand(calls[c], login, stored, spent, issued) /\ calls[c].op # "idle"
    BY <1>14 DEF DeviceInv, Device!Abort
  <2>1. stored.of # 0 /\ stored.of \notin cut' => stored.token = issued[stored.of]
    BY <1>14, <2>0, TheCall DEF Device!Abort, InHand
  <2> QED
    BY <1>0, <1>14, <2>0, <2>1, <1>idle, CallStep DEF Device!Abort, InHand
<1> QED
  BY <1>3, <1>4, <1>5, <1>6, <1>7, <1>8, <1>9, <1>10, <1>11, <1>12, <1>13, <1>14 DEF Device!Next

\* A cancelled or disconnected sign-in leaves no credential behind, and the refresh token
\* on file is the last one the provider issued unless an answer was lost before its commit:
\* cancel_login, poll_login and get_runtime_credentials under _locked.
THEOREM CredentialIsLatestAlways == MaxLogins \in Nat /\ Device!Spec => []Device!CredentialIsLatest
<1> SUFFICES ASSUME MaxLogins \in Nat PROVE Device!Spec => []Device!CredentialIsLatest
  OBVIOUS
<1>1. Device!Init => DeviceInv
  BY DeviceInit
<1>2. DeviceInv /\ [Device!Next]_(Device!deviceVars) => DeviceInv'
  <2> SUFFICES ASSUME DeviceInv, [Device!Next]_(Device!deviceVars) PROVE DeviceInv'
    OBVIOUS
  <2>1. CASE UNCHANGED Device!deviceVars
    BY <2>1 DEF Device!deviceVars, DeviceInv, DeviceTyped, OneAtATime, Shown, Filed, InHand,
                Current, Refreshed
  <2> QED
    BY <2>1, DeviceStep
<1>3. DeviceInv => Device!CredentialIsLatest
  <2> SUFFICES ASSUME DeviceInv PROVE Device!CredentialIsLatest
    OBVIOUS
  <2>1. stored.of \notin ended
    BY DEF DeviceInv, DeviceTyped, SignIn, Filed, Shown
  <2>2. Device!Free /\ stored # Device!Nothing /\ stored.of \notin cut =>
           stored.token = issued[stored.of]
    BY DEF DeviceInv, DeviceTyped, Held, Filed, Current, Refreshed, Device!Free, Device!Nothing
  <2> QED
    BY <2>1, <2>2 DEF Device!CredentialIsLatest
<1> QED
  BY <1>1, <1>2, <1>3, PTL DEF Device!Spec
-----------------------------------------------------------------------------
\* The state of Principals
CONSTANTS Users, Keys, Prefixes, Templates, Granting, MaxLifetime, MaxChanges, MaxTime

VARIABLES member, person, key, hour, asking, lost, raced, changes

Principal == INSTANCE Principals WITH user <- person, clock <- hour, req <- asking

\* What a request has read of a fact stays true of some moment since it began: the facts
\* that it was never with are those it has not come to yet.
Asking == [pc : {"idle", "user", "member", "context", "served", "minting", "ousting"},
           kind : {"none", "person", "key"}, user : Users \union {"none"},
           key : Keys \union {"none"}, sv : Nat, tier : {"none", "user", "admin"},
           custom : Templates \union {"none"}, role : {"none", "owner", "viewer"}, asked : Nat]

Person == [active : BOOLEAN, tier : {"user", "admin"}, custom : Templates \union {"none"},
           sv : Nat]

KeyRow == [user : Users \union {"none"}, prefix : Prefixes \union {"none"}, revoked : BOOLEAN,
           created : Nat, asked : Nat, expires : Nat]

PrincipalTyped ==
    /\ member \in [Users -> {"none", "owner", "viewer"}] /\ person \in [Users -> Person]
    /\ key \in [Keys -> KeyRow] /\ asking \in [Requests -> Asking] /\ hour \in Nat
    /\ lost \in [Requests -> SUBSET Principal!Facts] /\ raced \in BOOLEAN

Verified(r, without) ==
    /\ r.pc \in {"user", "member", "context", "served"} => r.kind # "none"
    /\ r.pc \in {"user", "minting"} => r.user \in Users
    /\ r.pc \in {"user", "member"} => r.kind = "key"
    /\ r.pc \in {"user", "member", "context"} => "key" \notin without /\ "version" \notin without
    /\ r.pc \in {"member", "context"} =>
         /\ "active" \notin without
         /\ "permission" \in without => ~Principal!Permitted(r.tier, r.custom)
    /\ r.pc = "context" /\ "member" \in without => r.kind = "person" /\ r.tier # "admin"
    /\ r.pc = "served" => without = {}

\* A key has an owner, and outlives neither what was asked for it nor the maximum.
Within(k) ==
    /\ k # Principal!NoKey => k.user \in Users
    /\ k.expires <= k.asked /\ k.expires <= k.created + MaxLifetime

\* A test of the last owner that was not overtaken still holds.
Tested(r, ms) ==
    r.pc = "ousting" /\ r.role # "owner" => {u \in Users : ms[u] = "owner"} # {r.user}

PrincipalInv ==
    /\ PrincipalTyped
    /\ \A q \in Requests : Verified(asking[q], lost[q])
    /\ \A k \in Keys : Within(key[k])
    /\ ~raced => \A q \in Requests : Tested(asking[q], member)

PrincipalBounds == MaxLifetime \in Nat /\ MaxTime \in Nat /\ MaxChanges \in Nat

\* Nobody asks for anything at the start.
LEMMA PrincipalInit == PrincipalBounds /\ Principal!Init => PrincipalInv
<1> SUFFICES ASSUME PrincipalBounds, Principal!Init PROVE PrincipalInv
  OBVIOUS
<1>1. Principal!Idle \in Asking /\ Principal!Idle.pc = "idle"
  BY DEF Principal!Idle, Principal!None, Asking
<1>2. Principal!NoKey \in KeyRow /\ Within(Principal!NoKey)
  BY DEF Principal!NoKey, Principal!None, KeyRow, PrincipalBounds, Within
<1>3. PrincipalTyped
  BY <1>1, <1>2 DEF Principal!Init, PrincipalTyped, Principal!Ranks, Principal!None, Person, Principal!Facts
<1>4. \A q \in Requests : asking[q].pc = "idle"
  BY <1>1 DEF Principal!Init
<1> QED
  BY <1>2, <1>3, <1>4 DEF PrincipalInv, Principal!Init, Verified, Tested

\* What is found missing of each fact, in the next state.
LEMMA FoundMissing ==
  ASSUME NEW q \in Requests, asking'[q].kind \in {"person", "key"}
  PROVE  LET r == asking'[q]
             u == person'[r.user]
             k == key'[r.key]
             gone == Principal!Missing(q)'
         IN  /\ "key" \in gone <=> r.kind = "key" /\ ~(/\ ~k.revoked /\ hour' <= k.asked
                                                       /\ hour' <= k.created + MaxLifetime)
             /\ "active" \in gone <=> ~u.active
             /\ "version" \in gone <=> r.kind = "person" /\ u.sv # r.sv
             /\ "member" \in gone <=> ~(\/ member'[r.user] # "none"
                                        \/ r.kind = "person" /\ u.tier = "admin")
             /\ "permission" \in gone <=> ~Principal!Permitted(u.tier, u.custom)
<1> SUFFICES ASSUME NEW f \in Principal!Facts
             PROVE  LET r == asking'[q]
                        u == person'[r.user]
                        k == key'[r.key]
                    IN  f \in Principal!Missing(q)' <=>
                          ~(CASE f = "key" -> r.kind = "key" => (/\ ~k.revoked /\ hour' <= k.asked
                                                       /\ hour' <= k.created + MaxLifetime)
                              [] f = "active" -> u.active
                              [] f = "version" -> r.kind = "person" => u.sv = r.sv
                              [] f = "member" -> member'[r.user] # "none" \/ (r.kind = "person" /\ u.tier = "admin")
                              [] f = "permission" -> Principal!Permitted(u.tier, u.custom))
  BY DEF Principal!Facts
<1> QED
  BY DEF Principal!Missing, Principal!Facts, Principal!None

\* What a request was never with only shrinks while it goes on.
LEMMA Tracked ==
  ASSUME PrincipalInv, Principal!Track
  PROVE  /\ lost' \in [Requests -> SUBSET Principal!Facts]
         /\ \A q \in Requests :
              /\ asking[q].pc = "idle" => lost'[q] = Principal!Missing(q)'
              /\ asking[q].pc = "served" /\ asking'[q].pc = "served" => lost'[q] = lost[q]
              /\ asking[q].pc \notin {"idle", "served"} =>
                   lost'[q] = lost[q] \intersect Principal!Missing(q)'
<1>1. \A q \in Requests : Principal!Missing(q)' \in SUBSET Principal!Facts
  BY DEF Principal!Missing
<1>2. \A q \in Requests : lost[q] \in SUBSET Principal!Facts
  BY DEF PrincipalInv, PrincipalTyped
<1>3. \A q \in Requests :
        lost'[q] = CASE asking[q].pc = "idle" -> Principal!Missing(q)'
                     [] asking[q].pc = "served" ->
                          IF asking'[q].pc = "served" THEN lost[q] ELSE {}
                     [] OTHER -> lost[q] \intersect Principal!Missing(q)'
  BY DEF Principal!Track
<1>4. lost' = [q \in Requests |-> lost'[q]]
  BY DEF Principal!Track
<1>5. \A q \in Requests : lost'[q] \in SUBSET Principal!Facts
  BY <1>1, <1>2, <1>3
<1> QED
  BY <1>3, <1>4, <1>5

\* A request that a step leaves alone.
LEMMA OthersVerified ==
  ASSUME PrincipalInv, Principal!Track, NEW p \in Requests, asking'[p] = asking[p]
  PROVE  Verified(asking'[p], lost'[p])
<1>1. Verified(asking[p], lost[p])
  BY DEF PrincipalInv
<1>2. asking[p].pc # "idle" => lost'[p] \subseteq lost[p]
  BY Tracked
<1> QED
  BY <1>1, <1>2 DEF Verified

\* A request that reads, or ends.
LEMMA ReadStep ==
  ASSUME PrincipalInv, Principal!Track, NEW q \in Requests, NEW r \in Asking,
         Principal!Step(q, r), Verified(r, lost'[q]), Tested(r, member),
         UNCHANGED <<member, person, key, hour, raced>>
  PROVE  PrincipalInv'
<1>1. /\ asking' \in [Requests -> Asking] /\ asking'[q] = r
      /\ \A p \in Requests \ {q} : asking'[p] = asking[p]
  BY DEF PrincipalInv, PrincipalTyped, Principal!Step
<1>2. PrincipalTyped'
  BY <1>1, Tracked DEF PrincipalInv, PrincipalTyped
<1>3. \A p \in Requests : Verified(asking'[p], lost'[p])
  BY <1>1, OthersVerified
<1>4. ~raced' => \A p \in Requests : Tested(asking'[p], member')
  BY <1>1 DEF PrincipalInv
<1> QED
  BY <1>2, <1>3, <1>4 DEF PrincipalInv

\* A request that holds nothing.
LEMMA NothingAsked ==
  /\ Principal!Idle \in Asking
  /\ \A without : Verified(Principal!Idle, without)
  /\ \A ms : Tested(Principal!Idle, ms)
BY DEF Principal!Idle, Principal!None, Asking, Verified, Tested

\* Every request ends with nothing in hand.
LEMMA DoneStep ==
  ASSUME PrincipalInv, Principal!Track, NEW q \in Requests, Principal!Done(q),
         UNCHANGED <<member, person, key, hour, raced>>
  PROVE  PrincipalInv'
BY NothingAsked, ReadStep DEF Principal!Done

\* What an administrator or the clock does.
LEMMA RowStep ==
  ASSUME PrincipalInv, Principal!Track, UNCHANGED asking,
         member' \in [Users -> {"none", "owner", "viewer"}], person' \in [Users -> Person],
         key' \in [Keys -> KeyRow], hour' \in Nat, raced' \in BOOLEAN,
         \A k \in Keys : Within(key'[k]),
         ~raced' => \A q \in Requests : Tested(asking[q], member')
  PROVE  PrincipalInv'
<1>1. PrincipalTyped'
  BY Tracked DEF PrincipalInv, PrincipalTyped
<1>2. \A p \in Requests : Verified(asking'[p], lost'[p])
  BY OthersVerified
<1> QED
  BY <1>1, <1>2 DEF PrincipalInv

\* A person's token is checked against the row.
LEMMA LoadUserNext ==
  ASSUME PrincipalBounds, PrincipalInv, Principal!Track, NEW q \in Requests, NEW u \in Users,
         NEW v \in 0..MaxChanges, Principal!LoadUser(q, u, v)
  PROVE  PrincipalInv'
<1> DEFINE r == [Principal!Idle EXCEPT !.pc = "context", !.kind = "person", !.user = u, !.sv = v,
                            !.tier = person[u].tier, !.custom = person[u].custom]
<1>0. person[u] \in Person /\ v \in Nat /\ asking \in [Requests -> Asking]
  BY DEF PrincipalInv, PrincipalTyped, PrincipalBounds
<1>1. /\ r \in Asking /\ r.pc = "context" /\ r.kind = "person" /\ r.user = u /\ r.sv = v
      /\ r.tier = person[u].tier /\ r.custom = person[u].custom
  BY <1>0, NothingAsked DEF Asking, Person
<1>2. /\ Principal!Step(q, r) /\ asking[q].pc = "idle" /\ person[u].active /\ person[u].sv = v
      /\ UNCHANGED <<member, person, key, hour, raced>>
  BY DEF Principal!LoadUser, Principal!rows
<1> HIDE DEF r
<1>3. asking'[q] = r
  BY <1>0, <1>2 DEF Principal!Step
<1>4. Verified(r, lost'[q]) /\ Tested(r, member)
  BY <1>1, <1>2, <1>3, Tracked, FoundMissing DEF Verified, Tested
<1> QED
  BY <1>1, <1>2, <1>4, ReadStep

\* A key is found by its prefix.
LEMMA ResolveNext ==
  ASSUME PrincipalBounds, PrincipalInv, Principal!Track, NEW q \in Requests, NEW k \in Keys,
         Principal!Resolve(q, k)
  PROVE  PrincipalInv'
<1> DEFINE r == [Principal!Idle EXCEPT !.pc = "user", !.kind = "key", !.user = key[k].user, !.key = k]
<1>0. key[k] \in KeyRow /\ asking \in [Requests -> Asking] /\ Within(key[k]) /\ hour \in Nat
  BY DEF PrincipalInv, PrincipalTyped, PrincipalBounds
<1>1. r \in Asking /\ r.pc = "user" /\ r.kind = "key" /\ r.key = k /\ r.user \in Users
  BY <1>0, NothingAsked DEF Asking, KeyRow, Within, Principal!Resolve
<1>2. /\ Principal!Step(q, r) /\ asking[q].pc = "idle" /\ ~key[k].revoked /\ hour <= key[k].expires
      /\ UNCHANGED <<member, person, key, hour, raced>>
  BY <1>0 DEF Principal!Resolve, Principal!rows, KeyRow
<1> HIDE DEF r
<1>3. asking'[q] = r
  BY <1>0, <1>2 DEF Principal!Step
<1>4. hour <= key[k].asked /\ hour <= key[k].created + MaxLifetime
  BY <1>0, <1>2 DEF Within, KeyRow, PrincipalBounds
<1>5. "key" \notin Principal!Missing(q)' /\ "version" \notin Principal!Missing(q)'
  BY <1>1, <1>2, <1>3, <1>4, FoundMissing
<1>6. Verified(r, lost'[q]) /\ Tested(r, member)
  BY <1>1, <1>2, <1>3, <1>5, Tracked DEF Verified, Tested
<1> QED
  BY <1>1, <1>2, <1>6, ReadStep

\* The statements of a request with a key or a person's row in hand, one after another.
LEMMA ReadOn ==
  ASSUME PrincipalBounds, PrincipalInv, Principal!Track, NEW q \in Requests,
         Principal!KeyUser(q) \/ Principal!VerifyMember(q) \/ Principal!Serve(q)
  PROVE  PrincipalInv'
<1>0. /\ asking[q] \in Asking /\ asking \in [Requests -> Asking] /\ Verified(asking[q], lost[q])
      /\ person \in [Users -> Person]
  BY DEF PrincipalInv, PrincipalTyped
<1>1. asking[q].kind \in {"person", "key"} /\ asking[q].pc \in {"user", "member", "context"}
  BY <1>0 DEF Principal!KeyUser, Principal!VerifyMember, Principal!Serve, Verified, Asking
<1>2. CASE Principal!Done(q)
  BY <1>2, DoneStep DEF Principal!KeyUser, Principal!VerifyMember, Principal!Serve, Principal!rows
<1>3. CASE ~Principal!Done(q) /\ Principal!KeyUser(q)
  <2> DEFINE u == person[asking[q].user]
             r == [asking[q] EXCEPT !.pc = "member", !.tier = u.tier, !.custom = u.custom]
  <2>1. /\ Principal!Step(q, r) /\ u.active /\ asking[q].pc = "user"
        /\ UNCHANGED <<member, person, key, hour, raced>>
    BY <1>3 DEF Principal!KeyUser, Principal!rows
  <2>2. u \in Person
    BY <1>0, <2>1 DEF Verified
  <2>3. /\ r \in Asking /\ r.pc = "member" /\ r.kind = asking[q].kind /\ r.user = asking[q].user
        /\ r.tier = u.tier /\ r.custom = u.custom
    <3>1. asking[q] \in Asking /\ u.tier \in {"user", "admin"} /\ u.custom \in Templates \union {"none"}
      BY <1>0, <2>2 DEF Person
    <3> HIDE DEF u
    <3>2. r \in Asking
      BY <3>1 DEF Asking
    <3> QED
      BY <3>1 DEF Asking
  <2> HIDE DEF r
  <2>4. asking'[q] = r
    BY <1>0, <2>1 DEF Principal!Step
  <2>5. Verified(r, lost'[q]) /\ Tested(r, member)
    BY <1>0, <1>1, <2>1, <2>3, <2>4, Tracked, FoundMissing DEF Verified, Tested
  <2> QED
    BY <2>1, <2>3, <2>5, ReadStep
<1>4. CASE ~Principal!Done(q) /\ Principal!VerifyMember(q)
  <2> DEFINE r == [asking[q] EXCEPT !.pc = "context"]
  <2>1. /\ Principal!Step(q, r) /\ member[asking[q].user] # "none" /\ asking[q].pc = "member"
        /\ UNCHANGED <<member, person, key, hour, raced>>
    BY <1>4 DEF Principal!VerifyMember, Principal!rows, Principal!None
  <2>2. /\ r \in Asking /\ r.pc = "context" /\ r.kind = asking[q].kind /\ r.user = asking[q].user
        /\ r.tier = asking[q].tier /\ r.custom = asking[q].custom
    BY <1>0 DEF Asking
  <2> HIDE DEF r
  <2>3. asking'[q] = r
    BY <1>0, <2>1 DEF Principal!Step
  <2>4. Verified(r, lost'[q]) /\ Tested(r, member)
    BY <1>0, <1>1, <2>1, <2>2, <2>3, Tracked, FoundMissing DEF Verified, Tested
  <2> QED
    BY <2>1, <2>2, <2>4, ReadStep
<1>5. CASE ~Principal!Done(q) /\ Principal!Serve(q)
  <2> DEFINE r == [asking[q] EXCEPT !.pc = "served"]
  <2>1. /\ Principal!Step(q, r) /\ asking[q].pc = "context"
        /\ Principal!Permitted(asking[q].tier, asking[q].custom)
        /\ asking[q].kind = "key" \/ asking[q].tier = "admin" \/ member[asking[q].user] # "none"
        /\ UNCHANGED <<member, person, key, hour, raced>>
    BY <1>5 DEF Principal!Serve, Principal!rows, Principal!None
  <2>2. r \in Asking /\ r.pc = "served" /\ r.kind = asking[q].kind /\ r.user = asking[q].user
    BY <1>0 DEF Asking
  <2> HIDE DEF r
  <2>3. asking'[q] = r
    BY <1>0, <2>1 DEF Principal!Step
  <2>4. lost'[q] = lost[q] \intersect Principal!Missing(q)' /\ lost'[q] \in SUBSET Principal!Facts
    BY <2>1, Tracked
  <2>5. \A f \in Principal!Facts : f \notin lost'[q]
    BY <1>0, <1>1, <2>1, <2>2, <2>3, <2>4, FoundMissing DEF Verified, Principal!Facts
  <2>6. Verified(r, lost'[q]) /\ Tested(r, member)
    BY <1>1, <2>2, <2>4, <2>5 DEF Verified, Tested
  <2> QED
    BY <2>1, <2>2, <2>6, ReadStep
<1> QED
  BY <1>2, <1>3, <1>4, <1>5

\* A key is asked for, and made.
LEMMA MintNext ==
  ASSUME PrincipalBounds, PrincipalInv, Principal!Track, NEW q \in Requests
  PROVE  /\ \A u \in Users, asked \in {1, Principal!Never} :
              Principal!MintRead(q, u, asked) => PrincipalInv'
         /\ \A k \in Keys, prefix \in Prefixes : Principal!Mint(q, k, prefix) => PrincipalInv'
<1>0. /\ asking[q] \in Asking /\ asking \in [Requests -> Asking] /\ Verified(asking[q], lost[q])
      /\ key \in [Keys -> KeyRow] /\ hour \in Nat
  BY DEF PrincipalInv, PrincipalTyped
<1>1. ASSUME NEW u \in Users, NEW asked \in {1, Principal!Never}, Principal!MintRead(q, u, asked)
      PROVE  PrincipalInv'
  <2> DEFINE r == [Principal!Idle EXCEPT !.pc = "minting", !.user = u, !.asked = asked]
  <2>0. asked \in Nat
    BY DEF Principal!Never, PrincipalBounds
  <2>1. r \in Asking /\ r.pc = "minting" /\ r.user \in Users
    BY <2>0, NothingAsked DEF Asking
  <2>2. Principal!Step(q, r) /\ UNCHANGED <<member, person, key, hour, raced>>
    BY <1>1 DEF Principal!MintRead, Principal!rows
  <2> HIDE DEF r
  <2>3. Verified(r, lost'[q]) /\ Tested(r, member)
    BY <2>1 DEF Verified, Tested
  <2> QED
    BY <2>1, <2>2, <2>3, ReadStep
<1>2. ASSUME NEW k \in Keys, NEW prefix \in Prefixes, Principal!Mint(q, k, prefix)
      PROVE  PrincipalInv'
  <2> DEFINE x == [user |-> asking[q].user, prefix |-> prefix, revoked |-> FALSE,
                   created |-> hour, asked |-> asking[q].asked,
                   expires |-> Principal!BoundExpiry(asking[q].asked)]
  <2>1. asking[q].user \in Users /\ asking[q].asked \in Nat
    BY <1>0, <1>2 DEF Principal!Mint, Verified, Asking
  <2>2. x \in KeyRow /\ Within(x)
    BY <1>0, <2>1 DEF KeyRow, Within, Principal!BoundExpiry, Principal!Lesser, PrincipalBounds
  <2>3. /\ key' = [key EXCEPT ![k] = x] /\ Principal!Done(q)
        /\ UNCHANGED <<member, person, hour, raced>>
    BY <1>2 DEF Principal!Mint
  <2> HIDE DEF x
  <2>4. key' \in [Keys -> KeyRow] /\ \A j \in Keys : Within(key'[j])
    BY <1>0, <2>2, <2>3 DEF PrincipalInv
  <2>5. /\ asking' \in [Requests -> Asking] /\ asking'[q] = Principal!Idle
        /\ \A p \in Requests \ {q} : asking'[p] = asking[p]
    BY <1>0, <2>3, NothingAsked DEF Principal!Done, Principal!Step
  <2>6. PrincipalTyped'
    BY <2>3, <2>4, <2>5, Tracked DEF PrincipalInv, PrincipalTyped
  <2>7. \A p \in Requests : Verified(asking'[p], lost'[p])
    BY <2>5, OthersVerified, NothingAsked
  <2>8. ~raced' => \A p \in Requests : Tested(asking'[p], member')
    BY <2>3, <2>5, NothingAsked DEF PrincipalInv
  <2> QED
    BY <2>4, <2>6, <2>7, <2>8 DEF PrincipalInv
<1> QED
  BY <1>1, <1>2

\* The last owner is tested for, and a role is given or taken away.
LEMMA OustNext ==
  ASSUME PrincipalBounds, PrincipalInv, Principal!Track, NEW q \in Requests
  PROVE  /\ \A u \in Users, role \in Principal!Ranks \union {"none"} :
              Principal!OustRead(q, u, role) => PrincipalInv'
         /\ Principal!OustCommit(q) => PrincipalInv'
<1>0. /\ asking[q] \in Asking /\ asking \in [Requests -> Asking]
      /\ member \in [Users -> {"none", "owner", "viewer"}] /\ raced \in BOOLEAN
  BY DEF PrincipalInv, PrincipalTyped
<1>1. ASSUME NEW u \in Users, NEW role \in Principal!Ranks \union {"none"}, Principal!OustRead(q, u, role)
      PROVE  PrincipalInv'
  <2> DEFINE r == [Principal!Idle EXCEPT !.pc = "ousting", !.user = u, !.role = role]
  <2>1. r \in Asking /\ r.pc = "ousting" /\ r.user = u /\ r.role = role
    BY NothingAsked DEF Asking, Principal!Ranks
  <2>2. Principal!Step(q, r) /\ UNCHANGED <<member, person, key, hour, raced>>
        /\ (role # "owner" => ~Principal!IsLastOwner(u))
    BY <1>1 DEF Principal!OustRead, Principal!rows
  <2> HIDE DEF r
  <2>3. Verified(r, lost'[q]) /\ Tested(r, member)
    BY <2>1, <2>2 DEF Verified, Tested, Principal!IsLastOwner, Principal!Owners
  <2> QED
    BY <2>1, <2>2, <2>3, ReadStep
<1>2. ASSUME Principal!OustCommit(q) PROVE PrincipalInv'
  <2> DEFINE r == asking[q]
  <2>1. CASE member[r.user] = "none"
    BY <1>2, <2>1, DoneStep DEF Principal!OustCommit, Principal!None
  <2>2. CASE member[r.user] # "none"
    <3>1. /\ member' = [member EXCEPT ![r.user] = r.role] /\ Principal!Done(q)
          /\ Principal!Overtakes(r.user, r.role, Requests \ {q}) /\ UNCHANGED <<person, key, hour>>
      BY <1>2, <2>2 DEF Principal!OustCommit, Principal!None
    <3>2. /\ asking' \in [Requests -> Asking] /\ asking'[q] = Principal!Idle
          /\ \A p \in Requests \ {q} : asking'[p] = asking[p]
      BY <1>0, <3>1, NothingAsked DEF Principal!Done, Principal!Step
    <3>3. member' \in [Users -> {"none", "owner", "viewer"}] /\ raced' \in BOOLEAN
      BY <1>0, <3>1 DEF Asking, Principal!Overtakes
    <3>4. PrincipalTyped'
      BY <3>1, <3>2, <3>3, Tracked DEF PrincipalInv, PrincipalTyped
    <3>5. \A p \in Requests : Verified(asking'[p], lost'[p])
      BY <3>2, OthersVerified, NothingAsked
    <3>6. ASSUME ~raced', NEW p \in Requests PROVE Tested(asking'[p], member')
      <4>1. CASE p = q
        BY <3>2, <4>1, NothingAsked
      <4>2. CASE p # q
        <5>1. Tested(asking[p], member) /\ asking'[p] = asking[p]
          BY <3>1, <3>2, <3>6, <4>2 DEF PrincipalInv, Principal!Overtakes
        <5>2. asking[p].pc = "ousting" => ~(r.role = "owner" <=> asking[p].user = r.user)
          BY <3>1, <3>6, <4>2 DEF Principal!Overtakes
        <5>3. \A u \in Users : u # r.user => member'[u] = member[u]
          BY <1>0, <3>1
        <5>4. r.user \in Users => member'[r.user] = r.role
          BY <1>0, <3>1
        <5> QED
          BY <5>1, <5>2, <5>3, <5>4 DEF Tested
      <4> QED
        BY <4>1, <4>2
    <3>7. \A k \in Keys : Within(key'[k])
      BY <3>1 DEF PrincipalInv
    <3> QED
      BY <3>4, <3>5, <3>6, <3>7 DEF PrincipalInv
  <2> QED
    BY <2>1, <2>2
<1> QED
  BY <1>1, <1>2

\* What administrators and the clock do to the rows.
LEMMA RowsNext ==
  ASSUME PrincipalBounds, PrincipalInv, Principal!Track
  PROVE  /\ \A u \in Users, role \in Principal!Ranks : Principal!AddMember(u, role) => PrincipalInv'
         /\ \A u \in Users : Principal!EditUser(u) => PrincipalInv'
         /\ \A k \in Keys : Principal!RevokeKey(k) => PrincipalInv'
         /\ Principal!Tick => PrincipalInv'
<1>0. /\ member \in [Users -> {"none", "owner", "viewer"}] /\ person \in [Users -> Person]
      /\ key \in [Keys -> KeyRow] /\ hour \in Nat /\ raced \in BOOLEAN
      /\ \A k \in Keys : Within(key[k])
      /\ ~raced => \A q \in Requests : Tested(asking[q], member)
  BY DEF PrincipalInv, PrincipalTyped
<1>1. ASSUME NEW u \in Users, NEW role \in Principal!Ranks, Principal!AddMember(u, role)
      PROVE  PrincipalInv'
  <2>1. /\ member' = [member EXCEPT ![u] = role] /\ member[u] = "none"
        /\ IF role = "owner" THEN Principal!Overtakes(u, role, Requests) ELSE raced' = raced
        /\ UNCHANGED <<person, key, hour, asking>>
    BY <1>1 DEF Principal!AddMember, Principal!None
  <2>2. member' \in [Users -> {"none", "owner", "viewer"}] /\ raced' \in BOOLEAN
    BY <1>0, <2>1 DEF Principal!Ranks, Principal!Overtakes
  <2>3. ASSUME ~raced', NEW q \in Requests PROVE Tested(asking[q], member')
    <3>1. Tested(asking[q], member)
      BY <1>0, <2>1, <2>3 DEF Principal!Overtakes
    <3>2. role = "owner" /\ asking[q].pc = "ousting" => asking[q].user # u
      BY <2>1, <2>3 DEF Principal!Overtakes
    <3>3. member'[u] = role /\ \A v \in Users : v # u => member'[v] = member[v]
      BY <1>0, <2>1
    <3> QED
      BY <2>1, <3>1, <3>2, <3>3 DEF Tested
  <2> QED
    BY <1>0, <2>1, <2>2, <2>3, RowStep
<1>2. ASSUME NEW u \in Users, Principal!EditUser(u) PROVE PrincipalInv'
  <2>1. person[u] \in Person /\ UNCHANGED <<member, key, hour, asking, raced>>
    BY <1>0, <1>2 DEF Principal!EditUser
  <2>2. PICK x \in Person : person' = [person EXCEPT ![u] = x]
    <3>1. CASE person' = [person EXCEPT ![u].active = ~@]
      <4>1. [person[u] EXCEPT !.active = ~@] \in Person
        BY <2>1 DEF Person
      <4> QED
        BY <3>1, <4>1
    <3>2. ASSUME NEW tier \in {"user", "admin"}, person' = [person EXCEPT ![u].tier = tier]
          PROVE  \E x \in Person : person' = [person EXCEPT ![u] = x]
      <4>1. [person[u] EXCEPT !.tier = tier] \in Person
        BY <2>1 DEF Person
      <4> QED
        BY <3>2, <4>1
    <3>3. ASSUME NEW c \in Templates \union {"none"}, person' = [person EXCEPT ![u].custom = c]
          PROVE  \E x \in Person : person' = [person EXCEPT ![u] = x]
      <4>1. [person[u] EXCEPT !.custom = c] \in Person
        BY <2>1 DEF Person
      <4> QED
        BY <3>3, <4>1
    <3>4. CASE person' = [person EXCEPT ![u].sv = @ + 1]
      <4>1. [person[u] EXCEPT !.sv = @ + 1] \in Person
        BY <2>1 DEF Person
      <4> QED
        BY <3>4, <4>1
    <3> QED
      BY <1>2, <3>1, <3>2, <3>3, <3>4 DEF Principal!EditUser, Principal!None
  <2>3. person' \in [Users -> Person]
    BY <1>0, <2>2
  <2> QED
    BY <1>0, <2>1, <2>3, RowStep
<1>3. ASSUME NEW k \in Keys, Principal!RevokeKey(k) PROVE PrincipalInv'
  <2> DEFINE x == [key[k] EXCEPT !.revoked = TRUE]
  <2>1. key' = [key EXCEPT ![k] = x] /\ UNCHANGED <<member, person, hour, asking, raced>>
        /\ key[k] # Principal!NoKey
    BY <1>3 DEF Principal!RevokeKey
  <2>2. x \in KeyRow /\ Within(x)
    BY <1>0, <2>1 DEF KeyRow, Within
  <2> HIDE DEF x
  <2>3. key' \in [Keys -> KeyRow] /\ \A j \in Keys : Within(key'[j])
    BY <1>0, <2>1, <2>2
  <2> QED
    BY <1>0, <2>1, <2>3, RowStep
<1>4. ASSUME Principal!Tick PROVE PrincipalInv'
  BY <1>0, <1>4, RowStep DEF Principal!Tick
<1> QED
  BY <1>1, <1>2, <1>3, <1>4

\* Every step keeps the invariant.
LEMMA PrincipalNext ==
  PrincipalBounds /\ PrincipalInv /\ [Principal!Next]_(Principal!principalVars) => PrincipalInv'
<1> SUFFICES ASSUME PrincipalBounds, PrincipalInv, [Principal!Next]_(Principal!principalVars)
             PROVE  PrincipalInv'
  OBVIOUS
<1>1. CASE UNCHANGED Principal!principalVars
  BY <1>1 DEF Principal!principalVars, PrincipalInv, PrincipalTyped
<1>2. CASE Principal!Next
  <2>1. Principal!Track
    BY <1>2 DEF Principal!Next
  <2>2. ASSUME NEW q \in Requests, Principal!Finish(q) \/ Principal!Drop(q) PROVE PrincipalInv'
    BY <2>1, <2>2, DoneStep DEF Principal!Finish, Principal!Drop, Principal!rows
  <2> QED
    BY <1>2, <2>1, <2>2, LoadUserNext, ResolveNext, ReadOn, MintNext, OustNext, RowsNext
    DEF Principal!Next, Principal!None
<1> QED
  BY <1>1, <1>2

\* A request is served only if every fact it rests on held at some moment since it began:
\* get_tenant_context, resolve_api_key and build_verified_principal_context read each of
\* them in a statement of its own, and revocation needs no other step.
THEOREM EntitledAlways == PrincipalBounds /\ Principal!Spec => []Principal!Entitled
<1> SUFFICES ASSUME PrincipalBounds PROVE Principal!Spec => []Principal!Entitled
  OBVIOUS
<1>1. PrincipalInv => Principal!Entitled
  BY DEF PrincipalInv, Verified, Principal!Entitled
<1> QED
  BY <1>1, PrincipalInit, PrincipalNext, PTL DEF Principal!Spec

\* The last owner of a workspace goes only in a request that was overtaken by another
\* change of the owners since its test: change_member_role, remove_member.
THEOREM OwnerKeptAlways ==
  PrincipalBounds /\ Principal!Spec => [][Principal!OwnerKept]_(Principal!principalVars)
<1> SUFFICES ASSUME PrincipalBounds
             PROVE  Principal!Spec => [][Principal!OwnerKept]_(Principal!principalVars)
  OBVIOUS
<1>1. ASSUME PrincipalInv, Principal!Next PROVE Principal!OwnerKept
  <2> SUFFICES ASSUME ~raced', NEW d \in Principal!Owners, Principal!Owners' = {} PROVE FALSE
    BY DEF Principal!OwnerKept
  <2>0. /\ member \in [Users -> {"none", "owner", "viewer"}] /\ d \in Users /\ member[d] = "owner"
        /\ member'[d] # "owner"
    BY <1>1 DEF PrincipalInv, PrincipalTyped, Principal!Owners
  <2>1. PICK q \in Requests : Principal!OustCommit(q)
    BY <1>1, <2>0 DEF Principal!Next, Principal!rows, Principal!KeyUser, Principal!VerifyMember,
       Principal!Serve, Principal!Finish, Principal!Drop, Principal!LoadUser, Principal!MintRead,
       Principal!OustRead, Principal!Resolve, Principal!Mint, Principal!EditUser,
       Principal!RevokeKey, Principal!Tick, Principal!AddMember, Principal!None
  <2>2. /\ asking[q].pc = "ousting" /\ member' = [member EXCEPT ![asking[q].user] = asking[q].role]
        /\ ~raced
    BY <2>0, <2>1 DEF Principal!OustCommit, Principal!Overtakes
  <2>3. asking[q].user = d /\ asking[q].role # "owner"
    BY <2>0, <2>2
  <2>4. PICK o \in Users : o # d /\ member[o] = "owner"
    BY <1>1, <2>0, <2>2, <2>3 DEF PrincipalInv, Tested
  <2>5. member'[o] = "owner"
    BY <2>0, <2>2, <2>3, <2>4
  <2> QED
    BY <2>4, <2>5 DEF Principal!Owners
<1>2. PrincipalInv /\ [Principal!Next]_(Principal!principalVars)
        => [Principal!OwnerKept]_(Principal!principalVars)
  BY <1>1
<1> QED
  BY <1>2, PrincipalInit, PrincipalNext, PTL DEF Principal!Spec

\* The two together, for any number of requests, users, keys and changes.
THEOREM RevocationIsCompleteAlways ==
  PrincipalBounds /\ Principal!Spec => Principal!RevocationIsComplete
BY EntitledAlways, OwnerKeptAlways DEF Principal!RevocationIsComplete

-----------------------------------------------------------------------------
\* The state of Roles
CONSTANTS Permissions, Holders, MaxVersion

VARIABLES template, snapshots, holds, job

Role == INSTANCE Roles

\* The snapshots of a template number its activations without a gap, and an activation
\* whose number is free was read after the last of them.
Lists == Permissions \union {{}}
Shot == [version : Nat, permissions : Lists]
Job == [pc : {"idle", "update", "activate", "history", "rollback", "assign", "delete"},
        permissions : Lists, version : Nat, was : Lists, user : Holders \union {"none"}]

RoleTyped ==
    /\ template \in [status : {"none", "draft", "active"}, permissions : Lists, version : Nat]
    /\ snapshots \subseteq Shot /\ job \in [Requests -> Job]

Numbered(t, shots) ==
    /\ t.version >= 1
    /\ t.status = "none" => shots = {}
    /\ \A s \in shots : s.version >= 2 /\ s.version <= t.version
    /\ \A s, o \in shots : s.version = o.version => s = o
    /\ t.status # "none" => \A v \in 2..t.version : \E s \in shots : s.version = v

\* What was read of a template may be out of date, but then its number is taken.
ReadOf(r, t, shots) ==
    /\ r.pc \in {"activate", "history", "rollback"} => r.version >= 1 /\ r.version <= t.version
    /\ r.pc = "rollback" /\ t.status # "none" /\ r.version = t.version =>
         \E o \in shots : o.version = r.version - 1 /\ o.permissions = r.permissions

RoleInv ==
    /\ RoleTyped /\ Numbered(template, snapshots)
    /\ \A q \in Requests : ReadOf(job[q], template, snapshots)

\* A template starts as a draft without a history.
LEMMA RoleInit == Role!Init => RoleInv
<1> SUFFICES ASSUME Role!Init PROVE RoleInv
  OBVIOUS
<1>1. PICK p \in Permissions : template = [status |-> "draft", permissions |-> p, version |-> 1]
  BY DEF Role!Init
<1>2. Role!Idle \in Job /\ Role!Idle.pc = "idle"
  BY DEF Role!Idle, Job, Lists
<1>3. job \in [Requests -> Job] /\ snapshots = {} /\ \A q \in Requests : job[q].pc = "idle"
  BY <1>2 DEF Role!Init
<1> QED
  BY <1>1, <1>3 DEF RoleInv, RoleTyped, Numbered, ReadOf, Lists

\* The cardinality that Roles counts with is that of FiniteSets.
LEMMA RoleCardinality == \A S : Role!Cardinality(S) = Cardinality(S)
BY DEF Role!Cardinality, Cardinality

\* The newest snapshot but one, of two or more.
LEMMA PreviousIs ==
  ASSUME RoleInv, ~(Cardinality(snapshots) < 2)
  PROVE  /\ Role!Previous(snapshots) \in snapshots
         /\ Role!Previous(snapshots).version = template.version - 1
<1>0. /\ template.version \in Nat /\ template.version >= 1 /\ snapshots \subseteq Shot
      /\ Numbered(template, snapshots)
  BY DEF RoleInv, RoleTyped, Numbered
<1>1. snapshots # {}
  BY FS_EmptySet
<1>2. template.status # "none"
  BY <1>0, <1>1 DEF Numbered
<1>3. template.version >= 3
  <2> SUFFICES ASSUME template.version \in {1, 2} PROVE FALSE
    BY <1>0
  <2>1. PICK s : s \in snapshots
    BY <1>1
  <2>2. \A o \in snapshots : o.version = 2
    BY <1>0 DEF Numbered, Shot
  <2>3. snapshots = {s}
    BY <1>0, <2>1, <2>2 DEF Numbered
  <2>4. Cardinality(snapshots) = 1
    BY <2>3, FS_Singleton
  <2> QED
    BY <2>4
<1>4. PICK n \in snapshots : n.version = template.version
  BY <1>0, <1>2, <1>3 DEF Numbered
<1>5. PICK m \in snapshots : m.version = template.version - 1
  BY <1>0, <1>2, <1>3 DEF Numbered
<1>6. \A s \in snapshots : (\A o \in snapshots : o.version <= s.version) <=> s = n
  BY <1>0, <1>4 DEF Numbered, Shot
<1>7. Role!Newest(snapshots) = n
  BY <1>6 DEF Role!Newest
<1> DEFINE older == {s \in snapshots : s.version < n.version}
<1>8. \A s \in older : (\A o \in older : o.version <= s.version) <=> s = m
  BY <1>0, <1>4, <1>5 DEF Numbered, Shot
<1>9. m \in older
  BY <1>0, <1>4, <1>5
<1> HIDE DEF older
<1>10. Role!Newest(older) = m
  BY <1>8, <1>9 DEF Role!Newest
<1> QED
  BY <1>5, <1>7, <1>10 DEF Role!Previous, Role!SecondNewest, older

\* A request that reads, or ends.
LEMMA RoleRead ==
  ASSUME RoleInv, NEW q \in Requests, NEW r \in Job, Role!Step(q, r),
         ReadOf(r, template, snapshots), UNCHANGED <<template, snapshots>>
  PROVE  RoleInv'
<1>1. /\ job' \in [Requests -> Job] /\ job'[q] = r
      /\ \A p \in Requests \ {q} : job'[p] = job[p]
  BY DEF RoleInv, RoleTyped, Role!Step
<1> QED
  BY <1>1 DEF RoleInv, RoleTyped

\* A request with nothing in hand.
LEMMA NoJob == Role!Idle \in Job /\ \A t, shots : ReadOf(Role!Idle, t, shots)
BY DEF Role!Idle, Job, Lists, ReadOf

\* An activation that is not refused has the number after the last.
LEMMA ActivateIs ==
  ASSUME RoleInv, NEW q \in Requests, Role!Activate(q)
  PROVE  \/ UNCHANGED <<template, snapshots>>
         \/ LET v == template.version + 1
            IN  /\ job[q].version = template.version /\ template.status # "none"
                /\ job[q].pc \in {"activate", "rollback"}
                /\ template' = [status |-> "active", version |-> v,
                                permissions |-> Role!Written(job[q])]
                /\ snapshots' = snapshots \union {Role!Snapshot(v, job[q].permissions)}
<1> DEFINE v == job[q].version + 1
<1>0. /\ template.version \in Nat /\ job[q] \in Job /\ Numbered(template, snapshots)
      /\ ReadOf(job[q], template, snapshots) /\ job[q].pc \in {"activate", "rollback"}
  BY DEF RoleInv, RoleTyped, Role!Activate
<1>1. job[q].version \in Nat /\ job[q].version >= 1 /\ job[q].version <= template.version
  BY <1>0 DEF ReadOf, Job
<1>2. CASE Role!Taken(v)
  BY <1>2 DEF Role!Activate
<1>3. CASE ~Role!Taken(v)
  <2>1. template.status # "none" /\ ~\E s \in snapshots : s.version = v
    BY <1>3 DEF Role!Taken, Role!Exists
  <2>2. ~(v \in 2..template.version)
    BY <1>0, <2>1 DEF Numbered
  <2>3. job[q].version = template.version
    BY <1>0, <1>1, <2>2
  <2> QED
    BY <1>0, <1>3, <2>1, <2>3 DEF Role!Activate
<1> QED
  BY <1>2, <1>3

\* Every step keeps the invariant.
LEMMA RoleNext == RoleInv /\ [Role!Next]_(Role!roleVars) => RoleInv'
<1> SUFFICES ASSUME RoleInv, [Role!Next]_(Role!roleVars) PROVE RoleInv'
  OBVIOUS
<1>0. /\ RoleTyped /\ Numbered(template, snapshots)
      /\ \A q \in Requests : job[q] \in Job /\ ReadOf(job[q], template, snapshots)
      /\ template \in [status : {"none", "draft", "active"}, permissions : Lists, version : Nat]
      /\ template.version \in Nat /\ template.version >= 1
  BY DEF RoleInv, RoleTyped, Numbered
<1>1. CASE UNCHANGED Role!roleVars
  BY <1>1 DEF Role!roleVars, RoleInv, RoleTyped
<1>2. ASSUME NEW q \in Requests, NEW pc \in {"activate", "history"}, Role!Read(q, pc)
      PROVE  RoleInv'
  <2> DEFINE r == Role!Load(q, pc)
  <2>1. r \in Job /\ r.pc = pc /\ r.version = template.version
    BY <1>0, NoJob DEF Role!Load, Job
  <2>2. Role!Step(q, r) /\ UNCHANGED <<template, snapshots>>
    BY <1>2 DEF Role!Read
  <2> HIDE DEF r
  <2>3. ReadOf(r, template, snapshots)
    BY <1>0, <2>1 DEF ReadOf
  <2> QED
    BY <2>1, <2>2, <2>3, RoleRead
<1>3. ASSUME NEW q \in Requests, NEW p \in Permissions, Role!UpdateRead(q, p) PROVE RoleInv'
  <2> DEFINE r == [Role!Load(q, "update") EXCEPT !.permissions = p]
  <2>1. r \in Job /\ r.pc = "update"
    BY <1>0, NoJob DEF Role!Load, Job, Lists
  <2>2. Role!Step(q, r) /\ UNCHANGED <<template, snapshots>>
    BY <1>3 DEF Role!UpdateRead
  <2> HIDE DEF r
  <2> QED
    BY <2>1, <2>2, RoleRead DEF ReadOf
<1>4. ASSUME NEW q \in Requests, Role!Step(q, Role!Idle),
             template' = template \/ template' = [template EXCEPT !.permissions = Role!Written(job[q])],
             snapshots' = snapshots
      PROVE  RoleInv'
  <2>1. Role!Written(job[q]) \in Lists
    BY <1>0 DEF Role!Written, Job
  <2>2. /\ template' \in [status : {"none", "draft", "active"}, permissions : Lists, version : Nat]
        /\ template'.status = template.status /\ template'.version = template.version
    BY <1>0, <1>4, <2>1
  <2>3. /\ job' \in [Requests -> Job] /\ job'[q] = Role!Idle
        /\ \A p \in Requests \ {q} : job'[p] = job[p]
    BY <1>0, <1>4, NoJob DEF RoleTyped, Role!Step
  <2>4. Numbered(template', snapshots')
    BY <1>0, <1>4, <2>2 DEF Numbered
  <2>5. ASSUME NEW p \in Requests PROVE ReadOf(job'[p], template', snapshots')
    <3>1. ReadOf(job[p], template', snapshots')
      BY <1>0, <1>4, <2>2 DEF ReadOf
    <3> QED
      BY <2>3, <3>1, NoJob
  <2> QED
    BY <1>0, <1>4, <2>2, <2>3, <2>4, <2>5 DEF RoleInv, RoleTyped
<1>5. ASSUME NEW q \in Requests, Role!RollbackRead(q) PROVE RoleInv'
  <2>1. CASE Cardinality(snapshots) < 2
    <3>1. Role!Step(q, Role!Idle) /\ UNCHANGED <<template, snapshots>>
      BY <1>5, <2>1, RoleCardinality DEF Role!RollbackRead, Role!Step
    <3> QED
      BY <3>1, NoJob, RoleRead
  <2>2. CASE ~(Cardinality(snapshots) < 2)
    <3> DEFINE o == Role!Previous(snapshots)
               r == [job[q] EXCEPT !.pc = "rollback", !.permissions = o.permissions]
    <3>1. o \in snapshots /\ o.version = template.version - 1 /\ o \in Shot
      BY <1>0, <2>2, PreviousIs DEF RoleTyped
    <3>2. Role!Step(q, r) /\ UNCHANGED <<template, snapshots>> /\ job[q].pc = "history"
      BY <1>5, <2>2, RoleCardinality DEF Role!RollbackRead, Role!Step
    <3> HIDE DEF o
    <3>3. r \in Job /\ r.pc = "rollback" /\ r.permissions = o.permissions
          /\ r.version = job[q].version
      BY <1>0, <3>1 DEF Job, Shot
    <3> HIDE DEF r
    <3>4. ReadOf(r, template, snapshots)
      BY <1>0, <3>1, <3>2, <3>3 DEF ReadOf
    <3> QED
      BY <3>2, <3>3, <3>4, RoleRead
  <2> QED
    BY <2>1, <2>2
<1>6. ASSUME NEW q \in Requests, Role!Activate(q) PROVE RoleInv'
  <2>0. Role!Step(q, Role!Idle)
    BY <1>6 DEF Role!Activate, Role!Done
  <2>1. CASE UNCHANGED <<template, snapshots>>
    BY <1>4, <2>0, <2>1
  <2>2. CASE ~UNCHANGED <<template, snapshots>>
    <3> DEFINE v == template.version + 1
               s == Role!Snapshot(v, job[q].permissions)
    <3>1. /\ template' = [status |-> "active", version |-> v, permissions |-> Role!Written(job[q])]
          /\ snapshots' = snapshots \union {s} /\ template.status # "none"
      BY <1>6, <2>2, ActivateIs
    <3>2. s \in Shot /\ s.version = v /\ Role!Written(job[q]) \in Lists
      BY <1>0 DEF Role!Snapshot, Shot, Job, Role!Written
    <3> HIDE DEF s
    <3>3. Numbered(template', snapshots')
      BY <1>0, <3>1, <3>2 DEF Numbered, RoleTyped, Shot
    <3>4. /\ job' \in [Requests -> Job] /\ job'[q] = Role!Idle
          /\ \A p \in Requests \ {q} : job'[p] = job[p]
      BY <1>0, <2>0, NoJob DEF RoleTyped, Role!Step
    <3>5. RoleTyped'
      BY <1>0, <3>1, <3>2, <3>4 DEF RoleTyped
    <3>6. \A p \in Requests : ReadOf(job'[p], template', snapshots')
      BY <1>0, <3>1, <3>4, NoJob DEF ReadOf, Job
    <3> QED
      BY <3>3, <3>5, <3>6 DEF RoleInv
  <2> QED
    BY <2>1, <2>2
<1>7. ASSUME NEW q \in Requests, NEW u \in Holders, Role!AssignRead(q, u) PROVE RoleInv'
  <2> DEFINE r == [Role!Idle EXCEPT !.pc = "assign", !.user = u]
  <2>1. r \in Job /\ r.pc = "assign"
    BY NoJob DEF Job
  <2> HIDE DEF r
  <2> QED
    BY <1>7, <2>1, RoleRead DEF Role!AssignRead, ReadOf, r
<1>8. ASSUME NEW q \in Requests, Role!DeleteRead(q) PROVE RoleInv'
  <2> DEFINE r == [Role!Idle EXCEPT !.pc = "delete"]
  <2>1. r \in Job /\ r.pc = "delete"
    BY NoJob DEF Job
  <2> HIDE DEF r
  <2> QED
    BY <1>8, <2>1, RoleRead DEF Role!DeleteRead, ReadOf, r
<1>9. ASSUME NEW q \in Requests, Role!DeleteCommit(q) PROVE RoleInv'
  <2>1. template' = [template EXCEPT !.status = "none"] /\ snapshots' = {} /\ Role!Step(q, Role!Idle)
    BY <1>9 DEF Role!DeleteCommit, Role!Done
  <2>2. /\ job' \in [Requests -> Job] /\ job'[q] = Role!Idle
        /\ \A p \in Requests \ {q} : job'[p] = job[p]
    BY <1>0, <2>1, NoJob DEF RoleTyped, Role!Step
  <2> QED
    BY <1>0, <2>1, <2>2, NoJob DEF RoleInv, RoleTyped, Numbered, ReadOf
<1>10. ASSUME NEW q \in Requests, Role!UpdateCommit(q) \/ Role!AssignCommit(q) PROVE RoleInv'
  BY <1>4, <1>10 DEF Role!UpdateCommit, Role!AssignCommit, Role!Done
<1>11. ASSUME NEW u \in Holders, Role!Unassign(u) PROVE RoleInv'
  BY <1>11 DEF Role!Unassign, RoleInv, RoleTyped
<1> QED
  BY <1>1, <1>2, <1>3, <1>5, <1>6, <1>7, <1>8, <1>9, <1>10, <1>11 DEF Role!Next

\* However edits, activations, rollbacks and deletions race, history is only appended to and
\* a rollback adds the permissions of the snapshot two before its own:
\* activate_role_template, rollback_role_template.
THEOREM RollbackRestoresAlways == Role!Spec => Role!RollbackRestores
<1> DEFINE Restores ==
      \A s \in snapshots' \ snapshots :
          /\ \A o \in snapshots : o.version < s.version
          /\ (\E q \in Requests : job[q].pc = "rollback" /\ job'[q].pc = "idle") =>
                \E o \in snapshots : o.version = s.version - 2 /\ o.permissions = s.permissions
<1>1. ASSUME RoleInv, Role!Next PROVE Restores
  <2> SUFFICES ASSUME NEW s \in snapshots' \ snapshots
               PROVE  /\ \A o \in snapshots : o.version < s.version
                      /\ \A p \in Requests : job[p].pc = "rollback" /\ job'[p].pc = "idle" =>
                           \E o \in snapshots : o.version = s.version - 2 /\ o.permissions = s.permissions
    OBVIOUS
  <2>0. /\ RoleTyped /\ Numbered(template, snapshots) /\ template.version \in Nat
        /\ \A q \in Requests : job[q] \in Job /\ ReadOf(job[q], template, snapshots)
    BY <1>1 DEF RoleInv, RoleTyped
  <2>1. PICK q \in Requests : Role!Activate(q)
    BY <1>1 DEF Role!Next, Role!Read, Role!UpdateRead, Role!UpdateCommit, Role!RollbackRead,
       Role!AssignRead, Role!AssignCommit, Role!DeleteRead, Role!DeleteCommit, Role!Unassign
  <2>2. /\ job[q].version = template.version /\ template.status # "none"
        /\ job[q].pc \in {"activate", "rollback"}
        /\ s = Role!Snapshot(template.version + 1, job[q].permissions)
    BY <1>1, <2>1, ActivateIs
  <2>3. s.version = template.version + 1 /\ s.permissions = job[q].permissions
    BY <2>2 DEF Role!Snapshot
  <2>4. \A o \in snapshots : o.version < s.version
    BY <2>0, <2>3 DEF Numbered, RoleTyped, Shot
  <2>5. ASSUME NEW p \in Requests, job[p].pc = "rollback", job'[p].pc = "idle"
        PROVE  \E o \in snapshots : o.version = s.version - 2 /\ o.permissions = s.permissions
    <3>1. p = q
      BY <2>0, <2>1, <2>5 DEF Role!Activate, Role!Done, Role!Step, RoleTyped
    <3>2. PICK o \in snapshots : o.version = job[q].version - 1 /\ o.permissions = job[q].permissions
      BY <2>0, <2>2, <2>5, <3>1 DEF ReadOf
    <3> QED
      BY <2>0, <2>2, <2>3, <3>2
  <2> QED
    BY <2>4, <2>5
<1>2. RoleInv /\ [Role!Next]_(Role!roleVars) => [Restores]_(Role!roleVars)
  BY <1>1
<1> QED
  BY <1>2, RoleInit, RoleNext, PTL DEF Role!Spec, Role!RollbackRestores

-----------------------------------------------------------------------------
\* The state of SignOn
CONSTANTS Browsers, People, Orgs, Logins, Pairs, MaxEdits

VARIABLES sso, state, cookie, browsing, org, holder, signIns, claimed, edits

SSO == INSTANCE SignOn WITH settings <- sso, login <- state, task <- browsing, user <- holder,
                            sessions <- signIns, raced <- claimed

\* A state is open until a callback takes it; from then on one request has it in hand, or
\* one session came of it.  What a login asked its provider for never changes.
NamesApart == "none" \notin SSO!Issuers /\ "none" \notin Logins /\ "none" \notin Browsers

Login == [open : BOOLEAN, browser : Browsers \union {"none"}, issuer : SSO!Issuers \union {"none"},
          client : SSO!Clients \union {"none"}, person : People \union {"none"}]
Visit == [pc : {"idle", "client", "begin", "take", "exchange", "lookup", "issue", "provision"},
         kind : {"none", "login", "callback"}, browser : Browsers \union {"none"},
         login : Logins \union {"none"}, issuer : SSO!Issuers \union {"none"},
         client : SSO!Clients \union {"none"}, org : Orgs \union {"none"}]
Holder == [org : Orgs \union {"none"}, bound : SSO!Issuers \union {"none", "local"}, active : BOOLEAN]
Org == [here : BOOLEAN, claims : BOOLEAN, edit : {"none", "claim", "delete"}]

SignOnTyped ==
    /\ sso \in Pairs /\ state \in [Logins -> Login] /\ cookie \in [Browsers -> Logins \union {"none"}]
    /\ browsing \in [Requests -> Visit] /\ org \in [Orgs -> Org] /\ holder \in [People -> Holder]
    /\ signIns \subseteq [login : Logins, task : Visit, again : BOOLEAN] /\ claimed \in BOOLEAN

Registered(l) == l.person # "none" => <<l.issuer, l.client>> \in Pairs

\* A cookie names a login that its browser began.
Baked(c, ls) == \A b \in Browsers : c[b] # "none" => ls[c[b]].browser = b

Taken(r) == r.pc \in {"exchange", "lookup", "issue", "provision"}

\* What a request with a login in hand relies on.
Carried(r, ls, hs) ==
    /\ r.pc # "idle" => r.login \in Logins /\ r.browser \in Browsers /\ r.issuer \in SSO!Issuers
    /\ r.pc \in {"begin", "take"} \/ Taken(r) => r.client \in SSO!Clients
    /\ (r.pc = "client" /\ r.kind # "login") \/ r.pc = "take" \/ Taken(r) =>
         ls[r.login].person # "none"
    /\ Taken(r) => ~ls[r.login].open /\ r.browser = ls[r.login].browser
    /\ r.pc \in {"lookup", "issue", "provision"} =>
         r.issuer = ls[r.login].issuer /\ r.client = ls[r.login].client
    /\ r.pc = "issue" => hs[ls[r.login].person].bound = r.issuer

\* What is true of a sign-in ever after.
Signed(s, ls, hs) ==
    LET l == ls[s.login]
    IN  /\ ~s.again /\ ~l.open /\ l.person # "none" /\ s.task.browser = l.browser
        /\ <<s.task.issuer, s.task.client>> \in Pairs /\ hs[l.person].bound = s.task.issuer

\* A login is in the hand of one request, or came to its one session.
Separate(rs, ss) ==
    \A q \in Requests : Taken(rs[q]) =>
        /\ \A s \in ss : s.login # rs[q].login
        /\ \A p \in Requests : Taken(rs[p]) /\ rs[p].login = rs[q].login => p = q

\* Organizations that claim the domain, or are about to.
OneClaims(os) ==
    \A o, p \in Orgs : (os[o].claims \/ os[o].edit = "claim") /\ (os[p].claims \/ os[p].edit = "claim")
                          => o = p

SignOnInv ==
    /\ SignOnTyped /\ (\A l \in Logins : Registered(state[l])) /\ Baked(cookie, state)
    /\ \A q \in Requests : Carried(browsing[q], state, holder)
    /\ \A s \in signIns : Signed(s, state, holder)
    /\ Separate(browsing, signIns)
    /\ ~claimed => OneClaims(org)

\* A request with nothing in hand.
LEMMA NoVisit == SSO!Idle \in Visit /\ SSO!Idle.pc = "idle"
                /\ \A ls, hs : Carried(SSO!Idle, ls, hs)
BY DEF SSO!Idle, SSO!None, Visit, Carried, Taken

\* Nobody has begun a login at the start.
LEMMA SignOnInit == NamesApart /\ SSO!Init => SignOnInv
<1> SUFFICES ASSUME NamesApart, SSO!Init PROVE SignOnInv
  OBVIOUS
<1>1. SSO!NoLogin \in Login /\ Registered(SSO!NoLogin) /\ SSO!NoUser \in Holder
  BY DEF SSO!NoLogin, SSO!NoUser, SSO!None, Login, Holder, Registered
<1>2. SignOnTyped
  BY <1>1, NoVisit DEF SSO!Init, SignOnTyped, Org, SSO!None
<1>3. \A q \in Requests : browsing[q] = SSO!Idle
  BY DEF SSO!Init
<1>4. Baked(cookie, state) /\ OneClaims(org)
  BY DEF SSO!Init, Baked, OneClaims, SSO!None
<1>5. signIns = {} /\ \A l \in Logins : state[l] = SSO!NoLogin
  BY DEF SSO!Init
<1> QED
  BY <1>1, <1>2, <1>3, <1>4, <1>5, NoVisit DEF SignOnInv, Separate, Taken

\* How a login and a holder may change: what was asked for stays, what is closed stays closed.
Later(a, b) ==
    /\ ~a.open /\ a.person # "none" => ~b.open
    /\ a.person # "none" => /\ b.person = a.person /\ b.browser = a.browser
                            /\ b.issuer = a.issuer /\ b.client = a.client
Bound(g, h) == g.bound # "none" => h.bound = g.bound

\* What requests and sessions rely on outlives such changes.
LEMMA StaysTrue ==
  ASSUME NamesApart, SignOnInv,
         \A l \in Logins : Later(state[l], state'[l]), \A p \in People : Bound(holder[p], holder'[p])
  PROVE  /\ \A q \in Requests : Carried(browsing[q], state', holder')
         /\ \A s \in signIns : Signed(s, state', holder')
<1>1. \A l \in Logins : state[l] \in Login /\ Later(state[l], state'[l])
  BY DEF SignOnInv, SignOnTyped
<1>2. ASSUME NEW q \in Requests PROVE Carried(browsing[q], state', holder')
  <2> DEFINE r == browsing[q]
  <2>1. Carried(r, state, holder)
    BY DEF SignOnInv
  <2>2. CASE r.pc = "idle" \/ (r.pc = "client" /\ r.kind = "login") \/ r.pc = "begin"
    BY <2>1, <2>2 DEF Carried, Taken
  <2>3. CASE (r.pc = "client" /\ r.kind # "login") \/ r.pc = "take" \/ Taken(r)
    <3>1. r.login \in Logins /\ state[r.login].person \in People
      BY <1>1, <2>1, <2>3 DEF Carried, Taken, Login
    <3>2. Later(state[r.login], state'[r.login]) /\ state[r.login].person # "none"
          /\ Bound(holder[state[r.login].person], holder'[state[r.login].person])
      BY <1>1, <2>1, <2>3, <3>1 DEF Carried
    <3> QED
      BY <2>1, <2>3, <3>1, <3>2 DEF Carried, Later, Bound, Taken, NamesApart
  <2> QED
    BY <2>1, <2>2, <2>3 DEF SignOnInv, SignOnTyped, Visit, Taken
<1>3. ASSUME NEW s \in signIns PROVE Signed(s, state', holder')
  <2>1. Signed(s, state, holder) /\ s.login \in Logins
    BY DEF SignOnInv, SignOnTyped
  <2>2. Later(state[s.login], state'[s.login]) /\ state[s.login].person \in People
    BY <1>1, <2>1 DEF Signed, Login
  <2>3. s.task.issuer \in SSO!Issuers
    BY <2>1 DEF Signed, SSO!Issuers
  <2>4. Bound(holder[state[s.login].person], holder'[state[s.login].person])
    BY <2>2
  <2> QED
    BY <2>1, <2>2, <2>3, <2>4 DEF Signed, Later, Bound, NamesApart
<1> QED
  BY <1>2, <1>3

\* A request that goes on, or fails, without a sign-in.
LEMMA VisitStep ==
  ASSUME NamesApart, SignOnInv, NEW q \in Requests, NEW r \in Visit, SSO!Step(q, r),
         state' \in [Logins -> Login], \A l \in Logins : Later(state[l], state'[l]) /\ Registered(state'[l]),
         cookie' \in [Browsers -> Logins \union {"none"}], Baked(cookie', state'),
         Carried(r, state', holder),
         Taken(r) => r.login = browsing[q].login /\ (Taken(browsing[q]) \/ state[r.login].open),
         UNCHANGED <<sso, org, holder, signIns, claimed>>
  PROVE  SignOnInv'
<1>1. /\ browsing' \in [Requests -> Visit] /\ browsing'[q] = r
      /\ \A p \in Requests \ {q} : browsing'[p] = browsing[p]
  BY DEF SignOnInv, SignOnTyped, SSO!Step
<1>2. SignOnTyped'
  BY <1>1 DEF SignOnInv, SignOnTyped
<1>3. \A p \in People : Bound(holder[p], holder'[p])
  BY DEF Bound
<1>4. \A p \in Requests : Carried(browsing'[p], state', holder')
  BY <1>1, <1>3, StaysTrue
<1>5. \A s \in signIns' : Signed(s, state', holder')
  BY <1>3, StaysTrue
<1>6. Separate(browsing', signIns')
  <2>1. ASSUME Taken(r) PROVE /\ \A s \in signIns : s.login # r.login
                              /\ \A p \in Requests : Taken(browsing[p]) /\ browsing[p].login = r.login => p = q
    <3>1. CASE Taken(browsing[q])
      BY <2>1, <3>1 DEF SignOnInv, Separate
    <3>2. CASE state[r.login].open
      BY <2>1, <3>2 DEF SignOnInv, Signed, Carried
    <3> QED
      BY <2>1, <3>1, <3>2
  <2>2. \A p \in Requests \ {q} : Taken(browsing'[p]) => \A s \in signIns : s.login # browsing'[p].login
    BY <1>1 DEF SignOnInv, Separate
  <2>3. \A p, o \in Requests \ {q} : Taken(browsing'[p]) /\ Taken(browsing'[o])
                                       /\ browsing'[p].login = browsing'[o].login => p = o
    BY <1>1 DEF SignOnInv, Separate
  <2> QED
    BY <1>1, <2>1, <2>2, <2>3 DEF Separate
<1>7. ~claimed' => OneClaims(org')
  BY DEF SignOnInv
<1> QED
  BY <1>2, <1>4, <1>5, <1>6, <1>7 DEF SignOnInv

\* A request that only reads: the rows, the logins and the cookies stay.
LEMMA VisitReads ==
  ASSUME NamesApart, SignOnInv, NEW q \in Requests, NEW r \in Visit, SSO!Step(q, r),
         Carried(r, state, holder), Taken(r) => r.login = browsing[q].login /\ Taken(browsing[q]),
         UNCHANGED <<sso, state, cookie, org, holder, signIns, claimed>>
  PROVE  SignOnInv'
<1>1. \A l \in Logins : Later(state[l], state[l])
  BY DEF Later
<1> QED
  BY <1>1, VisitStep DEF SignOnInv, SignOnTyped

\* A callback that fails also takes the cookie of its browser.
LEMMA VisitFails ==
  ASSUME NamesApart, SignOnInv, NEW q \in Requests, SSO!Fail(q),
         UNCHANGED <<sso, state, org, holder, signIns, claimed>>
  PROVE  SignOnInv'
<1>0. cookie \in [Browsers -> Logins \union {"none"}] /\ Baked(cookie, state)
      /\ cookie' = [cookie EXCEPT ![browsing[q].browser] = "none"]
  BY DEF SignOnInv, SignOnTyped, SSO!Fail, SSO!None
<1>1. cookie' \in [Browsers -> Logins \union {"none"}]
  BY <1>0
<1>2. \A b \in Browsers : cookie'[b] = cookie[b] \/ cookie'[b] = "none"
  BY <1>0
<1>3. Baked(cookie', state)
  BY <1>0, <1>2 DEF Baked
<1>4. \A l \in Logins : Later(state[l], state[l])
  BY DEF Later
<1>5. SSO!Step(q, SSO!Idle) /\ ~Taken(SSO!Idle)
  BY NoVisit DEF SSO!Fail, Taken
<1> QED
  BY <1>1, <1>3, <1>4, <1>5, NoVisit, VisitStep DEF SignOnInv, SignOnTyped

\* load_provider, for begin_login and for the callback.
LEMMA LoadIssuerNext ==
  ASSUME NamesApart, SignOnInv, NEW q \in Requests, NEW b \in Browsers, NEW l \in Logins,
         NEW kind \in {"login", "callback"}, SSO!LoadIssuer(q, b, kind, l)
  PROVE  SignOnInv'
<1> DEFINE r == [SSO!Idle EXCEPT !.pc = "client", !.kind = kind, !.browser = b, !.login = l,
                                 !.issuer = sso[1]]
<1>0. sso[1] \in SSO!Issuers
  BY DEF SignOnInv, SignOnTyped, SSO!Issuers
<1>1. /\ r \in Visit /\ r.pc = "client" /\ r.kind = kind /\ r.browser = b /\ r.login = l
      /\ r.issuer \in SSO!Issuers
  BY <1>0, NoVisit DEF Visit
<1>2. /\ SSO!Step(q, r) /\ (kind # "login" => state[l].person # "none")
      /\ UNCHANGED <<sso, state, cookie, org, holder, signIns, claimed>>
  BY DEF SSO!LoadIssuer, SSO!None, SSO!Redis, SSO!shared
<1> HIDE DEF r
<1>3. Carried(r, state, holder) /\ ~Taken(r)
  BY <1>1, <1>2 DEF Carried, Taken
<1> QED
  BY <1>1, <1>2, <1>3, VisitReads

\* The second statement of load_provider.
LEMMA LoadClientNext ==
  ASSUME NamesApart, SignOnInv, NEW q \in Requests, SSO!LoadClient(q)
  PROVE  SignOnInv'
<1> DEFINE r == [browsing[q] EXCEPT !.pc = IF browsing[q].kind = "login" THEN "begin" ELSE "take",
                                    !.client = sso[2]]
<1>0. /\ sso[2] \in SSO!Clients /\ browsing[q] \in Visit /\ Carried(browsing[q], state, holder)
      /\ browsing[q].pc = "client"
  BY DEF SignOnInv, SignOnTyped, SSO!Clients, SSO!LoadClient
<1>1. /\ r \in Visit /\ r.pc \in {"begin", "take"} /\ (r.pc = "take" => browsing[q].kind # "login")
      /\ r.browser = browsing[q].browser /\ r.login = browsing[q].login
      /\ r.issuer = browsing[q].issuer /\ r.client = sso[2]
  BY <1>0 DEF Visit
<1>2. SSO!Step(q, r) /\ UNCHANGED <<sso, state, cookie, org, holder, signIns, claimed>>
  BY DEF SSO!LoadClient, SSO!Redis, SSO!shared
<1> HIDE DEF r
<1>3. Carried(r, state, holder) /\ ~Taken(r)
  BY <1>0, <1>1 DEF Carried, Taken
<1> QED
  BY <1>1, <1>2, <1>3, VisitReads

\* begin_login
LEMMA BeginNext ==
  ASSUME NamesApart, SignOnInv, NEW q \in Requests, SSO!Begin(q)
  PROVE  SignOnInv'
<1> DEFINE r == browsing[q]
           x == [SSO!NoLogin EXCEPT !.open = TRUE, !.browser = r.browser, !.issuer = r.issuer,
                                    !.client = r.client]
<1>0. /\ r \in Visit /\ Carried(r, state, holder) /\ r.pc = "begin" /\ state[r.login] = SSO!NoLogin
      /\ state \in [Logins -> Login] /\ cookie \in [Browsers -> Logins \union {"none"}]
      /\ Baked(cookie, state) /\ \A l \in Logins : Registered(state[l])
  BY DEF SignOnInv, SignOnTyped, SSO!Begin
<1>1. /\ r.login \in Logins /\ r.browser \in Browsers /\ r.issuer \in SSO!Issuers
      /\ r.client \in SSO!Clients
  BY <1>0 DEF Carried
<1>2. x \in Login /\ x.person = "none" /\ x.browser = r.browser
  BY <1>1 DEF SSO!NoLogin, SSO!None, Login
<1>3. /\ state' = [state EXCEPT ![r.login] = x] /\ cookie' = [cookie EXCEPT ![r.browser] = r.login]
      /\ SSO!Step(q, SSO!Idle) /\ UNCHANGED <<sso, org, holder, signIns, claimed>>
  BY DEF SSO!Begin, SSO!shared
<1>4. state[r.login].person = "none" /\ state[r.login].browser = "none"
  BY <1>0 DEF SSO!NoLogin, SSO!None
<1> HIDE DEF x, r
<1>5. state' \in [Logins -> Login] /\ cookie' \in [Browsers -> Logins \union {"none"}]
  BY <1>0, <1>1, <1>2, <1>3
<1>6. ASSUME NEW l \in Logins PROVE Later(state[l], state'[l]) /\ Registered(state'[l])
  BY <1>0, <1>1, <1>2, <1>3, <1>4 DEF Later, Registered
<1>7. Baked(cookie', state')
  <2> SUFFICES ASSUME NEW b \in Browsers, cookie'[b] # "none" PROVE state'[cookie'[b]].browser = b
    BY DEF Baked
  <2>1. CASE b = r.browser
    BY <1>0, <1>1, <1>2, <1>3, <2>1
  <2>2. CASE b # r.browser
    <3>1. cookie'[b] = cookie[b] /\ cookie[b] \in Logins /\ state[cookie[b]].browser = b
      BY <1>0, <1>3, <2>2 DEF Baked
    <3>2. cookie[b] # r.login
      BY <1>4, <3>1 DEF NamesApart
    <3> QED
      BY <1>0, <1>3, <3>1, <3>2
  <2> QED
    BY <2>1, <2>2
<1>8. ~Taken(SSO!Idle)
  BY NoVisit DEF Taken
<1> QED
  BY <1>3, <1>5, <1>6, <1>7, <1>8, NoVisit, VisitStep

\* A state alone changes in Redis, and browsers may drop a cookie.
LEMMA StateNext ==
  ASSUME NamesApart, SignOnInv, NEW l \in Logins, NEW x \in Login,
         state' = [state EXCEPT ![l] = x], Later(state[l], x), Registered(x), x.browser = state[l].browser,
         cookie' \in [Browsers -> Logins \union {"none"}],
         \A b \in Browsers : cookie'[b] \in {cookie[b], "none"},
         UNCHANGED <<sso, browsing, org, holder, signIns, claimed>>
  PROVE  SignOnInv'
<1>0. state \in [Logins -> Login] /\ Baked(cookie, state) /\ \A k \in Logins : Registered(state[k])
      /\ cookie \in [Browsers -> Logins \union {"none"}]
  BY DEF SignOnInv, SignOnTyped
<1>1. state' \in [Logins -> Login] /\ \A k \in Logins : Later(state[k], state'[k]) /\ Registered(state'[k])
  BY <1>0 DEF Later
<1>2. \A k \in Logins : state'[k].browser = state[k].browser
  BY <1>0
<1>3. Baked(cookie', state')
  BY <1>0, <1>2 DEF Baked
<1>4. \A p \in People : Bound(holder[p], holder'[p])
  BY DEF Bound
<1>5. /\ \A q \in Requests : Carried(browsing'[q], state', holder')
      /\ \A s \in signIns' : Signed(s, state', holder')
  BY <1>1, <1>4, StaysTrue
<1> QED
  BY <1>1, <1>3, <1>5 DEF SignOnInv, SignOnTyped

\* The provider authenticates, and a state expires.
LEMMA ProviderNext ==
  ASSUME NamesApart, SignOnInv, NEW l \in Logins
  PROVE  /\ \A p \in People : SSO!Authenticate(l, p) => SignOnInv'
         /\ SSO!Expire(l) => SignOnInv'
<1>0. /\ state[l] \in Login /\ Registered(state[l])
      /\ cookie \in [Browsers -> Logins \union {"none"}]
  BY DEF SignOnInv, SignOnTyped
<1>1. ASSUME NEW p \in People, SSO!Authenticate(l, p) PROVE SignOnInv'
  <2> DEFINE x == [state[l] EXCEPT !.person = p]
  <2>1. /\ state' = [state EXCEPT ![l] = x] /\ UNCHANGED <<sso, cookie, browsing, org, holder, signIns, claimed>>
        /\ state[l].person = "none" /\ <<state[l].issuer, state[l].client>> \in Pairs
    BY <1>1 DEF SSO!Authenticate, SSO!shared, SSO!None
  <2>2. /\ x \in Login /\ x.open = state[l].open /\ x.browser = state[l].browser
        /\ x.issuer = state[l].issuer /\ x.client = state[l].client
    BY <1>0 DEF Login
  <2> HIDE DEF x
  <2>3. Later(state[l], x) /\ Registered(x)
    BY <2>1, <2>2 DEF Later, Registered
  <2> QED
    BY <1>0, <2>1, <2>2, <2>3, StateNext
<1>2. ASSUME SSO!Expire(l) PROVE SignOnInv'
  <2> DEFINE x == [state[l] EXCEPT !.open = FALSE]
  <2>1. /\ state' = [state EXCEPT ![l] = x] /\ UNCHANGED <<sso, browsing, org, holder, signIns, claimed>>
        /\ cookie' = [b \in Browsers |-> IF cookie[b] = l THEN "none" ELSE cookie[b]]
    BY <1>2 DEF SSO!Expire, SSO!shared, SSO!None
  <2>2. /\ x \in Login /\ ~x.open /\ x.browser = state[l].browser /\ x.person = state[l].person
        /\ x.issuer = state[l].issuer /\ x.client = state[l].client
    BY <1>0 DEF Login
  <2> HIDE DEF x
  <2>3. Later(state[l], x) /\ Registered(x)
    BY <1>0, <2>2 DEF Later, Registered
  <2> QED
    BY <1>0, <2>1, <2>2, <2>3, StateNext
<1> QED
  BY <1>1, <1>2

\* complete_login takes the state, once, and compares it with the cookie.
LEMMA TakeNext ==
  ASSUME NamesApart, SignOnInv, NEW q \in Requests, SSO!Take(q)
  PROVE  SignOnInv'
<1> DEFINE l == browsing[q].login
           x == [state[l] EXCEPT !.open = FALSE]
           r == [browsing[q] EXCEPT !.pc = "exchange"]
<1>0. /\ browsing[q] \in Visit /\ Carried(browsing[q], state, holder) /\ browsing[q].pc = "take"
      /\ state \in [Logins -> Login] /\ cookie \in [Browsers -> Logins \union {"none"}]
      /\ Baked(cookie, state) /\ \A k \in Logins : Registered(state[k])
  BY DEF SignOnInv, SignOnTyped, SSO!Take
<1>1. /\ l \in Logins /\ browsing[q].browser \in Browsers /\ state[l] \in Login
      /\ state[l].person # "none"
  BY <1>0 DEF Carried
<1>2. /\ x \in Login /\ ~x.open /\ x.browser = state[l].browser /\ x.person = state[l].person
      /\ x.issuer = state[l].issuer /\ x.client = state[l].client
  BY <1>1 DEF Login
<1>3. state' = [state EXCEPT ![l] = x] /\ UNCHANGED <<sso, org, holder, signIns, claimed>>
  BY DEF SSO!Take, SSO!shared
<1>4. r \in Visit /\ r.pc = "exchange" /\ r.login = l /\ r.browser = browsing[q].browser
      /\ r.issuer = browsing[q].issuer /\ r.client = browsing[q].client
  BY <1>0 DEF Visit
<1>5. IF state[l].open /\ cookie[browsing[q].browser] = l
      THEN SSO!Step(q, r) /\ UNCHANGED cookie ELSE SSO!Fail(q)
  BY DEF SSO!Take
<1> HIDE DEF x, r
<1>6. state' \in [Logins -> Login] /\ state'[l] = x /\ \A k \in Logins \ {l} : state'[k] = state[k]
  BY <1>0, <1>1, <1>2, <1>3
<1>7. \A k \in Logins : Later(state[k], state'[k]) /\ Registered(state'[k])
  BY <1>0, <1>2, <1>6 DEF Later, Registered
<1>8. cookie' \in [Browsers -> Logins \union {"none"}]
      /\ \A b \in Browsers : cookie'[b] \in {cookie[b], "none"}
  BY <1>0, <1>5 DEF SSO!Fail, SSO!None
<1>9. Baked(cookie', state')
  BY <1>0, <1>2, <1>6, <1>8 DEF Baked
<1>10. CASE state[l].open /\ cookie[browsing[q].browser] = l
  <2>1. state[l].browser = browsing[q].browser
    BY <1>0, <1>1, <1>10 DEF Baked, NamesApart
  <2>2. Carried(r, state', holder)
    BY <1>0, <1>1, <1>2, <1>4, <1>6, <2>1 DEF Carried, Taken
  <2>3. SSO!Step(q, r) /\ state[r.login].open /\ r.login = browsing[q].login
    BY <1>4, <1>5, <1>10
  <2> QED
    BY <1>3, <1>4, <1>6, <1>7, <1>8, <1>9, <2>2, <2>3, VisitStep
<1>11. CASE ~(state[l].open /\ cookie[browsing[q].browser] = l)
  <2>1. SSO!Step(q, SSO!Idle) /\ ~Taken(SSO!Idle)
    BY <1>5, <1>11, NoVisit DEF SSO!Fail, Taken
  <2> QED
    BY <1>3, <1>6, <1>7, <1>8, <1>9, <2>1, NoVisit, VisitStep
<1> QED
  BY <1>10, <1>11

\* The cardinality that SignOn counts with is that of FiniteSets.
LEMMA SignOnCardinality == \A S : SSO!Cardinality(S) = Cardinality(S)
BY DEF SSO!Cardinality, Cardinality

\* The code is exchanged, and login_oidc looks the account up.
LEMMA VisitNext ==
  ASSUME NamesApart, SignOnInv, NEW q \in Requests, SSO!Exchange(q) \/ SSO!Lookup(q)
  PROVE  SignOnInv'
<1> DEFINE r == browsing[q]
<1>0. r \in Visit /\ Carried(r, state, holder) /\ Taken(r)
  BY DEF SignOnInv, SignOnTyped, SSO!Exchange, SSO!Lookup, Taken
<1>1. UNCHANGED <<sso, state, org, holder, signIns, claimed>>
  BY DEF SSO!Exchange, SSO!Lookup, SSO!shared
<1>2. CASE SSO!Fail(q)
  BY <1>1, <1>2, VisitFails
<1>3. CASE ~SSO!Fail(q) /\ SSO!Exchange(q)
  <2> DEFINE x == [r EXCEPT !.pc = "lookup"]
  <2>1. /\ SSO!Step(q, x) /\ UNCHANGED cookie
        /\ state[r.login].issuer = r.issuer /\ state[r.login].client = r.client
    BY <1>3 DEF SSO!Exchange, SSO!Accepted
  <2>2. x \in Visit /\ x.pc = "lookup" /\ x.login = r.login /\ x.browser = r.browser
        /\ x.issuer = r.issuer /\ x.client = r.client
    BY <1>0 DEF Visit
  <2> HIDE DEF x
  <2>3. Carried(x, state, holder)
    BY <1>0, <2>1, <2>2 DEF Carried, Taken
  <2> QED
    BY <1>0, <1>1, <2>1, <2>2, <2>3, VisitReads
<1>4. CASE ~SSO!Fail(q) /\ SSO!Lookup(q)
  <2> DEFINE x == [r EXCEPT !.pc = "issue"]
             o == CHOOSE o \in SSO!Claiming : TRUE
             y == [r EXCEPT !.pc = "provision", !.org = o]
  <2>0. r.pc = "lookup"
    BY <1>4 DEF SSO!Lookup
  <2>1. CASE SSO!Step(q, x) /\ UNCHANGED cookie /\ holder[state[r.login].person].bound = r.issuer
    <3>1. x \in Visit /\ x.pc = "issue" /\ x.login = r.login /\ x.browser = r.browser
          /\ x.issuer = r.issuer /\ x.client = r.client
      BY <1>0 DEF Visit
    <3>2. SSO!Step(q, x)
      BY <2>1
    <3> HIDE DEF x
    <3>3. Carried(x, state, holder)
      BY <1>0, <2>0, <2>1, <3>1 DEF Carried, Taken
    <3> QED
      BY <1>0, <1>1, <2>1, <3>1, <3>2, <3>3, VisitReads
  <2>2. CASE SSO!Step(q, y) /\ UNCHANGED cookie /\ Cardinality(SSO!Claiming) = 1
    <3>1. SSO!Claiming # {}
      BY <2>2, FS_EmptySet
    <3>2. o \in Orgs
      BY <3>1 DEF SSO!Claiming
    <3> HIDE DEF o
    <3>3. y \in Visit /\ y.pc = "provision" /\ y.login = r.login /\ y.browser = r.browser
          /\ y.issuer = r.issuer /\ y.client = r.client
      BY <1>0, <3>2 DEF Visit
    <3>4. SSO!Step(q, y)
      BY <2>2
    <3> HIDE DEF y
    <3>5. Carried(y, state, holder)
      BY <1>0, <2>0, <3>3 DEF Carried, Taken
    <3> QED
      BY <1>0, <1>1, <2>2, <3>3, <3>4, <3>5, VisitReads
  <2> QED
    BY <1>4, <2>1, <2>2, SignOnCardinality DEF SSO!Lookup
<1> QED
  BY <1>2, <1>3, <1>4

\* A sign-in ends the request that had its login in hand.
LEMMA SignStep ==
  ASSUME NamesApart, SignOnInv, NEW q \in Requests, browsing[q].pc \in {"issue", "provision"},
         SSO!SignIn(q), holder' \in [People -> Holder],
         \A p \in People : Bound(holder[p], holder'[p]),
         holder'[state[browsing[q].login].person].bound = browsing[q].issuer,
         UNCHANGED <<sso, state, org, claimed>>
  PROVE  SignOnInv'
<1> DEFINE r == browsing[q]
           s == [login |-> r.login, task |-> r, again |-> \E o \in signIns : o.login = r.login]
<1>0. /\ r \in Visit /\ Carried(r, state, holder) /\ Taken(r) /\ r.login \in Logins
      /\ browsing \in [Requests -> Visit] /\ \A l \in Logins : Registered(state[l])
      /\ cookie \in [Browsers -> Logins \union {"none"}] /\ Baked(cookie, state)
  BY DEF SignOnInv, SignOnTyped, Carried, Taken
<1>1. /\ signIns' = signIns \union {s} /\ SSO!Step(q, SSO!Idle)
      /\ cookie' = [cookie EXCEPT ![r.browser] = "none"]
  BY DEF SSO!SignIn, SSO!None
<1>2. /\ browsing' \in [Requests -> Visit] /\ browsing'[q] = SSO!Idle
      /\ \A p \in Requests \ {q} : browsing'[p] = browsing[p]
  BY <1>0, <1>1, NoVisit DEF SSO!Step
<1>3. s \in [login : Logins, task : Visit, again : BOOLEAN] /\ s.login = r.login /\ s.task = r
      /\ s.again = \E o \in signIns : o.login = r.login
  BY <1>0
<1>4. ~s.again
  BY <1>0, <1>3 DEF SignOnInv, Separate
<1> HIDE DEF s
<1>5. Signed(s, state', holder')
  <2>1. <<r.issuer, r.client>> \in Pairs
    BY <1>0 DEF Carried, Registered, Taken
  <2> QED
    BY <1>0, <1>3, <1>4, <2>1 DEF Signed, Carried
<1>6. cookie' \in [Browsers -> Logins \union {"none"}]
      /\ \A b \in Browsers : cookie'[b] \in {cookie[b], "none"}
  BY <1>0, <1>1
<1>7. Baked(cookie', state')
  BY <1>0, <1>6 DEF Baked
<1>8. SignOnTyped'
  BY <1>1, <1>2, <1>3, <1>6 DEF SignOnInv, SignOnTyped
<1>9. \A l \in Logins : Later(state[l], state'[l])
  BY DEF Later
<1>10. \A p \in Requests : Carried(browsing'[p], state', holder')
  BY <1>2, <1>9, NoVisit, StaysTrue
<1>11. \A o \in signIns' : Signed(o, state', holder')
  BY <1>1, <1>5, <1>9, StaysTrue
<1>12. Separate(browsing', signIns')
  <2>1. ~Taken(browsing'[q])
    BY <1>2, NoVisit DEF Taken
  <2>2. \A p \in Requests \ {q} : Taken(browsing[p]) => browsing[p].login # r.login
    BY <1>0 DEF SignOnInv, Separate
  <2>3. Separate(browsing, signIns)
    BY DEF SignOnInv
  <2> QED
    BY <1>1, <1>2, <1>3, <2>1, <2>2, <2>3 DEF Separate
<1>13. (~claimed' => OneClaims(org')) /\ \A l \in Logins : Registered(state'[l])
  BY <1>0 DEF SignOnInv
<1> QED
  BY <1>7, <1>8, <1>10, <1>11, <1>12, <1>13 DEF SignOnInv

\* The two ends of login_oidc.
LEMMA SignInNext ==
  ASSUME NamesApart, SignOnInv, NEW q \in Requests, SSO!Issue(q) \/ SSO!Provision(q)
  PROVE  SignOnInv'
<1> DEFINE r == browsing[q]
           p == state[r.login].person
<1>0. /\ r \in Visit /\ Carried(r, state, holder) /\ Taken(r) /\ holder \in [People -> Holder]
      /\ state \in [Logins -> Login] /\ r.pc \in {"issue", "provision"}
  BY DEF SignOnInv, SignOnTyped, SSO!Issue, SSO!Provision, Taken
<1>1. p \in People /\ r.issuer \in SSO!Issuers
  BY <1>0 DEF Carried, Taken, Login
<1>2. CASE SSO!Issue(q)
  <2>1. /\ SSO!SignIn(q) /\ UNCHANGED <<sso, state, org, holder, claimed>> /\ r.pc = "issue"
    BY <1>2 DEF SSO!Issue
  <2>2. holder'[p].bound = r.issuer /\ \A u \in People : Bound(holder[u], holder'[u])
    BY <1>0, <2>1 DEF Carried, Bound
  <2> QED
    BY <1>0, <2>1, <2>2, SignStep
<1>3. CASE SSO!Provision(q) /\ SSO!SignIn(q)
  <2> DEFINE h == [org |-> r.org, bound |-> r.issuer, active |-> TRUE]
  <2>1. CASE holder[p] = SSO!NoUser /\ org[r.org].here
    <3>1. holder' = [holder EXCEPT ![p] = h] /\ UNCHANGED <<sso, state, org, claimed>>
      BY <1>3, <2>1 DEF SSO!Provision
    <3>2. h \in Holder /\ h.bound = r.issuer
      BY <1>0, <1>1 DEF Holder, Visit
    <3>3. holder[p].bound = "none"
      BY <2>1 DEF SSO!NoUser, SSO!None
    <3> HIDE DEF h
    <3>4. /\ holder' \in [People -> Holder] /\ holder'[p].bound = r.issuer
          /\ \A u \in People : Bound(holder[u], holder'[u])
      BY <1>0, <1>1, <3>1, <3>2, <3>3 DEF Bound
    <3> QED
      BY <1>0, <1>3, <3>1, <3>4, SignStep
  <2>2. CASE ~(holder[p] = SSO!NoUser /\ org[r.org].here)
    <3>1. SSO!Step(q, SSO!Idle) /\ UNCHANGED <<sso, state, cookie, org, holder, signIns, claimed>>
      BY <1>3, <2>2 DEF SSO!Provision
    <3>2. ~Taken(SSO!Idle)
      BY NoVisit DEF Taken
    <3> QED
      BY <3>1, <3>2, NoVisit, VisitReads
  <2> QED
    BY <2>1, <2>2
<1>4. CASE SSO!Provision(q) /\ ~SSO!SignIn(q)
  <2>1. SSO!Step(q, SSO!Idle) /\ UNCHANGED <<sso, state, cookie, org, holder, signIns, claimed>>
    BY <1>4 DEF SSO!Provision
  <2>2. ~Taken(SSO!Idle)
    BY NoVisit DEF Taken
  <2> QED
    BY <2>1, <2>2, NoVisit, VisitReads
<1> QED
  BY <1>2, <1>3, <1>4

\* What administrators do: no request and no session is touched.
LEMMA EditStep ==
  ASSUME NamesApart, SignOnInv, UNCHANGED <<state, cookie, browsing, signIns>>,
         sso' \in Pairs, org' \in [Orgs -> Org], holder' \in [People -> Holder],
         \A p \in People : Bound(holder[p], holder'[p]), claimed' \in BOOLEAN,
         ~claimed' => OneClaims(org')
  PROVE  SignOnInv'
<1>1. \A l \in Logins : Later(state[l], state'[l])
  BY DEF Later
<1>2. /\ \A q \in Requests : Carried(browsing'[q], state', holder')
      /\ \A s \in signIns' : Signed(s, state', holder')
  BY <1>1, StaysTrue
<1> QED
  BY <1>2 DEF SignOnInv, SignOnTyped

\* set_sso_config, set_org_sso_domains, delete_organization and the accounts that come and go.
LEMMA EditNext ==
  ASSUME NamesApart, SignOnInv
  PROVE  /\ \A pair \in Pairs : SSO!SetSsoConfig(pair) => SignOnInv'
         /\ \A o \in Orgs :
              (\/ SSO!ClaimRead(o) \/ SSO!ClaimCommit(o) \/ SSO!Unclaim(o) \/ SSO!DeleteRead(o)
               \/ SSO!DeleteCommit(o) \/ SSO!CreateOrganization(o)) => SignOnInv'
         /\ \A p \in People, o \in Orgs : SSO!AcceptInvitation(p, o) => SignOnInv'
         /\ \A p \in People : SSO!SetActive(p) => SignOnInv'
<1>0. /\ sso \in Pairs /\ org \in [Orgs -> Org] /\ holder \in [People -> Holder] /\ claimed \in BOOLEAN
      /\ (~claimed => OneClaims(org)) /\ \A p \in People : Bound(holder[p], holder[p])
  BY DEF SignOnInv, SignOnTyped, Bound
<1>1. ASSUME NEW pair \in Pairs, SSO!SetSsoConfig(pair) PROVE SignOnInv'
  BY <1>0, <1>1, EditStep DEF SSO!SetSsoConfig, SSO!signing
<1>2. ASSUME NEW o \in Orgs, NEW x \in Org, org' = [org EXCEPT ![o] = x],
             (x.claims \/ x.edit = "claim") => org[o].claims \/ org[o].edit = "claim" \/ claimed'
                 \/ \A p \in Orgs : org[p].claims \/ org[p].edit = "claim" => p = o,
             UNCHANGED <<sso, state, cookie, browsing, signIns, holder>>, claimed' \in BOOLEAN,
             claimed => claimed'
      PROVE  SignOnInv'
  <2>1. org' \in [Orgs -> Org] /\ org'[o] = x /\ \A p \in Orgs \ {o} : org'[p] = org[p]
    BY <1>0, <1>2
  <2>2. ~claimed' => OneClaims(org')
    BY <1>0, <1>2, <2>1 DEF OneClaims
  <2> QED
    BY <1>0, <1>2, <2>1, <2>2, EditStep
<1>3. ASSUME NEW o \in Orgs, SSO!ClaimRead(o) PROVE SignOnInv'
  <2> DEFINE x == [org[o] EXCEPT !.edit = "claim"]
  <2>1. /\ org' = [org EXCEPT ![o] = x] /\ UNCHANGED <<sso, state, cookie, browsing, signIns, holder>>
        /\ claimed' = (claimed \/ \E p \in Orgs : org[p].edit = "claim")
        /\ SSO!Claiming \subseteq {o}
    BY <1>3 DEF SSO!ClaimRead, SSO!signing
  <2>2. x \in Org
    BY <1>0 DEF Org
  <2> HIDE DEF x
  <2> QED
    BY <1>0, <1>2, <2>1, <2>2 DEF SSO!Claiming
<1>4. ASSUME NEW o \in Orgs, SSO!ClaimCommit(o) PROVE SignOnInv'
  <2> DEFINE x == [org[o] EXCEPT !.edit = "none", !.claims = TRUE]
  <2>1. /\ org' = [org EXCEPT ![o] = x] /\ UNCHANGED <<sso, state, cookie, browsing, signIns, holder, claimed>>
        /\ org[o].edit = "claim"
    BY <1>0, <1>4 DEF SSO!ClaimCommit, SSO!signing
  <2>2. x \in Org
    BY <1>0 DEF Org
  <2> HIDE DEF x
  <2> QED
    BY <1>0, <1>2, <2>1, <2>2
<1>5. ASSUME NEW o \in Orgs, SSO!Unclaim(o) PROVE SignOnInv'
  <2> DEFINE x == [org[o] EXCEPT !.claims = FALSE]
  <2>1. org' = [org EXCEPT ![o] = x] /\ UNCHANGED <<sso, state, cookie, browsing, signIns, holder, claimed>>
    BY <1>5 DEF SSO!Unclaim, SSO!signing
  <2>2. x \in Org /\ ~x.claims /\ x.edit = org[o].edit
    BY <1>0 DEF Org
  <2> HIDE DEF x
  <2> QED
    BY <1>0, <1>2, <2>1, <2>2
<1>6. ASSUME NEW o \in Orgs, SSO!DeleteRead(o) PROVE SignOnInv'
  <2> DEFINE x == [org[o] EXCEPT !.edit = "delete"]
  <2>1. org' = [org EXCEPT ![o] = x] /\ UNCHANGED <<sso, state, cookie, browsing, signIns, holder, claimed>>
    BY <1>6 DEF SSO!DeleteRead, SSO!signing
  <2>2. x \in Org /\ x.claims = org[o].claims /\ x.edit = "delete"
    BY <1>0 DEF Org
  <2> HIDE DEF x
  <2> QED
    BY <1>0, <1>2, <2>1, <2>2
<1>7. ASSUME NEW o \in Orgs, SSO!DeleteCommit(o) PROVE SignOnInv'
  <2>1. PICK x \in Org : org' = [org EXCEPT ![o] = x] /\ (x.claims => org[o].claims) /\ x.edit = "none"
    <3> DEFINE y == [org[o] EXCEPT !.edit = "none"]
               z == [here |-> FALSE, claims |-> FALSE, edit |-> "none"]
    <3>1. y \in Org /\ z \in Org /\ y.claims = org[o].claims /\ y.edit = "none"
      BY <1>0 DEF Org
    <3>2. org' = [org EXCEPT ![o] = y] \/ org' = [org EXCEPT ![o] = z]
      BY <1>0, <1>7 DEF SSO!DeleteCommit
    <3> QED
      BY <3>1, <3>2
  <2>2. UNCHANGED <<sso, state, cookie, browsing, signIns, holder, claimed>>
    BY <1>7 DEF SSO!DeleteCommit, SSO!signing
  <2> QED
    BY <1>0, <1>2, <2>1, <2>2
<1>8. ASSUME NEW o \in Orgs, SSO!CreateOrganization(o) PROVE SignOnInv'
  <2> DEFINE x == [org[o] EXCEPT !.here = TRUE]
  <2>1. org' = [org EXCEPT ![o] = x] /\ UNCHANGED <<sso, state, cookie, browsing, signIns, holder, claimed>>
    BY <1>8 DEF SSO!CreateOrganization, SSO!signing
  <2>2. x \in Org /\ x.claims = org[o].claims /\ x.edit = org[o].edit
    BY <1>0 DEF Org
  <2> HIDE DEF x
  <2> QED
    BY <1>0, <1>2, <2>1, <2>2
<1>9. ASSUME NEW p \in People, NEW h \in Holder, holder' = [holder EXCEPT ![p] = h],
             Bound(holder[p], h), UNCHANGED <<sso, state, cookie, browsing, signIns, org, claimed>>
      PROVE  SignOnInv'
  <2>1. holder' \in [People -> Holder] /\ \A u \in People : Bound(holder[u], holder'[u])
    BY <1>0, <1>9
  <2> QED
    BY <1>0, <1>9, <2>1, EditStep
<1>10. ASSUME NEW p \in People, NEW o \in Orgs, SSO!AcceptInvitation(p, o) PROVE SignOnInv'
  <2> DEFINE h == [org |-> o, bound |-> SSO!Local, active |-> TRUE]
  <2>1. /\ holder' = [holder EXCEPT ![p] = h] /\ holder[p] = SSO!NoUser
        /\ UNCHANGED <<sso, state, cookie, browsing, signIns, org, claimed>>
    BY <1>10 DEF SSO!AcceptInvitation, SSO!signing
  <2>2. h \in Holder
    BY DEF Holder, SSO!Local
  <2>3. Bound(holder[p], h)
    BY <2>1 DEF Bound, SSO!NoUser, SSO!None
  <2> HIDE DEF h
  <2> QED
    BY <1>9, <2>1, <2>2, <2>3
<1>11. ASSUME NEW p \in People, SSO!SetActive(p) PROVE SignOnInv'
  <2> DEFINE h == [holder[p] EXCEPT !.active = ~@]
  <2>1. /\ holder' = [holder EXCEPT ![p] = h]
        /\ UNCHANGED <<sso, state, cookie, browsing, signIns, org, claimed>>
    BY <1>11 DEF SSO!SetActive, SSO!signing
  <2>2. h \in Holder /\ h.bound = holder[p].bound
    BY <1>0 DEF Holder
  <2> HIDE DEF h
  <2> QED
    BY <1>9, <2>1, <2>2 DEF Bound
<1> QED
  BY <1>1, <1>3, <1>4, <1>5, <1>6, <1>7, <1>8, <1>10, <1>11

\* Every step keeps the invariant.
LEMMA SignOnNext == NamesApart /\ SignOnInv /\ [SSO!Next]_(SSO!signOnVars) => SignOnInv'
<1> SUFFICES ASSUME NamesApart, SignOnInv, [SSO!Next]_(SSO!signOnVars) PROVE SignOnInv'
  OBVIOUS
<1>1. CASE UNCHANGED SSO!signOnVars
  <2>1. UNCHANGED <<sso, state, cookie, browsing, signIns, org, holder, claimed>>
    BY <1>1 DEF SSO!signOnVars
  <2>2. \A p \in People : Bound(holder[p], holder[p])
    BY DEF Bound
  <2> QED
    BY <2>1, <2>2, EditStep DEF SignOnInv, SignOnTyped
<1>2. CASE SSO!Next
  <2>1. ASSUME NEW q \in Requests,
               \/ SSO!LoadClient(q) \/ SSO!Begin(q) \/ SSO!Take(q) \/ SSO!Exchange(q) \/ SSO!Lookup(q)
               \/ SSO!Issue(q) \/ SSO!Provision(q)
        PROVE  SignOnInv'
    BY <2>1, LoadClientNext, BeginNext, TakeNext, VisitNext, SignInNext
  <2>2. ASSUME NEW q \in Requests, NEW b \in Browsers, NEW l \in Logins,
               NEW kind \in {"login", "callback"}, SSO!LoadIssuer(q, b, kind, l)
        PROVE  SignOnInv'
    BY <2>2, LoadIssuerNext
  <2>3. ASSUME NEW l \in Logins, SSO!Expire(l) \/ \E p \in People : SSO!Authenticate(l, p)
        PROVE  SignOnInv'
    BY <2>3, ProviderNext
  <2>4. ASSUME NEW o \in Orgs,
               \/ SSO!ClaimRead(o) \/ SSO!ClaimCommit(o) \/ SSO!Unclaim(o) \/ SSO!DeleteRead(o)
               \/ SSO!DeleteCommit(o) \/ SSO!CreateOrganization(o)
               \/ \E p \in People : SSO!AcceptInvitation(p, o)
        PROVE  SignOnInv'
    BY <2>4, EditNext
  <2>5. ASSUME NEW pair \in Pairs, SSO!SetSsoConfig(pair) PROVE SignOnInv'
    BY <2>5, EditNext
  <2>6. ASSUME NEW p \in People, SSO!SetActive(p) PROVE SignOnInv'
    BY <2>6, EditNext
  <2> QED
    BY <1>2, <2>1, <2>2, <2>3, <2>4, <2>5, <2>6 DEF SSO!Next
<1> QED
  BY <1>1, <1>2

\* A login signs in once, in the browser that began it, with a configuration that was set and
\* to an account bound to its issuer, and two organizations claim a domain only if their
\* requests overlapped: begin_login, complete_login, login_oidc, set_org_sso_domains.
THEOREM SignsInOnceAlways == NamesApart /\ SSO!Spec => []SSO!SignsInOnce
<1> SUFFICES ASSUME NamesApart PROVE SSO!Spec => []SSO!SignsInOnce
  OBVIOUS
<1>1. ASSUME SignOnInv PROVE SSO!SignsInOnce
  <2>1. ASSUME ~claimed PROVE ~(Cardinality(SSO!Claiming) > 1)
    <3>1. \A o, p \in SSO!Claiming : o = p
      BY <1>1, <2>1 DEF SignOnInv, OneClaims, SSO!Claiming
    <3>2. SSO!Claiming = {} \/ \E o : SSO!Claiming = {o}
      BY <3>1
    <3>3. Cardinality(SSO!Claiming) \in {0, 1}
      BY <3>2, FS_EmptySet, FS_Singleton
    <3> QED
      BY <3>3
  <2>2. Cardinality(SSO!Claiming) > 1 => claimed
    BY <2>1
  <2> QED
    BY <1>1, <2>2, SignOnCardinality DEF SSO!SignsInOnce, SignOnInv, Signed
<1> QED
  BY <1>1, SignOnInit, SignOnNext, PTL DEF SSO!Spec
-----------------------------------------------------------------------------
\* The state of Budgets
CONSTANTS Spenders, Caps, Charged, MaxVirtual

VARIABLES override, fallback, vkey, cap, errand, unlooked

Budget == INSTANCE Budgets
    WITH userQuota <- override, default <- fallback, secret <- vkey, budget <- cap,
         task <- errand, stale <- unlooked,
         Users <- Spenders, Limits <- Caps, Priced <- Charged, MaxKeys <- MaxVirtual

\* An organization has a member, keys are numbered from one.
BudgetBounds == Spenders # {} /\ MaxVirtual \in Nat

Tokens == Caps \union {Budget!Unset}
ErrandSet == [pc : {"idle", "allocated", "mint", "store", "user", "call", "org", "each", "eachcall"},
              user : Spenders, tokens : Tokens, key : Budget!Keys \union {Budget!NoKey},
              todo : UNION {[S -> Tokens] : S \in SUBSET Spenders}]

BudgetTyped ==
    /\ override \in [Spenders -> Tokens] /\ fallback \in Tokens
    /\ vkey \in [Spenders -> Budget!Keys \union {Budget!NoKey}]
    /\ DOMAIN cap \subseteq Budget!Keys
    /\ errand \in [Requests -> ErrandSet]
    /\ unlooked \subseteq Spenders

Storing(t) == t.pc = "store"
Writing(t) == t.pc \in {"call", "eachcall"}
Listing(t) == t.pc \in {"each", "eachcall"}

\* Whose a key is: a secret is of one member; a key that is not stored yet is no
\* secret, and nobody writes its budget.
OwnedBy(r, t) ==
    /\ Storing(t) =>
          /\ t.key \in DOMAIN cap /\ \A u \in Spenders : vkey[u] # t.key
          /\ \A q \in Requests \ {r} :
                Storing(errand[q]) \/ Writing(errand[q]) => errand[q].key # t.key
    /\ Writing(t) =>
          /\ t.key \in DOMAIN cap /\ \A u \in Spenders : vkey[u] = t.key => u = t.user
          /\ \A q \in Requests \ {r} : Storing(errand[q]) => errand[q].key # t.key
    /\ Listing(t) => \A u \in DOMAIN t.todo : vkey[u] # Budget!NoKey
    /\ t.pc = "eachcall" => t.user \in DOMAIN t.todo

Secrets ==
    /\ \A u \in Spenders : vkey[u] # Budget!NoKey => vkey[u] \in DOMAIN cap
    /\ \A u, v \in Spenders : vkey[u] = vkey[v] /\ vkey[u] # Budget!NoKey => u = v

Due(u) == Budget!MaxBudget(Budget!Allocated(u))

\* What the errand t carries for u is what u is allocated.
Carries(t, u) ==
    /\ t.pc \in {"allocated", "mint", "store", "user", "call"} /\ t.user = u =>
          t.tokens = Budget!Allocated(u)
    /\ Storing(t) /\ t.user = u => cap[t.key] = Due(u)
    /\ Listing(t) /\ u \in DOMAIN t.todo => t.todo[u] = Budget!Allocated(u)

\* It will write the budget of the key that u has.
Writes(t, u) ==
    \/ t.pc = "user" /\ t.user = u
    \/ t.pc = "call" /\ t.user = u /\ t.key = vkey[u]
    \/ t.pc = "org"
    \/ Listing(t) /\ u \in DOMAIN t.todo /\ (t.pc = "eachcall" /\ t.user = u => t.key = vkey[u])

LookedAfter(u) ==
    /\ \A r \in Requests : Carries(errand[r], u)
    /\ vkey[u] # Budget!NoKey => cap[vkey[u]] = Due(u) \/ \E r \in Requests : Writes(errand[r], u)

BudgetInv ==
    /\ BudgetTyped /\ Secrets
    /\ \A r \in Requests : OwnedBy(r, errand[r])
    /\ \A u \in Spenders \ unlooked : LookedAfter(u)

\* A request that is idle is one of the errands there can be.
LEMMA IdleErrand == ASSUME BudgetBounds PROVE Budget!Idle \in ErrandSet /\ Budget!Idle.pc = "idle"
<1>1. (CHOOSE u \in Spenders : TRUE) \in Spenders
  BY DEF BudgetBounds
<1>2. [u \in {} |-> Budget!Unset] \in [{} -> Tokens]
  BY DEF Tokens
<1>3. [u \in {} |-> Budget!Unset] \in UNION {[S -> Tokens] : S \in SUBSET Spenders}
  BY <1>2
<1> QED
  BY <1>1, <1>3 DEF Budget!Idle, ErrandSet, Tokens

\* No key has been made, and every request is idle: the invariant holds at the start.
LEMMA BudgetInit == ASSUME BudgetBounds, Budget!Init PROVE BudgetInv
<1>1. errand \in [Requests -> ErrandSet] /\ \A r \in Requests : errand[r].pc = "idle"
  BY IdleErrand DEF Budget!Init
<1>2. DOMAIN cap = {}
  BY DEF Budget!Init
<1>3. BudgetTyped
  BY <1>1, <1>2 DEF BudgetTyped, Budget!Init, Tokens
<1> QED
  BY <1>1, <1>3 DEF BudgetInv, Budget!Init, Secrets, OwnedBy, LookedAfter, Carries, Writes, Storing, Writing, Listing

\* A request goes from one errand to another: keys stay whose they are.
LEMMA ErrandOwned ==
  ASSUME BudgetInv, NEW r \in Requests, NEW t \in ErrandSet, Budget!Set(r, t), OwnedBy(r, t),
         UNCHANGED vkey, DOMAIN cap' = DOMAIN cap
  PROVE  /\ errand' \in [Requests -> ErrandSet]
         /\ errand'[r] = t /\ \A q \in Requests : q # r => errand'[q] = errand[q]
         /\ Secrets' /\ \A p \in Requests : OwnedBy(p, errand[p])'
<1>1. /\ errand' \in [Requests -> ErrandSet]
      /\ errand'[r] = t /\ \A q \in Requests : q # r => errand'[q] = errand[q]
  BY DEF BudgetInv, BudgetTyped, Budget!Set
<1>2. Secrets'
  BY DEF BudgetInv, Secrets
<1>3. ASSUME NEW p \in Requests PROVE OwnedBy(p, errand[p])'
  BY <1>1, <1>3 DEF BudgetInv, OwnedBy, Storing, Writing, Listing
<1> QED
  BY <1>1, <1>2, <1>3

\* And no member it looks after loses that.
LEMMA ErrandStep ==
  ASSUME BudgetInv, NEW r \in Requests, NEW t \in ErrandSet, Budget!Set(r, t), OwnedBy(r, t),
         UNCHANGED <<override, fallback, vkey, cap>>, unlooked' \subseteq Spenders,
         unlooked \subseteq unlooked',
         \A v \in Spenders \ unlooked' :
             /\ Carries(t, v)
             /\ Writes(errand[r], v) => Writes(t, v) \/ vkey[v] = Budget!NoKey
  PROVE  BudgetInv'
<1>1. /\ errand' \in [Requests -> ErrandSet]
      /\ errand'[r] = t /\ \A q \in Requests : q # r => errand'[q] = errand[q]
      /\ Secrets' /\ \A p \in Requests : OwnedBy(p, errand[p])'
  BY ErrandOwned
<1>2. BudgetTyped'
  BY <1>1 DEF BudgetInv, BudgetTyped
<1>3. ASSUME NEW v \in Spenders \ unlooked' PROVE LookedAfter(v)'
  <2>1. LookedAfter(v) /\ Carries(t, v) /\ (Writes(errand[r], v) => Writes(t, v) \/ vkey[v] = Budget!NoKey)
    BY <1>3 DEF BudgetInv
  <2>2. Due(v)' = Due(v) /\ Budget!Allocated(v)' = Budget!Allocated(v)
    BY DEF Due, Budget!Allocated, Budget!MaxBudget
  <2>3. ASSUME NEW p \in Requests PROVE Carries(errand[p], v)'
    BY <1>1, <2>1, <2>2 DEF LookedAfter, Carries
  <2>4. ASSUME NEW p \in Requests, Writes(errand[p], v), vkey[v] # Budget!NoKey PROVE Writes(errand[p], v)'
    BY <1>1, <2>1, <2>4 DEF Writes
  <2> QED
    BY <2>1, <2>2, <2>3, <2>4 DEF LookedAfter
<1> QED
  BY <1>1, <1>2, <1>3 DEF BudgetInv

\* A request that has nothing more to do.
LEMMA IdleOwned ==
  ASSUME BudgetBounds
  PROVE  /\ Budget!Idle \in ErrandSet
         /\ \A r : OwnedBy(r, Budget!Idle)
         /\ \A u : Carries(Budget!Idle, u) /\ ~Writes(Budget!Idle, u)
BY IdleErrand DEF OwnedBy, Carries, Writes, Storing, Writing, Listing

\* A turn reads what its member is allocated: _streamer.
LEMMA StreamNext ==
  ASSUME BudgetBounds, BudgetInv, NEW r \in Requests, NEW u \in Spenders, Budget!Stream(r, u)
  PROVE  BudgetInv'
<1> DEFINE t == [Budget!Idle EXCEPT !.pc = "allocated", !.user = u, !.tokens = Budget!Allocated(u)]
<1>1. Budget!Allocated(u) \in Tokens
  BY DEF BudgetInv, BudgetTyped, Budget!Allocated
<1>2. t \in ErrandSet /\ t.pc = "allocated" /\ t.user = u /\ t.tokens = Budget!Allocated(u)
  BY <1>1, IdleErrand DEF ErrandSet
<1>3. Budget!Set(r, t) /\ errand[r].pc = "idle" /\ UNCHANGED <<override, fallback, vkey, cap, unlooked>>
  BY DEF Budget!Stream
<1> HIDE DEF t
<1>4. OwnedBy(r, t) /\ \A v : Carries(t, v) /\ ~Writes(errand[r], v)
  BY <1>2, <1>3 DEF OwnedBy, Carries, Writes, Storing, Writing, Listing
<1>5. unlooked' = unlooked /\ unlooked \subseteq Spenders
  BY <1>3 DEF BudgetInv, BudgetTyped
<1> QED
  BY <1>2, <1>3, <1>4, <1>5, ErrandStep

\* The turn uses the key that is there, or goes on to make one.
LEMMA MintLookupNext ==
  ASSUME BudgetBounds, BudgetInv, NEW r \in Requests, Budget!MintLookup(r)
  PROVE  BudgetInv'
<1> DEFINE t == [errand[r] EXCEPT !.pc = "mint"]
<1>1. /\ errand[r] \in ErrandSet /\ errand[r].pc = "allocated"
      /\ UNCHANGED <<override, fallback, vkey, cap, unlooked>>
      /\ unlooked \subseteq Spenders
  BY DEF BudgetInv, BudgetTyped, Budget!MintLookup
<1>2. t \in ErrandSet /\ t.pc = "mint" /\ t.user = errand[r].user /\ t.tokens = errand[r].tokens
  BY <1>1 DEF ErrandSet
<1>3. Budget!Set(r, Budget!Idle) \/ Budget!Set(r, t)
  BY DEF Budget!MintLookup, Budget!Set, Budget!To
<1> HIDE DEF t
<1>4. OwnedBy(r, t) /\ \A v : ~Writes(errand[r], v) /\ (Carries(errand[r], v) => Carries(t, v))
  BY <1>1, <1>2 DEF OwnedBy, Carries, Writes, Storing, Writing, Listing
<1>5. \A v \in Spenders \ unlooked : Carries(errand[r], v)
  BY DEF BudgetInv, LookedAfter
<1>6. CASE Budget!Set(r, Budget!Idle)
  BY <1>1, <1>6, IdleOwned, <1>4, ErrandStep
<1>7. CASE Budget!Set(r, t)
  BY <1>1, <1>2, <1>4, <1>5, <1>7, ErrandStep
<1> QED
  BY <1>3, <1>6, <1>7

\* The gateway makes a key nobody has.
LEMMA GenerateNext ==
  ASSUME BudgetBounds, BudgetInv, NEW r \in Requests, Budget!Generate(r)
  PROVE  BudgetInv'
<1>1. /\ errand[r] \in ErrandSet /\ errand[r].pc = "mint"
      /\ UNCHANGED <<override, fallback, vkey, unlooked>>
      /\ unlooked \subseteq Spenders
  BY DEF BudgetInv, BudgetTyped, Budget!Generate
<1>2. \A v : ~Writes(errand[r], v)
  BY <1>1 DEF Writes, Listing
<1>3. CASE Budget!Set(r, Budget!Idle) /\ UNCHANGED cap
  BY <1>1, <1>2, <1>3, IdleOwned, ErrandStep
<1>4. ASSUME NEW k \in Budget!Keys \ DOMAIN cap,
             cap' = [j \in DOMAIN cap \union {k} |->
                        IF j = k THEN Budget!MaxBudget(errand[r].tokens) ELSE cap[j]],
             errand' = [errand EXCEPT ![r].pc = "store", ![r].key = k]
      PROVE  BudgetInv'
  <2> DEFINE t == [errand[r] EXCEPT !.pc = "store", !.key = k]
  <2>1. t \in ErrandSet /\ t.pc = "store" /\ t.user = errand[r].user /\ t.tokens = errand[r].tokens /\ t.key = k
    BY <1>1 DEF ErrandSet
  <2>2. errand' = [errand EXCEPT ![r] = t]
    BY <1>4
  <2> HIDE DEF t
  <2>3. /\ errand' \in [Requests -> ErrandSet]
        /\ errand'[r] = t /\ \A q \in Requests : q # r => errand'[q] = errand[q]
    BY <2>1, <2>2 DEF BudgetInv, BudgetTyped
  <2>4. /\ DOMAIN cap' = DOMAIN cap \union {k} /\ k \notin DOMAIN cap
        /\ cap'[k] = Budget!MaxBudget(t.tokens) /\ \A j \in DOMAIN cap : cap'[j] = cap[j]
        /\ k \in Budget!Keys /\ Budget!NoKey \notin Budget!Keys
    BY <1>4, <2>1 DEF Budget!Keys, Budget!NoKey, BudgetBounds
  <2>5. BudgetTyped'
    BY <1>1, <2>3, <2>4 DEF BudgetInv, BudgetTyped
  <2>6. Secrets' /\ \A u \in Spenders : vkey[u] # k
    BY <1>1, <2>4 DEF BudgetInv, Secrets, BudgetTyped
  <2>7. ASSUME NEW p \in Requests PROVE OwnedBy(p, errand[p])'
    BY <1>1, <2>1, <2>3, <2>4, <2>6, <2>7 DEF BudgetInv, OwnedBy, Storing, Writing, Listing
  <2>8. ASSUME NEW v \in Spenders \ unlooked PROVE LookedAfter(v)'
    <3>1. LookedAfter(v) /\ Due(v)' = Due(v) /\ Budget!Allocated(v)' = Budget!Allocated(v)
      BY <1>1, <2>8 DEF BudgetInv, Due, Budget!Allocated, Budget!MaxBudget
    <3>2. ASSUME NEW p \in Requests PROVE Carries(errand[p], v)'
      <4>1. CASE p = r
        BY <1>1, <2>1, <2>3, <2>4, <3>1, <4>1 DEF LookedAfter, Carries, Storing, Listing, Due
      <4>2. CASE p # r
        BY <1>1, <2>3, <2>4, <3>1, <4>2 DEF LookedAfter, Carries, Storing, Listing, BudgetInv, OwnedBy
      <4> QED
        BY <4>1, <4>2
    <3>3. ASSUME NEW p \in Requests, Writes(errand[p], v) PROVE Writes(errand[p], v)'
      BY <1>1, <1>2, <2>3, <3>3 DEF Writes, Listing
    <3>4. vkey[v] # Budget!NoKey => cap'[vkey[v]] = cap[vkey[v]]
      BY <2>4 DEF BudgetInv, Secrets
    <3> QED
      BY <1>1, <3>1, <3>2, <3>3, <3>4 DEF LookedAfter
  <2> QED
    BY <1>1, <2>5, <2>6, <2>7, <2>8 DEF BudgetInv
<1> QED
  BY <1>3, <1>4 DEF Budget!Generate

\* The new key becomes the member's, with the budget it was made with: set_secret.
LEMMA StoreNext ==
  ASSUME BudgetBounds, BudgetInv, NEW r \in Requests, Budget!Store(r)
  PROVE  BudgetInv'
<1> DEFINE u == errand[r].user
<1> DEFINE k == errand[r].key
<1>1. /\ errand[r] \in ErrandSet /\ errand[r].pc = "store" /\ Budget!Set(r, Budget!Idle)
      /\ UNCHANGED <<override, fallback, cap, unlooked>>
      /\ unlooked \subseteq Spenders /\ u \in Spenders /\ k \in Budget!Keys \union {Budget!NoKey}
  BY DEF BudgetInv, BudgetTyped, Budget!Store, ErrandSet
<1>2. \A v : ~Writes(errand[r], v)
  BY <1>1 DEF Writes, Listing
<1>3. CASE UNCHANGED vkey
  BY <1>1, <1>2, <1>3, IdleOwned, ErrandStep
<1>4. CASE vkey' = [vkey EXCEPT ![u] = k]
  <2>1. /\ errand' \in [Requests -> ErrandSet]
        /\ errand'[r] = Budget!Idle /\ \A q \in Requests : q # r => errand'[q] = errand[q]
    BY <1>1, IdleErrand DEF BudgetInv, BudgetTyped, Budget!Set
  <2>2. /\ vkey' \in [Spenders -> Budget!Keys \union {Budget!NoKey}]
        /\ vkey'[u] = k /\ \A v \in Spenders : v # u => vkey'[v] = vkey[v]
    BY <1>1, <1>4 DEF BudgetInv, BudgetTyped
  <2>3. /\ k \in DOMAIN cap /\ k # Budget!NoKey /\ \A v \in Spenders : vkey[v] # k
        /\ \A q \in Requests \ {r} : Storing(errand[q]) \/ Writing(errand[q]) => errand[q].key # k
    BY <1>1 DEF BudgetInv, BudgetTyped, BudgetBounds, OwnedBy, Storing, Budget!Keys, Budget!NoKey
  <2> HIDE DEF u, k
  <2>4. BudgetTyped'
    BY <1>1, <2>1, <2>2 DEF BudgetInv, BudgetTyped
  <2>5. Secrets'
    BY <1>1, <2>2, <2>3 DEF BudgetInv, Secrets
  <2>6. ASSUME NEW p \in Requests PROVE OwnedBy(p, errand[p])'
    <3>1. CASE p = r
      BY <2>1, <3>1, IdleErrand DEF OwnedBy, Storing, Writing, Listing
    <3>2. CASE p # r
      <4>1. OwnedBy(p, errand[p]) /\ errand'[p] = errand[p] /\ errand[p] \in ErrandSet
        BY <2>1, <3>2 DEF BudgetInv, BudgetTyped
      <4>2. \A v \in DOMAIN errand[p].todo : v \in Spenders
        BY <4>1 DEF ErrandSet
      <4>3. \A q \in Requests \ {p} : Storing(errand'[q]) \/ Writing(errand'[q]) => errand'[q] = errand[q]
        BY <2>1, IdleErrand DEF Storing, Writing
      <4> QED
        BY <1>1, <2>2, <2>3, <3>2, <4>1, <4>2, <4>3 DEF OwnedBy, Storing, Writing, Listing
    <3> QED
      BY <3>1, <3>2
  <2>7. ASSUME NEW v \in Spenders \ unlooked PROVE LookedAfter(v)'
    <3>1. LookedAfter(v) /\ Due(v)' = Due(v) /\ Budget!Allocated(v)' = Budget!Allocated(v)
      BY <1>1, <2>7 DEF BudgetInv, Due, Budget!Allocated, Budget!MaxBudget
    <3>2. ASSUME NEW p \in Requests PROVE Carries(errand[p], v)'
      BY <1>1, <2>1, <3>1, IdleErrand DEF LookedAfter, Carries, Storing, Listing
    <3>3. CASE v = u
      <4>1. cap[k] = Due(v)
        BY <1>1, <3>1, <3>3 DEF LookedAfter, Carries, Storing, u, k
      <4> QED
        BY <1>1, <2>2, <3>1, <3>2, <3>3, <4>1 DEF LookedAfter
    <3>4. CASE v # u
      <4>1. vkey'[v] = vkey[v]
        BY <2>2, <2>7, <3>4
      <4>2. ASSUME NEW p \in Requests, Writes(errand[p], v) PROVE Writes(errand[p], v)'
        BY <1>2, <2>1, <4>1, <4>2 DEF Writes, Listing
      <4> QED
        BY <1>1, <3>1, <3>2, <4>1, <4>2 DEF LookedAfter
    <3> QED
      BY <3>3, <3>4
  <2> QED
    BY <1>1, <2>4, <2>5, <2>6, <2>7 DEF BudgetInv
<1> QED
  BY <1>3, <1>4 DEF Budget!Store

\* A change of a member's quota looks for the member's key; without one it has ended.
LEMMA UpdateLookupNext ==
  ASSUME BudgetBounds, BudgetInv, NEW r \in Requests, Budget!UpdateLookup(r)
  PROVE  BudgetInv'
<1> DEFINE u == errand[r].user
<1> DEFINE t == [errand[r] EXCEPT !.pc = "call", !.key = vkey[u]]
<1>1. /\ errand[r] \in ErrandSet /\ errand[r].pc = "user" /\ u \in Spenders
      /\ UNCHANGED <<override, fallback, vkey, cap, unlooked>>
      /\ unlooked \subseteq Spenders /\ vkey[u] \in Budget!Keys \union {Budget!NoKey}
  BY DEF BudgetInv, BudgetTyped, Budget!UpdateLookup, ErrandSet
<1>2. t \in ErrandSet /\ t.pc = "call" /\ t.user = u /\ t.tokens = errand[r].tokens /\ t.key = vkey[u]
  BY <1>1 DEF ErrandSet
<1>3. \A v : Writes(errand[r], v) => v = u
  BY <1>1 DEF Writes, Listing
<1>4. CASE vkey[u] = Budget!NoKey
  <2>1. Budget!Set(r, Budget!Idle)
    BY <1>4 DEF Budget!UpdateLookup
  <2>2. \A v : Writes(errand[r], v) => vkey[v] = Budget!NoKey
    BY <1>3, <1>4
  <2> QED
    BY <1>1, <2>1, <2>2, IdleOwned, ErrandStep
<1>5. CASE vkey[u] # Budget!NoKey
  <2>1. Budget!Set(r, t)
    BY <1>5 DEF Budget!UpdateLookup, Budget!Set
  <2> HIDE DEF t, u
  <2>2. OwnedBy(r, t)
    BY <1>1, <1>2, <1>5 DEF OwnedBy, Storing, Writing, Listing, BudgetInv, Secrets
  <2>3. \A v \in Spenders \ unlooked : Carries(errand[r], v)
    BY DEF BudgetInv, LookedAfter
  <2>4. \A v : /\ Carries(errand[r], v) => Carries(t, v)
               /\ Writes(errand[r], v) => Writes(t, v)
    BY <1>1, <1>2, <1>3 DEF Carries, Writes, Storing, Listing, u
  <2> QED
    BY <1>1, <1>2, <2>1, <2>2, <2>3, <2>4, ErrandStep
<1> QED
  BY <1>4, <1>5

\* For the members but u, the errand t does what r's does.
Resumes(r, t, u) ==
    \A v \in Spenders \ {u} : /\ Carries(errand[r], v) => Carries(t, v)
                              /\ Writes(errand[r], v) => Writes(t, v)

\* A call of the gateway for the member u, from which the errand goes on as t.
LEMMA CallNext ==
  ASSUME BudgetInv, NEW r \in Requests, NEW t \in ErrandSet, NEW u \in Spenders, NEW x,
         Writing(errand[r]), errand[r].user = u, Budget!Written(u, r, x), Budget!Set(r, t),
         UNCHANGED <<override, fallback, vkey>>, OwnedBy(r, t), t.pc \in {"idle", "each"},
         t.pc = "each" => u \notin DOMAIN t.todo,
         Carries(errand[r], u) => x = Budget!Allocated(u),
         Resumes(r, t, u)
  PROVE  BudgetInv'
<1> DEFINE k == errand[r].key
<1> USE DEF Resumes
<1>0. Carries(t, u) /\ \A v : Writes(errand[r], v) /\ v = u => k = vkey[u]
  BY DEF Carries, Writes, Storing, Listing, Writing
<1>1. unlooked \subseteq Spenders /\ \A v \in Spenders \ unlooked : LookedAfter(v)
  BY DEF BudgetInv, BudgetTyped
<1>2. CASE UNCHANGED cap /\ unlooked' = unlooked \union {u}
  BY <1>1, <1>2, ErrandStep DEF LookedAfter
<1>3. CASE /\ cap' = [cap EXCEPT ![k] = Budget!MaxBudget(x)]
           /\ unlooked' = IF /\ x = Budget!Allocated(u) /\ vkey[u] = k
                             /\ Budget!Minting(u) \union Budget!Mirroring(u) = {r}
                          THEN unlooked \ {u} ELSE unlooked
  <2>1. /\ k \in DOMAIN cap /\ \A v \in Spenders : vkey[v] = k => v = u
        /\ \A q \in Requests \ {r} : Storing(errand[q]) => errand[q].key # k
    BY DEF BudgetInv, OwnedBy
  <2>2. DOMAIN cap' = DOMAIN cap /\ cap'[k] = Budget!MaxBudget(x) /\ \A j \in DOMAIN cap : j # k => cap'[j] = cap[j]
    BY <1>3, <2>1
  <2> HIDE DEF k
  <2>3. /\ errand' \in [Requests -> ErrandSet]
        /\ errand'[r] = t /\ \A q \in Requests : q # r => errand'[q] = errand[q]
        /\ Secrets' /\ \A p \in Requests : OwnedBy(p, errand[p])'
    BY <2>2, ErrandOwned
  <2>4. BudgetTyped'
    BY <1>1, <1>3, <2>2, <2>3 DEF BudgetInv, BudgetTyped
  <2>5. ASSUME NEW v \in Spenders \ unlooked' PROVE LookedAfter(v)'
    <3>1. Due(v)' = Due(v) /\ Budget!Allocated(v)' = Budget!Allocated(v)
      BY DEF Due, Budget!Allocated, Budget!MaxBudget
    <3>2. ASSUME v \in unlooked PROVE LookedAfter(v)'
      <4>1. /\ v = u /\ x = Budget!Allocated(u) /\ vkey[u] = k
            /\ Budget!Minting(u) \union Budget!Mirroring(u) = {r}
        BY <1>3, <2>5, <3>2
      <4>2. ASSUME NEW p \in Requests \ {r} PROVE Carries(errand[p], u)'
        <5>1. p \notin Budget!Minting(u) /\ p \notin Budget!Mirroring(u)
          BY <4>1, <4>2
        <5> QED
          BY <2>3, <4>2, <5>1 DEF Budget!Minting, Budget!Mirroring, Carries, Storing, Listing
      <4>3. Carries(t, u)'
        BY <2>3 DEF Carries, Storing, Listing
      <4> QED
        BY <2>2, <2>3, <3>1, <4>1, <4>2, <4>3 DEF LookedAfter, Due
    <3>3. ASSUME v \notin unlooked PROVE LookedAfter(v)'
      <4>1. LookedAfter(v)
        BY <1>1, <2>5, <3>3
      <4>2. ASSUME NEW p \in Requests PROVE Carries(errand[p], v)'
        <5>1. CASE p = r
          <6>1. Carries(t, v)
            BY <1>0, <4>1, <4>2 DEF LookedAfter
          <6> QED
            BY <2>3, <3>1, <5>1, <6>1 DEF Carries, Storing, Listing
        <5>2. CASE p # r
          <6>1. Storing(errand[p]) => errand[p].key \in DOMAIN cap /\ errand[p].key # k
            BY <2>1, <5>2 DEF BudgetInv, OwnedBy
          <6> QED
            BY <2>2, <2>3, <3>1, <4>1, <5>2, <6>1 DEF LookedAfter, Carries, Storing, Listing
        <5> QED
          BY <5>1, <5>2
      <4>3. ASSUME NEW p \in Requests, Writes(errand[p], v), p # r \/ v # u PROVE Writes(errand[p], v)'
        BY <2>3, <4>3 DEF Writes, Listing
      <4>4. vkey[v] # Budget!NoKey => vkey[v] \in DOMAIN cap
        BY DEF BudgetInv, Secrets
      <4>5. CASE v = u /\ vkey[u] = k
        <5>1. x = Budget!Allocated(u)
          BY <4>1, <4>5 DEF LookedAfter
        <5> QED
          BY <2>2, <3>1, <4>2, <4>5, <5>1 DEF LookedAfter, Due
      <4>6. CASE ~(v = u /\ vkey[u] = k)
        <5>1. vkey[v] # k
          BY <2>1, <4>6
        <5>2. \A p \in Requests : Writes(errand[p], v) => p # r \/ v # u
          BY <1>0, <4>6
        <5> QED
          BY <2>2, <3>1, <4>1, <4>2, <4>3, <4>4, <5>1, <5>2 DEF LookedAfter
      <4> QED
        BY <4>5, <4>6
    <3> QED
      BY <3>2, <3>3
  <2> QED
    BY <2>3, <2>4, <2>5 DEF BudgetInv
<1> QED
  BY <1>2, <1>3 DEF Budget!Written

\* It writes the budget that it was asked for, or fails: put_user_quota.
LEMMA UpdateCallNext ==
  ASSUME BudgetBounds, BudgetInv, NEW r \in Requests, Budget!UpdateCall(r)
  PROVE  BudgetInv'
<1>1. /\ errand[r].pc = "call" /\ errand[r] \in ErrandSet /\ errand[r].user \in Spenders
      /\ Writing(errand[r]) /\ Budget!Written(errand[r].user, r, errand[r].tokens)
      /\ Budget!Set(r, Budget!Idle) /\ UNCHANGED <<override, fallback, vkey>>
  BY DEF Budget!UpdateCall, Writing, BudgetInv, BudgetTyped, ErrandSet
<1>2. Budget!Idle.pc = "idle"
  BY IdleErrand
<1>3. Carries(errand[r], errand[r].user) => errand[r].tokens = Budget!Allocated(errand[r].user)
  BY <1>1 DEF Carries
<1>4. Resumes(r, Budget!Idle, errand[r].user)
  BY <1>1, IdleOwned DEF Resumes, Writes, Listing
<1> QED
  BY <1>1, <1>2, <1>3, <1>4, IdleOwned, CallNext

\* A change of the default writes one member's budget, or fails, and goes on: put_org_quota.
LEMMA EachCallNext ==
  ASSUME BudgetBounds, BudgetInv, NEW r \in Requests, Budget!EachCall(r)
  PROVE  BudgetInv'
<1> PICK u : u = errand[r].user
  OBVIOUS
<1> DEFINE left == DOMAIN errand[r].todo \ {u}
<1> DEFINE todo == [v \in left |-> errand[r].todo[v]]
<1> PICK t : t = [errand[r] EXCEPT !.pc = "each", !.todo = todo]
  OBVIOUS
<1>1. /\ errand[r].pc = "eachcall" /\ errand[r] \in ErrandSet /\ u \in Spenders
      /\ Writing(errand[r]) /\ Budget!Written(u, r, errand[r].todo[u])
      /\ errand' = [errand EXCEPT ![r] = t] /\ UNCHANGED <<override, fallback, vkey>>
  BY DEF Budget!EachCall, Writing, BudgetInv, BudgetTyped, ErrandSet
<1>2. todo \in UNION {[S -> Tokens] : S \in SUBSET Spenders}
  <2>1. PICK S \in SUBSET Spenders : errand[r].todo \in [S -> Tokens]
    BY <1>1 DEF ErrandSet
  <2>2. todo \in [left -> Tokens] /\ left \in SUBSET Spenders
    BY <2>1
  <2> QED
    BY <2>2
<1>3. t \in ErrandSet /\ t.pc = "each" /\ t.todo = todo
  BY <1>1, <1>2 DEF ErrandSet
<1>4. /\ DOMAIN t.todo = DOMAIN errand[r].todo \ {u}
      /\ \A v \in DOMAIN t.todo : t.todo[v] = errand[r].todo[v]
  BY <1>3
<1>5. u \in DOMAIN errand[r].todo /\ \A v \in DOMAIN errand[r].todo : vkey[v] # Budget!NoKey
  BY <1>1 DEF BudgetInv, OwnedBy, Listing
<1> HIDE DEF todo, left
<1>6. OwnedBy(r, t)
  BY <1>3, <1>4, <1>5 DEF OwnedBy, Storing, Writing, Listing
<1>7. Carries(errand[r], u) => errand[r].todo[u] = Budget!Allocated(u)
  BY <1>1, <1>5 DEF Carries, Listing
<1>8. Resumes(r, t, u)
  BY <1>1, <1>3, <1>4 DEF Resumes, Carries, Writes, Storing, Listing
<1>9. Budget!Set(r, t)
  BY <1>1 DEF Budget!Set
<1>10. t \in ErrandSet /\ t.pc \in {"idle", "each"} /\ u \notin DOMAIN t.todo /\ errand[r].user = u
  BY <1>3, <1>4
<1>11. Carries(errand[r], u) => errand[r].todo[u] = Budget!Allocated(u)
  BY <1>1, <1>7
<1> QED
  BY <1>1, <1>6, <1>8, <1>9, <1>10, <1>11, CallNext

\* The override commits: whoever carries another amount for the member is no longer looked after.
LEMMA PutUserNext ==
  ASSUME BudgetBounds, BudgetInv, NEW r \in Requests, NEW u \in Spenders, NEW n \in Tokens,
         Budget!PutUser(r, u, n)
  PROVE  BudgetInv'
<1> DEFINE t == [Budget!Idle EXCEPT !.pc = "user", !.user = u, !.tokens = n]
<1>1. t \in ErrandSet /\ t.pc = "user" /\ t.user = u /\ t.tokens = n
  BY IdleErrand DEF ErrandSet
<1>2. /\ errand[r].pc = "idle" /\ Budget!Set(r, t) /\ UNCHANGED <<fallback, vkey, cap>>
      /\ override' = [override EXCEPT ![u] = n]
      /\ unlooked' = IF Budget!Overlapped(u) \/ (n = Budget!Unset /\ fallback # Budget!Unset)
                     THEN unlooked \union {u} ELSE unlooked
  BY DEF Budget!PutUser
<1> HIDE DEF t
<1>3. OwnedBy(r, t)
  BY <1>1 DEF OwnedBy, Storing, Writing, Listing
<1>4. /\ errand' \in [Requests -> ErrandSet]
      /\ errand'[r] = t /\ \A q \in Requests : q # r => errand'[q] = errand[q]
      /\ Secrets' /\ \A p \in Requests : OwnedBy(p, errand[p])'
  BY <1>1, <1>2, <1>3, ErrandOwned
<1>5. /\ override' \in [Spenders -> Tokens] /\ override'[u] = n
      /\ \A v \in Spenders : v # u => override'[v] = override[v]
      /\ unlooked \subseteq Spenders
  BY <1>2 DEF BudgetInv, BudgetTyped
<1>6. BudgetTyped'
  BY <1>2, <1>4, <1>5 DEF BudgetInv, BudgetTyped
<1>7. ASSUME NEW v \in Spenders \ unlooked', v # u PROVE LookedAfter(v)'
  <2>1. LookedAfter(v)
    BY <1>2, <1>7 DEF BudgetInv
  <2>2. Due(v)' = Due(v) /\ Budget!Allocated(v)' = Budget!Allocated(v)
    BY <1>2, <1>5, <1>7 DEF Due, Budget!Allocated, Budget!MaxBudget
  <2>3. ASSUME NEW p \in Requests PROVE Carries(errand[p], v)'
    BY <1>1, <1>2, <1>4, <1>7, <2>1, <2>2 DEF LookedAfter, Carries, Storing, Listing
  <2>4. ASSUME NEW p \in Requests, Writes(errand[p], v) PROVE Writes(errand[p], v)'
    BY <1>2, <1>4, <2>4 DEF Writes, Listing
  <2> QED
    BY <1>2, <2>1, <2>2, <2>3, <2>4 DEF LookedAfter
<1>8. ASSUME u \notin unlooked' PROVE LookedAfter(u)'
  <2>1. ~Budget!Overlapped(u) /\ ~(n = Budget!Unset /\ fallback # Budget!Unset)
    BY <1>2, <1>8
  <2>2. Budget!Allocated(u)' = n
    BY <1>2, <1>5, <2>1 DEF Budget!Allocated
  <2>3. ASSUME NEW p \in Requests \ {r} PROVE Carries(errand[p], u)'
    <3>1. p \notin Budget!Minting(u) /\ p \notin Budget!Mirroring(u)
      BY <2>1 DEF Budget!Overlapped
    <3> QED
      BY <1>4, <2>3, <3>1 DEF Budget!Minting, Budget!Mirroring, Carries, Storing, Listing
  <2>4. Carries(t, u)' /\ Writes(t, u)'
    BY <1>1, <2>2 DEF Carries, Writes, Storing, Listing
  <2> QED
    BY <1>4, <2>3, <2>4 DEF LookedAfter
<1> QED
  BY <1>4, <1>6, <1>7, <1>8 DEF BudgetInv

\* The default commits: every member that a request is about is no longer looked after.
LEMMA PutOrgNext ==
  ASSUME BudgetBounds, BudgetInv, NEW r \in Requests, NEW n \in Tokens, Budget!PutOrg(r, n)
  PROVE  BudgetInv'
<1> DEFINE t == [Budget!Idle EXCEPT !.pc = "org"]
<1>1. t \in ErrandSet /\ t.pc = "org"
  BY IdleErrand DEF ErrandSet
<1>2. /\ errand[r].pc = "idle" /\ Budget!Set(r, t) /\ UNCHANGED <<override, vkey, cap>>
      /\ fallback' = n /\ unlooked' = unlooked \union {u \in Spenders : Budget!Overlapped(u)}
  BY DEF Budget!PutOrg
<1> HIDE DEF t
<1>3. OwnedBy(r, t)
  BY <1>1 DEF OwnedBy, Storing, Writing, Listing
<1>4. /\ errand' \in [Requests -> ErrandSet]
      /\ errand'[r] = t /\ \A q \in Requests : q # r => errand'[q] = errand[q]
      /\ Secrets' /\ \A p \in Requests : OwnedBy(p, errand[p])'
  BY <1>1, <1>2, <1>3, ErrandOwned
<1>5. BudgetTyped'
  BY <1>2, <1>4 DEF BudgetInv, BudgetTyped
<1>6. ASSUME NEW v \in Spenders \ unlooked' PROVE LookedAfter(v)'
  <2>1. ~Budget!Overlapped(v)
    BY <1>2, <1>6
  <2>2. ASSUME NEW p \in Requests \ {r} PROVE Carries(errand[p], v)'
    <3>1. p \notin Budget!Minting(v) /\ p \notin Budget!Mirroring(v)
      BY <2>1 DEF Budget!Overlapped
    <3> QED
      BY <1>4, <2>2, <3>1 DEF Budget!Minting, Budget!Mirroring, Carries, Storing, Listing
  <2>3. Carries(t, v)' /\ Writes(t, v)'
    BY <1>1 DEF Carries, Writes, Storing, Listing
  <2> QED
    BY <1>4, <2>2, <2>3 DEF LookedAfter
<1> QED
  BY <1>4, <1>5, <1>6 DEF BudgetInv

\* The allocations of the members that hold a key are read: a member whose key is being made is left out.
LEMMA OrgReadNext ==
  ASSUME BudgetBounds, BudgetInv, NEW r \in Requests, Budget!OrgRead(r)
  PROVE  BudgetInv'
<1> DEFINE keyed == {v \in Spenders : vkey[v] # Budget!NoKey}
<1> DEFINE todo == [u \in keyed |-> Budget!Effective(u)]
<1> DEFINE t == [errand[r] EXCEPT !.pc = "each", !.todo = todo]
<1>1. /\ errand[r].pc = "org" /\ errand[r] \in ErrandSet /\ UNCHANGED <<override, fallback, vkey, cap>>
      /\ errand' = [errand EXCEPT ![r] = t]
      /\ unlooked' = unlooked \union {u \in Spenders : Budget!Minting(u) # {}}
      /\ unlooked \subseteq Spenders
  BY DEF Budget!OrgRead, BudgetInv, BudgetTyped
<1>2. \A u \in Spenders : Budget!Effective(u) = Budget!Allocated(u) /\ Budget!Allocated(u) \in Tokens
  BY DEF Budget!Effective, Budget!Allocated, BudgetInv, BudgetTyped
<1>3. todo \in UNION {[S -> Tokens] : S \in SUBSET Spenders}
  <2>1. todo \in [keyed -> Tokens] /\ keyed \in SUBSET Spenders
    BY <1>2
  <2> QED
    BY <2>1
<1>4. t \in ErrandSet /\ t.pc = "each" /\ t.todo = todo
  BY <1>1, <1>3 DEF ErrandSet
<1>5. DOMAIN t.todo = keyed /\ \A v \in keyed : t.todo[v] = Budget!Allocated(v)
  BY <1>2, <1>4
<1>6. Budget!Set(r, t)
  BY <1>1 DEF Budget!Set
<1> HIDE DEF t, todo
<1>7. OwnedBy(r, t)
  BY <1>4, <1>5 DEF OwnedBy, Storing, Writing, Listing
<1>8. \A v \in Spenders : Carries(t, v) /\ (Writes(t, v) \/ vkey[v] = Budget!NoKey)
  BY <1>4, <1>5 DEF Carries, Writes, Storing, Listing
<1> QED
  BY <1>1, <1>4, <1>6, <1>7, <1>8, ErrandStep

\* The next member's key is looked up.
LEMMA EachLookupNext ==
  ASSUME BudgetBounds, BudgetInv, NEW r \in Requests, NEW u \in Spenders, Budget!EachLookup(r, u)
  PROVE  BudgetInv'
<1> DEFINE t == [errand[r] EXCEPT !.pc = "eachcall", !.user = u, !.key = vkey[u]]
<1>1. /\ errand[r].pc = "each" /\ u \in DOMAIN errand[r].todo /\ errand[r] \in ErrandSet
      /\ UNCHANGED <<override, fallback, vkey, cap, unlooked>> /\ unlooked \subseteq Spenders
      /\ vkey[u] \in Budget!Keys \union {Budget!NoKey}
      /\ \A v \in DOMAIN errand[r].todo : vkey[v] # Budget!NoKey
  BY DEF Budget!EachLookup, BudgetInv, BudgetTyped, OwnedBy, Listing
<1>2. /\ t \in ErrandSet /\ t.pc = "eachcall" /\ t.user = u /\ t.key = vkey[u]
      /\ t.todo = errand[r].todo
  BY <1>1 DEF ErrandSet
<1>3. Budget!Set(r, t)
  BY DEF Budget!EachLookup, Budget!Set
<1> HIDE DEF t
<1>4. OwnedBy(r, t)
  BY <1>1, <1>2 DEF OwnedBy, Storing, Writing, Listing, BudgetInv, Secrets
<1>5. \A v \in Spenders \ unlooked : Carries(errand[r], v)
  BY DEF BudgetInv, LookedAfter
<1>6. \A v : /\ Carries(errand[r], v) => Carries(t, v)
             /\ Writes(errand[r], v) => Writes(t, v)
  BY <1>1, <1>2 DEF Carries, Writes, Storing, Listing
<1> QED
  BY <1>1, <1>2, <1>3, <1>4, <1>5, <1>6, ErrandStep

\* No member is left to write for.
LEMMA OrgDoneNext ==
  ASSUME BudgetBounds, BudgetInv, NEW r \in Requests, Budget!OrgDone(r)
  PROVE  BudgetInv'
<1>1. /\ errand[r].pc = "each" /\ DOMAIN errand[r].todo = {} /\ Budget!Set(r, Budget!Idle)
      /\ UNCHANGED <<override, fallback, vkey, cap, unlooked>> /\ unlooked \subseteq Spenders
  BY DEF Budget!OrgDone, BudgetInv, BudgetTyped
<1>2. \A v : ~Writes(errand[r], v)
  BY <1>1 DEF Writes, Listing
<1> QED
  BY <1>1, <1>2, IdleOwned, ErrandStep

\* Every step keeps the invariant.
LEMMA BudgetNext == BudgetBounds /\ BudgetInv /\ [Budget!Next]_(Budget!budgetVars) => BudgetInv'
<1> SUFFICES ASSUME BudgetBounds, BudgetInv, [Budget!Next]_(Budget!budgetVars) PROVE BudgetInv'
  OBVIOUS
<1>1. CASE UNCHANGED Budget!budgetVars
  BY <1>1 DEF Budget!budgetVars, BudgetInv, BudgetTyped, Secrets, OwnedBy, LookedAfter, Carries,
     Writes, Due, Budget!Allocated, Budget!MaxBudget
<1>2. CASE Budget!Next
  BY <1>2, StreamNext, EachLookupNext, PutUserNext, PutOrgNext, MintLookupNext, GenerateNext,
     StoreNext, UpdateLookupNext, UpdateCallNext, OrgReadNext, EachCallNext, OrgDoneNext
  DEF Budget!Next, Tokens
<1> QED
  BY <1>1, <1>2

\* When nothing is under way, a member's key has the budget of what the member is
\* allocated, unless a change overlapped, a call failed, or the override was removed
\* while there is a default: for any members, quotas and requests.
THEOREM BudgetsFollowAlways == ASSUME BudgetBounds PROVE Budget!Spec => []Budget!BudgetsFollow
<1>1. Budget!Init => BudgetInv
  BY BudgetInit
<1>2. BudgetInv /\ [Budget!Next]_(Budget!budgetVars) => BudgetInv'
  BY BudgetNext
<1>3. BudgetInv => Budget!BudgetsFollow
  <2> SUFFICES ASSUME BudgetInv, \A r \in Requests : errand[r].pc = "idle",
                      NEW u \in Spenders \ unlooked, vkey[u] # Budget!NoKey
               PROVE  cap[vkey[u]] = Due(u)
    BY DEF Budget!BudgetsFollow, Due
  <2> QED
    BY DEF BudgetInv, LookedAfter, Writes, Listing
<1> QED
  BY <1>1, <1>2, <1>3, PTL DEF Budget!Spec
-----------------------------------------------------------------------------
\* The state of Registry
CONSTANTS Models, Chat, Native, InUse, Patchers, Replays, MaxUpdates, MaxDeployed

VARIABLES row, patch, deployed, sync, owed, events, designated, blurred

Registering == INSTANCE Registry
    WITH req <- patch, Requests <- Patchers, Syncs <- Replays, MaxEvents <- MaxUpdates

Statuses == {"none", "pending", "synced", "error"}
ModelRow == [state : {"new", "there", "gone"}, enabled : BOOLEAN, utility : BOOLEAN,
             params : Nat, status : Statuses]
Patch == [pc : {"idle"}] \union [pc : {"loaded"}, model : Models, was : ModelRow]
Read == UNION {[S -> Statuses] : S \in SUBSET Models}

\* What a replay has at each of its steps.
Replay ==
    [pc : {"idle"}]
    \union [pc : {"all"}, models : SUBSET Models, params : [Models -> Nat]]
    \union [pc : {"list"}, models : SUBSET Models, params : [Models -> Nat], was : Read]
    \union [pc : {"delete", "add"}, models : SUBSET Models, params : [Models -> Nat], was : Read,
            todo : SUBSET Nat]
    \union [pc : {"mark"}, was : Read, status : {"synced", "error"}]

RegistryTyped ==
    /\ row \in [Models -> ModelRow] /\ patch \in [Patchers -> Patch]
    /\ sync \in [Replays -> Replay]
    /\ deployed \subseteq [id : Nat, model : Models, params : Nat]
    /\ owed \in Nat /\ events \in Nat

\* The flag is where it was last put.
Flagged ==
    /\ \A m \in Models : row[m].utility => m = designated /\ row[m].state = "there"
    /\ designated # Registering!None => designated \in Models /\ row[designated].utility

DeployedAsIs(m) ==
    \E d \in Registering!Served(m) : Registering!Served(m) = {d} /\ d.params = row[m].params

\* What the replay t has read is what there is, and what it has done is as it should be.
Follows(t) ==
    /\ t.pc \in {"all", "list", "delete", "add"} => t.params = [m \in Models |-> row[m].params]
    /\ t.pc \in {"all", "list", "delete"} => t.models = Registering!Deployable
    /\ t.pc \in {"list", "delete", "add", "mark"} =>
          t.was = [m \in Registering!Present |-> row[m].status]
    /\ t.pc = "delete" => t.todo = {d.id : d \in deployed}
    /\ t.pc = "add" =>
          /\ t.models \subseteq Registering!Deployable
          /\ \A m \in Models : IF m \in Registering!Deployable \ t.models THEN DeployedAsIs(m)
                               ELSE Registering!Served(m) = {}
    /\ t.pc = "mark" /\ t.status = "synced" => Registering!Exact

Agreed ==
    \/ \A m \in Registering!Present : row[m].status = "error"
    \/ Registering!Exact /\ \A m \in Registering!Present : row[m].status = "synced"

\* Nothing was changed since the last replay began, and it ran alone.
Followed ==
    owed = 0 /\ ~blurred =>
        /\ \A s, t \in Registering!Running : s = t
        /\ \A s \in Replays : Follows(sync[s])
        /\ Registering!Running = {} => Agreed

RegistryInv == RegistryTyped /\ Flagged /\ Followed

\* A row that was never there, is there or is gone is a row, and its flag is not set.
LEMMA Rows ==
  /\ Registering!Absent \in ModelRow /\ Registering!Seeded \in ModelRow
  /\ ~Registering!Absent.utility /\ ~Registering!Seeded.utility /\ Registering!Absent.state = "new"
  /\ Registering!Seeded.state = "there"
  /\ \A n \in Nat : [Registering!Seeded EXCEPT !.params = n] \in ModelRow
                    /\ ~[Registering!Seeded EXCEPT !.params = n].utility
  /\ [Registering!Absent EXCEPT !.state = "gone"] \in ModelRow
  /\ ~[Registering!Absent EXCEPT !.state = "gone"].utility
BY DEF Registering!Absent, Registering!Seeded, Registering!None, ModelRow, Statuses

\* A replay is owed from the start: _lifespan.
LEMMA RegistryInit == Registering!Init => RegistryInv
<1> SUFFICES ASSUME Registering!Init PROVE RegistryInv
  OBVIOUS
<1>1. row \in [Models -> ModelRow] /\ \A m \in Models : ~row[m].utility
  <2>1. PICK there \in SUBSET Models :
          row = [m \in Models |-> IF m \in InUse \union there THEN Registering!Seeded ELSE Registering!Absent]
    BY DEF Registering!Init
  <2> QED
    BY <2>1, Rows
<1>2. patch \in [Patchers -> Patch] /\ sync \in [Replays -> Replay]
  BY DEF Registering!Init, Registering!NoReq, Registering!NoSync, Patch, Replay
<1>3. deployed = {} /\ owed = 1 /\ events = 0 /\ designated = Registering!None
  BY DEF Registering!Init
<1> QED
  BY <1>1, <1>2, <1>3 DEF RegistryInv, RegistryTyped, Flagged, Followed

\* A change of a row owes a replay.
LEMMA ChangeNext ==
  ASSUME RegistryInv, Registering!Commits, row' \in [Models -> ModelRow],
         patch' \in [Patchers -> Patch], Flagged'
  PROVE  RegistryInv'
<1>1. /\ owed \in Nat /\ owed' = owed + 1 /\ events \in Nat /\ events' = events + 1
      /\ UNCHANGED <<deployed, sync, blurred>>
  BY DEF Registering!Commits, RegistryInv, RegistryTyped
<1>2. RegistryTyped'
  BY <1>1 DEF RegistryInv, RegistryTyped
<1>3. owed' # 0
  BY <1>1
<1> QED
  BY <1>2, <1>3 DEF RegistryInv, Followed

\* create_model: the new row is not the utility model.
LEMMA CreateNext ==
  ASSUME RegistryInv, NEW m \in Models, Registering!CreateModel(m)
  PROVE  RegistryInv'
<1>1. /\ row' = [row EXCEPT ![m] = [Registering!Seeded EXCEPT !.params = events']]
      /\ UNCHANGED <<patch, designated>> /\ Registering!Commits /\ row[m].state = "new"
      /\ row \in [Models -> ModelRow] /\ patch \in [Patchers -> Patch] /\ events' \in Nat
  BY DEF Registering!CreateModel, Registering!Commits, RegistryInv, RegistryTyped
<1>2. row' \in [Models -> ModelRow] /\ ~row'[m].utility /\ \A n \in Models : n # m => row'[n] = row[n]
  BY <1>1, Rows
<1>3. Flagged'
  BY <1>1, <1>2 DEF RegistryInv, Flagged
<1> QED
  BY <1>1, <1>2, <1>3, ChangeNext

\* delete_model: with the row goes its flag, and a request that had read it fails.
LEMMA DeleteNext ==
  ASSUME RegistryInv, NEW m \in Models, Registering!DeleteModel(m)
  PROVE  RegistryInv'
<1>1. /\ row' = [row EXCEPT ![m] = [Registering!Absent EXCEPT !.state = "gone"]]
      /\ patch' = [q \in Patchers |-> IF patch[q].pc = "loaded" /\ patch[q].model = m
                                      THEN Registering!NoReq ELSE patch[q]]
      /\ designated' = IF designated = m THEN Registering!None ELSE designated
      /\ Registering!Commits
      /\ row \in [Models -> ModelRow] /\ patch \in [Patchers -> Patch]
  BY DEF Registering!DeleteModel, RegistryInv, RegistryTyped
<1>2. row' \in [Models -> ModelRow] /\ ~row'[m].utility /\ \A n \in Models : n # m => row'[n] = row[n]
  BY <1>1, Rows
<1>3. patch' \in [Patchers -> Patch]
  <2>1. Registering!NoReq \in Patch
    BY DEF Registering!NoReq, Patch
  <2> QED
    BY <1>1, <2>1
<1>4. Flagged'
  BY <1>1, <1>2 DEF RegistryInv, Flagged
<1> QED
  BY <1>1, <1>2, <1>3, <1>4, ChangeNext

\* update_model: the flag is taken from the other rows in the same transaction.
LEMMA PatchCommitNext ==
  ASSUME RegistryInv, NEW q \in Patchers, Registering!PatchCommit(q)
  PROVE  RegistryInv'
<1> DEFINE m == patch[q].model
<1>1. /\ patch[q] \in Patch /\ patch[q].pc = "loaded" /\ m \in Models /\ row[m].state = "there"
      /\ patch[q].was \in ModelRow
      /\ patch' = [patch EXCEPT ![q] = Registering!NoReq] /\ Registering!Commits
      /\ row \in [Models -> ModelRow] /\ patch \in [Patchers -> Patch] /\ events \in Nat
      /\ \A n \in Models : row[n] \in ModelRow
  BY DEF Registering!PatchCommit, Registering!Present, RegistryInv, RegistryTyped, Patch
<1>2. patch' \in [Patchers -> Patch]
  BY <1>1 DEF Registering!NoReq, Patch
<1>3. CASE Registering!PatchColumns(q)
  <2>1. \A n \in Models : /\ row'[n] \in ModelRow /\ row'[n].utility = row[n].utility
                          /\ row'[n].state = row[n].state
    <3>1. CASE row' = [row EXCEPT ![m].params = events + 1]
      <4>1. [row[m] EXCEPT !.params = events + 1] \in ModelRow
            /\ [row[m] EXCEPT !.params = events + 1].utility = row[m].utility
            /\ [row[m] EXCEPT !.params = events + 1].state = row[m].state
        BY <1>1 DEF ModelRow
      <4> QED
        BY <1>1, <3>1, <4>1
    <3>2. CASE row' = [row EXCEPT ![m].enabled = ~patch[q].was.enabled]
      <4>1. [row[m] EXCEPT !.enabled = ~patch[q].was.enabled] \in ModelRow
            /\ [row[m] EXCEPT !.enabled = ~patch[q].was.enabled].utility = row[m].utility
            /\ [row[m] EXCEPT !.enabled = ~patch[q].was.enabled].state = row[m].state
        BY <1>1 DEF ModelRow
      <4> QED
        BY <1>1, <3>2, <4>1
    <3> QED
      BY <1>3, <3>1, <3>2 DEF Registering!PatchColumns
  <2>2. row' = [n \in Models |-> row'[n]]
    BY <1>1, <1>3 DEF Registering!PatchColumns
  <2>3. row' \in [Models -> ModelRow] /\ UNCHANGED designated
    BY <1>3, <2>1, <2>2 DEF Registering!PatchColumns
  <2>4. Flagged'
    BY <2>1, <2>3 DEF RegistryInv, Flagged
  <2> QED
    BY <1>1, <1>2, <2>3, <2>4, ChangeNext
<1>4. CASE Registering!Designate(q)
  <2>1. \A n \in Models : /\ [row[n] EXCEPT !.utility = FALSE] \in ModelRow
                          /\ [row[n] EXCEPT !.utility = FALSE].utility = FALSE
                          /\ [row[n] EXCEPT !.utility = TRUE] \in ModelRow
                          /\ [row[n] EXCEPT !.utility = TRUE].utility = TRUE
                          /\ [row[n] EXCEPT !.utility = TRUE].state = row[n].state
    BY <1>1 DEF ModelRow
  <2>2. /\ Registering!Others(q) \in [Models -> ModelRow] /\ Registering!Others(q)[m] = row[m]
        /\ \A n \in Models : n # m => ~Registering!Others(q)[n].utility
    BY <1>1, <2>1 DEF Registering!Others
  <2>3. \/ row' = Registering!Others(q)
        \/ row' = [Registering!Others(q) EXCEPT ![m].utility = TRUE]
    BY <1>4 DEF Registering!Designate
  <2> HIDE DEF m
  <2>4. /\ row' \in [Models -> ModelRow] /\ row'[m].state = "there"
        /\ \A n \in Models : n # m => ~row'[n].utility
    <3>1. CASE row' = Registering!Others(q)
      BY <1>1, <2>2, <3>1
    <3>2. CASE row' = [Registering!Others(q) EXCEPT ![m].utility = TRUE]
      <4>1. row' = [Registering!Others(q) EXCEPT ![m] = [row[m] EXCEPT !.utility = TRUE]]
        BY <1>1, <2>2, <3>2
      <4> QED
        BY <1>1, <2>1, <2>2, <4>1
    <3> QED
      BY <2>3, <3>1, <3>2
  <2>5. designated' = IF row'[m].utility THEN m ELSE Registering!None
    BY <1>4 DEF Registering!Designate, m
  <2>6. Flagged'
    BY <1>1, <2>4, <2>5 DEF Flagged
  <2> QED
    BY <1>1, <1>2, <2>4, <2>6, ChangeNext
<1>5. CASE Registering!Undesignate(q)
  <2>1. /\ [row[m] EXCEPT !.utility = FALSE] \in ModelRow
        /\ [row[m] EXCEPT !.utility = FALSE].utility = FALSE
    BY <1>1 DEF ModelRow
  <2>2. row' = [row EXCEPT ![m] = [row[m] EXCEPT !.utility = FALSE]]
    BY <1>5 DEF Registering!Undesignate
  <2>3. designated' = IF designated = m THEN Registering!None ELSE designated
    BY <1>5 DEF Registering!Undesignate
  <2> HIDE DEF m
  <2>4. /\ row' \in [Models -> ModelRow] /\ ~row'[m].utility
        /\ \A n \in Models : n # m => row'[n] = row[n]
    BY <1>1, <2>1, <2>2
  <2>5. Flagged'
    BY <1>1, <2>3, <2>4 DEF RegistryInv, Flagged
  <2> QED
    BY <1>1, <1>2, <2>4, <2>5, ChangeNext
<1> QED
  BY <1>3, <1>4, <1>5 DEF Registering!PatchCommit

\* A request that reads, or that gives up.
LEMMA PatchQuiet ==
  ASSUME RegistryInv, NEW q \in Patchers,
         Registering!PatchFails(q) \/ \E m \in Models : Registering!PatchRead(q, m)
  PROVE  RegistryInv'
<1>1. UNCHANGED <<row, deployed, sync, owed, events, designated, blurred>>
  BY DEF Registering!PatchFails, Registering!PatchRead
<1>2. patch' \in [Patchers -> Patch]
  <2>1. patch \in [Patchers -> Patch] /\ row \in [Models -> ModelRow] /\ Registering!NoReq \in Patch
    BY DEF RegistryInv, RegistryTyped, Registering!NoReq, Patch
  <2>2. \A m \in Models : [pc |-> "loaded", model |-> m, was |-> row[m]] \in Patch
    BY <2>1 DEF Patch
  <2> QED
    BY <2>1, <2>2 DEF Registering!PatchFails, Registering!PatchRead
<1>3. RegistryTyped'
  BY <1>1, <1>2 DEF RegistryInv, RegistryTyped
<1>4. Flagged'
  BY <1>1 DEF RegistryInv, Flagged
<1>5. Followed'
  BY <1>1 DEF RegistryInv, Followed, Follows, Agreed, DeployedAsIs, Registering!Running,
     Registering!Deployable, Registering!Enabled, Registering!Present, Registering!Served,
     Registering!Exact
<1> QED
  BY <1>3, <1>4, <1>5 DEF RegistryInv

\* A replay goes to its next step.
LEMMA ReplayStep ==
  ASSUME RegistryInv, NEW s \in Replays, NEW t \in Replay, sync' = [sync EXCEPT ![s] = t],
         sync[s].pc # "idle", t.pc # "idle", UNCHANGED <<row, patch, owed, events, designated>>,
         deployed' \subseteq [id : Nat, model : Models, params : Nat],
         blurred => blurred',
         owed = 0 /\ ~blurred' /\ Follows(sync[s]) => Follows(t)'
  PROVE  RegistryInv'
<1>1. /\ sync' \in [Replays -> Replay] /\ sync'[s] = t /\ \A r \in Replays : r # s => sync'[r] = sync[r]
  BY DEF RegistryInv, RegistryTyped
<1>2. RegistryTyped'
  BY <1>1 DEF RegistryInv, RegistryTyped
<1>3. Flagged'
  BY DEF RegistryInv, Flagged
<1>4. Registering!Running' = Registering!Running /\ s \in Registering!Running
  BY <1>1 DEF Registering!Running
<1>5. ASSUME owed = 0, ~blurred' PROVE \A r \in Replays : Follows(sync[r])'
  <2>1. /\ \A r \in Registering!Running : r = s
        /\ Follows(sync[s])
    BY <1>4, <1>5 DEF RegistryInv, Followed
  <2>2. Follows(t)'
    BY <1>5, <2>1
  <2>3. ASSUME NEW r \in Replays, r # s PROVE Follows(sync[r])'
    <3>1. sync'[r].pc = "idle"
      BY <1>1, <2>1, <2>3 DEF Registering!Running
    <3> QED
      BY <3>1 DEF Follows
  <2>4. Follows(sync[s])'
    BY <1>1, <2>2 DEF Follows
  <2> QED
    BY <2>3, <2>4
<1>6. Followed'
  BY <1>4, <1>5 DEF RegistryInv, Followed
<1> QED
  BY <1>2, <1>3, <1>6 DEF RegistryInv

\* A replay begins with the rows as they are, alone or beside others.
LEMMA StartNext ==
  ASSUME RegistryInv, NEW s \in Replays, Registering!Start(s)
  PROVE  RegistryInv'
<1> PICK t : t = [pc |-> "all", models |-> Registering!Deployable, params |-> [m \in Models |-> row[m].params]]
  OBVIOUS
<1>1. /\ sync' = [sync EXCEPT ![s] = t] /\ UNCHANGED <<row, patch, deployed, events, designated>>
      /\ owed > 0 /\ owed' = owed - 1 /\ sync[s].pc = "idle" /\ blurred' = (Registering!Running # {})
  BY DEF Registering!Start
<1>2. t \in Replay
  BY DEF Replay, RegistryInv, RegistryTyped, ModelRow, Registering!Deployable, Registering!Enabled, Registering!Present
<1>3. Follows(t)'
  BY <1>1 DEF Follows, Registering!Deployable, Registering!Enabled, Registering!Present
<1>4. t.pc = "all"
  OBVIOUS
<1>5. sync' \in [Replays -> Replay] /\ sync'[s] = t /\ \A r \in Replays : r # s => sync'[r] = sync[r]
  BY <1>1, <1>2 DEF RegistryInv, RegistryTyped
<1>6. RegistryTyped'
  BY <1>1, <1>5 DEF RegistryInv, RegistryTyped
<1>7. Flagged'
  BY <1>1 DEF RegistryInv, Flagged
<1>8. ASSUME ~blurred' PROVE Registering!Running' = {s} /\ \A r \in Replays : Follows(sync[r])'
  <2>1. \A r \in Replays : sync[r].pc = "idle"
    BY <1>1, <1>8 DEF Registering!Running
  <2>2. Registering!Running' = {s}
    BY <1>4, <1>5, <2>1 DEF Registering!Running
  <2>3. ASSUME NEW r \in Replays, r # s PROVE Follows(sync[r])'
    BY <1>5, <2>1, <2>3 DEF Follows
  <2>4. Follows(sync[s])'
    BY <1>3, <1>5 DEF Follows
  <2> QED
    BY <2>2, <2>3, <2>4
<1> QED
  BY <1>6, <1>7, <1>8 DEF RegistryInv, Followed

\* It reads the statuses that it will write over.
LEMMA ListAllNext ==
  ASSUME RegistryInv, NEW s \in Replays, Registering!ListAll(s)
  PROVE  RegistryInv'
<1> DEFINE was == [m \in Registering!Present |-> row[m].status]
<1> PICK t : t = [pc |-> "list", models |-> sync[s].models, params |-> sync[s].params, was |-> was]
  OBVIOUS
<1>1. /\ sync[s].pc = "all" /\ sync' = [sync EXCEPT ![s] = t]
      /\ UNCHANGED <<row, patch, deployed, owed, events, designated, blurred>>
      /\ sync[s] \in Replay /\ deployed \subseteq [id : Nat, model : Models, params : Nat]
  BY DEF Registering!ListAll, Registering!Untouched, RegistryInv, RegistryTyped
<1>2. was \in Read
  <2>1. was \in [Registering!Present -> Statuses] /\ Registering!Present \in SUBSET Models
    BY DEF RegistryInv, RegistryTyped, ModelRow, Registering!Present
  <2> QED
    BY <2>1 DEF Read
<1>3. t \in Replay
  BY <1>1, <1>2 DEF Replay
<1>4. Follows(sync[s]) => Follows(t)'
  BY <1>1 DEF Follows, Registering!Deployable, Registering!Enabled, Registering!Present
<1>5. t.pc = "list"
  OBVIOUS
<1> QED
  BY <1>1, <1>3, <1>4, <1>5, ReplayStep

\* It reads what is deployed, or is refused that and blurs the copy.
LEMMA ListDeployedNext ==
  ASSUME RegistryInv, NEW s \in Replays, Registering!ListDeployed(s)
  PROVE  RegistryInv'
<1>1. PICK ids \in {{}, {d.id : d \in deployed}} :
        /\ sync' = [sync EXCEPT ![s] = [pc |-> "delete", models |-> sync[s].models,
                                        params |-> sync[s].params, was |-> sync[s].was, todo |-> ids]]
        /\ blurred' = (blurred \/ ids # {d.id : d \in deployed})
  BY DEF Registering!ListDeployed
<1> PICK t : t = [pc |-> "delete", models |-> sync[s].models, params |-> sync[s].params,
                  was |-> sync[s].was, todo |-> ids]
  OBVIOUS
<1>2. /\ sync[s].pc = "list" /\ UNCHANGED <<row, patch, deployed, owed, events, designated>>
      /\ sync[s] \in Replay /\ deployed \subseteq [id : Nat, model : Models, params : Nat]
  BY DEF Registering!ListDeployed, Registering!Untouched, RegistryInv, RegistryTyped
<1>3. ids \in SUBSET Nat
  BY <1>2
<1>4. t \in Replay
  BY <1>2, <1>3 DEF Replay
<1>5. ~blurred' /\ Follows(sync[s]) => Follows(t)'
  BY <1>1, <1>2 DEF Follows, Registering!Deployable, Registering!Enabled, Registering!Present
<1>6. t.pc = "delete" /\ sync' = [sync EXCEPT ![s] = t] /\ (blurred => blurred')
  BY <1>1
<1> QED
  BY <1>2, <1>4, <1>5, <1>6, ReplayStep

\* A replay that a call of the gateway failed.
LEMMA OutcomeStep ==
  ASSUME RegistryInv, NEW s \in Replays, sync[s].pc \in {"list", "delete", "add"},
         sync' = [sync EXCEPT ![s] = Registering!Outcome(s, "error")],
         UNCHANGED <<row, patch, deployed, owed, events, designated, blurred>>
  PROVE  RegistryInv'
<1> PICK t : t = Registering!Outcome(s, "error")
  OBVIOUS
<1>1. /\ sync[s] \in Replay /\ deployed \subseteq [id : Nat, model : Models, params : Nat]
      /\ sync' = [sync EXCEPT ![s] = t]
  BY DEF RegistryInv, RegistryTyped
<1>2. t \in Replay /\ t.pc = "mark" /\ t.was = sync[s].was /\ t.status = "error"
  BY <1>1 DEF Replay, Registering!Outcome
<1>3. Follows(sync[s]) => sync[s].was = [m \in Registering!Present |-> row[m].status]
  BY DEF Follows
<1>4. Registering!Present' = Registering!Present
  BY DEF Registering!Present
<1>5. Follows(sync[s]) => Follows(t)'
  BY <1>2, <1>3, <1>4 DEF Follows
<1> QED
  BY <1>1, <1>2, <1>5, ReplayStep

\* It deletes one model after the other: once none is left, nothing is deployed.
LEMMA DeleteDeployedNext ==
  ASSUME RegistryInv, NEW s \in Replays, Registering!DeleteDeployed(s)
  PROVE  RegistryInv'
<1>1. /\ sync[s].pc = "delete" /\ UNCHANGED <<row, patch, owed, events, designated, blurred>>
      /\ sync[s] \in [pc : {"delete"}, models : SUBSET Models, params : [Models -> Nat], was : Read,
                      todo : SUBSET Nat]
      /\ deployed \subseteq [id : Nat, model : Models, params : Nat]
  BY DEF Registering!DeleteDeployed, Registering!Untouched, RegistryInv, RegistryTyped, Replay
<1>2. CASE sync[s].todo = {}
  <2> PICK t : t = [sync[s] EXCEPT !.pc = "add"]
    OBVIOUS
  <2>1. sync' = [sync EXCEPT ![s] = t] /\ UNCHANGED deployed
    BY <1>2 DEF Registering!DeleteDeployed
  <2>2. /\ t \in Replay /\ t.pc = "add" /\ t.models = sync[s].models /\ t.params = sync[s].params
        /\ t.was = sync[s].was
    BY <1>1 DEF Replay
  <2>3. Follows(sync[s]) => Follows(t)'
    <3> SUFFICES ASSUME Follows(sync[s]) PROVE Follows(t)'
      OBVIOUS
    <3>1. deployed = {} /\ sync[s].models = Registering!Deployable
      BY <1>1, <1>2 DEF Follows
    <3>2. \A m : Registering!Served(m)' = {}
      BY <2>1, <3>1 DEF Registering!Served
    <3>3. Registering!Deployable' = Registering!Deployable /\ Registering!Present' = Registering!Present
      BY <1>1 DEF Registering!Deployable, Registering!Enabled, Registering!Present
    <3> QED
      BY <1>1, <2>2, <3>1, <3>2, <3>3 DEF Follows
  <2> QED
    BY <1>1, <2>1, <2>2, <2>3, ReplayStep
<1>3. CASE sync[s].todo # {}
  <2>1. PICK i \in sync[s].todo :
          /\ deployed' = {d \in deployed : d.id # i}
          /\ sync' = [sync EXCEPT ![s] = IF deployed' = deployed THEN Registering!Outcome(s, "error")
                                         ELSE [sync[s] EXCEPT !.todo = sync[s].todo \ {i}]]
    BY <1>3 DEF Registering!DeleteDeployed
  <2>2. CASE deployed' = deployed
    BY <1>1, <2>1, <2>2, OutcomeStep
  <2>3. CASE deployed' # deployed
    <3> PICK t : t = [sync[s] EXCEPT !.todo = sync[s].todo \ {i}]
      OBVIOUS
    <3>1. sync' = [sync EXCEPT ![s] = t]
      BY <2>1, <2>3
    <3>2. /\ t \in Replay /\ t.pc = "delete" /\ t.models = sync[s].models /\ t.params = sync[s].params
          /\ t.was = sync[s].was /\ t.todo = sync[s].todo \ {i}
      BY <1>1 DEF Replay
    <3>3. Follows(sync[s]) => Follows(t)'
      <4> SUFFICES ASSUME Follows(sync[s]) PROVE Follows(t)'
        OBVIOUS
      <4>1. sync[s].todo = {d.id : d \in deployed}
        BY <1>1 DEF Follows
      <4>2. t.todo = {d.id : d \in deployed'}
        BY <2>1, <3>2, <4>1
      <4>3. Registering!Deployable' = Registering!Deployable /\ Registering!Present' = Registering!Present
        BY <1>1 DEF Registering!Deployable, Registering!Enabled, Registering!Present
      <4> QED
        BY <1>1, <3>2, <4>2, <4>3 DEF Follows
    <3>4. deployed' \subseteq [id : Nat, model : Models, params : Nat]
      BY <1>1, <2>1
    <3> QED
      BY <1>1, <3>1, <3>2, <3>3, <3>4, ReplayStep
  <2> QED
    BY <2>2, <2>3
<1> QED
  BY <1>2, <1>3

\* There is a least of some numbers up to MaxDeployed.
LEMMA LeastFree ==
  ASSUME NEW S, S \subseteq Nat, S # {}
  PROVE  \E i \in S : \A j \in S : i <= j
<1> DEFINE Less == {ss \in Nat \X Nat : ss[1] < ss[2]}
<1>1. IsWellFoundedOn(Less, Nat)
  BY NatLessThanWellFounded, Zenon DEF OpToRel
<1>2. PICK i \in S : \A j \in S : ~ (<<j, i>> \in Less)
  <2> HIDE DEF Less
  <2> QED
    BY <1>1, WFMin, Zenon
<1>3. ASSUME NEW j \in S PROVE i <= j
  <2>1. j \in Nat /\ i \in Nat
    OBVIOUS
  <2>2. ~(j < i)
    BY <1>2, <2>1
  <2> QED
    BY <2>1, <2>2
<1> QED
  BY <1>3

\* It deploys one model after the other, each as its row is: once none is left, the copy is exact.
LEMMA DeployNext ==
  ASSUME RegistryInv, NEW s \in Replays, Registering!Deploy(s), MaxDeployed \in Nat
  PROVE  RegistryInv'
<1>1. /\ sync[s].pc = "add" /\ UNCHANGED <<row, patch, owed, events, designated, blurred>>
      /\ sync[s] \in [pc : {"add"}, models : SUBSET Models, params : [Models -> Nat], was : Read,
                      todo : SUBSET Nat]
      /\ deployed \subseteq [id : Nat, model : Models, params : Nat]
  BY DEF Registering!Deploy, Registering!Untouched, RegistryInv, RegistryTyped, Replay
<1>a. Registering!Deployable' = Registering!Deployable /\ Registering!Present' = Registering!Present
  BY <1>1 DEF Registering!Deployable, Registering!Enabled, Registering!Present
<1>2. CASE sync[s].models = {}
  <2> PICK t : t = Registering!Outcome(s, "synced")
    OBVIOUS
  <2>1. sync' = [sync EXCEPT ![s] = t] /\ UNCHANGED deployed
    BY <1>2 DEF Registering!Deploy
  <2>2. t \in Replay /\ t.pc = "mark" /\ t.was = sync[s].was
    BY <1>1 DEF Replay, Registering!Outcome
  <2>3. Follows(sync[s]) => Follows(t)'
    <3> SUFFICES ASSUME Follows(sync[s]) PROVE Follows(t)'
      OBVIOUS
    <3>1. \A m \in Models : IF m \in Registering!Deployable THEN DeployedAsIs(m)
                            ELSE Registering!Served(m) = {}
      BY <1>1, <1>2 DEF Follows
    <3>2. Registering!Exact
      BY <3>1 DEF Registering!Exact, DeployedAsIs, Registering!Deployable
    <3>3. Registering!Exact'
      BY <1>1, <2>1, <3>2 DEF Registering!Exact, Registering!Enabled, Registering!Present, Registering!Served
    <3> QED
      BY <1>1, <1>a, <2>2, <3>3 DEF Follows
  <2> QED
    BY <1>1, <2>1, <2>2, <2>3, ReplayStep
<1>3. CASE sync[s].models # {}
  <2> PICK m : m = CHOOSE n \in sync[s].models : TRUE
    OBVIOUS
  <2> DEFINE free == {i \in Registering!Ids : \A d \in deployed : d.id # i}
  <2> DEFINE id == CHOOSE i \in free : \A j \in free : i <= j
  <2> PICK new : new = [id |-> id, model |-> m, params |-> sync[s].params[m]]
    OBVIOUS
  <2> PICK t : t = [sync[s] EXCEPT !.models = sync[s].models \ {m}]
    OBVIOUS
  <2>1. /\ free # {} /\ deployed' = deployed \union {new} /\ sync' = [sync EXCEPT ![s] = t]
    BY <1>3 DEF Registering!Deploy
  <2>2. m \in sync[s].models /\ m \in Models
    BY <1>1, <1>3
  <2>3. id \in Nat
    <3>1. free \subseteq Nat
      BY DEF Registering!Ids
    <3>2. \E i \in free : \A j \in free : i <= j
      BY <2>1, <3>1, LeastFree
    <3> QED
      BY <3>1, <3>2
  <2>4. /\ t \in Replay /\ t.pc = "add" /\ t.models = sync[s].models \ {m} /\ t.params = sync[s].params
        /\ t.was = sync[s].was
    BY <1>1 DEF Replay
  <2> HIDE DEF id, free
  <2>5. new \in [id : Nat, model : Models, params : Nat] /\ new.model = m /\ new.params = sync[s].params[m]
    BY <1>1, <2>2, <2>3
  <2>6. Follows(sync[s]) => Follows(t)'
    <3> SUFFICES ASSUME Follows(sync[s]) PROVE Follows(t)'
      OBVIOUS
    <3>1. /\ sync[s].models \subseteq Registering!Deployable
          /\ sync[s].params = [n \in Models |-> row[n].params]
          /\ \A n \in Models : IF n \in Registering!Deployable \ sync[s].models THEN DeployedAsIs(n)
                               ELSE Registering!Served(n) = {}
      BY <1>1 DEF Follows
    <3>2. Registering!Served(m)' = {new} /\ new.params = row[m].params
      BY <2>1, <2>2, <2>5, <3>1 DEF Registering!Served
    <3>3. \A n \in Models : n # m => Registering!Served(n)' = Registering!Served(n)
      BY <2>1, <2>5 DEF Registering!Served
    <3>4. DeployedAsIs(m)'
      BY <1>1, <3>2 DEF DeployedAsIs
    <3>5. \A n \in Models : n # m /\ DeployedAsIs(n) => DeployedAsIs(n)'
      BY <1>1, <3>3 DEF DeployedAsIs
    <3>6. \A n \in Models : IF n \in Registering!Deployable \ t.models THEN DeployedAsIs(n)'
                            ELSE Registering!Served(n)' = {}
      BY <2>2, <2>4, <3>1, <3>3, <3>4, <3>5
    <3>7. t.params = [n \in Models |-> row'[n].params] /\ t.was = [n \in Registering!Present' |-> row'[n].status]
      BY <1>1, <1>a, <2>4, <3>1 DEF Follows
    <3> QED
      BY <1>a, <2>4, <3>1, <3>6, <3>7 DEF Follows
  <2>7. deployed' \subseteq [id : Nat, model : Models, params : Nat]
    BY <1>1, <2>1, <2>5
  <2> QED
    BY <1>1, <2>1, <2>4, <2>6, <2>7, ReplayStep
<1> QED
  BY <1>2, <1>3

\* The outcome is written on every row: none is gone that was read, or a replay is owed.
LEMMA MarkNext ==
  ASSUME RegistryInv, NEW s \in Replays, Registering!Mark(s)
  PROVE  RegistryInv'
<1>1. /\ sync[s].pc = "mark" /\ sync' = [sync EXCEPT ![s] = Registering!NoSync]
      /\ UNCHANGED <<patch, deployed, owed, events, designated, blurred>>
      /\ sync[s].status \in {"synced", "error"} /\ sync[s].was \in Read
      /\ row \in [Models -> ModelRow] /\ sync \in [Replays -> Replay]
  BY DEF Registering!Mark, RegistryInv, RegistryTyped, Replay
<1> DEFINE hit == Registering!Marked(s) \intersect Registering!Present
<1> DEFINE x == sync[s].status
<1>2. \A m \in Models : /\ [row[m] EXCEPT !.status = x] \in ModelRow
                        /\ [row[m] EXCEPT !.status = x].status = x
                        /\ [row[m] EXCEPT !.status = x].utility = row[m].utility
                        /\ [row[m] EXCEPT !.status = x].state = row[m].state
                        /\ [row[m] EXCEPT !.status = x].enabled = row[m].enabled
                        /\ [row[m] EXCEPT !.status = x].params = row[m].params
  BY <1>1 DEF ModelRow, Statuses
<1>3. \/ row' = [m \in Models |-> IF m \in hit THEN [row[m] EXCEPT !.status = x] ELSE row[m]]
      \/ ~(Registering!Marked(s) \subseteq Registering!Present) /\ UNCHANGED row
  BY DEF Registering!Mark
<1> HIDE DEF hit, x
<1>4. /\ row' \in [Models -> ModelRow]
      /\ \A m \in Models : /\ row'[m].utility = row[m].utility /\ row'[m].state = row[m].state
                           /\ row'[m].enabled = row[m].enabled /\ row'[m].params = row[m].params
  BY <1>1, <1>2, <1>3
<1>5. /\ sync' \in [Replays -> Replay] /\ sync'[s].pc = "idle"
      /\ \A r \in Replays : r # s => sync'[r] = sync[r]
  BY <1>1 DEF Registering!NoSync, Replay
<1>6. RegistryTyped'
  BY <1>1, <1>4, <1>5 DEF RegistryInv, RegistryTyped
<1>7. Flagged'
  BY <1>1, <1>4 DEF RegistryInv, Flagged
<1>8. Registering!Present' = Registering!Present
  BY <1>4 DEF Registering!Present
<1>9. Registering!Exact => Registering!Exact'
  BY <1>1, <1>4 DEF Registering!Exact, Registering!Enabled, Registering!Present, Registering!Served
<1>10. ASSUME owed = 0, ~blurred
       PROVE  /\ \A r \in Replays : sync'[r].pc = "idle"
              /\ Agreed'
  <2>1. Follows(sync[s]) /\ \A r \in Registering!Running : r = s
    BY <1>1, <1>10 DEF RegistryInv, Followed, Registering!Running
  <2>2. \A r \in Replays : sync'[r].pc = "idle"
    BY <1>5, <2>1 DEF Registering!Running
  <2>3. /\ sync[s].was = [m \in Registering!Present |-> row[m].status]
        /\ x = "synced" => Registering!Exact
    BY <1>1, <2>1 DEF Follows, x
  <2>4. hit = {m \in Registering!Present : row[m].status # x} /\ Registering!Marked(s) = hit
    BY <2>3 DEF Registering!Marked, hit, x
  <2>5. row' = [m \in Models |-> IF m \in hit THEN [row[m] EXCEPT !.status = x] ELSE row[m]]
    BY <1>3, <2>4
  <2>6. \A m \in Registering!Present : row'[m].status = x
    BY <1>2, <2>4, <2>5 DEF Registering!Present
  <2>7. x \in {"synced", "error"}
    BY <1>1 DEF x
  <2>8. Agreed'
    BY <1>8, <1>9, <2>3, <2>6, <2>7 DEF Agreed
  <2> QED
    BY <2>2, <2>8
<1>11. Followed'
  BY <1>1, <1>10 DEF Followed, Registering!Running, Follows
<1> QED
  BY <1>6, <1>7, <1>11 DEF RegistryInv

\* The process ends: what it owed is lost, and a replay of everything is owed.
LEMMA RestartNext == ASSUME RegistryInv, Registering!Restart PROVE RegistryInv'
<1>1. /\ patch' \in [Patchers -> Patch] /\ sync' \in [Replays -> Replay]
      /\ UNCHANGED <<row, deployed, designated, blurred>> /\ owed' = 1 /\ events' \in Nat
  BY DEF Registering!Restart, Registering!NoReq, Registering!NoSync, Patch, Replay, RegistryInv, RegistryTyped
<1> QED
  BY <1>1 DEF RegistryInv, RegistryTyped, Flagged, Followed

\* Every step keeps the invariant.
LEMMA RegistryNext ==
  MaxDeployed \in Nat /\ RegistryInv /\ [Registering!Next]_(Registering!registryVars) => RegistryInv'
<1> SUFFICES ASSUME MaxDeployed \in Nat, RegistryInv, [Registering!Next]_(Registering!registryVars)
             PROVE  RegistryInv'
  OBVIOUS
<1>1. CASE UNCHANGED Registering!registryVars
  BY <1>1 DEF Registering!registryVars, RegistryInv, RegistryTyped, Flagged, Followed, Follows, Agreed,
     DeployedAsIs, Registering!Running, Registering!Deployable, Registering!Enabled,
     Registering!Present, Registering!Served, Registering!Exact
<1>2. ASSUME NEW s \in Replays, Registering!SyncFails(s) PROVE RegistryInv'
  BY <1>2, OutcomeStep DEF Registering!SyncFails, Registering!Untouched
<1> QED
  BY <1>1, <1>2, CreateNext, DeleteNext, PatchCommitNext, PatchQuiet, StartNext, ListAllNext,
     ListDeployedNext, DeleteDeployedNext, DeployNext, MarkNext, RestartNext DEF Registering!Next

\* Once no replay is owed or running, rows that say synced are deployed as they are, and one
\* model at most is the utility model: for any models, replays and changes.
THEOREM RegistryHoldsAlways ==
  ASSUME MaxDeployed \in Nat PROVE Registering!Spec => []Registering!RegistryHolds
<1>1. Registering!Init => RegistryInv
  BY RegistryInit
<1>2. RegistryInv /\ [Registering!Next]_(Registering!registryVars) => RegistryInv'
  BY RegistryNext
<1>3. RegistryInv => Registering!RegistryHolds
  BY DEF RegistryInv, Followed, Agreed, Flagged, Registering!RegistryHolds, Registering!AtRest,
     Registering!Utility, Registering!Enabled, Registering!Present
<1> QED
  BY <1>1, <1>2, <1>3, PTL DEF Registering!Spec
=============================================================================
