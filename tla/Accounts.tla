------------------------------ MODULE Accounts ------------------------------
(***************************************************************************)
(* How accounts come to be and how a forgotten password is replaced: the   *)
(* first superadmin (self-service registration under an advisory lock and  *)
(* the environment's bootstrap command, which takes no lock), invitations, *)
(* accounts provisioned by single sign-on, and reset links.                *)
(*                                                                         *)
(* A request reads in one step and commits in a later one.  The database   *)
(* enforces users.email, organizations.name and (oidc_issuer,              *)
(* oidc_subject) as unique: a commit that would break one is rolled back.  *)
(***************************************************************************)
EXTENDS Naturals, Sequences, FiniteSets

CONSTANTS
    Requests, Emails,
    Identities,   \* (issuer, subject) pairs an identity provider asserts
    MaxLinks,     \* bound: reset links
    MaxInvites    \* bound: invitations

VARIABLES
    user,      \* users, by email
    platform,  \* the organization named "Platform" exists
    invites,   \* invitations
    links,     \* password_reset_tokens
    lock,      \* holder of the bootstrap advisory lock
    task       \* the requests in progress

accountVars == <<user, platform, invites, links, lock, task>>

None == 0
NoUser == [role |-> "none", active |-> FALSE, identity |-> None, invite |-> None]
Exists(e) == user[e].role # "none"
Account(role, identity, invite) ==
    [role |-> role, active |-> TRUE, identity |-> identity, invite |-> invite]

Idle == [pc |-> "idle", email |-> None, id |-> None, item |-> None, seen |-> FALSE, targets |-> {}]
Kinds == {"idle", "waiting", "bootstrapping", "registering", "accepting", "provisioning",
          "linking", "resetting"}

TypeOK ==
    /\ \A e \in Emails : /\ user[e].role \in {"none", "superadmin", "admin", "user"}
                         /\ user[e].active \in BOOLEAN
                         /\ user[e].identity \in Identities \union {None}
                         /\ user[e].invite \in 0..MaxInvites
    /\ platform \in BOOLEAN
    /\ \A i \in DOMAIN invites : invites[i].email \in Emails /\ invites[i].open \in BOOLEAN
    /\ \A l \in DOMAIN links : links[l].email \in Emails /\ links[l].used \in BOOLEAN
    /\ lock \in Requests \union {None}
    /\ \A q \in Requests : task[q].pc \in Kinds

Init ==
    /\ user = [e \in Emails |-> NoUser]
    /\ platform = FALSE /\ invites = <<>> /\ links = <<>>
    /\ lock = None /\ task = [q \in Requests |-> Idle]

-----------------------------------------------------------------------------
Step(q, r) == task' = [task EXCEPT ![q] = r]
Done(q) == Step(q, Idle)
Superadmins == {e \in Emails : user[e].role = "superadmin"}

\* register_first_superadmin: wait for the advisory lock, then look.
RegisterLock(q, e) ==
    /\ task[q].pc = "idle" /\ lock = None
    /\ lock' = q /\ Step(q, [Idle EXCEPT !.pc = "waiting", !.email = e])
    /\ UNCHANGED <<user, platform, invites, links>>

RegisterCheck(q) ==
    /\ task[q].pc = "waiting"
    /\ IF Superadmins # {} THEN Done(q) /\ lock' = None
       ELSE Step(q, [task[q] EXCEPT !.pc = "registering"]) /\ UNCHANGED lock
    /\ UNCHANGED <<user, platform, invites, links>>

\* bootstrap_superadmin, the command: the same check, without the lock.
BootstrapCheck(q, e) ==
    /\ task[q].pc = "idle" /\ Superadmins = {}
    /\ Step(q, [Idle EXCEPT !.pc = "bootstrapping", !.email = e])
    /\ UNCHANGED <<user, platform, invites, links, lock>>

\* Organization(name="Platform") and the user, or an IntegrityError for
\* either: rolled back, and the lock of a registration released.
Clash(q) == platform \/ Exists(task[q].email)

CreateSuperadmin(q) ==
    /\ task[q].pc \in {"registering", "bootstrapping"}
    /\ IF Clash(q) THEN UNCHANGED <<user, platform>>
       ELSE /\ platform' = TRUE
            /\ user' = [user EXCEPT ![task[q].email] = Account("superadmin", None, None)]
    /\ lock' = IF lock = q THEN None ELSE lock
    /\ Done(q)
    /\ UNCHANGED <<invites, links>>

\* create_invitation: no account has the address now; two invitations may.
Invite(e, role) ==
    /\ Superadmins # {} /\ ~Exists(e) /\ Len(invites) < MaxInvites
    /\ invites' = Append(invites, [email |-> e, role |-> role, open |-> TRUE])
    /\ UNCHANGED <<user, platform, links, lock, task>>

\* accept_invitation: the invitation is read without a lock.
AcceptRead(q, i) ==
    /\ task[q].pc = "idle" /\ invites[i].open
    /\ Step(q, [Idle EXCEPT !.pc = "accepting", !.item = i])
    /\ UNCHANGED <<user, platform, invites, links, lock>>

AcceptCommit(q) ==
    LET i == task[q].item
        e == invites[i].email
    IN  /\ task[q].pc = "accepting"
        /\ IF Exists(e) THEN UNCHANGED <<user, invites>>
           ELSE /\ user' = [user EXCEPT ![e] = Account(invites[i].role, None, i)]
                /\ invites' = [invites EXCEPT ![i].open = FALSE]
        /\ Done(q)
        /\ UNCHANGED <<platform, links, lock>>

\* login_oidc for an identity nobody is bound to, with an address nobody has
\* and one organization that accepts its domain.  A bound identity logs in
\* and any other is refused: neither changes an account.
ProvisionRead(q, id, e) ==
    /\ task[q].pc = "idle" /\ platform /\ ~Exists(e)
    /\ \A a \in Emails : user[a].identity # id
    /\ Step(q, [Idle EXCEPT !.pc = "provisioning", !.email = e, !.id = id])
    /\ UNCHANGED <<user, platform, invites, links, lock>>

ProvisionCommit(q) ==
    LET r == task[q]
    IN  /\ r.pc = "provisioning"
        /\ IF Exists(r.email) \/ \E a \in Emails : user[a].identity = r.id THEN UNCHANGED user
           ELSE user' = [user EXCEPT ![r.email] = Account("user", r.id, None)]
        /\ Done(q)
        /\ UNCHANGED <<platform, invites, links, lock>>

\* request_password_reset: its UPDATE waits for links that are being used.
LinkRows(e) == {l \in DOMAIN links : links[l].email = e /\ ~links[l].used}
HeldLinks == {task[q].item : q \in {p \in Requests : task[p].pc = "resetting"}}

RequestReset(q, e) ==
    /\ task[q].pc = "idle" /\ user[e].active
    /\ Step(q, [Idle EXCEPT !.pc = "linking", !.email = e, !.targets = LinkRows(e)])
    /\ UNCHANGED <<user, platform, invites, links, lock>>

NewLink(q) ==
    LET e == task[q].email
        spent == [l \in DOMAIN links |->
                    IF l \in task[q].targets THEN [links[l] EXCEPT !.used = TRUE] ELSE links[l]]
    IN  /\ task[q].pc = "linking" /\ Len(links) < MaxLinks
        /\ task[q].targets \cap LinkRows(e) \cap HeldLinks = {}
        /\ links' = Append(spent, [email |-> e, used |-> FALSE, resets |-> 0])
        /\ Done(q)
        /\ UNCHANGED <<user, platform, invites, lock>>

\* Mutant: the row is read without a lock.
ResetLockRead(q, l) ==
    /\ task[q].pc = "idle"
    /\ Step(q, [Idle EXCEPT !.pc = "resetting", !.item = l, !.seen = links[l].used])
    /\ UNCHANGED <<user, platform, invites, links, lock>>

\* reset_password: FOR UPDATE, so the row is read as its last user left it.
ResetLock(q, l) ==
    /\ task[q].pc = "idle" /\ l \notin HeldLinks
    /\ Step(q, [Idle EXCEPT !.pc = "resetting", !.item = l, !.seen = links[l].used])
    /\ UNCHANGED <<user, platform, invites, links, lock>>

\* The new password, the link spent, security_version and the sessions
\* (Sessions!ChangePassword) in one commit; refused for a used or expired
\* link and for an account that has been switched off.
Reset(q) ==
    LET l == task[q].item
    IN  /\ task[q].pc = "resetting"
        /\ \E late \in BOOLEAN :
              IF task[q].seen \/ late \/ ~user[links[l].email].active THEN UNCHANGED links
              ELSE links' = [links EXCEPT ![l].used = TRUE, ![l].resets = @ + 1]
        /\ Done(q)
        /\ UNCHANGED <<user, platform, invites, lock>>

\* set_user_active, set_user_role: never a superadmin's.
SetActive(e) ==
    /\ user[e].role \in {"admin", "user"}
    /\ user' = [user EXCEPT ![e].active = ~@]
    /\ UNCHANGED <<platform, invites, links, lock, task>>

SetRole(e, role) ==
    /\ user[e].role \in {"admin", "user"} \ {role}
    /\ user' = [user EXCEPT ![e].role = role]
    /\ UNCHANGED <<platform, invites, links, lock, task>>

\* A connection that dies takes its transaction and its locks with it.
Drop(q) ==
    /\ task[q].pc # "idle"
    /\ lock' = IF lock = q THEN None ELSE lock
    /\ Done(q)
    /\ UNCHANGED <<user, platform, invites, links>>

Next ==
    \/ \E q \in Requests, e \in Emails :
          \/ RegisterLock(q, e) \/ BootstrapCheck(q, e) \/ RequestReset(q, e)
          \/ \E id \in Identities : ProvisionRead(q, id, e)
    \/ \E q \in Requests : \/ RegisterCheck(q) \/ CreateSuperadmin(q)
                           \/ AcceptCommit(q) \/ ProvisionCommit(q)
                           \/ NewLink(q) \/ Reset(q) \/ Drop(q)
                           \/ \E i \in DOMAIN invites : AcceptRead(q, i)
                           \/ \E l \in DOMAIN links : ResetLock(q, l)
    \/ \E e \in Emails, role \in {"admin", "user"} : Invite(e, role) \/ SetRole(e, role)
    \/ \E e \in Emails : SetActive(e)

Spec == Init /\ [][Next]_accountVars

-----------------------------------------------------------------------------
\* However registrations and the bootstrap command race, the platform gets
\* one superadmin: the lock orders registrations, and the unique name of
\* the organization orders the command, which takes no lock, with them.
\* register_first_superadmin, bootstrap_superadmin.
OneSuperadmin == Cardinality(Superadmins) <= 1

\* What is good for one use is used once, under double clicks and dropped
\* connections: an invitation is closed exactly when the account made from
\* it exists, and a reset link replaces a password at most once.
\* accept_invitation, reset_password.
SpentOnce ==
    /\ \A i \in DOMAIN invites : ~invites[i].open <=> user[invites[i].email].invite = i
    /\ \A l \in DOMAIN links : links[l].resets <= 1
=============================================================================
