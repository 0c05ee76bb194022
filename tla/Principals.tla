----------------------------- MODULE Principals -----------------------------
(***************************************************************************)
(* Who a request acts for.  A person's access token and an API key are     *)
(* checked against the rows as they are now, over several statements       *)
(* between which administrators change memberships, roles, accounts and    *)
(* keys; the members of one workspace, one of whom has to own it; and the  *)
(* keys, none of which lives longer than the configured maximum.           *)
(*                                                                         *)
(* A commit between two statements of a request is seen by the second      *)
(* (READ COMMITTED).  The contents of role templates are fixed here (Roles *)
(* changes them); groups are read in the same way as memberships.          *)
(***************************************************************************)
EXTENDS Naturals, FiniteSets

CONSTANTS
    Users, Keys, Requests,
    Prefixes,      \* what the first KEY_PREFIX_LEN characters of a key can be
    Templates,
    Granting,      \* the templates with chat.generate
    MaxLifetime,   \* api_key_max_lifetime_days
    MaxChanges,    \* bound: administrative changes
    MaxTime        \* bound

VARIABLES
    member,    \* workspace_members of the workspace: role, or None
    user,      \* users: active, tier, custom role, security_version
    key,       \* api_keys
    clock,
    req,       \* requests in progress
    lost,      \* history: facts a request was without ever since it began
    raced,     \* history: a test of the last owner was out of date at its commit
    changes

principalVars == <<member, user, key, clock, req, lost, raced, changes>>

None == "none"
Ranks == {"owner", "viewer"}
Never == MaxTime + MaxLifetime + 1
Lesser(a, b) == IF a < b THEN a ELSE b

NoKey == [user |-> None, prefix |-> None, revoked |-> FALSE, created |-> 0, asked |-> 0, expires |-> 0]
Idle == [pc |-> "idle", kind |-> None, user |-> None, key |-> None, sv |-> 0, tier |-> None,
         custom |-> None, role |-> None, asked |-> 0]
Facts == {"key", "active", "version", "member", "permission"}

TypeOK ==
    /\ member \in [Users -> Ranks \union {None}]
    /\ user \in [Users -> [active : BOOLEAN, tier : {"user", "admin"},
                           custom : Templates \union {None}, sv : 0..MaxChanges]]
    /\ \A k \in Keys : key[k].user \in Users \union {None} /\ key[k].expires \in 0..Never
    /\ clock \in 0..MaxTime
    /\ \A q \in Requests : req[q].pc \in
           {"idle", "user", "member", "context", "served", "minting", "ousting"}
    /\ lost \in [Requests -> SUBSET Facts] /\ raced \in BOOLEAN /\ changes \in 0..MaxChanges

Init ==
    /\ member \in [Users -> Ranks \union {None}]
    /\ user = [u \in Users |-> [active |-> TRUE, tier |-> "user", custom |-> None, sv |-> 0]]
    /\ key = [k \in Keys |-> NoKey]
    /\ clock = 0 /\ req = [q \in Requests |-> Idle]
    /\ lost = [q \in Requests |-> {}] /\ raced = FALSE /\ changes = 0

-----------------------------------------------------------------------------
Step(q, r) == req' = [req EXCEPT ![q] = r]
Done(q) == Step(q, Idle)
rows == <<member, user, key, clock, raced, changes>>

\* build_context_for_user: what the account's tier and custom role allow.
\* Without a custom role the default permissions hold, chat.generate among
\* them; an administrator has it whatever the custom role says.
Permitted(tier, custom) == tier = "admin" \/ custom = None \/ custom \in Granting

\* get_tenant_context: the token's claims against the row of the user.
LoadUser(q, u, v) ==
    /\ req[q].pc = "idle" /\ user[u].active /\ user[u].sv = v
    /\ Step(q, [Idle EXCEPT !.pc = "context", !.kind = "person", !.user = u, !.sv = v,
                            !.tier = user[u].tier, !.custom = user[u].custom])
    /\ UNCHANGED rows

\* _bound_expiry: no expiry asked for is Never.
BoundExpiry(asked) == Lesser(asked, clock + MaxLifetime)

\* generate_api_key: the user is a member now, or ConflictError.
MintRead(q, u, asked) ==
    /\ req[q].pc = "idle" /\ member[u] # None
    /\ Step(q, [Idle EXCEPT !.pc = "minting", !.user = u, !.asked = asked])
    /\ UNCHANGED rows

Mint(q, k, prefix) ==
    /\ req[q].pc = "minting" /\ key[k] = NoKey
    /\ key' = [key EXCEPT ![k] = [user |-> req[q].user, prefix |-> prefix, revoked |-> FALSE,
                                  created |-> clock, asked |-> req[q].asked,
                                  expires |-> BoundExpiry(req[q].asked)]]
    /\ Done(q)
    /\ UNCHANGED <<member, user, clock, raced, changes>>

\* resolve_api_key: the row with the prefix, neither revoked nor expired.  Two
\* rows with one prefix are an error (scalar_one_or_none), for either key.
Resolve(q, k) ==
    /\ req[q].pc = "idle" /\ key[k] # NoKey
    /\ {j \in Keys : key[j].prefix = key[k].prefix} = {k}
    /\ ~key[k].revoked /\ key[k].expires >= clock
    /\ Step(q, [Idle EXCEPT !.pc = "user", !.kind = "key", !.user = key[k].user, !.key = k])
    /\ UNCHANGED rows

\* api_key_context: the owner of the key is active.
KeyUser(q) ==
    LET u == user[req[q].user]
    IN  /\ req[q].pc = "user"
        /\ IF u.active THEN Step(q, [req[q] EXCEPT !.pc = "member", !.tier = u.tier, !.custom = u.custom])
           ELSE Done(q)
        /\ UNCHANGED rows

\* Mutant: the workspace captured when the key was issued.
VerifyMemberIssued(q) ==
    /\ req[q].pc = "member"
    /\ Step(q, [req[q] EXCEPT !.pc = "context"])
    /\ UNCHANGED rows

\* build_verified_principal_context: still a member.
VerifyMember(q) ==
    /\ req[q].pc = "member"
    /\ IF member[req[q].user] # None THEN Step(q, [req[q] EXCEPT !.pc = "context"]) ELSE Done(q)
    /\ UNCHANGED rows

\* build_context_for_user, then require_action("chat.generate") or the same
\* test of a key; get_workspace_checked wants a user's membership.
Serve(q) ==
    LET r == req[q]
        within == r.kind = "key" \/ r.tier = "admin" \/ member[r.user] # None
    IN  /\ r.pc = "context"
        /\ IF Permitted(r.tier, r.custom) /\ within THEN Step(q, [r EXCEPT !.pc = "served"])
           ELSE Done(q)
        /\ UNCHANGED rows

Finish(q) == req[q].pc = "served" /\ Done(q) /\ UNCHANGED rows

-----------------------------------------------------------------------------
Change == changes < MaxChanges /\ changes' = changes + 1
Owners == {u \in Users : member[u] = "owner"}

\* A request between its test of the last owner and its commit finds another one
\* than it tested: someone else lost the ownership, or its own user got it.
Overtakes(u, role, others) ==
    raced' = (raced \/ \E p \in others : req[p].pc = "ousting"
                                       /\ (role = "owner" <=> req[p].user = u))

\* add_member; a second row for the user breaks the primary key.
AddMember(u, role) ==
    /\ Change /\ member[u] = None
    /\ member' = [member EXCEPT ![u] = role]
    /\ IF role = "owner" THEN Overtakes(u, role, Requests) ELSE UNCHANGED raced
    /\ UNCHANGED <<user, key, clock, req>>

\* _is_last_owner, read without a lock.
IsLastOwner(u) == Owners = {u}

\* change_member_role and remove_member (role None).
OustRead(q, u, role) ==
    /\ req[q].pc = "idle" /\ member[u] # None
    /\ role # "owner" => ~IsLastOwner(u)
    /\ Step(q, [Idle EXCEPT !.pc = "ousting", !.user = u, !.role = role])
    /\ UNCHANGED rows

OustCommit(q) ==
    LET r == req[q]
    IN  /\ r.pc = "ousting"
        /\ IF member[r.user] = None THEN UNCHANGED <<member, raced, changes>>
           ELSE /\ Change
                /\ member' = [member EXCEPT ![r.user] = r.role]
                /\ Overtakes(r.user, r.role, Requests \ {q})
        /\ Done(q)
        /\ UNCHANGED <<user, key, clock>>

\* set_user_active, set_user_role, assign_custom_role, change_password.
EditUser(u) ==
    /\ Change
    /\ \/ user' = [user EXCEPT ![u].active = ~@]
       \/ \E t \in {"user", "admin"} \ {user[u].tier} : user' = [user EXCEPT ![u].tier = t]
       \/ \E c \in (Templates \union {None}) \ {user[u].custom} : user' = [user EXCEPT ![u].custom = c]
       \/ user' = [user EXCEPT ![u].sv = @ + 1]
    /\ UNCHANGED <<member, key, clock, req, raced>>

RevokeKey(k) ==
    /\ Change /\ key[k] # NoKey /\ ~key[k].revoked
    /\ key' = [key EXCEPT ![k].revoked = TRUE]
    /\ UNCHANGED <<member, user, clock, req, raced>>

Tick ==
    /\ clock < MaxTime /\ clock' = clock + 1
    /\ UNCHANGED <<member, user, key, req, raced, changes>>

\* A request dies between two statements.
Drop(q) == req[q].pc \in {"user", "member", "context", "minting", "ousting"} /\ Done(q) /\ UNCHANGED rows

-----------------------------------------------------------------------------
\* The facts a request rests on that do not hold in this state.  A key is
\* good until it is revoked, its asked-for expiry or the maximum lifetime.
Missing(q) ==
    LET r == req[q]
        u == user[r.user]
        k == key[r.key]
        keyGood == ~k.revoked /\ clock <= k.asked /\ clock <= k.created + MaxLifetime
        holds == [f \in Facts |->
            CASE f = "key" -> r.kind = "key" => keyGood
              [] f = "active" -> u.active
              [] f = "version" -> r.kind = "person" => u.sv = r.sv
              [] f = "member" -> member[r.user] # None \/ (r.kind = "person" /\ u.tier = "admin")
              [] f = "permission" -> Permitted(u.tier, u.custom)]
    IN  IF r.kind = None THEN {} ELSE {f \in Facts : ~holds[f]}

Track == lost' = [q \in Requests |->
    CASE req[q].pc = "idle" -> Missing(q)'
      [] req[q].pc = "served" -> IF req'[q].pc = "served" THEN lost[q] ELSE {}
      [] OTHER -> lost[q] \intersect Missing(q)']

Next ==
    /\ \/ \E q \in Requests :
             \/ KeyUser(q) \/ VerifyMember(q) \/ Serve(q) \/ Finish(q) \/ OustCommit(q) \/ Drop(q)
             \/ \E u \in Users : \/ \E v \in 0..MaxChanges : LoadUser(q, u, v)
                                 \/ \E asked \in {1, Never} : MintRead(q, u, asked)
                                 \/ \E role \in Ranks \union {None} : OustRead(q, u, role)
             \/ \E k \in Keys : Resolve(q, k) \/ \E p \in Prefixes : Mint(q, k, p)
       \/ \E u \in Users : EditUser(u) \/ \E role \in Ranks : AddMember(u, role)
       \/ \E k \in Keys : RevokeKey(k)
       \/ Tick
    /\ Track

Spec == Init /\ [][Next]_principalVars

-----------------------------------------------------------------------------
Entitled == \A q \in Requests : req[q].pc = "served" => lost[q] = {}
OwnerKept == Owners # {} /\ Owners' = {} => raced'

\* Taking a member out, deactivating an account, revoking a key or changing a
\* password is the complete and immediate revocation: a request is served
\* only if each thing it rests on held at some moment since it began, and
\* no key is served past the maximum lifetime, whatever expiry it was made
\* with.  And the last owner of a workspace goes only in a request that was
\* overtaken, since its test, by another change of the owners.  get_tenant_context,
\* build_verified_principal_context, resolve_api_key, remove_member.
RevocationIsComplete == []Entitled /\ [][OwnerKept]_principalVars
=============================================================================
