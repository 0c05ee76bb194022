------------------------------ MODULE Budgets ------------------------------
(***************************************************************************)
(* The gateway's copy of what a member may spend.  The first turn of a     *)
(* member mints a virtual key with a budget and stores it as a secret;     *)
(* changing a member's quota or the organization's default rewrites the    *)
(* budget of the keys there are.  The copy is best effort: a call that     *)
(* fails is not repeated.                                                  *)
(***************************************************************************)
EXTENDS Integers, FiniteSets

CONSTANTS
    Users,          \* the members of one organization
    Limits,         \* monthly tokens
    Priced,         \* litellm_usd_per_million_tokens > 0
    Requests, MaxKeys

VARIABLES
    userQuota,   \* user_quotas
    default,     \* OrgQuota.default_user_monthly_tokens
    secret,      \* the secret vkey:<user>
    budget,      \* the gateway: max_budget of the keys it made
    task,        \* requests: [pc, user, tokens, key, todo]
    stale        \* users whose budget nobody looks after (history)

budgetVars == <<userQuota, default, secret, budget, task, stale>>

Unset == 0      \* no override, no default, no cap
NoKey == 0
Keys == 1..MaxKeys
Idle == [pc |-> "idle", user |-> CHOOSE u \in Users : TRUE, tokens |-> Unset, key |-> NoKey,
         todo |-> [u \in {} |-> Unset]]

TypeOK ==
    /\ userQuota \in [Users -> Limits \union {Unset}] /\ default \in Limits \union {Unset}
    /\ secret \in [Users -> Keys \union {NoKey}]
    /\ DOMAIN budget \subseteq Keys /\ \A k \in DOMAIN budget : budget[k] \in Limits \union {Unset}
    /\ \A r \in Requests :
          /\ task[r].pc \in {"idle", "allocated", "mint", "store", "user", "call", "org", "each",
                             "eachcall"}
          /\ task[r].user \in Users /\ DOMAIN task[r].todo \subseteq Users
    /\ stale \subseteq Users

Init ==
    /\ userQuota = [u \in Users |-> Unset] /\ default = Unset
    /\ secret = [u \in Users |-> NoKey] /\ budget = [k \in {} |-> Unset]
    /\ task = [r \in Requests |-> Idle] /\ stale = {}

-----------------------------------------------------------------------------
\* get_usage_status: the override, or else the default.
Allocated(u) == IF userQuota[u] # Unset THEN userQuota[u] ELSE default

\* Mutant: the default for everybody.
EffectiveDefault(u) == default

\* org_member_effective_allocations
Effective(u) == IF userQuota[u] # Unset THEN userQuota[u] ELSE default

\* _max_budget, in tokens
MaxBudget(tokens) == IF Priced THEN tokens ELSE Unset

\* Requests that will still send what they have read for a user.
Minting(u) == {r \in Requests : task[r].pc \in {"allocated", "mint", "store"} /\ task[r].user = u}
Mirroring(u) ==
    {r \in Requests : \/ task[r].pc \in {"user", "call"} /\ task[r].user = u
                      \/ task[r].pc = "org"
                      \/ task[r].pc \in {"each", "eachcall"} /\ u \in DOMAIN task[r].todo}
Overlapped(u) == Minting(u) \union Mirroring(u) # {}

Set(r, t) == task' = [task EXCEPT ![r] = t]
To(r, pc) == task' = [task EXCEPT ![r].pc = pc]

-----------------------------------------------------------------------------
\* A turn: _streamer and get_or_create_user_virtual_key.

Stream(r, u) ==
    /\ task[r].pc = "idle"
    /\ Set(r, [Idle EXCEPT !.pc = "allocated", !.user = u, !.tokens = Allocated(u)])
    /\ UNCHANGED <<userQuota, default, secret, budget, stale>>

MintLookup(r) ==
    /\ task[r].pc = "allocated"
    /\ IF secret[task[r].user] # NoKey THEN Set(r, Idle) ELSE To(r, "mint")
    /\ UNCHANGED <<userQuota, default, secret, budget, stale>>

\* The turn goes on with the master key when the gateway makes none.
Generate(r) ==
    /\ task[r].pc = "mint"
    /\ \/ \E k \in Keys \ DOMAIN budget :
             /\ \A j \in Keys \ DOMAIN budget : k <= j
             /\ budget' = [j \in DOMAIN budget \union {k} |->
                              IF j = k THEN MaxBudget(task[r].tokens) ELSE budget[j]]
             /\ task' = [task EXCEPT ![r].pc = "store", ![r].key = k]
       \/ Set(r, Idle) /\ UNCHANGED budget
    /\ UNCHANGED <<userQuota, default, secret, stale>>

\* set_secret: of two turns that found no row one fails; one that found the
\* row of the other writes over it.
Store(r) ==
    LET u == task[r].user
    IN /\ task[r].pc = "store" /\ Set(r, Idle)
       /\ \/ secret' = [secret EXCEPT ![u] = task[r].key]
          \/ secret[u] # NoKey /\ UNCHANGED secret
       /\ UNCHANGED <<userQuota, default, budget, stale>>

-----------------------------------------------------------------------------
\* put_user_quota.  The budget is what the request says, not what the member is
\* then allocated: without an override the cap goes, whatever the default is.

PutUser(r, u, tokens) ==
    /\ task[r].pc = "idle"
    /\ userQuota' = [userQuota EXCEPT ![u] = tokens]
    /\ Set(r, [Idle EXCEPT !.pc = "user", !.user = u, !.tokens = tokens])
    /\ stale' = IF Overlapped(u) \/ (tokens = Unset /\ default # Unset)
                THEN stale \union {u} ELSE stale
    /\ UNCHANGED <<default, secret, budget>>

\* No key yet: nothing to do.
UpdateLookup(r) ==
    LET u == task[r].user
    IN /\ task[r].pc = "user"
       /\ IF secret[u] = NoKey THEN Set(r, Idle)
          ELSE task' = [task EXCEPT ![r].pc = "call", ![r].key = secret[u]]
       /\ UNCHANGED <<userQuota, default, secret, budget, stale>>

\* /key/update, or a failure that is logged.
Written(u, r, tokens) ==
    \/ /\ budget' = [budget EXCEPT ![task[r].key] = MaxBudget(tokens)]
       /\ stale' = IF /\ tokens = Allocated(u) /\ secret[u] = task[r].key
                      /\ Minting(u) \union Mirroring(u) = {r}
                   THEN stale \ {u} ELSE stale
    \/ UNCHANGED budget /\ stale' = stale \union {u}

UpdateCall(r) ==
    /\ task[r].pc = "call" /\ Written(task[r].user, r, task[r].tokens) /\ Set(r, Idle)
    /\ UNCHANGED <<userQuota, default, secret>>

-----------------------------------------------------------------------------
\* put_org_quota: every member's allocation is read, then the budgets of those who
\* hold a key are written one after the other.  The SELECTs of OrgRead are taken as
\* one: a change that commits between them overlaps with the request either way.

PutOrg(r, tokens) ==
    /\ task[r].pc = "idle" /\ default' = tokens
    /\ Set(r, [Idle EXCEPT !.pc = "org"])
    /\ stale' = stale \union {u \in Users : Overlapped(u)}
    /\ UNCHANGED <<userQuota, secret, budget>>

OrgRead(r) ==
    /\ task[r].pc = "org"
    /\ task' = [task EXCEPT ![r].pc = "each",
                            ![r].todo = [u \in {v \in Users : secret[v] # NoKey} |-> Effective(u)]]
    \* A turn that mints its key just now is left out.
    /\ stale' = stale \union {u \in Users : Minting(u) # {}}
    /\ UNCHANGED <<userQuota, default, secret, budget>>

EachLookup(r, u) ==
    /\ task[r].pc = "each" /\ u \in DOMAIN task[r].todo
    /\ task' = [task EXCEPT ![r].pc = "eachcall", ![r].user = u, ![r].key = secret[u]]
    /\ UNCHANGED <<userQuota, default, secret, budget, stale>>

EachCall(r) ==
    LET u == task[r].user
        left == DOMAIN task[r].todo \ {u}
    IN /\ task[r].pc = "eachcall" /\ Written(u, r, task[r].todo[u])
       /\ task' = [task EXCEPT ![r].pc = "each", ![r].todo = [v \in left |-> @[v]]]
       /\ UNCHANGED <<userQuota, default, secret>>

OrgDone(r) ==
    /\ task[r].pc = "each" /\ DOMAIN task[r].todo = {} /\ Set(r, Idle)
    /\ UNCHANGED <<userQuota, default, secret, budget, stale>>

Next ==
    \E r \in Requests :
        \/ \E u \in Users :
              \/ Stream(r, u) \/ EachLookup(r, u)
              \/ \E tokens \in Limits \union {Unset} : PutUser(r, u, tokens)
        \/ \E tokens \in Limits \union {Unset} : PutOrg(r, tokens)
        \/ MintLookup(r) \/ Generate(r) \/ Store(r) \/ UpdateLookup(r) \/ UpdateCall(r)
        \/ OrgRead(r) \/ EachCall(r) \/ OrgDone(r)

Spec == Init /\ [][Next]_budgetVars

-----------------------------------------------------------------------------
\* put_user_quota, put_org_quota, get_or_create_user_virtual_key: when nothing is
\* under way, a member's key has the budget of what the member is allocated, unless
\* a change overlapped with another one or with the minting of the key, a call
\* failed, or the override was removed while there is a default.
BudgetsFollow ==
    (\A r \in Requests : task[r].pc = "idle") =>
        \A u \in Users \ stale :
            secret[u] # NoKey => budget[secret[u]] = MaxBudget(Allocated(u))
=============================================================================
