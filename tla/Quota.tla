------------------------------- MODULE Quota -------------------------------
(***************************************************************************)
(* Token quotas: the check before a turn, against totals cached for a      *)
(* minute, and the ledger row after it.  period_bounds is module Periods;  *)
(* here a period is PeriodLength ticks.                                    *)
(*                                                                         *)
(* A check reads the organization's quota, then for the user and for the   *)
(* organization a cached total or, on a miss, the ledger's sum, which it   *)
(* puts in the cache in a later step; then the user's quota.               *)
(***************************************************************************)
EXTENDS Naturals, FiniteSets

CONSTANTS
    Requests, Users,
    TTL,           \* _CACHE_TTL_SECONDS
    Delay,         \* longest time between a sum and its redis.set
    PeriodLength,
    Limits,        \* the allocations an administrator may set
    MaxUse,        \* bound: ledger rows of a user in a period
    MaxTime        \* bound: the clock

VARIABLES
    now,
    ledger,     \* usage_records: rows of one token, with their user and period
    userQuota,  \* user_quotas, or the organization's default where there is none
    orgQuota,   \* org_quotas.monthly_tokens
    cache,      \* Redis: totals by key, with the time they expire
    check,      \* the requests in progress
    full        \* since when a total has reached its allocation (history)

quotaVars == <<now, ledger, userQuota, orgQuota, cache, check, full>>

Unset == MaxTime + 1
Period(t) == t \div PeriodLength
Periods == 0..Period(MaxTime)
Org == "org"
Keys == (Users \union {Org}) \X Periods

\* _sum_since: rows created since the period began, later ones included.
Total(l, k) ==
    Cardinality({r \in l : (k[1] = Org \/ r.user = k[1]) /\ r.period >= k[2]})

Allocated(k, uq, oq) == IF k[1] = Org THEN oq ELSE uq[k[1]]

Idle == [pc |-> "idle", user |-> Org, period |-> 0, opened |-> 0, limit |-> 0,
         sum |-> 0, at |-> 0, used |-> 0, orgUsed |-> 0]
NoEntry == [value |-> 0, until |-> 0]

TypeOK ==
    /\ now \in 0..MaxTime
    /\ ledger \subseteq [user : Users, period : Periods, number : 1..MaxUse]
    /\ userQuota \in [Users -> Limits] /\ orgQuota \in Limits
    /\ DOMAIN cache = Keys /\ \A k \in Keys : cache[k].until \in 0..(MaxTime + TTL)
    /\ \A q \in Requests : check[q].pc \in {"idle", "user", "fill user", "org", "fill org",
                                            "decide", "answering"}
    /\ full \in [Keys -> 0..Unset]

Init ==
    /\ now = 0
    /\ ledger = {}
    /\ userQuota \in [Users -> Limits] /\ orgQuota \in Limits
    /\ cache = [k \in Keys |-> NoEntry]
    /\ check = [q \in Requests |-> Idle]
    /\ full = [k \in Keys |-> Unset]

-----------------------------------------------------------------------------
Step(q, r) == check' = [check EXCEPT ![q] = r]

\* Since when the total of k has reached an allocation of n; an allocation
\* that changes starts anew.
Since(k, l, n, before) ==
    IF Total(l, k) < n THEN Unset ELSE IF before = Unset THEN now ELSE before

Recorded(l) ==
    full' = [k \in Keys |-> Since(k, l, Allocated(k, userQuota, orgQuota), full[k])]
Reallocated(of, n) ==
    full' = [k \in Keys |-> IF k[1] = of THEN Since(k, ledger, n, Unset) ELSE full[k]]

\* get_usage_status: the organization's quota and the period.
Open(q, u) ==
    /\ check[q].pc = "idle"
    /\ Step(q, [Idle EXCEPT !.pc = "user", !.user = u, !.period = Period(now),
                            !.opened = now, !.limit = orgQuota])
    /\ UNCHANGED <<now, ledger, userQuota, orgQuota, cache, full>>

\* Mutant: the key does not name the period.
KeyOfAllTime(q, scope) == <<IF scope = "org" THEN Org ELSE check[q].user, 0>>

\* quota:user:<id>:<period start>, quota:org:<id>:<period start>
KeyOf(q, scope) == <<IF scope = "org" THEN Org ELSE check[q].user, check[q].period>>

Got(r, scope, v) ==
    IF scope = "user" THEN [r EXCEPT !.pc = "org", !.used = v, !.sum = 0, !.at = 0]
    ELSE [r EXCEPT !.pc = "decide", !.orgUsed = v, !.sum = 0, !.at = 0]
Filling(scope) == IF scope = "user" THEN "fill user" ELSE "fill org"

\* _cached_sum: a hit, or the sum of the period's rows.
Cached(q, scope) ==
    LET k == KeyOf(q, scope)
        hit == cache[k] # NoEntry
    IN  /\ check[q].pc = scope
        /\ Step(q, IF hit THEN Got(check[q], scope, cache[k].value)
                   ELSE [check[q] EXCEPT !.pc = Filling(scope), !.at = now,
                             !.sum = Total(ledger, <<k[1], check[q].period>>)])
        /\ UNCHANGED <<now, ledger, userQuota, orgQuota, cache, full>>

\* Mutant: an entry stays for as long again.
ExpiryTwice(t) == t + TTL + TTL

Expiry(t) == t + TTL

Fill(q, scope) ==
    /\ check[q].pc = Filling(scope)
    /\ cache' = [cache EXCEPT ![KeyOf(q, scope)] = [value |-> check[q].sum, until |-> Expiry(now)]]
    /\ Step(q, Got(check[q], scope, check[q].sum))
    /\ UNCHANGED <<now, ledger, userQuota, orgQuota, full>>

Blocked(q) ==
    \/ check[q].used >= userQuota[check[q].user]
    \/ check[q].orgUsed >= check[q].limit

\* check_quota: a 429, or the turn goes on.
Decide(q) ==
    /\ check[q].pc = "decide"
    /\ Step(q, IF Blocked(q) THEN Idle
               ELSE [Idle EXCEPT !.pc = "answering", !.user = check[q].user])
    /\ UNCHANGED <<now, ledger, userQuota, orgQuota, cache, full>>

\* record_usage's commit, in the period the row is created in.
Record(q) ==
    LET u == check[q].user
        there == Cardinality({r \in ledger : r.user = u /\ r.period = Period(now)})
    IN  /\ check[q].pc = "answering" /\ there < MaxUse
        /\ ledger' = ledger \union {[user |-> u, period |-> Period(now), number |-> there + 1]}
        /\ Recorded(ledger')
        /\ Step(q, Idle)
        /\ UNCHANGED <<now, userQuota, orgQuota, cache>>

\* set_user_quota, set_org_quota; no cached total is dropped.
SetUserQuota(u, n) ==
    /\ n # userQuota[u] /\ userQuota' = [userQuota EXCEPT ![u] = n]
    /\ Reallocated(u, n)
    /\ UNCHANGED <<now, ledger, orgQuota, cache, check>>

SetOrgQuota(n) ==
    /\ n # orgQuota /\ orgQuota' = n
    /\ Reallocated(Org, n)
    /\ UNCHANGED <<now, ledger, userQuota, cache, check>>

Prompt == \A q \in Requests :
    check[q].pc \in {"fill user", "fill org"} => now - check[q].at < Delay

\* Time passes, and Redis drops the entries that expire.
Tick ==
    /\ now < MaxTime /\ Prompt /\ now' = now + 1
    /\ cache' = [k \in Keys |-> IF cache[k].until <= now' THEN NoEntry ELSE cache[k]]
    /\ UNCHANGED <<ledger, userQuota, orgQuota, check, full>>

Next ==
    \/ \E q \in Requests : \/ \E u \in Users : Open(q, u)
                           \/ \E scope \in {"user", "org"} : Cached(q, scope) \/ Fill(q, scope)
                           \/ Decide(q) \/ Record(q)
    \/ \E n \in Limits : SetOrgQuota(n) \/ \E u \in Users : SetUserQuota(u, n)
    \/ Tick

Spec == Init /\ [][Next]_quotaVars

-----------------------------------------------------------------------------
KeysOf(q) == {<<check[q].user, check[q].period>>, <<Org, check[q].period>>}
Admits(q) == check[q].pc = "decide" /\ check'[q].pc = "answering"
Refuses(q) == check[q].pc = "decide" /\ check'[q].pc = "idle"

\* A burst overshoots by one cache window: no turn is admitted whose check
\* began a cache lifetime (and the time a fill may take) after its user's or
\* its organization's total had reached the allocation.  And nobody is refused
\* who has tokens left: when a check refuses, the ledger holds as much as the
\* allocation it compared with, whichever period the cached total was taken
\* in.  check_quota, _cached_sum.
AllocationsHold ==
    [][\A q \in Requests :
          /\ Admits(q) =>
              \A k \in KeysOf(q) : ~(full[k] + TTL + Delay <= check[q].opened)
          /\ Refuses(q) =>
              \/ Total(ledger, <<check[q].user, check[q].period>>) >= userQuota[check[q].user]
              \/ Total(ledger, <<Org, check[q].period>>) >= check[q].limit]_quotaVars
=============================================================================
