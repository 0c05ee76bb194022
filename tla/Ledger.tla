------------------------------- MODULE Ledger -------------------------------
(***************************************************************************)
(* What is read from the usage ledger: the scoped reports with estimated   *)
(* cost, a member's daily meter, an organization's summary and the         *)
(* platform's totals.  Rows are only ever added; every view is a query     *)
(* over them, with a window and a way of grouping of its own.              *)
(*                                                                         *)
(* Time is in half days, so that a window that starts at midnight and one  *)
(* that starts as many days before now differ.                             *)
(***************************************************************************)
EXTENDS Integers, FiniteSets, FiniteSetsExt, Sequences

CONSTANTS
    OrgOf,          \* users and their organization
    OrgOfWorkspace, \* workspaces and theirs
    Amount,       \* feature: [prompt, completion, units] of one call
    PerCall,      \* PER_CALL_FEATURES and their rate
    NameOf,       \* registered models: litellm_model_name
    Used,         \* models rows may name, deleted ones included
    Exact, Alias, \* model_catalog rates by name, and by provider and name
    Subscription, \* models whose name starts with chatgpt/
    Callers,      \* [user, role, custom]: actions of a custom role
    Windows,      \* days a caller may ask for
    MaxRows, MaxTime

VARIABLES
    rows,      \* usage_records, in the order of created_at
    manages,   \* owner and manager memberships: <<user, workspace>>
    now

ledgerVars == <<rows, manages, now>>

People == DOMAIN OrgOf
Workspaces == DOMAIN OrgOfWorkspace
Members == {p \in People \X Workspaces : OrgOf[p[1]] = OrgOfWorkspace[p[2]]}
Features == DOMAIN Amount
None == "none"
Scopes == {"self", "department", "org", "platform"}
GroupBys == {"day", "user", "workspace", "feature", "model"}

TypeOK ==
    /\ \A i \in DOMAIN rows :
          rows[i] \in [user : People, workspace : Workspaces \union {None}, feature : Features,
                       model : Used \union {None}, at : 0..MaxTime]
    /\ Len(rows) <= MaxRows /\ now \in 0..MaxTime
    /\ manages \subseteq Members

Init == rows = <<>> /\ manages \in SUBSET Members /\ now = 0

\* record_usage: a feature that is paid by the call names no priced model.
RecordUsage(u, w, f, m) ==
    /\ Len(rows) < MaxRows /\ (f \in DOMAIN PerCall => m = None)
    /\ w = None \/ <<u, w>> \in Members
    /\ rows' = Append(rows, [user |-> u, workspace |-> w, feature |-> f, model |-> m, at |-> now])
    /\ UNCHANGED <<manages, now>>

Tick == now < MaxTime /\ now' = now + 1 /\ UNCHANGED <<rows, manages>>

Next ==
    \/ \E u \in People, w \in Workspaces \union {None}, f \in Features, m \in Used \union {None} :
          RecordUsage(u, w, f, m)
    \/ Tick

Spec == Init /\ [][Next]_ledgerVars

-----------------------------------------------------------------------------
(* Prices. *)

\* _price_map: the exact name first; no rate for a subscription, for a name the
\* catalog does not have, and for a model that is no longer registered.
Price(m) ==
    IF m \notin DOMAIN NameOf \/ m \in Subscription THEN 0
    ELSE IF NameOf[m] \in DOMAIN Exact THEN Exact[NameOf[m]]
    ELSE IF NameOf[m] \in DOMAIN Alias THEN Alias[NameOf[m]] ELSE 0

\* estimate_cost, for one rate of both kinds of tokens.
EstimateCost(f, m, tokens, units) ==
    IF f \in DOMAIN PerCall THEN units * PerCall[f] ELSE tokens * Price(m)

-----------------------------------------------------------------------------
(* Reports. *)

Org(i) == OrgOf[rows[i].user]
Day(t) == t \div 2
Midnight(days) == 2 * (Day(now) + 1 - days)     \* of the first day of a window
Prompt(is) == MapThenSumSet(LAMBDA i : Amount[rows[i].feature].prompt, is)
Completion(is) == MapThenSumSet(LAMBDA i : Amount[rows[i].feature].completion, is)
Units(is) == MapThenSumSet(LAMBDA i : Amount[rows[i].feature].units, is)
Tokens(is) == Prompt(is) + Completion(is)

\* build_context_for_user: an administrator holds every reporting action.
Actions(c) == IF c.role = "user" THEN c.custom ELSE Scopes

\* _require_scope, after the floor that every report asks for.
Allowed(c, scope) ==
    /\ c.role = "superadmin" \/ "self" \in Actions(c)
    /\ c.role = "superadmin" \/ (scope # "platform" /\ scope \in Actions(c))

\* _scope_filters
InScope(c, scope, i) ==
    CASE scope = "self" -> rows[i].user = c.user /\ Org(i) = OrgOf[c.user]
      [] scope = "department" -> Org(i) = OrgOf[c.user] /\ <<c.user, rows[i].workspace>> \in manages
      [] scope = "org" -> Org(i) = OrgOf[c.user]
      [] scope = "platform" -> TRUE

Visible(c, scope, days) ==
    {i \in DOMAIN rows : rows[i].at >= Midnight(days) /\ InScope(c, scope, i)}

\* _group_column, _group_str; a row without the key is "unattributed".
Key(g, i) == IF g = "day" THEN Day(rows[i].at) ELSE rows[i][g]

\* usage_report: the rows of a group by feature and model, each part priced.
UsageReport(is, g) ==
    LET group(k) == {i \in is : Key(g, i) = k}
        parts(k) == {<<rows[i].feature, rows[i].model>> : i \in group(k)}
        part(k, p) == {i \in group(k) : <<rows[i].feature, rows[i].model>> = p}
    IN  [k \in {Key(g, i) : i \in is} |->
            [prompt |-> Prompt(group(k)), completion |-> Completion(group(k)),
             units |-> Units(group(k)),
             cost |-> MapThenSumSet(LAMBDA p : EstimateCost(p[1], p[2], Tokens(part(k, p)),
                                                            Units(part(k, p))), parts(k))]]

-----------------------------------------------------------------------------
(* The other views. *)

\* daily_usage: a point for every day of the window.
DailyUsage(u, days) ==
    LET from == IF Day(now) + 1 >= days THEN Day(now) + 1 - days ELSE 0
        on(d) == {i \in DOMAIN rows : rows[i].user = u /\ Day(rows[i].at) = d}
    IN  [d \in from..Day(now) |-> [prompt |-> Prompt(on(d)), completion |-> Completion(on(d))]]

\* org_usage_summary: as many days before now.  Its list of users is cut after the
\* ten with the most tokens; the instances have fewer.
Since(o, days) == {i \in DOMAIN rows : Org(i) = o /\ rows[i].at + 2 * days >= now}
ByDay(is) == [d \in {Day(rows[i].at) : i \in is} |-> Tokens({i \in is : Day(rows[i].at) = d})]
ByModel(is) == [m \in {rows[i].model : i \in is} |-> Tokens({i \in is : rows[i].model = m})]
ByUser(is) == [u \in {rows[i].user : i \in is} |-> Tokens({i \in is : rows[i].user = u})]

\* Mutant: an inner join with the registry.
JoinedRegistered(is) == {i \in is : rows[i].model \in DOMAIN NameOf}

\* The outer join with the registry keeps every row.
Joined(is) == is
NameIn(i) == IF rows[i].model \in DOMAIN NameOf THEN NameOf[rows[i].model] ELSE None
TokensByModelDay(is) ==
    LET keyOf(i) == <<Day(rows[i].at), NameIn(i)>>
    IN  [k \in {keyOf(i) : i \in Joined(is)} |-> Tokens({i \in Joined(is) : keyOf(i) = k})]

OrgUsageSummary(o, days) ==
    LET is == Since(o, days)
    IN  [byDay |-> ByDay(is), byModel |-> ByModel(is), byUser |-> ByUser(is),
         byModelDay |-> TokensByModelDay(is), queries |-> Cardinality(is),
         total |-> Tokens(is), active |-> Cardinality({rows[i].user : i \in is})]

\* platform_usage_by_org: an organization without rows is not listed.
PlatformUsage(days) ==
    LET os == {o \in {OrgOf[u] : u \in People} : Since(o, days) # {}}
    IN  [o \in os |-> Tokens(Since(o, days))]

-----------------------------------------------------------------------------
Total(f) == MapThenSumSet(LAMBDA k : f[k], DOMAIN f)
Charge(i) ==
    EstimateCost(rows[i].feature, rows[i].model, Tokens({i}), Units({i}))

ReportsAdd(c, scope, days) ==
    LET is == Visible(c, scope, days)
    IN  /\ \A g \in GroupBys :
              LET r == UsageReport(is, g)
              IN  /\ Total([k \in DOMAIN r |-> r[k].prompt + r[k].completion]) = Tokens(is)
                  /\ Total([k \in DOMAIN r |-> r[k].units]) = Units(is)
                  /\ Total([k \in DOMAIN r |-> r[k].cost]) = MapThenSumSet(Charge, is)
        /\ c.role # "superadmin" => \A i \in is : Org(i) = OrgOf[c.user]
        /\ scope = "self" =>
              LET d == DailyUsage(c.user, days)
              IN  Total([k \in DOMAIN d |-> d[k].prompt + d[k].completion]) = Tokens(is)
        /\ scope = "org" =>
              Tokens(is) <= OrgUsageSummary(OrgOf[c.user], days).total

SummaryAdds(o, days) ==
    LET s == OrgUsageSummary(o, days)
    IN  /\ Total(s.byDay) = s.total /\ Total(s.byModel) = s.total
        /\ Total(s.byUser) = s.total /\ Total(s.byModelDay) = s.total
        /\ s.active <= s.queries
        /\ s.queries > 0 => PlatformUsage(days)[o] = s.total

\* One ledger, one total: however a report is grouped its groups add up to the
\* rows its caller may see, call by call priced; only a superadmin's report
\* holds rows of another organization; a member's meter agrees with the
\* member's own report; an organization's summary, whose window reaches further
\* back than a report's of as many days, holds the report's tokens, every part
\* of it adds up to its own total, and the platform's table shows that total.
\* usage_report, daily_usage, org_usage_summary, platform_usage_by_org.
ViewsAgree ==
    \A days \in Windows :
        /\ \A c \in Callers, scope \in Scopes : Allowed(c, scope) => ReportsAdd(c, scope, days)
        /\ \A o \in {OrgOf[u] : u \in People} : SummaryAdds(o, days)
=============================================================================
