----------------------------- MODULE MCAccounts -----------------------------
(***************************************************************************)
(* The modules about who may sign in, with what role and how much they may *)
(* spend, on small instances.  They share no state, so one run takes them  *)
(* side by side: focus is the module whose actions a behaviour takes, and  *)
(* the variables of the others keep their initial values.  The module      *)
(* Sessions is the one that is extended.                                   *)
(***************************************************************************)
EXTENDS Sessions, TLC

CONSTANTS q1, q2, e1, e2, id1, u1, f1, read, write

VARIABLES
    focus,
    user, platform, invites, links, lock, task,               \* Accounts
    template, snapshots, holds, job,                          \* Roles
    login, stored, lapsed, spent, issued, calls, ended, cut,  \* DeviceLogin
    member, person, key, hour, asking, lost, raced, changes,        \* Principals
    sso, state, cookie, browsing, org, holder, signIns, claimed, edits, \* SignOn
    rows, manages, halfDay,                                   \* Ledger
    row, patch, deployed, sync, owed, events, designated, blurred,  \* Registry
    override, fallback, vkey, cap, errand, unlooked,          \* Budgets
    sdk, listing, published, table, batches, refresh, hours   \* Catalog

accountVars == <<user, platform, invites, links, lock, task>>
roleVars == <<template, snapshots, holds, job>>
deviceVars == <<login, stored, lapsed, spent, issued, calls, ended, cut>>
principalVars == <<member, person, key, hour, asking, lost, raced, changes>>
signOnVars == <<sso, state, cookie, browsing, org, holder, signIns, claimed, edits>>
ledgerVars == <<rows, manages, halfDay>>
registryVars == <<row, patch, deployed, sync, owed, events, designated, blurred>>
budgetVars == <<override, fallback, vkey, cap, errand, unlooked>>
catalogVars == <<sdk, listing, published, table, batches, refresh, hours>>
accessVars == <<focus, sessionVars, accountVars, roleVars, deviceVars,
          principalVars, signOnVars, ledgerVars, registryVars, budgetVars, catalogVars>>

Account == INSTANCE Accounts
    WITH Emails <- {e1, e2}, Identities <- {id1}, MaxLinks <- 2, MaxInvites <- 2
Role == INSTANCE Roles
    WITH Permissions <- {read, write}, Holders <- {u1}, MaxVersion <- 4
Device == INSTANCE DeviceLogin
    WITH Clients <- Requests, MaxLogins <- 2, MaxRotations <- 3

\* Credentials of one member, and the members of a workspace.
Credential == INSTANCE Principals
    WITH user <- person, clock <- hour, req <- asking,
         Users <- {"ann"}, Keys <- {"k1", "k2"}, Requests <- {"r1"}, Prefixes <- {"x", "y"},
         Templates <- {"reader"}, Granting <- {}, MaxLifetime <- 1, MaxChanges <- 2, MaxTime <- 2
Membership == INSTANCE Principals
    WITH user <- person, clock <- hour, req <- asking,
         Users <- {"ann", "bob"}, Keys <- {}, Requests <- {"r1", "r2"}, Prefixes <- {},
         Templates <- {}, Granting <- {}, MaxLifetime <- 1, MaxChanges <- 2, MaxTime <- 0

\* Two browsers at one login, and two organizations at one domain.
Pairs == {<<"issuerA", "clientA">>, <<"issuerB", "clientB">>}
Browsing == INSTANCE SignOn
    WITH settings <- sso, login <- state, task <- browsing, user <- holder, sessions <- signIns,
         raced <- claimed, Requests <- {"r1", "r2"}, Browsers <- {"b1", "b2"}, People <- {"ann"}, Orgs <- {"o1"},
         Logins <- {"l1"}, MaxEdits <- 2
Claim == INSTANCE SignOn
    WITH settings <- sso, login <- state, task <- browsing, user <- holder, sessions <- signIns,
         raced <- claimed, Requests <- {"r1"}, Browsers <- {"b1"}, People <- {"ann"}, Orgs <- {"o1", "o2"},
         Logins <- {"l1"}, MaxEdits <- 2

\* Two members of one organization, one of them a manager at most, and one of another.
Usage == INSTANCE Ledger
    WITH now <- halfDay, OrgOf <- [ann |-> "o1", bob |-> "o1", cam |-> "o2"],
         OrgOfWorkspace <- [w1 |-> "o1"],
         Amount <- [chat |-> [prompt |-> 2, completion |-> 1, units |-> 0],
                    rerank |-> [prompt |-> 0, completion |-> 0, units |-> 1]],
         PerCall <- [rerank |-> 5], NameOf <- [m1 |-> "p/x", m2 |-> "p/y"], Used <- {"m2", "gone"},
         Exact <- ("p/x" :> 1), Alias <- ("p/y" :> 2), Subscription <- {},
         Callers <- {[user |-> "ann", role |-> "user", custom |-> {"self", "department"}],
                     [user |-> "bob", role |-> "admin", custom |-> {}],
                     [user |-> "cam", role |-> "superadmin", custom |-> {}]},
         Windows <- {1}, MaxRows <- 2, MaxTime <- 3

\* Two replays side by side, and two requests that make models the utility model.
Replaying == INSTANCE Registry
    WITH req <- patch, Models <- {"a", "b"}, Chat <- {"a", "b"}, Native <- {}, InUse <- {},
         Requests <- {"p"}, Syncs <- Requests, MaxEvents <- 2, MaxDeployed <- 2
Designating == INSTANCE Registry
    WITH req <- patch, Models <- {"a", "b", "tei"}, Chat <- {"a", "b"}, Native <- {"tei"},
         InUse <- {"tei"}, Syncs <- {}, MaxEvents <- 4, MaxDeployed <- 3

\* Two members of an organization and two requests about what they may spend.
Budget == INSTANCE Budgets
    WITH userQuota <- override, default <- fallback, secret <- vkey, budget <- cap,
         task <- errand, stale <- unlooked,
         Users <- {"ann", "bob"}, Limits <- {1}, Priced <- TRUE, MaxKeys <- 2

\* Registries of one and two entries that share a name in every way there is, and
\* two refreshes side by side.
Entry(name, provider, price) == [name |-> name, provider |-> provider, price |-> price]
Sold == {<<<<"m">>, "openai">>, <<<<"openai", "m">>, "openai">>, <<<<"ollama", "m">>, "ollama">>,
         <<<<"m">>, "groq">>, <<<<"groq", "m">>, "groq">>, <<<<"chatgpt", "m">>, "chatgpt">>,
         <<<<"m">>, "vertex_ai-text">>, <<<<"vertex_ai", "m">>, "vertex_ai-text">>,
         <<<<"azure", "m">>, "azure-new">>}
Offers == {Entry(k[1], k[2], price) : k \in Sold, price \in 1..2}
Shipped == <<Entry(<<"m">>, "openai", 1)>>
Transports == {"openai", "ollama", "groq", "vertex_ai", "chatgpt", "azure"}
Selling == INSTANCE Catalog
    WITH now <- hours, Snapshot <- Shipped, Plain <- {"openai", "ollama"},
         Pricing <- ("vertex_ai-text" :> "vertex_ai"), Longest <- ("azure-new" :> "azure"),
         Registries <- {<<x>> : x \in Offers} \union {s \in Offers \X Offers : s[1].name # s[2].name},
         Listings <- SUBSET {<<"openai", <<"m">>>>, <<"groq", <<"m">>>>, <<"groq", <<"groq", "m">>>>,
                             <<"chatgpt", <<"m">>>>},
         Requests <- {"r1"}, Cache <- 2, MaxBatches <- 1, MaxTime <- 0
Refreshing == INSTANCE Catalog
    WITH now <- hours, Snapshot <- Shipped, Plain <- {"openai", "ollama"},
         Pricing <- ("vertex_ai-text" :> "vertex_ai"), Longest <- ("azure-new" :> "azure"),
         Registries <- {<<>>, Shipped,
                        <<Entry(<<"m">>, "openai", 2), Entry(<<"groq", "m">>, "groq", 1)>>},
         Listings <- {{}}, Requests <- {"r1", "r2"}, Cache <- 2, MaxBatches <- 3, MaxTime <- 2

Modules == {"sessions", "accounts", "roles", "device", "credentials",
            "members", "browsers", "claims", "ledger", "replays",
            "designations", "budgets", "prices", "refreshes"}

\* What a module starts with is fixed while another one has the focus.
AccountsInit ==
    /\ focus \in Modules
    /\ (focus \notin {"browsers", "claims"} => sso = <<"issuerA", "clientA">>)
    /\ manages \in {{}, {<<"ann", "w1">>}} /\ (focus # "ledger" => manages = {}) /\ Usage!Init
    /\ IF focus = "designations" THEN Designating!Init ELSE Replaying!Init
    /\ (focus \notin {"replays", "designations"} => row["a"].state = "new" /\ row["b"].state = "new")
    /\ Budget!Init /\ Init /\ Account!Init /\ Role!Init /\ Device!Init
    /\ (focus # "roles" => template.permissions = read)
    /\ IF focus = "members" THEN Membership!Init /\ member["ann"] # "none"
       ELSE Credential!Init /\ member = [u \in {"ann"} |-> "viewer"]
    /\ IF focus = "prices" THEN Selling!Init /\ published = sdk
       ELSE Refreshing!Init /\ sdk = <<>> /\ (focus # "refreshes" => published = <<>>)
    /\ IF focus = "claims" THEN Claim!Init ELSE Browsing!Init

\* What a patch reads while a replay runs makes no difference to the replay.
ReplayNext ==
    /\ Replaying!Next
    /\ patch["p"].pc = "loaded" => \E q \in {"p"} : Replaying!PatchCommit(q)

AccountsNext ==
    \/ /\ focus = "sessions" /\ Next
       /\ UNCHANGED <<focus, accountVars, roleVars, deviceVars, principalVars, signOnVars, ledgerVars, registryVars, budgetVars, catalogVars>>
    \/ /\ focus = "accounts" /\ Account!Next
       /\ UNCHANGED <<focus, sessionVars, roleVars, deviceVars, principalVars, signOnVars, ledgerVars, registryVars, budgetVars, catalogVars>>
    \/ /\ focus = "roles" /\ Role!Next
       /\ UNCHANGED <<focus, sessionVars, accountVars, deviceVars, principalVars, signOnVars, ledgerVars, registryVars, budgetVars, catalogVars>>
    \/ /\ focus = "device" /\ Device!Next
       /\ UNCHANGED <<focus, sessionVars, accountVars, roleVars, principalVars, signOnVars, ledgerVars, registryVars, budgetVars, catalogVars>>
    \/ /\ \/ focus = "credentials" /\ Credential!Next
          \/ focus = "members" /\ Membership!Next
       /\ UNCHANGED <<focus, sessionVars, accountVars, roleVars, deviceVars, signOnVars, ledgerVars, registryVars, budgetVars, catalogVars>>
    \/ /\ \/ focus = "browsers" /\ Browsing!Next
          \/ focus = "claims" /\ Claim!Next
       /\ UNCHANGED <<focus, sessionVars, accountVars, roleVars, deviceVars, principalVars, ledgerVars, registryVars, budgetVars, catalogVars>>
    \/ /\ focus = "ledger" /\ Usage!Next
       /\ UNCHANGED <<focus, sessionVars, accountVars, roleVars, deviceVars, principalVars, signOnVars, registryVars, budgetVars, catalogVars>>
    \/ /\ \/ focus = "replays" /\ ReplayNext
          \/ focus = "designations" /\ Designating!Next
       /\ UNCHANGED <<focus, sessionVars, accountVars, roleVars, deviceVars, principalVars, signOnVars, ledgerVars, budgetVars, catalogVars>>
    \/ /\ focus = "budgets" /\ Budget!Next
       /\ UNCHANGED <<focus, sessionVars, accountVars, roleVars, deviceVars, principalVars, signOnVars, ledgerVars, registryVars, catalogVars>>
    \/ /\ \/ focus = "prices" /\ Selling!Next /\ published' = published
          \/ focus = "refreshes" /\ Refreshing!Next
       /\ UNCHANGED <<focus, sessionVars, accountVars, roleVars, deviceVars, principalVars, signOnVars, ledgerVars, registryVars, budgetVars>>

AccountsSpec == AccountsInit /\ [][AccountsNext]_accessVars

Symmetry == Permutations(Requests) \union Permutations({e1, e2})

-----------------------------------------------------------------------------
\* The variables of every module have their types.
Types ==
    /\ TypeOK
    /\ focus = "accounts" => Account!TypeOK
    /\ focus = "roles" => Role!TypeOK
    /\ focus = "device" => Device!TypeOK
    /\ focus = "credentials" => Credential!TypeOK
    /\ focus = "members" => Membership!TypeOK
    /\ focus = "browsers" => Browsing!TypeOK
    /\ focus = "claims" => Claim!TypeOK
    /\ focus = "ledger" => Usage!TypeOK
    /\ focus = "replays" => Replaying!TypeOK
    /\ focus = "designations" => Designating!TypeOK
    /\ focus = "budgets" => Budget!TypeOK
    /\ focus = "prices" => Selling!TypeOK
    /\ focus = "refreshes" => Refreshing!TypeOK

\* Accounts: the first-run registration makes one superadmin, and an invitation
\* and a reset link work once.
SpentOnce == focus = "accounts" => Account!OneSuperadmin /\ Account!SpentOnce

\* Ledger: however a report is grouped, and whichever view is asked, the rows add
\* up to the same tokens and cost.  Catalog, where their prices come from: the table
\* is one refresh's, and a model is charged what the picker shows.
ViewsAgree ==
    /\ focus = "ledger" => Usage!ViewsAgree
    /\ focus = "prices" => Selling!PricesHold
    /\ focus = "refreshes" => Refreshing!PricesHold

\* Roles: a rollback restores the version before the current one.
RollbackRestores == Role!RollbackRestores

\* DeviceLogin: a cancelled or disconnected sign-in leaves no credential, and the
\* refresh token on file is the last one issued.
CredentialIsLatest == focus = "device" => Device!CredentialIsLatest

\* Principals: a request is served only on what held since it began, and the last
\* owner of a workspace goes only when its test was overtaken.
RevocationIsComplete ==
    /\ [](/\ focus = "credentials" => Credential!Entitled
          /\ focus = "members" => Membership!Entitled)
    /\ [][/\ focus = "credentials" => Credential!OwnerKept
          /\ focus = "members" => Membership!OwnerKept]_principalVars

\* SignOn: a login signs in once, in its browser, with one configuration.
SignsInOnce ==
    /\ focus = "browsers" => Browsing!SignsInOnce
    /\ focus = "claims" => Claim!SignsInOnce

\* Registry: rows that say synced are deployed as they are, and one model at most
\* is the utility model.
RegistryHolds ==
    /\ focus = "replays" => Replaying!RegistryHolds
    /\ focus = "designations" => Designating!RegistryHolds

\* Budgets: at rest the gateway allows a member what the member is allocated, but
\* for the cases that nobody looks after.
BudgetsFollow == focus = "budgets" => Budget!BudgetsFollow
=============================================================================
