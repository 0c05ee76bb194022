------------------------------ MODULE Catalog -------------------------------
(***************************************************************************)
(* Model names and their prices, kept twice: the picker shows the registry *)
(* of the installed LiteLLM, and the reports charge by a table that is     *)
(* refreshed from the published one, or filled from the snapshot that is   *)
(* shipped.  A name is a sequence of segments; a registry is a sequence of *)
(* entries with different names.                                           *)
(***************************************************************************)
EXTENDS Naturals, Sequences, SequencesExt, FiniteSets, FiniteSetsExt

CONSTANTS
    Registries,   \* what is installed or published; an unusable one is empty
    Snapshot,     \* shipped, and never empty
    Listings,     \* models_by_provider: sets of <<provider, name>>
    Transports,   \* provider_list
    Plain,        \* openai, ollama and self-hosted: their models carry no prefix
    Pricing,      \* _pricing_provider of a pricing group
    Longest,      \* the transport whose name such a group continues
    Requests, Cache, MaxBatches, MaxTime

VARIABLES
    sdk, listing,  \* the installed registry
    published,     \* the remote one
    table,         \* model_catalog: entries with the batch they came in
    batches,       \* replacements that were committed
    refresh,       \* refresh_catalog, per request
    now

catalogVars == <<sdk, listing, published, table, batches, refresh, now>>

None == 0
Idle == [pc |-> "idle", had |-> FALSE, data |-> <<>>, source |-> "remote", cleared |-> {},
         began |-> 0]

TypeOK ==
    /\ sdk \in Registries /\ listing \in Listings /\ published \in Registries
    /\ \A x \in table : x.batch \in DOMAIN batches
    /\ Len(batches) <= MaxBatches /\ now \in 0..MaxTime
    /\ \A r \in Requests : refresh[r].pc \in {"idle", "fetching", "fetched", "replacing"}

Init ==
    /\ sdk \in Registries /\ listing \in Listings /\ published \in Registries
    /\ table = {} /\ batches = <<>> /\ refresh = [r \in Requests |-> Idle] /\ now = 0

-----------------------------------------------------------------------------
(* The table. *)

Set(r, new) == refresh' = [refresh EXCEPT ![r] = new]

\* LiteLLM publishes another registry, or the address answers with something else.
Publish(registry) ==
    /\ published' = registry
    /\ UNCHANGED <<sdk, listing, table, batches, refresh, now>>

Fresh == table # {} /\ now - Max({batches[x.batch].at : x \in table}) < Cache

\* The daily task, or an administrator, who does not wait for the cache to age.
Refresh(r, force) ==
    /\ refresh[r].pc = "idle" /\ Len(batches) < MaxBatches
    /\ force \/ ~Fresh
    /\ Set(r, [Idle EXCEPT !.pc = "fetching", !.had = table # {}, !.began = Len(batches)])
    /\ UNCHANGED <<sdk, listing, published, table, batches, now>>

\* Mutant: the answer replaces the rows whatever it holds.
ReplacedByAny(r, data) ==
    Set(r, [refresh[r] EXCEPT !.pc = "fetched", !.data = data])

\* Rows that were there are kept over an answer without usable rows.
Answer(r, data) ==
    IF data # <<>> THEN Set(r, [refresh[r] EXCEPT !.pc = "fetched", !.data = data])
    ELSE IF refresh[r].had THEN Set(r, Idle)
    ELSE Set(r, [refresh[r] EXCEPT !.pc = "fetched", !.data = Snapshot, !.source = "snapshot"])

\* The fetch, which may fail or be turned off.
Fetch(r) ==
    /\ refresh[r].pc = "fetching"
    /\ \E data \in {published, <<>>} : Answer(r, data)
    /\ UNCHANGED <<sdk, listing, published, table, batches, now>>

\* DELETE takes the rows committed before the statement; of two that take the same
\* rows one waits for the other's commit.
Clear(r) ==
    /\ refresh[r].pc = "fetched"
    /\ Set(r, [refresh[r] EXCEPT !.pc = "replacing", !.cleared = {x.batch : x \in table}])
    /\ UNCHANGED <<sdk, listing, published, table, batches, now>>

Rows(data, batch) ==
    {[name |-> e.name, provider |-> e.provider, price |-> e.price, batch |-> batch] : e \in Range(data)}

\* The rows are inserted, which fails on a name that another refresh has inserted
\* since, and everything is committed.
Commit(r) ==
    LET kept == {x \in table : x.batch \notin refresh[r].cleared}
        new == Rows(refresh[r].data, Len(batches) + 1)
        clash == \E x \in kept, y \in new : x.name = y.name
    IN  /\ refresh[r].pc = "replacing" /\ Len(batches) < MaxBatches
        /\ Set(r, Idle)
        /\ IF clash THEN UNCHANGED <<table, batches>>
           ELSE /\ table' = kept \union new
                /\ batches' = Append(batches, [source |-> refresh[r].source, at |-> now,
                                               began |-> refresh[r].began])
        /\ UNCHANGED <<sdk, listing, published, now>>

\* The process dies or the database refuses: what was not committed is rolled back.
Fail(r) ==
    /\ refresh[r].pc # "idle" /\ Set(r, Idle)
    /\ UNCHANGED <<sdk, listing, published, table, batches, now>>

Tick ==
    /\ now < MaxTime /\ now' = now + 1
    /\ UNCHANGED <<sdk, listing, published, table, batches, refresh>>

Next ==
    \/ \E r \in Requests :
        \/ \E force \in BOOLEAN : Refresh(r, force)
        \/ Fetch(r) \/ Clear(r) \/ Commit(r) \/ Fail(r)
    \/ \E registry \in Registries : Publish(registry)
    \/ Tick

Spec == Init /\ [][Next]_catalogVars

-----------------------------------------------------------------------------
(* Names. *)

\* Ragz adds the prefix of a plain provider itself.
Bare(name, p) == IF Len(name) > 1 /\ Head(name) = p THEN Tail(name) ELSE name
Canonical(name, p) == IF p \in Plain THEN Bare(name, p) ELSE <<p>> \o Bare(name, p)

PricingProvider(p) == IF p \in DOMAIN Pricing THEN Pricing[p] ELSE p
Owner(p) ==
    IF PricingProvider(p) \in Transports THEN PricingProvider(p)
    ELSE IF p \in DOMAIN Longest THEN Longest[p] ELSE p

-----------------------------------------------------------------------------
(* The picker: build_catalog. *)

KeyOf(e) == <<Owner(e.provider), Canonical(e.name, Owner(e.provider))>>
Priced == {i \in DOMAIN sdk : Owner(sdk[i].provider) \in Transports}

\* Mutant: the first entry with the name, whoever owns it.
CandidatesOfAnyone(p, name) ==
    {i \in DOMAIN sdk : sdk[i].name \in {<<p>> \o name, name, Bare(name, p)}}

\* Entries for a listed name; another provider's price is never borrowed.
Candidates(p, name) ==
    {i \in DOMAIN sdk : /\ sdk[i].name \in {<<p>> \o name, name, Bare(name, p)}
                        /\ Owner(sdk[i].provider) = p}

ListedKey(l) == <<Owner(l[1]), Canonical(l[2], Owner(l[1]))>>
Listed == {ListedKey(l) : l \in listing}
Names == Listed \union {KeyOf(sdk[i]) : i \in Priced}

\* The last entry of the registry for a name, or else what a listed name led to.
Entries(k) ==
    LET own == {i \in Priced : KeyOf(sdk[i]) = k}
    IN  IF own # {} THEN {Max(own)}
        ELSE UNION {Candidates(k[1], l[2]) : l \in {l \in listing : ListedKey(l) = k}}

\* What the picker may show; a subscription has no price.
Shown(k) ==
    IF k[1] = "chatgpt" \/ Entries(k) = {} THEN {None} ELSE {sdk[i].price : i \in Entries(k)}

-----------------------------------------------------------------------------
(* The reports: _price_map. *)

AliasOf(x) == Canonical(x.name, PricingProvider(x.provider))

\* The price of a registered name by the exact row, or by an alias of one.
Charged(name) ==
    LET exact == {x \in table : x.name = name}
        rows == IF exact # {} THEN exact ELSE {x \in table : AliasOf(x) = name}
    IN  IF Head(name) = "chatgpt" \/ rows = {} THEN {None} ELSE {x.price : x \in rows}

-----------------------------------------------------------------------------
\* The entries that could give a name its price, in the picker or in the reports.
Claims(name) ==
    {i \in DOMAIN sdk : name \in {sdk[i].name, Canonical(sdk[i].name, Owner(sdk[i].provider)),
                                  Canonical(sdk[i].name, PricingProvider(sdk[i].provider))}}
\* Names whose price nobody else claims, of a group that both sides know.
Unshared(k) ==
    /\ Cardinality(Claims(k[2])) <= 1
    /\ \A i \in Claims(k[2]) : /\ KeyOf(sdk[i])[1] = k[1]
                               /\ PricingProvider(sdk[i].provider) = Owner(sdk[i].provider)
SameRegistry ==
    {[name |-> x.name, provider |-> x.provider, price |-> x.price] : x \in table} = Range(sdk)

\* The table is what one refresh left and is never emptied, however refreshes
\* overlap and whatever the address answers, and the snapshot is taken by a refresh
\* that found no rows.  The picker shows a price of the model's own provider, a
\* subscription has none, and the reports charge what it shows, unless two entries
\* claim the name.  refresh_catalog, build_catalog, _price_map.
PricesHold ==
    /\ Cardinality({x.batch : x \in table}) <= 1
    /\ batches # <<>> => table # {}
    /\ \A x \in table : batches[x.batch].source = "snapshot" => batches[x.batch].began = 0
    /\ \A k \in Names :
        /\ Shown(k) # {None} => \E i \in DOMAIN sdk : KeyOf(sdk[i]) = k /\ Shown(k) = {sdk[i].price}
        /\ SameRegistry /\ Unshared(k) => Charged(k[2]) = Shown(k)
=============================================================================
