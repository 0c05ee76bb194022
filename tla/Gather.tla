------------------------------- MODULE Gather -------------------------------
(***************************************************************************)
(* run_agent_gather and execute_tool: the bounded loop in which a planner  *)
(* picks tools for one turn, and the gates before a search leaves for a    *)
(* web provider (consent, the turn's budget, the daily caps in Redis).     *)
(*                                                                         *)
(* A daily cap is peeked before the search and recorded after it, each in  *)
(* a call of its own, so turns of one user overlap between the two.  The   *)
(* counters carry the day in their keys.                                   *)
(*                                                                         *)
(* Of the excerpts only whether any cleared the threshold is kept, of the  *)
(* web results whether an address is known as a fetched page or only as a  *)
(* line of a synthesis's bibliography.                                     *)
(***************************************************************************)
EXTENDS Naturals, Sequences, FiniteSets

CONSTANTS
    Turns,
    UserOf,          \* the user of each turn; all belong to one organization
    Org,
    Limit,           \* the cap of each counter, 0 for none
    Budget,          \* web_search_max_calls_per_turn
    MaxIterations,   \* AGENT_MAX_ITERATIONS
    Urls,
    Home,            \* the address a synthesis is attributed to
    MaxDay           \* bound: days

Counters == {UserOf[t] : t \in Turns} \union {Org}

VARIABLES
    settings,   \* the provider and the keys an administrator stored
    today,
    count,      \* Redis: web_search_day:<counter>:<day>
    gather      \* the turns

vars == <<settings, today, count, gather>>

Providers == {"duckduckgo", "tavily", "perplexity"}
Keyed == {"tavily", "perplexity"}
DocumentTools == {"search", "search_by_metadata", "get_document"}
WebTools == {"web_search", "web_research"}

\* The counters a search passes, in their order; a cap of 0 is no cap.
Capped(c) == IF Limit[c] > 0 THEN <<c>> ELSE <<>>
Gates(t) == Capped(UserOf[t]) \o Capped(Org)

Fresh == [pc |-> "idle", searcher |-> "none", researcher |-> "none", consent |-> FALSE,
          forced |-> FALSE, n |-> 0, tool |-> "answer", gate |-> 1, calls |-> 0,
          grounded |-> FALSE, answered |-> FALSE, pages |-> [u \in Urls |-> "none"],
          fetched |-> {}]

TypeOK ==
    /\ settings \in [provider : Providers, keys : SUBSET Keyed]
    /\ today \in 1..MaxDay
    /\ count \in [Counters \X (1..MaxDay) -> Nat]
    /\ \A t \in Turns :
        /\ gather[t].pc \in {"idle", "asked", "plan", "tool", "peek", "call", "record",
                             "degrade", "gathered", "over"}
        /\ gather[t].searcher \in {"none", "duckduckgo", "tavily"}
        /\ gather[t].researcher \in {"none", "perplexity"}
        /\ gather[t].n \in 0..MaxIterations /\ gather[t].calls \in 0..MaxIterations
        /\ gather[t].tool \in DocumentTools \union WebTools \union {"answer"}
        /\ gather[t].pages \in [Urls -> {"none", "cited", "page"}]

Init ==
    /\ settings = [provider |-> "duckduckgo", keys |-> {}]
    /\ today = 1
    /\ count = [k \in Counters \X (1..MaxDay) |-> 0]
    /\ gather = [t \in Turns |-> Fresh]

At(t, pc) == gather[t].pc = pc
Become(t, r) == gather' = [gather EXCEPT ![t] = r]
Private == UNCHANGED <<settings, today, count>>

-----------------------------------------------------------------------------
(* The administrator's side, and the providers it resolves to. *)

\* update_web_config, set_web_key, delete_web_key.
Configure ==
    /\ \/ \E p \in Providers : settings' = [settings EXCEPT !.provider = p]
       \/ \E k \in Keyed : settings' = [settings EXCEPT !.keys = @ \union {k}]
       \/ \E k \in Keyed : settings' = [settings EXCEPT !.keys = @ \ {k}]
    /\ UNCHANGED <<today, count, gather>>

\* build_web_searcher: without its key the keyless provider takes over.
SearcherOf(s) ==
    IF s.provider = "tavily" /\ "tavily" \in s.keys THEN "tavily" ELSE "duckduckgo"

ResearcherOf(s) ==
    IF s.provider = "perplexity" /\ "perplexity" \in s.keys THEN "perplexity" ELSE "none"

Midnight ==
    /\ today < MaxDay
    /\ today' = today + 1
    /\ UNCHANGED <<settings, count, gather>>

-----------------------------------------------------------------------------
(* The turn. *)

\* The route resolves the searcher; the workspace may rule the web out.
Ask(t) ==
    /\ At(t, "idle")
    /\ \E consent, allowed \in BOOLEAN :
        Become(t, [Fresh EXCEPT !.pc = "asked", !.consent = consent,
                       !.searcher = IF allowed THEN SearcherOf(settings) ELSE "none"])
    /\ Private

\* stream_reply starts the loop.  Who asked for the web gets it first, and no
\* document tool at all.
Begin(t) ==
    /\ At(t, "asked")
    /\ Become(t, [gather[t] EXCEPT
                    !.pc = "plan", !.forced = gather[t].consent /\ gather[t].searcher # "none",
                    !.researcher = IF gather[t].searcher = "none" THEN "none"
                                   ELSE ResearcherOf(settings)])
    /\ Private

Offered(r) ==
    (IF r.forced THEN {} ELSE DocumentTools)
    \union (IF r.searcher # "none" THEN {"web_search"} ELSE {})
    \union (IF r.researcher # "none" THEN {"web_research"} ELSE {})

\* parse_planner_action, for either protocol: what was not offered is an answer.
Parsed(said, offered) == IF said \in offered THEN said ELSE "answer"

\* The first step of a forced turn is not planned.
FirstTool(r) == IF r.researcher # "none" THEN "web_research" ELSE "web_search"

Step(t, tool) ==
    Become(t, IF tool = "answer" THEN [gather[t] EXCEPT !.pc = "gathered", !.tool = tool]
              ELSE [gather[t] EXCEPT !.pc = "tool", !.n = @ + 1, !.tool = tool])

Plan(t) ==
    /\ At(t, "plan")
    /\ IF gather[t].forced /\ gather[t].n = 0
       THEN Step(t, FirstTool(gather[t]))
       ELSE \E said \in DocumentTools \union WebTools \union {"answer"} :
                Step(t, Parsed(said, Offered(gather[t])))
    /\ Private

After(r) == IF r.n = MaxIterations THEN "gathered" ELSE "plan"

\* A document tool reads, or fails with a typed error.
ReadDocuments(t) ==
    /\ At(t, "tool") /\ gather[t].tool \in DocumentTools
    /\ \/ \E grounded \in BOOLEAN :
            Become(t, [gather[t] EXCEPT !.pc = After(gather[t]),
                                        !.grounded = @ \/ grounded])
       \/ Become(t, [gather[t] EXCEPT !.pc = "degrade"])
    /\ Private

\* Consent and budget come before anything is asked of Redis.
Allowed(r) == r.searcher # "none" /\ r.consent /\ r.calls < Budget

Gate(t) ==
    /\ At(t, "tool") /\ gather[t].tool \in WebTools
    /\ Become(t, [gather[t] EXCEPT !.pc = IF Allowed(gather[t]) THEN "peek" ELSE "degrade",
                                   !.gate = 1])
    /\ Private

\* peek_daily_cap
BelowCap(c) == count[c, today] < Limit[c]

Peek(t) ==
    /\ At(t, "peek") /\ gather[t].gate <= Len(Gates(t))
    /\ Become(t, IF BelowCap(Gates(t)[gather[t].gate])
                 THEN [gather[t] EXCEPT !.gate = @ + 1]
                 ELSE [gather[t] EXCEPT !.pc = "degrade"])
    /\ Private

\* The query is cut down to the user's own words and redacted; nothing may be
\* left of it.
Redact(t) ==
    /\ At(t, "peek") /\ gather[t].gate > Len(Gates(t))
    /\ \E pc \in {"call", "degrade"} : Become(t, [gather[t] EXCEPT !.pc = pc])
    /\ Private

\* Mutant: an address that was seen is never looked at again.
SeenKeeps(r, kind, urls) ==
    [u \in Urls |-> IF u \in urls /\ r.pages[u] = "none" THEN kind ELSE r.pages[u]]

\* How results join those before them: a page replaces a line of a bibliography,
\* the first page of an address stays, and the address a synthesis is attributed
\* to counts as seen.
Joined(r, kind, urls) ==
    [u \in Urls |->
        IF u \in urls /\ ~(u = Home /\ r.answered) /\ (kind = "page" \/ r.pages[u] = "none")
        THEN kind ELSE r.pages[u]]

\* A paid provider needs its key when it is called, and raises without it, on a
\* failure and on an answer it cannot read; the keyless one comes back empty.
Provider(r) == IF r.tool = "web_research" THEN r.researcher ELSE r.searcher
CanCall(p) == p \in Keyed => p \in settings.keys
MayRaise(p) == p # "duckduckgo"

\* The provider answered.  Results join the turn's own once the counters are
\* written; nobody can tell that from joining them here.
Answered(r) == [r EXCEPT !.pc = "record", !.gate = 1, !.calls = @ + 1]

\* Links: TavilySearcher or DuckDuckGoSearcher.
Search(t) ==
    /\ At(t, "call") /\ gather[t].tool = "web_search" /\ CanCall(Provider(gather[t]))
    /\ \E urls \in SUBSET Urls :
        Become(t, [Answered(gather[t]) EXCEPT
                     !.grounded = @ \/ urls # {},
                     !.pages = Joined(gather[t], "page", urls), !.fetched = @ \union urls])
    /\ Private

\* A synthesis and its bibliography: PerplexityResearcher.
Research(t) ==
    /\ At(t, "call") /\ gather[t].tool = "web_research" /\ CanCall(Provider(gather[t]))
    /\ \E urls \in SUBSET Urls :
        Become(t, [Answered(gather[t]) EXCEPT
                     !.grounded = TRUE, !.answered = TRUE,
                     !.pages = Joined([gather[t] EXCEPT !.answered = TRUE], "cited", urls)])
    /\ Private

ProviderRaises(t) ==
    /\ At(t, "call") /\ MayRaise(Provider(gather[t]))
    /\ Become(t, [gather[t] EXCEPT !.pc = "degrade"])
    /\ Private

\* record_daily_usage, once per counter, under the day it is called on.
Record(t) ==
    /\ At(t, "record")
    /\ IF gather[t].gate <= Len(Gates(t))
       THEN /\ count' = [count EXCEPT ![<<Gates(t)[gather[t].gate], today>>] = @ + 1]
            /\ Become(t, [gather[t] EXCEPT !.gate = @ + 1])
       ELSE /\ Become(t, [gather[t] EXCEPT !.pc = After(gather[t]), !.gate = 1])
            /\ UNCHANGED count
    /\ UNCHANGED <<settings, today>>

\* A failed tool ends the loop with one plain retrieval, which may fail too.
Degrade(t) ==
    /\ At(t, "degrade")
    /\ \E grounded \in BOOLEAN :
        Become(t, [gather[t] EXCEPT !.pc = "gathered", !.grounded = @ \/ grounded])
    /\ Private

\* AgentGathered is handed to stream_reply; or the client goes away, or Redis,
\* the planner or the process fails, at any point.
End(t) ==
    /\ gather[t].pc \notin {"idle", "over"}
    /\ Become(t, [Fresh EXCEPT !.pc = "over"])
    /\ Private

Turn(t) ==
    \/ Ask(t) \/ Begin(t) \/ Plan(t) \/ ReadDocuments(t) \/ Gate(t) \/ Peek(t) \/ Redact(t)
    \/ Search(t) \/ Research(t) \/ ProviderRaises(t) \/ Record(t) \/ Degrade(t) \/ End(t)

Next == Configure \/ Midnight \/ \E t \in Turns : Turn(t)

Spec == Init /\ [][Next]_vars

\* A turn whose next step reads and changes only its own record: TLC may take
\* such a step before those of the other turns.
Alone(t) ==
    \/ gather[t].pc \in {"plan", "tool", "degrade"}
    \/ At(t, "peek") /\ gather[t].gate > Len(Gates(t))

Local(t) == Plan(t) \/ ReadDocuments(t) \/ Gate(t) \/ Redact(t) \/ Degrade(t)

-----------------------------------------------------------------------------
(* Properties. *)

\* The daily cap survives the race between peek and record: the turns that
\* overlap can take it over the limit by one each, the first excepted, and a turn
\* never calls a provider more often than its budget.
CapsHold ==
    /\ \A c \in Counters, d \in 1..MaxDay : Limit[c] > 0 =>
        count[c, d] < Limit[c] + Cardinality({t \in Turns : c \in {UserOf[t], Org}})
    /\ \A t \in Turns : gather[t].calls <= Budget

\* "Bibliography metadata must also never hide a subsequently fetched primary
\* page": whatever the order of searches and syntheses, each page a search
\* brought back is among the results.  (The synthesis's own address is seen
\* once a synthesis has come: a page there is dropped after it.)
PagesAreKept ==
    \A t \in Turns : gather[t].pc = "gathered" =>
        \A u \in gather[t].fetched \ {Home} : gather[t].pages[u] = "page"
=============================================================================
