------------------------------ MODULE MCAnswers ------------------------------
(***************************************************************************)
(* The modules about what an answer is made from and how it is delivered,  *)
(* on small instances: Reembed, bot deliveries, the tool loop, provider    *)
(* streams, grounding, attachments, retrieval, what administrators read of *)
(* answers, evaluation runs, and the quotas that turns are checked         *)
(* against.  They share no state here, so one run takes them side by side: *)
(* focus is the module whose actions a behaviour takes, and the variables  *)
(* of the others keep their initial values.                                *)
(* Gather and Retrieval appear twice, with instances for different         *)
(* questions.                                                              *)
(***************************************************************************)
EXTENDS Reembed, Integers, Sequences, TLC

CONSTANTS
    d1, m1, m2, w1, w2, t1, t2, u1, org, page, home,
    x1, x2, g1, g2, p1, p2, p3, p4, c1, c2, c3, e1, e2, site, file, q1, q2

VARIABLES
    focus,
    platform, signed, time, seen, mark, bot, convo, work, done,  \* Deliveries
    settings, today, count, gather,                               \* Gather
    policy, kept, vectors, answers, turn,                         \* Grounding
    attachment, old, blob, chunks, queue, extracting, send, sweep, deaths,
    dangling,                                                     \* Attachments
    store, caller, asked, pending, query,                         \* Retrieval
    clock, live, feedback, scores, auditing, fatal, metered, logged, flushed, rated,
    reader,                                                       \* Reviews
    script, revised, transport, said, told, texts, calls, out, tools, billed,
    result,                                                       \* Streams
    ranking, golden, patching, changed, nights, measured, scoring, \* Evals
    now, ledger, userQuota, orgQuota, cache, check, full,         \* Quota
    date, resetDay                                                \* Periods

deliveryVars == <<platform, signed, time, seen, mark, bot, convo, work, done>>
gatherVars == <<settings, today, count, gather>>
groundingVars == <<policy, kept, vectors, answers, turn>>
attachmentVars ==
    <<attachment, old, blob, chunks, queue, extracting, send, sweep, deaths, dangling>>
retrievalVars == <<store, caller, asked, pending, query>>
reviewVars ==
    <<clock, live, feedback, scores, auditing, fatal, metered, logged, flushed, rated, reader>>
streamVars ==
    <<script, revised, transport, said, told, texts, calls, out, tools, billed, result>>
evalVars == <<ranking, golden, patching, changed, nights, measured, scoring>>
quotaVars == <<now, ledger, userQuota, orgQuota, cache, check, full>>
periodVars == <<date, resetDay>>
answerVars == <<focus, reembedVars, deliveryVars, gatherVars, groundingVars, attachmentVars,
                retrievalVars, reviewVars, streamVars, evalVars, quotaVars, periodVars>>

Turns == {t1, t2}
Attached == {x1, x2}

Delivery == INSTANCE Deliveries
    WITH Workers <- {w1, w2}, Messages <- {1, 2},
         Platforms <- {"telegram", "slack", "discord"},
         Skew <- 1, TTL <- 3, MarkTTL <- 9, MaxTime <- 3

\* Two turns of one user under a personal cap of 1 and the organization's of 2.
Caps == INSTANCE Gather
    WITH Turns <- Turns, UserOf <- [t \in Turns |-> u1], Org <- org,
         Limit <- [c \in {u1, org} |-> IF c = u1 THEN 1 ELSE 2], Budget <- 2, MaxIterations <- 2,
         Urls <- {home}, Home <- home, MaxDay <- 2
\* One turn without caps, whose searches find two pages.
Pages == INSTANCE Gather
    WITH Turns <- {t1}, UserOf <- [t \in {t1} |-> u1], Org <- org,
         Limit <- [c \in {u1, org} |-> 0], Budget <- 2, MaxIterations <- 3,
         Urls <- {page, home}, Home <- home, MaxDay <- 1

Answering == INSTANCE Grounding
    WITH rows <- kept, points <- vectors,
         Docs <- {e1, e2}, Chunks <- {c1, c2}, DocOf <- (c1 :> e1 @@ c2 :> e2),
         Clips <- {c3}, Web <- {site}, Files <- {file},
         Cost <- (c1 :> 1 @@ c2 :> 4 @@ c3 :> 1 @@ site :> 1 @@ file :> 2),
         Overhead <- 1, Preamble <- 1, System <- 1,
         SystemShare <- 2, SourcesShare <- 8, HistoryShare <- 2,
         Shortest <- 1, Summary <- 2, Note <- 1, Label <- 1, Recent <- 1,
         Lengths <- {1, 5}, TopK <- 2, MaxTurns <- 2

Attaching == INSTANCE Attachments
    WITH row <- attachment, points <- chunks, worker <- extracting,
         Files <- Attached, MaxDeaths <- 1

\* One point with every payload: what the filter lets through.
Filtering == INSTANCE Retrieval
    WITH Points <- {p1}, ChunkOf <- (p1 :> c1), DocOf <- (c1 :> e1),
         Payloads <- [tenant : {{"own"}, {"other"}}, workspace : {{"this"}, {"elsewhere"}},
                      acl : SUBSET {g1, g2}, current : {{"yes"}, {"no"}, {}},
                      meta : {{}, {"new"}, {"old"}}],
         Callers <- [groups : SUBSET {g1, g2}, bypass : BOOLEAN],
         Clauses <- {{}, {"new"}, {"new", "old"}}, Ks <- {1}, Scores <- {1}, MinScore <- 1, Prefetch <- 1
\* Four readable points of three chunks: how they are ranked.
Ranking == INSTANCE Retrieval
    WITH Points <- {p1, p2, p3, p4},
         ChunkOf <- (p1 :> c1 @@ p2 :> c1 @@ p3 :> c2 @@ p4 :> c3),
         DocOf <- (c1 :> e1 @@ c2 :> e1 @@ c3 :> e2),
         Payloads <- {[tenant |-> {"own"}, workspace |-> {"this"}, acl |-> {},
                       current |-> {"yes"}, meta |-> {}]},
         Callers <- {[groups |-> {}, bypass |-> FALSE]}, Clauses <- {{}},
         Ks <- {1, 2}, Scores <- {1, 2, 3}, MinScore <- 2, Prefetch <- 4

\* Members who rate answers, the log that other requests write, and the Auditor.
Queue == INSTANCE Reviews
    WITH deaths <- fatal, events <- logged, task <- rated,
         Messages <- 1..3, ChatOf <- <<"mine", "mine", "theirs">>,
         OrgOf <- [mine |-> "o1", theirs |-> "o2"], Mine <- {"mine"}, Org <- "o1",
         Sound <- {}, Events <- {}, OrgOfEvent <- <<>>, Requests <- {"r1", "r2"}, Replies <- {},
         PageSize <- 1, MaxDeaths <- 0, MaxTime <- 2
Log == INSTANCE Reviews
    WITH deaths <- fatal, events <- logged, task <- rated,
         Messages <- {}, ChatOf <- <<>>, OrgOf <- <<>>, Mine <- {}, Org <- "o1",
         Sound <- {}, Events <- 1..4, OrgOfEvent <- <<"o1", "o1", "o1", "o2">>,
         Requests <- {}, Replies <- {}, PageSize <- 2, MaxDeaths <- 0, MaxTime <- 1
Judging == INSTANCE Reviews
    WITH deaths <- fatal, events <- logged, task <- rated,
         Messages <- 1..2, ChatOf <- <<"mine", "mine">>, OrgOf <- [mine |-> "o1"],
         Mine <- {"mine"}, Org <- "o1", Sound <- {1, 2}, Events <- {}, OrgOfEvent <- <<>>,
         Requests <- {}, PageSize <- 2, MaxDeaths <- 1, MaxTime <- 0,
         Replies <- {[grounding |-> 5, completeness |-> -1], [grounding |-> 1, completeness |-> 99]}

\* Three answers: two items of which one revises, repeats or interleaves the
\* parts, and tool calls around a message.
Message(parts) == [kind |-> "message", texts |-> parts]
ToolCall(arguments) == [kind |-> "call", texts |-> <<arguments>>]
Streaming == INSTANCE Streams
    WITH metered <- billed,
         Scripts <- {<<Message(<<<<"a", "b">>>>)>>, <<Message(<<<<"a", "a">>, <<"b">>>>)>>,
                     <<ToolCall(<<"a", "b">>), Message(<<<<"b">>>>), ToolCall(<<"b">>)>>},
         Other <- <<"a", "c">>

\* Two changes of the settings, published or triggered runs that are handed over
\* twice, and one night.
Evaluating == INSTANCE Evals
    WITH settings <- ranking, request <- patching, events <- changed, runs <- measured,
         work <- scoring,
         Queries <- {"g"}, Workers <- {w1, w2}, Requests <- {"r"},
         MaxChanges <- 2, MaxEvents <- 2, MaxNights <- 1, MaxStarts <- 2

\* What one member and the organization may spend, and the periods it counts in.
Spending == INSTANCE Quota
    WITH Requests <- {q1, q2}, Users <- {u1}, TTL <- 1, Delay <- 1, PeriodLength <- 3, Limits <- {1, 2},
         MaxUse <- 1, MaxTime <- 3
Calendar == INSTANCE Periods WITH today <- date, FirstYear <- 2027, LastYear <- 2028
Modules ==
    {"reembed", "deliveries", "caps", "pages", "grounding", "attachments", "filter", "rank",
     "queue", "log", "audits", "streams", "evals", "quota", "periods"}

\* What a module starts with is fixed while another one has the focus.
AnswersInit ==
    /\ focus \in Modules
    /\ Init
    /\ Delivery!Init /\ (focus # "deliveries" => platform = "slack" /\ signed = <<1, 1>>)
    /\ IF focus = "caps" THEN Caps!Init ELSE Pages!Init
    /\ (focus \notin {"caps", "pages"} => settings = [provider |-> "duckduckgo", keys |-> {}])
    /\ Answering!Init /\ (focus # "grounding" => policy = "decline")
    /\ Attaching!Init
    /\ (focus \notin {"filter", "rank"} =>
            pending = {} /\ asked = [k |-> 1, rerank |-> FALSE, clause |-> {}])
    /\ IF focus = "filter" THEN Filtering!Init ELSE Ranking!Init
    /\ CASE focus = "log" -> Log!Init [] focus = "audits" -> Judging!Init [] OTHER -> Queue!Init
    /\ (focus # "queue" => DOMAIN feedback = {})
    /\ Streaming!Init /\ (focus # "streams" => Len(script) = 3 /\ ~revised /\ transport = "chatgpt")
    /\ Evaluating!Init
    /\ Spending!Init /\ (focus # "quota" => userQuota[u1] = 1 /\ orgQuota = 1)
    /\ Calendar!Init /\ (focus # "periods" => date = <<2027, 1, 1>> /\ resetDay = 1)

\* Of two turns, first the steps that only the turn itself can see.
CapsNext ==
    \/ \E t \in Turns : Caps!Local(t)
    \/ /\ \A t \in Turns : ~Caps!Alone(t)
       /\ Caps!Midnight \/ \E t \in Turns : Caps!Turn(t)

\* Golden queries change between runs: a run lists them when it fills its row.
BetweenRuns == golden' = golden \/ \A w \in {w1, w2} : scoring[w].pc = "idle"

\* One of the two documents stays: a retrieval may find nothing all the same.
OneLost == vectors' # {}

AnswersNext ==
    \/ /\ focus = "reembed" /\ Next
       /\ UNCHANGED <<focus, deliveryVars, gatherVars, groundingVars, attachmentVars, retrievalVars, reviewVars, streamVars, evalVars, quotaVars, periodVars>>
    \/ /\ focus = "deliveries" /\ Delivery!Next
       /\ UNCHANGED <<focus, reembedVars, gatherVars, groundingVars, attachmentVars, retrievalVars, reviewVars, streamVars, evalVars, quotaVars, periodVars>>
    \/ /\ \/ focus = "caps" /\ CapsNext
          \/ focus = "pages" /\ Pages!Next
       /\ UNCHANGED <<focus, reembedVars, deliveryVars, groundingVars, attachmentVars, retrievalVars, reviewVars, streamVars, evalVars, quotaVars, periodVars>>
    \/ /\ focus = "grounding" /\ Answering!Next /\ OneLost
       /\ UNCHANGED <<focus, reembedVars, deliveryVars, gatherVars, attachmentVars, retrievalVars, reviewVars, streamVars, evalVars, quotaVars, periodVars>>
    \/ /\ focus = "attachments" /\ Attaching!Next
       /\ UNCHANGED <<focus, reembedVars, deliveryVars, gatherVars, groundingVars, retrievalVars, reviewVars, streamVars, evalVars, quotaVars, periodVars>>
    \/ /\ \/ focus = "filter" /\ Filtering!Next
          \/ focus = "rank" /\ Ranking!Next
       /\ UNCHANGED <<focus, reembedVars, deliveryVars, gatherVars, groundingVars, attachmentVars, reviewVars, streamVars, evalVars, quotaVars, periodVars>>
    \/ /\ \/ focus = "queue" /\ Queue!Next
          \/ focus = "log" /\ Log!Next
          \/ focus = "audits" /\ Judging!Next
       /\ UNCHANGED <<focus, reembedVars, deliveryVars, gatherVars, groundingVars, attachmentVars, retrievalVars, streamVars, evalVars, quotaVars, periodVars>>
    \/ /\ focus = "streams" /\ Streaming!Next
       /\ UNCHANGED <<focus, reembedVars, deliveryVars, gatherVars, groundingVars, attachmentVars, retrievalVars, reviewVars, evalVars, quotaVars, periodVars>>
    \/ /\ focus = "evals" /\ Evaluating!Next /\ BetweenRuns
       /\ UNCHANGED <<focus, reembedVars, deliveryVars, gatherVars, groundingVars, attachmentVars, retrievalVars, reviewVars, streamVars, quotaVars, periodVars>>
    \/ /\ focus = "quota" /\ Spending!Next
       /\ UNCHANGED <<focus, reembedVars, deliveryVars, gatherVars, groundingVars, attachmentVars, retrievalVars, reviewVars, streamVars, evalVars, periodVars>>
    \/ /\ focus = "periods" /\ Calendar!Next
       /\ UNCHANGED <<focus, reembedVars, deliveryVars, gatherVars, groundingVars, attachmentVars, retrievalVars, reviewVars, streamVars, evalVars, quotaVars>>

AnswersSpec == AnswersInit /\ [][AnswersNext]_answerVars

Symmetry == Permutations({q1, q2})

-----------------------------------------------------------------------------
\* The variables of every module have their types.
Types ==
    /\ TypeOK
    /\ focus = "deliveries" => Delivery!TypeOK
    /\ focus = "caps" => Caps!TypeOK
    /\ focus = "pages" => Pages!TypeOK
    /\ focus = "grounding" => Answering!TypeOK
    /\ focus = "attachments" => Attaching!TypeOK
    /\ focus = "filter" => Filtering!TypeOK
    /\ focus = "rank" => Ranking!TypeOK
    /\ focus = "queue" => Queue!TypeOK
    /\ focus = "log" => Log!TypeOK
    /\ focus = "audits" => Judging!TypeOK
    /\ focus = "streams" => Streaming!TypeOK
    /\ focus = "evals" => Evaluating!TypeOK
    /\ focus = "quota" => Spending!TypeOK
    /\ focus = "periods" => Calendar!TypeOK

\* Deliveries: a message that is delivered again is answered once.  Evals: an event
\* that is handed over again has one row, about its change of the settings or a
\* later one, and rows keep the order of the settings but for runs that overlap.
DeliveredOnce ==
    /\ focus = "deliveries" => Delivery!DeliveredOnce
    /\ focus = "evals" => Evaluating!RunsMeasureTheirChange

\* Gather: a daily cap is passed only by searches that were in flight together, and
\* a page that was found is a source of the answer.  Attachments: a turn fails over
\* points without a row only after a death, a late send or a new route left them.
GatheringHolds ==
    /\ focus = "caps" => Caps!CapsHold /\ Caps!PagesAreKept
    /\ focus = "pages" => Pages!CapsHold /\ Pages!PagesAreKept
    /\ focus = "attachments" => Attaching!FailuresAreDangling

\* Grounding: a citation names the block the model saw under that number, and a
\* prompt stays within its budgets.  Streams: the caller of a model gets every text
\* and every tool call of an answer whole and once, or an error.
AnswersAreGrounded ==
    /\ Answering!CitesWhatWasShown
    /\ [](focus = "grounding" => Answering!PromptsHold)
    /\ [](focus = "streams" => Streaming!AnswersAreWhole)

\* Retrieval: what is returned is readable and the best of what was found.
SourcesHold ==
    /\ focus = "filter" => Filtering!ServesTheBestReadable
    /\ focus = "rank" => Ranking!ServesTheBestReadable

\* Quota: a turn overshoots an allocation by one cache window at most, and who
\* is refused has used one up.  Periods, which say what counts: every day lies in
\* one period, and periods follow each other.
AllocationsHold == Spending!AllocationsHold /\ [](focus = "periods" => Calendar!PeriodsTile)

\* Reviews: pages that are turned while rows come and go skip none that stays,
\* and what is counted is what is listed.
ReviewsHold ==
    /\ focus = "queue" => Queue!ReviewsHold
    /\ focus = "log" => Log!ReviewsHold
    /\ focus = "audits" => Judging!ReviewsHold
=============================================================================
