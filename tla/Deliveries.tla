------------------------------ MODULE Deliveries ------------------------------
(***************************************************************************)
(* Messages that a chat platform delivers to a bot's webhook at least once *)
(* and that must be answered at most once.  Each is claimed before the     *)
(* work, in Redis: by a key with a lifetime (claim_once: Slack, Discord)   *)
(* or by a mark that only rises (claim_monotonic: Telegram).  Meanwhile an *)
(* administrator turns the bot off and on and deletes it.                  *)
(*                                                                         *)
(* A delivery carries the time it was signed at; what has expired in Redis *)
(* is forgotten when the clock reaches the end of its lifetime.            *)
(***************************************************************************)
EXTENDS Naturals

CONSTANTS
    Workers,
    Messages,   \* a platform's delivery ids, in the order of their sending
    Platforms,  \* subset of {"telegram", "slack", "discord"}
    Skew,       \* _SLACK_MAX_SKEW_SECONDS, _DISCORD_MAX_SKEW_SECONDS
    TTL,        \* _WEBHOOK_IDEMPOTENCY_TTL_SECONDS
    MarkTTL,    \* _TELEGRAM_HWM_TTL_SECONDS
    MaxTime     \* bound: the clock

VARIABLES
    platform,  \* where the messages come from
    signed,    \* when each message was signed
    time,
    seen,      \* Redis: the claims that have not expired, with their ends
    mark,      \* Redis: the high-water mark and its end
    bot,       \* bot_integrations: the bot's row and whether it is enabled
    convo,     \* bot_conversations: the chat the sender is mapped to
    work,      \* the deliveries in progress
    done       \* how often each message reached the model (history)

deliveryVars == <<platform, signed, time, seen, mark, bot, convo, work, done>>

NoChat == 0
Idle == [pc |-> "idle", msg |-> 0, chat |-> NoChat]
NoMark == [value |-> 0, until |-> 0]
MoreThanTwice == 3

TypeOK ==
    /\ platform \in Platforms /\ signed \in [Messages -> 1..MaxTime] /\ time \in 0..MaxTime
    /\ \A s \in seen : s.msg \in Messages /\ s.until \in time..(MaxTime + TTL)
    /\ mark.value \in Messages \union {0} /\ bot \in {"on", "off", "gone"}
    /\ convo \in Messages \union {NoChat}
    /\ \A w \in Workers : work[w].pc \in {"idle", "resolved", "relay", "mapping", "reread", "send"}
    /\ done \in [Messages -> 0..MoreThanTwice]

Init ==
    /\ platform \in Platforms /\ signed \in [Messages -> 1..MaxTime] /\ time = 0
    /\ seen = {} /\ mark = NoMark /\ bot = "on" /\ convo = NoChat
    /\ work = [w \in Workers |-> Idle] /\ done = [m \in Messages |-> 0]

-----------------------------------------------------------------------------
Step(w, r) == work' = [work EXCEPT ![w] = r]
Once(m) == done' = [done EXCEPT ![m] = IF @ < MoreThanTwice THEN @ + 1 ELSE @]

\* verify_slack, verify_discord; Telegram's signature has no time in it.
Fresh(m) == platform # "telegram" => signed[m] - Skew <= time /\ time <= signed[m] + Skew

\* A webhook call that resolves (resolve_by_webhook), is within its limits and
\* verifies; it may come again.
Deliver(w, m) ==
    /\ work[w].pc = "idle" /\ Fresh(m) /\ bot = "on"
    /\ Step(w, [Idle EXCEPT !.msg = m, !.pc = "resolved"])
    /\ UNCHANGED <<platform, signed, time, seen, mark, bot, convo, done>>

\* Mutant: the claim lives as long as the tolerance on one side.
LifetimeOfSkew == Skew

Lifetime == TTL

\* claim_once: SET NX EX
ClaimOnce(w) ==
    LET m == work[w].msg
    IN  /\ platform # "telegram" /\ work[w].pc = "resolved"
        /\ IF \E s \in seen : s.msg = m THEN Step(w, Idle) /\ UNCHANGED seen
           ELSE /\ seen' = seen \union {[msg |-> m, until |-> time + Lifetime]}
                /\ Step(w, [work[w] EXCEPT !.pc = "relay"])
        /\ UNCHANGED <<platform, signed, time, mark, bot, convo, done>>

\* claim_monotonic: one script
ClaimMark(w) ==
    LET m == work[w].msg
    IN  /\ platform = "telegram" /\ work[w].pc = "resolved"
        /\ IF mark.value >= m THEN Step(w, Idle) /\ UNCHANGED mark
           ELSE /\ mark' = [value |-> m, until |-> time + MarkTTL]
                /\ Step(w, [work[w] EXCEPT !.pc = "relay"])
        /\ UNCHANGED <<platform, signed, time, seen, bot, convo, done>>

\* answer_for_integration: the mapping is read, then the turn runs, in a chat of its
\* own if there is none.  Slack and Discord relay after the response, and look
\* the bot up once more (get_integration), though not whether it is enabled.
Relay(w) ==
    /\ work[w].pc = "relay" /\ (platform = "telegram" \/ bot # "gone")
    /\ Step(w, [work[w] EXCEPT !.pc = IF convo = NoChat THEN "mapping" ELSE "send",
                               !.chat = IF convo = NoChat THEN work[w].msg ELSE convo])
    /\ Once(work[w].msg)
    /\ UNCHANGED <<platform, signed, time, seen, mark, bot, convo>>

\* Mutant: the row is written without its reference to the bot.
InsertedAnyway(w) ==
    /\ convo' = IF convo = NoChat THEN work[w].chat ELSE convo
    /\ Step(w, [work[w] EXCEPT !.pc = IF convo = NoChat THEN "send" ELSE "reread"])

\* The insertion fails if there is a mapping by now, or no bot.
Inserted(w) ==
    IF convo = NoChat /\ bot # "gone"
    THEN convo' = work[w].chat /\ Step(w, [work[w] EXCEPT !.pc = "send"])
    ELSE UNCHANGED convo /\ Step(w, [work[w] EXCEPT !.pc = "reread"])

\* save_chat_mapping
SaveMapping(w) ==
    /\ work[w].pc = "mapping" /\ Inserted(w)
    /\ UNCHANGED <<platform, signed, time, seen, mark, bot, done>>

\* The IntegrityError is answered by reading the winner's row; without one, an
\* assertion fails.
Reread(w) ==
    /\ work[w].pc = "reread"
    /\ Step(w, IF convo = NoChat THEN Idle ELSE [work[w] EXCEPT !.pc = "send"])
    /\ UNCHANGED <<platform, signed, time, seen, mark, bot, convo, done>>

\* get_token and send_telegram or send_slack, or send_discord, which needs no token;
\* a failure is logged.
Send(w) ==
    /\ work[w].pc = "send" /\ (platform = "discord" \/ bot # "gone") /\ Step(w, Idle)
    /\ UNCHANGED <<platform, signed, time, seen, mark, bot, convo, done>>

\* set_enabled
SetEnabled ==
    /\ bot # "gone" /\ bot' = IF bot = "on" THEN "off" ELSE "on"
    /\ UNCHANGED <<platform, signed, time, seen, mark, convo, work, done>>

\* delete_integration: the secrets, the row, and with it the mappings.
DeleteIntegration ==
    /\ bot # "gone" /\ bot' = "gone" /\ convo' = NoChat
    /\ UNCHANGED <<platform, signed, time, seen, mark, work, done>>

\* A process dies, or the model or the platform fails, the bot's user is no longer
\* a member, or the bot or its token is gone.
Fail(w) ==
    /\ work[w].pc # "idle" /\ Step(w, Idle)
    /\ UNCHANGED <<platform, signed, time, seen, mark, bot, convo, done>>

\* A call that verified claims before the clock moves: a tick stands for
\* Skew, and the claim outlives the tolerance by one more.
Tick ==
    /\ time < MaxTime /\ time' = time + 1
    /\ \A w \in Workers : work[w].pc # "resolved"
    /\ seen' = {s \in seen : s.until > time'}
    /\ mark' = IF mark.until <= time' THEN NoMark ELSE mark
    /\ UNCHANGED <<platform, signed, bot, convo, work, done>>

Next ==
    \/ \E w \in Workers : \/ \E m \in Messages : Deliver(w, m)
                          \/ ClaimOnce(w) \/ ClaimMark(w) \/ Relay(w) \/ SaveMapping(w)
                          \/ Reread(w) \/ Send(w) \/ Fail(w)
    \/ SetEnabled \/ DeleteIntegration
    \/ Tick

Spec == Init /\ [][Next]_deliveryVars

-----------------------------------------------------------------------------
\* However often a message is delivered, and whenever within the tolerance for
\* its signature, it reaches the model at most once: a claim outlives every
\* delivery that still verifies.  A bot that was deleted in the middle of a
\* delivery keeps no conversation.  claim_once, claim_monotonic, save_chat_mapping.
DeliveredOnce ==
    /\ \A m \in Messages : done[m] <= 1
    /\ bot = "gone" => convo = NoChat
=============================================================================
