------------------------------ MODULE ChatTurn ------------------------------
(***************************************************************************)
(* The message tree of one chat and the turns that grow it: send, edit,    *)
(* answer, regenerate, the agent loop, the rolling summary, streaming, and *)
(* what a client that goes away or a process that dies leaves behind.      *)
(*                                                                         *)
(* A turn is one request and the task that streams its reply.  Its steps   *)
(* are the stretches between two awaits that another turn can see.  Its    *)
(* session keeps the Chat object of its first read (expire_on_commit is    *)
(* off and FOR UPDATE does not refresh), so turn[t].memory is a copy that  *)
(* only the turn itself changes.  Usage rows added with commit=False are   *)
(* staged: the session's next commit stores them, its end drops them.      *)
(*                                                                         *)
(* A message is its position in msgs; a parent precedes its children.      *)
(***************************************************************************)
EXTENDS Naturals, Sequences, FiniteSetsExt

CONSTANTS
    Turns,
    SmallTalk,    \* turns whose text classify_query calls conversational
    Trigger,      \* _SUMMARY_TRIGGER_TURNS
    Keep,         \* _SUMMARY_KEEP_RECENT
    MaxSteps      \* AGENT_MAX_ITERATIONS

ASSUME ChatAssumption ==
    /\ SmallTalk \subseteq Turns
    /\ Trigger \in Nat /\ Keep \in Nat \ {0} /\ Keep <= Trigger
    /\ MaxSteps \in Nat \ {0}

\* What stands for no message, no parent and no turn.
None == 0
ASSUME TurnsNamed == None \notin Turns

VARIABLES
    msgs,     \* the rows of messages, in the order of their inserts
    memory,   \* chats.summary, as the messages it tells of, and its anchor
    exists,   \* the chat has not been deleted
    holder,   \* who holds the lock of the chat's row
    turn,     \* the requests
    rescue    \* the detached task that stores what a stopped turn had shown

vars == <<msgs, memory, exists, holder, turn, rescue>>

NoMemory == [covers |-> {}, upto |-> None]

\* Paths by parents, a message included.
Path(m) ==
    LET up[n \in 0..Len(msgs)] ==
            IF n = None THEN {} ELSE {n} \union up[msgs[n].parent]
    IN  up[m]

\* path_to_root: the message itself left out.
Ancestors(m) == Path(m) \ {m}

Children(p) == {m \in DOMAIN msgs : msgs[m].parent = p}

Insert(parent, role, index, by, stopped) ==
    msgs' = Append(msgs, [parent |-> parent, role |-> role, index |-> index,
                          by |-> by, stopped |-> stopped])

Said(p, r, t) == [parent |-> p, role |-> r, index |-> 0, by |-> t, stopped |-> FALSE]

\* create_chat, without or with first_message; or a chat with an exchange.
Openings == {<<>>, <<Said(0, "user", None)>>,
             <<Said(0, "user", None), Said(1, "assistant", None)>>}

Routes == {"talk", "general", "decline", "stream", "judged"}
Before == {"idle", "loaded", "resolved", "counting", "ready"}
Gathering == {"triage", "search", "loop", "tool", "gathered"}
Replying == {"history", "folded", "prompted", "streaming", "write", "counted", "stored",
             "record", "recorded", "closing"}
Spends == {"tiebreak", "plan", "embed", "web", "fold", "synth", "judge", "blocks"}
          \X (0..MaxSteps)

\* generate_blocks drops the usage of its call.
Unmetered == {<<"blocks", 0>>}

NewTurn == [pc |-> "idle", asked |-> None, at |-> None, slot |-> 0,
            memory |-> NoMemory, prompt |-> {}, route |-> "talk", steps |-> 0,
            partial |-> FALSE, gathered |-> {}, carried |-> {}, usage |-> {},
            staged |-> {}, owing |-> {}]

TypeOK ==
    /\ \A m \in DOMAIN msgs : /\ msgs[m].parent \in 0..(m - 1)
                              /\ msgs[m].by \in Turns \union {None}
    /\ memory.covers \subseteq DOMAIN msgs /\ memory.upto \in 0..Len(msgs)
    /\ holder \in Turns \union {None}
    /\ \A t \in Turns :
        /\ turn[t].pc \in Before \union Gathering \union Replying \union {"over"}
        /\ turn[t].route \in Routes
        /\ turn[t].owing \subseteq Spends
        /\ turn[t].staged \union turn[t].carried \union turn[t].usage \subseteq turn[t].owing
        /\ rescue[t] \in {"none", "owed", "counted", "kept", "metered", "lost"}

Init ==
    /\ msgs \in Openings
    /\ memory = NoMemory
    /\ exists = TRUE
    /\ holder = None
    /\ turn = [t \in Turns |-> NewTurn]
    /\ rescue = [t \in Turns |-> "none"]

\* The turn after its session commits.  A field nothing reads any more is put
\* back to its first value, here and below.
Commit(r) == [r EXCEPT !.owing = @ \ r.staged, !.staged = {}]

\* A turn that ended; its task keeps nothing.
Over == [NewTurn EXCEPT !.pc = "over"]

Become(t, r) == turn' = [turn EXCEPT ![t] = r]

At(t, step) == turn[t].pc = step

\* A turn's own step: it touches nothing another turn can see.
Private == UNCHANGED <<msgs, memory, exists, holder, rescue>>

Pays(r, spends) == [r EXCEPT !.owing = @ \union spends]

-----------------------------------------------------------------------------
(* The request: which user message is to be answered. *)

\* send_message up to the quota check: the chat is loaded.
Load(t) ==
    /\ At(t, "idle") /\ exists
    /\ Become(t, [turn[t] EXCEPT !.pc = "loaded", !.memory = memory])
    /\ Private

\* active_leaf: the end of the path that takes the newest sibling at every branch.
Newest(m) == \A n \in Children(msgs[m].parent) : msgs[n].index <= msgs[m].index

Leaf ==
    IF msgs = <<>> THEN None
    ELSE CHOOSE m \in DOMAIN msgs : Children(m) = {} /\ \A n \in Path(m) : Newest(n)

\* resolve_parent without an explicit parent: a leaf nobody answered is retried
\* beside, not below.
AppendPoint ==
    IF Leaf # None /\ msgs[Leaf].role = "user" THEN msgs[Leaf].parent ELSE Leaf

\* add_user_message reads the messages and settles the parent: the active leaf,
\* or the one the client names, whose role must alternate.
Resolve(t) ==
    /\ At(t, "loaded")
    /\ \E p \in {AppendPoint, None} \union {m \in DOMAIN msgs : msgs[m].role = "assistant"} :
        Become(t, [turn[t] EXCEPT !.pc = "resolved", !.at = p])
    /\ Private

\* Mutant: the count is taken without the lock.
LockChatUnlocked(t, from, to, p) ==
    /\ At(t, from) /\ exists
    /\ Become(t, [turn[t] EXCEPT !.pc = to, !.slot = Cardinality(Children(p))])
    /\ Private

\* add_message up to its commit: SELECT ... FOR UPDATE on the chat, then the
\* count of siblings.  When the chat is gone the insert fails (Fail).
LockChat(t, from, to, p) ==
    /\ At(t, from)
    /\ holder = None /\ exists
    /\ holder' = t
    /\ Become(t, [turn[t] EXCEPT !.pc = to, !.slot = Cardinality(Children(p))])
    /\ UNCHANGED <<msgs, memory, exists, rescue>>

LockForUser(t) == LockChat(t, "resolved", "counting", turn[t].at)

\* The commit that inserts the user's message and frees the chat's row.
InsertUser(t) ==
    /\ At(t, "counting")
    /\ Insert(turn[t].at, "user", turn[t].slot, t, FALSE)
    /\ holder' = None
    /\ Become(t, [Commit(turn[t]) EXCEPT !.pc = "ready", !.asked = Len(msgs) + 1,
                                         !.at = None, !.slot = 0])
    /\ UNCHANGED <<memory, exists, rescue>>

\* POST /messages/{id}/answer: only while the message has no answer.
Answer(t) ==
    /\ At(t, "idle") /\ exists
    /\ \E m \in DOMAIN msgs :
        /\ msgs[m].role = "user"
        /\ Children(m) = {}
        /\ Become(t, [turn[t] EXCEPT !.pc = "ready", !.asked = m, !.memory = memory])
    /\ Private

\* POST /messages/{id}/regenerate: another answer to the same message.
Regenerate(t) ==
    /\ At(t, "idle") /\ exists
    /\ \E m \in DOMAIN msgs :
        /\ msgs[m].role = "assistant"
        /\ Become(t, [turn[t] EXCEPT !.pc = "ready", !.asked = msgs[m].parent,
                                     !.memory = memory])
    /\ Private

-----------------------------------------------------------------------------
(* stream_reply before the prompt: escalation and the agent loop. *)

\* classify_query and list_messages.  The path above a message never changes, so
\* the snapshot it is read from needs no variable.
Begin(t) ==
    /\ At(t, "ready")
    /\ exists \/ msgs[turn[t].asked].parent = None
    /\ Become(t, [turn[t] EXCEPT !.pc = IF t \in SmallTalk THEN "history" ELSE "triage"])
    /\ Private

\* should_escalate, the utility model's tiebreak, or the web toggle; without
\* escalation one retrieval comes first.
Triage(t) ==
    /\ At(t, "triage")
    /\ \E call \in {{}, {<<"tiebreak", 0>>}}, next \in {"search", "loop"} :
        Become(t, [Pays(turn[t], call) EXCEPT !.pc = next, !.carried = call])
    /\ Private

\* The single shot; a weak one may still start the loop.
SingleShot(t) ==
    /\ At(t, "search")
    /\ \E next \in {"loop", "gathered"} :
        Become(t, [Pays(turn[t], {<<"embed", 0>>}) EXCEPT
                        !.pc = next, !.staged = @ \union {<<"embed", 0>>}])
    /\ Private

\* The explicit web toggle makes the first step a search nobody planned.
ForcedSearch(t) ==
    /\ At(t, "loop") /\ turn[t].steps = 0
    /\ Become(t, [turn[t] EXCEPT !.pc = "tool", !.steps = 1])
    /\ Private

\* The connection is given back before the planner is asked: a commit.
Plan(t) ==
    /\ At(t, "loop")
    /\ LET n == turn[t].steps + 1
           r == Pays(Commit(turn[t]), {<<"plan", n>>})
       IN  \E next \in {"tool", "gathered"} :
               Become(t, [r EXCEPT !.pc = next, !.steps = n,
                                   !.gathered = @ \union {<<"plan", n>>}])
    /\ Private

\* execute_tool: a document search stages its embedding, a paid web search is
\* counted, and an error degrades to one last retrieval, which may fail too.
Tool(t) ==
    /\ At(t, "tool")
    /\ LET n    == turn[t].steps
           next == IF n = MaxSteps THEN "gathered" ELSE "loop"
           embedded(to) == [Pays(turn[t], {<<"embed", n>>}) EXCEPT
                                !.pc = to, !.staged = @ \union {<<"embed", n>>}]
       IN  \/ Become(t, embedded(next))
           \/ Become(t, [Pays(turn[t], {<<"web", n>>}) EXCEPT
                            !.pc = next, !.gathered = @ \union {<<"web", n>>}])
           \/ Become(t, [turn[t] EXCEPT !.pc = next])
           \/ Become(t, embedded("gathered"))
           \/ Become(t, [turn[t] EXCEPT !.pc = "gathered"])
    /\ Private

Planned(spends) == {s \in spends : s[1] = "plan"}

\* The tokens of the loop are added to those of the tiebreak.
\* Mutant: they replace them.
SumOver(carried, gathered) == Planned(gathered)
Sum(carried, gathered) == carried \union Planned(gathered)

\* What the loop spent joins the turn, and the budget fit decides the route.
Route(t) ==
    /\ At(t, "gathered")
    /\ LET r == turn[t]
       IN  \E route \in Routes \ {"talk"} :
             Become(t, [r EXCEPT !.pc = IF route = "decline" THEN "write" ELSE "history",
                                 !.route = route,
                                 !.carried = Sum(r.carried, r.gathered),
                                 !.staged = @ \union (r.gathered \ Planned(r.gathered)),
                                 !.gathered = {}, !.steps = 0])
    /\ Private

-----------------------------------------------------------------------------
(* _assemble_history: the rolling summary. *)

\* Mutant: every summary is trusted.
ValidAlways(r, path) == r.memory.upto # None
Valid(r, path) == r.memory.upto # None /\ r.memory.upto \in path

\* A summary whose anchor is not above the message is dropped, and the drop
\* committed, before anything else.
Forget(t) ==
    /\ At(t, "history")
    /\ turn[t].memory # NoMemory
    /\ ~Valid(turn[t], Ancestors(turn[t].asked))
    /\ exists /\ holder = None
    /\ memory' = NoMemory
    /\ Become(t, [Commit(turn[t]) EXCEPT !.memory = NoMemory])
    /\ UNCHANGED <<msgs, exists, holder, rescue>>

\* What a fold adds: all but the last Keep of the path, after the anchor.
Older(path) == {m \in path : Cardinality({n \in path : n > m}) >= Keep}
ToFold(r, path) == {m \in Older(path) : m > r.memory.upto}

\* The summary is current, too short a path, or no utility model to fold it:
\* the whole path goes into the prompt, with the summary when there is one.
Recall(t) ==
    /\ At(t, "history")
    /\ LET r    == turn[t]
           path == Ancestors(r.asked)
       IN  /\ r.memory = NoMemory \/ Valid(r, path)
           /\ Become(t, [r EXCEPT !.pc = "prompted", !.prompt = r.memory.covers \union path])
    /\ Private

\* Mutant: the old summary is left out of the fold.
FoldedAnew(r, path) == [covers |-> ToFold(r, path), upto |-> Max(Older(path))]
\* What the summary was asked to tell of: the anchor moves on also when the reply
\* is not readable and fold_summary gives back the text it had.
Folded(r, path) == [covers |-> r.memory.covers \union ToFold(r, path),
                    upto |-> Max(Older(path))]

\* fold_summary is asked, and both columns are committed.
FoldSummary(t) ==
    /\ At(t, "history")
    /\ LET r    == turn[t]
           path == Ancestors(r.asked)
           new  == Folded(r, path)
       IN  /\ r.memory = NoMemory \/ Valid(r, path)
           /\ Cardinality(path) > Trigger /\ ToFold(r, path) # {}
           /\ exists /\ holder = None
           /\ memory' = new
           /\ Become(t, [Pays(Commit(r), {<<"fold", 0>>}) EXCEPT
                            !.pc = "folded", !.memory = new,
                            !.prompt = new.covers \union (path \ Older(path))])
    /\ UNCHANGED <<msgs, exists, holder, rescue>>

\* The fold's own usage, in a commit after the summary's.
RecordFold(t) ==
    /\ At(t, "folded")
    /\ Become(t, [turn[t] EXCEPT !.pc = "prompted", !.owing = @ \ {<<"fold", 0>>}])
    /\ Private

-----------------------------------------------------------------------------
(* The answer. *)

\* The prompt is sent; the turn reads its copy of the summary no more.
Prompted(r) == [r EXCEPT !.memory = NoMemory, !.prompt = {}]

\* The read transaction is committed before the model streams, except on the
\* route with sources.
OpenStream(t) ==
    /\ At(t, "prompted") /\ turn[t].route # "judged"
    /\ LET r == IF turn[t].route = "stream" THEN turn[t] ELSE Commit(turn[t])
       IN  Become(t, [Prompted(r) EXCEPT !.pc = "streaming"])
    /\ Private

\* A delta with text reaches the client.
Token(t) ==
    /\ At(t, "streaming") /\ ~turn[t].partial
    /\ Become(t, [turn[t] EXCEPT !.partial = TRUE])
    /\ Private

\* The stream ends, with or without the gateway's usage; what the turn carried
\* is added to it.
EndStream(t) ==
    /\ At(t, "streaming")
    /\ \E reported \in {{}, {<<"synth", 0>>}} :
        Become(t, [Pays(turn[t], reported) EXCEPT
                        !.pc = "write", !.usage = reported \union turn[t].carried])
    /\ Private

\* synthesize_with_gatekeeper: answer, judge, at most one retry.
Judged ==
    {{<<"synth", 0>>, <<"judge", 0>>} \union retry : retry \in {{}, {<<"synth", 1>>}}}

\* The text is shown at once.
Gatekeep(t) ==
    /\ At(t, "prompted") /\ turn[t].route = "judged"
    /\ \E paid \in Judged :
        Become(t, [Pays(Prompted(turn[t]), paid) EXCEPT
                        !.pc = "write", !.partial = TRUE,
                        !.usage = paid \union turn[t].carried])
    /\ Private

LockForAnswer(t) == LockChat(t, "write", "counted", turn[t].asked)

\* add_message's commit.  The buffer is still full.
StoreAnswer(t) ==
    /\ At(t, "counted")
    /\ Insert(turn[t].asked, "assistant", turn[t].slot, t, FALSE)
    /\ holder' = None
    /\ Become(t, [Commit(turn[t]) EXCEPT !.pc = "stored", !.slot = 0])
    /\ UNCHANGED <<memory, exists, rescue>>

\* _persist_assistant's second commit, of the citations; then the buffer is
\* cleared.
StoreCitations(t) ==
    /\ At(t, "stored")
    /\ Become(t, [turn[t] EXCEPT !.pc = "record", !.partial = FALSE])
    /\ Private

\* A declined question has no usage of its own, but the loop may have spent.
RecordUsage(t) ==
    /\ At(t, "record")
    /\ LET r   == turn[t]
           due == IF r.route = "decline" THEN r.carried ELSE r.usage
       IN  Become(t, [r EXCEPT !.pc = "recorded", !.owing = @ \ due,
                               !.carried = {}, !.usage = {}])
    /\ Private

\* An answer from sources may be drawn in blocks, by one more call of the model;
\* whether it is made depends on a global setting.  The commit of the blocks
\* stages no usage.
DrawBlocks(t) ==
    /\ At(t, "recorded")
    /\ \E call \in IF turn[t].route \in {"stream", "judged"} THEN {{}, Unmetered} ELSE {{}} :
        Become(t, [Pays(turn[t], call) EXCEPT !.pc = "closing"])
    /\ Private

\* The done frame.
Close(t) ==
    /\ At(t, "closing")
    /\ Become(t, Over)
    /\ Private

-----------------------------------------------------------------------------
(* What ends a turn early. *)

Active(t) == turn[t].pc \notin {"idle", "over"}

\* The session is closed: its lock is released and its staged rows are lost.
Drop(t) ==
    /\ Active(t)
    /\ holder' = IF holder = t THEN None ELSE holder
    /\ UNCHANGED <<msgs, memory, exists>>

\* A model, a store or the database raises: an error frame, and what was shown
\* is not kept.
Fail(t) ==
    /\ Drop(t)
    /\ Become(t, Over)
    /\ UNCHANGED rescue

\* The client goes away: the request is cancelled where it stands.  What it had
\* shown is handed to a task that outlives it (persist_stopped_detached).
Abort(t) ==
    /\ Drop(t)
    /\ IF turn[t].partial
       THEN /\ Become(t, [Over EXCEPT !.asked = turn[t].asked])
            /\ rescue' = [rescue EXCEPT ![t] = "owed"]
       ELSE Become(t, Over) /\ UNCHANGED rescue

\* The detached task, in a session of its own: add_message's two halves.
RescueLock(t) ==
    /\ rescue[t] = "owed"
    /\ holder = None
    /\ IF exists
       THEN /\ holder' = t
            /\ turn' = [turn EXCEPT ![t].slot = Cardinality(Children(turn[t].asked))]
            /\ rescue' = [rescue EXCEPT ![t] = "counted"]
       ELSE /\ rescue' = [rescue EXCEPT ![t] = "lost"]
            /\ turn' = [turn EXCEPT ![t] = Over]
            /\ UNCHANGED holder
    /\ UNCHANGED <<msgs, memory, exists>>

\* Mutant: the row is not marked as stopped.
RescueStoreUnmarked(t) ==
    /\ rescue[t] = "counted"
    /\ Insert(turn[t].asked, "assistant", turn[t].slot, t, FALSE)
    /\ holder' = None
    /\ rescue' = [rescue EXCEPT ![t] = "kept"]
    /\ turn' = [turn EXCEPT ![t] = Over]
    /\ UNCHANGED <<memory, exists>>

RescueStore(t) ==
    /\ rescue[t] = "counted"
    /\ Insert(turn[t].asked, "assistant", turn[t].slot, t, TRUE)
    /\ holder' = None
    /\ rescue' = [rescue EXCEPT ![t] = "kept"]
    /\ turn' = [turn EXCEPT ![t] = Over]
    /\ UNCHANGED <<memory, exists>>

\* An estimate of the stopped turn's tokens, in a commit of its own.
RescueMeter(t) ==
    /\ rescue[t] = "kept"
    /\ rescue' = [rescue EXCEPT ![t] = "metered"]
    /\ UNCHANGED <<msgs, memory, exists, holder, turn>>

\* The detached task raises (logged, never raised again), or the process dies;
\* for the requests of that process its death is a Fail.
RescueDies(t) ==
    /\ rescue[t] \in {"owed", "counted", "kept"}
    /\ rescue' = [rescue EXCEPT ![t] = "lost"]
    /\ turn' = [turn EXCEPT ![t] = Over]
    /\ holder' = IF holder = t THEN None ELSE holder
    /\ UNCHANGED <<msgs, memory, exists>>

\* delete_chat takes the messages along.  msgs is kept to tell of the turns
\* that have not noticed.
DeleteChat ==
    /\ exists /\ holder = None
    /\ exists' = FALSE
    /\ UNCHANGED <<msgs, memory, holder, turn, rescue>>

Ask(t) == Load(t) \/ Resolve(t) \/ LockForUser(t) \/ InsertUser(t) \/ Answer(t) \/ Regenerate(t)
Gather(t) == Begin(t) \/ Triage(t) \/ SingleShot(t) \/ ForcedSearch(t) \/ Plan(t) \/ Tool(t)
             \/ Route(t)
Assemble(t) == Forget(t) \/ Recall(t) \/ FoldSummary(t) \/ RecordFold(t)
Reply(t) == OpenStream(t) \/ Token(t) \/ EndStream(t) \/ Gatekeep(t) \/ LockForAnswer(t)
            \/ StoreAnswer(t) \/ StoreCitations(t) \/ RecordUsage(t) \/ DrawBlocks(t)
            \/ Close(t)
Rescue(t) == RescueLock(t) \/ RescueStore(t) \/ RescueMeter(t)

Next ==
    \/ \E t \in Turns : \/ Ask(t) \/ Gather(t) \/ Assemble(t) \/ Reply(t)
                        \/ Rescue(t) \/ RescueDies(t) \/ Fail(t) \/ Abort(t)
    \/ DeleteChat

\* A row lock is held for two statements, and a detached task is never
\* cancelled: both go on.
Fairness ==
    \A t \in Turns : /\ WF_vars(InsertUser(t) \/ StoreAnswer(t))
                     /\ SF_vars(RescueLock(t)) /\ WF_vars(RescueStore(t))

Spec == Init /\ [][Next]_vars
FairSpec == Spec /\ Fairness

-----------------------------------------------------------------------------
(* Properties. *)

\* Roots are user messages, roles alternate, and the siblings of a message are
\* numbered without gap or repetition however requests, answers and detached
\* tasks interleave (active_leaf and the client's branch switcher rely on it;
\* NULL parents have no unique constraint behind them).
TreeWellFormed ==
    \A m \in DOMAIN msgs :
        /\ msgs[m].parent = None => msgs[m].role = "user"
        /\ msgs[m].parent # None => msgs[m].role # msgs[msgs[m].parent].role
        /\ {msgs[n].index : n \in Children(msgs[m].parent)}
               = 0..(Cardinality(Children(msgs[m].parent)) - 1)

\* The stored summary was asked to tell of exactly the path that ends at its
\* anchor, also when two turns on different branches fold with stale copies.
SummaryMatchesAnchor ==
    memory.covers = IF memory.upto = None THEN {} ELSE Path(memory.upto)

\* The model is told of the whole path above the question, as far as the folds'
\* replies were readable, and of no message of another branch, whatever was
\* summarised in between.
PromptIsPath ==
    \A t \in Turns : At(t, "prompted") => turn[t].prompt = Ancestors(turn[t].asked)

\* "Full spend recorded on every path": a turn that gets to its done frame has
\* every call whose usage it was told in the ledger, on each of the five routes and
\* across the commits that store what was staged, except the call that draws blocks
\* (generate_blocks), which is paid for and recorded nowhere.
SpendOnRecord ==
    \A t \in Turns : At(t, "closing") => turn[t].owing \subseteq Unmetered

\* An answer the client stopped after it had seen text is stored, as stopped,
\* unless the chat is deleted, or the task that stores it dies.
StoppedIsKept ==
    \A t \in Turns :
        rescue[t] = "owed" ~>
            \/ \E m \in DOMAIN msgs : msgs[m].by = t /\ msgs[m].stopped
            \/ ~exists
            \/ rescue[t] = "lost"

\* POST /answer cannot fork a second answer: "a double call (or a reload racing
\* the first stream) can't fork a second answer under the same user message".
\* Checked where nobody regenerates (see AnswersOnly).
AnsweredOnce ==
    \A m \in DOMAIN msgs : msgs[m].role = "user" =>
        Cardinality(Children(m)) <= 1
=============================================================================
