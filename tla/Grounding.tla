----------------------------- MODULE Grounding ------------------------------
(***************************************************************************)
(* What a grounded turn of stream_reply puts before the model: pinned,     *)
(* retrieved and formerly cited chunks, chunks of the chat's attachments   *)
(* and web hits, fitted to the token budget with one numbering for the     *)
(* sources frame, the prompt and the citations that are stored; the        *)
(* history that takes what is left; and what is added after the count.     *)
(*                                                                         *)
(* A chunk is read from the vector store and its document's row looked up  *)
(* later; documents are deleted meanwhile, points first.  Token counts are *)
(* small numbers; of a turn's text only its length is kept.                *)
(***************************************************************************)
EXTENDS Naturals, Sequences, SequencesExt, FiniteSets

CONSTANTS
    Docs, Chunks, DocOf,
    Clips, Web, Files,   \* chunks of attachments; web results; inlined attachments
    Cost,                \* tokens of each of them
    Overhead, Preamble,  \* tokens of a block's tags, and before the blocks
    System, SystemShare, SourcesShare, HistoryShare,
    Shortest,            \* _MIN_CANNONBALL_TOKENS
    Summary, Note, Label, \* tokens of the rolling summary, of TRUNCATION_NOTE and of "Question:"
    Recent,              \* _SUMMARY_KEEP_RECENT
    Lengths,             \* tokens a question or an answer can have
    TopK, MaxTurns       \* MaxTurns: bound

Sources == Chunks \union Clips \union Web \union Files
Budget == SystemShare + SourcesShare + HistoryShare

VARIABLES
    policy,    \* workspace.fallback_policy
    rows,      \* documents in Postgres
    points,    \* documents with points in Qdrant
    answers,   \* the stored turns, oldest first
    turn       \* the turn that runs

vars == <<policy, rows, points, answers, turn>>

Idle == [pc |-> "idle", length |-> 0, files |-> <<>>, pinned |-> <<>>, found |-> <<>>,
         weak |-> FALSE, web |-> <<>>, cited |-> <<>>, clips |-> <<>>, refs |-> <<>>,
         frame |-> <<>>, blocks |-> <<>>, prompt |-> <<>>]

TypeOK ==
    /\ policy \in {"decline", "general_knowledge"}
    /\ rows \subseteq Docs /\ points \subseteq rows
    /\ Len(answers) <= MaxTurns
    /\ \A i \in DOMAIN answers :
        /\ answers[i].kind \in {"grounded", "general", "declined"}
        /\ answers[i].cites \subseteq Nat \X (Chunks \union Clips \union Web)
    /\ turn.pc \in {"idle", "asked", "pinned", "retrieved", "gathered", "resolved", "prompted"}
    /\ turn.blocks \in Seq(Sources)
    /\ turn.prompt \in Seq({"system", "summary", "note", "turn", "user", "label"} \X Nat)

Init ==
    /\ policy \in {"decline", "general_knowledge"}
    /\ rows = Docs /\ points = Docs
    /\ answers = <<>> /\ turn = Idle

\* run_delete: the points go before the row.
DeletePoints(d) ==
    /\ points' = points \ {d}
    /\ UNCHANGED <<policy, rows, answers, turn>>

DeleteRow(d) ==
    /\ d \in rows \ points
    /\ rows' = rows \ {d}
    /\ UNCHANGED <<policy, points, answers, turn>>

-----------------------------------------------------------------------------
(* Gathering. *)

Total(s) == FoldLeft(LAMBDA n, x : n + x, 0, s)
Costs(s) == [i \in DOMAIN s |-> Cost[s[i]]]

\* Longest prefix within the limit.
Prefix(s, costs, limit) ==
    LET fits == {n \in 0..Len(s) : Total(SubSeq(costs, 1, n)) <= limit}
    IN  SubSeq(s, 1, CHOOSE n \in fits : \A m \in fits : m <= n)

\* merge_chunks: the first of equal chunks stays.
Merge(s) ==
    LET firsts == {i \in DOMAIN s : \A j \in 1..i - 1 : s[j] # s[i]}
        order == SetToSortSeq(firsts, <)
    IN  [i \in DOMAIN order |-> s[order[i]]]

Listings(S, n) == UNION {{s \in [1..k -> S] : IsInjective(s)} : k \in 0..n}
Stored == {c \in Chunks : DocOf[c] \in points}
Minus(a, b) == IF a > b THEN a - b ELSE 0

SourcesBudget == Minus(SourcesShare, turn.length)

Ask ==
    /\ turn.pc = "idle" /\ Len(answers) < MaxTurns
    /\ \E n \in Lengths, files \in Listings(Files, 1) :
        turn' = [Idle EXCEPT !.pc = "asked", !.length = n, !.files = files]
    /\ UNCHANGED <<policy, rows, points, answers>>

\* Pinned documents are read whole, up to half of the budget.
Pin ==
    /\ turn.pc = "asked"
    /\ \E d \in SUBSET rows :
        LET all == SetToSeq({c \in Stored : DocOf[c] \in d})
        IN  turn' = [turn EXCEPT !.pc = "pinned",
                        !.pinned = Prefix(all, Costs(all), SourcesBudget \div 2)]
    /\ UNCHANGED <<policy, rows, points, answers>>

\* The single shot, or what the agent loop gathered before it.
Retrieve ==
    /\ turn.pc = "pinned"
    /\ \E found \in Listings(Stored, TopK), weak \in BOOLEAN, web \in Listings(Web, 1) :
        turn' = [turn EXCEPT !.pc = "retrieved", !.found = found, !.weak = weak, !.web = web]
    /\ UNCHANGED <<policy, rows, points, answers>>

\* _previous_citation_refs and get_chunks_by_refs: in the order of their markers;
\* references to web pages and to chunks of attachments find no chunk.
CitedBefore ==
    IF answers = <<>> THEN <<>>
    ELSE LET cites == SelectSeq(SetToSortSeq(Last(answers).cites, LAMBDA a, b : a[1] < b[1]),
                                LAMBDA c : c[2] \in Stored)
         IN  [i \in DOMAIN cites |-> cites[i][2]]

\* Then the attachments of the chat that were routed to retrieval are searched.
Backfill ==
    /\ turn.pc = "retrieved"
    /\ \E clips \in Listings(Clips, 1) :
        turn' = [turn EXCEPT !.pc = "gathered", !.clips = clips,
                    !.cited = IF Len(turn.found) < TopK THEN CitedBefore ELSE <<>>]
    /\ UNCHANGED <<policy, rows, points, answers>>

-----------------------------------------------------------------------------
(* Numbering and fitting. *)

Merged == Merge(turn.pinned \o turn.found \o turn.cited \o turn.clips)

\* _source_refs: a chunk whose document is gone ends the turn.  The attachments were
\* looked up before they were searched (for points without a row see Attachments).
\* What the turn reads no more is put back to empty, here and below.
Resolve ==
    /\ turn.pc = "gathered"
    /\ IF \A c \in Range(Merged) \ Clips : DocOf[c] \in rows
       THEN turn' = [turn EXCEPT !.pc = "resolved", !.refs = Merged, !.found = <<>>,
                                 !.clips = <<>>]
       ELSE turn' = Idle
    /\ UNCHANGED <<policy, rows, points, answers>>

Rendered(s) == [i \in DOMAIN s |-> Cost[s[i]] + Overhead]

\* Mutant: a block that does not fit is skipped and the next one tried.
FittedGreedy(s, limit) ==
    FoldLeft(LAMBDA kept, x : IF Total(Rendered(Append(kept, x))) <= Minus(limit, Preamble)
                              THEN Append(kept, x) ELSE kept, <<>>, s)

\* fit_sources: a prefix; a first block too long for the budget is cut to it.
Fitted(s, limit) ==
    LET room == Minus(limit, Preamble)
        kept == Prefix(s, Rendered(s), room)
    IN  IF kept = <<>> /\ s # <<>> /\ room >= Overhead + Shortest THEN <<s[1]>> ELSE kept

\* The tokens of the fitted blocks: what was cut fills the room.
DataCost(kept, limit) ==
    LET all == Total(Rendered(kept)) + Preamble IN IF all > limit THEN limit ELSE all

\* _budget_history: newest first; the newest is cut to the room if it is long.
Kept(past, room) ==
    LET newest == Reverse(past)
        cut == IF past # <<>> /\ newest[1] > room /\ room >= Shortest
               THEN [newest EXCEPT ![1] = room] ELSE newest
    IN  Prefix(cut, cut, room)

\* The questions and answers of the branch.
Past == FoldLeft(LAMBDA s, a : s \o <<a.asked, a.length>>, <<>>, answers)

\* _assemble_history: the whole branch, with or without a summary, or the messages
\* after a fold; a fold that came back unreadable leaves none.  ChatTurn has it in
\* detail.
Recalled ==
    [past : {Past, SubSeq(Past, Minus(Len(Past), Recent) + 1, Len(Past))},
     summary : IF Past = <<>> THEN {FALSE} ELSE BOOLEAN]

\* _history_messages: a turn that does not fit is told of by the note.
HistoryMessages(h, kept) ==
    (IF h.summary THEN <<<<"summary", Summary>>>> ELSE <<>>)
    \o (IF Len(kept) < Len(h.past) THEN <<<<"note", Note>>>> ELSE <<>>)
    \o Reverse([i \in DOMAIN kept |-> <<"turn", kept[i]>>])

\* The prompt by its parts, each with its tokens.  The history gets the room that
\* the system prompt and the content leave; its summary, its note and the label
\* before the question have no room kept for them.
Prompt(content, label, h) ==
    LET kept == Kept(h.past, Minus(Budget, System + content))
    IN  <<<<"system", System>>>> \o HistoryMessages(h, kept)
        \o <<<<"user", content>>, <<"label", label>>>>

\* no_answer, after the fit: weak retrieval is made up for by pinned or formerly
\* cited chunks that are in the frame, not by chunks of attachments.
NoAnswer(kept, frame) ==
    \/ kept = <<>>
    \/ turn.weak /\ Range(turn.pinned \o turn.cited) \intersect Range(frame) = {}

Store(kind, length, cites) ==
    /\ answers' = Append(answers, [kind |-> kind, asked |-> turn.length,
                                   length |-> length, cites |-> cites])
    /\ turn' = Idle

Frame(fitted) == SubSeq(turn.refs \o turn.web, 1, Len(fitted))

Assemble ==
    /\ turn.pc = "resolved"
    /\ LET fitted == Fitted(turn.refs \o turn.web, SourcesBudget)
           blocks == fitted \o turn.files
           data == DataCost(fitted, SourcesBudget) + Total(Rendered(turn.files))
       IN  IF ~NoAnswer(blocks, Frame(fitted))
           THEN \E h \in Recalled :
                /\ turn' = [turn EXCEPT !.pc = "prompted", !.refs = <<>>, !.web = <<>>,
                              !.frame = Frame(fitted), !.blocks = blocks,
                              !.prompt = Prompt(data + turn.length, Label, h)]
                /\ UNCHANGED answers
           ELSE IF policy = "decline"
           THEN \E n \in Lengths : Store("declined", n, {})
           ELSE \E h \in Recalled :
                /\ turn' = [turn EXCEPT !.pc = "prompted", !.refs = <<>>, !.web = <<>>,
                              !.prompt = Prompt(turn.length, 0, h)]
                /\ UNCHANGED answers
    /\ UNCHANGED <<policy, rows, points>>

-----------------------------------------------------------------------------
(* The answer. *)

\* parse_citation_markers: markers past the frame are inert.
Cited(written) == {<<m, turn.frame[m]>> : m \in written \intersect DOMAIN turn.frame}

Reply ==
    /\ turn.pc = "prompted"
    /\ \E n \in Lengths, written \in SUBSET (1..Len(turn.blocks)) :
        Store(IF turn.blocks = <<>> THEN "general" ELSE "grounded", n, Cited(written))
    /\ UNCHANGED <<policy, rows, points>>

\* UpstreamError, another exception, or an abort: see ChatTurn.
Give ==
    /\ turn.pc # "idle"
    /\ turn' = Idle
    /\ UNCHANGED <<policy, rows, points, answers>>

Next ==
    \/ \E d \in Docs : DeletePoints(d) \/ DeleteRow(d)
    \/ Ask \/ Pin \/ Retrieve \/ Backfill \/ Resolve \/ Assemble \/ Reply \/ Give

Spec == Init /\ [][Next]_vars

-----------------------------------------------------------------------------
(* Properties. *)

\* A number the model writes names one thing: the citation stored under it is the
\* block the model was shown under it, whatever was dropped, cut, found twice or
\* appended after the fit.
CitesWhatWasShown ==
    [][answers' # answers => \A c \in Last(answers').cites : turn.blocks[c[1]] = c[2]]_vars

\* "rather than streaming an answer over an effectively empty sources frame":
\* with a weak retrieval the model answers from blocks only when a pinned or
\* formerly cited chunk is one of them.  And the text of a prompt passes the context
\* budget by no more than what is added after the count (the summary, the note of
\* messages left out, the label of the question), if nothing was inlined and the
\* question alone leaves room.
Tokens(parts) == Total([i \in DOMAIN parts |-> parts[i][2]])
Uncounted == SelectSeq(turn.prompt, LAMBDA p : p[1] \in {"summary", "note", "label"})
PromptsHold ==
    turn.pc = "prompted" =>
        /\ turn.blocks # <<>> /\ turn.weak =>
            Range(turn.pinned \o turn.cited) \intersect Range(turn.blocks) # {}
        /\ turn.files = <<>> /\ System + turn.length <= Budget =>
            Tokens(turn.prompt) <= Budget + Tokens(Uncounted)
=============================================================================
