------------------------------ MODULE Streams -------------------------------
(***************************************************************************)
(* One model call as the client of the provider sees it: the event stream  *)
(* of ChatGPTClient._events, which may say the same text as deltas, when a *)
(* part ends, when its item ends and once more at completion, and the      *)
(* chunk stream of LiteLLMStreamer.  What a provider leaves out, and where *)
(* the stream breaks off, is its choice; the items of an answer may be     *)
(* interleaved.                                                            *)
(*                                                                         *)
(* An item is a message, with its parts, or a tool call, with its          *)
(* arguments; texts are short sequences.  A revised answer ends with other *)
(* texts than its deltas began.                                            *)
(***************************************************************************)
EXTENDS Naturals, Sequences, SequencesExt, FiniteSets, FiniteSetsExt

CONSTANTS
    Scripts,  \* the answers: sequences of items
    Other     \* a text a revised answer ends with

VARIABLES
    script, revised, transport,  \* what the provider has to say, and how
    said,      \* per part, the letters sent as deltas
    told,      \* the parts and items whose end was sent: <<i, c>>, <<i, 0>>
    texts,     \* client: texts, per part
    calls,     \* client: calls, per item
    out,       \* what the caller was given: <<i, c, letter>>
    tools,     \* the tool calls it was given
    metered,   \* and whether the usage
    result

streamVars == <<script, revised, transport, said, told, texts, calls, out, tools, metered, result>>

Nameless == [named |-> FALSE, arguments |-> <<>>]
Call(arguments) == [named |-> TRUE, arguments |-> arguments]

Messages == {i \in DOMAIN script : script[i].kind = "message"}
Tools == {i \in DOMAIN script : script[i].kind = "call"}
Parts == UNION {{i} \X (DOMAIN script[i].texts) : i \in DOMAIN script}
Text(p) == script[p[1]].texts[p[2]]
\* A tool call has its arguments for its one text; they are not revised.
Full(p) == IF revised /\ p[1] \in Messages THEN Other ELSE Text(p)

TypeOK ==
    /\ script \in Scripts /\ revised \in BOOLEAN /\ transport \in {"chatgpt", "gateway"}
    /\ \A p \in Parts : said[p] \in 0..Len(Text(p)) /\ texts[p] \in Seq(Range(Text(p)) \union Range(Other))
    /\ told \subseteq Parts \union ((DOMAIN script) \X {0})
    /\ DOMAIN calls \subseteq Tools /\ \A k \in DOMAIN tools : tools[k].named
    /\ metered \in BOOLEAN /\ result \in {"reading", "done", "failed", "closed"}

Init ==
    /\ script \in Scripts /\ transport \in {"chatgpt", "gateway"}
    /\ revised \in BOOLEAN /\ (revised => transport = "chatgpt")
    /\ (transport = "gateway" => Cardinality(Parts) = 1 /\ Tools = {})
    /\ said = [p \in Parts |-> 0] /\ told = {}
    /\ texts = [p \in Parts |-> <<>>] /\ calls = <<>>
    /\ out = <<>> /\ tools = <<>> /\ metered = FALSE /\ result = "reading"

provider == <<script, revised, transport>>

-----------------------------------------------------------------------------
(* The client. *)

Emitted(p, text) == [k \in DOMAIN text |-> <<p[1], p[2], text[k]>>]
Emit(p, text) == out' = out \o Emitted(p, text)

\* Mutant: what was streamed before is given again.
RestWhole(previous, full) == IF IsPrefix(previous, full) THEN full ELSE <<>>

\* recover_text: what of the full text the caller does not have yet; nothing,
\* if the full text does not continue what it has.
Rest(previous, full) ==
    IF IsPrefix(previous, full) THEN SubSeq(full, Len(previous) + 1, Len(full)) ELSE <<>>

Recover(p) == texts' = [texts EXCEPT ![p] = Full(p)] /\ Emit(p, Rest(texts[p], Full(p)))

\* calls.setdefault(index, {})
Known(i) == IF i \in DOMAIN calls THEN calls[i] ELSE Nameless
SetCall(i, call) == calls' = [j \in DOMAIN calls \union {i} |-> IF j = i THEN call ELSE calls[j]]

\* recover_item for some items, in their order: texts, then the calls in full.
PartsOf(S) == SetToSortSeq({p \in Parts : p[1] \in S \intersect Messages},
                           LAMBDA p, q : p[1] < q[1] \/ (p[1] = q[1] /\ p[2] < q[2]))
RecoverItems(S) ==
    LET ps == PartsOf(S)
        known == DOMAIN calls \union (S \intersect Tools)
    IN  /\ texts' = [p \in Parts |-> IF p \in Range(ps) THEN Full(p) ELSE texts[p]]
        /\ out' = out \o FlattenSeq([k \in DOMAIN ps |-> Emitted(ps[k], Rest(texts[ps[k]], Full(ps[k])))])
        /\ calls' = [i \in known |-> IF i \in S THEN Call(Text(<<i, 1>>)) ELSE calls[i]]

-----------------------------------------------------------------------------
(* The events. *)

Reading == result = "reading"
Open(p) == Reading /\ {p, <<p[1], 0>>} \intersect told = {}

\* response.output_text.delta, or a chunk of the gateway.
TextDelta(p) ==
    /\ Open(p) /\ p[1] \in Messages /\ said[p] < Len(Text(p))
    /\ said' = [said EXCEPT ![p] = @ + 1]
    /\ texts' = [texts EXCEPT ![p] = Append(@, Text(p)[said'[p]])]
    /\ Emit(p, <<Text(p)[said'[p]]>>)
    /\ UNCHANGED <<provider, told, calls, tools, metered, result>>

\* response.output_text.done
TextDone(p) ==
    /\ transport = "chatgpt" /\ Open(p) /\ p[1] \in Messages
    /\ told' = told \union {p} /\ Recover(p)
    /\ UNCHANGED <<provider, said, calls, tools, metered, result>>

\* response.output_item.added of a call: its name and no arguments yet.
CallAdded(i) ==
    /\ Open(<<i, 1>>) /\ said[<<i, 1>>] = 0 /\ i \notin DOMAIN calls
    /\ SetCall(i, Call(<<>>))
    /\ UNCHANGED <<provider, said, told, texts, out, tools, metered, result>>

\* response.function_call_arguments.delta
ArgumentsDelta(i) ==
    LET p == <<i, 1>>
    IN  /\ Open(p) /\ said[p] < Len(Text(p))
        /\ said' = [said EXCEPT ![p] = @ + 1]
        /\ SetCall(i, [Known(i) EXCEPT !.arguments = Append(@, Text(p)[said'[p]])])
        /\ UNCHANGED <<provider, told, texts, out, tools, metered, result>>

\* response.function_call_arguments.done
ArgumentsDone(i) ==
    /\ Open(<<i, 1>>)
    /\ told' = told \union {<<i, 1>>} /\ SetCall(i, [Known(i) EXCEPT !.arguments = Full(<<i, 1>>)])
    /\ UNCHANGED <<provider, said, texts, out, tools, metered, result>>

\* response.output_item.done
ItemDone(i) ==
    /\ transport = "chatgpt" /\ Reading /\ <<i, 0>> \notin told
    /\ told' = told \union {<<i, 0>>} /\ RecoverItems({i})
    /\ UNCHANGED <<provider, said, tools, metered, result>>

\* The provider has said this part whole, in one way or another.
Whole(p) == (said[p] = Len(Text(p)) /\ ~revised) \/ {p, <<p[1], 0>>} \intersect told # {}

\* response.completed, with the output or without it.  A call without a name is
\* an error; the texts have been given by then.
Completed ==
    /\ transport = "chatgpt" /\ Reading
    /\ \E listed \in {{}, DOMAIN script} :
        /\ \A p \in Parts : p[1] \in listed \/ Whole(p)
        /\ RecoverItems(listed)
    /\ LET order == SetToSortSeq(DOMAIN calls', <)
           nameless == {k \in DOMAIN order : ~calls'[order[k]].named}
           good == Min(nameless \union {Len(order) + 1}) - 1
       IN  /\ tools' = [k \in 1..good |-> calls'[order[k]]]
           /\ result' = IF nameless = {} THEN "done" ELSE "failed"
           /\ metered' = (nameless = {})
    /\ UNCHANGED <<provider, said, told>>

\* The usage of the gateway comes in a chunk of its own, after the text.
UsageChunk ==
    /\ transport = "gateway" /\ Reading /\ ~metered /\ \A p \in Parts : said[p] = Len(Text(p))
    /\ metered' = TRUE
    /\ UNCHANGED <<provider, said, told, texts, calls, out, tools, result>>

\* [DONE] of the gateway, which ends the answer.
Done ==
    /\ transport = "gateway" /\ Reading /\ metered
    /\ result' = "done"
    /\ UNCHANGED <<provider, said, told, texts, calls, out, tools, metered>>

\* The connection is closed: an error before response.completed, but before
\* [DONE] LiteLLMStreamer takes it for the end.
Ends ==
    /\ Reading
    /\ result' = IF transport = "chatgpt" THEN "failed" ELSE "done"
    /\ UNCHANGED <<provider, said, told, texts, calls, out, tools, metered>>

\* Another status than 200, an error event, an invalid or cut event, or a broken
\* connection.
Fails ==
    /\ Reading /\ result' = "failed"
    /\ UNCHANGED <<provider, said, told, texts, calls, out, tools, metered>>

\* The caller stops reading: aclose.
Closes ==
    /\ Reading /\ result' = "closed"
    /\ UNCHANGED <<provider, said, told, texts, calls, out, tools, metered>>

Next ==
    \/ \E p \in Parts : TextDelta(p) \/ TextDone(p)
    \/ \E i \in Tools : CallAdded(i) \/ ArgumentsDelta(i) \/ ArgumentsDone(i)
    \/ \E i \in DOMAIN script : ItemDone(i)
    \/ Completed \/ UsageChunk \/ Done \/ Ends \/ Fails \/ Closes

Spec == Init /\ [][Next]_streamVars

-----------------------------------------------------------------------------
\* The letters of a part that the caller was given.
Given(p) == LET s == SelectSeq(out, LAMBDA x : <<x[1], x[2]>> = p) IN [k \in DOMAIN s |-> s[k][3]]

\* The answer ended with response.completed, or with [DONE].  A connection that
\* LiteLLMStreamer sees closed before is left out: that answer may be cut.
Answered == result = "done" /\ (transport = "gateway" => metered)

\* Whatever the provider repeats, leaves out, interleaves or revises, the caller
\* gets of each part what the deltas said or what its end said, once and never a
\* mixture; an answer that was ended has every part and every tool call
\* with its whole arguments, in their order; what ChatGPT breaks off is an error.
\* _events, recover_text, recover_item, complete, LiteLLMStreamer.stream.
AnswersAreWhole ==
    /\ \A p \in Parts : IsPrefix(Given(p), Text(p)) \/ IsPrefix(Given(p), Full(p))
    /\ Answered =>
        /\ metered
        /\ \A p \in Parts : p[1] \in Messages => Given(p) = Full(p) \/ (revised /\ said[p] > 0)
        /\ tools = LET order == SetToSortSeq(Tools, <) IN [k \in DOMAIN order |-> Call(Text(<<order[k], 1>>))]
=============================================================================
