------------------------------ MODULE Retrieval -----------------------------
(***************************************************************************)
(* retrieve: one hybrid query under the tenant filter, its hits collapsed  *)
(* to chunks, reranked if the workspace says so and the reranker answers.  *)
(*                                                                         *)
(* A filter is a set of conditions that must all hold, each a set of       *)
(* alternatives, evaluated on a payload the way Qdrant does: a key that is *)
(* absent matches nothing and is empty.  What fusion and the rerankers say *)
(* is any order and any scores.  When the access list of a document changes *)
(* under the query is in AclProjection; here a document may only become    *)
(* unprojected.                                                            *)
(***************************************************************************)
EXTENDS Naturals, Sequences, Functions, FiniteSets

CONSTANTS
    Points,
    ChunkOf,      \* a chunk's own point and its hypothetical questions
    DocOf,        \* of a chunk
    Payloads,     \* the payloads a point can have
    Callers,      \* [groups, bypass]
    Clauses,      \* metadata clauses a caller may pass
    Ks, Scores, MinScore,
    Prefetch      \* _RERANK_PREFETCH

Chunks == {ChunkOf[p] : p \in Points}

VARIABLES
    store,     \* payload of each point
    caller, asked, pending,
    query      \* where the call is and what it holds

vars == <<store, caller, asked, pending, query>>

None == [pc |-> "start", excluded |-> {}, hits |-> <<>>, scores |-> <<>>, chunks |-> <<>>,
         noAnswer |-> FALSE]

TypeOK ==
    /\ store \in [Points -> Payloads] /\ caller \in Callers
    /\ asked \in [k : Ks, rerank : BOOLEAN, clause : Clauses]
    /\ pending \subseteq Range(DocOf)
    /\ query.pc \in {"start", "pending", "hits", "candidates", "done"}
    /\ query.chunks \in Seq(Chunks) /\ query.noAnswer \in BOOLEAN

Init ==
    /\ store \in [Points -> Payloads] /\ caller \in Callers
    /\ asked \in [k : Ks, rerank : BOOLEAN, clause : Clauses]
    /\ pending \in SUBSET Range(DocOf)
    /\ query = None

-----------------------------------------------------------------------------
(* The filter. *)

Is(key, v) == [key |-> key, kind |-> "is", set |-> {v}]
AnyOf(key, s) == [key |-> key, kind |-> "any", set |-> s]
NoneOf(key, s) == [key |-> key, kind |-> "none", set |-> s]
Empty(key) == [key |-> key, kind |-> "empty", set |-> {}]

\* A payload maps a key to the set of its values, {} if it is absent.
Holds(c, payload) ==
    CASE c.kind \in {"is", "any"} -> payload[c.key] \intersect c.set # {}
      [] c.kind = "none" -> payload[c.key] \intersect c.set = {}
      [] c.kind = "empty" -> payload[c.key] = {}

Matches(filter, payload) == \A some \in filter : \E c \in some : Holds(c, payload)

\* Mutant: without groups there is no alternative to add, and no clause either.
AclOmitted(who) ==
    IF who.bypass \/ who.groups = {} THEN {}
    ELSE {{Empty("acl"), AnyOf("acl", who.groups)}}

\* The access list is empty, or names a group of the caller.
Acl(who) ==
    IF who.bypass THEN {}
    ELSE {{Empty("acl")} \union (IF who.groups = {} THEN {} ELSE {AnyOf("acl", who.groups)})}

\* A clause is the set of values it accepts; {} stands for no clause.
Meta(clause) == IF clause = {} THEN {} ELSE {{AnyOf("meta", clause)}}

TenantFilter(excluded) ==
    {{Is("tenant", "own")}, {Is("workspace", "this")},
     {Is("current", "yes"), Empty("current")},
     {NoneOf("document", excluded)}}
    \union Acl(caller) \union Meta(asked.clause)

\* The document key is in every payload.
Payload(p) ==
    [k \in {"tenant", "workspace", "acl", "current", "meta", "document"} |->
        IF k = "document" THEN {DocOf[ChunkOf[p]]} ELSE store[p][k]]

-----------------------------------------------------------------------------
(* The call. *)

\* unprojected_document_ids, before the query.
ReadPending ==
    /\ query.pc = "start"
    /\ query' = [query EXCEPT !.pc = "pending", !.excluded = pending]
    /\ UNCHANGED <<store, caller, asked, pending>>

\* A change of some access list commits.
Unproject(d) ==
    /\ query.pc \in {"pending", "hits"}
    /\ pending' = pending \union {d}
    /\ UNCHANGED <<store, caller, asked, query>>

Listings(S, n) == UNION {{s \in [1..m -> S] : IsInjective(s)} : m \in 0..n}
FetchK == IF asked.rerank THEN Prefetch ELSE asked.k

\* Fusion ranks what the filter lets through, in some order.
Fuse ==
    /\ query.pc = "pending"
    /\ LET through == {p \in Points : Matches(TenantFilter(query.excluded), Payload(p))}
           n == IF Cardinality(through) < FetchK THEN Cardinality(through) ELSE FetchK
       IN  \E hits \in {s \in Listings(through, n) : Len(s) = n} :
            query' = [query EXCEPT !.pc = "hits", !.hits = hits]
    /\ UNCHANGED <<store, caller, asked, pending>>

\* Positions as they come: the i-th has i - 1 before it.
InOrder(S) ==
    [i \in 1..Cardinality(S) |-> CHOOSE k \in S : Cardinality({j \in S : j < k}) = i - 1]

\* _dedupe_hq: the first hit of a chunk gives its place.
Collapsed(hits) ==
    LET order == InOrder({i \in DOMAIN hits : \A j \in 1..i - 1 : ChunkOf[hits[j]] # ChunkOf[hits[i]]})
    IN  [i \in DOMAIN order |-> ChunkOf[hits[order[i]]]]

\* The second reading of the unprojected documents only removes.
Recheck ==
    /\ query.pc = "hits"
    /\ LET order == InOrder({i \in DOMAIN query.hits :
                                 DocOf[ChunkOf[query.hits[i]]] \notin pending \ query.excluded})
           left == [i \in DOMAIN order |-> query.hits[order[i]]]
       IN  query' = IF left = <<>> THEN [query EXCEPT !.pc = "done", !.noAnswer = TRUE]
                    ELSE [query EXCEPT !.pc = "candidates", !.hits = left]
    /\ UNCHANGED <<store, caller, asked, pending>>

\* The reranker lists its scores best first, each with the index it is for.
Answers(candidates) ==
    {a \in [1..Len(candidates) -> (1..Len(candidates)) \X Scores] :
        /\ \A i, j \in DOMAIN a : i # j => a[i][1] # a[j][1]
        /\ \A i \in 1..Len(a) - 1 : a[i][2] >= a[i + 1][2]}

\* TeiReranker and CohereReranker: scores positionally aligned with the texts.
Aligned(answer) ==
    [i \in DOMAIN answer |-> answer[CHOOSE j \in DOMAIN answer : answer[j][1] = i][2]]

\* sorted is stable: the i-th position has i - 1 above it.
Above(scores, i) ==
    {j \in DOMAIN scores : scores[j] > scores[i] \/ (scores[j] = scores[i] /\ j < i)}
Ranked(scores) ==
    [i \in 1..Cardinality(DOMAIN scores) |->
        CHOOSE j \in DOMAIN scores : Cardinality(Above(scores, j)) = i - 1]

FirstK(s) == SubSeq(s, 1, IF Len(s) < asked.k THEN Len(s) ELSE asked.k)

Rerank ==
    /\ query.pc = "candidates" /\ asked.rerank
    /\ LET candidates == Collapsed(query.hits)
       IN  \E answer \in Answers(candidates) :
            LET scores == Aligned(answer)
                top == FirstK(Ranked(scores))
            IN  query' = [query EXCEPT !.pc = "done",
                            !.scores = [i \in DOMAIN answer |->
                                            <<candidates[answer[i][1]], answer[i][2]>>],
                            !.chunks = [i \in DOMAIN top |-> candidates[top[i]]],
                            !.noAnswer = scores[top[1]] < MinScore]
    /\ UNCHANGED <<store, caller, asked, pending>>

\* No reranker, or RerankUnavailable: fusion's order, and the best cosine decides.
FusionOrder ==
    /\ query.pc = "candidates"
    /\ \E noAnswer \in BOOLEAN :
        query' = [query EXCEPT !.pc = "done", !.noAnswer = noAnswer,
                               !.chunks = FirstK(Collapsed(query.hits))]
    /\ UNCHANGED <<store, caller, asked, pending>>

Next == ReadPending \/ Fuse \/ Recheck \/ Rerank \/ FusionOrder
        \/ \E d \in Range(DocOf) : Unproject(d)

Spec == Init /\ [][Next]_vars

-----------------------------------------------------------------------------
(* Properties. *)

\* Who may read a point, said without the filter.
MayRead(p) ==
    /\ store[p].tenant = {"own"} /\ store[p].workspace = {"this"}
    /\ store[p].current # {"no"}
    /\ caller.bypass \/ store[p].acl = {} \/ \E g \in caller.groups : g \in store[p].acl
    /\ asked.clause # {} => store[p].meta \intersect asked.clause # {}

\* The score the reranker gave to a chunk.
Given(scores, c) == (CHOOSE s \in Range(scores) : s[1] = c)[2]

\* What comes back is what the caller may read, each chunk once, and after a rerank
\* the k chunks the reranker scored best, in its order and judged by its scores:
\* hypothetical questions, absent keys, an empty set of groups, and a reranker that
\* answers in an order of its own make no difference.
ServesTheBestReadable ==
    query.pc = "done" =>
        /\ \A c \in Range(query.chunks) :
            \E p \in Points : ChunkOf[p] = c /\ MayRead(p) /\ DocOf[c] \notin query.excluded
        /\ IsInjective(query.chunks) /\ Len(query.chunks) <= asked.k
        /\ query.scores # <<>> =>
            /\ \A i \in 1..Len(query.chunks) - 1 :
                    Given(query.scores, query.chunks[i]) >= Given(query.scores, query.chunks[i + 1])
            /\ \A c \in {s[1] : s \in Range(query.scores)} \ Range(query.chunks),
                  d \in Range(query.chunks) : Given(query.scores, c) <= Given(query.scores, d)
            /\ query.noAnswer = (Given(query.scores, query.chunks[1]) < MinScore)
=============================================================================
