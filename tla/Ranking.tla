------------------------------- MODULE Ranking -------------------------------
(***************************************************************************)
(* How a search ranks what the two stores hold: the vector side and the    *)
(* keyword side, each filtered, fused by reciprocal ranks                  *)
(* (src/internal/vector/hybrid.go, search_index.go, db.go) and filtered    *)
(* again by source kind (src/internal/service).                            *)
(*                                                                         *)
(* A stored chunk has the fields id, tags, kind and len (of its vector),   *)
(* an entry of the keyword index id and tags.  How near a text is to a     *)
(* query, and how well it matches, is what the embedding model and the     *)
(* analyser make of them: a query comes with both orders of texts, "near"  *)
(* of all and "terms" of those that match.                                 *)
(***************************************************************************)
EXTENDS Integers, FiniteSetsExt, Lists, TLC

RrfK == 60
Headroom == 2
DefaultLimit == 5
MaxResults == 1000
NoTag == ""

Position(seq, x) ==
    IF x \in ToSet(seq) THEN CHOOSE i \in DOMAIN seq : seq[i] = x ELSE Len(seq) + 1

First(seq, n) == SubSeq(seq, 1, Min({n, Len(seq)}))

\* Chunks by a key, which is a fraction, in ascending order; those with equal
\* keys are in some order, the same each time.
Less(key, a, b) == key[a][1] * key[b][2] < key[b][1] * key[a][2]
Least(ids, key) == CHOOSE a \in ids : \A b \in ids : ~Less(key, b, a)
Sorted(ids, key) ==
    LET sorted[k \in 0..Cardinality(ids)] ==
            IF k = 0 THEN <<>>
            ELSE LET before == sorted[k - 1]
                 IN Append(before, Least(ids \ ToSet(before), key))
    IN sorted[Cardinality(ids)]

\* A chunk's list of tags is one string to the collection, which it compares
\* with the wanted tag.
ToWhere(chunk, filter) == filter.tag # NoTag => chunk.tags = {filter.tag}

\* The index matches any of the tags.
HasTag(entry, filter) == filter.tag # NoTag => filter.tag \in entry.tags

Limit(limit) == IF limit <= 0 THEN DefaultLimit ELSE limit

\* The collection compares the query's vector with those of all chunks that
\* pass the filter, and fails if one has another length.
VectorFails(vec, filter, dim) ==
    \E c \in vec : ToWhere(c, filter) /\ c.len # dim

\* Nothing is farther than a chunk with no text.
Distance(id, query) ==
    IF id.words = <<>> THEN Len(query.near) + 2 ELSE Position(query.near, id.words[1])

VectorSearch(vec, query, limit, filter) ==
    LET ids == {c.id : c \in {x \in vec : ToWhere(x, filter)}}
        cap == Min({limit, Cardinality(vec), MaxResults})
    IN First(Sorted(ids, [id \in ids |-> <<Distance(id, query), 1>>]), cap)

BestTerm(id, query) ==
    Min({Position(query.terms, w) : w \in ToSet(id.words)} \cup {Len(query.terms) + 1})

BuildSearchQuery(entry, query, filter) ==
    HasTag(entry, filter) /\ BestTerm(entry.id, query) <= Len(query.terms)

KeywordSearch(idx, query, limit, filter) ==
    LET ids == {e.id : e \in {x \in idx : BuildSearchQuery(x, query, filter)}}
    IN First(Sorted(ids, [id \in ids |-> <<BestTerm(id, query), 1>>]), limit)

\* The rank in one list stands for both.
RrfScore_LastList(semantic, keyword, id) ==
    LET r(list) == RrfK + Position(list, id)
    IN IF id \in ToSet(keyword) THEN <<1, r(keyword)>> ELSE <<1, r(semantic)>>

\* The sum of 1 / (k + rank) over the lists that have the id, as a fraction.
RrfScore(semantic, keyword, id) ==
    LET s == RrfK + Position(semantic, id)
        k == RrfK + Position(keyword, id)
    IN IF id \notin ToSet(keyword) THEN <<1, s>>
       ELSE IF id \notin ToSet(semantic) THEN <<1, k>>
       ELSE <<s + k, s * k>>

RrfFuse(semantic, keyword) ==
    LET ids == ToSet(semantic) \cup ToSet(keyword)
        score == [id \in ids |-> RrfScore(semantic, keyword, id)]
    IN Sorted(ids, [id \in ids |-> <<score[id][2], score[id][1]>>])

\* A hit that the collection no longer has is shown by its id alone, with no
\* kind.
EnrichResults(vec, ids) ==
    LET Found(id) == {c \in vec : c.id = id}
    IN [i \in DOMAIN ids |->
            IF Found(ids[i]) = {} THEN [id |-> ids[i], kind |-> "", bare |-> TRUE]
            ELSE [id |-> ids[i], kind |-> (CHOOSE c \in Found(ids[i]) : TRUE).kind,
                  bare |-> FALSE]]

Failed == [ok |-> FALSE, hits |-> <<>>]
Answer(hits) == [ok |-> TRUE, hits |-> hits]

\* "embeds" and "indexed": whether the embeddings server, and the index, answer.
SearchSemanticOnly(vec, r, dim) ==
    IF ~r.embeds \/ VectorFails(vec, r.filter, dim) THEN Failed
    ELSE Answer(EnrichResults(vec, VectorSearch(vec, r.query, Limit(r.limit), r.filter)))

SearchKeywordOnly(vec, idx, r) ==
    IF ~r.indexed THEN Failed
    ELSE Answer(EnrichResults(vec, KeywordSearch(idx, r.query, Limit(r.limit), r.filter)))

\* Each side is asked for twice as many.  The vector side may fail; then its
\* list is empty.
SearchHybridRRF(vec, idx, r, dim) ==
    LET wide == Limit(r.limit) * Headroom
        keyword == KeywordSearch(idx, r.query, wide, r.filter)
        semantic == IF ~r.embeds \/ VectorFails(vec, r.filter, dim) THEN <<>>
                    ELSE VectorSearch(vec, r.query, wide, r.filter)
    IN IF ~r.indexed THEN Failed
       ELSE Answer(EnrichResults(vec, First(RrfFuse(semantic, keyword), Limit(r.limit))))

ApplySourceKindFilters(a, filter) ==
    IF filter.kinds = {} THEN a
    ELSE [a EXCEPT !.hits = Only(@, {h \in Range(@) : h.kind \in filter.kinds})]

SearchHybrid(vec, idx, r, dim) ==
    ApplySourceKindFilters(
        IF r.mode = "semantic" THEN SearchSemanticOnly(vec, r, dim)
        ELSE IF r.mode = "keyword" THEN SearchKeywordOnly(vec, idx, r)
        ELSE SearchHybridRRF(vec, idx, r, dim),
        r.filter)
==============================================================================
