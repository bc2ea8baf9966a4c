---------------------------- MODULE RepliesProofs ----------------------------
(***************************************************************************)
(* Proofs about Replies, for replies of any length: what the passes keep,  *)
(* and what is left of a reply once they all have been over it.            *)
(***************************************************************************)
EXTENDS Replies, ListProofs, FiniteSetTheorems

-----------------------------------------------------------------------------
\* The sequence of a finite set, and the set of the links of an answer.
LEMMA SetToSeqType ==
    ASSUME NEW S, IsFiniteSet(S)
    PROVE  SetToSeq(S) \in Seq(S)
<1>1. Cardinality(S) \in Nat /\ ExistsBijection(1..Cardinality(S), S)
  BY FS_CardinalityType
<1>2. PICK f \in [1..Cardinality(S) -> S] : IsInjective(f)
  <2>1. PICK f \in Bijection(1..Cardinality(S), S) : TRUE
    BY <1>1 DEF ExistsBijection
  <2> QED
    BY <2>1 DEF Bijection, Injection
<1>3. SetToSeq(S) \in [1..Cardinality(S) -> S]
  BY <1>2, Zenon DEF SetToSeq
<1> QED
  BY <1>1, <1>3

LEMMA AllowedGrows ==
    ASSUME NEW t \in Seq(Results), NEW r \in Results
    PROVE  ExtractURLs(Append(t, r))
               = (ExtractURLs(t) \cup SourceURLs(r)) \ {NoUrl}
<1> DEFINE Links(q) == SourceURLs(q)
<1>1. Range(Append(t, r)) = Range(t) \cup {r}
  <2>1. Len(t) \in Nat /\ Len(Append(t, r)) = Len(t) + 1 /\ Append(t, r)[Len(t) + 1] = r
    OBVIOUS
  <2>2. \A i \in 1..Len(t) : Append(t, r)[i] = t[i]
    OBVIOUS
  <2>3. DOMAIN Append(t, r) = 1..(Len(t) + 1) /\ DOMAIN t = 1..Len(t)
    OBVIOUS
  <2>4. 1..(Len(t) + 1) = (1..Len(t)) \cup {Len(t) + 1}
    BY <2>1
  <2>5. ASSUME NEW y PROVE y \in Range(Append(t, r)) <=> \E i \in 1..(Len(t) + 1) : Append(t, r)[i] = y
    BY <2>3 DEF Range
  <2>6. ASSUME NEW y PROVE y \in Range(t) <=> \E i \in 1..Len(t) : t[i] = y
    BY <2>3 DEF Range
  <2>7. ASSUME NEW y PROVE y \in Range(Append(t, r)) <=> y \in Range(t) \/ y = r
    BY <2>1, <2>2, <2>4, <2>5, <2>6
  <2> QED
    BY <2>7
<1>2. ExtractURLs(Append(t, r)) = (UNION {Links(q) : q \in Range(Append(t, r))}) \ {NoUrl}
  BY DEF ExtractURLs
<1>3. ExtractURLs(t) = (UNION {Links(q) : q \in Range(t)}) \ {NoUrl}
  BY DEF ExtractURLs
<1> HIDE DEF Links
<1>4. (UNION {Links(q) : q \in Range(t) \cup {r}}) = (UNION {Links(q) : q \in Range(t)}) \cup Links(r)
  BY Zenon
<1>5. ExtractURLs(Append(t, r)) = (ExtractURLs(t) \cup Links(r)) \ {NoUrl}
  BY <1>1, <1>2, <1>3, <1>4
<1> QED
  BY <1>5 DEF Links

LEMMA AllowedFinite ==
    ASSUME NEW results \in Seq(Results)
    PROVE  IsFiniteSet(ExtractURLs(results))
<1> DEFINE P == {t \in Seq(Results) : IsFiniteSet(ExtractURLs(t))}
<1>1. <<>> \in P
  <2>1. ExtractURLs(<<>>) = {}
    BY DEF ExtractURLs, Range
  <2>2. IsFiniteSet({})
    BY FS_EmptySet
  <2>3. IsFiniteSet(ExtractURLs(<<>>))
    BY <2>1, <2>2
  <2>4. <<>> \in Seq(Results)
    OBVIOUS
  <2> QED
    BY <2>3, <2>4
<1>2. ASSUME NEW t \in P, NEW r \in Results PROVE Append(t, r) \in P
  <2>1. Append(t, r) \in Seq(Results) /\ t \in Seq(Results)
    OBVIOUS
  <2> DEFINE own == {Result[r].own}
             permalink == {Result[r].permalink}
             others == Result[r].others
             urls == ExtractURLs(t)
  <2>2. IsFiniteSet(own) /\ IsFiniteSet(permalink) /\ IsFiniteSet(others)
    BY FS_Singleton, RepliesAssumption
  <2>3. SourceURLs(r) = (own \cup permalink) \cup others
    BY DEF SourceURLs
  <2>4. ExtractURLs(Append(t, r)) = (urls \cup ((own \cup permalink) \cup others)) \ {NoUrl}
    BY <2>1, <2>3, AllowedGrows
  <2>5. IsFiniteSet(urls)
    OBVIOUS
  <2> HIDE DEF own, permalink, others, urls
  <2>6. IsFiniteSet((own \cup permalink) \cup others)
    BY <2>2, FS_Union
  <2>7. IsFiniteSet(urls \cup ((own \cup permalink) \cup others))
    BY <2>5, <2>6, FS_Union
  <2>8. IsFiniteSet((urls \cup ((own \cup permalink) \cup others)) \ {NoUrl})
    BY <2>7, FS_Difference
  <2> QED
    BY <2>1, <2>4, <2>8
<1>3. P \subseteq Seq(Results)
  OBVIOUS
<1>4. P = Seq(Results)
  <2> HIDE DEF P
  <2> QED
    BY <1>1, <1>2, <1>3, SequenceInduction
<1> QED
  BY <1>4

-----------------------------------------------------------------------------
\* What the passes make of a sequence are pieces of it, in their order.
LEMMA StripLinksType ==
    ASSUME NEW X, NEW r \in Seq(X)
    PROVE  StripLinksSection(r) \in Seq(X)
<1> DEFINE headers == {i \in DOMAIN r : Has(r, i, {"links"})}
<1>1. headers \subseteq Nat
  OBVIOUS
<1>2. CASE headers = {}
  BY <1>2 DEF StripLinksSection
<1>3. CASE headers # {}
  <2>1. Min(headers) \in headers
    <3> HIDE DEF headers
    <3> QED
      BY <1>1, <1>3, MinIs
  <2>2. Min(headers) \in 1..Len(r)
    BY <2>1
  <2>3. StripLinksSection(r) = SubSeq(r, 1, Min(headers) - 1)
    BY <1>3 DEF StripLinksSection
  <2> HIDE DEF headers
  <2> QED
    BY <2>2, <2>3
<1> QED
  BY <1>2, <1>3

LEMMA StripBlockType ==
    ASSUME NEW X, NEW r \in Seq(X), NEW open, NEW close
    PROVE  StripDelimitedBlock(r, open, close) \in Seq(X)
<1> DEFINE opens == {i \in DOMAIN r : Has(r, i, {open})}
           closes == {i \in DOMAIN r : Has(r, i, {close}) /\ i > Min(opens)}
<1>1. opens \subseteq Nat /\ closes \subseteq Nat
  OBVIOUS
<1>2. CASE opens = {} \/ closes = {}
  BY <1>2 DEF StripDelimitedBlock
<1>3. CASE opens # {} /\ closes # {}
  <2>1. Min(opens) \in opens /\ Min(closes) \in closes
    <3> HIDE DEF opens, closes
    <3> QED
      BY <1>1, <1>3, MinIs
  <2>2. Min(opens) \in 1..Len(r) /\ Min(closes) \in 1..Len(r)
    BY <2>1
  <2>3. StripDelimitedBlock(r, open, close)
            = SubSeq(r, 1, Min(opens) - 1) \o SubSeq(r, Min(closes) + 1, Len(r))
    BY <1>3 DEF StripDelimitedBlock
  <2> HIDE DEF opens, closes
  <2> QED
    BY <2>2, <2>3
<1> QED
  BY <1>2, <1>3

LEMMA StripThinkingType ==
    ASSUME NEW X, NEW r \in Seq(X)
    PROVE  StripLeadingThinking(r) \in Seq(X)
<1> DEFINE other == {i \in DOMAIN r : ~Has(r, i, {"musing"})}
           from == IF other = {} THEN Len(r) ELSE Min(other)
<1>1. other \subseteq Nat
  OBVIOUS
<1>2. CASE Len(r) <= 1
  BY <1>2 DEF StripLeadingThinking
<1>3. CASE ~(Len(r) <= 1)
  <2>1. other # {} => Min(other) \in other
    <3> HIDE DEF other
    <3> QED
      BY <1>1, MinIs
  <2>2. from \in 1..Len(r)
    BY <2>1, <1>3
  <2>3. StripLeadingThinking(r) = SubSeq(r, from, Len(r))
    BY <1>3 DEF StripLeadingThinking
  <2> HIDE DEF from
  <2> QED
    BY <2>2, <2>3
<1> QED
  BY <1>2, <1>3

LEMMA StripTrailingType ==
    ASSUME NEW X, NEW r \in Seq(X)
    PROVE  StripTrailingLinksSection(r) \in Seq(X)
<1> DEFINE headers == {i \in DOMAIN r : Has(r, i, {"links", "**links**"})}
<1>1. headers \subseteq 0..Len(r)
  OBVIOUS
<1>2. CASE headers = {}
  BY <1>2 DEF StripTrailingLinksSection
<1>3. CASE headers # {}
  <2>1. Max(headers) \in headers
    <3>1. Len(r) \in Nat
      OBVIOUS
    <3> HIDE DEF headers
    <3> QED
      BY <1>1, <1>3, <3>1, MaxIs
  <2>2. Max(headers) \in 1..Len(r)
    BY <2>1
  <2>3. StripTrailingLinksSection(r) = SubSeq(r, 1, Max(headers) - 1)
    BY <1>3 DEF StripTrailingLinksSection
  <2> HIDE DEF headers
  <2> QED
    BY <2>2, <2>3
<1> QED
  BY <1>2, <1>3

-----------------------------------------------------------------------------
\* The link policy: whatever the reply, every URL of the answer is a source's.
\* Allows(U) is said of a set of pieces.
Allows(Z, urls) == \A p \in Z : p.kind = "url" => p.url \in urls

LEMMA AnswerType ==
    ASSUME NEW X, NEW reply \in Seq(X), NEW results \in Seq(Results)
    PROVE  \E Z : /\ Answer(reply, results) \in Seq(Z)
                  /\ Allows(Z, ExtractURLs(results))
                  /\ Z \subseteq X \cup {LinksHeader} \cup {Url(u) : u \in ExtractURLs(results)}
<1> DEFINE urls == ExtractURLs(results)
           cut == StripLinksSection(reply)
           kept == {p \in Range(cut) : p.kind = "url" => p.url \in urls}
           Y == {x \in X : x \in kept}
           L == {Url(u) : u \in urls}
           Z == Y \cup {LinksHeader} \cup L
<1>1. cut \in Seq(X)
  BY StripLinksType
<1>2. IsFiniteSet(L)
  <2>1. IsFiniteSet(urls)
    BY AllowedFinite
  <2> DEFINE f == [u \in urls |-> Url(u)]
  <2> HIDE DEF urls
  <2>2. f \in Surjection(urls, L)
    <3>1. f \in [urls -> L]
      OBVIOUS
    <3>2. \A t \in L : \E u \in urls : f[u] = t
      OBVIOUS
    <3> QED
      BY <3>1, <3>2 DEF Surjection
  <2> HIDE DEF f, L
  <2> QED
    BY <2>1, <2>2, FS_Surjection
<1>3. Allows(Z, urls)
  BY DEF Allows, LinksHeader, Piece, Url
<1>4. Z \subseteq X \cup {LinksHeader} \cup L
  OBVIOUS
<1>5. Only(cut, kept) \in Seq(Y)
  <2> HIDE DEF cut, kept
  <2> QED
    BY <1>1, OnlyType
<1>6. ScrubNonAllowedURLs(cut, urls) = Only(cut, kept)
  BY DEF ScrubNonAllowedURLs
<1>7. SetToSeq(L) \in Seq(L)
  BY <1>2, SetToSeqType
<1>8. Answer(reply, results) = IF urls = {} THEN Only(cut, kept)
                               ELSE Only(cut, kept) \o <<LinksHeader>> \o SetToSeq(L)
  BY <1>6 DEF Answer, EnforceLinksPolicy
<1> HIDE DEF Y, L
<1>9. Seq(Y) \subseteq Seq(Z) /\ Seq(L) \subseteq Seq(Z) /\ <<LinksHeader>> \in Seq(Z)
  OBVIOUS
<1> HIDE DEF Z, kept, cut
<1>10. Answer(reply, results) \in Seq(Z)
  <2>1. Only(cut, kept) \in Seq(Z) /\ SetToSeq(L) \in Seq(Z)
    BY <1>5, <1>7, <1>9
  <2>2. Only(cut, kept) \o <<LinksHeader>> \o SetToSeq(L) \in Seq(Z)
    BY <2>1, <1>9
  <2> QED
    BY <1>8, <2>1, <2>2
<1> QED
  BY <1>3, <1>4, <1>10 DEF L

LEMMA SourceLinkAllowed ==
    ASSUME NEW results \in Seq(Results), NEW k \in DOMAIN results,
           SourceLinkURL(results[k]) # NoUrl
    PROVE  SourceLinkURL(results[k]) \in ExtractURLs(results)
<1> DEFINE r == results[k]
<1>1. SourceLinkURL(r) \in {Result[r].own, Result[r].permalink}
  BY DEF SourceLinkURL
<1>2. r \in Range(results)
  BY DEF Range
<1> HIDE DEF r
<1>3. SourceLinkURL(r) \in UNION {SourceURLs(q) : q \in Range(results)}
  BY <1>1, <1>2 DEF SourceURLs
<1> QED
  BY <1>3 DEF ExtractURLs, r

\* The passes after the answer, up to the citations.
Passed(answer) ==
    StripTrailingLinksSection(StripLeadingThinking(StripScratchpad(StripThinkTags(answer))))

LEMMA PassedType ==
    ASSUME NEW Z, NEW answer \in Seq(Z)
    PROVE  Passed(answer) \in Seq(Z)
<1>1. StripThinkTags(answer) \in Seq(Z)
  BY StripBlockType DEF StripThinkTags
<1>2. StripScratchpad(StripThinkTags(answer)) \in Seq(Z)
  BY <1>1, StripBlockType DEF StripScratchpad
<1>3. StripLeadingThinking(StripScratchpad(StripThinkTags(answer))) \in Seq(Z)
  BY <1>2, StripThinkingType
<1> QED
  BY <1>3, StripTrailingType DEF Passed

\* Whatever the model wrote, a link that is shown leads to a source.
LEMMA ShownLinksAllowed ==
    ASSUME NEW X, NEW reply \in Seq(X), NEW results \in Seq(Results),
           \A x \in X : x.kind = "cite" => x.n \in Nat,
           NEW i \in DOMAIN Rendered(Answer(reply, results), results),
           Has(Rendered(Answer(reply, results), results), i, {"url"})
    PROVE  Rendered(Answer(reply, results), results)[i].url \in ExtractURLs(results)
<1>1. PICK Z : /\ Answer(reply, results) \in Seq(Z)
               /\ Allows(Z, ExtractURLs(results))
               /\ Z \subseteq X \cup {LinksHeader} \cup {Url(u) : u \in ExtractURLs(results)}
  BY AnswerType
<1> DEFINE p == Passed(Answer(reply, results))
           shown == Rendered(Answer(reply, results), results)
<1>2. p \in Seq(Z)
  BY <1>1, PassedType
<1>3. shown = InlineSourceLinks(p, results)
  BY DEF Rendered, Passed
<1> HIDE DEF p
<1>4. i \in DOMAIN p
  BY <1>3 DEF InlineSourceLinks
<1>5. p[i] \in Z
  BY <1>2, <1>4
<1>6. p[i].kind = "cite" => p[i].n \in Nat
  <2>1. \A z \in Z : z.kind = "cite" => z \in X
    BY <1>1 DEF LinksHeader, Piece, Url
  <2> QED
    BY <2>1, <1>5
<1>7. CASE Has(p, i, {"cite"}) /\ p[i].n < Len(results)
  <2> DEFINE k == p[i].n + 1
             url == SourceLinkURL(results[k])
  <2>1. k \in DOMAIN results
    BY <1>6, <1>7 DEF Has
  <2>2. shown[i] = IF url = NoUrl THEN Piece("text") ELSE Url(url)
    BY <1>3, <1>4, <1>7 DEF InlineSourceLinks
  <2>3. shown[i].kind = "url"
    BY DEF Has
  <2> HIDE DEF shown, k
  <2>4. url # NoUrl
    BY <2>2, <2>3 DEF Piece
  <2>5. shown[i].url = url
    BY <2>2, <2>4 DEF Url
  <2> QED
    BY <2>1, <2>4, <2>5, SourceLinkAllowed DEF shown
<1>8. CASE ~(Has(p, i, {"cite"}) /\ p[i].n < Len(results))
  <2>1. shown[i] = p[i]
    BY <1>3, <1>4, <1>8 DEF InlineSourceLinks
  <2> QED
    BY <2>1, <1>1, <1>5 DEF Allows, Has
<1> QED
  BY <1>7, <1>8

-----------------------------------------------------------------------------
\* A reply is taken apart: what the passes do to a concatenation.
Lacks(s, kinds) == \A i \in DOMAIN s : s[i].kind \notin kinds

LEMMA StripLinksHead ==
    ASSUME NEW X, NEW h \in Seq(X), NEW r \in Seq(X), Lacks(h, {"links"})
    PROVE  StripLinksSection(h \o r) = h \o StripLinksSection(r)
<1> DEFINE w == h \o r
           inR == {i \in DOMAIN r : Has(r, i, {"links"})}
           inW == {i \in DOMAIN w : Has(w, i, {"links"})}
<1>1. /\ w \in Seq(X) /\ Len(h) \in Nat /\ Len(r) \in Nat
      /\ Len(w) = Len(h) + Len(r)
      /\ \A i \in 1..Len(h) : w[i] = h[i]
      /\ \A i \in 1..Len(r) : w[Len(h) + i] = r[i]
      /\ \A i \in 1..(Len(h) + Len(r)) : i \notin 1..Len(h) =>
                i - Len(h) \in 1..Len(r) /\ w[i] = r[i - Len(h)]
  BY Concat
<1> HIDE DEF w
<1>2. \A i \in inW : i - Len(h) \in inR
  BY <1>1 DEF Lacks, Has
<1>3. \A i \in inR : Len(h) + i \in inW
  BY <1>1 DEF Has
<1>4. inR \subseteq Nat /\ inW \subseteq Nat
  BY <1>1
<1>5. StripLinksSection(w) = IF inW = {} THEN w ELSE SubSeq(w, 1, Min(inW) - 1)
  BY DEF StripLinksSection
<1>6. StripLinksSection(r) = IF inR = {} THEN r ELSE SubSeq(r, 1, Min(inR) - 1)
  BY DEF StripLinksSection
<1>7. inR \subseteq 1..Len(r)
  OBVIOUS
<1> HIDE DEF inR, inW
<1>8. CASE inR = {}
  BY <1>2, <1>5, <1>6, <1>8 DEF w
<1>9. CASE inR # {}
  <2> DEFINE m == Min(inR)
             u == SubSeq(r, 1, m - 1)
             v == SubSeq(w, 1, Len(h) + m - 1)
  <2>1. m \in inR /\ \A i \in inR : m <= i
    BY <1>4, <1>9, MinIs
  <2> HIDE DEF m
  <2>2. m \in 1..Len(r)
    BY <2>1, <1>7
  <2>3. Len(h) + m \in inW /\ \A i \in inW : Len(h) + m <= i
    BY <2>1, <1>1, <1>2, <1>3, <1>4
  <2>4. Min(inW) = Len(h) + m
    BY <2>3, <1>4, MinOf
  <2>5. /\ u \in Seq(X) /\ Len(u) = m - 1 /\ \A i \in 1..(m - 1) : u[i] = r[i]
    BY <2>2, <1>1
  <2>6. /\ v \in Seq(X) /\ Len(v) = Len(h) + m - 1
        /\ \A i \in 1..(Len(h) + m - 1) : v[i] = w[i]
    BY <2>2, <1>1
  <2>7. StripLinksSection(w) = v /\ StripLinksSection(r) = u
    <3>1. inW # {} /\ Min(inW) - 1 = Len(h) + m - 1
      <4>1. inW # {}
        BY <2>3
      <4>2. Min(inW) - 1 = Len(h) + m - 1
        BY <1>1, <2>2, <2>4
      <4> QED
        BY <4>1, <4>2
    <3>2. StripLinksSection(r) = SubSeq(r, 1, m - 1)
      BY <1>6, <1>9 DEF m
    <3> QED
      BY <3>1, <3>2, <1>5
  <2> HIDE DEF u, v
  <2>8. /\ h \o u \in Seq(X) /\ Len(h \o u) = Len(h) + m - 1
        /\ \A i \in 1..Len(h) : (h \o u)[i] = h[i]
        /\ \A i \in 1..(Len(h) + m - 1) : i \notin 1..Len(h) =>
                i - Len(h) \in 1..(m - 1) /\ (h \o u)[i] = u[i - Len(h)]
    <3>1. /\ h \o u \in Seq(X) /\ Len(h \o u) = Len(h) + Len(u)
          /\ \A i \in 1..Len(h) : (h \o u)[i] = h[i]
          /\ \A i \in 1..(Len(h) + Len(u)) : i \notin 1..Len(h) =>
                i - Len(h) \in 1..Len(u) /\ (h \o u)[i] = u[i - Len(h)]
      BY <2>5
    <3>2. Len(h) + Len(u) = Len(h) + m - 1
      BY <1>1, <2>2, <2>5
    <3> QED
      BY <2>5, <3>1, <3>2
  <2>9. ASSUME NEW i \in 1..(Len(h) + m - 1) PROVE v[i] = (h \o u)[i]
    <3>1. CASE i \in 1..Len(h)
      BY <3>1, <2>6, <2>8, <1>1
    <3>2. CASE i \notin 1..Len(h)
      <4>1. i - Len(h) \in 1..(m - 1) /\ (h \o u)[i] = u[i - Len(h)]
        BY <3>2, <2>8
      <4>2. w[i] = r[i - Len(h)]
        BY <3>2, <2>2, <1>1
      <4> QED
        BY <4>1, <4>2, <2>5, <2>6
    <3> QED
      BY <3>1, <3>2
  <2>10. v = h \o u
    BY <2>6, <2>8, <2>9, SeqEqual
  <2> QED
    BY <2>7, <2>10 DEF w
<1> QED
  BY <1>8, <1>9

LEMMA BlockKeepsTail ==
    ASSUME NEW X, NEW b \in Seq(X), NEW t \in Seq(X), NEW open, NEW close,
           Lacks(t, {open, close})
    PROVE  StripDelimitedBlock(b \o t, open, close) = StripDelimitedBlock(b, open, close) \o t
<1> DEFINE w == b \o t
           opens == {i \in DOMAIN b : Has(b, i, {open})}
           closes == {i \in DOMAIN b : Has(b, i, {close}) /\ i > Min(opens)}
           opensW == {i \in DOMAIN w : Has(w, i, {open})}
           closesW == {i \in DOMAIN w : Has(w, i, {close}) /\ i > Min(opensW)}
<1>1. /\ w \in Seq(X) /\ Len(b) \in Nat /\ Len(t) \in Nat
      /\ Len(w) = Len(b) + Len(t)
      /\ \A i \in 1..Len(b) : w[i] = b[i]
      /\ \A i \in 1..(Len(b) + Len(t)) : i \notin 1..Len(b) =>
                i - Len(b) \in 1..Len(t) /\ w[i] = t[i - Len(b)]
  BY Concat
<1> HIDE DEF w
<1>2. DOMAIN b = 1..Len(b) /\ DOMAIN w = 1..(Len(b) + Len(t)) /\ DOMAIN t = 1..Len(t)
  BY <1>1
<1>3. 1..Len(b) \subseteq 1..(Len(b) + Len(t))
  BY <1>1
<1>4. opensW = opens
  <2>1. ASSUME NEW i \in opensW PROVE i \in opens
    <3>1. i \in 1..(Len(b) + Len(t)) /\ w[i].kind = open
      BY <1>2 DEF Has
    <3>2. CASE i \in 1..Len(b)
      BY <3>1, <3>2, <1>1, <1>2 DEF Has
    <3>3. CASE i \notin 1..Len(b)
      <4>1. i - Len(b) \in DOMAIN t /\ w[i] = t[i - Len(b)]
        BY <3>1, <3>3, <1>1, <1>2
      <4> QED
        BY <3>1, <4>1 DEF Lacks
    <3> QED
      BY <3>2, <3>3
  <2>2. ASSUME NEW i \in opens PROVE i \in opensW
    BY <1>1, <1>2, <1>3 DEF Has
  <2> QED
    BY <2>1, <2>2
<1>5. closesW = closes
  <2> HIDE DEF opens, opensW
  <2> QED
    BY <1>1, <1>2, <1>3, <1>4 DEF Has, Lacks
<1>6. opens \subseteq 1..Len(b) /\ closes \subseteq 1..Len(b) /\ 1..Len(b) \subseteq Nat
  BY <1>2
<1>7. StripDelimitedBlock(b, open, close) =
        IF opens = {} THEN b ELSE IF closes = {} THEN b
        ELSE SubSeq(b, 1, Min(opens) - 1) \o SubSeq(b, Min(closes) + 1, Len(b))
  BY DEF StripDelimitedBlock
<1>8. StripDelimitedBlock(w, open, close) =
        IF opensW = {} THEN w ELSE IF closesW = {} THEN w
        ELSE SubSeq(w, 1, Min(opensW) - 1) \o SubSeq(w, Min(closesW) + 1, Len(w))
  BY DEF StripDelimitedBlock
<1> HIDE DEF opens, closes, opensW, closesW
<1>9. CASE opens = {} \/ closes = {}
  BY <1>4, <1>5, <1>7, <1>8, <1>9 DEF w
<1>10. CASE opens # {} /\ closes # {}
  <2> DEFINE m == Min(opens)
             n == Min(closes)
             p == SubSeq(b, 1, m - 1)
             q == SubSeq(b, n + 1, Len(b))
  <2>1. m \in opens /\ n \in closes
    BY <1>6, <1>10, MinIs
  <2>2. m \in 1..Len(b) /\ n \in 1..Len(b)
    BY <2>1, <1>6
  <2>3. m - 1 \in 0..Len(b) /\ n + 1 \in 1..(Len(b) + 1)
    BY <2>2, <1>1
  <2>4. StripDelimitedBlock(b, open, close) = p \o q
    BY <1>7, <1>10
  <2>5. StripDelimitedBlock(w, open, close) = SubSeq(w, 1, m - 1) \o SubSeq(w, n + 1, Len(w))
    BY <1>4, <1>5, <1>8, <1>10
  <2>6. p \in Seq(X) /\ q \in Seq(X)
    BY <2>3, <1>1
  <2> HIDE DEF m, n
  <2>7. SubSeq(w, 1, m - 1) = p
    BY <2>3, PrefixOfConcat DEF w
  <2>8. SubSeq(w, n + 1, Len(w)) = q \o t
    BY <2>3, SuffixOfConcat DEF w
  <2> HIDE DEF p, q
  <2>9. (p \o q) \o t = p \o (q \o t)
    <3> HIDE DEF w
    <3>1. t \in Seq(X)
      OBVIOUS
    <3> QED
      BY ONLY <2>6, <3>1, Regroup, SMTT(30)
  <2> QED
    BY <2>4, <2>5, <2>7, <2>8, <2>9 DEF w
<1> QED
  BY <1>9, <1>10

LEMMA ThinkingKeepsTail ==
    ASSUME NEW X, NEW b \in Seq(X), NEW t \in Seq(X), t # <<>>, t[1].kind # "musing"
    PROVE  \E f \in 1..(Len(b) + 1) : StripLeadingThinking(b \o t) = SubSeq(b, f, Len(b)) \o t
<1> DEFINE w == b \o t
           other == {i \in DOMAIN w : ~Has(w, i, {"musing"})}
<1>1. /\ w \in Seq(X) /\ Len(b) \in Nat /\ Len(t) \in Nat
      /\ Len(w) = Len(b) + Len(t)
      /\ \A i \in 1..Len(t) : w[Len(b) + i] = t[i]
  BY Concat
<1>2. Len(t) >= 1
  OBVIOUS
<1> HIDE DEF w
<1>3. DOMAIN w = 1..Len(w)
  BY <1>1
<1>4. Len(b) + 1 \in other
  BY <1>1, <1>2, <1>3 DEF Has
<1>5. other \subseteq Nat /\ other \subseteq 1..Len(w)
  BY <1>3
<1>6. StripLeadingThinking(w) =
        IF Len(w) <= 1 THEN w
        ELSE SubSeq(w, IF other = {} THEN Len(w) ELSE Min(other), Len(w))
  BY DEF StripLeadingThinking
<1> HIDE DEF other
<1>7. Min(other) \in other /\ Min(other) <= Len(b) + 1
  BY <1>4, <1>5, MinIs
<1>8. Min(other) \in 1..(Len(b) + 1)
  <2>1. Min(other) \in 1..Len(w)
    BY <1>5, <1>7
  <2> QED
    BY <2>1, <1>1, <1>7
<1>9. CASE Len(w) <= 1
  <2>1. Len(b) = 0
    BY <1>1, <1>2, <1>9
  <2>2. b = <<>> /\ SubSeq(b, 1, Len(b)) = <<>> /\ 1 \in 1..(Len(b) + 1)
    BY <2>1
  <2>3. StripLeadingThinking(w) = SubSeq(b, 1, Len(b)) \o t
    BY <2>2, <1>6, <1>9 DEF w
  <2> QED
    BY <2>2, <2>3 DEF w
<1>10. CASE ~(Len(w) <= 1)
  <2>1. StripLeadingThinking(w) = SubSeq(w, Min(other), Len(w))
    BY <1>4, <1>6, <1>10
  <2>2. SubSeq(w, Min(other), Len(w)) = SubSeq(b, Min(other), Len(b)) \o t
    BY <1>8, SuffixOfConcat DEF w
  <2> QED
    BY <2>1, <2>2, <1>8 DEF w
<1> QED
  BY <1>9, <1>10

LEMMA ThinkingKeepsAnswer ==
    ASSUME NEW X, NEW r \in Seq(X), r # <<>>, r[1].kind # "musing"
    PROVE  StripLeadingThinking(r) = r
<1> DEFINE other == {i \in DOMAIN r : ~Has(r, i, {"musing"})}
<1>1. DOMAIN r = 1..Len(r) /\ Len(r) \in Nat /\ Len(r) >= 1
  OBVIOUS
<1>2. 1 \in other
  BY <1>1 DEF Has
<1>3. other \subseteq Nat /\ \A i \in other : 1 <= i
  BY <1>1
<1>4. StripLeadingThinking(r) =
        IF Len(r) <= 1 THEN r
        ELSE SubSeq(r, IF other = {} THEN Len(r) ELSE Min(other), Len(r))
  BY DEF StripLeadingThinking
<1> HIDE DEF other
<1>5. Min(other) = 1
  BY <1>2, <1>3, MinOf
<1>6. SubSeq(r, 1, Len(r)) = r
  BY SubSeqFull
<1> QED
  BY <1>2, <1>4, <1>5, <1>6

\* What the policy appends: nothing, or a "Links:" line and URLs.
IsNothing(t) == t = <<>>
IsTail(t) == t = <<>> \/ (t[1].kind = "links" /\ \A i \in 2..Len(t) : t[i].kind = "url")

LEMMA TrailingDropsTail ==
    ASSUME NEW X, NEW b \in Seq(X), NEW t \in Seq(X), IsTail(t)
    PROVE  StripTrailingLinksSection(b \o t)
             = IF IsNothing(t) THEN StripTrailingLinksSection(b) ELSE b
<1> USE DEF IsNothing
<1> DEFINE w == b \o t
           headers == {i \in DOMAIN w : Has(w, i, {"links", "**links**"})}
<1>1. /\ w \in Seq(X) /\ Len(b) \in Nat /\ Len(t) \in Nat
      /\ Len(w) = Len(b) + Len(t)
      /\ \A i \in 1..Len(b) : w[i] = b[i]
      /\ \A i \in 1..Len(t) : w[Len(b) + i] = t[i]
      /\ \A i \in 1..(Len(b) + Len(t)) : i \notin 1..Len(b) =>
                i - Len(b) \in 1..Len(t) /\ w[i] = t[i - Len(b)]
  BY Concat
<1> HIDE DEF w
<1>2. DOMAIN w = 1..(Len(b) + Len(t)) /\ DOMAIN b = 1..Len(b)
  BY <1>1
<1>3. StripTrailingLinksSection(w) = IF headers = {} THEN w ELSE SubSeq(w, 1, Max(headers) - 1)
  BY DEF StripTrailingLinksSection
<1>4. CASE t = <<>>
  <2>1. w = b
    BY <1>4, ConcatEmptySeq DEF w
  <2> QED
    BY <1>4, <2>1 DEF w
<1>5. CASE t # <<>>
  <2>1. Len(t) >= 1
    BY <1>5
  <2>2. Len(b) + 1 \in headers /\ headers \subseteq 0..(Len(b) + 1)
    <3>1. ASSUME NEW i \in headers PROVE i \in 0..(Len(b) + 1)
      <4>1. CASE i \in 1..Len(b)
        BY <4>1, <1>1
      <4>2. CASE i \notin 1..Len(b)
        <5>1. i - Len(b) \in 1..Len(t) /\ t[i - Len(b)].kind \in {"links", "**links**"}
          BY <4>2, <1>1, <1>2 DEF Has
        <5>2. i - Len(b) \notin 2..Len(t)
          BY <5>1, <1>5 DEF IsTail
        <5> QED
          BY <5>1, <5>2, <1>1, <1>2
      <4> QED
        BY <4>1, <4>2
    <3>2. Len(b) + 1 \in headers
      BY <1>1, <1>2, <1>5, <2>1 DEF IsTail, Has
    <3> QED
      BY <3>1, <3>2
  <2> HIDE DEF headers
  <2>3. Max(headers) = Len(b) + 1
    <3>1. Len(b) + 1 \in Nat
      BY <1>1
    <3>2. Max(headers) \in headers /\ \A i \in headers : i <= Max(headers)
      BY <2>2, <3>1, MaxIs
    <3>3. Max(headers) \in 0..(Len(b) + 1) /\ Len(b) + 1 <= Max(headers)
      BY <2>2, <3>2
    <3> QED
      BY <3>1, <3>3
  <2>4. Max(headers) - 1 = Len(b)
    BY <1>1, <2>3
  <2>5. SubSeq(w, 1, Len(b)) = SubSeq(b, 1, Len(b))
    <3>1. Len(b) \in 0..Len(b)
      BY <1>1
    <3> QED
      BY <3>1, PrefixOfConcat DEF w
  <2>6. SubSeq(b, 1, Len(b)) = b
    BY SubSeqFull
  <2> QED
    BY <1>5, <2>2, <2>4, <2>5, <2>6, <1>3 DEF w
<1> QED
  BY <1>4, <1>5

LEMMA SeqOfThose ==
    ASSUME NEW X, NEW s \in Seq(X), NEW kinds, Lacks(s, kinds)
    PROVE  s \in Seq({x \in X : x.kind \notin kinds})
  BY DEF Lacks

LEMMA ThoseLack ==
    ASSUME NEW X, NEW kinds, NEW s \in Seq({x \in X : x.kind \notin kinds})
    PROVE  Lacks(s, kinds)
<1>1. \A i \in DOMAIN s : s[i] \in {x \in X : x.kind \notin kinds}
  OBVIOUS
<1> QED
  BY <1>1 DEF Lacks

EndsWith(t, body, links, answer) ==
    /\ t \in Seq({LinksHeader} \cup links)
    /\ IsTail(t)
    /\ Lacks(t, Tags \cup {"musing"})
    /\ (IsNothing(t) <=> links = {})
    /\ answer = body \o t

LEMMA AnswerShape ==
    ASSUME NEW X, NEW reply \in Seq(X), NEW results \in Seq(Results),
           NEW B, B = ScrubNonAllowedURLs(StripLinksSection(reply), ExtractURLs(results)),
           NEW L, L = {Url(u) : u \in ExtractURLs(results)}
    PROVE  B \in Seq(X) /\ \E t : EndsWith(t, B, L, Answer(reply, results))
<1> USE DEF EndsWith, IsNothing
<1> DEFINE urls == ExtractURLs(results)
           list == SetToSeq(L)
           t == IF urls = {} THEN <<>> ELSE <<LinksHeader>> \o list
<1>1. B \in Seq(X)
  <2> DEFINE cut == StripLinksSection(reply)
             kept == {p \in Range(cut) : p.kind = "url" => p.url \in urls}
  <2>1. cut \in Seq(X)
    BY StripLinksType
  <2>2. B = Only(cut, kept)
    BY DEF ScrubNonAllowedURLs
  <2>3. Seq({x \in X : x \in kept}) \subseteq Seq(X)
    OBVIOUS
  <2> HIDE DEF cut, kept
  <2> QED
    BY <2>1, <2>2, <2>3, OnlyType
<1>2. IsFiniteSet(L)
  <2>1. IsFiniteSet(urls)
    BY AllowedFinite
  <2> DEFINE f == [u \in urls |-> Url(u)]
  <2> HIDE DEF urls
  <2>2. f \in Surjection(urls, L)
    <3>1. f \in [urls -> L]
      BY DEF urls
    <3>2. \A x \in L : \E u \in urls : f[u] = x
      BY DEF urls
    <3> QED
      BY <3>1, <3>2 DEF Surjection
  <2> HIDE DEF f
  <2> QED
    BY <2>1, <2>2, FS_Surjection
<1>3. list \in Seq(L)
  BY <1>2, SetToSeqType
<1> HIDE DEF list
<1>4. \A x \in L : x.kind = "url"
  BY DEF Url
<1>5. LinksHeader.kind = "links"
  BY DEF LinksHeader, Piece
<1>6. /\ <<LinksHeader>> \in Seq({LinksHeader} \cup L) /\ list \in Seq({LinksHeader} \cup L)
      /\ Len(<<LinksHeader>>) = 1 /\ <<LinksHeader>>[1] = LinksHeader
  BY <1>3
<1> DEFINE h == <<LinksHeader>>
           hl == h \o list
<1>7. /\ hl \in Seq({LinksHeader} \cup L)
      /\ Len(h) = 1 /\ Len(hl) = 1 + Len(list) /\ Len(list) \in Nat
      /\ \A i \in 1..1 : hl[i] = h[i]
      /\ \A i \in 1..(1 + Len(list)) : i \notin 1..1 => i - 1 \in 1..Len(list) /\ hl[i] = list[i - 1]
  BY <1>6, Concat
<1>8. hl[1] = LinksHeader
  BY <1>6, <1>7
<1> HIDE DEF hl, h
<1>9. ASSUME NEW i \in 2..Len(hl) PROVE hl[i].kind = "url"
  <2>1. i - 1 \in 1..Len(list) /\ hl[i] = list[i - 1]
    BY <1>7
  <2> QED
    BY <2>1, <1>3, <1>4
<1>10. IsTail(hl)
  BY <1>5, <1>8, <1>9 DEF IsTail
<1>11. Lacks(hl, Tags \cup {"musing"})
  <2>1. ASSUME NEW i \in DOMAIN hl PROVE hl[i].kind \in {"links", "url"}
    <3>1. i = 1 \/ i \in 2..Len(hl)
      BY <1>7
    <3> QED
      BY <3>1, <1>5, <1>8, <1>9
  <2> QED
    BY <2>1 DEF Lacks, Tags
<1>12. CASE urls = {}
  <2>1. t = <<>> /\ <<>> \in Seq({LinksHeader} \cup L) /\ IsTail(<<>>) /\ Lacks(<<>>, Tags \cup {"musing"})
    BY <1>12 DEF IsTail, Lacks
  <2>2. Answer(reply, results) = B
    BY <1>12 DEF Answer, EnforceLinksPolicy
  <2>3. B \o <<>> = B
    BY <1>1, ConcatEmptySeq
  <2> QED
    BY <1>12, <2>1, <2>2, <2>3, <1>1
<1>13. CASE urls # {}
  <2>1. Answer(reply, results) = (B \o h) \o list
    BY <1>13 DEF Answer, EnforceLinksPolicy, list, h
  <2>2. (B \o h) \o list = B \o hl
    <3> DEFINE Y == X \cup {LinksHeader} \cup L
    <3>1. B \in Seq(Y) /\ h \in Seq(Y) /\ list \in Seq(Y)
      BY <1>1, <1>3 DEF h
    <3> HIDE DEF Y
    <3> QED
      BY <3>1, Regroup, SMTT(30) DEF hl
  <2>3. hl # <<>> /\ L # {}
    BY <1>7, <1>13
  <2> QED
    BY <2>1, <2>2, <2>3, <1>1, <1>7, <1>10, <1>11
<1> QED
  BY <1>12, <1>13

\* An end without tags that does not start with thinking passes unchanged.
PassesKeep(N, b, e) ==
    \E c \in Seq(N) : StripLeadingThinking(StripScratchpad(StripThinkTags(b \o e))) = c \o e

LEMMA PassesKeepEnd ==
    ASSUME NEW N, NEW Y, N \subseteq Y, NEW b \in Seq(N), NEW e \in Seq(Y),
           Lacks(e, Tags), e # <<>>, e[1].kind # "musing"
    PROVE  PassesKeep(N, b, e)
<1> DEFINE Ends(x) == \E c \in Seq(N) : x = c \o e
<1>0. ASSUME NEW a \in Seq(N), NEW open \in Tags, NEW close \in Tags
      PROVE  Ends(StripDelimitedBlock(a \o e, open, close))
  <2>1. Lacks(e, {open, close})
    BY DEF Lacks
  <2>2. a \in Seq(Y)
    OBVIOUS
  <2>3. StripDelimitedBlock(a, open, close) \in Seq(N)
    BY StripBlockType
  <2>4. StripDelimitedBlock(a \o e, open, close) = StripDelimitedBlock(a, open, close) \o e
    BY <2>1, <2>2, BlockKeepsTail
  <2> QED
    BY <2>3, <2>4
<1> HIDE DEF Ends
<1>1. PICK b1 \in Seq(N) : StripThinkTags(b \o e) = b1 \o e
  <2>1. "<think>" \in Tags /\ "</think>" \in Tags
    BY DEF Tags
  <2>2. Ends(StripDelimitedBlock(b \o e, "<think>", "</think>"))
    BY <1>0, <2>1
  <2> QED
    BY <2>2 DEF StripThinkTags, Ends
<1>2. PICK b2 \in Seq(N) : StripScratchpad(b1 \o e) = b2 \o e
  <2>1. "<scratchpad>" \in Tags /\ "</scratchpad>" \in Tags
    BY DEF Tags
  <2>2. Ends(StripDelimitedBlock(b1 \o e, "<scratchpad>", "</scratchpad>"))
    BY <1>0, <2>1
  <2> QED
    BY <2>2 DEF StripScratchpad, Ends
<1>3. b2 \in Seq(Y)
  OBVIOUS
<1>4. PICK f \in 1..(Len(b2) + 1) : StripLeadingThinking(b2 \o e) = SubSeq(b2, f, Len(b2)) \o e
  BY <1>3, ThinkingKeepsTail
<1>5. SubSeq(b2, f, Len(b2)) \in Seq(N)
  OBVIOUS
<1> QED
  BY <1>1, <1>2, <1>4, <1>5 DEF PassesKeep

\* A reply without "Links:" lines that ends with a citation of an entry of the
\* context is shown with a link to that entry's source at its end.
LEMMA CitationKept ==
    ASSUME NEW X, NEW reply \in Seq(X), NEW results \in Seq(Results), reply # <<>>,
           Lacks(reply, {"links"}),
           NEW n \in DOMAIN results, Last(reply) = Cite(n - 1),
           SourceLinkURL(results[n]) # NoUrl
    PROVE  Last(Rendered(Answer(reply, results), results)) = Url(SourceLinkURL(results[n]))
<1> DEFINE N == {x \in X : x.kind \notin {"links"}}
           urls == ExtractURLs(results)
           T == {p \in Range(reply) : p.kind = "url" => p.url \in urls}
           L == {Url(u) : u \in urls}
           Y == N \cup ({LinksHeader} \cup L)
<1>1. reply \in Seq(N)
  BY SeqOfThose
<1> HIDE DEF N
<1>2. PICK r0 \in Seq(N), c \in N : reply = Append(r0, c)
  BY <1>1, SequenceEmptyOrAppend
<1>3. c = Cite(n - 1) /\ c.kind = "cite" /\ c.n = n - 1
  <2>1. Last(reply) = c
    BY <1>2 DEF Last
  <2> QED
    BY <2>1 DEF Cite
<1>4. StripLinksSection(reply) = reply
  BY DEF StripLinksSection, Lacks, Has
<1>5. Only(reply, T) = Append(Only(r0, T), c)
  <2>1. c \in T
    <3>1. c \in Range(reply)
      <4>1. Len(reply) \in DOMAIN reply /\ reply[Len(reply)] = c
        BY <1>2
      <4> QED
        BY <4>1 DEF Range
    <3> QED
      BY <3>1, <1>3
  <2> HIDE DEF T
  <2> QED
    BY <2>1, <1>2, OnlyOfAppend
<1> DEFINE B == Only(r0, T)
           body == ScrubNonAllowedURLs(StripLinksSection(reply), urls)
<1>6. B \in Seq(N)
  <2>1. Seq({x \in N : x \in T}) \subseteq Seq(N)
    OBVIOUS
  <2> HIDE DEF T
  <2> QED
    BY <2>1, OnlyType
<1>7. body = Append(B, c)
  BY <1>4, <1>5 DEF ScrubNonAllowedURLs
<1> HIDE DEF B, body, T
<1>8. PICK t : /\ t \in Seq({LinksHeader} \cup L)
              /\ IsTail(t)
              /\ Lacks(t, Tags \cup {"musing"})
              /\ (IsNothing(t) <=> L = {})
              /\ Answer(reply, results) = body \o t
  <2>1. body = ScrubNonAllowedURLs(StripLinksSection(reply), ExtractURLs(results))
    BY DEF body
  <2>2. L = {Url(u) : u \in ExtractURLs(results)}
    OBVIOUS
  <2> HIDE DEF L, urls
  <2>3. \E t : EndsWith(t, body, L, Answer(reply, results))
    BY <1>1, <2>1, <2>2, AnswerShape
  <2> QED
    BY <2>3 DEF EndsWith
<1> HIDE DEF L, urls
<1> DEFINE e == <<c>> \o t
           C == <<c>>
<1>9. t \in Seq(Y) /\ C \in Seq(Y) /\ C \in Seq(N) /\ N \subseteq Y /\ Seq(N) \subseteq Seq(Y)
  <2>1. t \in Seq({LinksHeader} \cup L)
    BY <1>8
  <2> QED
    BY <2>1
<1>10. C # <<>> /\ Len(C) = 1 /\ C[1] = c
  OBVIOUS
<1> HIDE DEF C, Y
<1>assoc. \A p, q, s \in Seq(Y) : (p \o q) \o s = p \o (q \o s)
  BY Regroup, SMTT(30)
<1>regroup. ASSUME NEW b \in Seq(N) PROVE (b \o C) \o t = b \o (C \o t)
  <2>1. b \in Seq(Y) /\ C \in Seq(Y) /\ t \in Seq(Y)
    BY <1>9
  <2> QED
    BY <2>1, <1>assoc
<1>11. /\ e \in Seq(Y) /\ Len(e) = 1 + Len(t) /\ Len(t) \in Nat /\ e[1] = c
       /\ \A i \in 1..(1 + Len(t)) : i \notin 1..1 => i - 1 \in 1..Len(t) /\ e[i] = t[i - 1]
  <2>1. e = C \o t
    BY DEF C
  <2> HIDE DEF e
  <2>2. /\ C \o t \in Seq(Y) /\ Len(t) \in Nat
        /\ Len(C \o t) = Len(C) + Len(t)
        /\ \A i \in 1..Len(C) : (C \o t)[i] = C[i]
        /\ \A i \in 1..(Len(C) + Len(t)) : i \notin 1..Len(C) =>
                i - Len(C) \in 1..Len(t) /\ (C \o t)[i] = t[i - Len(C)]
    BY <1>9, Concat
  <2> QED
    BY <2>1, <2>2, <1>10
<1>12. e # <<>> /\ e[1].kind # "musing"
  BY <1>3, <1>11
<1>13. Lacks(e, Tags)
  <2>1. ASSUME NEW i \in 1..(1 + Len(t)) PROVE e[i].kind \notin Tags
    <3>1. CASE i = 1
      BY <3>1, <1>3, <1>11 DEF Tags
    <3>2. CASE i # 1
      <4>1. i - 1 \in 1..Len(t) /\ e[i] = t[i - 1]
        BY <3>2, <1>11
      <4>2. DOMAIN t = 1..Len(t)
        BY <1>9
      <4> QED
        BY <4>1, <4>2, <1>8 DEF Lacks
    <3> QED
      BY <3>1, <3>2
  <2>2. DOMAIN e = 1..(1 + Len(t))
    BY <1>11
  <2> QED
    BY <2>1, <2>2 DEF Lacks
<1>14. Answer(reply, results) = B \o e
  <2>1. Append(B, c) = B \o C
    BY <1>6, AppendIsConcat DEF C
  <2>2. (B \o C) \o t = B \o (C \o t)
    BY <1>6, <1>regroup
  <2> QED
    BY <2>1, <2>2, <1>7, <1>8 DEF C
<1> HIDE DEF e
<1>15. PICK B3 \in Seq(N) :
            StripLeadingThinking(StripScratchpad(StripThinkTags(B \o e))) = B3 \o e
  <2>1. e \in Seq(Y) /\ N \subseteq Y
    BY <1>9, <1>11
  <2>2. PassesKeep(N, B, e)
    BY <1>6, <1>12, <1>13, <2>1, PassesKeepEnd
  <2> QED
    BY <2>2 DEF PassesKeep
<1> DEFINE s == B3 \o C
<1>18. s \in Seq(N) /\ s \in Seq(Y) /\ Len(s) = Len(B3) + 1 /\ s[Len(s)] = c /\ Len(B3) \in Nat
  <2>1. /\ s \in Seq(N) /\ Len(B3) \in Nat /\ Len(s) = Len(B3) + Len(C)
        /\ \A i \in 1..Len(C) : s[Len(B3) + i] = C[i]
    BY <1>9
  <2> HIDE DEF s
  <2> QED
    BY <2>1, <1>9, <1>10
<1>19. B3 \o e = s \o t
  <2>1. (B3 \o C) \o t = B3 \o (C \o t)
    BY <1>regroup
  <2> QED
    BY <2>1 DEF e, C
<1> HIDE DEF s
<1>20. StripTrailingLinksSection(s \o t) = s
  <2>1. ~IsNothing(t)
    <3>1. SourceLinkURL(results[n]) \in urls
      BY SourceLinkAllowed DEF urls
    <3> QED
      BY <3>1, <1>8 DEF L
  <2> QED
    BY <2>1, <1>8, <1>9, <1>18, TrailingDropsTail
<1>21. Rendered(Answer(reply, results), results) = InlineSourceLinks(s, results)
  BY <1>14, <1>15, <1>19, <1>20 DEF Rendered
<1> DEFINE shown == InlineSourceLinks(s, results)
<1>22. DOMAIN shown = DOMAIN s /\ Len(shown) = Len(s) /\ Len(s) \in DOMAIN s
  <2>1. DOMAIN s = 1..Len(s) /\ Len(s) \in 1..Len(s)
    BY <1>18
  <2> QED
    BY <2>1, <1>18 DEF InlineSourceLinks
<1>23. s[Len(s)].n < Len(results) /\ s[Len(s)].n + 1 = n /\ Has(s, Len(s), {"cite"})
  BY <1>3, <1>18 DEF Has
<1>24. shown[Len(s)] = Url(SourceLinkURL(results[n]))
  BY <1>22, <1>23 DEF InlineSourceLinks
<1> QED
  BY <1>21, <1>22, <1>24 DEF Last


\* A reply in the format the prompt asks for.
LEMMA ScrubAs ==
    ASSUME NEW X, NEW r \in Seq(X), NEW urls
    PROVE  ScrubNonAllowedURLs(r, urls) = Only(r, {p \in X : p.kind = "url" => p.url \in urls})
<1> DEFINE T == {p \in Range(r) : p.kind = "url" => p.url \in urls}
           U == {p \in X : p.kind = "url" => p.url \in urls}
<1>1. \A i \in 1..Len(r) : r[i] \in T <=> r[i] \in U
  BY DEF Range
<1>2. ScrubNonAllowedURLs(r, urls) = Only(r, T)
  BY DEF ScrubNonAllowedURLs
<1> HIDE DEF T, U
<1>3. Only(r, T) = Only(r, U)
  BY <1>1, OnlyDependsOn
<1> QED
  BY <1>2, <1>3 DEF U

LEMMA BlockAbsent ==
    ASSUME NEW r, NEW open, NEW close, Lacks(r, {open})
    PROVE  StripDelimitedBlock(r, open, close) = r
  BY DEF StripDelimitedBlock, Lacks, Has

LEMMA BlockCut ==
    ASSUME NEW X, NEW b \in Seq(X), NEW r \in Seq(X),
           Len(b) > 1, b[1].kind = "<scratchpad>", b[Len(b)].kind = "</scratchpad>",
           \A i \in 2..(Len(b) - 1) : b[i].kind # "</scratchpad>"
    PROVE  StripScratchpad(b \o r) = r
<1> DEFINE open == "<scratchpad>"
           close == "</scratchpad>"
           w == b \o r
           opens == {i \in DOMAIN w : Has(w, i, {open})}
           closes == {i \in DOMAIN w : Has(w, i, {close}) /\ i > Min(opens)}
<1>1. /\ w \in Seq(X) /\ Len(b) \in Nat /\ Len(r) \in Nat
      /\ Len(w) = Len(b) + Len(r)
      /\ \A i \in 1..Len(b) : w[i] = b[i]
  BY Concat
<1>2. StripScratchpad(w)
         = IF opens = {} THEN w
           ELSE IF closes = {} THEN w
           ELSE SubSeq(w, 1, Min(opens) - 1) \o SubSeq(w, Min(closes) + 1, Len(w))
  BY DEF StripDelimitedBlock, StripScratchpad
<1>3. SubSeq(w, Len(b) + 1, Len(w)) = r
  <2>1. SubSeq(b \o r, Len(b) + 1, Len(b \o r)) = SubSeq(b, Len(b) + 1, Len(b)) \o r
    BY <1>1, SuffixOfConcat
  <2>2. SubSeq(b, Len(b) + 1, Len(b)) = <<>>
    BY <1>1
  <2>3. <<>> \o r = r
    BY ConcatEmptySeq
  <2> QED
    BY <2>1, <2>2, <2>3
<1> HIDE DEF w
<1>4. Min(opens) = 1 /\ opens # {}
  <2>1. opens \subseteq Nat /\ \A y \in opens : 1 <= y
    BY <1>1
  <2>2. 1 \in opens
    <3>1. w[1] = b[1] /\ 1 \in DOMAIN w
      BY <1>1
    <3> QED
      BY <3>1 DEF Has
  <2> HIDE DEF opens
  <2> QED
    BY <2>1, <2>2, MinOf
<1> HIDE DEF opens
<1>5. Min(closes) = Len(b) /\ closes # {}
  <2>1. closes \subseteq Nat
    BY <1>1
  <2>2. Len(b) \in closes
    BY <1>1, <1>4 DEF Has
  <2>3. ASSUME NEW y \in Nat, y > 1, y < Len(b) PROVE w[y].kind # close
    <3>1. y \in 2..(Len(b) - 1) /\ y \in 1..Len(b)
      BY <2>3, <1>1
    <3> QED
      BY <3>1, <1>1
  <2>4. \A y \in closes : y \in Nat /\ y > 1 /\ w[y].kind = close
    BY <1>1, <1>4 DEF Has
  <2> HIDE DEF closes
  <2>5. ASSUME NEW y \in closes PROVE Len(b) <= y
    <3>1. y \in Nat /\ y > 1 /\ w[y].kind = close
      BY <2>4
    <3>2. ~(y < Len(b))
      BY <2>3, <3>1
    <3> QED
      BY <3>1, <3>2, <1>1
  <2> HIDE DEF closes
  <2> QED
    BY <2>1, <2>2, <2>5, MinOf
<1> HIDE DEF closes
<1>6. SubSeq(w, 1, 0) = <<>> /\ <<>> \o r = r
  BY <1>1, ConcatEmptySeq
<1>7. Min(opens) - 1 = 0
  BY <1>4
<1> QED
  BY <1>2, <1>3, <1>4, <1>5, <1>6, <1>7 DEF w


LEMMA OnlyOfSingle ==
    ASSUME NEW X, NEW x \in X, NEW T, x \in T
    PROVE  Only(<<x>>, T) = <<x>>
<1> DEFINE none == <<>>
<1>1. Append(none, x) = <<x>> /\ none \in Seq(X)
  OBVIOUS
<1>2. Only(none, T) = none
  BY OnlyOfNone
<1> HIDE DEF none
<1>3. \A s \in Seq(X) : Only(Append(s, x), T) = Append(Only(s, T), x)
  BY OnlyOfAppend
<1> QED
  BY <1>1, <1>2, <1>3

LEMMA ScrubType ==
    ASSUME NEW X, NEW r \in Seq(X), NEW urls
    PROVE  ScrubNonAllowedURLs(r, urls) \in Seq(X)
<1> DEFINE T == {p \in Range(r) : p.kind = "url" => p.url \in urls}
<1>1. Seq({x \in X : x \in T}) \subseteq Seq(X)
  OBVIOUS
<1>2. ScrubNonAllowedURLs(r, urls) = Only(r, T)
  BY DEF ScrubNonAllowedURLs
<1> HIDE DEF T
<1> QED
  BY <1>1, <1>2, OnlyType

LEMMA ScrubOfConcat ==
    ASSUME NEW X, NEW s \in Seq(X), NEW t \in Seq(X), NEW urls
    PROVE  ScrubNonAllowedURLs(s \o t, urls)
             = ScrubNonAllowedURLs(s, urls) \o ScrubNonAllowedURLs(t, urls)
<1> DEFINE K == {p \in X : p.kind = "url" => p.url \in urls}
<1>1. s \o t \in Seq(X)
  OBVIOUS
<1>2. \A r \in Seq(X) : ScrubNonAllowedURLs(r, urls) = Only(r, K)
  BY ScrubAs
<1> HIDE DEF K
<1>3. Only(s \o t, K) = Only(s, K) \o Only(t, K)
  BY OnlyOfConcat
<1> QED
  BY <1>1, <1>2, <1>3

LEMMA ScrubConcats ==
    ASSUME NEW X, NEW urls
    PROVE  \A s, t \in Seq(X) : ScrubNonAllowedURLs(s \o t, urls)
                 = ScrubNonAllowedURLs(s, urls) \o ScrubNonAllowedURLs(t, urls)
  BY ScrubOfConcat

LEMMA ScrubOfSingle ==
    ASSUME NEW X, NEW x \in X, x.kind # "url", NEW urls
    PROVE  ScrubNonAllowedURLs(<<x>>, urls) = <<x>>
<1> DEFINE K == {p \in X : p.kind = "url" => p.url \in urls}
<1>1. <<x>> \in Seq(X) /\ x \in K
  OBVIOUS
<1>2. ScrubNonAllowedURLs(<<x>>, urls) = Only(<<x>>, K)
  BY <1>1, ScrubAs
<1> HIDE DEF K
<1>3. Only(<<x>>, K) = <<x>>
  BY <1>1, OnlyOfSingle
<1> QED
  BY <1>2, <1>3

Block(o, mid, c) == (<<o>> \o mid) \o <<c>>

\* A block and what follows it, without the URLs that are not allowed.
LEMMA ScrubOfBlock ==
    ASSUME NEW X, NEW o \in X, NEW mid \in Seq(X), NEW c \in X, NEW r \in Seq(X), NEW urls,
           o.kind = "<scratchpad>", c.kind = "</scratchpad>"
    PROVE  ScrubNonAllowedURLs(Block(o, mid, c) \o r, urls)
             = Block(o, ScrubNonAllowedURLs(mid, urls), c) \o ScrubNonAllowedURLs(r, urls)
<1> DEFINE O == <<o>>
           C == <<c>>
           h == O \o mid
           b == h \o C
<1>1. O \in Seq(X) /\ C \in Seq(X) /\ h \in Seq(X) /\ b \in Seq(X)
  OBVIOUS
<1>2. ScrubNonAllowedURLs(O, urls) = O /\ ScrubNonAllowedURLs(C, urls) = C
  BY ScrubOfSingle
<1> HIDE DEF O, C
<1> DEFINE Scrub(s) == ScrubNonAllowedURLs(s, urls)
<1>concat. \A s, t \in Seq(X) : Scrub(s \o t) = Scrub(s) \o Scrub(t)
  BY ScrubConcats
<1>scrub. Scrub(O) = O /\ Scrub(C) = C
  BY <1>2
<1> HIDE DEF Scrub
<1>3. Scrub(h) = O \o Scrub(mid)
  <2>1. Scrub(O \o mid) = Scrub(O) \o Scrub(mid)
    BY <1>1, <1>concat
  <2> QED
    BY <1>scrub, <2>1
<1> HIDE DEF h
<1>4. Scrub(b) = (O \o Scrub(mid)) \o C
  BY <1>1, <1>scrub, <1>concat, <1>3
<1> HIDE DEF b
<1>5. Scrub(b \o r) = ((O \o Scrub(mid)) \o C) \o Scrub(r)
  BY <1>1, <1>concat, <1>4
<1> QED
  BY <1>5 DEF O, C, h, b, Scrub, Block

\* The links section is cut off what follows the block.
LEMMA StripLinksOfBlock ==
    ASSUME NEW X, NEW o \in X, NEW mid \in Seq(X), NEW c \in X, NEW r \in Seq(X),
           o.kind = "<scratchpad>", c.kind = "</scratchpad>", Lacks(mid, {"links"})
    PROVE  StripLinksSection(Block(o, mid, c) \o r) = Block(o, mid, c) \o StripLinksSection(r)
<1> DEFINE Z == {x \in X : x.kind \notin {"links"}}
           h == (<<o>> \o mid) \o <<c>>
<1>1. mid \in Seq(Z)
  BY SeqOfThose
<1>2. o \in Z /\ c \in Z
  OBVIOUS
<1>3. h \in Seq(X)
  OBVIOUS
<1>4. h \in Seq(Z)
  <2> HIDE DEF Z
  <2> QED
    BY <1>1, <1>2
<1> HIDE DEF h
<1>5. Lacks(h, {"links"})
  BY <1>4, ThoseLack
<1>6. StripLinksSection(h \o r) = h \o StripLinksSection(r)
  BY <1>3, <1>5, StripLinksHead
<1> QED
  BY <1>6 DEF h, Block

\* The link policy leaves a scratchpad where it is.
LEMMA PolicyOfBlock ==
    ASSUME NEW X, NEW o \in X, NEW mid \in Seq(X), NEW c \in X, NEW r \in Seq(X), NEW urls,
           o.kind = "<scratchpad>", c.kind = "</scratchpad>", Lacks(mid, {"links"})
    PROVE  ScrubNonAllowedURLs(StripLinksSection(Block(o, mid, c) \o r), urls)
             = Block(o, ScrubNonAllowedURLs(mid, urls), c)
               \o ScrubNonAllowedURLs(StripLinksSection(r), urls)
<1> DEFINE cut == StripLinksSection(r)
<1>3. StripLinksSection(Block(o, mid, c) \o r) = Block(o, mid, c) \o cut
  BY StripLinksOfBlock
<1>4. cut \in Seq(X)
  BY StripLinksType
<1> HIDE DEF cut
<1>5. ScrubNonAllowedURLs(Block(o, mid, c) \o cut, urls)
        = Block(o, ScrubNonAllowedURLs(mid, urls), c) \o ScrubNonAllowedURLs(cut, urls)
  BY <1>4, ScrubOfBlock
<1> QED
  BY <1>3, <1>5 DEF cut

\* The pieces of tags are dropped with the block between them.
LEMMA PassesDropBlock ==
    ASSUME NEW Y, NEW o \in Y, NEW M \in Seq(Y), NEW c \in Y, NEW r \in Seq(Y),
           o.kind = "<scratchpad>", c.kind = "</scratchpad>",
           Lacks(M, Tags), Lacks(r, Tags), r # <<>>, r[1].kind # "musing"
    PROVE  StripLeadingThinking(StripScratchpad(StripThinkTags(Block(o, M, c) \o r))) = r
<1> DEFINE Z == {x \in Y : x.kind \notin {"<think>"}}
           b == (<<o>> \o M) \o <<c>>
<1>1. Lacks(b \o r, {"<think>"})
  <2>1. Lacks(M, {"<think>"}) /\ Lacks(r, {"<think>"})
    BY DEF Lacks, Tags
  <2>2. M \in Seq(Z)
    BY <2>1, SeqOfThose
  <2>3. r \in Seq(Z)
    BY <2>1, SeqOfThose
  <2>4. o \in Z /\ c \in Z
    OBVIOUS
  <2>5. b \o r \in Seq(Z)
    <3> HIDE DEF Z
    <3> QED
      BY <2>2, <2>3, <2>4
  <2> HIDE DEF b
  <2> QED
    BY <2>5, ThoseLack
<1>2. StripThinkTags(b \o r) = b \o r
  <2> HIDE DEF b
  <2> QED
    BY <1>1, BlockAbsent DEF StripThinkTags
<1>3. /\ b \in Seq(Y) /\ Len(b) = Len(M) + 2 /\ Len(M) \in Nat
      /\ b[1] = o /\ b[Len(b)] = c
      /\ \A i \in 2..(Len(b) - 1) : b[i] = M[i - 1]
  OBVIOUS
<1> HIDE DEF b
<1>4. \A i \in 2..(Len(b) - 1) : b[i].kind # "</scratchpad>"
  <2>1. ASSUME NEW i \in 2..(Len(b) - 1) PROVE b[i].kind # "</scratchpad>"
    <3>1. i - 1 \in 1..Len(M) /\ b[i] = M[i - 1]
      BY <1>3
    <3>2. DOMAIN M = 1..Len(M)
      OBVIOUS
    <3> QED
      BY <3>1, <3>2 DEF Lacks, Tags
  <2> QED
    BY <2>1
<1>5. StripScratchpad(b \o r) = r
  <2>1. Len(b) > 1 /\ b[1].kind = "<scratchpad>" /\ b[Len(b)].kind = "</scratchpad>"
    BY <1>3
  <2> QED
    BY <1>3, <1>4, <2>1, BlockCut
<1>6. StripLeadingThinking(r) = r
  BY ThinkingKeepsAnswer
<1> QED
  BY <1>2, <1>5, <1>6 DEF b, Block


\* What is kept of the answer of a reply.
Kept(answer, results) ==
    LET urls == ExtractURLs(results)
        body == ScrubNonAllowedURLs(StripLinksSection(answer), urls)
    IN InlineSourceLinks(IF urls = {} THEN StripTrailingLinksSection(body) ELSE body, results)

\* Of a reply in the format the prompt asks for, what is shown is the answer
\* after the scratchpad, up to its own "Links:" line and without the URLs that
\* are no source's: first of a reply given by its parts.
LEMMA AnswerIsShown ==
    ASSUME NEW X, NEW o \in X, NEW mid \in Seq(X), NEW c \in X, NEW a \in X, NEW rest \in Seq(X),
           NEW results \in Seq(Results),
           o.kind = "<scratchpad>", c.kind = "</scratchpad>", a.kind = "text",
           Lacks(mid, Tags), Lacks(mid, {"links"}), Lacks(rest, Tags)
    PROVE  Rendered(Answer(Block(o, mid, c) \o (<<a>> \o rest), results), results)
             = Kept(<<a>> \o rest, results)
<1> DEFINE urls == ExtractURLs(results)
           L == {Url(u) : u \in urls}
           Y == X \cup ({LinksHeader} \cup L)
           N == {x \in X : x.kind \notin Tags}
           ans == <<a>> \o rest
           reply == Block(o, mid, c) \o ans
           cut == StripLinksSection(ans)
           M == ScrubNonAllowedURLs(mid, urls)
           A == ScrubNonAllowedURLs(cut, urls)
           B == Block(o, M, c) \o A
<1>1. ans \in Seq(X) /\ reply \in Seq(X)
  BY DEF Block
\* The answer starts as it did, without tags and without a links section.
<1>2. a \in N /\ rest \in Seq(N) /\ mid \in Seq(N)
  <2>1. rest \in Seq(N)
    BY SeqOfThose
  <2>2. mid \in Seq(N)
    BY SeqOfThose
  <2> QED
    BY <2>1, <2>2 DEF Tags
<1>3. cut = <<a>> \o StripLinksSection(rest)
  <2> DEFINE front == <<a>>
  <2>1. front \in Seq(X) /\ Lacks(front, {"links"})
    BY DEF Lacks
  <2> HIDE DEF front
  <2>2. StripLinksSection(front \o rest) = front \o StripLinksSection(rest)
    BY <2>1, StripLinksHead
  <2> QED
    BY <2>2 DEF front
<1>4. A \in Seq(N) /\ A # <<>> /\ A[1] = a /\ M \in Seq(N)
  <2> DEFINE front == <<a>>
             back == StripLinksSection(rest)
             kept == ScrubNonAllowedURLs(back, urls)
  <2>1. back \in Seq(N)
    BY <1>2, StripLinksType
  <2>2. front \in Seq(N)
    BY <1>2
  <2> HIDE DEF N, urls
  <2>3. ScrubNonAllowedURLs(front, urls) = front
    BY <1>2, ScrubOfSingle
  <2>4. cut = front \o back
    BY <1>3
  <2> HIDE DEF front, cut, back
  <2>5. ScrubNonAllowedURLs(front \o back, urls) = ScrubNonAllowedURLs(front, urls) \o kept
    BY <2>1, <2>2, ScrubOfConcat
  <2>6. A = front \o kept
    BY <2>3, <2>4, <2>5
  <2>7. kept \in Seq(N) /\ M \in Seq(N)
    BY <1>2, <2>1, ScrubType
  <2> HIDE DEF A, kept, M
  <2> QED
    BY <1>2, <2>6, <2>7 DEF front
\* The policy leaves the block, and appends its own section.
<1>7. ScrubNonAllowedURLs(StripLinksSection(reply), ExtractURLs(results)) = B
  <2>1. \A u : ScrubNonAllowedURLs(StripLinksSection(Block(o, mid, c) \o ans), u)
          = Block(o, ScrubNonAllowedURLs(mid, u), c)
            \o ScrubNonAllowedURLs(StripLinksSection(ans), u)
    <3> HIDE DEF ans
    <3> QED
      BY <1>1, PolicyOfBlock, SMT
  <2> QED
    BY <2>1
<1>8. PICK t : /\ t \in Seq({LinksHeader} \cup L)
              /\ IsTail(t)
              /\ Lacks(t, Tags \cup {"musing"})
              /\ (IsNothing(t) <=> urls = {})
              /\ Answer(reply, results) = B \o t
  <2> DEFINE body == ScrubNonAllowedURLs(StripLinksSection(reply), ExtractURLs(results))
  <2>1. L = {Url(u) : u \in ExtractURLs(results)}
    OBVIOUS
  <2>2. body = ScrubNonAllowedURLs(StripLinksSection(reply), ExtractURLs(results))
    OBVIOUS
  <2> HIDE DEF L, urls, reply, B, body
  <2>3. \E t : EndsWith(t, body, L, Answer(reply, results))
    BY <1>1, <2>1, <2>2, AnswerShape
  <2>4. L = {} <=> urls = {}
    BY DEF L
  <2> QED
    BY <1>7, <2>2, <2>3, <2>4 DEF EndsWith
<1>9. Block(o, M, c) \o A \in Seq(Y) /\ A \in Seq(Y) /\ t \in Seq(Y) /\ M \in Seq(Y) /\ o \in Y /\ c \in Y
  <2>1. N \subseteq Y /\ ({LinksHeader} \cup L) \subseteq Y
    OBVIOUS
  <2>2. A \in Seq(Y) /\ M \in Seq(Y)
    BY <1>4, <2>1
  <2>3. t \in Seq(Y)
    BY <1>8, <2>1
  <2>4. o \in Y /\ c \in Y
    OBVIOUS
  <2> HIDE DEF Y, A, M
  <2> QED
    BY <2>2, <2>3, <2>4 DEF Block
<1> DEFINE r == A \o t
<1>10. Answer(reply, results) = Block(o, M, c) \o r
  <2>1. Block(o, M, c) \in Seq(Y)
    <3> HIDE DEF Y, M
    <3> QED
      BY <1>9 DEF Block
  <2> DEFINE block == Block(o, M, c)
  <2> HIDE DEF Y, A, block
  <2>2. (block \o A) \o t = block \o (A \o t)
    BY <1>9, <2>1, Regroup, SMTT(30) DEF block
  <2> QED
    BY <2>2, <1>8 DEF block
<1>11. Lacks(A, Tags) /\ Lacks(M, Tags)
  <2> HIDE DEF A, M
  <2> QED
    BY <1>4, ThoseLack
<1> HIDE DEF A, M, B, L, urls, reply, ans, cut
<1>12. /\ r \in Seq(Y) /\ r # <<>> /\ r[1].kind # "musing" /\ Lacks(r, Tags)
  <2>1. /\ r \in Seq(Y) /\ Len(A) \in Nat /\ Len(t) \in Nat /\ Len(r) = Len(A) + Len(t)
        /\ \A i \in 1..Len(A) : r[i] = A[i]
        /\ \A i \in 1..(Len(A) + Len(t)) : i \notin 1..Len(A) =>
                i - Len(A) \in 1..Len(t) /\ r[i] = t[i - Len(A)]
    <3> HIDE DEF Y
    <3> QED
      BY <1>9, Concat
  <2> HIDE DEF r, Y
  <2>2. DOMAIN A = 1..Len(A) /\ DOMAIN t = 1..Len(t) /\ DOMAIN r = 1..(Len(A) + Len(t)) /\ Len(A) # 0
    BY <2>1, <1>4, <1>9
  <2>3. 1 \in 1..Len(A) /\ r[1] = a /\ r # <<>>
    BY <2>1, <2>2, <1>4
  <2>4. ASSUME NEW i \in 1..(Len(A) + Len(t)) PROVE r[i].kind \notin Tags
    <3>1. CASE i \in 1..Len(A)
      BY <3>1, <2>1, <2>2, <1>11 DEF Lacks
    <3>2. CASE i \notin 1..Len(A)
      <4>1. i - Len(A) \in DOMAIN t /\ r[i] = t[i - Len(A)]
        BY <3>2, <2>1, <2>2
      <4> QED
        BY <4>1, <1>8 DEF Lacks
    <3> QED
      BY <3>1, <3>2
  <2> QED
    BY <2>1, <2>2, <2>3, <2>4 DEF Lacks
<1> HIDE DEF r, Y
<1>13. StripLeadingThinking(StripScratchpad(StripThinkTags(Block(o, M, c) \o r))) = r
  BY <1>9, <1>11, <1>12, PassesDropBlock
<1>14. StripTrailingLinksSection(A \o t)
            = IF urls = {} THEN StripTrailingLinksSection(A) ELSE A
  BY <1>8, <1>9, TrailingDropsTail
<1>15. Rendered(Answer(reply, results), results)
            = InlineSourceLinks(IF urls = {} THEN StripTrailingLinksSection(A) ELSE A, results)
  BY <1>10, <1>13, <1>14 DEF Rendered, r
<1> QED
  BY <1>15 DEF Kept, A, urls, reply, ans, cut

LEMMA FormatKept ==
    ASSUME NEW X, NEW reply \in Seq(X), NEW results \in Seq(Results),
           NEW n \in DOMAIN reply, n > 1, n < Len(reply),
           reply[1].kind = "<scratchpad>", reply[n].kind = "</scratchpad>",
           \A i \in DOMAIN reply \ {1, n} : reply[i].kind \notin Tags,
           \A i \in 1..n : reply[i].kind # "links",
           reply[n + 1].kind = "text"
    PROVE  Rendered(Answer(reply, results), results)
             = Kept(SubSeq(reply, n + 1, Len(reply)), results)
<1> DEFINE mid == SubSeq(reply, 2, n - 1)
           rest == SubSeq(reply, n + 2, Len(reply))
           o == reply[1]
           c == reply[n]
           a == reply[n + 1]
<1>1. /\ n \in Nat /\ Len(reply) \in Nat /\ DOMAIN reply = 1..Len(reply)
      /\ 1 \in DOMAIN reply /\ n + 1 \in DOMAIN reply
  OBVIOUS
<1>2. o \in X /\ c \in X /\ a \in X
  BY <1>1
<1>3. SubSeq(reply, 1, n) = Block(o, mid, c)
  <2>1. SubSeq(reply, 1, n - 1) = <<o>> \o mid
    <3>1. 1 \in 1..Len(reply) /\ n - 1 \in 1..Len(reply) /\ 1 + 1 = 2
      BY <1>1
    <3> QED
      BY <3>1, SubSeqRecursiveFirst
  <2>2. SubSeq(reply, 1, n) = SubSeq(reply, 1, n - 1) \o <<c>>
    <3>1. 1 \in 1..Len(reply) /\ n \in 1..Len(reply)
      BY <1>1
    <3> QED
      BY <3>1, SubSeqRecursiveSecond
  <2> QED
    BY <2>1, <2>2 DEF Block
<1>4. SubSeq(reply, n + 1, Len(reply)) = <<a>> \o rest
  <2>1. n + 1 \in 1..Len(reply) /\ Len(reply) \in (n + 1)..Len(reply) /\ (n + 1) + 1 = n + 2
    BY <1>1
  <2> QED
    BY <2>1, SubSeqRecursiveFirst
<1>5. reply = Block(o, mid, c) \o (<<a>> \o rest)
  <2>1. 1 \in 1..(Len(reply) + 1) /\ n \in 0..Len(reply) /\ Len(reply) \in n..Len(reply) /\ 1 - 1 = 0
    BY <1>1
  <2>2. SubSeq(reply, 1, n) \o SubSeq(reply, n + 1, Len(reply)) = SubSeq(reply, 1, Len(reply))
    BY <2>1, ConcatAdjacentSubSeq
  <2>3. SubSeq(reply, 1, Len(reply)) = reply
    BY SubSeqFull
  <2> QED
    BY <2>2, <2>3, <1>3, <1>4
<1>6. mid \in Seq(X) /\ Lacks(mid, Tags) /\ Lacks(mid, {"links"})
  <2>1. /\ mid \in Seq(X)
        /\ Len(mid) = (n - 1) - 2 + 1
        /\ \A i \in 1..((n - 1) - 2 + 1) : mid[i] = reply[2 + i - 1]
    <3>1. 2 \in 1..(Len(reply) + 1) /\ n - 1 \in (2 - 1)..Len(reply)
      BY <1>1
    <3> QED
      BY <3>1, SubSeqIs
  <2> HIDE DEF mid
  <2>2. ASSUME NEW i \in 1..((n - 1) - 2 + 1) PROVE mid[i].kind \notin Tags /\ mid[i].kind # "links"
    <3>1. 2 + i - 1 \in DOMAIN reply \ {1, n} /\ 2 + i - 1 \in 1..n
      BY <1>1
    <3> QED
      BY <3>1, <2>1
  <2>3. DOMAIN mid = 1..((n - 1) - 2 + 1)
    BY <2>1
  <2> QED
    BY <2>1, <2>2, <2>3 DEF Lacks
<1>7. rest \in Seq(X) /\ Lacks(rest, Tags)
  <2>1. /\ rest \in Seq(X)
        /\ Len(rest) = Len(reply) - (n + 2) + 1
        /\ \A i \in 1..(Len(reply) - (n + 2) + 1) : rest[i] = reply[(n + 2) + i - 1]
    <3>1. n + 2 \in 1..(Len(reply) + 1) /\ Len(reply) \in ((n + 2) - 1)..Len(reply)
      BY <1>1
    <3> QED
      BY <3>1, SubSeqIs
  <2> HIDE DEF rest
  <2>2. ASSUME NEW i \in 1..(Len(reply) - (n + 2) + 1) PROVE rest[i].kind \notin Tags
    <3>1. (n + 2) + i - 1 \in DOMAIN reply \ {1, n}
      BY <1>1
    <3> QED
      BY <3>1, <2>1
  <2>3. DOMAIN rest = 1..(Len(reply) - (n + 2) + 1)
    BY <2>1
  <2> QED
    BY <2>1, <2>2, <2>3 DEF Lacks
<1> HIDE DEF mid, rest
<1>8. Rendered(Answer(Block(o, mid, c) \o (<<a>> \o rest), results), results)
        = Kept(<<a>> \o rest, results)
  BY <1>2, <1>6, <1>7, AnswerIsShown
<1> QED
  BY <1>4, <1>5, <1>8

=============================================================================
