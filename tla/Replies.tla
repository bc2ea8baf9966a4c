------------------------------ MODULE Replies -------------------------------
(***************************************************************************)
(* What becomes of the language model's reply on its way to the browser:   *)
(* the link policy of links_policy.go, which QueryDebugWithOptions applies *)
(* first, and the passes of handleChatMessage after it: think tags,        *)
(* scratchpad, leading thinking, trailing links section, citations.        *)
(*                                                                         *)
(* A reply is a sequence of pieces of text, each of one kind.  A piece     *)
(* that is not a tag is a paragraph, so that "the first line of the        *)
(* paragraph" is the piece itself.                                         *)
(***************************************************************************)
EXTENDS Lists, FiniteSetsExt

CONSTANTS
    Results,    \* the chunks a search may find
    Result,     \* Result[r]: its source kind, own URL and permalink, and others:
                \* the further URLs of its front matter and those in its text
    NoUrl

SourceKinds == {"docbuilder", "gitlab", "unknown"}

ASSUME RepliesAssumption ==
    \A r \in Results : Result[r].kind \in SourceKinds /\ IsFiniteSet(Result[r].others)

Tags == {"<scratchpad>", "</scratchpad>", "<think>", "</think>"}
Prose == {"text", "musing"}    \* musing: starts with one of thinkingStarters

Piece(k) == [kind |-> k]
Cite(n) == [kind |-> "cite", n |-> n]        \* [src:n]
Url(u) == [kind |-> "url", url |-> u]        \* a URL, or a link to it
LinksHeader == Piece("links")                \* a line "Links:"
BoldHeader == Piece("**links**")             \* one of its other spellings

-----------------------------------------------------------------------------
(* Sources and the URLs that are allowed to appear.                        *)

\* A GitLab source is linked by its own URL, any other by its permalink, and
\* each by the other one when it has none.
SourceLinkURL(r) ==
    LET own == Result[r].own  permalink == Result[r].permalink
        prefers == IF Result[r].kind = "gitlab" THEN own ELSE permalink
    IN IF prefers # NoUrl THEN prefers ELSE IF own # NoUrl THEN own ELSE permalink

\* A URL that the text of a result quotes is allowed like the result's own.
SourceURLs(r) == {Result[r].own, Result[r].permalink} \cup Result[r].others

ExtractURLs(results) == (UNION {SourceURLs(r) : r \in Range(results)}) \ {NoUrl}

-----------------------------------------------------------------------------
(* The link policy.                                                        *)

Has(reply, i, kinds) == reply[i].kind \in kinds

\* What precedes the first line that starts with "Links:", wherever it is.
StripLinksSection(reply) ==
    LET headers == {i \in DOMAIN reply : Has(reply, i, {"links"})}
    IN IF headers = {} THEN reply ELSE SubSeq(reply, 1, Min(headers) - 1)

ScrubNonAllowedURLs(reply, allowed) ==
    Only(reply, {p \in Range(reply) : p.kind = "url" => p.url \in allowed})

EnforceLinksPolicy(reply, allowed) ==
    LET body == ScrubNonAllowedURLs(StripLinksSection(reply), allowed)
        list == SetToSeq({Url(u) : u \in allowed})
    IN IF allowed = {} THEN body ELSE body \o <<LinksHeader>> \o list

-----------------------------------------------------------------------------
(* The passes of the chat handler.                                         *)

\* The first block from an opening to the first closing tag after it; a reply
\* without both is left alone.
StripDelimitedBlock(reply, open, close) ==
    LET opens == {i \in DOMAIN reply : Has(reply, i, {open})}
        closes == {i \in DOMAIN reply : Has(reply, i, {close}) /\ i > Min(opens)}
    IN IF opens = {} THEN reply
       ELSE IF closes = {} THEN reply
       ELSE SubSeq(reply, 1, Min(opens) - 1) \o SubSeq(reply, Min(closes) + 1, Len(reply))

StripThinkTags(reply) == StripDelimitedBlock(reply, "<think>", "</think>")

\* Removes the tags and keeps what is between them.
StripScratchpad_KeepsContent(reply) ==
    Only(reply, {p \in Range(reply) : p.kind \notin {"<scratchpad>", "</scratchpad>"}})

StripScratchpad(reply) == StripDelimitedBlock(reply, "<scratchpad>", "</scratchpad>")

\* From the first paragraph that is not thinking, or the last when all are.
StripLeadingThinking(reply) ==
    LET other == {i \in DOMAIN reply : ~Has(reply, i, {"musing"})}
    IN IF Len(reply) <= 1 THEN reply
       ELSE SubSeq(reply, IF other = {} THEN Len(reply) ELSE Min(other), Len(reply))

\* What precedes the last "Links:" line, in any spelling.
StripTrailingLinksSection(reply) ==
    LET headers == {i \in DOMAIN reply : Has(reply, i, {"links", "**links**"})}
    IN IF headers = {} THEN reply ELSE SubSeq(reply, 1, Max(headers) - 1)

\* Entry n of the prompt's context is results[n + 1].
InlineSourceLinks_FromOne(reply, results) ==
    [i \in DOMAIN reply |->
        IF Has(reply, i, {"cite"}) /\ reply[i].n \in DOMAIN results
        THEN LET url == SourceLinkURL(results[reply[i].n])
             IN IF url = NoUrl THEN Piece("text") ELSE Url(url)
        ELSE reply[i]]

InlineSourceLinks(reply, results) ==
    [i \in DOMAIN reply |->
        IF Has(reply, i, {"cite"}) /\ reply[i].n < Len(results)
        THEN LET url == SourceLinkURL(results[reply[i].n + 1])
             IN IF url = NoUrl THEN Piece("text") ELSE Url(url)
        ELSE reply[i]]

\* The answer QueryDebugWithOptions returns, which is also what is stored.
Answer(reply, results) == EnforceLinksPolicy(reply, ExtractURLs(results))

\* The fragment the browser gets.
Rendered(answer, results) ==
    InlineSourceLinks(
        StripTrailingLinksSection(
            StripLeadingThinking(StripScratchpad(StripThinkTags(answer)))),
        results)

=============================================================================
