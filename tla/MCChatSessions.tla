--------------------------- MODULE MCChatSessions ---------------------------
\* A small instance of ChatSessions for TLC: a page of the documentation with a
\* permalink, which quotes a URL, and a GitLab issue with a URL of its own.
EXTENDS ChatSessions, TLC

CONSTANTS doc, issue, docUrl, issueUrl, quoted, foreign

Interchangeable == Permutations(Tabs) \cup Permutations(Messages)

MCResult ==
    doc :> [kind |-> "docbuilder", own |-> NoUrl, permalink |-> docUrl,
            others |-> {quoted}]
 @@ issue :> [kind |-> "gitlab", own |-> issueUrl, permalink |-> NoUrl,
              others |-> {}]

MCKinds == {{}, {"gitlab"}}
MCFound == {<<doc>>, <<issue, doc>>}

Open_ == Piece("<scratchpad>")
Close_ == Piece("</scratchpad>")
Text == Piece("text")
Musing == Piece("musing")

\* In the format, with a section of links of its own and a foreign URL; without
\* the format, with a tag left open; and without it, with a URL that a source
\* quotes, citations and a bold header.
MCReplies ==
    { <<Open_, Text, Close_, Text, Url(foreign), LinksHeader, Url(issueUrl)>>,
      <<Piece("<think>"), Open_, Piece("</think>"), Text>>,
      <<Musing, BoldHeader, Url(quoted), Cite(1), Cite(0)>> }

=============================================================================
