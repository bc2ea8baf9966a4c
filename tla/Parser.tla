------------------------------- MODULE Parser --------------------------------
(***************************************************************************)
(* What a markdown file is read as (src/internal/parser): the front matter *)
(* cut off, the fields the ingest depends on, whether the document is      *)
(* published; and the file that a GitLab issue is written as               *)
(* (src/internal/gitlab/payload.go).                                       *)
(*                                                                         *)
(* A body is a sequence of lines, each with its header level (0 for text), *)
(* its length in bytes and a name for its text.  Bodies are trimmed: their *)
(* first and last lines are not blank.                                     *)
(***************************************************************************)
EXTENDS Integers, FiniteSetsExt, Lists

\* The front matter of a file ("front") is missing ("none"), has no closing
\* delimiter ("open"), or is cut off ("closed"); "gap" says whether a blank line
\* follows the closing delimiter, "yaml" whether the front matter can be decoded.
\* A date lies in the "past" or the "future", or is "unset", as one that does not
\* parse.

\* The first line of a body without its first character, trimmed: "# T" is the
\* text T, "## T" the header "# T".
Beheaded(line) ==
    [line EXCEPT !.level = IF @ \in {1, 2} THEN @ - 1 ELSE @,
                 !.len = IF line.level = 1 THEN @ - 2 ELSE @ - 1]

\* The delimiter that is skipped is taken for six characters and has five: what
\* follows it is a newline only where the file has a blank line.
ExtractFrontmatter(f) ==
    IF f.front = "closed" /\ ~f.gap
    THEN <<Beheaded(f.body[1])>> \o Tail(f.body)
    ELSE f.body

\* What is hashed is the body alone: the front matter may change under it.
GenerateFingerprint(body) == body

\* The fingerprint of a file whose front matter gives none.
NoFingerprint == <<>>

\* A document needs a uid, which only front matter can give it.
Parses(f, missing) == f.front = "closed" /\ f.yaml /\ f.uid # missing

ParseDocument(f) ==
    LET body == ExtractFrontmatter(f)
    IN [id |-> f.uid, body |-> body, tags |-> f.tags, kind |-> f.kind,
        fingerprint |-> IF f.fingerprint # NoFingerprint THEN f.fingerprint
                        ELSE GenerateFingerprint(body)]

IsUnpublished(f) ==
    \/ f.draft
    \/ f.date = "future"
    \/ f.publishDate = "future"
    \/ f.expiryDate = "past"

\* A title is quoted if it has a colon, a hash or a newline, and only then: one
\* that starts a flow sequence ("[bug] ...") is written as it is.
TitleIsYAML(issue) == issue.title # "bracket"

\* The notes that are shown, by time; those without a time come last.
RenderNotes(issue) ==
    LET shown == IF issue.includeNotes
                 THEN Only(issue.notes, {n \in Range(issue.notes) : n.system => issue.includeSystem})
                 ELSE <<>>
        Earlier(a, b) == a.at # 0 /\ (b.at = 0 \/ a.at < b.at)
        Insert(notes, n) ==
            LET later == {i \in DOMAIN notes : Earlier(n, notes[i])}
            IN InsertAt(notes, IF later = {} THEN Len(notes) + 1 ELSE Min(later), n)
        sorted[k \in 0..Len(shown)] ==
            IF k = 0 THEN <<>> ELSE Insert(sorted[k - 1], shown[k])
    IN sorted[Len(shown)]

\* An issue is a file dated by the issue's creation, with a blank line after its
\* front matter: the title, the description, and the notes below a header of
\* their own, each with a heading that the chunker does not take for one.
EnvelopeToMarkdown(issue) ==
    LET blank == [level |-> 0, len |-> 0, text |-> ""]
        title == [level |-> 1, len |-> issue.titleLen, text |-> issue.title]
        header == [level |-> 2, len |-> 11, text |-> "Comments"]
        notes == RenderNotes(issue)
        Note(n) == <<blank, [level |-> 0, len |-> n.len, text |-> n.text]>>
    IN [front |-> "closed", gap |-> TRUE, yaml |-> TitleIsYAML(issue),
        uid |-> issue.uid, draft |-> FALSE, date |-> issue.createdAt,
        publishDate |-> "unset", expiryDate |-> "unset", fingerprint |-> NoFingerprint,
        tags |-> issue.labels \cup {"gitlab-issue"}, kind |-> "gitlab",
        body |-> <<title>> \o (IF issue.description = <<>> THEN <<>>
                              ELSE <<blank>> \o issue.description)
                 \o (IF notes = <<>> THEN <<>>
                    ELSE <<blank, header>> \o FlattenSeq([k \in DOMAIN notes |-> Note(notes[k])]))]
==============================================================================
