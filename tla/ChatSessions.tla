---------------------------- MODULE ChatSessions ----------------------------
(***************************************************************************)
(* The chat of src/internal/web/chat_handlers.go over the in-memory store  *)
(* of src/internal/service/chat_session.go: the tabs of one browser that   *)
(* share the session cookie, messages that read the history, ask the       *)
(* language model and append their exchange when it answers, the source    *)
(* kinds a session remembers, private mode, and restarts.                  *)
(*                                                                         *)
(* The store's mutex is held by one call at a time and never across the    *)
(* language model's answer: each call is one action.  Opening the page is  *)
(* one action too; clearing is two, since the browser drops its cookie     *)
(* when the answer arrives and not when the server drops the session.      *)
(***************************************************************************)
EXTENDS Replies

CONSTANTS
    Ids,             \* session ids, in the order newChatSessionID draws them
    NoId,
    Tabs,
    Messages,        \* submissions of the chat form
    NoSession,
    Kinds,           \* selections of source kinds the form may submit
    Found,           \* what a search may find: sequences of results
    ModelReplies,    \* what the language model may answer
    MaxTurns,        \* exchanges a session keeps
    MaxHistoryMsgs,  \* messages of the history that go into a prompt,
    MaxMsgChars,     \*   the length each is cut to,
    MaxTotalChars,   \*   and the length of all
    MaxRestarts,     \* bound
    MaxClears        \* bound

\* A message of the history: the user's half or the assistant's of an exchange.
Half(role, m) == [role |-> role, of |-> m]
Halves == [role : {"user", "assistant"}, of : Messages]

ASSUME ChatAssumption ==
    /\ Ids \subseteq Nat
    /\ NoId \notin Ids
    /\ MaxTurns \in Nat \ {0}
    /\ {MaxHistoryMsgs, MaxMsgChars, MaxTotalChars, MaxRestarts, MaxClears} \subseteq Nat
    /\ Kinds \subseteq SUBSET SourceKinds
    /\ Found \subseteq Seq(Results)
    /\ NoSession \notin [history : Seq(Halves), kinds : SUBSET SourceKinds]
    /\ \A reply \in ModelReplies :
            /\ reply \in Seq(Range(reply))
            /\ \A i \in DOMAIN reply : reply[i].kind = "cite" => reply[i].n \in Nat

VARIABLES
    sessions,  \* ChatSessionStore.sessions
    cookie,    \* ragabast_chat_session in the browser
    tab,       \* the session id in the form of each tab's page
    drawn,     \* the ids handed out
    post,      \* the messages
    page,      \* the fragment a message was just answered with: the model's
               \* reply, the sources, and what the browser shows
    said,      \* said[s]: what was appended since s was cleared   (history)
    cleared,   \* ids that were cleared                            (history)
    clears,
    restarts

vars == <<sessions, cookie, tab, drawn, post, page, said, cleared, clears, restarts>>

-----------------------------------------------------------------------------
Exchange(m) == <<Half("user", m), Half("assistant", m)>>
Exchanges(ms) == FlattenSeq([i \in DOMAIN ms |-> Exchange(ms[i])])

NewSession == [history |-> <<>>, kinds |-> {}]
Opened(s) == IF sessions[s] = NoSession THEN NewSession ELSE sessions[s]

NewPost == [pc |-> "new", id |-> NoId, history |-> <<>>, kinds |-> {},
            chars |-> 0,       \* length of the stored answer
            stale |-> FALSE]   \* in flight when its session was cleared,
                               \* or sent before the browser dropped the
                               \* cookie or with an older one   (history)

Ended(p, chars) == [NewPost EXCEPT !.pc = "done", !.chars = chars, !.stale = p.stale]

NoPage == [reply |-> <<>>, results |-> <<>>, shown |-> <<>>]

Init ==
    /\ sessions = [s \in Ids |-> NoSession]
    /\ cookie = NoId
    /\ tab = [t \in Tabs |-> [id |-> NoId, clearing |-> FALSE]]
    /\ drawn = {}
    /\ post = [m \in Messages |-> NewPost]
    /\ page = NoPage
    /\ said = [s \in Ids |-> <<>>]
    /\ cleared = {}
    /\ clears = 0
    /\ restarts = 0

InFlight(m) == post[m].pc \in {"read", "asking"}

-----------------------------------------------------------------------------
(* The prompt.                                                             *)

\* Every question is one character long.
Length(half) == IF half.role = "user" THEN 1 ELSE post[half.of].chars

Cut(half) == Min({Length(half), MaxMsgChars})

Chars(h) ==
    LET upTo[i \in 0..Len(h)] == IF i = 0 THEN 0 ELSE upTo[i - 1] + Cut(h[i])
    IN upTo[Len(h)]

NotBlank(h) == {half \in Range(h) : Length(half) # 0}

LastN(seq, n) == SubSeq(seq, Len(seq) - Min({n, Len(seq)}) + 1, Len(seq))

\* The newest messages that are not blank, from the oldest of them on until one
\* does not fit.
NormalizeHistory_DropsTheOldest(h) ==
    LET window == Only(LastN(h, MaxHistoryMsgs), NotBlank(h))
        fits == {n \in 0..Len(window) : Chars(SubSeq(window, 2, n)) <= MaxTotalChars}
    IN SubSeq(window, 2, Max(fits))

NormalizeHistory(h) ==
    LET window == Only(LastN(h, MaxHistoryMsgs), NotBlank(h))
        fits == {n \in 0..Len(window) : Chars(SubSeq(window, 1, n)) <= MaxTotalChars}
    IN SubSeq(window, 1, Max(fits))

-----------------------------------------------------------------------------
(* The browser.                                                            *)

NextId == Min(Ids \ drawn)

\* GET /: the page carries the cookie's id, or a fresh one that it sets.
Open(t) ==
    /\ ~tab[t].clearing
    /\ tab[t].id # cookie \/ cookie = NoId
    /\ IF cookie # NoId
       THEN /\ tab' = [tab EXCEPT ![t].id = cookie]
            /\ UNCHANGED <<cookie, drawn>>
       ELSE /\ Ids \ drawn # {}
            /\ tab' = [tab EXCEPT ![t].id = NextId]
            /\ cookie' = NextId
            /\ drawn' = drawn \cup {NextId}
    /\ page' = NoPage
    /\ UNCHANGED <<sessions, post, said, cleared, clears, restarts>>

\* POST /chat/clear: the server drops the session of the tab's form.
Clear_KeepsHistory(t) ==
    LET s == tab[t].id IN
    /\ s # NoId /\ ~tab[t].clearing
    /\ clears < MaxClears
    /\ sessions' = [sessions EXCEPT ![s] = [Opened(s) EXCEPT !.kinds = {}]]
    /\ tab' = [tab EXCEPT ![t].clearing = TRUE]
    /\ post' = [m \in Messages |->
                    [post[m] EXCEPT !.stale = @ \/ (InFlight(m) /\ post[m].id = s)]]
    /\ said' = [said EXCEPT ![s] = <<>>]
    /\ cleared' = cleared \cup {s}
    /\ clears' = clears + 1
    /\ page' = NoPage
    /\ UNCHANGED <<cookie, drawn, restarts>>

Clear(t) ==
    LET s == tab[t].id IN
    /\ s # NoId /\ ~tab[t].clearing
    /\ clears < MaxClears
    /\ sessions' = [sessions EXCEPT ![s] = NoSession]
    /\ tab' = [tab EXCEPT ![t].clearing = TRUE]
    /\ post' = [m \in Messages |->
                    [post[m] EXCEPT !.stale = @ \/ (InFlight(m) /\ post[m].id = s)]]
    /\ said' = [said EXCEPT ![s] = <<>>]
    /\ cleared' = cleared \cup {s}
    /\ clears' = clears + 1
    /\ page' = NoPage
    /\ UNCHANGED <<cookie, drawn, restarts>>

\* Its answer expires the cookie and redirects to the page.
Cleared_KeepsCookie(t) ==
    /\ tab[t].clearing
    /\ tab' = [tab EXCEPT ![t] = [id |-> cookie, clearing |-> FALSE]]
    /\ page' = NoPage
    /\ UNCHANGED <<sessions, cookie, drawn, post, said, cleared, clears, restarts>>

Cleared(t) ==
    /\ tab[t].clearing
    /\ Ids \ drawn # {}
    /\ tab' = [tab EXCEPT ![t] = [id |-> NextId, clearing |-> FALSE]]
    /\ cookie' = NextId
    /\ drawn' = drawn \cup {NextId}
    /\ page' = NoPage
    /\ UNCHANGED <<sessions, post, said, cleared, clears, restarts>>

-----------------------------------------------------------------------------
(* A message.                                                              *)

\* The handler copies the history out of the store.  A client that is no
\* browser may send no id.
Read(t, m, kinds) ==
    /\ post[m].pc = "new"
    /\ ~tab[t].clearing
    /\ post' = [post EXCEPT ![m] =
                    [@ EXCEPT !.pc = "read",
                              !.id = tab[t].id,
                              !.kinds = kinds,
                              !.history = IF tab[t].id = NoId \/ sessions[tab[t].id] = NoSession
                                          THEN <<>> ELSE sessions[tab[t].id].history,
                              !.stale = \/ tab[t].id # cookie
                                        \/ \E u \in Tabs : tab[u].clearing /\ tab[u].id = tab[t].id]]
    /\ page' = NoPage
    /\ UNCHANGED <<sessions, cookie, tab, drawn, said, cleared, clears, restarts>>

\* SetSourceKinds creates the session; no selection leaves what it remembers.
SetKinds_Overwrites(m) ==
    LET s == post[m].id IN
    /\ post[m].pc = "read"
    /\ post' = [post EXCEPT ![m].pc = "asking"]
    /\ sessions' = IF s = NoId THEN sessions
                   ELSE [sessions EXCEPT ![s] = [Opened(s) EXCEPT !.kinds = post[m].kinds]]
    /\ page' = NoPage
    /\ UNCHANGED <<cookie, tab, drawn, said, cleared, clears, restarts>>

SetKinds(m) ==
    LET s == post[m].id IN
    /\ post[m].pc = "read"
    /\ post' = [post EXCEPT ![m].pc = "asking"]
    /\ sessions' = IF s = NoId THEN sessions
                   ELSE [sessions EXCEPT ![s] =
                            [Opened(s) EXCEPT !.kinds = IF post[m].kinds = {} THEN @
                                                        ELSE post[m].kinds]]
    /\ page' = NoPage
    /\ UNCHANGED <<cookie, tab, drawn, said, cleared, clears, restarts>>

OfKinds(results, kinds) ==
    IF kinds = {} THEN results ELSE Only(results, {r \in Results : Result[r].kind \in kinds})

Trim(history) == LastN(history, 2 * MaxTurns)

\* The answer is appended as QueryDebugWithOptions returns it, and then made
\* fit to be shown.
Append_KeepsTheOldest(m, answer, shown) ==
    LET s == post[m].id IN
    /\ post[m].pc = "asking"
    /\ post' = [post EXCEPT ![m] = Ended(post[m], Len(answer))]
    /\ page' = shown
    /\ IF s = NoId THEN UNCHANGED <<sessions, said>>
       ELSE /\ sessions' = [sessions EXCEPT ![s] =
                    [Opened(s) EXCEPT !.history =
                        SubSeq(@ \o Exchange(m), 1, Min({Len(@) + 2, 2 * MaxTurns}))]]
            /\ said' = [said EXCEPT ![s] = Append(@, m)]
    /\ UNCHANGED <<cookie, tab, drawn, cleared, clears, restarts>>

AppendTurn(m, answer, shown) ==
    LET s == post[m].id IN
    /\ post[m].pc = "asking"
    /\ post' = [post EXCEPT ![m] = Ended(post[m], Len(answer))]
    /\ page' = shown
    /\ IF s = NoId THEN UNCHANGED <<sessions, said>>
       ELSE /\ sessions' = [sessions EXCEPT ![s] =
                                [Opened(s) EXCEPT !.history = Trim(@ \o Exchange(m))]]
            /\ said' = [said EXCEPT ![s] = Append(@, m)]
    /\ UNCHANGED <<cookie, tab, drawn, cleared, clears, restarts>>

\* With no result the model is not asked.
NothingFound(m) ==
    \E found \in Found :
        /\ OfKinds(found, post[m].kinds) = <<>>
        /\ AppendTurn(m, <<Piece("text")>>,
                      [reply |-> <<Piece("text")>>, results |-> <<>>, shown |-> <<Piece("text")>>])

Answered(m) ==
    \E found \in Found, reply \in ModelReplies :
        LET results == OfKinds(found, post[m].kinds)
            answer == Answer(reply, results) IN
        /\ results # <<>>
        /\ AppendTurn(m, answer, [reply |-> reply, results |-> results,
                                  shown |-> Rendered(answer, results)])

\* The search or the language model fails, or answers nothing.
Failed(m) ==
    /\ post[m].pc = "asking"
    /\ post' = [post EXCEPT ![m] = Ended(post[m], 0)]
    /\ page' = NoPage
    /\ UNCHANGED <<sessions, cookie, tab, drawn, said, cleared, clears, restarts>>

-----------------------------------------------------------------------------
\* Nothing is persisted: the process forgets the sessions and its requests, the
\* browser keeps its cookie and its pages.
Restart ==
    /\ restarts < MaxRestarts
    /\ restarts' = restarts + 1
    /\ sessions' = [s \in Ids |-> NoSession]
    /\ post' = [m \in Messages |->
                    IF InFlight(m) THEN Ended(post[m], 0)
                    ELSE post[m]]
    /\ said' = [s \in Ids |-> <<>>]
    /\ page' = NoPage
    /\ UNCHANGED <<cookie, tab, drawn, cleared, clears>>

Next ==
    \/ \E t \in Tabs : Open(t) \/ Clear(t) \/ Cleared(t)
    \/ \E t \in Tabs, m \in Messages, kinds \in Kinds : Read(t, m, kinds)
    \/ \E m \in Messages : SetKinds(m) \/ NothingFound(m) \/ Answered(m) \/ Failed(m)
    \/ Restart

Spec == Init /\ [][Next]_vars

-----------------------------------------------------------------------------
(* Properties.                                                             *)

TypeOK ==
    /\ \A s \in Ids : sessions[s] # NoSession =>
            /\ sessions[s].history \in Seq(Halves)
            /\ sessions[s].kinds \subseteq SourceKinds
    /\ cookie \in drawn \cup {NoId}
    /\ tab \in [Tabs -> [id : drawn \cup {NoId}, clearing : BOOLEAN]]
    /\ drawn \subseteq Ids
    /\ \A m \in Messages :
            /\ post[m].pc \in {"new", "read", "asking", "done"}
            /\ post[m].id \in drawn \cup {NoId}
    /\ cleared \subseteq drawn

\* A session holds the last MaxTurns exchanges that were answered since it was
\* cleared, in the order of their answers and each with both its halves,
\* whatever messages overlapped (chat_session.go:112, 180).
HistoryIsRecent ==
    \A s \in Ids :
        (IF sessions[s] = NoSession THEN <<>> ELSE sessions[s].history)
            = Exchanges(LastN(said[s], MaxTurns))

\* The state is well typed and histories are exact.
ChatInv == TypeOK /\ HistoryIsRecent

\* After private mode the chat starts fresh: what a cleared session holds came
\* from a message that was on its way when it was cleared, or from a page that
\* was open in another tab (chat_handlers.go:130).
PrivateMode ==
    \A s \in cleared : \A i \in DOMAIN said[s] : post[said[s][i]].stale

\* A conversation short enough goes into the prompt whole, up to its last word
\* (prompt.go:94).
ShortTalkIsCarried ==
    \A m \in Messages :
        LET h == post[m].history IN
        /\ InFlight(m)
        /\ Len(h) <= MaxHistoryMsgs
        /\ Chars(h) <= MaxTotalChars
        => NormalizeHistory(h) = Only(h, NotBlank(h))

\* The format the prompt asks for: one scratchpad, then an answer that opens
\* with a paragraph of its own; and no "Links:" line in the scratchpad.
FollowsFormat(reply) ==
    \E n \in DOMAIN reply :
        /\ n > 1 /\ n < Len(reply)
        /\ reply[1] = Piece("<scratchpad>")
        /\ reply[n] = Piece("</scratchpad>")
        /\ \A i \in DOMAIN reply \ {1, n} : ~Has(reply, i, Tags)
        /\ \A i \in 1..n : ~Has(reply, i, {"links"})
        /\ reply[n + 1].kind = "text"

\* Of a reply in that format the user sees the answer, as far as its own
\* "Links:" section, and nothing of the scratchpad.  A section that only the
\* last pass takes for one stays where the policy has put its own section after
\* it (chat_handlers.go:214-261, links_section.go:50-60).
OnlyTheAnswerIsShown ==
    FollowsFormat(page.reply) =>
        LET close == CHOOSE n \in DOMAIN page.reply : page.reply[n] = Piece("</scratchpad>")
            answer == SubSeq(page.reply, close + 1, Len(page.reply))
            allowed == ExtractURLs(page.results)
            body == ScrubNonAllowedURLs(StripLinksSection(answer), allowed)
        IN page.shown = InlineSourceLinks(
                            IF allowed = {} THEN StripTrailingLinksSection(body) ELSE body,
                            page.results)

\* Whatever the model wrote, a link the user sees is one that a source of this
\* answer has or quotes, and a citation leads to the source that had its number
\* in the prompt.  The code drops what the model writes after a "Links:" line,
\* citations included (links_extract.go:24, links_policy.go:75,
\* inline_links.go:41).
LinksComeFromSources ==
    /\ \A i \in DOMAIN page.shown :
            Has(page.shown, i, {"url"}) => page.shown[i].url \in ExtractURLs(page.results)
    /\ \A n \in DOMAIN page.results :
            LET url == SourceLinkURL(page.results[n]) IN
            /\ page.reply # <<>>
            /\ \A i \in DOMAIN page.reply : ~Has(page.reply, i, {"links"})
            /\ Last(page.reply) = Cite(n - 1)
            /\ url # NoUrl
            => Last(page.shown) = Url(url)

\* A session forgets the source kinds only when it is dropped
\* (chat_session.go:157-166).
KindsStick ==
    [][\A s \in Ids :
        /\ sessions[s] # NoSession /\ sessions'[s] # NoSession
        /\ sessions[s].kinds # {}
        => sessions'[s].kinds # {}]_vars

=============================================================================
