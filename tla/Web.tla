--------------------------------- MODULE Web ---------------------------------
(***************************************************************************)
(* The front of the web server: who a request acts as and whether it is    *)
(* let through.  The OAuth login and the in-memory stores of flows and     *)
(* sessions (src/internal/web/oauth.go, session.go), the middleware chain  *)
(* that every request takes (auth.go, csrf.go, rate_limit.go) and the      *)
(* slots that bound concurrent ingests (ingest_limiter.go).                *)
(*                                                                         *)
(* A store's mutex covers one map access.  A request that looks up, evicts *)
(* or renews its session therefore takes several steps between which other *)
(* requests, callbacks, a logout, the clock and a restart come.  There is  *)
(* one browser, whose tabs share its cookies, and any number of other      *)
(* clients, which carry a bearer token or nothing.                         *)
(*                                                                         *)
(* What a deployment has configured decides which parts exist: it is       *)
(* chosen at first and never changes.                                      *)
(***************************************************************************)
EXTENDS Integers, FiniteSets, FiniteSetsExt

CONSTANTS
    Deployments,   \* what is configured: tokens, sessions, providers that came
                   \* up, rate limiter; and the requests that arrive
    Sids,          \* session ids, in the order they are drawn
    States,        \* states of login flows, in the order they are drawn
    None,
    Providers,
    Type,          \* the type of each provider
    Profiles,      \* what providers say of users: name, e-mail, primary e-mail
    LocalPart,     \* what precedes the @ of each e-mail
    AllowedUsers,  \* each provider's list of names and e-mails; none: everyone
    Reqs,          \* requests at a time
    Ips,
    SessionTTL,    \* ticks
    FlowTTL,       \* ticks
    Slots,         \* ingests at a time
    Burst,         \* tokens in a full bucket
    Rate,          \* tokens a tick adds
    PruneAfter,    \* ticks after which an idle bucket may be pruned
    MaxDebt,       \* bound on the tokens a bucket owes
    MaxRestarts    \* bound

Requests == [public : BOOLEAN, writes : BOOLEAN, llm : BOOLEAN,
             ingest : {"no", "empty", "fits", "big"},
             bearer : {"none", "good", "bad"}, csrf : BOOLEAN, ip : Ips]

ASSUME WebAssumption ==
    /\ Sids \subseteq Nat /\ States \subseteq Nat
    /\ None \notin Sids \cup States /\ IsFiniteSet(Reqs)
    /\ None \notin [limiter : [tokens : Int, event : Nat], idle : Nat]
    /\ Type \in [Providers -> {"github", "gitlab", "forgejo", "oidc"}]
    /\ \A u \in Profiles : DOMAIN u = {"name", "email", "primary"}
    /\ {SessionTTL, Slots, Burst, Rate} \subseteq Nat \ {0}
    /\ {FlowTTL, PruneAfter, MaxDebt, MaxRestarts} \subseteq Nat
    /\ \A p \in Providers : None \notin AllowedUsers[p]
    /\ \A d \in Deployments :
            /\ {d.tokens, d.sessions, d.providers, d.limiter} \subseteq BOOLEAN
            /\ d.requests \subseteq Requests
            /\ d.providers => d.sessions

\* A bucket that was idle long enough to be pruned is full again.
RefillsInTime == Burst <= Rate * PruneAfter

VARIABLES
    deployment,
    sessions,   \* sessionStore.entries
    flows,      \* flowStateStore.entries
    jar,        \* the browser's cookies: session, its age, OAuth state
    req,
    slots,      \* len(IngestLimiter.sem)
    buckets,    \* llmRateLimiter.buckets
    prunes,     \* pending prunes: the buckets each will delete
    issued,     \* session ids that were drawn
    loggedOut,  \* ids that were logged out                          (history)
    straddled,  \* those being renewed by a request at that time     (history)
    ideal,      \* limiters of buckets that are never pruned         (history)
    crossed,    \* clients of which two refusals overlapped          (history)
    restarts

vars == <<deployment, sessions, flows, jar, req, slots, buckets, prunes, issued,
          loggedOut, straddled, ideal, crossed, restarts>>

loginVars == <<sessions, flows, jar, issued, loggedOut, straddled>>
gateVars == <<slots, buckets, prunes, ideal, crossed>>

-----------------------------------------------------------------------------
Idle == [pc |-> "idle", what |-> None,   \* the request, or a callback's provider
         key |-> None,                   \* its session id, or state
         entry |-> None,                 \* the session or flow it read
         who |-> None]                   \* the user it acts as

NoCookies == [session |-> None, left |-> 0, state |-> None]

\* A rate.Limiter: the tokens it holds, owed ones being negative, and how many
\* tokens from now its last event is (its lastEvent, when in the future).
FullLimiter == [tokens |-> Burst, event |-> 0]

Init ==
    /\ deployment \in Deployments
    /\ sessions = [s \in Sids |-> None]
    /\ flows = [t \in States |-> None]
    /\ jar = NoCookies
    /\ req = [r \in Reqs |-> Idle]
    /\ slots = 0
    /\ buckets = [ip \in Ips |-> None]
    /\ prunes = {}
    /\ issued = {}
    /\ loggedOut = {}
    /\ straddled = {}
    /\ ideal = [ip \in Ips |-> FullLimiter]
    /\ crossed = {}
    /\ restarts = 0

Step(r, pc) == req' = [req EXCEPT ![r].pc = pc]
Done(r) == req' = [req EXCEPT ![r] = Idle]

-----------------------------------------------------------------------------
(* Login and logout.  The middleware's own lookup for these requests, whose *)
(* paths are public, is that of any other request below.                   *)

\* States are drawn at random: one that nobody holds any more stands for a new one.
Unheld == {t \in States : /\ flows[t] = None /\ jar.state # t
                          /\ \A r \in Reqs : req[r].pc \in {"pop", "popped"} => req[r].key # t}

\* GET /auth/{provider}/login.
StartLogin(p) ==
    LET fresh == Unheld IN
    /\ deployment.providers
    /\ fresh # {}
    /\ flows' = [flows EXCEPT ![Min(fresh)] = [provider |-> p, left |-> FlowTTL + 1]]
    /\ jar' = [jar EXCEPT !.state = Min(fresh)]
    /\ UNCHANGED <<deployment, sessions, req, issued, loggedOut, straddled, gateVars, restarts>>

\* GET /auth/{provider}/callback, with the state of the browser's cookie.  The
\* path may name another provider than the flow was started with.
Callback(r, p) ==
    /\ deployment.providers
    /\ req[r].pc = "idle"
    /\ jar.state # None
    /\ req' = [req EXCEPT ![r] = [Idle EXCEPT !.pc = "pop", !.what = p, !.key = jar.state]]
    /\ UNCHANGED <<deployment, loginVars, gateVars, restarts>>

\* Whatever it comes to, the answer to a callback clears the state cookie.
Answered(r, cookies) ==
    /\ Done(r)
    /\ jar' = [cookies EXCEPT !.state = None]

\* Pop reads the entry under the read lock and deletes it under the write lock.
PopRead(r) ==
    LET flow == flows[req[r].key] IN
    /\ req[r].pc = "pop"
    /\ IF flow = None
       THEN Answered(r, jar)
       ELSE /\ req' = [req EXCEPT ![r].pc = "popped", ![r].entry = flow]
            /\ UNCHANGED jar
    /\ UNCHANGED <<deployment, sessions, flows, issued, loggedOut, straddled, gateVars, restarts>>

PopDelete(r) ==
    LET flow == req[r].entry IN
    /\ req[r].pc = "popped"
    /\ flows' = [flows EXCEPT ![req[r].key] = None]
    /\ IF flow.left = 0 \/ flow.provider # req[r].what
       THEN Answered(r, jar)
       ELSE /\ req' = [req EXCEPT ![r].pc = "exchange", ![r].entry.left = 0, ![r].key = None]
            /\ UNCHANGED jar
    /\ UNCHANGED <<deployment, sessions, issued, loggedOut, straddled, gateVars, restarts>>

\* No code, or the provider refuses the exchange or the user's profile.
ExchangeFails(r) ==
    /\ req[r].pc = "exchange"
    /\ Answered(r, jar)
    /\ UNCHANGED <<deployment, sessions, flows, issued, loggedOut, straddled, gateVars, restarts>>

\* GitHub is asked for the primary verified e-mail of a user who hides theirs.
GithubEmail(profile) == IF profile.email = None THEN profile.primary ELSE profile.email

\* OIDC claims may lack the name.
OidcName(profile) ==
    IF profile.name = None /\ profile.email # None THEN LocalPart[profile.email]
    ELSE profile.name

UserInfo(p, profile) ==
    [name |-> IF Type[p] = "oidc" THEN OidcName(profile) ELSE profile.name,
     email |-> IF Type[p] = "github" THEN GithubEmail(profile) ELSE profile.email]

AllowedUserOK(p, user) ==
    AllowedUsers[p] # {} => {user.name, user.email} \cap AllowedUsers[p] # {}

Denied(r, profile) ==
    /\ req[r].pc = "exchange"
    /\ ~AllowedUserOK(req[r].what, UserInfo(req[r].what, profile))
    /\ Answered(r, jar)
    /\ UNCHANGED <<deployment, sessions, flows, issued, loggedOut, straddled, gateVars, restarts>>

\* The cookie lives as long as the session does now.
SignIn_AnyUser(r, profile) ==
    LET fresh == Sids \ issued
        new == Min(fresh) IN
    /\ req[r].pc = "exchange"
    /\ fresh # {}
    /\ sessions' = [sessions EXCEPT ![new] =
            [user |-> UserInfo(req[r].what, profile), provider |-> req[r].what, via |-> req[r].entry.provider,
             left |-> SessionTTL]]
    /\ issued' = issued \cup {new}
    /\ Answered(r, [jar EXCEPT !.session = new, !.left = SessionTTL])
    /\ UNCHANGED <<deployment, flows, loggedOut, straddled, gateVars, restarts>>

SignIn(r, profile) ==
    LET fresh == Sids \ issued
        new == Min(fresh) IN
    /\ req[r].pc = "exchange"
    /\ AllowedUserOK(req[r].what, UserInfo(req[r].what, profile))
    /\ fresh # {}
    /\ sessions' = [sessions EXCEPT ![new] =
            [user |-> UserInfo(req[r].what, profile), provider |-> req[r].what, via |-> req[r].entry.provider,
             left |-> SessionTTL]]
    /\ issued' = issued \cup {new}
    /\ Answered(r, [jar EXCEPT !.session = new, !.left = SessionTTL])
    /\ UNCHANGED <<deployment, flows, loggedOut, straddled, gateVars, restarts>>

\* POST /auth/logout.
Logout_KeepsEntry ==
    /\ deployment.providers
    /\ jar.session # None
    /\ loggedOut' = loggedOut \cup {jar.session}
    /\ straddled' = straddled \cup
            {s \in {jar.session} : \E r \in Reqs : req[r].pc = "renew" /\ req[r].key = s}
    /\ jar' = [jar EXCEPT !.session = None, !.left = 0]
    /\ UNCHANGED <<deployment, sessions, flows, req, issued, gateVars, restarts>>

Logout ==
    /\ deployment.providers
    /\ jar.session # None
    /\ sessions' = [sessions EXCEPT ![jar.session] = None]
    /\ loggedOut' = loggedOut \cup {jar.session}
    /\ straddled' = straddled \cup
            {s \in {jar.session} : \E r \in Reqs : req[r].pc = "renew" /\ req[r].key = s}
    /\ jar' = [jar EXCEPT !.session = None, !.left = 0]
    /\ UNCHANGED <<deployment, flows, req, issued, gateVars, restarts>>

-----------------------------------------------------------------------------
(* Authentication of a request.                                            *)

MatchBearer(q) == deployment.tokens /\ q.bearer = "good"

\* The session is looked up unless a bearer token settles the matter.
Arrive(r, q) ==
    /\ req[r].pc = "idle"
    /\ req' = [req EXCEPT ![r] =
            [Idle EXCEPT !.pc = IF deployment.sessions /\ (q.public \/ ~MatchBearer(q))
                                THEN "get" ELSE "admit",
                         !.what = q, !.key = jar.session]]
    /\ UNCHANGED <<deployment, loginVars, gateVars, restarts>>

\* sessionStore.Get under the read lock.
Get(r) ==
    LET entry == IF req[r].key = None THEN None ELSE sessions[req[r].key] IN
    /\ req[r].pc = "get"
    /\ IF entry = None THEN Step(r, "admit")
       ELSE IF entry.left = 0 THEN Step(r, "evict")
       ELSE req' = [req EXCEPT ![r].pc = "touch", ![r].who = entry.user]
    /\ UNCHANGED <<deployment, loginVars, gateVars, restarts>>

\* It evicts what it found expired, under the write lock.
Evict(r) ==
    /\ req[r].pc = "evict"
    /\ sessions' = [sessions EXCEPT ![req[r].key] = None]
    /\ Step(r, "admit")
    /\ UNCHANGED <<deployment, flows, jar, issued, loggedOut, straddled, gateVars, restarts>>

\* Touch copies the entry under the read lock.  The request goes on as the
\* session's user even if there is none any more.
TouchRead(r) ==
    LET entry == sessions[req[r].key] IN
    /\ req[r].pc = "touch"
    /\ IF entry = None THEN Step(r, "admit")
       ELSE req' = [req EXCEPT ![r].pc = "renew",
                               ![r].entry = [entry EXCEPT !.left = SessionTTL]]
    /\ UNCHANGED <<deployment, loginVars, gateVars, restarts>>

\* It stores the renewed copy under the write lock.
TouchWrite(r) ==
    /\ req[r].pc = "renew"
    /\ sessions' = [sessions EXCEPT ![req[r].key] = req[r].entry]
    /\ req' = [req EXCEPT ![r].pc = "admit", ![r].entry = None]
    /\ UNCHANGED <<deployment, flows, jar, issued, loggedOut, straddled, gateVars, restarts>>

Authenticated(r) ==
    LET q == req[r].what IN
    \/ q.public
    \/ ~deployment.tokens /\ ~deployment.sessions
    \/ MatchBearer(q)
    \/ req[r].who # None

\* The CSRF check, on with the tokens, passes over a request that has an
\* Authorization header or changes nothing.
CsrfOK(q) == deployment.tokens /\ q.writes /\ q.bearer = "none" => q.csrf

Passes(r) == Authenticated(r) /\ CsrfOK(req[r].what)

\* 302 to the login page, 401 or 403.
Refuse(r) ==
    /\ req[r].pc = "admit"
    /\ ~Passes(r)
    /\ Done(r)
    /\ UNCHANGED <<deployment, loginVars, gateVars, restarts>>

-----------------------------------------------------------------------------
(* The rate limit of the paths that ask the language model.                *)

Limited(q) == deployment.limiter /\ q.llm

LimiterOf(ip) == IF buckets[ip] = None THEN FullLimiter ELSE buckets[ip].limiter
Bucket(limiter, idle) == [limiter |-> limiter, idle |-> idle]

Less(n, k) == IF n <= k THEN 0 ELSE n - k

\* Limiter.Allow, when it does.
Taken(l) == [tokens |-> l.tokens - 1, event |-> 0]

\* Limiter.Reserve, and how long until the reservation may be used.
Lead(l) == 1 - l.tokens
Reserved(l) == [tokens |-> l.tokens - 1, event |-> Lead(l)]

\* Reservation.Cancel gives back what no later reservation counts on.
Cancelled(l, lead) ==
    LET restored == 1 - (l.event - lead) IN
    IF restored <= 0 THEN l
    ELSE [tokens |-> Min({Burst, l.tokens + restored}),
          event |-> IF l.event = lead THEN lead - 1 ELSE l.event]

Refilled(l) == [tokens |-> Min({Burst, l.tokens + Rate}), event |-> Less(l.event, Rate)]

\* A prune deletes what was idle for too long when it was launched and was not
\* seen since.
Doomed(seen) ==
    {ip \in Ips \ {seen} : buckets[ip] # None /\ buckets[ip].idle > PruneAfter}

\* allow: a missing bucket is created full, the client is seen, a prune may be
\* launched (whether the last one is a minute old is left open), and a token is
\* taken if there is one.
Allow_StillDoomed(ip, limiter) ==
    /\ buckets' = [buckets EXCEPT ![ip] = Bucket(limiter, 0)]
    /\ \E launched \in {{}, Doomed(ip)} : prunes' = (prunes \cup {launched}) \ {{}}

Allow(ip, limiter) ==
    /\ buckets' = [buckets EXCEPT ![ip] = Bucket(limiter, 0)]
    /\ \E launched \in {{}, Doomed(ip)} :
            prunes' = ({p \ {ip} : p \in prunes} \cup {launched}) \ {{}}

Throttle(r) ==
    LET q == req[r].what IN
    /\ req[r].pc = "admit"
    /\ Passes(r)
    /\ Limited(q)
    /\ LimiterOf(q.ip).tokens <= 0
    /\ Allow(q.ip, LimiterOf(q.ip))
    /\ Step(r, "refused")
    /\ UNCHANGED <<deployment, loginVars, slots, ideal, crossed, restarts>>

Refusals(ip) == {r \in Reqs : req[r].pc = "reserved" /\ req[r].what.ip = ip}

\* retryAfter reserves a token to learn when there will be one,
Reserve(r) ==
    LET ip == req[r].what.ip IN
    /\ req[r].pc = "refused"
    /\ LimiterOf(ip).tokens > -MaxDebt
    /\ buckets' = [buckets EXCEPT ![ip].limiter = Reserved(@)]
    /\ ideal' = [ideal EXCEPT ![ip] = Reserved(@)]
    /\ req' = [req EXCEPT ![r].pc = "reserved", ![r].entry = Lead(LimiterOf(ip))]
    /\ crossed' = IF Refusals(ip) # {} THEN crossed \cup {ip} ELSE crossed
    /\ UNCHANGED <<deployment, loginVars, slots, prunes, restarts>>

\* and cancels the reservation.
Cancel_Forgotten(r) ==
    /\ req[r].pc = "reserved"
    /\ Done(r)
    /\ UNCHANGED <<deployment, loginVars, gateVars, restarts>>

Cancel(r) ==
    LET ip == req[r].what.ip IN
    /\ req[r].pc = "reserved"
    /\ buckets' = [buckets EXCEPT ![ip].limiter = Cancelled(@, req[r].entry)]
    /\ ideal' = [ideal EXCEPT ![ip] = Cancelled(@, req[r].entry)]
    /\ Done(r)
    /\ UNCHANGED <<deployment, loginVars, slots, prunes, crossed, restarts>>

Admit(r) ==
    LET q == req[r].what IN
    /\ req[r].pc = "admit"
    /\ Passes(r)
    /\ IF Limited(q)
       THEN /\ LimiterOf(q.ip).tokens > 0
            /\ Allow(q.ip, Taken(LimiterOf(q.ip)))
            /\ ideal' = [ideal EXCEPT ![q.ip] = Taken(@)]
       ELSE UNCHANGED <<buckets, prunes, ideal>>
    /\ Step(r, "handle")
    /\ UNCHANGED <<deployment, loginVars, slots, crossed, restarts>>

Prune(doomed) ==
    /\ doomed \in prunes
    /\ prunes' = prunes \ {doomed}
    /\ buckets' = [ip \in Ips |-> IF ip \in doomed THEN None ELSE buckets[ip]]
    /\ UNCHANGED <<deployment, loginVars, req, slots, ideal, crossed, restarts>>

-----------------------------------------------------------------------------
(* The handlers, as far as the ingest slots go.                            *)

Release == slots' = IF slots > 0 THEN slots - 1 ELSE 0

Serve(r) ==
    /\ req[r].pc = "handle"
    /\ req[r].what.ingest \in {"no", "empty"}
    /\ Done(r)
    /\ UNCHANGED <<deployment, loginVars, gateVars, restarts>>

\* withIngestGuard: the slot first, then the size.
Busy(r) ==
    /\ req[r].pc = "handle"
    /\ req[r].what.ingest \in {"fits", "big"}
    /\ slots = Slots
    /\ Done(r)
    /\ UNCHANGED <<deployment, loginVars, gateVars, restarts>>

Acquire(r) ==
    /\ req[r].pc = "handle"
    /\ req[r].what.ingest \in {"fits", "big"}
    /\ slots < Slots
    /\ slots' = slots + 1
    /\ Step(r, "sizing")
    /\ UNCHANGED <<deployment, loginVars, buckets, prunes, ideal, crossed, restarts>>

CheckSize_KeepsSlot(r) ==
    /\ req[r].pc = "sizing"
    /\ IF req[r].what.ingest = "big" THEN Done(r) ELSE Step(r, "ingesting")
    /\ UNCHANGED <<deployment, loginVars, gateVars, restarts>>

CheckSize(r) ==
    /\ req[r].pc = "sizing"
    /\ IF req[r].what.ingest = "big"
       THEN Done(r) /\ Release
       ELSE Step(r, "ingesting") /\ UNCHANGED slots
    /\ UNCHANGED <<deployment, loginVars, buckets, prunes, ideal, crossed, restarts>>

\* The release is deferred: it comes with success, error and panic alike.
Ingested(r) ==
    /\ req[r].pc = "ingesting"
    /\ Done(r)
    /\ Release
    /\ UNCHANGED <<deployment, loginVars, buckets, prunes, ideal, crossed, restarts>>

-----------------------------------------------------------------------------
(* The clock and the process.                                              *)

Older(entry) == IF entry = None THEN None ELSE [entry EXCEPT !.left = Less(@, 1)]

\* The browser drops a cookie that has expired.  The few statements of a
\* refusal take no time, compared with that between two tokens.
Tick ==
    /\ \A r \in Reqs : req[r].pc \notin {"refused", "reserved"}
    /\ sessions' = [s \in Sids |-> Older(sessions[s])]
    /\ flows' = [t \in States |-> Older(flows[t])]
    /\ jar' = [jar EXCEPT !.left = Less(@, 1), !.session = IF jar.left <= 1 THEN None ELSE @]
    /\ req' = [r \in Reqs |-> IF req[r].pc = "popped"
                              THEN [req[r] EXCEPT !.entry = Older(@)] ELSE req[r]]
    /\ buckets' = [ip \in Ips |->
            IF buckets[ip] = None THEN None
            ELSE Bucket(Refilled(buckets[ip].limiter),
                        Min({buckets[ip].idle + 1, PruneAfter + 1}))]
    /\ ideal' = [ip \in Ips |-> Refilled(ideal[ip])]
    /\ UNCHANGED <<deployment, slots, prunes, issued, loggedOut, straddled, crossed, restarts>>

\* Nothing of this is persisted; the browser keeps its cookies.
Restart ==
    /\ restarts < MaxRestarts
    /\ restarts' = restarts + 1
    /\ sessions' = [s \in Sids |-> None]
    /\ flows' = [t \in States |-> None]
    /\ req' = [r \in Reqs |-> Idle]
    /\ slots' = 0
    /\ buckets' = [ip \in Ips |-> None]
    /\ prunes' = {}
    /\ ideal' = [ip \in Ips |-> FullLimiter]
    /\ crossed' = {}
    /\ straddled' = {}
    /\ UNCHANGED <<deployment, jar, issued, loggedOut>>

Next ==
    \/ \E p \in Providers : StartLogin(p)
    \/ Logout
    \/ \E r \in Reqs :
        \/ \E p \in Providers : Callback(r, p)
        \/ PopRead(r) \/ PopDelete(r) \/ ExchangeFails(r)
        \/ \E profile \in Profiles : Denied(r, profile) \/ SignIn(r, profile)
        \/ \E q \in deployment.requests : Arrive(r, q)
        \/ Get(r) \/ Evict(r) \/ TouchRead(r) \/ TouchWrite(r)
        \/ Refuse(r) \/ Throttle(r) \/ Reserve(r) \/ Cancel(r) \/ Admit(r)
        \/ Serve(r) \/ Busy(r) \/ Acquire(r) \/ CheckSize(r) \/ Ingested(r)
    \/ \E doomed \in prunes : Prune(doomed)
    \/ Tick
    \/ Restart

Spec == Init /\ [][Next]_vars

-----------------------------------------------------------------------------
(* Properties.                                                             *)

TypeOK ==
    /\ deployment \in Deployments
    /\ \A s \in Sids : sessions[s] # None =>
            /\ sessions[s].provider \in Providers
            /\ sessions[s].left \in 0..SessionTTL
    /\ \A t \in States : flows[t] # None =>
            flows[t] \in [provider : Providers, left : 0..(FlowTTL + 1)]
    /\ jar \in [session : Sids \cup {None}, left : 0..SessionTTL, state : States \cup {None}]
    /\ slots \in 0..Slots
    /\ \A ip \in Ips : buckets[ip] # None =>
            /\ buckets[ip].limiter.tokens \in (-MaxDebt)..Burst
            /\ buckets[ip].limiter.event \in Nat
            /\ buckets[ip].idle \in 0..(PruneAfter + 1)
    /\ prunes \subseteq SUBSET Ips

\* Every session belongs to a user its provider's allow list admits, and was
\* opened by a flow that was started with that provider; and a private request
\* reaches its handler with a token, or as such a user (oauth.go:629, 652).
OnlyAllowedUsersAct ==
    /\ TypeOK
    /\ \A s \in Sids : sessions[s] # None =>
            /\ AllowedUserOK(sessions[s].provider, sessions[s].user)
            /\ sessions[s].via = sessions[s].provider
    /\ \A r \in Reqs : req[r].pc \in {"handle", "sizing", "ingesting"} =>
            \/ req[r].what.public
            \/ ~deployment.tokens /\ ~deployment.sessions
            \/ deployment.tokens /\ req[r].what.bearer = "good"
            \/ /\ req[r].who # None
               /\ \E p \in Providers : AllowedUserOK(p, req[r].who)

\* A session that was logged out is back only if a request was renewing it at
\* that moment: no request that came later finds it (session.go:249).
LogoutHolds ==
    \A s \in loggedOut : sessions[s] # None => s \in straddled

\* A slot is taken by each request that is between withIngestGuard and its
\* release, and by no other, whatever the requests come to
\* (huma_ingest_op.go:55, ingest_limiter.go:46).
SlotsBalance ==
    slots = Cardinality({r \in Reqs : req[r].pc \in {"sizing", "ingesting"}})

\* Pruning is invisible: a client is allowed exactly what it would be if its
\* bucket were kept for ever, however late a prune runs, and a client in debt
\* from overlapping refusals, or whose large bucket fills slowly, no less
\* (rate_limit.go:123).
PruneIsInvisible ==
    \A ip \in Ips :
        /\ RefillsInTime /\ ip \notin crossed => LimiterOf(ip) = ideal[ip]
        /\ LimiterOf(ip).tokens >= ideal[ip].tokens

\* "We did not actually consume the token" (rate_limit.go:153): a client whose
\* refusals never overlapped owes none, even when it is refused many times.
RefusalIsFree ==
    \A ip \in Ips \ crossed :
        LimiterOf(ip).tokens >= -Cardinality(Refusals(ip))

=============================================================================
