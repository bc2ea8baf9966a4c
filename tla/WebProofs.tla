----------------------------- MODULE WebProofs -----------------------------
(***************************************************************************)
(* Proofs about Web, for any users, providers, clients, requests at a time *)
(* and restarts.  There are four arguments, one on top of the other: what  *)
(* each pc says of the request's record; who the sessions and the requests *)
(* belong to; which ids are dead; and what a client's bucket holds,        *)
(* compared with one that is never pruned.                                 *)
(***************************************************************************)
EXTENDS Web, FiniteSetTheorems, WellFoundedInduction, TLAPS

Users == {UserInfo(p, profile) : p \in Providers, profile \in Profiles}
Sessions == [user : Users, provider : Providers, via : Providers, left : 0..SessionTTL]
Flows == [provider : Providers, left : 0..(FlowTTL + 1)]
Limiters == [tokens : Int, event : Nat]
Buckets == [limiter : Limiters, idle : 0..(PruneAfter + 1)]

WithSession == {"evict", "touch", "renew"}
Waiting == {"refused", "reserved"}
Handling == {"handle", "sizing", "ingesting"}
Slotted == {"sizing", "ingesting"}
Gate == {"get", "admit"} \cup WithSession \cup Waiting \cup Handling
PCs == {"idle", "pop", "popped", "exchange"} \cup Gate

ReqRecords == [pc : PCs,
               what : Requests \cup Providers \cup {None},
               key : Sids \cup States \cup {None},
               entry : Sessions \cup Flows \cup Int \cup {None},
               who : Users \cup {None}]

Types ==
    /\ deployment \in Deployments
    /\ sessions \in [Sids -> Sessions \cup {None}]
    /\ flows \in [States -> Flows \cup {None}]
    /\ jar \in [session : Sids \cup {None}, left : 0..SessionTTL, state : States \cup {None}]
    /\ req \in [Reqs -> ReqRecords]
    /\ slots \in 0..Slots
    /\ buckets \in [Ips -> Buckets \cup {None}]
    /\ prunes \subseteq SUBSET Ips
    /\ issued \subseteq Sids
    /\ ideal \in [Ips -> Limiters]

\* What a request at each pc has in hand.
ShapeOf(r) ==
    /\ req[r].pc \in {"pop", "popped"} => req[r].what \in Providers /\ req[r].key \in States
    /\ req[r].pc = "popped" => req[r].entry \in Flows
    /\ req[r].pc = "exchange" =>
          /\ req[r].what \in Providers
          /\ req[r].entry \in Flows
          /\ req[r].entry.provider = req[r].what
    /\ req[r].pc \in Gate => req[r].what \in Requests
    /\ req[r].pc = "get" => req[r].key \in Sids \cup {None}
    /\ req[r].pc \in WithSession => req[r].key \in Sids
    /\ req[r].pc = "renew" => req[r].entry \in Sessions

Shape == \A r \in Reqs : ShapeOf(r)

\* Sessions of users who were let in, and requests that act as them.
Vetted(session) ==
    AllowedUserOK(session.provider, session.user) /\ session.via = session.provider

Identified(r) ==
    /\ req[r].pc = "renew" => Vetted(req[r].entry)
    /\ req[r].who # None => \E p \in Providers : AllowedUserOK(p, req[r].who)
    /\ req[r].pc \in Handling => Authenticated(r)

Identity ==
    /\ \A s \in Sids : sessions[s] # None => Vetted(sessions[s])
    /\ \A r \in Reqs : Identified(r)

\* An id that was logged out stays dead, unless it was being renewed.
Dead(s) == sessions[s] = None /\ \A r \in Reqs : req[r].pc = "renew" => req[r].key # s

Logouts ==
    /\ jar.session # None => jar.session \in issued
    /\ loggedOut \subseteq issued
    /\ \A s \in loggedOut : s \in straddled \/ Dead(s)

\* The limiter of a bucket is a function of its tokens: what is owed will have
\* been paid when its last event has come.
Owed(tokens) == IF tokens >= 0 THEN 0 ELSE -tokens

Throttled(ip) == \E r \in Reqs : req[r].pc \in Waiting /\ req[r].what.ip = ip

BucketOf(ip) ==
    buckets[ip] # None =>
        /\ buckets[ip].limiter.tokens \in (-MaxDebt)..Burst
        /\ buckets[ip].limiter.event = Owed(buckets[ip].limiter.tokens)

\* While a client is being refused its bucket is there, empty and just seen.
\* Each reservation has a lead of its own, no later than the last event, in
\* the bucket that is never pruned as well.
RefusalsOf(ip) ==
    /\ Throttled(ip) =>
          /\ buckets[ip] # None
          /\ buckets[ip].idle = 0
          /\ buckets[ip].limiter.tokens <= 0
    /\ Refusals(ip) # {} => ideal[ip].event = -ideal[ip].tokens
    /\ \A r \in Refusals(ip) :
          /\ req[r].entry \in 1..buckets[ip].limiter.event
          /\ \A q \in Refusals(ip) : req[q].entry = req[r].entry => q = r

\* A client whose refusals never overlapped is in debt for one at most, and an
\* idle bucket of it has been filled since it was last seen.
Lone(ip) ==
    /\ \A r, q \in Refusals(ip) : q = r
    /\ RefillsInTime => LimiterOf(ip) = ideal[ip]
    /\ LimiterOf(ip).tokens >= -1
    /\ Refusals(ip) = {} => LimiterOf(ip).tokens >= 0
    /\ buckets[ip] # None /\ buckets[ip].idle > 0 =>
          \/ buckets[ip].limiter.tokens = Burst
          \/ buckets[ip].limiter.tokens >= Rate * buckets[ip].idle

\* What a pending prune will delete has not been seen since it was launched.
Unseen(ip) ==
    \A p \in prunes : ip \in p /\ buckets[ip] # None => buckets[ip].idle > PruneAfter

Metered(ip) ==
    /\ BucketOf(ip)
    /\ RefusalsOf(ip)
    /\ LimiterOf(ip).tokens >= ideal[ip].tokens
    /\ ip \notin crossed => Lone(ip)
    /\ Unseen(ip)

Meters == \A ip \in Ips : Metered(ip)

\* The inductive invariant.
WebInv == Types /\ Shape /\ Identity /\ Logouts /\ SlotsBalance /\ Meters

Fits(r) == req[r] \in ReqRecords /\ ShapeOf(r)

\* The steps of a request.
LoginStep(r) ==
    \/ \E p \in Providers : Callback(r, p)
    \/ PopRead(r) \/ PopDelete(r) \/ ExchangeFails(r)
    \/ \E profile \in Profiles : Denied(r, profile) \/ SignIn(r, profile)

AuthStep(r) ==
    \/ \E q \in deployment.requests : Arrive(r, q)
    \/ Get(r) \/ Evict(r) \/ TouchRead(r) \/ TouchWrite(r) \/ Refuse(r)

MeterStep(r) == Throttle(r) \/ Reserve(r) \/ Cancel(r) \/ Admit(r)

SlotStep(r) == Serve(r) \/ Busy(r) \/ Acquire(r) \/ CheckSize(r) \/ Ingested(r)

Acts(r) == LoginStep(r) \/ AuthStep(r) \/ MeterStep(r) \/ SlotStep(r)

-----------------------------------------------------------------------------
(* The least of some numbers, the case split over a step, and what a step  *)
(* of a request leaves alone.                                              *)

LEMMA MinFact ==
    ASSUME NEW S \in SUBSET Nat, S # {}
    PROVE  Min(S) \in S
<1> DEFINE Smaller == {ss \in Nat \X Nat : ss[1] < ss[2]}
<1>1. IsWellFoundedOn(Smaller, Nat)
  BY NatLessThanWellFounded DEF OpToRel
<1> HIDE DEF Smaller
<1>2. PICK x \in S : \A y \in S : ~(<<y, x>> \in Smaller)
  BY <1>1, WFMin
<1>3. ASSUME NEW y \in S PROVE x <= y
  <2>1. <<y, x>> \in Nat \X Nat /\ (y < x => <<y, x>> \in Smaller)
    BY DEF Smaller
  <2>2. QED
    BY <1>2, <2>1
<1>4. QED
  BY <1>3 DEF Min

LEMMA MinOfTwo ==
    ASSUME NEW a \in Int, NEW b \in Int
    PROVE  Min({a, b}) = IF a <= b THEN a ELSE b
BY DEF Min

LEMMA Drawn ==
    ASSUME NEW used
    PROVE  /\ Sids \ used # {} => Min(Sids \ used) \in Sids \ used
           /\ Unheld # {} => Min(Unheld) \in Unheld /\ Min(Unheld) \in States
<1>1. Sids \ used \in SUBSET Nat /\ Unheld \in SUBSET Nat /\ Unheld \subseteq States
  BY WebAssumption DEF Unheld
<1>2. QED
  BY <1>1, MinFact

LEMMA NextCases ==
    ASSUME Next
    PROVE  \/ \E p \in Providers : StartLogin(p)
           \/ Logout
           \/ \E r \in Reqs : Acts(r)
           \/ \E doomed \in prunes : Prune(doomed)
           \/ Tick
           \/ Restart
BY DEF Next, Acts, LoginStep, AuthStep, MeterStep, SlotStep

LEMMA OneMoves ==
    ASSUME req \in [Reqs -> ReqRecords], NEW r \in Reqs, Acts(r)
    PROVE  /\ req' = [req EXCEPT ![r] = req'[r]]
           /\ \A q \in Reqs \ {r} : req'[q] = req[q]
<1> SUFFICES \E v : req' = [req EXCEPT ![r] = v]
  OBVIOUS
<1>1. CASE LoginStep(r)
  BY <1>1 DEF LoginStep, Callback, PopRead, PopDelete, ExchangeFails, Denied, SignIn, Answered, Done
<1>2. CASE AuthStep(r)
  BY <1>2 DEF AuthStep, Arrive, Get, Evict, TouchRead, TouchWrite, Refuse, Done, Step
<1>3. CASE MeterStep(r)
  BY <1>3 DEF MeterStep, Throttle, Reserve, Cancel, Admit, Done, Step
<1>4. CASE SlotStep(r)
  BY <1>4 DEF SlotStep, Serve, Busy, Acquire, CheckSize, Ingested, Done, Step
<1>5. QED
  BY <1>1, <1>2, <1>3, <1>4 DEF Acts

LEMMA Frames ==
    ASSUME NEW r \in Reqs
    PROVE  /\ LoginStep(r) => UNCHANGED <<deployment, loggedOut, straddled, gateVars>>
           /\ AuthStep(r) =>
                UNCHANGED <<deployment, flows, jar, issued, loggedOut, straddled, gateVars>>
           /\ MeterStep(r) => UNCHANGED <<deployment, loginVars, slots>>
           /\ SlotStep(r) =>
                UNCHANGED <<deployment, loginVars, buckets, prunes, ideal, crossed>>
<1>1. LoginStep(r) => UNCHANGED <<deployment, loggedOut, straddled, gateVars>>
  BY DEF LoginStep, Callback, PopRead, PopDelete, ExchangeFails, Denied, SignIn, loginVars
<1>2. AuthStep(r) =>
        UNCHANGED <<deployment, flows, jar, issued, loggedOut, straddled, gateVars>>
  BY DEF AuthStep, Arrive, Get, Evict, TouchRead, TouchWrite, Refuse, loginVars
<1>3. MeterStep(r) => UNCHANGED <<deployment, loginVars, slots>>
  BY DEF MeterStep, Throttle, Reserve, Cancel, Admit
<1>4. SlotStep(r) => UNCHANGED <<deployment, loginVars, buckets, prunes, ideal, crossed>>
  BY DEF SlotStep, Serve, Busy, Acquire, CheckSize, Ingested, gateVars
<1>5. QED
  BY <1>1, <1>2, <1>3, <1>4

LEMMA OtherFrames ==
    /\ \A p \in Providers : StartLogin(p) =>
            UNCHANGED <<deployment, sessions, req, issued, loggedOut, straddled, gateVars>>
    /\ Logout => UNCHANGED <<deployment, flows, req, issued, gateVars>>
    /\ \A doomed \in prunes : Prune(doomed) =>
            UNCHANGED <<deployment, loginVars, req, slots, ideal, crossed>>
    /\ Tick => UNCHANGED <<deployment, slots, prunes, issued, loggedOut, straddled, crossed>>
    /\ Restart => UNCHANGED <<deployment, jar, issued, loggedOut>>
BY DEF StartLogin, Logout, Prune, Tick, Restart

-----------------------------------------------------------------------------
(* Types, and what a request at each pc has in hand.                       *)

LEMMA AssumedTypes ==
    /\ \A u \in Profiles, p \in Providers : UserInfo(p, u) \in Users
    /\ \A d \in Deployments : d.requests \subseteq Requests
    /\ SessionTTL \in Nat \ {0} /\ Slots \in Nat \ {0} /\ Burst \in Nat \ {0} /\ Rate \in Nat \ {0}
    /\ FlowTTL \in Nat /\ PruneAfter \in Nat /\ MaxDebt \in Nat
    /\ IsFiniteSet(Reqs)
BY WebAssumption DEF Users

LEMMA FullIsTyped == FullLimiter \in Limiters
BY AssumedTypes DEF FullLimiter, Limiters

LEMMA IdleFits == Idle \in ReqRecords
BY DEF Idle, ReqRecords, PCs

LEMMA FitsLogin ==
    ASSUME Types, Shape, NEW r \in Reqs, LoginStep(r)
    PROVE  Fits(r)'
<1> USE DEF Fits, ShapeOf
<1> req[r] \in ReqRecords /\ ShapeOf(r) /\ req \in [Reqs -> ReqRecords]
  BY DEF Types, Shape
<1>1. ASSUME req'[r] = Idle PROVE Fits(r)'
  BY <1>1, IdleFits DEF Idle, Gate, WithSession, Waiting, Handling
<1>2. ASSUME NEW p \in Providers, Callback(r, p) PROVE Fits(r)'
  <2>1. req'[r] = [Idle EXCEPT !.pc = "pop", !.what = p, !.key = jar.state]
    BY <1>2 DEF Callback
  <2>2. jar.state \in States
    BY <1>2 DEF Callback, Types
  <2>3. QED
    BY <2>1, <2>2 DEF Idle, ReqRecords, PCs, Gate, WithSession, Waiting, Handling
<1>3. CASE PopRead(r)
  <2>1. req[r].key \in States /\ req[r].what \in Providers
    BY <1>3 DEF PopRead
  <2>2. CASE flows[req[r].key] = None
    BY <1>1, <1>3, <2>2 DEF PopRead, Answered, Done
  <2>3. CASE flows[req[r].key] # None
    <3>1. flows[req[r].key] \in Flows
      BY <2>1, <2>3 DEF Types
    <3>2. req'[r] = [req[r] EXCEPT !.pc = "popped", !.entry = flows[req[r].key]]
      BY <1>3, <2>3 DEF PopRead
    <3>3. QED
      BY <2>1, <3>1, <3>2 DEF ReqRecords, PCs, Gate, WithSession, Waiting, Handling
  <2>4. QED
    BY <2>2, <2>3
<1>4. CASE PopDelete(r)
  <2>1. req[r].entry \in Flows /\ req[r].what \in Providers
    BY <1>4 DEF PopDelete
  <2>2. CASE req[r].entry.left = 0 \/ req[r].entry.provider # req[r].what
    BY <1>1, <1>4, <2>2 DEF PopDelete, Answered, Done
  <2>3. CASE ~(req[r].entry.left = 0 \/ req[r].entry.provider # req[r].what)
    <3>1. req'[r] = [req[r] EXCEPT !.pc = "exchange", !.entry.left = 0, !.key = None]
      BY <1>4, <2>3 DEF PopDelete
    <3>2. [req[r].entry EXCEPT !.left = 0] \in Flows
      BY <2>1, AssumedTypes DEF Flows
    <3>3. [req[r].entry EXCEPT !.left = 0].provider = req[r].what
      BY <2>1, <2>3 DEF Flows
    <3>4. QED
      BY <2>1, <3>1, <3>2, <3>3 DEF ReqRecords, PCs, Gate, WithSession, Waiting, Handling
  <2>4. QED
    BY <2>2, <2>3
<1>5. CASE ExchangeFails(r)
  BY <1>1, <1>5 DEF ExchangeFails, Answered, Done
<1>6. ASSUME NEW u \in Profiles, Denied(r, u) \/ SignIn(r, u) PROVE Fits(r)'
  BY <1>1, <1>6 DEF Denied, SignIn, Answered, Done
<1>7. QED
  BY <1>2, <1>3, <1>4, <1>5, <1>6 DEF LoginStep

LEMMA FitsAuth ==
    ASSUME Types, Shape, NEW r \in Reqs, AuthStep(r)
    PROVE  Fits(r)'
<1> USE DEF Fits, ShapeOf
<1> req[r] \in ReqRecords /\ ShapeOf(r) /\ req \in [Reqs -> ReqRecords]
  BY DEF Types, Shape
<1> DEFINE Sets == Gate \cup WithSession \cup Waiting \cup Handling
<1>1. ASSUME NEW q \in deployment.requests, Arrive(r, q) PROVE Fits(r)'
  <2>1. q \in Requests /\ jar.session \in Sids \cup {None}
    BY AssumedTypes DEF Types
  <2>2. PICK pc \in {"get", "admit"} : req'[r] = [Idle EXCEPT !.pc = pc, !.what = q, !.key = jar.session]
    BY <1>1 DEF Arrive
  <2>3. QED
    BY <2>1, <2>2 DEF Idle, ReqRecords, PCs, Gate, WithSession, Waiting, Handling
<1>2. CASE Get(r)
  <2>1. req[r].what \in Requests /\ req[r].key \in Sids \cup {None}
    BY <1>2 DEF Get, Gate
  <2>2. CASE req[r].key = None \/ sessions[req[r].key] = None
    <3>1. req'[r] = [req[r] EXCEPT !.pc = "admit"]
      BY <1>2, <2>2 DEF Get, Step
    <3>2. QED
      BY <2>1, <3>1 DEF ReqRecords, PCs, Gate, WithSession, Waiting, Handling
  <2>3. CASE req[r].key # None /\ sessions[req[r].key] # None
    <3>1. req[r].key \in Sids /\ sessions[req[r].key] \in Sessions
      BY <2>1, <2>3 DEF Types
    <3>2. sessions[req[r].key].user \in Users
      BY <3>1 DEF Sessions
    <3>3. \/ req'[r] = [req[r] EXCEPT !.pc = "evict"]
          \/ req'[r] = [req[r] EXCEPT !.pc = "touch", !.who = sessions[req[r].key].user]
      BY <1>2, <2>3 DEF Get, Step
    <3>4. QED
      BY <2>1, <3>1, <3>2, <3>3 DEF ReqRecords, PCs, Gate, WithSession, Waiting, Handling
  <2>4. QED
    BY <2>2, <2>3
<1>3. CASE Evict(r)
  <2>1. req'[r] = [req[r] EXCEPT !.pc = "admit"] /\ req[r].what \in Requests
    BY <1>3 DEF Evict, Step, Gate, WithSession
  <2>2. QED
    BY <2>1 DEF ReqRecords, PCs, Gate, WithSession, Waiting, Handling
<1>4. CASE TouchRead(r)
  <2>1. req[r].what \in Requests /\ req[r].key \in Sids
    BY <1>4 DEF TouchRead, Gate, WithSession
  <2>2. CASE sessions[req[r].key] = None
    <3>1. req'[r] = [req[r] EXCEPT !.pc = "admit"]
      BY <1>4, <2>2 DEF TouchRead, Step
    <3>2. QED
      BY <2>1, <3>1 DEF ReqRecords, PCs, Gate, WithSession, Waiting, Handling
  <2>3. CASE sessions[req[r].key] # None
    <3> DEFINE renewed == [sessions[req[r].key] EXCEPT !.left = SessionTTL]
    <3>1. renewed \in Sessions
      BY <2>1, <2>3, AssumedTypes DEF Types, Sessions
    <3>2. req'[r] = [req[r] EXCEPT !.pc = "renew", !.entry = renewed]
      BY <1>4, <2>3 DEF TouchRead
    <3>3. QED
      BY <2>1, <3>1, <3>2 DEF ReqRecords, PCs, Gate, WithSession, Waiting, Handling
  <2>4. QED
    BY <2>2, <2>3
<1>5. CASE TouchWrite(r)
  <2>1. req[r].what \in Requests /\ req'[r] = [req[r] EXCEPT !.pc = "admit", !.entry = None]
    BY <1>5 DEF TouchWrite, Gate, WithSession
  <2>2. QED
    BY <2>1 DEF ReqRecords, PCs, Gate, WithSession, Waiting, Handling
<1>6. CASE Refuse(r)
  BY <1>6, IdleFits DEF Refuse, Done, Idle, Gate, WithSession, Waiting, Handling
<1>7. QED
  BY <1>1, <1>2, <1>3, <1>4, <1>5, <1>6 DEF AuthStep

LEMMA FitsGate ==
    ASSUME Types, Shape, NEW r \in Reqs, MeterStep(r) \/ SlotStep(r),
           req[r].pc = "refused" => LimiterOf(req[r].what.ip) \in Limiters
    PROVE  Fits(r)'
<1> USE DEF Fits, ShapeOf
<1> req[r] \in ReqRecords /\ ShapeOf(r) /\ req \in [Reqs -> ReqRecords]
  BY DEF Types, Shape
<1>1. ASSUME req'[r] = Idle PROVE Fits(r)'
  BY <1>1, IdleFits DEF Idle, Gate, WithSession, Waiting, Handling
<1>2. ASSUME req[r].pc \in Gate, NEW pc \in Waiting \cup Handling,
             req'[r] = [req[r] EXCEPT !.pc = pc]
      PROVE  Fits(r)'
  BY <1>2 DEF ReqRecords, PCs, Gate, WithSession, Waiting, Handling
<1>3. CASE Throttle(r)
  BY <1>2, <1>3 DEF Throttle, Step, Gate, Waiting
<1>4. CASE Reserve(r)
  <2> DEFINE lead == Lead(LimiterOf(req[r].what.ip))
  <2>1. lead \in Int
    BY <1>4 DEF Reserve, Lead, Limiters
  <2>2. req'[r] = [req[r] EXCEPT !.pc = "reserved", !.entry = lead] /\ req[r].what \in Requests
    BY <1>4 DEF Reserve, Gate, Waiting
  <2>3. QED
    BY <2>1, <2>2 DEF ReqRecords, PCs, Gate, WithSession, Waiting, Handling
<1>5. CASE Cancel(r)
  BY <1>1, <1>5 DEF Cancel, Done
<1>6. CASE Admit(r)
  BY <1>2, <1>6 DEF Admit, Step, Gate, Handling
<1>7. CASE Serve(r) \/ Busy(r) \/ Ingested(r)
  BY <1>1, <1>7 DEF Serve, Busy, Ingested, Done
<1>8. CASE Acquire(r)
  BY <1>2, <1>8 DEF Acquire, Step, Gate, Handling
<1>9. CASE CheckSize(r)
  BY <1>1, <1>2, <1>9 DEF CheckSize, Step, Done, Gate, Handling
<1>10. QED
  BY <1>3, <1>4, <1>5, <1>6, <1>7, <1>8, <1>9 DEF MeterStep, SlotStep

LoginTypes ==
    /\ deployment \in Deployments
    /\ sessions \in [Sids -> Sessions \cup {None}]
    /\ flows \in [States -> Flows \cup {None}]
    /\ jar \in [session : Sids \cup {None}, left : 0..SessionTTL, state : States \cup {None}]
    /\ issued \subseteq Sids

LEMMA Aged ==
    /\ \A entry \in Sessions \cup {None} : Older(entry) \in Sessions \cup {None}
    /\ \A entry \in Flows \cup {None} : Older(entry) \in Flows \cup {None}
    /\ \A n \in 0..SessionTTL : Less(n, 1) \in 0..SessionTTL
BY AssumedTypes DEF Older, Less, Sessions, Flows

LEMMA Spans == 0 \in 0..SessionTTL /\ SessionTTL \in 0..SessionTTL
BY AssumedTypes

LEMMA LoginTypesStep ==
    ASSUME Types, Shape, Next
    PROVE  LoginTypes'
<1> USE DEF LoginTypes
<1>0. LoginTypes
  BY DEF Types
<1>1. CASE UNCHANGED <<deployment, sessions, flows, jar, issued>>
  BY <1>0, <1>1
<1>2. ASSUME NEW p \in Providers, StartLogin(p) PROVE LoginTypes'
  <2>1. Min(Unheld) \in States
    BY <1>2, Drawn DEF StartLogin
  <2>2. [provider |-> p, left |-> FlowTTL + 1] \in Flows
    BY AssumedTypes DEF Flows
  <2>3. QED
    BY <1>0, <1>2, <2>1, <2>2 DEF StartLogin
<1>3. CASE Logout
  <2>1. jar.session \in Sids
    BY <1>0, <1>3 DEF Logout
  <2>2. jar' \in [session : Sids \cup {None}, left : 0..SessionTTL, state : States \cup {None}]
    BY <1>0, <1>3, Spans DEF Logout
  <2>3. QED
    BY <1>0, <1>3, <2>1, <2>2 DEF Logout
<1>4. ASSUME NEW r \in Reqs, LoginStep(r) PROVE LoginTypes'
  <2>1. ASSUME NEW p \in Providers, Callback(r, p) PROVE LoginTypes'
    BY <1>1, <2>1 DEF Callback, loginVars
  <2>2. CASE PopRead(r) \/ ExchangeFails(r) \/ \E u \in Profiles : Denied(r, u)
    BY <1>0, <2>2 DEF PopRead, ExchangeFails, Denied, Answered
  <2>3. CASE PopDelete(r)
    BY <1>0, <2>3 DEF PopDelete, Answered
  <2>4. ASSUME NEW u \in Profiles, SignIn(r, u) PROVE LoginTypes'
    <3> DEFINE new == Min(Sids \ issued)
               session == [user |-> UserInfo(req[r].what, u), provider |-> req[r].what,
                           via |-> req[r].entry.provider, left |-> SessionTTL]
    <3>1. new \in Sids
      BY <2>4, Drawn DEF SignIn
    <3>2. req[r].what \in Providers /\ req[r].entry.provider \in Providers
      BY <2>4 DEF SignIn, Shape, ShapeOf, Flows
    <3>3. session \in Sessions
      BY <3>2, AssumedTypes DEF Sessions
    <3>4. /\ sessions' = [sessions EXCEPT ![new] = session]
          /\ issued' = issued \cup {new}
          /\ jar' = [[jar EXCEPT !.session = new, !.left = SessionTTL] EXCEPT !.state = None]
          /\ UNCHANGED <<deployment, flows>>
      BY <2>4 DEF SignIn, Answered
    <3> HIDE DEF new, session
    <3>5. jar' \in [session : Sids \cup {None}, left : 0..SessionTTL, state : States \cup {None}]
      BY <1>0, <3>1, <3>4, Spans
    <3>6. QED
      BY <1>0, <3>1, <3>3, <3>4, <3>5
  <2>5. QED
    BY <1>4, <2>1, <2>2, <2>3, <2>4 DEF LoginStep
<1>5. ASSUME NEW r \in Reqs, AuthStep(r) PROVE LoginTypes'
  <2>1. CASE Evict(r)
    BY <1>0, <2>1 DEF Evict
  <2>2. CASE TouchWrite(r)
    <3>1. req[r].entry \in Sessions
      BY <2>2 DEF TouchWrite, Shape, ShapeOf
    <3>2. QED
      BY <1>0, <2>2, <3>1 DEF TouchWrite
  <2>3. CASE (\E q \in deployment.requests : Arrive(r, q)) \/ Get(r) \/ TouchRead(r) \/ Refuse(r)
    BY <1>1, <2>3 DEF Arrive, Get, TouchRead, Refuse, loginVars
  <2>4. QED
    BY <1>5, <2>1, <2>2, <2>3 DEF AuthStep
<1>6. ASSUME NEW r \in Reqs, MeterStep(r) PROVE LoginTypes'
  BY <1>1, <1>6, Frames DEF loginVars
<1>7. ASSUME NEW r \in Reqs, SlotStep(r) PROVE LoginTypes'
  BY <1>1, <1>7, Frames DEF loginVars
<1>8. ASSUME NEW doomed \in prunes, Prune(doomed) PROVE LoginTypes'
  BY <1>1, <1>8 DEF Prune, loginVars
<1>9. CASE Tick
  <2>1. jar' \in [session : Sids \cup {None}, left : 0..SessionTTL, state : States \cup {None}]
    BY <1>0, <1>9, Aged DEF Tick
  <2>2. QED
    BY <1>0, <1>9, <2>1, Aged DEF Tick
<1>10. CASE Restart
  BY <1>0, <1>10 DEF Restart
<1>11. QED
  BY <1>2, <1>3, <1>4, <1>5, <1>6, <1>7, <1>8, <1>9, <1>10, NextCases DEF Acts

-----------------------------------------------------------------------------
(* Whoever is let in.                                                      *)

LEMMA IdentifiedLogin ==
    ASSUME Types, Shape, Identity, NEW r \in Reqs, LoginStep(r)
    PROVE  Identified(r)'
<1> USE DEF Identified
<1> Identified(r) /\ req \in [Reqs -> ReqRecords]
  BY DEF Identity, Types
<1>1. ASSUME req'[r].pc \in {"idle", "pop", "popped", "exchange"},
             req'[r].who = req[r].who \/ req'[r].who = None
      PROVE  Identified(r)'
  BY <1>1 DEF Handling
<1>2. CASE (\E p \in Providers : Callback(r, p))
  BY <1>1, <1>2 DEF Callback, Idle
<1>3. CASE PopRead(r)
  <2>1. /\ req'[r].pc \in {"idle", "popped"}
        /\ req'[r].who \in {req[r].who, None}
    BY <1>3, req[r] \in ReqRecords DEF PopRead, Answered, Done, Idle, ReqRecords
  <2>2. QED
    BY <1>1, <2>1
<1>4. CASE PopDelete(r)
  <2>1. \/ req'[r] = Idle
        \/ \E e : req'[r] = [req[r] EXCEPT !.pc = "exchange", !.entry = e, !.key = None]
    BY <1>4 DEF PopDelete, Answered, Done
  <2>2. ASSUME NEW e, req'[r] = [req[r] EXCEPT !.pc = "exchange", !.entry = e, !.key = None]
        PROVE  req'[r].pc = "exchange" /\ req'[r].who = req[r].who
    BY <2>2, req[r] \in ReqRecords DEF ReqRecords
  <2>3. Idle.pc = "idle" /\ Idle.who = None
    BY DEF Idle
  <2>4. /\ req'[r].pc \in {"idle", "exchange"}
        /\ req'[r].who \in {req[r].who, None}
    BY <2>1, <2>2, <2>3
  <2>5. QED
    BY <1>1, <2>4
<1>5. CASE ExchangeFails(r) \/ \E u \in Profiles : Denied(r, u) \/ SignIn(r, u)
  <2>1. req'[r] = Idle
    BY <1>5 DEF ExchangeFails, Denied, SignIn, Answered, Done
  <2>2. QED
    BY <1>1, <2>1 DEF Idle
<1>6. QED
  BY <1>2, <1>3, <1>4, <1>5 DEF LoginStep

LEMMA IdentifiedAuth ==
    ASSUME Types, Shape, Identity, NEW r \in Reqs, AuthStep(r)
    PROVE  Identified(r)'
<1> USE DEF Identified
<1> Identified(r) /\ req \in [Reqs -> ReqRecords]
  BY DEF Identity, Types
<1>1. ASSUME req'[r].pc \in {"idle", "get", "evict", "touch", "admit"},
             req'[r].who = req[r].who \/ req'[r].who = None
      PROVE  Identified(r)'
  BY <1>1 DEF Handling
<1>2. CASE (\E q \in deployment.requests : Arrive(r, q))
  BY <1>1, <1>2 DEF Arrive, Idle
<1>3. CASE Get(r)
  <2>1. CASE req'[r].who = req[r].who
    BY <1>1, <1>3, <2>1 DEF Get, Step, ReqRecords
  <2>2. CASE req'[r].who # req[r].who
    <3>1. /\ req[r].key # None /\ sessions[req[r].key] # None
          /\ req'[r].pc = "touch" /\ req'[r].who = sessions[req[r].key].user
      BY <1>3, <2>2 DEF Get, Step, ReqRecords
    <3>2. req[r].key \in Sids
      BY <1>3, <3>1 DEF Get, Shape, ShapeOf
    <3>3. Vetted(sessions[req[r].key]) /\ sessions[req[r].key].provider \in Providers
      BY <3>1, <3>2 DEF Identity, Types, Sessions
    <3>4. QED
      BY <3>1, <3>3 DEF Vetted, Handling
  <2>3. QED
    BY <2>1, <2>2
<1>4. CASE Evict(r) \/ TouchWrite(r)
  BY <1>1, <1>4 DEF Evict, TouchWrite, Step, ReqRecords
<1>5. CASE TouchRead(r)
  <2>1. CASE sessions[req[r].key] = None
    BY <1>1, <1>5, <2>1 DEF TouchRead, Step, ReqRecords
  <2>2. CASE sessions[req[r].key] # None
    <3>1. req[r].key \in Sids
      BY <1>5 DEF TouchRead, Shape, ShapeOf, WithSession
    <3>2. Vetted(sessions[req[r].key]) /\ sessions[req[r].key] \in Sessions
      BY <2>2, <3>1 DEF Identity, Types
    <3>3. Vetted([sessions[req[r].key] EXCEPT !.left = SessionTTL])
      BY <3>2 DEF Vetted, Sessions
    <3>4. /\ req'[r].pc = "renew" /\ req'[r].who = req[r].who
          /\ req'[r].entry = [sessions[req[r].key] EXCEPT !.left = SessionTTL]
      BY <1>5, <2>2 DEF TouchRead, ReqRecords
    <3>5. QED
      BY <3>3, <3>4 DEF Handling
  <2>3. QED
    BY <2>1, <2>2
<1>6. CASE Refuse(r)
  BY <1>1, <1>6 DEF Refuse, Done, Idle
<1>7. QED
  BY <1>2, <1>3, <1>4, <1>5, <1>6 DEF AuthStep

LEMMA IdentifiedGate ==
    ASSUME Types, Shape, Identity, NEW r \in Reqs, MeterStep(r) \/ SlotStep(r)
    PROVE  Identified(r)'
<1> Identified(r) /\ req \in [Reqs -> ReqRecords] /\ req[r] \in ReqRecords
  BY DEF Identity, Types
<1>0. deployment' = deployment
  BY DEF MeterStep, SlotStep, Throttle, Reserve, Cancel, Admit, Serve, Busy, Acquire, CheckSize,
         Ingested
<1>1. ASSUME req'[r] = Idle PROVE Identified(r)'
  BY <1>1 DEF Identified, Idle, Handling
<1>2. ASSUME NEW pc \in Handling, req'[r] = [req[r] EXCEPT !.pc = pc], Authenticated(r)
      PROVE  Identified(r)'
  <2>1. req'[r].pc \in Handling /\ req'[r].who = req[r].who /\ req'[r].what = req[r].what
    BY <1>2 DEF ReqRecords
  <2>2. Authenticated(r)'
    BY <1>0, <1>2, <2>1 DEF Authenticated, MatchBearer
  <2>3. QED
    BY <2>1, <2>2 DEF Identified, Handling
<1>3. ASSUME NEW pc \in Waiting, req'[r].pc = pc, req'[r].who = req[r].who PROVE Identified(r)'
  BY <1>3 DEF Identified, Waiting, Handling
<1>4. CASE Throttle(r)
  BY <1>3, <1>4 DEF Throttle, Step, ReqRecords, Waiting
<1>5. CASE Reserve(r)
  BY <1>3, <1>5 DEF Reserve, ReqRecords, Waiting
<1>6. CASE Admit(r)
  BY <1>2, <1>6 DEF Admit, Step, Passes, Handling
<1>7. CASE Cancel(r) \/ Serve(r) \/ Busy(r) \/ Ingested(r)
  BY <1>1, <1>7 DEF Cancel, Serve, Busy, Ingested, Done
<1>8. CASE Acquire(r)
  BY <1>2, <1>8 DEF Acquire, Step, Handling, Identified
<1>9. CASE CheckSize(r)
  BY <1>1, <1>2, <1>9 DEF CheckSize, Step, Done, Handling, Identified
<1>10. QED
  BY <1>4, <1>5, <1>6, <1>7, <1>8, <1>9 DEF MeterStep, SlotStep

\* A tick only ages the flow that a callback has read.
LEMMA TickKeeps ==
    ASSUME Types, Shape, Tick, NEW r \in Reqs
    PROVE  /\ Fits(r)'
           /\ req'[r].pc = req[r].pc /\ req'[r].what = req[r].what
           /\ req'[r].key = req[r].key /\ req'[r].who = req[r].who
           /\ req[r].pc # "popped" => req'[r] = req[r]
<1>0. req[r] \in ReqRecords /\ ShapeOf(r)
  BY DEF Types, Shape
<1>1. CASE req[r].pc # "popped"
  BY <1>0, <1>1 DEF Tick, Fits, ShapeOf
<1>2. CASE req[r].pc = "popped"
  <2>1. req'[r] = [req[r] EXCEPT !.entry = Older(req[r].entry)]
    BY <1>2 DEF Tick
  <2>2. req[r].entry \in Flows
    BY <1>0, <1>2 DEF ShapeOf
  <2>3. Older(req[r].entry) = None \/ Older(req[r].entry) \in Flows
    BY <2>2, Aged
  <2>4. req[r].entry = None => Older(req[r].entry) \in Flows
    BY <2>2 DEF Older
  <2>5. req[r].entry # None => Older(req[r].entry) \in Flows
    BY <2>2, AssumedTypes DEF Older, Less, Flows
  <2>6. QED
    BY <1>0, <1>2, <2>1, <2>4, <2>5
    DEF Fits, ShapeOf, ReqRecords, Gate, WithSession, Waiting, Handling
<1>3. QED
  BY <1>1, <1>2

LEMMA DeploymentStays == Next => deployment' = deployment
BY NextCases, Frames, OtherFrames DEF Acts

LEMMA VettedStep ==
    ASSUME Types, Shape, Identity, Next, NEW s \in Sids, sessions'[s] # None
    PROVE  Vetted(sessions'[s])
<1>1. CASE sessions'[s] = sessions[s]
  BY <1>1 DEF Identity
<1>2. ASSUME NEW r \in Reqs, NEW u \in Profiles, SignIn(r, u) PROVE Vetted(sessions'[s])
  <2>1. req[r].entry.provider = req[r].what
    BY <1>2 DEF SignIn, Shape, ShapeOf
  <2>2. Min(Sids \ issued) \in Sids
    BY <1>2, Drawn DEF SignIn
  <2>3. CASE s = Min(Sids \ issued)
    <3>1. sessions'[s] = [user |-> UserInfo(req[r].what, u), provider |-> req[r].what,
                          via |-> req[r].entry.provider, left |-> SessionTTL]
      BY <1>2, <2>3 DEF SignIn, Types
    <3>2. AllowedUserOK(req[r].what, UserInfo(req[r].what, u))
      BY <1>2 DEF SignIn
    <3>3. QED
      BY <2>1, <3>1, <3>2 DEF Vetted
  <2>4. CASE s # Min(Sids \ issued)
    BY <1>1, <1>2, <2>2, <2>4 DEF SignIn, Types
  <2>5. QED
    BY <2>3, <2>4
<1>3. ASSUME NEW r \in Reqs, Evict(r) \/ TouchWrite(r) PROVE Vetted(sessions'[s])
  <2>1. req[r].pc = "renew" => Vetted(req[r].entry)
    BY DEF Identity, Identified
  <2>2. sessions'[s] = sessions[s] \/ (TouchWrite(r) /\ sessions'[s] = req[r].entry)
    BY <1>3 DEF Evict, TouchWrite, Types
  <2>3. QED
    BY <1>1, <2>1, <2>2 DEF TouchWrite
<1>4. CASE Tick
  <2>1. sessions[s] # None /\ Vetted(sessions[s]) /\ sessions[s] \in Sessions
    BY <1>4 DEF Tick, Older, Identity, Types
  <2>2. sessions'[s] = [sessions[s] EXCEPT !.left = Less(sessions[s].left, 1)]
    BY <1>4, <2>1 DEF Tick, Older
  <2>3. QED
    BY <2>1, <2>2 DEF Vetted, Sessions
<1>5. CASE Logout \/ Restart
  BY <1>1, <1>5 DEF Logout, Restart, Types
<1>6. CASE UNCHANGED sessions
  BY <1>1, <1>6
<1>7. ASSUME NEW r \in Reqs, LoginStep(r) PROVE Vetted(sessions'[s])
  BY <1>2, <1>6, <1>7 DEF LoginStep, Callback, PopRead, PopDelete, ExchangeFails, Denied, loginVars
<1>8. ASSUME NEW r \in Reqs, AuthStep(r) PROVE Vetted(sessions'[s])
  BY <1>3, <1>6, <1>8 DEF AuthStep, Arrive, Get, TouchRead, Refuse, loginVars
<1>9. ASSUME NEW r \in Reqs, MeterStep(r) \/ SlotStep(r) PROVE Vetted(sessions'[s])
  BY <1>6, <1>9, Frames DEF loginVars
<1>10. CASE (\E p \in Providers : StartLogin(p)) \/ \E doomed \in prunes : Prune(doomed)
  BY <1>6, <1>10, OtherFrames DEF loginVars
<1>11. QED
  BY <1>4, <1>5, <1>7, <1>8, <1>9, <1>10, NextCases DEF Acts

LEMMA IdentityStep ==
    ASSUME Types, Shape, Identity, Next
    PROVE  Identity'
<1>1. SUFFICES ASSUME NEW r \in Reqs PROVE Identified(r)'
  BY VettedStep DEF Identity
<1>2. deployment' = deployment
  BY DeploymentStays
<1>3. Identified(r)
  BY DEF Identity
<1>4. CASE req'[r] = req[r]
  BY <1>2, <1>3, <1>4 DEF Identified, Authenticated, MatchBearer
<1>5. ASSUME NEW q \in Reqs, Acts(q) PROVE Identified(r)'
  <2>1. CASE q # r
    BY <1>4, <1>5, <2>1, OneMoves DEF Types
  <2>2. CASE q = r
    BY <1>5, <2>2, IdentifiedLogin, IdentifiedAuth, IdentifiedGate DEF Acts
  <2>3. QED
    BY <2>1, <2>2
<1>6. CASE Tick
  <2>1. /\ req'[r].pc = req[r].pc /\ req'[r].what = req[r].what /\ req'[r].who = req[r].who
        /\ req[r].pc = "renew" => req'[r].entry = req[r].entry
    BY <1>6, TickKeeps
  <2>2. QED
    BY <1>2, <1>3, <2>1 DEF Identified, Authenticated, MatchBearer
<1>7. CASE Restart
  <2>1. req'[r] = Idle
    BY <1>7 DEF Restart
  <2>2. QED
    BY <2>1 DEF Identified, Idle, Handling
<1>8. CASE UNCHANGED req
  BY <1>4, <1>8
<1>9. QED
  BY <1>5, <1>6, <1>7, <1>8, NextCases DEF StartLogin, Logout, Prune

-----------------------------------------------------------------------------
(* Where the steps of a request lead.                                      *)

LoginPCs == {"idle", "pop", "popped", "exchange"}

LEMMA LoginGoes ==
    ASSUME Types, NEW r \in Reqs, LoginStep(r)
    PROVE  req[r].pc \in LoginPCs /\ req'[r].pc \in LoginPCs
<1> USE DEF LoginPCs
<1>0. req[r] \in ReqRecords /\ req \in [Reqs -> ReqRecords] /\ Idle.pc = "idle"
  BY DEF Types, Idle
<1>1. ASSUME NEW p \in Providers, Callback(r, p) PROVE req[r].pc = "idle" /\ req'[r].pc = "pop"
  BY <1>0, <1>1 DEF Callback, Idle
<1>2. CASE PopRead(r)
  BY <1>0, <1>2 DEF PopRead, Answered, Done, ReqRecords
<1>3. CASE PopDelete(r)
  <2>1. \/ req'[r] = Idle
        \/ \E e : req'[r] = [req[r] EXCEPT !.pc = "exchange", !.entry = e, !.key = None]
    BY <1>0, <1>3 DEF PopDelete, Answered, Done
  <2>2. ASSUME NEW e, req'[r] = [req[r] EXCEPT !.pc = "exchange", !.entry = e, !.key = None]
        PROVE  req'[r].pc = "exchange"
    BY <1>0, <2>2 DEF ReqRecords
  <2>3. QED
    BY <1>0, <1>3, <2>1, <2>2 DEF PopDelete
<1>4. CASE ExchangeFails(r) \/ \E u \in Profiles : Denied(r, u) \/ SignIn(r, u)
  <2>1. req'[r] = Idle /\ req[r].pc = "exchange"
    BY <1>0, <1>4 DEF ExchangeFails, Denied, SignIn, Answered, Done
  <2>2. QED
    BY <1>0, <2>1
<1>5. QED
  BY <1>1, <1>2, <1>3, <1>4 DEF LoginStep

LEMMA OthersGo ==
    ASSUME Types, NEW r \in Reqs
    PROVE  /\ AuthStep(r) =>
                /\ req[r].pc \in {"idle", "get", "admit"} \cup WithSession
                /\ req'[r].pc \in {"idle", "get", "admit"} \cup WithSession
           /\ MeterStep(r) =>
                /\ req[r].pc \in {"admit", "refused", "reserved"}
                /\ req'[r].pc \in {"refused", "reserved", "handle", "idle"}
           /\ SlotStep(r) =>
                /\ req[r].pc \in Handling
                /\ req'[r].pc \in {"sizing", "ingesting", "idle"}
<1>0. req[r] \in ReqRecords /\ req \in [Reqs -> ReqRecords]
  BY DEF Types
<1>1. ASSUME AuthStep(r)
      PROVE  /\ req[r].pc \in {"idle", "get", "admit"} \cup WithSession
             /\ req'[r].pc \in {"idle", "get", "admit"} \cup WithSession
  <2>1. CASE \E q \in deployment.requests : Arrive(r, q)
    BY <1>0, <2>1 DEF Arrive, Idle
  <2>2. CASE Get(r) \/ Evict(r) \/ TouchRead(r) \/ TouchWrite(r) \/ Refuse(r)
    BY <1>0, <2>2
    DEF Get, Evict, TouchRead, TouchWrite, Refuse, Done, Step, Idle, ReqRecords, WithSession
  <2>3. QED
    BY <1>1, <2>1, <2>2 DEF AuthStep
<1>2. ASSUME MeterStep(r)
      PROVE  /\ req[r].pc \in {"admit", "refused", "reserved"}
             /\ req'[r].pc \in {"refused", "reserved", "handle", "idle"}
  BY <1>0, <1>2 DEF MeterStep, Throttle, Reserve, Cancel, Admit, Done, Step, Idle, ReqRecords
<1>3. ASSUME SlotStep(r)
      PROVE  /\ req[r].pc \in Handling
             /\ req'[r].pc \in {"sizing", "ingesting", "idle"}
  BY <1>0, <1>3
  DEF SlotStep, Serve, Busy, Acquire, CheckSize, Ingested, Done, Step, Idle, ReqRecords, Handling
<1>4. QED
  BY <1>1, <1>2, <1>3

-----------------------------------------------------------------------------
(* Whoever logged out.                                                     *)

Renewing(s) == \E r \in Reqs : req[r].pc = "renew" /\ req[r].key = s

LEMMA CookieStep ==
    ASSUME Types, Shape, Logouts, Next
    PROVE  /\ jar'.session # None => jar'.session \in issued'
           /\ issued \subseteq issued'
<1> DEFINE Ok == /\ jar'.session # None => jar'.session \in issued'
                 /\ issued \subseteq issued'
<1>1. jar \in [session : Sids \cup {None}, left : 0..SessionTTL, state : States \cup {None}]
  BY DEF Types
<1>2. CASE issued' = issued /\ jar'.session \in {jar.session, None}
  BY <1>2 DEF Logouts
<1>3. CASE \E p \in Providers : StartLogin(p)
  BY <1>1, <1>2, <1>3 DEF StartLogin
<1>4. CASE Logout
  BY <1>1, <1>2, <1>4 DEF Logout
<1>5. ASSUME NEW r \in Reqs, LoginStep(r) PROVE Ok
  <2>1. CASE \E p \in Providers : Callback(r, p)
    BY <1>2, <2>1 DEF Callback, loginVars
  <2>2. CASE PopRead(r) \/ PopDelete(r) \/ ExchangeFails(r) \/ \E u \in Profiles : Denied(r, u)
    BY <1>1, <1>2, <2>2 DEF PopRead, PopDelete, ExchangeFails, Denied, Answered
  <2>3. ASSUME NEW u \in Profiles, SignIn(r, u) PROVE Ok
    <3>1. jar'.session = Min(Sids \ issued) /\ issued' = issued \cup {Min(Sids \ issued)}
      BY <1>1, <2>3 DEF SignIn, Answered
    <3>2. QED
      BY <3>1
  <2>4. QED
    BY <1>5, <2>1, <2>2, <2>3 DEF LoginStep
<1>6. ASSUME NEW r \in Reqs, AuthStep(r) \/ MeterStep(r) \/ SlotStep(r) PROVE Ok
  BY <1>2, <1>6, Frames DEF loginVars
<1>7. CASE \E doomed \in prunes : Prune(doomed)
  BY <1>2, <1>7 DEF Prune, loginVars
<1>8. CASE Tick
  <2>1. jar'.session \in {jar.session, None}
    BY <1>1, <1>8 DEF Tick
  <2>2. QED
    BY <1>2, <1>8, <2>1 DEF Tick
<1>9. CASE Restart
  BY <1>2, <1>9 DEF Restart
<1>10. QED
  BY <1>3, <1>4, <1>5, <1>6, <1>7, <1>8, <1>9, NextCases DEF Acts

\* A dead id stays dead: no login draws it again, and no request that finds
\* its session puts it back.
LEMMA DeadStep ==
    ASSUME Types, Shape, Next, NEW s \in issued, Dead(s)
    PROVE  Dead(s)'
<1>0. s \in Sids /\ sessions[s] = None /\ ~Renewing(s)
  BY DEF Dead, Renewing, Types
<1>1. SUFFICES sessions'[s] = None /\ ~Renewing(s)'
  BY DEF Dead, Renewing
<1>2. CASE sessions'[s] = sessions[s] /\ UNCHANGED req
  BY <1>0, <1>2 DEF Renewing
<1>3. CASE \E p \in Providers : StartLogin(p)
  BY <1>2, <1>3 DEF StartLogin
<1>4. CASE Logout
  BY <1>0, <1>2, <1>4 DEF Logout, Types
<1>5. ASSUME NEW r \in Reqs, Acts(r) PROVE sessions'[s] = None /\ ~Renewing(s)'
  <2>1. \A q \in Reqs \ {r} : req'[q] = req[q]
    BY <1>5, OneMoves DEF Types
  <2>2. req[r] \in ReqRecords /\ req \in [Reqs -> ReqRecords]
    BY DEF Types
  <2>3. CASE sessions'[s] = sessions[s] /\ req'[r].pc # "renew"
    BY <1>0, <2>1, <2>3 DEF Renewing
  <2>4. CASE LoginStep(r)
    <3>1. req'[r].pc # "renew"
      BY <2>4, LoginGoes DEF LoginPCs
    <3>2. ASSUME NEW u \in Profiles, SignIn(r, u) PROVE sessions'[s] = sessions[s]
      <4>1. Min(Sids \ issued) # s /\ Min(Sids \ issued) \in Sids
        BY <3>2, Drawn DEF SignIn
      <4>2. QED
        BY <1>0, <3>2, <4>1 DEF SignIn, Types
    <3>3. sessions'[s] = sessions[s]
      BY <2>4, <3>2
      DEF LoginStep, Callback, PopRead, PopDelete, ExchangeFails, Denied, loginVars
    <3>4. QED
      BY <2>3, <3>1, <3>3
  <2>5. CASE AuthStep(r)
    <3>1. CASE Evict(r)
      BY <1>0, <2>2, <2>3, <3>1 DEF Evict, Step, Types, ReqRecords
    <3>2. CASE TouchRead(r)
      <4>1. CASE sessions[req[r].key] = None
        <5>1. req'[r].pc = "admit" /\ sessions' = sessions
          BY <2>2, <3>2, <4>1 DEF TouchRead, Step, loginVars, ReqRecords
        <5>2. QED
          BY <2>3, <5>1
      <4>2. CASE sessions[req[r].key] # None
        <5>1. req'[r].key # s /\ sessions' = sessions
          BY <1>0, <2>2, <3>2, <4>2 DEF TouchRead, loginVars, ReqRecords
        <5>2. QED
          BY <1>0, <2>1, <5>1 DEF Renewing
      <4>3. QED
        BY <4>1, <4>2
    <3>3. CASE TouchWrite(r)
      <4>1. req[r].key # s
        BY <1>0, <3>3 DEF TouchWrite, Renewing
      <4>2. QED
        BY <1>0, <2>2, <2>3, <3>3, <4>1 DEF TouchWrite, Types, ReqRecords
    <3>4. ASSUME NEW q \in deployment.requests, Arrive(r, q)
          PROVE  req'[r].pc # "renew" /\ sessions' = sessions
      BY <2>2, <3>4 DEF Arrive, Idle, loginVars
    <3>5. CASE Get(r) \/ Refuse(r)
      BY <2>2, <2>3, <3>5 DEF Get, Refuse, Step, Done, Idle, loginVars, ReqRecords
    <3>6. QED
      BY <2>3, <2>5, <3>1, <3>2, <3>3, <3>4, <3>5 DEF AuthStep
  <2>6. CASE MeterStep(r) \/ SlotStep(r)
    <3>1. req'[r].pc # "renew"
      BY <2>6, OthersGo
    <3>2. sessions' = sessions
      BY <2>6, Frames DEF loginVars
    <3>3. QED
      BY <2>3, <3>1, <3>2
  <2>7. QED
    BY <1>5, <2>4, <2>5, <2>6 DEF Acts
<1>6. CASE \E doomed \in prunes : Prune(doomed)
  BY <1>2, <1>6 DEF Prune, loginVars
<1>7. CASE Tick
  <2>1. sessions'[s] = None
    BY <1>0, <1>7 DEF Tick, Older
  <2>2. \A r \in Reqs : req'[r].pc = req[r].pc /\ req'[r].key = req[r].key
    BY <1>7, TickKeeps
  <2>3. QED
    BY <1>0, <2>1, <2>2 DEF Renewing
<1>8. CASE Restart
  BY <1>0, <1>8 DEF Restart, Renewing, Idle
<1>9. QED
  BY <1>3, <1>4, <1>5, <1>6, <1>7, <1>8, NextCases

LEMMA LogoutsStep ==
    ASSUME Types, Shape, Logouts, Next
    PROVE  Logouts'
<1>1. loggedOut' \subseteq issued'
  <2>1. loggedOut' = loggedOut \/ (Logout /\ loggedOut' = loggedOut \cup {jar.session})
    <3>1. Logout => loggedOut' = loggedOut \cup {jar.session}
      BY DEF Logout
    <3>2. QED
      BY <3>1, NextCases, Frames, OtherFrames DEF Acts, loginVars
  <2>2. QED
    BY <2>1, CookieStep DEF Logouts, Logout
<1>2. ASSUME NEW s \in loggedOut' PROVE s \in straddled' \/ Dead(s)'
  <2>1. CASE Restart
    BY <1>1, <1>2, <2>1 DEF Restart, Dead, Idle, Types
  <2>2. CASE Logout /\ s = jar.session
    <3>1. CASE Renewing(s)
      BY <2>2, <3>1 DEF Logout, Renewing
    <3>2. CASE ~Renewing(s)
      BY <2>2, <3>2 DEF Logout, Renewing, Dead, Types
    <3>3. QED
      BY <3>1, <3>2
  <2>3. CASE ~Restart /\ ~(Logout /\ s = jar.session)
    <3>1. s \in loggedOut /\ straddled \subseteq straddled'
      <4>1. CASE Logout
        BY <1>2, <2>3, <4>1 DEF Logout
      <4>2. CASE ~Logout
        BY <1>2, <2>3, <4>2, NextCases, Frames, OtherFrames DEF Acts, loginVars
      <4>3. QED
        BY <4>1, <4>2
    <3>2. s \in issued /\ (s \in straddled \/ Dead(s))
      BY <3>1 DEF Logouts
    <3>3. QED
      BY <3>1, <3>2, DeadStep
  <2>4. QED
    BY <2>1, <2>2, <2>3
<1>3. QED
  BY <1>1, <1>2, CookieStep DEF Logouts

-----------------------------------------------------------------------------
(* Whoever holds a slot.                                                   *)

Holders == {r \in Reqs : req[r].pc \in {"sizing", "ingesting"}}

LEMMA HoldersFinite == IsFiniteSet(Holders)
BY AssumedTypes, FS_Subset DEF Holders

LEMMA SlotsStep ==
    ASSUME Types, Shape, SlotsBalance, Next
    PROVE  SlotsBalance' /\ slots' \in 0..Slots
<1>1. slots = Cardinality(Holders) /\ slots \in 0..Slots /\ Slots \in Nat
  BY AssumedTypes DEF SlotsBalance, Holders, Types
<1>2. SUFFICES slots' = Cardinality(Holders') /\ slots' \in 0..Slots
  BY DEF SlotsBalance, Holders
<1>3. CASE slots' = slots /\ \A r \in Reqs : r \in Holders' <=> r \in Holders
  <2>1. Holders' = Holders
    BY <1>3 DEF Holders
  <2>2. QED
    BY <1>1, <1>3, <2>1
<1>4. CASE UNCHANGED <<slots, req>>
  BY <1>3, <1>4 DEF Holders
<1>5. ASSUME NEW r \in Reqs, Acts(r) PROVE slots' = Cardinality(Holders') /\ slots' \in 0..Slots
  <2>1. \A q \in Reqs \ {r} : q \in Holders' <=> q \in Holders
    BY <1>5, OneMoves DEF Holders, Types
  <2>2. req[r] \in ReqRecords /\ req \in [Reqs -> ReqRecords]
    BY DEF Types
  <2>3. CASE LoginStep(r) \/ AuthStep(r) \/ MeterStep(r)
    <3>1. r \notin Holders /\ r \notin Holders'
      BY <2>3, LoginGoes, OthersGo DEF Holders, LoginPCs, WithSession
    <3>2. slots' = slots
      BY <2>3, Frames DEF gateVars
    <3>3. QED
      BY <1>3, <2>1, <3>1, <3>2
  <2>4. CASE Serve(r) \/ Busy(r)
    <3>1. r \notin Holders /\ r \notin Holders' /\ slots' = slots
      BY <2>2, <2>4 DEF Serve, Busy, Done, Idle, Holders, gateVars
    <3>2. QED
      BY <1>3, <2>1, <3>1
  <2>5. CASE Acquire(r)
    <3>1. r \notin Holders /\ r \in Holders' /\ slots' = slots + 1 /\ slots < Slots
      BY <2>2, <2>5 DEF Acquire, Step, Holders, ReqRecords
    <3>2. Holders' = Holders \cup {r}
      BY <2>1, <3>1 DEF Holders
    <3>3. Cardinality(Holders') = Cardinality(Holders) + 1
      BY <3>1, <3>2, HoldersFinite, FS_AddElement
    <3>4. QED
      BY <1>1, <3>1, <3>3
  <2>6. ASSUME r \in Holders, r \notin Holders', Release
        PROVE  slots' = Cardinality(Holders') /\ slots' \in 0..Slots
    <3>1. Holders' = Holders \ {r}
      BY <2>1, <2>6 DEF Holders
    <3>2. Cardinality(Holders') = Cardinality(Holders) - 1
      BY <2>6, <3>1, HoldersFinite, FS_RemoveElement
    <3>3. Cardinality(Holders) # 0
      BY <2>6, HoldersFinite, FS_EmptySet
    <3>4. QED
      BY <1>1, <2>6, <3>2, <3>3 DEF Release
  <2>7. CASE Ingested(r)
    BY <2>2, <2>6, <2>7 DEF Ingested, Done, Idle, Holders
  <2>8. CASE CheckSize(r)
    <3>1. CASE req[r].what.ingest = "big"
      BY <2>2, <2>6, <2>8, <3>1 DEF CheckSize, Done, Idle, Holders
    <3>2. CASE req[r].what.ingest # "big"
      <4>1. r \in Holders /\ r \in Holders' /\ slots' = slots
        BY <2>2, <2>8, <3>2 DEF CheckSize, Step, Holders, ReqRecords
      <4>2. QED
        BY <1>3, <2>1, <4>1
    <3>3. QED
      BY <3>1, <3>2
  <2>9. QED
    BY <1>5, <2>3, <2>4, <2>5, <2>7, <2>8 DEF Acts, SlotStep
<1>6. CASE (\E p \in Providers : StartLogin(p)) \/ Logout \/ \E doomed \in prunes : Prune(doomed)
  BY <1>4, <1>6 DEF StartLogin, Logout, Prune, gateVars
<1>7. CASE Tick
  <2>1. \A r \in Reqs : req'[r].pc = req[r].pc
    BY <1>7, TickKeeps
  <2>2. QED
    BY <1>3, <1>7, <2>1 DEF Holders, Tick
<1>8. CASE Restart
  <2>1. Holders' = {} /\ slots' = 0
    BY <1>8 DEF Restart, Holders, Idle
  <2>2. QED
    BY <1>1, <2>1, FS_EmptySet
<1>9. QED
  BY <1>4, <1>5, <1>6, <1>7, <1>8, NextCases

-----------------------------------------------------------------------------
(* The arithmetic of a limiter.                                            *)

LEMMA BucketIsSome ==
    /\ None \notin Buckets
    /\ \A l \in Limiters, n \in 0..(PruneAfter + 1) : Bucket(l, n) \in Buckets
<1>1. Buckets \subseteq [limiter : Limiters, idle : Nat]
  BY AssumedTypes DEF Buckets
<1>2. QED
  BY <1>1, WebAssumption DEF Bucket, Buckets, Limiters

LEMMA LimiterIsTyped ==
    ASSUME Types, NEW ip \in Ips
    PROVE  /\ LimiterOf(ip) \in Limiters
           /\ buckets[ip] # None => /\ buckets[ip] \in Buckets
                                    /\ LimiterOf(ip) = buckets[ip].limiter
           /\ ideal[ip] \in Limiters
BY FullIsTyped DEF Types, LimiterOf, Buckets

LEMMA ReservedFact ==
    ASSUME NEW l \in Limiters, l.tokens <= 0
    PROVE  /\ Reserved(l) \in Limiters
           /\ Lead(l) = 1 - l.tokens
           /\ Reserved(l).tokens = l.tokens - 1
           /\ Reserved(l).event = 1 - l.tokens
BY DEF Reserved, Lead, Limiters

LEMMA TakenFact ==
    ASSUME NEW l \in Limiters
    PROVE  Taken(l) \in Limiters /\ Taken(l).tokens = l.tokens - 1 /\ Taken(l).event = 0
BY DEF Taken, Limiters

\* A cancelled reservation gives its token back if it is the last one.
LEMMA CancelledFact ==
    ASSUME NEW l \in Limiters, l.event = -l.tokens, NEW lead \in 1..l.event
    PROVE  /\ Cancelled(l, lead) = IF l.event = lead
                                   THEN [tokens |-> l.tokens + 1, event |-> l.event - 1]
                                   ELSE l
           /\ Cancelled(l, lead) \in Limiters
<1>0. l.tokens \in Int /\ l.event \in Nat /\ lead \in Nat /\ Burst \in Nat \ {0}
  BY AssumedTypes DEF Limiters
<1>1. CASE l.event = lead
  <2>1. 1 - (l.event - lead) = 1
    BY <1>0, <1>1
  <2>2. Min({Burst, l.tokens + 1}) = l.tokens + 1
    BY <1>0, <1>1, MinOfTwo
  <2>3. Cancelled(l, lead) = [tokens |-> l.tokens + 1, event |-> lead - 1]
    BY <1>1, <2>1, <2>2 DEF Cancelled
  <2>4. QED
    BY <1>0, <1>1, <2>3 DEF Limiters
<1>2. CASE l.event # lead
  <2>1. 1 - (l.event - lead) <= 0
    BY <1>0, <1>2
  <2>2. Cancelled(l, lead) = l
    BY <2>1 DEF Cancelled
  <2>3. QED
    BY <1>2, <2>2
<1>3. QED
  BY <1>1, <1>2

LEMMA RefilledFact ==
    ASSUME NEW l \in Limiters
    PROVE  /\ Refilled(l) \in Limiters
           /\ Refilled(l).tokens = IF Burst <= l.tokens + Rate THEN Burst ELSE l.tokens + Rate
           /\ Refilled(l).event = IF l.event <= Rate THEN 0 ELSE l.event - Rate
<1>0. l.tokens \in Int /\ l.event \in Nat /\ Burst \in Nat /\ Rate \in Nat
  BY AssumedTypes DEF Limiters
<1>1. Min({Burst, l.tokens + Rate}) = IF Burst <= l.tokens + Rate THEN Burst ELSE l.tokens + Rate
  BY <1>0, MinOfTwo
<1>2. QED
  BY <1>0, <1>1 DEF Refilled, Less, Limiters

-----------------------------------------------------------------------------
(* A client's bucket.                                                      *)

\* The request has been refused for want of a token, or reserves one.
At(r, ip) == req[r].pc \in Waiting /\ req[r].what.ip = ip

LEMMA GateHasIp ==
    ASSUME Types, Shape, NEW r \in Reqs, req[r].pc \in Gate
    PROVE  req[r].what \in Requests /\ req[r].what.ip \in Ips
BY DEF Types, Shape, ShapeOf, Requests

\* What the bucket of a client is like that is being refused.
LEMMA WaitingFact ==
    ASSUME Types, Meters, NEW ip \in Ips, Throttled(ip)
    PROVE  /\ buckets[ip] \in Buckets /\ buckets[ip] # None
           /\ buckets[ip].idle = 0
           /\ LimiterOf(ip) = buckets[ip].limiter /\ LimiterOf(ip) \in Limiters
           /\ LimiterOf(ip).tokens \in (-MaxDebt)..0
           /\ LimiterOf(ip).event = -LimiterOf(ip).tokens
           /\ ideal[ip] \in Limiters
           /\ ideal[ip].tokens <= LimiterOf(ip).tokens
<1>1. Metered(ip)
  BY DEF Meters
<1>2. buckets[ip] # None /\ buckets[ip].idle = 0 /\ buckets[ip].limiter.tokens <= 0
  BY <1>1 DEF Metered, RefusalsOf
<1>3. /\ buckets[ip].limiter.tokens \in (-MaxDebt)..Burst
      /\ buckets[ip].limiter.event = Owed(buckets[ip].limiter.tokens)
  BY <1>1, <1>2 DEF Metered, BucketOf
<1>4. /\ LimiterOf(ip) = buckets[ip].limiter /\ LimiterOf(ip) \in Limiters
      /\ buckets[ip] \in Buckets /\ ideal[ip] \in Limiters
  BY <1>2, LimiterIsTyped
<1>5. ideal[ip].tokens <= LimiterOf(ip).tokens
  BY <1>1, <1>4 DEF Metered, Limiters
<1>6. QED
  BY <1>2, <1>3, <1>4, <1>5, AssumedTypes DEF Owed

LEMMA ReservedLead ==
    ASSUME Types, Meters, NEW ip \in Ips, NEW r \in Refusals(ip)
    PROVE  /\ Throttled(ip)
           /\ req[r].entry \in 1..LimiterOf(ip).event
           /\ ideal[ip].event = -ideal[ip].tokens
           /\ req[r].entry \in 1..ideal[ip].event
<1>1. Throttled(ip) /\ Metered(ip)
  BY DEF Refusals, Throttled, Waiting, Meters
<1>2. /\ req[r].entry \in 1..LimiterOf(ip).event
      /\ ideal[ip].event = -ideal[ip].tokens
  BY <1>1, WaitingFact DEF Metered, RefusalsOf
<1>3. /\ LimiterOf(ip).event = -LimiterOf(ip).tokens
      /\ LimiterOf(ip).tokens \in Int /\ ideal[ip].tokens \in Int
      /\ ideal[ip].tokens <= LimiterOf(ip).tokens
  BY <1>1, WaitingFact DEF Limiters
<1>4. QED
  BY <1>1, <1>2, <1>3

\* What the meters say of a client is about its bucket and its refusals only.
LEMMA QuietKeeps ==
    ASSUME Types, NEW ip \in Ips, Metered(ip),
           buckets'[ip] = buckets[ip], ideal'[ip] = ideal[ip],
           ip \in crossed' <=> ip \in crossed,
           \A r \in Reqs : req'[r] = req[r] \/ (~At(r, ip) /\ ~At(r, ip)'),
           \A p \in prunes' : ip \in p /\ buckets[ip] # None =>
                (\E o \in prunes : ip \in o) \/ buckets[ip].idle > PruneAfter
    PROVE  Metered(ip)'
<1>1. LimiterOf(ip)' = LimiterOf(ip)
  BY DEF LimiterOf
<1>2. \A r \in Reqs : At(r, ip)' <=> At(r, ip)
  BY DEF At
<1>3. Throttled(ip)' <=> Throttled(ip)
  BY <1>2 DEF At, Throttled
<1>4. Refusals(ip)' = Refusals(ip)
  BY DEF Refusals, At, Waiting
<1>5. \A r \in Refusals(ip) : req'[r] = req[r]
  BY DEF Refusals, At, Waiting
<1>6. BucketOf(ip)' /\ Unseen(ip)'
  BY DEF Metered, BucketOf, Unseen
<1>7. RefusalsOf(ip)'
  BY <1>3, <1>4, <1>5 DEF Metered, RefusalsOf
<1>8. ip \notin crossed' => Lone(ip)'
  BY <1>1, <1>4 DEF Metered, Lone
<1>9. QED
  BY <1>1, <1>6, <1>7, <1>8 DEF Metered

GateTypes ==
    /\ buckets \in [Ips -> Buckets \cup {None}]
    /\ prunes \subseteq SUBSET Ips
    /\ ideal \in [Ips -> Limiters]

LEMMA AllowTypes ==
    ASSUME Types, NEW ip \in Ips, NEW l \in Limiters, Allow(ip, l)
    PROVE  /\ buckets' \in [Ips -> Buckets \cup {None}]
           /\ prunes' \subseteq SUBSET Ips
<1>1. Bucket(l, 0) \in Buckets
  BY BucketIsSome, AssumedTypes
<1>2. Doomed(ip) \subseteq Ips
  BY DEF Doomed
<1>3. QED
  BY <1>1, <1>2 DEF Allow, Types

LEMMA GateTypesStep ==
    ASSUME Types, Shape, Meters, Next
    PROVE  GateTypes'
<1> USE DEF GateTypes
<1>0. GateTypes
  BY DEF Types
<1>1. CASE UNCHANGED <<buckets, prunes, ideal>>
  BY <1>0, <1>1
<1>2. ASSUME NEW r \in Reqs, Throttle(r) PROVE GateTypes'
  <2>1. req[r].what.ip \in Ips
    BY <1>2, GateHasIp DEF Throttle, Gate
  <2>2. LimiterOf(req[r].what.ip) \in Limiters
    BY <2>1, LimiterIsTyped
  <2>3. QED
    BY <1>0, <1>2, <2>1, <2>2, AllowTypes DEF Throttle
<1>3. ASSUME NEW r \in Reqs, Admit(r) PROVE GateTypes'
  <2>1. req[r].what.ip \in Ips
    BY <1>3, GateHasIp DEF Admit, Gate
  <2>2. /\ Taken(LimiterOf(req[r].what.ip)) \in Limiters
        /\ Taken(ideal[req[r].what.ip]) \in Limiters
    BY <2>1, LimiterIsTyped, TakenFact
  <2>3. QED
    BY <1>0, <1>3, <2>1, <2>2, AllowTypes DEF Admit
<1>4. ASSUME NEW r \in Reqs, Reserve(r) PROVE GateTypes'
  <2> DEFINE ip == req[r].what.ip
  <2>1. ip \in Ips /\ Throttled(ip)
    BY <1>4, GateHasIp DEF Reserve, Gate, Waiting, Throttled
  <2>2. buckets[ip] \in Buckets /\ Reserved(buckets[ip].limiter) \in Limiters
    BY <2>1, WaitingFact, ReservedFact
  <2>3. Reserved(ideal[ip]) \in Limiters
    <3>1. ideal[ip].tokens <= 0
      BY <2>1, WaitingFact DEF Limiters
    <3>2. QED
      BY <2>1, <3>1, WaitingFact, ReservedFact
  <2>4. [buckets[ip] EXCEPT !.limiter = Reserved(buckets[ip].limiter)] \in Buckets
    BY <2>2 DEF Buckets
  <2>5. /\ buckets' = [buckets EXCEPT ![ip] =
                            [buckets[ip] EXCEPT !.limiter = Reserved(buckets[ip].limiter)]]
        /\ ideal' = [ideal EXCEPT ![ip] = Reserved(ideal[ip])]
        /\ prunes' = prunes
    BY <1>4 DEF Reserve
  <2> HIDE DEF ip
  <2>6. QED
    BY <1>0, <2>1, <2>3, <2>4, <2>5
<1>5. ASSUME NEW r \in Reqs, Cancel(r) PROVE GateTypes'
  <2> DEFINE ip == req[r].what.ip
             lead == req[r].entry
  <2>1. ip \in Ips /\ r \in Refusals(ip)
    BY <1>5, GateHasIp DEF Cancel, Gate, Waiting, Refusals
  <2>2. /\ Throttled(ip) /\ lead \in 1..LimiterOf(ip).event
        /\ ideal[ip].event = -ideal[ip].tokens /\ lead \in 1..ideal[ip].event
    BY <2>1, ReservedLead
  <2>3. /\ buckets[ip] \in Buckets
        /\ Cancelled(buckets[ip].limiter, lead) \in Limiters
        /\ Cancelled(ideal[ip], lead) \in Limiters
    BY <2>1, <2>2, WaitingFact, CancelledFact
  <2>4. [buckets[ip] EXCEPT !.limiter = Cancelled(buckets[ip].limiter, lead)] \in Buckets
    BY <2>3 DEF Buckets
  <2>5. /\ buckets' = [buckets EXCEPT ![ip] =
                            [buckets[ip] EXCEPT !.limiter = Cancelled(buckets[ip].limiter, lead)]]
        /\ ideal' = [ideal EXCEPT ![ip] = Cancelled(ideal[ip], lead)]
        /\ prunes' = prunes
    BY <1>5 DEF Cancel
  <2> HIDE DEF ip, lead
  <2>6. QED
    BY <1>0, <2>1, <2>3, <2>4, <2>5
<1>6. CASE \E doomed \in prunes : Prune(doomed)
  BY <1>0, <1>6 DEF Prune
<1>7. CASE Tick
  <2>1. ASSUME NEW ip \in Ips, buckets[ip] # None
        PROVE  Bucket(Refilled(buckets[ip].limiter), Min({buckets[ip].idle + 1, PruneAfter + 1}))
                    \in Buckets
    <3>1. buckets[ip].limiter \in Limiters /\ buckets[ip].idle \in 0..(PruneAfter + 1)
      BY <2>1, LimiterIsTyped DEF Buckets
    <3>2. Min({buckets[ip].idle + 1, PruneAfter + 1}) \in 0..(PruneAfter + 1)
      BY <3>1, MinOfTwo, AssumedTypes
    <3>3. QED
      BY <3>1, <3>2, RefilledFact, BucketIsSome
  <2>2. \A ip \in Ips : Refilled(ideal[ip]) \in Limiters
    BY <1>0, RefilledFact
  <2>3. QED
    BY <1>0, <1>7, <2>1, <2>2 DEF Tick
<1>8. CASE Restart
  BY <1>8, FullIsTyped DEF Restart
<1>9. ASSUME NEW r \in Reqs, Acts(r) PROVE GateTypes'
  <2>1. CASE LoginStep(r) \/ AuthStep(r) \/ SlotStep(r)
    BY <1>1, <2>1, Frames DEF gateVars
  <2>2. CASE MeterStep(r)
    BY <1>2, <1>3, <1>4, <1>5, <2>2 DEF MeterStep
  <2>3. QED
    BY <1>9, <2>1, <2>2 DEF Acts
<1>10. CASE (\E p \in Providers : StartLogin(p)) \/ Logout
  BY <1>1, <1>10, OtherFrames DEF gateVars
<1>11. QED
  BY <1>6, <1>7, <1>8, <1>9, <1>10, NextCases

-----------------------------------------------------------------------------
(* What a step does to a client's bucket.                                  *)

\* A client is seen: whatever was to be pruned, its bucket is not.
LEMMA AllowKeeps ==
    ASSUME Types, NEW ip \in Ips, NEW l \in Limiters, Allow(ip, l)
    PROVE  /\ buckets'[ip] = Bucket(l, 0) /\ buckets'[ip] # None
           /\ LimiterOf(ip)' = l
           /\ Unseen(ip)'
           /\ \A i \in Ips \ {ip} :
                /\ buckets'[i] = buckets[i]
                /\ \A p \in prunes' : i \in p /\ buckets[i] # None =>
                        (\E o \in prunes : i \in o) \/ buckets[i].idle > PruneAfter
<1>1. buckets'[ip] = Bucket(l, 0) /\ \A i \in Ips \ {ip} : buckets'[i] = buckets[i]
  BY DEF Allow, Types
<1>2. Bucket(l, 0) # None
  BY BucketIsSome, AssumedTypes
<1>3. PICK launched \in {{}, Doomed(ip)} : prunes' = ({p \ {ip} : p \in prunes} \cup {launched}) \ {{}}
  BY DEF Allow
<1>4. \A p \in prunes' : ip \notin p
  BY <1>3 DEF Doomed
<1>5. ASSUME NEW i \in Ips \ {ip}, NEW p \in prunes', i \in p, buckets[i] # None
      PROVE  (\E o \in prunes : i \in o) \/ buckets[i].idle > PruneAfter
  BY <1>3, <1>5 DEF Doomed
<1>6. QED
  BY <1>1, <1>2, <1>4, <1>5 DEF LimiterOf, Bucket, Unseen

LEMMA ThrottleMeters ==
    ASSUME Types, Shape, Meters, NEW r \in Reqs, Throttle(r), NEW i \in Ips
    PROVE  Metered(i)'
<1> DEFINE ip == req[r].what.ip
<1>0. Metered(i) /\ req \in [Reqs -> ReqRecords]
  BY DEF Meters, Types
<1>1. /\ ip \in Ips /\ LimiterOf(ip) \in Limiters /\ LimiterOf(ip).tokens <= 0
      /\ Allow(ip, LimiterOf(ip)) /\ ideal' = ideal /\ crossed' = crossed
      /\ req' = [req EXCEPT ![r].pc = "refused"] /\ req[r].pc = "admit"
  BY GateHasIp, LimiterIsTyped DEF Throttle, Step, Gate
<1>2. /\ req'[r].pc = "refused" /\ req'[r].what = req[r].what
      /\ \A q \in Reqs \ {r} : req'[q] = req[q]
  BY <1>0, <1>1 DEF ReqRecords
<1> HIDE DEF ip
<1>3. CASE i # ip
  <2>1. \A q \in Reqs : req'[q] = req[q] \/ (~At(q, i) /\ ~At(q, i)')
    BY <1>1, <1>2, <1>3 DEF At, ip, Waiting
  <2>2. QED
    BY <1>0, <1>1, <1>3, <2>1, AllowKeeps, QuietKeeps
<1>4. CASE i = ip
  <2>1. buckets[i] # None
    BY <1>1, <1>4, AssumedTypes DEF LimiterOf, FullLimiter
  <2>2. /\ buckets'[i] = Bucket(LimiterOf(i), 0) /\ buckets'[i] # None
        /\ LimiterOf(i)' = LimiterOf(i) /\ Unseen(i)'
    BY <1>1, <1>4, AllowKeeps
  <2>3. buckets'[i].limiter = LimiterOf(i) /\ buckets'[i].idle = 0
    BY <2>2 DEF Bucket
  <2>4. LimiterOf(i) = buckets[i].limiter
    BY <2>1 DEF LimiterOf
  <2>5. Refusals(i)' = Refusals(i) /\ \A q \in Refusals(i) : req'[q] = req[q]
    BY <1>1, <1>2 DEF Refusals
  <2>6. BucketOf(i)' /\ RefusalsOf(i)'
    BY <1>0, <1>1, <1>4, <2>1, <2>2, <2>3, <2>4, <2>5 DEF Metered, BucketOf, RefusalsOf
  <2>7. i \notin crossed' => Lone(i)'
    BY <1>0, <1>1, <2>2, <2>3, <2>5 DEF Metered, Lone
  <2>8. QED
    BY <1>0, <1>1, <2>2, <2>6, <2>7 DEF Metered
<1>5. QED
  BY <1>3, <1>4

LEMMA AdmitMeters ==
    ASSUME Types, Shape, Meters, NEW r \in Reqs, Admit(r), NEW i \in Ips
    PROVE  Metered(i)'
<1> DEFINE ip == req[r].what.ip
<1>0. Metered(i) /\ req \in [Reqs -> ReqRecords]
  BY DEF Meters, Types
<1>1. /\ ip \in Ips /\ LimiterOf(ip) \in Limiters /\ ideal[ip] \in Limiters
      /\ req' = [req EXCEPT ![r].pc = "handle"] /\ req[r].pc = "admit" /\ crossed' = crossed
  BY GateHasIp, LimiterIsTyped DEF Admit, Step, Gate
<1>2. \A q \in Reqs : req'[q] = req[q] \/ (~At(q, i) /\ ~At(q, i)')
  BY <1>0, <1>1 DEF At, Waiting, ReqRecords
<1>3. CASE UNCHANGED <<buckets, prunes, ideal>>
  BY <1>0, <1>1, <1>2, <1>3, QuietKeeps
<1>4. CASE /\ LimiterOf(ip).tokens > 0
           /\ Allow(ip, Taken(LimiterOf(ip)))
           /\ ideal' = [ideal EXCEPT ![ip] = Taken(ideal[ip])]
  <2> HIDE DEF ip
  <2>0. Taken(LimiterOf(ip)) \in Limiters
    BY <1>1, TakenFact
  <2>1. CASE i # ip
    <3>1. ideal'[i] = ideal[i]
      BY <1>4, <2>1 DEF Types
    <3>2. QED
      BY <1>0, <1>1, <1>2, <1>4, <2>0, <2>1, <3>1, AllowKeeps, QuietKeeps
  <2>2. CASE i = ip
    <3> DEFINE l == LimiterOf(i)
    <3>1. l \in Limiters /\ l.tokens \in Nat \ {0} /\ l.tokens <= Burst
      <4>1. l \in Limiters /\ l.tokens > 0
        BY <1>1, <1>4, <2>2
      <4>2. l.tokens <= Burst
        BY <1>0, AssumedTypes DEF Metered, BucketOf, LimiterOf, FullLimiter
      <4>3. QED
        BY <4>1, <4>2 DEF Limiters
    <3>2. ~Throttled(i)
      <4>1. Throttled(i) => l.tokens <= 0
        BY WaitingFact, AssumedTypes
      <4>2. QED
        BY <3>1, <4>1
    <3>3. ~Throttled(i)' /\ Refusals(i)' = {}
      BY <1>2, <3>2 DEF Throttled, Refusals, At, Waiting
    <3>4. /\ buckets'[i] = Bucket(Taken(l), 0) /\ LimiterOf(i)' = Taken(l) /\ Unseen(i)'
      BY <1>1, <1>4, <2>0, <2>2, AllowKeeps
    <3>5. buckets'[i].limiter = Taken(l) /\ buckets'[i].idle = 0
      BY <3>4 DEF Bucket
    <3>6. Taken(l).tokens = l.tokens - 1 /\ Taken(l).event = 0
      BY <3>1, TakenFact
    <3>7. ideal'[i] = Taken(ideal[i])
      BY <1>4, <2>2 DEF Types
    <3>8. Taken(ideal[i]).tokens = ideal[i].tokens - 1 /\ ideal[i].tokens \in Int
      BY <1>1, <2>2, TakenFact DEF Limiters
    <3> HIDE DEF l
    <3>9. BucketOf(i)'
      BY <3>1, <3>5, <3>6, AssumedTypes DEF BucketOf, Owed
    <3>10. RefusalsOf(i)'
      BY <3>3 DEF RefusalsOf
    <3>11. LimiterOf(i)'.tokens >= ideal'[i].tokens
      BY <1>0, <3>1, <3>4, <3>6, <3>7, <3>8 DEF Metered, l
    <3>12. i \notin crossed' => Lone(i)'
      <4>1. RefillsInTime /\ i \notin crossed' => Taken(l) = Taken(ideal[i])
        BY <1>0, <1>1 DEF Metered, Lone, l
      <4>2. QED
        BY <3>1, <3>3, <3>4, <3>5, <3>6, <3>7, <4>1 DEF Lone
    <3>13. QED
      BY <3>4, <3>9, <3>10, <3>11, <3>12 DEF Metered
  <2>3. QED
    BY <2>1, <2>2
<1>5. QED
  BY <1>3, <1>4 DEF Admit

LEMMA ReserveMeters ==
    ASSUME Types, Shape, Meters, NEW r \in Reqs, Reserve(r), NEW i \in Ips
    PROVE  Metered(i)'
<1> DEFINE ip == req[r].what.ip
<1>0. Metered(i) /\ req \in [Reqs -> ReqRecords]
  BY DEF Meters, Types
<1>1. /\ ip \in Ips /\ Throttled(ip) /\ req[r].pc = "refused"
      /\ LimiterOf(ip).tokens > -MaxDebt
      /\ buckets' = [buckets EXCEPT ![ip] =
                          [buckets[ip] EXCEPT !.limiter = Reserved(buckets[ip].limiter)]]
      /\ ideal' = [ideal EXCEPT ![ip] = Reserved(ideal[ip])]
      /\ req' = [req EXCEPT ![r].pc = "reserved", ![r].entry = Lead(LimiterOf(ip))]
      /\ crossed' = IF Refusals(ip) # {} THEN crossed \cup {ip} ELSE crossed
      /\ prunes' = prunes
  BY GateHasIp DEF Reserve, Gate, Waiting, Throttled
<1>2. /\ req'[r].pc = "reserved" /\ req'[r].what = req[r].what
      /\ req'[r].entry = Lead(LimiterOf(ip))
      /\ \A q \in Reqs \ {r} : req'[q] = req[q]
  BY <1>0, <1>1 DEF ReqRecords
<1>3. CASE i # ip
  <2>1. \A q \in Reqs : req'[q] = req[q] \/ (~At(q, i) /\ ~At(q, i)')
    BY <1>1, <1>2, <1>3 DEF At, Waiting
  <2>2. buckets'[i] = buckets[i] /\ ideal'[i] = ideal[i] /\ (i \in crossed' <=> i \in crossed)
    BY <1>1, <1>3 DEF Types
  <2>3. QED
    BY <1>0, <1>1, <2>1, <2>2, QuietKeeps
<1>4. CASE i = ip
  <2> HIDE DEF ip
  <2> DEFINE l == LimiterOf(i)
  <2>1. /\ buckets[i] \in Buckets /\ buckets[i].idle = 0 /\ l = buckets[i].limiter
        /\ l \in Limiters /\ l.tokens \in (-MaxDebt)..0 /\ l.event = -l.tokens
        /\ ideal[i] \in Limiters /\ ideal[i].tokens <= l.tokens
    BY <1>1, <1>4, WaitingFact
  <2>2. /\ l.tokens \in Int /\ ideal[i].tokens \in Int /\ ideal[i].tokens <= 0
    BY <2>1 DEF Limiters
  <2>3. /\ Reserved(l) \in Limiters /\ Lead(l) = 1 - l.tokens
        /\ Reserved(l).tokens = l.tokens - 1 /\ Reserved(l).event = 1 - l.tokens
        /\ Reserved(ideal[i]).tokens = ideal[i].tokens - 1
        /\ Reserved(ideal[i]).event = 1 - ideal[i].tokens
    BY <2>1, <2>2, ReservedFact
  <2>4. /\ buckets'[i] = [buckets[i] EXCEPT !.limiter = Reserved(l)]
        /\ ideal'[i] = Reserved(ideal[i])
    BY <1>1, <1>4, <2>1 DEF Types
  <2>5. /\ buckets'[i].limiter = Reserved(l) /\ buckets'[i].idle = 0 /\ buckets'[i] # None
    <3>1. buckets'[i] \in Buckets
      BY <2>1, <2>3, <2>4 DEF Buckets
    <3>2. QED
      BY <2>1, <2>4, <3>1, BucketIsSome DEF Buckets
  <2>6. LimiterOf(i)' = Reserved(l)
    BY <2>5 DEF LimiterOf
  <2>7. /\ Refusals(i)' = Refusals(i) \cup {r} /\ r \notin Refusals(i)
        /\ \A q \in Refusals(i) : q # r /\ req'[q] = req[q]
    BY <1>1, <1>2, <1>4 DEF Refusals, ip
  <2>8. \A q \in Refusals(i) : req[q].entry \in 1..l.event
    BY <1>4, ReservedLead
  <2>9. req'[r].entry = 1 - l.tokens
    BY <1>2, <1>4, <2>3
  <2>10. -MaxDebt < l.tokens
    BY <1>1, <1>4, <2>2, AssumedTypes
  <2> HIDE DEF l
  <2>11. BucketOf(i)'
    BY <2>1, <2>2, <2>3, <2>5, <2>10, AssumedTypes DEF BucketOf, Owed
  <2>12. RefusalsOf(i)'
    <3>1. buckets'[i].limiter.tokens <= 0
      BY <2>1, <2>2, <2>3, <2>5
    <3>2. ideal'[i].event = -ideal'[i].tokens
      BY <2>2, <2>3, <2>4
    <3>3. ASSUME NEW q \in Refusals(i)' PROVE req'[q].entry \in 1..buckets'[i].limiter.event
      BY <2>1, <2>2, <2>3, <2>5, <2>7, <2>8, <2>9, <3>3
    <3>4. ASSUME NEW p \in Refusals(i)', NEW q \in Refusals(i)', req'[q].entry = req'[p].entry
          PROVE  q = p
      <4>1. CASE p = r \/ q = r
        BY <2>1, <2>2, <2>7, <2>8, <2>9, <3>4, <4>1
      <4>2. CASE p # r /\ q # r
        BY <1>0, <2>7, <3>4, <4>2 DEF Metered, RefusalsOf
      <4>3. QED
        BY <4>1, <4>2
    <3>5. QED
      BY <2>5, <3>1, <3>2, <3>3, <3>4 DEF RefusalsOf
  <2>13. LimiterOf(i)'.tokens >= ideal'[i].tokens
    BY <2>1, <2>2, <2>3, <2>4, <2>6
  <2>14. Unseen(i)'
    BY <1>0, <1>1, <2>1, BucketIsSome, AssumedTypes DEF Metered, Unseen
  <2>15. i \notin crossed' => Lone(i)'
    <3> SUFFICES ASSUME i \notin crossed' PROVE Lone(i)'
      OBVIOUS
    <3>1. i \notin crossed /\ Refusals(i) = {}
      BY <1>1, <1>4
    <3>2. (RefillsInTime => l = ideal[i]) /\ l.tokens >= 0
      BY <1>0, <3>1 DEF Metered, Lone, l
    <3>3. /\ Refusals(i)' = {r} /\ LimiterOf(i)'.tokens = l.tokens - 1
          /\ RefillsInTime => LimiterOf(i)' = ideal'[i]
      BY <2>3, <2>4, <2>6, <2>7, <3>1, <3>2
    <3>4. LimiterOf(i)'.tokens >= -1
      BY <2>2, <3>2, <3>3
    <3>5. QED
      BY <2>5, <3>3, <3>4 DEF Lone
  <2>16. QED
    BY <2>11, <2>12, <2>13, <2>14, <2>15 DEF Metered
<1>5. QED
  BY <1>3, <1>4

LEMMA CancelMeters ==
    ASSUME Types, Shape, Meters, NEW r \in Reqs, Cancel(r), NEW i \in Ips
    PROVE  Metered(i)'
<1> DEFINE ip == req[r].what.ip
           lead == req[r].entry
<1>0. Metered(i) /\ req \in [Reqs -> ReqRecords]
  BY DEF Meters, Types
<1>1. /\ ip \in Ips /\ r \in Refusals(ip)
      /\ buckets' = [buckets EXCEPT ![ip] =
                          [buckets[ip] EXCEPT !.limiter = Cancelled(buckets[ip].limiter, lead)]]
      /\ ideal' = [ideal EXCEPT ![ip] = Cancelled(ideal[ip], lead)]
      /\ req' = [req EXCEPT ![r] = Idle]
      /\ UNCHANGED <<crossed, prunes>>
  BY GateHasIp DEF Cancel, Done, Gate, Waiting, Refusals
<1>2. req'[r].pc = "idle" /\ \A q \in Reqs \ {r} : req'[q] = req[q]
  BY <1>0, <1>1 DEF Idle
<1>3. CASE i # ip
  <2>1. \A q \in Reqs : req'[q] = req[q] \/ (~At(q, i) /\ ~At(q, i)')
    BY <1>1, <1>2, <1>3 DEF At, Waiting
  <2>2. buckets'[i] = buckets[i] /\ ideal'[i] = ideal[i]
    BY <1>1, <1>3 DEF Types
  <2>3. QED
    BY <1>0, <1>1, <2>1, <2>2, QuietKeeps
<1>4. CASE i = ip
  <2> HIDE DEF ip, lead
  <2> DEFINE l == LimiterOf(i)
  <2>1. /\ Throttled(i) /\ lead \in 1..l.event
        /\ ideal[i].event = -ideal[i].tokens /\ lead \in 1..ideal[i].event
    BY <1>1, <1>4, ReservedLead DEF lead
  <2>2. /\ buckets[i] \in Buckets /\ buckets[i].idle = 0 /\ l = buckets[i].limiter
        /\ l \in Limiters /\ l.tokens \in (-MaxDebt)..0 /\ l.event = -l.tokens
        /\ ideal[i] \in Limiters /\ ideal[i].tokens <= l.tokens
    BY <2>1, WaitingFact
  <2>3. /\ l.tokens \in Int /\ ideal[i].tokens \in Int /\ l.event \in Nat /\ ideal[i].event \in Nat
        /\ lead \in Nat \ {0}
    BY <2>1, <2>2 DEF Limiters
  <2> DEFINE given == [tokens |-> l.tokens + 1, event |-> l.event - 1]
             givenIdeal == [tokens |-> ideal[i].tokens + 1, event |-> ideal[i].event - 1]
  <2>4. /\ Cancelled(l, lead) = IF l.event = lead THEN given ELSE l
        /\ Cancelled(l, lead) \in Limiters
    BY <2>1, <2>2, CancelledFact
  <2>5. Cancelled(ideal[i], lead) = IF ideal[i].event = lead THEN givenIdeal ELSE ideal[i]
    BY <2>1, <2>2, CancelledFact
  <2>6. /\ buckets'[i] = [buckets[i] EXCEPT !.limiter = Cancelled(l, lead)]
        /\ ideal'[i] = Cancelled(ideal[i], lead)
    BY <1>1, <1>4, <2>2 DEF Types
  <2>7. buckets'[i].limiter = Cancelled(l, lead) /\ buckets'[i].idle = 0 /\ buckets'[i] # None
    <3>1. buckets'[i] \in Buckets
      BY <2>2, <2>4, <2>6 DEF Buckets
    <3>2. QED
      BY <2>2, <2>6, <3>1, BucketIsSome DEF Buckets
  <2>8. LimiterOf(i)' = Cancelled(l, lead)
    BY <2>7 DEF LimiterOf
  <2>9. /\ Refusals(i)' = Refusals(i) \ {r} /\ r \in Refusals(i)
        /\ \A q \in Refusals(i)' : req'[q] = req[q]
    BY <1>1, <1>2, <1>4 DEF Refusals
  <2>10. /\ \A q \in Refusals(i) : req[q].entry \in 1..l.event
         /\ \A p, q \in Refusals(i) : req[q].entry = req[p].entry => q = p
    <3>1. \A q \in Refusals(i) : req[q].entry \in 1..l.event
      BY ReservedLead
    <3>2. QED
      BY <1>0, <3>1 DEF Metered, RefusalsOf
  \* The token is given back to both, to the kept bucket only, or to neither.
  <2>11. \/ /\ LimiterOf(i)' = given /\ l.event = lead
            /\ ideal'[i] = givenIdeal /\ ideal[i].event = lead
         \/ /\ LimiterOf(i)' = given /\ l.event = lead
            /\ ideal'[i] = ideal[i] /\ ideal[i].event > lead
         \/ /\ LimiterOf(i)' = l /\ l.event > lead
            /\ ideal'[i] = ideal[i] /\ ideal[i].event > lead
    BY <2>1, <2>2, <2>3, <2>4, <2>5, <2>6, <2>8
  <2>12. /\ given.tokens = l.tokens + 1 /\ given.event = l.event - 1
         /\ givenIdeal.tokens = ideal[i].tokens + 1 /\ givenIdeal.event = ideal[i].event - 1
    OBVIOUS
  <2>13. l = ideal[i] => LimiterOf(i)' = ideal'[i]
    BY <2>6, <2>8
  <2>14. buckets'[i].limiter = LimiterOf(i)'
    BY <2>7, <2>8
  <2> HIDE DEF l, given, givenIdeal
  <2>15. /\ LimiterOf(i)'.tokens \in (-MaxDebt)..0
         /\ LimiterOf(i)'.event = -LimiterOf(i)'.tokens
         /\ ideal'[i].event = -ideal'[i].tokens
         /\ LimiterOf(i)'.tokens >= ideal'[i].tokens
    BY <2>1, <2>2, <2>3, <2>11, <2>12, AssumedTypes
  <2>16. BucketOf(i)'
    BY <2>14, <2>15, AssumedTypes DEF BucketOf, Owed
  <2>17. RefusalsOf(i)'
    <3>1. ASSUME NEW q \in Refusals(i)' PROVE req'[q].entry \in 1..LimiterOf(i)'.event
      <4>1. req'[q].entry \in 1..l.event /\ req'[q].entry # lead
        BY <2>9, <2>10, <3>1 DEF lead
      <4>2. QED
        BY <2>1, <2>3, <2>11, <2>12, <4>1
    <3>2. \A p, q \in Refusals(i)' : req'[q].entry = req'[p].entry => q = p
      BY <2>9, <2>10
    <3>3. buckets'[i].limiter.tokens <= 0
      BY <2>14, <2>15, AssumedTypes
    <3>4. QED
      BY <2>7, <2>14, <2>15, <3>1, <3>2, <3>3 DEF RefusalsOf
  <2>18. Unseen(i)'
    BY <1>0, <1>1, <2>2, BucketIsSome, AssumedTypes DEF Metered, Unseen
  <2>19. i \notin crossed' => Lone(i)'
    <3> SUFFICES ASSUME i \notin crossed' PROVE Lone(i)'
      OBVIOUS
    <3>1. Lone(i)
      BY <1>0, <1>1 DEF Metered
    <3>2. /\ RefillsInTime => l = ideal[i]
          /\ l.tokens >= -1 /\ \A p, q \in Refusals(i) : q = p
      BY <3>1 DEF Lone, l
    <3>3. Refusals(i)' = {}
      BY <2>9, <3>2
    <3>4. l.tokens = -1 /\ l.event = lead
      BY <2>1, <2>2, <2>3, <3>2
    <3>5. LimiterOf(i)'.tokens = 0
      BY <2>3, <2>11, <2>12, <3>4
    <3>6. QED
      BY <2>7, <2>13, <3>2, <3>3, <3>5 DEF Lone
  <2>20. QED
    BY <2>15, <2>16, <2>17, <2>18, <2>19 DEF Metered
<1>5. QED
  BY <1>3, <1>4

\* What is pruned is full if it refills in time, and the bucket that replaces it
\* is.
LEMMA PruneMeters ==
    ASSUME Types, Meters, NEW doomed \in prunes, Prune(doomed), NEW i \in Ips
    PROVE  Metered(i)'
<1>0. Metered(i) /\ prunes' = prunes \ {doomed} /\ UNCHANGED <<req, ideal, crossed>>
  BY DEF Meters, Prune
<1>1. CASE i \notin doomed \/ buckets[i] = None
  <2>1. buckets'[i] = buckets[i]
    BY <1>1 DEF Prune
  <2>2. QED
    BY <1>0, <2>1, QuietKeeps
<1>2. CASE i \in doomed /\ buckets[i] # None
  <2>1. buckets'[i] = None
    BY <1>2 DEF Prune
  <2>2. LimiterOf(i)' = FullLimiter
    BY <2>1 DEF LimiterOf
  <2>3. buckets[i].idle > PruneAfter /\ buckets[i].idle \in 0..(PruneAfter + 1)
    BY <1>0, <1>2, LimiterIsTyped DEF Metered, Unseen, Buckets
  <2>4. buckets[i].idle = PruneAfter + 1
    BY <2>3, AssumedTypes
  <2>5. ~Throttled(i) /\ Refusals(i) = {}
    <3>1. ~Throttled(i)
      BY <2>4, WaitingFact, AssumedTypes
    <3>2. QED
      BY <3>1 DEF Throttled, Refusals, Waiting
  <2>6. ~Throttled(i)' /\ Refusals(i)' = {}
    BY <1>0, <2>5 DEF Throttled, Refusals
  <2>7. /\ buckets[i].limiter \in Limiters /\ LimiterOf(i) = buckets[i].limiter
        /\ ideal[i] \in Limiters
        /\ LimiterOf(i).tokens \in (-MaxDebt)..Burst
        /\ LimiterOf(i).event = Owed(LimiterOf(i).tokens)
    BY <1>0, <1>2, LimiterIsTyped DEF Metered, BucketOf, Buckets
  <2>8. LimiterOf(i)'.tokens >= ideal'[i].tokens
    BY <1>0, <2>2, <2>7, AssumedTypes DEF Metered, FullLimiter, Limiters
  <2>9. i \notin crossed' => Lone(i)'
    <3> SUFFICES ASSUME i \notin crossed PROVE Lone(i)'
      BY <1>0
    <3>1. /\ RefillsInTime => LimiterOf(i) = ideal[i]
          /\ LimiterOf(i).tokens = Burst \/ LimiterOf(i).tokens >= Rate * (PruneAfter + 1)
      BY <1>0, <1>2, <2>4, <2>7, AssumedTypes DEF Metered, Lone
    <3>2. RefillsInTime => Rate * (PruneAfter + 1) >= Burst
      BY AssumedTypes DEF RefillsInTime
    <3>3. RefillsInTime => LimiterOf(i).tokens = Burst
      BY <2>7, <3>1, <3>2, AssumedTypes
    <3>4. RefillsInTime => LimiterOf(i).event = 0
      BY <2>7, <3>3, AssumedTypes DEF Owed
    <3>5. RefillsInTime => LimiterOf(i) = FullLimiter
      BY <2>7, <3>3, <3>4 DEF FullLimiter, Limiters
    <3>6. QED
      BY <1>0, <2>1, <2>2, <2>6, <3>1, <3>5, AssumedTypes DEF Lone, FullLimiter
  <2>10. BucketOf(i)' /\ RefusalsOf(i)' /\ Unseen(i)'
    BY <2>1, <2>6 DEF BucketOf, RefusalsOf, Unseen
  <2>11. QED
    BY <2>8, <2>9, <2>10 DEF Metered
<1>3. QED
  BY <1>1, <1>2

\* Time fills the kept bucket and the other one alike, and an idle client's
\* by the rate for every tick.
LEMMA TickMeters ==
    ASSUME Types, Shape, Meters, Tick, NEW i \in Ips
    PROVE  Metered(i)'
<1>0. Metered(i) /\ prunes' = prunes /\ crossed' = crossed
  BY DEF Meters, Tick
<1>1. ~Throttled(i) /\ Refusals(i) = {}
  BY DEF Tick, Throttled, Refusals, Waiting
<1>2. ~Throttled(i)' /\ Refusals(i)' = {}
  <2>1. \A r \in Reqs : req'[r].pc \notin Waiting
    BY TickKeeps DEF Tick, Waiting
  <2>2. QED
    BY <2>1 DEF Throttled, Refusals, Waiting
<1>3. ideal[i] \in Limiters /\ ideal'[i] = Refilled(ideal[i])
  BY LimiterIsTyped DEF Tick
<1>4. ideal'[i].tokens = IF Burst <= ideal[i].tokens + Rate THEN Burst ELSE ideal[i].tokens + Rate
  BY <1>3, RefilledFact
<1>5. /\ Burst \in Nat \ {0} /\ Rate \in Nat \ {0} /\ PruneAfter \in Nat /\ MaxDebt \in Nat
      /\ ideal[i].tokens \in Int /\ ideal[i].tokens <= LimiterOf(i).tokens
      /\ LimiterOf(i).tokens \in Int
  BY <1>0, <1>3, AssumedTypes, LimiterIsTyped DEF Limiters, Metered
<1>6. CASE buckets[i] = None
  <2>1. buckets'[i] = None
    BY <1>6 DEF Tick
  <2>2. LimiterOf(i) = FullLimiter /\ LimiterOf(i)' = FullLimiter
    BY <1>6, <2>1 DEF LimiterOf
  <2>3. BucketOf(i)' /\ RefusalsOf(i)' /\ Unseen(i)'
    BY <1>2, <2>1 DEF BucketOf, RefusalsOf, Unseen
  <2>4. LimiterOf(i)'.tokens >= ideal'[i].tokens
    BY <1>4, <1>5, <2>2 DEF FullLimiter
  <2>5. Refilled(FullLimiter) = FullLimiter
    <3>1. /\ Refilled(FullLimiter) \in Limiters
          /\ Refilled(FullLimiter).tokens = Burst /\ Refilled(FullLimiter).event = 0
      BY <1>5, FullIsTyped, RefilledFact DEF FullLimiter
    <3>2. QED
      BY <3>1 DEF FullLimiter, Limiters
  <2>6. i \notin crossed' => Lone(i)'
    BY <1>0, <1>2, <1>3, <1>5, <2>1, <2>2, <2>5 DEF Metered, Lone, FullLimiter
  <2>7. QED
    BY <2>3, <2>4, <2>6 DEF Metered
<1>7. CASE buckets[i] # None
  <2> DEFINE l == LimiterOf(i)
             idle == buckets[i].idle
  <2>1. /\ buckets[i] \in Buckets /\ l = buckets[i].limiter /\ l \in Limiters
        /\ idle \in 0..(PruneAfter + 1)
        /\ l.tokens \in (-MaxDebt)..Burst /\ l.event = Owed(l.tokens)
    BY <1>0, <1>7, LimiterIsTyped DEF Metered, BucketOf, Buckets
  <2>2. /\ Refilled(l) \in Limiters
        /\ Refilled(l).tokens = IF Burst <= l.tokens + Rate THEN Burst ELSE l.tokens + Rate
        /\ Refilled(l).event = IF l.event <= Rate THEN 0 ELSE l.event - Rate
    BY <2>1, RefilledFact
  <2>3. Min({idle + 1, PruneAfter + 1}) = IF idle + 1 <= PruneAfter + 1 THEN idle + 1 ELSE PruneAfter + 1
    BY <1>5, <2>1, MinOfTwo
  <2>4. buckets'[i] = Bucket(Refilled(l), Min({idle + 1, PruneAfter + 1}))
    BY <1>7, <2>1 DEF Tick
  <2>5. /\ buckets'[i].limiter = Refilled(l)
        /\ buckets'[i].idle = IF idle = PruneAfter + 1 THEN idle ELSE idle + 1
    BY <1>5, <2>1, <2>3, <2>4 DEF Bucket
  <2>6. buckets'[i] # None
    <3>1. Min({idle + 1, PruneAfter + 1}) \in 0..(PruneAfter + 1)
      BY <1>5, <2>1, <2>3
    <3>2. QED
      BY <2>2, <2>4, <3>1, BucketIsSome
  <2>7. LimiterOf(i)' = Refilled(l)
    BY <2>5, <2>6 DEF LimiterOf
  <2> HIDE DEF l, idle
  <2>8. BucketOf(i)'
    BY <1>5, <2>1, <2>2, <2>5 DEF BucketOf, Owed
  <2>9. RefusalsOf(i)'
    BY <1>2 DEF RefusalsOf
  <2>10. LimiterOf(i)'.tokens >= ideal'[i].tokens
    BY <1>4, <1>5, <2>1, <2>2, <2>7 DEF l
  <2>11. Unseen(i)'
    BY <1>0, <1>5, <1>7, <2>1, <2>5 DEF Metered, Unseen, idle
  <2>12. i \notin crossed' => Lone(i)'
    <3> SUFFICES ASSUME i \notin crossed PROVE Lone(i)'
      BY <1>0
    <3>1. /\ RefillsInTime => l = ideal[i]
          /\ l.tokens >= 0
          /\ idle > 0 => l.tokens = Burst \/ l.tokens >= Rate * idle
      BY <1>0, <1>1, <1>7, <2>1 DEF Metered, Lone, l, idle
    <3>2. /\ RefillsInTime => LimiterOf(i)' = ideal'[i]
          /\ Refilled(l).tokens \in Nat
      BY <1>3, <1>5, <2>1, <2>2, <2>7, <3>1 DEF Limiters
    <3>3. Rate * (idle + 1) = Rate * idle + Rate
      BY <1>5, <2>1
    <3>4. Rate * 1 = Rate /\ Rate * idle \in Int
      BY <1>5, <2>1
    <3>5. l.tokens = Burst \/ l.tokens + Rate >= Rate * (idle + 1)
      BY <1>5, <2>1, <3>1, <3>3, <3>4
    <3>6. CASE l.tokens = Burst
      BY <1>2, <1>5, <2>1, <2>2, <2>5, <2>7, <3>2, <3>6 DEF Lone
    <3>7. CASE l.tokens # Burst /\ idle = PruneAfter + 1
      <4>1. l.tokens >= Rate * idle
        BY <1>5, <2>1, <3>1, <3>7
      <4>2. Refilled(l).tokens = Burst \/ Refilled(l).tokens >= Rate * idle
        BY <1>5, <2>1, <2>2, <3>4, <4>1
      <4>3. QED
        BY <1>2, <2>5, <2>7, <3>2, <3>7, <4>2 DEF Lone
    <3>8. CASE l.tokens # Burst /\ idle # PruneAfter + 1
      <4>1. Refilled(l).tokens = Burst \/ Refilled(l).tokens >= Rate * (idle + 1)
        BY <2>2, <3>5, <3>8
      <4>2. QED
        BY <1>2, <2>5, <2>7, <3>2, <3>8, <4>1 DEF Lone
    <3>9. QED
      BY <3>6, <3>7, <3>8
  <2>13. QED
    BY <2>8, <2>9, <2>10, <2>11, <2>12 DEF Metered
<1>8. QED
  BY <1>6, <1>7

LEMMA FreshMeters ==
    ASSUME NEW i \in Ips, buckets[i] = None, ideal[i] = FullLimiter, prunes = {},
           \A r \in Reqs : req[r] = Idle
    PROVE  Metered(i)
<1>1. ~Throttled(i) /\ Refusals(i) = {} /\ LimiterOf(i) = FullLimiter
  BY DEF Throttled, Refusals, Waiting, Idle, LimiterOf
<1>2. QED
  BY <1>1, AssumedTypes DEF Metered, BucketOf, RefusalsOf, Lone, Unseen, FullLimiter

LEMMA FreshMetersNext ==
    ASSUME NEW i \in Ips, buckets'[i] = None, ideal'[i] = FullLimiter, prunes' = {},
           \A r \in Reqs : req'[r] = Idle
    PROVE  Metered(i)'
<1>1. ~Throttled(i)' /\ Refusals(i)' = {} /\ LimiterOf(i)' = FullLimiter
  BY DEF Throttled, Refusals, Waiting, Idle, LimiterOf
<1>2. QED
  BY <1>1, AssumedTypes DEF Metered, BucketOf, RefusalsOf, Lone, Unseen, FullLimiter

LEMMA MetersStep ==
    ASSUME Types, Shape, Meters, Next
    PROVE  Meters'
<1>1. SUFFICES ASSUME NEW i \in Ips PROVE Metered(i)'
  BY DEF Meters
<1>2. Metered(i)
  BY DEF Meters
<1>3. ASSUME NEW r \in Reqs, LoginStep(r) \/ AuthStep(r) \/ SlotStep(r) PROVE Metered(i)'
  <2>1. req[r].pc \notin Waiting /\ req'[r].pc \notin Waiting
    BY <1>3, LoginGoes, OthersGo DEF LoginPCs, Waiting, WithSession, Handling
  <2>2. \A q \in Reqs : req'[q] = req[q] \/ (~At(q, i) /\ ~At(q, i)')
    BY <1>3, <2>1, OneMoves DEF At, Acts, Types
  <2>3. UNCHANGED <<buckets, prunes, ideal, crossed>>
    BY <1>3, Frames DEF gateVars
  <2>4. QED
    BY <1>2, <2>2, <2>3, QuietKeeps
<1>4. ASSUME NEW r \in Reqs, MeterStep(r) PROVE Metered(i)'
  BY <1>4, ThrottleMeters, ReserveMeters, CancelMeters, AdmitMeters DEF MeterStep
<1>5. CASE (\E p \in Providers : StartLogin(p)) \/ Logout
  <2>1. UNCHANGED <<req, buckets, prunes, ideal, crossed>>
    BY <1>5 DEF StartLogin, Logout, gateVars
  <2>2. QED
    BY <1>2, <2>1, QuietKeeps
<1>6. CASE \E doomed \in prunes : Prune(doomed)
  BY <1>6, PruneMeters
<1>7. CASE Tick
  BY <1>7, TickMeters
<1>8. CASE Restart
  BY <1>8, FreshMetersNext DEF Restart
<1>9. QED
  BY <1>3, <1>4, <1>5, <1>6, <1>7, <1>8, NextCases DEF Acts

-----------------------------------------------------------------------------
(* The inductive invariant, and what follows from it.                      *)

LEMMA FitsStep ==
    ASSUME Types, Shape, Meters, Next
    PROVE  req' \in [Reqs -> ReqRecords] /\ Shape'
<1>1. req \in [Reqs -> ReqRecords] /\ \A r \in Reqs : Fits(r)
  BY DEF Types, Shape, Fits
<1>2. SUFFICES req' = [q \in Reqs |-> req'[q]] /\ \A r \in Reqs : Fits(r)'
  BY DEF Fits, Shape
<1>3. CASE UNCHANGED req
  BY <1>1, <1>3 DEF Fits, ShapeOf
<1>4. ASSUME NEW r \in Reqs, Acts(r)
      PROVE  req' = [q \in Reqs |-> req'[q]] /\ \A q \in Reqs : Fits(q)'
  <2>1. /\ req' = [req EXCEPT ![r] = req'[r]]
        /\ \A q \in Reqs \ {r} : req'[q] = req[q]
    BY <1>1, <1>4, OneMoves
  <2>2. \A q \in Reqs \ {r} : Fits(q)'
    BY <1>1, <2>1 DEF Fits, ShapeOf
  <2>3. req[r].pc = "refused" => LimiterOf(req[r].what.ip) \in Limiters
    BY GateHasIp, LimiterIsTyped DEF Gate, Waiting
  <2>4. Fits(r)'
    BY <1>4, <2>3, FitsLogin, FitsAuth, FitsGate DEF Acts
  <2>5. req' = [q \in Reqs |-> req'[q]]
    BY <1>1, <2>1
  <2>6. QED
    BY <2>2, <2>4, <2>5
<1>5. CASE Tick
  <2>1. \A r \in Reqs : Fits(r)'
    BY <1>5, TickKeeps
  <2>2. QED
    BY <1>5, <2>1 DEF Tick
<1>6. CASE Restart
  BY <1>6, IdleFits
  DEF Restart, Fits, ShapeOf, Idle, Gate, WithSession, Waiting, Handling
<1>7. QED
  BY <1>3, <1>4, <1>5, <1>6, NextCases DEF StartLogin, Logout, Prune

LEMMA WebInvInit == Init => WebInv
<1> SUFFICES ASSUME Init PROVE WebInv
  OBVIOUS
<1>1. Types
  BY AssumedTypes, FullIsTyped, IdleFits DEF Init, Types, NoCookies
<1>2. \A r \in Reqs : req[r] = Idle
  BY DEF Init
<1>3. Shape /\ Identity
  BY <1>2 DEF Init, Shape, ShapeOf, Identity, Identified, Idle, Gate, WithSession, Waiting, Handling
<1>4. Logouts
  BY DEF Init, Logouts, NoCookies
<1>5. SlotsBalance
  <2>1. {r \in Reqs : req[r].pc \in {"sizing", "ingesting"}} = {} /\ slots = 0
    BY <1>2 DEF Init, Idle
  <2>2. QED
    BY <2>1, FS_EmptySet DEF SlotsBalance
<1>6. Meters
  BY <1>2, FreshMeters DEF Init, Meters
<1>7. QED
  BY <1>1, <1>3, <1>4, <1>5, <1>6 DEF WebInv

LEMMA WebInvStep == WebInv /\ [Next]_vars => WebInv'
<1> SUFFICES ASSUME WebInv, [Next]_vars PROVE WebInv'
  OBVIOUS
<1> USE DEF WebInv
<1>1. CASE UNCHANGED vars
  BY <1>1
  DEF vars, Types, Shape, ShapeOf, Identity, Identified, Authenticated, MatchBearer, Logouts, Dead,
      SlotsBalance, Meters, Metered, BucketOf, RefusalsOf, Refusals, Throttled, Lone, LimiterOf,
      Unseen
<1>2. CASE Next
  <2>1. Types'
    BY <1>2, LoginTypesStep, GateTypesStep, FitsStep, SlotsStep
    DEF Types, LoginTypes, GateTypes
  <2>2. QED
    BY <1>2, <2>1, FitsStep, IdentityStep, LogoutsStep, SlotsStep, MetersStep
<1>3. QED
  BY <1>1, <1>2

\* What the four arguments say holds in every reachable state.
THEOREM WebInvariance == Spec => []WebInv
BY WebInvInit, WebInvStep, PTL DEF Spec

LEMMA AllowedFromInv == WebInv => OnlyAllowedUsersAct
<1> SUFFICES ASSUME WebInv PROVE OnlyAllowedUsersAct
  OBVIOUS
<1> Types /\ Identity /\ Meters
  BY DEF WebInv
<1>1. TypeOK
  <2>1. \A ip \in Ips : buckets[ip] # None =>
            /\ buckets[ip].limiter.tokens \in (-MaxDebt)..Burst
            /\ buckets[ip].limiter.event \in Nat
            /\ buckets[ip].idle \in 0..(PruneAfter + 1)
    BY LimiterIsTyped DEF Meters, Metered, BucketOf, Buckets, Limiters
  <2>2. \A s \in Sids : sessions[s] # None =>
            sessions[s].provider \in Providers /\ sessions[s].left \in 0..SessionTTL
    BY DEF Types, Sessions
  <2>3. \A t \in States : flows[t] # None =>
            flows[t] \in [provider : Providers, left : 0..(FlowTTL + 1)]
    BY DEF Types, Flows
  <2>4. QED
    BY <2>1, <2>2, <2>3 DEF TypeOK, Types
<1>2. \A s \in Sids : sessions[s] # None =>
          /\ AllowedUserOK(sessions[s].provider, sessions[s].user)
          /\ sessions[s].via = sessions[s].provider
  BY DEF Identity, Vetted
<1>3. ASSUME NEW r \in Reqs, req[r].pc \in {"handle", "sizing", "ingesting"}
      PROVE  \/ req[r].what.public
             \/ ~deployment.tokens /\ ~deployment.sessions
             \/ deployment.tokens /\ req[r].what.bearer = "good"
             \/ /\ req[r].who # None
                /\ \E p \in Providers : AllowedUserOK(p, req[r].who)
  BY <1>3 DEF Identity, Identified, Handling, Authenticated, MatchBearer
<1>4. QED
  BY <1>1, <1>2, <1>3 DEF OnlyAllowedUsersAct

\* Sessions are those of users the allow lists admit, opened by flows of their
\* own provider, and nobody else reaches a private handler without a token:
\* for any providers, profiles and allow lists, and through any interleaving
\* of callbacks, renewals, evictions and logouts.
THEOREM AllowedOnly == Spec => []OnlyAllowedUsersAct
BY WebInvariance, AllowedFromInv, PTL

LEMMA LogoutFromInv == WebInv => LogoutHolds
BY DEF WebInv, Logouts, Dead, LogoutHolds

\* A session is gone for good once it was logged out, unless a request was
\* between the two halves of its renewal at that moment.
THEOREM LogoutFinal == Spec => []LogoutHolds
BY WebInvariance, LogoutFromInv, PTL

\* No ingest slot leaks and none is released twice, for any number of slots
\* and of requests at a time.
THEOREM SlotsExact == Spec => []SlotsBalance
<1>1. WebInv => SlotsBalance
  BY DEF WebInv
<1>2. QED
  BY <1>1, WebInvariance, PTL

LEMMA InvisibleFromInv == WebInv => PruneIsInvisible
BY DEF WebInv, Meters, Metered, Lone, PruneIsInvisible

\* Pruning idle buckets changes nothing that a client can see, as long as an
\* idle one has refilled by the time it may be pruned, and takes nothing from a
\* client whatever the burst and the rate.
THEOREM PruneInvisible == Spec => []PruneIsInvisible
BY WebInvariance, InvisibleFromInv, PTL

LEMMA FreeFromInv == WebInv => RefusalIsFree
<1> SUFFICES ASSUME WebInv, NEW ip \in Ips \ crossed
             PROVE  LimiterOf(ip).tokens >= -Cardinality(Refusals(ip))
  BY DEF RefusalIsFree
<1>1. Types /\ Lone(ip)
  BY DEF WebInv, Meters, Metered
<1>2. LimiterOf(ip).tokens \in Int
  BY <1>1, LimiterIsTyped DEF Limiters
<1>3. CASE Refusals(ip) = {}
  BY <1>1, <1>2, <1>3, FS_EmptySet DEF Lone
<1>4. CASE Refusals(ip) # {}
  <2>1. PICK r \in Refusals(ip) : Refusals(ip) = {r}
    BY <1>1, <1>4 DEF Lone
  <2>2. Cardinality(Refusals(ip)) = 1
    BY <2>1, FS_Singleton
  <2>3. QED
    BY <1>1, <1>2, <2>2 DEF Lone
<1>5. QED
  BY <1>3, <1>4

\* A refusal costs nothing unless it overlaps another of the same client: the
\* reservation that tells how long to wait is given back in full.
THEOREM RefusalFree == Spec => []RefusalIsFree
BY WebInvariance, FreeFromInv, PTL

=============================================================================
