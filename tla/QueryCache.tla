----------------------------- MODULE QueryCache -----------------------------
(***************************************************************************)
(* The query cache of src/internal/service/querycache/cache.go, an LRU     *)
(* with expiry, between the searches of src/internal/service/query.go that *)
(* fill it and the writes of ingest.go and documents.go that clear it.     *)
(*                                                                         *)
(* A search looks the key up under the cache's mutex, runs the search with *)
(* no lock held and inserts the result under the mutex.  A write changes   *)
(* the stores and then clears the whole cache, or fails and does not.      *)
(* What a search returns is abstracted to the state of the stores it read: *)
(* any write may shift any ranking.                                        *)
(***************************************************************************)
EXTENDS Naturals, Sequences, FiniteSets

CONSTANTS
    Keys,         \* hashed (query, filters, limit, mode, model)
    NoKey,
    NoEntry,
    Searchers,    \* goroutines that search
    Writers,      \* goroutines that ingest or delete
    Capacity,     \* 0 disables the cache
    TTL,          \* in ticks of the clock; 0 disables expiry
    MaxCorpus,    \* bound: changes to the stores
    MaxFaults     \* bound: writes that fail after changing the stores

ASSUME CacheAssumption ==
    /\ NoKey \notin Keys
    /\ NoEntry \notin [value : Nat, age : Nat, overtaken : BOOLEAN]
    /\ Capacity \in Nat
    /\ TTL \in Nat
    /\ MaxCorpus \in Nat
    /\ MaxFaults \in Nat

VARIABLES
    entries,    \* the map: key -> element
    order,      \* the list of the elements' keys, most recently used first
    search,     \* the running Get calls
    writing,    \* the writes that changed the stores and did not end
    corpus,     \* the state of the stores, counted in changes
    faults,
    spoiled,    \* a write failed and nothing cleared the cache since (history)
    since       \* since[k]: the other keys used since k was, as long as they
                \* are fewer than the capacity                    (history)

vars == <<entries, order, search, writing, corpus, faults, spoiled, since>>

-----------------------------------------------------------------------------
Entry == [value : 0..MaxCorpus,
          age : 0..TTL + 1,        \* ticks since it was inserted
          overtaken : BOOLEAN]     \* a Clear came when its search had read the
                                   \* stores before their last change and not
                                   \* yet inserted               (history)

SearchAt(pc, k) == [pc |-> pc, key |-> k, value |-> 0, overtaken |-> FALSE]
IdleSearch == SearchAt("idle", NoKey)

Searching == [pc : {"loading", "loaded"}, key : Keys, value : 0..MaxCorpus,
              overtaken : BOOLEAN]
SearchState == {IdleSearch} \cup Searching

NotUsed == {NoKey}    \* since[k] of a key the cache need not hold

Init ==
    /\ entries = [k \in Keys |-> NoEntry]
    /\ order = <<>>
    /\ search = [s \in Searchers |-> IdleSearch]
    /\ writing = {}
    /\ corpus = 0
    /\ faults = 0
    /\ spoiled = FALSE
    /\ since = [k \in Keys |-> NotUsed]

Cached(k) == entries[k] # NoEntry

Expired(k) == TTL > 0 /\ entries[k].age > TTL

Hits(k) == Capacity > 0 /\ Cached(k) /\ ~Expired(k)

Place(k) == CHOOSE i \in DOMAIN order : order[i] = k
Without(k) == SubSeq(order, 1, Place(k) - 1) \o SubSeq(order, Place(k) + 1, Len(order))

Used(k) ==
    [j \in Keys |->
        CASE j = k -> {}
          [] j # k /\ since[j] # NotUsed /\ Cardinality(since[j] \cup {k}) < Capacity ->
                since[j] \cup {k}
          [] OTHER -> NotUsed]

-----------------------------------------------------------------------------
(* Get.                                                                    *)

Hit_NoMove(s, k) ==
    /\ search[s].pc = "idle"
    /\ Hits(k)
    /\ since' = Used(k)
    /\ UNCHANGED <<entries, order, search, writing, corpus, faults, spoiled>>

Hit_SlidingExpiry(s, k) ==
    /\ search[s].pc = "idle"
    /\ Hits(k)
    /\ order' = <<k>> \o Without(k)
    /\ entries' = [entries EXCEPT ![k].age = 0]
    /\ since' = Used(k)
    /\ UNCHANGED <<search, writing, corpus, faults, spoiled>>

Hit(s, k) ==
    /\ search[s].pc = "idle"
    /\ Hits(k)
    /\ order' = <<k>> \o Without(k)
    /\ since' = Used(k)
    /\ UNCHANGED <<entries, search, writing, corpus, faults, spoiled>>

Miss(s, k) ==
    /\ search[s].pc = "idle"
    /\ ~Hits(k)
    /\ search' = [search EXCEPT ![s] = SearchAt("loading", k)]
    /\ IF Capacity > 0 /\ Cached(k)
       THEN /\ entries' = [entries EXCEPT ![k] = NoEntry]
            /\ order' = Without(k)
            /\ since' = [since EXCEPT ![k] = NotUsed]
       ELSE UNCHANGED <<entries, order, since>>
    /\ UNCHANGED <<writing, corpus, faults, spoiled>>

\* The loader reads the stores; no lock of the cache is held.
Load(s) ==
    /\ search[s].pc = "loading"
    /\ search' = [search EXCEPT ![s].pc = "loaded", ![s].value = corpus]
    /\ UNCHANGED <<entries, order, writing, corpus, faults, spoiled, since>>

\* An embedding, vector or keyword search error: nothing is cached.
LoadFails(s) ==
    /\ search[s].pc = "loading"
    /\ search' = [search EXCEPT ![s] = IdleSearch]
    /\ UNCHANGED <<entries, order, writing, corpus, faults, spoiled, since>>

Loaded(s) == [value |-> search[s].value, age |-> 0, overtaken |-> search[s].overtaken]

Insert_KeepsEvicted(s) ==
    LET k == search[s].key IN
    /\ search[s].pc = "loaded"
    /\ search' = [search EXCEPT ![s] = IdleSearch]
    /\ IF Capacity > 0 /\ ~Cached(k)
       THEN /\ order' = SubSeq(<<k>> \o order, 1, IF Len(order) < Capacity THEN Len(order) + 1 ELSE Capacity)
            /\ entries' = [entries EXCEPT ![k] = Loaded(s)]
            /\ since' = Used(k)
       ELSE UNCHANGED <<entries, order, since>>
    /\ UNCHANGED <<writing, corpus, faults, spoiled>>

\* The result is inserted in front, unless the key is there again, expired or
\* not, and the list is cut to the capacity from its back.
Insert(s) ==
    LET k == search[s].key
        evicted == {order[i] : i \in Capacity..Len(order)}
    IN
    /\ search[s].pc = "loaded"
    /\ search' = [search EXCEPT ![s] = IdleSearch]
    /\ IF Capacity > 0 /\ ~Cached(k)
       THEN /\ order' = <<k>> \o SubSeq(order, 1, IF Len(order) < Capacity THEN Len(order) ELSE Capacity - 1)
            /\ entries' = [[j \in Keys |-> IF j \in evicted THEN NoEntry ELSE entries[j]]
                              EXCEPT ![k] = Loaded(s)]
            /\ since' = Used(k)
       ELSE UNCHANGED <<entries, order, since>>
    /\ UNCHANGED <<writing, corpus, faults, spoiled>>

-----------------------------------------------------------------------------
(* The writes.                                                             *)

\* A write deletes an old version and adds the new one: it changes the stores
\* once or more.
Change(w) ==
    /\ corpus < MaxCorpus
    /\ corpus' = corpus + 1
    /\ writing' = writing \cup {w}
    /\ UNCHANGED <<entries, order, search, faults, spoiled, since>>

Overtaken == [s \in Searchers |->
                IF search[s].pc = "loaded" /\ search[s].value # corpus
                THEN [search[s] EXCEPT !.overtaken = TRUE] ELSE search[s]]

Clear_FirstOnly(w) ==
    /\ w \in writing
    /\ writing' = writing \ {w}
    /\ entries' = [k \in Keys |-> IF Len(order) > 0 /\ k = order[1] THEN NoEntry ELSE entries[k]]
    /\ order' = IF Len(order) > 0 THEN Tail(order) ELSE order
    /\ search' = Overtaken
    /\ spoiled' = FALSE
    /\ since' = [k \in Keys |-> NotUsed]
    /\ UNCHANGED <<corpus, faults>>

\* The write ends: Clear.
Clear(w) ==
    /\ w \in writing
    /\ writing' = writing \ {w}
    /\ entries' = [k \in Keys |-> NoEntry]
    /\ order' = <<>>
    /\ search' = Overtaken
    /\ spoiled' = FALSE
    /\ since' = [k \in Keys |-> NotUsed]
    /\ UNCHANGED <<corpus, faults>>

\* The write fails after it changed a store: the error returns before Clear.
WriteFails(w) ==
    /\ w \in writing
    /\ faults < MaxFaults
    /\ faults' = faults + 1
    /\ writing' = writing \ {w}
    /\ spoiled' = TRUE
    /\ UNCHANGED <<entries, order, search, corpus, since>>

Ages(k) == TTL > 0 /\ Cached(k) /\ ~Expired(k)

\* The clock.
Tick ==
    /\ \E k \in Keys : Ages(k)
    /\ entries' = [k \in Keys |-> IF Ages(k) THEN [entries[k] EXCEPT !.age = @ + 1]
                                  ELSE entries[k]]
    /\ UNCHANGED <<order, search, writing, corpus, faults, spoiled, since>>

SearchStep(s) == Load(s) \/ LoadFails(s) \/ Insert(s)

Next ==
    \/ \E s \in Searchers : SearchStep(s) \/ \E k \in Keys : Hit(s, k) \/ Miss(s, k)
    \/ \E w \in Writers : Change(w) \/ Clear(w) \/ WriteFails(w)
    \/ Tick

Spec == Init /\ [][Next]_vars

\* Searches carry timeouts, and time passes.
Fairness == WF_vars(Tick) /\ \A s \in Searchers : WF_vars(SearchStep(s))

FairSpec == Spec /\ Fairness

-----------------------------------------------------------------------------
(* Safety.                                                                 *)

TypeOK ==
    /\ entries \in [Keys -> Entry \cup {NoEntry}]
    /\ order \in Seq(Keys)
    /\ search \in [Searchers -> SearchState]
    /\ writing \subseteq Writers
    /\ corpus \in 0..MaxCorpus
    /\ faults \in 0..MaxFaults
    /\ spoiled \in BOOLEAN
    /\ since \in [Keys -> (SUBSET Keys) \cup {NotUsed}]

\* The map and the list hold the same elements, each once, within the capacity.
ListIsMap ==
    /\ {order[i] : i \in DOMAIN order} = {k \in Keys : Cached(k)}
    /\ \A i, j \in DOMAIN order : order[i] = order[j] => i = j
    /\ Len(order) <= Capacity

CacheInv == TypeOK /\ ListIsMap

\* Least recently used: a key used after the last Clear, with fewer than
\* Capacity other keys used since, is still there.
KeepsTheRecent == \A k \in Keys : since[k] # NotUsed => Cached(k)

\* A result that no longer reflects the stores is in the cache only while a
\* write that changed them has still to clear it, after a write that failed,
\* or because its search read the stores, a write changed and cleared, and
\* only then the search inserted.  Any other entry is what the search would
\* return now.
StaleHasAReason ==
    \A k \in Keys : Cached(k) /\ entries[k].value # corpus =>
        writing # {} \/ spoiled \/ entries[k].overtaken

-----------------------------------------------------------------------------
(* An inductive invariant for StaleHasAReason.                             *)

LoadedHasAReason ==
    \A s \in Searchers : search[s].pc = "loaded" /\ search[s].value # corpus =>
        writing # {} \/ spoiled \/ search[s].overtaken

StaleInv == TypeOK /\ StaleHasAReason /\ LoadedHasAReason

-----------------------------------------------------------------------------
(* Liveness, under FairSpec, with an expiry.                               *)

\* Once the stores stop changing, the searches come to return what they hold,
\* however many Clears were missed or overtaken: expiry is not extended by
\* use.
EventuallyFresh ==
    TTL > 0 => <>[](\A k \in Keys : Hits(k) => entries[k].value = corpus)

=============================================================================
