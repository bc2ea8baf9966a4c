# A formal model of ragabast

ragabast is a Go service for retrieval-augmented generation. It takes markdown
documents and GitLab issues, cuts them into chunks, stores each chunk in a
vector collection and in a keyword index, and answers searches and chat messages
over them. This directory holds TLA+ modules of it, the TLC configurations that
model-check them, and TLAPS proofs about them. Paths are relative to the
repository; `README.md:n` is the repository's README.

    tlc -config queue_safety.cfg MCJobQueue.tla     # and likewise for each .cfg
    tlapm JobQueueProofs.tla                        # and likewise for each *Proofs.tla

`PROJECT.json` lists the runs, the lines of code each definition models, the
hazards of the code, the findings and the theorems.

## 1. The system and its parts

| Part | Code | State it keeps | Operations | Here |
|---|---|---|---|---|
| Async ingest queue | `internal/web/jobs/jobs.go` | one JSON file per job, under one of two names; a bounded channel; a pool of workers | Submit, Start with its recovery scan, Stop, processOne, RunCleanup | JobQueue, proved |
| Document store | `internal/vector/{operations,db,search_index}.go`, `internal/service/ingest.go` | a chromem collection behind `db.mu`, a bleve index | ingest, unpublish, delete, delete a chunk, update metadata | DocumentStore, proved |
| Query cache | `internal/service/querycache/cache.go`, filled by `query.go` | a map and an LRU list behind one mutex | Get, Clear | QueryCache, proved |
| Chat sessions | `internal/service/chat_session.go`, `internal/web/chat_handlers.go` | history and source kinds per session | Get, Append (trims), Clear, SetSourceKinds | ChatSessions, proved |
| LLM queries, reply post-processing | `internal/service/{query,prompt,links_policy,scratchpad,thinking}.go` and others | none | one external call; passes over its text | ChatSessions, Replies, proved |
| Browser sessions, OAuth flows | `internal/web/session.go`, `oauth.go` | two maps with expiry, cookies | login, callback, logout, Get, Touch, Pop | Web, proved |
| Middleware, ingest limiter, rate limiter | `internal/web/{auth,csrf,ingest_limiter,huma_ingest_op,rate_limit}.go` | a semaphore; token buckets per client | allow, prune, retryAfter; acquire, release | Web, proved |
| Parser, front matter, GitLab payloads | `internal/parser/`, `internal/gitlab/` | none | conversions | Parser |
| Chunker | `internal/chunker/chunker.go` | none | cut in sections or by size, merge, link parents | Chunker, proved with Library |
| Configuration, command line | `internal/config/`, `cmd/root.go` | a file, the environment | Load, Validate; serve, vector reset, doctor | Settings, Library (partly) |
| Embedding clients | `internal/vector/{openai_embeddings,embedding_gemma}.go` | none | split in batches, embed concurrently, put back by offset | Library, proved |
| Hybrid search | `internal/vector/hybrid.go` and both stores' Search | none | reciprocal rank fusion of two rankings, either of which may fail | Ranking, Library, proved |
| Prune, document listing | `internal/web/huma_documents.go` | none | list, then delete one by one | Library, proved |
| Server start, templates, uploads, catalog, MCP, logging | `internal/web/`, `internal/mcp/`, `internal/logging/` | none of their own | routing, rendering, read-only views | not modelled |

How they interact. An HTTP ingest either calls `Service.IngestDocument` in the
request's goroutine or hands the content to the queue's `Submit`, whose workers
call the same `IngestDocument` later. That runs a preflight against the
collection, then `VectorOperations.IngestDocument` (check the fingerprint, clear
the old version from both stores, embed, add to both stores), and then clears
the query cache. Searches read the two stores through the cache. Chat messages
search, call the LLM and append to a session. All of it runs in one process;
what survives it is the job directory, the collection and the index. On SIGTERM
the process shuts its HTTP server down and leaves (`server.go:866-879`);
`Server.Stop`, which stops the queue, has no caller outside tests. The queue's
model has Stop as an operation that may come at any time, and an exit that may
come without it.

What is hard. The queue: a crash between any two of the five file operations
that a job goes through, and a recovery scan that runs next to the workers.
The store: multi-step updates of two stores with no lock and no transaction
across them, by any number of requests, any of whose calls may fail. The cache:
a fill whose read of the stores and whose insert are two steps, against writes
that change the stores and clear it. The chat: a history that is read before the
model answers and appended to after, while other tabs write and clear it; a
prompt that is cut to size; a reply that goes through half a dozen passes. The
browser's sessions: a mutex that covers one map access, under requests of
several; a token bucket that is pruned and rebuilt. The library: processes with
different settings that follow each other over one directory, batches that are
answered in any order, rankings of which one fails. The properties of section 3
are aimed at these, and `PROJECT.json` lists each hazard at its line.

What makes each part correct. Queue: no accepted job is lost, none runs twice
in a process, an outcome is final. Store: the two stores agree and hold one
version of a document, or else a later ingest or delete puts it right. Cache:
an LRU within its capacity that serves nothing stale for longer than it says.
Chat: exchanges whole and in order, private mode forgets, the user sees the
answer and nothing else. Web: only allowed users act, a logout holds, slots and
tokens balance. Library: what is stored of a document is one version with its
own vectors, all of it unless a write or a delete was cut short; searches rank what both stores rank, and fail for a
reason only.

## 2. Modules

    JobLedger            what the queue promises of a job
    JobQueue             the queue; INSTANCE JobLedger           MCJobQueue       3 runs
    JobQueueProofs
    DocumentStore        the two stores and their requests       MCDocumentStore  4 runs
    DocumentStoreProofs
    QueryCache           cache, searches and writes              MCQueryCache     1 run
    QueryCacheProofs
    Replies              what becomes of the model's reply
    RepliesProofs
    ChatSessions         the chat; EXTENDS Replies               MCChatSessions   1 run
    ChatSessionsProofs   EXTENDS RepliesProofs
    Web                  logins, middleware, limiters            MCWeb            1 run
    WebProofs
    Parser  Chunker  Settings  Ranking                           pure operators
    Library              processes, ingests, searches, prunes;   MCLibrary        2 runs
                         EXTENDS the four
    LibraryProofs
    Lists                a filter that keeps the order; used by Replies, Parser, Chunker, Ranking
    ListProofs           numbers, sequences, recursive functions; used by the
                         proofs of Replies, ChatSessions and Library

A definition named `Action_Something` is a variant of `Action` with one
plausible mistake in it. No specification uses it: it serves to check that
a property would notice that mistake.

### JobQueue

| State | Code |
|---|---|
| `canon[j]`, `claim[j]` | the files `<id>.json` and `<id>.processing.json`: absent, `torn` (truncated by `os.WriteFile` and not filled yet), or the status they decode to |
| `queue` | the channel `Queue.pending`, its buffer as large as the pool |
| `stopped` | `Queue.stopped` closed and the workers' context cancelled |
| `worker[w]` | a goroutine in `worker`/`processOne`: where it is, its job, its outcome |
| `rec` | `recoverUnfinished`, which runs in the goroutine that called Start |
| `victim` | the job `RunCleanup` has read and is about to remove |
| `sub[j]` | how far the Submit call that makes job `j` is |

Each file operation is an action, and a write is two: truncate, fill. So a
crash may come between any two, and another goroutine may read a file half
written. `processOne` is WorkerTake, WorkerLoad, WorkerClaim (the rename),
WorkerMarkOpen/Flush, WorkerIngest, WorkerFinalOpen/Flush, WorkerPublish (the
rename back); every one has its error path, and the code's ignored errors are
ignored. The scan is RecList, then per entry RecYoung (a claim younger than
`recoverStaleThreshold`), RecUnreadable, RecFinished or RecTake, RecMove,
RecOpen, RecFlush, RecSend. Modification times are not kept: a claim may look
young to a scan whenever `QuickRestart` allows it.

`JobLedger` knows no file and no goroutine: each job is none, pending, running,
completed, failed or lost. `LedgerOf` maps the queue's state to it. A job is
running until its worker publishes it; a file opened for writing counts as what
it was before.

### DocumentStore

| State | Code |
|---|---|
| `vec[d][c]` | the fingerprint in the metadata of chunk `c` of `d` in the chromem collection |
| `text[d]` | the chunk ids of `d` in the bleve index |
| `mu` | who holds the write lock of `VectorDB.mu`; a read lock is held only within an action |
| `op[o]` | a running request: its step, kind, document, version, and what its loop has left |

A version is its fingerprint, and `Content` says which chunks it is cut into.
Chunk ids are deterministic, so two versions share the chunks of the sections
they share. Check is the preflight and `DocumentNeedsUpdate`, which take any one
stored chunk's fingerprint for the document's. VecFind and VecDelete are
`VectorDB.DeleteDocument`, one chunk at a time under `db.mu`; TextFind and
TextDelete the index's, with no lock; Embed, VecLock, VecAdd and TextAdd the
rest of an ingest. UpdFind and UpdDelete are `UpdateDocumentMetadata`, which
then calls the batch add at VecLock. OpFails is any call that returns an error,
Crash an exit. `QueryLimit` stands for the 1000 results a query is asked for.
chromem and bleve appear only as what these calls do to them: one deletion or
addition at a time, an atomic batch for the index.

### QueryCache

| State | Code |
|---|---|
| `entries`, `order` | the map and the `container/list` of `Cache` |
| `search[s]` | a Get: idle, its loader running, the loader's result in hand |
| `writing` | the writes (ingest, delete, update) that have changed a store and not cleared the cache |
| `corpus` | the state of the stores, as the number of their changes; a result is the state its search read |

Hit and Miss are Get's first critical section, Insert its second, Load the
loader between them with no lock held. Clear is called by a write that succeeds;
WriteFails returns before it. Tick is the clock of the expiry.

### ChatSessions and Replies

| State | Code |
|---|---|
| `sessions[s]` | `ChatSessionStore.sessions`: history and source kinds, or none |
| `cookie`, `tab[t]` | the browser's chat cookie, and the session id in the form of each open page |
| `post[m]` | a submitted message: where `handleChatMessage` is, and the history it read |
| `page` | the model's last reply, its sources, and the fragment the browser got |

Open is the landing page, which draws an id if the cookie has none. A message
reads its history in one step, asks the model, and appends when it answers, so
any number of them overlap; the model may also fail. Clearing is two steps, at
the server and when its answer reaches the browser. Each store call is one
action: its mutex covers it. The history goes into the prompt through
NormalizeHistory, which cuts single messages and then the whole.
In Replies a reply is a sequence of pieces: tags, paragraphs, citations, URLs and
"Links:" lines, of which the policy and the last pass recognise different spellings.
A result has its own URL, its permalink and `others`, the further URLs of its front
matter and those that its text quotes: all of them are allowed in an answer. Each pass of the code is an operator on such sequences, in the
order `QueryDebugWithOptions` and `handleChatMessage` apply them.

### Web

| State | Code |
|---|---|
| `sessions`, `flows` | `sessionStore.entries`, `flowStateStore.entries` |
| `jar` | the browser's session and OAuth state cookies, with the session cookie's age |
| `req[r]` | a request or callback on its way: its step, the entry it has read, whom it acts as |
| `slots` | `len(IngestLimiter.sem)` |
| `buckets`, `prunes` | the limiter per client; what pending prunes have decided to delete |
| `deployment` | what is configured: tokens, sessions, providers that came up, a rate limit |

A request goes through the middleware in its order: Get with its eviction, Touch
as a read and a write, the authentication, CSRF, the rate limit, the handler; an
ingest takes a slot, is checked for its size, and gives it back. A callback pops
its flow in two steps, exchanges the code, asks for the user and signs in. Logout,
the clock and a restart come between any two. `rate.Limiter` is taken from its
contract: tokens, which a reservation may push below zero, and the time of its
last event.

### Parser, Chunker, Settings, Ranking

They have no variables. A file is its front matter, as the fields that decide
anything, and a body of lines; a line is a header level, a length and a name for
its text. The chunker works on those exactly as the code does on strings.
Settings are a record; a deployment names a file, the files there are, and the
variables that are set. A query comes with the order in which texts are near it
and the order in which texts match it: what the model and the analyser make of
text is data, and which chunks are asked for, cut off, fused and filtered is not.

### Library

| State | Code |
|---|---|
| `running` | the deployment of the process that runs, if one does |
| `vec[p]`, `marker[p]` | the collection and the marker file in directory `p` |
| `idx[p]` | the keyword index at path `p`: absent, unreadable, or its entries |
| `flow` | an ingest that waits for the embeddings of its batches |
| `prune` | a prune between its deletes; `before`, `since` (history) |
| `partial[p]` | the documents of which a write or a delete that did not go through left a part (history) |
| `answer` | what a search or doctor just returned |
| `workload`, `left` | which requests this behaviour consists of, and how many are left (bounds) |

A chunk in `vec` carries what `chunkToMetadata` stores, whose text its vector was
computed from (`of`), its length, and, as history, what it was cut from (`body`) and
which deployment stored it (`by`). Start is `NewService`; a process stops at any time
and takes its ingest with it. An ingest clears the older version, waits for the
replies of its batches in any order, each vectors of some length or a refusal, and
stores. Chunks are deleted and added one by one: a delete may leave any part of them,
or all chunks gone and any part of the entries (`Remains`), and a Store may add any
part (`Parts`), whether an error or a crash ends it; a crash is that outcome with a Stop
after it. The index takes the entries of an ingest in one batch or not at all. What
another request could see halfway through a delete or a store is DocumentStore's
subject. Nothing writes `marker`, since nothing calls `AddChunk`: the variable is
there because the start and doctor read it.

Variables marked `(history)` record what happened for the properties and are
read by no guard.

## 3. Runs

| Run | Instance | Distinct states | Shows |
|---|---|---|---|
| `queue_safety` | 2 jobs, 2 workers, channel of 2, 2 crashes, 1 failing call, restart at any time | 180,309 | OneFilePerJob, OneRunPerProcess, NoUnownedWork, OnlyFinishedVanish, FinishedIsFinal, IInv, and that the queue implements JobLedger |
| `queue_liveness` | 2 jobs and one too large, 1 worker, channel of 1, 1 crash, restart after the threshold | 32,725 | AcceptedIsSettled, StartReturns, StopDrains, SubmitReturns |
| `store_safety` | 1 document in 3 versions (two that share a chunk, one with none), 3 chunks, 2 requests, 1 crash, 1 failing call | 418,480 | QuietDocsAgree, IngestIsExact, ClearIsExact, IInv |
| `store_liveness` | 2 versions, 2 chunks, 2 requests, 1 failing call | 32,899 | OpsReturn |
| `cache_safety` | 3 keys, capacity 2, 2 searches, 2 writes, 2 changes, 1 failing write | 600,139 | CacheInv, KeepsTheRecent, StaleHasAReason, EventuallyFresh |
| `chat_safety` | 2 tabs, 3 messages, 2 sessions of 2 exchanges, 3 shapes of reply, 1 clear, 1 restart | 589,841 | ChatInv, PrivateMode, ShortTalkIsCarried, OnlyTheAnswerIsShown, LinksComeFromSources, KindsStick |
| `web` | 4 deployments, 2 requests at a time, 2 sessions, 1 flow, 2 providers, 1 slot, buckets of 2 tokens, 1 restart | 978,161 | OnlyAllowedUsersAct, LogoutHolds, SlotsBalance, PruneIsInvisible, RefusalIsFree |
| `library` | 3 workloads: every body of up to 4 lines under 2 settings; 5 requests on 3 documents; 5 requests and searches under 4 deployments, vectors of 2 lengths, writes and deletes cut anywhere | 170,120 | LibraryInv, OwnVectors, FailsForAReason, FusedRanking, ChunksCover, ParentsLead, PruneIsExact, DoctorIsRight |

Four runs are findings; see section 5.

Why the bounds are enough. Two jobs with two workers give every pair that can
meet: two workers, a worker and the scan, a worker and a Submit, the sweeper and
any of them. Two crashes let recovery itself be interrupted and run again; the
first leaves files in any of the shapes that the second scan has to handle. In
`queue_liveness` a channel of one is smaller than the two jobs a scan may find,
so that Start and Submit block on it. Documents do not interact except for
`db.mu`, so one document with two requests has the interleavings of the store;
its versions share a chunk, have chunks of their own, and include the version
that is deleted before it turns out to be too short to store. With three keys in
a cache of two an insert evicts, and two changes let a search read before the
first write, between the two, or after both. With a TTL of one tick an entry
lives through one tick and expires at the second.
In the chat three messages over a session of two exchanges make it trim, two
tabs make one write where the other has cleared, and the prompt's limits are small
enough that a history of two exchanges meets each of them; the model's replies hold
a URL that a source quotes, one that no source has, and both kinds of "Links:" line. In the web model two
requests at a time are the pairs that can meet between a store's accesses; two
session ids let one user hold a session that is logged out and a newer one; a
bucket of two tokens is emptied, overdrawn by overlapping refusals, refilled and
pruned within four ticks. In the library a body of four lines has a section before
its first header, one that is too short, nested and sibling headers, and lines that
overlap when it is cut by size; three documents give a prune something to keep,
something to delete and something that came meanwhile, and one of its requests is a
dry run; writes and deletes stop at any chunk in the two workloads about several
documents, and not in the one about any file, which would only multiply it; four deployments differ in
model, sizes, place of the index, dimension and provider.
The bounds are the constants MaxCrashes, MaxFaults, MaxCorpus, MaxRestarts,
MaxClears and MaxDebt, the steps of a workload, and the sizes of the sets; one
ingest and one prune are under way at a time in the library, and searches and
doctor are asked while neither is; symmetry is used only in runs that check no liveness.

Deadlock is not checked in the queue's runs, where a server whose clients submit
nothing more may be at rest, nor in the store's, where a metadata update may
leave everyone waiting for `db.mu` (a finding). In `chat_safety`, `web` and
`library` a behaviour ends when its messages, ticks or requests are used up.

Fairness. Goroutines are scheduled, so each worker, scan, Submit and request
gets weak fairness on its steps. IngestDocument and embedding calls return: they
carry timeouts. `Start` is weakly fair: a supervisor restarts a dead process.
A request that needs `db.mu` gets strong fairness, because `sync.RWMutex`
hands the lock to those who wait. For the cache, time passes. Nothing obliges
a client to call, an operator to stop the queue, the sweeper to find anything, a
write to come to its Clear or a call to fail.

AcceptedIsSettled is checked with restarts slower than the threshold of five
seconds; with quicker ones it does not hold (see `queue_restart`). It also
excepts a job whose file a crash cut short, and a queue that was stopped.

## 4. Theorems

Every safety invariant and every action property that a passing run checks is
also a theorem of its specification, for every value of the constants: any number
of jobs, workers, documents, chunks, versions, requests, keys, tabs, messages,
users, batches, crashes and failing calls, and documents, replies and histories of
any length. `PROJECT.json` lists the theorems. None of the properties is
inductive by itself; what follows is the invariant behind each. The runs of the
queue and the store check theirs (both called IInv) with TLC as well; the others
name sets that TLC cannot enumerate, such as all sequences of messages.

**JobQueueProofs.** `Invariance` is `Spec => []IInv`; from it TypeCorrect, OneFile,
OneRun, WorkIsOwned, FinishedStays, NothingVanishes and QueueImplementsLedger.
IInv is an argument of ownership. *Exclusive*: a job is in at most one hand,
whether a worker's, the channel's, an entry the scan has still to look at, the
entry it is at, or its Submit call's. *Files*: what that hand relies on about the
two files, for instance that a worker past its claim finds the claim there and
that an id in the channel has a pending `<id>.json`. *Runs*: nobody who has still
to ingest a job follows anyone who has. *Claims*: the claim of a worker's job is
unfinished, or cut short, until the worker has written the outcome. *Tended*:
unfinished work on disk is in some hand, or is a claim that the scan spared,
unless a file operation failed or the queue was stopped.
*Shape*: what the program counters say of the records. QueueImplementsLedger goes
action by action: under `LedgerOf` each step of the queue moves one job one
step in the ledger, or none, and it is IInv that says which.

**DocumentStoreProofs.** `StoreInvariance`, and from it IngestExact, ClearExact and
QuietDocs. IInv says who holds `db.mu` (*Shape*), that a request marked alone is
the only one for its document (*AloneIsAlone*), and what such a request knows of
its document at each step (*Exact*), for instance that while it adds, the
collection holds exactly the chunks it has added. Nothing is assumed of what the
stores held when the request began, so whatever earlier failures, crashes and
conflicts left is covered. QuietDocs adds *Quiet*, about the documents that nothing
has disturbed: the requests for one are either any number of ingests of one
version, which between them still delete what is stale and still add what is
missing (*Team*), or one request of another kind (*Solo*); when there is none the
stores agree.
`Fits`, that a document's chunks fit one query of 1000 results, is a premise:
without it ClearExact is false, since a delete removes what its query returned
(`db.go:745`).

**QueryCacheProofs.** `MapAndList` (CacheInv is inductive), `StaleExplained`, whose
StaleInv adds what a result in hand must satisfy before it is inserted, and
`LeastRecentlyUsed`: a key used since the last Clear has before it in the list
only keys used after it, fewer than the capacity (*Recent*).

**RepliesProofs, ChatSessionsProofs.** `SessionsAreExact`: a session's history is
what the exchanges of its last MaxTurns answered messages make, through every trim
(*HistoryIsRecent*). `FreshAfterPrivateMode`, from *Private*: a request in flight
for a cleared session is stale, and the browser keeps that session's cookie only
until the answer to the clear. `FormatIsShown` and `NoLinkIsInvented` follow from
lemmas on the passes of a reply, since the page is always the rendering of one
reply (*Fragment*). `ShortTalkGoesWhole` is about NormalizeHistory, `KindsAreKept`
about steps.

**WebProofs.** `WebInvariance`; from it AllowedOnly, LogoutFinal, SlotsExact,
PruneInvisible and RefusalFree. WebInv says what a request holds at each step
(*Shape*); that sessions, renewals in flight and handlers belong to users who were let
in (*Identity*); that an id that was logged out is dead unless it was being renewed
(*Logouts*); and how a client's bucket compares with one that is never pruned
(*Meters*): each pending refusal has a lead of its own in both, a client whose
refusals never overlapped owes one token at most, and an idle bucket has gained
the rate for every tick. That pruning is no gain to a client has a premise,
`RefillsInTime`: with a burst larger than what ten minutes add, which the
configuration allows, a pruned client gets a full bucket early.

**ListProofs, LibraryProofs.** `VersionsAreWhole`, `VectorsFindTheirTexts`,
`RefusalsHaveReasons`, `ParentsAreStored`, `NothingIsLeftOut`,
`PruningLeavesTheRest`, `DoctorTellsDimensions` and `RankingsAreFused`.
The invariant is StepInv. *Stored*: a chunk is of a process of its directory, with
its own vector, of that process's length. *Versions*: what is stored of a document
comes from one version of it, and quotes it; of a document that no write or delete has
left in part, all of that version is stored, its parents are, and its lines are
covered. A step stores a version, or a part of it, where there was none, or it only
takes away (*Shrinks*).
*Flowing*: the ingest under way has cut its document as its process is
configured, its batches one after the other are the texts, and nothing is stored
of that document. *Pruning*: what it was asked to leave, what it has still to
delete and what came since is all there is, and what it was asked to leave is as it
was, chunk by chunk, unless others have written or deleted it since. RankingsAreFused adds that what is
stored is finite (*Finite*), without which no chunk need be the nearest.
These rest on lemmas about the operators, for inputs of any length: sections
partition the lines and the cut by size passes over none; the parent found by the
stack of headers is the nearest chunk of a higher level above; the batches joined
are the texts, and vectors put back by offset meet them, in whatever order they
came; sorting gives each chunk once and in order, whichever is chosen among
equals; who is behind in neither ranking has the higher score.

Induction. The library's induction theorems take an operator as a parameter, which
the installed provers cannot instantiate. The lemmas that need induction take a
least counterexample instead (`NatMin`, `Climbs`, `SequenceInduction` in ListProofs,
over a set where the library has a predicate), and `RecursiveFunction` says that a
function defined by recursion over numbers exists. For this the loops of the code
are recursive functions in Lists, Replies, ChatSessions, Chunker and Ranking.

Premises. The ASSUMEs of the modules: sentinels differ from the values they stand
apart from; the pool of workers is finite and not empty, the chunks of a document and the
requests at a time are finite; bounds, TTLs, capacities and limits are numbers of the
range that the code gives them. ChatSessions: what a model answers is a finite
sequence whose citations have numbers, a search returns a finite list, a text quotes
finitely many URLs. Library:
files and issues are lines with a level and a length, and a file has at least one
(splitting a string leaves one, perhaps empty); an embedding has at least one
component; the YAML and the environment decode numbers as numbers. TLC
evaluates each ASSUME in the runs. `Fits` and `RefillsInTime` are no assumptions
but premises inside the properties that need them.

What the proofs changed. LinksComeFromSources was false as it stood for a citation
after a "Links:" line, which the code drops with the rest of that section; no
instance had one. The distance and the best term of a chunk without words were
undefined; such a chunk is now the farthest, and matches nothing. PruneIsInvisible had no premise, and the instance met it.

Only model-checked: the liveness properties AcceptedIsSettled, StartReturns,
StopDrains, SubmitReturns, OpsReturn and EventuallyFresh, which need fairness and
ENABLED; and the four runs of section 5, which refute.

## 5. Findings

Each is a run that TLC refutes, for a statement of the repository.

- `queue_restart`: README.md:668 says any unfinished job is re-enqueued on
  startup. After a crash and a restart within five seconds, the scan takes the
  dead process's claim for a live peer's (`jobs.go:518`), and nothing scans
  again.
- `store_update`: README.md:839 says bulk-update returns per-item results.
  `UpdateDocumentMetadata` holds `db.mu` and calls `AddChunksBatch`, which
  locks it again (`db.go:329`): it never returns, after having deleted the chunks.
- `store_heal`: `operations.go:132` says the next ingest repairs a failed index
  write. The fingerprint is already stored, so the next ingest of the same
  document is a no-op (`operations.go:62`).
- `library_model`: `db.go:51` and `db.go:71` say that the marker binds the directory
  to one embedding model and makes a start with another one fail. Only `AddChunk`
  writes it (`db.go:250`), which nothing calls; `AddChunksBatch` (`db.go:476`) does
  not. So a process with another model of the same dimension starts and searches
  vectors of the old one.

Differences between the code and its documents that were met while modelling, and
that the models take as the code has them:

- Queue and store. While a job runs, `<id>.json` is renamed away and Get reads
  nothing else, so a poll gets 404 where README.md:646 promises `processing`. A
  delete removes the chunks that one query of at most 1000 results returned
  (`db.go:745`), not all of them as `db.go:722` says.
- Cache. A search that read the stores before an ingest may insert after its Clear
  (`cache.go:155-173`); README.md:977 says ingest evicts what it affects.
- Sessions. Activity slides a session's expiry at the server, but the cookie is set
  at login only (`oauth.go:694`), so an active user is signed out after one TTL;
  README.md:559 describes a sliding one. `session_ttl: 0`, which README.md:97 says
  means no expiry, becomes 12 hours (`server.go:340`). `rate_limit.go:153` says that a refused request
  takes no token: of two that overlap, the second may see the tokens of the first's
  reservation gone.
- Chat. The heuristic for answers that start by thinking aloud shows an answer of a
  single such paragraph as empty (`thinking.go:86-88`). The history keeps the
  model's raw reply, scratchpad included. When the prompt's 8000 characters run
  out, it is the newest messages that are dropped.
- Configuration. A `persistence_dir` that the file names counts as the default: it
  is overwritten by `<data>/vectors` unless `VECTOR_DB_DIR` names another one than
  the file (`config.go:564-593`), against README.md:119. `Validate` is called by doctor
  only. `vector reset` leaves an index whose directory is configured elsewhere
  (README.md:307). Doctor's message for a stored dimension is in a branch that
  chromem's error comes before.
- Parser and chunker. Without a blank line after the front matter the body loses
  its first character. Titles that start with "[" go into the YAML unquoted.
  Sections below the minimum are dropped before the pass that would merge small
  chunks, which therefore never has any. The maximum does not apply to sections with
  headers. The header path of a chunk lists earlier siblings' subsections. A new
  version whose body is the same and whose tags differ is skipped.
- Search. The date filters do nothing for keyword and hybrid searches. The tag
  filter of the collection compares the joined list with one tag. README.md:324 says
  the best hit of either list always surfaces: with small limits it need not.

## 6. What the models leave out

**In the modelled parts.** Two processes over one job directory (the claims allow
for it; the server does not start it so). The contents of files, documents and
results beyond what section 2 names. Clock comparisons, which become choices or
ticks. The queue's Stats, Depth, List and Get, which only read. Submit's loss of a race
with Stop (`jobs.go:339`) and the failure that Stop persists for a job it cancelled
(`jobs.go:433-448`) are steps of the model, and no property forbids them. `AddChunk`,
which no production path calls. The cache's counters, and its post-filters, which copy before
they drop. The search results that requests share and into which
`enrichWith*URLs` writes (`query.go:78`): the strings are the same each time, and
what a racing reader could see is not modelled. How near or how well matched texts
are, and the dates of the search filters. Details of the reply passes that only
concern wording and markdown. chromem keeps a collection in memory and in files, which a
failed delete or add may leave apart until the next start; the models have one
collection, and any part of the document in it.
`vector reset` removes its directory in one step; cut short it leaves a part, which
the next reset removes. A negative chunk overlap repeats nothing, as in the code,
though no instance has one. In Library one ingest and one prune run at a time;
DocumentStore has their overlaps, in its own terms. Its ingest is not composed with
JobQueue: a worker's ingest either returns or fails, and what a job that
recovery runs again does to a half-stored document is DocumentStore's crash
followed by another ingest.

**Not modelled.** HTTP routing, JSON decoding, CORS, the templates and their
fallbacks: stateless conversions. Batch uploads, the catalog, statistics and link
views, front matter suggestions and the MCP server: each is a loop over, or a
read of, what the models have, or one external call. Doctor's table of models and
its pings, SaveConfig, the prompts' texts and the query keys' spelling, logging
and request ids: formatting and I/O.

## 7. Plan

The safety properties are proved; liveness stays with TLC. What could be added:

1. An abstract specification of the store, one step per request, and the two
   stores shown to implement it for the requests that are alone; QuietDocsAgree and
   the two exactness properties are what such a refinement rests on.
2. JobQueue's ingest as DocumentStore's, for what a job that recovery runs again
   does to a half-stored document.
3. AllowedUserOK, Load and the passes of Parser against reference definitions.
4. The hazards in `PROJECT.json` that have no property, each with its reason there.
