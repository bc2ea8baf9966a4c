------------------------------- MODULE Library -------------------------------
(***************************************************************************)
(* The library as its operator and its users see it: processes that are    *)
(* configured, started and stopped one after the other over the same       *)
(* directories; documents that are parsed, cut into chunks, embedded in    *)
(* batches and stored; searches over what is stored; pruning; and the      *)
(* commands doctor and vector reset.                                       *)
(* (src/internal/service, src/internal/vector, src/cmd/root.go.)           *)
(*                                                                         *)
(* DocumentStore has the steps of one ingest among others and every write  *)
(* that can fail between two of them; here an ingest is seen at the calls  *)
(* it makes to the embeddings server.  What holds the lock of the          *)
(* collection throughout is one step here, with every outcome that an      *)
(* error or a crash on the way may leave.                                  *)
(***************************************************************************)
EXTENDS Parser, Chunker, Settings, Ranking

CONSTANTS
    Deployments,    \* a function from names to deployments (see Settings)
    Workloads,      \* a function from names to what one behaviour asks for
    Lengths,        \* of the vectors that an embeddings server may answer with
    NoUid,          \* the uid of a file without one
    Corrupt,        \* an index that cannot be opened
    None

\* Lines, each with its header level and its length.
IsText(lines) ==
    /\ lines \in Seq(Range(lines))
    /\ \A line \in Range(lines) : line \in [level : Nat, len : Nat, text : {line.text}]

ASSUME LibraryAssumption ==
    /\ None \notin DOMAIN Deployments /\ Corrupt # None
    /\ Lengths \subseteq Nat \ {0}
    /\ \A w \in DOMAIN Workloads :
        /\ Workloads[w].steps \in Nat /\ Workloads[w].lengths \subseteq Lengths
        /\ \A f \in Workloads[w].files : IsText(f.body) /\ f.body # <<>>
        /\ \A issue \in Workloads[w].issues :
            /\ issue.titleLen \in Nat /\ IsText(issue.description)
            /\ issue.notes \in Seq(Range(issue.notes))
            /\ \A n \in Range(issue.notes) : n.len \in Nat
        /\ \A r \in Workloads[w].searches :
            /\ r.limit \in Int
            /\ r.query.near \in Seq(Range(r.query.near))
            /\ r.query.terms \in Seq(Range(r.query.terms))

VARIABLES
    running,    \* the deployment of the process that runs, or None
    marker,     \* per directory, the model in its marker file, or None
    vec,        \* per directory, the chunks in its collection
    idx,        \* per path, the keyword index: None, Corrupt or its entries
    partial,    \* per directory, the documents of which a write or a delete
                \* that did not go through left a part (history)
    flow,       \* the ingest whose vectors are being computed, or None
    prune,      \* the pruning under way, or None
    answer,     \* the answer just given to a search or to doctor, or None
    workload,   \* the name of what this behaviour asks for
    left        \* how much of it is left (a bound)

contents == <<vec, idx, partial>>
vars == <<running, marker, contents, flow, prune, answer, workload, left>>

Asks == Workloads[workload]

Conf == [d \in {x \in DOMAIN Deployments : Loads(Deployments[x])} |-> Load(Deployments[d])]
Cut(d) == [max |-> Conf[d].max, min |-> Conf[d].min, overlap |-> Conf[d].overlap]
Dir(d) == Conf[d].persistence
Place(d) == ResolveKeywordIndexPath(Conf[d])
Dirs == {Dir(d) : d \in DOMAIN Conf}
Places == {Place(d) : d \in DOMAIN Conf}

\* Numbers are decoded as numbers, from YAML and from the environment.
ASSUME SettingsAssumption ==
    \A d \in DOMAIN Conf :
        /\ Conf[d].min \in Int
        /\ Conf[d].concurrency \in Int /\ Conf[d].gemmaConcurrency \in Int

IsOpen(index) == index # None /\ index # Corrupt

\* The chunks of a document.
Of(doc, chunks) == {c \in chunks : c.id.doc = doc}
Docs(chunks) == {c.id.doc : c \in chunks}

Here == vec[Dir(running)]
Indexed == idx[Place(running)]

Init ==
    /\ workload \in DOMAIN Workloads /\ left = Asks.steps
    /\ running = None
    /\ marker = [p \in Dirs |-> None]
    /\ vec = [p \in Dirs |-> {}]
    /\ idx = [p \in Places |-> None]
    /\ partial = [p \in Dirs |-> {}]
    /\ flow = None /\ prune = None /\ answer = None

\* Every step but the last of an answer is taken while no answer is pending.
Request ==
    answer = None /\ left > 0 /\ left' = left - 1 /\ UNCHANGED <<answer, workload>>
Reply == answer = None /\ UNCHANGED <<answer, workload, left>>

-----------------------------------------------------------------------------
(* The process. *)

\* An existing marker must name the configured model; a missing index is
\* created, one that cannot be opened is an error.
CheckModelMarker(d) == marker[Dir(d)] \in {None, Conf[d].model}

NewService(d) ==
    /\ d \in DOMAIN Conf /\ CheckModelMarker(d) /\ ClientExists(Conf[d])
    /\ idx[Place(d)] # Corrupt

LoadSearchIndex(d) ==
    idx' = [idx EXCEPT ![Place(d)] = IF @ = None THEN {} ELSE @]

Start(d) ==
    /\ Request
    /\ running = None /\ d \in Asks.deployments /\ NewService(d)
    /\ running' = d
    /\ LoadSearchIndex(d)
    /\ UNCHANGED <<marker, vec, partial, flow, prune>>

\* At a signal or in a crash: what has been stored stays.  A crash in the
\* midst of a write is the outcome of that write with a Stop after it.
Stop ==
    /\ Reply
    /\ running # None
    /\ running' = None /\ flow' = None /\ prune' = None
    /\ UNCHANGED <<marker, contents>>

\* While no process runs, an index is damaged or taken away.
LoseIndex(p, how) ==
    /\ Request
    /\ running = None /\ Asks.losesIndex /\ IsOpen(idx[p])
    /\ idx' = [idx EXCEPT ![p] = how]
    /\ UNCHANGED <<running, marker, vec, partial, flow, prune>>

\* vector reset --force removes the directory, with the marker and with the
\* index if it lies inside.
VectorReset(d) ==
    /\ Request
    /\ running = None /\ d \in Asks.deployments \cap DOMAIN Conf
    /\ vec' = [vec EXCEPT ![Dir(d)] = {}]
    /\ partial' = [partial EXCEPT ![Dir(d)] = {}]
    /\ marker' = [marker EXCEPT ![Dir(d)] = None]
    /\ idx' = [p \in Places |-> IF IsPrefix(Dir(d), p) THEN None ELSE idx[p]]
    /\ UNCHANGED <<running, flow, prune>>

-----------------------------------------------------------------------------
(* Embedding: the texts of a document in as many batches as may be sent at   *)
(* once, and the vectors put back by the offset of their batch.              *)

SplitTexts(texts, n) ==
    LET parts == Min({n, Len(texts)})
        size(i) == Len(texts) \div parts + (IF i <= Len(texts) % parts THEN 1 ELSE 0)
        before[i \in 1..parts + 1] == IF i = 1 THEN 0 ELSE before[i - 1] + size(i - 1)
    IN [i \in 1..parts |-> SubSeq(texts, before[i] + 1, before[i + 1])]

\* The texts after a batch are counted for those before it.
SumLengthsUpTo_After(batches, i) ==
    Len(FlattenSeq(SubSeq(batches, i + 1, Len(batches))))

\* The texts of the batches before the i-th.
SumLengthsUpTo(batches, i) ==
    Len(FlattenSeq(SubSeq(batches, 1, i - 1)))

\* A vector is known by the text it was computed from and by its length.
NoVector == [of |-> None, len |-> 0]

GenerateEmbeddingsBatch(batches, replies) ==
    LET n == Len(FlattenSeq(batches))
        start(i) == SumLengthsUpTo(batches, i)
        copied(k) == {i \in DOMAIN batches : k - start(i) \in DOMAIN batches[i]}
        vector(k, i) == [of |-> batches[i][k - start(i)].id, len |-> replies[i]]
    IN [k \in 1..n |-> IF copied(k) = {} THEN NoVector ELSE vector(k, Max(copied(k)))]

Awaited == 0
Refused == -1

-----------------------------------------------------------------------------
(* Ingest. *)

\* A query for the chunks of one document compares them with a vector of the
\* configured length, and fails if one has another.
QueryFails(chunks) == \E c \in chunks : c.len # Conf[running].dim

EntriesOf(doc) == {e \in Indexed : e.id.doc = doc}

\* What may remain of things that are deleted, or be written of things that are
\* written, one by one: any part.  Workloads without cuts bound this.
Parts(all, done) == IF Asks.cuts THEN SUBSET all ELSE {done}

\* The chunks of a document are deleted one by one, and then its entries: what
\* remains where an error or a crash ends this.
Remains(doc) ==
    { r \in [chunks : Parts(Of(doc, Here), {}), entries : Parts(EntriesOf(doc), {})] :
        r.chunks # {} => r.entries = EntriesOf(doc) }
AllGone == [chunks |-> {}, entries |-> {}]

\* Of what was stored of a document, these chunks are left.
Leaves(doc, chunks) ==
    partial' = [partial EXCEPT ![Dir(running)] =
                    IF chunks = {} THEN @ \ {doc}
                    ELSE IF chunks = Of(doc, Here) THEN @ ELSE @ \cup {doc}]

Without(doc, rest) ==
    /\ vec' = [vec EXCEPT ![Dir(running)] = (@ \ Of(doc, @)) \cup rest.chunks]
    /\ idx' = [idx EXCEPT ![Place(running)] = (@ \ EntriesOf(doc)) \cup rest.entries]
    /\ Leaves(doc, rest.chunks)

\* An older version stays in the collection.
Clear_IndexOnly(doc, rest) ==
    /\ idx' = [idx EXCEPT ![Place(running)] = (@ \ EntriesOf(doc)) \cup rest.entries]
    /\ UNCHANGED <<vec, partial>>

\* Before an ingest stores anything, an older version is deleted; where there
\* is none, the index is not looked at.
Clear(doc, rest) ==
    IF Of(doc, Here) = {} THEN rest = AllGone /\ UNCHANGED contents
    ELSE Without(doc, rest)

Free == running # None /\ flow = None

\* Another request writes or deletes a document; a pruning under way is not told.
Meanwhile(doc) ==
    prune' = IF prune = None THEN None ELSE [prune EXCEPT !.since = @ \cup {doc}]

\* A file that does not parse, one that is to be removed but cannot be looked
\* up, one that is stored as it is.
IngestNothing(f) ==
    /\ Request
    /\ Free
    /\ LET doc == ParseDocument(f)
           stored == Of(doc.id, Here)
       IN \/ ~Parses(f, NoUid)
          \/ QueryFails(stored)
          \/ IsUnpublished(f) /\ stored = {}
          \/ ~IsUnpublished(f) /\ \E c \in stored : c.fp = doc.fingerprint
    /\ UNCHANGED <<running, marker, contents, flow, prune>>

Accepted(f) == Free /\ Parses(f, NoUid) /\ ~QueryFails(Of(f.uid, Here))

IngestUnpublished(f) ==
    /\ Request
    /\ Accepted(f) /\ IsUnpublished(f) /\ Of(f.uid, Here) # {}
    /\ \E rest \in Remains(f.uid) : Without(f.uid, rest)
    /\ Meanwhile(f.uid)
    /\ UNCHANGED <<running, marker, flow>>

\* The vectors are asked for when the older version is gone.  A document of
\* which no section is long enough has nothing to embed, and that is all.
IngestDocument(f) ==
    /\ Request
    /\ Accepted(f) /\ ~IsUnpublished(f)
    /\ LET doc == ParseDocument(f)
           chunks == ChunkWithHierarchy(doc.id, doc.body, Cut(running))
           batches == SplitTexts(chunks, Concurrency(Conf[running]))
       IN /\ \A c \in Of(doc.id, Here) : c.fp # doc.fingerprint
          /\ \E rest \in Remains(doc.id) :
                /\ Clear(doc.id, rest)
                /\ flow' = IF rest # AllGone \/ chunks = <<>> THEN None
                           ELSE [doc |-> doc, batches |-> batches,
                                 replies |-> [i \in DOMAIN batches |-> Awaited]]
          /\ Meanwhile(doc.id)
    /\ UNCHANGED <<running, marker>>

\* An issue is written as a file and ingested like any other.
Submitted == Asks.files \cup {EnvelopeToMarkdown(i) : i \in Asks.issues}

EmbedReply(i, reply) ==
    /\ Reply
    /\ flow # None /\ i \in DOMAIN flow.batches /\ flow.replies[i] = Awaited
    /\ flow' = [flow EXCEPT !.replies[i] = reply]
    /\ UNCHANGED <<running, marker, contents, prune>>

AllReplied == flow # None /\ Awaited \notin Range(flow.replies)

Vectors == GenerateEmbeddingsBatch(flow.batches, flow.replies)

\* A vector of any length will do.
CheckEmbeddingDimension_Never(vectors) == \A i \in DOMAIN vectors : vectors[i].len > 0

\* A vector that has not the configured length is refused, and with it all.
CheckEmbeddingDimension(vectors) ==
    \A i \in DOMAIN vectors : vectors[i].len = Conf[running].dim

EmbeddingFails ==
    /\ Reply
    /\ AllReplied
    /\ Refused \in Range(flow.replies) \/ ~CheckEmbeddingDimension(Vectors)
    /\ flow' = None
    /\ UNCHANGED <<running, marker, contents, prune>>

\* What is stored of a chunk.  Two fields are history: "body" is what it was cut
\* from, "by" the deployment that stored it.
ToMetadata(doc, chunk, vector) ==
    [id |-> chunk.id, level |-> chunk.level, parent |-> chunk.parent,
     fp |-> doc.fingerprint, tags |-> doc.tags, kind |-> doc.kind,
     of |-> vector.of, len |-> vector.len, body |-> doc.body, by |-> running]

\* The chunks are added one by one, as far as it goes; when all are in, they are
\* written to the index, at once or not at all.
Store(indexed) ==
    /\ Reply
    /\ AllReplied /\ Refused \notin Range(flow.replies)
    /\ CheckEmbeddingDimension(Vectors)
    /\ LET chunks == FlattenSeq(flow.batches)
           vectors == Vectors
           all == {ToMetadata(flow.doc, chunks[k], vectors[k]) : k \in DOMAIN chunks}
           entries == {[id |-> c.id, tags |-> c.tags] : c \in all}
           ids == {c.id : c \in all}
       IN \E added \in Parts(all, all) :
          /\ vec' = [vec EXCEPT ![Dir(running)] =
                        {c \in @ : c.id \notin {a.id : a \in added}} \cup added]
          /\ partial' = [partial EXCEPT ![Dir(running)] =
                            IF added \in {{}, all} THEN @ ELSE @ \cup {flow.doc.id}]
          /\ indexed => added = all
          /\ idx' = IF indexed
                    THEN [idx EXCEPT ![Place(running)] =
                            {e \in @ : e.id \notin ids} \cup entries]
                    ELSE idx
    /\ flow' = None
    /\ Meanwhile(flow.doc.id)
    /\ UNCHANGED <<running, marker>>

-----------------------------------------------------------------------------
(* Deletes. *)

\* Nothing to delete is "not found".
DeleteFails(doc) == Of(doc, Here) = {} \/ QueryFails(Of(doc, Here))

DeleteDocument(doc) ==
    /\ Request
    /\ running # None /\ doc \in Asks.deletes
    /\ IF DeleteFails(doc) THEN UNCHANGED <<contents, prune>>
       ELSE (\E rest \in Remains(doc) : Without(doc, rest)) /\ Meanwhile(doc)
    /\ UNCHANGED <<running, marker, flow>>

\* The listing reads the whole collection.
ListDocuments == Docs(Here)

\* A list of what to keep is taken for one of what to delete.
PlanPrune_Inverted(listed, r) == listed \cap r.docs

\* A request names what to keep, or what to delete.
PlanPrune(listed, r) ==
    IF r.keeps THEN listed \ r.docs ELSE listed \cap r.docs

\* A dry run lists and plans, and that is all.  What was stored when the
\* documents were listed, and which documents others have written or deleted
\* since, are history.
PruneDocuments(r) ==
    /\ Request
    /\ running # None /\ prune = None /\ r \in Asks.prunes
    /\ prune' = IF QueryFails(Here) \/ r.dryRun THEN None
                ELSE [request |-> r, todo |-> PlanPrune(ListDocuments, r),
                      before |-> Here, since |-> {}]
    /\ UNCHANGED <<running, marker, contents, flow>>

\* The first document that cannot be deleted, or is gone already, ends it with
\* an error, and so does a delete that does not go through.
PruneNext(doc) ==
    /\ Reply
    /\ prune # None /\ doc \in prune.todo
    /\ IF DeleteFails(doc) THEN prune' = None /\ UNCHANGED contents
       ELSE \E rest \in Remains(doc) :
                /\ Without(doc, rest)
                /\ prune' = IF rest # AllGone THEN None
                            ELSE [prune EXCEPT !.todo = @ \ {doc}, !.since = @ \ {doc}]
    /\ UNCHANGED <<running, marker, flow>>

PruneDone == prune # None /\ prune.todo = {}

PruneReturns ==
    /\ Reply
    /\ PruneDone
    /\ prune' = None
    /\ UNCHANGED <<running, marker, contents, flow>>

-----------------------------------------------------------------------------
(* Searches, and doctor.  Both only read; they are asked while nothing else  *)
(* is under way, which is a bound.                                           *)

Quiet == flow = None /\ prune = None
Asked ==
    /\ answer = None /\ left > 0 /\ left' = left - 1
    /\ UNCHANGED <<running, marker, contents, flow, prune, workload>>

Search(r, len) ==
    /\ Asked
    /\ running # None /\ Quiet /\ r \in Asks.searches
    /\ answer' = [of |-> "search", r |-> r, len |-> len,
                  out |-> SearchHybrid(Here, Indexed, r, len)]

\* One chunk stands for all.
CheckStoreEmbeddingDimension_One(d) ==
    IF vec[Dir(d)] = {} THEN "empty"
    ELSE IF (CHOOSE c \in vec[Dir(d)] : TRUE).len # Conf[d].dim THEN "mixed"
    ELSE "matches"

\* Doctor opens the collection and asks it for one chunk, by a vector of the
\* configured length: whatever it finds, all chunks have been compared.
CheckStoreEmbeddingDimension(d) ==
    IF vec[Dir(d)] = {} THEN "empty"
    ELSE IF \E c \in vec[Dir(d)] : c.len # Conf[d].dim THEN "mixed"
    ELSE "matches"

Doctor(d) ==
    /\ Asked
    /\ Quiet /\ d \in Asks.doctors \cap DOMAIN Conf
    /\ answer' = [of |-> "doctor", d |-> d,
                  verdict |-> IF ~Validate(Conf[d]) THEN "invalid"
                              ELSE IF ~CheckModelMarker(d) THEN "other model"
                              ELSE CheckStoreEmbeddingDimension(d)]

Answered ==
    /\ answer # None /\ answer' = None
    /\ UNCHANGED <<running, marker, contents, flow, prune, workload, left>>

-----------------------------------------------------------------------------
IngestNext ==
    \/ \E f \in Submitted : IngestNothing(f) \/ IngestUnpublished(f) \/ IngestDocument(f)
    \/ flow # None /\ \E i \in DOMAIN flow.batches :
            \E reply \in Asks.lengths \cup {Refused} : EmbedReply(i, reply)
    \/ EmbeddingFails
    \/ \E indexed \in BOOLEAN : Store(indexed)

DeleteNext ==
    \/ \E doc \in Asks.deletes : DeleteDocument(doc)
    \/ \E r \in Asks.prunes : PruneDocuments(r)
    \/ prune # None /\ \E doc \in prune.todo : PruneNext(doc)
    \/ PruneReturns

OperatorNext ==
    \/ \E d \in DOMAIN Deployments : Start(d) \/ VectorReset(d) \/ Doctor(d)
    \/ Stop
    \/ \E p \in Places, how \in {None, Corrupt} : LoseIndex(p, how)

Next ==
    \/ OperatorNext \/ IngestNext \/ DeleteNext
    \/ \E r \in Asks.searches, len \in Lengths : Search(r, len)
    \/ Answered

Spec == Init /\ [][Next]_vars

-----------------------------------------------------------------------------
\* What is stored of a document was cut from one version of it, by one process,
\* as that is configured: all of it and nothing else, or a part where a write or
\* a delete did not go through (operations.go:58-125: an older version is
\* deleted before a newer one is stored).
WholeVersions ==
    \A p \in Dirs : \A doc \in Docs(vec[p]) :
        LET chunks == Of(doc, vec[p])
            ids == {c.id : c \in chunks}
            Version(c) == {x.id : x \in Range(ChunkWithHierarchy(doc, c.body, Cut(c.by)))}
        IN /\ \A c, d \in chunks : c.fp = d.fp /\ c.body = d.body /\ c.by = d.by
           /\ \A c \in chunks : ids \subseteq Version(c)
           /\ doc \notin partial[p] => \A c \in chunks : ids = Version(c)

Entries(index) == \A e \in index : {"id", "tags"} = DOMAIN e

LibraryInv ==
    /\ running \in DOMAIN Deployments \cup {None}
    /\ left \in 0..Asks.steps
    /\ \A p \in Dirs : \A c \in vec[p] : Dir(c.by) = p /\ c.len \in Lengths
    /\ \A p \in Places : IsOpen(idx[p]) => Entries(idx[p])
    /\ flow # None => running # None /\ \A i \in DOMAIN flow.replies :
            flow.replies[i] \in Lengths \cup {Awaited, Refused}
    /\ WholeVersions

\* Whatever the batches, and in whatever order they are answered, a chunk is
\* stored with the vector of its own text (openai_embeddings.go:198-262).
OwnVectors == \A p \in Dirs : \A c \in vec[p] : c.of = c.id

\* A search that is refused although the embeddings server and the index
\* answered was embedded at a length that is not the configured one, or met
\* chunks stored by a process with another one.  One that does not need the
\* collection is refused by the index only (db.go:520-560, hybrid.go:117-262).
FailsForAReason ==
    (answer # None /\ answer.of = "search" /\ ~answer.out.ok) =>
        LET r == answer.r
        IN IF r.mode = "semantic"
           THEN \/ ~r.embeds
                \/ answer.len # Conf[running].dim
                \/ \E c \in Here : Conf[c.by].dim # Conf[running].dim
           ELSE ~r.indexed

\* The ranks that a fused search is given, and the order that it may make of
\* them: what no list ranks below and one ranks above is not put behind.
Before(list, a, b) ==
    a \in ToSet(list) /\ (b \in ToSet(list) => Position(list, a) < Position(list, b))
NotBehind(list, a, b) == b \in ToSet(list) => Before(list, a, b)

\* A hybrid search answers with as many of the hits of both sides as the limit
\* lets, each once; one that is ahead of another on one side, and behind it on
\* none, is ahead of it in the answer; and with the collection failing it
\* answers with what the index ranks (hybrid.go:60-107, 203-262).
FusedRanking ==
    (answer # None /\ answer.of = "search" /\ answer.out.ok /\ answer.r.mode = "hybrid") =>
        LET r == answer.r
            wide == Limit(r.limit) * Headroom
            lost == ~r.embeds \/ VectorFails(Here, r.filter, answer.len)
            near == IF lost THEN <<>> ELSE VectorSearch(Here, r.query, wide, r.filter)
            found == KeywordSearch(Indexed, r.query, wide, r.filter)
            all == ToSet(near) \cup ToSet(found)
            hits == [i \in DOMAIN answer.out.hits |-> answer.out.hits[i].id]
            Ahead(a, b) ==
                /\ NotBehind(near, a, b) /\ NotBehind(found, a, b)
                /\ Before(near, a, b) \/ Before(found, a, b)
        IN r.filter.kinds = {} =>
            /\ ToSet(hits) \subseteq all /\ IsInjective(hits)
            /\ Len(hits) = Min({Limit(r.limit), Cardinality(all)})
            /\ lost => IsPrefix(hits, found)
            /\ \A a, b \in all :
                    Ahead(a, b) /\ b \in ToSet(hits) => /\ a \in ToSet(hits)
                                                        /\ Before(hits, a, b)

\* The lines of a section: of a header and what follows up to the next.
SectionOf(body, i) ==
    LET starts == {1} \cup ExtractHeaders(body)
        from == Max({j \in starts : j <= i})
        after == {j \in starts : j > i}
    IN from..(IF after = {} THEN Len(body) ELSE Min(after) - 1)

SectionLen(body, section) == JoinedLen(SubSeq(body, Min(section), Max(section)))

\* A chunk quotes the lines that it names; and every line of a document that is
\* wholly stored is in one of its chunks, but for the sections that are shorter
\* than the minimum (chunker.go:80-198).
ChunksCover ==
    \A p \in Dirs : \A c \in vec[p] :
        /\ c.id.words = [k \in 1..(c.id.to - c.id.from + 1) |-> c.body[c.id.from + k - 1].text]
        /\ c.id.doc \notin partial[p] => \A i \in DOMAIN c.body :
              \/ \E d \in Of(c.id.doc, vec[p]) : i \in d.id.from..d.id.to
              \/ /\ ExtractHeaders(c.body) # {}
                 /\ SectionLen(c.body, SectionOf(c.body, i)) < Cut(c.by).min

\* Of a document that is wholly stored, the parent of a chunk is stored too,
\* earlier, of a lower level, and none of a lower level lies between; a chunk
\* without a parent has no such chunk (chunker.go:288-321).
ParentsLead ==
    \A p \in Dirs : \A c \in vec[p] : c.id.doc \notin partial[p] =>
        LET above == {d \in Of(c.id.doc, vec[p]) : d.level < c.level /\ d.id.from < c.id.from}
        IN IF c.parent = <<>> THEN above = {}
           ELSE \E d \in above : /\ c.parent = <<d.id>>
                                 /\ \A e \in above : e.id.from <= d.id.from

\* When a pruning succeeds, of the documents that it listed those to be deleted
\* are gone, and those to be left are as they were, chunk by chunk; what others
\* have written or deleted since is theirs (huma_documents.go:205-252).
PruneIsExact ==
    PruneDone =>
        LET listed == Docs(prune.before)
            asked == IF prune.request.keeps THEN listed \cap prune.request.docs
                     ELSE listed \ prune.request.docs
        IN /\ Docs(Here) \subseteq asked \cup prune.since
           /\ \A doc \in asked \ prune.since : Of(doc, Here) = Of(doc, prune.before)

\* When doctor finds the stored dimension right, every chunk comes from a process
\* configured with it; when it finds it mixed, one does not (root.go:146-203).
DoctorIsRight ==
    (answer # None /\ answer.of = "doctor") =>
        LET others == {c \in vec[Dir(answer.d)] : Conf[c.by].dim # Conf[answer.d].dim}
        IN /\ answer.verdict = "matches" => others = {}
           /\ answer.verdict = "mixed" => others # {}

\* The vectors of the directory in use come from the embedding model that is
\* configured.  The code does not keep this: the marker that the start compares is
\* written by AddChunk only (db.go:250), which nothing calls.
OneModel ==
    running # None => \A c \in Here : Conf[c.by].model = Conf[running].model
=============================================================================
