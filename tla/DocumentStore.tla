---------------------------- MODULE DocumentStore ----------------------------
(***************************************************************************)
(* The two stores every document lives in, and the requests that change    *)
(* them: VectorOperations of src/internal/vector/operations.go over        *)
(* VectorDB (db.go, a chromem collection behind the mutex db.mu) and       *)
(* SearchIndex (search_index.go, a bleve index), with the preflight of     *)
(* src/internal/service/ingest.go.                                         *)
(*                                                                         *)
(* A version of a document is its fingerprint; it is cut into the chunks   *)
(* Content[v], whose ids depend only on the document and the text, so that *)
(* two versions share the chunks of their common sections.  What a chunk   *)
(* carries is abstracted to the fingerprint it was stored with.            *)
(***************************************************************************)
EXTENDS Naturals, FiniteSets

CONSTANTS
    Docs,
    Chunks,       \* chunk ids
    Versions,     \* document fingerprints
    Content,      \* Content[v]: the chunks version v is cut into
    NoVersion,    \* the chunk is not stored
    NoDoc,        \* no document: an idle request slot
    Ops,          \* the requests and queue workers that may run at once
    NoOp,         \* nobody holds db.mu
    QueryLimit,   \* the most chunks one chromem query returns (1000)
    MaxCrashes,   \* bound: process exits
    MaxFaults     \* bound: store, index or embedding calls that fail

ASSUME StoreAssumption ==
    /\ IsFiniteSet(Chunks)
    /\ Content \in [Versions -> SUBSET Chunks]
    /\ NoVersion \notin Versions
    /\ NoDoc \notin Docs
    /\ NoOp \notin Ops
    /\ QueryLimit \in Nat \ {0}
    /\ MaxCrashes \in Nat
    /\ MaxFaults \in Nat

VARIABLES
    vec,        \* vec[d][c]: the fingerprint chunk c of d is stored with
    text,       \* text[d]: the chunks of d in the keyword index
    mu,         \* the holder of db.mu's write lock
    op,         \* the running requests
    disturbed,  \* documents that met an error, a crash or a conflicting
                \* request                                        (history)
    crashes,
    faults

stores == <<vec, text>>
vars == <<vec, text, mu, op, disturbed, crashes, faults>>

-----------------------------------------------------------------------------
Kinds == {"ingest", "unpublish", "delete", "deleteChunk", "update"}
HoldsMu == {"vecDelete", "vecAdd", "updDelete"}
PCs == HoldsMu \cup {"idle", "check", "vecFind", "textFind", "textDelete",
                     "embed", "vecLock", "textAdd", "chunkDelete", "updFind"}
Outcomes == {"none", "ok", "unchanged", "not found", "error"}

OpState == [pc : PCs, kind : Kinds, doc : Docs \cup {NoDoc},
            ver : Versions \cup {NoVersion},
            todo : SUBSET Chunks,  \* what a loop has still to go through
            refresh : BOOLEAN,     \* an older version was there to clear
            alone : BOOLEAN,       \* no other request for doc ran (history)
            out : Outcomes]        \* how the last request ended

TypeOK ==
    /\ vec \in [Docs -> [Chunks -> Versions \cup {NoVersion}]]
    /\ text \in [Docs -> SUBSET Chunks]
    /\ mu \in Ops \cup {NoOp}
    /\ op \in [Ops -> OpState]
    /\ disturbed \subseteq Docs
    /\ crashes \in 0..MaxCrashes
    /\ faults \in 0..MaxFaults

Idle(o) == op[o].pc = "idle"
Busy(d) == {o \in Ops : ~Idle(o) /\ op[o].doc = d}
Stored(d) == {c \in Chunks : vec[d][c] # NoVersion}
Fingerprints(d) == {vec[d][c] : c \in Stored(d)}

IdleOp(out) == [pc |-> "idle", kind |-> "ingest", doc |-> NoDoc,
                ver |-> NoVersion, todo |-> {}, refresh |-> FALSE,
                alone |-> TRUE, out |-> out]

Init ==
    /\ vec = [d \in Docs |-> [c \in Chunks |-> NoVersion]]
    /\ text = [d \in Docs |-> {}]
    /\ mu = NoOp
    /\ op = [o \in Ops |-> IdleOp("none")]
    /\ disturbed = {}
    /\ crashes = 0
    /\ faults = 0

-----------------------------------------------------------------------------
(* A request begins.  Nothing keeps two requests for one document apart.   *)
(* Two ingests of the same version do not conflict.                        *)

Conflicts(p, kind, v) == ~(op[p].kind = "ingest" /\ kind = "ingest" /\ op[p].ver = v)

Begin(o, r) ==
    LET d == r.doc IN
    /\ Idle(o)
    /\ op' = [p \in Ops |->
                IF p = o THEN [r EXCEPT !.alone = Busy(d) = {}]
                ELSE IF p \in Busy(d) THEN [op[p] EXCEPT !.alone = FALSE]
                ELSE op[p]]
    /\ disturbed' = IF \E p \in Busy(d) : Conflicts(p, r.kind, r.ver)
                    THEN disturbed \cup {d} ELSE disturbed
    /\ UNCHANGED <<stores, mu, crashes, faults>>

Request(kind, pc, d) == [IdleOp("none") EXCEPT !.kind = kind, !.pc = pc, !.doc = d]

BeginIngest(o, d, v) ==
    Begin(o, [Request("ingest", "check", d) EXCEPT !.ver = v])

\* An ingest of a document whose front matter says it is not to be published.
BeginUnpublish(o, d) == Begin(o, Request("unpublish", "check", d))

BeginDelete(o, d) == Begin(o, Request("delete", "vecFind", d))

BeginDeleteChunk(o, d, c) ==
    Begin(o, [Request("deleteChunk", "chunkDelete", d) EXCEPT !.todo = {c}])

BeginUpdate(o, d) == Begin(o, Request("update", "updFind", d))

----------------------------------------------------------------------------
(* How the steps of a request end.                                         *)

Goto(o, pc, todo) == op' = [op EXCEPT ![o].pc = pc, ![o].todo = todo]
Return(o, out) == op' = [op EXCEPT ![o] = IdleOp(out)]

MuFree == mu = NoOp
Lock(o) == mu' = o
Unlock == mu' = NoOp

\* Clearing the document is done: an ingest goes on to embed the new chunks,
\* the other requests return.
Cleared(o) ==
    IF op[o].kind = "ingest" THEN Goto(o, "embed", {}) ELSE Return(o, "ok")

\* DocumentNeedsUpdate, or GetDocumentFingerprint of the preflight: under the
\* read lock, the fingerprint of one stored chunk stands for the document.
Check(o) ==
    LET d == op[o].doc IN
    /\ op[o].pc = "check"
    /\ MuFree
    /\ \/ /\ Stored(d) = {}
          /\ op[o].kind = "ingest"
          /\ Goto(o, "embed", {})
       \/ /\ Stored(d) = {}
          /\ op[o].kind = "unpublish"
          /\ Return(o, "ok")
       \/ /\ op[o].kind = "ingest"
          /\ op[o].ver \in Fingerprints(d)
          /\ Return(o, "unchanged")
       \/ /\ \E f \in Fingerprints(d) : f # op[o].ver
          /\ op' = [op EXCEPT ![o].pc = "vecFind",
                              ![o].refresh = op[o].kind = "ingest"]
    /\ UNCHANGED <<stores, mu, disturbed, crashes, faults>>

Found_FirstHit(d) == {T \in SUBSET Stored(d) : Cardinality(T) = 1}

\* The chunks one query with a document_id filter finds.
Found(d) == {T \in SUBSET Stored(d) :
                \/ T = Stored(d) /\ Cardinality(T) <= QueryLimit
                \/ Cardinality(T) = QueryLimit}

\* VectorDB.DeleteDocument: find the chunks, then delete them one by one, all
\* under db.mu.
VecFind(o) ==
    LET d == op[o].doc IN
    /\ op[o].pc = "vecFind"
    /\ MuFree
    /\ \/ /\ Stored(d) = {}
          /\ Return(o, "not found")
          /\ UNCHANGED mu
       \/ /\ Stored(d) # {}
          /\ \E T \in Found(d) : Goto(o, "vecDelete", T)
          /\ Lock(o)
    /\ UNCHANGED <<stores, disturbed, crashes, faults>>

VecDelete_VectorOnly(o) ==
    LET d == op[o].doc IN
    /\ op[o].pc = "vecDelete"
    /\ \E c \in op[o].todo :
         /\ vec' = [vec EXCEPT ![d][c] = NoVersion]
         /\ IF op[o].todo = {c}
            THEN Cleared(o) /\ Unlock
            ELSE Goto(o, "vecDelete", op[o].todo \ {c}) /\ UNCHANGED mu
    /\ UNCHANGED <<text, disturbed, crashes, faults>>

VecDelete(o) ==
    LET d == op[o].doc IN
    /\ op[o].pc = "vecDelete"
    /\ \E c \in op[o].todo :
         /\ vec' = [vec EXCEPT ![d][c] = NoVersion]
         /\ IF op[o].todo = {c}
            THEN Goto(o, "textFind", {}) /\ Unlock
            ELSE Goto(o, "vecDelete", op[o].todo \ {c}) /\ UNCHANGED mu
    /\ UNCHANGED <<text, disturbed, crashes, faults>>

\* SearchIndex.DeleteDocument: scan, then delete each hit; no lock is held.
TextFind(o) ==
    LET hits == text[op[o].doc] IN
    /\ op[o].pc = "textFind"
    /\ IF hits = {} THEN Cleared(o) ELSE Goto(o, "textDelete", hits)
    /\ UNCHANGED <<stores, mu, disturbed, crashes, faults>>

\* Also the whole of SearchIndex.DeleteChunk.
TextDelete(o) ==
    /\ op[o].pc = "textDelete"
    /\ \E c \in op[o].todo :
         /\ text' = [text EXCEPT ![op[o].doc] = @ \ {c}]
         /\ IF op[o].todo = {c} THEN Cleared(o)
            ELSE Goto(o, "textDelete", op[o].todo \ {c})
    /\ UNCHANGED <<vec, mu, disturbed, crashes, faults>>

----------------------------------------------------------------------------
(* The rest of IngestDocument: embed, add to the collection, mirror.       *)

\* A document too short to make a chunk is an error here, not before.
Embed(o) ==
    LET chunks == Content[op[o].ver] IN
    /\ op[o].pc = "embed"
    /\ IF chunks = {} THEN Return(o, "error") ELSE Goto(o, "vecLock", chunks)
    /\ UNCHANGED <<stores, mu, disturbed, crashes, faults>>

\* AddChunksBatch takes db.mu, whoever calls it; sync.RWMutex does not nest.
VecLock(o) ==
    /\ op[o].pc = "vecLock"
    /\ MuFree
    /\ Lock(o)
    /\ Goto(o, "vecAdd", op[o].todo)
    /\ UNCHANGED <<stores, disturbed, crashes, faults>>

VecAdd(o) ==
    LET d == op[o].doc IN
    /\ op[o].pc = "vecAdd"
    /\ \E c \in op[o].todo :
         /\ vec' = [vec EXCEPT ![d][c] = op[o].ver]
         /\ IF op[o].todo = {c}
            THEN Goto(o, "textAdd", {}) /\ Unlock
            ELSE Goto(o, "vecAdd", op[o].todo \ {c}) /\ UNCHANGED mu
    /\ UNCHANGED <<text, disturbed, crashes, faults>>

\* One atomic bleve batch.
TextAdd(o) ==
    /\ op[o].pc = "textAdd"
    /\ text' = [text EXCEPT ![op[o].doc] = @ \cup Content[op[o].ver]]
    /\ Return(o, "ok")
    /\ UNCHANGED <<vec, mu, disturbed, crashes, faults>>

----------------------------------------------------------------------------
(* DeleteChunk, and UpdateDocumentMetadata.                                *)

ChunkDelete_VectorOnly(o) ==
    /\ op[o].pc = "chunkDelete"
    /\ MuFree
    /\ \E c \in op[o].todo : vec' = [vec EXCEPT ![op[o].doc][c] = NoVersion]
    /\ Return(o, "ok")
    /\ UNCHANGED <<text, mu, disturbed, crashes, faults>>

ChunkDelete(o) ==
    /\ op[o].pc = "chunkDelete"
    /\ MuFree
    /\ \E c \in op[o].todo : vec' = [vec EXCEPT ![op[o].doc][c] = NoVersion]
    /\ Goto(o, "textDelete", op[o].todo)
    /\ UNCHANGED <<text, mu, disturbed, crashes, faults>>

UpdFind(o) ==
    LET d == op[o].doc IN
    /\ op[o].pc = "updFind"
    /\ MuFree
    /\ \/ /\ Stored(d) = {}
          /\ Return(o, "not found")
          /\ UNCHANGED mu
       \/ /\ Stored(d) # {}
          /\ \E T \in Found(d) : Goto(o, "updDelete", T)
          /\ Lock(o)
    /\ UNCHANGED <<stores, disturbed, crashes, faults>>

\* The document's chunks are deleted from the collection, all of them, and
\* AddChunksBatch is called to put those found back.  It locks db.mu, which
\* this request holds: it is never seen to return.
UpdDelete(o) ==
    /\ op[o].pc = "updDelete"
    /\ vec' = [vec EXCEPT ![op[o].doc] = [c \in Chunks |-> NoVersion]]
    /\ Goto(o, "vecLock", op[o].todo)
    /\ UNCHANGED <<text, mu, disturbed, crashes, faults>>

----------------------------------------------------------------------------
(* Errors and crashes.                                                     *)

\* A request cut short here may leave the two stores disagreeing.  One that
\* overlapped another may have deleted what the other had indexed.
Halfway(o) ==
    \/ ~op[o].alone
    \/ op[o].pc \in {"vecDelete", "textFind", "textDelete", "vecAdd",
                     "textAdd", "updDelete"}
    \/ op[o].pc = "vecLock" /\ op[o].kind = "update"

NeedsMu(o) == op[o].pc \in {"check", "vecFind", "chunkDelete", "updFind", "vecLock"}

OpFails_KeepsMu(o) ==
    /\ ~Idle(o)
    /\ NeedsMu(o) => MuFree
    /\ faults < MaxFaults
    /\ faults' = faults + 1
    /\ Return(o, "error")
    /\ disturbed' = IF Halfway(o) THEN disturbed \cup {op[o].doc} ELSE disturbed
    /\ UNCHANGED <<stores, mu, crashes>>

\* A call into the collection, the index or the embedding service returns an
\* error: the request returns it at once, and its deferred unlock runs.
OpFails(o) ==
    /\ ~Idle(o)
    /\ NeedsMu(o) => MuFree
    /\ faults < MaxFaults
    /\ faults' = faults + 1
    /\ Return(o, "error")
    /\ mu' = IF mu = o THEN NoOp ELSE mu
    /\ disturbed' = IF Halfway(o) THEN disturbed \cup {op[o].doc} ELSE disturbed
    /\ UNCHANGED <<stores, crashes>>

Crash ==
    /\ crashes < MaxCrashes
    /\ crashes' = crashes + 1
    /\ op' = [o \in Ops |-> IdleOp("none")]
    /\ mu' = NoOp
    /\ disturbed' = disturbed \cup
                     {d \in Docs : \E o \in Busy(d) : Halfway(o)}
    /\ UNCHANGED <<stores, faults>>

OpStep(o) ==
    \/ Check(o)
    \/ VecFind(o)
    \/ VecDelete(o)
    \/ TextFind(o)
    \/ TextDelete(o)
    \/ Embed(o)
    \/ VecLock(o)
    \/ VecAdd(o)
    \/ TextAdd(o)
    \/ ChunkDelete(o)
    \/ UpdFind(o)
    \/ UpdDelete(o)

Next ==
    \/ \E o \in Ops, d \in Docs :
         \/ \E v \in Versions : BeginIngest(o, d, v)
         \/ BeginUnpublish(o, d)
         \/ BeginDelete(o, d)
         \/ \E c \in Chunks : BeginDeleteChunk(o, d, c)
         \/ BeginUpdate(o, d)
    \/ \E o \in Ops : OpStep(o) \/ OpFails(o)
    \/ Crash

Spec == Init /\ [][Next]_vars

\* Goroutines are scheduled; calls into the stores return and embedding calls
\* carry timeouts; sync.RWMutex starves no one who waits for it.
Fairness ==
    \A o \in Ops : WF_vars(OpStep(o)) /\ SF_vars(NeedsMu(o) /\ OpStep(o))

FairSpec == Spec /\ Fairness

-----------------------------------------------------------------------------
(* Safety.                                                                 *)

\* The documents fit the result limit of one chromem query.
Fits == Cardinality(Chunks) <= QueryLimit

\* Between requests the two stores agree on a document and hold chunks of one
\* version of it, unless a call failed or the process died half way through a
\* request, or conflicting requests for it overlapped.  Overlapping ingests of
\* one version are no conflict: chunk ids are deterministic.
QuietDocsAgree ==
    Fits => \A d \in Docs \ disturbed :
        Busy(d) = {} =>
            /\ text[d] = Stored(d)
            /\ \A c \in Stored(d) : c \in Content[vec[d][c]]
            /\ Cardinality(Fingerprints(d)) <= 1

Returns(o, out) == ~Idle(o) /\ op'[o] = IdleOp(out)

\* An ingest that stored the document and met no other request for it leaves
\* exactly its own chunks in the collection, and, if it replaced an older
\* version, in the keyword index too, whatever earlier failures, crashes and
\* conflicts had left there: a new version repairs the document.
IngestIsExact ==
    [][Fits => \A o \in Ops, d \in Docs, v \in Versions :
         /\ op[o].kind = "ingest" /\ op[o].doc = d /\ op[o].ver = v
         /\ op[o].alone
         /\ Returns(o, "ok")
         => /\ \A c \in Chunks :
                 vec'[d][c] = IF c \in Content[v] THEN v ELSE NoVersion
            /\ op[o].refresh => text'[d] = Content[v]]_vars

\* A delete, or an unpublish that found the document, that succeeds alone
\* leaves nothing of it in either store, whatever was there before.
ClearIsExact ==
    [][Fits => \A o \in Ops, d \in Docs :
         /\ op[o].kind \in {"delete", "unpublish"} /\ op[o].doc = d
         /\ op[o].pc # "check"
         /\ op[o].alone
         /\ Returns(o, "ok")
         => Stored(d)' = {} /\ text'[d] = {}]_vars

\* operations.go:132, on a keyword index write that failed: "the next
\* re-ingest will hit the needsUpdate path and clean up both stores (so
\* partial state self-heals)".  Refuted: see the README's findings.
SelfHeals ==
    [][\A o \in Ops, d \in Docs :
         /\ op[o].kind = "ingest" /\ op[o].doc = d
         /\ op[o].alone
         /\ Returns(o, "ok") \/ Returns(o, "unchanged")
         => text'[d] = Stored(d)']_vars

-----------------------------------------------------------------------------
(* An inductive invariant for IngestIsExact and ClearIsExact.              *)

Owns(o) == op[o].pc \in HoldsMu \/ (op[o].pc = "vecLock" /\ op[o].kind = "update")

\* Which requests are where, and who holds db.mu.
KindsAt(pc) ==
    CASE pc = "idle" -> Kinds
      [] pc = "check" -> {"ingest", "unpublish"}
      [] pc \in {"vecFind", "vecDelete", "textFind"} ->
             {"ingest", "unpublish", "delete"}
      [] pc = "textDelete" -> {"ingest", "unpublish", "delete", "deleteChunk"}
      [] pc \in {"embed", "vecAdd", "textAdd"} -> {"ingest"}
      [] pc = "vecLock" -> {"ingest", "update"}
      [] pc = "chunkDelete" -> {"deleteChunk"}
      [] pc \in {"updFind", "updDelete"} -> {"update"}

WellPlaced(o) ==
    /\ op[o].kind \in KindsAt(op[o].pc)
    /\ ~Idle(o) => op[o].doc \in Docs
    /\ ~Idle(o) /\ op[o].kind = "ingest" => op[o].ver \in Versions
    /\ (mu = o <=> Owns(o))

Shape == \A o \in Ops : WellPlaced(o)

\* A request marked alone is the only one for its document.
AloneIsAlone ==
    \A o, p \in Ops :
        /\ ~Idle(o) /\ op[o].alone
        /\ ~Idle(p) /\ op[p].doc = op[o].doc
        => p = o

\* What a request that is alone knows of its document.
Holds(d, v, S) == \A c \in Chunks : vec[d][c] = IF c \in S THEN v ELSE NoVersion

Progress(o, d, v) ==
    LET emptied == op[o].refresh => text[d] = {} IN
    /\ op[o].pc = "check" => ~op[o].refresh
    /\ op[o].pc = "vecDelete" => op[o].todo = Stored(d)
    /\ op[o].pc = "textFind" => Stored(d) = {}
    /\ op[o].pc = "textDelete" /\ op[o].kind # "deleteChunk" =>
           Stored(d) = {} /\ op[o].todo = text[d]
    /\ op[o].pc = "embed" => Stored(d) = {} /\ emptied
    /\ op[o].pc = "vecLock" /\ op[o].kind = "ingest" =>
           Stored(d) = {} /\ emptied /\ op[o].todo = Content[v]
    /\ op[o].pc = "vecAdd" =>
           /\ op[o].todo \subseteq Content[v]
           /\ Holds(d, v, Content[v] \ op[o].todo) /\ emptied
    /\ op[o].pc = "textAdd" => Holds(d, v, Content[v]) /\ emptied

OnTrack(o) ==
    Fits /\ ~Idle(o) /\ op[o].alone => Progress(o, op[o].doc, op[o].ver)

Exact == \A o \in Ops : OnTrack(o)

IInv == TypeOK /\ Shape /\ AloneIsAlone /\ Exact

-----------------------------------------------------------------------------
(* Liveness, under FairSpec.                                               *)

\* Every request returns, through errors and contention for db.mu, unless a
\* metadata update has found its document.
OpsReturn ==
    \A o \in Ops : ~Idle(o) ~>
        Idle(o) \/ \E p \in Ops : op[p].kind = "update" /\ mu = p

\* README, "Bulk metadata updates": the endpoint "accepts an array of
\* `{document_id, patch}` pairs and returns per-item results".  Refuted: see
\* the README's findings.
UpdateReturns == \A o \in Ops : op[o].kind = "update" ~> Idle(o)

=============================================================================
