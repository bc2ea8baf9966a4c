------------------------ MODULE DocumentStoreProofs ------------------------
(***************************************************************************)
(* Proofs about DocumentStore: its inductive invariant IInv, that a        *)
(* request which meets no other for its document does exactly what it says *)
(* to both stores, whatever state they were in, and that the two stores    *)
(* agree on every document at rest.                                        *)
(***************************************************************************)
EXTENDS DocumentStore, FiniteSetTheorems, TLAPS

-----------------------------------------------------------------------------
(* Lemmas on the operators.                                                *)

\* A document that fits the query limit is found whole.
LEMMA FoundWhole ==
    ASSUME StoreAssumption, Fits, NEW d \in Docs, NEW T \in Found(d)
    PROVE  T = Stored(d)
<1>1. IsFiniteSet(Chunks) /\ Stored(d) \subseteq Chunks /\ T \subseteq Stored(d)
  BY DEF StoreAssumption, Stored, Found
<1>2. /\ IsFiniteSet(Stored(d))
      /\ Cardinality(Stored(d)) <= Cardinality(Chunks)
  BY <1>1, FS_Subset
<1>3. /\ IsFiniteSet(T)
      /\ Cardinality(T) <= Cardinality(Stored(d))
      /\ Cardinality(T) = Cardinality(Stored(d)) => T = Stored(d)
  BY <1>1, <1>2, FS_Subset
<1>4. /\ Cardinality(Chunks) \in Nat
      /\ Cardinality(Stored(d)) \in Nat
      /\ Cardinality(T) \in Nat
  BY <1>1, <1>2, <1>3, FS_CardinalityType
<1>5. CASE T = Stored(d)
  BY <1>5
<1>6. CASE Cardinality(T) = QueryLimit
  BY <1>2, <1>3, <1>4, <1>6 DEF Fits, StoreAssumption
<1> QED
  BY <1>5, <1>6 DEF Found

\* What moving on and returning do to the request's record.
LEMMA GotoFields ==
    ASSUME op \in [Ops -> OpState], NEW o \in Ops, NEW pc \in PCs,
           NEW todo \in SUBSET Chunks, Goto(o, pc, todo)
    PROVE  /\ op' \in [Ops -> OpState]
           /\ op'[o].pc = pc
           /\ op'[o].todo = todo
           /\ op'[o].kind = op[o].kind
           /\ op'[o].doc = op[o].doc
           /\ op'[o].ver = op[o].ver
           /\ op'[o].refresh = op[o].refresh
           /\ op'[o].alone = op[o].alone
           /\ \A q \in Ops \ {o} : op'[q] = op[q]
<1>1. op[o] \in OpState
  OBVIOUS
<1>2. op' = [op EXCEPT ![o] = [op[o] EXCEPT !.pc = pc, !.todo = todo]]
  BY DEF Goto
<1>3. [op[o] EXCEPT !.pc = pc, !.todo = todo] \in OpState
  BY <1>1 DEF OpState
<1> QED
  BY <1>1, <1>2, <1>3 DEF OpState

LEMMA IdleFields ==
    ASSUME NEW out \in Outcomes
    PROVE  /\ IdleOp(out) \in OpState
           /\ IdleOp(out).pc = "idle"
           /\ IdleOp(out).kind = "ingest"
           /\ IdleOp(out).alone
           /\ IdleOp(out).out = out
  BY DEF IdleOp, OpState, PCs, Kinds, Outcomes

LEMMA ReturnFields ==
    ASSUME op \in [Ops -> OpState], NEW o \in Ops, NEW out \in Outcomes,
           Return(o, out)
    PROVE  /\ op' \in [Ops -> OpState]
           /\ op'[o].pc = "idle"
           /\ op'[o].kind = "ingest"
           /\ \A q \in Ops \ {o} : op'[q] = op[q]
<1>1. op' = [op EXCEPT ![o] = IdleOp(out)]
  BY DEF Return
<1> QED
  BY <1>1, IdleFields

-----------------------------------------------------------------------------
(* What every step of one request leaves alone, and what it keeps true.    *)

Framed(o) ==
    /\ ~Idle(o)
    /\ \A q \in Ops \ {o} : op'[q] = op[q]
    /\ \/ mu' = mu
       \/ mu = NoOp /\ mu' = o
       \/ mu = o /\ mu' = NoOp
    /\ \A d \in Docs \ {op[o].doc} : vec'[d] = vec[d] /\ text'[d] = text[d]
    /\ Idle(o)' \/ (op'[o].doc = op[o].doc /\ op'[o].alone = op[o].alone)

Sound(o) == TypeOK' /\ Framed(o) /\ WellPlaced(o)' /\ OnTrack(o)'

\* What the invariant says of one running request.
LEMMA Unfold ==
    ASSUME IInv, NEW o \in Ops, ~Idle(o)
    PROVE  /\ op \in [Ops -> OpState]
           /\ vec \in [Docs -> [Chunks -> Versions \cup {NoVersion}]]
           /\ text \in [Docs -> SUBSET Chunks]
           /\ op[o] \in OpState
           /\ op[o].todo \in SUBSET Chunks
           /\ op[o].doc \in Docs
           /\ WellPlaced(o)
           /\ OnTrack(o)
<1>1. op \in [Ops -> OpState] /\ WellPlaced(o) /\ OnTrack(o)
  BY DEF IInv, TypeOK, Shape, Exact
<1>2. op[o] \in OpState /\ op[o].doc \in Docs
  BY <1>1 DEF WellPlaced
<1>3. op[o].todo \in SUBSET Chunks
  BY <1>2 DEF OpState
<1> QED
  BY <1>1, <1>2, <1>3 DEF IInv, TypeOK

\* The stores and counters keep their types, and only o's document changes.
StoresFramed(o) ==
    /\ vec' \in [Docs -> [Chunks -> Versions \cup {NoVersion}]]
    /\ text' \in [Docs -> SUBSET Chunks]
    /\ \A d \in Docs \ {op[o].doc} : vec'[d] = vec[d] /\ text'[d] = text[d]
    /\ disturbed' \subseteq Docs
    /\ crashes' \in 0..MaxCrashes
    /\ faults' \in 0..MaxFaults

\* A request at pc holds db.mu exactly when this is true.
MustHold(o, pc) == pc \in HoldsMu \/ (pc = "vecLock" /\ op[o].kind = "update")

\* A step that moves on needs only what is particular to it to be shown sound.
LEMMA MovedOn ==
    ASSUME StoreAssumption, IInv, NEW o \in Ops, ~Idle(o),
           NEW pc \in PCs \ {"idle"}, NEW todo \in SUBSET Chunks,
           Goto(o, pc, todo), StoresFramed(o), op[o].kind \in KindsAt(pc),
           \/ mu' = mu /\ (mu = o <=> MustHold(o, pc))
           \/ mu = NoOp /\ mu' = o /\ MustHold(o, pc)
           \/ mu = o /\ mu' = NoOp /\ ~MustHold(o, pc)
    PROVE  /\ TypeOK' /\ Framed(o) /\ WellPlaced(o)'
           /\ op'[o].pc = pc /\ op'[o].todo = todo
           /\ op'[o].kind = op[o].kind /\ op'[o].doc = op[o].doc
           /\ op'[o].ver = op[o].ver /\ op'[o].refresh = op[o].refresh
           /\ op'[o].alone = op[o].alone
<1>1. op \in [Ops -> OpState] /\ WellPlaced(o) /\ op[o].doc \in Docs
  BY Unfold
<1>2. /\ op' \in [Ops -> OpState]
      /\ op'[o].pc = pc /\ op'[o].todo = todo
      /\ op'[o].kind = op[o].kind /\ op'[o].doc = op[o].doc
      /\ op'[o].ver = op[o].ver /\ op'[o].refresh = op[o].refresh
      /\ op'[o].alone = op[o].alone
      /\ \A q \in Ops \ {o} : op'[q] = op[q]
  BY <1>1, GotoFields
<1>3. mu' \in Ops \cup {NoOp}
  BY DEF IInv, TypeOK
<1>4. TypeOK'
  BY <1>2, <1>3 DEF StoresFramed, TypeOK
<1>5. Framed(o)
  BY <1>2 DEF Framed, StoresFramed
<1>6. mu' = o <=> MustHold(o, pc)
  BY DEF StoreAssumption
<1>7. WellPlaced(o)'
  BY <1>1, <1>2, <1>6 DEF WellPlaced, Owns, MustHold, Idle
<1> QED
  BY <1>2, <1>4, <1>5, <1>7

\* A step that returns is sound if it lets go of db.mu.
LEMMA Returned ==
    ASSUME StoreAssumption, IInv, NEW o \in Ops, ~Idle(o),
           NEW out \in Outcomes, Return(o, out), StoresFramed(o),
           mu' = mu \/ mu' = NoOp, mu = o => mu' = NoOp, mu # o => mu' = mu
    PROVE  Sound(o)
<1>1. op \in [Ops -> OpState]
  BY Unfold
<1>2. /\ op' \in [Ops -> OpState]
      /\ op'[o].pc = "idle" /\ op'[o].kind = "ingest"
      /\ \A q \in Ops \ {o} : op'[q] = op[q]
  BY <1>1, ReturnFields
<1>3. TypeOK'
  BY <1>2 DEF StoresFramed, TypeOK, IInv
<1>4. Framed(o)
  BY <1>2 DEF Framed, StoresFramed, Idle
<1>5. WellPlaced(o)'
  BY <1>2 DEF WellPlaced, KindsAt, Kinds, Owns, HoldsMu, Idle, StoreAssumption
<1>6. OnTrack(o)'
  BY <1>2 DEF OnTrack, Idle
<1> QED
  BY <1>3, <1>4, <1>5, <1>6 DEF Sound

\* Most steps leave the stores alone.
LEMMA StoresKept ==
    ASSUME IInv, NEW o \in Ops, UNCHANGED <<stores, disturbed, crashes, faults>>
    PROVE  StoresFramed(o)
  BY DEF IInv, TypeOK, StoresFramed, stores

-----------------------------------------------------------------------------
(* Each step is sound.                                                     *)

LEMMA VecDeleteSound ==
    ASSUME StoreAssumption, IInv, NEW o \in Ops, VecDelete(o)
    PROVE  Sound(o)
<1>0. /\ op[o].pc = "vecDelete" /\ ~Idle(o) /\ mu = o
      /\ op[o].kind \in {"ingest", "unpublish", "delete"}
  BY Unfold DEF VecDelete, Idle, Owns, HoldsMu, WellPlaced, KindsAt
<1> PICK d \in Docs : d = op[o].doc
  BY <1>0, Unfold
<1>1. PICK c \in op[o].todo :
         /\ vec' = [vec EXCEPT ![d][c] = NoVersion]
         /\ \/ op[o].todo = {c} /\ Goto(o, "textFind", {}) /\ Unlock
            \/ Goto(o, "vecDelete", op[o].todo \ {c}) /\ UNCHANGED mu
  BY DEF VecDelete
<1>2. c \in Chunks /\ op[o].todo \ {c} \in SUBSET Chunks
  BY <1>0, <1>1, Unfold
<1>3. /\ vec' \in [Docs -> [Chunks -> Versions \cup {NoVersion}]]
      /\ \A e \in Docs \ {d} : vec'[e] = vec[e]
      /\ vec'[d] = [vec[d] EXCEPT ![c] = NoVersion]
  BY <1>0, <1>1, <1>2, Unfold
<1>4. StoresFramed(o)
  BY <1>3 DEF VecDelete, StoresFramed, IInv, TypeOK
<1>5. Fits /\ op[o].alone => op[o].todo = Stored(d)
  BY <1>0, Unfold DEF OnTrack, Progress
<1>6. CASE op[o].todo = {c} /\ Goto(o, "textFind", {}) /\ Unlock
  <2>1. /\ TypeOK' /\ Framed(o) /\ WellPlaced(o)'
        /\ op'[o].pc = "textFind" /\ op'[o].doc = d
        /\ op'[o].ver = op[o].ver /\ op'[o].alone = op[o].alone
    BY <1>0, <1>4, <1>6, MovedOn DEF MustHold, HoldsMu, PCs, KindsAt, Unlock
  <2>2. Fits /\ op[o].alone => Stored(d)' = {}
    BY <1>3, <1>5, <1>6, <2>1 DEF Stored
  <2> QED
    BY <2>1, <2>2 DEF Sound, OnTrack, Progress, Fits
<1>7. CASE Goto(o, "vecDelete", op[o].todo \ {c}) /\ UNCHANGED mu
  <2>1. /\ TypeOK' /\ Framed(o) /\ WellPlaced(o)'
        /\ op'[o].pc = "vecDelete" /\ op'[o].todo = op[o].todo \ {c}
        /\ op'[o].doc = d /\ op'[o].alone = op[o].alone
    BY <1>0, <1>2, <1>4, <1>7, MovedOn DEF MustHold, HoldsMu, PCs, KindsAt
  <2>2. Fits /\ op[o].alone => op[o].todo \ {c} = Stored(d)'
    BY <1>3, <1>5 DEF Stored
  <2> QED
    BY <2>1, <2>2 DEF Sound, OnTrack, Progress, Fits
<1> QED
  BY <1>1, <1>6, <1>7

LEMMA CheckSound ==
    ASSUME StoreAssumption, IInv, NEW o \in Ops, Check(o)
    PROVE  Sound(o)
<1>0. /\ op[o].pc = "check" /\ ~Idle(o) /\ mu # o /\ mu' = mu
      /\ op[o].kind \in {"ingest", "unpublish"}
      /\ op[o] \in OpState /\ op[o].doc \in Docs
      /\ Fits /\ op[o].alone => ~op[o].refresh
      /\ StoresFramed(o)
  BY Unfold, StoresKept
  DEF Check, Idle, Owns, HoldsMu, WellPlaced, KindsAt, OnTrack, Progress
<1> PICK d \in Docs : d = op[o].doc
  BY <1>0
<1>1. CASE Stored(d) = {} /\ op[o].kind = "ingest" /\ Goto(o, "embed", {})
  <2>1. /\ TypeOK' /\ Framed(o) /\ WellPlaced(o)'
        /\ op'[o].pc = "embed" /\ op'[o].doc = d
        /\ op'[o].alone = op[o].alone /\ op'[o].refresh = op[o].refresh
    BY <1>0, <1>1, MovedOn DEF MustHold, HoldsMu, PCs, KindsAt
  <2>2. Stored(d)' = {}
    BY <1>1 DEF Stored, Check, stores
  <2> QED
    BY <1>0, <2>1, <2>2 DEF Sound, OnTrack, Progress, Fits
<1>2. CASE Return(o, "ok") \/ Return(o, "unchanged")
  BY <1>0, <1>2, Returned DEF Outcomes
<1>3. CASE op' = [op EXCEPT ![o].pc = "vecFind",
                            ![o].refresh = op[o].kind = "ingest"]
  <2>1. op' = [op EXCEPT ![o] = [op[o] EXCEPT !.pc = "vecFind",
                                   !.refresh = op[o].kind = "ingest"]]
    BY <1>3
  <2>2. [op[o] EXCEPT !.pc = "vecFind", !.refresh = op[o].kind = "ingest"]
            \in OpState
    BY <1>0 DEF OpState, PCs
  <2>3. /\ op' \in [Ops -> OpState]
        /\ op'[o].pc = "vecFind" /\ op'[o].kind = op[o].kind
        /\ op'[o].doc = d /\ op'[o].ver = op[o].ver
        /\ op'[o].alone = op[o].alone
        /\ \A q \in Ops \ {o} : op'[q] = op[q]
    BY <1>0, <2>1, <2>2, Unfold DEF OpState
  <2>4. TypeOK'
    BY <1>0, <2>3 DEF StoresFramed, IInv, TypeOK
  <2>5. Framed(o)
    BY <1>0, <2>3 DEF Framed, StoresFramed
  <2>6. WellPlaced(o)'
    BY <1>0, <2>3, Unfold DEF WellPlaced, KindsAt, Owns, HoldsMu, Idle
  <2>7. OnTrack(o)'
    BY <2>3 DEF OnTrack, Progress
  <2> QED
    BY <2>4, <2>5, <2>6, <2>7 DEF Sound
<1> QED
  BY <1>1, <1>2, <1>3 DEF Check

LEMMA VecFindSound ==
    ASSUME StoreAssumption, IInv, NEW o \in Ops, VecFind(o)
    PROVE  Sound(o)
<1>0. /\ op[o].pc = "vecFind" /\ ~Idle(o) /\ mu = NoOp /\ mu # o
      /\ op[o].kind \in {"ingest", "unpublish", "delete"}
      /\ op[o].doc \in Docs /\ StoresFramed(o)
  BY Unfold, StoresKept
  DEF VecFind, Idle, MuFree, WellPlaced, KindsAt, StoreAssumption
<1> PICK d \in Docs : d = op[o].doc
  BY <1>0
<1>1. CASE Return(o, "not found") /\ UNCHANGED mu
  BY <1>0, <1>1, Returned DEF Outcomes
<1>2. CASE (\E T \in Found(d) : Goto(o, "vecDelete", T)) /\ Lock(o)
  <2> PICK T \in Found(d) : Goto(o, "vecDelete", T)
    BY <1>2
  <2>1. T \in SUBSET Chunks
    BY DEF Found, Stored
  <2>2. /\ TypeOK' /\ Framed(o) /\ WellPlaced(o)'
        /\ op'[o].pc = "vecDelete" /\ op'[o].todo = T /\ op'[o].doc = d
    BY <1>0, <1>2, <2>1, MovedOn DEF MustHold, HoldsMu, PCs, KindsAt, Lock
  <2>3. Fits => T = Stored(d)'
    BY FoundWhole DEF VecFind, stores, Stored
  <2> QED
    BY <2>2, <2>3 DEF Sound, OnTrack, Progress, Fits
<1> QED
  BY <1>1, <1>2 DEF VecFind

\* Where a request goes once its document is cleared.
LEMMA ClearedSound ==
    ASSUME StoreAssumption, IInv, NEW o \in Ops, ~Idle(o), Cleared(o),
           mu # o, mu' = mu, StoresFramed(o), NEW d \in Docs, d = op[o].doc,
           op[o].kind \in {"ingest", "unpublish", "delete", "deleteChunk"},
           op[o].kind = "ingest" /\ Fits /\ op[o].alone =>
               Stored(d)' = {} /\ text'[d] = {}
    PROVE  Sound(o)
<1>1. CASE op[o].kind = "ingest" /\ Goto(o, "embed", {})
  <2>1. /\ TypeOK' /\ Framed(o) /\ WellPlaced(o)'
        /\ op'[o].pc = "embed" /\ op'[o].doc = d
        /\ op'[o].alone = op[o].alone
    BY <1>1, MovedOn DEF MustHold, HoldsMu, PCs, KindsAt
  <2> QED
    BY <1>1, <2>1 DEF Sound, OnTrack, Progress, Fits
<1>2. CASE Return(o, "ok")
  BY <1>2, Returned DEF Outcomes
<1> QED
  BY <1>1, <1>2 DEF Cleared

LEMMA TextFindSound ==
    ASSUME StoreAssumption, IInv, NEW o \in Ops, TextFind(o)
    PROVE  Sound(o)
<1>0. /\ op[o].pc = "textFind" /\ ~Idle(o) /\ mu # o /\ mu' = mu
      /\ op[o].kind \in {"ingest", "unpublish", "delete"}
      /\ op[o].doc \in Docs /\ StoresFramed(o) /\ UNCHANGED stores
  BY Unfold, StoresKept
  DEF TextFind, Idle, Owns, HoldsMu, WellPlaced, KindsAt
<1> PICK d \in Docs : d = op[o].doc
  BY <1>0
<1>1. Fits /\ op[o].alone => Stored(d) = {} /\ Stored(d)' = {}
  BY <1>0, Unfold DEF OnTrack, Progress, Stored, stores
<1>2. CASE text[d] = {} /\ Cleared(o)
  BY <1>0, <1>1, <1>2, ClearedSound DEF stores
<1>3. CASE Goto(o, "textDelete", text[d])
  <2>1. text[d] \in SUBSET Chunks
    BY <1>0, Unfold
  <2>2. /\ TypeOK' /\ Framed(o) /\ WellPlaced(o)'
        /\ op'[o].pc = "textDelete" /\ op'[o].todo = text[d]
        /\ op'[o].doc = d /\ op'[o].alone = op[o].alone
    BY <1>0, <1>3, <2>1, MovedOn DEF MustHold, HoldsMu, PCs, KindsAt
  <2> QED
    BY <1>0, <1>1, <2>2 DEF Sound, OnTrack, Progress, Fits, stores
<1> QED
  BY <1>2, <1>3 DEF TextFind

LEMMA TextDeleteSound ==
    ASSUME StoreAssumption, IInv, NEW o \in Ops, TextDelete(o)
    PROVE  Sound(o)
<1>0. /\ op[o].pc = "textDelete" /\ ~Idle(o) /\ mu # o /\ mu' = mu
      /\ op[o].kind \in {"ingest", "unpublish", "delete", "deleteChunk"}
      /\ op[o].doc \in Docs /\ vec' = vec
  BY Unfold DEF TextDelete, Idle, Owns, HoldsMu, WellPlaced, KindsAt
<1> PICK d \in Docs : d = op[o].doc
  BY <1>0
<1>1. PICK c \in op[o].todo :
         /\ text' = [text EXCEPT ![d] = @ \ {c}]
         /\ \/ op[o].todo = {c} /\ Cleared(o)
            \/ Goto(o, "textDelete", op[o].todo \ {c})
  BY DEF TextDelete
<1>2. /\ text' \in [Docs -> SUBSET Chunks]
      /\ \A e \in Docs \ {d} : text'[e] = text[e]
      /\ text'[d] = text[d] \ {c}
      /\ op[o].todo \ {c} \in SUBSET Chunks
  BY <1>0, <1>1, Unfold
<1>3. StoresFramed(o)
  BY <1>0, <1>2 DEF TextDelete, StoresFramed, IInv, TypeOK
<1>4. Fits /\ op[o].alone /\ op[o].kind # "deleteChunk" =>
          /\ Stored(d) = {} /\ Stored(d)' = {}
          /\ op[o].todo = text[d]
  BY <1>0, Unfold DEF OnTrack, Progress, Stored
<1>5. CASE op[o].todo = {c} /\ Cleared(o)
  BY <1>0, <1>2, <1>3, <1>4, <1>5, ClearedSound
<1>6. CASE Goto(o, "textDelete", op[o].todo \ {c})
  <2>1. /\ TypeOK' /\ Framed(o) /\ WellPlaced(o)'
        /\ op'[o].pc = "textDelete" /\ op'[o].todo = op[o].todo \ {c}
        /\ op'[o].doc = d /\ op'[o].alone = op[o].alone
        /\ op'[o].kind = op[o].kind
    BY <1>0, <1>2, <1>3, <1>6, MovedOn DEF MustHold, HoldsMu, PCs, KindsAt
  <2> QED
    BY <1>2, <1>4, <2>1 DEF Sound, OnTrack, Progress, Fits
<1> QED
  BY <1>1, <1>5, <1>6

LEMMA EmbedSound ==
    ASSUME StoreAssumption, IInv, NEW o \in Ops, Embed(o)
    PROVE  Sound(o)
<1>0. /\ op[o].pc = "embed" /\ ~Idle(o) /\ mu # o /\ mu' = mu
      /\ op[o].kind = "ingest" /\ op[o].ver \in Versions
      /\ op[o].doc \in Docs /\ StoresFramed(o) /\ UNCHANGED stores
  BY Unfold, StoresKept
  DEF Embed, Idle, Owns, HoldsMu, WellPlaced, KindsAt
<1> PICK d \in Docs, v \in Versions : d = op[o].doc /\ v = op[o].ver
  BY <1>0
<1>1. CASE Return(o, "error")
  BY <1>0, <1>1, Returned DEF Outcomes
<1>2. CASE Goto(o, "vecLock", Content[v])
  <2>1. Content[v] \in SUBSET Chunks
    BY DEF StoreAssumption
  <2>2. /\ TypeOK' /\ Framed(o) /\ WellPlaced(o)'
        /\ op'[o].pc = "vecLock" /\ op'[o].todo = Content[v]
        /\ op'[o].doc = d /\ op'[o].ver = v /\ op'[o].alone = op[o].alone
        /\ op'[o].refresh = op[o].refresh
    BY <1>0, <1>2, <2>1, MovedOn DEF MustHold, HoldsMu, PCs, KindsAt
  <2>3. Fits /\ op[o].alone =>
            Stored(d)' = {} /\ (op[o].refresh => text'[d] = {})
    BY <1>0, Unfold DEF OnTrack, Progress, Stored, stores
  <2> QED
    BY <2>2, <2>3 DEF Sound, OnTrack, Progress, Fits
<1> QED
  BY <1>1, <1>2 DEF Embed

\* Holds after the step, of a set of chunks from before it.
HoldsNext(d, v, S) ==
    \A c \in Chunks : vec'[d][c] = IF c \in S THEN v ELSE NoVersion

LEMMA VecLockSound ==
    ASSUME StoreAssumption, IInv, NEW o \in Ops, VecLock(o)
    PROVE  Sound(o)
<1>0. /\ op[o].pc = "vecLock" /\ ~Idle(o) /\ mu = NoOp /\ mu # o /\ mu' = o
      /\ op[o].kind = "ingest" /\ op[o].ver \in Versions
      /\ op[o].doc \in Docs /\ StoresFramed(o) /\ UNCHANGED stores
  BY Unfold, StoresKept
  DEF VecLock, Idle, Owns, HoldsMu, WellPlaced, KindsAt, MuFree, Lock,
      StoreAssumption
<1> PICK d \in Docs, v \in Versions : d = op[o].doc /\ v = op[o].ver
  BY <1>0
<1>1. /\ TypeOK' /\ Framed(o) /\ WellPlaced(o)'
      /\ op'[o].pc = "vecAdd" /\ op'[o].todo = op[o].todo
      /\ op'[o].doc = d /\ op'[o].ver = v /\ op'[o].alone = op[o].alone
      /\ op'[o].refresh = op[o].refresh
  BY <1>0, Unfold, MovedOn DEF VecLock, MustHold, HoldsMu, PCs, KindsAt
<1>2. Fits /\ op[o].alone =>
          /\ op[o].todo = Content[v]
          /\ HoldsNext(d, v, Content[v] \ op[o].todo)
          /\ op[o].refresh => text'[d] = {}
  BY <1>0, Unfold DEF OnTrack, Progress, Stored, HoldsNext, stores
<1> QED
  BY <1>1, <1>2 DEF Sound, OnTrack, Progress, Fits, Holds, HoldsNext

LEMMA VecAddSound ==
    ASSUME StoreAssumption, IInv, NEW o \in Ops, VecAdd(o)
    PROVE  Sound(o)
<1>0. /\ op[o].pc = "vecAdd" /\ ~Idle(o) /\ mu = o
      /\ op[o].kind = "ingest" /\ op[o].ver \in Versions
      /\ op[o].doc \in Docs /\ text' = text
  BY Unfold DEF VecAdd, Idle, Owns, HoldsMu, WellPlaced, KindsAt
<1> PICK d \in Docs, v \in Versions : d = op[o].doc /\ v = op[o].ver
  BY <1>0
<1>1. PICK c \in op[o].todo :
         /\ vec' = [vec EXCEPT ![d][c] = v]
         /\ \/ op[o].todo = {c} /\ Goto(o, "textAdd", {}) /\ Unlock
            \/ Goto(o, "vecAdd", op[o].todo \ {c}) /\ UNCHANGED mu
  BY DEF VecAdd
<1>2. c \in Chunks /\ op[o].todo \ {c} \in SUBSET Chunks
  BY <1>0, <1>1, Unfold
<1>3. /\ vec' \in [Docs -> [Chunks -> Versions \cup {NoVersion}]]
      /\ \A e \in Docs \ {d} : vec'[e] = vec[e]
      /\ \A b \in Chunks : vec'[d][b] = IF b = c THEN v ELSE vec[d][b]
  BY <1>0, <1>1, <1>2, Unfold
<1>4. StoresFramed(o)
  BY <1>0, <1>3 DEF VecAdd, StoresFramed, IInv, TypeOK
<1>5. Fits /\ op[o].alone =>
          /\ op[o].todo \subseteq Content[v]
          /\ Holds(d, v, Content[v] \ op[o].todo)
          /\ op[o].refresh => text'[d] = {}
  BY <1>0, Unfold DEF OnTrack, Progress
<1>6. Fits /\ op[o].alone => HoldsNext(d, v, Content[v] \ (op[o].todo \ {c}))
  BY <1>1, <1>3, <1>5 DEF Holds, HoldsNext
<1>7. CASE op[o].todo = {c} /\ Goto(o, "textAdd", {}) /\ Unlock
  <2>1. /\ TypeOK' /\ Framed(o) /\ WellPlaced(o)'
        /\ op'[o].pc = "textAdd" /\ op'[o].doc = d /\ op'[o].ver = v
        /\ op'[o].alone = op[o].alone /\ op'[o].refresh = op[o].refresh
    BY <1>0, <1>4, <1>7, MovedOn DEF MustHold, HoldsMu, PCs, KindsAt, Unlock
  <2>2. Fits /\ op[o].alone => HoldsNext(d, v, Content[v])
    BY <1>6, <1>7 DEF HoldsNext
  <2> QED
    BY <1>5, <2>1, <2>2 DEF Sound, OnTrack, Progress, Fits, Holds, HoldsNext
<1>8. CASE Goto(o, "vecAdd", op[o].todo \ {c}) /\ UNCHANGED mu
  <2>1. /\ TypeOK' /\ Framed(o) /\ WellPlaced(o)'
        /\ op'[o].pc = "vecAdd" /\ op'[o].todo = op[o].todo \ {c}
        /\ op'[o].doc = d /\ op'[o].ver = v
        /\ op'[o].alone = op[o].alone /\ op'[o].refresh = op[o].refresh
    BY <1>0, <1>2, <1>4, <1>8, MovedOn DEF MustHold, HoldsMu, PCs, KindsAt
  <2> QED
    BY <1>5, <1>6, <2>1 DEF Sound, OnTrack, Progress, Fits, Holds, HoldsNext
<1> QED
  BY <1>1, <1>7, <1>8

LEMMA TextAddSound ==
    ASSUME StoreAssumption, IInv, NEW o \in Ops, TextAdd(o)
    PROVE  Sound(o)
<1>0. /\ op[o].pc = "textAdd" /\ ~Idle(o) /\ mu # o /\ mu' = mu
      /\ op[o].kind = "ingest" /\ op[o].ver \in Versions
      /\ op[o].doc \in Docs
  BY Unfold DEF TextAdd, Idle, Owns, HoldsMu, WellPlaced, KindsAt
<1>1. text' = [text EXCEPT ![op[o].doc] = @ \cup Content[op[o].ver]]
  BY DEF TextAdd
<1>2. Content[op[o].ver] \in SUBSET Chunks
  BY <1>0 DEF StoreAssumption
<1>3. StoresFramed(o)
  BY <1>0, <1>1, <1>2 DEF TextAdd, StoresFramed, IInv, TypeOK
<1> QED
  BY <1>0, <1>3, Returned DEF TextAdd, Outcomes

LEMMA ChunkDeleteSound ==
    ASSUME StoreAssumption, IInv, NEW o \in Ops, ChunkDelete(o)
    PROVE  Sound(o)
<1>0. /\ op[o].pc = "chunkDelete" /\ ~Idle(o) /\ mu # o /\ mu' = mu
      /\ op[o].kind = "deleteChunk" /\ op[o].doc \in Docs
      /\ op[o].todo \in SUBSET Chunks
  BY Unfold DEF ChunkDelete, Idle, Owns, HoldsMu, WellPlaced, KindsAt
<1>1. PICK c \in op[o].todo : vec' = [vec EXCEPT ![op[o].doc][c] = NoVersion]
  BY DEF ChunkDelete
<1>2. /\ vec' \in [Docs -> [Chunks -> Versions \cup {NoVersion}]]
      /\ \A e \in Docs \ {op[o].doc} : vec'[e] = vec[e]
  BY <1>0, <1>1, Unfold
<1>3. StoresFramed(o)
  BY <1>2 DEF ChunkDelete, StoresFramed, IInv, TypeOK
<1>4. /\ TypeOK' /\ Framed(o) /\ WellPlaced(o)'
      /\ op'[o].pc = "textDelete" /\ op'[o].kind = "deleteChunk"
  BY <1>0, <1>3, MovedOn DEF ChunkDelete, MustHold, HoldsMu, PCs, KindsAt
<1> QED
  BY <1>4 DEF Sound, OnTrack, Progress

LEMMA UpdFindSound ==
    ASSUME StoreAssumption, IInv, NEW o \in Ops, UpdFind(o)
    PROVE  Sound(o)
<1>0. /\ op[o].pc = "updFind" /\ ~Idle(o) /\ mu = NoOp /\ mu # o
      /\ op[o].kind = "update" /\ op[o].doc \in Docs /\ StoresFramed(o)
  BY Unfold, StoresKept
  DEF UpdFind, Idle, MuFree, WellPlaced, KindsAt, StoreAssumption
<1>1. CASE Return(o, "not found") /\ UNCHANGED mu
  BY <1>0, <1>1, Returned DEF Outcomes
<1>2. CASE (\E T \in Found(op[o].doc) : Goto(o, "updDelete", T)) /\ Lock(o)
  <2> PICK T \in Found(op[o].doc) : Goto(o, "updDelete", T)
    BY <1>2
  <2>1. T \in SUBSET Chunks
    BY DEF Found, Stored
  <2>2. /\ TypeOK' /\ Framed(o) /\ WellPlaced(o)'
        /\ op'[o].pc = "updDelete"
    BY <1>0, <1>2, <2>1, MovedOn DEF MustHold, HoldsMu, PCs, KindsAt, Lock
  <2> QED
    BY <2>2 DEF Sound, OnTrack, Progress
<1> QED
  BY <1>1, <1>2 DEF UpdFind

LEMMA UpdDeleteSound ==
    ASSUME StoreAssumption, IInv, NEW o \in Ops, UpdDelete(o)
    PROVE  Sound(o)
<1>0. /\ op[o].pc = "updDelete" /\ ~Idle(o) /\ mu = o /\ mu' = mu
      /\ op[o].kind = "update" /\ op[o].doc \in Docs
      /\ op[o].todo \in SUBSET Chunks
  BY Unfold DEF UpdDelete, Idle, Owns, HoldsMu, WellPlaced, KindsAt
<1>1. vec' = [vec EXCEPT ![op[o].doc] = [c \in Chunks |-> NoVersion]]
  BY DEF UpdDelete
<1>2. /\ vec' \in [Docs -> [Chunks -> Versions \cup {NoVersion}]]
      /\ \A e \in Docs \ {op[o].doc} : vec'[e] = vec[e]
  BY <1>0, <1>1, Unfold
<1>3. StoresFramed(o)
  BY <1>2 DEF UpdDelete, StoresFramed, IInv, TypeOK
<1>4. /\ TypeOK' /\ Framed(o) /\ WellPlaced(o)'
      /\ op'[o].pc = "vecLock" /\ op'[o].kind = "update"
  BY <1>0, <1>3, MovedOn DEF UpdDelete, MustHold, HoldsMu, PCs, KindsAt
<1> QED
  BY <1>4 DEF Sound, OnTrack, Progress

LEMMA OpFailsSound ==
    ASSUME StoreAssumption, IInv, NEW o \in Ops, OpFails(o)
    PROVE  Sound(o)
<1>1. StoresFramed(o)
  <2>1. op[o].doc \in Docs
    BY Unfold DEF OpFails
  <2>2. faults' \in 0..MaxFaults
    BY DEF OpFails, IInv, TypeOK, StoreAssumption
  <2>3. disturbed' \subseteq Docs
    BY <2>1 DEF OpFails, IInv, TypeOK
  <2> QED
    BY <2>2, <2>3 DEF OpFails, StoresFramed, IInv, TypeOK, stores
<1> QED
  BY <1>1, Returned DEF OpFails, Outcomes

LEMMA StepSound ==
    ASSUME StoreAssumption, IInv, NEW o \in Ops, OpStep(o) \/ OpFails(o)
    PROVE  Sound(o)
  BY CheckSound, VecFindSound, VecDeleteSound, TextFindSound,
     TextDeleteSound, EmbedSound, VecLockSound, VecAddSound, TextAddSound,
     ChunkDeleteSound, UpdFindSound, UpdDeleteSound, OpFailsSound
  DEF OpStep

-----------------------------------------------------------------------------
(* The invariant.                                                          *)

\* A sound step keeps what the other requests know.
LEMMA SoundKeeps ==
    ASSUME StoreAssumption, IInv, NEW o \in Ops, Sound(o)
    PROVE  IInv'
<1>1. /\ TypeOK' /\ WellPlaced(o)' /\ OnTrack(o)' /\ ~Idle(o)
      /\ \A q \in Ops \ {o} : op'[q] = op[q]
      /\ \A q \in Ops \ {o} : mu' = q <=> mu = q
      /\ \A d \in Docs \ {op[o].doc} : vec'[d] = vec[d] /\ text'[d] = text[d]
      /\ Idle(o)' \/ (op'[o].doc = op[o].doc /\ op'[o].alone = op[o].alone)
  BY DEF Sound, Framed, StoreAssumption
<1>2. Shape'
  <2> SUFFICES ASSUME NEW q \in Ops \ {o} PROVE WellPlaced(q)'
    BY <1>1 DEF Shape
  <2>1. WellPlaced(q) /\ op'[q] = op[q] /\ (mu' = q <=> mu = q)
    BY <1>1 DEF IInv, Shape
  <2> QED
    BY <2>1 DEF WellPlaced, Owns, Idle
<1>3. AloneIsAlone'
  BY <1>1 DEF IInv, AloneIsAlone, Idle
<1>4. Exact'
  <2> SUFFICES ASSUME NEW q \in Ops \ {o}, Fits, ~Idle(q)', op'[q].alone
               PROVE  Progress(q, op[q].doc, op[q].ver)'
    BY <1>1 DEF Exact, OnTrack, Fits
  <2>1. op'[q] = op[q] /\ ~Idle(q) /\ op[q].alone
    BY <1>1 DEF Idle
  <2>2. op[q].doc \in Docs /\ op[q].doc # op[o].doc
    BY <1>1, <2>1, Unfold DEF IInv, AloneIsAlone
  <2>3. PICK d \in Docs : d = op[q].doc /\ d = op'[q].doc
    BY <2>1, <2>2
  <2>4. vec'[d] = vec[d] /\ text'[d] = text[d]
    BY <1>1, <2>2, <2>3
  <2>5. Progress(q, d, op[q].ver)
    BY <2>1, <2>3 DEF IInv, Exact, OnTrack
  <2> QED
    BY <2>1, <2>3, <2>4, <2>5, SMTT(30) DEF Progress, Stored, Holds
<1> QED
  BY <1>1, <1>2, <1>3, <1>4 DEF IInv

\* A request that learns that it is not alone is otherwise what it was.
LEMMA Disturbed ==
    ASSUME NEW x \in OpState, NEW y, y = [x EXCEPT !.alone = FALSE]
    PROVE  /\ y \in OpState
           /\ y.pc = x.pc /\ y.kind = x.kind /\ y.doc = x.doc /\ y.ver = x.ver
           /\ y.todo = x.todo /\ y.refresh = x.refresh /\ ~y.alone
  BY DEF OpState

\* So does a request that begins: those for the same document learn that they
\* are not alone.
LEMMA BeginKeeps ==
    ASSUME StoreAssumption, IInv, NEW o \in Ops, NEW r \in OpState, Begin(o, r),
           r.pc \in {"check", "vecFind", "chunkDelete", "updFind"},
           r.kind \in KindsAt(r.pc), r.doc \in Docs, ~r.refresh,
           r.kind = "ingest" => r.ver \in Versions
    PROVE  IInv'
<1> PICK d \in Docs : d = r.doc
  OBVIOUS
<1>0. /\ op \in [Ops -> OpState] /\ Idle(o) /\ mu # o /\ mu' = mu
      /\ UNCHANGED stores
  BY DEF Begin, IInv, TypeOK, Shape, WellPlaced, Owns, HoldsMu, Idle
<1>1. /\ op'[o] = [r EXCEPT !.alone = Busy(d) = {}]
      /\ \A q \in Ops \ {o} :
            op'[q] = IF q \in Busy(d) THEN [op[q] EXCEPT !.alone = FALSE]
                     ELSE op[q]
  BY DEF Begin
<1>2. op'[o] \in OpState /\ op'[o].pc = r.pc /\ op'[o].kind = r.kind
      /\ op'[o].doc = d /\ op'[o].ver = r.ver /\ ~op'[o].refresh
      /\ (op'[o].alone => Busy(d) = {})
  BY <1>1 DEF OpState
<1>3. \A q \in Ops \ {o} :
         /\ op'[q] \in OpState
         /\ op'[q].pc = op[q].pc /\ op'[q].kind = op[q].kind
         /\ op'[q].doc = op[q].doc /\ op'[q].ver = op[q].ver
         /\ op'[q].todo = op[q].todo /\ op'[q].refresh = op[q].refresh
         /\ op'[q].alone => op[q].alone /\ q \notin Busy(d)
  <2> TAKE q \in Ops \ {o}
  <2>1. op[q] \in OpState
    BY <1>0
  <2>2. CASE q \in Busy(d)
    <3>1. op'[q] = [op[q] EXCEPT !.alone = FALSE]
      BY <1>1, <2>2, Zenon
    <3> QED
      BY <2>1, <2>2, <3>1, Disturbed
  <2>3. CASE q \notin Busy(d)
    BY <1>1, <2>1, <2>3
  <2> QED
    BY <2>2, <2>3
<1>4. TypeOK'
  <2>1. op' \in [Ops -> OpState]
    BY <1>2, <1>3 DEF Begin
  <2>2. disturbed' \subseteq Docs
    BY DEF Begin, IInv, TypeOK
  <2> QED
    BY <2>1, <2>2 DEF Begin, IInv, TypeOK, stores
<1>5. Shape'
  <2> SUFFICES ASSUME NEW q \in Ops PROVE WellPlaced(q)'
    BY DEF Shape
  <2>1. CASE q = o
    BY <1>0, <1>2, <2>1 DEF WellPlaced, Owns, HoldsMu, Idle
  <2>2. CASE q # o
    <3>1. WellPlaced(q)
      BY DEF IInv, Shape
    <3> QED
      BY <1>0, <1>3, <2>2, <3>1 DEF WellPlaced, Owns, Idle
  <2> QED
    BY <2>1, <2>2
<1>6. AloneIsAlone'
  <2> SUFFICES ASSUME NEW p \in Ops, NEW q \in Ops, op'[p].pc # "idle",
                      op'[q].pc # "idle", op'[p].alone,
                      op'[q].doc = op'[p].doc
               PROVE  q = p
    BY DEF AloneIsAlone, Idle
  <2>1. CASE p = o /\ q # o
    BY <1>2, <1>3, <2>1 DEF Busy, Idle
  <2>2. CASE p # o /\ q = o
    BY <1>2, <1>3, <2>2 DEF Busy, Idle
  <2>3. CASE p # o /\ q # o
    BY <1>3, <2>3 DEF IInv, AloneIsAlone, Idle
  <2> QED
    BY <2>1, <2>2, <2>3
<1>7. Exact'
  <2> SUFFICES ASSUME NEW q \in Ops PROVE OnTrack(q)'
    BY DEF Exact
  <2>1. CASE q = o
    BY <1>2, <2>1 DEF OnTrack, Progress
  <2>2. CASE q # o
    <3>1. OnTrack(q)
      BY DEF IInv, Exact
    <3> QED
      BY <1>0, <1>3, <2>2, <3>1
      DEF OnTrack, Progress, Idle, Fits, Stored, Holds, stores
  <2> QED
    BY <2>1, <2>2
<1> QED
  BY <1>4, <1>5, <1>6, <1>7 DEF IInv

LEMMA RequestFields ==
    ASSUME NEW kind \in Kinds, NEW pc \in PCs, NEW d \in Docs
    PROVE  /\ Request(kind, pc, d) \in OpState
           /\ Request(kind, pc, d).kind = kind
           /\ Request(kind, pc, d).pc = pc
           /\ Request(kind, pc, d).doc = d
           /\ ~Request(kind, pc, d).refresh
  BY DEF Request, IdleOp, OpState, Outcomes

LEMMA InitInv ==
    ASSUME StoreAssumption, Init
    PROVE  IInv
<1>1. \A o \in Ops : op[o] = IdleOp("none")
  BY DEF Init
<1>2. \A o \in Ops : op[o] \in OpState /\ op[o].pc = "idle" /\ op[o].kind = "ingest"
  BY <1>1, IdleFields DEF Outcomes
<1>3. TypeOK
  BY <1>2 DEF Init, TypeOK, StoreAssumption
<1>4. Shape
  BY <1>2 DEF Init, Shape, WellPlaced, KindsAt, Kinds, Owns, HoldsMu, Idle,
              StoreAssumption
<1>5. AloneIsAlone /\ Exact
  BY <1>2 DEF AloneIsAlone, Exact, OnTrack, Idle
<1> QED
  BY <1>3, <1>4, <1>5 DEF IInv

LEMMA CrashKeeps ==
    ASSUME StoreAssumption, IInv, Crash
    PROVE  IInv'
<1>1. \A o \in Ops : op'[o] = IdleOp("none")
  BY DEF Crash
<1>2. \A o \in Ops :
         op'[o] \in OpState /\ op'[o].pc = "idle" /\ op'[o].kind = "ingest"
  BY <1>1, IdleFields DEF Outcomes
<1>3. TypeOK'
  <2>1. op' \in [Ops -> OpState]
    BY <1>2 DEF Crash
  <2>2. crashes' \in 0..MaxCrashes
    BY DEF Crash, IInv, TypeOK, StoreAssumption
  <2> QED
    BY <2>1, <2>2 DEF Crash, IInv, TypeOK, stores
<1>4. Shape'
  BY <1>2 DEF Crash, Shape, WellPlaced, KindsAt, Kinds, Owns, HoldsMu, Idle,
              StoreAssumption
<1>5. AloneIsAlone' /\ Exact'
  BY <1>2 DEF AloneIsAlone, Exact, OnTrack, Idle
<1> QED
  BY <1>3, <1>4, <1>5 DEF IInv

LEMMA NextKeeps ==
    ASSUME StoreAssumption, IInv, [Next]_vars
    PROVE  IInv'
<1>1. CASE \E o \in Ops, d \in Docs :
         \/ \E v \in Versions : BeginIngest(o, d, v)
         \/ BeginUnpublish(o, d)
         \/ BeginDelete(o, d)
         \/ \E c \in Chunks : BeginDeleteChunk(o, d, c)
         \/ BeginUpdate(o, d)
  <2> PICK o \in Ops, d \in Docs :
         \/ \E v \in Versions : BeginIngest(o, d, v)
         \/ BeginUnpublish(o, d)
         \/ BeginDelete(o, d)
         \/ \E c \in Chunks : BeginDeleteChunk(o, d, c)
         \/ BeginUpdate(o, d)
    BY <1>1
  <2>1. ASSUME NEW v \in Versions, BeginIngest(o, d, v) PROVE IInv'
    <3> DEFINE q == Request("ingest", "check", d)
               r == [q EXCEPT !.ver = v]
    <3>0. "ingest" \in Kinds /\ "check" \in PCs
      BY DEF Kinds, PCs
    <3>1. /\ q \in OpState /\ q.pc = "check" /\ q.kind = "ingest"
          /\ q.doc = d /\ ~q.refresh
      BY <3>0, RequestFields
    <3>2. /\ r \in OpState /\ r.pc = "check" /\ r.kind = "ingest"
          /\ r.doc = d /\ ~r.refresh /\ r.ver = v
      BY <3>1 DEF OpState
    <3>3. Begin(o, r)
      BY <2>1 DEF BeginIngest
    <3> HIDE DEF q, r
    <3>4. r.kind \in KindsAt(r.pc)
      BY <3>2 DEF KindsAt
    <3> QED
      BY <3>2, <3>3, <3>4, BeginKeeps
  <2>2. ASSUME BeginUnpublish(o, d) PROVE IInv'
    BY <2>2, RequestFields, BeginKeeps DEF BeginUnpublish, KindsAt, Kinds, PCs
  <2>3. ASSUME BeginDelete(o, d) PROVE IInv'
    <3> DEFINE r == Request("delete", "vecFind", d)
    <3>1. /\ r \in OpState /\ r.pc = "vecFind" /\ r.kind = "delete"
          /\ r.doc = d /\ ~r.refresh
      BY RequestFields DEF Kinds, PCs
    <3>2. Begin(o, r)
      BY <2>3 DEF BeginDelete
    <3> QED
      BY <3>1, <3>2, BeginKeeps DEF KindsAt
  <2>4. ASSUME NEW c \in Chunks, BeginDeleteChunk(o, d, c) PROVE IInv'
    <3> DEFINE q == Request("deleteChunk", "chunkDelete", d)
               r == [q EXCEPT !.todo = {c}]
    <3>1. /\ q \in OpState /\ q.pc = "chunkDelete" /\ q.kind = "deleteChunk"
          /\ q.doc = d /\ ~q.refresh
      BY RequestFields DEF Kinds, PCs
    <3>2. /\ r \in OpState /\ r.pc = "chunkDelete" /\ r.kind = "deleteChunk"
          /\ r.doc = d /\ ~r.refresh
      BY <3>1 DEF OpState
    <3>3. Begin(o, r)
      BY <2>4 DEF BeginDeleteChunk
    <3> HIDE DEF q, r
    <3>4. r.kind \in KindsAt(r.pc)
      BY <3>2 DEF KindsAt
    <3> QED
      BY <3>2, <3>3, <3>4, BeginKeeps
  <2>5. ASSUME BeginUpdate(o, d) PROVE IInv'
    <3> DEFINE r == Request("update", "updFind", d)
    <3>1. /\ r \in OpState /\ r.pc = "updFind" /\ r.kind = "update"
          /\ r.doc = d /\ ~r.refresh
      BY RequestFields DEF Kinds, PCs
    <3>2. Begin(o, r)
      BY <2>5 DEF BeginUpdate
    <3> HIDE DEF r
    <3>3. r.kind \in KindsAt(r.pc)
      BY <3>1 DEF KindsAt
    <3> QED
      BY <3>1, <3>2, <3>3, BeginKeeps
  <2> QED
    BY <2>1, <2>2, <2>3, <2>4, <2>5
<1>2. CASE \E o \in Ops : OpStep(o) \/ OpFails(o)
  BY <1>2, StepSound, SoundKeeps
<1>3. CASE Crash
  BY <1>3, CrashKeeps
<1>4. CASE UNCHANGED vars
  BY <1>4 DEF vars, stores, IInv, TypeOK, Shape, WellPlaced, Owns, AloneIsAlone,
              Exact, OnTrack, Progress, Idle, Stored, Holds, Fits
<1> QED
  BY <1>1, <1>2, <1>3, <1>4 DEF Next

\* The inductive invariant, for any documents, chunks, versions and requests.
THEOREM StoreInvariance == Spec => []IInv
<1>1. Init => IInv
  BY InitInv, StoreAssumption
<1>2. IInv /\ [Next]_vars => IInv'
  BY NextKeeps, StoreAssumption
<1> QED
  BY <1>1, <1>2, PTL DEF Spec

-----------------------------------------------------------------------------
(* What a request that returns has done.                                   *)

\* Only the request itself makes it return, and not by failing.
LEMMA ReturnsByItself ==
    ASSUME StoreAssumption, IInv, [Next]_vars, NEW o \in Ops, Returns(o, "ok")
    PROVE  OpStep(o)
<1>0. /\ op \in [Ops -> OpState]
      /\ op[o].pc # "idle" /\ op'[o].pc = "idle" /\ op'[o].out = "ok"
  BY IdleFields DEF Returns, Idle, IInv, TypeOK, Outcomes
<1>1. ASSUME NEW p \in Ops, NEW r, Begin(p, r) PROVE FALSE
  <2>1. o # p /\ op[o] \in OpState
    BY <1>0, <1>1 DEF Begin, Idle
  <2>2. op'[o] = op[o] \/ op'[o] = [op[o] EXCEPT !.alone = FALSE]
    BY <1>1, <2>1 DEF Begin
  <2> QED
    BY <1>0, <2>1, <2>2 DEF OpState
<1>2. ASSUME NEW p \in Ops, NEW d \in Docs,
             \/ \E v \in Versions : BeginIngest(p, d, v)
             \/ BeginUnpublish(p, d)
             \/ BeginDelete(p, d)
             \/ \E c \in Chunks : BeginDeleteChunk(p, d, c)
             \/ BeginUpdate(p, d)
      PROVE  FALSE
  BY <1>1, <1>2
  DEF BeginIngest, BeginUnpublish, BeginDelete, BeginDeleteChunk, BeginUpdate
<1>3. ASSUME NEW p \in Ops, OpStep(p) \/ OpFails(p) PROVE OpStep(o)
  <2>1. p = o
    BY <1>0, <1>3, StepSound DEF Sound, Framed
  <2>2. CASE OpFails(p)
    BY <1>0, <2>1, <2>2, IdleFields DEF OpFails, Return, Outcomes
  <2> QED
    BY <1>3, <2>1, <2>2
<1>4. CASE Crash
  BY <1>0, <1>4, IdleFields DEF Crash, Outcomes
<1>5. CASE UNCHANGED vars
  BY <1>0, <1>5 DEF vars
<1> QED
  BY <1>2, <1>3, <1>4, <1>5 DEF Next

\* The types of the stores, db.mu and the requests, in every reachable state.
THEOREM StoreTypes == Spec => []TypeOK
<1>1. IInv => TypeOK
  BY DEF IInv
<1> QED
  BY <1>1, StoreInvariance, PTL

\* A step cannot both move a request on and return it.
LEMMA NotBoth ==
    ASSUME IInv, NEW o \in Ops, NEW pc \in PCs \ {"idle"},
           NEW todo \in SUBSET Chunks, Goto(o, pc, todo)
    PROVE  ~Returns(o, "ok")
<1>1. op'[o].pc = pc
  BY GotoFields DEF IInv, TypeOK
<1>2. IdleOp("ok").pc = "idle"
  BY IdleFields DEF Outcomes
<1> QED
  BY <1>1, <1>2 DEF Returns

LEMMA NotOther ==
    ASSUME IInv, NEW o \in Ops, NEW out \in Outcomes \ {"ok"}, Return(o, out)
    PROVE  ~Returns(o, "ok")
<1>1. op'[o] = IdleOp(out)
  BY DEF Return, IInv, TypeOK
<1> QED
  BY <1>1, IdleFields, ZenonT(60) DEF Returns, Outcomes

\* The steps on which a request returns success.
LEMMA LastSteps ==
    ASSUME StoreAssumption, IInv, NEW o \in Ops, OpStep(o), Returns(o, "ok")
    PROVE  \/ Check(o)
           \/ TextFind(o) /\ op[o].kind # "ingest" /\ text[op[o].doc] = {}
           \/ TextDelete(o) /\ op[o].kind # "ingest" /\ \E c \in op[o].todo :
                  /\ op[o].todo = {c}
                  /\ text' = [text EXCEPT ![op[o].doc] = @ \ {c}]
           \/ TextAdd(o)
<1>0. ~Idle(o)
  BY DEF Returns
<1>1. /\ op[o].doc \in Docs /\ op[o].todo \in SUBSET Chunks /\ WellPlaced(o)
      /\ text \in [Docs -> SUBSET Chunks]
  BY <1>0, Unfold
<1>2. CASE VecFind(o)
  <2>1. \A T \in Found(op[o].doc) : T \in SUBSET Chunks
    BY DEF Found, Stored
  <2> QED
    BY <1>2, <2>1, NotBoth, NotOther DEF VecFind, PCs, HoldsMu, Outcomes
<1>3. CASE VecDelete(o)
  BY <1>1, <1>3, NotBoth DEF VecDelete, PCs, HoldsMu
<1>4. CASE Embed(o)
  <2>1. Content[op[o].ver] \in SUBSET Chunks
    BY <1>0, <1>1, <1>4 DEF StoreAssumption, WellPlaced, KindsAt, Embed
  <2> QED
    BY <1>4, <2>1, NotBoth, NotOther DEF Embed, PCs, Outcomes
<1>5. CASE VecLock(o)
  BY <1>1, <1>5, NotBoth DEF VecLock, PCs, HoldsMu
<1>6. CASE VecAdd(o)
  BY <1>1, <1>6, NotBoth DEF VecAdd, PCs, HoldsMu
<1>7. CASE ChunkDelete(o)
  BY <1>1, <1>7, NotBoth DEF ChunkDelete, PCs
<1>8. CASE UpdFind(o)
  <2>1. \A T \in Found(op[o].doc) : T \in SUBSET Chunks
    BY DEF Found, Stored
  <2> QED
    BY <1>8, <2>1, NotBoth, NotOther DEF UpdFind, PCs, HoldsMu, Outcomes
<1>9. CASE UpdDelete(o)
  BY <1>1, <1>9, NotBoth DEF UpdDelete, PCs
<1>10. CASE TextFind(o)
  <2>1. text[op[o].doc] = {} /\ Cleared(o)
    BY <1>1, <1>10, NotBoth DEF TextFind, PCs
  <2> QED
    BY <1>10, <2>1, NotBoth DEF Cleared, PCs
<1>11. CASE TextDelete(o)
  <2>1. PICK c \in op[o].todo :
           /\ text' = [text EXCEPT ![op[o].doc] = @ \ {c}]
           /\ \/ op[o].todo = {c} /\ Cleared(o)
              \/ Goto(o, "textDelete", op[o].todo \ {c})
    BY <1>11 DEF TextDelete
  <2>2. op[o].todo = {c} /\ Cleared(o)
    BY <1>1, <2>1, NotBoth DEF PCs
  <2> QED
    BY <1>11, <2>1, <2>2, NotBoth DEF Cleared, PCs
<1> QED
  BY <1>2, <1>3, <1>4, <1>5, <1>6, <1>7, <1>8, <1>9, <1>10, <1>11 DEF OpStep

\* An ingest that met no other request for its document and succeeded has
\* stored exactly its own chunks, and indexed exactly them if it replaced an
\* older version: for every document, version and history of failures.
THEOREM IngestExact == Spec => IngestIsExact
<1>1. ASSUME IInv, [Next]_vars, Fits,
             NEW o \in Ops, NEW d \in Docs, NEW v \in Versions,
             op[o].kind = "ingest", op[o].doc = d, op[o].ver = v, op[o].alone,
             Returns(o, "ok")
      PROVE  /\ \A c \in Chunks :
                  vec'[d][c] = IF c \in Content[v] THEN v ELSE NoVersion
             /\ op[o].refresh => text'[d] = Content[v]
  <2>1. OpStep(o) /\ ~Idle(o)
    BY <1>1, ReturnsByItself, StoreAssumption DEF Returns
  <2>2. ~Check(o)
    <3> SUFFICES ASSUME Check(o) PROVE FALSE
      OBVIOUS
    <3>1. op \in [Ops -> OpState]
      BY <1>1 DEF IInv, TypeOK
    <3>2. CASE Goto(o, "embed", {})
      BY <1>1, <3>2, NotBoth DEF PCs
    <3>3. CASE Return(o, "unchanged")
      BY <1>1, <3>3, NotOther DEF Outcomes
    <3>4. CASE op' = [op EXCEPT ![o].pc = "vecFind",
                                ![o].refresh = op[o].kind = "ingest"]
      <4>1. op'[o].pc = "vecFind"
        BY <3>1, <3>4 DEF OpState
      <4> QED
        BY <1>1, <4>1, IdleFields DEF Returns, Outcomes
    <3> QED
      BY <1>1, <3>2, <3>3, <3>4 DEF Check
  <2>3. TextAdd(o)
    BY <1>1, <2>1, <2>2, LastSteps, StoreAssumption
  <2>4. Holds(d, v, Content[v]) /\ (op[o].refresh => text[d] = {})
    BY <1>1, <2>1, <2>3, Unfold DEF TextAdd, OnTrack, Progress
  <2>5. vec' = vec /\ text' = [text EXCEPT ![d] = @ \cup Content[v]]
    BY <1>1, <2>3 DEF TextAdd
  <2> QED
    BY <1>1, <2>4, <2>5, Unfold, <2>1 DEF Holds
<1>2. IInv /\ [Next]_vars =>
        [Fits => \A o \in Ops, d \in Docs, v \in Versions :
           /\ op[o].kind = "ingest" /\ op[o].doc = d /\ op[o].ver = v
           /\ op[o].alone
           /\ Returns(o, "ok")
           => /\ \A c \in Chunks :
                   vec'[d][c] = IF c \in Content[v] THEN v ELSE NoVersion
              /\ op[o].refresh => text'[d] = Content[v]]_vars
  BY <1>1
<1> QED
  BY <1>2, StoreInvariance, PTL DEF Spec, IngestIsExact

\* A delete or unpublish that met no other request for its document and
\* succeeded has left nothing of it in either store.
THEOREM ClearExact == Spec => ClearIsExact
<1>1. ASSUME IInv, [Next]_vars, Fits, NEW o \in Ops, NEW d \in Docs,
             op[o].kind \in {"delete", "unpublish"}, op[o].doc = d,
             op[o].pc # "check", op[o].alone, Returns(o, "ok")
      PROVE  Stored(d)' = {} /\ text'[d] = {}
  <2>1. OpStep(o) /\ ~Idle(o)
    BY <1>1, ReturnsByItself, StoreAssumption DEF Returns
  <2>2. /\ text \in [Docs -> SUBSET Chunks]
        /\ WellPlaced(o) /\ OnTrack(o)
    BY <1>1, <2>1, Unfold
  <2>3. CASE TextFind(o) /\ text[d] = {}
    BY <1>1, <2>1, <2>2, <2>3
    DEF TextFind, OnTrack, Progress, Stored, stores
  <2>4. ASSUME TextDelete(o), NEW c \in op[o].todo, op[o].todo = {c},
               text' = [text EXCEPT ![d] = @ \ {c}]
        PROVE  Stored(d)' = {} /\ text'[d] = {}
    <3>1. Stored(d) = {} /\ op[o].todo = text[d]
      BY <1>1, <2>1, <2>2, <2>4 DEF TextDelete, OnTrack, Progress
    <3> QED
      BY <1>1, <2>2, <2>4, <3>1 DEF TextDelete, Stored
  <2>5. ~TextAdd(o) /\ ~Check(o)
    BY <1>1, <2>2 DEF TextAdd, Check, WellPlaced, KindsAt
  <2> QED
    BY <1>1, <2>1, <2>3, <2>4, <2>5, LastSteps, StoreAssumption
<1>2. IInv /\ [Next]_vars =>
        [Fits => \A o \in Ops, d \in Docs :
           /\ op[o].kind \in {"delete", "unpublish"} /\ op[o].doc = d
           /\ op[o].pc # "check"
           /\ op[o].alone
           /\ Returns(o, "ok")
           => Stored(d)' = {} /\ text'[d] = {}]_vars
  BY <1>1
<1> QED
  BY <1>2, StoreInvariance, PTL DEF Spec, ClearIsExact

-----------------------------------------------------------------------------
(* That DocumentStore's two stores agree on every document that nothing is *)
(* running for and nothing went wrong with.  The hard part is the overlap  *)
(* of ingests of one version: each may clear away what another has already *)
(* stored, and it is the last of them to write that leaves the document    *)
(* whole.                                                                  *)

\* The two stores hold the same chunks of d, all of one version.
Agree(d) ==
    /\ text[d] = Stored(d)
    /\ \A c \in Stored(d) : c \in Content[vec[d][c]]
    /\ \A c, e \in Stored(d) : vec[d][c] = vec[d][e]

Clearing == {"vecDelete", "textFind", "textDelete"}
Rebuilding == Clearing \cup {"embed", "vecLock", "vecAdd", "textAdd"}

\* The ingests of d that have begun to rewrite it.
Rebuilders(d) == {o \in Busy(d) : op[o].pc \in Rebuilding}

\* Whatever is not of version v has somebody who will clear it away, and
\* whatever is missing of v somebody who will store it.
NoStaleText(d, v) ==
    \A c \in text[d] \ Content[v] : \E o \in Busy(d) :
        op[o].pc \in {"vecDelete", "textFind"} \/ (op[o].pc = "textDelete" /\ c \in op[o].todo)

NoStaleChunk(d, v) ==
    \A c \in Stored(d) :
        \/ vec[d][c] = v /\ c \in Content[v]
        \/ \E o \in Busy(d) : op[o].pc = "vecDelete" /\ c \in op[o].todo

NoLostChunk(d, v) ==
    \A c \in Content[v] :
        \/ vec[d][c] = v
        \/ \E o \in Busy(d) : \/ op[o].pc \in Clearing \cup {"embed", "vecLock"}
                              \/ op[o].pc = "vecAdd" /\ c \in op[o].todo

Rebuilt(d, v) == NoStaleText(d, v) /\ NoStaleChunk(d, v) /\ NoLostChunk(d, v)

\* Any number of ingests of one version.
Team(d, v) ==
    /\ Rebuilders(d) = {} => Agree(d)
    /\ Rebuilders(d) # {} => Rebuilt(d, v)
    /\ \A o \in Busy(d) :
          /\ op[o].pc = "vecLock" => op[o].todo = Content[v]
          /\ op[o].pc = "vecAdd" => op[o].todo \subseteq Content[v]
          /\ op[o].alone /\ op[o].pc \in {"embed", "vecLock"} => text[d] = {}

\* One request of another kind.
Solo(d, o) ==
    /\ op[o].alone
    /\ op[o].pc \in {"check", "vecFind", "chunkDelete", "updFind"} => Agree(d)
    /\ op[o].pc = "chunkDelete" => \E c \in Chunks : op[o].todo = {c}
    /\ op[o].pc = "textDelete" /\ op[o].kind = "deleteChunk" =>
          \E c \in Chunks :
              /\ op[o].todo = {c}
              /\ Stored(d) = text[d] \ {c}
              /\ \A e \in Stored(d) : e \in Content[vec[d][e]]
              /\ \A e, f \in Stored(d) : vec[d][e] = vec[d][f]

Calm(d) ==
    /\ Busy(d) = {} => Agree(d)
    /\ \A o, p \in Busy(d) : o # p => ~Conflicts(p, op[o].kind, op[o].ver)
    /\ \A o \in Busy(d) : IF op[o].kind = "ingest" THEN Team(d, op[o].ver) ELSE Solo(d, o)

Quiet == Fits => \A d \in Docs \ disturbed : Calm(d)

-----------------------------------------------------------------------------
(* What a step leaves alone stays calm.                                    *)

\* A document none of whose requests or contents change.
LEMMA SameIsCalm ==
    ASSUME NEW d \in Docs, Calm(d), Busy(d)' = Busy(d),
           \A q \in Busy(d) : op'[q] = op[q],
           vec'[d] = vec[d], text'[d] = text[d]
    PROVE  Calm(d)'
<1>1. /\ Stored(d)' = Stored(d)
      /\ Agree(d)' <=> Agree(d)
  BY DEF Stored, Agree
<1>2. Rebuilders(d)' = Rebuilders(d)
  BY DEF Rebuilders
<1>3. ASSUME NEW v, Team(d, v) PROVE Team(d, v)'
  <2>1. NoStaleText(d, v) => NoStaleText(d, v)'
    BY DEF NoStaleText
  <2>2. NoStaleChunk(d, v) => NoStaleChunk(d, v)'
    BY <1>1 DEF NoStaleChunk
  <2>3. NoLostChunk(d, v) => NoLostChunk(d, v)'
    BY DEF NoLostChunk
  <2>4. Rebuilt(d, v) => Rebuilt(d, v)'
    BY <2>1, <2>2, <2>3 DEF Rebuilt
  <2> QED
    BY <1>1, <1>2, <1>3, <2>4 DEF Team
<1>4. ASSUME NEW o \in Busy(d), op[o].kind # "ingest" PROVE Solo(d, o)'
  <2>1. Solo(d, o) /\ op'[o] = op[o]
    BY <1>4 DEF Calm
  <2> QED
    BY <1>1, <2>1 DEF Solo
<1>5. (\A o, p \in Busy(d) : o # p => ~Conflicts(p, op[o].kind, op[o].ver))'
  BY DEF Calm, Conflicts
<1>6. (\A o \in Busy(d) :
          IF op[o].kind = "ingest" THEN Team(d, op[o].ver) ELSE Solo(d, o))'
  <2> SUFFICES ASSUME NEW o \in Busy(d)
               PROVE  IF op'[o].kind = "ingest" THEN Team(d, op[o].ver)' ELSE Solo(d, o)'
    OBVIOUS
  <2>1. op'[o] = op[o]
    OBVIOUS
  <2>2. PICK v : v = op[o].ver
    OBVIOUS
  <2>3. op[o].kind = "ingest" => Team(d, v)'
    BY <1>3, <2>2 DEF Calm
  <2>4. Team(d, v)' => Team(d, op[o].ver)'
    BY <2>1, <2>2 DEF Team, Rebuilt, NoStaleText, NoStaleChunk, NoLostChunk
  <2> QED
    BY <1>4, <2>1, <2>3, <2>4
<1> QED
  BY <1>1, <1>5, <1>6 DEF Calm

\* A request changes only its own document's requests and contents.
LEMMA OthersStayCalm ==
    ASSUME NEW o \in Ops, Framed(o), NEW d \in Docs, d # op[o].doc, Calm(d)
    PROVE  Calm(d)'
<1>1. \A q \in Ops : q \in Busy(d)' <=> q \in Busy(d)
  BY DEF Framed, Busy, Idle
<1>2. Busy(d)' = Busy(d)
  BY <1>1 DEF Busy
<1>3. \A q \in Busy(d) : op'[q] = op[q]
  BY DEF Framed, Busy
<1> QED
  BY <1>2, <1>3, SameIsCalm DEF Framed

\* Who is busy with the document of a request that has taken a step.
LEMMA StillBusy ==
    ASSUME NEW o \in Ops, Framed(o), NEW d \in Docs, d = op[o].doc
    PROVE  /\ o \in Busy(d)
           /\ Idle(o)' => Busy(d)' = Busy(d) \ {o}
           /\ ~Idle(o)' => Busy(d)' = Busy(d)
           /\ \A q \in Busy(d) \ {o} : q \in Ops /\ q \in Busy(d)' /\ op'[q] = op[q]
<1>1. o \in Busy(d)
  BY DEF Framed, Busy
<1>2. \A q \in Ops \ {o} : op'[q] = op[q] /\ (q \in Busy(d)' <=> q \in Busy(d))
  BY DEF Framed, Busy, Idle
<1>3. o \in Busy(d)' <=> ~Idle(o)'
  BY DEF Framed, Busy, Idle
<1>4. Busy(d) \subseteq Ops /\ Busy(d)' \subseteq Ops
  BY DEF Busy
<1> QED
  BY <1>1, <1>2, <1>3, <1>4

-----------------------------------------------------------------------------
(* Requests that are not ingests are alone.                                *)

LEMMA AloneMeans ==
    ASSUME IInv, NEW o \in Ops, ~Idle(o), op[o].alone, NEW d \in Docs, d = op[o].doc
    PROVE  Busy(d) = {o}
  BY DEF IInv, AloneIsAlone, Busy

\* Enough for a request of another kind to keep its document calm.
LEMMA SoloGoal ==
    ASSUME IInv, NEW o \in Ops, Framed(o), NEW d \in Docs, d = op[o].doc,
           op[o].kind # "ingest", Calm(d),
           Idle(o)' => Agree(d)',
           ~Idle(o)' => Solo(d, o)' /\ op'[o].kind = op[o].kind
    PROVE  Calm(d)'
<1>1. o \in Busy(d)
  BY StillBusy
<1>2. op[o].alone
  BY <1>1 DEF Calm, Solo
<1>3. Busy(d) = {o}
  BY <1>2, AloneMeans DEF Framed
<1>4. CASE Idle(o)'
  <2>1. Busy(d)' = {}
    BY <1>3, <1>4, StillBusy
  <2> QED
    BY <1>4, <2>1 DEF Calm
<1>5. CASE ~Idle(o)'
  <2>1. Busy(d)' = {o}
    BY <1>3, <1>5, StillBusy
  <2> QED
    BY <1>5, <2>1 DEF Calm
<1> QED
  BY <1>4, <1>5

\* A request that may stop here without harm leaves the stores agreeing.
LEMMA SafeToStop ==
    ASSUME IInv, Fits, NEW o \in Ops, ~Idle(o), NEW d \in Docs, d = op[o].doc,
           Calm(d), ~Halfway(o)
    PROVE  Busy(d) = {o} /\ Agree(d)
<1>1. o \in Busy(d)
  BY DEF Busy
<1>2. /\ op[o] \in OpState /\ WellPlaced(o) /\ OnTrack(o) /\ op[o].alone
  BY Unfold DEF Halfway
<1>3. Busy(d) = {o}
  BY <1>2, AloneMeans
<1>4. op[o].pc \in {"check", "vecFind", "embed", "vecLock", "chunkDelete", "updFind"}
  BY <1>2 DEF Halfway, OpState, PCs, HoldsMu, Idle
<1>5. CASE op[o].kind = "ingest"
  <2>1. Team(d, op[o].ver)
    BY <1>1, <1>5 DEF Calm
  <2>2. CASE op[o].pc \in {"embed", "vecLock"}
    <3>1. Stored(d) = {} /\ text[d] = {}
      BY <1>1, <1>2, <1>5, <2>1, <2>2 DEF Team, OnTrack, Progress
    <3> QED
      BY <1>3, <3>1 DEF Agree
  <2>3. CASE op[o].pc \in {"check", "vecFind"}
    <3>1. Rebuilders(d) = {}
      BY <1>3, <2>3 DEF Rebuilders, Rebuilding, Clearing
    <3> QED
      BY <1>3, <2>1, <3>1 DEF Team
  <2>4. op[o].pc \notin {"chunkDelete", "updFind"}
    BY <1>2, <1>5 DEF WellPlaced, KindsAt
  <2> QED
    BY <1>4, <2>2, <2>3, <2>4
<1>6. CASE op[o].kind # "ingest"
  <2>1. Solo(d, o)
    BY <1>1, <1>6 DEF Calm
  <2>2. op[o].pc # "embed"
    BY <1>2, <1>6 DEF WellPlaced, KindsAt
  <2>3. op[o].pc # "vecLock"
    <3>1. op[o].pc = "vecLock" => op[o].kind = "update"
      BY <1>2, <1>6 DEF WellPlaced, KindsAt
    <3> QED
      BY <3>1 DEF Halfway
  <2> QED
    BY <1>3, <1>4, <2>1, <2>2, <2>3 DEF Solo
<1> QED
  BY <1>5, <1>6

-----------------------------------------------------------------------------
(* A step of a request of another kind.                                    *)

\* What a step that moves on makes of the request.
Moved(o, pc, todo) ==
    /\ op'[o].pc = pc /\ op'[o].todo = todo
    /\ op'[o].kind = op[o].kind /\ op'[o].doc = op[o].doc
    /\ op'[o].ver = op[o].ver /\ op'[o].alone = op[o].alone

LEMMA GotoMoves ==
    ASSUME op \in [Ops -> OpState], NEW o \in Ops, NEW pc \in PCs,
           NEW todo \in SUBSET Chunks, Goto(o, pc, todo)
    PROVE  Moved(o, pc, todo)
  BY GotoFields DEF Moved

\* Most of these steps leave the stores agreeing or the request at a place
\* where nothing is asked of them.
LEMMA SoloMoves ==
    ASSUME IInv, NEW o \in Ops, Framed(o), NEW d \in Docs, d = op[o].doc,
           op[o].kind # "ingest", Calm(d),
           NEW pc \in PCs \ {"idle"}, NEW todo \in SUBSET Chunks,
           Goto(o, pc, todo),
           pc \notin {"check", "vecFind", "chunkDelete", "updFind"},
           pc = "textDelete" => op[o].kind # "deleteChunk"
    PROVE  Calm(d)'
<1>1. Moved(o, pc, todo)
  BY GotoMoves DEF IInv, TypeOK
<1>2. Solo(d, o)
  BY StillBusy DEF Calm
<1>3. Solo(d, o)'
  BY <1>1, <1>2 DEF Solo, Moved
<1> QED
  BY <1>1, <1>3, SoloGoal DEF Moved, Idle

LEMMA SoloReturns ==
    ASSUME IInv, NEW o \in Ops, Framed(o), NEW d \in Docs, d = op[o].doc,
           op[o].kind # "ingest", Calm(d),
           NEW out \in Outcomes, Return(o, out), Agree(d)'
    PROVE  Calm(d)'
<1>1. Idle(o)'
  BY ReturnFields DEF IInv, TypeOK, Idle
<1> QED
  BY <1>1, SoloGoal

LEMMA AgreeKept ==
    ASSUME NEW d, Agree(d), vec' = vec, text' = text
    PROVE  Agree(d)'
  BY DEF Agree, Stored

LEMMA SoloStep ==
    ASSUME StoreAssumption, IInv, Fits, NEW o \in Ops, OpStep(o), Framed(o),
           NEW d \in Docs, d = op[o].doc, op[o].kind # "ingest", Calm(d)
    PROVE  Calm(d)'
<1>0. /\ op \in [Ops -> OpState] /\ op[o] \in OpState /\ op[o].todo \in SUBSET Chunks
      /\ text \in [Docs -> SUBSET Chunks]
      /\ vec \in [Docs -> [Chunks -> Versions \cup {NoVersion}]]
      /\ WellPlaced(o) /\ OnTrack(o)
  BY Unfold DEF Framed
<1>1. Solo(d, o) /\ op[o].alone
  BY StillBusy DEF Calm, Solo
<1>2. CASE Check(o)
  <2>0. op[o].pc = "check" /\ vec' = vec /\ text' = text
    BY <1>2 DEF Check, stores
  <2>1. Agree(d)'
    BY <1>1, <2>0, AgreeKept DEF Solo
  <2>2. CASE Return(o, "ok")
    BY <2>1, <2>2, SoloReturns DEF Outcomes
  <2>3. CASE op' = [op EXCEPT ![o].pc = "vecFind",
                              ![o].refresh = op[o].kind = "ingest"]
    <3>1. /\ op'[o].pc = "vecFind" /\ op'[o].alone
          /\ op'[o].kind = op[o].kind
      BY <1>0, <1>1, <2>3 DEF OpState
    <3>2. Solo(d, o)'
      BY <2>1, <3>1 DEF Solo
    <3> QED
      BY <3>1, <3>2, SoloGoal DEF Idle
  <2> QED
    BY <1>2, <2>2, <2>3 DEF Check
<1>3. CASE VecFind(o)
  <2>0. op[o].pc = "vecFind" /\ vec' = vec /\ text' = text
    BY <1>3 DEF VecFind, stores
  <2>1. Agree(d)'
    BY <1>1, <2>0, AgreeKept DEF Solo
  <2>2. \A T \in Found(d) : T \in SUBSET Chunks
    BY DEF Found, Stored
  <2> QED
    BY <1>3, <2>1, <2>2, SoloReturns, SoloMoves DEF VecFind, Outcomes, PCs, HoldsMu
<1>4. CASE VecDelete(o)
  BY <1>0, <1>4, SoloMoves DEF VecDelete, PCs, HoldsMu
<1>5. CASE TextFind(o)
  <2>1. op[o].pc = "textFind" /\ vec' = vec /\ text' = text
        /\ text[d] \in SUBSET Chunks /\ Stored(d) = {}
    BY <1>0, <1>1, <1>5 DEF TextFind, stores, OnTrack, Progress, Idle
  <2>2. op[o].kind # "deleteChunk"
    BY <1>0, <2>1 DEF WellPlaced, KindsAt
  <2>3. CASE text[d] = {} /\ Return(o, "ok")
    <3>1. Agree(d)'
      BY <2>1, <2>3 DEF Agree, Stored
    <3> QED
      BY <2>3, <3>1, SoloReturns DEF Outcomes
  <2>4. CASE Goto(o, "textDelete", text[d])
    BY <2>1, <2>2, <2>4, SoloMoves DEF PCs, HoldsMu
  <2> QED
    BY <1>5, <2>3, <2>4 DEF TextFind, Cleared
<1>6. CASE TextDelete(o)
  <2>1. PICK c \in op[o].todo :
           /\ text' = [text EXCEPT ![d] = @ \ {c}]
           /\ \/ op[o].todo = {c} /\ Return(o, "ok")
              \/ op[o].todo # {c} /\ Goto(o, "textDelete", op[o].todo \ {c})
    BY <1>6 DEF TextDelete, Cleared
  <2>2. op[o].pc = "textDelete" /\ vec' = vec /\ text'[d] = text[d] \ {c}
    BY <1>0, <1>6, <2>1 DEF TextDelete
  <2>3. CASE op[o].kind = "deleteChunk"
    <3>1. PICK b \in Chunks :
              /\ op[o].todo = {b}
              /\ Stored(d) = text[d] \ {b}
              /\ \A e \in Stored(d) : e \in Content[vec[d][e]]
              /\ \A e, f \in Stored(d) : vec[d][e] = vec[d][f]
      BY <1>1, <2>2, <2>3 DEF Solo
    <3>2. b = c
      BY <2>1, <3>1
    <3>3. Agree(d)'
      BY <2>2, <3>1, <3>2 DEF Agree, Stored
    <3> QED
      BY <2>1, <3>1, <3>2, <3>3, SoloReturns DEF Outcomes
  <2>4. CASE op[o].kind # "deleteChunk"
    <3>1. Stored(d) = {} /\ op[o].todo = text[d]
      BY <1>0, <1>1, <2>2, <2>4 DEF OnTrack, Progress, Idle
    <3>2. CASE op[o].todo = {c} /\ Return(o, "ok")
      <4>1. Agree(d)'
        BY <2>2, <3>1, <3>2 DEF Agree, Stored
      <4> QED
        BY <3>2, <4>1, SoloReturns DEF Outcomes
    <3>3. CASE Goto(o, "textDelete", op[o].todo \ {c})
      BY <1>0, <2>4, <3>3, SoloMoves DEF PCs, HoldsMu
    <3> QED
      BY <2>1, <3>2, <3>3
  <2> QED
    BY <2>3, <2>4
<1>7. CASE Embed(o) \/ VecAdd(o) \/ TextAdd(o)
  BY <1>0, <1>7 DEF Embed, VecAdd, TextAdd, WellPlaced, KindsAt
<1>8. CASE VecLock(o)
  BY <1>0, <1>8, SoloMoves DEF VecLock, PCs, HoldsMu
<1>9. CASE ChunkDelete(o)
  <2>1. PICK c \in Chunks : op[o].todo = {c}
    BY <1>1, <1>9 DEF ChunkDelete, Solo
  <2>2. Goto(o, "textDelete", {c}) /\ vec' = [vec EXCEPT ![d][c] = NoVersion]
        /\ text' = text
    BY <1>9, <2>1 DEF ChunkDelete
  <2>3. vec'[d] = [vec[d] EXCEPT ![c] = NoVersion] /\ text'[d] = text[d]
    BY <1>0, <2>2
  <2>4. Agree(d)
    BY <1>1, <1>9 DEF ChunkDelete, Solo
  <2>5. Stored(d)' = Stored(d) \ {c} /\ \A e \in Stored(d)' : vec'[d][e] = vec[d][e]
    BY <1>0, <2>3 DEF Stored
  <2>6. Moved(o, "textDelete", {c})
    BY <1>0, <2>2, GotoMoves DEF PCs, HoldsMu
  <2>7. /\ Stored(d)' = text'[d] \ {c}
        /\ \A e \in Stored(d)' : e \in Content[vec'[d][e]]
        /\ \A e, f \in Stored(d)' : vec'[d][e] = vec'[d][f]
    BY <2>3, <2>4, <2>5 DEF Agree
  <2>8. Solo(d, o)'
    BY <1>1, <2>6, <2>7 DEF Solo, Moved
  <2> QED
    BY <2>6, <2>8, SoloGoal DEF Moved, Idle
<1>10. CASE UpdFind(o)
  <2>0. op[o].pc = "updFind" /\ vec' = vec /\ text' = text
    BY <1>10 DEF UpdFind, stores
  <2>1. Agree(d)'
    BY <1>1, <2>0, AgreeKept DEF Solo
  <2>2. \A T \in Found(d) : T \in SUBSET Chunks
    BY DEF Found, Stored
  <2> QED
    BY <1>10, <2>1, <2>2, SoloReturns, SoloMoves DEF UpdFind, Outcomes, PCs, HoldsMu
<1>11. CASE UpdDelete(o)
  BY <1>0, <1>11, SoloMoves DEF UpdDelete, PCs, HoldsMu
<1> QED
  BY <1>2, <1>3, <1>4, <1>5, <1>6, <1>7, <1>8, <1>9, <1>10, <1>11 DEF OpStep

-----------------------------------------------------------------------------
(* A step of an ingest.                                                    *)

\* All the requests for an ingest's document are ingests of its version.
LEMMA OneTeam ==
    ASSUME NEW d \in Docs, Calm(d), NEW o \in Busy(d), op[o].kind = "ingest",
           NEW v, v = op[o].ver
    PROVE  Team(d, v) /\ \A p \in Busy(d) : op[p].kind = "ingest" /\ op[p].ver = v
  BY DEF Calm, Conflicts

\* What a request at a place for embedding or storing knows.
Placed(o, d, v) ==
    /\ op[o].pc = "vecLock" => op[o].todo = Content[v]
    /\ op[o].pc = "vecAdd" => op[o].todo \subseteq Content[v]
    /\ op[o].alone /\ op[o].pc \in {"embed", "vecLock"} => text[d] = {}

\* Enough for an ingest to keep its document calm.
LEMMA TeamGoal ==
    ASSUME IInv, NEW o \in Ops, Framed(o), NEW d \in Docs, d = op[o].doc,
           op[o].kind = "ingest", NEW v, v = op[o].ver, Calm(d),
           Rebuilders(d)' = {} => Agree(d)',
           Rebuilders(d)' # {} => Rebuilt(d, v)',
           ~Idle(o)' => Placed(o, d, v)' /\ op'[o].kind = "ingest" /\ op'[o].ver = v
    PROVE  Calm(d)'
<1>1. o \in Busy(d)
  BY StillBusy
<1>2. Team(d, v) /\ \A p \in Busy(d) : op[p].kind = "ingest" /\ op[p].ver = v
  BY <1>1, OneTeam
<1>3. \A p \in Busy(d)' \ {o} : p \in Busy(d) /\ p \in Ops /\ op'[p] = op[p]
  BY StillBusy DEF Busy, Framed, Idle
<1>4. o \in Busy(d)' => ~Idle(o)'
  BY DEF Busy
<1>5. \A p \in Busy(d)' : op'[p].kind = "ingest" /\ op'[p].ver = v
  BY <1>2, <1>3, <1>4
<1>6. ASSUME NEW p \in Busy(d)' PROVE Placed(p, d, v)'
  <2>1. CASE p = o
    BY <1>4, <1>6, <2>1
  <2>2. CASE p # o
    <3>1. p \in Busy(d) /\ p \in Ops /\ op'[p] = op[p]
      BY <1>3, <2>2
    <3>2. ~op[p].alone
      BY <1>1, <2>2, <3>1 DEF IInv, AloneIsAlone, Busy
    <3> QED
      BY <1>2, <3>1, <3>2 DEF Team, Placed
  <2> QED
    BY <2>1, <2>2
<1>7. Team(d, v)'
  BY <1>6 DEF Team, Placed
<1>8. (\A q, p \in Busy(d) : q # p => ~Conflicts(p, op[q].kind, op[q].ver))'
  BY <1>5 DEF Conflicts
<1>9. Busy(d)' = {} => Agree(d)'
  BY DEF Rebuilders
<1>10. (\A q \in Busy(d) :
          IF op[q].kind = "ingest" THEN Team(d, op[q].ver) ELSE Solo(d, q))'
  BY <1>5, <1>7 DEF Team, Rebuilt, NoStaleText, NoStaleChunk, NoLostChunk
<1> QED
  BY <1>8, <1>9, <1>10 DEF Calm

\* A step to a place that rebuilds, or from one place before that to another.
LEMMA TeamMoves ==
    ASSUME IInv, NEW o \in Ops, Framed(o), NEW d \in Docs, d = op[o].doc,
           op[o].kind = "ingest", NEW v, v = op[o].ver, Calm(d),
           NEW pc \in PCs \ {"idle"}, NEW todo \in SUBSET Chunks,
           Moved(o, pc, todo), pc \in Rebuilding, Rebuilt(d, v)',
           pc = "vecLock" => todo = Content[v],
           pc = "vecAdd" => todo \subseteq Content[v],
           op[o].alone /\ pc \in {"embed", "vecLock"} => text'[d] = {}
    PROVE  Calm(d)'
<1>1. o \in Rebuilders(d)'
  BY DEF Moved, Rebuilders, Busy, Idle
<1>2. Placed(o, d, v)'
  BY DEF Moved, Placed
<1> QED
  BY <1>1, <1>2, TeamGoal DEF Moved

\* A step of one that has not begun to rewrite the document, to where it still
\* has not.
LEMMA TeamWaits ==
    ASSUME IInv, NEW o \in Ops, Framed(o), NEW d \in Docs, d = op[o].doc,
           op[o].kind = "ingest", NEW v, v = op[o].ver, Calm(d),
           op[o].pc \notin Rebuilding, op'[o].pc \notin Rebuilding,
           ~Idle(o)' => op'[o].kind = "ingest" /\ op'[o].ver = v,
           vec' = vec, text' = text
    PROVE  Calm(d)'
<1>1. o \in Busy(d)
  BY StillBusy
<1>2. Team(d, v)
  BY <1>1, OneTeam
<1>3. \A p \in Busy(d)' \ {o} : p \in Busy(d) /\ p \in Ops /\ op'[p] = op[p]
  BY StillBusy DEF Busy, Framed, Idle
<1>4. \A p \in Busy(d) \ {o} : p \in Busy(d)' /\ op'[p] = op[p]
  BY StillBusy
<1>5. Rebuilders(d)' = Rebuilders(d)
  BY <1>3, <1>4 DEF Rebuilders
<1>6. Rebuilders(d) = {} => Agree(d)'
  BY <1>2, AgreeKept DEF Team
<1>7. ASSUME Rebuilt(d, v) PROVE Rebuilt(d, v)'
  <2>1. NoStaleText(d, v)'
    BY <1>4, <1>7 DEF Rebuilt, NoStaleText, Rebuilding, Clearing
  <2>2. NoStaleChunk(d, v)'
    BY <1>4, <1>7 DEF Rebuilt, NoStaleChunk, Rebuilding, Clearing, Stored
  <2>3. NoLostChunk(d, v)'
    BY <1>4, <1>7 DEF Rebuilt, NoLostChunk, Rebuilding, Clearing
  <2> QED
    BY <2>1, <2>2, <2>3 DEF Rebuilt
<1>8. Placed(o, d, v)'
  BY DEF Placed, Rebuilding, Clearing
<1> QED
  BY <1>2, <1>5, <1>6, <1>7, <1>8, TeamGoal DEF Team

\* The first step that rewrites: the document was agreed on, or is being
\* rewritten already.
LEMMA TeamStarts ==
    ASSUME StoreAssumption, IInv, Fits, NEW o \in Ops, Framed(o),
           NEW d \in Docs, d = op[o].doc, op[o].kind = "ingest",
           NEW v, v = op[o].ver, Calm(d),
           \/ Check(o) /\ Stored(d) = {} /\ Goto(o, "embed", {})
           \/ VecFind(o) /\ \E T \in Found(d) : Goto(o, "vecDelete", T)
    PROVE  Calm(d)'
<1>0. /\ op \in [Ops -> OpState] /\ vec' = vec /\ text' = text
      /\ op[o].pc \notin Rebuilding /\ v \in Versions
  BY Unfold DEF Framed, Check, VecFind, stores, Rebuilding, Clearing, WellPlaced
<1>1. o \in Busy(d)
  BY StillBusy
<1>2. Team(d, v)
  BY <1>1, OneTeam
<1>3. \A p \in Busy(d) \ {o} : p \in Busy(d)' /\ op'[p] = op[p]
  BY StillBusy
<1>4. CASE Stored(d) = {} /\ Goto(o, "embed", {})
  <2>1. Moved(o, "embed", {}) /\ o \in Busy(d)'
    BY <1>0, <1>1, <1>4, GotoMoves, StillBusy DEF PCs, HoldsMu, Moved, Idle
  <2>2. NoStaleText(d, v)'
    <3>1. CASE Rebuilders(d) = {}
      BY <1>0, <1>2, <1>4, <3>1 DEF Team, Agree, NoStaleText
    <3>2. CASE Rebuilders(d) # {}
      <4>1. NoStaleText(d, v)
        BY <1>2, <3>2 DEF Team, Rebuilt
      <4> QED
        BY <1>0, <1>3, <4>1 DEF NoStaleText, Rebuilding, Clearing
    <3> QED
      BY <3>1, <3>2
  <2>3. NoStaleChunk(d, v)'
    BY <1>0, <1>4 DEF NoStaleChunk, Stored
  <2>4. NoLostChunk(d, v)'
    BY <2>1 DEF NoLostChunk, Moved
  <2>5. op[o].alone => text'[d] = {}
    <3>1. ASSUME op[o].alone PROVE Rebuilders(d) = {}
      <4>1. Busy(d) = {o}
        BY <3>1, AloneMeans DEF Framed
      <4> QED
        BY <1>0, <4>1 DEF Rebuilders
    <3> QED
      BY <1>0, <1>2, <1>4, <3>1 DEF Team, Agree
  <2>6. "embed" \in PCs \ {"idle"} /\ "embed" \in Rebuilding
    BY DEF PCs, Rebuilding
  <2> QED
    BY <2>1, <2>2, <2>3, <2>4, <2>5, <2>6, TeamMoves DEF Rebuilt
<1>5. ASSUME NEW T \in Found(d), Goto(o, "vecDelete", T) PROVE Calm(d)'
  <2>0. T = Stored(d) /\ T \in SUBSET Chunks
    BY FoundWhole DEF Stored
  <2>1. Moved(o, "vecDelete", T) /\ o \in Busy(d)'
    BY <1>0, <1>1, <1>5, <2>0, GotoMoves, StillBusy DEF PCs, HoldsMu, Moved, Idle
  <2>2. Rebuilt(d, v)'
    BY <1>0, <2>0, <2>1
    DEF Rebuilt, NoStaleText, NoStaleChunk, NoLostChunk, Stored, Moved, Clearing
  <2>3. "vecDelete" \in PCs \ {"idle"} /\ "vecDelete" \in Rebuilding
    BY DEF PCs, HoldsMu, Rebuilding, Clearing
  <2> QED
    BY <2>0, <2>1, <2>2, <2>3, TeamMoves
<1> QED
  BY <1>4, <1>5

\* The last request to store its chunks leaves the document whole.
LEMMA LastLeavesWhole ==
    ASSUME IInv, NEW d \in Docs, NEW v \in Versions, StoreAssumption,
           text' \in [Docs -> SUBSET Chunks], Rebuilt(d, v)',
           Rebuilders(d)' = {}, Content[v] \subseteq text'[d]
    PROVE  Agree(d)'
<1>1. \A p \in Busy(d)' : op'[p].pc \notin Rebuilding
  BY DEF Rebuilders
<1>2. text'[d] = Content[v]
  BY <1>1 DEF Rebuilt, NoStaleText, Rebuilding, Clearing
<1>3. \A c \in Stored(d)' : vec'[d][c] = v /\ c \in Content[v]
  BY <1>1 DEF Rebuilt, NoStaleChunk, Rebuilding, Clearing
<1>4. \A c \in Content[v] : c \in Stored(d)'
  <2> TAKE c \in Content[v]
  <2>1. vec'[d][c] = v
    BY <1>1 DEF Rebuilt, NoLostChunk, Rebuilding, Clearing
  <2>2. c \in Chunks /\ v # NoVersion
    BY DEF StoreAssumption
  <2> QED
    BY <2>1, <2>2 DEF Stored
<1> QED
  BY <1>2, <1>3, <1>4 DEF Agree

LEMMA TeamStep ==
    ASSUME StoreAssumption, IInv, Fits, NEW o \in Ops, OpStep(o), Framed(o),
           TypeOK', NEW d \in Docs, d = op[o].doc, op[o].kind = "ingest", Calm(d)
    PROVE  Calm(d)'
<1> PICK v : v = op[o].ver
  OBVIOUS
<1>0. /\ op \in [Ops -> OpState] /\ op[o] \in OpState /\ op[o].todo \in SUBSET Chunks
      /\ text \in [Docs -> SUBSET Chunks] /\ v \in Versions
      /\ vec \in [Docs -> [Chunks -> Versions \cup {NoVersion}]]
      /\ WellPlaced(o) /\ OnTrack(o) /\ ~Idle(o)
      /\ Content[v] \in SUBSET Chunks
  BY Unfold DEF Framed, WellPlaced, StoreAssumption
<1>1. o \in Busy(d)
  BY StillBusy
<1>2. Team(d, v)
  BY <1>1, OneTeam
<1>3. \A p \in Busy(d) \ {o} : p \in Busy(d)' /\ op'[p] = op[p]
  BY StillBusy
<1>4. op[o].pc \in Rebuilding => Rebuilt(d, v)
  BY <1>1, <1>2 DEF Team, Rebuilders
<1>5. ASSUME op'[o].pc # "idle" PROVE o \in Busy(d)'
  BY <1>1, <1>5, StillBusy DEF Idle
<1>6. ASSUME op[o].pc \notin Rebuilding, vec' = vec, text' = text,
             NEW out \in Outcomes, Return(o, out)
      PROVE  Calm(d)'
  <2>1. op'[o].pc = "idle"
    BY <1>0, <1>6, ReturnFields
  <2> QED
    BY <1>6, <2>1, TeamWaits DEF Idle, Rebuilding, Clearing
<1>7. CASE Check(o)
  <2>0. op[o].pc \notin Rebuilding /\ vec' = vec /\ text' = text
    BY <1>7 DEF Check, stores, Rebuilding, Clearing
  <2>1. CASE Stored(d) = {} /\ Goto(o, "embed", {})
    BY <1>7, <2>1, TeamStarts
  <2>2. CASE Return(o, "ok") \/ Return(o, "unchanged")
    BY <1>6, <2>0, <2>2 DEF Outcomes
  <2>3. CASE op' = [op EXCEPT ![o].pc = "vecFind",
                              ![o].refresh = op[o].kind = "ingest"]
    <3>1. op'[o].pc = "vecFind" /\ op'[o].kind = "ingest" /\ op'[o].ver = v
      BY <1>0, <2>3 DEF OpState
    <3> QED
      BY <2>0, <3>1, TeamWaits DEF Rebuilding, Clearing
  <2> QED
    BY <1>7, <2>1, <2>2, <2>3 DEF Check
<1>8. CASE VecFind(o)
  <2>0. op[o].pc \notin Rebuilding /\ vec' = vec /\ text' = text
    BY <1>8 DEF VecFind, stores, Rebuilding, Clearing
  <2>1. CASE Return(o, "not found")
    BY <1>6, <2>0, <2>1 DEF Outcomes
  <2>2. CASE \E T \in Found(d) : Goto(o, "vecDelete", T)
    BY <1>8, <2>2, TeamStarts
  <2> QED
    BY <1>8, <2>1, <2>2 DEF VecFind
<1>9. CASE VecDelete(o)
  <2>1. PICK c \in op[o].todo :
           /\ vec' = [vec EXCEPT ![d][c] = NoVersion]
           /\ \/ op[o].todo = {c} /\ Goto(o, "textFind", {})
              \/ op[o].todo # {c} /\ Goto(o, "vecDelete", op[o].todo \ {c})
    BY <1>9 DEF VecDelete
  <2>2. op[o].pc = "vecDelete" /\ text' = text /\ c \in Chunks
    BY <1>0, <1>9 DEF VecDelete
  <2>3. /\ vec'[d][c] = NoVersion
        /\ \A e \in Chunks \ {c} : vec'[d][e] = vec[d][e]
    BY <1>0, <2>1, <2>2
  <2>4. Rebuilt(d, v)
    BY <1>4, <2>2 DEF Rebuilding, Clearing
  <2>5. \/ Moved(o, "textFind", {}) /\ op[o].todo = {c}
        \/ Moved(o, "vecDelete", op[o].todo \ {c})
    BY <1>0, <2>1, GotoMoves DEF PCs, HoldsMu
  <2>6. o \in Busy(d)'
    BY <1>5, <2>5 DEF Moved
  <2>7. NoStaleText(d, v)'
    BY <2>5, <2>6 DEF NoStaleText, Moved
  <2>8. NoStaleChunk(d, v)'
    <3> SUFFICES ASSUME NEW e \in Stored(d)'
                 PROVE  \/ vec'[d][e] = v /\ e \in Content[v]
                        \/ \E p \in Busy(d)' : op'[p].pc = "vecDelete" /\ e \in op'[p].todo
      BY DEF NoStaleChunk
    <3>1. e # c /\ vec'[d][e] = vec[d][e] /\ e \in Stored(d)
      BY <2>3 DEF Stored
    <3>2. CASE vec[d][e] = v /\ e \in Content[v]
      BY <3>1, <3>2
    <3>3. ASSUME NEW p \in Busy(d), op[p].pc = "vecDelete", e \in op[p].todo
          PROVE  \E q \in Busy(d)' : op'[q].pc = "vecDelete" /\ e \in op'[q].todo
      <4>1. CASE p = o
        <5>1. Moved(o, "vecDelete", op[o].todo \ {c})
          BY <2>5, <3>1, <3>3, <4>1
        <5> QED
          BY <2>6, <3>1, <3>3, <4>1, <5>1 DEF Moved
      <4>2. CASE p # o
        BY <1>3, <3>3, <4>2
      <4> QED
        BY <4>1, <4>2
    <3> QED
      BY <2>4, <3>1, <3>2, <3>3 DEF Rebuilt, NoStaleChunk
  <2>9. NoLostChunk(d, v)'
    BY <2>5, <2>6 DEF NoLostChunk, Moved, Clearing
  <2>10. {"textFind", "vecDelete"} \subseteq (PCs \ {"idle"}) \cap Rebuilding
    BY DEF PCs, HoldsMu, Rebuilding, Clearing
  <2>11. Rebuilt(d, v)'
    BY <2>7, <2>8, <2>9 DEF Rebuilt
  <2>12. CASE Moved(o, "textFind", {})
    BY <2>10, <2>11, <2>12, TeamMoves
  <2>13. CASE Moved(o, "vecDelete", op[o].todo \ {c})
    <3>1. op[o].todo \ {c} \in SUBSET Chunks
      BY <1>0
    <3> QED
      BY <2>10, <2>11, <2>13, <3>1, TeamMoves
  <2> QED
    BY <2>5, <2>12, <2>13
<1>10. CASE TextFind(o)
  <2>1. op[o].pc = "textFind" /\ vec' = vec /\ text' = text
        /\ \/ text[d] = {} /\ Goto(o, "embed", {})
           \/ Goto(o, "textDelete", text[d])
    BY <1>10 DEF TextFind, Cleared, stores
  <2>2. text[d] \in SUBSET Chunks
    BY <1>0
  <2>3. \/ Moved(o, "embed", {}) /\ text[d] = {}
        \/ Moved(o, "textDelete", text[d])
    BY <1>0, <2>1, <2>2, GotoMoves DEF PCs, HoldsMu
  <2>4. Rebuilt(d, v) /\ o \in Busy(d)'
    BY <1>4, <1>5, <2>1, <2>3 DEF Rebuilding, Clearing, Moved
  <2>5. NoStaleText(d, v)'
    BY <2>1, <2>3, <2>4 DEF NoStaleText, Moved
  <2>6. NoStaleChunk(d, v)'
    BY <1>3, <2>1, <2>4 DEF Rebuilt, NoStaleChunk, Stored
  <2>7. NoLostChunk(d, v)'
    BY <2>3, <2>4 DEF NoLostChunk, Moved, Clearing
  <2>8. {"embed", "textDelete"} \subseteq (PCs \ {"idle"}) \cap Rebuilding
    BY DEF PCs, HoldsMu, Rebuilding, Clearing
  <2> QED
    BY <2>1, <2>2, <2>3, <2>5, <2>6, <2>7, <2>8, TeamMoves DEF Rebuilt
<1>11. CASE TextDelete(o)
  <2>1. PICK c \in op[o].todo :
           /\ text' = [text EXCEPT ![d] = @ \ {c}]
           /\ \/ op[o].todo = {c} /\ Goto(o, "embed", {})
              \/ op[o].todo # {c} /\ Goto(o, "textDelete", op[o].todo \ {c})
    BY <1>11 DEF TextDelete, Cleared
  <2>2. op[o].pc = "textDelete" /\ vec' = vec /\ text'[d] = text[d] \ {c}
    BY <1>0, <1>11, <2>1 DEF TextDelete
  <2>3. \/ Moved(o, "embed", {}) /\ op[o].todo = {c}
        \/ Moved(o, "textDelete", op[o].todo \ {c})
    BY <1>0, <2>1, GotoMoves DEF PCs, HoldsMu
  <2>4. Rebuilt(d, v) /\ o \in Busy(d)'
    BY <1>4, <1>5, <2>2, <2>3 DEF Rebuilding, Clearing, Moved
  <2>5. NoStaleText(d, v)'
    <3> SUFFICES ASSUME NEW e \in text'[d] \ Content[v]
                 PROVE  \E p \in Busy(d)' :
                            \/ op'[p].pc \in {"vecDelete", "textFind"}
                            \/ op'[p].pc = "textDelete" /\ e \in op'[p].todo
      BY DEF NoStaleText
    <3>1. e # c /\ e \in text[d] \ Content[v]
      BY <2>2
    <3>2. PICK p \in Busy(d) :
             \/ op[p].pc \in {"vecDelete", "textFind"}
             \/ op[p].pc = "textDelete" /\ e \in op[p].todo
      BY <2>4, <3>1 DEF Rebuilt, NoStaleText
    <3>3. CASE p = o
      <4>1. Moved(o, "textDelete", op[o].todo \ {c})
        BY <2>2, <2>3, <3>1, <3>2, <3>3
      <4> QED
        BY <2>2, <2>4, <3>1, <3>2, <3>3, <4>1 DEF Moved
    <3>4. CASE p # o
      BY <1>3, <3>2, <3>4
    <3> QED
      BY <3>3, <3>4
  <2>6. NoStaleChunk(d, v)'
    BY <1>3, <2>2, <2>4 DEF Rebuilt, NoStaleChunk, Stored
  <2>7. NoLostChunk(d, v)'
    BY <2>3, <2>4 DEF NoLostChunk, Moved, Clearing
  <2>8. {"embed", "textDelete"} \subseteq (PCs \ {"idle"}) \cap Rebuilding
    BY DEF PCs, HoldsMu, Rebuilding, Clearing
  <2>9. op[o].alone /\ op[o].todo = {c} => text'[d] = {}
    <3>1. op[o].alone => op[o].todo = text[d]
      BY <1>0, <2>2 DEF OnTrack, Progress
    <3> QED
      BY <2>2, <3>1
  <2>10. Rebuilt(d, v)'
    BY <2>5, <2>6, <2>7 DEF Rebuilt
  <2>11. CASE Moved(o, "embed", {}) /\ op[o].todo = {c}
    BY <2>8, <2>9, <2>10, <2>11, TeamMoves
  <2>12. CASE Moved(o, "textDelete", op[o].todo \ {c})
    <3>1. op[o].todo \ {c} \in SUBSET Chunks
      BY <1>0
    <3> QED
      BY <2>8, <2>10, <2>12, <3>1, TeamMoves
  <2> QED
    BY <2>3, <2>11, <2>12
<1>12. CASE Embed(o)
  <2>1. op[o].pc = "embed" /\ vec' = vec /\ text' = text
        /\ \/ Content[v] = {} /\ Return(o, "error")
           \/ Goto(o, "vecLock", Content[v])
    BY <1>12 DEF Embed, stores
  <2>2. Rebuilt(d, v)
    BY <1>4, <2>1 DEF Rebuilding
  <2>3. NoStaleText(d, v)'
    BY <1>3, <2>1, <2>2 DEF Rebuilt, NoStaleText
  <2>4. NoStaleChunk(d, v)'
    BY <1>3, <2>1, <2>2 DEF Rebuilt, NoStaleChunk, Stored
  <2>5. CASE Content[v] = {} /\ Return(o, "error")
    <3>1. NoLostChunk(d, v)'
      BY <2>5 DEF NoLostChunk
    <3>2. op'[o].pc = "idle"
      BY <1>0, <2>5, ReturnFields DEF Outcomes
    <3>3. Rebuilders(d)' = {} => Agree(d)'
      BY <1>0, <2>3, <2>4, <2>5, <3>1, LastLeavesWhole DEF Rebuilt, TypeOK
    <3> QED
      BY <2>3, <2>4, <3>1, <3>2, <3>3, TeamGoal DEF Rebuilt, Idle
  <2>6. CASE Goto(o, "vecLock", Content[v])
    <3>1. Moved(o, "vecLock", Content[v])
      BY <1>0, <2>6, GotoMoves DEF PCs
    <3>2. NoLostChunk(d, v)'
      BY <1>5, <3>1 DEF NoLostChunk, Moved
    <3>3. op[o].alone => text'[d] = {}
      BY <1>1, <1>2, <2>1 DEF Team
    <3>4. "vecLock" \in PCs \ {"idle"} /\ "vecLock" \in Rebuilding
      BY DEF PCs, Rebuilding
    <3> QED
      BY <1>0, <2>3, <2>4, <3>1, <3>2, <3>3, <3>4, TeamMoves DEF Rebuilt
  <2> QED
    BY <2>1, <2>5, <2>6
<1>13. CASE VecLock(o)
  <2>1. op[o].pc = "vecLock" /\ vec' = vec /\ text' = text
        /\ Goto(o, "vecAdd", op[o].todo) /\ op[o].todo = Content[v]
    BY <1>1, <1>2, <1>13 DEF VecLock, stores, Team
  <2>2. Moved(o, "vecAdd", Content[v]) /\ o \in Busy(d)'
    BY <1>0, <1>5, <2>1, GotoMoves DEF PCs, HoldsMu, Moved
  <2>3. Rebuilt(d, v)
    BY <1>4, <2>1 DEF Rebuilding
  <2>4. NoStaleText(d, v)'
    BY <1>3, <2>1, <2>3 DEF Rebuilt, NoStaleText
  <2>5. NoStaleChunk(d, v)'
    BY <1>3, <2>1, <2>3 DEF Rebuilt, NoStaleChunk, Stored
  <2>6. NoLostChunk(d, v)'
    BY <2>2 DEF NoLostChunk, Moved
  <2>7. "vecAdd" \in PCs \ {"idle"} /\ "vecAdd" \in Rebuilding
    BY DEF PCs, HoldsMu, Rebuilding
  <2> QED
    BY <1>0, <2>2, <2>4, <2>5, <2>6, <2>7, TeamMoves DEF Rebuilt
<1>14. CASE VecAdd(o)
  <2>1. PICK c \in op[o].todo :
           /\ vec' = [vec EXCEPT ![d][c] = v]
           /\ \/ op[o].todo = {c} /\ Goto(o, "textAdd", {})
              \/ op[o].todo # {c} /\ Goto(o, "vecAdd", op[o].todo \ {c})
    BY <1>14 DEF VecAdd
  <2>2. op[o].pc = "vecAdd" /\ text' = text /\ c \in Chunks
    BY <1>0, <1>14 DEF VecAdd
  <2>3. /\ vec'[d][c] = v
        /\ \A e \in Chunks \ {c} : vec'[d][e] = vec[d][e]
    BY <1>0, <2>1, <2>2
  <2>4. Rebuilt(d, v)
    BY <1>4, <2>2 DEF Rebuilding
  <2>5. op[o].todo \subseteq Content[v]
    BY <1>1, <1>2, <2>2 DEF Team
  <2>6. \/ Moved(o, "textAdd", {}) /\ op[o].todo = {c}
        \/ Moved(o, "vecAdd", op[o].todo \ {c})
    BY <1>0, <2>1, GotoMoves DEF PCs, HoldsMu
  <2>7. o \in Busy(d)'
    BY <1>5, <2>6 DEF Moved
  <2>8. NoStaleText(d, v)'
    BY <1>3, <2>2, <2>4 DEF Rebuilt, NoStaleText
  <2>9. NoStaleChunk(d, v)'
    <3> SUFFICES ASSUME NEW e \in Stored(d)'
                 PROVE  \/ vec'[d][e] = v /\ e \in Content[v]
                        \/ \E p \in Busy(d)' : op'[p].pc = "vecDelete" /\ e \in op'[p].todo
      BY DEF NoStaleChunk
    <3>1. CASE e = c
      BY <2>1, <2>3, <2>5, <3>1
    <3>2. CASE e # c
      <4>1. vec'[d][e] = vec[d][e] /\ e \in Stored(d)
        BY <2>3, <3>2 DEF Stored
      <4> QED
        BY <1>3, <2>2, <2>4, <4>1 DEF Rebuilt, NoStaleChunk
    <3> QED
      BY <3>1, <3>2
  <2>10. NoLostChunk(d, v)'
    <3> SUFFICES ASSUME NEW e \in Content[v], vec'[d][e] # v
                 PROVE  \E p \in Busy(d)' :
                           \/ op'[p].pc \in Clearing \cup {"embed", "vecLock"}
                           \/ op'[p].pc = "vecAdd" /\ e \in op'[p].todo
      BY DEF NoLostChunk
    <3>1. e # c /\ vec[d][e] # v
      BY <1>0, <2>3
    <3>2. PICK p \in Busy(d) :
             \/ op[p].pc \in Clearing \cup {"embed", "vecLock"}
             \/ op[p].pc = "vecAdd" /\ e \in op[p].todo
      BY <2>4, <3>1 DEF Rebuilt, NoLostChunk
    <3>3. CASE p = o
      <4>1. e \in op[o].todo
        BY <2>2, <3>2, <3>3 DEF Clearing
      <4>2. Moved(o, "vecAdd", op[o].todo \ {c})
        BY <2>6, <3>1, <4>1
      <4> QED
        BY <2>7, <3>1, <4>1, <4>2 DEF Moved
    <3>4. CASE p # o
      BY <1>3, <3>2, <3>4
    <3> QED
      BY <3>3, <3>4
  <2>11. {"vecAdd", "textAdd"} \subseteq (PCs \ {"idle"}) \cap Rebuilding
    BY DEF PCs, HoldsMu, Rebuilding
  <2>12. Rebuilt(d, v)'
    BY <2>8, <2>9, <2>10 DEF Rebuilt
  <2>13. CASE Moved(o, "textAdd", {})
    BY <2>11, <2>12, <2>13, TeamMoves
  <2>14. CASE Moved(o, "vecAdd", op[o].todo \ {c})
    <3>1. op[o].todo \ {c} \in SUBSET Chunks /\ op[o].todo \ {c} \subseteq Content[v]
      BY <1>0, <2>5
    <3> QED
      BY <2>11, <2>12, <2>14, <3>1, TeamMoves
  <2> QED
    BY <2>6, <2>13, <2>14
<1>15. CASE TextAdd(o)
  <2>1. /\ op[o].pc = "textAdd" /\ vec' = vec /\ Return(o, "ok")
        /\ text'[d] = text[d] \cup Content[v]
    BY <1>0, <1>15 DEF TextAdd
  <2>2. Rebuilt(d, v)
    BY <1>4, <2>1 DEF Rebuilding
  <2>3. NoStaleText(d, v)'
    BY <1>3, <2>1, <2>2 DEF Rebuilt, NoStaleText
  <2>4. NoStaleChunk(d, v)'
    BY <1>3, <2>1, <2>2 DEF Rebuilt, NoStaleChunk, Stored
  <2>5. NoLostChunk(d, v)'
    BY <1>3, <2>1, <2>2 DEF Rebuilt, NoLostChunk, Clearing
  <2>6. op'[o].pc = "idle"
    BY <1>0, <2>1, ReturnFields DEF Outcomes
  <2>7. Rebuilders(d)' = {} => Agree(d)'
    BY <1>0, <2>1, <2>3, <2>4, <2>5, LastLeavesWhole DEF Rebuilt, TypeOK
  <2> QED
    BY <2>3, <2>4, <2>5, <2>6, <2>7, TeamGoal DEF Rebuilt, Idle
<1>16. CASE ChunkDelete(o) \/ UpdFind(o) \/ UpdDelete(o)
  BY <1>0, <1>16 DEF ChunkDelete, UpdFind, UpdDelete, WellPlaced, KindsAt
<1> QED
  BY <1>7, <1>8, <1>9, <1>10, <1>11, <1>12, <1>13, <1>14, <1>15, <1>16 DEF OpStep

-----------------------------------------------------------------------------
(* Errors, crashes and beginnings, and the theorem.                        *)

LEMMA FailStaysCalm ==
    ASSUME StoreAssumption, IInv, Fits, NEW o \in Ops, OpFails(o), Framed(o),
           NEW d \in Docs \ disturbed', d = op[o].doc, Calm(d)
    PROVE  Calm(d)'
<1>1. ~Idle(o) /\ ~Halfway(o) /\ vec' = vec /\ text' = text /\ Return(o, "error")
  BY DEF OpFails, stores
<1>2. Busy(d) = {o} /\ Agree(d)
  BY <1>1, SafeToStop
<1>3. Idle(o)'
  BY <1>1, ReturnFields DEF IInv, TypeOK, Idle, Outcomes
<1>4. Busy(d)' = {}
  BY <1>2, <1>3, StillBusy
<1> QED
  BY <1>1, <1>2, <1>4, AgreeKept DEF Calm

LEMMA CrashStaysQuiet ==
    ASSUME StoreAssumption, IInv, Quiet, Crash
    PROVE  Quiet'
<1> SUFFICES ASSUME Fits, NEW d \in Docs \ disturbed' PROVE Calm(d)'
  BY DEF Quiet, Fits
<1>1. Calm(d) /\ vec' = vec /\ text' = text /\ \A o \in Busy(d) : ~Halfway(o)
  BY DEF Quiet, Crash, stores
<1>2. \A o \in Ops : op'[o].pc = "idle"
  BY IdleFields DEF Crash, Outcomes
<1>3. Busy(d)' = {}
  BY <1>2 DEF Busy, Idle
<1>4. Agree(d)
  <2>1. ASSUME NEW o \in Busy(d) PROVE Agree(d)
    BY <1>1, SafeToStop DEF Busy
  <2>2. CASE Busy(d) = {}
    BY <1>1, <2>2 DEF Calm
  <2> QED
    BY <2>1, <2>2
<1> QED
  BY <1>1, <1>3, <1>4, AgreeKept DEF Calm

LEMMA BeginStaysQuiet ==
    ASSUME StoreAssumption, IInv, Quiet, NEW o \in Ops, NEW r \in OpState,
           Begin(o, r), r.doc \in Docs,
           r.pc \in {"check", "vecFind", "chunkDelete", "updFind"},
           r.pc = "chunkDelete" => \E c \in Chunks : r.todo = {c}
    PROVE  Quiet'
<1> SUFFICES ASSUME Fits, NEW d \in Docs, d \notin disturbed' PROVE Calm(d)'
  BY DEF Quiet, Fits
<1>1. /\ op \in [Ops -> OpState] /\ Idle(o) /\ vec' = vec /\ text' = text
      /\ d \notin disturbed /\ Calm(d)
  BY DEF Begin, IInv, TypeOK, stores, Quiet
<1>2. op'[o] = [r EXCEPT !.alone = Busy(r.doc) = {}]
  BY DEF Begin
<1>3. /\ op'[o].pc = r.pc /\ op'[o].kind = r.kind /\ op'[o].doc = r.doc
      /\ op'[o].ver = r.ver /\ op'[o].todo = r.todo
      /\ op'[o].alone <=> Busy(r.doc) = {}
  BY <1>2 DEF OpState
<1>4. \A q \in Ops \ {o} : op'[q] = IF q \in Busy(r.doc) THEN [op[q] EXCEPT !.alone = FALSE]
                                    ELSE op[q]
  BY DEF Begin
<1>5. ASSUME NEW q \in Ops \ {o}
      PROVE  /\ op'[q].pc = op[q].pc /\ op'[q].kind = op[q].kind
             /\ op'[q].doc = op[q].doc /\ op'[q].ver = op[q].ver
             /\ op'[q].todo = op[q].todo
             /\ q \in Busy(r.doc) => ~op'[q].alone
             /\ q \notin Busy(r.doc) => op'[q] = op[q]
  <2>1. op[q] \in OpState
    BY <1>1
  <2>2. CASE q \in Busy(r.doc)
    <3>1. op'[q] = [op[q] EXCEPT !.alone = FALSE]
      BY <1>4, <2>2, Zenon
    <3> QED
      BY <2>1, <2>2, <3>1, Disturbed
  <2>3. CASE q \notin Busy(r.doc)
    BY <1>4, <2>3
  <2> QED
    BY <2>2, <2>3
<1>6. \A q \in Ops \ {o} : q \in Busy(d)' <=> q \in Busy(d)
  BY <1>5 DEF Busy, Idle
<1>7. o \notin Busy(d)
  BY <1>1 DEF Busy
<1>8. Busy(d) \subseteq Ops /\ Busy(d)' \subseteq Ops
  BY DEF Busy
<1>9. CASE d # r.doc
  <2>1. o \notin Busy(d)'
    BY <1>3, <1>9 DEF Busy
  <2>2. Busy(d)' = Busy(d)
    BY <1>6, <1>7, <1>8, <2>1
  <2>3. ASSUME NEW q \in Busy(d) PROVE op'[q] = op[q]
    <3>1. q \in Ops \ {o} /\ q \notin Busy(r.doc)
      BY <1>7, <1>9 DEF Busy
    <3> QED
      BY <1>5, <3>1
  <2> QED
    BY <1>1, <2>2, <2>3, SameIsCalm
<1>10. CASE d = r.doc
  <2>1. o \in Busy(d)' /\ Busy(d)' = Busy(d) \cup {o}
    <3>1. o \in Busy(d)'
      BY <1>3, <1>10 DEF Busy, Idle
    <3> QED
      BY <1>6, <1>7, <1>8, <3>1
  <2>2. Agree(d) => Agree(d)'
    BY <1>1, AgreeKept
  <2>3. op'[o].pc \notin Rebuilding
    BY <1>3 DEF Rebuilding, Clearing
  <2>4. CASE Busy(d) = {}
    <3>1. Busy(d)' = {o} /\ Agree(d)' /\ op'[o].alone
      BY <1>1, <1>3, <1>10, <2>1, <2>2, <2>4 DEF Calm
    <3>2. Rebuilders(d)' = {}
      BY <2>3, <3>1 DEF Rebuilders
    <3>3. Team(d, op[o].ver)'
      BY <2>3, <3>1, <3>2 DEF Team, Rebuilding
    <3>4. Solo(d, o)'
      BY <1>3, <2>3, <3>1 DEF Solo, Rebuilding, Clearing
    <3> QED
      BY <3>1, <3>3, <3>4 DEF Calm
  <2>5. CASE Busy(d) # {}
    <3>1. \A p \in Busy(d) : ~Conflicts(p, r.kind, r.ver)
      BY <1>10 DEF Begin
    <3>2. PICK v : v = r.ver
      OBVIOUS
    <3>3. \A p \in Busy(d) : op[p].kind = "ingest" /\ op[p].ver = v
      BY <3>1, <3>2 DEF Conflicts
    <3>4. Team(d, v)
      BY <1>1, <2>5, <3>3 DEF Calm
    <3>5. \A p \in Busy(d)' : op'[p].kind = "ingest" /\ op'[p].ver = v
      BY <1>3, <1>5, <1>7, <1>8, <2>1, <2>5, <3>1, <3>2, <3>3 DEF Conflicts
    <3>6. \A p \in Busy(d) :
             /\ p \in Ops \ {o} /\ p \in Busy(d)' /\ ~op'[p].alone
             /\ op'[p].pc = op[p].pc /\ op'[p].todo = op[p].todo
      BY <1>5, <1>7, <1>8, <1>10, <2>1
    <3>7. Rebuilders(d)' = Rebuilders(d)
      BY <2>1, <2>3, <3>6 DEF Rebuilders
    <3>8. ASSUME Rebuilt(d, v) PROVE Rebuilt(d, v)'
      <4>1. NoStaleText(d, v)'
        BY <1>1, <3>6, <3>8 DEF Rebuilt, NoStaleText
      <4>2. NoStaleChunk(d, v)'
        BY <1>1, <3>6, <3>8 DEF Rebuilt, NoStaleChunk, Stored
      <4>3. NoLostChunk(d, v)'
        BY <1>1, <3>6, <3>8 DEF Rebuilt, NoLostChunk
      <4> QED
        BY <4>1, <4>2, <4>3 DEF Rebuilt
    <3>9. Team(d, v)'
      BY <2>1, <2>2, <2>3, <3>4, <3>6, <3>7, <3>8 DEF Team, Rebuilding
    <3>10. (\A q, p \in Busy(d) : q # p => ~Conflicts(p, op[q].kind, op[q].ver))'
      BY <3>5 DEF Conflicts
    <3>11. (\A q \in Busy(d) :
              IF op[q].kind = "ingest" THEN Team(d, op[q].ver) ELSE Solo(d, q))'
      BY <3>5, <3>9 DEF Team, Rebuilt, NoStaleText, NoStaleChunk, NoLostChunk
    <3> QED
      BY <2>1, <3>10, <3>11 DEF Calm
  <2> QED
    BY <2>4, <2>5
<1> QED
  BY <1>9, <1>10

LEMMA NextStaysQuiet ==
    ASSUME StoreAssumption, IInv, Quiet, [Next]_vars
    PROVE  Quiet'
<1>1. CASE \E o \in Ops, d \in Docs :
         \/ \E v \in Versions : BeginIngest(o, d, v)
         \/ BeginUnpublish(o, d)
         \/ BeginDelete(o, d)
         \/ \E c \in Chunks : BeginDeleteChunk(o, d, c)
         \/ BeginUpdate(o, d)
  <2> PICK o \in Ops, d \in Docs :
         \/ \E v \in Versions : BeginIngest(o, d, v)
         \/ BeginUnpublish(o, d)
         \/ BeginDelete(o, d)
         \/ \E c \in Chunks : BeginDeleteChunk(o, d, c)
         \/ BeginUpdate(o, d)
    BY <1>1
  <2>0. /\ {"ingest", "unpublish", "delete", "deleteChunk", "update"} \subseteq Kinds
        /\ {"check", "vecFind", "chunkDelete", "updFind"} \subseteq PCs
    BY DEF Kinds, PCs
  <2>1. ASSUME NEW v \in Versions, BeginIngest(o, d, v) PROVE Quiet'
    <3> DEFINE q == Request("ingest", "check", d)
               r == [q EXCEPT !.ver = v]
    <3>1. q \in OpState /\ q.pc = "check" /\ q.doc = d
      BY <2>0, RequestFields
    <3>2. r \in OpState /\ r.pc = "check" /\ r.doc = d
      BY <3>1 DEF OpState
    <3>3. Begin(o, r)
      BY <2>1 DEF BeginIngest
    <3> HIDE DEF q, r
    <3> QED
      BY <3>2, <3>3, BeginStaysQuiet
  <2>2. ASSUME BeginUnpublish(o, d) PROVE Quiet'
    <3> DEFINE r == Request("unpublish", "check", d)
    <3>1. r \in OpState /\ r.pc = "check" /\ r.doc = d
      BY <2>0, RequestFields
    <3>2. Begin(o, r)
      BY <2>2 DEF BeginUnpublish
    <3> HIDE DEF r
    <3> QED
      BY <3>1, <3>2, BeginStaysQuiet
  <2>3. ASSUME BeginDelete(o, d) PROVE Quiet'
    <3> DEFINE r == Request("delete", "vecFind", d)
    <3>1. r \in OpState /\ r.pc = "vecFind" /\ r.doc = d
      BY <2>0, RequestFields
    <3>2. Begin(o, r)
      BY <2>3 DEF BeginDelete
    <3> HIDE DEF r
    <3> QED
      BY <3>1, <3>2, BeginStaysQuiet
  <2>4. ASSUME NEW c \in Chunks, BeginDeleteChunk(o, d, c) PROVE Quiet'
    <3> DEFINE q == Request("deleteChunk", "chunkDelete", d)
               r == [q EXCEPT !.todo = {c}]
    <3>1. q \in OpState /\ q.pc = "chunkDelete" /\ q.doc = d
      BY <2>0, RequestFields
    <3>2. r \in OpState /\ r.pc = "chunkDelete" /\ r.doc = d /\ r.todo = {c}
      BY <3>1 DEF OpState
    <3>3. Begin(o, r)
      BY <2>4 DEF BeginDeleteChunk
    <3> HIDE DEF q, r
    <3> QED
      BY <3>2, <3>3, BeginStaysQuiet
  <2>5. ASSUME BeginUpdate(o, d) PROVE Quiet'
    <3> DEFINE r == Request("update", "updFind", d)
    <3>1. r \in OpState /\ r.pc = "updFind" /\ r.doc = d
      BY <2>0, RequestFields
    <3>2. Begin(o, r)
      BY <2>5 DEF BeginUpdate
    <3> HIDE DEF r
    <3> QED
      BY <3>1, <3>2, BeginStaysQuiet
  <2> QED
    BY <2>1, <2>2, <2>3, <2>4, <2>5
<1>2. ASSUME NEW o \in Ops, OpStep(o) \/ OpFails(o) PROVE Quiet'
  <2> SUFFICES ASSUME Fits, NEW d \in Docs, d \notin disturbed' PROVE Calm(d)'
    BY DEF Quiet, Fits
  <2>1. Framed(o) /\ TypeOK'
    BY <1>2, StepSound DEF Sound
  <2>2. d \notin disturbed
    BY <1>2 DEF OpStep, OpFails, Check, VecFind, VecDelete, TextFind, TextDelete,
                Embed, VecLock, VecAdd, TextAdd, ChunkDelete, UpdFind, UpdDelete
  <2>3. Calm(d)
    BY <2>2 DEF Quiet
  <2>4. CASE d # op[o].doc
    BY <2>1, <2>3, <2>4, OthersStayCalm
  <2>5. CASE d = op[o].doc /\ OpStep(o)
    BY <2>1, <2>3, <2>5, TeamStep, SoloStep
  <2>6. CASE d = op[o].doc /\ OpFails(o)
    BY <2>1, <2>3, <2>6, FailStaysCalm
  <2> QED
    BY <1>2, <2>4, <2>5, <2>6
<1>3. CASE Crash
  BY <1>3, CrashStaysQuiet
<1>4. CASE UNCHANGED vars
  <2> SUFFICES ASSUME Fits, NEW d \in Docs, d \notin disturbed' PROVE Calm(d)'
    BY DEF Quiet, Fits
  <2>1. /\ op' = op /\ vec' = vec /\ text' = text /\ Calm(d)
    BY <1>4 DEF vars, stores, Quiet
  <2> QED
    BY <2>1, SameIsCalm DEF Busy, Idle
<1> QED
  BY <1>1, <1>2, <1>3, <1>4 DEF Next

LEMMA InitQuiet ==
    ASSUME StoreAssumption, Init
    PROVE  Quiet
<1>1. \A o \in Ops : op[o].pc = "idle"
  BY IdleFields DEF Init, Outcomes
<1>2. \A d \in Docs : Busy(d) = {}
  BY <1>1 DEF Busy, Idle
<1>3. \A d \in Docs : Stored(d) = {} /\ text[d] = {}
  BY DEF Init, Stored
<1> QED
  BY <1>2, <1>3 DEF Quiet, Calm, Agree

\* Between requests the two stores agree on every document that met no error
\* half way, no crash half way and no conflicting request, and hold chunks of
\* one version of it: for any documents, versions and requests, however many
\* ingests of one version overlapped.
THEOREM QuietDocs == Spec => []QuietDocsAgree
<1>1. Init => Quiet
  BY InitQuiet, StoreAssumption
<1>2. IInv /\ Quiet /\ [Next]_vars => Quiet'
  BY NextStaysQuiet, StoreAssumption
<1>3. Quiet => QuietDocsAgree
  <2> SUFFICES ASSUME Quiet, Fits, NEW d \in Docs \ disturbed, Busy(d) = {}
               PROVE  /\ text[d] = Stored(d)
                      /\ \A c \in Stored(d) : c \in Content[vec[d][c]]
                      /\ Cardinality(Fingerprints(d)) <= 1
    BY DEF QuietDocsAgree
  <2>1. Agree(d)
    BY DEF Quiet, Calm
  <2>2. Cardinality(Fingerprints(d)) <= 1
    <3>1. CASE Stored(d) = {}
      <4>1. Fingerprints(d) = {}
        BY <3>1 DEF Fingerprints
      <4> QED
        BY <4>1, FS_EmptySet
    <3>2. CASE Stored(d) # {}
      <4>1. PICK c \in Stored(d) : TRUE
        BY <3>2
      <4>2. Fingerprints(d) = {vec[d][c]}
        BY <2>1, <4>1 DEF Fingerprints, Agree
      <4>3. Cardinality({vec[d][c]}) = 1
        BY FS_Singleton
      <4> QED
        BY <4>2, <4>3
    <3> QED
      BY <3>1, <3>2
  <2> QED
    BY <2>1, <2>2 DEF Agree
<1> QED
  BY <1>1, <1>2, <1>3, StoreInvariance, PTL DEF Spec

=============================================================================
