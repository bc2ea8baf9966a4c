--------------------------- MODULE JobQueueProofs ---------------------------
(***************************************************************************)
(* Proofs about JobQueue, for any jobs, workers, crashes and faults.       *)
(*                                                                         *)
(* The argument is one of ownership: at any time at most one party has a   *)
(* job in hand -- its Submit call, an entry of the recovery scan, the      *)
(* channel, or one worker -- and what that party relies on about the job's *)
(* files cannot be disturbed by anyone else.  The queue implements         *)
(* JobLedger for the same reason.                                          *)
(***************************************************************************)
EXTENDS JobQueue, FiniteSetTheorems, TLAPS

InTodo(j) == <<j, "canon">> \in rec.todo \/ <<j, "claim">> \in rec.todo
Distinct(q) == \A i, k \in 1..Len(q) : q[i] = q[k] => i = k

\* What the pcs say of the records, and of what may exist outside a process.
Shape ==
    /\ \A w \in Workers :
         /\ worker[w].job = NoJob <=> worker[w].pc \in {"off", "idle"}
         /\ worker[w].pc \in AfterIngest => worker[w].out \in Finished
    /\ rec.job # NoJob <=> rec.pc \in {"move", "write", "flush", "send"}
    /\ rec.pc \in {"off", "list", "done"} => rec.todo = {}
    /\ up <=> rec.pc # "off"
    /\ \A j \in Jobs : sub[j] \in InSubmit => rec.pc = "done"
    /\ rec.pc \in {"off", "list"} =>
         /\ queue = <<>>
         /\ \A w \in Workers : worker[w].job = NoJob
         /\ \A j \in Jobs : runs[j] = 0

AtSubmit(j) == sub[j] \in InSubmit \cup {"new", "tooLarge"}

\* Job j is in at most one hand: a worker's, the channel's, an entry yet to
\* be scanned, the entry being scanned, or its Submit call's.
OneHand(j) ==
    /\ \A v, w \in Workers : worker[v].job = j /\ worker[w].job = j => v = w
    /\ InQueue(j) => \A w \in Workers : worker[w].job # j
    /\ InTodo(j) => ~InQueue(j) /\ \A w \in Workers : worker[w].job # j
    /\ rec.job = j =>
          /\ ~InQueue(j)
          /\ ~InTodo(j)
          /\ \A w \in Workers : worker[w].job # j
    /\ ~(<<j, "canon">> \in rec.todo /\ <<j, "claim">> \in rec.todo)
    /\ AtSubmit(j) =>
          /\ ~InQueue(j)
          /\ ~InTodo(j)
          /\ rec.job # j
          /\ \A w \in Workers : worker[w].job # j

Exclusive == Distinct(queue) /\ \A j \in Jobs : OneHand(j)

\* What the hand that has job j relies on about j's two files.
FilesOf(j) ==
    /\ canon[j] = "none" \/ claim[j] = "none"
    /\ sub[j] \in {"new", "tooLarge"} => canon[j] = "none" /\ claim[j] = "none"
    /\ sub[j] = "writing" => canon[j] = "torn"
    /\ sub[j] = "sending" \/ InQueue(j) => canon[j] = "pending"
    /\ <<j, "canon">> \in rec.todo => claim[j] = "none"
    /\ <<j, "claim">> \in rec.todo => canon[j] = "none"
    /\ rec.job = j =>
          /\ rec.pc = "move" => claim[j] \in Unfinished
          /\ rec.pc = "write" => canon[j] \in Unfinished
          /\ rec.pc = "flush" => canon[j] = "torn"
          /\ rec.pc = "send" => canon[j] = "pending"
    /\ \A w \in Workers : worker[w].job = j =>
          /\ worker[w].pc \in Unclaimed => canon[j] = "pending"
          /\ worker[w].pc \in Claimed => claim[j] # "none"
    /\ victim = j => rec.pc = "done" /\ canon[j] \in Finished

Files == \A j \in Jobs : FilesOf(j)

\* Whoever has yet to ingest j knows that nobody has in this process.
YetToRun(j) ==
    \/ AtSubmit(j)
    \/ InTodo(j)
    \/ rec.job = j
    \/ InQueue(j)
    \/ \E w \in Workers : worker[w].job = j /\ worker[w].pc \in BeforeIngest

RunsOf(j) == runs[j] \in {0, 1} /\ (YetToRun(j) => runs[j] = 0)

Runs == \A j \in Jobs : RunsOf(j)

\* What a worker has made of the claim it holds: until it publishes it, the
\* claim says nothing final, and unless a write failed it is then final.
ClaimOf(j) ==
    \A w \in Workers : worker[w].job = j =>
        /\ worker[w].pc \in RunningPCs => claim[j] \in Unfinished \cup {"torn"}
        /\ worker[w].pc = "publish" /\ faults = 0 => claim[j] \in Finished

Claims == \A j \in Jobs : ClaimOf(j)

\* Since the scan of this process listed the directory, unfinished work is in
\* some hand, or it is a claim that was taken to be another's.
Calm == rec.pc \notin {"off", "list"} /\ ~stopped /\ faults = 0
InHand(j) == Owned(j) \/ InTodo(j) \/ rec.job = j
Spared(j) == j \in skipped /\ canon[j] = "none"
TendedOf(j) == Calm /\ OnDiskUnfinished(j) => InHand(j) \/ Spared(j)

Tended == \A j \in Jobs : TendedOf(j)

\* The inductive invariant.
IInv == TypeOK /\ Shape /\ Exclusive /\ Files /\ Runs /\ Claims /\ Tended

-----------------------------------------------------------------------------
(* Types.                                                                  *)

LEMMA CapFact == Cap \in Nat \ {0}
<1>1. Cap \in Nat
  BY FS_CardinalityType, JobQueueAssumption DEF Cap
<1>2. Cap # 0
  BY FS_EmptySet, JobQueueAssumption DEF Cap
<1>3. QED
  BY <1>1, <1>2

LEMMA FileStateFacts == {"none", "torn", "pending", "processing"} \cup Finished
                            \subseteq FileStates
BY DEF FileStates, Statuses, Unfinished

\* What the worker's updates do to its record.
LEMMA WorkerUpdates ==
    ASSUME worker \in [Workers -> WorkerState], NEW w \in Workers
    PROVE  /\ IdleWorker \in WorkerState
           /\ OffWorker \in WorkerState
           /\ \A pc \in WorkerPCs : Goto(w, pc) => worker' \in [Workers -> WorkerState]
           /\ Release(w) => worker' \in [Workers -> WorkerState]
<1>1. IdleWorker \in WorkerState /\ OffWorker \in WorkerState
  BY DEF IdleWorker, OffWorker, WorkerState, WorkerPCs
<1>2. ASSUME NEW pc \in WorkerPCs, Goto(w, pc)
      PROVE  worker' \in [Workers -> WorkerState]
  <2>1. [worker[w] EXCEPT !.pc = pc] \in WorkerState
    BY DEF WorkerState
  <2>2. worker' = [worker EXCEPT ![w] = [worker[w] EXCEPT !.pc = pc]]
    BY <1>2 DEF Goto
  <2>3. QED
    BY <2>1, <2>2
<1>3. ASSUME Release(w) PROVE worker' \in [Workers -> WorkerState]
  BY <1>1, <1>3 DEF Release
<1>4. QED
  BY <1>1, <1>2, <1>3

\* What the scan's updates do to its record.
LEMMA RecUpdates ==
    ASSUME rec \in RecState
    PROVE  /\ OffRec \in RecState
           /\ NextEntry \in RecState
           /\ \A e \in rec.todo : Dropped(e) \in RecState /\ e[1] \in Jobs
           /\ \A pc \in RecPCs : [rec EXCEPT !.pc = pc] \in RecState
           /\ \A pc \in RecPCs, todo \in SUBSET Entries, j \in Jobs \cup {NoJob} :
                [pc |-> pc, todo |-> todo, job |-> j] \in RecState
           /\ \A e \in rec.todo, pc \in RecPCs :
                [pc |-> pc, todo |-> rec.todo \ {e}, job |-> e[1]] \in RecState
           /\ {"off", "list", "scan", "move", "write", "flush", "send", "done"}
                \subseteq RecPCs
           /\ {} \in SUBSET Entries
           /\ Listing \in SUBSET Entries
BY DEF OffRec, NextEntry, Dropped, RecState, RecPCs, Entries, Listing

LEMMA FaultType ==
    ASSUME faults \in 0..MaxFaults, Fault
    PROVE  faults' \in 0..MaxFaults
BY JobQueueAssumption DEF Fault

\* What a file holds can be what another one holds, after a rename.
LEMMA RenameTypes ==
    ASSUME canon \in [Jobs -> FileStates], claim \in [Jobs -> FileStates],
           NEW j \in Jobs
    PROVE  /\ canon[j] \in FileStates
           /\ claim[j] \in FileStates
           /\ "none" \in FileStates
BY FileStateFacts

LEMMA AppendType ==
    ASSUME queue \in Seq(Jobs), HasRoom, NEW j \in Jobs
    PROVE  /\ Append(queue, j) \in Seq(Jobs)
           /\ Len(Append(queue, j)) <= Cap
BY CapFact DEF HasRoom

\* A worker that has left "idle" holds a job.
LEMMA HoldsJob ==
    ASSUME TypeOK, Shape
    PROVE  /\ \A w \in Workers : worker[w].pc \notin {"off", "idle"} =>
                                     worker[w].job \in Jobs
           /\ rec.pc \in {"move", "write", "flush", "send"} => rec.job \in Jobs
<1>1. \A w \in Workers : worker[w].job \in Jobs \cup {NoJob}
  BY DEF TypeOK, WorkerState
<1>2. rec.job \in Jobs \cup {NoJob}
  BY DEF TypeOK, RecState
<1>3. QED
  BY <1>1, <1>2 DEF Shape

LEMMA TypeStep ==
    ASSUME TypeOK, Shape, [Next]_vars
    PROVE  TypeOK'
<1> USE DEF TypeOK, history, disk
<1>0. /\ WorkerPCs = {"off", "idle", "load", "claim", "mark", "marking", "ingest",
                      "final", "finalizing", "publish"}
      /\ RecPCs = {"off", "list", "scan", "move", "write", "flush", "send", "done"}
      /\ SubmitPCs = {"new", "writing", "sending", "accepted", "refused",
                      "tooLarge", "lost"}
  BY DEF WorkerPCs, Unclaimed, Claimed, AfterIngest, RecPCs, SubmitPCs, InSubmit
<1>1. ASSUME NEW j \in Jobs, SubmitTooLarge(j) PROVE TypeOK'
  BY <1>0, <1>1 DEF SubmitTooLarge
<1>2. ASSUME NEW j \in Jobs, SubmitOpen(j) PROVE TypeOK'
  BY <1>0, <1>2, FileStateFacts DEF SubmitOpen
<1>3. ASSUME NEW j \in Jobs, SubmitFlush(j) PROVE TypeOK'
  BY <1>0, <1>3, FileStateFacts DEF SubmitFlush
<1>4. ASSUME NEW j \in Jobs, SubmitWriteFails(j) PROVE TypeOK'
  BY <1>0, <1>4, JobQueueAssumption DEF SubmitWriteFails, Fault
<1>5. ASSUME NEW j \in Jobs, SubmitSend(j) PROVE TypeOK'
  BY <1>0, <1>5, AppendType DEF SubmitSend
<1>6. ASSUME NEW j \in Jobs, SweepFind(j) PROVE TypeOK'
  BY <1>6 DEF SweepFind
<1>7. ASSUME NEW e \in rec.todo, RecYoung(e) PROVE TypeOK'
  BY <1>7, RecUpdates DEF RecYoung
<1>8. ASSUME NEW e \in rec.todo, RecUnreadable(e) PROVE TypeOK'
  BY <1>8, RecUpdates DEF RecUnreadable
<1>9. ASSUME NEW e \in rec.todo, RecFinished(e) PROVE TypeOK'
  <2>1. e[1] \in Jobs /\ Dropped(e) \in RecState
    BY RecUpdates
  <2>2. canon' \in [Jobs -> FileStates] /\ claim' \in [Jobs -> FileStates]
    BY ZenonT(60), <1>9, <2>1, RenameTypes DEF RecFinished
  <2>3. faults' \in 0..MaxFaults
    BY <1>9, FaultType DEF RecFinished
  <2>4. QED
    BY <1>9, <2>1, <2>2, <2>3 DEF RecFinished
<1>10. ASSUME NEW e \in rec.todo, RecTake(e) PROVE TypeOK'
  BY <1>10, RecUpdates DEF RecTake
<1>11. ASSUME NEW w \in Workers, WorkerExit(w) PROVE TypeOK'
  BY <1>11, WorkerUpdates DEF WorkerExit
<1>12. ASSUME NEW w \in Workers, WorkerTake(w) PROVE TypeOK'
  BY <1>12, CapFact DEF WorkerTake, WorkerState, WorkerPCs, Unclaimed
<1>13. ASSUME NEW w \in Workers, WorkerLoad(w) PROVE TypeOK'
  BY <1>0, <1>13, WorkerUpdates DEF WorkerLoad
<1>14. ASSUME NEW w \in Workers, WorkerClaim(w) PROVE TypeOK'
  <2>1. worker[w].job \in Jobs
    BY <1>14, HoldsJob DEF WorkerClaim
  <2>2. worker' \in [Workers -> WorkerState]
    BY <1>0, <1>14, WorkerUpdates DEF WorkerClaim
  <2>3. canon' \in [Jobs -> FileStates] /\ claim' \in [Jobs -> FileStates]
    BY <1>14, <2>1, RenameTypes DEF WorkerClaim
  <2>4. faults' \in 0..MaxFaults
    BY <1>14, FaultType DEF WorkerClaim
  <2>5. QED
    BY <1>14, <2>2, <2>3, <2>4 DEF WorkerClaim
<1>15. ASSUME NEW w \in Workers, WorkerMarkOpen(w) PROVE TypeOK'
  BY <1>0, <1>15, WorkerUpdates, FileStateFacts DEF WorkerMarkOpen
<1>16. ASSUME NEW w \in Workers, WorkerMarkFlush(w) PROVE TypeOK'
  <2>1. worker[w].job \in Jobs
    BY <1>16, HoldsJob DEF WorkerMarkFlush
  <2>2. worker' \in [Workers -> WorkerState]
    BY <1>0, <1>16, WorkerUpdates DEF WorkerMarkFlush, BeginIngest
  <2>3. runs' \in [Jobs -> Nat]
    BY <1>16, <2>1 DEF WorkerMarkFlush, BeginIngest
  <2>4. QED
    BY <1>16, <2>2, <2>3, FileStateFacts DEF WorkerMarkFlush, BeginIngest
<1>17. ASSUME NEW w \in Workers, WorkerMarkFails(w) PROVE TypeOK'
  <2>1. worker[w].job \in Jobs
    BY <1>17, HoldsJob DEF WorkerMarkFails
  <2>2. worker' \in [Workers -> WorkerState]
    BY <1>0, <1>17, WorkerUpdates DEF WorkerMarkFails, BeginIngest
  <2>3. runs' \in [Jobs -> Nat]
    BY <1>17, <2>1 DEF WorkerMarkFails, BeginIngest
  <2>4. QED
    BY <1>17, <2>2, <2>3, FaultType DEF WorkerMarkFails, BeginIngest
<1>18. ASSUME NEW w \in Workers, WorkerIngest(w) PROVE TypeOK'
  <2>1. PICK out \in Finished :
          worker' = [worker EXCEPT ![w].pc = "final", ![w].out = out]
    BY <1>18 DEF WorkerIngest
  <2>2. [worker[w] EXCEPT !.pc = "final", !.out = out] \in WorkerState
    BY ZenonT(60), <1>0, <2>1 DEF WorkerState
  <2>3. worker' \in [Workers -> WorkerState]
    BY <2>1, <2>2
  <2>4. QED
    BY <1>18, <2>3 DEF WorkerIngest
<1>19. ASSUME NEW w \in Workers, WorkerFinalOpen(w) PROVE TypeOK'
  BY <1>0, <1>19, WorkerUpdates, FileStateFacts DEF WorkerFinalOpen
<1>20. ASSUME NEW w \in Workers, WorkerFinalFlush(w) PROVE TypeOK'
  <2>1. worker[w].out \in FileStates
    BY FileStateFacts DEF WorkerState
  <2>2. QED
    BY <1>0, <1>20, <2>1, WorkerUpdates DEF WorkerFinalFlush
<1>21. ASSUME NEW w \in Workers, WorkerFinalFails(w) PROVE TypeOK'
  BY <1>0, <1>21, WorkerUpdates, JobQueueAssumption DEF WorkerFinalFails, Fault
<1>22. ASSUME NEW w \in Workers, WorkerPublish(w) PROVE TypeOK'
  <2>1. worker[w].job \in Jobs
    BY <1>22, HoldsJob DEF WorkerPublish
  <2>2. worker' \in [Workers -> WorkerState]
    BY <1>22, WorkerUpdates DEF WorkerPublish
  <2>3. canon' \in [Jobs -> FileStates] /\ claim' \in [Jobs -> FileStates]
    BY <1>22, <2>1, RenameTypes DEF WorkerPublish
  <2>4. faults' \in 0..MaxFaults
    BY <1>22, FaultType DEF WorkerPublish
  <2>5. QED
    BY <1>22, <2>2, <2>3, <2>4 DEF WorkerPublish
<1>23. CASE Start
  BY <1>23, RecUpdates, WorkerUpdates DEF Start, IdleWorker, WorkerState, WorkerPCs
<1>24. CASE RecList
  <2>1. Listing \subseteq Entries
    BY DEF Listing
  <2>2. rec' \in RecState
    <3>1. [pc |-> "scan", todo |-> Listing, job |-> NoJob] \in RecState
      BY <1>0, <2>1 DEF RecState
    <3>2. [rec EXCEPT !.pc = "done"] \in RecState
      BY <1>0 DEF RecState
    <3>3. QED
      BY <1>24, <3>1, <3>2 DEF RecList
  <2>3. QED
    BY <1>24, <2>2, FaultType DEF RecList
<1>25. CASE RecMove
  <2>1. rec.job \in Jobs
    BY <1>25, HoldsJob DEF RecMove
  <2>2. rec' \in RecState
    BY <1>25, RecUpdates DEF RecMove
  <2>3. canon' \in [Jobs -> FileStates] /\ claim' \in [Jobs -> FileStates]
    BY <1>25, <2>1, RenameTypes DEF RecMove
  <2>4. faults' \in 0..MaxFaults
    BY <1>25, FaultType DEF RecMove
  <2>5. QED
    BY <1>25, <2>2, <2>3, <2>4 DEF RecMove
<1>26. CASE RecOpen
  BY <1>26, RecUpdates, FileStateFacts DEF RecOpen
<1>27. CASE RecFlush
  BY <1>27, RecUpdates, FileStateFacts DEF RecFlush
<1>28. CASE RecWriteFails
  BY <1>28, RecUpdates, JobQueueAssumption DEF RecWriteFails, Fault
<1>29. CASE RecSend
  <2>1. rec.job \in Jobs
    BY <1>29, HoldsJob DEF RecSend
  <2>2. rec' \in RecState
    BY ZenonT(60), <1>29, RecUpdates DEF RecSend
  <2>3. QED
    BY <1>29, <2>1, <2>2, AppendType DEF RecSend
<1>30. CASE RecDone
  BY <1>30, RecUpdates DEF RecDone
<1>31. CASE Stop
  BY <1>31 DEF Stop
<1>32. CASE SweepRemove
  BY <1>32, FileStateFacts, FaultType DEF SweepRemove
<1>33. CASE Crash
  <2>1. worker' \in [Workers -> WorkerState] /\ rec' \in RecState
    BY <1>0, <1>33, RecUpdates DEF Crash, OffWorker, WorkerState
  <2>2. sub' \in [Jobs -> SubmitPCs] /\ runs' \in [Jobs -> Nat]
    BY <1>0, <1>33 DEF Crash
  <2>3. queue' \in Seq(Jobs) /\ Len(queue') <= Cap
    BY <1>33, CapFact DEF Crash
  <2>4. crashes' \in 0..MaxCrashes
    BY <1>33, JobQueueAssumption DEF Crash
  <2>5. QED
    BY <1>33, <2>1, <2>2, <2>3, <2>4 DEF Crash
<1>34. CASE UNCHANGED vars
  BY <1>34 DEF vars
<1>35. QED
  BY <1>1, <1>2, <1>3, <1>4, <1>5, <1>6, <1>7, <1>8, <1>9, <1>10, <1>11, <1>12,
     <1>13, <1>14, <1>15, <1>16, <1>17, <1>18, <1>19, <1>20, <1>21, <1>22,
     <1>23, <1>24, <1>25, <1>26, <1>27, <1>28, <1>29, <1>30, <1>31, <1>32,
     <1>33, <1>34
     DEF Next, RecStep, WorkerStep

-----------------------------------------------------------------------------
(* The effect of the updates, field by field.                              *)

LEMMA GotoFields ==
    ASSUME worker \in [Workers -> WorkerState], NEW w \in Workers,
           NEW pc, Goto(w, pc), NEW v \in Workers
    PROVE  /\ worker'[v].pc = IF v = w THEN pc ELSE worker[v].pc
           /\ worker'[v].job = worker[v].job
           /\ worker'[v].out = worker[v].out
<1>1. DOMAIN worker = Workers
  OBVIOUS
<1>2. worker[w] \in WorkerState /\ worker[v] \in WorkerState
  OBVIOUS
<1>3. worker'[v] = IF v = w THEN [worker[w] EXCEPT !.pc = pc] ELSE worker[v]
  BY <1>1 DEF Goto
<1>4. QED
  BY <1>2, <1>3 DEF WorkerState

LEMMA ReleaseFields ==
    ASSUME worker \in [Workers -> WorkerState], NEW w \in Workers,
           Release(w), NEW v \in Workers
    PROVE  /\ worker'[v].pc = IF v = w THEN "idle" ELSE worker[v].pc
           /\ worker'[v].job = IF v = w THEN NoJob ELSE worker[v].job
           /\ worker'[v].out = IF v = w THEN "none" ELSE worker[v].out
BY DEF Release, IdleWorker

LEMMA RecFields ==
    ASSUME rec \in RecState
    PROVE  /\ \A pc : /\ [rec EXCEPT !.pc = pc].pc = pc
                      /\ [rec EXCEPT !.pc = pc].todo = rec.todo
                      /\ [rec EXCEPT !.pc = pc].job = rec.job
           /\ \A e : /\ Dropped(e).pc = rec.pc
                     /\ Dropped(e).todo = rec.todo \ {e}
                     /\ Dropped(e).job = rec.job
           /\ NextEntry.pc = "scan"
           /\ NextEntry.todo = rec.todo
           /\ NextEntry.job = NoJob
BY DEF RecState, Dropped, NextEntry

\* The channel is first in, first out, and holds no job twice.
LEMMA QueueAppend ==
    ASSUME NEW q \in Seq(Jobs), NEW k \in Jobs
    PROVE  /\ \A j : InSeq(Append(q, k), j) <=> InSeq(q, j) \/ j = k
           /\ Distinct(q) /\ ~InSeq(q, k) => Distinct(Append(q, k))
BY SMTT(30) DEF InSeq, Distinct

LEMMA QueueTail ==
    ASSUME NEW q \in Seq(Jobs), q # <<>>
    PROVE  /\ Head(q) \in Jobs
           /\ InSeq(q, Head(q))
           /\ \A j : InSeq(Tail(q), j) => InSeq(q, j)
           /\ Distinct(q) => Distinct(Tail(q)) /\ ~InSeq(Tail(q), Head(q))
BY DEF InSeq, Distinct

LEMMA QueueEmpty == Distinct(<<>>) /\ \A j : ~InSeq(<<>>, j)
BY DEF InSeq, Distinct

LEMMA ShapeGoto ==
    ASSUME TypeOK, Shape, NEW w \in Workers, NEW pc, Goto(w, pc),
           pc \notin {"off", "idle"}, worker[w].pc \notin {"off", "idle"},
           pc \in AfterIngest => worker[w].out \in Finished,
           UNCHANGED <<queue, up, rec, sub>>
    PROVE  Shape'
<1>1. rec.pc \notin {"off", "list"}
  BY DEF Shape
<1>2. ASSUME NEW v \in Workers
      PROVE  /\ worker'[v].job = NoJob <=> worker'[v].pc \in {"off", "idle"}
             /\ worker'[v].pc \in AfterIngest => worker'[v].out \in Finished
  <2>1. /\ worker'[v].pc = IF v = w THEN pc ELSE worker[v].pc
        /\ worker'[v].job = worker[v].job
        /\ worker'[v].out = worker[v].out
    BY GotoFields DEF TypeOK
  <2>2. QED
    BY <2>1 DEF Shape
<1>3. QED
  BY <1>1, <1>2 DEF Shape

LEMMA ShapeRelease ==
    ASSUME TypeOK, Shape, NEW w \in Workers, Release(w),
           worker[w].pc \notin {"off", "idle"},
           UNCHANGED <<queue, up, rec, sub>>
    PROVE  Shape'
<1>1. rec.pc \notin {"off", "list"}
  BY DEF Shape
<1>2. ASSUME NEW v \in Workers
      PROVE  /\ worker'[v].job = NoJob <=> worker'[v].pc \in {"off", "idle"}
             /\ worker'[v].pc \in AfterIngest => worker'[v].out \in Finished
  BY ReleaseFields DEF Shape, TypeOK, AfterIngest
<1>3. QED
  BY <1>1, <1>2 DEF Shape

LEMMA ShapeStep ==
    ASSUME TypeOK, Shape, [Next]_vars
    PROVE  Shape'
<1> USE DEF Shape, TypeOK, history, disk
<1>0. /\ AfterIngest = {"final", "finalizing", "publish"}
      /\ InSubmit = {"writing", "sending"}
      /\ NoJob \notin Jobs
  BY JobQueueAssumption DEF AfterIngest, InSubmit
<1>1. ASSUME NEW j \in Jobs, SubmitTooLarge(j) PROVE Shape'
  BY <1>1, <1>0 DEF SubmitTooLarge
<1>2. ASSUME NEW j \in Jobs, SubmitOpen(j) PROVE Shape'
  <2>1. rec.pc = "done"
    BY <1>2 DEF SubmitOpen, Serving
  <2>2. QED
    BY <1>2, <1>0, <2>1 DEF SubmitOpen
<1>3. ASSUME NEW j \in Jobs, SubmitFlush(j) PROVE Shape'
  BY <1>3, <1>0 DEF SubmitFlush
<1>4. ASSUME NEW j \in Jobs, SubmitWriteFails(j) PROVE Shape'
  BY <1>4, <1>0 DEF SubmitWriteFails
<1>5. ASSUME NEW j \in Jobs, SubmitSend(j) PROVE Shape'
  BY <1>5, <1>0 DEF SubmitSend
<1>6. ASSUME NEW j \in Jobs, SweepFind(j) PROVE Shape'
  BY <1>6, <1>0 DEF SweepFind
<1>7. ASSUME NEW e \in rec.todo, RecYoung(e) PROVE Shape'
  BY <1>7, <1>0, RecFields DEF RecYoung
<1>8. ASSUME NEW e \in rec.todo, RecUnreadable(e) PROVE Shape'
  BY <1>8, <1>0, RecFields DEF RecUnreadable
<1>9. ASSUME NEW e \in rec.todo, RecFinished(e) PROVE Shape'
  BY <1>9, <1>0, RecFields DEF RecFinished
<1>10. ASSUME NEW e \in rec.todo, RecTake(e) PROVE Shape'
  <2>1. /\ rec'.pc \in {"write", "move"}
        /\ rec'.job \in Jobs
        /\ rec.pc = "scan"
        /\ UNCHANGED <<queue, up, worker, sub, runs>>
    BY <1>10, RecUpdates DEF RecTake
  <2>2. QED
    BY <1>0, <2>1
<1>11. ASSUME NEW w \in Workers, WorkerExit(w) PROVE Shape'
  BY <1>11, <1>0 DEF WorkerExit, OffWorker
<1>12. ASSUME NEW w \in Workers, WorkerTake(w) PROVE Shape'
  BY <1>12, <1>0 DEF WorkerTake
<1>13. ASSUME NEW w \in Workers, WorkerLoad(w) PROVE Shape'
  <2>1. /\ worker[w].pc \notin {"off", "idle"}
        /\ UNCHANGED <<queue, up, rec, sub, runs>>
        /\ Goto(w, "claim") \/ Release(w)
    BY <1>13 DEF WorkerLoad
  <2>2. QED
    BY <1>0, <2>1, ShapeGoto, ShapeRelease
<1>14. ASSUME NEW w \in Workers, WorkerClaim(w) PROVE Shape'
  <2>1. /\ worker[w].pc \notin {"off", "idle"}
        /\ UNCHANGED <<queue, up, rec, sub, runs>>
        /\ Goto(w, "mark") \/ Release(w)
    BY <1>14 DEF WorkerClaim
  <2>2. QED
    BY <1>0, <2>1, ShapeGoto, ShapeRelease
<1>15. ASSUME NEW w \in Workers, WorkerMarkOpen(w) PROVE Shape'
  <2>1. Goto(w, "marking") /\ worker[w].pc \notin {"off", "idle"}
    BY <1>15 DEF WorkerMarkOpen
  <2>2. QED
    BY <1>15, <1>0, <2>1, ShapeGoto DEF WorkerMarkOpen
<1>16. ASSUME NEW w \in Workers, WorkerMarkFlush(w) PROVE Shape'
  <2>1. Goto(w, "ingest") /\ worker[w].pc \notin {"off", "idle"}
    BY <1>16 DEF WorkerMarkFlush, BeginIngest
  <2>2. QED
    BY <1>16, <1>0, <2>1, ShapeGoto DEF WorkerMarkFlush, BeginIngest
<1>17. ASSUME NEW w \in Workers, WorkerMarkFails(w) PROVE Shape'
  <2>1. Goto(w, "ingest") /\ worker[w].pc \notin {"off", "idle"}
    BY <1>17 DEF WorkerMarkFails, BeginIngest
  <2>2. QED
    BY <1>17, <1>0, <2>1, ShapeGoto DEF WorkerMarkFails, BeginIngest
<1>18. ASSUME NEW w \in Workers, WorkerIngest(w) PROVE Shape'
  BY <1>18, <1>0 DEF WorkerIngest
<1>19. ASSUME NEW w \in Workers, WorkerFinalOpen(w) PROVE Shape'
  <2>1. Goto(w, "finalizing") /\ worker[w].pc \notin {"off", "idle"}
    BY <1>19 DEF WorkerFinalOpen
  <2>2. QED
    BY <1>19, <1>0, <2>1, ShapeGoto DEF WorkerFinalOpen
<1>20. ASSUME NEW w \in Workers, WorkerFinalFlush(w) PROVE Shape'
  <2>1. Goto(w, "publish") /\ worker[w].pc \notin {"off", "idle"}
    BY <1>20 DEF WorkerFinalFlush
  <2>2. QED
    BY <1>20, <1>0, <2>1, ShapeGoto DEF WorkerFinalFlush
<1>21. ASSUME NEW w \in Workers, WorkerFinalFails(w) PROVE Shape'
  <2>1. Goto(w, "publish") /\ worker[w].pc \notin {"off", "idle"}
    BY <1>21 DEF WorkerFinalFails
  <2>2. QED
    BY <1>21, <1>0, <2>1, ShapeGoto DEF WorkerFinalFails
<1>22. ASSUME NEW w \in Workers, WorkerPublish(w) PROVE Shape'
  BY <1>22, ShapeRelease DEF WorkerPublish
<1>23. CASE Start
  BY <1>23, <1>0 DEF Start, IdleWorker
<1>24. CASE RecList
  <2>1. /\ \/ rec' = [pc |-> "scan", todo |-> Listing, job |-> NoJob]
           \/ rec' = [rec EXCEPT !.pc = "done"]
        /\ rec.pc = "list"
        /\ UNCHANGED <<queue, up, worker, sub, runs>>
    BY <1>24 DEF RecList
  <2>2. rec.job = NoJob /\ rec.todo = {}
    BY <2>1
  <2>3. [rec EXCEPT !.pc = "done"].pc = "done"
    BY DEF RecState
  <2>4. /\ [rec EXCEPT !.pc = "done"].job = NoJob
        /\ [rec EXCEPT !.pc = "done"].todo = {}
    BY <2>2 DEF RecState
  <2>5. CASE rec' = [pc |-> "scan", todo |-> Listing, job |-> NoJob]
    BY <1>0, <2>1, <2>5
  <2>6. CASE rec' = [rec EXCEPT !.pc = "done"]
    <3>1. rec'.pc = "done" /\ rec'.job = NoJob /\ rec'.todo = {}
      BY <2>3, <2>4, <2>6
    <3>2. UNCHANGED <<queue, up, worker, sub, runs>> /\ rec.pc = "list"
      BY <2>1
    <3>3. QED
      BY <1>0, <3>1, <3>2
  <2>7. QED
    BY <2>1, <2>5, <2>6
<1>25. CASE RecMove
  BY ZenonT(60), <1>25, <1>0, RecFields DEF RecMove
<1>26. CASE RecOpen
  BY <1>26, <1>0, RecFields DEF RecOpen
<1>27. CASE RecFlush
  BY <1>27, <1>0, RecFields DEF RecFlush
<1>28. CASE RecWriteFails
  BY <1>28, <1>0, RecFields DEF RecWriteFails
<1>29. CASE RecSend
  BY <1>29, <1>0, RecFields DEF RecSend
<1>30. CASE RecDone
  BY <1>30, <1>0, RecFields DEF RecDone
<1>31. CASE Stop
  BY <1>31, <1>0 DEF Stop
<1>32. CASE SweepRemove
  BY <1>32, <1>0 DEF SweepRemove
<1>33. CASE Crash
  BY <1>33, <1>0 DEF Crash, OffRec, OffWorker
<1>34. CASE UNCHANGED vars
  BY <1>34, <1>0 DEF vars
<1>35. QED
  BY <1>1, <1>2, <1>3, <1>4, <1>5, <1>6, <1>7, <1>8, <1>9, <1>10, <1>11,
     <1>12, <1>13, <1>14, <1>15, <1>16, <1>17, <1>18, <1>19, <1>20, <1>21,
     <1>22, <1>23, <1>24, <1>25, <1>26, <1>27, <1>28, <1>29, <1>30, <1>31,
     <1>32, <1>33, <1>34
     DEF Next, RecStep, WorkerStep

-----------------------------------------------------------------------------
(* Hands.  A step puts a job in no new hand, or it is one of five.         *)

NoNewHand ==
    /\ Distinct(queue')
    /\ \A j \in Jobs : InQueue(j)' => InQueue(j)
    /\ \A w \in Workers :
         /\ worker'[w].job \in {worker[w].job, NoJob}
         /\ worker'[w].pc \in BeforeIngest => worker[w].pc \in BeforeIngest
    /\ rec'.todo \subseteq rec.todo
    /\ rec'.job \in {rec.job, NoJob}
    /\ \A j \in Jobs : AtSubmit(j)' => AtSubmit(j)

NewHand ==
    \/ \E j \in Jobs : SubmitSend(j)
    \/ RecList
    \/ \E e \in rec.todo : RecTake(e)
    \/ RecSend
    \/ \E w \in Workers : WorkerTake(w)

LEMMA HandStep ==
    ASSUME TypeOK, Shape, Exclusive, [Next]_vars
    PROVE  NoNewHand \/ NewHand
<1> USE DEF TypeOK, Shape, NoNewHand, AtSubmit, InQueue, history, disk, vars
<1>0. InSubmit = {"writing", "sending"} /\ Distinct(queue)
  BY DEF InSubmit, Exclusive
<1>1. ASSUME NEW j \in Jobs, SubmitTooLarge(j) PROVE NoNewHand \/ NewHand
  BY <1>1, <1>0 DEF SubmitTooLarge
<1>2. ASSUME NEW j \in Jobs, SubmitOpen(j) PROVE NoNewHand \/ NewHand
  BY <1>2, <1>0 DEF SubmitOpen
<1>3. ASSUME NEW j \in Jobs, SubmitFlush(j) PROVE NoNewHand \/ NewHand
  BY <1>3, <1>0 DEF SubmitFlush
<1>4. ASSUME NEW j \in Jobs, SubmitWriteFails(j) PROVE NoNewHand \/ NewHand
  BY <1>4, <1>0 DEF SubmitWriteFails
<1>5. ASSUME NEW j \in Jobs, SubmitSend(j) PROVE NoNewHand \/ NewHand
  BY <1>5 DEF NewHand
<1>6. ASSUME NEW j \in Jobs, SweepFind(j) PROVE NoNewHand \/ NewHand
  BY <1>6, <1>0 DEF SweepFind
<1>7. ASSUME NEW e \in rec.todo, RecYoung(e) PROVE NoNewHand \/ NewHand
  BY <1>7, <1>0, RecFields DEF RecYoung
<1>8. ASSUME NEW e \in rec.todo, RecUnreadable(e) PROVE NoNewHand \/ NewHand
  BY <1>8, <1>0, RecFields DEF RecUnreadable
<1>9. ASSUME NEW e \in rec.todo, RecFinished(e) PROVE NoNewHand \/ NewHand
  BY <1>9, <1>0, RecFields DEF RecFinished
<1>10. ASSUME NEW e \in rec.todo, RecTake(e) PROVE NoNewHand \/ NewHand
  BY <1>10 DEF NewHand
<1>11. ASSUME NEW w \in Workers, WorkerExit(w) PROVE NoNewHand \/ NewHand
  BY <1>11, <1>0 DEF WorkerExit, OffWorker, BeforeIngest, Unclaimed
<1>12. ASSUME NEW w \in Workers, WorkerTake(w) PROVE NoNewHand \/ NewHand
  BY <1>12 DEF NewHand
<1>13. ASSUME NEW w \in Workers, WorkerLoad(w) PROVE NoNewHand \/ NewHand
  BY <1>13, <1>0, GotoFields, ReleaseFields DEF WorkerLoad, BeforeIngest, Unclaimed
<1>14. ASSUME NEW w \in Workers, WorkerClaim(w) PROVE NoNewHand \/ NewHand
  <2>1. UNCHANGED <<queue, rec, sub>> /\ worker[w].pc = "claim"
    BY <1>14 DEF WorkerClaim
  <2>2. CASE Release(w)
    BY <1>0, <2>1, <2>2, ReleaseFields DEF BeforeIngest, Unclaimed
  <2>3. CASE Goto(w, "mark")
    BY <1>0, <2>1, <2>3, GotoFields DEF BeforeIngest, Unclaimed
  <2>4. QED
    BY <1>14, <2>2, <2>3 DEF WorkerClaim
<1>15. ASSUME NEW w \in Workers, WorkerMarkOpen(w) PROVE NoNewHand \/ NewHand
  BY <1>15, <1>0, GotoFields DEF WorkerMarkOpen, BeforeIngest, Unclaimed
<1>16. ASSUME NEW w \in Workers, WorkerMarkFlush(w) PROVE NoNewHand \/ NewHand
  <2>1. UNCHANGED <<queue, rec, sub>> /\ Goto(w, "ingest")
    BY <1>16 DEF WorkerMarkFlush, BeginIngest
  <2>2. QED
    BY <1>0, <2>1, GotoFields DEF BeforeIngest, Unclaimed
<1>17. ASSUME NEW w \in Workers, WorkerMarkFails(w) PROVE NoNewHand \/ NewHand
  <2>1. UNCHANGED <<queue, rec, sub>> /\ Goto(w, "ingest")
    BY <1>17 DEF WorkerMarkFails, BeginIngest
  <2>2. QED
    BY <1>0, <2>1, GotoFields DEF BeforeIngest, Unclaimed
<1>18. ASSUME NEW w \in Workers, WorkerIngest(w) PROVE NoNewHand \/ NewHand
  BY <1>18, <1>0 DEF WorkerIngest, BeforeIngest, Unclaimed
<1>19. ASSUME NEW w \in Workers, WorkerFinalOpen(w) PROVE NoNewHand \/ NewHand
  <2>1. UNCHANGED <<queue, rec, sub>> /\ Goto(w, "finalizing")
    BY <1>19 DEF WorkerFinalOpen
  <2>2. QED
    BY <1>0, <2>1, GotoFields DEF BeforeIngest, Unclaimed
<1>20. ASSUME NEW w \in Workers, WorkerFinalFlush(w) PROVE NoNewHand \/ NewHand
  BY <1>20, <1>0, GotoFields DEF WorkerFinalFlush, BeforeIngest, Unclaimed
<1>21. ASSUME NEW w \in Workers, WorkerFinalFails(w) PROVE NoNewHand \/ NewHand
  BY <1>21, <1>0, GotoFields DEF WorkerFinalFails, BeforeIngest, Unclaimed
<1>22. ASSUME NEW w \in Workers, WorkerPublish(w) PROVE NoNewHand \/ NewHand
  BY <1>22, <1>0, ReleaseFields DEF WorkerPublish, BeforeIngest, Unclaimed
<1>23. CASE Start
  BY <1>23, <1>0 DEF Start, IdleWorker, BeforeIngest, Unclaimed
<1>24. CASE RecList
  BY <1>24 DEF NewHand
<1>25. CASE RecMove
  <2>1. rec' = [rec EXCEPT !.pc = "write"] \/ rec' = NextEntry
    BY <1>25 DEF RecMove
  <2>2. rec'.todo = rec.todo /\ rec'.job \in {rec.job, NoJob}
    BY <2>1 DEF RecState, NextEntry
  <2>3. QED
    BY <1>25, <1>0, <2>2 DEF RecMove
<1>26. CASE RecOpen
  BY <1>26, <1>0, RecFields DEF RecOpen
<1>27. CASE RecFlush
  BY <1>27, <1>0, RecFields DEF RecFlush
<1>28. CASE RecWriteFails
  BY <1>28, <1>0, RecFields DEF RecWriteFails
<1>29. CASE RecSend
  BY <1>29 DEF NewHand
<1>30. CASE RecDone
  BY <1>30, <1>0, RecFields DEF RecDone
<1>31. CASE Stop
  BY <1>31, <1>0 DEF Stop
<1>32. CASE SweepRemove
  BY <1>32, <1>0 DEF SweepRemove
<1>33. CASE Crash
  BY <1>33, <1>0, QueueEmpty DEF Crash, OffRec, OffWorker, BeforeIngest, Unclaimed
<1>34. CASE UNCHANGED vars
  BY <1>34, <1>0
<1>35. QED
  BY <1>1, <1>2, <1>3, <1>4, <1>5, <1>6, <1>7, <1>8, <1>9, <1>10, <1>11,
     <1>12, <1>13, <1>14, <1>15, <1>16, <1>17, <1>18, <1>19, <1>20, <1>21,
     <1>22, <1>23, <1>24, <1>25, <1>26, <1>27, <1>28, <1>29, <1>30, <1>31,
     <1>32, <1>33, <1>34
     DEF Next, RecStep, WorkerStep

LEMMA ExclusiveKept ==
    ASSUME Exclusive, NoNewHand
    PROVE  Exclusive'
<1>1. ASSUME NEW j \in Jobs PROVE OneHand(j)'
  BY JobQueueAssumption DEF Exclusive, NoNewHand, OneHand, InTodo
<1>2. QED
  BY <1>1 DEF Exclusive, NoNewHand

\* What a scan entry is.
LEMMA EntryFacts ==
    ASSUME rec \in RecState, NEW e \in rec.todo
    PROVE  /\ e[1] \in Jobs
           /\ e = <<e[1], "canon">> \/ e = <<e[1], "claim">>
           /\ InTodo(e[1])
BY DEF RecState, Entries, InTodo

\* The scan takes an entry in hand.
LEMMA TakeFacts ==
    ASSUME rec \in RecState, NEW e \in rec.todo, RecTake(e)
    PROVE  /\ rec'.todo = rec.todo \ {e}
           /\ rec'.job = e[1]
           /\ \/ e = <<e[1], "canon">> /\ rec'.pc = "write" /\ canon[e[1]] \in Unfinished
              \/ e = <<e[1], "claim">> /\ rec'.pc = "move" /\ claim[e[1]] \in Unfinished
BY EntryFacts DEF RecTake

LEMMA ExclusiveNew ==
    ASSUME TypeOK, Shape, Exclusive, Files, NewHand
    PROVE  Exclusive'
<1> USE JobQueueAssumption DEF Exclusive, OneHand, InTodo, AtSubmit, InQueue, disk, history
<1>0. InSubmit = {"writing", "sending"}
  BY DEF InSubmit
<1>1. ASSUME NEW j \in Jobs, SubmitSend(j) PROVE Exclusive'
  <2>1. CASE HasRoom /\ queue' = Append(queue, j) /\ sub' = [sub EXCEPT ![j] = "accepted"]
    <3>1. /\ Distinct(queue')
          /\ \A k : InSeq(queue', k) <=> InSeq(queue, k) \/ k = j
      BY <1>0, <1>1, <2>1, QueueAppend DEF SubmitSend, TypeOK
    <3>2. UNCHANGED <<rec, worker>> /\ sub[j] = "sending"
      BY <1>1 DEF SubmitSend
    <3>3. \A k \in Jobs : sub'[k] = IF k = j THEN "accepted" ELSE sub[k]
      BY <2>1 DEF TypeOK
    <3>4. ASSUME NEW k \in Jobs PROVE OneHand(k)'
      BY <1>0, <3>1, <3>2, <3>3
    <3>5. QED
      BY <3>1, <3>4
  <2>2. CASE sub' = [sub EXCEPT ![j] = "refused"] /\ UNCHANGED queue
    BY <1>0, <1>1, <2>2 DEF SubmitSend, TypeOK
  <2>3. QED
    BY <1>1, <2>1, <2>2 DEF SubmitSend
<1>2. CASE RecList
  <2>1. /\ \A j : ~InSeq(queue, j)
        /\ \A w \in Workers : worker[w].job = NoJob
        /\ UNCHANGED <<queue, worker, sub>>
    BY <1>2, QueueEmpty DEF RecList, Shape
  <2>2. rec'.job = NoJob /\ \A e \in rec'.todo : e \in Listing
    BY <1>2 DEF RecList, Shape, TypeOK, RecState
  <2>3. ASSUME NEW j \in Jobs PROVE OneHand(j)'
    <3>1. canon[j] = "none" \/ claim[j] = "none"
      BY DEF Files, FilesOf
    <3>2. AtSubmit(j) => canon[j] = "none" /\ claim[j] = "none"
      BY <1>0, <1>2 DEF Files, FilesOf, Shape, RecList
    <3>3. InTodo(j)' => canon[j] # "none" \/ claim[j] # "none"
      BY <2>2 DEF Listing
    <3>4. ~(<<j, "canon">> \in rec'.todo /\ <<j, "claim">> \in rec'.todo)
      BY <2>2, <3>1 DEF Listing
    <3>5. QED
      BY <2>1, <2>2, <3>2, <3>3, <3>4
  <2>4. QED
    BY <2>1, <2>3
<1>3. ASSUME NEW e \in rec.todo, RecTake(e) PROVE Exclusive'
  <2>1. /\ rec'.todo = rec.todo \ {e}
        /\ rec'.job = e[1]
        /\ e = <<e[1], "canon">> \/ e = <<e[1], "claim">>
        /\ e[1] \in Jobs
    BY <1>3, TakeFacts, EntryFacts DEF TypeOK
  <2>2. UNCHANGED <<queue, worker, sub>> /\ rec.job = NoJob
    BY <1>3 DEF RecTake, Shape
  <2>3. ASSUME NEW j \in Jobs PROVE OneHand(j)'
    BY <2>1, <2>2
  <2>4. QED
    BY <2>2, <2>3
<1>4. CASE RecSend
  <2>1. rec.job \in Jobs
    BY <1>4, HoldsJob DEF RecSend
  <2>2. CASE HasRoom /\ queue' = Append(queue, rec.job) /\ rec' = NextEntry
    <3>1. /\ Distinct(queue')
          /\ \A k : InSeq(queue', k) <=> InSeq(queue, k) \/ k = rec.job
      BY <2>1, <2>2, QueueAppend DEF TypeOK
    <3>2. rec'.job = NoJob /\ rec'.todo = rec.todo
      BY <2>2 DEF TypeOK, RecState, NextEntry
    <3>3. UNCHANGED <<worker, sub>>
      BY <1>4 DEF RecSend
    <3>4. ASSUME NEW j \in Jobs PROVE OneHand(j)'
      BY <2>1, <3>1, <3>2, <3>3
    <3>5. QED
      BY <3>1, <3>4
  <2>3. CASE rec' = [pc |-> "done", todo |-> {}, job |-> NoJob] /\ UNCHANGED queue
    BY <1>4, <2>3 DEF RecSend
  <2>4. QED
    BY <1>4, <2>2, <2>3 DEF RecSend
<1>5. ASSUME NEW w \in Workers, WorkerTake(w) PROVE Exclusive'
  <2>1. /\ Head(queue) \in Jobs
        /\ InSeq(queue, Head(queue))
        /\ \A j : InSeq(queue', j) => InSeq(queue, j)
        /\ Distinct(queue') /\ ~InSeq(queue', Head(queue))
    BY <1>5, QueueTail DEF WorkerTake, TypeOK
  <2>2. \A v \in Workers :
           worker'[v].job = IF v = w THEN Head(queue) ELSE worker[v].job
    BY <1>5 DEF WorkerTake, TypeOK
  <2>3. UNCHANGED <<rec, sub>>
    BY <1>5 DEF WorkerTake
  <2>4. ASSUME NEW j \in Jobs PROVE OneHand(j)'
    BY <2>1, <2>2, <2>3
  <2>5. QED
    BY <2>1, <2>4
<1>6. QED
  BY <1>1, <1>2, <1>3, <1>4, <1>5 DEF NewHand

LEMMA ExclusiveStep ==
    ASSUME TypeOK, Shape, Exclusive, Files, [Next]_vars
    PROVE  Exclusive'
BY HandStep, ExclusiveKept, ExclusiveNew

-----------------------------------------------------------------------------
(* Files.  A step leaves job k's files alone, and with them whoever relies  *)
(* on them, or the step is taken by the hand that has k.                    *)

Undisturbed(k) ==
    /\ canon'[k] = canon[k] /\ claim'[k] = claim[k]
    /\ \/ sub'[k] = sub[k]
       \/ sub'[k] \in {"accepted", "refused", "lost"}
       \/ sub[k] = "new" /\ sub'[k] = "tooLarge"
    /\ InQueue(k)' => InQueue(k)
    /\ rec'.todo \subseteq rec.todo
    /\ rec'.job = k => rec.job = k /\ rec'.pc = rec.pc
    /\ \A w \in Workers : worker'[w].job = k =>
          /\ worker[w].job = k
          /\ worker'[w].pc \in Unclaimed => worker[w].pc \in Unclaimed
          /\ worker'[w].pc \in Claimed => worker[w].pc \in Claimed
    /\ victim' = k => victim = k /\ rec'.pc = rec.pc

LEMMA FilesKept ==
    ASSUME Files, NEW k \in Jobs, Undisturbed(k)
    PROVE  FilesOf(k)'
<1>1. FilesOf(k)
  BY DEF Files
<1>2. QED
  BY <1>1 DEF Undisturbed, FilesOf

\* A worker that has claimed a job rewrites the claim as it likes.
LEMMA ClaimRewritten ==
    ASSUME TypeOK, Shape, Exclusive, Files,
           NEW w \in Workers, worker[w].pc \in Claimed,
           NEW pc \in Claimed, Goto(w, pc),
           NEW s, s # "none", claim' = [claim EXCEPT ![worker[w].job] = s],
           UNCHANGED <<canon, queue, rec, sub, victim>>
    PROVE  Files'
<1> USE JobQueueAssumption
<1>0. /\ Unclaimed = {"load", "claim"}
      /\ Claimed = {"mark", "marking", "ingest", "final", "finalizing", "publish"}
  BY DEF Unclaimed, Claimed, AfterIngest
<1>1. PICK j \in Jobs : j = worker[w].job
  BY <1>0, HoldsJob
<1>2. /\ canon[j] = "none"
      /\ ~InQueue(j) /\ ~InTodo(j) /\ rec.job # j
      /\ \A v \in Workers : worker[v].job = j => v = w
      /\ sub[j] \notin {"new", "tooLarge", "writing", "sending"}
      /\ victim # j
  BY <1>1 DEF Files, FilesOf, Exclusive, OneHand, AtSubmit, InSubmit, Finished
<1>3. \A k \in Jobs : claim'[k] = IF k = j THEN s ELSE claim[k]
  BY <1>1 DEF TypeOK
<1>4. \A v \in Workers : /\ worker'[v].pc = IF v = w THEN pc ELSE worker[v].pc
                         /\ worker'[v].job = worker[v].job
  BY GotoFields DEF TypeOK
<1>5. FilesOf(j)'
  <2>1. claim'[j] # "none" /\ canon'[j] = "none"
    BY <1>1, <1>2, <1>3
  <2>2. ~InQueue(j)' /\ ~InTodo(j)'
    BY <1>2 DEF InQueue, InTodo
  <2>3. QED
    BY <1>0, <1>1, <1>2, <1>4, <2>1, <2>2 DEF FilesOf, InTodo
<1>6. ASSUME NEW k \in Jobs \ {j} PROVE Undisturbed(k)
  BY <1>1, <1>2, <1>3, <1>4 DEF Undisturbed, InQueue
<1>7. QED
  BY <1>1, <1>5, <1>6, FilesKept DEF Files

LEMMA FilesStep ==
    ASSUME TypeOK, Shape, Exclusive, Files, [Next]_vars
    PROVE  Files'
<1> USE JobQueueAssumption DEF TypeOK, Shape, AtSubmit, InQueue, history, disk, vars
<1>0. /\ InSubmit = {"writing", "sending"}
      /\ Unclaimed = {"load", "claim"}
      /\ Claimed = {"mark", "marking", "ingest", "final", "finalizing", "publish"}
      /\ Unfinished = {"pending", "processing"}
      /\ Finished = {"completed", "failed"}
  BY DEF InSubmit, Unclaimed, Claimed, AfterIngest, Unfinished, Finished
<1>1. ASSUME NEW j \in Jobs, SubmitTooLarge(j) PROVE Files'
  <2>1. ASSUME NEW k \in Jobs PROVE Undisturbed(k)
    BY <1>1, <1>0 DEF SubmitTooLarge, Undisturbed
  <2>2. QED
    BY <2>1, FilesKept DEF Files
<1>2. ASSUME NEW j \in Jobs, SubmitOpen(j) PROVE Files'
  <2>1. /\ canon[j] = "none" /\ claim[j] = "none" /\ sub[j] = "new"
        /\ ~InSeq(queue, j) /\ ~InTodo(j) /\ rec.job # j
        /\ \A w \in Workers : worker[w].job # j
    BY <1>2 DEF SubmitOpen, Files, FilesOf, Exclusive, OneHand
  <2>2. \A k \in Jobs : /\ sub'[k] = IF k = j THEN "writing" ELSE sub[k]
                        /\ canon'[k] = IF k = j THEN "torn" ELSE canon[k]
    BY <1>2 DEF SubmitOpen
  <2>3. UNCHANGED <<claim, queue, rec, worker, victim>>
    BY <1>2 DEF SubmitOpen
  <2>4. victim # j
    BY <1>0, <2>1 DEF Files, FilesOf
  <2>5. FilesOf(j)'
    BY <2>1, <2>2, <2>3, <2>4 DEF FilesOf, InTodo
  <2>6. ASSUME NEW k \in Jobs \ {j} PROVE Undisturbed(k)
    BY <2>2, <2>3 DEF Undisturbed
  <2>7. QED
    BY <2>5, <2>6, FilesKept DEF Files
<1>3. ASSUME NEW j \in Jobs, SubmitFlush(j) PROVE Files'
  <2>1. /\ canon[j] = "torn" /\ claim[j] = "none" /\ sub[j] = "writing"
        /\ ~InSeq(queue, j) /\ ~InTodo(j) /\ rec.job # j
        /\ \A w \in Workers : worker[w].job # j
        /\ victim # j
    BY <1>0, <1>3 DEF SubmitFlush, Files, FilesOf, Exclusive, OneHand
  <2>2. \A k \in Jobs : /\ sub'[k] = IF k = j THEN "sending" ELSE sub[k]
                        /\ canon'[k] = IF k = j THEN "pending" ELSE canon[k]
    BY <1>3 DEF SubmitFlush
  <2>3. UNCHANGED <<claim, queue, rec, worker, victim>>
    BY <1>3 DEF SubmitFlush
  <2>4. FilesOf(j)'
    BY <2>1, <2>2, <2>3 DEF FilesOf, InTodo
  <2>5. ASSUME NEW k \in Jobs \ {j} PROVE Undisturbed(k)
    BY <2>2, <2>3 DEF Undisturbed
  <2>6. QED
    BY <2>4, <2>5, FilesKept DEF Files
<1>4. ASSUME NEW j \in Jobs, SubmitWriteFails(j) PROVE Files'
  <2>1. ASSUME NEW k \in Jobs PROVE Undisturbed(k)
    BY <1>4, <1>0 DEF SubmitWriteFails, Undisturbed
  <2>2. QED
    BY <2>1, FilesKept DEF Files
<1>5. ASSUME NEW j \in Jobs, SubmitSend(j) PROVE Files'
  <2>1. sub[j] = "sending" /\ canon[j] = "pending" /\ claim[j] = "none"
    BY <1>5 DEF SubmitSend, Files, FilesOf
  <2>2. UNCHANGED <<canon, claim, rec, worker, victim>>
    BY <1>5 DEF SubmitSend
  <2>3. \/ sub' = [sub EXCEPT ![j] = "accepted"] /\ queue' = Append(queue, j)
        \/ sub' = [sub EXCEPT ![j] = "refused"] /\ queue' = queue
    BY <1>5 DEF SubmitSend
  <2>4. /\ \A k \in Jobs : sub'[k] = sub[k] \/ (k = j /\ sub'[k] \in {"accepted", "refused"})
        /\ \A k \in Jobs : InSeq(queue', k) => InSeq(queue, k) \/ k = j
    <3>1. \A k \in Jobs : InSeq(Append(queue, j), k) => InSeq(queue, k) \/ k = j
      BY QueueAppend
    <3>2. CASE sub' = [sub EXCEPT ![j] = "accepted"] /\ queue' = Append(queue, j)
      BY <3>1, <3>2
    <3>3. CASE sub' = [sub EXCEPT ![j] = "refused"] /\ queue' = queue
      BY <3>3
    <3>4. QED
      BY <2>3, <3>2, <3>3
  <2>5. ASSUME NEW k \in Jobs PROVE FilesOf(k)'
    BY <2>1, <2>2, <2>4 DEF Files, FilesOf, InTodo
  <2>6. QED
    BY <2>5 DEF Files
<1>6. ASSUME NEW j \in Jobs, SweepFind(j) PROVE Files'
  <2>1. rec.pc = "done" /\ canon[j] \in Finished /\ victim' = j
    BY <1>6 DEF SweepFind, Serving
  <2>2. UNCHANGED <<canon, claim, queue, rec, worker, sub>>
    BY <1>6 DEF SweepFind
  <2>3. ASSUME NEW k \in Jobs PROVE FilesOf(k)'
    BY <2>1, <2>2 DEF Files, FilesOf
  <2>4. QED
    BY <2>3 DEF Files
<1>7. ASSUME NEW e \in rec.todo, RecYoung(e) PROVE Files'
  <2>1. ASSUME NEW k \in Jobs PROVE Undisturbed(k)
    BY <1>7, <1>0, RecFields DEF RecYoung, Undisturbed
  <2>2. QED
    BY <2>1, FilesKept DEF Files
<1>8. ASSUME NEW e \in rec.todo, RecUnreadable(e) PROVE Files'
  <2>1. ASSUME NEW k \in Jobs PROVE Undisturbed(k)
    BY <1>8, <1>0, RecFields DEF RecUnreadable, Undisturbed
  <2>2. QED
    BY <2>1, FilesKept DEF Files
<1>9. ASSUME NEW e \in rec.todo, RecFinished(e) PROVE Files'
  <2>1. /\ rec'.pc = "scan" /\ rec.pc = "scan"
        /\ rec'.todo \subseteq rec.todo
        /\ rec'.job = rec.job
        /\ UNCHANGED <<queue, worker, victim, sub>>
    BY <1>9, RecFields DEF RecFinished
  <2>2. CASE UNCHANGED <<canon, claim>>
    <3>1. ASSUME NEW k \in Jobs PROVE Undisturbed(k)
      BY <2>1, <2>2 DEF Undisturbed
    <3>2. QED
      BY <3>1, FilesKept DEF Files
  <2>3. CASE /\ e[2] = "claim" /\ claim[e[1]] \in Finished
             /\ canon' = [canon EXCEPT ![e[1]] = claim[e[1]]]
             /\ claim' = [claim EXCEPT ![e[1]] = "none"]
    <3>1. e[1] \in Jobs /\ e = <<e[1], "claim">> /\ InTodo(e[1])
      BY <2>3, EntryFacts
    <3> DEFINE j == e[1]
    <3>2. /\ claim[j] \in Finished /\ canon[j] = "none"
          /\ ~InSeq(queue, j) /\ <<j, "canon">> \notin rec.todo /\ rec.job # j
          /\ \A w \in Workers : worker[w].job # j
          /\ sub[j] \notin {"new", "tooLarge", "writing", "sending"}
          /\ victim # j
      BY <1>0, <2>1, <2>3, <3>1 DEF Files, FilesOf, Exclusive, OneHand
    <3>3. \A k \in Jobs : /\ canon'[k] = IF k = j THEN claim[j] ELSE canon[k]
                          /\ claim'[k] = IF k = j THEN "none" ELSE claim[k]
      BY <2>3
    <3>4. e \notin rec'.todo
      BY <1>9, RecFields DEF RecFinished
    <3>5. FilesOf(j)'
      <4>1. <<j, "canon">> \notin rec'.todo /\ <<j, "claim">> \notin rec'.todo
        BY <2>1, <3>1, <3>2, <3>4
      <4>2. canon'[j] = claim[j] /\ claim'[j] = "none"
        BY <3>1, <3>3
      <4>3. QED
        BY <2>1, <3>2, <4>1, <4>2 DEF FilesOf
    <3>6. ASSUME NEW k \in Jobs \ {j} PROVE Undisturbed(k)
      BY <2>1, <3>3 DEF Undisturbed
    <3>7. QED
      BY <3>5, <3>6, FilesKept DEF Files
  <2>4. QED
    BY <1>9, <2>2, <2>3 DEF RecFinished
<1>10. ASSUME NEW e \in rec.todo, RecTake(e) PROVE Files'
  <2>1. /\ e[1] \in Jobs
        /\ rec'.todo \subseteq rec.todo
        /\ rec'.job = e[1]
        /\ \/ rec'.pc = "write" /\ canon[e[1]] \in Unfinished
           \/ rec'.pc = "move" /\ claim[e[1]] \in Unfinished
    BY <1>10, TakeFacts, EntryFacts
  <2>2. UNCHANGED <<canon, claim, queue, worker, victim, sub>> /\ rec.pc = "scan"
    BY <1>10 DEF RecTake
  <2>3. ASSUME NEW k \in Jobs PROVE FilesOf(k)'
    BY <2>1, <2>2 DEF Files, FilesOf
  <2>4. QED
    BY <2>3 DEF Files
<1>11. ASSUME NEW w \in Workers, WorkerExit(w) PROVE Files'
  <2>1. ASSUME NEW k \in Jobs PROVE Undisturbed(k)
    BY <1>11, <1>0, ReleaseFields DEF WorkerExit, OffWorker, Undisturbed
  <2>2. QED
    BY <2>1, FilesKept DEF Files
<1>12. ASSUME NEW w \in Workers, WorkerTake(w) PROVE Files'
  <2>1. /\ Head(queue) \in Jobs
        /\ InSeq(queue, Head(queue))
        /\ \A j : InSeq(queue', j) => InSeq(queue, j)
    BY <1>12, QueueTail DEF WorkerTake
  <2>2. \A v \in Workers :
           /\ worker'[v].job = IF v = w THEN Head(queue) ELSE worker[v].job
           /\ worker'[v].pc = IF v = w THEN "load" ELSE worker[v].pc
    BY <1>12 DEF WorkerTake
  <2>3. UNCHANGED <<canon, claim, rec, sub, victim>>
    BY <1>12 DEF WorkerTake
  <2>4. canon[Head(queue)] = "pending" /\ victim # Head(queue)
    BY <1>0, <2>1 DEF Files, FilesOf
  <2>5. ASSUME NEW k \in Jobs PROVE FilesOf(k)'
    <3>1. FilesOf(k)
      BY DEF Files
    <3>2. \A v \in Workers : worker'[v].job = k =>
             /\ worker'[v].pc \in Unclaimed => canon'[k] = "pending"
             /\ worker'[v].pc \in Claimed => claim'[k] # "none"
      BY <1>0, <2>2, <2>3, <2>4, <3>1 DEF FilesOf
    <3>3. InSeq(queue', k) => canon'[k] = "pending"
      BY <2>1, <2>3, <3>1 DEF FilesOf
    <3>4. QED
      BY <2>3, <3>1, <3>2, <3>3 DEF FilesOf
  <2>6. QED
    BY <2>5 DEF Files
<1>13. ASSUME NEW w \in Workers, WorkerLoad(w) PROVE Files'
  <2>1. ASSUME NEW k \in Jobs PROVE Undisturbed(k)
    <3>1. /\ worker[w].pc = "load" /\ (Goto(w, "claim") \/ Release(w))
          /\ UNCHANGED <<canon, claim, queue, rec, sub, victim>>
      BY <1>13 DEF WorkerLoad
    <3>2. CASE Goto(w, "claim")
      BY <1>0, <3>1, <3>2, GotoFields DEF Undisturbed
    <3>3. CASE Release(w)
      BY <1>0, <3>1, <3>3, ReleaseFields DEF Undisturbed
    <3>4. QED
      BY <3>1, <3>2, <3>3
  <2>2. QED
    BY <2>1, FilesKept DEF Files
<1>14. ASSUME NEW w \in Workers, WorkerClaim(w) PROVE Files'
  <2>1. UNCHANGED <<queue, rec, sub, victim>> /\ worker[w].pc = "claim"
    BY <1>14 DEF WorkerClaim
  <2>2. PICK j \in Jobs : j = worker[w].job
    BY <2>1, HoldsJob
  <2>3. /\ canon[j] = "pending" /\ claim[j] = "none"
        /\ ~InSeq(queue, j) /\ ~InTodo(j) /\ rec.job # j
        /\ \A v \in Workers : worker[v].job = j => v = w
        /\ sub[j] \notin {"new", "tooLarge", "writing", "sending"}
        /\ victim # j
    <3>1. FilesOf(j) /\ OneHand(j)
      BY DEF Files, Exclusive
    <3>2. canon[j] = "pending" /\ claim[j] = "none"
      BY <1>0, <2>1, <2>2, <3>1 DEF FilesOf
    <3>3. QED
      BY <1>0, <2>2, <3>1, <3>2 DEF FilesOf, OneHand
  <2>4. CASE Release(w) /\ UNCHANGED <<canon, claim>>
    <3>1. ASSUME NEW k \in Jobs PROVE Undisturbed(k)
      BY <1>0, <2>1, <2>4, ReleaseFields DEF Undisturbed
    <3>2. QED
      BY <3>1, FilesKept DEF Files
  <2>5. CASE /\ claim' = [claim EXCEPT ![j] = canon[j]]
             /\ canon' = [canon EXCEPT ![j] = "none"]
             /\ Goto(w, "mark")
    <3>1. \A k \in Jobs : /\ claim'[k] = IF k = j THEN canon[j] ELSE claim[k]
                          /\ canon'[k] = IF k = j THEN "none" ELSE canon[k]
      BY <2>2, <2>5
    <3>2. \A v \in Workers : /\ worker'[v].pc = IF v = w THEN "mark" ELSE worker[v].pc
                             /\ worker'[v].job = worker[v].job
      BY <2>5, GotoFields
    <3>3. FilesOf(j)'
      <4>1. canon'[j] = "none" /\ claim'[j] = "pending"
        BY <2>2, <2>3, <3>1
      <4>2. QED
        BY <1>0, <2>1, <2>2, <2>3, <3>2, <4>1 DEF FilesOf, InTodo
    <3>4. ASSUME NEW k \in Jobs \ {j} PROVE Undisturbed(k)
      BY <2>1, <2>2, <3>1, <3>2 DEF Undisturbed
    <3>5. QED
      BY <2>2, <3>3, <3>4, FilesKept DEF Files
  <2>6. QED
    BY <1>14, <2>2, <2>4, <2>5 DEF WorkerClaim
<1>15. ASSUME NEW w \in Workers, WorkerMarkOpen(w) PROVE Files'
  <2>1. /\ worker[w].pc \in Claimed /\ Goto(w, "marking") /\ "marking" \in Claimed
        /\ claim' = [claim EXCEPT ![worker[w].job] = "torn"]
        /\ "torn" # "none"
        /\ UNCHANGED <<canon, queue, rec, sub, victim>>
    BY <1>0, <1>15 DEF WorkerMarkOpen
  <2>2. QED
    BY <2>1, ClaimRewritten
<1>16. ASSUME NEW w \in Workers, WorkerMarkFlush(w) PROVE Files'
  <2>1. /\ worker[w].pc \in Claimed /\ Goto(w, "ingest") /\ "ingest" \in Claimed
        /\ claim' = [claim EXCEPT ![worker[w].job] = "processing"]
        /\ "processing" # "none"
        /\ UNCHANGED <<canon, queue, rec, sub, victim>>
    BY <1>0, <1>16 DEF WorkerMarkFlush, BeginIngest
  <2>2. QED
    BY <2>1, ClaimRewritten
<1>17. ASSUME NEW w \in Workers, WorkerMarkFails(w) PROVE Files'
  <2>1. ASSUME NEW k \in Jobs PROVE Undisturbed(k)
    <3>1. /\ worker[w].pc \in {"mark", "marking"} /\ Goto(w, "ingest")
          /\ UNCHANGED <<canon, claim, queue, rec, sub, victim>>
      BY <1>17 DEF WorkerMarkFails, BeginIngest
    <3>2. QED
      BY <1>0, <3>1, GotoFields DEF Undisturbed
  <2>2. QED
    BY <2>1, FilesKept DEF Files
<1>18. ASSUME NEW w \in Workers, WorkerIngest(w) PROVE Files'
  <2>1. ASSUME NEW k \in Jobs PROVE Undisturbed(k)
    BY <1>18, <1>0 DEF WorkerIngest, Undisturbed
  <2>2. QED
    BY <2>1, FilesKept DEF Files
<1>19. ASSUME NEW w \in Workers, WorkerFinalOpen(w) PROVE Files'
  <2>1. /\ worker[w].pc \in Claimed /\ Goto(w, "finalizing") /\ "finalizing" \in Claimed
        /\ claim' = [claim EXCEPT ![worker[w].job] = "torn"]
        /\ "torn" # "none"
        /\ UNCHANGED <<canon, queue, rec, sub, victim>>
    BY <1>0, <1>19 DEF WorkerFinalOpen
  <2>2. QED
    BY <2>1, ClaimRewritten
<1>20. ASSUME NEW w \in Workers, WorkerFinalFlush(w) PROVE Files'
  <2>1. /\ worker[w].pc \in Claimed /\ Goto(w, "publish") /\ "publish" \in Claimed
        /\ claim' = [claim EXCEPT ![worker[w].job] = worker[w].out]
        /\ worker[w].out # "none"
        /\ UNCHANGED <<canon, queue, rec, sub, victim>>
    BY <1>0, <1>20 DEF WorkerFinalFlush, AfterIngest
  <2>2. QED
    BY <2>1, ClaimRewritten
<1>21. ASSUME NEW w \in Workers, WorkerFinalFails(w) PROVE Files'
  <2>1. ASSUME NEW k \in Jobs PROVE Undisturbed(k)
    BY <1>21, <1>0, GotoFields DEF WorkerFinalFails, Undisturbed
  <2>2. QED
    BY <2>1, FilesKept DEF Files
<1>22. ASSUME NEW w \in Workers, WorkerPublish(w) PROVE Files'
  <2>1. UNCHANGED <<queue, rec, sub, victim>> /\ worker[w].pc \in Claimed /\ Release(w)
    BY <1>0, <1>22 DEF WorkerPublish
  <2>2. PICK j \in Jobs : j = worker[w].job
    BY <1>0, <2>1, HoldsJob
  <2>3. /\ canon[j] = "none" /\ claim[j] # "none"
        /\ ~InSeq(queue, j) /\ ~InTodo(j) /\ rec.job # j
        /\ \A v \in Workers : worker[v].job = j => v = w
        /\ sub[j] \notin {"new", "tooLarge", "writing", "sending"}
        /\ victim # j
    <3>1. FilesOf(j) /\ OneHand(j)
      BY DEF Files, Exclusive
    <3>2. canon[j] = "none" /\ claim[j] # "none"
      BY <1>0, <2>1, <2>2, <3>1 DEF FilesOf
    <3>3. QED
      BY <1>0, <2>2, <3>1, <3>2 DEF FilesOf, OneHand
  <2>4. \A v \in Workers : /\ worker'[v].pc = IF v = w THEN "idle" ELSE worker[v].pc
                           /\ worker'[v].job = IF v = w THEN NoJob ELSE worker[v].job
    BY <2>1, ReleaseFields
  <2>5. CASE UNCHANGED <<canon, claim>>
    <3>1. ASSUME NEW k \in Jobs PROVE Undisturbed(k)
      BY <2>1, <2>4, <2>5 DEF Undisturbed
    <3>2. QED
      BY <3>1, FilesKept DEF Files
  <2>6. CASE /\ canon' = [canon EXCEPT ![j] = claim[j]]
             /\ claim' = [claim EXCEPT ![j] = "none"]
    <3>1. \A k \in Jobs : /\ canon'[k] = IF k = j THEN claim[j] ELSE canon[k]
                          /\ claim'[k] = IF k = j THEN "none" ELSE claim[k]
      BY <2>2, <2>6
    <3>2. FilesOf(j)'
      <4>1. claim'[j] = "none"
        BY <2>2, <3>1
      <4>2. \A v \in Workers : worker'[v].job # j
        BY <2>2, <2>3, <2>4
      <4>3. QED
        BY <2>1, <2>3, <4>1, <4>2 DEF FilesOf, InTodo
    <3>3. ASSUME NEW k \in Jobs \ {j} PROVE Undisturbed(k)
      BY <2>1, <2>2, <2>4, <3>1 DEF Undisturbed
    <3>4. QED
      BY <2>2, <3>2, <3>3, FilesKept DEF Files
  <2>7. QED
    BY <1>22, <2>2, <2>5, <2>6 DEF WorkerPublish
<1>23. CASE Start
  <2>1. ASSUME NEW k \in Jobs PROVE Undisturbed(k)
    <3>1. victim # k
      BY <1>23 DEF Start, Files, FilesOf
    <3>2. QED
      BY <1>23, <1>0, <3>1 DEF Start, IdleWorker, Undisturbed
  <2>2. QED
    BY <2>1, FilesKept DEF Files
<1>24. CASE RecList
  <2>1. /\ rec.job = NoJob /\ rec'.job = NoJob
        /\ \A e \in rec'.todo : e \in Listing
        /\ UNCHANGED <<canon, claim, queue, worker, sub, victim>>
        /\ rec.pc = "list"
    BY <1>24 DEF RecList, RecState
  <2>2. ASSUME NEW k \in Jobs PROVE FilesOf(k)'
    BY <2>1 DEF Files, FilesOf, Listing
  <2>3. QED
    BY <2>2 DEF Files
<1>25. CASE RecMove
  <2>1. UNCHANGED <<queue, worker, sub, victim>> /\ rec.pc = "move"
    BY <1>25 DEF RecMove
  <2>2. PICK j \in Jobs : j = rec.job
    BY <2>1, HoldsJob
  <2>3. /\ canon[j] = "none" /\ claim[j] \in Unfinished
        /\ ~InSeq(queue, j) /\ ~InTodo(j)
        /\ \A w \in Workers : worker[w].job # j
        /\ sub[j] \notin {"new", "tooLarge", "writing", "sending"}
        /\ victim # j
    BY <1>0, <2>1, <2>2 DEF Files, FilesOf, Exclusive, OneHand
  <2>4. CASE rec' = NextEntry /\ UNCHANGED <<canon, claim>>
    <3>1. rec'.job = NoJob /\ rec'.todo = rec.todo /\ rec'.pc = "scan"
      BY <2>4 DEF NextEntry, RecState
    <3>2. victim \notin Jobs
      BY <2>1 DEF Files, FilesOf
    <3>3. ASSUME NEW k \in Jobs PROVE Undisturbed(k)
      BY <2>1, <2>4, <3>1, <3>2 DEF Undisturbed
    <3>4. QED
      BY <3>3, FilesKept DEF Files
  <2>5. CASE /\ canon' = [canon EXCEPT ![j] = claim[j]]
             /\ claim' = [claim EXCEPT ![j] = "none"]
             /\ rec' = [rec EXCEPT !.pc = "write"]
    <3>1. \A k \in Jobs : /\ canon'[k] = IF k = j THEN claim[j] ELSE canon[k]
                          /\ claim'[k] = IF k = j THEN "none" ELSE claim[k]
      BY <2>5
    <3>2. rec'.job = j /\ rec'.todo = rec.todo /\ rec'.pc = "write"
      BY <2>2, <2>5 DEF RecState
    <3>3. FilesOf(j)'
      <4>1. claim'[j] = "none" /\ canon'[j] = claim[j]
        BY <2>2, <3>1
      <4>2. QED
        BY <1>0, <2>1, <2>3, <3>2, <4>1 DEF FilesOf, InTodo
    <3>4. victim \notin Jobs
      BY <2>1 DEF Files, FilesOf
    <3>5. ASSUME NEW k \in Jobs \ {j} PROVE Undisturbed(k)
      BY <2>1, <3>1, <3>2, <3>4 DEF Undisturbed
    <3>6. QED
      BY <2>2, <3>3, <3>5, FilesKept DEF Files
  <2>6. QED
    BY <1>25, <2>2, <2>4, <2>5 DEF RecMove
<1>26. CASE RecOpen
  <2>1. UNCHANGED <<claim, queue, worker, sub, victim>> /\ rec.pc = "write"
    BY <1>26 DEF RecOpen
  <2>2. PICK j \in Jobs : j = rec.job
    BY <2>1, HoldsJob
  <2>3. /\ claim[j] = "none" /\ canon[j] \in Unfinished
        /\ ~InSeq(queue, j) /\ ~InTodo(j)
        /\ \A w \in Workers : worker[w].job # j
        /\ sub[j] \notin {"new", "tooLarge", "writing", "sending"}
        /\ victim \notin Jobs
    BY <1>0, <2>1, <2>2 DEF Files, FilesOf, Exclusive, OneHand
  <2>4. \A k \in Jobs : canon'[k] = IF k = j THEN "torn" ELSE canon[k]
    BY <1>26, <2>2 DEF RecOpen
  <2>5. rec'.job = j /\ rec'.todo = rec.todo /\ rec'.pc = "flush"
    BY <1>26, <2>2 DEF RecOpen, RecState
  <2>6. FilesOf(j)'
    BY <2>1, <2>2, <2>3, <2>4, <2>5 DEF FilesOf, InTodo
  <2>7. ASSUME NEW k \in Jobs \ {j} PROVE Undisturbed(k)
    BY <2>1, <2>3, <2>4, <2>5 DEF Undisturbed
  <2>8. QED
    BY <2>2, <2>6, <2>7, FilesKept DEF Files
<1>27. CASE RecFlush
  <2>1. UNCHANGED <<claim, queue, worker, sub, victim>> /\ rec.pc = "flush"
    BY <1>27 DEF RecFlush
  <2>2. PICK j \in Jobs : j = rec.job
    BY <2>1, HoldsJob
  <2>3. /\ claim[j] = "none" /\ canon[j] = "torn"
        /\ ~InSeq(queue, j) /\ ~InTodo(j)
        /\ \A w \in Workers : worker[w].job # j
        /\ sub[j] \notin {"new", "tooLarge", "writing", "sending"}
        /\ victim \notin Jobs
    BY <1>0, <2>1, <2>2 DEF Files, FilesOf, Exclusive, OneHand
  <2>4. \A k \in Jobs : canon'[k] = IF k = j THEN "pending" ELSE canon[k]
    BY <1>27, <2>2 DEF RecFlush
  <2>5. rec'.job = j /\ rec'.todo = rec.todo /\ rec'.pc = "send"
    BY <1>27, <2>2 DEF RecFlush, RecState
  <2>6. FilesOf(j)'
    BY <2>1, <2>2, <2>3, <2>4, <2>5 DEF FilesOf, InTodo
  <2>7. ASSUME NEW k \in Jobs \ {j} PROVE Undisturbed(k)
    BY <2>1, <2>3, <2>4, <2>5 DEF Undisturbed
  <2>8. QED
    BY <2>2, <2>6, <2>7, FilesKept DEF Files
<1>28. CASE RecWriteFails
  <2>1. ASSUME NEW k \in Jobs PROVE Undisturbed(k)
    <3>1. victim # k
      BY <1>28 DEF RecWriteFails, Files, FilesOf
    <3>2. QED
      BY <1>28, <1>0, <3>1 DEF RecWriteFails, RecState, NextEntry, Undisturbed
  <2>2. QED
    BY <2>1, FilesKept DEF Files
<1>29. CASE RecSend
  <2>1. UNCHANGED <<canon, claim, worker, sub, victim>> /\ rec.pc = "send"
    BY <1>29 DEF RecSend
  <2>2. rec.job \in Jobs
    BY <2>1, HoldsJob
  <2>3. canon[rec.job] = "pending" /\ claim[rec.job] = "none" /\ victim \notin Jobs
    BY <1>0, <2>1, <2>2 DEF Files, FilesOf
  <2>4. \A k \in Jobs : InSeq(queue', k) => InSeq(queue, k) \/ k = rec.job
    <3>1. queue' = Append(queue, rec.job) \/ queue' = queue
      BY <1>29 DEF RecSend
    <3>2. \A k \in Jobs : InSeq(Append(queue, rec.job), k) => InSeq(queue, k) \/ k = rec.job
      BY <2>2, QueueAppend
    <3>3. QED
      BY <3>1, <3>2
  <2>5. rec'.job = NoJob /\ rec'.todo \subseteq rec.todo
    <3>1. \/ rec' = NextEntry
          \/ rec' = [pc |-> "done", todo |-> {}, job |-> NoJob]
      BY <1>29 DEF RecSend
    <3>2. CASE rec' = NextEntry
      BY <3>2, RecFields
    <3>3. CASE rec' = [pc |-> "done", todo |-> {}, job |-> NoJob]
      BY <3>3
    <3>4. QED
      BY <3>1, <3>2, <3>3
  <2>6. ASSUME NEW k \in Jobs PROVE FilesOf(k)'
    BY <2>1, <2>3, <2>4, <2>5 DEF Files, FilesOf, InTodo
  <2>7. QED
    BY <2>6 DEF Files
<1>30. CASE RecDone
  <2>1. ASSUME NEW k \in Jobs PROVE Undisturbed(k)
    <3>1. victim # k
      BY <1>30 DEF RecDone, Files, FilesOf
    <3>2. QED
      BY <1>30, <1>0, <3>1 DEF RecDone, RecState, Undisturbed
  <2>2. QED
    BY <2>1, FilesKept DEF Files
<1>31. CASE Stop
  <2>1. ASSUME NEW k \in Jobs PROVE Undisturbed(k)
    BY <1>31, <1>0 DEF Stop, Undisturbed
  <2>2. QED
    BY <2>1, FilesKept DEF Files
<1>32. CASE SweepRemove
  <2>1. PICK j \in Jobs : j = victim /\ canon[j] \in Finished /\ victim' = NoJob
    BY <1>32 DEF SweepRemove, Files, FilesOf
  <2>2. /\ ~InSeq(queue, j) /\ rec.pc = "done"
        /\ sub[j] \notin {"new", "tooLarge", "writing", "sending"}
        /\ \A w \in Workers : worker[w].job = j => worker[w].pc \notin Unclaimed
    BY <1>0, <2>1 DEF Files, FilesOf
  <2>3. UNCHANGED <<claim, queue, worker, sub, rec>>
    BY <1>32 DEF SweepRemove
  <2>4. \A k \in Jobs \ {j} : canon'[k] = canon[k]
    BY <1>32, <2>1 DEF SweepRemove
  <2>5. canon'[j] \in {"none", canon[j]}
    BY <2>1, <1>32 DEF SweepRemove
  <2>6. FilesOf(j)'
    BY <1>0, <2>1, <2>2, <2>3, <2>5 DEF Files, FilesOf
  <2>7. ASSUME NEW k \in Jobs \ {j} PROVE Undisturbed(k)
    BY <2>1, <2>3, <2>4 DEF Undisturbed
  <2>8. QED
    BY <2>1, <2>6, <2>7, FilesKept DEF Files
<1>33. CASE Crash
  <2>1. ASSUME NEW k \in Jobs PROVE Undisturbed(k)
    BY <1>33, <1>0, QueueEmpty DEF Crash, OffRec, OffWorker, Undisturbed
  <2>2. QED
    BY <2>1, FilesKept DEF Files
<1>34. CASE UNCHANGED vars
  <2>1. ASSUME NEW k \in Jobs PROVE Undisturbed(k)
    BY <1>34, <1>0 DEF Undisturbed
  <2>2. QED
    BY <2>1, FilesKept DEF Files
<1>35. QED
  BY <1>1, <1>2, <1>3, <1>4, <1>5, <1>6, <1>7, <1>8, <1>9, <1>10, <1>11,
     <1>12, <1>13, <1>14, <1>15, <1>16, <1>17, <1>18, <1>19, <1>20, <1>21,
     <1>22, <1>23, <1>24, <1>25, <1>26, <1>27, <1>28, <1>29, <1>30, <1>31,
     <1>32, <1>33, <1>34
     DEF Next, RecStep, WorkerStep

-----------------------------------------------------------------------------
(* Runs.                                                                   *)

LEMMA RunsChange ==
    ASSUME [Next]_vars
    PROVE  \/ UNCHANGED runs
           \/ Crash
           \/ \E w \in Workers : WorkerMarkFlush(w) \/ WorkerMarkFails(w)
<1>1. ASSUME NEW j \in Jobs,
             \/ SubmitTooLarge(j) \/ SubmitOpen(j) \/ SubmitFlush(j)
             \/ SubmitWriteFails(j) \/ SubmitSend(j) \/ SweepFind(j)
      PROVE  UNCHANGED runs
  BY <1>1 DEF SubmitTooLarge, SubmitOpen, SubmitFlush, SubmitWriteFails,
              SubmitSend, SweepFind, history
<1>2. ASSUME NEW e \in rec.todo,
             RecYoung(e) \/ RecUnreadable(e) \/ RecFinished(e) \/ RecTake(e)
      PROVE  UNCHANGED runs
  BY <1>2 DEF RecYoung, RecUnreadable, RecFinished, RecTake, history
<1>3. ASSUME \/ RecList \/ RecMove \/ RecOpen \/ RecFlush \/ RecWriteFails
             \/ RecSend \/ RecDone
      PROVE  UNCHANGED runs
  BY <1>3 DEF RecList, RecMove, RecOpen, RecFlush, RecWriteFails, RecSend,
              RecDone, history
<1>4. ASSUME NEW w \in Workers,
             \/ WorkerExit(w) \/ WorkerTake(w) \/ WorkerLoad(w)
             \/ WorkerClaim(w) \/ WorkerMarkOpen(w) \/ WorkerIngest(w)
             \/ WorkerFinalOpen(w) \/ WorkerFinalFlush(w)
             \/ WorkerFinalFails(w) \/ WorkerPublish(w)
      PROVE  UNCHANGED runs
  BY <1>4 DEF WorkerExit, WorkerTake, WorkerLoad, WorkerClaim, WorkerMarkOpen,
              WorkerIngest, WorkerFinalOpen, WorkerFinalFlush,
              WorkerFinalFails, WorkerPublish, history
<1>5. ASSUME Start \/ Stop \/ SweepRemove \/ UNCHANGED vars
      PROVE  UNCHANGED runs
  BY <1>5 DEF Start, Stop, SweepRemove, history, vars
<1>6. CASE Next
  BY <1>1, <1>2, <1>3, <1>4, <1>5, <1>6 DEF Next, RecStep, WorkerStep
<1>7. QED
  BY <1>5, <1>6

LEMMA RunsStep ==
    ASSUME TypeOK, Shape, Exclusive, Files, Runs, [Next]_vars
    PROVE  Runs'
<1> USE JobQueueAssumption DEF TypeOK, disk, vars
<1>1. CASE UNCHANGED runs /\ NoNewHand
  <2>1. ASSUME NEW j \in Jobs PROVE RunsOf(j)'
    <3>1. YetToRun(j)' => YetToRun(j)
      BY <1>1 DEF YetToRun, NoNewHand, InTodo
    <3>2. QED
      BY <1>1, <3>1 DEF Runs, RunsOf
  <2>2. QED
    BY <2>1 DEF Runs
<1>2. CASE UNCHANGED runs /\ NewHand
  <2>1. ASSUME NEW j \in Jobs, SubmitSend(j) PROVE Runs'
    <3>1. ASSUME NEW k \in Jobs PROVE YetToRun(k)' => YetToRun(k)
      <4>1. \A i \in Jobs : InSeq(Append(queue, j), i) => InSeq(queue, i) \/ i = j
        BY QueueAppend
      <4>2. sub[j] = "sending" /\ UNCHANGED <<worker, rec>>
        BY <2>1 DEF SubmitSend
      <4>3. InQueue(k)' => InQueue(k) \/ k = j
        BY <2>1, <4>1 DEF SubmitSend, InQueue
      <4>4. AtSubmit(k)' => AtSubmit(k)
        BY <2>1 DEF SubmitSend, AtSubmit, InSubmit
      <4>5. AtSubmit(j)
        BY <4>2 DEF AtSubmit, InSubmit
      <4>6. QED
        BY <4>2, <4>3, <4>4, <4>5 DEF YetToRun, InTodo
    <3>2. QED
      BY <1>2, <3>1 DEF Runs, RunsOf
  <2>2. CASE RecList
    <3>1. \A j \in Jobs : runs[j] = 0
      BY <2>2 DEF RecList, Shape
    <3>2. QED
      BY <1>2, <3>1 DEF Runs, RunsOf
  <2>3. ASSUME NEW e \in rec.todo, RecTake(e) PROVE Runs'
    <3>1. /\ rec'.todo = rec.todo \ {e} /\ rec'.job = e[1] /\ InTodo(e[1])
      BY <2>3, TakeFacts, EntryFacts
    <3>2. UNCHANGED <<queue, worker, sub>>
      BY <2>3 DEF RecTake
    <3>3. ASSUME NEW k \in Jobs PROVE YetToRun(k)' => YetToRun(k)
      BY <3>1, <3>2 DEF YetToRun, AtSubmit, InQueue, InTodo
    <3>4. QED
      BY <1>2, <3>3 DEF Runs, RunsOf
  <2>4. CASE RecSend
    <3>1. rec.job \in Jobs
      BY <2>4, HoldsJob DEF RecSend
    <3>2. \A k \in Jobs : InSeq(queue', k) => InSeq(queue, k) \/ k = rec.job
      <4>1. queue' = Append(queue, rec.job) \/ queue' = queue
        BY <2>4 DEF RecSend
      <4>2. \A k : InSeq(Append(queue, rec.job), k) <=> InSeq(queue, k) \/ k = rec.job
        BY <3>1, QueueAppend
      <4>3. QED
        BY <4>1, <4>2, ZenonT(60)
    <3>3. rec'.job = NoJob /\ rec'.todo \subseteq rec.todo
      <4>1. \/ rec' = NextEntry
            \/ rec' = [pc |-> "done", todo |-> {}, job |-> NoJob]
        BY <2>4 DEF RecSend
      <4>2. CASE rec' = NextEntry
        BY <4>2, RecFields
      <4>3. CASE rec' = [pc |-> "done", todo |-> {}, job |-> NoJob]
        BY <4>3
      <4>4. QED
        BY <4>1, <4>2, <4>3
    <3>4. UNCHANGED <<worker, sub>>
      BY <2>4 DEF RecSend
    <3>5. ASSUME NEW k \in Jobs PROVE YetToRun(k)' => YetToRun(k)
      BY <3>2, <3>3, <3>4 DEF YetToRun, AtSubmit, InQueue, InTodo
    <3>6. QED
      BY <1>2, <3>5 DEF Runs, RunsOf
  <2>5. ASSUME NEW w \in Workers, WorkerTake(w) PROVE Runs'
    <3>1. /\ Head(queue) \in Jobs
          /\ InSeq(queue, Head(queue))
          /\ \A k : InSeq(queue', k) => InSeq(queue, k)
      BY <2>5, QueueTail DEF WorkerTake
    <3>2. \A v \in Workers :
             /\ worker'[v].job = IF v = w THEN Head(queue) ELSE worker[v].job
             /\ v # w => worker'[v].pc = worker[v].pc
      BY <2>5 DEF WorkerTake
    <3>3. UNCHANGED <<rec, sub>>
      BY <2>5 DEF WorkerTake
    <3>4. ASSUME NEW k \in Jobs PROVE YetToRun(k)' => YetToRun(k)
      BY <3>1, <3>2, <3>3 DEF YetToRun, AtSubmit, InQueue, InTodo
    <3>5. QED
      BY <1>2, <3>4 DEF Runs, RunsOf
  <2>6. QED
    BY <1>2, <2>1, <2>2, <2>3, <2>4, <2>5 DEF NewHand
<1>3. ASSUME NEW w \in Workers, WorkerMarkFlush(w) \/ WorkerMarkFails(w)
      PROVE  Runs'
  <2>1. /\ worker[w].pc \in {"mark", "marking"} /\ Goto(w, "ingest")
        /\ UNCHANGED <<queue, rec, sub>>
        /\ runs' = [runs EXCEPT ![worker[w].job] = @ + 1]
    BY <1>3 DEF WorkerMarkFlush, WorkerMarkFails, BeginIngest
  <2>2. PICK j \in Jobs : j = worker[w].job
    BY <2>1, HoldsJob
  <2>3. \A v \in Workers : /\ worker'[v].pc = IF v = w THEN "ingest" ELSE worker[v].pc
                           /\ worker'[v].job = worker[v].job
    BY <2>1, GotoFields
  <2>4. \A k \in Jobs : runs'[k] = IF k = j THEN runs[j] + 1 ELSE runs[k]
    BY <2>1, <2>2
  <2>5. runs[j] = 0
    BY <2>1, <2>2 DEF Runs, RunsOf, YetToRun, BeforeIngest
  <2>6. ~YetToRun(j)'
    <3>1. OneHand(j)
      BY DEF Exclusive
    <3>2. ~InQueue(j)' /\ ~InTodo(j)' /\ rec'.job # j /\ ~AtSubmit(j)'
      BY <2>1, <2>2, <3>1 DEF OneHand, InQueue, InTodo, AtSubmit
    <3>3. \A v \in Workers : worker'[v].job = j => worker'[v].pc = "ingest"
      BY <2>2, <2>3, <3>1 DEF OneHand
    <3>4. QED
      BY <3>2, <3>3 DEF YetToRun, BeforeIngest, Unclaimed
  <2>7. ASSUME NEW k \in Jobs \ {j} PROVE YetToRun(k)' => YetToRun(k)
    BY <2>1, <2>2, <2>3 DEF YetToRun, AtSubmit, InQueue, InTodo
  <2>8. ASSUME NEW k \in Jobs PROVE RunsOf(k)'
    <3>1. CASE k = j
      BY <2>4, <2>5, <2>6, <3>1 DEF RunsOf
    <3>2. CASE k # j
      BY <2>4, <2>7, <3>2 DEF Runs, RunsOf
    <3>3. QED
      BY <3>1, <3>2
  <2>9. QED
    BY <2>8 DEF Runs
<1>4. CASE Crash
  BY <1>4 DEF Crash, Runs, RunsOf
<1>5. QED
  BY <1>1, <1>2, <1>3, <1>4, RunsChange, HandStep

-----------------------------------------------------------------------------
(* Claims.                                                                 *)

\* Errors are never forgotten.
LEMMA FaultsGrow ==
    ASSUME TypeOK, [Next]_vars, faults' = 0
    PROVE  faults = 0
<1>1. faults \in Nat
  BY JobQueueAssumption DEF TypeOK
<1>2. UNCHANGED faults \/ Fault
  BY DEF Next, RecStep, WorkerStep, vars,
         SubmitTooLarge, SubmitOpen, SubmitFlush, SubmitWriteFails, SubmitSend, SweepFind,
         Start, RecList, RecYoung, RecUnreadable, RecFinished, RecTake, RecMove, RecOpen,
         RecFlush, RecWriteFails, RecSend, RecDone, Stop, WorkerExit, WorkerTake, WorkerLoad,
         WorkerClaim, WorkerMarkOpen, WorkerMarkFlush, WorkerMarkFails, WorkerIngest,
         WorkerFinalOpen, WorkerFinalFlush, WorkerFinalFails, WorkerPublish, SweepRemove, Crash
<1>3. QED
  BY <1>1, <1>2 DEF Fault

\* Nobody is at work on k's claim, or whoever is goes on as it was.
ClaimKept(k) ==
    \A w \in Workers : worker'[w].job = k =>
        /\ claim'[k] = claim[k]
        /\ worker[w].job = k
        /\ worker'[w].pc \in RunningPCs => worker[w].pc \in RunningPCs
        /\ worker'[w].pc = "publish" => worker[w].pc = "publish"

LEMMA ClaimKeeps ==
    ASSUME TypeOK, Claims, [Next]_vars, NEW k \in Jobs, ClaimKept(k)
    PROVE  ClaimOf(k)'
BY FaultsGrow DEF Claims, ClaimOf, ClaimKept

LEMMA PCFacts ==
    /\ RunningPCs = {"mark", "marking", "ingest", "final", "finalizing"}
    /\ Claimed = {"mark", "marking", "ingest", "final", "finalizing", "publish"}
    /\ Unclaimed = {"load", "claim"}
    /\ AfterIngest = {"final", "finalizing", "publish"}
    /\ InSubmit = {"writing", "sending"}
    /\ Unfinished = {"pending", "processing"}
    /\ Finished = {"completed", "failed"}
    /\ Statuses = {"pending", "processing", "completed", "failed"}
    /\ NoJob \notin Jobs
BY JobQueueAssumption
   DEF RunningPCs, Claimed, Unclaimed, AfterIngest, InSubmit, Unfinished, Finished, Statuses

\* A worker that moves on with its job in hand and rewrites no claim but its own.
LEMMA ClaimGoto ==
    ASSUME TypeOK, Exclusive, Claims, [Next]_vars,
           NEW w \in Workers, NEW pc, Goto(w, pc), NEW j \in Jobs, worker[w].job = j,
           \A k \in Jobs \ {j} : claim'[k] = claim[k],
           pc \in RunningPCs => claim'[j] \in Unfinished \cup {"torn"},
           pc = "publish" /\ faults' = 0 => claim'[j] \in Finished
    PROVE  Claims'
<1>1. \A v \in Workers : /\ worker'[v].pc = IF v = w THEN pc ELSE worker[v].pc
                         /\ worker'[v].job = worker[v].job
  BY GotoFields DEF TypeOK
<1>2. \A v \in Workers : worker[v].job = j => v = w
  BY DEF Exclusive, OneHand
<1>3. ClaimOf(j)'
  BY <1>1, <1>2 DEF ClaimOf
<1>4. ASSUME NEW k \in Jobs \ {j} PROVE ClaimKept(k)
  BY <1>1 DEF ClaimKept
<1>5. QED
  BY <1>3, <1>4, ClaimKeeps DEF Claims

\* One that gives its job up leaves no worker at it.
LEMMA ClaimRelease ==
    ASSUME TypeOK, Exclusive, Claims, [Next]_vars,
           NEW w \in Workers, Release(w), NEW j \in Jobs, worker[w].job = j,
           \A k \in Jobs \ {j} : claim'[k] = claim[k]
    PROVE  Claims'
<1>1. \A v \in Workers : /\ worker'[v].pc = IF v = w THEN "idle" ELSE worker[v].pc
                         /\ worker'[v].job = IF v = w THEN NoJob ELSE worker[v].job
  BY ReleaseFields DEF TypeOK
<1>2. \A v \in Workers : worker[v].job = j => v = w
  BY DEF Exclusive, OneHand
<1>3. ASSUME NEW k \in Jobs PROVE ClaimKept(k)
  BY <1>1, <1>2, PCFacts DEF ClaimKept
<1>4. QED
  BY <1>3, ClaimKeeps DEF Claims

LEMMA ClaimsStep ==
    ASSUME TypeOK, Shape, Exclusive, Files, Claims, [Next]_vars
    PROVE  Claims'
<1> USE PCFacts
<1>1. ASSUME UNCHANGED <<worker, claim>> PROVE Claims'
  BY <1>1, ClaimKeeps DEF Claims, ClaimKept
<1>2. ASSUME NEW e \in rec.todo, RecFinished(e) PROVE Claims'
  <2>1. e[1] \in Jobs /\ InTodo(e[1])
    BY EntryFacts DEF TypeOK
  <2>2. \A w \in Workers : worker[w].job # e[1]
    BY <2>1 DEF Exclusive, OneHand
  <2>3. \A k \in Jobs \ {e[1]} : claim'[k] = claim[k]
    BY <1>2, <2>1 DEF RecFinished, disk, TypeOK
  <2>4. UNCHANGED worker
    BY <1>2 DEF RecFinished
  <2>5. ASSUME NEW k \in Jobs PROVE ClaimKept(k)
    BY <2>2, <2>3, <2>4 DEF ClaimKept
  <2>6. QED
    BY <2>5, ClaimKeeps DEF Claims
<1>3. CASE RecMove
  <2>1. rec.job \in Jobs
    BY <1>3, HoldsJob DEF RecMove
  <2>2. \A w \in Workers : worker[w].job # rec.job
    BY <2>1 DEF Exclusive, OneHand
  <2>3. \A k \in Jobs \ {rec.job} : claim'[k] = claim[k]
    BY <1>3, <2>1 DEF RecMove, disk, TypeOK
  <2>4. UNCHANGED worker
    BY <1>3 DEF RecMove
  <2>5. ASSUME NEW k \in Jobs PROVE ClaimKept(k)
    BY <2>2, <2>3, <2>4 DEF ClaimKept
  <2>6. QED
    BY <2>5, ClaimKeeps DEF Claims
<1>4. CASE Start \/ Crash
  <2>1. \A w \in Workers : worker'[w].job = NoJob
    BY <1>4 DEF Start, Crash, IdleWorker, OffWorker
  <2>2. QED
    BY <2>1 DEF Claims, ClaimOf
<1>5. ASSUME NEW w \in Workers, WorkerStep(w) PROVE Claims'
  <2>1. ASSUME worker[w].pc \notin {"off", "idle"}
        PROVE  /\ worker[w].job \in Jobs
               /\ FilesOf(worker[w].job)
               /\ ClaimOf(worker[w].job)
    BY <2>1, HoldsJob DEF Files, Claims
  <2>2. CASE WorkerExit(w) \/ WorkerTake(w)
    <3>1. /\ UNCHANGED claim
          /\ \A v \in Workers : \/ worker'[v] = worker[v]
                                \/ worker'[v].pc \in {"off", "load"}
      BY <2>2 DEF WorkerExit, WorkerTake, OffWorker, disk, TypeOK
    <3>2. ASSUME NEW k \in Jobs PROVE ClaimOf(k)'
      BY <3>1, FaultsGrow DEF Claims, ClaimOf
    <3>3. QED
      BY <3>2 DEF Claims
  <2>3. CASE WorkerLoad(w)
    <3>1. UNCHANGED claim /\ (Goto(w, "claim") \/ Release(w)) /\ worker[w].pc = "load"
      BY <2>3 DEF WorkerLoad, disk
    <3>2. QED
      BY <2>1, <3>1, ClaimGoto, ClaimRelease
  <2>4. CASE WorkerClaim(w)
    <3>1. worker[w].pc = "claim" /\ canon[worker[w].job] = "pending"
      BY <2>1, <2>4 DEF WorkerClaim, FilesOf
    <3>2. CASE Release(w)
      BY <2>1, <2>4, <3>1, <3>2, ClaimRelease DEF WorkerClaim, disk, TypeOK
    <3>3. CASE Goto(w, "mark") /\ claim' = [claim EXCEPT ![worker[w].job] = canon[worker[w].job]]
      <4>1. /\ claim'[worker[w].job] = "pending"
            /\ \A k \in Jobs \ {worker[w].job} : claim'[k] = claim[k]
        BY <2>1, <3>1, <3>3 DEF TypeOK
      <4>2. QED
        BY <2>1, <3>1, <3>3, <4>1, ClaimGoto
    <3>4. QED
      BY <2>4, <3>2, <3>3 DEF WorkerClaim
  <2>5. CASE WorkerMarkOpen(w) \/ WorkerMarkFlush(w) \/ WorkerFinalOpen(w) \/ WorkerFinalFlush(w)
    <3>1. PICK pc, s :
            /\ Goto(w, pc)
            /\ claim' = [claim EXCEPT ![worker[w].job] = s]
            /\ worker[w].pc \notin {"off", "idle"}
            /\ \/ pc \in RunningPCs /\ s \in {"torn", "processing"}
               \/ pc = "publish" /\ worker[w].pc = "finalizing" /\ s = worker[w].out
      BY <2>5 DEF WorkerMarkOpen, WorkerMarkFlush, WorkerFinalOpen, WorkerFinalFlush, BeginIngest
    <3>2. worker[w].pc = "finalizing" => worker[w].out \in Finished
      BY DEF Shape
    <3>3. /\ claim'[worker[w].job] = s
          /\ \A k \in Jobs \ {worker[w].job} : claim'[k] = claim[k]
      BY <2>1, <3>1 DEF TypeOK
    <3>4. QED
      BY <2>1, <3>1, <3>2, <3>3, ClaimGoto
  <2>6. CASE WorkerMarkFails(w)
    <3>1. UNCHANGED claim /\ Goto(w, "ingest") /\ worker[w].pc \in {"mark", "marking"}
      BY <2>6 DEF WorkerMarkFails, BeginIngest
    <3>2. QED
      BY <2>1, <3>1, ClaimGoto DEF ClaimOf
  <2>7. CASE WorkerIngest(w)
    <3>1. UNCHANGED claim /\ worker[w].pc = "ingest"
      BY <2>7 DEF WorkerIngest, disk
    <3>2. \A v \in Workers : /\ worker'[v].job = worker[v].job
                             /\ worker'[v].pc = IF v = w THEN "final" ELSE worker[v].pc
      BY <2>7 DEF WorkerIngest, TypeOK, WorkerState
    <3>3. ASSUME NEW k \in Jobs PROVE ClaimKept(k)
      BY <3>1, <3>2 DEF ClaimKept
    <3>4. QED
      BY <3>3, ClaimKeeps DEF Claims
  <2>8. CASE WorkerFinalFails(w)
    <3>1. /\ UNCHANGED claim /\ Goto(w, "publish")
          /\ worker[w].pc \in {"final", "finalizing"} /\ Fault
      BY <2>8 DEF WorkerFinalFails, disk
    <3>2. faults' # 0
      BY <3>1, JobQueueAssumption DEF Fault, TypeOK
    <3>3. QED
      BY <2>1, <3>1, <3>2, ClaimGoto
  <2>9. CASE WorkerPublish(w)
    <3>1. /\ Release(w) /\ worker[w].pc = "publish"
          /\ \/ claim' = [claim EXCEPT ![worker[w].job] = "none"]
             \/ UNCHANGED claim
      BY <2>9 DEF WorkerPublish, disk
    <3>2. QED
      BY <2>1, <3>1, ClaimRelease DEF TypeOK
  <2>10. QED
    BY <1>5, <2>2, <2>3, <2>4, <2>5, <2>6, <2>7, <2>8, <2>9 DEF WorkerStep
<1>6. QED
  <2>1. ASSUME NEW j \in Jobs,
               \/ SubmitTooLarge(j) \/ SubmitOpen(j) \/ SubmitFlush(j)
               \/ SubmitWriteFails(j) \/ SubmitSend(j) \/ SweepFind(j)
        PROVE  UNCHANGED <<worker, claim>>
    BY <2>1 DEF SubmitTooLarge, SubmitOpen, SubmitFlush, SubmitWriteFails, SubmitSend,
                SweepFind, disk
  <2>2. ASSUME NEW e \in rec.todo, RecYoung(e) \/ RecUnreadable(e) \/ RecTake(e)
        PROVE  UNCHANGED <<worker, claim>>
    BY <2>2 DEF RecYoung, RecUnreadable, RecTake, disk
  <2>3. ASSUME \/ RecList \/ RecOpen \/ RecFlush \/ RecWriteFails \/ RecSend \/ RecDone
               \/ Stop \/ SweepRemove \/ UNCHANGED vars
        PROVE  UNCHANGED <<worker, claim>>
    BY <2>3 DEF RecList, RecOpen, RecFlush, RecWriteFails, RecSend, RecDone, Stop,
                SweepRemove, disk, vars
  <2>4. QED
    BY <1>1, <1>2, <1>3, <1>4, <1>5, <2>1, <2>2, <2>3 DEF Next, RecStep

-----------------------------------------------------------------------------
(* Unfinished work is tended.                                              *)

LEMMA QueueSplit ==
    ASSUME NEW q \in Seq(Jobs), q # <<>>, NEW j, InSeq(q, j)
    PROVE  j = Head(q) \/ InSeq(Tail(q), j)
<1>1. PICK i \in 1..Len(q) : q[i] = j
  BY DEF InSeq
<1>2. CASE i = 1
  BY <1>1, <1>2
<1>3. CASE i # 1
  <2>1. i - 1 \in 1..Len(Tail(q)) /\ Tail(q)[i - 1] = j
    BY <1>1, <1>3
  <2>2. QED
    BY <2>1 DEF InSeq
<1>4. QED
  BY <1>2, <1>3

\* k's files are as they were, and it has not left the hand it was in.
TendedKept(k) ==
    /\ Calm' => Calm
    /\ canon'[k] = canon[k] /\ claim'[k] = claim[k]
    /\ InHand(k) => InHand(k)'
    /\ skipped \subseteq skipped'

LEMMA TendedKeeps ==
    ASSUME Tended, NEW k \in Jobs, TendedKept(k)
    PROVE  TendedOf(k)'
BY DEF Tended, TendedOf, TendedKept, Spared, OnDiskUnfinished

\* A worker that moves on keeps its job in hand.
LEMMA TendedGoto ==
    ASSUME TypeOK, Tended, [Next]_vars,
           NEW w \in Workers, NEW pc, Goto(w, pc), NEW j \in Jobs, worker[w].job = j,
           \A k \in Jobs \ {j} : canon'[k] = canon[k] /\ claim'[k] = claim[k],
           UNCHANGED <<queue, rec, sub, stopped, skipped>>
    PROVE  Tended'
<1>1. \A v \in Workers : worker'[v].job = worker[v].job
  BY GotoFields DEF TypeOK
<1>2. InHand(j)'
  BY <1>1 DEF InHand, Owned
<1>3. ASSUME NEW k \in Jobs \ {j} PROVE TendedKept(k)
  BY <1>1, FaultsGrow DEF TendedKept, Calm, InHand, Owned, InQueue, InTodo
<1>4. QED
  BY <1>2, <1>3, TendedKeeps DEF Tended, TendedOf

LEMMA TendedSubmit ==
    ASSUME TypeOK, Shape, Files, Tended, [Next]_vars, NEW j \in Jobs,
           \/ SubmitTooLarge(j) \/ SubmitOpen(j) \/ SubmitFlush(j)
           \/ SubmitWriteFails(j) \/ SubmitSend(j)
    PROVE  Tended'
<1> USE PCFacts
<1>1. UNCHANGED <<claim, rec, worker, skipped, stopped>>
  BY DEF SubmitTooLarge, SubmitOpen, SubmitFlush, SubmitWriteFails, SubmitSend, disk, history
<1>2. Calm' => Calm
  BY <1>1, FaultsGrow DEF Calm
<1>3. \A k \in Jobs \ {j} : canon'[k] = canon[k] /\ sub'[k] = sub[k]
  BY DEF SubmitTooLarge, SubmitOpen, SubmitFlush, SubmitWriteFails, SubmitSend, disk, TypeOK
<1>4. \A k : InQueue(k) => InQueue(k)'
  <2>1. UNCHANGED queue \/ queue' = Append(queue, j)
    BY DEF SubmitTooLarge, SubmitOpen, SubmitFlush, SubmitWriteFails, SubmitSend
  <2>2. \A k : InSeq(queue, k) => InSeq(Append(queue, j), k)
    BY QueueAppend DEF TypeOK
  <2>3. \A k : InSeq(queue, k) => InSeq(queue', k)
    BY <2>1, <2>2
  <2>4. QED
    BY <2>3 DEF InQueue, InSeq
<1>5. ASSUME NEW k \in Jobs \ {j} PROVE TendedKept(k)
  BY <1>1, <1>2, <1>3, <1>4 DEF TendedKept, InHand, Owned, InTodo
<1>6. TendedOf(j)'
  <2>1. CASE SubmitTooLarge(j)
    <3>1. canon'[j] = "none" /\ claim'[j] = "none"
      BY <1>1, <2>1 DEF SubmitTooLarge, disk, Files, FilesOf
    <3>2. QED
      BY <3>1 DEF TendedOf, OnDiskUnfinished
  <2>2. CASE SubmitOpen(j) \/ SubmitFlush(j)
    <3>1. sub'[j] \in InSubmit
      BY <2>2 DEF SubmitOpen, SubmitFlush, TypeOK
    <3>2. QED
      BY <3>1 DEF TendedOf, InHand, Owned
  <2>3. CASE SubmitWriteFails(j)
    <3>1. faults' # 0
      BY <2>3, JobQueueAssumption DEF SubmitWriteFails, Fault, TypeOK
    <3>2. QED
      BY <3>1 DEF TendedOf, Calm
  <2>4. CASE SubmitSend(j)
    <3>1. stopped \/ queue' = Append(queue, j)
      BY <2>4 DEF SubmitSend
    <3>2. CASE stopped
      BY <1>1, <3>2 DEF TendedOf, Calm
    <3>3. CASE queue' = Append(queue, j)
      <4>1. InQueue(j)'
        BY <3>3, QueueAppend DEF InQueue, TypeOK
      <4>2. QED
        BY <4>1 DEF TendedOf, InHand, Owned
    <3>4. QED
      BY <3>1, <3>2, <3>3
  <2>5. QED
    BY <2>1, <2>2, <2>3, <2>4
<1>7. QED
  BY <1>5, <1>6, TendedKeeps DEF Tended

LEMMA TendedScan ==
    ASSUME TypeOK, Shape, Files, Tended, [Next]_vars, RecStep
    PROVE  Tended'
<1> USE PCFacts
<1>1. UNCHANGED <<worker, sub, stopped>> /\ rec.pc # "off"
  BY DEF RecStep, RecList, RecYoung, RecUnreadable, RecFinished, RecTake, RecMove, RecOpen,
         RecFlush, RecWriteFails, RecSend, RecDone
<1>2. \A j \in Jobs : FilesOf(j)
  BY DEF Files
<1>3. ASSUME Fault PROVE Tended'
  <2>1. faults' # 0
    BY <1>3, JobQueueAssumption DEF Fault, TypeOK
  <2>2. QED
    BY <2>1 DEF Tended, TendedOf, Calm
<1>4. CASE RecList /\ ~Fault
  <2>1. rec'.todo = Listing /\ UNCHANGED <<canon, claim>>
    BY <1>4 DEF RecList, disk
  <2>2. ASSUME NEW k \in Jobs, OnDiskUnfinished(k)' PROVE InTodo(k)'
    BY <2>1, <2>2 DEF OnDiskUnfinished, InTodo, Listing, Entries
  <2>3. QED
    BY <2>2 DEF Tended, TendedOf, InHand
\* An entry is dropped: its job has nothing to do, or is spared, or is taken in hand.
<1>5. ASSUME NEW e \in rec.todo, ~Fault,
             RecYoung(e) \/ RecUnreadable(e) \/ RecFinished(e) \/ RecTake(e)
      PROVE  Tended'
  <2>1. PICK j \in Jobs : j = e[1] /\ (e = <<j, "canon">> \/ e = <<j, "claim">>)
    BY EntryFacts DEF TypeOK
  <2>2. /\ rec'.todo = rec.todo \ {e} /\ rec.pc = "scan"
        /\ rec.job = NoJob
        /\ UNCHANGED queue /\ skipped \subseteq skipped'
    BY <1>5, RecFields, TakeFacts
       DEF RecYoung, RecUnreadable, RecFinished, RecTake, TypeOK, Shape, history
  <2>3. Calm' => Calm
    BY <1>1, <2>2, FaultsGrow DEF Calm
  <2>4. \A k \in Jobs \ {j} : canon'[k] = canon[k] /\ claim'[k] = claim[k]
    BY <1>5, <2>1 DEF RecYoung, RecUnreadable, RecFinished, RecTake, disk, TypeOK
  <2>5. ASSUME NEW k \in Jobs \ {j} PROVE TendedKept(k)
    <3>1. InTodo(k) => InTodo(k)'
      BY <2>1, <2>2 DEF InTodo
    <3>2. QED
      BY <1>1, <2>2, <2>3, <2>4, <3>1 DEF TendedKept, InHand, Owned, InQueue
  <2>6. TendedOf(j)'
    <3>1. CASE RecYoung(e)
      <4>1. e = <<j, "claim">> /\ j \in skipped' /\ UNCHANGED canon
        BY <2>1, <3>1 DEF RecYoung, disk
      <4>2. canon[j] = "none"
        BY <1>2, <4>1 DEF FilesOf
      <4>3. QED
        BY <4>1, <4>2 DEF TendedOf, Spared
    <3>2. CASE RecUnreadable(e)
      <4>1. /\ ~Readable(IF e[2] = "claim" THEN claim[j] ELSE canon[j])
            /\ UNCHANGED <<canon, claim>>
        BY <2>1, <3>2 DEF RecUnreadable, disk
      <4>2. CASE e = <<j, "canon">>
        <5>1. claim[j] = "none" /\ canon[j] \notin Statuses
          BY <1>2, <4>1, <4>2 DEF FilesOf, Readable
        <5>2. QED
          BY <4>1, <5>1 DEF OnDiskUnfinished, TendedOf
      <4>3. CASE e = <<j, "claim">>
        <5>1. canon[j] = "none" /\ claim[j] \notin Statuses
          BY <1>2, <4>1, <4>3 DEF FilesOf, Readable
        <5>2. QED
          BY <4>1, <5>1 DEF OnDiskUnfinished, TendedOf
      <4>4. QED
        BY <2>1, <4>2, <4>3
    <3>3. CASE RecFinished(e)
      <4>1. CASE e = <<j, "canon">>
        BY <1>2, <2>1, <3>3, <4>1 DEF RecFinished, FilesOf, OnDiskUnfinished, TendedOf, disk
      <4>2. CASE e = <<j, "claim">>
        <5>1. /\ claim[j] \in Finished
              /\ canon' = [canon EXCEPT ![j] = claim[j]]
              /\ claim' = [claim EXCEPT ![j] = "none"]
          BY <1>5, <2>1, <3>3, <4>2 DEF RecFinished
        <5>2. canon'[j] \in Finished /\ claim'[j] = "none"
          BY <5>1 DEF TypeOK
        <5>3. QED
          BY <5>2 DEF OnDiskUnfinished, TendedOf
      <4>3. QED
        BY <2>1, <4>1, <4>2
    <3>4. CASE RecTake(e)
      BY <2>1, <3>4, TakeFacts DEF TendedOf, InHand, TypeOK
    <3>5. QED
      BY <1>5, <3>1, <3>2, <3>3, <3>4
  <2>7. QED
    BY <2>5, <2>6, TendedKeeps DEF Tended
\* The entry in hand is moved and rewritten, and stays in hand,
<1>6. CASE (RecMove \/ RecOpen \/ RecFlush) /\ ~Fault
  <2>1. PICK j \in Jobs : j = rec.job
    BY <1>6, HoldsJob DEF RecMove, RecOpen, RecFlush
  <2>2. /\ \E pc : rec' = [rec EXCEPT !.pc = pc]
        /\ rec.pc \notin {"off", "list"}
        /\ UNCHANGED <<queue, skipped>>
    BY <1>6 DEF RecMove, RecOpen, RecFlush, history
  <2>3. rec'.job = j /\ rec'.todo = rec.todo
    BY <2>1, <2>2 DEF TypeOK, RecState
  <2>4. \A k \in Jobs \ {j} : canon'[k] = canon[k] /\ claim'[k] = claim[k]
    BY <1>6, <2>1 DEF RecMove, RecOpen, RecFlush, TypeOK
  <2>5. ASSUME NEW k \in Jobs \ {j} PROVE TendedKept(k)
    BY <1>1, <2>1, <2>2, <2>4, <2>3, FaultsGrow DEF TendedKept, Calm, InHand, Owned, InQueue, InTodo
  <2>6. QED
    BY <2>5, <2>3, TendedKeeps DEF Tended, TendedOf, InHand
\* until it is in the channel.
<1>7. CASE RecSend
  <2>1. rec.job \in Jobs /\ rec.pc = "send" /\ UNCHANGED <<canon, claim, skipped>>
    BY <1>7, HoldsJob DEF RecSend, disk, history
  <2>2. CASE stopped
    BY <1>1, <2>2 DEF Tended, TendedOf, Calm
  <2>3. CASE ~stopped
    <3>1. queue' = Append(queue, rec.job) /\ rec'.todo = rec.todo
      BY <1>7, <2>3, RecFields DEF RecSend, TypeOK
    <3>2. \A k : InQueue(k)' <=> InQueue(k) \/ k = rec.job
      BY <2>1, <3>1, QueueAppend DEF InQueue, TypeOK
    <3>3. Calm' => Calm
      BY <1>1, <2>1, FaultsGrow DEF Calm
    <3>4. ASSUME NEW k \in Jobs PROVE TendedKept(k)
      BY <1>1, <2>1, <3>1, <3>2, <3>3 DEF TendedKept, InHand, Owned, InTodo
    <3>5. QED
      BY <3>4, TendedKeeps DEF Tended
  <2>4. QED
    BY <2>2, <2>3
<1>8. CASE RecDone
  <2>1. /\ rec.pc = "scan" /\ rec'.todo = rec.todo /\ rec'.job = rec.job
        /\ UNCHANGED <<queue, canon, claim, skipped>>
    BY <1>8, RecFields DEF RecDone, TypeOK, disk, history
  <2>2. ASSUME NEW k \in Jobs PROVE TendedKept(k)
    BY <1>1, <2>1, FaultsGrow DEF TendedKept, Calm, InHand, Owned, InQueue, InTodo
  <2>3. QED
    BY <2>2, TendedKeeps DEF Tended
<1>9. QED
  <2>1. CASE RecWriteFails
    BY <1>3, <2>1 DEF RecWriteFails
  <2>2. QED
    BY <1>3, <1>4, <1>5, <1>6, <1>7, <1>8, <2>1 DEF RecStep

LEMMA TendedWorker ==
    ASSUME TypeOK, Shape, Files, Claims, Tended, [Next]_vars,
           NEW w \in Workers, WorkerStep(w)
    PROVE  Tended'
<1> USE PCFacts
<1>1. UNCHANGED <<rec, sub, stopped, skipped>>
  BY DEF WorkerStep, WorkerExit, WorkerTake, WorkerLoad, WorkerClaim, WorkerMarkOpen,
         WorkerMarkFlush, WorkerMarkFails, BeginIngest, WorkerIngest, WorkerFinalOpen,
         WorkerFinalFlush, WorkerFinalFails, WorkerPublish, history
<1>2. Calm' => Calm
  BY <1>1, FaultsGrow DEF Calm
<1>3. ASSUME Fault PROVE Tended'
  <2>1. faults' # 0
    BY <1>3, JobQueueAssumption DEF Fault, TypeOK
  <2>2. QED
    BY <2>1 DEF Tended, TendedOf, Calm
<1>4. ASSUME worker[w].pc \notin {"off", "idle"}
      PROVE  /\ worker[w].job \in Jobs
             /\ FilesOf(worker[w].job)
             /\ ClaimOf(worker[w].job)
  BY <1>4, HoldsJob DEF Files, Claims
<1>5. CASE WorkerExit(w)
  BY <1>1, <1>5 DEF WorkerExit, Tended, TendedOf, Calm
<1>6. CASE WorkerTake(w)
  <2>1. \A v \in Workers :
           worker'[v].job = IF v = w THEN Head(queue) ELSE worker[v].job
    BY <1>6 DEF WorkerTake, TypeOK
  <2>2. UNCHANGED <<canon, claim>> /\ worker[w].job = NoJob
    BY <1>6 DEF WorkerTake, Shape, disk
  <2>3. \A k : InQueue(k) => InQueue(k)' \/ worker'[w].job = k
    BY <1>6, <2>1, QueueSplit DEF WorkerTake, InQueue, TypeOK
  <2>4. ASSUME NEW k \in Jobs PROVE TendedKept(k)
    BY <1>1, <1>2, <2>1, <2>2, <2>3 DEF TendedKept, InHand, Owned, InTodo
  <2>5. QED
    BY <2>4, TendedKeeps DEF Tended
<1>7. CASE WorkerLoad(w)
  <2>1. canon[worker[w].job] = "pending"
    BY <1>4, <1>7 DEF WorkerLoad, FilesOf
  <2>2. Goto(w, "claim") /\ UNCHANGED <<canon, claim, queue>>
    BY <1>7, <2>1 DEF WorkerLoad, Readable, disk
  <2>3. QED
    BY <1>1, <1>4, <1>7, <2>2, TendedGoto DEF WorkerLoad
<1>8. CASE WorkerClaim(w) /\ ~Fault
  <2>1. canon[worker[w].job] = "pending"
    BY <1>4, <1>8 DEF WorkerClaim, FilesOf
  <2>2. /\ Goto(w, "mark") /\ UNCHANGED queue
        /\ claim' = [claim EXCEPT ![worker[w].job] = canon[worker[w].job]]
        /\ canon' = [canon EXCEPT ![worker[w].job] = "none"]
    BY <1>8, <2>1 DEF WorkerClaim
  <2>3. QED
    BY <1>1, <1>4, <1>8, <2>2, TendedGoto DEF WorkerClaim, TypeOK
<1>9. CASE WorkerMarkOpen(w) \/ WorkerMarkFlush(w) \/ WorkerFinalOpen(w) \/ WorkerFinalFlush(w)
  <2>1. PICK pc, s :
          /\ Goto(w, pc)
          /\ claim' = [claim EXCEPT ![worker[w].job] = s]
          /\ worker[w].pc \notin {"off", "idle"}
          /\ UNCHANGED <<canon, queue>>
    BY <1>9 DEF WorkerMarkOpen, WorkerMarkFlush, WorkerFinalOpen, WorkerFinalFlush, BeginIngest
  <2>2. \A k \in Jobs \ {worker[w].job} : canon'[k] = canon[k] /\ claim'[k] = claim[k]
    BY <1>4, <2>1 DEF TypeOK
  <2>3. QED
    BY <1>1, <1>4, <2>1, <2>2, TendedGoto
<1>10. CASE WorkerIngest(w)
  <2>1. \A v \in Workers : worker'[v].job = worker[v].job
    BY <1>10 DEF WorkerIngest, TypeOK, WorkerState
  <2>2. UNCHANGED <<canon, claim, queue>>
    BY <1>10 DEF WorkerIngest, disk
  <2>3. ASSUME NEW k \in Jobs PROVE TendedKept(k)
    BY <1>1, <1>2, <2>1, <2>2 DEF TendedKept, InHand, Owned, InQueue, InTodo
  <2>4. QED
    BY <2>3, TendedKeeps DEF Tended
<1>11. CASE WorkerPublish(w) /\ ~Fault
  <2>1. PICK j \in Jobs : j = worker[w].job
    BY <1>4, <1>11 DEF WorkerPublish
  <2>2. /\ canon' = [canon EXCEPT ![j] = claim[j]]
        /\ claim' = [claim EXCEPT ![j] = "none"]
        /\ Release(w) /\ UNCHANGED queue
        /\ worker[w].pc = "publish"
    BY <1>11, <2>1 DEF WorkerPublish
  <2>3. Calm' => claim[j] \in Finished
    BY <1>2, <1>4, <2>1, <2>2 DEF ClaimOf, Calm
  <2>4. Calm' => ~OnDiskUnfinished(j)'
    BY <2>2, <2>3 DEF OnDiskUnfinished, TypeOK
  <2>5. \A v \in Workers : worker'[v].job = IF v = w THEN NoJob ELSE worker[v].job
    BY <2>2, ReleaseFields DEF TypeOK
  <2>6. ASSUME NEW k \in Jobs \ {j} PROVE TendedKept(k)
    BY <1>1, <1>2, <2>1, <2>2, <2>5 DEF TendedKept, InHand, Owned, InQueue, InTodo, TypeOK
  <2>7. QED
    BY <2>4, <2>6, TendedKeeps DEF Tended, TendedOf
<1>12. QED
  <2>1. CASE WorkerMarkFails(w) \/ WorkerFinalFails(w)
    BY <1>3, <2>1 DEF WorkerMarkFails, WorkerFinalFails
  <2>2. QED
    BY <1>3, <1>5, <1>6, <1>7, <1>8, <1>9, <1>10, <1>11, <2>1 DEF WorkerStep

LEMMA TendedStep ==
    ASSUME TypeOK, Shape, Files, Claims, Tended, [Next]_vars
    PROVE  Tended'
<1> USE PCFacts
<1>1. ASSUME NEW j \in Jobs, SweepFind(j) PROVE Tended'
  <2>1. ASSUME NEW k \in Jobs PROVE TendedKept(k)
    BY <1>1, FaultsGrow
       DEF SweepFind, disk, history, TendedKept, Calm, InHand, Owned, InQueue, InTodo
  <2>2. QED
    BY <2>1, TendedKeeps DEF Tended
<1>2. CASE SweepRemove
  <2>1. PICK j \in Jobs : j = victim /\ canon[j] \in Finished
    BY <1>2 DEF SweepRemove, Files, FilesOf, TypeOK
  <2>2. \A k \in Jobs \ {j} : canon'[k] = canon[k]
    BY <1>2, <2>1 DEF SweepRemove, TypeOK
  <2>3. claim[j] = "none" /\ canon'[j] \in {canon[j], "none"}
    BY <1>2, <2>1 DEF SweepRemove, Files, FilesOf, TypeOK
  <2>4. UNCHANGED <<claim, queue, stopped, worker, rec, sub, skipped>>
    BY <1>2 DEF SweepRemove, history
  <2>5. ~OnDiskUnfinished(j)'
    BY <2>1, <2>3, <2>4 DEF OnDiskUnfinished
  <2>6. ASSUME NEW k \in Jobs \ {j} PROVE TendedKept(k)
    BY <2>2, <2>4, FaultsGrow DEF TendedKept, Calm, InHand, Owned, InQueue, InTodo
  <2>7. QED
    BY <2>5, <2>6, TendedKeeps DEF Tended, TendedOf
<1>3. CASE Start \/ Stop \/ Crash
  BY <1>3 DEF Start, Stop, Crash, OffRec, Tended, TendedOf, Calm
<1>4. CASE UNCHANGED vars
  <2>1. ASSUME NEW k \in Jobs PROVE TendedKept(k)
    BY <1>4 DEF vars, disk, history, TendedKept, Calm, InHand, Owned, InQueue, InTodo
  <2>2. QED
    BY <2>1, TendedKeeps DEF Tended
<1>5. QED
  BY <1>1, <1>2, <1>3, <1>4, TendedSubmit, TendedScan, TendedWorker DEF Next

-----------------------------------------------------------------------------
(* The theorems.                                                           *)

LEMMA InitInv == Init => IInv
<1> SUFFICES ASSUME Init PROVE IInv
  OBVIOUS
<1> USE JobQueueAssumption DEF Init
<1>1. TypeOK
  <2>1. OffWorker \in WorkerState /\ OffRec \in RecState
    BY DEF OffWorker, OffRec, WorkerState, RecState, WorkerPCs, RecPCs
  <2>2. "none" \in FileStates /\ "new" \in SubmitPCs
    BY FileStateFacts DEF SubmitPCs
  <2>3. queue \in Seq(Jobs) /\ Len(queue) <= Cap
    BY CapFact
  <2>4. worker \in [Workers -> WorkerState] /\ rec \in RecState
    BY <2>1
  <2>5. crashes \in 0..MaxCrashes /\ faults \in 0..MaxFaults
    OBVIOUS
  <2>6. runs \in [Jobs -> Nat] /\ skipped \subseteq Jobs
    OBVIOUS
  <2>7. QED
    BY <2>2, <2>3, <2>4, <2>5, <2>6 DEF TypeOK
<1>2. Shape
  BY DEF Shape, OffWorker, OffRec, AfterIngest, InSubmit
<1>3. Exclusive
  BY QueueEmpty DEF Exclusive, OneHand, InTodo, InQueue, OffWorker, OffRec
<1>4. Files
  BY QueueEmpty DEF Files, FilesOf, InQueue, OffWorker, OffRec
<1>5. Runs
  BY DEF Runs, RunsOf
<1>6. Claims /\ Tended
  BY DEF Claims, ClaimOf, Tended, TendedOf, Calm, OffWorker, OffRec
<1>7. QED
  BY <1>1, <1>2, <1>3, <1>4, <1>5, <1>6 DEF IInv

LEMMA NextInv == IInv /\ [Next]_vars => IInv'
BY TypeStep, ShapeStep, ExclusiveStep, FilesStep, RunsStep, ClaimsStep, TendedStep DEF IInv

\* The ownership invariant holds in every reachable state: each job is in at
\* most one hand, and the files are as that hand expects them.
THEOREM Invariance == Spec => []IInv
BY InitInv, NextInv, PTL DEF Spec

\* The variables of the queue, the files, the workers and the scan keep their
\* types, whatever the interleaving, the crashes and the faults; in
\* particular the channel never holds more ids than there are workers.
THEOREM TypeCorrect == Spec => []TypeOK
<1>1. IInv => TypeOK
  BY DEF IInv
<1>2. QED
  BY <1>1, Invariance, PTL

\* No job ever has both its <id>.json and its <id>.processing.json: the
\* renames of processOne and of recoverUnfinished never leave two files.
THEOREM OneFile == Spec => []OneFilePerJob
<1>1. IInv => OneFilePerJob
  BY DEF IInv, Files, FilesOf, OneFilePerJob
<1>2. QED
  BY <1>1, Invariance, PTL

\* For any number of jobs, workers and restarts, one process calls
\* IngestDocument at most once for each job.
THEOREM OneRun == Spec => []OneRunPerProcess
<1>1. IInv => OneRunPerProcess
  BY DEF IInv, Runs, RunsOf, OneRunPerProcess
<1>2. QED
  BY <1>1, Invariance, PTL

\* While the process serves and no file system call has failed, every
\* unfinished job on disk is in the channel, with a worker or with its Submit
\* call, but for claims the recovery scan spared, whatever the number of jobs,
\* workers and restarts.
THEOREM WorkIsOwned == Spec => []NoUnownedWork
<1>1. IInv => NoUnownedWork
  BY JobQueueAssumption
     DEF IInv, Tended, TendedOf, Calm, InHand, InTodo, Spared, Shape, NoUnownedWork, Serving
<1>2. QED
  BY <1>1, Invariance, PTL

-----------------------------------------------------------------------------
(* What a step may do to finished jobs, and to a job's last file.          *)

KeepsFiles ==
    \A j \in Jobs :
        /\ canon[j] \in Finished => canon'[j] \in {canon[j], "none"}
        /\ HasFile(j) /\ ~HasFile(j)' => canon[j] \in Finished

LEMMA KeepsFilesStep ==
    ASSUME IInv, [Next]_vars
    PROVE  KeepsFiles
<1> USE JobQueueAssumption DEF IInv, TypeOK, KeepsFiles, HasFile, disk
<1>0. /\ Finished = {"completed", "failed"}
      /\ Unfinished = {"pending", "processing"}
      /\ \A j \in Jobs : FilesOf(j)
  BY DEF Finished, Unfinished, Files
<1>1. CASE UNCHANGED <<canon, claim>>
  BY <1>1
<1>2. ASSUME NEW j \in Jobs, SubmitOpen(j) \/ SubmitFlush(j) PROVE KeepsFiles
  BY <1>0, <1>2 DEF SubmitOpen, SubmitFlush, FilesOf
<1>3. ASSUME NEW e \in rec.todo, RecFinished(e), ~UNCHANGED <<canon, claim>>
      PROVE  KeepsFiles
  <2>1. PICK j \in Jobs : j = e[1] /\ e = <<j, "claim">>
    BY <1>3, EntryFacts DEF RecFinished
  <2>2. canon[j] = "none" /\ claim[j] # "none"
    BY <1>0, <1>3, <2>1 DEF RecFinished, FilesOf
  <2>3. \A k \in Jobs : /\ canon'[k] = IF k = j THEN claim[j] ELSE canon[k]
                        /\ claim'[k] = IF k = j THEN "none" ELSE claim[k]
    BY <1>3, <2>1 DEF RecFinished
  <2>4. QED
    BY <1>0, <2>2, <2>3
<1>4. CASE RecMove /\ ~UNCHANGED <<canon, claim>>
  <2>1. PICK j \in Jobs : j = rec.job
    BY <1>4, HoldsJob DEF RecMove
  <2>2. canon[j] = "none" /\ claim[j] # "none"
    BY <1>0, <1>4, <2>1 DEF RecMove, FilesOf
  <2>3. \A k \in Jobs : /\ canon'[k] = IF k = j THEN claim[j] ELSE canon[k]
                        /\ claim'[k] = IF k = j THEN "none" ELSE claim[k]
    BY <1>4, <2>1 DEF RecMove
  <2>4. QED
    BY <1>0, <2>2, <2>3
<1>5. CASE RecOpen \/ RecFlush
  <2>1. PICK j \in Jobs : j = rec.job
    BY <1>5, HoldsJob DEF RecOpen, RecFlush
  <2>2. canon[j] \notin Finished
    BY <1>0, <1>5, <2>1 DEF RecOpen, RecFlush, FilesOf
  <2>3. \A k \in Jobs : canon'[k] = IF k = j THEN canon'[j] ELSE canon[k]
    BY <1>5, <2>1 DEF RecOpen, RecFlush
  <2>4. canon'[j] # "none" /\ UNCHANGED claim
    BY <1>5, <2>1 DEF RecOpen, RecFlush
  <2>5. QED
    BY <1>0, <2>2, <2>3, <2>4
<1>6. ASSUME NEW w \in Workers, WorkerClaim(w), ~UNCHANGED <<canon, claim>>
      PROVE  KeepsFiles
  <2>1. PICK j \in Jobs : j = worker[w].job
    BY <1>6, HoldsJob DEF WorkerClaim
  <2>2. canon[j] = "pending"
    BY <1>0, <1>6, <2>1 DEF WorkerClaim, FilesOf, Unclaimed
  <2>3. \A k \in Jobs : /\ claim'[k] = IF k = j THEN canon[j] ELSE claim[k]
                        /\ canon'[k] = IF k = j THEN "none" ELSE canon[k]
    BY <1>6, <2>1 DEF WorkerClaim
  <2>4. QED
    BY <1>0, <2>2, <2>3
<1>7. ASSUME NEW w \in Workers,
             \/ WorkerMarkOpen(w) \/ WorkerMarkFlush(w)
             \/ WorkerFinalOpen(w) \/ WorkerFinalFlush(w)
      PROVE  KeepsFiles
  <2>1. PICK j \in Jobs : j = worker[w].job
    BY <1>7, HoldsJob DEF WorkerMarkOpen, WorkerMarkFlush, WorkerFinalOpen, WorkerFinalFlush
  <2>2. worker[w].out \in Finished \/ worker[w].pc \in {"mark", "marking", "final"}
    BY <1>7 DEF WorkerMarkOpen, WorkerMarkFlush, WorkerFinalOpen, WorkerFinalFlush,
                Shape, AfterIngest
  <2>3. /\ \A k \in Jobs : claim'[k] = IF k = j THEN claim'[j] ELSE claim[k]
        /\ claim'[j] # "none"
        /\ UNCHANGED canon
    BY <1>0, <1>7, <2>1, <2>2
       DEF WorkerMarkOpen, WorkerMarkFlush, WorkerFinalOpen, WorkerFinalFlush, BeginIngest
  <2>4. QED
    BY <1>0, <2>3
<1>8. ASSUME NEW w \in Workers, WorkerPublish(w), ~UNCHANGED <<canon, claim>>
      PROVE  KeepsFiles
  <2>1. PICK j \in Jobs : j = worker[w].job
    BY <1>8, HoldsJob DEF WorkerPublish
  <2>2. canon[j] = "none" /\ claim[j] # "none"
    BY <1>0, <1>8, <2>1 DEF WorkerPublish, FilesOf, Claimed, AfterIngest
  <2>3. \A k \in Jobs : /\ canon'[k] = IF k = j THEN claim[j] ELSE canon[k]
                        /\ claim'[k] = IF k = j THEN "none" ELSE claim[k]
    BY <1>8, <2>1 DEF WorkerPublish
  <2>4. QED
    BY <1>0, <2>2, <2>3
<1>9. CASE SweepRemove
  <2>1. PICK j \in Jobs : j = victim /\ canon[j] \in Finished
    BY <1>0, <1>9 DEF SweepRemove, FilesOf
  <2>2. \A k \in Jobs : canon'[k] = canon[k] \/ (k = j /\ canon'[k] = "none")
    BY <1>9, <2>1 DEF SweepRemove
  <2>3. UNCHANGED claim
    BY <1>9 DEF SweepRemove
  <2>4. QED
    BY <1>0, <2>1, <2>2, <2>3
<1>10. QED
  <2>1. ASSUME NEW j \in Jobs,
               \/ SubmitTooLarge(j) \/ SubmitWriteFails(j) \/ SubmitSend(j)
               \/ SweepFind(j)
        PROVE  UNCHANGED <<canon, claim>>
    BY <2>1 DEF SubmitTooLarge, SubmitWriteFails, SubmitSend, SweepFind
  <2>2. ASSUME NEW e \in rec.todo, RecYoung(e) \/ RecUnreadable(e) \/ RecTake(e)
        PROVE  UNCHANGED <<canon, claim>>
    BY <2>2 DEF RecYoung, RecUnreadable, RecTake
  <2>3. ASSUME RecList \/ RecWriteFails \/ RecSend \/ RecDone \/ Start \/ Stop \/ Crash
               \/ UNCHANGED vars
        PROVE  UNCHANGED <<canon, claim>>
    BY <2>3 DEF RecList, RecWriteFails, RecSend, RecDone, Start, Stop, Crash, vars
  <2>4. ASSUME NEW w \in Workers,
               \/ WorkerExit(w) \/ WorkerTake(w) \/ WorkerLoad(w)
               \/ WorkerMarkFails(w) \/ WorkerIngest(w) \/ WorkerFinalFails(w)
        PROVE  UNCHANGED <<canon, claim>>
    BY <2>4 DEF WorkerExit, WorkerTake, WorkerLoad, WorkerMarkFails, BeginIngest,
                WorkerIngest, WorkerFinalFails
  <2>5. CASE Next
    BY <1>1, <1>2, <1>3, <1>4, <1>5, <1>6, <1>7, <1>8, <1>9, <2>1, <2>2, <2>3, <2>4, <2>5
       DEF Next, RecStep, WorkerStep
  <2>6. QED
    BY <1>1, <2>3, <2>5

\* What <id>.json says of a finished job never changes, through any scans,
\* restarts and faults, until the sweeper removes it.
THEOREM FinishedStays == Spec => FinishedIsFinal
<1>1. IInv /\ [Next]_vars =>
        [\A j \in Jobs : canon[j] \in Finished => canon'[j] \in {canon[j], "none"}]_vars
  BY KeepsFilesStep DEF KeepsFiles
<1>2. QED
  BY <1>1, Invariance, PTL DEF Spec, FinishedIsFinal

\* No step, crash or fault takes an unfinished job's last file away.
THEOREM NothingVanishes == Spec => OnlyFinishedVanish
<1>1. IInv /\ [Next]_vars =>
        [\A j \in Jobs : HasFile(j) /\ ~HasFile(j)' => canon[j] \in Finished]_vars
  BY KeepsFilesStep DEF KeepsFiles
<1>2. QED
  BY <1>1, Invariance, PTL DEF Spec, OnlyFinishedVanish

-----------------------------------------------------------------------------
(* The ingest queue implements JobLedger: seen through LedgerOf, every     *)
(* step of the files, the channel, the workers and the scan moves one job  *)
(* in the ledger, or none; only a crash moves several.                     *)

\* What LedgerOf looks at.
Running(j) == \E w \in Workers : worker[w].job = j /\ worker[w].pc \in RunningPCs
Writing(j) == sub[j] = "writing"
Flushing(j) == rec.pc = "flush" /\ rec.job = j
OnDisk(j) == IF File(j) = "torn" THEN "lost"
             ELSE IF File(j) \in Unfinished THEN "pending" ELSE File(j)

\* At most one of the three holds, so that LedgerOf is this.
View(j) == IF Running(j) THEN "running"
           ELSE IF Writing(j) THEN "none"
           ELSE IF Flushing(j) THEN "pending"
           ELSE OnDisk(j)

Seen == \A j \in Jobs : LedgerOf(j) = View(j)

LEMMA SeenNow == IInv => Seen
<1> SUFFICES ASSUME IInv, NEW j \in Jobs PROVE LedgerOf(j) = View(j)
  BY DEF Seen
<1>1. /\ Running(j) => ~Writing(j) /\ ~Flushing(j)
      /\ Writing(j) => ~Flushing(j)
  BY PCFacts DEF IInv, Exclusive, OneHand, AtSubmit, Running, Writing, Flushing
<1>2. OnDisk(j) = CASE File(j) = "torn" -> "lost"
                    [] File(j) \in Unfinished -> "pending"
                    [] OTHER -> File(j)
  <2>1. ~(File(j) = "torn" /\ File(j) \in Unfinished)
    BY PCFacts
  <2>2. QED
    BY <2>1 DEF OnDisk
<1>3. LedgerOf(j) = CASE Running(j) -> "running"
                      [] Writing(j) -> "none"
                      [] Flushing(j) -> "pending"
                      [] OTHER -> OnDisk(j)
  BY <1>2 DEF LedgerOf, Running, Writing, Flushing
<1>4. QED
  BY <1>1, <1>3 DEF View

LEMMA SeenNext == IInv' => Seen'
BY SeenNow, PTL

-----------------------------------------------------------------------------
(* One job moves, or none.                                                 *)

Still(k) == View(k)' = View(k)

\* Nothing that View looks at changed.
SameView(k) ==
    /\ canon'[k] = canon[k] /\ claim'[k] = claim[k]
    /\ Running(k)' <=> Running(k)
    /\ Writing(k)' <=> Writing(k)
    /\ Flushing(k)' <=> Flushing(k)

LEMMA SameIsStill == ASSUME NEW k, SameView(k) PROVE Still(k)
BY DEF SameView, Still, View, OnDisk, File

\* What the ledger may do when only j's view changes.
LEMMA OneMoves ==
    ASSUME Seen, Seen', NEW j \in Jobs, \A k \in Jobs \ {j} : Still(k),
           \/ Still(j)
           \/ View(j) = "none" /\ View(j)' = "pending"
           \/ View(j) = "pending" /\ View(j)' = "running"
           \/ View(j) = "running" /\ View(j)' \in Finished
           \/ View(j) \in Finished /\ View(j)' = "none"
           \/ View(j) \in {"none", "pending", "running"} /\ View(j)' = "lost"
           \/ View(j) = "running" /\ View(j)' = "pending"
    PROVE  [Ledger!Next]_[i \in Jobs |-> LedgerOf(i)]
<1> DEFINE L == [i \in Jobs |-> LedgerOf(i)]
<1>1. \A k \in Jobs : L[k] = View(k) /\ L'[k] = View(k)'
  BY DEF Seen
<1>2. CASE Still(j)
  BY <1>1, <1>2 DEF Still
<1>3. ASSUME NEW from, NEW to, View(j) \in from, View(j)' \in to
      PROVE  Ledger!Move(j, from, to)
  <2>1. L[j] \in from /\ L'[j] \in to
    BY <1>1, <1>3
  <2>2. L' = [L EXCEPT ![j] = L'[j]]
    BY <1>1 DEF Still
  <2>3. QED
    BY <2>1, <2>2 DEF Ledger!Move
<1>4. CASE View(j) = "none" /\ View(j)' = "pending"
  BY <1>3, <1>4 DEF Ledger!Next, Ledger!Accept
<1>5. CASE View(j) = "pending" /\ View(j)' = "running"
  BY <1>3, <1>5 DEF Ledger!Next, Ledger!Begin
<1>6. CASE View(j) = "running" /\ View(j)' \in Finished
  BY <1>3, <1>6, PCFacts DEF Ledger!Next, Ledger!Finish
<1>7. CASE View(j) \in Finished /\ View(j)' = "none"
  BY <1>3, <1>7, PCFacts DEF Ledger!Next, Ledger!Discard
<1>8. CASE View(j) \in {"none", "pending", "running"} /\ View(j)' = "lost"
  BY <1>3, <1>8 DEF Ledger!Next, Ledger!Mishap
<1>9. CASE View(j) = "running" /\ View(j)' = "pending"
  BY <1>3, <1>9 DEF Ledger!Next, Ledger!Mishap
<1>10. QED
  BY <1>2, <1>4, <1>5, <1>6, <1>7, <1>8, <1>9

LEMMA NoneMoves ==
    ASSUME Seen, Seen', \A k \in Jobs : SameView(k)
    PROVE  [Ledger!Next]_[i \in Jobs |-> LedgerOf(i)]
<1>1. \A k \in Jobs : LedgerOf(k)' = LedgerOf(k)
  BY SameIsStill DEF Still, Seen
<1>2. QED
  BY <1>1

LEMMA RunningSame ==
    ASSUME UNCHANGED worker, NEW k
    PROVE  Running(k)' <=> Running(k)
BY DEF Running

\* Submit.
LEMMA LedgerSubmit ==
    ASSUME IInv, Seen, Seen', NEW j \in Jobs,
           \/ SubmitTooLarge(j) \/ SubmitOpen(j) \/ SubmitFlush(j)
           \/ SubmitWriteFails(j) \/ SubmitSend(j) \/ SweepFind(j)
    PROVE  [Ledger!Next]_[i \in Jobs |-> LedgerOf(i)]
<1> USE PCFacts DEF IInv, disk
<1>1. UNCHANGED <<claim, rec, worker>>
  BY DEF SubmitTooLarge, SubmitOpen, SubmitFlush, SubmitWriteFails, SubmitSend, SweepFind
<1>2. \A k \in Jobs \ {j} : canon'[k] = canon[k] /\ sub'[k] = sub[k]
  BY DEF SubmitTooLarge, SubmitOpen, SubmitFlush, SubmitWriteFails, SubmitSend, SweepFind, TypeOK
<1>3. ASSUME NEW k \in Jobs \ {j} PROVE SameView(k)
  BY <1>1, <1>2, RunningSame DEF SameView, Writing, Flushing
<1>4. \A k \in Jobs \ {j} : Still(k)
  BY <1>3, SameIsStill
<1>5. FilesOf(j) /\ OneHand(j)
  BY DEF Files, Exclusive
<1>6. AtSubmit(j) => ~Running(j) /\ ~Running(j)' /\ ~Flushing(j) /\ ~Flushing(j)'
  BY <1>1, <1>5 DEF OneHand, Running, Flushing
<1>7. CASE UNCHANGED canon /\ sub[j] # "writing" /\ sub'[j] # "writing"
  <2>1. SameView(j)
    BY <1>1, <1>7, RunningSame DEF SameView, Writing, Flushing
  <2>2. QED
    BY <1>3, <2>1, NoneMoves
<1>8. CASE SubmitTooLarge(j) \/ SubmitSend(j) \/ SweepFind(j)
  <2>1. UNCHANGED canon /\ ((sub[j] # "writing" /\ sub'[j] # "writing") \/ sub' = sub)
    BY <1>8 DEF SubmitTooLarge, SubmitSend, SweepFind, TypeOK
  <2>2. CASE sub' = sub
    <3>1. SameView(j)
      BY <1>1, <2>1, <2>2, RunningSame DEF SameView, Writing, Flushing
    <3>2. QED
      BY <1>3, <3>1, NoneMoves
  <2>3. QED
    BY <1>7, <2>1, <2>2
\* Until its file is filled a job is not in the ledger.
<1>9. CASE SubmitOpen(j)
  <2>1. sub[j] = "new" /\ sub'[j] = "writing" /\ AtSubmit(j)
    BY <1>9 DEF SubmitOpen, AtSubmit, TypeOK
  <2>2. canon[j] = "none" /\ claim[j] = "none"
    BY <1>5, <2>1 DEF FilesOf
  <2>3. View(j) = "none" /\ View(j)' = "none"
    BY <1>6, <2>1, <2>2 DEF View, Writing, OnDisk, File
  <2>4. QED
    BY <1>4, <2>3, OneMoves DEF Still
<1>10. CASE SubmitFlush(j)
  <2>1. /\ sub[j] = "writing" /\ sub'[j] = "sending" /\ AtSubmit(j)
        /\ canon'[j] = "pending"
    BY <1>10 DEF SubmitFlush, AtSubmit, TypeOK
  <2>2. View(j) = "none" /\ View(j)' = "pending"
    BY <1>6, <2>1 DEF View, Writing, OnDisk, File
  <2>3. QED
    BY <1>4, <2>2, OneMoves
<1>11. CASE SubmitWriteFails(j)
  <2>1. UNCHANGED canon /\ sub[j] \in {"new", "writing"} /\ sub'[j] = "refused"
    BY <1>11 DEF SubmitWriteFails, TypeOK
  <2>2. CASE sub[j] = "new"
    BY <1>7, <2>1, <2>2
  <2>3. CASE sub[j] = "writing"
    <3>1. canon'[j] = "torn" /\ AtSubmit(j)
      BY <1>5, <2>1, <2>3 DEF FilesOf, AtSubmit
    <3>2. View(j) = "none" /\ View(j)' = "lost"
      BY <1>6, <2>1, <2>3, <3>1 DEF View, Writing, OnDisk, File
    <3>3. QED
      BY <1>4, <3>2, OneMoves
  <2>4. QED
    BY <2>1, <2>2, <2>3
<1>12. QED
  BY <1>8, <1>9, <1>10, <1>11

\* The recovery scan.
LEMMA LedgerScan ==
    ASSUME IInv, Seen, Seen', RecStep
    PROVE  [Ledger!Next]_[i \in Jobs |-> LedgerOf(i)]
<1> USE PCFacts DEF IInv, disk
<1>1. UNCHANGED <<sub, worker>>
  BY DEF RecStep, RecList, RecYoung, RecUnreadable, RecFinished, RecTake, RecMove, RecOpen,
         RecFlush, RecWriteFails, RecSend, RecDone
<1>2. \A j \in Jobs : FilesOf(j) /\ OneHand(j)
  BY DEF Files, Exclusive
<1>3. \A j \in Jobs : (Writing(j)' <=> Writing(j)) /\ (Running(j)' <=> Running(j))
  BY <1>1, RunningSame DEF Writing
<1>4. CASE UNCHANGED <<canon, claim>> /\ rec.pc # "flush" /\ rec'.pc # "flush"
  <2>1. ASSUME NEW k \in Jobs PROVE SameView(k)
    BY <1>3, <1>4 DEF SameView, Flushing
  <2>2. QED
    BY <2>1, NoneMoves
<1>5. CASE RecList \/ RecSend \/ RecDone
  <2>1. UNCHANGED <<canon, claim>> /\ rec.pc \in {"list", "send", "scan"}
    BY <1>5 DEF RecList, RecSend, RecDone
  <2>2. \/ rec'.pc \in {"scan", "done"}
        \/ rec' = [rec EXCEPT !.pc = "done"]
    BY <1>5, RecFields DEF RecList, RecSend, RecDone, TypeOK
  <2>3. rec'.pc # "flush"
    BY <2>2, RecFields DEF TypeOK
  <2>4. QED
    BY <1>4, <2>1, <2>3
<1>6. ASSUME NEW e \in rec.todo, RecYoung(e) \/ RecUnreadable(e) \/ RecTake(e)
      PROVE  [Ledger!Next]_[i \in Jobs |-> LedgerOf(i)]
  <2>1. /\ UNCHANGED <<canon, claim>> /\ rec.pc = "scan"
        /\ rec'.pc \in {"scan", "write", "move"}
    BY <1>6, RecFields DEF RecYoung, RecUnreadable, RecTake, TypeOK
  <2>2. QED
    BY <1>4, <2>1
\* A rename changes nothing: the job has one file before and after.
<1>7. ASSUME NEW j \in Jobs, canon[j] = "none", claim[j] # "none",
             canon' = [canon EXCEPT ![j] = claim[j]],
             claim' = [claim EXCEPT ![j] = "none"],
             rec.pc # "flush" /\ rec'.pc # "flush"
      PROVE  [Ledger!Next]_[i \in Jobs |-> LedgerOf(i)]
  <2>1. \A k \in Jobs \ {j} : canon'[k] = canon[k] /\ claim'[k] = claim[k]
    BY <1>7 DEF TypeOK
  <2>2. ASSUME NEW k \in Jobs \ {j} PROVE SameView(k)
    BY <1>3, <1>7, <2>1 DEF SameView, Flushing
  <2>3. File(j)' = File(j)
    BY <1>7 DEF File, TypeOK
  <2>4. Still(j)
    BY <1>3, <1>7, <2>3 DEF Still, View, Flushing, OnDisk
  <2>5. QED
    BY <2>2, <2>4, SameIsStill, OneMoves
<1>8. ASSUME NEW e \in rec.todo, RecFinished(e)
      PROVE  [Ledger!Next]_[i \in Jobs |-> LedgerOf(i)]
  <2>1. rec.pc = "scan" /\ rec'.pc = "scan"
    BY <1>8, RecFields DEF RecFinished, TypeOK
  <2>2. CASE UNCHANGED <<canon, claim>>
    BY <1>4, <2>1, <2>2
  <2>3. CASE /\ e[2] = "claim" /\ claim[e[1]] \in Finished
             /\ canon' = [canon EXCEPT ![e[1]] = claim[e[1]]]
             /\ claim' = [claim EXCEPT ![e[1]] = "none"]
    <3>1. e[1] \in Jobs /\ canon[e[1]] = "none" /\ claim[e[1]] # "none"
      BY <1>2, <2>3, EntryFacts DEF FilesOf, TypeOK
    <3>2. QED
      BY <1>7, <2>1, <2>3, <3>1
  <2>4. QED
    BY <1>8, <2>2, <2>3 DEF RecFinished
<1>9. CASE RecMove
  <2>1. rec.pc = "move" /\ rec'.pc # "flush"
    BY <1>9, RecFields DEF RecMove, TypeOK
  <2>2. PICK j \in Jobs : j = rec.job
    BY <2>1, HoldsJob
  <2>3. canon[j] = "none" /\ claim[j] # "none"
    BY <1>2, <2>1, <2>2 DEF FilesOf
  <2>4. CASE UNCHANGED <<canon, claim>>
    BY <1>4, <2>1, <2>4
  <2>5. QED
    BY <1>7, <1>9, <2>1, <2>2, <2>3, <2>4 DEF RecMove
\* The rewrite of an entry.
<1>10. CASE RecOpen \/ RecFlush \/ RecWriteFails
  <2>1. rec.pc \in {"write", "flush"} /\ UNCHANGED claim
    BY <1>10 DEF RecOpen, RecFlush, RecWriteFails
  <2>2. PICK j \in Jobs : j = rec.job
    BY <2>1, HoldsJob
  <2>3. /\ ~Running(j) /\ ~Running(j)' /\ ~Writing(j) /\ ~Writing(j)'
        /\ rec.pc = "write" => canon[j] \in Unfinished
        /\ rec.pc = "flush" => canon[j] = "torn"
    <3>1. OneHand(j) /\ FilesOf(j)
      BY <1>2
    <3>2. ~Running(j) /\ ~Writing(j)
      BY <2>2, <3>1 DEF OneHand, Running, Writing, AtSubmit
    <3>3. QED
      BY <1>3, <2>2, <3>1, <3>2 DEF FilesOf
  <2>4. \A k \in Jobs \ {j} : canon'[k] = canon[k] /\ rec'.job # k
    <3>1. \/ canon' = canon
          \/ \E s : canon' = [canon EXCEPT ![j] = s]
      BY <1>10, <2>2 DEF RecOpen, RecFlush, RecWriteFails
    <3>2. rec' = NextEntry \/ \E pc : rec' = [rec EXCEPT !.pc = pc]
      BY <1>10 DEF RecOpen, RecFlush, RecWriteFails
    <3>3. rec'.job \in {j, NoJob}
      BY <2>2, <3>2, RecFields DEF TypeOK
    <3>4. TAKE k \in Jobs \ {j}
    <3>5. canon'[k] = canon[k]
      BY <3>1 DEF TypeOK
    <3>6. rec'.job # k
      BY <3>3, JobQueueAssumption
    <3>7. QED
      BY <3>5, <3>6
  <2>5. ASSUME NEW k \in Jobs \ {j} PROVE Still(k)
    BY <1>3, <2>1, <2>2, <2>4, SameIsStill DEF SameView, Flushing
  <2>6. View(j) = "pending"
    BY <2>1, <2>2, <2>3 DEF View, Flushing, OnDisk, File
  <2>7. CASE RecOpen
    <3>1. Flushing(j)'
      BY <2>2, <2>7, RecFields DEF RecOpen, Flushing, TypeOK
    <3>2. View(j)' = "pending"
      BY <2>3, <3>1 DEF View
    <3>3. QED
      BY <2>5, <2>6, <3>2, OneMoves DEF Still
  <2>8. CASE RecFlush
    <3>1. canon'[j] = "pending" /\ ~Flushing(j)'
      BY <2>2, <2>8, RecFields DEF RecFlush, Flushing, TypeOK
    <3>2. View(j)' = "pending"
      BY <2>3, <3>1 DEF View, OnDisk, File
    <3>3. QED
      BY <2>5, <2>6, <3>2, OneMoves DEF Still
  <2>9. CASE RecWriteFails
    <3>1. canon'[j] = canon[j] /\ ~Flushing(j)'
      BY <2>9, RecFields DEF RecWriteFails, Flushing, TypeOK
    <3>2. View(j)' \in {"pending", "lost"}
      BY <2>1, <2>3, <3>1 DEF View, OnDisk, File
    <3>3. QED
      BY <2>5, <2>6, <3>2, OneMoves DEF Still
  <2>10. QED
    BY <1>10, <2>7, <2>8, <2>9
<1>11. QED
  BY <1>5, <1>6, <1>8, <1>9, <1>10 DEF RecStep

\* The workers.
LEMMA LedgerWorker ==
    ASSUME IInv, Seen, Seen', NEW w \in Workers, WorkerStep(w)
    PROVE  [Ledger!Next]_[i \in Jobs |-> LedgerOf(i)]
<1> USE PCFacts DEF IInv, disk
<1>1. UNCHANGED <<sub, rec>>
  BY DEF WorkerStep, WorkerExit, WorkerTake, WorkerLoad, WorkerClaim, WorkerMarkOpen,
         WorkerMarkFlush, WorkerMarkFails, BeginIngest, WorkerIngest, WorkerFinalOpen,
         WorkerFinalFlush, WorkerFinalFails, WorkerPublish
<1>2. \A j \in Jobs : (Writing(j)' <=> Writing(j)) /\ (Flushing(j)' <=> Flushing(j))
  BY <1>1 DEF Writing, Flushing
<1>3. CASE WorkerExit(w) \/ WorkerTake(w)
  <2>1. /\ UNCHANGED <<canon, claim>>
        /\ \A v \in Workers : \/ worker'[v] = worker[v]
                              \/ /\ worker'[v].pc \in {"off", "load"}
                                 /\ worker[v].pc = "idle"
    BY <1>3 DEF WorkerExit, WorkerTake, OffWorker, TypeOK
  <2>2. ASSUME NEW k \in Jobs PROVE SameView(k)
    BY <1>2, <2>1 DEF SameView, Running
  <2>3. QED
    BY <2>2, NoneMoves
<1>4. CASE ~(WorkerExit(w) \/ WorkerTake(w))
  <2>1. worker[w].pc \notin {"off", "idle"}
    BY <1>4 DEF WorkerStep, WorkerLoad, WorkerClaim, WorkerMarkOpen,
         WorkerMarkFlush, WorkerMarkFails, BeginIngest, WorkerIngest, WorkerFinalOpen,
         WorkerFinalFlush, WorkerFinalFails, WorkerPublish
  <2>2. PICK j \in Jobs : j = worker[w].job
    BY <2>1, HoldsJob
  <2>3. FilesOf(j) /\ ClaimOf(j) /\ OneHand(j)
    BY DEF Files, Claims, Exclusive
  <2>4. ~Writing(j) /\ ~Flushing(j) /\ ~Writing(j)' /\ ~Flushing(j)'
    BY <1>2, <2>2, <2>3 DEF OneHand, AtSubmit, Writing, Flushing
  <2>5. Running(j) <=> worker[w].pc \in RunningPCs
    BY <2>2, <2>3 DEF OneHand, Running
  <2>6. ASSUME NEW pc, \/ /\ pc \in WorkerPCs
                          /\ \A v \in Workers :
                                /\ worker'[v].pc = IF v = w THEN pc ELSE worker[v].pc
                                /\ worker'[v].job = worker[v].job
                       \/ pc = "idle" /\ Release(w),
               \A k \in Jobs \ {j} : canon'[k] = canon[k] /\ claim'[k] = claim[k]
        PROVE  /\ Running(j)' <=> pc \in RunningPCs
               /\ \A k \in Jobs \ {j} : Still(k)
    <3>1. \A v \in Workers : /\ worker'[v].pc = IF v = w THEN pc ELSE worker[v].pc
                             /\ v # w => worker'[v].job = worker[v].job
                             /\ worker'[w].job = j \/ (worker'[w].job = NoJob /\ pc = "idle")
      BY <2>2, <2>6, ReleaseFields DEF TypeOK
    <3>2. \A v \in Workers : worker[v].job = j => v = w
      BY <2>2, <2>3 DEF OneHand
    <3>3. Running(j)' <=> pc \in RunningPCs
      BY <3>1, <3>2 DEF Running
    <3>4. ASSUME NEW k \in Jobs \ {j} PROVE SameView(k)
      BY <1>2, <2>2, <2>6, <3>1 DEF SameView, Running
    <3>5. QED
      BY <3>3, <3>4, SameIsStill
  <2>7. ASSUME NEW pc \in WorkerPCs, Goto(w, pc)
        PROVE  \A v \in Workers : /\ worker'[v].pc = IF v = w THEN pc ELSE worker[v].pc
                                  /\ worker'[v].job = worker[v].job
    BY <2>7, GotoFields DEF TypeOK
  <2>8. {"load", "claim", "mark", "marking", "ingest", "final", "finalizing", "publish"}
            \subseteq WorkerPCs
    BY DEF WorkerPCs
  <2>9. CASE WorkerLoad(w)
    <3>1. PICK pc \in {"claim", "idle"} : IF pc = "idle" THEN Release(w) ELSE Goto(w, pc)
      BY <2>9 DEF WorkerLoad
    <3>2. UNCHANGED <<canon, claim>> /\ worker[w].pc = "load"
      BY <2>9 DEF WorkerLoad
    <3>3. ~Running(j)' /\ \A k \in Jobs \ {j} : Still(k)
      BY <2>6, <2>7, <2>8, <3>1, <3>2
    <3>4. Still(j)
      BY <2>4, <2>5, <3>2, <3>3 DEF Still, View, OnDisk, File
    <3>5. QED
      BY <3>3, <3>4, OneMoves
  <2>10. CASE WorkerClaim(w)
    <3>1. worker[w].pc = "claim" /\ canon[j] = "pending"
      BY <2>2, <2>3, <2>10 DEF WorkerClaim, FilesOf
    <3>2. View(j) = "pending"
      BY <2>4, <2>5, <3>1 DEF View, OnDisk, File
    <3>3. CASE Release(w) /\ UNCHANGED <<canon, claim>>
      <4>1. ~Running(j)' /\ \A k \in Jobs \ {j} : Still(k)
        BY <2>6, <3>3
      <4>2. Still(j)
        BY <2>4, <2>5, <3>1, <3>3, <4>1 DEF Still, View, OnDisk, File
      <4>3. QED
        BY <4>1, <4>2, OneMoves
    <3>4. CASE /\ Goto(w, "mark")
               /\ claim' = [claim EXCEPT ![j] = canon[j]]
               /\ canon' = [canon EXCEPT ![j] = "none"]
      <4>1. \A k \in Jobs \ {j} : canon'[k] = canon[k] /\ claim'[k] = claim[k]
        BY <3>4 DEF TypeOK
      <4>2. Running(j)' /\ \A k \in Jobs \ {j} : Still(k)
        BY <2>6, <2>7, <2>8, <3>4, <4>1
      <4>3. View(j)' = "running"
        BY <4>2 DEF View
      <4>4. QED
        BY <3>2, <4>2, <4>3, OneMoves
    <3>5. QED
      BY <2>2, <2>10, <3>3, <3>4 DEF WorkerClaim
\* Between the claim and the last write the job runs,
  <2>11. CASE \/ WorkerMarkOpen(w) \/ WorkerMarkFlush(w) \/ WorkerMarkFails(w)
              \/ WorkerIngest(w) \/ WorkerFinalOpen(w)
    <3>1. PICK pc \in RunningPCs :
            \A v \in Workers : /\ worker'[v].pc = IF v = w THEN pc ELSE worker[v].pc
                               /\ worker'[v].job = worker[v].job
      <4>1. CASE WorkerIngest(w)
        <5>1. \A v \in Workers : /\ worker'[v].pc = IF v = w THEN "final" ELSE worker[v].pc
                                 /\ worker'[v].job = worker[v].job
          BY <4>1 DEF WorkerIngest, TypeOK, WorkerState
        <5>2. QED
          BY <5>1
      <4>2. CASE ~WorkerIngest(w)
        <5>1. \E pc \in RunningPCs : Goto(w, pc)
          BY <2>11, <4>2 DEF WorkerMarkOpen, WorkerMarkFlush, WorkerMarkFails, BeginIngest,
                             WorkerFinalOpen
        <5>2. QED
          BY <2>7, <2>8, <5>1
      <4>3. QED
        BY <4>1, <4>2
    <3>2. /\ UNCHANGED canon
          /\ \A k \in Jobs \ {j} : claim'[k] = claim[k]
          /\ worker[w].pc \in RunningPCs
      BY <2>2, <2>11 DEF WorkerMarkOpen, WorkerMarkFlush, WorkerMarkFails, BeginIngest,
                         WorkerIngest, WorkerFinalOpen, TypeOK
    <3>3. Running(j)' /\ \A k \in Jobs \ {j} : Still(k)
      BY <2>6, <2>8, <3>1, <3>2
    <3>4. Still(j)
      BY <2>5, <3>2, <3>3 DEF Still, View
    <3>5. QED
      BY <3>3, <3>4, OneMoves
\* which is when its outcome is on record, if it ever is.
  <2>12. CASE WorkerFinalFlush(w) \/ WorkerFinalFails(w)
    <3>1. /\ Goto(w, "publish") /\ UNCHANGED canon
          /\ worker[w].pc \in {"final", "finalizing"}
          /\ \/ claim' = [claim EXCEPT ![j] = worker[w].out]
             \/ UNCHANGED claim
      BY <2>2, <2>12 DEF WorkerFinalFlush, WorkerFinalFails
    <3>2. ~Running(j)' /\ \A k \in Jobs \ {j} : Still(k)
      BY <2>6, <2>7, <2>8, <3>1 DEF TypeOK
    <3>3. claim'[j] \in Finished \cup Unfinished \cup {"torn"}
      BY <2>2, <2>3, <3>1 DEF ClaimOf, Shape, TypeOK
    <3>4. canon'[j] = "none"
      BY <2>2, <2>3, <3>1 DEF FilesOf
    <3>5. View(j) = "running"
      BY <2>5, <3>1 DEF View
    <3>6. View(j)' \in Finished \cup {"pending", "lost"}
      BY <2>4, <3>2, <3>3, <3>4 DEF View, OnDisk, File
    <3>7. QED
      BY <3>2, <3>5, <3>6, OneMoves
  <2>13. CASE WorkerPublish(w)
    <3>1. /\ Release(w) /\ worker[w].pc = "publish"
          /\ \/ UNCHANGED <<canon, claim>>
             \/ /\ canon' = [canon EXCEPT ![j] = claim[j]]
                /\ claim' = [claim EXCEPT ![j] = "none"]
      BY <2>2, <2>13 DEF WorkerPublish
    <3>2. ~Running(j)' /\ \A k \in Jobs \ {j} : Still(k)
      <4>1. \A k \in Jobs \ {j} : canon'[k] = canon[k] /\ claim'[k] = claim[k]
        BY <3>1 DEF TypeOK
      <4>2. QED
        BY <2>6, <3>1, <4>1
    <3>3. canon[j] = "none" /\ claim[j] # "none"
      BY <2>2, <2>3, <3>1 DEF FilesOf
    <3>4. File(j)' = File(j)
      BY <3>1, <3>3 DEF File, TypeOK
    <3>5. Still(j)
      BY <2>4, <2>5, <3>1, <3>2, <3>4 DEF Still, View, OnDisk
    <3>6. QED
      BY <3>2, <3>5, OneMoves
  <2>14. QED
    BY <1>4, <2>9, <2>10, <2>11, <2>12, <2>13 DEF WorkerStep
<1>5. QED
  BY <1>3, <1>4

\* The sweeper.
LEMMA LedgerSweep ==
    ASSUME IInv, Seen, Seen', SweepRemove
    PROVE  [Ledger!Next]_[i \in Jobs |-> LedgerOf(i)]
<1> USE PCFacts DEF IInv
<1>1. PICK j \in Jobs : j = victim /\ canon[j] \in Finished /\ rec.pc = "done"
  BY DEF SweepRemove, Files, FilesOf, TypeOK
<1>2. /\ UNCHANGED <<claim, worker, sub, rec>>
      /\ \A k \in Jobs \ {j} : canon'[k] = canon[k]
      /\ canon'[j] \in {canon[j], "none"}
  BY <1>1 DEF SweepRemove, TypeOK
<1>3. ASSUME NEW k \in Jobs \ {j} PROVE Still(k)
  BY <1>2, RunningSame, SameIsStill DEF SameView, Writing, Flushing
<1>4. FilesOf(j)
  BY DEF Files
<1>5. claim[j] = "none" /\ ~Running(j) /\ ~Writing(j) /\ ~Flushing(j)
  BY <1>1, <1>4 DEF FilesOf, Running, Writing, Flushing
<1>6. ~Running(j)' /\ ~Writing(j)' /\ ~Flushing(j)'
  BY <1>2, <1>5, RunningSame DEF Writing, Flushing
<1>7. View(j) = canon[j] /\ View(j)' \in {canon[j], "none"}
  BY <1>1, <1>2, <1>5, <1>6 DEF View, OnDisk, File
<1>8. QED
  BY <1>1, <1>3, <1>7, OneMoves DEF Still

\* A crash moves every job that was running or being written.
LEMMA LedgerCrash ==
    ASSUME IInv, Seen, Seen', Crash
    PROVE  [Ledger!Next]_[i \in Jobs |-> LedgerOf(i)]
<1> USE PCFacts DEF IInv
<1>1. UNCHANGED <<canon, claim>>
  BY DEF Crash, disk
<1>2. ASSUME NEW j \in Jobs
      PROVE  View(j)' \in Ledger!AfterCrash(View(j)) /\ View(j)' \in Ledger!States
  <2>1. ~Running(j)' /\ ~Writing(j)' /\ ~Flushing(j)'
    BY DEF Crash, OffWorker, OffRec, Running, Writing, Flushing, TypeOK
  <2>2. View(j)' = OnDisk(j)
    BY <1>1, <2>1 DEF View, OnDisk, File
  <2>3. FilesOf(j) /\ ClaimOf(j)
    BY DEF Files, Claims
  <2>4. OnDisk(j) \in {"none", "lost", "pending", "completed", "failed"}
    BY DEF OnDisk, File, TypeOK, FileStates
  <2>5. CASE Running(j)
    <3>1. claim[j] \in Unfinished \cup {"torn"} /\ canon[j] = "none"
      BY <2>3, <2>5 DEF Running, ClaimOf, FilesOf
    <3>2. OnDisk(j) \in {"pending", "lost"} /\ View(j) = "running"
      BY <2>5, <3>1 DEF OnDisk, File, View
    <3>3. QED
      BY <2>2, <3>2 DEF Ledger!AfterCrash, Ledger!States
  <2>6. CASE ~Running(j) /\ (Writing(j) \/ Flushing(j))
    <3>1. canon[j] = "torn"
      BY <2>3, <2>6 DEF Writing, Flushing, FilesOf
    <3>2. OnDisk(j) = "lost" /\ View(j) \in {"none", "pending"}
      BY <2>6, <3>1 DEF OnDisk, File, View
    <3>3. QED
      BY <2>2, <3>2 DEF Ledger!AfterCrash, Ledger!States
  <2>7. CASE ~Running(j) /\ ~Writing(j) /\ ~Flushing(j)
    <3>1. View(j) = OnDisk(j)
      BY <2>7 DEF View
    <3>2. QED
      BY <2>2, <2>4, <3>1 DEF Ledger!AfterCrash, Ledger!States
  <2>8. QED
    BY <2>5, <2>6, <2>7
<1>3. \A j \in Jobs : LedgerOf(j) = View(j) /\ LedgerOf(j)' = View(j)'
  BY DEF Seen
<1>4. Ledger!Crash
  BY <1>2, <1>3 DEF Ledger!Crash
<1>5. QED
  BY <1>4 DEF Ledger!Next

LEMMA LedgerStep ==
    ASSUME IInv, Seen, Seen', [Next]_vars
    PROVE  [Ledger!Next]_[i \in Jobs |-> LedgerOf(i)]
<1>1. CASE Start
  <2>1. /\ UNCHANGED <<canon, claim, sub>>
        /\ rec.pc = "off" /\ rec'.pc = "list"
        /\ \A w \in Workers : worker[w].job = NoJob /\ worker'[w].job = NoJob
    BY <1>1 DEF Start, disk, IInv, Shape, IdleWorker
  <2>2. ASSUME NEW k \in Jobs PROVE SameView(k)
    BY <2>1, PCFacts DEF SameView, Running, Writing, Flushing
  <2>3. QED
    BY <2>2, NoneMoves
<1>2. CASE Stop \/ UNCHANGED vars
  <2>1. UNCHANGED <<canon, claim, sub, rec, worker>>
    BY <1>2 DEF Stop, disk, vars
  <2>2. ASSUME NEW k \in Jobs PROVE SameView(k)
    BY <2>1, RunningSame DEF SameView, Writing, Flushing
  <2>3. QED
    BY <2>2, NoneMoves
<1>3. QED
  BY <1>1, <1>2, LedgerSubmit, LedgerScan, LedgerWorker, LedgerSweep, LedgerCrash DEF Next

LEMMA LedgerInit == Init => Ledger!Init
<1> SUFFICES ASSUME Init PROVE Ledger!Init
  OBVIOUS
<1>1. Seen
  BY InitInv, SeenNow
<1>2. ASSUME NEW j \in Jobs PROVE View(j) = "none"
  BY PCFacts DEF Init, OffWorker, OffRec, View, Running, Writing, Flushing, OnDisk, File
<1>3. QED
  BY <1>1, <1>2 DEF Ledger!Init, Seen

\* For any jobs, workers, crashes and faults: every behaviour of the queue is
\* one of the ledger.  A job is reported completed or failed only after an
\* ingest of it returned, no finished job is ever begun again, and what a
\* crash interrupts is pending afterwards unless its file was being written.
THEOREM QueueImplementsLedger == Spec => ImplementsLedger
<1>1. IInv /\ IInv' /\ [Next]_vars => [Ledger!Next]_[j \in Jobs |-> LedgerOf(j)]
  BY SeenNow, SeenNext, LedgerStep
<1>2. Spec => Ledger!Init /\ [][Ledger!Next]_[j \in Jobs |-> LedgerOf(j)]
  BY <1>1, LedgerInit, Invariance, PTL DEF Spec
<1>3. QED
  BY <1>2, PTL DEF ImplementsLedger, Ledger!Spec

=============================================================================
