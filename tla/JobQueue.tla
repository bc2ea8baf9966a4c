------------------------------ MODULE JobQueue ------------------------------
(***************************************************************************)
(* The persistent ingest queue of src/internal/web/jobs/jobs.go: job files *)
(* on disk, the in-memory channel, the worker pool, the recovery scan that *)
(* Start runs, the cleanup sweeper, Submit callers, and process crashes.   *)
(*                                                                         *)
(* A job is one call of Submit (its id is a fresh UUID).  A file is        *)
(* abstracted to the status it decodes to; "torn" is a file that           *)
(* os.WriteFile has truncated and not yet filled, which does not decode.   *)
(* Modification times are not kept: where the code compares one with a     *)
(* threshold, either outcome is possible unless QuickRestart rules it out. *)
(***************************************************************************)
EXTENDS Naturals, Sequences, FiniteSets

CONSTANTS
    Jobs,           \* the Submit calls made over the life of the directory
    Workers,        \* the goroutines one Start call spawns
    NoJob,          \* "no job": an idle worker, an idle sweeper
    Oversized,      \* the jobs whose content exceeds maxBytes
    IngestCanFail,  \* IngestDocument may fail of its own accord
    QuickRestart,   \* a restart may come within recoverStaleThreshold
    MaxCrashes,     \* bound: process exits, whatever their cause
    MaxFaults       \* bound: file system calls that return an error

ASSUME JobQueueAssumption ==
    /\ NoJob \notin Jobs
    /\ IsFiniteSet(Workers)
    /\ Workers # {}
    /\ Oversized \subseteq Jobs
    /\ IngestCanFail \in BOOLEAN
    /\ QuickRestart \in BOOLEAN
    /\ MaxCrashes \in Nat
    /\ MaxFaults \in Nat

VARIABLES
    canon,    \* canon[j]: the file <j>.json
    claim,    \* claim[j]: the file <j>.processing.json
    queue,    \* the buffered channel Queue.pending
    stopped,  \* Queue.stopped is closed and workerCtx cancelled
    up,       \* a process runs and has called New and Start
    worker,   \* the goroutines running worker/processOne
    rec,      \* the recovery scan of the current Start call
    victim,   \* the job RunCleanup has found expired and is about to remove
    sub,      \* sub[j]: how far the Submit call of j is
    runs,     \* IngestDocument calls for j in this process      (history)
    skipped,  \* claims this process's recovery took to be live  (history)
    crashes,
    faults

disk == <<canon, claim>>
history == <<runs, skipped>>
vars == <<canon, claim, queue, stopped, up, worker, rec, victim, sub,
          runs, skipped, crashes, faults>>

-----------------------------------------------------------------------------
Unfinished == {"pending", "processing"}
Finished == {"completed", "failed"}
Statuses == Unfinished \cup Finished
FileStates == Statuses \cup {"none", "torn"}

Cap == Cardinality(Workers)

\* The pcs of processOne, in order.  From Claimed on, the worker has renamed
\* the job's file to .processing.json and not yet renamed it back.
Unclaimed == {"load", "claim"}
BeforeIngest == Unclaimed \cup {"mark", "marking"}
AfterIngest == {"final", "finalizing", "publish"}
Claimed == {"mark", "marking", "ingest"} \cup AfterIngest
WorkerPCs == {"off", "idle"} \cup Unclaimed \cup Claimed

WorkerState == [pc : WorkerPCs, job : Jobs \cup {NoJob},
                out : Finished \cup {"none"}]
OffWorker == [pc |-> "off", job |-> NoJob, out |-> "none"]
IdleWorker == [pc |-> "idle", job |-> NoJob, out |-> "none"]

Entries == Jobs \X {"canon", "claim"}
RecPCs == {"off", "list", "scan", "move", "write", "flush", "send", "done"}
RecState == [pc : RecPCs, todo : SUBSET Entries, job : Jobs \cup {NoJob}]
OffRec == [pc |-> "off", todo |-> {}, job |-> NoJob]

InSubmit == {"writing", "sending"}
SubmitPCs == InSubmit \cup {"new", "accepted", "refused", "tooLarge", "lost"}

TypeOK ==
    /\ canon \in [Jobs -> FileStates]
    /\ claim \in [Jobs -> FileStates]
    /\ queue \in Seq(Jobs)
    /\ Len(queue) <= Cap
    /\ stopped \in BOOLEAN
    /\ up \in BOOLEAN
    /\ worker \in [Workers -> WorkerState]
    /\ rec \in RecState
    /\ victim \in Jobs \cup {NoJob}
    /\ sub \in [Jobs -> SubmitPCs]
    /\ runs \in [Jobs -> Nat]
    /\ skipped \subseteq Jobs
    /\ crashes \in 0..MaxCrashes
    /\ faults \in 0..MaxFaults

Init ==
    /\ canon = [j \in Jobs |-> "none"]
    /\ claim = [j \in Jobs |-> "none"]
    /\ queue = <<>>
    /\ stopped = FALSE
    /\ up = FALSE
    /\ worker = [w \in Workers |-> OffWorker]
    /\ rec = OffRec
    /\ victim = NoJob
    /\ sub = [j \in Jobs |-> "new"]
    /\ runs = [j \in Jobs |-> 0]
    /\ skipped = {}
    /\ crashes = 0
    /\ faults = 0

-----------------------------------------------------------------------------
\* A read of a file fails when it is absent or does not decode.
Readable(f) == f \in Statuses

\* A file system call returns an error; the model allows MaxFaults of them.
Fault ==
    /\ faults < MaxFaults
    /\ faults' = faults + 1

HasRoom_Inclusive == Len(queue) <= Cap
HasRoom == Len(queue) < Cap

----------------------------------------------------------------------------
(* Submit.  The server's routes exist only once the first Start returned.  *)

Serving_AsyncRecovery == up
Serving == up /\ rec.pc = "done"

SubmitTooLarge(j) ==
    /\ Serving
    /\ sub[j] = "new"
    /\ j \in Oversized
    /\ sub' = [sub EXCEPT ![j] = "tooLarge"]
    /\ UNCHANGED <<disk, queue, stopped, up, worker, rec, victim,
                   history, crashes, faults>>

SubmitOpen(j) ==
    /\ Serving
    /\ sub[j] = "new"
    /\ j \notin Oversized
    /\ sub' = [sub EXCEPT ![j] = "writing"]
    /\ canon' = [canon EXCEPT ![j] = "torn"]
    /\ UNCHANGED <<claim, queue, stopped, up, worker, rec, victim,
                   history, crashes, faults>>

SubmitFlush(j) ==
    /\ sub[j] = "writing"
    /\ sub' = [sub EXCEPT ![j] = "sending"]
    /\ canon' = [canon EXCEPT ![j] = "pending"]
    /\ UNCHANGED <<claim, queue, stopped, up, worker, rec, victim,
                   history, crashes, faults>>

\* q.write fails, when it opens the file or once it has truncated it: Submit
\* returns the error and what is on disk stays.
SubmitWriteFails(j) ==
    /\ \/ Serving /\ sub[j] = "new" /\ j \notin Oversized
       \/ sub[j] = "writing"
    /\ Fault
    /\ sub' = [sub EXCEPT ![j] = "refused"]
    /\ UNCHANGED <<disk, queue, stopped, up, worker, rec, victim,
                   history, crashes>>

SubmitSend_NoStopCase(j) ==
    /\ sub[j] = "sending"
    /\ HasRoom
    /\ queue' = Append(queue, j)
    /\ sub' = [sub EXCEPT ![j] = "accepted"]
    /\ UNCHANGED <<disk, stopped, up, worker, rec, victim, history,
                   crashes, faults>>

\* The select of Submit: a ready send and a closed stopped channel are
\* chosen between at random.
SubmitSend(j) ==
    /\ sub[j] = "sending"
    /\ \/ /\ HasRoom
          /\ queue' = Append(queue, j)
          /\ sub' = [sub EXCEPT ![j] = "accepted"]
       \/ /\ stopped
          /\ sub' = [sub EXCEPT ![j] = "refused"]
          /\ UNCHANGED queue
    /\ UNCHANGED <<disk, stopped, up, worker, rec, victim, history,
                   crashes, faults>>

SubmitStep(j) == SubmitFlush(j) \/ SubmitSend(j)

----------------------------------------------------------------------------
(* Start, its recovery scan, and Stop.  New and Start are one step: the    *)
(* pool is spawned, then recoverUnfinished runs in the caller's goroutine. *)

Start ==
    /\ ~up
    /\ up' = TRUE
    /\ worker' = [w \in Workers |-> IdleWorker]
    /\ rec' = [pc |-> "list", todo |-> {}, job |-> NoJob]
    /\ UNCHANGED <<disk, queue, stopped, victim, sub, history, crashes,
                   faults>>

Listing == {e \in Entries : \/ e[2] = "canon" /\ canon[e[1]] # "none"
                            \/ e[2] = "claim" /\ claim[e[1]] # "none"}

\* os.ReadDir, once per scan; when it fails the scan is over.
RecList ==
    /\ rec.pc = "list"
    /\ \/ /\ rec' = [pc |-> "scan", todo |-> Listing, job |-> NoJob]
          /\ UNCHANGED faults
       \/ /\ Fault
          /\ rec' = [rec EXCEPT !.pc = "done"]
    /\ UNCHANGED <<disk, queue, stopped, up, worker, victim, sub,
                   history, crashes>>

Dropped(e) == [rec EXCEPT !.todo = @ \ {e}]
NextEntry == [rec EXCEPT !.pc = "scan", !.job = NoJob]

RecYoung_NeverStale(e) ==
    /\ rec.pc = "scan"
    /\ e \in rec.todo
    /\ e[2] = "claim"
    /\ rec' = Dropped(e)
    /\ skipped' = skipped \cup {e[1]}
    /\ UNCHANGED <<disk, queue, stopped, up, worker, victim, sub, runs,
                   crashes, faults>>

\* A .processing.json whose mtime is younger than recoverStaleThreshold.
RecYoung(e) ==
    /\ rec.pc = "scan"
    /\ e \in rec.todo
    /\ e[2] = "claim"
    /\ QuickRestart
    /\ rec' = Dropped(e)
    /\ skipped' = skipped \cup {e[1]}
    /\ UNCHANGED <<disk, queue, stopped, up, worker, victim, sub, runs,
                   crashes, faults>>

\* An entry whose file is gone or does not decode is passed over.
RecUnreadable(e) ==
    /\ rec.pc = "scan"
    /\ e \in rec.todo
    /\ ~Readable(IF e[2] = "claim" THEN claim[e[1]] ELSE canon[e[1]])
    /\ rec' = Dropped(e)
    /\ UNCHANGED <<disk, queue, stopped, up, worker, victim, sub,
                   history, crashes, faults>>

\* A finished job is left alone; a finished .processing.json is renamed, and
\* the outcome of the rename is ignored.
RecFinished(e) ==
    /\ rec.pc = "scan"
    /\ e \in rec.todo
    /\ rec' = Dropped(e)
    /\ \/ /\ e[2] = "canon"
          /\ canon[e[1]] \in Finished
          /\ UNCHANGED <<disk, faults>>
       \/ /\ e[2] = "claim"
          /\ claim[e[1]] \in Finished
          /\ canon' = [canon EXCEPT ![e[1]] = claim[e[1]]]
          /\ claim' = [claim EXCEPT ![e[1]] = "none"]
          /\ UNCHANGED faults
       \/ /\ e[2] = "claim"
          /\ claim[e[1]] \in Finished
          /\ Fault
          /\ UNCHANGED disk
    /\ UNCHANGED <<queue, stopped, up, worker, victim, sub, history,
                   crashes>>

RecTake_PendingOnly(e) ==
    /\ rec.pc = "scan"
    /\ e \in rec.todo
    /\ \/ /\ e[2] = "canon"
          /\ canon[e[1]] \in Unfinished
          /\ rec' = [pc |-> "write", todo |-> rec.todo \ {e}, job |-> e[1]]
       \/ e[2] = "claim" /\ rec' = Dropped(e)
    /\ UNCHANGED <<disk, queue, stopped, up, worker, victim, sub,
                   history, crashes, faults>>

RecTake_Unfiltered(e) ==
    /\ rec.pc = "scan"
    /\ e \in rec.todo
    /\ rec' = [pc |-> IF e[2] = "canon" THEN "write" ELSE "move",
               todo |-> rec.todo \ {e}, job |-> e[1]]
    /\ UNCHANGED <<disk, queue, stopped, up, worker, victim, sub,
                   history, crashes, faults>>

RecTake(e) ==
    /\ rec.pc = "scan"
    /\ e \in rec.todo
    /\ \/ /\ e[2] = "canon"
          /\ canon[e[1]] \in Unfinished
          /\ rec' = [pc |-> "write", todo |-> rec.todo \ {e}, job |-> e[1]]
       \/ /\ e[2] = "claim"
          /\ claim[e[1]] \in Unfinished
          /\ rec' = [pc |-> "move", todo |-> rec.todo \ {e}, job |-> e[1]]
    /\ UNCHANGED <<disk, queue, stopped, up, worker, victim, sub,
                   history, crashes, faults>>

RecMove_Rewrites ==
    /\ rec.pc = "move"
    /\ rec' = [rec EXCEPT !.pc = "write"]
    /\ UNCHANGED <<disk, queue, stopped, up, worker, victim, sub,
                   history, crashes, faults>>

\* The rename of <id>.processing.json to <id>.json; on an error the entry is
\* given up (the server always passes an audit hook).
RecMove ==
    /\ rec.pc = "move"
    /\ \/ /\ canon' = [canon EXCEPT ![rec.job] = claim[rec.job]]
          /\ claim' = [claim EXCEPT ![rec.job] = "none"]
          /\ rec' = [rec EXCEPT !.pc = "write"]
          /\ UNCHANGED faults
       \/ /\ Fault
          /\ rec' = NextEntry
          /\ UNCHANGED disk
    /\ UNCHANGED <<queue, stopped, up, worker, victim, sub, history, crashes>>

RecOpen ==
    /\ rec.pc = "write"
    /\ canon' = [canon EXCEPT ![rec.job] = "torn"]
    /\ rec' = [rec EXCEPT !.pc = "flush"]
    /\ UNCHANGED <<claim, queue, stopped, up, worker, victim, sub,
                   history, crashes, faults>>

RecFlush ==
    /\ rec.pc = "flush"
    /\ canon' = [canon EXCEPT ![rec.job] = "pending"]
    /\ rec' = [rec EXCEPT !.pc = "send"]
    /\ UNCHANGED <<claim, queue, stopped, up, worker, victim, sub,
                   history, crashes, faults>>

RecWriteFails ==
    /\ rec.pc \in {"write", "flush"}
    /\ Fault
    /\ rec' = NextEntry
    /\ UNCHANGED <<disk, queue, stopped, up, worker, victim, sub,
                   history, crashes>>

RecSend ==
    /\ rec.pc = "send"
    /\ \/ /\ HasRoom
          /\ queue' = Append(queue, rec.job)
          /\ rec' = NextEntry
       \/ /\ stopped
          /\ rec' = [pc |-> "done", todo |-> {}, job |-> NoJob]
          /\ UNCHANGED queue
    /\ UNCHANGED <<disk, stopped, up, worker, victim, sub, history,
                   crashes, faults>>

RecDone ==
    /\ rec.pc = "scan"
    /\ rec.todo = {}
    /\ rec' = [rec EXCEPT !.pc = "done"]
    /\ UNCHANGED <<disk, queue, stopped, up, worker, victim, sub,
                   history, crashes, faults>>

RecStep ==
    \/ RecList
    \/ \E e \in rec.todo : \/ RecYoung(e)
                           \/ RecUnreadable(e)
                           \/ RecFinished(e)
                           \/ RecTake(e)
    \/ RecMove
    \/ RecOpen
    \/ RecFlush
    \/ RecWriteFails
    \/ RecSend
    \/ RecDone

Stop ==
    /\ up
    /\ ~stopped
    /\ stopped' = TRUE
    /\ UNCHANGED <<disk, queue, up, worker, rec, victim, sub, history,
                   crashes, faults>>

----------------------------------------------------------------------------
(* worker and processOne.                                                  *)

Goto(w, pc) == worker' = [worker EXCEPT ![w].pc = pc]
Release(w) == worker' = [worker EXCEPT ![w] = IdleWorker]

WorkerExit_OnCloseOnly(w) ==
    /\ worker[w].pc = "idle"
    /\ ~up
    /\ UNCHANGED vars

WorkerExit(w) ==
    /\ worker[w].pc = "idle"
    /\ stopped
    /\ worker' = [worker EXCEPT ![w] = OffWorker]
    /\ UNCHANGED <<disk, queue, stopped, up, rec, victim, sub, history,
                   crashes, faults>>

WorkerTake_AfterRecovery(w) ==
    /\ worker[w].pc = "idle"
    /\ rec.pc = "done"
    /\ queue # <<>>
    /\ queue' = Tail(queue)
    /\ worker' = [worker EXCEPT ![w] = [pc |-> "load", job |-> Head(queue),
                                        out |-> "none"]]
    /\ UNCHANGED <<disk, stopped, up, rec, victim, sub, history,
                   crashes, faults>>

\* The other branch of the same select: taken at random when both are ready.
WorkerTake(w) ==
    /\ worker[w].pc = "idle"
    /\ queue # <<>>
    /\ queue' = Tail(queue)
    /\ worker' = [worker EXCEPT ![w] = [pc |-> "load", job |-> Head(queue),
                                        out |-> "none"]]
    /\ UNCHANGED <<disk, stopped, up, rec, victim, sub, history,
                   crashes, faults>>

\* Get, and when it fails getAtProcessingPath; an unreadable or finished job
\* is given up.
WorkerLoad(w) ==
    LET j == worker[w].job
        loaded == IF Readable(canon[j]) THEN canon[j] ELSE claim[j] IN
    /\ worker[w].pc = "load"
    /\ IF loaded \in Unfinished THEN Goto(w, "claim") ELSE Release(w)
    /\ UNCHANGED <<disk, queue, stopped, up, rec, victim, sub, history,
                   crashes, faults>>

\* The claim: rename <id>.json to <id>.processing.json; a worker whose rename
\* fails, for want of the file or otherwise, gives the job up.
WorkerClaim(w) ==
    LET j == worker[w].job IN
    /\ worker[w].pc = "claim"
    /\ \/ /\ IF canon[j] = "none"
             THEN Release(w) /\ UNCHANGED disk
             ELSE /\ claim' = [claim EXCEPT ![j] = canon[j]]
                  /\ canon' = [canon EXCEPT ![j] = "none"]
                  /\ Goto(w, "mark")
          /\ UNCHANGED faults
       \/ /\ Fault
          /\ Release(w)
          /\ UNCHANGED disk
    /\ UNCHANGED <<queue, stopped, up, rec, victim, sub, history, crashes>>

WorkerMarkOpen(w) ==
    /\ worker[w].pc = "mark"
    /\ claim' = [claim EXCEPT ![worker[w].job] = "torn"]
    /\ Goto(w, "marking")
    /\ UNCHANGED <<canon, queue, stopped, up, rec, victim, sub, history,
                   crashes, faults>>

\* IngestDocument is called, whether the write went well or not.
BeginIngest(w) ==
    /\ Goto(w, "ingest")
    /\ runs' = [runs EXCEPT ![worker[w].job] = @ + 1]
    /\ UNCHANGED <<canon, queue, stopped, up, rec, victim, sub, skipped,
                   crashes>>

WorkerMarkFlush(w) ==
    /\ worker[w].pc = "marking"
    /\ claim' = [claim EXCEPT ![worker[w].job] = "processing"]
    /\ BeginIngest(w)
    /\ UNCHANGED faults

WorkerMarkFails(w) ==
    /\ worker[w].pc \in {"mark", "marking"}
    /\ Fault
    /\ BeginIngest(w)
    /\ UNCHANGED claim

\* IngestDocument returns; with a cancelled context it may return an error.
WorkerIngest(w) ==
    /\ worker[w].pc = "ingest"
    /\ \E out \in Finished :
         /\ out = "failed" => IngestCanFail \/ stopped
         /\ worker' = [worker EXCEPT ![w].pc = "final", ![w].out = out]
    /\ UNCHANGED <<disk, queue, stopped, up, rec, victim, sub, history,
                   crashes, faults>>

WorkerFinalOpen(w) ==
    /\ worker[w].pc = "final"
    /\ claim' = [claim EXCEPT ![worker[w].job] = "torn"]
    /\ Goto(w, "finalizing")
    /\ UNCHANGED <<canon, queue, stopped, up, rec, victim, sub, history,
                   crashes, faults>>

WorkerFinalFlush(w) ==
    /\ worker[w].pc = "finalizing"
    /\ claim' = [claim EXCEPT ![worker[w].job] = worker[w].out]
    /\ Goto(w, "publish")
    /\ UNCHANGED <<canon, queue, stopped, up, rec, victim, sub, history,
                   crashes, faults>>

\* The file is published whether the write went well or not.
WorkerFinalFails(w) ==
    /\ worker[w].pc \in {"final", "finalizing"}
    /\ Fault
    /\ Goto(w, "publish")
    /\ UNCHANGED <<disk, queue, stopped, up, rec, victim, sub, history,
                   crashes>>

WorkerPublish(w) ==
    LET j == worker[w].job IN
    /\ worker[w].pc = "publish"
    /\ \/ /\ canon' = [canon EXCEPT ![j] = claim[j]]
          /\ claim' = [claim EXCEPT ![j] = "none"]
          /\ UNCHANGED faults
       \/ /\ Fault
          /\ UNCHANGED disk
    /\ Release(w)
    /\ UNCHANGED <<queue, stopped, up, rec, victim, sub, history, crashes>>

WorkerStep(w) ==
    \/ WorkerExit(w)
    \/ WorkerTake(w)
    \/ WorkerLoad(w)
    \/ WorkerClaim(w)
    \/ WorkerMarkOpen(w)
    \/ WorkerMarkFlush(w)
    \/ WorkerMarkFails(w)
    \/ WorkerIngest(w)
    \/ WorkerFinalOpen(w)
    \/ WorkerFinalFlush(w)
    \/ WorkerFinalFails(w)
    \/ WorkerPublish(w)

----------------------------------------------------------------------------
(* The cleanup sweeper, started once Start has returned.  RunCleanup reads *)
(* a canonical file, and only later removes it by name.                    *)

SweepFind_AnyStatus(j) ==
    /\ Serving
    /\ victim = NoJob
    /\ canon[j] \in Statuses
    /\ victim' = j
    /\ UNCHANGED <<disk, queue, stopped, up, worker, rec, sub, history,
                   crashes, faults>>

SweepFind(j) ==
    /\ Serving
    /\ victim = NoJob
    /\ canon[j] \in Finished
    /\ victim' = j
    /\ UNCHANGED <<disk, queue, stopped, up, worker, rec, sub, history,
                   crashes, faults>>

SweepRemove ==
    /\ victim # NoJob
    /\ \/ /\ canon' = [canon EXCEPT ![victim] = "none"]
          /\ UNCHANGED faults
       \/ /\ Fault
          /\ UNCHANGED canon
    /\ victim' = NoJob
    /\ UNCHANGED <<claim, queue, stopped, up, worker, rec, sub, history,
                   crashes>>

----------------------------------------------------------------------------
(* The process exits: a crash, a kill, or SIGTERM, on which Server.Start   *)
(* shuts the HTTP server down and returns without Queue.Stop.  Files stay; *)
(* everything in memory goes.                                              *)

Crash ==
    /\ up
    /\ crashes < MaxCrashes
    /\ crashes' = crashes + 1
    /\ queue' = <<>>
    /\ stopped' = FALSE
    /\ up' = FALSE
    /\ worker' = [w \in Workers |-> OffWorker]
    /\ rec' = OffRec
    /\ victim' = NoJob
    /\ sub' = [j \in Jobs |-> IF sub[j] \in InSubmit THEN "lost" ELSE sub[j]]
    /\ runs' = [j \in Jobs |-> 0]
    /\ skipped' = {}
    /\ UNCHANGED <<disk, faults>>

Next ==
    \/ \E j \in Jobs : \/ SubmitTooLarge(j)
                       \/ SubmitOpen(j)
                       \/ SubmitFlush(j)
                       \/ SubmitWriteFails(j)
                       \/ SubmitSend(j)
                       \/ SweepFind(j)
    \/ Start
    \/ RecStep
    \/ Stop
    \/ \E w \in Workers : WorkerStep(w)
    \/ SweepRemove
    \/ Crash

Spec == Init /\ [][Next]_vars

\* Goroutines are scheduled, IngestDocument returns (its embedding calls carry
\* timeouts), and a supervisor restarts a process that died.  Nothing obliges
\* a client to submit, an operator to stop, or the sweeper to find anything.
Fairness ==
    /\ \A j \in Jobs : WF_vars(SubmitStep(j))
    /\ \A w \in Workers : WF_vars(WorkerStep(w))
    /\ WF_vars(RecStep)
    /\ WF_vars(Start)

FairSpec == Spec /\ Fairness

----------------------------------------------------------------------------
(* Safety.                                                                 *)

HasFile(j) == canon[j] # "none" \/ claim[j] # "none"
InSeq(q, j) == \E i \in 1..Len(q) : q[i] = j
InQueue(j) == InSeq(queue, j)
Owned(j) == \/ InQueue(j)
            \/ \E w \in Workers : worker[w].job = j
            \/ sub[j] \in InSubmit
OnDiskUnfinished(j) == canon[j] \in Unfinished \/ claim[j] \in Unfinished

\* A job never has both its <id>.json and its <id>.processing.json: every
\* hand-over, of the worker and of the recovery scan, is a rename, so no
\* later scan can enqueue the job once for each file.
OneFilePerJob == \A j \in Jobs : canon[j] = "none" \/ claim[j] = "none"

\* One process ingests a job at most once (the comment on Start, and the
\* regression test TestQueue_StartPlusSubmit_NoDoubleEnqueue): neither
\* Submit, nor the recovery scan, nor two workers, hand it out twice.
OneRunPerProcess == \A j \in Jobs : runs[j] <= 1

\* While the process serves, an unfinished job on disk is somebody's: in the
\* channel, with a worker or with its Submit call.  The one exception is a
\* claim the recovery scan took to be live (recoverStaleThreshold).
NoUnownedWork ==
    Serving /\ ~stopped /\ faults = 0 =>
        \A j \in Jobs : OnDiskUnfinished(j) =>
            Owned(j) \/ (j \in skipped /\ canon[j] = "none")

\* No job loses its file unless it had finished: of all the renames, rewrites
\* and crashes, only the sweeper's remove takes a file away, and never from
\* a job that became unfinished after RunCleanup had read it.
OnlyFinishedVanish ==
    [][\A j \in Jobs : HasFile(j) /\ ~HasFile(j)' => canon[j] \in Finished]_vars

\* Once <id>.json says completed or failed, no scan, worker or restart ever
\* changes what it says; the sweeper may remove it.
FinishedIsFinal ==
    [][\A j \in Jobs : canon[j] \in Finished =>
                           canon'[j] \in {canon[j], "none"}]_vars

\* README, "Restart safety": "On startup, any unfinished job is re-enqueued
\* and processed."  Refuted: see the README's findings.
UnfinishedIsReenqueued ==
    Serving /\ ~stopped /\ faults = 0 =>
        \A j \in Jobs : OnDiskUnfinished(j) => Owned(j)

-----------------------------------------------------------------------------
(* The queue implements JobLedger.  Until its worker publishes it, a claimed *)
(* job is running whatever its file says, and a file that its writer is      *)
(* about to fill counts as what it was before it was opened.                 *)

RunningPCs == Claimed \ {"publish"}
File(j) == IF canon[j] # "none" THEN canon[j] ELSE claim[j]

LedgerOf(j) ==
    CASE \E w \in Workers : worker[w].job = j /\ worker[w].pc \in RunningPCs
              -> "running"
      [] sub[j] = "writing" -> "none"
      [] rec.pc = "flush" /\ rec.job = j -> "pending"
      [] OTHER -> CASE File(j) = "torn" -> "lost"
                    [] File(j) \in Unfinished -> "pending"
                    [] OTHER -> File(j)

Ledger == INSTANCE JobLedger WITH ledger <- [j \in Jobs |-> LedgerOf(j)]

\* Every behaviour of the files, channel, workers and scans is one of the
\* ledger: a job is reported completed or failed only after an ingest of it
\* returned, only once, and an interrupted one goes back to pending.
ImplementsLedger == Ledger!Spec

-----------------------------------------------------------------------------
(* Liveness, under FairSpec.                                               *)

\* A job whose Submit returned success is eventually completed or failed (and
\* perhaps swept since), through any crashes, unless the operator stops the
\* queue or a crash cut a write of its file short.
AcceptedIsSettled ==
    \A j \in Jobs :
        sub[j] = "accepted" ~>
            LedgerOf(j) \in Finished \cup {"none", "lost"} \/ stopped

\* Start returns: the scan sends more jobs than the channel holds, so it
\* ends only because the pool it was given already drains the channel.
StartReturns == rec.pc # "off" ~> rec.pc \in {"off", "done"}

\* After Stop every worker exits, with the channel full or empty.
StopDrains == stopped ~> \A w \in Workers : worker[w].pc = "off"

\* A Submit call returns: what blocks it on a full channel is either a worker
\* that will take from it or a queue that is stopped.
SubmitReturns ==
    \A j \in Jobs : sub[j] \in InSubmit ~> sub[j] \notin InSubmit

=============================================================================
