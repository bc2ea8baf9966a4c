----------------------------- MODULE JobLedger -----------------------------
(***************************************************************************)
(* What the ingest queue promises of each job, with no files, channel or   *)
(* goroutines: a job is recorded, begun, finished once with one outcome,   *)
(* and at some later time discarded.  Work that is interrupted is done     *)
(* again.  A record can be lost only where a write of it was cut short.    *)
(***************************************************************************)
CONSTANT Jobs

VARIABLE ledger   \* ledger[j]: where job j is in its life

States == {"none", "pending", "running", "completed", "failed", "lost"}

Init == ledger = [j \in Jobs |-> "none"]

Move(j, from, to) ==
    /\ ledger[j] \in from
    /\ \E s \in to : ledger' = [ledger EXCEPT ![j] = s]

Accept(j) == Move(j, {"none"}, {"pending"})
Begin(j) == Move(j, {"pending"}, {"running"})
Finish(j) == Move(j, {"running"}, {"completed", "failed"})
Discard(j) == Move(j, {"completed", "failed"}, {"none"})

\* A file system error while j's record is written.
Mishap(j) == \/ Move(j, {"none", "pending", "running"}, {"lost"})
             \/ Move(j, {"running"}, {"pending"})

\* The process dies: running jobs have to run again, and a record that was
\* being written may be lost.  Finished jobs are untouched.
AfterCrash(s) == CASE s \in {"none", "pending"} -> {s, "lost"}
                   [] s = "running" -> {"pending", "lost"}
                   [] OTHER -> {s}

Crash == /\ ledger' \in [Jobs -> States]
         /\ \A j \in Jobs : ledger'[j] \in AfterCrash(ledger[j])

Next ==
    \/ \E j \in Jobs : \/ Accept(j)
                       \/ Begin(j)
                       \/ Finish(j)
                       \/ Discard(j)
                       \/ Mishap(j)
    \/ Crash

Spec == Init /\ [][Next]_ledger

=============================================================================
