----------------------------- MODULE MCJobQueue -----------------------------
\* Small instances of JobQueue for TLC.
EXTENDS JobQueueProofs, TLC

\* Submit calls and workers are interchangeable: no action or safety property
\* tells one from another.
SymmetryJobsWorkers == Permutations(Jobs) \cup Permutations(Workers)

=============================================================================
