-------------------------- MODULE MCDocumentStore --------------------------
\* Small instances of DocumentStore for TLC.
EXTENDS DocumentStore, TLC

CONSTANTS v1, v2, tiny, c1, c2, c3

\* Two versions with a common section, and one too short to make a chunk.
Sections(v) == CASE v = v1 -> {c1, c2} [] v = v2 -> {c2, c3} [] v = tiny -> {}
MCContent == [v \in Versions |-> Sections(v) \cap Chunks]

\* Requests are interchangeable.
SymmetryOps == Permutations(Ops)

=============================================================================
