---------------------------- MODULE MCQueryCache ----------------------------
\* Small instances of QueryCache for TLC.
EXTENDS QueryCache, TLC

=============================================================================
