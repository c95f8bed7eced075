---------------------------- MODULE MCStateCache ----------------------------
(* Small instances of StateCache for TLC.                                  *)
EXTENDS StateCache, TLC

\* The polls are interchangeable, and so are the writes.
Interchangeable == Permutations(Poll) \cup Permutations(Write)

=============================================================================
