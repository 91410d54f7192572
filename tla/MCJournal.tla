----------------------------- MODULE MCJournal -----------------------------
(* The log with a handful of records; the fault knobs are in the cfgs. *)
EXTENDS Journal, TLC

\* Records are interchangeable unless some are oversize.
Sym == Permutations(Records)
=============================================================================
