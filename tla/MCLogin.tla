------------------------------ MODULE MCLogin ------------------------------
(* Small instances of the login guard.  The goroutines are interchangeable. *)
EXTENDS LoginGuard, TLC

Goroutines == Permutations(Handlers)
=============================================================================
