----------------------------- MODULE MCAccess ------------------------------
(* Small instances of operator accounts. *)
EXTENDS Access, TLC

CONSTANTS admin, bob, upperAdmin

\* The first operator's name, also in capitals, and another.
MCNormal == [s \in Spellings |-> IF s = upperAdmin THEN admin ELSE s]

\* Goroutines are interchangeable.
Sym == Permutations(Handlers)
=============================================================================
