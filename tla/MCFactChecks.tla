---- MODULE MCFactChecks ----
(* FactChecks on small instances. *)
EXTENDS FactChecks, TLC

Symmetry == Permutations(Windows)
=============================
