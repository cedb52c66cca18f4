--------------------------- MODULE MCSessionFile ---------------------------
(* A small instance of SessionFile for TLC. *)
EXTENDS SessionFile, TLC

Symmetry == Permutations(Runs)
=============================================================================
