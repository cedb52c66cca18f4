-------------------------- MODULE MCReplayObserver --------------------------
(* A small instance of ReplayObserver for TLC. *)
EXTENDS ReplayObserver, TLC

MCOutcomes == 1..MaxSource

Symmetry == Permutations(Calls) \cup Permutations(Adapters) \cup Permutations(MatchKeys)
=============================================================================
