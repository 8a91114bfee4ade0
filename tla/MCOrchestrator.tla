--------------------------- MODULE MCOrchestrator ---------------------------
(* Instances of Orchestrator for TLC. *)
EXTENDS Orchestrator, TLC

\* Every world's port search begins at the last port of the range.
LastPort == [w \in Worlds |-> Span - 1]

WorldSymmetry == Permutations(Worlds)
=============================================================================
