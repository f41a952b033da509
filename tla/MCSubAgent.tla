----------------------------- MODULE MCSubAgent -----------------------------
(* Small instances of the sub-agent manager for TLC. *)
EXTENDS SubAgentManager, TLC

CallerSymmetry == Permutations(Callers)
=============================================================================
