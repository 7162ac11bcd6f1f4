---------------------------- MODULE MCLLMClient ----------------------------
(* Instances of LLMClient for TLC. *)
EXTENDS LLMClient, TLC

Symmetry == Permutations(Callers)

=============================================================================
