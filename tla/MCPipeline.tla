----------------------------- MODULE MCPipeline -----------------------------
(* Instances of Pipeline for TLC. *)
EXTENDS Pipeline, TLC

\* The first text is the longest, the next one a chunk shorter.
Lengths == [t \in 1 .. NTexts |-> NChunks - ((t - 1) % NChunks)]

\* Neither workers nor article ids are ordered; created_at is.
Symmetry == Permutations(Workers) \union Permutations(Articles)

=============================================================================
