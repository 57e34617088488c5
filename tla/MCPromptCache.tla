--------------------------- MODULE MCPromptCache ---------------------------
(* PromptCache for TLC: which caller is which does not matter. *)
EXTENDS PromptCache, TLC

Symmetry == Permutations(Loaders) \cup Permutations(Writers)
=============================================================================
