----------------------------- MODULE MCMessages -----------------------------
(* Finite instances of Messages. *)
EXTENDS Messages, TLC
Symmetric == Permutations(Out) \cup Permutations(In)
=============================================================================
