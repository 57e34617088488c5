----------------------------- MODULE MCTelegram -----------------------------
(* Finite instances of Telegram. *)
EXTENDS Telegram, TLC
Symmetry == Permutations(Requests) \cup Permutations(Sessions)
=============================================================================
