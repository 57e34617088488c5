------------------------------- MODULE MCCrm -------------------------------
(* Instances of Crm; customers, notes and tags are interchangeable.         *)
EXTENDS Crm, TLC

Symmetry == Permutations(Customers) \cup Permutations(Notes)
=============================================================================
