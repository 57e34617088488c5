---------------------------- MODULE MCAutomation ----------------------------
(* Instances of Automation.  Workers are interchangeable. *)
EXTENDS Automation, TLC

Symmetry == Permutations(Workers)
=============================================================================
