----------------------------- MODULE MCImports -----------------------------
(* A finite instance of Imports: one run of two materials. *)
EXTENDS Imports

CONSTANT r1

MCRuns == {r1}
MCSize == [r \in MCRuns |-> 2]
=============================================================================
