----------------------------- MODULE MCCampaign -----------------------------
(* Instances of Campaign for TLC; the .cfg files give the constants.        *)
EXTENDS Campaign, TLC

\* Recipients are interchangeable, and so are operators; sound for the runs
\* that check safety only.
Symmetry == Permutations(Identities) \cup Permutations(Operators)
=============================================================================
