---------------------------- MODULE MCSendBudget ----------------------------
(* An instance of SendBudget: two limits an operator switches between, one  *)
(* with a tier as wide as the retention, one with a tier that is off, two   *)
(* paces, and hours that are open, that a campaign narrows within a night   *)
(* past the end of the week, and that never meet.                           *)
EXTENDS SendBudget

Tier(w, m) == [window |-> w, max |-> m]
MCTierSets == {{Tier(2, 1), Tier(4, 2)}, {Tier(3, 2), Tier(1, 0)}}
MCPaces == {[min |-> 2, jitter |-> 1], [min |-> 1, jitter |-> 1]}
Window(d, s, e) == [day |-> d, start |-> s, end |-> e]
Night == Window(1, 2, 1)
MCHoursSets ==
  {[account |-> {}, campaign |-> {}],
   [account |-> {Night}, campaign |-> {Window(0, 0, 2), Window(1, 1, 3)}],
   [account |-> {Night}, campaign |-> {Window(0, 1, 3)}]}
=============================================================================
