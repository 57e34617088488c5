SPECIFICATION Spec
CONSTANTS
  Recipients = {r1, r2}
  Paces <- MCPaces
  TierSets <- MCTierSets
  HoursSets <- MCHoursSets
  Day = 3
  Week = 2
  Retention = 4
  MaxTime = 6
  MaxAttempts = 3
  MaxChanges = 2
CHECK_DEADLOCK FALSE
INVARIANTS
  LedgerIsComplete
  NextSlotIsEarliest
  EstimateIsEarliest
PROPERTIES
  TiersHold
  IntervalHolds
