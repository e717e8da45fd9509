CONSTANTS
  Plans = {p1, p2}
  Approvals = {r1, r2, r3}
  MaxInterrupts = 1
  Short = Short
  None = None
SYMMETRY Symmetry
SPECIFICATION StoreSpec
INVARIANTS OfferedPlanIsFound ClaimsAreReleased MismatchNeedsTwoKeys
PROPERTY PlansRunAtMostOnce
CHECK_DEADLOCK FALSE
