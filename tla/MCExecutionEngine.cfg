CONSTANTS
  Plans <- ThreeStepPlans
  Paths <- Files
  MaxSteps = 3
  MaxConsecutiveFailures = 2
  None = None
SPECIFICATION FairSpec
INVARIANTS ConflictsRunApart RunsAreCleared TraceIsWhole
PROPERTIES PlanEnds
\* A plan ends.
CHECK_DEADLOCK FALSE
