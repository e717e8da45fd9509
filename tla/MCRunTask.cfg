CONSTANTS
  Runs = {r1, r2}
  Paths <- TwoPaths
  Requests <- MixedRequests
  Initial <- MixedInitial
  Contents <- MixedContents
  Broken <- BrokenLines
  MaxActions = 2
  MaxWrite = 2
  MaxActive = 1
  MaxFaults = 1
  Missing = Missing
  None = None
SPECIFICATION FairSpec
INVARIANTS WritesAreOnRecord SuccessIsApplied
PROPERTIES ResumeKeepsEdits EveryRunEnds
\* The runs are used up.
CHECK_DEADLOCK FALSE
