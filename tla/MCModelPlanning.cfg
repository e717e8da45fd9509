SPECIFICATION Spec
CONSTANTS
    Tasks <- MCTasks
    Answers <- MCAnswers
    Codes <- MCCodes
    Paths <- MCPaths
    Initial <- MCInitial
    MaxTasks = 1
    MaxFaults = 3
INVARIANTS
    ProtectedFilesAreKept
    UnapprovedStaysInScope
    SequenceTellsTheFiles
PROPERTY
    TaskEnds
