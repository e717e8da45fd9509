CONSTANTS
    Tasks <- RepairTasks
    Marks <- Scores
    MaxTexts = 5
    MaxSilent = 2
    MaxFailed = 1
SPECIFICATION FairSpec
INVARIANTS
    ScoresAreOfTheirFiles
    BestIsDelivered
PROPERTY
    LoopEnds
