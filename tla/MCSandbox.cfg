CONSTANTS
    a1 = a1
    a2 = a2
    b1 = b1
    v1 = v1
    v2 = v2
    g1 = g1
    n1 = n1
    s1 = s1
    s2 = s2
    agent = agent
    other = other
    slim = slim
    full = full
    Commands = {a1, a2, b1}
    Verifications = {v1, v2}
    Deliveries = {v2}
    Gradings = {g1, n1, s1, s2}
    Host <- HostOf
    Image <- ImageOf
    Policy <- PolicyOf
    Task <- TaskOf
    Queue <- Twice
    Scenes <- TogetherOrAlone
    Runs <- SomeRuns
    Rewards <- SomeRewards
    Reports <- SomeReports
    ExitCodes = {0, 1}
    MaxFaults = 1
SPECIFICATION Spec
INVARIANTS
    NothingRunsOn
    OnlyOthersInterfere
    RunsOnce
    PassedIsEarned
PROPERTY CallsReturn
CHECK_DEADLOCK FALSE
