CONSTANTS
    Sessions <- TerminalSessions
    Commands = {make, pytest}
    Reads = {file}
    MaxTurns = 5
SPECIFICATION SessionSpec
INVARIANTS
    FinishIsEarned
    NothingIsRepeatedThrice
