CONSTANTS
    c1 = c1
    c2 = c2
    Clients = {c1, c2}
    Managers = {c1}
    Console = web
    Numbers = {1, 2, 3, 4}
    PipeIgnored = TRUE
    MaxAsks = 2
    Daring = {"open a table during a kill"}
SPECIFICATION FairSpec
INVARIANTS KillHitsTarget StoppedMeansEnded
PROPERTIES OnlyKillsStray KilledSessionEnds StopReturns
CHECK_DEADLOCK FALSE
