\* Two clients, with priorities, input, limited latency, kills and a clock that outgrows
\* an int.
SPECIFICATION FairSpec
CONSTANTS
    Clients = {1, 2}
    Modulus = 4
    MaxPriority = 1
    Priorities = {0, 1}
    MaxSlice = 1
    LongRun = 0
    MaxLimited = 1
    Interactive = {1}
    Quitters = {2}
    Killing = TRUE
    LongLived = TRUE
INVARIANT TypeOK
PROPERTY InTurn
PROPERTY PraisedWhenIdle
PROPERTY TurnComes
