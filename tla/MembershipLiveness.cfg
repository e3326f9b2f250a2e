SPECIFICATION FairSpec
CONSTANTS
    a1 = a1
    a2 = a2
    Agents <- OneAgent
    Secured = TRUE
    FailLimit = 2
    MaxIds = 4
    MaxFaults = 3
PROPERTY Rejoins
PROPERTY ShutdownEnds
\* Every agent may have left for good.
CHECK_DEADLOCK FALSE
