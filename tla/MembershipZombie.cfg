SPECIFICATION Spec
CONSTANTS
    a1 = a1
    a2 = a2
    Agents <- OneAgent
    Secured = TRUE
    FailLimit = 5
    MaxIds = 2
    MaxFaults = 6
INVARIANT OnlineNodeAccepts
\* Every agent may have left for good.
CHECK_DEADLOCK FALSE
