SPECIFICATION Spec
CONSTANTS
    a1 = a1
    a2 = a2
    Agents <- TwoAgents
    Secured = TRUE
    FailLimit = 2
    MaxIds = 4
    MaxFaults = 2
SYMMETRY Symmetry
INVARIANT TypeOK
INVARIANT HolderReachable
INVARIANT NoImpersonation
INVARIANT RemovedStaysRemoved
INVARIANT NoGhosts
INVARIANT UndisturbedAccepts
\* Every agent may have left for good.
CHECK_DEADLOCK FALSE
