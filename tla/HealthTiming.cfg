SPECIFICATION Spec
CONSTANTS
    n1 = n1
    n2 = n2
    Nodes <- OneNode
    Timeout = 6
    Interval = 2
    BeatInterval = 3
    FailThreshold = 3
    Delay = 1
    MaxGlitches = 4
    MaxTime = 24
INVARIANT TypeOK
INVARIANT SilentIsOffline
INVARIANT DeadIsOffline
INVARIANT NoFalseAlarm
INVARIANT OfflineIsBrief
INVARIANT DepartedStaysDeparted
\* The clock ends at MaxTime.
CHECK_DEADLOCK FALSE
