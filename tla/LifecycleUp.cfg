SPECIFICATION FairSpec
CONSTANTS
    m1 = m1
    m2 = m2
    Messages <- TwoMessages
INVARIANT TypeOK
INVARIANT ListedListens
INVARIANT NoVainWait
INVARIANT NoStrayNode
PROPERTY SignalEnds
\* The process ends.
CHECK_DEADLOCK FALSE
