SPECIFICATION FairSpec
CONSTANTS
    c1 = c1
    c2 = c2
    m1 = m1
    m2 = m2
    Callers <- TwoCallers
    Boot = Boot
    Reader = Reader
    Messages <- TwoMessages
INVARIANT TypeOK
INVARIANT SendNeverBlocks
INVARIANT OwnAnswer
INVARIANT WholeAnswer
INVARIANT NoLeak
PROPERTY EveryCallReturns
\* The calls are finite in number.
CHECK_DEADLOCK FALSE
