SPECIFICATION FairSpec
CONSTANTS
    h1 = h1
    h2 = h2
    Handlers <- TwoHandlers
    MaxRules = 2
INVARIANT TypeOK
INVARIANT DiskWhole
INVARIANT SamePrecedence
INVARIANT SoloSaveSyncs
PROPERTY EveryRequestAnswered
