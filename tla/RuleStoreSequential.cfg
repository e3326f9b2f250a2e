SPECIFICATION Spec
CONSTANTS
    h1 = h1
    h2 = h2
    Handlers <- OneHandler
    MaxRules = 4
INVARIANT AckedDurable
PROPERTY PromiseKept
