SPECIFICATION Spec
CONSTANTS
    Keys = {models, gateway, channels}
    Excluded = {gateway, channels}
    Values = {old, new}
SYMMETRY Interchangeable
INVARIANT TypeOK
INVARIANT NothingForeign
INVARIANT StartedIsFound
