SPECIFICATION ScopesSpec
CONSTANTS
    ScopeNames = {1, 2, 3, 4}
    MaxInput = 3
INVARIANTS
    ScopesActAsSets
    LoopsEnd
