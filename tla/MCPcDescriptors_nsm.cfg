CONSTANTS
    Functions <- MCAllFunctions
    MaxRules = 3
    EntryPoint = 4096
SPECIFICATION Spec
INVARIANT EveryCallDescribed
