CONSTANTS
    Functions <- MCDescribedFunctions
    MaxRules = 3
    EntryPoint = 4096
SPECIFICATION Spec
INVARIANT DescriptorsSound
INVARIANT EveryCallDescribed
INVARIANT TableComplete
