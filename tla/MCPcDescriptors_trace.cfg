CONSTANTS
    Functions <- MCTracedFunctions
    MaxRules = 2
    EntryPoint = 4096
SPECIFICATION Spec
INVARIANT TraceEntryBeforeExit
