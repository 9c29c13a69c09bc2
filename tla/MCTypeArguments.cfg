CONSTANTS
    MaxLen = 2
SPECIFICATION Spec
INVARIANT TypeArgumentsCorrect
INVARIANT StackConsumed
