CONSTANTS
  NumBlocks = 4
SPECIFICATION Spec
INVARIANT TeardownLabelsUnlinked
