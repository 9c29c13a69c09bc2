CONSTANTS
  OptNames <- MCOptNames
  ArgNames <- MCArgNames
  MaxFixed = 1
  MaxOpt = 3
  MaxArgs = 3
  NumLocals = 1
  Debug = FALSE
  DescriptorSorted = TRUE
  Null = Null
  Stale = Stale
SPECIFICATION Spec
INVARIANT SpecExampleTwoPositionalRejected
