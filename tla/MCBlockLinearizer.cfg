CONSTANTS
  NumBlocks = 4

SPECIFICATION Spec

INVARIANT TypeOK
INVARIANT LabelsResolved
INVARIANT NoJumpToNext
INVARIANT ControlFlowPreserved
