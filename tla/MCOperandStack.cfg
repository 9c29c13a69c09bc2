CONSTANTS
    MaxTemps = 3
    MaxSteps = 2
    Ops <- MCAllOps
SPECIFICATION Spec
INVARIANT TypeOK
PROPERTY Refinement
