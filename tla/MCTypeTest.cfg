SPECIFICATION Spec
INVARIANT TypeOK
INVARIANT InstanceOfCorrect
INVARIANT FastPathsInline
