--------------------------- MODULE MCPcDescriptors ---------------------------
(* Instances of PcDescriptors: every function shape, and the shapes whose *)
(* mismatch path goes through a runtime entry.                            *)
EXTENDS PcDescriptors

FnShape(c, p, d, t) == [closure |-> c, copied |-> p, debug |-> d, trace |-> t]

\* Closures, with or without copied parameters, and functions with fixed
\* parameters only, in DEBUG and release builds, traced or not.
MCDescribedFunctions ==
    {FnShape(c, p, d, t) : c, p, d, t \in BOOLEAN} \
    {FnShape(FALSE, TRUE, d, t) : d, t \in BOOLEAN}

\* Every function shape, including a non-closure with optional parameters.
MCAllFunctions == {FnShape(c, p, d, t) : c, p, d, t \in BOOLEAN}

\* The shapes compiled with FLAG_trace_functions.
MCTracedFunctions == {FnShape(c, p, d, TRUE) : c, p, d \in BOOLEAN}
=============================================================================
