----------------------------- MODULE ArgBinding -----------------------------
(***************************************************************************)
(* What a function prologue promises (spec section 4.3), in one step per   *)
(* decision: a valid call binds every formal parameter to its argument or  *)
(* its default; an invalid call is rejected while the caller's arguments   *)
(* are still intact; a function that copied its parameters may then clear  *)
(* the caller's argument slots; the body starts with every local null.     *)
(***************************************************************************)
EXTENDS CallingConvention

CONSTANTS
  NumLocals,         \* number of stack locals of the function
  DescriptorSorted   \* callers sort named (name, position) pairs by name

VARIABLES
  sig,       \* the function being entered
  desc,      \* the arguments descriptor of the call
  status,    \* "entry", "bound", "body" or "rejected"
  params,    \* the function's view of each formal parameter
  args,      \* the caller's argument region
  locals,    \* the stack locals
  outcome    \* the runtime entry a rejected call ends in

vars == <<sig, desc, status, params, args, locals, outcome>>

Unbound(s) == [p \in 0..(NumParams(s) - 1) |-> Stale]

Init ==
  /\ sig \in Signatures
  /\ desc \in {d \in Calls(DescriptorSorted) : Reaches(sig, d)}
  /\ status = "entry"
  /\ params = Unbound(sig)
  /\ args = CallerArgs(desc)
  /\ locals = [i \in 1..NumLocals |-> Stale]
  /\ outcome = "none"

Bind ==
  /\ status = "entry"
  /\ Accepted(sig, desc)
  /\ status' = "bound"
  /\ params' = Expected(sig, desc)
  /\ UNCHANGED <<sig, desc, args, locals, outcome>>

(* Closures end in the closure-argument-mismatch entry, other functions    *)
(* with optional parameters in noSuchMethod; a function without optional  *)
(* parameters halts.                                                       *)
Reject ==
  /\ status = "entry"
  /\ ~Accepted(sig, desc)
  /\ status' = "rejected"
  /\ outcome' = IF sig.closure THEN "closure_mismatch"
                ELSE IF CopiesParameters(sig) THEN "no_such_method"
                ELSE "fatal"
  /\ UNCHANGED <<sig, desc, params, args, locals>>

ClearArg(j) ==
  /\ status = "bound"
  /\ CopiesParameters(sig)
  /\ args' = [args EXCEPT ![j] = Null]
  /\ UNCHANGED <<sig, desc, status, params, locals, outcome>>

EnterBody ==
  /\ status = "bound"
  /\ CopiesParameters(sig) => \A j \in DOMAIN args : args[j] = Null
  /\ status' = "body"
  /\ locals' = [i \in 1..NumLocals |-> Null]
  /\ UNCHANGED <<sig, desc, params, args, outcome>>

Done ==
  /\ status \in {"body", "rejected"}
  /\ UNCHANGED vars

Next ==
  \/ Bind
  \/ Reject
  \/ \E j \in DOMAIN args : ClearArg(j)
  \/ EnterBody
  \/ Done

Spec == Init /\ [][Next]_vars
=============================================================================
