--------------------------- MODULE ParameterBinder ---------------------------
(***************************************************************************)
(* The prologue FlowGraphCompiler::CompileGraph emits, as it runs: the     *)
(* fixed-arity argument check, or CopyParameters (count checks, the        *)
(* positional copy loop, one block per optional parameter in alphabetical *)
(* order, the named-argument terminator check, the mismatch handler, the  *)
(* loop that nulls the caller's argument slots), then the zeroing of the   *)
(* locals and the stack-overflow check.  One action per emitted block or   *)
(* loop iteration; rcx and rdi are the registers of the same name.         *)
(***************************************************************************)
EXTENDS CallingConvention

CONSTANTS
  NumLocals,         \* parsed_function_.stack_local_count()
  Debug,             \* DEBUG build: fixed arity is always checked
  DescriptorSorted   \* callers sort named (name, position) pairs by name

VARIABLES
  sig,         \* the function being entered (ParsedFunction)
  desc,        \* the arguments descriptor in R10
  pc,          \* the block of the prologue executing next
  frame,       \* copied parameter slots: formal p at fp[-1 - p]
  callerArgs,  \* the caller's argument region: argument j at fp[1 + argc - j]
  locals,      \* the stack locals
  rcx,         \* loop counter / positional count
  rdi,         \* cursor into the named pairs (1-based; Len + 1 is the null)
  k,           \* which optional parameter (in sorted order) is handled next
  outcome      \* the runtime entry a rejected call ends in

vars == <<sig, desc, pc, frame, callerArgs, locals, rcx, rdi, k, outcome>>

Final == {"body", "terminated"}

-----------------------------------------------------------------------------
(* CopyParameters, lines 939-953: insertion sort of the optional           *)
(* parameters by name, done once at compile time; the result is the       *)
(* sequence of their formal positions in alphabetical order of name.       *)
InsertOptParam(sig_, order, pos) ==
  LET i == SelectLastInSeq(order, LAMBDA q : OptName(sig_, q) < OptName(sig_, pos))
  IN SubSeq(order, 1, i) \o <<pos>> \o SubSeq(order, i + 1, Len(order))

SortedOptPositions(sig_) ==
  FoldLeft(LAMBDA order, pos : InsertOptParam(sig_, order, pos), <<>>,
           [i \in 1..Len(sig_.opt) |-> sig_.fixed + i - 1])

Init ==
  /\ sig \in Signatures
  /\ desc \in {d \in Calls(DescriptorSorted) : Reaches(sig, d)}
  /\ pc = "entry"
  /\ frame = [p \in IF CopiesParameters(sig) THEN 0..(NumParams(sig) - 1) ELSE {}
                |-> Stale]
  /\ callerArgs = CallerArgs(desc)
  /\ locals = [i \in 1..NumLocals |-> Stale]
  /\ rcx = 0
  /\ rdi = 1
  /\ k = 1
  /\ outcome = "none"

-----------------------------------------------------------------------------
(* CompileGraph, no optional parameters: the count is checked in a DEBUG   *)
(* build or for a closure, and must equal the fixed parameter count.       *)
CheckArguments == Debug \/ sig.closure

FixedArityOk ==
  /\ pc = "entry"
  /\ ~CopiesParameters(sig)
  /\ CheckArguments => desc.count = sig.fixed
  /\ pc' = "prologue_tail"
  /\ UNCHANGED <<sig, desc, frame, callerArgs, locals, rcx, rdi, k, outcome>>

(* A closure calls the mismatch runtime entry, which throws; any other     *)
(* function hits __ Stop.                                                  *)
FixedArityMismatch ==
  /\ pc = "entry"
  /\ ~CopiesParameters(sig)
  /\ CheckArguments
  /\ desc.count # sig.fixed
  /\ pc' = "terminated"
  /\ outcome' = IF sig.closure THEN "closure_mismatch" ELSE "fatal"
  /\ UNCHANGED <<sig, desc, frame, callerArgs, locals, rcx, rdi, k>>

(* num_args <= num_params and num_pos_args >= num_fixed_params.            *)
CheckArgCounts ==
  /\ pc = "entry"
  /\ CopiesParameters(sig)
  /\ IF desc.count > NumParams(sig) \/ desc.pos < sig.fixed
       THEN /\ pc' = "wrong_num_arguments"
            /\ UNCHANGED rcx
       ELSE /\ pc' = "copy_positional"
            /\ rcx' = desc.pos
  /\ UNCHANGED <<sig, desc, frame, callerArgs, locals, rdi, k, outcome>>

(* Mutation of CopyPositional: the loop condition jumps back without the  *)
(* decq RCX, so the copy loop never ends.                                  *)
CopyPositionalNoDecrement ==
  /\ pc = "copy_positional"
  /\ LET c == rcx - 1
         i == desc.pos - 1 - c
     IN IF c >= 0
          THEN /\ frame' = [frame EXCEPT ![i] = callerArgs[i]]
               /\ UNCHANGED <<pc, rcx, rdi, k>>
          ELSE /\ pc' = "optional"
               /\ rcx' = desc.pos
               /\ rdi' = 1
               /\ k' = 1
               /\ UNCHANGED frame
  /\ UNCHANGED <<sig, desc, callerArgs, locals, outcome>>

(* One iteration of the copy loop: decq RCX; j POSITIVE; argument i at     *)
(* fp[1 + argc - i] is copied to fp[-1 - i], where i = pos - 1 - RCX.      *)
(* On exit RCX is reloaded with the positional count and RDI is pointed    *)
(* at the first named pair.                                                *)
CopyPositional ==
  /\ pc = "copy_positional"
  /\ LET c == rcx - 1
         i == desc.pos - 1 - c
     IN IF c >= 0
          THEN /\ frame' = [frame EXCEPT ![i] = callerArgs[i]]
               /\ rcx' = c
               /\ UNCHANGED <<pc, rdi, k>>
          ELSE /\ pc' = "optional"
               /\ rcx' = desc.pos
               /\ rdi' = 1
               /\ k' = 1
               /\ UNCHANGED frame
  /\ UNCHANGED <<sig, desc, callerArgs, locals, outcome>>

(* Mutation of OptionalParameter: the cmpq RCX, param_pos / j GREATER     *)
(* skip is dropped, so a parameter passed by position is overwritten.      *)
OptionalParameterNoSkip ==
  /\ pc = "optional"
  /\ LET order == SortedOptPositions(sig)
         pp    == order[k]
         named == rdi <= Len(desc.named) /\ desc.named[rdi].name = OptName(sig, pp)
     IN /\ \/ /\ named
              /\ frame' = [frame EXCEPT ![pp] = callerArgs[desc.named[rdi].pos]]
              /\ rdi' = rdi + 1
           \/ /\ ~named
              /\ frame' = [frame EXCEPT ![pp] = DefaultVal(pp)]
              /\ UNCHANGED rdi
        /\ k' = k + 1
        /\ pc' = IF k = Len(order) THEN "check_named_end" ELSE "optional"
  /\ UNCHANGED <<sig, desc, callerArgs, locals, rcx, outcome>>

(* Mutation of OptionalParameter: RDI is advanced after the default is     *)
(* loaded as well, i.e. the addq sits after assign_optional_parameter.     *)
OptionalParameterAlwaysAdvance ==
  /\ pc = "optional"
  /\ LET order == SortedOptPositions(sig)
         pp    == order[k]
         named == rdi <= Len(desc.named) /\ desc.named[rdi].name = OptName(sig, pp)
     IN /\ \/ /\ rcx > pp
              /\ UNCHANGED <<frame, rdi>>
           \/ /\ rcx <= pp
              /\ frame' = [frame EXCEPT ![pp] = IF named
                                                  THEN callerArgs[desc.named[rdi].pos]
                                                  ELSE DefaultVal(pp)]
              /\ rdi' = rdi + 1
        /\ k' = k + 1
        /\ pc' = IF k = Len(order) THEN "check_named_end" ELSE "optional"
  /\ UNCHANGED <<sig, desc, callerArgs, locals, rcx, outcome>>

(* The block emitted for the k-th optional parameter in sorted order: it   *)
(* is skipped when it was passed by position (RCX > param_pos); else, if   *)
(* the pair under RDI names it, the argument at that pair's position is    *)
(* copied and RDI advances; else the default value is stored.              *)
OptionalParameter ==
  /\ pc = "optional"
  /\ LET order == SortedOptPositions(sig)
         pp    == order[k]
         named == rdi <= Len(desc.named) /\ desc.named[rdi].name = OptName(sig, pp)
     IN /\ \/ /\ rcx > pp
              /\ UNCHANGED <<frame, rdi>>
           \/ /\ rcx <= pp
              /\ named
              /\ frame' = [frame EXCEPT ![pp] = callerArgs[desc.named[rdi].pos]]
              /\ rdi' = rdi + 1
           \/ /\ rcx <= pp
              /\ ~named
              /\ frame' = [frame EXCEPT ![pp] = DefaultVal(pp)]
              /\ UNCHANGED rdi
        /\ k' = k + 1
        /\ pc' = IF k = Len(order) THEN "check_named_end" ELSE "optional"
  /\ UNCHANGED <<sig, desc, callerArgs, locals, rcx, outcome>>

(* cmpq [RDI], null: every named pair must have been consumed.             *)
CheckNamedEnd ==
  /\ pc = "check_named_end"
  /\ IF rdi = Len(desc.named) + 1
       THEN /\ pc' = "null_args"
            /\ rcx' = desc.count
       ELSE /\ pc' = "wrong_num_arguments"
            /\ UNCHANGED rcx
  /\ UNCHANGED <<sig, desc, frame, callerArgs, locals, rdi, k, outcome>>

(* wrong_num_arguments: closures call the mismatch runtime entry, other    *)
(* functions call noSuchMethod and return its result to the caller.        *)
WrongNumArguments ==
  /\ pc = "wrong_num_arguments"
  /\ pc' = "terminated"
  /\ outcome' = IF sig.closure THEN "closure_mismatch" ELSE "no_such_method"
  /\ UNCHANGED <<sig, desc, frame, callerArgs, locals, rcx, rdi, k>>

(* One iteration of the loop that nulls the caller's argument slots after  *)
(* they were copied and checked: decq RCX; j POSITIVE.                     *)
NullArgs ==
  /\ pc = "null_args"
  /\ LET c == rcx - 1
     IN IF c >= 0
          THEN /\ callerArgs' = [callerArgs EXCEPT ![c] = Null]
               /\ rcx' = c
               /\ UNCHANGED pc
          ELSE /\ pc' = "prologue_tail"
               /\ rcx' = c
               /\ UNCHANGED callerArgs
  /\ UNCHANGED <<sig, desc, frame, locals, rdi, k, outcome>>

(* CompileGraph after the parameters: every local is set to null, then the *)
(* stack pointer is compared with the isolate's stack limit; the overflow  *)
(* runtime entry returns, so the body is entered either way.               *)
PrologueTail ==
  /\ pc = "prologue_tail"
  /\ locals' = [i \in 1..NumLocals |-> Null]
  /\ pc' = "body"
  /\ UNCHANGED <<sig, desc, frame, callerArgs, rcx, rdi, k, outcome>>

Terminated ==
  /\ pc \in Final
  /\ UNCHANGED vars

Next ==
  \/ FixedArityOk
  \/ FixedArityMismatch
  \/ CheckArgCounts
  \/ CopyPositional
  \/ OptionalParameter
  \/ CheckNamedEnd
  \/ WrongNumArguments
  \/ NullArgs
  \/ PrologueTail
  \/ Terminated

Spec == Init /\ [][Next]_vars

(* The prologue is straight-line code run by one thread: it keeps running. *)
FairSpec == Spec /\ WF_vars(Next)

-----------------------------------------------------------------------------
(* Every register, slot and cursor stays within its range: in particular   *)
(* RDI never moves past the null that terminates the named pairs.          *)
TypeOK ==
  /\ sig \in Signatures
  /\ desc \in Calls(DescriptorSorted)
  /\ pc \in {"entry", "copy_positional", "optional", "check_named_end",
             "wrong_num_arguments", "null_args", "prologue_tail"} \cup Final
  /\ DOMAIN frame = IF CopiesParameters(sig) THEN 0..(NumParams(sig) - 1) ELSE {}
  /\ \A p \in DOMAIN frame : frame[p] \in Values \cup {Stale}
  /\ callerArgs \in [0..(desc.count - 1) -> Values \cup {Null}]
  /\ locals \in [1..NumLocals -> {Null, Stale}]
  /\ rcx \in -1..MaxArgs
  /\ rdi \in 1..(Len(desc.named) + 1)
  /\ k \in 1..(MaxOpt + 1)
  /\ outcome \in {"none", "closure_mismatch", "no_such_method", "fatal"}

(* Where the function reads formal p once its prologue is done: its copy   *)
(* in the frame, or, without optional parameters, the caller's slot        *)
(* fp[1 + num_fixed - p] that the body addresses statically.              *)
ParamView ==
  [p \in 0..(NumParams(sig) - 1) |->
     IF CopiesParameters(sig) THEN frame[p]
     ELSE LET j == desc.count - sig.fixed + p
          IN IF j \in DOMAIN callerArgs THEN callerArgs[j] ELSE Stale]

(* Refinement mapping: the prologue has bound its parameters once it has   *)
(* passed every check; until then it has promised nothing.                 *)
AbsStatus ==
  CASE pc = "body"                           -> "body"
    [] pc = "terminated"                     -> "rejected"
    [] pc \in {"null_args", "prologue_tail"} -> "bound"
    [] OTHER                                 -> "entry"

AbsParams ==
  IF AbsStatus \in {"bound", "body"} THEN ParamView
  ELSE [p \in 0..(NumParams(sig) - 1) |-> Stale]

ABS == INSTANCE ArgBinding WITH status <- AbsStatus, params <- AbsParams,
                                args <- callerArgs

(* The emitted prologue implements the binding contract of section 4.3:    *)
(* a valid call binds every parameter to the positional argument, the     *)
(* named argument or the default, and enters the body with the caller's    *)
(* slots nulled and the locals null; an invalid call reaches noSuchMethod  *)
(* or the closure mismatch entry with the caller's arguments untouched.    *)
Binding == ABS!Spec

(* Every call leaves the prologue: it enters the body or a mismatch entry. *)
Termination == <>(pc \in Final)

-----------------------------------------------------------------------------
(* Statements of the spec that the code does not meet (violation runs).    *)

(* Section 8: for f(a, [b = 10]), "call with 2 positional arguments (no    *)
(* named) triggers the mismatch path".  CopyParameters only checks         *)
(* num_args <= num_params and num_pos_args >= num_fixed, and binds b to    *)
(* the second positional argument.                                         *)
SpecExampleTwoPositionalRejected ==
  (/\ sig.fixed = 1 /\ Len(sig.opt) = 1 /\ ~sig.closure
   /\ desc.pos = 2 /\ desc.named = <<>>)
    => pc # "body"

(* Sections 4.3 and 8: a named argument binds only an optional parameter;  *)
(* a call supplying a name no optional parameter has takes the mismatch    *)
(* path.  The fixed-arity check of CompileGraph compares only the total    *)
(* count, so a closure (a) => ... called as f(a: x) enters its body.       *)
OnlyValidCallsEnterBody ==
  pc = "body" => Valid(sig, desc)

(* Section 4.3 step 4: an optional parameter takes the named argument      *)
(* "if a matching name is found among supplied named arguments".  The      *)
(* emitted code compares each parameter, in alphabetical order, with the   *)
(* single pair under RDI, so it accepts a valid call only when the pairs   *)
(* come sorted by name, which section 6 does not require of a caller.      *)
AcceptedCallsEnterBody ==
  pc = "terminated" => ~Accepted(sig, desc)
=============================================================================
