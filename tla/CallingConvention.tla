-------------------------- MODULE CallingConvention --------------------------
(***************************************************************************)
(* The calling convention shared by a Dart caller and the prologue that    *)
(* FlowGraphCompiler emits for the callee (flow_graph_compiler_x64.cc).    *)
(*                                                                         *)
(* A function is described by its ParsedFunction: a number of fixed        *)
(* parameters, then optional parameters (each with a name and a default    *)
(* value), and whether it is a closure.  A call is described by its        *)
(* arguments descriptor: the total argument count, the positional count,   *)
(* and one (name, position) pair per named argument, followed by a null    *)
(* terminator.  Parameter names are natural numbers ordered by <, which    *)
(* stands for the alphabetical order of String::CompareTo.                 *)
(***************************************************************************)
EXTENDS Integers, Sequences, SequencesExt, FiniteSets

CONSTANTS
  OptNames,    \* names an optional parameter may have
  ArgNames,    \* names a caller may use for a named argument
  MaxFixed,    \* bound on the number of fixed parameters
  MaxOpt,      \* bound on the number of optional parameters
  MaxArgs,     \* bound on the number of arguments of a call
  Null,        \* the null object
  Stale        \* contents of a slot nothing has written yet

ASSUME OptNames \subseteq Nat /\ ArgNames \subseteq Nat
ASSUME MaxFixed \in Nat /\ MaxOpt \in Nat /\ MaxArgs \in Nat

(* The value the caller passes as argument j, and the default of the       *)
(* formal parameter at position p: distinct, so that a property can tell   *)
(* which one a slot holds.                                                 *)
ArgVal(j) == 100 + j
DefaultVal(p) == 200 + p

Values == {ArgVal(j) : j \in 0..MaxArgs} \cup
          {DefaultVal(p) : p \in 0..(MaxFixed + MaxOpt)}

(* The signatures of ParsedFunction: the optional parameters in            *)
(* declaration order; their names are distinct (the parser rejects         *)
(* duplicates, and CopyParameters asserts it).                             *)
Signatures ==
  [fixed : 0..MaxFixed,
   opt : {s \in SetToAllKPermutations(OptNames) : Len(s) <= MaxOpt},
   closure : BOOLEAN]

NumParams(sig) == sig.fixed + Len(sig.opt)

(* Name of the optional formal parameter at position p.                    *)
OptName(sig, p) == sig.opt[p - sig.fixed + 1]

(* copied_parameter_count() is non-zero exactly when the function has      *)
(* optional parameters: then the prologue copies its parameters.           *)
CopiesParameters(sig) == Len(sig.opt) > 0

(* CodeGenerator::ArgumentsDescriptor: the named arguments follow the      *)
(* positional ones, and the caller inserts their (name, position) pairs    *)
(* in alphabetical order of the name.  With sorted = FALSE the pairs may   *)
(* come in any order, which is all the spec's section 6 requires.          *)
ArgumentsDescriptor(npos, names) ==
  [count |-> npos + Len(names),
   pos   |-> npos,
   named |-> [i \in 1..Len(names) |-> [name |-> names[i], pos |-> npos + i - 1]]]

NamedLists(sorted) ==
  IF sorted THEN {SetToSortSeq(S, <) : S \in SUBSET ArgNames}
            ELSE SetToAllKPermutations(ArgNames)

Calls(sorted) ==
  {d \in {ArgumentsDescriptor(n, ns) : n \in 0..MaxArgs, ns \in NamedLists(sorted)} :
     d.count <= MaxArgs}

(* The caller's argument region: argument j as the caller pushed it.       *)
CallerArgs(d) == [j \in 0..(d.count - 1) |-> ArgVal(j)]

(* A call to a function without optional parameters that is not a closure  *)
(* is entered only with matching counts and no named arguments: static     *)
(* calls are checked at compile time and dynamic ones by the resolver.     *)
(* Every other function checks its arguments itself.                       *)
Reaches(sig, d) ==
  sig.closure \/ CopiesParameters(sig) \/ (d.count = sig.fixed /\ d.named = <<>>)

(* The binding contract of section 4.3: enough positional arguments for    *)
(* the fixed parameters, no more arguments than parameters, and every      *)
(* named argument names an optional parameter not already passed by        *)
(* position.                                                               *)
Valid(sig, d) ==
  /\ d.pos >= sig.fixed
  /\ d.count <= NumParams(sig)
  /\ \A i \in 1..Len(d.named) :
       \E p \in sig.fixed..(NumParams(sig) - 1) :
         p >= d.pos /\ OptName(sig, p) = d.named[i].name

(* What the prologue accepts, per section 4.3: with optional parameters    *)
(* the full contract above; without them, a total argument count equal    *)
(* to the fixed parameter count.                                           *)
Accepted(sig, d) ==
  IF CopiesParameters(sig) THEN Valid(sig, d) ELSE d.count = sig.fixed

(* The value each formal parameter is bound to by an accepted call.        *)
Expected(sig, d) ==
  [p \in 0..(NumParams(sig) - 1) |->
     IF p < d.pos \/ p < sig.fixed THEN ArgVal(p)
     ELSE LET m == {i \in 1..Len(d.named) : d.named[i].name = OptName(sig, p)}
          IN IF m # {} THEN ArgVal(d.named[CHOOSE i \in m : TRUE].pos)
                       ELSE DefaultVal(p)]
=============================================================================
