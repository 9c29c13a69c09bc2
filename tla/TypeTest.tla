------------------------------- MODULE TypeTest -------------------------------
(***************************************************************************)
(* The code GenerateInstanceOf emits for `obj is T` / `obj is! T`, as it   *)
(* runs.  The compile-time choices of the generator (is T the top type, is *)
(* it instantiated, does its class take type arguments, is it raw, is it   *)
(* the List/String/bool interface) select which blocks exist; they appear  *)
(* as guards on the type.  Each action is one emitted block, executed on   *)
(* the operand stack `stack` with the registers RAX, RCX and RDX.          *)
(*                                                                         *)
(* The object model is a small class hierarchy with the built-in classes   *)
(* the ladder names, two user classes, a user interface and a user generic *)
(* class.  The instanceof runtime entry answers with the reference         *)
(* relation InstanceOf below.                                              *)
(***************************************************************************)
EXTENDS Naturals, Sequences, SequencesExt

VARIABLES
    type,       \* the destination type (compile-time constant)
    negate,     \* negate_result (compile-time constant)
    obj,        \* the tested object
    pc,         \* the block about to run
    stack,      \* the operand stack, top at the end
    rax, rcx, rdx,
    calls       \* number of calls to the instanceof runtime entry

vars == <<type, negate, obj, pc, stack, rax, rcx, rdx, calls>>

(***************************************************************************)
(* The class hierarchy (Class::IsSubtypeOf, the object store).             *)
(***************************************************************************)
Interfaces == {"int", "String", "bool", "List", "I"}

Classes == {"Object", "Smi", "OneByteString", "Bool", "ObjectArray",
            "GrowableObjectArray", "A", "B", "G"}

Parameterized == {"List", "ObjectArray", "GrowableObjectArray", "G"}

\* Direct superclass and implemented interfaces of each class.
Super(c) ==
    CASE c = "Smi"                 -> {"Object", "int"}
      [] c = "OneByteString"       -> {"Object", "String"}
      [] c = "Bool"                -> {"Object", "bool"}
      [] c = "ObjectArray"         -> {"Object", "List"}
      [] c = "GrowableObjectArray" -> {"Object", "List"}
      [] c = "B"                   -> {"A", "I"}
      [] c = "Object"              -> {}
      [] OTHER                     -> {"Object"}

RECURSIVE SubClass(_, _)
SubClass(c, d) == c = d \/ \E s \in Super(c) : SubClass(s, d)

\* A type is a class or interface with type arguments "raw" (absent or all
\* dynamic) or a class name; "T" is a type parameter of the enclosing class.
TopTypes == {[cls |-> "Object", args |-> "raw"], [cls |-> "Dynamic", args |-> "raw"]}

Types ==
    TopTypes \cup {[cls |-> "T", args |-> "raw"]}
    \cup {[cls |-> c, args |-> "raw"] : c \in (Interfaces \cup Classes) \ {"Object", "Smi"}}
    \cup {[cls |-> c, args |-> a] : c \in {"List", "G"}, a \in {"A", "B"}}

Null == [cls |-> "Null", args |-> "raw"]

\* The canonical booleans are the two instances of class Bool.
True == [cls |-> "Bool", args |-> "true"]
False == [cls |-> "Bool", args |-> "false"]

Objects ==
    {Null, True}
    \cup {[cls |-> c, args |-> "raw"] : c \in {"Smi", "OneByteString", "A", "B", "ObjectArray"}}
    \cup {[cls |-> c, args |-> a] : c \in {"GrowableObjectArray", "G"}, a \in {"A", "B"}}

\* The instanceof runtime entry: null is an instance of the top types only;
\* otherwise the class must be a subtype and type arguments are covariant,
\* with raw (dynamic) arguments matching anything.
InstanceOf(o, t) ==
    \/ t \in TopTypes
    \/ /\ o # Null
       /\ SubClass(o.cls, t.cls)
       /\ t.args = "raw" \/ o.args = "raw" \/ SubClass(o.args, t.args)

BoolObj(b) == IF b THEN True ELSE False

\* Compile-time predicates on the destination type used by the generator.
IsInstantiated(t) == t.cls # "T"
IsTopType(t) == IsInstantiated(t) /\ InstanceOf([cls |-> "Object", args |-> "raw"], t)
RequiresTypeArguments(t) == t.cls \in Parameterized
IsRawType(t) == t.args = "raw"
IsInterface(t) == t.cls \in Interfaces

\* The class the non-parameterized branch compares with, or "none".
CompareClass(t) ==
    CASE t.cls = "String"     -> "OneByteString"
      [] t.cls = "bool"       -> "Bool"
      [] ~IsInterface(t)      -> t.cls
      [] OTHER                -> "none"

\* The operand stack below the tested value: one temp of the enclosing code.
Prefix == <<[cls |-> "Temp", args |-> "raw"]>>

\* The Smi token location pushed for the runtime entry.
Location == [cls |-> "Smi", args |-> "location"]

(***************************************************************************)
(* Init: the tested value is on top of the operand stack; the generator    *)
(* has not yet run for this InstanceOf computation.                        *)
(***************************************************************************)
Init ==
    /\ type \in Types
    /\ negate \in BOOLEAN
    /\ obj \in Objects
    /\ pc = "compile"
    /\ stack = Prefix \o <<obj>>
    /\ rax = Null /\ rcx = "none" /\ rdx = Null
    /\ calls = 0

Goto(p) == pc' = p

(* Compile time: an uninstantiated destination type needs the instantiator *)
(* type arguments, and GenerateInstantiatorTypeArguments bails out.        *)
Compile ==
    /\ pc = "compile"
    /\ Goto(IF IsInstantiated(type) THEN "pop" ELSE "aborted")
    /\ UNCHANGED <<type, negate, obj, stack, rax, rcx, rdx, calls>>

(* VisitInstanceOf: pop the value into RAX; for the top type the whole     *)
(* test is the constant load, and GenerateInstanceOf returns at once.      *)
PopInstance ==
    /\ pc = "pop"
    /\ stack' = Front(stack)
    /\ IF IsTopType(type)
         THEN rax' = BoolObj(~negate) /\ Goto("end")
         ELSE rax' = Last(stack) /\ Goto("null_check")
    /\ UNCHANGED <<type, negate, obj, rcx, rdx, calls>>

PushResult(b) == stack' = Append(stack, BoolObj(b # negate))

\* NullCheck without the null test: null falls through to the class tests.
NullCheckDropped ==
    /\ pc = "null_check"
    /\ Goto(IF RequiresTypeArguments(type) THEN "param_smi" ELSE "smi_test")
    /\ UNCHANGED <<type, negate, obj, stack, rax, rcx, rdx, calls>>

\* The null check of an instantiated type: null yields false.
NullCheck ==
    /\ pc = "null_check"
    /\ IF rax = Null
         THEN Goto("done") /\ PushResult(FALSE)
         ELSE /\ Goto(IF RequiresTypeArguments(type) THEN "param_smi" ELSE "smi_test")
              /\ UNCHANGED stack
    /\ UNCHANGED <<type, negate, obj, rax, rcx, rdx, calls>>

\* Parameterized destination class: a Smi goes to the runtime; for a raw
\* type the List interface and non-interface classes have inline checks.
ParamSmiTest ==
    /\ pc = "param_smi"
    /\ Goto(CASE rax.cls = "Smi"                              -> "runtime_call"
              [] IsRawType(type) /\ type.cls = "List"         -> "list_check"
              [] IsRawType(type) /\ ~IsInterface(type)        -> "class_eq"
              [] OTHER                                        -> "runtime_call")
    /\ UNCHANGED <<type, negate, obj, stack, rax, rcx, rdx, calls>>

ListCheck ==
    /\ pc = "list_check"
    /\ rcx' = rax.cls
    /\ IF rax.cls \in {"ObjectArray", "GrowableObjectArray"}
         THEN Goto("done") /\ PushResult(TRUE)
         ELSE Goto("runtime_call") /\ UNCHANGED stack
    /\ UNCHANGED <<type, negate, obj, rax, rdx, calls>>

ClassEqParam ==
    /\ pc = "class_eq"
    /\ rcx' = rax.cls
    /\ IF rax.cls = type.cls
         THEN Goto("done") /\ PushResult(TRUE)
         ELSE Goto("runtime_call") /\ UNCHANGED stack
    /\ UNCHANGED <<type, negate, obj, rax, rdx, calls>>

\* Non-parameterized destination class: a Smi is decided at compile time
\* by the subtype relation of the Smi class.
SmiTest ==
    /\ pc = "smi_test"
    /\ IF rax.cls = "Smi"
         THEN Goto("done") /\ PushResult(SubClass("Smi", type.cls))
         ELSE Goto("compare_classes") /\ UNCHANGED stack
    /\ UNCHANGED <<type, negate, obj, rax, rcx, rdx, calls>>

CompareClasses ==
    /\ pc = "compare_classes"
    /\ IF CompareClass(type) = "none"
         THEN Goto("runtime_call") /\ UNCHANGED <<stack, rcx>>
         ELSE /\ rcx' = rax.cls
              /\ IF rax.cls = CompareClass(type)
                   THEN Goto("done") /\ PushResult(TRUE)
                   ELSE Goto("runtime_call") /\ UNCHANGED stack
    /\ UNCHANGED <<type, negate, obj, rax, rdx, calls>>

\* RuntimeCall dropping one argument word too few after the call.
RuntimeCallPopThree ==
    /\ pc = "runtime_call"
    /\ LET pushed == stack \o <<Null, Location, rax, type, Null>>
           answered == [pushed EXCEPT ![Len(stack) + 1] = BoolObj(InstanceOf(rax, type))]
       IN  stack' = SubSeq(answered, 1, Len(answered) - 3)
    /\ calls' = calls + 1
    /\ Goto(IF negate THEN "negate" ELSE "done")
    /\ UNCHANGED <<type, negate, obj, rax, rcx, rdx>>

\* Push the result slot, the location, the instance, the type and the null
\* instantiator; call the runtime entry, which stores its answer in the
\* result slot; drop the four arguments.
RuntimeCall ==
    /\ pc = "runtime_call"
    /\ LET pushed == stack \o <<Null, Location, rax, type, Null>>
           answered == [pushed EXCEPT ![Len(stack) + 1] = BoolObj(InstanceOf(rax, type))]
       IN  stack' = SubSeq(answered, 1, Len(answered) - 4)
    /\ calls' = calls + 1
    /\ Goto(IF negate THEN "negate" ELSE "done")
    /\ UNCHANGED <<type, negate, obj, rax, rcx, rdx>>

NegateResult ==
    /\ pc = "negate"
    /\ rdx' = Last(stack)
    /\ rax' = IF Last(stack) # True THEN True ELSE False
    /\ stack' = Append(Front(stack), rax')
    /\ Goto("done")
    /\ UNCHANGED <<type, negate, obj, rcx, calls>>

PopResult ==
    /\ pc = "done"
    /\ rax' = Last(stack)
    /\ stack' = Front(stack)
    /\ Goto("end")
    /\ UNCHANGED <<type, negate, obj, rcx, rdx, calls>>

\* The test has produced its value, or the compilation was abandoned.
Stopped ==
    /\ pc \in {"end", "aborted"}
    /\ UNCHANGED vars

Next ==
    \/ Compile \/ PopInstance \/ NullCheck \/ ParamSmiTest \/ ListCheck
    \/ ClassEqParam \/ SmiTest \/ CompareClasses \/ RuntimeCall
    \/ NegateResult \/ PopResult \/ Stopped

Spec == Init /\ [][Next]_vars

-----------------------------------------------------------------------------

TypeOK ==
    /\ type \in Types /\ negate \in BOOLEAN /\ obj \in Objects
    /\ pc \in {"compile", "aborted", "pop", "null_check", "param_smi", "list_check",
               "class_eq", "smi_test", "compare_classes", "runtime_call",
               "negate", "done", "end"}
    /\ stack \in Seq(Objects \cup {False, Prefix[1]})
    /\ calls \in 0..1

(* Whatever path the emitted ladder takes, when it finishes RAX holds the  *)
(* canonical boolean the instanceof runtime entry would give (negated for  *)
(* `is!`), and the operand stack is back to what it was below the tested   *)
(* value: the inline answers agree with the runtime and every push of the  *)
(* runtime path is popped.                                                 *)
InstanceOfCorrect ==
    pc = "end" =>
        /\ rax = BoolObj(InstanceOf(obj, type) # negate)
        /\ stack = Prefix

(* The fast paths the generator promises are taken: null tested against   *)
(* an instantiated type, and a Smi tested against a non-parameterized      *)
(* class, are answered without calling the instanceof runtime entry.       *)
FastPathsInline ==
    pc = "end" /\ (obj = Null \/ (obj.cls = "Smi" /\ ~RequiresTypeArguments(type)))
        => calls = 0
=============================================================================
