------------------------------- MODULE IRDefs -------------------------------
(***************************************************************************)
(* The intermediate representation the code generator consumes, as far as *)
(* the operand stack is concerned.  A block is a list of instructions:     *)
(* Bind(comp) and Do(comp) evaluate a computation and keep or drop its     *)
(* result, PickTemp/TuckTemp copy temps, Return ends the function.  Each   *)
(* operand of a computation is a Value: a temp (a stack slot) or a         *)
(* constant.  The IR allocates temps in stack order, and the operands of a *)
(* computation that are temps are the top temps in operand order: this is *)
(* what VerifyCallComputation and VerifyValues check.                      *)
(*                                                                         *)
(* Values are records [k, n]: constants, the temps the block found on the  *)
(* stack, call results and allocated objects (named by the position of     *)
(* their call in the log of calls), and contexts.  Memory is one function  *)
(* `heap` from [obj, slot] to values: locals (obj = the frame), instance   *)
(* fields, static fields and array elements.                               *)
(***************************************************************************)
EXTENDS Naturals, Sequences, SequencesExt

CONSTANTS
    MaxTemps,   \* bound on the operand-stack height
    MaxSteps,   \* bound on the instructions executed
    Ops         \* the instruction kinds the builder may emit in this model

V(k, n) == [k |-> k, n |-> n]

Null == V("null", 0)
True == V("bool", 1)
False == V("bool", 0)
BoolObj(b) == IF b THEN True ELSE False

\* A temp pushed by the code before this block.
Incoming(j) == V("in", j)
\* The result of the call at position i of the log, the object it allocated.
Result(i) == V("result", i)
Obj(i) == V("obj", i)

TempArg == V("temp", 0)
ConstVals == {True, Null}
ArgShapes == {TempArg} \cup ConstVals

Frame == V("frame", 0)
Statics == V("static", 0)
Key(o, slot) == [obj |-> o, slot |-> slot]

Store(h, key, v) == [x \in DOMAIN h \cup {key} |-> IF x = key THEN v ELSE h[x]]
Load(h, key) == IF key \in DOMAIN h THEN h[key] ELSE Null

Call(callee, args) == [callee |-> callee, args |-> args]

\* Number of temp operands of an instruction.
NT(ins) == Len(SelectSeq(ins.args, LAMBDA a : a = TempArg))

Ins(op, args, bind, x) == [op |-> op, args |-> args, bind |-> bind, x |-> x]

AllTemps(k) == [i \in 1..k |-> TempArg]
Shapes(k) == [1..k -> ArgShapes]

\* The function of a CreateClosure (its x): bit 0 says its signature class
\* has type arguments, bit 1 that it is an implicit instance closure.
HasTypeArguments(x) == x % 2 = 1
IsImplicitInstanceClosure(x) == x \div 2 = 1

\* The builder passes the type arguments and the receiver as temps.
ClosureArgCount(x) ==
    (IF HasTypeArguments(x) THEN 1 ELSE 0) + (IF IsImplicitInstanceClosure(x) THEN 1 ELSE 0)

(***************************************************************************)
(* The instructions the builder can emit when n temps are on the stack.    *)
(* x is the comparison kind (1 = ===), the captured flag of a local, the  *)
(* flags of a closure's function, or the temp index of PickTemp/TuckTemp. *)
(***************************************************************************)
Computations(n) ==
    {Ins("InstanceCall", AllTemps(k), b, 0) : k \in 1..2, b \in BOOLEAN}
    \cup {Ins("StaticCall", AllTemps(k), b, 0) : k \in 0..2, b \in BOOLEAN}
    \cup {Ins("ClosureCall", AllTemps(k), b, 0) : k \in 2..3, b \in BOOLEAN}
    \cup {Ins("StrictCompare", a, b, x) : a \in Shapes(2), b \in BOOLEAN, x \in 0..1}
    \cup {Ins("BooleanNegate", a, b, 0) : a \in Shapes(1), b \in BOOLEAN}
    \cup {Ins("LoadLocal", <<>>, b, x) : b \in BOOLEAN, x \in 0..1}
    \cup {Ins("StoreLocal", a, b, x) : a \in Shapes(1), b \in BOOLEAN, x \in 0..1}
    \cup {Ins("LoadInstanceField", a, b, 0) : a \in Shapes(1), b \in BOOLEAN}
    \* The value of a StoreInstanceField is not defined: it is only a Do.
    \cup {Ins("StoreInstanceField", a, FALSE, 0) : a \in Shapes(2)}
    \cup {Ins("LoadStaticField", <<>>, b, 0) : b \in BOOLEAN}
    \cup {Ins("StoreStaticField", a, b, 0) : a \in Shapes(1), b \in BOOLEAN}
    \cup {Ins("StoreIndexed", AllTemps(3), b, 0) : b \in BOOLEAN}
    \cup {Ins("InstanceSetter", AllTemps(2), b, 0) : b \in BOOLEAN}
    \cup {Ins("NativeCall", <<>>, b, 0) : b \in BOOLEAN}
    \cup {Ins("AllocateObject", AllTemps(k), b, 0) : k \in 0..1, b \in BOOLEAN}
    \cup {Ins("CreateArray", a, b, 0) : a \in UNION {Shapes(k) : k \in 0..2}, b \in BOOLEAN}
    \cup {Ins("CreateClosure", AllTemps(ClosureArgCount(x)), b, x) : x \in 0..3, b \in BOOLEAN}
    \cup {Ins("CurrentContext", <<>>, b, 0) : b \in BOOLEAN}
    \cup {Ins("NativeLoadField", AllTemps(1), b, 0) : b \in BOOLEAN}
    \cup {Ins("Throw", a, FALSE, 0) : a \in Shapes(1)}
    \cup {Ins("ReThrow", a, FALSE, 0) : a \in Shapes(2)}
    \cup {Ins("AssertAssignable", a, b, 0) : a \in Shapes(1), b \in BOOLEAN}

AllInstructions(n) ==
    {ins \in Computations(n) :
        /\ NT(ins) <= n
        /\ n - NT(ins) + (IF ins.bind THEN 1 ELSE 0) <= MaxTemps}
    \cup {Ins("PickTemp", <<>>, FALSE, s) : s \in IF n < MaxTemps THEN 0..(n - 1) ELSE {}}
    \cup {Ins("TuckTemp", <<>>, FALSE, d) : d \in 0..(n - 2)}
    \* Return consumes the last temp (or a constant when none is left).
    \cup {Ins("Return", a, FALSE, 0) : a \in {s \in Shapes(1) : NT(Ins("Return", s, FALSE, 0)) = n}}

\* The instructions of the kinds in Ops.
Instructions(n) == {ins \in AllInstructions(n) : ins.op \in Ops}
=============================================================================
