---------------------------- MODULE OperandStack ----------------------------
(***************************************************************************)
(* The code the computation rules of FlowGraphCompiler emit, as it runs on *)
(* the machine: `mstack` is the part of the frame above the locals (the    *)
(* temps, top at the end), `rax` the result register, `ctx` the CTX        *)
(* register.  One action per rule (VisitBind/VisitDo around a computation, *)
(* VisitPickTemp, VisitTuckTemp, VisitReturn), each doing the rule's pops, *)
(* pushes, moves and calls in the code's order.  A stub or runtime entry   *)
(* called with k stack arguments sees the top k words; the call is logged. *)
(*                                                                         *)
(* The machine refines IRInterp with the temps mapped to the machine stack.*)
(***************************************************************************)
EXTENDS IRDefs

VARIABLES mstack, rax, ctx, heap, log, status, steps,
          ntemps,   \* the number of temps the IR has at this point
          trace     \* FLAG_trace_functions

vars == <<mstack, rax, ctx, heap, log, status, steps, ntemps, trace>>

\* The temps of the IR after an instruction: the builder's own count.
IRTemps(ins, n) ==
    CASE ins.op = "PickTemp" -> n + 1
      [] ins.op = "TuckTemp" -> n
      [] OTHER -> n - NT(ins) + (IF ins.bind THEN 1 ELSE 0)

Pop(s) == [val |-> Last(s), s |-> Front(s)]
Top(s, k) == SubSeq(s, Len(s) - k + 1, Len(s))
Drop(s, k) == SubSeq(s, 1, Len(s) - k)

\* LoadValue: a constant is an immediate, a temp is popped.
LoadValue(v, s) == IF v = TempArg THEN Pop(s) ELSE [val |-> v, s |-> s]

\* A call whose k arguments are the top k words, which are dropped after
\* the call (EmitInstanceCall, and GenerateCall followed by addq RSP).
CallWithArgs(s, lg, callee, k) ==
    [s |-> Drop(s, k), rax |-> Result(Len(lg) + 1),
     log |-> Append(lg, Call(callee, Top(s, k)))]

\* The DEBUG assertion of the call rules: every argument is a temp, and
\* the temps are consecutive (the builder allocates them in stack order).
VerifyCallComputation(ins) == \A j \in DOMAIN ins.args : ins.args[j] = TempArg

Init ==
    /\ ntemps \in 0..MaxTemps
    /\ mstack = [j \in 1..ntemps |-> Incoming(j)]
    /\ rax = Null
    /\ ctx = V("ctx", 0)
    /\ heap = <<>>
    /\ log = <<>>
    /\ status = "running"
    /\ steps = 0
    /\ trace \in BOOLEAN

\* VisitBind pushes RAX after the computation; VisitDo drops it.
Finish(ins, s, r, h, lg, c) ==
    /\ mstack' = IF ins.bind THEN Append(s, r) ELSE s
    /\ rax' = r /\ heap' = h /\ log' = lg /\ ctx' = c
    /\ status' = "running"

Bailout == status' = "bailout" /\ UNCHANGED <<mstack, rax, ctx, heap, log>>

VisitInstanceCall(ins) ==
    /\ ins.op = "InstanceCall" /\ VerifyCallComputation(ins)
    /\ LET c == CallWithArgs(mstack, log, ins.op, Len(ins.args))
       IN Finish(ins, c.s, c.rax, heap, c.log, ctx)

VisitStaticCall(ins) ==
    /\ ins.op = "StaticCall" /\ VerifyCallComputation(ins)
    /\ LET c == CallWithArgs(mstack, log, ins.op, Len(ins.args))
       IN Finish(ins, c.s, c.rax, heap, c.log, ctx)

\* The closure call stub takes the closure and the arguments; the saved
\* context is the temp below them and is popped back into CTX.
VisitClosureCall(ins) ==
    /\ ins.op = "ClosureCall" /\ VerifyCallComputation(ins)
    /\ LET c == CallWithArgs(mstack, log, ins.op, Len(ins.args) - 1)
           saved == Pop(c.s)
       IN Finish(ins, saved.s, c.rax, heap, c.log, saved.val)

VisitStrictCompare(ins) ==
    /\ ins.op = "StrictCompare"
    /\ LET a == LoadValue(ins.args[1], mstack)
           d == LoadValue(ins.args[2], a.s)
       IN Finish(ins, d.s, BoolObj((a.val = d.val) = (ins.x = 1)), heap, log, ctx)

VisitBooleanNegate(ins) ==
    /\ ins.op = "BooleanNegate"
    /\ LET d == LoadValue(ins.args[1], mstack)
       IN Finish(ins, d.s, IF d.val # True THEN True ELSE False, heap, log, ctx)

VisitLoadLocal(ins) ==
    /\ ins.op = "LoadLocal"
    /\ IF ins.x = 1 THEN Bailout
       ELSE Finish(ins, mstack, Load(heap, Key(Frame, 0)), heap, log, ctx)

VisitStoreLocal(ins) ==
    /\ ins.op = "StoreLocal"
    /\ IF ins.x = 1 THEN Bailout
       ELSE LET a == LoadValue(ins.args[1], mstack)
            IN Finish(ins, a.s, a.val, Store(heap, Key(Frame, 0), a.val), log, ctx)

VisitLoadInstanceField(ins) ==
    /\ ins.op = "LoadInstanceField"
    /\ LET a == LoadValue(ins.args[1], mstack)
       IN Finish(ins, a.s, Load(heap, Key(a.val, 0)), heap, log, ctx)

\* The value is loaded (popped) first, then the instance; the result of
\* VerifyValues, which checks that order, is ignored.
VisitStoreInstanceField(ins) ==
    /\ ins.op = "StoreInstanceField"
    /\ LET d == LoadValue(ins.args[2], mstack)
           a == LoadValue(ins.args[1], d.s)
       IN Finish(ins, a.s, a.val, Store(heap, Key(a.val, 0), d.val), log, ctx)

VisitLoadStaticField(ins) ==
    /\ ins.op = "LoadStaticField"
    /\ Finish(ins, mstack, Load(heap, Key(Statics, 0)), heap, log, ctx)

VisitStoreStaticField(ins) ==
    /\ ins.op = "StoreStaticField"
    /\ LET a == LoadValue(ins.args[1], mstack)
       IN Finish(ins, a.s, a.val, Store(heap, Key(Statics, 0), a.val), log, ctx)

\* StoreIndexed without the saved copy of the value under the arguments.
VisitStoreIndexedNoCopy(ins) ==
    /\ ins.op = "StoreIndexed"
    /\ LET c == CallWithArgs(mstack, log, ins.op, 3)
       IN Finish(ins, c.s, c.rax, heap, c.log, ctx)

\* Pop value, index and receiver; push the value, then the three arguments;
\* call []= ; pop the saved value into RAX.
VisitStoreIndexed(ins) ==
    /\ ins.op = "StoreIndexed"
    /\ LET val == Pop(mstack)  idx == Pop(val.s)  recv == Pop(idx.s)
           c == CallWithArgs(recv.s \o <<val.val, recv.val, idx.val, val.val>>, log, ins.op, 3)
           saved == Pop(c.s)
       IN Finish(ins, saved.s, saved.val, heap, c.log, ctx)

VisitInstanceSetter(ins) ==
    /\ ins.op = "InstanceSetter"
    /\ LET val == Pop(mstack)  recv == Pop(val.s)
           c == CallWithArgs(recv.s \o <<val.val, recv.val, val.val>>, log, ins.op, 2)
           saved == Pop(c.s)
       IN Finish(ins, saved.s, saved.val, heap, c.log, ctx)

\* Push a null result slot, call the native stub (arguments are read from
\* the frame), which stores its result in the slot; pop it into RAX.
VisitNativeCall(ins) ==
    /\ ins.op = "NativeCall"
    /\ LET c == CallWithArgs(Append(mstack, Null), log, ins.op, 0)
           slot == Pop([c.s EXCEPT ![Len(c.s)] = c.rax])
       IN Finish(ins, slot.s, slot.val, heap, c.log, ctx)

\* The allocation stubs take their arguments on the stack; each is popped.
VisitAllocateObject(ins) ==
    /\ ins.op = "AllocateObject"
    /\ LET c == CallWithArgs(mstack, log, ins.op, Len(ins.args))
       IN Finish(ins, c.s, Obj(Len(log) + 1), heap, c.log, ctx)

\* CreateClosure without dropping the stub's arguments.
VisitCreateClosureNoDrop(ins) ==
    /\ ins.op = "CreateClosure"
    /\ LET c == CallWithArgs(mstack, log, ins.op, Len(ins.args))
       IN Finish(ins, mstack, Obj(Len(log) + 1), heap, c.log, ctx)

\* The stub is called, then one popq discards the type arguments if the
\* signature class has them, and one the receiver of an implicit closure.
VisitCreateClosure(ins) ==
    /\ ins.op = "CreateClosure"
    /\ LET c == CallWithArgs(mstack, log, ins.op, ClosureArgCount(ins.x))
           t == IF HasTypeArguments(ins.x) THEN Drop(mstack, 1) ELSE mstack
           r == IF IsImplicitInstanceClosure(ins.x) THEN Drop(t, 1) ELSE t
       IN Finish(ins, r, Obj(Len(log) + 1), heap, c.log, ctx)

\* Element i (from the last down) is popped if it is a temp, else loaded.
RECURSIVE InitElements(_, _, _, _)
InitElements(ins, arr, i, m) ==
    IF i = 0 THEN m
    ELSE LET e == LoadValue(ins.args[i], m.s)
         IN InitElements(ins, arr, i - 1,
                         [s |-> e.s, h |-> Store(m.h, Key(arr, i), e.val)])

VisitCreateArray(ins) ==
    /\ ins.op = "CreateArray"
    /\ LET c == CallWithArgs(mstack, log, ins.op, 0)
           arr == Obj(Len(log) + 1)
           m == InitElements(ins, arr, Len(ins.args), [s |-> c.s, h |-> heap])
       IN Finish(ins, m.s, arr, m.h,
                 Append(log, Call(ins.op, <<V("len", Len(ins.args))>>)), ctx)

VisitCurrentContext(ins) ==
    /\ ins.op = "CurrentContext"
    /\ Finish(ins, mstack, ctx, heap, log, ctx)

\* NativeLoadField pops its operand without LoadValue.
VisitNativeLoadField(ins) ==
    /\ ins.op = "NativeLoadField"
    /\ LET a == Pop(mstack)
       IN Finish(ins, a.s, Load(heap, Key(a.val, 1)), heap, log, ctx)

\* Throw: push the exception and call the throw runtime entry, which does
\* not return.  ReThrow and AssertAssignable abandon the compilation.
VisitThrow(ins) ==
    /\ ins.op = "Throw"
    /\ LET a == LoadValue(ins.args[1], mstack)
           c == CallWithArgs(Append(a.s, a.val), log, ins.op, 1)
       IN /\ mstack' = Append(a.s, a.val) /\ rax' = a.val
          /\ log' = c.log /\ status' = "thrown"
          /\ UNCHANGED <<heap, ctx>>

VisitUnsupported(ins) ==
    /\ ins.op \in {"ReThrow", "AssertAssignable"}
    /\ Bailout

\* PickTemp pushes the word at RSP + (destination - source - 1) words,
\* destination being the new top index in the IR's numbering (ntemps).
VisitPickTemp(ins) ==
    /\ ins.op = "PickTemp"
    /\ LET offset == ntemps - ins.x - 1
       IN mstack' = Append(mstack, mstack[Len(mstack) - offset])
    /\ UNCHANGED <<rax, ctx, heap, log, status>>

\* TuckTemp copies the top (source, the IR's index ntemps - 1) to
\* RSP + (source - destination) words.
VisitTuckTemp(ins) ==
    /\ ins.op = "TuckTemp"
    /\ LET offset == (ntemps - 1) - ins.x
       IN /\ rax' = mstack[Len(mstack)]
          /\ mstack' = [mstack EXCEPT ![Len(mstack) - offset] = mstack[Len(mstack)]]
    /\ UNCHANGED <<ctx, heap, log, status>>

\* The function object the exit trace passes.
TracedFunction == V("function", 0)

\* The exit trace with a single pop: the argument slot is taken for the
\* result.
TraceFunctionExitOnePop(r, s, lg) ==
    LET s1 == Append(Append(s, r), TracedFunction)
        p1 == Pop(s1)
    IN [rax |-> p1.val, s |-> p1.s,
        log |-> Append(lg, Call("TraceFunctionExit", Top(s1, 1)))]

\* FLAG_trace_functions at return: push the result and the function, call
\* the exit-trace entry with the function, pop the argument, pop the result.
TraceFunctionExit(r, s, lg) ==
    LET s1 == Append(Append(s, r), TracedFunction)
        p1 == Pop(s1)
        p2 == Pop(p1.s)
    IN [rax |-> p2.val, s |-> p2.s,
        log |-> Append(lg, Call("TraceFunctionExit", Top(s1, 1)))]

\* Return: load the value; in DEBUG builds the stack height is compared
\* with the frame size and the code stops if they differ; then the exit
\* trace, LeaveFrame and ret.
VisitReturn(ins) ==
    /\ ins.op = "Return"
    /\ LET a == LoadValue(ins.args[1], mstack)
           t == IF trace /\ a.s = <<>> THEN TraceFunctionExit(a.val, a.s, log)
                ELSE [rax |-> a.val, s |-> a.s, log |-> log]
       IN /\ rax' = t.rax /\ mstack' = t.s /\ log' = t.log
          /\ status' = IF a.s = <<>> THEN "returned" ELSE "stopped"
    /\ UNCHANGED <<ctx, heap>>

Step(ins) ==
    \/ VisitInstanceCall(ins) \/ VisitStaticCall(ins) \/ VisitClosureCall(ins)
    \/ VisitStrictCompare(ins) \/ VisitBooleanNegate(ins)
    \/ VisitLoadLocal(ins) \/ VisitStoreLocal(ins)
    \/ VisitLoadInstanceField(ins) \/ VisitStoreInstanceField(ins)
    \/ VisitLoadStaticField(ins) \/ VisitStoreStaticField(ins)
    \/ VisitStoreIndexed(ins) \/ VisitInstanceSetter(ins) \/ VisitNativeCall(ins)
    \/ VisitAllocateObject(ins) \/ VisitCreateClosure(ins) \/ VisitCreateArray(ins)
    \/ VisitCurrentContext(ins) \/ VisitNativeLoadField(ins)
    \/ VisitThrow(ins) \/ VisitUnsupported(ins)
    \/ VisitPickTemp(ins) \/ VisitTuckTemp(ins) \/ VisitReturn(ins)

Next ==
    /\ status = "running" /\ steps < MaxSteps
    /\ steps' = steps + 1
    /\ \E ins \in Instructions(ntemps) :
          Step(ins) /\ ntemps' = IRTemps(ins, ntemps)
    /\ UNCHANGED trace

\* The code stops once the function returned or threw, or the compilation
\* was abandoned, or when the bound on executed instructions is reached.
Stopped == (status # "running" \/ steps = MaxSteps) /\ UNCHANGED vars

Spec == Init /\ [][Next \/ Stopped]_vars

-----------------------------------------------------------------------------

TypeOK ==
    /\ Len(mstack) <= MaxTemps + 1
    /\ status \in {"running", "returned", "thrown", "bailout", "stopped"}
    /\ steps \in 0..MaxSteps

ABS == INSTANCE IRInterp WITH
    temps <- IF status = "thrown" THEN <<>> ELSE mstack,
    retval <- IF status = "returned" THEN rax ELSE Null,
    log <- SelectSeq(log, LAMBDA c : c.callee # "TraceFunctionExit")

(* Every rule keeps the machine stack equal to the IR's temps and has the  *)
(* effect the IR prescribes: calls see their arguments in order, the       *)
(* indexed store and the setter yield the stored value, CreateArray puts   *)
(* each element at its index, the closure call restores the context, and   *)
(* PickTemp/TuckTemp address the right temp.  The exit trace is a debug   *)
(* call the IR does not know of; it must leave the returned value intact.  *)
Refinement == ABS!Spec
=============================================================================
