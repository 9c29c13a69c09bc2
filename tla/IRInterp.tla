------------------------------ MODULE IRInterp ------------------------------
(***************************************************************************)
(* Abstract specification of what the code of a block must do: evaluate   *)
(* its instructions over the IR's temps.  Each computation reads its       *)
(* operands, consumes its temp operands, has its effect (a call in `log`,  *)
(* a store in `heap`, a new context) and, under Bind, adds its result as a *)
(* new temp.  Nothing here mentions registers or stack offsets.            *)
(***************************************************************************)
EXTENDS IRDefs

VARIABLES
    temps,      \* the IR temps of the frame, oldest first
    heap,       \* locals, fields, statics and array elements
    log,        \* the calls made, in order
    ctx,        \* the current context
    status,     \* "running", "returned", "thrown" or "bailout"
    retval,     \* the value returned
    steps       \* instructions executed

vars == <<temps, heap, log, ctx, status, retval, steps>>

\* The value of operand j: a temp operand is the temp at its place among
\* the top NT(ins) temps.
Operand(ins, t, j) ==
    IF ins.args[j] = TempArg
      THEN t[Len(t) - NT(ins) + NT([args |-> SubSeq(ins.args, 1, j)])]
      ELSE ins.args[j]

Operands(ins, t) == [j \in DOMAIN ins.args |-> Operand(ins, t, j)]

Consumed(ins, t) == SubSeq(t, 1, Len(t) - NT(ins))

\* The effect and result of a computation on its operand values v.
Outcome(res, h, lg, c) == [res |-> res, heap |-> h, log |-> lg, ctx |-> c]

Eval(ins, v, h, lg, c) ==
    LET f == Len(lg) + 1
        called == Append(lg, Call(ins.op, v))
    IN CASE ins.op \in {"InstanceCall", "StaticCall", "NativeCall"}
                -> Outcome(Result(f), h, called, c)
         [] ins.op = "ClosureCall"
                -> Outcome(Result(f), h, Append(lg, Call(ins.op, Tail(v))), v[1])
         [] ins.op = "StrictCompare"   -> Outcome(BoolObj((v[1] = v[2]) = (ins.x = 1)), h, lg, c)
         [] ins.op = "BooleanNegate"   -> Outcome(BoolObj(v[1] # True), h, lg, c)
         [] ins.op = "LoadLocal"       -> Outcome(Load(h, Key(Frame, 0)), h, lg, c)
         [] ins.op = "StoreLocal"      -> Outcome(v[1], Store(h, Key(Frame, 0), v[1]), lg, c)
         [] ins.op = "LoadInstanceField" -> Outcome(Load(h, Key(v[1], 0)), h, lg, c)
         [] ins.op = "StoreInstanceField" -> Outcome(Null, Store(h, Key(v[1], 0), v[2]), lg, c)
         [] ins.op = "LoadStaticField" -> Outcome(Load(h, Key(Statics, 0)), h, lg, c)
         [] ins.op = "StoreStaticField" -> Outcome(v[1], Store(h, Key(Statics, 0), v[1]), lg, c)
         \* The indexed store and the setter yield the stored value.
         [] ins.op = "StoreIndexed"    -> Outcome(v[3], h, called, c)
         [] ins.op = "InstanceSetter"  -> Outcome(v[2], h, called, c)
         [] ins.op \in {"AllocateObject", "CreateClosure"}
                -> Outcome(Obj(f), h, called, c)
         [] ins.op = "CreateArray"
                -> Outcome(Obj(f),
                           [x \in DOMAIN h \cup {Key(Obj(f), i) : i \in DOMAIN v} |->
                               IF x.obj = Obj(f) THEN v[x.slot] ELSE h[x]],
                           Append(lg, Call(ins.op, <<V("len", Len(v))>>)), c)
         [] ins.op = "CurrentContext"  -> Outcome(c, h, lg, c)
         [] ins.op = "NativeLoadField" -> Outcome(Load(h, Key(v[1], 1)), h, lg, c)
         [] ins.op = "Throw"           -> Outcome(Null, h, called, c)

\* Constructs this tier cannot compile abandon the compilation.
Unsupported(ins) ==
    \/ ins.op \in {"AssertAssignable", "ReThrow"}
    \/ ins.op \in {"LoadLocal", "StoreLocal"} /\ ins.x = 1

Init ==
    /\ \E n \in 0..MaxTemps : temps = [j \in 1..n |-> Incoming(j)]
    /\ heap = <<>>
    /\ log = <<>>
    /\ ctx = V("ctx", 0)
    /\ status = "running"
    /\ retval = Null
    /\ steps = 0

Running == status = "running" /\ steps < MaxSteps

Compute(ins) ==
    /\ ins.op \notin {"PickTemp", "TuckTemp", "Return"}
    /\ steps' = steps + 1
    /\ IF Unsupported(ins)
         THEN status' = "bailout" /\ UNCHANGED <<temps, heap, log, ctx, retval>>
         ELSE LET r == Eval(ins, Operands(ins, temps), heap, log, ctx)
              IN /\ temps' = IF ins.op = "Throw" THEN <<>>
                             ELSE IF ins.bind THEN Append(Consumed(ins, temps), r.res)
                             ELSE Consumed(ins, temps)
                 /\ heap' = r.heap /\ log' = r.log /\ ctx' = r.ctx
                 /\ status' = IF ins.op = "Throw" THEN "thrown" ELSE "running"
                 /\ UNCHANGED retval

PickTemp(ins) ==
    /\ ins.op = "PickTemp"
    /\ temps' = Append(temps, temps[ins.x + 1])
    /\ steps' = steps + 1
    /\ UNCHANGED <<heap, log, ctx, status, retval>>

TuckTemp(ins) ==
    /\ ins.op = "TuckTemp"
    /\ temps' = [temps EXCEPT ![ins.x + 1] = temps[Len(temps)]]
    /\ steps' = steps + 1
    /\ UNCHANGED <<heap, log, ctx, status, retval>>

Return(ins) ==
    /\ ins.op = "Return"
    /\ retval' = Operand(ins, temps, 1)
    /\ temps' = Consumed(ins, temps)
    /\ status' = "returned"
    /\ steps' = steps + 1
    /\ UNCHANGED <<heap, log, ctx>>

Next ==
    /\ Running
    /\ \E ins \in Instructions(Len(temps)) :
          Compute(ins) \/ PickTemp(ins) \/ TuckTemp(ins) \/ Return(ins)

Spec == Init /\ [][Next]_vars
=============================================================================
