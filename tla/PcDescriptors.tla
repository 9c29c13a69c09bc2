---------------------------- MODULE PcDescriptors ----------------------------
(***************************************************************************)
(* The code FlowGraphCompiler emits for one function, as a sequence of     *)
(* machine instructions, and the PC descriptor list it builds alongside.   *)
(* `code` is the instruction buffer; every instruction is one unit of code *)
(* size, so the CodeSize() that AddCurrentDescriptor records right after a *)
(* call is the index of that call in `code`.  Instructions that are not    *)
(* calls, returns, padding or the trailer are left out: they only shift    *)
(* offsets.                                                                *)
(*                                                                         *)
(* One action per emitting step: the prologue of CompileGraph (with        *)
(* CopyParameters' mismatch path), one per computation rule that emits a   *)
(* call or a return, the trailer with the patch point, and the            *)
(* finalization that installs the tables in the Code object.  With        *)
(* FLAG_trace_functions, every exit traces through a runtime call.        *)
(***************************************************************************)
EXTENDS Naturals, Sequences, SequencesExt, FiniteSets

CONSTANTS
    Functions,  \* set of [closure, copied, debug, trace]: the function compiled
    MaxRules,   \* bound on the computation rules visited in the body
    EntryPoint  \* the address of the first instruction of the Code object

VARIABLES
    fn,         \* the function being compiled
    phase,      \* "prologue", "body", "done", "finalized" or "aborted"
    code,       \* the emitted instructions: [op, tgt]
    descs,      \* the PC descriptor list: [kind, pc]
    rules,      \* the rules visited in the body, in order
    table,      \* the Code object's PcDescriptors: [kind, pc] at absolute pcs
    handlers,   \* the Code object's exception handlers, "none" until set
    vardescs    \* the Code object's variable descriptors, "none" until set

vars == <<fn, phase, code, descs, rules, table, handlers, vardescs>>

I(op, tgt) == [op |-> op, tgt |-> tgt]
E == [code |-> code, descs |-> descs]

Emit(e, ops) == [e EXCEPT !.code = @ \o [i \in DOMAIN ops |-> I(ops[i], "none")]]
EmitCall(e, tgt) == [e EXCEPT !.code = Append(@, I("call", tgt))]

\* The descriptor records the current code size: the return address.
AddCurrentDescriptor(e, kind) ==
    [e EXCEPT !.descs = Append(@, [kind |-> kind, pc |-> Len(e.code)])]

\* GenerateCall recording the descriptor before the call instruction.
GenerateCallDescFirst(e, tgt, kind) == EmitCall(AddCurrentDescriptor(e, kind), tgt)
\* GenerateCallRuntime without its descriptor.
GenerateCallRuntimeNoDescriptor(e, entry) == EmitCall(e, entry)

GenerateCall(e, tgt, kind) == AddCurrentDescriptor(EmitCall(e, tgt), kind)

GenerateCallRuntime(e, entry) == AddCurrentDescriptor(EmitCall(e, entry), "Other")

EmitInstanceCall(e) == AddCurrentDescriptor(EmitCall(e, "InlineCache"), "IcCall")

Emitted(e) == code' = e.code /\ descs' = e.descs

\* FLAG_trace_functions at an exit: preserve the result, push the function,
\* call the exit-trace entry, and pop both.
TraceExit(e) ==
    IF fn.trace
      THEN Emit(GenerateCallRuntime(Emit(e, <<"push", "push">>), "TraceFunctionExit"),
                <<"pop", "pop">>)
      ELSE e

\* The mismatch path of CopyParameters: the closure-mismatch entry, or a
\* direct call of the noSuchMethod stub; then LeaveFrame and ret.
WrongNumArguments(e) ==
    LET m == IF fn.closure THEN GenerateCallRuntime(e, "ClosureArgumentMismatch")
             ELSE EmitCall(e, "CallNoSuchMethodFunction")
    IN Emit(TraceExit(m), <<"ret">>)

\* Without copied parameters, the count is checked in DEBUG builds and for
\* closures; a closure calls the mismatch entry, other functions Stop.
FixedArityCheck(e) ==
    IF ~(fn.debug \/ fn.closure) THEN e
    ELSE IF fn.closure THEN GenerateCallRuntime(e, "ClosureArgumentMismatch")
    ELSE Emit(e, <<"stop">>)

Init ==
    /\ fn \in Functions
    /\ phase = "prologue"
    /\ code = <<>> /\ descs = <<>> /\ rules = <<>>
    /\ table = <<>> /\ handlers = "none" /\ vardescs = "none"

CompileGraphPrologue ==
    /\ phase = "prologue"
    /\ LET p == IF fn.copied THEN WrongNumArguments(E) ELSE FixedArityCheck(E)
       IN Emitted(GenerateCallRuntime(p, "StackOverflow"))
    /\ phase' = "body"
    /\ UNCHANGED <<fn, rules, table, handlers, vardescs>>

\* A computation rule of the body: at most MaxRules of them, and the last
\* one a Return if none came before (every flow graph returns).
Rule(name, e) ==
    /\ phase = "body" /\ Len(rules) < MaxRules
    /\ Len(rules) + 1 < MaxRules \/ "Return" \in Range(rules) \/ name = "Return"
    /\ rules' = Append(rules, name)
    /\ Emitted(e)
    /\ UNCHANGED <<fn, table, handlers, vardescs>>

\* InstanceCall, StoreIndexed and InstanceSetter call through the inline cache.
VisitInstanceCall ==
    \E name \in {"InstanceCall", "StoreIndexed", "InstanceSetter"} :
        Rule(name, EmitInstanceCall(E)) /\ phase' = "body"

VisitStaticCall ==
    Rule("StaticCall", GenerateCall(E, "CallStaticFunction", "FuncCall")) /\ phase' = "body"

VisitClosureCall ==
    Rule("ClosureCall", GenerateCall(E, "CallClosureFunction", "Other")) /\ phase' = "body"

VisitNativeCall ==
    Rule("NativeCall", GenerateCall(E, "CallNativeCFunction", "Other")) /\ phase' = "body"

\* AllocateObject, CreateClosure and CreateArray call an allocation stub.
VisitAllocation ==
    \E name \in {"AllocateObject", "CreateClosure", "CreateArray"} :
        Rule(name, GenerateCall(E, "Allocate", "Other")) /\ phase' = "body"

\* InstanceOf: a top type is answered at compile time; an uninstantiated
\* type bails out; otherwise the ladder ends in the instanceof entry.
VisitInstanceOf ==
    \/ Rule("InstanceOf", E) /\ phase' = "body"
    \/ Rule("InstanceOf", E) /\ phase' = "aborted"
    \/ Rule("InstanceOf", GenerateCallRuntime(E, "Instanceof")) /\ phase' = "body"

\* The factory type arguments are instantiated at run time unless the
\* instantiator is null or can be used as is: the call is always emitted.
VisitExtractFactoryTypeArguments ==
    Rule("ExtractFactoryTypeArguments", GenerateCallRuntime(E, "InstantiateTypeArguments"))
    /\ phase' = "body"

VisitThrow ==
    Rule("Throw", Emit(GenerateCallRuntime(E, "Throw"), <<"int3">>)) /\ phase' = "body"

\* ReThrow emits its call and descriptor, then bails out.
VisitReThrow ==
    Rule("ReThrow", GenerateCallRuntime(E, "ReThrow")) /\ phase' = "aborted"

\* The exit trace, LeaveFrame, ret, eight bytes of NOP the debugger patches, and a return
\* descriptor after them.
ReturnPadding == [i \in 1..8 |-> "nop"]

\* VisitReturn without the return descriptor.
VisitReturnNoDescriptor ==
    Rule("Return", Emit(TraceExit(E), <<"ret">> \o ReturnPadding)) /\ phase' = "body"

VisitReturn ==
    Rule("Return", AddCurrentDescriptor(Emit(TraceExit(E), <<"ret">> \o ReturnPadding), "Return"))
    /\ phase' = "body"

\* After the blocks: int3, the patch point at the current size, and the
\* jump to the fix-callers stub.
Trailer ==
    /\ phase = "body"
    /\ "Return" \in Range(rules)
    /\ LET t == Emit(E, <<"int3">>)
           p == [t EXCEPT !.descs = Append(@, [kind |-> "PatchCode", pc |-> Len(t.code)])]
       IN Emitted([p EXCEPT !.code = Append(@, I("jmp", "FixCallersTarget"))])
    /\ phase' = "done"
    /\ UNCHANGED <<fn, rules, table, handlers, vardescs>>

\* DescriptorList::FinalizePcDescriptors(code.EntryPoint()): the table at
\* absolute pcs, which code.set_pc_descriptors installs.
FinalizePcDescriptors(d) == [j \in DOMAIN d |-> [d[j] EXCEPT !.pc = EntryPoint + @]]

\* ExceptionHandlers::New(0): this tier compiles no handlers.
FinalizeExceptionHandlers == <<>>

\* The scope's GetVarDescriptors(), installed verbatim; opaque to this file.
FinalizeVarDescriptors == "scope"

\* The driver installs the tables of a finished compilation in the Code
\* object.  The variable descriptors come verbatim from the scope.
FinalizeCode ==
    /\ phase = "done"
    /\ table' = FinalizePcDescriptors(descs)
    /\ handlers' = FinalizeExceptionHandlers
    /\ vardescs' = FinalizeVarDescriptors
    /\ phase' = "finalized"
    /\ UNCHANGED <<fn, code, descs, rules>>

Next ==
    \/ CompileGraphPrologue
    \/ VisitInstanceCall \/ VisitStaticCall \/ VisitClosureCall \/ VisitNativeCall
    \/ VisitAllocation \/ VisitInstanceOf \/ VisitExtractFactoryTypeArguments
    \/ VisitThrow \/ VisitReThrow \/ VisitReturn
    \/ Trailer
    \/ FinalizeCode

\* Compilation ends with the finished code or a bailout.
Finished == phase \in {"finalized", "aborted"} /\ UNCHANGED vars

Spec == Init /\ [][Next \/ Finished]_vars

-----------------------------------------------------------------------------

\* The descriptor kind the spec gives each call target.
KindOf(tgt) ==
    CASE tgt = "InlineCache" -> "IcCall"
      [] tgt = "CallStaticFunction" -> "FuncCall"
      [] OTHER -> "Other"

CallSites == {i \in DOMAIN code : code[i].op = "call"}

(* Every descriptor marks a site of its kind: a call of the matching kind  *)
(* that ends at its pc (GenerateCall, GenerateCallRuntime and              *)
(* EmitInstanceCall record after the call), the end of the padding after  *)
(* a ret (VisitReturn), or the int3 before the patch jump (CompileGraph).  *)
(* Their pcs strictly increase along the list: one descriptor per site, in *)
(* code order.                                                             *)
DescriptorsSound ==
    /\ \A j \in DOMAIN descs :
          LET d == descs[j] IN
          /\ d.pc \in DOMAIN code
          /\ d.kind \in {"IcCall", "FuncCall", "Other"} =>
                code[d.pc].op = "call" /\ KindOf(code[d.pc].tgt) = d.kind
          /\ d.kind = "Return" =>
                d.pc > 8 /\ code[d.pc - 8].op = "ret"
                /\ \A k \in (d.pc - 7)..d.pc : code[k].op = "nop"
          /\ d.kind = "PatchCode" =>
                code[d.pc].op = "int3"
                /\ (phase \in {"done", "finalized"} => code[d.pc + 1] = I("jmp", "FixCallersTarget"))
    /\ \A j, k \in DOMAIN descs : j < k => descs[j].pc < descs[k].pc

(* Every call the compiler emits, in the prologue and in the rules, has a  *)
(* descriptor at its return address (spec: each call produces exactly one).*)
EveryCallDescribed == \A i \in CallSites : \E j \in DOMAIN descs : descs[j].pc = i

(* The finished table has one return descriptor per Return visited, and   *)
(* ends with the single patch point.                                       *)
TableComplete ==
    phase \in {"done", "finalized"} =>
        /\ Len(SelectSeq(descs, LAMBDA d : d.kind = "Return"))
              = Len(SelectSeq(rules, LAMBDA r : r = "Return"))
        /\ Last(descs).kind = "PatchCode"
        /\ Len(SelectSeq(descs, LAMBDA d : d.kind = "PatchCode")) = 1

(* With FLAG_trace_functions every traced exit pairs with a traced entry:  *)
(* the spec lists function-entry and exit tracing entries, and the old    *)
(* code generator's entry code called the entry trace before the body.    *)
TraceEntryBeforeExit ==
    \A i \in CallSites :
        code[i].tgt = "TraceFunctionExit" =>
            \E k \in CallSites : k < i /\ code[k].tgt = "TraceFunctionEntry"

=============================================================================
