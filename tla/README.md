# TLA+ models of the x64 flow-graph compiler (`src/runtime/vm/flow_graph_compiler_x64.cc`)

This directory holds TLA+ models of the unoptimizing x64 backend of the Dart VM. The backend is
`FlowGraphCompiler`, one source file of 1203 lines. It is a compiler, so two kinds of behaviour are
modelled:

* **compile time**: the decisions the compiler takes while it walks the flow graph, such as block
  order, labels, jumps and bailout;
* **run time**: what the code it emits does when it runs, e.g. the function prologue that binds
  arguments to parameters.

Compilation of one function is single-threaded and synchronous (spec section 5), so nothing here
interleaves threads. What is hard in this code is different: emitted code that must agree with a
caller-side convention, sequences of emitted blocks whose combined effect is correct only when
every block is right, and decisions that depend on the layout chosen by an upstream component.

## 1. Inventory

| Component | Source | State it keeps | Operations |
|---|---|---|---|
| Parameter Binder (prologue) | `CompileGraph` 1067-1124, `CopyParameters` 886-1062 | at run time: the frame slots of copied parameters, the caller's argument slots, RBX/RCX/RDI, the locals | fixed-arity check; count checks; positional copy loop; one block per optional parameter, in alphabetical order; named-pair terminator check; mismatch handler (closure-mismatch entry or noSuchMethod); loop that nulls the caller's arguments; local zeroing; stack-overflow check |
| Block Linearizer | `VisitBlocks` 752-773, `VisitJoinEntry`/`VisitTargetEntry` 776-784, `VisitBranch` 864-882, `VisitReturn` 819-862, `~FlowGraphCompiler` 39-47 | at compile time: loop index, the per-block `BlockInfo` labels, the emitted code | emit each block in reverse list order; bind the entry label; jump to a goto successor unless it is next; branch on the successor that is not next; return |
| Metadata Builder | `AddCurrentDescriptor` 1168-1176, `GenerateCall` 1151-1156, `GenerateCallRuntime` 1159-1165, `CompileGraph` 1135-1145, `FinalizePcDescriptors` 1179-1185 | the descriptor list, the code size | append a descriptor at the current offset after each call/return; the patch point; finalize |
| Computation Code Generator | `LoadValue` 79-92, `Visit*Comp` 95-360, 532-616, `VisitDo`/`VisitBind` 808-816, `VisitPickTemp`/`VisitTuckTemp` 786-806 | the run-time operand stack (temps), RAX | one rule per computation kind: calls (instance, static, closure, native), loads/stores, indexed store and setter (keep the stored value), allocation, strict compare, negate, throw |
| Type-Test Generator | `GenerateInstanceOf` 377-529, `VisitInstanceOf` 532-538 | none at compile time; the run-time stack | ladder of compile-time and inline tests (top type, null, Smi, class identity, list classes) that falls back to the instanceof runtime entry; optional negation |
| Type-argument extraction | `VisitExtractFactoryTypeArguments` 617-657, `VisitExtractConstructorTypeArguments` 660-697, `VisitExtractConstructorInstantiator` 700-749 | the instantiator and type-argument values on the stack | use the instantiator as the type arguments when it is a vector of the right length; otherwise instantiate at run time (factory) or leave it to the allocation stub (constructor). The two constructor computations must take the same decision |
| Abort (Bailout) | `Bailout` 56-67, its callers 71-108, 247-261, 370-374, 600-608 | none: it long-jumps to the driver | abort the compilation with a reason |
| Finalization | `FinalizePcDescriptors` 1179-1185, `FinalizeVarDescriptors` 1188-1192, `FinalizeExceptionHandlers` 1195-1199 | the Code object's tables | install the descriptor table at absolute pcs, the scope's variable descriptors and an empty handler table |

How the components interact: `CompileGraph` first emits the prologue (Parameter Binder), then calls
`VisitBlocks` (Block Linearizer). For each instruction, `VisitBlocks` dispatches to the code
generator, which calls the Type-Test Generator for `InstanceOf`. Every call site appends a PC
descriptor (Metadata Builder). Any rule may call `Bailout`. The prologue and the emitted calls
talk to callers and callees through the **arguments descriptor** (total count, positional count,
sorted (name, position) pairs, null terminator). They talk to the runtime through fixed stub and
runtime entries. The arguments descriptor is built by `CodeGenerator::ArgumentsDescriptor`, which
is not in `src/`.

What makes the code hard:

* The prologue's named-argument matching is a *merge* of two sorted lists with a single cursor.
  It is correct only if callers sort their pairs the same way.
* The copy loop, the null loop and the optional blocks reuse RCX and RDI across blocks.
* The caller's slots must be nulled *after* copying and checking, because noSuchMethod reads them.
* The layout of blocks decides which jumps are emitted. Branch polarity relies on the builder
  numbering blocks in reverse postorder.
* Stack discipline in the call and setter rules: the pops, pushes and the `addq RSP` must balance.
* The instanceof ladder must agree with the runtime subtype check whenever it answers inline.

Properties that make each component correct:

* Parameter Binder: the binding contract of section 4.3, stated as the abstract spec
  `ArgBinding`. Also: mismatch reaches the right runtime entry with the caller's arguments intact,
  and the prologue always terminates.
* Block Linearizer: the emitted jumps reproduce the flow graph's control flow. Labels are bound
  once and resolved. No jump goes to the next block.
* Metadata Builder: one descriptor per call, return and patch point, at increasing offsets, and
  the finished table has one return descriptor per Return and ends with the patch point.
* Code generator: every rule leaves the operand stack as the IR expects. Setters and indexed
  stores yield the stored value. The stack height at return equals the frame size (a word too many or too few breaks the
  refinement at the rule that leaves it).
* Type tests: an inline answer equals the runtime's answer, and negation is applied exactly once.

## 2. Modules

| Module | Models | State ↔ code |
|---|---|---|
| `CallingConvention` | the signature (ParsedFunction), the arguments descriptor and the binding contract | constants and operators only |
| `ArgBinding` | abstract spec of the prologue: `Bind`, `Reject`, `ClearArg`, `EnterBody` | `status`, `params` (the function's view of each formal), `args` (caller slots), `locals` |
| `ParameterBinder` | the emitted prologue as it runs, one action per emitted block or loop iteration | `pc` = emitted block, `frame` = fp[-1-p], `callerArgs` = fp[1+argc-j], `rcx`, `rdi`, `k` = index of the optional block in sorted order |
| `MCParameterBinder` | bounds for `ParameterBinder` | |
| `TypeTest` | the code `GenerateInstanceOf`/`VisitInstanceOf` emit, as it runs, one action per emitted block (`NullCheck`, `ParamSmiTest`, `ListCheck`, `ClassEqParam`, `SmiTest`, `CompareClasses`, `RuntimeCall`, `NegateResult`, `PopResult`) | `type`, `negate` = the compile-time inputs; `obj` = the tested value; `stack` = the operand stack; `rax`/`rcx`/`rdx`; `calls` = calls of the instanceof runtime entry. The compile-time choices (top type, instantiated, parameterized, raw, List/String/bool interface) are guards on `type` |
| `IRDefs` | the IR a block consists of, as far as the operand stack is concerned: values (temps, constants), the computations and their operand shapes, the instructions the builder can emit with n temps on the stack, and the heap and call-log records | constants and operators only |
| `IRInterp` | abstract spec of a block: each instruction evaluated over the IR's temps (`Compute`, `PickTemp`, `TuckTemp`, `Return`), with no registers or offsets | `temps`, `heap` (locals, fields, statics, array elements), `log` (calls with their arguments), `ctx`, `status`, `retval` |
| `OperandStack` | the code the computation rules emit, as it runs: one action per rule (`VisitInstanceCall` ... `VisitReturn`), each doing its pops, pushes, moves and calls in the code's order; `Finish` is `VisitBind`/`VisitDo` | `mstack` = the words above the locals, `rax`, `ctx` = CTX, `heap`, `log`; `ntemps` = the number of temps the IR (the builder) has, which PickTemp/TuckTemp use as the code uses the IR's indices; `trace` = `FLAG_trace_functions`, under which `VisitReturn` runs `TraceFunctionExit` |
| `PcDescriptors` | the code emitted for one function, as a list of instructions, and the descriptor list built alongside: `CompileGraphPrologue` (with `FixedArityCheck` and CopyParameters' `WrongNumArguments`), one action per rule that calls or returns, `Trailer`, and `FinalizeCode` (the driver's call of `FinalizePcDescriptors`, `FinalizeExceptionHandlers` and `FinalizeVarDescriptors`); `TraceExit` is the `FLAG_trace_functions` exit call at every return and on the mismatch path | `fn` = the function's shape (closure, copied parameters, DEBUG build, tracing), `code` = the instruction buffer with one unit of code size per instruction, `descs` = `pc_descriptors_list_`, `rules` = the rules visited, `phase`, `table`/`handlers`/`vardescs` = the Code object's descriptor, handler and variable-descriptor tables |
| `MCPcDescriptors` | the function shapes for `PcDescriptors` | |
| `MCOperandStack` | the instruction kinds for `OperandStack` (the constant `Ops` of `IRDefs`) | |
| `TypeArguments` | the Extract* rules as they run, between the builder's `PickTemp`/`TuckTemp` and the allocation stub (`AllocateObject`) or the factory call (`FactoryCall`) | `tArgs` = `comp->type_arguments()` (identity or not, length), `inst` = the instantiator, `stack`/`rax`, `pc` = the next instruction, `allocated` = the type arguments the new object gets |
| `BlockLinearizer` | `VisitBlocks` over every well-formed 4-block flow graph, with Bailout | `i` = loop index, `code` = emitted control items (bind, jmp, jeq, jne, ret, int3), `label` = `BlockInfo::label` state |

`OperandStack` refines `IRInterp`. The mapping sets the IR's temps to the machine stack (empty
after a throw) and the returned value to RAX once the function returned. A rule that pops one
word too many or too few, passes its arguments in another order, or leaves another value in RAX
breaks the refinement at the step where it runs. The exit trace's call is hidden from the
abstract call log (the IR knows no tracing), but the value it leaves in RAX is not.

`ParameterBinder` refines `ArgBinding`. The mapping (`ABS == INSTANCE ArgBinding WITH ...`) says
that the prologue has bound its parameters once it has passed every check (`pc` is `null_args` or
later). The function's view of formal `p` is its frame copy, or, for functions without optional
parameters, the caller's slot the body addresses statically.

Data abstractions:

* A parameter name is a natural number; `<` stands for `String::CompareTo`.
* The caller's argument `j` is the value `100 + j`, and the default of formal `p` is `200 + p`. A
  property can therefore tell which one a slot holds.
* Instructions that do not transfer control are dropped from `code`.
* The flow graph's block contents are abstracted to "may bail out".
* The object model for type tests has a small hierarchy with every class the ladder names: Smi,
  OneByteString, Bool, ObjectArray and GrowableObjectArray. It also has user classes A and B
  (B extends A and implements interface I) and a generic class G, with type arguments raw, A or B.
  The instanceof runtime entry is its contract `InstanceOf`: the subtype relation with covariant
  type arguments, where raw arguments match anything and null is an instance of the top types
  only.
* Operand-stack values are records: the temps a block finds on the stack (`Incoming(j)`), the
  constants true and null, call results and allocated objects named by the position of their
  call in the call log, and contexts. Memory is one function from (object, slot) to values.
  `StoreInstanceField` is emitted only as `Do`: its value is not defined by the IR (the code
  leaves the instance in RAX).

## 3. Runs

| Run | Cfg | Expect | What it shows |
|---|---|---|---|
| `binder` | `MCParameterBinder.cfg` | pass | Every signature with ≤1 fixed and ≤3 optional parameters (names 1..3 in every declaration order, closure or not) is checked against every sorted call with ≤3 arguments, including a name no parameter has. For each, the prologue implements `ArgBinding`: correct binding, nulling only after the checks, the correct mismatch entry. It also always terminates. |
| `binder_spec_example` | `MCParameterBinder_example.cfg` | violation | Section 8 says `f(a, [b])` called with two positional arguments takes the mismatch path. The code binds `b` to the second positional argument instead. |
| `binder_named_fixed` | `MCParameterBinder_named.cfg` | violation | A closure without optional parameters accepts a *named* argument for a fixed parameter, because its check compares only the total count (lines 1089-1092). |
| `binder_unsorted` | `MCParameterBinder_unsorted.cfg` | violation | When callers do not sort the named pairs (section 6 does not require it), valid calls are rejected. The prologue's single-cursor scan depends on the sorted order. |
| `type_test` | `MCTypeTest.cfg` | pass | Covers every pairing of 19 destination types (top, uninstantiated, interface, class, raw and non-raw generic) with 11 objects, negated or not. The emitted test yields the runtime entry's answer and leaves the operand stack as it found it (`InstanceOfCorrect`). Null and a Smi against a non-parameterized class never reach the runtime entry (`FastPathsInline`). |
| `operand_stack` | `MCOperandStack.cfg` | pass | Covers every sequence of two instructions the builder can emit from 0 to 3 incoming temps, with constant or temp operands. The machine code implements `IRInterp` (`Refinement`): the calls see their arguments in order, setters and indexed stores yield the stored value, CreateArray stores each element at its index, the closure call restores the context, and PickTemp/TuckTemp address the right temp. A rule that leaves or removes a word makes the DEBUG check at `VisitReturn` stop the code, which is no step of `IRInterp`, so `Refinement` covers that check too. `CreateClosure` pops one word per flag of its function (type arguments, implicit receiver), as the code does. The stack never exceeds its bound (`TypeOK`). |
| `pc_descriptors` | `MCPcDescriptors.cfg` | pass | Every function shape except a non-closure with optional parameters (see the next run), in DEBUG and release builds, with every sequence of up to three rules that call or return. Each descriptor marks a call of its kind at its return address, the end of a return's padding, or the patch point, in code order (`DescriptorsSound`). Every call has one (`EveryCallDescribed`). The finished table has one return descriptor per Return and ends with the patch point (`TableComplete`). Traced functions are included. `FinalizeCode` is explored, but no property checks it beyond what these say of the list: it only adds `code.EntryPoint()`, a value from outside this file. |
| `pc_descriptors_trace` | `MCPcDescriptors_trace.cfg` | violation | With `FLAG_trace_functions`, `VisitReturn` and the mismatch path call the function-exit trace entry, but `CompileGraph` never calls the entry trace. Spec section 6 lists entry and exit tracing. |
| `pc_descriptors_nsm` | `MCPcDescriptors_nsm.cfg` | violation | With all function shapes, the noSuchMethod call on the mismatch path of a non-closure with optional parameters (line 1028) is a plain `call` with no descriptor. Section 4.2 says every call produces exactly one. |
| `type_arguments` | `MCTypeArguments.cfg` | pass | Covers every template (identity or not, length 1 or 2) with every instantiator: null, or a vector of class TypeArguments or another class, of any length at least the template's. The two constructor rules take the same decision and the factory's inline and runtime paths agree, so the allocated object gets the instantiated type arguments, raw for a null instantiator (`TypeArgumentsCorrect`). The rules consume exactly their temps (`StackConsumed`). |
| `linearizer` | `MCBlockLinearizer.cfg` | pass | Covers all 168 flow graphs of 4 reachable blocks the builder can produce, with both DFS successor orders and a bailout possible in any block. Labels are resolved, no jump goes to the next block, and control flow is preserved (`ControlFlowPreserved`, which fails if a branch's polarity disagrees with the layout). The `VisitBranch` assertions themselves depend only on the builder's numbering, which is modelled from the spec, so they are not a property of this file's code. |
| `linearizer_bailout` | `MCBlockLinearizer_bailout.cfg` | violation | The destructor's assertions (no label still linked) fail for the compiler a Bailout leaves behind: block 0 branches forward to block 1, and a Bailout in the next block emitted leaves block 1's label linked. The code gets away with it because the long jump skips the destructor. Section 9 asks for the abort to be returned as an error value, and then the assertion would fire. |

Bounds:

* `MaxOpt = 3` is the smallest bound at which the insertion sort and the merge see a parameter
  between two others.
* `MaxArgs = 3` with 4 argument names allows calls that mix positional and named arguments and
  include an unknown name.
* `MaxTemps = 3` and `MaxSteps = 2` (operand stack): every rule with up to three stack
  operands (StoreIndexed, a closure call with context, closure and argument) runs on a full
  stack, followed by any second instruction, including PickTemp/TuckTemp after a rule and
  Return after a rule. The rules are straight-line and do not depend on what lies below their
  operands, so two steps are enough for a leaked or missing word to be seen by the second
  instruction. `MaxSteps = 3` with every kind runs for about seven minutes; with only the rules
  that move words (`PickTemp`, `TuckTemp`, `StoreIndexed`, `InstanceSetter`, `ClosureCall`,
  `CreateArray`, `StoreLocal`, `Return` as `Ops`) it passes in under a minute (230,032 states).
  It asks the same questions as `operand_stack` and is not listed as a run of its own.
* `MaxRules = 3` (descriptors): every pair of calling rules before a return, and returns
  between calls. Each rule emits its call independently of the others, so longer bodies only
  repeat these cases. `MaxRules = 2` is enough for the trace run: one traced Return already shows it.
  `EntryPoint = 4096` is any base that is not 0, so that a table left relative is caught.
* `MaxLen = 2` (type arguments): a vector can be shorter than its instantiator (length test
  false) or as long (true), and the identity and non-identity templates differ.
* `NumBlocks = 4` allows a branch, a join, a loop back-edge and a return in one graph.

## 4. Fairness

`FairSpec` of `ParameterBinder` assumes weak fairness of `Next`. The prologue is straight-line
code with two counted loops, run by one thread that is not preempted in any way the model cares
about. Nothing else is assumed fair.

## 5. Not modelled and why

* **Left out on purpose:** the instruction encoder, the runtime entries, the stubs and the object
  model are external (spec section 1). Also left out: the `FLAG_print_scopes` path (logging),
  the exit trace in the `ParameterBinder` prologue model (it follows the mismatch call, where that
  model ends; `PcDescriptors` has it), and the DEBUG `Stop` on the fixed-arity path of
  non-closures (callers are verified, so it is unreachable in the model).
* **Runtime entries:** the closure-mismatch runtime entry is treated as not returning. This is an
  assumption: on the fixed-arity path the code after the call falls into the body (line 1100).
* **Type arguments:** the builder's sequence around the constructor rules is not in `src/`. The
  model uses the one the rules' pops imply: a temp for the type arguments, `PickTemp` of the
  instantiator, the extraction, `TuckTemp` into that temp (its copy stays on top and is the value
  `ExtractConstructorInstantiator` discards), and then the instantiator rule. A null instantiator
  gives a raw type, as the code's TODO and the spec's open question describe.
* **Descriptors:** each instruction counts as one unit of code size. The properties compare
  offsets only with the positions of calls, returns and the trailer, so real instruction lengths
  would change none of them. `FinalizePcDescriptors` is modelled by what it does to the offsets
  (adds the entry point); the runtime's `PcDescriptors::Verify` it then calls is outside this
  file. `FinalizeVarDescriptors` installs the scope's table, which this file does not read or
  build. It is modelled as one opaque value set by `FinalizeCode`.
* **Teardown:** the destructor is not an action: after a normal compilation `LabelsResolved`
  states its assertions, after a Bailout `TeardownLabelsUnlinked` does. Whether the destructor
  runs after the long jump is decided by the driver, outside `src/`.
* **Operand stack:** the operands of a computation are taken to be the top temps in operand
  order, as `VerifyCallComputation` and `VerifyValues` require of the builder. Which class,
  function or field a rule names is abstracted to the call's callee kind. `NativeLoadField` is
  given only a temp operand, because it pops without `LoadValue`.
* **Type tests:** an uninstantiated destination type bails out at compile time, as
  `GenerateInstantiatorTypeArguments` does. The runtime path with an instantiator is therefore
  never emitted.

## 6. Plan

In order of importance:

1. **Done:** `CallingConvention`, `ArgBinding` and `ParameterBinder` (refinement),
   `BlockLinearizer`, `TypeTest`, `OperandStack` refining `IRInterp`, `PcDescriptors` and
   `TypeArguments`; the `FLAG_trace_functions` exit calls; finalization of the descriptor,
   handler and variable-descriptor tables; the teardown check after a Bailout.
2. A composed run of `BlockLinearizer` with `PcDescriptors` on larger graphs, so that the
   descriptors of several blocks are checked in emission order.
3. A stronger abstract table, one entry per call site of the emitted code by kind, to replace
   the invariants `EveryCallDescribed` and `TableComplete`.
