---------------------------- MODULE TypeArguments ----------------------------
(***************************************************************************)
(* The type-argument extraction rules as their code runs.  A constructor   *)
(* call of a generic class passes the allocation stub two words: the type  *)
(* arguments (ExtractConstructorTypeArguments) and the instantiator        *)
(* (ExtractConstructorInstantiator).  The two rules test the instantiator  *)
(* separately, and the pair is right only if they agree: either the        *)
(* instantiator was used as the type arguments and is then null, or the    *)
(* type arguments are the uninstantiated vector and the stub instantiates  *)
(* it with the instantiator.  A factory call gets the type arguments from  *)
(* ExtractFactoryTypeArguments, which calls the runtime to instantiate.    *)
(*                                                                         *)
(* `tArgs` is the compile-time type_arguments(): the uninstantiated        *)
(* identity vector <T1..Tn> (IsUninstantiatedIdentity) or another vector   *)
(* over the type parameters.  The instantiator is null or a vector object  *)
(* of class TypeArguments or of another class with the same meaning.      *)
(***************************************************************************)
EXTENDS Naturals, Sequences, SequencesExt

CONSTANTS MaxLen    \* longest type-argument vector

Null == [cls |-> "null", vec |-> <<>>]

\* The vectors of length 1..MaxLen over two types.
Vecs == UNION {[1..n -> {"A", "B"}] : n \in 1..MaxLen}
VectorObjects == {[cls |-> c, vec |-> v] :
                     c \in {"TypeArguments", "InstantiatedTypeArguments"}, v \in Vecs}
Templates == {[ident |-> b, len |-> n] : b \in BOOLEAN, n \in 1..MaxLen}

\* An uninstantiated vector as an object the stub receives.
TemplateObject(t) == [cls |-> "Template", vec |-> <<>>, t |-> t]

\* Instantiation by the runtime: the identity vector is the instantiator's
\* first n types; another vector (e.g. <G<T1>>) builds a type from each.
Instantiate(t, v) ==
    [i \in 1..t.len |-> IF t.ident THEN v[i] ELSE "G" \o v[i]]

\* The type arguments an allocated object gets: a vector, none (a raw
\* type), or a stub misuse (a vector where a template was expected).
Typed(v) == [kind |-> "typed", vec |-> v]
Raw == [kind |-> "raw", vec |-> <<>>]
Misuse == [kind |-> "misuse", vec |-> <<>>]

VARIABLES
    tArgs,      \* the compile-time type arguments
    inst,       \* the run-time instantiator
    path,       \* "constructor" or "factory"
    stack,      \* the operand stack of the rules
    rax,
    pc,         \* the next instruction of the builder's sequence
    allocated   \* the type arguments the allocated object gets

vars == <<tArgs, inst, path, stack, rax, pc, allocated>>

\* The inline test the rules emit: the instantiator is not null, is a
\* TypeArguments and has the template's length.  Only emitted for the
\* identity vector.
UsableAsIs(t, i) == t.ident /\ i # Null /\ i.cls = "TypeArguments" /\ Len(i.vec) = t.len

\* What the object is allocated with, given the instantiator: a raw type
\* for a null instantiator (the collapse the code's TODO describes).
Expected(t, i) == IF i = Null THEN Raw ELSE Typed(Instantiate(t, i.vec))

\* The builder's sequence: for a constructor, a temp for the type
\* arguments (holding the instantiator) and the instantiator; PickTemp;
\* ExtractConstructorTypeArguments; TuckTemp into the first temp, which
\* leaves the copy on top; ExtractConstructorInstantiator, which discards
\* that copy; the allocation with both.  For a factory, the instantiator;
\* ExtractFactoryTypeArguments; the factory call.
Init ==
    /\ tArgs \in Templates
    /\ inst \in {Null} \cup {o \in VectorObjects : Len(o.vec) >= tArgs.len}
    /\ path \in {"constructor", "factory"}
    /\ stack = IF path = "constructor" THEN <<inst, inst>> ELSE <<inst>>
    /\ rax = Null
    /\ pc = IF path = "constructor" THEN "pick" ELSE "efta"
    /\ allocated = Raw

Step(from, to) == pc = from /\ pc' = to

PickTemp ==
    /\ Step("pick", "ecta")
    /\ stack' = Append(stack, stack[2])
    /\ UNCHANGED <<tArgs, inst, path, rax, allocated>>

\* Pop the instantiator; null stays null; a usable instantiator is the
\* type arguments; otherwise load the uninstantiated vector for the stub.
VisitExtractConstructorTypeArguments ==
    /\ Step("ecta", "tuck")
    /\ LET i == Last(stack)
           r == IF i = Null THEN Null
                ELSE IF UsableAsIs(tArgs, i) THEN i
                ELSE TemplateObject(tArgs)
       IN rax' = r /\ stack' = Append(Front(stack), r)
    /\ UNCHANGED <<tArgs, inst, path, allocated>>

TuckTemp ==
    /\ Step("tuck", "eci")
    /\ rax' = Last(stack)
    /\ stack' = [stack EXCEPT ![1] = Last(stack)]
    /\ UNCHANGED <<tArgs, inst, path, allocated>>

\* ExtractConstructorInstantiator without the length test.
VisitExtractConstructorInstantiatorNoLength ==
    /\ Step("eci", "alloc")
    /\ LET i == stack[Len(stack) - 1]
           r == IF tArgs.ident /\ i # Null /\ i.cls = "TypeArguments" THEN Null ELSE i
       IN rax' = r /\ stack' = Append(SubSeq(stack, 1, Len(stack) - 2), r)
    /\ UNCHANGED <<tArgs, inst, path, allocated>>

\* ExtractConstructorInstantiator without the pop of the discarded value.
VisitExtractConstructorInstantiatorNoDiscard ==
    /\ Step("eci", "alloc")
    /\ LET i == Last(stack)
           r == IF UsableAsIs(tArgs, i) THEN Null ELSE i
       IN rax' = r /\ stack' = Append(Front(stack), r)
    /\ UNCHANGED <<tArgs, inst, path, allocated>>

\* Pop the discarded value, pop the instantiator; for the identity vector,
\* reset it to null when it passes the same test as above.
VisitExtractConstructorInstantiator ==
    /\ Step("eci", "alloc")
    /\ LET i == stack[Len(stack) - 1]
           r == IF UsableAsIs(tArgs, i) THEN Null ELSE i
       IN rax' = r /\ stack' = Append(SubSeq(stack, 1, Len(stack) - 2), r)
    /\ UNCHANGED <<tArgs, inst, path, allocated>>

\* The allocation stub: with a null instantiator the type arguments are
\* used as they are (null: raw); otherwise it instantiates them.
AllocateObject ==
    /\ Step("alloc", "done")
    /\ LET ta == stack[Len(stack) - 1]
           in == Last(stack)
       IN allocated' =
            IF in = Null
              THEN IF ta = Null THEN Raw ELSE IF ta.cls = "Template" THEN Misuse ELSE Typed(ta.vec)
              ELSE IF ta.cls = "Template" THEN Typed(Instantiate(ta.t, in.vec)) ELSE Misuse
    /\ stack' = SubSeq(stack, 1, Len(stack) - 2)
    /\ UNCHANGED <<tArgs, inst, path, rax>>

\* Pop the instantiator; null stays null; a usable instantiator is the
\* type arguments; otherwise push a result slot, the vector and the
\* instantiator, call the runtime to instantiate, and pop the three.
VisitExtractFactoryTypeArguments ==
    /\ Step("efta", "factory")
    /\ LET i == Last(stack)
           viaRuntime == i # Null /\ ~UsableAsIs(tArgs, i)
           r == IF viaRuntime
                  THEN [cls |-> "TypeArguments", vec |-> Instantiate(tArgs, i.vec)]
                  ELSE i
       IN rax' = r /\ stack' = Append(Front(stack), r)
    /\ UNCHANGED <<tArgs, inst, path, allocated>>

\* The factory takes the type arguments as its first argument.
FactoryCall ==
    /\ Step("factory", "done")
    /\ allocated' = IF Last(stack) = Null THEN Raw ELSE Typed(Last(stack).vec)
    /\ stack' = Front(stack)
    /\ UNCHANGED <<tArgs, inst, path, rax>>

Next ==
    \/ PickTemp \/ VisitExtractConstructorTypeArguments \/ TuckTemp
    \/ VisitExtractConstructorInstantiator \/ AllocateObject
    \/ VisitExtractFactoryTypeArguments \/ FactoryCall

Done == pc = "done" /\ UNCHANGED vars

Spec == Init /\ [][Next \/ Done]_vars

-----------------------------------------------------------------------------

(* The object a constructor or factory call allocates gets the type        *)
(* arguments the instantiator gives its type_arguments(): the two          *)
(* constructor rules, which test the instantiator separately, take the     *)
(* same decision, and the factory rule's runtime path and inline path      *)
(* agree.  A null instantiator gives a raw type.                           *)
TypeArgumentsCorrect == pc = "done" => allocated = Expected(tArgs, inst)

(* After the allocation the rules have consumed exactly their temps.       *)
StackConsumed == pc = "done" => stack = <<>>
=============================================================================
