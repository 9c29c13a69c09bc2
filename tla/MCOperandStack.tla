--------------------------- MODULE MCOperandStack ---------------------------
(* Instance of OperandStack with every instruction kind the builder emits. *)
EXTENDS OperandStack

MCAllOps ==
    {"InstanceCall", "StaticCall", "ClosureCall", "StrictCompare", "BooleanNegate",
     "LoadLocal", "StoreLocal", "LoadInstanceField", "StoreInstanceField",
     "LoadStaticField", "StoreStaticField", "StoreIndexed", "InstanceSetter",
     "NativeCall", "AllocateObject", "CreateArray", "CreateClosure", "CurrentContext",
     "NativeLoadField", "Throw", "ReThrow", "AssertAssignable",
     "PickTemp", "TuckTemp", "Return"}
=============================================================================
