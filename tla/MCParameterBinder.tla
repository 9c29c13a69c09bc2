-------------------------- MODULE MCParameterBinder --------------------------
(* Bounds for checking ParameterBinder: up to three optional parameters    *)
(* named 1..3 in every declaration order, callers that may also use name   *)
(* 4 (which no parameter has), and up to three arguments per call.         *)
EXTENDS ParameterBinder

MCOptNames == 1..3
MCArgNames == 1..4
=============================================================================
