---------------------------- MODULE MCExecution ----------------------------
(* Instances of Execution for TLC. *)
EXTENDS Execution, TLC

\* a is mandatory and may be given twice; b is optional, or not described.
TwoInputs == ("a" :> [min |-> 1, max |-> 2]) @@ ("b" :> [min |-> 0, max |-> 1])
OneInput  == "a" :> [min |-> 1, max |-> 2]
TwoAttributes == <<"first", "second">>
Zcfgs     == {TwoInputs, OneInput}
=============================================================================
