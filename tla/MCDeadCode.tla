------------------------------ MODULE MCDeadCode ------------------------------
(* The instance of DeadCode that TLC checks. *)
EXTENDS DeadCode

CONSTANT helper    \* a function besides main

MCFuncNames == {Main, helper}
=============================================================================
