---------------------------- MODULE MCCfgBuilder ----------------------------
(* The instance of CfgBuilder that TLC checks. *)
EXTENDS CfgBuilder

CONSTANT helper    \* a function besides main

MCFuncNames == {Main, helper}
=============================================================================
