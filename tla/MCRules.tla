------------------------------ MODULE MCRules ------------------------------
(* Rules with three releases, the first of which is the embedded one. *)
EXTENDS Rules
FirstOnly == {1}
AnyFault  == FaultKinds
=============================================================================
