------------------------------ MODULE MCFinalizer ------------------------------
(* Small instances of Finalizer: the chains of MCChain. *)
EXTENDS Finalizer, MCChain
=============================================================================
