------------------------------- MODULE MCSyncer -------------------------------
(***************************************************************************)
(* Scopes for the small instances of Syncer: which blocks of the chain the *)
(* environment gossips, verifies, certifies or asks for.                   *)
(***************************************************************************)
EXTENDS Syncer, MCChain

Nobody == {}
First == {f1}
Second == {f2}
BothFinal == {f1, f2}
ForkOnly == {x}
=============================================================================
