-------------------------------- MODULE MCNode --------------------------------
(* Small instances of Node: the chains of MCChain, and the syncer's scopes. *)
EXTENDS Node, MCChain

Nobody == {}
First == {f1}
Second == {f2}
One == {1}
=============================================================================
