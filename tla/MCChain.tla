------------------------------- MODULE MCChain -------------------------------
(***************************************************************************)
(* Small chains for the model checker.                                     *)
(*   Pair: two final blocks in consecutive views.                          *)
(*   Fork: two final blocks in views 1 and 3; in view 2 a quorum notarized *)
(*         a block x that lost: the second final block has the same height.*)
(***************************************************************************)
EXTENDS Chain, TLC

CONSTANTS f1, f2, x

PairBlocks == {f1, f2}
PairFinal == <<f1, f2>>
PairHeight == f1 :> 1 @@ f2 :> 2
PairView == f1 :> 1 @@ f2 :> 2
PairParent == f1 :> Genesis @@ f2 :> f1

ForkBlocks == {f1, x, f2}
ForkFinal == <<f1, f2>>
ForkHeight == f1 :> 1 @@ x :> 2 @@ f2 :> 2
ForkView == f1 :> 1 @@ x :> 2 @@ f2 :> 3
ForkParent == f1 :> Genesis @@ x :> f1 @@ f2 :> f1
=============================================================================
