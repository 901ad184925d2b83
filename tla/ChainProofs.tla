------------------------------ MODULE ChainProofs ------------------------------
(***************************************************************************)
(* What the proofs of the components need to know of archives and of the   *)
(* final chain.                                                            *)
(***************************************************************************)
EXTENDS Chain, TLAPS

\* A put keeps an archive an archive.
LEMMA PutType ==
    ASSUME NEW Index, NEW a \in Archive(Index), NEW i \in Index, NEW b \in Block
    PROVE  Put(a, i, b) \in Archive(Index)
BY DEF Put, Archive

\* A put touches one index only, and only when nothing was there.
LEMMA PutValue ==
    ASSUME NEW Index, NEW a \in Archive(Index), NEW i \in Index, NEW b \in Block,
           NEW j \in Index
    PROVE  Put(a, i, b)[j] = IF j = i /\ a[i] = None THEN b ELSE a[j]
BY DEF Put, Archive

\* Putting and pruning in a prunable archive keep it an archive.
LEMMA PrunableType ==
    ASSUME NEW Index, NEW a \in Archive(Index), NEW i \in Index, NEW b \in Block,
           NEW oldest
    PROVE  /\ PutUnpruned(a, oldest, i, b) \in Archive(Index)
           /\ Prune(a, oldest) \in Archive(Index)
<1>1. PutUnpruned(a, oldest, i, b) \in Archive(Index)
  BY PutType DEF PutUnpruned
<1>2. Prune(a, oldest) \in Archive(Index)
  BY DEF Prune, Archive
<1> QED BY <1>1, <1>2

\* Emptying an entry, as a crash may, keeps an archive an archive.
LEMMA LoseType ==
    ASSUME NEW Index, NEW a \in Archive(Index), NEW i \in Index
    PROVE  [a EXCEPT ![i] = None] \in Archive(Index)
BY DEF Archive

LEMMA EmptyType == ASSUME NEW Index PROVE Empty(Index) \in Archive(Index)
BY DEF Empty, Archive

\* Pruning goes by whole sections, and so never above what was asked for.
LEMMA SectionBelow ==
    ASSUME NEW a \in Nat, NEW n \in Nat \ {0}
    PROVE  (a \div n) * n \in 0..a
<1>1. a = n * (a \div n) + (a % n) /\ a % n \in 0..(n - 1) /\ a \div n \in Nat
  OBVIOUS
<1>2. (a \div n) * n = n * (a \div n) /\ (a \div n) * n \in Nat
  BY <1>1
<1> QED BY <1>1, <1>2

\* Finalized blocks are blocks, at the height they are final at.
LEMMA FinalFacts ==
    ASSUME NEW h \in Heights
    PROVE  /\ Final[h] \in Block /\ Final[h] \in Certified /\ Final[h] \in FinalBlocks
           /\ heightOf[Final[h]] = h
           /\ viewOf[Final[h]] \in Views
           /\ Final[h] # None /\ Final[h] # Genesis
BY ChainAssumption DEF FinalBlocks

\* The parent of a final block above height 1 is the final block below it.
LEMMA FinalParent ==
    ASSUME NEW h \in Heights, h > 1
    PROVE  h - 1 \in Heights /\ parentOf[Final[h]] = Final[h - 1]
BY ChainAssumption DEF Heights
=============================================================================
