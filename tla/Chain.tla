-------------------------------- MODULE Chain --------------------------------
(***************************************************************************)
(* The blocks a Summit node handles, what consensus promises about them,   *)
(* and the block archives the node keeps them in.                          *)
(*                                                                         *)
(* A block is a member of Block: its digest, height, parent and the view   *)
(* it was proposed in are functions of it, and a certificate (a            *)
(* notarization or a finalization) is represented by the block it is for.  *)
(* Consensus (commonware threshold-simplex) is external: ChainAssumption   *)
(* is what it guarantees - one certified block per view and one final      *)
(* chain, whose heights and parents honest voters have checked.            *)
(***************************************************************************)
EXTENDS Integers

CONSTANTS Block,       \* every block some node may propose
          Certified,   \* those a quorum notarized in the view of their proposal
          Final,       \* the finalized chain, by height
          TopHeight,   \* height of the last finalized block
          MaxView,     \* last view
          heightOf, parentOf, viewOf,
          Genesis,     \* the block of height 0, in no archive
          None         \* no block (Option::None)

Heights == 1..TopHeight
Views == 1..MaxView
FinalBlocks == {Final[h] : h \in Heights}

ASSUME ChainAssumption ==
    /\ TopHeight \in Nat \ {0} /\ MaxView \in Nat
    /\ Certified \subseteq Block
    /\ Genesis \notin Block /\ None \notin Block /\ Genesis # None
    /\ heightOf \in [Block -> Heights]
    /\ viewOf \in [Block -> Views]
    /\ parentOf \in [Block -> Block \union {Genesis}]
    /\ Final \in [Heights -> Certified]
    /\ \A h \in Heights : heightOf[Final[h]] = h
    /\ \A h \in Heights : parentOf[Final[h]] = IF h = 1 THEN Genesis ELSE Final[h - 1]
    /\ \A g, h \in Heights : g < h => viewOf[Final[g]] < viewOf[Final[h]]
    /\ \A a, b \in Certified : viewOf[a] = viewOf[b] => a = b

HeightOf(b) == IF b = Genesis THEN 0 ELSE heightOf[b]

-----------------------------------------------------------------------------
(* commonware_storage archives: at most one block per index (a view or a   *)
(* height), and the first put of an index wins.                            *)

Archive(Index) == [Index -> Block \union {None}]
Empty(Index) == [i \in Index |-> None]

Put(a, i, b) == IF a[i] = None THEN [a EXCEPT ![i] = b] ELSE a
At(a, i) == IF i \in DOMAIN a THEN a[i] ELSE None
Holds(a, b) == \E i \in DOMAIN a : a[i] = b

\* The prunable archives: a put below the oldest kept index does nothing
\* (Error::AlreadyPrunedTo), and prune empties whole sections below an index.
PutUnpruned(a, oldest, i, b) == IF i < oldest THEN a ELSE Put(a, i, b)
Prune(a, oldest) == [i \in DOMAIN a |-> IF i < oldest THEN None ELSE a[i]]

\* next_gap(next): where the first run of stored blocks after a gap starts,
\* as a set of at most one height.
RangeStarts(a, next) == {s \in DOMAIN a : /\ s > next
                                          /\ a[s] # None
                                          /\ a[s - 1] = None}
StartNext(a, next) == {s \in RangeStarts(a, next) :
                          \A t \in RangeStarts(a, next) : s <= t}
=============================================================================
