---------------------------- MODULE CommitteeProofs ----------------------------
(***************************************************************************)
(* That a running node signs with its own share and that the registry is   *)
(* consistent for its readers, for every number of validators, every       *)
(* order of the programs' steps and every sequence of changes.             *)
(***************************************************************************)
EXTENDS Committee, SequenceTheorems, WellFoundedInduction, TLAPS

-----------------------------------------------------------------------------
(* Sorted lists.                                                           *)

LEMMA Least ==
    ASSUME NEW T \in SUBSET Nat, T # {}
    PROVE  \E m \in T : \A k \in T : m <= k
<1>1. PICK m \in T : \A k \in T : <<k, m>> \notin OpToRel(<, Nat)
  BY WFMin, NatLessThanWellFounded, Zenon
<1>2. \A k \in T : ~(k < m)
  BY <1>1 DEF OpToRel
<1> QED BY <1>2

\* No key is listed twice in a sorted list.
LEMMA SortedInjective ==
    ASSUME NEW n \in Nat, NEW a \in [1..n -> Key], Sorted(a),
           NEW i \in 1..n, NEW j \in 1..n, a[i] = a[j]
    PROVE  i = j
<1>1. N \in Nat /\ Key \subseteq Nat
  BY SetupAssumption
<1>2. i \in Nat /\ j \in Nat /\ a[i] \in Nat
  <2>1. a[i] \in Nat
    BY <1>1, Zenon
  <2>2. i \in Nat /\ j \in Nat
    OBVIOUS
  <2> QED BY <2>1, <2>2
<1>3. ~(i < j) /\ ~(j < i)
  BY <1>2 DEF Sorted
<1> QED BY <1>2, <1>3

\* A set of keys has one sorted list: every program arrives at the same order.
LEMMA SortedUnique ==
    ASSUME NEW n \in Nat, NEW a \in [1..n -> Key], NEW b \in [1..n -> Key],
           Sorted(a), Sorted(b), KeysOf(a) = KeysOf(b)
    PROVE  a = b
<1> DEFINE T == {i \in 1..n : a[i] # b[i]}
<1> SUFFICES ASSUME T # {} PROVE FALSE
  OBVIOUS
<1>1. 1..n \subseteq Nat /\ T \in SUBSET Nat
  OBVIOUS
<1>2. PICK m \in T : \A k \in T : m <= k
  BY <1>1, Least
<1>3. m \in 1..n /\ a[m] # b[m] /\ \A k \in 1..n : k < m => a[k] = b[k]
  BY <1>1, <1>2
<1>4. a[m] \in Nat /\ b[m] \in Nat
  BY <1>3, SetupAssumption, Zenon
<1>5. /\ a[m] \in {b[i] : i \in 1..n}
      /\ b[m] \in {a[i] : i \in 1..n}
  <2>1. {a[i] : i \in 1..n} = {b[i] : i \in 1..n}
    BY DEF KeysOf
  <2> QED BY <1>3, <2>1, Zenon
<1> HIDE DEF T
<1>6. (\E k \in 1..n : b[k] = a[m]) /\ \E l \in 1..n : a[l] = b[m]
  BY <1>5, Zenon
<1>7. PICK k \in 1..n : b[k] = a[m]
  BY <1>6, Zenon
<1>8. PICK l \in 1..n : a[l] = b[m]
  BY <1>6, Zenon
<1>9. k > m
  <2>1. k < m => a[k] = a[m]
    BY <1>3, <1>7
  <2>2. ~(k < m)
    BY <1>1, <1>3, <2>1, SortedInjective
  <2> QED BY <1>1, <1>3, <1>7, <2>2
<1>10. l > m
  <2>1. l < m => b[l] = b[m]
    BY <1>3, <1>8
  <2>2. ~(l < m)
    BY <1>1, <1>3, <2>1, SortedInjective
  <2> QED BY <1>1, <1>3, <1>8, <2>2
<1>11. b[m] < a[m] /\ a[m] < b[m]
  BY <1>3, <1>7, <1>8, <1>9, <1>10 DEF Sorted
<1> QED BY <1>4, <1>11

-----------------------------------------------------------------------------
(* The files, and what a starting node has read of them.                   *)

FileTypes ==
    /\ key \in [Node -> Contents(Key)] /\ share \in [Node -> Contents(Share)]
    /\ genesis \in Contents(Genesis)
    /\ run \in 0..MaxRuns /\ drawn \in [Node -> Key] /\ used \subseteq Key
    /\ at \in {"idle", "key", "share", "genesis"} /\ node \in Node
    /\ stage \in {"down", "share", "key", "running"}
    /\ config \in [genesis : Contents(Genesis), share : Contents(Share),
                   signer : Contents(Key)]

\* dkg_testnet has written the shares of the nodes before this one, and a key of its last
\* run is where it belongs.
DkgInv ==
    /\ Sorted(drawn) /\ KeysOf(drawn) \subseteq used
    /\ \A i \in Node : /\ key[i] \in used \union {Unreadable}
                       /\ key[i] \in KeysOf(drawn) => key[i] = drawn[i]
    /\ \A i \in Node : at = "genesis" \/ (at # "idle" /\ i < node)
            => share[i] = [run |-> run, index |-> i]

\* What a genesis that can be read, or was, says of the other files: a run that has begun
\* since replaces a node's key before its share, so that a key of this genesis has a share
\* of this genesis beside it.
Known(g) ==
    /\ g \in Genesis /\ Sorted(g.validators) /\ KeysOf(g.validators) \subseteq used
    /\ g.identity <= run
    /\ g.identity = run => at \in {"idle", "genesis"}
    /\ g.identity # run => KeysOf(drawn) \intersect KeysOf(g.validators) = {}
    /\ \A i \in Node : key[i] \in KeysOf(g.validators) =>
           /\ i \in DOMAIN g.validators /\ key[i] = g.validators[i]
           /\ at = "share" => node # i
           /\ share[i] # Unreadable => share[i] = [run |-> g.identity, index |-> i]

AllKnown == \A g \in {genesis, config.genesis} \ {Unreadable} : Known(g)

OwnShare == config.share = [run |-> config.genesis.identity, index |-> self]
StartInv ==
    /\ stage # "down" => config.genesis # Unreadable
    /\ stage = "key" /\ key[self] \in KeysOf(config.genesis.validators) => OwnShare
    /\ stage = "running" => /\ OwnShare /\ self \in DOMAIN config.genesis.validators
                            /\ config.signer = config.genesis.validators[self]

FilesInv == FileTypes /\ DkgInv /\ AllKnown /\ StartInv

\* The assumptions in the form the steps use.
LEMMA Constants ==
    /\ N \in Nat /\ MaxRuns \in Nat /\ self \in Node /\ Node \subseteq Nat /\ 1 \in Node
    /\ Unreadable \notin Key /\ Unreadable \notin Share /\ Unreadable \notin Genesis
    /\ \A i \in Node : ~(i < 1) /\ i <= N
<1>1. N \in Nat \ {0}
  BY SetupAssumption
<1>2. Node \subseteq Nat /\ 1 \in Node /\ \A i \in Node : ~(i < 1) /\ i <= N
  BY <1>1 DEF Node
<1> QED BY <1>1, <1>2, SetupAssumption, UnreadableAssumption

\* A genesis lists some of the nodes, up to all of them.
LEMMA GenesisMade ==
    ASSUME NEW r \in 0..MaxRuns, NEW n \in Node, NEW keys \in [1..n -> Key]
    PROVE  [identity |-> r, validators |-> keys] \in Genesis
<1>1. keys \in UNION {[1..m -> Key] : m \in Node}
  OBVIOUS
<1> QED BY <1>1 DEF Genesis

LEMMA GenesisParts ==
    ASSUME NEW g \in Genesis
    PROVE  \E n \in Node : n \in Nat /\ g.validators \in [1..n -> Key] /\ 1..n \subseteq Node
<1>1. PICK n \in Node : g.validators \in [1..n -> Key]
  BY DEF Genesis
<1>2. n \in Nat /\ 1..n \subseteq Node
  BY Constants DEF Node
<1> QED BY <1>1, <1>2

LEMMA AllNodes == N \in Node /\ Node = 1..N
<1>1. N \in Nat \ {0}
  BY SetupAssumption
<1> QED BY <1>1 DEF Node

LEMMA InitFiles == SetupInit => FilesInv
<1> SUFFICES ASSUME SetupInit PROVE FilesInv
  OBVIOUS
<1>1. FirstKeys \in [Node -> Key] /\ Sorted(FirstKeys) /\ 0 \in 0..MaxRuns
  BY SetupAssumption, Constants
<1>2. KeysOf(FirstKeys) \subseteq Key /\ \A i \in Node : FirstKeys[i] \in KeysOf(FirstKeys)
  BY <1>1 DEF KeysOf
<1>3. genesis = [identity |-> 0, validators |-> FirstKeys] /\ genesis \in Genesis
  BY <1>1, AllNodes, GenesisMade DEF SetupInit
<1>4. FileTypes
  BY <1>1, <1>2, <1>3, Constants DEF SetupInit, FileTypes, Contents, NoConfig
<1>5. DkgInv
  BY <1>1, <1>2 DEF SetupInit, DkgInv
<1>6. Known(genesis)
  BY <1>1, <1>2, <1>3 DEF SetupInit, Known
<1>7. AllKnown
  BY <1>6 DEF AllKnown, SetupInit, NoConfig
<1>8. StartInv
  BY DEF SetupInit, StartInv
<1> QED BY <1>4, <1>5, <1>7, <1>8 DEF FilesInv

LEMMA BeginFiles == ASSUME FilesInv, NEW keys \in [Node -> Key], Begin(keys) PROVE FilesInv'
<1> USE DEF Begin, files, start
<1>1. FileTypes /\ DkgInv /\ AllKnown /\ StartInv
  BY DEF FilesInv
<1>2. KeysOf(keys) \subseteq Key /\ \A i \in Node : keys[i] \in KeysOf(keys)
  BY DEF KeysOf
<1>3. run \in Int /\ run' \in 0..MaxRuns /\ run' = run + 1
  BY <1>1, Constants DEF FileTypes
<1>4. FileTypes'
  BY <1>1, <1>2, <1>3, Constants DEF FileTypes
<1>5. \A i \in Node : key[i] \notin KeysOf(keys)
  BY <1>1, <1>2, Constants DEF FileTypes, DkgInv
<1>6. DkgInv'
  BY <1>1, <1>2, <1>5, Constants DEF DkgInv
<1>7. AllKnown'
  <2> SUFFICES ASSUME NEW g \in {genesis, config.genesis} \ {Unreadable} PROVE Known(g)'
    BY DEF AllKnown
  <2>1. Known(g)
    BY <1>1 DEF AllKnown
  <2>2. g.identity \in Int
    BY <2>1 DEF Known, Genesis
  <2> QED BY <1>3, <2>1, <2>2 DEF Known
<1>8. StartInv'
  BY <1>1 DEF StartInv, OwnShare
<1> QED BY <1>4, <1>6, <1>7, <1>8 DEF FilesInv

\* The key is written first: from then on no genesis knows what the node has.
LEMMA WriteKeyFiles == ASSUME FilesInv, WriteKey PROVE FilesInv'
<1> USE DEF WriteKey, start
<1>1. FileTypes /\ DkgInv /\ AllKnown /\ StartInv
  BY DEF FilesInv
<1>2. node \in Node /\ drawn[node] \in KeysOf(drawn) /\ drawn[node] \in Key
  BY <1>1 DEF FileTypes, KeysOf
<1>3. \A i \in Node : key'[i] = IF i = node THEN drawn[node] ELSE key[i]
  BY <1>1 DEF FileTypes
<1>4. FileTypes'
  BY <1>1, <1>2 DEF FileTypes, Contents
<1>5. DkgInv'
  BY <1>1, <1>2, <1>3 DEF DkgInv
<1>6. ASSUME NEW g \in {genesis, config.genesis} \ {Unreadable}
      PROVE  /\ Known(g) /\ Known(g)'
             /\ \A i \in Node : key'[i] \in KeysOf(g.validators) => key[i] = key'[i]
  <2>1. Known(g) /\ g.identity # run
    BY <1>1 DEF AllKnown, Known
  <2>2. drawn[node] \notin KeysOf(g.validators)
    BY <1>2, <2>1 DEF Known
  <2>3. \A i \in Node : key'[i] \in KeysOf(g.validators) => key[i] = key'[i] /\ i # node
    BY <1>3, <2>2
  <2>4. UNCHANGED <<run, drawn, used, share, node>> /\ at' = "share"
    OBVIOUS
  <2>5. Known(g)'
    BY <2>1, <2>3, <2>4 DEF Known
  <2> QED BY <2>1, <2>3, <2>5
<1>7. StartInv'
  BY <1>1, <1>6, Constants DEF StartInv, OwnShare
<1>8. AllKnown'
  BY <1>6 DEF AllKnown
<1> QED BY <1>4, <1>5, <1>7, <1>8 DEF FilesInv

LEMMA WriteShareFiles == ASSUME FilesInv, WriteShare PROVE FilesInv'
<1> USE DEF WriteShare, start
<1> DEFINE s == [run |-> run, index |-> node]
<1>1. FileTypes /\ DkgInv /\ AllKnown /\ StartInv
  BY DEF FilesInv
<1>2. node \in Node /\ s \in Share
  BY <1>1 DEF FileTypes, Share
<1>3. \A i \in Node : share'[i] = IF i = node THEN s ELSE share[i]
  BY <1>1 DEF FileTypes
<1>4. node' \in Node /\ (node = N \/ node' = node + 1)
  <2>1. node \in Nat /\ node >= 1 /\ node <= N /\ N \in Nat
    BY <1>2, Constants
  <2>2. CASE node = N
    BY <1>2, <2>2
  <2>3. CASE node # N
    <3>1. node' = node + 1 /\ node' \in Node
      BY <2>1, <2>3 DEF Node
    <3> QED BY <3>1
  <2> QED BY <2>2, <2>3
<1>5. FileTypes'
  <2>1. share' \in [Node -> Contents(Share)]
    BY <1>1, <1>2 DEF FileTypes, Contents
  <2> QED BY <1>1, <1>4, <2>1 DEF FileTypes
<1>6. DkgInv'
  <2>1. ASSUME NEW i \in Node, at' = "genesis" \/ (at' # "idle" /\ i < node')
        PROVE  share'[i] = [run |-> run, index |-> i]
    <3>1. i = node \/ i < node
      <4>1. i \in Nat /\ node \in Nat /\ i <= N
        BY <1>2, Constants
      <4>2. at' = "genesis" => node = N
        OBVIOUS
      <4>3. at' # "genesis" => node' = node + 1
        OBVIOUS
      <4> QED BY <2>1, <4>1, <4>2, <4>3
    <3> QED BY <1>1, <1>3, <3>1 DEF DkgInv
  <2> QED BY <1>1, <2>1 DEF DkgInv
<1>7. ASSUME NEW g \in {genesis, config.genesis} \ {Unreadable}
      PROVE  Known(g)'
  <2>1. Known(g) /\ g.identity # run
    BY <1>1 DEF AllKnown, Known
  <2>2. \A i \in Node : key[i] \in KeysOf(g.validators) => share'[i] = share[i]
    BY <1>3, <2>1 DEF Known
  <2>3. UNCHANGED <<run, drawn, used, key>> /\ at' # "share"
    OBVIOUS
  <2> QED BY <2>1, <2>2, <2>3 DEF Known
<1>8. StartInv'
  BY <1>1 DEF StartInv, OwnShare
<1>9. AllKnown'
  BY <1>7 DEF AllKnown
<1> QED BY <1>5, <1>6, <1>8, <1>9 DEF FilesInv

\* The genesis is written last: it knows the keys and shares of the whole run.
LEMMA WriteGenesisFiles == ASSUME FilesInv, WriteGenesis PROVE FilesInv'
<1> USE DEF WriteGenesis, start
<1> DEFINE new == [identity |-> run, validators |-> drawn]
<1>1. FileTypes /\ DkgInv /\ AllKnown /\ StartInv
  BY DEF FilesInv
<1>2. new \in Genesis /\ genesis' = new
  BY <1>1, AllNodes, GenesisMade DEF FileTypes
<1>3. FileTypes'
  BY <1>1, <1>2 DEF FileTypes, Contents
<1>4. DkgInv'
  BY <1>1 DEF DkgInv
<1>5. Known(new)'
  <2>1. UNCHANGED <<run, drawn, used, key, share>> /\ at' = "idle" /\ run \in Int
    BY <1>1 DEF FileTypes
  <2>2. /\ Sorted(drawn) /\ KeysOf(drawn) \subseteq used
        /\ \A i \in Node : /\ key[i] \in KeysOf(drawn) => key[i] = drawn[i]
                           /\ share[i] = [run |-> run, index |-> i]
    BY <1>1 DEF DkgInv
  <2>3. DOMAIN drawn = Node
    BY <1>1 DEF FileTypes
  <2> QED BY <1>2, <2>1, <2>2, <2>3 DEF Known
<1>6. ASSUME NEW g \in {genesis, config.genesis} \ {Unreadable}
      PROVE  Known(g)'
  <2>1. Known(g)
    BY <1>1 DEF AllKnown
  <2> QED BY <2>1 DEF Known
<1>7. AllKnown'
  BY <1>2, <1>5, <1>6 DEF AllKnown
<1>8. StartInv'
  BY <1>1 DEF StartInv, OwnShare
<1> QED BY <1>3, <1>4, <1>7, <1>8 DEF FilesInv

LEMMA TruncateFiles == ASSUME FilesInv, Truncate PROVE FilesInv'
<1> USE DEF Truncate, dkg, start
<1>1. FileTypes /\ DkgInv /\ AllKnown /\ StartInv
  BY DEF FilesInv
<1>2. node \in Node
  BY <1>1 DEF FileTypes
<1>3. UNCHANGED <<run, drawn, at, node, used, stage, config>>
  OBVIOUS
<1>4. CASE at = "key" /\ key' = [key EXCEPT ![node] = Unreadable] /\ UNCHANGED <<share, genesis>>
  <2>1. \A i \in Node : key'[i] = IF i = node THEN Unreadable ELSE key[i]
    BY <1>1, <1>4 DEF FileTypes
  <2>2. FileTypes'
    BY <1>1, <1>2, <1>3, <1>4 DEF FileTypes, Contents
  <2>3. KeysOf(drawn) \subseteq Key
    BY <1>1 DEF FileTypes, KeysOf
  <2>4. DkgInv'
    BY <1>1, <1>3, <1>4, <2>1, <2>3, Constants DEF DkgInv
  <2>5. ASSUME NEW g \in {genesis, config.genesis} \ {Unreadable} PROVE Known(g) /\ Known(g)'
    <3>1. Known(g) /\ KeysOf(g.validators) \subseteq Key
      BY <1>1 DEF AllKnown, Known, FileTypes
    <3>2. \A i \in Node : key'[i] \in KeysOf(g.validators) => key'[i] = key[i]
      BY <2>1, <3>1, Constants
    <3> QED BY <1>3, <1>4, <3>1, <3>2 DEF Known
  <2>6. AllKnown'
    BY <1>3, <1>4, <2>5 DEF AllKnown
  <2>7. stage = "key" /\ key'[self] \in KeysOf(config.genesis.validators)
           => key[self] = key'[self]
    <3>1. SUFFICES ASSUME stage = "key" PROVE KeysOf(config.genesis.validators) \subseteq Key
      BY <2>1, Constants
    <3>2. config.genesis # Unreadable
      BY <1>1, <3>1 DEF StartInv
    <3> QED BY <1>1, <3>2 DEF AllKnown, Known, FileTypes
  <2>8. StartInv'
    BY <1>1, <1>3, <2>7 DEF StartInv, OwnShare
  <2> QED BY <2>2, <2>4, <2>6, <2>8 DEF FilesInv
<1>5. CASE at = "share" /\ share' = [share EXCEPT ![node] = Unreadable] /\ UNCHANGED <<key, genesis>>
  <2>1. \A i \in Node : share'[i] = IF i = node THEN Unreadable ELSE share[i]
    BY <1>1, <1>5 DEF FileTypes
  <2>2. FileTypes'
    BY <1>1, <1>2, <1>3, <1>5 DEF FileTypes, Contents
  <2>3. ~(node < node)
    BY <1>2, Constants
  <2>4. DkgInv'
    BY <1>1, <1>3, <1>5, <2>1, <2>3 DEF DkgInv
  <2>5. ASSUME NEW g \in {genesis, config.genesis} \ {Unreadable} PROVE Known(g)'
    BY <1>1, <1>3, <1>5, <2>1 DEF AllKnown, Known
  <2>6. AllKnown'
    BY <1>3, <1>5, <2>5 DEF AllKnown
  <2>7. StartInv'
    BY <1>1, <1>3, <1>5 DEF StartInv, OwnShare
  <2> QED BY <2>2, <2>4, <2>6, <2>7 DEF FilesInv
<1>6. CASE at = "genesis" /\ genesis' = Unreadable /\ UNCHANGED <<key, share>>
  <2>1. FileTypes'
    BY <1>1, <1>3, <1>6 DEF FileTypes, Contents
  <2>2. DkgInv'
    BY <1>1, <1>3, <1>6 DEF DkgInv
  <2>3. AllKnown'
    BY <1>1, <1>3, <1>6 DEF AllKnown, Known
  <2>4. StartInv'
    BY <1>1, <1>3, <1>6 DEF StartInv, OwnShare
  <2> QED BY <2>1, <2>2, <2>3, <2>4 DEF FilesInv
<1>7. CASE \E n \in Node \ {N} :
             /\ at = "genesis" /\ UNCHANGED <<key, share>>
             /\ genesis' = [identity |-> run, validators |-> Prefix(drawn, n)]
  <2>1. PICK n \in Node :
             /\ at = "genesis" /\ UNCHANGED <<key, share>>
             /\ genesis' = [identity |-> run, validators |-> Prefix(drawn, n)]
    BY <1>7
  <2> DEFINE keys == Prefix(drawn, n)
             new == [identity |-> run, validators |-> keys]
  <2>2. /\ n \in Nat /\ 1..n \subseteq Node /\ keys \in [1..n -> Key]
        /\ \A i \in 1..n : keys[i] = drawn[i]
    <3>1. n \in Nat /\ 1..n \subseteq Node
      BY Constants DEF Node
    <3> QED BY <1>1, <3>1 DEF FileTypes, Prefix
  <2>3. keys' = keys
    BY <1>3
  <2> HIDE DEF keys
  <2>4. new \in Genesis
    BY <1>1, <2>2, GenesisMade DEF FileTypes
  <2>5. FileTypes'
    BY <1>1, <1>3, <2>1, <2>4 DEF FileTypes, Contents, keys
  <2>6. DkgInv'
    BY <1>1, <1>3, <2>1 DEF DkgInv
  <2>7. Known(new)'
    <3>1. /\ Sorted(drawn) /\ KeysOf(drawn) \subseteq used /\ DOMAIN drawn = Node
          /\ \A i \in Node : /\ key[i] \in KeysOf(drawn) => key[i] = drawn[i]
                             /\ share[i] = [run |-> run, index |-> i]
      BY <1>1, <2>1 DEF DkgInv, FileTypes
    <3>2. Sorted(keys) /\ KeysOf(keys) \subseteq KeysOf(drawn)
      BY <2>2, <3>1 DEF Sorted, KeysOf
    <3>3. ASSUME NEW i \in Node, key[i] \in KeysOf(keys)
          PROVE  i \in DOMAIN keys /\ key[i] = keys[i]
      <4>1. key[i] = drawn[i]
        BY <3>1, <3>2, <3>3
      <4>2. PICK j \in 1..n : key[i] = drawn[j]
        BY <2>2, <3>3 DEF KeysOf
      <4>3. i \in 1..N /\ j \in 1..N /\ N \in Nat /\ drawn \in [1..N -> Key]
        BY <1>1, <2>2, Constants, AllNodes DEF FileTypes
      <4>4. Sorted(drawn) /\ drawn[i] = drawn[j]
        BY <3>1, <4>1, <4>2
      <4> HIDE DEF keys, new
      <4>5. i = j
        BY <4>3, <4>4, SortedInjective, Zenon
      <4> QED BY <2>2, <4>1, <4>2, <4>5
    <3>4. run \in Int
      BY <1>1 DEF FileTypes
    <3>5. UNCHANGED <<key, share, run, drawn, used, at, keys>>
      BY <1>3, <2>1, <2>3
    <3>6. /\ new' = new /\ new.identity = run /\ new.validators = keys
          /\ at = "genesis" /\ KeysOf(keys) \subseteq used
      BY <2>1, <3>1, <3>2, <3>5
    <3> HIDE DEF new
    <3>7. Known(new)
      BY <2>4, <3>1, <3>2, <3>3, <3>4, <3>6 DEF Known
    <3> QED BY <3>5, <3>6, <3>7 DEF Known
  <2>8. ASSUME NEW g \in {genesis, config.genesis} \ {Unreadable} PROVE Known(g)'
    BY <1>1, <1>3, <2>1 DEF AllKnown, Known
  <2>9. AllKnown'
    BY <1>3, <2>1, <2>7, <2>8 DEF AllKnown, keys
  <2>10. StartInv'
    BY <1>1, <1>3, <2>1 DEF StartInv, OwnShare
  <2> QED BY <2>5, <2>6, <2>9, <2>10 DEF FilesInv
<1> QED BY <1>4, <1>5, <1>6, <1>7

LEMMA InterruptFiles == ASSUME FilesInv, Interrupt PROVE FilesInv'
<1> USE DEF Interrupt, files, start
<1>1. FileTypes /\ DkgInv /\ AllKnown /\ StartInv
  BY DEF FilesInv
<1>2. FileTypes' /\ DkgInv'
  BY <1>1 DEF FileTypes, DkgInv
<1>3. AllKnown'
  BY <1>1 DEF AllKnown, Known
<1>4. StartInv'
  BY <1>1 DEF StartInv, OwnShare
<1> QED BY <1>2, <1>3, <1>4 DEF FilesInv

LEMMA GenerateFiles ==
    ASSUME FilesInv, NEW i \in Node, NEW k \in Key \union {Unreadable}, generate_keys(i, k)
    PROVE  FilesInv'
<1> USE DEF generate_keys, start
<1>1. FileTypes /\ DkgInv /\ AllKnown /\ StartInv
  BY DEF FilesInv
<1>2. \A j \in Node : key'[j] = IF j = i THEN k ELSE key[j]
  BY <1>1 DEF FileTypes
<1>3. UNCHANGED <<share, genesis, run, drawn, at, node, stage, config>>
  OBVIOUS
<1>4. k \notin used /\ used' = used \union ({k} \ {Unreadable})
  OBVIOUS
<1>5. FileTypes'
  BY <1>1 DEF FileTypes, Contents
<1>6. DkgInv'
  <2>1. KeysOf(drawn) \subseteq used' /\ k \notin KeysOf(drawn)
    BY <1>1, <1>4 DEF DkgInv
  <2>2. \A j \in Node : /\ key'[j] \in used' \union {Unreadable}
                        /\ key'[j] \in KeysOf(drawn) => key'[j] = drawn[j]
    BY <1>1, <1>2, <1>4, <2>1 DEF DkgInv
  <2> QED BY <1>1, <1>3, <2>1, <2>2 DEF DkgInv
<1>7. ASSUME NEW g \in {genesis, config.genesis} \ {Unreadable}
      PROVE  /\ Known(g) /\ Known(g)'
             /\ \A j \in Node : key'[j] \in KeysOf(g.validators) => key'[j] = key[j]
  <2>1. Known(g) /\ KeysOf(g.validators) \subseteq used'
    BY <1>1, <1>4 DEF AllKnown, Known
  <2>2. \A j \in Node : key'[j] \in KeysOf(g.validators) => key'[j] = key[j]
    BY <1>2, <1>4, <2>1 DEF Known
  <2> QED BY <1>3, <2>1, <2>2 DEF Known
<1>8. AllKnown'
  BY <1>3, <1>7 DEF AllKnown
<1>9. StartInv'
  BY <1>1, <1>3, <1>7, Constants DEF StartInv, OwnShare
<1> QED BY <1>5, <1>6, <1>8, <1>9 DEF FilesInv

\* The start: what is read changes, and no file does.
LEMMA ReadFiles ==
    ASSUME FilesInv, ReadGenesis \/ ReadShare \/ ReadKey \/ Stop
    PROVE  FilesInv'
<1> USE DEF files, dkg
<1>1. FileTypes /\ DkgInv /\ AllKnown /\ StartInv /\ self \in Node
  BY Constants DEF FilesInv
<1>2. UNCHANGED <<key, share, genesis, run, drawn, at, node, used>>
  BY DEF ReadGenesis, ReadShare, ReadKey, Stop
<1>3. DkgInv'
  BY <1>1, <1>2 DEF DkgInv
<1>4. \A g : Known(g) => Known(g)'
  BY <1>2 DEF Known
<1>5. FileTypes' /\ AllKnown' /\ StartInv'
  <2>1. CASE ReadGenesis
    <3>1. FileTypes' /\ stage' = "share" /\ config'.genesis = genesis /\ genesis # Unreadable
      BY <1>1, <1>2, <2>1 DEF ReadGenesis, FileTypes
    <3> QED BY <1>1, <1>2, <1>4, <3>1 DEF AllKnown, StartInv
  <2>2. CASE ReadShare
    <3>1. /\ FileTypes' /\ stage = "share" /\ stage' = "key" /\ config'.genesis = config.genesis
          /\ config'.share = share[self] /\ share[self] # Unreadable
      BY <1>1, <1>2, <2>2 DEF ReadShare, FileTypes
    <3>2. config.genesis # Unreadable /\ Known(config.genesis)
      BY <1>1, <3>1 DEF AllKnown, StartInv
    <3>3. key[self] \in KeysOf(config.genesis.validators)
             => share[self] = [run |-> config.genesis.identity, index |-> self]
      BY <1>1, <3>1, <3>2 DEF Known
    <3> QED BY <1>1, <1>2, <1>4, <3>1, <3>2, <3>3 DEF AllKnown, StartInv, OwnShare
  <2>3. CASE ReadKey
    <3>1. /\ FileTypes' /\ stage = "key" /\ stage' = "running"
          /\ config'.genesis = config.genesis /\ config'.share = config.share
          /\ config'.signer = key[self] /\ key[self] \in KeysOf(config.genesis.validators)
      BY <1>1, <1>2, <2>3 DEF ReadKey, FileTypes
    <3>2. config.genesis # Unreadable /\ Known(config.genesis)
      BY <1>1, <3>1 DEF AllKnown, StartInv
    <3>3. /\ self \in DOMAIN config.genesis.validators
          /\ key[self] = config.genesis.validators[self]
      BY <1>1, <3>1, <3>2 DEF Known
    <3> QED BY <1>1, <1>2, <1>4, <3>1, <3>2, <3>3 DEF AllKnown, StartInv, OwnShare
  <2>4. CASE Stop
    <3>1. stage' = "down" /\ config' = NoConfig
      BY <2>4 DEF Stop
    <3>2. FileTypes'
      BY <1>1, <1>2, <3>1 DEF FileTypes, NoConfig, Contents
    <3> QED BY <1>1, <1>2, <1>4, <3>1, <3>2 DEF AllKnown, StartInv, NoConfig
  <2> QED BY <2>1, <2>2, <2>3, <2>4
<1> QED BY <1>3, <1>5 DEF FilesInv

LEMMA StutterFiles == ASSUME FilesInv, UNCHANGED setup PROVE FilesInv'
<1> USE DEF setup, files, dkg, start
<1>1. FileTypes /\ DkgInv /\ AllKnown /\ StartInv
  BY DEF FilesInv
<1>2. FileTypes' /\ DkgInv'
  BY <1>1 DEF FileTypes, DkgInv
<1>3. AllKnown' /\ StartInv'
  BY <1>1 DEF AllKnown, Known, StartInv, OwnShare
<1> QED BY <1>2, <1>3 DEF FilesInv

THEOREM FilesInvariant == Spec => []FilesInv
<1>1. Init => FilesInv
  BY InitFiles DEF Init
<1>2. FilesInv /\ [Next]_vars => FilesInv'
  <2> SUFFICES ASSUME FilesInv, [Next]_vars PROVE FilesInv'
    OBVIOUS
  <2>1. CASE SetupNext
    BY <2>1, BeginFiles, WriteKeyFiles, WriteShareFiles, WriteGenesisFiles, TruncateFiles,
       InterruptFiles, GenerateFiles, ReadFiles DEF SetupNext
  <2>2. CASE Join \/ Leave
    BY <2>2, ReadFiles DEF Join, Leave
  <2>3. CASE RegistryStep \/ UNCHANGED vars
    BY <2>3, StutterFiles DEF RegistryStep, vars
  <2> QED BY <2>1, <2>2, <2>3 DEF Next, SetupStep
<1> QED BY <1>1, <1>2, PTL DEF Spec

-----------------------------------------------------------------------------
(* The registry.                                                           *)

\* A set of participants: no key twice in the list, and the map its inverse.
PSet == [list : Seq(Key), map : UNION {[D -> Nat] : D \in SUBSET Key}]
Good(s) ==
    /\ s \in PSet
    /\ DOMAIN s.map = {s.list[i] : i \in DOMAIN s.list}
    /\ \A i \in DOMAIN s.list : s.map[s.list[i]] = i - 1

\* The number of the latest set is one ahead of the sets only while the lock is held.
ViewsInv ==
    /\ views \in Seq(PSet) /\ \A v \in DOMAIN views : Good(views[v])
    /\ latest \in 0..MaxViews /\ stored \in BOOLEAN
    /\ locked => edit = <<edit[1]>> /\ Good(edit[1]) /\ views # <<>>
    /\ locked /\ ~stored => latest < MaxViews
    /\ Len(views) = IF locked /\ stored THEN latest - 1 ELSE latest

\* The resolver's list is at least as new as the number it was reconciled for, until it
\* has a number at least as new as its list.
ReadersInv ==
    /\ id \in 0..latest /\ peers \in 0..latest /\ loaded \in 0..latest /\ asking \in BOOLEAN
    /\ IF asking THEN id >= 1 /\ id >= peers ELSE peers >= id

\* The registry of a running node was created with its own committee.
JoinedInv ==
    stage = "running" =>
        /\ views # <<>> /\ config.signer \in DOMAIN views[1].map
        /\ views[1].map[config.signer] = self - 1

RegistryInv == ViewsInv /\ ReadersInv

LEMMA SetParts ==
    ASSUME NEW s, Good(s)
    PROVE  /\ s.list \in Seq(Key) /\ Len(s.list) \in Nat /\ DOMAIN s.list = 1..Len(s.list)
           /\ DOMAIN s.map \subseteq Key /\ s.map \in [DOMAIN s.map -> Nat]
           /\ \A i \in DOMAIN s.list : s.list[i] \in DOMAIN s.map /\ s.list[i] \in Key
<1>1. s.list \in Seq(Key) /\ s.map \in UNION {[D -> Nat] : D \in SUBSET Key}
  BY DEF Good, PSet
<1>2. PICK D \in SUBSET Key : s.map \in [D -> Nat]
  BY <1>1
<1>3. \A i \in DOMAIN s.list : s.list[i] \in DOMAIN s.map
  BY DEF Good
<1>4. Len(s.list) \in Nat /\ DOMAIN s.list = 1..Len(s.list)
  BY <1>1
<1> QED BY <1>1, <1>2, <1>3, <1>4

LEMMA SetMade ==
    ASSUME NEW list \in Seq(Key), NEW D \in SUBSET Key, NEW map \in [D -> Nat],
           D = {list[i] : i \in DOMAIN list}, \A i \in DOMAIN list : map[list[i]] = i - 1
    PROVE  Good([list |-> list, map |-> map])
<1>1. map \in UNION {[E -> Nat] : E \in SUBSET Key}
  OBVIOUS
<1>2. [list |-> list, map |-> map] \in PSet
  BY <1>1 DEF PSet
<1> QED BY <1>2 DEF Good

\* What a lookup in the map finds is the place in the list.
LEMMA Placed ==
    ASSUME NEW s, Good(s), NEW k \in DOMAIN s.map
    PROVE  s.map[k] + 1 \in DOMAIN s.list /\ s.list[s.map[k] + 1] = k
<1>1. PICK i \in DOMAIN s.list : s.list[i] = k
  BY DEF Good
<1>2. s.map[k] = i - 1
  BY <1>1 DEF Good
<1>3. i \in Nat
  BY SetParts
<1> QED BY <1>1, <1>2, <1>3

LEMMA AddKeepsGood ==
    ASSUME NEW s, Good(s), NEW k \in Key, k \notin DOMAIN s.map
    PROVE  LET list == Append(s.list, k)
           IN  Good([list |-> list,
                     map |-> [p \in DOMAIN s.map \union {k} |->
                                IF p = k THEN Len(list) - 1 ELSE s.map[p]]])
<1> DEFINE list == Append(s.list, k)
           D == DOMAIN s.map \union {k}
           map == [p \in D |-> IF p = k THEN Len(list) - 1 ELSE s.map[p]]
<1>1. /\ s.list \in Seq(Key) /\ Len(s.list) \in Nat /\ DOMAIN s.list = 1..Len(s.list)
      /\ DOMAIN s.map \subseteq Key /\ s.map \in [DOMAIN s.map -> Nat]
      /\ \A i \in DOMAIN s.list : s.list[i] \in DOMAIN s.map
  BY SetParts
<1>2. /\ list \in Seq(Key) /\ Len(list) = Len(s.list) + 1 /\ DOMAIN list = 1..(Len(s.list) + 1)
      /\ list[Len(s.list) + 1] = k
      /\ \A i \in DOMAIN s.list : i \in DOMAIN list /\ list[i] = s.list[i]
  BY <1>1
<1>3. Len(list) - 1 = Len(s.list)
  BY <1>1, <1>2
<1> HIDE DEF list
<1>4. D \in SUBSET Key /\ map \in [D -> Nat]
  <2>1. \A p \in D : (IF p = k THEN Len(list) - 1 ELSE s.map[p]) \in Nat
    BY <1>1, <1>3
  <2> QED BY <1>1, <2>1
<1>5. \A i \in DOMAIN list : i \in DOMAIN s.list \/ i = Len(s.list) + 1
  BY <1>1, <1>2
<1>6. \A i \in DOMAIN list : list[i] \in D /\ map[list[i]] = i - 1
  <2> SUFFICES ASSUME NEW i \in DOMAIN list PROVE list[i] \in D /\ map[list[i]] = i - 1
    OBVIOUS
  <2>1. CASE i \in DOMAIN s.list
    <3>1. list[i] = s.list[i] /\ s.list[i] \in DOMAIN s.map /\ s.list[i] # k
      BY <1>1, <1>2, <2>1
    <3>2. s.map[s.list[i]] = i - 1
      BY <2>1 DEF Good
    <3> QED BY <3>1, <3>2
  <2>2. CASE i = Len(s.list) + 1
    BY <1>1, <1>2, <1>3, <2>2
  <2> QED BY <1>5, <2>1, <2>2
<1>7. \A p \in D : \E i \in DOMAIN list : list[i] = p
  <2> SUFFICES ASSUME NEW p \in D PROVE \E i \in DOMAIN list : list[i] = p
    OBVIOUS
  <2>1. CASE p = k
    <3>1. Len(s.list) + 1 \in DOMAIN list
      BY <1>1, <1>2
    <3> QED BY <1>2, <2>1, <3>1
  <2>2. CASE p \in DOMAIN s.map
    <3>1. PICK i \in DOMAIN s.list : s.list[i] = p
      BY <2>2 DEF Good
    <3> QED BY <1>2, <3>1
  <2> QED BY <2>1, <2>2
<1>8. D = {list[i] : i \in DOMAIN list}
  BY <1>6, <1>7
<1> HIDE DEF map, D
<1>9. Good([list |-> list, map |-> map])
  BY <1>2, <1>4, <1>6, <1>8, SetMade
<1> QED BY <1>9 DEF list, map, D

LEMMA RemoveKeepsGood ==
    ASSUME NEW s, Good(s), NEW k \in DOMAIN s.map
    PROVE  LET index == s.map[k]
               list == SwapRemove(s.list, index + 1)
               moved == {list[i] : i \in {index + 1} \intersect DOMAIN list}
           IN  Good([list |-> list,
                     map |-> [p \in DOMAIN s.map \ {k} |->
                                IF p \in moved THEN index ELSE s.map[p]]])
<1> DEFINE index == s.map[k]
           list == SwapRemove(s.list, index + 1)
           moved == {list[i] : i \in {index + 1} \intersect DOMAIN list}
           D == DOMAIN s.map \ {k}
           map == [p \in D |-> IF p \in moved THEN index ELSE s.map[p]]
           L == Len(s.list)
<1>1. /\ s.list \in Seq(Key) /\ L \in Nat /\ DOMAIN s.list = 1..L
      /\ DOMAIN s.map \subseteq Key /\ s.map \in [DOMAIN s.map -> Nat]
      /\ \A i \in DOMAIN s.list : s.list[i] \in DOMAIN s.map /\ s.list[i] \in Key
  BY SetParts
<1>2. index \in Nat /\ index + 1 \in 1..L /\ s.list[index + 1] = k /\ L \in 1..L
  <2>1. index \in Nat
    BY <1>1
  <2>2. index + 1 \in 1..L /\ s.list[index + 1] = k
    BY <1>1, Placed
  <2> QED BY <1>1, <2>1, <2>2
<1>3. \A i, j \in 1..L : s.list[i] = s.list[j] => i = j
  <2>1. \A i \in 1..L : s.map[s.list[i]] = i - 1
    BY <1>1 DEF Good
  <2> SUFFICES ASSUME NEW i \in 1..L, NEW j \in 1..L, s.list[i] = s.list[j] PROVE i = j
    OBVIOUS
  <2>2. i - 1 = j - 1
    BY <2>1
  <2> QED BY <2>2
<1>4. /\ DOMAIN list = 1..(L - 1) /\ L - 1 \in Nat /\ 1..(L - 1) \subseteq 1..L \ {L}
      /\ \A i \in 1..(L - 1) : list[i] = IF i = index + 1 THEN s.list[L] ELSE s.list[i]
  BY <1>1, <1>2 DEF SwapRemove
<1>5. list \in Seq(Key) /\ Len(list) = L - 1
  <2>1. \A i \in 1..(L - 1) : list[i] \in Key
    BY <1>1, <1>2, <1>4
  <2>2. list = [i \in 1..(L - 1) |-> list[i]]
    BY <1>1 DEF SwapRemove
  <2>3. [i \in 1..(L - 1) |-> list[i]] \in Seq(Key)
    BY <1>4, <2>1
  <2> QED BY <1>4, <2>2, <2>3
<1>6. \A i \in 1..(L - 1) : list[i] \in D /\ (list[i] \in moved <=> i = index + 1)
  <2> SUFFICES ASSUME NEW i \in 1..(L - 1)
               PROVE  list[i] \in D /\ (list[i] \in moved <=> i = index + 1)
    OBVIOUS
  <2>1. i \in 1..L /\ i # L
    BY <1>4
  <2>2. CASE i = index + 1
    <3>1. list[i] = s.list[L] /\ index + 1 # L
      BY <1>4, <2>1, <2>2
    <3>2. s.list[L] # k
      BY <1>2, <1>3, <3>1
    <3> QED BY <1>1, <1>2, <1>4, <2>2, <3>1, <3>2
  <2>3. CASE i # index + 1
    <3>1. list[i] = s.list[i] /\ s.list[i] # k
      BY <1>2, <1>3, <1>4, <2>1, <2>3
    <3>2. s.list[i] # s.list[L]
      BY <1>2, <1>3, <2>1
    <3>3. moved \subseteq {s.list[L]}
      BY <1>4
    <3> QED BY <1>1, <2>1, <2>3, <3>1, <3>2, <3>3
  <2> QED BY <2>2, <2>3
<1>7. D \in SUBSET Key /\ map \in [D -> Nat]
  BY <1>1, <1>2
<1>8. \A i \in DOMAIN list : map[list[i]] = i - 1
  <2> SUFFICES ASSUME NEW i \in 1..(L - 1) PROVE map[list[i]] = i - 1
    BY <1>4
  <2>1. i \in 1..L /\ list[i] \in D
    BY <1>4, <1>6
  <2>2. CASE i = index + 1
    BY <1>2, <1>6, <2>1, <2>2
  <2>3. CASE i # index + 1
    <3>1. list[i] = s.list[i] /\ list[i] \notin moved
      BY <1>4, <1>6, <2>3
    <3>2. s.map[s.list[i]] = i - 1
      BY <1>1, <2>1 DEF Good
    <3> QED BY <2>1, <3>1, <3>2
  <2> QED BY <2>2, <2>3
<1>9. \A p \in D : \E i \in DOMAIN list : list[i] = p
  <2> SUFFICES ASSUME NEW p \in D PROVE \E i \in 1..(L - 1) : list[i] = p
    BY <1>4
  <2>1. PICK j \in 1..L : s.list[j] = p
    BY <1>1 DEF Good
  <2>2. j # index + 1
    BY <1>2, <2>1
  <2>3. CASE j = L
    <3>1. index + 1 \in 1..(L - 1)
      BY <1>1, <1>2, <2>2, <2>3
    <3> QED BY <1>4, <2>1, <2>3, <3>1
  <2>4. CASE j # L
    <3>1. j \in 1..(L - 1)
      BY <1>1, <2>4
    <3> QED BY <1>4, <2>1, <2>2, <3>1
  <2> QED BY <2>3, <2>4
<1>10. D = {list[i] : i \in DOMAIN list}
  BY <1>4, <1>6, <1>9
<1> HIDE DEF list, map, D
<1>11. Good([list |-> list, map |-> map])
  BY <1>5, <1>7, <1>8, <1>10, SetMade
<1> QED BY <1>11 DEF list, map, D

\* A sorted committee: its keys' indices are their places.
LEMMA EnumerateIsGood ==
    ASSUME NEW n \in Nat, NEW list \in [1..n -> Key], Sorted(list)
    PROVE  /\ Good([list |-> list, map |-> Enumerate(list)])
           /\ \A i \in 1..n : /\ list[i] \in DOMAIN Enumerate(list)
                              /\ Enumerate(list)[list[i]] = i - 1
<1> DEFINE D == {list[i] : i \in 1..n}
           place(k) == CHOOSE i \in 1..n : list[i] = k
<1>1. DOMAIN list = 1..n
  OBVIOUS
<1>2. list \in Seq(Key)
  BY <1>1
<1>3. \A i \in 1..n : place(list[i]) = i
  BY SortedInjective
<1>4. \A k \in D : place(k) - 1 \in Nat
  BY <1>1, <1>3
<1>5. Enumerate(list) = [k \in D |-> place(k) - 1] /\ D \in SUBSET Key
  BY <1>1 DEF Enumerate
<1> HIDE DEF place
<1>6. Enumerate(list) \in [D -> Nat]
  BY <1>4, <1>5
<1>7. \A i \in 1..n : list[i] \in D /\ Enumerate(list)[list[i]] = i - 1
  BY <1>3, <1>5
<1>8. D = {list[i] : i \in DOMAIN list} /\ DOMAIN list = 1..n
  BY <1>1
<1> HIDE DEF D
<1>9. Good([list |-> list, map |-> Enumerate(list)])
  BY <1>2, <1>5, <1>6, <1>7, <1>8, SetMade
<1> QED BY <1>5, <1>7, <1>9

LEMMA LatestIsThere ==
    ASSUME RegistryInv
    PROVE  /\ latest \in Nat /\ Len(views) \in Nat /\ DOMAIN views = 1..Len(views)
           /\ views # <<>> => Len(views) >= 1 /\ 1 \in DOMAIN views
           /\ ~locked => DOMAIN views = 1..latest
           /\ locked => latest >= 1 /\ DOMAIN views = 1..(IF stored THEN latest - 1 ELSE latest)
<1>1. views \in Seq(PSet) /\ latest \in Nat
  BY SetupAssumption, RegistryAssumption DEF RegistryInv, ViewsInv
<1>2. Len(views) \in Nat /\ DOMAIN views = 1..Len(views) /\ (views # <<>> => Len(views) >= 1)
  BY <1>1, EmptySeq
<1>3. /\ Len(views) = IF locked /\ stored THEN latest - 1 ELSE latest
      /\ locked => views # <<>>
  BY DEF RegistryInv, ViewsInv
<1> HIDE DEF locked
<1> QED BY <1>1, <1>2, <1>3

LEMMA InitRegistry == Closed => RegistryInv
<1> SUFFICES ASSUME Closed PROVE RegistryInv
  OBVIOUS
<1>1. views = <<>> /\ views \in Seq(PSet) /\ Len(views) = 0 /\ DOMAIN views = {}
  BY DEF Closed
<1>2. ~locked /\ latest = 0 /\ stored = FALSE
  BY DEF Closed, locked
<1>3. latest \in 0..MaxViews /\ stored \in BOOLEAN
  <2>1. 0 \in 0..MaxViews
    BY RegistryAssumption
  <2> QED BY <1>2, <2>1
<1>4. ViewsInv
  <2>1. \A v \in DOMAIN views : Good(views[v])
    BY <1>1
  <2>2. Len(views) = IF locked /\ stored THEN latest - 1 ELSE latest
    BY <1>1, <1>2
  <2> QED BY <1>1, <1>2, <1>3, <2>1, <2>2, Zenon DEF ViewsInv
<1>5. id = 0 /\ peers = 0 /\ loaded = 0 /\ 0 \in 0..latest /\ peers >= id
  BY <1>2 DEF Closed
<1>6. asking \in BOOLEAN /\ ~asking
  BY DEF Closed
<1>7. ReadersInv
  BY <1>5, <1>6, Zenon DEF ReadersInv
<1> QED BY <1>4, <1>7 DEF RegistryInv

LEMMA NewRegistry ==
    ASSUME RegistryInv, NEW list, Good([list |-> list, map |-> Enumerate(list)]), New(list)
    PROVE  RegistryInv'
<1> DEFINE s == [list |-> list, map |-> Enumerate(list)]
<1>1. Good(s) /\ s \in PSet
  BY DEF Good
<1> HIDE DEF s
<1>2. views' = <<s>> /\ latest' = 1 /\ id' = 1 /\ peers' = 1
      /\ UNCHANGED <<edit, stored, asking, loaded>>
  BY DEF New, s
<1>3. ~locked /\ latest = 0
  BY LatestIsThere DEF RegistryInv, ViewsInv, New
<1>4. ~asking /\ loaded = 0 /\ asking \in BOOLEAN
  BY <1>3 DEF RegistryInv, ReadersInv
<1>5. views' \in Seq(PSet) /\ Len(views') = 1 /\ DOMAIN views' = {1} /\ views'[1] = s
  BY <1>1, <1>2
<1>6. ViewsInv'
  <2>1. ~locked' /\ stored' \in BOOLEAN
    BY <1>2, <1>3 DEF locked, RegistryInv, ViewsInv
  <2>2. 1 \in 0..MaxViews
    BY RegistryAssumption
  <2> QED BY <1>1, <1>2, <1>5, <2>1, <2>2 DEF ViewsInv
<1>7. ReadersInv'
  BY <1>2, <1>4 DEF ReadersInv
<1> QED BY <1>6, <1>7 DEF RegistryInv

\* Taking the lock, whichever set it will insert.
LEMMA EditRegistry ==
    ASSUME RegistryInv, CopyOfLatest, NEW s, Good(s), edit' = <<s>>
    PROVE  RegistryInv'
<1>1. UNCHANGED <<views, latest, id, asking, peers, loaded>> /\ stored' = FALSE
  BY DEF CopyOfLatest, resolver
<1>2. ReadersInv'
  BY <1>1 DEF RegistryInv, ReadersInv
<1>3. Len(views) = latest /\ latest < MaxViews /\ views # <<>>
  BY DEF CopyOfLatest, RegistryInv, ViewsInv
<1>4. edit'[1] = s
  OBVIOUS
<1>5. ViewsInv'
  BY <1>1, <1>3, <1>4 DEF RegistryInv, ViewsInv
<1> QED BY <1>2, <1>5 DEF RegistryInv

LEMMA ChangeRegistry ==
    ASSUME RegistryInv, NEW k \in Candidate, add_participant(k) \/ remove_participant(k)
    PROVE  RegistryInv'
<1>1. CopyOfLatest /\ k \in Key
  BY CommitteeAssumption DEF add_participant, remove_participant
<1>2. Good(Current)
  BY <1>1, LatestIsThere DEF CopyOfLatest, Current, RegistryInv, ViewsInv
<1>3. CASE add_participant(k)
  <2> DEFINE list == Append(Current.list, k)
             s == [list |-> list,
                   map |-> [p \in DOMAIN Current.map \union {k} |->
                              IF p = k THEN Len(list) - 1 ELSE Current.map[p]]]
  <2>1. Good(s)
    BY <1>1, <1>2, <1>3, AddKeepsGood DEF add_participant
  <2>2. edit' = <<s>>
    BY <1>3 DEF add_participant
  <2> HIDE DEF s
  <2> QED BY <1>1, <2>1, <2>2, EditRegistry
<1>4. CASE remove_participant(k)
  <2> DEFINE index == Current.map[k]
             list == SwapRemove(Current.list, index + 1)
             moved == {list[i] : i \in {index + 1} \intersect DOMAIN list}
             s == [list |-> list,
                   map |-> [p \in DOMAIN Current.map \ {k} |->
                              IF p \in moved THEN index ELSE Current.map[p]]]
  <2>1. Good(s)
    BY <1>2, <1>4, RemoveKeepsGood DEF remove_participant
  <2>2. edit' = <<s>>
    BY <1>4 DEF remove_participant
  <2> HIDE DEF s
  <2> QED BY <1>1, <2>1, <2>2, EditRegistry
<1> QED BY <1>3, <1>4

LEMMA StoreRegistry == ASSUME RegistryInv, StoreLatest PROVE RegistryInv'
<1>1. /\ UNCHANGED <<views, edit, id, asking, peers, loaded>>
      /\ locked /\ ~stored /\ latest' = latest + 1 /\ stored' = TRUE
  BY DEF StoreLatest, resolver
<1>2. latest \in Nat /\ latest < MaxViews /\ Len(views) = latest
  BY <1>1, LatestIsThere DEF RegistryInv, ViewsInv
<1>3. latest' \in 0..MaxViews /\ Len(views') = latest' - 1
  BY <1>1, <1>2, RegistryAssumption
<1>4. ViewsInv'
  BY <1>1, <1>3 DEF RegistryInv, ViewsInv, locked
<1>5. ReadersInv'
  BY <1>1, <1>2 DEF RegistryInv, ReadersInv
<1> QED BY <1>4, <1>5 DEF RegistryInv

LEMMA InsertRegistry ==
    ASSUME RegistryInv, Insert
    PROVE  /\ RegistryInv'
           /\ \A v \in DOMAIN views : v \in DOMAIN views' /\ views'[v] = views[v]
<1>1. /\ UNCHANGED <<latest, stored, id, asking, peers, loaded>>
      /\ locked /\ stored /\ views' = Append(views, edit[1]) /\ edit' = NoEdit
  BY DEF Insert, resolver
<1>2. /\ views \in Seq(PSet) /\ Good(edit[1]) /\ edit[1] \in PSet
      /\ Len(views) = latest - 1 /\ latest \in Nat
  BY <1>1, LatestIsThere DEF RegistryInv, ViewsInv, Good
<1>3. /\ views' \in Seq(PSet) /\ Len(views') = latest
      /\ DOMAIN views' = 1..latest /\ DOMAIN views = 1..(latest - 1)
      /\ views'[latest] = edit[1]
      /\ \A v \in DOMAIN views : v \in DOMAIN views' /\ views'[v] = views[v]
  BY <1>1, <1>2
<1>4. \A v \in DOMAIN views' : Good(views'[v])
  <2>1. \A v \in DOMAIN views' : v \in DOMAIN views \/ v = latest
    BY <1>2, <1>3
  <2> QED BY <1>2, <1>3, <2>1 DEF RegistryInv, ViewsInv
<1>5. ViewsInv'
  BY <1>1, <1>3, <1>4 DEF RegistryInv, ViewsInv, locked
<1>6. ReadersInv'
  BY <1>1 DEF RegistryInv, ReadersInv
<1> QED BY <1>3, <1>5, <1>6 DEF RegistryInv

LEMMA ReadRegistry ==
    ASSUME RegistryInv, NEW view \in 1..MaxViews,
           peer_set_id(view) \/ reconcile(view) \/ Load(view) \/ Lookup
    PROVE  RegistryInv' /\ views' = views
<1>1. UNCHANGED <<views, latest, edit, stored>>
  BY DEF peer_set_id, reconcile, Load, Lookup, writer
<1>2. ViewsInv'
  BY <1>1 DEF RegistryInv, ViewsInv, locked
<1>3. latest \in Nat /\ ReadersInv
  BY LatestIsThere DEF RegistryInv
<1>4. CASE peer_set_id(view)
  <2>1. /\ id' = view /\ view \in (id + 1)..latest /\ view >= peers /\ asking' = TRUE
        /\ UNCHANGED <<peers, loaded>>
    BY <1>4 DEF peer_set_id
  <2>2. asking' /\ asking' \in BOOLEAN
    BY <2>1
  <2>3. id' \in 0..latest' /\ id' >= 1 /\ id' >= peers'
    BY <1>1, <1>3, <2>1 DEF ReadersInv
  <2>4. ReadersInv'
    BY <1>1, <1>3, <2>1, <2>2, <2>3, Zenon DEF ReadersInv
  <2> QED BY <1>1, <1>2, <2>4 DEF RegistryInv
<1>5. CASE reconcile(view)
  <2>1. peers' = view /\ view \in id..latest /\ asking' = FALSE /\ UNCHANGED <<id, loaded>>
    BY <1>5 DEF reconcile
  <2>2. ~asking' /\ asking' \in BOOLEAN
    BY <2>1
  <2>3. peers' \in 0..latest' /\ peers' >= id'
    BY <1>1, <1>3, <2>1 DEF ReadersInv
  <2>4. ReadersInv'
    BY <1>1, <1>3, <2>1, <2>2, <2>3, Zenon DEF ReadersInv
  <2> QED BY <1>1, <1>2, <2>4 DEF RegistryInv
<1>6. CASE Load(view) \/ Lookup
  <2>1. loaded' \in 0..latest' /\ UNCHANGED <<id, asking, peers>>
    BY <1>1, <1>3, <1>6 DEF Load, Lookup, resolver
  <2>2. ReadersInv'
    BY <1>1, <1>3, <2>1, Zenon DEF ReadersInv
  <2> QED BY <1>1, <1>2, <2>2 DEF RegistryInv
<1> QED BY <1>4, <1>5, <1>6

LEMMA StutterRegistry == ASSUME RegistryInv, UNCHANGED registry PROVE RegistryInv'
<1> USE DEF registry, writer, resolver
<1>1. ViewsInv' /\ ReadersInv'
  BY DEF RegistryInv, ViewsInv, ReadersInv, locked
<1> QED BY <1>1 DEF RegistryInv

\* Each step of a running registry leaves its sets alone.
LEMMA NextRegistry ==
    ASSUME RegistryInv, RegistryNext
    PROVE  /\ RegistryInv'
           /\ \A v \in DOMAIN views : v \in DOMAIN views' /\ views'[v] = views[v]
<1>1. CASE \E k \in Candidate : add_participant(k) \/ remove_participant(k)
  <2>1. views' = views
    BY <1>1 DEF add_participant, remove_participant, CopyOfLatest
  <2> QED BY <1>1, <2>1, ChangeRegistry
<1>2. CASE StoreLatest
  <2>1. views' = views
    BY <1>2 DEF StoreLatest
  <2> QED BY <1>2, <2>1, StoreRegistry
<1>3. CASE Insert
  BY <1>3, InsertRegistry
<1>4. CASE \E view \in 1..MaxViews : peer_set_id(view) \/ reconcile(view) \/ Load(view)
  <2>1. RegistryInv' /\ views' = views
    BY <1>4, ReadRegistry
  <2> QED BY <2>1
<1>5. CASE Lookup
  <2>1. 1 \in 1..MaxViews
    BY RegistryAssumption
  <2>2. RegistryInv' /\ views' = views
    BY <1>5, <2>1, ReadRegistry
  <2> QED BY <2>2
<1> QED BY <1>1, <1>2, <1>3, <1>4, <1>5 DEF RegistryNext

-----------------------------------------------------------------------------
(* A node, from its files to its registry.                                 *)

CommitteeInv == FilesInv /\ RegistryInv /\ JoinedInv

\* The committee that the engine sorts is the genesis' list.
LEMMA JoinCommittee == ASSUME CommitteeInv, Join PROVE CommitteeInv'
<1>1. FilesInv' /\ ReadKey
  BY ReadFiles DEF CommitteeInv, Join
<1>2. stage = "key" /\ stage' = "running" /\ config'.genesis = config.genesis
      /\ config.genesis # Unreadable
  BY <1>1 DEF CommitteeInv, FilesInv, StartInv, FileTypes, ReadKey
<1>3. Known(config.genesis)
  BY <1>2 DEF CommitteeInv, FilesInv, AllKnown
<1>4. PICK n \in Nat : config.genesis.validators \in [1..n -> Key]
  BY <1>3, GenesisParts DEF Known
<1>5. Sorted(config.genesis.validators) /\ DOMAIN config.genesis.validators = 1..n
  BY <1>3, <1>4 DEF Known
<1>6. PICK committee \in [1..n -> Key] :
          /\ Sorted(committee) /\ KeysOf(committee) = KeysOf(config.genesis.validators)
          /\ New(committee)
  BY <1>5 DEF Join
<1>7. committee = config.genesis.validators
  BY <1>4, <1>5, <1>6, SortedUnique
<1>8. Good([list |-> committee, map |-> Enumerate(committee)])
  BY <1>6, EnumerateIsGood
<1>9. RegistryInv'
  BY <1>6, <1>8, NewRegistry DEF CommitteeInv
<1>10. self \in 1..n /\ config'.signer = committee[self]
  BY <1>1, <1>2, <1>5, <1>7 DEF FilesInv, StartInv
<1>11. views' # <<>> /\ views'[1].map = Enumerate(committee)
  BY <1>6 DEF New
<1>12. JoinedInv'
  BY <1>6, <1>10, <1>11, EnumerateIsGood DEF JoinedInv
<1> QED BY <1>1, <1>9, <1>12 DEF CommitteeInv

THEOREM CommitteeInvariant == Spec => []CommitteeInv
<1>1. Init => CommitteeInv
  <2>1. Init => JoinedInv
    BY DEF Init, SetupInit, JoinedInv
  <2> QED BY <2>1, InitFiles, InitRegistry DEF Init, CommitteeInv
<1>2. CommitteeInv /\ FilesInv' /\ [Next]_vars => CommitteeInv'
  <2> SUFFICES ASSUME CommitteeInv, FilesInv', [Next]_vars PROVE CommitteeInv'
    OBVIOUS
  <2> USE DEF CommitteeInv
  <2>1. CASE SetupStep
    <3>1. RegistryInv' /\ views' = views
      BY <2>1, StutterRegistry DEF SetupStep, registry, writer
    <3>2. \/ UNCHANGED start
          \/ stage' # "running"
      BY <2>1 DEF SetupStep, SetupNext, Begin, WriteKey, WriteShare, WriteGenesis, Truncate,
         Interrupt, generate_keys, ReadGenesis, ReadShare
    <3>3. JoinedInv'
      BY <3>1, <3>2 DEF JoinedInv, start
    <3> QED BY <3>1, <3>3
  <2>2. CASE Join
    BY <2>2, JoinCommittee
  <2>3. CASE RegistryStep
    <3>1. /\ RegistryInv' /\ UNCHANGED <<stage, config>>
          /\ \A v \in DOMAIN views : v \in DOMAIN views' /\ views'[v] = views[v]
      BY <2>3, NextRegistry DEF RegistryStep, setup, start
    <3>2. views # <<>> => 1 \in DOMAIN views
      BY LatestIsThere
    <3>3. JoinedInv'
      <4> SUFFICES ASSUME stage = "running"
                   PROVE  /\ views' # <<>> /\ config.signer \in DOMAIN views'[1].map
                          /\ views'[1].map[config.signer] = self - 1
        BY <3>1 DEF JoinedInv
      <4>1. views'[1] = views[1] /\ 1 \in DOMAIN views'
        BY <3>1, <3>2 DEF JoinedInv
      <4>2. views' # <<>>
        BY <4>1
      <4> QED BY <4>1, <4>2 DEF JoinedInv
    <3> QED BY <3>1, <3>3
  <2>4. CASE Leave
    <3>1. Closed' /\ stage' = "down"
      BY <2>4 DEF Leave, Stop, Closed
    <3>2. RegistryInv'
      BY <3>1, InitRegistry, PTL
    <3> QED BY <3>1, <3>2 DEF JoinedInv
  <2>5. CASE UNCHANGED vars
    <3>1. RegistryInv' /\ UNCHANGED <<views, stage, config>>
      BY <2>5, StutterRegistry DEF vars, setup, start, registry, writer
    <3> QED BY <3>1 DEF JoinedInv
  <2> QED BY <2>1, <2>2, <2>3, <2>4, <2>5 DEF Next
<1> QED BY <1>1, <1>2, FilesInvariant, PTL DEF Spec

\* A set that is consistent is of its type.
LEMMA GoodIsTyped == ASSUME NEW s, Good(s) PROVE ParticipantSet(s)
<1>1. /\ s.list \in Seq(Key) /\ Len(s.list) \in Nat /\ DOMAIN s.list = 1..Len(s.list)
      /\ DOMAIN s.map \subseteq Key
  BY SetParts
<1>2. ASSUME NEW k \in DOMAIN s.map PROVE s.map[k] \in 0..(Len(s.list) - 1)
  <2>1. s.map[k] \in Nat /\ s.map[k] + 1 \in 1..Len(s.list)
    BY <1>1, Placed, SetParts
  <2> QED BY <1>1, <2>1
<1> QED BY <1>1, <1>2 DEF ParticipantSet

\* Every variable has its type; in particular every index of a key is one of the list.
THEOREM TypeCorrect == Spec => []TypeOK
<1>1. CommitteeInv => TypeOK
  <2> SUFFICES ASSUME CommitteeInv PROVE TypeOK
    OBVIOUS
  <2>1. FileTypes /\ ViewsInv /\ ReadersInv
    BY DEF CommitteeInv, FilesInv, RegistryInv
  <2>2. /\ \A v \in DOMAIN views : ParticipantSet(views[v])
        /\ locked => ParticipantSet(edit[1])
    BY <2>1, GoodIsTyped DEF ViewsInv
  <2> QED BY <2>1, <2>2 DEF TypeOK, FileTypes, ViewsInv, ReadersInv
<1> QED BY <1>1, CommitteeInvariant, PTL

\* A running node signs with the share of its own index and of its genesis' polynomial:
\* a key that is in a genesis has that genesis' share beside it, or none.
THEOREM ShareFitsIndex == Spec => []OwnIndexHasShare
<1>1. CommitteeInv => OwnIndexHasShare
  BY DEF CommitteeInv, FilesInv, StartInv, OwnShare, JoinedInv, OwnIndexHasShare
<1> QED BY <1>1, CommitteeInvariant, PTL

\* In every set of the registry the map is the inverse of the list.
THEOREM MapsAreInverse == Spec => []MapMatchesList
<1>1. CommitteeInv => MapMatchesList
  BY DEF CommitteeInv, RegistryInv, ViewsInv, Good, MapMatchesList
<1> QED BY <1>1, CommitteeInvariant, PTL

\* Whatever a reader loaded before the lock, it finds its set behind it; no leader is named
\* only when the set is empty, and a leader that is named has an index.
THEOREM ReadersFind == Spec => []LookupsAnswer
<1>1. CommitteeInv => LookupsAnswer
  <2> SUFFICES ASSUME CommitteeInv, ~locked PROVE LookupsAnswer
    BY DEF LookupsAnswer
  <2>1. DOMAIN views = 1..latest /\ latest \in Nat
    BY LatestIsThere DEF CommitteeInv
  <2>2. loaded \in 0..latest /\ (asking => id \in 0..latest /\ id >= 1)
    BY DEF CommitteeInv, RegistryInv, ReadersInv
  <2>3. asking => id..latest \subseteq DOMAIN views
    BY <2>1, <2>2
  <2>4. ASSUME loaded # 0
        PROVE  loaded \in DOMAIN views /\ leaders(loaded) = DOMAIN views[loaded].map
    <3>1. loaded \in DOMAIN views
      BY <2>1, <2>2, <2>4
    <3>2. Good(views[loaded])
      BY <3>1 DEF CommitteeInv, RegistryInv, ViewsInv
    <3> QED BY <3>1, <3>2 DEF Good, leaders, ListedIn
  <2> QED BY <2>3, <2>4 DEF LookupsAnswer
<1> QED BY <1>1, CommitteeInvariant, PTL

\* Up to date by its number, the resolver is up to date by its list.
THEOREM ResolverHasLatest == Spec => []ResolverNotStale
<1>1. CommitteeInv => ResolverNotStale
  <2> SUFFICES ASSUME CommitteeInv, ~asking, id = latest PROVE peers = latest
    BY DEF ResolverNotStale
  <2>1. latest \in Nat /\ peers \in 0..latest /\ peers >= id
    BY LatestIsThere DEF CommitteeInv, RegistryInv, ReadersInv
  <2> QED BY <2>1
<1> QED BY <1>1, CommitteeInvariant, PTL

\* No set changes or goes away while the registry exists.
THEOREM ReferencesStayValid == Spec => ViewsStay
<1>1. CommitteeInv /\ [Next]_vars =>
          [views' = <<>> \/ \A v \in DOMAIN views :
               v \in DOMAIN views' /\ views'[v] = views[v]]_vars
  <2> SUFFICES ASSUME CommitteeInv, Next
               PROVE  views' = <<>> \/ \A v \in DOMAIN views :
                          v \in DOMAIN views' /\ views'[v] = views[v]
    OBVIOUS
  <2>1. CASE SetupStep
    BY <2>1 DEF SetupStep, registry, writer
  <2>2. CASE Join
    BY <2>2 DEF Join, New
  <2>3. CASE RegistryStep
    BY <2>3, NextRegistry DEF RegistryStep, CommitteeInv
  <2>4. CASE Leave
    BY <2>4 DEF Leave
  <2> QED BY <2>1, <2>2, <2>3, <2>4 DEF Next
<1> QED BY <1>1, CommitteeInvariant, PTL DEF Spec, ViewsStay
-----------------------------------------------------------------------------
(* The registry implements Membership.                                     *)

\* The second set has one key more than the first, or one less.
OneKeyApart(old, new) ==
    \E k \in Key : \/ k \notin old /\ new = old \union {k}
                   \/ k \in old /\ new = old \ {k}

\* What the holder of the lock will insert was made from the last set that is there, also
\* when its number has been stored already.
EditInv == locked => OneKeyApart(ListedIn(views[Len(views)]), ListedIn(edit[1]))

LEMMA ChangeIsOneKey ==
    ASSUME RegistryInv, NEW k \in Candidate, add_participant(k) \/ remove_participant(k)
    PROVE  EditInv'
<1>1. /\ CopyOfLatest /\ k \in Key /\ UNCHANGED views
      /\ views # <<>> /\ Len(views) = latest
  <2>1. CopyOfLatest /\ k \in Key
    BY CommitteeAssumption DEF add_participant, remove_participant
  <2> QED BY <2>1 DEF CopyOfLatest, RegistryInv, ViewsInv
<1>2. Good(Current) /\ views'[Len(views')] = Current
  BY <1>1, LatestIsThere DEF Current, RegistryInv, ViewsInv
<1>3. ListedIn(Current) = DOMAIN Current.map
  BY <1>2 DEF Good, ListedIn
<1>4. CASE add_participant(k)
  <2> DEFINE list == Append(Current.list, k)
             s == [list |-> list,
                   map |-> [p \in DOMAIN Current.map \union {k} |->
                              IF p = k THEN Len(list) - 1 ELSE Current.map[p]]]
  <2>1. Good(s) /\ DOMAIN s.map = DOMAIN Current.map \union {k}
    BY <1>1, <1>2, <1>4, AddKeepsGood DEF add_participant
  <2>2. edit' = <<s>> /\ k \notin DOMAIN Current.map
    BY <1>4 DEF add_participant
  <2> HIDE DEF s
  <2>3. ListedIn(edit'[1]) = ListedIn(Current) \union {k} /\ k \notin ListedIn(Current)
    BY <1>3, <2>1, <2>2 DEF Good, ListedIn
  <2> QED BY <1>1, <1>2, <2>3 DEF EditInv, OneKeyApart
<1>5. CASE remove_participant(k)
  <2> DEFINE index == Current.map[k]
             list == SwapRemove(Current.list, index + 1)
             moved == {list[i] : i \in {index + 1} \intersect DOMAIN list}
             s == [list |-> list,
                   map |-> [p \in DOMAIN Current.map \ {k} |->
                              IF p \in moved THEN index ELSE Current.map[p]]]
  <2>1. edit' = <<s>> /\ k \in DOMAIN Current.map
    BY <1>5 DEF remove_participant
  <2>2. Good(s)
    BY <1>2, <1>5, RemoveKeepsGood DEF remove_participant
  <2>3. DOMAIN s.map = DOMAIN Current.map \ {k}
    OBVIOUS
  <2> HIDE DEF s
  <2>4. ListedIn(edit'[1]) = ListedIn(Current) \ {k} /\ k \in ListedIn(Current)
    BY <1>3, <2>1, <2>2, <2>3 DEF Good, ListedIn
  <2> QED BY <1>1, <1>2, <2>4 DEF EditInv, OneKeyApart
<1> QED BY <1>4, <1>5

LEMMA EditInvariant == Spec => []EditInv
<1>1. Init => EditInv
  BY DEF Init, Closed, EditInv, locked
<1>2. CommitteeInv /\ EditInv /\ [Next]_vars => EditInv'
  <2> SUFFICES ASSUME CommitteeInv, EditInv, [Next]_vars PROVE EditInv'
    OBVIOUS
  <2>1. CASE UNCHANGED writer
    BY <2>1 DEF writer, EditInv, locked
  <2>2. CASE Join
    BY <2>2 DEF Join, New, CommitteeInv, RegistryInv, ViewsInv, EditInv, locked
  <2>3. CASE \E k \in Candidate : add_participant(k) \/ remove_participant(k)
    BY <2>3, ChangeIsOneKey DEF CommitteeInv
  <2>4. CASE StoreLatest
    BY <2>4 DEF StoreLatest, EditInv, locked
  <2>5. CASE Insert \/ Leave
    BY <2>5 DEF Insert, Leave, EditInv, locked
  <2>6. CASE SetupStep \/ UNCHANGED vars
    BY <2>1, <2>6 DEF SetupStep, vars, registry
  <2>7. CASE Lookup \/ \E view \in 1..MaxViews : peer_set_id(view) \/ reconcile(view) \/ Load(view)
    BY <2>1, <2>7 DEF Lookup, peer_set_id, reconcile, Load
  <2> QED BY <2>2, <2>3, <2>4, <2>5, <2>6, <2>7 DEF Next, RegistryStep, RegistryNext
<1> QED BY <1>1, <1>2, CommitteeInvariant, PTL DEF Spec

\* The history has an entry for every set that is there.
HistoryMade ==
    /\ History \in Seq(SUBSET Key) /\ Len(History) = Len(views)
    /\ \A v \in 1..Len(views) : History[v] = ListedIn(views[v])
    /\ (History = <<>>) <=> (views = <<>>)

LEMMA HistoryOfViews == RegistryInv => HistoryMade
<1> SUFFICES ASSUME RegistryInv PROVE HistoryMade
  OBVIOUS
<1>1. Len(views) \in Nat /\ DOMAIN views = 1..Len(views) /\ views \in Seq(PSet)
  BY LatestIsThere DEF RegistryInv, ViewsInv
<1>2. \A v \in 1..Len(views) : ListedIn(views[v]) \in SUBSET Key
  BY <1>1, SetParts DEF RegistryInv, ViewsInv, ListedIn
<1>3. History = [v \in 1..Len(views) |-> ListedIn(views[v])]
  BY <1>1 DEF History
<1>4. History \in Seq(SUBSET Key) /\ Len(History) = Len(views)
  BY <1>1, <1>2, <1>3
<1> QED BY <1>1, <1>3, <1>4, EmptySeq DEF HistoryMade

\* The insertion, and it alone, adds to the history, and by one key.
LEMMA InsertIsChange ==
    ASSUME CommitteeInv, CommitteeInv', EditInv, Insert
    PROVE  \E k \in Key : Members!Change(k)
<1>1. /\ locked /\ views' = Append(views, edit[1]) /\ UNCHANGED peers
      /\ views # <<>> /\ views \in Seq(PSet) /\ edit[1] \in PSet /\ RegistryInv /\ RegistryInv'
  BY DEF Insert, resolver, CommitteeInv, RegistryInv, ViewsInv, Good
<1> DEFINE n == Len(views)
           new == ListedIn(edit[1])
<1>2. n \in Nat /\ n >= 1 /\ Len(views') = n + 1 /\ views'[n + 1] = edit[1]
      /\ \A v \in 1..n : views'[v] = views[v]
  BY <1>1, LatestIsThere
<1>3. /\ History \in Seq(SUBSET Key) /\ Len(History) = n /\ History # <<>>
      /\ History' \in Seq(SUBSET Key) /\ Len(History') = n + 1
      /\ History'[n + 1] = new /\ \A v \in 1..n : History'[v] = History[v]
      /\ History[n] = ListedIn(views[n])
  <2>1. HistoryMade /\ HistoryMade'
    BY <1>1, HistoryOfViews, PTL
  <2>2. ListedIn(views'[n + 1]) = new /\ \A v \in 1..n : ListedIn(views'[v]) = ListedIn(views[v])
    BY <1>2
  <2>3. 1..n \subseteq 1..(n + 1) /\ n \in 1..n /\ n + 1 \in 1..(n + 1)
    BY <1>2
  <2> QED BY <1>1, <1>2, <2>1, <2>2, <2>3 DEF HistoryMade
<1>4. History' = Append(History, new)
  BY <1>2, <1>3, AppendProperties
<1>5. PICK k \in Key : \/ k \notin History[n] /\ new = History[n] \union {k}
                       \/ k \in History[n] /\ new = History[n] \ {k}
  BY <1>1, <1>3 DEF EditInv, OneKeyApart
<1>6. Members!Change(k)
  BY <1>1, <1>3, <1>4, <1>5 DEF Members!Change, Members!Current
<1> QED BY <1>6

\* The sets form a history in which each differs from the one before by the one key that
\* was added or removed, although a writer stores its number before its set is there; and
\* the resolver never goes back in it, nor ahead of it.
THEOREM Refinement == Spec => KeepsMembership
<1>1. Init => Members!Init
  BY DEF Init, Closed, Members!Init, History
<1>2. CommitteeInv /\ CommitteeInv' /\ EditInv /\ [Next]_vars
         => [Members!Next]_<<History, peers>>
  <2> SUFFICES ASSUME CommitteeInv, CommitteeInv', EditInv, [Next]_vars
               PROVE  Members!Next \/ UNCHANGED <<History, peers>>
    OBVIOUS
  <2> USE DEF Members!Next
  <2>1. CASE UNCHANGED <<views, peers>>
    BY <2>1 DEF History
  <2>2. CASE Join
    <3>1. PICK list : New(list)
      BY <2>2 DEF Join
    <3>2. views = <<>> /\ Len(views') = 1 /\ peers' = 1
      BY <3>1 DEF New
    <3>3. History = <<>>
      BY <3>2, HistoryOfViews DEF HistoryMade, CommitteeInv
    <3>4. History' \in Seq(SUBSET Key) /\ Len(History') = 1
      <4>1. RegistryInv'
        BY DEF CommitteeInv
      <4>2. HistoryMade'
        BY <4>1, HistoryOfViews, PTL
      <4> QED BY <3>2, <4>2 DEF HistoryMade
    <3>5. History' = <<History'[1]>> /\ History'[1] \in SUBSET Key
      BY <3>4
    <3>6. Members!Open
      BY <3>2, <3>3, <3>5 DEF Members!Open
    <3> QED BY <3>6
  <2>3. CASE Leave
    <3>1. Members!Close
      BY <2>3 DEF Leave, Members!Close, History
    <3> QED BY <3>1
  <2>4. CASE Insert
    BY <2>4, InsertIsChange
  <2>5. CASE \E view \in 1..MaxViews : reconcile(view)
    <3>1. PICK view \in 1..MaxViews : reconcile(view)
      BY <2>5
    <3>2. /\ asking /\ ~locked /\ peers' = view /\ view \in id..latest /\ UNCHANGED views
          /\ id >= peers /\ id \in Int /\ peers \in Int /\ latest \in Int
      BY <3>1, LatestIsThere DEF reconcile, writer, CommitteeInv, RegistryInv, ReadersInv
    <3>3. Len(History) = latest
      BY <3>2, HistoryOfViews DEF HistoryMade, CommitteeInv, RegistryInv, ViewsInv
    <3>4. Members!Follow
      BY <3>2, <3>3 DEF Members!Follow, History
    <3> QED BY <3>4
  <2>6. CASE SetupStep \/ UNCHANGED vars
    BY <2>1, <2>6 DEF SetupStep, vars, registry, writer, resolver
  <2>7. CASE \E k \in Candidate : add_participant(k) \/ remove_participant(k)
    BY <2>1, <2>7 DEF add_participant, remove_participant, CopyOfLatest, resolver
  <2>8. CASE StoreLatest \/ Lookup \/ \E view \in 1..MaxViews : peer_set_id(view) \/ Load(view)
    BY <2>1, <2>8 DEF StoreLatest, Lookup, peer_set_id, Load, writer, resolver
  <2> QED BY <2>2, <2>3, <2>4, <2>5, <2>6, <2>7, <2>8 DEF Next, RegistryStep, RegistryNext
<1> QED BY <1>1, <1>2, CommitteeInvariant, EditInvariant, PTL
        DEF Spec, KeepsMembership, Members!Spec
=============================================================================
