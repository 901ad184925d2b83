--------------------------------- MODULE Setup ---------------------------------
(***************************************************************************)
(* The files of a Summit network and the programs that read and write      *)
(* them: dkg_testnet draws a polynomial, its shares and the nodes' keys,   *)
(* "summit keys generate" replaces one node's key, and "summit run" reads  *)
(* what it finds.  They are separate processes: each may stop or be        *)
(* interrupted between two files, or within one, which it then leaves      *)
(* empty or cut short.                                                     *)
(*                                                                         *)
(* Starting a node only reads, so one starting node, self, stands for any. *)
(* Keys are numbers: all that matters is that they have an order.  A run   *)
(* of dkg_testnet stands for the polynomial it draws.                      *)
(***************************************************************************)
EXTENDS Integers, Sequences

CONSTANTS N,           \* number of validators (--nodes)
          Key,         \* keys, of which the random generator draws fresh ones
          FirstKeys,   \* keys of the committed testnet directory and genesis
          self,        \* the node whose start is followed
          MaxRuns,     \* bound: runs of dkg_testnet
          Unreadable   \* a file that is missing, empty or cut short

Node == 1..N

\* private_keys.sort() and committee.sort(): keys in the order of the validators.
Sorted(keys) == \A i, j \in DOMAIN keys : i < j => keys[i] < keys[j]
KeysOf(keys) == {keys[i] : i \in DOMAIN keys}

\* The first n keys of a list.
Prefix(keys, n) == [i \in 1..n |-> keys[i]]

\* The shares that sign for n validators, and the length of the polynomial of n.
quorum(n) == n - (n - 1) \div 3

ASSUME SetupAssumption ==
    /\ N \in Nat \ {0} /\ MaxRuns \in Nat /\ self \in Node
    /\ Key \subseteq Nat /\ Unreadable \notin Key
    /\ FirstKeys \in [Node -> Key] /\ Sorted(FirstKeys)

Share == [run : 0..MaxRuns, index : Node]
Genesis == [identity : 0..MaxRuns, validators : UNION {[1..n -> Key] : n \in Node}]

ASSUME UnreadableAssumption == Unreadable \notin Share /\ Unreadable \notin Genesis

VARIABLES
    key, share,      \* testnet/node<i>/key.pem and share.pem
    genesis,         \* example_genesis.toml
    run, drawn,      \* the last run of dkg_testnet, and private_keys, sorted
    at, node,        \* the file it writes next
    used,            \* keys drawn so far
    stage,           \* what self reads next, or "running"
    config           \* what it has read: genesis, share and signer

files == <<key, share, genesis>>
dkg == <<run, drawn, at, node, used>>
start == <<stage, config>>
setup == <<files, dkg, start>>

NoConfig == [genesis |-> Unreadable, share |-> Unreadable, signer |-> Unreadable]

\* The repository has a genesis and its keys, but no shares.
SetupInit ==
    /\ key = FirstKeys /\ share = [i \in Node |-> Unreadable]
    /\ genesis = [identity |-> 0, validators |-> FirstKeys]
    /\ run = 0 /\ drawn = FirstKeys /\ at = "idle" /\ node = 1
    /\ used = KeysOf(FirstKeys)
    /\ stage = "down" /\ config = NoConfig

-----------------------------------------------------------------------------
(* dkg_testnet.                                                            *)

\* The genesis can be read and has a validator for each of --nodes.
GenesisIsWhole == genesis # Unreadable /\ Len(genesis.validators) = N

\* Bug of Begin: the keys are not sorted.
BeginUnsorted(keys) ==
    /\ at = "idle" /\ GenesisIsWhole /\ run < MaxRuns
    /\ KeysOf(keys) \intersect used = {}
    /\ \A i, j \in Node : i # j => keys[i] # keys[j]
    /\ run' = run + 1 /\ drawn' = keys /\ used' = used \union KeysOf(keys)
    /\ at' = "key" /\ node' = 1
    /\ UNCHANGED <<files, start>>

\* It reads the genesis, and draws a polynomial and keys, which it sorts.
Begin(keys) ==
    /\ at = "idle" /\ GenesisIsWhole /\ run < MaxRuns
    /\ KeysOf(keys) \intersect used = {} /\ Sorted(keys)
    /\ run' = run + 1 /\ drawn' = keys /\ used' = used \union KeysOf(keys)
    /\ at' = "key" /\ node' = 1
    /\ UNCHANGED <<files, start>>

WriteKey ==
    /\ at = "key" /\ at' = "share"
    /\ key' = [key EXCEPT ![node] = drawn[node]]
    /\ UNCHANGED <<share, genesis, run, drawn, node, used, start>>

WriteShare ==
    /\ at = "share"
    /\ share' = [share EXCEPT ![node] = [run |-> run, index |-> node]]
    /\ IF node = N THEN at' = "genesis" /\ UNCHANGED node
       ELSE at' = "key" /\ node' = node + 1
    /\ UNCHANGED <<key, genesis, run, drawn, used, start>>

WriteGenesis ==
    /\ at = "genesis" /\ at' = "idle"
    /\ genesis' = [identity |-> run, validators |-> drawn]
    /\ UNCHANGED <<key, share, run, drawn, node, used, start>>

\* fs::write empties the file before it fills it.  A key or a share that is cut short does
\* not decode; a genesis that ends behind one of its validators, which come last, parses.
Truncate ==
    /\ \/ at = "key" /\ key' = [key EXCEPT ![node] = Unreadable] /\ UNCHANGED <<share, genesis>>
       \/ at = "share" /\ share' = [share EXCEPT ![node] = Unreadable] /\ UNCHANGED <<key, genesis>>
       \/ at = "genesis" /\ genesis' = Unreadable /\ UNCHANGED <<key, share>>
       \/ \E n \in Node \ {N} :
             /\ at = "genesis" /\ UNCHANGED <<key, share>>
             /\ genesis' = [identity |-> run, validators |-> Prefix(drawn, n)]
    /\ UNCHANGED <<dkg, start>>

\* It is interrupted, or a write fails.
Interrupt ==
    /\ at # "idle" /\ at' = "idle"
    /\ UNCHANGED <<files, run, drawn, node, used, start>>

-----------------------------------------------------------------------------
\* summit keys generate: a key that exists is overwritten, or lost on the way.
generate_keys(i, k) ==
    /\ k \notin used
    /\ key' = [key EXCEPT ![i] = k]
    /\ used' = used \union ({k} \ {Unreadable})
    /\ UNCHANGED <<share, genesis, run, drawn, at, node, start>>

-----------------------------------------------------------------------------
(* summit run: the genesis, then get_engine_config's share and signer, then *)
(* the search for this node in the committee.                              *)

ReadGenesis ==
    /\ stage = "down" /\ genesis # Unreadable
    /\ stage' = "share" /\ config' = [config EXCEPT !.genesis = genesis]
    /\ UNCHANGED <<files, dkg>>

ReadShare ==
    /\ stage = "share" /\ share[self] # Unreadable
    /\ stage' = "key" /\ config' = [config EXCEPT !.share = share[self]]
    /\ UNCHANGED <<files, dkg>>

\* The polynomial has a coefficient for each share of a quorum of N, and is decoded for a
\* quorum of the validators that are listed.
PolynomialDecodes == quorum(Len(config.genesis.validators)) = quorum(N)

ReadKey ==
    /\ stage = "key" /\ PolynomialDecodes
    /\ key[self] \in KeysOf(config.genesis.validators)
    /\ stage' = "running" /\ config' = [config EXCEPT !.signer = key[self]]
    /\ UNCHANGED <<files, dkg>>

\* A panic ("This node is not on the committee", an unreadable file), or a stop.
Stop ==
    /\ stage # "down" /\ stage' = "down" /\ config' = NoConfig
    /\ UNCHANGED <<files, dkg>>

-----------------------------------------------------------------------------
SetupNext ==
    \/ \E keys \in [Node -> Key] : Begin(keys)
    \/ WriteKey \/ WriteShare \/ WriteGenesis \/ Truncate \/ Interrupt
    \/ \E i \in Node, k \in Key \union {Unreadable} : generate_keys(i, k)
    \/ ReadGenesis \/ ReadShare
=============================================================================
