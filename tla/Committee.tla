------------------------------- MODULE Committee -------------------------------
(***************************************************************************)
(* From the files to the registry: a node that starts gives the committee  *)
(* it read, sorted, its share and the polynomial to Registry::new          *)
(* (node/src/engine.rs), and consensus then takes the index the registry   *)
(* has of a key for the index of its share.  Nothing checks that they fit. *)
(***************************************************************************)
EXTENDS Setup, Registry

ASSUME CommitteeAssumption == Candidate \subseteq Key

vars == <<setup, registry>>

Init == SetupInit /\ Closed

\* The files of the network change, or the node goes on starting.
SetupStep == SetupNext /\ UNCHANGED registry

\* The node finds itself in the committee, and its engine creates the registry with the
\* committee, sorted.
Join ==
    /\ ReadKey
    /\ \E committee \in [DOMAIN config.genesis.validators -> Key] :
          /\ Sorted(committee) /\ KeysOf(committee) = KeysOf(config.genesis.validators)
          /\ New(committee)

RegistryStep == RegistryNext /\ UNCHANGED setup

Leave ==
    /\ Stop
    /\ views' = <<>> /\ latest' = 0 /\ edit' = NoEdit /\ stored' = FALSE
    /\ id' = 0 /\ asking' = FALSE /\ peers' = 0 /\ loaded' = 0

Next == SetupStep \/ Join \/ RegistryStep \/ Leave

Spec == Init /\ [][Next]_vars

-----------------------------------------------------------------------------
(* Properties.                                                             *)

Contents(file) == file \union {Unreadable}
ParticipantSet(s) ==
    /\ s.list \in Seq(Key)
    /\ DOMAIN s.map \subseteq Key
    /\ \A k \in DOMAIN s.map : s.map[k] \in 0..(Len(s.list) - 1)

\* Every variable has the type its declaration gives it; in particular every index
\* in a participants_map is one of the list.
TypeOK ==
    /\ key \in [Node -> Contents(Key)] /\ share \in [Node -> Contents(Share)]
    /\ genesis \in Contents(Genesis)
    /\ run \in 0..MaxRuns /\ drawn \in [Node -> Key] /\ used \subseteq Key
    /\ at \in {"idle", "key", "share", "genesis"} /\ node \in Node
    /\ stage \in {"down", "share", "key", "running"}
    /\ config \in [genesis : Contents(Genesis), share : Contents(Share),
                   signer : Contents(Key)]
    /\ \A v \in DOMAIN views : ParticipantSet(views[v])
    /\ latest \in 0..MaxViews /\ stored \in BOOLEAN /\ asking \in BOOLEAN
    /\ locked => ParticipantSet(edit[1])
    /\ id \in 0..latest /\ peers \in 0..latest /\ loaded \in 0..latest

\* A running node signs with the share of its own index of the genesis' polynomial,
\* although key and share are separate files, dkg_testnet may be interrupted between
\* them or run while the node starts, and only the key is compared with the genesis.
OwnIndexHasShare ==
    stage = "running" =>
        /\ config.share.run = config.genesis.identity
        /\ config.signer \in DOMAIN views[1].map
        /\ views[1].map[config.signer] = config.share.index - 1

\* participants_map is the inverse of participants, whatever swap_remove moved.
MapMatchesList ==
    \A v \in DOMAIN views :
        LET s == views[v]
        IN  /\ DOMAIN s.map = {s.list[i] : i \in DOMAIN s.list}
            /\ \A i \in DOMAIN s.list : s.map[s.list[i]] = i - 1

\* A reader that loaded a number before it took the lock finds its set behind it: peers()
\* never falls back to EMPTY for a set that is missing, and participants() and the two
\* leader() answer None for no such set either.  When both leader() answer None the set
\* has no member, and whom they name is one whom is_participant() knows by an index.
LookupsAnswer ==
    ~locked =>
        /\ asking => id..latest \subseteq DOMAIN views
        /\ loaded # 0 =>
              /\ loaded \in DOMAIN views
              /\ leaders(loaded) \subseteq DOMAIN views[loaded].map
              /\ leaders(loaded) = {} => DOMAIN views[loaded].map = {}

\* When the resolver believes to be up to date it has the latest list, although the
\* number and the list are two reads.
ResolverNotStale == views # <<>> /\ ~asking /\ id = latest => peers = latest

\* "Once a view is added, it never changes" (registry.rs:24), nor goes away: what the
\* references that peers() and participants() hand out rest on.
ViewsStay ==
    [][views' = <<>> \/ \A v \in DOMAIN views : v \in DOMAIN views' /\ views'[v] = views[v]]_vars

\* The registry implements Membership: every set that is numbered is the one before it with
\* one key more or less, and what the resolver takes its peers from is in the map and is
\* never an older set than before, although the number is stored before the set is there.
History == [v \in DOMAIN views |-> ListedIn(views[v])]

Members == INSTANCE Membership WITH Keys <- Key, history <- History, following <- peers

KeepsMembership == Members!Spec
=============================================================================
