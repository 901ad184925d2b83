----------------------------- MODULE MCApplication -----------------------------
(* Small instances of Application: the chains of MCChain, and in a view the   *)
(* good block of a peer, and one whose payload builds on another block.       *)
EXTENDS Application, MCChain

Peer(v, eth_parent) == [view |-> v, parent |-> f1, height |-> 2,
                        eth_parent |-> eth_parent, later |-> TRUE]
PeerBlocks == {Peer(2, f1), Peer(2, Genesis), Peer(3, f1)}
=============================================================================
