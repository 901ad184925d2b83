----------------------------- MODULE MCCommittee -----------------------------
(* Two nodes, of which the second is followed, and keys for two runs of       *)
(* dkg_testnet, or for one and two of "keys generate".                        *)
EXTENDS Committee

SixKeys == 1..6
CommittedKeys == <<2, 5>>
Three == {1, 3, 4}
=============================================================================
