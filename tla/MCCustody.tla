------------------------------ MODULE MCCustody ------------------------------
(* Four validators, of which three are a quorum.                             *)
EXTENDS Custody

CONSTANTS v1, v2, v3, v4
Four == {v1, v2, v3, v4}

\* Who is not the leader is like any other who is not.
LeaderOrOther == {v1, v2}
=============================================================================
