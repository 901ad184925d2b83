------------------------------- MODULE MCRounds -------------------------------
(* Four validators, one of which may fail. *)
EXTENDS Rounds

CONSTANTS v1, v2, v3, v4

Four == {v1, v2, v3, v4}
=============================================================================
