-------------------------------- MODULE Custody --------------------------------
(***************************************************************************)
(* Who holds the block of one view.  The leader keeps what it built in one *)
(* slot in memory and broadcasts it; the others verify it when it arrives, *)
(* hand it to their syncer's mailbox and only then answer consensus, whose *)
(* votes are journaled.  What the syncer stores is never synced.  So a     *)
(* crash leaves a vote, and may leave no block: the network has to have    *)
(* the block of a certificate all the same, since every later leader       *)
(* builds on it.                                                           *)
(*                                                                         *)
(* Each variable is a set of validators, or says it of the leader.         *)
(* Consensus is external: it votes once, and tells every validator of a    *)
(* certificate, again perhaps after a restart.                             *)
(***************************************************************************)
EXTENDS Integers, FiniteSets

CONSTANTS Validator, Leader, Quorum,
          Fragile,      \* scope: who may crash
          MaxCrashed    \* bound: validators that ever crash

ASSUME CustodyAssumption ==
    /\ IsFiniteSet(Validator) /\ Leader \in Validator /\ Fragile \subseteq Validator
    /\ Quorum \in 2..Cardinality(Validator) /\ MaxCrashed \in Nat

VARIABLES
    built,        \* the leader's built_block is this block
    sent,         \* the leader's syncer has broadcast it
    buffer,       \* whose broadcast engine caches it
    queued,       \* whose syncer's mailbox holds a StoreVerified of it
    vote,         \* whose journal has a notarize vote for it (durable)
    verified, notarized,   \* whose archives hold it (may lose it in a crash)
    fetching,     \* whose resolver is asked for the notarized block of the view
    up, crashed   \* who is running, and who ever crashed

memory == <<built, sent, buffer, queued, fetching>>
archives == <<verified, notarized>>
vars == <<memory, archives, vote, up, crashed>>

Others == Validator \ {Leader}

\* The leader has just built the block, and its digest is with consensus.
Init ==
    /\ built = TRUE /\ sent = FALSE
    /\ buffer = {} /\ queued = {} /\ fetching = {}
    /\ vote = {} /\ verified = {} /\ notarized = {}
    /\ up = Validator /\ crashed = {}

Certificate == Cardinality(vote) >= Quorum

\* What a syncer's Get finds; and where the block is in some way, be it only on its way
\* to the archive.
Finds(v) == v \in buffer \union verified \union notarized
Holders == buffer \union queued \union verified \union notarized
              \union (IF built THEN {Leader} ELSE {})

-----------------------------------------------------------------------------
(* The leader.                                                             *)

\* Consensus takes the digest, and votes for its own proposal without asking again.
LeaderVotes ==
    /\ Leader \in up /\ built
    /\ vote' = vote \union {Leader}
    /\ UNCHANGED <<memory, archives, up, crashed>>

Broadcast ==
    /\ Leader \in up /\ built
    /\ sent' = TRUE /\ buffer' = buffer \union {Leader}
    /\ UNCHANGED <<built, queued, fetching, archives, vote, up, crashed>>

\* It leads a later view, and the slot is taken by another block.
BuildAnother ==
    /\ Leader \in up /\ built
    /\ built' = FALSE
    /\ UNCHANGED <<sent, buffer, queued, fetching, archives, vote, up, crashed>>

-----------------------------------------------------------------------------
(* A validator that verifies it.                                           *)

\* The broadcast arrives, if it does, and is cached until newer blocks push it out.
Receive(v) ==
    /\ v \in up /\ sent
    /\ buffer' = buffer \union {v}
    /\ UNCHANGED <<built, sent, queued, fetching, archives, vote, up, crashed>>
Evict(v) ==
    /\ v \in buffer
    /\ buffer' = buffer \ {v}
    /\ UNCHANGED <<built, sent, queued, fetching, archives, vote, up, crashed>>

\* Bug of Respond: consensus is answered although the block is not handed on.
RespondOnly(v) ==
    /\ v \in (up \intersect Others) \ vote /\ Finds(v)
    /\ vote' = vote \union {v}
    /\ UNCHANGED <<memory, archives, up, crashed>>

\* Consensus asked for it to be verified, and it is there: it is handed to the syncer's
\* mailbox, then consensus is answered and votes.  (A crash before the vote leaves less
\* behind than one after it.)
Respond(v) ==
    /\ v \in (up \intersect Others) \ vote /\ Finds(v)
    /\ queued' = queued \union {v} /\ vote' = vote \union {v}
    /\ UNCHANGED <<built, sent, buffer, fetching, archives, up, crashed>>

StoreVerified(v) ==
    /\ v \in queued
    /\ queued' = queued \ {v} /\ verified' = verified \union {v}
    /\ UNCHANGED <<built, sent, buffer, fetching, notarized, vote, up, crashed>>

-----------------------------------------------------------------------------
(* The certificate, and who fetches its block.                             *)

\* Bug of Notarize: a block that is missing is not fetched.
NotarizeIfFound(v) ==
    /\ v \in up \ queued /\ Certificate
    /\ notarized' = IF v \in buffer \union verified THEN notarized \union {v} ELSE notarized
    /\ UNCHANGED <<memory, verified, vote, up, crashed>>

\* Another: the report overtakes the block that waits in the mailbox.
NotarizeOvertakes(v) ==
    /\ v \in up /\ Certificate
    /\ IF v \in buffer \union verified
       THEN notarized' = notarized \union {v} /\ UNCHANGED fetching
       ELSE fetching' = fetching \union {v} /\ UNCHANGED notarized
    /\ UNCHANGED <<built, sent, buffer, queued, verified, vote, up, crashed>>

\* Consensus reports the certificate, by the same mailbox: the report is handled before
\* the StoreVerified of this block gets there, or after it is stored.
Notarize(v) ==
    /\ v \in up \ queued /\ Certificate
    /\ IF v \in buffer \union verified
       THEN notarized' = notarized \union {v} /\ UNCHANGED fetching
       ELSE fetching' = fetching \union {v} /\ UNCHANGED notarized
    /\ UNCHANGED <<built, sent, buffer, queued, verified, vote, up, crashed>>

\* A peer serves it from its notarized archive, the only one Produce looks in.
Deliver(v, p) ==
    /\ v \in fetching /\ p \in up \intersect notarized
    /\ fetching' = fetching \ {v} /\ notarized' = notarized \union {v}
    /\ UNCHANGED <<built, sent, buffer, queued, verified, vote, up, crashed>>

-----------------------------------------------------------------------------
\* Bug of Crash: what is in memory is there again after it.
CrashKeepsBuffer(v, lost) ==
    /\ v \in up \intersect Fragile /\ Cardinality(crashed \union {v}) <= MaxCrashed
    /\ up' = up \ {v} /\ crashed' = crashed \union {v}
    /\ built' = (built /\ v # Leader)
    /\ queued' = queued \ {v}
    /\ fetching' = fetching \ {v}
    /\ verified' = IF "verified" \in lost THEN verified \ {v} ELSE verified
    /\ notarized' = IF "notarized" \in lost THEN notarized \ {v} ELSE notarized
    /\ UNCHANGED <<sent, buffer, vote>>

\* A crash forgets what is in memory, keeps the votes, and loses what of the archives
\* did not reach the disk.
Crash(v, lost) ==
    /\ v \in up \intersect Fragile /\ Cardinality(crashed \union {v}) <= MaxCrashed
    /\ up' = up \ {v} /\ crashed' = crashed \union {v}
    /\ built' = (built /\ v # Leader)
    /\ buffer' = buffer \ {v} /\ queued' = queued \ {v}
    /\ fetching' = fetching \ {v}
    /\ verified' = IF "verified" \in lost THEN verified \ {v} ELSE verified
    /\ notarized' = IF "notarized" \in lost THEN notarized \ {v} ELSE notarized
    /\ UNCHANGED <<sent, vote>>

Restart(v) ==
    /\ v \in Validator \ up
    /\ up' = up \union {v}
    /\ UNCHANGED <<memory, archives, vote, crashed>>

-----------------------------------------------------------------------------
Next ==
    \/ LeaderVotes \/ Broadcast \/ BuildAnother
    \/ \E v \in Validator :
          \/ Receive(v) \/ Evict(v) \/ Respond(v)
          \/ StoreVerified(v)
          \/ Notarize(v) \/ \E p \in Validator : Deliver(v, p)
          \/ \E lost \in SUBSET {"verified", "notarized"} : Crash(v, lost)
          \/ Restart(v)

Spec == Init /\ [][Next]_vars

\* The syncer's mailbox is handled, and consensus tells it of the certificate, unless the
\* validator crashes; the resolver asks its peers until one has the block.
Fairness ==
    \A v \in Validator :
        /\ WF_vars(v \notin crashed /\ (StoreVerified(v) \/ Notarize(v)))
        /\ WF_vars(\E p \in Validator : Deliver(v, p))

LiveSpec == Spec /\ Fairness

-----------------------------------------------------------------------------
(* Properties.                                                             *)

\* Who runs may have it in memory; who is down has not.  The leader verifies nothing.
TypeOK ==
    /\ built \in BOOLEAN /\ sent \in BOOLEAN
    /\ buffer \subseteq up
    /\ queued \subseteq up \intersect Others /\ fetching \subseteq up
    /\ vote \subseteq Validator /\ verified \subseteq Others /\ notarized \subseteq Validator
    /\ up \subseteq Validator /\ Validator \ up \subseteq crashed
    /\ crashed \subseteq Validator /\ Cardinality(crashed) <= MaxCrashed

\* "persist valid block" (application/src/actor.rs:201), and only then respond: a validator
\* that voted has the block in its archive, or on the way to it, also after a crash.
VotersPersist == (vote \intersect up) \ {Leader} \subseteq queued \union verified

\* What is left of it: so it is of those that never crashed.
VotersKeep == vote \ ({Leader} \union crashed) \subseteq queued \union verified

\* While fewer voters than Quorum - 1 have ever crashed, somebody holds the block of a
\* certificate, although no copy was ever synced, and the leader's may be gone.
CertifiedBlockHeld ==
    Certificate /\ Cardinality(vote \intersect crashed) < Quorum - 1 => Holders # {}

\* Nor does a voter depend on its peers: it handles a certificate that follows its vote
\* after the block it handed on ("persist valid block"), so who voted and never crashed
\* never starts to fetch it (syncer/src/actor.rs:377), although its broadcast cache may have
\* lost it by then.
VotersNeedNoFetch ==
    [][(fetching' \ fetching) \intersect vote \subseteq {Leader} \union crashed]_vars

\* And then everybody gets it: a validator that does not crash has the certified block
\* in the end, to build on or to vote for its children.
CertifiedBlockSpreads ==
    Certificate ~> \/ Validator \ crashed \subseteq notarized
                   \/ Cardinality(crashed) >= Quorum - 1
=============================================================================
