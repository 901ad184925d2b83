----------------------------- MODULE CustodyProofs -----------------------------
(***************************************************************************)
(* That the block of a certificate is held by somebody, for every number   *)
(* of validators, every quorum and every bound on crashes.                 *)
(***************************************************************************)
EXTENDS Custody, FiniteSetTheorems, TLAPS

LEMMA InitTypes == Init => TypeOK
<1> SUFFICES ASSUME Init PROVE TypeOK
  OBVIOUS
<1>1. Cardinality(crashed) <= MaxCrashed
  <2>1. crashed = {}
    BY DEF Init
  <2>2. Cardinality(crashed) = 0
    BY <2>1, FS_EmptySet
  <2> QED BY <2>2, CustodyAssumption
<1> QED BY <1>1, CustodyAssumption DEF Init, TypeOK, Others

LEMMA NextTypes == TypeOK /\ [Next]_vars => TypeOK'
<1> SUFFICES ASSUME TypeOK, [Next]_vars PROVE TypeOK'
  OBVIOUS
<1> USE CustodyAssumption DEF TypeOK, memory, archives, Others
<1>1. CASE LeaderVotes \/ Broadcast \/ BuildAnother
  BY <1>1 DEF LeaderVotes, Broadcast, BuildAnother
<1>2. CASE \E v \in Validator : Receive(v) \/ Evict(v) \/ Respond(v) \/ StoreVerified(v)
  BY <1>2 DEF Receive, Evict, Respond, StoreVerified
<1>3. CASE \E v \in Validator : Notarize(v) \/ Restart(v)
  BY <1>3 DEF Notarize, Restart
<1>4. CASE \E v, p \in Validator : Deliver(v, p)
  BY <1>4 DEF Deliver
<1>5. CASE \E v \in Validator, lost \in SUBSET {"verified", "notarized"} : Crash(v, lost)
  BY <1>5 DEF Crash
<1>6. CASE UNCHANGED vars
  BY <1>6 DEF vars
<1> QED BY <1>1, <1>2, <1>3, <1>4, <1>5, <1>6 DEF Next

\* Every reachable state is well typed; in particular nobody who is down has a block in
\* memory.
THEOREM TypeCorrect == Spec => []TypeOK
BY InitTypes, NextTypes, PTL DEF Spec

LEMMA NextKeep == TypeOK /\ VotersKeep /\ [Next]_vars => VotersKeep'
<1> SUFFICES ASSUME TypeOK, VotersKeep, [Next]_vars PROVE VotersKeep'
  OBVIOUS
<1> USE DEF VotersKeep, memory, archives, Others
<1>1. CASE LeaderVotes \/ Broadcast \/ BuildAnother
  BY <1>1 DEF LeaderVotes, Broadcast, BuildAnother
<1>2. CASE \E v \in Validator : Receive(v) \/ Evict(v) \/ Respond(v) \/ StoreVerified(v)
  BY <1>2 DEF Receive, Evict, Respond, StoreVerified
<1>3. CASE \E v \in Validator : Notarize(v) \/ Restart(v)
  BY <1>3 DEF Notarize, Restart
<1>4. CASE \E v, p \in Validator : Deliver(v, p)
  BY <1>4 DEF Deliver
<1>5. CASE \E v \in Validator, lost \in SUBSET {"verified", "notarized"} : Crash(v, lost)
  BY <1>5 DEF Crash
<1>6. CASE UNCHANGED vars
  BY <1>6 DEF vars
<1> QED BY <1>1, <1>2, <1>3, <1>4, <1>5, <1>6 DEF Next

\* A validator that voted and never crashed has the block, or has it on the way to its
\* archive.
THEOREM VotersAreHolders == Spec => []VotersKeep
<1>1. Init => VotersKeep
  BY DEF Init, VotersKeep
<1> QED BY InitTypes, NextTypes, NextKeep, <1>1, PTL DEF Spec

\* Only a certificate starts a fetch, and finds the block of who voted for it.
LEMMA StartsFetch ==
    TypeOK /\ VotersKeep /\ [Next]_vars
        => (fetching' \ fetching) \intersect vote \subseteq {Leader} \union crashed
<1> SUFFICES ASSUME TypeOK, VotersKeep, [Next]_vars,
                    NEW w \in (fetching' \ fetching) \intersect vote,
                    w # Leader, w \notin crashed
             PROVE  FALSE
  OBVIOUS
<1>1. CASE \E v \in Validator : Notarize(v)
  <2>1. Notarize(w) /\ w \notin verified
    BY <1>1 DEF Notarize
  <2> QED BY <2>1 DEF VotersKeep, Notarize
<1>2. CASE ~\E v \in Validator : Notarize(v)
  BY <1>2 DEF Next, vars, memory, LeaderVotes, Broadcast, BuildAnother, Receive, Evict,
              Respond, StoreVerified, Deliver, Crash, Restart
<1> QED BY <1>1, <1>2

\* Who voted and never crashed never asks its peers for the block.
THEOREM VotersFetchNothing == Spec => VotersNeedNoFetch
<1>1. Init => VotersKeep
  BY DEF Init, VotersKeep
<1> QED BY InitTypes, NextTypes, NextKeep, StartsFetch, <1>1, PTL
        DEF Spec, VotersNeedNoFetch

\* A quorum in which fewer than Quorum - 1 crashed has a voter that is neither the leader
\* nor crashed.
LEMMA QuorumHasKeeper ==
    ASSUME NEW voters \in SUBSET Validator, NEW lost \in SUBSET Validator,
           Cardinality(voters) >= Quorum, Cardinality(voters \intersect lost) < Quorum - 1
    PROVE  \E v \in voters : v # Leader /\ v \notin lost
<1> SUFFICES ASSUME voters \subseteq (voters \intersect lost) \union {Leader} PROVE FALSE
  OBVIOUS
<1> DEFINE gone == voters \intersect lost
<1>1. IsFiniteSet(gone) /\ IsFiniteSet(voters) /\ Quorum \in Int
  <2>1. IsFiniteSet(Validator) /\ Quorum \in Int
    BY CustodyAssumption, FS_CardinalityType
  <2> QED BY <2>1, FS_Subset
<1>2. Cardinality(gone) \in Nat /\ Cardinality(voters) \in Nat
  BY <1>1, FS_CardinalityType
<1>3. IsFiniteSet(gone \union {Leader}) /\ Cardinality(gone \union {Leader}) <= Cardinality(gone) + 1
  BY <1>1, <1>2, FS_AddElement
<1>4. Cardinality(voters) <= Cardinality(gone \union {Leader})
  BY <1>3, FS_Subset
<1>5. Cardinality(gone \union {Leader}) \in Nat
  BY <1>3, FS_CardinalityType
<1> HIDE DEF gone
<1>6. Cardinality(gone) < Quorum - 1
  BY DEF gone
<1> QED BY <1>1, <1>2, <1>3, <1>4, <1>5, <1>6

\* The block of a certificate is somewhere while fewer than Quorum - 1 of its voters have
\* ever crashed, although nothing was synced to a disk.
THEOREM CertifiedBlockIsHeld == Spec => []CertifiedBlockHeld
<1>1. Init => VotersKeep
  BY DEF Init, VotersKeep
<1>2. TypeOK /\ VotersKeep => CertifiedBlockHeld
  <2> SUFFICES ASSUME TypeOK, VotersKeep, Certificate,
                      Cardinality(vote \intersect crashed) < Quorum - 1
               PROVE  Holders # {}
    BY DEF CertifiedBlockHeld
  <2>1. PICK v \in vote : v # Leader /\ v \notin crashed
    BY QuorumHasKeeper DEF TypeOK, Certificate
  <2> QED BY <2>1 DEF VotersKeep, Holders
<1> QED BY InitTypes, NextTypes, NextKeep, <1>1, <1>2, PTL DEF Spec
=============================================================================
