----------------------------- MODULE RoundsProofs -----------------------------
(***************************************************************************)
(* What waiting for the parent's execution does to the chain, for every    *)
(* number of validators, every quorum, every bound and every pace of       *)
(* timers, votes and executions: at most one certified block is ever ahead *)
(* of the final ones, and a view that certifies its block after too many   *)
(* validators have timed out in it is the last that ever certifies one.    *)
(***************************************************************************)
EXTENDS Rounds, FiniteSetTheorems, TLAPS

\* No quorum is left to finalize the last certified block.
Stalled == tip > final /\ Cardinality(Validator \ abstains) < Quorum

-----------------------------------------------------------------------------
Types ==
    /\ leader \in Validator /\ proposed \in BOOLEAN
    /\ notarizes \in SUBSET Validator /\ finalizes \in SUBSET Validator
    /\ tip \in Nat /\ final \in Nat /\ executed \in [Validator -> Nat]

\* A block is proposed, and so voted for, only on a parent that is final.
Inv ==
    /\ Types
    /\ final <= tip /\ tip <= final + 1
    /\ \A v \in Validator : executed[v] <= final
    /\ proposed => final = tip
    /\ ~proposed => notarizes = {}
    /\ finalizes \intersect abstains = {}

LEMMA QuorumIsSomebody ==
    ASSUME Quorum \in Nat \ {0}, NEW S, Cardinality(S) >= Quorum
    PROVE  S # {}
BY FS_EmptySet

\* Who votes to finalize has not timed out: a stalled block stays short of votes.
LEMMA FewFinalize ==
    ASSUME IsFiniteSet(Validator), Quorum \in Nat, Inv, Stalled
    PROVE  ~(Cardinality(finalizes) >= Quorum)
<1>1. finalizes \subseteq Validator \ abstains
  BY DEF Inv, Types
<1>2. IsFiniteSet(Validator \ abstains)
  BY FS_Subset
<1>3. Cardinality(finalizes) <= Cardinality(Validator \ abstains)
  BY <1>1, <1>2, FS_Subset
<1>4. Cardinality(finalizes) \in Nat /\ Cardinality(Validator \ abstains) \in Nat
  BY <1>1, <1>2, FS_Subset, FS_CardinalityType
<1> QED BY <1>3, <1>4 DEF Stalled

LEMMA InitRounds == Init => Inv
<1> SUFFICES ASSUME Init PROVE Inv
  OBVIOUS
<1>1. executed \in [Validator -> Nat] /\ \A v \in Validator : executed[v] = 0
  BY DEF Init
<1>2. tip = 0 /\ final = 0 /\ proposed = FALSE /\ finalizes = {} /\ notarizes = {}
  BY DEF Init
<1>3. Types
  BY <1>1, <1>2 DEF Init, Types
<1> QED BY <1>1, <1>2, <1>3 DEF Inv

LEMMA NextRounds ==
    ASSUME Quorum \in Nat \ {0}, Inv, [Next]_vars
    PROVE  Inv'
<1> USE DEF Inv, Types, chain
<1>1. CASE Propose
  <2>1. final = tip
    BY <1>1 DEF Propose, CanPropose
  <2> QED BY <1>1, <2>1 DEF Propose
<1>2. CASE Certify
  <2>1. proposed /\ final = tip
    BY <1>2, QuorumIsSomebody DEF Certify
  <2>2. tip' = final' + 1 /\ final' = final /\ UNCHANGED executed
    BY <1>2, <2>1 DEF Certify
  <2>3. proposed' = FALSE /\ notarizes' = {} /\ finalizes' = {} /\ leader' \in Validator
    BY <1>2 DEF Certify, NextView
  <2>4. tip' \in Nat /\ final' \in Nat /\ executed' \in [Validator -> Nat]
    BY <2>2
  <2>5. proposed' \in BOOLEAN
    BY <2>3, Zenon
  <2>6. Types'
    BY <2>3, <2>4, <2>5
  <2> QED BY <2>2, <2>3, <2>6
<1>3. CASE Nullify
  BY <1>3 DEF Nullify, NextView
<1>4. CASE Finalization
  BY <1>4 DEF Finalization
<1>5. CASE \E v \in Validator : Execute(v)
  <2>1. PICK v \in Validator : Execute(v)
    BY <1>5
  <2>2. executed' = [executed EXCEPT ![v] = executed[v] + 1] /\ executed[v] < final
    BY <2>1 DEF Execute
  <2>3. \A w \in Validator : executed'[w] \in Nat /\ executed'[w] <= final
    BY <2>2
  <2>4. executed' \in [Validator -> Nat]
    BY <2>2, <2>3
  <2> QED BY <2>1, <2>3, <2>4 DEF Execute
<1>6. CASE \E v \in Validator : Notarize(v)
  BY <1>6 DEF Notarize
<1>7. CASE \E v \in Validator : Finalize(v)
  BY <1>7 DEF Finalize
<1>8. CASE \E v \in Validator : TimeOut(v) \/ TimeOutLate(v)
  BY <1>8 DEF TimeOut, TimeOutLate
<1>9. CASE UNCHANGED vars
  BY <1>9 DEF vars
<1> QED BY <1>1, <1>2, <1>3, <1>4, <1>5, <1>6, <1>7, <1>8, <1>9 DEF Next, Vote

LEMMA StallStays ==
    ASSUME IsFiniteSet(Validator), Quorum \in Nat \ {0}, Inv, [Next]_vars, Stalled
    PROVE  Stalled' /\ UNCHANGED <<tip, final>>
<1>1. UNCHANGED chain => Stalled' /\ UNCHANGED <<tip, final>>
  BY DEF chain, Stalled
<1>2. CASE Certify
  <2>1. proposed
    BY <1>2, QuorumIsSomebody DEF Certify, Inv
  <2> QED BY <2>1 DEF Inv, Types, Stalled
<1>3. CASE Finalization
  BY <1>3, FewFinalize DEF Finalization
<1>4. CASE \E v \in Validator : Finalize(v)
  BY <1>4 DEF Finalize, Stalled
<1>5. CASE Propose \/ Nullify \/ \E v \in Validator : Execute(v) \/ Notarize(v)
  BY <1>1, <1>5 DEF Propose, Nullify, Execute, Notarize
<1>6. CASE \E v \in Validator : TimeOut(v) \/ TimeOutLate(v)
  BY <1>1, <1>6 DEF TimeOut, TimeOutLate, chain
<1>7. CASE UNCHANGED vars
  BY <1>1, <1>7 DEF vars
<1> QED BY <1>2, <1>3, <1>4, <1>5, <1>6, <1>7 DEF Next, Vote

-----------------------------------------------------------------------------
(* As long as no timer expires on a leader that has proposed, whoever has   *)
(* timed out did so before the proposal, and does not vote for it, or when  *)
(* its block could no longer be certified.                                  *)
TimeOutsAreBefore ==
    proposed => \/ notarizes \intersect nullifies = {}
                \/ Cardinality(notarizes \union (Validator \ nullifies)) < Quorum

TimelyInv ==
    late = 0 => /\ TimeOutsAreBefore
                /\ tip > final => Cardinality(Validator \ abstains) >= Quorum

\* More time-outs leave fewer votes.
LEMMA HopelessStays ==
    ASSUME IsFiniteSet(Validator), Quorum \in Nat, NEW votes \in SUBSET Validator,
           NEW left \in SUBSET votes, Cardinality(votes) < Quorum
    PROVE  Cardinality(left) < Quorum
<1>1. IsFiniteSet(votes)
  BY FS_Subset
<1>2. Cardinality(left) \in Nat /\ Cardinality(votes) \in Nat
  BY <1>1, FS_Subset, FS_CardinalityType
<1>3. Cardinality(left) <= Cardinality(votes)
  BY <1>1, FS_Subset
<1> QED BY <1>2, <1>3

\* A block that is certified in time keeps a quorum that may still vote to finalize it.
LEMMA CertifiedInTime ==
    ASSUME IsFiniteSet(Validator), Quorum \in Nat \ {0}, Inv, TimelyInv, late = 0, Certify
    PROVE  Cardinality(Validator \ nullifies) >= Quorum
<1>1. proposed /\ Cardinality(notarizes) >= Quorum
  BY QuorumIsSomebody DEF Certify, Inv
<1> DEFINE votes == notarizes \union (Validator \ nullifies)
<1>2. votes \in SUBSET Validator /\ notarizes \in SUBSET votes
  BY DEF Inv, Types
<1>3. IsFiniteSet(votes) /\ Cardinality(notarizes) \in Nat /\ Cardinality(votes) \in Nat
  BY <1>2, FS_Subset, FS_CardinalityType
<1>4. Cardinality(votes) >= Quorum
  BY <1>1, <1>2, <1>3, FS_Subset
<1>5. notarizes \intersect nullifies = {}
  BY <1>1, <1>3, <1>4 DEF TimelyInv, TimeOutsAreBefore
<1>6. votes = Validator \ nullifies
  BY <1>5 DEF Inv, Types
<1> QED BY <1>4, <1>6

LEMMA NextTimely ==
    ASSUME IsFiniteSet(Validator), Quorum \in Nat \ {0},
           late \in Nat, Inv, TimelyInv, [Next]_vars
    PROVE  TimelyInv'
<1> USE DEF TimelyInv, TimeOutsAreBefore, chain
<1>1. CASE Propose
  BY <1>1 DEF Propose, Inv
<1>2. CASE Certify
  BY <1>2, CertifiedInTime DEF Certify, NextView
<1>3. CASE Nullify
  BY <1>3 DEF Nullify, NextView
<1>4. CASE Finalization
  BY <1>4 DEF Finalization, Inv, Types
<1>5. CASE \E v \in Validator : Notarize(v)
  <2>1. PICK v \in Validator : Notarize(v)
    BY <1>5
  <2>2. notarizes' \union (Validator \ nullifies') = notarizes \union (Validator \ nullifies)
    BY <2>1 DEF Notarize
  <2>3. notarizes \intersect nullifies = {} => notarizes' \intersect nullifies' = {}
    BY <2>1 DEF Notarize
  <2> QED BY <2>1, <2>2, <2>3 DEF Notarize
<1>6. CASE \E v \in Validator : TimeOut(v)
  <2>1. PICK v \in Validator : TimeOut(v)
    BY <1>6
  <2>2. ASSUME proposed
        PROVE  Cardinality(notarizes' \union (Validator \ nullifies')) < Quorum
    <3>1. Cardinality(notarizes \union (Validator \ nullifies)) < Quorum
      BY <2>1, <2>2 DEF TimeOut, Hopeless
    <3>2. /\ notarizes \union (Validator \ nullifies) \in SUBSET Validator
          /\ notarizes' \union (Validator \ nullifies')
               \in SUBSET (notarizes \union (Validator \ nullifies))
      BY <2>1 DEF TimeOut, Inv, Types
    <3> QED BY <3>1, <3>2, HopelessStays
  <2> QED BY <2>1, <2>2 DEF TimeOut
<1>7. CASE \E v \in Validator : TimeOutLate(v)
  BY <1>7 DEF TimeOutLate
<1>8. CASE \E v \in Validator : Execute(v) \/ Finalize(v)
  BY <1>8 DEF Execute, Finalize
<1>9. CASE UNCHANGED vars
  BY <1>9 DEF vars
<1> QED BY <1>1, <1>2, <1>3, <1>4, <1>5, <1>6, <1>7, <1>8, <1>9 DEF Next, Vote

LEMMA LateCounts == late \in Nat /\ [Next]_vars => late' \in Nat
BY DEF Next, Vote, vars, chain, Propose, Certify, Nullify, Finalization, Execute, Notarize,
       TimeOut, TimeOutLate, Finalize

-----------------------------------------------------------------------------
\* The chain is certified one block at a time: no block is certified before its parent is
\* final, since handle_proposal waits for the parent's execution.
THEOREM OneBlockAhead ==
    ASSUME Quorum \in Nat \ {0}
    PROVE  Spec => [](tip <= final + 1)
<1>1. Inv /\ [Next]_vars => Inv'
  BY NextRounds
<1>2. Inv => tip <= final + 1
  BY DEF Inv
<1> QED BY <1>1, <1>2, InitRounds, PTL DEF Spec

\* A block that too many validators have timed out on, in the view that certified it, is
\* the last one: it never becomes final, and no other is ever certified.
THEOREM StallIsForEver ==
    ASSUME IsFiniteSet(Validator), Quorum \in Nat \ {0}, NEW CONSTANT height
    PROVE  Spec => [](Stalled /\ tip = height
                          => [](tip = height /\ final < height))
<1> DEFINE At == Stalled /\ tip = height
<1>1. Inv /\ [Next]_vars => Inv'
  BY NextRounds
<1>2. Inv /\ At /\ [Next]_vars => At'
  BY StallStays
<1>3. Inv /\ At => tip = height /\ final < height
  BY DEF Inv, Types, Stalled
<1> HIDE DEF At
<1>4. Spec => [](At => [](tip = height /\ final < height))
  BY <1>1, <1>2, <1>3, InitRounds, PTL DEF Spec
<1> QED BY <1>4 DEF At

\* Only a timer that expires on a leader that has proposed stalls the chain: while none
\* does, every certified block keeps a quorum that may vote to finalize it, although
\* validators time out on leaders that wait for the execution of the parent.
THEOREM StallNeedsLateTimer ==
    ASSUME IsFiniteSet(Validator), Quorum \in Nat \ {0}
    PROVE  Spec => [](late = 0 => ~Stalled)
<1> DEFINE Timely == late \in Nat /\ TimelyInv
<1>1. Init => Timely
  BY DEF Init, TimelyInv, TimeOutsAreBefore
<1>2. Inv /\ Timely /\ [Next]_vars => Inv' /\ Timely'
  BY NextRounds, NextTimely, LateCounts
<1>3. Inv /\ Timely => (late = 0 => ~Stalled)
  <2> SUFFICES ASSUME Timely, late = 0, Stalled PROVE FALSE
    OBVIOUS
  <2>1. Cardinality(Validator \ abstains) \in Nat
    BY FS_Subset, FS_CardinalityType
  <2> QED BY <2>1 DEF TimelyInv, Stalled
<1> HIDE DEF Timely
<1> QED BY <1>1, <1>2, <1>3, InitRounds, PTL DEF Spec
=============================================================================
