-------------------------------- MODULE Rounds --------------------------------
(***************************************************************************)
(* Summit's validators around one another: the leader of a view proposes   *)
(* only after its own finalizer has executed the parent (handle_proposal), *)
(* and the parent becomes final by the votes of threshold-simplex, which   *)
(* is external and modelled by its voting rules: who has timed out in a    *)
(* view does not vote to finalize its block, and a quorum of votes of a    *)
(* kind certifies, finalizes or nullifies.                                 *)
(*                                                                         *)
(* A block is its height.  Views carry no number: only the current one and *)
(* the votes on the last certified block matter.  Everybody knows what is  *)
(* certified, as certificates are broadcast.                               *)
(***************************************************************************)
EXTENDS Naturals, FiniteSets

CONSTANTS Validator, Quorum,
          Target,     \* bound: height the chain is followed to
          MaxLate     \* bound: timers that expire on a leader that has proposed

VARIABLES
    leader, proposed, notarizes, nullifies,   \* the current view
    tip, finalizes, abstains,                 \* last certified block, and its view's end
    final, executed, late

chain == <<tip, finalizes, abstains, final>>
vars == <<leader, proposed, notarizes, nullifies, chain, executed, late>>

Init ==
    /\ leader \in Validator /\ proposed = FALSE /\ notarizes = {} /\ nullifies = {}
    /\ tip = 0 /\ finalizes = {} /\ abstains = {} /\ final = 0
    /\ executed = [v \in Validator |-> 0] /\ late = 0

\* A view's end: the leader of the next is whoever its seed says.
NextView ==
    /\ leader' \in Validator
    /\ proposed' = FALSE /\ notarizes' = {} /\ nullifies' = {}

\* handle_proposal waits for the notifier to let the parent's height go.
CanPropose == ~proposed /\ executed[leader] >= tip

Propose ==
    /\ CanPropose /\ final < Target
    /\ proposed' = TRUE
    /\ UNCHANGED <<leader, notarizes, nullifies, chain, executed, late>>

\* The finalizer of a validator executes the next final block.
Execute(v) ==
    /\ executed[v] < final
    /\ executed' = [executed EXCEPT ![v] = @ + 1]
    /\ UNCHANGED <<leader, proposed, notarizes, nullifies, chain, late>>

-----------------------------------------------------------------------------
(* threshold-simplex (external).                                           *)

Notarize(v) ==
    /\ proposed /\ v \notin notarizes \union nullifies
    /\ notarizes' = notarizes \union {v}
    /\ UNCHANGED <<leader, proposed, nullifies, chain, executed, late>>

\* Timers expire on a leader that does not propose, or when no quorum is left for its
\* block.
Hopeless == IF proposed THEN Cardinality(notarizes \union (Validator \ nullifies)) < Quorum
            ELSE ~CanPropose

TimeOut(v) ==
    /\ Hopeless /\ v \notin nullifies
    /\ nullifies' = nullifies \union {v}
    /\ UNCHANGED <<leader, proposed, notarizes, chain, executed, late>>

\* The leader or the votes on its block are slow: a timer expires all the same.
TimeOutLate(v) ==
    /\ late < MaxLate /\ v \notin nullifies
    /\ late' = late + 1
    /\ nullifies' = nullifies \union {v}
    /\ UNCHANGED <<leader, proposed, notarizes, chain, executed>>

Certify ==
    /\ Cardinality(notarizes) >= Quorum
    /\ tip' = tip + 1 /\ finalizes' = {} /\ abstains' = nullifies
    /\ NextView
    /\ UNCHANGED <<final, executed, late>>

Nullify ==
    /\ Cardinality(nullifies) >= Quorum /\ Cardinality(notarizes) < Quorum
    /\ NextView
    /\ UNCHANGED <<chain, executed, late>>

Finalize(v) ==
    /\ tip > final /\ v \notin finalizes \union abstains
    /\ finalizes' = finalizes \union {v}
    /\ UNCHANGED <<leader, proposed, notarizes, nullifies, tip, abstains, final, executed,
                   late>>

Finalization ==
    /\ tip > final /\ Cardinality(finalizes) >= Quorum
    /\ final' = tip
    /\ UNCHANGED <<leader, proposed, notarizes, nullifies, tip, finalizes, abstains,
                   executed, late>>

-----------------------------------------------------------------------------
Vote(v) == Notarize(v) \/ TimeOut(v) \/ Finalize(v)
Next ==
    \/ Propose \/ Certify \/ Nullify \/ Finalization
    \/ \E v \in Validator : Execute(v) \/ Vote(v) \/ TimeOutLate(v)

Spec == Init /\ [][Next]_vars

\* The network is timely: whoever can act does, every kind of vote, certificate and
\* execution included; only late timers may never expire.
Fairness ==
    /\ WF_vars(Propose) /\ WF_vars(Certify) /\ WF_vars(Nullify) /\ WF_vars(Finalization)
    /\ \A v \in Validator : WF_vars(Notarize(v)) /\ WF_vars(TimeOut(v))
                            /\ WF_vars(Finalize(v)) /\ WF_vars(Execute(v))

LiveSpec == Spec /\ Fairness

\* Consensus "adapts to network conditions rather than waiting for predetermined
\* timeouts" (README.md): once timers stop expiring on leaders that propose, the chain
\* grows.
ChainGrows == <>(final >= Target)
=============================================================================
