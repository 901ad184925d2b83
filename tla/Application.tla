------------------------------ MODULE Application ------------------------------
(***************************************************************************)
(* The application actor (application/src/actor.rs): it serves consensus'  *)
(* requests to propose, verify and broadcast blocks, one at a time except  *)
(* for verifications, which wait for their blocks in tasks of their own.   *)
(*                                                                         *)
(* Consensus is external: view is the view it is in, and a request whose   *)
(* view it has left has a closed response channel.  The syncer and the     *)
(* finalizer are abstract: blocks become available, and final blocks are   *)
(* executed in order.  A crash is left to modules Finalizer and Node.      *)
(***************************************************************************)
EXTENDS Chain, Sequences

CONSTANT Offered   \* blocks of peers, good and bad, that consensus asks to verify

VARIABLES
    view,        \* consensus' view
    asked,       \* views consensus has requested a proposal or a verdict for
    reply,       \* block whose digest waits in the channel of the open Propose
    mailbox,     \* messages from consensus
    proposal,    \* the proposal being handled, if any
    built,       \* built_block
    tasks,       \* the spawned verifications
    available,   \* blocks the syncer can return
    executed,    \* height the finalizer's forkchoice is at
    broadcasts,  \* [payload, block]: asked to broadcast, given to the syncer
    verdicts     \* [block, parent, ok] answered to consensus

consensus == <<view, asked>>
network == <<available, executed>>
vars == <<consensus, reply, mailbox, proposal, built, tasks, network, broadcasts, verdicts>>

Parents == Certified \union {Genesis}

\* A block as a proposer fills it in: parent and height are its own fields, eth_parent
\* the block its payload builds on, and later says that its timestamp is after the
\* parent's.
Blocks == [view : Views, parent : Parents, height : 1..(TopHeight + 1),
           eth_parent : Parents, later : BOOLEAN]

ASSUME ApplicationAssumption == Offered \subseteq Blocks

\* Consensus' safety once more: a block certified after a final one descends from it.
ASSUME DescentAssumption ==
    \A c \in Certified, h \in Heights : viewOf[c] > viewOf[Final[h]] => heightOf[c] > h

Messages == [type : {"Propose"}, view : Views, parent : Parents]
              \union [type : {"Verify"}, view : Views, parent : Parents, payload : Blocks]
              \union [type : {"Broadcast"}, payload : Blocks]

Forkchoice == IF executed = 0 THEN Genesis ELSE Final[executed]

handle_verify(block, parent) ==
    /\ block.eth_parent = parent
    /\ block.parent = parent
    /\ block.height = HeightOf(parent) + 1
    /\ block.later

Init ==
    /\ view = 1 /\ asked = {} /\ reply = None
    /\ mailbox = <<>> /\ proposal = None /\ built = None /\ tasks = {}
    /\ available = {} /\ executed = 0
    /\ broadcasts = {} /\ verdicts = {}

-----------------------------------------------------------------------------
(* Consensus (external).                                                   *)

\* It builds on the last certified block, which no final block it has passed follows.
ParentChoice(p) ==
    /\ p = Genesis \/ (p \in Certified /\ viewOf[p] < view)
    /\ \A f \in FinalBlocks : viewOf[f] < view => p # Genesis /\ viewOf[f] <= viewOf[p]
    /\ \A c \in Certified : viewOf[c] = view => parentOf[c] = p

Request(m) ==
    /\ view \in Views \ asked
    /\ asked' = asked \union {view}
    /\ mailbox' = Append(mailbox, m)
    /\ UNCHANGED <<view, reply, proposal, built, tasks, network, broadcasts, verdicts>>

RequestProposal(p) ==
    ParentChoice(p) /\ Request([type |-> "Propose", view |-> view, parent |-> p])

RequestVerdict(p, b) ==
    /\ ParentChoice(p) /\ b.view = view
    /\ Request([type |-> "Verify", view |-> view, parent |-> p, payload |-> b])

\* The digest it asked for arrived, and it has it broadcast.
TakeDigest ==
    /\ reply # None
    /\ reply' = None
    /\ mailbox' = Append(mailbox, [type |-> "Broadcast", payload |-> reply])
    /\ UNCHANGED <<consensus, proposal, built, tasks, network, broadcasts, verdicts>>

\* A timeout, a notarization or a finalization moves it on; it drops its receivers.
EnterView ==
    /\ view <= MaxView
    /\ view' = view + 1 /\ reply' = None
    /\ UNCHANGED <<asked, mailbox, proposal, built, tasks, network, broadcasts, verdicts>>

-----------------------------------------------------------------------------
(* The syncer and the finalizer, abstractly.                               *)

Arrive(b) ==
    /\ available' = available \union {b}
    /\ UNCHANGED <<consensus, reply, mailbox, proposal, built, tasks, executed, broadcasts,
                   verdicts>>

\* A block is executed after consensus saw it final, and so left its view.
Execute ==
    /\ executed < TopHeight /\ viewOf[Final[executed + 1]] < view
    /\ executed' = executed + 1
    /\ UNCHANGED <<consensus, reply, mailbox, proposal, built, tasks, available, broadcasts,
                   verdicts>>

-----------------------------------------------------------------------------
(* The actor.  It takes no message while it handles a proposal.            *)

Handle(type) ==
    /\ proposal = None
    /\ mailbox # <<>> /\ Head(mailbox).type = type
    /\ mailbox' = Tail(mailbox)
    /\ UNCHANGED <<consensus, reply, built, network, verdicts>>

HandlePropose ==
    /\ Handle("Propose")
    /\ LET m == Head(mailbox)
       IN  proposal' = [view |-> m.view, parent |-> m.parent, stage |-> "parent",
                        eth_parent |-> None]
    /\ UNCHANGED <<tasks, broadcasts>>

HandleBroadcast ==
    /\ Handle("Broadcast")
    /\ broadcasts' = broadcasts \union {[payload |-> Head(mailbox).payload, block |-> built]}
    /\ UNCHANGED <<proposal, tasks>>

HandleVerify ==
    /\ Handle("Verify")
    /\ LET m == Head(mailbox)
       IN  tasks' = tasks \union {[view |-> m.view, parent |-> m.parent, payload |-> m.payload]}
    /\ UNCHANGED <<proposal, broadcasts>>

Has(b) == b = Genesis \/ b \in available

Proposing(stage) ==
    /\ proposal # None /\ proposal.stage = stage
    /\ UNCHANGED <<consensus, mailbox, tasks, network, broadcasts, verdicts>>

\* The syncer returned the parent; its height goes to the finalizer's notifier.
FindParent ==
    /\ Proposing("parent")
    /\ Has(proposal.parent)
    /\ proposal' = [proposal EXCEPT !.stage = "executed"]
    /\ UNCHANGED <<reply, built>>

\* Bugs of StartBuilding: the forkchoice is not read; or the execution of the parent is
\* not awaited.
StartBuildingBlind ==
    /\ Proposing("executed")
    /\ executed >= HeightOf(proposal.parent)
    /\ proposal' = [proposal EXCEPT !.stage = "build"]
    /\ UNCHANGED <<reply, built>>
StartBuildingAtOnce ==
    /\ Proposing("executed")
    /\ proposal' = [proposal EXCEPT !.stage = "build", !.eth_parent = Forkchoice]
    /\ UNCHANGED <<reply, built>>

\* The notifier let the proposal go; the forkchoice is read and a payload started on it.
\* The call that starts it, engine_forkchoiceUpdated, is also sent the forkchoice as the
\* client's head (engine_client.rs:84-88).  The client's head is not a variable here: what
\* becomes of it is in StartBuilding and UpdateHead of module Finalizer.
StartBuilding ==
    /\ Proposing("executed")
    /\ executed >= HeightOf(proposal.parent)
    /\ proposal' = [proposal EXCEPT !.stage = "build", !.eth_parent = Forkchoice]
    /\ UNCHANGED <<reply, built>>

compute_digest ==
    [view |-> proposal.view, parent |-> proposal.parent,
     height |-> HeightOf(proposal.parent) + 1, eth_parent |-> proposal.eth_parent,
     later |-> TRUE]

\* Bug of FinishBuilding: a built block is not replaced.
FinishBuildingKeepsFirst ==
    /\ Proposing("build")
    /\ built' = IF built = None THEN compute_digest ELSE built
    /\ reply' = IF proposal.view = view THEN compute_digest ELSE reply
    /\ proposal' = None

\* The block is kept for the broadcast; its digest goes to consensus, if it still listens.
FinishBuilding ==
    /\ Proposing("build")
    /\ built' = compute_digest
    /\ reply' = IF proposal.view = view THEN compute_digest ELSE reply
    /\ proposal' = None

\* The execution client starts no payload ("Unable to build payload").
FailBuilding ==
    /\ Proposing("build")
    /\ proposal' = None
    /\ UNCHANGED <<reply, built>>

\* Bug of AbortProposal: only the wait for the parent is selected against the channel.
AbortProposalEarly ==
    /\ Proposing("parent")
    /\ proposal.view # view
    /\ proposal' = None
    /\ UNCHANGED <<reply, built>>

\* Consensus dropped the response channel, whatever the proposal waits for.
AbortProposal ==
    /\ \E stage \in {"parent", "executed", "build"} : Proposing(stage)
    /\ proposal.view # view
    /\ proposal' = None
    /\ UNCHANGED <<reply, built>>

EndTask(t) ==
    /\ tasks' = tasks \ {t}
    /\ UNCHANGED <<consensus, reply, mailbox, proposal, built, network, broadcasts>>

\* Both blocks arrived: the block is stored as verified or refused, and the verdict
\* sent, if consensus still listens.
FinishVerify(t) ==
    /\ Has(t.parent) /\ Has(t.payload)
    /\ EndTask(t)
    /\ verdicts' = IF t.view # view THEN verdicts
                   ELSE verdicts \union {[block |-> t.payload, parent |-> t.parent,
                                          ok |-> handle_verify(t.payload, t.parent)]}

AbortVerify(t) == t.view # view /\ EndTask(t) /\ UNCHANGED verdicts

-----------------------------------------------------------------------------
Consensus == TakeDigest \/ EnterView
               \/ \E p \in Parents : RequestProposal(p) \/ \E b \in Offered : RequestVerdict(p, b)
Mailbox == HandlePropose \/ HandleBroadcast \/ HandleVerify
Propose == FindParent \/ StartBuilding \/ FinishBuilding \/ FailBuilding \/ AbortProposal
Verify == \E t \in tasks : FinishVerify(t) \/ AbortVerify(t)
Environment == Execute \/ \E b \in Certified \union Offered : Arrive(b)

Next == Consensus \/ Mailbox \/ Propose \/ Verify \/ Environment

Spec == Init /\ [][Next]_vars

\* The actor is scheduled, and consensus leaves each view in the end, by a timeout if
\* nothing else.  Nothing is assumed of the blocks: a parent may never be executed.
LiveSpec ==
    Spec /\ WF_vars(Mailbox) /\ WF_vars(Propose) /\ WF_vars(Verify) /\ WF_vars(EnterView)

-----------------------------------------------------------------------------
(* Properties.                                                             *)

\* Every variable has the type its declaration gives it.
TypeOK ==
    /\ view \in 1..(MaxView + 1) /\ asked \subseteq Views
    /\ reply \in Blocks \union {None}
    /\ mailbox \in Seq(Messages)
    /\ proposal \in [view : Views, parent : Parents, stage : {"parent", "executed", "build"},
                     eth_parent : Parents \union {None}] \union {None}
    /\ built \in Blocks \union {None}
    /\ tasks \subseteq [view : Views, parent : Parents, payload : Blocks]
    /\ executed \in 0..TopHeight
    /\ broadcasts \subseteq [payload : Blocks, block : Blocks \union {None}]
    /\ verdicts \subseteq [block : Blocks, parent : Parents, ok : BOOLEAN]

\* "This should be a hard assert" (actor.rs:164): the one slot built_block holds the
\* block consensus wants broadcast, although a later proposal may have been built,
\* aborted or failed by the time the request is served.
BroadcastIsBuilt == \A m \in broadcasts : m.block = m.payload

\* What a leader broadcasts passes the check of every other node: its payload was
\* built on its parent, although the forkchoice is read after the parent was chosen
\* and the finalizer may have moved it on.
ProposalsVerify == \A m \in broadcasts : handle_verify(m.payload, m.payload.parent)

\* A proposal whose parent is never executed does not keep the actor from the other
\* requests for longer than consensus stays in its view.
RequestsTaken == mailbox # <<>> ~> mailbox = <<>>
=============================================================================
