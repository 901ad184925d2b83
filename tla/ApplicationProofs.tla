--------------------------- MODULE ApplicationProofs ---------------------------
(***************************************************************************)
(* That the one slot built_block holds what is broadcast, and that what a  *)
(* leader broadcasts is accepted, for every chain, every choice of         *)
(* consensus and every order of the actor's and the finalizer's steps.     *)
(***************************************************************************)
EXTENDS Application, SequenceTheorems, TLAPS

IsRequest(m) == m.type # "Broadcast"

\* Consensus asks once per view and the mailbox keeps the order: behind a proposal that
\* is being handled wait only requests of later views.
RequestInv ==
    /\ \A v \in asked : v <= view
    /\ \A i \in DOMAIN mailbox : IsRequest(mailbox[i]) =>
           mailbox[i].view \in asked /\ (proposal # None => proposal.view < mailbox[i].view)
    /\ \A i, j \in DOMAIN mailbox :
           i < j /\ IsRequest(mailbox[i]) /\ IsRequest(mailbox[j])
               => mailbox[i].view < mailbox[j].view
    /\ proposal # None => proposal.view \in asked

\* A digest that consensus has, or that waits for it, is that of the slot, and nothing
\* that would fill the slot again comes before its broadcast.
BuiltInv ==
    /\ \A i \in DOMAIN mailbox : mailbox[i].type = "Broadcast" =>
           /\ mailbox[i].payload = built /\ proposal = None
           /\ \A j \in DOMAIN mailbox : j < i => mailbox[j].type # "Propose"
    /\ reply # None =>
           /\ reply = built /\ proposal = None /\ view \in asked
           /\ \A i \in DOMAIN mailbox : mailbox[i].type # "Propose"

\* While consensus stays in the view it asked in, no final block beyond the parent can
\* be executed.
Suits(p) ==
    /\ p = Genesis \/ p \in Certified
    /\ \A f \in FinalBlocks : viewOf[f] < view => p # Genesis /\ viewOf[f] <= viewOf[p]
ParentInv ==
    /\ executed > 0 => viewOf[Final[executed]] < view
    /\ \A i \in DOMAIN mailbox :
           mailbox[i].type = "Propose" /\ mailbox[i].view = view => Suits(mailbox[i].parent)
    /\ proposal # None /\ proposal.view = view =>
           /\ Suits(proposal.parent)
           /\ proposal.stage = "build" => proposal.eth_parent = proposal.parent

Passes(b) == handle_verify(b, b.parent)
PassesInv ==
    /\ reply # None => Passes(reply)
    /\ \A i \in DOMAIN mailbox : mailbox[i].type = "Broadcast" => Passes(mailbox[i].payload)
    /\ BroadcastIsBuilt /\ ProposalsVerify

ProposalInv == TypeOK /\ RequestInv /\ BuiltInv /\ ParentInv /\ PassesInv

-----------------------------------------------------------------------------
(* The mailbox, and types.                                                 *)

LEMMA MailAppended ==
    ASSUME NEW box \in Seq(Messages), NEW m
    PROVE  /\ m \in Messages => Append(box, m) \in Seq(Messages)
           /\ \A i \in DOMAIN Append(box, m) :
                  \/ /\ i \in DOMAIN box /\ Append(box, m)[i] = box[i]
                     /\ i \in Nat /\ i < Len(box) + 1
                  \/ i = Len(box) + 1 /\ Append(box, m)[i] = m
           /\ Len(box) \in Nat /\ \A i \in DOMAIN box : i < Len(box) + 1
<1>1. Len(box) \in Nat /\ DOMAIN box = 1..Len(box)
  OBVIOUS
<1>2. DOMAIN Append(box, m) = 1..(Len(box) + 1)
  BY <1>1
<1> QED BY <1>1, <1>2

LEMMA MailTaken ==
    ASSUME NEW box \in Seq(Messages), box # <<>>
    PROVE  /\ Tail(box) \in Seq(Messages)
           /\ 1 \in DOMAIN box /\ Head(box) = box[1] /\ Head(box) \in Messages
           /\ \A i \in DOMAIN Tail(box) :
                  i \in Nat /\ i + 1 \in DOMAIN box /\ Tail(box)[i] = box[i + 1] /\ 1 < i + 1
<1>1. Len(box) \in Nat /\ DOMAIN box = 1..Len(box) /\ Len(box) >= 1
  BY EmptySeq
<1>2. Tail(box) \in Seq(Messages) /\ Len(Tail(box)) = Len(box) - 1
  BY <1>1
<1>3. DOMAIN Tail(box) = 1..(Len(box) - 1)
  BY <1>1, <1>2
<1> QED BY <1>1, <1>2, <1>3

LEMMA MessageParts ==
    ASSUME NEW m \in Messages
    PROVE  /\ m.type \in {"Propose", "Verify", "Broadcast"}
           /\ m.type # "Broadcast" => m.view \in Views /\ m.parent \in Parents
           /\ m.type # "Propose" => m.payload \in Blocks
BY DEF Messages

LEMMA InParents ==
    ASSUME NEW p \in Parents
    PROVE  HeightOf(p) \in 0..TopHeight /\ (p # Genesis => p \in Certified /\ viewOf[p] \in Views)
<1>1. p # Genesis => p \in Certified /\ p \in Block
  BY ChainAssumption DEF Parents
<1>2. p # Genesis => heightOf[p] \in Heights /\ viewOf[p] \in Views
  BY <1>1, ChainAssumption
<1>3. TopHeight \in Nat
  BY ChainAssumption
<1> QED BY <1>1, <1>2, <1>3 DEF HeightOf, Heights

LEMMA ForkchoiceIsParent == ASSUME executed \in 0..TopHeight PROVE Forkchoice \in Parents
<1>1. executed # 0 => executed \in Heights
  BY ChainAssumption DEF Heights
<1>2. executed # 0 => Final[executed] \in Certified
  BY <1>1, ChainAssumption
<1> QED BY <1>2 DEF Forkchoice, Parents

LEMMA DigestIsBlock ==
    ASSUME TypeOK, Proposing("build"), proposal.eth_parent # None
    PROVE  compute_digest \in Blocks
<1>1. proposal.view \in Views /\ proposal.parent \in Parents /\ proposal.eth_parent \in Parents
  BY DEF TypeOK, Proposing
<1>2. HeightOf(proposal.parent) + 1 \in 1..(TopHeight + 1)
  BY <1>1, InParents, ChainAssumption
<1> QED BY <1>1, <1>2 DEF compute_digest, Blocks

\* A payload is only awaited where its parent was set.
Stages == proposal # None /\ proposal.stage = "build" => proposal.eth_parent # None

LEMMA InitType == Init => TypeOK /\ Stages
<1>1. 1 \in 1..(MaxView + 1) /\ 0 \in 0..TopHeight
  BY ChainAssumption
<1>2. <<>> \in Seq(Messages)
  OBVIOUS
<1> QED BY <1>1, <1>2 DEF Init, TypeOK, Stages

LEMMA NextType == ASSUME TypeOK, Stages, [Next]_vars PROVE TypeOK' /\ Stages'
<1> USE DEF consensus, network
<1>1. CASE Consensus
  <2>1. ASSUME NEW m \in Messages, Request(m) PROVE TypeOK' /\ Stages'
    <3>1. mailbox' \in Seq(Messages) /\ asked' \subseteq Views
      BY <2>1, MailAppended DEF Request, TypeOK
    <3> QED BY <2>1, <3>1 DEF Request, TypeOK, Stages
  <2>2. CASE TakeDigest
    <3>1. [type |-> "Broadcast", payload |-> reply] \in Messages
      BY <2>2 DEF TakeDigest, TypeOK, Messages
    <3>2. mailbox' \in Seq(Messages)
      BY <2>2, <3>1, MailAppended DEF TakeDigest, TypeOK
    <3> QED BY <2>2, <3>2 DEF TakeDigest, TypeOK, Stages
  <2>3. CASE EnterView
    <3>1. view' \in 1..(MaxView + 1)
      BY <2>3, ChainAssumption DEF EnterView, TypeOK
    <3> QED BY <2>3, <3>1 DEF EnterView, TypeOK, Stages
  <2>4. ASSUME NEW p \in Parents, RequestProposal(p) PROVE TypeOK' /\ Stages'
    <3>1. [type |-> "Propose", view |-> view, parent |-> p] \in Messages
      BY <2>4 DEF RequestProposal, Request, Messages
    <3> QED BY <2>1, <2>4, <3>1 DEF RequestProposal
  <2>5. ASSUME NEW p \in Parents, NEW b \in Offered, RequestVerdict(p, b) PROVE TypeOK' /\ Stages'
    <3>1. [type |-> "Verify", view |-> view, parent |-> p, payload |-> b] \in Messages
      BY <2>5, ApplicationAssumption DEF RequestVerdict, Request, Messages
    <3> QED BY <2>1, <2>5, <3>1 DEF RequestVerdict
  <2> QED BY <1>1, <2>2, <2>3, <2>4, <2>5 DEF Consensus
<1>2. CASE Mailbox
  <2>1. /\ mailbox \in Seq(Messages) /\ mailbox # <<>> /\ Head(mailbox) \in Messages
        /\ mailbox' = Tail(mailbox) /\ mailbox' \in Seq(Messages)
        /\ UNCHANGED <<view, asked, reply, built, available, executed, verdicts>>
    BY <1>2, MailTaken DEF Mailbox, HandlePropose, HandleBroadcast, HandleVerify, Handle, TypeOK
  <2>2. CASE HandlePropose
    <3>1. /\ proposal' = [view |-> Head(mailbox).view, parent |-> Head(mailbox).parent,
                          stage |-> "parent", eth_parent |-> None]
          /\ UNCHANGED <<tasks, broadcasts>>
          /\ Head(mailbox).view \in Views /\ Head(mailbox).parent \in Parents
      BY <2>1, <2>2, MessageParts DEF HandlePropose, Handle
    <3> QED BY <2>1, <3>1 DEF TypeOK, Stages
  <2>3. CASE HandleBroadcast
    <3>1. /\ broadcasts' = broadcasts \union {[payload |-> Head(mailbox).payload, block |-> built]}
          /\ UNCHANGED <<proposal, tasks>> /\ Head(mailbox).payload \in Blocks
      BY <2>1, <2>3, MessageParts DEF HandleBroadcast, Handle
    <3> QED BY <2>1, <3>1 DEF TypeOK, Stages
  <2>4. CASE HandleVerify
    <3>1. /\ tasks' = tasks \union {[view |-> Head(mailbox).view, parent |-> Head(mailbox).parent,
                                     payload |-> Head(mailbox).payload]}
          /\ UNCHANGED <<proposal, broadcasts>>
          /\ Head(mailbox).view \in Views /\ Head(mailbox).parent \in Parents
          /\ Head(mailbox).payload \in Blocks
      BY <2>1, <2>4, MessageParts DEF HandleVerify, Handle
    <3> QED BY <2>1, <3>1 DEF TypeOK, Stages
  <2> QED BY <1>2, <2>2, <2>3, <2>4 DEF Mailbox
<1>3. CASE Propose
  <2>1. /\ UNCHANGED <<view, asked, mailbox, tasks, available, executed, broadcasts, verdicts>>
        /\ proposal # None
    BY <1>3 DEF Propose, FindParent, StartBuilding, FinishBuilding, FailBuilding, AbortProposal,
       Proposing
  <2>2. CASE FindParent
    BY <2>1, <2>2 DEF FindParent, TypeOK, Stages
  <2>3. CASE StartBuilding
    <3>1. Forkchoice \in Parents /\ Forkchoice # None
      BY ForkchoiceIsParent, ChainAssumption DEF TypeOK, Parents
    <3>2. proposal' = [proposal EXCEPT !.stage = "build", !.eth_parent = Forkchoice]
          /\ UNCHANGED <<reply, built>>
      BY <2>3 DEF StartBuilding
    <3> QED BY <2>1, <3>1, <3>2 DEF TypeOK, Stages
  <2>4. CASE FinishBuilding
    <3>1. compute_digest \in Blocks
      BY <2>4, DigestIsBlock DEF FinishBuilding, Proposing, Stages
    <3>2. built' = compute_digest /\ reply' \in {compute_digest, reply} /\ proposal' = None
      BY <2>4 DEF FinishBuilding
    <3> QED BY <2>1, <3>1, <3>2 DEF TypeOK, Stages
  <2>5. CASE FailBuilding \/ AbortProposal
    BY <2>1, <2>5 DEF FailBuilding, AbortProposal, TypeOK, Stages
  <2> QED BY <1>3, <2>2, <2>3, <2>4, <2>5 DEF Propose
<1>4. CASE Verify
  <2> PICK t \in tasks : FinishVerify(t) \/ AbortVerify(t)
    BY <1>4 DEF Verify
  <2>1. /\ UNCHANGED <<view, asked, reply, mailbox, proposal, built, available, executed, broadcasts>>
        /\ tasks' = tasks \ {t}
    BY DEF FinishVerify, AbortVerify, EndTask
  <2>2. t.payload \in Blocks /\ t.parent \in Parents /\ t.payload.later \in BOOLEAN
    BY DEF TypeOK, Blocks
  <2>3. handle_verify(t.payload, t.parent) \in BOOLEAN
    BY <2>2, Zenon DEF handle_verify
  <2>4. verdicts' \in {verdicts, verdicts \union {[block |-> t.payload, parent |-> t.parent,
                                          ok |-> handle_verify(t.payload, t.parent)]}}
    BY DEF FinishVerify, AbortVerify
  <2> HIDE DEF handle_verify
  <2>5. verdicts' \subseteq [block : Blocks, parent : Parents, ok : BOOLEAN]
    BY <2>2, <2>3, <2>4 DEF TypeOK
  <2> QED BY <2>1, <2>5 DEF TypeOK, Stages
<1>5. CASE Environment
  <2>1. /\ UNCHANGED <<view, asked, reply, mailbox, proposal, built, tasks, broadcasts, verdicts>>
        /\ executed' \in 0..TopHeight
    BY <1>5, ChainAssumption DEF Environment, Execute, Arrive, TypeOK
  <2> QED BY <2>1 DEF TypeOK, Stages
<1>6. CASE UNCHANGED vars
  BY <1>6 DEF vars, TypeOK, Stages
<1> QED BY <1>1, <1>2, <1>3, <1>4, <1>5, <1>6 DEF Next

\* Every variable has its type.
THEOREM TypeCorrect == Spec => []TypeOK
<1>1. Spec => [](TypeOK /\ Stages)
  BY InitType, NextType, PTL DEF Spec
<1> QED BY <1>1, PTL

-----------------------------------------------------------------------------
(* The order of the mailbox, and the slot.                                 *)

LEMMA InitOrder == Init => RequestInv /\ BuiltInv /\ ParentInv /\ PassesInv
<1> SUFFICES ASSUME Init PROVE RequestInv /\ BuiltInv /\ ParentInv /\ PassesInv
  OBVIOUS
<1>1. DOMAIN mailbox = {} /\ asked = {} /\ proposal = None /\ reply = None /\ executed = 0
      /\ broadcasts = {}
  BY DEF Init
<1>2. RequestInv /\ BuiltInv
  BY <1>1 DEF RequestInv, BuiltInv
<1>3. ParentInv
  BY <1>1 DEF ParentInv
<1>4. PassesInv
  BY <1>1 DEF PassesInv, BroadcastIsBuilt, ProposalsVerify
<1> QED BY <1>2, <1>3, <1>4

\* A new request is of the current view, and the last in the mailbox.
LEMMA RequestKeepsOrder ==
    ASSUME TypeOK, RequestInv, BuiltInv, ParentInv, PassesInv,
           NEW m \in Messages, Request(m), IsRequest(m), m.view = view,
           m.type = "Propose" => Suits(m.parent)
    PROVE  RequestInv' /\ BuiltInv' /\ ParentInv' /\ PassesInv'
<1> DEFINE last == Len(mailbox) + 1
<1>1. /\ mailbox' = Append(mailbox, m) /\ asked' = asked \union {view} /\ view \notin asked
      /\ UNCHANGED <<view, reply, proposal, built, tasks, available, executed, broadcasts, verdicts>>
  BY DEF Request, network
<1>2. /\ \A i \in DOMAIN mailbox' :
             \/ i \in DOMAIN mailbox /\ mailbox'[i] = mailbox[i] /\ i \in Nat /\ i < last
             \/ i = last /\ mailbox'[i] = m
      /\ last \in Nat /\ \A i \in DOMAIN mailbox : i < last
  BY <1>1, MailAppended DEF TypeOK
<1> HIDE DEF last
<1>3. view \in Int /\ \A v \in asked : v \in Int /\ v < view
  BY <1>1, ChainAssumption DEF TypeOK, RequestInv, Views
<1>4. RequestInv'
  <2>1. \A v \in asked' : v <= view'
    BY <1>1, <1>3
  <2>2. \A i \in DOMAIN mailbox' : IsRequest(mailbox'[i]) =>
            mailbox'[i].view \in asked' /\ (proposal' # None => proposal'.view < mailbox'[i].view)
    BY <1>1, <1>2, <1>3 DEF RequestInv
  <2>3. ASSUME NEW i \in DOMAIN mailbox', NEW j \in DOMAIN mailbox', i < j,
               IsRequest(mailbox'[i]), IsRequest(mailbox'[j])
        PROVE  mailbox'[i].view < mailbox'[j].view
    <3>1. i \in DOMAIN mailbox /\ mailbox'[i] = mailbox[i]
      BY <1>2, <2>3
    <3>2. CASE j \in DOMAIN mailbox /\ mailbox'[j] = mailbox[j]
      BY <2>3, <3>1, <3>2 DEF RequestInv
    <3>3. CASE mailbox'[j] = m
      <4>1. mailbox[i].view \in asked
        BY <2>3, <3>1 DEF RequestInv
      <4> QED BY <1>3, <3>1, <3>3, <4>1
    <3> QED BY <1>2, <3>2, <3>3
  <2>4. proposal' # None => proposal'.view \in asked'
    BY <1>1 DEF RequestInv
  <2> QED BY <2>1, <2>2, <2>3, <2>4 DEF RequestInv
<1>5. reply = None
  <2>1. reply # None => view \in asked
    BY <1>1 DEF BuiltInv, Request
  <2> QED BY <1>1, <2>1
<1>6. BuiltInv'
  <2> SUFFICES ASSUME NEW i \in DOMAIN mailbox', mailbox'[i].type = "Broadcast"
               PROVE  /\ mailbox'[i].payload = built /\ proposal = None
                      /\ \A j \in DOMAIN mailbox' : j < i => mailbox'[j].type # "Propose"
    BY <1>1, <1>5 DEF BuiltInv
  <2>1. i \in DOMAIN mailbox /\ mailbox'[i] = mailbox[i] /\ i \in Nat /\ i < last
    BY <1>2 DEF IsRequest
  <2>2. \A j \in DOMAIN mailbox' : j < i => j \in DOMAIN mailbox /\ mailbox'[j] = mailbox[j]
    BY <1>2, <2>1
  <2> QED BY <2>1, <2>2 DEF BuiltInv
<1>7. ParentInv'
  <2>1. \A p : Suits(p) => Suits(p)'
    BY <1>1 DEF Suits
  <2> QED BY <1>1, <1>2, <2>1 DEF ParentInv
<1>8. PassesInv'
  <2>1. \A i \in DOMAIN mailbox' : mailbox'[i].type = "Broadcast" => Passes(mailbox'[i].payload)
    BY <1>2 DEF PassesInv, IsRequest
  <2> QED BY <1>1, <1>5, <2>1 DEF PassesInv, BroadcastIsBuilt, ProposalsVerify
<1> QED BY <1>4, <1>6, <1>7, <1>8

LEMMA DigestKeepsOrder ==
    ASSUME TypeOK, RequestInv, BuiltInv, ParentInv, PassesInv, TakeDigest
    PROVE  RequestInv' /\ BuiltInv' /\ ParentInv' /\ PassesInv'
<1> DEFINE last == Len(mailbox) + 1
           m == [type |-> "Broadcast", payload |-> reply]
<1>1. /\ mailbox' = Append(mailbox, m) /\ reply # None /\ reply' = None
      /\ UNCHANGED <<view, asked, proposal, built, tasks, available, executed, broadcasts, verdicts>>
  BY DEF TakeDigest, consensus, network
<1>2. m.type = "Broadcast" /\ m.payload = reply
  OBVIOUS
<1> HIDE DEF m
<1>3. /\ \A i \in DOMAIN mailbox' :
             \/ i \in DOMAIN mailbox /\ mailbox'[i] = mailbox[i] /\ i \in Nat /\ i < last
             \/ i = last /\ mailbox'[i] = m
      /\ last \in Nat /\ \A i \in DOMAIN mailbox : i < last
  BY <1>1, MailAppended DEF TypeOK
<1> HIDE DEF last
<1>4. RequestInv'
  <2>1. \A i \in DOMAIN mailbox' :
            IsRequest(mailbox'[i]) => i \in DOMAIN mailbox /\ mailbox'[i] = mailbox[i]
    BY <1>2, <1>3 DEF IsRequest
  <2> QED BY <1>1, <2>1 DEF RequestInv
<1>5. BuiltInv'
  <2> SUFFICES ASSUME NEW i \in DOMAIN mailbox', mailbox'[i].type = "Broadcast"
               PROVE  /\ mailbox'[i].payload = built /\ proposal = None
                      /\ \A j \in DOMAIN mailbox' : j < i => mailbox'[j].type # "Propose"
    BY <1>1 DEF BuiltInv
  <2>1. mailbox'[i].payload = built /\ proposal = None
    BY <1>1, <1>2, <1>3 DEF BuiltInv
  <2>2. \A j \in DOMAIN mailbox' : mailbox'[j].type # "Propose"
    BY <1>1, <1>2, <1>3 DEF BuiltInv
  <2> QED BY <2>1, <2>2
<1>6. ParentInv'
  <2>1. \A p : Suits(p) => Suits(p)'
    BY <1>1 DEF Suits
  <2>2. \A i \in DOMAIN mailbox' :
            mailbox'[i].type = "Propose" => i \in DOMAIN mailbox /\ mailbox'[i] = mailbox[i]
    BY <1>2, <1>3
  <2> QED BY <1>1, <2>1, <2>2 DEF ParentInv
<1>7. PassesInv'
  <2>1. \A i \in DOMAIN mailbox' : mailbox'[i].type = "Broadcast" => Passes(mailbox'[i].payload)
    BY <1>1, <1>2, <1>3 DEF PassesInv
  <2> QED BY <1>1, <2>1 DEF PassesInv, BroadcastIsBuilt, ProposalsVerify
<1> QED BY <1>4, <1>5, <1>6, <1>7

\* No request is of a view that consensus has not yet entered.
LEMMA EnterKeepsOrder ==
    ASSUME TypeOK, RequestInv, BuiltInv, ParentInv, PassesInv, EnterView
    PROVE  RequestInv' /\ BuiltInv' /\ ParentInv' /\ PassesInv'
<1>1. /\ view' = view + 1 /\ reply' = None
      /\ UNCHANGED <<asked, mailbox, proposal, built, tasks, available, executed, broadcasts,
                     verdicts>>
  BY DEF EnterView, network
<1>2. view \in Int /\ \A v \in asked : v \in Int /\ v <= view /\ v <= view' /\ v # view'
  BY <1>1, ChainAssumption DEF TypeOK, RequestInv, Views
<1>3. RequestInv' /\ BuiltInv'
  BY <1>1, <1>2 DEF RequestInv, BuiltInv
<1>4. ParentInv'
  <2>1. executed > 0 => viewOf[Final[executed]] < view'
    <3> SUFFICES ASSUME executed > 0 PROVE viewOf[Final[executed]] < view'
      OBVIOUS
    <3>1. executed \in Heights
      BY ChainAssumption DEF TypeOK, Heights
    <3>2. Final[executed] \in Block
      BY <3>1, ChainAssumption
    <3>3. viewOf[Final[executed]] \in Int
      BY <3>2, ChainAssumption DEF Views
    <3> QED BY <1>1, <1>2, <3>3 DEF ParentInv
  <2>2. \A i \in DOMAIN mailbox : mailbox[i].type = "Propose" => mailbox[i].view # view'
    BY <1>2 DEF RequestInv, IsRequest
  <2>3. proposal # None => proposal.view # view'
    BY <1>2 DEF RequestInv
  <2> QED BY <1>1, <2>1, <2>2, <2>3 DEF ParentInv
<1>5. PassesInv'
  BY <1>1 DEF PassesInv, BroadcastIsBuilt, ProposalsVerify
<1> QED BY <1>3, <1>4, <1>5

LEMMA TakeKeepsOrder ==
    ASSUME TypeOK, RequestInv, BuiltInv, ParentInv, PassesInv, Mailbox
    PROVE  RequestInv' /\ BuiltInv' /\ ParentInv' /\ PassesInv'
<1> DEFINE m == Head(mailbox)
<1>1. /\ mailbox # <<>> /\ mailbox' = Tail(mailbox) /\ proposal = None
      /\ UNCHANGED <<view, asked, reply, built, available, executed, verdicts>>
  BY DEF Mailbox, HandlePropose, HandleBroadcast, HandleVerify, Handle, consensus, network
<1>2. /\ 1 \in DOMAIN mailbox /\ m = mailbox[1] /\ m \in Messages
      /\ \A i \in DOMAIN mailbox' :
             i \in Nat /\ i + 1 \in DOMAIN mailbox /\ mailbox'[i] = mailbox[i + 1] /\ 1 < i + 1
  BY <1>1, MailTaken DEF TypeOK
<1> HIDE DEF m
<1>3. \A i, j \in DOMAIN mailbox' : i < j => i + 1 < j + 1
  BY <1>2
<1>4. \/ /\ proposal' = None /\ m.type # "Propose"
         /\ \/ UNCHANGED broadcasts
            \/ /\ m.type = "Broadcast"
               /\ broadcasts' = broadcasts \union {[payload |-> m.payload, block |-> built]}
      \/ /\ m.type = "Propose" /\ UNCHANGED broadcasts
         /\ proposal' = [view |-> m.view, parent |-> m.parent, stage |-> "parent",
                         eth_parent |-> None]
  BY <1>1 DEF m, Mailbox, HandlePropose, HandleBroadcast, HandleVerify, Handle
<1>5. proposal' # None =>
          /\ m.type = "Propose" /\ proposal'.view = m.view /\ proposal'.parent = m.parent
          /\ proposal'.stage = "parent"
  BY <1>4
<1>6. RequestInv'
  <2>1. \A i \in DOMAIN mailbox' : IsRequest(mailbox'[i]) =>
            mailbox'[i].view \in asked /\ (proposal' # None => proposal'.view < mailbox'[i].view)
    <3> SUFFICES ASSUME NEW i \in DOMAIN mailbox', IsRequest(mailbox'[i])
                 PROVE  /\ mailbox'[i].view \in asked
                        /\ proposal' # None => proposal'.view < mailbox'[i].view
      OBVIOUS
    <3>1. i + 1 \in DOMAIN mailbox /\ mailbox'[i] = mailbox[i + 1] /\ 1 < i + 1
      BY <1>2
    <3>2. proposal' # None => IsRequest(mailbox[1]) /\ proposal'.view = mailbox[1].view
      BY <1>2, <1>5 DEF IsRequest
    <3> QED BY <1>2, <3>1, <3>2 DEF RequestInv
  <2>2. \A i, j \in DOMAIN mailbox' :
            i < j /\ IsRequest(mailbox'[i]) /\ IsRequest(mailbox'[j])
                => mailbox'[i].view < mailbox'[j].view
    BY <1>2, <1>3 DEF RequestInv
  <2>3. proposal' # None => proposal'.view \in asked
    BY <1>2, <1>5 DEF RequestInv, IsRequest
  <2> QED BY <1>1, <2>1, <2>2, <2>3 DEF RequestInv
<1>7. BuiltInv'
  <2>1. ASSUME NEW i \in DOMAIN mailbox', mailbox'[i].type = "Broadcast"
        PROVE  /\ mailbox'[i].payload = built /\ proposal' = None
               /\ \A j \in DOMAIN mailbox' : j < i => mailbox'[j].type # "Propose"
    <3>1. i + 1 \in DOMAIN mailbox /\ mailbox[i + 1].type = "Broadcast" /\ 1 < i + 1
      BY <1>2, <2>1
    <3>2. m.type # "Propose"
      BY <1>2, <3>1 DEF BuiltInv
    <3> QED BY <1>2, <1>3, <1>5, <2>1, <3>1, <3>2 DEF BuiltInv
  <2>2. reply # None => /\ reply = built /\ proposal' = None /\ view \in asked
                        /\ \A i \in DOMAIN mailbox' : mailbox'[i].type # "Propose"
    <3>1. reply # None => /\ reply = built /\ view \in asked
                          /\ \A i \in DOMAIN mailbox : mailbox[i].type # "Propose"
      BY DEF BuiltInv
    <3> QED BY <1>2, <1>5, <3>1
  <2> QED BY <1>1, <2>1, <2>2 DEF BuiltInv
<1>8. ParentInv'
  <2>1. \A i \in DOMAIN mailbox' :
            mailbox'[i].type = "Propose" /\ mailbox'[i].view = view => Suits(mailbox[i].parent)'
    BY <1>1, <1>2 DEF ParentInv, Suits
  <2>2. proposal' # None /\ proposal'.view = view =>
            Suits(proposal.parent)' /\ proposal'.stage # "build"
    BY <1>1, <1>2, <1>5 DEF ParentInv, Suits
  <2> QED BY <1>1, <2>1, <2>2 DEF ParentInv
<1>9. PassesInv'
  <2>1. \A i \in DOMAIN mailbox' : mailbox'[i].type = "Broadcast" => Passes(mailbox'[i].payload)
    BY <1>2 DEF PassesInv
  <2>2. m.type = "Broadcast" => m.payload = built /\ Passes(m.payload)
    BY <1>2 DEF PassesInv, BuiltInv
  <2>3. \A b \in broadcasts' : b.block = b.payload /\ Passes(b.payload)
    BY <1>4, <2>2 DEF PassesInv, BroadcastIsBuilt, ProposalsVerify, Passes
  <2> QED BY <1>1, <2>1, <2>3 DEF PassesInv, BroadcastIsBuilt, ProposalsVerify, Passes
<1> QED BY <1>6, <1>7, <1>8, <1>9

-----------------------------------------------------------------------------
(* A proposal.                                                             *)

\* A parent that consensus may still build on, once executed, is the forkchoice itself:
\* a block beyond it cannot be executed before consensus leaves the view.
LEMMA ForkchoiceIsTheParent ==
    ASSUME TypeOK, ParentInv, NEW p \in Parents, Suits(p), executed >= HeightOf(p)
    PROVE  Forkchoice = p
<1>1. executed \in Nat /\ (executed # 0 => executed \in Heights)
  BY ChainAssumption DEF TypeOK, Heights
<1>2. p # Genesis => p \in Certified /\ p \in Block
  BY ChainAssumption DEF Parents
<1>3. CASE executed = 0
  <2>1. p # Genesis => heightOf[p] \in Heights /\ HeightOf(p) = heightOf[p]
    BY <1>2, ChainAssumption DEF HeightOf
  <2>2. \A h \in Heights : ~(0 >= h)
    BY ChainAssumption DEF Heights
  <2> QED BY <1>3, <2>1, <2>2 DEF Forkchoice
<1>4. CASE executed # 0
  <2> DEFINE f == Final[executed]
  <2>1. f \in FinalBlocks /\ f \in Certified /\ f \in Block /\ viewOf[f] < view
    <3>1. executed > 0
      BY <1>1, <1>4
    <3>2. f \in FinalBlocks /\ f \in Certified
      BY <1>1, <1>4, ChainAssumption DEF FinalBlocks
    <3> QED BY <3>1, <3>2, ChainAssumption DEF ParentInv
  <2>2. p # Genesis /\ p \in Certified /\ viewOf[f] <= viewOf[p]
    BY <1>2, <2>1 DEF Suits
  <2>3. HeightOf(p) = heightOf[p] /\ heightOf[p] \in Nat
    BY <1>2, <2>2, ChainAssumption DEF HeightOf, Heights
  <2>4. viewOf[f] \in Int /\ viewOf[p] \in Int
    BY <1>2, <2>1, <2>2, ChainAssumption DEF Views
  <2>5. ~(viewOf[p] > viewOf[f])
    <3>1. viewOf[p] > viewOf[f] => heightOf[p] > executed
      BY <1>1, <1>4, <2>2, DescentAssumption
    <3> QED BY <1>1, <2>3, <3>1
  <2>6. viewOf[f] = viewOf[p]
    BY <2>2, <2>4, <2>5
  <2> QED BY <1>4, <2>1, <2>2, <2>6, ChainAssumption DEF Forkchoice
<1> QED BY <1>3, <1>4

LEMMA ProposeKeepsOrder ==
    ASSUME TypeOK, RequestInv, BuiltInv, ParentInv, PassesInv, Propose
    PROVE  RequestInv' /\ BuiltInv' /\ ParentInv' /\ PassesInv'
<1>1. /\ UNCHANGED <<view, asked, mailbox, tasks, available, executed, broadcasts, verdicts>>
      /\ proposal # None
  BY DEF Propose, FindParent, StartBuilding, FinishBuilding, FailBuilding, AbortProposal,
     Proposing, consensus, network
<1>2. reply = None /\ \A i \in DOMAIN mailbox : mailbox[i].type # "Broadcast"
  BY <1>1 DEF BuiltInv
<1>3. proposal.view \in Views /\ proposal.parent \in Parents
  BY <1>1 DEF TypeOK
<1>4. proposal' # None => proposal'.view = proposal.view /\ proposal'.parent = proposal.parent
  BY <1>1 DEF Propose, FindParent, StartBuilding, FinishBuilding, FailBuilding, AbortProposal,
     Proposing, TypeOK
<1>5. RequestInv'
  BY <1>1, <1>4 DEF RequestInv
<1>6. reply' # None => FinishBuilding /\ proposal.view = view
  BY <1>2 DEF Propose, FindParent, StartBuilding, FinishBuilding, FailBuilding, AbortProposal
<1>7. ASSUME reply' # None
      PROVE  /\ reply' = built' /\ proposal' = None /\ view \in asked
             /\ \A i \in DOMAIN mailbox : mailbox[i].type # "Propose"
             /\ reply' = compute_digest
  <2>1. FinishBuilding /\ proposal.view = view
    BY <1>6, <1>7
  <2>2. view \in asked
    BY <1>1, <2>1 DEF RequestInv
  <2>3. \A i \in DOMAIN mailbox : mailbox[i].type = "Propose" => FALSE
    <3> SUFFICES ASSUME NEW i \in DOMAIN mailbox, mailbox[i].type = "Propose" PROVE FALSE
      OBVIOUS
    <3>1. mailbox[i].view \in asked /\ view < mailbox[i].view
      BY <1>1, <2>1 DEF RequestInv, IsRequest
    <3>2. mailbox[i].view \in Int /\ mailbox[i].view <= view /\ view \in Int
      <4>1. asked \subseteq Views /\ view \in Int /\ Views \subseteq Int
        BY ChainAssumption DEF TypeOK, Views
      <4> QED BY <3>1, <4>1 DEF RequestInv
    <3> QED BY <3>1, <3>2
  <2> QED BY <2>1, <2>2, <2>3 DEF FinishBuilding
<1>8. BuiltInv'
  BY <1>1, <1>2, <1>7 DEF BuiltInv
<1>9. ParentInv'
  <2>1. \A i \in DOMAIN mailbox :
            mailbox[i].type = "Propose" /\ mailbox[i].view = view => Suits(mailbox[i].parent)'
    BY <1>1 DEF ParentInv, Suits
  <2>2. ASSUME proposal' # None, proposal.view = view
        PROVE  /\ Suits(proposal.parent) /\ Suits(proposal.parent)'
               /\ proposal'.stage = "build" => proposal'.eth_parent = proposal.parent
    <3>1. Suits(proposal.parent) /\ Suits(proposal.parent)'
      BY <1>1, <1>4, <2>2 DEF ParentInv, Suits
    <3>2. CASE FindParent
      <4>1. proposal'.stage = "executed"
        BY <1>1, <3>2 DEF FindParent, TypeOK
      <4> QED BY <3>1, <4>1
    <3>3. CASE StartBuilding
      <4>1. proposal'.eth_parent = Forkchoice /\ executed >= HeightOf(proposal.parent)
        BY <1>1, <3>3 DEF StartBuilding, TypeOK
      <4> QED BY <1>3, <3>1, <4>1, ForkchoiceIsTheParent
    <3>4. CASE FinishBuilding \/ FailBuilding \/ AbortProposal
      BY <2>2, <3>4 DEF FinishBuilding, FailBuilding, AbortProposal
    <3> QED BY <3>2, <3>3, <3>4 DEF Propose
  <2> QED BY <1>1, <1>4, <2>1, <2>2 DEF ParentInv
<1>10. PassesInv'
  <2>1. ASSUME reply' # None PROVE Passes(reply')
    <3>1. FinishBuilding /\ proposal.view = view /\ reply' = compute_digest
      BY <1>6, <1>7, <2>1
    <3>2. proposal.eth_parent = proposal.parent
      BY <1>1, <3>1 DEF ParentInv, FinishBuilding, Proposing
    <3>3. /\ compute_digest.parent = proposal.parent /\ compute_digest.eth_parent = proposal.parent
          /\ compute_digest.height = HeightOf(proposal.parent) + 1 /\ compute_digest.later
      BY <3>2 DEF compute_digest
    <3> HIDE DEF compute_digest
    <3> QED BY <3>1, <3>3 DEF Passes, handle_verify
  <2> QED BY <1>1, <2>1 DEF PassesInv, BroadcastIsBuilt, ProposalsVerify, Passes
<1> QED BY <1>5, <1>8, <1>9, <1>10

\* Neither verifications nor the other components touch the mailbox or the slot, and a
\* block is executed only after its view.
LEMMA OthersKeepOrder ==
    ASSUME TypeOK, RequestInv, BuiltInv, ParentInv, PassesInv,
           Verify \/ Environment \/ UNCHANGED vars
    PROVE  RequestInv' /\ BuiltInv' /\ ParentInv' /\ PassesInv'
<1>1. UNCHANGED <<view, asked, reply, mailbox, proposal, built, broadcasts>>
  BY DEF Verify, FinishVerify, AbortVerify, EndTask, Environment, Execute, Arrive, vars,
     consensus, network
<1>2. \/ executed' = executed
      \/ executed' = executed + 1 /\ viewOf[Final[executed + 1]] < view
  BY DEF Verify, FinishVerify, AbortVerify, EndTask, Environment, Execute, Arrive, vars,
     consensus, network
<1>3. RequestInv' /\ BuiltInv'
  BY <1>1 DEF RequestInv, BuiltInv
<1>4. ParentInv'
  BY <1>1, <1>2 DEF ParentInv, Suits
<1>5. PassesInv'
  BY <1>1 DEF PassesInv, BroadcastIsBuilt, ProposalsVerify
<1> QED BY <1>3, <1>4, <1>5

-----------------------------------------------------------------------------

LEMMA NextProposal ==
    ASSUME ProposalInv, [Next]_vars
    PROVE  RequestInv' /\ BuiltInv' /\ ParentInv' /\ PassesInv'
<1> USE DEF ProposalInv
<1>1. CASE Consensus
  <2>1. CASE TakeDigest \/ EnterView
    BY <2>1, DigestKeepsOrder, EnterKeepsOrder
  <2>2. ASSUME NEW p \in Parents, RequestProposal(p)
        PROVE  RequestInv' /\ BuiltInv' /\ ParentInv' /\ PassesInv'
    <3> DEFINE m == [type |-> "Propose", view |-> view, parent |-> p]
    <3>1. Request(m) /\ m \in Messages
      BY <2>2 DEF RequestProposal, Request, Messages
    <3>2. Suits(m.parent)
      BY <2>2 DEF RequestProposal, ParentChoice, Suits
    <3>3. IsRequest(m) /\ m.view = view
      BY DEF IsRequest
    <3> HIDE DEF m
    <3> QED BY <3>1, <3>2, <3>3, RequestKeepsOrder
  <2>3. ASSUME NEW p \in Parents, NEW b \in Offered, RequestVerdict(p, b)
        PROVE  RequestInv' /\ BuiltInv' /\ ParentInv' /\ PassesInv'
    <3> DEFINE m == [type |-> "Verify", view |-> view, parent |-> p, payload |-> b]
    <3>1. Request(m) /\ m \in Messages
      BY <2>3, ApplicationAssumption DEF RequestVerdict, Request, Messages
    <3>2. IsRequest(m) /\ m.view = view /\ m.type # "Propose"
      BY DEF IsRequest
    <3> HIDE DEF m
    <3> QED BY <3>1, <3>2, RequestKeepsOrder
  <2> QED BY <1>1, <2>1, <2>2, <2>3 DEF Consensus
<1>2. CASE Mailbox
  BY <1>2, TakeKeepsOrder
<1>3. CASE Propose
  BY <1>3, ProposeKeepsOrder
<1>4. CASE Verify \/ Environment \/ UNCHANGED vars
  BY <1>4, OthersKeepOrder
<1> QED BY <1>1, <1>2, <1>3, <1>4 DEF Next

THEOREM ProposalInvariant == Spec => []ProposalInv
<1>1. Init => ProposalInv
  BY InitType, InitOrder DEF ProposalInv
<1>2. ProposalInv /\ TypeOK' /\ [Next]_vars => ProposalInv'
  BY NextProposal DEF ProposalInv
<1> QED BY <1>1, <1>2, TypeCorrect, PTL DEF Spec

\* The one slot holds the block that consensus wants broadcast: the digests it knows are
\* broadcast before the proposal that fills the slot again is taken from the mailbox.
THEOREM SlotHoldsBroadcast == Spec => []BroadcastIsBuilt
<1>1. ProposalInv => BroadcastIsBuilt
  BY DEF ProposalInv, PassesInv
<1> QED BY <1>1, ProposalInvariant, PTL

\* What a leader broadcasts passes every other node's check: the forkchoice its payload
\* was built on is its parent, whenever it was read.
THEOREM BroadcastsPass == Spec => []ProposalsVerify
<1>1. ProposalInv => ProposalsVerify
  BY DEF ProposalInv, PassesInv
<1> QED BY <1>1, ProposalInvariant, PTL
=============================================================================
