---------------------------- MODULE FinalizerProofs ----------------------------
(***************************************************************************)
(* The finalizer's invariants, and that it implements OrderedExecution,    *)
(* for every chain, every channel capacity and every bound.                *)
(***************************************************************************)
EXTENDS Finalizer, ChainProofs

\* The inductive invariant.
IInv == TypeOK /\ LoopInv /\ PendingAhead

\* What a request the syncer is about to receive tells of the finalizer.
LEMMA HeadFacts ==
    ASSUME TypeOK, OrchShape, orch # <<>>
    PROVE  /\ Len(orch) \in {1, 2} /\ Head(orch) = orch[1]
           /\ Head(orch).type = "Get" =>
                pc = "getting" /\ Len(orch) = 1 /\ Head(orch) = Message("Get")
           /\ Head(orch).type = "Repair" => pc = "repairing" /\ Len(orch) = 1
           /\ Head(orch).type = "Processed" => \/ pc = "top" /\ Len(orch) = 1
                                               \/ pc = "getting" /\ Len(orch) = 2
<1>1. orch \in Seq(Orchestration) /\ Len(orch) # 0 /\ Head(orch) = orch[1]
  BY DEF TypeOK
<1>2. pc \in {"getting", "repairing", "top"} /\ Len(orch) \in {1, 2}
  BY <1>1 DEF OrchShape
<1>3. CASE pc = "getting"
  BY <1>1, <1>2, <1>3 DEF OrchShape, Message
<1>4. CASE pc = "repairing"
  BY <1>1, <1>2, <1>4 DEF OrchShape, Message
<1>5. CASE pc = "top"
  BY <1>1, <1>2, <1>5 DEF OrchShape
<1> QED BY <1>2, <1>3, <1>4, <1>5

\* The block at the next height, if it is stored, is the final one.
LEMMA NextFacts ==
    ASSUME TypeOK, StoreIsFinal
    PROVE  /\ next \in 1..(TopHeight + 1)
           /\ At(blocks, next) # None => next \in Heights /\ At(blocks, next) = Final[next]
           /\ next \in Heights => At(blocks, next) = blocks[next]
           /\ \A type \in {"Get", "Repair"} : Message(type) \in Orchestration
BY ChainAssumption DEF TypeOK, StoreIsFinal, next, At, Archive, Heights, Message, Orchestration

LEMMA InitInv == Init => IInv
<1> SUFFICES ASSUME Init PROVE IInv
  OBVIOUS
<1>1. TypeOK
  BY EmptyType, ChainAssumption, FinalizerAssumption DEF Init, TypeOK, Positions
<1>2. LoopInv
  BY DEF Init, LoopInv, StoreIsFinal, GotIsNext, OrchShape, Woken, Empty
<1>3. PendingAhead
  BY DEF Init, PendingAhead
<1> QED BY <1>1, <1>2, <1>3 DEF IInv

-----------------------------------------------------------------------------
(* Each step of the loop keeps the invariant.                              *)

LEMMA SendGetInv == ASSUME IInv, SendGet PROVE IInv'
<1> USE DEF SendGet, Goto, shared, execution, requests, lifetime
<1>1. TypeOK /\ OrchShape /\ pc = "top" /\ pc' = "getting"
  BY DEF IInv, LoopInv
<1>2. Message("Get") \in Orchestration /\ orch \in Seq(Orchestration)
  BY NextFacts DEF IInv, LoopInv, TypeOK
<1>3. TypeOK'
  BY <1>1, <1>2 DEF TypeOK, Positions
<1>4. Message("Get")' = Message("Get")
  BY DEF Message, next
<1>5. OrchShape'
  BY <1>1, <1>2, <1>4 DEF OrchShape
<1>6. StoreIsFinal' /\ GotIsNext' /\ Woken' /\ PendingAhead'
  BY <1>1 DEF IInv, LoopInv, StoreIsFinal, GotIsNext, Woken, PendingAhead
<1> QED BY <1>3, <1>5, <1>6 DEF IInv, LoopInv

\* The steps that touch no channel and leave the index alone.
LEMMA ExecuteInv ==
    ASSUME IInv, CheckPayload \/ RefusePayload \/ CommitHash \/ Publish
    PROVE  IInv'
<1> USE DEF CheckPayload, RefusePayload, CommitHash, Publish, Goto, shared, execution,
            requests, lifetime
<1>1. pc \in {"check", "commit", "publish"} /\ pc' \in {"commit", "repair", "publish", "persist"}
  OBVIOUS
<1>2. next \in Heights /\ got = Final[next] /\ got \in Block /\ got # None
  BY <1>1, FinalFacts DEF IInv, LoopInv, GotIsNext
<1>3. TypeOK'
  <2>1. committed' \in 0..TopHeight
    BY <1>2, ChainAssumption DEF IInv, TypeOK, Heights
  <2> QED BY <1>1, <1>2, <2>1, FinalizerAssumption DEF IInv, TypeOK, Positions
<1>4. next' = next /\ got' = got
  BY DEF next
<1>5. OrchShape'
  BY <1>1, <1>4 DEF IInv, LoopInv, OrchShape
<1>6. GotIsNext'
  BY <1>1, <1>2, <1>4 DEF IInv, LoopInv, GotIsNext
<1>7. StoreIsFinal' /\ Woken' /\ PendingAhead'
  BY <1>1, <1>2, <1>4 DEF IInv, LoopInv, StoreIsFinal, Woken, PendingAhead
<1> QED BY <1>3, <1>5, <1>6, <1>7 DEF IInv, LoopInv

LEMMA PersistInv == ASSUME IInv, Persist PROVE IInv'
<1> USE DEF Persist, Goto, shared
<1>1. pc = "persist" /\ pc' = "processed" /\ last_indexed' = next /\ indexed' = next
  OBVIOUS
<1>2. next \in Heights
  BY <1>1 DEF IInv, LoopInv, GotIsNext
<1>3. TypeOK'
  BY <1>1, <1>2, ChainAssumption DEF IInv, TypeOK, Positions, lifetime, Heights
<1>4. OrchShape' /\ GotIsNext' /\ StoreIsFinal' /\ Woken'
  BY <1>1, <1>2 DEF IInv, LoopInv, OrchShape, GotIsNext, StoreIsFinal, Woken
<1>5. PendingAhead'
  <2> SUFFICES ASSUME NEW r \in pending' PROVE r.height > last_indexed'
    BY DEF PendingAhead
  <2>1. r \in pending /\ ~(r.height <= next)
    OBVIOUS
  <2>2. r.height \in Int /\ next \in Int
    BY <1>2, <2>1, ChainAssumption DEF IInv, TypeOK, Requests, Heights
  <2> QED BY <1>1, <2>1, <2>2
<1> QED BY <1>3, <1>4, <1>5 DEF IInv, LoopInv

LEMMA SendProcessedInv == ASSUME IInv, SendProcessed PROVE IInv'
<1> USE DEF SendProcessed, Goto, shared, execution, requests, lifetime
<1> DEFINE message == [type |-> "Processed", next |-> last_indexed]
<1>1. pc = "processed" /\ pc' = "top" /\ orch' = Append(orch, message)
  OBVIOUS
<1>2. orch \in Seq(Orchestration) /\ message \in Orchestration
  BY <1>1, ChainAssumption DEF IInv, LoopInv, GotIsNext, TypeOK, Orchestration, Heights
<1>3. TypeOK'
  BY <1>1, <1>2 DEF IInv, TypeOK, Positions
<1>4. Len(orch) = 0
  BY <1>1 DEF IInv, LoopInv, OrchShape
<1>5. Len(orch') = 1 /\ orch'[1] = message
  BY <1>1, <1>2, <1>4
<1>6. OrchShape'
  BY <1>1, <1>5 DEF OrchShape
<1>7. GotIsNext' /\ StoreIsFinal' /\ Woken' /\ PendingAhead'
  BY <1>1 DEF IInv, LoopInv, GotIsNext, StoreIsFinal, Woken, PendingAhead
<1> QED BY <1>3, <1>6, <1>7 DEF IInv, LoopInv

LEMMA SendRepairInv == ASSUME IInv, SendRepair PROVE IInv'
<1> USE DEF SendRepair, Goto, shared, execution, requests, lifetime
<1>1. pc = "repair" /\ pc' = "repairing" /\ orch' = Append(orch, Message("Repair"))
  OBVIOUS
<1>2. orch \in Seq(Orchestration) /\ Message("Repair") \in Orchestration
  BY NextFacts DEF IInv, LoopInv, TypeOK
<1>3. TypeOK'
  BY <1>1, <1>2 DEF IInv, TypeOK, Positions
<1>4. Message("Repair")' = Message("Repair") /\ next' = next
  BY DEF Message, next
<1>5. Len(orch) = 0
  BY <1>1 DEF IInv, LoopInv, OrchShape
<1>6. OrchShape'
  BY <1>1, <1>2, <1>4, <1>5 DEF OrchShape
<1>7. GotIsNext' /\ StoreIsFinal' /\ Woken' /\ PendingAhead'
  BY <1>1, <1>4 DEF IInv, LoopInv, GotIsNext, StoreIsFinal, Woken, PendingAhead
<1> QED BY <1>3, <1>6, <1>7 DEF IInv, LoopInv

LEMMA TakeRequestInv == ASSUME IInv, TakeRequest PROVE IInv'
<1> USE DEF TakeRequest, Goto, shared, execution, lifetime
<1>1. pc = "wait" /\ pc' = "top" /\ mailbox # <<>> /\ mailbox \in Seq(Requests)
  BY DEF IInv, TypeOK
<1>2. Head(mailbox) \in Requests /\ Tail(mailbox) \in Seq(Requests)
  BY <1>1
<1>3. TypeOK'
  BY <1>1, <1>2 DEF IInv, TypeOK, Positions
<1>4. OrchShape' /\ GotIsNext' /\ StoreIsFinal' /\ Woken'
  BY <1>1 DEF IInv, LoopInv, OrchShape, GotIsNext, StoreIsFinal, Woken
<1>5. PendingAhead'
  <2>1. Head(mailbox).height \in Int /\ last_indexed \in Int
    BY <1>2, ChainAssumption DEF IInv, TypeOK, Requests
  <2> QED BY <2>1 DEF IInv, PendingAhead
<1> QED BY <1>3, <1>4, <1>5 DEF IInv, LoopInv

LEMMA TakeWakeInv == ASSUME IInv, TakeWake PROVE IInv'
<1> USE DEF TakeWake, Goto, execution, requests, lifetime
<1>1. TypeOK'
  BY FinalizerAssumption DEF IInv, TypeOK, Positions
<1>2. OrchShape' /\ GotIsNext' /\ StoreIsFinal' /\ Woken' /\ PendingAhead'
  BY DEF IInv, LoopInv, OrchShape, GotIsNext, StoreIsFinal, Woken, PendingAhead
<1> QED BY <1>1, <1>2 DEF IInv, LoopInv

-----------------------------------------------------------------------------
(* So does each step of the syncer.                                        *)

LEMMA StoreInv == ASSUME IInv, NEW h \in Heights, Store(h) PROVE IInv'
<1> USE DEF Store, execution, requests, lifetime
<1>1. blocks \in Archive(Heights) /\ Final[h] \in Block /\ StoreIsFinal
  BY FinalFacts DEF IInv, LoopInv, TypeOK
<1>2. blocks' \in Archive(Heights)
  BY <1>1, PutType
<1>3. wake' \in 0..WakeCapacity /\ wake' > 0
  BY FinalizerAssumption DEF IInv, TypeOK
<1>4. TypeOK'
  BY <1>2, <1>3 DEF IInv, TypeOK
<1>5. StoreIsFinal'
  BY <1>1, PutValue DEF StoreIsFinal
<1>6. OrchShape' /\ GotIsNext' /\ Woken' /\ PendingAhead'
  BY <1>3 DEF IInv, LoopInv, OrchShape, GotIsNext, Woken, PendingAhead, Message, next
<1> QED BY <1>4, <1>5, <1>6 DEF IInv, LoopInv

LEMMA AnswerGetInv == ASSUME IInv, AnswerGet PROVE IInv'
<1> USE DEF AnswerGet, Receive, execution, requests, lifetime
<1>1. TypeOK /\ OrchShape /\ StoreIsFinal /\ orch # <<>>
  BY DEF IInv, LoopInv
<1>2. pc = "getting" /\ Len(orch) = 1 /\ Head(orch).next = next
  BY <1>1, HeadFacts DEF Message
<1>3. got' = At(blocks, next) /\ next' = next /\ got' \in Block \union {None}
  BY <1>1, <1>2, NextFacts, FinalFacts DEF next
<1>4. Tail(orch) \in Seq(Orchestration) /\ Len(Tail(orch)) = 0
  BY <1>1, <1>2 DEF TypeOK
<1>5. TypeOK'
  BY <1>1, <1>3, <1>4 DEF TypeOK, Positions
<1>6. OrchShape'
  BY <1>4 DEF OrchShape
<1>7. GotIsNext'
  BY <1>1, <1>3, NextFacts DEF GotIsNext
<1>8. StoreIsFinal' /\ Woken' /\ PendingAhead'
  BY <1>3 DEF IInv, LoopInv, StoreIsFinal, Woken, PendingAhead, At
<1> QED BY <1>5, <1>6, <1>7, <1>8 DEF IInv, LoopInv

LEMMA TakeProcessedInv == ASSUME IInv, TakeProcessed PROVE IInv'
<1> USE DEF TakeProcessed, Receive, execution, requests, lifetime
<1>1. TypeOK /\ OrchShape /\ orch # <<>> /\ orch \in Seq(Orchestration)
  BY DEF IInv, LoopInv, TypeOK
<1>2. \/ pc = "top" /\ Len(orch) = 1
      \/ pc = "getting" /\ Len(orch) = 2
  BY <1>1, HeadFacts
<1>3. Tail(orch) \in Seq(Orchestration) /\ Len(Tail(orch)) = Len(orch) - 1
  BY <1>1
<1>4. TypeOK'
  BY <1>1, <1>3 DEF TypeOK
<1>5. Len(orch) = 2 => Tail(orch)[1] = orch[2]
  <2>1. orch \in Seq(Orchestration)
    BY <1>1
  <2> QED BY ONLY <2>1
<1>6. Message("Get")' = Message("Get")
  BY DEF Message, next
<1>7. OrchShape'
  <2>1. orch' = Tail(orch) /\ pc' = pc
    OBVIOUS
  <2>2. CASE pc = "top" /\ Len(orch) = 1
    <3>1. Len(orch') = 0 /\ pc' = "top"
      BY <2>1, <2>2, <1>3
    <3> QED BY <3>1 DEF OrchShape
  <2>3. CASE pc = "getting" /\ Len(orch) = 2
    <3>1. orch[2] = Message("Get")
      BY <2>3, <1>1 DEF OrchShape
    <3>2. Len(orch') = 1 /\ orch'[1] = Message("Get")
      BY ONLY <3>1, <2>1, <2>3, <1>3, <1>5
    <3>3. pc' = "getting"
      BY <2>1, <2>3
    <3> QED BY ONLY <3>2, <3>3, <1>6 DEF OrchShape
  <2> QED BY <1>2, <2>2, <2>3
<1>8. GotIsNext' /\ StoreIsFinal' /\ Woken' /\ PendingAhead'
  BY DEF IInv, LoopInv, GotIsNext, StoreIsFinal, Woken, PendingAhead, next, At
<1> QED BY <1>4, <1>7, <1>8 DEF IInv, LoopInv

\* What receiving a repair request leaves of the channel.
LEMMA RepairReceived ==
    ASSUME IInv, Receive("Repair")
    PROVE  pc = "repairing" /\ orch' \in Seq(Orchestration) /\ Len(orch') = 0
<1>1. TypeOK /\ OrchShape /\ orch # <<>> /\ orch \in Seq(Orchestration)
  BY DEF IInv, LoopInv, TypeOK, Receive
<1>2. pc = "repairing" /\ Len(orch) = 1
  BY <1>1, HeadFacts DEF Receive
<1> QED BY <1>1, <1>2 DEF Receive

LEMMA RepairedInv == ASSUME IInv, NEW h \in Heights, Repaired(h) PROVE IInv'
<1> USE DEF Repaired, Receive, execution, requests, lifetime
<1>1. pc = "repairing" /\ orch' \in Seq(Orchestration) /\ Len(orch') = 0
  BY RepairReceived
<1>2. blocks \in Archive(Heights) /\ Final[h] \in Block /\ StoreIsFinal
  BY FinalFacts DEF IInv, LoopInv, TypeOK
<1>3. blocks' \in Archive(Heights)
  BY <1>2, PutType
<1>4. TypeOK'
  BY <1>1, <1>3 DEF IInv, TypeOK, Positions
<1>5. StoreIsFinal'
  BY <1>2, PutValue DEF StoreIsFinal
<1>6. OrchShape' /\ GotIsNext' /\ Woken' /\ PendingAhead'
  BY <1>1 DEF IInv, LoopInv, OrchShape, GotIsNext, Woken, PendingAhead
<1> QED BY <1>4, <1>5, <1>6 DEF IInv, LoopInv

LEMMA NotRepairedInv == ASSUME IInv, NotRepaired PROVE IInv'
<1> USE DEF NotRepaired, Receive, execution, requests, lifetime
<1>1. pc = "repairing" /\ orch' \in Seq(Orchestration) /\ Len(orch') = 0
  BY RepairReceived
<1>2. TypeOK'
  BY <1>1 DEF IInv, TypeOK, Positions
<1>3. OrchShape' /\ GotIsNext' /\ PendingAhead'
  BY <1>1 DEF IInv, LoopInv, OrchShape, GotIsNext, PendingAhead
<1>4. StoreIsFinal' /\ Woken'
  BY <1>1 DEF IInv, LoopInv, StoreIsFinal, Woken, next, At
<1> QED BY <1>2, <1>3, <1>4 DEF IInv, LoopInv

-----------------------------------------------------------------------------
(* And each step of the proposer and of the environment.                   *)

LEMMA AskInv == ASSUME IInv, NEW height \in 0..TopHeight, Ask(height) PROVE IInv'
<1> USE DEF Ask, shared, execution
<1> DEFINE request == [id |-> asks + 1, height |-> height]
<1>1. request \in Requests /\ asks' \in 0..MaxAsks /\ mailbox \in Seq(Requests)
  BY FinalizerAssumption DEF IInv, TypeOK, Requests
<1>2. mailbox' \in Seq(Requests)
  BY <1>1
<1>3. TypeOK'
  BY <1>1, <1>2 DEF IInv, TypeOK, lifetime
<1>4. OrchShape' /\ GotIsNext' /\ StoreIsFinal' /\ Woken' /\ PendingAhead'
  BY DEF IInv, LoopInv, OrchShape, GotIsNext, StoreIsFinal, Woken, PendingAhead,
         Message, next, At
<1> QED BY <1>3, <1>4 DEF IInv, LoopInv

\* The proposer's call touches nothing the finalizer's loop knows of.
LEMMA CallInv ==
    ASSUME IInv, (\E r \in answered : StartBuilding(r)) \/ \E c \in calls : UpdateHead(c)
    PROVE  IInv'
<1> USE DEF StartBuilding, UpdateHead, shared, execution, lifetime
<1>1. /\ UNCHANGED <<blocks, wake, orch, pc, got, last_indexed, indexed, forkchoice, committed,
                     mailbox, pending, asks, refusals, up, crashes>>
      /\ evm_head' \in {evm_head} \union {c.head : c \in calls}
      /\ answered' \subseteq answered
  OBVIOUS
<1>2. calls' \subseteq Calls
  <2>1. CASE \E r \in answered : StartBuilding(r)
    <3>1. PICK r \in answered : StartBuilding(r)
      BY <2>1
    <3>2. r \in Requests /\ forkchoice \in Block \union {Genesis} /\ calls \subseteq Calls
      BY DEF IInv, TypeOK
    <3>3. [id |-> r.id, height |-> r.height, head |-> forkchoice] \in Calls
      BY <3>2 DEF Requests, Calls
    <3> QED BY <3>1, <3>2, <3>3
  <2>2. CASE \E c \in calls : UpdateHead(c)
    BY <2>2 DEF IInv, TypeOK
  <2> QED BY <2>1, <2>2
<1>3. evm_head' \in Block \union {Genesis}
  BY <1>1 DEF IInv, TypeOK, Calls
<1>4. TypeOK'
  BY <1>1, <1>2, <1>3 DEF IInv, TypeOK
<1>5. OrchShape' /\ GotIsNext' /\ StoreIsFinal' /\ Woken' /\ PendingAhead'
  BY <1>1 DEF IInv, LoopInv, OrchShape, GotIsNext, StoreIsFinal, Woken, PendingAhead,
              Message, next, At
<1> QED BY <1>4, <1>5 DEF IInv, LoopInv

LEMMA CrashInv == ASSUME IInv, Crash PROVE IInv'
<1> USE DEF Crash
<1>1. TypeOK'
  <2>1. orch' \in Seq(Orchestration) /\ mailbox' \in Seq(Requests)
    OBVIOUS
  <2>2. wake' \in 0..WakeCapacity /\ crashes' \in 0..MaxCrashes
    BY FinalizerAssumption DEF IInv, TypeOK
  <2> QED BY <2>1, <2>2 DEF IInv, TypeOK, Positions
<1>2. OrchShape' /\ GotIsNext' /\ StoreIsFinal' /\ Woken' /\ PendingAhead'
  BY DEF IInv, LoopInv, OrchShape, GotIsNext, StoreIsFinal, Woken, PendingAhead
<1> QED BY <1>1, <1>2 DEF IInv, LoopInv

LEMMA LoseBlockInv == ASSUME IInv, NEW h \in Heights, LoseBlock(h) PROVE IInv'
<1> USE DEF LoseBlock, execution, requests, lifetime
<1>1. blocks \in Archive(Heights) /\ blocks' \in Archive(Heights)
  BY LoseType DEF IInv, TypeOK
<1>2. TypeOK'
  BY <1>1 DEF IInv, TypeOK
<1>3. \A i \in Heights : blocks'[i] \in {None, blocks[i]}
  BY <1>1 DEF Archive
<1>4. StoreIsFinal'
  BY <1>3 DEF IInv, LoopInv, StoreIsFinal
<1>5. next' = next /\ (At(blocks, next)' # None => At(blocks, next) # None)
  BY <1>1, <1>3 DEF next, At, Archive
<1>6. OrchShape' /\ GotIsNext' /\ Woken' /\ PendingAhead'
  BY <1>5 DEF IInv, LoopInv, OrchShape, GotIsNext, Woken, PendingAhead, Message
<1> QED BY <1>2, <1>4, <1>6 DEF IInv, LoopInv

LEMMA QuietInv == ASSUME IInv, Restart \/ UNCHANGED vars PROVE IInv'
<1> USE DEF Restart, vars, shared, execution, requests, lifetime
<1>1. TypeOK'
  BY DEF IInv, TypeOK
<1>2. OrchShape' /\ GotIsNext' /\ StoreIsFinal' /\ Woken' /\ PendingAhead'
  BY DEF IInv, LoopInv, OrchShape, GotIsNext, StoreIsFinal, Woken, PendingAhead,
         Message, next, At
<1> QED BY <1>1, <1>2 DEF IInv, LoopInv

LEMMA NextInv == ASSUME IInv, [Next]_vars PROVE IInv'
<1>1. CASE Loop
  BY <1>1, SendGetInv, ExecuteInv, PersistInv, SendProcessedInv, SendRepairInv,
     TakeRequestInv, TakeWakeInv DEF Loop
<1>2. CASE Syncer
  BY <1>2, AnswerGetInv, TakeProcessedInv, NotRepairedInv, StoreInv, RepairedInv DEF Syncer
<1>3. CASE Proposer
  BY <1>3, AskInv, CallInv DEF Proposer
<1>4. CASE Environment
  BY <1>4, CrashInv, QuietInv, LoseBlockInv DEF Environment
<1>5. CASE UNCHANGED vars
  BY <1>5, QuietInv
<1> QED BY <1>1, <1>2, <1>3, <1>4, <1>5 DEF Next

LEMMA Invariance == Spec => []IInv
BY InitInv, NextInv, PTL DEF Spec

-----------------------------------------------------------------------------
\* Every reachable state is well typed: in particular the finalizer's copy of the
\* index is the durable one at every await, a crash in between included.
THEOREM TypeCorrect == Spec => []TypeOK
<1>1. IInv => TypeOK
  BY DEF IInv
<1> QED BY <1>1, Invariance, PTL

\* No proposer stays registered for a height that is executed.
THEOREM NobodyLeftBehind == Spec => []PendingAhead
<1>1. IInv => PendingAhead
  BY DEF IInv
<1> QED BY <1>1, Invariance, PTL

\* The finalizer never sleeps on a block that arrived after it last asked.
THEOREM WakeupsAreKept == Spec => []NoLostWakeup
<1>1. IInv => NoLostWakeup
  BY FinalizerAssumption DEF IInv, LoopInv, TypeOK, Woken, NoLostWakeup
<1> QED BY <1>1, Invariance, PTL

\* It asks for a repair with a block in its hand only if the execution client refused one.
EmptyHanded == refusals = 0 /\ pc \in {"repair", "repairing", "wait"} => got = None

LEMMA NextEmptyHanded == ASSUME IInv, EmptyHanded, [Next]_vars PROVE EmptyHanded'
<1> USE DEF EmptyHanded, Goto, shared, requests, execution, lifetime
<1>1. CASE RefusePayload
  <2>1. refusals \in Nat
    BY DEF IInv, TypeOK
  <2> QED BY <1>1, <2>1 DEF RefusePayload
<1>2. CASE SendGet \/ CheckPayload \/ CommitHash \/ Publish \/ Persist \/ SendProcessed
  BY <1>2 DEF SendGet, CheckPayload, CommitHash, Publish, Persist, SendProcessed
<1>3. CASE SendRepair \/ TakeRequest \/ TakeWake
  BY <1>3 DEF SendRepair, TakeRequest, TakeWake
<1>4. CASE AnswerGet
  BY <1>4 DEF AnswerGet
<1>5. CASE NotRepaired
  BY <1>5, RepairReceived DEF NotRepaired, Receive
<1>6. CASE TakeProcessed \/ \E h \in Heights : Store(h) \/ Repaired(h)
  BY <1>6 DEF TakeProcessed, Receive, Store, Repaired
<1>7. CASE Proposer \/ Environment
  BY <1>7 DEF Proposer, Ask, StartBuilding, UpdateHead, Environment, Crash, Restart, LoseBlock
<1>8. CASE UNCHANGED vars
  BY <1>8 DEF vars
<1> QED BY <1>1, <1>2, <1>3, <1>4, <1>5, <1>6, <1>7, <1>8 DEF Next, Loop, Syncer

\* Nothing but a refused payload strands it: while the execution client has refused none,
\* the finalizer that waits unnotified has nothing to do, in every order of arrivals,
\* requests, crashes and losses.
THEOREM OnlyRefusalsStrand == Spec => [](refusals = 0 => WaitsOnlyWhenIdle)
<1>1. Init => EmptyHanded
  BY DEF Init, EmptyHanded
<1>2. IInv /\ EmptyHanded => (refusals = 0 => WaitsOnlyWhenIdle)
  BY DEF IInv, LoopInv, Woken, EmptyHanded, WaitsOnlyWhenIdle
<1> QED BY <1>1, <1>2, InitInv, NextInv, NextEmptyHanded, PTL DEF Spec

-----------------------------------------------------------------------------
(* The forkchoice shared with the application.                             *)

LEMMA HeightType == ASSUME NEW b \in Block \union {Genesis} PROVE HeightOf(b) \in Nat
BY ChainAssumption DEF HeightOf, Heights

\* The forkchoice is published before the height is recorded, and only a crash takes it
\* back; a call keeps what its proposer has read.
LEMMA NextForkchoice == ASSUME IInv, ForkchoiceInv, [Next]_vars PROVE ForkchoiceInv'
<1> USE DEF ForkchoiceInv, ForkchoiceAhead, AnsweredIndexed, PublishedGot, CallsCaughtUp, CaughtUp
<1>1. /\ TypeOK /\ GotIsNext /\ last_indexed \in Nat /\ crashes \in Nat
      /\ answered \subseteq Requests /\ \A r \in Requests : r.height \in Int
      /\ calls \subseteq Calls /\ \A c \in Calls : c.height \in Int
  BY DEF IInv, LoopInv, TypeOK, Requests, Calls
<1>2. CASE Publish
  <2>1. next \in Heights /\ forkchoice' = Final[next] /\ got' = forkchoice'
    BY <1>1, <1>2 DEF Publish, Goto, GotIsNext
  <2>2. HeightOf(forkchoice') = next
    BY <2>1, FinalFacts DEF HeightOf
  <2>3. UNCHANGED <<last_indexed, answered, calls, crashes>>
    BY <1>2 DEF Publish, requests, lifetime
  <2> QED BY <1>1, <2>1, <2>2, <2>3 DEF next
<1>3. CASE Persist
  <2>1. next \in Heights /\ forkchoice = Final[next]
    BY <1>1, <1>3 DEF Persist, Goto, GotIsNext
  <2>2. HeightOf(forkchoice) = next
    BY <2>1, FinalFacts DEF HeightOf
  <2>3. /\ last_indexed' = next /\ forkchoice' = forkchoice /\ pc' = "processed"
        /\ calls' = calls /\ crashes' = crashes
        /\ \A r \in answered' : r \in answered \/ r.height <= next
    BY <1>3 DEF Persist, Goto, lifetime
  <2> QED BY <1>1, <2>2, <2>3 DEF next
<1>4. CASE TakeRequest
  <2>1. /\ UNCHANGED <<last_indexed, forkchoice, crashes, calls>> /\ pc' = "top"
        /\ \A r \in answered' : r \in answered \/ r.height <= last_indexed
    <3>1. Head(mailbox) \in Requests
      BY <1>1, <1>4 DEF TakeRequest, TypeOK
    <3> QED BY <1>1, <1>4, <3>1 DEF TakeRequest, Goto, execution, lifetime
  <2> QED BY <2>1
<1>5. CASE \E r \in answered : StartBuilding(r)
  <2>1. PICK r \in answered : StartBuilding(r)
    BY <1>5
  <2>2. r.height <= last_indexed /\ r.height \in Int
    BY <1>1
  <2>3. HeightOf(forkchoice) \in Nat
    BY <1>1, HeightType DEF TypeOK
  <2>4. CaughtUp(r.height, forkchoice)
    BY <1>1, <2>2, <2>3
  <2>5. /\ UNCHANGED <<last_indexed, forkchoice, crashes, pc, got>>
        /\ answered' \subseteq answered
        /\ calls' = calls \union {[id |-> r.id, height |-> r.height, head |-> forkchoice]}
    BY <2>1 DEF StartBuilding, execution, lifetime
  <2>6. CallsCaughtUp'
    BY <2>2, <2>4, <2>5
  <2> QED BY <2>5, <2>6
<1>6. CASE Crash
  <2>1. /\ last_indexed' = last_indexed /\ forkchoice' = Genesis /\ crashes' = crashes + 1
        /\ answered' = {} /\ calls' = calls /\ pc' = "top"
    BY <1>1, <1>6 DEF Crash, TypeOK
  <2> QED BY <1>1, <2>1
<1>7. CASE /\ UNCHANGED <<last_indexed, forkchoice, crashes, answered>>
           /\ calls' \subseteq calls
           /\ pc' # "persist" \/ UNCHANGED <<pc, got>>
  BY <1>7
<1>8. /\ UNCHANGED <<last_indexed, forkchoice, crashes, answered>>
      /\ calls' \subseteq calls
      /\ pc' # "persist" \/ UNCHANGED <<pc, got>>
      \/ Publish \/ Persist \/ TakeRequest \/ Crash \/ \E r \in answered : StartBuilding(r)
  BY DEF Next, Loop, Syncer, Proposer, Environment, SendGet, CheckPayload, RefusePayload,
         CommitHash, SendProcessed, SendRepair, TakeWake, AnswerGet, TakeProcessed, NotRepaired,
         Store, Repaired, Receive, Restart, Ask, UpdateHead, LoseBlock, Goto, vars, shared,
         execution, requests, lifetime
<1> QED BY <1>2, <1>3, <1>4, <1>5, <1>6, <1>7, <1>8

\* Between two crashes a released proposer finds its parent's execution in the forkchoice,
\* and sends it to the execution client; after one it may find and send genesis, no other.
THEOREM ForkchoiceKeepsUp == Spec => []ForkchoiceCaughtUp
<1>1. Init => ForkchoiceInv
  BY ChainAssumption
     DEF Init, ForkchoiceInv, ForkchoiceAhead, AnsweredIndexed, PublishedGot, CallsCaughtUp,
         HeightOf
<1>2. IInv /\ ForkchoiceInv => ForkchoiceCaughtUp
  <2> SUFFICES ASSUME IInv, ForkchoiceInv, HeightOf(forkchoice) >= last_indexed,
                      NEW r \in answered
               PROVE  r.height <= HeightOf(forkchoice)
    BY DEF ForkchoiceInv, ForkchoiceAhead, CallsCaughtUp, ForkchoiceCaughtUp, CaughtUp
  <2>1. r.height \in Int /\ last_indexed \in Int /\ forkchoice \in Block \union {Genesis}
    BY DEF IInv, TypeOK, Requests
  <2> QED BY <2>1, HeightType DEF ForkchoiceInv, AnsweredIndexed
<1>3. IInv /\ ForkchoiceInv /\ [Next]_vars => ForkchoiceInv'
  BY NextForkchoice
<1> QED BY Invariance, <1>1, <1>2, <1>3, PTL DEF Spec

\* The two entries the code gives the orchestrator's channel are enough for the
\* finalizer never to block on it.
THEOREM TwoEntriesSuffice ==
    ASSUME OrchCapacity >= 2
    PROVE  Spec => []OrchestratorNeverBlocks
<1>1. IInv => OrchestratorNeverBlocks
  <2> SUFFICES ASSUME IInv PROVE OrchestratorNeverBlocks
    OBVIOUS
  <2>1. OrchShape /\ orch \in Seq(Orchestration) /\ pc \in Positions
    BY DEF IInv, LoopInv, TypeOK
  <2>2. Len(orch) \in {0, 1, 2} /\ (Len(orch) = 2 => orch[1].type = "Processed")
    BY <2>1 DEF OrchShape
  <2>3. Len(orch) <= OrchCapacity
    <3>1. Len(orch) \in Nat /\ OrchCapacity \in Nat
      BY <2>1, FinalizerAssumption
    <3> QED BY <2>2, <3>1
  <2>4. \A i \in 1..Len(orch) : orch[i].type # "Processed" => i = Len(orch)
    <3> SUFFICES ASSUME NEW i \in 1..Len(orch), i # Len(orch)
                 PROVE  orch[i].type = "Processed"
      OBVIOUS
    <3>1. Len(orch) = 2 /\ i = 1
      <4>1. \A n \in {0, 1, 2} : \A j \in 1..n : j # n => n = 2 /\ j = 1
        OBVIOUS
      <4> QED BY <2>2, <4>1
    <3> QED BY <2>2, <3>1
  <2> QED BY <2>3, <2>4 DEF OrchestratorNeverBlocks
<1> QED BY <1>1, Invariance, PTL

-----------------------------------------------------------------------------
(* What is committed, and the heads that are about.                        *)

LEMMA NextCommits == ASSUME IInv, CommitsTrail, [Next]_vars PROVE CommitsTrail'
<1> DEFINE heads == {evm_head, forkchoice} \union {c.head : c \in calls}
<1>1. /\ GotIsNext /\ last_indexed = indexed /\ indexed \in 0..TopHeight /\ TopHeight \in Nat
      /\ committed \in Nat
  BY ChainAssumption DEF IInv, LoopInv, TypeOK
<1>2. CASE CommitHash
  <2>1. /\ next \in Heights /\ evm_head' = Final[next] /\ committed' = next
        /\ UNCHANGED <<forkchoice, calls, indexed>>
    BY <1>1, <1>2 DEF CommitHash, Goto, GotIsNext, requests
  <2>2. next \in 1..committed' /\ 1..committed \subseteq 1..committed'
    BY <1>1, <2>1 DEF CommitsTrail, Heights, next
  <2>3. heads' \subseteq heads \union {Final[next]}
    BY <2>1
  <2> QED BY <1>1, <2>1, <2>2, <2>3 DEF CommitsTrail, next
<1>3. CASE Publish
  <2>1. /\ committed = next /\ forkchoice' = Final[next] /\ next \in Heights
        /\ UNCHANGED <<evm_head, committed, calls, indexed>>
    BY <1>1, <1>3 DEF Publish, Goto, GotIsNext, requests
  <2>2. next \in 1..committed
    BY <2>1, ChainAssumption DEF Heights
  <2> QED BY <2>1, <2>2 DEF CommitsTrail
<1>4. CASE Persist
  BY <1>1, <1>4 DEF Persist, Goto, GotIsNext, CommitsTrail, next
<1>5. CASE Proposer \/ Crash
  <2>1. CASE \E h \in 0..TopHeight : Ask(h)
    BY <2>1 DEF Ask, execution, CommitsTrail
  <2>2. CASE \E r \in answered : StartBuilding(r)
    <3>1. /\ UNCHANGED <<evm_head, forkchoice, committed, indexed>>
          /\ \A c \in calls' : c \in calls \/ c.head = forkchoice
      BY <2>2 DEF StartBuilding, execution
    <3> QED BY <3>1 DEF CommitsTrail
  <2>3. CASE \E c \in calls : UpdateHead(c)
    <3>1. /\ UNCHANGED <<forkchoice, committed, indexed>> /\ calls' \subseteq calls
          /\ evm_head' = evm_head \/ \E c \in calls : evm_head' = c.head
      BY <2>3 DEF UpdateHead
    <3> QED BY <3>1 DEF CommitsTrail
  <2>4. CASE Crash
    <3>1. UNCHANGED <<evm_head, committed, indexed, calls>> /\ forkchoice' = Genesis
      BY <2>4 DEF Crash
    <3> QED BY <3>1 DEF CommitsTrail
  <2> QED BY <1>5, <2>1, <2>2, <2>3, <2>4 DEF Proposer
<1>6. \/ UNCHANGED <<evm_head, forkchoice, calls, committed, indexed>>
      \/ CommitHash \/ Publish \/ Persist \/ Proposer \/ Crash
  BY DEF Next, Loop, Syncer, Environment, SendGet, CheckPayload, RefusePayload, SendProcessed,
         SendRepair, TakeRequest, TakeWake, AnswerGet, TakeProcessed, NotRepaired, Store,
         Repaired, Receive, Restart, LoseBlock, vars, execution, requests
<1>7. CASE UNCHANGED <<evm_head, forkchoice, calls, committed, indexed>>
  BY <1>7 DEF CommitsTrail
<1> QED BY <1>2, <1>3, <1>4, <1>5, <1>6, <1>7

LEMMA Commits == Spec => []CommitsTrail
<1>1. Init => CommitsTrail
  BY DEF Init, CommitsTrail
<1> QED BY <1>1, Invariance, NextCommits, PTL DEF Spec

-----------------------------------------------------------------------------
(* The refinement of OrderedExecution.                                     *)

executed == <<evm_head, committed, indexed, answered>>

LEMMA CommitImplements == ASSUME IInv, CommitHash PROVE Execution!Execute
<1>1. next \in Heights /\ got = Final[next] /\ indexed = last_indexed
  BY DEF IInv, LoopInv, GotIsNext, TypeOK, CommitHash, Goto
<1>2. /\ evm_head' = Final[indexed + 1] /\ committed' = indexed + 1
      /\ UNCHANGED <<indexed, answered>>
  BY <1>1 DEF CommitHash, requests, next
<1>3. indexed < TopHeight
  BY <1>1, ChainAssumption DEF next, Heights, IInv, TypeOK
<1> QED BY <1>2, <1>3 DEF Execution!Execute

LEMMA PersistImplements == ASSUME IInv, Persist PROVE Execution!Record
<1>1. committed = next /\ indexed = last_indexed
  BY DEF IInv, LoopInv, GotIsNext, TypeOK, Persist, Goto
<1>2. committed = indexed + 1 /\ indexed' = indexed + 1 /\ UNCHANGED <<evm_head, committed>>
  BY <1>1 DEF Persist, next
<1>3. /\ answered \subseteq answered'
      /\ \A r \in answered' \ answered : r.height <= indexed'
  BY DEF Persist
<1> QED BY <1>2, <1>3 DEF Execution!Record, Execution!ReleaseUpTo

LEMMA TakeRequestImplements == ASSUME IInv, TakeRequest PROVE Execution!Release
<1>1. indexed = last_indexed /\ indexed \in Int
  BY ChainAssumption DEF IInv, TypeOK
<1>2. Head(mailbox).height \in Int
  <2>1. Head(mailbox) \in Requests
    BY DEF IInv, TypeOK, TakeRequest
  <2> QED BY <2>1, ChainAssumption DEF Requests
<1>3. /\ answered \subseteq answered'
      /\ \A r \in answered' \ answered : r.height <= indexed
  BY <1>1, <1>2 DEF TakeRequest
<1> QED BY <1>3 DEF TakeRequest, execution, Execution!Release, Execution!ReleaseUpTo

\* The proposer's own steps: it goes on, and its call sets the client back.
LEMMA ProposerImplements ==
    ASSUME CommitsTrail, Proposer
    PROVE  Execution!Forget \/ Execution!Rewind \/ UNCHANGED executed
<1>1. CASE \E h \in 0..TopHeight : Ask(h)
  BY <1>1 DEF Ask, execution, executed
<1>2. CASE \E r \in answered : StartBuilding(r)
  BY <1>2 DEF StartBuilding, execution, Execution!Forget
<1>3. CASE \E c \in calls : UpdateHead(c)
  <2>1. evm_head' \in Execution!Committed
    BY <1>3 DEF UpdateHead, CommitsTrail, Execution!Committed
  <2> QED BY <1>3, <2>1 DEF UpdateHead, Execution!Rewind
<1> QED BY <1>1, <1>2, <1>3 DEF Proposer

LEMMA StepImplements == ASSUME IInv, CommitsTrail, [Next]_vars PROVE [Execution!Next]_executed
<1> USE DEF executed
<1>1. CASE Loop
  <2>1. CASE CommitHash
    BY <2>1, CommitImplements DEF Execution!Next
  <2>2. CASE Persist
    BY <2>2, PersistImplements DEF Execution!Next
  <2>3. CASE TakeRequest
    BY <2>3, TakeRequestImplements DEF Execution!Next
  <2>4. CASE SendGet \/ CheckPayload \/ RefusePayload \/ Publish \/ SendProcessed
             \/ SendRepair \/ TakeWake
    BY <2>4 DEF SendGet, CheckPayload, RefusePayload, Publish, SendProcessed, SendRepair,
                TakeWake, execution, requests
  <2> QED BY <1>1, <2>1, <2>2, <2>3, <2>4 DEF Loop
<1>2. CASE Syncer
  BY <1>2 DEF Syncer, AnswerGet, TakeProcessed, NotRepaired, Receive, Store, Repaired,
              execution, requests
<1>3. CASE Proposer
  BY <1>3, ProposerImplements DEF Execution!Next
<1>4. CASE Environment
  <2>1. CASE Crash
    BY <2>1 DEF Crash, Execution!Next, Execution!Forget
  <2>2. CASE Restart \/ \E h \in Heights : LoseBlock(h)
    BY <2>2 DEF Restart, LoseBlock, execution, requests
  <2> QED BY <1>4, <2>1, <2>2 DEF Environment
<1>5. CASE UNCHANGED vars
  BY <1>5 DEF vars, execution, requests
<1> QED BY <1>1, <1>2, <1>3, <1>4, <1>5 DEF Next

\* The finalizer implements OrderedExecution: the execution client is had to commit the final
\* chain one block at a time, the durable index trails that by at most one block, a proposer
\* is released only once its height is recorded, and what the proposers send to the client,
\* early or late, sets it back to nothing but a committed block or genesis.
THEOREM Refinement == Spec => ExecutesInOrder
<1>1. Init => Execution!Init
  BY DEF Init, Execution!Init
<1>2. IInv /\ CommitsTrail /\ [Next]_vars => [Execution!Next]_executed
  BY StepImplements
<1> QED BY <1>1, <1>2, Invariance, Commits, PTL
        DEF Spec, ExecutesInOrder, Execution!Spec, executed

ExecutedFirst ==
    /\ \A r \in answered \union calls : r.height <= committed
    /\ committed \in {indexed, indexed + 1}
    /\ evm_head \in {Genesis} \union {Final[h] : h \in 1..committed}

\* A proposer is released only when the finalizer has had the execution client commit the
\* height it asked for, and so it is when the client hears of the proposer's own call, in
\* this run of the node or a later one; the client is never had to commit more than the block
\* after the durable index, nor is its head one that it was not had to commit - though it may
\* be an older one, and genesis again, by what a released proposer sends.
THEOREM ReleasedIsExecuted == Spec => []ExecutedFirst
<1>1. Init => ForkchoiceInv
  BY ChainAssumption
     DEF Init, ForkchoiceInv, ForkchoiceAhead, AnsweredIndexed, PublishedGot, CallsCaughtUp,
         HeightOf
<1>2. IInv /\ ForkchoiceInv /\ CommitsTrail => ExecutedFirst
  <2> SUFFICES ASSUME IInv, ForkchoiceInv, CommitsTrail PROVE ExecutedFirst
    OBVIOUS
  <2>1. /\ indexed \in 0..TopHeight /\ last_indexed = indexed /\ TopHeight \in Nat
        /\ \A r \in answered \union calls : r.height \in Int
    BY ChainAssumption DEF IInv, TypeOK, Requests, Calls
  <2>2. \A r \in answered \union calls : r.height <= last_indexed
    BY DEF ForkchoiceInv, AnsweredIndexed, CallsCaughtUp
  <2>3. committed \in {indexed, indexed + 1}
    BY DEF CommitsTrail
  <2> QED BY <2>1, <2>2, <2>3 DEF CommitsTrail, ExecutedFirst
<1> QED BY <1>1, <1>2, NextForkchoice, Invariance, Commits, PTL DEF Spec
=============================================================================
