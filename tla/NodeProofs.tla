------------------------------ MODULE NodeProofs ------------------------------
(***************************************************************************)
(* That the two tasks agree by the order of their channel alone, and that  *)
(* a node behaves as the models of its syncer and of its finalizer say,    *)
(* for every chain, every interleaving of the two and every crash.         *)
(***************************************************************************)
EXTENDS Node, SequenceTheorems, TLAPS

Proc == [type |-> "Processed", next |-> indexed]
Req(type) == [type |-> type, next |-> indexed + 1]

\* What is on its way to the syncer, and how far behind it is, by where the finalizer
\* stands.
ChannelInv ==
    /\ pc = "top" => \/ orch = <<>> /\ processed = indexed
                     \/ orch = <<Proc>> /\ processed = indexed - 1
    /\ pc = "getting" => \/ orch = <<Req("Get")>> /\ processed = indexed
                         \/ orch = <<Proc, Req("Get")>> /\ processed = indexed - 1
    /\ pc = "repairing" => orch = <<Req("Repair")>> /\ processed = indexed
    /\ pc = "processed" => orch = <<>> /\ processed = indexed - 1
    /\ pc \notin {"top", "getting", "repairing", "processed"}
           => orch = <<>> /\ processed = indexed

\* The finalizer executes a block that the syncer has, and keeps while it runs.
Executing == pc \in {"check", "commit", "publish", "persist"}
HasNext == Executing => indexed + 1 \in Heights /\ blocks[indexed + 1] # None

OrderInv ==
    /\ indexed \in Nat /\ last_indexed = indexed /\ DOMAIN blocks = Heights
    /\ ~up => pc = "top" /\ orch = <<>>
    /\ ChannelInv /\ HasNext

LEMMA InitOrder == Init => OrderInv
BY DEF Init, S!Init, F!Init, OrderInv, ChannelInv, HasNext, Executing, S!Empty, S!Heights, Heights

LEMMA ShortQueues ==
    ASSUME NEW a, NEW b
    PROVE  /\ Append(<<>>, a) = <<a>> /\ Append(<<a>>, b) = <<a, b>>
           /\ Head(<<a>>) = a /\ Tail(<<a>>) = <<>> /\ <<a>> # <<>>
           /\ Head(<<a, b>>) = a /\ Tail(<<a, b>>) = <<b>> /\ <<a, b>> # <<>>
<1>1. Append(<<>>, a) = <<a>>
  OBVIOUS
<1>2. Append(<<a>>, b) = <<a, b>>
  <2> DEFINE s == Append(<<a>>, b)
  <2>1. <<a>> \in Seq({a, b}) /\ <<a, b>> \in Seq({a, b}) /\ Len(<<a>>) = 1
    OBVIOUS
  <2>2. s \in Seq({a, b}) /\ Len(s) = 2 /\ s[1] = a /\ s[2] = b
    BY <2>1, AppendProperties
  <2> DEFINE t == <<a, b>>
  <2>3. Len(t) = 2 /\ t[1] = a /\ t[2] = b /\ t \in Seq({a, b})
    OBVIOUS
  <2> HIDE DEF s, t
  <2>4. Len(s) = Len(t) /\ \A i \in 1..Len(s) : s[i] = t[i]
    BY <2>2, <2>3
  <2>5. s = t
    BY <2>2, <2>3, <2>4, SeqEqual
  <2> QED BY <2>5 DEF s, t
<1>3. Head(<<a>>) = a /\ Head(<<a, b>>) = a
  OBVIOUS
<1>4. Tail(<<a>>) = <<>>
  OBVIOUS
<1>5. Tail(<<a, b>>) = <<b>>
  OBVIOUS
<1>6. <<a>> # <<>> /\ <<a, b>> # <<>>
  OBVIOUS
<1> QED BY <1>1, <1>2, <1>3, <1>4, <1>5, <1>6

-----------------------------------------------------------------------------
(* The finalizer's own steps.                                              *)

LEMMA LoopOrder ==
    ASSUME OrderInv, FinalizerStep
    PROVE  OrderInv' /\ (S!Index \/ S!TakeWake \/ UNCHANGED S!vars)
<1> USE DEF F!Goto, F!shared, F!execution, F!requests, F!lifetime
<1>1. /\ UNCHANGED <<verified, notarized, oldest, finalized, latest_view, last_view_processed,
                     outstanding_notarize, requested_blocks, buffer, waiters, fetching,
                     delivery, processed>>
      /\ F!Loop
  BY DEF FinalizerStep, syncerOwn
<1>2. /\ up /\ up' = up /\ crashes' = crashes /\ blocks' = blocks
      /\ indexed \in Nat /\ last_indexed = indexed /\ DOMAIN blocks = Heights
  BY <1>1 DEF F!Loop, F!SendGet, F!CheckPayload, F!RefusePayload, F!CommitHash, F!Publish,
     F!Persist, F!SendProcessed, F!SendRepair, F!TakeRequest, F!TakeWake, OrderInv
<1>3. wake' = wake /\ indexed' = indexed => UNCHANGED S!vars
  BY <1>1, <1>2 DEF S!vars, S!archives, S!memory, S!resolver, S!broadcast, S!client, S!lifetime
<1>4. CASE F!SendGet
  <2>1. /\ pc = "top" /\ pc' = "getting" /\ orch' = Append(orch, Req("Get"))
        /\ UNCHANGED <<indexed, last_indexed, wake>>
    BY <1>2, <1>4 DEF F!SendGet, F!Message, F!next, Req
  <2>2. \/ orch' = <<Req("Get")>> /\ processed = indexed
        \/ orch' = <<Proc, Req("Get")>> /\ processed = indexed - 1
    BY <2>1, ShortQueues DEF OrderInv, ChannelInv
  <2>3. ChannelInv'
    BY <1>1, <2>1, <2>2 DEF ChannelInv, Proc, Req
  <2> QED BY <1>2, <1>3, <2>1, <2>3 DEF OrderInv, HasNext, Executing
<1>5. CASE F!CheckPayload \/ F!RefusePayload \/ F!CommitHash \/ F!Publish
  <2>1. /\ \/ pc = "check" /\ pc' \in {"commit", "repair"}
           \/ pc = "commit" /\ pc' = "publish"
           \/ pc = "publish" /\ pc' = "persist"
        /\ UNCHANGED <<orch, indexed, last_indexed, wake>>
    BY <1>5 DEF F!CheckPayload, F!RefusePayload, F!CommitHash, F!Publish
  <2>2. ChannelInv'
    BY <1>1, <2>1 DEF OrderInv, ChannelInv
  <2>3. HasNext'
    BY <1>2, <2>1 DEF OrderInv, HasNext, Executing
  <2> QED BY <1>2, <1>3, <2>1, <2>2, <2>3 DEF OrderInv
<1>6. CASE F!Persist
  <2>1. /\ pc = "persist" /\ pc' = "processed" /\ indexed' = indexed + 1
        /\ last_indexed' = indexed + 1 /\ UNCHANGED <<orch, wake>>
    BY <1>2, <1>6 DEF F!Persist, F!next
  <2>2. orch = <<>> /\ processed = indexed /\ indexed + 1 \in Heights /\ blocks[indexed + 1] # None
    BY <2>1 DEF OrderInv, ChannelInv, HasNext, Executing
  <2>3. OrderInv'
    BY <1>1, <1>2, <2>1, <2>2 DEF OrderInv, ChannelInv, HasNext, Executing
  <2>4. S!OrchestrationGet(indexed + 1) # None
    BY <1>2, <2>2 DEF S!OrchestrationGet, S!At
  <2>5. S!Index
    BY <1>1, <1>2, <2>1, <2>2, <2>4
       DEF S!Index, S!archives, S!memory, S!resolver, S!broadcast, S!lifetime
  <2> QED BY <2>3, <2>5
<1>7. CASE F!SendProcessed
  <2>1. /\ pc = "processed" /\ pc' = "top" /\ orch' = Append(orch, Proc)
        /\ UNCHANGED <<indexed, last_indexed, wake>>
    BY <1>2, <1>7 DEF F!SendProcessed, Proc
  <2>2. orch' = <<Proc>> /\ processed = indexed - 1
    BY <2>1, ShortQueues DEF OrderInv, ChannelInv
  <2>3. ChannelInv'
    BY <1>1, <2>1, <2>2 DEF ChannelInv, Proc, Req
  <2> QED BY <1>2, <1>3, <2>1, <2>3 DEF OrderInv, HasNext, Executing
<1>8. CASE F!SendRepair
  <2>1. /\ pc = "repair" /\ pc' = "repairing" /\ orch' = Append(orch, Req("Repair"))
        /\ UNCHANGED <<indexed, last_indexed, wake>>
    BY <1>2, <1>8 DEF F!SendRepair, F!Message, F!next, Req
  <2>2. orch' = <<Req("Repair")>> /\ processed = indexed
    BY <2>1, ShortQueues DEF OrderInv, ChannelInv
  <2>3. ChannelInv'
    BY <1>1, <2>1, <2>2 DEF ChannelInv, Proc, Req
  <2> QED BY <1>2, <1>3, <2>1, <2>3 DEF OrderInv, HasNext, Executing
<1>9. CASE F!TakeRequest \/ F!TakeWake
  <2>1. /\ pc = "wait" /\ pc' = "top" /\ UNCHANGED <<orch, indexed, last_indexed>>
    BY <1>9 DEF F!TakeRequest, F!TakeWake
  <2>2. orch = <<>> /\ processed = indexed
    BY <2>1 DEF OrderInv, ChannelInv
  <2>3. OrderInv'
    BY <1>1, <1>2, <2>1, <2>2 DEF OrderInv, ChannelInv, HasNext, Executing
  <2>4. wake' = wake \/ S!TakeWake
    BY <1>1, <1>2, <1>9, <2>1
       DEF F!TakeRequest, F!TakeWake, S!TakeWake, S!archives, S!resolver, S!broadcast, S!client,
           S!lifetime
  <2> QED BY <1>3, <2>1, <2>3, <2>4
<1> QED BY <1>1, <1>4, <1>5, <1>6, <1>7, <1>8, <1>9 DEF F!Loop

-----------------------------------------------------------------------------
(* The syncer's own steps: what they store is final.                       *)

\* Only final blocks are asked for by their digest.
Fetchable == {S!NotarizedKey(v) : v \in Views} \union {S!FinalizedKey(h) : h \in Heights}
                 \union {S!DigestKey(b) : b \in FinalBlocks}
KeysInv == fetching \subseteq Fetchable /\ (delivery # None => delivery.key \in Fetchable)
StoreIsFinal == DOMAIN blocks = Heights /\ \A h \in Heights : blocks[h] \in {None, Final[h]}
FinalInv == KeysInv /\ StoreIsFinal

\* A final block is stored, with a notification; or nothing the finalizer sees happens.
StoresAt(h) == /\ blocks' = Put(blocks, h, Final[h])
               /\ wake' = IF wake < WakeCapacity THEN wake + 1 ELSE wake
Stores == /\ up /\ UNCHANGED <<indexed, processed, up, crashes>>
          /\ (\E h \in Heights : StoresAt(h)) \/ UNCHANGED <<blocks, wake>>

LEMMA FinalBlock ==
    ASSUME NEW b \in FinalBlocks
    PROVE  b \in Block /\ heightOf[b] \in Heights /\ Final[heightOf[b]] = b /\ viewOf[b] \in Views
<1>1. PICK h \in Heights : b = Final[h]
  BY DEF FinalBlocks
<1>2. Final[h] \in Block
  BY ChainAssumption
<1> QED BY <1>1, <1>2, ChainAssumption

LEMMA FinalHeight ==
    ASSUME NEW h \in Heights
    PROVE  Final[h] \in FinalBlocks /\ heightOf[Final[h]] = h /\ Final[h] # None
<1>1. Final[h] \in Block
  BY ChainAssumption
<1> QED BY <1>1, ChainAssumption DEF FinalBlocks

LEMMA TurnKeys ==
    ASSUME KeysInv, NEW latest, NEW outstanding, NEW fetched \in SUBSET Fetchable, NEW cancelled,
           S!Turn(latest, outstanding, fetched, cancelled)
    PROVE  KeysInv'
<1>1. fetching' \subseteq fetching \union fetched
  BY DEF S!Turn
<1>2. delivery' # None => delivery # None /\ delivery'.key = delivery.key
  BY DEF S!Turn
<1> QED BY <1>1, <1>2 DEF KeysInv

LEMMA PutKeepsFinal ==
    ASSUME StoreIsFinal, NEW h \in Heights, blocks' = Put(blocks, h, Final[h])
    PROVE  StoreIsFinal' /\ \A i \in Heights : blocks[i] # None => blocks'[i] = blocks[i]
BY DEF StoreIsFinal, Put

LEMMA MailboxStores == ASSUME FinalInv, S!Mailbox PROVE KeysInv' /\ Stores
<1> PICK b \in Block : \/ \E view \in {None, viewOf[b]} : S!Get(view, b)
                       \/ S!Broadcast(b) \/ S!StoreVerified(b) \/ S!Finalize(b) \/ S!Notarize(b)
  BY DEF S!Mailbox
<1> USE DEF S!client, S!lifetime
<1>1. KeysInv /\ StoreIsFinal /\ viewOf[b] \in Views
  BY ChainAssumption DEF FinalInv
<1>2. S!NotarizedKey(viewOf[b]) \in Fetchable
  BY <1>1 DEF Fetchable
<1>3. ASSUME NEW view \in {None, viewOf[b]}, S!Get(view, b) PROVE KeysInv' /\ Stores
  <2> DEFINE keys == IF view = None THEN {} ELSE {S!NotarizedKey(view)}
  <2>1. keys \in SUBSET Fetchable
    BY <1>2
  <2>2. S!Turn(latest_view, outstanding_notarize, keys, {}) /\ Stores
    BY <1>3 DEF S!Get, S!FetchAndTurn, S!archives, Stores
  <2> HIDE DEF keys
  <2> QED BY <1>1, <2>1, <2>2, TurnKeys
<1>4. CASE S!Broadcast(b) \/ S!StoreVerified(b)
  <2>1. UNCHANGED <<fetching, delivery>> /\ Stores
    BY <1>4 DEF S!Broadcast, S!StoreVerified, S!archives, S!memory, S!resolver, Stores
  <2> QED BY <1>1, <2>1 DEF KeysInv
<1>5. CASE S!Notarize(b)
  <2>1. Stores
    BY <1>5 DEF S!Notarize, Stores
  <2>2. \/ UNCHANGED <<fetching, delivery>>
        \/ \E outstanding : S!Turn(latest_view, outstanding, {S!NotarizedKey(viewOf[b])}, {})
    BY <1>5 DEF S!Notarize, S!resolver
  <2> QED BY <1>1, <1>2, <2>1, <2>2, TurnKeys DEF KeysInv
<1>6. CASE S!Finalize(b)
  <2>1. b \in FinalBlocks /\ up /\ UNCHANGED <<indexed, processed, up, crashes>>
    BY <1>6, NodeAssumption DEF S!Finalize
  <2>2. heightOf[b] \in Heights /\ Final[heightOf[b]] = b /\ S!DigestKey(b) \in Fetchable
    BY <2>1, FinalBlock DEF Fetchable
  <2>3. \/ /\ blocks' = S!Put(blocks, heightOf[b], b) /\ S!Wake
           /\ S!Turn(viewOf[b], outstanding_notarize, {}, {})
        \/ /\ S!FetchAndTurn({S!DigestKey(b)}) /\ UNCHANGED <<blocks, wake>>
    BY <1>6 DEF S!Finalize, S!archives
  <2>4. Stores
    BY <2>1, <2>2, <2>3 DEF Stores, StoresAt, S!Put, Put, S!Wake
  <2>5. \E latest, outstanding : \E fetched \in SUBSET Fetchable :
            S!Turn(latest, outstanding, fetched, {})
    BY <2>2, <2>3 DEF S!FetchAndTurn
  <2> QED BY <1>1, <2>4, <2>5, TurnKeys
<1> QED BY <1>3, <1>4, <1>5, <1>6

LEMMA DeliverStores == ASSUME FinalInv, S!Deliver PROVE KeysInv' /\ Stores
<1> USE DEF S!client, S!lifetime
<1>1. KeysInv /\ StoreIsFinal
  BY DEF FinalInv
<1>2. CASE S!Reject
  <2>1. /\ Stores /\ delivery # None /\ delivery' = None
        /\ fetching' \subseteq fetching \union {delivery.key}
    BY <1>2 DEF S!Reject, S!archives, S!memory, Stores
  <2> QED BY <1>1, <2>1 DEF KeysInv
<1>3. ASSUME NEW ans \in S!Answers, S!Accept(ans) PROVE KeysInv' /\ Stores
  <2> DEFINE k == delivery.key
  <2>1. /\ up /\ delivery # None /\ delivery' = None /\ fetching' = fetching
        /\ UNCHANGED <<indexed, processed, up, crashes>> /\ S!Accepts(k, ans)
    BY <1>3 DEF S!Accept
  <2>2. KeysInv' /\ k \in Fetchable
    BY <1>1, <2>1 DEF KeysInv
  <2>3. \/ k[1] = "Notarized" /\ UNCHANGED <<blocks, wake>>
        \/ k[1] = "Finalized" /\ blocks' = S!Put(blocks, k[2], ans.block) /\ S!Wake
        \/ k[1] = "Digest" /\ blocks' = S!Put(blocks, heightOf[ans.block], ans.block) /\ S!Wake
    BY <1>3 DEF S!Accept
  <2>4. k[1] = "Finalized" => ans.block \in FinalBlocks /\ heightOf[ans.block] = k[2]
    BY <2>1 DEF S!Accepts, S!Decodes, S!Verifies, S!FinalBlocks, S!Heights, FinalBlocks, Heights
  <2>5. k[1] = "Digest" => ans.block \in FinalBlocks
    <3>1. k[1] = "Digest" => ans.block = k[2]
      BY <2>1 DEF S!Accepts
    <3>2. k[1] = "Digest" => \E b \in FinalBlocks : k = S!DigestKey(b)
      BY <2>2 DEF Fetchable, S!NotarizedKey, S!FinalizedKey, S!DigestKey
    <3> QED BY <3>1, <3>2 DEF S!DigestKey
  <2> HIDE DEF k
  <2>6. Stores
    BY <2>1, <2>3, <2>4, <2>5, FinalBlock DEF Stores, StoresAt, S!Put, Put, S!Wake
  <2> QED BY <2>2, <2>6
<1> QED BY <1>2, <1>3 DEF S!Deliver

LEMMA OthersStore ==
    ASSUME FinalInv, (\E k \in fetching : S!HandOver(k)) \/ \E b \in Block : S!Evict(b) \/ S!Abandon(b)
    PROVE  KeysInv' /\ Stores
<1> USE DEF S!client, S!lifetime, S!archives, S!memory, S!resolver
<1>1. Stores
  BY DEF S!HandOver, S!Evict, S!Abandon, Stores
<1>2. \/ UNCHANGED <<fetching, delivery>>
      \/ \E k \in fetching : fetching' = fetching \ {k} /\ delivery' = [key |-> k, kept |-> TRUE]
  BY DEF S!HandOver, S!Evict, S!Abandon
<1>3. KeysInv'
  BY <1>2 DEF FinalInv, KeysInv
<1> QED BY <1>1, <1>3

-----------------------------------------------------------------------------
(* Each step of the node is one of each model.                             *)

NodeInv == OrderInv /\ FinalInv
Both == [S!Next]_(S!vars) /\ [F!Next]_(F!vars)

FinalizerOwn == <<orch, pc, got, last_indexed, forkchoice, evm_head, committed, mailbox, pending,
                  answered, calls, asks, refusals>>

LEMMA StoresImplements ==
    ASSUME NodeInv, Stores, UNCHANGED FinalizerOwn
    PROVE  OrderInv' /\ StoreIsFinal' /\ [F!Next]_(F!vars)
<1> USE DEF FinalizerOwn
<1>1. StoreIsFinal' /\ \A i \in Heights : blocks[i] # None => blocks'[i] = blocks[i]
  <2>1. CASE UNCHANGED blocks
    BY <2>1 DEF NodeInv, FinalInv, StoreIsFinal
  <2> QED BY <2>1, PutKeepsFinal DEF Stores, StoresAt, NodeInv, FinalInv
<1>2. UNCHANGED <<orch, pc, last_indexed, indexed, processed, up, crashes>>
  BY DEF Stores
<1>3. ChannelInv' /\ HasNext'
  BY <1>1, <1>2 DEF NodeInv, OrderInv, ChannelInv, Proc, Req, HasNext, Executing
<1>4. OrderInv'
  BY <1>1, <1>2, <1>3 DEF NodeInv, OrderInv, StoreIsFinal
<1>5. CASE UNCHANGED <<blocks, wake>>
  <2>1. UNCHANGED F!vars
    BY <1>2, <1>5 DEF F!vars, F!shared, F!execution, F!requests, F!lifetime
  <2> QED BY <1>1, <1>4, <2>1
<1>6. ASSUME NEW h \in Heights, StoresAt(h) PROVE F!Next
  <2>1. F!Store(h)
    BY <1>2, <1>6 DEF Stores, StoresAt, F!Store, F!Put, Put, F!execution, F!requests, F!lifetime
  <2>2. h \in F!Heights
    BY DEF F!Heights, Heights
  <2> QED BY <2>1, <2>2 DEF F!Next, F!Syncer
<1> QED BY <1>1, <1>4, <1>5, <1>6 DEF Stores

LEMMA LoseImplements ==
    ASSUME NodeInv, S!Lose, UNCHANGED FinalizerOwn
    PROVE  NodeInv' /\ [F!Next]_(F!vars)
<1> USE DEF FinalizerOwn
<1>1. /\ UNCHANGED <<orch, pc, last_indexed, indexed, processed, up, crashes, wake, fetching, delivery>>
      /\ ~up
      /\ UNCHANGED blocks \/ \E h \in Heights : blocks' = [blocks EXCEPT ![h] = None]
  BY DEF S!Lose, S!LoseVerified, S!LoseNotarized, S!LoseFinalized, S!LoseBlock, S!memory,
     S!resolver, S!client, S!lifetime, S!Heights, Heights
<1>2. StoreIsFinal' /\ KeysInv'
  BY <1>1 DEF NodeInv, FinalInv, StoreIsFinal, KeysInv
<1>3. OrderInv'
  BY <1>1, <1>2
     DEF NodeInv, OrderInv, ChannelInv, Proc, Req, HasNext, Executing, StoreIsFinal
<1>4. UNCHANGED blocks => UNCHANGED F!vars
  BY <1>1 DEF F!vars, F!shared, F!execution, F!requests, F!lifetime
<1>5. ASSUME NEW h \in Heights, blocks' = [blocks EXCEPT ![h] = None] PROVE F!Next
  <2>1. F!LoseBlock(h) /\ h \in F!Heights
    BY <1>1, <1>5 DEF F!LoseBlock, F!execution, F!requests, F!lifetime, F!Heights, Heights
  <2> QED BY <2>1 DEF F!Next, F!Environment
<1> QED BY <1>1, <1>2, <1>3, <1>4, <1>5 DEF NodeInv, FinalInv

LEMMA SyncerImplements == ASSUME NodeInv, SyncerStep PROVE NodeInv' /\ Both
<1>1. UNCHANGED FinalizerOwn
  BY DEF SyncerStep, finalizerOwn, FinalizerOwn
<1>2. S!Next
  BY DEF SyncerStep, S!Next, S!Environment
<1>3. CASE S!Lose
  BY <1>1, <1>2, <1>3, LoseImplements DEF Both
<1>4. CASE ~S!Lose
  <2>1. KeysInv' /\ Stores
    BY <1>4, MailboxStores, DeliverStores, OthersStore DEF SyncerStep, NodeInv
  <2> QED BY <1>1, <1>2, <2>1, StoresImplements DEF Both, NodeInv, FinalInv
<1> QED BY <1>3, <1>4

LEMMA FinalizerImplements == ASSUME NodeInv, FinalizerStep PROVE NodeInv' /\ Both
<1>1. OrderInv' /\ (S!Index \/ S!TakeWake \/ UNCHANGED S!vars)
  BY LoopOrder DEF NodeInv
<1>2. UNCHANGED <<fetching, delivery, blocks>>
  BY DEF FinalizerStep, syncerOwn, F!Loop, F!SendGet, F!CheckPayload, F!RefusePayload,
     F!CommitHash, F!Publish, F!Persist, F!SendProcessed, F!SendRepair, F!TakeRequest, F!TakeWake,
     F!shared
<1>3. FinalInv'
  BY <1>2 DEF NodeInv, FinalInv, KeysInv, StoreIsFinal
<1>4. F!Next
  BY DEF FinalizerStep, F!Next
<1> QED BY <1>1, <1>3, <1>4 DEF NodeInv, Both, S!Next, S!Environment

LEMMA AskImplements == ASSUME NodeInv, Ask PROVE NodeInv' /\ Both
<1> USE DEF F!shared, F!execution, F!lifetime
<1>1. PICK h \in 0..TopHeight : F!Ask(h)
  BY NodeAssumption DEF Ask
<1>2. /\ UNCHANGED <<verified, notarized, oldest, finalized, latest_view, last_view_processed,
                     outstanding_notarize, requested_blocks, buffer, waiters, fetching,
                     delivery, processed>>
      /\ UNCHANGED <<blocks, wake, orch, pc, got, last_indexed, indexed, up, crashes>>
  BY <1>1 DEF Ask, syncerOwn, F!Ask
<1>3. UNCHANGED S!vars
  BY <1>2 DEF S!vars, S!archives, S!memory, S!resolver, S!broadcast, S!client, S!lifetime
<1>4. NodeInv'
  BY <1>2 DEF NodeInv, OrderInv, ChannelInv, Proc, Req, HasNext, Executing, FinalInv, KeysInv,
     StoreIsFinal
<1>5. F!Next
  BY <1>1 DEF F!Next, F!Proposer
<1> QED BY <1>3, <1>4, <1>5 DEF Both

LEMMA BuildImplements == ASSUME NodeInv, Build PROVE NodeInv' /\ Both
<1> USE DEF F!shared, F!execution, F!lifetime
<1>1. (\E r \in answered : F!StartBuilding(r)) \/ \E c \in calls : F!UpdateHead(c)
  BY DEF Build
<1>2. /\ UNCHANGED <<verified, notarized, oldest, finalized, latest_view, last_view_processed,
                     outstanding_notarize, requested_blocks, buffer, waiters, fetching,
                     delivery, processed>>
      /\ UNCHANGED <<blocks, wake, orch, pc, got, last_indexed, indexed, up, crashes>>
  BY <1>1 DEF Build, syncerOwn, F!StartBuilding, F!UpdateHead
<1>3. UNCHANGED S!vars
  BY <1>2 DEF S!vars, S!archives, S!memory, S!resolver, S!broadcast, S!client, S!lifetime
<1>4. NodeInv'
  BY <1>2 DEF NodeInv, OrderInv, ChannelInv, Proc, Req, HasNext, Executing, FinalInv, KeysInv,
     StoreIsFinal
<1>5. F!Next
  BY <1>1 DEF F!Next, F!Proposer
<1> QED BY <1>3, <1>4, <1>5 DEF Both

-----------------------------------------------------------------------------
(* The requests the syncer handles, in the order of the channel.           *)

\* What the first message tells of the two tasks.
LEMMA FirstMessage ==
    ASSUME OrderInv, orch # <<>>
    PROVE  /\ Head(orch) = Proc => /\ processed = indexed - 1
                                   /\ \/ pc = "top" /\ Tail(orch) = <<>>
                                      \/ pc = "getting" /\ Tail(orch) = <<Req("Get")>>
           /\ Head(orch) = Req("Get") => pc = "getting" /\ Tail(orch) = <<>> /\ processed = indexed
           /\ Head(orch) = Req("Repair") =>
                  pc = "repairing" /\ Tail(orch) = <<>> /\ processed = indexed
           /\ Head(orch) \in {Proc, Req("Get"), Req("Repair")}
<1>1. /\ Proc.type = "Processed" /\ Req("Get").type = "Get" /\ Req("Repair").type = "Repair"
      /\ Proc # Req("Get") /\ Proc # Req("Repair") /\ Req("Get") # Req("Repair")
  BY DEF Proc, Req
<1>2. pc \in {"top", "getting", "repairing"}
  BY DEF OrderInv, ChannelInv
<1>3. CASE pc = "top"
  BY <1>1, <1>3, ShortQueues DEF OrderInv, ChannelInv
<1>4. CASE pc = "getting"
  <2>1. CASE orch = <<Req("Get")>> /\ processed = indexed
    <3>1. Head(orch) = Req("Get") /\ Tail(orch) = <<>>
      BY <2>1, ShortQueues
    <3> QED BY <1>1, <1>4, <2>1, <3>1
  <2>2. CASE orch = <<Proc, Req("Get")>> /\ processed = indexed - 1
    <3>1. Head(orch) = Proc /\ Tail(orch) = <<Req("Get")>>
      BY <2>2, ShortQueues
    <3> QED BY <1>1, <1>4, <2>2, <3>1
  <2> QED BY <1>4, <2>1, <2>2 DEF OrderInv, ChannelInv
<1>5. CASE pc = "repairing"
  <2>1. orch = <<Req("Repair")>> /\ processed = indexed
    BY <1>5 DEF OrderInv, ChannelInv
  <2>2. Head(orch) = Req("Repair") /\ Tail(orch) = <<>>
    BY <2>1, ShortQueues
  <2> QED BY <1>1, <1>5, <2>1, <2>2
<1> QED BY <1>2, <1>3, <1>4, <1>5

LEMMA MessageIs ==
    ASSUME OrderInv, orch # <<>>
    PROVE  /\ Head(orch).type = "Processed" => Head(orch) = Proc
           /\ Head(orch).type = "Get" => Head(orch) = Req("Get")
           /\ Head(orch).type = "Repair" => Head(orch) = Req("Repair")
BY FirstMessage DEF Proc, Req

LEMMA GetImplements == ASSUME NodeInv, HandleGet PROVE NodeInv' /\ Both
<1> USE DEF F!execution, F!requests, F!lifetime
<1>1. /\ UNCHANGED <<verified, notarized, oldest, finalized, latest_view, last_view_processed,
                     outstanding_notarize, requested_blocks, buffer, waiters, fetching,
                     delivery, processed>>
      /\ UNCHANGED <<blocks, wake, last_indexed, indexed, up, crashes>>
      /\ up /\ orch # <<>> /\ Head(orch).type = "Get" /\ orch' = Tail(orch)
      /\ got' = F!At(blocks, Head(orch).next)
      /\ pc' = IF got' = None THEN "repair" ELSE "check"
  BY DEF HandleGet, syncerOwn, F!AnswerGet, F!Receive
<1>2. pc = "getting" /\ orch' = <<>> /\ processed = indexed /\ Head(orch).next = indexed + 1
  BY <1>1, FirstMessage, MessageIs DEF NodeInv, Req
<1>3. UNCHANGED S!vars
  BY <1>1 DEF S!vars, S!archives, S!memory, S!resolver, S!broadcast, S!client, S!lifetime
<1>4. HasNext'
  BY <1>1, <1>2 DEF NodeInv, OrderInv, HasNext, Executing, F!At
<1>5. NodeInv'
  BY <1>1, <1>2, <1>4 DEF NodeInv, OrderInv, ChannelInv, FinalInv, KeysInv, StoreIsFinal
<1>6. F!Next
  BY DEF HandleGet, F!Next, F!Syncer
<1> QED BY <1>3, <1>5, <1>6 DEF Both

LEMMA ProcessedImplements == ASSUME NodeInv, HandleProcessed PROVE NodeInv' /\ Both
<1> USE DEF F!execution, F!requests, F!lifetime
<1>1. /\ UNCHANGED <<blocks, wake, last_indexed, indexed, up, crashes, pc, got>>
      /\ up /\ orch # <<>> /\ Head(orch).type = "Processed" /\ orch' = Tail(orch)
      /\ processed' = processed + 1
  BY DEF HandleProcessed, F!TakeProcessed, F!Receive, S!Processed
<1>2. /\ processed = indexed - 1
      /\ \/ pc = "top" /\ orch' = <<>>
         \/ pc = "getting" /\ orch' = <<Req("Get")>>
  BY <1>1, FirstMessage, MessageIs DEF NodeInv
<1>3. processed' = indexed
  BY <1>1, <1>2 DEF NodeInv, OrderInv
<1>4. ChannelInv'
  BY <1>1, <1>2, <1>3 DEF ChannelInv, Req
<1>5. KeysInv'
  <2>1. {} \in SUBSET Fetchable /\ KeysInv
    BY DEF NodeInv, FinalInv
  <2>2. \E latest, outstanding, cancelled : S!Turn(latest, outstanding, {}, cancelled)
    BY DEF HandleProcessed, S!Processed
  <2> QED BY <2>1, <2>2, TurnKeys
<1>6. NodeInv'
  BY <1>1, <1>2, <1>4, <1>5 DEF NodeInv, OrderInv, HasNext, Executing, FinalInv, StoreIsFinal
<1>7. S!Next /\ F!Next
  BY DEF HandleProcessed, S!Next, S!Orchestrated, F!Next, F!Syncer
<1> QED BY <1>6, <1>7 DEF Both

LEMMA RepairImplements == ASSUME NodeInv, HandleRepair PROVE NodeInv' /\ Both
<1> USE DEF F!execution, F!requests, F!lifetime
<1>1. PICK repaired \in BOOLEAN :
          /\ F!Receive("Repair") /\ S!Repair(Head(orch).next, repaired)
          /\ IF repaired THEN pc' = "top" /\ got' = None ELSE pc' = "wait" /\ UNCHANGED got
  BY DEF HandleRepair
<1>2. /\ UNCHANGED <<wake, last_indexed, indexed, up, crashes>>
      /\ up /\ orch # <<>> /\ Head(orch).type = "Repair" /\ orch' = Tail(orch)
  BY <1>1 DEF F!Receive
<1>3. pc = "repairing" /\ orch' = <<>> /\ processed = indexed /\ Head(orch).next = indexed + 1
  BY <1>2, FirstMessage, MessageIs DEF NodeInv, Req
<1>4. processed' = processed /\ indexed \in Nat /\ StoreIsFinal /\ KeysInv
  BY <1>1 DEF S!Repair, S!client, NodeInv, OrderInv, FinalInv
<1>5. /\ S!StartNext(blocks, indexed + 1) = {} /\ ~repaired
         /\ UNCHANGED <<blocks, fetching, delivery>>
      \/ \E start \in S!StartNext(blocks, indexed + 1) :
             \/ repaired /\ S!RepairFrom(parentOf[blocks[start]])
             \/ ~repaired /\ S!RequestMissing(indexed + 1, start, parentOf[blocks[start]])
  BY <1>1, <1>3 DEF S!Repair, S!resolver
<1>6. ASSUME NEW start \in S!StartNext(blocks, indexed + 1)
      PROVE  /\ start - 1 \in Heights /\ blocks[start - 1] = None
             /\ parentOf[blocks[start]] = Final[start - 1]
  <2>1. /\ start \in Heights /\ start > indexed + 1 /\ blocks[start] # None
        /\ blocks[start - 1] = None
    BY <1>4 DEF S!StartNext, S!RangeStarts, StoreIsFinal
  <2>2. start # 1 /\ start - 1 \in Heights
    BY <1>4, <2>1, ChainAssumption DEF Heights
  <2>3. blocks[start] = Final[start]
    BY <1>4, <2>1 DEF StoreIsFinal
  <2> QED BY <2>1, <2>2, <2>3, ChainAssumption
<1>7. CASE repaired
  <2>1. PICK start \in S!StartNext(blocks, indexed + 1) : S!RepairFrom(parentOf[blocks[start]])
    BY <1>5, <1>7
  <2> DEFINE h == start - 1
  <2>2. /\ h \in Heights /\ blocks[h] = None /\ heightOf[Final[h]] = h
        /\ blocks' = Put(blocks, h, Final[h]) /\ UNCHANGED <<fetching, delivery>>
    BY <1>6, <2>1, FinalHeight DEF S!RepairFrom, S!Put, Put, S!resolver
  <2> HIDE DEF h
  <2>3. StoreIsFinal' /\ KeysInv'
    BY <1>4, <2>2, PutKeepsFinal DEF KeysInv
  <2>4. NodeInv'
    BY <1>1, <1>2, <1>3, <1>4, <1>7, <2>3
       DEF NodeInv, OrderInv, ChannelInv, HasNext, Executing, FinalInv, StoreIsFinal
  <2>5. F!Repaired(h) /\ h \in F!Heights
    BY <1>1, <1>7, <2>2 DEF F!Repaired, F!Put, Put, F!Heights, Heights
  <2>6. F!Next
    BY <2>5 DEF F!Next, F!Syncer
  <2>7. S!Next
    BY <1>1, <1>3 DEF S!Next, S!Orchestrated
  <2> QED BY <2>4, <2>6, <2>7 DEF Both
<1>8. CASE ~repaired
  <2>1. UNCHANGED blocks
    BY <1>5, <1>8 DEF S!RequestMissing
  <2>2. KeysInv'
    <3>1. CASE UNCHANGED <<fetching, delivery>>
      BY <1>4, <3>1 DEF KeysInv
    <3>2. ASSUME NEW start \in S!StartNext(blocks, indexed + 1),
                 S!RequestMissing(indexed + 1, start, parentOf[blocks[start]])
          PROVE  KeysInv'
      <4>1. S!DigestKey(parentOf[blocks[start]]) \in Fetchable
        BY <1>6, FinalHeight DEF Fetchable
      <4>2. \A h \in S!Heights : S!FinalizedKey(h) \in Fetchable
        BY DEF Fetchable, S!Heights, Heights
      <4>3. \E latest, outstanding : \E fetched \in SUBSET Fetchable :
                S!Turn(latest, outstanding, fetched, {})
        BY <3>2, <4>1, <4>2 DEF S!RequestMissing, S!FetchAndTurn
      <4> QED BY <1>4, <4>3, TurnKeys
    <3> QED BY <1>5, <1>8, <3>1, <3>2
  <2>3. NodeInv'
    BY <1>1, <1>2, <1>3, <1>4, <1>8, <2>1, <2>2
       DEF NodeInv, OrderInv, ChannelInv, HasNext, Executing, FinalInv, StoreIsFinal
  <2>4. F!Next
    BY <1>1, <1>8, <2>1 DEF F!NotRepaired, F!Next, F!Syncer
  <2>5. S!Next
    BY <1>1, <1>3 DEF S!Next, S!Orchestrated
  <2> QED BY <2>3, <2>4, <2>5 DEF Both
<1> QED BY <1>7, <1>8

LEMMA CrashImplements == ASSUME NodeInv, Crash \/ Restart \/ UNCHANGED vars PROVE NodeInv' /\ Both
<1>1. CASE Crash
  <2>1. /\ UNCHANGED <<blocks, indexed>> /\ fetching' = {} /\ delivery' = None
        /\ processed' = indexed /\ last_indexed' = indexed /\ pc' = "top" /\ orch' = <<>>
    BY <1>1 DEF Crash, S!Crash, F!Crash, S!archives
  <2>2. NodeInv'
    BY <2>1 DEF NodeInv, OrderInv, ChannelInv, HasNext, Executing, FinalInv, KeysInv, StoreIsFinal
  <2> QED BY <1>1, <2>2 DEF Crash, Both, S!Next, S!Environment, F!Next, F!Environment
<1>2. CASE Restart \/ UNCHANGED vars
  <2>1. /\ UNCHANGED <<verified, notarized, oldest, finalized, latest_view, last_view_processed,
                     outstanding_notarize, requested_blocks, buffer, waiters, fetching,
                     delivery, processed, blocks, wake, indexed, crashes>>
        /\ UNCHANGED FinalizerOwn
        /\ up' = up \/ up' = TRUE
    BY <1>2 DEF Restart, S!Restart, F!Restart, vars, syncerOwn, finalizerOwn, shared, FinalizerOwn,
       S!archives, S!memory, S!resolver, S!broadcast, S!client, F!shared, F!execution, F!requests
  <2>2. NodeInv'
    BY <2>1 DEF NodeInv, OrderInv, ChannelInv, Proc, Req, HasNext, Executing, FinalInv, KeysInv,
       StoreIsFinal, FinalizerOwn
  <2>3. CASE Restart
    BY <2>2, <2>3 DEF Restart, Both, S!Next, S!Environment, F!Next, F!Environment
  <2>4. CASE UNCHANGED vars
    <3>1. up' = up
      BY <2>4 DEF vars, shared
    <3>2. UNCHANGED S!vars /\ UNCHANGED F!vars
      BY <2>1, <3>1 DEF S!vars, S!archives, S!memory, S!resolver, S!broadcast, S!client,
         S!lifetime, F!vars, F!shared, F!execution, F!requests, F!lifetime, FinalizerOwn
    <3> QED BY <2>2, <3>2 DEF Both
  <2> QED BY <1>2, <2>3, <2>4
<1> QED BY <1>1, <1>2

-----------------------------------------------------------------------------
(* The two models run together, and the notifications.                     *)

LEMMA InitNode == Init => NodeInv
<1> SUFFICES ASSUME Init PROVE NodeInv
  OBVIOUS
<1>1. DOMAIN blocks = Heights /\ (\A h \in Heights : blocks[h] = None) /\ fetching = {}
      /\ delivery = None
  BY DEF Init, S!Init, S!Empty, S!Heights, Heights
<1> QED BY <1>1, InitOrder DEF NodeInv, FinalInv, KeysInv, StoreIsFinal

LEMMA NextNode == ASSUME NodeInv, [Next]_vars PROVE NodeInv' /\ Both
BY SyncerImplements, FinalizerImplements, AskImplements, BuildImplements, GetImplements, ProcessedImplements,
   RepairImplements, CrashImplements DEF Next

THEOREM NodeInvariant == Spec => []NodeInv
BY InitNode, NextNode, PTL DEF Spec

\* The node does with its syncer's state what the syncer's model says: the finalizer records
\* only blocks that the syncer has, and after the syncer handled the Processed before.
THEOREM NodeIsSyncer == Spec => SyncerRuns
<1>1. Init => S!Init
  BY DEF Init
<1>2. NodeInv /\ [Next]_vars => [S!Next]_(S!vars)
  BY NextNode DEF Both
<1> QED BY <1>1, <1>2, NodeInvariant, PTL DEF Spec, SyncerRuns, S!Spec

\* The node does with its finalizer's state what the finalizer's model says: what the syncer
\* stores is final, and notified unless it repaired.
THEOREM NodeIsFinalizer == Spec => FinalizerRuns
<1>1. Init => F!Init
  BY DEF Init
<1>2. NodeInv /\ [Next]_vars => [F!Next]_(F!vars)
  BY NextNode DEF Both
<1> QED BY <1>1, <1>2, NodeInvariant, PTL DEF Spec, FinalizerRuns, F!Spec

\* Every request the syncer handles is for the height after the last it was told of.
THEOREM ChannelInOrder == Spec => []RequestsInOrder
<1>1. NodeInv => RequestsInOrder
  <2> SUFFICES ASSUME NodeInv, orch # <<>>
               PROVE  LET m == Head(orch)
                      IN  IF m.type = "Processed"
                          THEN m.next = processed + 1 /\ processed < indexed
                          ELSE m.next = processed + 1 /\ processed = indexed
    BY DEF RequestsInOrder
  <2>1. indexed \in Nat
    BY DEF NodeInv, OrderInv
  <2>2. CASE Head(orch) = Proc
    <3>1. processed = indexed - 1 /\ Head(orch).type = "Processed" /\ Head(orch).next = indexed
      BY <2>2, FirstMessage DEF NodeInv, Proc
    <3> QED BY <2>1, <3>1
  <2>3. CASE Head(orch) \in {Req("Get"), Req("Repair")}
    <3>1. processed = indexed /\ Head(orch).type # "Processed" /\ Head(orch).next = indexed + 1
      BY <2>3, FirstMessage DEF NodeInv, Req
    <3> QED BY <2>1, <3>1
  <2> QED BY <2>2, <2>3, FirstMessage DEF NodeInv
<1> QED BY <1>1, NodeInvariant, PTL

-----------------------------------------------------------------------------
(* What is proved of each task by itself holds of the node.  SP and FP are  *)
(* S and F again, with the theorems of the proof modules: the names differ  *)
(* and the definitions are the same.                                        *)

SP == INSTANCE SyncerProofs
FP == INSTANCE FinalizerProofs

LEMMA SameSyncer == (S!Init <=> SP!Init) /\ ([S!Next]_(S!vars) => [SP!Next]_(SP!vars))
<1>1. S!Init <=> SP!Init
  BY DEF S!Init, SP!Init, S!Empty, SP!Empty, S!Views, SP!Views, S!Heights, SP!Heights
<1>2. S!Next <=> SP!Next
  BY DEF S!Heights, SP!Heights, S!Views, SP!Views, S!FinalBlocks, SP!FinalBlocks, S!Empty,
         SP!Empty, S!Put, SP!Put, S!At, SP!At, S!Holds, SP!Holds, S!PutUnpruned, SP!PutUnpruned,
         S!Prune, SP!Prune, S!RangeStarts, SP!RangeStarts, S!StartNext, SP!StartNext, S!archives,
         SP!archives, S!memory, SP!memory, S!resolver, SP!resolver, S!broadcast, SP!broadcast,
         S!client, SP!client, S!lifetime, SP!lifetime, S!NotarizedKey, SP!NotarizedKey,
         S!FinalizedKey, SP!FinalizedKey, S!DigestKey, SP!DigestKey, S!Answers, SP!Answers,
         S!Decodes, SP!Decodes, S!Verifies, SP!Verifies, S!Accepts, SP!Accepts, S!Turn, SP!Turn,
         S!FetchAndTurn, SP!FetchAndTurn, S!Wake, SP!Wake, S!Get, SP!Get, S!Broadcast,
         SP!Broadcast, S!StoreVerified, SP!StoreVerified, S!Finalize, SP!Finalize, S!Notarize,
         SP!Notarize, S!OrchestrationGet, SP!OrchestrationGet, S!Processed, SP!Processed,
         S!RepairFrom, SP!RepairFrom, S!RequestMissing, SP!RequestMissing, S!Repair, SP!Repair,
         S!HandOver, SP!HandOver, S!Accept, SP!Accept, S!Reject, SP!Reject, S!Evict, SP!Evict,
         S!Abandon, SP!Abandon, S!Index, SP!Index, S!TakeWake, SP!TakeWake, S!Crash, SP!Crash,
         S!Panic, SP!Panic,
         S!LoseVerified, SP!LoseVerified, S!LoseNotarized, SP!LoseNotarized, S!LoseFinalized,
         SP!LoseFinalized, S!LoseBlock, SP!LoseBlock, S!Lose, SP!Lose, S!Restart, SP!Restart,
         S!Mailbox, SP!Mailbox, S!Orchestrated, SP!Orchestrated, S!Deliver, SP!Deliver,
         S!Environment, SP!Environment, S!Next, SP!Next
<1>3. S!vars = SP!vars /\ S!vars' = SP!vars'
  BY DEF S!vars, SP!vars, S!archives, SP!archives, S!memory, SP!memory, S!resolver, SP!resolver,
         S!broadcast, SP!broadcast, S!client, SP!client, S!lifetime, SP!lifetime
<1> QED BY <1>1, <1>2, <1>3

LEMMA SameFinalizer == (F!Init <=> FP!Init) /\ ([F!Next]_(F!vars) => [FP!Next]_(FP!vars))
<1>1. F!Init <=> FP!Init
  BY DEF F!Init, FP!Init, F!Empty, FP!Empty, F!Heights, FP!Heights
<1>2. F!Next <=> FP!Next
  BY DEF F!Heights, FP!Heights, F!Empty, FP!Empty, F!Put, FP!Put, F!At, FP!At, F!shared,
         FP!shared, F!requests, FP!requests, F!execution, FP!execution, F!lifetime, FP!lifetime,
         F!next, FP!next, F!Message, FP!Message, F!Goto, FP!Goto, F!SendGet, FP!SendGet,
         F!CheckPayload, FP!CheckPayload, F!RefusePayload, FP!RefusePayload, F!CommitHash,
         FP!CommitHash, F!Publish, FP!Publish, F!Persist, FP!Persist, F!SendProcessed,
         FP!SendProcessed, F!SendRepair, FP!SendRepair, F!TakeRequest, FP!TakeRequest, F!TakeWake,
         FP!TakeWake, F!Store, FP!Store, F!Receive, FP!Receive, F!AnswerGet, FP!AnswerGet,
         F!TakeProcessed, FP!TakeProcessed, F!Repaired, FP!Repaired, F!NotRepaired,
         FP!NotRepaired, F!Ask, FP!Ask, F!StartBuilding, FP!StartBuilding, F!UpdateHead,
         FP!UpdateHead, F!Proposer, FP!Proposer, F!Crash, FP!Crash, F!LoseBlock, FP!LoseBlock, F!Restart,
         FP!Restart, F!Loop, FP!Loop, F!Syncer, FP!Syncer, F!Environment, FP!Environment, F!Next,
         FP!Next
<1>3. F!vars = FP!vars /\ F!vars' = FP!vars'
  BY DEF F!vars, FP!vars, F!shared, FP!shared, F!requests, FP!requests, F!execution, FP!execution,
         F!lifetime, FP!lifetime
<1> QED BY <1>1, <1>2, <1>3

LEMMA NodeRunsSyncer == Spec => SP!Spec
BY SameSyncer, NodeIsSyncer, PTL DEF SyncerRuns, S!Spec, SP!Spec

LEMMA NodeRunsFinalizer == Spec => FP!Spec
BY SameFinalizer, NodeIsFinalizer, PTL DEF FinalizerRuns, F!Spec, FP!Spec

\* The store of a node holds the final chain only; nothing the finalizer needs is pruned; the
\* resolver pursues every request that is on record and none for a processed height; and what
\* is served to a peer is what the peer accepts.
THEOREM SyncerPromises ==
    Spec => [](/\ S!BlocksAreFinal /\ S!PruneKeepsUnprocessed /\ S!RequestsStayAlive
               /\ S!NothingFetchedBehind /\ S!ServedCertificatesAccepted)
<1> USE ChainAssumption, NodeAssumption, NodeNone
    DEF FinalBlocks, SP!FinalBlocks, Heights, Views, S!Heights, SP!Heights, S!Views, SP!Views,
        S!Keys, SP!Keys, S!NotarizedKey, SP!NotarizedKey, S!FinalizedKey, SP!FinalizedKey,
        S!DigestKey, SP!DigestKey
<1>1. SP!Spec => []SP!BlocksAreFinal
  BY SP!StoresFinalBlocks
<1>2. SP!Spec => []SP!PruneKeepsUnprocessed
  BY SP!PruningIsSafe
<1>3. SP!Spec => []SP!RequestsStayAlive
  BY SP!RequestsAreTrue
<1>4. SP!Spec => []SP!NothingFetchedBehind
  BY SP!ProcessedIsLeftAlone
<1>5. SP!Spec => []SP!ServedCertificatesAccepted
  BY SP!CertificatesAreServed
<1>6. SP!BlocksAreFinal <=> S!BlocksAreFinal
  BY DEF SP!BlocksAreFinal, S!BlocksAreFinal
<1>7. SP!PruneKeepsUnprocessed <=> S!PruneKeepsUnprocessed
  BY DEF SP!PruneKeepsUnprocessed, S!PruneKeepsUnprocessed
<1>8. SP!RequestsStayAlive <=> S!RequestsStayAlive
  BY DEF SP!RequestsStayAlive, S!RequestsStayAlive, SP!Pursued, S!Pursued
<1>9. SP!NothingFetchedBehind <=> S!NothingFetchedBehind
  BY DEF SP!NothingFetchedBehind, S!NothingFetchedBehind, SP!Pursued, S!Pursued
<1>10. SP!ServedCertificatesAccepted <=> S!ServedCertificatesAccepted
  BY DEF SP!ServedCertificatesAccepted, S!ServedCertificatesAccepted, SP!Produce, S!Produce,
         SP!Accepts, S!Accepts, SP!Decodes, S!Decodes, SP!Verifies, S!Verifies, SP!At, S!At,
         SP!Holds, S!Holds, SP!FinalBlocks, S!FinalBlocks
<1> QED BY <1>1, <1>2, <1>3, <1>4, <1>5, <1>6, <1>7, <1>8, <1>9, <1>10, NodeRunsSyncer, PTL

-----------------------------------------------------------------------------
(* The gap the finalizer sleeps on.                                        *)

\* The finalizer begins to wait only when the syncer answers its Repair with false.
LEMMA StartsToWait ==
    ASSUME NodeInv, [Next]_vars, pc # "wait", pc' = "wait"
    PROVE  indexed' = indexed /\ S!Repair(indexed + 1, FALSE)
<1>1. HandleRepair
  BY DEF Next, SyncerStep, FinalizerStep, Ask, HandleGet, HandleProcessed, Crash, Restart, vars,
     finalizerOwn, F!Loop, F!SendGet, F!CheckPayload, F!RefusePayload, F!CommitHash, F!Publish,
     F!Persist, F!SendProcessed, F!SendRepair, F!TakeRequest, F!TakeWake, F!Goto, F!Ask,
     Build, F!StartBuilding, F!UpdateHead, F!AnswerGet, F!TakeProcessed, F!Crash, F!Restart
<1>2. F!Receive("Repair") /\ S!Repair(Head(orch).next, FALSE)
  BY <1>1 DEF HandleRepair
<1>3. indexed' = indexed /\ Head(orch) = Req("Repair")
  BY <1>2, MessageIs DEF NodeInv, F!Receive, F!execution
<1>4. Head(orch).next = indexed + 1
  BY <1>3 DEF Req
<1> QED BY <1>2, <1>3, <1>4

\* While it waits the store does not change without a notification.
LEMMA GoesOnWaiting ==
    ASSUME NodeInv, NodeInv', [Next]_vars, wake \in Nat, WakeCapacity > 0,
           pc = "wait", pc' = "wait", wake' = 0
    PROVE  UNCHANGED <<blocks, indexed, processed>> /\ wake = 0 /\ up'
<1>1. [F!Next]_(F!vars)
  BY NextNode DEF Both
<1>2. up /\ up' /\ orch = <<>> /\ processed = indexed /\ processed' = indexed'
  BY DEF NodeInv, OrderInv, ChannelInv
<1>3. UNCHANGED <<blocks, indexed>> /\ wake = 0
  <2>1. CASE F!Loop
    BY <2>1 DEF F!Loop, F!SendGet, F!CheckPayload, F!RefusePayload, F!CommitHash, F!Publish,
       F!Persist, F!SendProcessed, F!SendRepair, F!TakeRequest, F!TakeWake, F!Goto
  <2>2. CASE F!Syncer
    BY <1>2, <2>2 DEF F!Syncer, F!AnswerGet, F!TakeProcessed, F!NotRepaired, F!Repaired, F!Receive,
       F!Store
  <2>3. CASE F!Proposer \/ F!Environment \/ UNCHANGED F!vars
    BY <1>2, <2>3 DEF F!Proposer, F!Ask, F!StartBuilding, F!UpdateHead, F!Environment, F!Crash,
       F!Restart, F!LoseBlock, F!vars, F!shared, F!execution
  <2> QED BY <1>1, <2>1, <2>2, <2>3 DEF F!Next
<1> QED BY <1>2, <1>3

LEMMA SameGap ==
    /\ \A n : S!GapAsked(n) <=> SP!GapAsked(n)
    /\ \A n : S!GapAsked(n)' <=> SP!GapAsked(n)'
BY DEF S!GapAsked, SP!GapAsked, S!StartNext, SP!StartNext, S!RangeStarts, SP!RangeStarts,
   S!Pursued, SP!Pursued, S!DigestKey, SP!DigestKey, S!FinalizedKey, SP!FinalizedKey,
   S!Heights, SP!Heights

LEMMA SameRepair == ASSUME NEW n PROVE S!Repair(n, FALSE) <=> SP!Repair(n, FALSE)
BY DEF S!Repair, SP!Repair, S!StartNext, SP!StartNext, S!RangeStarts, SP!RangeStarts, S!archives,
   SP!archives, S!resolver, SP!resolver, S!broadcast, SP!broadcast, S!client, SP!client,
   S!lifetime, SP!lifetime, S!RepairFrom, SP!RepairFrom, S!Holds, SP!Holds, S!Put, SP!Put,
   S!RequestMissing, SP!RequestMissing, S!Heights, SP!Heights, S!DigestKey, SP!DigestKey,
   S!FinalizedKey, SP!FinalizedKey, S!NotarizedKey, SP!NotarizedKey, S!FetchAndTurn,
   SP!FetchAndTurn, S!Turn, SP!Turn

LEMMA NextGap ==
    ASSUME NodeInv, NodeInv', SP!StoreInv, SP!RequestsStayAlive, GapIsFetched, [Next]_vars
    PROVE  GapIsFetched'
<1> USE ChainAssumption, NodeAssumption, NodeNone
    DEF FinalBlocks, SP!FinalBlocks, Heights, Views, S!Heights, SP!Heights, S!Views, SP!Views,
        S!Keys, SP!Keys, S!NotarizedKey, SP!NotarizedKey, S!FinalizedKey, SP!FinalizedKey,
        S!DigestKey, SP!DigestKey
<1> SUFFICES ASSUME pc' = "wait", wake' = 0 PROVE S!GapAsked(indexed + 1)'
  BY DEF GapIsFetched
<1>1. PICK n : n = indexed + 1
  OBVIOUS
<1>2. CASE pc = "wait"
  <2>1. wake \in Nat /\ WakeCapacity > 0
    BY DEF SP!StoreInv, SP!TypeOK
  <2>2. UNCHANGED <<blocks, indexed, processed>> /\ wake = 0 /\ up'
    BY <1>2, <2>1, GoesOnWaiting
  <2>3. [SP!Next]_(SP!vars)
    BY NextNode, SameSyncer DEF Both
  <2>4. SP!GapAsked(n)
    BY <1>1, <1>2, <2>2, SameGap DEF GapIsFetched
  <2>5. SP!GapAsked(n)'
    BY <2>2, <2>3, <2>4, SP!GapStaysAsked
  <2> QED BY <1>1, <2>2, <2>5, SameGap DEF S!GapAsked
<1>3. CASE pc # "wait"
  <2>1. indexed' = indexed /\ S!Repair(n, FALSE)
    BY <1>1, <1>3, StartsToWait
  <2>2. SP!Repair(n, FALSE)
    BY <2>1, SameRepair
  <2>3. SP!GapAsked(n)'
    BY <2>2, SP!RepairAsks
  <2> QED BY <1>1, <2>1, <2>3, SameGap DEF S!GapAsked
<1> QED BY <1>2, <1>3

\* The node never sleeps on a gap that nobody works on.
THEOREM GapsAreFetched == Spec => []GapIsFetched
<1>1. Init => GapIsFetched
  BY DEF Init, F!Init, GapIsFetched
<1>2. SP!Spec => []SP!StoreInv
  BY SP!StoreInvariance, ChainAssumption, NodeAssumption, NodeNone
     DEF FinalBlocks, SP!FinalBlocks, Heights, Views, S!Heights, SP!Heights, S!Views, SP!Views,
         S!Keys, SP!Keys, S!NotarizedKey, SP!NotarizedKey, S!FinalizedKey, SP!FinalizedKey,
         S!DigestKey, SP!DigestKey
<1>3. SP!Spec => []SP!RequestsStayAlive
  BY SP!RequestsAreTrue, ChainAssumption, NodeAssumption, NodeNone
     DEF FinalBlocks, SP!FinalBlocks, Heights, Views, S!Heights, SP!Heights, S!Views, SP!Views,
         S!Keys, SP!Keys, S!NotarizedKey, SP!NotarizedKey, S!FinalizedKey, SP!FinalizedKey,
         S!DigestKey, SP!DigestKey
<1> QED BY <1>1, <1>2, <1>3, NodeInvariant, NodeRunsSyncer, NextGap, PTL DEF Spec

\* Nor does the resolver of a node give up what its syncer, on behalf of the real finalizer,
\* asked it for.
THEOREM NodePursues == Spec => S!PursuedUntilDone
<1> DEFINE SGoes == \A key \in S!Pursued : key \in S!Pursued' \/ S!Done(key)' \/ ~up'
           SPGoes == \A key \in SP!Pursued : key \in SP!Pursued' \/ SP!Done(key)' \/ ~up'
<1>1. SP!Spec => SP!PursuedUntilDone
  BY SP!ResolverPursues, ChainAssumption, NodeAssumption, NodeNone
     DEF FinalBlocks, SP!FinalBlocks, Heights, Views, S!Heights, SP!Heights, S!Views, SP!Views,
         S!Keys, SP!Keys, S!NotarizedKey, SP!NotarizedKey, S!FinalizedKey, SP!FinalizedKey,
         S!DigestKey, SP!DigestKey
<1>2. SPGoes => SGoes
  BY DEF S!Pursued, SP!Pursued, S!Done, SP!Done, S!NotarizedKey, SP!NotarizedKey, S!FinalizedKey,
         SP!FinalizedKey, S!DigestKey, SP!DigestKey, S!Views, SP!Views, S!Heights, SP!Heights,
         S!Holds, SP!Holds
<1>3. S!vars' = S!vars <=> SP!vars' = SP!vars
  BY DEF S!vars, SP!vars, S!archives, SP!archives, S!memory, SP!memory, S!resolver, SP!resolver,
         S!broadcast, SP!broadcast, S!client, SP!client, S!lifetime, SP!lifetime
<1>4. [SPGoes]_(SP!vars) => [SGoes]_(S!vars)
  BY <1>2, <1>3
<1> QED BY <1>1, <1>4, NodeRunsSyncer, PTL DEF S!PursuedUntilDone, SP!PursuedUntilDone

-----------------------------------------------------------------------------
(* The finalizer's promises, and what the node does as a whole.            *)

\* A proposer never stays registered for a height that is executed, a released one finds a
\* forkchoice that has caught up, and the finalizer never blocks on a channel of two entries.
THEOREM FinalizerPromises ==
    ASSUME OrchCapacity >= 2
    PROVE  Spec => [](F!PendingAhead /\ F!ForkchoiceCaughtUp /\ F!OrchestratorNeverBlocks)
<1> USE ChainAssumption, NodeAssumption DEF Heights, Views, FP!Heights, FP!Views
<1>1. FP!Spec => []FP!PendingAhead
  BY FP!NobodyLeftBehind
<1>2. FP!Spec => []FP!ForkchoiceCaughtUp
  BY FP!ForkchoiceKeepsUp
<1>3. FP!Spec => []FP!OrchestratorNeverBlocks
  BY FP!TwoEntriesSuffice
<1>4. FP!PendingAhead <=> F!PendingAhead
  BY DEF FP!PendingAhead, F!PendingAhead
<1>5. FP!ForkchoiceCaughtUp <=> F!ForkchoiceCaughtUp
  BY DEF FP!ForkchoiceCaughtUp, F!ForkchoiceCaughtUp, FP!ForkchoiceReady, F!ForkchoiceReady,
         FP!CaughtUp, F!CaughtUp, FP!HeightOf, F!HeightOf
<1>6. FP!OrchestratorNeverBlocks <=> F!OrchestratorNeverBlocks
  BY DEF FP!OrchestratorNeverBlocks, F!OrchestratorNeverBlocks
<1> QED BY <1>1, <1>2, <1>3, <1>4, <1>5, <1>6, NodeRunsFinalizer, PTL

\* The two tasks never sleep together on a block that can be executed: the syncer stores a
\* block and notifies in one step, and the finalizer waits only after it has looked.
THEOREM WakeupsAreKept == Spec => []NoLostWakeup
<1>1. FP!Spec => []FP!NoLostWakeup
  BY FP!WakeupsAreKept, ChainAssumption, NodeAssumption DEF Heights, Views, FP!Heights, FP!Views
<1>2. FP!NoLostWakeup <=> NoLostWakeup
  BY DEF NoLostWakeup, FP!NoLostWakeup, F!NoLostWakeup, FP!At, F!At, FP!next, F!next
<1> QED BY <1>1, <1>2, NodeRunsFinalizer, PTL

\* Nor does a node sleep on one at all, unless its execution client has refused a payload:
\* with the syncer's Repair, its pruning and its crashes in place of the abstract ones.
THEOREM OnlyRefusalsStrandNode == Spec => [](refusals = 0 => F!WaitsOnlyWhenIdle)
<1>1. FP!Spec => [](refusals = 0 => FP!WaitsOnlyWhenIdle)
  BY FP!OnlyRefusalsStrand, ChainAssumption, NodeAssumption
     DEF Heights, Views, FP!Heights, FP!Views
<1>2. FP!WaitsOnlyWhenIdle <=> F!WaitsOnlyWhenIdle
  BY DEF FP!WaitsOnlyWhenIdle, F!WaitsOnlyWhenIdle, FP!At, F!At, FP!next, F!next
<1> QED BY <1>1, <1>2, NodeRunsFinalizer, PTL

\* The node implements OrderedExecution: whatever its syncer receives and in whatever order, its
\* execution client is had to commit the final chain in order, proposers are released in its
\* order, and what they send to the client names nothing but a block it was had to commit
\* before, or genesis.
THEOREM NodeExecutesInOrder == Spec => F!ExecutesInOrder
<1>1. FP!Spec => FP!ExecutesInOrder
  BY FP!Refinement, ChainAssumption, NodeAssumption DEF Heights, Views, FP!Heights, FP!Views
<1>2. F!Execution!Init <=> FP!Execution!Init
  BY DEF F!Execution!Init, FP!Execution!Init
<1> DEFINE executed == <<evm_head, committed, indexed, answered>>
<1>3. [F!Execution!Next]_executed <=> [FP!Execution!Next]_executed
  BY DEF F!Execution!Next, FP!Execution!Next, F!Execution!Execute, FP!Execution!Execute,
         F!Execution!Record, FP!Execution!Record, F!Execution!Release, FP!Execution!Release,
         F!Execution!Forget, FP!Execution!Forget, F!Execution!Rewind, FP!Execution!Rewind,
         F!Execution!Committed, FP!Execution!Committed, F!Execution!ReleaseUpTo,
         FP!Execution!ReleaseUpTo
<1> QED BY <1>1, <1>2, <1>3, NodeRunsFinalizer, PTL
        DEF F!ExecutesInOrder, FP!ExecutesInOrder, F!Execution!Spec, FP!Execution!Spec

\* In particular a node lets a proposer go, and its client hears of the payload it starts, only
\* when the parent has been committed; the client is never had to commit more than the block
\* after the durable index, and its head is a block it was had to commit, or genesis.
ExecutedFirst ==
    /\ \A r \in answered \union calls : r.height <= committed
    /\ committed \in {indexed, indexed + 1}
    /\ evm_head \in {Genesis} \union {Final[h] : h \in 1..committed}

THEOREM NodeReleasesExecuted == Spec => []ExecutedFirst
<1>1. FP!Spec => []FP!ExecutedFirst
  BY FP!ReleasedIsExecuted, ChainAssumption, NodeAssumption
     DEF Heights, Views, FP!Heights, FP!Views
<1>2. FP!ExecutedFirst <=> ExecutedFirst
  BY DEF FP!ExecutedFirst, ExecutedFirst
<1> QED BY <1>1, <1>2, NodeRunsFinalizer, PTL
=============================================================================
