------------------------------- MODULE Finalizer -------------------------------
(***************************************************************************)
(* The finalizer (application/src/finalizer.rs): a task that asks the      *)
(* syncer for the next final block, has the execution client execute it,   *)
(* records its height, and lets go the proposers that wait for it.         *)
(*                                                                         *)
(* pc is the await the task stands at.  Its channels are explicit: orch to *)
(* the syncer, wake from the syncer, mailbox from the application.  The    *)
(* syncer is abstract here: final blocks turn up in any order, and it      *)
(* answers requests; module Node puts the real one in its place.           *)
(*                                                                         *)
(* The execution client (external) has two callers: the finalizer, and the *)
(* proposer it releases, which starts a payload on the shared forkchoice.  *)
(* Both calls are engine_forkchoiceUpdated and move the client's head.     *)
(***************************************************************************)
EXTENDS Chain, Sequences

CONSTANTS WakeCapacity,   \* buffer of rx_new_block's channel + its one sender
          OrchCapacity,   \* buffer of the orchestrator's channel
          MaxAsks,        \* bound: requests of proposers
          MaxRefusals,    \* bound: payloads the execution client does not call valid
          MaxCrashes      \* bound: crashes of the node

ASSUME FinalizerAssumption ==
    /\ WakeCapacity \in Nat \ {0} /\ OrchCapacity \in Nat
    /\ MaxAsks \in Nat /\ MaxRefusals \in Nat /\ MaxCrashes \in Nat

VARIABLES
    blocks, wake,      \* the syncer's finalized blocks and its notifications
    orch,              \* requests on their way to the syncer
    pc,                \* where the finalizer's loop stands
    got,               \* the block the syncer answered, if any
    last_indexed,      \* the finalizer's copy of the durable index
    indexed,           \* finalizer metadata (durable)
    forkchoice,        \* head of the forkchoice shared with the application
    evm_head,          \* head of the execution client (external)
    committed,         \* history: height of the block CommitHash committed last
    mailbox,           \* height_notify_mailbox
    pending,           \* requests registered with the height notifier
    answered,          \* requests answered, their proposers yet to read forkchoice
    calls,             \* proposers' calls on their way to the execution client
    asks, refusals,    \* counters for the bounds
    up, crashes

shared == <<blocks, wake>>
requests == <<mailbox, pending, answered, calls, asks>>
execution == <<last_indexed, indexed, forkchoice, evm_head, committed>>
lifetime == <<up, crashes>>
vars == <<shared, orch, pc, got, execution, requests, refusals, lifetime>>

next == last_indexed + 1
Message(type) == [type |-> type, next |-> next]
Orchestration == [type : {"Get", "Processed", "Repair"}, next : 1..(TopHeight + 1)]
Requests == [id : 1..MaxAsks, height : 0..TopHeight]

\* A proposer's call: the height it waited for, and the head it read afterwards.
Calls == [id : 1..MaxAsks, height : 0..TopHeight, head : Block \union {Genesis}]

Init ==
    /\ blocks = Empty(Heights) /\ wake = 0 /\ orch = <<>>
    /\ pc = "top" /\ got = None
    /\ last_indexed = 0 /\ indexed = 0 /\ forkchoice = Genesis
    /\ evm_head = Genesis /\ committed = 0
    /\ mailbox = <<>> /\ pending = {} /\ answered = {} /\ calls = {}
    /\ asks = 0 /\ refusals = 0
    /\ up = TRUE /\ crashes = 0

-----------------------------------------------------------------------------
(* The finalizer's loop.                                                   *)

Goto(from, to) == up /\ pc = from /\ pc' = to

SendGet ==
    /\ Goto("top", "getting")
    /\ orch' = Append(orch, Message("Get"))
    /\ UNCHANGED <<shared, got, execution, requests, refusals, lifetime>>

\* Bug of CheckPayload: the block is recorded without being committed.
CheckSkipsCommit ==
    /\ Goto("check", "persist")
    /\ UNCHANGED <<shared, orch, got, execution, requests, refusals, lifetime>>

\* engine_newPayload calls the block valid...
CheckPayload ==
    /\ Goto("check", "commit")
    /\ UNCHANGED <<shared, orch, got, execution, requests, refusals, lifetime>>

\* ... or not, for instance while the execution client is itself syncing.
RefusePayload ==
    /\ refusals < MaxRefusals
    /\ Goto("check", "repair")
    /\ refusals' = refusals + 1
    /\ UNCHANGED <<shared, orch, got, execution, requests, lifetime>>

\* Bug of CommitHash: the shared forkchoice is not updated.
CommitSkipsPublish ==
    /\ Goto("commit", "persist")
    /\ evm_head' = got /\ committed' = next
    /\ UNCHANGED <<shared, orch, got, last_indexed, indexed, forkchoice, requests,
                   refusals, lifetime>>

\* engine_forkchoiceUpdated moves the execution client's head.
CommitHash ==
    /\ Goto("commit", "publish")
    /\ evm_head' = got /\ committed' = next
    /\ UNCHANGED <<shared, orch, got, last_indexed, indexed, forkchoice, requests,
                   refusals, lifetime>>

Publish ==
    /\ Goto("publish", "persist")
    /\ forkchoice' = got
    /\ UNCHANGED <<shared, orch, got, last_indexed, indexed, evm_head, committed,
                   requests, refusals, lifetime>>

\* Bugs of Persist: the index in memory is not advanced; or the pending map is split
\* at the new height instead of above it.
PersistStale ==
    /\ Goto("persist", "processed")
    /\ indexed' = next
    /\ UNCHANGED <<shared, orch, got, last_indexed, forkchoice, evm_head, committed,
                   requests, refusals, lifetime>>
PersistSplitsAtHeight ==
    /\ Goto("persist", "processed")
    /\ indexed' = next
    /\ last_indexed' = next
    /\ LET reached == {r \in pending : r.height < next}
       IN  pending' = pending \ reached /\ answered' = answered \union reached
    /\ UNCHANGED <<shared, orch, got, forkchoice, evm_head, committed, mailbox, calls,
                   asks, refusals, lifetime>>

\* Once the metadata is synced, the requests up to the new height are answered.
Persist ==
    /\ Goto("persist", "processed")
    /\ indexed' = next
    /\ last_indexed' = next
    /\ LET reached == {r \in pending : r.height <= next}
       IN  pending' = pending \ reached /\ answered' = answered \union reached
    /\ UNCHANGED <<shared, orch, got, forkchoice, evm_head, committed, mailbox, calls,
                   asks, refusals, lifetime>>

\* Bug of SendProcessed: the syncer is not told.
SendProcessedNever ==
    /\ Goto("processed", "top")
    /\ got' = None
    /\ UNCHANGED <<shared, orch, execution, requests, refusals, lifetime>>

SendProcessed ==
    /\ Goto("processed", "top")
    /\ orch' = Append(orch, [type |-> "Processed", next |-> last_indexed])
    /\ got' = None
    /\ UNCHANGED <<shared, execution, requests, refusals, lifetime>>

\* Bugs of SendRepair: notifications are drained on the way; or the answer is not
\* awaited.
SendRepairDrains ==
    /\ Goto("repair", "repairing")
    /\ orch' = Append(orch, Message("Repair"))
    /\ wake' = 0
    /\ UNCHANGED <<blocks, got, execution, requests, refusals, lifetime>>
SendRepairUnawaited ==
    /\ Goto("repair", "wait")
    /\ orch' = Append(orch, Message("Repair"))
    /\ UNCHANGED <<shared, got, execution, requests, refusals, lifetime>>

SendRepair ==
    /\ Goto("repair", "repairing")
    /\ orch' = Append(orch, Message("Repair"))
    /\ UNCHANGED <<shared, got, execution, requests, refusals, lifetime>>

\* The select is biased: requests first, then the syncer's notifications.
TakeRequest ==
    /\ mailbox # <<>>
    /\ Goto("wait", "top")
    /\ mailbox' = Tail(mailbox)
    /\ LET r == Head(mailbox)
       IN  \/ /\ last_indexed >= r.height
              /\ answered' = answered \union {r} /\ UNCHANGED pending
           \/ /\ last_indexed < r.height
              /\ pending' = pending \union {r} /\ UNCHANGED answered
    /\ got' = None
    /\ UNCHANGED <<shared, orch, execution, calls, asks, refusals, lifetime>>

TakeWake ==
    /\ mailbox = <<>> /\ wake > 0
    /\ Goto("wait", "top")
    /\ wake' = wake - 1 /\ got' = None
    /\ UNCHANGED <<blocks, orch, execution, requests, refusals, lifetime>>

-----------------------------------------------------------------------------
(* The syncer, abstractly.                                                 *)

\* A final block arrives, and the finalizer is notified unless its channel is full.
Store(h) ==
    /\ up
    /\ blocks' = Put(blocks, h, Final[h])
    /\ wake' = IF wake < WakeCapacity THEN wake + 1 ELSE wake
    /\ UNCHANGED <<orch, pc, got, execution, requests, refusals, lifetime>>

Receive(type) ==
    /\ up /\ orch # <<>> /\ Head(orch).type = type
    /\ orch' = Tail(orch)
    /\ UNCHANGED <<wake, execution, requests, refusals, lifetime>>

AnswerGet ==
    /\ Receive("Get")
    /\ got' = At(blocks, Head(orch).next)
    /\ pc' = IF got' = None THEN "repair" ELSE "check"
    /\ UNCHANGED blocks

TakeProcessed == Receive("Processed") /\ UNCHANGED <<blocks, pc, got>>

\* Repair answers true when it found a block in another archive: no notification
\* is sent, but the finalizer asks again.
Repaired(h) ==
    /\ Receive("Repair") /\ blocks[h] = None
    /\ blocks' = Put(blocks, h, Final[h])
    /\ pc' = "top" /\ got' = None

NotRepaired == Receive("Repair") /\ pc' = "wait" /\ UNCHANGED <<blocks, got>>

-----------------------------------------------------------------------------
(* The application, and crashes.                                           *)

\* A proposer asks to be told when its parent is executed (handle_proposal).
Ask(height) ==
    /\ up /\ asks < MaxAsks
    /\ asks' = asks + 1
    /\ mailbox' = Append(mailbox, [id |-> asks + 1, height |-> height])
    /\ UNCHANGED <<shared, orch, pc, got, execution, pending, answered, calls, refusals,
                   lifetime>>

\* start_building_block: the proposer that was let go reads the forkchoice and sends it.
\* Proposals are handled one at a time, so that an earlier one has been aborted.
StartBuilding(r) ==
    /\ up /\ r \in answered /\ r.id = asks
    /\ answered' = answered \ {r}
    /\ calls' = calls \union {[id |-> r.id, height |-> r.height, head |-> forkchoice]}
    /\ UNCHANGED <<shared, orch, pc, got, execution, mailbox, pending, asks, refusals,
                   lifetime>>

\* The execution client hears of it, however late: when the proposal was aborted, when
\* the finalizer has moved on, when the node has restarted.  "This updates the forkchoice
\* head to a specific head" (engine_client.rs:7), unless the client leaves the call alone.
UpdateHead(c) ==
    /\ c \in calls /\ calls' = calls \ {c}
    /\ evm_head' \in {c.head, evm_head}
    /\ UNCHANGED <<shared, orch, pc, got, last_indexed, indexed, forkchoice, committed,
                   mailbox, pending, answered, asks, refusals, lifetime>>

\* A crash keeps the metadata, the archives, the execution client and what was sent to
\* it; the application starts again from the genesis forkchoice.
Crash ==
    /\ up /\ crashes < MaxCrashes
    /\ up' = FALSE /\ crashes' = crashes + 1
    /\ wake' = 0 /\ orch' = <<>> /\ pc' = "top" /\ got' = None
    /\ last_indexed' = indexed /\ forkchoice' = Genesis
    /\ mailbox' = <<>> /\ pending' = {} /\ answered' = {}
    /\ UNCHANGED <<blocks, indexed, evm_head, committed, calls, asks, refusals>>

\* The syncer never syncs its archives.
LoseBlock(h) ==
    /\ ~up
    /\ blocks' = [blocks EXCEPT ![h] = None]
    /\ UNCHANGED <<wake, orch, pc, got, execution, requests, refusals, lifetime>>

Restart ==
    /\ ~up /\ up' = TRUE
    /\ UNCHANGED <<shared, orch, pc, got, execution, requests, refusals, crashes>>

-----------------------------------------------------------------------------
Loop == SendGet \/ CheckPayload \/ RefusePayload \/ CommitHash \/ Publish \/ Persist
            \/ SendProcessed \/ SendRepair \/ TakeRequest \/ TakeWake
Syncer == AnswerGet \/ TakeProcessed \/ NotRepaired
            \/ \E h \in Heights : Store(h) \/ Repaired(h)
Proposer == (\E h \in 0..TopHeight : Ask(h)) \/ (\E r \in answered : StartBuilding(r))
            \/ \E c \in calls : UpdateHead(c)
Environment == Crash \/ Restart \/ \E h \in Heights : LoseBlock(h)

Next == Loop \/ Syncer \/ Proposer \/ Environment

Spec == Init /\ [][Next]_vars

\* The finalizer's task and the syncer's are scheduled; every final block reaches
\* the node in the end (again, when a crash lost it), and a stopped node restarts.
Arrive(h) == blocks[h] = None /\ Store(h)
Fairness ==
    /\ WF_vars(Loop)
    /\ WF_vars(AnswerGet \/ TakeProcessed \/ NotRepaired)
    /\ \A h \in Heights : WF_vars(Arrive(h))
    /\ WF_vars(Restart)

LiveSpec == Spec /\ Fairness

-----------------------------------------------------------------------------
(* Properties.                                                             *)

Positions == {"top", "getting", "check", "commit", "publish", "persist", "processed",
              "repair", "repairing", "wait"}

\* Every variable has the type its declaration in finalizer.rs gives it.
TypeOK ==
    /\ blocks \in Archive(Heights) /\ wake \in 0..WakeCapacity
    /\ orch \in Seq(Orchestration)
    /\ pc \in Positions /\ got \in Block \union {None}
    /\ indexed \in 0..TopHeight /\ last_indexed = indexed
    /\ forkchoice \in Block \union {Genesis} /\ evm_head \in Block \union {Genesis}
    /\ mailbox \in Seq(Requests)
    /\ committed \in 0..TopHeight
    /\ pending \subseteq Requests /\ answered \subseteq Requests /\ calls \subseteq Calls
    /\ asks \in 0..MaxAsks /\ refusals \in 0..MaxRefusals
    /\ up \in BOOLEAN /\ crashes \in 0..MaxCrashes

\* Why the rest holds: what the loop knows at each of its awaits.
StoreIsFinal == \A h \in Heights : blocks[h] \in {None, Final[h]}
GotIsNext ==
    /\ pc \in {"check", "commit", "publish", "persist"} => next \in Heights /\ got = Final[next]
    /\ pc \in {"publish", "persist"} => committed = next
    /\ pc = "processed" => last_indexed \in Heights
OrchShape ==
    /\ pc = "getting" => /\ Len(orch) \in {1, 2} /\ orch[Len(orch)] = Message("Get")
                         /\ Len(orch) = 2 => orch[1].type = "Processed"
    /\ pc = "repairing" => Len(orch) = 1 /\ orch[1] = Message("Repair")
    /\ pc = "top" => Len(orch) \in {0, 1} /\ (Len(orch) = 1 => orch[1].type = "Processed")
    /\ pc \notin {"getting", "repairing", "top"} => Len(orch) = 0
Woken ==
    pc \in {"repair", "repairing", "wait"} /\ got = None /\ At(blocks, next) # None => wake > 0
LoopInv == StoreIsFinal /\ GotIsNext /\ OrchShape /\ Woken

\* Every head that is about, with the client, with the application or in a call, is one
\* that the finalizer committed, or genesis.
CommitsTrail ==
    /\ committed \in {indexed, indexed + 1}
    /\ {evm_head, forkchoice} \union {c.head : c \in calls}
           \subseteq {Genesis} \union {Final[h] : h \in 1..committed}

\* The finalizer drives execution as OrderedExecution promises, whatever order the
\* blocks arrive in, wherever a crash hits, and whenever the client hears of what its
\* other caller, the proposer, has read of the shared forkchoice.
Execution == INSTANCE OrderedExecution
                WITH head <- evm_head, index <- indexed, released <- answered
ExecutesInOrder == Execution!Spec

\* Nobody stays registered for a height that is already executed, although the
\* request and the execution reach the notifier in either order.
PendingAhead == \A r \in pending : r.height > last_indexed

\* Between two crashes, a released proposer finds a forkchoice that has executed
\* the height it waited for ("additionally await for that to be executed by the
\* finalizer", application/src/actor.rs:236).
ForkchoiceReady == \A r \in answered : r.height <= HeightOf(forkchoice)

\* What is left of it across crashes: a released proposer finds that forkchoice, or the
\* one a restarted node begins with - never an old head of this or an earlier run; and
\* so it is with the head it has sent to the execution client.
CaughtUp(height, head) == height <= HeightOf(head) \/ (crashes > 0 /\ head = Genesis)
ForkchoiceCaughtUp ==
    /\ \A r \in answered : CaughtUp(r.height, forkchoice)
    /\ \A c \in calls : CaughtUp(c.height, c.head)

\* Why: the commit of a height is published before the height is recorded.
ForkchoiceAhead ==
    \/ HeightOf(forkchoice) >= last_indexed
    \/ crashes > 0 /\ forkchoice = Genesis
AnsweredIndexed == \A r \in answered : r.height <= last_indexed
PublishedGot == pc = "persist" => forkchoice = got
CallsCaughtUp == \A c \in calls : CaughtUp(c.height, c.head) /\ c.height <= last_indexed
ForkchoiceInv == ForkchoiceAhead /\ AnsweredIndexed /\ PublishedGot /\ CallsCaughtUp

\* The finalizer never sleeps on a block that arrived after it last asked: when its
\* notification is gone, the block was seen, and refused by the execution client.
NoLostWakeup == pc = "wait" /\ wake = 0 /\ At(blocks, next) # None => got # None

\* "If nothing to do, wait" (finalizer.rs:143): it waits unnotified only when the
\* next block is not there.
WaitsOnlyWhenIdle == pc = "wait" /\ wake = 0 => At(blocks, next) = None

\* "buffer to send processed while moving forward" (syncer/src/actor.rs:136): the
\* channel's buffer holds all the finalizer sends, which thus never blocks on it,
\* and what waits in it is at most a Processed and the request after it.
OrchestratorNeverBlocks ==
    /\ Len(orch) <= OrchCapacity
    /\ \A i \in 1..Len(orch) : orch[i].type # "Processed" => i = Len(orch)

\* Every final block is executed in the end, across crashes: only a block that the
\* execution client has refused can keep the finalizer waiting, until another block
\* arrives or a proposer asks.
AsleepOnRefused == refusals > 0 /\ pc = "wait" /\ got # None /\ wake = 0 /\ mailbox = <<>>
ExecutesAll == <>[](indexed = TopHeight \/ AsleepOnRefused)

\* Every proposer's request is answered in the end, unless the node stops or sleeps so.
Waiting(i) == \/ \E r \in pending : r.id = i
              \/ \E k \in DOMAIN mailbox : mailbox[k].id = i
ProposersReleased ==
    \A i \in 1..MaxAsks :
        Waiting(i) ~> (~up \/ AsleepOnRefused \/ \E r \in answered : r.id = i)
=============================================================================
