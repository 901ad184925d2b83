---------------------------------- MODULE Node ----------------------------------
(***************************************************************************)
(* One node: the syncer actor and the finalizer, joined by the channels    *)
(* node/src/engine.rs creates.  orch carries the finalizer's requests to   *)
(* the syncer, wake the syncer's notifications to the finalizer; the       *)
(* finalizer's metadata is the index the syncer's model calls indexed.     *)
(*                                                                         *)
(* Each action is one component's action, or the two components' views of  *)
(* the same step.  A guard that a component's model states about the other *)
(* is not repeated here: that the node behaves as both models say          *)
(* (SyncerRuns, FinalizerRuns) is checked.                                 *)
(***************************************************************************)
EXTENDS Chain, Sequences

CONSTANTS ActivityTimeout, ItemsPerSection, RepairBatch, WakeCapacity, OrchCapacity,
          MaxAsks, MaxRefusals, MaxCrashes, Gossiped, Verifiable, Reported, Decided, Asked,
          Extended   \* scope: heights its proposers are asked to build on

\* What the two components ask of the constants they share and of their own.
ASSUME NodeAssumption ==
    /\ ActivityTimeout \in Nat /\ ItemsPerSection \in Nat \ {0}
    /\ RepairBatch \in Nat \ {0} /\ WakeCapacity \in Nat \ {0} /\ OrchCapacity \in Nat
    /\ MaxAsks \in Nat /\ MaxRefusals \in Nat /\ MaxCrashes \in Nat
    /\ Gossiped \subseteq Block /\ Verifiable \subseteq Block /\ Asked \subseteq Block
    /\ Reported \subseteq Certified /\ Decided \subseteq FinalBlocks
    /\ Extended \subseteq 0..TopHeight

VARIABLES
    verified, notarized, oldest, finalized, latest_view, last_view_processed,
    outstanding_notarize, requested_blocks, buffer, waiters, fetching, delivery,
    processed,                                               \* the syncer's own
    blocks, wake, indexed, up, crashes,                      \* shared
    orch, pc, got, last_indexed, forkchoice, evm_head, committed, mailbox, pending,
    answered, calls, asks, refusals                          \* the finalizer's own

S == INSTANCE Syncer
F == INSTANCE Finalizer

ASSUME NodeNone == None \notin [key : S!Keys, kept : BOOLEAN]

syncerOwn == <<verified, notarized, oldest, finalized, latest_view, last_view_processed,
               outstanding_notarize, requested_blocks, buffer, waiters, fetching,
               delivery, processed>>
finalizerOwn == <<orch, pc, got, last_indexed, forkchoice, evm_head, committed, mailbox,
                  pending, answered, calls, asks, refusals>>
shared == <<blocks, wake, indexed, up, crashes>>
vars == <<syncerOwn, finalizerOwn, shared>>

Init == S!Init /\ F!Init

SyncerStep ==
    /\ \/ S!Mailbox \/ S!Deliver \/ S!Lose
       \/ \E key \in fetching : S!HandOver(key)
       \/ \E b \in Block : S!Evict(b) \/ S!Abandon(b)
    /\ UNCHANGED finalizerOwn

FinalizerStep == F!Loop /\ UNCHANGED syncerOwn

\* The application's proposer asks for the height of a parent the syncer returned.
HasParent(h) ==
    h = 0 \/ \E b \in Block : /\ heightOf[b] = h
                            /\ \/ b \in buffer \/ Holds(verified, b)
                               \/ Holds(notarized, b) \/ Holds(blocks, b)
Ask == (\E h \in Extended : HasParent(h) /\ F!Ask(h)) /\ UNCHANGED syncerOwn

\* When it is let go it starts a payload, and the execution client hears of that.
Build ==
    /\ (\E r \in answered : F!StartBuilding(r)) \/ \E c \in calls : F!UpdateHead(c)
    /\ UNCHANGED syncerOwn

-----------------------------------------------------------------------------
(* The syncer handles the request at the head of the channel.              *)

HandleGet == F!AnswerGet /\ UNCHANGED syncerOwn

\* Bug of HandleProcessed: the syncer drops the message.
HandleProcessedIgnored == F!TakeProcessed /\ UNCHANGED syncerOwn

HandleProcessed == F!TakeProcessed /\ S!Processed

HandleRepair == \E repaired \in BOOLEAN :
    /\ F!Receive("Repair")
    /\ S!Repair(Head(orch).next, repaired)
    /\ IF repaired THEN pc' = "top" /\ got' = None ELSE pc' = "wait" /\ UNCHANGED got

-----------------------------------------------------------------------------
\* Whatever stops it: the two tasks run in one process, that a panic of the syncer on a
\* malformed answer (S!Panic) ends too.
Crash == S!Crash /\ F!Crash
Restart == S!Restart /\ F!Restart

Next == \/ SyncerStep \/ FinalizerStep \/ Ask \/ Build
        \/ HandleGet \/ HandleProcessed \/ HandleRepair
        \/ Crash \/ Restart

Spec == Init /\ [][Next]_vars

\* Both tasks are scheduled, and the resolver gets in the end the blocks it fetches
\* by digest (the same of the other keys is not needed to catch up).
Fairness ==
    /\ WF_vars(FinalizerStep)
    /\ WF_vars(HandleGet \/ HandleProcessed \/ HandleRepair)
    /\ WF_vars(S!Reject /\ UNCHANGED finalizerOwn)
    /\ \A h \in Heights : LET key == S!DigestKey(Final[h])
          IN  /\ SF_vars(S!HandOver(key) /\ UNCHANGED finalizerOwn)
              /\ SF_vars(S!AcceptFor(key) /\ UNCHANGED finalizerOwn)

LiveSpec == Spec /\ Fairness

-----------------------------------------------------------------------------
(* Properties.                                                             *)

\* What the syncer's model assumes of the finalizer (it indexes only blocks the
\* store has, and after Processed) is what the finalizer does.
SyncerRuns == S!Spec

\* What the finalizer's model assumes of the syncer (blocks that turn up are final
\* and come with a notification; Repair answers true only if it stored one) is what
\* the syncer does.
FinalizerRuns == F!Spec

\* A request the syncer handles is about the height after the last one it was told
\* was processed: the channel's order is all the two tasks have to agree by.
RequestsInOrder ==
    orch # <<>> =>
        LET m == Head(orch)
        IN  IF m.type = "Processed" THEN m.next = processed + 1 /\ processed < indexed
            ELSE m.next = processed + 1 /\ processed = indexed

\* The two tasks together never sleep on an executable block, although the store is
\* filled between the finalizer's Get and its wait.
NoLostWakeup == F!NoLostWakeup

\* Why the node catches up: the finalizer sleeps unnotified below a gap only while the
\* resolver works on all that Repair asked for - the block under the gap by its digest,
\* the missing heights by their index - or a missing block has come without it.
GapIsFetched == pc = "wait" /\ wake = 0 => S!GapAsked(indexed + 1)

\* When consensus finalized the last block, even if this node did not have it, every
\* block up to it is backfilled and executed; and when the node crashes on the way,
\* it takes this up again from what its archives still hold.
CatchesUp ==
    (blocks[TopHeight] # None \/ S!DigestKey(Final[TopHeight]) \in S!Pursued)
        ~> (indexed = TopHeight \/ ~up \/ F!AsleepOnRefused)
=============================================================================
