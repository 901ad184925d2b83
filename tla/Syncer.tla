-------------------------------- MODULE Syncer --------------------------------
(***************************************************************************)
(* The syncer actor (syncer/src/actor.rs): it keeps the blocks a node has  *)
(* verified, seen notarized or finalized, answers the application and the  *)
(* finalizer from them, and backfills what is missing through a resolver.  *)
(*                                                                         *)
(* The actor is one task: each handler of its select loop is one action,   *)
(* followed by the cancellation at the top of the loop (Turn).  The        *)
(* resolver, the broadcast buffer and the disk are external tasks of       *)
(* their own.  A resolver delivery is two steps, because the actor may     *)
(* handle any number of other messages between the moment the resolver     *)
(* hands a value over and the moment the actor looks at it.                *)
(***************************************************************************)
EXTENDS Chain

CONSTANTS ActivityTimeout,   \* views kept behind the last processed one
          ItemsPerSection,   \* granularity of pruning
          RepairBatch,       \* heights one Repair asks for (20 in the code)
          WakeCapacity,      \* buffer of the finalizer's channel + its one sender
          MaxCrashes,        \* bound on crashes of the node
          Gossiped,          \* scope: blocks the broadcast network carries
          Verifiable,        \* scope: blocks the application verifies or proposes
          Reported,          \* scope: blocks whose notarization consensus reports
          Decided,           \* scope: blocks whose finalization consensus reports
          Asked              \* scope: blocks the application asks for

ASSUME SyncerAssumption ==
    /\ ActivityTimeout \in Nat /\ ItemsPerSection \in Nat \ {0}
    /\ RepairBatch \in Nat \ {0} /\ WakeCapacity \in Nat \ {0}
    /\ MaxCrashes \in Nat
    /\ Gossiped \subseteq Block /\ Verifiable \subseteq Block /\ Asked \subseteq Block
    /\ Reported \subseteq Certified /\ Decided \subseteq FinalBlocks

VARIABLES
    verified,              \* verified blocks, by view
    notarized,             \* notarized blocks with their certificate, by view
    oldest,                \* the view both prunable archives are pruned to
    finalized,             \* finalizations, by height
    blocks,                \* finalized blocks, by height
    latest_view,           \* view of the last finalization whose block was found
    last_view_processed,   \* view of the last processed block
    outstanding_notarize,  \* views whose notarized block was asked for
    requested_blocks,      \* heights whose finalization was asked for
    wake,                  \* notifications waiting in the finalizer's channel
    buffer,                \* blocks cached by the broadcast engine (external)
    waiters,               \* blocks some Get waits for in the broadcast engine
    fetching,              \* keys the resolver is asked to fetch (external)
    delivery,              \* the value the resolver is handing over, if any
    indexed,               \* last height the finalizer recorded (durable)
    processed,             \* last height whose Processed was handled, or the
                           \* durable index the node restarted from
    up, crashes

archives == <<verified, notarized, finalized, blocks>>
memory == <<latest_view, last_view_processed, outstanding_notarize, requested_blocks, wake>>
resolver == <<fetching, delivery>>
broadcast == <<buffer, waiters>>
client == <<indexed, processed>>
lifetime == <<up, crashes>>
vars == <<archives, oldest, memory, resolver, broadcast, client, lifetime>>

-----------------------------------------------------------------------------
(* Resolver keys (key.rs) and the values peers answer with.                *)

NotarizedKey(v) == <<"Notarized", v>>
FinalizedKey(h) == <<"Finalized", h>>
DigestKey(b) == <<"Digest", b>>
Keys == {NotarizedKey(v) : v \in Views} \union {FinalizedKey(h) : h \in Heights}
            \union {DigestKey(b) : b \in Block}

ASSUME NoneAssumption == None \notin [key : Keys, kept : BOOLEAN]

\* An encoded value: a block, or a certificate for the block "proof" with a block.
\* Bytes that encode none of them fail to decode, and are refused, or end the process
\* (Panic).
Answers == [type : {"Notarized", "Finalized", "Block"}, proof : Block, block : Block]

Decodes(type, ans) == ans.type = type /\ (type # "Block" => ans.proof = ans.block)

\* Only a quorum makes certificates: a signature verifies for these blocks alone.
Verifies(ans) == ans.proof \in (IF ans.type = "Finalized" THEN FinalBlocks ELSE Certified)

\* Bug of Accepts: the digest is not compared with what was asked for.
AcceptsAnyBlock(key, ans) ==
    \/ /\ key[1] = "Notarized"
       /\ Decodes("Notarized", ans) /\ Verifies(ans) /\ viewOf[ans.proof] = key[2]
    \/ /\ key[1] = "Finalized"
       /\ Decodes("Finalized", ans) /\ Verifies(ans) /\ heightOf[ans.block] = key[2]
    \/ key[1] = "Digest" /\ Decodes("Block", ans)

\* The checks of Deliver: decode, verify, and match what was asked for.
Accepts(key, ans) ==
    \/ /\ key[1] = "Notarized"
       /\ Decodes("Notarized", ans) /\ Verifies(ans)
       /\ viewOf[ans.proof] = key[2]
    \/ /\ key[1] = "Finalized"
       /\ Decodes("Finalized", ans) /\ Verifies(ans)
       /\ heightOf[ans.block] = key[2]
    \/ /\ key[1] = "Digest"
       /\ Decodes("Block", ans)
       /\ ans.block = key[2]

\* Bug of Produce: the block of a finalization is looked up by view, as in the archive
\* of notarized blocks, where the key is a height.
ProduceByView(key) ==
    LET Value(type, proof, block) == [type |-> type, proof |-> proof, block |-> block]
    IN  CASE key[1] = "Notarized" ->
               {Value("Notarized", b, b) : b \in {At(notarized, key[2])} \ {None}}
          [] key[1] = "Finalized" ->
               {Value("Finalized", p, b) : p \in {finalized[key[2]]} \ {None},
                                           b \in {At(notarized, key[2])} \ {None}}
          [] key[1] = "Digest" -> {}

\* What Produce answers a peer's request for a key, as a set of at most one value.
Produce(key) ==
    LET Value(type, proof, block) == [type |-> type, proof |-> proof, block |-> block]
    IN  CASE key[1] = "Notarized" ->
               {Value("Notarized", b, b) : b \in {At(notarized, key[2])} \ {None}}
          [] key[1] = "Finalized" ->
               {Value("Finalized", p, b) : p \in {finalized[key[2]]} \ {None},
                                           b \in {blocks[key[2]]} \ {None}}
          [] key[1] = "Digest" ->
               LET b == key[2]
               IN  IF b \in buffer \/ Holds(verified, b) THEN {Value("Block", b, b)}
                   ELSE IF Holds(notarized, b) THEN {Value("Notarized", b, b)}
                   ELSE IF Holds(blocks, b) THEN {Value("Block", b, b)}
                   ELSE {}

-----------------------------------------------------------------------------
Init ==
    /\ verified = Empty(Views) /\ notarized = Empty(Views) /\ oldest = 0
    /\ finalized = Empty(Heights) /\ blocks = Empty(Heights)
    /\ latest_view = 0 /\ last_view_processed = 0
    /\ outstanding_notarize = {} /\ requested_blocks = {} /\ wake = 0
    /\ buffer = {} /\ waiters = {} /\ fetching = {} /\ delivery = None
    /\ indexed = 0 /\ processed = 0
    /\ up = TRUE /\ crashes = 0

\* Bug of Turn: a cancellation misses the value being handed over.
TurnForgetsDelivery(latest, outstanding, fetched, cancelled) ==
    /\ latest_view' = latest
    /\ outstanding_notarize' = {v \in outstanding : v >= latest}
    /\ fetching' = (fetching \union fetched) \
          (cancelled \union {NotarizedKey(v) : v \in {u \in outstanding : u < latest}})
    /\ UNCHANGED delivery

\* The end of a handler: the keys it fetched and cancelled, then the top of the
\* loop, which drops the requests for views before the latest one.
Turn(latest, outstanding, fetched, cancelled) ==
    LET useless == {NotarizedKey(v) : v \in {u \in outstanding : u < latest}}
        dropped == cancelled \union useless
    IN  /\ latest_view' = latest
        /\ outstanding_notarize' = {v \in outstanding : v >= latest}
        /\ fetching' = (fetching \union fetched) \ dropped
        /\ delivery' = IF delivery # None /\ delivery.key \in dropped
                       THEN [key |-> delivery.key, kept |-> FALSE] ELSE delivery

FetchAndTurn(keys) == Turn(latest_view, outstanding_notarize, keys, {})

\* Bugs of Wake: the channel is not bounded, or the finalizer is not notified.
WakeUnbounded == wake' = wake + 1
WakeNever == UNCHANGED wake

\* try_send(()) on the finalizer's channel: nothing happens when it is full.
Wake == wake' = IF wake < WakeCapacity THEN wake + 1 ELSE wake

-----------------------------------------------------------------------------
(* Messages of the mailbox, from the application and from consensus.       *)

\* A Get that finds the block answers it and changes nothing; one that does not
\* asks the network (when it knows the view) and waits for the block's broadcast.
Get(view, b) ==
    /\ up /\ b \in Asked
    /\ b \notin buffer \union waiters
    /\ ~Holds(verified, b) /\ ~Holds(notarized, b) /\ ~Holds(blocks, b)
    /\ FetchAndTurn(IF view = None THEN {} ELSE {NotarizedKey(view)})
    /\ waiters' = waiters \union {b}
    /\ UNCHANGED <<archives, oldest, last_view_processed, requested_blocks, wake,
                   buffer, client, lifetime>>

\* A block broadcast by this node's application or by a peer: it is cached, and
\* whoever waits for it gets it.
Broadcast(b) ==
    /\ up /\ b \in Gossiped
    /\ buffer' = buffer \union {b}
    /\ waiters' = waiters \ {b}
    /\ UNCHANGED <<archives, oldest, memory, resolver, client, lifetime>>

StoreVerified(b) ==
    /\ up /\ b \in Verifiable
    /\ verified' = PutUnpruned(verified, oldest, viewOf[b], b)
    /\ UNCHANGED <<notarized, finalized, blocks, oldest, memory, resolver, broadcast,
                   client, lifetime>>

\* Bug of Finalize: the archives are pruned behind the latest view instead of the last
\* processed one.
FinalizePrunesLatest(b) ==
    LET kept == IF viewOf[b] > ActivityTimeout THEN viewOf[b] - ActivityTimeout ELSE 0
    IN  /\ up /\ b \in Decided
        /\ b \in buffer \/ Holds(verified, b) \/ Holds(notarized, b)
        /\ finalized' = Put(finalized, heightOf[b], b)
        /\ blocks' = Put(blocks, heightOf[b], b)
        /\ oldest' = IF kept > oldest THEN kept ELSE oldest
        /\ verified' = Prune(verified, oldest') /\ notarized' = Prune(notarized, oldest')
        /\ Wake
        /\ Turn(viewOf[b], outstanding_notarize, {}, {})
        /\ UNCHANGED <<last_view_processed, requested_blocks, broadcast, client, lifetime>>

\* A finalization whose block is at hand is stored with it, and the archives
\* are pruned; otherwise the block is fetched and the finalization forgotten.
Finalize(b) ==
    LET found == b \in buffer \/ Holds(verified, b) \/ Holds(notarized, b)
        min_view == IF last_view_processed > ActivityTimeout
                    THEN last_view_processed - ActivityTimeout ELSE 0
        section == (min_view \div ItemsPerSection) * ItemsPerSection
        kept == IF section > oldest THEN section ELSE oldest
    IN  /\ up /\ b \in Decided
        /\ \/ /\ found
              /\ finalized' = Put(finalized, heightOf[b], b)
              /\ blocks' = Put(blocks, heightOf[b], b)
              /\ oldest' = kept
              /\ verified' = Prune(verified, kept)
              /\ notarized' = Prune(notarized, kept)
              /\ Wake
              /\ Turn(viewOf[b], outstanding_notarize, {}, {})
           \/ /\ ~found
              /\ FetchAndTurn({DigestKey(b)})
              /\ UNCHANGED <<archives, oldest, wake>>
        /\ UNCHANGED <<last_view_processed, requested_blocks, broadcast, client, lifetime>>

Notarize(b) ==
    LET found == b \in buffer \/ Holds(verified, b)
    IN  /\ up /\ b \in Reported
        /\ \/ /\ found
              /\ notarized' = PutUnpruned(notarized, oldest, viewOf[b], b)
              /\ UNCHANGED <<latest_view, outstanding_notarize, resolver>>
           \/ /\ ~found
              /\ Turn(latest_view, outstanding_notarize \union {viewOf[b]},
                      {NotarizedKey(viewOf[b])}, {})
              /\ UNCHANGED notarized
        /\ UNCHANGED <<verified, finalized, blocks, oldest, last_view_processed,
                       requested_blocks, wake, broadcast, client, lifetime>>

-----------------------------------------------------------------------------
(* Messages of the orchestrator's channel, from the finalizer.  It sends   *)
(* Processed after it recorded a block and before it asks for the next     *)
(* one, so a Repair always follows the Processed of the height before.     *)

\* Orchestration::Get changes nothing: what it answers.
OrchestrationGet(next) == At(blocks, next)

Processed ==
    LET next == processed + 1
    IN  /\ up /\ processed < indexed
        /\ processed' = next
        /\ last_view_processed' = IF finalized[next] = None THEN last_view_processed
                                  ELSE viewOf[finalized[next]]
        /\ requested_blocks' = {h \in requested_blocks : h > next}
        /\ Turn(latest_view, outstanding_notarize, {},
                {FinalizedKey(next), DigestKey(Final[next])})
        /\ UNCHANGED <<archives, oldest, wake, broadcast, indexed, lifetime>>

\* Bug of RepairFrom: it answers that it repaired a block it did not store.
RepairFromNothing(b) ==
    /\ Holds(verified, b) \/ Holds(notarized, b)
    /\ UNCHANGED <<blocks, requested_blocks, latest_view, outstanding_notarize, resolver>>

\* The copy of a block that verified or notarized holds becomes a final block.
RepairFrom(b) ==
    /\ Holds(verified, b) \/ Holds(notarized, b)
    /\ blocks' = Put(blocks, heightOf[b], b)
    /\ UNCHANGED <<requested_blocks, latest_view, outstanding_notarize, resolver>>

\* Bug of RequestMissing: the range starts above the height that is missing.
RequestMissingAbove(next, start_next, parent) ==
    LET missing == {h \in Heights : /\ next < h /\ h < start_next
                                    /\ h < next + RepairBatch
                                    /\ h \notin requested_blocks}
    IN  /\ ~Holds(verified, parent) /\ ~Holds(notarized, parent)
        /\ FetchAndTurn({DigestKey(parent)} \union {FinalizedKey(h) : h \in missing})
        /\ requested_blocks' = requested_blocks \union missing
        /\ UNCHANGED blocks

\* Ask for the parent by digest and for the missing heights by index.
RequestMissing(next, start_next, parent) ==
    LET missing == {h \in Heights : /\ next <= h /\ h < start_next
                                    /\ h < next + RepairBatch
                                    /\ h \notin requested_blocks}
    IN  /\ ~Holds(verified, parent) /\ ~Holds(notarized, parent)
        /\ FetchAndTurn({DigestKey(parent)} \union {FinalizedKey(h) : h \in missing})
        /\ requested_blocks' = requested_blocks \union missing
        /\ UNCHANGED blocks

\* What Repair does and answers: true when it stored a block, false when it could
\* only ask for what is missing, or found no block above a gap.
Repair(next, repaired) ==
    /\ up /\ processed = indexed /\ next = indexed + 1
    /\ \/ /\ StartNext(blocks, next) = {} /\ ~repaired
          /\ UNCHANGED <<blocks, requested_blocks, latest_view, outstanding_notarize, resolver>>
       \/ \E start_next \in StartNext(blocks, next) :
             LET parent == parentOf[blocks[start_next]]
             IN  \/ repaired /\ RepairFrom(parent)
                 \/ ~repaired /\ RequestMissing(next, start_next, parent)
    /\ UNCHANGED <<verified, notarized, finalized, oldest, last_view_processed, wake,
                   broadcast, client, lifetime>>

-----------------------------------------------------------------------------
(* Messages of the resolver.                                               *)

\* The resolver hands over some peer's value for a key (handler.rs) and waits
\* for the verdict; commands the actor sends meanwhile apply after it.
HandOver(key) ==
    /\ up /\ delivery = None /\ key \in fetching
    /\ fetching' = fetching \ {key}
    /\ delivery' = [key |-> key, kept |-> TRUE]
    /\ UNCHANGED <<archives, oldest, memory, broadcast, client, lifetime>>

\* Deliver: the value is stored; a final block also wakes the finalizer.
Accept(ans) ==
    LET key == delivery.key
    IN  /\ up /\ delivery # None
        /\ Accepts(key, ans)
        /\ delivery' = None
        /\ \/ /\ key[1] = "Notarized"
              /\ notarized' = PutUnpruned(notarized, oldest, key[2], ans.block)
              /\ UNCHANGED <<finalized, blocks, wake>>
           \/ /\ key[1] = "Finalized"
              /\ finalized' = Put(finalized, key[2], ans.proof)
              /\ blocks' = Put(blocks, key[2], ans.block)
              /\ Wake
              /\ UNCHANGED notarized
           \/ /\ key[1] = "Digest"
              /\ blocks' = Put(blocks, heightOf[ans.block], ans.block)
              /\ Wake
              /\ UNCHANGED <<notarized, finalized>>
        /\ UNCHANGED <<verified, oldest, latest_view, last_view_processed,
                       outstanding_notarize, requested_blocks, fetching, broadcast,
                       client, lifetime>>

\* Bug of Reject: the key is not fetched from other peers.
RejectForgets ==
    /\ up /\ delivery # None
    /\ {ans \in Answers : ~Accepts(delivery.key, ans)} # {}
    /\ delivery' = None
    /\ UNCHANGED <<archives, oldest, memory, fetching, broadcast, client, lifetime>>

\* Deliver of a value that fails a check (Panic is the other way to fail): the resolver
\* keeps fetching the key from other peers, unless the actor cancelled it meanwhile.
Reject ==
    /\ up /\ delivery # None
    /\ {ans \in Answers : ~Accepts(delivery.key, ans)} # {}
    /\ delivery' = None
    /\ fetching' = fetching \union (IF delivery.kept THEN {delivery.key} ELSE {})
    /\ UNCHANGED <<archives, oldest, memory, broadcast, client, lifetime>>

-----------------------------------------------------------------------------
(* The environment: broadcast cache, application, finalizer, and the disk. *)

Evict(b) ==
    /\ up /\ b \in buffer
    /\ buffer' = buffer \ {b}
    /\ UNCHANGED <<archives, oldest, memory, resolver, waiters, client, lifetime>>

\* The application drops its request (consensus moved on).
Abandon(b) ==
    /\ up /\ b \in waiters
    /\ waiters' = waiters \ {b}
    /\ UNCHANGED <<archives, oldest, memory, resolver, buffer, client, lifetime>>

\* The finalizer executed the next block and recorded its height.
Index ==
    /\ up /\ processed = indexed /\ OrchestrationGet(indexed + 1) # None
    /\ indexed' = indexed + 1
    /\ UNCHANGED <<archives, oldest, memory, resolver, broadcast, processed, lifetime>>

\* The finalizer takes a notification from its channel.
TakeWake ==
    /\ up /\ wake > 0
    /\ wake' = wake - 1
    /\ UNCHANGED <<archives, oldest, latest_view, last_view_processed,
                   outstanding_notarize, requested_blocks, resolver, broadcast, client,
                   lifetime>>

\* Bug of Crash: the requested heights survive, the fetches for them do not.
CrashKeepsRequests ==
    /\ up /\ crashes < MaxCrashes
    /\ up' = FALSE /\ crashes' = crashes + 1
    /\ oldest' = 0
    /\ latest_view' = 0 /\ last_view_processed' = 0
    /\ outstanding_notarize' = {} /\ wake' = 0
    /\ buffer' = {} /\ waiters' = {} /\ fetching' = {} /\ delivery' = None
    /\ processed' = indexed
    /\ UNCHANGED <<archives, requested_blocks, indexed>>

\* A crash keeps the archives and the finalizer's index; the prune boundary is
\* not persistent.
Crash ==
    /\ up /\ crashes < MaxCrashes
    /\ up' = FALSE /\ crashes' = crashes + 1
    /\ oldest' = 0
    /\ latest_view' = 0 /\ last_view_processed' = 0
    /\ outstanding_notarize' = {} /\ requested_blocks' = {} /\ wake' = 0
    /\ buffer' = {} /\ waiters' = {} /\ fetching' = {} /\ delivery' = None
    /\ processed' = indexed
    /\ UNCHANGED <<archives, indexed>>

\* Deliver of bytes too short for the block they announce: Block::read_cfg takes them with
\* get_u32 and copy_to_bytes, which panic, and the runtime does not catch panics
\* (with_catch_panics(false), node/src/args.rs:156).  The whole node crashes.
Panic == delivery # None /\ Crash

\* The actor never syncs an archive: any entry may be lost in a crash.
LoseVerified(v) ==
    /\ ~up /\ verified[v] # None
    /\ verified' = [verified EXCEPT ![v] = None]
    /\ UNCHANGED <<notarized, finalized, blocks>>
LoseNotarized(v) ==
    /\ ~up /\ notarized[v] # None
    /\ notarized' = [notarized EXCEPT ![v] = None]
    /\ UNCHANGED <<verified, finalized, blocks>>
LoseFinalized(h) ==
    /\ ~up /\ finalized[h] # None
    /\ finalized' = [finalized EXCEPT ![h] = None]
    /\ UNCHANGED <<verified, notarized, blocks>>
LoseBlock(h) ==
    /\ ~up /\ blocks[h] # None
    /\ blocks' = [blocks EXCEPT ![h] = None]
    /\ UNCHANGED <<verified, notarized, finalized>>
Lose ==
    /\ \/ \E v \in Views : LoseVerified(v) \/ LoseNotarized(v)
       \/ \E h \in Heights : LoseFinalized(h) \/ LoseBlock(h)
    /\ UNCHANGED <<oldest, memory, resolver, broadcast, client, lifetime>>

Restart ==
    /\ ~up /\ up' = TRUE
    /\ UNCHANGED <<archives, oldest, memory, resolver, broadcast, client, crashes>>

-----------------------------------------------------------------------------
Mailbox == \E b \in Block :
    \/ \E view \in {None, viewOf[b]} : Get(view, b)
    \/ Broadcast(b) \/ StoreVerified(b) \/ Finalize(b) \/ Notarize(b)
Orchestrated == Processed \/ \E repaired \in BOOLEAN : Repair(indexed + 1, repaired)
Deliver == Reject \/ \E ans \in Answers : Accept(ans)
Environment ==
    \/ \E key \in fetching : HandOver(key)
    \/ \E b \in Block : Evict(b) \/ Abandon(b)
    \/ Index \/ TakeWake \/ Crash \/ Panic \/ Lose \/ Restart

Next == Mailbox \/ Orchestrated \/ Deliver \/ Environment

Spec == Init /\ [][Next]_vars

\* The actor's loop and the resolver are scheduled, and the resolver keeps retrying
\* a key with other peers until one of them sends the right value.
AcceptFor(key) == delivery # None /\ delivery.key = key /\ \E ans \in Answers : Accept(ans)
Fairness ==
    /\ WF_vars(Processed)
    /\ WF_vars(Reject)
    /\ \A key \in Keys : SF_vars(HandOver(key)) /\ SF_vars(AcceptFor(key))

LiveSpec == Spec /\ Fairness

-----------------------------------------------------------------------------
(* Properties.                                                             *)

\* Keys the resolver still works on: fetching, or handing over and not cancelled.
Pursued == fetching \union {d.key : d \in {e \in {delivery} : e # None /\ e.kept}}

\* Every variable has the type its declaration in actor.rs gives it.
TypeOK ==
    /\ verified \in Archive(Views) /\ notarized \in Archive(Views)
    /\ finalized \in Archive(Heights) /\ blocks \in Archive(Heights)
    /\ oldest \in 0..MaxView
    /\ latest_view \in 0..MaxView /\ last_view_processed \in 0..MaxView
    /\ outstanding_notarize \subseteq Views /\ requested_blocks \subseteq Heights
    /\ wake \in 0..WakeCapacity
    /\ buffer \subseteq Block /\ waiters \subseteq Block
    /\ fetching \subseteq Keys
    /\ delivery \in [key : Keys, kept : BOOLEAN] \union {None}
    /\ indexed \in 0..TopHeight /\ processed \in 0..indexed
    /\ up \in BOOLEAN /\ crashes \in 0..MaxCrashes

\* What the finalizer will execute is the final chain, although only some of the
\* blocks come with a finalization: the others are accepted because their digest
\* is the parent of a stored block, or of a finalization already forgotten.
BlocksAreFinal ==
    \A h \in Heights : /\ blocks[h] \in {None, Final[h]}
                       /\ finalized[h] \in {None, Final[h]}

\* Why: a block is only asked for by its digest when it is final.
OnlyFinalRequested ==
    \A b \in Block :
        (DigestKey(b) \in fetching \/ (delivery # None /\ delivery.key = DigestKey(b)))
            => b \in FinalBlocks

StoreInv == TypeOK /\ BlocksAreFinal /\ OnlyFinalRequested

\* Pruning, which only looks at the view of the last processed block that came
\* with a finalization, never reaches a block the finalizer still has to execute.
PruneKeepsUnprocessed ==
    \A h \in Heights : h > processed => oldest <= viewOf[Final[h]]

\* Why: the pruning boundary and last_view_processed never pass the view of the last
\* processed block.
ProcessedView == IF processed = 0 THEN 0 ELSE viewOf[Final[processed]]
PruneInv == oldest <= ProcessedView /\ last_view_processed <= ProcessedView

\* requested_blocks and outstanding_notarize stop the actor from asking twice, so
\* what they hold must still be pursued by the resolver, or be here.
RequestsStayAlive ==
    /\ \A h \in requested_blocks : FinalizedKey(h) \in Pursued \/ blocks[h] # None
    /\ \A v \in outstanding_notarize :
          NotarizedKey(v) \in Pursued \/ notarized[v] # None \/ v < oldest

\* What Repair leaves behind when it answers false: the resolver works on the block under
\* the first gap above next, by its digest, and on the missing heights, by their index.
GapAsked(next) ==
    \A s \in StartNext(blocks, next) :
        /\ DigestKey(parentOf[blocks[s]]) \in Pursued
        /\ \A h \in Heights : next <= h /\ h < s /\ h < next + RepairBatch
               => FinalizedKey(h) \in Pursued \/ blocks[h] # None

\* Once a height is processed the resolver spends nothing on its finalization,
\* whatever was in flight when the Processed arrived.
NothingFetchedBehind ==
    /\ \A h \in Heights : FinalizedKey(h) \in Pursued => h > processed
    /\ \A h \in requested_blocks : h > processed

\* What the resolver was asked for is here, or of no use any more.
Done(key) ==
    \/ \E v \in Views : /\ key = NotarizedKey(v)
                        /\ notarized[v] # None \/ v < oldest \/ v < latest_view
    \/ \E h \in Heights : key = FinalizedKey(h) /\ (blocks[h] # None \/ h <= processed)
    \/ \E b \in Block : key = DigestKey(b) /\ (Holds(blocks, b) \/ heightOf[b] <= processed)

\* The resolver gives up a key only when it is done, although a delivery may be refused, and
\* cancellations are meant for other keys: who asked once need not ask again before a crash.
PursuedUntilDone == [][\A key \in Pursued : key \in Pursued' \/ Done(key)' \/ ~up']_vars

\* A certificate this node serves passes the checks of the peer that asked for it,
\* although its two halves come from two archives filled at different moments.
ServedCertificatesAccepted ==
    \A key \in {NotarizedKey(v) : v \in Views} \union {FinalizedKey(h) : h \in Heights} :
        \A ans \in Produce(key) : Accepts(key, ans)

\* The same of a block served by digest ("try notarized blocks", actor.rs:598).
ServedBlocksAccepted ==
    \A b \in Block : \A ans \in Produce(DigestKey(b)) : Accepts(DigestKey(b), ans)

\* "Wait for the blocks to be available or the request to be cancelled"
\* (application/src/actor.rs:190): a request that waits for a block the syncer has
\* stored meanwhile does not wait forever.
WaitersServed ==
    \A b \in Block : (b \in waiters /\ Holds(notarized, b)) ~> b \notin waiters
=============================================================================
