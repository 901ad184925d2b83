# A TLA+ model of Summit

Summit is a consensus client: each validator runs commonware's *threshold-simplex*
consensus, orders blocks with it, and drives an EVM execution client along the chain that
consensus finalizes. Consensus, peer-to-peer networking and storage are libraries. What the
repository adds, and what this directory models, is the code between them: the actors that
propose and check blocks, keep and backfill them, and execute them in order.

## 1. The system

| component | source | state it keeps | operations |
|---|---|---|---|
| Syncer actor | `syncer/src/actor.rs`, `ingress.rs`, `key.rs` | four archives (`verified`, `notarized` by view; `finalized`, `blocks` by height), `latest_view`, `last_view_processed`, `outstanding_notarize`, `requested_blocks` | `Get`, `Broadcast`, `StoreVerified`, `Finalize`, `Notarize` from its mailbox; `Get`, `Processed`, `Repair` from the finalizer; `Deliver`, `Produce` from the resolver |
| Finalizer | `application/src/finalizer.rs` | `last_indexed` and its durable copy, the height notifier's pending map | one loop: get the next block, check, commit, record, notify, tell the syncer; or repair and wait |
| Application actor | `application/src/actor.rs`, `ingress.rs` | `built_block`, the forkchoice it shares with the finalizer | `Genesis`, `Propose`, `Broadcast`, `Verify` |
| Engine | `node/src/engine.rs` | the channels between the others | start, restart |
| Blocks, certificates | `types/src/block.rs` | none | digest, encodings |
| Resolver handler | `syncer/src/handler.rs` | a bounded mailbox | deliver, produce |
| Registry | `syncer/src/registry.rs` | sets of participants by number, the latest number | new; add and remove (no caller yet); peers, peer_set_id, leader, participants, is_participant |
| Genesis, keys and shares | `types/src/genesis.rs`, `node/src/keys.rs`, `config.rs`, `args.rs`, `bin/dkg_testnet.rs` | files | write them (`dkg_testnet`), replace a key (`keys generate`), read them (`run`) |
| Execution client | `application/src/engine_client.rs` | its head | newPayload, forkchoiceUpdated, getPayload |
| Consensus, resolver, broadcast buffer, archives | commonware libraries | | external |
| Supervisor, Coordinator, argument parsing, testnet processes, metrics | rest of `node`, `syncer`, `application` | constants | startup, reporting |

How they interact. Consensus calls the application (propose, verify, broadcast) and reports
notarizations and finalizations to the syncer. The application asks the syncer for blocks
and hands it the verified ones; a proposer also asks the finalizer, through a channel of
(height, sender) pairs, to be told when the parent is executed, and then reads the shared
forkchoice and sends it to the execution client, to build on. The execution client thus has two
callers that move its head: the finalizer, which commits, and the proposer. The syncer pokes the finalizer through a channel of units whenever it stores a
final block; the finalizer asks the syncer for the next block and for repairs through a
channel of two entries. The syncer and its resolver, a task of its own, call one another.
Before any of that, `summit run` reads the genesis, its share and its key from files that
other programs write, and gives the committee and the share to the registry, which consensus
and the resolver read concurrently.

What is hard. All of it is concurrent tasks joined by bounded channels, `try_send`s,
`select!`s that drop futures, and a resolver that delivers late and wrong values; nothing in
the archives is synced, the index of the finalizer and the votes of consensus are, and the
forkchoice and the built block are in memory only.
`PROJECT.json` lists each hazard at its line and the property that watches it.

What makes each component correct:

* **Syncer**: only final blocks reach the archive that is executed from; nothing is pruned
  that is still needed; what is marked as requested is really being fetched; what is
  cancelled stays cancelled; what is served is acceptable; who waits for a block gets it.
* **Finalizer**: the final chain is committed in order, a block again only after a crash that
  hit before it was recorded; nobody but the proposers sets the client's head back; no lost
  wakeup; no blocked channel; no waiter left behind.
* **Application**: what is broadcast is what was built and passes the peers' check; one
  stuck request does not stop the others.
* **Validators together**: the block of a certificate is held by somebody, and reaches everybody
  who needs it, whoever crashes.
* **Registry**: index and list agree after any changes; what a reader was given stays as it is;
  a reader finds what it looks for and the resolver ends up with the latest list.
* **Files**: a node that runs signs with the share that belongs to its index.
* **Node**: the two tasks satisfy what each assumes of the other, and together catch up.
* **Network**: the chain grows when timers stop expiring on live leaders.

## 2. The modules

| module | what it is | composes |
|---|---|---|
| `Chain` | blocks, the final chain, what consensus guarantees (`ChainAssumption`), archives | |
| `Syncer` | the syncer actor, with resolver, buffer, disk and finalizer as environment | `Chain` |
| `OrderedExecution` | abstract: what a node promises of execution | `Chain` |
| `Finalizer` | the finalizer's loop at the granularity of its awaits, with an abstract syncer | `Chain`; implements `OrderedExecution` |
| `Node` | both together, joined by their real channels | `Syncer`, `Finalizer` |
| `Application` | the application actor with consensus as environment | `Chain` |
| `Custody` | who holds the block of one view: leader, verifiers, certificates, crashes | |
| `Setup` | the files of a network and the programs that write and read them | |
| `Registry` | the sets of participants, their writers and readers | |
| `Membership` | abstract: what the registry promises of the history of committees | |
| `Committee` | a node that starts from those files and creates its registry with them | `Setup`, `Registry`; implements `Membership` |
| `Rounds` | validators taking turns at proposing, and the voting rules of simplex | |
| `ChainProofs`, `SyncerProofs`, `FinalizerProofs`, `NodeProofs`, `ApplicationProofs`, `CustodyProofs`, `CommitteeProofs`, `RoundsProofs` | theorems | |
| `MC...` | constants for the model checker | |

**Blocks are opaque.** A block is a model value; `heightOf`, `parentOf` and `viewOf` are
constant functions, and a certificate is the block it certifies. `ChainAssumption` is what
consensus promises: one certified block per view, one final chain with consecutive heights
and increasing views. It does *not* say that certified blocks are final: the `Fork` instance
has a certified block that loses.

**Syncer.** One action per `select!` arm and message; the cancellation at the top of the
loop (`actor.rs:212-223`) is `Turn`, conjoined to every handler. `Accepts(key, ans)` is the
chain of checks of `Deliver`, `Produce(key)` the value served for a key, both over the three
kinds of encodings, with `Decodes` for what each decoder takes. `delivery` holds the value
the resolver is handing over; `delivery.kept` turns false when the actor cancels its key
meanwhile (`HandOver`, then `Accept` or `Reject` at any later time). A put below the pruned
section does nothing, as `AlreadyPrunedTo` is ignored; pruning rounds down to sections.
`Index` and `TakeWake` stand for the finalizer: it records only blocks the store has, one
ahead of the last `Processed` at most. `Reject` is a refused answer; one whose bytes are too short
for `Block::read_cfg` (`types/src/block.rs:188-190`) panics there instead, which ends the process:
`Panic`, a crash while a delivery is being handled. A `Crash` keeps the archives and the index, then
`Lose*` drops any unsynced entries before `Restart`. The constants `Gossiped`, `Verifiable`,
`Reported`, `Decided` (whose finalization consensus reports) and `Asked` are scopes: the blocks the
environment uses in each way. The theorems hold for all of them.

**Finalizer.** `pc` is the await the loop stands at: `getting`, `check` (newPayload),
`commit` (forkchoiceUpdated), `publish`, `persist`, `processed`, `repair`, `repairing`,
`wait`. `orch`, `wake` and `mailbox` are its channels. A crash may hit at any of them.
`pending`/`answered` are the height notifier. The execution client is `evm_head` and a
nondeterministic, bounded number of refusals. A crash while a call to it is under way leaves the
call handled or not; `committed`, a history variable, is the height the finalizer last had it commit.

The execution client's head has a second writer. A proposer that is let go reads the shared
forkchoice and sends it with `start_building_block` (`StartBuilding`, `application/src/actor.rs:249-258`),
which is the same `engine_forkchoiceUpdated` as a commit. The call waits in `calls` until the client
hears of it (`UpdateHead`), however late: after further commits, after the proposal was aborted,
after a crash; and the client moves its head to it or leaves it (`engine_client.rs:7`: "This updates
the forkchoice head to a specific head"; what a client does with a head that is already behind its
own is its business). So `OrderedExecution` does not promise that the head only moves forward, and
it does not: after a restart a released proposer sends genesis (`finalizer_restart`), and a late call
undoes a commit until the next one. What it does promise: commits come in the order of the chain, a
block again only if the crash hit before its record; a height is recorded after its commit; a
proposer is released only up to what is recorded; and the head, whoever set it, is a block that was
committed, or genesis.

**Node.** `S == INSTANCE Syncer`, `F == INSTANCE Finalizer`, with the shared variables
identified. The syncer's handlers of the finalizer's requests are the real ones
(`HandleGet`, `HandleProcessed`, `HandleRepair`) and `S!Index`, `S!TakeWake` and
`F!Syncer` disappear; that the composition refines both modules is checked. A proposer first asks
its syncer for the parent (`HasParent`), then the finalizer for its height (`Ask`), and then calls
the execution client (`Build`). `Extended`, the heights it may be asked to build on, is a scope. `NodeAssumption` is
what the two modules assume of their bounds and scopes, said of the node's constants.

**Application.** `proposal` is the one `handle_proposal` the loop awaits, with the stage it
is at; `tasks` are the spawned verifications. A request whose view consensus left has a
closed channel: `AbortProposal`, `AbortVerify`. Blocks are records here, because what a
proposer fills in (`parent`, `height`, the block its payload builds on) and what
`handle_verify` compares matter; the timestamp is the Boolean of that comparison.
`ParentChoice` is simplex's rule for the parent. There is no crash in this module: what
one does to the built block and to a vote is in `Custody`, and the forkchoice it resets is
the subject of `finalizer_restart`.

**Custody.** One view and its block, seen from every validator: the variables are sets of
validators. The leader has the block in `built_block`, votes without storing it, and
broadcasts it; another validator that finds the block hands it to its syncer's mailbox
(`queued`) and answers consensus, which journals the vote (`Respond` is both, since a crash
before the vote leaves strictly less behind). The syncer puts it in `verified`; a certificate
puts it in `notarized`, or has it fetched by its view from a peer's `notarized`. A crash
clears the memory, keeps the vote and loses any part of the unsynced archives. Who may crash
(`Fragile`) is a scope, and a parameter of the theorems.

**Setup.** `dkg_testnet` writes each node's key, then its share, node after node, and the
genesis last; each `fs::write` empties the file first (`Truncate`), and the program may be
interrupted at any point (`Interrupt`) and run again. A key or a share that is cut short cannot be
read; a genesis that is cut behind one of its validators can, with fewer of them. `dkg_testnet` then
refuses it (`GenesisIsWhole`), and `run` does so too unless as many shares make a quorum of the
shorter committee as of the whole one (`PolynomialDecodes`): with four validators, three will do. `keys generate` may overwrite any key
at any time. A starting node (`self`) reads genesis, share and key in this order, and goes on
only if its key is in the committee. Keys are numbers because both programs sort them. The
initial files are the committed ones: a genesis and keys, no shares.

**Registry.** `add_participant` and `remove_participant` take the write lock, `StoreLatest`
stores the new number, `Insert` inserts the set and releases the lock; between the two the
number is ahead of the map. Readers load the number without the lock (a relaxed load: any
number between the last one the task has seen, by either of its reads, and the current) and then look it up under it.
`leaders` is whom the two `leader` functions may name from a set: any member, or None when removals
have left none. `SwapRemove` is `Vec::swap_remove`. Nothing in the repository calls the two writers; the
model lets any sequence of calls happen while the node runs.

**Committee.** `Join` is the last step of a start: the node finds its key in the committee it
read and `Engine::new` creates the registry with that committee, sorted. `Leave` is the end
of the process. Seen from outside, the sets are the `History` of `Membership`: each is the one
before it with one key more or less, and the resolver's list (`peers`) only moves forward in it.

**Rounds.** The wait of `handle_proposal` (`CanPropose`) and the finalizer's progress among
simplex's external voting rules: a validator that timed out in a view casts no finalize vote
in it, a view ends by a certificate or a quorum of nullify votes, and every leader builds on
the last certified block. Views need no number.

## 3. The runs

| run | instance | states | what it shows |
|---|---|---|---|
| `syncer_run` | Fork (2 final heights, 3 views, one losing certified block), batch of 20, 1 crash | 391k | `TypeOK`, `BlocksAreFinal`, `PruneKeepsUnprocessed`, `NothingFetchedBehind`, `RequestsStayAlive`, `ServedCertificatesAccepted`, `PursuedUntilDone` under every order of messages and every answer of the resolver |
| `syncer_served` | Pair (2 final heights) | violation | `ServedBlocksAccepted` |
| `syncer_waiters` | Pair, `LiveSpec` | violation | `WaitersServed` |
| `finalizer_run` | Pair, 2 proposers, 1 refusal, 1 crash, `LiveSpec` | 146k | `TypeOK`, `ExecutesInOrder` (refinement of `OrderedExecution`), `PendingAhead`, `NoLostWakeup`, `OrchestratorNeverBlocks`, `ForkchoiceCaughtUp`, `ExecutesAll`, `ProposersReleased` |
| `finalizer_restart` | Pair, 1 crash | violation | `ForkchoiceReady` |
| `finalizer_refused` | Pair, 1 refusal | violation | `WaitsOnlyWhenIdle` |
| `node_run` | Pair, of which only the second finalization is reported; 1 proposer that builds on the first, 1 crash, `LiveSpec` | 49k | `SyncerRuns`, `FinalizerRuns` (the composition is a behaviour of both modules), `RequestsInOrder`, `NoLostWakeup`, `GapIsFetched`, `CatchesUp` |
| `application_live` | Fork (2 final heights, one losing certified block), `LiveSpec` | 115k | `TypeOK`, `BroadcastIsBuilt`, `ProposalsVerify`, `RequestsTaken` |
| `custody_run` | 4 validators, quorum 3, the leader or another crashing again and again, `LiveSpec` | 159k | `TypeOK`, `VotersKeep`, `CertifiedBlockHeld`, `VotersNeedNoFetch`, `CertifiedBlockSpreads` |
| `custody_crash` | the same | violation | `VotersPersist` |
| `committee_run` | 2 nodes, 6 keys, 2 runs of `dkg_testnet`, 2 changes of the set | 413k | `TypeOK`, `OwnIndexHasShare`, `MapMatchesList`, `LookupsAnswer`, `ResolverNotStale`, `ViewsStay`, `KeepsMembership` (refinement of `Membership`) |
| `rounds_grows` | 4 validators, quorum 3, 2 late timers, `LiveSpec` | violation | `ChainGrows` |

Deadlock is not checked: with its bounds used up every instance stops, and a node with
nothing to do waits.

### What the violations say

* `syncer_served`: a block found in the *notarized* archive is served by digest as a whole
  `Notarized` (`actor.rs:600`), which the peer's `Block::decode` refuses, if it does not panic on it.
* `syncer_waiters`: a `Get` that triggers a fetch subscribes to the broadcast buffer alone
  (`actor.rs:277-282`); what the fetch brings is stored and never handed to it. The `Get` waits until
  its caller gives up: consensus cancels it when the view ends, which the specification allows
  (`Abandon`) and, since no code of the repository does it, does not force.
* `finalizer_restart`: the forkchoice restarts at genesis (`application/src/actor.rs:67`)
  while the index does not; a proposer is let go before anything is committed again, and sends
  genesis to the execution client as the head to build on.
* `finalizer_refused`: a payload that is not valid at once (`finalizer.rs:90`) is tried again
  only when some other block arrives, or a proposer asks for a height (`finalizer.rs:146`).
* `custody_crash`: a verdict is sent when the block is in the syncer's mailbox
  (`application/src/actor.rs:202`), and the archive is never synced: after a crash the vote is
  there and the block may not be, until a certificate or a `Get` has it fetched. `custody_run` shows what saves the network: while fewer than
  `Quorum - 1` voters have crashed, another voter has the block and everybody gets it from there.
* `rounds_grows`: a certified block without a quorum of finalize votes stops the chain. Two
  of four validators vote for it and time out before its certificate; only two are left to
  finalize it. Everybody knows the certificate, so every leader must build on that block,
  and `handle_proposal` waits for its execution until the view ends. With no late timer
  (`MaxLate = 0`, two heights) the same property holds, and no such block exists at all
  (`StallNeedsLateTimer`).

### Bounds, and why they are enough

Two heights and three views give the syncer's archives a gap below a stored block, a block that
is not final between two that are, and views on both sides of the pruning boundary;
`ActivityTimeout` and `ItemsPerSection` are small enough for pruning to happen. `node_run` takes
two views, and the one case in which the node depends on backfilling: it hears of the last
finalization only. Longer gaps, and more than one batch of missing heights, are not in the runs;
the theorems on the syncer and the node are about every chain, every batch and every section. One crash in `Finalizer`, `Syncer`
and `Node` may hit between any two steps, and states after it include those of a fresh start
with arbitrary parts of the archives lost. Two proposers are enough for one to be registered
and one in the mailbox, or for the call of one to reach the client after the other's release; two
heights for such a call to be behind by a commit, by two, or to say genesis. Proposals are handled
one at a time, so that only the last one that asked goes on to build. `WakeCapacity` 2 is the real one: the buffer of one, plus the one
sender's guaranteed slot (`node_run` takes 1, which loses more notifications). `OrchCapacity` is the code's 2;
the module's channel is unbounded, and `OrchestratorNeverBlocks` says the bound is never
reached. `RepairBatch` is the code's 20. `MaxRefusals`, `MaxAsks`, `MaxCrashes`, `MaxLate`, `MaxCrashed`, `MaxRuns` bound the environment
only. In `Custody` a validator that crashes may do so without limit; one of four is the number
of failures the quorum tolerates. The leader or one other may: the other three are alike. In `Committee` two runs of `dkg_testnet` are enough for every
file to be of another run than its neighbour, six keys for a run's keys to sort before, between
and after those that are there; two changes of a set of two (`MaxViews` 3) include removing
the last, the other and the added key, down to no member, and adding twice. With two validators a
genesis that was cut short is always refused; that a start from one that is accepted is safe is in the
theorem, for every number of validators. Nothing in these instances is
symmetric: blocks are ordered by their heights, validators by the leader, keys by number.

### Fairness

* `Finalizer`, `Node`: weak fairness of the finalizer's loop and of the syncer's handling of
  its channel: both are tasks of a runtime that polls what is ready, and the syncer's
  `select!` reaches the channel of requests whenever its mailbox is empty. `Finalizer` also
  assumes that every final block arrives and that a stopped node is restarted.
* `Node`: strong fairness of the delivery of a block fetched by digest: the resolver retries
  with other peers after every refusal (`fetch_retry_timeout`), so a block that stays
  requested is answered correctly in the end. That takes a peer that has the
  block in its buffer or `verified`, or in `blocks` and not in `notarized`, since what it serves from
  `notarized` nobody decodes (`syncer_served`). It also takes an answer that does not panic; panics are among the bounded
  crashes. Nothing is assumed of other keys.
* `Syncer` (for `WaitersServed`): the same of all keys, so that the violation is not one of
  an idle resolver.
* `Application`: the actor and its tasks are scheduled and consensus leaves every view, by a
  timeout if need be. That a parent is ever available or executed is not assumed.
* `Custody`: a syncer handles its mailbox and consensus reports the certificate to every
  validator that does not crash; a resolver asks peers until one delivers. That the broadcast
  arrives, that anybody votes, and that a crashed validator restarts is not assumed.
* `Rounds`: everybody votes and everything arrives; late timers are the only fault, and they
  are finitely many.

## 4. What is proved

All theorems are checked by `tlapm` for every value of the constants that satisfies the named
assumptions: `ChainAssumption` (what consensus guarantees) and each module's own
(`SyncerAssumption` and so on; `NoneAssumption` says that the mark of an absent value is no
delivery of the resolver, `DescentAssumption` that a block certified after a final one is above it,
which is consensus' safety once more). TLC evaluates each of them on the instances it runs.

* `SyncerProofs`: `TypeCorrect`, `StoresFinalBlocks` (`[]BlocksAreFinal`) and `PruningIsSafe`
  (`[]PruneKeepsUnprocessed`). `BlocksAreFinal` is not inductive: a block delivered by digest
  is stored without a certificate, so the invariant must say why it was asked for.
  `StoreInv == TypeOK /\ BlocksAreFinal /\ OnlyFinalRequested` adds that digests are only
  ever requested of final blocks: of a reported finalization, or of the parent of a block
  in `blocks`, final because that block is (`FinalParent`). Pruning needs `PruneInv`: the
  boundary and `last_view_processed` stay below the view of the last processed block;
  views grow along the final chain, and a prune rounds down (`SectionBelow`).
  Of fetching and serving: `ProcessedIsLeftAlone` (`[]NothingFetchedBehind`), `RequestsAreTrue`
  (`[]RequestsStayAlive`) and `CertificatesAreServed` (`[]ServedCertificatesAccepted`). The key
  lemma is `TurnPursues`: whatever the resolver was doing with a key, one turn of the loop
  leaves it pursued exactly if it was, or is fetched, and is not cancelled. `AskInv` adds that a
  node that is down asks nothing and that the finalization of every requested height is pursued
  or stored; `ViewInv` that the notarized archive holds certified blocks at their views. `ResolverPursues` (`[][...]PursuedUntilDone`): no step but a crash gives up a key
  that is not done. `WhoEndsPursuit` names the steps that end one: a turn that cancels, an accepted
  answer (`AcceptedIsDone`, over the three kinds of keys) and a crash.
* `FinalizerProofs`: `IInv == TypeOK /\ LoopInv /\ PendingAhead` is inductive. `LoopInv` says
  what the loop knows at each await: the block it holds is the next final one (`GotIsNext`),
  what the channel to the syncer contains (`OrchShape`), and that a block it has not seen
  has left a notification (`Woken`). From it: `TypeCorrect`, `NobodyLeftBehind`
  (`[]PendingAhead`), `WakeupsAreKept` (`[]NoLostWakeup`), `TwoEntriesSuffice`
  (`[]OrchestratorNeverBlocks`, from `OrchCapacity >= 2`), and `Refinement`
  (`Spec => ExecutesInOrder`): `CommitHash` is `Execute`, `Persist` is `Record`, `TakeRequest` is
  `Release`, `Crash` and `StartBuilding` are `Forget`, `UpdateHead` is `Rewind`, and every other
  step stutters. It needs `CommitsTrail`: what is with the client, with the application or in a call
  on its way is a head that was committed, or genesis, and `committed` is the index or one more.
  `ForkchoiceKeepsUp` (`[]ForkchoiceCaughtUp`) needs `ForkchoiceInv`: the publication of a
  height precedes its record, so what is answered is published. `OnlyRefusalsStrand` says how far the
  violation of `finalizer_refused` goes: while no payload was refused, `WaitsOnlyWhenIdle` holds,
  as the loop asks for a repair empty-handed (`EmptyHanded`). `ReleasedIsExecuted` says of every
  proposer that is released, and of every call on its way to the client, that the height it waited
  for has been committed, also when a restarted node's forkchoice says genesis (`finalizer_restart`),
  and that the client's head is never beyond what was committed. It does not say that the head is at
  that height when the proposer goes on: it need not be.
* `NodeProofs`: `NodeIsSyncer` and `NodeIsFinalizer`: the composition implements both modules.
  `NodeInv` has what each side must know of the other: `ChannelInv` ties the channel's content
  and the distance of `processed` from `indexed` to the place where the finalizer stands,
  `HasNext` says that a block being executed is still stored, `KeysInv` and `StoreIsFinal` that
  what the syncer may store is final. From it also `ChannelInOrder` (`[]RequestsInOrder`).

  Because the node implements both, what is proved of them alone is then true of it: `SP` and
  `FP` are the two proof modules instantiated with the node's state, and their theorems give
  `SyncerPromises` (the five invariants of the syncer), `NodePursues` (`PursuedUntilDone`),
  `FinalizerPromises`, `WakeupsAreKept` (`[]NoLostWakeup`), `OnlyRefusalsStrandNode`,
  `NodeReleasesExecuted` and `NodeExecutesInOrder`: a node, whatever its peers answer, whatever a
  crash loses and whatever its proposers send to the client, implements `OrderedExecution`.

  `GapsAreFetched` (`[]GapIsFetched`) is the safety half of `CatchesUp`: while the finalizer
  sleeps with no notification pending, its next block, if it is not there although a
  certificate above it is known, is being fetched, by its height or, below a gap, as a parent
  (`GapAsked`). It joins what neither component knows alone: that the repair was asked for before
  the finalizer went to sleep (`StartsToWait`), what a repair leaves pursued (`RepairAsks`), and
  that each step that ends a fetch also stores the block and notifies (`PursuitEnds`,
  `GapStaysAsked`, `GoesOnWaiting`). What is left to fairness is that the resolver's answer comes.
* `ApplicationProofs`: `TypeCorrect`, `SlotHoldsBroadcast` (`[]BroadcastIsBuilt`) and
  `BroadcastsPass` (`[]ProposalsVerify`). `BuiltInv`: between a proposal and its broadcast nothing in
  the mailbox fills the slot again. `ParentInv`: while consensus stays in the view it asked in,
  no final block beyond the parent can be executed, so that the forkchoice, read late, is the
  parent (`ForkchoiceIsTheParent`, from `DescentAssumption`).
* `CustodyProofs`: `TypeCorrect`, `VotersAreHolders` (`[]VotersKeep`) and `CertifiedBlockIsHeld`
  (`[]CertifiedBlockHeld`): a quorum of votes less the crashed voters and the leader is not empty
  (`QuorumHasKeeper`), and who remains has kept the block. `VotersFetchNothing`
  (`VotersNeedNoFetch`): the mailbox hands the certificate on after the block, so a voter finds it.
* `CommitteeProofs`: `TypeCorrect`, `ShareFitsIndex` (`[]OwnIndexHasShare`), `MapsAreInverse`,
  `ReadersFind`, `ResolverHasLatest` and `ReferencesStayValid`. Of the files the invariant says,
  of any genesis that is or was readable (`Known`), that a key of it has a share of it beside it,
  because a later run replaces a node's key before its share and draws new keys, and a genesis that
  is cut short lists the first nodes of the run that wrote it; of the start
  (`StartInv`) that a node whose key is in its genesis has read that key's share; and two sorted
  lists of the same keys are equal (`SortedUnique`), so that the index is the same in both
  programs. Of the registry: while the lock is held and the number stored the map is one set
  behind, and never otherwise (`ViewsInv`), so that a lookup finds its set, and with it that a leader
  is missing from an empty set only. `Refinement` (`Spec => KeepsMembership`): `Insert` is
  `Change`, `reconcile` is `Follow`, `Join` and `Leave` open and close, and every other step
  stutters. It needs `EditInv`, that what the holder of the lock will insert is one key apart from
  the last set in the map, and that a resolver that has read a new number has not read an older
  one than that of its list (`ReadersInv`).
* `RoundsProofs`: the stall that `rounds_grows` finds with four validators, for any number of
  them and any quorum. `OneBlockAhead`: at most one certified block is not final, because a
  proposal waits for the execution of its parent. `StallIsForEver`: once more validators have
  timed out in the view of that block than the quorum leaves over (`Stalled`), it never becomes
  final and no other block is ever certified, however long timers, votes and executions take.
  `StallNeedsLateTimer`: only a timer that expires on a leader that has proposed brings this about.
  Before the first of them (`TimelyInv`), who has timed out did so before the proposal, and is not
  among the voters, or on a block that can no longer be certified; so a certificate's voters are a
  quorum that has not timed out.
  The hypotheses, a finite set of validators and a quorum of at least one, stand in the theorems.
* `ChainProofs`: lemmas on archives, sections and the final chain.

Only model-checked: the liveness properties (`ExecutesAll`, `ProposersReleased`, `CatchesUp`,
`RequestsTaken`, `CertifiedBlockSpreads`; liveness under fairness is beyond the prover, and what
is proved of each is its safety half: `Refinement`, `NobodyLeftBehind`, `OnlyRefusalsStrand`,
`GapsAreFetched`, `NodePursues`, `CertifiedBlockIsHeld`, `VotersFetchNothing`) and the properties that the code violates.

## 5. What is not modelled

* Bytes: the SSZ and codec formats, signatures. An answer of a peer decodes and verifies, or not.
* Whether the syncer actor and its resolver can wait for room in one another's mailbox
  (`syncer/src/actor.rs:437`, `handler.rs:40`): both hold 16384 messages, and whether the
  library's resolver awaits a delivery before it takes the next fetch cannot be read from this
  repository. Likewise the overflow of the notifier's channel of 1000, which panics.
* What a proposer does after it has read the forkchoice is in `Application`, without a restart, as far
  as the block goes, and in `Finalizer` as far as the client's head goes; what the client makes of a
  head behind its own, and of a payload that is invalid, is not in either. That validators vote for
  blocks whose payload no client has checked is listed among the hazards, with no property.
* Two runs of `dkg_testnet` at the same time, which could write into one another's files.
* Two complete syncers serving one another: `ServedCertificatesAccepted` says of one what the
  other relies on, and `Custody` follows one block between validators.
* The change of shares that a change of participants would call for: the code has none.
* The unused `Supervisor` and `Coordinator`; argument parsing, the local testnet's child
  processes, the network's channels, metrics.
* Values of timestamps; simplex beyond what `Application`, `Custody` and `Rounds` use of it.

## 6. Plan

Every module of the original plan is written: `Chain`, `Syncer`, `Finalizer`,
`OrderedExecution`, `Node`, `Application`, `Rounds`, then `Custody`, `Setup`, `Registry`,
`Membership` and `Committee`, each with its proofs; every invariant, action property and refinement
that a passing run checks is the statement of a theorem. What would come next, were the code to grow
that way: the callers of `add_participant` and `remove_participant` with the re-sharing they
need, and the mailboxes between syncer and resolver once the resolver's own loop can be read.
