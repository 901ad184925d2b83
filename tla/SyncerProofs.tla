------------------------------ MODULE SyncerProofs ------------------------------
(***************************************************************************)
(* What the syncer's stores hold, what it prunes, what it asks the         *)
(* resolver for and what it serves, for every chain, every scope and every *)
(* bound.                                                                  *)
(***************************************************************************)
EXTENDS Syncer, ChainProofs

\* What the loop's turn does to the resolver, and the types it keeps.
LEMMA TurnFacts ==
    ASSUME TypeOK, NEW latest \in 0..MaxView, NEW outstanding \in SUBSET Views,
           NEW fetched \in SUBSET Keys, NEW cancelled,
           Turn(latest, outstanding, fetched, cancelled)
    PROVE  /\ latest_view' \in 0..MaxView
           /\ outstanding_notarize' \subseteq Views
           /\ fetching' \subseteq Keys
           /\ fetching' \subseteq fetching \union fetched
           /\ delivery' \in [key : Keys, kept : BOOLEAN] \union {None}
           /\ delivery' # None => delivery # None /\ delivery'.key = delivery.key
<1> DEFINE D == [key : Keys, kept : BOOLEAN]
<1>1. /\ latest_view' \in 0..MaxView /\ outstanding_notarize' \subseteq Views
      /\ fetching' \subseteq Keys /\ fetching' \subseteq fetching \union fetched
  BY DEF Turn, TypeOK
<1>2. delivery \in D \union {None} /\ delivery' \in {delivery, [key |-> delivery.key, kept |-> FALSE]}
  BY DEF Turn, TypeOK
<1>3. CASE delivery' = delivery
  BY <1>1, <1>2, <1>3
<1>4. CASE delivery # None /\ delivery' = [key |-> delivery.key, kept |-> FALSE]
  <2>1. delivery \in D
    BY <1>2, <1>4
  <2>2. delivery' \in D /\ delivery'.key = delivery.key
    BY <2>1, <1>4
  <2> QED BY <1>1, <1>4, <2>2
<1>5. delivery' = delivery \/ delivery # None
  BY DEF Turn
<1> QED BY <1>2, <1>3, <1>4, <1>5

\* The keys the actor fetches are keys.
LEMMA KeyTypes ==
    /\ \A v \in Views : NotarizedKey(v) \in Keys
    /\ \A h \in Heights : FinalizedKey(h) \in Keys
    /\ \A b \in Block : DigestKey(b) \in Keys
    /\ \A v, b : NotarizedKey(v) # DigestKey(b)
    /\ \A h, b : FinalizedKey(h) # DigestKey(b)
    /\ \A a, b : DigestKey(a) = DigestKey(b) => a = b
BY DEF Keys, NotarizedKey, FinalizedKey, DigestKey

LEMMA InitStore == Init => StoreInv
<1> SUFFICES ASSUME Init PROVE StoreInv
  OBVIOUS
<1>1. TypeOK
  BY EmptyType, ChainAssumption, SyncerAssumption DEF Init, TypeOK
<1>2. BlocksAreFinal
  BY DEF Init, BlocksAreFinal, Empty
<1>3. OnlyFinalRequested
  BY DEF Init, OnlyFinalRequested
<1> QED BY <1>1, <1>2, <1>3 DEF StoreInv

-----------------------------------------------------------------------------
(* Each handler keeps StoreInv.                                            *)

LEMMA GetStore ==
    ASSUME StoreInv, NEW b \in Block, NEW view \in {None, viewOf[b]}, Get(view, b)
    PROVE  StoreInv'
<1> DEFINE keys == IF view = None THEN {} ELSE {NotarizedKey(view)}
<1>1. TypeOK
  BY DEF StoreInv
<1>2. keys \in SUBSET Keys
  BY KeyTypes, ChainAssumption
<1>3. Turn(latest_view, outstanding_notarize, keys, {})
  BY DEF Get, FetchAndTurn
<1>4. latest_view \in 0..MaxView /\ outstanding_notarize \in SUBSET Views
  BY <1>1 DEF TypeOK
<1>5. /\ latest_view' \in 0..MaxView /\ outstanding_notarize' \subseteq Views
      /\ fetching' \subseteq Keys /\ fetching' \subseteq fetching \union keys
      /\ delivery' \in [key : Keys, kept : BOOLEAN] \union {None}
      /\ delivery' # None => delivery # None /\ delivery'.key = delivery.key
  BY ONLY <1>1, <1>2, <1>3, <1>4, TurnFacts
<1>6. TypeOK'
  BY <1>1, <1>5 DEF TypeOK, Get, archives, client, lifetime
<1>7. BlocksAreFinal'
  BY DEF StoreInv, BlocksAreFinal, Get, archives
<1>8. OnlyFinalRequested'
  BY <1>5, KeyTypes DEF StoreInv, OnlyFinalRequested
<1> QED BY <1>6, <1>7, <1>8 DEF StoreInv

\* Steps that leave the stores and the resolver alone.
LEMMA QuietStore ==
    ASSUME StoreInv, TypeOK', UNCHANGED <<finalized, blocks>>, UNCHANGED resolver
    PROVE  StoreInv'
<1>1. BlocksAreFinal'
  BY DEF StoreInv, BlocksAreFinal
<1>2. OnlyFinalRequested'
  BY DEF StoreInv, OnlyFinalRequested, resolver
<1> QED BY <1>1, <1>2 DEF StoreInv

LEMMA StoreVerifiedStore ==
    ASSUME StoreInv, NEW b \in Block, StoreVerified(b)
    PROVE  StoreInv'
<1>1. verified' \in Archive(Views)
  BY PrunableType, ChainAssumption DEF StoreVerified, StoreInv, TypeOK
<1>2. TypeOK'
  BY <1>1 DEF StoreInv, TypeOK, StoreVerified, memory, resolver, broadcast, client, lifetime
<1> QED BY <1>2, QuietStore DEF StoreVerified

LEMMA BroadcastStore ==
    ASSUME StoreInv, NEW b \in Block, Broadcast(b)
    PROVE  StoreInv'
<1>1. TypeOK'
  BY DEF StoreInv, TypeOK, Broadcast, archives, memory, resolver, client, lifetime
<1> QED BY <1>1, QuietStore DEF Broadcast, archives

LEMMA FinalizeStore ==
    ASSUME StoreInv, NEW b \in Block, Finalize(b)
    PROVE  StoreInv'
<1> DEFINE min_view == IF last_view_processed > ActivityTimeout
                       THEN last_view_processed - ActivityTimeout ELSE 0
           section == (min_view \div ItemsPerSection) * ItemsPerSection
           kept == IF section > oldest THEN section ELSE oldest
           keys == {DigestKey(b)}
<1>1. TypeOK /\ b \in FinalBlocks
  BY SyncerAssumption DEF StoreInv, Finalize
<1>2. PICK h \in Heights : b = Final[h]
  BY <1>1 DEF FinalBlocks
<1>3. heightOf[b] = h /\ viewOf[b] \in Views /\ b \in Block
  BY <1>2, FinalFacts
<1>4. latest_view \in 0..MaxView /\ outstanding_notarize \in SUBSET Views
  BY <1>1 DEF TypeOK
<1>5. CASE /\ finalized' = Put(finalized, heightOf[b], b)
           /\ blocks' = Put(blocks, heightOf[b], b)
           /\ oldest' = kept
           /\ verified' = Prune(verified, kept)
           /\ notarized' = Prune(notarized, kept)
           /\ Wake
           /\ Turn(viewOf[b], outstanding_notarize, {}, {})
  <2>1. min_view \in 0..MaxView
    <3>1. last_view_processed \in 0..MaxView
      BY <1>1 DEF TypeOK
    <3> QED BY <3>1, SyncerAssumption, ChainAssumption
  <2>2. section \in 0..min_view
    <3>1. min_view \in Nat
      BY <2>1
    <3> HIDE DEF min_view
    <3> QED BY <3>1, SectionBelow, SyncerAssumption
  <2>3. oldest' \in 0..MaxView
    <3>1. kept \in {section, oldest}
      OBVIOUS
    <3>2. section \in 0..MaxView
      BY <2>1, <2>2, ChainAssumption
    <3> QED BY ONLY <3>1, <3>2, <1>5, <1>1 DEF TypeOK
  <2>4. finalized' \in Archive(Heights) /\ blocks' \in Archive(Heights)
    BY <1>1, <1>3, <1>5, PutType DEF TypeOK
  <2>5. verified' \in Archive(Views) /\ notarized' \in Archive(Views)
    BY <1>1, <1>3, <1>5, PrunableType DEF TypeOK
  <2>6. /\ latest_view' \in 0..MaxView /\ outstanding_notarize' \subseteq Views
        /\ fetching' \subseteq Keys /\ fetching' \subseteq fetching \union {}
        /\ delivery' \in [key : Keys, kept : BOOLEAN] \union {None}
        /\ delivery' # None => delivery # None /\ delivery'.key = delivery.key
    <3>1. viewOf[b] \in 0..MaxView
      BY <1>3 DEF Views
    <3> QED BY ONLY <1>1, <1>4, <1>5, <3>1, TurnFacts
  <2>7. wake' \in 0..WakeCapacity
    BY <1>1, <1>5, SyncerAssumption DEF Wake, TypeOK
  <2>8. TypeOK'
    BY <1>1, <2>3, <2>4, <2>5, <2>6, <2>7 DEF TypeOK, Finalize, broadcast, client, lifetime
  <2>9. BlocksAreFinal'
    BY <1>1, <1>2, <1>3, <1>5, PutValue DEF StoreInv, BlocksAreFinal, TypeOK
  <2>10. OnlyFinalRequested'
    BY <2>6 DEF StoreInv, OnlyFinalRequested
  <2> QED BY <2>8, <2>9, <2>10 DEF StoreInv
<1>6. CASE FetchAndTurn(keys) /\ UNCHANGED <<archives, oldest, wake>>
  <2>1. keys \in SUBSET Keys
    BY <1>3, KeyTypes
  <2>2. /\ latest_view' \in 0..MaxView /\ outstanding_notarize' \subseteq Views
        /\ fetching' \subseteq Keys /\ fetching' \subseteq fetching \union keys
        /\ delivery' \in [key : Keys, kept : BOOLEAN] \union {None}
        /\ delivery' # None => delivery # None /\ delivery'.key = delivery.key
    BY ONLY <1>1, <1>4, <1>6, <2>1, TurnFacts DEF FetchAndTurn
  <2>3. TypeOK'
    BY <1>1, <1>6, <2>2 DEF TypeOK, Finalize, archives, broadcast, client, lifetime
  <2>4. BlocksAreFinal'
    BY <1>6 DEF StoreInv, BlocksAreFinal, archives
  <2>5. OnlyFinalRequested'
    BY <1>1, <2>2, KeyTypes DEF StoreInv, OnlyFinalRequested
  <2> QED BY <2>3, <2>4, <2>5 DEF StoreInv
<1> QED BY <1>5, <1>6 DEF Finalize

LEMMA NotarizeStore ==
    ASSUME StoreInv, NEW b \in Block, Notarize(b)
    PROVE  StoreInv'
<1> DEFINE keys == {NotarizedKey(viewOf[b])}
           outstanding == outstanding_notarize \union {viewOf[b]}
<1>1. TypeOK /\ viewOf[b] \in Views
  BY ChainAssumption DEF StoreInv
<1>2. UNCHANGED <<finalized, blocks>>
  BY DEF Notarize
<1>3. CASE /\ notarized' = PutUnpruned(notarized, oldest, viewOf[b], b)
           /\ UNCHANGED <<latest_view, outstanding_notarize, resolver>>
  <2>1. notarized' \in Archive(Views)
    BY <1>1, <1>3, PrunableType DEF TypeOK
  <2>2. TypeOK'
    BY <1>1, <1>3, <2>1 DEF TypeOK, Notarize, resolver, broadcast, client, lifetime
  <2> QED BY <1>2, <1>3, <2>2, QuietStore
<1>4. CASE /\ Turn(latest_view, outstanding, keys, {})
           /\ UNCHANGED notarized
  <2>1. keys \in SUBSET Keys /\ outstanding \in SUBSET Views /\ latest_view \in 0..MaxView
    BY <1>1, KeyTypes DEF TypeOK
  <2>2. /\ latest_view' \in 0..MaxView /\ outstanding_notarize' \subseteq Views
        /\ fetching' \subseteq Keys /\ fetching' \subseteq fetching \union keys
        /\ delivery' \in [key : Keys, kept : BOOLEAN] \union {None}
        /\ delivery' # None => delivery # None /\ delivery'.key = delivery.key
    BY ONLY <1>1, <1>4, <2>1, TurnFacts
  <2>3. TypeOK'
    BY <1>1, <1>4, <2>2 DEF TypeOK, Notarize, broadcast, client, lifetime
  <2>4. BlocksAreFinal'
    BY <1>2 DEF StoreInv, BlocksAreFinal
  <2>5. OnlyFinalRequested'
    BY <2>2, KeyTypes DEF StoreInv, OnlyFinalRequested
  <2> QED BY <2>3, <2>4, <2>5 DEF StoreInv
<1> QED BY <1>3, <1>4 DEF Notarize

LEMMA ProcessedStore ==
    ASSUME StoreInv, Processed
    PROVE  StoreInv'
<1> DEFINE cancelled == {FinalizedKey(processed + 1), DigestKey(Final[processed + 1])}
<1>1. TypeOK /\ BlocksAreFinal
  BY DEF StoreInv
<1>2. processed + 1 \in Heights /\ processed' = processed + 1 /\ processed + 1 <= indexed
  BY <1>1, ChainAssumption DEF Processed, TypeOK, Heights
<1>3. last_view_processed' \in 0..MaxView
  <2>1. finalized[processed + 1] \in {None, Final[processed + 1]}
    BY <1>1, <1>2 DEF BlocksAreFinal
  <2>2. viewOf[Final[processed + 1]] \in 0..MaxView
    BY <1>2, FinalFacts DEF Views
  <2> QED BY <1>1, <2>1, <2>2 DEF Processed, TypeOK
<1>4. /\ latest_view' \in 0..MaxView /\ outstanding_notarize' \subseteq Views
      /\ fetching' \subseteq Keys /\ fetching' \subseteq fetching \union {}
      /\ delivery' \in [key : Keys, kept : BOOLEAN] \union {None}
      /\ delivery' # None => delivery # None /\ delivery'.key = delivery.key
  <2>1. latest_view \in 0..MaxView /\ outstanding_notarize \in SUBSET Views
    BY <1>1 DEF TypeOK
  <2>2. Turn(latest_view, outstanding_notarize, {}, cancelled)
    BY DEF Processed
  <2> QED BY ONLY <1>1, <2>1, <2>2, TurnFacts
<1>5. TypeOK'
  BY <1>1, <1>2, <1>3, <1>4 DEF TypeOK, Processed, archives, broadcast, lifetime
<1>6. BlocksAreFinal'
  BY <1>1 DEF BlocksAreFinal, Processed, archives
<1>7. OnlyFinalRequested'
  BY <1>4 DEF StoreInv, OnlyFinalRequested
<1> QED BY <1>5, <1>6, <1>7 DEF StoreInv

LEMMA RepairStore ==
    ASSUME StoreInv, NEW repaired \in BOOLEAN, Repair(indexed + 1, repaired)
    PROVE  StoreInv'
<1>1. TypeOK /\ BlocksAreFinal
  BY DEF StoreInv
<1>2. /\ UNCHANGED <<verified, notarized, finalized, oldest, last_view_processed, wake>>
      /\ UNCHANGED <<buffer, waiters, indexed, processed, up, crashes>>
  BY DEF Repair, broadcast, client, lifetime
<1>3. CASE UNCHANGED <<blocks, requested_blocks, latest_view, outstanding_notarize, resolver>>
  <2>1. TypeOK'
    BY <1>1, <1>2, <1>3 DEF TypeOK, resolver
  <2> QED BY <1>2, <1>3, <2>1, QuietStore
<1>4. CASE \E s \in StartNext(blocks, indexed + 1) :
              \/ RepairFrom(parentOf[blocks[s]])
              \/ RequestMissing(indexed + 1, s, parentOf[blocks[s]])
  <2>1. PICK s \in StartNext(blocks, indexed + 1) :
              \/ RepairFrom(parentOf[blocks[s]])
              \/ RequestMissing(indexed + 1, s, parentOf[blocks[s]])
    BY <1>4
  <2> DEFINE parent == Final[s - 1]
  <2>2. s \in Heights /\ s > 1 /\ blocks[s] = Final[s]
    <3>1. s \in Heights /\ s > indexed + 1 /\ blocks[s] # None
      BY <1>1 DEF StartNext, RangeStarts, TypeOK, Archive
    <3>2. indexed \in Nat
      BY <1>1 DEF TypeOK
    <3>3. blocks[s] = Final[s]
      BY <1>1, <3>1 DEF BlocksAreFinal
    <3> QED BY <3>1, <3>2, <3>3, ChainAssumption DEF Heights
  <2>3. s - 1 \in Heights /\ parentOf[blocks[s]] = parent
    BY <2>2, FinalParent
  <2>4. parent \in Block /\ parent \in FinalBlocks /\ heightOf[parent] = s - 1
    BY <2>3, FinalFacts
  <2>5. CASE RepairFrom(parent)
    <3>1. blocks' = Put(blocks, s - 1, parent)
      BY <2>4, <2>5 DEF RepairFrom
    <3>2. blocks' \in Archive(Heights)
      BY <1>1, <2>3, <2>4, <3>1, PutType DEF TypeOK
    <3>3. TypeOK'
      BY <1>1, <1>2, <2>5, <3>2 DEF TypeOK, RepairFrom, resolver
    <3>4. BlocksAreFinal'
      BY <1>1, <1>2, <2>3, <2>4, <3>1, PutValue DEF BlocksAreFinal, TypeOK
    <3>5. OnlyFinalRequested'
      BY <2>5 DEF StoreInv, OnlyFinalRequested, RepairFrom, resolver
    <3> QED BY <3>3, <3>4, <3>5 DEF StoreInv
  <2>6. CASE RequestMissing(indexed + 1, s, parent)
    <3> DEFINE missing == {h \in Heights : /\ indexed + 1 <= h /\ h < s
                                           /\ h < indexed + 1 + RepairBatch
                                           /\ h \notin requested_blocks}
               keys == {DigestKey(parent)} \union {FinalizedKey(h) : h \in missing}
    <3>1. keys \in SUBSET Keys /\ latest_view \in 0..MaxView /\ outstanding_notarize \in SUBSET Views
      BY <1>1, <2>4, KeyTypes DEF TypeOK
    <3>2. Turn(latest_view, outstanding_notarize, keys, {})
      BY <2>6 DEF RequestMissing, FetchAndTurn
    <3>3. /\ latest_view' \in 0..MaxView /\ outstanding_notarize' \subseteq Views
          /\ fetching' \subseteq Keys /\ fetching' \subseteq fetching \union keys
          /\ delivery' \in [key : Keys, kept : BOOLEAN] \union {None}
          /\ delivery' # None => delivery # None /\ delivery'.key = delivery.key
      BY ONLY <1>1, <3>1, <3>2, TurnFacts
    <3>4. requested_blocks' \subseteq Heights /\ blocks' = blocks
      BY <1>1, <2>6 DEF RequestMissing, TypeOK
    <3>5. TypeOK'
      BY <1>1, <1>2, <3>3, <3>4 DEF TypeOK
    <3>6. BlocksAreFinal'
      BY <1>1, <1>2, <3>4 DEF BlocksAreFinal
    <3>7. OnlyFinalRequested'
      BY <2>4, <3>3, KeyTypes DEF StoreInv, OnlyFinalRequested
    <3> QED BY <3>5, <3>6, <3>7 DEF StoreInv
  <2> QED BY <2>1, <2>3, <2>5, <2>6
<1> QED BY <1>3, <1>4 DEF Repair

LEMMA HandOverStore ==
    ASSUME StoreInv, NEW key \in fetching, HandOver(key)
    PROVE  StoreInv'
<1>1. TypeOK /\ key \in Keys
  BY DEF StoreInv, TypeOK
<1>2. fetching' \subseteq fetching /\ delivery' = [key |-> key, kept |-> TRUE]
  BY DEF HandOver
<1>3. delivery' \in [key : Keys, kept : BOOLEAN] /\ delivery'.key = key
  BY <1>1, <1>2
<1>4. TypeOK'
  BY <1>1, <1>2, <1>3 DEF TypeOK, HandOver, archives, memory, broadcast, client, lifetime
<1>5. BlocksAreFinal'
  BY DEF StoreInv, BlocksAreFinal, HandOver, archives
<1>6. OnlyFinalRequested'
  BY <1>2, <1>3 DEF StoreInv, OnlyFinalRequested
<1> QED BY <1>4, <1>5, <1>6 DEF StoreInv

LEMMA AcceptStore ==
    ASSUME StoreInv, NEW ans \in Answers, Accept(ans)
    PROVE  StoreInv'
<1> DEFINE key == delivery.key
<1>1. TypeOK /\ BlocksAreFinal
  BY DEF StoreInv
<1>2. /\ Accepts(key, ans) /\ delivery # None /\ delivery' = None /\ fetching' = fetching
      /\ ans.block \in Block /\ ans.proof \in Block /\ key \in Keys
  BY <1>1 DEF Accept, Answers, TypeOK
<1>3. OnlyFinalRequested'
  BY <1>2 DEF StoreInv, OnlyFinalRequested
<1>4. /\ UNCHANGED <<verified, oldest, latest_view, last_view_processed>>
      /\ UNCHANGED <<outstanding_notarize, requested_blocks, fetching>>
      /\ UNCHANGED <<buffer, waiters, indexed, processed, up, crashes>>
  BY DEF Accept, broadcast, client, lifetime
<1>5. CASE /\ key[1] = "Notarized"
           /\ notarized' = PutUnpruned(notarized, oldest, key[2], ans.block)
           /\ UNCHANGED <<finalized, blocks, wake>>
  <2>1. key[2] \in Views
    BY <1>2, <1>5, ChainAssumption DEF Accepts
  <2>2. notarized' \in Archive(Views)
    BY <1>1, <1>2, <1>5, <2>1, PrunableType DEF TypeOK
  <2>3. TypeOK'
    BY <1>1, <1>2, <1>4, <1>5, <2>2 DEF TypeOK
  <2>4. BlocksAreFinal'
    BY <1>1, <1>5 DEF BlocksAreFinal
  <2> QED BY <1>3, <2>3, <2>4 DEF StoreInv
<1>6. CASE /\ key[1] = "Finalized"
           /\ finalized' = Put(finalized, key[2], ans.proof)
           /\ blocks' = Put(blocks, key[2], ans.block)
           /\ Wake
           /\ UNCHANGED notarized
  <2>1. ans.proof \in FinalBlocks /\ ans.proof = ans.block /\ heightOf[ans.block] = key[2]
    BY <1>2, <1>6 DEF Accepts, Decodes, Verifies
  <2>2. PICK h \in Heights : ans.block = Final[h]
    BY <2>1 DEF FinalBlocks
  <2>3. key[2] = h /\ ans.proof = Final[h]
    BY <2>1, <2>2, FinalFacts
  <2>4. finalized' \in Archive(Heights) /\ blocks' \in Archive(Heights)
    BY <1>1, <1>2, <1>6, <2>3, PutType DEF TypeOK
  <2>5. wake' \in 0..WakeCapacity
    BY <1>1, <1>6, SyncerAssumption DEF Wake, TypeOK
  <2>6. TypeOK'
    BY <1>1, <1>2, <1>4, <1>6, <2>4, <2>5 DEF TypeOK
  <2>7. BlocksAreFinal'
    BY <1>1, <1>2, <1>6, <2>2, <2>3, PutValue DEF BlocksAreFinal, TypeOK
  <2> QED BY <1>3, <2>6, <2>7 DEF StoreInv
<1>7. CASE /\ key[1] = "Digest"
           /\ blocks' = Put(blocks, heightOf[ans.block], ans.block)
           /\ Wake
           /\ UNCHANGED <<notarized, finalized>>
  <2>1. key = DigestKey(ans.block)
    <3>1. ans.block = key[2]
      BY <1>2, <1>7 DEF Accepts
    <3>2. PICK b \in Block : key = DigestKey(b)
      BY <1>2, <1>7 DEF Keys, NotarizedKey, FinalizedKey, DigestKey
    <3> QED BY <3>1, <3>2 DEF DigestKey
  <2>2. ans.block \in FinalBlocks
    BY <1>2, <2>1 DEF StoreInv, OnlyFinalRequested
  <2>3. PICK h \in Heights : ans.block = Final[h]
    BY <2>2 DEF FinalBlocks
  <2>4. blocks' = Put(blocks, h, ans.block)
    BY <1>7, <2>3, FinalFacts
  <2>5. blocks' \in Archive(Heights)
    BY <1>1, <1>2, <2>3, <2>4, PutType DEF TypeOK
  <2>6. wake' \in 0..WakeCapacity
    BY <1>1, <1>7, SyncerAssumption DEF Wake, TypeOK
  <2>7. TypeOK'
    BY <1>1, <1>2, <1>4, <1>7, <2>5, <2>6 DEF TypeOK
  <2>8. BlocksAreFinal'
    BY <1>1, <1>2, <1>7, <2>3, <2>4, PutValue DEF BlocksAreFinal, TypeOK
  <2> QED BY <1>3, <2>7, <2>8 DEF StoreInv
<1> QED BY <1>5, <1>6, <1>7 DEF Accept

LEMMA RejectStore ==
    ASSUME StoreInv, Reject
    PROVE  StoreInv'
<1>1. TypeOK
  BY DEF StoreInv
<1>2. delivery' = None /\ delivery # None /\ fetching' \subseteq fetching \union {delivery.key}
  BY DEF Reject
<1>3. delivery.key \in Keys
  BY <1>1, <1>2 DEF TypeOK
<1>4. TypeOK'
  BY <1>1, <1>2, <1>3 DEF TypeOK, Reject, archives, memory, broadcast, client, lifetime
<1>5. BlocksAreFinal'
  BY DEF StoreInv, BlocksAreFinal, Reject, archives
<1>6. OnlyFinalRequested'
  BY <1>2 DEF StoreInv, OnlyFinalRequested
<1> QED BY <1>4, <1>5, <1>6 DEF StoreInv

LEMMA EnvironmentStore ==
    ASSUME StoreInv,
           \/ \E b \in Block : Evict(b) \/ Abandon(b)
           \/ Index \/ TakeWake \/ Crash \/ Lose \/ Restart
    PROVE  StoreInv'
<1>1. TypeOK
  BY DEF StoreInv
<1>2. CASE \E b \in Block : Evict(b) \/ Abandon(b)
  <2>1. TypeOK' /\ UNCHANGED <<finalized, blocks>> /\ UNCHANGED resolver
    BY <1>1, <1>2 DEF TypeOK, Evict, Abandon, archives, memory, resolver, client, lifetime
  <2> QED BY <2>1, QuietStore
<1>3. CASE Index
  <2>1. indexed' \in 0..TopHeight /\ processed' \in 0..indexed'
    BY <1>1, <1>3, ChainAssumption DEF TypeOK, Index, OrchestrationGet, At, Archive, Heights
  <2>2. TypeOK'
    BY <1>1, <1>3, <2>1 DEF TypeOK, Index, archives, memory, resolver, broadcast, lifetime
  <2> QED BY <1>3, <2>2, QuietStore DEF Index, archives
<1>4. CASE TakeWake
  <2>1. wake' \in 0..WakeCapacity
    BY <1>1, <1>4, SyncerAssumption DEF TypeOK, TakeWake
  <2>2. TypeOK'
    BY <1>1, <1>4, <2>1 DEF TypeOK, TakeWake, archives, resolver, broadcast, client, lifetime
  <2> QED BY <1>4, <2>2, QuietStore DEF TakeWake, archives
<1>5. CASE Crash
  <2>1. crashes' \in 0..MaxCrashes /\ processed' \in 0..indexed /\ indexed' = indexed
    BY <1>1, <1>5, SyncerAssumption DEF TypeOK, Crash
  <2>2. TypeOK'
    <3>1. 0 \in 0..MaxView /\ 0 \in 0..WakeCapacity
      BY ChainAssumption, SyncerAssumption
    <3>2. /\ up' = FALSE /\ oldest' = 0 /\ latest_view' = 0 /\ last_view_processed' = 0
          /\ outstanding_notarize' = {} /\ requested_blocks' = {} /\ wake' = 0
          /\ buffer' = {} /\ waiters' = {} /\ fetching' = {} /\ delivery' = None
          /\ UNCHANGED <<verified, notarized, finalized, blocks>>
      BY <1>5 DEF Crash, archives
    <3> QED BY <1>1, <2>1, <3>1, <3>2 DEF TypeOK
  <2>3. BlocksAreFinal'
    BY <1>5 DEF StoreInv, BlocksAreFinal, Crash, archives
  <2>4. OnlyFinalRequested'
    BY <1>5 DEF OnlyFinalRequested, Crash
  <2> QED BY <2>2, <2>3, <2>4 DEF StoreInv
<1>6. CASE Lose
  <2>1. UNCHANGED <<oldest, memory, resolver, broadcast, client, lifetime>>
    BY <1>6 DEF Lose
  <2>2. /\ verified' \in Archive(Views) /\ notarized' \in Archive(Views)
        /\ finalized' \in Archive(Heights) /\ blocks' \in Archive(Heights)
    BY <1>1, <1>6, LoseType
       DEF TypeOK, Lose, LoseVerified, LoseNotarized, LoseFinalized, LoseBlock
  <2>3. TypeOK'
    BY <1>1, <2>1, <2>2 DEF TypeOK, memory, resolver, broadcast, client, lifetime
  <2>4. \A h \in Heights : blocks'[h] \in {None, blocks[h]} /\ finalized'[h] \in {None, finalized[h]}
    BY <1>1, <1>6
       DEF TypeOK, Archive, Lose, LoseVerified, LoseNotarized, LoseFinalized, LoseBlock
  <2>5. BlocksAreFinal'
    BY <2>4 DEF StoreInv, BlocksAreFinal
  <2>6. OnlyFinalRequested'
    BY <2>1 DEF StoreInv, OnlyFinalRequested, resolver
  <2> QED BY <2>3, <2>5, <2>6 DEF StoreInv
<1>7. CASE Restart
  <2>1. TypeOK' /\ UNCHANGED <<finalized, blocks>> /\ UNCHANGED resolver
    BY <1>1, <1>7 DEF TypeOK, Restart, archives, memory, resolver, broadcast, client
  <2> QED BY <2>1, QuietStore
<1> QED BY <1>2, <1>3, <1>4, <1>5, <1>6, <1>7

-----------------------------------------------------------------------------
(* The stores only hold final blocks.                                      *)

\* StoreInv is inductive.
LEMMA NextStore == StoreInv /\ [Next]_vars => StoreInv'
<1> SUFFICES ASSUME StoreInv, [Next]_vars PROVE StoreInv'
  OBVIOUS
<1>1. CASE Mailbox
  <2>1. PICK b \in Block : \/ \E view \in {None, viewOf[b]} : Get(view, b)
                          \/ Broadcast(b) \/ StoreVerified(b) \/ Finalize(b) \/ Notarize(b)
    BY <1>1 DEF Mailbox
  <2> QED BY ONLY StoreInv, <2>1, GetStore, BroadcastStore, StoreVerifiedStore, FinalizeStore,
             NotarizeStore
<1>2. CASE Orchestrated
  BY ONLY StoreInv, <1>2, ProcessedStore, RepairStore DEF Orchestrated
<1>3. CASE Deliver
  BY ONLY StoreInv, <1>3, AcceptStore, RejectStore DEF Deliver
<1>4. CASE Environment
  BY ONLY StoreInv, <1>4, HandOverStore, EnvironmentStore DEF Environment, Panic
<1>5. CASE UNCHANGED vars
  <2>1. TypeOK' /\ UNCHANGED <<finalized, blocks>> /\ UNCHANGED resolver
    BY <1>5 DEF StoreInv, TypeOK, vars, archives, memory, resolver, broadcast, client, lifetime
  <2> QED BY <2>1, QuietStore
<1> QED BY <1>1, <1>2, <1>3, <1>4, <1>5 DEF Next

LEMMA StoreInvariance == Spec => []StoreInv
BY InitStore, NextStore, PTL DEF Spec

\* Every variable keeps its type.
THEOREM TypeCorrect == Spec => []TypeOK
<1>1. StoreInv => TypeOK
  BY DEF StoreInv
<1> QED BY StoreInvariance, <1>1, PTL

\* Whatever peers answer, in whatever order, and whatever a crash loses, the finalizer
\* is only ever given blocks of the final chain, each at its height.
THEOREM StoresFinalBlocks == Spec => []BlocksAreFinal
<1>1. StoreInv => BlocksAreFinal
  BY DEF StoreInv
<1> QED BY StoreInvariance, <1>1, PTL

-----------------------------------------------------------------------------
(* Pruning.                                                                *)

\* Along the final chain views increase, so what is processed stays behind.
LEMMA ProcessedViewFacts ==
    ASSUME TypeOK
    PROVE  /\ ProcessedView \in Nat
           /\ \A h \in Heights : h > processed => ProcessedView < viewOf[Final[h]] \/ processed = 0
           /\ \A h \in Heights : ProcessedView >= 0 /\ viewOf[Final[h]] \in Views
<1>1. processed \in 0..TopHeight
  BY ChainAssumption DEF TypeOK
<1>2. processed # 0 => processed \in Heights
  BY <1>1 DEF Heights
<1>3. \A h \in Heights : viewOf[Final[h]] \in Views
  BY FinalFacts
<1>4. ProcessedView \in Nat
  BY <1>2, <1>3 DEF ProcessedView, Views
<1>5. \A h \in Heights : h > processed => ProcessedView < viewOf[Final[h]] \/ processed = 0
  BY <1>2, ChainAssumption DEF ProcessedView
<1> QED BY <1>3, <1>4, <1>5

\* PruneInv is inductive, given the types and that finalizations are of final blocks.
LEMMA NextPrune == StoreInv /\ StoreInv' /\ PruneInv /\ [Next]_vars => PruneInv'
<1> SUFFICES ASSUME StoreInv, StoreInv', PruneInv, [Next]_vars PROVE PruneInv'
  OBVIOUS
<1>1. TypeOK /\ TypeOK' /\ BlocksAreFinal
  BY DEF StoreInv
<1>2. oldest \in Nat /\ last_view_processed \in Nat
  BY <1>1 DEF TypeOK
<1>3. CASE UNCHANGED <<oldest, last_view_processed, processed>>
  BY <1>3 DEF PruneInv, ProcessedView
<1>4. CASE \E b \in Block : Finalize(b)
  <2>1. PICK b \in Block : Finalize(b)
    BY <1>4
  <2> DEFINE min_view == IF last_view_processed > ActivityTimeout
                         THEN last_view_processed - ActivityTimeout ELSE 0
             section == (min_view \div ItemsPerSection) * ItemsPerSection
  <2>2. UNCHANGED <<last_view_processed, processed>>
    BY <2>1 DEF Finalize, client
  <2>3. oldest' \in {oldest, section}
    BY <2>1 DEF Finalize
  <2>4. section <= last_view_processed
    <3>1. min_view \in 0..last_view_processed
      BY <1>2, SyncerAssumption
    <3>2. min_view \in Nat
      BY <3>1
    <3> HIDE DEF min_view
    <3>3. section \in 0..min_view
      BY <3>2, SectionBelow, SyncerAssumption
    <3> HIDE DEF section
    <3> QED BY <1>2, <3>1, <3>3
  <2>5. section \in Nat
    <3>1. min_view \in Nat
      BY <1>2, SyncerAssumption
    <3> HIDE DEF min_view
    <3> QED BY <3>1, SectionBelow, SyncerAssumption
  <2> HIDE DEF section
  <2>6. ProcessedView' = ProcessedView /\ ProcessedView \in Nat
    BY <1>1, <2>2, ProcessedViewFacts DEF ProcessedView
  <2> QED BY <1>2, <2>2, <2>3, <2>4, <2>5, <2>6 DEF PruneInv
<1>5. CASE Processed
  <2>1. /\ processed' = processed + 1 /\ UNCHANGED oldest
        /\ last_view_processed' = IF finalized[processed + 1] = None THEN last_view_processed
                                  ELSE viewOf[finalized[processed + 1]]
    BY <1>5 DEF Processed
  <2>2. processed' \in Heights /\ processed \in Nat
    BY <1>1, <1>5, ChainAssumption DEF Processed, TypeOK, Heights
  <2>3. ProcessedView' = viewOf[Final[processed + 1]]
    BY <2>1, <2>2 DEF ProcessedView, Heights
  <2>4. finalized[processed + 1] \in {None, Final[processed + 1]}
    BY <1>1, <2>1, <2>2 DEF BlocksAreFinal
  <2>5. ProcessedView <= ProcessedView' /\ ProcessedView \in Nat /\ ProcessedView' \in Nat
    <3>1. viewOf[Final[processed + 1]] \in Nat
      BY <2>1, <2>2, FinalFacts DEF Views
    <3>2. processed = 0 => ProcessedView = 0
      BY DEF ProcessedView
    <3> QED BY <1>1, <2>1, <2>2, <2>3, <3>1, <3>2, ProcessedViewFacts
  <2> QED BY <1>2, <2>1, <2>3, <2>4, <2>5 DEF PruneInv
<1>6. CASE Crash
  <2>1. oldest' = 0 /\ last_view_processed' = 0
    BY <1>6 DEF Crash
  <2>2. ProcessedView' \in Nat
    <3>1. processed' = 0 \/ processed' \in Heights
      BY <1>1, ChainAssumption DEF TypeOK, Heights
    <3> QED BY <3>1, FinalFacts DEF ProcessedView, Views
  <2> QED BY <2>1, <2>2 DEF PruneInv
<1>7. \/ UNCHANGED <<oldest, last_view_processed, processed>>
      \/ \E b \in Block : Finalize(b)
      \/ Processed \/ Crash
  BY DEF Next, Mailbox, Orchestrated, Deliver, Environment, Panic, Get, Broadcast, StoreVerified,
         Notarize, Repair, HandOver, Accept, Reject, Evict, Abandon, Index, TakeWake, Lose,
         Restart, memory, client, vars
<1> QED BY <1>3, <1>4, <1>5, <1>6, <1>7

\* No configuration of the timeout or of the sections makes pruning reach a block that
\* the finalizer still has to execute, a crash included.
THEOREM PruningIsSafe == Spec => []PruneKeepsUnprocessed
<1>1. Init => PruneInv
  BY DEF Init, PruneInv, ProcessedView
<1>2. StoreInv /\ PruneInv => PruneKeepsUnprocessed
  <2> SUFFICES ASSUME StoreInv, PruneInv, NEW h \in Heights, h > processed
               PROVE  oldest <= viewOf[Final[h]]
    BY DEF PruneKeepsUnprocessed
  <2>1. TypeOK /\ oldest \in Nat
    BY DEF StoreInv, TypeOK
  <2>2. viewOf[Final[h]] \in Nat /\ ProcessedView \in Nat
    BY <2>1, FinalFacts, ProcessedViewFacts DEF Views
  <2>3. CASE processed = 0
    BY <2>1, <2>2, <2>3 DEF PruneInv, ProcessedView
  <2>4. CASE processed # 0
    BY <2>1, <2>2, <2>4, ProcessedViewFacts DEF PruneInv
  <2> QED BY <2>3, <2>4
<1> QED BY InitStore, NextStore, NextPrune, <1>1, <1>2, PTL DEF Spec

-----------------------------------------------------------------------------
(* Fetching and serving: it fetches nothing for a height that is           *)
(* processed, its own record of what it asked for is true, and the         *)
(* certificates it serves are acceptable.                                  *)

\* Keys of different kinds, or of different numbers, are different.
LEMMA KeysDiffer ==
    /\ \A h, v : FinalizedKey(h) # NotarizedKey(v)
    /\ \A g, h : FinalizedKey(g) = FinalizedKey(h) => g = h
    /\ \A u, v : NotarizedKey(u) = NotarizedKey(v) => u = v
    /\ \A v, b : NotarizedKey(v) # DigestKey(b)
    /\ \A h, b : FinalizedKey(h) # DigestKey(b)
BY DEF NotarizedKey, FinalizedKey, DigestKey

\* Pursued without its comprehension.
LEMMA PursuedIs ==
    ASSUME NEW key
    PROVE  key \in Pursued <=> \/ key \in fetching
                               \/ delivery # None /\ delivery.kept /\ delivery.key = key
BY DEF Pursued

LEMMA PursuedIsNext ==
    ASSUME NEW key
    PROVE  key \in Pursued' <=> \/ key \in fetching'
                                \/ delivery' # None /\ delivery'.kept /\ delivery'.key = key
BY DEF Pursued

\* A turn of the loop adds what it fetches and drops what it cancels, wherever it is.
LEMMA TurnPursues ==
    ASSUME TypeOK, NEW latest, NEW outstanding, NEW fetched, NEW cancelled,
           Turn(latest, outstanding, fetched, cancelled), NEW key
    PROVE  key \in Pursued' <=>
              /\ key \in Pursued \union fetched
              /\ key \notin cancelled
              /\ \A v \in outstanding : v < latest => key # NotarizedKey(v)
<1> DEFINE dropped == cancelled \union {NotarizedKey(v) : v \in {u \in outstanding : u < latest}}
<1>1. /\ fetching' = (fetching \union fetched) \ dropped
      /\ delivery' = IF delivery # None /\ delivery.key \in dropped
                     THEN [key |-> delivery.key, kept |-> FALSE] ELSE delivery
  BY DEF Turn
<1>2. key \in dropped <=> key \in cancelled \/ \E v \in outstanding : v < latest /\ key = NotarizedKey(v)
  OBVIOUS
<1>3. delivery # None => delivery \in [key : Keys, kept : BOOLEAN]
  BY DEF TypeOK
<1> HIDE DEF dropped
<1>4. CASE delivery # None /\ delivery.key \in dropped
  <2>1. delivery'.key = delivery.key /\ delivery'.kept = FALSE
    BY <1>1, <1>4
  <2>2. key \in Pursued' <=> key \in (fetching \union fetched) \ dropped
    BY <1>1, <2>1, PursuedIsNext
  <2>3. key \notin dropped => (key \in Pursued <=> key \in fetching)
    BY <1>4, PursuedIs
  <2> QED BY <1>2, <2>2, <2>3
<1>5. CASE ~(delivery # None /\ delivery.key \in dropped)
  <2>1. delivery' = delivery
    BY <1>1, <1>5
  <2>2. key \in Pursued' <=> \/ key \in (fetching \union fetched) \ dropped
                             \/ delivery # None /\ delivery.kept /\ delivery.key = key
    BY <1>1, <2>1, PursuedIsNext
  <2> QED BY <1>2, <1>5, <2>2, PursuedIs
<1> QED BY <1>4, <1>5

\* What each step does to the keys pursued.
LEMMA HandOverPursues ==
    ASSUME TypeOK, NEW k \in fetching, HandOver(k), NEW key
    PROVE  key \in Pursued' <=> key \in Pursued
<1>1. /\ delivery = None /\ fetching' = fetching \ {k}
      /\ delivery' = [key |-> k, kept |-> TRUE]
  BY DEF HandOver
<1>2. delivery' # None
  <2>1. delivery' \in [key : Keys, kept : BOOLEAN]
    BY <1>1 DEF TypeOK
  <2> QED BY <2>1, NoneAssumption
<1>3. delivery'.key = k /\ delivery'.kept
  BY <1>1
<1> QED BY <1>1, <1>2, <1>3, PursuedIs, PursuedIsNext

LEMMA RejectPursues ==
    ASSUME Reject, NEW key
    PROVE  key \in Pursued' <=> key \in Pursued
<1>1. /\ delivery # None /\ delivery' = None
      /\ fetching' = fetching \union (IF delivery.kept THEN {delivery.key} ELSE {})
  BY DEF Reject
<1> QED BY <1>1, PursuedIs, PursuedIsNext

\* An accepted value only ends the pursuit of its own key.
LEMMA AcceptPursues ==
    ASSUME NEW ans \in Answers, Accept(ans), NEW key
    PROVE  /\ key \in Pursued' => key \in Pursued
           /\ key \in Pursued => key \in Pursued' \/ key = delivery.key
<1>1. delivery # None /\ delivery' = None /\ fetching' = fetching
  BY DEF Accept
<1> QED BY <1>1, PursuedIs, PursuedIsNext

\* A Repair that asks for heights, and for which.
AsksFor(missing) ==
    /\ up /\ processed = indexed
    /\ missing \subseteq Heights /\ \A h \in missing : h > processed
    /\ requested_blocks' = requested_blocks \union missing
    /\ UNCHANGED <<notarized, blocks, oldest, processed, up>>
    /\ \E parent : Turn(latest_view, outstanding_notarize,
                        {DigestKey(parent)} \union {FinalizedKey(h) : h \in missing}, {})

\* A Repair asks for something, or leaves the requests alone; it loses no block.
LEMMA RepairRequests ==
    ASSUME TypeOK, BlocksAreFinal, NEW repaired \in BOOLEAN, Repair(indexed + 1, repaired)
    PROVE  \/ \E missing : AsksFor(missing)
           \/ /\ up
              /\ UNCHANGED <<requested_blocks, outstanding_notarize, resolver>>
              /\ UNCHANGED <<notarized, oldest, processed, up>>
              /\ \A h \in Heights : blocks[h] # None => blocks'[h] # None
<1>1. up /\ processed = indexed /\ UNCHANGED <<notarized, oldest, processed, up>>
  BY DEF Repair, client, lifetime
<1>2. CASE UNCHANGED <<blocks, requested_blocks, latest_view, outstanding_notarize, resolver>>
  BY <1>1, <1>2
<1>3. CASE \E s \in StartNext(blocks, indexed + 1) : RepairFrom(parentOf[blocks[s]])
  <2>1. PICK s \in StartNext(blocks, indexed + 1) : RepairFrom(parentOf[blocks[s]])
    BY <1>3
  <2> DEFINE b == parentOf[blocks[s]]
  <2>2. blocks' = Put(blocks, heightOf[b], b)
    BY <2>1 DEF RepairFrom
  <2>3. \A h \in Heights : blocks[h] # None => blocks'[h] # None
    BY <2>2 DEF Put, TypeOK, Archive
  <2> QED BY <1>1, <2>1, <2>3 DEF RepairFrom
<1>4. CASE \E s \in StartNext(blocks, indexed + 1) :
              RequestMissing(indexed + 1, s, parentOf[blocks[s]])
  <2>1. PICK s \in StartNext(blocks, indexed + 1) :
              RequestMissing(indexed + 1, s, parentOf[blocks[s]])
    BY <1>4
  <2> DEFINE missing == {h \in Heights : /\ indexed + 1 <= h /\ h < s
                                         /\ h < indexed + 1 + RepairBatch
                                         /\ h \notin requested_blocks}
  <2>2. \A h \in missing : h > processed
    BY <1>1 DEF Heights, TypeOK
  <2> QED BY <1>1, <2>1, <2>2 DEF RequestMissing, FetchAndTurn, AsksFor
<1> QED BY <1>2, <1>3, <1>4 DEF Repair

-----------------------------------------------------------------------------
(* Requests for finalizations.                                             *)

\* Steps that neither ask for a finalization nor give one up.
Indifferent ==
    /\ UNCHANGED <<requested_blocks, processed>>
    /\ up \/ UNCHANGED outstanding_notarize
    /\ \A h \in Heights : FinalizedKey(h) \in Pursued' <=> FinalizedKey(h) \in Pursued
    /\ \A h \in Heights : blocks[h] # None => blocks'[h] # None

LEMMA MailboxIndifferent ==
    ASSUME StoreInv, Mailbox
    PROVE  up /\ up' /\ Indifferent
<1>1. TypeOK
  BY DEF StoreInv
<1>2. PICK b \in Block : \/ \E view \in {None, viewOf[b]} : Get(view, b)
                        \/ Broadcast(b) \/ StoreVerified(b) \/ Finalize(b) \/ Notarize(b)
  BY DEF Mailbox
<1>3. up /\ up' /\ UNCHANGED <<requested_blocks, processed>>
  BY <1>2 DEF Get, Broadcast, StoreVerified, Finalize, Notarize, memory, client, lifetime
<1>4. \A h \in Heights : blocks[h] # None => blocks'[h] # None
  BY <1>1, <1>2 DEF Get, Broadcast, StoreVerified, Finalize, Notarize, archives, Put, TypeOK, Archive
<1>5. ASSUME NEW h \in Heights
      PROVE  FinalizedKey(h) \in Pursued' <=> FinalizedKey(h) \in Pursued
  <2>1. CASE \E view \in {None, viewOf[b]} : Get(view, b)
    <3>1. PICK view \in {None, viewOf[b]} : Get(view, b)
      BY <2>1
    <3>2. Turn(latest_view, outstanding_notarize,
               IF view = None THEN {} ELSE {NotarizedKey(view)}, {})
      BY <3>1 DEF Get, FetchAndTurn
    <3> QED BY <1>1, <3>2, TurnPursues, KeysDiffer
  <2>2. CASE Broadcast(b) \/ StoreVerified(b)
    BY <2>2, PursuedIs, PursuedIsNext DEF Broadcast, StoreVerified, resolver
  <2>3. CASE Finalize(b)
    <3>1. \/ Turn(viewOf[b], outstanding_notarize, {}, {})
          \/ Turn(latest_view, outstanding_notarize, {DigestKey(b)}, {})
      BY <2>3 DEF Finalize, FetchAndTurn
    <3> QED BY <1>1, <3>1, TurnPursues, KeysDiffer
  <2>4. CASE Notarize(b)
    <3>1. \/ UNCHANGED resolver
          \/ Turn(latest_view, outstanding_notarize \union {viewOf[b]},
                  {NotarizedKey(viewOf[b])}, {})
      BY <2>4 DEF Notarize
    <3>2. CASE UNCHANGED resolver
      BY <3>2, PursuedIs, PursuedIsNext DEF resolver
    <3> QED BY <1>1, <3>1, <3>2, TurnPursues, KeysDiffer
  <2> QED BY <1>2, <2>1, <2>2, <2>3, <2>4
<1> QED BY <1>3, <1>4, <1>5 DEF Indifferent

LEMMA EveryStep ==
    ASSUME StoreInv, [Next]_vars
    PROVE  \/ up' = up /\ Indifferent
           \/ Processed \/ \E missing : AsksFor(missing)
           \/ \E ans \in Answers : Accept(ans)
           \/ Crash \/ Lose \/ Restart
<1>1. TypeOK /\ BlocksAreFinal
  BY DEF StoreInv
<1>2. CASE Mailbox
  BY <1>2, MailboxIndifferent
<1>3. CASE \E repaired \in BOOLEAN : Repair(indexed + 1, repaired)
  <2>1. PICK repaired \in BOOLEAN : Repair(indexed + 1, repaired)
    BY <1>3
  <2>2. CASE /\ up
             /\ UNCHANGED <<requested_blocks, outstanding_notarize, resolver>>
             /\ UNCHANGED <<notarized, oldest, processed, up>>
             /\ \A h \in Heights : blocks[h] # None => blocks'[h] # None
    BY <2>2, PursuedIs, PursuedIsNext DEF Indifferent, resolver
  <2> QED BY <1>1, <2>1, <2>2, RepairRequests
<1>4. CASE Reject
  BY <1>4, RejectPursues DEF Indifferent, Reject, archives, memory, client, lifetime
<1>5. CASE \E key \in fetching : HandOver(key)
  BY <1>1, <1>5, HandOverPursues DEF Indifferent, HandOver, archives, memory, client, lifetime
<1>6. CASE \/ \E b \in Block : Evict(b) \/ Abandon(b)
           \/ Index \/ TakeWake \/ UNCHANGED vars
  <2>1. /\ up' = up /\ UNCHANGED <<requested_blocks, processed, outstanding_notarize, blocks>>
        /\ UNCHANGED resolver
    BY <1>6 DEF Evict, Abandon, Index, TakeWake, vars, archives, memory, client, lifetime
  <2> QED BY <2>1, PursuedIs, PursuedIsNext DEF Indifferent, resolver
<1> QED BY <1>2, <1>3, <1>4, <1>5, <1>6 DEF Next, Orchestrated, Deliver, Environment, Panic

\* What is still pursued when a Processed is handled, whatever is handed over then.
LEMMA ProcessedPursues ==
    ASSUME TypeOK, Processed, NEW h \in Heights
    PROVE  /\ FinalizedKey(h) \in Pursued' <=> FinalizedKey(h) \in Pursued /\ h # processed + 1
           /\ h \in requested_blocks' <=> h \in requested_blocks /\ h > processed + 1
           /\ processed' = processed + 1 /\ blocks' = blocks /\ up /\ up'
<1>1. Turn(latest_view, outstanding_notarize, {},
           {FinalizedKey(processed + 1), DigestKey(Final[processed + 1])})
  BY DEF Processed
<1>2. FinalizedKey(h) \in Pursued' <=> FinalizedKey(h) \in Pursued /\ h # processed + 1
  BY <1>1, TurnPursues, KeysDiffer
<1> QED BY <1>2 DEF Processed, archives, lifetime

LEMMA AskingPursues ==
    ASSUME TypeOK, NEW missing, AsksFor(missing), NEW h \in Heights
    PROVE  FinalizedKey(h) \in Pursued' <=> FinalizedKey(h) \in Pursued \/ h \in missing
<1>1. PICK parent : Turn(latest_view, outstanding_notarize,
                         {DigestKey(parent)} \union {FinalizedKey(g) : g \in missing}, {})
  BY DEF AsksFor
<1> QED BY <1>1, TurnPursues, KeysDiffer

LEMMA NothingPursued ==
    ASSUME fetching' = {}, delivery' = None
    PROVE  Pursued' = {}
BY DEF Pursued

\* A syncer that is down has asked for nothing.
DownAsksNothing ==
    ~up => requested_blocks = {} /\ outstanding_notarize = {}

\* Every height it counts as asked for is asked for, or here.
AskedIsPursued ==
    \A h \in requested_blocks : FinalizedKey(h) \in Pursued \/ blocks[h] # None

AskInv == DownAsksNothing /\ NothingFetchedBehind /\ AskedIsPursued

LEMMA InitAsk == Init => AskInv
BY DEF Init, AskInv, DownAsksNothing, NothingFetchedBehind, AskedIsPursued, Pursued

LEMMA NextAsk == StoreInv /\ StoreInv' /\ AskInv /\ [Next]_vars => AskInv'
<1> SUFFICES ASSUME StoreInv, StoreInv', AskInv, [Next]_vars PROVE AskInv'
  OBVIOUS
<1>1. /\ TypeOK /\ processed \in Int
      /\ requested_blocks \subseteq Heights /\ requested_blocks' \subseteq Heights
  BY DEF StoreInv, TypeOK
<1>2. CASE up' = up /\ Indifferent
  BY <1>1, <1>2 DEF Indifferent, AskInv, DownAsksNothing, NothingFetchedBehind, AskedIsPursued
<1>3. CASE Processed
  <2>1. DownAsksNothing'
    BY <1>3 DEF DownAsksNothing, Processed, lifetime
  <2>2. NothingFetchedBehind'
    BY <1>1, <1>3, ProcessedPursues DEF AskInv, NothingFetchedBehind, Heights
  <2>3. AskedIsPursued'
    BY <1>1, <1>3, ProcessedPursues DEF AskInv, AskedIsPursued
  <2> QED BY <2>1, <2>2, <2>3 DEF AskInv
<1>4. CASE \E missing : AsksFor(missing)
  <2>1. PICK missing : AsksFor(missing)
    BY <1>4
  <2>2. NothingFetchedBehind'
    BY <1>1, <2>1, AskingPursues DEF AskInv, NothingFetchedBehind, AsksFor
  <2>3. AskedIsPursued'
    BY <1>1, <2>1, AskingPursues DEF AskInv, AskedIsPursued, AsksFor
  <2> QED BY <2>1, <2>2, <2>3 DEF AskInv, DownAsksNothing, AsksFor
<1>5. CASE \E ans \in Answers : Accept(ans)
  <2>1. PICK ans \in Answers : Accept(ans)
    BY <1>5
  <2>2. UNCHANGED <<requested_blocks, outstanding_notarize, processed, up>>
    BY <2>1 DEF Accept, client, lifetime
  <2>3. NothingFetchedBehind'
    BY <2>1, <2>2, AcceptPursues DEF AskInv, NothingFetchedBehind
  <2>4. ASSUME NEW h \in requested_blocks
        PROVE  FinalizedKey(h) \in Pursued' \/ blocks'[h] # None
    <3>1. CASE blocks[h] # None
      <4>1. blocks' = blocks \/ \E i, b : blocks' = Put(blocks, i, b)
        BY <2>1 DEF Accept
      <4>2. h \in DOMAIN blocks
        BY <1>1 DEF TypeOK, Archive
      <4> QED BY <3>1, <4>1, <4>2 DEF Put
    <3>2. CASE FinalizedKey(h) \in Pursued /\ delivery.key = FinalizedKey(h)
      <4>1. blocks' = Put(blocks, h, ans.block)
        <5>1. delivery.key[1] = "Finalized" /\ delivery.key[2] = h
          BY <3>2 DEF FinalizedKey
        <5> QED BY <2>1, <5>1 DEF Accept
      <4>2. ans.block \in Block /\ h \in Heights
        BY <1>1 DEF Answers
      <4> QED BY <1>1, <4>1, <4>2, ChainAssumption DEF Put, TypeOK, Archive
    <3> QED BY <2>1, <3>1, <3>2, AcceptPursues DEF AskInv, AskedIsPursued
  <2> QED BY <2>2, <2>3, <2>4 DEF AskInv, DownAsksNothing, AskedIsPursued
<1>6. CASE Crash
  BY <1>6, NothingPursued DEF AskInv, DownAsksNothing, NothingFetchedBehind, AskedIsPursued, Crash
<1>7. CASE Lose
  <2>1. /\ ~up /\ UNCHANGED <<requested_blocks, outstanding_notarize, processed, up>>
        /\ UNCHANGED resolver
    BY <1>7 DEF Lose, LoseVerified, LoseNotarized, LoseFinalized, LoseBlock, memory, client, lifetime
  <2> QED BY <2>1, PursuedIs, PursuedIsNext
          DEF AskInv, DownAsksNothing, NothingFetchedBehind, AskedIsPursued, resolver
<1>8. CASE Restart
  <2>1. UNCHANGED <<requested_blocks, processed, blocks>> /\ up' /\ UNCHANGED resolver
    BY <1>8 DEF Restart, archives, memory, client
  <2> QED BY <2>1, PursuedIs, PursuedIsNext
          DEF AskInv, DownAsksNothing, NothingFetchedBehind, AskedIsPursued, resolver
<1> QED BY <1>2, <1>3, <1>4, <1>5, <1>6, <1>7, <1>8, EveryStep

\* Whatever is in flight when a height is processed, nothing of it is fetched again.
THEOREM ProcessedIsLeftAlone == Spec => []NothingFetchedBehind
<1>1. AskInv => NothingFetchedBehind
  BY DEF AskInv
<1> QED BY InitStore, NextStore, InitAsk, NextAsk, <1>1, PTL DEF Spec

-----------------------------------------------------------------------------
(* Requests for notarizations, and the archive they fill.                  *)

\* The notarized archive holds certified blocks at their views.
NotarizedAreCertified ==
    \A v \in Views : notarized[v] # None => notarized[v] \in Certified /\ viewOf[notarized[v]] = v

\* Every view it counts as asked for is asked for, or here, or pruned.
ViewsPursued ==
    \A v \in outstanding_notarize :
        NotarizedKey(v) \in Pursued \/ notarized[v] # None \/ v < oldest

ViewInv == NotarizedAreCertified /\ ViewsPursued

\* A turn keeps pursuing the views that it keeps counting as asked for.
LEMMA TurnKeepsViews ==
    ASSUME TypeOK, NEW latest \in Int, NEW outstanding \in SUBSET Views, NEW fetched, NEW cancelled,
           Turn(latest, outstanding, fetched, cancelled),
           \A u : NotarizedKey(u) \notin cancelled,
           NEW v \in outstanding_notarize'
    PROVE  /\ v \in outstanding
           /\ NotarizedKey(v) \in Pursued \union fetched => NotarizedKey(v) \in Pursued'
<1>1. v \in outstanding /\ v >= latest
  BY DEF Turn
<1>2. \A u \in outstanding : u < latest => NotarizedKey(v) # NotarizedKey(u)
  BY <1>1, KeysDiffer DEF Views
<1> QED BY <1>1, <1>2, TurnPursues

\* Entries of a prunable archive after a put and after pruning.
LEMMA PrunableValue ==
    ASSUME NEW a \in Archive(Views), NEW i \in Views, NEW b \in Block, NEW j \in Views,
           NEW boundary \in Int
    PROVE  /\ PutUnpruned(a, boundary, i, b)[j] \in {a[j]} \union (IF j = i THEN {b} ELSE {})
           /\ a[j] # None => PutUnpruned(a, boundary, i, b)[j] # None
           /\ i >= boundary => PutUnpruned(a, boundary, i, b)[i] # None
           /\ Prune(a, boundary)[j] = IF j < boundary THEN None ELSE a[j]
<1>1. \A k \in Views : Put(a, i, b)[k] = IF k = i /\ a[i] = None THEN b ELSE a[k]
  BY PutValue
<1>2. b # None
  BY ChainAssumption
<1> QED BY <1>1, <1>2 DEF PutUnpruned, Prune, Views, Archive

\* Steps with no part in notarizations.
Unconcerned ==
    /\ UNCHANGED <<notarized, oldest, outstanding_notarize>>
    /\ \A v : NotarizedKey(v) \in Pursued => NotarizedKey(v) \in Pursued'

LEMMA UnconcernedKeeps == ViewInv /\ Unconcerned => ViewInv'
BY DEF ViewInv, NotarizedAreCertified, ViewsPursued, Unconcerned

\* Turns that leave the archive alone.
LEMMA TurnKeepsViewInv ==
    ASSUME StoreInv, ViewInv, UNCHANGED <<notarized, oldest>>,
           NEW latest \in Int, NEW outstanding \in SUBSET Views, NEW fetched, NEW cancelled,
           Turn(latest, outstanding, fetched, cancelled),
           \A u : NotarizedKey(u) \notin cancelled,
           \A v \in outstanding \ outstanding_notarize : NotarizedKey(v) \in fetched
    PROVE  ViewInv'
<1>1. TypeOK
  BY DEF StoreInv
<1>2. NotarizedAreCertified'
  BY DEF ViewInv, NotarizedAreCertified
<1>3. ASSUME NEW v \in outstanding_notarize'
      PROVE  NotarizedKey(v) \in Pursued' \/ notarized'[v] # None \/ v < oldest'
  <2>1. /\ v \in outstanding
        /\ NotarizedKey(v) \in Pursued \union fetched => NotarizedKey(v) \in Pursued'
    BY ONLY <1>1, TurnKeepsViews, Turn(latest, outstanding, fetched, cancelled),
            \A u : NotarizedKey(u) \notin cancelled, latest \in Int, outstanding \in SUBSET Views,
            v \in outstanding_notarize'
  <2> QED BY <2>1 DEF ViewInv, ViewsPursued
<1> QED BY <1>2, <1>3 DEF ViewInv, ViewsPursued

LEMMA FinalizeViews ==
    ASSUME StoreInv, ViewInv, NEW b \in Block, Finalize(b)
    PROVE  ViewInv'
<1>1. /\ TypeOK /\ latest_view \in Int /\ outstanding_notarize \in SUBSET Views
      /\ viewOf[b] \in Int
  BY ChainAssumption DEF StoreInv, TypeOK, Views
<1>2. CASE FetchAndTurn({DigestKey(b)}) /\ UNCHANGED <<archives, oldest>>
  <2>1. Turn(latest_view, outstanding_notarize, {DigestKey(b)}, {}) /\ UNCHANGED <<notarized, oldest>>
    BY <1>2 DEF FetchAndTurn, archives
  <2> QED BY <1>1, <2>1, TurnKeepsViewInv
<1>3. CASE /\ Turn(viewOf[b], outstanding_notarize, {}, {})
           /\ notarized' = Prune(notarized, oldest')
           /\ oldest' \in Int /\ oldest' >= oldest
  <2>1. \A v \in Views : notarized'[v] = IF v < oldest' THEN None ELSE notarized[v]
    BY <1>1, <1>3 DEF Prune, TypeOK, Archive
  <2>2. NotarizedAreCertified'
    BY <2>1 DEF ViewInv, NotarizedAreCertified
  <2>3. ASSUME NEW v \in outstanding_notarize'
        PROVE  NotarizedKey(v) \in Pursued' \/ notarized'[v] # None \/ v < oldest'
    <3>1. /\ v \in outstanding_notarize
          /\ NotarizedKey(v) \in Pursued \union {} => NotarizedKey(v) \in Pursued'
      BY <1>1, <1>3, TurnKeepsViews
    <3>2. v \in Views /\ v \in Int /\ oldest \in Int
      BY <1>1, <3>1 DEF Views, TypeOK
    <3> QED BY <1>3, <2>1, <3>1, <3>2 DEF ViewInv, ViewsPursued
  <2> QED BY <2>2, <2>3 DEF ViewInv, ViewsPursued
<1>4. \/ FetchAndTurn({DigestKey(b)}) /\ UNCHANGED <<archives, oldest>>
      \/ /\ Turn(viewOf[b], outstanding_notarize, {}, {})
         /\ notarized' = Prune(notarized, oldest')
         /\ oldest' \in Int /\ oldest' >= oldest
  <2> DEFINE min_view == IF last_view_processed > ActivityTimeout
                         THEN last_view_processed - ActivityTimeout ELSE 0
             section == (min_view \div ItemsPerSection) * ItemsPerSection
  <2>1. section \in Int /\ oldest \in Int
    <3>1. min_view \in Nat /\ oldest \in Int
      BY <1>1, SyncerAssumption DEF TypeOK
    <3> HIDE DEF min_view
    <3> QED BY <3>1, SectionBelow, SyncerAssumption
  <2>2. \/ FetchAndTurn({DigestKey(b)}) /\ UNCHANGED <<archives, oldest>>
        \/ /\ Turn(viewOf[b], outstanding_notarize, {}, {})
           /\ oldest' = IF section > oldest THEN section ELSE oldest
           /\ notarized' = Prune(notarized, oldest')
    BY DEF Finalize
  <2> HIDE DEF section
  <2> QED BY <2>1, <2>2
<1> QED BY <1>2, <1>3, <1>4

LEMMA NotarizeViews ==
    ASSUME StoreInv, ViewInv, NEW b \in Block, Notarize(b)
    PROVE  ViewInv'
<1>1. /\ TypeOK /\ latest_view \in Int /\ outstanding_notarize \subseteq Views
      /\ viewOf[b] \in Views /\ b \in Certified /\ oldest' = oldest /\ oldest \in Int
  BY ChainAssumption, SyncerAssumption DEF StoreInv, TypeOK, Notarize
<1>2. CASE /\ notarized' = PutUnpruned(notarized, oldest, viewOf[b], b)
           /\ UNCHANGED <<outstanding_notarize, resolver>>
  <2>1. notarized \in Archive(Views)
    BY <1>1 DEF TypeOK
  <2>2. \A v \in Views : /\ notarized'[v] \in {notarized[v]} \union (IF v = viewOf[b] THEN {b} ELSE {})
                         /\ notarized[v] # None => notarized'[v] # None
    BY <1>1, <1>2, <2>1, PrunableValue
  <2>3. NotarizedAreCertified'
    BY <1>1, <2>2 DEF ViewInv, NotarizedAreCertified
  <2>4. ViewsPursued'
    BY <1>1, <1>2, <2>2, PursuedIs, PursuedIsNext DEF ViewInv, ViewsPursued, resolver
  <2> QED BY <2>3, <2>4 DEF ViewInv
<1>3. CASE /\ Turn(latest_view, outstanding_notarize \union {viewOf[b]},
                   {NotarizedKey(viewOf[b])}, {})
           /\ UNCHANGED notarized
  <2>1. outstanding_notarize \union {viewOf[b]} \in SUBSET Views
    BY <1>1
  <2> QED BY <1>1, <1>3, <2>1, TurnKeepsViewInv
<1> QED BY <1>2, <1>3 DEF Notarize

LEMMA AcceptViews ==
    ASSUME StoreInv, ViewInv, NEW ans \in Answers, Accept(ans)
    PROVE  ViewInv'
<1> DEFINE key == delivery.key
<1>1. /\ TypeOK /\ UNCHANGED <<oldest, outstanding_notarize>> /\ Accepts(key, ans)
      /\ ans.block \in Block /\ ans.proof \in Block /\ key \in Keys
      /\ outstanding_notarize \subseteq Views /\ oldest \in Int /\ notarized \in Archive(Views)
  BY DEF StoreInv, TypeOK, Accept, Answers
<1>2. CASE key[1] = "Notarized"
  <2>1. PICK v \in Views : key = NotarizedKey(v)
    BY <1>1, <1>2 DEF Keys, NotarizedKey, FinalizedKey, DigestKey
  <2>2. ans.block \in Certified /\ viewOf[ans.block] = v /\ key[2] = v
    BY <1>1, <1>2, <2>1 DEF Accepts, Decodes, Verifies, NotarizedKey
  <2>3. notarized' = PutUnpruned(notarized, oldest, v, ans.block)
    BY <1>2, <2>2 DEF Accept
  <2>4. \A u \in Views : /\ notarized'[u] \in {notarized[u]} \union (IF u = v THEN {ans.block} ELSE {})
                         /\ notarized[u] # None => notarized'[u] # None
                         /\ v >= oldest => notarized'[v] # None
    BY <1>1, <2>3, PrunableValue
  <2>5. NotarizedAreCertified'
    BY <2>2, <2>4 DEF ViewInv, NotarizedAreCertified
  <2>6. ASSUME NEW u \in outstanding_notarize
        PROVE  NotarizedKey(u) \in Pursued' \/ notarized'[u] # None \/ u < oldest
    <3>1. NotarizedKey(u) \in Pursued => NotarizedKey(u) \in Pursued' \/ u = v
      BY <2>1, AcceptPursues, KeysDiffer
    <3>2. v \in Int
      BY DEF Views
    <3> QED BY <1>1, <2>4, <3>1, <3>2 DEF ViewInv, ViewsPursued
  <2> QED BY <1>1, <2>5, <2>6 DEF ViewInv, ViewsPursued
<1>3. CASE key[1] # "Notarized"
  <2>1. UNCHANGED notarized
    BY <1>3 DEF Accept
  <2>2. \A v : NotarizedKey(v) # key
    BY <1>3 DEF NotarizedKey
  <2> QED BY <1>1, <2>1, <2>2, AcceptPursues, UnconcernedKeeps DEF Unconcerned
<1> QED BY <1>2, <1>3

LEMMA NextView == StoreInv /\ StoreInv' /\ DownAsksNothing /\ ViewInv /\ [Next]_vars => ViewInv'
<1> SUFFICES ASSUME StoreInv, StoreInv', DownAsksNothing, ViewInv, [Next]_vars PROVE ViewInv'
  OBVIOUS
<1>1. /\ TypeOK /\ BlocksAreFinal /\ latest_view \in Int
      /\ outstanding_notarize \in SUBSET Views
  BY DEF StoreInv, TypeOK
<1>2. CASE \E b \in Block : \E view \in {None, viewOf[b]} : Get(view, b)
  <2>0. PICK b \in Block : \E view \in {None, viewOf[b]} : Get(view, b)
    BY <1>2
  <2>1. PICK view \in {None, viewOf[b]} : Get(view, b)
    BY <2>0
  <2>2. /\ Turn(latest_view, outstanding_notarize,
                IF view = None THEN {} ELSE {NotarizedKey(view)}, {})
        /\ UNCHANGED <<notarized, oldest>>
    BY <2>1 DEF Get, FetchAndTurn, archives
  <2> QED BY <1>1, <2>2, TurnKeepsViewInv
<1>3. CASE Processed
  <2>1. /\ Turn(latest_view, outstanding_notarize, {},
                {FinalizedKey(processed + 1), DigestKey(Final[processed + 1])})
        /\ UNCHANGED <<notarized, oldest>>
    BY <1>3 DEF Processed, archives
  <2>2. \A u : NotarizedKey(u) \notin {FinalizedKey(processed + 1), DigestKey(Final[processed + 1])}
    BY KeysDiffer
  <2> QED BY <1>1, <2>1, <2>2, TurnKeepsViewInv
<1>4. CASE \E repaired \in BOOLEAN : Repair(indexed + 1, repaired)
  <2>1. PICK repaired \in BOOLEAN : Repair(indexed + 1, repaired)
    BY <1>4
  <2>2. CASE \E missing : AsksFor(missing)
    <3>1. PICK missing, parent :
              /\ Turn(latest_view, outstanding_notarize,
                      {DigestKey(parent)} \union {FinalizedKey(h) : h \in missing}, {})
              /\ UNCHANGED <<notarized, oldest>>
      BY <2>2 DEF AsksFor
    <3> QED BY <1>1, <3>1, TurnKeepsViewInv
  <2>3. CASE UNCHANGED <<notarized, oldest, outstanding_notarize, resolver>>
    BY <2>3, PursuedIs, PursuedIsNext, UnconcernedKeeps DEF Unconcerned, resolver
  <2> QED BY <1>1, <2>1, <2>2, <2>3, RepairRequests
<1>5. CASE Reject
  BY <1>5, RejectPursues, UnconcernedKeeps DEF Unconcerned, Reject, archives, memory
<1>6. CASE \E key \in fetching : HandOver(key)
  BY <1>1, <1>6, HandOverPursues, UnconcernedKeeps DEF Unconcerned, HandOver, archives, memory
<1>7. CASE \/ \E b \in Block : Broadcast(b) \/ StoreVerified(b) \/ Evict(b) \/ Abandon(b)
           \/ Index \/ TakeWake \/ Restart \/ UNCHANGED vars
  <2>1. UNCHANGED <<notarized, oldest, outstanding_notarize>> /\ UNCHANGED resolver
    BY <1>7 DEF Broadcast, StoreVerified, Evict, Abandon, Index, TakeWake, Restart, vars, archives, memory
  <2> QED BY <2>1, PursuedIs, PursuedIsNext, UnconcernedKeeps DEF Unconcerned, resolver
<1>8. CASE Crash
  BY <1>8 DEF ViewInv, NotarizedAreCertified, ViewsPursued, Crash, archives
<1>9. CASE Lose
  <2>1. outstanding_notarize' = {}
    BY <1>9 DEF DownAsksNothing, Lose, LoseVerified, LoseNotarized, LoseFinalized, LoseBlock, memory
  <2>2. \A v \in Views : notarized'[v] \in {None, notarized[v]}
    BY <1>1, <1>9 DEF TypeOK, Archive, Lose, LoseVerified, LoseNotarized, LoseFinalized, LoseBlock
  <2> QED BY <2>1, <2>2 DEF ViewInv, NotarizedAreCertified, ViewsPursued
<1>10. CASE \E b \in Block : Finalize(b) \/ Notarize(b)
  BY <1>10, FinalizeViews, NotarizeViews
<1>11. CASE \E ans \in Answers : Accept(ans)
  BY <1>11, AcceptViews
<1> QED BY <1>2, <1>3, <1>4, <1>5, <1>6, <1>7, <1>8, <1>9, <1>10, <1>11
        DEF Next, Mailbox, Orchestrated, Deliver, Environment, Panic

\* What is counted as asked for is never forgotten by the resolver.
THEOREM RequestsAreTrue == Spec => []RequestsStayAlive
<1>1. Init => ViewInv
  BY DEF Init, ViewInv, NotarizedAreCertified, ViewsPursued, Empty
<1>2. AskInv => DownAsksNothing
  BY DEF AskInv
<1>3. AskInv /\ ViewInv => RequestsStayAlive
  BY DEF AskInv, ViewInv, AskedIsPursued, ViewsPursued, RequestsStayAlive
<1> QED BY InitStore, NextStore, InitAsk, NextAsk, NextView, <1>1, <1>2, <1>3, PTL DEF Spec

\* Both halves of a certificate it serves belong together and to the key it is asked for.
THEOREM CertificatesAreServed == Spec => []ServedCertificatesAccepted
<1>1. Init => ViewInv
  BY DEF Init, ViewInv, NotarizedAreCertified, ViewsPursued, Empty
<1>2. AskInv => DownAsksNothing
  BY DEF AskInv
<1>3. StoreInv /\ ViewInv => ServedCertificatesAccepted
  <2> SUFFICES ASSUME StoreInv, ViewInv PROVE ServedCertificatesAccepted
    OBVIOUS
  <2>1. TypeOK /\ BlocksAreFinal
    BY DEF StoreInv
  <2>2. ASSUME NEW v \in Views, NEW ans \in Produce(NotarizedKey(v))
        PROVE  Accepts(NotarizedKey(v), ans)
    <3>1. ans = [type |-> "Notarized", proof |-> notarized[v], block |-> notarized[v]]
          /\ notarized[v] # None
      BY <2>1 DEF Produce, NotarizedKey, At, TypeOK, Archive
    <3>2. notarized[v] \in Certified /\ viewOf[notarized[v]] = v
      BY <3>1 DEF ViewInv, NotarizedAreCertified
    <3> QED BY <3>1, <3>2 DEF Accepts, NotarizedKey, Decodes, Verifies
  <2>3. ASSUME NEW h \in Heights, NEW ans \in Produce(FinalizedKey(h))
        PROVE  Accepts(FinalizedKey(h), ans)
    <3>1. /\ ans = [type |-> "Finalized", proof |-> finalized[h], block |-> blocks[h]]
          /\ finalized[h] # None /\ blocks[h] # None
      BY DEF Produce, FinalizedKey
    <3>2. finalized[h] = Final[h] /\ blocks[h] = Final[h]
      BY <2>1, <3>1 DEF BlocksAreFinal
    <3> QED BY <3>1, <3>2, FinalFacts DEF Accepts, FinalizedKey, Decodes, Verifies
  <2> QED BY <2>2, <2>3 DEF ServedCertificatesAccepted
<1> QED BY InitStore, NextStore, InitAsk, NextAsk, NextView, <1>1, <1>2, <1>3, PTL DEF Spec

-----------------------------------------------------------------------------
(* What is asked for stays asked for, until it is there or of no use.  The *)
(* composed node needs this: its finalizer sleeps on what a Repair asked.  *)

\* The steps that end the pursuit of a key: a turn of the loop for an outdated view, the
\* Processed of its height, its own delivery, and a crash.
LEMMA WhoEndsPursuit ==
    ASSUME StoreInv, [Next]_vars, NEW key \in Pursued
    PROVE  \/ key \in Pursued' \/ ~up'
           \/ \E v : key = NotarizedKey(v) /\ v < latest_view'
           \/ Processed /\ key \in {FinalizedKey(processed + 1), DigestKey(Final[processed + 1])}
           \/ \E ans \in Answers : Accept(ans) /\ key = delivery.key
<1>1. TypeOK
  BY DEF StoreInv
<1>2. CASE UNCHANGED resolver
  BY <1>2, PursuedIs, PursuedIsNext DEF resolver
<1>3. ASSUME NEW latest, NEW outstanding, NEW fetched, NEW cancelled,
             Turn(latest, outstanding, fetched, cancelled), key \notin cancelled
      PROVE  key \in Pursued' \/ \E v : key = NotarizedKey(v) /\ v < latest_view'
  <2>1. latest_view' = latest
    BY <1>3 DEF Turn
  <2> QED BY <1>1, <1>3, <2>1, TurnPursues
<1>4. CASE Mailbox
  <2>1. PICK b \in Block : \/ \E view \in {None, viewOf[b]} : Get(view, b)
                          \/ Broadcast(b) \/ StoreVerified(b) \/ Finalize(b) \/ Notarize(b)
    BY <1>4 DEF Mailbox
  <2>2. \/ UNCHANGED resolver
        \/ \E latest, outstanding, fetched : Turn(latest, outstanding, fetched, {})
    BY <2>1 DEF Get, Broadcast, StoreVerified, Finalize, Notarize, FetchAndTurn
  <2> QED BY <1>2, <1>3, <2>2
<1>5. CASE \E repaired \in BOOLEAN : Repair(indexed + 1, repaired)
  <2>1. \/ UNCHANGED resolver
        \/ \E latest, outstanding, fetched : Turn(latest, outstanding, fetched, {})
    BY <1>5 DEF Repair, RepairFrom, RequestMissing, FetchAndTurn
  <2> QED BY <1>2, <1>3, <2>1
<1>6. CASE Processed
  <2> DEFINE done == {FinalizedKey(processed + 1), DigestKey(Final[processed + 1])}
  <2>1. Turn(latest_view, outstanding_notarize, {}, done)
    BY <1>6 DEF Processed
  <2>2. key \notin done => key \in Pursued' \/ \E v : key = NotarizedKey(v) /\ v < latest_view'
    BY <1>3, <2>1
  <2> QED BY <1>6, <2>2
<1>7. CASE Reject
  BY <1>7, RejectPursues
<1>8. CASE \E ans \in Answers : Accept(ans)
  BY <1>8, AcceptPursues
<1>9. CASE \E k \in fetching : HandOver(k)
  BY <1>1, <1>9, HandOverPursues
<1>10. CASE Crash
  BY <1>10 DEF Crash
<1>11. CASE \/ \E b \in Block : Evict(b) \/ Abandon(b)
            \/ Index \/ TakeWake \/ Lose \/ Restart \/ UNCHANGED vars
  <2>1. UNCHANGED resolver
    BY <1>11 DEF Evict, Abandon, Index, TakeWake, Lose, Restart, vars
  <2> QED BY <1>2, <2>1
<1> QED BY <1>4, <1>5, <1>6, <1>7, <1>8, <1>9, <1>10, <1>11
        DEF Next, Orchestrated, Deliver, Environment, Panic

\* A key is of one of the three kinds.
LEMMA KeyKinds ==
    ASSUME NEW key \in Keys
    PROVE  \/ \E v \in Views : key = NotarizedKey(v)
           \/ \E h \in Heights : key = FinalizedKey(h)
           \/ \E b \in Block : key = DigestKey(b)
BY DEF Keys

\* What a delivery that is accepted leaves: the block it was asked for.
LEMMA AcceptedIsDone ==
    ASSUME StoreInv, NEW ans \in Answers, Accept(ans), NEW key, key = delivery.key
    PROVE  Done(key)'
<1>1. /\ TypeOK /\ key \in Keys /\ ans.block \in Block /\ ans.proof \in Block
      /\ UNCHANGED <<oldest, latest_view, processed>>
  BY DEF StoreInv, TypeOK, Accept, Answers, client
<1>2. CASE \E v \in Views : key = NotarizedKey(v)
  <2>1. PICK v \in Views : key = NotarizedKey(v)
    BY <1>2
  <2>2. notarized' = PutUnpruned(notarized, oldest, v, ans.block)
    BY <2>1 DEF Accept, NotarizedKey
  <2>3. notarized'[v] # None \/ v < oldest
    BY <1>1, <2>2, ChainAssumption DEF PutUnpruned, Put, TypeOK, Archive
  <2> QED BY <1>1, <2>1, <2>3 DEF Done
<1>3. CASE \E h \in Heights : key = FinalizedKey(h)
  <2>1. PICK h \in Heights : key = FinalizedKey(h)
    BY <1>3
  <2>2. blocks' = Put(blocks, h, ans.block)
    BY <2>1 DEF Accept, FinalizedKey
  <2>3. blocks'[h] # None
    BY <1>1, <2>2, ChainAssumption DEF Put, TypeOK, Archive
  <2> QED BY <2>1, <2>3 DEF Done
<1>4. CASE \E b \in Block : key = DigestKey(b)
  <2>1. PICK b \in Block : key = DigestKey(b)
    BY <1>4
  <2>2. blocks' = Put(blocks, heightOf[b], b)
    BY <2>1 DEF Accept, Accepts, DigestKey
  <2>3. b \in FinalBlocks
    BY <2>1 DEF StoreInv, OnlyFinalRequested, Accept
  <2>4. PICK h \in Heights : b = Final[h] /\ heightOf[b] = h
    BY <2>3, FinalFacts DEF FinalBlocks
  <2>5. h \in DOMAIN blocks' /\ blocks'[h] = b
    BY <1>1, <2>2, <2>4 DEF Put, TypeOK, Archive, StoreInv, BlocksAreFinal
  <2> QED BY <2>1, <2>5 DEF Done, Holds
<1> QED BY <1>1, <1>2, <1>3, <1>4, KeyKinds

\* The resolver pursues what it was asked for until it is there, outdated, or forgotten in a
\* crash: no refusal of a peer's answer and no cancellation of another key makes it give up.
THEOREM ResolverPursues == Spec => PursuedUntilDone
<1> DEFINE Goes == \A key \in Pursued : key \in Pursued' \/ Done(key)' \/ ~up'
<1>1. ASSUME StoreInv, [Next]_vars PROVE Goes
  <2> SUFFICES ASSUME NEW key \in Pursued PROVE key \in Pursued' \/ Done(key)' \/ ~up'
    OBVIOUS
  <2>1. TypeOK /\ key \in Keys
    BY <1>1, PursuedIs DEF StoreInv, TypeOK
  <2>2. CASE \E v : key = NotarizedKey(v) /\ v < latest_view'
    <3>1. PICK v : key = NotarizedKey(v) /\ v < latest_view'
      BY <2>2
    <3>2. v \in Views
      BY <2>1, <3>1, KeyKinds, KeysDiffer
    <3> QED BY <3>1, <3>2 DEF Done
  <2>3. CASE Processed /\ key \in {FinalizedKey(processed + 1), DigestKey(Final[processed + 1])}
    <3>1. processed' = processed + 1 /\ processed + 1 \in Heights
      BY <2>1, <2>3, ChainAssumption DEF Processed, TypeOK, Heights
    <3>2. processed + 1 <= processed'
      BY <2>1, <3>1 DEF TypeOK
    <3>3. CASE key = FinalizedKey(processed + 1)
      BY <3>1, <3>2, <3>3 DEF Done
    <3>4. CASE key = DigestKey(Final[processed + 1])
      BY <3>1, <3>2, <3>4, FinalFacts DEF Done
    <3> QED BY <2>3, <3>3, <3>4
  <2> QED BY <1>1, <2>2, <2>3, WhoEndsPursuit, AcceptedIsDone
<1>2. StoreInv /\ [Next]_vars => [Goes]_vars
  BY <1>1
<1> QED BY <1>2, StoreInvariance, PTL DEF Spec, PursuedUntilDone

\* A step that ends the pursuit of a key other than a view's either stores a block, which
\* leaves a notification, or handles a Processed, or is a crash.
LEMMA PursuitEnds ==
    ASSUME StoreInv, [Next]_vars, NEW key \in Pursued, \A v : key # NotarizedKey(v)
    PROVE  key \in Pursued' \/ wake' > 0 \/ processed' = processed + 1 \/ ~up'
<1>1. TypeOK /\ wake \in Nat /\ WakeCapacity > 0
  BY SyncerAssumption DEF StoreInv, TypeOK
<1>2. CASE \E ans \in Answers : Accept(ans) /\ key = delivery.key
  <2>1. PICK ans \in Answers : Accept(ans) /\ key = delivery.key
    BY <1>2
  <2>2. key[1] # "Notarized"
    <3>1. key \in Keys
      BY <1>1, PursuedIs DEF TypeOK
    <3> QED BY <3>1, KeyKinds DEF NotarizedKey, FinalizedKey, DigestKey
  <2>3. Wake
    BY <2>1, <2>2 DEF Accept
  <2> QED BY <1>1, <2>3 DEF Wake
<1>3. CASE Processed
  BY <1>3 DEF Processed
<1> QED BY <1>2, <1>3, WhoEndsPursuit

\* When it answers false, Repair has asked for all that closes the gap, or had before.
LEMMA RepairAsks ==
    ASSUME StoreInv, RequestsStayAlive, NEW next, Repair(next, FALSE)
    PROVE  GapAsked(next)'
<1>1. TypeOK /\ next \in Nat
  BY DEF StoreInv, TypeOK, Repair
<1> SUFFICES ASSUME NEW s \in StartNext(blocks', next)
             PROVE  /\ DigestKey(parentOf[blocks'[s]]) \in Pursued'
                    /\ \A h \in Heights : next <= h /\ h < s /\ h < next + RepairBatch
                           => FinalizedKey(h) \in Pursued' \/ blocks'[h] # None
  BY DEF GapAsked
<1>2. blocks' = blocks /\ \E t \in StartNext(blocks, next) : RequestMissing(next, t, parentOf[blocks[t]])
  BY DEF Repair, RequestMissing
<1>3. PICK t \in StartNext(blocks, next) : RequestMissing(next, t, parentOf[blocks[t]])
  BY <1>2
<1>4. s = t
  BY <1>1, <1>2 DEF StartNext, RangeStarts, TypeOK, Archive, Heights
<1> DEFINE missing == {h \in Heights : /\ next <= h /\ h < s /\ h < next + RepairBatch
                                       /\ h \notin requested_blocks}
           parent == parentOf[blocks[s]]
           keys == {DigestKey(parent)} \union {FinalizedKey(h) : h \in missing}
<1>5. Turn(latest_view, outstanding_notarize, keys, {})
  BY <1>3, <1>4 DEF RequestMissing, FetchAndTurn
<1>6. DigestKey(parent) \in Pursued'
  BY <1>1, <1>5, TurnPursues, KeysDiffer
<1>7. ASSUME NEW h \in Heights, next <= h, h < s, h < next + RepairBatch
      PROVE  FinalizedKey(h) \in Pursued' \/ blocks'[h] # None
  <2>1. FinalizedKey(h) \in Pursued \union keys \/ blocks[h] # None
    BY <1>7 DEF RequestsStayAlive
  <2> HIDE DEF keys
  <2> QED BY <1>1, <1>2, <1>5, <2>1, TurnPursues, KeysDiffer
<1> QED BY <1>2, <1>6, <1>7

\* From then on it stays so while nobody is notified, told or crashed.
LEMMA GapStaysAsked ==
    ASSUME StoreInv, [Next]_vars, NEW next, GapAsked(next),
           blocks' = blocks, processed' = processed, wake' = 0, up'
    PROVE  GapAsked(next)'
<1>1. \A key \in Pursued : (\A v : key # NotarizedKey(v)) => key \in Pursued'
  BY PursuitEnds DEF StoreInv, TypeOK
<1>2. \A b : DigestKey(b) \in Pursued => DigestKey(b) \in Pursued'
  BY <1>1, KeysDiffer
<1>3. \A h : FinalizedKey(h) \in Pursued => FinalizedKey(h) \in Pursued'
  BY <1>1, KeysDiffer
<1> QED BY <1>2, <1>3 DEF GapAsked
=============================================================================
