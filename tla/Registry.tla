------------------------------- MODULE Registry -------------------------------
(***************************************************************************)
(* The registry of participants (syncer/src/registry.rs), shared by        *)
(* consensus and the resolver.  Sets of participants are kept by a number, *)
(* the view, and changed by copying the latest under a write lock; the     *)
(* number of the latest is an atomic of its own, which readers load before *)
(* they take the lock, and with relaxed ordering.                          *)
(*                                                                         *)
(* Nothing in the repository changes the set yet: here any sequence of     *)
(* calls of the two public operations does.                                *)
(***************************************************************************)
EXTENDS Integers, Sequences

CONSTANTS Candidate,   \* public keys
          MaxViews     \* bound: sets that are ever created

ASSUME RegistryAssumption == MaxViews \in Nat \ {0}

VARIABLES
    views,       \* the sets: [list, map], by view from 1 on
    latest,      \* latest_view
    edit,        \* what the holder of the write lock will insert, or NoEdit
    stored,      \* whether it has stored its number in latest
    id,          \* the peer set the resolver last reconciled with
    asking,      \* whether it has read a new id and not yet the peers
    peers,       \* the view whose list it reconciled with
    loaded       \* the view a lookup of consensus has loaded, 0 if none

NoEdit == <<>>
locked == edit # NoEdit

writer == <<views, latest, edit, stored>>
resolver == <<id, asking, peers>>
registry == <<writer, resolver, loaded>>

\* participants_map of a fresh list: every key at its index, from 0.
Enumerate(list) ==
    [k \in {list[i] : i \in DOMAIN list} |-> (CHOOSE i \in DOMAIN list : list[i] = k) - 1]

Closed ==
    /\ views = <<>> /\ latest = 0 /\ edit = NoEdit /\ stored = FALSE
    /\ id = 0 /\ asking = FALSE /\ peers = 0 /\ loaded = 0

\* Registry::new, and the resolver's start with its first set.
New(list) ==
    /\ views = <<>>
    /\ views' = <<[list |-> list, map |-> Enumerate(list)]>> /\ latest' = 1
    /\ id' = 1 /\ peers' = 1
    /\ UNCHANGED <<edit, stored, asking, loaded>>

-----------------------------------------------------------------------------
(* Writers, one at a time.                                                 *)

\* views.get(&current_latest), a clone, or the empty set (unwrap_or_default).
Current == IF latest \in DOMAIN views THEN views[latest]
           ELSE [list |-> <<>>, map |-> Enumerate(<<>>)]

CopyOfLatest ==
    /\ views # <<>> /\ ~locked /\ latest < MaxViews
    /\ stored' = FALSE
    /\ UNCHANGED <<views, latest, resolver, loaded>>

\* Bug of add_participant: the index of the new key is the new length.
add_participant_off(k) ==
    /\ CopyOfLatest /\ k \notin DOMAIN Current.map
    /\ LET list == Append(Current.list, k)
       IN  edit' = <<[list |-> list,
                      map |-> [p \in DOMAIN Current.map \union {k} |->
                                 IF p = k THEN Len(list) ELSE Current.map[p]]]>>

\* Bug of add_participant: nothing refuses a key that is already there.
add_participant_again(k) ==
    /\ CopyOfLatest
    /\ LET list == Append(Current.list, k)
       IN  edit' = <<[list |-> list,
                      map |-> [p \in DOMAIN Current.map \union {k} |->
                                 IF p = k THEN Len(list) - 1 ELSE Current.map[p]]]>>

add_participant(k) ==
    /\ CopyOfLatest /\ k \notin DOMAIN Current.map
    /\ LET list == Append(Current.list, k)
       IN  edit' = <<[list |-> list,
                      map |-> [p \in DOMAIN Current.map \union {k} |->
                                 IF p = k THEN Len(list) - 1 ELSE Current.map[p]]]>>

\* The last element takes the place of element i.
SwapRemove(list, i) ==
    [j \in 1..(Len(list) - 1) |-> IF j = i THEN list[Len(list)] ELSE list[j]]

\* Bug of remove_participant: the moved key keeps its old index.
remove_participant_unindexed(k) ==
    /\ CopyOfLatest /\ k \in DOMAIN Current.map
    /\ edit' = <<[list |-> SwapRemove(Current.list, Current.map[k] + 1),
                  map |-> [p \in DOMAIN Current.map \ {k} |-> Current.map[p]]]>>

\* The key that was moved, if any, gets the index of the removed one.
remove_participant(k) ==
    /\ CopyOfLatest /\ k \in DOMAIN Current.map
    /\ LET index == Current.map[k]
           list == SwapRemove(Current.list, index + 1)
           moved == {list[i] : i \in {index + 1} \intersect DOMAIN list}
       IN  edit' = <<[list |-> list,
                      map |-> [p \in DOMAIN Current.map \ {k} |->
                                 IF p \in moved THEN index ELSE Current.map[p]]]>>

StoreLatest ==
    /\ locked /\ ~stored
    /\ latest' = latest + 1 /\ stored' = TRUE
    /\ UNCHANGED <<views, edit, resolver, loaded>>

\* Bug of Insert: the set is inserted under the number it was copied from.
InsertInPlace ==
    /\ locked /\ stored
    /\ views' = [views EXCEPT ![latest - 1] = edit[1]]
    /\ edit' = NoEdit
    /\ UNCHANGED <<latest, stored, resolver, loaded>>

\* The set is inserted and the lock released.
Insert ==
    /\ locked /\ stored
    /\ views' = Append(views, edit[1]) /\ edit' = NoEdit
    /\ UNCHANGED <<latest, stored, resolver, loaded>>

-----------------------------------------------------------------------------
(* Readers: what a relaxed load returns is no older than what the same     *)
(* task has seen; the lookup waits for the lock.                           *)

\* The resolver reads peer_set_id, and when it is new, peers.
peer_set_id(new) ==
    /\ views # <<>> /\ ~asking
    /\ new \in (id + 1)..latest /\ new >= peers
    /\ id' = new /\ asking' = TRUE
    /\ UNCHANGED <<writer, peers, loaded>>

\* Bug of reconcile: the number is looked up without the lock; a set that is not there
\* is taken to be empty.
reconcile_unlocked(view) ==
    /\ asking
    /\ view \in id..latest
    /\ peers' = IF view \in DOMAIN views THEN view ELSE 0
    /\ asking' = FALSE
    /\ UNCHANGED <<writer, id, loaded>>

reconcile(view) ==
    /\ asking /\ ~locked
    /\ view \in id..latest
    /\ peers' = view /\ asking' = FALSE
    /\ UNCHANGED <<writer, id, loaded>>

\* leader, participants or is_participant: load the latest view, then look it up.
Load(view) ==
    /\ views # <<>> /\ loaded = 0 /\ view \in 1..latest
    /\ loaded' = view
    /\ UNCHANGED <<writer, resolver>>

\* The members of a set.
ListedIn(s) == {s.list[i] : i \in DOMAIN s.list}

\* Whom leader may name from the set of a view: the round or its seed picks any member.
\* None, here no one, for a view without a set and for a set that removals have emptied.
leaders(view) == IF view \in DOMAIN views THEN ListedIn(views[view]) ELSE {}

\* The lookup waits for the lock and answers from the set of the view it has loaded:
\* leader with one of leaders(loaded), or None when there is none.  It changes nothing.
Lookup ==
    /\ loaded # 0 /\ ~locked
    /\ loaded' = 0
    /\ UNCHANGED <<writer, resolver>>

-----------------------------------------------------------------------------
RegistryNext ==
    \/ \E k \in Candidate : add_participant(k) \/ remove_participant(k)
    \/ StoreLatest \/ Insert
    \/ \E view \in 1..MaxViews : peer_set_id(view) \/ reconcile(view) \/ Load(view)
    \/ Lookup
=============================================================================
