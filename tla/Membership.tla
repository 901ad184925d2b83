------------------------------ MODULE Membership ------------------------------
(***************************************************************************)
(* What the registry promises of the committee: the sets it has had form a *)
(* history that only grows, each differs from the one before by the one    *)
(* key that somebody added or removed, and the resolver follows it, never  *)
(* back and never ahead of what is there.                                  *)
(***************************************************************************)
EXTENDS Integers, Sequences

CONSTANT Keys

VARIABLES history,     \* the sets of members, by number from 1 on
          following    \* the number of the set the resolver has its peers from

Init == history = <<>> /\ following = 0

Open ==
    /\ history = <<>>
    /\ \E members \in SUBSET Keys : history' = <<members>>
    /\ following' = 1

Current == history[Len(history)]

Change(k) ==
    /\ history # <<>>
    /\ \/ k \notin Current /\ history' = Append(history, Current \union {k})
       \/ k \in Current /\ history' = Append(history, Current \ {k})
    /\ UNCHANGED following

Follow == following' \in following..Len(history) /\ UNCHANGED history

Close == history' = <<>> /\ following' = 0

Next == Open \/ (\E k \in Keys : Change(k)) \/ Follow \/ Close

Spec == Init /\ [][Next]_<<history, following>>
=============================================================================
