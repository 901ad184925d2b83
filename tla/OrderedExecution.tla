--------------------------- MODULE OrderedExecution ---------------------------
(***************************************************************************)
(* What a Summit node promises of execution, whatever its syncer does: it  *)
(* has the execution client commit the final chain one block at a time,    *)
(* again only where a crash hit before the block was recorded; the durable *)
(* index trails what is committed by at most that block; and a proposer    *)
(* that asked for a height is released only once that height is recorded.  *)
(*                                                                         *)
(* The client's head is written twice: by those commits, and by the        *)
(* proposers, who start their payloads on a head that is already old when  *)
(* the client hears of it - genesis, after a restart.  So the head may go  *)
(* back, but never to a block that was not committed before.               *)
(***************************************************************************)
EXTENDS Chain

VARIABLES head,       \* the execution client's head
          committed,  \* height of the block the node last had it commit
          index,      \* the last height recorded as executed (durable)
          released    \* requests [id, height] of proposers let go, until they go on

Committed == {Genesis} \union {Final[h] : h \in 1..committed}

Init == head = Genesis /\ committed = 0 /\ index = 0 /\ released = {}

\* Again, after a crash that hit between the execution and its record.
Execute ==
    /\ index < TopHeight
    /\ committed' = index + 1
    /\ head' = Final[index + 1]
    /\ UNCHANGED <<index, released>>

ReleaseUpTo(height) ==
    /\ released \subseteq released'
    /\ \A r \in released' \ released : r.height <= height

Record ==
    /\ committed = index + 1
    /\ index' = index + 1
    /\ ReleaseUpTo(index')
    /\ UNCHANGED <<head, committed>>

Release == ReleaseUpTo(index) /\ UNCHANGED <<head, committed, index>>

\* A released proposer goes on, or a crash forgets them all.
Forget == released' \subseteq released /\ UNCHANGED <<head, committed, index>>

\* A proposer's payload is started on a head the node once had.
Rewind == head' \in Committed /\ UNCHANGED <<committed, index, released>>

Next == Execute \/ Record \/ Release \/ Forget \/ Rewind

Spec == Init /\ [][Next]_<<head, committed, index, released>>
=============================================================================
