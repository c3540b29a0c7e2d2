---------------------------- MODULE ChainFollower ----------------------------
(***************************************************************************)
(* What the indexer's pools promise a subscriber of their events: a chain  *)
(* that is always a chain, whose oldest blocks become final one after the  *)
(* other and are never rolled back.                                        *)
(***************************************************************************)
EXTENDS Integers, Sequences, SequencesExt

CONSTANTS Parent \* the parent of each block

VARIABLES
    chain,  \* the blocks applied and not rolled back, newest first
    final   \* the blocks declared final, oldest first

Linked(c) == \A i \in 1..(Len(c) - 1) : Parent[c[i]] = c[i + 1]

\* The subscriber may have a chain from a snapshot.
Init == Linked(chain) /\ final = <<>>

\* One event: some of the newest blocks give way to others, and some of the
\* oldest of what results become final.  A block that is final stays.
Follow ==
    /\ Linked(chain')
    /\ IsPrefix(final, final')
    /\ IsPrefix(final', Reverse(chain'))

Next == Follow

Spec == Init /\ [][Next]_<<chain, final>>
=============================================================================
