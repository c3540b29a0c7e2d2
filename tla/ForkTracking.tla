---------------------------- MODULE ForkTracking ----------------------------
(***************************************************************************)
(* What the bitcoin pad and the stacks pool of the observer do alike.      *)
(*                                                                         *)
(* Both keep their forks as segments (ChainSegment, indexer/mod.rs): the   *)
(* blocks of one fork that are still in memory, newest first.  Both offer  *)
(* a block to every fork, take back orphans, find the stored ancestors of  *)
(* a tip and describe how one canonical fork gives way to another.         *)
(*                                                                         *)
(* A block is a positive number; block identifiers compare by hash, which  *)
(* is the number itself.                                                   *)
(***************************************************************************)
EXTENDS Integers, Sequences, SequencesExt, FiniteSetsExt

CONSTANTS
    Blocks,  \* every header, block and microblock that can ever be announced
    Parent,  \* the parent of each block, NoBlock below the first ones
    Height,  \* the index of each block
    ConfirmedSegmentMinimumLength \* CONFIRMED_SEGMENT_MINIMUM_LENGTH

NoBlock == 0

ASSUME BlocksAssumption ==
    /\ Blocks \subseteq Nat \ {NoBlock}
    /\ Parent \in [Blocks -> Blocks \cup {NoBlock}]
    /\ Height \in [Blocks -> Nat]
    /\ \A b \in Blocks : Parent[b] # NoBlock => Height[b] = Height[Parent[b]] + 1
    /\ ConfirmedSegmentMinimumLength \in Nat \ {0, 1}

InSegment(segment, b) == \E i \in DOMAIN segment : segment[i] = b

\* The place of a block in a segment that has it.
Position(segment, b) == Min({i \in DOMAIN segment : segment[i] = b})

\* is_block_id_newer_than_segment
IsNewerThanSegment(segment, b) ==
    segment # <<>> /\ Height[b] > Height[Head(segment)] + 1

\* get_relative_index: a saturating subtraction, so that a block above the tip
\* is compared with the tip.
GetRelativeIndex(segment, b) ==
    IF segment # <<>> /\ Height[Head(segment)] > Height[b]
    THEN Height[Head(segment)] - Height[b] ELSE 0

\* Mutant: the tip is not compared with the parent.
CanAppendAtHeight(segment, b) ==
    IF IsNewerThanSegment(segment, b) THEN "OutdatedSegment"
    ELSE IF segment = <<>> \/ Height[Head(segment)] = Height[b] - 1 THEN "Ok"
    ELSE IF GetRelativeIndex(segment, b) < Len(segment)
         THEN IF segment[GetRelativeIndex(segment, b) + 1] = b
              THEN "AlreadyPresent" ELSE "BlockCollision"
    ELSE "Unknown"

\* can_append_block
CanAppendBlock(segment, b) ==
    IF IsNewerThanSegment(segment, b) THEN "OutdatedSegment"
    ELSE IF segment = <<>> THEN "Ok"
    ELSE IF Height[Head(segment)] = Height[b] - 1
         THEN IF Head(segment) = Parent[b] THEN "Ok" ELSE "ParentBlockUnknown"
    ELSE IF GetRelativeIndex(segment, b) < Len(segment)
         THEN IF segment[GetRelativeIndex(segment, b) + 1] = b
              THEN "AlreadyPresent" ELSE "BlockCollision"
    ELSE "Unknown"

\* keep_blocks_from_oldest_to_block_identifier, when b is in the segment.
KeepFromOldestTo(segment, b) ==
    SubSeq(segment, Position(segment, b), Len(segment))

\* try_append_block: the segment afterwards, and the fork that has to be
\* registered when the block collides with one of the segment.
NoFork == <<>>

TryAppendBlock(segment, b) ==
    LET verdict == CanAppendBlock(segment, b)
        forks   == verdict = "BlockCollision" /\ InSegment(segment, Parent[b])
    IN  [appended |-> verdict = "Ok" \/ forks,
         segment  |-> IF verdict = "Ok" THEN <<b>> \o segment ELSE segment,
         fork     |-> IF forks THEN <<b>> \o KeepFromOldestTo(segment, Parent[b])
                               ELSE NoFork]

\* prune_confirmed_blocks
PruneConfirmedBlocks(segment, cutOff) ==
    SelectSeq(segment, LAMBDA c : Height[c] >= Height[cutOff])

\* try_identify_divergence, without its reset: what a reader of `other` has to
\* roll back, newest first, and apply, oldest first, to reach `segment`.
HaveCommonRoot(segment, other) ==
    \E i \in DOMAIN other : InSegment(segment, other[i])

TryIdentifyDivergence(segment, other) ==
    LET root == Min({i \in DOMAIN other : InSegment(segment, other[i])})
        base == Position(segment, other[root])
    IN  [rollback |-> SubSeq(other, 1, root - 1),
         apply    |-> Reverse(SubSeq(segment, 1, base - 1))]

-----------------------------------------------------------------------------
(* The forks. *)

NoEvent == [rollback |-> <<>>, apply |-> <<>>, confirmed |-> <<>>]

\* The forks that take the block, the first of which gets it.
Takers(forks, h) == {i \in DOMAIN forks : TryAppendBlock(forks[i], h).appended}

\* Former orphans are tried on the fork that has just grown, highest first, as
\* often as one pass over them appends something.  A fork that an orphan opens
\* is dropped ("TODO: Register recovered forks").
Before(a, b)   == Height[a] > Height[b] \/ (Height[a] = Height[b] /\ a > b)
BlockOrder     ==
    [i \in 1..Cardinality(Blocks) |->
        CHOOSE a \in Blocks : Cardinality({b \in Blocks : Before(b, a)}) = i - 1]
OrphanOrder(S) == SelectSeq(BlockOrder, LAMBDA b : b \in S)

TryOrphan(acc, o) ==
    LET result == TryAppendBlock(acc.segment, o)
    IN  IF o \in acc.applied \/ ~result.appended THEN acc
        ELSE [segment |-> result.segment, applied |-> acc.applied \cup {o}, again |-> TRUE]

RecoverOrphans(segment, orphans) ==
    LET backlog      == OrphanOrder(orphans)
        Pass(acc, k) == IF acc.again THEN FoldLeft(TryOrphan, [acc EXCEPT !.again = FALSE], backlog)
                        ELSE acc
    IN  FoldLeftDomain(Pass, [segment |-> segment, applied |-> {}, again |-> TRUE], backlog)

\* Each block followed by its parent, the parent's parent and so on.
Ancestry ==
    LET Up(seq, k) == IF Parent[Last(seq)] = NoBlock THEN seq ELSE Append(seq, Parent[Last(seq)])
    IN  [b \in Blocks |-> FoldLeft(Up, <<b>>, BlockOrder)]

\* The blocks below the tip, tip included, whose headers are in memory.
StoredSegment(store, tip) ==
    LET up      == Ancestry[tip]
        missing == {i \in DOMAIN up : up[i] \notin store}
    IN  IF missing = {} THEN up ELSE SubSeq(up, 1, Min(missing) - 1)

\* generate_block_chain_event: from the previous canonical fork to the new one;
\* it fails when the two have no block in common.
EventTo(canonical, other) ==
    IF other = <<>> THEN [NoEvent EXCEPT !.apply = Reverse(canonical)]
    ELSE LET d == TryIdentifyDivergence(canonical, other)
         IN  [NoEvent EXCEPT !.rollback = d.rollback, !.apply = d.apply]

UnknownParent(canonical, other) == other # <<>> /\ ~HaveCommonRoot(canonical, other)

\* A subscriber keeps the chain the events describe.
Replay(chain, e) ==
    Reverse(e.apply) \o SubSeq(chain, Len(e.rollback) + 1, Len(chain))
=============================================================================
