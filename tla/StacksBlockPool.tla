--------------------------- MODULE StacksBlockPool ---------------------------
(***************************************************************************)
(* StacksBlockPool (observer/src/indexer/stacks/blocks_pool.rs): the forks *)
(* of the stacks chain, and the trails of microblocks streamed on top of   *)
(* its blocks, which a later block may confirm.  The subscribers are told  *)
(* of both by events.                                                      *)
(*                                                                         *)
(* process_block and process_microblocks run under the indexer's write     *)
(* lock, one call is one step.  Microblocks are numbered like blocks; a    *)
(* microblock's hash determines its anchor, so that microblock_store holds *)
(* whatever a micro fork names and needs no variable.                      *)
(***************************************************************************)
EXTENDS ForkTracking, TLC

CONSTANTS
    StacksBlocks,                  \* those of Blocks that are stacks blocks
    Microblocks,                   \* those of Blocks that are microblocks
    Anchor,                        \* the block each microblock is mined upon
    Confirms,                      \* the last microblock a block confirms, or NoBlock
    BitcoinHeight,                 \* of the bitcoin block each block is anchored in
    Trails,                        \* the payloads of microblocks that may come
    Seeds,                         \* the blocks a snapshot may start the pool with
    Window                         \* bound: how far ahead of an ancestor

ASSUME PoolAssumption ==
    /\ StacksBlocks \subseteq Blocks /\ Microblocks \subseteq Blocks \ StacksBlocks
    /\ Anchor \in [Microblocks -> StacksBlocks]
    /\ Confirms \in [StacksBlocks -> Microblocks \cup {NoBlock}]
    /\ BitcoinHeight \in [StacksBlocks -> Nat \ {0}]
    /\ \A t \in Trails : t \in Seq(Microblocks)
    /\ \A s \in Seeds : s \in Seq(StacksBlocks)
    /\ Window \in Nat \ {0}

VARIABLES
    pool,      \* the StacksBlockPool
    delivered, \* the blocks announced
    streamed,  \* the payloads of microblocks received
    view,      \* a subscriber's chain, newest first, built from the events
    confirmed, \* the blocks confirmed to the subscriber, oldest first
    trails     \* the subscriber's microblocks on each block, oldest first

poolVars == <<pool, delivered, streamed, view, confirmed, trails>>

NewPool == [canonicalForkId |-> 0,
            orphans         |-> {},
            blockStore      |-> {},
            forks           |-> [i \in {0} |-> <<>>],
            microForks      |-> [a \in {} |-> <<>>],
            microOrphans    |-> {},
            canonicalMicro  |-> [a \in {} |-> 0]]

\* An event carries updates of blocks, each with microblocks of its parent, or
\* it is about a trail alone ("anchor", "micro").
NoDiff == [rollback |-> <<>>, apply |-> <<>>]
NoPoolEvent == [rollback |-> <<>>, apply |-> <<>>, confirmed |-> <<>>,
                anchor |-> NoBlock, micro |-> NoDiff]
Update(b, diff) == [block |-> b, micro |-> diff]
Identifiers(updates) == [i \in DOMAIN updates |-> updates[i].block]

-----------------------------------------------------------------------------
\* generate_microblock_chain_event.  Trails with no microblock in common
\* replace each other.  When only new ones come they are read off the newest
\* end of the segment.
MicroDiff(segment, previous) ==
    LET d == IF HaveCommonRoot(segment, previous)
             THEN TryIdentifyDivergence(segment, previous)
             ELSE [rollback |-> previous, apply |-> Reverse(segment)]
    IN  IF previous = <<>> THEN [NoDiff EXCEPT !.apply = Reverse(segment)]
        ELSE IF segment = previous THEN NoDiff
        ELSE IF d.rollback = <<>> THEN [d EXCEPT !.apply = SubSeq(segment, 1, Len(d.apply))]
        ELSE d

MicroForksOf(p, a) == IF a \in DOMAIN p.microForks THEN p.microForks[a] ELSE <<>>

CanonicalMicroFork(p, a) ==
    IF a \in DOMAIN p.microForks \cap DOMAIN p.canonicalMicro
    THEN p.microForks[a][p.canonicalMicro[a]] ELSE <<>>

ConfirmAlwaysDiff(p, b, diffEnabled) ==
    LET a       == Parent[b]
        forks   == MicroForksOf(p, a)
        holders == {i \in DOMAIN forks : InSegment(forks[i], Confirms[b])}
        trail   == KeepFromOldestTo(forks[Min(holders)], Confirms[b])
    IN  IF holders = {} THEN [pool |-> p, diff |-> NoDiff]
        ELSE [pool |-> [p EXCEPT !.canonicalMicro = (a :> Len(forks) + 1) @@ @,
                                 !.microForks[a] = Append(@, trail)],
              diff |-> MicroDiff(trail, CanonicalMicroFork(p, a))]

\* confirm_microblocks_for_block: the trail up to the microblock the block names
\* becomes the canonical one of its parent, as a fork of its own.  A microblock
\* found in no fork leaves the id of the last fork that was searched.
ConfirmMicroblocks(p, b, diffEnabled) ==
    LET a       == Parent[b]
        m       == Confirms[b]
        forks   == MicroForksOf(p, a)
        holders == {i \in DOMAIN forks : InSegment(forks[i], m)}
        trail   == KeepFromOldestTo(forks[Min(holders)], m)
        id      == IF trail = forks[Min(holders)] THEN Min(holders) ELSE Len(forks) + 1
    IN  IF m = NoBlock \/ forks = <<>> THEN [pool |-> p, diff |-> NoDiff]
        ELSE IF holders = {}
        THEN [pool |-> [p EXCEPT !.canonicalMicro = (a :> Len(forks)) @@ @], diff |-> NoDiff]
        ELSE [pool |-> [p EXCEPT !.canonicalMicro = (a :> id) @@ @,
                                 !.microForks[a] = Append(@, trail)],
              diff |-> IF diffEnabled THEN MicroDiff(trail, CanonicalMicroFork(p, a))
                       ELSE [NoDiff EXCEPT !.apply = Reverse(trail)]]

\* get_confirmed_parent_microblocks
ConfirmedParentMicroblocks(p, b) == Reverse(CanonicalMicroFork(p, Parent[b]))

\* generate_block_chain_event: the updates to roll back carry the trail of their
\* parent, those to apply what they confirm; in a reorg the whole of it.
ApplyBlock(acc, b) ==
    LET r == ConfirmMicroblocks(acc.pool, b, acc.diffEnabled)
    IN  IF ~acc.found \/ b \notin acc.pool.blockStore THEN [acc EXCEPT !.found = FALSE]
        ELSE [acc EXCEPT !.pool = r.pool, !.apply = Append(@, Update(b, r.diff))]

BlockChainEvent(p, canonical, other) ==
    LET e      == EventTo(canonical, other)
        rolled == [i \in DOMAIN e.rollback |-> Update(e.rollback[i],
                     [NoDiff EXCEPT !.rollback = ConfirmedParentMicroblocks(p, e.rollback[i])])]
        start  == [pool |-> p, apply |-> <<>>, diffEnabled |-> e.rollback = <<>>,
                   found |-> ToSet(e.rollback) \subseteq p.blockStore]
        done   == FoldLeft(ApplyBlock, start, e.apply)
    IN  [pool |-> done.pool, found |-> done.found,
         event |-> [NoPoolEvent EXCEPT !.rollback = rolled, !.apply = done.apply]]

\* Select canonical fork, in the order of the ids: a fork whose tip lies in a
\* higher bitcoin block, or in as high a one, if it is as high itself.
ForkIds(forks) == SetToSortSeq(DOMAIN forks, <)

SelectFork(p) ==
    LET Better(best, i) ==
            LET tip     == Head(p.forks[i])
                bitcoin == IF tip \in p.blockStore THEN BitcoinHeight[tip] ELSE 0
            IN  IF bitcoin > best.bitcoin \/ (bitcoin = best.bitcoin /\ i > best.id)
                THEN IF Height[tip] >= best.height
                     THEN [id |-> i, height |-> Height[tip], bitcoin |-> bitcoin]
                     ELSE [best EXCEPT !.bitcoin = bitcoin]
                ELSE best
    IN  FoldLeft(Better, [id |-> 0, height |-> 0, bitcoin |-> 0], ForkIds(p.forks)).id

\* highest_competing_fork_height_delta
IsUnchallenged(forks) ==
    LET Tip(i) == Height[Head(forks[i])]
    IN  \/ Cardinality(DOMAIN forks) = 1
        \/ \E i \in DOMAIN forks : \A j \in DOMAIN forks \ {i} : Tip(i) - Tip(j) > 6

\* collect_and_prune_confirmed_blocks
CollectAndPruneBlocks(p, e) ==
    LET canonical == StoredSegment(p.blockStore, Last(e.apply).block)
        length    == ConfirmedSegmentMinimumLength
        cutOff    == canonical[length - 1]
        settled   == SubSeq(canonical, length, Len(canonical))
        kept      == [i \in DOMAIN p.forks |-> PruneConfirmedBlocks(p.forks[i], cutOff)]
        pruned    == {b \in StacksBlocks :
                         /\ Height[b] < Height[cutOff]
                         /\ \/ b \in p.orphans
                            \/ \E i \in DOMAIN p.forks : InSegment(p.forks[i], b)}
    IN  IF e.apply = <<>> \/ Len(canonical) < length THEN [pool |-> p, event |-> e]
        ELSE [pool |-> [p EXCEPT
                 !.forks = [i \in {j \in DOMAIN kept : kept[j] # <<>>} |-> kept[i]],
                 !.orphans = @ \ pruned,
                 !.blockStore = (@ \ ToSet(settled)) \ pruned,
                 !.microForks = [a \in DOMAIN @ \ pruned |-> @[a]],
                 !.canonicalMicro = [a \in DOMAIN @ \ pruned |-> @[a]]],
              event |-> [e EXCEPT !.confirmed = Reverse(settled)]]

\* Mutant: the canonical fork is compared by its length.
UpdateCanonicalByHeight(p, previousId, previous) ==
    LET id     == SelectFork(p)
        moved  == [p EXCEPT !.canonicalForkId = id]
        result == BlockChainEvent(moved, p.forks[id], previous)
    IN  IF Len(p.forks[id]) = Len(previous) \/ UnknownParent(p.forks[id], previous)
        THEN [pool |-> moved, event |-> NoPoolEvent]
        ELSE [pool |-> result.pool, event |-> result.event]

\* The second half of process_block, once the block is in a fork.
UpdateCanonicalFork(p, previousId, previous) ==
    LET id        == SelectFork(p)
        canonical == p.forks[id]
        moved     == [p EXCEPT !.canonicalForkId = id]
        result    == BlockChainEvent(moved, canonical, previous)
    IN  IF canonical = previous THEN [pool |-> moved, event |-> NoPoolEvent]
        ELSE IF UnknownParent(canonical, previous)
             THEN [pool |-> [p EXCEPT !.canonicalForkId = previousId], event |-> NoPoolEvent]
        ELSE IF ~result.found THEN [pool |-> result.pool, event |-> NoPoolEvent]
        ELSE IF IsUnchallenged(p.forks)
             THEN CollectAndPruneBlocks(result.pool, result.event)
        ELSE [pool |-> result.pool, event |-> result.event]

\* process_block.  A block already stored has its data replaced, with the same.
ProcessBlock(p, b) ==
    LET stored   == [p EXCEPT !.blockStore = @ \cup {b}]
        previous == p.forks[p.canonicalForkId]
        first    == Min(Takers(p.forks, b))
        taken    == TryAppendBlock(p.forks[first], b)
        id       == IF taken.fork = NoFork THEN first ELSE Max(DOMAIN p.forks) + 1
        grown    == IF taken.fork = NoFork THEN taken.segment ELSE taken.fork
        recover  == RecoverOrphans(grown, p.orphans \cap stored.blockStore)
    IN  IF b \in p.blockStore THEN [pool |-> p, event |-> NoPoolEvent]
        ELSE IF p.canonicalForkId \notin DOMAIN p.forks
             THEN [pool |-> stored, event |-> NoPoolEvent]
        ELSE IF Takers(p.forks, b) = {}
             THEN [pool |-> [stored EXCEPT !.orphans = @ \cup {b}], event |-> NoPoolEvent]
        ELSE UpdateCanonicalFork(
                [stored EXCEPT !.forks = (id :> recover.segment) @@ @,
                               !.orphans = @ \ recover.applied],
                p.canonicalForkId, previous)

\* process_microblocks, one microblock of the payload: it opens a micro fork,
\* extends one or waits.  The fork the event will be compared with is read
\* again for each microblock.
ProcessMicroblock(acc, m) ==
    LET p       == acc.pool
        a       == Anchor[m]
        forks   == MicroForksOf(p, a)
        takers  == {i \in DOMAIN forks : TryAppendBlock(forks[i], m).appended}
        taken   == TryAppendBlock(forks[Min(takers)], m)
        opened  == IF Height[m] = 0 THEN <<m>> ELSE taken.fork
        at      == IF opened = NoFork THEN Min(takers) ELSE Len(forks) + 1
        grown   == IF opened = NoFork THEN taken.segment ELSE opened
        recover == RecoverOrphans(grown, p.microOrphans)
        known   == a \in DOMAIN p.microForks \cap DOMAIN p.canonicalMicro
        seen    == [acc EXCEPT !.previous = IF known THEN CanonicalMicroFork(p, a) ELSE @]
    IN  IF Height[m] # 0 /\ takers = {}
        THEN [seen EXCEPT !.pool.microOrphans = @ \cup {m}]
        ELSE [seen EXCEPT
                !.updated = TRUE,
                !.pool.microOrphans = @ \ recover.applied,
                !.pool.microForks = (a :> [i \in 1..Max({at, Len(forks)}) |->
                    IF i = at THEN recover.segment ELSE forks[i]]) @@ @]

\* The longest micro fork, among equals the last.
SelectMicroFork(forks) ==
    Max({i \in DOMAIN forks : \A j \in DOMAIN forks : Len(forks[i]) >= Len(forks[j])})

\* process_microblocks, on the microblocks of one anchor.
ProcessMicroblocks(p, trail) ==
    LET done  == FoldLeft(ProcessMicroblock,
                          [pool |-> p, previous |-> <<>>, updated |-> FALSE], trail)
        a     == Anchor[Head(trail)]
        forks == MicroForksOf(done.pool, a)
        id    == SelectMicroFork(forks)
    IN  IF p.blockStore = {} THEN [pool |-> p, event |-> NoPoolEvent]
        ELSE IF ~done.updated \/ a \notin p.blockStore
             THEN [pool |-> done.pool, event |-> NoPoolEvent]
        ELSE [pool  |-> [done.pool EXCEPT !.canonicalMicro = (a :> id) @@ @],
              event |-> [NoPoolEvent EXCEPT !.anchor = a,
                                            !.micro = MicroDiff(forks[id], done.previous)]]

\* seed_block_pool: the blocks of a snapshot are processed before the subscriber
\* comes, which has them from the snapshot; their events are dropped.
SeedBlockPool(seed) ==
    FoldLeft(LAMBDA p, b : IF b \in p.blockStore THEN p ELSE ProcessBlock(p, b).pool,
             NewPool, seed)

-----------------------------------------------------------------------------
\* A subscriber takes back the microblocks an update rolls back and appends
\* those it applies.
Retrail(trail, diff) ==
    SelectSeq(trail, LAMBDA m : m \notin ToSet(diff.rollback)) \o diff.apply

ReplayTrails(seen, e) ==
    LET One(acc, u) == IF Parent[u.block] = NoBlock THEN acc
                       ELSE [acc EXCEPT ![Parent[u.block]] = Retrail(@, u.micro)]
        blocks      == FoldLeft(One, seen, e.rollback \o e.apply)
    IN  IF e.anchor = NoBlock THEN blocks
        ELSE [blocks EXCEPT ![e.anchor] = Retrail(@, e.micro)]

PoolInit ==
    /\ \E seed \in Seeds :
          /\ pool = SeedBlockPool(seed)
          /\ delivered = ToSet(seed)
          /\ view = Reverse(seed)
    /\ streamed = {} /\ confirmed = <<>>
    /\ trails = [b \in StacksBlocks |-> <<>>]

Publish(result) ==
    /\ pool' = result.pool
    /\ view' = Replay(view, [rollback |-> Identifiers(result.event.rollback),
                             apply    |-> Identifiers(result.event.apply)])
    /\ confirmed' = confirmed \o result.event.confirmed
    /\ trails' = ReplayTrails(trails, result.event)

\* The node announces the first block first, then each at most Window blocks
\* ahead of an ancestor still on its way.
ReceiveBlock(b) ==
    /\ b \notin delivered
    /\ pool.blockStore = {} => Parent[b] = NoBlock
    /\ \A n \in DOMAIN Ancestry[b] : n > Window => Ancestry[b][n] \in delivered
    /\ delivered' = delivered \cup {b}
    /\ Publish(ProcessBlock(pool, b))
    /\ UNCHANGED streamed

ReceiveMicroblocks(trail) ==
    /\ trail \notin streamed
    /\ streamed' = streamed \cup {trail}
    /\ Publish(ProcessMicroblocks(pool, trail))
    /\ UNCHANGED delivered

-----------------------------------------------------------------------------
\* The canonical ids, of the chain and of the trails on each block, name a fork
\* that exists: neither the unwrap of forks.get nor microforks[id] can panic.
PoolTypeOK ==
    /\ pool.canonicalForkId \in DOMAIN pool.forks
    /\ \A i \in DOMAIN pool.forks : pool.forks[i] \in Seq(StacksBlocks)
    /\ pool.orphans \subseteq pool.blockStore /\ pool.blockStore \subseteq StacksBlocks
    /\ \A a \in DOMAIN pool.canonicalMicro :
          a \in DOMAIN pool.microForks /\ pool.canonicalMicro[a] \in DOMAIN pool.microForks[a]

\* The events of the stacks pool implement ChainFollower too: one chain, whose
\* blocks are confirmed once each, oldest first, never to be rolled back.
Follower == INSTANCE ChainFollower WITH chain <- view, final <- confirmed
FollowsChain == Follower!Spec

\* No change of the canonical fork goes unannounced.
ViewIsCanonical == IsPrefix(pool.forks[pool.canonicalForkId], view)

\* A block that confirms microblocks finds them applied, whatever was streamed,
\* rolled back or confirmed by a sibling before: while the pool has the parent
\* and the microblock that a block of the canonical chain names, so has the
\* subscriber.
ConfirmedTrails ==
    \A i \in 1..(Len(view) - 1) :
        LET parent == view[i + 1]
            forks  == MicroForksOf(pool, parent)
            m      == Confirms[view[i]]
        IN  parent \in pool.blockStore /\ (\E k \in DOMAIN forks : InSegment(forks[k], m))
            => m \in ToSet(trails[parent])
=============================================================================
