--------------------------- MODULE ForkScratchPad ---------------------------
(***************************************************************************)
(* ForkScratchPad (observer/src/indexer/fork_scratch_pad.rs): the forks of *)
(* the bitcoin chain the observer of a devnet has in memory.  Headers come *)
(* in any order, some more than once; each may extend a fork, open one, or *)
(* wait as an orphan.  When the canonical fork changes, an event tells the *)
(* subscribers what to roll back, what to apply and what is now confirmed. *)
(*                                                                         *)
(* process_header runs under the indexer's write lock, so one header is    *)
(* one step.  The pad is a record; Process maps it to the next one.        *)
(***************************************************************************)
EXTENDS ForkTracking, TLC

CONSTANTS
    Headers,       \* those of Blocks that are bitcoin headers
    MaxDeliveries, \* bound: times one header is announced
    HeaderWindow   \* bound: how far ahead of an ancestor

ASSUME HeadersAssumption ==
    Headers \subseteq Blocks /\ MaxDeliveries \in Nat /\ HeaderWindow \in Nat \ {0}

VARIABLES
    pad,             \* the ForkScratchPad
    deliveries,      \* how often each header was announced
    headerView,      \* a subscriber's chain, newest first, built from the events
    headersConfirmed \* the headers confirmed to the subscriber, oldest first

padVars == <<pad, deliveries, headerView, headersConfirmed>>

NewPad == [canonicalForkId |-> 0,
           orphans         |-> {},
           forks           |-> [i \in {0} |-> <<>>],
           headersStore    |-> {}]

-----------------------------------------------------------------------------
\* The id under which a new fork is registered: self.forks.len().
NewForkId(forks) == Cardinality(DOMAIN forks)

\* Select canonical fork: a longest one, among equals the last.
SelectCanonicalFork(forks) ==
    Max({i \in DOMAIN forks : \A j \in DOMAIN forks : Len(forks[i]) >= Len(forks[j])})

\* collect_and_prune_confirmed_blocks: a block with six or more stored blocks
\* above it is confirmed; what lies below the cut-off leaves the forks.
CollectAndPrune(p, e) ==
    LET canonical == StoredSegment(p.headersStore, Last(e.apply))
        length    == ConfirmedSegmentMinimumLength
        cutOff    == canonical[length - 1]
        settled   == SubSeq(canonical, length, Len(canonical))
        kept      == [i \in DOMAIN p.forks |-> PruneConfirmedBlocks(p.forks[i], cutOff)]
        below(b)  == Height[b] < Height[cutOff]
        pruned    == {b \in p.orphans : below(b)} \cup
                     {b \in Headers : below(b) /\ \E i \in DOMAIN p.forks : InSegment(p.forks[i], b)}
    IN  IF e.apply = <<>> \/ Len(canonical) < length THEN [pad |-> p, event |-> e]
        ELSE [pad |-> [p EXCEPT
                 !.forks = [i \in {j \in DOMAIN kept : kept[j] # <<>>} |-> kept[i]],
                 !.orphans = {b \in @ : ~below(b)},
                 !.headersStore = (@ \ ToSet(settled)) \ pruned],
              event |-> [e EXCEPT !.confirmed = Reverse(settled)]]

\* The other error of generate_block_chain_event.
MissingHeader(p, e) == ~(ToSet(e.rollback) \cup ToSet(e.apply) \subseteq p.headersStore)

UpdateCanonicalByLength(p, previousId, previous) ==
    LET id    == SelectCanonicalFork(p.forks)
        moved == [p EXCEPT !.canonicalForkId = id]
    IN  IF Len(p.forks[id]) = Len(previous) THEN [pad |-> moved, event |-> NoEvent]
        ELSE CollectAndPrune(moved, EventTo(p.forks[id], previous))

\* The second half of process_header, once the block is in a fork.
UpdateCanonical(p, previousId, previous) ==
    LET id        == SelectCanonicalFork(p.forks)
        canonical == p.forks[id]
        moved     == [p EXCEPT !.canonicalForkId = id]
        e         == EventTo(canonical, previous)
    IN  IF canonical = previous THEN [pad |-> moved, event |-> NoEvent]
        ELSE IF UnknownParent(canonical, previous)
             THEN [pad |-> [p EXCEPT !.canonicalForkId = previousId], event |-> NoEvent]
        ELSE IF MissingHeader(p, e) THEN [pad |-> moved, event |-> NoEvent]
        ELSE CollectAndPrune(moved, e)

\* process_header
Process(p, h) ==
    LET stored   == [p EXCEPT !.headersStore = @ \cup {h}]
        previous == p.forks[p.canonicalForkId]
        first    == Min(Takers(p.forks, h))
        taken    == TryAppendBlock(p.forks[first], h)
        id       == IF taken.fork = NoFork THEN first ELSE NewForkId(p.forks)
        grown    == IF taken.fork = NoFork THEN taken.segment ELSE taken.fork
        recover  == RecoverOrphans(grown, p.orphans \cap stored.headersStore)
    IN  IF h \in p.headersStore THEN [pad |-> p, event |-> NoEvent]
        ELSE IF p.canonicalForkId \notin DOMAIN p.forks
             THEN [pad |-> stored, event |-> NoEvent]
        ELSE IF Takers(p.forks, h) = {}
             THEN [pad |-> [stored EXCEPT !.orphans = @ \cup {h}], event |-> NoEvent]
        ELSE UpdateCanonical(
                [stored EXCEPT !.forks = (id :> recover.segment) @@ @,
                               !.orphans = @ \ recover.applied],
                p.canonicalForkId, previous)

-----------------------------------------------------------------------------
PadInit ==
    /\ pad = NewPad
    /\ deliveries = [h \in Headers |-> 0]
    /\ headerView = <<>>
    /\ headersConfirmed = <<>>

\* Headers come in the order their blocks were downloaded: the first one first,
\* then each at most HeaderWindow blocks ahead of an ancestor still on its way.
MayCome(h) ==
    /\ deliveries[h] < MaxDeliveries
    /\ pad.headersStore = {} => Parent[h] = NoBlock
    /\ \A n \in DOMAIN Ancestry[h] : n > HeaderWindow => deliveries[Ancestry[h][n]] > 0

ProcessHeader(h) ==
    LET result == Process(pad, h)
    IN  /\ MayCome(h)
        /\ deliveries' = [deliveries EXCEPT ![h] = @ + 1]
        /\ pad' = result.pad
        /\ headerView' = Replay(headerView, result.event)
        /\ headersConfirmed' = headersConfirmed \o result.event.confirmed

-----------------------------------------------------------------------------
\* The canonical id always names a fork, and everything in memory is a header
\* that was announced: get(&canonical_fork_id).unwrap() never panics.
PadTypeOK ==
    /\ DOMAIN pad.forks \subseteq Nat
    /\ pad.canonicalForkId \in DOMAIN pad.forks
    /\ \A i \in DOMAIN pad.forks : pad.forks[i] \in Seq(Headers)
    /\ pad.orphans \subseteq Headers /\ pad.headersStore \subseteq Headers
    /\ deliveries \in [Headers -> 0..MaxDeliveries]

\* The events implement ChainFollower: replayed in order they always describe
\* one chain of blocks (nothing is applied on a wrong parent), and headers are
\* confirmed once each, oldest first, never to be rolled back.
HeaderFollower == INSTANCE ChainFollower WITH chain <- headerView, final <- headersConfirmed
HeadersFollowChain == HeaderFollower!Spec

\* The subscriber's chain and the canonical fork agree, whatever forks were
\* opened, dropped or pruned since: no change of the fork goes unannounced.
HeaderViewIsCanonical == IsPrefix(pad.forks[pad.canonicalForkId], headerView)

=============================================================================
