----------------------------- MODULE Coordinator ------------------------------
(***************************************************************************)
(* How a block reaches the coordinator of a devnet. The stacks node posts  *)
(* it to the observer (event_handler/http.rs), where one task per request  *)
(* updates the indexer under its lock and queues a command afterwards; the *)
(* commands handler (event_handler/mod.rs) keeps the bitcoin blocks and    *)
(* turns commands into events of the coordinator's channel. The chains are *)
(* lines here, a block is its height: what the pools do with forks is the  *)
(* matter of ForkScratchPad and StacksBlockPool.                           *)
(*                                                                         *)
(* Then the event loop of the coordinator (chains_coordinator.rs): on      *)
(* bitcoin blocks it publishes the stacking orders of the configuration,   *)
(* again when the node moves to pox-5, on stacks blocks it counts the      *)
(* stakes until a snapshot can be taken. Each first stake of pox-5 has a   *)
(* thread of its own, which the loop does not wait for.                    *)
(***************************************************************************)
EXTENDS Integers, Sequences, SequencesExt, FiniteSetsExt

CONSTANTS
    Handlers,   \* requests served at the same time
    MaxBitcoin, \* bound: bitcoin blocks
    MaxStacks,  \* bound: stacks blocks
    Depth       \* CONFIRMED_SEGMENT_MINIMUM_LENGTH - 1: blocks above a confirmed one

ASSUME PipelineAssumption ==
    /\ MaxBitcoin \in Nat /\ MaxStacks \in Nat
    /\ Depth \in Nat \ {0}

Chains == {"bitcoin", "stacks"}

VARIABLES
    due,      \* the blocks of each chain the node has to announce
    handler,  \* what each request is at
    indexer,  \* the blocks each pool has seen, its tip and its events so far
    queue,    \* observer_commands
    observer, \* "running" or "ended"
    store,    \* bitcoin_block_store
    events,   \* the channel to the coordinator
    newest    \* history: the latest bitcoin event that was handled

pipelineVars == <<due, handler, indexer, queue, observer, store, events, newest>>

NoEvent == [chain |-> "none", number |-> 0, new |-> {}, confirmed |-> {}]
Idle == [at |-> "idle", chain |-> "none", block |-> 0, event |-> NoEvent]
Command(kind, block, e) == [kind |-> kind, block |-> block, event |-> e]
\* "late" is history: a later event of the same pool was handled before.
Event(kind, wanted, blocks, late) ==
    [kind |-> kind, wanted |-> wanted, blocks |-> blocks, late |-> late]

PipelineInit ==
    /\ due = [c \in Chains |-> {}]
    /\ handler = [h \in Handlers |-> Idle]
    /\ indexer = [c \in Chains |-> [seen |-> {}, tip |-> 0, events |-> 0]]
    /\ queue = <<>> /\ observer = "running" /\ store = {}
    /\ events = <<>> /\ newest = 0

-----------------------------------------------------------------------------
\* A send fails once the receiver is gone; the result is dropped inside the map.
Send(command) == queue' = IF observer = "running" THEN Append(queue, command) ELSE queue

At(h, stage, chain) == handler[h].at = stage /\ handler[h].chain = chain
Step(h, stage) == handler' = [handler EXCEPT ![h].at = stage]

\* POST /new_burn_block and POST /new_block.  A stacks block is indexed at once,
\* a bitcoin block is downloaded first.
Request(h, chain) ==
    /\ handler[h].at = "idle" /\ due[chain] # {} /\ observer = "running"
    /\ due' = [due EXCEPT ![chain] = @ \ {Min(@)}]
    /\ handler' = [handler EXCEPT ![h] =
          [Idle EXCEPT !.at = IF chain = "bitcoin" THEN "download" ELSE "index",
                       !.chain = chain, !.block = Min(due[chain])]]
    /\ UNCHANGED <<indexer, queue, observer, store, events, newest>>

\* download_and_parse_block_with_retry fails, or standardize_stacks_marshalled_block
\* does: 500, and the node announces the block again.
RequestFails(h) ==
    /\ At(h, "download", "bitcoin") \/ At(h, "index", "stacks")
    /\ due' = [due EXCEPT ![handler[h].chain] = @ \cup {handler[h].block}]
    /\ handler' = [handler EXCEPT ![h] = Idle]
    /\ UNCHANGED <<indexer, queue, observer, store, events, newest>>

\* Mutant: the block is not queued before its header is indexed.
QueueBlockLater(h) ==
    /\ At(h, "download", "bitcoin") /\ Step(h, "index")
    /\ UNCHANGED <<due, indexer, queue, observer, store, events, newest>>

\* ProcessBitcoinBlock is queued before the header is indexed.
QueueBlock(h) ==
    /\ At(h, "download", "bitcoin")
    /\ Send(Command("process", handler[h].block, NoEvent))
    /\ Step(h, "index")
    /\ UNCHANGED <<due, indexer, observer, store, events, newest>>

\* handle_bitcoin_header and process_stacks_block, under the write lock.
Index(h) ==
    LET chain == handler[h].chain
        was   == indexer[chain]
        seen  == was.seen \cup {handler[h].block}
        tip   == Max({n \in 0..Max(seen) : 1..n \subseteq seen})
        e     == [chain |-> chain, number |-> was.events + 1,
                  new |-> (was.tip + 1)..tip,
                  confirmed |-> (1..(tip - Depth)) \ (1..(was.tip - Depth))]
    IN  /\ handler[h].at = "index"
        /\ IF tip = was.tip
           THEN /\ indexer' = [indexer EXCEPT ![chain].seen = seen]
                /\ handler' = [handler EXCEPT ![h] = Idle]
           ELSE /\ indexer' = [indexer EXCEPT ![chain] =
                      [seen |-> seen, tip |-> tip, events |-> e.number]]
                /\ handler' = [handler EXCEPT ![h].at = "queueEvent", ![h].event = e]
        /\ UNCHANGED <<due, queue, observer, store, events, newest>>

\* The event is sent after the lock was released.
QueueEvent(h) ==
    /\ handler[h].at = "queueEvent"
    /\ Send(Command(handler[h].chain, handler[h].block, handler[h].event))
    /\ handler' = [handler EXCEPT ![h] = Idle]
    /\ UNCHANGED <<due, indexer, observer, store, events, newest>>

-----------------------------------------------------------------------------
\* start_observer_commands_handler, one command.
Receives(kind) == observer = "running" /\ queue # <<>> /\ Head(queue).kind = kind

ProcessBitcoinBlock ==
    /\ Receives("process")
    /\ store' = store \cup {Head(queue).block}
    /\ queue' = Tail(queue)
    /\ UNCHANGED <<due, handler, indexer, observer, events, newest>>

\* Ten attempts at standardize_bitcoin_block fail, or Terminate: the loop ends
\* and what is still queued is lost.
ObserverEnds ==
    /\ Receives("process") \/ Receives("terminate")
    /\ observer' = "ended" /\ queue' = <<>>
    /\ events' = events \o <<Event("info", {}, {}, FALSE), Event("terminate", {}, {}, FALSE)>>
    /\ UNCHANGED <<due, handler, indexer, store, newest>>

\* PropagateBitcoinChainEvent: a block that is not in the store is left out.
PropagateBitcoinChainEvent ==
    LET e == Head(queue).event
    IN  /\ Receives("bitcoin")
        /\ events' = Append(events,
              Event("bitcoin", e.new, e.new \cap store, e.number < newest))
        /\ store' = store \ e.confirmed
        /\ newest' = Max({newest, e.number})
        /\ queue' = Tail(queue)
        /\ UNCHANGED <<due, handler, indexer, observer>>

PropagateStacksChainEvent ==
    LET e == Head(queue).event
    IN  /\ Receives("stacks")
        /\ events' = Append(events, Event("stacks", e.new, e.new, FALSE))
        /\ queue' = Tail(queue)
        /\ UNCHANGED <<due, handler, indexer, observer, store, newest>>

PipelineNext ==
    \/ \E h \in Handlers :
          \/ \E chain \in Chains : Request(h, chain)
          \/ RequestFails(h) \/ QueueBlock(h) \/ Index(h) \/ QueueEvent(h)
    \/ ProcessBitcoinBlock \/ ObserverEnds
    \/ PropagateBitcoinChainEvent \/ PropagateStacksChainEvent

-----------------------------------------------------------------------------
(* The coordinator. *)

CONSTANTS
    Orders,        \* pox_stacking_orders
    Wallet,        \* the account of each
    StartAtCycle,
    Duration,
    AutoExtend,
    OrdersFrom,    \* DEFAULT_FIRST_BURN_HEADER_HEIGHT + 10
    CycleLength,   \* reward_cycle_length
    OrderPosition, \* the position in a cycle at which orders are sent, 10
    PoxSwitch      \* the height from which the node reports pox-5

ASSUME CoordinatorAssumption ==
    /\ StartAtCycle \in [Orders -> Nat \ {0}] /\ Duration \in [Orders -> Nat \ {0}]
    /\ AutoExtend \in [Orders -> BOOLEAN]
    /\ CycleLength \in Nat \ {0} /\ OrderPosition \in Nat /\ PoxSwitch \in Nat

VARIABLES
    height,      \* external: the height of the bitcoin chain
    blocks,      \* external: the transactions of each stacks block
    mempool,     \* external: the transactions the node has accepted
    coordinator, \* "running", "panicked" or "ended"
    lastPox,     \* last_pox_contract, "" before the first answer
    thread,      \* the threads of first stakes: the order, the stage and the nonce of each
    expected,    \* pox5_stakes_expected
    counted,     \* pox5_stakes_confirmed
    snapshot,    \* snapshot_created
    started,     \* the deployment was told to start
    awaited      \* history: the orders pox5_stakes_expected stands for

loopVars == <<coordinator, lastPox, thread, expected, counted, snapshot, started,
              awaited>>
nodeVars == <<height, blocks, mempool>>
vars == <<pipelineVars, nodeVars, loopVars>>

Tx(order, call, nonce) == [order |-> order, call |-> call, nonce |-> nonce, success |-> TRUE]
Mined == UNION {blocks[n] : n \in DOMAIN blocks}
OfWallet(txs, wallet) == {t \in txs : t.order \in Orders /\ Wallet[t.order] = wallet}
NonceOf(wallet) == Cardinality(OfWallet(Mined, wallet))

\* A stake of an account that has no order: pox-5 is open to everyone.
ForeignStake(n) == [order |-> "none", call |-> "stake", nonce |-> n, success |-> TRUE]

\* The manager contract of an order is on the chain.
Deployed(o) == \E t \in Mined : t.order = o /\ t.call = "deploy"

\* The node takes a transaction unless its nonce is used or reserved, or the
\* contract it publishes is there.
Accepts(pending, tx) ==
    /\ tx.nonce >= NonceOf(Wallet[tx.order])
    /\ \A t \in OfWallet(pending, Wallet[tx.order]) : t.nonce # tx.nonce
    /\ tx.call = "deploy" => ~Deployed(tx.order)

-----------------------------------------------------------------------------
\* should_publish_stacking_orders
ShouldPublish(cycle, o) ==
    /\ cycle >= StartAtCycle[o] - 1
    /\ LET offset == IF cycle + Duration[o] > StartAtCycle[o]
                     THEN cycle + Duration[o] - StartAtCycle[o] ELSE 0
       IN  offset % Duration[o] = Duration[o] - 1

\* publish_stacking_orders: the orders sent at a height, and whether one is an
\* extension.  A change of the contract sends every order as a first stake.
Extends(o, cycle, transitioned) == ~transitioned /\ cycle # StartAtCycle[o] - 1

OrdersToSend(at, transitioned) ==
    LET cycle == at \div CycleLength
    IN  IF ~transitioned /\ at % CycleLength # OrderPosition THEN {}
        ELSE {o \in Orders :
                 \/ transitioned
                 \/ /\ ShouldPublish(cycle, o)
                    /\ Extends(o, cycle, transitioned) => AutoExtend[o]}

\* Orders whose thread is joined: the nonce is read and the call posted before
\* the loop goes on, one order after the other.
PostJoined(pending, sent, call) ==
    FoldSet(LAMBDA o, acc : LET tx == Tx(o, call, NonceOf(Wallet[o]))
                            IN  IF Accepts(acc, tx) THEN acc \cup {tx} ELSE acc,
            pending, sent)

NextEvent(kind) == coordinator = "running" /\ events # <<>> /\ Head(events).kind = kind

\* ObserverEvent::BitcoinChainEvent.  The node may not answer /v2/pox.
BitcoinBlock(answers) ==
    LET at           == Max(Head(events).blocks)
        contract     == IF height >= PoxSwitch THEN "pox-5" ELSE "pox-4"
        transitioned == lastPox # "" /\ lastPox # contract
        sent         == OrdersToSend(at, transitioned)
        waits(o)     == contract = "pox-5" /\ ~Extends(o, at \div CycleLength, transitioned)
        joined       == {o \in sent : ~waits(o)}
    IN  /\ NextEvent("bitcoin") /\ Head(events).blocks # {}
        /\ events' = Tail(events)
        /\ IF at < OrdersFrom \/ ~answers
           THEN UNCHANGED <<lastPox, thread, expected, mempool, awaited>>
           ELSE /\ lastPox' = contract
                /\ thread' = thread \o SetToSeq(
                      {[order |-> o, at |-> "nonce", nonce |-> 0] : o \in sent \ joined})
                /\ mempool' = PostJoined(mempool, joined,
                                 IF contract = "pox-5" THEN "stake-update" ELSE "stack")
                /\ expected' = IF contract = "pox-5" /\ expected = 0
                               THEN Cardinality(sent) ELSE expected
                /\ awaited' = IF contract = "pox-5" /\ expected = 0 THEN sent ELSE awaited
        /\ UNCHANGED <<due, handler, indexer, queue, observer, store, newest>>
        /\ UNCHANGED <<height, blocks, coordinator, counted, snapshot, started>>

\* new_blocks.last().unwrap() on an event none of whose blocks was found.
BitcoinBlockMissing ==
    /\ NextEvent("bitcoin") /\ Head(events).blocks = {}
    /\ coordinator' = "panicked"
    /\ UNCHANGED <<pipelineVars, nodeVars>>
    /\ UNCHANGED <<lastPox, thread, expected, counted, snapshot, started, awaited>>

\* Mutant: every call of an order is counted.
StakesInAnyCall(block) == Cardinality(block)

\* The successful calls of pox-5.stake in a block, whoever made them.
StakesIn(block) == Cardinality({t \in block : t.call = "stake" /\ t.success})

\* ObserverEvent::StacksChainEvent: only the last of its blocks is counted.
StacksBlock ==
    LET last  == blocks[Max(Head(events).blocks)]
        count == IF expected > 0 /\ ~snapshot THEN counted + StakesIn(last) ELSE counted
    IN  /\ NextEvent("stacks")
        /\ events' = Tail(events)
        /\ started' = TRUE
        /\ counted' = count
        /\ snapshot' = (snapshot \/ (expected > 0 /\ count >= expected))
        /\ UNCHANGED <<due, handler, indexer, queue, observer, store, newest, nodeVars>>
        /\ UNCHANGED <<coordinator, lastPox, thread, expected, awaited>>

\* DeploymentCommand::Start cannot be sent: the deployment's thread is gone.
StacksBlockPanics ==
    /\ NextEvent("stacks") /\ ~started
    /\ coordinator' = "panicked"
    /\ UNCHANGED <<pipelineVars, nodeVars>>
    /\ UNCHANGED <<lastPox, thread, expected, counted, snapshot, started, awaited>>

ObserverInfo ==
    /\ NextEvent("info") /\ events' = Tail(events)
    /\ UNCHANGED <<due, handler, indexer, queue, observer, store, newest, nodeVars, loopVars>>

ObserverTerminate ==
    /\ NextEvent("terminate") /\ events' = Tail(events) /\ coordinator' = "ended"
    /\ UNCHANGED <<due, handler, indexer, queue, observer, store, newest, nodeVars>>
    /\ UNCHANGED <<lastPox, thread, expected, counted, snapshot, started, awaited>>

-----------------------------------------------------------------------------
\* publish_pox5_stacking_transactions, in thread i: the manager contract, then,
\* once it is mined, register-self and stake.  A refused post or sixty failed
\* looks at the contract end the thread.
Stage(i, stage) == thread' = [thread EXCEPT ![i].at = stage]
OnlyThreads == UNCHANGED <<pipelineVars, height, blocks, coordinator, lastPox, expected,
                           counted, snapshot, started, awaited>>

ReadNonce(i) ==
    /\ thread[i].at = "nonce"
    /\ thread' = [thread EXCEPT ![i].at = "deploy", ![i].nonce = NonceOf(Wallet[thread[i].order])]
    /\ OnlyThreads /\ UNCHANGED mempool

\* The call is posted with the thread's nonce, plus what it posted before.
Post(i, call, before, next) ==
    LET tx == Tx(thread[i].order, call, thread[i].nonce + before)
    IN  /\ OnlyThreads
        /\ IF Accepts(mempool, tx)
           THEN mempool' = mempool \cup {tx} /\ Stage(i, next)
           ELSE UNCHANGED mempool /\ Stage(i, "failed")

Deploys(i) == thread[i].at = "deploy" /\ Post(i, "deploy", 0, "wait")

Registers(i) ==
    /\ thread[i].at = "wait" /\ Deployed(thread[i].order)
    /\ Post(i, "register", 1, "stake")

WaitTimesOut(i) ==
    /\ thread[i].at = "wait" /\ Stage(i, "failed")
    /\ OnlyThreads /\ UNCHANGED mempool

Stakes(i) == thread[i].at = "stake" /\ Post(i, "stake", 2, "done")

-----------------------------------------------------------------------------
\* The node mines; it puts in a block what follows the nonces of the chain.  A
\* stake may fail there, and somebody else's may be in the block.
MineBitcoin ==
    /\ height < MaxBitcoin
    /\ height' = height + 1
    /\ due' = [due EXCEPT !["bitcoin"] = @ \cup {height + 1}]
    /\ UNCHANGED <<handler, indexer, queue, observer, store, events, newest>>
    /\ UNCHANGED <<blocks, mempool, loopVars>>

Minable(t) ==
    \A n \in NonceOf(Wallet[t.order])..t.nonce :
        \E u \in OfWallet(mempool, Wallet[t.order]) : u.nonce = n

MineStacks ==
    /\ Len(blocks) < MaxStacks
    /\ \E failing \in SUBSET {t \in mempool : t.call = "stake"},
          foreign \in SUBSET {ForeignStake(Len(blocks) + 1)} :
        blocks' = Append(blocks, foreign \cup
            {[t EXCEPT !.success = t \notin failing] : t \in {u \in mempool : Minable(u)}})
    /\ mempool' = {t \in mempool : ~Minable(t)}
    /\ due' = [due EXCEPT !["stacks"] = @ \cup {Len(blocks) + 1}]
    /\ UNCHANGED <<handler, indexer, queue, observer, store, events, newest>>
    /\ UNCHANGED <<height, loopVars>>

Init ==
    /\ PipelineInit
    /\ height = 0 /\ blocks = <<>> /\ mempool = {}
    /\ coordinator = "running" /\ lastPox = ""
    /\ thread = <<>>
    /\ expected = 0 /\ counted = 0 /\ snapshot = FALSE /\ started = FALSE
    /\ awaited = {}

Next ==
    \/ PipelineNext /\ UNCHANGED <<nodeVars, loopVars>>
    \/ \E answers \in BOOLEAN : BitcoinBlock(answers)
    \/ BitcoinBlockMissing \/ StacksBlock \/ StacksBlockPanics
    \/ ObserverInfo \/ ObserverTerminate
    \/ \E i \in DOMAIN thread :
          ReadNonce(i) \/ Deploys(i) \/ Registers(i) \/ WaitTimesOut(i) \/ Stakes(i)
    \/ MineBitcoin \/ MineStacks

Spec == Init /\ [][Next]_vars

-----------------------------------------------------------------------------
\* The stages of the threads and the counters are within their ranges.
TypeOK ==
    /\ observer \in {"running", "ended"} /\ coordinator \in {"running", "panicked", "ended"}
    /\ store \subseteq 1..MaxBitcoin /\ newest \in 0..MaxBitcoin
    /\ \A i \in DOMAIN thread : thread[i].at \in
          {"nonce", "deploy", "wait", "stake", "done", "failed"}
    /\ expected \in 0..Cardinality(Orders) /\ counted \in Nat
    /\ lastPox \in {"", "pox-4", "pox-5"}

\* A bitcoin event reaches the coordinator with every block it is about, although
\* blocks and headers travel apart, unless a later event was handled before it:
\* the block was queued before its header was indexed, and only events remove it.
CompleteUnlessLate ==
    \A i \in DOMAIN events : events[i].kind = "bitcoin" =>
        events[i].late \/ events[i].blocks = events[i].wanted

Staked == {t \in Mined : t.call = "stake" /\ t.success}

\* The snapshot is not made before as many stakes are in blocks as orders were
\* counted on, although blocks, their events and the orders' threads overtake
\* each other.  The counter does not look at whose stakes they are.  So the
\* stakes are those of the orders only as long as nobody else stakes, no order
\* of a later cycle does, and none stakes twice: that is the premise of the
\* second part.  ("snapshot only after all stacking orders are confirmed
\* on-chain", chains_coordinator.rs:468, promises it without the premise.)
SnapshotAfterStakes ==
    snapshot =>
        /\ Cardinality(Staked) >= Cardinality(awaited)
        /\ (\A t, u \in Staked : t.order \in awaited /\ (t.order = u.order => t = u))
              => \A o \in awaited : \E t \in Staked : t.order = o
=============================================================================
