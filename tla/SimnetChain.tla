----------------------------- MODULE SimnetChain ------------------------------
(***************************************************************************)
(* The two datastores of a simnet session (datastore.rs): the block tables *)
(* with their tips, and the versioned key-value store with its journal. A  *)
(* block id is a hash of its height, so the height stands for the id.      *)
(*                                                                         *)
(* Then its mempool (mempool.rs): which signed transactions may join the   *)
(* queue, and which one is mined next. A transaction reserves a nonce of   *)
(* its origin and, when sponsored, one of its sponsor.                     *)
(***************************************************************************)
EXTENDS Integers, Sequences

CONSTANTS
    Accounts,
    Contracts,
    MaxHeight,  \* bound on the number of blocks
    BurnGap,    \* SECONDS_BETWEEN_BURN_BLOCKS
    StacksGap,  \* SECONDS_BETWEEN_STACKS_BLOCKS
    Nakamoto,   \* the epoch 3.0, from which stacks and burn blocks differ
    MarfedTime, \* the first epoch that stores the block time
    Absent      \* no entry

ASSUME ChainAssumption ==
    /\ MaxHeight \in Nat /\ Nakamoto \in Nat /\ MarfedTime \in Nat
    /\ BurnGap \in Nat \ {0} /\ StacksGap \in Nat \ {0}
    /\ Absent \notin Int /\ Absent \notin [time : Nat, burn : Nat, tenure : Nat]

\* The keys that transactions write.
Keys == ({"nonce", "balance"} \X Accounts) \cup ({"contract"} \X Contracts)

\* The height a store reads and writes at when its tip is unknown, u32::MAX.
UnknownHeight == MaxHeight + 1

Heights == 0..UnknownHeight

\* Where an entry of the store lives: a key and the height of the write.
Cells == (Keys \cup {<<"epoch">>, <<"tenure">>, <<"time">>}) \X Heights

\* get_current_block_height: the height of the tip that serves reads.
HeightOf(blocks, tip) == IF tip \in Heights /\ blocks[tip] # Absent THEN tip ELSE UnknownHeight

\* get_data: the latest write at or below a height.
ReadAt(store, key, height) ==
    LET written == {h \in 0..height : store[<<key, h>>] # Absent}
    IN  IF written = {} THEN Absent
        ELSE store[<<key, CHOOSE h \in written : \A g \in written : g <= h>>]

\* put: the write, and the value it replaces if this is the first write to the
\* cell since the journal was opened.
PutStore(store, cell, value) == [store EXCEPT ![cell] = value]
PutJournal(journal, store, cell) ==
    IF journal.open /\ ~journal.touched[cell]
    THEN [journal EXCEPT !.touched = [@ EXCEPT ![cell] = TRUE],
                         !.first = [@ EXCEPT ![cell] = store[cell]]]
    ELSE journal

ClosedJournal ==
    [open |-> FALSE, touched |-> [c \in Cells |-> FALSE], first |-> [c \in Cells |-> Absent]]

OpenJournal == [ClosedJournal EXCEPT !.open = TRUE]

\* finish_write_journal of a block that is not included.
UndoWrites(store, journal) ==
    [c \in Cells |-> IF journal.touched[c] THEN journal.first[c] ELSE store[c]]

\* build_next_stacks_block: later than the previous stacks block and than the
\* last burn block.
NextStacksTime(chain) ==
    (IF chain.blocks[chain.open].time > chain.burnTime
     THEN chain.blocks[chain.open].time ELSE chain.burnTime) + StacksGap

\* advance_stacks_chain_tip: the tables after one block.
AdvanceStacks(chain) ==
    [chain EXCEPT
        !.height = @ + 1,
        !.blocks = [@ EXCEPT ![chain.height + 1] =
            [time |-> NextStacksTime(chain), burn |-> chain.burn, tenure |-> chain.tenure]],
        !.open = chain.height + 1]

\* The time a burn block gets: later than the last burn block and than the
\* stacks blocks made since.
NextBurnTime(chain) ==
    IF chain.blocks[chain.open].time > chain.burnTime + BurnGap
    THEN chain.blocks[chain.open].time + StacksGap
    ELSE chain.burnTime + BurnGap

\* advance_burn_chain_tip: a new tenure and its first stacks block.
AdvanceBurn(chain) ==
    AdvanceStacks([chain EXCEPT !.burnTime = NextBurnTime(chain),
                                !.burn = @ + 1,
                                !.tenure = @ + 1])

\* set_current_epoch: from epoch 3.0 on a change of epoch makes a burn block.
EnterEpoch(chain, epoch) ==
    LET there == [chain EXCEPT !.epoch = epoch]
    IN  IF epoch >= Nakamoto THEN AdvanceBurn(there) ELSE there

\* Mutant: the burn part is kept only from epoch 3.0 on.
CheckpointSwapped(chain, tip) ==
    [open |-> chain.open, cur |-> tip, height |-> chain.height,
     block |-> chain.blocks[chain.height + 1],
     burnKept |-> chain.epoch >= Nakamoto,
     burn |-> chain.burn, burnTime |-> chain.burnTime, tenure |-> chain.tenure]

\* checkpoint_next_block: the entries that one block touches.  The burn part is
\* kept only before epoch 3.0, where a block is also a burn block.
Checkpoint(chain, tip) ==
    [open |-> chain.open, cur |-> tip, height |-> chain.height,
     block |-> chain.blocks[chain.height + 1],
     burnKept |-> chain.epoch < Nakamoto,
     burn |-> chain.burn, burnTime |-> chain.burnTime, tenure |-> chain.tenure]

\* BlockAdvanceUndo::restore on the tables; the tip that serves reads is
\* undo.cur.
RestoreChain(chain, undo) ==
    [chain EXCEPT
        !.blocks = [@ EXCEPT ![undo.height + 1] = undo.block],
        !.burn = IF undo.burnKept THEN undo.burn ELSE @,
        !.burnTime = IF undo.burnKept THEN undo.burnTime ELSE @,
        !.tenure = IF undo.burnKept THEN undo.tenure ELSE @,
        !.height = undo.height,
        !.open = undo.open]

BlockInfo == [time : Nat, burn : Nat, tenure : Nat] \cup {Absent}

ChainType ==
    [height : 0..MaxHeight, open : 0..MaxHeight, blocks : [Heights -> BlockInfo],
     burn : Nat, burnTime : Nat, tenure : Nat, epoch : Nat]

-----------------------------------------------------------------------------
(* The mempool. *)

CONSTANTS
    NoSponsor,
    MinimumFee,   \* the length of a transaction, in fee units
    MaxChaining,  \* how far past the mined nonce a reservation may lie, 26
    MaxNonce      \* u64::MAX

ASSUME MempoolAssumption ==
    /\ NoSponsor \notin Accounts
    /\ MinimumFee \in Nat /\ MaxChaining \in Nat /\ MaxNonce \in Nat

\* What decides a transaction's fate.  "flaw" is the first check on the
\* transaction alone that it fails: check_raw_transaction and the payload kind,
\* the version byte of an address, or the function and arguments it names.
Transaction ==
    [id : Nat, origin : Accounts, nonce : 0..MaxNonce,
     sponsor : Accounts \cup {NoSponsor}, sponsorNonce : 0..MaxNonce,
     fee : Nat, kind : {"transfer", "call", "deploy"}, to : Accounts, amount : Nat,
     contract : Contracts, flaw : {"none", "check", "address", "function"}]

Payer(tx) == IF tx.sponsor = NoSponsor THEN tx.origin ELSE tx.sponsor

\* The accounts a transaction takes a nonce of, and that nonce.
Reserves(tx, account, nonce) ==
    \/ tx.origin = account /\ tx.nonce = nonce
    \/ tx.sponsor = account /\ tx.sponsorNonce = nonce

Signers(tx) == {tx.origin, tx.sponsor} \ {NoSponsor}

\* A nonce of the transaction was used by a mined one.
Stale(tx, nonceOf) ==
    \/ tx.nonce < nonceOf[tx.origin]
    \/ tx.sponsor # NoSponsor /\ tx.sponsorNonce < nonceOf[tx.sponsor]

\* Every nonce of the transaction is the next one of its account.
Ready(tx, nonceOf) ==
    /\ tx.nonce = nonceOf[tx.origin]
    /\ tx.sponsor # NoSponsor => tx.sponsorNonce = nonceOf[tx.sponsor]

\* require_funds
HasFunds(balanceOf, account, amount) == balanceOf[account] >= amount

\* Mutant: sponsors are left out of the order.
PrerequisitesOfOrigins(txs, nonceOf, i) ==
    {j \in DOMAIN txs : txs[j].origin = txs[i].origin /\ txs[j].nonce < txs[i].nonce}

\* The transactions of a queue that must run directly before the one at i:
\* for an account of both, the nearest smaller nonce that is reserved.
Prerequisites(txs, nonceOf, i) ==
    {j \in DOMAIN txs :
        /\ ~Stale(txs[i], nonceOf) /\ ~Stale(txs[j], nonceOf)
        /\ \E account \in Accounts, n, m \in 0..MaxNonce :
              /\ m < n /\ Reserves(txs[i], account, n) /\ Reserves(txs[j], account, m)
              /\ \A k \in DOMAIN txs : \A l \in (m + 1)..(n - 1) :
                    Stale(txs[k], nonceOf) \/ ~Reserves(txs[k], account, l)}

\* check_nonce_dependencies: a topological sort reaches every transaction.
NonceDependenciesHold(queue, candidate, nonceOf) ==
    LET txs == Append(queue, candidate)
        visited[n \in 0..Len(txs)] ==
            IF n = 0 THEN {}
            ELSE {i \in DOMAIN txs : Prerequisites(txs, nonceOf, i) \subseteq visited[n - 1]}
    IN  queue = <<>> \/ visited[Len(txs)] = DOMAIN txs

\* One of the nonces, against the chain and against the queue.
NonceAdmissible(queue, nonceOf, account, nonce) ==
    /\ nonceOf[account] <= nonce /\ nonce # MaxNonce
    /\ nonce <= nonceOf[account] + MaxChaining
    /\ \A i \in DOMAIN queue : ~Reserves(queue[i], account, nonce)

\* The rules for a native transfer and for fees.
PayloadFunded(tx, balanceOf) ==
    /\ tx.kind = "transfer" =>
          /\ tx.to # tx.origin
          /\ tx.amount > 0
          /\ HasFunds(balanceOf, tx.origin,
                      tx.amount + IF Payer(tx) = tx.origin THEN tx.fee ELSE 0)
    /\ HasFunds(balanceOf, Payer(tx), tx.fee)

\* check_mempool_admission.  Which check fails first only decides the reason
\* that is reported.
Admissible(tx, queue, nonceOf, balanceOf, deployed) ==
    /\ tx.flaw = "none"
    /\ tx.fee >= MinimumFee
    /\ tx.sponsor = tx.origin => tx.nonce = tx.sponsorNonce
    /\ tx.sponsor # NoSponsor => NonceAdmissible(queue, nonceOf, tx.sponsor, tx.sponsorNonce)
    /\ NonceAdmissible(queue, nonceOf, tx.origin, tx.nonce)
    /\ NonceDependenciesHold(queue, tx, nonceOf)
    /\ PayloadFunded(tx, balanceOf)
    /\ tx.kind = "call" => tx.contract \in deployed
    /\ tx.kind = "deploy" => tx.contract \notin deployed

\* submit_transaction: a transaction that is queued already is accepted again.
Submit(tx, queue, nonceOf, balanceOf, deployed) ==
    IF /\ \A i \in DOMAIN queue : queue[i].id # tx.id
       /\ Admissible(tx, queue, nonceOf, balanceOf, deployed)
    THEN Append(queue, tx)
    ELSE queue

\* next_mempool_transaction: the first that is ready or stale; one with a gap
\* before its nonce waits.
Selectable(queue, nonceOf) ==
    {i \in DOMAIN queue : Ready(queue[i], nonceOf) \/ Stale(queue[i], nonceOf)}

IsNext(queue, nonceOf, i) ==
    /\ i \in Selectable(queue, nonceOf)
    /\ \A j \in Selectable(queue, nonceOf) : i <= j

Without(queue, i) ==
    [j \in 1..(Len(queue) - 1) |-> IF j < i THEN queue[j] ELSE queue[j + 1]]
=============================================================================
