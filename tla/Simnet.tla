------------------------------- MODULE Simnet -------------------------------
(***************************************************************************)
(* A simnet session as the SDK drives it (core.rs, session.rs): blocks are *)
(* mined, signed transactions are queued and executed, other transactions  *)
(* are executed for a sender, and a block made for one signed transaction  *)
(* is taken back when that transaction is rejected.                        *)
(***************************************************************************)
EXTENDS SimnetChain

CONSTANTS
    Epochs,          \* the epochs in order, as numbers
    FirstEpoch,      \* the epoch a session starts in
    GenesisBalance,  \* uSTX of each account
    Signed,          \* the signed transactions of this instance
    Calls,           \* the transactions made for a sender
    SnippetAmounts,  \* what snippets and mints move, in uSTX
    MaxSnippets,     \* bound on the snippets and mints
    MaxQueue,        \* bound on the queue
    MaxPerBlock      \* bound on the transactions listed in one mineBlock

ASSUME SimnetAssumption ==
    /\ Epochs \subseteq Nat /\ FirstEpoch \in Epochs
    /\ GenesisBalance \in [Accounts -> Nat]
    /\ Signed \subseteq Transaction /\ Calls \subseteq Transaction
    /\ Signed \cap Calls = {}
    /\ SnippetAmounts \subseteq Nat /\ MaxSnippets \in Nat
    /\ MaxQueue \in Nat /\ MaxPerBlock \in Nat

VARIABLES
    chain,    \* block tables and tips of the session's datastores
    cur,      \* current_chain_tip: the tip that serves reads, shared by clones
    store,    \* the versioned store; contract metadata is kept at height 0
    journal,  \* write_journal
    undo,     \* the checkpoint of the tentative block
    frame,    \* writes of the open transaction frame, not yet in the store
    mirror,   \* the STX balances the session reports
    queue,    \* the mempool
    pc,       \* where the operation in progress is
    mode,     \* what that operation is
    tx,       \* the transaction being executed
    result,   \* whether it is included, and the uSTX its payload moved
    listed,   \* how many listed transactions this block has executed
    snippets, \* how many snippets and mints were run
    boot,     \* how often the boot contracts of each epoch were deployed
    before    \* the session when the operation began; not in the program

vars == <<chain, cur, store, journal, undo, frame, mirror, queue, pc, mode, tx,
          result, listed, snippets, boot, before>>

chainVars == <<chain, cur>>
storeVars == <<store, journal>>

\* No transaction and no checkpoint.
None == Absent

Undecided == [included |-> FALSE, moved |-> 0]

(***************************************************************************)
(* What the session reads.                                                 *)
(***************************************************************************)

Height == HeightOf(chain.blocks, cur)

\* Through the open frame, the outermost of the nested database contexts.
Value(key) == IF frame[key] # Absent THEN frame[key] ELSE ReadAt(store, key, Height)

NonceOf == [a \in Accounts |-> Value(<<"nonce", a>>)]
BalanceOf == [a \in Accounts |-> Value(<<"balance", a>>)]
Deployed == {c \in Contracts : Value(<<"contract", c>>) # Absent}

EmptyFrame == [k \in Keys |-> Absent]

\* Contract metadata has no height.
CellOf(key, height) == <<key, IF key[1] = "contract" THEN 0 ELSE height>>

\* A commit puts every write of the frame into the store, and into the journal
\* what it replaces.
Written(writes, height) ==
    {c \in Cells : c[1] \in Keys /\ writes[c[1]] # Absent /\ c = CellOf(c[1], height)}

CommitStore(s, writes, height) ==
    [c \in Cells |-> IF c \in Written(writes, height) THEN writes[c[1]] ELSE s[c]]

CommitJournal(j, s, writes, height) ==
    LET fresh == {c \in Written(writes, height) : j.open /\ ~j.touched[c]}
    IN  [j EXCEPT !.touched = [c \in Cells |-> j.touched[c] \/ c \in fresh],
                  !.first = [c \in Cells |-> IF c \in fresh THEN s[c] ELSE j.first[c]]]

(***************************************************************************)
(* Initial state: a session with its accounts, at the genesis block.       *)
(***************************************************************************)

GenesisChain ==
    [height |-> 0, open |-> 0,
     blocks |-> [h \in Heights |-> IF h = 0 THEN [time |-> StacksGap, burn |-> 0, tenure |-> 0]
                                   ELSE Absent],
     burn |-> 0, burnTime |-> 0, tenure |-> 0, epoch |-> FirstEpoch]

GenesisStore ==
    [c \in Cells |->
        IF c[2] # 0 THEN Absent
        ELSE IF c[1][1] = "nonce" THEN 0
        ELSE IF c[1][1] = "balance" THEN GenesisBalance[c[1][2]]
        ELSE IF c[1][1] = "epoch" THEN FirstEpoch
        ELSE Absent]

GenesisBoot == [e \in Epochs |-> IF e <= FirstEpoch THEN 1 ELSE 0]

Fresh ==
    /\ chain' = GenesisChain
    /\ store' = GenesisStore
    /\ journal' = ClosedJournal
    /\ mirror' = GenesisBalance
    /\ queue' = <<>>
    /\ boot' = GenesisBoot

Init ==
    /\ chain = GenesisChain /\ cur = 0
    /\ store = GenesisStore /\ journal = ClosedJournal /\ undo = None
    /\ frame = EmptyFrame /\ mirror = GenesisBalance /\ queue = <<>>
    /\ pc = "idle" /\ mode = "none" /\ tx = None /\ result = Undecided
    /\ listed = 0 /\ snippets = 0 /\ boot = GenesisBoot /\ before = None

(***************************************************************************)
(* Blocks.                                                                 *)
(***************************************************************************)

\* Session::advance_chain_tip and the burn and stacks variants: the tables
\* move, the block time is stored at the tip that is left, the tenure at the
\* tip that is reached.
Advance(s, j, burnBlock) ==
    LET next == IF burnBlock THEN AdvanceBurn(chain) ELSE AdvanceStacks(chain)
        timeCell == <<<<"time">>, Height>>
        tenureCell == <<<<"tenure">>, next.height>>
        timed == chain.epoch >= MarfedTime
        s1 == IF timed THEN PutStore(s, timeCell, next.blocks[next.height].time) ELSE s
        j1 == IF timed THEN PutJournal(j, s, timeCell) ELSE j
    IN  /\ chain.height < MaxHeight
        /\ chain' = next
        /\ cur' = next.open
        /\ store' = IF burnBlock THEN PutStore(s1, tenureCell, next.tenure) ELSE s1
        /\ journal' = IF burnBlock THEN PutJournal(j1, s1, tenureCell) ELSE j1

NextBlock(j) == Advance(store, j, chain.epoch < Nakamoto)

\* mineEmptyBurnBlock, and mineEmptyStacksBlock which early epochs refuse.
MineEmptyBlock(burnBlock) ==
    /\ pc = "idle"
    /\ burnBlock \/ chain.epoch >= Nakamoto
    /\ Advance(store, journal, burnBlock)
    /\ UNCHANGED <<undo, frame, mirror, queue, pc, mode, tx, result, listed, snippets, boot,
                   before>>

\* deploy_boot_contracts_for_range: the boot contracts of the epochs that are
\* passed, unless the session has them.
BootAfter(epoch) ==
    [e \in Epochs |-> IF chain.epoch < e /\ e <= epoch /\ boot[e] = 0 THEN 1 ELSE boot[e]]

\* update_epoch, of a session that is between two operations.
SetEpoch(epoch) ==
    LET next == EnterEpoch(chain, epoch)
        s1 == PutStore(store, <<<<"epoch">>, Height>>, epoch)
        s2 == IF epoch >= Nakamoto /\ epoch >= MarfedTime
              THEN PutStore(s1, <<<<"time">>, Height>>, next.blocks[next.height].time) ELSE s1
    IN  /\ pc = "idle" /\ epoch # chain.epoch
        /\ epoch >= Nakamoto => chain.height < MaxHeight
        /\ chain' = next
        /\ cur' = IF epoch >= Nakamoto THEN next.open ELSE cur
        /\ store' = IF epoch >= Nakamoto
                    THEN PutStore(s2, <<<<"tenure">>, next.height>>, next.tenure) ELSE s2
        /\ boot' = BootAfter(epoch)
        /\ UNCHANGED <<journal, undo, frame, mirror, queue, pc, mode, tx, result, listed,
                       snippets, before>>

\* process_events: what the events of a transaction credit and debit.
CreditToken(balances, account, value) == [balances EXCEPT ![account] = @ + value]
DebitToken(balances, account, value) == [balances EXCEPT ![account] = @ - value]

ProcessEvents(balances, from, to, moved) ==
    IF moved = 0 THEN balances
    ELSE DebitToken(CreditToken(balances, to, moved), from, moved)

\* A nonce-free evaluation (execute, runSnippet): it runs in
\* the current block, and what it moves is committed and reported.
EvalSnippet(from, to, amount) ==
    LET paid == [EmptyFrame EXCEPT ![<<"balance", from>>] = BalanceOf[from] - amount,
                                   ![<<"balance", to>>] = BalanceOf[to] + amount]
    IN  /\ pc = "idle" /\ from # to /\ HasFunds(BalanceOf, from, amount)
        /\ snippets < MaxSnippets /\ snippets' = snippets + 1
        /\ store' = PutStore(CommitStore(store, paid, Height), <<<<"epoch">>, Height>>, chain.epoch)
        /\ mirror' = ProcessEvents(mirror, from, to, amount)
        /\ UNCHANGED <<chainVars, journal, undo, frame, queue, pc, mode, tx, result, listed, boot,
                       before>>

\* mint_stx_balance
MintStx(account, amount) ==
    /\ pc = "idle" /\ snippets < MaxSnippets /\ snippets' = snippets + 1
    /\ store' = CommitStore(store, [EmptyFrame EXCEPT ![<<"balance", account>>] =
                                        BalanceOf[account] + amount], Height)
    /\ mirror' = CreditToken(mirror, account, amount)
    /\ UNCHANGED <<chainVars, journal, undo, frame, queue, pc, mode, tx, result, listed, boot,
                   before>>

\* A read-only call runs in a frame of its own and writes nothing in it.
EvalReadOnly == store' = PutStore(store, <<<<"epoch">>, Height>>, chain.epoch)

\* callReadOnlyFn: no block and no nonce.
CallReadOnlyFn ==
    /\ pc = "idle" /\ Deployed # {}
    /\ snippets < MaxSnippets /\ snippets' = snippets + 1
    /\ EvalReadOnly
    /\ UNCHANGED <<chainVars, journal, undo, frame, mirror, queue, pc, mode, tx, result, listed,
                   boot, before>>

\* What the console and the SDK both offer: ::advance_chain_tip and its variants,
\* ::set_epoch, ::mint_stx, and a snippet.
Command ==
    \/ \E burnBlock \in BOOLEAN : MineEmptyBlock(burnBlock)
    \/ \E epoch \in Epochs : SetEpoch(epoch)
    \/ \E from, to \in Accounts, amount \in SnippetAmounts :
          EvalSnippet(from, to, amount) \/ MintStx(to, amount)

\* initSession with a cached session: a clone of it replaces the session.  The
\* clone shares the cell that holds the tip, and sets it to its own tip.
InitSession ==
    /\ pc = "idle"
    /\ Fresh
    /\ cur' = GenesisChain.open
    /\ UNCHANGED <<undo, frame, pc, mode, tx, result, listed, snippets, before>>

\* submitTransaction.  Checking opens the database, which stores the epoch.
SubmitTransaction(t) ==
    LET queued == \E i \in DOMAIN queue : queue[i].id = t.id
        opened == ~queued /\ t.flaw # "check" /\ t.fee >= MinimumFee /\ t.flaw # "address"
    IN  /\ pc = "idle" /\ Len(queue) < MaxQueue
        /\ queue' = Submit(t, queue, NonceOf, BalanceOf, Deployed)
        /\ store' = IF opened THEN PutStore(store, <<<<"epoch">>, Height>>, chain.epoch) ELSE store
        /\ UNCHANGED <<chainVars, journal, undo, frame, mirror, pc, mode, tx, result, listed,
                       snippets, boot, before>>

\* execute_raw_transaction_in_next_block begins.
BroadcastTransaction(t) ==
    /\ pc = "idle"
    /\ undo' = Checkpoint(chain, cur)
    /\ NextBlock(OpenJournal)
    /\ pc' = "admit" /\ mode' = "tentative" /\ tx' = t /\ result' = Undecided
    /\ before' = [chain |-> chain, cur |-> cur, store |-> store, mirror |-> mirror]
    /\ UNCHANGED <<frame, mirror, queue, listed, snippets, boot>>

\* An operation for a sender that makes a block first, even if it is rejected.
InNextBlock(t) ==
    /\ pc = "idle"
    /\ NextBlock(journal)
    /\ pc' = "admit" /\ mode' = "call" /\ tx' = t /\ result' = Undecided
    /\ UNCHANGED <<undo, frame, mirror, queue, listed, snippets, boot, before>>

\* callPublicFn and callPrivateFn
CallFn(t) == t.kind = "call" /\ InNextBlock(t)

TransferStx(t) == t.kind = "transfer" /\ InNextBlock(t)

DeployContract(t) == t.kind = "deploy" /\ InNextBlock(t)

\* mineBlock begins, and first works off the queue.
MineBlock ==
    /\ pc = "idle"
    /\ NextBlock(journal)
    /\ pc' = "drain" /\ mode' = "drain"
    /\ UNCHANGED <<undo, frame, mirror, queue, tx, result, listed, snippets, boot, before>>

DrainQueue ==
    /\ pc = "drain"
    /\ \E i \in DOMAIN queue :
          /\ IsNext(queue, NonceOf, i)
          /\ tx' = queue[i]
          /\ queue' = Without(queue, i)
    /\ pc' = "admit" /\ result' = Undecided
    /\ UNCHANGED <<chainVars, storeVars, undo, frame, mirror, mode, listed, snippets, boot,
                   before>>

QueueDrained ==
    /\ pc = "drain" /\ Selectable(queue, NonceOf) = {}
    /\ pc' = "listed" /\ mode' = "listed"
    /\ UNCHANGED <<chainVars, storeVars, undo, frame, mirror, queue, tx, result, listed,
                   snippets, boot,
                   before>>

\* The transactions the caller listed, signed ones among them.
ExecuteListed(t) ==
    /\ pc = "listed" /\ listed < MaxPerBlock
    /\ listed' = listed + 1 /\ tx' = t /\ pc' = "admit" /\ result' = Undecided
    /\ UNCHANGED <<chainVars, storeVars, undo, frame, mirror, queue, mode, snippets, boot,
                   before>>

EndBlock ==
    /\ pc = "listed"
    /\ pc' = "idle" /\ mode' = "none" /\ listed' = 0 /\ tx' = None
    /\ UNCHANGED <<chainVars, storeVars, undo, frame, mirror, queue, result, snippets, boot,
                   before>>

(***************************************************************************)
(* One transaction.                                                        *)
(***************************************************************************)

\* open_database: the epoch is committed outside the transaction's frame.
OpenDatabase ==
    /\ store' = PutStore(store, <<<<"epoch">>, Height>>, chain.epoch)
    /\ journal' = PutJournal(journal, store, <<<<"epoch">>, Height>>)

IsSigned == tx \in Signed

\* admit: both nonces must be the next ones and the payer must afford the fee.
SignedAdmitted ==
    /\ Ready(tx, NonceOf)
    /\ tx.nonce # MaxNonce
    /\ Payer(tx) # tx.origin => tx.sponsorNonce # MaxNonce
    /\ HasFunds(BalanceOf, Payer(tx), tx.fee)

\* check_raw_transaction
SignedSound == tx.flaw # "check"

\* stx_transfer and run_with_terms before they open the database.
CallSound ==
    /\ tx.kind = "transfer" => tx.to # tx.origin /\ tx.amount > 0
    /\ tx.kind = "deploy" => tx.contract \notin Deployed

CheckedOut == IF IsSigned THEN SignedSound ELSE CallSound

AdmitTransaction ==
    /\ pc = "admit" /\ CheckedOut
    /\ IsSigned => SignedAdmitted
    /\ OpenDatabase
    /\ frame' = IF IsSigned
                THEN [EmptyFrame EXCEPT ![<<"balance", Payer(tx)>>] =
                          BalanceOf[Payer(tx)] - tx.fee]
                ELSE EmptyFrame
    /\ pc' = "payload"
    /\ UNCHANGED <<chainVars, undo, mirror, queue, mode, tx, result, listed, snippets, boot,
                   before>>

\* A check fails, before the database is opened or in admit.
RefuseTransaction ==
    /\ pc = "admit"
    /\ \/ ~CheckedOut /\ UNCHANGED storeVars
       \/ CheckedOut /\ IsSigned /\ ~SignedAdmitted /\ OpenDatabase
    /\ pc' = "finish"
    /\ UNCHANGED <<chainVars, undo, frame, mirror, queue, mode, tx, result, listed, snippets,
                   boot, before>>

\* increment_nonce, outside any frame and at once in the store.
IncrementNonce(charged) ==
    LET cell == <<<<"nonce", tx.origin>>, Height>>
    IN  /\ store' = IF charged THEN PutStore(store, cell, NonceOf[tx.origin] + 1) ELSE store
        /\ journal' = IF charged THEN PutJournal(journal, store, cell) ELSE journal

\* A transaction that is not executed.  A miner would include some of these, and
\* then the nonce is charged.
Unexecuted(inclusion) ==
    LET charged == inclusion /\ NonceOf[tx.origin] # MaxNonce
    IN  /\ pc = "admit" /\ ~IsSigned /\ CheckedOut
        /\ IncrementNonce(charged)
        /\ result' = [included |-> charged, moved |-> 0]
        /\ pc' = "finish"
        /\ UNCHANGED <<chainVars, undo, frame, mirror, queue, mode, tx, listed, snippets, boot,
                       before>>

\* fail_before_execution: a deployment that does not parse or fails its analysis.
FailBeforeExecution(inclusion) == tx # None /\ tx.kind = "deploy" /\ Unexecuted(inclusion)

\* charge_preflight_rejection: a call of a function of the wrong kind, found in
\* the interface the SDK keeps.
PreflightRejection(inclusion) ==
    tx # None /\ tx.kind = "call" /\ tx.contract \in Deployed /\ Unexecuted(inclusion)

\* The payload ran in its own nested frame and its writes join the outer one.
PayloadKept(writes, moved) ==
    /\ pc = "payload"
    /\ frame' = writes
    /\ result' = [included |-> TRUE, moved |-> moved]
    /\ pc' = "settle"
    /\ UNCHANGED <<chainVars, storeVars, undo, mirror, queue, mode, tx, listed, snippets, boot,
                   before>>

Transferred ==
    [frame EXCEPT ![<<"balance", tx.origin>>] = BalanceOf[tx.origin] - tx.amount,
                  ![<<"balance", tx.to>>] = BalanceOf[tx.to] + tx.amount]

CanTransfer == tx.to # tx.origin /\ tx.amount > 0 /\ HasFunds(BalanceOf, tx.origin, tx.amount)

TransferRuns == tx.kind = "transfer" /\ CanTransfer /\ PayloadKept(Transferred, tx.amount)

\* A call moves uSTX of its sender, or does not.
CallRuns ==
    /\ tx.kind = "call" /\ tx.contract \in Deployed
    /\ \/ CanTransfer /\ PayloadKept(Transferred, tx.amount)
       \/ PayloadKept(frame, 0)

DeployRuns ==
    /\ tx.kind = "deploy" /\ tx.contract \notin Deployed
    /\ PayloadKept([frame EXCEPT ![<<"contract", tx.contract>>] = 1], 0)

\* The payload failed and its nested frame was rolled back.  BlockInclusion
\* says whether a miner would include the failure: never for a transfer, nor
\* for a duplicate deployment; for the rest it depends on error and epoch.
PayloadFails(inclusion) ==
    /\ pc = "payload"
    /\ inclusion => tx.kind = "call" \/ (tx.kind = "deploy" /\ tx.contract \notin Deployed)
    /\ tx.kind = "transfer" => ~CanTransfer
    /\ result' = [included |-> inclusion, moved |-> 0]
    /\ pc' = "settle"
    /\ UNCHANGED <<chainVars, storeVars, undo, frame, mirror, queue, mode, tx, listed,
                   snippets, boot,
                   before>>

\* Mutant: only the origin's nonce is charged.
ChargedOrigin == [frame EXCEPT ![<<"nonce", tx.origin>>] = NonceOf[tx.origin] + 1]

\* commit_accounts for a signed transaction, NonceCharge::apply for another.
Charged ==
    LET charge(f, a, n) == [f EXCEPT ![<<"nonce", a>>] = n + 1]
    IN  IF IsSigned
        THEN LET own == charge(frame, tx.origin, tx.nonce)
             IN  IF Payer(tx) = tx.origin THEN own ELSE charge(own, tx.sponsor, tx.sponsorNonce)
        ELSE charge(frame, tx.origin, NonceOf[tx.origin])

ChargeOverflows == ~IsSigned /\ NonceOf[tx.origin] = MaxNonce

\* Mutant: the payer is not among the accounts read back.
ReportedParties ==
    LET parties == IF result.moved > 0 THEN {tx.origin, tx.to} ELSE {}
    IN  [a \in Accounts |-> IF a \in parties THEN BalanceOf[a] ELSE mirror[a]]

\* The reported balances: read back for a signed transaction, accumulated from
\* the events of another.
Reported ==
    LET parties == IF result.moved > 0 THEN {tx.origin, tx.to} ELSE {}
    IN  IF IsSigned
        THEN [a \in Accounts |-> IF a \in parties \cup {Payer(tx)} THEN BalanceOf[a] ELSE mirror[a]]
        ELSE ProcessEvents(mirror, tx.origin, tx.to, result.moved)

\* settle, and what follows a commit.
SettleIncluded ==
    /\ pc = "settle" /\ result.included /\ ~ChargeOverflows
    /\ store' = CommitStore(store, Charged, Height)
    /\ journal' = CommitJournal(journal, store, Charged, Height)
    /\ mirror' = Reported
    /\ frame' = EmptyFrame
    /\ pc' = "finish"
    /\ UNCHANGED <<chainVars, undo, queue, mode, tx, result, listed, snippets, boot, before>>

SettleRejected ==
    /\ pc = "settle" /\ (~result.included \/ ChargeOverflows)
    /\ frame' = EmptyFrame
    /\ result' = Undecided
    /\ pc' = "finish"
    /\ UNCHANGED <<chainVars, storeVars, undo, mirror, queue, mode, tx, listed, snippets, boot,
                   before>>

\* The transaction's result goes to the caller, or to the list of the block.
FinishTransaction ==
    /\ pc = "finish" /\ mode # "tentative"
    /\ pc' = IF mode = "call" THEN "idle" ELSE mode
    /\ mode' = IF mode = "call" THEN "none" ELSE mode
    /\ tx' = None /\ result' = Undecided
    /\ UNCHANGED <<chainVars, storeVars, undo, frame, mirror, queue, listed, snippets, boot,
                   before>>

\* execute_raw_transaction_in_next_block ends: the block stays or is undone.
FinishTentativeBlock ==
    /\ pc = "finish" /\ mode = "tentative"
    /\ store' = IF result.included THEN store ELSE UndoWrites(store, journal)
    /\ journal' = ClosedJournal
    /\ chain' = IF result.included THEN chain ELSE RestoreChain(chain, undo)
    /\ cur' = IF result.included THEN cur ELSE undo.cur
    /\ pc' = "idle" /\ mode' = "none" /\ tx' = None /\ undo' = None /\ result' = Undecided
    /\ before' = None
    /\ UNCHANGED <<frame, mirror, queue, listed, snippets, boot>>

Next ==
    \/ Command
    \/ CallReadOnlyFn
    \/ InitSession
    \/ \E t \in Signed : SubmitTransaction(t) \/ BroadcastTransaction(t)
    \/ \E t \in Calls : CallFn(t) \/ TransferStx(t) \/ DeployContract(t)
    \/ MineBlock
    \/ DrainQueue
    \/ QueueDrained
    \/ \E t \in Signed \cup Calls : ExecuteListed(t)
    \/ EndBlock
    \/ AdmitTransaction
    \/ RefuseTransaction
    \/ \E inclusion \in BOOLEAN : 
          FailBeforeExecution(inclusion) \/ PreflightRejection(inclusion) \/ PayloadFails(inclusion)
    \/ tx # None /\ (TransferRuns \/ CallRuns \/ DeployRuns)
    \/ SettleIncluded
    \/ SettleRejected
    \/ FinishTransaction
    \/ FinishTentativeBlock

Spec == Init /\ [][Next]_vars

(***************************************************************************)
(* Properties.                                                             *)
(***************************************************************************)

TypeOK ==
    /\ chain \in ChainType /\ cur \in Heights
    /\ store \in [Cells -> Nat \cup {Absent}]
    /\ journal.open \in BOOLEAN /\ journal.touched \in [Cells -> BOOLEAN]
    /\ journal.first \in [Cells -> Nat \cup {Absent}]
    /\ frame \in [Keys -> Nat \cup {Absent}]
    /\ mirror \in [Accounts -> Int]
    /\ queue \in Seq(Signed)
    /\ tx \in Signed \cup Calls \cup {None}
    /\ result \in [included : BOOLEAN, moved : Nat]
    /\ pc \in {"idle", "drain", "listed", "admit", "payload", "settle", "finish"}
    /\ mode \in {"none", "tentative", "call", "drain", "listed"}
    /\ listed \in 0..MaxPerBlock /\ snippets \in 0..MaxSnippets
    /\ boot \in [Epochs -> Nat]

\* A block made for a signed transaction that is then rejected leaves no trace:
\* tables, tips, store and reported balances are what they were (session.rs,
\* "Mine a block only if the signed transaction is included").
RejectedLeavesNoTrace ==
    pc = "finish" /\ mode = "tentative" /\ ~result.included =>
        /\ RestoreChain(chain, undo) = before.chain
        /\ undo.cur = before.cur
        /\ UndoWrites(store, journal) = before.store
        /\ mirror = before.mirror

\* The balances the session reports are those of the chain, whichever of the
\* two bookkeeping paths a transaction took.
MirrorAgrees == pc \in {"idle", "drain", "listed"} => mirror = BalanceOf

\* Two queued transactions never wait for the same nonce of an account, and when
\* no nonce is missing between what is mined and what is queued, a block can
\* always take the next transaction: the queue never waits for itself.
QueueCanBeMined ==
    /\ \A i, j \in DOMAIN queue : i # j =>
           \A a \in Signers(queue[i]) : \A n \in 0..MaxNonce :
               ~(Reserves(queue[i], a, n) /\ Reserves(queue[j], a, n))
    /\ (/\ pc = "idle" /\ queue # <<>>
        /\ \A i \in DOMAIN queue : \A a \in Accounts : \A n \in 0..MaxNonce :
              Reserves(queue[i], a, n) =>
                  \A m \in NonceOf[a]..n : \E j \in DOMAIN queue : Reserves(queue[j], a, m))
       => Selectable(queue, NonceOf) # {}

\* What the user may know of the session: while a block is tentative, what was
\* before it.
Tentative == mode = "tentative"
SeenStore == IF Tentative THEN before.store ELSE store
SeenHeight == IF Tentative THEN before.chain.height ELSE chain.height

Ledger == INSTANCE SimnetLedger WITH
    Balances <- GenesisBalance,
    Amounts <- SnippetAmounts,
    height <- SeenHeight,
    nonce <- [a \in Accounts |-> ReadAt(SeenStore, <<"nonce", a>>, SeenHeight)],
    balance <- [a \in Accounts |-> ReadAt(SeenStore, <<"balance", a>>, SeenHeight)],
    contracts <- {c \in Contracts : SeenStore[<<<<"contract", c>>, 0>>] # Absent}

\* The session is a ledger that changes one included transaction at a time.
IsLedger == Ledger!Spec
=============================================================================
