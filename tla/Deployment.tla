----------------------------- MODULE Deployment -----------------------------
(***************************************************************************)
(* `clarinet deployments apply`, and the protocol deployment of a devnet:  *)
(* the thread that runs apply_on_chain_deployment                          *)
(* (clarinet-deployments/src/onchain/mod.rs) against a Stacks node.        *)
(*                                                                         *)
(* The thread encodes every transaction of the plan up front, with nonces  *)
(* it reads once per account, then handles the batches one by one: it      *)
(* waits for the batch's epoch (devnet only), posts the batch, and polls   *)
(* the node until it believes the batch is in a block.  The node moves on  *)
(* between any two of its requests, other programs use the same accounts,  *)
(* and any request may fail.                                               *)
(***************************************************************************)
EXTENDS Integers, FiniteSets, Sequences

CONSTANTS
    NTx,              \* transactions in the plan, flattened, in plan order
    NBatches,         \* batches in the plan (some may be empty)
    BatchOf,          \* the batch of each transaction
    Kind,             \* the TransactionSpecification variant of each
    Sender,           \* the account that signs it
    Contract,         \* the contract it publishes or calls
    Senders,          \* every account
    Network,          \* "Devnet", "Testnet" or "Mainnet"
    AfterBitcoinBlock,\* the activation height of the epoch of each batch
    AlreadyPublished, \* contracts the node has before the deployment starts
    InitNonce,        \* account nonces before the deployment starts
    SharedSenders,    \* accounts some other program sends from meanwhile
    MaxFaults,        \* bound: failed requests
    MaxOmissions,     \* bound: blocks that leave out a valid transaction,
                      \* and transactions of other programs
    MaxLag,           \* bound: blocks the node gains on what was last read
    MaxDrift,         \* bound: blocks one chain is ahead of the other
    MaxHeight         \* bound: height of both chains

Tx    == 1..NTx
Kinds == {"StxTransfer", "BtcTransfer", "ContractCall", "ContractPublish",
          "RequirementPublish", "EmulatedContractPublish",
          "EmulatedContractCall"}

ASSUME PlanAssumption ==
    /\ NTx \in Nat /\ NBatches \in Nat
    /\ BatchOf \in [Tx -> 1..NBatches]
    /\ Kind \in [Tx -> Kinds]
    /\ Sender \in [Tx -> Senders]
    /\ DOMAIN Contract = Tx
    /\ Network \in {"Devnet", "Testnet", "Mainnet"}
    /\ AfterBitcoinBlock \in [1..NBatches -> Nat]

\* The flattening keeps the order of the batches, and requirements are not
\* published on mainnet (the code panics on such a plan).
ASSUME PlanOrderAssumption ==
    /\ \A m, n \in Tx : m <= n => BatchOf[m] <= BatchOf[n]
    /\ Network = "Mainnet" => \A n \in Tx : Kind[n] # "RequirementPublish"

ASSUME NodeAssumption ==
    /\ InitNonce \in [Senders -> Nat]
    /\ SharedSenders \subseteq Senders
    /\ MaxFaults \in Nat /\ MaxOmissions \in Nat
    /\ MaxLag \in Nat /\ MaxDrift \in Nat /\ MaxHeight \in Nat

VARIABLES
    \* the deployment thread
    pc,           \* where apply_on_chain_deployment is
    cursor,       \* encode_transactions: the next transaction
    nextIndex,    \* encode_transactions: next_index
    cachedNonces, \* encode_transactions: cached_nonces
    index,        \* TransactionTracker::index of each encoded transaction
    nonce,        \* the nonce each encoded transaction is signed with
    status,       \* TransactionTracker::status
    btcSent,      \* bitcoin transfers already sent
    batch,        \* the batch being submitted
    curStacks, curBitcoin,     \* current_(bitcoin_)block_height
    lastStacks, lastBitcoin,   \* last_*_chain_check_at_height
    info,         \* the heights of the last get_info of the check loop
    pending,      \* trackers this pass over ongoing_batch has yet to visit
    keepLooping,  \* keep_looping
    rows,         \* what the reader of the deployment events shows
    outcome,      \* the final DeploymentEvent, "none" before it is sent
    \* the node
    stacksTip, burnTip, chainNonce, mempool, included, published,
    faults, omissions

thread == <<pc, cursor, nextIndex, cachedNonces, index, nonce, status,
            btcSent, batch, curStacks, curBitcoin, lastStacks, lastBitcoin,
            info, pending, keepLooping, rows, outcome>>
node   == <<stacksTip, burnTip, chainNonce, mempool, included, published,
            omissions>>
vars   == <<thread, node, faults>>

encoding == <<cursor, nextIndex, cachedNonces, index, nonce, btcSent>>
heights  == <<curStacks, curBitcoin, lastStacks, lastBitcoin, info>>

-----------------------------------------------------------------------------
IsEmulated(n) == Kind[n] \in {"EmulatedContractPublish", "EmulatedContractCall"}

\* Transactions whose tracker carries TransactionCheck::ContractPublish, and
\* the ones whose tracker carries TransactionCheck::NonceCheck.
IsPublish(n)      == Kind[n] \in {"ContractPublish", "RequirementPublish"}
IsNonceChecked(n) == Kind[n] \in {"StxTransfer", "ContractCall"}

\* next_nonce: the cached nonce of an account, read from the node the first
\* time the account is met.
NextNonce(n) == IF Sender[n] \in DOMAIN cachedNonces
                THEN cachedNonces[Sender[n]] ELSE chainNonce[Sender[n]]

\* get_initial_transactions_trackers: one row per transaction that is not
\* emulated, in plan order.
Tracked          == SelectSeq([n \in Tx |-> n], LAMBDA n : ~IsEmulated(n))
InitialTrackers  == [i \in DOMAIN Tracked |-> [tx |-> Tracked[i], status |-> "Queued"]]

\* App::display_contract_status_update: the update replaces the row at the
\* tracker's index (indices start at 0, rows at 1).
Display(i, n, s) == [rows EXCEPT ![i + 1] = [tx |-> n, status |-> s]]

Send(event) == /\ outcome' = event
               /\ pc' = "done"

Fault == /\ faults < MaxFaults
         /\ faults' = faults + 1

Init ==
    /\ pc = "recv" /\ cursor = 1 /\ nextIndex = 0
    /\ cachedNonces = [s \in {} |-> 0]
    /\ index = [n \in Tx |-> 0] /\ nonce = [n \in Tx |-> 0]
    /\ status = [n \in Tx |-> "Queued"]
    /\ btcSent = {} /\ batch = 1
    /\ curStacks = 0 /\ curBitcoin = 0 /\ lastStacks = 0 /\ lastBitcoin = 0
    /\ info = [stacks |-> 0, bitcoin |-> 0]
    /\ pending = {} /\ keepLooping = FALSE
    /\ rows = InitialTrackers /\ outcome = "none"
    /\ stacksTip = 0 /\ burnTip = 0
    /\ chainNonce = InitNonce /\ mempool = {} /\ included = {}
    /\ published = AlreadyPublished
    /\ faults = 0 /\ omissions = 0

-----------------------------------------------------------------------------
\* deployment_command_rx.recv(): the Start command, or a dropped sender.
ReceiveStart ==
    /\ pc = "recv"
    /\ pc' = "wait_node"
    /\ UNCHANGED <<encoding, heights, status, batch, pending, keepLooping,
                   rows, outcome, node, faults>>

ReceiveBroken ==
    /\ pc = "recv"
    /\ Send("Interrupted")
    /\ UNCHANGED <<encoding, heights, status, batch, pending, keepLooping,
                   rows, node, faults>>

\* wait_for_node: get_info with NODE_RPC_RETRIES, an error when they run out.
WaitForNode ==
    /\ pc = "wait_node"
    /\ \/ pc' = "encode" /\ UNCHANGED <<outcome, faults>>
       \/ Fault /\ Send("Interrupted")
    /\ UNCHANGED <<encoding, heights, status, batch, pending, keepLooping,
                   rows, node>>

\* Mutant: the nonce is taken before the requirement is found to be there.
SkipTransactionSpendsNonce ==
    /\ pc = "encode" /\ cursor \in Tx
    /\ \/ IsEmulated(cursor) /\ UNCHANGED <<nextIndex, btcSent, cachedNonces>>
       \/ /\ Kind[cursor] = "BtcTransfer"
          /\ nextIndex' = nextIndex + 1
          /\ btcSent' = btcSent \cup {cursor}
          /\ UNCHANGED cachedNonces
       \/ /\ Kind[cursor] = "RequirementPublish"
          /\ Contract[cursor] \in published
          /\ nextIndex' = nextIndex + 1
          /\ cachedNonces' = [s \in DOMAIN cachedNonces \cup {Sender[cursor]} |->
                IF s = Sender[cursor] THEN NextNonce(cursor) + 1 ELSE cachedNonces[s]]
          /\ UNCHANGED btcSent
    /\ cursor' = cursor + 1
    /\ UNCHANGED <<pc, index, nonce, heights, status, batch, pending,
                   keepLooping, rows, outcome, node, faults>>

\* One iteration of the loops of encode_transactions that makes no tracker:
\* an emulated transaction has no index; a bitcoin transfer takes its index
\* and is sent at once; a requirement the node already has takes its index.
SkipTransaction ==
    /\ pc = "encode" /\ cursor \in Tx
    /\ \/ IsEmulated(cursor) /\ UNCHANGED <<nextIndex, btcSent>>
       \/ /\ Kind[cursor] = "BtcTransfer"
          /\ nextIndex' = nextIndex + 1
          /\ btcSent' = btcSent \cup {cursor}
       \/ /\ Kind[cursor] = "RequirementPublish"
          /\ Contract[cursor] \in published
          /\ nextIndex' = nextIndex + 1
          /\ UNCHANGED btcSent
    /\ cursor' = cursor + 1
    /\ UNCHANGED <<pc, cachedNonces, index, nonce, heights, status, batch,
                   pending, keepLooping, rows, outcome, node, faults>>

\* The iteration that signs a transaction and pushes its tracker.
EncodeTransaction ==
    /\ pc = "encode" /\ cursor \in Tx
    /\ \/ IsNonceChecked(cursor)
       \/ Kind[cursor] = "ContractPublish"
       \/ Kind[cursor] = "RequirementPublish" /\ Contract[cursor] \notin published
    /\ nonce' = [nonce EXCEPT ![cursor] = NextNonce(cursor)]
    /\ cachedNonces' = [s \in DOMAIN cachedNonces \cup {Sender[cursor]} |->
          IF s = Sender[cursor] THEN NextNonce(cursor) + 1 ELSE cachedNonces[s]]
    /\ index' = [index EXCEPT ![cursor] = nextIndex]
    /\ status' = [status EXCEPT ![cursor] = "Encoded"]
    /\ rows' = Display(nextIndex, cursor, "Encoded")
    /\ nextIndex' = nextIndex + 1
    /\ cursor' = cursor + 1
    /\ UNCHANGED <<pc, btcSent, heights, batch, pending, keepLooping, outcome,
                   node, faults>>

\* An argument that does not evaluate, or a nonce or contract read that
\* exhausts NODE_READ_RETRIES, aborts the whole deployment.
EncodeError ==
    /\ pc = "encode" /\ cursor \in Tx
    /\ IsPublish(cursor) \/ IsNonceChecked(cursor)
    /\ Fault
    /\ Send("Interrupted")
    /\ UNCHANGED <<encoding, heights, status, batch, pending, keepLooping,
                   rows, node>>

EncodeDone ==
    /\ pc = "encode" /\ cursor = NTx + 1
    /\ pc' = "next_batch"
    /\ UNCHANGED <<encoding, heights, status, batch, pending, keepLooping,
                   rows, outcome, node, faults>>

-----------------------------------------------------------------------------
\* The head of the loop over the encoded batches.  epoch_transition_successful
\* is computed once, from the height the previous batches left behind.
NextBatch ==
    /\ pc = "next_batch"
    /\ batch \in 1..NBatches
    /\ pc' = IF Network # "Devnet" \/ curBitcoin > AfterBitcoinBlock[batch]
             THEN "post" ELSE "epoch"
    /\ UNCHANGED <<encoding, heights, status, batch, pending, keepLooping,
                   rows, outcome, node, faults>>

Complete ==
    /\ pc = "next_batch"
    /\ batch = NBatches + 1
    /\ Send("DeploymentCompleted")
    /\ UNCHANGED <<encoding, heights, status, batch, pending, keepLooping,
                   rows, node, faults>>

\* Mutant: the activation height itself is taken to be past the activation.
PollEpochOffByOne ==
    /\ pc = "epoch" /\ stacksTip > 0 /\ burnTip > curBitcoin
    /\ curBitcoin' = burnTip
    /\ curStacks' = IF stacksTip > curStacks THEN stacksTip ELSE curStacks
    /\ pc' = IF stacksTip > curStacks /\ burnTip >= AfterBitcoinBlock[batch]
             THEN "post" ELSE "epoch"
    /\ UNCHANGED <<encoding, status, batch, lastStacks, lastBitcoin, info,
                   pending, keepLooping, rows, outcome, node, faults>>

\* One turn of the epoch loop that sees a new bitcoin block; a turn whose
\* request fails, or that sees nothing new, sleeps and changes nothing.
PollEpoch ==
    /\ pc = "epoch"
    /\ stacksTip > 0
    /\ burnTip > curBitcoin
    /\ curBitcoin' = burnTip
    /\ curStacks' = IF stacksTip > curStacks THEN stacksTip ELSE curStacks
    /\ pc' = IF stacksTip > curStacks /\ burnTip > AfterBitcoinBlock[batch]
             THEN "post" ELSE "epoch"
    /\ UNCHANGED <<encoding, status, batch, lastStacks, lastBitcoin, info,
                   pending, keepLooping, rows, outcome, node, faults>>

\* The next transaction of the batch that is still to be posted.
IsNextToPost(n) ==
    /\ BatchOf[n] = batch /\ status[n] = "Encoded"
    /\ \A m \in Tx : BatchOf[m] = batch /\ status[m] = "Encoded" => n <= m

\* The node takes a transaction whose nonce is not spent yet.
Accepts(n) == nonce[n] >= chainNonce[Sender[n]]

PostTransaction ==
    /\ pc = "post"
    /\ \E n \in Tx :
        /\ IsNextToPost(n)
        /\ Accepts(n)
        /\ mempool' = mempool \cup {n}
        /\ status' = [status EXCEPT ![n] = "Broadcasted"]
        /\ rows' = Display(index[n], n, "Broadcasted")
    /\ UNCHANGED <<pc, encoding, heights, batch, pending, keepLooping, outcome,
                   stacksTip, burnTip, chainNonce, included, published,
                   omissions, faults>>

\* The post fails: the node rejects the transaction, or the request is lost on
\* its way there or, the transaction already taken, on its way back.
PostError ==
    /\ pc = "post"
    /\ \E n \in Tx :
        /\ IsNextToPost(n)
        /\ \/ ~Accepts(n) /\ UNCHANGED <<mempool, faults>>
           \/ Fault /\ UNCHANGED mempool
           \/ Accepts(n) /\ Fault /\ mempool' = mempool \cup {n}
        /\ status' = [status EXCEPT ![n] = "Error"]
        /\ rows' = Display(index[n], n, "Error")
    /\ Send("Interrupted")
    /\ UNCHANGED <<encoding, heights, batch, pending, keepLooping, stacksTip,
                   burnTip, chainNonce, included, published, omissions>>

PostDone ==
    /\ pc = "post"
    /\ ~ \E n \in Tx : BatchOf[n] = batch /\ status[n] = "Encoded"
    /\ lastStacks' = 0 /\ lastBitcoin' = 0
    /\ pc' = "info"
    /\ UNCHANGED <<encoding, status, batch, curStacks, curBitcoin, info,
                   pending, keepLooping, rows, outcome, node, faults>>

-----------------------------------------------------------------------------
\* The check loop: get_info, then a pass over ongoing_batch if there is a new
\* stacks block.  ongoing_batch is keyed by txid, so its order is arbitrary.
GetInfo ==
    /\ pc = "info"
    /\ stacksTip > lastStacks
    /\ info' = [stacks |-> stacksTip, bitcoin |-> burnTip]
    /\ pending' = {n \in Tx : BatchOf[n] = batch /\ status[n] = "Broadcasted"}
    /\ keepLooping' = FALSE
    /\ pc' = "check"
    /\ UNCHANGED <<encoding, status, batch, curStacks, curBitcoin, lastStacks,
                   lastBitcoin, rows, outcome, node, faults>>

\* Mutant: the nonce check off by one.
ConfirmableTooLate(n) ==
    \/ IsPublish(n) /\ Contract[n] \in published
    \/ IsNonceChecked(n) /\ chainNonce[Sender[n]] > nonce[n] + 1

\* get_contract_source or get_nonce confirms a transaction.
Confirmable(n) == \/ IsPublish(n) /\ Contract[n] \in published
                  \/ IsNonceChecked(n) /\ chainNonce[Sender[n]] > nonce[n]

CheckConfirms ==
    /\ pc = "check"
    /\ \E n \in pending :
        /\ Confirmable(n)
        /\ status' = [status EXCEPT ![n] = "Confirmed"]
        /\ rows' = Display(index[n], n, "Confirmed")
        /\ pending' = pending \ {n}
    /\ UNCHANGED <<pc, encoding, heights, batch, keepLooping, outcome, node, faults>>

\* Mutant: the pass is cut short and no other one is asked for.
CheckGivesUp ==
    /\ pc = "check"
    /\ \E n \in pending : ~Confirmable(n)
    /\ pending' = {}
    /\ UNCHANGED <<pc, encoding, heights, status, batch, keepLooping, rows,
                   outcome, node, faults>>

\* Not there yet: the pass is cut short and another one is needed.
CheckKeepsLooping ==
    /\ pc = "check"
    /\ \E n \in pending : ~Confirmable(n)
    /\ keepLooping' = TRUE
    /\ pending' = {}
    /\ UNCHANGED <<pc, encoding, heights, status, batch, rows, outcome, node,
                   faults>>

\* Mutant: a failed contract request is treated the way a nonce request is.
ContractFailureIgnored ==
    /\ pc = "check"
    /\ \E n \in pending : IsPublish(n) /\ pending' = pending \ {n}
    /\ Fault
    /\ UNCHANGED <<pc, encoding, heights, status, batch, keepLooping, rows,
                   outcome, node>>

\* The request fails.  For a contract another pass is needed; for a nonce the
\* `if let Ok` has no else and the pass goes on to the next tracker.
ContractRequestFails ==
    /\ pc = "check"
    /\ \E n \in pending : IsPublish(n)
    /\ Fault
    /\ keepLooping' = TRUE
    /\ pending' = {}
    /\ UNCHANGED <<pc, encoding, heights, status, batch, rows, outcome, node>>

NonceRequestFails ==
    /\ pc = "check"
    /\ \E n \in pending :
        /\ IsNonceChecked(n)
        /\ pending' = pending \ {n}
    /\ Fault
    /\ UNCHANGED <<pc, encoding, heights, status, batch, keepLooping, rows,
                   outcome, node>>

\* The end of a pass.  Without a new bitcoin block nothing is remembered and
\* the loop starts over; otherwise the batch ends unless keep_looping is set.
EndPass ==
    /\ pc = "check"
    /\ pending = {}
    /\ IF info.bitcoin > lastBitcoin
       THEN /\ lastStacks' = info.stacks
            /\ lastBitcoin' = info.bitcoin
            /\ pc' = IF keepLooping THEN "info" ELSE "next_batch"
            /\ batch' = IF keepLooping THEN batch ELSE batch + 1
       ELSE /\ pc' = "info"
            /\ UNCHANGED <<lastStacks, lastBitcoin, batch>>
    /\ UNCHANGED <<encoding, status, curStacks, curBitcoin, info, pending,
                   keepLooping, rows, outcome, node, faults>>

-----------------------------------------------------------------------------
\* The node.  SeenStacks and SeenBitcoin are the heights last read from it.
Larger(a, b) == IF a > b THEN a ELSE b
SeenStacks   == Larger(curStacks, info.stacks)
SeenBitcoin  == Larger(curBitcoin, info.bitcoin)

MineBitcoinBlock ==
    /\ burnTip < MaxHeight
    /\ burnTip < SeenBitcoin + MaxLag
    /\ burnTip < stacksTip + MaxDrift
    /\ burnTip' = burnTip + 1
    /\ UNCHANGED <<thread, stacksTip, chainNonce, mempool, included,
                   published, omissions, faults>>

\* The transactions of a sender a block can hold: the ones that follow its
\* nonce without a gap.
Includable(n) ==
    /\ n \in mempool /\ nonce[n] >= chainNonce[Sender[n]]
    /\ \A k \in chainNonce[Sender[n]]..nonce[n] :
          \E m \in mempool : Sender[m] = Sender[n] /\ nonce[m] = k

\* A stacks block holds, for each sender, the includable transactions up to
\* some nonce.  A publish that aborts is in the block, spends its nonce and
\* publishes nothing.
MineStacksBlock ==
    /\ stacksTip < MaxHeight
    /\ stacksTip < SeenStacks + MaxLag
    /\ stacksTip < burnTip + MaxDrift
    /\ stacksTip' = stacksTip + 1
    /\ \E block \in SUBSET {n \in mempool : Includable(n)} :
        /\ \A n \in block, m \in mempool :
              Includable(m) /\ Sender[m] = Sender[n] /\ nonce[m] < nonce[n]
                 => m \in block
        /\ IF \A n \in mempool : Includable(n) => n \in block
           THEN UNCHANGED omissions
           ELSE omissions < MaxOmissions /\ omissions' = omissions + 1
        /\ mempool' = mempool \ block
        /\ included' = included \cup block
        /\ \E aborted \in SUBSET {n \in block : IsPublish(n)} :
              published' = published \cup {Contract[n] : n \in {m \in block \ aborted : IsPublish(m)}}
        /\ chainNonce' = [s \in Senders |->
              chainNonce[s] + Cardinality({n \in block : Sender[n] = s})]
    /\ UNCHANGED <<thread, burnTip, faults>>

\* Another program's transaction spends the next nonce of a shared account;
\* a transaction of the deployment with that nonce is dropped by the node.
ForeignTransaction ==
    /\ omissions < MaxOmissions
    /\ omissions' = omissions + 1
    /\ \E s \in SharedSenders :
        /\ chainNonce' = [chainNonce EXCEPT ![s] = @ + 1]
        /\ mempool' = {n \in mempool : Sender[n] # s \/ nonce[n] > chainNonce[s]}
    /\ UNCHANGED <<thread, stacksTip, burnTip, included, published, faults>>

-----------------------------------------------------------------------------
Deployer ==
    \/ ReceiveStart \/ ReceiveBroken \/ WaitForNode
    \/ SkipTransaction \/ EncodeTransaction \/ EncodeError \/ EncodeDone
    \/ NextBatch \/ Complete \/ PollEpoch
    \/ PostTransaction \/ PostError \/ PostDone
    \/ GetInfo \/ CheckConfirms \/ CheckKeepsLooping
    \/ ContractRequestFails \/ NonceRequestFails \/ EndPass

Next == Deployer \/ MineBitcoinBlock \/ MineStacksBlock \/ ForeignTransaction

Spec == Init /\ [][Next]_vars

\* The thread is never starved and the chains keep producing blocks.
FairSpec == /\ Spec
            /\ WF_vars(Deployer)
            /\ WF_vars(MineBitcoinBlock) /\ WF_vars(MineStacksBlock)

-----------------------------------------------------------------------------
Statuses == {"Queued", "Encoded", "Broadcasted", "Confirmed", "Error"}
Posted   == {"Broadcasted", "Confirmed"}

\* Every variable keeps its type: in particular no index or nonce leaves the
\* naturals, the check loop only ever visits transactions of the plan, and a
\* batch is only waited for, posted or checked if the plan has it.
TypeOK ==
    /\ pc \in {"recv", "wait_node", "encode", "next_batch", "epoch", "post",
               "info", "check", "done"}
    /\ cursor \in 1..(NTx + 1) /\ nextIndex \in Nat
    /\ DOMAIN cachedNonces \subseteq Senders
    /\ cachedNonces \in [DOMAIN cachedNonces -> Nat]
    /\ index \in [Tx -> Nat] /\ nonce \in [Tx -> Nat]
    /\ status \in [Tx -> Statuses]
    /\ btcSent \subseteq Tx /\ batch \in 1..(NBatches + 1)
    /\ pc \in {"epoch", "post", "info", "check"} => batch \in 1..NBatches
    /\ curStacks \in Nat /\ curBitcoin \in Nat
    /\ lastStacks \in Nat /\ lastBitcoin \in Nat
    /\ info \in [stacks : Nat, bitcoin : Nat]
    /\ pending \subseteq Tx /\ keepLooping \in BOOLEAN
    /\ outcome \in {"none", "Interrupted", "DeploymentCompleted"}
    /\ stacksTip \in Nat /\ burnTip \in Nat
    /\ chainNonce \in [Senders -> Nat]
    /\ mempool \subseteq Tx /\ included \subseteq Tx
    /\ faults \in Nat /\ omissions \in Nat

\* Whatever requests fail and however blocks and requests interleave, when a
\* transaction of a batch has been posted the node has the contract of every
\* publish of the earlier batches, the requirements skipped at encoding time
\* included (apply_on_chain_deployment: a later batch may call them).
PublishedBeforeNextBatch ==
    \A m, n \in Tx :
        IsPublish(m) /\ BatchOf[m] < BatchOf[n] /\ status[n] \in Posted
            => Contract[m] \in published

\* A deployment reported as completed has published every contract of the plan
\* (the CLI then prints "Transactions successfully confirmed").
CompletedIsPublished ==
    outcome = "DeploymentCompleted"
        => \A n \in Tx : IsPublish(n) => Contract[n] \in published

\* On a devnet a transaction is posted only once the bitcoin chain has passed
\* the height that activates the epoch of its batch, although the height the
\* thread compares may be one an earlier batch read.
EpochReached ==
    Network = "Devnet" =>
        \A n \in Tx : status[n] \in Posted
            => burnTip > AfterBitcoinBlock[BatchOf[n]]

\* No transaction the node holds waits behind a nonce nobody has posted: the
\* transactions encode_transactions skips, emulates or sends to bitcoin, and a
\* post that fails half way, never leave a hole in an account's nonces.
NoNonceGap == \A n \in mempool : Includable(n)

\* "we submit all the transactions previously encoded, and wait for their
\* inclusion in a block before moving to the next batch": whenever a batch is
\* left, all its transactions are in a block.
WaitsForInclusion ==
    \A n \in Tx : BatchOf[n] < batch /\ status[n] # "Queued" => n \in included

\* A publish that was posted and never will publish: it is in a block and was
\* aborted, or another program spent its nonce.
Lost(n) == /\ IsPublish(n) /\ status[n] = "Broadcasted"
           /\ n \notin mempool /\ Contract[n] \notin published

\* A deployment ends, whatever requests fail: it completes or it reports why it
\* was interrupted.  Only a lost publish may keep it waiting, since
\* get_contract_source then answers Ok(None) in every pass; a lost transfer or
\* call does not, as only the account's nonce is looked at.
Terminates == <>(outcome # "none" \/ \E n \in Tx : Lost(n))
=============================================================================
