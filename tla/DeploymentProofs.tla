-------------------------- MODULE DeploymentProofs --------------------------
(***************************************************************************)
(* Proofs about Deployment, for every plan, network, node and bound.       *)
(***************************************************************************)
EXTENDS Deployment, FiniteSetTheorems, WellFoundedInduction, TLAPS

\* The thread is in the loop over the encoded batches.
Submitting == pc \in {"next_batch", "epoch", "post", "info", "check"}

\* What encode_transactions has left without a tracker, the node has.
EncodedInv ==
    /\ \A n \in Tx : n < cursor /\ IsPublish(n) /\ status[n] = "Queued"
          => Contract[n] \in published
    /\ Submitting \/ batch > 1 => cursor = NTx + 1
    /\ \A n \in Tx : status[n] \in Posted
          => cursor = NTx + 1 /\ BatchOf[n] <= batch

\* The thread's own statuses agree with the batch it is at.
BatchInv ==
    /\ \A n \in Tx : IsPublish(n) /\ status[n] = "Confirmed"
          => Contract[n] \in published
    /\ \A n \in Tx : IsPublish(n) /\ BatchOf[n] < batch
          => status[n] \in {"Queued", "Confirmed"}
    /\ \A n \in Tx : status[n] = "Error" => pc = "done"

\* In the check loop: the batch is posted, and unless another pass is already
\* asked for, this one has still to visit every publish it has not confirmed.
CheckInv ==
    /\ pc \in {"info", "check"} =>
          \A n \in Tx : BatchOf[n] = batch => status[n] # "Encoded"
    /\ pc = "check" =>
          \A n \in pending : BatchOf[n] = batch /\ status[n] = "Broadcasted"
    /\ pc = "check" /\ ~keepLooping =>
          \A n \in Tx : IsPublish(n) /\ BatchOf[n] = batch /\ status[n] = "Broadcasted"
             => n \in pending

OutcomeInv ==
    /\ outcome = "none" <=> pc # "done"
    /\ outcome = "DeploymentCompleted" => batch = NBatches + 1

\* The inductive invariant behind the order of the batches.
IInv == TypeOK /\ EncodedInv /\ BatchInv /\ CheckInv /\ OutcomeInv

\* The inductive invariant behind the epoch gate.
EpochInv ==
    /\ curBitcoin <= burnTip
    /\ Network = "Devnet" /\ pc = "post" => burnTip > AfterBitcoinBlock[batch]
    /\ EpochReached

-----------------------------------------------------------------------------
\* A block holds finitely many transactions of each account.
LEMMA BlockCount ==
    ASSUME NEW block \in SUBSET Tx, NEW s
    PROVE  Cardinality({n \in block : Sender[n] = s}) \in Nat
<1>1. IsFiniteSet(Tx)
  BY FS_Interval, PlanAssumption DEF Tx
<1>2. {n \in block : Sender[n] = s} \subseteq Tx
  OBVIOUS
<1> QED
  BY <1>1, <1>2, FS_Subset, FS_CardinalityType

\* Type correctness is inductive: each step of the thread and of the node
\* leaves every variable in its type.
LEMMA TypeStep == TypeOK /\ [Next]_vars => TypeOK'
<1> SUFFICES ASSUME TypeOK, [Next]_vars PROVE TypeOK'
  OBVIOUS
<1>0. NTx \in Nat /\ NBatches \in Nat
  BY PlanAssumption
<1>1. CASE ReceiveStart
  BY <1>0, <1>1 DEF TypeOK, ReceiveStart, encoding, heights, node, thread
<1>2. CASE ReceiveBroken
  BY <1>0, <1>2 DEF TypeOK, ReceiveBroken, Send, encoding, heights, node, thread
<1>3. CASE WaitForNode
  BY <1>0, <1>3 DEF TypeOK, WaitForNode, Send, Fault, encoding, heights, node, thread
<1>4. CASE SkipTransaction
  <2>0. cursor \in 1..NTx /\ cursor' = cursor + 1
    BY <1>4 DEF SkipTransaction, Tx
  <2>1. cursor' \in 1..(NTx + 1) /\ nextIndex' \in Nat /\ btcSent' \subseteq Tx
    BY <1>0, <1>4, <2>0 DEF TypeOK, SkipTransaction
  <2> QED
    BY <1>4, <2>1 DEF TypeOK, SkipTransaction, heights, node
<1>5. CASE EncodeTransaction
  <2>1. Sender[cursor] \in Senders /\ cursor \in Tx
    BY <1>5, PlanAssumption DEF EncodeTransaction
  <2>2. NextNonce(cursor) \in Nat
    BY <2>1 DEF TypeOK, NextNonce
  <2>0. cursor \in 1..NTx /\ cursor' = cursor + 1
    BY <1>5 DEF EncodeTransaction, Tx
  <2>3. cursor' \in 1..(NTx + 1) /\ nextIndex' \in Nat
    BY <1>0, <1>5, <2>0 DEF TypeOK, EncodeTransaction
  <2>4. /\ nonce' \in [Tx -> Nat] /\ index' \in [Tx -> Nat]
        /\ status' \in [Tx -> Statuses]
    BY <1>5, <2>2 DEF TypeOK, EncodeTransaction, Statuses
  <2>5. /\ DOMAIN cachedNonces' \subseteq Senders
        /\ cachedNonces' \in [DOMAIN cachedNonces' -> Nat]
    BY <1>5, <2>1, <2>2 DEF TypeOK, EncodeTransaction
  <2> QED
    BY <1>5, <2>3, <2>4, <2>5 DEF TypeOK, EncodeTransaction, heights, node
<1>6. CASE EncodeError
  BY <1>0, <1>6 DEF TypeOK, EncodeError, Send, Fault, encoding, heights, node, thread
<1>7. CASE EncodeDone
  BY <1>0, <1>7 DEF TypeOK, EncodeDone, encoding, heights, node, thread
<1>8. CASE NextBatch
  BY <1>0, <1>8 DEF TypeOK, NextBatch, encoding, heights, node, thread
<1>9. CASE Complete
  BY <1>0, <1>9 DEF TypeOK, Complete, Send, encoding, heights, node, thread
<1>10. CASE PollEpoch
  BY <1>0, <1>10 DEF TypeOK, PollEpoch, encoding, heights, node, thread
<1>11. CASE PostTransaction
  <2>1. status' \in [Tx -> Statuses]
    BY <1>11 DEF TypeOK, PostTransaction, Statuses
  <2> QED
    BY <1>11, <2>1 DEF TypeOK, PostTransaction, encoding, heights
<1>12. CASE PostError
  <2>1. status' \in [Tx -> Statuses]
    BY <1>12 DEF TypeOK, PostError, Statuses
  <2> QED
    BY <1>12, <2>1 DEF TypeOK, PostError, Send, Fault, encoding, heights
<1>13. CASE PostDone
  BY <1>0, <1>13 DEF TypeOK, PostDone, encoding, heights, node, thread
<1>14. CASE GetInfo
  BY <1>0, <1>14 DEF TypeOK, GetInfo, encoding, heights, node, thread
<1>15. CASE CheckConfirms
  <2>1. status' \in [Tx -> Statuses]
    BY <1>15 DEF TypeOK, CheckConfirms, Statuses
  <2> QED
    BY <1>15, <2>1 DEF TypeOK, CheckConfirms, encoding, heights, node
<1>16. CASE CheckKeepsLooping
  BY <1>0, <1>16 DEF TypeOK, CheckKeepsLooping, encoding, heights, node, thread
<1>17. CASE ContractRequestFails
  BY <1>0, <1>17 DEF TypeOK, ContractRequestFails, Fault, encoding, heights, node, thread
<1>18. CASE NonceRequestFails
  BY <1>0, <1>18 DEF TypeOK, NonceRequestFails, Fault, encoding, heights, node, thread
<1>19. CASE EndPass
  <2>1. /\ batch' \in 1..(NBatches + 1) /\ lastStacks' \in Nat /\ lastBitcoin' \in Nat
        /\ pc' \in {"info", "next_batch"}
        /\ pc' = "info" => batch' \in 1..NBatches
    BY <1>0, <1>19 DEF TypeOK, EndPass
  <2> QED
    BY <1>19, <2>1 DEF TypeOK, EndPass, encoding, node
<1>20. CASE MineBitcoinBlock
  BY <1>0, <1>20 DEF TypeOK, MineBitcoinBlock, encoding, heights, node, thread
<1>21. CASE MineStacksBlock
  <2>1. PICK block \in SUBSET {n \in mempool : Includable(n)} :
          /\ mempool' = mempool \ block
          /\ included' = included \cup block
          /\ omissions' \in {omissions, omissions + 1}
          /\ chainNonce' = [x \in Senders |->
                chainNonce[x] + Cardinality({n \in block : Sender[n] = x})]
    BY <1>21 DEF MineStacksBlock
  <2>2. block \in SUBSET Tx
    BY <2>1 DEF TypeOK
  <2>3. chainNonce' \in [Senders -> Nat]
    <3>1. ASSUME NEW x \in Senders
          PROVE  chainNonce[x] + Cardinality({n \in block : Sender[n] = x}) \in Nat
      <4>1. Cardinality({n \in block : Sender[n] = x}) \in Nat
        BY <2>2, BlockCount
      <4> QED
        BY <4>1 DEF TypeOK
    <3> QED
      BY <2>1, <3>1
  <2> QED
    BY <1>21, <2>1, <2>2, <2>3 DEF TypeOK, MineStacksBlock, thread
<1>22. CASE ForeignTransaction
  <2>0. PICK s \in SharedSenders :
          /\ chainNonce' = [chainNonce EXCEPT ![s] = @ + 1]
          /\ mempool' \subseteq mempool
    BY <1>22 DEF ForeignTransaction
  <2>1. chainNonce' \in [Senders -> Nat] /\ mempool' \subseteq Tx /\ omissions' \in Nat
    BY <1>22, <2>0, NodeAssumption DEF TypeOK, ForeignTransaction
  <2> QED
    BY <1>22, <2>1 DEF TypeOK, ForeignTransaction, thread
<1>23. CASE UNCHANGED vars
  BY <1>23 DEF TypeOK, vars, thread, node
<1> QED
  BY <1>1, <1>2, <1>3, <1>4, <1>5, <1>6, <1>7, <1>8, <1>9, <1>10, <1>11, <1>12, <1>13, <1>14, <1>15, <1>16, <1>17, <1>18, <1>19, <1>20, <1>21, <1>22, <1>23 DEF Next, Deployer

\* A deployment thread that has just been spawned is in its type.
LEMMA InitTypeOK == Init => TypeOK
<1> SUFFICES ASSUME Init PROVE TypeOK
  OBVIOUS
<1>1. NTx \in Nat /\ NBatches \in Nat /\ InitNonce \in [Senders -> Nat]
  BY PlanAssumption, NodeAssumption
<1>2. status \in [Tx -> Statuses]
  BY DEF Init, Statuses
<1>3. cachedNonces \in [DOMAIN cachedNonces -> Nat] /\ DOMAIN cachedNonces \subseteq Senders
  BY DEF Init
<1>4. cursor \in 1..(NTx + 1) /\ batch \in 1..(NBatches + 1)
  BY <1>1 DEF Init
<1>5. index \in [Tx -> Nat] /\ nonce \in [Tx -> Nat] /\ chainNonce \in [Senders -> Nat]
  BY <1>1 DEF Init
<1>6. info \in [stacks : Nat, bitcoin : Nat] /\ keepLooping \in BOOLEAN
  BY DEF Init
<1> QED
  BY <1>2, <1>3, <1>4, <1>5, <1>6 DEF Init, TypeOK

\* Deployment is type correct, for every plan and every node.
THEOREM TypeCorrect == Spec => []TypeOK
  BY InitTypeOK, TypeStep, PTL DEF Spec

-----------------------------------------------------------------------------
\* The batch-order invariant is inductive.
LEMMA BatchStep == IInv /\ [Next]_vars => IInv'
<1> SUFFICES ASSUME IInv, [Next]_vars PROVE IInv'
  OBVIOUS
<1>a. TypeOK'
  BY TypeStep DEF IInv
<1>b. NTx \in Nat /\ NBatches \in Nat /\ BatchOf \in [Tx -> 1..NBatches]
  BY PlanAssumption
<1>c. TypeOK /\ EncodedInv /\ BatchInv /\ CheckInv /\ OutcomeInv
  BY DEF IInv
<1>d. /\ Tx = 1..NTx
      /\ \A n \in Tx : n \in Nat /\ BatchOf[n] \in Nat /\ BatchOf[n] >= 1 /\ BatchOf[n] <= NBatches
  BY <1>b DEF Tx
<1>e. /\ batch \in Nat /\ batch >= 1 /\ cursor \in Nat /\ pending \subseteq Tx
      /\ status \in [Tx -> Statuses] /\ keepLooping \in BOOLEAN
  BY <1>c, <1>b DEF TypeOK
<1>1. CASE ReceiveStart
  <2>1. EncodedInv'
    BY <1>c, <1>d, <1>e, <1>1 DEF EncodedInv, Submitting, Posted, ReceiveStart, encoding, heights, node, thread
  <2>2. BatchInv'
    BY <1>c, <1>d, <1>e, <1>1 DEF BatchInv, ReceiveStart, encoding, heights, node, thread
  <2>3. CheckInv'
    BY <1>c, <1>d, <1>e, <1>1 DEF CheckInv, ReceiveStart, encoding, heights, node, thread
  <2>4. OutcomeInv'
    BY <1>c, <1>d, <1>e, <1>1 DEF OutcomeInv, ReceiveStart, encoding, heights, node, thread
  <2> QED
    BY <1>a, <2>1, <2>2, <2>3, <2>4 DEF IInv
<1>2. CASE ReceiveBroken
  <2>1. EncodedInv'
    BY <1>c, <1>d, <1>e, <1>2 DEF EncodedInv, Submitting, Posted, ReceiveBroken, Send, encoding, heights, node, thread
  <2>2. BatchInv'
    BY <1>c, <1>d, <1>e, <1>2 DEF BatchInv, ReceiveBroken, Send, encoding, heights, node, thread
  <2>3. CheckInv'
    BY <1>c, <1>d, <1>e, <1>2 DEF CheckInv, ReceiveBroken, Send, encoding, heights, node, thread
  <2>4. OutcomeInv'
    BY <1>c, <1>d, <1>e, <1>2 DEF OutcomeInv, ReceiveBroken, Send, encoding, heights, node, thread
  <2> QED
    BY <1>a, <2>1, <2>2, <2>3, <2>4 DEF IInv
<1>3. CASE WaitForNode
  <2>1. EncodedInv'
    BY <1>c, <1>d, <1>e, <1>3 DEF EncodedInv, Submitting, Posted, WaitForNode, Send, Fault, encoding, heights, node, thread
  <2>2. BatchInv'
    BY <1>c, <1>d, <1>e, <1>3 DEF BatchInv, WaitForNode, Send, Fault, encoding, heights, node, thread
  <2>3. CheckInv'
    BY <1>c, <1>d, <1>e, <1>3 DEF CheckInv, WaitForNode, Send, Fault, encoding, heights, node, thread
  <2>4. OutcomeInv'
    BY <1>c, <1>d, <1>e, <1>3 DEF OutcomeInv, WaitForNode, Send, Fault, encoding, heights, node, thread
  <2> QED
    BY <1>a, <2>1, <2>2, <2>3, <2>4 DEF IInv
<1>4. CASE SkipTransaction
  <2>a. cursor \in Tx /\ cursor' = cursor + 1 /\ pc = "encode" /\ pc' = pc
    BY <1>4 DEF SkipTransaction
  <2>b. batch = 1 /\ cursor # NTx + 1
    BY <1>b, <1>c, <1>d, <1>e, <2>a DEF EncodedInv
  <2>c. IsPublish(cursor) => Contract[cursor] \in published
    BY <1>4 DEF SkipTransaction, IsPublish, IsEmulated
  <2>d. \A n \in Tx : n < cursor' => n < cursor \/ n = cursor
    BY <1>d, <1>e, <2>a
  <2>e. UNCHANGED <<status, batch, published>>
    BY <1>4 DEF SkipTransaction, node
  <2>1. EncodedInv'
    BY <1>c, <1>e, <2>a, <2>b, <2>c, <2>d, <2>e DEF EncodedInv, Submitting, Posted
  <2>2. BatchInv'
    BY <1>c, <1>d, <1>e, <1>4 DEF BatchInv, SkipTransaction, encoding, heights, node, thread
  <2>3. CheckInv'
    BY <1>c, <1>d, <1>e, <1>4 DEF CheckInv, SkipTransaction, encoding, heights, node, thread
  <2>4. OutcomeInv'
    BY <1>c, <1>d, <1>e, <1>4 DEF OutcomeInv, SkipTransaction, encoding, heights, node, thread
  <2> QED
    BY <1>a, <2>1, <2>2, <2>3, <2>4 DEF IInv
<1>5. CASE EncodeTransaction
  <2>a. cursor \in Tx /\ cursor' = cursor + 1 /\ pc = "encode" /\ pc' = pc
    BY <1>5 DEF EncodeTransaction
  <2>b. batch = 1 /\ cursor # NTx + 1
    BY <1>b, <1>c, <1>d, <1>e, <2>a DEF EncodedInv
  <2>c. \A n \in Tx : status'[n] = IF n = cursor THEN "Encoded" ELSE status[n]
    BY <1>e, <1>5 DEF EncodeTransaction
  <2>d. \A n \in Tx : n < cursor' => n < cursor \/ n = cursor
    BY <1>d, <1>e, <2>a
  <2>e. UNCHANGED <<batch, published>>
    BY <1>5 DEF EncodeTransaction, node
  <2>0. \A n \in Tx : BatchOf[n] < batch' => FALSE
    BY <1>d, <2>b, <2>e
  <2>1. EncodedInv'
    BY <1>c, <1>e, <2>a, <2>b, <2>c, <2>d, <2>e DEF EncodedInv, Submitting, Posted
  <2>2. BatchInv'
    BY <1>c, <1>d, <1>e, <1>5, <2>0 DEF BatchInv, EncodeTransaction, node
  <2>3. CheckInv'
    BY <1>c, <1>d, <1>e, <1>5 DEF CheckInv, EncodeTransaction, encoding, heights, node, thread
  <2>4. OutcomeInv'
    BY <1>c, <1>d, <1>e, <1>5 DEF OutcomeInv, EncodeTransaction, encoding, heights, node, thread
  <2> QED
    BY <1>a, <2>1, <2>2, <2>3, <2>4 DEF IInv
<1>6. CASE EncodeError
  <2>1. EncodedInv'
    BY <1>c, <1>d, <1>e, <1>6 DEF EncodedInv, Submitting, Posted, EncodeError, Send, Fault, encoding, heights, node, thread
  <2>2. BatchInv'
    BY <1>c, <1>d, <1>e, <1>6 DEF BatchInv, EncodeError, Send, Fault, encoding, heights, node, thread
  <2>3. CheckInv'
    BY <1>c, <1>d, <1>e, <1>6 DEF CheckInv, EncodeError, Send, Fault, encoding, heights, node, thread
  <2>4. OutcomeInv'
    BY <1>c, <1>d, <1>e, <1>6 DEF OutcomeInv, EncodeError, Send, Fault, encoding, heights, node, thread
  <2> QED
    BY <1>a, <2>1, <2>2, <2>3, <2>4 DEF IInv
<1>7. CASE EncodeDone
  <2>1. EncodedInv'
    BY <1>c, <1>d, <1>e, <1>7 DEF EncodedInv, Submitting, Posted, EncodeDone, encoding, heights, node, thread
  <2>2. BatchInv'
    BY <1>c, <1>d, <1>e, <1>7 DEF BatchInv, EncodeDone, encoding, heights, node, thread
  <2>3. CheckInv'
    BY <1>c, <1>d, <1>e, <1>7 DEF CheckInv, EncodeDone, encoding, heights, node, thread
  <2>4. OutcomeInv'
    BY <1>c, <1>d, <1>e, <1>7 DEF OutcomeInv, EncodeDone, encoding, heights, node, thread
  <2> QED
    BY <1>a, <2>1, <2>2, <2>3, <2>4 DEF IInv
<1>8. CASE NextBatch
  <2>1. EncodedInv'
    BY <1>c, <1>d, <1>e, <1>8 DEF EncodedInv, Submitting, Posted, NextBatch, encoding, heights, node, thread
  <2>2. BatchInv'
    BY <1>c, <1>d, <1>e, <1>8 DEF BatchInv, NextBatch, encoding, heights, node, thread
  <2>3. CheckInv'
    BY <1>c, <1>d, <1>e, <1>8 DEF CheckInv, NextBatch, encoding, heights, node, thread
  <2>4. OutcomeInv'
    BY <1>c, <1>d, <1>e, <1>8 DEF OutcomeInv, NextBatch, encoding, heights, node, thread
  <2> QED
    BY <1>a, <2>1, <2>2, <2>3, <2>4 DEF IInv
<1>9. CASE Complete
  <2>1. EncodedInv'
    BY <1>c, <1>d, <1>e, <1>9 DEF EncodedInv, Submitting, Posted, Complete, Send, encoding, heights, node, thread
  <2>2. BatchInv'
    BY <1>c, <1>d, <1>e, <1>9 DEF BatchInv, Complete, Send, encoding, heights, node, thread
  <2>3. CheckInv'
    BY <1>c, <1>d, <1>e, <1>9 DEF CheckInv, Complete, Send, encoding, heights, node, thread
  <2>4. OutcomeInv'
    BY <1>c, <1>d, <1>e, <1>9 DEF OutcomeInv, Complete, Send, encoding, heights, node, thread
  <2> QED
    BY <1>a, <2>1, <2>2, <2>3, <2>4 DEF IInv
<1>10. CASE PollEpoch
  <2>1. EncodedInv'
    BY <1>c, <1>d, <1>e, <1>10 DEF EncodedInv, Submitting, Posted, PollEpoch, encoding, heights, node, thread
  <2>2. BatchInv'
    BY <1>c, <1>d, <1>e, <1>10 DEF BatchInv, PollEpoch, encoding, heights, node, thread
  <2>3. CheckInv'
    BY <1>c, <1>d, <1>e, <1>10 DEF CheckInv, PollEpoch, encoding, heights, node, thread
  <2>4. OutcomeInv'
    BY <1>c, <1>d, <1>e, <1>10 DEF OutcomeInv, PollEpoch, encoding, heights, node, thread
  <2> QED
    BY <1>a, <2>1, <2>2, <2>3, <2>4 DEF IInv
<1>11. CASE PostTransaction
  <2>0. PICK n \in Tx : /\ BatchOf[n] = batch
                        /\ status' = [status EXCEPT ![n] = "Broadcasted"]
    BY <1>11 DEF PostTransaction, IsNextToPost
  <2>1. EncodedInv'
    BY <1>c, <1>d, <1>e, <1>11, <2>0 DEF EncodedInv, Submitting, Posted, PostTransaction, encoding
  <2>2. BatchInv'
    BY <1>c, <1>d, <1>e, <1>11 DEF BatchInv, PostTransaction, IsNextToPost, encoding, heights, node, thread
  <2>3. CheckInv'
    BY <1>c, <1>d, <1>e, <1>11 DEF CheckInv, PostTransaction, IsNextToPost, encoding, heights, node, thread
  <2>4. OutcomeInv'
    BY <1>c, <1>d, <1>e, <1>11 DEF OutcomeInv, PostTransaction, IsNextToPost, encoding, heights, node, thread
  <2> QED
    BY <1>a, <2>1, <2>2, <2>3, <2>4 DEF IInv
<1>12. CASE PostError
  <2>1. EncodedInv'
    BY <1>c, <1>d, <1>e, <1>12 DEF EncodedInv, Submitting, Posted, PostError, Send, Fault, IsNextToPost, encoding, heights, node, thread
  <2>2. BatchInv'
    BY <1>c, <1>d, <1>e, <1>12 DEF BatchInv, PostError, Send, Fault, IsNextToPost, encoding, heights, node, thread
  <2>3. CheckInv'
    BY <1>c, <1>d, <1>e, <1>12 DEF CheckInv, PostError, Send, Fault, IsNextToPost, encoding, heights, node, thread
  <2>4. OutcomeInv'
    BY <1>c, <1>d, <1>e, <1>12 DEF OutcomeInv, PostError, Send, Fault, IsNextToPost, encoding, heights, node, thread
  <2> QED
    BY <1>a, <2>1, <2>2, <2>3, <2>4 DEF IInv
<1>13. CASE PostDone
  <2>1. EncodedInv'
    BY <1>c, <1>d, <1>e, <1>13 DEF EncodedInv, Submitting, Posted, PostDone, encoding, heights, node, thread
  <2>2. BatchInv'
    BY <1>c, <1>d, <1>e, <1>13 DEF BatchInv, PostDone, encoding, heights, node, thread
  <2>3. CheckInv'
    BY <1>c, <1>d, <1>e, <1>13 DEF CheckInv, PostDone, encoding, heights, node, thread
  <2>4. OutcomeInv'
    BY <1>c, <1>d, <1>e, <1>13 DEF OutcomeInv, PostDone, encoding, heights, node, thread
  <2> QED
    BY <1>a, <2>1, <2>2, <2>3, <2>4 DEF IInv
<1>14. CASE GetInfo
  <2>1. EncodedInv'
    BY <1>c, <1>d, <1>e, <1>14 DEF EncodedInv, Submitting, Posted, GetInfo, encoding, heights, node, thread
  <2>2. BatchInv'
    BY <1>c, <1>d, <1>e, <1>14 DEF BatchInv, GetInfo, encoding, heights, node, thread
  <2>3. CheckInv'
    BY <1>c, <1>d, <1>e, <1>14 DEF CheckInv, GetInfo, encoding, heights, node, thread
  <2>4. OutcomeInv'
    BY <1>c, <1>d, <1>e, <1>14 DEF OutcomeInv, GetInfo, encoding, heights, node, thread
  <2> QED
    BY <1>a, <2>1, <2>2, <2>3, <2>4 DEF IInv
<1>15. CASE CheckConfirms
  <2>0. PICK n \in pending : /\ Confirmable(n)
                             /\ status' = [status EXCEPT ![n] = "Confirmed"]
    BY <1>15 DEF CheckConfirms
  <2>a. /\ n \in Tx /\ BatchOf[n] = batch
        /\ \A m \in Tx : status'[m] = IF m = n THEN "Confirmed" ELSE status[m]
    BY <1>c, <1>e, <1>15, <2>0 DEF CheckInv, CheckConfirms
  <2>1. EncodedInv'
    BY <1>c, <1>d, <1>e, <1>15, <2>a DEF EncodedInv, Submitting, Posted, CheckConfirms, encoding, node
  <2>2. BatchInv'
    BY <1>c, <1>d, <1>e, <1>15, <2>0 DEF BatchInv, CheckConfirms, Confirmable, IsPublish, IsNonceChecked, node
  <2>3. CheckInv'
    BY <1>c, <1>d, <1>e, <1>15 DEF CheckInv, CheckConfirms, Confirmable, encoding, heights, node, thread
  <2>4. OutcomeInv'
    BY <1>c, <1>d, <1>e, <1>15 DEF OutcomeInv, CheckConfirms, Confirmable, encoding, heights, node, thread
  <2> QED
    BY <1>a, <2>1, <2>2, <2>3, <2>4 DEF IInv
<1>16. CASE CheckKeepsLooping
  <2>1. EncodedInv'
    BY <1>c, <1>d, <1>e, <1>16 DEF EncodedInv, Submitting, Posted, CheckKeepsLooping, encoding, heights, node, thread
  <2>2. BatchInv'
    BY <1>c, <1>d, <1>e, <1>16 DEF BatchInv, CheckKeepsLooping, encoding, heights, node, thread
  <2>3. CheckInv'
    BY <1>c, <1>d, <1>e, <1>16 DEF CheckInv, CheckKeepsLooping, encoding, heights, node, thread
  <2>4. OutcomeInv'
    BY <1>c, <1>d, <1>e, <1>16 DEF OutcomeInv, CheckKeepsLooping, encoding, heights, node, thread
  <2> QED
    BY <1>a, <2>1, <2>2, <2>3, <2>4 DEF IInv
<1>17. CASE ContractRequestFails
  <2>1. EncodedInv'
    BY <1>c, <1>d, <1>e, <1>17 DEF EncodedInv, Submitting, Posted, ContractRequestFails, Fault, encoding, heights, node, thread
  <2>2. BatchInv'
    BY <1>c, <1>d, <1>e, <1>17 DEF BatchInv, ContractRequestFails, Fault, encoding, heights, node, thread
  <2>3. CheckInv'
    BY <1>c, <1>d, <1>e, <1>17 DEF CheckInv, ContractRequestFails, Fault, encoding, heights, node, thread
  <2>4. OutcomeInv'
    BY <1>c, <1>d, <1>e, <1>17 DEF OutcomeInv, ContractRequestFails, Fault, encoding, heights, node, thread
  <2> QED
    BY <1>a, <2>1, <2>2, <2>3, <2>4 DEF IInv
<1>18. CASE NonceRequestFails
  <2>1. EncodedInv'
    BY <1>c, <1>d, <1>e, <1>18 DEF EncodedInv, Submitting, Posted, NonceRequestFails, Fault, encoding, heights, node, thread
  <2>2. BatchInv'
    BY <1>c, <1>d, <1>e, <1>18 DEF BatchInv, NonceRequestFails, Fault, encoding, heights, node, thread
  <2>3. CheckInv'
    BY <1>c, <1>d, <1>e, <1>18 DEF CheckInv, NonceRequestFails, IsPublish, IsNonceChecked
  <2>4. OutcomeInv'
    BY <1>c, <1>d, <1>e, <1>18 DEF OutcomeInv, NonceRequestFails, Fault, encoding, heights, node, thread
  <2> QED
    BY <1>a, <2>1, <2>2, <2>3, <2>4 DEF IInv
<1>19. CASE EndPass
  <2>0. pc = "check" /\ pending = {} /\ pc' # "done" /\ UNCHANGED <<status, cursor, published>>
    BY <1>19 DEF EndPass, encoding, node
  <2>a. batch' = batch \/ (~keepLooping /\ batch' = batch + 1)
    BY <1>19 DEF EndPass
  <2>b. \A n \in Tx : BatchOf[n] < batch' => BatchOf[n] < batch \/ (~keepLooping /\ BatchOf[n] = batch)
    BY <1>d, <1>e, <2>a
  <2>1. EncodedInv'
    BY <1>c, <1>d, <1>e, <1>19, <2>0, <2>a DEF EncodedInv, Submitting, Posted, EndPass
  <2>2. BatchInv'
    BY <1>c, <1>e, <2>0, <2>b DEF BatchInv, CheckInv, Statuses
  <2>3. CheckInv'
    BY <1>c, <1>d, <1>e, <1>19 DEF CheckInv, EndPass, encoding, heights, node, thread
  <2>4. OutcomeInv'
    BY <1>c, <1>d, <1>e, <1>19 DEF OutcomeInv, EndPass, encoding, heights, node, thread
  <2> QED
    BY <1>a, <2>1, <2>2, <2>3, <2>4 DEF IInv
<1>20. CASE MineBitcoinBlock
  <2>1. EncodedInv'
    BY <1>c, <1>d, <1>e, <1>20 DEF EncodedInv, Submitting, Posted, MineBitcoinBlock, encoding, heights, node, thread
  <2>2. BatchInv'
    BY <1>c, <1>d, <1>e, <1>20 DEF BatchInv, MineBitcoinBlock, encoding, heights, node, thread
  <2>3. CheckInv'
    BY <1>c, <1>d, <1>e, <1>20 DEF CheckInv, MineBitcoinBlock, encoding, heights, node, thread
  <2>4. OutcomeInv'
    BY <1>c, <1>d, <1>e, <1>20 DEF OutcomeInv, MineBitcoinBlock, encoding, heights, node, thread
  <2> QED
    BY <1>a, <2>1, <2>2, <2>3, <2>4 DEF IInv
<1>21. CASE MineStacksBlock
  <2>1. EncodedInv'
    BY <1>c, <1>d, <1>e, <1>21 DEF EncodedInv, Submitting, Posted, MineStacksBlock, encoding, heights, node, thread
  <2>2. BatchInv'
    BY <1>c, <1>d, <1>e, <1>21 DEF BatchInv, MineStacksBlock, encoding, heights, node, thread
  <2>3. CheckInv'
    BY <1>c, <1>d, <1>e, <1>21 DEF CheckInv, MineStacksBlock, encoding, heights, node, thread
  <2>4. OutcomeInv'
    BY <1>c, <1>d, <1>e, <1>21 DEF OutcomeInv, MineStacksBlock, encoding, heights, node, thread
  <2> QED
    BY <1>a, <2>1, <2>2, <2>3, <2>4 DEF IInv
<1>22. CASE ForeignTransaction
  <2>1. EncodedInv'
    BY <1>c, <1>d, <1>e, <1>22 DEF EncodedInv, Submitting, Posted, ForeignTransaction, encoding, heights, node, thread
  <2>2. BatchInv'
    BY <1>c, <1>d, <1>e, <1>22 DEF BatchInv, ForeignTransaction, encoding, heights, node, thread
  <2>3. CheckInv'
    BY <1>c, <1>d, <1>e, <1>22 DEF CheckInv, ForeignTransaction, encoding, heights, node, thread
  <2>4. OutcomeInv'
    BY <1>c, <1>d, <1>e, <1>22 DEF OutcomeInv, ForeignTransaction, encoding, heights, node, thread
  <2> QED
    BY <1>a, <2>1, <2>2, <2>3, <2>4 DEF IInv
<1>23. CASE UNCHANGED vars
  BY <1>c, <1>23 DEF IInv, TypeOK, EncodedInv, BatchInv, CheckInv, OutcomeInv,
                     Submitting, vars, thread, node
<1> QED
  BY <1>1, <1>2, <1>3, <1>4, <1>5, <1>6, <1>7, <1>8, <1>9, <1>10, <1>11, <1>12, <1>13, <1>14, <1>15, <1>16, <1>17, <1>18, <1>19, <1>20, <1>21, <1>22, <1>23 DEF Next, Deployer

\* The batch-order invariant holds in every state of every deployment.
LEMMA BatchInvariant == Spec => []IInv
<1>1. Init => IInv
  <2> SUFFICES ASSUME Init PROVE IInv
    OBVIOUS
  <2>1. TypeOK
    BY InitTypeOK
  <2>2. EncodedInv
    BY PlanAssumption DEF Init, EncodedInv, Submitting, Posted, Tx
  <2>3. BatchInv /\ CheckInv /\ OutcomeInv
    BY PlanAssumption DEF Init, BatchInv, CheckInv, OutcomeInv, Tx
  <2> QED
    BY <2>1, <2>2, <2>3 DEF IInv
<1> QED
  BY <1>1, BatchStep, PTL DEF Spec

\* Whatever requests fail, when a transaction has been posted the node has the
\* contract of every publish of the earlier batches (the loop over the batches
\* in apply_on_chain_deployment), for every plan.
THEOREM PublishOrder == Spec => []PublishedBeforeNextBatch
<1>1. IInv => PublishedBeforeNextBatch
  <2> SUFFICES ASSUME IInv, NEW k \in Tx, NEW n \in Tx,
                      IsPublish(k), BatchOf[k] < BatchOf[n], status[n] \in Posted
               PROVE  Contract[k] \in published
    BY DEF PublishedBeforeNextBatch
  <2>0. NTx \in Nat /\ NBatches \in Nat /\ BatchOf \in [Tx -> 1..NBatches]
    BY PlanAssumption
  <2>1. k \in 1..NTx /\ BatchOf[k] \in Nat /\ BatchOf[n] \in Nat /\ batch \in Nat
    <3>1. TypeOK
      BY DEF IInv
    <3>2. batch \in Nat
      BY <2>0, <3>1 DEF TypeOK
    <3> QED
      BY <2>0, <3>2 DEF Tx
  <2>2. cursor = NTx + 1 /\ BatchOf[n] <= batch
    BY DEF IInv, EncodedInv
  <2>3. k < cursor /\ BatchOf[k] < batch
    BY <2>0, <2>1, <2>2
  <2>4. status[k] \in {"Queued", "Confirmed"}
    BY <2>3 DEF IInv, BatchInv
  <2> QED
    BY <2>3, <2>4 DEF IInv, BatchInv, EncodedInv
<1> QED
  BY <1>1, BatchInvariant, PTL

\* A deployment reported as completed has published every contract of its plan.
THEOREM CompletionIsPublication == Spec => []CompletedIsPublished
<1>1. IInv => CompletedIsPublished
  <2> SUFFICES ASSUME IInv, outcome = "DeploymentCompleted", NEW n \in Tx, IsPublish(n)
               PROVE  Contract[n] \in published
    BY DEF CompletedIsPublished
  <2>1. /\ n \in 1..NTx /\ NTx \in Nat /\ NBatches \in Nat
        /\ BatchOf[n] \in 1..NBatches
    BY PlanAssumption DEF Tx
  <2>2. batch = NBatches + 1
    BY DEF IInv, OutcomeInv
  <2>3. BatchOf[n] < batch
    BY <2>1, <2>2
  <2>4. status[n] \in {"Queued", "Confirmed"}
    BY <2>3 DEF IInv, BatchInv
  <2>5. n < cursor
    <3>1. cursor = NTx + 1
      BY <2>1, <2>2 DEF IInv, EncodedInv, OutcomeInv
    <3> QED
      BY <2>1, <3>1
  <2> QED
    BY <2>4, <2>5 DEF IInv, BatchInv, EncodedInv
<1> QED
  BY <1>1, BatchInvariant, PTL

-----------------------------------------------------------------------------
\* The epoch gate: a devnet transaction is only ever posted past the activation
\* height of its batch (the epoch loop of apply_on_chain_deployment).
LEMMA EpochStep == IInv /\ EpochInv /\ [Next]_vars => EpochInv'
<1> SUFFICES ASSUME IInv, EpochInv, [Next]_vars PROVE EpochInv'
  OBVIOUS
<1>0. TypeOK /\ CheckInv
  BY DEF IInv
<1>a. /\ AfterBitcoinBlock \in [1..NBatches -> Nat]
      /\ \A n \in Tx : BatchOf[n] \in 1..NBatches
  BY PlanAssumption
<1>b. curBitcoin \in Nat /\ burnTip \in Nat /\ status \in [Tx -> Statuses]
  BY <1>0 DEF TypeOK
<1>c. /\ \A n \in Tx : AfterBitcoinBlock[BatchOf[n]] \in Nat
      /\ pc \in {"epoch", "post"} => batch \in 1..NBatches /\ AfterBitcoinBlock[batch] \in Nat
  BY <1>0, <1>a DEF TypeOK
<1>1. CASE UNCHANGED <<status, curBitcoin, burnTip>> /\ pc' # "post"
  BY <1>1 DEF EpochInv, EpochReached
<1>2. CASE ReceiveStart \/ ReceiveBroken \/ WaitForNode \/ SkipTransaction
           \/ EncodeError \/ EncodeDone \/ Complete \/ PostDone \/ GetInfo
           \/ CheckKeepsLooping \/ ContractRequestFails
           \/ NonceRequestFails \/ EndPass
  BY <1>1, <1>2 DEF ReceiveStart, ReceiveBroken, WaitForNode, SkipTransaction,
        EncodeError, EncodeDone, Complete, PostDone, GetInfo,
        CheckKeepsLooping, ContractRequestFails, NonceRequestFails, EndPass,
        Send, heights, node
<1>3. CASE EncodeTransaction \/ PostError
  <2>1. /\ \A n \in Tx : status'[n] \in Posted => status[n] \in Posted
        /\ UNCHANGED <<curBitcoin, burnTip>> /\ pc' # "post"
    BY <1>3, <1>b DEF EncodeTransaction, PostError, Send, heights, node, Posted
  <2> QED
    BY <2>1 DEF EpochInv, EpochReached
<1>4. CASE NextBatch
  BY <1>4, <1>a, <1>b DEF NextBatch, EpochInv, EpochReached, heights, node
<1>5. CASE PollEpoch
  BY <1>5, <1>b, <1>c DEF PollEpoch, EpochInv, EpochReached, node
<1>6. CASE PostTransaction
  <2>1. PICK n \in Tx : BatchOf[n] = batch /\ status' = [status EXCEPT ![n] = "Broadcasted"]
    BY <1>6 DEF PostTransaction, IsNextToPost
  <2>2. UNCHANGED <<pc, batch, curBitcoin, burnTip>> /\ pc = "post"
    BY <1>6 DEF PostTransaction, heights
  <2>3. \A k \in Tx : status'[k] \in Posted => status[k] \in Posted \/ k = n
    BY <1>b, <2>1
  <2> QED
    BY <2>1, <2>2, <2>3 DEF EpochInv, EpochReached
<1>7. CASE CheckConfirms
  <2>1. /\ \A n \in Tx : status'[n] \in Posted => status[n] \in Posted
        /\ UNCHANGED <<curBitcoin, burnTip, pc>> /\ pc # "post"
    BY <1>0, <1>7, <1>b DEF CheckConfirms, CheckInv, Posted, heights, node
  <2> QED
    BY <2>1 DEF EpochInv, EpochReached
<1>8. CASE MineBitcoinBlock
  BY <1>8, <1>b, <1>c DEF MineBitcoinBlock, EpochInv, EpochReached, thread
<1>9. CASE MineStacksBlock \/ ForeignTransaction \/ UNCHANGED vars
  BY <1>9 DEF MineStacksBlock, ForeignTransaction, EpochInv, EpochReached, thread, vars, node
<1> QED
  BY <1>2, <1>3, <1>4, <1>5, <1>6, <1>7, <1>8, <1>9 DEF Next, Deployer

\* On a devnet no transaction is posted before the epoch of its batch is active,
\* for every plan and every activation height.
THEOREM EpochGate == Spec => []EpochReached
<1>1. Init => EpochInv
  BY DEF Init, EpochInv, EpochReached, Posted
<1>2. EpochInv => EpochReached
  BY DEF EpochInv
<1> QED
  BY <1>1, <1>2, BatchInvariant, EpochStep, PTL DEF Spec

-----------------------------------------------------------------------------
(* The nonces of an account.  encode_transactions numbers the transactions of  *)
(* an account without a hole from the nonce it reads, they are posted in the   *)
(* order of the plan, and one that the node no longer holds has its nonce      *)
(* spent: so what the node holds starts at the account's nonce.                *)

Tracks(n) == status[n] # "Queued"

\* The nonces given out.
NonceInv ==
    /\ \A n \in Tx : Tracks(n) =>
          /\ n < cursor /\ Sender[n] \in DOMAIN cachedNonces
          /\ nonce[n] < cachedNonces[Sender[n]]
    /\ \A s \in DOMAIN cachedNonces : \A k \in Nat :
          chainNonce[s] <= k /\ k < cachedNonces[s] =>
             \E m \in Tx : Tracks(m) /\ Sender[m] = s /\ nonce[m] = k
    /\ \A m, n \in Tx : Tracks(m) /\ Tracks(n) /\ Sender[m] = Sender[n] /\ m < n =>
          nonce[m] < nonce[n]

\* The order of the posts.
PostInv ==
    /\ \A m, n \in Tx : m < n /\ Tracks(m) /\ Tracks(n) /\ status[n] # "Encoded" =>
          status[m] \in Posted
    /\ \A n \in Tx : BatchOf[n] < batch => status[n] # "Encoded"

\* What was posted is in the mempool until its nonce is spent.
MempoolInv ==
    /\ \A n \in mempool : status[n] \in Posted \cup {"Error"}
                          /\ nonce[n] >= chainNonce[Sender[n]]
    /\ \A n \in Tx : status[n] \in Posted =>
          n \in mempool \/ nonce[n] < chainNonce[Sender[n]]

\* The inductive invariant behind the nonces.
GapInv == NonceInv /\ PostInv /\ MempoolInv

\* Two transactions of an account with the same nonce are the same.
LEMMA NoncesDiffer ==
    ASSUME TypeOK, NonceInv, NEW m \in Tx, NEW n \in Tx, Tracks(m), Tracks(n),
           Sender[m] = Sender[n], nonce[m] = nonce[n]
    PROVE  m = n
<1>1. m \in Nat /\ n \in Nat /\ nonce[m] \in Nat /\ nonce[n] \in Nat
  <2>1. m \in Nat /\ n \in Nat
    BY PlanAssumption DEF Tx
  <2>2. QED  BY <2>1 DEF TypeOK
<1>2. ~(m < n) /\ ~(n < m)
  BY <1>1 DEF NonceInv
<1>3. QED  BY <1>1, <1>2

LEMMA Held ==
    ASSUME TypeOK, MempoolInv, NEW n \in mempool
    PROVE  /\ n \in Tx /\ Tracks(n) /\ Sender[n] \in Senders
           /\ nonce[n] \in Nat /\ chainNonce[Sender[n]] \in Nat
           /\ nonce[n] >= chainNonce[Sender[n]] /\ status[n] # "Encoded"
<1>1. n \in Tx /\ Sender[n] \in Senders
  BY PlanAssumption DEF TypeOK
<1>2. QED  BY <1>1 DEF TypeOK, MempoolInv, Tracks, Posted

\* The invariant leaves no hole.
LEMMA NoHole ==
    ASSUME TypeOK, GapInv
    PROVE  NoNonceGap
<1> SUFFICES ASSUME NEW n \in mempool PROVE Includable(n)
  BY DEF NoNonceGap
<1>1. /\ n \in Tx /\ Tracks(n) /\ Sender[n] \in Senders
      /\ nonce[n] \in Nat /\ chainNonce[Sender[n]] \in Nat
      /\ nonce[n] >= chainNonce[Sender[n]] /\ status[n] # "Encoded"
  BY Held DEF GapInv
<1>2. /\ Sender[n] \in DOMAIN cachedNonces /\ nonce[n] < cachedNonces[Sender[n]]
      /\ cachedNonces[Sender[n]] \in Nat
  BY <1>1 DEF GapInv, NonceInv, TypeOK
<1>3. ASSUME NEW k \in chainNonce[Sender[n]]..nonce[n]
      PROVE  \E m \in mempool : Sender[m] = Sender[n] /\ nonce[m] = k
  <2>1. k \in Nat /\ chainNonce[Sender[n]] <= k /\ k <= nonce[n]
        /\ k < cachedNonces[Sender[n]]
    BY <1>1, <1>2
  <2>2. PICK m \in Tx : Tracks(m) /\ Sender[m] = Sender[n] /\ nonce[m] = k
    BY <2>1, <1>2 DEF GapInv, NonceInv
  <2>3. m \in Nat /\ n \in Nat
    BY <1>1, <2>2, PlanAssumption DEF Tx
  <2>4. CASE m = n
    BY <2>2, <2>4
  <2>5. CASE m < n
    <3>1. status[m] \in Posted
      BY <1>1, <2>2, <2>5 DEF GapInv, PostInv
    <3>2. m \in mempool \/ nonce[m] < chainNonce[Sender[m]]
      BY <3>1 DEF GapInv, MempoolInv
    <3>3. ~(k < chainNonce[Sender[n]])
      BY <1>1, <2>1
    <3>4. QED  BY <2>2, <3>2, <3>3
  <2>6. CASE n < m
    <3>1. nonce[n] < nonce[m]
      BY <1>1, <2>2, <2>6 DEF GapInv, NonceInv
    <3>2. QED  BY <3>1, <2>1, <2>2, <1>1
  <2>7. QED  BY <2>3, <2>4, <2>5, <2>6
<1>4. QED  BY <1>1, <1>3 DEF Includable

\* A non-empty set of naturals has a least element.
LEMMA LeastNatural ==
    ASSUME NEW S \in SUBSET Nat, S # {}
    PROVE  \E m \in S : \A n \in S : m <= n
<1> DEFINE R == {ss \in Nat \X Nat : ss[1] < ss[2]}
<1>1. IsWellFoundedOn(R, Nat)
  BY NatLessThanWellFounded, Zenon DEF OpToRel
<1>2. PICK m \in S : \A n \in S : ~(<<n, m>> \in R)
  <2> HIDE DEF R
  <2> QED  BY <1>1, WFMin, Zenon
<1>3. \A n \in S : <<n, m>> \in Nat \X Nat /\ <<n, m>>[1] = n /\ <<n, m>>[2] = m
  OBVIOUS
<1>4. ASSUME NEW n \in S PROVE ~(n < m)
  BY <1>2, <1>3, Zenon
<1>5. QED  BY <1>4

\* A block of an account's transactions moves its nonce to the first one that the
\* block leaves in the mempool.
LEMMA BlockSpends ==
    ASSUME TypeOK, GapInv, NEW block \in SUBSET mempool, NEW s \in Senders,
           \A n \in block, m \in mempool :
              Includable(m) /\ Sender[m] = Sender[n] /\ nonce[m] < nonce[n] => m \in block
    PROVE  \A n \in mempool : Sender[n] = s =>
              (n \in block <=>
                  nonce[n] < chainNonce[s] + Cardinality({m \in block : Sender[m] = s}))
<1> DEFINE B == {n \in block : Sender[n] = s}
           N == chainNonce[s]
           free == {k \in Nat : N <= k /\ \A n \in B : nonce[n] # k}
<1>1. N \in Nat /\ B \in SUBSET mempool
  BY DEF TypeOK
<1>2. \A n \in mempool : Includable(n)
  BY NoHole DEF NoNonceGap
<1>3. \A n \in mempool : n \in Tx /\ Tracks(n) /\ nonce[n] \in Nat
                         /\ nonce[n] >= chainNonce[Sender[n]]
  BY Held DEF GapInv
<1>4. \A n \in mempool : Sender[n] \in DOMAIN cachedNonces
                         /\ nonce[n] < cachedNonces[Sender[n]]
                         /\ cachedNonces[Sender[n]] \in Nat
  BY <1>3 DEF GapInv, NonceInv, TypeOK
<1>5. free # {}
  <2>1. CASE B = {}
    BY <2>1, <1>1
  <2>2. CASE B # {}
    <3>1. PICK b \in B : TRUE
      BY <2>2
    <3>2. cachedNonces[s] \in Nat /\ \A n \in B : nonce[n] < cachedNonces[s] /\ nonce[n] \in Nat
      BY <3>1, <1>1, <1>3, <1>4
    <3> HIDE DEF N, B
    <3>3. N + cachedNonces[s] \in Nat /\ N <= N + cachedNonces[s]
          /\ \A n \in B : nonce[n] # N + cachedNonces[s]
      BY <3>2, <1>1
    <3>4. QED  BY <3>3
  <2>3. QED  BY <2>1, <2>2
<1>6. PICK g \in free : \A k \in free : g <= k
  <2>1. free \in SUBSET Nat
    OBVIOUS
  <2> HIDE DEF free
  <2>2. QED  BY <2>1, <1>5, LeastNatural
<1>7. g \in Nat /\ N <= g /\ \A n \in B : nonce[n] # g
  BY <1>6
<1>8. ASSUME NEW k \in N..(g - 1) PROVE \E n \in B : nonce[n] = k
  <2>1. k \in Nat /\ N <= k /\ ~(g <= k)
    BY <1>1, <1>7
  <2>2. k \notin free
    BY <2>1, <1>6
  <2>3. QED  BY <2>1, <2>2
<1> HIDE DEF free
<1>9. ASSUME NEW n \in B PROVE nonce[n] \in N..(g - 1)
  <2>1. n \in block /\ n \in mempool /\ Sender[n] = s /\ nonce[n] \in Nat /\ N <= nonce[n]
    BY <1>1, <1>3
  <2>2. CASE g < nonce[n]
    <3>1. g \in chainNonce[Sender[n]]..nonce[n]
      BY <2>1, <2>2, <1>1, <1>7
    <3>2. PICK m \in mempool : Sender[m] = Sender[n] /\ nonce[m] = g
      BY <2>1, <3>1, <1>2 DEF Includable
    <3>3. m \in block
      BY <2>1, <2>2, <3>2, <1>2
    <3>4. QED  BY <3>2, <3>3, <2>1, <1>7
  <2>3. nonce[n] # g
    BY <1>7
  <2>4. QED  BY <2>1, <2>2, <2>3, <1>1, <1>7
<1>10. Cardinality(B) = g - N
  <2> DEFINE f == [n \in B |-> nonce[n]]
  <2>1. f \in [B -> N..(g - 1)]
    BY <1>9
  <2>2. ASSUME NEW m \in B, NEW n \in B, f[m] = f[n] PROVE m = n
    <3>1. /\ m \in Tx /\ n \in Tx /\ Tracks(m) /\ Tracks(n)
          /\ Sender[m] = Sender[n] /\ nonce[m] = nonce[n]
      BY <2>2, <1>1, <1>3
    <3>2. QED  BY <3>1, NoncesDiffer DEF GapInv
  <2>3. \A k \in N..(g - 1) : \E n \in B : f[n] = k
    BY <1>8
  <2> HIDE DEF f, B, N
  <2>4. f \in Bijection(B, N..(g - 1))
    BY <2>1, <2>2, <2>3 DEF Bijection, Injection, Surjection, IsInjective
  <2>5. ExistsBijection(B, N..(g - 1))
    BY <2>4 DEF ExistsBijection
  <2>6. IsFiniteSet(B)
    <3>1. IsFiniteSet(Tx) /\ B \subseteq Tx
      BY FS_Interval, PlanAssumption, <1>1, <1>3 DEF Tx
    <3>2. QED  BY <3>1, FS_Subset
  <2>7. Cardinality(N..(g - 1)) = Cardinality(B)
    BY <2>5, <2>6, FS_Bijection
  <2>8. Cardinality(N..(g - 1)) = IF N > g - 1 THEN 0 ELSE (g - 1) - N + 1
    BY <1>1, <1>7, FS_Interval
  <2>9. QED  BY <2>7, <2>8, <1>1, <1>7
<1>11. ASSUME NEW n \in mempool, Sender[n] = s PROVE n \in block <=> nonce[n] < g
  <2>1. n \in block => nonce[n] < g
    BY <1>1, <1>7, <1>9, <1>11
  <2>2. ASSUME nonce[n] < g PROVE n \in block
    <3>1. nonce[n] \in N..(g - 1) /\ n \in Tx /\ Tracks(n)
      BY <2>2, <1>1, <1>3, <1>7, <1>11
    <3>2. PICK m \in B : nonce[m] = nonce[n]
      BY <3>1, <1>8
    <3>3. m \in Tx /\ Tracks(m) /\ Sender[m] = Sender[n] /\ m \in block
      BY <1>1, <1>3, <1>11
    <3>4. m = n
      BY <3>1, <3>2, <3>3, NoncesDiffer DEF GapInv
    <3>5. QED  BY <3>3, <3>4
  <2>3. QED  BY <2>1, <2>2
<1>12. chainNonce[s] + Cardinality(B) = g
  BY <1>1, <1>7, <1>10
<1>13. QED  BY <1>11, <1>12

LEMMA GapStep == IInv /\ GapInv /\ [Next]_vars => GapInv'
<1> SUFFICES ASSUME IInv, GapInv, [Next]_vars PROVE GapInv'
  OBVIOUS
<1>a. TypeOK /\ EncodedInv /\ BatchInv /\ CheckInv /\ NonceInv /\ PostInv /\ MempoolInv
  BY DEF IInv, GapInv
<1>b. /\ status \in [Tx -> Statuses] /\ nonce \in [Tx -> Nat] /\ mempool \in SUBSET Tx
      /\ chainNonce \in [Senders -> Nat] /\ Sender \in [Tx -> Senders]
      /\ cachedNonces \in [DOMAIN cachedNonces -> Nat] /\ DOMAIN cachedNonces \subseteq Senders
  BY <1>a, PlanAssumption DEF TypeOK
<1>c. NTx \in Nat /\ Tx \in SUBSET Nat /\ cursor \in Nat /\ batch \in Nat
  BY <1>a, PlanAssumption DEF TypeOK, Tx
<1>1. CASE UNCHANGED <<status, nonce, cachedNonces, chainNonce, mempool, cursor, batch>>
  BY <1>1, <1>a DEF GapInv, NonceInv, PostInv, MempoolInv, Tracks, Posted
<1>2. CASE SkipTransaction
  <2>1. /\ status' = status /\ nonce' = nonce /\ cachedNonces' = cachedNonces
        /\ chainNonce' = chainNonce /\ mempool' = mempool /\ batch' = batch
        /\ cursor' = cursor + 1
    BY <1>2 DEF SkipTransaction, node
  <2>2. NonceInv'
    BY <2>1, <1>a, <1>c DEF NonceInv, Tracks
  <2>3. PostInv' /\ MempoolInv'
    BY <2>1, <1>a DEF PostInv, MempoolInv, Tracks, Posted
  <2>4. QED  BY <2>2, <2>3 DEF GapInv
<1>3. CASE EncodeTransaction
  <2>a. cursor \in Tx /\ Sender[cursor] \in Senders
    BY <1>3, <1>b DEF EncodeTransaction
  <2>b. NextNonce(cursor) \in Nat
    BY <2>a, <1>b DEF NextNonce
  <2>c. PICK c \in Tx, s \in Senders, k \in Nat :
           c = cursor /\ s = Sender[c] /\ k = NextNonce(c)
    BY <2>a, <2>b
  <2>1. /\ cursor = c /\ cursor' = c + 1 /\ Sender[c] = s
        /\ chainNonce' = chainNonce /\ mempool' = mempool /\ batch' = batch
        /\ nonce' = [nonce EXCEPT ![c] = k]
        /\ cachedNonces' = [t \in DOMAIN cachedNonces \cup {s} |->
              IF t = s THEN k + 1 ELSE cachedNonces[t]]
        /\ status' = [status EXCEPT ![c] = "Encoded"]
    BY <1>3, <2>c DEF EncodeTransaction, node
  <2>2. /\ s \in DOMAIN cachedNonces => k = cachedNonces[s]
        /\ s \notin DOMAIN cachedNonces => k = chainNonce[s]
    BY <2>c DEF NextNonce
  <2>3. \A n \in Tx : Tracks(n) => n < c /\ status[n] = "Encoded"
    <3>1. ASSUME NEW n \in Tx, Tracks(n) PROVE n < c /\ status[n] = "Encoded"
      <4>1. n < c
        BY <3>1, <2>1, <1>a DEF NonceInv
      <4>2. status[n] # "Error"
        BY <1>3, <1>a DEF BatchInv, EncodeTransaction
      <4>3. cursor # NTx + 1
        BY <2>1, <1>c DEF Tx
      <4>4. status[n] \notin Posted
        BY <4>3, <1>a DEF EncodedInv
      <4>5. QED  BY <3>1, <4>1, <4>2, <4>4, <1>b DEF Tracks, Statuses, Posted
    <3>2. QED  BY <3>1
  <2>4. \A n \in Tx : n # c => /\ status'[n] = status[n] /\ nonce'[n] = nonce[n]
                               /\ Tracks(n)' <=> Tracks(n)
    BY <2>1, <1>b DEF Tracks
  <2>5. status'[c] = "Encoded" /\ nonce'[c] = k /\ Tracks(c)'
        /\ cachedNonces'[s] = k + 1 /\ s \in DOMAIN cachedNonces'
    BY <2>1, <1>b DEF Tracks
  <2>6. \A n \in Tx : Tracks(n) /\ Sender[n] = s => s \in DOMAIN cachedNonces /\ nonce[n] < k
    BY <2>2, <1>a DEF NonceInv
  <2>7. ~Tracks(c)
    BY <2>1, <2>3, <1>c
  <2>8. NonceInv'
    <3>1. ASSUME NEW n \in Tx, Tracks(n)'
          PROVE  /\ n < cursor' /\ Sender[n] \in DOMAIN cachedNonces'
                 /\ nonce'[n] < cachedNonces'[Sender[n]]
      <4>1. CASE n = c
        BY <4>1, <2>1, <2>2, <2>5, <1>c
      <4>2. CASE n # c
        <5>1. /\ Tracks(n) /\ n < c /\ nonce'[n] = nonce[n]
              /\ Sender[n] \in DOMAIN cachedNonces /\ nonce[n] < cachedNonces[Sender[n]]
          BY <3>1, <4>2, <2>3, <2>4, <1>a DEF NonceInv
        <5>2. nonce[n] \in Nat /\ n \in Nat
          BY <1>b, <1>c
        <5>3. CASE Sender[n] = s
          BY <5>1, <5>2, <5>3, <2>1, <2>2, <2>5, <2>6, <1>c
        <5>4. CASE Sender[n] # s
          BY <5>1, <5>2, <5>4, <2>1, <1>c
        <5>5. QED  BY <5>3, <5>4
      <4>3. QED  BY <4>1, <4>2
    <3>2. ASSUME NEW t \in DOMAIN cachedNonces', NEW j \in Nat, chainNonce'[t] <= j,
                 j < cachedNonces'[t]
          PROVE  \E m \in Tx : Tracks(m)' /\ Sender[m] = t /\ nonce'[m] = j
      <4>1. ASSUME t \in DOMAIN cachedNonces, j < cachedNonces[t]
            PROVE  \E m \in Tx : Tracks(m)' /\ Sender[m] = t /\ nonce'[m] = j
        <5>1. PICK m \in Tx : Tracks(m) /\ Sender[m] = t /\ nonce[m] = j
          BY <4>1, <3>2, <2>1, <1>a DEF NonceInv
        <5>2. QED  BY <5>1, <2>4, <2>7
      <4>2. CASE t # s
        BY <4>1, <4>2, <3>2, <2>1
      <4>3. CASE t = s /\ j = k
        BY <4>3, <2>1, <2>5
      <4>4. CASE t = s /\ j # k
        <5>1. j < k
          BY <4>4, <3>2, <2>2, <2>5
        <5>2. s \in DOMAIN cachedNonces
          BY <5>1, <4>4, <3>2, <2>1, <2>2, <1>b
        <5>3. QED  BY <5>1, <5>2, <4>1, <4>4, <2>2
      <4>5. QED  BY <4>2, <4>3, <4>4
    <3>3. ASSUME NEW m \in Tx, NEW n \in Tx, Tracks(m)', Tracks(n)', Sender[m] = Sender[n], m < n
          PROVE  nonce'[m] < nonce'[n]
      <4>1. CASE n = c
        <5>1. m # c
          BY <4>1, <3>3, <1>c
        <5>2. Tracks(m) /\ nonce'[m] = nonce[m]
          BY <5>1, <3>3, <2>4
        <5>3. nonce[m] < k /\ nonce'[n] = k
          BY <5>2, <4>1, <3>3, <2>1, <2>5, <2>6
        <5>4. QED  BY <5>2, <5>3
      <4>2. CASE n # c /\ m = c
        BY <4>2, <3>3, <2>3, <2>4, <1>c
      <4>3. CASE n # c /\ m # c
        BY <4>3, <3>3, <2>4, <1>a DEF NonceInv
      <4>4. QED  BY <4>1, <4>2, <4>3
    <3>4. QED  BY <3>1, <3>2, <3>3 DEF NonceInv
  <2>9. PostInv'
    <3>1. ASSUME NEW m \in Tx, NEW n \in Tx, Tracks(n)', status'[n] # "Encoded"
          PROVE  FALSE
      BY <3>1, <2>3, <2>4, <2>5
    <3>2. cursor # NTx + 1
      BY <2>1, <1>c DEF Tx
    <3>3. batch = 1
      BY <3>2, <1>a, <1>c DEF EncodedInv, TypeOK
    <3>4. \A n \in Tx : ~(BatchOf[n] < 1)
      BY PlanAssumption
    <3>5. QED  BY <3>1, <3>3, <3>4, <2>1 DEF PostInv
  <2>10. MempoolInv'
    BY <2>1, <2>3, <2>4, <2>5, <2>7, <1>a, <1>b DEF MempoolInv, Tracks, Posted
  <2>11. QED  BY <2>8, <2>9, <2>10 DEF GapInv
<1>4. ASSUME NEW n \in Tx, IsNextToPost(n), pc = "post", NEW s, s \in {"Broadcasted", "Error"},
             status' = [status EXCEPT ![n] = s],
             \/ Accepts(n) /\ mempool' = mempool \cup {n}
             \/ s = "Error" /\ mempool' = mempool,
             UNCHANGED <<nonce, cachedNonces, chainNonce, cursor, batch>>
      PROVE  GapInv'
  <2>1. status[n] = "Encoded" /\ BatchOf[n] = batch
    BY <1>4 DEF IsNextToPost
  <2>2. \A m \in Tx : /\ m # n => status'[m] = status[m]
                      /\ Tracks(m)' <=> Tracks(m)
    BY <1>4, <2>1, <1>b DEF Tracks
  <2>3. status'[n] = s
    BY <1>4, <1>b
  <2>4. NonceInv'
    BY <2>2, <1>4, <1>a DEF NonceInv
  <2>5. ASSUME NEW m \in Tx, m < n, Tracks(m) PROVE status[m] \in Posted
    <3>1. status[m] # "Encoded"
      <4>1. BatchOf[m] \in Nat /\ BatchOf[m] <= BatchOf[n]
        <5>1. m <= n /\ BatchOf[m] \in 1..NBatches /\ NBatches \in Nat
          BY <2>5, <1>c, PlanAssumption
        <5>2. QED  BY <5>1, PlanOrderAssumption
      <4>2. CASE BatchOf[m] < batch
        BY <4>2, <1>a DEF PostInv
      <4>3. CASE BatchOf[m] = batch
        <5>1. status[m] = "Encoded" => n <= m
          BY <4>3, <1>4 DEF IsNextToPost
        <5>2. QED  BY <5>1, <2>5, <1>c
      <4>4. QED  BY <4>1, <4>2, <4>3, <2>1, <1>c
    <3>2. status[m] # "Error"
      BY <1>4, <1>a DEF BatchInv
    <3>3. QED  BY <3>1, <3>2, <2>5, <1>b DEF Tracks, Statuses, Posted
  <2>6. PostInv'
    <3>1. ASSUME NEW l \in Tx, NEW m \in Tx, l < m, Tracks(l)', Tracks(m)', status'[m] # "Encoded"
          PROVE  status'[l] \in Posted
      <4>1. CASE m = n
        BY <4>1, <3>1, <2>2, <2>5, <1>c
      <4>2. CASE m # n
        <5>1. status[l] \in Posted
          BY <4>2, <3>1, <2>2, <1>a DEF PostInv
        <5>2. l # n
          BY <5>1, <2>1 DEF Posted
        <5>3. QED  BY <5>1, <5>2, <2>2
      <4>3. QED  BY <4>1, <4>2
    <3>2. ASSUME NEW m \in Tx, BatchOf[m] < batch' PROVE status'[m] # "Encoded"
      BY <3>2, <2>2, <2>3, <1>4, <1>a DEF PostInv
    <3>3. QED  BY <3>1, <3>2 DEF PostInv
  <2>7. MempoolInv'
    <3>1. ASSUME NEW m \in mempool'
          PROVE  status'[m] \in Posted \cup {"Error"} /\ nonce'[m] >= chainNonce'[Sender[m]]
      <4>1. CASE m \in mempool
        <5>1. m # n
          BY <4>1, <2>1, <1>a DEF MempoolInv, Posted
        <5>2. QED  BY <4>1, <5>1, <2>2, <1>4, <1>a, <1>b DEF MempoolInv
      <4>2. CASE m = n /\ Accepts(n)
        BY <4>2, <2>3, <1>4 DEF Accepts, Posted
      <4>3. QED  BY <4>1, <4>2, <3>1, <1>4
    <3>2. ASSUME NEW m \in Tx, status'[m] \in Posted
          PROVE  m \in mempool' \/ nonce'[m] < chainNonce'[Sender[m]]
      <4>1. CASE m = n
        BY <4>1, <3>2, <2>3, <1>4 DEF Posted
      <4>2. CASE m # n
        BY <4>2, <3>2, <2>2, <1>4, <1>a DEF MempoolInv
      <4>3. QED  BY <4>1, <4>2
    <3>3. QED  BY <3>1, <3>2 DEF MempoolInv
  <2>8. QED  BY <2>4, <2>6, <2>7 DEF GapInv
<1>5. CASE PostTransaction
  <2>1. PICK n \in Tx : /\ IsNextToPost(n) /\ Accepts(n) /\ mempool' = mempool \cup {n}
                        /\ status' = [status EXCEPT ![n] = "Broadcasted"]
    BY <1>5 DEF PostTransaction
  <2>2. pc = "post" /\ UNCHANGED <<nonce, cachedNonces, chainNonce, cursor, batch>>
    BY <1>5 DEF PostTransaction, encoding
  <2>3. QED  BY <2>1, <2>2, <1>4
<1>6. CASE PostError
  <2>1. PICK n \in Tx : /\ IsNextToPost(n)
                        /\ \/ mempool' = mempool
                           \/ Accepts(n) /\ mempool' = mempool \cup {n}
                        /\ status' = [status EXCEPT ![n] = "Error"]
    BY <1>6, Zenon DEF PostError
  <2>2. pc = "post" /\ UNCHANGED <<nonce, cachedNonces, chainNonce, cursor, batch>>
    BY <1>6 DEF PostError, encoding
  <2>3. QED  BY <2>1, <2>2, <1>4
<1>7. CASE CheckConfirms
  <2>1. PICK n \in pending : status' = [status EXCEPT ![n] = "Confirmed"]
    BY <1>7 DEF CheckConfirms
  <2>2. n \in Tx /\ status[n] = "Broadcasted"
    BY <1>7, <1>a DEF CheckInv, CheckConfirms, TypeOK
  <2>3. UNCHANGED <<nonce, cachedNonces, chainNonce, mempool, cursor, batch>>
    BY <1>7 DEF CheckConfirms, encoding, node
  <2>4. \A m \in Tx : /\ Tracks(m)' <=> Tracks(m)
                      /\ status'[m] \in Posted <=> status[m] \in Posted
                      /\ status'[m] = "Encoded" <=> status[m] = "Encoded"
                      /\ status'[m] = "Error" <=> status[m] = "Error"
    BY <2>1, <2>2, <1>b DEF Tracks, Posted
  <2>5. NonceInv'
    BY <2>3, <2>4, <1>a DEF NonceInv
  <2>6. PostInv'
    BY <2>3, <2>4, <1>a DEF PostInv
  <2>7. MempoolInv'
    BY <2>3, <2>4, <1>a, <1>b DEF MempoolInv
  <2>8. QED  BY <2>5, <2>6, <2>7 DEF GapInv
<1>8. CASE EndPass
  <2>1. UNCHANGED <<status, nonce, cachedNonces, chainNonce, mempool, cursor>>
        /\ batch' \in {batch, batch + 1} /\ pc = "check"
    BY <1>8 DEF EndPass, encoding, node
  <2>2. NonceInv' /\ MempoolInv'
    BY <2>1, <1>a DEF NonceInv, MempoolInv, Tracks, Posted
  <2>3. ASSUME NEW n \in Tx, BatchOf[n] < batch' PROVE status[n] # "Encoded"
    <3>1. BatchOf[n] \in Nat
      BY PlanAssumption
    <3>2. BatchOf[n] < batch \/ BatchOf[n] = batch
      BY <2>1, <2>3, <3>1, <1>c
    <3>3. QED  BY <2>1, <3>2, <1>a DEF PostInv, CheckInv
  <2>4. PostInv'
    BY <2>1, <2>3, <1>a DEF PostInv, Tracks, Posted
  <2>5. QED  BY <2>2, <2>4 DEF GapInv
<1>9. ASSUME UNCHANGED <<status, nonce, cachedNonces, cursor, batch>>,
             chainNonce' \in [Senders -> Nat], mempool' \in SUBSET mempool,
             \A s \in Senders : chainNonce[s] <= chainNonce'[s],
             \A n \in mempool : n \in mempool' <=> nonce[n] >= chainNonce'[Sender[n]]
      PROVE  GapInv'
  <2>1. NonceInv'
    <3>1. ASSUME NEW s \in DOMAIN cachedNonces, NEW k \in Nat, chainNonce'[s] <= k
          PROVE  chainNonce[s] <= k
      <4>1. s \in Senders /\ chainNonce[s] \in Nat /\ chainNonce'[s] \in Nat
        BY <1>9, <1>b
      <4>2. QED  BY <4>1, <3>1, <1>9
    <3>2. QED  BY <3>1, <1>9, <1>a DEF NonceInv, Tracks
  <2>2. PostInv'
    BY <1>9, <1>a DEF PostInv, Tracks, Posted
  <2>3. MempoolInv'
    <3>1. \A n \in Tx : /\ nonce[n] \in Nat /\ Sender[n] \in Senders
                        /\ chainNonce[Sender[n]] \in Nat /\ chainNonce'[Sender[n]] \in Nat
      BY <1>9, <1>b
    <3>2. ASSUME NEW n \in mempool'
          PROVE  status'[n] \in Posted \cup {"Error"} /\ nonce'[n] >= chainNonce'[Sender[n]]
      BY <1>9, <1>a DEF MempoolInv
    <3>3. ASSUME NEW n \in Tx, status'[n] \in Posted
          PROVE  n \in mempool' \/ nonce'[n] < chainNonce'[Sender[n]]
      <4>1. CASE n \in mempool
        BY <4>1, <3>1, <1>9
      <4>2. CASE nonce[n] < chainNonce[Sender[n]]
        BY <4>2, <3>1, <1>9
      <4>3. QED  BY <4>1, <4>2, <3>3, <1>9, <1>a DEF MempoolInv
    <3>4. QED  BY <3>2, <3>3 DEF MempoolInv
  <2>4. QED  BY <2>1, <2>2, <2>3 DEF GapInv
<1>10. CASE MineStacksBlock
  <2>1. PICK block \in SUBSET {n \in mempool : Includable(n)} :
           /\ \A n \in block, m \in mempool :
                 Includable(m) /\ Sender[m] = Sender[n] /\ nonce[m] < nonce[n] => m \in block
           /\ mempool' = mempool \ block
           /\ chainNonce' = [s \in Senders |->
                 chainNonce[s] + Cardinality({n \in block : Sender[n] = s})]
    BY <1>10 DEF MineStacksBlock
  <2>2. UNCHANGED <<status, nonce, cachedNonces, cursor, batch>>
    BY <1>10 DEF MineStacksBlock, thread
  <2>3. block \in SUBSET mempool /\ block \in SUBSET Tx
    BY <1>b
  <2>4. \A s \in Senders : Cardinality({n \in block : Sender[n] = s}) \in Nat
    BY <2>3, BlockCount
  <2>5. /\ chainNonce' \in [Senders -> Nat]
        /\ \A s \in Senders : chainNonce[s] <= chainNonce'[s]
    BY <2>1, <2>4, <1>b
  <2>6. ASSUME NEW n \in mempool PROVE n \in mempool' <=> nonce[n] >= chainNonce'[Sender[n]]
    <3>1. Sender[n] \in Senders /\ nonce[n] \in Nat /\ chainNonce'[Sender[n]] \in Nat
      BY <2>5, <1>b
    <3>2. n \in block <=> nonce[n] < chainNonce[Sender[n]]
             + Cardinality({m \in block : Sender[m] = Sender[n]})
      BY <2>1, <2>3, <3>1, <1>a, BlockSpends
    <3>3. n \in block <=> nonce[n] < chainNonce'[Sender[n]]
      BY <2>1, <3>1, <3>2
    <3>4. QED  BY <2>1, <3>1, <3>3
  <2>7. mempool' \in SUBSET mempool
    BY <2>1
  <2>8. QED  BY <2>2, <2>5, <2>6, <2>7, <1>9
<1>11. CASE ForeignTransaction
  <2>1. PICK s \in SharedSenders :
           /\ chainNonce' = [chainNonce EXCEPT ![s] = @ + 1]
           /\ mempool' = {n \in mempool : Sender[n] # s \/ nonce[n] > chainNonce[s]}
    BY <1>11 DEF ForeignTransaction
  <2>2. UNCHANGED <<status, nonce, cachedNonces, cursor, batch>>
    BY <1>11 DEF ForeignTransaction, thread
  <2>3. s \in Senders
    BY NodeAssumption
  <2>4. /\ chainNonce' \in [Senders -> Nat] /\ mempool' \in SUBSET mempool
        /\ \A t \in Senders : chainNonce[t] <= chainNonce'[t]
    BY <2>1, <2>3, <1>b
  <2>5. ASSUME NEW n \in mempool PROVE n \in mempool' <=> nonce[n] >= chainNonce'[Sender[n]]
    <3>1. /\ Sender[n] \in Senders /\ nonce[n] \in Nat /\ chainNonce[Sender[n]] \in Nat
          /\ nonce[n] >= chainNonce[Sender[n]]
      BY <1>a, <1>b DEF MempoolInv
    <3>2. CASE Sender[n] = s
      BY <3>1, <3>2, <2>1, <1>b
    <3>3. CASE Sender[n] # s
      BY <3>1, <3>3, <2>1, <1>b
    <3>4. QED  BY <3>2, <3>3
  <2>6. QED  BY <2>2, <2>4, <2>5, <1>9
<1>12. CASE \/ ReceiveStart \/ ReceiveBroken \/ WaitForNode \/ EncodeError \/ EncodeDone
            \/ NextBatch \/ Complete \/ PollEpoch \/ PostDone \/ GetInfo
            \/ CheckKeepsLooping \/ ContractRequestFails \/ NonceRequestFails
            \/ MineBitcoinBlock \/ UNCHANGED vars
  <2>1. UNCHANGED <<status, nonce, cachedNonces, chainNonce, mempool, cursor, batch>>
    BY <1>12 DEF ReceiveStart, ReceiveBroken, WaitForNode, EncodeError, EncodeDone,
       NextBatch, Complete, PollEpoch, PostDone, GetInfo, CheckKeepsLooping,
       ContractRequestFails, NonceRequestFails, MineBitcoinBlock, encoding, node, thread, vars
  <2>2. QED  BY <2>1, <1>1
<1>13. QED
  BY <1>2, <1>3, <1>5, <1>6, <1>7, <1>8, <1>10, <1>11, <1>12, Zenon DEF Next, Deployer

\* NoNonceGap for every plan, every bound and every use of a shared account: no
\* transaction the node holds waits for a nonce that nobody has posted.
THEOREM NoncesHaveNoGap == Spec => []NoNonceGap
<1>1. Init => GapInv
  <2> SUFFICES ASSUME Init PROVE GapInv
    OBVIOUS
  <2>1. mempool = {} /\ DOMAIN cachedNonces = {} /\ \A n \in Tx : status[n] = "Queued"
    BY DEF Init
  <2>2. QED
    BY <2>1 DEF GapInv, NonceInv, PostInv, MempoolInv, Tracks, Posted
<1>2. IInv /\ GapInv => NoNonceGap
  BY NoHole DEF IInv
<1>3. QED  BY <1>1, <1>2, BatchInvariant, GapStep, PTL DEF Spec
=============================================================================
