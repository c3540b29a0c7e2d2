------------------------------- MODULE Indexer -------------------------------
(***************************************************************************)
(* Indexer (observer/src/indexer/mod.rs): the pad of bitcoin headers and   *)
(* the pool of stacks blocks, behind one lock.  A handler calls one of the *)
(* two, which reads and writes nothing of the other's.  What one does is   *)
(* therefore the same whatever the other has been fed in between, and a    *)
(* behaviour feeds only one of them, chosen when it begins.                *)
(***************************************************************************)
EXTENDS ForkScratchPad, StacksBlockPool

VARIABLE fed \* the chain that is fed

vars == <<fed, padVars, poolVars>>

Init ==
    /\ fed \in {"bitcoin", "stacks"}
    /\ PadInit /\ PoolInit

HandleBitcoinHeader(h) == ProcessHeader(h) /\ UNCHANGED poolVars

ProcessStacksBlock(b) == ReceiveBlock(b) /\ UNCHANGED padVars

HandleMicroblockTrail(trail) == ReceiveMicroblocks(trail) /\ UNCHANGED padVars

Next ==
    /\ UNCHANGED fed
    /\ \/ fed = "bitcoin" /\ \E h \in Headers : HandleBitcoinHeader(h)
       \/ fed = "stacks" /\ \E b \in StacksBlocks : ProcessStacksBlock(b)
       \/ fed = "stacks" /\ \E trail \in Trails : HandleMicroblockTrail(trail)

Spec == Init /\ [][Next]_vars

\* The type of the fed chain's state.
TypeOK == PadTypeOK /\ PoolTypeOK
=============================================================================
