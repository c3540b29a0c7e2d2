------------------------------ MODULE MCIndexer ------------------------------
(* A tree of stacks blocks, the microblocks streamed on two of them, and a    *)
(* tree of bitcoin headers.  The confirmation length is the code's.            *)
EXTENDS Indexer

\* 1 - 2 - 3 - 4 - 5 - 6 - 7 - 8 - 9    blocks, 10, 11 and 12 on side branches
\*  \- 10 - 11  \- 12
\*  1 : 13 - 14, 2 : 15              microblocks; 2 confirms 13, 10 confirms 14
\*
\*   21 - 22 - 23 - 24 - 25 - 26 - 27 - 28 - 29    headers, three side branches
\*     \- 33                    \        \- 32
\*                               \- 30 - 31
MCStacksBlocks == 1..12
MCMicroblocks == 13..15
MCHeaders == 21..33
MCBlocks == MCStacksBlocks \cup MCMicroblocks \cup MCHeaders

BlockParent == <<0, 1, 2, 3, 4, 5, 6, 7, 8, 1, 10, 3, 0, 13, 0>>
BlockHeight == <<1, 2, 3, 4, 5, 6, 7, 8, 9, 2, 3, 4, 0, 1, 0>>
HeaderParent == <<0, 1, 2, 3, 4, 5, 6, 7, 8, 6, 10, 8, 1>>
HeaderHeight == <<1, 2, 3, 4, 5, 6, 7, 8, 9, 7, 8, 9, 2>>

MCParent == [b \in MCBlocks |->
    IF b \notin MCHeaders THEN BlockParent[b]
    ELSE IF b = 21 THEN NoBlock ELSE HeaderParent[b - 20] + 20]
MCHeight == [b \in MCBlocks |-> IF b \in MCHeaders THEN HeaderHeight[b - 20] ELSE BlockHeight[b]]

MCAnchor == (13 :> 1) @@ (14 :> 1) @@ (15 :> 2)
MCConfirms == [b \in 1..12 |-> CASE b = 2 -> 13 [] b = 10 -> 14 [] b = 3 -> 15 [] OTHER -> 0]
MCBitcoinHeight == [b \in 1..12 |-> IF b = 11 THEN 4 ELSE BlockHeight[b]]
MCSeeds == {<<>>, <<1, 2, 3>>}
MCTrails == {<<13>>, <<14>>, <<15>>}
=============================================================================
