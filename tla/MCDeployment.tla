---------------------------- MODULE MCDeployment ----------------------------
(* Small plans for the model checker. *)
EXTENDS Deployment, TLC

CONSTANTS deployer, wallet, stacker

\* Three batches, the middle one empty, every kind of transaction, three
\* accounts, one requirement the node already has and one it does not have.
MixedKind == <<"RequirementPublish", "EmulatedContractPublish",
               "RequirementPublish", "BtcTransfer", "ContractPublish",
               "StxTransfer", "ContractCall">>
MixedSender   == <<deployer, deployer, deployer, wallet, deployer, wallet, stacker>>
MixedContract == <<"lib", "sim", "req", "", "core", "", "core">>
MixedBatchOf  == <<1, 1, 1, 1, 1, 1, 3>>
MixedAfter    == <<0, 1, 3>>
MixedNonce    == (deployer :> 1) @@ (wallet :> 0) @@ (stacker :> 0)

\* Three batches with an empty one in the middle.
GapKind     == <<"ContractPublish", "StxTransfer", "ContractCall", "ContractPublish">>
GapSender   == <<deployer, wallet, wallet, deployer>>
GapContract == <<"core", "", "core", "ext">>
GapBatchOf  == <<1, 1, 3, 3>>
GapAfter    == <<1, 0, 3>>
GapNonce    == (deployer :> 0) @@ (wallet :> 2)
=============================================================================
