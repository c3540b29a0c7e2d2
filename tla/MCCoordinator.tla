---------------------------- MODULE MCCoordinator ----------------------------
(* Two orders on two accounts.  Both are staked at the switch to pox-5; if the *)
(* node answered too late for that, one cycle after the other.  The second is  *)
(* staked again in the cycle it starts at, the first is extended then.         *)
EXTENDS Coordinator, TLC

CONSTANTS o1, o2

MCWallet == (o1 :> "wallet_1") @@ (o2 :> "wallet_2")
MCStartAtCycle == (o1 :> 3) @@ (o2 :> 4)
MCDuration == (o1 :> 1) @@ (o2 :> 2)
MCAutoExtend == (o1 :> TRUE) @@ (o2 :> FALSE)
Symmetric == Permutations(Handlers)
=============================================================================
