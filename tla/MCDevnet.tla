------------------------------- MODULE MCDevnet -------------------------------
(* How a devnet ends, and how its miner is commanded, in one run.  The two     *)
(* specifications have no variable in common: a behaviour is one of the first  *)
(* whose miner has no part in it, or one of the second.  In its initial state  *)
(* neither is owed a step by its fairness.                                     *)
EXTENDS Devnet, BitcoinMining

VARIABLE part \* whose behaviour it is

devnetVars == <<part, vars, minerVars>>

DevnetInit ==
    /\ part \in {"shutdown", "mining"}
    /\ Init /\ MinerInit
    /\ part = "mining" => \A s \in Services : docker[s] = "absent"

DevnetNext ==
    /\ UNCHANGED part
    /\ \/ part = "shutdown" /\ Next /\ UNCHANGED minerVars
       \/ part = "mining" /\ MinerNext /\ UNCHANGED vars

DevnetSpec == DevnetInit /\ [][DevnetNext]_devnetVars /\ Fairness /\ MinerFairness
=============================================================================
