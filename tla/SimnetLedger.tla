---------------------------- MODULE SimnetLedger ----------------------------
(***************************************************************************)
(* What a simnet session promises its user: a ledger that changes one      *)
(* included transaction at a time.  A transaction takes one nonce of its   *)
(* origin and one of its payer, costs its fee, and moves uSTX; whatever is *)
(* rejected changes nothing.                                               *)
(***************************************************************************)
EXTENDS Integers

CONSTANTS Accounts, Balances, Amounts

VARIABLES height, nonce, balance, contracts

ledger == <<height, nonce, balance, contracts>>

Init ==
    /\ height = 0 /\ contracts = {}
    /\ nonce = [a \in Accounts |-> 0] /\ balance = Balances

\* A block without a transaction.
Block == height' = height + 1 /\ UNCHANGED <<nonce, balance, contracts>>

Included ==
    \E origin, payer \in Accounts : \E fee \in 0..balance[payer] :
        /\ nonce' = [a \in Accounts |-> IF a \in {origin, payer} THEN nonce[a] + 1 ELSE nonce[a]]
        /\ LET charged == [balance EXCEPT ![payer] = @ - fee]
           IN  \/ balance' = charged
              \/ \E to \in Accounts \ {origin} : \E amount \in 1..charged[origin] :
                    balance' = [charged EXCEPT ![origin] = @ - amount, ![to] = @ + amount]
        /\ \A a \in Accounts : balance'[a] >= 0
        /\ contracts \subseteq contracts'

\* A transaction in the current block, or with a block of its own.
Transaction == Included /\ height' \in {height, height + 1}

\* A snippet moves uSTX, or a test mints some, outside any transaction.
Adjust ==
    /\ \E to \in Accounts, amount \in Amounts :
          \/ balance' = [balance EXCEPT ![to] = @ + amount]
          \/ \E from \in Accounts \ {to} :
                /\ balance[from] >= amount
                /\ balance' = [balance EXCEPT ![from] = @ - amount, ![to] = @ + amount]
    /\ UNCHANGED <<height, nonce, contracts>>

\* Another session takes over.
Restart ==
    /\ height' = 0 /\ contracts' = {}
    /\ nonce' = [a \in Accounts |-> 0] /\ balance' = Balances

Next == Block \/ Transaction \/ Adjust \/ Restart

Spec == Init /\ [][Next]_ledger
=============================================================================
