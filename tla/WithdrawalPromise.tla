-------------------------- MODULE WithdrawalPromise --------------------------
(***************************************************************************)
(* What the bank promises its customers about withdrawals, without         *)
(* workers, statuses or journals: the amount of a withdrawal is taken from *)
(* the balance once, when it is requested, and is then either paid out     *)
(* once or given back once.  WithdrawalIntents implements this.            *)
(***************************************************************************)
EXTENDS Integers

CONSTANTS Accounts, Intents, Withdrawals, Owner, Amount

VARIABLES balance,  \* what the customer may spend
          money     \* where the amount of a withdrawal is

Places == {"customer", "held", "returned", "paid"}

PromiseInit ==
  /\ balance = [a \in Accounts |-> 0]
  /\ money = [i \in Withdrawals |-> "customer"]

Receive(d) ==
  /\ balance' = [balance EXCEPT ![Owner[d]] = @ + Amount[d]]
  /\ UNCHANGED money

Hold(i) ==
  /\ money[i] = "customer"
  /\ balance[Owner[i]] >= Amount[i]
  /\ money' = [money EXCEPT ![i] = "held"]
  /\ balance' = [balance EXCEPT ![Owner[i]] = @ - Amount[i]]

Return(i) ==
  /\ money[i] = "held"
  /\ money' = [money EXCEPT ![i] = "returned"]
  /\ balance' = [balance EXCEPT ![Owner[i]] = @ + Amount[i]]

Pay(i) ==
  /\ money[i] = "held"
  /\ money' = [money EXCEPT ![i] = "paid"]
  /\ UNCHANGED balance

PromiseNext ==
  \/ \E d \in Intents \ Withdrawals : Receive(d)
  \/ \E i \in Withdrawals : Hold(i) \/ Return(i) \/ Pay(i)

PromiseSpec == PromiseInit /\ [][PromiseNext]_<<balance, money>>
=============================================================================
