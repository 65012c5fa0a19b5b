-------------------------------- MODULE Bank --------------------------------
(***************************************************************************)
(* Withdrawals and internal transfers over one ledger: two services that   *)
(* know nothing of each other reserve from the same availableBalance and   *)
(* settle from the same pendingBalance.                                    *)
(***************************************************************************)
EXTENDS WithdrawalIntents, BalanceTransfers, Sums

(* An intent is of one type.                                                *)
ASSUME BankAssumption ==
  /\ IsFiniteSet(Accounts) /\ IsFiniteSet(Intents)
  /\ Withdrawals \cap Transfers = {}

bankVars == <<vars, transferVars>>

BankInit == Init /\ TransferInit

(* The deposits of Next are the intents that are neither withdrawals nor    *)
(* transfers.                                                               *)
BankNext ==
  \/ /\ \/ \E d \in Intents \ (Withdrawals \cup Transfers) : CreditDeposit(d)
        \/ \E i \in Withdrawals : CreateWithdrawalIntent(i) \/ ClaimTimesOut(i)
        \/ \E s \in Slots, i \in Withdrawals : Read(s, i)
        \/ \E s \in Slots : Commit(s) \/ Abort(s)
     /\ UNCHANGED transferVars
  \/ /\ TransferNext
     /\ UNCHANGED <<intentVars, request>>

BankSpec == BankInit /\ [][BankNext]_bankVars

(* pendingBalance is one column for two kinds of reservation: it is the sum *)
(* of the withdrawals and of the reviewed transfers that are outstanding,   *)
(* so that neither flow ever spends what the other has reserved.            *)
PendingCoversBoth ==
  \A a \in Accounts :
    pendingBalance[a] =
      Total(Amount, Outstanding(a) \cup TransfersHeld(a))

(* No money appears or disappears inside the bank: what the customers hold, *)
(* available and pending, is what was deposited minus what was withdrawn.   *)
MoneyIsConserved ==
  Total([a \in Accounts |-> availableBalance[a] + pendingBalance[a]], Accounts)
    = -ledger[InboundClearing] - ledger[OutboundClearing]

BankTypeOK == TypeOK /\ TransferTypeOK
=============================================================================
