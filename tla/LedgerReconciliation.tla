------------------------- MODULE LedgerReconciliation -------------------------
(***************************************************************************)
(* LedgerReconciliationService (apps/api/src/ledger-reconciliation/        *)
(* ledger-reconciliation.service.ts): scans that compare the customers'    *)
(* balances with the ledger, and the repair that rewrites a balance, over  *)
(* the withdrawals and transfers of Bank.                                  *)
(*                                                                         *)
(* buildBalanceCandidates reads balances, liability accounts and reserved  *)
(* withdrawals with independent queries, outside any transaction.  The     *)
(* vault columns it compares too are all zero here.                        *)
(***************************************************************************)
EXTENDS Bank

CONSTANT Scanners   \* scans and repairs at work at a time (a bound)

VARIABLES mismatch,  \* the LedgerReconciliationMismatch row of an account
          scan       \* what a scan or a repair has read

reconciliationVars == <<bankVars, mismatch, scan>>

NoMismatch == [status |-> "absent", action |-> "none", linkedCase |-> FALSE]
NoScan == [purpose |-> "none"]
Unread == [read |-> FALSE]

ReconciliationInit ==
  /\ BankInit
  /\ mismatch = [a \in Accounts |-> NoMismatch]
  /\ scan = [k \in Scanners |-> NoScan]

-----------------------------------------------------------------------------
(* buildBalanceCandidates                                                   *)

Projection(a) ==
  [read |-> TRUE, available |-> availableBalance[a], pending |-> pendingBalance[a]]

LiabilityAccounts(a) ==
  [read |-> TRUE, available |-> ledger[Liability(a)],
   pending |-> ledger[PendingWithdrawalLiability(a)]]

ReservedWithdrawals(a) ==
  [read |-> TRUE,
   amount |-> MapThenSumSet(LAMBDA i : Amount[i],
                {i \in Withdrawals : Owner[i] = a /\ status[i] \in Live})]

RecommendedAction(sc) ==
  IF \/ sc.liabilities.available < 0 \/ sc.liabilities.pending < 0
     \/ sc.reserved.amount # sc.liabilities.pending
    THEN "open_review_case"
  ELSE IF sc.projection = sc.liabilities THEN "none"
  ELSE "repair_customer_balance"

AllRead(sc) == sc.projection.read /\ sc.liabilities.read /\ sc.reserved.read

StartScan(k, purpose, a) ==
  scan' = [scan EXCEPT ![k] = [purpose |-> purpose, account |-> a, projection |-> Unread,
                               liabilities |-> Unread, reserved |-> Unread]]

ReadProjection(k) ==
  /\ scan[k] # NoScan /\ ~scan[k].projection.read
  /\ scan' = [scan EXCEPT ![k].projection = Projection(scan[k].account)]

ReadLiabilityAccounts(k) ==
  /\ scan[k] # NoScan /\ ~scan[k].liabilities.read
  /\ scan' = [scan EXCEPT ![k].liabilities = LiabilityAccounts(scan[k].account)]

ReadReservedWithdrawals(k) ==
  /\ scan[k] # NoScan /\ ~scan[k].reserved.read
  /\ scan' = [scan EXCEPT ![k].reserved = ReservedWithdrawals(scan[k].account)]

ReadCandidates(k) ==
  /\ ReadProjection(k) \/ ReadLiabilityAccounts(k) \/ ReadReservedWithdrawals(k)
  /\ UNCHANGED <<bankVars, mismatch>>

-----------------------------------------------------------------------------
(* scanMismatches, by an operator or on the worker's schedule *)
BeginScan(k, a) ==
  /\ scan[k] = NoScan
  /\ StartScan(k, "scan", a)
  /\ UNCHANGED <<bankVars, mismatch>>

(* A candidate opens or reopens the row; an open row without a candidate is *)
(* resolved with its case.                                                  *)
CommitScan(k) ==
  LET a == scan[k].account
      action == RecommendedAction(scan[k])
  IN /\ scan[k].purpose = "scan" /\ AllRead(scan[k])
     /\ mismatch' = [mismatch EXCEPT ![a] =
          IF action # "none"
            THEN [status |-> "open", linkedCase |-> @.linkedCase,
                  action |-> IF action = "open_review_case" /\ @.linkedCase
                               THEN "none" ELSE action]
          ELSE IF @.status = "open"
            THEN [status |-> "resolved", action |-> "none", linkedCase |-> FALSE]
          ELSE @]
     /\ scan' = [scan EXCEPT ![k] = NoScan]
     /\ UNCHANGED bankVars

OpenReviewCaseForMismatch(a) ==
  /\ mismatch[a].action = "open_review_case"
  /\ mismatch' = [mismatch EXCEPT ![a].action = "none", ![a].linkedCase = TRUE]
  /\ UNCHANGED <<bankVars, scan>>

DismissMismatch(a) ==
  /\ mismatch[a].status = "open"
  /\ mismatch' = [mismatch EXCEPT ![a].status = "dismissed"]
  /\ UNCHANGED <<bankVars, scan>>

(* repairCustomerBalanceMismatch compares again, then writes the balances   *)
(* it found in the ledger, then scans to see the mismatch gone.             *)
BeginRepair(k, a) ==
  /\ scan[k] = NoScan
  /\ mismatch[a].action = "repair_customer_balance"
  /\ StartScan(k, "repair", a)
  /\ UNCHANGED <<bankVars, mismatch>>

CommitRepair(k) ==
  LET sc == scan[k] IN
  /\ sc.purpose = "repair" /\ AllRead(sc)
  /\ IF RecommendedAction(sc) = "repair_customer_balance"
       THEN /\ availableBalance' = [availableBalance EXCEPT ![sc.account] = sc.liabilities.available]
            /\ pendingBalance' = [pendingBalance EXCEPT ![sc.account] = sc.liabilities.pending]
            /\ StartScan(k, "scan", sc.account)
       ELSE /\ scan' = [scan EXCEPT ![k] = NoScan]
            /\ UNCHANGED <<availableBalance, pendingBalance>>
  /\ UNCHANGED <<journals, ledger, intentVars, request, transferVars, mismatch>>

ReconciliationNext ==
  \/ BankNext /\ UNCHANGED <<mismatch, scan>>
  \/ \E k \in Scanners :
       \/ ReadCandidates(k) \/ CommitScan(k) \/ CommitRepair(k)
       \/ \E a \in Accounts : BeginScan(k, a) \/ BeginRepair(k, a)
  \/ \E a \in Accounts : OpenReviewCaseForMismatch(a) \/ DismissMismatch(a)

ReconciliationSpec == ReconciliationInit /\ [][ReconciliationNext]_reconciliationVars

-----------------------------------------------------------------------------
(* A repair rebuilds the balances of an account from the ledger: when what  *)
(* it read is still what the ledger says, the balances it writes are those  *)
(* of ProjectionMatchesLedger, reservations of internal transfers included. *)
RepairRebuildsFromLedger ==
  [][\A k \in Scanners :
       LET a == scan[k].account IN
       /\ scan[k].purpose = "repair" /\ scan'[k].purpose = "scan"
       /\ scan[k].liabilities = LiabilityAccounts(a)
       => /\ availableBalance'[a] = ledger[Liability(a)]
          /\ pendingBalance'[a] = ledger[PendingWithdrawalLiability(a)]
                                    + ledger[PendingTransferLiability(a)]]_reconciliationVars
=============================================================================
