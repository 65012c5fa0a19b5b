------------------------------- MODULE Ledger -------------------------------
(***************************************************************************)
(* LedgerService (apps/api/src/ledger/ledger.service.ts): the double-entry *)
(* journal of the bank and the CustomerAssetBalance rows projected from    *)
(* it.                                                                     *)
(*                                                                         *)
(* Every method of the service runs inside the database transaction of its *)
(* caller: it is an operator here, which the caller's action conjoins.  It *)
(* is enabled when the method returns and disabled when it throws, in      *)
(* which case the caller's whole transaction rolls back.  Its guards are   *)
(* the ones the database enforces at the write: the unique index on        *)
(* (transactionIntentId, journalType) and the balance condition of the     *)
(* conditional updateMany, which READ COMMITTED re-evaluates on the        *)
(* current row.                                                            *)
(*                                                                         *)
(* One asset is modelled; an intent's account and amount are fixed when it *)
(* is created, so they are parameters.                                     *)
(***************************************************************************)
EXTENDS Integers

CONSTANTS Accounts,        \* customer accounts
          Intents,         \* transaction intents, by idempotency key
          Owner,           \* the account an intent belongs to
          Amount,          \* requestedAmount of an intent
          Agreements       \* loan agreements

ASSUME LedgerAssumption ==
  /\ Owner \in [Intents -> Accounts]
  /\ Amount \in [Intents -> Nat \ {0}]
  /\ Agreements \cap Intents = {}

VARIABLES availableBalance,  \* CustomerAssetBalance.availableBalance
          pendingBalance,    \* CustomerAssetBalance.pendingBalance
          ledger,            \* credits minus debits of every LedgerAccount
          journals           \* the unique keys of the LedgerJournal rows: the
                             \* intent or the loan agreement, and journalType

ledgerVars == <<availableBalance, pendingBalance, ledger, journals>>

JournalTypes == {"deposit_settlement", "withdrawal_reservation",
                 "withdrawal_reservation_release", "withdrawal_settlement",
                 "internal_balance_transfer_reservation",
                 "internal_balance_transfer_reservation_release",
                 "internal_balance_transfer_settlement",
                 "retirement_vault_funding", "retirement_vault_release",
                 "loan_disbursement", "loan_repayment"}

InboundClearing == <<"asset_inbound_clearing", "bank">>
OutboundClearing == <<"asset_outbound_clearing", "bank">>
Liability(a) == <<"customer_asset_liability", a>>
PendingWithdrawalLiability(a) ==
  <<"customer_asset_pending_withdrawal_liability", a>>
PendingTransferLiability(a) ==
  <<"customer_asset_pending_internal_transfer_liability", a>>
(* A customer has at most one retirement vault for an asset.                *)
VaultLiability(a) == <<"customer_retirement_vault_liability", a>>
PrincipalReceivable(l) == <<"loan_principal_receivable", l>>
FeeReceivable(l) == <<"loan_service_fee_receivable", l>>
FeeIncome == <<"loan_service_fee_income", "bank">>

LedgerAccounts ==
  {InboundClearing, OutboundClearing, FeeIncome}
    \cup {Liability(a) : a \in Accounts}
    \cup {PendingWithdrawalLiability(a) : a \in Accounts}
    \cup {PendingTransferLiability(a) : a \in Accounts}
    \cup {VaultLiability(a) : a \in Accounts}
    \cup {PrincipalReceivable(l) : l \in Agreements}
    \cup {FeeReceivable(l) : l \in Agreements}

LedgerTypeOK ==
  /\ availableBalance \in [Accounts -> Nat]
  /\ pendingBalance \in [Accounts -> Nat]
  /\ ledger \in [LedgerAccounts -> Int]
  /\ journals \subseteq (Intents \cup Agreements) \X JournalTypes

LedgerInit ==
  /\ availableBalance = [a \in Accounts |-> 0]
  /\ pendingBalance = [a \in Accounts |-> 0]
  /\ ledger = [k \in LedgerAccounts |-> 0]
  /\ journals = {}

-----------------------------------------------------------------------------
(* One journal with its two postings, a debit and a credit of one amount.   *)
(* The unique index refuses a second journal of the type for the intent.    *)
PostJournal(i, type, debit, credit) ==
  /\ <<i, type>> \notin journals
  /\ journals' = journals \cup {<<i, type>>}
  /\ ledger' = [ledger EXCEPT ![debit] = @ - Amount[i],
                              ![credit] = @ + Amount[i]]

(* Mutant: the update of the row compares nothing. *)
UpdateBalanceUnconditionally(a, availableDelta, pendingDelta) ==
  /\ availableBalance' = [availableBalance EXCEPT ![a] = @ + availableDelta]
  /\ pendingBalance' = [pendingBalance EXCEPT ![a] = @ + pendingDelta]

(* The conditional update of the CustomerAssetBalance row of an account: no *)
(* row matches, and the method throws, when a balance would fall below zero.*)
UpdateBalance(a, availableDelta, pendingDelta) ==
  /\ availableBalance[a] + availableDelta >= 0
  /\ pendingBalance[a] + pendingDelta >= 0
  /\ availableBalance' = [availableBalance EXCEPT ![a] = @ + availableDelta]
  /\ pendingBalance' = [pendingBalance EXCEPT ![a] = @ + pendingDelta]

SettleConfirmedDeposit(i) ==
  /\ PostJournal(i, "deposit_settlement",
                 InboundClearing, Liability(Owner[i]))
  /\ UpdateBalance(Owner[i], Amount[i], 0)

ReserveWithdrawalBalance(i) ==
  /\ PostJournal(i, "withdrawal_reservation",
                 Liability(Owner[i]), PendingWithdrawalLiability(Owner[i]))
  /\ UpdateBalance(Owner[i], -Amount[i], Amount[i])

(* Mutant: the amount comes back to available and stays in pending. *)
ReleaseKeepingPending(i) ==
  /\ PostJournal(i, "withdrawal_reservation_release",
                 PendingWithdrawalLiability(Owner[i]), Liability(Owner[i]))
  /\ UpdateBalance(Owner[i], Amount[i], 0)

ReleaseWithdrawalReservation(i) ==
  /\ PostJournal(i, "withdrawal_reservation_release",
                 PendingWithdrawalLiability(Owner[i]), Liability(Owner[i]))
  /\ UpdateBalance(Owner[i], Amount[i], -Amount[i])

SettleConfirmedWithdrawal(i) ==
  /\ PostJournal(i, "withdrawal_settlement",
                 PendingWithdrawalLiability(Owner[i]), OutboundClearing)
  /\ UpdateBalance(Owner[i], 0, -Amount[i])

-----------------------------------------------------------------------------
(* Internal transfers between two customers *)

ReserveInternalBalanceTransferBalance(i) ==
  /\ PostJournal(i, "internal_balance_transfer_reservation",
                 Liability(Owner[i]), PendingTransferLiability(Owner[i]))
  /\ UpdateBalance(Owner[i], -Amount[i], Amount[i])

ReleaseInternalBalanceTransferReservation(i) ==
  /\ PostJournal(i, "internal_balance_transfer_reservation_release",
                 PendingTransferLiability(Owner[i]), Liability(Owner[i]))
  /\ UpdateBalance(Owner[i], Amount[i], -Amount[i])

(* Mutant: the sender's reservation is settled from the available balance. *)
SettleTransferFromAvailable(i, recipient, fromPending) ==
  LET sender == Owner[i] IN
  /\ PostJournal(i, "internal_balance_transfer_settlement",
                 IF fromPending THEN PendingTransferLiability(sender)
                                ELSE Liability(sender),
                 Liability(recipient))
  /\ availableBalance[sender] >= Amount[i]
  /\ availableBalance' = [availableBalance EXCEPT ![sender] = @ - Amount[i],
                                                  ![recipient] = @ + Amount[i]]
  /\ UNCHANGED pendingBalance

(* The sender pays from the reservation, or from the available balance when *)
(* the transfer needed no review; the recipient is credited at once.        *)
SettleInternalBalanceTransfer(i, recipient, fromPending) ==
  LET sender == Owner[i]
      paid == IF fromPending THEN pendingBalance ELSE availableBalance IN
  /\ PostJournal(i, "internal_balance_transfer_settlement",
                 IF fromPending THEN PendingTransferLiability(sender)
                                ELSE Liability(sender),
                 Liability(recipient))
  /\ paid[sender] >= Amount[i]
  /\ pendingBalance' = [pendingBalance EXCEPT
                          ![sender] = IF fromPending THEN @ - Amount[i] ELSE @]
  /\ availableBalance' = [availableBalance EXCEPT
                            ![sender] = IF fromPending THEN @ ELSE @ - Amount[i],
                            ![recipient] = @ + Amount[i]]

-----------------------------------------------------------------------------
(* Retirement vaults: the caller conjoins the update of lockedBalance.      *)

FundRetirementVaultBalance(i) ==
  /\ PostJournal(i, "retirement_vault_funding",
                 Liability(Owner[i]), VaultLiability(Owner[i]))
  /\ UpdateBalance(Owner[i], -Amount[i], 0)

ReleaseRetirementVaultBalance(i) ==
  /\ PostJournal(i, "retirement_vault_release",
                 VaultLiability(Owner[i]), Liability(Owner[i]))
  /\ UpdateBalance(Owner[i], Amount[i], 0)

-----------------------------------------------------------------------------
(* Loans.  A journal carries the agreement, and the table is unique per     *)
(* agreement and journal type.                                              *)

(* Mutant: the table takes a second journal of the type. *)
PostLoanJournalAgain(l, type, postings) ==
  /\ journals' = journals \cup {<<l, type>>}
  /\ ledger' = [k \in LedgerAccounts |->
                  ledger[k] + (IF k \in DOMAIN postings THEN postings[k] ELSE 0)]

PostLoanJournal(l, type, postings) ==
  /\ <<l, type>> \notin journals
  /\ journals' = journals \cup {<<l, type>>}
  /\ ledger' = [k \in LedgerAccounts |->
                  ledger[k] + (IF k \in DOMAIN postings THEN postings[k] ELSE 0)]

(* The principal leaves the bank on chain: no customer balance changes.     *)
RecordLoanDisbursement(l, principal, fee) ==
  /\ PostLoanJournal(l, "loan_disbursement",
       [k \in {PrincipalReceivable(l), OutboundClearing,
               FeeReceivable(l), FeeIncome} |->
          CASE k = PrincipalReceivable(l) -> -principal
            [] k = OutboundClearing -> principal
            [] k = FeeReceivable(l) -> -fee
            [] OTHER -> fee])
  /\ UNCHANGED <<availableBalance, pendingBalance>>

RecordLoanRepayment(l, borrower, principal, fee) ==
  /\ PostLoanJournal(l, "loan_repayment",
       [k \in {Liability(borrower), PrincipalReceivable(l), FeeReceivable(l)} |->
          CASE k = Liability(borrower) -> -(principal + fee)
            [] k = PrincipalReceivable(l) -> principal
            [] OTHER -> fee])
  /\ UpdateBalance(borrower, -(principal + fee), 0)

-----------------------------------------------------------------------------
(* A reservation is outstanding from its journal until the journal that     *)
(* releases it or settles it.                                               *)
Reserved(i) == <<i, "withdrawal_reservation">> \in journals
Released(i) == <<i, "withdrawal_reservation_release">> \in journals
Settled(i) == <<i, "withdrawal_settlement">> \in journals

(* The balances customers see are the positions of their ledger accounts,   *)
(* whatever interleaving of transactions wrote them: upserts, conditional   *)
(* updates and postings of ledger.service.ts never drift apart.             *)
ProjectionMatchesLedger ==
  \A a \in Accounts :
    /\ availableBalance[a] = ledger[Liability(a)]
    /\ pendingBalance[a] = ledger[PendingWithdrawalLiability(a)]
                             + ledger[PendingTransferLiability(a)]
=============================================================================
