---------------------------- MODULE LedgerProofs ----------------------------
(***************************************************************************)
(* What each method of LedgerService does to the ledger, whoever calls it: *)
(* it keeps the types (no balance below zero), keeps the balances equal to *)
(* the ledger positions, and adds exactly one journal.                     *)
(***************************************************************************)
EXTENDS Ledger, TLAPS

LedgerInv == LedgerTypeOK /\ ProjectionMatchesLedger

(* Ledger accounts of different types or of different customers differ.     *)
LEMMA DistinctAccounts ==
  ASSUME NEW a \in Accounts, NEW b \in Accounts
  PROVE  /\ Liability(a) # PendingWithdrawalLiability(b)
         /\ Liability(a) # PendingTransferLiability(b)
         /\ PendingTransferLiability(a) # PendingWithdrawalLiability(b)
         /\ PendingTransferLiability(a) # InboundClearing
         /\ PendingTransferLiability(a) # OutboundClearing
         /\ Liability(a) # InboundClearing /\ Liability(a) # OutboundClearing
         /\ PendingWithdrawalLiability(a) # InboundClearing
         /\ PendingWithdrawalLiability(a) # OutboundClearing
         /\ Liability(a) = Liability(b) <=> a = b
         /\ PendingWithdrawalLiability(a) = PendingWithdrawalLiability(b) <=> a = b
         /\ PendingTransferLiability(a) = PendingTransferLiability(b) <=> a = b
         /\ {Liability(a), PendingWithdrawalLiability(a),
             PendingTransferLiability(a),
             InboundClearing, OutboundClearing} \subseteq LedgerAccounts
  BY DEF Liability, PendingWithdrawalLiability, PendingTransferLiability, InboundClearing,
         OutboundClearing, LedgerAccounts

(* The tables are empty when the behaviour starts, so they agree.           *)
LEMMA LedgerInitial == LedgerInit => LedgerInv
  <1> SUFFICES ASSUME LedgerInit PROVE LedgerInv
    OBVIOUS
  <1>1. LedgerTypeOK
    BY DEF LedgerInit, LedgerTypeOK
  <1>2. ASSUME NEW a \in Accounts
        PROVE  /\ availableBalance[a] = ledger[Liability(a)]
               /\ pendingBalance[a] = ledger[PendingWithdrawalLiability(a)]
                                        + ledger[PendingTransferLiability(a)]
    <2>1. /\ Liability(a) \in LedgerAccounts
          /\ PendingWithdrawalLiability(a) \in LedgerAccounts
          /\ PendingTransferLiability(a) \in LedgerAccounts
      BY DistinctAccounts
    <2> QED
      BY <2>1 DEF LedgerInit
  <1> QED
    BY <1>1, <1>2 DEF LedgerInv, ProjectionMatchesLedger

(* A journal with its postings, and the balance update that mirrors them.   *)
LEMMA PostingStep ==
  ASSUME LedgerInv, NEW i \in Intents, NEW type \in JournalTypes,
         NEW debit \in LedgerAccounts, NEW credit \in LedgerAccounts,
         NEW dAvailable \in Int, NEW dPending \in Int, debit # credit,
         PostJournal(i, type, debit, credit),
         UpdateBalance(Owner[i], dAvailable, dPending)
  PROVE  /\ LedgerTypeOK'
         /\ journals' = journals \cup {<<i, type>>}
         /\ <<i, type>> \notin journals
         /\ \A k \in LedgerAccounts :
              ledger'[k] = IF k = debit THEN ledger[k] - Amount[i]
                           ELSE IF k = credit THEN ledger[k] + Amount[i]
                           ELSE ledger[k]
         /\ \A a \in Accounts :
              /\ availableBalance'[a] =
                   availableBalance[a] + (IF a = Owner[i] THEN dAvailable ELSE 0)
              /\ pendingBalance'[a] =
                   pendingBalance[a] + (IF a = Owner[i] THEN dPending ELSE 0)
  <1> USE LedgerAssumption DEF LedgerInv, LedgerTypeOK
  <1>1. Owner[i] \in Accounts /\ Amount[i] \in Nat
    OBVIOUS
  <1>2. /\ journals' = journals \cup {<<i, type>>}
        /\ <<i, type>> \notin journals
        /\ journals' \subseteq (Intents \cup Agreements) \X JournalTypes
    BY DEF PostJournal
  <1>3. /\ ledger' \in [LedgerAccounts -> Int]
        /\ \A k \in LedgerAccounts :
              ledger'[k] = IF k = debit THEN ledger[k] - Amount[i]
                           ELSE IF k = credit THEN ledger[k] + Amount[i]
                           ELSE ledger[k]
    BY <1>1 DEF PostJournal
  <1>4. /\ availableBalance' \in [Accounts -> Nat]
        /\ pendingBalance' \in [Accounts -> Nat]
    BY <1>1 DEF UpdateBalance
  <1>5. \A a \in Accounts :
          /\ availableBalance'[a] =
               availableBalance[a] + (IF a = Owner[i] THEN dAvailable ELSE 0)
          /\ pendingBalance'[a] =
               pendingBalance[a] + (IF a = Owner[i] THEN dPending ELSE 0)
    BY <1>1 DEF UpdateBalance
  <1> QED
    BY <1>2, <1>3, <1>4, <1>5

(* settleConfirmedDeposit credits the account.                               *)
LEMMA SettleConfirmedDepositStep ==
  ASSUME LedgerInv, NEW i \in Intents, SettleConfirmedDeposit(i)
  PROVE  /\ LedgerInv'
         /\ journals' = journals \cup {<<i, "deposit_settlement">>}
         /\ <<i, "deposit_settlement">> \notin journals
  <1> DEFINE o == Owner[i]
             debit == InboundClearing
             credit == Liability(o)
  <1>1. o \in Accounts /\ Amount[i] \in Nat /\ Amount[i] \in Int /\ 0 \in Int
    BY LedgerAssumption
  <1>2. "deposit_settlement" \in JournalTypes
    BY DEF JournalTypes
  <1>3. debit \in LedgerAccounts /\ credit \in LedgerAccounts /\ debit # credit
    BY <1>1, DistinctAccounts, Zenon
  <1>4. /\ PostJournal(i, "deposit_settlement", debit, credit)
        /\ UpdateBalance(Owner[i], Amount[i], 0)
    BY DEF SettleConfirmedDeposit
  <1> HIDE DEF debit, credit
  <1>5. /\ LedgerTypeOK'
        /\ journals' = journals \cup {<<i, "deposit_settlement">>}
        /\ <<i, "deposit_settlement">> \notin journals
        /\ \A k \in LedgerAccounts :
             ledger'[k] = IF k = debit THEN ledger[k] - Amount[i]
                          ELSE IF k = credit THEN ledger[k] + Amount[i]
                          ELSE ledger[k]
        /\ \A a \in Accounts :
             /\ availableBalance'[a] =
                  availableBalance[a] + (IF a = Owner[i] THEN Amount[i] ELSE 0)
             /\ pendingBalance'[a] =
                  pendingBalance[a] + (IF a = Owner[i] THEN 0 ELSE 0)
    BY <1>1, <1>2, <1>3, <1>4, PostingStep
  <1>6. ProjectionMatchesLedger'
    BY <1>1, <1>5, DistinctAccounts
       DEF debit, credit, LedgerInv, LedgerTypeOK, ProjectionMatchesLedger
  <1> QED
    BY <1>5, <1>6 DEF LedgerInv

(* reserveWithdrawalBalance moves the amount from available to pending.      *)
LEMMA ReserveWithdrawalBalanceStep ==
  ASSUME LedgerInv, NEW i \in Intents, ReserveWithdrawalBalance(i)
  PROVE  /\ LedgerInv'
         /\ journals' = journals \cup {<<i, "withdrawal_reservation">>}
         /\ <<i, "withdrawal_reservation">> \notin journals
  <1> DEFINE o == Owner[i]
             debit == Liability(o)
             credit == PendingWithdrawalLiability(o)
  <1>1. o \in Accounts /\ Amount[i] \in Nat /\ -Amount[i] \in Int /\ Amount[i] \in Int
    BY LedgerAssumption
  <1>2. "withdrawal_reservation" \in JournalTypes
    BY DEF JournalTypes
  <1>3. debit \in LedgerAccounts /\ credit \in LedgerAccounts /\ debit # credit
    BY <1>1, DistinctAccounts, Zenon
  <1>4. /\ PostJournal(i, "withdrawal_reservation", debit, credit)
        /\ UpdateBalance(Owner[i], -Amount[i], Amount[i])
    BY DEF ReserveWithdrawalBalance
  <1> HIDE DEF debit, credit
  <1>5. /\ LedgerTypeOK'
        /\ journals' = journals \cup {<<i, "withdrawal_reservation">>}
        /\ <<i, "withdrawal_reservation">> \notin journals
        /\ \A k \in LedgerAccounts :
             ledger'[k] = IF k = debit THEN ledger[k] - Amount[i]
                          ELSE IF k = credit THEN ledger[k] + Amount[i]
                          ELSE ledger[k]
        /\ \A a \in Accounts :
             /\ availableBalance'[a] =
                  availableBalance[a] + (IF a = Owner[i] THEN -Amount[i] ELSE 0)
             /\ pendingBalance'[a] =
                  pendingBalance[a] + (IF a = Owner[i] THEN Amount[i] ELSE 0)
    BY <1>1, <1>2, <1>3, <1>4, PostingStep
  <1>6. ProjectionMatchesLedger'
    BY <1>1, <1>5, DistinctAccounts
       DEF debit, credit, LedgerInv, LedgerTypeOK, ProjectionMatchesLedger
  <1> QED
    BY <1>5, <1>6 DEF LedgerInv

(* releaseWithdrawalReservation moves it back.                               *)
LEMMA ReleaseWithdrawalReservationStep ==
  ASSUME LedgerInv, NEW i \in Intents, ReleaseWithdrawalReservation(i)
  PROVE  /\ LedgerInv'
         /\ journals' = journals \cup {<<i, "withdrawal_reservation_release">>}
         /\ <<i, "withdrawal_reservation_release">> \notin journals
  <1> DEFINE o == Owner[i]
             debit == PendingWithdrawalLiability(o)
             credit == Liability(o)
  <1>1. o \in Accounts /\ Amount[i] \in Nat /\ Amount[i] \in Int /\ -Amount[i] \in Int
    BY LedgerAssumption
  <1>2. "withdrawal_reservation_release" \in JournalTypes
    BY DEF JournalTypes
  <1>3. debit \in LedgerAccounts /\ credit \in LedgerAccounts /\ debit # credit
    BY <1>1, DistinctAccounts, Zenon
  <1>4. /\ PostJournal(i, "withdrawal_reservation_release", debit, credit)
        /\ UpdateBalance(Owner[i], Amount[i], -Amount[i])
    BY DEF ReleaseWithdrawalReservation
  <1> HIDE DEF debit, credit
  <1>5. /\ LedgerTypeOK'
        /\ journals' = journals \cup {<<i, "withdrawal_reservation_release">>}
        /\ <<i, "withdrawal_reservation_release">> \notin journals
        /\ \A k \in LedgerAccounts :
             ledger'[k] = IF k = debit THEN ledger[k] - Amount[i]
                          ELSE IF k = credit THEN ledger[k] + Amount[i]
                          ELSE ledger[k]
        /\ \A a \in Accounts :
             /\ availableBalance'[a] =
                  availableBalance[a] + (IF a = Owner[i] THEN Amount[i] ELSE 0)
             /\ pendingBalance'[a] =
                  pendingBalance[a] + (IF a = Owner[i] THEN -Amount[i] ELSE 0)
    BY <1>1, <1>2, <1>3, <1>4, PostingStep
  <1>6. ProjectionMatchesLedger'
    BY <1>1, <1>5, DistinctAccounts
       DEF debit, credit, LedgerInv, LedgerTypeOK, ProjectionMatchesLedger
  <1> QED
    BY <1>5, <1>6 DEF LedgerInv

(* settleConfirmedWithdrawal takes it out of pending.                        *)
LEMMA SettleConfirmedWithdrawalStep ==
  ASSUME LedgerInv, NEW i \in Intents, SettleConfirmedWithdrawal(i)
  PROVE  /\ LedgerInv'
         /\ journals' = journals \cup {<<i, "withdrawal_settlement">>}
         /\ <<i, "withdrawal_settlement">> \notin journals
  <1> DEFINE o == Owner[i]
             debit == PendingWithdrawalLiability(o)
             credit == OutboundClearing
             dAvailable == 0
             dPending == -Amount[i]
  <1>1. o \in Accounts /\ Amount[i] \in Nat /\ dAvailable \in Int /\ dPending \in Int
    BY LedgerAssumption
  <1>2. "withdrawal_settlement" \in JournalTypes
    BY DEF JournalTypes
  <1>3. debit \in LedgerAccounts /\ credit \in LedgerAccounts /\ debit # credit
    BY <1>1, DistinctAccounts, Zenon
  <1>4. /\ PostJournal(i, "withdrawal_settlement", debit, credit)
        /\ UpdateBalance(Owner[i], dAvailable, dPending)
    BY DEF SettleConfirmedWithdrawal
  <1> HIDE DEF debit, credit, dAvailable, dPending
  <1>5. /\ LedgerTypeOK'
        /\ journals' = journals \cup {<<i, "withdrawal_settlement">>}
        /\ <<i, "withdrawal_settlement">> \notin journals
        /\ \A k \in LedgerAccounts :
             ledger'[k] = IF k = debit THEN ledger[k] - Amount[i]
                          ELSE IF k = credit THEN ledger[k] + Amount[i]
                          ELSE ledger[k]
        /\ \A a \in Accounts :
             /\ availableBalance'[a] =
                  availableBalance[a] + (IF a = Owner[i] THEN dAvailable ELSE 0)
             /\ pendingBalance'[a] =
                  pendingBalance[a] + (IF a = Owner[i] THEN dPending ELSE 0)
    BY <1>1, <1>2, <1>3, <1>4, PostingStep
  <1>6. ProjectionMatchesLedger'
    BY <1>1, <1>5, DistinctAccounts
       DEF debit, credit, dAvailable, dPending, LedgerInv, LedgerTypeOK, ProjectionMatchesLedger
  <1> QED
    BY <1>5, <1>6 DEF LedgerInv

(* The position of a vault is an account of its own, for each customer.      *)
LEMMA DistinctVaultAccounts ==
  ASSUME NEW a \in Accounts, NEW b \in Accounts
  PROVE  /\ VaultLiability(a) \in LedgerAccounts
         /\ VaultLiability(a) # Liability(b)
         /\ VaultLiability(a) # PendingWithdrawalLiability(b)
         /\ VaultLiability(a) # PendingTransferLiability(b)
         /\ VaultLiability(a) # InboundClearing
         /\ VaultLiability(a) = VaultLiability(b) <=> a = b
  BY DEF VaultLiability, Liability, PendingWithdrawalLiability, PendingTransferLiability,
         InboundClearing, LedgerAccounts

(* No other account of the ledger moves when a deposit is credited.          *)
LEMMA SettleConfirmedDepositKeepsVaults ==
  ASSUME LedgerInv, NEW i \in Intents, SettleConfirmedDeposit(i), NEW a \in Accounts
  PROVE  ledger'[VaultLiability(a)] = ledger[VaultLiability(a)]
  <1>1. Owner[i] \in Accounts
    BY LedgerAssumption
  <1>2. /\ VaultLiability(a) \in LedgerAccounts
        /\ VaultLiability(a) # InboundClearing /\ VaultLiability(a) # Liability(Owner[i])
    BY <1>1, DistinctVaultAccounts
  <1>3. ledger' = [ledger EXCEPT ![InboundClearing] = @ - Amount[i],
                                 ![Liability(Owner[i])] = @ + Amount[i]]
    BY DEF SettleConfirmedDeposit, PostJournal
  <1> QED
    BY <1>2, <1>3 DEF LedgerInv, LedgerTypeOK

(* fundRetirementVaultBalance moves the amount from the customer's balance   *)
(* to the position of the vault.                                             *)
LEMMA FundRetirementVaultBalanceStep ==
  ASSUME LedgerInv, NEW i \in Intents, FundRetirementVaultBalance(i)
  PROVE  /\ LedgerInv'
         /\ journals' = journals \cup {<<i, "retirement_vault_funding">>}
         /\ \A a \in Accounts :
              ledger'[VaultLiability(a)] =
                IF a = Owner[i] THEN ledger[VaultLiability(a)] + Amount[i]
                                ELSE ledger[VaultLiability(a)]
  <1> DEFINE o == Owner[i]
             debit == Liability(o)
             credit == VaultLiability(o)
             dAvailable == -Amount[i]
             dPending == 0
  <1>1. o \in Accounts /\ Amount[i] \in Nat /\ dAvailable \in Int /\ dPending \in Int
    BY LedgerAssumption
  <1>2. "retirement_vault_funding" \in JournalTypes
    BY DEF JournalTypes
  <1>3. debit \in LedgerAccounts /\ credit \in LedgerAccounts /\ debit # credit
    BY <1>1, DistinctAccounts, DistinctVaultAccounts, Zenon
  <1>4. /\ PostJournal(i, "retirement_vault_funding", debit, credit)
        /\ UpdateBalance(Owner[i], dAvailable, dPending)
    BY DEF FundRetirementVaultBalance
  <1> HIDE DEF debit, credit, dAvailable, dPending
  <1>5. /\ LedgerTypeOK'
        /\ journals' = journals \cup {<<i, "retirement_vault_funding">>}
        /\ <<i, "retirement_vault_funding">> \notin journals
        /\ \A k \in LedgerAccounts :
             ledger'[k] = IF k = debit THEN ledger[k] - Amount[i]
                          ELSE IF k = credit THEN ledger[k] + Amount[i]
                          ELSE ledger[k]
        /\ \A a \in Accounts :
             /\ availableBalance'[a] =
                  availableBalance[a] + (IF a = Owner[i] THEN dAvailable ELSE 0)
             /\ pendingBalance'[a] =
                  pendingBalance[a] + (IF a = Owner[i] THEN dPending ELSE 0)
    BY <1>1, <1>2, <1>3, <1>4, PostingStep, SMTT(30)
  <1>6. ProjectionMatchesLedger'
    BY <1>1, <1>5, DistinctAccounts, DistinctVaultAccounts
       DEF debit, credit, dAvailable, dPending, LedgerInv, LedgerTypeOK, ProjectionMatchesLedger
  <1>7. \A a \in Accounts :
          ledger'[VaultLiability(a)] =
            IF a = Owner[i] THEN ledger[VaultLiability(a)] + Amount[i]
                            ELSE ledger[VaultLiability(a)]
    BY <1>1, <1>5, DistinctVaultAccounts DEF debit, credit
  <1> QED
    BY <1>5, <1>6, <1>7 DEF LedgerInv

(* releaseRetirementVaultBalance moves it back.                              *)
LEMMA ReleaseRetirementVaultBalanceStep ==
  ASSUME LedgerInv, NEW i \in Intents, ReleaseRetirementVaultBalance(i)
  PROVE  /\ LedgerInv'
         /\ journals' = journals \cup {<<i, "retirement_vault_release">>}
         /\ \A a \in Accounts :
              ledger'[VaultLiability(a)] =
                IF a = Owner[i] THEN ledger[VaultLiability(a)] - Amount[i]
                                ELSE ledger[VaultLiability(a)]
  <1> DEFINE o == Owner[i]
             debit == VaultLiability(o)
             credit == Liability(o)
             dAvailable == Amount[i]
             dPending == 0
  <1>1. o \in Accounts /\ Amount[i] \in Nat /\ dAvailable \in Int /\ dPending \in Int
    BY LedgerAssumption
  <1>2. "retirement_vault_release" \in JournalTypes
    BY DEF JournalTypes
  <1>3. debit \in LedgerAccounts /\ credit \in LedgerAccounts /\ debit # credit
    BY <1>1, DistinctAccounts, DistinctVaultAccounts, Zenon
  <1>4. /\ PostJournal(i, "retirement_vault_release", debit, credit)
        /\ UpdateBalance(Owner[i], dAvailable, dPending)
    BY DEF ReleaseRetirementVaultBalance
  <1> HIDE DEF debit, credit, dAvailable, dPending
  <1>5. /\ LedgerTypeOK'
        /\ journals' = journals \cup {<<i, "retirement_vault_release">>}
        /\ <<i, "retirement_vault_release">> \notin journals
        /\ \A k \in LedgerAccounts :
             ledger'[k] = IF k = debit THEN ledger[k] - Amount[i]
                          ELSE IF k = credit THEN ledger[k] + Amount[i]
                          ELSE ledger[k]
        /\ \A a \in Accounts :
             /\ availableBalance'[a] =
                  availableBalance[a] + (IF a = Owner[i] THEN dAvailable ELSE 0)
             /\ pendingBalance'[a] =
                  pendingBalance[a] + (IF a = Owner[i] THEN dPending ELSE 0)
    BY <1>1, <1>2, <1>3, <1>4, PostingStep, SMTT(30)
  <1>6. ProjectionMatchesLedger'
    BY <1>1, <1>5, DistinctAccounts, DistinctVaultAccounts
       DEF debit, credit, dAvailable, dPending, LedgerInv, LedgerTypeOK, ProjectionMatchesLedger
  <1>7. \A a \in Accounts :
          ledger'[VaultLiability(a)] =
            IF a = Owner[i] THEN ledger[VaultLiability(a)] - Amount[i]
                            ELSE ledger[VaultLiability(a)]
    BY <1>1, <1>5, DistinctVaultAccounts DEF debit, credit
  <1> QED
    BY <1>5, <1>6, <1>7 DEF LedgerInv

(* reserveInternalBalanceTransferBalance sets the sender's amount aside.    *)
LEMMA ReserveTransferStep ==
  ASSUME LedgerInv, NEW i \in Intents, ReserveInternalBalanceTransferBalance(i)
  PROVE  /\ LedgerInv'
         /\ journals' = journals \cup {<<i, "internal_balance_transfer_reservation">>}
  <1> DEFINE o == Owner[i]
             debit == Liability(o)
             credit == PendingTransferLiability(o)
             dAvailable == -Amount[i]
             dPending == Amount[i]
  <1>1. o \in Accounts /\ Amount[i] \in Nat /\ dAvailable \in Int /\ dPending \in Int
    BY LedgerAssumption
  <1>2. "internal_balance_transfer_reservation" \in JournalTypes
    BY DEF JournalTypes
  <1>3. debit \in LedgerAccounts /\ credit \in LedgerAccounts /\ debit # credit
    BY <1>1, DistinctAccounts, Zenon
  <1>4. /\ PostJournal(i, "internal_balance_transfer_reservation", debit, credit)
        /\ UpdateBalance(Owner[i], dAvailable, dPending)
    BY DEF ReserveInternalBalanceTransferBalance
  <1> HIDE DEF debit, credit, dAvailable, dPending
  <1>5. /\ LedgerTypeOK'
        /\ journals' = journals \cup {<<i, "internal_balance_transfer_reservation">>}
        /\ <<i, "internal_balance_transfer_reservation">> \notin journals
        /\ \A k \in LedgerAccounts :
             ledger'[k] = IF k = debit THEN ledger[k] - Amount[i]
                          ELSE IF k = credit THEN ledger[k] + Amount[i]
                          ELSE ledger[k]
        /\ \A a \in Accounts :
             /\ availableBalance'[a] =
                  availableBalance[a] + (IF a = Owner[i] THEN dAvailable ELSE 0)
             /\ pendingBalance'[a] =
                  pendingBalance[a] + (IF a = Owner[i] THEN dPending ELSE 0)
    BY <1>1, <1>2, <1>3, <1>4, PostingStep, SMTT(30)
  <1>6. ProjectionMatchesLedger'
    BY <1>1, <1>5, DistinctAccounts
       DEF debit, credit, dAvailable, dPending, LedgerInv, LedgerTypeOK, ProjectionMatchesLedger
  <1> QED
    BY <1>5, <1>6 DEF LedgerInv

(* releaseInternalBalanceTransferReservation gives it back.                  *)
LEMMA ReleaseTransferStep ==
  ASSUME LedgerInv, NEW i \in Intents, ReleaseInternalBalanceTransferReservation(i)
  PROVE  /\ LedgerInv'
         /\ journals' = journals \cup {<<i, "internal_balance_transfer_reservation_release">>}
  <1> DEFINE o == Owner[i]
             debit == PendingTransferLiability(o)
             credit == Liability(o)
             dAvailable == Amount[i]
             dPending == -Amount[i]
  <1>1. o \in Accounts /\ Amount[i] \in Nat /\ dAvailable \in Int /\ dPending \in Int
    BY LedgerAssumption
  <1>2. "internal_balance_transfer_reservation_release" \in JournalTypes
    BY DEF JournalTypes
  <1>3. debit \in LedgerAccounts /\ credit \in LedgerAccounts /\ debit # credit
    BY <1>1, DistinctAccounts, Zenon
  <1>4. /\ PostJournal(i, "internal_balance_transfer_reservation_release", debit, credit)
        /\ UpdateBalance(Owner[i], dAvailable, dPending)
    BY DEF ReleaseInternalBalanceTransferReservation
  <1> HIDE DEF debit, credit, dAvailable, dPending
  <1>5. /\ LedgerTypeOK'
        /\ journals' = journals \cup {<<i, "internal_balance_transfer_reservation_release">>}
        /\ <<i, "internal_balance_transfer_reservation_release">> \notin journals
        /\ \A k \in LedgerAccounts :
             ledger'[k] = IF k = debit THEN ledger[k] - Amount[i]
                          ELSE IF k = credit THEN ledger[k] + Amount[i]
                          ELSE ledger[k]
        /\ \A a \in Accounts :
             /\ availableBalance'[a] =
                  availableBalance[a] + (IF a = Owner[i] THEN dAvailable ELSE 0)
             /\ pendingBalance'[a] =
                  pendingBalance[a] + (IF a = Owner[i] THEN dPending ELSE 0)
    BY <1>1, <1>2, <1>3, <1>4, PostingStep, SMTT(30)
  <1>6. ProjectionMatchesLedger'
    BY <1>1, <1>5, DistinctAccounts
       DEF debit, credit, dAvailable, dPending, LedgerInv, LedgerTypeOK, ProjectionMatchesLedger
  <1> QED
    BY <1>5, <1>6 DEF LedgerInv

(* settleInternalBalanceTransfer pays the recipient, from the reservation or *)
(* from the sender's available balance.                                      *)
LEMMA SettleTransferStep ==
  ASSUME LedgerInv, NEW i \in Intents, NEW recipient \in Accounts, recipient # Owner[i],
         NEW fromPending \in BOOLEAN,
         SettleInternalBalanceTransfer(i, recipient, fromPending)
  PROVE  /\ LedgerInv'
         /\ journals' = journals \cup {<<i, "internal_balance_transfer_settlement">>}
  <1> DEFINE o == Owner[i]
             debit == IF fromPending THEN PendingTransferLiability(o) ELSE Liability(o)
             credit == Liability(recipient)
  <1>1. o \in Accounts /\ Amount[i] \in Nat /\ o # recipient
    BY LedgerAssumption
  <1>2. debit \in LedgerAccounts /\ credit \in LedgerAccounts /\ debit # credit
    BY <1>1, DistinctAccounts
  <1>3. /\ journals' = journals \cup {<<i, "internal_balance_transfer_settlement">>}
        /\ ledger' = [ledger EXCEPT ![debit] = @ - Amount[i], ![credit] = @ + Amount[i]]
        /\ (IF fromPending THEN pendingBalance ELSE availableBalance)[o] >= Amount[i]
        /\ pendingBalance' = [pendingBalance EXCEPT
                                ![o] = IF fromPending THEN @ - Amount[i] ELSE @]
        /\ availableBalance' = [availableBalance EXCEPT
                                  ![o] = IF fromPending THEN @ ELSE @ - Amount[i],
                                  ![recipient] = @ + Amount[i]]
    BY DEF SettleInternalBalanceTransfer, PostJournal
  <1>4. /\ availableBalance \in [Accounts -> Nat] /\ pendingBalance \in [Accounts -> Nat]
        /\ ledger \in [LedgerAccounts -> Int]
        /\ journals \subseteq (Intents \cup Agreements) \X JournalTypes
    BY DEF LedgerInv, LedgerTypeOK
  <1>5. \A k \in LedgerAccounts :
          ledger'[k] = IF k = debit THEN ledger[k] - Amount[i]
                       ELSE IF k = credit THEN ledger[k] + Amount[i]
                       ELSE ledger[k]
    <2> HIDE DEF debit, credit
    <2> QED
      BY <1>1, <1>2, <1>3, <1>4
  <1>6. ledger' \in [LedgerAccounts -> Int]
    <2> HIDE DEF debit, credit
    <2> QED
      BY <1>1, <1>2, <1>3, <1>4
  <1>7. \A a \in Accounts :
          /\ pendingBalance'[a] = IF a = o /\ fromPending THEN pendingBalance[a] - Amount[i]
                                                          ELSE pendingBalance[a]
          /\ availableBalance'[a] =
               IF a = recipient THEN availableBalance[a] + Amount[i]
               ELSE IF a = o /\ ~fromPending THEN availableBalance[a] - Amount[i]
               ELSE availableBalance[a]
    <2> HIDE DEF debit, credit
    <2> QED
      BY <1>1, <1>3, <1>4
  <1>8. pendingBalance' \in [Accounts -> Nat] /\ availableBalance' \in [Accounts -> Nat]
    <2> HIDE DEF debit, credit
    <2> QED
      BY <1>1, <1>3, <1>4
  <1>9. journals' \subseteq (Intents \cup Agreements) \X JournalTypes
    BY <1>3, <1>4 DEF JournalTypes
  <1>10. ProjectionMatchesLedger'
    <2> SUFFICES ASSUME NEW a \in Accounts
                 PROVE  /\ availableBalance'[a] = ledger'[Liability(a)]
                        /\ pendingBalance'[a] = ledger'[PendingWithdrawalLiability(a)]
                                                 + ledger'[PendingTransferLiability(a)]
      BY DEF ProjectionMatchesLedger
    <2>1. /\ availableBalance[a] = ledger[Liability(a)]
          /\ pendingBalance[a] = ledger[PendingWithdrawalLiability(a)]
                                   + ledger[PendingTransferLiability(a)]
      BY DEF LedgerInv, ProjectionMatchesLedger
    <2>2. /\ Liability(a) \in LedgerAccounts
          /\ PendingWithdrawalLiability(a) \in LedgerAccounts
          /\ PendingTransferLiability(a) \in LedgerAccounts
          /\ ledger[PendingWithdrawalLiability(a)] \in Int
          /\ ledger[PendingTransferLiability(a)] \in Int
          /\ availableBalance[a] \in Nat /\ pendingBalance[a] \in Nat
      BY <1>4, DistinctAccounts
    <2>3. /\ ledger'[Liability(a)] =
               IF a = recipient THEN ledger[Liability(a)] + Amount[i]
               ELSE IF a = o /\ ~fromPending THEN ledger[Liability(a)] - Amount[i]
               ELSE ledger[Liability(a)]
          /\ ledger'[PendingWithdrawalLiability(a)] = ledger[PendingWithdrawalLiability(a)]
          /\ ledger'[PendingTransferLiability(a)] =
               IF a = o /\ fromPending THEN ledger[PendingTransferLiability(a)] - Amount[i]
               ELSE ledger[PendingTransferLiability(a)]
      BY <1>1, <1>5, <2>2, DistinctAccounts
    <2> QED
      BY <1>1, <1>7, <2>1, <2>2, <2>3
  <1> QED
    BY <1>3, <1>6, <1>8, <1>9, <1>10 DEF LedgerInv, LedgerTypeOK

(* The receivables and the bank's own accounts are no customer's.            *)
LEMMA DistinctLoanAccounts ==
  ASSUME NEW l \in Agreements, NEW a \in Accounts
  PROVE  /\ {PrincipalReceivable(l), FeeReceivable(l), FeeIncome, OutboundClearing}
              \subseteq LedgerAccounts
         /\ \A k \in {PrincipalReceivable(l), FeeReceivable(l), FeeIncome, OutboundClearing} :
              /\ k # Liability(a) /\ k # PendingWithdrawalLiability(a)
              /\ k # PendingTransferLiability(a)
         /\ PrincipalReceivable(l) # FeeReceivable(l)
  BY DEF PrincipalReceivable, FeeReceivable, FeeIncome, OutboundClearing, Liability,
         PendingWithdrawalLiability, PendingTransferLiability, LedgerAccounts

(* A journal of a loan adds its postings.                                    *)
LEMMA PostLoanJournalStep ==
  ASSUME LedgerInv, NEW l \in Agreements, NEW type \in JournalTypes, NEW postings,
         \A k \in DOMAIN postings : postings[k] \in Int,
         PostLoanJournal(l, type, postings)
  PROVE  /\ ledger' \in [LedgerAccounts -> Int]
         /\ journals' \subseteq (Intents \cup Agreements) \X JournalTypes
         /\ \A k \in LedgerAccounts :
              ledger'[k] = IF k \in DOMAIN postings THEN ledger[k] + postings[k] ELSE ledger[k]
  <1>1. /\ ledger \in [LedgerAccounts -> Int]
        /\ journals \subseteq (Intents \cup Agreements) \X JournalTypes
    BY DEF LedgerInv, LedgerTypeOK
  <1>2. /\ journals' = journals \cup {<<l, type>>}
        /\ ledger' = [k \in LedgerAccounts |->
                        ledger[k] + (IF k \in DOMAIN postings THEN postings[k] ELSE 0)]
    BY DEF PostLoanJournal
  <1> QED
    BY <1>1, <1>2

(* recordLoanDisbursement pays on chain: no customer's balance changes.      *)
LEMMA RecordLoanDisbursementStep ==
  ASSUME LedgerInv, NEW l \in Agreements, NEW principal \in Int, NEW fee \in Int,
         RecordLoanDisbursement(l, principal, fee)
  PROVE  LedgerInv'
  <1>1. PICK postings :
          /\ PostLoanJournal(l, "loan_disbursement", postings)
          /\ postings = [k \in {PrincipalReceivable(l), OutboundClearing,
                                FeeReceivable(l), FeeIncome} |->
                           CASE k = PrincipalReceivable(l) -> -principal
                             [] k = OutboundClearing -> principal
                             [] k = FeeReceivable(l) -> -fee
                             [] OTHER -> fee]
          /\ UNCHANGED <<availableBalance, pendingBalance>>
    BY DEF RecordLoanDisbursement
  <1>2. \A k \in DOMAIN postings : postings[k] \in Int
    BY <1>1
  <1>3. "loan_disbursement" \in JournalTypes
    BY DEF JournalTypes
  <1>4. /\ ledger' \in [LedgerAccounts -> Int]
        /\ journals' \subseteq (Intents \cup Agreements) \X JournalTypes
        /\ \A k \in LedgerAccounts :
             ledger'[k] = IF k \in DOMAIN postings THEN ledger[k] + postings[k] ELSE ledger[k]
    BY <1>1, <1>2, <1>3, PostLoanJournalStep
  <1>5. ASSUME NEW a \in Accounts
        PROVE  /\ ledger'[Liability(a)] = ledger[Liability(a)]
               /\ ledger'[PendingWithdrawalLiability(a)] = ledger[PendingWithdrawalLiability(a)]
               /\ ledger'[PendingTransferLiability(a)] = ledger[PendingTransferLiability(a)]
    <2>1. {Liability(a), PendingWithdrawalLiability(a), PendingTransferLiability(a)}
            \subseteq LedgerAccounts
      BY DistinctAccounts
    <2>2. /\ Liability(a) \notin DOMAIN postings
          /\ PendingWithdrawalLiability(a) \notin DOMAIN postings
          /\ PendingTransferLiability(a) \notin DOMAIN postings
      BY <1>1, DistinctLoanAccounts
    <2> QED
      BY <1>4, <2>1, <2>2
  <1> QED
    BY <1>1, <1>4, <1>5 DEF LedgerInv, LedgerTypeOK, ProjectionMatchesLedger

(* recordLoanRepayment takes principal and fee from the borrower.            *)
LEMMA RecordLoanRepaymentStep ==
  ASSUME LedgerInv, NEW l \in Agreements, NEW borrower \in Accounts,
         NEW principal \in Int, NEW fee \in Int,
         RecordLoanRepayment(l, borrower, principal, fee)
  PROVE  LedgerInv'
  <1>1. PICK postings :
          /\ PostLoanJournal(l, "loan_repayment", postings)
          /\ postings = [k \in {Liability(borrower), PrincipalReceivable(l), FeeReceivable(l)} |->
                           CASE k = Liability(borrower) -> -(principal + fee)
                             [] k = PrincipalReceivable(l) -> principal
                             [] OTHER -> fee]
          /\ UpdateBalance(borrower, -(principal + fee), 0)
    BY DEF RecordLoanRepayment
  <1>2. \A k \in DOMAIN postings : postings[k] \in Int
    BY <1>1
  <1>3. "loan_repayment" \in JournalTypes
    BY DEF JournalTypes
  <1>4. /\ ledger' \in [LedgerAccounts -> Int]
        /\ journals' \subseteq (Intents \cup Agreements) \X JournalTypes
        /\ \A k \in LedgerAccounts :
             ledger'[k] = IF k \in DOMAIN postings THEN ledger[k] + postings[k] ELSE ledger[k]
    BY <1>1, <1>2, <1>3, PostLoanJournalStep
  <1>5. /\ availableBalance \in [Accounts -> Nat] /\ pendingBalance \in [Accounts -> Nat]
        /\ ledger \in [LedgerAccounts -> Int]
    BY DEF LedgerInv, LedgerTypeOK
  <1>6. /\ availableBalance' \in [Accounts -> Nat] /\ pendingBalance' \in [Accounts -> Nat]
        /\ \A a \in Accounts :
             /\ availableBalance'[a] = IF a = borrower THEN availableBalance[a] - (principal + fee)
                                                       ELSE availableBalance[a]
             /\ pendingBalance'[a] = pendingBalance[a]
    BY <1>1, <1>5 DEF UpdateBalance
  <1>7. ASSUME NEW a \in Accounts
        PROVE  /\ ledger'[Liability(a)] = IF a = borrower THEN ledger[Liability(a)] - (principal + fee)
                                                          ELSE ledger[Liability(a)]
               /\ ledger'[PendingWithdrawalLiability(a)] = ledger[PendingWithdrawalLiability(a)]
               /\ ledger'[PendingTransferLiability(a)] = ledger[PendingTransferLiability(a)]
    <2>1. /\ Liability(a) \in LedgerAccounts /\ ledger[Liability(a)] \in Int
          /\ PendingWithdrawalLiability(a) \in LedgerAccounts
          /\ PendingTransferLiability(a) \in LedgerAccounts
      BY <1>5, DistinctAccounts
    <2>2. /\ Liability(a) \in DOMAIN postings <=> a = borrower
          /\ PendingWithdrawalLiability(a) \notin DOMAIN postings
          /\ PendingTransferLiability(a) \notin DOMAIN postings
      BY <1>1, DistinctAccounts, DistinctLoanAccounts
    <2>3. postings[Liability(borrower)] = -(principal + fee)
      <3>1. Liability(borrower) # PrincipalReceivable(l) /\ Liability(borrower) # FeeReceivable(l)
        BY DistinctLoanAccounts
      <3> QED
        BY <1>1, <3>1
    <2> QED
      BY <1>4, <2>1, <2>2, <2>3
  <1>8. /\ availableBalance[borrower] = ledger[Liability(borrower)]
        /\ \A a \in Accounts : availableBalance[a] = ledger[Liability(a)]
    BY DEF LedgerInv, ProjectionMatchesLedger
  <1>9. ProjectionMatchesLedger'
    BY <1>6, <1>7, <1>8 DEF LedgerInv, ProjectionMatchesLedger
  <1> QED
    BY <1>4, <1>6, <1>9 DEF LedgerInv, LedgerTypeOK
=============================================================================
