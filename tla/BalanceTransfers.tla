--------------------------- MODULE BalanceTransfers ---------------------------
(***************************************************************************)
(* BalanceTransfersService (apps/api/src/balance-transfers/                *)
(* balance-transfers.service.ts): a customer sends money to another        *)
(* customer of the bank.  Below a threshold the transfer settles in the    *)
(* transaction that creates it; above it the amount is reserved and an     *)
(* operator decides.                                                       *)
(*                                                                         *)
(* decideBalanceTransfer reads the intent before its transaction and       *)
(* writes by id, so a decision is two actions, as in WithdrawalIntents.    *)
(* The accounts' lifecycle is checked when a transfer is created and not   *)
(* afterwards; whether a creation is refused for it is the customer's loss *)
(* of an opportunity and needs no state here.                              *)
(***************************************************************************)
EXTENDS Ledger

CONSTANTS Transfers,      \* the intents of type internal_balance_transfer
          Recipient,      \* recipientCustomerAccountId
          ReviewedTransfers,  \* those determineThresholdOutcome sends to review
          Deciders,       \* decisions the API serves at a time (a bound)
          Contended       \* transfers that two decisions may overlap on

ASSUME TransferAssumption ==
  /\ Transfers \subseteq Intents
  /\ Recipient \in [Transfers -> Accounts]
  /\ \A t \in Transfers : Recipient[t] # Owner[t]
  /\ ReviewedTransfers \subseteq Transfers
  /\ Contended \subseteq Transfers

VARIABLES transferStatus,  \* TransactionIntent.status, "absent" before creation
          transferCase,    \* status of the intent's review case
          decision         \* what the handler running in a slot decided on

transferVars == <<transferStatus, transferCase, decision>>

TransferStatuses == {"absent", "review_required", "settled", "cancelled"}
NoDecision == [op |-> "idle"]
TransferDecisions == [op : {"approved", "denied"}, transfer : Transfers]

TransferTypeOK ==
  /\ LedgerTypeOK
  /\ transferStatus \in [Transfers -> TransferStatuses]
  /\ transferCase \in [Transfers -> {"none", "open", "resolved"}]
  /\ decision \in [Deciders -> TransferDecisions \cup {NoDecision}]

TransferInit ==
  /\ transferStatus = [t \in Transfers |-> "absent"]
  /\ transferCase = [t \in Transfers |-> "none"]
  /\ decision = [d \in Deciders |-> NoDecision]

-----------------------------------------------------------------------------
(* The unique idempotency key makes every repetition of the request a read  *)
(* of the intent that exists.                                               *)
CreateBalanceTransfer(t) ==
  /\ transferStatus[t] = "absent"
  /\ IF t \in ReviewedTransfers
       THEN /\ ReserveInternalBalanceTransferBalance(t)
            /\ transferStatus' = [transferStatus EXCEPT ![t] = "review_required"]
            /\ transferCase' = [transferCase EXCEPT ![t] = "open"]
       ELSE /\ SettleInternalBalanceTransfer(t, Recipient[t], FALSE)
            /\ transferStatus' = [transferStatus EXCEPT ![t] = "settled"]
            /\ UNCHANGED transferCase
  /\ UNCHANGED decision

(* A decision that repeats the one taken is answered without a write.       *)
BeginDecideTransfer(d, t, op) ==
  /\ decision[d] = NoDecision
  /\ transferStatus[t] = "review_required"
  /\ \A e \in Deciders : decision[e] # NoDecision /\ decision[e].transfer = t
                           => t \in Contended
  /\ decision' = [decision EXCEPT ![d] = [op |-> op, transfer |-> t]]
  /\ UNCHANGED <<ledgerVars, transferStatus, transferCase>>

CommitTransferDenial(d) ==
  LET t == decision[d].transfer IN
  /\ decision[d].op = "denied"
  /\ ReleaseInternalBalanceTransferReservation(t)
  /\ transferStatus' = [transferStatus EXCEPT ![t] = "cancelled"]
  /\ transferCase' = [transferCase EXCEPT ![t] = "resolved"]
  /\ decision' = [decision EXCEPT ![d] = NoDecision]

(* Mutant: the case of an approved transfer stays open. *)
ApproveKeepingCase(d) ==
  LET t == decision[d].transfer IN
  /\ decision[d].op = "approved"
  /\ SettleInternalBalanceTransfer(t, Recipient[t], TRUE)
  /\ transferStatus' = [transferStatus EXCEPT ![t] = "settled"]
  /\ decision' = [decision EXCEPT ![d] = NoDecision]
  /\ UNCHANGED transferCase

CommitTransferApproval(d) ==
  LET t == decision[d].transfer IN
  /\ decision[d].op = "approved"
  /\ SettleInternalBalanceTransfer(t, Recipient[t], TRUE)
  /\ transferStatus' = [transferStatus EXCEPT ![t] = "settled"]
  /\ transferCase' = [transferCase EXCEPT ![t] = "resolved"]
  /\ decision' = [decision EXCEPT ![d] = NoDecision]

(* The transaction rolls back: a ledger method throws, or the API dies.     *)
AbortTransferDecision(d) ==
  /\ decision[d] # NoDecision
  /\ decision' = [decision EXCEPT ![d] = NoDecision]
  /\ UNCHANGED <<ledgerVars, transferStatus, transferCase>>

TransferNext ==
  \/ \E t \in Transfers : CreateBalanceTransfer(t)
  \/ \E d \in Deciders :
       \/ \E t \in Transfers, op \in {"approved", "denied"} :
            BeginDecideTransfer(d, t, op)
       \/ CommitTransferApproval(d) \/ CommitTransferDenial(d)
       \/ AbortTransferDecision(d)

-----------------------------------------------------------------------------
TransferReserved(t) ==
  <<t, "internal_balance_transfer_reservation">> \in journals
TransferReleased(t) ==
  <<t, "internal_balance_transfer_reservation_release">> \in journals
TransferPaid(t) ==
  <<t, "internal_balance_transfer_settlement">> \in journals

TransfersHeld(a) ==
  {t \in Transfers : Owner[t] = a /\ TransferReserved(t)
                       /\ ~TransferReleased(t) /\ ~TransferPaid(t)}

(* A transfer moves its amount once and in one direction: a settled one has *)
(* been paid to the recipient and never given back to the sender, a         *)
(* cancelled one has been given back and never paid, and the review case is *)
(* open exactly while the money waits.  (The settlement and the release of  *)
(* one reservation carry different journal types, so no index excludes them *)
(* from both happening.)                                                    *)
TransferMovesOnce ==
  \A t \in Transfers \ Contended :
    /\ TransferPaid(t) <=> transferStatus[t] = "settled"
    /\ TransferReleased(t) <=> transferStatus[t] = "cancelled"
    /\ TransferReserved(t) <=> t \in ReviewedTransfers /\ transferStatus[t] # "absent"
    /\ transferCase[t] = "open" <=> transferStatus[t] = "review_required"
=============================================================================
