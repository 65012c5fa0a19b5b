----------------------------- MODULE BankProofs -----------------------------
(***************************************************************************)
(* What customers are promised, for any number of accounts, withdrawals,   *)
(* transfers and concurrent requests: WithdrawalIntents implements         *)
(* WithdrawalPromise, as long as requests for one withdrawal do not        *)
(* overlap; withdrawals and internal transfers share one ledger without    *)
(* disturbing one another; and no money is made or lost on the way.        *)
(***************************************************************************)
EXTENDS Bank, WithdrawalIntentsProofs, SumProofs

Money == [i \in Withdrawals |-> Whereabouts(i)]

(* A status tells where the money of a withdrawal is.                       *)
LEMMA StatusTellsWhere ==
  ASSUME Inv, Overlapping = {}, NEW i \in Withdrawals
  PROVE  /\ status[i] = "absent" => Whereabouts(i) = "customer"
         /\ status[i] \in Live => Whereabouts(i) = "held"
         /\ Released(i) => ~Settled(i)
  <1>1. ReservationFollowsStatus(i)
    BY DEF Inv, EveryReservationFollowsStatus
  <1> QED
    BY <1>1 DEF ReservationFollowsStatus, Whereabouts, Live

(* A journal of one intent says nothing of the money of another one.        *)
LEMMA OthersStay ==
  ASSUME NEW i, NEW type, journals' = journals \cup {<<i, type>>},
         NEW j \in Withdrawals, j # i
  PROVE  Whereabouts(j)' = Whereabouts(j)
  BY DEF Whereabouts, Reserved, Released, Settled

(* A journal moves the money of its withdrawal to one place.                *)
LEMMA MoneyMoves ==
  ASSUME NEW i \in Withdrawals, NEW type, journals' = journals \cup {<<i, type>>},
         NEW place, Whereabouts(i)' = place
  PROVE  Money' = [Money EXCEPT ![i] = place]
  <1>1. \A j \in Withdrawals : j # i => Whereabouts(j)' = Whereabouts(j)
    BY OthersStay
  <1> QED
    BY <1>1 DEF Money

(* What became of an amount is a function of the journals. *)
LEMMA MoneyStays ==
  ASSUME journals' = journals
  PROVE  Money' = Money
  BY DEF Money, Whereabouts, Reserved, Released, Settled

-----------------------------------------------------------------------------
(* The steps that move money *)

(* A customer's deposit.                                                    *)
LEMMA ReceiveStep ==
  ASSUME Inv, NEW d \in Intents \ Withdrawals, CreditDeposit(d)
  PROVE  Promise!Receive(d)
  <1>1. /\ journals' = journals \cup {<<d, "deposit_settlement">>}
        /\ availableBalance' = [availableBalance EXCEPT ![Owner[d]] = @ + Amount[d]]
    BY DEF CreditDeposit, SettleConfirmedDeposit, PostJournal, UpdateBalance
  <1>2. \A j \in Withdrawals : Whereabouts(j)' = Whereabouts(j)
    BY <1>1, OthersStay
  <1> QED
    BY <1>1, <1>2 DEF Promise!Receive

(* The creation of a withdrawal takes its amount.                           *)
LEMMA HoldStep ==
  ASSUME Inv, Overlapping = {}, NEW i \in Withdrawals, CreateWithdrawalIntent(i)
  PROVE  Promise!Hold(i)
  <1>1. /\ i \in Intents /\ Owner[i] \in Accounts /\ Amount[i] \in Nat
        /\ availableBalance \in [Accounts -> Nat]
    BY WithdrawalAssumption, LedgerAssumption DEF Inv, TypeInv, TypeOK, LedgerTypeOK
  <1>2. /\ journals' = journals \cup {<<i, "withdrawal_reservation">>}
        /\ availableBalance[Owner[i]] + (-Amount[i]) >= 0
        /\ availableBalance' = [availableBalance EXCEPT ![Owner[i]] = @ + (-Amount[i])]
    BY DEF CreateWithdrawalIntent, ReserveWithdrawalBalance, PostJournal, UpdateBalance
  <1>3. /\ availableBalance[Owner[i]] >= Amount[i]
        /\ availableBalance' = [availableBalance EXCEPT ![Owner[i]] = @ - Amount[i]]
    <2>1. \A x \in Nat, y \in Nat : x + (-y) = x - y /\ (x + (-y) >= 0 => x >= y)
      OBVIOUS
    <2>2. availableBalance[Owner[i]] \in Nat
      BY <1>1
    <2> DEFINE x == availableBalance[Owner[i]]
    <2>3. x + (-Amount[i]) = x - Amount[i] /\ x >= Amount[i]
      BY <1>1, <1>2, <2>1, <2>2
    <2> QED
      BY <1>2, <2>3
  <1>4. ReservationFollowsStatus(i) /\ status[i] = "absent"
    BY DEF Inv, EveryReservationFollowsStatus, CreateWithdrawalIntent
  <1>5. Whereabouts(i) = "customer" /\ Whereabouts(i)' = "held"
    BY <1>2, <1>4 DEF ReservationFollowsStatus, Whereabouts, Reserved, Released, Settled
  <1>6. Money' = [Money EXCEPT ![i] = "held"]
    BY <1>2, <1>5, MoneyMoves
  <1> QED
    BY <1>3, <1>5, <1>6 DEF Promise!Hold, Money

(* A denial or a permanent failure gives it back.                           *)
LEMMA ReturnStep ==
  ASSUME Inv, Overlapping = {}, NEW i \in Withdrawals, status[i] \in Live,
         ReleaseWithdrawalReservation(i)
  PROVE  Promise!Return(i)
  <1>1. /\ journals' = journals \cup {<<i, "withdrawal_reservation_release">>}
        /\ availableBalance' = [availableBalance EXCEPT ![Owner[i]] = @ + Amount[i]]
    BY DEF ReleaseWithdrawalReservation, PostJournal, UpdateBalance
  <1>2. ReservationFollowsStatus(i)
    BY DEF Inv, EveryReservationFollowsStatus
  <1>3. Whereabouts(i) = "held" /\ Whereabouts(i)' = "returned"
    BY <1>1, <1>2 DEF ReservationFollowsStatus, Whereabouts, Reserved, Released, Settled, Live
  <1>4. Money' = [Money EXCEPT ![i] = "returned"]
    BY <1>1, <1>3, MoneyMoves
  <1> QED
    BY <1>1, <1>3, <1>4 DEF Promise!Return, Money

(* The settlement pays it out.                                              *)
LEMMA PayStep ==
  ASSUME Inv, Overlapping = {}, NEW i \in Withdrawals, status[i] \in Live,
         SettleConfirmedWithdrawal(i)
  PROVE  Promise!Pay(i)
  <1>1. /\ journals' = journals \cup {<<i, "withdrawal_settlement">>}
        /\ availableBalance' = [availableBalance EXCEPT ![Owner[i]] = @ + 0]
    BY DEF SettleConfirmedWithdrawal, PostJournal, UpdateBalance
  <1>2. availableBalance' = availableBalance
    <2>1. availableBalance \in [Accounts -> Nat]
      BY DEF Inv, TypeInv, TypeOK, LedgerTypeOK
    <2> QED
      BY <1>1, <2>1
  <1>3. ReservationFollowsStatus(i)
    BY DEF Inv, EveryReservationFollowsStatus
  <1>4. Whereabouts(i) = "held" /\ Whereabouts(i)' = "paid"
    BY <1>1, <1>3 DEF ReservationFollowsStatus, Whereabouts, Reserved, Released, Settled, Live
  <1>5. Money' = [Money EXCEPT ![i] = "paid"]
    BY <1>1, <1>4, MoneyMoves
  <1> QED
    BY <1>2, <1>4, <1>5 DEF Promise!Pay, Money

(* Everything else moves none.                                              *)
LEMMA QuietPromise ==
  ASSUME UNCHANGED ledgerVars
  PROVE  UNCHANGED <<availableBalance, Money>>
  BY MoneyStays DEF ledgerVars

-----------------------------------------------------------------------------
(* A commit returns the money, pays it out, or leaves it where it is.       *)
LEMMA CommitPromise ==
  ASSUME Inv, Overlapping = {}, NEW s \in Slots, Commit(s)
  PROVE  [Promise!PromiseNext]_<<availableBalance, Money>>
  <1> DEFINE i == request[s].intent
  <1>1. ASSUME NEW op \in Operations, Serving(s, op)
        PROVE  i \in Withdrawals /\ status[i] \in ReadStatus[op]
    BY <1>1, CommitKnows
  <1>2. CASE CommitDeny(s)
    <2>1. Serving(s, "deny") /\ ReleaseWithdrawalReservation(i) /\ "deny" \in Operations
      BY <1>2 DEF CommitDeny, Operations
    <2>2. i \in Withdrawals /\ status[i] \in Live
      BY <1>1, <2>1 DEF ReadStatus, Live
    <2> QED
      BY <2>1, <2>2, ReturnStep DEF Promise!PromiseNext
  <1>3. CASE CommitFail(s)
    <2>1. Serving(s, "fail") /\ "fail" \in Operations
      BY <1>3 DEF CommitFail, Operations
    <2>2. i \in Withdrawals /\ status[i] \in Live
      BY <1>1, <2>1 DEF ReadStatus, Live
    <2>3. CASE ReleaseWithdrawalReservation(i)
      BY <2>2, <2>3, ReturnStep DEF Promise!PromiseNext
    <2>4. CASE UNCHANGED ledgerVars
      BY <2>4, QuietPromise
    <2> QED
      BY <1>3, <2>3, <2>4 DEF CommitFail
  <1>4. CASE CommitSettle(s)
    <2>1. Serving(s, "settle") /\ SettleConfirmedWithdrawal(i) /\ "settle" \in Operations
      BY <1>4 DEF CommitSettle, Operations
    <2>2. i \in Withdrawals /\ status[i] \in Live
      BY <1>1, <2>1 DEF ReadStatus, Live
    <2> QED
      BY <2>1, <2>2, PayStep DEF Promise!PromiseNext
  <1>5. CASE \/ CommitApprove(s) \/ CommitQueue(s) \/ CommitStart(s) \/ CommitSign(s)
             \/ CommitBroadcast(s) \/ CommitConfirm(s) \/ CommitResolve(s)
    <2>1. UNCHANGED ledgerVars
      BY <1>5 DEF CommitApprove, CommitQueue, CommitStart, CommitSign,
                  CommitBroadcast, CommitConfirm, CommitResolve
    <2> QED
      BY <2>1, QuietPromise
  <1> QED
    BY <1>2, <1>3, <1>4, <1>5 DEF Commit

(* Every step of the service is a step of the promise, or moves nothing.    *)
LEMMA PromiseStep ==
  Overlapping = {} /\ Inv /\ [Next]_vars
    => [Promise!PromiseNext]_<<availableBalance, Money>>
  <1> SUFFICES ASSUME Overlapping = {}, Inv, [Next]_vars
               PROVE  [Promise!PromiseNext]_<<availableBalance, Money>>
    OBVIOUS
  <1>1. ASSUME NEW d \in Intents \ Withdrawals, CreditDeposit(d)
        PROVE  Promise!PromiseNext
    BY <1>1, ReceiveStep DEF Promise!PromiseNext
  <1>2. ASSUME NEW i \in Withdrawals, CreateWithdrawalIntent(i)
        PROVE  Promise!PromiseNext
    BY <1>2, HoldStep DEF Promise!PromiseNext
  <1>3. ASSUME NEW i \in Withdrawals, ClaimTimesOut(i)
        PROVE  UNCHANGED ledgerVars
    BY <1>3 DEF ClaimTimesOut
  <1>4. ASSUME NEW s \in Slots, NEW i \in Withdrawals, Read(s, i)
        PROVE  UNCHANGED ledgerVars
    BY <1>4 DEF Read, BeginDecide, BeginQueue, BeginStart, BeginSign, BeginBroadcast,
                BeginFail, BeginConfirm, BeginSettle, BeginResolve, Begin
  <1>5. ASSUME NEW s \in Slots, Commit(s)
        PROVE  [Promise!PromiseNext]_<<availableBalance, Money>>
    BY <1>5, CommitPromise
  <1>6. ASSUME NEW s \in Slots, Abort(s)
        PROVE  UNCHANGED ledgerVars
    BY <1>6 DEF Abort
  <1>7. CASE UNCHANGED vars
    BY <1>7, QuietPromise DEF vars
  <1> QED
    BY <1>1, <1>2, <1>3, <1>4, <1>5, <1>6, <1>7, QuietPromise DEF Next

(* Initially every amount is with its customer.                             *)
LEMMA PromiseInitial == Init => Promise!PromiseInit
  BY DEF Init, LedgerInit, Promise!PromiseInit, Whereabouts, Reserved, Released, Settled

(* The withdrawal service keeps its promise: while no two requests for one  *)
(* withdrawal overlap, its amount is taken once and then either paid out    *)
(* once or given back once, whatever requests for the others do.            *)
THEOREM PromiseCorrect == Overlapping = {} => (Spec => PromiseKept)
  <1> SUFFICES ASSUME Overlapping = {} PROVE Spec => PromiseKept
    OBVIOUS
  <1>1. Inv /\ [Next]_vars => [Promise!PromiseNext]_<<availableBalance, Money>>
    BY PromiseStep
  <1> QED
    BY <1>1, PromiseInitial, Invariance, PTL
       DEF Spec, PromiseKept, Promise!PromiseSpec, Money

-----------------------------------------------------------------------------
(* Internal transfers beside the withdrawals.  A decision writes by id what *)
(* it read before: what it read still holds, for it is alone.               *)

DecisionRows == TransferDecisions \cup {NoDecision}
TransferJournals == {"internal_balance_transfer_reservation",
                     "internal_balance_transfer_reservation_release",
                     "internal_balance_transfer_settlement"}

TransferRowsOK ==
  /\ transferStatus \in [Transfers -> TransferStatuses]
  /\ transferCase \in [Transfers -> {"none", "open", "resolved"}]
  /\ decision \in [Deciders -> DecisionRows]

(* A decision is alone on its transfer, which still waits for it.           *)
DecisionIsFresh(d) ==
  decision[d] # NoDecision /\ decision[d].transfer \notin Contended =>
    /\ transferStatus[decision[d].transfer] = "review_required"
    /\ \A e \in Deciders :
         decision[e] # NoDecision /\ decision[e].transfer = decision[d].transfer => e = d

TransferMoves(t) ==
  /\ TransferPaid(t) <=> transferStatus[t] = "settled"
  /\ TransferReleased(t) <=> transferStatus[t] = "cancelled"
  /\ TransferReserved(t) <=> t \in ReviewedTransfers /\ transferStatus[t] # "absent"
  /\ transferCase[t] = "open" <=> transferStatus[t] = "review_required"

TransferInv ==
  /\ TransferRowsOK
  /\ \A d \in Deciders : DecisionIsFresh(d)
  /\ TransferMovesOnce

BankInv == Inv /\ TransferInv

(* What a step of the withdrawal service adds to the journals.              *)
OtherJournals ==
  /\ journals \subseteq journals'
  /\ \A i, type : type \in TransferJournals /\ <<i, type>> \in journals' => <<i, type>> \in journals

(* The withdrawal service posts no journal of a transfer.                   *)
LEMMA CommitsPostOthers ==
  ASSUME NEW s \in Slots, Commit(s)
  PROVE  OtherJournals
  <1>1. ASSUME NEW i, NEW type, type \notin TransferJournals,
               journals' = journals \cup {<<i, type>>}
        PROVE  OtherJournals
    BY <1>1 DEF OtherJournals
  <1>2. ASSUME UNCHANGED ledgerVars PROVE OtherJournals
    BY <1>2 DEF OtherJournals, ledgerVars
  <1>3. ASSUME NEW i, ReleaseWithdrawalReservation(i) PROVE OtherJournals
    BY <1>1, <1>3 DEF ReleaseWithdrawalReservation, PostJournal, TransferJournals
  <1>4. ASSUME NEW i, SettleConfirmedWithdrawal(i) PROVE OtherJournals
    BY <1>1, <1>4 DEF SettleConfirmedWithdrawal, PostJournal, TransferJournals
  <1>5. CASE CommitDeny(s)
    BY <1>3, <1>5 DEF CommitDeny
  <1>6. CASE CommitSettle(s)
    BY <1>4, <1>6 DEF CommitSettle
  <1>7. CASE CommitFail(s)
    BY <1>2, <1>3, <1>7 DEF CommitFail
  <1>8. CASE \/ CommitApprove(s) \/ CommitQueue(s) \/ CommitStart(s) \/ CommitSign(s)
             \/ CommitBroadcast(s) \/ CommitConfirm(s) \/ CommitResolve(s)
    BY <1>2, <1>8 DEF CommitApprove, CommitQueue, CommitStart, CommitSign, CommitBroadcast,
                      CommitConfirm, CommitResolve
  <1> QED
    BY <1>5, <1>6, <1>7, <1>8 DEF Commit

(* No step of the withdrawal service does.                                  *)
LEMMA ServicePostsOthers ==
  ASSUME Next
  PROVE  OtherJournals
  <1>1. ASSUME UNCHANGED ledgerVars PROVE OtherJournals
    BY <1>1 DEF OtherJournals, ledgerVars
  <1>2. ASSUME NEW i, NEW type, type \notin TransferJournals,
               journals' = journals \cup {<<i, type>>}
        PROVE  OtherJournals
    BY <1>2 DEF OtherJournals
  <1>3. ASSUME NEW d, CreditDeposit(d) PROVE OtherJournals
    BY <1>2, <1>3 DEF CreditDeposit, SettleConfirmedDeposit, PostJournal, TransferJournals
  <1>4. ASSUME NEW i, CreateWithdrawalIntent(i) PROVE OtherJournals
    BY <1>2, <1>4 DEF CreateWithdrawalIntent, ReserveWithdrawalBalance, PostJournal,
                      TransferJournals
  <1>5. ASSUME NEW i, ClaimTimesOut(i) PROVE OtherJournals
    BY <1>1, <1>5 DEF ClaimTimesOut
  <1>6. ASSUME NEW s, NEW i, Read(s, i) PROVE OtherJournals
    BY <1>1, <1>6 DEF Read, BeginDecide, BeginQueue, BeginStart, BeginSign, BeginBroadcast,
                      BeginFail, BeginConfirm, BeginSettle, BeginResolve, Begin
  <1>7. ASSUME NEW s, Abort(s) PROVE OtherJournals
    BY <1>1, <1>7 DEF Abort
  <1> QED
    BY <1>3, <1>4, <1>5, <1>6, <1>7, CommitsPostOthers DEF Next

(* So it leaves transfers as they are.                                      *)
LEMMA TransfersStay ==
  ASSUME TransferInv, OtherJournals, UNCHANGED transferVars
  PROVE  TransferInv'
  <1>1. UNCHANGED <<transferStatus, transferCase, decision>>
    BY DEF transferVars
  <1>2. \A t : /\ TransferPaid(t)' <=> TransferPaid(t)
               /\ TransferReleased(t)' <=> TransferReleased(t)
               /\ TransferReserved(t)' <=> TransferReserved(t)
    BY DEF OtherJournals, TransferPaid, TransferReleased, TransferReserved, TransferJournals
  <1>3. TransferMovesOnce'
    BY <1>1, <1>2 DEF TransferInv, TransferMovesOnce
  <1>4. TransferRowsOK' /\ \A d \in Deciders : DecisionIsFresh(d)'
    BY <1>1 DEF TransferInv, TransferRowsOK, DecisionIsFresh
  <1> QED
    BY <1>3, <1>4 DEF TransferInv

-----------------------------------------------------------------------------
(* The transfer service *)

(* A journal of a transfer says nothing of a withdrawal.                    *)
LEMMA IntentsStay ==
  ASSUME Inv, LedgerInv', NEW t, NEW type \in TransferJournals,
         journals' = journals \cup {<<t, type>>} \/ journals' = journals,
         UNCHANGED <<intentVars, request>>
  PROVE  Inv'
  <1>1. UNCHANGED <<status, policyDecision, failure, claim, stale, txs, request>>
    BY DEF intentVars
  <1>2. TypeOK'
    BY <1>1 DEF Inv, TypeInv, TypeOK, LedgerInv
  <1>3. \A i \in Withdrawals : /\ Reserved(i)' <=> Reserved(i)
                               /\ Released(i)' <=> Released(i)
                               /\ Settled(i)' <=> Settled(i)
    BY DEF Reserved, Released, Settled, TransferJournals
  <1>4. EveryReservationFollowsStatus'
    BY <1>1, <1>3 DEF Inv, EveryReservationFollowsStatus, ReservationFollowsStatus
  <1> QED
    BY <1>1, <1>2, <1>4, QuietStep

(* What a journal of a transfer says of it and of the others.               *)
LEMMA TransferPosted ==
  ASSUME NEW t, NEW type, journals' = journals \cup {<<t, type>>}
  PROVE  /\ \A u : u # t =>
              /\ TransferPaid(u)' <=> TransferPaid(u)
              /\ TransferReleased(u)' <=> TransferReleased(u)
              /\ TransferReserved(u)' <=> TransferReserved(u)
         /\ TransferPaid(t)' <=>
              TransferPaid(t) \/ type = "internal_balance_transfer_settlement"
         /\ TransferReleased(t)' <=>
              TransferReleased(t) \/ type = "internal_balance_transfer_reservation_release"
         /\ TransferReserved(t)' <=>
              TransferReserved(t) \/ type = "internal_balance_transfer_reservation"
  BY DEF TransferPaid, TransferReleased, TransferReserved

(* The row of a transfer changes as its journals do, and nobody is deciding *)
(* it: the others are untouched.                                            *)
LEMMA TransferWritten ==
  ASSUME TransferInv, NEW t \in Transfers, NEW type, NEW state \in TransferStatuses,
         NEW review \in {"none", "open", "resolved"},
         journals' = journals \cup {<<t, type>>},
         transferStatus' = [transferStatus EXCEPT ![t] = state],
         transferCase' = [transferCase EXCEPT ![t] = review],
         t \notin Contended => TransferMoves(t)',
         decision' \in [Deciders -> DecisionRows],
         \A d \in Deciders : decision'[d] # NoDecision => decision'[d] = decision[d],
         t \notin Contended =>
           \A d \in Deciders : decision'[d] # NoDecision => decision'[d].transfer # t
  PROVE  TransferInv'
  <1>1. TransferRowsOK'
    BY DEF TransferInv, TransferRowsOK
  <1>2. \A u \in Transfers : u # t => /\ transferStatus'[u] = transferStatus[u]
                                      /\ transferCase'[u] = transferCase[u]
    BY DEF TransferInv, TransferRowsOK
  <1>3. TransferMovesOnce'
    <2> SUFFICES ASSUME NEW u \in Transfers \ Contended PROVE TransferMoves(u)'
      BY DEF TransferMovesOnce, TransferMoves
    <2>1. CASE u = t
      BY <2>1
    <2>2. CASE u # t
      <3>1. TransferMoves(u)
        BY DEF TransferInv, TransferMovesOnce, TransferMoves
      <3> QED
        BY <1>2, <2>2, <3>1, TransferPosted DEF TransferMoves
    <2> QED
      BY <2>1, <2>2
  <1>4. ASSUME NEW d \in Deciders PROVE DecisionIsFresh(d)'
    <2> SUFFICES ASSUME decision'[d] # NoDecision, decision'[d].transfer \notin Contended
                 PROVE  /\ transferStatus'[decision'[d].transfer] = "review_required"
                        /\ \A e \in Deciders :
                             decision'[e] # NoDecision
                               /\ decision'[e].transfer = decision'[d].transfer => e = d
      BY DEF DecisionIsFresh
    <2>1. decision'[d] = decision[d] /\ DecisionIsFresh(d)
      BY DEF TransferInv
    <2>2. decision[d] \in TransferDecisions
      BY <2>1 DEF TransferInv, TransferRowsOK, DecisionRows
    <2>3. decision[d].transfer \in Transfers /\ decision[d].transfer # t
      BY <2>1, <2>2 DEF TransferDecisions
    <2>4. transferStatus'[decision[d].transfer] = transferStatus[decision[d].transfer]
      BY <1>2, <2>3
    <2> QED
      BY <2>1, <2>4 DEF DecisionIsFresh
  <1> QED
    BY <1>1, <1>3, <1>4 DEF TransferInv

(* Creation settles, or reserves and asks for a review.                     *)
LEMMA CreateTransferStep ==
  ASSUME BankInv, NEW t \in Transfers, CreateBalanceTransfer(t), UNCHANGED <<intentVars, request>>
  PROVE  BankInv'
  <1>1. /\ t \in Intents /\ Recipient[t] \in Accounts /\ Recipient[t] # Owner[t]
        /\ LedgerInv /\ Inv /\ TransferInv
    BY TransferAssumption DEF BankInv, Inv, TypeInv, TypeOK, LedgerInv
  <1>2. /\ transferStatus[t] = "absent" /\ decision' = decision
        /\ t \notin Contended => TransferMoves(t)
        /\ transferCase[t] \in {"none", "open", "resolved"}
        /\ transferCase \in [Transfers -> {"none", "open", "resolved"}]
    BY <1>1 DEF CreateBalanceTransfer, TransferInv, TransferMovesOnce, TransferMoves,
                TransferRowsOK
  <1>3. ASSUME t \notin Contended, NEW d \in Deciders, decision[d] # NoDecision
        PROVE  decision[d].transfer # t
    BY <1>1, <1>2, <1>3 DEF TransferInv, DecisionIsFresh
  <1>4. decision' \in [Deciders -> DecisionRows]
    BY <1>1, <1>2 DEF TransferInv, TransferRowsOK
  <1>5. CASE t \in ReviewedTransfers
    <2>1. /\ ReserveInternalBalanceTransferBalance(t)
          /\ transferStatus' = [transferStatus EXCEPT ![t] = "review_required"]
          /\ transferCase' = [transferCase EXCEPT ![t] = "open"]
      BY <1>5 DEF CreateBalanceTransfer
    <2>2. /\ LedgerInv'
          /\ journals' = journals \cup {<<t, "internal_balance_transfer_reservation">>}
      BY <1>1, <2>1, ReserveTransferStep
    <2>3. transferStatus'[t] = "review_required" /\ transferCase'[t] = "open"
      BY <1>1, <2>1 DEF TransferInv, TransferRowsOK
    <2>4. t \notin Contended => TransferMoves(t)'
      BY <1>2, <1>5, <2>2, <2>3, TransferPosted DEF TransferMoves
    <2>5. "review_required" \in TransferStatuses
      BY DEF TransferStatuses
    <2>6. TransferInv'
      BY <1>1, <1>2, <1>3, <1>4, <2>1, <2>2, <2>4, <2>5, TransferWritten
    <2>7. Inv'
      BY <1>1, <2>2, IntentsStay DEF TransferJournals
    <2> QED
      BY <2>6, <2>7 DEF BankInv
  <1>6. CASE t \notin ReviewedTransfers
    <2>1. /\ SettleInternalBalanceTransfer(t, Recipient[t], FALSE)
          /\ transferStatus' = [transferStatus EXCEPT ![t] = "settled"]
          /\ transferCase' = transferCase
      BY <1>6 DEF CreateBalanceTransfer
    <2>2. /\ LedgerInv'
          /\ journals' = journals \cup {<<t, "internal_balance_transfer_settlement">>}
      BY <1>1, <2>1, SettleTransferStep
    <2>3. transferStatus'[t] = "settled" /\ transferCase'[t] = transferCase[t]
      BY <1>1, <2>1 DEF TransferInv, TransferRowsOK
    <2>4. t \notin Contended => TransferMoves(t)'
      BY <1>2, <1>6, <2>2, <2>3, TransferPosted DEF TransferMoves
    <2>5. "settled" \in TransferStatuses
      BY DEF TransferStatuses
    <2>6. transferCase' = [transferCase EXCEPT ![t] = transferCase[t]]
      BY <1>2, <2>1
    <2>7. TransferInv'
      BY <1>1, <1>2, <1>3, <1>4, <2>1, <2>2, <2>4, <2>5, <2>6, TransferWritten
    <2>8. Inv'
      BY <1>1, <2>2, IntentsStay DEF TransferJournals
    <2> QED
      BY <2>7, <2>8 DEF BankInv
  <1> QED
    BY <1>5, <1>6

(* A decision that was taken on a transfer, and the slot it leaves.         *)
LEMMA DecisionEnds ==
  ASSUME TransferInv, NEW d \in Deciders, decision[d] # NoDecision,
         decision' = [decision EXCEPT ![d] = NoDecision]
  PROVE  /\ decision[d] \in TransferDecisions /\ decision[d].transfer \in Transfers
         /\ decision' \in [Deciders -> DecisionRows]
         /\ \A e \in Deciders : decision'[e] # NoDecision => decision'[e] = decision[e]
         /\ decision[d].transfer \notin Contended =>
              /\ transferStatus[decision[d].transfer] = "review_required"
              /\ TransferMoves(decision[d].transfer)
              /\ \A e \in Deciders :
                   decision'[e] # NoDecision => decision'[e].transfer # decision[d].transfer
  <1>1. decision[d] \in TransferDecisions /\ decision[d].transfer \in Transfers
    BY DEF TransferInv, TransferRowsOK, DecisionRows, TransferDecisions
  <1>2. decision' \in [Deciders -> DecisionRows]
    BY DEF TransferInv, TransferRowsOK, DecisionRows
  <1>3. \A e \in Deciders : decision'[e] # NoDecision => e # d /\ decision'[e] = decision[e]
    BY DEF TransferInv, TransferRowsOK
  <1>4. DecisionIsFresh(d)
    BY DEF TransferInv
  <1>5. decision[d].transfer \notin Contended => TransferMoves(decision[d].transfer)
    BY <1>1 DEF TransferInv, TransferMovesOnce, TransferMoves
  <1> QED
    BY <1>1, <1>2, <1>3, <1>4, <1>5 DEF DecisionIsFresh

(* A denial gives the amount back.                                          *)
LEMMA DenialStep ==
  ASSUME BankInv, NEW d \in Deciders, CommitTransferDenial(d), UNCHANGED <<intentVars, request>>
  PROVE  BankInv'
  <1> PICK t : t = decision[d].transfer
    OBVIOUS
  <1>1. LedgerInv /\ Inv /\ TransferInv
    BY DEF BankInv, Inv, TypeInv, TypeOK, LedgerInv
  <1>2. /\ decision[d] # NoDecision /\ decision[d].transfer = t
        /\ ReleaseInternalBalanceTransferReservation(t)
        /\ transferStatus' = [transferStatus EXCEPT ![t] = "cancelled"]
        /\ transferCase' = [transferCase EXCEPT ![t] = "resolved"]
        /\ decision' = [decision EXCEPT ![d] = NoDecision]
    BY DEF CommitTransferDenial, NoDecision
  <1>3. /\ t \in Transfers
        /\ decision' \in [Deciders -> DecisionRows]
        /\ \A e \in Deciders : decision'[e] # NoDecision => decision'[e] = decision[e]
        /\ t \notin Contended =>
             /\ transferStatus[t] = "review_required" /\ TransferMoves(t)
             /\ \A e \in Deciders : decision'[e] # NoDecision => decision'[e].transfer # t
    BY <1>1, <1>2, DecisionEnds
  <1>4. t \in Intents
    BY <1>3, TransferAssumption
  <1>5. /\ LedgerInv'
        /\ journals' = journals \cup {<<t, "internal_balance_transfer_reservation_release">>}
    BY <1>1, <1>2, <1>4, ReleaseTransferStep
  <1>6. transferStatus'[t] = "cancelled" /\ transferCase'[t] = "resolved"
    BY <1>1, <1>2, <1>3 DEF TransferInv, TransferRowsOK
  <1>7. t \notin Contended => TransferMoves(t)'
    BY <1>3, <1>5, <1>6, TransferPosted DEF TransferMoves
  <1>8. "cancelled" \in TransferStatuses
    BY DEF TransferStatuses
  <1>9. TransferInv'
    BY <1>1, <1>2, <1>3, <1>5, <1>7, <1>8, TransferWritten
  <1>10. Inv'
    BY <1>1, <1>5, IntentsStay DEF TransferJournals
  <1> QED
    BY <1>9, <1>10 DEF BankInv

(* An approval pays it to the recipient.                                    *)
LEMMA ApprovalStep ==
  ASSUME BankInv, NEW d \in Deciders, CommitTransferApproval(d), UNCHANGED <<intentVars, request>>
  PROVE  BankInv'
  <1> PICK t : t = decision[d].transfer
    OBVIOUS
  <1>1. LedgerInv /\ Inv /\ TransferInv
    BY DEF BankInv, Inv, TypeInv, TypeOK, LedgerInv
  <1>2. /\ decision[d] # NoDecision /\ decision[d].transfer = t
        /\ SettleInternalBalanceTransfer(t, Recipient[t], TRUE)
        /\ transferStatus' = [transferStatus EXCEPT ![t] = "settled"]
        /\ transferCase' = [transferCase EXCEPT ![t] = "resolved"]
        /\ decision' = [decision EXCEPT ![d] = NoDecision]
    <2>1. SettleInternalBalanceTransfer(t, Recipient[t], TRUE)
      BY Zenon DEF CommitTransferApproval
    <2>2. /\ decision[d] # NoDecision
          /\ transferStatus' = [transferStatus EXCEPT ![t] = "settled"]
          /\ transferCase' = [transferCase EXCEPT ![t] = "resolved"]
          /\ decision' = [decision EXCEPT ![d] = NoDecision]
      BY DEF CommitTransferApproval, NoDecision
    <2> QED
      BY <2>1, <2>2
  <1>3. /\ t \in Transfers
        /\ decision' \in [Deciders -> DecisionRows]
        /\ \A e \in Deciders : decision'[e] # NoDecision => decision'[e] = decision[e]
        /\ t \notin Contended =>
             /\ transferStatus[t] = "review_required" /\ TransferMoves(t)
             /\ \A e \in Deciders : decision'[e] # NoDecision => decision'[e].transfer # t
    BY <1>1, <1>2, DecisionEnds
  <1>4. t \in Intents /\ Recipient[t] \in Accounts /\ Recipient[t] # Owner[t]
    BY <1>3, TransferAssumption
  <1>5. /\ LedgerInv'
        /\ journals' = journals \cup {<<t, "internal_balance_transfer_settlement">>}
    BY <1>1, <1>2, <1>4, SettleTransferStep
  <1>6. transferStatus'[t] = "settled" /\ transferCase'[t] = "resolved"
    BY <1>1, <1>2, <1>3 DEF TransferInv, TransferRowsOK
  <1>7. t \notin Contended => TransferMoves(t)'
    BY <1>3, <1>5, <1>6, TransferPosted DEF TransferMoves
  <1>8. "settled" \in TransferStatuses
    BY DEF TransferStatuses
  <1>9. TransferInv'
    BY <1>1, <1>2, <1>3, <1>5, <1>7, <1>8, TransferWritten
  <1>10. Inv'
    BY <1>1, <1>5, IntentsStay DEF TransferJournals
  <1> QED
    BY <1>9, <1>10 DEF BankInv

(* A read or a rollback changes neither money nor rows.                     *)
LEMMA DecisionMoves ==
  ASSUME BankInv, UNCHANGED <<ledgerVars, transferStatus, transferCase, intentVars, request>>,
         decision' \in [Deciders -> DecisionRows],
         \A d \in Deciders : DecisionIsFresh(d)'
  PROVE  BankInv'
  <1>1. LedgerInv /\ Inv /\ TransferInv
    BY DEF BankInv, Inv, TypeInv, TypeOK, LedgerInv
  <1>2. journals' = journals
    BY DEF ledgerVars
  <1>3. LedgerInv'
    BY <1>1, LedgerUnchanged
  <1>4. Inv'
    <2>1. "internal_balance_transfer_settlement" \in TransferJournals
      BY DEF TransferJournals
    <2> QED
      BY <1>1, <1>2, <1>3, <2>1, IntentsStay
  <1>5. TransferInv'
    BY <1>1, <1>2 DEF TransferInv, TransferRowsOK, TransferMovesOnce, TransferPaid,
                      TransferReleased, TransferReserved
  <1> QED
    BY <1>4, <1>5 DEF BankInv

(* A decision begins on a transfer that waits, alone.                       *)
LEMMA BeginDecideStep ==
  ASSUME BankInv, NEW d \in Deciders, NEW t \in Transfers, NEW op \in {"approved", "denied"},
         BeginDecideTransfer(d, t, op), UNCHANGED <<intentVars, request>>
  PROVE  BankInv'
  <1> DEFINE new == [op |-> op, transfer |-> t]
  <1>1. new \in TransferDecisions /\ new.transfer = t
    BY DEF TransferDecisions
  <1>2. /\ decision[d] = NoDecision /\ transferStatus[t] = "review_required"
        /\ \A e \in Deciders : decision[e] # NoDecision /\ decision[e].transfer = t
                                 => t \in Contended
        /\ decision' = [decision EXCEPT ![d] = new]
        /\ UNCHANGED <<ledgerVars, transferStatus, transferCase>>
    BY DEF BeginDecideTransfer
  <1> HIDE DEF new
  <1>3. decision \in [Deciders -> DecisionRows] /\ \A e \in Deciders : DecisionIsFresh(e)
    BY DEF BankInv, TransferInv, TransferRowsOK
  <1>4. decision' \in [Deciders -> DecisionRows]
    BY <1>1, <1>2, <1>3 DEF DecisionRows
  <1>5. \A e \in Deciders : decision'[e] = IF e = d THEN new ELSE decision[e]
    BY <1>2, <1>3
  <1>6. ASSUME NEW e \in Deciders PROVE DecisionIsFresh(e)'
    BY <1>1, <1>2, <1>3, <1>5 DEF DecisionIsFresh
  <1> QED
    BY <1>2, <1>4, <1>6, DecisionMoves

(* A decision that rolls back leaves its slot.                              *)
LEMMA AbortDecisionStep ==
  ASSUME BankInv, NEW d \in Deciders, AbortTransferDecision(d), UNCHANGED <<intentVars, request>>
  PROVE  BankInv'
  <1>1. /\ decision' = [decision EXCEPT ![d] = NoDecision]
        /\ UNCHANGED <<ledgerVars, transferStatus, transferCase>>
    BY DEF AbortTransferDecision
  <1>2. decision \in [Deciders -> DecisionRows] /\ \A e \in Deciders : DecisionIsFresh(e)
    BY DEF BankInv, TransferInv, TransferRowsOK
  <1>3. decision' \in [Deciders -> DecisionRows]
    BY <1>1, <1>2 DEF DecisionRows
  <1>4. \A e \in Deciders : decision'[e] # NoDecision => decision'[e] = decision[e]
    BY <1>1, <1>2
  <1>5. ASSUME NEW e \in Deciders PROVE DecisionIsFresh(e)'
    BY <1>1, <1>2, <1>4 DEF DecisionIsFresh
  <1> QED
    BY <1>1, <1>3, <1>5, DecisionMoves

-----------------------------------------------------------------------------
(* Initially there are neither withdrawals nor transfers.                   *)
LEMMA BankInitial == BankInit => BankInv
  <1> SUFFICES ASSUME BankInit PROVE BankInv
    OBVIOUS
  <1>1. Inv
    BY InvInit DEF BankInit
  <1>2. TransferRowsOK /\ \A d \in Deciders : DecisionIsFresh(d)
    BY DEF BankInit, TransferInit, TransferRowsOK, TransferStatuses, DecisionRows,
           DecisionIsFresh
  <1>3. TransferMovesOnce
    BY DEF BankInit, Init, LedgerInit, TransferInit, TransferMovesOnce, TransferPaid,
           TransferReleased, TransferReserved
  <1> QED
    BY <1>1, <1>2, <1>3 DEF BankInv, TransferInv

(* Every step of either service preserves the invariant.                    *)
LEMMA BankStep == BankInv /\ [BankNext]_bankVars => BankInv'
  <1> SUFFICES ASSUME BankInv, [BankNext]_bankVars PROVE BankInv'
    OBVIOUS
  <1>1. ASSUME Next, UNCHANGED transferVars PROVE BankInv'
    BY <1>1, InvStep, ServicePostsOthers, TransfersStay DEF BankInv
  <1>2. CASE /\ \/ \E c \in Intents \ (Withdrawals \cup Transfers) : CreditDeposit(c)
                \/ \E i \in Withdrawals : CreateWithdrawalIntent(i) \/ ClaimTimesOut(i)
                \/ \E s \in Slots, i \in Withdrawals : Read(s, i)
                \/ \E s \in Slots : Commit(s) \/ Abort(s)
             /\ UNCHANGED transferVars
    BY <1>1, <1>2 DEF Next
  <1>3. CASE TransferNext /\ UNCHANGED <<intentVars, request>>
    BY <1>3, CreateTransferStep, BeginDecideStep, ApprovalStep, DenialStep, AbortDecisionStep
       DEF TransferNext
  <1>4. CASE UNCHANGED bankVars
    <2>1. UNCHANGED vars /\ UNCHANGED transferVars
      BY <1>4 DEF bankVars
    <2>2. OtherJournals
      BY <2>1 DEF OtherJournals, vars, ledgerVars
    <2> QED
      BY <2>1, <2>2, InvStep, TransfersStay DEF BankInv
  <1> QED
    BY <1>2, <1>3, <1>4 DEF BankNext

(* The invariant holds in every state of the bank.                          *)
THEOREM BankInvariance == BankSpec => []BankInv
  BY BankInitial, BankStep, PTL DEF BankSpec

(* An internal transfer moves its amount once and in one direction, however *)
(* decisions on other transfers and the withdrawals of the same customers   *)
(* interleave with it (decideBalanceTransfer).                              *)
THEOREM TransferCorrect == BankSpec => []TransferMovesOnce
  <1>1. BankInv => TransferMovesOnce
    BY DEF BankInv, TransferInv
  <1> QED
    BY <1>1, BankInvariance, PTL

(* Over the one ledger the two services share, the balances customers see   *)
(* remain the positions of their ledger accounts, and what the journals say *)
(* of a withdrawal follows from its status, whatever transfers do.          *)
THEOREM SharedLedgerCorrect ==
  BankSpec => [](ProjectionMatchesLedger /\ EveryReservationFollowsStatus)
  <1>1. BankInv => ProjectionMatchesLedger /\ EveryReservationFollowsStatus
    BY DEF BankInv, Inv
  <1> QED
    BY <1>1, BankInvariance, PTL

-----------------------------------------------------------------------------
(* The money of the bank.  Every method of the ledger moves an amount       *)
(* between two positions, and mirrors it in the balances of at most two     *)
(* customers.                                                               *)

Holdings == [a \in Accounts |-> availableBalance[a] + pendingBalance[a]]

LEMMA HoldingsType ==
  ASSUME LedgerTypeOK
  PROVE  /\ \A a \in Accounts : Holdings[a] \in Nat
         /\ \A a \in Accounts : Holdings[a] = availableBalance[a] + pendingBalance[a]
         /\ ledger[InboundClearing] \in Int /\ ledger[OutboundClearing] \in Int
  BY DEF LedgerTypeOK, Holdings, LedgerAccounts

(* One customer's balances change by what passes through clearing.          *)
LEMMA OneCustomer ==
  ASSUME LedgerTypeOK, LedgerTypeOK', MoneyIsConserved, NEW o \in Accounts, NEW change \in Int,
         \A a \in Accounts : availableBalance'[a] + pendingBalance'[a] =
           availableBalance[a] + pendingBalance[a] + (IF a = o THEN change ELSE 0),
         ledger'[InboundClearing] + ledger'[OutboundClearing] =
           ledger[InboundClearing] + ledger[OutboundClearing] - change
  PROVE  MoneyIsConserved'
  <1>1. \A a \in Accounts : Holdings[a] \in Nat /\ Holdings'[a] \in Nat
    BY HoldingsType DEF Holdings, LedgerTypeOK
  <1>2. \A a \in Accounts : Holdings'[a] = IF a = o THEN Holdings[a] + change ELSE Holdings[a]
    BY <1>1, HoldingsType DEF Holdings
  <1>3. IsFiniteSet(Accounts)
    BY BankAssumption
  <1>4. PICK before, after : before = Holdings /\ after = Holdings'
    OBVIOUS
  <1>5. \A a \in Accounts :
          before[a] \in Nat /\ after[a] \in Nat /\ (a # o => after[a] = before[a])
    BY <1>1, <1>2, <1>4
  <1>6. Total(after, Accounts) = Total(before, Accounts) - before[o] + after[o]
    BY <1>3, <1>5, TotalChange
  <1>7. after[o] = before[o] + change /\ before[o] \in Nat /\ Total(before, Accounts) \in Nat
    BY <1>2, <1>3, <1>4, <1>5, TotalType
  <1>8. Total(after, Accounts) = Total(before, Accounts) + change
    BY <1>6, <1>7
  <1>9. Total(before, Accounts) = -ledger[InboundClearing] - ledger[OutboundClearing]
    BY <1>4 DEF MoneyIsConserved, Holdings
  <1>10. PICK x \in Int, y \in Int, u \in Int, v \in Int :
           /\ x = ledger[InboundClearing] /\ y = ledger[OutboundClearing]
           /\ u = ledger'[InboundClearing] /\ v = ledger'[OutboundClearing]
    BY DEF LedgerTypeOK, LedgerAccounts
  <1>11. Total(after, Accounts) = -u - v
    BY <1>7, <1>8, <1>9, <1>10
  <1>12. Total(Holdings', Accounts) = -ledger'[InboundClearing] - ledger'[OutboundClearing]
    BY <1>4, <1>10, <1>11
  <1> QED
    BY <1>12 DEF MoneyIsConserved, Holdings

(* A journal with two postings and the update of its owner's balances.      *)
LEMMA PostingConserves ==
  ASSUME LedgerInv, MoneyIsConserved, NEW i \in Intents, NEW type \in JournalTypes,
         NEW debit \in LedgerAccounts, NEW credit \in LedgerAccounts,
         NEW dAvailable \in Int, NEW dPending \in Int, debit # credit,
         PostJournal(i, type, debit, credit),
         UpdateBalance(Owner[i], dAvailable, dPending),
         debit # OutboundClearing, credit # InboundClearing,
         dAvailable + dPending = (IF debit = InboundClearing THEN Amount[i] ELSE 0)
                                   - (IF credit = OutboundClearing THEN Amount[i] ELSE 0)
  PROVE  MoneyIsConserved'
  <1>1. /\ LedgerTypeOK'
        /\ journals' = journals \cup {<<i, type>>}
        /\ <<i, type>> \notin journals
        /\ \A k \in LedgerAccounts :
              ledger'[k] = IF k = debit THEN ledger[k] - Amount[i]
                           ELSE IF k = credit THEN ledger[k] + Amount[i]
                           ELSE ledger[k]
        /\ \A a \in Accounts :
              /\ availableBalance'[a] =
                   availableBalance[a] + (IF a = Owner[i] THEN dAvailable ELSE 0)
              /\ pendingBalance'[a] =
                   pendingBalance[a] + (IF a = Owner[i] THEN dPending ELSE 0)
    BY PostingStep
  <1>2. PICK amount \in Nat : amount = Amount[i]
    BY LedgerAssumption
  <1>3. PICK change \in Int : change = dAvailable + dPending
    OBVIOUS
  <1>4. Owner[i] \in Accounts /\ LedgerTypeOK
    BY LedgerAssumption DEF LedgerInv
  <1>5. ASSUME NEW a \in Accounts
        PROVE  availableBalance'[a] + pendingBalance'[a] =
                 availableBalance[a] + pendingBalance[a] + (IF a = Owner[i] THEN change ELSE 0)
    <2>1. availableBalance[a] \in Nat /\ pendingBalance[a] \in Nat
      BY <1>4 DEF LedgerTypeOK
    <2> QED
      BY <1>1, <1>3, <2>1
  <1>6. ledger'[InboundClearing] + ledger'[OutboundClearing] =
          ledger[InboundClearing] + ledger[OutboundClearing] - change
    <2>1. /\ InboundClearing \in LedgerAccounts /\ OutboundClearing \in LedgerAccounts
          /\ InboundClearing # OutboundClearing
      BY DEF LedgerAccounts, InboundClearing, OutboundClearing
    <2>2. PICK x \in Int, y \in Int : x = ledger[InboundClearing] /\ y = ledger[OutboundClearing]
      BY <1>4, <2>1 DEF LedgerTypeOK
    <2>3. /\ ledger'[InboundClearing] = x - (IF debit = InboundClearing THEN amount ELSE 0)
          /\ ledger'[OutboundClearing] = y + (IF credit = OutboundClearing THEN amount ELSE 0)
      <3>1. PICK in, out : in = InboundClearing /\ out = OutboundClearing
        OBVIOUS
      <3>2. /\ in \in LedgerAccounts /\ out \in LedgerAccounts /\ in # out
            /\ debit # out /\ credit # in /\ ledger[in] = x /\ ledger[out] = y
        BY <2>1, <2>2, <3>1
      <3>3. /\ ledger'[in] = IF in = debit THEN x - amount ELSE x
            /\ ledger'[out] = IF out = credit THEN y + amount ELSE y
        BY <1>1, <1>2, <3>2
      <3>4. /\ ledger'[in] = x - (IF debit = in THEN amount ELSE 0)
            /\ ledger'[out] = y + (IF credit = out THEN amount ELSE 0)
        BY <2>2, <3>3
      <3> QED
        BY <3>1, <3>4
    <2>4. change = (IF debit = InboundClearing THEN amount ELSE 0)
                     - (IF credit = OutboundClearing THEN amount ELSE 0)
      BY <1>2, <1>3
    <2>5. PICK p \in Int, q \in Int :
            /\ p = (IF debit = InboundClearing THEN amount ELSE 0)
            /\ q = (IF credit = OutboundClearing THEN amount ELSE 0)
      BY <1>2
    <2>6. /\ ledger'[InboundClearing] = x - p /\ ledger'[OutboundClearing] = y + q
          /\ change = p - q
      BY <2>3, <2>4, <2>5
    <2>7. (x - p) + (y + q) = (x + y) - (p - q)
      OBVIOUS
    <2> QED
      BY <2>2, <2>6, <2>7
  <1> QED
    BY <1>1, <1>4, <1>5, <1>6, OneCustomer

LEMMA MethodsConserve ==
  ASSUME LedgerInv, MoneyIsConserved, NEW i \in Intents,
         \/ SettleConfirmedDeposit(i) \/ ReserveWithdrawalBalance(i)
         \/ ReleaseWithdrawalReservation(i) \/ SettleConfirmedWithdrawal(i)
         \/ ReserveInternalBalanceTransferBalance(i)
         \/ ReleaseInternalBalanceTransferReservation(i)
  PROVE  MoneyIsConserved'
  <1>1. PICK o \in Accounts, amount \in Nat : o = Owner[i] /\ amount = Amount[i]
    BY LedgerAssumption
  <1>2. PICK available, waiting, transferred, inbound, outbound :
          /\ available = Liability(o) /\ waiting = PendingWithdrawalLiability(o)
          /\ transferred = PendingTransferLiability(o)
          /\ inbound = InboundClearing /\ outbound = OutboundClearing
    OBVIOUS
  <1>3. /\ {available, waiting, transferred, inbound, outbound} \subseteq LedgerAccounts
        /\ available # waiting /\ available # transferred /\ available # inbound
        /\ available # outbound /\ waiting # inbound /\ waiting # outbound
        /\ transferred # inbound /\ transferred # outbound /\ inbound # outbound
    BY <1>1, <1>2, DistinctAccounts DEF InboundClearing, OutboundClearing
  <1>4. PICK none \in Int, less \in Int : none = 0 /\ less = -amount
    BY <1>1
  <1>5. ASSUME NEW type \in JournalTypes, NEW debit \in LedgerAccounts,
               NEW credit \in LedgerAccounts, NEW dAvailable \in Int, NEW dPending \in Int,
               debit # credit, debit # outbound, credit # inbound,
               PostJournal(i, type, debit, credit), UpdateBalance(o, dAvailable, dPending),
               dAvailable + dPending = (IF debit = inbound THEN amount ELSE 0)
                                         - (IF credit = outbound THEN amount ELSE 0)
        PROVE  MoneyIsConserved'
    BY <1>1, <1>2, <1>5, PostingConserves
  <1>6. /\ amount + none = amount - 0 /\ less + amount = 0 - 0 /\ amount + less = 0 - 0
        /\ none + less = 0 - amount
    BY <1>4
  <1>7. CASE SettleConfirmedDeposit(i)
    <2>1. /\ PostJournal(i, "deposit_settlement", inbound, available)
          /\ UpdateBalance(o, amount, none) /\ "deposit_settlement" \in JournalTypes
      BY <1>1, <1>2, <1>4, <1>7 DEF SettleConfirmedDeposit, JournalTypes
    <2> QED
      BY <1>3, <1>5, <1>6, <2>1
  <1>8. CASE ReserveWithdrawalBalance(i)
    <2>1. /\ PostJournal(i, "withdrawal_reservation", available, waiting)
          /\ UpdateBalance(o, less, amount) /\ "withdrawal_reservation" \in JournalTypes
      BY <1>1, <1>2, <1>4, <1>8 DEF ReserveWithdrawalBalance, JournalTypes
    <2> QED
      BY <1>3, <1>5, <1>6, <2>1
  <1>9. CASE ReleaseWithdrawalReservation(i)
    <2>1. /\ PostJournal(i, "withdrawal_reservation_release", waiting, available)
          /\ UpdateBalance(o, amount, less)
          /\ "withdrawal_reservation_release" \in JournalTypes
      BY <1>1, <1>2, <1>4, <1>9 DEF ReleaseWithdrawalReservation, JournalTypes
    <2> QED
      BY <1>3, <1>5, <1>6, <2>1
  <1>10. CASE SettleConfirmedWithdrawal(i)
    <2>1. /\ PostJournal(i, "withdrawal_settlement", waiting, outbound)
          /\ UpdateBalance(o, none, less) /\ "withdrawal_settlement" \in JournalTypes
      BY <1>1, <1>2, <1>4, <1>10 DEF SettleConfirmedWithdrawal, JournalTypes
    <2> QED
      BY <1>3, <1>5, <1>6, <2>1
  <1>11. CASE ReserveInternalBalanceTransferBalance(i)
    <2>1. /\ PostJournal(i, "internal_balance_transfer_reservation", available, transferred)
          /\ UpdateBalance(o, less, amount)
          /\ "internal_balance_transfer_reservation" \in JournalTypes
      BY <1>1, <1>2, <1>4, <1>11 DEF ReserveInternalBalanceTransferBalance, JournalTypes
    <2> QED
      BY <1>3, <1>5, <1>6, <2>1
  <1>12. CASE ReleaseInternalBalanceTransferReservation(i)
    <2>1. /\ PostJournal(i, "internal_balance_transfer_reservation_release",
                         transferred, available)
          /\ UpdateBalance(o, amount, less)
          /\ "internal_balance_transfer_reservation_release" \in JournalTypes
      BY <1>1, <1>2, <1>4, <1>12 DEF ReleaseInternalBalanceTransferReservation, JournalTypes
    <2> QED
      BY <1>3, <1>5, <1>6, <2>1
  <1> QED
    BY <1>7, <1>8, <1>9, <1>10, <1>11, <1>12

(* A settlement between two customers: what one loses the other gains.      *)
LEMMA BalancesOfSettlement ==
  ASSUME LedgerInv, NEW i \in Intents, NEW recipient \in Accounts, recipient # Owner[i],
         NEW fromPending \in BOOLEAN,
         SettleInternalBalanceTransfer(i, recipient, fromPending)
  PROVE  \A a \in Accounts :
           /\ pendingBalance'[a] = pendingBalance[a]
                - (IF a = Owner[i] /\ fromPending THEN Amount[i] ELSE 0)
           /\ availableBalance'[a] + pendingBalance'[a] =
                availableBalance[a] + pendingBalance[a]
                  + (IF a = recipient THEN Amount[i]
                     ELSE IF a = Owner[i] THEN -Amount[i] ELSE 0)
  <1>1. PICK o \in Accounts, amount \in Nat : o = Owner[i] /\ amount = Amount[i]
    BY LedgerAssumption
  <1>2. /\ pendingBalance' = [pendingBalance EXCEPT
                                ![o] = IF fromPending THEN @ - amount ELSE @]
        /\ availableBalance' = [availableBalance EXCEPT
                                  ![o] = IF fromPending THEN @ ELSE @ - amount,
                                  ![recipient] = @ + amount]
    BY <1>1 DEF SettleInternalBalanceTransfer
  <1>3. availableBalance \in [Accounts -> Nat] /\ pendingBalance \in [Accounts -> Nat]
    BY DEF LedgerInv, LedgerTypeOK
  <1>4. ASSUME NEW a \in Accounts
        PROVE  /\ pendingBalance'[a] = IF a = o /\ fromPending THEN pendingBalance[a] - amount
                                                               ELSE pendingBalance[a]
               /\ availableBalance'[a] =
                    IF a = recipient THEN availableBalance[a] + amount
                    ELSE IF a = o /\ ~fromPending THEN availableBalance[a] - amount
                    ELSE availableBalance[a]
    BY <1>1, <1>2, <1>3
  <1>5. ASSUME NEW a \in Accounts
        PROVE  /\ pendingBalance'[a] = pendingBalance[a]
                    - (IF a = o /\ fromPending THEN amount ELSE 0)
               /\ availableBalance'[a] + pendingBalance'[a] =
                    availableBalance[a] + pendingBalance[a]
                      + (IF a = recipient THEN amount
                         ELSE IF a = o THEN -amount ELSE 0)
    <2>1. PICK x \in Nat, y \in Nat : x = availableBalance[a] /\ y = pendingBalance[a]
      BY <1>3
    <2> QED
      BY <1>1, <1>4, <2>1
  <1> QED
    BY <1>1, <1>5

LEMMA SettlementConserves ==
  ASSUME LedgerInv, MoneyIsConserved, NEW i \in Intents, NEW recipient \in Accounts,
         recipient # Owner[i], NEW fromPending \in BOOLEAN,
         SettleInternalBalanceTransfer(i, recipient, fromPending)
  PROVE  MoneyIsConserved'
  <1>1. PICK o \in Accounts, amount \in Nat : o = Owner[i] /\ amount = Amount[i]
    BY LedgerAssumption
  <1>2. LedgerTypeOK /\ LedgerTypeOK'
    BY SettleTransferStep DEF LedgerInv
  <1>3. PICK before, after : before = Holdings /\ after = Holdings'
    OBVIOUS
  <1>4. \A a \in Accounts :
          after[a] = before[a] + (IF a = recipient THEN amount
                                  ELSE IF a = o THEN -amount ELSE 0)
    BY <1>1, <1>3, BalancesOfSettlement DEF Holdings
  <1>5. \A a \in Accounts : before[a] \in Nat /\ after[a] \in Nat
    BY <1>2, <1>3 DEF Holdings, LedgerTypeOK
  <1>6. PICK between : between = [a \in Accounts |-> IF a = recipient THEN after[a]
                                                     ELSE before[a]]
    OBVIOUS
  <1>7. IsFiniteSet(Accounts)
    BY BankAssumption
  <1>8. Total(between, Accounts) = Total(before, Accounts) - before[recipient] + between[recipient]
    <2>1. \A a \in Accounts : /\ before[a] \in Nat /\ between[a] \in Nat
                              /\ a # recipient => between[a] = before[a]
      BY <1>5, <1>6
    <2> QED
      BY <1>7, <2>1, TotalChange
  <1>9. Total(after, Accounts) = Total(between, Accounts) - between[o] + after[o]
    <2>1. ASSUME NEW a \in Accounts
          PROVE  /\ between[a] \in Nat /\ after[a] \in Nat
                 /\ a # o => after[a] = between[a]
      <3>1. PICK x \in Nat : x = before[a]
        BY <1>5
      <3>2. between[a] = (IF a = recipient THEN after[a] ELSE x) /\ after[a] \in Nat
        BY <1>5, <1>6, <3>1
      <3>3. a # o /\ a # recipient => after[a] = x + 0
        BY <1>4, <3>1
      <3> QED
        BY <3>1, <3>2, <3>3
    <2> QED
      BY <1>7, <2>1, TotalChange
  <1>10. Total(before, Accounts) \in Nat
    BY <1>5, <1>7, TotalType
  <1>11. /\ between[recipient] = before[recipient] + amount
         /\ between[o] = before[o] /\ after[o] = before[o] - amount
         /\ before[recipient] \in Nat /\ before[o] \in Nat
    BY <1>1, <1>4, <1>5, <1>6
  <1>12. Total(after, Accounts) = Total(before, Accounts)
    BY <1>8, <1>9, <1>10, <1>11
  <1>13. /\ ledger'[InboundClearing] = ledger[InboundClearing]
         /\ ledger'[OutboundClearing] = ledger[OutboundClearing]
    <2>1. PICK debit \in {PendingTransferLiability(o), Liability(o)} :
            debit = IF fromPending THEN PendingTransferLiability(o) ELSE Liability(o)
      OBVIOUS
    <2>2. ledger' = [ledger EXCEPT ![debit] = @ - Amount[i],
                                   ![Liability(recipient)] = @ + Amount[i]]
      BY <1>1, <2>1 DEF SettleInternalBalanceTransfer, PostJournal
    <2>3. /\ debit # InboundClearing /\ debit # OutboundClearing
          /\ Liability(recipient) # InboundClearing /\ Liability(recipient) # OutboundClearing
          /\ InboundClearing \in LedgerAccounts /\ OutboundClearing \in LedgerAccounts
      BY <2>1, DistinctAccounts
    <2> QED
      BY <1>2, <2>2, <2>3 DEF LedgerTypeOK
  <1> QED
    BY <1>3, <1>12, <1>13 DEF MoneyIsConserved, Holdings

(* What a handler does to the ledger: one of its methods, or nothing.       *)
LedgerMoves ==
  \/ UNCHANGED ledgerVars
  \/ \E i \in Intents : \/ SettleConfirmedDeposit(i) \/ ReserveWithdrawalBalance(i)
                        \/ ReleaseWithdrawalReservation(i) \/ SettleConfirmedWithdrawal(i)
                        \/ ReserveInternalBalanceTransferBalance(i)
                        \/ ReleaseInternalBalanceTransferReservation(i)
  \/ \E t \in Transfers, fromPending \in BOOLEAN :
       SettleInternalBalanceTransfer(t, Recipient[t], fromPending)

LEMMA WithdrawalServiceMoves ==
  ASSUME Inv, [Next]_vars
  PROVE  LedgerMoves
  <1>1. Withdrawals \subseteq Intents
    BY WithdrawalAssumption
  <1>2. ASSUME NEW d \in Intents, CreditDeposit(d) PROVE LedgerMoves
    BY <1>2 DEF CreditDeposit, LedgerMoves
  <1>3. ASSUME NEW i \in Withdrawals, CreateWithdrawalIntent(i) \/ ClaimTimesOut(i)
        PROVE  LedgerMoves
    BY <1>1, <1>3 DEF CreateWithdrawalIntent, ClaimTimesOut, LedgerMoves
  <1>4. ASSUME NEW s \in Slots, NEW i \in Withdrawals, Read(s, i) PROVE LedgerMoves
    BY <1>4 DEF Read, BeginDecide, BeginQueue, BeginStart, BeginSign, BeginBroadcast,
                BeginFail, BeginConfirm, BeginSettle, BeginResolve, Begin, LedgerMoves
  <1>5. ASSUME NEW s \in Slots, Commit(s) PROVE LedgerMoves
    <2>1. CASE CommitDeny(s)
      <3>1. request[s].intent \in Intents
        BY <2>1, CommitKnows DEF CommitDeny, Operations
      <3> QED
        BY <2>1, <3>1 DEF CommitDeny, LedgerMoves
    <2>2. CASE CommitFail(s)
      <3>1. request[s].intent \in Intents
        BY <2>2, CommitKnows DEF CommitFail, Operations
      <3> QED
        BY <2>2, <3>1 DEF CommitFail, LedgerMoves
    <2>3. CASE CommitSettle(s)
      <3>1. request[s].intent \in Intents
        BY <2>3, CommitKnows DEF CommitSettle, Operations
      <3> QED
        BY <2>3, <3>1 DEF CommitSettle, LedgerMoves
    <2>4. CASE \/ CommitApprove(s) \/ CommitQueue(s) \/ CommitStart(s) \/ CommitSign(s)
               \/ CommitBroadcast(s) \/ CommitConfirm(s) \/ CommitResolve(s)
      BY <2>4 DEF CommitApprove, CommitQueue, CommitStart, CommitSign, CommitBroadcast,
                  CommitConfirm, CommitResolve, LedgerMoves
    <2> QED
      BY <1>5, <2>1, <2>2, <2>3, <2>4 DEF Commit
  <1>6. ASSUME NEW s \in Slots, Abort(s) PROVE LedgerMoves
    BY <1>6 DEF Abort, LedgerMoves
  <1>7. CASE UNCHANGED vars
    BY <1>7 DEF vars, LedgerMoves
  <1> QED
    BY <1>2, <1>3, <1>4, <1>5, <1>6, <1>7 DEF Next

LEMMA TransferServiceMoves ==
  ASSUME TransferInv, TransferNext
  PROVE  LedgerMoves
  <1>1. Transfers \subseteq Intents
    BY TransferAssumption
  <1>2. ASSUME NEW t \in Transfers, CreateBalanceTransfer(t) PROVE LedgerMoves
    <2>1. CASE t \in ReviewedTransfers
      BY <1>1, <1>2, <2>1 DEF CreateBalanceTransfer, LedgerMoves
    <2>2. CASE t \notin ReviewedTransfers
      <3>1. PICK fromPending \in BOOLEAN : fromPending = FALSE
        OBVIOUS
      <3>2. SettleInternalBalanceTransfer(t, Recipient[t], fromPending)
        BY <1>2, <2>2, <3>1 DEF CreateBalanceTransfer
      <3> QED
        BY <3>2 DEF LedgerMoves
    <2> QED
      BY <2>1, <2>2
  <1>3. ASSUME NEW d \in Deciders, NEW t \in Transfers, NEW op, BeginDecideTransfer(d, t, op)
        PROVE  LedgerMoves
    BY <1>3 DEF BeginDecideTransfer, LedgerMoves
  <1>4. ASSUME NEW d \in Deciders, decision[d].op \in {"approved", "denied"}
        PROVE  decision[d].transfer \in Transfers
    BY <1>4 DEF TransferInv, TransferRowsOK, DecisionRows, TransferDecisions, NoDecision
  <1>5. ASSUME NEW d \in Deciders, CommitTransferApproval(d) PROVE LedgerMoves
    <2>1. PICK fromPending \in BOOLEAN : fromPending = TRUE
      OBVIOUS
    <2>2. PICK t : t = decision[d].transfer
      OBVIOUS
    <2>3. decision[d].op = "approved" /\ SettleInternalBalanceTransfer(t, Recipient[t], fromPending)
      BY <1>5, <2>1, <2>2 DEF CommitTransferApproval
    <2> QED
      BY <1>4, <2>2, <2>3 DEF LedgerMoves
  <1>6. ASSUME NEW d \in Deciders, CommitTransferDenial(d) PROVE LedgerMoves
    BY <1>1, <1>4, <1>6 DEF CommitTransferDenial, LedgerMoves
  <1>7. ASSUME NEW d \in Deciders, AbortTransferDecision(d) PROVE LedgerMoves
    BY <1>7 DEF AbortTransferDecision, LedgerMoves
  <1> QED
    BY <1>2, <1>3, <1>5, <1>6, <1>7 DEF TransferNext

LEMMA ConservationStep ==
  ASSUME BankInv, MoneyIsConserved, [BankNext]_bankVars
  PROVE  MoneyIsConserved'
  <1>1. Inv /\ TransferInv /\ LedgerInv
    BY DEF BankInv, Inv, TypeInv, TypeOK, LedgerInv
  <1>2. LedgerMoves
    <2>1. CASE [Next]_vars
      BY <1>1, <2>1, WithdrawalServiceMoves
    <2>2. CASE TransferNext
      BY <1>1, <2>2, TransferServiceMoves
    <2>3. [Next]_vars \/ TransferNext
      BY DEF BankNext, bankVars, Next
    <2> QED
      BY <2>1, <2>2, <2>3
  <1>3. CASE UNCHANGED ledgerVars
    BY <1>3 DEF ledgerVars, MoneyIsConserved
  <1>4. ASSUME NEW t \in Transfers, NEW fromPending \in BOOLEAN,
               SettleInternalBalanceTransfer(t, Recipient[t], fromPending)
        PROVE  MoneyIsConserved'
    <2>1. t \in Intents /\ Recipient[t] \in Accounts /\ Recipient[t] # Owner[t]
      BY TransferAssumption
    <2> QED
      BY <1>1, <1>4, <2>1, SettlementConserves
  <1> QED
    BY <1>1, <1>2, <1>3, <1>4, MethodsConserve DEF LedgerMoves

(* No money appears or disappears inside the bank: what the customers hold, *)
(* available and pending, is what was deposited less what was paid out, in  *)
(* whatever order deposits, withdrawals and transfers write the same rows   *)
(* (ledger.service.ts).                                                     *)
THEOREM MoneyCorrect == BankSpec => []MoneyIsConserved
  <1>1. BankInit => MoneyIsConserved
    <2> SUFFICES ASSUME BankInit PROVE MoneyIsConserved
      OBVIOUS
    <2>1. /\ availableBalance = [a \in Accounts |-> 0]
          /\ pendingBalance = [a \in Accounts |-> 0]
          /\ ledger = [k \in LedgerAccounts |-> 0]
      BY DEF BankInit, Init, LedgerInit
    <2>2. \A a \in Accounts : Holdings[a] = 0
      <3>1. \A a \in Accounts : availableBalance[a] = 0 /\ pendingBalance[a] = 0
        BY <2>1
      <3>2. \A a \in Accounts : Holdings[a] = availableBalance[a] + pendingBalance[a]
        BY DEF Holdings
      <3>3. \A x, y : x = 0 /\ y = 0 => x + y = 0
        OBVIOUS
      <3> QED
        BY <3>1, <3>2, <3>3
    <2>3. Total(Holdings, Accounts) = 0
      BY <2>2, TotalOfNothing
    <2>4. ledger[InboundClearing] = 0 /\ ledger[OutboundClearing] = 0
      BY <2>1 DEF LedgerAccounts
    <2>5. Total(Holdings, Accounts) = -ledger[InboundClearing] - ledger[OutboundClearing]
      BY <2>3, <2>4
    <2> QED
      BY <2>5 DEF MoneyIsConserved, Holdings
  <1>2. BankInv /\ MoneyIsConserved /\ [BankNext]_bankVars => MoneyIsConserved'
    BY ConservationStep
  <1> QED
    BY <1>1, <1>2, BankInvariance, PTL DEF BankSpec

-----------------------------------------------------------------------------
(* Reservations.  The pending balance of a customer is the sum of what      *)
(* waits, of the one service and of the other: a reservation adds an intent *)
(* to it, a release or a settlement takes it away, once.                    *)

Waits(i) ==
  \/ i \in Withdrawals /\ Reserved(i) /\ ~Released(i) /\ ~Settled(i)
  \/ i \in Transfers /\ TransferReserved(i) /\ ~TransferReleased(i) /\ ~TransferPaid(i)
Waiting(a) == Outstanding(a) \cup TransfersHeld(a)
ReviewsWait ==
  \A t \in Transfers : transferStatus[t] = "review_required" => t \in ReviewedTransfers
CoverInv == PendingCoversBoth /\ ReviewsWait

LEMMA WaitingIsFinite ==
  ASSUME NEW a \in Accounts
  PROVE  /\ Waiting(a) \subseteq Intents /\ IsFiniteSet(Waiting(a))
         /\ \A i : i \in Waiting(a) <=> i \in Intents /\ Owner[i] = a /\ Waits(i)
  <1>1. Waiting(a) \subseteq Intents
    BY WithdrawalAssumption, TransferAssumption DEF Waiting, Outstanding, TransfersHeld
  <1>2. IsFiniteSet(Waiting(a))
    BY <1>1, BankAssumption, FS_Subset
  <1>3. \A i : i \in Waiting(a) <=> i \in Intents /\ Owner[i] = a /\ Waits(i)
    BY <1>1 DEF Waiting, Outstanding, TransfersHeld, Waits
  <1> QED
    BY <1>1, <1>2, <1>3

LEMMA CoverStays ==
  ASSUME PendingCoversBoth, \A i \in Intents : Waits(i)' <=> Waits(i),
         \A a \in Accounts : pendingBalance'[a] = pendingBalance[a]
  PROVE  PendingCoversBoth'
  <1>1. \A i : Waits(i) => i \in Intents
    BY WithdrawalAssumption, TransferAssumption DEF Waits
  <1>2. \A i : Waits(i)' => i \in Intents
    BY WithdrawalAssumption, TransferAssumption DEF Waits
  <1>3. ASSUME NEW a \in Accounts PROVE Waiting(a)' = Waiting(a)
    <2>1. Waiting(a) = {i \in Intents : Owner[i] = a /\ Waits(i)}
      BY WaitingIsFinite
    <2>2. Waiting(a)' = {i \in Intents : Owner[i] = a /\ Waits(i)'}
      BY WithdrawalAssumption, TransferAssumption DEF Waiting, Outstanding, TransfersHeld, Waits
    <2> QED
      BY <2>1, <2>2
  <1> QED
    BY <1>3 DEF PendingCoversBoth, Waiting

LEMMA CoverGrows ==
  ASSUME PendingCoversBoth, NEW i \in Intents, ~Waits(i), Waits(i)',
         \A j \in Intents : j # i => (Waits(j)' <=> Waits(j)),
         \A a \in Accounts : pendingBalance'[a] =
           pendingBalance[a] + (IF a = Owner[i] THEN Amount[i] ELSE 0),
         LedgerTypeOK
  PROVE  PendingCoversBoth'
  <1>1. ASSUME NEW a \in Accounts
        PROVE  Waiting(a)' = IF a = Owner[i] THEN Waiting(a) \cup {i} ELSE Waiting(a)
    <2>1. Waiting(a) = {j \in Intents : Owner[j] = a /\ Waits(j)}
      BY WaitingIsFinite
    <2>2. Waiting(a)' = {j \in Intents : Owner[j] = a /\ Waits(j)'}
      BY WithdrawalAssumption, TransferAssumption DEF Waiting, Outstanding, TransfersHeld, Waits
    <2> QED
      BY <2>1, <2>2
  <1>2. ASSUME NEW a \in Accounts PROVE pendingBalance'[a] = Total(Amount, Waiting(a)')
    <2>1. pendingBalance[a] = Total(Amount, Waiting(a)) /\ pendingBalance[a] \in Nat
      BY DEF PendingCoversBoth, Waiting, LedgerTypeOK
    <2>2. CASE a # Owner[i]
      BY <1>1, <2>1, <2>2
    <2>3. CASE a = Owner[i]
      <3>1. /\ IsFiniteSet(Waiting(a)) /\ i \notin Waiting(a)
            /\ \A j \in Waiting(a) \cup {i} : Amount[j] \in Nat
        BY WaitingIsFinite, LedgerAssumption
      <3>2. Total(Amount, Waiting(a) \cup {i}) = Total(Amount, Waiting(a)) + Amount[i]
        BY <3>1, TotalWith
      <3> QED
        BY <1>1, <2>1, <2>3, <3>2
    <2> QED
      BY <2>2, <2>3
  <1> QED
    BY <1>2 DEF PendingCoversBoth, Waiting

LEMMA CoverShrinks ==
  ASSUME PendingCoversBoth, NEW i \in Intents, Waits(i), ~Waits(i)',
         \A j \in Intents : j # i => (Waits(j)' <=> Waits(j)),
         \A a \in Accounts : pendingBalance'[a] =
           pendingBalance[a] - (IF a = Owner[i] THEN Amount[i] ELSE 0),
         LedgerTypeOK
  PROVE  PendingCoversBoth'
  <1>1. ASSUME NEW a \in Accounts
        PROVE  Waiting(a)' = IF a = Owner[i] THEN Waiting(a) \ {i} ELSE Waiting(a)
    <2>1. Waiting(a) = {j \in Intents : Owner[j] = a /\ Waits(j)}
      BY WaitingIsFinite
    <2>2. Waiting(a)' = {j \in Intents : Owner[j] = a /\ Waits(j)'}
      BY WithdrawalAssumption, TransferAssumption DEF Waiting, Outstanding, TransfersHeld, Waits
    <2> QED
      BY <2>1, <2>2
  <1>2. ASSUME NEW a \in Accounts PROVE pendingBalance'[a] = Total(Amount, Waiting(a)')
    <2>1. pendingBalance[a] = Total(Amount, Waiting(a)) /\ pendingBalance[a] \in Nat
      BY DEF PendingCoversBoth, Waiting, LedgerTypeOK
    <2>2. CASE a # Owner[i]
      BY <1>1, <2>1, <2>2
    <2>3. CASE a = Owner[i]
      <3>1. /\ IsFiniteSet(Waiting(a)) /\ i \in Waiting(a)
            /\ \A j \in Waiting(a) : Amount[j] \in Nat
        BY <2>3, WaitingIsFinite, LedgerAssumption
      <3>2. Total(Amount, Waiting(a)) = Total(Amount, Waiting(a) \ {i}) + Amount[i]
        BY <3>1, TotalWithout
      <3>3. Total(Amount, Waiting(a) \ {i}) \in Nat
        <4>1. IsFiniteSet(Waiting(a) \ {i})
          BY <3>1, FS_RemoveElement
        <4> QED
          BY <3>1, <4>1, TotalType
      <3>4. Amount[i] \in Nat
        BY LedgerAssumption
      <3>5. Waiting(a)' = Waiting(a) \ {i}
        BY <1>1, <2>3
      <3>6. PICK left \in Nat, amount \in Nat :
              left = Total(Amount, Waiting(a) \ {i}) /\ amount = Amount[i]
        BY <3>3, <3>4
      <3>7. pendingBalance[a] = left + amount
        BY <2>1, <3>2, <3>6
      <3>8. pendingBalance'[a] = pendingBalance[a] - amount
        BY <2>3, <3>6
      <3>9. pendingBalance'[a] = left
        BY <3>6, <3>7, <3>8
      <3> QED
        BY <3>5, <3>6, <3>9
    <2> QED
      BY <2>2, <2>3
  <1> QED
    BY <1>2 DEF PendingCoversBoth, Waiting

(* What each method does to the pending balances and to the journals.       *)
LEMMA PendingOfMethods ==
  ASSUME LedgerInv, NEW i \in Intents
  PROVE  /\ SettleConfirmedDeposit(i) =>
              /\ journals' = journals \cup {<<i, "deposit_settlement">>}
              /\ \A a \in Accounts : pendingBalance'[a] = pendingBalance[a]
         /\ ReserveWithdrawalBalance(i) \/ ReserveInternalBalanceTransferBalance(i) =>
              \A a \in Accounts : pendingBalance'[a] =
                pendingBalance[a] + (IF a = Owner[i] THEN Amount[i] ELSE 0)
         /\ (\/ ReleaseWithdrawalReservation(i) \/ SettleConfirmedWithdrawal(i)
             \/ ReleaseInternalBalanceTransferReservation(i)) =>
              \A a \in Accounts : pendingBalance'[a] =
                pendingBalance[a] - (IF a = Owner[i] THEN Amount[i] ELSE 0)
  <1>1. PICK o \in Accounts, amount \in Nat : o = Owner[i] /\ amount = Amount[i]
    BY LedgerAssumption
  <1>2. pendingBalance \in [Accounts -> Nat]
    BY DEF LedgerInv, LedgerTypeOK
  <1>3. ASSUME SettleConfirmedDeposit(i)
        PROVE  /\ journals' = journals \cup {<<i, "deposit_settlement">>}
               /\ \A a \in Accounts : pendingBalance'[a] = pendingBalance[a]
    <2>1. /\ journals' = journals \cup {<<i, "deposit_settlement">>}
          /\ pendingBalance' = [pendingBalance EXCEPT ![o] = @ + 0]
      BY <1>1, <1>3 DEF SettleConfirmedDeposit, PostJournal, UpdateBalance
    <2> QED
      BY <1>2, <2>1
  <1>4. ASSUME ReserveWithdrawalBalance(i) \/ ReserveInternalBalanceTransferBalance(i),
               NEW a \in Accounts
        PROVE  pendingBalance'[a] = pendingBalance[a] + (IF a = o THEN amount ELSE 0)
    <2>1. pendingBalance' = [pendingBalance EXCEPT ![o] = @ + amount]
      BY <1>1, <1>4 DEF ReserveWithdrawalBalance, ReserveInternalBalanceTransferBalance,
                        UpdateBalance
    <2> QED
      BY <1>2, <2>1
  <1>5. ASSUME \/ ReleaseWithdrawalReservation(i) \/ SettleConfirmedWithdrawal(i)
               \/ ReleaseInternalBalanceTransferReservation(i),
               NEW a \in Accounts
        PROVE  pendingBalance'[a] = pendingBalance[a] - (IF a = o THEN amount ELSE 0)
    <2>1. pendingBalance' = [pendingBalance EXCEPT ![o] = @ + (-amount)]
      BY <1>1, <1>5 DEF ReleaseWithdrawalReservation, SettleConfirmedWithdrawal,
                        ReleaseInternalBalanceTransferReservation, UpdateBalance
    <2>2. pendingBalance'[a] = IF a = o THEN pendingBalance[a] + (-amount) ELSE pendingBalance[a]
      BY <1>2, <2>1
    <2>3. pendingBalance[a] \in Nat
      BY <1>2
    <2> QED
      BY <2>2, <2>3
  <1> QED
    BY <1>1, <1>3, <1>4, <1>5

(* A journal says nothing of what waits of the other intents.               *)
LEMMA OthersWait ==
  ASSUME NEW i, NEW type, journals' = journals \cup {<<i, type>>}
  PROVE  \A j : j # i => (Waits(j)' <=> Waits(j))
  BY DEF Waits, Reserved, Released, Settled, TransferReserved, TransferReleased, TransferPaid

LEMMA NothingWaitsNew ==
  ASSUME UNCHANGED ledgerVars, PendingCoversBoth
  PROVE  PendingCoversBoth'
  <1>1. \A i : Waits(i)' <=> Waits(i)
    BY DEF ledgerVars, Waits, Reserved, Released, Settled, TransferReserved,
           TransferReleased, TransferPaid
  <1> QED
    BY <1>1, CoverStays DEF ledgerVars

(* A withdrawal waits exactly while it lives.                               *)
LEMMA LiveWithdrawalWaits ==
  ASSUME Inv, Overlapping = {}, NEW i \in Withdrawals
  PROVE  /\ i \in Intents /\ i \notin Transfers
         /\ status[i] = "absent" => ~Waits(i) /\ ~Released(i) /\ ~Settled(i)
         /\ status[i] \in Live => Waits(i)
  <1>1. ReservationFollowsStatus(i)
    BY DEF Inv, EveryReservationFollowsStatus
  <1>2. i \in Intents /\ i \notin Transfers
    BY WithdrawalAssumption, BankAssumption
  <1> QED
    BY <1>1, <1>2 DEF ReservationFollowsStatus, Waits, Live

LEMMA WithdrawalEnds ==
  ASSUME Inv, LedgerInv, Overlapping = {}, PendingCoversBoth, NEW i \in Withdrawals,
         status[i] \in Live, ReleaseWithdrawalReservation(i) \/ SettleConfirmedWithdrawal(i)
  PROVE  PendingCoversBoth'
  <1>1. i \in Intents /\ i \notin Transfers /\ Waits(i)
    BY LiveWithdrawalWaits
  <1>2. PICK type \in {"withdrawal_reservation_release", "withdrawal_settlement"} :
          journals' = journals \cup {<<i, type>>}
    BY DEF ReleaseWithdrawalReservation, SettleConfirmedWithdrawal, PostJournal
  <1>3. ~Waits(i)' /\ \A j \in Intents : j # i => (Waits(j)' <=> Waits(j))
    <2>1. <<i, "withdrawal_reservation_release">> \in journals'
            \/ <<i, "withdrawal_settlement">> \in journals'
      BY <1>2
    <2>2. ~Waits(i)'
      BY <1>1, <2>1 DEF Waits, Released, Settled
    <2> QED
      BY <1>2, <2>2, OthersWait
  <1>4. \A a \in Accounts : pendingBalance'[a] =
           pendingBalance[a] - (IF a = Owner[i] THEN Amount[i] ELSE 0)
    BY <1>1, PendingOfMethods
  <1> QED
    BY <1>1, <1>3, <1>4, CoverShrinks DEF LedgerInv

LEMMA WithdrawalsCover ==
  ASSUME Inv, LedgerInv, Overlapping = {}, PendingCoversBoth, [Next]_vars
  PROVE  PendingCoversBoth'
  <1>1. ASSUME NEW d \in Intents, CreditDeposit(d) PROVE PendingCoversBoth'
    <2>1. /\ journals' = journals \cup {<<d, "deposit_settlement">>}
          /\ \A a \in Accounts : pendingBalance'[a] = pendingBalance[a]
      BY <1>1, PendingOfMethods DEF CreditDeposit
    <2>2. \A i : Waits(i)' <=> Waits(i)
      BY <2>1 DEF Waits, Reserved, Released, Settled, TransferReserved, TransferReleased,
                  TransferPaid
    <2> QED
      BY <2>1, <2>2, CoverStays
  <1>2. ASSUME NEW i \in Withdrawals, CreateWithdrawalIntent(i) PROVE PendingCoversBoth'
    <2>1. ReserveWithdrawalBalance(i) /\ status[i] = "absent"
      BY <1>2 DEF CreateWithdrawalIntent
    <2>2. /\ i \in Intents /\ i \notin Transfers
          /\ ~Waits(i) /\ ~Released(i) /\ ~Settled(i)
      BY <2>1, LiveWithdrawalWaits
    <2>3. journals' = journals \cup {<<i, "withdrawal_reservation">>}
      BY <2>1 DEF ReserveWithdrawalBalance, PostJournal
    <2>4. Waits(i)' /\ \A j \in Intents : j # i => (Waits(j)' <=> Waits(j))
      BY <1>2, <2>2, <2>3, OthersWait DEF Waits, Reserved, Released, Settled
    <2>5. \A a \in Accounts : pendingBalance'[a] =
             pendingBalance[a] + (IF a = Owner[i] THEN Amount[i] ELSE 0)
      BY <2>1, <2>2, PendingOfMethods
    <2> QED
      BY <2>2, <2>4, <2>5, CoverGrows DEF LedgerInv
  <1>3. ASSUME NEW i \in Withdrawals, ClaimTimesOut(i) PROVE PendingCoversBoth'
    BY <1>3, NothingWaitsNew DEF ClaimTimesOut
  <1>4. ASSUME NEW s \in Slots, NEW i \in Withdrawals, Read(s, i) PROVE PendingCoversBoth'
    BY <1>4, NothingWaitsNew
       DEF Read, BeginDecide, BeginQueue, BeginStart, BeginSign, BeginBroadcast, BeginFail,
           BeginConfirm, BeginSettle, BeginResolve, Begin
  <1>5. ASSUME NEW s \in Slots, Commit(s) PROVE PendingCoversBoth'
    <2> DEFINE i == request[s].intent
    <2>1. ASSUME NEW op \in {"deny", "fail", "settle"}, Serving(s, op)
          PROVE  i \in Withdrawals /\ status[i] \in Live
      <3>1. op \in Operations
        BY DEF Operations
      <3> QED
        BY <2>1, <3>1, CommitKnows DEF ReadStatus, Live
    <2>2. CASE CommitDeny(s)
      <3>1. Serving(s, "deny") /\ ReleaseWithdrawalReservation(i)
        BY <2>2 DEF CommitDeny
      <3> QED
        BY <2>1, <3>1, WithdrawalEnds
    <2>3. CASE CommitFail(s)
      <3>1. Serving(s, "fail") /\ (ReleaseWithdrawalReservation(i) \/ UNCHANGED ledgerVars)
        BY <2>3 DEF CommitFail
      <3> QED
        BY <2>1, <3>1, WithdrawalEnds, NothingWaitsNew
    <2>4. CASE CommitSettle(s)
      <3>1. Serving(s, "settle") /\ SettleConfirmedWithdrawal(i)
        BY <2>4 DEF CommitSettle
      <3> QED
        BY <2>1, <3>1, WithdrawalEnds
    <2>5. CASE \/ CommitApprove(s) \/ CommitQueue(s) \/ CommitStart(s) \/ CommitSign(s)
               \/ CommitBroadcast(s) \/ CommitConfirm(s) \/ CommitResolve(s)
      BY <2>5, NothingWaitsNew
         DEF CommitApprove, CommitQueue, CommitStart, CommitSign, CommitBroadcast,
             CommitConfirm, CommitResolve
    <2> QED
      BY <1>5, <2>2, <2>3, <2>4, <2>5 DEF Commit
  <1>6. ASSUME NEW s \in Slots, Abort(s) PROVE PendingCoversBoth'
    BY <1>6, NothingWaitsNew DEF Abort
  <1>7. CASE UNCHANGED vars
    BY <1>7, NothingWaitsNew DEF vars
  <1> QED
    BY <1>1, <1>2, <1>3, <1>4, <1>5, <1>6, <1>7 DEF Next

(* A transfer waits exactly while it is under review.                       *)
LEMMA ReviewedTransferWaits ==
  ASSUME TransferInv, Contended = {}, ReviewsWait, NEW t \in Transfers
  PROVE  /\ t \in Intents /\ t \notin Withdrawals
         /\ Recipient[t] \in Accounts /\ Recipient[t] # Owner[t]
         /\ transferStatus[t] = "absent" => /\ ~Waits(t) /\ ~TransferReserved(t)
                                            /\ ~TransferReleased(t) /\ ~TransferPaid(t)
         /\ transferStatus[t] = "review_required" => Waits(t)
  <1>1. TransferMoves(t)
    BY DEF TransferInv, TransferMovesOnce, TransferMoves
  <1>2. /\ t \in Intents /\ t \notin Withdrawals
        /\ Recipient[t] \in Accounts /\ Recipient[t] # Owner[t]
    BY TransferAssumption, BankAssumption
  <1> QED
    BY <1>1, <1>2 DEF TransferMoves, Waits, ReviewsWait

LEMMA TransferEnds ==
  ASSUME TransferInv, LedgerInv, Contended = {}, CoverInv, NEW t \in Transfers,
         transferStatus[t] = "review_required", NEW fromPending \in BOOLEAN,
         \/ ReleaseInternalBalanceTransferReservation(t)
         \/ SettleInternalBalanceTransfer(t, Recipient[t], fromPending)
  PROVE  fromPending => PendingCoversBoth'
  <1>1. /\ t \in Intents /\ t \notin Withdrawals /\ Waits(t)
        /\ Recipient[t] \in Accounts /\ Recipient[t] # Owner[t]
    BY ReviewedTransferWaits DEF CoverInv
  <1>2. PICK type \in {"internal_balance_transfer_reservation_release",
                       "internal_balance_transfer_settlement"} :
          journals' = journals \cup {<<t, type>>}
    BY DEF ReleaseInternalBalanceTransferReservation, SettleInternalBalanceTransfer, PostJournal
  <1>3. ~Waits(t)' /\ \A j \in Intents : j # t => (Waits(j)' <=> Waits(j))
    <2>1. <<t, "internal_balance_transfer_reservation_release">> \in journals'
            \/ <<t, "internal_balance_transfer_settlement">> \in journals'
      BY <1>2
    <2>2. ~Waits(t)'
      BY <1>1, <2>1 DEF Waits, TransferReleased, TransferPaid
    <2> QED
      BY <1>2, <2>2, OthersWait
  <1>4. fromPending => \A a \in Accounts : pendingBalance'[a] =
           pendingBalance[a] - (IF a = Owner[t] THEN Amount[t] ELSE 0)
    <2>1. CASE ReleaseInternalBalanceTransferReservation(t)
      BY <1>1, <2>1, PendingOfMethods
    <2>2. CASE SettleInternalBalanceTransfer(t, Recipient[t], fromPending)
      <3>1. \A a \in Accounts : pendingBalance'[a] = pendingBalance[a]
              - (IF a = Owner[t] /\ fromPending THEN Amount[t] ELSE 0)
        BY <1>1, <2>2, BalancesOfSettlement
      <3> QED
        BY <3>1
    <2> QED
      BY <2>1, <2>2
  <1> QED
    BY <1>1, <1>3, <1>4, CoverShrinks DEF LedgerInv, CoverInv

LEMMA TransfersCover ==
  ASSUME TransferInv, LedgerInv, Contended = {}, CoverInv, TransferNext
  PROVE  CoverInv'
  <1>1. transferStatus \in [Transfers -> TransferStatuses]
    BY DEF TransferInv, TransferRowsOK
  <1>2. ASSUME NEW t \in Transfers, CreateBalanceTransfer(t) PROVE CoverInv'
    <2>1. transferStatus[t] = "absent"
      BY <1>2 DEF CreateBalanceTransfer
    <2>2. /\ t \in Intents /\ t \notin Withdrawals
          /\ Recipient[t] \in Accounts /\ Recipient[t] # Owner[t]
          /\ ~Waits(t) /\ ~TransferReserved(t) /\ ~TransferReleased(t) /\ ~TransferPaid(t)
      BY <2>1, ReviewedTransferWaits DEF CoverInv
    <2>3. CASE t \in ReviewedTransfers
      <3>1. /\ ReserveInternalBalanceTransferBalance(t)
            /\ transferStatus' = [transferStatus EXCEPT ![t] = "review_required"]
        BY <1>2, <2>3 DEF CreateBalanceTransfer
      <3>2. journals' = journals \cup {<<t, "internal_balance_transfer_reservation">>}
        BY <3>1 DEF ReserveInternalBalanceTransferBalance, PostJournal
      <3>3. Waits(t)' /\ \A j \in Intents : j # t => (Waits(j)' <=> Waits(j))
        BY <1>2, <2>2, <3>2, OthersWait
           DEF Waits, TransferReserved, TransferReleased, TransferPaid
      <3>4. \A a \in Accounts : pendingBalance'[a] =
               pendingBalance[a] + (IF a = Owner[t] THEN Amount[t] ELSE 0)
        BY <2>2, <3>1, PendingOfMethods
      <3>5. PendingCoversBoth'
        BY <2>2, <3>3, <3>4, CoverGrows DEF LedgerInv, CoverInv
      <3>6. ReviewsWait'
        BY <1>1, <2>3, <3>1 DEF CoverInv, ReviewsWait
      <3> QED
        BY <3>5, <3>6 DEF CoverInv
    <2>4. CASE t \notin ReviewedTransfers
      <3>1. PICK fromPending \in BOOLEAN : fromPending = FALSE
        OBVIOUS
      <3>2. /\ SettleInternalBalanceTransfer(t, Recipient[t], fromPending)
            /\ transferStatus' = [transferStatus EXCEPT ![t] = "settled"]
        BY <1>2, <2>4, <3>1 DEF CreateBalanceTransfer
      <3>3. journals' = journals \cup {<<t, "internal_balance_transfer_settlement">>}
        BY <3>2 DEF SettleInternalBalanceTransfer, PostJournal
      <3>4. \A j \in Intents : Waits(j)' <=> Waits(j)
        <4>1. ~Waits(t)'
          BY <2>2, <3>3 DEF Waits, TransferReserved, TransferPaid
        <4> QED
          BY <2>2, <3>3, <4>1, OthersWait
      <3>5. \A a \in Accounts : pendingBalance'[a] = pendingBalance[a]
        <4>1. \A a \in Accounts : pendingBalance'[a] = pendingBalance[a]
                - (IF a = Owner[t] /\ fromPending THEN Amount[t] ELSE 0)
          BY <2>2, <3>2, BalancesOfSettlement
        <4>2. \A a \in Accounts : pendingBalance[a] \in Nat
          BY DEF LedgerInv, LedgerTypeOK
        <4> QED
          BY <3>1, <4>1, <4>2
      <3>6. PendingCoversBoth'
        BY <3>4, <3>5, CoverStays DEF CoverInv
      <3>7. ReviewsWait'
        BY <1>1, <3>2 DEF CoverInv, ReviewsWait
      <3> QED
        BY <3>6, <3>7 DEF CoverInv
    <2> QED
      BY <2>3, <2>4
  <1>3. ASSUME UNCHANGED <<ledgerVars, transferStatus>> PROVE CoverInv'
    BY <1>3, NothingWaitsNew DEF CoverInv, ReviewsWait
  <1>4. ASSUME NEW d \in Deciders, NEW t, NEW op, BeginDecideTransfer(d, t, op)
        PROVE  CoverInv'
    BY <1>3, <1>4 DEF BeginDecideTransfer
  <1>5. ASSUME NEW d \in Deciders, decision[d].op \in {"approved", "denied"}
        PROVE  /\ decision[d].transfer \in Transfers
               /\ transferStatus[decision[d].transfer] = "review_required"
    <2>1. decision[d] # NoDecision
      BY <1>5 DEF NoDecision
    <2>2. decision[d].transfer \in Transfers
      BY <2>1 DEF TransferInv, TransferRowsOK, DecisionRows, TransferDecisions
    <2>3. DecisionIsFresh(d)
      BY DEF TransferInv
    <2> QED
      BY <2>1, <2>2, <2>3 DEF DecisionIsFresh
  <1>6. ASSUME NEW d \in Deciders, NEW status2 \in {"settled", "cancelled"}, PendingCoversBoth',
               transferStatus' = [transferStatus EXCEPT ![decision[d].transfer] = status2]
        PROVE  CoverInv'
    BY <1>1, <1>6 DEF CoverInv, ReviewsWait
  <1>7. PICK fromPending \in BOOLEAN : fromPending = TRUE
    OBVIOUS
  <1>8. ASSUME NEW d \in Deciders, CommitTransferApproval(d) PROVE CoverInv'
    <2>1. PICK t : t = decision[d].transfer
      OBVIOUS
    <2>2. /\ decision[d].op = "approved"
          /\ SettleInternalBalanceTransfer(t, Recipient[t], fromPending)
          /\ transferStatus' = [transferStatus EXCEPT ![decision[d].transfer] = "settled"]
      BY <1>7, <1>8, <2>1 DEF CommitTransferApproval
    <2>3. t \in Transfers /\ transferStatus[t] = "review_required"
      BY <1>5, <2>1, <2>2
    <2>4. PendingCoversBoth'
      BY <1>7, <2>2, <2>3, TransferEnds
    <2> QED
      BY <1>6, <2>2, <2>4
  <1>9. ASSUME NEW d \in Deciders, CommitTransferDenial(d) PROVE CoverInv'
    <2>1. PICK t : t = decision[d].transfer
      OBVIOUS
    <2>2. /\ decision[d].op = "denied"
          /\ ReleaseInternalBalanceTransferReservation(t)
          /\ transferStatus' = [transferStatus EXCEPT ![decision[d].transfer] = "cancelled"]
      BY <1>9, <2>1 DEF CommitTransferDenial
    <2>3. t \in Transfers /\ transferStatus[t] = "review_required"
      BY <1>5, <2>1, <2>2
    <2>4. PendingCoversBoth'
      BY <1>7, <2>2, <2>3, TransferEnds
    <2> QED
      BY <1>6, <2>2, <2>4
  <1>10. ASSUME NEW d \in Deciders, AbortTransferDecision(d) PROVE CoverInv'
    BY <1>3, <1>10 DEF AbortTransferDecision
  <1> QED
    BY <1>2, <1>4, <1>8, <1>9, <1>10 DEF TransferNext

(* The pending balance of every customer is the sum of the withdrawals and  *)
(* the reviewed transfers that wait, however the handlers of the two        *)
(* services interleave, as long as no two requests for one withdrawal and   *)
(* no two decisions on one transfer overlap (reserveWithdrawalBalance,      *)
(* settleInternalBalanceTransfer).                                          *)
THEOREM PendingCorrect ==
  Overlapping = {} /\ Contended = {} => (BankSpec => []PendingCoversBoth)
  <1> SUFFICES ASSUME Overlapping = {}, Contended = {} PROVE BankSpec => []PendingCoversBoth
    OBVIOUS
  <1>1. BankInit => CoverInv
    <2> SUFFICES ASSUME BankInit PROVE CoverInv
      OBVIOUS
    <2>1. /\ pendingBalance = [a \in Accounts |-> 0] /\ journals = {}
          /\ transferStatus = [t \in Transfers |-> "absent"]
      BY DEF BankInit, Init, LedgerInit, TransferInit
    <2>2. ASSUME NEW a \in Accounts PROVE pendingBalance[a] = Total(Amount, Waiting(a))
      <3>1. \A i \in Waiting(a) : Amount[i] = 0
        BY <2>1 DEF Waiting, Outstanding, TransfersHeld, Reserved, TransferReserved
      <3> QED
        BY <2>1, <3>1, TotalOfNothing
    <2> QED
      BY <2>1, <2>2 DEF CoverInv, PendingCoversBoth, Waiting, ReviewsWait
  <1>2. BankInv /\ CoverInv /\ [BankNext]_bankVars => CoverInv'
    <2> SUFFICES ASSUME BankInv, CoverInv, [BankNext]_bankVars PROVE CoverInv'
      OBVIOUS
    <2>1. Inv /\ TransferInv /\ LedgerInv
      BY DEF BankInv, Inv, TypeInv, TypeOK, LedgerInv
    <2>2. CASE [Next]_vars /\ UNCHANGED transferVars
      BY <2>1, <2>2, WithdrawalsCover DEF transferVars, CoverInv, ReviewsWait
    <2>3. CASE TransferNext
      BY <2>1, <2>3, TransfersCover
    <2>4. ([Next]_vars /\ UNCHANGED transferVars) \/ TransferNext
      BY DEF BankNext, bankVars, Next
    <2> QED
      BY <2>2, <2>3, <2>4
  <1>3. CoverInv => PendingCoversBoth
    BY DEF CoverInv
  <1> QED
    BY <1>1, <1>2, <1>3, BankInvariance, PTL DEF BankSpec
=============================================================================
