-------------------------------- MODULE Loans --------------------------------
(***************************************************************************)
(* LoansService (apps/api/src/loans/loans.service.ts): applications,       *)
(* agreements with their installments and collateral, and liquidation      *)
(* cases.  Operators decide; the worker funds, collects, values and        *)
(* escalates.                                                              *)
(*                                                                         *)
(* Most handlers read the agreement before their transaction and write by  *)
(* id what they computed from it: BeginLoanRequest reads, Commit... writes,*)
(* and any other handler may run in between.  An application has at most   *)
(* one agreement, and both go by one name here.                            *)
(***************************************************************************)
EXTENDS Ledger, Sequences, FiniteSetsExt, Sums

CONSTANTS Borrower,       \* the account of an application
          Share,          \* scheduledPrincipalAmount of an installment
          FeeShare,       \* scheduledServiceFeeAmount of an installment
          Term,           \* installmentCount
          Collateral,     \* collateralAmount
          LoanBookV1,     \* the deployed contract is LoanBookV1
          LoanDeposits,   \* deposits of borrowers; other intents are withdrawals
          LoanHandlers,   \* requests the API serves at a time (a bound)
          MaxCases        \* liquidation cases of an agreement (a bound)

ASSUME LoanAssumption ==
  /\ Borrower \in [Agreements -> Accounts]
  /\ Share \in [Agreements -> Nat \ {0}] /\ FeeShare \in [Agreements -> Nat]
  /\ Term \in [Agreements -> Nat \ {0}]
  /\ Collateral \in [Agreements -> Nat \ {0}]
  /\ LoanBookV1 \in BOOLEAN
  /\ LoanDeposits \subseteq Intents
  /\ MaxCases \in Nat

VARIABLES governedExternal, \* funding goes through governed execution
          fundingPaused,    \* solvency or governance refuses loan funding
          application,      \* LoanApplication.status
          agreement,        \* LoanAgreement rows
          installment,      \* LoanInstallment rows
          collateral,       \* LoanCollateralPosition.status
          cases,            \* LoanLiquidationCase.status, newest first
          onchain,          \* loans the contract holds for an agreement
          month,            \* whole months since the approval
          loanRequest       \* what the handler running in a slot remembers

loanRows == <<application, agreement, installment, collateral, cases>>
loanVars == <<governedExternal, fundingPaused, loanRows, onchain, month,
              loanRequest>>

AgreementStatuses == {"awaiting_funding", "active", "grace_period", "defaulted",
                      "liquidating", "closed"}
CollateralStatuses == {"pending_lock", "locked", "margin_warning",
                       "liquidation_review", "liquidating", "seized", "released"}
LoanOps == {"approve", "fund", "autopay", "start_liquidation",
            "execute_liquidation", "escalate", "valuation"}
NoAgreement == [status |-> "absent", principal |-> 0, fee |-> 0,
                autopay |-> FALSE, grace |-> "none", activated |-> FALSE]
NoLoanRequest == [op |-> "idle"]

Principal(l) == Share[l] * Term[l]
Fee(l) == FeeShare[l] * Term[l]

(* How often an installment was collected, over all of them.                *)
Collections(l) ==
  Total([n \in DOMAIN installment[l] |-> installment[l][n].collected],
        DOMAIN installment[l])

LoanTypeOK ==
  /\ LedgerTypeOK
  /\ {governedExternal, fundingPaused} \subseteq BOOLEAN
  /\ application \in [Agreements -> {"absent", "submitted", "under_review",
                                    "approved", "rejected"}]
  /\ agreement \in [Agreements -> [status : AgreementStatuses \cup {"absent"},
                                   principal : Int, fee : Int, autopay : BOOLEAN,
                                   grace : {"none", "running", "expired"},
                                   activated : BOOLEAN]]
  /\ \A l \in Agreements :
       /\ installment[l] \in
            Seq([status : {"scheduled", "due", "missed", "paid"}, collected : Nat])
       /\ Len(installment[l]) \in {0, Term[l]}
       /\ cases[l] \in Seq({"review_requested", "approved", "executed"})
       /\ month[l] \in 0 .. Term[l]
  /\ collateral \in [Agreements -> CollateralStatuses \cup {"absent"}]
  /\ onchain \in [Agreements -> Nat]
  /\ \A h \in LoanHandlers : loanRequest[h].op \in LoanOps \cup {"idle"}

LoanInit ==
  /\ LedgerInit
  /\ governedExternal \in BOOLEAN
  /\ fundingPaused = FALSE
  /\ application = [l \in Agreements |-> "absent"]
  /\ agreement = [l \in Agreements |-> NoAgreement]
  /\ installment = [l \in Agreements |-> <<>>]
  /\ collateral = [l \in Agreements |-> "absent"]
  /\ cases = [l \in Agreements |-> <<>>]
  /\ onchain = [l \in Agreements |-> 0]
  /\ month = [l \in Agreements |-> 0]
  /\ loanRequest = [h \in LoanHandlers |-> NoLoanRequest]

-----------------------------------------------------------------------------
(* Applications *)

(* The policy pack of one jurisdiction, in basis points.                    *)
InitialLtvBps == 6667
WarningLtvBps == 7000
LiquidationLtvBps == 8200

(* The collateral covers the principal at the initial loan-to-value ratio.  *)
QuoteAccepted(l) ==
  LET minimumCollateralRatioBps ==
        (10000 * 10000 + InitialLtvBps - 1) \div InitialLtvBps
  IN Collateral[l] * 10000 >= minimumCollateralRatioBps * Principal(l)

CreateApplication(l) ==
  /\ application[l] = "absent"
  /\ availableBalance[Borrower[l]] > 0
  /\ QuoteAccepted(l)
  /\ application' = [application EXCEPT ![l] = "submitted"]
  /\ UNCHANGED <<ledgerVars, governedExternal, fundingPaused, agreement, installment,
                 collateral, cases, onchain, month, loanRequest>>

(* requestMoreEvidence and rejectApplication write by id, whatever the      *)
(* status: an approved application may be rejected.                         *)
DecideApplication(l, status) ==
  /\ application[l] # "absent"
  /\ application' = [application EXCEPT ![l] = status]
  /\ UNCHANGED <<ledgerVars, governedExternal, fundingPaused, agreement, installment,
                 collateral, cases, onchain, month, loanRequest>>

RequestMoreEvidence(l) == DecideApplication(l, "under_review")
RejectApplication(l) == DecideApplication(l, "rejected")

SetCustomerAutopayPreference(l, enabled) ==
  /\ agreement[l].status # "absent"
  /\ agreement[l].autopay # enabled
  /\ agreement' = [agreement EXCEPT ![l].autopay = enabled]
  /\ UNCHANGED <<ledgerVars, governedExternal, fundingPaused, application, installment,
                 collateral, cases, onchain, month, loanRequest>>

-----------------------------------------------------------------------------
(* Reading.  Installments are collected in their order, and only a part of  *)
(* an installment is never recorded.                                        *)

DueInstallments(l) ==
  {n \in DOMAIN installment[l] :
     installment[l][n].status \in {"due", "missed"} /\ n <= month[l]}

MayHandleLoan(op, l) ==
  CASE op = "approve" -> /\ ~fundingPaused
                         /\ application[l] \notin {"absent", "rejected"}
                         /\ agreement[l].status = "absent"
    [] op = "fund" -> /\ ~fundingPaused
                      /\ agreement[l].status = "awaiting_funding"
    [] op = "autopay" -> DueInstallments(l) # {} /\ agreement[l].autopay
    [] op = "start_liquidation" ->
         agreement[l].status \in {"delinquent", "defaulted", "grace_period"}
    [] op = "execute_liquidation" -> cases[l] # <<>> /\ Head(cases[l]) = "approved"
    [] op = "escalate" -> /\ agreement[l].status # "closed"
                          /\ agreement[l].grace = "expired"
    [] op = "valuation" -> agreement[l].status \in
                             {"active", "grace_period", "defaulted", "liquidating"}

BeginLoanRequest(h, op, l) ==
  /\ loanRequest[h] = NoLoanRequest
  /\ MayHandleLoan(op, l)
  /\ loanRequest' = [loanRequest EXCEPT ![h] =
       CASE op = "autopay" ->
              [op |-> op, loan |-> l, due |-> Min(DueInstallments(l)),
               principal |-> agreement[l].principal, fee |-> agreement[l].fee,
               covered |-> availableBalance[Borrower[l]] >= Share[l] + FeeShare[l]]
         [] op = "valuation" ->
              [op |-> op, loan |-> l,
               outstanding |-> agreement[l].principal + agreement[l].fee]
         [] op = "execute_liquidation" ->
              [op |-> op, loan |-> l, age |-> Len(cases[l])]
         [] op = "approve" -> [op |-> op, loan |-> l, onchain |-> FALSE]
         [] OTHER -> [op |-> op, loan |-> l]]
  /\ UNCHANGED <<ledgerVars, governedExternal, fundingPaused, loanRows, onchain,
                 month>>

(* The transaction of the handler running in slot h.                        *)
CommittingLoan(h, op) ==
  /\ loanRequest[h].op = op
  /\ loanRequest' = [loanRequest EXCEPT ![h] = NoLoanRequest]
  /\ UNCHANGED <<governedExternal, fundingPaused, onchain, month>>

(* A statement of the handler throws and its transaction rolls back.        *)
AbortLoanRequest(h) ==
  /\ loanRequest[h] # NoLoanRequest
  /\ loanRequest' = [loanRequest EXCEPT ![h] = NoLoanRequest]
  /\ UNCHANGED <<ledgerVars, governedExternal, fundingPaused, loanRows, onchain, month>>

-----------------------------------------------------------------------------
(* Approval and funding *)

(* Mutant: createLoan of the older contract gives every call a new loan. *)
ContractAccepts(l) == TRUE

(* createAgreement of LoanBookV1 takes an identifier derived from the       *)
(* application and refuses it the second time.                              *)
ContractCreates(l) == LoanBookV1 => onchain[l] = 0

MaybeCreateOnchainLoan(h) ==
  LET l == loanRequest[h].loan IN
  /\ loanRequest[h].op = "approve" /\ ~loanRequest[h].onchain
  /\ ~governedExternal
  /\ ContractCreates(l)
  /\ onchain' = [onchain EXCEPT ![l] = @ + 1]
  /\ loanRequest' = [loanRequest EXCEPT ![h].onchain = TRUE]
  /\ UNCHANGED <<ledgerVars, governedExternal, fundingPaused, loanRows, month>>

(* The unique applicationId refuses a second agreement.                     *)
CommitApproval(h) ==
  LET r == loanRequest[h]
      l == r.loan IN
  /\ CommittingLoan(h, "approve")
  /\ governedExternal \/ r.onchain
  /\ agreement[l].status = "absent"
  /\ application' = [application EXCEPT ![l] = "approved"]
  /\ agreement' = [agreement EXCEPT ![l] =
       [status |-> "awaiting_funding", principal |-> Principal(l), fee |-> Fee(l),
        autopay |-> TRUE, grace |-> "none", activated |-> r.onchain]]
  /\ installment' = [installment EXCEPT ![l] =
       [n \in 1 .. Term[l] |->
          [status |-> IF n = 1 THEN "due" ELSE "scheduled", collected |-> 0]]]
  /\ collateral' = [collateral EXCEPT ![l] = "pending_lock"]
  /\ UNCHANGED <<ledgerVars, cases>>

(* The governed execution module, which records the contract's loan.        *)
GovernedActivation(l) ==
  /\ governedExternal /\ agreement[l].status # "absent"
  /\ ContractCreates(l)
  /\ onchain' = [onchain EXCEPT ![l] = @ + 1]
  /\ agreement' = [agreement EXCEPT ![l].activated = TRUE]
  /\ UNCHANGED <<ledgerVars, governedExternal, fundingPaused, application, installment,
                 collateral, cases, month, loanRequest>>

(* The status of the agreement is not looked at: the journal of the         *)
(* disbursement is what is unique.                                          *)
FundAgreement(h) ==
  LET l == loanRequest[h].loan IN
  /\ CommittingLoan(h, "fund")
  /\ governedExternal => agreement[l].activated
  /\ RecordLoanDisbursement(l, Principal(l), Fee(l))
  /\ agreement' = [agreement EXCEPT ![l].status = "active"]
  /\ collateral' = [collateral EXCEPT ![l] = "locked"]
  /\ UNCHANGED <<application, installment, cases>>

-----------------------------------------------------------------------------
(* Servicing *)

AutopayFails(h) ==
  LET r == loanRequest[h]
      l == r.loan IN
  /\ CommittingLoan(h, "autopay")
  /\ ~r.covered
  /\ installment' = [installment EXCEPT ![l][r.due].status = "missed"]
  /\ agreement' = [agreement EXCEPT ![l].status = "grace_period", ![l].grace = "running"]
  /\ UNCHANGED <<ledgerVars, application, collateral, cases>>

(* Mutant: the outstanding amount is not reduced. *)
AutopayKeepingOutstanding(h) ==
  LET r == loanRequest[h]
      l == r.loan
      n == r.due IN
  /\ CommittingLoan(h, "autopay")
  /\ r.covered
  /\ RecordLoanRepayment(l, Borrower[l], Share[l], FeeShare[l])
  /\ installment' = [installment EXCEPT ![l][n] =
                       [status |-> "paid", collected |-> @.collected + 1]]
  /\ agreement' = [agreement EXCEPT ![l].status = "active", ![l].grace = "none"]
  /\ UNCHANGED <<application, collateral, cases>>

(* What is left is computed from the agreement as it was read.              *)
AutopaySettles(h) ==
  LET r == loanRequest[h]
      l == r.loan
      n == r.due
      remainingPrincipal == r.principal - Share[l]
      remainingFee == r.fee - FeeShare[l]
      status == IF remainingPrincipal <= 0 /\ remainingFee <= 0
                  THEN "closed" ELSE "active"
      paid == [installment[l] EXCEPT ![n] =
                 [status |-> "paid", collected |-> @.collected + 1]]
  IN
  /\ CommittingLoan(h, "autopay")
  /\ r.covered
  /\ RecordLoanRepayment(l, Borrower[l], Share[l], FeeShare[l])
  /\ installment' = [installment EXCEPT ![l] =
       IF n < Term[l] THEN [paid EXCEPT ![n + 1].status = "due"] ELSE paid]
  /\ agreement' = [agreement EXCEPT ![l].status = status, ![l].grace = "none",
                                    ![l].principal = remainingPrincipal,
                                    ![l].fee = remainingFee]
  /\ UNCHANGED <<application, collateral, cases>>

(* The status of the collateral, whatever it was, becomes the valuation's.  *)
RefreshValuation(h) ==
  LET r == loanRequest[h]
      l == r.loan
      ltvBps == IF r.outstanding <= 0 THEN 0 ELSE (r.outstanding * 10000) \div Collateral[l]
  IN
  /\ CommittingLoan(h, "valuation")
  /\ collateral' = [collateral EXCEPT ![l] =
       CASE ltvBps >= LiquidationLtvBps -> "liquidation_review"
         [] ltvBps >= WarningLtvBps /\ ltvBps < LiquidationLtvBps -> "margin_warning"
         [] OTHER -> "locked"]
  /\ UNCHANGED <<ledgerVars, application, agreement, installment, cases>>

EscalateDefault(h) ==
  /\ CommittingLoan(h, "escalate")
  /\ agreement' = [agreement EXCEPT ![loanRequest[h].loan].status = "defaulted"]
  /\ UNCHANGED <<ledgerVars, application, installment, collateral, cases>>

-----------------------------------------------------------------------------
(* Liquidation and closing *)

StartLiquidationReview(h) ==
  LET l == loanRequest[h].loan IN
  /\ CommittingLoan(h, "start_liquidation")
  /\ Len(cases[l]) < MaxCases
  /\ cases' = [cases EXCEPT ![l] = <<"review_requested">> \o @]
  /\ agreement' = [agreement EXCEPT ![l].status = "defaulted"]
  /\ collateral' = [collateral EXCEPT ![l] = "liquidation_review"]
  /\ UNCHANGED <<ledgerVars, application, installment>>

(* The newest case whose review is requested; nothing else is looked at.    *)
ApproveLiquidation(l) ==
  LET requested == {k \in DOMAIN cases[l] : cases[l][k] = "review_requested"} IN
  /\ requested # {}
  /\ cases' = [cases EXCEPT ![l][Min(requested)] = "approved"]
  /\ agreement' = [agreement EXCEPT ![l].status = "liquidating"]
  /\ collateral' = [collateral EXCEPT ![l] = "liquidating"]
  /\ UNCHANGED <<ledgerVars, governedExternal, fundingPaused, application, installment,
                 onchain, month, loanRequest>>

(* The case is written by id; it was the newest when it was read.           *)
ExecuteLiquidation(h) ==
  LET l == loanRequest[h].loan
      k == Len(cases[l]) - loanRequest[h].age + 1 IN
  /\ CommittingLoan(h, "execute_liquidation")
  /\ cases' = [cases EXCEPT ![l][k] = "executed"]
  /\ agreement' = [agreement EXCEPT ![l].status = "closed",
                                    ![l].principal = 0, ![l].fee = 0]
  /\ collateral' = [collateral EXCEPT ![l] = "seized"]
  /\ UNCHANGED <<ledgerVars, application, installment>>

CloseAgreement(l) ==
  /\ agreement[l].status # "absent"
  /\ agreement' = [agreement EXCEPT ![l].status = "closed",
                                    ![l].principal = 0, ![l].fee = 0]
  /\ collateral' = [collateral EXCEPT ![l] = "released"]
  /\ UNCHANGED <<ledgerVars, governedExternal, fundingPaused, application, installment,
                 cases, onchain, month, loanRequest>>

-----------------------------------------------------------------------------
(* The environment *)

CreditBorrower(d) ==
  /\ SettleConfirmedDeposit(d)
  /\ UNCHANGED loanVars

(* The balance that autopay read is spent before it collects.               *)
BorrowerWithdraws(w) ==
  /\ ReserveWithdrawalBalance(w)
  /\ UNCHANGED loanVars

ChangeFundingPause ==
  /\ fundingPaused' = ~fundingPaused
  /\ UNCHANGED <<ledgerVars, governedExternal, loanRows, onchain, month, loanRequest>>

PassMonth(l) ==
  /\ agreement[l].status # "absent" /\ month[l] < Term[l]
  /\ month' = [month EXCEPT ![l] = @ + 1]
  /\ UNCHANGED <<ledgerVars, governedExternal, fundingPaused, loanRows, onchain,
                 loanRequest>>

PassGracePeriod(l) ==
  /\ agreement[l].grace = "running"
  /\ agreement' = [agreement EXCEPT ![l].grace = "expired"]
  /\ UNCHANGED <<ledgerVars, governedExternal, fundingPaused, application, installment,
                 collateral, cases, onchain, month, loanRequest>>

LoanStep(h) ==
  \/ \E l \in Agreements, op \in LoanOps : BeginLoanRequest(h, op, l)
  \/ MaybeCreateOnchainLoan(h) \/ CommitApproval(h) \/ FundAgreement(h)
  \/ AutopayFails(h) \/ AutopaySettles(h) \/ RefreshValuation(h)
  \/ EscalateDefault(h) \/ StartLiquidationReview(h) \/ ExecuteLiquidation(h)
  \/ AbortLoanRequest(h)

OperatorStep(l) ==
  \/ CreateApplication(l)
  \/ RequestMoreEvidence(l) \/ RejectApplication(l)
  \/ \E enabled \in BOOLEAN : SetCustomerAutopayPreference(l, enabled)
  \/ ApproveLiquidation(l) \/ CloseAgreement(l)

LoanNext ==
  \/ \E h \in LoanHandlers : LoanStep(h)
  \/ \E l \in Agreements :
       \/ OperatorStep(l) \/ GovernedActivation(l)
       \/ PassMonth(l) \/ PassGracePeriod(l)
  \/ \E d \in LoanDeposits : CreditBorrower(d)
  \/ \E w \in Intents \ LoanDeposits : BorrowerWithdraws(w)
  \/ ChangeFundingPause

LoanSpec == LoanInit /\ [][LoanNext]_<<ledgerVars, loanVars>>

-----------------------------------------------------------------------------
(* Properties *)

(* An installment is collected once, and the receivables of the ledger are  *)
(* what was disbursed less what was collected, however autopays that read   *)
(* the same installment due, operators and liquidation interleave.          *)
ReceivablesMatchPayments ==
  /\ ProjectionMatchesLedger
  /\ \A l \in Agreements :
       LET disbursed == <<l, "loan_disbursement">> \in journals IN
       /\ \A n \in DOMAIN installment[l] : installment[l][n].collected <= 1
       /\ ledger[PrincipalReceivable(l)] =
            Share[l] * Collections(l) - (IF disbursed THEN Principal(l) ELSE 0)
       /\ ledger[FeeReceivable(l)] =
            FeeShare[l] * Collections(l) - (IF disbursed THEN Fee(l) ELSE 0)

(* A borrower is never shown more to pay than is left of the loan, although *)
(* the outstanding amount is written from a stale read.                     *)
NeverOverstated ==
  \A l \in Agreements :
    /\ agreement[l].principal <= Principal(l) - Share[l] * Collections(l)
    /\ agreement[l].fee <= Fee(l) - FeeShare[l] * Collections(l)

(* The contract holds one loan for an agreement and none is forgotten, with *)
(* approvals that race or die after the chain answered.                     *)
OneOnchainLoan ==
  \A l \in Agreements :
    /\ onchain[l] <= 1
    /\ agreement[l].activated => onchain[l] = 1
=============================================================================
