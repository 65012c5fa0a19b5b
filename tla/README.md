# Verification of the bank's money flows

TLA+ models of a custodial bank on Ethereum: the API handlers that move customer
money or decide who may (`apps/api`), the worker that executes them on chain
(`apps/worker`) and the contracts they call (`packages/contracts`), with their
concurrency and their faults. TLC checks the models on small instances; TLAPS
proves the central properties for instances of any size. Paths below are
relative to `src/`; `PROJECT.json` maps every definition to the lines it models.

## 1. The system

Customers and operators use web, admin and mobile applications over one NestJS
API backed by Postgres (Prisma). A worker process polls the internal routes of
the API and talks to an Ethereum node. Every customer account has a managed
wallet, and the customer's claim is a balance in the bank's own ledger.

| Component | State it keeps | Operations | Hard because | Modelled |
|---|---|---|---|---|
| Ledger (`ledger/`) | `LedgerJournal`, postings, `LedgerAccount`, `CustomerAssetBalance` | settle deposit; reserve, release, settle withdrawals and transfers; vaults; loans | several statements inside a caller's transaction; all reservations share one `pendingBalance` | yes |
| Withdrawal intents (`transaction-intents/withdrawal-intents.service.ts`) | `TransactionIntent`, `BlockchainTransaction` | create, decide, queue, claim, record, fail, confirm, settle | read, check, write by id at READ COMMITTED; claims time out | yes |
| Deposit intents (`transaction-intents.service.ts`) | the same, `DepositSettlementProof`, `ReviewCase` | create, decide, queue, record, fail, confirm, settle | an unsound transaction sends the intent to review and back | yes |
| Internal transfers (`balance-transfers/`) | intent, journals | create, decide | two accounts, a reservation, a threshold | yes |
| Retirement vault (`retirement-vault/`) | vault, release and rule-change requests | fund, request, cool down, approve, sweep, cancel | sweeps race customers and operators | partly |
| Loans (`loans/`) | application, agreement, installments, collateral, cases | approve, fund, autopay, value, liquidate, close | amounts computed outside the transaction that writes them | partly |
| Worker (`apps/worker/src/runtime/`) | what it holds in memory | list, claim, sign, record, send, confirm, settle | crash between any two calls; calls that time out and go on; nonces | partly |
| Governed execution (`governed-execution/`) | execution and override requests | publish, claim, dispatch, deliver, record, override | leases, late callbacks, claims by two workers | partly |
| Solvency (`solvency/`) | snapshots, policy state, resume requests, anchors | snapshot, pause, resume, anchor | snapshots from reads of different moments | partly |
| Staking (`staking/`, `pools/`) | pools, governance requests, stakes | deposit, withdraw, claim, govern a pool | records around chain calls | partly |
| Ledger and settlement reconciliation | mismatches, scans, replay requests | scan, repair, replay | repairs act on stale reads; replays race the worker | partly |
| Oversight incidents, review cases | incidents, restrictions, cases | restrict, request and decide a release | two incidents on one account | partly |
| Auth (`auth/`) | sessions, token version, recovery requests | login, refresh, revoke, recover | a session created after the revocation | partly |
| Release readiness | evidence, packs, approvals | approve, reject, rebind | a chain of superseding approvals | partly |
| Operations monitoring, alert delivery | alerts, deliveries | detect, acknowledge, route, escalate, retry | deliveries sent by a process nobody waits for | partly |
| Incident packages | release requests | request, approve, release, expire | no transaction at all | partly |
| Contracts (`packages/contracts`) | LoanBookV1, StakingV1, PolicyControlledWallet, anchor registry | Solidity functions | transactions in any order, replay | partly |
| Notifications, read models, configuration, user interfaces, scripts | | | | no, see 5 |

**How the parts interact.** Handlers of the API share rows of Postgres and
nothing else. All Prisma transactions run at the default isolation level, READ
COMMITTED: no call sets `isolationLevel`, none takes a row lock with `FOR
UPDATE`, and no migration adds a CHECK constraint on the balances. What protects
a write is what its own statement carries: a unique index, or the `where` clause
of an `updateMany`. The worker calls the API over HTTP with a timeout; a request
it gives up goes on in the API. The chain is seen through a node that can fail
and whose answer can be lost. An external executor receives governed requests
and calls back.

**What makes each part correct.** The ledger: balances equal the positions they
are projected from and never go negative, and no money appears. An intent: its
status says what became of the money, and only moves forward. Execution: paid or
funded at most once, and in the end. Ledger and chain: no payment for a
reservation that was given back, no credit without funds received. Locked money
leaves when its lock says so. Whoever decides is another one than who asked.
`hazards` in `PROJECT.json` lists where each of these could go wrong.

## 2. Modules

```
Ledger -------------------- LedgerProofs
 |-- WithdrawalIntents ----- WithdrawalIntentsProofs
 |    |    \. . implements . WithdrawalPromise
 |    |-- WithdrawalExecution ---- WithdrawalExecutionProofs  (worker and chain)
 |    |-- Bank -------------------- BankProofs   (with BalanceTransfers)
 |    `-- LedgerReconciliation          (over Bank)
 |-- DepositIntents
 |    |-- DepositExecution --+---- DepositProofs  (worker and chain)
 |    `-- DepositReplay -----'            (replays, with Staff)
 |-- RetirementVault --.
 `-- Loans ------------+----- CommitmentProofs
GovernedExecution -----'
Staff --+-- Solvency, ExecutionOverrides, StakingPools, CustomerSessions,
        |   ReleaseApprovals, IncidentPackages
        `-- BackOffice ----- BackOfficeProofs
            (also SolvencyAnchors, AccountRestrictions, Staking, LoanBookV1,
             PolicyWallet, PlatformAlerts)
Sums (Bank, Loans, Staking, LoanBookV1) -- SumProofs
```

Modules `MC...` give the constants their values.

**Common form.** A handler that reads and checks outside its transaction, or
before its writes, is a pair of actions. `Begin...` is the read with every check
and early return on it; what the handler remembers is kept (in `request`,
`vaultHandler`, `loanHandler`, `poolHandler`, `review`, ...). `Commit...` is the
write, from the remembered values and under the conditions the database itself
evaluates (unique indexes, `where` clauses of `updateMany`). A rollback, or the
death of the API in between, drops the handler. A transaction whose statements
all follow from rows it holds locked is one step. A repeated call that is answered
without a write is no step.

**Ledger** models `ledger.service.ts` for one asset. `availableBalance`,
`pendingBalance` and `lockedBalance` are columns; `ledger` holds the net position
of every `LedgerAccount`, `journals` the unique keys of `LedgerJournal`. Each
method is an operator its caller conjoins; it is disabled exactly when the method
throws and the caller's transaction rolls back. `UpdateBalance` carries the
condition of the `updateMany`, which READ COMMITTED evaluates again on the
current row.

**WithdrawalIntents** keeps the columns of the intent: `status`,
`policyDecision`, `failure`, `claim`, `stale` (the claim is older than its
timeout), `txs` (the `BlockchainTransaction` rows). `BeginResolve`,
`CommitResolve` are `ReviewCasesService.applyManualResolution`. `Overlapping`
says for which intents two requests may overlap in time. With `Overlapping = {}`
requests for different intents interleave freely, two of one intent do not. What
needs this quantifies over `Withdrawals \ Overlapping`; the rest holds for all.
(`Contended` in BalanceTransfers and `Racing` in RetirementVault are the same
device; section 5 says what happens beyond them.)

**WithdrawalPromise** is what the customer is told: an amount is held once, and
paid out or given back once. `Promise == INSTANCE WithdrawalPromise WITH ...` in
WithdrawalIntents maps its `balance` to `availableBalance` and its `money` to what
the journals say became of the amount; `PromiseKept` is the refinement.

**WithdrawalExecution** adds workers and chain. `job[w]` is the program counter of
a worker in `processQueuedWithdrawalWithBroadcaster` and `advanceBroadcastIntent`:
the step, the intent, the hash it signed or read, the slot of the call it waits
for. `PickUp...` are the lists the loop reads. The chain is `mempool`, `mined`,
`reverted`; a hash is a signed transaction and fixes what it pays (`Pays`), its
nonce (`NonceOf`) and whether it pays the external address directly (`Direct`).
Faults are `Crash`, `CallTimesOut` (the request stays in its slot), `CallFails`
and `NodeFails` (before or after the node took the transaction).

**DepositIntents**, **DepositExecution** do the same for deposits. `sound` tells
whether `evaluateDepositChainProof` accepts a transaction, `reviewCases` and
`proof` are the review and the settlement proof. There is no claim and no record
before sending: `Send` signs and sends in one step.

**DepositReplay** is the settlement reconciliation: `Classify` is its classifier,
a replay is asked for by one operator, approved by another, and executed in three
transactions beside the worker that does the same work.

**BalanceTransfers**, **Bank**: a transfer settles at once below the threshold and
waits in `pendingBalance` above it; `Bank` lets withdrawals and transfers use one
ledger, each ignorant of the other.

**LedgerReconciliation**: a scan reads balances, ledger accounts and reservations
in separate queries and opens a mismatch; a repair reads again and writes.

**RetirementVault**: `vault`, `release`, `rule` are the rows; `Row(x)` is the one a
request is about. `CompleteCooldown`, `ListReady`, `RunSweep` (the claim, then the
execution) and `ExecutionFails` are the steps of the sweep, days pass with
`PassDays`. The release is paid by the ledger operator.

**Loans**: `agreement`, `installment`, `application`, `onchain` (the loans the
contract created for an agreement) and the money of the borrower; the workers'
calls (funding, autopay, valuation, grace, default, liquidation) may overlap.

**GovernedExecution**: `request` is the row, `task` the step a worker is at in
`processGovernedExecutionRequests`, `jobs` what the external executor was given
and did. It is assumed that the executor acts once for one reference.

**BackOffice** is the sum of twelve parts that share no variable, with the ledger
or with one another. Whatever several of them can do is a combination of what
each can do alone, so `part` is chosen at the start and the others rest: each
part's property is checked in full while the run stays the sum, not the product,
of the parts.

| Part | Models |
|---|---|
| Solvency | snapshots whose two reads see different worlds, the policy row with its versions, time-locked resume by a second operator |
| SolvencyAnchors | anchor rows, two workers, `SolvencyReportAnchorRegistry` |
| ExecutionOverrides | emergency overrides of governed execution and what was done under them |
| AccountRestrictions | incidents, restriction rows with their partial unique index, release through a review case, the loan operator's restriction |
| Staking | the rows around StakingV1's transactions, with lost connections and crashes, and the contract |
| StakingPools | the governance of pools: request, approval, execution in three statements |
| CustomerSessions | login, refresh, revocation, enrollment and recovery around `authTokenVersion` |
| ReleaseApprovals | evidence, packs, approvals rebound to newer packs and their lineages |
| IncidentPackages | request, approval, expiry and release of a customer's file |
| PlatformAlerts | life, routing and escalation of an alert, deliveries with failover and retry |
| LoanBookV1, PolicyWallet | the contracts, with transactions in any order and authorizations sent twice |

## 3. Runs

| Run | Instance | Shows |
|---|---|---|
| `withdrawal_lifecycle` | two withdrawals (1 and 2) of an account that received 3, two workers, two hashes, two slots | balances match the ledger; a status says what became of the money and which blockchain rows there are; statuses move forward; the promise is kept |
| `withdrawal_execution` | two withdrawals of one wallet, two workers, two nonces each, two faults | paid at most once; whatever was sent is recorded; no payment for a released reservation, no settlement without payment |
| `withdrawal_progress` | three withdrawals: executable, malformed, without signer; one worker, two faults | without faults a queued withdrawal is settled, fails or reaches the operators; a broadcast one is concluded in spite of faults |
| `deposit_lifecycle` | two deposits, one approved automatically, two hashes, two reviews, two replays | a credit has its proof; a recorded deposit is not executed again; no review case is left open; an executed replay had its effect, once, and two operators |
| `deposit_execution` | a well-formed and a malformed deposit, two workers, one fault | every credit is backed by a transaction that funds that deposit; a recorded deposit is concluded |
| `bank` | a withdrawal and three transfers (two reviewed) of one account | `pendingBalance` is the sum of both kinds of reservation; money is conserved; a transfer moves once, in one direction |
| `retirement_vault` | one vault, two fundings, one release, one rule change, one handler beside one sweep, one crash | the locked balance is the ledger's; a lock holds; a request in cooldown is concluded |
| `loans` | one loan of two installments, two overlapping handlers, one liquidation case | receivables are what was disbursed less what was collected; nothing is overstated; one loan on chain |
| `governed` | one request, two workers, an executor, two dispatches | what is recorded answers a dispatch of this request; executed is final; a published package is dispatched |
| `back_office` | the twelve parts, two operators, two handlers or workers each | the eleven properties of the parts |
| `double_payment` (violation) | one withdrawal whose requests may overlap | the call that records a signed transaction times out and is still running when the worker reports a retryable failure; the report, which read no hash, commits last and erases it, while a second worker has listed the signed row and sends it; the next attempt signs again; both are mined |
| `balance_repair` (violation) | the instance of `bank` with a scan | a reviewed transfer is reported as a mismatch, and the repair takes its reservation out of the balance |

The last two contradict what the repository says of itself, and so does
`PauseIsNeverLifted` in `back_office`; `findings` in `PROJECT.json` has the
quotations.

**Bounds.** Two slots, or two handlers, are two concurrent requests: every race of
a read-check-write handler needs two, and a third can only repeat one of them. Two
withdrawals of one account are needed for one to spend the reservation of
another, two hashes per intent to sign twice, two faults to be interrupted,
retried and interrupted again. `MaxReviews = 2` lets a deposit go through review,
back and through review again. `Days = {0, 7, 21}` are the start, the
end of a cooldown of seven days, and that of fourteen days begun then. `MaxDispatches = 2` lets an answer be late
for a dispatch that was replaced. Two sessions and two versions are one login
that outlives a revocation; three approvals a request rebound twice; three
snapshots an old one that finishes after the evidence of two newer ones;
`MCWorlds` has a healthy, a thin, an unreadable and a mismatched reserve. Five
authorizations are two signers for each of two nonces and a second one for the
first nonce. Two deliveries of one alert to two targets are an escalation and its
failover. A bound stops further steps of its kind and nothing else. Symmetry
permutes slots, workers and hashes where nothing distinguishes them; runs of
liveness use none. Deadlock is not an error: the system rests when every intent
has ended.

**Fairness.** *Withdrawals and deposits:* the API ends what it began to serve (`WF`
of `Serve`), the node mines what it holds, clocks advance, a worker takes its next
step (`WF` of `Work`) and picks up what its lists return again and again (`SF` of
`PickUp`): `runOnce` is called in an endless loop and goes through every listed
intent. The strong form is needed as an intent leaves a list for a while when
another worker is at it. *Vault:* days pass, handlers end, the sweep runs in every
iteration of the worker; `SF`, because a restriction or a hold may keep a vault
from it again and again for an instant. *Governed execution:* workers loop and
finish steps, leases run out. Nothing is assumed of customers and operators;
faults are bounded in number and never required.

## 4. Proofs

Each holds for every value of the constants; `O` is `Overlapping`.

| Theorem | Property | Scope |
|---|---|---|
| **WithdrawalIntentsProofs** `TypeCorrect` | `TypeOK`, no negative balance | overlapping requests included |
| `ProjectionCorrect` | `ProjectionMatchesLedger` | overlapping requests included |
| `ReservationCorrect` | `EveryReservationFollowsStatus` | withdrawals outside `O` |
| `ForwardCorrect` | `ForwardOnly` | withdrawals outside `O` |
| `TransactionCorrect` | `TxFollowsStatus` | withdrawals outside `O` |
| **BankProofs** `PromiseCorrect` | `PromiseKept`: the handlers implement `WithdrawalPromise` | `O = {}` |
| `TransferCorrect` | `TransferMovesOnce` | transfers outside `Contended` |
| `MoneyCorrect` | `MoneyIsConserved` | overlapping requests included |
| `PendingCorrect` | `PendingCoversBoth` | `O = {}` and `Contended = {}` |
| `SharedLedgerCorrect` | `ProjectionMatchesLedger`, `EveryReservationFollowsStatus`, with transfers over the same ledger | withdrawals outside `O` |
| **WithdrawalExecutionProofs** `SentRecorded` | `SentIsRecorded` | withdrawals outside `O` |
| `PaymentCorrect` | `PaidAtMostOnce` | `O = {}`; the run `double_payment` shows it fails otherwise |
| `AgreementCorrect` | `LedgerAgreesWithChain` | withdrawals outside `O` |
| **DepositProofs** `CreditCorrect`, `RequeueCorrect`, `ReviewCorrect` | `CreditFollowsProof`, `RecordedIsNeverRequeued`, `ReviewFollowsStatus` | deposits outside `O` |
| `ReplayCorrect` | `ReplayTookEffect` | every replay |
| `FundingCorrect` | `CreditWasFunded` | deposits outside `O` |
| `ReplayRefinesIntents`, `ExecutionRefinesIntents` | `Spec` of DepositIntents: replays and workers do only what its handlers do | every deposit |
| **BackOfficeProofs** `DualControlCorrect` | `DualControl`: nothing privileged happens on the word of one operator | any overlap |
| `SessionsCorrect` | `NothingOutlivesRevocation` | any overlap |
| `GatesCorrect`, `PauseCorrect` | `GatesFollowEvidence`, `PauseIsNeverLifted` | any overlap |
| `AnchorCorrect` | `ConfirmedIsAnchored` | any overlap |
| `RestrictionCorrect` | `ActiveRestrictionHolds` | any overlap |
| `LineageCorrect` | `LineageIsHealthy` | any overlap |
| `WalletCorrect` | `PaidAsAuthorized` | any order of transactions |
| `AlertsCorrect` | `FailuresEscalate` | any number of processes, rows and retries |
| `BookCorrect` | `CollateralIsHeld` | any order of transactions |
| `StakeCorrect` | `StakeIsBacked` | any overlap, lost connections and crashes |
| **CommitmentProofs** `DispatchCorrect`, `FinalityCorrect` | `DispatchIsTruthful`, `ExecutedIsFinal` | any number of workers and executors |
| `VaultCorrect` | `VaultMatchesLedger` | accounts outside `Racing` |
| `LockCorrect` | `LockHolds` | accounts outside `Racing` |
| `LoanCorrect` | `OneOnchainLoan` | any overlap, with `LoanBookV1` |
| `LoanBalancesCorrect` | `ProjectionMatchesLedger` | any overlap |
| `ReceivablesCorrect`, `OutstandingCorrect` | `ReceivablesMatchPayments`, `NeverOverstated` | any overlap, with or without `LoanBookV1` |

**Withdrawals.** `LedgerProofs` has one lemma per method of the ledger the other
proofs use. `ReservationCorrect` is not inductive: what a commit writes is right
only if the status it checked still holds. The inductive invariant is

```
Inv == TypeInv /\ ProjectionMatchesLedger
         /\ EveryRequestIsFresh /\ EveryReservationFollowsStatus
```

where `TypeInv` adds that the blockchain row a request will update exists, and
`EveryRequestIsFresh` says of every request for an intent outside `Overlapping`
that it is the only one for it and that the status it read still holds.
`BeginStep` shows that a read establishes this; `CommitStep` reduces each commit to
what it does to the rows of its own intent; each `Commit...Step` lemma then needs
the journals the old status implies and the ones the new one asks for.
`ForwardCorrect` uses the same invariant: a commit ranks its new status above the
one it read, which is the current one. `PromiseCorrect` adds to `Inv` what each
commit does to the balance of the owner, and maps every step to one of the
promise or to a stutter. `RowInv` adds to `TxFollowsStatus` that signed and broadcast
rows have a hash (`RowsAreHashed`) and that a request has read sound rows, agrees
with the hash they carry and will update the latest one (`RequestSeesRows`).

**Execution.** `ExecInv` extends `Inv` and `RowInv` to the memory of the workers and
the chain: every recorded hash pays its intent (`RowsPay`), and so does one that a
request or a worker carries; a worker about to send holds the recorded one
(`RequestPays`, `JobIsSound`); a worker that waits for a slot waits for its own request
(`WaitsForItsOwn`); nonces are used once (`ChainIsSound`); and
`PaidAsStatus` says of each status what may be on the chain. The argument for
`PaidAtMostOnce`: a recorded hash is never replaced by another (`HashesKept`), only
the recorded hash is sent (`SentIsRecorded`), so everything sent for a withdrawal
is one transaction. `HashesKept` is what overlapping requests break.
Each step is a step of WithdrawalIntents or leaves it alone, so `Inv` and `RowInv`
are not proved again.

**Deposits.** `DepositInv` gives each deposit outside `Overlapping` a `RowOK`, the
story its status tells of proof, journals, blockchain rows and review, and says that
a request is the only one for its deposit and read a row that still holds
(`RequestOK`, `ServedAlone`). `Wrote` and `Moved` are the frames: what one commit
did to one deposit, the others untouched. `ReplayInv` adds for every handler of a
replay what it already achieved (`DeskOK`) and that two never share a slot
(`SlotsApart`). `FundingInv` says that every hash in a row, a request or the memory
of a worker was sent and pays that deposit (`FundedTx`, `FundedRequest`, `JobsOK`).
As both modules implement DepositIntents, `DepositInv` is proved once and holds in both.

**Back office.** `DualControlCorrect` allows any overlap. A decision's check is stale
when it writes, and still right, because it is about the requester, and nobody
writes who asked for a request again. The invariant of each part says so: a
decision in flight is for a row that exists, an approval in flight is not by its
requester, an execution in flight has an approver who is another one, and that is
kept by every later write (`OverrideInv`, `PackageInv`, `PoolInv`, `RecoveryInv`,
`ApprovalInv`). For releases it needs that a rebound request keeps its
requester; for pools, that a pool once prepared keeps its request.

The properties of the parts rest on one invariant each. `SessionInv`: a session, and
whatever is about to issue one, carries the version its login read. `SolvencyInv`: a
pause needs a manual resume, and every pending resume request is bound to a version
the policy has left (`Overtaken`), so none can be approved. `AnchorInv`: a confirmed
row, a worker that watches and a record in flight name a transaction that carries
this report and succeeded, and the chain takes nothing back. `RestrictionInv`: the
property is inductive once rows and handlers are typed, because the partial unique
index and the conditional release carry it. `LineageInv`: successors and
predecessors name one another and are in order. `WalletInv`: the nonces that were used
are those below the next one. `DeliveryInv`: a pending row is on the list of a process
that has not itself failed with it. The property without that condition is not
inductive: a row is retried while the process that failed with it still passes it on,
and that process then lets it go; the process of the retry has it by then.

**Governed execution.** `GovernedInv`: a reference is answered by at most one job
(`JobsOK`); what a worker was told of its push stays true of the reference it pushed
(`TasksOK`), because jobs are never withdrawn; and a row names the reference of its
last dispatch (`RowsOK`), which is why a callback for an older one cannot speak for it.
`FinalityCorrect` needs it for the callback that finds the request executed.

**Vaults.** `VaultInv` holds the balances for every account (`LedgerInv`, `LockedOK`) and,
outside `Racing`, the story of each request. A handler is alone on its account and
what it read still holds (`HandlersOK`), except that a sweep may have moved on a
request it wants to cancel. A vault has one request under way (`OneActive`), and a
request under way was approved, or pays out of a vault that is open, and a claimed one
has waited (`ReleasesOK`, `RulesOK`). A claim belongs to one sweep, and only a late
cancellation can have changed what it claimed (`ClaimsOK`). `LockHolds` then follows
from the row alone at the step that pays or unlocks.

**Transfers.** `BankInv` adds to `Inv` that a decision in flight outside `Contended` is
alone on its transfer, which still waits for it (`DecisionIsFresh`), as for
withdrawals. The rest is that neither service posts a journal the other reads
(`OtherJournals`, `IntentsStay`), and that each mirrors its postings in the balances.

**Sums.** Five properties say what something adds up to. A recursive sum could not be
reasoned about, so `Total(f, S)` of `Sums` counts: it is the number of pairs of an `x`
in `S` and a place in `1 .. f[x]`. The run `bank` compares it with the usual sum on
small families (`TotalIsTheSum`), and `SumProofs` proves from the cardinality of unions
what a proof needs of it: a total is unchanged when no member changes, and gains or
loses what one member gains or loses (`TotalChange`, `TotalWith`, `TotalWithout`).
`MoneyCorrect` goes through the methods of the ledger: each moves an amount between
two positions, and what it takes from clearing it gives to the holdings of one
customer (`OneCustomer`); a transfer changes two holdings, in two steps.
`PendingCorrect` needs `Inv` and `BankInv` to know that what a commit releases or
settles still waited (`LiveWithdrawalWaits`, `ReviewedTransferWaits`, with `ReviewsWait`:
only what was reserved at creation is ever under review); then one intent enters or
leaves the sum. `BookInv` and `StakeInv` are the properties with the types of the
rows; `BookInv` adds that what is unpaid never paid (`Unpaid`).

**Loans.** `LoanInv`: an approval that still runs remembers a loan, and an agreement
says it is activated, only when the contract holds one for it (`Held`), and the
contract takes none back. It needs no freshness: approvals may overlap. With a
contract that accepts an identifier twice the property fails, so `LoanBookV1` is a
hypothesis. `LoanBalancesCorrect` needs only that handlers work on agreements.
`ServicingInv` adds what the journals say of the receivables (`ReceivableInv`), and of
the installments (`InstallmentInv`): one is collected if the agreement's repayment is
posted and none otherwise; the outstanding amount is at most what that leaves; an
autopay under way read an installment of the schedule and at most the whole loan,
which is enough because its repayment, if it is posted, is the first. The journal is
unique for its agreement, so no second installment is ever collected: the properties
hold, but for that reason (section 5).

**Assumptions**, all checked by the runs: `LedgerAssumption` (owners are accounts,
amounts positive), `WithdrawalAssumption` (withdrawals are intents; markers are
not values), `ExecutionAssumption` (a transaction pays one intent; `NoSlot` is no
slot), `DepositAssumption` (deposits are intents; markers),
`TransferAssumption` (transfers are intents, to somebody else), `LoanAssumption`
(shares and terms are positive), `OperatorAssumption` (there are two operators), `PoolAssumption`, `AnchorAssumption`,
`WalletAssumption` (markers), `AlertAssumption` (finitely many targets),
`ReleaseAssumption` (bounds are natural numbers), `GovernedAssumption` (every request
has a target), `VaultAssumption` (fundings, releases and rule changes are different
rows), `BankAssumption` (finitely many accounts and intents; an intent is a withdrawal or a
transfer), `LoanBookAssumption` and `StakingAssumption` (finitely many agreements and
pools).

**Only model-checked**: liveness and everything about ENABLED, which are out of the
provers' reach. Every invariant a passing run checks is stated by a theorem, for the
values of the constants its row above names. No module uses a RECURSIVE operator.

## 5. Observations, limits and plan

**Behaviour outside the passing runs.** These come out of the models or of
reading the code for them. The first ones are what `Overlapping`, `Contended` and
`Racing` exclude.

- Two decisions of one withdrawal overlap: it is approved after its reservation
  was released (`withdrawal-intents.service.ts:1244`;
  `docs/runbooks/withdrawal-intent-operator-review-api.md:104`). Likewise a
  deposit's (`transaction-intents.service.ts:1462`).
- Two decisions of one internal transfer overlap: the recipient is paid and the
  sender refunded out of another reservation (`balance-transfers.service.ts:1079`;
  `docs/roadmaps/email-balance-transfer/feature-spec.md:74`).
- Vault: a cancellation is written over a release that was paid (`:2208`); a
  funding that commits after the last release leaves money in a `released` vault
  (`:1356`, `:1985`); of two overlapping rule changes one is lost; an incident lock
  does not stop a release the sweep has claimed (`:4034`,
  `docs/roadmaps/retirement-vault/phases.md:247`).
- A withdrawal whose transaction was mined after a lost answer is refused for its
  nonce at every retry (`withdrawal-broadcaster.ts:141`); one of a
  policy-controlled wallet or of an ERC-20 token is refused by the API at every
  retry (`withdrawal-intents.service.ts:984`).
- A fault between sending and recording a deposit funds it again
  (`worker-orchestrator.ts:744`); the record of an ERC-20 deposit is refused after
  sending (`transaction-intents.service.ts:1940`). A deposit with unsound addresses
  goes through review for ever (`:2833`). The reconciliation offers the replay of a
  confirmation only for a row that overlapping requests produced: otherwise a
  broadcast transaction that can be confirmed is never left (lemma `Classified`).
- One refused call throws out of `runOnce` (`worker-orchestrator.ts:1190`) and
  skips the rest of that iteration; autopay does the same.
- A scan reads balances and ledger at different moments, and a repair overwrites
  what was committed since (`ledger-reconciliation.service.ts:2975`).
- Loans: autopay charges agreements that are closed or liquidated and reopens
  them; the journal's uniqueness per agreement and type (`schema.prisma:1017`)
  refuses a second installment; liquidation may be executed after closing; a
  valuation overwrites the status of the collateral; a rejected application may
  have a funded agreement.
- Governed execution: a success an operator recorded is reopened by a later
  failure callback, and one recorded while the executor works is executed twice.
- Solvency: no resume request can be approved and no pause is ever lifted, because
  the request outdates the version of the policy it is bound to (`:1916`, `:1924`,
  `:2037`; `findings`, `PauseIsNeverLifted`); torn reads pause the policy without cause; liabilities omit reserved transfers (`:3424`); of
  two anchoring workers the refused one marks an anchored report as failed.
- Staking: a row marked failed may have been mined. Two executions of one pool
  request make two pools; `PoolsController` makes and activates pools for one
  operator, without a request.
- `LoanBook.releaseCollateral` after `executeLiquidation` pays the borrower.
- A loan operator's restriction has no restriction row; resolving a release review
  generically leaves the account restricted without a way out. A release may be
  approved on evidence that changed after the read. A login begun before a password
  change completes afterwards, with the new version.
- Alerts: a delivery pending when its process died silences further escalations
  (`platform-alert-delivery.service.ts:235`); overlapping retries write `failed` over
  `succeeded`; an acknowledgement may hit an alert that was reopened. Decisions on
  an incident package overwrite one another.
- Notifications are broadcast before their transaction commits.

**Abstractions.** Audit events, notes, notifications, wording, addresses and
amounts beyond what is compared are left out. One asset. Clocks are one step per
thing that can expire.

**Not modelled.** Of the parts in section 2: the synthetic mode of the worker (it
invents hashes); the order of the steps in one `runOnce`; replays of withdrawals
(the shape of DepositReplay over WithdrawalIntents); quotes, statements, evidence
and report contents; Merkle proofs; password and challenge handling; heartbeats
and metrics; the contracts' earlier versions. Whole components: notifications
(a feed no other component reads), read models, configuration, user interfaces,
scripts. These, with formatting and generated code, are most of the repository's
182,739 lines: pages of the applications, type declarations, view mapping and
parsing have no state that a property could be about, so the map covers about a
seventh of the lines.

**Plan.** Theorems next: `MoneyIsConserved` with vaults and loans over the same ledger;
the frames of LedgerReconciliation, up to the repair that breaks them. Models next: withdrawal replays
over WithdrawalIntents, staking and loan transactions that take part in the worker's
nonces, and the loop of the worker as one sequence.
