------------------------------- MODULE Staking -------------------------------
(***************************************************************************)
(* Staking with the StakingV1 contract: a customer's deposits, withdrawals,*)
(* reward claims and emergency withdrawals (StakingService), and the       *)
(* contract that holds the ETH.  A handler checks the position on chain,   *)
(* writes a pending row, sends its transaction and waits for it: handlers  *)
(* overlap, lose the connection, and die.  One customer; a position is its *)
(* stake in one pool, and StakingPools creates the pools.                  *)
(***************************************************************************)
EXTENDS Integers, Sums

CONSTANTS StakedPools,   \* StakingPool rows
          StakeOps,      \* calls of the customer's handlers
          Amounts,       \* amounts of a deposit or withdrawal
          MaxFunded      \* bound: rewards the treasury pays in

ASSUME StakingAssumption ==
  IsFiniteSet(StakedPools) /\ Amounts \subseteq Nat \ {0} /\ MaxFunded \in Nat

VARIABLES poolStatus,   \* the pools' poolStatus
          op,           \* the customer's calls, with their row and transaction
          position,     \* StakingV1.positions
          stakingV1     \* its totals, balance and paused flag

stakingVars == <<poolStatus, op, position, stakingV1>>

(* What the code tells apart: deposits, exits, neither. *)
StakedPoolStatuses == {"active", "paused", "disabled"}

NoOp == [kind |-> "none", pool |-> "none", amount |-> 0, at |-> "idle",
         row |-> "none", tx |-> "none"]

StakingTypeOK ==
  /\ poolStatus \in [StakedPools -> StakedPoolStatuses]
  /\ \A i \in StakeOps : /\ op[i].row \in {"none", "pending", "completed", "failed"}
                         /\ op[i].tx \in {"none", "pending", "mined", "reverted"}
  /\ \A k \in StakedPools : position[k].staked >= 0 /\ position[k].accrued >= 0
  /\ stakingV1.totalStaked >= 0 /\ stakingV1.rewardReserve >= 0
  /\ stakingV1.balance >= 0

StakingInit ==
  /\ poolStatus = [k \in StakedPools |-> "paused"]
  /\ op = [i \in StakeOps |-> NoOp]
  /\ position = [k \in StakedPools |-> [initialized |-> FALSE, staked |-> 0, accrued |-> 0]]
  /\ stakingV1 = [totalStaked |-> 0, rewardReserve |-> 0, balance |-> 0,
                  paused |-> FALSE, funded |-> 0]

-----------------------------------------------------------------------------
(* StakingService: deposit, withdraw, claimReward, emergencyWithdraw.       *)

(* The checks against the pool and the position on chain, and the row.      *)
BeginStakeOp(i, kind, k, n, row) ==
  /\ op[i].kind = "none"
  /\ op' = [op EXCEPT ![i] = [kind |-> kind, pool |-> k, amount |-> n, at |-> "requested",
                             row |-> row, tx |-> "none"]]
  /\ UNCHANGED <<poolStatus, position, stakingV1>>

AllowsStandardExit(k) == poolStatus[k] \in {"active", "paused"}

BeginDeposit(i, k, n) ==
  poolStatus[k] = "active" /\ BeginStakeOp(i, "deposit", k, n, "pending")

BeginWithdraw(i, k, n) ==
  /\ AllowsStandardExit(k) /\ position[k].staked >= n
  /\ BeginStakeOp(i, "withdraw", k, n, "pending")

(* A claim writes no row. *)
BeginClaimReward(i, k) ==
  /\ AllowsStandardExit(k) /\ position[k].accrued > 0
  /\ BeginStakeOp(i, "claim", k, 0, "none")

(* The whole stake, as it was read, and whatever the status of the pool. *)
BeginEmergencyWithdraw(i, k) ==
  /\ position[k].staked > 0
  /\ BeginStakeOp(i, "emergency", k, position[k].staked, "pending")

SendTransaction(i) ==
  /\ op[i].at = "requested"
  /\ op' = [op EXCEPT ![i].at = "waiting", ![i].tx = "pending"]
  /\ UNCHANGED <<poolStatus, position, stakingV1>>

(* wait() answers with a receipt for a transaction that succeeded. *)
RecordCompleted(i) ==
  /\ op[i].at = "waiting" /\ op[i].tx = "mined"
  /\ op' = [op EXCEPT ![i].at = "idle",
              ![i].row = IF @ = "pending" THEN "completed" ELSE @]
  /\ UNCHANGED <<poolStatus, position, stakingV1>>

(* It cannot be sent, it reverts, or the connection to the node is lost     *)
(* while the transaction is still on its way.                               *)
RecordFailed(i) ==
  /\ op[i].at = "requested" \/ (op[i].at = "waiting" /\ op[i].tx \in {"pending", "reverted"})
  /\ op' = [op EXCEPT ![i].at = "idle",
              ![i].row = IF @ = "pending" THEN "failed" ELSE @]
  /\ UNCHANGED <<poolStatus, position, stakingV1>>

StakeHandlerCrash(i) ==
  /\ op[i].at # "idle"
  /\ op' = [op EXCEPT ![i].at = "idle"]
  /\ UNCHANGED <<poolStatus, position, stakingV1>>

(* PoolsService.updatePoolStatus; a pool that is created is paused. *)
SetPoolStatus(k, status) ==
  /\ poolStatus[k] # status
  /\ poolStatus' = [poolStatus EXCEPT ![k] = status]
  /\ UNCHANGED <<op, position, stakingV1>>

-----------------------------------------------------------------------------
(* StakingV1                                                                *)

(* Mutant: the claim pays and leaves the reward where it was. *)
ClaimAndKeep(p) == p

(* claimReward sets the accrued reward to zero before it pays. *)
AfterClaim(p) == [p EXCEPT !.accrued = 0]

(* whenNotPaused and the requires of the three functions below. *)
ContractAccepts(kind, k, n) ==
  /\ ~stakingV1.paused
  /\ kind # "deposit" => position[k].initialized
  /\ kind \in {"withdraw", "emergency"} => n > 0 /\ position[k].staked >= n
  /\ kind = "claim" => position[k].accrued > 0

(* A transaction that is mined takes effect or reverts. *)
Mining(i, kinds) ==
  /\ op[i].tx = "pending" /\ op[i].kind \in kinds
  /\ ContractAccepts(op[i].kind, op[i].pool, op[i].amount)
  /\ op' = [op EXCEPT ![i].tx = "mined"]
  /\ UNCHANGED poolStatus

RecordDeposit(i) ==
  /\ Mining(i, {"deposit"})
  /\ position' = [position EXCEPT ![op[i].pool].initialized = TRUE,
                                 ![op[i].pool].staked = @ + op[i].amount]
  /\ stakingV1' = [stakingV1 EXCEPT !.totalStaked = @ + op[i].amount,
                                   !.balance = @ + op[i].amount]

RecordWithdrawal(i) ==
  /\ Mining(i, {"withdraw", "emergency"})
  /\ position' = [position EXCEPT ![op[i].pool].staked = @ - op[i].amount]
  /\ stakingV1' = [stakingV1 EXCEPT !.totalStaked = @ - op[i].amount,
                                   !.balance = @ - op[i].amount]

ClaimReward(i) ==
  /\ Mining(i, {"claim"})
  /\ position' = [position EXCEPT ![op[i].pool] = AfterClaim(@)]
  /\ stakingV1' = [stakingV1 EXCEPT !.balance = @ - position[op[i].pool].accrued]

Revert(i) ==
  /\ op[i].tx = "pending"
  /\ ~ContractAccepts(op[i].kind, op[i].pool, op[i].amount)
  /\ op' = [op EXCEPT ![i].tx = "reverted"]
  /\ UNCHANGED <<poolStatus, position, stakingV1>>

FundRewards ==
  /\ stakingV1.funded < MaxFunded
  /\ stakingV1' = [stakingV1 EXCEPT !.rewardReserve = @ + 1, !.balance = @ + 1,
                                    !.funded = @ + 1]
  /\ UNCHANGED <<poolStatus, op, position>>

RecordRewardAccrual(k) ==
  /\ ~stakingV1.paused /\ stakingV1.rewardReserve >= 1 /\ position[k].initialized
  /\ position' = [position EXCEPT ![k].accrued = @ + 1]
  /\ stakingV1' = [stakingV1 EXCEPT !.rewardReserve = @ - 1]
  /\ UNCHANGED <<poolStatus, op>>

PauseOrUnpause ==
  /\ stakingV1' = [stakingV1 EXCEPT !.paused = ~@]
  /\ UNCHANGED <<poolStatus, op, position>>

-----------------------------------------------------------------------------
StakingNext ==
  \/ \E i \in StakeOps :
       \/ \E k \in StakedPools :
            \/ BeginClaimReward(i, k) \/ BeginEmergencyWithdraw(i, k)
            \/ \E n \in Amounts : BeginDeposit(i, k, n) \/ BeginWithdraw(i, k, n)
       \/ SendTransaction(i) \/ RecordCompleted(i) \/ RecordFailed(i)
       \/ StakeHandlerCrash(i)
       \/ RecordDeposit(i) \/ RecordWithdrawal(i) \/ ClaimReward(i) \/ Revert(i)
  \/ \E k \in StakedPools :
       \/ RecordRewardAccrual(k)
       \/ \E status \in StakedPoolStatuses : SetPoolStatus(k, status)
  \/ FundRewards \/ PauseOrUnpause

StakingSpec == StakingInit /\ [][StakingNext]_stakingVars

-----------------------------------------------------------------------------
(* The contract can always pay what it owes: its ETH is the stakes, the     *)
(* rewards accrued and the reserve, although the handlers check a position  *)
(* long before their transaction is mined.                                  *)
StakeIsBacked ==
  /\ stakingV1.totalStaked = Total([k \in StakedPools |-> position[k].staked], StakedPools)
  /\ stakingV1.balance = stakingV1.totalStaked + stakingV1.rewardReserve
                         + Total([k \in StakedPools |-> position[k].accrued], StakedPools)
  /\ \A k \in StakedPools : position[k].staked >= 0
=============================================================================
