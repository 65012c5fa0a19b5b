----------------------------- MODULE StakingPools -----------------------------
(***************************************************************************)
(* StakingPoolGovernanceService: a staking pool is requested by one        *)
(* operator, approved by another and executed.  Each decision reads the    *)
(* request and then updates it by id; the execution writes the pool and    *)
(* the request in separate statements and may stop between them.           *)
(* PoolsService creates pools and sets their status without a request.     *)
(***************************************************************************)
EXTENDS Staff

CONSTANTS Pools,         \* StakingPool rows
          PoolRequests   \* StakingPoolGovernanceRequest rows

ASSUME PoolAssumption == "none" \notin Pools \cup PoolRequests

VARIABLES pool,         \* the pools' poolStatus and the request they are for
          poolRequest,  \* the governance requests
          poolHandler   \* handlers that have read their request

poolVars == <<pool, poolRequest, poolHandler>>

NoPoolRequest == [status |-> "absent", by |-> "none", approver |-> "none", pool |-> "none"]

(* "disabled" stands for closed and completed too: no code tells them apart.*)
PoolStatuses == {"absent", "disabled", "paused", "active"}

PoolTypeOK ==
  /\ pool \in [Pools -> [status : PoolStatuses,
                         request : PoolRequests \cup {"none"}]]
  /\ poolRequest \in [PoolRequests ->
       [status : {"absent", "pending_approval", "approved", "rejected", "executed"},
        by : Operators \cup {"none"}, approver : Operators \cup {"none"},
        pool : Pools \cup {"none"}]]
  /\ poolHandler \subseteq PoolRequests \X Operators \X {"approve", "reject", "execute", "record"}
                           \X (Pools \cup {"none"})

PoolInit ==
  /\ pool = [k \in Pools |-> [status |-> "absent", request |-> "none"]]
  /\ poolRequest = [g \in PoolRequests |-> NoPoolRequest]
  /\ poolHandler = {}

-----------------------------------------------------------------------------
CreateRequest(g, p) ==
  /\ poolRequest[g].status = "absent"
  /\ poolRequest' = [poolRequest EXCEPT ![g] =
                       [NoPoolRequest EXCEPT !.status = "pending_approval", !.by = p]]
  /\ UNCHANGED <<pool, poolHandler>>

(* Mutant: the requester may approve. *)
AnyoneMayDecide(g, p, what) ==
  poolRequest[g].status = IF what = "execute" THEN "approved" ELSE "pending_approval"

MayDecide(g, p, what) ==
  CASE what = "approve" -> poolRequest[g].status = "pending_approval" /\ poolRequest[g].by # p
    [] what = "reject" -> poolRequest[g].status = "pending_approval"
    [] what = "execute" -> poolRequest[g].status = "approved"

BeginDecide(g, p, what) ==
  /\ MayDecide(g, p, what)
  /\ poolHandler' = poolHandler \cup {<<g, p, what, poolRequest[g].pool>>}
  /\ UNCHANGED <<pool, poolRequest>>

ApproveRequest(h) ==
  /\ h \in poolHandler /\ h[3] = "approve"
  /\ poolHandler' = poolHandler \ {h}
  /\ poolRequest' = [poolRequest EXCEPT ![h[1]].status = "approved", ![h[1]].approver = h[2]]
  /\ UNCHANGED pool

RejectRequest(h) ==
  /\ h \in poolHandler /\ h[3] = "reject"
  /\ poolHandler' = poolHandler \ {h}
  /\ poolRequest' = [poolRequest EXCEPT ![h[1]].status = "rejected"]
  /\ UNCHANGED pool

(* prepareGovernedPoolCreation: a pool row, paused until it is executed. *)
PreparePool(h, k) ==
  /\ h \in poolHandler /\ h[3] = "execute" /\ h[4] = "none"
  /\ pool[k].status = "absent"
  /\ pool' = [pool EXCEPT ![k] = [status |-> "paused", request |-> h[1]]]
  /\ poolHandler' = (poolHandler \ {h}) \cup {<<h[1], h[2], "execute", k>>}
  /\ UNCHANGED poolRequest

(* executeGovernedPoolCreation for StakingV1, where a pool needs no         *)
(* transaction, and the update of the request that follows it.              *)
ActivatePool(h) ==
  /\ h \in poolHandler /\ h[3] = "execute" /\ h[4] # "none"
  /\ pool' = [pool EXCEPT ![h[4]].status = "active"]
  /\ poolHandler' = (poolHandler \ {h}) \cup {<<h[1], h[2], "record", h[4]>>}
  /\ UNCHANGED poolRequest

RecordExecuted(h) ==
  /\ h \in poolHandler /\ h[3] = "record"
  /\ poolHandler' = poolHandler \ {h}
  /\ poolRequest' = [poolRequest EXCEPT ![h[1]].status = "executed", ![h[1]].pool = h[4]]
  /\ UNCHANGED pool

(* PoolsService.createPool and updatePoolStatus. *)
CreatePool(k) ==
  /\ pool[k].status = "absent"
  /\ pool' = [pool EXCEPT ![k].status = "disabled"]
  /\ UNCHANGED <<poolRequest, poolHandler>>

UpdatePoolStatus(k, status) ==
  /\ pool[k].status # "absent"
  /\ pool' = [pool EXCEPT ![k].status = status]
  /\ UNCHANGED <<poolRequest, poolHandler>>

GovernanceCrash(h) ==
  /\ h \in poolHandler
  /\ poolHandler' = poolHandler \ {h}
  /\ UNCHANGED <<pool, poolRequest>>

-----------------------------------------------------------------------------
PoolNext ==
  \/ \E g \in PoolRequests, p \in Operators :
       \/ CreateRequest(g, p)
       \/ \E what \in {"approve", "reject", "execute"} : BeginDecide(g, p, what)
  \/ \E h \in poolHandler :
       \/ ApproveRequest(h) \/ RejectRequest(h) \/ ActivatePool(h)
       \/ RecordExecuted(h) \/ GovernanceCrash(h)
       \/ \E k \in Pools : PreparePool(h, k)
  \/ \E k \in Pools :
       \/ CreatePool(k)
       \/ \E status \in PoolStatuses \ {"absent"} : UpdatePoolStatus(k, status)

PoolSpec == PoolInit /\ [][PoolNext]_poolVars

(* A pool of a governance request exists only after one operator asked for  *)
(* it and another one approved it, whichever decisions and executions       *)
(* overlap, and a request that is executed has such a pool.                 *)
PoolHadTwoOperators ==
  /\ \A k \in Pools : pool[k].request # "none" =>
       LET g == poolRequest[pool[k].request] IN g.approver \in Operators \ {g.by}
  /\ \A g \in PoolRequests : poolRequest[g].status = "executed" =>
       poolRequest[g].pool \in Pools /\ pool[poolRequest[g].pool].request = g
=============================================================================
