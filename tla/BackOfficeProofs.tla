--------------------------- MODULE BackOfficeProofs ---------------------------
(***************************************************************************)
(* What the parts of the back office promise, each from an inductive       *)
(* invariant of its own: that nothing privileged happens on the word of one*)
(* operator, sessions, the policy wallet, the solvency policy, anchors,    *)
(* account restrictions, lineages of release approvals, the delivery of    *)
(* alerts, and the ETH of two contracts.  Handlers read their rows and     *)
(* write them later; each invariant says what of a read is still true when *)
(* it is written.                                                          *)
(***************************************************************************)
EXTENDS BackOffice, SumProofs

-----------------------------------------------------------------------------
(* Dual control, for any number of operators and of requests, and with any  *)
(* number of decisions between their reads and their writes.  What a        *)
(* decision checked of a request is who asked for it, and nobody ever       *)
(* writes that again: so that a check which is stale in everything else is  *)
(* still right about it.                                                    *)

(* Somebody other than the one who asked.                                   *)
Another(row) == row.approver \in Operators \ {row.by}

-----------------------------------------------------------------------------
(* Overrides of governed execution *)

OverrideRows ==
  [status : {"absent", "pending_approval", "approved", "rejected", "expired"},
   by : Operators \cup {"none"}, approver : Operators \cup {"none"},
   expired : BOOLEAN]

OverrideInv ==
  /\ override \in [Overrides -> OverrideRows]
  /\ deciding \subseteq Overrides \X Operators \X {"approved", "rejected"}
  /\ directUses \subseteq Overrides
  /\ \A o \in Overrides : override[o].status = "approved" => Another(override[o])
  /\ \A d \in deciding : /\ override[d[1]].status # "absent"
                         /\ d[3] = "approved" => d[2] # override[d[1]].by
  /\ \A o \in directUses : override[o].status # "absent" /\ Another(override[o])

(* An expired row only changes its status.                                  *)
LEMMA ExpiryKeepsRows ==
  ASSUME OverrideInv, ExpireStaleOverrides
  PROVE  /\ override' \in [Overrides -> OverrideRows]
         /\ \A o \in Overrides :
              /\ override'[o].by = override[o].by
              /\ override'[o].approver = override[o].approver
              /\ override'[o].status = "approved" => override[o].status = "approved"
              /\ override'[o].status = "absent" => override[o].status = "absent"
  <1>1. ASSUME NEW o \in Overrides
        PROVE  /\ override'[o] \in OverrideRows
               /\ override'[o].by = override[o].by
               /\ override'[o].approver = override[o].approver
               /\ override'[o].status = "approved" => override[o].status = "approved"
               /\ override'[o].status = "absent" => override[o].status = "absent"
    <2>1. override[o] \in OverrideRows
      BY DEF OverrideInv
    <2>2. override'[o] = override[o] \/ override'[o] = [override[o] EXCEPT !.status = "expired"]
      BY DEF ExpireStaleOverrides
    <2> QED
      BY <2>1, <2>2 DEF OverrideRows
  <1> QED
    BY <1>1 DEF ExpireStaleOverrides

(* Requests and decisions of emergency overrides keep their invariant. *)
LEMMA OverrideStep ==
  ASSUME OverrideInv, OverrideNext \/ UNCHANGED overrideVars
  PROVE  OverrideInv'
  <1> USE DEF Another
  <1>1. ASSUME NEW o \in Overrides, NEW p \in Operators, RequestOverride(o, p)
        PROVE  OverrideInv'
    <2> DEFINE row == [NoOverride EXCEPT !.status = "pending_approval", !.by = p]
    <2>1. /\ override[o].status = "absent"
          /\ override' = [override EXCEPT ![o] = row]
          /\ deciding' = deciding /\ directUses' = directUses
      BY <1>1 DEF RequestOverride
    <2>2. row \in OverrideRows /\ row.status = "pending_approval"
      BY DEF NoOverride, OverrideRows
    <2> HIDE DEF row
    <2>3. /\ override' \in [Overrides -> OverrideRows]
          /\ \A q \in Overrides : q # o => override'[q] = override[q]
          /\ override'[o].status = "pending_approval"
      BY <2>1, <2>2 DEF OverrideInv
    <2> QED
      BY <2>1, <2>3 DEF OverrideInv
  <1>2. ASSUME NEW o \in Overrides, NEW p \in Operators, NEW decision \in {"approved", "rejected"},
               BeginDecideOverride(o, p, decision)
        PROVE  OverrideInv'
    <2>1. /\ override[o].status = "pending_approval"
          /\ decision = "approved" => override[o].by # p
          /\ deciding' = deciding \cup {<<o, p, decision>>} /\ directUses' = directUses
          /\ ExpireStaleOverrides
      BY <1>2 DEF BeginDecideOverride, MayDecideOverride
    <2> QED
      BY <2>1, ExpiryKeepsRows DEF OverrideInv
  <1>3. ASSUME NEW d \in deciding, DecideOverride(d), d[3] \in {"approved", "rejected"}
        PROVE  OverrideInv'
    <2>1. /\ deciding' = deciding \ {d} /\ directUses' = directUses
          /\ override' = [override EXCEPT ![d[1]].status = d[3],
                            ![d[1]].approver = IF d[3] = "approved" THEN d[2] ELSE @]
      BY <1>3 DEF DecideOverride
    <2>2. /\ d[1] \in Overrides /\ d[2] \in Operators /\ override[d[1]] \in OverrideRows
          /\ d[3] = "approved" => d[2] # override[d[1]].by
      BY DEF OverrideInv
    <2>3. /\ override' \in [Overrides -> OverrideRows]
          /\ \A o \in Overrides : o # d[1] => override'[o] = override[o]
          /\ override'[d[1]].by = override[d[1]].by
          /\ override'[d[1]].status = d[3]
          /\ override'[d[1]].approver =
               IF d[3] = "approved" THEN d[2] ELSE override[d[1]].approver
      BY <1>3, <2>1, <2>2 DEF OverrideInv, OverrideRows
    <2> QED
      BY <1>3, <2>1, <2>2, <2>3 DEF OverrideInv
  <1>4. ASSUME NEW o \in Overrides, AssertDirectExecutionAllowed(o) PROVE OverrideInv'
    <2>1. /\ override[o].status = "approved"
          /\ directUses' = directUses \cup {o} /\ deciding' = deciding
          /\ ExpireStaleOverrides
      BY <1>4 DEF AssertDirectExecutionAllowed
    <2> QED
      BY <2>1, ExpiryKeepsRows DEF OverrideInv
  <1>5. ASSUME NEW o \in Overrides, OverrideRunsOut(o) PROVE OverrideInv'
    <2>1. /\ override' = [override EXCEPT ![o].expired = TRUE]
          /\ deciding' = deciding /\ directUses' = directUses
      BY <1>5 DEF OverrideRunsOut
    <2>2. override[o] \in OverrideRows
      BY DEF OverrideInv
    <2>3. /\ override' \in [Overrides -> OverrideRows]
          /\ \A q \in Overrides : /\ override'[q].by = override[q].by
                                  /\ override'[q].approver = override[q].approver
                                  /\ override'[q].status = override[q].status
      BY <2>1, <2>2 DEF OverrideInv, OverrideRows
    <2> QED
      BY <2>1, <2>3 DEF OverrideInv
  <1>6. CASE UNCHANGED overrideVars
    BY <1>6 DEF OverrideInv, overrideVars
  <1> QED
    BY <1>1, <1>2, <1>3, <1>4, <1>5, <1>6
       DEF OverrideNext, CommitApproveOverride, CommitRejectOverride

-----------------------------------------------------------------------------
(* Incident packages *)

PackageRows ==
  [status : {"absent", "pending_approval", "approved", "rejected", "released", "expired"},
   by : Operators \cup {"none"}, approver : Operators \cup {"none"},
   releasedBy : Operators \cup {"none"}, expired : BOOLEAN]

PackageInv ==
  /\ package \in [Packages -> PackageRows]
  /\ packageCalls \subseteq Packages \X Operators \X PackageOps
  /\ \A p \in Packages :
       /\ package[p].status = "approved" \/ package[p].releasedBy # "none"
            => Another(package[p])
       /\ package[p].releasedBy # "none" => package[p].status # "absent"
  /\ \A c \in packageCalls :
       /\ package[c[1]].status # "absent"
       /\ c[3] = "approve" => c[2] # package[c[1]].by
       /\ c[3] = "release" => Another(package[c[1]])

(* Requests, decisions, expiry and release of packages keep their invariant. *)
LEMMA PackageStep ==
  ASSUME PackageInv, PackageNext \/ UNCHANGED packageVars
  PROVE  PackageInv'
  <1> USE DEF Another
  <1>1. ASSUME NEW p \in Packages, NEW o \in Operators, CreateReleaseRequest(p, o)
        PROVE  PackageInv'
    <2>a. package[p] = NoPackage /\ packageCalls' = packageCalls
      BY <1>1 DEF CreateReleaseRequest
    <2>b. NoPackage.status = "absent"
      BY DEF NoPackage
    <2>0. package[p].status = "absent" /\ packageCalls' = packageCalls
      BY <2>a, <2>b
    <2>1. /\ package[p] \in PackageRows /\ package[p].status = "absent"
          /\ package[p].releasedBy = "none" /\ packageCalls' = packageCalls
      BY <2>0 DEF PackageInv, PackageRows
    <2>2. package' = [package EXCEPT ![p].status = "pending_approval", ![p].by = o]
      BY <1>1 DEF CreateReleaseRequest
    <2>3. /\ package' \in [Packages -> PackageRows]
          /\ \A q \in Packages : q # p => package'[q] = package[q]
          /\ package'[p].status = "pending_approval" /\ package'[p].releasedBy = "none"
      BY <2>1, <2>2 DEF PackageInv, PackageRows
    <2> QED
      BY <2>1, <2>3 DEF PackageInv
  <1>2. ASSUME NEW p \in Packages, NEW o \in Operators, NEW what \in PackageOps,
               BeginPackageCall(p, o, what)
        PROVE  PackageInv'
    <2>1. /\ package' = package /\ packageCalls' = packageCalls \cup {<<p, o, what>>}
          /\ package[p].status # "absent"
          /\ what = "approve" => o # package[p].by
          /\ what = "release" => package[p].status = "approved"
      BY <1>2 DEF BeginPackageCall, MayCall, PackageOps
    <2> QED
      BY <2>1 DEF PackageInv
  <1>3. ASSUME NEW c \in packageCalls, CommitPackageCall(c) PROVE PackageInv'
    <2> DEFINE p == c[1]
    <2>1. /\ p \in Packages /\ c[2] \in Operators /\ c[3] \in PackageOps
          /\ package[p] \in PackageRows /\ package[p].status # "absent"
      BY DEF PackageInv
    <2>2. packageCalls' = packageCalls \ {c}
      BY <1>3 DEF CommitPackageCall
    <2>3. /\ package' \in [Packages -> PackageRows]
          /\ \A q \in Packages : q # p => package'[q] = package[q]
          /\ package'[p].by = package[p].by
          /\ package'[p].status = CASE c[3] = "approve" -> "approved"
                                    [] c[3] = "reject" -> "rejected"
                                    [] c[3] = "release" -> "released"
                                    [] c[3] = "expire" -> "expired"
          /\ package'[p].approver = IF c[3] = "approve" THEN c[2] ELSE package[p].approver
          /\ package'[p].releasedBy = IF c[3] = "release" THEN c[2] ELSE package[p].releasedBy
      BY <1>3, <2>1 DEF CommitPackageCall, PackageInv, PackageRows, PackageOps
    <2>4. /\ package'[p].status # "absent"
          /\ Another(package[p]) => Another(package'[p])
          /\ package'[p].status = "approved" => Another(package'[p])
          /\ package'[p].releasedBy # "none" => Another(package'[p])
      BY <2>1, <2>3 DEF PackageInv, PackageOps
    <2>5. ASSUME NEW q \in Packages
          PROVE  /\ package'[q].status = "approved" \/ package'[q].releasedBy # "none"
                      => Another(package'[q])
                 /\ package'[q].releasedBy # "none" => package'[q].status # "absent"
                 /\ package[q].status # "absent" => package'[q].status # "absent"
                 /\ package'[q].by = package[q].by
                 /\ Another(package[q]) => Another(package'[q])
      <3>1. CASE q = p
        BY <3>1, <2>3, <2>4
      <3>2. CASE q # p
        BY <3>2, <2>3 DEF PackageInv
      <3> QED
        BY <3>1, <3>2
    <2>6. \A e \in packageCalls' : e \in packageCalls /\ e[1] \in Packages
      BY <2>2 DEF PackageInv
    <2> QED
      BY <2>2, <2>3, <2>5, <2>6 DEF PackageInv
  <1>4. ASSUME NEW p \in Packages, PackageRunsOut(p) PROVE PackageInv'
    <2>1. /\ package' = [package EXCEPT ![p].expired = TRUE]
          /\ packageCalls' = packageCalls /\ package[p] \in PackageRows
      BY <1>4 DEF PackageRunsOut, PackageInv
    <2>2. /\ package' \in [Packages -> PackageRows]
          /\ \A q \in Packages : /\ package'[q].by = package[q].by
                                 /\ package'[q].approver = package[q].approver
                                 /\ package'[q].releasedBy = package[q].releasedBy
                                 /\ package'[q].status = package[q].status
      BY <2>1 DEF PackageInv, PackageRows
    <2> QED
      BY <2>1, <2>2 DEF PackageInv
  <1>5. CASE UNCHANGED packageVars
    BY <1>5 DEF PackageInv, packageVars
  <1> QED
    BY <1>1, <1>2, <1>3, <1>4, <1>5 DEF PackageNext

-----------------------------------------------------------------------------
(* Staking pools *)

PoolRows == [status : PoolStatuses, request : PoolRequests \cup {"none"}]

PoolRequestRows ==
  [status : {"absent", "pending_approval", "approved", "rejected", "executed"},
   by : Operators \cup {"none"}, approver : Operators \cup {"none"},
   pool : Pools \cup {"none"}]

PoolHandlers == PoolRequests \X Operators \X {"approve", "reject", "execute", "record"}
                \X (Pools \cup {"none"})

(* Two operators stand behind an approved request, and behind every one an  *)
(* execution has begun of.                                                  *)
PoolRequestsOK ==
  \A g \in PoolRequests :
    /\ poolRequest[g].status \in {"approved", "executed"} => Another(poolRequest[g])
    /\ poolRequest[g].status = "executed" => poolRequest[g].pool # "none"
    /\ poolRequest[g].pool # "none" => pool[poolRequest[g].pool].request = g

PoolsOK ==
  \A k \in Pools :
    /\ pool[k].status = "absent" => pool[k].request = "none"
    /\ pool[k].request # "none" =>
         /\ Another(poolRequest[pool[k].request])
         /\ poolRequest[pool[k].request].status # "absent"

PoolHandlersOK ==
  \A h \in poolHandler :
    /\ poolRequest[h[1]].status # "absent"
    /\ h[3] = "approve" => h[2] # poolRequest[h[1]].by
    /\ h[3] \in {"execute", "record"} => Another(poolRequest[h[1]])
    /\ h[3] = "record" => h[4] # "none"
    /\ h[4] # "none" => pool[h[4]].request = h[1]

PoolInv ==
  /\ pool \in [Pools -> PoolRows]
  /\ poolRequest \in [PoolRequests -> PoolRequestRows]
  /\ poolHandler \subseteq PoolHandlers
  /\ PoolRequestsOK /\ PoolsOK /\ PoolHandlersOK

(* Whatever a decision writes to a request, who asked for it stays, and two *)
(* operators who stand behind it still do.                                  *)
LEMMA RequestUpdateStep ==
  ASSUME PoolInv, NEW g \in PoolRequests,
         pool' = pool, poolHandler' \subseteq poolHandler,
         poolRequest' \in [PoolRequests -> PoolRequestRows],
         \A q \in PoolRequests : q # g => poolRequest'[q] = poolRequest[q],
         poolRequest'[g].by = poolRequest[g].by,
         poolRequest'[g].status # "absent",
         Another(poolRequest[g]) => Another(poolRequest'[g]),
         poolRequest'[g].status \in {"approved", "executed"} => Another(poolRequest'[g]),
         poolRequest'[g].status = "executed" => poolRequest'[g].pool # "none",
         poolRequest'[g].pool # "none" => pool[poolRequest'[g].pool].request = g
  PROVE  PoolInv'
  <1> USE DEF Another
  <1>1. ASSUME NEW q \in PoolRequests
        PROVE  /\ poolRequest'[q].by = poolRequest[q].by
               /\ poolRequest[q].status # "absent" => poolRequest'[q].status # "absent"
               /\ Another(poolRequest[q]) => Another(poolRequest'[q])
               /\ poolRequest'[q].status \in {"approved", "executed"} => Another(poolRequest'[q])
               /\ poolRequest'[q].status = "executed" => poolRequest'[q].pool # "none"
               /\ poolRequest'[q].pool # "none" => pool'[poolRequest'[q].pool].request = q
    <2>1. CASE q = g
      BY <2>1
    <2>2. CASE q # g
      BY <2>2 DEF PoolInv, PoolRequestsOK
    <2> QED
      BY <2>1, <2>2
  <1>2. PoolRequestsOK'
    BY <1>1 DEF PoolRequestsOK
  <1>3. PoolsOK'
    <2> SUFFICES ASSUME NEW k \in Pools, pool[k].request # "none"
                 PROVE  /\ Another(poolRequest[pool[k].request])'
                        /\ poolRequest'[pool[k].request].status # "absent"
      BY DEF PoolsOK, PoolInv
    <2>1. pool[k].request \in PoolRequests
      BY DEF PoolInv, PoolRows
    <2> QED
      BY <1>1, <2>1 DEF PoolInv, PoolsOK
  <1>4. PoolHandlersOK'
    <2> SUFFICES ASSUME NEW h \in poolHandler'
                 PROVE  /\ poolRequest'[h[1]].status # "absent"
                        /\ h[3] = "approve" => h[2] # poolRequest'[h[1]].by
                        /\ h[3] \in {"execute", "record"} => Another(poolRequest'[h[1]])
                        /\ h[3] = "record" => h[4] # "none"
                        /\ h[4] # "none" => pool'[h[4]].request = h[1]
      BY DEF PoolHandlersOK
    <2>1. h \in poolHandler /\ h[1] \in PoolRequests
      BY DEF PoolInv, PoolHandlers
    <2> QED
      BY <1>1, <2>1 DEF PoolInv, PoolHandlersOK
  <1> QED
    BY <1>2, <1>3, <1>4 DEF PoolInv, PoolHandlers

(* A step that leaves the requests alone and no pool's request changed but  *)
(* that of a new one.                                                       *)
LEMMA PoolUpdateStep ==
  ASSUME PoolInv, NEW k \in Pools,
         poolRequest' = poolRequest,
         pool' \in [Pools -> PoolRows],
         \A q \in Pools : q # k => pool'[q] = pool[q],
         pool'[k].status # "absent",
         pool[k].request # "none" => pool'[k].request = pool[k].request,
         pool'[k].request = pool[k].request
           \/ /\ pool'[k].request \in PoolRequests
              /\ Another(poolRequest[pool'[k].request])
              /\ poolRequest[pool'[k].request].status # "absent",
         poolHandler' \subseteq PoolHandlers,
         \A h \in poolHandler' : h \in poolHandler
           \/ /\ poolRequest[h[1]].status # "absent" /\ Another(poolRequest[h[1]])
              /\ h[3] \in {"execute", "record"} /\ h[4] = k /\ pool'[k].request = h[1]
  PROVE  PoolInv'
  <1> USE DEF Another
  <1>0. PoolAssumption
    BY PoolAssumption
  <1>1. ASSUME NEW q \in Pools
        PROVE  /\ pool[q].request # "none" => pool'[q].request = pool[q].request
               /\ pool'[q].status = "absent" => pool'[q].request = "none"
               /\ pool'[q].request # "none" =>
                    /\ Another(poolRequest[pool'[q].request])
                    /\ poolRequest[pool'[q].request].status # "absent"
    <2>1. CASE q = k
      BY <2>1 DEF PoolInv, PoolsOK
    <2>2. CASE q # k
      BY <2>2 DEF PoolInv, PoolsOK
    <2> QED
      BY <2>1, <2>2
  <1>2. PoolRequestsOK'
    <2> SUFFICES ASSUME NEW g \in PoolRequests, poolRequest[g].pool # "none"
                 PROVE  pool'[poolRequest[g].pool].request = g
      BY DEF PoolRequestsOK, PoolInv
    <2>1. poolRequest[g].pool \in Pools /\ pool[poolRequest[g].pool].request = g
      BY DEF PoolInv, PoolRequestsOK, PoolRequestRows
    <2> QED
      BY <1>0, <1>1, <2>1 DEF PoolAssumption
  <1>3. PoolsOK'
    BY <1>1 DEF PoolsOK
  <1>4. PoolHandlersOK'
    <2> SUFFICES ASSUME NEW h \in poolHandler'
                 PROVE  /\ poolRequest[h[1]].status # "absent"
                        /\ h[3] = "approve" => h[2] # poolRequest[h[1]].by
                        /\ h[3] \in {"execute", "record"} => Another(poolRequest[h[1]])
                        /\ h[3] = "record" => h[4] # "none"
                        /\ h[4] # "none" => pool'[h[4]].request = h[1]
      BY DEF PoolHandlersOK
    <2>0. h[1] \in PoolRequests /\ h[4] \in Pools \cup {"none"}
      BY DEF PoolHandlers
    <2>1. CASE h \in poolHandler
      BY <1>0, <1>1, <2>0, <2>1 DEF PoolInv, PoolHandlersOK, PoolAssumption
    <2>2. CASE h \notin poolHandler
      BY <1>0, <2>0, <2>2 DEF PoolAssumption
    <2> QED
      BY <2>1, <2>2
  <1> QED
    BY <1>2, <1>3, <1>4 DEF PoolInv

(* Request, approval, execution and activation of a pool keep their invariant. *)
LEMMA PoolStep ==
  ASSUME PoolInv, PoolNext \/ UNCHANGED poolVars
  PROVE  PoolInv'
  <1> USE DEF Another
  <1>0. "none" \notin Pools /\ "none" \notin PoolRequests
    BY PoolAssumption DEF PoolAssumption
  <1>1. ASSUME NEW g \in PoolRequests, NEW p \in Operators, CreateRequest(g, p)
        PROVE  PoolInv'
    <2> DEFINE row == [NoPoolRequest EXCEPT !.status = "pending_approval", !.by = p]
    <2>1. /\ poolRequest[g].status = "absent"
          /\ poolRequest' = [poolRequest EXCEPT ![g] = row]
          /\ pool' = pool /\ poolHandler' = poolHandler
      BY <1>1 DEF CreateRequest
    <2>2. row \in PoolRequestRows /\ row.status = "pending_approval" /\ row.pool = "none"
      BY DEF NoPoolRequest, PoolRequestRows
    <2> HIDE DEF row
    <2>3. /\ poolRequest' \in [PoolRequests -> PoolRequestRows]
          /\ \A q \in PoolRequests : q # g => poolRequest'[q] = poolRequest[q]
          /\ poolRequest'[g].status = "pending_approval" /\ poolRequest'[g].pool = "none"
      BY <2>1, <2>2 DEF PoolInv
    <2>4. PoolRequestsOK'
      BY <2>1, <2>3 DEF PoolInv, PoolRequestsOK
    <2>5. PoolsOK'
      <3>1. \A k \in Pools : pool[k].request # "none" =>
              pool[k].request \in PoolRequests /\ pool[k].request # g
        BY <2>1 DEF PoolInv, PoolsOK, PoolRows
      <3> QED
        BY <2>1, <2>3, <3>1 DEF PoolInv, PoolsOK
    <2>6. PoolHandlersOK'
      <3>1. \A h \in poolHandler : h[1] \in PoolRequests /\ h[1] # g
        BY <2>1 DEF PoolInv, PoolHandlersOK, PoolHandlers
      <3> QED
        BY <2>1, <2>3, <3>1 DEF PoolInv, PoolHandlersOK
    <2> QED
      BY <2>1, <2>3, <2>4, <2>5, <2>6 DEF PoolInv
  <1>2. ASSUME NEW g \in PoolRequests, NEW p \in Operators,
               NEW what \in {"approve", "reject", "execute"}, BeginDecide(g, p, what)
        PROVE  PoolInv'
    <2> DEFINE h == <<g, p, what, poolRequest[g].pool>>
    <2>1. /\ pool' = pool /\ poolRequest' = poolRequest
          /\ poolHandler' = poolHandler \cup {h}
          /\ poolRequest[g].status = IF what = "execute" THEN "approved" ELSE "pending_approval"
          /\ what = "approve" => p # poolRequest[g].by
      BY <1>2 DEF BeginDecide, MayDecide
    <2>2. /\ h \in PoolHandlers /\ h[1] = g /\ h[2] = p /\ h[3] = what
          /\ h[4] = poolRequest[g].pool
      BY DEF PoolInv, PoolRequestRows, PoolHandlers
    <2> HIDE DEF h
    <2>3. PoolHandlersOK'
      BY <2>1, <2>2 DEF PoolInv, PoolHandlersOK, PoolRequestsOK
    <2> QED
      BY <2>1, <2>2, <2>3 DEF PoolInv, PoolRequestsOK, PoolsOK
  <1>3. ASSUME NEW h \in poolHandler
        PROVE  /\ h[1] \in PoolRequests /\ h[2] \in Operators
               /\ h[3] \in {"approve", "reject", "execute", "record"}
               /\ h[4] \in Pools \cup {"none"}
               /\ poolRequest[h[1]] \in PoolRequestRows
               /\ poolRequest[h[1]].status # "absent"
    BY DEF PoolInv, PoolHandlers, PoolHandlersOK
  <1>4. ASSUME NEW h \in poolHandler, ApproveRequest(h) PROVE PoolInv'
    <2>1. /\ h[3] = "approve" /\ pool' = pool /\ poolHandler' = poolHandler \ {h}
          /\ poolRequest' = [poolRequest EXCEPT ![h[1]].status = "approved",
                                                ![h[1]].approver = h[2]]
      BY <1>4 DEF ApproveRequest
    <2>2. /\ poolRequest' \in [PoolRequests -> PoolRequestRows]
          /\ \A q \in PoolRequests : q # h[1] => poolRequest'[q] = poolRequest[q]
          /\ poolRequest'[h[1]].by = poolRequest[h[1]].by
          /\ poolRequest'[h[1]].pool = poolRequest[h[1]].pool
          /\ poolRequest'[h[1]].status = "approved"
          /\ poolRequest'[h[1]].approver = h[2]
      BY <1>3, <2>1 DEF PoolInv, PoolRequestRows
    <2>3. Another(poolRequest'[h[1]])
      BY <1>3, <2>1, <2>2 DEF PoolInv, PoolHandlersOK
    <2>4. poolRequest'[h[1]].pool # "none" => pool[poolRequest'[h[1]].pool].request = h[1]
      BY <1>3, <2>2 DEF PoolInv, PoolRequestsOK
    <2> QED
      BY <1>3, <2>1, <2>2, <2>3, <2>4, RequestUpdateStep
  <1>5. ASSUME NEW h \in poolHandler, RejectRequest(h) PROVE PoolInv'
    <2>1. /\ pool' = pool /\ poolHandler' = poolHandler \ {h}
          /\ poolRequest' = [poolRequest EXCEPT ![h[1]].status = "rejected"]
      BY <1>5 DEF RejectRequest
    <2>2. /\ poolRequest' \in [PoolRequests -> PoolRequestRows]
          /\ \A q \in PoolRequests : q # h[1] => poolRequest'[q] = poolRequest[q]
          /\ poolRequest'[h[1]].by = poolRequest[h[1]].by
          /\ poolRequest'[h[1]].pool = poolRequest[h[1]].pool
          /\ poolRequest'[h[1]].status = "rejected"
          /\ poolRequest'[h[1]].approver = poolRequest[h[1]].approver
      BY <1>3, <2>1 DEF PoolInv, PoolRequestRows
    <2>4. poolRequest'[h[1]].pool # "none" => pool[poolRequest'[h[1]].pool].request = h[1]
      BY <1>3, <2>2 DEF PoolInv, PoolRequestsOK
    <2> QED
      BY <1>3, <2>1, <2>2, <2>4, RequestUpdateStep
  <1>6. ASSUME NEW h \in poolHandler, RecordExecuted(h) PROVE PoolInv'
    <2>1. /\ h[3] = "record" /\ pool' = pool /\ poolHandler' = poolHandler \ {h}
          /\ poolRequest' = [poolRequest EXCEPT ![h[1]].status = "executed",
                                                ![h[1]].pool = h[4]]
      BY <1>6 DEF RecordExecuted
    <2>2. /\ poolRequest' \in [PoolRequests -> PoolRequestRows]
          /\ \A q \in PoolRequests : q # h[1] => poolRequest'[q] = poolRequest[q]
          /\ poolRequest'[h[1]].by = poolRequest[h[1]].by
          /\ poolRequest'[h[1]].approver = poolRequest[h[1]].approver
          /\ poolRequest'[h[1]].pool = h[4]
          /\ poolRequest'[h[1]].status = "executed"
      BY <1>3, <2>1 DEF PoolInv, PoolRequestRows
    <2>3. Another(poolRequest[h[1]]) /\ h[4] # "none" /\ pool[h[4]].request = h[1]
      BY <2>1 DEF PoolInv, PoolHandlersOK
    <2> QED
      BY <1>3, <2>1, <2>2, <2>3, RequestUpdateStep
  <1>7. ASSUME NEW h \in poolHandler, NEW k \in Pools, PreparePool(h, k) PROVE PoolInv'
    <2> DEFINE row == [status |-> "paused", request |-> h[1]]
               g == <<h[1], h[2], "execute", k>>
    <2>1. /\ h[3] = "execute" /\ pool[k].status = "absent" /\ poolRequest' = poolRequest
          /\ pool' = [pool EXCEPT ![k] = row]
          /\ poolHandler' = (poolHandler \ {h}) \cup {g}
      BY <1>7 DEF PreparePool
    <2>2. row \in PoolRows /\ row.status = "paused" /\ row.request = h[1]
      BY <1>3 DEF PoolRows, PoolStatuses
    <2>3. g \in PoolHandlers /\ g[1] = h[1] /\ g[3] = "execute" /\ g[4] = k
      BY <1>3 DEF PoolHandlers
    <2> HIDE DEF row, g
    <2>4. /\ pool' \in [Pools -> PoolRows]
          /\ \A q \in Pools : q # k => pool'[q] = pool[q]
          /\ pool'[k].status = "paused" /\ pool'[k].request = h[1]
      BY <2>1, <2>2 DEF PoolInv
    <2>5. pool[k].request = "none" /\ Another(poolRequest[h[1]])
      BY <2>1 DEF PoolInv, PoolsOK, PoolHandlersOK
    <2>6. poolHandler' \subseteq PoolHandlers
      BY <2>1, <2>3 DEF PoolInv
    <2> QED
      BY <1>3, <2>1, <2>3, <2>4, <2>5, <2>6, PoolUpdateStep
  <1>8. ASSUME NEW h \in poolHandler, ActivatePool(h) PROVE PoolInv'
    <2> DEFINE g == <<h[1], h[2], "record", h[4]>>
    <2>1. /\ h[3] = "execute" /\ h[4] # "none" /\ poolRequest' = poolRequest
          /\ pool' = [pool EXCEPT ![h[4]].status = "active"]
          /\ poolHandler' = (poolHandler \ {h}) \cup {g}
      BY <1>8 DEF ActivatePool
    <2>2. h[4] \in Pools /\ pool[h[4]].request = h[1] /\ Another(poolRequest[h[1]])
      BY <1>3, <2>1 DEF PoolInv, PoolHandlersOK
    <2>3. g \in PoolHandlers /\ g[1] = h[1] /\ g[3] = "record" /\ g[4] = h[4]
      BY <1>3 DEF PoolHandlers
    <2> HIDE DEF g
    <2>4. /\ pool' \in [Pools -> PoolRows]
          /\ \A q \in Pools : q # h[4] => pool'[q] = pool[q]
          /\ pool'[h[4]].status = "active" /\ pool'[h[4]].request = h[1]
      BY <2>1, <2>2 DEF PoolInv, PoolRows, PoolStatuses
    <2>6. poolHandler' \subseteq PoolHandlers
      BY <2>1, <2>3 DEF PoolInv
    <2> QED
      BY <1>3, <2>1, <2>2, <2>3, <2>4, <2>6, PoolUpdateStep
  <1>9. ASSUME NEW k \in Pools, NEW status \in PoolStatuses \ {"absent"},
               pool' = [pool EXCEPT ![k].status = status],
               poolRequest' = poolRequest, poolHandler' = poolHandler
        PROVE  PoolInv'
    <2>1. /\ pool' \in [Pools -> PoolRows]
          /\ \A q \in Pools : q # k => pool'[q] = pool[q]
          /\ pool'[k].status = status /\ pool'[k].request = pool[k].request
      BY <1>9 DEF PoolInv, PoolRows
    <2>2. poolHandler' \subseteq PoolHandlers
      BY <1>9 DEF PoolInv
    <2> QED
      BY <1>9, <2>1, <2>2, PoolUpdateStep
  <1>10. ASSUME NEW h \in poolHandler, GovernanceCrash(h) PROVE PoolInv'
    BY <1>10 DEF GovernanceCrash, PoolInv, PoolRequestsOK, PoolsOK, PoolHandlersOK
  <1>11. CASE UNCHANGED poolVars
    BY <1>11 DEF poolVars, PoolInv, PoolRequestsOK, PoolsOK, PoolHandlersOK
  <1>12. ASSUME NEW k \in Pools, CreatePool(k) PROVE PoolInv'
    BY <1>9, <1>12 DEF CreatePool, PoolStatuses
  <1>13. ASSUME NEW k \in Pools, NEW status \in PoolStatuses \ {"absent"},
                UpdatePoolStatus(k, status)
         PROVE  PoolInv'
    BY <1>9, <1>13 DEF UpdatePoolStatus
  <1> QED
    BY <1>1, <1>2, <1>4, <1>5, <1>6, <1>7, <1>8, <1>10, <1>11, <1>12, <1>13 DEF PoolNext

-----------------------------------------------------------------------------
(* Recoveries of a customer's second factor *)

RecoveryRows ==
  [status : {"absent", "pending_approval", "approved", "rejected", "executed"},
   by : Operators \cup {"none"}, approver : Operators \cup {"none"}]

RecoveryInv ==
  /\ recovery \in [Recoveries -> RecoveryRows]
  /\ recovering \subseteq Recoveries \X Operators \X {"approved", "rejected", "executed"}
  /\ recovered \subseteq Recoveries \X Operators
  /\ \A r \in Recoveries : recovery[r].status = "approved" => Another(recovery[r])
  /\ \A d \in recovering : /\ recovery[d[1]].status # "absent"
                           /\ d[2] # recovery[d[1]].by
                           /\ d[3] = "executed" => Another(recovery[d[1]])
  /\ \A e \in recovered : /\ recovery[e[1]].status # "absent"
                          /\ Another(recovery[e[1]]) /\ e[2] # recovery[e[1]].by

(* Requests, decisions and execution of recoveries keep their invariant. *)
LEMMA RecoveryStep ==
  ASSUME RecoveryInv, SessionNext \/ UNCHANGED sessionVars
  PROVE  RecoveryInv'
  <1> USE DEF Another
  <1>1. ASSUME NEW r \in Recoveries, NEW p \in Operators, RequestRecovery(r, p)
        PROVE  RecoveryInv'
    <2> DEFINE row == [NoRecovery EXCEPT !.status = "pending_approval", !.by = p]
    <2>1. /\ recovery[r].status = "absent"
          /\ recovery' = [recovery EXCEPT ![r] = row]
          /\ recovering' = recovering /\ recovered' = recovered
      BY <1>1 DEF RequestRecovery
    <2>2. row \in RecoveryRows /\ row.status = "pending_approval"
      BY DEF NoRecovery, RecoveryRows
    <2> HIDE DEF row
    <2>3. /\ recovery' \in [Recoveries -> RecoveryRows]
          /\ \A q \in Recoveries : q # r => recovery'[q] = recovery[q]
          /\ recovery'[r].status = "pending_approval"
      BY <2>1, <2>2 DEF RecoveryInv
    <2> QED
      BY <2>1, <2>3 DEF RecoveryInv
  <1>2. ASSUME NEW r \in Recoveries, NEW p \in Operators,
               NEW to \in {"approved", "rejected", "executed"}, BeginDecideRecovery(r, p, to)
        PROVE  RecoveryInv'
    <2>1. /\ recovery[r].status = IF to = "executed" THEN "approved" ELSE "pending_approval"
          /\ recovery[r].by # p
          /\ recovering' = recovering \cup {<<r, p, to>>}
          /\ recovery' = recovery /\ recovered' = recovered
      BY <1>2 DEF BeginDecideRecovery, AnotherOperator
    <2> QED
      BY <2>1 DEF RecoveryInv
  <1>3. ASSUME NEW d \in recovering, DecideRecovery(d),
               \/ recovered' = recovered
               \/ d[3] = "executed" /\ recovered' = recovered \cup {<<d[1], d[2]>>}
        PROVE  RecoveryInv'
    <2> DEFINE e == <<d[1], d[2]>>
    <2>1. /\ recovering' = recovering \ {d}
          /\ recovery' = [recovery EXCEPT ![d[1]].status = d[3],
                            ![d[1]].approver = IF d[3] = "approved" THEN d[2] ELSE @]
      BY <1>3 DEF DecideRecovery
    <2>2. /\ d[1] \in Recoveries /\ d[2] \in Operators
          /\ d[3] \in {"approved", "rejected", "executed"}
          /\ recovery[d[1]] \in RecoveryRows /\ recovery[d[1]].status # "absent"
          /\ d[2] # recovery[d[1]].by
          /\ d[3] = "executed" => Another(recovery[d[1]])
      BY DEF RecoveryInv
    <2>3. /\ recovery' \in [Recoveries -> RecoveryRows]
          /\ \A r \in Recoveries : r # d[1] => recovery'[r] = recovery[r]
          /\ recovery'[d[1]].by = recovery[d[1]].by
          /\ recovery'[d[1]].status = d[3]
          /\ recovery'[d[1]].approver =
               IF d[3] = "approved" THEN d[2] ELSE recovery[d[1]].approver
      BY <2>1, <2>2 DEF RecoveryInv, RecoveryRows
    <2>4. ASSUME NEW r \in Recoveries
          PROVE  /\ recovery'[r].by = recovery[r].by
                 /\ recovery[r].status # "absent" => recovery'[r].status # "absent"
                 /\ Another(recovery[r]) => Another(recovery'[r])
                 /\ recovery'[r].status = "approved" => Another(recovery'[r])
      <3>1. CASE r = d[1]
        BY <3>1, <2>2, <2>3
      <3>2. CASE r # d[1]
        BY <3>2, <2>3 DEF RecoveryInv
      <3> QED
        BY <3>1, <3>2
    <2>5. /\ e \in Recoveries \X Operators /\ e[1] = d[1] /\ e[2] = d[2]
      BY <2>2
    <2>11. \/ recovered' = recovered
           \/ d[3] = "executed" /\ recovered' = recovered \cup {e}
      BY <1>3
    <2> HIDE DEF e
    <2>6. \A f \in recovered' :
            /\ f \in Recoveries \X Operators
            /\ recovery[f[1]].status # "absent"
            /\ Another(recovery[f[1]]) /\ f[2] # recovery[f[1]].by
      BY <2>2, <2>5, <2>11 DEF RecoveryInv
    <2>7. \A f \in recovered' : f[1] \in Recoveries
      BY <2>6
    <2>8. \A f \in recovered' : /\ recovery'[f[1]].status # "absent"
                                /\ Another(recovery'[f[1]]) /\ f[2] # recovery'[f[1]].by
      BY <2>4, <2>6, <2>7
    <2>9. \A f \in recovering' : f \in recovering /\ f[1] \in Recoveries
      BY <2>1 DEF RecoveryInv
    <2>10. recovered' \subseteq Recoveries \X Operators
      BY <2>6
    <2> QED
      BY <2>3, <2>4, <2>8, <2>9, <2>10 DEF RecoveryInv
  <1>4. ASSUME NEW d \in recovering,
               CommitApproveRecovery(d) \/ CommitRejectRecovery(d) \/ CommitExecuteRecovery(d)
        PROVE  RecoveryInv'
    BY <1>3, <1>4 DEF CommitApproveRecovery, CommitRejectRecovery, CommitExecuteRecovery
  <1>5. ASSUME UNCHANGED <<recovery, recovering, recovered>> PROVE RecoveryInv'
    BY <1>5 DEF RecoveryInv
  <1>6. ASSUME NEW s \in SessionIds,
               \/ Refresh(s) \/ RefuseWebSession(s) \/ SessionExpires(s)
               \/ RevokeCustomerSession(s) \/ LogoutCustomerSession(s)
               \/ RevokeCustomerSessionRisk(s)
               \/ \E h \in issuing : CreateSession(h, s)
        PROVE  UNCHANGED <<recovery, recovering, recovered>>
    BY <1>6 DEF Refresh, RefuseWebSession, SessionExpires, RevokeCustomerSession,
                LogoutCustomerSession, RevokeCustomerSessionRisk, RevokeLive, CreateSession
  <1>7. ASSUME \/ \E kind \in {"web", "mobile"} : BeginLogin(kind)
               \/ VerifyEnrollment \/ UpdatePassword \/ RevokeAllCustomerSessions
               \/ VerifyLoginRecoveryCode \/ UpgradeLoginPassword
               \/ \E h \in issuing : ReplaceActiveCustomerSessions(h)
        PROVE  UNCHANGED <<recovery, recovering, recovered>>
    BY <1>7 DEF BeginLogin, VerifyEnrollment, UpdatePassword, RevokeAllCustomerSessions,
                VerifyLoginRecoveryCode, UpgradeLoginPassword, ReplaceActiveCustomerSessions
  <1>8. CASE UNCHANGED sessionVars
    BY <1>5, <1>8 DEF sessionVars
  <1> QED
    BY <1>1, <1>2, <1>4, <1>5, <1>6, <1>7, <1>8 DEF SessionNext

-----------------------------------------------------------------------------
(* Approvals of releases *)

ApprovalRows ==
  [status : {"absent", "pending_approval", "approved", "rejected", "superseded"},
   by : Operators \cup {"none"}, approver : Operators \cup {"none"},
   pack : 0..MaxPacks, supersedes : Approvals \cup {0}, supersededBy : Approvals \cup {0}]

Requests == [what : {"request"}, operator : Operators, pack : 0..MaxPacks]

Decisions == [what : {"approved", "rejected"}, at : {"read", "checked"},
              id : Approvals, operator : Operators]

Rebinds == [what : {"rebind"}, at : {"read", "checked"},
            id : Approvals, operator : Operators, pack : 0..MaxPacks]

(* The row of an approval that exists: an operator asked for it, another    *)
(* one or nobody decided on it, and what it replaces has the same requester.*)
ApprovalRowOK(a) ==
  /\ approval[a].by \in Operators
  /\ approval[a].approver # approval[a].by
  /\ approval[a].supersedes # 0 =>
       /\ approval[approval[a].supersedes].status # "absent"
       /\ approval[a].by = approval[approval[a].supersedes].by

ApprovalInv ==
  /\ latestPack \in 0..MaxPacks
  /\ approval \in [Approvals -> ApprovalRows]
  /\ review \subseteq Requests \cup Decisions \cup Rebinds
  /\ \A a \in Approvals : approval[a].status # "absent" => ApprovalRowOK(a)
  /\ \A h \in review : h.what # "request" => approval[h.id].status # "absent"
  /\ \A h \in review : h.what = "approved" => h.operator # approval[h.id].by

(* Deciding on an approval keeps who asked for it.                          *)
LEMMA DecideStep ==
  ASSUME ApprovalInv, NEW h \in review, NEW approver,
         h.what \in {"approved", "rejected"}, Decide(h, approver),
         approver \in Operators \cup {"none"}, approver # approval[h.id].by
  PROVE  ApprovalInv'
  <1>1. /\ h \in Decisions /\ h.id \in Approvals /\ h.operator \in Operators
    BY DEF ApprovalInv, Requests, Decisions, Rebinds
  <1>2. /\ review' = review \ {h} /\ latestPack' = latestPack
        /\ approval' = [approval EXCEPT ![h.id].status = h.what, ![h.id].approver = approver]
    BY DEF Decide
  <1>3. /\ approval[h.id] \in ApprovalRows /\ approval[h.id].status # "absent"
        /\ ApprovalRowOK(h.id)
    BY <1>1 DEF ApprovalInv
  <1>4. /\ approval' \in [Approvals -> ApprovalRows]
        /\ \A a \in Approvals : a # h.id => approval'[a] = approval[a]
        /\ approval'[h.id].by = approval[h.id].by
        /\ approval'[h.id].supersedes = approval[h.id].supersedes
        /\ approval'[h.id].approver = approver
        /\ approval'[h.id].status = h.what
    BY <1>1, <1>2, <1>3 DEF ApprovalInv, ApprovalRows
  <1>5. ASSUME NEW a \in Approvals
        PROVE  /\ approval'[a].by = approval[a].by
               /\ approval'[a].supersedes = approval[a].supersedes
               /\ (approval'[a].status = "absent") <=> (approval[a].status = "absent")
               /\ approval[a].approver # approval[a].by => approval'[a].approver # approval[a].by
    <2>1. CASE a = h.id
      BY <1>3, <1>4, <2>1
    <2>2. CASE a # h.id
      BY <1>4, <2>2
    <2> QED
      BY <2>1, <2>2
  <1>6. ASSUME NEW a \in Approvals, approval'[a].status # "absent"
        PROVE  ApprovalRowOK(a)'
    <2>1. ApprovalRowOK(a) /\ approval[a].supersedes \in Approvals \cup {0}
      BY <1>5, <1>6 DEF ApprovalInv, ApprovalRows
    <2> QED
      BY <1>5, <2>1 DEF ApprovalRowOK
  <1>7. ASSUME NEW g \in review', g.what # "request"
        PROVE  g \in review /\ g.id \in Approvals
    BY <1>2, <1>7 DEF ApprovalInv, Requests, Decisions, Rebinds
  <1> QED
    BY <1>2, <1>4, <1>5, <1>6, <1>7 DEF ApprovalInv

(* So does a new row of the same requester, or of a new request.            *)
LEMMA NewApprovalStep ==
  ASSUME ApprovalInv, NEW b \in Approvals,
         approval[b].status = "absent",
         latestPack' = latestPack, review' \subseteq review,
         approval' \in [Approvals -> ApprovalRows],
         approval'[b].status = "pending_approval",
         approval'[b].by \in Operators, approval'[b].approver = "none",
         \A a \in Approvals : a # b =>
           /\ approval'[a].by = approval[a].by
           /\ approval'[a].approver = approval[a].approver
           /\ approval'[a].supersedes = approval[a].supersedes
           /\ (approval'[a].status = "absent") <=> (approval[a].status = "absent"),
         approval'[b].supersedes # 0 =>
           /\ approval[approval'[b].supersedes].status # "absent"
           /\ approval'[b].by = approval[approval'[b].supersedes].by
  PROVE  ApprovalInv'
  <1>0. 0 \notin Approvals
    BY ReleaseAssumption DEF ReleaseAssumption, Approvals
  <1>1. ASSUME NEW a \in Approvals, approval'[a].status # "absent"
        PROVE  ApprovalRowOK(a)'
    <2>1. CASE a = b
      <3>1. approval'[b].supersedes \in Approvals \cup {0}
        BY DEF ApprovalRows
      <3>2. approval'[b].supersedes # b
        BY <1>0
      <3> QED
        BY <2>1, <3>1, <3>2, OperatorAssumption DEF ApprovalRowOK, OperatorAssumption
    <2>2. CASE a # b
      <3>1. /\ ApprovalRowOK(a) /\ approval[a].supersedes \in Approvals \cup {0}
            /\ approval[a].supersedes # b
        BY <1>0, <1>1, <2>2 DEF ApprovalInv, ApprovalRows, ApprovalRowOK
      <3> QED
        BY <2>2, <3>1 DEF ApprovalRowOK
    <2> QED
      BY <2>1, <2>2
  <1>2. ASSUME NEW h \in review', h.what # "request"
        PROVE  h \in review /\ h.id \in Approvals /\ h.id # b
    BY <1>2 DEF ApprovalInv, Requests, Decisions, Rebinds
  <1> QED
    BY <1>1, <1>2 DEF ApprovalInv

(* Requests, decisions and rebinding of approvals keep their invariant. *)
LEMMA ApprovalStep ==
  ASSUME ApprovalInv, ReleaseNext \/ UNCHANGED releaseVars
  PROVE  ApprovalInv'
  <1>0. MaxPacks \in Nat
    BY ReleaseAssumption DEF ReleaseAssumption
  <1>1. ASSUME NEW h \in Requests \cup Decisions \cup Rebinds,
               UNCHANGED <<latestPack, approval>>, review' \subseteq review \cup {h},
               h.what # "request" => approval[h.id].status # "absent",
               h.what = "approved" => h.operator # approval[h.id].by
        PROVE  ApprovalInv'
    BY <1>1 DEF ApprovalInv, ApprovalRowOK
  <1>2. ASSUME NEW p \in Operators, NEW pack \in 1..latestPack, BeginRequestApproval(p, pack)
        PROVE  ApprovalInv'
    <2> DEFINE h == [what |-> "request", operator |-> p, pack |-> pack]
    <2>1. h \in Requests /\ h.what = "request"
      BY <1>0 DEF ApprovalInv, Requests
    <2>2. review' = review \cup {h} /\ UNCHANGED <<latestPack, approval>>
      BY <1>2 DEF BeginRequestApproval, BeginReview
    <2> HIDE DEF h
    <2> QED
      BY <1>1, <2>1, <2>2
  <1>3. ASSUME NEW a \in Approvals, NEW p \in Operators, NEW to \in {"approved", "rejected"},
               approval[a].status = "pending_approval", approval[a].by # p,
               BeginReview([what |-> to, at |-> "read", id |-> a, operator |-> p])
        PROVE  ApprovalInv'
    <2> DEFINE h == [what |-> to, at |-> "read", id |-> a, operator |-> p]
    <2>1. /\ h \in Decisions /\ h.what \in {"approved", "rejected"}
          /\ h.id = a /\ h.operator = p
      BY DEF Decisions
    <2>2. review' = review \cup {h} /\ UNCHANGED <<latestPack, approval>>
      BY <1>3 DEF BeginReview
    <2> HIDE DEF h
    <2> QED
      BY <1>1, <1>3, <2>1, <2>2
  <1>4. ASSUME NEW a \in Approvals, NEW p \in Operators, BeginApprove(a, p) \/ BeginReject(a, p)
        PROVE  ApprovalInv'
    BY <1>3, <1>4 DEF BeginApprove, BeginReject
  <1>5. ASSUME NEW a \in Approvals, NEW p \in Operators, NEW pack \in 1..latestPack,
               BeginRebind(a, p, pack)
        PROVE  ApprovalInv'
    <2> DEFINE h == [what |-> "rebind", at |-> "read", id |-> a, operator |-> p, pack |-> pack]
    <2>1. h \in Rebinds /\ h.what = "rebind" /\ h.id = a
      BY <1>0 DEF ApprovalInv, Rebinds
    <2>2. /\ review' = review \cup {h} /\ UNCHANGED <<latestPack, approval>>
          /\ approval[a].status = "pending_approval"
      BY <1>5 DEF BeginRebind, BeginReview
    <2> HIDE DEF h
    <2> QED
      BY <1>1, <2>1, <2>2
  <1>6. ASSUME NEW h \in review, CheckReview(h) PROVE ApprovalInv'
    <2> DEFINE g == [h EXCEPT !.at = "checked"]
    <2>1. /\ h.what # "request" /\ review' \subseteq review \cup {g}
          /\ UNCHANGED <<latestPack, approval>>
      BY <1>6 DEF CheckReview
    <2>2. h \in Decisions \/ h \in Rebinds
      BY <2>1 DEF ApprovalInv, Requests
    <2>3. /\ g \in Decisions \/ g \in Rebinds
          /\ g.what = h.what /\ g.id = h.id /\ g.operator = h.operator
      BY <2>2 DEF Decisions, Rebinds
    <2>4. /\ approval[h.id].status # "absent"
          /\ h.what = "approved" => h.operator # approval[h.id].by
      BY <2>1 DEF ApprovalInv
    <2> HIDE DEF g
    <2> QED
      BY <1>1, <2>1, <2>3, <2>4
  <1>7. ASSUME NEW h \in review, CommitApprove(h) \/ CommitReject(h) PROVE ApprovalInv'
    <2>1. h \in Decisions /\ h.id \in Approvals /\ h.operator \in Operators
      BY <1>7 DEF ApprovalInv, Requests, Decisions, Rebinds, CommitApprove, CommitReject
    <2>2. /\ approval[h.id] \in ApprovalRows /\ approval[h.id].approver # approval[h.id].by
          /\ approval[h.id].approver \in Operators \cup {"none"}
          /\ h.what = "approved" => h.operator # approval[h.id].by
      BY <1>7, <2>1 DEF ApprovalInv, ApprovalRowOK, ApprovalRows, CommitApprove, CommitReject
    <2>3. CASE CommitApprove(h)
      BY <2>1, <2>2, <2>3, DecideStep DEF CommitApprove
    <2>4. CASE CommitReject(h)
      BY <2>1, <2>2, <2>4, DecideStep DEF CommitReject
    <2> QED
      BY <1>7, <2>3, <2>4
  <1>8. ASSUME NEW h \in review, NEW b \in Approvals, CommitRequestApproval(h, b)
        PROVE  ApprovalInv'
    <2> DEFINE row == [NoApproval EXCEPT !.status = "pending_approval", !.by = h.operator,
                                         !.pack = h.pack]
    <2>1. /\ approval[b].status = "absent" /\ review' = review \ {h} /\ latestPack' = latestPack
          /\ approval' = [approval EXCEPT ![b] = row]
      BY <1>8 DEF CommitRequestApproval, NextApproval
    <2>2. h.operator \in Operators /\ h.pack \in 0..MaxPacks
      BY <1>8 DEF CommitRequestApproval, ApprovalInv, Requests, Decisions, Rebinds
    <2>3. /\ row \in ApprovalRows /\ row.status = "pending_approval" /\ row.by \in Operators
          /\ row.approver = "none" /\ row.supersedes = 0
      BY <2>2 DEF NoApproval, ApprovalRows
    <2> HIDE DEF row
    <2>4. /\ approval' \in [Approvals -> ApprovalRows] /\ approval'[b] = row
          /\ \A a \in Approvals : a # b => approval'[a] = approval[a]
      BY <2>1, <2>3 DEF ApprovalInv
    <2> QED
      BY <2>1, <2>3, <2>4, NewApprovalStep
  <1>9. ASSUME NEW h \in review, NEW b \in Approvals, CommitRebind(h, b) PROVE ApprovalInv'
    <2> DEFINE row == [NoApproval EXCEPT !.status = "pending_approval",
                         !.by = approval[h.id].by, !.pack = h.pack, !.supersedes = h.id]
    <2>1. /\ h.what = "rebind" /\ approval[b].status = "absent"
          /\ review' = review \ {h} /\ latestPack' = latestPack
          /\ \/ approval' = [approval EXCEPT ![b] = row, ![h.id].status = "superseded",
                                            ![h.id].supersededBy = b]
             \/ approval' = approval
      BY <1>9 DEF CommitRebind, NextApproval, RequesterIsKept
    <2>2. /\ h.id \in Approvals /\ h.pack \in 0..MaxPacks
          /\ approval[h.id].status # "absent" /\ approval[h.id].by \in Operators
      BY <2>1 DEF ApprovalInv, ApprovalRowOK, Requests, Decisions, Rebinds
    <2>3. h.id # b
      BY <2>1, <2>2
    <2>4. /\ row \in ApprovalRows /\ row.status = "pending_approval"
          /\ row.by = approval[h.id].by /\ row.approver = "none" /\ row.supersedes = h.id
      BY <2>2 DEF NoApproval, ApprovalRows
    <2> HIDE DEF row
    <2>5. CASE approval' = approval
      BY <2>1, <2>5 DEF ApprovalInv, ApprovalRowOK
    <2>6. CASE approval' = [approval EXCEPT ![b] = row, ![h.id].status = "superseded",
                                            ![h.id].supersededBy = b]
      <3>1. approval[h.id] \in ApprovalRows
        BY <2>2 DEF ApprovalInv
      <3>2. [approval[h.id] EXCEPT !.status = "superseded", !.supersededBy = b] \in ApprovalRows
        BY <3>1 DEF ApprovalRows
      <3>3. /\ approval' \in [Approvals -> ApprovalRows] /\ approval'[b] = row
            /\ \A a \in Approvals : a # b /\ a # h.id => approval'[a] = approval[a]
            /\ approval'[h.id] =
                 [approval[h.id] EXCEPT !.status = "superseded", !.supersededBy = b]
        BY <2>2, <2>3, <2>4, <2>6, <3>2 DEF ApprovalInv
      <3>4. /\ approval'[h.id].by = approval[h.id].by
            /\ approval'[h.id].approver = approval[h.id].approver
            /\ approval'[h.id].supersedes = approval[h.id].supersedes
            /\ approval'[h.id].status = "superseded"
        BY <3>1, <3>3 DEF ApprovalRows
      <3>5. ASSUME NEW a \in Approvals, a # b
            PROVE  /\ approval'[a].by = approval[a].by
                   /\ approval'[a].approver = approval[a].approver
                   /\ approval'[a].supersedes = approval[a].supersedes
                   /\ (approval'[a].status = "absent") <=> (approval[a].status = "absent")
        BY <2>2, <3>3, <3>4, <3>5
      <3>6. review' \subseteq review
        BY <2>1
      <3> QED
        BY <2>1, <2>2, <2>4, <3>3, <3>5, <3>6, NewApprovalStep
    <2> QED
      BY <2>1, <2>5, <2>6
  <1>10. CASE StoreLaunchClosurePack
    BY <1>0, <1>10 DEF StoreLaunchClosurePack, ApprovalInv, ApprovalRowOK
  <1>11. ASSUME UNCHANGED <<latestPack, approval, review>> PROVE ApprovalInv'
    BY <1>11 DEF ApprovalInv, ApprovalRowOK
  <1>12. CASE UNCHANGED releaseVars
    BY <1>11, <1>12 DEF releaseVars
  <1>13. ASSUME NEW c \in Checks, NEW status \in {"passed", "lacking"},
                RecordEvidence(c, status)
         PROVE  ApprovalInv'
    BY <1>11, <1>13 DEF RecordEvidence
  <1> QED
    BY <1>2, <1>4, <1>5, <1>6, <1>7, <1>8, <1>9, <1>10, <1>12, <1>13 DEF ReleaseNext

-----------------------------------------------------------------------------
(* The back office                                                          *)

DualControlInv == OverrideInv /\ PackageInv /\ PoolInv /\ RecoveryInv /\ ApprovalInv

(* Initially nothing is requested. *)
LEMMA DualControlInit == BackOfficeInit => DualControlInv
  <1> SUFFICES ASSUME BackOfficeInit PROVE DualControlInv
    OBVIOUS
  <1> USE DEF BackOfficeInit
  <1>1. OverrideInv
    BY DEF OverrideInit, OverrideInv, OverrideRows, NoOverride
  <1>2. PackageInv
    BY DEF PackageInit, PackageInv, PackageRows, NoPackage
  <1>3. PoolInv
    BY DEF PoolInit, PoolInv, PoolRows, PoolStatuses, PoolRequestRows, NoPoolRequest,
           PoolRequestsOK, PoolsOK, PoolHandlersOK
  <1>4. RecoveryInv
    BY DEF SessionInit, RecoveryInv, RecoveryRows, NoRecovery
  <1>5. ApprovalInv
    BY ReleaseAssumption
       DEF ReleaseAssumption, ReleaseInit, ApprovalInv, ApprovalRows, NoApproval
  <1> QED
    BY <1>1, <1>2, <1>3, <1>4, <1>5 DEF DualControlInv

(* A step of the back office is one of a part, or leaves the part alone. *)
LEMMA DualControlStep ==
  DualControlInv /\ [BackOfficeNext]_backOfficeVars => DualControlInv'
  <1> SUFFICES ASSUME DualControlInv, [BackOfficeNext]_backOfficeVars
               PROVE  DualControlInv'
    OBVIOUS
  <1>1. /\ OverrideNext \/ UNCHANGED overrideVars
        /\ PackageNext \/ UNCHANGED packageVars
        /\ PoolNext \/ UNCHANGED poolVars
        /\ SessionNext \/ UNCHANGED sessionVars
        /\ ReleaseNext \/ UNCHANGED releaseVars
    BY DEF BackOfficeNext, backOfficeVars
  <1> QED
    BY <1>1, OverrideStep, PackageStep, PoolStep, RecoveryStep, ApprovalStep
       DEF DualControlInv

(* The invariants of the parts imply that whoever decides is another one. *)
LEMMA DualControlFollows == DualControlInv => DualControl
  <1> SUFFICES ASSUME DualControlInv PROVE DualControl
    OBVIOUS
  <1> USE DEF DualControlInv, Another
  <1>1. DirectUseHadTwoOperators
    BY OperatorAssumption DEF OperatorAssumption, OverrideInv, DirectUseHadTwoOperators
  <1>2. PackageHadTwoOperators
    BY OperatorAssumption DEF OperatorAssumption, PackageInv, PackageHadTwoOperators
  <1>3. PoolHadTwoOperators
    BY PoolAssumption DEF PoolAssumption, PoolInv, PoolRequestsOK, PoolsOK, PoolRows,
       PoolRequestRows, PoolHadTwoOperators
  <1>4. RecoveryHadTwoOperators
    BY DEF RecoveryInv, RecoveryHadTwoOperators
  <1>5. ApprovedByAnother
    BY DEF ApprovalInv, ApprovalRowOK, ApprovedByAnother
  <1> QED
    BY <1>1, <1>2, <1>3, <1>4, <1>5 DEF DualControl

(* Whatever overlaps, nothing privileged in the back office happens on the  *)
(* word of one operator: the requester of every override that was used, of  *)
(* every governed pool, every recovery that was executed, every approval of *)
(* a release and every package that left the bank is not its approver.      *)
THEOREM DualControlCorrect == BackOfficeSpec => []DualControl
  <1>1. BackOfficeInit => DualControlInv
    BY DualControlInit
  <1>2. DualControlInv /\ [BackOfficeNext]_backOfficeVars => DualControlInv'
    BY DualControlStep
  <1>3. DualControlInv => DualControl
    BY DualControlFollows
  <1> QED
    BY <1>1, <1>2, <1>3, PTL DEF BackOfficeSpec

-----------------------------------------------------------------------------
(* Sessions: a session, and a call that will create one, carry the version  *)
(* that was found by the login they descend from.                           *)

SessionRows ==
  [status : {"absent", "live", "revoked"}, version : Nat,
   kind : {"none", "web", "mobile", "token"}, family : SessionIds \cup {0},
   expired : BOOLEAN, loggedInAt : Nat]
IssuingCalls ==
  [version : Nat, from : SessionIds \cup {0}, kind : {"web", "mobile", "token"},
   replaces : BOOLEAN, loggedInAt : Nat]

SessionInv ==
  /\ authTokenVersion \in Nat
  /\ session \in [SessionIds -> SessionRows]
  /\ issuing \subseteq IssuingCalls
  /\ \A s \in SessionIds : session[s].version = session[s].loggedInAt
  /\ \A h \in issuing : h.version = h.loggedInAt

(* A revocation keeps the versions.                                         *)
LEMMA RevokeKeepsVersions ==
  ASSUME SessionInv, NEW S, Revoke(S)
  PROVE  /\ session' \in [SessionIds -> SessionRows]
         /\ \A s \in SessionIds : session'[s].version = session'[s].loggedInAt
  <1>1. ASSUME NEW s \in SessionIds
        PROVE  /\ session'[s] \in SessionRows
               /\ session'[s].version = session'[s].loggedInAt
    <2>1. session[s] \in SessionRows /\ session[s].version = session[s].loggedInAt
      BY DEF SessionInv
    <2>2. \/ session'[s] = session[s]
          \/ session'[s] = [session[s] EXCEPT !.status = "revoked"]
      BY DEF Revoke
    <2> QED
      BY <2>1, <2>2 DEF SessionRows
  <1> QED
    BY <1>1 DEF Revoke

(* A call that starts carries one version.                                  *)
LEMMA StartKeepsVersions ==
  ASSUME SessionInv, NEW h \in IssuingCalls, h.version = h.loggedInAt, StartIssuing(h)
  PROVE  issuing' \subseteq IssuingCalls /\ \A g \in issuing' : g.version = g.loggedInAt
  BY DEF SessionInv, StartIssuing

(* The new session takes the versions of its call; the one it replaces, if  *)
(* any, changes its status only.                                            *)
LEMMA CreateKeepsVersions ==
  ASSUME SessionInv, NEW s \in SessionIds, NEW h \in issuing, CreateSession(h, s)
  PROVE  SessionInv'
  <1>1. h \in IssuingCalls /\ h.version = h.loggedInAt
    BY DEF SessionInv
  <1> DEFINE retired == IF h.from = 0 THEN session
                        ELSE [session EXCEPT ![h.from].status = "revoked"]
             row == [status |-> "live", version |-> VersionRead(h), kind |-> h.kind,
                     family |-> IF h.from # 0 THEN session[h.from].family
                                ELSE IF h.kind = "mobile" THEN s ELSE 0,
                     expired |-> FALSE, loggedInAt |-> h.loggedInAt]
  <1>2. row \in SessionRows /\ row.version = row.loggedInAt
    BY <1>1 DEF SessionInv, SessionRows, IssuingCalls, VersionRead
  <1>3. ASSUME NEW t \in SessionIds
        PROVE  retired[t] \in SessionRows /\ retired[t].version = retired[t].loggedInAt
    <2>1. session[t] \in SessionRows /\ session[t].version = session[t].loggedInAt
      BY DEF SessionInv
    <2>2. retired[t] = session[t] \/ retired[t] = [session[t] EXCEPT !.status = "revoked"]
      BY <1>1 DEF SessionInv, IssuingCalls
    <2> HIDE DEF retired
    <2> QED
      BY <2>1, <2>2 DEF SessionRows
  <1>4. DOMAIN retired = SessionIds /\ retired = [t \in SessionIds |-> retired[t]]
    BY DEF SessionInv
  <1>5. session' = [retired EXCEPT ![s] = row]
    BY DEF CreateSession
  <1> HIDE DEF retired, row
  <1>6. /\ session' \in [SessionIds -> SessionRows]
        /\ \A t \in SessionIds : session'[t].version = session'[t].loggedInAt
    BY <1>2, <1>3, <1>4, <1>5
  <1> QED
    BY <1>6 DEF SessionInv, CreateSession

(* A refreshed session keeps the version its own row carries. *)
LEMMA RefreshKeepsVersions ==
  ASSUME SessionInv, NEW s \in SessionIds, Refresh(s)
  PROVE  SessionInv'
  <1> DEFINE call == [version |-> session[s].version, from |-> s, kind |-> "mobile",
                      replaces |-> FALSE, loggedInAt |-> session[s].loggedInAt]
  <1>1. call \in IssuingCalls /\ call.version = call.loggedInAt
    BY DEF SessionInv, SessionRows, IssuingCalls
  <1>2. authTokenVersion' = authTokenVersion
    BY DEF Refresh
  <1>3. \/ UNCHANGED issuing /\ \E S : Revoke(S)
        \/ StartIssuing(call) /\ UNCHANGED session
    BY Zenon DEF Refresh
  <1> HIDE DEF call
  <1>4. CASE UNCHANGED issuing /\ \E S : Revoke(S)
    BY <1>2, <1>4, RevokeKeepsVersions DEF SessionInv
  <1>5. CASE StartIssuing(call) /\ UNCHANGED session
    BY <1>1, <1>2, <1>5, StartKeepsVersions DEF SessionInv
  <1> QED
    BY <1>3, <1>4, <1>5

(* The calls of a revocation, with the version raised or not.               *)
LEMMA RevocationStep ==
  ASSUME SessionInv, NEW S, Revoke(S), UNCHANGED issuing,
         authTokenVersion' \in {authTokenVersion, authTokenVersion + 1}
  PROVE  SessionInv'
  BY RevokeKeepsVersions DEF SessionInv

(* Logins, refreshes, revocations and recoveries keep the invariant of the sessions. *)
LEMMA SessionStep ==
  ASSUME SessionInv, SessionNext \/ UNCHANGED sessionVars
  PROVE  SessionInv'
  <1>1. ASSUME NEW kind \in {"web", "mobile"}, BeginLogin(kind) PROVE SessionInv'
    <2> DEFINE call == [version |-> authTokenVersion, from |-> 0, kind |-> kind,
                        replaces |-> FALSE, loggedInAt |-> authTokenVersion]
    <2>1. call \in IssuingCalls /\ call.version = call.loggedInAt
      BY DEF SessionInv, IssuingCalls
    <2>2. StartIssuing(call) /\ UNCHANGED <<authTokenVersion, session>>
      BY <1>1 DEF BeginLogin
    <2> HIDE DEF call
    <2> QED
      BY <2>1, <2>2, StartKeepsVersions DEF SessionInv
  <1>2. CASE VerifyEnrollment
    <2> DEFINE call == [version |-> authTokenVersion + 1, from |-> 0, kind |-> "token",
                        replaces |-> TRUE, loggedInAt |-> authTokenVersion + 1]
    <2>1. call \in IssuingCalls /\ call.version = call.loggedInAt
      BY DEF SessionInv, IssuingCalls
    <2>2. StartIssuing(call) /\ UNCHANGED session /\ authTokenVersion' = authTokenVersion + 1
      BY <1>2 DEF VerifyEnrollment
    <2> HIDE DEF call
    <2> QED
      BY <2>1, <2>2, StartKeepsVersions DEF SessionInv
  <1>3. ASSUME RevokeEverything, UNCHANGED issuing PROVE SessionInv'
    BY <1>3, RevocationStep DEF RevokeEverything
  <1>4. CASE UpdatePassword \/ RevokeAllCustomerSessions
             \/ VerifyLoginRecoveryCode \/ UpgradeLoginPassword
    BY <1>3, <1>4 DEF UpdatePassword, RevokeAllCustomerSessions, VerifyLoginRecoveryCode,
                      UpgradeLoginPassword
  <1>5. ASSUME NEW s \in SessionIds, Refresh(s) PROVE SessionInv'
    BY <1>5, RefreshKeepsVersions
  <1>6. ASSUME NEW s \in SessionIds,
               RefuseWebSession(s) \/ RevokeCustomerSession(s)
               \/ LogoutCustomerSession(s) \/ RevokeCustomerSessionRisk(s)
        PROVE  SessionInv'
    BY <1>6, RevocationStep
       DEF RefuseWebSession, RevokeCustomerSession, LogoutCustomerSession,
           RevokeCustomerSessionRisk, RevokeLive
  <1>7. ASSUME NEW s \in SessionIds, SessionExpires(s) PROVE SessionInv'
    <2>1. session' = [session EXCEPT ![s].expired = TRUE]
      BY <1>7 DEF SessionExpires
    <2>2. ASSUME NEW t \in SessionIds
          PROVE  session'[t] \in SessionRows /\ session'[t].version = session'[t].loggedInAt
      BY <2>1 DEF SessionInv, SessionRows
    <2> QED
      BY <1>7, <2>1, <2>2 DEF SessionInv, SessionExpires
  <1>8. ASSUME NEW s \in SessionIds, NEW h \in issuing, CreateSession(h, s)
        PROVE  SessionInv'
    BY <1>8, CreateKeepsVersions
  <1>9. ASSUME NEW h \in issuing, ReplaceActiveCustomerSessions(h) PROVE SessionInv'
    <2>1. h \in IssuingCalls /\ h.version = h.loggedInAt
      BY DEF SessionInv
    <2>2. /\ [h EXCEPT !.replaces = FALSE] \in IssuingCalls
          /\ [h EXCEPT !.replaces = FALSE].version = [h EXCEPT !.replaces = FALSE].loggedInAt
      BY <2>1 DEF IssuingCalls
    <2>3. issuing' \subseteq IssuingCalls /\ \A g \in issuing' : g.version = g.loggedInAt
      BY <1>9, <2>2 DEF SessionInv, ReplaceActiveCustomerSessions
    <2> QED
      BY <1>9, <2>3, RevokeKeepsVersions DEF SessionInv, ReplaceActiveCustomerSessions
  <1>10. ASSUME UNCHANGED <<authTokenVersion, session, issuing>> PROVE SessionInv'
    BY <1>10 DEF SessionInv
  <1>11. ASSUME NEW r \in Recoveries, NEW p \in Operators,
                \/ RequestRecovery(r, p)
                \/ \E to \in {"approved", "rejected", "executed"} :
                     BeginDecideRecovery(r, p, to)
         PROVE  SessionInv'
    BY <1>10, <1>11 DEF RequestRecovery, BeginDecideRecovery
  <1>12. ASSUME NEW d \in recovering, CommitApproveRecovery(d) \/ CommitRejectRecovery(d)
         PROVE  SessionInv'
    BY <1>10, <1>12 DEF CommitApproveRecovery, CommitRejectRecovery, DecideRecovery
  <1>13. ASSUME NEW d \in recovering, CommitExecuteRecovery(d) PROVE SessionInv'
    BY <1>3, <1>13 DEF CommitExecuteRecovery, DecideRecovery
  <1>14. CASE UNCHANGED sessionVars
    BY <1>10, <1>14 DEF sessionVars
  <1> QED
    BY <1>1, <1>2, <1>4, <1>5, <1>6, <1>7, <1>8, <1>9, <1>11, <1>12, <1>13, <1>14
       DEF SessionNext

(* No customer session outlives a revocation: whatever logins, refreshes    *)
(* and enrollments are under way when the password changes, everything is   *)
(* revoked or the second factor is reset, no session they create is usable. *)
THEOREM SessionsCorrect == BackOfficeSpec => []NothingOutlivesRevocation
  <1>1. BackOfficeInit => SessionInv
    BY DEF BackOfficeInit, SessionInit, SessionInv, SessionRows, NoSession
  <1>2. SessionInv /\ [BackOfficeNext]_backOfficeVars => SessionInv'
    <2>1. [BackOfficeNext]_backOfficeVars => SessionNext \/ UNCHANGED sessionVars
      BY DEF BackOfficeNext, backOfficeVars
    <2> QED
      BY <2>1, SessionStep
  <1>3. SessionInv => NothingOutlivesRevocation
    BY DEF SessionInv, NothingOutlivesRevocation, SessionUsable
  <1> QED
    BY <1>1, <1>2, <1>3, PTL DEF BackOfficeSpec

-----------------------------------------------------------------------------
(* The policy wallet: the nonces that were used are those below the next    *)
(* one, so that a transfer is the first one of its nonce.                   *)

WalletInv ==
  /\ wallet = [nextNonce |-> wallet.nextNonce, policySigner |-> wallet.policySigner,
               balance |-> wallet.balance]
  /\ wallet.nextNonce \in Nat /\ wallet.balance \in Nat
  /\ IsFiniteSet(executed) /\ executed \subseteq Authorizations \X Signers
  /\ PaidAsAuthorized

(* executeAuthorizedTransfer accepts the next nonce of a current signer only. *)
LEMMA TransferStep ==
  ASSUME WalletInv, NEW x \in Authorizations, ExecuteAuthorizedTransfer(x)
  PROVE  WalletInv'
  <1> USE WalletAssumption DEF WalletAssumption
  <1> DEFINE n == wallet.nextNonce
             e == <<x, wallet.policySigner>>
  <1>1. /\ AuthNonce[x] = n /\ AuthSigner[x] = wallet.policySigner
        /\ wallet.policySigner \in Signers /\ e \in Authorizations \X Signers
        /\ executed' = executed \cup {e} /\ wallet.balance > 0
    BY DEF ExecuteAuthorizedTransfer, NonceIsNext, SignedByPolicy
  <1>2. wallet' = [nextNonce |-> n + 1, policySigner |-> wallet.policySigner,
                   balance |-> wallet.balance - 1]
    BY DEF WalletInv, ExecuteAuthorizedTransfer
  <1>3. /\ n \in Nat /\ n + 1 \in Nat /\ wallet'.nextNonce = n + 1
        /\ wallet'.balance = wallet.balance - 1 /\ wallet.balance - 1 \in Nat
        /\ wallet'.policySigner = wallet.policySigner
    BY <1>1, <1>2 DEF WalletInv
  <1>4. \A g \in executed : AuthNonce[g[1]] \in 0 .. (n - 1)
    BY DEF WalletInv, PaidAsAuthorized
  <1>5. e \notin executed
    BY <1>1, <1>3, <1>4
  <1>6. IsFiniteSet(executed') /\ Cardinality(executed') = Cardinality(executed) + 1
    BY <1>1, <1>5, FS_AddElement DEF WalletInv
  <1>7. \A g \in executed' : AuthSigner[g[1]] = g[2]
    BY <1>1 DEF WalletInv, PaidAsAuthorized
  <1>8. \A g, k \in executed' : AuthNonce[g[1]] = AuthNonce[k[1]] => g = k
    <2>1. \A g \in executed : AuthNonce[g[1]] # AuthNonce[e[1]]
      BY <1>1, <1>3, <1>4
    <2> QED
      BY <1>1, <2>1 DEF WalletInv, PaidAsAuthorized
  <1>9. Funds - wallet'.balance = Cardinality(executed')
    <2>1. Cardinality(executed) \in Nat /\ Funds - wallet.balance = Cardinality(executed)
      BY FS_CardinalityType DEF WalletInv, PaidAsAuthorized
    <2> QED
      BY <1>3, <1>6, <2>1 DEF WalletInv
  <1>10. {AuthNonce[g[1]] : g \in executed'} = 0 .. (wallet'.nextNonce - 1)
    <2>1. {AuthNonce[g[1]] : g \in executed'} = {AuthNonce[g[1]] : g \in executed} \cup {n}
      BY <1>1
    <2>2. {AuthNonce[g[1]] : g \in executed} = 0 .. (n - 1)
      BY DEF WalletInv, PaidAsAuthorized
    <2>3. (0 .. (n - 1)) \cup {n} = 0 .. ((n + 1) - 1)
      BY <1>3
    <2> QED
      BY <1>3, <2>1, <2>2, <2>3
  <1>11. PaidAsAuthorized'
    BY <1>7, <1>8, <1>9, <1>10 DEF PaidAsAuthorized
  <1>12. executed' \subseteq Authorizations \X Signers
    BY <1>1 DEF WalletInv
  <1> QED
    BY <1>2, <1>3, <1>6, <1>11, <1>12 DEF WalletInv

(* No transaction of PolicyControlledWallet breaks its invariant. *)
LEMMA WalletStep ==
  ASSUME WalletInv, WalletNext \/ UNCHANGED walletVars
  PROVE  WalletInv'
  <1>1. ASSUME NEW s \in Signers, SetPolicySigner(s) PROVE WalletInv'
    <2>1. wallet' = [nextNonce |-> wallet.nextNonce, policySigner |-> s,
                     balance |-> wallet.balance]
      BY <1>1 DEF WalletInv, SetPolicySigner
    <2>2. wallet'.nextNonce = wallet.nextNonce /\ wallet'.balance = wallet.balance
          /\ wallet'.policySigner = s
      BY <2>1
    <2> QED
      BY <1>1, <2>1, <2>2 DEF WalletInv, SetPolicySigner, PaidAsAuthorized
  <1>2. CASE UNCHANGED <<wallet, executed>>
    BY <1>2 DEF WalletInv, PaidAsAuthorized
  <1> QED
    BY <1>1, <1>2, TransferStep DEF WalletNext, DeadlinePasses, walletVars

(* Whatever the executor sends, and however often the owner rotates the     *)
(* signer, the wallet has made one transfer for each nonce below the next   *)
(* one, each authorized by the signer in force, and misses no other money.  *)
THEOREM WalletCorrect == BackOfficeSpec => []PaidAsAuthorized
  <1>1. BackOfficeInit => WalletInv
    <2> SUFFICES ASSUME BackOfficeInit PROVE WalletInv
      OBVIOUS
    <2>1. /\ wallet = [nextNonce |-> 0, policySigner |-> CHOOSE s \in Signers : TRUE,
                       balance |-> Funds]
          /\ executed = {}
      BY DEF BackOfficeInit, WalletInit
    <2>2. IsFiniteSet(executed) /\ Cardinality(executed) = 0
      BY <2>1, FS_EmptySet
    <2> QED
      BY <2>1, <2>2, WalletAssumption DEF WalletAssumption, WalletInv, PaidAsAuthorized
  <1>2. WalletInv /\ [BackOfficeNext]_backOfficeVars => WalletInv'
    <2>1. [BackOfficeNext]_backOfficeVars => WalletNext \/ UNCHANGED walletVars
      BY DEF BackOfficeNext, backOfficeVars
    <2> QED
      BY <2>1, WalletStep
  <1>3. WalletInv => PaidAsAuthorized
    BY DEF WalletInv
  <1> QED
    BY <1>1, <1>2, <1>3, PTL DEF BackOfficeSpec

-----------------------------------------------------------------------------
(* Solvency: a pause waits for a manual resume; a request for one knows a   *)
(* version of the policy that the request itself has replaced.              *)

SnapshotRow(row) == row = [status |-> row.status, made |-> row.made,
                           liabilities |-> row.liabilities, reserves |-> row.reserves]
ResumeRow(row) ==
  row \in [status : {"absent", "pending_approval", "approved", "rejected"},
           by : Operators \cup {"none"}, approver : Operators \cup {"none"},
           snapshot : Snapshots \cup {"none"}, version : Nat,
           latest : Snapshots \cup {"none"}, eligible : BOOLEAN]
PolicyRow(row) ==
  row = [status |-> row.status, reason |-> row.reason, latest |-> row.latest,
         manualResumeRequired |-> row.manualResumeRequired, version |-> row.version]

(* The request is overtaken: its approval will be refused.                  *)
Overtaken(row, version) == row.version \in Nat /\ row.version < version

PolicyInv ==
  /\ PolicyRow(policy) /\ policy.version \in Nat
  /\ policy.status = "paused" => policy.manualResumeRequired
  /\ GatesFollowEvidence

SnapshotsOK ==
  /\ DOMAIN snapshot = Snapshots
  /\ \A s \in Snapshots : SnapshotRow(snapshot[s])
  /\ policy.latest \in Snapshots \cup {"none"}

ResumesOK ==
  /\ DOMAIN resume = Resumes
  /\ \A r \in Resumes : /\ ResumeRow(resume[r])
                        /\ resume[r].status = "pending_approval"
                             => Overtaken(resume[r], policy.version)

SolvencyInv == PolicyInv /\ SnapshotsOK /\ ResumesOK
AnsweringOK == answering \subseteq Resumes \X Operators \X {"approved", "rejected"}

(* While a snapshot is in the making, no evidence is taken away from the    *)
(* policy: only a row that is absent or failed is written.                  *)
LEMMA SnapshotWritten ==
  ASSUME SolvencyInv, NEW s \in Snapshots, NEW row,
         SnapshotRow(row), row.status # "critical",
         snapshot' = [snapshot EXCEPT ![s] = row], UNCHANGED <<policy, resume>>
  PROVE  SolvencyInv'
  <1>1. /\ DOMAIN snapshot' = Snapshots /\ snapshot'[s] = row
        /\ \A t \in Snapshots : t # s => snapshot'[t] = snapshot[t]
    BY DEF SolvencyInv, SnapshotsOK
  <1>2. SnapshotsOK'
    BY <1>1 DEF SolvencyInv, SnapshotsOK
  <1>3. policy'.latest # "none" /\ snapshot'[policy'.latest].status = "critical" => ~GatesOpen'
    BY <1>1 DEF SolvencyInv, PolicyInv, SnapshotsOK, GatesFollowEvidence, GatesOpen
  <1>4. PolicyInv'
    BY <1>3 DEF SolvencyInv, PolicyInv, GatesFollowEvidence, GatesOpen
  <1> QED
    BY <1>2, <1>4 DEF SolvencyInv, ResumesOK

(* What a committed snapshot does to the policy.                            *)
LEMMA SnapshotCommitted ==
  ASSUME SolvencyInv, NEW s \in Snapshots, CommitSnapshot(s)
  PROVE  SolvencyInv' /\ (policy.status = "paused" => policy'.status = "paused")
  <1> DEFINE worst == Worst(AssetIssues(snapshot[s].liabilities, snapshot[s].reserves))
             hold == HoldPaused(worst.severity)
             status == IF hold THEN "paused" ELSE PolicyOf(worst.severity)
             reason == IF hold THEN "manual_resume_required" ELSE worst.reason
             changed == policy.status # status \/ policy.reason # reason
             row == [status |-> worst.severity, made |-> TRUE, liabilities |-> NoRead,
                     reserves |-> [done |-> TRUE, fresh |-> snapshot[s].reserves.fresh]]
  <1>1. /\ snapshot' = [snapshot EXCEPT ![s] = row]
        /\ policy' = [status |-> status, reason |-> reason, latest |-> s,
                      manualResumeRequired |-> status = "paused",
                      version |-> policy.version + 1]
        /\ resume' = [r \in Resumes |->
             IF changed /\ status = "paused" /\ ~hold /\ resume[r].status = "pending_approval"
               THEN [resume[r] EXCEPT !.status = "rejected"] ELSE resume[r]]
    BY Zenon DEF CommitSnapshot, PersistPolicyState
  <1>2. worst.severity = "critical" => status = "paused"
    BY DEF PolicyOf, HoldPaused
  <1>3. policy.status = "paused" => status = "paused"
    BY DEF SolvencyInv, PolicyInv, HoldPaused
  <1>4. SnapshotRow(row) /\ row.status = worst.severity
    BY DEF SnapshotRow
  <1> HIDE DEF row, status, worst, hold, reason, changed
  <1>5. /\ policy'.status = status /\ policy'.latest = s
        /\ policy'.version = policy.version + 1 /\ PolicyRow(policy')
    BY <1>1 DEF PolicyRow
  <1>6. SnapshotsOK'
    BY <1>1, <1>4, <1>5 DEF SolvencyInv, SnapshotsOK
  <1>7. snapshot'[s] = row
    BY <1>1 DEF SolvencyInv, SnapshotsOK
  <1>8. GatesFollowEvidence'
    BY <1>2, <1>4, <1>5, <1>7 DEF GatesFollowEvidence, GatesOpen
  <1>9. PolicyInv'
    <2>1. policy'.manualResumeRequired <=> status = "paused"
      BY <1>1, Zenon
    <2> QED
      BY <1>5, <1>8, <2>1 DEF SolvencyInv, PolicyInv
  <1>10. ASSUME NEW r \in Resumes
         PROVE  /\ ResumeRow(resume'[r])
                /\ resume'[r].status = "pending_approval"
                     => Overtaken(resume'[r], policy'.version)
    <2>1. \/ resume'[r] = resume[r]
          \/ resume'[r] = [resume[r] EXCEPT !.status = "rejected"]
      BY <1>1
    <2>2. /\ ResumeRow(resume[r]) /\ policy.version \in Nat
          /\ resume[r].status = "pending_approval" => Overtaken(resume[r], policy.version)
      BY DEF SolvencyInv, ResumesOK, PolicyInv
    <2>3. CASE resume'[r] = resume[r]
      BY <1>5, <2>2, <2>3 DEF Overtaken
    <2>4. CASE resume'[r] = [resume[r] EXCEPT !.status = "rejected"]
      BY <2>2, <2>4 DEF ResumeRow
    <2> QED
      BY <2>1, <2>3, <2>4
  <1>11. ResumesOK'
    BY <1>1, <1>10 DEF ResumesOK
  <1> QED
    BY <1>3, <1>5, <1>6, <1>9, <1>11 DEF SolvencyInv

(* A step of one request: its row is not approved, and if it is pending     *)
(* afterwards, it is overtaken.                                             *)
LEMMA ResumeWritten ==
  ASSUME SolvencyInv, NEW r \in Resumes, NEW row, ResumeRow(row),
         resume' = [resume EXCEPT ![r] = row], UNCHANGED snapshot,
         \/ UNCHANGED policy
         \/ policy' = [policy EXCEPT !.version = @ + 1],
         row.status = "pending_approval" => Overtaken(row, policy'.version)
  PROVE  SolvencyInv' /\ policy'.status = policy.status
  <1>1. /\ policy'.status = policy.status /\ policy'.latest = policy.latest
        /\ policy'.manualResumeRequired = policy.manualResumeRequired
        /\ PolicyRow(policy')
        /\ policy'.version \in {policy.version, policy.version + 1}
    BY DEF SolvencyInv, PolicyInv, PolicyRow
  <1>2. /\ DOMAIN resume' = Resumes /\ resume'[r] = row
        /\ \A q \in Resumes : q # r => resume'[q] = resume[q]
    BY DEF SolvencyInv, ResumesOK
  <1>3. PolicyInv'
    BY <1>1 DEF SolvencyInv, PolicyInv, GatesFollowEvidence, GatesOpen
  <1>4. SnapshotsOK'
    BY <1>1 DEF SolvencyInv, SnapshotsOK
  <1>5. ASSUME NEW q \in Resumes, q # r, resume'[q].status = "pending_approval"
        PROVE  Overtaken(resume'[q], policy'.version)
    BY <1>1, <1>2, <1>5 DEF SolvencyInv, PolicyInv, ResumesOK, Overtaken
  <1>6. ResumesOK'
    BY <1>2, <1>5 DEF SolvencyInv, ResumesOK
  <1> QED
    BY <1>1, <1>3, <1>4, <1>6 DEF SolvencyInv

(* What a step of the solvency part leaves of a pause.                      *)
LEMMA SolvencyStep ==
  ASSUME SolvencyInv, AnsweringOK, SolvencyNext \/ UNCHANGED solvencyVars
  PROVE  SolvencyInv' /\ (policy.status = "paused" => policy'.status = "paused")
  <1> DEFINE Goal == SolvencyInv' /\ (policy.status = "paused" => policy'.status = "paused")
  <1>1. ASSUME UNCHANGED <<policy, snapshot, resume>> PROVE Goal
    BY <1>1 DEF SolvencyInv, PolicyInv, GatesFollowEvidence, GatesOpen, SnapshotsOK, ResumesOK
  <1>2. ASSUME NEW s \in Snapshots,
               BeginSnapshot(s) \/ ReadLiabilities(s) \/ ReadReserves(s) \/ SnapshotFails(s)
        PROVE  Goal
    <2>1. SnapshotRow(snapshot[s]) /\ DOMAIN snapshot = Snapshots
      BY DEF SolvencyInv, SnapshotsOK
    <2>2. ASSUME NEW value PROVE
            /\ SnapshotRow([snapshot[s] EXCEPT !.status = "failed"])
            /\ [snapshot[s] EXCEPT !.status = "failed"].status = "failed"
            /\ SnapshotRow([snapshot[s] EXCEPT !.liabilities = value])
            /\ [snapshot[s] EXCEPT !.liabilities = value].status = snapshot[s].status
            /\ SnapshotRow([snapshot[s] EXCEPT !.reserves = value])
            /\ [snapshot[s] EXCEPT !.reserves = value].status = snapshot[s].status
      BY <2>1 DEF SnapshotRow
    <2> DEFINE failed == [NoSnapshot EXCEPT !.status = "failed", !.made = TRUE]
    <2>3. SnapshotRow(failed) /\ failed.status = "failed"
      <3>1. NoSnapshot \in [status : {"absent"}, made : {FALSE}, liabilities : {NoRead},
                            reserves : {NoRead}]
        BY DEF NoSnapshot
      <3>2. failed \in [status : {"failed"}, made : {TRUE}, liabilities : {NoRead},
                        reserves : {NoRead}]
        BY <3>1
      <3> HIDE DEF failed
      <3> QED
        BY <3>2 DEF SnapshotRow
    <2>4. UNCHANGED <<policy, resume>>
      BY <1>2 DEF BeginSnapshot, ReadLiabilities, ReadReserves, SnapshotFails
    <2>5. PICK row : /\ SnapshotRow(row) /\ row.status = "failed"
                     /\ snapshot' = [snapshot EXCEPT ![s] = row]
      <3>1. CASE BeginSnapshot(s)
        BY <2>2, <3>1 DEF BeginSnapshot
      <3>2. CASE ReadLiabilities(s)
        BY <2>2, <3>2 DEF ReadLiabilities
      <3>3. CASE ReadReserves(s)
        BY <2>2, <3>3 DEF ReadReserves
      <3>4. CASE SnapshotFails(s)
        BY <2>3, <3>4 DEF SnapshotFails
      <3> QED
        BY <1>2, <3>1, <3>2, <3>3, <3>4
    <2>6. SolvencyInv'
      BY <2>4, <2>5, SnapshotWritten
    <2> QED
      BY <2>4, <2>6
  <1>3. ASSUME NEW s \in Snapshots, CommitSnapshot(s) PROVE Goal
    BY <1>3, SnapshotCommitted
  <1>4. ASSUME NEW r \in Resumes, NEW p \in Operators, NEW s \in Snapshots,
               RequestPolicyResume(r, p, s)
        PROVE  Goal
    <2> DEFINE row == [NoResume EXCEPT !.status = "pending_approval", !.by = p, !.snapshot = s,
                                       !.version = policy.version, !.latest = policy.latest]
    <2>1. /\ resume' = [resume EXCEPT ![r] = row] /\ UNCHANGED snapshot
          /\ policy' = [policy EXCEPT !.version = @ + 1]
      BY <1>4 DEF RequestPolicyResume
    <2>2. ResumeRow(row) /\ row.version = policy.version
      <3>1. ResumeRow(NoResume)
        BY DEF NoResume, ResumeRow
      <3> HIDE DEF NoResume
      <3> QED
        BY <3>1 DEF ResumeRow, SolvencyInv, PolicyInv, SnapshotsOK
    <2> HIDE DEF row
    <2>3. policy'.version = policy.version + 1 /\ policy.version \in Nat
      BY <2>1 DEF SolvencyInv, PolicyInv, PolicyRow
    <2>4. Overtaken(row, policy'.version)
      BY <2>2, <2>3 DEF Overtaken
    <2> QED
      BY <2>1, <2>2, <2>4, ResumeWritten
  <1>5. ASSUME NEW r \in Resumes, TimelockEnds(r) PROVE Goal
    <2> DEFINE row == [resume[r] EXCEPT !.eligible = TRUE]
    <2>1. /\ ResumeRow(resume[r])
          /\ resume[r].status = "pending_approval" => Overtaken(resume[r], policy.version)
      BY DEF SolvencyInv, ResumesOK
    <2>2. ResumeRow(row) /\ row.status = resume[r].status /\ row.version = resume[r].version
      BY <2>1 DEF ResumeRow
    <2>3. resume' = [resume EXCEPT ![r] = row] /\ UNCHANGED <<policy, snapshot>>
      BY <1>5 DEF TimelockEnds
    <2> HIDE DEF row
    <2>4. row.status = "pending_approval" => Overtaken(row, policy'.version)
      BY <2>1, <2>2, <2>3 DEF Overtaken
    <2> QED
      BY <2>2, <2>3, <2>4, ResumeWritten
  <1>6. ASSUME NEW r \in Resumes, NEW p \in Operators, NEW d, BeginAnswer(r, p, d) PROVE Goal
    BY <1>1, <1>6 DEF BeginAnswer
  <1>7. ASSUME NEW a \in answering, CommitApprovePolicyResume(a) PROVE Goal
    <2>0. a[1] \in Resumes
      BY DEF AnsweringOK
    <2>1. ~Approvable(a[1])
      <3>1. resume[a[1]].status = "pending_approval"
              => Overtaken(resume[a[1]], policy.version)
        BY <2>0 DEF SolvencyInv, ResumesOK
      <3>2. policy.version \in Nat
        BY DEF SolvencyInv, PolicyInv
      <3> QED
        BY <3>1, <3>2 DEF Approvable, Overtaken
    <2> QED
      BY <1>1, <1>7, <2>1 DEF CommitApprovePolicyResume
  <1>8. ASSUME NEW a \in answering, CommitRejectPolicyResume(a) PROVE Goal
    <2> DEFINE row == [resume[a[1]] EXCEPT !.status = "rejected"]
    <2>0. a[1] \in Resumes
      BY DEF AnsweringOK
    <2>1. ResumeRow(row) /\ row.status = "rejected"
      BY <2>0 DEF SolvencyInv, ResumesOK, ResumeRow
    <2>2. resume' = [resume EXCEPT ![a[1]] = row] /\ UNCHANGED <<policy, snapshot>>
      BY <1>8 DEF CommitRejectPolicyResume
    <2> HIDE DEF row
    <2> QED
      BY <2>0, <2>1, <2>2, ResumeWritten
  <1>9. CASE UNCHANGED solvencyVars
    BY <1>1, <1>9 DEF solvencyVars
  <1>10. CASE WorldChanges
    BY <1>1, <1>10 DEF WorldChanges
  <1> QED
    BY <1>2, <1>3, <1>4, <1>5, <1>6, <1>7, <1>8, <1>9, <1>10 DEF SolvencyNext

(* Whatever is being answered is a request of this system, by one of its operators. *)
LEMMA AnsweringStep ==
  ASSUME AnsweringOK, SolvencyNext \/ UNCHANGED solvencyVars
  PROVE  AnsweringOK'
  <1>1. ASSUME UNCHANGED answering PROVE AnsweringOK'
    BY <1>1 DEF AnsweringOK
  <1>2. ASSUME NEW a \in answering, answering' = answering \ {a} PROVE AnsweringOK'
    BY <1>2 DEF AnsweringOK
  <1>3. ASSUME NEW r \in Resumes, NEW p \in Operators, NEW d \in {"approved", "rejected"},
               BeginAnswer(r, p, d)
        PROVE  AnsweringOK'
    BY <1>3 DEF AnsweringOK, BeginAnswer
  <1> QED
    BY <1>1, <1>2, <1>3
       DEF SolvencyNext, WorldChanges, BeginSnapshot, ReadLiabilities, ReadReserves,
           CommitSnapshot, SnapshotFails, RequestPolicyResume, TimelockEnds,
           CommitApprovePolicyResume, CommitRejectPolicyResume, solvencyVars

(* An open policy without snapshots and requests satisfies both invariants. *)
LEMMA SolvencyInvInit == BackOfficeInit => SolvencyInv /\ AnsweringOK
  <1> SUFFICES ASSUME BackOfficeInit PROVE SolvencyInv /\ AnsweringOK
    OBVIOUS
  <1> USE DEF BackOfficeInit, SolvencyInit
  <1>1. PolicyInv
    BY DEF PolicyInv, PolicyRow, GatesFollowEvidence
  <1>2. SnapshotsOK
    BY DEF SnapshotsOK, SnapshotRow, NoSnapshot
  <1>3. ResumeRow(NoResume) /\ NoResume.status = "absent"
    BY DEF ResumeRow, NoResume
  <1>4. ResumesOK
    BY <1>3 DEF ResumesOK
  <1> QED
    BY <1>1, <1>2, <1>4 DEF SolvencyInv, AnsweringOK

(* Every step keeps the invariants, and none leaves the status paused. *)
LEMMA SolvencyInvStep ==
  SolvencyInv /\ AnsweringOK /\ [BackOfficeNext]_backOfficeVars
    => /\ (SolvencyInv /\ AnsweringOK)'
       /\ policy.status = "paused" => policy'.status = "paused"
  <1>1. [BackOfficeNext]_backOfficeVars => SolvencyNext \/ UNCHANGED solvencyVars
    BY DEF BackOfficeNext, backOfficeVars
  <1> QED
    BY <1>1, SolvencyStep, AnsweringStep

(* The gates stay closed while the policy rests on a critical snapshot:     *)
(* however late a snapshot finishes that read an earlier state of the bank. *)
THEOREM GatesCorrect == BackOfficeSpec => []GatesFollowEvidence
  <1>1. SolvencyInv => GatesFollowEvidence
    BY DEF SolvencyInv, PolicyInv
  <1> QED
    BY <1>1, SolvencyInvInit, SolvencyInvStep, PTL DEF BackOfficeSpec

(* A pause is never lifted: any number of requests, approvals and snapshots *)
(* leave it, because each request is overtaken by its own write.            *)
THEOREM PauseCorrect == BackOfficeSpec => PauseIsNeverLifted
  <1>1. SolvencyInv /\ AnsweringOK /\ [BackOfficeNext]_backOfficeVars
          => [policy.status = "paused" => policy'.status = "paused"]_solvencyVars
    BY SolvencyInvStep
  <1> QED
    BY <1>1, SolvencyInvInit, SolvencyInvStep, PTL DEF BackOfficeSpec, PauseIsNeverLifted

-----------------------------------------------------------------------------
(* Account restrictions: the property itself is inductive, given what each  *)
(* handler's row is.                                                        *)

RestrictionRows ==
  [status : {"absent", "active", "released"},
   decision : {"not_requested", "pending", "approved", "denied"},
   incident : Incidents \cup {0}, case : Cases \cup {0},
   previous : {"none", "active", "restricted"}]

HandlerOK(h) ==
  /\ h.what = "apply" => h.id \in Incidents /\ h.previous \in {"active", "restricted"}
  /\ h.what \in {"request", "approved", "denied"} => h.id \in Restrictions

RestrictionInv ==
  /\ account \in [status : {"active", "restricted"}, by : Incidents \cup {0}]
  /\ restriction \in [Restrictions -> RestrictionRows]
  /\ \A r \in Restrictions : restriction[r].status = "active" => restriction[r].previous # "none"
  /\ \A h \in handler : HandlerOK(h)
  /\ ActiveRestrictionHolds

(* A handler that begins, or ends without a write to what matters here.     *)
LEMMA HandlerBegins ==
  ASSUME RestrictionInv, NEW h, HandlerOK(h), Begin(h)
  PROVE  RestrictionInv'
  BY DEF RestrictionInv, Begin, ActiveRestrictionHolds

(* A handler that gives up or rolls back leaves rows as they are. *)
LEMMA HandlerEnds ==
  ASSUME RestrictionInv, handler' \subseteq handler, UNCHANGED <<account, restriction>>
  PROVE  RestrictionInv'
  BY DEF RestrictionInv, ActiveRestrictionHolds

(* A decision is written to a row that stays what it is.                    *)
LEMMA DecisionWritten ==
  ASSUME RestrictionInv, NEW r \in Restrictions, NEW decision \in {"pending", "denied"},
         restriction' = [restriction EXCEPT ![r].decision = decision],
         handler' \subseteq handler, UNCHANGED account
  PROVE  RestrictionInv'
  <1>1. restriction[r] \in RestrictionRows
    BY DEF RestrictionInv
  <1>2. /\ [restriction[r] EXCEPT !.decision = decision] \in RestrictionRows
        /\ [restriction[r] EXCEPT !.decision = decision].status = restriction[r].status
        /\ [restriction[r] EXCEPT !.decision = decision].incident = restriction[r].incident
        /\ [restriction[r] EXCEPT !.decision = decision].previous = restriction[r].previous
    BY <1>1 DEF RestrictionRows
  <1>3. /\ restriction' \in [Restrictions -> RestrictionRows]
        /\ \A q \in Restrictions : /\ restriction'[q].status = restriction[q].status
                                   /\ restriction'[q].incident = restriction[q].incident
                                   /\ restriction'[q].previous = restriction[q].previous
    BY <1>2 DEF RestrictionInv
  <1> QED
    BY <1>3 DEF RestrictionInv, ActiveRestrictionHolds

(* The partial unique index lets a restriction in only where there is none. *)
LEMMA ApplyStep ==
  ASSUME RestrictionInv, NEW h \in handler, NEW r \in Restrictions, NEW c \in Cases,
         CommitApply(h, r, c)
  PROVE  RestrictionInv'
  <1> DEFINE row == [status |-> "active", decision |-> "not_requested", incident |-> h.id,
                     case |-> c, previous |-> h.previous]
  <1>1. /\ h.what = "apply" /\ NoneActive /\ handler' = handler \ {h}
        /\ restriction' = [restriction EXCEPT ![r] = row]
        /\ account' = [status |-> "restricted", by |-> h.id]
    BY DEF CommitApply
  <1>2. h.id \in Incidents /\ h.previous \in {"active", "restricted"}
    BY <1>1 DEF RestrictionInv, HandlerOK
  <1>3. /\ row \in RestrictionRows /\ row.status = "active"
        /\ row.incident = h.id /\ row.previous = h.previous
    BY <1>2 DEF RestrictionRows
  <1> HIDE DEF row
  <1>4. /\ restriction' \in [Restrictions -> RestrictionRows]
        /\ restriction'[r] = row
        /\ \A q \in Restrictions : q # r => /\ restriction'[q] = restriction[q]
                                            /\ restriction'[q].status # "active"
    BY <1>1, <1>3 DEF RestrictionInv, NoneActive
  <1>5. account' \in [status : {"active", "restricted"}, by : Incidents \cup {0}]
    BY <1>1, <1>2
  <1>6. ActiveRestrictionHolds'
    BY <1>1, <1>3, <1>4 DEF ActiveRestrictionHolds
  <1>7. \A q \in Restrictions : restriction'[q].status = "active"
                                  => restriction'[q].previous # "none"
    BY <1>2, <1>3, <1>4
  <1> QED
    BY <1>1, <1>4, <1>5, <1>6, <1>7 DEF RestrictionInv

(* The release ends the only restriction there is.                          *)
LEMMA ReleaseStep ==
  ASSUME RestrictionInv, NEW h \in handler, CommitApproveRelease(h)
  PROVE  RestrictionInv'
  <1>1. /\ h.what = "approved" /\ handler' = handler \ {h} /\ h.id \in Restrictions
    BY DEF CommitApproveRelease, RestrictionInv, HandlerOK
  <1>2. CASE ~StillReleasable(h.id)
    BY <1>1, <1>2, HandlerEnds DEF CommitApproveRelease
  <1>3. CASE StillReleasable(h.id)
    <2> DEFINE old == restriction[h.id]
               row == [old EXCEPT !.status = "released", !.decision = "approved"]
    <2>1. /\ old \in RestrictionRows /\ old.status = "active" /\ old.previous # "none"
      BY <1>1, <1>3 DEF StillReleasable, RestrictionInv
    <2>2. row \in RestrictionRows /\ row.status = "released"
      BY <2>1 DEF RestrictionRows
    <2>3. /\ restriction' = [restriction EXCEPT ![h.id] = row]
          /\ account' = [account EXCEPT !.status = old.previous]
      BY <1>3 DEF CommitApproveRelease
    <2>4. account' \in [status : {"active", "restricted"}, by : Incidents \cup {0}]
      BY <2>1, <2>3 DEF RestrictionInv, RestrictionRows
    <2>5. \A q \in Restrictions : q # h.id => restriction[q].status # "active"
      BY <1>1, <2>1 DEF RestrictionInv, ActiveRestrictionHolds
    <2> HIDE DEF row, old
    <2>6. /\ restriction' \in [Restrictions -> RestrictionRows]
          /\ \A q \in Restrictions : restriction'[q].status # "active"
      BY <1>1, <2>2, <2>3, <2>5 DEF RestrictionInv
    <2> QED
      BY <1>1, <2>4, <2>6 DEF RestrictionInv, ActiveRestrictionHolds
  <1> QED
    BY <1>2, <1>3

(* Restricting, requesting a release and deciding it keep the invariant. *)
LEMMA RestrictionStep ==
  ASSUME RestrictionInv, RestrictionNext \/ UNCHANGED restrictionVars
  PROVE  RestrictionInv'
  <1>1. ASSUME UNCHANGED <<account, restriction, handler>> PROVE RestrictionInv'
    BY <1>1, HandlerEnds
  <1>2. ASSUME NEW n \in Incidents, OpenIncident(n) PROVE RestrictionInv'
    BY <1>1, <1>2 DEF OpenIncident
  <1>3. ASSUME NEW n \in Incidents, NEW p \in CaseOperators,
               \/ StartOversightIncident(n, p)
               \/ ResolveOversightIncident(n, p) \/ DismissOversightIncident(n, p)
        PROVE  RestrictionInv'
    <2>1. ASSUME NEW to, BeginMoveIncident(n, to, p) PROVE RestrictionInv'
      BY <2>1, HandlerBegins DEF BeginMoveIncident, HandlerOK
    <2> QED
      BY <1>3, <2>1
         DEF StartOversightIncident, ResolveOversightIncident, DismissOversightIncident
  <1>4. ASSUME NEW c \in Cases, NEW p \in CaseOperators,
               StartReviewCase(c, p) \/ ResolveReviewCase(c, p) \/ DismissReviewCase(c, p)
        PROVE  RestrictionInv'
    <2>1. ASSUME NEW to, BeginMoveCase(c, to, p) PROVE RestrictionInv'
      BY <2>1, HandlerBegins DEF BeginMoveCase, HandlerOK
    <2> QED
      BY <1>4, <2>1 DEF StartReviewCase, ResolveReviewCase, DismissReviewCase
  <1>5. ASSUME NEW n \in Incidents, NEW p \in CaseOperators, BeginApply(n, p)
        PROVE  RestrictionInv'
    <2>1. account.status \in {"active", "restricted"}
      BY DEF RestrictionInv
    <2> QED
      BY <1>5, <2>1, HandlerBegins DEF BeginApply, HandlerOK
  <1>6. ASSUME NEW h \in handler, CommitMoveIncident(h) \/ CommitMoveCase(h)
        PROVE  RestrictionInv'
    BY <1>6, HandlerEnds DEF CommitMoveIncident, CommitMoveCase
  <1>7. ASSUME NEW h \in handler, NEW r \in Restrictions, NEW c \in Cases, CommitApply(h, r, c)
        PROVE  RestrictionInv'
    BY <1>7, ApplyStep
  <1>8. CASE PlaceAccountRestriction
    <2>1. account' = [account EXCEPT !.status = "restricted"]
      BY <1>8 DEF PlaceAccountRestriction
    <2>2. /\ account' \in [status : {"active", "restricted"}, by : Incidents \cup {0}]
          /\ account.status = "restricted" => account' = account
      BY <2>1 DEF RestrictionInv
    <2>3. ActiveRestrictionHolds'
      BY <1>8, <2>2 DEF RestrictionInv, ActiveRestrictionHolds, PlaceAccountRestriction
    <2> QED
      BY <1>8, <2>2, <2>3 DEF RestrictionInv, PlaceAccountRestriction
  <1>9. ASSUME NEW r \in Restrictions, BeginRequestRelease(r) PROVE RestrictionInv'
    BY <1>9, HandlerBegins DEF BeginRequestRelease, HandlerOK
  <1>10. ASSUME NEW r \in Restrictions, NEW d \in {"approved", "denied"},
                BeginDecideRelease(r, d)
         PROVE  RestrictionInv'
    BY <1>10, HandlerBegins DEF BeginDecideRelease, HandlerOK
  <1>11. ASSUME NEW h \in handler, CommitRequestRelease(h) \/ CommitDenyRelease(h)
         PROVE  RestrictionInv'
    <2>1. /\ h.id \in Restrictions /\ handler' \subseteq handler /\ UNCHANGED account
          /\ \/ UNCHANGED restriction
             \/ \E decision \in {"pending", "denied"} :
                  restriction' = [restriction EXCEPT ![h.id].decision = decision]
      BY <1>11 DEF RestrictionInv, HandlerOK, CommitRequestRelease, CommitDenyRelease
    <2> QED
      BY <2>1, HandlerEnds, DecisionWritten
  <1>12. ASSUME NEW h \in handler, CommitApproveRelease(h) PROVE RestrictionInv'
    BY <1>12, ReleaseStep
  <1>13. CASE UNCHANGED restrictionVars
    BY <1>1, <1>13 DEF restrictionVars
  <1> QED
    BY <1>2, <1>3, <1>4, <1>5, <1>6, <1>7, <1>8, <1>9, <1>10, <1>11, <1>12, <1>13
       DEF RestrictionNext

(* However many handlers apply, request and decide at the same time, at     *)
(* most one restriction is in force, and the account is restricted for it.  *)
THEOREM RestrictionCorrect == BackOfficeSpec => []ActiveRestrictionHolds
  <1>1. BackOfficeInit => RestrictionInv
    BY DEF BackOfficeInit, RestrictionInit, RestrictionInv, RestrictionRows, NoRestriction,
           ActiveRestrictionHolds
  <1>2. RestrictionInv /\ [BackOfficeNext]_backOfficeVars => RestrictionInv'
    <2>1. [BackOfficeNext]_backOfficeVars => RestrictionNext \/ UNCHANGED restrictionVars
      BY DEF BackOfficeNext, backOfficeVars
    <2> QED
      BY <2>1, RestrictionStep
  <1>3. RestrictionInv => ActiveRestrictionHolds
    BY DEF RestrictionInv
  <1> QED
    BY <1>1, <1>2, <1>3, PTL DEF BackOfficeSpec

-----------------------------------------------------------------------------
(* Anchors: a transaction carries the same anchor from its broadcast on,    *)
(* and whoever knows it, a row, a worker or a record on its way, knows it   *)
(* for that anchor.                                                         *)

AnchorRows == [status : {"absent", "requested", "submitted", "confirmed", "failed"},
               tx : AnchorTxs \cup {"none"}]
AnchorTxRows == [of : Anchors \cup {"none"},
                 fate : {"unsent", "pending", "succeeded", "reverted"}]
AnchorWorkerRows == [at : {"idle", "listed", "broadcast", "failing", "watching"},
                     anchor : Anchors \cup {"none"}, tx : AnchorTxs \cup {"none"}]
AnchorRecords == [anchor : Anchors, tx : AnchorTxs \cup {"none"},
                  to : {"submitted", "confirmed", "failed"}]

Carries(t, a) == t \in AnchorTxs /\ a \in Anchors /\ anchorTx[t].of = a
Anchored(t, a) == Carries(t, a) /\ anchorTx[t].fate = "succeeded"

AnchorRowOK(a, row) ==
  /\ row.tx # "none" => Carries(row.tx, a)
  /\ row.status = "confirmed" => Anchored(row.tx, a)
AnchorWorkerOK(row) ==
  /\ row.at # "idle" => row.anchor \in Anchors
  /\ row.at \in {"broadcast", "watching"} => Carries(row.tx, row.anchor)
AnchorRecordOK(r) ==
  /\ r.to = "submitted" => Carries(r.tx, r.anchor)
  /\ r.to = "confirmed" => Anchored(r.tx, r.anchor)

AnchorInv ==
  /\ anchor \in [Anchors -> AnchorRows]
  /\ anchorTx \in [AnchorTxs -> AnchorTxRows]
  /\ anchorWorker \in [AnchorWorkers -> AnchorWorkerRows]
  /\ recording \subseteq AnchorRecords
  /\ \A t \in AnchorTxs : anchorTx[t].fate = "unsent" => anchorTx[t].of = "none"
  /\ \A a \in Anchors : AnchorRowOK(a, anchor[a])
  /\ \A w \in AnchorWorkers : AnchorWorkerOK(anchorWorker[w])
  /\ \A r \in recording : AnchorRecordOK(r)

(* What is known of a transaction goes on to hold.                          *)
LEMMA KnowledgeKept ==
  ASSUME \A t \in AnchorTxs, a \in Anchors :
           /\ Carries(t, a) => Carries(t, a)'
           /\ Anchored(t, a) => Anchored(t, a)'
  PROVE  /\ \A a, row : AnchorRowOK(a, row) => AnchorRowOK(a, row)'
         /\ \A row : AnchorWorkerOK(row) => AnchorWorkerOK(row)'
         /\ \A r : AnchorRecordOK(r) => AnchorRecordOK(r)'
  <1>1. ASSUME NEW t, NEW a, Carries(t, a) PROVE Carries(t, a)'
    BY <1>1 DEF Carries
  <1>2. ASSUME NEW t, NEW a, Anchored(t, a) PROVE Anchored(t, a)'
    BY <1>2 DEF Anchored, Carries
  <1>3. ASSUME NEW a, NEW row, AnchorRowOK(a, row) PROVE AnchorRowOK(a, row)'
    BY <1>1, <1>2, <1>3 DEF AnchorRowOK
  <1>4. ASSUME NEW row, AnchorWorkerOK(row) PROVE AnchorWorkerOK(row)'
    BY <1>1, <1>4 DEF AnchorWorkerOK
  <1>5. ASSUME NEW r, AnchorRecordOK(r) PROVE AnchorRecordOK(r)'
    BY <1>1, <1>2, <1>5 DEF AnchorRecordOK
  <1> QED
    BY <1>3, <1>4, <1>5

(* What is said of rows, workers and records depends on the chain alone. *)
LEMMA SameTransactions ==
  ASSUME UNCHANGED anchorTx
  PROVE  /\ \A a, row : AnchorRowOK(a, row) => AnchorRowOK(a, row)'
         /\ \A row : AnchorWorkerOK(row) => AnchorWorkerOK(row)'
         /\ \A r : AnchorRecordOK(r) => AnchorRecordOK(r)'
  BY KnowledgeKept DEF Anchored, Carries

(* A worker that comes to do something it knows enough for.                 *)
LEMMA AnchorWorkerMoves ==
  ASSUME AnchorInv, UNCHANGED <<anchor, anchorTx, recording>>,
         NEW w \in AnchorWorkers, NEW row \in AnchorWorkerRows, AnchorWorkerOK(row),
         anchorWorker' = [anchorWorker EXCEPT ![w] = row]
  PROVE  AnchorInv'
  <1>1. /\ anchorWorker' \in [AnchorWorkers -> AnchorWorkerRows]
        /\ \A v \in AnchorWorkers : AnchorWorkerOK(anchorWorker'[v])
    BY DEF AnchorInv
  <1>2. \A v \in AnchorWorkers : AnchorWorkerOK(anchorWorker[v])'
    BY <1>1, SameTransactions
  <1>3. \A a \in Anchors : AnchorRowOK(a, anchor[a])'
    BY SameTransactions DEF AnchorInv
  <1>4. \A r \in recording' : AnchorRecordOK(r)'
    BY SameTransactions DEF AnchorInv
  <1> QED
    BY <1>1, <1>2, <1>3, <1>4 DEF AnchorInv

(* A handler that has read the row is right about its transaction.          *)
LEMMA RecordBegins ==
  ASSUME AnchorInv, UNCHANGED <<anchor, anchorTx>>,
         NEW a \in Anchors, NEW t \in AnchorTxs \cup {"none"},
         NEW to \in {"submitted", "confirmed", "failed"},
         to = "submitted" => Carries(t, a), to = "confirmed" => Anchored(t, a),
         BeginRecord(a, to, t),
         \/ UNCHANGED anchorWorker
         \/ \E w \in AnchorWorkers : anchorWorker' = [anchorWorker EXCEPT ![w] = NothingListed]
  PROVE  AnchorInv'
  <1> DEFINE record == [anchor |-> a, tx |-> t, to |-> to]
  <1>1. record \in AnchorRecords /\ AnchorRecordOK(record)
    BY DEF AnchorRecords, AnchorRecordOK
  <1>2. recording' \in {recording, recording \cup {record}}
    BY DEF BeginRecord
  <1> HIDE DEF record
  <1>3. recording' \subseteq AnchorRecords /\ \A r \in recording' : AnchorRecordOK(r)
    BY <1>1, <1>2 DEF AnchorInv
  <1>4. \A r \in recording' : AnchorRecordOK(r)'
    BY <1>3, SameTransactions
  <1>5. NothingListed \in AnchorWorkerRows /\ NothingListed.at = "idle"
    BY DEF NothingListed, AnchorWorkerRows
  <1>6. /\ anchorWorker' \in [AnchorWorkers -> AnchorWorkerRows]
        /\ \A v \in AnchorWorkers : AnchorWorkerOK(anchorWorker'[v])
    <2>1. AnchorWorkerOK(NothingListed)
      BY <1>5 DEF AnchorWorkerOK
    <2> QED
      BY <1>5, <2>1 DEF AnchorInv
  <1>7. \A v \in AnchorWorkers : AnchorWorkerOK(anchorWorker[v])'
    BY <1>6, SameTransactions
  <1>8. \A b \in Anchors : AnchorRowOK(b, anchor[b])'
    BY SameTransactions DEF AnchorInv
  <1> QED
    BY <1>3, <1>4, <1>6, <1>7, <1>8 DEF AnchorInv

(* A handler that refused to record.                                        *)
LEMMA RecordRefused ==
  ASSUME AnchorInv, UNCHANGED <<anchor, anchorTx, recording>>,
         NEW w \in AnchorWorkers, anchorWorker' = [anchorWorker EXCEPT ![w] = NothingListed]
  PROVE  AnchorInv'
  <1>1. NothingListed \in AnchorWorkerRows /\ AnchorWorkerOK(NothingListed)
    BY DEF NothingListed, AnchorWorkerRows, AnchorWorkerOK
  <1> QED
    BY <1>1, AnchorWorkerMoves

(* The record of a submission, a confirmation or a failure, written by id,
   writes what the chain said when it was read, and the chain does not take it back. *)
LEMMA CommitRecordStep ==
  ASSUME AnchorInv, NEW r \in recording, CommitRecord(r)
  PROVE  AnchorInv'
  <1> DEFINE a == r.anchor
             row == [anchor[a] EXCEPT !.status = r.to,
                                      !.tx = IF r.to = "failed" THEN @ ELSE r.tx]
  <1>1. r \in AnchorRecords /\ AnchorRecordOK(r) /\ a \in Anchors
    BY DEF AnchorInv, AnchorRecords
  <1>2. anchor[a] \in AnchorRows /\ AnchorRowOK(a, anchor[a])
    BY <1>1 DEF AnchorInv
  <1>3. /\ row \in AnchorRows /\ row.status = r.to
        /\ row.tx = IF r.to = "failed" THEN anchor[a].tx ELSE r.tx
    BY <1>1, <1>2 DEF AnchorRows, AnchorRecords
  <1>4. anchor' = [anchor EXCEPT ![a] = row] /\ recording' = recording \ {r}
        /\ UNCHANGED <<anchorTx, anchorWorker>>
    BY DEF CommitRecord
  <1> HIDE DEF row
  <1>5. AnchorRowOK(a, row)
    BY <1>1, <1>2, <1>3 DEF AnchorRecordOK, AnchorRowOK, AnchorRecords, Anchored
  <1>6. /\ anchor' \in [Anchors -> AnchorRows]
        /\ \A b \in Anchors : AnchorRowOK(b, anchor'[b])
    BY <1>1, <1>3, <1>4, <1>5 DEF AnchorInv
  <1>7. \A b \in Anchors : AnchorRowOK(b, anchor[b])'
    BY <1>4, <1>6, SameTransactions
  <1>8. \A w \in AnchorWorkers : AnchorWorkerOK(anchorWorker[w])'
    BY <1>4, SameTransactions DEF AnchorInv
  <1>9. \A q \in recording' : AnchorRecordOK(q)'
    BY <1>4, SameTransactions DEF AnchorInv
  <1> QED
    BY <1>4, <1>6, <1>7, <1>8, <1>9 DEF AnchorInv

(* An unsent transaction is nobody's, so that no one's knowledge changes.   *)
LEMMA AnchorBroadcastStep ==
  ASSUME AnchorInv, NEW w \in AnchorWorkers, NEW t \in AnchorTxs, Broadcast(w, t)
  PROVE  AnchorInv'
  <1> DEFINE a == anchorWorker[w].anchor
             row == [anchorWorker[w] EXCEPT !.at = "broadcast", !.tx = t]
  <1>1. a \in Anchors /\ anchorTx[t].of = "none"
    BY DEF AnchorInv, AnchorWorkerOK, Broadcast
  <1>2. /\ anchorTx' = [anchorTx EXCEPT ![t] = [of |-> a, fate |-> "pending"]]
        /\ anchorWorker' = [anchorWorker EXCEPT ![w] = row]
        /\ UNCHANGED <<anchor, recording>>
    BY DEF Broadcast
  <1>3. /\ anchorTx' \in [AnchorTxs -> AnchorTxRows]
        /\ anchorTx'[t].of = a /\ anchorTx'[t].fate = "pending"
        /\ \A u \in AnchorTxs : u # t => anchorTx'[u] = anchorTx[u]
    BY <1>1, <1>2 DEF AnchorInv, AnchorTxRows
  <1>4. \A u \in AnchorTxs, b \in Anchors :
          /\ Carries(u, b) => u # t /\ Carries(u, b)'
          /\ Anchored(u, b) => Anchored(u, b)'
    BY <1>1, <1>3, AnchorAssumption DEF AnchorAssumption, Carries, Anchored
  <1>5. /\ row \in AnchorWorkerRows /\ row.at = "broadcast" /\ row.tx = t /\ row.anchor = a
    BY <1>1 DEF AnchorInv, AnchorWorkerRows
  <1> HIDE DEF row, a
  <1>6. /\ anchorWorker' \in [AnchorWorkers -> AnchorWorkerRows] /\ anchorWorker'[w] = row
        /\ \A v \in AnchorWorkers : v # w => anchorWorker'[v] = anchorWorker[v]
    BY <1>2, <1>5 DEF AnchorInv
  <1>7. AnchorWorkerOK(anchorWorker[w])'
    BY <1>1, <1>3, <1>5, <1>6 DEF AnchorWorkerOK, Carries
  <1>8. ASSUME NEW v \in AnchorWorkers, v # w PROVE AnchorWorkerOK(anchorWorker[v])'
    <2>1. AnchorWorkerOK(anchorWorker'[v])
      BY <1>6, <1>8 DEF AnchorInv
    <2> QED
      BY <1>4, <2>1, KnowledgeKept
  <1>9. \A b \in Anchors : AnchorRowOK(b, anchor[b])'
    BY <1>2, <1>4, KnowledgeKept DEF AnchorInv
  <1>10. \A r \in recording' : AnchorRecordOK(r)'
    BY <1>2, <1>4, KnowledgeKept DEF AnchorInv
  <1>11. \A u \in AnchorTxs : anchorTx'[u].fate = "unsent" => anchorTx'[u].of = "none"
    BY <1>3 DEF AnchorInv
  <1> QED
    BY <1>2, <1>3, <1>6, <1>7, <1>8, <1>9, <1>10, <1>11 DEF AnchorInv

(* Mining a transaction only adds receipts. *)
LEMMA AnchorMinedStep ==
  ASSUME AnchorInv, NEW t \in AnchorTxs, Mined(t)
  PROVE  AnchorInv'
  <1>1. anchorTx[t] \in AnchorTxRows /\ anchorTx[t].fate = "pending"
    BY DEF AnchorInv, Mined
  <1>2. PICK fate \in {"reverted", "succeeded"} :
          anchorTx' = [anchorTx EXCEPT ![t].fate = fate]
    BY DEF Mined
  <1>3. /\ [anchorTx[t] EXCEPT !.fate = fate] \in AnchorTxRows
        /\ [anchorTx[t] EXCEPT !.fate = fate].of = anchorTx[t].of
        /\ [anchorTx[t] EXCEPT !.fate = fate].fate = fate
    BY <1>1 DEF AnchorTxRows
  <1>4. /\ anchorTx' \in [AnchorTxs -> AnchorTxRows]
        /\ anchorTx'[t].of = anchorTx[t].of /\ anchorTx'[t].fate = fate
        /\ \A u \in AnchorTxs : u # t => anchorTx'[u] = anchorTx[u]
    BY <1>2, <1>3 DEF AnchorInv
  <1>5. \A u \in AnchorTxs, b \in Anchors :
          /\ Carries(u, b) => Carries(u, b)'
          /\ Anchored(u, b) => Anchored(u, b)'
    BY <1>1, <1>4 DEF Carries, Anchored
  <1>6. UNCHANGED <<anchor, anchorWorker, recording>>
    BY DEF Mined
  <1>7. /\ \A b \in Anchors : AnchorRowOK(b, anchor[b])'
        /\ \A w \in AnchorWorkers : AnchorWorkerOK(anchorWorker[w])'
        /\ \A r \in recording' : AnchorRecordOK(r)'
    BY <1>5, <1>6, KnowledgeKept DEF AnchorInv
  <1>8. \A u \in AnchorTxs : anchorTx'[u].fate = "unsent" => anchorTx'[u].of = "none"
    BY <1>2, <1>4 DEF AnchorInv
  <1> QED
    BY <1>4, <1>6, <1>7, <1>8 DEF AnchorInv

(* Every step of operators, workers and the chain keeps the invariant of anchors. *)
LEMMA AnchorStep ==
  ASSUME AnchorInv, AnchorNext \/ UNCHANGED anchorVars
  PROVE  AnchorInv'
  <1>1. ASSUME UNCHANGED <<anchorTx, anchorWorker, recording>>,
               anchor' \in [Anchors -> AnchorRows],
               \A a \in Anchors : AnchorRowOK(a, anchor'[a])
        PROVE  AnchorInv'
    <2>1. /\ \A b \in Anchors : AnchorRowOK(b, anchor[b])'
          /\ \A w \in AnchorWorkers : AnchorWorkerOK(anchorWorker[w])'
          /\ \A r \in recording' : AnchorRecordOK(r)'
      BY <1>1, SameTransactions DEF AnchorInv
    <2> QED
      BY <1>1, <2>1 DEF AnchorInv
  <1>2. ASSUME NEW a \in Anchors, RequestReportAnchor(a) PROVE AnchorInv'
    <2>1. anchor' = [anchor EXCEPT ![a].status = "requested"]
      BY <1>2 DEF RequestReportAnchor
    <2>2. ASSUME NEW b \in Anchors PROVE anchor'[b] \in AnchorRows /\ AnchorRowOK(b, anchor'[b])
      BY <2>1 DEF AnchorInv, AnchorRows, AnchorRowOK
    <2> QED
      BY <1>1, <1>2, <2>1, <2>2 DEF AnchorInv, RequestReportAnchor
  <1>3. ASSUME NEW a \in Anchors, NEW w \in AnchorWorkers, ListRequested(w, a)
        PROVE  AnchorInv'
    <2> DEFINE row == [NothingListed EXCEPT !.at = "listed", !.anchor = a]
    <2>1. /\ row \in AnchorWorkerRows /\ row.at = "listed" /\ row.anchor = a
      BY DEF NothingListed, AnchorWorkerRows
    <2>2. /\ anchorWorker' = [anchorWorker EXCEPT ![w] = row]
          /\ UNCHANGED <<anchor, anchorTx, recording>>
      BY <1>3 DEF ListRequested
    <2> HIDE DEF row
    <2>3. AnchorWorkerOK(row)
      BY <2>1 DEF AnchorWorkerOK
    <2> QED
      BY <2>1, <2>2, <2>3, AnchorWorkerMoves
  <1>4. ASSUME NEW a \in Anchors, NEW w \in AnchorWorkers, ListSubmitted(w, a)
        PROVE  AnchorInv'
    <2> DEFINE row == [at |-> "watching", anchor |-> a, tx |-> anchor[a].tx]
    <2>1. anchor[a] \in AnchorRows /\ Carries(anchor[a].tx, a)
      BY <1>4 DEF AnchorInv, AnchorRowOK, ListSubmitted
    <2>2. row \in AnchorWorkerRows /\ AnchorWorkerOK(row)
      BY <2>1 DEF AnchorRows, AnchorWorkerRows, AnchorWorkerOK
    <2>3. /\ anchorWorker' = [anchorWorker EXCEPT ![w] = row]
          /\ UNCHANGED <<anchor, anchorTx, recording>>
      BY <1>4 DEF ListSubmitted
    <2> QED
      BY <2>2, <2>3, AnchorWorkerMoves
  <1>5. ASSUME NEW a \in Anchors, RecordReportAnchorFailed(a) PROVE AnchorInv'
    BY <1>5, RecordBegins DEF RecordReportAnchorFailed
  <1>6. ASSUME NEW a \in Anchors, NEW t \in AnchorTxs, RecordReportAnchorSubmitted(a, t)
        PROVE  AnchorInv'
    <2>1. Carries(t, a) /\ BeginRecord(a, "submitted", t)
          /\ UNCHANGED <<anchor, anchorTx, anchorWorker>>
      BY <1>6 DEF RecordReportAnchorSubmitted, Carries
    <2> QED
      BY <2>1, RecordBegins
  <1>7. ASSUME NEW a \in Anchors, NEW t \in AnchorTxs, RecordReportAnchorConfirmed(a, t)
        PROVE  AnchorInv'
    <2>1. Anchored(t, a) /\ BeginRecord(a, "confirmed", t)
          /\ UNCHANGED <<anchor, anchorTx, anchorWorker>>
      BY <1>7 DEF RecordReportAnchorConfirmed, Anchored, Carries
    <2> QED
      BY <2>1, RecordBegins
  <1>8. ASSUME NEW w \in AnchorWorkers, RecordBroadcast(w) PROVE AnchorInv'
    <2> DEFINE a == anchorWorker[w].anchor
               t == anchorWorker[w].tx
    <2>1. Carries(t, a)
      BY <1>8 DEF AnchorInv, AnchorWorkerOK, RecordBroadcast
    <2>2. a \in Anchors /\ t \in AnchorTxs
      BY <2>1 DEF Carries
    <2>3. /\ BeginRecord(a, "submitted", t) /\ UNCHANGED <<anchor, anchorTx>>
          /\ anchorWorker' = [anchorWorker EXCEPT ![w] = NothingListed]
      BY <1>8 DEF RecordBroadcast
    <2> HIDE DEF a, t
    <2> QED
      BY <2>1, <2>2, <2>3, RecordBegins
  <1>9. ASSUME NEW w \in AnchorWorkers, BroadcastFails(w) PROVE AnchorInv'
    <2> DEFINE row == [anchorWorker[w] EXCEPT !.at = "failing"]
    <2>1. anchorWorker[w] \in AnchorWorkerRows /\ anchorWorker[w].anchor \in Anchors
      BY <1>9 DEF AnchorInv, AnchorWorkerOK, BroadcastFails
    <2>2. row \in AnchorWorkerRows /\ row.at = "failing" /\ row.anchor \in Anchors
      BY <2>1 DEF AnchorWorkerRows
    <2>3. /\ anchorWorker' = [anchorWorker EXCEPT ![w] = row]
          /\ UNCHANGED <<anchor, anchorTx, recording>>
      BY <1>9 DEF BroadcastFails
    <2> HIDE DEF row
    <2>4. AnchorWorkerOK(row)
      BY <2>2 DEF AnchorWorkerOK
    <2> QED
      BY <2>2, <2>3, <2>4, AnchorWorkerMoves
  <1>10. ASSUME NEW w \in AnchorWorkers, RecordBroadcastFailure(w) PROVE AnchorInv'
    <2> DEFINE a == anchorWorker[w].anchor
    <2>1. a \in Anchors
      BY <1>10 DEF AnchorInv, AnchorWorkerOK, RecordBroadcastFailure
    <2>2. /\ BeginRecord(a, "failed", "none") \/ UNCHANGED recording
          /\ UNCHANGED <<anchor, anchorTx>>
          /\ anchorWorker' = [anchorWorker EXCEPT ![w] = NothingListed]
      BY <1>10 DEF RecordBroadcastFailure
    <2> HIDE DEF a
    <2> QED
      BY <2>1, <2>2, RecordBegins, RecordRefused
  <1>11. ASSUME NEW w \in AnchorWorkers, ReportReceipt(w) PROVE AnchorInv'
    <2> DEFINE a == anchorWorker[w].anchor
               t == anchorWorker[w].tx
    <2>1. Carries(t, a)
      BY <1>11 DEF AnchorInv, AnchorWorkerOK, ReportReceipt
    <2>2. a \in Anchors /\ t \in AnchorTxs
      BY <2>1 DEF Carries
    <2>3. /\ UNCHANGED <<anchor, anchorTx>>
          /\ anchorWorker' = [anchorWorker EXCEPT ![w] = NothingListed]
          /\ \/ BeginRecord(a, "confirmed", t) /\ Anchored(t, a)
             \/ BeginRecord(a, "failed", "none")
             \/ UNCHANGED recording
      BY <1>11, <2>1 DEF ReportReceipt, ReceiptSucceeded, Anchored
    <2> HIDE DEF a, t
    <2> QED
      BY <2>1, <2>2, <2>3, RecordBegins, RecordRefused
  <1>12. ASSUME NEW w \in AnchorWorkers, NEW t \in AnchorTxs, Broadcast(w, t)
         PROVE  AnchorInv'
    BY <1>12, AnchorBroadcastStep
  <1>13. ASSUME NEW t \in AnchorTxs, Mined(t) PROVE AnchorInv'
    BY <1>13, AnchorMinedStep
  <1>14. ASSUME NEW r \in recording, CommitRecord(r) PROVE AnchorInv'
    BY <1>14, CommitRecordStep
  <1>15. CASE UNCHANGED anchorVars
    BY <1>1, <1>15 DEF AnchorInv, anchorVars
  <1> QED
    BY <1>2, <1>3, <1>4, <1>5, <1>6, <1>7, <1>8, <1>9, <1>10, <1>11, <1>12, <1>13, <1>14,
       <1>15 DEF AnchorNext

(* A report is shown as anchored only when the registry has it by the       *)
(* transaction that its anchor names, in whatever order workers' and        *)
(* operators' records are written.                                          *)
THEOREM AnchorCorrect == BackOfficeSpec => []ConfirmedIsAnchored
  <1>1. BackOfficeInit => AnchorInv
    BY DEF BackOfficeInit, AnchorInit, AnchorInv, AnchorRows, AnchorTxRows, AnchorWorkerRows,
           NothingListed, NoTx, AnchorRowOK, AnchorWorkerOK
  <1>2. AnchorInv /\ [BackOfficeNext]_backOfficeVars => AnchorInv'
    <2>1. [BackOfficeNext]_backOfficeVars => AnchorNext \/ UNCHANGED anchorVars
      BY DEF BackOfficeNext, backOfficeVars
    <2> QED
      BY <2>1, AnchorStep
  <1>3. AnchorInv => ConfirmedIsAnchored
    BY AnchorAssumption
       DEF AnchorAssumption, AnchorInv, AnchorRowOK, Anchored, Carries, ConfirmedIsAnchored
  <1> QED
    BY <1>1, <1>2, <1>3, PTL DEF BackOfficeSpec

-----------------------------------------------------------------------------
(* Approvals of releases: links are written at both ends in one             *)
(* transaction, and the unique index keeps the second of two rebinds from   *)
(* overwriting the first one's.                                             *)

LinkOK(a) ==
  /\ approval[a].status = "absent" => approval[a].supersedes = 0 /\ approval[a].supersededBy = 0
  /\ approval[a].status = "superseded" => approval[a].supersededBy # 0
  /\ approval[a].supersedes # 0 =>
       /\ approval[approval[a].supersedes].status # "absent"
       /\ approval[approval[a].supersedes].supersededBy = a
  /\ approval[a].supersededBy # 0 =>
       /\ a < approval[a].supersededBy /\ approval[a].status # "pending_approval"
       /\ approval[approval[a].supersededBy].status # "absent"
       /\ approval[approval[a].supersededBy].supersedes = a

InOrder ==
  \A a, b \in Approvals :
    a < b /\ approval[b].status # "absent" => approval[a].status # "absent"

LineageInv == (\A a \in Approvals : LinkOK(a)) /\ InOrder

(* Approvals are numbered from one. *)
LEMMA ApprovalNumbers == Approvals \subseteq Nat \ {0}
  BY ReleaseAssumption DEF ReleaseAssumption, Approvals

(* A row that comes into being where the next one is expected, linked to    *)
(* nothing newer, while the others keep their links and their existence.    *)
LEMMA NextApprovalInOrder ==
  ASSUME InOrder, NEW b \in Approvals, NextApproval(b),
         approval'[b].status # "absent",
         \A a \in Approvals : a # b =>
           (approval'[a].status = "absent") <=> (approval[a].status = "absent")
  PROVE  InOrder'
  <1>1. ASSUME NEW a \in Approvals, NEW c \in Approvals, a < c,
               approval'[c].status # "absent"
        PROVE  approval'[a].status # "absent"
    <2>1. CASE a = b
      BY <2>1
    <2>2. CASE a # b /\ c = b
      BY <1>1, <2>2 DEF NextApproval
    <2>3. CASE a # b /\ c # b
      BY <1>1, <2>3 DEF InOrder
    <2> QED
      BY <2>1, <2>2, <2>3
  <1> QED
    BY <1>1 DEF InOrder

(* A new request for approval starts a lineage of its own. *)
LEMMA LineageRequestStep ==
  ASSUME ApprovalInv, LineageInv, NEW h \in review, NEW b \in Approvals,
         CommitRequestApproval(h, b)
  PROVE  LineageInv'
  <1> DEFINE row == [NoApproval EXCEPT !.status = "pending_approval", !.by = h.operator,
                                       !.pack = h.pack]
  <1>1. /\ approval[b].status = "absent" /\ NextApproval(b)
        /\ approval' = [approval EXCEPT ![b] = row]
    BY DEF CommitRequestApproval, NextApproval
  <1>2. /\ row.status = "pending_approval" /\ row.supersedes = 0 /\ row.supersededBy = 0
    BY DEF NoApproval
  <1> HIDE DEF row
  <1>3. /\ approval'[b] = row
        /\ \A a \in Approvals : a # b => approval'[a] = approval[a]
    BY <1>1 DEF ApprovalInv
  <1>4. LinkOK(b)'
    BY <1>2, <1>3 DEF LinkOK
  <1>5. ASSUME NEW a \in Approvals, a # b PROVE LinkOK(a)'
    <2>1. /\ LinkOK(a) /\ approval'[a] = approval[a]
          /\ approval[a].supersedes \in Approvals \cup {0}
          /\ approval[a].supersededBy \in Approvals \cup {0}
      BY <1>3, <1>5 DEF LineageInv, ApprovalInv, ApprovalRows
    <2>2. approval[a].supersedes # b /\ approval[a].supersededBy # b
      BY <1>1, <2>1, ApprovalNumbers DEF LinkOK
    <2> QED
      BY <1>3, <2>1, <2>2 DEF LinkOK
  <1>6. InOrder'
    BY <1>1, <1>2, <1>3, NextApprovalInOrder DEF LineageInv
  <1> QED
    BY <1>4, <1>5, <1>6 DEF LineageInv

(* Deciding keeps the links: a row that was superseded meanwhile has its    *)
(* successor, and is not pending again.                                     *)
LEMMA LineageDecideStep ==
  ASSUME ApprovalInv, LineageInv, NEW h \in review, NEW approver,
         h.what \in {"approved", "rejected"}, Decide(h, approver)
  PROVE  LineageInv'
  <1>1. /\ h.id \in Approvals /\ approval[h.id].status # "absent"
        /\ approval[h.id] \in ApprovalRows
    BY DEF ApprovalInv, Requests, Decisions, Rebinds
  <1>2. approval' = [approval EXCEPT ![h.id].status = h.what, ![h.id].approver = approver]
    BY DEF Decide
  <1>3. /\ \A a \in Approvals : a # h.id => approval'[a] = approval[a]
        /\ approval'[h.id].status = h.what
        /\ approval'[h.id].supersedes = approval[h.id].supersedes
        /\ approval'[h.id].supersededBy = approval[h.id].supersededBy
    BY <1>1, <1>2 DEF ApprovalInv, ApprovalRows
  <1>4. \A a \in Approvals :
          /\ approval'[a].supersedes = approval[a].supersedes
          /\ approval'[a].supersededBy = approval[a].supersededBy
          /\ (approval'[a].status = "absent") <=> (approval[a].status = "absent")
          /\ approval'[a].status \in {"pending_approval", "superseded"}
               => approval'[a].status = approval[a].status
    BY <1>1, <1>3
  <1>5. ASSUME NEW a \in Approvals PROVE LinkOK(a)'
    <2>1. /\ LinkOK(a)
          /\ approval[a].supersedes \in Approvals \cup {0}
          /\ approval[a].supersededBy \in Approvals \cup {0}
      BY DEF LineageInv, ApprovalInv, ApprovalRows
    <2> QED
      BY <1>4, <2>1 DEF LinkOK
  <1>6. InOrder'
    BY <1>4 DEF LineageInv, InOrder
  <1> QED
    BY <1>5, <1>6 DEF LineageInv

(* A rebound approval takes the free place after the one it was rebound from:
   of two that rebind one approval the unique index refuses the second. *)
LEMMA LineageRebindStep ==
  ASSUME ApprovalInv, LineageInv, NEW h \in review, NEW b \in Approvals, CommitRebind(h, b)
  PROVE  LineageInv'
  <1>1. /\ h.id \in Approvals /\ approval[h.id].status # "absent"
        /\ approval[h.id] \in ApprovalRows /\ NextApproval(b)
        /\ approval[b].status = "absent" /\ h.id # b
    BY DEF CommitRebind, ApprovalInv, Requests, Decisions, Rebinds, NextApproval
  <1>2. CASE approval' = approval
    BY <1>2 DEF LineageInv, LinkOK, InOrder
  <1>3. CASE approval' # approval
    <2> DEFINE row == [NoApproval EXCEPT !.status = "pending_approval",
                         !.by = RequesterIsKept(h), !.pack = h.pack, !.supersedes = h.id]
               old == [approval[h.id] EXCEPT !.status = "superseded", !.supersededBy = b]
    <2>1. /\ UniqueSupersedes(h.id)
          /\ approval' = [approval EXCEPT ![b] = row, ![h.id].status = "superseded",
                                          ![h.id].supersededBy = b]
      BY <1>3 DEF CommitRebind
    <2>2. /\ row.status = "pending_approval" /\ row.supersedes = h.id /\ row.supersededBy = 0
      BY DEF NoApproval
    <2>3. /\ old.status = "superseded" /\ old.supersededBy = b
          /\ old.supersedes = approval[h.id].supersedes
      BY <1>1 DEF ApprovalRows
    <2>4. /\ approval'[b] = row /\ approval'[h.id] = old
          /\ \A a \in Approvals : a # b /\ a # h.id => approval'[a] = approval[a]
      BY <1>1, <2>1 DEF ApprovalInv
    <2> HIDE DEF row, old
    <2>5. LinkOK(h.id) /\ approval[h.id].supersededBy = 0
      <3>1. LinkOK(h.id) /\ approval[h.id].supersededBy \in Approvals \cup {0}
        BY <1>1 DEF LineageInv, ApprovalRows
      <3> QED
        BY <2>1, <3>1 DEF LinkOK, UniqueSupersedes
    <2>6. h.id < b
      <3>1. ~(b < h.id)
        BY <1>1 DEF LineageInv, InOrder
      <3> QED
        BY <1>1, <3>1, ApprovalNumbers
    <2>7. PICK i \in Approvals : i = h.id
      BY <1>1
    <2>8. LinkOK(b)'
      BY <1>1, <2>2, <2>3, <2>4, <2>7 DEF LinkOK
    <2>9. ASSUME NEW a \in Approvals, a # b PROVE LinkOK(a)'
      <3>1. /\ LinkOK(a)
            /\ approval[a].supersedes \in Approvals \cup {0}
            /\ approval[a].supersededBy \in Approvals \cup {0}
        BY DEF LineageInv, ApprovalInv, ApprovalRows
      <3>2. approval[a].supersedes # b /\ approval[a].supersededBy # b
        BY <1>1, <3>1, ApprovalNumbers DEF LinkOK
      <3>3. a # h.id => approval[a].supersedes # h.id
        BY <2>1 DEF UniqueSupersedes
      <3>4. CASE a = i
        <4>1. approval[i].supersedes # i
          BY <2>1, <2>7 DEF UniqueSupersedes
        <4> QED
          BY <2>2, <2>3, <2>4, <2>6, <2>7, <3>1, <3>2, <3>4, <4>1, ApprovalNumbers DEF LinkOK
      <3>5. CASE a # i
        <4>1. approval[a].supersededBy = i => approval'[i].supersedes = a
          BY <2>3, <2>4, <2>7, <3>1, <3>5, ApprovalNumbers DEF LinkOK
        <4>2. approval'[a] = approval[a] /\ approval'[i].status # "absent"
          BY <2>3, <2>4, <2>7, <2>9, <3>5
        <4>3. approval[a].supersedes # 0 =>
                approval'[approval[a].supersedes] = approval[approval[a].supersedes]
          BY <2>4, <2>7, <3>1, <3>2, <3>3, <3>5
        <4>4. approval[a].supersededBy # 0 /\ approval[a].supersededBy # i =>
                approval'[approval[a].supersededBy] = approval[approval[a].supersededBy]
          BY <2>4, <2>7, <3>1, <3>2
        <4> QED
          BY <3>1, <4>1, <4>2, <4>3, <4>4 DEF LinkOK
      <3> QED
        BY <3>4, <3>5
    <2>10. InOrder'
      <3>1. approval'[b].status # "absent"
        BY <2>2, <2>4
      <3>2. \A a \in Approvals : a # b =>
              (approval'[a].status = "absent") <=> (approval[a].status = "absent")
        BY <1>1, <2>3, <2>4
      <3> QED
        BY <1>1, <3>1, <3>2, NextApprovalInOrder DEF LineageInv
    <2> QED
      BY <2>8, <2>9, <2>10 DEF LineageInv
  <1> QED
    BY <1>2, <1>3

(* Every step of release readiness keeps the lineages. *)
LEMMA LineageStep ==
  ASSUME ApprovalInv, LineageInv, ReleaseNext \/ UNCHANGED releaseVars
  PROVE  LineageInv'
  <1>1. ASSUME UNCHANGED approval PROVE LineageInv'
    BY <1>1 DEF LineageInv, LinkOK, InOrder
  <1>2. ASSUME NEW h \in review, NEW b \in Approvals, CommitRequestApproval(h, b)
        PROVE  LineageInv'
    BY <1>2, LineageRequestStep
  <1>3. ASSUME NEW h \in review, NEW b \in Approvals, CommitRebind(h, b) PROVE LineageInv'
    BY <1>3, LineageRebindStep
  <1>4. ASSUME NEW h \in review, CommitApprove(h) \/ CommitReject(h) PROVE LineageInv'
    BY <1>4, LineageDecideStep DEF CommitApprove, CommitReject
  <1> QED
    BY <1>1, <1>2, <1>3, <1>4
       DEF ReleaseNext, StoreLaunchClosurePack, RecordEvidence, BeginRequestApproval,
           BeginRebind, BeginApprove, BeginReject, BeginReview, CheckReview, releaseVars

(* The invariant of lineages implies what their check asks for. *)
LEMMA LineageFollows == ApprovalInv /\ LineageInv => LineageIsHealthy
  <1> SUFFICES ASSUME ApprovalInv, LineageInv PROVE LineageIsHealthy
    OBVIOUS
  <1>1. ASSUME NEW a \in Approvals
        PROVE  /\ ~LineageIssue(a)
               /\ approval[a].supersededBy # 0 =>
                    a < approval[a].supersededBy /\ approval[a].status # "pending_approval"
    <2>1. LinkOK(a)
      BY DEF LineageInv
    <2> QED
      BY <2>1 DEF LinkOK, LineageIssue, Exists
  <1> QED
    BY <1>1 DEF LineageIsHealthy

(* Rebinds, approvals and rejections that pass their checks together leave  *)
(* no fork in a lineage and no dangling link, at read committed and with    *)
(* any number of handlers.                                                  *)
THEOREM LineageCorrect == BackOfficeSpec => []LineageIsHealthy
  <1>1. BackOfficeInit => ApprovalInv /\ LineageInv
    <2> SUFFICES ASSUME BackOfficeInit PROVE LineageInv
      BY DualControlInit DEF DualControlInv
    <2>1. \A a \in Approvals : approval[a] = NoApproval
      BY DEF BackOfficeInit, ReleaseInit
    <2> QED
      BY <2>1 DEF LineageInv, LinkOK, InOrder, NoApproval
  <1>2. (ApprovalInv /\ LineageInv) /\ [BackOfficeNext]_backOfficeVars
          => (ApprovalInv /\ LineageInv)'
    <2>1. [BackOfficeNext]_backOfficeVars => ReleaseNext \/ UNCHANGED releaseVars
      BY DEF BackOfficeNext, backOfficeVars
    <2> QED
      BY <2>1, ApprovalStep, LineageStep
  <1> QED
    BY <1>1, <1>2, LineageFollows, PTL DEF BackOfficeSpec

-----------------------------------------------------------------------------
(* Deliveries of alerts: a pending row is on the list of a process that has *)
(* not failed with it; a process that has failed with a row keeps it until  *)
(* the row is passed on.  The second matters for the first: a row that is   *)
(* retried while the process that failed with it is still passing it on     *)
(* stays with the process of the retry when that one lets it go.            *)

DeliveryRows == [alert : AlertKeys, target : Targets, event : AlertEvents, from : Nat,
                 status : {"pending", "succeeded", "failed"}]
SenderRows == [ids : SUBSET Nat, listed : BOOLEAN, current : Nat,
               phase : {"idle", "posting", "failed"}]

(* What a process will try, and what it will pass on.                       *)
WillTry(x, d) == d \in x.ids /\ ~(x.current = d /\ x.phase = "failed")
WillPassOn(x, d) == x.current = d /\ x.phase = "failed"

SenderOK(x, rows) ==
  /\ x.ids \subseteq rows
  /\ x.phase # "idle" => x.current \in x.ids /\ x.listed
  /\ x.phase = "idle" => x.current = 0

PassedOn(d) == \A t \in FailoverTargets(d) : Escalated(d, t)
DeliveryOK(d) ==
  /\ delivery[d].status = "pending" => \E s \in Senders : WillTry(sender[s], d)
  /\ delivery[d].status = "failed" =>
       PassedOn(d) \/ \E s \in Senders : WillPassOn(sender[s], d)

DeliveryInv ==
  /\ delivery \in Seq(DeliveryRows)
  /\ sender \in [Senders -> SenderRows]
  /\ \A s \in Senders : SenderOK(sender[s], DOMAIN delivery)
  /\ \A ids \in retries : ids \subseteq DOMAIN delivery
  /\ ~lost => \A d \in DOMAIN delivery : DeliveryOK(d)

LEMMA RowNumbers ==
  ASSUME DeliveryInv
  PROVE  /\ DOMAIN delivery = 1 .. Len(delivery) /\ Len(delivery) \in Nat
         /\ \A d \in DOMAIN delivery : delivery[d] \in DeliveryRows /\ d \in Nat /\ d # 0
  BY DEF DeliveryInv

(* Rows are only added, and only the status of a row is written: what was   *)
(* passed on stays so.                                                      *)
LEMMA PassedOnForGood ==
  ASSUME DOMAIN delivery \subseteq DOMAIN delivery',
         \A d \in DOMAIN delivery : /\ delivery'[d].target = delivery[d].target
                                    /\ delivery'[d].event = delivery[d].event
                                    /\ delivery'[d].from = delivery[d].from
  PROVE  \A d \in DOMAIN delivery : PassedOn(d) => PassedOn(d)'
  BY DEF PassedOn, FailoverTargets, Escalated

(* A process that takes a step on its list, no row being written.           *)
LEMMA SenderMoves ==
  ASSUME DeliveryInv, UNCHANGED <<delivery, retries, lost>>,
         NEW s \in Senders, NEW row \in SenderRows, SenderOK(row, DOMAIN delivery),
         sender' = [sender EXCEPT ![s] = row],
         \A d \in DOMAIN delivery :
           /\ delivery[d].status = "pending" /\ WillTry(sender[s], d) => WillTry(row, d)
           /\ WillPassOn(sender[s], d) => WillPassOn(row, d)
  PROVE  DeliveryInv'
  <1>1. /\ sender' \in [Senders -> SenderRows] /\ sender'[s] = row
        /\ \A q \in Senders : q # s => sender'[q] = sender[q]
    BY DEF DeliveryInv
  <1>2. ASSUME NEW d \in DOMAIN delivery, DeliveryOK(d) PROVE DeliveryOK(d)'
    <2>1. PassedOn(d) => PassedOn(d)'
      BY PassedOnForGood
    <2>2. ASSUME delivery[d].status = "pending"
          PROVE  \E q \in Senders : WillTry(sender'[q], d)
      BY <1>1, <1>2, <2>2 DEF DeliveryOK
    <2>3. ASSUME delivery[d].status = "failed", ~PassedOn(d)
          PROVE  \E q \in Senders : WillPassOn(sender'[q], d)
      BY <1>1, <1>2, <2>3 DEF DeliveryOK
    <2> QED
      BY <2>1, <2>2, <2>3 DEF DeliveryOK, WillTry, WillPassOn
  <1> QED
    BY <1>1, <1>2 DEF DeliveryInv

(* What is left of the list of a process that is done with a row.           *)
LEMMA FinishedRow ==
  ASSUME NEW x \in SenderRows, NEW d, NEW rows, SenderOK(x, rows)
  PROVE  /\ Finished(x, d) \in SenderRows /\ SenderOK(Finished(x, d), rows)
         /\ \A e : e # d /\ WillTry(x, e) => WillTry(Finished(x, d), e)
         /\ Finished(x, d).phase = "idle"
  <1>1. CASE x.ids = {d}
    <2>1. Finished(x, d) = NoSender
      BY <1>1 DEF Finished
    <2>2. /\ NoSender \in SenderRows /\ NoSender.ids = {} /\ NoSender.phase = "idle"
          /\ NoSender.current = 0
      BY DEF NoSender, SenderRows
    <2> QED
      BY <1>1, <2>1, <2>2 DEF SenderOK, WillTry
  <1>2. CASE x.ids # {d}
    <2>1. /\ Finished(x, d) \in SenderRows /\ Finished(x, d).ids = x.ids \ {d}
          /\ Finished(x, d).current = 0 /\ Finished(x, d).phase = "idle"
      BY <1>2 DEF Finished, SenderRows
    <2> QED
      BY <2>1 DEF SenderOK, WillTry
  <1> QED
    BY <1>1, <1>2

LEMMA ListStep ==
  ASSUME DeliveryInv, NEW s \in Senders, ProcessPendingDeliveries(s)
  PROVE  DeliveryInv'
  <1> DEFINE pending == {d \in sender[s].ids : delivery[d].status = "pending"}
             row == IF pending = {} THEN NoSender
                    ELSE [sender[s] EXCEPT !.ids = pending, !.listed = TRUE]
  <1>1. sender[s] \in SenderRows /\ SenderOK(sender[s], DOMAIN delivery)
        /\ sender[s].phase = "idle"
    BY DEF DeliveryInv, ProcessPendingDeliveries, SenderOK, SenderRows
  <1>2. /\ sender' = [sender EXCEPT ![s] = row] /\ UNCHANGED <<delivery, retries, lost>>
    BY DEF ProcessPendingDeliveries
  <1>3. row \in SenderRows /\ row.ids = pending /\ row.current = 0 /\ row.phase = "idle"
    <2>1. CASE pending = {}
      BY <2>1 DEF NoSender, SenderRows
    <2>2. CASE pending # {}
      BY <1>1, <2>2 DEF SenderOK, SenderRows
    <2> QED
      BY <2>1, <2>2
  <1> HIDE DEF row
  <1>4. SenderOK(row, DOMAIN delivery)
    BY <1>1, <1>3 DEF SenderOK
  <1>5. \A d \in DOMAIN delivery :
          /\ delivery[d].status = "pending" /\ WillTry(sender[s], d) => WillTry(row, d)
          /\ WillPassOn(sender[s], d) => WillPassOn(row, d)
    BY <1>1, <1>3 DEF WillTry, WillPassOn
  <1> QED
    BY <1>2, <1>3, <1>4, <1>5, SenderMoves

LEMMA TakeUpStep ==
  ASSUME DeliveryInv, NEW s \in Senders, NEW d \in sender[s].ids, TakeUpDelivery(s, d)
  PROVE  DeliveryInv'
  <1> DEFINE row == IF delivery[d].status = "pending"
                      THEN [sender[s] EXCEPT !.current = d, !.phase = "posting"]
                      ELSE Finished(sender[s], d)
  <1>1. /\ sender[s] \in SenderRows /\ SenderOK(sender[s], DOMAIN delivery)
        /\ sender[s].current = 0 /\ sender[s].listed /\ d \in Nat /\ d # 0
        /\ d \in DOMAIN delivery
    BY RowNumbers DEF DeliveryInv, TakeUpDelivery, SenderOK
  <1>2. sender[s].phase = "idle"
    BY <1>1, RowNumbers DEF SenderOK, SenderRows
  <1>3. /\ sender' = [sender EXCEPT ![s] = row] /\ UNCHANGED <<delivery, retries, lost>>
    BY DEF TakeUpDelivery
  <1>4. /\ row \in SenderRows /\ SenderOK(row, DOMAIN delivery)
        /\ \A e \in DOMAIN delivery :
             delivery[e].status = "pending" /\ WillTry(sender[s], e) => WillTry(row, e)
    <2>1. CASE delivery[d].status = "pending"
      <3>1. /\ row \in SenderRows /\ row.ids = sender[s].ids /\ row.current = d
            /\ row.phase = "posting" /\ row.listed = sender[s].listed
        BY <1>1, <2>1 DEF SenderRows
      <3> HIDE DEF row
      <3> QED
        BY <1>1, <3>1 DEF SenderOK, WillTry
    <2>2. CASE delivery[d].status # "pending"
      BY <1>1, <2>2, FinishedRow
    <2> QED
      BY <2>1, <2>2
  <1> HIDE DEF row
  <1>5. \A e \in DOMAIN delivery : ~WillPassOn(sender[s], e)
    BY <1>2 DEF WillPassOn
  <1> QED
    BY <1>3, <1>4, <1>5, SenderMoves

(* The row of a process that has its answer.                                *)
LEMMA AnswerWritten ==
  ASSUME DeliveryInv, NEW d \in DOMAIN delivery, NEW to \in {"succeeded", "failed"},
         delivery' = [delivery EXCEPT ![d].status = to]
  PROVE  /\ delivery' \in Seq(DeliveryRows) /\ DOMAIN delivery' = DOMAIN delivery
         /\ delivery'[d].status = to
         /\ \A e \in DOMAIN delivery : e # d => delivery'[e] = delivery[e]
         /\ \A e \in DOMAIN delivery : PassedOn(e) => PassedOn(e)'
  <1>1. PICK old \in DeliveryRows : old = delivery[d]
    BY RowNumbers
  <1>2. PICK new : new = [old EXCEPT !.status = to]
    OBVIOUS
  <1>3. /\ new \in DeliveryRows /\ new.status = to /\ new.target = old.target
        /\ new.event = old.event /\ new.from = old.from
    BY <1>2 DEF DeliveryRows
  <1>4. delivery \in Seq(DeliveryRows) /\ DOMAIN delivery = 1 .. Len(delivery)
    BY RowNumbers DEF DeliveryInv
  <1>5. delivery' = [delivery EXCEPT ![d] = new]
    BY <1>1, <1>2
  <1>6. /\ delivery' \in Seq(DeliveryRows) /\ DOMAIN delivery' = DOMAIN delivery
        /\ delivery'[d] = new
        /\ \A e \in DOMAIN delivery : e # d => delivery'[e] = delivery[e]
    BY <1>3, <1>4, <1>5
  <1>7. \A e \in DOMAIN delivery : PassedOn(e) => PassedOn(e)'
    BY <1>1, <1>3, <1>6, PassedOnForGood
  <1> QED
    BY <1>3, <1>6, <1>7

(* The answer of a target, and what the process does next.                  *)
LEMMA AnswerStep ==
  ASSUME DeliveryInv, NEW s \in Senders, DeliverySucceeds(s) \/ DeliveryFails(s)
  PROVE  DeliveryInv'
  <1>1. PICK x \in SenderRows : x = sender[s]
    BY DEF DeliveryInv
  <1>2. /\ SenderOK(x, DOMAIN delivery) /\ x.phase = "posting" /\ x.listed
        /\ x.current \in x.ids /\ x.current \in DOMAIN delivery /\ x.current \in Nat
    BY <1>1 DEF DeliveryInv, SenderOK, DeliverySucceeds, DeliveryFails, SenderRows
  <1>3. PICK d \in DOMAIN delivery : d = x.current
    BY <1>2
  <1> DEFINE next(to) == IF to = "succeeded" THEN Finished(x, d) ELSE [x EXCEPT !.phase = "failed"]
  <1>a. PICK to \in {"succeeded", "failed"} :
          /\ delivery' = [delivery EXCEPT ![d].status = to]
          /\ sender' = [sender EXCEPT ![s] = next(to)]
          /\ retries' = retries /\ lost' = lost
    <2>1. CASE DeliverySucceeds(s)
      BY <1>1, <1>3, <2>1 DEF DeliverySucceeds
    <2>2. CASE DeliveryFails(s)
      BY <1>1, <1>3, <2>2 DEF DeliveryFails
    <2> QED
      BY <2>1, <2>2
  <1>4. PICK row : /\ row = next(to)
                   /\ delivery' = [delivery EXCEPT ![d].status = to]
                   /\ sender' = [sender EXCEPT ![s] = row]
                   /\ retries' = retries /\ lost' = lost
    BY <1>a
  <1>5. /\ delivery' \in Seq(DeliveryRows) /\ DOMAIN delivery' = DOMAIN delivery
        /\ delivery'[d].status = to
        /\ \A e \in DOMAIN delivery : e # d => delivery'[e] = delivery[e]
        /\ \A e \in DOMAIN delivery : PassedOn(e) => PassedOn(e)'
    BY <1>4, AnswerWritten
  <1>6. /\ row \in SenderRows /\ SenderOK(row, DOMAIN delivery)
        /\ \A e : e # d /\ WillTry(x, e) => WillTry(row, e)
        /\ to = "failed" => WillPassOn(row, d)
    <2>1. CASE to = "succeeded"
      BY <1>2, <1>3, <1>4, <2>1, FinishedRow
    <2>2. CASE to = "failed"
      <3>1. /\ row \in SenderRows /\ row.ids = x.ids /\ row.current = d
            /\ row.phase = "failed" /\ row.listed = x.listed
        BY <1>3, <1>4, <2>2 DEF SenderRows
      <3> QED
        BY <1>2, <1>3, <3>1 DEF SenderOK, WillTry, WillPassOn
    <2> QED
      BY <2>1, <2>2
  <1>7. /\ sender' \in [Senders -> SenderRows] /\ sender'[s] = row
        /\ \A q \in Senders : q # s => sender'[q] = sender[q]
    BY <1>4, <1>6 DEF DeliveryInv
  <1>8. \A e : ~WillPassOn(x, e)
    BY <1>2 DEF WillPassOn
  <1>9. ASSUME ~lost, NEW e \in DOMAIN delivery PROVE DeliveryOK(e)'
    <2>1. DeliveryOK(e)
      BY <1>9 DEF DeliveryInv
    <2>2. CASE e = d
      <3>1. delivery'[e].status = "failed" => \E q \in Senders : WillPassOn(sender'[q], e)
        BY <1>5, <1>6, <1>7, <2>2
      <3> QED
        BY <1>5, <2>2, <3>1 DEF DeliveryOK, WillPassOn
    <2>3. CASE e # d
      <3>1. ASSUME delivery'[e].status = "pending"
            PROVE  \E q \in Senders : WillTry(sender'[q], e)
        <4>1. PICK q \in Senders : WillTry(sender[q], e)
          BY <1>5, <2>1, <2>3, <3>1 DEF DeliveryOK
        <4> QED
          BY <1>1, <1>6, <1>7, <2>3, <4>1
      <3>2. ASSUME delivery'[e].status = "failed"
            PROVE  PassedOn(e)' \/ \E q \in Senders : WillPassOn(sender'[q], e)
        <4>1. PassedOn(e) \/ \E q \in Senders : WillPassOn(sender[q], e)
          BY <1>5, <2>1, <2>3, <3>2 DEF DeliveryOK
        <4> QED
          BY <1>1, <1>5, <1>7, <1>8, <4>1
      <3> QED
        BY <3>1, <3>2 DEF DeliveryOK, WillTry, WillPassOn
    <2> QED
      BY <2>2, <2>3
  <1>10. \A q \in Senders : SenderOK(sender'[q], DOMAIN delivery')
    BY <1>5, <1>6, <1>7 DEF DeliveryInv
  <1>11. \A ids \in retries' : ids \subseteq DOMAIN delivery'
    BY <1>4, <1>5 DEF DeliveryInv
  <1> QED
    BY <1>4, <1>5, <1>7, <1>9, <1>10, <1>11 DEF DeliveryInv

-----------------------------------------------------------------------------
(* Rows that are added, and processes that are started                      *)

(* A process that is free has nothing to do.                                *)
LEMMA FreeSender ==
  /\ NoSender \in SenderRows /\ NoSender.ids = {} /\ NoSender.current = 0
  /\ NoSender.phase = "idle" /\ NoSender.listed = FALSE
  BY DEF NoSender, SenderRows

(* A process is started for some rows, the others keep theirs.              *)
LEMMA SendingStarts ==
  ASSUME NEW senders \in [Senders -> SenderRows], NEW rows \in SUBSET Nat,
         \A q \in Senders : SenderOK(senders[q], rows),
         NEW ids \in SUBSET rows, StartSending(senders, ids)
  PROVE  /\ sender' \in [Senders -> SenderRows]
         /\ \A q \in Senders : SenderOK(sender'[q], rows)
         /\ \A e \in ids : \E q \in Senders : WillTry(sender'[q], e)
         /\ \A q \in Senders, e \in Nat \ {0} :
              /\ WillTry(senders[q], e) => WillTry(sender'[q], e)
              /\ WillPassOn(senders[q], e) => WillPassOn(sender'[q], e)
  <1>1. CASE ids = {}
    BY <1>1 DEF StartSending
  <1>2. CASE ids # {}
    <2>1. PICK s \in Senders : /\ senders[s] = NoSender
                               /\ sender' = [senders EXCEPT ![s].ids = ids]
      BY <1>2 DEF StartSending
    <2>2. PICK row : row = [NoSender EXCEPT !.ids = ids]
      OBVIOUS
    <2>3. /\ row \in SenderRows /\ row.ids = ids /\ row.current = 0
          /\ row.phase = "idle" /\ row.listed = FALSE
      BY <2>2 DEF NoSender, SenderRows
    <2>4. /\ sender' \in [Senders -> SenderRows] /\ sender'[s] = row
          /\ \A q \in Senders : q # s => sender'[q] = senders[q]
      BY <2>1, <2>2, <2>3
    <2>5. SenderOK(row, rows) /\ \A e \in ids : WillTry(row, e)
      BY <2>3 DEF SenderOK, WillTry
    <2>6. ASSUME NEW q \in Senders, NEW e \in Nat \ {0}
          PROVE  /\ WillTry(senders[q], e) => WillTry(sender'[q], e)
                 /\ WillPassOn(senders[q], e) => WillPassOn(sender'[q], e)
      <3>1. CASE q = s
        BY <2>1, <3>1, FreeSender DEF WillTry, WillPassOn
      <3>2. CASE q # s
        BY <2>4, <3>2
      <3> QED
        BY <3>1, <3>2
    <2> QED
      BY <2>4, <2>5, <2>6
  <1> QED
    BY <1>1, <1>2

(* Rows are appended for some targets, one for each, and a process sends    *)
(* them.                                                                    *)
LEMMA RowsAdded ==
  ASSUME DeliveryInv, NEW senders \in [Senders -> SenderRows],
         \A q \in Senders : SenderOK(senders[q], DOMAIN delivery),
         NEW a \in AlertKeys, NEW event \in AlertEvents, NEW targets \in SUBSET Targets,
         NEW from \in Nat, CreatePendingDeliveries(senders, a, event, targets, from)
  PROVE  /\ delivery' \in Seq(DeliveryRows) /\ DOMAIN delivery \subseteq DOMAIN delivery'
         /\ \A e \in DOMAIN delivery : delivery'[e] = delivery[e]
         /\ \A t \in targets : \E e \in DOMAIN delivery' :
              delivery'[e].from = from /\ delivery'[e].target = t
         /\ sender' \in [Senders -> SenderRows]
         /\ \A q \in Senders : SenderOK(sender'[q], DOMAIN delivery')
         /\ \A e \in DOMAIN delivery' \ DOMAIN delivery :
              /\ delivery'[e].status = "pending"
              /\ \E q \in Senders : WillTry(sender'[q], e)
         /\ \A q \in Senders, e \in DOMAIN delivery :
              /\ WillTry(senders[q], e) => WillTry(sender'[q], e)
              /\ WillPassOn(senders[q], e) => WillPassOn(sender'[q], e)
  <1>1. PICK n : n = Cardinality(targets)
    OBVIOUS
  <1>2. n \in Nat
    BY <1>1, FS_Subset, FS_CardinalityType, AlertAssumption
  <1>3. PICK rows \in NewRows(a, event, targets, from) :
          /\ delivery' = delivery \o rows
          /\ StartSending(senders, Len(delivery) + 1 .. Len(delivery) + n)
    BY <1>1 DEF CreatePendingDeliveries
  <1>4. /\ rows \in [1 .. n -> [alert : {a}, target : targets, event : {event}, from : {from},
                                status : {"pending"}]]
        /\ \A t \in targets : \E k \in 1 .. n : rows[k].target = t
    BY <1>1, <1>3 DEF NewRows
  <1>5. \A k \in 1 .. n : /\ rows[k] \in DeliveryRows /\ rows[k].from = from
                          /\ rows[k].status = "pending"
    BY <1>4 DEF DeliveryRows
  <1>6. rows \in Seq(DeliveryRows) /\ Len(rows) = n
    BY <1>2, <1>4, <1>5
  <1>7. PICK m \in Nat : m = Len(delivery)
    BY RowNumbers
  <1>8. delivery \in Seq(DeliveryRows) /\ DOMAIN delivery = 1 .. m
    BY <1>7, RowNumbers DEF DeliveryInv
  <1>9. /\ delivery' \in Seq(DeliveryRows) /\ DOMAIN delivery' = 1 .. (m + n)
        /\ \A e \in 1 .. m : delivery'[e] = delivery[e]
        /\ \A e \in m + 1 .. m + n : delivery'[e] = rows[e - m]
    BY <1>2, <1>3, <1>6, <1>7, <1>8
  <1>10. DOMAIN delivery \subseteq DOMAIN delivery' /\ DOMAIN delivery' \in SUBSET Nat
    BY <1>2, <1>7, <1>8, <1>9
  <1>11. \A q \in Senders : SenderOK(senders[q], DOMAIN delivery')
    BY <1>10 DEF SenderOK
  <1>12. (m + 1 .. m + n) \in SUBSET (DOMAIN delivery')
    BY <1>2, <1>7, <1>9
  <1>13. /\ sender' \in [Senders -> SenderRows]
         /\ \A q \in Senders : SenderOK(sender'[q], DOMAIN delivery')
         /\ \A e \in m + 1 .. m + n : \E q \in Senders : WillTry(sender'[q], e)
         /\ \A q \in Senders, e \in Nat \ {0} :
              /\ WillTry(senders[q], e) => WillTry(sender'[q], e)
              /\ WillPassOn(senders[q], e) => WillPassOn(sender'[q], e)
    <2>1. StartSending(senders, m + 1 .. m + n)
      BY <1>3, <1>7
    <2> HIDE <1>3
    <2> QED
      BY <1>10, <1>11, <1>12, <2>1, SendingStarts
  <1>14. \A t \in targets : \E e \in DOMAIN delivery' :
           delivery'[e].from = from /\ delivery'[e].target = t
    <2> SUFFICES ASSUME NEW t \in targets
                 PROVE  \E e \in DOMAIN delivery' :
                          delivery'[e].from = from /\ delivery'[e].target = t
      OBVIOUS
    <2>1. PICK k \in 1 .. n : rows[k].target = t
      BY <1>4
    <2>2. m + k \in m + 1 .. m + n /\ (m + k) - m = k
      BY <1>2, <1>7, <2>1
    <2>3. delivery'[m + k] = rows[k]
      BY <1>9, <2>2
    <2> QED
      BY <1>5, <1>12, <2>1, <2>2, <2>3
  <1>15. ASSUME NEW e \in DOMAIN delivery' \ DOMAIN delivery
         PROVE  delivery'[e].status = "pending" /\ \E q \in Senders : WillTry(sender'[q], e)
    <2>1. e \in m + 1 .. m + n /\ e - m \in 1 .. n
      BY <1>2, <1>7, <1>8, <1>9
    <2> QED
      BY <1>5, <1>9, <1>13, <2>1
  <1>16. \A e \in DOMAIN delivery : e \in Nat \ {0}
    BY <1>7, <1>8
  <1> QED
    BY <1>8, <1>9, <1>10, <1>13, <1>14, <1>15, <1>16

(* So what was passed on, or will be, stays so, and no row is forgotten.    *)
LEMMA RowsAddedInv ==
  ASSUME DeliveryInv, NEW senders \in [Senders -> SenderRows],
         \A q \in Senders : SenderOK(senders[q], DOMAIN delivery),
         NEW a \in AlertKeys, NEW event \in AlertEvents, NEW targets \in SUBSET Targets,
         NEW from \in Nat, CreatePendingDeliveries(senders, a, event, targets, from),
         UNCHANGED <<retries, lost>>,
         \A d \in DOMAIN delivery :
           /\ \A q \in Senders : WillTry(sender[q], d) => WillTry(senders[q], d)
           /\ d = from \/ \A q \in Senders : WillPassOn(sender[q], d) => WillPassOn(senders[q], d)
           /\ d = from => \A t \in FailoverTargets(d) : t \in targets \/ Escalated(d, t)
  PROVE  DeliveryInv'
  <1>1. /\ delivery' \in Seq(DeliveryRows) /\ DOMAIN delivery \subseteq DOMAIN delivery'
        /\ \A e \in DOMAIN delivery : delivery'[e] = delivery[e]
        /\ \A t \in targets : \E e \in DOMAIN delivery' :
             delivery'[e].from = from /\ delivery'[e].target = t
        /\ sender' \in [Senders -> SenderRows]
        /\ \A q \in Senders : SenderOK(sender'[q], DOMAIN delivery')
        /\ \A e \in DOMAIN delivery' \ DOMAIN delivery :
             /\ delivery'[e].status = "pending"
             /\ \E q \in Senders : WillTry(sender'[q], e)
        /\ \A q \in Senders, e \in DOMAIN delivery :
             /\ WillTry(senders[q], e) => WillTry(sender'[q], e)
             /\ WillPassOn(senders[q], e) => WillPassOn(sender'[q], e)
    BY RowsAdded
  <1>2. \A d \in DOMAIN delivery : PassedOn(d) => PassedOn(d)'
    BY <1>1, PassedOnForGood
  <1>3. ASSUME from \in DOMAIN delivery PROVE PassedOn(from)'
    <2>1. FailoverTargets(from)' = FailoverTargets(from)
      BY <1>1, <1>3 DEF FailoverTargets
    <2>2. \A t : Escalated(from, t) => Escalated(from, t)'
      BY <1>1 DEF Escalated
    <2>3. \A t \in targets : Escalated(from, t)'
      BY <1>1 DEF Escalated
    <2>4. \A t \in FailoverTargets(from) : t \in targets \/ Escalated(from, t)
      BY <1>3
    <2> QED
      BY <2>1, <2>2, <2>3, <2>4 DEF PassedOn
  <1>4. ASSUME ~lost, NEW d \in DOMAIN delivery' PROVE DeliveryOK(d)'
    <2>1. CASE d \notin DOMAIN delivery
      BY <1>1, <2>1 DEF DeliveryOK, WillTry
    <2>2. CASE d \in DOMAIN delivery
      <3>1. DeliveryOK(d)
        BY <1>4, <2>2 DEF DeliveryInv
      <3>2. ASSUME delivery'[d].status = "pending"
            PROVE  \E q \in Senders : WillTry(sender'[q], d)
        <4>1. PICK q \in Senders : WillTry(sender[q], d)
          BY <1>1, <2>2, <3>1, <3>2 DEF DeliveryOK
        <4> QED
          BY <1>1, <2>2, <4>1
      <3>3. ASSUME delivery'[d].status = "failed"
            PROVE  PassedOn(d)' \/ \E q \in Senders : WillPassOn(sender'[q], d)
        <4>1. PassedOn(d) \/ \E q \in Senders : WillPassOn(sender[q], d)
          BY <1>1, <2>2, <3>1, <3>3 DEF DeliveryOK
        <4> QED
          BY <1>1, <1>2, <1>3, <2>2, <4>1
      <3> QED
        BY <3>2, <3>3 DEF DeliveryOK, WillTry, WillPassOn
    <2> QED
      BY <2>1, <2>2
  <1>5. \A ids \in retries' : ids \subseteq DOMAIN delivery'
    BY <1>1 DEF DeliveryInv
  <1> QED
    BY <1>1, <1>4, <1>5 DEF DeliveryInv

(* An event of an alert is sent to the direct targets.                      *)
LEMMA EventStep ==
  ASSUME DeliveryInv, NEW a \in AlertKeys, NEW event \in AlertEvents,
         EnqueueAlertEvent(a, event), UNCHANGED <<retries, lost>>
  PROVE  DeliveryInv'
  <1>1. PICK targets \in SUBSET Targets : targets = SubscribedTo(event, DirectTargets)
    BY AlertAssumption DEF SubscribedTo
  <1>2. CreatePendingDeliveries(sender, a, event, targets, 0)
    BY <1>1 DEF EnqueueAlertEvent
  <1>3. \A d \in DOMAIN delivery : d # 0
    BY RowNumbers
  <1>4. /\ sender \in [Senders -> SenderRows] /\ 0 \in Nat
        /\ \A q \in Senders : SenderOK(sender[q], DOMAIN delivery)
    BY DEF DeliveryInv
  <1> QED
    BY <1>2, <1>3, <1>4, RowsAddedInv

(* A process passes the row it failed with on to the failover targets.      *)
LEMMA FailoverStep ==
  ASSUME DeliveryInv, NEW s \in Senders, EnqueueFailoverDeliveries(s)
  PROVE  DeliveryInv'
  <1>1. PICK x \in SenderRows : x = sender[s]
    BY DEF DeliveryInv
  <1>2. SenderOK(x, DOMAIN delivery) /\ x.phase = "failed"
    BY <1>1 DEF DeliveryInv, EnqueueFailoverDeliveries
  <1>3. PICK d \in DOMAIN delivery : d = x.current
    BY <1>2 DEF SenderOK
  <1>4. PICK old \in DeliveryRows : old = delivery[d]
    BY RowNumbers
  <1>5. old.alert \in AlertKeys /\ old.event \in AlertEvents /\ old.target \in Targets
    BY DEF DeliveryRows
  <1>6. PICK targets : targets = {t \in FailoverTargets(d) : ~Escalated(d, t)}
    OBVIOUS
  <1>7. targets \in SUBSET Targets
    BY <1>4, <1>5, <1>6, AlertAssumption DEF FailoverTargets, SubscribedTo
  <1>8. PICK row : row = Finished(x, d)
    OBVIOUS
  <1>9. PICK senders : senders = [sender EXCEPT ![s] = row]
    OBVIOUS
  <1>10. /\ CreatePendingDeliveries(senders, old.alert, old.event, targets, d)
         /\ UNCHANGED <<retries, lost>>
    BY <1>1, <1>3, <1>4, <1>6, <1>8, <1>9 DEF EnqueueFailoverDeliveries
  <1>11. /\ row \in SenderRows /\ SenderOK(row, DOMAIN delivery)
         /\ \A e : e # d /\ WillTry(x, e) => WillTry(row, e)
    BY <1>2, <1>8, FinishedRow
  <1>12. /\ senders \in [Senders -> SenderRows] /\ senders[s] = row
         /\ \A q \in Senders : q # s => senders[q] = sender[q]
    BY <1>9, <1>11 DEF DeliveryInv
  <1>13. \A q \in Senders : SenderOK(senders[q], DOMAIN delivery)
    BY <1>11, <1>12 DEF DeliveryInv
  <1>14. /\ ~WillTry(x, d) /\ \A e : e # d => ~WillPassOn(x, e)
    BY <1>2, <1>3 DEF WillTry, WillPassOn
  <1>15. \A e \in DOMAIN delivery :
           /\ \A q \in Senders : WillTry(sender[q], e) => WillTry(senders[q], e)
           /\ e = d \/ \A q \in Senders : WillPassOn(sender[q], e) => WillPassOn(senders[q], e)
           /\ e = d => \A t \in FailoverTargets(e) : t \in targets \/ Escalated(e, t)
    BY <1>1, <1>6, <1>11, <1>12, <1>14
  <1>16. d \in Nat
    BY RowNumbers
  <1> QED
    BY <1>5, <1>7, <1>10, <1>12, <1>13, <1>15, <1>16, RowsAddedInv

(* A retry writes the rows it read, whatever has become of them, and a      *)
(* process is started for them.                                             *)
LEMMA RetryStep ==
  ASSUME DeliveryInv, NEW ids \in retries, RetryFailedDeliveries(ids)
  PROVE  DeliveryInv'
  <1> DEFINE row(d) == [delivery[d] EXCEPT !.status = "pending"]
  <1>1. /\ ids \subseteq DOMAIN delivery /\ retries' \subseteq retries /\ lost' = lost
        /\ StartSending(sender, ids)
        /\ delivery' = [d \in DOMAIN delivery |-> IF d \in ids THEN row(d) ELSE delivery[d]]
    BY DEF DeliveryInv, RetryFailedDeliveries
  <1>2. \A d \in DOMAIN delivery :
          /\ row(d) \in DeliveryRows /\ row(d).status = "pending"
          /\ row(d).target = delivery[d].target /\ row(d).event = delivery[d].event
          /\ row(d).from = delivery[d].from
    <2> SUFFICES ASSUME NEW d \in DOMAIN delivery
                 PROVE  /\ row(d) \in DeliveryRows /\ row(d).status = "pending"
                        /\ row(d).target = delivery[d].target
                        /\ row(d).event = delivery[d].event
                        /\ row(d).from = delivery[d].from
      OBVIOUS
    <2>1. delivery[d] \in DeliveryRows
      BY RowNumbers
    <2> QED
      BY <2>1 DEF DeliveryRows
  <1> HIDE DEF row
  <1>3. \A d \in DOMAIN delivery :
          /\ d \in ids => delivery'[d] = row(d)
          /\ d \notin ids => delivery'[d] = delivery[d]
          /\ delivery'[d] \in DeliveryRows
    BY <1>1, <1>2, RowNumbers
  <1>4. DOMAIN delivery' = DOMAIN delivery
    BY <1>1
  <1>5. delivery' \in Seq(DeliveryRows)
    <2>1. PICK n \in Nat : n = Len(delivery)
      BY RowNumbers
    <2>2. delivery' \in [1 .. n -> DeliveryRows]
      BY <1>1, <1>3, <1>4, <2>1, RowNumbers
    <2> QED
      BY <2>2
  <1>6. \A d \in DOMAIN delivery : PassedOn(d) => PassedOn(d)'
    <2>1. \A d \in DOMAIN delivery : /\ delivery'[d].target = delivery[d].target
                                     /\ delivery'[d].event = delivery[d].event
                                     /\ delivery'[d].from = delivery[d].from
      BY <1>2, <1>3
    <2> QED
      BY <1>4, <2>1, PassedOnForGood
  <1>7. /\ sender' \in [Senders -> SenderRows]
        /\ \A q \in Senders : SenderOK(sender'[q], DOMAIN delivery)
        /\ \A e \in ids : \E q \in Senders : WillTry(sender'[q], e)
        /\ \A q \in Senders, e \in Nat \ {0} :
             /\ WillTry(sender[q], e) => WillTry(sender'[q], e)
             /\ WillPassOn(sender[q], e) => WillPassOn(sender'[q], e)
    <2>1. /\ sender \in [Senders -> SenderRows] /\ DOMAIN delivery \in SUBSET Nat
          /\ \A q \in Senders : SenderOK(sender[q], DOMAIN delivery)
      BY RowNumbers DEF DeliveryInv
    <2> QED
      BY <1>1, <2>1, SendingStarts
  <1>8. ASSUME ~lost, NEW d \in DOMAIN delivery PROVE DeliveryOK(d)'
    <2>1. DeliveryOK(d) /\ d \in Nat \ {0}
      BY <1>8, RowNumbers DEF DeliveryInv
    <2>2. CASE d \in ids
      <3>1. delivery'[d].status = "pending" /\ \E q \in Senders : WillTry(sender'[q], d)
        BY <1>2, <1>3, <1>7, <2>2
      <3> QED
        BY <3>1 DEF DeliveryOK, WillTry
    <2>3. CASE d \notin ids
      <3>1. delivery'[d] = delivery[d]
        BY <1>3, <2>3
      <3>2. ASSUME delivery'[d].status = "pending"
            PROVE  \E q \in Senders : WillTry(sender'[q], d)
        BY <1>7, <2>1, <3>1, <3>2 DEF DeliveryOK
      <3>3. ASSUME delivery'[d].status = "failed"
            PROVE  PassedOn(d)' \/ \E q \in Senders : WillPassOn(sender'[q], d)
        BY <1>6, <1>7, <2>1, <3>1, <3>3 DEF DeliveryOK
      <3> QED
        BY <3>2, <3>3 DEF DeliveryOK, WillTry, WillPassOn
    <2> QED
      BY <2>2, <2>3
  <1>9. \A r \in retries' : r \subseteq DOMAIN delivery'
    BY <1>1, <1>4 DEF DeliveryInv
  <1> QED
    BY <1>1, <1>4, <1>5, <1>7, <1>8, <1>9 DEF DeliveryInv

-----------------------------------------------------------------------------
(* What dies with its work, what leaves the rows alone, and the whole       *)

LEMMA DeathStep ==
  ASSUME DeliveryInv, ApiDies \/ \E s \in Senders : SenderDies(s)
  PROVE  DeliveryInv'
  <1>1. delivery' = delivery /\ lost' = TRUE /\ retries' \subseteq retries
    BY DEF ApiDies, SenderDies
  <1>2. SenderOK(NoSender, DOMAIN delivery)
    BY FreeSender DEF SenderOK
  <1>3. /\ sender' \in [Senders -> SenderRows]
        /\ \A q \in Senders : sender'[q] \in {sender[q], NoSender}
    BY FreeSender DEF ApiDies, SenderDies, DeliveryInv
  <1> QED
    BY <1>1, <1>2, <1>3 DEF DeliveryInv

LEMMA QuietDeliveries ==
  ASSUME DeliveryInv, UNCHANGED <<delivery, sender, retries, lost>>
  PROVE  DeliveryInv'
  BY DEF DeliveryInv, DeliveryOK, PassedOn, FailoverTargets, Escalated

LEMMA BeginRetryStep ==
  ASSUME DeliveryInv, NEW a \in AlertKeys, BeginRetry(a)
  PROVE  DeliveryInv'
  <1>1. /\ delivery' = delivery /\ sender' = sender /\ lost' = lost
        /\ \A ids \in retries' : ids \subseteq DOMAIN delivery
    BY DEF BeginRetry, DeliveryInv
  <1> QED
    BY <1>1 DEF DeliveryInv, DeliveryOK, PassedOn, FailoverTargets, Escalated

LEMMA AlertStep ==
  ASSUME DeliveryInv, AlertNext \/ UNCHANGED alertVars
  PROVE  DeliveryInv'
  <1>1. CASE UNCHANGED alertVars
    BY <1>1, QuietDeliveries DEF alertVars
  <1>2. ASSUME NEW a \in AlertKeys,
               \/ CreateAlert(a) \/ ReopenAlert(a) \/ \E g \in GovernanceOps : Govern(a, g)
               \/ ReEscalate(a) \/ RouteByOperator(a)
               \/ RouteByPolicy(a) /\ alert[a].status = "open"
        PROVE  DeliveryInv'
    <2>1. PICK event \in AlertEvents : EnqueueAlertEvent(a, event) /\ UNCHANGED <<retries, lost>>
      BY <1>2 DEF CreateAlert, ReopenAlert, StartAfresh, Govern, ReEscalate, RouteByOperator,
                  RouteByPolicy, RoutePlatformAlert, EndAlertCall, ContinueAlertCall,
                  AlertEvents
    <2> QED
      BY <2>1, EventStep
  <1>3. ASSUME NEW a \in AlertKeys,
               \/ BeginSync(a) \/ RefreshAlert(a) \/ ResolveAlert(a) \/ SuppressionEnds(a)
               \/ BeginReEscalate(a) \/ \E g \in GovernanceOps : BeginGovernance(a, g)
               \/ RouteByPolicy(a) /\ alert[a].status # "open"
        PROVE  DeliveryInv'
    <2>1. UNCHANGED <<delivery, sender, retries, lost>>
      BY <1>3 DEF BeginSync, RefreshAlert, ResolveAlert, SuppressionEnds, BeginReEscalate,
                  BeginGovernance, RouteByPolicy, BeginAlertCall, EndAlertCall,
                  ContinueAlertCall
    <2> QED
      BY <2>1, QuietDeliveries
  <1>4. ASSUME NEW s \in Senders,
               \/ ProcessPendingDeliveries(s) \/ DeliverySucceeds(s) \/ DeliveryFails(s)
               \/ EnqueueFailoverDeliveries(s) \/ SenderDies(s)
               \/ \E d \in sender[s].ids : TakeUpDelivery(s, d)
        PROVE  DeliveryInv'
    BY <1>4, ListStep, AnswerStep, FailoverStep, DeathStep, TakeUpStep
  <1>5. ASSUME NEW a \in AlertKeys, BeginRetry(a) PROVE DeliveryInv'
    BY <1>5, BeginRetryStep
  <1>6. ASSUME NEW ids \in retries, RetryFailedDeliveries(ids) PROVE DeliveryInv'
    BY <1>6, RetryStep
  <1>7. CASE ApiDies
    BY <1>7, DeathStep
  <1> QED
    BY <1>1, <1>2, <1>3, <1>4, <1>5, <1>6, <1>7 DEF AlertNext

LEMMA DeliveryInit ==
  ASSUME AlertInit
  PROVE  DeliveryInv
  <1>1. SenderOK(NoSender, {})
    BY FreeSender DEF SenderOK
  <1>2. delivery = <<>> /\ DOMAIN delivery = {} /\ retries = {}
    BY DEF AlertInit
  <1> QED
    BY <1>1, <1>2, FreeSender DEF DeliveryInv, AlertInit

LEMMA FailuresFollow == DeliveryInv => FailuresEscalate
  BY DEF DeliveryInv, DeliveryOK, PassedOn, WillTry, WillPassOn, FailuresEscalate

(* Theorem: unless a process dies, no delivery is lost between the          *)
(* processes that send and retry them: a pending row is on the list of a    *)
(* process, and a failed one was passed on to every failover target or is   *)
(* about to be (enqueueFailoverDeliveries, retryFailedDeliveries).          *)
THEOREM AlertsCorrect == BackOfficeSpec => []FailuresEscalate
  <1>1. BackOfficeInit => DeliveryInv
    BY DeliveryInit DEF BackOfficeInit
  <1>2. DeliveryInv /\ [BackOfficeNext]_backOfficeVars => DeliveryInv'
    <2>1. [BackOfficeNext]_backOfficeVars => AlertNext \/ UNCHANGED alertVars
      BY DEF BackOfficeNext, backOfficeVars
    <2> QED
      BY <2>1, AlertStep
  <1> QED
    BY <1>1, <1>2, FailuresFollow, PTL DEF BackOfficeSpec

-----------------------------------------------------------------------------
(* LoanBookV1: the principal of an agreement is paid when it leaves the     *)
(* states before, and it never comes back to them.                          *)

BookRows == [state : LoanStates, collateralLocked : BOOLEAN, initialized : BOOLEAN,
             principalPaid : Nat, repaid : Nat]
Unpaid == {"none", "awaiting_collateral", "awaiting_funding"}
BookRowOK(row) ==
  /\ row.principalPaid <= 1
  /\ row.state \in Unpaid => row.principalPaid = 0
  /\ ~row.initialized => row.state = "none"
Locked == {a \in Agreements : agreement[a].collateralLocked}

BookInv ==
  /\ agreement \in [Agreements -> BookRows]
  /\ book \in [balance : Nat, paused : BOOLEAN]
  /\ \A a \in Agreements : BookRowOK(agreement[a])
  /\ book.balance = Total(Collateral, Locked)

(* A transaction writes the row of its agreement; the lock moves only with  *)
(* the collateral.                                                          *)
LEMMA BookRowWritten ==
  ASSUME BookInv, NEW a \in Agreements, NEW row \in BookRows, BookRowOK(row),
         agreement' = [agreement EXCEPT ![a] = row],
         book' \in [balance : Nat, paused : BOOLEAN],
         \/ row.collateralLocked = agreement[a].collateralLocked
              /\ book'.balance = book.balance
         \/ row.collateralLocked /\ ~agreement[a].collateralLocked
              /\ book'.balance = book.balance + Collateral[a]
         \/ ~row.collateralLocked /\ agreement[a].collateralLocked
              /\ book'.balance = book.balance - Collateral[a]
  PROVE  BookInv'
  <1>1. /\ agreement' \in [Agreements -> BookRows] /\ agreement'[a] = row
        /\ \A b \in Agreements : b # a => agreement'[b] = agreement[b]
    BY DEF BookInv
  <1>2. \A b \in Agreements : BookRowOK(agreement'[b])
    BY <1>1 DEF BookInv
  <1>3. /\ IsFiniteSet(Locked) /\ IsFiniteSet(Locked')
        /\ \A b \in Agreements : Collateral[b] \in Nat
    BY FS_Subset, LoanBookAssumption DEF Locked
  <1>4. \A b \in Locked \cup Locked' : Collateral[b] \in Nat
    BY <1>3 DEF Locked
  <1>5. book.balance = Total(Collateral, Locked) /\ book.balance \in Nat
    BY DEF BookInv
  <1>6. CASE row.collateralLocked = agreement[a].collateralLocked
               /\ book'.balance = book.balance
    <2>1. Locked' = Locked
      BY <1>1, <1>6 DEF Locked
    <2> QED
      BY <1>1, <1>2, <1>5, <1>6, <2>1 DEF BookInv, BookRowOK
  <1>7. CASE row.collateralLocked /\ ~agreement[a].collateralLocked
               /\ book'.balance = book.balance + Collateral[a]
    <2>1. Locked' = Locked \cup {a} /\ a \notin Locked
      BY <1>1, <1>7 DEF Locked
    <2>2. \A b \in Locked \cup {a} : Collateral[b] \in Nat
      BY <1>4, <2>1
    <2>3. Total(Collateral, Locked') = Total(Collateral, Locked) + Collateral[a]
      BY <1>3, <2>1, <2>2, TotalWith
    <2> QED
      BY <1>1, <1>2, <1>5, <1>7, <2>3 DEF BookInv, BookRowOK
  <1>8. CASE ~row.collateralLocked /\ agreement[a].collateralLocked
               /\ book'.balance = book.balance - Collateral[a]
    <2>1. Locked' = Locked \ {a} /\ a \in Locked
      BY <1>1, <1>8 DEF Locked
    <2>2. Total(Collateral, Locked) = Total(Collateral, Locked') + Collateral[a]
      BY <1>3, <1>4, <2>1, TotalWithout
    <2>3. Total(Collateral, Locked') \in Nat
      BY <1>3, <1>4, TotalType
    <2>4. book'.balance = Total(Collateral, Locked')
      BY <1>3, <1>5, <1>8, <2>2, <2>3
    <2> QED
      BY <1>1, <1>2, <2>4 DEF BookInv, BookRowOK
  <1> QED
    BY <1>6, <1>7, <1>8

LEMMA BookStep ==
  ASSUME BookInv, BookNext \/ UNCHANGED bookVars
  PROVE  BookInv'
  <1>1. CASE UNCHANGED bookVars
    BY <1>1 DEF BookInv, BookRowOK, Locked, bookVars
  <1>2. CASE PauseOrUnpauseBook
    <2>1. /\ agreement' = agreement /\ book'.balance = book.balance
          /\ book' \in [balance : Nat, paused : BOOLEAN]
      BY <1>2 DEF BookInv, PauseOrUnpauseBook
    <2> QED
      BY <2>1 DEF BookInv, BookRowOK, Locked
  <1>3. ASSUME NEW a \in Agreements,
               \/ CreateAgreement(a) \/ LockCollateral(a) \/ FundAgreement(a)
               \/ RecordRepayment(a) \/ ReleaseCollateral(a)
               \/ \E from \in SUBSET LoanStates, to \in LoanStates \ Unpaid : Move(a, from, to)
        PROVE  BookInv'
    <2>1. PICK old \in BookRows : old = agreement[a]
      BY DEF BookInv
    <2>2. BookRowOK(old) /\ Collateral[a] \in Nat
      BY <2>1, LoanBookAssumption DEF BookInv
    <2>3. book \in [balance : Nat, paused : BOOLEAN]
      BY DEF BookInv
    <2>4. CASE CreateAgreement(a)
      <3>1. PICK row : row = [old EXCEPT !.initialized = TRUE, !.state = "awaiting_collateral"]
        OBVIOUS
      <3>2. /\ row \in BookRows /\ row.initialized /\ row.state = "awaiting_collateral"
            /\ row.principalPaid = old.principalPaid
            /\ row.collateralLocked = old.collateralLocked
        BY <3>1 DEF BookRows, LoanStates
      <3>3. /\ agreement' = [agreement EXCEPT ![a] = row] /\ book' = book
            /\ ~old.initialized
        BY <2>1, <2>4, <3>1 DEF CreateAgreement, BookInv
      <3>4. BookRowOK(row)
        BY <2>2, <3>2, <3>3 DEF BookRowOK, Unpaid
      <3> QED
        BY <2>1, <2>3, <3>2, <3>3, <3>4, BookRowWritten
    <2>5. CASE LockCollateral(a)
      <3>1. PICK row : row = [old EXCEPT !.collateralLocked = TRUE, !.state = "awaiting_funding"]
        OBVIOUS
      <3>2. /\ row \in BookRows /\ row.collateralLocked /\ row.state = "awaiting_funding"
            /\ row.principalPaid = old.principalPaid /\ row.initialized = old.initialized
        BY <3>1 DEF BookRows, LoanStates
      <3>3. /\ agreement' = [agreement EXCEPT ![a] = row]
            /\ book' = [book EXCEPT !.balance = @ + Collateral[a]]
            /\ old.initialized /\ ~old.collateralLocked /\ old.state = "awaiting_collateral"
        BY <2>1, <2>5, <3>1 DEF LockCollateral, Callable, BookInv
      <3>4. /\ book' \in [balance : Nat, paused : BOOLEAN]
            /\ book'.balance = book.balance + Collateral[a]
        BY <2>2, <2>3, <3>3
      <3>5. BookRowOK(row)
        BY <2>2, <3>2, <3>3 DEF BookRowOK, Unpaid
      <3> QED
        BY <2>1, <3>2, <3>3, <3>4, <3>5, BookRowWritten
    <2>6. CASE FundAgreement(a)
      <3>0. PICK paid \in Nat : paid = old.principalPaid + 1
        BY DEF BookRows
      <3>1. PICK row : row = [old EXCEPT !.state = "active", !.principalPaid = paid]
        OBVIOUS
      <3>2. /\ row \in BookRows /\ row.state = "active"
            /\ row.principalPaid = paid /\ row.initialized = old.initialized
            /\ row.collateralLocked = old.collateralLocked
        BY <3>1 DEF BookRows, LoanStates
      <3>3. /\ agreement' = [agreement EXCEPT ![a] = row] /\ book' = book
            /\ old.initialized /\ old.state = "awaiting_funding"
        BY <2>1, <2>6, <3>0, <3>1 DEF FundAgreement, Fundable, Callable, BookInv
      <3>4. BookRowOK(row)
        BY <2>2, <3>0, <3>2, <3>3 DEF BookRowOK, Unpaid
      <3> QED
        BY <2>1, <2>3, <3>2, <3>3, <3>4, BookRowWritten
    <2>7. CASE RecordRepayment(a)
      <3>1. PICK row : row = [old EXCEPT !.repaid = @ + 1]
        OBVIOUS
      <3>2. /\ row \in BookRows /\ row.state = old.state
            /\ row.principalPaid = old.principalPaid /\ row.initialized = old.initialized
            /\ row.collateralLocked = old.collateralLocked
        BY <3>1 DEF BookRows
      <3>3. agreement' = [agreement EXCEPT ![a] = row] /\ book' = book
        BY <2>1, <2>7, <3>1 DEF RecordRepayment, BookInv
      <3>4. BookRowOK(row)
        BY <2>2, <3>2 DEF BookRowOK
      <3> QED
        BY <2>1, <2>3, <3>2, <3>3, <3>4, BookRowWritten
    <2>8. CASE ReleaseCollateral(a)
      <3>1. PICK row : row = [old EXCEPT !.state = "closed", !.collateralLocked = FALSE]
        OBVIOUS
      <3>2. /\ row \in BookRows /\ row.state = "closed" /\ ~row.collateralLocked
            /\ row.principalPaid = old.principalPaid /\ row.initialized = old.initialized
        BY <3>1 DEF BookRows, LoanStates
      <3>3. /\ agreement' = [agreement EXCEPT ![a] = row]
            /\ book' = [book EXCEPT !.balance = @ - Collateral[a]]
            /\ old.initialized /\ old.collateralLocked /\ book.balance >= Collateral[a]
        BY <2>1, <2>8, <3>1 DEF ReleaseCollateral, AfterRelease, Callable, BookInv
      <3>4. /\ book' \in [balance : Nat, paused : BOOLEAN]
            /\ book'.balance = book.balance - Collateral[a]
        BY <2>2, <2>3, <3>3
      <3>5. BookRowOK(row)
        BY <2>2, <3>2, <3>3 DEF BookRowOK, Unpaid
      <3> QED
        BY <2>1, <3>2, <3>3, <3>4, <3>5, BookRowWritten
    <2>9. ASSUME NEW from \in SUBSET LoanStates, NEW to \in LoanStates \ Unpaid, Move(a, from, to)
          PROVE  BookInv'
      <3>1. PICK row : row = [old EXCEPT !.state = to]
        OBVIOUS
      <3>2. /\ row \in BookRows /\ row.state = to
            /\ row.principalPaid = old.principalPaid /\ row.initialized = old.initialized
            /\ row.collateralLocked = old.collateralLocked
        BY <3>1 DEF BookRows
      <3>3. agreement' = [agreement EXCEPT ![a] = row] /\ book' = book /\ old.initialized
        BY <2>1, <2>9, <3>1 DEF Move, Callable, BookInv
      <3>4. BookRowOK(row)
        BY <2>2, <3>2, <3>3 DEF BookRowOK
      <3> QED
        BY <2>1, <2>3, <3>2, <3>3, <3>4, BookRowWritten
    <2> QED
      BY <1>3, <2>4, <2>5, <2>6, <2>7, <2>8, <2>9
  <1>4. \A a \in Agreements :
          \/ StartGracePeriod(a) \/ MarkDefaulted(a) \/ StartLiquidationReview(a)
          \/ ApproveLiquidation(a) \/ ExecuteLiquidation(a) \/ CloseAgreement(a)
          => \E from \in SUBSET LoanStates, to \in LoanStates \ Unpaid : Move(a, from, to)
    BY DEF StartGracePeriod, MarkDefaulted, StartLiquidationReview, ApproveLiquidation,
           ExecuteLiquidation, CloseAgreement, LoanStates, Unpaid
  <1> QED
    BY <1>1, <1>2, <1>3, <1>4 DEF BookNext

LEMMA BookInitial ==
  ASSUME BookInit
  PROVE  BookInv
  <1>1. Locked = {}
    BY DEF BookInit, Locked
  <1>2. Total(Collateral, {}) = 0
    BY TotalOfNothing
  <1>3. \A a \in Agreements : agreement[a] \in BookRows /\ BookRowOK(agreement[a])
    BY DEF BookInit, BookRows, BookRowOK, LoanStates
  <1>4. agreement \in [Agreements -> BookRows] /\ book \in [balance : Nat, paused : BOOLEAN]
    BY <1>3 DEF BookInit
  <1> QED
    BY <1>1, <1>2, <1>3, <1>4 DEF BookInv, BookInit

LEMMA BookFollows == BookInv => CollateralIsHeld
  BY DEF BookInv, BookRowOK, Locked, CollateralIsHeld

-----------------------------------------------------------------------------
(* StakingV1: a transaction moves the totals with the position it checks    *)
(* when it is mined, whatever its handler has read.                         *)

PositionRows == [initialized : BOOLEAN, staked : Nat, accrued : Nat]
ContractRows == [totalStaked : Int, rewardReserve : Nat, balance : Int, paused : BOOLEAN,
                 funded : Nat]
OpRows == [kind : {"none", "deposit", "withdraw", "claim", "emergency"},
           pool : StakedPools \cup {"none"}, amount : Nat,
           at : {"idle", "requested", "waiting"},
           row : {"none", "pending", "completed", "failed"},
           tx : {"none", "pending", "mined", "reverted"}]
OpOK(o) == o.kind # "none" => o.pool \in StakedPools
Staked == [k \in StakedPools |-> position[k].staked]
Accrued == [k \in StakedPools |-> position[k].accrued]

StakeOpsOK == op \in [StakeOps -> OpRows] /\ \A i \in StakeOps : OpOK(op[i])
StakeInv ==
  /\ StakeOpsOK
  /\ position \in [StakedPools -> PositionRows]
  /\ stakingV1 \in ContractRows
  /\ stakingV1.totalStaked = Total(Staked, StakedPools)
  /\ stakingV1.balance = stakingV1.totalStaked + stakingV1.rewardReserve
                           + Total(Accrued, StakedPools)

(* Handlers only write their calls.                                         *)
LEMMA OpWritten ==
  ASSUME StakeOpsOK, NEW i \in StakeOps, NEW row \in OpRows, OpOK(row),
         op' = [op EXCEPT ![i] = row]
  PROVE  StakeOpsOK'
  <1>1. /\ op' \in [StakeOps -> OpRows] /\ op'[i] = row
        /\ \A j \in StakeOps : j # i => op'[j] = op[j]
    BY DEF StakeOpsOK
  <1> QED
    BY <1>1 DEF StakeOpsOK, OpOK

LEMMA BeginStakeOpStep ==
  ASSUME StakeInv, NEW i \in StakeOps, NEW k \in StakedPools, NEW n \in Nat,
         NEW kind \in {"deposit", "withdraw", "claim", "emergency"},
         NEW state \in {"none", "pending"}, BeginStakeOp(i, kind, k, n, state)
  PROVE  StakeOpsOK'
  <1>1. PICK row : row = [kind |-> kind, pool |-> k, amount |-> n, at |-> "requested",
                          row |-> state, tx |-> "none"]
    OBVIOUS
  <1>2. row \in OpRows /\ OpOK(row)
    BY <1>1 DEF OpRows, OpOK
  <1>3. op' = [op EXCEPT ![i] = row]
    BY <1>1 DEF BeginStakeOp
  <1> QED
    BY <1>2, <1>3, OpWritten DEF StakeInv

LEMMA OpMoves ==
  ASSUME StakeInv, NEW i \in StakeOps,
         \/ SendTransaction(i) \/ RecordCompleted(i) \/ RecordFailed(i)
         \/ StakeHandlerCrash(i) \/ Revert(i) \/ \E kinds : Mining(i, kinds)
  PROVE  StakeOpsOK'
  <1>1. PICK old \in OpRows : old = op[i]
    BY DEF StakeInv, StakeOpsOK
  <1>2. op \in [StakeOps -> OpRows] /\ StakeOpsOK /\ OpOK(old)
    BY <1>1 DEF StakeInv, StakeOpsOK
  <1>3. CASE SendTransaction(i)
    <2>1. PICK new : new = [old EXCEPT !.at = "waiting", !.tx = "pending"]
      OBVIOUS
    <2>2. new \in OpRows /\ new.kind = old.kind /\ new.pool = old.pool
      BY <2>1 DEF OpRows
    <2>3. op' = [op EXCEPT ![i] = new]
      BY <1>1, <1>2, <1>3, <2>1 DEF SendTransaction
    <2> QED
      BY <1>2, <2>2, <2>3, OpWritten DEF OpOK
  <1>4. CASE RecordCompleted(i)
    <2>1. PICK new : new = [old EXCEPT !.at = "idle", !.row = IF @ = "pending" THEN "completed" ELSE @]
      OBVIOUS
    <2>2. new \in OpRows /\ new.kind = old.kind /\ new.pool = old.pool
      BY <2>1 DEF OpRows
    <2>3. op' = [op EXCEPT ![i] = new]
      BY <1>1, <1>2, <1>4, <2>1 DEF RecordCompleted
    <2> QED
      BY <1>2, <2>2, <2>3, OpWritten DEF OpOK
  <1>5. CASE RecordFailed(i)
    <2>1. PICK new : new = [old EXCEPT !.at = "idle", !.row = IF @ = "pending" THEN "failed" ELSE @]
      OBVIOUS
    <2>2. new \in OpRows /\ new.kind = old.kind /\ new.pool = old.pool
      BY <2>1 DEF OpRows
    <2>3. op' = [op EXCEPT ![i] = new]
      BY <1>1, <1>2, <1>5, <2>1 DEF RecordFailed
    <2> QED
      BY <1>2, <2>2, <2>3, OpWritten DEF OpOK
  <1>6. CASE StakeHandlerCrash(i)
    <2>1. PICK new : new = [old EXCEPT !.at = "idle"]
      OBVIOUS
    <2>2. new \in OpRows /\ new.kind = old.kind /\ new.pool = old.pool
      BY <2>1 DEF OpRows
    <2>3. op' = [op EXCEPT ![i] = new]
      BY <1>1, <1>2, <1>6, <2>1 DEF StakeHandlerCrash
    <2> QED
      BY <1>2, <2>2, <2>3, OpWritten DEF OpOK
  <1>7. CASE Revert(i)
    <2>1. PICK new : new = [old EXCEPT !.tx = "reverted"]
      OBVIOUS
    <2>2. new \in OpRows /\ new.kind = old.kind /\ new.pool = old.pool
      BY <2>1 DEF OpRows
    <2>3. op' = [op EXCEPT ![i] = new]
      BY <1>1, <1>2, <1>7, <2>1 DEF Revert
    <2> QED
      BY <1>2, <2>2, <2>3, OpWritten DEF OpOK
  <1>8. CASE \E kinds : Mining(i, kinds)
    <2>1. PICK new : new = [old EXCEPT !.tx = "mined"]
      OBVIOUS
    <2>2. new \in OpRows /\ new.kind = old.kind /\ new.pool = old.pool
      BY <2>1 DEF OpRows
    <2>3. op' = [op EXCEPT ![i] = new]
      BY <1>1, <1>2, <1>8, <2>1 DEF Mining
    <2> QED
      BY <1>2, <2>2, <2>3, OpWritten DEF OpOK
  <1> QED
    BY <1>3, <1>4, <1>5, <1>6, <1>7, <1>8

(* A position and the totals of the contract move together.                 *)
LEMMA PositionWritten ==
  ASSUME StakeInv, StakeOpsOK', NEW k \in StakedPools, NEW old \in PositionRows,
         old = position[k], NEW row \in PositionRows, NEW totals \in ContractRows,
         position' = [position EXCEPT ![k] = row], stakingV1' = totals,
         totals.totalStaked = stakingV1.totalStaked - old.staked + row.staked,
         totals.balance - totals.totalStaked - totals.rewardReserve
           = stakingV1.balance - stakingV1.totalStaked - stakingV1.rewardReserve
               - old.accrued + row.accrued
  PROVE  StakeInv'
  <1>1. /\ position' \in [StakedPools -> PositionRows] /\ position'[k] = row
        /\ \A b \in StakedPools : b # k => position'[b] = position[b]
    BY DEF StakeInv
  <1>2. IsFiniteSet(StakedPools)
    BY StakingAssumption
  <1>3. PICK f : f = [b \in StakedPools |-> position[b].staked]
    OBVIOUS
  <1>4. PICK g : g = [b \in StakedPools |-> position'[b].staked]
    OBVIOUS
  <1>5. /\ \A b \in StakedPools : f[b] \in Nat /\ g[b] \in Nat /\ (b # k => g[b] = f[b])
        /\ f[k] = old.staked /\ g[k] = row.staked
    BY <1>1, <1>3, <1>4 DEF StakeInv, PositionRows
  <1>6. Total(g, StakedPools) = Total(f, StakedPools) - f[k] + g[k]
    BY <1>2, <1>5, TotalChange
  <1>7. PICK p : p = [b \in StakedPools |-> position[b].accrued]
    OBVIOUS
  <1>8. PICK q : q = [b \in StakedPools |-> position'[b].accrued]
    OBVIOUS
  <1>9. /\ \A b \in StakedPools : p[b] \in Nat /\ q[b] \in Nat /\ (b # k => q[b] = p[b])
        /\ p[k] = old.accrued /\ q[k] = row.accrued
    BY <1>1, <1>7, <1>8 DEF StakeInv, PositionRows
  <1>10. Total(q, StakedPools) = Total(p, StakedPools) - p[k] + q[k]
    BY <1>2, <1>9, TotalChange
  <1>11. Total(f, StakedPools) \in Nat /\ Total(p, StakedPools) \in Nat
    BY <1>2, <1>5, <1>9, TotalType
  <1>12. f = Staked /\ g = Staked' /\ p = Accrued /\ q = Accrued'
    BY <1>3, <1>4, <1>7, <1>8 DEF Staked, Accrued
  <1>13. PICK was \in ContractRows : was = stakingV1
    BY DEF StakeInv
  <1>14. /\ was.totalStaked = Total(f, StakedPools)
         /\ was.balance = was.totalStaked + was.rewardReserve + Total(p, StakedPools)
    BY <1>12, <1>13 DEF StakeInv
  <1>15. /\ totals.totalStaked = Total(g, StakedPools)
         /\ totals.balance = totals.totalStaked + totals.rewardReserve + Total(q, StakedPools)
    <2>1. /\ was.totalStaked \in Int /\ was.rewardReserve \in Int /\ was.balance \in Int
          /\ totals.totalStaked \in Int /\ totals.rewardReserve \in Int
          /\ totals.balance \in Int /\ old.staked \in Int /\ old.accrued \in Int
          /\ row.staked \in Int /\ row.accrued \in Int
      BY DEF ContractRows, PositionRows
    <2>2. Total(g, StakedPools) = Total(f, StakedPools) - old.staked + row.staked
      BY <1>5, <1>6
    <2>3. Total(q, StakedPools) = Total(p, StakedPools) - old.accrued + row.accrued
      BY <1>9, <1>10
    <2> QED
      BY <1>11, <1>13, <1>14, <2>1, <2>2, <2>3
  <1> QED
    BY <1>1, <1>12, <1>15 DEF StakeInv

LEMMA StakeStep ==
  ASSUME StakeInv, StakingNext \/ UNCHANGED stakingVars
  PROVE  StakeInv'
  <1>1. PICK was \in ContractRows : was = stakingV1
    BY DEF StakeInv
  <1>2. /\ was.totalStaked \in Int /\ was.rewardReserve \in Nat /\ was.balance \in Int
        /\ was.paused \in BOOLEAN /\ was.funded \in Nat
    BY DEF ContractRows
  <1>3. ASSUME StakeOpsOK', UNCHANGED <<position, stakingV1>> PROVE StakeInv'
    BY <1>3 DEF StakeInv, Staked, Accrued
  <1>4. CASE UNCHANGED stakingVars
    BY <1>3, <1>4 DEF stakingVars, StakeInv, StakeOpsOK, OpOK
  <1>5. ASSUME NEW i \in StakeOps, NEW k \in StakedPools,
               \/ BeginClaimReward(i, k) \/ BeginEmergencyWithdraw(i, k)
               \/ \E n \in Amounts : BeginDeposit(i, k, n) \/ BeginWithdraw(i, k, n)
        PROVE  StakeInv'
    <2>1. position[k].staked \in Nat /\ 0 \in Nat /\ Amounts \subseteq Nat
      BY StakingAssumption DEF StakeInv, PositionRows
    <2>2. PICK n \in Nat, kind \in {"deposit", "withdraw", "claim", "emergency"},
               state \in {"none", "pending"} : BeginStakeOp(i, kind, k, n, state)
      BY <1>5, <2>1 DEF BeginClaimReward, BeginEmergencyWithdraw, BeginDeposit, BeginWithdraw
    <2> QED
      BY <1>3, <2>2, BeginStakeOpStep DEF BeginStakeOp
  <1>6. ASSUME NEW i \in StakeOps,
               \/ SendTransaction(i) \/ RecordCompleted(i) \/ RecordFailed(i)
               \/ StakeHandlerCrash(i) \/ Revert(i)
        PROVE  StakeInv'
    BY <1>3, <1>6, OpMoves
       DEF SendTransaction, RecordCompleted, RecordFailed, StakeHandlerCrash, Revert
  <1>7. ASSUME NEW i \in StakeOps, RecordDeposit(i) \/ RecordWithdrawal(i) \/ ClaimReward(i)
        PROVE  StakeInv'
    <2>1. StakeOpsOK'
      BY <1>7, OpMoves DEF RecordDeposit, RecordWithdrawal, ClaimReward
    <2>2. PICK o \in OpRows : o = op[i]
      BY DEF StakeInv, StakeOpsOK
    <2>3. PICK k \in StakedPools : k = o.pool
      BY <1>7, <2>2 DEF StakeInv, StakeOpsOK, OpOK, RecordDeposit, RecordWithdrawal,
                        ClaimReward, Mining
    <2>4. PICK n \in Nat : n = o.amount
      BY DEF OpRows
    <2>5. PICK old \in PositionRows : old = position[k]
      BY DEF StakeInv
    <2>6. /\ old.staked \in Nat /\ old.accrued \in Nat /\ old.initialized \in BOOLEAN
      BY DEF PositionRows
    <2>7. CASE RecordDeposit(i)
      <3>2. PICK s \in Nat, t \in Int, b \in Int :
              s = old.staked + n /\ t = was.totalStaked + n /\ b = was.balance + n
        BY <1>2, <2>6
      <3>3. PICK row : row = [old EXCEPT !.initialized = TRUE, !.staked = s]
        OBVIOUS
      <3>4. PICK totals : totals = [was EXCEPT !.totalStaked = t, !.balance = b]
        OBVIOUS
      <3>5. /\ row \in PositionRows /\ row.staked = s /\ row.accrued = old.accrued
        BY <2>6, <3>2, <3>3 DEF PositionRows
      <3>6. /\ totals \in ContractRows /\ totals.totalStaked = t /\ totals.balance = b
            /\ totals.rewardReserve = was.rewardReserve
        BY <1>2, <3>2, <3>4 DEF ContractRows
      <3>7. position' = [position EXCEPT ![k] = row]
        BY <2>2, <2>3, <2>4, <2>5, <2>7, <3>2, <3>3 DEF RecordDeposit, StakeInv
      <3>8. stakingV1' = totals
        BY <1>1, <2>2, <2>3, <2>4, <2>5, <2>7, <3>2, <3>4 DEF RecordDeposit, StakeInv
      <3>9. /\ totals.totalStaked = was.totalStaked - old.staked + row.staked
            /\ totals.balance - totals.totalStaked - totals.rewardReserve
                 = was.balance - was.totalStaked - was.rewardReserve - old.accrued + row.accrued
        BY <1>2, <2>6, <3>2, <3>5, <3>6
      <3> QED
        BY <1>1, <2>1, <2>5, <3>5, <3>6, <3>7, <3>8, <3>9, PositionWritten
    <2>8. CASE RecordWithdrawal(i)
      <3>1. old.staked >= n
        BY <2>2, <2>3, <2>4, <2>5, <2>8 DEF RecordWithdrawal, Mining, ContractAccepts
      <3>2. PICK s \in Nat, t \in Int, b \in Int :
              s = old.staked - n /\ t = was.totalStaked - n /\ b = was.balance - n
        BY <3>1, <1>2, <2>6
      <3>3. PICK row : row = [old EXCEPT !.staked = s]
        OBVIOUS
      <3>4. PICK totals : totals = [was EXCEPT !.totalStaked = t, !.balance = b]
        OBVIOUS
      <3>5. /\ row \in PositionRows /\ row.staked = s /\ row.accrued = old.accrued
        BY <2>6, <3>2, <3>3 DEF PositionRows
      <3>6. /\ totals \in ContractRows /\ totals.totalStaked = t /\ totals.balance = b
            /\ totals.rewardReserve = was.rewardReserve
        BY <1>2, <3>2, <3>4 DEF ContractRows
      <3>7. position' = [position EXCEPT ![k] = row]
        BY <2>2, <2>3, <2>4, <2>5, <2>8, <3>2, <3>3 DEF RecordWithdrawal, StakeInv
      <3>8. stakingV1' = totals
        BY <1>1, <2>2, <2>3, <2>4, <2>5, <2>8, <3>2, <3>4 DEF RecordWithdrawal, StakeInv
      <3>9. /\ totals.totalStaked = was.totalStaked - old.staked + row.staked
            /\ totals.balance - totals.totalStaked - totals.rewardReserve
                 = was.balance - was.totalStaked - was.rewardReserve - old.accrued + row.accrued
        BY <1>2, <2>6, <3>2, <3>5, <3>6
      <3> QED
        BY <1>1, <2>1, <2>5, <3>5, <3>6, <3>7, <3>8, <3>9, PositionWritten
    <2>9. CASE ClaimReward(i)
      <3>2. PICK b \in Int :
              b = was.balance - old.accrued
        BY <1>2, <2>6
      <3>3. PICK row : row = [old EXCEPT !.accrued = 0]
        OBVIOUS
      <3>4. PICK totals : totals = [was EXCEPT !.balance = b]
        OBVIOUS
      <3>5. /\ row \in PositionRows /\ row.staked = old.staked /\ row.accrued = 0
        BY <2>6, <3>2, <3>3 DEF PositionRows
      <3>6. /\ totals \in ContractRows /\ totals.totalStaked = was.totalStaked /\ totals.balance = b
            /\ totals.rewardReserve = was.rewardReserve
        BY <1>2, <3>2, <3>4 DEF ContractRows
      <3>7. position' = [position EXCEPT ![k] = row]
        BY <2>2, <2>3, <2>4, <2>5, <2>9, <3>2, <3>3 DEF ClaimReward, AfterClaim, StakeInv
      <3>8. stakingV1' = totals
        BY <1>1, <2>2, <2>3, <2>4, <2>5, <2>9, <3>2, <3>4 DEF ClaimReward, AfterClaim, StakeInv
      <3>9. /\ totals.totalStaked = was.totalStaked - old.staked + row.staked
            /\ totals.balance - totals.totalStaked - totals.rewardReserve
                 = was.balance - was.totalStaked - was.rewardReserve - old.accrued + row.accrued
        BY <1>2, <2>6, <3>2, <3>5, <3>6
      <3> QED
        BY <1>1, <2>1, <2>5, <3>5, <3>6, <3>7, <3>8, <3>9, PositionWritten
    <2> QED
      BY <1>7, <2>7, <2>8, <2>9
  <1>8. ASSUME NEW k \in StakedPools, RecordRewardAccrual(k) PROVE StakeInv'
    <2>1. StakeOpsOK'
      BY <1>8 DEF RecordRewardAccrual, StakeInv, StakeOpsOK, OpOK
    <2>2. PICK old \in PositionRows : old = position[k]
      BY DEF StakeInv
    <2>3. /\ old.staked \in Nat /\ old.accrued \in Nat /\ old.initialized \in BOOLEAN
      BY DEF PositionRows
    <2>4. was.rewardReserve >= 1
      BY <1>1, <1>8 DEF RecordRewardAccrual
    <2>5. PICK r \in Nat, p \in Nat : r = old.accrued + 1 /\ p = was.rewardReserve - 1
      BY <1>2, <2>3, <2>4
    <2>6. PICK row, totals : /\ row = [old EXCEPT !.accrued = r]
                             /\ totals = [was EXCEPT !.rewardReserve = p]
      OBVIOUS
    <2>7. /\ row \in PositionRows /\ row.staked = old.staked /\ row.accrued = r
          /\ totals \in ContractRows /\ totals.totalStaked = was.totalStaked
          /\ totals.balance = was.balance /\ totals.rewardReserve = p
      BY <1>2, <2>3, <2>5, <2>6 DEF PositionRows, ContractRows
    <2>8. position' = [position EXCEPT ![k] = row]
      BY <1>8, <2>2, <2>5, <2>6 DEF RecordRewardAccrual, StakeInv
    <2>9. stakingV1' = totals
      BY <1>1, <1>8, <2>5, <2>6 DEF RecordRewardAccrual
    <2>10. /\ totals.totalStaked = was.totalStaked - old.staked + row.staked
           /\ totals.balance - totals.totalStaked - totals.rewardReserve
                = was.balance - was.totalStaked - was.rewardReserve - old.accrued + row.accrued
      BY <1>2, <2>3, <2>5, <2>7
    <2> QED
      BY <1>1, <2>1, <2>2, <2>7, <2>8, <2>9, <2>10, PositionWritten
  <1>9. ASSUME NEW k \in StakedPools, NEW status \in StakedPoolStatuses, SetPoolStatus(k, status)
        PROVE  StakeInv'
    BY <1>3, <1>9 DEF SetPoolStatus, StakeInv, StakeOpsOK, OpOK
  <1>10. CASE FundRewards \/ PauseOrUnpause
    <2>1. /\ StakeOpsOK' /\ position' = position
      BY <1>10 DEF FundRewards, PauseOrUnpause, StakeInv, StakeOpsOK, OpOK
    <2>2. PICK totals : totals = stakingV1'
      OBVIOUS
    <2>3. /\ totals \in ContractRows /\ totals.totalStaked = was.totalStaked
          /\ totals.balance - totals.rewardReserve = was.balance - was.rewardReserve
      <3>1. CASE FundRewards
        <4>1. totals = [totalStaked |-> was.totalStaked,
                        rewardReserve |-> was.rewardReserve + 1,
                        balance |-> was.balance + 1, paused |-> was.paused,
                        funded |-> was.funded + 1]
          BY <1>1, <2>2, <3>1 DEF FundRewards, ContractRows
        <4> QED
          BY <1>2, <4>1 DEF ContractRows
      <3>2. CASE PauseOrUnpause
        <4>1. totals = [totalStaked |-> was.totalStaked,
                        rewardReserve |-> was.rewardReserve, balance |-> was.balance,
                        paused |-> ~was.paused, funded |-> was.funded]
          BY <1>1, <2>2, <3>2 DEF PauseOrUnpause, ContractRows
        <4> QED
          BY <1>2, <4>1 DEF ContractRows
      <3> QED
        BY <1>10, <3>1, <3>2
    <2>4. Staked' = Staked /\ Accrued' = Accrued
      BY <2>1 DEF Staked, Accrued
    <2>5. Total(Accrued, StakedPools) \in Nat
      <3>1. \A k \in StakedPools : Accrued[k] \in Nat
        BY DEF StakeInv, Accrued, PositionRows
      <3> QED
        BY <3>1, StakingAssumption, TotalType
    <2>6. /\ was.totalStaked = Total(Staked, StakedPools)
          /\ was.balance = was.totalStaked + was.rewardReserve + Total(Accrued, StakedPools)
      BY <1>1 DEF StakeInv
    <2>7. /\ totals.rewardReserve \in Nat /\ totals.balance \in Int
      BY <2>3 DEF ContractRows
    <2>8. totals.balance = totals.totalStaked + totals.rewardReserve
                             + Total(Accrued, StakedPools)
      BY <1>2, <2>3, <2>5, <2>6, <2>7
    <2> QED
      BY <2>1, <2>2, <2>3, <2>4, <2>6, <2>8 DEF StakeInv
  <1> QED
    BY <1>4, <1>5, <1>6, <1>7, <1>8, <1>9, <1>10 DEF StakingNext

LEMMA StakeInitial ==
  ASSUME StakingInit
  PROVE  StakeInv
  <1>1. \A k \in StakedPools : Staked[k] = 0 /\ Accrued[k] = 0
    BY DEF StakingInit, Staked, Accrued
  <1>2. Total(Staked, StakedPools) = 0 /\ Total(Accrued, StakedPools) = 0
    BY <1>1, TotalOfNothing
  <1>3. NoOp \in OpRows /\ OpOK(NoOp)
    BY DEF NoOp, OpRows, OpOK
  <1>4. StakeOpsOK
    BY <1>3 DEF StakingInit, StakeOpsOK
  <1>5. position \in [StakedPools -> PositionRows]
    BY DEF StakingInit, PositionRows
  <1>6. /\ stakingV1 \in ContractRows /\ stakingV1.totalStaked = 0
        /\ stakingV1.balance = 0 /\ stakingV1.rewardReserve = 0
    BY DEF StakingInit, ContractRows
  <1> QED
    BY <1>2, <1>4, <1>5, <1>6 DEF StakeInv

LEMMA StakeFollows == StakeInv => StakeIsBacked
  BY DEF StakeInv, Staked, Accrued, PositionRows, StakeIsBacked

(* Theorem: LoanBookV1 holds the collateral it has locked and pays the      *)
(* principal of an agreement at most once (lockCollateral, fundAgreement,   *)
(* releaseCollateral).                                                      *)
THEOREM BookCorrect == BackOfficeSpec => []CollateralIsHeld
  <1>1. BackOfficeInit => BookInv
    BY BookInitial DEF BackOfficeInit
  <1>2. BookInv /\ [BackOfficeNext]_backOfficeVars => BookInv'
    <2>1. [BackOfficeNext]_backOfficeVars => BookNext \/ UNCHANGED bookVars
      BY DEF BackOfficeNext, backOfficeVars
    <2> QED
      BY <2>1, BookStep
  <1> QED
    BY <1>1, <1>2, BookFollows, PTL DEF BackOfficeSpec

(* Theorem: the ETH of StakingV1 is the stakes, the accrued rewards and the *)
(* reserve, whatever calls are under way (deposit, withdraw, claimReward,   *)
(* emergencyWithdraw and the contract functions they call).                 *)
THEOREM StakeCorrect == BackOfficeSpec => []StakeIsBacked
  <1>1. BackOfficeInit => StakeInv
    BY StakeInitial DEF BackOfficeInit
  <1>2. StakeInv /\ [BackOfficeNext]_backOfficeVars => StakeInv'
    <2>1. [BackOfficeNext]_backOfficeVars => StakingNext \/ UNCHANGED stakingVars
      BY DEF BackOfficeNext, backOfficeVars
    <2> QED
      BY <2>1, StakeStep
  <1> QED
    BY <1>1, <1>2, StakeFollows, PTL DEF BackOfficeSpec
=============================================================================
