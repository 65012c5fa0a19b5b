--------------------------- MODULE IncidentPackages ---------------------------
(***************************************************************************)
(* CustomerAccountIncidentPackageReleaseWorkflowService: the file of a     *)
(* customer's incident leaves the bank when one operator has asked for it  *)
(* and another one has approved it, until the approval expires.  No        *)
(* handler uses a transaction: each reads the row, checks it, and writes   *)
(* it by id.  The contents of a file are fixed when it is requested.       *)
(***************************************************************************)
EXTENDS Staff

CONSTANT Packages      \* CustomerAccountIncidentPackageRelease rows

VARIABLES package,      \* the rows
          packageCalls  \* calls whose handler has read its row

packageVars == <<package, packageCalls>>

NoPackage == [status |-> "absent", by |-> "none", approver |-> "none",
              releasedBy |-> "none", expired |-> FALSE]
PackageOps == {"approve", "reject", "release", "expire"}

PackageTypeOK ==
  /\ package \in [Packages ->
       [status : {"absent", "pending_approval", "approved", "rejected",
                  "released", "expired"},
        by : Operators \cup {"none"}, approver : Operators \cup {"none"},
        releasedBy : Operators \cup {"none"}, expired : BOOLEAN]]
  /\ packageCalls \subseteq Packages \X Operators \X PackageOps

PackageInit ==
  /\ package = [p \in Packages |-> NoPackage]
  /\ packageCalls = {}

-----------------------------------------------------------------------------
CreateReleaseRequest(p, o) ==
  /\ package[p] = NoPackage
  /\ package' = [package EXCEPT ![p].status = "pending_approval", ![p].by = o]
  /\ UNCHANGED packageCalls

(* Mutant: operators approve what they asked for themselves. *)
MayCallAny(p, o, op) ==
  CASE op \in {"approve", "reject"} -> package[p].status = "pending_approval"
    [] op = "release" -> package[p].status = "approved" /\ ~package[p].expired
    [] op = "expire" -> package[p].status = "approved" /\ package[p].expired

(* Every call that meets an approved and expired row writes it as expired   *)
(* and is refused for it: the op expire.                                    *)
MayCall(p, o, op) ==
  CASE op \in {"approve", "reject"} ->
         package[p].status = "pending_approval" /\ package[p].by # o
    [] op = "release" -> package[p].status = "approved" /\ ~package[p].expired
    [] op = "expire" -> package[p].status = "approved" /\ package[p].expired

BeginPackageCall(p, o, op) ==
  /\ MayCall(p, o, op)
  /\ packageCalls' = packageCalls \cup {<<p, o, op>>}
  /\ UNCHANGED package

CommitPackageCall(c) ==
  LET p == c[1]
      o == c[2] IN
  /\ packageCalls' = packageCalls \ {c}
  /\ package' = [package EXCEPT ![p] =
       CASE c[3] = "approve" -> [@ EXCEPT !.status = "approved", !.approver = o,
                                          !.expired = FALSE]
         [] c[3] = "reject" -> [@ EXCEPT !.status = "rejected", !.expired = FALSE]
         [] c[3] = "release" -> [@ EXCEPT !.status = "released", !.releasedBy = o]
         [] c[3] = "expire" -> [@ EXCEPT !.status = "expired"]]

PackageRunsOut(p) ==
  /\ package[p].status = "approved" /\ ~package[p].expired
  /\ package' = [package EXCEPT ![p].expired = TRUE]
  /\ UNCHANGED packageCalls

PackageNext ==
  \/ \E p \in Packages, o \in Operators :
       \/ CreateReleaseRequest(p, o)
       \/ \E op \in PackageOps : BeginPackageCall(p, o, op)
  \/ \E c \in packageCalls : CommitPackageCall(c)
  \/ \E p \in Packages : PackageRunsOut(p)

PackageSpec == PackageInit /\ [][PackageNext]_packageVars

(* The file of a customer left the bank with the consent of an operator     *)
(* other than the one who asked for it, whichever decisions overlapped.     *)
PackageHadTwoOperators ==
  \A p \in Packages : package[p].releasedBy # "none" =>
    package[p].approver \notin {"none", package[p].by}
=============================================================================
