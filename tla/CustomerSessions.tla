--------------------------- MODULE CustomerSessions ---------------------------
(***************************************************************************)
(* AuthService: the sessions of a customer and the governed recovery of    *)
(* the customer's MFA.  A login or a refresh reads the customer's          *)
(* authTokenVersion and creates the session later; password changes,       *)
(* revoke-all and recoveries in between raise the version and revoke the   *)
(* sessions they find, and the enrollment of a second factor does so in    *)
(* three statements of their own.  Decisions on a recovery read the request*)
(* and then update it by id.                                               *)
(***************************************************************************)
EXTENDS Staff

CONSTANTS MaxSessions,   \* bound: CustomerAuthSession rows
          MaxVersion,    \* bound: authTokenVersion
          MaxIssuing,    \* bound: calls that are about to create a session
          Recoveries     \* CustomerMfaRecoveryRequest rows

ASSUME SessionAssumption ==
  MaxSessions \in Nat /\ MaxVersion \in Nat /\ MaxIssuing \in Nat

SessionIds == 1..MaxSessions

VARIABLES authTokenVersion,
          session,     \* the rows; loggedInAt is the version the login found
          issuing,     \* calls that have still to create their session
          recovery,    \* the recovery requests
          recovering,  \* decisions that have read their request
          recovered    \* recoveries executed, with the operator who did it

sessionVars == <<authTokenVersion, session, issuing, recovery, recovering, recovered>>

(* A web session has a cookie, a mobile one a refresh token (and a family),  *)
(* the one that follows an enrollment only its access token.                *)
NoSession == [status |-> "absent", version |-> 0, kind |-> "none", family |-> 0,
              expired |-> FALSE, loggedInAt |-> 0]
NoRecovery == [status |-> "absent", by |-> "none", approver |-> "none"]

SessionTypeOK ==
  /\ authTokenVersion \in 0..MaxVersion
  /\ session \in [SessionIds -> [status : {"absent", "live", "revoked"},
                                 version : 0..MaxVersion,
                                 kind : {"none", "web", "mobile", "token"},
                                 family : SessionIds \cup {0}, expired : BOOLEAN, loggedInAt : 0..MaxVersion]]
  /\ Cardinality(issuing) <= MaxIssuing
  /\ recovery \in [Recoveries ->
       [status : {"absent", "pending_approval", "approved", "rejected", "executed"},
        by : Operators \cup {"none"}, approver : Operators \cup {"none"}]]
  /\ recovering \subseteq Recoveries \X Operators \X {"approved", "rejected", "executed"}
  /\ recovered \subseteq Recoveries \X Operators

SessionInit ==
  /\ authTokenVersion = 0
  /\ session = [s \in SessionIds |-> NoSession]
  /\ issuing = {}
  /\ recovery = [r \in Recoveries |-> NoRecovery]
  /\ recovering = {}
  /\ recovered = {}

-----------------------------------------------------------------------------
StartIssuing(h) ==
  /\ Cardinality(issuing) < MaxIssuing
  /\ issuing' = issuing \cup {h}

(* finalizeCustomerLogin reads the flow and its customer. *)
BeginLogin(kind) ==
  /\ StartIssuing([version |-> authTokenVersion, from |-> 0, kind |-> kind,
                   replaces |-> FALSE, loggedInAt |-> authTokenVersion])
  /\ UNCHANGED <<authTokenVersion, session, recovery, recovering, recovered>>

Revoke(S) == session' = [s \in SessionIds |->
  IF s \in S /\ session[s].status = "live" THEN [session[s] EXCEPT !.status = "revoked"]
  ELSE session[s]]

(* refreshMobileSession: a token that was used before revokes its family;   *)
(* one of an old version, or expired, is revoked; else it is replaced.      *)
Refresh(s) ==
  /\ session[s].kind = "mobile"
  /\ IF session[s].status = "revoked"
       THEN /\ Revoke({t \in SessionIds : session[t].family = session[s].family})
            /\ UNCHANGED issuing
     ELSE IF session[s].version # authTokenVersion \/ session[s].expired
       THEN Revoke({s}) /\ UNCHANGED issuing
       ELSE /\ StartIssuing([version |-> session[s].version, from |-> s, kind |-> "mobile",
                            replaces |-> FALSE, loggedInAt |-> session[s].loggedInAt])
            /\ UNCHANGED session
  /\ UNCHANGED <<authTokenVersion, recovery, recovering, recovered>>

(* verifyTotpEnrollment, verifyEmailEnrollment: the customer's update, ... *)
VerifyEnrollment ==
  /\ authTokenVersion < MaxVersion
  /\ authTokenVersion' = authTokenVersion + 1
  /\ StartIssuing([version |-> authTokenVersion + 1, from |-> 0, kind |-> "token",
                   replaces |-> TRUE, loggedInAt |-> authTokenVersion + 1])
  /\ UNCHANGED <<session, recovery, recovering, recovered>>

(* ... then replaceActiveCustomerSessions, which revokes before it creates. *)
ReplaceActiveCustomerSessions(h) ==
  /\ h \in issuing /\ h.replaces
  /\ Revoke(SessionIds)
  /\ issuing' = (issuing \ {h}) \cup {[h EXCEPT !.replaces = FALSE]}
  /\ UNCHANGED <<authTokenVersion, recovery, recovering, recovered>>

(* Mutant: the session is created with the version of the day. *)
VersionAtCreation(h) == authTokenVersion

VersionRead(h) == h.version

(* The create of each, with the update that retires the refreshed one. *)
CreateSession(h, s) ==
  /\ h \in issuing /\ ~h.replaces
  /\ issuing' = issuing \ {h}
  /\ session[s].status = "absent" /\ \A t \in SessionIds : t < s => session[t].status # "absent"
  /\ LET retired == IF h.from = 0 THEN session
                    ELSE [session EXCEPT ![h.from].status = "revoked"]
     IN session' = [retired EXCEPT ![s] =
          [status |-> "live", version |-> VersionRead(h), kind |-> h.kind,
           family |-> IF h.from # 0 THEN session[h.from].family
                      ELSE IF h.kind = "mobile" THEN s ELSE 0,
           expired |-> FALSE, loggedInAt |-> h.loggedInAt]]
  /\ UNCHANGED <<authTokenVersion, recovery, recovering, recovered>>

(* validateToken and validateWebSession let a request through. *)
SessionUsable(s) ==
  /\ session[s].status = "live" /\ ~session[s].expired
  /\ session[s].version = authTokenVersion

(* A web session that validateWebSession refuses is revoked. *)
RefuseWebSession(s) ==
  /\ session[s].status = "live" /\ session[s].kind = "web" /\ ~SessionUsable(s)
  /\ Revoke({s})
  /\ UNCHANGED <<authTokenVersion, issuing, recovery, recovering, recovered>>

RevokeLive(s) ==
  /\ session[s].status = "live"
  /\ Revoke({s})
  /\ UNCHANGED <<authTokenVersion, issuing, recovery, recovering, recovered>>

(* By the customer, by signing out, and by an operator who sees a risk. *)
RevokeCustomerSession(s) == RevokeLive(s)
LogoutCustomerSession(s) == RevokeLive(s)
RevokeCustomerSessionRisk(s) == RevokeLive(s)

RevokeEverything ==
  /\ authTokenVersion < MaxVersion
  /\ authTokenVersion' = authTokenVersion + 1
  /\ Revoke(SessionIds)

UpdatePassword ==
  RevokeEverything /\ UNCHANGED <<issuing, recovery, recovering, recovered>>

RevokeAllCustomerSessions ==
  RevokeEverything /\ UNCHANGED <<issuing, recovery, recovering, recovered>>

VerifyLoginRecoveryCode ==
  RevokeEverything /\ UNCHANGED <<issuing, recovery, recovering, recovered>>

(* The login it may complete is a BeginLogin that follows. *)
UpgradeLoginPassword ==
  RevokeEverything /\ UNCHANGED <<issuing, recovery, recovering, recovered>>

SessionExpires(s) ==
  /\ session[s].status = "live" /\ session[s].kind # "token" /\ ~session[s].expired
  /\ session' = [session EXCEPT ![s].expired = TRUE]
  /\ UNCHANGED <<authTokenVersion, issuing, recovery, recovering, recovered>>

-----------------------------------------------------------------------------
(* requestCustomerMfaRecovery; its look for an open request is outside the  *)
(* transaction, and nothing below depends on there being one.               *)
RequestRecovery(r, p) ==
  /\ recovery[r].status = "absent"
  /\ recovery' = [recovery EXCEPT ![r] =
                    [NoRecovery EXCEPT !.status = "pending_approval", !.by = p]]
  /\ UNCHANGED <<authTokenVersion, session, issuing, recovering, recovered>>

(* Mutant: the requester may approve and execute. *)
AnyOperator(r, p) == TRUE

AnotherOperator(r, p) == recovery[r].by # p

BeginDecideRecovery(r, p, to) ==
  /\ recovery[r].status = IF to = "executed" THEN "approved" ELSE "pending_approval"
  /\ AnotherOperator(r, p)
  /\ recovering' = recovering \cup {<<r, p, to>>}
  /\ UNCHANGED <<authTokenVersion, session, issuing, recovery, recovered>>

(* The update by id, whatever was decided meanwhile. *)
DecideRecovery(d) ==
  /\ d \in recovering
  /\ recovering' = recovering \ {d}
  /\ recovery' = [recovery EXCEPT ![d[1]].status = d[3],
                    ![d[1]].approver = IF d[3] = "approved" THEN d[2] ELSE @]
  /\ UNCHANGED issuing

CommitApproveRecovery(d) ==
  d[3] = "approved" /\ DecideRecovery(d) /\ UNCHANGED <<authTokenVersion, session, recovered>>

CommitRejectRecovery(d) ==
  d[3] = "rejected" /\ DecideRecovery(d) /\ UNCHANGED <<authTokenVersion, session, recovered>>

CommitExecuteRecovery(d) ==
  /\ d[3] = "executed" /\ DecideRecovery(d)
  /\ RevokeEverything
  /\ recovered' = recovered \cup {<<d[1], d[2]>>}

-----------------------------------------------------------------------------
SessionNext ==
  \/ \E kind \in {"web", "mobile"} : BeginLogin(kind)
  \/ VerifyEnrollment
  \/ UpdatePassword \/ RevokeAllCustomerSessions
  \/ VerifyLoginRecoveryCode \/ UpgradeLoginPassword
  \/ \E s \in SessionIds :
       \/ Refresh(s) \/ RefuseWebSession(s) \/ SessionExpires(s)
       \/ RevokeCustomerSession(s) \/ LogoutCustomerSession(s)
       \/ RevokeCustomerSessionRisk(s)
       \/ \E h \in issuing : CreateSession(h, s)
  \/ \E h \in issuing : ReplaceActiveCustomerSessions(h)
  \/ \E r \in Recoveries, p \in Operators :
       \/ RequestRecovery(r, p)
       \/ \E to \in {"approved", "rejected", "executed"} : BeginDecideRecovery(r, p, to)
  \/ \E d \in recovering :
       \/ CommitApproveRecovery(d) \/ CommitRejectRecovery(d) \/ CommitExecuteRecovery(d)

SessionSpec == SessionInit /\ [][SessionNext]_sessionVars

-----------------------------------------------------------------------------
(* Whatever raises authTokenVersion also ends the logins and refreshes that *)
(* were under way: a session that descends from a login of before is never  *)
(* usable, even when its row is created afterwards.                         *)
NothingOutlivesRevocation ==
  \A s \in SessionIds : SessionUsable(s) => session[s].loggedInAt = authTokenVersion

(* A customer's MFA was reset only with two operators: the one who asked    *)
(* neither approved nor executed.                                           *)
RecoveryHadTwoOperators ==
  \A e \in recovered : LET r == recovery[e[1]] IN
    r.approver \in Operators \ {r.by} /\ e[2] # r.by
=============================================================================
