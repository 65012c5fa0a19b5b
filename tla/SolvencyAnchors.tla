---------------------------- MODULE SolvencyAnchors ----------------------------
(***************************************************************************)
(* The anchoring of solvency reports on chain: SolvencyReportAnchor rows,  *)
(* the workers that broadcast and watch their transactions, and the        *)
(* operators' handlers.  Every handler reads the row before its transaction*)
(* and then writes it by id.  SolvencyReportAnchorRegistry accepts a       *)
(* payload hash once.                                                      *)
(***************************************************************************)
EXTENDS Naturals, FiniteSets

CONSTANTS Anchors,      \* SolvencyReportAnchor rows, each of its own payload
          AnchorWorkers,
          AnchorTxs     \* transactions that may be broadcast

ASSUME AnchorAssumption == "none" \notin Anchors /\ "none" \notin AnchorTxs

VARIABLES anchor,       \* the rows: status and txHash
          anchorTx,     \* transactions: the anchor they carry and their fate
          anchorWorker, \* what each worker is doing
          recording     \* handlers between their read and their write

anchorVars == <<anchor, anchorTx, anchorWorker, recording>>

NothingListed == [at |-> "idle", anchor |-> "none", tx |-> "none"]
NoTx == [of |-> "none", fate |-> "unsent"]

AnchorTypeOK ==
  /\ anchor \in [Anchors -> [status : {"absent", "requested", "submitted", "confirmed", "failed"},
                             tx : AnchorTxs \cup {"none"}]]
  /\ anchorTx \in [AnchorTxs -> [of : Anchors \cup {"none"},
                                 fate : {"unsent", "pending", "succeeded", "reverted"}]]
  /\ \A w \in AnchorWorkers :
       anchorWorker[w].at \in {"idle", "listed", "broadcast", "failing", "watching"}
  /\ recording \subseteq [anchor : Anchors, tx : AnchorTxs \cup {"none"},
                          to : {"submitted", "confirmed", "failed"}]

AnchorInit ==
  /\ anchor = [a \in Anchors |-> [status |-> "absent", tx |-> "none"]]
  /\ anchorTx = [t \in AnchorTxs |-> NoTx]
  /\ anchorWorker = [w \in AnchorWorkers |-> NothingListed]
  /\ recording = {}

(* requestReportAnchor: unique per report and payload, so it is created once.*)
RequestReportAnchor(a) ==
  /\ anchor[a].status = "absent"
  /\ anchor' = [anchor EXCEPT ![a].status = "requested"]
  /\ UNCHANGED <<anchorTx, anchorWorker, recording>>

-----------------------------------------------------------------------------
(* What each recording handler refuses, and its answer "state reused".      *)

MayRecordSubmitted(a, t) ==
  /\ anchor[a].status \in {"requested", "submitted", "failed"}
  /\ anchor[a].status = "submitted" => anchor[a].tx \in {"none", t}

MayRecordConfirmed(a, t) ==
  /\ anchor[a].status \in {"requested", "submitted", "confirmed"}
  /\ anchor[a].tx \in {"none", t}

MayRecordFailed(a) == anchor[a].status \in {"requested", "submitted", "failed"}

RecordedAlready(a, to, t) ==
  anchor[a].status = to /\ (to = "failed" \/ anchor[a].tx = t)

(* The read of recordReportAnchorSubmitted, -Confirmed and -Failed. *)
BeginRecord(a, to, t) ==
  recording' = IF RecordedAlready(a, to, t) THEN recording
               ELSE recording \cup {[anchor |-> a, tx |-> t, to |-> to]}

CommitRecord(r) ==
  /\ r \in recording
  /\ recording' = recording \ {r}
  /\ anchor' = [anchor EXCEPT ![r.anchor].status = r.to,
                  ![r.anchor].tx = IF r.to = "failed" THEN @ ELSE r.tx]
  /\ UNCHANGED <<anchorTx, anchorWorker>>

-----------------------------------------------------------------------------
(* A worker lists the requested anchors, broadcasts, and records what it    *)
(* sent.  Whatever goes wrong after the list is recorded as a failure.      *)

ListRequested(w, a) ==
  /\ anchorWorker[w].at = "idle" /\ anchor[a].status = "requested"
  /\ anchorWorker' = [anchorWorker EXCEPT ![w] = [NothingListed EXCEPT !.at = "listed", !.anchor = a]]
  /\ UNCHANGED <<anchor, anchorTx, recording>>

Broadcast(w, t) ==
  /\ anchorWorker[w].at = "listed" /\ anchorTx[t].fate = "unsent"
  /\ anchorTx' = [anchorTx EXCEPT ![t] = [of |-> anchorWorker[w].anchor, fate |-> "pending"]]
  /\ anchorWorker' = [anchorWorker EXCEPT ![w].at = "broadcast", ![w].tx = t]
  /\ UNCHANGED <<anchor, recording>>

RecordBroadcast(w) ==
  LET a == anchorWorker[w].anchor
      t == anchorWorker[w].tx
  IN /\ anchorWorker[w].at = "broadcast" /\ MayRecordSubmitted(a, t)
     /\ BeginRecord(a, "submitted", t)
     /\ anchorWorker' = [anchorWorker EXCEPT ![w] = NothingListed]
     /\ UNCHANGED <<anchor, anchorTx>>

(* The node refuses the transaction, or the API refuses or loses the record.*)
BroadcastFails(w) ==
  /\ anchorWorker[w].at \in {"listed", "broadcast"}
  /\ anchorWorker' = [anchorWorker EXCEPT ![w].at = "failing"]
  /\ UNCHANGED <<anchor, anchorTx, recording>>

RecordBroadcastFailure(w) ==
  LET a == anchorWorker[w].anchor
  IN /\ anchorWorker[w].at = "failing"
     /\ anchorWorker' = [anchorWorker EXCEPT ![w] = NothingListed]
     /\ IF MayRecordFailed(a) THEN BeginRecord(a, "failed", "none")
        ELSE UNCHANGED recording
     /\ UNCHANGED <<anchor, anchorTx>>

ListSubmitted(w, a) ==
  /\ anchorWorker[w].at = "idle" /\ anchor[a].status = "submitted" /\ anchor[a].tx # "none"
  /\ anchorWorker' = [anchorWorker EXCEPT ![w] =
                        [at |-> "watching", anchor |-> a, tx |-> anchor[a].tx]]
  /\ UNCHANGED <<anchor, anchorTx, recording>>

(* Mutant: any receipt counts as the success of its transaction. *)
ReceiptExists(t) == anchorTx[t].fate \in {"succeeded", "reverted"}

(* A receipt that succeeded, under enough blocks. *)
ReceiptSucceeded(t) == anchorTx[t].fate = "succeeded"

(* The receipt of the listed transaction: none yet, reverted or succeeded.  *)
ReportReceipt(w) ==
  LET a == anchorWorker[w].anchor
      t == anchorWorker[w].tx
  IN /\ anchorWorker[w].at = "watching"
     /\ anchorWorker' = [anchorWorker EXCEPT ![w] = NothingListed]
     /\ IF ReceiptSucceeded(t) /\ MayRecordConfirmed(a, t)
          THEN BeginRecord(a, "confirmed", t)
        ELSE IF anchorTx[t].fate = "reverted" /\ ~ReceiptSucceeded(t) /\ MayRecordFailed(a)
          THEN BeginRecord(a, "failed", "none")
          ELSE UNCHANGED recording
     /\ UNCHANGED <<anchor, anchorTx>>

(* Operators record what they see on chain for a transaction of the anchor. *)
RecordReportAnchorSubmitted(a, t) ==
  /\ anchorTx[t].of = a /\ MayRecordSubmitted(a, t)
  /\ BeginRecord(a, "submitted", t)
  /\ UNCHANGED <<anchor, anchorTx, anchorWorker>>

RecordReportAnchorConfirmed(a, t) ==
  /\ anchorTx[t].of = a /\ anchorTx[t].fate = "succeeded" /\ MayRecordConfirmed(a, t)
  /\ BeginRecord(a, "confirmed", t)
  /\ UNCHANGED <<anchor, anchorTx, anchorWorker>>

RecordReportAnchorFailed(a) ==
  /\ MayRecordFailed(a)
  /\ BeginRecord(a, "failed", "none")
  /\ UNCHANGED <<anchor, anchorTx, anchorWorker>>

(* anchorSolvencyReport reverts with AnchorAlreadyRecorded. *)
Mined(t) ==
  /\ anchorTx[t].fate = "pending"
  /\ anchorTx' = [anchorTx EXCEPT ![t].fate =
       IF \E u \in AnchorTxs : anchorTx[u].of = anchorTx[t].of /\ anchorTx[u].fate = "succeeded"
         THEN "reverted" ELSE "succeeded"]
  /\ UNCHANGED <<anchor, anchorWorker, recording>>

-----------------------------------------------------------------------------
AnchorNext ==
  \/ \E a \in Anchors :
       \/ RequestReportAnchor(a)
       \/ \E w \in AnchorWorkers : ListRequested(w, a) \/ ListSubmitted(w, a)
       \/ RecordReportAnchorFailed(a)
       \/ \E t \in AnchorTxs :
            RecordReportAnchorSubmitted(a, t) \/ RecordReportAnchorConfirmed(a, t)
  \/ \E w \in AnchorWorkers :
       \/ RecordBroadcast(w) \/ BroadcastFails(w) \/ RecordBroadcastFailure(w)
       \/ ReportReceipt(w)
       \/ \E t \in AnchorTxs : Broadcast(w, t)
  \/ \E t \in AnchorTxs : Mined(t)
  \/ \E r \in recording : CommitRecord(r)

AnchorSpec == AnchorInit /\ [][AnchorNext]_anchorVars

(* A report that is shown as anchored is in the registry by the transaction *)
(* its anchor names, however the workers' and operators' records interleave.*)
ConfirmedIsAnchored ==
  \A a \in Anchors : anchor[a].status = "confirmed" =>
    /\ anchor[a].tx # "none"
    /\ anchorTx[anchor[a].tx].of = a /\ anchorTx[anchor[a].tx].fate = "succeeded"
=============================================================================
