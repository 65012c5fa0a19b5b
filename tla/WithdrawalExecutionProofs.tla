---------------------- MODULE WithdrawalExecutionProofs ----------------------
(***************************************************************************)
(* Safety of the execution of withdrawals by any number of workers over an *)
(* Ethereum node, whatever crashes, timeouts and node failures happen.     *)
(***************************************************************************)
EXTENDS WithdrawalExecution, WithdrawalIntentsProofs, FiniteSetTheorems

(* What a commit writes: rows of its own intent, with hashes that the       *)
(* handler was given or has read.                                           *)
CommitWrites(r) ==
  /\ r # Idle /\ r.intent \in Withdrawals
  /\ \A j \in Withdrawals : j # r.intent => txs'[j] = txs[j] /\ status'[j] = status[j]
  /\ \A n \in 1 .. Len(txs'[r.intent]) :
       \/ txs'[r.intent][n].hash \in {NoHash, r.hash, r.tx.hash}
       \/ /\ n \in 1 .. Len(txs[r.intent])
          /\ txs'[r.intent][n].hash = txs[r.intent][n].hash
  /\ \A i \in Withdrawals \ Overlapping :
       i = r.intent =>
         LatestTx(i)'.hash =
           IF r.op \in {"sign", "broadcast", "fail"} /\ r.hash # NoHash
             THEN r.hash ELSE LatestTx(i).hash

(* Which commits move a withdrawal to the statuses that tell of its payment.*)
CommitMoves(r) ==
  r.intent \notin Overlapping =>
    /\ status'[r.intent] = "failed" =>
         \/ r.op = "deny" /\ status[r.intent] = "requested"
         \/ r.op = "fail" /\ r.failure.category = "permanent"
    /\ status'[r.intent] = "manually_resolved" =>
         r.op = "resolve" /\ status[r.intent] = "failed"
    /\ status'[r.intent] = "confirmed" => r.op = "confirm"
    /\ status'[r.intent] = "settled" =>
         r.op = "settle" /\ status[r.intent] = "confirmed"

-----------------------------------------------------------------------------
(* Commits *)

(* A commit that writes no blockchain row satisfies the frame of commits. *)
LEMMA NothingWritten ==
  ASSUME NEW r, r # Idle, NEW i \in Withdrawals, i = r.intent,
         r.op \notin {"sign", "broadcast", "fail"}, txs' = txs,
         \A j \in Withdrawals : j # i => status'[j] = status[j]
  PROVE  CommitWrites(r)
  <1>1. LatestTx(i)' = LatestTx(i)
    BY DEF LatestTx
  <1>2. \A n \in 1 .. Len(txs'[i]) :
          n \in 1 .. Len(txs[i]) /\ txs'[i][n].hash = txs[i][n].hash
    OBVIOUS
  <1>3. /\ \A j \in Withdrawals : j # i => txs'[j] = txs[j] /\ status'[j] = status[j]
        /\ i \notin Overlapping =>
             LatestTx(i)'.hash =
               IF r.op \in {"sign", "broadcast", "fail"} /\ r.hash # NoHash
                 THEN r.hash ELSE LatestTx(i).hash
    BY <1>1
  <1> QED
    BY <1>2, <1>3 DEF CommitWrites

(* Decisions, queueing, settlement and resolution write no blockchain row. *)
LEMMA CommitUnwritten ==
  ASSUME Inv, RowInv, NEW s \in Slots,
         CommitApprove(s) \/ CommitDeny(s) \/ CommitQueue(s)
           \/ CommitSettle(s) \/ CommitResolve(s)
  PROVE  CommitWrites(request[s]) /\ CommitMoves(request[s])
  <1> DEFINE r == request[s]
  <1>1. PICK op \in {"approve", "deny", "queue", "settle", "resolve"} :
          /\ Serving(s, op)
          /\ op = "approve" <=> CommitApprove(s) /\ Serving(s, "approve")
          /\ op = "deny" <=> CommitDeny(s) /\ Serving(s, "deny")
          /\ op = "queue" <=> CommitQueue(s) /\ Serving(s, "queue")
          /\ op = "settle" <=> CommitSettle(s) /\ Serving(s, "settle")
          /\ op = "resolve" <=> CommitResolve(s) /\ Serving(s, "resolve")
    BY DEF CommitApprove, CommitDeny, CommitQueue, CommitSettle, CommitResolve, Serving
  <1>2. op \in Operations
    BY DEF Operations
  <1>3. PICK i \in Withdrawals : i = r.intent
    BY <1>1, <1>2, CommitSees
  <1>4. /\ r # Idle /\ r.op = op
        /\ i \notin Overlapping =>
             /\ op = "deny" => status[i] = "requested"
             /\ op = "settle" => status[i] = "confirmed"
             /\ op = "resolve" => status[i] = "failed"
    BY <1>1, <1>2, <1>3, CommitSees DEF ReadStatus
  <1>5. /\ txs' = txs
        /\ status' = [status EXCEPT ![i] =
             CASE op = "approve" -> "approved" [] op = "deny" -> "failed"
               [] op = "queue" -> "queued" [] op = "settle" -> "settled"
               [] op = "resolve" -> "manually_resolved"]
    BY <1>1, <1>3 DEF CommitApprove, CommitDeny, CommitQueue, CommitSettle, CommitResolve
  <1> HIDE DEF r
  <1>6. /\ \A j \in Withdrawals : j # i => status'[j] = status[j]
        /\ status'[i] =
             CASE op = "approve" -> "approved" [] op = "deny" -> "failed"
               [] op = "queue" -> "queued" [] op = "settle" -> "settled"
               [] op = "resolve" -> "manually_resolved"
    BY <1>5 DEF Inv, TypeInv, TypeOK
  <1>7. CommitWrites(r)
    BY <1>3, <1>4, <1>5, <1>6, NothingWritten
  <1>8. CommitMoves(r)
    BY <1>3, <1>4, <1>6 DEF CommitMoves
  <1> QED
    BY <1>7, <1>8 DEF r

(* Claiming, signing and recording a broadcast write the row of their intent. *)
LEMMA CommitWritten ==
  ASSUME Inv, RowInv, NEW s \in Slots,
         CommitStart(s) \/ CommitSign(s) \/ CommitBroadcast(s)
  PROVE  CommitWrites(request[s]) /\ CommitMoves(request[s])
  <1> DEFINE r == request[s]
  <1>1. PICK op \in {"start", "sign", "broadcast"} : Serving(s, op)
    BY DEF CommitStart, CommitSign, CommitBroadcast
  <1>2. op \in Operations
    BY DEF Operations
  <1>3. PICK i \in Withdrawals : i = r.intent
    BY <1>1, <1>2, CommitSees
  <1>4. /\ r \in Requests /\ r # Idle /\ r.op = op /\ RequestSeesRows(s)
        /\ r.row \in Nat /\ r.row <= Len(txs[i])
        /\ i \notin Overlapping => /\ status[i] = "queued" /\ r.row = Len(txs[i])
                                   /\ r.tx = LatestTx(i)
    BY <1>1, <1>2, <1>3, CommitSees DEF ReadStatus
  <1>5. /\ r.hash \in Hashes \cup {NoHash}
        /\ op \in {"sign", "broadcast"} => r.hash # NoHash
    BY <1>4 DEF RequestSeesRows, Requests
  <1>6. /\ \A j \in Withdrawals : j # i => status'[j] = status[j]
        /\ i \notin Overlapping => status'[i] \in {"queued", "broadcast"}
    <2>1. status' = status \/ status' = [status EXCEPT ![i] = "broadcast"]
      BY <1>3 DEF CommitStart, CommitSign, CommitBroadcast
    <2> QED
      BY <1>4, <2>1 DEF Inv, TypeInv, TypeOK
  <1>7. \/ txs' = txs /\ op = "start"
        \/ \E tx \in TxRows : /\ WriteTx(r, tx)
                              /\ tx.hash = IF op = "start" THEN NoHash ELSE r.hash
                              /\ op = "start" => r.row = 0
    <2> DEFINE c == [status |-> "created", hash |-> NoHash]
               g == [status |-> "signed", hash |-> r.hash]
               b == [status |-> "broadcast", hash |-> r.hash]
    <2>1. c \in TxRows /\ g \in TxRows /\ b \in TxRows
      BY <1>5 DEF TxRows, TxStatuses
    <2>2. c.hash = NoHash /\ g.hash = r.hash /\ b.hash = r.hash
      OBVIOUS
    <2>3. CASE CommitStart(s)
      BY <1>4, <2>1, <2>2, <2>3 DEF CommitStart, Serving
    <2>4. CASE CommitSign(s)
      BY <1>4, <2>1, <2>2, <2>4 DEF CommitSign, Serving
    <2>5. CASE CommitBroadcast(s)
      BY <1>4, <2>1, <2>2, <2>5 DEF CommitBroadcast, Serving
    <2> QED
      BY <2>3, <2>4, <2>5
  <1> HIDE DEF r
  <1>8. CommitMoves(r)
    BY <1>3, <1>6 DEF CommitMoves
  <1>9. CASE txs' = txs /\ op = "start"
    <2>1. CommitWrites(r)
      BY <1>3, <1>4, <1>6, <1>9, NothingWritten
    <2> QED
      BY <2>1, <1>8 DEF r
  <1>10. CASE \E tx \in TxRows : /\ WriteTx(r, tx)
                                 /\ tx.hash = IF op = "start" THEN NoHash ELSE r.hash
                                 /\ op = "start" => r.row = 0
    <2>1. PICK tx \in TxRows : /\ WriteTx(r, tx)
                               /\ tx.hash = IF op = "start" THEN NoHash ELSE r.hash
                               /\ op = "start" => r.row = 0
      BY <1>10
    <2>2. /\ \A j \in Withdrawals : j # i => txs'[j] = txs[j]
          /\ \A n \in 1 .. Len(txs'[i]) :
               \/ txs'[i][n] = tx
               \/ n \in 1 .. Len(txs[i]) /\ txs'[i][n] = txs[i][n]
          /\ r.row = Len(txs[i]) => LatestTx(i)' = tx
      BY <1>3, <1>4, <2>1, WriteTxRows DEF Inv, TypeInv
    <2>3. ASSUME i \notin Overlapping, op = "start" PROVE LatestTx(i).hash = NoHash
      <3>1. txs[i] \in Seq(TxRows) /\ Len(txs[i]) = 0
        BY <1>4, <2>1, <2>3 DEF Inv, TypeInv, TypeOK
      <3>2. LatestTx(i) = NoTx
        BY <3>1 DEF LatestTx
      <3> QED
        BY <3>2 DEF NoTx
    <2>4. \A n \in 1 .. Len(txs'[i]) :
            \/ txs'[i][n].hash \in {NoHash, r.hash, r.tx.hash}
            \/ n \in 1 .. Len(txs[i]) /\ txs'[i][n].hash = txs[i][n].hash
      BY <2>1, <2>2
    <2>5. i \notin Overlapping =>
            LatestTx(i)'.hash =
              IF r.op \in {"sign", "broadcast", "fail"} /\ r.hash # NoHash
                THEN r.hash ELSE LatestTx(i).hash
      BY <1>1, <1>4, <1>5, <2>1, <2>2, <2>3
    <2>6. CommitWrites(r)
      BY <1>3, <1>4, <1>6, <2>2, <2>4, <2>5 DEF CommitWrites
    <2> QED
      BY <2>6, <1>8 DEF r
  <1> QED
    BY <1>7, <1>9, <1>10

(* The record of a failure writes one row, with the hash it read or was given. *)
LEMMA CommitFailed ==
  ASSUME Inv, RowInv, NEW s \in Slots, CommitFail(s)
  PROVE  CommitWrites(request[s]) /\ CommitMoves(request[s])
  <1> DEFINE r == request[s]
             new == FailedTx(r)
  <1>1. Serving(s, "fail") /\ "fail" \in Operations
    BY DEF CommitFail, Operations
  <1>2. PICK i \in Withdrawals : i = r.intent
    BY <1>1, CommitSees
  <1>3. /\ r \in Requests /\ r # Idle /\ r.op = "fail" /\ r.row \in Nat
        /\ r.row <= Len(txs[i]) /\ RowIsHashed(r.tx)
        /\ i \notin Overlapping => /\ status[i] \in {"queued", "broadcast"}
                                   /\ r.row = Len(txs[i]) /\ r.tx = LatestTx(i)
                                   /\ r.status = status[i]
    BY <1>1, <1>2, CommitSees DEF ReadStatus, RequestSeesRows
  <1>4. /\ WriteTx(r, new)
        /\ \/ /\ r.failure.category = "permanent"
              /\ status' = [status EXCEPT ![i] = "failed"]
           \/ /\ r.failure.category # "permanent"
              /\ status' = [status EXCEPT ![i] = r.status]
    BY <1>2 DEF CommitFail
  <1>5. new \in TxRows /\ new.hash = IF r.hash = NoHash THEN r.tx.hash ELSE r.hash
    BY <1>3, FailedTxRow DEF FailedTx
  <1>6. /\ \A j \in Withdrawals : j # i => status'[j] = status[j]
        /\ r.failure.category = "permanent" => status'[i] = "failed"
        /\ r.failure.category # "permanent" => status'[i] = r.status
    BY <1>4 DEF Inv, TypeInv, TypeOK
  <1> HIDE DEF new, r
  <1>7. /\ \A j \in Withdrawals : j # i => txs'[j] = txs[j]
        /\ \A n \in 1 .. Len(txs'[i]) :
             \/ txs'[i][n] = new
             \/ n \in 1 .. Len(txs[i]) /\ txs'[i][n] = txs[i][n]
        /\ r.row = Len(txs[i]) => LatestTx(i)' = new
    BY <1>2, <1>3, <1>4, <1>5, WriteTxRows DEF Inv, TypeInv
  <1>8. CommitWrites(r)
    <2>1. \A n \in 1 .. Len(txs'[i]) :
            \/ txs'[i][n].hash \in {NoHash, r.hash, r.tx.hash}
            \/ n \in 1 .. Len(txs[i]) /\ txs'[i][n].hash = txs[i][n].hash
      BY <1>5, <1>7
    <2>2. i \notin Overlapping =>
            LatestTx(i)'.hash =
              IF r.op \in {"sign", "broadcast", "fail"} /\ r.hash # NoHash
                THEN r.hash ELSE LatestTx(i).hash
      BY <1>3, <1>5, <1>7
    <2> QED
      BY <1>2, <1>3, <1>6, <1>7, <2>1, <2>2 DEF CommitWrites
  <1>9. CommitMoves(r)
    BY <1>2, <1>3, <1>6 DEF CommitMoves
  <1> QED
    BY <1>8, <1>9 DEF r

(* A confirmation marks the broadcast row. *)
LEMMA CommitConfirmed ==
  ASSUME Inv, RowInv, NEW s \in Slots, CommitConfirm(s)
  PROVE  CommitWrites(request[s]) /\ CommitMoves(request[s])
  <1> DEFINE r == request[s]
  <1>1. Serving(s, "confirm") /\ "confirm" \in Operations
    BY DEF CommitConfirm, Operations
  <1>2. PICK i \in Withdrawals : i = r.intent
    BY <1>1, CommitSees
  <1>3. /\ r # Idle /\ r.op = "confirm" /\ r.row \in Nat
        /\ r.row <= Len(txs[i]) /\ r.row # 0 /\ RequestIsSound(r, txs)
    BY <1>1, <1>2, CommitSees DEF RequestIsSound
  <1>4. /\ txs' = [txs EXCEPT ![i][r.row].status = "confirmed"]
        /\ status' = [status EXCEPT ![i] = "confirmed"]
    BY <1>2 DEF CommitConfirm
  <1> HIDE DEF r
  <1>5. /\ \A j \in Withdrawals : j # i => status'[j] = status[j] /\ txs'[j] = txs[j]
        /\ status'[i] = "confirmed"
    BY <1>4 DEF Inv, TypeInv, TypeOK
  <1>6. /\ Len(txs'[i]) = Len(txs[i]) /\ txs'[i] # <<>> /\ txs[i] # <<>>
        /\ \A n \in 1 .. Len(txs[i]) : txs'[i][n].hash = txs[i][n].hash
        /\ Len(txs[i]) \in 1 .. Len(txs[i])
    <2>1. txs[i] \in Seq(TxRows) /\ r.row \in 1 .. Len(txs[i]) /\ txs[i][r.row] \in TxRows
      BY <1>3 DEF Inv, TypeInv, TypeOK
    <2>2. txs'[i] = [txs[i] EXCEPT ![r.row] = [txs[i][r.row] EXCEPT !.status = "confirmed"]]
      BY <1>4 DEF Inv, TypeInv, TypeOK
    <2> QED
      BY <2>1, <2>2 DEF TxRows
  <1>7. LatestTx(i)'.hash = LatestTx(i).hash
    BY <1>6 DEF LatestTx
  <1>8. \A n \in 1 .. Len(txs'[i]) :
          n \in 1 .. Len(txs[i]) /\ txs'[i][n].hash = txs[i][n].hash
    BY <1>6
  <1>9. CommitWrites(r) /\ CommitMoves(r)
    BY <1>2, <1>3, <1>5, <1>7, <1>8 DEF CommitWrites, CommitMoves
  <1> QED
    BY <1>9 DEF r

(* Whatever commits writes as CommitWrites says, and ends its request.      *)
LEMMA CommitEffect ==
  ASSUME Inv, RowInv, NEW s \in Slots, Commit(s)
  PROVE  /\ CommitWrites(request[s]) /\ CommitMoves(request[s])
         /\ request' = [request EXCEPT ![s] = Idle]
  <1>1. request' = [request EXCEPT ![s] = Idle]
    BY DEF Commit, CommitApprove, CommitDeny, CommitQueue, CommitStart, CommitSign,
           CommitBroadcast, CommitFail, CommitConfirm, CommitSettle, CommitResolve, Finish
  <1> QED
    BY <1>1, CommitUnwritten, CommitWritten, CommitFailed, CommitConfirmed DEF Commit

-----------------------------------------------------------------------------
(* The inductive invariant *)

(* A hash recorded, remembered or sent for an intent is of a transaction    *)
(* that pays it, and there is none for an intent that cannot be prepared.   *)
PaysFor(h, i) == h # NoHash => Pays[h] = i /\ PrepareError[i] = "none"

RowsPay(i) == \A n \in 1 .. Len(txs[i]) : PaysFor(txs[i][n].hash, i)

(* A permanent failure is of an intent that cannot be prepared, or of a     *)
(* transaction that reverted.                                               *)
FailsForGood(h, i) == PrepareError[i] # "none" \/ h \in reverted

RequestPays(s) ==
  LET r == request[s] IN
  r # Idle =>
    /\ PaysFor(r.hash, r.intent) /\ PaysFor(r.tx.hash, r.intent)
    /\ r.op = "fail" /\ r.failure.category = "permanent" => FailsForGood(r.hash, r.intent)
    /\ r.op = "confirm" => r.tx.hash \in Succeeded

(* The operation a worker calls at a step.                                  *)
CallAt == [start |-> "start", sign |-> "sign", record |-> "broadcast", fail |-> "fail",
           confirm |-> "confirm", settle |-> "settle"]

JobIsSound(w) ==
  LET j == job[w] IN
  j # NoJob =>
    /\ PaysFor(j.hash, j.intent)
    /\ j.at \in {"sign", "send", "record", "confirm"} => j.hash # NoHash
    /\ j.at = "send" /\ j.intent \notin Overlapping => LatestTx(j.intent).hash = j.hash
    /\ j.at = "fail" => j.category \in Categories
    /\ j.at = "fail" /\ j.category = "permanent" => FailsForGood(j.hash, j.intent)
    /\ j.at = "confirm" => j.hash \in Succeeded

(* A worker waits for a request of its own, and alone.                      *)
WaitsForItsOwn(w) ==
  LET j == job[w] IN
  j # NoJob /\ j.slot # NoSlot =>
    /\ j.at \notin {"prepare", "send"}
    /\ request[j.slot] # Idle
    /\ request[j.slot].op = CallAt[j.at]
    /\ request[j.slot].intent = j.intent
    /\ request[j.slot].hash \in {NoHash, j.hash}
    /\ j.at = "sign" => request[j.slot].hash = j.hash
    /\ \A v \in Workers : job[v] # NoJob /\ job[v].slot = j.slot => v = w

(* Nonces of a wallet are used once and in order.                           *)
ChainIsSound ==
  /\ mempool \cap mined = {}
  /\ \A h \in mined : NonceTooLow(h)

(* What failed for good has no transaction that can still pay, and what is  *)
(* confirmed has been paid.                                                 *)
PaidAsStatus(i) ==
  /\ status[i] \in {"failed", "manually_resolved"} /\ LatestTx(i).hash # NoHash
       => LatestTx(i).hash \in reverted
  /\ status[i] \in {"confirmed", "settled"} => LatestTx(i).hash \in Succeeded

ChainTypeOK ==
  /\ job \in [Workers -> Jobs \cup {NoJob}]
  /\ mempool \subseteq Hashes
  /\ mined \subseteq Hashes /\ IsFiniteSet(mined)
  /\ reverted \subseteq mined

ExecInv ==
  /\ Inv /\ RowInv
  /\ ChainTypeOK
  /\ \A i \in Withdrawals : RowsPay(i)
  /\ \A s \in Slots : RequestPays(s)
  /\ \A w \in Workers : JobIsSound(w) /\ WaitsForItsOwn(w)
  /\ ChainIsSound
  /\ SentIsRecorded
  /\ \A i \in Withdrawals \ Overlapping : PaidAsStatus(i)

(* What a step may do to recorded hashes and to the chain.                  *)
HashesKept ==
  \A i \in Withdrawals \ Overlapping :
    LatestTx(i).hash # NoHash => LatestTx(i)'.hash = LatestTx(i).hash

ChainGrows ==
  /\ reverted \subseteq reverted'
  /\ mined \ reverted \subseteq mined' \ reverted'

-----------------------------------------------------------------------------
(* Rows, requests and jobs one by one *)

(* The newest row of a withdrawal carries a hash that pays it. *)
LEMMA LatestPays ==
  ASSUME TypeOK, NEW i \in Withdrawals, RowsPay(i)
  PROVE  PaysFor(LatestTx(i).hash, i)
  <1>1. txs[i] \in Seq(TxRows)
    BY DEF TypeOK
  <1>2. CASE txs[i] = <<>>
    BY <1>2 DEF LatestTx, NoTx, PaysFor
  <1>3. CASE txs[i] # <<>>
    <2>1. Len(txs[i]) \in 1 .. Len(txs[i]) /\ LatestTx(i) = txs[i][Len(txs[i])]
      BY <1>1, <1>3 DEF LatestTx
    <2> QED
      BY <2>1 DEF RowsPay
  <1> QED
    BY <1>2, <1>3

(* What a worker holds in memory stays sound while rows keep their hashes and the
   chain grows. *)
LEMMA JobKept ==
  ASSUME ChainTypeOK, NEW w \in Workers, JobIsSound(w), job'[w] = job[w],
         HashesKept, ChainGrows
  PROVE  JobIsSound(w)'
  <1> SUFFICES ASSUME job[w] # NoJob PROVE JobIsSound(w)'
    BY DEF JobIsSound
  <1>1. job[w] \in Jobs
    BY DEF ChainTypeOK
  <1>2. PICK i \in Withdrawals : i = job[w].intent
    BY <1>1 DEF Jobs
  <1>3. job[w].at = "send" /\ i \notin Overlapping => LatestTx(i)'.hash = job[w].hash
    BY <1>2 DEF JobIsSound, HashesKept
  <1>4. /\ \A h \in reverted : h \in reverted'
        /\ \A h : h \in mined /\ h \notin reverted => h \in mined' /\ h \notin reverted'
    BY DEF ChainGrows
  <1> QED
    BY <1>2, <1>3, <1>4 DEF JobIsSound, PaysFor, FailsForGood, Succeeded, LatestTx

(* A worker keeps waiting for its own request as long as others leave its slot alone. *)
LEMMA WaitsKept ==
  ASSUME \A v \in Workers : WaitsForItsOwn(v),
         \A v \in Workers :
           \/ job'[v] = NoJob \/ job'[v].slot = NoSlot
           \/ /\ job'[v] = job[v]
              /\ job[v] # NoJob /\ job[v].slot # NoSlot
                   => request'[job[v].slot] = request[job[v].slot]
  PROVE  \A v \in Workers : WaitsForItsOwn(v)'
  <1> SUFFICES ASSUME NEW w \in Workers, job'[w] # NoJob, job'[w].slot # NoSlot
               PROVE  WaitsForItsOwn(w)'
    BY DEF WaitsForItsOwn
  <1>1. job'[w] = job[w] /\ request'[job[w].slot] = request[job[w].slot]
    OBVIOUS
  <1>2. ASSUME NEW v \in Workers, job'[v] # NoJob, job'[v].slot = job'[w].slot
        PROVE  v = w
    BY <1>1, <1>2 DEF WaitsForItsOwn
  <1> QED
    BY <1>1, <1>2 DEF WaitsForItsOwn

(* A request that is not served, or has ended, keeps what it was sound for. *)
LEMMA RequestKept ==
  ASSUME NEW s \in Slots, RequestPays(s), request'[s] \in {request[s], Idle}, ChainGrows
  PROVE  RequestPays(s)'
  <1>1. CASE request'[s] = Idle
    BY <1>1 DEF RequestPays
  <1>2. CASE request'[s] = request[s]
    <2>1. /\ \A h \in reverted : h \in reverted'
          /\ \A h : h \in mined /\ h \notin reverted => h \in mined' /\ h \notin reverted'
      BY DEF ChainGrows
    <2> QED
      BY <1>2, <2>1 DEF RequestPays, PaysFor, FailsForGood, Succeeded
  <1> QED
    BY <1>1, <1>2

(* Growth of the chain alone takes nothing away from the rows. *)
LEMMA RowsKept ==
  ASSUME ExecInv, UNCHANGED <<status, txs>>, ChainGrows
  PROVE  /\ \A i \in Withdrawals : RowsPay(i)'
         /\ HashesKept
         /\ \A i \in Withdrawals \ Overlapping : PaidAsStatus(i)'
  <1>1. \A i \in Withdrawals : RowsPay(i)'
    BY DEF ExecInv, RowsPay, PaysFor
  <1>2. HashesKept
    BY DEF HashesKept, LatestTx
  <1>3. /\ \A h \in reverted : h \in reverted'
        /\ \A h : h \in mined /\ h \notin reverted => h \in mined' /\ h \notin reverted'
    BY DEF ChainGrows
  <1>4. ASSUME NEW i \in Withdrawals \ Overlapping PROVE PaidAsStatus(i)'
    BY <1>3 DEF ExecInv, PaidAsStatus, Succeeded, LatestTx
  <1> QED
    BY <1>1, <1>2, <1>4

(* Recorded hashes stay, so whatever was sent stays recorded.               *)
LEMMA RecordKept ==
  ASSUME ExecInv, HashesKept, UNCHANGED <<mempool, mined>>
  PROVE  SentIsRecorded'
  <1> SUFFICES ASSUME NEW h \in mempool \cup mined, Pays[h] \in Withdrawals \ Overlapping
               PROVE  LatestTx(Pays[h])'.hash = h
    BY DEF SentIsRecorded
  <1>1. h # NoHash /\ LatestTx(Pays[h]).hash = h
    BY WithdrawalAssumption DEF ExecInv, ChainTypeOK, SentIsRecorded
  <1>2. PICK i \in Withdrawals \ Overlapping : i = Pays[h]
    OBVIOUS
  <1> QED
    BY <1>1, <1>2 DEF HashesKept

-----------------------------------------------------------------------------
(* Requests of the API *)

(* A commit records only hashes that pay its intent, never drops one, and   *)
(* fails an intent for good only when nothing can pay it any more.          *)
LEMMA ServedStep ==
  ASSUME ExecInv, NEW s \in Slots, Commit(s), UNCHANGED chainVars
  PROVE  /\ \A i \in Withdrawals : RowsPay(i)'
         /\ \A t \in Slots : RequestPays(t)'
         /\ HashesKept
         /\ \A i \in Withdrawals \ Overlapping : PaidAsStatus(i)'
         /\ request[s] # Idle /\ request' = [request EXCEPT ![s] = Idle]
         /\ CommitWrites(request[s])
  <1> DEFINE r == request[s]
  <1>1. CommitWrites(r) /\ CommitMoves(r) /\ request' = [request EXCEPT ![s] = Idle]
    BY CommitEffect DEF ExecInv
  <1>2. PICK i \in Withdrawals : i = r.intent
    BY <1>1 DEF CommitWrites
  <1>3. /\ r # Idle /\ r \in Requests /\ RequestPays(s)
        /\ RequestSeesRows(s) /\ RequestIsFresh(s)
        /\ r.hash \in Hashes \cup {NoHash} /\ NoHash \notin Hashes
    <2>1. r # Idle /\ r \in Requests
      BY <1>1 DEF CommitWrites, ExecInv, Inv, TypeInv, TypeOK
    <2> QED
      BY <2>1, WithdrawalAssumption
         DEF ExecInv, RowInv, Inv, EveryRequestIsFresh, Requests
  <1>4. UNCHANGED <<mempool, mined, reverted>> /\ ChainGrows
    BY DEF chainVars, ChainGrows
  <1>5. /\ PaysFor(NoHash, i) /\ PaysFor(r.hash, i) /\ PaysFor(r.tx.hash, i)
        /\ r.op = "fail" /\ r.failure.category = "permanent" => FailsForGood(r.hash, i)
        /\ r.op = "confirm" => r.tx.hash \in Succeeded
        /\ r.hash # NoHash => r.tx.hash \in {NoHash, r.hash}
        /\ i \notin Overlapping => r.tx = LatestTx(i) /\ r.row = Len(txs[i])
    BY <1>2, <1>3 DEF RequestPays, RequestSeesRows, PaysFor
  <1> HIDE DEF r
  <1>6. \A j \in Withdrawals : j # i => txs'[j] = txs[j] /\ status'[j] = status[j]
    BY <1>1, <1>2 DEF CommitWrites
  <1>7. ASSUME NEW j \in Withdrawals PROVE RowsPay(j)'
    <2>1. RowsPay(j)
      BY DEF ExecInv
    <2>2. CASE j = i
      <3> SUFFICES ASSUME NEW n \in 1 .. Len(txs'[i])
                   PROVE  PaysFor(txs'[i][n].hash, i)
        BY <2>2 DEF RowsPay, PaysFor
      <3>1. \/ txs'[i][n].hash \in {NoHash, r.hash, r.tx.hash}
            \/ /\ n \in 1 .. Len(txs[i])
               /\ txs'[i][n].hash = txs[i][n].hash
        BY <1>1, <1>2 DEF CommitWrites
      <3> QED
        BY <1>5, <2>1, <2>2, <3>1 DEF RowsPay
    <2>3. CASE j # i
      BY <1>6, <2>1, <2>3 DEF RowsPay, PaysFor
    <2> QED
      BY <2>2, <2>3
  <1>8. i \notin Overlapping =>
          LatestTx(i)'.hash = IF r.op \in {"sign", "broadcast", "fail"} /\ r.hash # NoHash
                                THEN r.hash ELSE LatestTx(i).hash
    BY <1>1, <1>2 DEF CommitWrites
  <1>9. HashesKept
    <2> SUFFICES ASSUME NEW j \in Withdrawals \ Overlapping, LatestTx(j).hash # NoHash
                 PROVE  LatestTx(j)'.hash = LatestTx(j).hash
      BY DEF HashesKept
    <2>1. CASE j = i
      BY <1>5, <1>8, <2>1
    <2>2. CASE j # i
      BY <1>6, <2>2 DEF LatestTx
    <2> QED
      BY <2>1, <2>2
  <1>10. ASSUME NEW t \in Slots PROVE RequestPays(t)'
    <2>1. request'[t] \in {request[t], Idle} /\ RequestPays(t)
      BY <1>1 DEF ExecInv, Inv, TypeInv, TypeOK
    <2> QED
      BY <1>4, <2>1, RequestKept
  <1>11. ASSUME NEW j \in Withdrawals \ Overlapping PROVE PaidAsStatus(j)'
    <2>1. PaidAsStatus(j)
      BY DEF ExecInv
    <2>2. CASE j # i
      BY <1>4, <1>6, <2>1, <2>2 DEF PaidAsStatus, LatestTx, Succeeded
    <2>3. CASE j = i
      <3>1. /\ status'[i] = "failed" =>
                 \/ r.op = "deny" /\ status[i] = "requested"
                 \/ r.op = "fail" /\ r.failure.category = "permanent"
            /\ status'[i] = "manually_resolved" => r.op = "resolve" /\ status[i] = "failed"
            /\ status'[i] = "confirmed" => r.op = "confirm"
            /\ status'[i] = "settled" => r.op = "settle" /\ status[i] = "confirmed"
        BY <1>1, <1>2, <2>3 DEF CommitMoves
      <3>2. PaysFor(LatestTx(i).hash, i)
        BY LatestPays DEF ExecInv, Inv, TypeInv
      <3>3. status[i] = "requested" => LatestTx(i).hash = NoHash
        BY <2>3 DEF ExecInv, RowInv, TxFollowsStatus, LatestTx, NoTx
      <3>4. ASSUME r.op = "fail", r.failure.category = "permanent",
                   LatestTx(i)'.hash # NoHash
            PROVE  LatestTx(i)'.hash \in reverted
        BY <1>3, <1>5, <1>8, <2>3, <3>2, <3>4
           DEF FailsForGood, PaysFor, ExecInv, ChainTypeOK
      <3>5. /\ LatestTx(i)'.hash # NoHash /\ status'[i] \in {"failed", "manually_resolved"}
                 => LatestTx(i)'.hash \in reverted
            /\ status'[i] \in {"confirmed", "settled"} => LatestTx(i)'.hash \in Succeeded
        BY <1>5, <1>8, <2>1, <2>3, <3>1, <3>3, <3>4 DEF PaidAsStatus
      <3> QED
        BY <1>4, <2>3, <3>5 DEF PaidAsStatus, Succeeded
    <2> QED
      BY <2>2, <2>3
  <1> QED
    BY <1>1, <1>3, <1>7, <1>9, <1>10, <1>11 DEF r

(* A request that begins with a hash that pays its intent is sound.         *)
LEMMA BegunStep ==
  ASSUME ExecInv, NEW s \in Slots, NEW i \in Withdrawals, NEW op, NEW actor, NEW hash,
         NEW fail, Begin(s, op, i, actor, hash, fail), UNCHANGED chainVars,
         PaysFor(hash, i),
         op = "fail" /\ fail.category = "permanent" => FailsForGood(hash, i),
         op = "confirm" => LatestTx(i).hash \in Succeeded
  PROVE  /\ \A j \in Withdrawals : RowsPay(j)'
         /\ \A t \in Slots : RequestPays(t)'
         /\ HashesKept
         /\ \A j \in Withdrawals \ Overlapping : PaidAsStatus(j)'
         /\ request[s] = Idle
         /\ \A t \in Slots : t # s => request'[t] = request[t]
         /\ request'[s] # Idle /\ request'[s].op = op
         /\ request'[s].intent = i /\ request'[s].hash = hash
  <1> DEFINE r == [op |-> op, intent |-> i, actor |-> actor, hash |-> hash,
                   failure |-> fail, status |-> status[i],
                   row |-> Len(txs[i]), tx |-> LatestTx(i)]
  <1>1. /\ request[s] = Idle /\ request \in [Slots -> Requests \cup {Idle}]
        /\ request' = [request EXCEPT ![s] = r]
        /\ UNCHANGED <<status, txs, mempool, mined, reverted>>
    BY DEF Begin, ExecInv, Inv, TypeInv, TypeOK, intentVars, chainVars
  <1>2. r # Idle /\ r.op = op /\ r.intent = i /\ r.hash = hash /\ r.tx = LatestTx(i) /\ r.failure = fail
    BY DEF Idle
  <1> HIDE DEF r
  <1>3. ChainGrows /\ PaysFor(LatestTx(i).hash, i)
    BY <1>1, LatestPays DEF ChainGrows, ExecInv, Inv, TypeInv
  <1>4. request'[s] = r /\ \A t \in Slots : t # s => request'[t] = request[t]
    BY <1>1
  <1>5. ASSUME NEW t \in Slots PROVE RequestPays(t)'
    <2>1. CASE t = s
      BY <1>1, <1>2, <1>3, <1>4, <2>1
         DEF RequestPays, PaysFor, FailsForGood, Succeeded
    <2>2. CASE t # s
      <3>1. RequestPays(t) /\ request'[t] \in {request[t], Idle}
        BY <1>4, <2>2 DEF ExecInv
      <3> QED
        BY <1>3, <3>1, RequestKept
    <2> QED
      BY <2>1, <2>2
  <1>6. /\ \A j \in Withdrawals : RowsPay(j)'
        /\ HashesKept
        /\ \A j \in Withdrawals \ Overlapping : PaidAsStatus(j)'
    BY <1>1, <1>3, RowsKept
  <1> QED
    BY <1>1, <1>2, <1>4, <1>5, <1>6

-----------------------------------------------------------------------------
(* Steps of a worker in its own memory *)

(* The rows change only by steps of WithdrawalIntents.                      *)
LEMMA VarsStep ==
  ASSUME ExecInv, [Next]_vars
  PROVE  Inv' /\ RowInv'
  BY InvStep, RowStep DEF ExecInv

(* Only job[w] changes, and w waits for no request afterwards.              *)
JobMoves(w) ==
  /\ job' \in [Workers -> Jobs \cup {NoJob}]
  /\ \A v \in Workers : v # w => job'[v] = job[v]
  /\ job'[w] = NoJob \/ job'[w].slot = NoSlot

(* Going on to the next step keeps intent, hash and category. *)
LEMMA GotoJob ==
  ASSUME ChainTypeOK, NEW w \in Workers, job[w] # NoJob, NEW next \in Steps, Goto(w, next)
  PROVE  /\ JobMoves(w) /\ job'[w] # NoJob
         /\ job'[w].at = next /\ job'[w].intent = job[w].intent
         /\ job'[w].hash = job[w].hash /\ job'[w].category = job[w].category
  <1>1. job[w] \in Jobs
    BY DEF ChainTypeOK
  <1> DEFINE k == [job[w] EXCEPT !.at = next, !.slot = NoSlot]
  <1>2. /\ k \in Jobs /\ k.at = next /\ k.intent = job[w].intent
        /\ k.hash = job[w].hash /\ k.category = job[w].category /\ k.slot = NoSlot
    BY <1>1 DEF Jobs
  <1>3. k # NoJob
    BY <1>2 DEF NoJob, Steps
  <1>4. job' = [job EXCEPT ![w] = k]
    BY <1>1 DEF Goto, Jobs
  <1> HIDE DEF k
  <1> QED
    BY <1>2, <1>3, <1>4 DEF JobMoves, ChainTypeOK

(* A worker that is done with an intent holds nothing. *)
LEMMA DoneJob ==
  ASSUME ChainTypeOK, NEW w \in Workers, Done(w)
  PROVE  JobMoves(w) /\ JobIsSound(w)'
  BY DEF Done, ChainTypeOK, JobMoves, JobIsSound

(* What is reported without a hash is sound; only what cannot be prepared   *)
(* is reported as permanent.                                                *)
LEMMA ReportJob ==
  ASSUME ChainTypeOK, NEW w \in Workers, job[w] # NoJob,
         NEW category \in Categories, ReportFailure(w, category),
         category = "permanent" => PrepareError[job[w].intent] # "none"
  PROVE  JobMoves(w) /\ JobIsSound(w)'
  <1>1. job[w] \in Jobs
    BY DEF ChainTypeOK
  <1> DEFINE k == [job[w] EXCEPT !.at = "fail", !.hash = NoHash,
                                 !.category = category, !.slot = NoSlot]
  <1>2. /\ k \in Jobs /\ k.at = "fail" /\ k.intent = job[w].intent
        /\ k.hash = NoHash /\ k.category = category /\ k.slot = NoSlot
    BY <1>1 DEF Jobs, Steps
  <1>3. job' = [job EXCEPT ![w] = k]
    BY <1>1 DEF ReportFailure, Jobs
  <1> HIDE DEF k
  <1>4. JobMoves(w) /\ job'[w] = k
    BY <1>2, <1>3 DEF JobMoves, ChainTypeOK
  <1>5. JobIsSound(w)'
    BY <1>2, <1>4 DEF JobIsSound, PaysFor, FailsForGood
  <1> QED
    BY <1>4, <1>5

(* After an error a worker reports, or lets go of the intent. *)
LEMMA ErrorJob ==
  ASSUME ChainTypeOK, NEW w \in Workers, job[w] # NoJob, OnError(w)
  PROVE  JobMoves(w) /\ JobIsSound(w)'
  BY DoneJob, ReportJob DEF OnError, Categories

(* The others keep their jobs, and what they wait for.                      *)
LEMMA OthersKept ==
  ASSUME ExecInv, NEW w \in Workers, JobMoves(w), JobIsSound(w)', UNCHANGED request,
         HashesKept, ChainGrows
  PROVE  \A v \in Workers : JobIsSound(v)' /\ WaitsForItsOwn(v)'
  <1>1. ASSUME NEW v \in Workers PROVE JobIsSound(v)'
    <2>1. CASE v = w
      BY <2>1
    <2>2. CASE v # w
      BY <2>2, JobKept DEF ExecInv, JobMoves
    <2> QED
      BY <2>1, <2>2
  <1>2. \A v \in Workers : WaitsForItsOwn(v)'
    BY WaitsKept DEF ExecInv, JobMoves
  <1> QED
    BY <1>1, <1>2

(* A step that changes nothing but the memory of one worker keeps the invariant if that
   memory is sound. *)
LEMMA MemoryStep ==
  ASSUME ExecInv, NEW w \in Workers, JobMoves(w), JobIsSound(w)',
         UNCHANGED <<vars, chainVars>>
  PROVE  ExecInv'
  <1>1. Inv' /\ RowInv'
    BY VarsStep
  <1>2. UNCHANGED <<status, txs, request, mempool, mined, reverted>> /\ ChainGrows
    BY DEF vars, intentVars, chainVars, ChainGrows
  <1>3. ChainTypeOK' /\ ChainIsSound'
    BY <1>2 DEF ExecInv, ChainTypeOK, JobMoves, ChainIsSound, NonceTooLow, NextNonce
  <1>4. /\ \A i \in Withdrawals : RowsPay(i)'
        /\ HashesKept
        /\ \A i \in Withdrawals \ Overlapping : PaidAsStatus(i)'
    BY <1>2, RowsKept
  <1>5. \A s \in Slots : RequestPays(s)'
    BY <1>2, RequestKept DEF ExecInv
  <1>6. SentIsRecorded'
    BY <1>2, <1>4, RecordKept
  <1>7. \A v \in Workers : JobIsSound(v)' /\ WaitsForItsOwn(v)'
    BY <1>2, <1>4, OthersKept
  <1> QED
    BY <1>1, <1>3, <1>4, <1>5, <1>6, <1>7 DEF ExecInv

(* A worker takes a job that is sound.                                      *)
LEMMA TakeStep ==
  ASSUME ExecInv, NEW w \in Workers, NEW i \in Withdrawals, NEW step \in Steps,
         NEW hash \in Hashes \cup {NoHash}, NEW category \in Categories \cup {"none"},
         TakeJob(w, i, step, hash, category), PaysFor(hash, i),
         step \in {"sign", "send", "record", "confirm"} => hash # NoHash,
         step = "send" /\ i \notin Overlapping => LatestTx(i).hash = hash,
         step = "fail" => category \in Categories,
         step = "fail" /\ category = "permanent" => FailsForGood(hash, i),
         step = "confirm" => hash \in Succeeded
  PROVE  ExecInv'
  <1> DEFINE k == [at |-> step, intent |-> i, hash |-> hash,
                   category |-> category, slot |-> NoSlot]
  <1>1. /\ k \in Jobs /\ k.at = step /\ k.intent = i /\ k.hash = hash
        /\ k.category = category /\ k.slot = NoSlot
    BY DEF Jobs
  <1>2. job' = [job EXCEPT ![w] = k] /\ UNCHANGED <<vars, chainVars>>
    BY DEF TakeJob
  <1> HIDE DEF k
  <1>3. JobMoves(w) /\ job'[w] = k
    BY <1>1, <1>2 DEF JobMoves, ExecInv, ChainTypeOK
  <1>4. UNCHANGED <<txs, mined, reverted>>
    BY <1>2 DEF vars, intentVars, chainVars
  <1>5. JobIsSound(w)'
    BY <1>1, <1>3, <1>4 DEF JobIsSound, PaysFor, FailsForGood, Succeeded, LatestTx
  <1> QED
    BY <1>2, <1>3, <1>5, MemoryStep

(* What a list returns is the row as it is. *)
LEMMA PickUpStep ==
  ASSUME ExecInv, NEW w \in Workers, NEW i \in Withdrawals, PickUp(w, i)
  PROVE  ExecInv'
  <1>1. /\ LatestTx(i) \in TxRows /\ PaysFor(LatestTx(i).hash, i) /\ RowsAreHashed(i)
        /\ PaysFor(NoHash, i)
    BY LatestTxType, LatestPays DEF ExecInv, Inv, TypeInv, RowInv, PaysFor
  <1>2. /\ LatestTx(i).hash \in Hashes \cup {NoHash}
        /\ LatestTx(i).status = "signed" => LatestTx(i).hash # NoHash
    BY <1>1, LatestTxIsHashed DEF TxRows, RowIsHashed, ExecInv, Inv, TypeInv
  <1>3. \A h \in mined : h \in Hashes /\ h # NoHash
    BY WithdrawalAssumption DEF ExecInv, ChainTypeOK
  <1> DEFINE h == LatestTx(i).hash
  <1> HIDE DEF h
  <1>4. CASE PickUpQueued(w, i)
    <2>1. \/ /\ PrepareError[i] = "manual_intervention_required"
             /\ TakeJob(w, i, "fail", NoHash, "manual_intervention_required")
          \/ LatestTx(i).status = "signed" /\ TakeJob(w, i, "send", h, "none")
          \/ TakeJob(w, i, "start", NoHash, "none")
      BY <1>4 DEF PickUpQueued, h
    <2>2. CASE TakeJob(w, i, "fail", NoHash, "manual_intervention_required")
      BY <1>1, <2>2, TakeStep DEF Steps, Categories
    <2>3. CASE LatestTx(i).status = "signed" /\ TakeJob(w, i, "send", h, "none")
      BY <1>1, <1>2, <2>3, TakeStep DEF Steps, h
    <2>4. CASE TakeJob(w, i, "start", NoHash, "none")
      BY <1>1, <2>4, TakeStep DEF Steps
    <2> QED
      BY <2>1, <2>2, <2>3, <2>4
  <1>5. CASE PickUpBroadcast(w, i)
    <2>1. /\ h \in mined
          /\ \/ h \in reverted /\ TakeJob(w, i, "fail", h, "permanent")
             \/ h \notin reverted /\ TakeJob(w, i, "confirm", h, "none")
      BY <1>5 DEF PickUpBroadcast, h
    <2>2. PaysFor(h, i) /\ h \in Hashes /\ h # NoHash
      BY <1>1, <1>3, <2>1 DEF h
    <2>3. CASE h \in reverted /\ TakeJob(w, i, "fail", h, "permanent")
      BY <2>2, <2>3, TakeStep DEF Steps, Categories, FailsForGood
    <2>4. CASE h \notin reverted /\ TakeJob(w, i, "confirm", h, "none")
      BY <2>1, <2>2, <2>4, TakeStep DEF Steps, Succeeded
    <2> QED
      BY <2>1, <2>3, <2>4
  <1>6. CASE PickUpConfirmed(w, i)
    <2>1. TakeJob(w, i, "settle", NoHash, "none")
      BY <1>6 DEF PickUpConfirmed
    <2> QED
      BY <1>1, <2>1, TakeStep DEF Steps
  <1> QED
    BY <1>4, <1>5, <1>6 DEF PickUp

(* A job a worker holds is for a withdrawal, with a well-formed hash.       *)
LEMMA HeldJob ==
  ASSUME ExecInv, NEW w \in Workers, job[w] # NoJob
  PROVE  /\ job[w] \in Jobs /\ job[w].intent \in Withdrawals
         /\ job[w].hash \in Hashes \cup {NoHash}
         /\ job[w].category \in Categories \cup {"none"} /\ job[w].at \in Steps
         /\ job[w].slot \in Slots \cup {NoSlot}
         /\ JobIsSound(w) /\ WaitsForItsOwn(w) /\ PaysFor(job[w].hash, job[w].intent)
  BY DEF ExecInv, ChainTypeOK, Jobs, JobIsSound

(* Signing fixes a hash that pays the withdrawal, at the next nonce of its wallet. *)
LEMMA PrepareStep ==
  ASSUME ExecInv, NEW w \in Workers, Prepare(w)
  PROVE  ExecInv'
  <1> DEFINE i == job[w].intent
  <1>1. /\ At(w, "prepare") /\ UNCHANGED <<vars, chainVars>>
        /\ \/ /\ PrepareError[i] = "none"
              /\ \E h \in Hashes : Pays[h] = i
                   /\ job' = [job EXCEPT ![w].at = "sign", ![w].hash = h]
           \/ PrepareError[i] # "none" /\ ReportFailure(w, PrepareError[i])
    BY DEF Prepare
  <1>2. /\ job[w] # NoJob /\ job[w].slot = NoSlot /\ job[w] \in Jobs /\ i \in Withdrawals
        /\ ChainTypeOK
    BY <1>1, HeldJob DEF At, ExecInv
  <1>3. CASE PrepareError[i] = "none"
    <2>1. PICK h \in Hashes : /\ Pays[h] = i
                              /\ job' = [job EXCEPT ![w].at = "sign", ![w].hash = h]
      BY <1>1, <1>3
    <2> DEFINE k == [job[w] EXCEPT !.at = "sign", !.hash = h]
    <2>2. /\ k \in Jobs /\ k.at = "sign" /\ k.intent = i /\ k.hash = h /\ k.slot = NoSlot
      BY <1>2 DEF Jobs, Steps
    <2>3. job' = [job EXCEPT ![w] = k]
      BY <1>2, <2>1 DEF Jobs
    <2> HIDE DEF k
    <2>4. JobMoves(w) /\ job'[w] = k
      BY <1>2, <2>2, <2>3 DEF JobMoves, ChainTypeOK
    <2>5. JobIsSound(w)'
      BY <1>3, <2>1, <2>2, <2>4, WithdrawalAssumption DEF JobIsSound, PaysFor
    <2> QED
      BY <1>1, <2>4, <2>5, MemoryStep
  <1>4. CASE PrepareError[i] # "none"
    <2>1. /\ ReportFailure(w, PrepareError[i])
          /\ PrepareError[i] \in Categories
      BY <1>1, <1>2, <1>4, ExecutionAssumption DEF Categories
    <2>2. JobMoves(w) /\ JobIsSound(w)'
      BY <1>2, <1>4, <2>1, ReportJob
    <2> QED
      BY <1>1, <2>2, MemoryStep
  <1> QED
    BY <1>3, <1>4

(* A transaction the node refuses is not on the chain. *)
LEMMA SendRefusedStep ==
  ASSUME ExecInv, NEW w \in Workers, SendRefused(w)
  PROVE  ExecInv'
  <1>1. job[w] # NoJob /\ OnError(w) /\ UNCHANGED <<vars, chainVars>>
    BY DEF SendRefused, At
  <1>2. JobMoves(w) /\ JobIsSound(w)'
    BY <1>1, ErrorJob DEF ExecInv
  <1> QED
    BY <1>1, <1>2, MemoryStep

(* A call that times out and a crash change nothing outside the worker.     *)
LEMMA LostStep ==
  ASSUME ExecInv, NEW w \in Workers, CallTimesOut(w) \/ Crash(w)
  PROVE  ExecInv'
  <1>1. job[w] # NoJob /\ (OnError(w) \/ Done(w)) /\ UNCHANGED <<vars, chainVars>>
    BY DEF CallTimesOut, Crash
  <1>2. JobMoves(w) /\ JobIsSound(w)'
    BY <1>1, ErrorJob, DoneJob DEF ExecInv
  <1> QED
    BY <1>1, <1>2, MemoryStep

(* An answer of the API or of the node sends the worker on. *)
LEMMA AnswerStep ==
  ASSUME ExecInv, NEW w \in Workers, Answer(w)
  PROVE  ExecInv'
  <1> DEFINE j == job[w]
             i == job[w].intent
  <1>1. UNCHANGED <<vars, chainVars>> /\ ChainTypeOK
    BY DEF Answer, ExecInv
  <1>2. /\ j # NoJob
        /\ \/ Done(w) \/ OnError(w)
           \/ /\ LatestTx(i) = [status |-> "signed", hash |-> j.hash]
              /\ j.at = "sign" /\ Goto(w, "send")
           \/ Goto(w, "settle")
    BY DEF Answer, At
  <1>3. CASE Done(w) \/ OnError(w)
    <2>1. JobMoves(w) /\ JobIsSound(w)'
      BY <1>1, <1>2, <1>3, ErrorJob, DoneJob
    <2> QED
      BY <1>1, <2>1, MemoryStep
  <1>4. ASSUME NEW next \in {"send", "settle"}, Goto(w, next),
               next = "send" => /\ LatestTx(i) = [status |-> "signed", hash |-> j.hash]
                                /\ j.at = "sign"
        PROVE  ExecInv'
    <2>1. /\ JobMoves(w) /\ job'[w].at = next
          /\ job'[w].intent = i /\ job'[w].hash = j.hash
      BY <1>1, <1>2, <1>4, GotoJob DEF Steps
    <2>2. /\ PaysFor(j.hash, i)
          /\ next = "send" => j.hash # NoHash /\ LatestTx(i).hash = j.hash
      BY <1>2, <1>4, HeldJob DEF JobIsSound
    <2>3. txs' = txs
      BY <1>1 DEF vars, intentVars
    <2>4. JobIsSound(w)'
      BY <2>1, <2>2, <2>3 DEF JobIsSound, PaysFor, LatestTx
    <2> QED
      BY <1>1, <2>1, <2>4, MemoryStep
  <1> QED
    BY <1>2, <1>3, <1>4

-----------------------------------------------------------------------------
(* Steps that touch the chain *)

(* The next nonce of a wallet counts its mined transactions.                *)
LEMMA NextNonceType ==
  ASSUME ChainTypeOK, NEW a
  PROVE  NextNonce(a) \in Nat /\ IsFiniteSet({h \in mined : Wallet(h) = a})
  <1>1. IsFiniteSet({h \in mined : Wallet(h) = a})
    BY FS_Subset DEF ChainTypeOK
  <1> QED
    BY <1>1, FS_CardinalityType DEF NextNonce

(* A mined transaction uses up one nonce of its wallet and of no other. *)
LEMMA MineNonce ==
  ASSUME ChainTypeOK, NEW h, h \notin mined, mined' = mined \cup {h}, NEW a
  PROVE  NextNonce(a)' = IF Wallet(h) = a THEN NextNonce(a) + 1 ELSE NextNonce(a)
  <1> DEFINE S == {g \in mined : Wallet(g) = a}
             T == {g \in mined' : Wallet(g) = a}
  <1>1. IsFiniteSet(S) /\ h \notin S
    BY NextNonceType
  <1>2. NextNonce(a) = Cardinality(S) /\ NextNonce(a)' = Cardinality(T)
    BY DEF NextNonce, Wallet
  <1>3. CASE Wallet(h) = a
    <2>1. T = S \cup {h}
      BY <1>3
    <2>2. Cardinality(T) = Cardinality(S) + 1
      BY <1>1, <2>1, FS_AddElement
    <2> QED
      BY <1>2, <1>3, <2>2
  <1>4. CASE Wallet(h) # a
    <2>1. T = S
      BY <1>4
    <2> QED
      BY <1>2, <1>4, <2>1
  <1> QED
    BY <1>3, <1>4

(* What the node holds is mined in the order of its nonces.                 *)
LEMMA MineStep ==
  ASSUME ExecInv, NEW h \in Hashes, Mine(h)
  PROVE  ExecInv'
  <1>1. /\ h \in mempool /\ NonceOf[h] = NextNonce(Wallet(h))
        /\ mined' = mined \cup {h} /\ mempool' = mempool \ {h}
        /\ reverted' \in {reverted, reverted \cup {h}}
        /\ UNCHANGED <<vars, job>>
    BY DEF Mine
  <1>2. /\ ChainTypeOK /\ ChainIsSound /\ h \notin mined
    BY <1>1 DEF ExecInv, ChainIsSound
  <1>3. Inv' /\ RowInv' /\ UNCHANGED <<status, txs, request>>
    BY <1>1, VarsStep DEF vars, intentVars
  <1>4. ChainGrows
    BY <1>1, <1>2 DEF ChainGrows, ChainTypeOK
  <1>5. ChainTypeOK'
    <2>1. IsFiniteSet(mined')
      BY <1>1, <1>2, FS_AddElement DEF ChainTypeOK
    <2> QED
      BY <1>1, <1>2, <2>1 DEF ChainTypeOK
  <1>6. ChainIsSound'
    <2>1. ASSUME NEW g \in mined' PROVE NonceOf[g] < NextNonce(Wallet(g))'
      <3> DEFINE a == Wallet(g)
      <3>1. NextNonce(a)' = IF Wallet(h) = a THEN NextNonce(a) + 1 ELSE NextNonce(a)
        BY <1>1, <1>2, MineNonce
      <3>2. NextNonce(a) \in Nat /\ NonceOf[g] \in Nat
        BY <1>1, <1>2, <2>1, NextNonceType, ExecutionAssumption DEF ChainTypeOK
      <3>3. CASE g = h
        BY <1>1, <3>1, <3>2, <3>3
      <3>4. CASE g # h
        <4>1. NonceOf[g] < NextNonce(a)
          BY <1>1, <1>2, <2>1, <3>4 DEF ChainIsSound, NonceTooLow
        <4> QED
          BY <3>1, <3>2, <4>1
      <3> QED
        BY <3>3, <3>4
    <2>2. mempool' \cap mined' = {}
      BY <1>1, <1>2 DEF ChainIsSound
    <2>3. ASSUME NEW g \in mined' PROVE NonceTooLow(g)'
      BY <2>1, <2>3 DEF NonceTooLow, NextNonce, Wallet
    <2> QED
      BY <2>2, <2>3 DEF ChainIsSound
  <1>7. /\ \A i \in Withdrawals : RowsPay(i)'
        /\ HashesKept
        /\ \A i \in Withdrawals \ Overlapping : PaidAsStatus(i)'
    BY <1>3, <1>4, RowsKept
  <1>8. \A s \in Slots : RequestPays(s)'
    BY <1>3, <1>4, RequestKept DEF ExecInv
  <1>9. SentIsRecorded'
    BY <1>1, <1>3 DEF ExecInv, SentIsRecorded, LatestTx
  <1>10. \A v \in Workers : JobIsSound(v)'
    BY <1>1, <1>2, <1>4, <1>7, JobKept DEF ExecInv
  <1>11. \A v \in Workers : WaitsForItsOwn(v)'
    BY <1>1, <1>3, WaitsKept DEF ExecInv
  <1> QED
    BY <1>3, <1>5, <1>6, <1>7, <1>8, <1>9, <1>10, <1>11 DEF ExecInv

(* A worker sends what is recorded, or the node fails with or without it.   *)
LEMMA SentStep ==
  ASSUME ExecInv, NEW w \in Workers, JobMoves(w), JobIsSound(w)', UNCHANGED vars,
         UNCHANGED <<mined, reverted>>,
         \/ mempool' = mempool
         \/ /\ At(w, "send") /\ ~NonceTooLow(job[w].hash)
            /\ mempool' \subseteq mempool \cup {job[w].hash}
  PROVE  ExecInv'
  <1>1. Inv' /\ RowInv' /\ UNCHANGED <<status, txs, request>> /\ ChainGrows
    BY VarsStep DEF vars, intentVars, ChainGrows
  <1>2. ASSUME NEW h \in mempool', h \notin mempool
        PROVE  /\ h = job[w].hash /\ h \in Hashes /\ h \notin mined
               /\ Pays[h] = job[w].intent
               /\ Pays[h] \notin Overlapping => LatestTx(Pays[h]).hash = h
    <2>1. /\ h = job[w].hash /\ ~NonceTooLow(h) /\ job[w] # NoJob /\ job[w].at = "send"
      BY <1>2 DEF At
    <2>2. /\ h \in Hashes \cup {NoHash} /\ h # NoHash /\ Pays[h] = job[w].intent
          /\ job[w].intent \notin Overlapping => LatestTx(job[w].intent).hash = h
      BY <2>1, HeldJob DEF JobIsSound, PaysFor
    <2> QED
      BY <2>1, <2>2 DEF ExecInv, ChainIsSound
  <1>3. ChainTypeOK'
    BY <1>2 DEF ExecInv, ChainTypeOK, JobMoves
  <1>4. ChainIsSound'
    <2>1. mempool' \cap mined' = {}
      BY <1>2 DEF ExecInv, ChainIsSound
    <2> QED
      BY <2>1 DEF ExecInv, ChainIsSound, NonceTooLow, NextNonce
  <1>5. SentIsRecorded'
    <2> SUFFICES ASSUME NEW h \in mempool' \cup mined', Pays[h] \in Withdrawals \ Overlapping
                 PROVE  LatestTx(Pays[h]).hash = h
      BY <1>1 DEF SentIsRecorded, LatestTx
    <2>1. CASE h \in mempool \cup mined
      BY <2>1 DEF ExecInv, SentIsRecorded
    <2>2. CASE h \notin mempool \cup mined
      BY <1>2, <2>2
    <2> QED
      BY <2>1, <2>2
  <1>6. /\ \A i \in Withdrawals : RowsPay(i)'
        /\ HashesKept
        /\ \A i \in Withdrawals \ Overlapping : PaidAsStatus(i)'
    BY <1>1, RowsKept
  <1>7. \A s \in Slots : RequestPays(s)'
    BY <1>1, RequestKept DEF ExecInv
  <1>8. \A v \in Workers : JobIsSound(v)' /\ WaitsForItsOwn(v)'
    BY <1>1, <1>6, OthersKept
  <1> QED
    BY <1>1, <1>3, <1>4, <1>5, <1>6, <1>7, <1>8 DEF ExecInv

(* A transaction that is sent is the recorded one. *)
LEMMA SendStep ==
  ASSUME ExecInv, NEW w \in Workers, Send(w)
  PROVE  ExecInv'
  <1>1. /\ At(w, "send") /\ ~NonceTooLow(job[w].hash) /\ Goto(w, "record")
        /\ mempool' \subseteq mempool \cup {job[w].hash}
        /\ UNCHANGED vars /\ UNCHANGED <<mined, reverted>>
    BY DEF Send
  <1>2. job[w] # NoJob /\ job[w].at = "send"
    BY <1>1 DEF At
  <1>3. /\ JobMoves(w) /\ job'[w].at = "record"
        /\ job'[w].intent = job[w].intent /\ job'[w].hash = job[w].hash
    BY <1>1, <1>2, GotoJob DEF Steps, ExecInv
  <1>4. JobIsSound(w)'
    BY <1>2, <1>3, HeldJob DEF JobIsSound, PaysFor
  <1> QED
    BY <1>1, <1>3, <1>4, SentStep

(* The node fails before or after it took the transaction. *)
LEMMA NodeFailsStep ==
  ASSUME ExecInv, NEW w \in Workers, NodeFails(w)
  PROVE  ExecInv'
  <1>1. /\ OnError(w) /\ UNCHANGED vars /\ UNCHANGED <<mined, reverted>>
        /\ job[w] # NoJob
        /\ \/ mempool' = mempool
           \/ /\ At(w, "send") /\ ~NonceTooLow(job[w].hash)
              /\ mempool' \subseteq mempool \cup {job[w].hash}
    BY DEF NodeFails, At
  <1>2. JobMoves(w) /\ JobIsSound(w)'
    BY <1>1, ErrorJob DEF ExecInv
  <1> QED
    BY <1>1, <1>2, SentStep

-----------------------------------------------------------------------------
(* Steps that change rows or requests *)

(* The chain is as it was; rows, requests and jobs are sound.               *)
LEMMA ApiStep ==
  ASSUME ExecInv, [Next]_vars, UNCHANGED chainVars,
         job' \in [Workers -> Jobs \cup {NoJob}],
         \A i \in Withdrawals : RowsPay(i)',
         \A s \in Slots : RequestPays(s)',
         HashesKept,
         \A i \in Withdrawals \ Overlapping : PaidAsStatus(i)',
         \A v \in Workers : JobIsSound(v)' /\ WaitsForItsOwn(v)'
  PROVE  ExecInv'
  <1>1. Inv' /\ RowInv' /\ UNCHANGED <<mempool, mined, reverted>>
    BY VarsStep DEF chainVars
  <1>2. ChainTypeOK' /\ ChainIsSound'
    BY <1>1 DEF ExecInv, ChainTypeOK, ChainIsSound, NonceTooLow, NextNonce
  <1>3. SentIsRecorded'
    BY <1>1, RecordKept
  <1> QED
    BY <1>1, <1>2, <1>3 DEF ExecInv

(* Nobody waits for a slot whose request is idle.                           *)
LEMMA IdleSlot ==
  ASSUME ExecInv, NEW s \in Slots, request[s] = Idle, NEW w \in Workers, job[w] # NoJob
  PROVE  job[w].slot # s
  BY ExecutionAssumption DEF ExecInv, WaitsForItsOwn

(* A worker that waits for a call waits for one of the slots. *)
LEMMA SlotIsSlot ==
  ASSUME ExecInv, NEW w \in Workers, job[w] # NoJob, job[w].slot # NoSlot
  PROVE  job[w].slot \in Slots
  BY HeldJob

(* A handler commits, refuses or is aborted: each keeps rows and chain in agreement. *)
LEMMA ServeStep ==
  ASSUME ExecInv, NEW s \in Slots, Serve(s)
  PROVE  ExecInv'
  <1>1. Unattended(s) /\ Commit(s) /\ UNCHANGED <<job, chainVars>>
    BY DEF Serve
  <1>2. [Next]_vars /\ ChainGrows
    BY <1>1 DEF Next, ChainGrows, chainVars
  <1>3. /\ \A i \in Withdrawals : RowsPay(i)'
        /\ \A t \in Slots : RequestPays(t)'
        /\ HashesKept
        /\ \A i \in Withdrawals \ Overlapping : PaidAsStatus(i)'
        /\ request' = [request EXCEPT ![s] = Idle]
    BY <1>1, ServedStep
  <1>4. \A v \in Workers : JobIsSound(v)'
    BY <1>1, <1>2, <1>3, JobKept DEF ExecInv
  <1>5. \A v \in Workers : WaitsForItsOwn(v)'
    <2>1. ASSUME NEW v \in Workers, job[v] # NoJob, job[v].slot # NoSlot
          PROVE  request'[job[v].slot] = request[job[v].slot]
      BY <1>1, <1>3, <2>1, SlotIsSlot DEF Unattended, ExecInv, Inv, TypeInv, TypeOK
    <2> QED
      BY <1>1, <2>1, WaitsKept DEF ExecInv
  <1> QED
    BY <1>1, <1>2, <1>3, <1>4, <1>5, ApiStep DEF ExecInv, ChainTypeOK

(* The request w waits for has ended: no other worker waits for it.         *)
LEMMA EndedWaits ==
  ASSUME ExecInv, NEW w \in Workers, job[w] # NoJob, job[w].slot # NoSlot, JobMoves(w),
         request' = [request EXCEPT ![job[w].slot] = Idle]
  PROVE  \A v \in Workers : WaitsForItsOwn(v)'
  <1>1. ASSUME NEW v \in Workers, v # w, job[v] # NoJob, job[v].slot # NoSlot
        PROVE  request'[job[v].slot] = request[job[v].slot]
    <2>1. job[v].slot # job[w].slot
      BY <1>1 DEF ExecInv, WaitsForItsOwn
    <2> QED
      BY <1>1, <2>1, SlotIsSlot DEF ExecInv, Inv, TypeInv, TypeOK
  <1> QED
    BY <1>1, WaitsKept DEF ExecInv, JobMoves

(* A call that never reached the API only moves the worker. *)
LEMMA CallFailsStep ==
  ASSUME ExecInv, NEW w \in Workers, CallFails(w)
  PROVE  ExecInv'
  <1>1. /\ job[w] # NoJob /\ job[w].slot # NoSlot /\ Abort(job[w].slot) /\ OnError(w)
        /\ UNCHANGED chainVars
    BY DEF CallFails
  <1>2. PICK s \in Slots : s = job[w].slot
    BY <1>1, SlotIsSlot
  <1>3. /\ [Next]_vars /\ ChainGrows
    BY <1>1, <1>2 DEF Next, ChainGrows, chainVars
  <1>4. /\ request' = [request EXCEPT ![s] = Idle]
        /\ UNCHANGED <<status, txs>>
    BY <1>1, <1>2 DEF Abort, Finish, intentVars
  <1>5. /\ \A i \in Withdrawals : RowsPay(i)'
        /\ HashesKept
        /\ \A i \in Withdrawals \ Overlapping : PaidAsStatus(i)'
    BY <1>3, <1>4, RowsKept
  <1>6. \A t \in Slots : RequestPays(t)'
    <2>1. \A t \in Slots : request'[t] \in {request[t], Idle}
      BY <1>4 DEF ExecInv, Inv, TypeInv, TypeOK
    <2> QED
      BY <1>3, <2>1, RequestKept DEF ExecInv
  <1>7. JobMoves(w) /\ JobIsSound(w)'
    BY <1>1, ErrorJob DEF ExecInv
  <1>8. \A v \in Workers : JobIsSound(v)'
    BY <1>3, <1>5, <1>7, JobKept DEF ExecInv, JobMoves
  <1>9. \A v \in Workers : WaitsForItsOwn(v)'
    BY <1>1, <1>2, <1>4, <1>7, EndedWaits
  <1> QED
    BY <1>1, <1>3, <1>5, <1>6, <1>7, <1>8, <1>9, ApiStep DEF JobMoves

(* The worker goes on with what the commit has recorded: the hash it signed,*)
(* or the signed transaction it found when it claimed the intent.           *)
LEMMA ReplyStep ==
  ASSUME ExecInv, NEW w \in Workers, Reply(w)
  PROVE  ExecInv'
  <1> DEFINE j == job[w]
  <1>1. /\ j # NoJob /\ j.slot # NoSlot /\ Commit(j.slot) /\ UNCHANGED chainVars
    BY DEF Reply
  <1>2. PICK s \in Slots : s = j.slot
    BY <1>1, SlotIsSlot
  <1>3. PICK i \in Withdrawals : i = j.intent
    BY <1>1, HeldJob
  <1>4. [Next]_vars /\ ChainGrows /\ UNCHANGED <<mined, reverted>>
    BY <1>1, <1>2 DEF Next, ChainGrows, chainVars
  <1>5. /\ \A k \in Withdrawals : RowsPay(k)'
        /\ \A t \in Slots : RequestPays(t)'
        /\ HashesKept
        /\ \A k \in Withdrawals \ Overlapping : PaidAsStatus(k)'
        /\ request' = [request EXCEPT ![s] = Idle]
        /\ CommitWrites(request[s])
    BY <1>1, <1>2, ServedStep
  <1>6. /\ j \in Jobs /\ JobIsSound(w) /\ ChainTypeOK /\ PaysFor(j.hash, i)
        /\ j.at \notin {"prepare", "send"} /\ j.at \in Steps
        /\ request[s].intent = i /\ request[s].op = CallAt[j.at]
        /\ j.at = "sign" => request[s].hash = j.hash
    BY <1>1, <1>2, <1>3, HeldJob DEF ExecInv, WaitsForItsOwn
  <1>7. \/ /\ j.at = "start" /\ LatestTx(i).status = "signed"
           /\ job' = [job EXCEPT ![w].at = "send", ![w].slot = NoSlot,
                                 ![w].hash = LatestTx(i).hash]
        \/ j.at = "start" /\ Goto(w, "prepare")
        \/ j.at = "sign" /\ Goto(w, "send")
        \/ Goto(w, "settle")
        \/ Done(w)
    BY <1>3 DEF Reply
  <1>8. JobMoves(w) /\ JobIsSound(w)'
    <2>1. CASE Done(w)
      BY <1>6, <2>1, DoneJob
    <2>2. CASE Goto(w, "settle") \/ Goto(w, "prepare")
      <3>1. /\ JobMoves(w) /\ job'[w].at \in {"settle", "prepare"}
            /\ job'[w].intent = i /\ job'[w].hash = j.hash
        BY <1>1, <1>3, <1>6, <2>2, GotoJob DEF Steps
      <3> QED
        BY <1>6, <3>1 DEF JobIsSound, PaysFor
    <2>3. CASE j.at = "sign" /\ Goto(w, "send")
      <3>1. /\ JobMoves(w) /\ job'[w].at = "send"
            /\ job'[w].intent = i /\ job'[w].hash = j.hash
        BY <1>1, <1>3, <1>6, <2>3, GotoJob DEF Steps
      <3>2. j.hash # NoHash /\ request[s].op = "sign" /\ request[s].hash = j.hash
        BY <1>1, <1>6, <2>3 DEF JobIsSound, CallAt
      <3>3. i \notin Overlapping => LatestTx(i)'.hash = j.hash
        BY <1>5, <1>6, <3>2 DEF CommitWrites
      <3> QED
        BY <1>6, <3>1, <3>2, <3>3 DEF JobIsSound, PaysFor, LatestTx
    <2>4. CASE /\ LatestTx(i).status = "signed"
               /\ job' = [job EXCEPT ![w].at = "send", ![w].slot = NoSlot,
                                     ![w].hash = LatestTx(i).hash]
      <3> DEFINE h == LatestTx(i).hash
                 k == [j EXCEPT !.at = "send", !.slot = NoSlot, !.hash = h]
      <3>1. /\ LatestTx(i) \in TxRows /\ PaysFor(h, i) /\ RowIsHashed(LatestTx(i))
        BY LatestTxType, LatestPays, LatestTxIsHashed DEF ExecInv, Inv, TypeInv, RowInv
      <3>2. h \in Hashes \cup {NoHash} /\ h # NoHash
        BY <2>4, <3>1 DEF RowIsHashed, TxRows
      <3>3. i \notin Overlapping => LatestTx(i)'.hash = h
        BY <1>5, <3>2 DEF HashesKept
      <3> HIDE DEF h
      <3>4. /\ k \in Jobs /\ k.at = "send" /\ k.intent = i /\ k.hash = h
            /\ k.slot = NoSlot
        BY <1>3, <1>6, <3>2 DEF Jobs, Steps
      <3>5. job' = [job EXCEPT ![w] = k]
        BY <1>6, <2>4 DEF Jobs, h
      <3> HIDE DEF k
      <3>6. JobMoves(w) /\ job'[w] = k
        BY <1>6, <3>4, <3>5 DEF JobMoves, ChainTypeOK
      <3> QED
        BY <3>1, <3>2, <3>3, <3>4, <3>6 DEF JobIsSound, PaysFor, LatestTx
    <2> QED
      BY <1>7, <2>1, <2>2, <2>3, <2>4
  <1>9. \A v \in Workers : JobIsSound(v)'
    BY <1>4, <1>5, <1>8, JobKept DEF ExecInv, JobMoves
  <1>10. \A v \in Workers : WaitsForItsOwn(v)'
    BY <1>1, <1>2, <1>5, <1>8, EndedWaits
  <1> QED
    BY <1>1, <1>4, <1>5, <1>8, <1>9, <1>10, ApiStep DEF JobMoves

(* A worker's call is accepted: it waits, alone, for a request of its own.  *)
LEMMA CalledStep ==
  ASSUME ExecInv, NEW w \in Workers, NEW s \in Slots, NEW i \in Withdrawals,
         job[w] # NoJob, job[w].slot = NoSlot, job[w].intent = i,
         job[w].at \notin {"prepare", "send"},
         NEW op, op = CallAt[job[w].at], NEW actor, NEW hash, NEW fail,
         Begin(s, op, i, actor, hash, fail), Read(s, i),
         hash \in {NoHash, job[w].hash}, job[w].at = "sign" => hash = job[w].hash,
         op = "fail" => fail.category = job[w].category /\ hash = job[w].hash,
         op = "confirm" => LatestTx(i).hash = job[w].hash,
         job' = [job EXCEPT ![w].slot = s], UNCHANGED chainVars
  PROVE  ExecInv'
  <1>1. [Next]_vars /\ ChainGrows /\ UNCHANGED <<mined, reverted>>
    BY DEF Next, ChainGrows, chainVars
  <1>2. /\ job[w] \in Jobs /\ JobIsSound(w) /\ PaysFor(job[w].hash, i) /\ PaysFor(hash, i)
    BY HeldJob DEF PaysFor
  <1>3. /\ op = "fail" <=> job[w].at = "fail"
        /\ op = "confirm" <=> job[w].at = "confirm"
    BY <1>2 DEF CallAt, Jobs, Steps
  <1>4. /\ op = "fail" /\ fail.category = "permanent" => FailsForGood(hash, i)
        /\ op = "confirm" => LatestTx(i).hash \in Succeeded
    BY <1>2, <1>3 DEF JobIsSound
  <1>5. /\ \A j \in Withdrawals : RowsPay(j)'
        /\ \A t \in Slots : RequestPays(t)'
        /\ HashesKept
        /\ \A j \in Withdrawals \ Overlapping : PaidAsStatus(j)'
        /\ request[s] = Idle
        /\ \A t \in Slots : t # s => request'[t] = request[t]
        /\ request'[s] # Idle /\ request'[s].op = op
        /\ request'[s].intent = i /\ request'[s].hash = hash
    BY <1>2, <1>4, BegunStep
  <1> DEFINE k == [job[w] EXCEPT !.slot = s]
  <1>6. /\ k \in Jobs /\ k.at = job[w].at /\ k.intent = i /\ k.hash = job[w].hash
        /\ k.category = job[w].category /\ k.slot = s /\ k # NoJob
    BY <1>2 DEF Jobs, NoJob
  <1>7. job' = [job EXCEPT ![w] = k]
    BY <1>2 DEF Jobs
  <1> HIDE DEF k
  <1>8. /\ job' \in [Workers -> Jobs \cup {NoJob}] /\ job'[w] = k
        /\ \A v \in Workers : v # w => job'[v] = job[v]
    BY <1>6, <1>7 DEF ExecInv, ChainTypeOK
  <1>9. ASSUME NEW v \in Workers PROVE JobIsSound(v)'
    <2>1. CASE v # w
      BY <1>1, <1>5, <1>8, <2>1, JobKept DEF ExecInv
    <2>2. CASE v = w
      <3>1. k.at = "send" /\ i \notin Overlapping => FALSE
        BY <1>6
      <3> QED
        BY <1>1, <1>2, <1>6, <1>8, <2>2
           DEF JobIsSound, PaysFor, FailsForGood, Succeeded, LatestTx
    <2> QED
      BY <2>1, <2>2
  <1>10. \A v \in Workers : v # w /\ job[v] # NoJob => job[v].slot # s
    BY <1>5, IdleSlot
  <1>11. ASSUME NEW v \in Workers PROVE WaitsForItsOwn(v)'
    <2>1. CASE v # w
      <3> SUFFICES ASSUME job[v] # NoJob, job[v].slot # NoSlot
                   PROVE  WaitsForItsOwn(v)'
        BY <1>8, <2>1 DEF WaitsForItsOwn
      <3>1. /\ WaitsForItsOwn(v) /\ job'[v] = job[v] /\ job[v].slot \in Slots
            /\ request'[job[v].slot] = request[job[v].slot]
        BY <1>5, <1>8, <1>10, <2>1, SlotIsSlot DEF ExecInv
      <3>2. \A u \in Workers : job'[u] # NoJob /\ job'[u].slot = job[v].slot => u = v
        BY <1>6, <1>8, <1>10, <2>1, <3>1 DEF WaitsForItsOwn
      <3> QED
        BY <3>1, <3>2 DEF WaitsForItsOwn
    <2>2. CASE v = w
      <3>1. \A u \in Workers : job'[u] # NoJob /\ job'[u].slot = s => u = w
        BY <1>8, <1>10
      <3> QED
        BY <1>5, <1>6, <1>8, <2>2, <3>1 DEF WaitsForItsOwn
    <2> QED
      BY <2>1, <2>2
  <1> QED
    BY <1>1, <1>5, <1>8, <1>9, <1>11, ApiStep

(* A call puts into a slot what the worker holds, and waits for it. *)
LEMMA CallStep ==
  ASSUME ExecInv, NEW w \in Workers, NEW s \in Slots, Call(w, s)
  PROVE  ExecInv'
  <1> DEFINE j == job[w]
  <1>1. /\ j # NoJob /\ j.slot = NoSlot
        /\ job' = [job EXCEPT ![w].slot = s] /\ UNCHANGED chainVars
    BY DEF Call, At
  <1>2. PICK i \in Withdrawals : i = j.intent
    BY <1>1, HeldJob
  <1>3. j.hash \in Hashes \cup {NoHash} /\ j.category \in Categories \cup {"none"}
    BY <1>1, HeldJob
  <1>4. CASE At(w, "start") /\ BeginStart(s, i, w)
    <2>1. Begin(s, "start", i, w, NoHash, NoFailure) /\ Read(s, i)
      BY <1>4 DEF BeginStart, Read
    <2>2. j.at = "start" /\ CallAt[j.at] = "start"
      BY <1>4 DEF At, CallAt
    <2> QED
      BY <1>1, <1>2, <1>4, <2>1, <2>2, CalledStep
  <1>5. CASE At(w, "sign") /\ j.hash \in Hashes /\ BeginSign(s, i, w, j.hash)
    <2>1. Begin(s, "sign", i, w, j.hash, NoFailure) /\ Read(s, i)
      BY <1>5 DEF BeginSign, Read
    <2>2. j.at = "sign" /\ CallAt[j.at] = "sign"
      BY <1>5 DEF At, CallAt
    <2> QED
      BY <1>1, <1>2, <1>5, <2>1, <2>2, CalledStep
  <1>6. CASE At(w, "record") /\ j.hash \in Hashes /\ BeginBroadcast(s, i, w, j.hash)
    <2>1. Begin(s, "broadcast", i, w, j.hash, NoFailure) /\ Read(s, i)
      BY <1>6 DEF BeginBroadcast, Read
    <2>2. j.at = "record" /\ CallAt[j.at] = "broadcast"
      BY <1>6 DEF At, CallAt
    <2> QED
      BY <1>1, <1>2, <1>6, <2>1, <2>2, CalledStep
  <1>7. ASSUME At(w, "fail"), NEW c \in FailureCodes,
               BeginFail(s, i, c, j.category, j.hash)
        PROVE  ExecInv'
    <2> DEFINE fail == [code |-> c, category |-> j.category]
    <2>1. j.at = "fail" /\ CallAt[j.at] = "fail" /\ j.category \in Categories
      BY <1>1, <1>7, HeldJob DEF At, CallAt, JobIsSound
    <2>2. /\ Begin(s, "fail", i, Operator, j.hash, fail) /\ fail.category = j.category
          /\ Read(s, i)
      BY <1>3, <1>7, <2>1 DEF BeginFail, Read
    <2> HIDE DEF fail
    <2> QED
      BY <1>1, <1>2, <2>1, <2>2, CalledStep
  <1>8. CASE At(w, "confirm") /\ LatestTx(i).hash = j.hash /\ BeginConfirm(s, i)
    <2>1. Begin(s, "confirm", i, Operator, NoHash, NoFailure) /\ Read(s, i)
      BY <1>8 DEF BeginConfirm, Read
    <2>2. j.at = "confirm" /\ CallAt[j.at] = "confirm"
      BY <1>8 DEF At, CallAt
    <2> QED
      BY <1>1, <1>2, <1>8, <2>1, <2>2, CalledStep
  <1>9. CASE At(w, "settle") /\ BeginSettle(s, i)
    <2>1. Begin(s, "settle", i, Operator, NoHash, NoFailure) /\ Read(s, i)
      BY <1>9 DEF BeginSettle, Read
    <2>2. j.at = "settle" /\ CallAt[j.at] = "settle"
      BY <1>9 DEF At, CallAt
    <2> QED
      BY <1>1, <1>2, <1>9, <2>1, <2>2, CalledStep
  <1> QED
    BY <1>2, <1>4, <1>5, <1>6, <1>7, <1>8, <1>9, ExecutionAssumption DEF Call

(* Operators, customers and time: no worker takes part.                     *)
LEMMA OperatorsStep ==
  ASSUME ExecInv, NEW s \in Slots, NEW i \in Withdrawals, Operators(s, i)
  PROVE  ExecInv'
  <1>1. UNCHANGED <<job, chainVars>>
    BY DEF Operators
  <1>2. PICK op \in {"approve", "deny", "queue"} :
          Begin(s, op, i, Operator, NoHash, NoFailure) /\ Read(s, i)
    BY DEF Operators, Read, BeginDecide, BeginQueue
  <1>3. [Next]_vars /\ ChainGrows /\ PaysFor(NoHash, i)
    BY <1>1, <1>2 DEF Next, ChainGrows, chainVars, PaysFor
  <1>4. /\ \A j \in Withdrawals : RowsPay(j)'
        /\ \A t \in Slots : RequestPays(t)'
        /\ HashesKept
        /\ \A j \in Withdrawals \ Overlapping : PaidAsStatus(j)'
        /\ request[s] = Idle
        /\ \A t \in Slots : t # s => request'[t] = request[t]
    BY <1>1, <1>2, <1>3, BegunStep
  <1>5. \A v \in Workers : JobIsSound(v)'
    BY <1>1, <1>3, <1>4, JobKept DEF ExecInv
  <1>6. \A v \in Workers : WaitsForItsOwn(v)'
    <2>1. ASSUME NEW v \in Workers, job[v] # NoJob, job[v].slot # NoSlot
          PROVE  request'[job[v].slot] = request[job[v].slot]
      BY <1>4, <2>1, IdleSlot, SlotIsSlot
    <2> QED
      BY <1>1, <2>1, WaitsKept DEF ExecInv
  <1> QED
    BY <1>1, <1>3, <1>4, <1>5, <1>6, ApiStep DEF ExecInv, ChainTypeOK

(* Customers, operators and time do not touch what workers and the chain rely on. *)
LEMMA OutsideStep ==
  ASSUME ExecInv, Customers \/ \E i \in Withdrawals : TimePasses(i)
  PROVE  ExecInv'
  <1>1. UNCHANGED <<job, chainVars>> /\ UNCHANGED <<txs, request>>
    BY DEF Customers, TimePasses, CreditDeposit, CreateWithdrawalIntent, ClaimTimesOut,
           intentVars
  <1>2. [Next]_vars /\ ChainGrows
    BY <1>1 DEF Customers, TimePasses, Next, ChainGrows, chainVars
  <1>3. ASSUME NEW i \in Withdrawals
        PROVE  status'[i] = status[i] \/ status'[i] = "requested"
    BY DEF Customers, TimePasses, CreditDeposit, CreateWithdrawalIntent, ClaimTimesOut,
           intentVars, ExecInv, Inv, TypeInv, TypeOK
  <1>4. (\A i \in Withdrawals : RowsPay(i)') /\ HashesKept
    BY <1>1 DEF ExecInv, RowsPay, PaysFor, HashesKept, LatestTx
  <1>5. ASSUME NEW i \in Withdrawals \ Overlapping PROVE PaidAsStatus(i)'
    BY <1>1, <1>3 DEF ExecInv, PaidAsStatus, LatestTx, Succeeded, chainVars
  <1>6. \A t \in Slots : RequestPays(t)'
    BY <1>1, <1>2, RequestKept DEF ExecInv
  <1>7. \A v \in Workers : JobIsSound(v)'
    BY <1>1, <1>2, <1>4, JobKept DEF ExecInv
  <1>8. \A v \in Workers : WaitsForItsOwn(v)'
    BY <1>1, WaitsKept DEF ExecInv
  <1> QED
    BY <1>1, <1>2, <1>4, <1>5, <1>6, <1>7, <1>8, ApiStep DEF ExecInv, ChainTypeOK

(* A stuttering step changes nothing. *)
LEMMA ExecStutter ==
  ASSUME ExecInv, UNCHANGED execVars
  PROVE  ExecInv'
  <1>1. UNCHANGED vars /\ UNCHANGED <<job, chainVars>>
    BY DEF execVars
  <1>2. [Next]_vars /\ ChainGrows /\ UNCHANGED <<status, txs, request>>
    BY <1>1 DEF ChainGrows, chainVars, vars, intentVars
  <1>3. /\ \A i \in Withdrawals : RowsPay(i)'
        /\ HashesKept
        /\ \A i \in Withdrawals \ Overlapping : PaidAsStatus(i)'
    BY <1>2, RowsKept
  <1>4. \A t \in Slots : RequestPays(t)'
    BY <1>2, RequestKept DEF ExecInv
  <1>5. \A v \in Workers : JobIsSound(v)'
    BY <1>1, <1>2, <1>3, JobKept DEF ExecInv
  <1>6. \A v \in Workers : WaitsForItsOwn(v)'
    BY <1>1, <1>2, WaitsKept DEF ExecInv
  <1> QED
    BY <1>1, <1>2, <1>3, <1>4, <1>5, <1>6, ApiStep DEF ExecInv, ChainTypeOK

-----------------------------------------------------------------------------
(* Theorems *)

(* Initially nothing is signed, sent or called. *)
LEMMA ExecInvInit == ExecInit => ExecInv
  <1> SUFFICES ASSUME ExecInit PROVE ExecInv
    OBVIOUS
  <1>1. /\ Inv /\ RowInv
        /\ job = [w \in Workers |-> NoJob] /\ mempool = {} /\ mined = {} /\ reverted = {}
        /\ \A i \in Withdrawals : txs[i] = <<>> /\ status[i] = "absent"
        /\ \A s \in Slots : request[s] = Idle
    BY InvInit, RowInit DEF ExecInit, Init
  <1>2. /\ \A i \in Withdrawals : RowsPay(i)
        /\ \A i \in Withdrawals \ Overlapping : PaidAsStatus(i)
    BY <1>1 DEF RowsPay, PaidAsStatus
  <1>3. /\ \A s \in Slots : RequestPays(s)
        /\ \A w \in Workers : JobIsSound(w) /\ WaitsForItsOwn(w)
    BY <1>1 DEF RequestPays, JobIsSound, WaitsForItsOwn
  <1>4. ChainTypeOK /\ ChainIsSound /\ SentIsRecorded
    BY <1>1, FS_EmptySet DEF ChainTypeOK, ChainIsSound, SentIsRecorded
  <1> QED
    BY <1>1, <1>2, <1>3, <1>4 DEF ExecInv

(* Every step of workers, handlers and the chain keeps the invariant. *)
LEMMA ExecInvStep == ExecInv /\ [ExecNext]_execVars => ExecInv'
  <1> SUFFICES ASSUME ExecInv, [ExecNext]_execVars PROVE ExecInv'
    OBVIOUS
  <1>1. CASE Customers \/ \E i \in Withdrawals : TimePasses(i)
    BY <1>1, OutsideStep
  <1>2. ASSUME NEW s \in Slots, NEW i \in Withdrawals, Operators(s, i) PROVE ExecInv'
    BY <1>2, OperatorsStep
  <1>3. ASSUME NEW s \in Slots, Serve(s) PROVE ExecInv'
    BY <1>3, ServeStep
  <1>4. ASSUME NEW h \in Hashes, Mine(h) PROVE ExecInv'
    BY <1>4, MineStep
  <1>5. ASSUME NEW w \in Workers, Work(w) PROVE ExecInv'
    BY <1>5, PrepareStep, SendStep, SendRefusedStep, CallStep, AnswerStep, ReplyStep
       DEF Work
  <1>6. ASSUME NEW w \in Workers, NEW i \in Withdrawals, PickUp(w, i) PROVE ExecInv'
    BY <1>6, PickUpStep
  <1>7. ASSUME NEW w \in Workers,
               NodeFails(w) \/ CallFails(w) \/ CallTimesOut(w) \/ Crash(w)
        PROVE  ExecInv'
    BY <1>7, NodeFailsStep, CallFailsStep, LostStep
  <1>8. CASE UNCHANGED execVars
    BY <1>8, ExecStutter
  <1> QED
    BY <1>1, <1>2, <1>3, <1>4, <1>5, <1>6, <1>7, <1>8 DEF ExecNext

(* The inductive invariant of the execution of withdrawals: rows pay for their intents,
   the memory of workers and the requests they made are sound, and the chain holds
   only what was recorded. *)
THEOREM ExecInvariance == ExecSpec => []ExecInv
  BY ExecInvInit, ExecInvStep, PTL DEF ExecSpec

(* Whatever reached the node is recorded as the transaction of its intent:  *)
(* recordSignedWithdrawalExecution comes before broadcastSignedTransaction, *)
(* and no later sign, broadcast or failure report drops a recorded hash.    *)
THEOREM SentRecorded == ExecSpec => []SentIsRecorded
  <1>1. ExecInv => SentIsRecorded
    BY DEF ExecInv
  <1> QED
    BY <1>1, ExecInvariance, PTL

(* When requests for an intent do not overlap, a withdrawal is paid at most *)
(* once on chain, however many workers, crashes, timeouts, stale claims and *)
(* failures of the node come between the calls: two transactions that pay   *)
(* it would both be its recorded one.                                       *)
THEOREM PaymentCorrect ==
  ASSUME Overlapping = {}
  PROVE  ExecSpec => []PaidAtMostOnce
  <1>1. ExecInv => PaidAtMostOnce
    BY ExecutionAssumption
       DEF ExecInv, ChainTypeOK, SentIsRecorded, PaidAtMostOnce, Succeeded
  <1> QED
    BY <1>1, ExecInvariance, PTL

(* The ledger and the chain agree: what was given back to the customer is   *)
(* not and will not be paid on chain, and what the ledger settled was paid. *)
THEOREM AgreementCorrect == ExecSpec => []LedgerAgreesWithChain
  <1>1. ASSUME ExecInv PROVE LedgerAgreesWithChain
    <2>1. ASSUME NEW h \in mempool \cup Succeeded, Pays[h] \in Withdrawals \ Overlapping
          PROVE  Reserved(Pays[h]) /\ ~Released(Pays[h])
      <3>1. PICK i \in Withdrawals \ Overlapping : i = Pays[h]
        BY <2>1
      <3>2. /\ LatestTx(i).hash = h /\ h # NoHash /\ h \notin reverted
        BY <1>1, <2>1, <3>1, WithdrawalAssumption
           DEF ExecInv, SentIsRecorded, ChainIsSound, ChainTypeOK, Succeeded
      <3>3. status[i] \notin {"failed", "manually_resolved"}
        BY <1>1, <3>2 DEF ExecInv, PaidAsStatus
      <3>4. status[i] # "absent"
        BY <1>1, <3>2 DEF ExecInv, RowInv, TxFollowsStatus, LatestTx, NoTx
      <3>5. ReservationFollowsStatus(i)
        BY <1>1 DEF ExecInv, Inv, EveryReservationFollowsStatus
      <3> QED
        BY <3>1, <3>3, <3>4, <3>5 DEF ReservationFollowsStatus
    <2>2. ASSUME NEW i \in Withdrawals \ Overlapping, Settled(i)
          PROVE  \E h \in Succeeded : Pays[h] = i
      <3>1. status[i] = "settled"
        BY <1>1, <2>2 DEF ExecInv, Inv, EveryReservationFollowsStatus,
                          ReservationFollowsStatus
      <3>2. LatestTx(i).hash \in Succeeded
        BY <1>1, <3>1 DEF ExecInv, PaidAsStatus
      <3>3. LatestTx(i).hash # NoHash /\ PaysFor(LatestTx(i).hash, i)
        BY <1>1, <3>2, LatestPays, WithdrawalAssumption
           DEF ExecInv, Inv, TypeInv, ChainTypeOK, Succeeded
      <3> QED
        BY <3>2, <3>3 DEF PaysFor
    <2> QED
      BY <2>1, <2>2 DEF LedgerAgreesWithChain
  <1> QED
    BY <1>1, ExecInvariance, PTL
=============================================================================
