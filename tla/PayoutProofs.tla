---------------------------- MODULE PayoutProofs ----------------------------
(***************************************************************************)
(* Theorems about Payout, for any set of threads, keys and transactions.   *)
(*                                                                         *)
(*   TypeCorrect, AnswersTrue, AuditTrue, AnswersAudited, CommittedStays,  *)
(*   ReservedFirst                hold under every fault and store;        *)
(*   NoDoublePayment, PaidKeysRemembered, PendingOwned, SameAnswers,       *)
(*   Implements                   need the node's answer and the store to  *)
(*                                be reliable (Unambiguous), but neither   *)
(*                                the audit log nor the process.           *)
(***************************************************************************)
EXTENDS Payout, TLAPS

USE RowsAssumption, PayoutAssumption

----------------------------------------------------------------------------
(* Type correctness.                                                       *)

\* Writing an audit record, whether it succeeds or raises, leaves records.
LEMMA AuditType ==
  ASSUME audit \subseteq AuditRecord, NEW e \in Event, NEW k \in Key,
         NEW x \in Txid \cup {NoTx}, AuditOk(e, k, x) \/ AuditRaises(e, k, x)
  PROVE  audit' \subseteq AuditRecord
<1>1. [event |-> e, key |-> k, txid |-> x] \in AuditRecord
  BY DEF AuditRecord
<1> QED
  BY <1>1 DEF AuditOk, AuditRaises

\* Answering a client keeps the thread's variables in their types.
LEMMA RespondType ==
  ASSUME TypeOK, NEW t \in Thread, NEW from, NEW status \in AnswerStatus,
         NEW x \in Txid \cup {NoTx}, Respond(t, from, status, x)
  PROVE  /\ sendLock' \in Thread \cup {NoThread}
         /\ pc' \in [Thread -> PC]
         /\ key' \in [Thread -> Key \cup {NoKey}]
         /\ \A s \in Thread : pc'[s] # "idle" => key'[s] \in Key
         /\ txid' \in [Thread -> Txid \cup {NoTx}]
         /\ outcome' \in [Thread -> AnswerStatus]
         /\ answer' \in [Thread -> Answer]
<1>1. [status |-> status, key |-> key[t], txid |-> x] \in Answer
  BY DEF Answer, TypeOK
<1> QED
  BY <1>1 DEF Respond, Goto, TypeOK, PC, AnswerStatus

\* TypeOK is inductive: every step of the handlers, the timer and the process
\* keeps the variables in their types, and a busy thread serves a request.
LEMMA TypeStep == TypeOK /\ [Next]_vars => TypeOK'
<1> SUFFICES ASSUME TypeOK, [Next]_vars PROVE TypeOK'
  OBVIOUS
<1> USE DEF TypeOK, RowsTypeOK, Goto, Respond, Raise, AuditOk, AuditRaises, rowVars,
            threadVars, WriteOk, StoreRaises, NoAnswer, Answer, AuditRecord,
            AnswerStatus, Event, PC, LockedPc, OwnerPc, Row, Status, FreeRow,
            PendingRow, CommittedRow, TimerState, AllBackends
<1>1. CASE UNCHANGED vars
  BY <1>1 DEF vars
<1>2. ASSUME NEW t \in Thread, NEW k \in Key, Receive(t, k) PROVE TypeOK'
  BY <1>2 DEF Receive
<1>3. ASSUME NEW t \in Thread, SendStep(t) PROVE TypeOK'
  <2>1. CASE AcquireLock(t) BY <2>1 DEF AcquireLock
  <2>2. CASE PreflightPass(t) BY <2>2 DEF PreflightPass
  <2>3. CASE PreflightRefuse(t) BY <2>3 DEF PreflightRefuse
  <2>4. CASE RiskBlock(t)
    <3>0. key[t] \in Key BY <2>4 DEF RiskBlock, Respond, Goto, Raise
    <3>1. audit' \subseteq AuditRecord
      BY <2>4, <3>0, AuditType DEF RiskBlock
    <3> QED BY <2>4, <3>1, RespondType DEF RiskBlock
  <2>5. CASE ReserveNew(t) BY <2>5 DEF ReserveNew, InsertPending
  <2>6. CASE ReserveRaises(t) BY <2>6 DEF ReserveRaises
  <2>7. CASE ReserveCommitted(t) BY <2>7 DEF ReserveCommitted
  <2>8. CASE ReserveUnknown(t) BY <2>8 DEF ReserveUnknown
  <2>9. CASE ReserveWait(t) BY <2>9 DEF ReserveWait
  <2>10. CASE WaitTimeout(t) BY <2>10 DEF WaitTimeout
  <2>11. CASE WaitWoken(t) BY <2>11 DEF WaitWoken
  <2>12. CASE AnswerDuplicate(t)
    <3>0. key[t] \in Key BY <2>12 DEF AnswerDuplicate, Respond, Goto, Raise
    <3>1. audit' \subseteq AuditRecord
      BY <2>12, <3>0, AuditType DEF AnswerDuplicate
    <3>2. \/ Respond(t, "duplicate", "duplicate", txid[t])
          \/ Respond(t, "duplicate", "error", NoTx)
      BY <2>12 DEF AnswerDuplicate
    <3>3. /\ txid[t] \in Txid \cup {NoTx}
          /\ UNCHANGED <<rowVars, phase, timer, chain>>
      BY <2>12 DEF AnswerDuplicate
    <3> HIDE DEF Respond
    <3> QED BY <3>1, <3>2, <3>3, RespondType
  <2>13. CASE ChecksPass(t) BY <2>13 DEF ChecksPass
  <2>14. CASE ChecksReject(t)
    <3>0. key[t] \in Key BY <2>14 DEF ChecksReject, Respond, Goto, Raise
    <3>1. audit' \subseteq AuditRecord
      BY <2>14, <3>0, AuditType DEF ChecksReject
    <3>2. /\ pc' = [pc EXCEPT ![t] = "release"] \/ pc' = [pc EXCEPT ![t] = "rpc_failed"]
          /\ outcome' \in [Thread -> AnswerStatus]
      BY <2>14 DEF ChecksReject
    <3>3. UNCHANGED <<rowVars, phase, timer, sendLock, key, txid, chain, answer>>
      BY <2>14 DEF ChecksReject
    <3>4. pc' \in [Thread -> PC] /\ (\A s \in Thread : pc'[s] # "idle" => key'[s] \in Key)
      <4>1. CASE pc' = [pc EXCEPT ![t] = "release"] BY <3>0, <3>3, <4>1
      <4>2. CASE pc' = [pc EXCEPT ![t] = "rpc_failed"] BY <3>0, <3>3, <4>2
      <4> QED BY <3>2, <4>1, <4>2
    <3> QED BY <3>1, <3>2, <3>3, <3>4
  <2>15. CASE ChecksRpcError(t) BY <2>15 DEF ChecksRpcError
  <2>16. CASE RecordRpcFailed(t) BY <2>16 DEF RecordRpcFailed, RecordFailed
  <2>17. ASSUME NEW x \in Txid, BroadcastAccepted(t, x) PROVE TypeOK'
    BY <2>17 DEF BroadcastAccepted
  <2>18. ASSUME NEW x \in Txid, BroadcastLost(t, x) PROVE TypeOK'
    BY <2>18 DEF BroadcastLost
  <2>19. CASE BroadcastRejected(t) BY <2>19 DEF BroadcastRejected
  <2>20. CASE RecordTxFailed(t) BY <2>20 DEF RecordTxFailed, RecordFailed
  <2>21. CASE Commit(t) BY <2>21 DEF Commit, UpdateCommitted
  <2>22. CASE CommitRaises(t) BY <2>22 DEF CommitRaises
  <2>23. CASE Release(t) BY <2>23 DEF Release, DeletePending
  <2>24. CASE ReleaseRaises(t) BY <2>24 DEF ReleaseRaises
  <2>25. CASE RecordSuccess(t)
    <3>0. key[t] \in Key BY <2>25 DEF RecordSuccess, Respond, Goto, Raise
    <3>1. audit' \subseteq AuditRecord
      BY <2>25, <3>0, AuditType DEF RecordSuccess
    <3>2. \/ Respond(t, "success", "error", NoTx)
          \/ Goto(t, "success", "count") /\ UNCHANGED <<sendLock, key, txid, outcome, answer>>
      BY <2>25 DEF RecordSuccess
    <3>3. UNCHANGED <<rowVars, phase, timer, chain>>
      BY <2>25 DEF RecordSuccess
    <3>4. CASE Respond(t, "success", "error", NoTx)
      <4> HIDE DEF Respond
      <4> QED BY <3>1, <3>3, <3>4, RespondType
    <3>5. CASE Goto(t, "success", "count") /\ UNCHANGED <<sendLock, key, txid, outcome, answer>>
      <4>1. pc' \in [Thread -> PC] /\ (\A s \in Thread : pc'[s] # "idle" => key'[s] \in Key)
        BY <3>5
      <4> QED BY <3>1, <3>3, <3>5, <4>1
    <3> QED BY <3>2, <3>4, <3>5
  <2>26. CASE AnswerSuccess(t) BY <2>26 DEF AnswerSuccess
  <2>27. CASE CountRaises(t) BY <2>27 DEF CountRaises
  <2> QED
    BY <1>3, <2>1, <2>2, <2>3, <2>4, <2>5, <2>6, <2>7, <2>8, <2>9, <2>10, <2>11,
       <2>12, <2>13, <2>14, <2>15, <2>16, <2>17, <2>18, <2>19, <2>20, <2>21, <2>22,
       <2>23, <2>24, <2>25, <2>26, <2>27 DEF SendStep
<1>4. ASSUME ProcessStep PROVE TypeOK'
  <2>1. CASE TimerFires BY <2>1 DEF TimerFires
  <2>2. CASE TimerClosesStore BY <2>2 DEF TimerClosesStore, CloseStore
  <2>3. CASE TimerSignals BY <2>3 DEF TimerSignals
  <2>4. CASE Sigterm BY <2>4 DEF Sigterm
  <2>5. CASE Shutdown BY <2>5 DEF Shutdown, LoseStore, NoRows
  <2>6. CASE Crash BY <2>6 DEF Crash, LoseStore, NoRows
  <2>7. CASE Start BY <2>7 DEF Start, BuildStore, Recovered, NoRows
  <2> QED BY <1>4, <2>1, <2>2, <2>3, <2>4, <2>5, <2>6, <2>7 DEF ProcessStep
<1> QED
  BY <1>1, <1>2, <1>3, <1>4 DEF Next

\* Every reachable state of the payout service is well typed.
THEOREM TypeCorrect == Spec => []TypeOK
<1>1. Init => TypeOK
  BY DEF Init, RowsInit, TypeOK, RowsTypeOK, NoRows, FreeRow, Row, Status, PC, TimerState,
         AnswerStatus, NoAnswer, Answer
<1> QED
  BY <1>1, TypeStep, PTL DEF Spec
----------------------------------------------------------------------------
(* What the service says is true, under every fault and with either store. *)

\* The transaction a thread, a row, an answer or an audit record names is one
\* that the network took for the same key.
Truth(x, k) == k \in Key /\ x \in Txid /\ chain[x] = k

HandlerTruth ==
  \A t \in Thread :
    /\ pc[t] \in {"commit", "success", "count", "duplicate"} => Truth(txid[t], key[t])
    /\ outcome[t] \notin {"broadcast", "duplicate"}

RowTruth ==
  \A k \in Key :
    /\ rows[k].status = "committed" => Truth(rows[k].txid, k)
    /\ disk[k].status = "committed" => Truth(disk[k].txid, k)

AnswerTruth ==
  \A t \in Thread :
    /\ answer[t].status \in {"broadcast", "duplicate"} => answer[t].txid \in Txid
    /\ answer[t].txid # NoTx => Truth(answer[t].txid, answer[t].key)

TruthInv == TypeOK /\ HandlerTruth /\ RowTruth /\ AnswerTruth /\ AuditIsTrue

\* The handlers and the rows stay true; an exception on its way out never turns
\* into one of the two answers that carry a txid.
LEMMA TruthStep ==
  ASSUME TypeOK, TypeOK', HandlerTruth, RowTruth, [Next]_vars
  PROVE  HandlerTruth' /\ RowTruth'
<1> USE DEF TypeOK, RowsTypeOK, HandlerTruth, RowTruth, Truth, Goto, Respond, Raise,
            rowVars, threadVars, WriteOk, StoreRaises, Row, FreeRow, PendingRow,
            CommittedRow
<1> DEFINE Goal == HandlerTruth /\ RowTruth
<1>1. CASE UNCHANGED vars
  BY <1>1 DEF vars
<1>2. ASSUME NEW t \in Thread, NEW k \in Key, Receive(t, k) PROVE Goal'
  BY <1>2 DEF Receive
<1>3. ASSUME NEW t \in Thread, SendStep(t) PROVE Goal'
  <2>1. CASE AcquireLock(t) BY <2>1 DEF AcquireLock
  <2>2. CASE PreflightPass(t) BY <2>2 DEF PreflightPass
  <2>3. CASE PreflightRefuse(t) BY <2>3 DEF PreflightRefuse
  <2>4. CASE RiskBlock(t) BY <2>4 DEF RiskBlock
  <2>5. CASE ReserveNew(t) BY <2>5 DEF ReserveNew, InsertPending
  <2>6. CASE ReserveRaises(t) BY <2>6 DEF ReserveRaises
  <2>7. CASE ReserveCommitted(t) BY <2>7 DEF ReserveCommitted
  <2>8. CASE ReserveUnknown(t) BY <2>8 DEF ReserveUnknown
  <2>9. CASE ReserveWait(t) BY <2>9 DEF ReserveWait
  <2>10. CASE WaitTimeout(t) BY <2>10 DEF WaitTimeout
  <2>11. CASE WaitWoken(t) BY <2>11 DEF WaitWoken
  <2>12. CASE AnswerDuplicate(t) BY <2>12 DEF AnswerDuplicate
  <2>13. CASE ChecksPass(t) BY <2>13 DEF ChecksPass
  <2>14. CASE ChecksReject(t) BY <2>14 DEF ChecksReject
  <2>15. CASE ChecksRpcError(t) BY <2>15 DEF ChecksRpcError
  <2>16. CASE RecordRpcFailed(t) BY <2>16 DEF RecordRpcFailed, RecordFailed
  <2>17. ASSUME NEW x \in Txid, BroadcastAccepted(t, x) PROVE Goal'
    BY <2>17 DEF BroadcastAccepted
  <2>18. ASSUME NEW x \in Txid, BroadcastLost(t, x) PROVE Goal'
    BY <2>18 DEF BroadcastLost
  <2>19. CASE BroadcastRejected(t) BY <2>19 DEF BroadcastRejected
  <2>20. CASE RecordTxFailed(t) BY <2>20 DEF RecordTxFailed, RecordFailed
  <2>21. CASE Commit(t) BY <2>21 DEF Commit, UpdateCommitted
  <2>22. CASE CommitRaises(t) BY <2>22 DEF CommitRaises
  <2>23. CASE Release(t) BY <2>23 DEF Release, DeletePending
  <2>24. CASE ReleaseRaises(t) BY <2>24 DEF ReleaseRaises
  <2>25. CASE RecordSuccess(t) BY <2>25 DEF RecordSuccess
  <2>26. CASE AnswerSuccess(t) BY <2>26 DEF AnswerSuccess
  <2>27. CASE CountRaises(t) BY <2>27 DEF CountRaises
  <2> QED
    BY <1>3, <2>1, <2>2, <2>3, <2>4, <2>5, <2>6, <2>7, <2>8, <2>9, <2>10, <2>11, <2>12, <2>13, <2>14, <2>15, <2>16, <2>17, <2>18, <2>19, <2>20, <2>21, <2>22, <2>23, <2>24, <2>25, <2>26, <2>27 DEF SendStep
<1>4. ASSUME ProcessStep PROVE Goal'
  <2>1. CASE TimerFires BY <2>1 DEF TimerFires
  <2>2. CASE TimerClosesStore BY <2>2 DEF TimerClosesStore, CloseStore
  <2>3. CASE TimerSignals BY <2>3 DEF TimerSignals
  <2>4. CASE Sigterm BY <2>4 DEF Sigterm
  <2>5. CASE Shutdown BY <2>5 DEF Shutdown, LoseStore, NoRows
  <2>6. CASE Crash BY <2>6 DEF Crash, LoseStore, NoRows
  <2>7. CASE Start BY <2>7 DEF Start, BuildStore, Recovered, NoRows
  <2> QED BY <1>4, <2>1, <2>2, <2>3, <2>4, <2>5, <2>6, <2>7 DEF ProcessStep
<1> QED
  BY <1>1, <1>2, <1>3, <1>4 DEF Next

\* A transaction, once taken, stays on the network.
LEMMA ChainGrows ==
  ASSUME TypeOK, [Next]_vars, NEW x \in Txid, chain[x] # NoKey
  PROVE  chain'[x] = chain[x]
<1> USE DEF TypeOK, RowsTypeOK, threadVars
<1>1. CASE UNCHANGED vars
  BY <1>1 DEF vars
<1>2. ASSUME NEW t \in Thread, NEW k \in Key, Receive(t, k) PROVE chain'[x] = chain[x]
  BY <1>2 DEF Receive
<1>3. ASSUME NEW t \in Thread, SendStep(t) PROVE chain'[x] = chain[x]
  <2>1. CASE AcquireLock(t) BY <2>1 DEF AcquireLock
  <2>2. CASE PreflightPass(t) BY <2>2 DEF PreflightPass
  <2>3. CASE PreflightRefuse(t) BY <2>3 DEF PreflightRefuse
  <2>4. CASE RiskBlock(t) BY <2>4 DEF RiskBlock
  <2>5. CASE ReserveNew(t) BY <2>5 DEF ReserveNew, InsertPending
  <2>6. CASE ReserveRaises(t) BY <2>6 DEF ReserveRaises
  <2>7. CASE ReserveCommitted(t) BY <2>7 DEF ReserveCommitted
  <2>8. CASE ReserveUnknown(t) BY <2>8 DEF ReserveUnknown
  <2>9. CASE ReserveWait(t) BY <2>9 DEF ReserveWait
  <2>10. CASE WaitTimeout(t) BY <2>10 DEF WaitTimeout
  <2>11. CASE WaitWoken(t) BY <2>11 DEF WaitWoken
  <2>12. CASE AnswerDuplicate(t) BY <2>12 DEF AnswerDuplicate
  <2>13. CASE ChecksPass(t) BY <2>13 DEF ChecksPass
  <2>14. CASE ChecksReject(t) BY <2>14 DEF ChecksReject
  <2>15. CASE ChecksRpcError(t) BY <2>15 DEF ChecksRpcError
  <2>16. CASE RecordRpcFailed(t) BY <2>16 DEF RecordRpcFailed, RecordFailed
  <2>17. ASSUME NEW y \in Txid, BroadcastAccepted(t, y) PROVE chain'[x] = chain[x]
    BY <2>17 DEF BroadcastAccepted
  <2>18. ASSUME NEW y \in Txid, BroadcastLost(t, y) PROVE chain'[x] = chain[x]
    BY <2>18 DEF BroadcastLost
  <2>19. CASE BroadcastRejected(t) BY <2>19 DEF BroadcastRejected
  <2>20. CASE RecordTxFailed(t) BY <2>20 DEF RecordTxFailed, RecordFailed
  <2>21. CASE Commit(t) BY <2>21 DEF Commit, UpdateCommitted
  <2>22. CASE CommitRaises(t) BY <2>22 DEF CommitRaises
  <2>23. CASE Release(t) BY <2>23 DEF Release, DeletePending
  <2>24. CASE ReleaseRaises(t) BY <2>24 DEF ReleaseRaises
  <2>25. CASE RecordSuccess(t) BY <2>25 DEF RecordSuccess
  <2>26. CASE AnswerSuccess(t) BY <2>26 DEF AnswerSuccess
  <2>27. CASE CountRaises(t) BY <2>27 DEF CountRaises
  <2> QED
    BY <1>3, <2>1, <2>2, <2>3, <2>4, <2>5, <2>6, <2>7, <2>8, <2>9, <2>10, <2>11,
       <2>12, <2>13, <2>14, <2>15, <2>16, <2>17, <2>18, <2>19, <2>20, <2>21, <2>22,
       <2>23, <2>24, <2>25, <2>26, <2>27 DEF SendStep
<1>4. ASSUME ProcessStep PROVE chain'[x] = chain[x]
  <2>1. CASE TimerFires BY <2>1 DEF TimerFires
  <2>2. CASE TimerClosesStore BY <2>2 DEF TimerClosesStore, CloseStore
  <2>3. CASE TimerSignals BY <2>3 DEF TimerSignals
  <2>4. CASE Sigterm BY <2>4 DEF Sigterm
  <2>5. CASE Shutdown BY <2>5 DEF Shutdown, LoseStore, NoRows
  <2>6. CASE Crash BY <2>6 DEF Crash, LoseStore, NoRows
  <2>7. CASE Start BY <2>7 DEF Start, BuildStore, Recovered, NoRows
  <2> QED BY <1>4, <2>1, <2>2, <2>3, <2>4, <2>5, <2>6, <2>7 DEF ProcessStep
<1> QED
  BY <1>1, <1>2, <1>3, <1>4 DEF Next

\* Answers and audit records only ever quote what the handlers know to be true.
LEMMA AnswerStep ==
  ASSUME TypeOK, HandlerTruth, AnswerTruth, AuditIsTrue, [Next]_vars
  PROVE  AnswerTruth' /\ AuditIsTrue'
<1> DEFINE Said == /\ \A t \in Thread : answer'[t] # answer[t] =>
                        /\ answer'[t].status \in {"broadcast", "duplicate"} =>
                             answer'[t].txid \in Txid
                        /\ answer'[t].txid # NoTx =>
                             Truth(answer'[t].txid, answer'[t].key)
                   /\ \A r \in audit' \ audit :
                        r.event \in {"SEND_SUCCESS", "SEND_DUPLICATE"} =>
                          Truth(r.txid, r.key)
<1> SUFFICES Said
  <2>1. ASSUME Said, NEW t \in Thread PROVE AnswerTruth!(t)'
    BY <2>1, ChainGrows DEF AnswerTruth, Truth, TypeOK, Answer
  <2>2. ASSUME Said PROVE AuditIsTrue'
    BY <2>2, ChainGrows DEF AuditIsTrue, Truth, TypeOK, AuditRecord
  <2> QED
    BY <2>1, <2>2 DEF AnswerTruth
<1> USE DEF TypeOK, HandlerTruth, Goto, Respond, Raise, threadVars, AuditOk, AuditRaises,
            NoAnswer
<1>1. CASE UNCHANGED vars
  BY <1>1 DEF vars
<1>2. ASSUME NEW t \in Thread, NEW k \in Key, Receive(t, k) PROVE Said
  BY <1>2 DEF Receive
<1>3. ASSUME NEW t \in Thread, SendStep(t) PROVE Said
  <2>1. CASE AcquireLock(t) BY <2>1 DEF AcquireLock
  <2>2. CASE PreflightPass(t) BY <2>2 DEF PreflightPass
  <2>3. CASE PreflightRefuse(t) BY <2>3 DEF PreflightRefuse
  <2>4. CASE RiskBlock(t) BY <2>4 DEF RiskBlock
  <2>5. CASE ReserveNew(t) BY <2>5 DEF ReserveNew, InsertPending
  <2>6. CASE ReserveRaises(t) BY <2>6 DEF ReserveRaises
  <2>7. CASE ReserveCommitted(t) BY <2>7 DEF ReserveCommitted
  <2>8. CASE ReserveUnknown(t) BY <2>8 DEF ReserveUnknown
  <2>9. CASE ReserveWait(t) BY <2>9 DEF ReserveWait
  <2>10. CASE WaitTimeout(t) BY <2>10 DEF WaitTimeout
  <2>11. CASE WaitWoken(t) BY <2>11 DEF WaitWoken
  <2>12. CASE AnswerDuplicate(t)
    <3>1. Truth(txid[t], key[t])
      BY <2>12 DEF AnswerDuplicate
    <3>2. \A r \in audit' \ audit : r = [event |-> "SEND_DUPLICATE", key |-> key[t],
                                        txid |-> txid[t]]
      BY <2>12 DEF AnswerDuplicate
    <3>3. \A s \in Thread \ {t} : answer'[s] = answer[s]
      BY <2>12 DEF AnswerDuplicate
    <3>4. \/ answer'[t] = answer[t]
          \/ answer'[t].status = "error" /\ answer'[t].txid = NoTx
          \/ answer'[t].txid = txid[t] /\ answer'[t].key = key[t]
      BY <2>12 DEF AnswerDuplicate
    <3> QED
      BY <3>1, <3>2, <3>3, <3>4 DEF Truth
  <2>13. CASE ChecksPass(t) BY <2>13 DEF ChecksPass
  <2>14. CASE ChecksReject(t) BY <2>14 DEF ChecksReject
  <2>15. CASE ChecksRpcError(t) BY <2>15 DEF ChecksRpcError
  <2>16. CASE RecordRpcFailed(t) BY <2>16 DEF RecordRpcFailed, RecordFailed
  <2>17. ASSUME NEW x \in Txid, BroadcastAccepted(t, x) PROVE Said
    BY <2>17 DEF BroadcastAccepted
  <2>18. ASSUME NEW x \in Txid, BroadcastLost(t, x) PROVE Said
    BY <2>18 DEF BroadcastLost
  <2>19. CASE BroadcastRejected(t) BY <2>19 DEF BroadcastRejected
  <2>20. CASE RecordTxFailed(t) BY <2>20 DEF RecordTxFailed, RecordFailed
  <2>21. CASE Commit(t) BY <2>21 DEF Commit, UpdateCommitted
  <2>22. CASE CommitRaises(t) BY <2>22 DEF CommitRaises
  <2>23. CASE Release(t) BY <2>23 DEF Release, DeletePending
  <2>24. CASE ReleaseRaises(t) BY <2>24 DEF ReleaseRaises
  <2>25. CASE RecordSuccess(t)
    <3>1. Truth(txid[t], key[t])
      BY <2>25 DEF RecordSuccess
    <3>2. \A r \in audit' \ audit : r = [event |-> "SEND_SUCCESS", key |-> key[t],
                                        txid |-> txid[t]]
      BY <2>25 DEF RecordSuccess
    <3>3. \A s \in Thread \ {t} : answer'[s] = answer[s]
      BY <2>25 DEF RecordSuccess
    <3>4. answer'[t] = answer[t] \/ (answer'[t].status = "error" /\ answer'[t].txid = NoTx)
      BY <2>25 DEF RecordSuccess
    <3> QED
      BY <3>1, <3>2, <3>3, <3>4 DEF Truth
  <2>26. CASE AnswerSuccess(t)
    <3>1. Truth(txid[t], key[t]) /\ audit' = audit
      BY <2>26 DEF AnswerSuccess
    <3>2. \A s \in Thread \ {t} : answer'[s] = answer[s]
      BY <2>26 DEF AnswerSuccess
    <3>3. answer'[t].txid = txid[t] /\ answer'[t].key = key[t]
      BY <2>26 DEF AnswerSuccess
    <3> QED
      BY <3>1, <3>2, <3>3 DEF Truth
  <2>27. CASE CountRaises(t) BY <2>27 DEF CountRaises
  <2> QED
    BY <1>3, <2>1, <2>2, <2>3, <2>4, <2>5, <2>6, <2>7, <2>8, <2>9, <2>10, <2>11,
       <2>12, <2>13, <2>14, <2>15, <2>16, <2>17, <2>18, <2>19, <2>20, <2>21, <2>22,
       <2>23, <2>24, <2>25, <2>26, <2>27 DEF SendStep
<1>4. ASSUME ProcessStep PROVE Said
  <2>1. CASE TimerFires BY <2>1 DEF TimerFires
  <2>2. CASE TimerClosesStore BY <2>2 DEF TimerClosesStore, CloseStore
  <2>3. CASE TimerSignals BY <2>3 DEF TimerSignals
  <2>4. CASE Sigterm BY <2>4 DEF Sigterm
  <2>5. CASE Shutdown BY <2>5 DEF Shutdown, LoseStore, NoRows
  <2>6. CASE Crash BY <2>6 DEF Crash, LoseStore, NoRows
  <2>7. CASE Start BY <2>7 DEF Start, BuildStore, Recovered, NoRows
  <2> QED BY <1>4, <2>1, <2>2, <2>3, <2>4, <2>5, <2>6, <2>7 DEF ProcessStep
<1> QED
  BY <1>1, <1>2, <1>3, <1>4 DEF Next

\* TruthInv is inductive.
LEMMA TruthHolds == Spec => []TruthInv
<1>1. Init => TruthInv
  <2>1. Init => TypeOK
    BY DEF Init, RowsInit, TypeOK, RowsTypeOK, NoRows, FreeRow, Row, Status, PC,
           TimerState, AnswerStatus, NoAnswer, Answer
  <2> QED
    BY <2>1 DEF Init, RowsInit, TruthInv, HandlerTruth, RowTruth, AnswerTruth,
                AuditIsTrue, NoRows, FreeRow, NoAnswer
<1>2. TruthInv /\ [Next]_vars => TruthInv'
  BY TypeStep, TruthStep, AnswerStep DEF TruthInv
<1> QED
  BY <1>1, <1>2, PTL DEF Spec

\* Under every fault and with either store, the answers that carry a txid name a
\* transaction the network took for that key.
THEOREM AnswersTrue == Spec => []AnswersAreOnChain
<1>1. TruthInv => AnswersAreOnChain
  BY DEF TruthInv, AnswerTruth, AnswersAreOnChain, Truth
<1> QED
  BY <1>1, TruthHolds, PTL

\* Under every fault and with either store, a SEND_SUCCESS or SEND_DUPLICATE
\* record of the audit log names a transaction the network took for that key.
THEOREM AuditTrue == Spec => []AuditIsTrue
<1>1. TruthInv => AuditIsTrue
  BY DEF TruthInv
<1> QED
  BY <1>1, TruthHolds, PTL
----------------------------------------------------------------------------
(* The audit row comes before the answer, under every fault.               *)

\* The record of event e for key k and transaction x is in the audit file.
OnRecord(e, k, x) == [event |-> e, key |-> k, txid |-> x] \in audit

\* The record an answer of this status must have, whatever its key.
StatusOnRecord(status, k, x) ==
  /\ status = "broadcast" => OnRecord("SEND_SUCCESS", k, x)
  /\ status = "duplicate" => OnRecord("SEND_DUPLICATE", k, x)
  /\ status = "rejected" => OnRecord("SEND_REJECTED", k, x)
  /\ status \in {"failed", "rpc_failed"} => OnRecord("SEND_FAILED", k, x)

\* A handler about to answer has written its record: the success record before the
\* gauge is counted, the rejection or failure before release() runs.
HandlerOnRecord ==
  \A t \in Thread :
    /\ pc[t] = "count" => StatusOnRecord("broadcast", key[t], txid[t])
    /\ pc[t] = "release" => StatusOnRecord(outcome[t], key[t], NoTx)

AnswerOnRecord ==
  \A t \in Thread : StatusOnRecord(answer[t].status, answer[t].key, answer[t].txid)

\* The audit file only grows, whether a write succeeds or raises.
LEMMA AuditGrows ==
  ASSUME [Next]_vars
  PROVE  audit \subseteq audit'
<1> USE DEF rowVars, threadVars, AuditOk, AuditRaises
<1>1. ASSUME NEW t \in Thread, SendStep(t) PROVE audit \subseteq audit'
  BY <1>1
     DEF SendStep, AcquireLock, PreflightPass, PreflightRefuse, RiskBlock, ReserveRaises,
         ReserveCommitted, ReserveUnknown, ReserveWait, WaitTimeout, WaitWoken,
         AnswerDuplicate, ChecksPass, ChecksReject, ChecksRpcError, RecordRpcFailed,
         RecordFailed, BroadcastAccepted, BroadcastLost, BroadcastRejected,
         RecordTxFailed, CommitRaises, ReleaseRaises, RecordSuccess, AnswerSuccess,
         CountRaises, ReserveNew, Commit, Release
<1>2. ASSUME ProcessStep \/ UNCHANGED vars \/ \E t \in Thread, k \in Key : Receive(t, k)
      PROVE  audit' = audit
  BY <1>2 DEF vars, Receive, ProcessStep, TimerFires, TimerClosesStore, TimerSignals,
              Sigterm, Shutdown, Crash, Start
<1> QED
  BY <1>1, <1>2 DEF Next

\* An answer whose record is in the file keeps the handlers and answers on record.
LEMMA RespondOnRecord ==
  ASSUME TypeOK, HandlerOnRecord, AnswerOnRecord, audit \subseteq audit',
         NEW t \in Thread, NEW from, NEW status, NEW k, NEW x, k = key[t],
         Respond(t, from, status, x), StatusOnRecord(status, k, x)'
  PROVE  HandlerOnRecord' /\ AnswerOnRecord'
<1>1. /\ pc'[t] = "idle"
      /\ answer'[t] = [status |-> status, key |-> k, txid |-> x]
      /\ \A s \in Thread \ {t} :
           /\ pc'[s] = pc[s] /\ key'[s] = key[s] /\ txid'[s] = txid[s]
           /\ outcome'[s] = outcome[s] /\ answer'[s] = answer[s]
  BY DEF Respond, Goto, TypeOK
<1>2. ASSUME NEW s, NEW l, NEW y, StatusOnRecord(s, l, y) PROVE StatusOnRecord(s, l, y)'
  BY <1>2 DEF StatusOnRecord, OnRecord
<1>3. HandlerOnRecord'
  BY <1>1, <1>2 DEF HandlerOnRecord, StatusOnRecord, OnRecord
<1>4. AnswerOnRecord'
  BY <1>1, <1>2 DEF AnswerOnRecord, StatusOnRecord, OnRecord
<1> QED
  BY <1>3, <1>4

\* A 500 promises no record.
LEMMA ErrorOnRecord ==
  ASSUME TypeOK, HandlerOnRecord, AnswerOnRecord, audit \subseteq audit',
         NEW t \in Thread, NEW from, Respond(t, from, "error", NoTx)
  PROVE  HandlerOnRecord' /\ AnswerOnRecord'
<1>1. PICK k : k = key[t]
  OBVIOUS
<1>2. StatusOnRecord("error", k, NoTx)'
  BY DEF StatusOnRecord
<1> QED
  BY <1>1, <1>2, RespondOnRecord

\* HandlerOnRecord and AnswerOnRecord are inductive together.
LEMMA RecordStep ==
  ASSUME TypeOK, HandlerTruth, HandlerOnRecord, AnswerOnRecord, [Next]_vars
  PROVE  HandlerOnRecord' /\ AnswerOnRecord'
<1> DEFINE Goal == HandlerOnRecord /\ AnswerOnRecord
<1>0. audit \subseteq audit'
  BY AuditGrows
<1> USE DEF TypeOK, HandlerOnRecord, AnswerOnRecord, StatusOnRecord, OnRecord, Goto, Respond,
            Raise, threadVars, AuditOk, AuditRaises, NoAnswer
<1>1. CASE UNCHANGED vars
  BY <1>1 DEF vars
<1>2. ASSUME NEW t \in Thread, NEW k \in Key, Receive(t, k) PROVE Goal'
  BY <1>2 DEF Receive
<1>3. ASSUME NEW t \in Thread, SendStep(t) PROVE Goal'
  <2>1. CASE AcquireLock(t) BY <2>1, <1>0 DEF AcquireLock
  <2>2. CASE PreflightPass(t) BY <2>2, <1>0 DEF PreflightPass
  <2>3. CASE PreflightRefuse(t) BY <2>3, <1>0 DEF PreflightRefuse
  <2>4. CASE RiskBlock(t)
    <3> HIDE DEF TypeOK, HandlerOnRecord, AnswerOnRecord, StatusOnRecord, Respond, AuditOk
    <3>1. CASE AuditOk("SEND_REJECTED", key[t], NoTx) /\ Respond(t, "preflight", "rejected", NoTx)
      <4>1. PICK k, y : k = key[t] /\ y = NoTx
        OBVIOUS
      <4>2. StatusOnRecord("rejected", k, y)'
        BY <3>1, <4>1 DEF AuditOk, StatusOnRecord, OnRecord
      <4> QED
        BY <1>0, <3>1, <4>1, <4>2, RespondOnRecord
    <3>2. CASE Respond(t, "preflight", "error", NoTx)
      BY <1>0, <3>2, ErrorOnRecord
    <3> QED
      BY <2>4, <3>1, <3>2 DEF RiskBlock
  <2>5. CASE ReserveNew(t) BY <2>5, <1>0 DEF ReserveNew
  <2>6. CASE ReserveRaises(t) BY <2>6, <1>0 DEF ReserveRaises
  <2>7. CASE ReserveCommitted(t) BY <2>7, <1>0 DEF ReserveCommitted
  <2>8. CASE ReserveUnknown(t) BY <2>8, <1>0 DEF ReserveUnknown
  <2>9. CASE ReserveWait(t) BY <2>9, <1>0 DEF ReserveWait
  <2>10. CASE WaitTimeout(t) BY <2>10, <1>0 DEF WaitTimeout
  <2>11. CASE WaitWoken(t) BY <2>11, <1>0 DEF WaitWoken
  <2>12. CASE AnswerDuplicate(t)
    <3> HIDE DEF TypeOK, HandlerOnRecord, AnswerOnRecord, StatusOnRecord, Respond, AuditOk
    <3>1. CASE AuditOk("SEND_DUPLICATE", key[t], txid[t]) /\ Respond(t, "duplicate", "duplicate", txid[t])
      <4>1. PICK k, y : k = key[t] /\ y = txid[t]
        OBVIOUS
      <4>2. StatusOnRecord("duplicate", k, y)'
        BY <3>1, <4>1 DEF AuditOk, StatusOnRecord, OnRecord
      <4> QED
        BY <1>0, <3>1, <4>1, <4>2, RespondOnRecord
    <3>2. CASE Respond(t, "duplicate", "error", NoTx)
      BY <1>0, <3>2, ErrorOnRecord
    <3> QED
      BY <2>12, <3>1, <3>2 DEF AnswerDuplicate
  <2>13. CASE ChecksPass(t) BY <2>13, <1>0 DEF ChecksPass
  <2>14. CASE ChecksReject(t) BY <2>14, <1>0 DEF ChecksReject
  <2>15. CASE ChecksRpcError(t) BY <2>15, <1>0 DEF ChecksRpcError
  <2>16. CASE RecordRpcFailed(t) BY <2>16, <1>0 DEF RecordRpcFailed, RecordFailed
  <2>17. ASSUME NEW x \in Txid, BroadcastAccepted(t, x) PROVE Goal'
    BY <2>17, <1>0 DEF BroadcastAccepted
  <2>18. ASSUME NEW x \in Txid, BroadcastLost(t, x) PROVE Goal'
    BY <2>18, <1>0 DEF BroadcastLost
  <2>19. CASE BroadcastRejected(t) BY <2>19, <1>0 DEF BroadcastRejected
  <2>20. CASE RecordTxFailed(t) BY <2>20, <1>0 DEF RecordTxFailed, RecordFailed
  <2>21. CASE Commit(t) BY <2>21, <1>0 DEF Commit
  <2>22. CASE CommitRaises(t) BY <2>22, <1>0 DEF CommitRaises
  <2>23. CASE Release(t) BY <2>23, <1>0 DEF Release
  <2>24. CASE ReleaseRaises(t) BY <2>24, <1>0 DEF ReleaseRaises
  <2>25. CASE RecordSuccess(t)
    <3> HIDE DEF TypeOK, HandlerOnRecord, AnswerOnRecord, StatusOnRecord, Respond, AuditOk
    <3>1. CASE Respond(t, "success", "error", NoTx)
      BY <1>0, <3>1, ErrorOnRecord
    <3>2. CASE /\ AuditOk("SEND_SUCCESS", key[t], txid[t])
               /\ Goto(t, "success", "count")
               /\ UNCHANGED <<sendLock, key, txid, outcome, answer>>
      BY <1>0, <3>2 DEF TypeOK, Goto, AuditOk, HandlerOnRecord, AnswerOnRecord,
                        StatusOnRecord, OnRecord
    <3> QED
      BY <2>25, <3>1, <3>2 DEF RecordSuccess
  <2>26. CASE AnswerSuccess(t) BY <2>26, <1>0 DEF AnswerSuccess
  <2>27. CASE CountRaises(t) BY <2>27, <1>0 DEF CountRaises
  <2> QED
    BY <1>3, <2>1, <2>2, <2>3, <2>4, <2>5, <2>6, <2>7, <2>8, <2>9, <2>10, <2>11,
       <2>12, <2>13, <2>14, <2>15, <2>16, <2>17, <2>18, <2>19, <2>20, <2>21, <2>22,
       <2>23, <2>24, <2>25, <2>26, <2>27 DEF SendStep
<1>4. ASSUME ProcessStep PROVE Goal'
  <2>1. CASE Crash
    BY <2>1 DEF Crash
  <2>2. CASE ~ Crash
    BY <1>4, <2>2 DEF ProcessStep, TimerFires, TimerClosesStore, TimerSignals, Sigterm,
                      Shutdown, Start
  <2> QED
    BY <2>1, <2>2
<1> QED
  BY <1>1, <1>2, <1>3, <1>4 DEF Next

\* Under every fault, the audit row is on disk before the response leaves in every
\* terminal branch of the handler: success, duplicate, rejection, failure.
THEOREM AnswersAudited == Spec => []AnswersAreAudited
<1>1. Init => HandlerOnRecord /\ AnswerOnRecord
  BY DEF Init, HandlerOnRecord, AnswerOnRecord, StatusOnRecord, NoAnswer
<1>2. TruthInv /\ HandlerOnRecord /\ AnswerOnRecord /\ [Next]_vars =>
        HandlerOnRecord' /\ AnswerOnRecord'
  BY RecordStep DEF TruthInv
<1>3. AnswerOnRecord => AnswersAreAudited
  BY DEF AnswerOnRecord, StatusOnRecord, OnRecord, AnswersAreAudited
<1> QED
  BY <1>1, <1>2, <1>3, TruthHolds, PTL DEF Spec
----------------------------------------------------------------------------
(* The slot of a request, under every fault and with either store.         *)

\* One thread at a time is inside _send_impl, none when the process is down,
\* and a running SQLite store reads what the file holds.
SerialInv ==
  /\ \A t \in Thread : pc[t] \in LockedPc => sendLock = t
  /\ phase = "down" => \A t \in Thread : pc[t] = "idle"
  /\ phase # "down" /\ backend = "sqlite" => rows = disk

\* A handler that owns a slot finds it pending.
OwnInv == \A t \in Thread : pc[t] \in OwnerPc => rows[key[t]].status = "pending"

\* SerialInv and OwnInv are inductive together: _send_lock serialises the handlers,
\* so nobody but its owner touches a reserved slot.
LEMMA SerialStep ==
  ASSUME TypeOK, SerialInv, OwnInv, [Next]_vars
  PROVE  SerialInv' /\ OwnInv'
<1> DEFINE Goal == SerialInv /\ OwnInv
<1> USE DEF TypeOK, RowsTypeOK, SerialInv, OwnInv, Goto, Respond, Raise, rowVars,
            threadVars, WriteOk, StoreRaises, LockedPc, OwnerPc,
            Row, FreeRow, PendingRow, CommittedRow
<1>1. CASE UNCHANGED vars
  BY <1>1 DEF vars
<1>2. ASSUME NEW t \in Thread, NEW k \in Key, Receive(t, k) PROVE Goal'
  BY <1>2 DEF Receive
<1>3. ASSUME NEW t \in Thread, SendStep(t) PROVE Goal'
  <2>1. CASE AcquireLock(t) BY <2>1 DEF AcquireLock
  <2>2. CASE PreflightPass(t) BY <2>2 DEF PreflightPass
  <2>3. CASE PreflightRefuse(t) BY <2>3 DEF PreflightRefuse
  <2>4. CASE RiskBlock(t) BY <2>4 DEF RiskBlock
  <2>5. CASE ReserveNew(t) BY <2>5 DEF ReserveNew, InsertPending
  <2>6. CASE ReserveRaises(t) BY <2>6 DEF ReserveRaises
  <2>7. CASE ReserveCommitted(t) BY <2>7 DEF ReserveCommitted
  <2>8. CASE ReserveUnknown(t) BY <2>8 DEF ReserveUnknown
  <2>9. CASE ReserveWait(t) BY <2>9 DEF ReserveWait
  <2>10. CASE WaitTimeout(t) BY <2>10 DEF WaitTimeout
  <2>11. CASE WaitWoken(t) BY <2>11 DEF WaitWoken
  <2>12. CASE AnswerDuplicate(t) BY <2>12 DEF AnswerDuplicate
  <2>13. CASE ChecksPass(t) BY <2>13 DEF ChecksPass
  <2>14. CASE ChecksReject(t) BY <2>14 DEF ChecksReject
  <2>15. CASE ChecksRpcError(t) BY <2>15 DEF ChecksRpcError
  <2>16. CASE RecordRpcFailed(t) BY <2>16 DEF RecordRpcFailed, RecordFailed
  <2>17. ASSUME NEW x \in Txid, BroadcastAccepted(t, x) PROVE Goal'
    BY <2>17 DEF BroadcastAccepted
  <2>18. ASSUME NEW x \in Txid, BroadcastLost(t, x) PROVE Goal'
    BY <2>18 DEF BroadcastLost
  <2>19. CASE BroadcastRejected(t) BY <2>19 DEF BroadcastRejected
  <2>20. CASE RecordTxFailed(t) BY <2>20 DEF RecordTxFailed, RecordFailed
  <2>21. CASE Commit(t) BY <2>21 DEF Commit, UpdateCommitted
  <2>22. CASE CommitRaises(t) BY <2>22 DEF CommitRaises
  <2>23. CASE Release(t) BY <2>23 DEF Release, DeletePending
  <2>24. CASE ReleaseRaises(t) BY <2>24 DEF ReleaseRaises
  <2>25. CASE RecordSuccess(t) BY <2>25 DEF RecordSuccess
  <2>26. CASE AnswerSuccess(t) BY <2>26 DEF AnswerSuccess
  <2>27. CASE CountRaises(t) BY <2>27 DEF CountRaises
  <2> QED
    BY <1>3, <2>1, <2>2, <2>3, <2>4, <2>5, <2>6, <2>7, <2>8, <2>9, <2>10, <2>11,
       <2>12, <2>13, <2>14, <2>15, <2>16, <2>17, <2>18, <2>19, <2>20, <2>21, <2>22,
       <2>23, <2>24, <2>25, <2>26, <2>27 DEF SendStep
<1>4. ASSUME ProcessStep PROVE Goal'
  <2>1. CASE TimerFires BY <2>1 DEF TimerFires
  <2>2. CASE TimerClosesStore BY <2>2 DEF TimerClosesStore, CloseStore
  <2>3. CASE TimerSignals BY <2>3 DEF TimerSignals
  <2>4. CASE Sigterm BY <2>4 DEF Sigterm
  <2>5. CASE Shutdown BY <2>5 DEF Shutdown, LoseStore, NoRows
  <2>6. CASE Crash BY <2>6 DEF Crash, LoseStore, NoRows
  <2>7. CASE Start BY <2>7 DEF Start, BuildStore, Recovered, NoRows
  <2> QED BY <1>4, <2>1, <2>2, <2>3, <2>4, <2>5, <2>6, <2>7 DEF ProcessStep
<1> QED
  BY <1>1, <1>2, <1>3, <1>4 DEF Next

\* SerialInv and OwnInv hold in every reachable state.
LEMMA SerialHolds == Spec => [](SerialInv /\ OwnInv)
<1>1. Init => SerialInv /\ OwnInv
  BY DEF Init, RowsInit, SerialInv, OwnInv, LockedPc, OwnerPc
<1>2. TypeOK /\ SerialInv /\ OwnInv /\ [Next]_vars => SerialInv' /\ OwnInv'
  BY SerialStep
<1> QED
  BY <1>1, <1>2, TypeCorrect, PTL DEF Spec

\* A step that changes the file is one statement of the store by the owner of the
\* slot (insert, update or delete of one row that is not committed), or recovery.
LEMMA CommittedStep ==
  ASSUME TypeOK, SerialInv, OwnInv, [Next]_vars, NEW k \in Key,
         disk[k].status = "committed"
  PROVE  disk'[k] = disk[k]
<1> USE DEF rowVars, threadVars
<1>1. CASE UNCHANGED vars
  BY <1>1 DEF vars
<1>2. ASSUME NEW t \in Thread, NEW l \in Key, Receive(t, l) PROVE disk' = disk
  BY <1>2 DEF Receive
<1>3. ASSUME NEW t \in Thread, SendStep(t) PROVE disk'[k] = disk[k]
  <2> DEFINE Writes == ReserveNew(t) \/ Commit(t) \/ Release(t)
  <2>1. CASE ~ Writes
    BY <1>3, <2>1
       DEF SendStep, AcquireLock, PreflightPass, PreflightRefuse, RiskBlock, ReserveRaises,
           ReserveCommitted, ReserveUnknown, ReserveWait, WaitTimeout, WaitWoken,
           AnswerDuplicate, ChecksPass, ChecksReject, ChecksRpcError, RecordRpcFailed,
           RecordFailed, BroadcastAccepted, BroadcastLost, BroadcastRejected,
           RecordTxFailed, CommitRaises, ReleaseRaises, RecordSuccess, AnswerSuccess,
           CountRaises, StoreRaises
  <2>2. CASE Writes
    <3>1. /\ pc[t] \in {"reserve", "commit", "release"}
          /\ key[t] \in Key
          /\ rows[key[t]].status \in {"free", "pending"}
          /\ \A l \in Key \ {key[t]} : rows'[l] = rows[l]
          /\ disk' = IF backend = "sqlite" THEN rows' ELSE disk
      BY <2>2 DEF ReserveNew, Commit, Release, WriteOk, InsertPending, UpdateCommitted,
                  DeletePending, Goto, Respond, OwnInv, OwnerPc, TypeOK, RowsTypeOK
    <3>2. backend = "sqlite" => rows = disk
      BY <3>1 DEF SerialInv
    <3> QED
      BY <3>1, <3>2
  <2> QED
    BY <2>1, <2>2
<1>4. ASSUME ProcessStep PROVE disk'[k] = disk[k]
  BY <1>4 DEF ProcessStep, TimerFires, TimerClosesStore, TimerSignals, Sigterm, Shutdown,
              Crash, Start, CloseStore, LoseStore, BuildStore, Recovered
<1> QED
  BY <1>1, <1>2, <1>3, <1>4 DEF Next

\* Under every fault, a committed row of the SQLite file never changes and is never
\* deleted: neither release(), a second commit() nor _recover_orphans touches it.
THEOREM CommittedStays == Spec => CommittedIsFinal
<1>1. TypeOK /\ SerialInv /\ OwnInv /\ [Next]_vars =>
        [\A k \in Key : disk[k].status = "committed" => disk'[k] = disk[k]]_vars
  BY CommittedStep
<1> QED
  BY <1>1, TypeCorrect, SerialHolds, PTL DEF Spec, CommittedIsFinal

\* Only the two broadcasts that reach the network add a transaction, for the key of
\* a handler that owns its slot.
LEMMA PayStep ==
  ASSUME TypeOK, [Next]_vars, NEW x \in Txid, chain'[x] # chain[x]
  PROVE  \E t \in Thread : pc[t] = "broadcast" /\ chain'[x] = key[t]
<1> USE DEF rowVars, threadVars
<1>1. ASSUME NEW t \in Thread, SendStep(t)
      PROVE  pc[t] = "broadcast" /\ chain'[x] = key[t]
  <2> DEFINE Sends(y) == BroadcastAccepted(t, y) \/ BroadcastLost(t, y)
  <2>1. CASE ~ \E y \in Txid : Sends(y)
    BY <1>1, <2>1
       DEF SendStep, AcquireLock, PreflightPass, PreflightRefuse, RiskBlock, ReserveRaises,
           ReserveCommitted, ReserveUnknown, ReserveWait, WaitTimeout, WaitWoken,
           AnswerDuplicate, ChecksPass, ChecksReject, ChecksRpcError, RecordRpcFailed,
           RecordFailed, BroadcastRejected, RecordTxFailed, CommitRaises, ReleaseRaises,
           RecordSuccess, AnswerSuccess, CountRaises, ReserveNew, Commit, Release
  <2>2. ASSUME NEW y \in Txid, Sends(y)
        PROVE  pc[t] = "broadcast" /\ chain'[x] = key[t]
    BY <2>2 DEF BroadcastAccepted, BroadcastLost, Goto, TypeOK
  <2> QED
    BY <2>1, <2>2
<1>2. ASSUME ProcessStep \/ UNCHANGED vars \/ \E t \in Thread, k \in Key : Receive(t, k)
      PROVE  FALSE
  BY <1>2 DEF vars, Receive, ProcessStep, TimerFires, TimerClosesStore, TimerSignals,
              Sigterm, Shutdown, Crash, Start
<1> QED
  BY <1>1, <1>2 DEF Next

\* Under every fault, a transaction of a service that runs on SQLite is only taken
\* while the file holds the pending row of its key, so that whatever happens to the
\* process next, the following start finds the row and marks it unknown.
THEOREM ReservedFirst == Spec => ReservedOnDiskBeforeBroadcast
<1>1. TypeOK /\ SerialInv /\ OwnInv /\ [Next]_vars =>
        [\A x \in Txid : chain'[x] # chain[x] /\ backend = "sqlite" =>
           disk[chain'[x]].status = "pending"]_vars
  <2> SUFFICES ASSUME TypeOK, SerialInv, OwnInv, [Next]_vars, NEW x \in Txid,
                      chain'[x] # chain[x], backend = "sqlite"
               PROVE  disk[chain'[x]].status = "pending"
    OBVIOUS
  <2>1. PICK t \in Thread : pc[t] = "broadcast" /\ chain'[x] = key[t]
    BY PayStep
  <2> QED
    BY <2>1 DEF SerialInv, OwnInv, OwnerPc
<1> QED
  BY <1>1, TypeCorrect, SerialHolds, PTL DEF Spec, ReservedOnDiskBeforeBroadcast

----------------------------------------------------------------------------
(* At most one payment per key.                                            *)

\* The broadcast call tells the truth and the store is SQLite and accepts its
\* statements until it is closed.  Audit writes may fail, the process may crash
\* or be stopped by its timer at any point.
Unambiguous ==
  /\ "lost_response" \notin Faults
  /\ "db_error" \notin Faults
  /\ Backends = {"sqlite"}

\* Up to the broadcast, and whenever release() can delete the slot, the key has
\* not paid.
UnpaidInv ==
  \A t \in Thread :
    \/ pc[t] \in {"checks", "rpc_failed", "broadcast", "tx_failed"}
    \/ pc[t] = "release" /\ conn = "open"
    => ~ Paid(key[t])

\* A key that has paid is pending, unknown, or committed with that transaction.
PaidInv ==
  \A x \in Txid :
    chain[x] # NoKey =>
      \/ disk[chain[x]].status \in {"pending", "unknown"}
      \/ disk[chain[x]] = CommittedRow(x)

SafeInv ==
  /\ backend = "sqlite" /\ SerialInv /\ OwnInv
  /\ UnpaidInv /\ PaidInv /\ AtMostOnePayment /\ PendingIsInFlight

\* Every step keeps a paid key out of reach of reserve(): its row is pending and
\* owned, committed or unknown.
LEMMA SafeStep ==
  ASSUME Unambiguous, TypeOK, TypeOK', HandlerTruth, SafeInv, SerialInv', OwnInv',
         [Next]_vars
  PROVE  SafeInv'
<1> DEFINE Goal == backend = "sqlite" /\ UnpaidInv /\ PaidInv /\ AtMostOnePayment /\ PendingIsInFlight
<1> USE DEF TypeOK, RowsTypeOK, SafeInv, SerialInv, OwnInv, UnpaidInv, PaidInv, Paid,
            AtMostOnePayment, PendingIsInFlight, Unambiguous, Goto, Respond, Raise,
            rowVars, threadVars, WriteOk, StoreRaises, LockedPc, OwnerPc, FreeRow,
            PendingRow, CommittedRow, HandlerTruth, Truth
<1>1. CASE UNCHANGED vars
  BY <1>1 DEF vars
<1>2. ASSUME NEW t \in Thread, NEW k \in Key, Receive(t, k) PROVE Goal'
  BY <1>2 DEF Receive
<1>3. ASSUME NEW t \in Thread, SendStep(t) PROVE Goal'
  <2>1. CASE AcquireLock(t) BY <2>1 DEF AcquireLock
  <2>2. CASE PreflightPass(t) BY <2>2 DEF PreflightPass
  <2>3. CASE PreflightRefuse(t) BY <2>3 DEF PreflightRefuse
  <2>4. CASE RiskBlock(t) BY <2>4 DEF RiskBlock
  <2>5. CASE ReserveNew(t)
    <3>1. /\ pc[t] = "reserve" /\ pc' = [pc EXCEPT ![t] = "checks"]
          /\ rows[key[t]].status = "free" /\ key[t] \in Key
          /\ rows' = [rows EXCEPT ![key[t]] = PendingRow]
          /\ disk' = rows' /\ rows = disk
          /\ UNCHANGED <<conn, phase, key, chain>>
      BY <2>5 DEF ReserveNew, InsertPending
    <3>2. ~ Paid(key[t])
      <4> SUFFICES ASSUME NEW x \in Txid, chain[x] = key[t] PROVE FALSE
        OBVIOUS
      <4>1. key[t] # NoKey /\ disk[key[t]].status = "free"
        BY <3>1
      <4>2. \/ disk[key[t]].status \in {"pending", "unknown"}
            \/ disk[key[t]] = CommittedRow(x)
        BY <4>1
      <4> QED
        BY <4>1, <4>2
    <3>3. \A s \in Thread : pc'[s] \in OwnerPc => s = t
      BY <2>5, <3>1
    <3>4. UnpaidInv'
      BY <3>1, <3>2, <3>3
    <3>5. PaidInv' /\ AtMostOnePayment'
      BY <3>1, <3>2
    <3>6. PendingIsInFlight'
      <4> SUFFICES ASSUME NEW k \in Key, phase # "down", conn = "open",
                          rows'[k].status = "pending"
                   PROVE  \E s \in Thread : pc'[s] \in OwnerPc /\ key'[s] = k
        BY <3>1
      <4>1. CASE k = key[t]
        BY <3>1, <4>1
      <4>2. CASE k # key[t]
        BY <3>1, <3>3, <4>2
      <4> QED
        BY <4>1, <4>2
    <3>7. backend' = "sqlite"
      BY <2>5 DEF ReserveNew
    <3> QED
      BY <3>4, <3>5, <3>6, <3>7
  <2>6. CASE ReserveRaises(t) BY <2>6 DEF ReserveRaises
  <2>7. CASE ReserveCommitted(t) BY <2>7 DEF ReserveCommitted
  <2>8. CASE ReserveUnknown(t) BY <2>8 DEF ReserveUnknown
  <2>9. CASE ReserveWait(t) BY <2>9 DEF ReserveWait
  <2>10. CASE WaitTimeout(t) BY <2>10 DEF WaitTimeout
  <2>11. CASE WaitWoken(t) BY <2>11 DEF WaitWoken
  <2>12. CASE AnswerDuplicate(t) BY <2>12 DEF AnswerDuplicate
  <2>13. CASE ChecksPass(t) BY <2>13 DEF ChecksPass
  <2>14. CASE ChecksReject(t) BY <2>14 DEF ChecksReject
  <2>15. CASE ChecksRpcError(t) BY <2>15 DEF ChecksRpcError
  <2>16. CASE RecordRpcFailed(t) BY <2>16 DEF RecordRpcFailed, RecordFailed
  <2>17. ASSUME NEW x \in Txid, BroadcastAccepted(t, x) PROVE Goal'
    BY <2>17 DEF BroadcastAccepted
  <2>18. ASSUME NEW x \in Txid, BroadcastLost(t, x) PROVE Goal'
    BY <2>18 DEF BroadcastLost
  <2>19. CASE BroadcastRejected(t) BY <2>19 DEF BroadcastRejected
  <2>20. CASE RecordTxFailed(t) BY <2>20 DEF RecordTxFailed, RecordFailed
  <2>21. CASE Commit(t) BY <2>21 DEF Commit, UpdateCommitted
  <2>22. CASE CommitRaises(t) BY <2>22 DEF CommitRaises
  <2>23. CASE Release(t) BY <2>23 DEF Release, DeletePending
  <2>24. CASE ReleaseRaises(t) BY <2>24 DEF ReleaseRaises
  <2>25. CASE RecordSuccess(t) BY <2>25 DEF RecordSuccess
  <2>26. CASE AnswerSuccess(t) BY <2>26 DEF AnswerSuccess
  <2>27. CASE CountRaises(t) BY <2>27 DEF CountRaises
  <2> QED
    BY <1>3, <2>1, <2>2, <2>3, <2>4, <2>5, <2>6, <2>7, <2>8, <2>9, <2>10, <2>11,
       <2>12, <2>13, <2>14, <2>15, <2>16, <2>17, <2>18, <2>19, <2>20, <2>21, <2>22,
       <2>23, <2>24, <2>25, <2>26, <2>27 DEF SendStep
<1>4. ASSUME ProcessStep PROVE Goal'
  <2>1. CASE TimerFires BY <2>1 DEF TimerFires
  <2>2. CASE TimerClosesStore BY <2>2 DEF TimerClosesStore, CloseStore
  <2>3. CASE TimerSignals BY <2>3 DEF TimerSignals
  <2>4. CASE Sigterm BY <2>4 DEF Sigterm
  <2>5. CASE Shutdown BY <2>5 DEF Shutdown, LoseStore, NoRows
  <2>6. CASE Crash BY <2>6 DEF Crash, LoseStore, NoRows
  <2>7. CASE Start
    <3>1. /\ \A t \in Thread : pc'[t] = "idle"
          /\ chain' = chain
          /\ rows' = Recovered(disk) /\ disk' = Recovered(disk)
          /\ backend' = "sqlite"
      BY <2>7 DEF Start, BuildStore
    <3>2. \A k \in Key : /\ Recovered(disk)[k].status # "pending"
                         /\ disk[k].status # "pending" => Recovered(disk)[k] = disk[k]
                         /\ disk[k].status = "pending" =>
                              Recovered(disk)[k].status = "unknown"
      BY DEF Recovered, Row
    <3>3. PaidInv'
      BY <3>1, <3>2
    <3> QED
      BY <3>1, <3>2, <3>3
  <2> QED BY <1>4, <2>1, <2>2, <2>3, <2>4, <2>5, <2>6, <2>7 DEF ProcessStep
<1> QED
  BY <1>1, <1>2, <1>3, <1>4 DEF Next

\* SafeInv is inductive when broadcast and store are unambiguous.
LEMMA SafeHolds ==
  ASSUME Unambiguous
  PROVE  Spec => []SafeInv
<1>1. Init => SafeInv
  BY DEF Init, RowsInit, SafeInv, SerialInv, OwnInv, UnpaidInv, PaidInv, AtMostOnePayment,
         PendingIsInFlight, Unambiguous, NoRows, FreeRow, LockedPc, OwnerPc
<1>2. TruthInv /\ SafeInv /\ [Next]_vars => SafeInv'
  <2> SUFFICES ASSUME TruthInv, SafeInv, [Next]_vars PROVE SafeInv'
    OBVIOUS
  <2>1. TypeOK /\ TypeOK' /\ HandlerTruth /\ SerialInv /\ OwnInv
    BY TypeStep DEF TruthInv, SafeInv
  <2>2. SerialInv' /\ OwnInv'
    BY <2>1, SerialStep
  <2> QED
    BY <2>1, <2>2, SafeStep
<1> QED
  BY <1>1, <1>2, TruthHolds, PTL DEF Spec

\* At most one broadcast per key, across crashes, restarts, timer shutdowns, audit
\* failures, rejections and retries, for any number of threads, keys and
\* transactions.
THEOREM NoDoublePayment ==
  ASSUME Unambiguous
  PROVE  Spec => []AtMostOnePayment
<1>1. SafeInv => AtMostOnePayment
  BY DEF SafeInv
<1> QED
  BY <1>1, SafeHolds, PTL

\* A key that has paid is never free in the SQLite file.
THEOREM PaidKeysRemembered ==
  ASSUME Unambiguous
  PROVE  Spec => []PaidKeyRemembered
<1>1. SafeInv => PaidKeyRemembered
  <2> SUFFICES ASSUME PaidInv, NEW x \in Txid, chain[x] \in Key
               PROVE  disk[chain[x]].status # "free"
    BY DEF SafeInv, PaidKeyRemembered, Paid
  <2>1. \/ disk[chain[x]].status \in {"pending", "unknown"}
        \/ disk[chain[x]] = CommittedRow(x)
    BY DEF PaidInv
  <2> QED
    BY <2>1 DEF CommittedRow
<1> QED
  BY <1>1, SafeHolds, PTL

\* A pending row of the running store belongs to a request in flight, so a same-key
\* request that waits for it waits for somebody.
THEOREM PendingOwned ==
  ASSUME Unambiguous
  PROVE  Spec => []PendingIsInFlight
<1>1. SafeInv => PendingIsInFlight
  BY DEF SafeInv
<1> QED
  BY <1>1, SafeHolds, PTL

\* Two answers for the same key quote the same transaction.
THEOREM SameAnswers ==
  ASSUME Unambiguous
  PROVE  Spec => []SameAnswerForSameKey
<1>1. SafeInv /\ TruthInv => SameAnswerForSameKey
  BY DEF SafeInv, AtMostOnePayment, TruthInv, AnswerTruth, Truth, SameAnswerForSameKey
<1> QED
  BY <1>1, SafeHolds, TruthHolds, PTL

\* Every step of the service is a step of the abstract ledger, or leaves it alone.
LEMMA LedgerStep ==
  ASSUME Unambiguous, TruthInv, SafeInv, AnswerTruth', [Next]_vars
  PROVE  [Ledger!LedgerNext]_<<chain, answer>>
<1> DEFINE Goal == [Ledger!LedgerNext]_<<chain, answer>>
<1>1. ASSUME NEW t \in Thread, \A s \in Thread \ {t} : answer'[s] = answer[s],
             chain' = chain
      PROVE  Ledger!Reply(t)
  BY <1>1 DEF Ledger!Reply, AnswerTruth, Truth
<1>2. ASSUME NEW t \in Thread, UNCHANGED chain, UNCHANGED answer \/
             \E a : answer' = [answer EXCEPT ![t] = a]
      PROVE  Goal
  BY <1>1, <1>2 DEF Ledger!LedgerNext, TruthInv, TypeOK
<1> USE DEF Goto, Respond, Raise, threadVars
<1>3. ASSUME NEW t \in Thread, SendStep(t) PROVE Goal
  <2>1. CASE AcquireLock(t) BY <2>1, <1>2 DEF AcquireLock
  <2>2. CASE PreflightPass(t) BY <2>2, <1>2 DEF PreflightPass
  <2>3. CASE PreflightRefuse(t) BY <2>3, <1>2 DEF PreflightRefuse
  <2>4. CASE RiskBlock(t) BY <2>4, <1>2 DEF RiskBlock
  <2>5. CASE ReserveNew(t) BY <2>5, <1>2 DEF ReserveNew
  <2>6. CASE ReserveRaises(t) BY <2>6, <1>2 DEF ReserveRaises
  <2>7. CASE ReserveCommitted(t) BY <2>7, <1>2 DEF ReserveCommitted
  <2>8. CASE ReserveUnknown(t) BY <2>8, <1>2 DEF ReserveUnknown
  <2>9. CASE ReserveWait(t) BY <2>9, <1>2 DEF ReserveWait
  <2>10. CASE WaitTimeout(t) BY <2>10, <1>2 DEF WaitTimeout
  <2>11. CASE WaitWoken(t) BY <2>11, <1>2 DEF WaitWoken
  <2>12. CASE AnswerDuplicate(t) BY <2>12, <1>2 DEF AnswerDuplicate
  <2>13. CASE ChecksPass(t) BY <2>13, <1>2 DEF ChecksPass
  <2>14. CASE ChecksReject(t) BY <2>14, <1>2 DEF ChecksReject
  <2>15. CASE ChecksRpcError(t) BY <2>15, <1>2 DEF ChecksRpcError
  <2>16. CASE RecordRpcFailed(t) BY <2>16, <1>2 DEF RecordRpcFailed, RecordFailed
  <2>17. ASSUME NEW x \in Txid, BroadcastAccepted(t, x) PROVE Goal
    <3>1. Ledger!Pay(key[t], x)
      BY <2>17 DEF BroadcastAccepted, Ledger!Pay, Ledger!Paid, SafeInv, UnpaidInv, Paid
    <3>2. key[t] \in Key
      BY <2>17 DEF BroadcastAccepted, TruthInv, TypeOK
    <3> QED
      BY <3>1, <3>2 DEF Ledger!LedgerNext
  <2>18. ASSUME NEW x \in Txid, BroadcastLost(t, x) PROVE Goal
    BY <2>18 DEF BroadcastLost, Unambiguous
  <2>19. CASE BroadcastRejected(t) BY <2>19, <1>2 DEF BroadcastRejected
  <2>20. CASE RecordTxFailed(t) BY <2>20, <1>2 DEF RecordTxFailed, RecordFailed
  <2>21. CASE Commit(t) BY <2>21, <1>2 DEF Commit
  <2>22. CASE CommitRaises(t) BY <2>22, <1>2 DEF CommitRaises
  <2>23. CASE Release(t) BY <2>23, <1>2 DEF Release
  <2>24. CASE ReleaseRaises(t) BY <2>24, <1>2 DEF ReleaseRaises
  <2>25. CASE RecordSuccess(t) BY <2>25, <1>2 DEF RecordSuccess
  <2>26. CASE AnswerSuccess(t) BY <2>26, <1>2 DEF AnswerSuccess
  <2>27. CASE CountRaises(t) BY <2>27, <1>2 DEF CountRaises
  <2> QED
    BY <1>3, <2>1, <2>2, <2>3, <2>4, <2>5, <2>6, <2>7, <2>8, <2>9, <2>10, <2>11,
       <2>12, <2>13, <2>14, <2>15, <2>16, <2>17, <2>18, <2>19, <2>20, <2>21, <2>22,
       <2>23, <2>24, <2>25, <2>26, <2>27 DEF SendStep
<1>4. ASSUME ProcessStep PROVE Goal
  BY <1>4 DEF ProcessStep, TimerFires, TimerClosesStore, TimerSignals, Sigterm, Shutdown,
              Crash, Start
<1>5. ASSUME NEW t \in Thread, NEW k \in Key, Receive(t, k) PROVE Goal
  BY <1>2, <1>5 DEF Receive
<1> QED
  BY <1>3, <1>4, <1>5 DEF Next, vars

\* The payout service implements the ledger specification: every key pays at most
\* once and every answer quotes the ledger.
THEOREM Implements ==
  ASSUME Unambiguous
  PROVE  Spec => ImplementsLedger
<1>1. Init => Ledger!LedgerInit
  BY DEF Init, Ledger!LedgerInit, NoAnswer
<1>2. TruthInv /\ TruthInv' /\ SafeInv /\ [Next]_vars =>
        [Ledger!LedgerNext]_<<chain, answer>>
  BY LedgerStep DEF TruthInv
<1> QED
  BY <1>1, <1>2, TruthHolds, SafeHolds, PTL DEF Spec, ImplementsLedger, Ledger!LedgerSpec
============================================================================
