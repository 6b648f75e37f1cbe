------------------------------- MODULE Payout -------------------------------
(***************************************************************************)
(* POST /api/v1/send end to end: routes.send and _send_impl running in the *)
(* worker threads of one process, over the idempotency store, the audit    *)
(* log and the TRON network; with process crashes, the inactivity timer    *)
(* (shutdown.py) and restarts.                                             *)
(*                                                                         *)
(* Every control point of _send_impl at which another thread, the timer or *)
(* a crash can intervene is a value of pc.                                 *)
(***************************************************************************)
EXTENDS IdempotencyRows

CONSTANTS
  Thread,     \* worker threads FastAPI runs the synchronous handler in
  NoThread,   \* _send_lock is free
  NoKey       \* no request / no payer

ASSUME PayoutAssumption ==
  /\ NoThread \notin Thread
  /\ NoKey \notin Key

VARIABLES
  phase,      \* the process: "serving", "stopping" (SIGTERM), "down"
  timer,      \* progress of shutdown._on_timeout
  sendLock,   \* holder of routes._send_lock
  pc,         \* control point of each thread
  key,        \* idempotency_key of the request a thread serves
  txid,       \* the local variable txid / existing_txid
  outcome,    \* the exception on its way out, once release() has run
  chain,      \* payer of each transaction the network has accepted
  audit,      \* the records on disk in AUDIT_LOG_FILE
  answer      \* the last response of each thread

threadVars == <<sendLock, pc, key, txid, outcome, answer>>
vars == <<rowVars, phase, timer, threadVars, chain, audit>>

TimerState == {"armed", "tron_destroyed", "store_closed", "signalled"}

\* Control points after reserve() returned None and before commit/release.
OwnerPc == {"checks", "rpc_failed", "broadcast", "tx_failed", "commit", "release"}

\* Control points inside `with _send_lock'.
LockedPc == {"preflight", "reserve", "waiting", "duplicate", "success", "count"}
              \cup OwnerPc

PC == {"idle", "lock"} \cup LockedPc

Event == {"SEND_SUCCESS", "SEND_DUPLICATE", "SEND_REJECTED", "SEND_FAILED"}

\* "refused": turned down before anything is recorded; "rejected": a 4xx that
\* is audited; "rpc_failed", "failed": the two TransactionFailed; "conflict",
\* "unresolved": the 409s; "error": any 500.
AnswerStatus == {"none", "broadcast", "duplicate", "refused", "rejected",
                 "rpc_failed", "failed", "conflict", "unresolved", "error"}

AuditRecord == [event : Event, key : Key, txid : Txid \cup {NoTx}]
Answer == [status : AnswerStatus, key : Key \cup {NoKey}, txid : Txid \cup {NoTx}]

NoAnswer == [status |-> "none", key |-> NoKey, txid |-> NoTx]

\* Every variable has the values the code can give it.
TypeOK ==
  /\ RowsTypeOK
  /\ phase \in {"serving", "stopping", "down"}
  /\ timer \in TimerState
  /\ sendLock \in Thread \cup {NoThread}
  /\ pc \in [Thread -> PC]
  /\ key \in [Thread -> Key \cup {NoKey}]
  /\ \A t \in Thread : pc[t] # "idle" => key[t] \in Key
  /\ txid \in [Thread -> Txid \cup {NoTx}]
  /\ outcome \in [Thread -> AnswerStatus]
  /\ chain \in [Txid -> Key \cup {NoKey}]
  /\ audit \subseteq AuditRecord
  /\ answer \in [Thread -> Answer]

Paid(k) == \E x \in Txid : chain[x] = k

Init ==
  /\ RowsInit
  /\ phase = "serving"
  /\ timer = "armed"
  /\ sendLock = NoThread
  /\ pc = [t \in Thread |-> "idle"]
  /\ key = [t \in Thread |-> NoKey]
  /\ txid = [t \in Thread |-> NoTx]
  /\ outcome = [t \in Thread |-> "none"]
  /\ chain = [x \in Txid |-> NoKey]
  /\ audit = {}
  /\ answer = [t \in Thread |-> NoAnswer]

----------------------------------------------------------------------------
(* Steps shared by the branches of _send_impl.                             *)

Goto(t, from, to) ==
  /\ pc[t] = from
  /\ pc' = [pc EXCEPT ![t] = to]

\* Leave `with _send_lock' and answer the client.
Respond(t, from, status, x) ==
  /\ Goto(t, from, "idle")
  /\ sendLock' = NoThread
  /\ answer' = [answer EXCEPT ![t] = [status |-> status, key |-> key[t], txid |-> x]]
  /\ key' = [key EXCEPT ![t] = NoKey]
  /\ txid' = [txid EXCEPT ![t] = NoTx]
  /\ outcome' = [outcome EXCEPT ![t] = "none"]

\* audit.record returned: the line is written and fsynced.
AuditOk(e, k, x) == audit' = audit \cup {[event |-> e, key |-> k, txid |-> x]}

\* audit.record raised AuditWriteError: write or fsync failed, so the line
\* may or may not be in the file.
AuditRaises(e, k, x) ==
  /\ "audit_error" \in Faults
  /\ audit' \in {audit, audit \cup {[event |-> e, key |-> k, txid |-> x]}}

----------------------------------------------------------------------------
(* Before the slot is reserved.                                            *)

\* A request reaches a worker thread.
Receive(t, k) ==
  /\ phase = "serving"
  /\ Goto(t, "idle", "lock")
  /\ key' = [key EXCEPT ![t] = k]
  /\ answer' = [answer EXCEPT ![t] = NoAnswer]
  /\ UNCHANGED <<rowVars, phase, timer, sendLock, txid, outcome, chain, audit>>

AcquireLock(t) ==
  /\ sendLock = NoThread
  /\ Goto(t, "lock", "preflight")
  /\ sendLock' = t
  /\ UNCHANGED <<rowVars, phase, timer, key, txid, outcome, chain, audit, answer>>

\* Wallet resolved, address valid, risk acceptable.
PreflightPass(t) ==
  /\ Goto(t, "preflight", "reserve")
  /\ UNCHANGED <<rowVars, phase, timer, sendLock, key, txid, outcome, chain, audit,
                 answer>>

\* Unknown wallet, invalid address or a failing RPC: nothing is recorded.
PreflightRefuse(t) ==
  /\ Respond(t, "preflight", "refused", NoTx)
  /\ UNCHANGED <<rowVars, phase, timer, chain, audit>>

\* should_block: the rejection is audited before RiskTooHigh is raised.
RiskBlock(t) ==
  /\ \/ /\ AuditOk("SEND_REJECTED", key[t], NoTx)
        /\ Respond(t, "preflight", "rejected", NoTx)
     \/ /\ AuditRaises("SEND_REJECTED", key[t], NoTx)
        /\ Respond(t, "preflight", "error", NoTx)
  /\ UNCHANGED <<rowVars, phase, timer, chain>>

----------------------------------------------------------------------------
(* idempotency.reserve.                                                    *)

\* Mutant of ReserveNew: an unknown key may be tried again.
ReserveNewOrUnknown(t) ==
  /\ Goto(t, "reserve", "checks")
  /\ rows[key[t]].status \in {"free", "unknown"}
  /\ WriteOk(InsertPending(key[t]))
  /\ UNCHANGED <<phase, timer, sendLock, key, txid, outcome, chain, audit, answer>>

\* No row: claim the key.
ReserveNew(t) ==
  /\ Goto(t, "reserve", "checks")
  /\ rows[key[t]].status = "free"
  /\ WriteOk(InsertPending(key[t]))
  /\ UNCHANGED <<phase, timer, sendLock, key, txid, outcome, chain, audit, answer>>

\* The SELECT, the INSERT or its commit raises.  reserve() is outside the try
\* block: release() does not run.
ReserveRaises(t) ==
  /\ Respond(t, "reserve", "error", NoTx)
  /\ StoreRaises
  /\ UNCHANGED <<phase, timer, chain, audit>>

ReserveCommitted(t) ==
  /\ Goto(t, "reserve", "duplicate")
  /\ conn = "open"
  /\ rows[key[t]].status = "committed"
  /\ txid' = [txid EXCEPT ![t] = rows[key[t]].txid]
  /\ UNCHANGED <<rowVars, phase, timer, sendLock, key, outcome, chain, audit, answer>>

ReserveUnknown(t) ==
  /\ Respond(t, "reserve", "unresolved", NoTx)
  /\ conn = "open"
  /\ rows[key[t]].status = "unknown"
  /\ UNCHANGED <<rowVars, phase, timer, chain, audit>>

\* cond.wait, with _send_lock held.
ReserveWait(t) ==
  /\ Goto(t, "reserve", "waiting")
  /\ conn = "open"
  /\ rows[key[t]].status = "pending"
  /\ UNCHANGED <<rowVars, phase, timer, sendLock, key, txid, outcome, chain, audit,
                 answer>>

\* Mutant of WaitTimeout: cond.wait without a timeout.
WaitTimeoutNever(t) ==
  /\ pc[t] = "no timeout"
  /\ UNCHANGED vars

WaitTimeout(t) ==
  /\ Respond(t, "waiting", "conflict", NoTx)
  /\ UNCHANGED <<rowVars, phase, timer, chain, audit>>

\* notify_all of close(), the only one that can come while this thread holds
\* _send_lock: the loop reads again, and the assertion fails there.
WaitWoken(t) ==
  /\ Goto(t, "waiting", "reserve")
  /\ conn = "closed"
  /\ UNCHANGED <<rowVars, phase, timer, sendLock, key, txid, outcome, chain, audit,
                 answer>>

\* The duplicate answer, audited first.
AnswerDuplicate(t) ==
  /\ \/ /\ AuditOk("SEND_DUPLICATE", key[t], txid[t])
        /\ Respond(t, "duplicate", "duplicate", txid[t])
     \/ /\ AuditRaises("SEND_DUPLICATE", key[t], txid[t])
        /\ Respond(t, "duplicate", "error", NoTx)
  /\ UNCHANGED <<rowVars, phase, timer, chain>>

----------------------------------------------------------------------------
(* Balance, fee and energy checks, with the slot reserved.                 *)

\* Raise an exception that release() will pass on.
Raise(t, from, status) ==
  /\ Goto(t, from, "release")
  /\ outcome' = [outcome EXCEPT ![t] = status]

\* tron.destroy() makes every later RPC of the checks raise.
ChecksPass(t) ==
  /\ Goto(t, "checks", "broadcast")
  /\ timer = "armed"
  /\ UNCHANGED <<rowVars, phase, timer, sendLock, key, txid, outcome, chain, audit,
                 answer>>

\* Insufficient USDT or TRX, or energy too expensive.  If the rejection cannot
\* be audited, the AuditWriteError lands in `except Exception'.
ChecksReject(t) ==
  /\ timer = "armed"
  /\ \/ /\ AuditOk("SEND_REJECTED", key[t], NoTx)
        /\ Raise(t, "checks", "rejected")
     \/ /\ AuditRaises("SEND_REJECTED", key[t], NoTx)
        /\ Goto(t, "checks", "rpc_failed")
        /\ UNCHANGED outcome
  /\ UNCHANGED <<rowVars, phase, timer, sendLock, key, txid, chain, answer>>

ChecksRpcError(t) ==
  /\ Goto(t, "checks", "rpc_failed")
  /\ UNCHANGED <<rowVars, phase, timer, sendLock, key, txid, outcome, chain, audit,
                 answer>>

\* Audit SEND_FAILED and raise TransactionFailed.
RecordFailed(t, from, status) ==
  /\ \/ /\ AuditOk("SEND_FAILED", key[t], NoTx)
        /\ Raise(t, from, status)
     \/ /\ AuditRaises("SEND_FAILED", key[t], NoTx)
        /\ Raise(t, from, "error")
  /\ UNCHANGED <<rowVars, phase, timer, sendLock, key, txid, chain, answer>>

RecordRpcFailed(t) == RecordFailed(t, "rpc_failed", "rpc_failed")

----------------------------------------------------------------------------
(* wallet.send_usdt and what follows it.                                   *)

\* The network takes the transaction and the node says so.
BroadcastAccepted(t, x) ==
  /\ Goto(t, "broadcast", "commit")
  /\ chain[x] = NoKey
  /\ chain' = [chain EXCEPT ![x] = key[t]]
  /\ txid' = [txid EXCEPT ![t] = x]
  /\ UNCHANGED <<rowVars, phase, timer, sendLock, key, outcome, audit, answer>>

\* The network takes the transaction and the answer is lost or unusable: a
\* timeout or reset after the request went out, a response that is no dict,
\* or one without txid.  send_usdt raises.
BroadcastLost(t, x) ==
  /\ Goto(t, "broadcast", "tx_failed")
  /\ "lost_response" \in Faults
  /\ chain[x] = NoKey
  /\ chain' = [chain EXCEPT ![x] = key[t]]
  /\ UNCHANGED <<rowVars, phase, timer, sendLock, key, txid, outcome, audit, answer>>

\* Mutant of BroadcastRejected: the txid of a refused transaction is taken for
\* a payment.
BroadcastRejectedUnseen(t) ==
  /\ Goto(t, "broadcast", "commit")
  /\ \E x \in Txid : chain[x] = NoKey /\ txid' = [txid EXCEPT ![t] = x]
  /\ UNCHANGED <<rowVars, phase, timer, sendLock, key, outcome, chain, audit, answer>>

\* Refused, or never sent.
BroadcastRejected(t) ==
  /\ Goto(t, "broadcast", "tx_failed")
  /\ UNCHANGED <<rowVars, phase, timer, sendLock, key, txid, outcome, chain, audit,
                 answer>>

RecordTxFailed(t) == RecordFailed(t, "tx_failed", "failed")

Commit(t) ==
  /\ Goto(t, "commit", "success")
  /\ WriteOk(UpdateCommitted(key[t], txid[t]))
  /\ UNCHANGED <<phase, timer, sendLock, key, txid, outcome, chain, audit, answer>>

CommitRaises(t) ==
  /\ Raise(t, "commit", "error")
  /\ StoreRaises
  /\ UNCHANGED <<phase, timer, sendLock, key, txid, chain, audit, answer>>

\* except BaseException: release and re-raise.
Release(t) ==
  /\ Respond(t, "release", outcome[t], NoTx)
  /\ WriteOk(DeletePending(key[t]))
  /\ UNCHANGED <<phase, timer, chain, audit>>

\* An exception of release() itself replaces the one in flight.
ReleaseRaises(t) ==
  /\ Respond(t, "release", "error", NoTx)
  /\ StoreRaises
  /\ UNCHANGED <<phase, timer, chain, audit>>

\* Mutant of RecordSuccess: a failing audit write is ignored.
RecordSuccessBestEffort(t) ==
  /\ \/ AuditOk("SEND_SUCCESS", key[t], txid[t])
     \/ AuditRaises("SEND_SUCCESS", key[t], txid[t])
  /\ Goto(t, "success", "count")
  /\ UNCHANGED <<rowVars, phase, timer, sendLock, key, txid, outcome, answer, chain>>

\* The success record, written after the slot is committed.
RecordSuccess(t) ==
  /\ \/ /\ AuditOk("SEND_SUCCESS", key[t], txid[t])
        /\ Goto(t, "success", "count")
        /\ UNCHANGED <<sendLock, key, txid, outcome, answer>>
     \/ /\ AuditRaises("SEND_SUCCESS", key[t], txid[t])
        /\ Respond(t, "success", "error", NoTx)
  /\ UNCHANGED <<rowVars, phase, timer, chain>>

\* idempotency.count() for the gauge, then the 200 answer.
AnswerSuccess(t) ==
  /\ Respond(t, "count", "broadcast", txid[t])
  /\ conn = "open"
  /\ UNCHANGED <<rowVars, phase, timer, chain, audit>>

CountRaises(t) ==
  /\ Respond(t, "count", "error", NoTx)
  /\ StoreRaises
  /\ UNCHANGED <<phase, timer, chain, audit>>

----------------------------------------------------------------------------
(* The process around the handler.                                         *)

\* _on_timeout runs in its own thread, whatever the handlers are doing:
\* reset_timer is called when a request starts, not while it runs.
TimerFires ==
  /\ phase # "down"
  /\ timer = "armed"
  /\ timer' = "tron_destroyed"
  /\ UNCHANGED <<rowVars, phase, threadVars, chain, audit>>

TimerClosesStore ==
  /\ phase # "down"
  /\ timer = "tron_destroyed"
  /\ timer' = "store_closed"
  /\ CloseStore
  /\ UNCHANGED <<phase, threadVars, chain, audit>>

TimerSignals ==
  /\ phase # "down"
  /\ timer = "store_closed"
  /\ timer' = "signalled"
  /\ phase' = "stopping"
  /\ UNCHANGED <<rowVars, threadVars, chain, audit>>

\* SIGTERM from the service manager.
Sigterm ==
  /\ phase = "serving"
  /\ phase' = "stopping"
  /\ UNCHANGED <<rowVars, timer, threadVars, chain, audit>>

\* uvicorn waits for the handlers, then the lifespan closes the store and the
\* process exits.
Shutdown ==
  /\ phase = "stopping"
  /\ \A t \in Thread : pc[t] = "idle"
  /\ phase' = "down"
  /\ LoseStore
  /\ UNCHANGED <<timer, threadVars, chain, audit>>

\* kill -9, power loss: what is not on disk or on chain is gone.
Crash ==
  /\ phase # "down"
  /\ phase' = "down"
  /\ LoseStore
  /\ sendLock' = NoThread
  /\ pc' = [t \in Thread |-> "idle"]
  /\ key' = [t \in Thread |-> NoKey]
  /\ txid' = [t \in Thread |-> NoTx]
  /\ outcome' = [t \in Thread |-> "none"]
  /\ UNCHANGED <<timer, chain, audit, answer>>

Start ==
  /\ phase = "down"
  /\ phase' = "serving"
  /\ timer' = "armed"
  /\ BuildStore
  /\ UNCHANGED <<threadVars, chain, audit>>

----------------------------------------------------------------------------

SendStep(t) ==
  \/ AcquireLock(t)
  \/ PreflightPass(t) \/ PreflightRefuse(t) \/ RiskBlock(t)
  \/ ReserveNew(t) \/ ReserveRaises(t)
  \/ ReserveCommitted(t) \/ ReserveUnknown(t)
  \/ ReserveWait(t) \/ WaitTimeout(t) \/ WaitWoken(t)
  \/ AnswerDuplicate(t)
  \/ ChecksPass(t) \/ ChecksReject(t) \/ ChecksRpcError(t) \/ RecordRpcFailed(t)
  \/ \E x \in Txid : BroadcastAccepted(t, x) \/ BroadcastLost(t, x)
  \/ BroadcastRejected(t) \/ RecordTxFailed(t)
  \/ Commit(t) \/ CommitRaises(t)
  \/ Release(t) \/ ReleaseRaises(t)
  \/ RecordSuccess(t) \/ AnswerSuccess(t) \/ CountRaises(t)

ProcessStep ==
  \/ TimerFires \/ TimerClosesStore \/ TimerSignals
  \/ Sigterm \/ Shutdown \/ Crash \/ Start

Next ==
  \/ \E t \in Thread : SendStep(t) \/ \E k \in Key : Receive(t, k)
  \/ ProcessStep

Spec == Init /\ [][Next]_vars

\* A worker thread that can take a step takes it: RPCs and cond.wait have
\* timeouts, and the holder of _send_lock is never blocked by another thread.
FairSpec == Spec /\ \A t \in Thread : WF_vars(SendStep(t))
----------------------------------------------------------------------------
(* Properties.                                                             *)

\* At most one broadcast per key: no two transactions on the network were
\* paid for the same idempotency key, whatever crashes, restarts, timer
\* shutdowns and audit failures happen between the attempts.
AtMostOnePayment ==
  \A x, y \in Txid : chain[x] = chain[y] /\ chain[x] # NoKey => x = y

\* A key that has paid stays known to the SQLite file: no crash, release or
\* shutdown leaves a paid key for which reserve() would return None.
PaidKeyRemembered ==
  \A k \in Key : Paid(k) => disk[k].status # "free"

\* Every answer that carries a txid ("broadcast" or "duplicate") names a
\* transaction that the network took for that very key.
AnswersAreOnChain ==
  \A t \in Thread :
    answer[t].status \in {"broadcast", "duplicate"} =>
      /\ answer[t].txid \in Txid
      /\ chain[answer[t].txid] = answer[t].key

\* Same response for the same key: two answers for one key never quote two
\* different transactions.
SameAnswerForSameKey ==
  \A s, t \in Thread :
    /\ answer[s].status \in {"broadcast", "duplicate"}
    /\ answer[t].status \in {"broadcast", "duplicate"}
    /\ answer[s].key = answer[t].key
    => answer[s].txid = answer[t].txid

\* The audit row is on disk before the response in every terminal branch:
\* success, duplicate, rejection and failure, also when writes to the audit
\* file fail and when the process crashes right after answering.
AnswersAreAudited ==
  \A t \in Thread :
    LET a == answer[t]
        Audited(e) == [event |-> e, key |-> a.key, txid |-> a.txid] \in audit
    IN /\ a.status = "broadcast" => Audited("SEND_SUCCESS")
       /\ a.status = "duplicate" => Audited("SEND_DUPLICATE")
       /\ a.status = "rejected" => Audited("SEND_REJECTED")
       /\ a.status \in {"failed", "rpc_failed"} => Audited("SEND_FAILED")

\* The audit log never claims a payment that did not happen: a SEND_SUCCESS or
\* SEND_DUPLICATE record names a transaction the network took for that key.
AuditIsTrue ==
  \A r \in audit :
    r.event \in {"SEND_SUCCESS", "SEND_DUPLICATE"} =>
      r.txid \in Txid /\ chain[r.txid] = r.key

\* A pending row read by reserve() belongs to a request that is in flight in
\* this process, so that waiting for it makes sense.
PendingIsInFlight ==
  \A k \in Key :
    phase # "down" /\ conn = "open" /\ rows[k].status = "pending" =>
      \E t \in Thread : pc[t] \in OwnerPc /\ key[t] = k

\* The reservation is on disk before the broadcast: a key's transaction is only
\* accepted while the SQLite file holds a pending row for it, so a crash at any
\* later point is found by _recover_orphans.
ReservedOnDiskBeforeBroadcast ==
  [][\A x \in Txid : chain'[x] # chain[x] /\ backend = "sqlite" =>
       disk[chain'[x]].status = "pending"]_vars

\* A committed row is final: the file never loses it and never changes its
\* txid, across retries, failed commits, shutdowns and restarts.
CommittedIsFinal ==
  [][\A k \in Key : disk[k].status = "committed" => disk'[k] = disk[k]]_vars

\* _send_lock is always given back: no path through the handler, failing or
\* waiting, keeps the payouts of all other clients blocked for ever.
LockIsReleased ==
  \A t \in Thread : sendLock = t ~> sendLock # t

\* The service implements the ledger of PaymentLedger.
Ledger == INSTANCE PaymentLedger WITH ledger <- chain
ImplementsLedger == Ledger!LedgerSpec
============================================================================
