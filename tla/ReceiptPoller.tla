---------------------------- MODULE ReceiptPoller ----------------------------
(***************************************************************************)
(* receipt_poller.py: the daemon thread that finds out what became of the  *)
(* committed payments, against the network, a clock, the tx_status table,  *)
(* the audit log and a process that stops and crashes.                     *)
(*                                                                         *)
(* Times are counted in poll intervals.  A payment is one transaction; the *)
(* idempotency row it comes from is its creation time.                     *)
(***************************************************************************)
EXTENDS Integers, Sequences, FiniteSets

CONSTANTS
  Txid,         \* payments that /send may commit
  Lookback,     \* RECEIPT_LOOKBACK_HOURS
  Giveup,       \* RECEIPT_NOT_FOUND_GIVEUP_HOURS
  Batch,        \* RECEIPT_POLL_BATCH
  Codes,        \* contract results the network may put into a receipt
  Punctual,     \* TRUE: the thread completes one tick per interval
  SettleWithin, \* the network includes or drops a transaction in this time
  Faults,       \* subset of {"audit_error", "db_error"}
  MaxTime,      \* bound: last instant of the clock
  CommitBy,     \* bound: last instant at which a payment is committed
  MaxRpcErrors, \* bound: failing RPCs
  MaxSlowStops  \* bound: how often stop() runs into its join timeout

ASSUME PollerAssumption ==
  /\ {Lookback, Giveup, SettleWithin, MaxTime, CommitBy, MaxRpcErrors,
      MaxSlowStops} \subseteq Nat
  /\ Batch \in Nat \ {0}
  /\ Punctual \in BOOLEAN

VARIABLES
  now,        \* time.time()
  created,    \* created_at of each committed payment, or Never
  fate,       \* what the network has done with each transaction
  seen,       \* tx_status.first_seen
  checked,    \* tx_status.last_checked
  status,     \* tx_status.status, non-NULL exactly when resolved_at is set
  process,    \* "up", "stopping" (stop_event is set), "down"
  conn,       \* the poller's connection: "open", or "closed" by stop()
  pc,         \* the thread: waiting, in a tick, or inside _poll_one
  todo,       \* candidates of the running tick still to be polled
  cur,        \* the candidate in _poll_one and what was found
  ticked,     \* when the last tick was completed, recorded if Punctual
  receipts,   \* RECEIPT_RESOLVED records in the audit log, with their number
  rpcErrors,  \* failing RPCs so far
  slowStops   \* joins that have timed out so far

table == <<seen, checked, status>>
counters == <<rpcErrors, slowStops>>
vars == <<now, created, fate, table, process, conn, pc, todo, cur, ticked, receipts,
          counters>>

Never == -1
Time == 0..MaxTime

TERMINAL_STATUSES ==
  {"SUCCESS", "OUT_OF_ENERGY", "REVERT", "BAD_JUMP_DESTINATION", "OUT_OF_TIME",
   "STACK_TOO_SMALL", "STACK_TOO_LARGE", "ILLEGAL_OPERATION", "STACK_OVERFLOW",
   "JVM_STACK_OVER_FLOW", "TRANSFER_FAILED", "UNKNOWN", "GIVEUP"}

RETRY_STATUSES == {"NOT_FOUND", "RPC_ERROR", "PENDING"}

\* A transaction waits in the mempool, is evicted, or is in a block with a
\* contract result.
Fate == {"mempool", "evicted"} \cup Codes

NoStatus == "NULL"

\* The contract results of the network are none of the poller's own words, among
\* them codes that TERMINAL_STATUSES does not list.
ASSUME CodesAssumption ==
  Codes \cap ({"mempool", "evicted", "GIVEUP", NoStatus} \cup RETRY_STATUSES) = {}

NoCur == [txid |-> "none", status |-> NoStatus, at |-> Never, first |-> Never]

Init ==
  /\ now = 0
  /\ created = [x \in Txid |-> Never]
  /\ fate = [x \in Txid |-> "mempool"]
  /\ seen = [x \in Txid |-> Never]
  /\ checked = [x \in Txid |-> Never]
  /\ status = [x \in Txid |-> NoStatus]
  /\ process = "up"
  /\ conn = "open"
  /\ pc = "waiting"
  /\ todo = <<>>
  /\ cur = NoCur
  /\ ticked = Never
  /\ receipts = [x \in Txid |-> <<>>]
  /\ rpcErrors = 0
  /\ slowStops = 0

----------------------------------------------------------------------------
(* The world around the thread.                                            *)

\* /send commits a payment (Payout!Commit).
CommitPayment(x) ==
  /\ process = "up"
  /\ created[x] = Never
  /\ now <= CommitBy
  /\ created' = [created EXCEPT ![x] = now]
  /\ UNCHANGED <<now, fate, table, process, conn, pc, todo, cur, ticked, receipts,
                 counters>>

\* The network includes a transaction in a block, or forgets it.
Settle(x) ==
  /\ created[x] # Never
  /\ fate[x] = "mempool"
  /\ \E f \in Codes \cup {"evicted"} : fate' = [fate EXCEPT ![x] = f]
  /\ UNCHANGED <<now, created, table, process, conn, pc, todo, cur, ticked, receipts,
                 counters>>

\* An interval passes.
Advance ==
  /\ now < MaxTime
  /\ \A x \in Txid : created[x] # Never /\ fate[x] = "mempool" =>
                      now < created[x] + SettleWithin
  /\ Punctual => ticked = now
  /\ now' = now + 1
  /\ UNCHANGED <<created, fate, table, process, conn, pc, todo, cur, ticked, receipts,
                 counters>>

----------------------------------------------------------------------------
(* The thread.                                                             *)

\* Mutant of Candidates: the resolved_at filter is missing.
CandidatesResolvedToo ==
  {x \in Txid : created[x] # Never /\ created[x] >= now - Lookback}

\* Rows the SELECT of _next_candidates_sqlite returns before LIMIT.
Candidates ==
  {x \in Txid : /\ created[x] # Never
                /\ created[x] >= now - Lookback
                /\ status[x] = NoStatus}

\* COALESCE(last_checked, 0)
LastChecked(x) == IF checked[x] = Never THEN 0 ELSE checked[x]

\* Mutant of IsBatch: LIMIT without ORDER BY.
IsBatchUnordered(c) ==
  /\ \A i, j \in DOMAIN c : c[i] = c[j] => i = j
  /\ Len(c) = IF Cardinality(Candidates) < Batch THEN Cardinality(Candidates) ELSE Batch

\* c is a result of ORDER BY COALESCE(last_checked, 0) ASC LIMIT batch.
IsBatch(c) ==
  /\ \A i, j \in DOMAIN c : c[i] = c[j] => i = j
  /\ Len(c) = IF Cardinality(Candidates) < Batch THEN Cardinality(Candidates) ELSE Batch
  /\ \A i \in DOMAIN c :
       \A x \in Candidates \ {c[j] : j \in 1..i} : LastChecked(c[i]) <= LastChecked(x)

TickDone == ticked' = IF Punctual THEN now ELSE Never

\* _tick: read the candidates.
Tick ==
  /\ process = "up"
  /\ pc = "waiting"
  /\ Punctual => ticked < now \/ now = MaxTime
  /\ \E n \in 0..Batch : \E c \in [1..n -> Candidates] : IsBatch(c) /\ todo' = c
  /\ pc' = "tick"
  /\ UNCHANGED <<now, created, fate, table, process, conn, cur, ticked, receipts,
                 counters>>

\* The SELECT raises: _run logs it and waits for the next interval.
TickRaises ==
  /\ process = "up"
  /\ pc = "waiting"
  /\ "db_error" \in Faults
  /\ TickDone
  /\ UNCHANGED <<now, created, fate, table, process, conn, pc, todo, cur, receipts,
                 counters>>

\* All candidates polled, or stop_event seen between two of them.
EndTick ==
  /\ pc = "tick"
  /\ todo = <<>> \/ process = "stopping"
  /\ pc' = "waiting"
  /\ todo' = <<>>
  /\ TickDone
  /\ UNCHANGED <<now, created, fate, table, process, conn, cur, receipts, counters>>

\* What get_transaction_info can show for a transaction: an exception, nothing
\* (also from a node that lags behind, or as an exception that says "not
\* found"), an entry without block, or a receipt.
Responses(x) ==
  [kind : {"rpc_error", "not_found"}, code : {NoStatus}]
    \cup CASE fate[x] = "evicted" -> {}
           [] fate[x] = "mempool" -> [kind : {"no_block"}, code : {NoStatus}]
           [] OTHER -> [kind : {"in_block"}, code : {fate[x]}]

\* Mutant of Classify: every transaction in a block counts as a success.
ClassifyAnyBlock(r) ==
  CASE r.kind = "rpc_error" -> "RPC_ERROR"
    [] r.kind = "not_found" -> "NOT_FOUND"
    [] r.kind = "no_block" -> "PENDING"
    [] r.kind = "in_block" -> "SUCCESS"

\* _classify_receipt.  Any explicit code but SUCCESS is passed through.
Classify(r) ==
  CASE r.kind = "rpc_error" -> "RPC_ERROR"
    [] r.kind = "not_found" -> "NOT_FOUND"
    [] r.kind = "no_block" -> "PENDING"
    [] r.kind = "in_block" -> r.code

FirstSeen(x) == IF seen[x] = Never THEN now ELSE seen[x]

\* Mutant of Verdict: the age counts from the payment, not from the first look.
VerdictByAgeOfPayment(x, s) ==
  IF s = "NOT_FOUND" /\ now - created[x] >= Giveup THEN "GIVEUP" ELSE s

\* NOT_FOUND for too long becomes GIVEUP.
Verdict(x, s) ==
  IF s = "NOT_FOUND" /\ now - FirstSeen(x) >= Giveup THEN "GIVEUP" ELSE s

\* _poll_one up to the verdict.
Poll ==
  /\ pc = "tick"
  /\ process = "up"
  /\ todo # <<>>
  /\ \E r \in Responses(Head(todo)) :
       /\ r.kind = "rpc_error" => rpcErrors < MaxRpcErrors
       /\ rpcErrors' = IF r.kind = "rpc_error" THEN rpcErrors + 1 ELSE rpcErrors
       /\ cur' = [txid |-> Head(todo), status |-> Verdict(Head(todo), Classify(r)),
                  at |-> now, first |-> FirstSeen(Head(todo))]
  /\ todo' = Tail(todo)
  /\ pc' = "upsert"
  /\ UNCHANGED <<now, created, fate, table, process, conn, ticked, receipts, slowStops>>

\* _upsert.  With the connection gone the row lands in a dict nobody reads again.
UpsertAs(first, st) ==
  LET x == cur.txid
      terminal == cur.status \in TERMINAL_STATUSES
  IN /\ pc = "upsert"
     /\ IF conn = "open"
        THEN /\ seen' = [seen EXCEPT ![x] = first]
             /\ checked' = [checked EXCEPT ![x] = cur.at]
             /\ status' = [status EXCEPT ![x] = st]
        ELSE UNCHANGED table
     /\ pc' = IF terminal THEN "emit" ELSE "tick"
     /\ cur' = IF terminal THEN cur ELSE NoCur
     /\ UNCHANGED <<now, created, fate, process, conn, todo, ticked, receipts, counters>>

\* first_seen is written by the INSERT only.
KeptFirstSeen == IF seen[cur.txid] = Never THEN cur.first ELSE seen[cur.txid]

\* Mutant of Upsert: INSERT OR IGNORE leaves a row of an earlier tick alone.
UpsertIgnore ==
  UpsertAs(KeptFirstSeen,
           IF seen[cur.txid] = Never /\ cur.status \in TERMINAL_STATUSES
           THEN cur.status
           ELSE status[cur.txid])

\* status and resolved_at are set only when terminal.
Upsert ==
  UpsertAs(KeptFirstSeen,
           IF cur.status \in TERMINAL_STATUSES THEN cur.status ELSE NoStatus)

\* sqlite3 raises: _run logs it, the rest of the tick is dropped.
UpsertRaises ==
  /\ pc = "upsert"
  /\ "db_error" \in Faults
  /\ conn = "open"
  /\ pc' = "waiting"
  /\ todo' = <<>>
  /\ cur' = NoCur
  /\ TickDone
  /\ UNCHANGED <<now, created, fate, table, process, conn, receipts, counters>>

\* _emit_receipt_audit: a failing audit write is logged and forgotten.
EmitReceipt ==
  /\ pc = "emit"
  /\ \/ receipts' = [receipts EXCEPT ![cur.txid] = Append(@, cur.status)]
     \/ "audit_error" \in Faults /\ UNCHANGED receipts
  /\ pc' = "tick"
  /\ cur' = NoCur
  /\ UNCHANGED <<now, created, fate, table, process, conn, todo, ticked, counters>>

----------------------------------------------------------------------------
(* Life cycle.                                                             *)

\* shutdown_poller: set stop_event and join.
Stop ==
  /\ process = "up"
  /\ process' = "stopping"
  /\ UNCHANGED <<now, created, fate, table, conn, pc, todo, cur, ticked, receipts,
                 counters>>

\* The join times out after 5 s with the thread still busy; the connection is
\* closed under it.
StopTimesOut ==
  /\ slowStops < MaxSlowStops
  /\ process = "stopping"
  /\ pc # "waiting"
  /\ conn = "open"
  /\ conn' = "closed"
  /\ slowStops' = slowStops + 1
  /\ UNCHANGED <<now, created, fate, table, process, pc, todo, cur, ticked, receipts,
                 rpcErrors>>

\* The process ends: a crash, or after stop(); a daemon thread dies with it.
Exit ==
  /\ process # "down"
  /\ process' = "down"
  /\ conn' = "closed"
  /\ pc' = "waiting"
  /\ todo' = <<>>
  /\ cur' = NoCur
  /\ UNCHANGED <<now, created, fate, table, ticked, receipts, counters>>

\* init_poller in the next process.
Start ==
  /\ process = "down"
  /\ process' = "up"
  /\ conn' = "open"
  /\ UNCHANGED <<now, created, fate, table, pc, todo, cur, ticked, receipts, counters>>

----------------------------------------------------------------------------

Thread ==
  Tick \/ TickRaises \/ EndTick \/ Poll \/ Upsert \/ UpsertRaises \/ EmitReceipt

World == Advance \/ \E x \in Txid : CommitPayment(x) \/ Settle(x)

Life == Stop \/ StopTimesOut \/ Exit \/ Start

Next == Thread \/ World \/ Life

Spec == Init /\ [][Next]_vars

\* A process that is not stopped: the daemon thread is scheduled, time passes,
\* and the network deals with every transaction in the end.
LiveSpec ==
  /\ Init
  /\ [][Thread \/ World]_vars
  /\ WF_vars(Thread)
  /\ WF_vars(Advance)
  /\ \A x \in Txid : WF_vars(Settle(x))

----------------------------------------------------------------------------
(* Properties.                                                             *)

Found == [txid : Txid \cup {"none"}, at : Time \cup {Never}, first : Time \cup {Never},
          status : TERMINAL_STATUSES \cup RETRY_STATUSES \cup Codes \cup {NoStatus}]

\* Every variable has the values the code can give it.
TypeOK ==
  /\ now \in Time
  /\ created \in [Txid -> Time \cup {Never}]
  /\ fate \in [Txid -> Fate]
  /\ seen \in [Txid -> Time \cup {Never}]
  /\ checked \in [Txid -> Time \cup {Never}]
  /\ status \in [Txid -> TERMINAL_STATUSES \cup {NoStatus}]
  /\ process \in {"up", "stopping", "down"}
  /\ conn \in {"open", "closed"}
  /\ pc \in {"waiting", "tick", "upsert", "emit"}
  /\ todo \in Seq(Txid) /\ Len(todo) <= Batch
  /\ cur \in Found
  /\ ticked \in Time \cup {Never}
  /\ receipts \in [Txid -> Seq(TERMINAL_STATUSES)]
  /\ rpcErrors \in 0..MaxRpcErrors
  /\ slowStops \in 0..MaxSlowStops

\* A resolved row tells what happened: a contract result is the one the network
\* recorded, whatever failing lookups, lagging nodes and restarts came before.
VerdictIsTrue ==
  \A x \in Txid :
    status[x] \notin {NoStatus, "GIVEUP"} => fate[x] = status[x]

\* A resolved row is final: no later tick, restart or late thread rewrites it.
VerdictIsFinal ==
  [][\A x \in Txid : status[x] # NoStatus => status'[x] = status[x]]_vars

\* The audit log has at most one RECEIPT_RESOLVED per payment, and one more for each
\* stop() that left a thread behind; without such a stop it has the status of the
\* row, whatever crashes fall between the row and the record.
OneReceiptPerPayment ==
  \A x \in Txid :
    /\ Len(receipts[x]) <= 1 + slowStops
    /\ slowStops = 0 /\ receipts[x] # <<>> => receipts[x] = <<status[x]>>

\* No payment is given up before it has been looked for over the whole give-up
\* period: first_seen survives restarts, upserts and late threads.
GiveupIsPatient ==
  \A x \in Txid :
    status[x] = "GIVEUP" => /\ checked[x] - seen[x] >= Giveup
                            /\ seen[x] >= created[x]

\* Every committed payment gets a verdict, although only Batch of them are looked
\* up per tick and some lookups fail.
EveryPaymentResolved ==
  \A x \in Txid : created[x] # Never ~> status[x] # NoStatus
============================================================================
