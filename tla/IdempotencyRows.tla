-------------------------- MODULE IdempotencyRows --------------------------
(***************************************************************************)
(* The table behind idempotency.py, as its two implementations keep it:    *)
(* SqliteIdempotencyStore (durable, one shared connection) and             *)
(* IdempotencyStore (a dict, lost with the process).                       *)
(***************************************************************************)
CONSTANTS
  Key,        \* idempotency keys chosen by the clients
  Txid,       \* transaction ids the TRON node can assign
  NoTx,       \* the empty txid of a row that is not committed
  Faults,     \* which of AllFaults the environment may produce
  Backends    \* the stores _build_store may end up with at a process start

AllFaults == {"lost_response", "db_error", "audit_error"}

AllBackends == {"sqlite", "memory"}

ASSUME RowsAssumption ==
  /\ NoTx \notin Txid
  /\ Faults \subseteq AllFaults
  /\ Backends \subseteq AllBackends
  /\ Backends # {}

VARIABLES
  disk,       \* rows of the SQLite file: what a crash or a restart leaves
  rows,       \* rows the running store reads: the file's, or the dict's
  conn,       \* "open", or "closed" once close() has dropped the connection
  backend     \* the implementation this process runs with

rowVars == <<disk, rows, conn, backend>>

Status == {"free", "pending", "committed", "unknown"}

\* status "free" stands for the absence of a row.
Row == [status : Status, txid : Txid \cup {NoTx}]

FreeRow == [status |-> "free", txid |-> NoTx]
PendingRow == [status |-> "pending", txid |-> NoTx]
CommittedRow(x) == [status |-> "committed", txid |-> x]
NoRows == [k \in Key |-> FreeRow]

RowsTypeOK ==
  /\ disk \in [Key -> Row]
  /\ rows \in [Key -> Row]
  /\ conn \in {"open", "closed"}
  /\ backend \in AllBackends

RowsInit ==
  /\ disk = NoRows
  /\ rows = NoRows
  /\ conn = "open"
  /\ backend \in Backends

----------------------------------------------------------------------------
(* A method of the store: one statement and its conn.commit().             *)

\* Mutant of WriteOk: the conn.commit() is missing.
WriteOkUncommitted(new) ==
  /\ conn = "open"
  /\ rows' = new
  /\ UNCHANGED <<disk, conn, backend>>

\* Both succeed.
WriteOk(new) ==
  /\ conn = "open"
  /\ rows' = new
  /\ disk' = IF backend = "sqlite" THEN new ELSE disk
  /\ UNCHANGED <<conn, backend>>

\* The assert on a closed connection, or sqlite3 refuses (database locked for
\* 30 s by another connection, disk full, I/O error).  A refused statement
\* changes nothing and SQLite rolls back a refused COMMIT.  The dict of the
\* in-memory store cannot fail.
StoreRaises ==
  /\ backend = "sqlite"
  /\ conn = "closed" \/ "db_error" \in Faults
  /\ UNCHANGED rowVars

\* INSERT of a pending row.
InsertPending(k) == [rows EXCEPT ![k] = PendingRow]

\* UPDATE ... WHERE key=?: no status guard, and no effect on an absent row;
\* the dict assigns unconditionally.
UpdateCommitted(k, x) ==
  IF backend = "sqlite" /\ rows[k].status = "free"
  THEN rows
  ELSE [rows EXCEPT ![k] = CommittedRow(x)]

\* Mutant of DeletePending: the row is kept and marked.
DeletePendingMarks(k) ==
  IF rows[k].status = "pending" THEN [rows EXCEPT ![k].status = "failed"] ELSE rows

\* DELETE ... WHERE key=? AND status='pending'.
DeletePending(k) ==
  IF rows[k].status = "pending" THEN [rows EXCEPT ![k] = FreeRow] ELSE rows

----------------------------------------------------------------------------
(* Life cycle of the store.                                                *)

\* Mutant of Recovered: orphans are dropped.
RecoveredAsFree(file) ==
  [k \in Key |-> IF file[k].status = "pending" THEN FreeRow ELSE file[k]]

\* Mutant of Recovered: orphans are left as they are.
RecoveredNothing(file) == file

\* Mutant of Recovered: the UPDATE has no WHERE status='pending'.
RecoveredEveryRow(file) ==
  [k \in Key |-> IF file[k].status = "free"
                 THEN file[k]
                 ELSE [file[k] EXCEPT !.status = "unknown"]]

\* _recover_orphans: pending rows of an earlier process become unknown.
Recovered(file) ==
  [k \in Key |-> IF file[k].status = "pending"
                 THEN [file[k] EXCEPT !.status = "unknown"]
                 ELSE file[k]]

\* Mutant of BuildStore: the table is created afresh.
BuildStoreAfresh ==
  /\ backend' \in Backends
  /\ conn' = "open"
  /\ disk' = NoRows
  /\ rows' = NoRows

\* _build_store: SQLite when it opens and recovers, the dict otherwise.
BuildStore ==
  /\ backend' \in Backends
  /\ conn' = "open"
  /\ IF backend' = "sqlite"
     THEN disk' = Recovered(disk) /\ rows' = Recovered(disk)
     ELSE disk' = disk /\ rows' = NoRows

\* close(): every method has committed its own statement, so nothing is left
\* to flush; the methods assert from now on.  No-op for the dict.
CloseStore ==
  /\ conn' = IF backend = "sqlite" THEN "closed" ELSE conn
  /\ UNCHANGED <<disk, rows, backend>>

\* The process is gone, and with it the connection or the dict.
LoseStore ==
  /\ rows' = NoRows
  /\ conn' = "closed"
  /\ UNCHANGED <<disk, backend>>
============================================================================
