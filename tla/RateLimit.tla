----------------------------- MODULE RateLimit -----------------------------
(***************************************************************************)
(* rate_limit_bucket.py and the limiter of the HTTP middleware: one token  *)
(* bucket per client, kept in SQLite (or in a dict) and swept by a daemon  *)
(* thread.                                                                 *)
(*                                                                         *)
(* The middleware runs on the event loop, so checks follow one another;    *)
(* the sweeper is a second thread on the SAME connection, so its DELETE    *)
(* lands inside whatever transaction a check has open.  The code reads the *)
(* wall clock, which may step back; true time is kept beside it.           *)
(*                                                                         *)
(* Tokens are counted in units: a request costs Cost of them, a second     *)
(* brings Refill of them, a full bucket holds Full.                        *)
(***************************************************************************)
EXTENDS Integers, FiniteSetsExt

CONSTANTS
  Client,         \* client addresses
  Capacity,       \* RATE_LIMIT_IP_CAPACITY
  Cost,           \* units in a token
  Refill,         \* units per second
  IdleThreshold,  \* idle_threshold_sec
  CheckTime,      \* seconds a check may take: the busy timeout of the connection
  MaxTime,        \* bound: seconds
  MaxStepBack,    \* bound: seconds the wall clock may lose in all
  MaxFaults       \* bound: failing statements

Full == Capacity * Cost

\* BucketParams.__post_init__, and sweep_idle's "the threshold should be >
\* capacity/refill" with room for one check and one token: 3600 against 92 seconds in
\* the default configuration.  The wall clock loses no more than the threshold: a DELETE
\* that had waited through a longer step back would take rows written since.
ASSUME RateLimitAssumption ==
  /\ Client # {}
  /\ Capacity \in Nat \ {0} /\ Cost \in Nat \ {0} /\ Refill \in Nat \ {0}
  /\ IdleThreshold \in Nat /\ CheckTime \in Nat
  /\ (IdleThreshold - CheckTime) * Refill >= Full + Cost
  /\ MaxTime \in Nat /\ MaxStepBack \in 0..IdleThreshold /\ MaxFaults \in Nat

VARIABLES
  mode,     \* "sqlite", or "memory" without a db_path
  up,       \* the limiter is initialised
  db,       \* committed buckets
  view,     \* the buckets as the connection sees them
  txn,      \* the connection is inside a transaction
  check,    \* the check in progress
  cutoff,   \* what the sweeper will delete, NoCutoff while it waits
  time,     \* true time
  wall,     \* time.time()
  faults,   \* failing statements so far
  ideal     \* history: the bucket of each client in true time, never swept; void: since it
            \* was last full, a request was admitted whose UPDATE found no row

vars == <<mode, up, db, view, txn, check, cutoff, time, wall, faults, ideal>>

None == [tokens |-> -1, at |-> 0]
NoCutoff == -1000
Idle == [pc |-> "idle", client |-> CHOOSE c \in Client : TRUE, now |-> 0, t |-> 0,
         row |-> None, ok |-> FALSE]

Later(a, b) == Max({a, b})

\* What a bucket holds at a time: refilled since it was written, up to its capacity.
Refilled(bucket, now) == Min({Full, bucket.tokens + Later(0, now - bucket.at) * Refill})

\* The same of a row, which need not be there.
Level(row, now) == IF row = None THEN Full ELSE Refilled(row, now)

\* Mutant of Checked: a refusal stamps the bucket and forgets the refill.
CheckedStampOnly(row, now) ==
  LET current == Level(row, now)
  IN IF current < Cost
     THEN [ok |-> FALSE, row |-> [tokens |-> row.tokens, at |-> now]]
     ELSE [ok |-> TRUE, row |-> [tokens |-> current - Cost, at |-> now]]

\* Mutant of Checked: a fresh bucket is stored as it is, before the request is paid.
CheckedUnpaid(row, now) ==
  LET current == Level(row, now)
      ok == current >= Cost
  IN [ok |-> ok,
      row |-> [tokens |-> IF ok /\ row # None THEN current - Cost ELSE current, at |-> now]]

\* What a check answers and writes; a fresh bucket is a full one.
Checked(row, now) ==
  LET current == Level(row, now)
      ok == current >= Cost
  IN [ok |-> ok, row |-> [tokens |-> IF ok THEN current - Cost ELSE current, at |-> now]]

Bucket == [tokens : -1..Full, at : -MaxStepBack..MaxTime]
Check == [pc : {"idle", "begin", "select", "write", "commit", "rollback"}, client : Client,
          now : -MaxStepBack..MaxTime, t : 0..MaxTime, row : Bucket, ok : BOOLEAN]

TypeOK ==
  /\ mode \in {"sqlite", "memory"}
  /\ up \in BOOLEAN /\ txn \in BOOLEAN
  /\ db \in [Client -> Bucket] /\ view \in [Client -> Bucket]
  /\ check \in Check
  /\ cutoff \in Int
  /\ time \in 0..MaxTime /\ wall \in -MaxStepBack..MaxTime
  /\ faults \in 0..MaxFaults
  /\ ideal \in [Client -> [tokens : Int, at : 0..MaxTime, void : BOOLEAN]]
  /\ ~ txn => db = view

Init ==
  /\ mode \in {"sqlite", "memory"}
  /\ up = TRUE
  /\ db = [c \in Client |-> None]
  /\ view = db
  /\ txn = FALSE
  /\ check = Idle
  /\ cutoff = NoCutoff
  /\ time = 0 /\ wall = 0
  /\ faults = 0
  /\ ideal = [c \in Client |-> [tokens |-> Full, at |-> 0, void |-> FALSE]]

----------------------------------------------------------------------------
(* A check.                                                                *)

\* A token is spent at the true time the request came in.
Spent(b, t, void) ==
  [tokens |-> Refilled(b, t) - Cost, at |-> t, void |-> void \/ (b.void /\ Refilled(b, t) < Full)]

Spend(c, t, void) == ideal' = [ideal EXCEPT ![c] = Spent(@, t, void)]

\* The middleware calls check, which reads the clock before anything else.
Arrive(c) ==
  /\ up /\ mode = "sqlite"
  /\ check.pc = "idle"
  /\ check' = [Idle EXCEPT !.pc = "begin", !.client = c, !.now = wall, !.t = time]
  /\ UNCHANGED <<mode, up, db, view, txn, cutoff, time, wall, faults, ideal>>

\* BEGIN IMMEDIATE; inside a transaction a failed ROLLBACK has left open it raises.
Begin ==
  /\ check.pc = "begin"
  /\ check' = [check EXCEPT !.pc = IF txn THEN "rollback" ELSE "select"]
  /\ txn' = TRUE
  /\ UNCHANGED <<mode, up, db, view, cutoff, time, wall, faults, ideal>>

Select ==
  /\ check.pc = "select"
  /\ check' = [check EXCEPT !.pc = "write", !.row = view[check.client]]
  /\ UNCHANGED <<mode, up, db, view, txn, cutoff, time, wall, faults, ideal>>

\* INSERT OR REPLACE for a fresh bucket; an UPDATE finds no row to change when the
\* sweeper has deleted it since the SELECT.
Write ==
  LET r == Checked(check.row, check.now)
  IN /\ check.pc = "write"
     /\ check' = [check EXCEPT !.pc = "commit", !.ok = r.ok]
     /\ view' = IF check.row = None \/ view[check.client] # None
                THEN [view EXCEPT ![check.client] = r.row]
                ELSE view
     /\ UNCHANGED <<mode, up, db, txn, cutoff, time, wall, faults, ideal>>

\* COMMIT, and the answer.  The row is not there exactly when the UPDATE was void.
Commit ==
  /\ check.pc = "commit"
  /\ db' = view
  /\ txn' = FALSE
  /\ check' = Idle
  /\ IF check.ok THEN Spend(check.client, check.t, view[check.client] = None) ELSE UNCHANGED ideal
  /\ UNCHANGED <<mode, up, view, cutoff, time, wall, faults>>

\* A statement raises.
Fail ==
  /\ check.pc \in {"begin", "select", "write", "commit"}
  /\ faults < MaxFaults
  /\ faults' = faults + 1
  /\ check' = [check EXCEPT !.pc = "rollback"]
  /\ UNCHANGED <<mode, up, db, view, txn, cutoff, time, wall, ideal>>

\* The handler rolls back and raises; a ROLLBACK that fails as well is ignored.
Rollback ==
  /\ check.pc = "rollback"
  /\ check' = Idle
  /\ \/ view' = db /\ txn' = FALSE /\ UNCHANGED faults
     \/ faults < MaxFaults /\ faults' = faults + 1 /\ UNCHANGED <<view, txn>>
  /\ UNCHANGED <<mode, up, db, cutoff, time, wall, ideal>>

\* Without a database the whole check runs under the lock.
CheckMemory(c) ==
  LET r == Checked(db[c], wall)
  IN /\ up /\ mode = "memory"
     /\ db' = [db EXCEPT ![c] = r.row]
     /\ view' = db'
     /\ IF r.ok THEN Spend(c, time, FALSE) ELSE UNCHANGED ideal
     /\ UNCHANGED <<mode, up, txn, check, cutoff, time, wall, faults>>

----------------------------------------------------------------------------
(* The sweeper and the process.                                            *)

SweepStart ==
  /\ up
  /\ cutoff = NoCutoff
  /\ cutoff' = wall - IdleThreshold
  /\ UNCHANGED <<mode, up, db, view, txn, check, time, wall, faults, ideal>>

Idled(row) == row # None /\ row.at < cutoff

\* The DELETE commits by itself, or joins the transaction of a check; one that
\* raises is logged and changes nothing.
SweepDelete ==
  /\ cutoff # NoCutoff
  /\ cutoff' = NoCutoff
  /\ view' = [c \in Client |-> IF Idled(view[c]) THEN None ELSE view[c]]
  /\ db' = IF txn THEN db ELSE view'
  /\ UNCHANGED <<mode, up, txn, check, time, wall, faults, ideal>>

\* shutdown_limiter, or the process dies: an open transaction is undone, a dict is
\* gone.  A memory limiter promises nothing across a restart.
Stop ==
  /\ up
  /\ up' = FALSE
  /\ db' = IF mode = "memory" THEN [c \in Client |-> None] ELSE db
  /\ view' = db'
  /\ txn' = FALSE
  /\ check' = Idle
  /\ cutoff' = NoCutoff
  /\ ideal' = IF mode = "memory"
              THEN [c \in Client |-> [tokens |-> Full, at |-> time, void |-> FALSE]]
              ELSE ideal
  /\ UNCHANGED <<mode, time, wall, faults>>

\* init_limiter.
Start ==
  /\ ~ up
  /\ up' = TRUE
  /\ UNCHANGED <<mode, db, view, txn, check, cutoff, time, wall, faults, ideal>>

Tick ==
  /\ time < MaxTime
  /\ check.pc # "idle" => time - check.t < CheckTime
  /\ time' = time + 1
  /\ wall' = wall + 1
  /\ UNCHANGED <<mode, up, db, view, txn, check, cutoff, faults, ideal>>

\* The wall clock is set back.
StepBack ==
  /\ time - wall < MaxStepBack
  /\ wall' = wall - 1
  /\ UNCHANGED <<mode, up, db, view, txn, check, cutoff, time, faults, ideal>>

Next ==
  \/ \E c \in Client : Arrive(c) \/ CheckMemory(c)
  \/ Begin \/ Select \/ Write \/ Commit \/ Fail \/ Rollback
  \/ SweepStart \/ SweepDelete
  \/ Stop \/ Start
  \/ Tick \/ StepBack

Spec == Init /\ [][Next]_vars

----------------------------------------------------------------------------
(* Properties.                                                             *)

\* How far a client may be ahead of its bucket in true time.
Slack(b) == IF b.void THEN Cost ELSE 0

\* "Capacity = max burst": sweeps, restarts, failing statements and a clock that steps back
\* never give a client more than its bucket holds in true time.  The one exception is a
\* DELETE of the sweeper between the SELECT and the UPDATE of one check (_check_sqlite):
\* that request is admitted and not paid, and until the bucket is full again the client
\* is at most this ONE request ahead.
NoExtraBurst ==
  \A c \in Client : Level(db[c], wall) <= Refilled(ideal[c], time) + Slack(ideal[c])

\* While no clock steps back nothing takes a token from a client but its own admitted
\* requests: a refusal keeps what the bucket has gained, so a client that keeps asking is
\* served as soon as a patient one.
RefusalCostsNothing ==
  time = wall => \A c \in Client : Level(db[c], wall) >= Refilled(ideal[c], time)

============================================================================
