------------------------------ MODULE Webhooks ------------------------------
(***************************************************************************)
(* webhooks.py: audit events become rows of webhook_deliveries, a worker   *)
(* thread posts them to their receivers and retries on a schedule, the CLI *)
(* resets rows from a process of its own, and the service is shut down or  *)
(* killed in between.                                                      *)
(*                                                                         *)
(* Times are counted in worker intervals, as what is left to wait.         *)
(***************************************************************************)
EXTENDS Integers, Sequences, FiniteSets

CONSTANTS
  Event,         \* audit records that pass WEBHOOK_EVENTS
  Url,           \* WEBHOOK_URLS
  Backoff,       \* WEBHOOK_BACKOFF_SCHEDULE, a sequence of delays
  Limit,         \* rows take_due returns at most
  Operator,      \* concurrent `skr-crypto webhook retry' processes
  Faults,        \* subset of {"db_error", "lost_response"}
  MaxTrouble,    \* bound: failing statements and crashes
  MaxStops,      \* bound: orderly shutdowns
  MaxDelay,      \* bound: the longest delay, up to which the age of a POST is counted
  MaxForced      \* bound: forced retries

ASSUME WebhooksAssumption ==
  /\ Backoff \in Seq(Nat) /\ Backoff # <<>>
  /\ Limit \in Nat \ {0}
  /\ {MaxTrouble, MaxStops, MaxForced, MaxDelay} \subseteq Nat
  /\ \A i \in DOMAIN Backoff : Backoff[i] <= MaxDelay

\* A row stands for one event on its way to one receiver.
Delivery == Event \X Url

VARIABLES
  recorded,   \* events whose audit record is on disk
  enq,        \* deliveries the recording threads have still to insert
  row,        \* the table
  process,    \* "up", "stopping" (lifespan shutdown has begun), "down"
  store,      \* "open", or "closed" once shutdown_webhooks has run
  pc,         \* the worker
  todo,       \* rows of take_due still to be delivered, as they were read
  cur,        \* the row in _deliver_one
  cli,        \* the row each `webhook retry' has read in force_retry
  posts,      \* history: POSTs of each delivery
  accepted,   \* history: deliveries some receiver has accepted
  lost,       \* history: POSTs whose outcome never reached the table
  forced,     \* history: forced retries of each delivery
  age,        \* history: time since the last POST, up to the longest delay, while
              \* the schedule has a retry left
  trouble,    \* failing statements and crashes so far
  stops       \* orderly shutdowns so far

history == <<posts, accepted, lost, forced, age>>
worker == <<pc, todo, cur>>
vars == <<recorded, enq, row, process, store, worker, cli, history, trouble,
          stops>>

NoRow == [status |-> "none", attempts |-> 0, wait |-> 0]
Pending(n, w) == [status |-> "pending", attempts |-> n, wait |-> w]
Delivered(n) == [status |-> "delivered", attempts |-> n, wait |-> 0]
GivenUp(n) == [status |-> "giving_up", attempts |-> n, wait |-> 0]

\* A row read from the table: which one, and the attempts it had then.
Nothing == [d |-> <<>>, attempts |-> 0]
Read(d) == [d |-> d, attempts |-> row[d].attempts]

Init ==
  /\ recorded = {}
  /\ enq = {}
  /\ row = [d \in Delivery |-> NoRow]
  /\ process = "up"
  /\ store = "open"
  /\ pc = "idle" /\ todo = <<>> /\ cur = Nothing
  /\ cli = [o \in Operator |-> Nothing]
  /\ posts = [d \in Delivery |-> 0]
  /\ accepted = {}
  /\ lost = [d \in Delivery |-> 0]
  /\ forced = [d \in Delivery |-> 0]
  /\ age = [d \in Delivery |-> MaxDelay]
  /\ trouble = 0
  /\ stops = 0

\* sqlite3 refuses a statement.
DbError ==
  /\ "db_error" \in Faults
  /\ store = "open"
  /\ trouble < MaxTrouble
  /\ trouble' = trouble + 1

\* UPDATE ... WHERE id=?, whatever the row's status is.  After close() the update
\* is looked up in an empty dict.
UpdateOutcome(d, r) == row' = IF store = "open" THEN [row EXCEPT ![d] = r] ELSE row

----------------------------------------------------------------------------
(* enqueue_event_for_delivery.                                             *)

\* audit.record has the line on disk and calls enqueue_event_for_delivery; the
\* poller thread does so even after shutdown_webhooks.
Record(e) ==
  /\ process # "down"
  /\ e \notin recorded
  /\ recorded' = recorded \cup {e}
  /\ enq' = IF store = "open" THEN enq \cup ({e} \X Url) ELSE enq
  /\ UNCHANGED <<row, process, store, worker, cli, history,
                 trouble, stops>>

\* One INSERT per URL; an error is logged and forgotten.
Insert(d) ==
  /\ d \in enq
  /\ enq' = enq \ {d}
  /\ \/ UpdateOutcome(d, Pending(0, 0)) /\ UNCHANGED trouble
     \/ DbError /\ UNCHANGED row
  /\ UNCHANGED <<recorded, process, store, worker, cli, history, stops>>

----------------------------------------------------------------------------
(* The worker thread.                                                      *)

\* Mutant of Due: rows that have been tried are not selected again.
DueOnce ==
  {d \in Delivery : row[d].status = "pending" /\ row[d].wait = 0 /\ row[d].attempts = 0}

\* Rows the SELECT of take_due returns before LIMIT.
Due == {d \in Delivery : row[d].status = "pending" /\ row[d].wait = 0}

\* take_due: some Limit of the due rows, as they are now.
TakeDue ==
  /\ pc = "idle"
  /\ process = "up"
  /\ \E n \in 0..Limit : \E f \in [1..n -> Due] :
       /\ \A i, j \in 1..n : f[i] = f[j] => i = j
       /\ n = Limit \/ n = Cardinality(Due)
       /\ todo' = [i \in 1..n |-> Read(f[i])]
  /\ pc' = "tick"
  /\ UNCHANGED <<recorded, enq, row, process, store, cur, cli, history,
                 trouble, stops>>

\* All rows tried, or the stop event seen before the next one.
EndTick ==
  /\ pc = "tick"
  /\ todo = <<>> \/ process = "stopping"
  /\ pc' = "idle"
  /\ todo' = <<>>
  /\ UNCHANGED <<recorded, enq, row, process, store, cur, cli, history,
                 trouble, stops>>

\* The age of the n-th POST when it is made.
FreshAge(n) == IF n < Len(Backoff) THEN 0 ELSE MaxDelay

\* Mutant of Post: every answer counts as a delivery.
PostAnyAnswer ==
  /\ pc = "tick"
  /\ process = "up"
  /\ todo # <<>>
  /\ cur' = Head(todo)
  /\ todo' = Tail(todo)
  /\ pc' = "ok"
  /\ accepted' \in {accepted, accepted \cup {cur'.d}}
  /\ posts' = [posts EXCEPT ![cur'.d] = @ + 1]
  /\ age' = [age EXCEPT ![cur'.d] = FreshAge(posts[cur'.d] + 1)]
  /\ UNCHANGED <<recorded, enq, row, process, store, cli, lost, forced,
                 trouble, stops>>

\* The POST: accepted with 2xx; accepted and the answer lost; or not accepted.
Post ==
  /\ pc = "tick"
  /\ process = "up"
  /\ todo # <<>>
  /\ cur' = Head(todo)
  /\ todo' = Tail(todo)
  /\ \/ pc' = "ok" /\ accepted' = accepted \cup {cur'.d}
     \/ pc' = "bad" /\ "lost_response" \in Faults /\ accepted' = accepted \cup {cur'.d}
     \/ pc' = "bad" /\ UNCHANGED accepted
  /\ posts' = [posts EXCEPT ![cur'.d] = @ + 1]
  /\ age' = [age EXCEPT ![cur'.d] = FreshAge(posts[cur'.d] + 1)]
  /\ UNCHANGED <<recorded, enq, row, process, store, cli, lost, forced,
                 trouble, stops>>

\* The outcome did not reach the table.
Lose(d) == lost' = [lost EXCEPT ![d] = @ + 1]

\* update_outcome(delivered).
RecordDelivered ==
  /\ pc = "ok"
  /\ UpdateOutcome(cur.d, Delivered(cur.attempts + 1))
  /\ IF store = "open" THEN UNCHANGED lost ELSE Lose(cur.d)
  /\ pc' = "tick"
  /\ cur' = Nothing
  /\ UNCHANGED <<recorded, enq, process, store, todo, cli, posts, accepted, forced, age, trouble, stops>>

\* It stands inside the try block of the POST: when it raises, the delivery is
\* handled as a failure although the receiver has it.
RecordDeliveredRaises ==
  /\ pc = "ok"
  /\ DbError
  /\ pc' = "bad"
  /\ UNCHANGED <<recorded, enq, row, process, store, todo, cur, cli, history,
                 stops>>

\* Mutant of FailedRow: the comparison is off by one.
FailedRowEarly(n) ==
  IF n >= Len(Backoff) - 1 THEN GivenUp(n) ELSE Pending(n, Backoff[n + 1])

\* Mutant of FailedRow: retry at once.
FailedRowAtOnce(n) ==
  IF n >= Len(Backoff) THEN GivenUp(n) ELSE Pending(n, 0)

\* What _handle_failure writes after the n-th attempt.
FailedRow(n) ==
  IF n >= Len(Backoff) THEN GivenUp(n) ELSE Pending(n, Backoff[n + 1])

\* _handle_failure up to its update_outcome; the worker goes on at next when it has
\* given up.
HandleFailureThen(next) ==
  LET n == cur.attempts + 1
      giveup == FailedRow(n).status = "giving_up"
  IN /\ pc = "bad"
     /\ UpdateOutcome(cur.d, FailedRow(n))
     /\ IF store = "open" THEN UNCHANGED lost ELSE Lose(cur.d)
     /\ pc' = IF giveup THEN next ELSE "tick"
     /\ cur' = IF pc' = "giveup" THEN cur ELSE Nothing
     /\ UNCHANGED <<recorded, enq, process, store, todo, cli, posts, accepted, forced, age, trouble, stops>>

HandleFailure == HandleFailureThen("giveup")

\* It raises: run() logs it and drops the rest of the tick.
HandleFailureRaises ==
  /\ pc = "bad"
  /\ DbError
  /\ Lose(cur.d)
  /\ pc' = "idle" /\ todo' = <<>> /\ cur' = Nothing
  /\ UNCHANGED <<recorded, enq, row, process, store, cli, posts, accepted, forced, age, stops>>

\* The WEBHOOK_GIVEUP record, written or not: a failing audit write is logged and
\* forgotten.
RecordGiveup ==
  /\ pc = "giveup"
  /\ pc' = "tick"
  /\ cur' = Nothing
  /\ UNCHANGED <<recorded, enq, row, process, store, todo, cli, history, trouble, stops>>

----------------------------------------------------------------------------
(* `skr-crypto webhook retry': force_retry over a connection of its own.   *)

\* Mutant of RetryRead: any row may be retried.
RetryReadAny(o, d) ==
  /\ cli[o] = Nothing
  /\ row[d].status # "none"
  /\ forced[d] < MaxForced
  /\ cli' = [cli EXCEPT ![o] = Read(d)]
  /\ UNCHANGED <<recorded, enq, row, process, store, worker, history,
                 trouble, stops>>

\* force_retry has read a row that may be retried.
RetryRead(o, d) ==
  /\ cli[o] = Nothing
  /\ row[d].status = "giving_up"
  /\ forced[d] < MaxForced
  /\ cli' = [cli EXCEPT ![o] = Read(d)]
  /\ UNCHANGED <<recorded, enq, row, process, store, worker, history,
                 trouble, stops>>

\* attempts is not reset.
Forced(r) == Pending(r.attempts, 0)

RetryWrite(o) ==
  LET d == cli[o].d
  IN /\ cli[o] # Nothing
     /\ row' = [row EXCEPT ![d] = Forced(cli[o])]
     /\ forced' = [forced EXCEPT ![d] = @ + 1]
     /\ cli' = [cli EXCEPT ![o] = Nothing]
     /\ UNCHANGED <<recorded, enq, process, store, worker, posts, accepted, lost, age, trouble, stops>>

----------------------------------------------------------------------------
(* Time and the life cycle of the service.                                 *)

Advance ==
  /\ \/ \E d \in Delivery : row[d].wait > 0
     \/ \E d \in Delivery : age[d] < MaxDelay
  /\ row' = [d \in Delivery |->
               [row[d] EXCEPT !.wait = IF @ > 0 THEN @ - 1 ELSE 0]]
  /\ age' = [d \in Delivery |-> IF age[d] < MaxDelay THEN age[d] + 1 ELSE MaxDelay]
  /\ UNCHANGED <<recorded, enq, process, store, worker, cli, posts, accepted, lost, forced, trouble, stops>>

\* shutdown_webhooks: set the stop event and close the store, without a join.  The
\* handlers have returned; the worker and the poller are still running, and may be
\* between their record and its INSERTs, which then find no store.
Shutdown ==
  /\ process = "up"
  /\ stops < MaxStops
  /\ stops' = stops + 1
  /\ process' = "stopping"
  /\ store' = "closed"
  /\ UNCHANGED <<recorded, enq, row, worker, cli, history, trouble>>

\* The process ends, after Shutdown or by a crash; its threads go with it.
Exit ==
  /\ process # "down"
  /\ process = "stopping" \/ trouble < MaxTrouble
  /\ trouble' = IF process = "stopping" THEN trouble ELSE trouble + 1
  /\ process' = "down"
  /\ store' = "closed"
  /\ enq' = {}
  /\ pc' = "idle" /\ todo' = <<>> /\ cur' = Nothing
  /\ IF pc \in {"ok", "bad"} THEN Lose(cur.d) ELSE UNCHANGED lost
  /\ UNCHANGED <<recorded, row, cli, posts, accepted, forced, age, stops>>

\* init_webhooks in the next process; the table is as it was left.
Start ==
  /\ process = "down"
  /\ process' = "up"
  /\ store' = "open"
  /\ UNCHANGED <<recorded, enq, row, worker, cli, history,
                 trouble, stops>>

----------------------------------------------------------------------------

Worker ==
  \/ TakeDue \/ EndTick \/ Post
  \/ RecordDelivered \/ RecordDeliveredRaises
  \/ HandleFailure \/ HandleFailureRaises \/ RecordGiveup

Enqueue == (\E e \in Event : Record(e)) \/ (\E d \in Delivery : Insert(d))

Retry == \E o \in Operator : RetryWrite(o) \/ \E d \in Delivery : RetryRead(o, d)

Next == Worker \/ Enqueue \/ Retry \/ Advance \/ Shutdown \/ Exit \/ Start

Spec == Init /\ [][Next]_vars

\* While the process is up its worker is scheduled, time passes, and the INSERTs
\* of a record that has been written are executed.
FairSpec ==
  /\ Spec
  /\ WF_vars(Worker)
  /\ WF_vars(Advance)
  /\ \A d \in Delivery : WF_vars(Insert(d))

----------------------------------------------------------------------------
(* Properties.                                                             *)

Row == [status : {"none", "pending", "delivered", "giving_up"},
        attempts : Nat, wait : 0..MaxDelay]

ReadRow == [d : Delivery, attempts : Nat]

\* Every variable has the values the code can give it.
TypeOK ==
  /\ recorded \subseteq Event
  /\ enq \subseteq Delivery
  /\ row \in [Delivery -> Row]
  /\ process \in {"up", "stopping", "down"}
  /\ store \in {"open", "closed"}
  /\ pc \in {"idle", "tick", "ok", "bad", "giveup"}
  /\ todo \in Seq(ReadRow)
  /\ cur \in ReadRow \cup {Nothing}
  /\ pc \in {"ok", "bad", "giveup"} => cur \in ReadRow
  /\ cli \in [Operator -> ReadRow \cup {Nothing}]
  /\ posts \in [Delivery -> Nat] /\ lost \in [Delivery -> Nat]
  /\ forced \in [Delivery -> Nat]
  /\ accepted \subseteq Delivery
  /\ age \in [Delivery -> 0..MaxDelay]
  /\ trouble \in 0..MaxTrouble /\ stops \in 0..MaxStops

\* A row marked delivered was accepted by its receiver, whatever restarts,
\* failing statements and forced retries it went through.
DeliveredWasAccepted ==
  \A d \in Delivery : row[d].status = "delivered" => d \in accepted

\* Nothing is given up before the receiver has been tried once per entry of the
\* backoff schedule, however often the process was restarted in between; and a broken
\* receiver is not hammered: beyond that a delivery is posted at most once per forced
\* retry and once per outcome that a crash, a shutdown or a failing statement kept
\* from the table.
AttemptsMatchSchedule ==
  \A d \in Delivery :
    /\ row[d].status = "giving_up" => posts[d] >= Len(Backoff)
    /\ posts[d] <= Len(Backoff) + forced[d] + lost[d]

\* While every outcome reached the table, the n-th retry comes no sooner than the
\* n-th delay of the schedule after the attempt before it.
BackoffIsKept ==
  [][\A d \in Delivery :
       /\ posts'[d] # posts[d]
       /\ posts[d] \in 1..Len(Backoff) - 1
       /\ lost[d] = 0
       => age[d] >= Backoff[posts[d] + 1]]_vars

\* A delivered row stays delivered, and nothing posts the event to its receiver again,
\* but for one case: two `webhook retry' of the row overlap, the row is delivered between
\* the read and the unguarded UPDATE of one of them because the other had reset it, and
\* that UPDATE makes it pending again (force_retry).  Neither the worker, with rows it read
\* a tick ago, nor a lone retry, nor a restart takes a delivery back.
DeliveredIsFinal ==
  [][\A d \in Delivery :
       row[d].status = "delivered" /\ row'[d] # row[d] =>
         /\ forced[d] > 0
         /\ \E o \in Operator : cli[o].d = d /\ cli'[o] = Nothing]_vars

\* Every row reaches its receiver or is given up, once the service stays up,
\* whatever crash, shutdown or failing statement interrupted it before.
EveryDeliveryEnds ==
  <>[](process = "up") =>
    \A d \in Delivery :
      row[d].status = "pending" ~> row[d].status \in {"delivered", "giving_up"}

============================================================================
