--------------------------- MODULE DeliveryProofs ---------------------------
(***************************************************************************)
(* Theorems about the two delivery queues.                                 *)
(*                                                                         *)
(* About Webhooks (Spec): for any set of events and receivers, any         *)
(* schedule, any number of concurrent `webhook retry' processes, failing   *)
(* statements, lost answers, shutdowns without a join, crashes and         *)
(* restarts.                                                               *)
(*                                                                         *)
(* About Alerts (AlertSpec): for any events, rules, quiet hours and length *)
(* of the day.  Its queue is the one of Webhooks, and what is shown of its *)
(* steps in the first part is used in the second.                          *)
(***************************************************************************)
EXTENDS Alerts, SequenceTheorems, TLAPS

----------------------------------------------------------------------------
(* Webhooks: the inductive invariant.                                      *)

\* A delivery that has been posted and whose outcome is still to be written.
Flying(d) == pc \in {"ok", "bad"} /\ cur.d = d

InFlight(d) == IF Flying(d) THEN 1 ELSE 0

\* A row r against what has happened to its delivery: p POSTs, f forced retries, l lost
\* outcomes, a intervals since the last POST, and i = 1 while one is in flight.
Consistent(r, p, f, l, a, i) ==
  /\ r.status = "none" => r.attempts = 0 /\ p = 0 /\ f = 0
  /\ r.status # "pending" => r.wait = 0 /\ i = 0
  /\ r.status = "giving_up" => r.attempts >= Len(Backoff)
  /\ f > 0 => r.attempts >= Len(Backoff)
  /\ p < Len(Backoff) => r.attempts + i <= p
  /\ p <= Len(Backoff) + f + l
  /\ r.status = "pending" => p <= r.attempts + f + l + i /\ p < Len(Backoff) + f + l + i
  /\ r.status = "pending" /\ i = 0 /\ l = 0 /\ p \in 1..Len(Backoff) - 1
       => a + r.wait >= Backoff[p + 1]

DeliveryInv(d) ==
  /\ row[d].status = "delivered" => d \in accepted
  /\ Consistent(row[d], posts[d], forced[d], lost[d], age[d], InFlight(d))

TableInv == \A d \in Delivery : DeliveryInv(d)

\* A row the worker has read is still pending and due; if a forced retry has
\* written it since, neither that nor what was read has attempts left.
StillDue(r) ==
  /\ row[r.d].status = "pending" /\ row[r.d].wait = 0
  /\ \/ r.attempts = row[r.d].attempts
     \/ r.attempts >= Len(Backoff) /\ row[r.d].attempts >= Len(Backoff)

WorkerInv ==
  /\ \A i, j \in DOMAIN todo : todo[i].d = todo[j].d => i = j
  /\ \A i \in DOMAIN todo : StillDue(todo[i]) /\ ~ Flying(todo[i].d)
  /\ pc \in {"ok", "bad"} => StillDue(cur)
  /\ pc = "ok" => cur.d \in accepted

\* An event is recorded once, so its rows are inserted once.
EnqueueInv ==
  /\ \A d \in enq : row[d].status = "none"
  /\ \A d \in Delivery : d \in enq \/ row[d].status # "none" => d[1] \in recorded

\* What `webhook retry' has read was given up, and no later write takes that back.
RetryInv ==
  \A o \in Operator : cli[o] # Nothing =>
    cli[o].attempts >= Len(Backoff) /\ row[cli[o].d].attempts >= Len(Backoff)

WebhooksInv == TypeOK /\ TableInv /\ WorkerInv /\ EnqueueInv /\ RetryInv

\* A row that is about to be reset is still given up, unless another retry has reset it.
OverlapInv ==
  \A o \in Operator : cli[o] # Nothing =>
    row[cli[o].d].status = "giving_up" \/ forced[cli[o].d] > 0

\* _handle_failure of the alert worker goes on without an audit record when it gives up
\* (Alerts), and otherwise the two queues take the same steps.
Outcome == RecordDelivered \/ HandleFailure \/ HandleFailureThen("tick")

Step == [Next \/ HandleFailureThen("tick")]_vars

----------------------------------------------------------------------------
(* The steps of the worker.                                                *)

\* The schedule has a first entry, and no delay is longer than MaxDelay.
LEMMA Schedule ==
  /\ Len(Backoff) \in Nat \ {0}
  /\ \A i \in 1..Len(Backoff) : Backoff[i] \in 0..MaxDelay
<1>1. Backoff \in Seq(Nat) /\ Backoff # <<>>
  BY WebhooksAssumption
<1>2. Len(Backoff) \in Nat /\ DOMAIN Backoff = 1..Len(Backoff) /\ Len(Backoff) # 0
  BY <1>1, EmptySeq
<1>3. \A i \in 1..Len(Backoff) : Backoff[i] \in Nat /\ Backoff[i] <= MaxDelay
  BY <1>1, <1>2, WebhooksAssumption
<1> QED
  BY <1>2, <1>3, WebhooksAssumption

\* The bounds are natural numbers.
LEMMA Bounds == MaxTrouble \in Nat /\ MaxStops \in Nat /\ MaxForced \in Nat /\ MaxDelay \in Nat
BY WebhooksAssumption

USE Bounds

\* A row the worker has read is of the table.
LEMMA ReadRows ==
  ASSUME TypeOK
  PROVE  /\ \A i \in DOMAIN todo : todo[i] \in ReadRow
         /\ \A r \in ReadRow : r.d \in Delivery /\ r.attempts \in Nat
         /\ pc \in {"ok", "bad", "giveup"} => cur.d \in Delivery /\ cur.attempts \in Nat
         /\ \A d \in Delivery : /\ row[d] \in Row /\ row[d].attempts \in Nat
                                /\ row[d].wait \in Nat /\ posts[d] \in Nat
                                /\ lost[d] \in Nat /\ forced[d] \in Nat
                                /\ age[d] \in 0..MaxDelay
<1>1. \A i \in DOMAIN todo : todo[i] \in ReadRow
  BY DEF TypeOK
<1>2. \A r \in ReadRow : r.d \in Delivery /\ r.attempts \in Nat
  BY DEF ReadRow
<1>3. pc \in {"ok", "bad", "giveup"} => cur \in ReadRow
  BY DEF TypeOK
<1>4. \A d \in Delivery : row[d] \in Row /\ posts[d] \in Nat /\ lost[d] \in Nat
                          /\ forced[d] \in Nat /\ age[d] \in 0..MaxDelay
  BY DEF TypeOK
<1>5. \A d \in Delivery : row[d].attempts \in Nat /\ row[d].wait \in Nat
  BY <1>4 DEF Row
<1> QED
  BY <1>1, <1>2, <1>3, <1>4, <1>5

\* take_due reads distinct rows that are pending and due.
LEMMA TakeDueFacts ==
  ASSUME TypeOK, TakeDue
  PROVE  /\ pc = "idle" /\ pc' = "tick" /\ todo' \in Seq(ReadRow)
         /\ \A i, j \in DOMAIN todo' : todo'[i].d = todo'[j].d => i = j
         /\ \A i \in DOMAIN todo' : StillDue(todo'[i])
         /\ UNCHANGED <<recorded, enq, row, process, store, cur, cli, posts, accepted,
                        lost, forced, age, trouble, stops>>
<1>1. PICK n \in 0..Limit : \E f \in [1..n -> Due] :
        /\ \A i, j \in 1..n : f[i] = f[j] => i = j
        /\ todo' = [i \in 1..n |-> Read(f[i])]
  BY DEF TakeDue
<1>2. PICK f \in [1..n -> Due] :
        /\ \A i, j \in 1..n : f[i] = f[j] => i = j
        /\ todo' = [i \in 1..n |-> Read(f[i])]
  BY <1>1
<1>3. DOMAIN todo' = 1..n /\ \A i \in 1..n : todo'[i] = Read(f[i])
  BY <1>2
<1>4. \A i \in 1..n : f[i] \in Delivery /\ row[f[i]].status = "pending" /\ row[f[i]].wait = 0
  BY <1>2 DEF Due
<1>5. \A i \in 1..n : todo'[i].d = f[i] /\ todo'[i].attempts = row[f[i]].attempts
  BY <1>3 DEF Read
<1>6. \A i \in 1..n : todo'[i] \in ReadRow
  <2>1. \A d \in Delivery : Read(d) \in ReadRow
    <3>1. \A d \in Delivery : row[d].attempts \in Nat
      BY ReadRows
    <3> QED
      BY <3>1 DEF Read, ReadRow
  <2> QED
    BY <1>3, <1>4, <2>1
<1>7. todo' \in Seq(ReadRow)
  BY <1>2, <1>3, <1>6
<1>8. \A i, j \in DOMAIN todo' : todo'[i].d = todo'[j].d => i = j
  BY <1>2, <1>3, <1>5
<1>9. \A i \in DOMAIN todo' : StillDue(todo'[i])
  BY <1>3, <1>4, <1>5 DEF StillDue
<1> QED
  BY <1>7, <1>8, <1>9 DEF TakeDue, history

\* The POST is of the first row of the queue, which no other entry names.
LEMMA PostFacts ==
  ASSUME TypeOK, WorkerInv, Post
  PROVE  /\ pc = "tick" /\ pc' \in {"ok", "bad"} /\ process = "up"
         /\ cur' \in ReadRow /\ StillDue(cur') /\ todo' \in Seq(ReadRow)
         /\ \A i \in DOMAIN todo' : i \in Nat /\ i + 1 \in DOMAIN todo
                                    /\ todo'[i] = todo[i + 1] /\ todo'[i].d # cur'.d
         /\ pc' = "ok" => cur'.d \in accepted'
         /\ accepted \subseteq accepted' /\ accepted' \subseteq Delivery
         /\ posts' = [posts EXCEPT ![cur'.d] = @ + 1]
         /\ age' = [age EXCEPT ![cur'.d] = FreshAge(posts[cur'.d] + 1)]
         /\ UNCHANGED <<recorded, enq, row, process, store, cli, lost, forced,
                        trouble, stops>>
<1>1. todo \in Seq(ReadRow) /\ todo # <<>> /\ cur' = Head(todo) /\ todo' = Tail(todo)
  BY DEF TypeOK, Post
<1>2. cur' = todo[1] /\ 1 \in DOMAIN todo /\ todo' \in Seq(ReadRow)
  BY <1>1
<1>3. \A i \in DOMAIN todo' : /\ i \in Nat \ {0} /\ i + 1 \in DOMAIN todo
                              /\ todo'[i] = todo[i + 1]
  BY <1>1
<1>4. \A i \in DOMAIN todo' : todo'[i].d # cur'.d
  <2> SUFFICES ASSUME NEW i \in DOMAIN todo', todo'[i].d = cur'.d PROVE FALSE
    OBVIOUS
  <2>1. i + 1 = 1
    BY <1>2, <1>3 DEF WorkerInv
  <2> QED
    BY <1>3, <2>1
<1>5. cur' \in ReadRow /\ cur'.d \in Delivery
  BY <1>2, ReadRows
<1>6. StillDue(cur')
  BY <1>2 DEF WorkerInv
<1>7. /\ pc' = "ok" => cur'.d \in accepted'
      /\ accepted \subseteq accepted' /\ accepted' \subseteq Delivery
      /\ pc' \in {"ok", "bad"}
  BY <1>5 DEF Post, TypeOK
<1> QED
  BY <1>2, <1>3, <1>4, <1>5, <1>6, <1>7 DEF Post

\* The row that an outcome becomes.
OutcomeRow ==
  IF pc = "ok" THEN Delivered(cur.attempts + 1) ELSE FailedRow(cur.attempts + 1)

\* RecordDelivered and _handle_failure write the outcome, or find the store closed.
LEMMA OutcomeFacts ==
  ASSUME TypeOK, Outcome
  PROVE  /\ pc \in {"ok", "bad"} /\ pc' \in {"tick", "giveup"} /\ cur.d \in Delivery
         /\ cur.attempts \in Nat
         /\ OutcomeRow \in Row /\ OutcomeRow.attempts = cur.attempts + 1
         /\ pc = "ok" => OutcomeRow.status = "delivered"
         /\ pc = "bad" =>
              IF cur.attempts + 1 >= Len(Backoff)
              THEN OutcomeRow.status = "giving_up"
              ELSE /\ OutcomeRow.status = "pending"
                   /\ OutcomeRow.wait = Backoff[cur.attempts + 2]
         /\ OutcomeRow.status # "pending" => OutcomeRow.wait = 0
         /\ store = "open" => row' = [row EXCEPT ![cur.d] = OutcomeRow] /\ lost' = lost
         /\ store # "open" => row' = row /\ lost' = [lost EXCEPT ![cur.d] = @ + 1]
         /\ pc' = "giveup" => cur' = cur
         /\ pc' = "tick" => cur' = Nothing
         /\ UNCHANGED <<recorded, enq, process, store, todo, cli, posts, accepted, forced,
                        age, trouble, stops>>
<1>1. pc \in {"ok", "bad"} /\ cur.d \in Delivery /\ cur.attempts \in Nat
  BY ReadRows DEF Outcome, RecordDelivered, HandleFailure, HandleFailureThen
<1> DEFINE n == cur.attempts + 1
<1>2. n \in Nat /\ n + 1 = cur.attempts + 2 /\ Len(Backoff) \in Nat
  BY <1>1, Schedule
<1>3. Delivered(n) \in Row /\ Delivered(n).attempts = n /\ Delivered(n).status = "delivered"
      /\ Delivered(n).wait = 0
  BY <1>2 DEF Delivered, Row
<1>4. GivenUp(n) \in Row /\ GivenUp(n).attempts = n /\ GivenUp(n).status = "giving_up"
      /\ GivenUp(n).wait = 0
  BY <1>2 DEF GivenUp, Row
<1>5. n < Len(Backoff) =>
        LET p == Pending(n, Backoff[n + 1])
        IN p \in Row /\ p.attempts = n /\ p.status = "pending" /\ p.wait = Backoff[n + 1]
  <2>1. n < Len(Backoff) => Backoff[n + 1] \in 0..MaxDelay
    BY <1>2, Schedule
  <2> QED
    BY <1>2, <2>1 DEF Pending, Row
<1>6. IF n >= Len(Backoff) THEN FailedRow(n) = GivenUp(n)
      ELSE n < Len(Backoff) /\ FailedRow(n) = Pending(n, Backoff[n + 1])
  BY <1>2 DEF FailedRow
<1>7. /\ OutcomeRow \in Row /\ OutcomeRow.attempts = n
      /\ pc = "ok" => OutcomeRow.status = "delivered"
      /\ pc = "bad" =>
           IF n >= Len(Backoff)
           THEN OutcomeRow.status = "giving_up"
           ELSE OutcomeRow.status = "pending" /\ OutcomeRow.wait = Backoff[n + 1]
      /\ OutcomeRow.status # "pending" => OutcomeRow.wait = 0
  <2>1. CASE pc = "ok"
    BY <1>3, <2>1 DEF OutcomeRow
  <2>2. CASE pc = "bad"
    BY <1>4, <1>5, <1>6, <2>2 DEF OutcomeRow
  <2> QED
    BY <1>1, <2>1, <2>2
<1> HIDE DEF n
<1>8. CASE RecordDelivered
  <2>1. UpdateOutcome(cur.d, OutcomeRow) /\ pc' = "tick" /\ cur' = Nothing
    BY <1>8 DEF RecordDelivered, OutcomeRow
  <2> QED
    BY <1>1, <1>2, <1>7, <1>8, <2>1 DEF RecordDelivered, UpdateOutcome, Lose, n
<1>9. CASE HandleFailure \/ HandleFailureThen("tick")
  <2>1. PICK next \in {"giveup", "tick"} : HandleFailureThen(next)
    BY <1>9 DEF HandleFailure
  <2>2. UpdateOutcome(cur.d, OutcomeRow)
    BY <2>1 DEF HandleFailureThen, OutcomeRow
  <2>3. /\ pc' \in {"tick", "giveup"}
        /\ pc' = "giveup" => cur' = cur
        /\ pc' = "tick" => cur' = Nothing
    BY <2>1 DEF HandleFailureThen
  <2> QED
    BY <1>1, <1>2, <1>7, <2>1, <2>2, <2>3 DEF HandleFailureThen, UpdateOutcome, Lose, n
<1> QED
  BY <1>8, <1>9 DEF Outcome

\* An interval shortens every wait and ages every POST.
LEMMA AdvanceFacts ==
  ASSUME TypeOK, Advance
  PROVE  \A d \in Delivery :
           /\ row'[d].status = row[d].status /\ row'[d].attempts = row[d].attempts
           /\ row'[d].wait = IF row[d].wait > 0 THEN row[d].wait - 1 ELSE 0
           /\ row[d].wait = 0 => row'[d] = row[d]
           /\ age'[d] = IF age[d] < MaxDelay THEN age[d] + 1 ELSE MaxDelay
<1> SUFFICES ASSUME NEW d \in Delivery
             PROVE  /\ row'[d].status = row[d].status /\ row'[d].attempts = row[d].attempts
                    /\ row'[d].wait = IF row[d].wait > 0 THEN row[d].wait - 1 ELSE 0
                    /\ row[d].wait = 0 => row'[d] = row[d]
                    /\ age'[d] = IF age[d] < MaxDelay THEN age[d] + 1 ELSE MaxDelay
  OBVIOUS
<1>1. row[d] \in Row
  BY ReadRows
<1>2. row'[d] = [row[d] EXCEPT !.wait = IF @ > 0 THEN @ - 1 ELSE 0]
  BY DEF Advance
<1>3. age'[d] = IF age[d] < MaxDelay THEN age[d] + 1 ELSE MaxDelay
  BY DEF Advance
<1>4. PICK w : w = IF row[d].wait > 0 THEN row[d].wait - 1 ELSE 0
  OBVIOUS
<1>5. row'[d] = [row[d] EXCEPT !.wait = w]
  BY <1>2, <1>4
<1>6. row'[d].status = row[d].status /\ row'[d].attempts = row[d].attempts /\ row'[d].wait = w
  BY <1>1, <1>5 DEF Row
<1>7. row[d].wait = 0 => row'[d] = row[d]
  BY <1>1, <1>4, <1>5 DEF Row
<1> QED
  BY <1>3, <1>4, <1>6, <1>7

----------------------------------------------------------------------------
(* Each part of the invariant is inductive relative to the others.         *)

\* TypeOK is inductive relative to WorkerInv.
LEMMA TypeStep ==
  ASSUME TypeOK, WorkerInv, EnqueueInv, Step
  PROVE  TypeOK'
<1> USE DEF worker, history
<1>1. CASE TakeDue
  BY <1>1, TakeDueFacts DEF TypeOK
<1>2. CASE EndTick
  <2>1. <<>> \in Seq(ReadRow)
    OBVIOUS
  <2> QED
    BY <1>2, <2>1 DEF EndTick, TypeOK
<1>3. CASE Post
  <2>1. cur'.d \in Delivery
    BY <1>3, PostFacts, ReadRows
  <2>2. posts' \in [Delivery -> Nat] /\ age' \in [Delivery -> 0..MaxDelay]
    <3>1. posts \in [Delivery -> Nat] /\ age \in [Delivery -> 0..MaxDelay]
      BY DEF TypeOK
    <3>2. /\ posts' = [posts EXCEPT ![cur'.d] = @ + 1]
          /\ age' = [age EXCEPT ![cur'.d] = FreshAge(posts[cur'.d] + 1)]
      BY <1>3, PostFacts
    <3>3. FreshAge(posts[cur'.d] + 1) \in 0..MaxDelay
      BY DEF FreshAge
    <3> QED
      BY <2>1, <3>1, <3>2, <3>3
  <2> QED
    BY <1>3, <2>2, PostFacts DEF TypeOK
<1>4. CASE Outcome
  <2>1. row' \in [Delivery -> Row] /\ lost' \in [Delivery -> Nat]
    <3>1. row \in [Delivery -> Row] /\ lost \in [Delivery -> Nat] /\ cur.d \in Delivery
      BY <1>4, OutcomeFacts DEF TypeOK
    <3>2. CASE store = "open"
      BY <1>4, <3>1, <3>2, OutcomeFacts
    <3>3. CASE store # "open"
      <4>1. row' = row /\ lost' = [lost EXCEPT ![cur.d] = @ + 1]
        BY <1>4, <3>3, OutcomeFacts
      <4> QED
        BY <3>1, <4>1
    <3> QED
      BY <3>2, <3>3
  <2>2. cur' \in ReadRow \cup {Nothing} /\ (pc' \in {"ok", "bad", "giveup"} => cur' \in ReadRow)
    BY <1>4, OutcomeFacts DEF TypeOK
  <2> QED
    BY <1>4, <2>1, <2>2, OutcomeFacts DEF TypeOK
<1>5. CASE RecordDeliveredRaises
  BY <1>5 DEF RecordDeliveredRaises, DbError, TypeOK
<1>6. CASE HandleFailureRaises
  <2>1. cur.d \in Delivery
    BY <1>6, ReadRows DEF HandleFailureRaises
  <2>2. lost' \in [Delivery -> Nat]
    BY <1>6, <2>1 DEF HandleFailureRaises, Lose, TypeOK
  <2>3. <<>> \in Seq(ReadRow)
    OBVIOUS
  <2> QED
    BY <1>6, <2>2, <2>3 DEF HandleFailureRaises, DbError, TypeOK
<1>7. CASE RecordGiveup
  <2>1. cur.d \in Delivery
    BY <1>7, ReadRows DEF RecordGiveup
  <2> QED
    BY <1>7, <2>1 DEF RecordGiveup, TypeOK
<1>8. ASSUME NEW e \in Event, Record(e) PROVE TypeOK'
  <2>1. {e} \X Url \subseteq Delivery
    BY DEF Delivery
  <2> QED
    BY <1>8, <2>1 DEF Record, TypeOK
<1>9. ASSUME NEW d \in Delivery, Insert(d) PROVE TypeOK'
  <2>1. Pending(0, 0) \in Row
    BY DEF Pending, Row
  <2>2. row' \in [Delivery -> Row]
    BY <1>9, <2>1 DEF Insert, UpdateOutcome, TypeOK
  <2>3. trouble' \in 0..MaxTrouble
    BY <1>9 DEF Insert, DbError, TypeOK
  <2> QED
    BY <1>9, <2>2, <2>3 DEF Insert, TypeOK
<1>10. ASSUME NEW o \in Operator, RetryWrite(o) PROVE TypeOK'
  <2>1. cli[o].d \in Delivery /\ cli[o].attempts \in Nat
    BY <1>10, ReadRows DEF RetryWrite, TypeOK
  <2>2. Forced(cli[o]) \in Row
    BY <2>1 DEF Forced, Pending, Row
  <2>3. row' \in [Delivery -> Row] /\ forced' \in [Delivery -> Nat]
    <3>1. row \in [Delivery -> Row] /\ forced \in [Delivery -> Nat]
      BY DEF TypeOK
    <3> QED
      BY <1>10, <2>1, <2>2, <3>1 DEF RetryWrite
  <2>4. cli' \in [Operator -> ReadRow \cup {Nothing}]
    BY <1>10 DEF RetryWrite, TypeOK
  <2> QED
    BY <1>10, <2>3, <2>4 DEF RetryWrite, TypeOK
<1>11. ASSUME NEW o \in Operator, NEW d \in Delivery, RetryRead(o, d) PROVE TypeOK'
  <2>1. Read(d) \in ReadRow
    BY ReadRows DEF Read, ReadRow
  <2>2. cli' \in [Operator -> ReadRow \cup {Nothing}]
    BY <1>11, <2>1 DEF RetryRead, TypeOK
  <2> QED
    BY <1>11, <2>2 DEF RetryRead, TypeOK
<1>12. CASE Advance
  <2>1. \A d \in Delivery : [row[d] EXCEPT !.wait = IF @ > 0 THEN @ - 1 ELSE 0] \in Row
    <3>1. ASSUME NEW r \in Row
          PROVE  [r EXCEPT !.wait = IF @ > 0 THEN @ - 1 ELSE 0] \in Row
      <4>1. (IF r.wait > 0 THEN r.wait - 1 ELSE 0) \in 0..MaxDelay
        BY DEF Row
      <4> QED
        BY <4>1 DEF Row
    <3> QED
      BY <3>1, ReadRows
  <2>2. row' \in [Delivery -> Row]
    BY <1>12, <2>1 DEF Advance
  <2>3. age' \in [Delivery -> 0..MaxDelay]
    BY <1>12, ReadRows DEF Advance
  <2> QED
    BY <1>12, <2>2, <2>3 DEF Advance, TypeOK
<1>13. CASE Shutdown
  BY <1>13 DEF Shutdown, TypeOK
<1>14. CASE Exit
  <2>1. lost' \in [Delivery -> Nat]
    <3>1. CASE pc \in {"ok", "bad"}
      <4>1. lost \in [Delivery -> Nat] /\ cur.d \in Delivery
        BY <3>1, ReadRows DEF TypeOK
      <4> QED
        BY <1>14, <3>1, <4>1 DEF Exit, Lose
    <3>2. CASE pc \notin {"ok", "bad"}
      BY <1>14, <3>2 DEF Exit, TypeOK
    <3> QED
      BY <3>1, <3>2
  <2>2. <<>> \in Seq(ReadRow)
    OBVIOUS
  <2>3. trouble' \in 0..MaxTrouble
    BY <1>14 DEF Exit, TypeOK
  <2> QED
    BY <1>14, <2>1, <2>2, <2>3 DEF Exit, TypeOK
<1>15. CASE Start
  BY <1>15 DEF Start, TypeOK
<1>16. CASE UNCHANGED vars
  BY <1>16 DEF vars, TypeOK
<1> QED
  BY <1>1, <1>2, <1>3, <1>4, <1>5, <1>6, <1>7, <1>8, <1>9, <1>10, <1>11, <1>12, <1>13,
     <1>14, <1>15, <1>16 DEF Step, Outcome, Next, Worker, Enqueue, Retry

\* EnqueueInv is inductive: a row is inserted only for an event recorded just before.
LEMMA EnqueueStep ==
  ASSUME TypeOK, WorkerInv, EnqueueInv, RetryInv, TableInv, Step
  PROVE  EnqueueInv'
<1> DEFINE Same == /\ recorded' = recorded /\ enq' \subseteq enq
                   /\ \A d \in Delivery : row[d].status = "none" <=> row'[d].status = "none"
<1>1. ASSUME Same PROVE EnqueueInv'
  <2>1. enq \subseteq Delivery
    BY DEF TypeOK
  <2> QED
    BY <1>1, <2>1 DEF EnqueueInv
<1>2. ASSUME recorded' = recorded, enq' \subseteq enq, row' = row PROVE Same
  BY <1>2
<1>3. CASE TakeDue \/ EndTick \/ RecordDeliveredRaises \/ HandleFailureRaises \/ RecordGiveup
           \/ Post \/ Shutdown \/ Exit \/ Start \/ UNCHANGED vars
  BY <1>1, <1>2, <1>3 DEF TakeDue, EndTick, RecordDeliveredRaises, HandleFailureRaises,
     RecordGiveup, Post, Shutdown, Exit, Start, vars
<1>4. CASE Outcome
  <2>1. row[cur.d].status = "pending" /\ OutcomeRow.status # "none" /\ cur.d \in Delivery
    <3>1. pc \in {"ok", "bad"} /\ OutcomeRow.status \in {"pending", "delivered", "giving_up"}
          /\ cur.d \in Delivery
      BY <1>4, OutcomeFacts
    <3> QED
      BY <3>1 DEF WorkerInv, StillDue
  <2>2. Same
    <3>1. CASE store = "open"
      BY <1>4, <2>1, <3>1, OutcomeFacts DEF TypeOK
    <3>2. CASE store # "open"
      BY <1>4, <3>2, OutcomeFacts
    <3> QED
      BY <3>1, <3>2
  <2> QED
    BY <1>1, <2>2
<1>5. ASSUME NEW e \in Event, Record(e) PROVE EnqueueInv'
  <2>1. \A d \in {e} \X Url : d \in Delivery /\ d[1] = e
    BY DEF Delivery
  <2>2. \A d \in {e} \X Url : row[d].status = "none"
    BY <1>5, <2>1 DEF Record, EnqueueInv
  <2>3. recorded' = recorded \cup {e} /\ enq' \subseteq enq \cup ({e} \X Url) /\ row' = row
    BY <1>5 DEF Record
  <2> QED
    BY <2>1, <2>2, <2>3 DEF EnqueueInv
<1>6. ASSUME NEW d \in Delivery, Insert(d) PROVE EnqueueInv'
  <2>1. recorded' = recorded /\ enq' = enq \ {d} /\ d \in enq /\ enq \subseteq Delivery
    BY <1>6 DEF Insert, TypeOK
  <2>2. \A c \in Delivery \ {d} : row'[c] = row[c]
    BY <1>6 DEF Insert, UpdateOutcome, TypeOK
  <2> QED
    BY <2>1, <2>2 DEF EnqueueInv
<1>7. ASSUME NEW o \in Operator, RetryWrite(o) PROVE EnqueueInv'
  <2>1. cli[o].d \in Delivery /\ row[cli[o].d].attempts >= Len(Backoff)
    BY <1>7, ReadRows DEF RetryWrite, TypeOK, RetryInv
  <2>2. row[cli[o].d].status # "none"
    BY <2>1, Schedule DEF TableInv, DeliveryInv, Consistent
  <2>3. Forced(cli[o]).status = "pending"
    BY DEF Forced, Pending
  <2>4. Same
    BY <1>7, <2>1, <2>2, <2>3 DEF RetryWrite, TypeOK
  <2> QED
    BY <1>1, <2>4
<1>8. ASSUME NEW o \in Operator, NEW d \in Delivery, RetryRead(o, d) PROVE EnqueueInv'
  BY <1>1, <1>2, <1>8 DEF RetryRead
<1>9. CASE Advance
  <2>1. \A d \in Delivery : row'[d].status = row[d].status
    BY <1>9, AdvanceFacts
  <2>2. Same
    BY <1>9, <2>1 DEF Advance
  <2> QED
    BY <1>1, <2>2
<1> QED
  BY <1>3, <1>4, <1>5, <1>6, <1>7, <1>8, <1>9 DEF Step, Outcome, Next, Worker, Enqueue, Retry

\* RetryInv is inductive: once a delivery has used up its attempts, no write of the
\* worker or of another operator gives them back.
LEMMA RetryStep ==
  ASSUME TypeOK, TableInv, WorkerInv, EnqueueInv, RetryInv, Step
  PROVE  RetryInv'
<1> DEFINE Spent(d) == row[d].attempts >= Len(Backoff)
           Kept == \A d \in Delivery : Spent(d) => Spent(d)'
<1>1. \A o \in Operator : cli[o] # Nothing => cli[o].d \in Delivery /\ cli[o].attempts \in Nat
  BY ReadRows DEF TypeOK
<1>2. ASSUME Kept, cli' = cli PROVE RetryInv'
  BY <1>1, <1>2 DEF RetryInv
<1>3. CASE UNCHANGED <<row, cli>>
  BY <1>2, <1>3
<1>4. CASE TakeDue \/ EndTick \/ RecordDeliveredRaises \/ HandleFailureRaises \/ RecordGiveup
           \/ Post \/ Shutdown \/ Exit \/ Start \/ UNCHANGED vars
  BY <1>3, <1>4 DEF TakeDue, EndTick, RecordDeliveredRaises, HandleFailureRaises,
     RecordGiveup, Post, Shutdown, Exit, Start, vars
<1>5. CASE Outcome
  <2>1. Spent(cur.d) => OutcomeRow.attempts >= Len(Backoff)
    <3>1. pc \in {"ok", "bad"} /\ OutcomeRow.attempts = cur.attempts + 1 /\ cur.attempts \in Nat
      BY <1>5, OutcomeFacts
    <3>2. Spent(cur.d) => cur.attempts >= Len(Backoff)
      BY <3>1 DEF WorkerInv, StillDue
    <3> QED
      BY <3>1, <3>2, Schedule
  <2>2. row' = row \/ row' = [row EXCEPT ![cur.d] = OutcomeRow]
    BY <1>5, OutcomeFacts
  <2>3. Kept
    BY <2>1, <2>2 DEF TypeOK
  <2> QED
    BY <1>2, <1>5, <2>3, OutcomeFacts
<1>6. ASSUME NEW e \in Event, Record(e) PROVE RetryInv'
  BY <1>3, <1>6 DEF Record
<1>7. ASSUME NEW d \in Delivery, Insert(d) PROVE RetryInv'
  <2>1. ~ Spent(d)
    BY <1>7, Schedule DEF Insert, EnqueueInv, TableInv, DeliveryInv, Consistent
  <2>2. \A c \in Delivery \ {d} : row'[c] = row[c]
    BY <1>7 DEF Insert, UpdateOutcome, TypeOK
  <2> QED
    BY <1>2, <1>7, <2>1, <2>2 DEF Insert
<1>8. ASSUME NEW o \in Operator, RetryWrite(o) PROVE RetryInv'
  <2>1. cli[o] # Nothing
    BY <1>8 DEF RetryWrite
  <2>2. cli[o].d \in Delivery /\ cli[o].attempts >= Len(Backoff)
    BY <1>1, <2>1 DEF RetryInv
  <2>3. Forced(cli[o]).attempts = cli[o].attempts
    BY DEF Forced, Pending
  <2>4. Kept
    BY <1>8, <2>2, <2>3 DEF RetryWrite, TypeOK
  <2>5. \A p \in Operator : cli'[p] # Nothing => cli'[p] = cli[p]
    BY <1>8 DEF RetryWrite, TypeOK
  <2> QED
    BY <1>1, <2>4, <2>5 DEF RetryInv
<1>9. ASSUME NEW o \in Operator, NEW d \in Delivery, RetryRead(o, d) PROVE RetryInv'
  <2>1. Spent(d) /\ row' = row
    BY <1>9 DEF RetryRead, TableInv, DeliveryInv, Consistent
  <2>2. Read(d).d = d /\ Read(d).attempts = row[d].attempts
    BY DEF Read
  <2>3. \A p \in Operator : cli'[p] = cli[p] \/ cli'[p] = Read(d)
    BY <1>9 DEF RetryRead, TypeOK
  <2> QED
    BY <2>1, <2>2, <2>3 DEF RetryInv
<1>10. CASE Advance
  <2>1. \A d \in Delivery : row'[d].attempts = row[d].attempts
    BY <1>10, AdvanceFacts
  <2> QED
    BY <1>2, <1>10, <2>1 DEF Advance
<1> QED
  BY <1>4, <1>5, <1>6, <1>7, <1>8, <1>9, <1>10 DEF Step, Outcome, Next, Worker, Enqueue, Retry

\* WorkerInv is inductive: what the worker has read is overwritten by nobody but
\* forced retries of deliveries that have used up their attempts.
LEMMA WorkerStep ==
  ASSUME TypeOK, TableInv, WorkerInv, EnqueueInv, RetryInv, Step
  PROVE  WorkerInv'
<1> DEFINE Kept(r) == StillDue(r) => StillDue(r)'
<1>1. \A i \in DOMAIN todo : todo[i] \in ReadRow /\ todo[i].d \in Delivery
  BY ReadRows
<1>2. pc \in {"ok", "bad"} => cur \in ReadRow /\ cur.d \in Delivery
  BY ReadRows DEF TypeOK
<1>3. CASE UNCHANGED <<row, pc, todo, cur, accepted>>
  BY <1>3 DEF WorkerInv, StillDue, Flying
<1>4. CASE (\E e \in Event : Record(e)) \/ Shutdown \/ Start \/ UNCHANGED vars
           \/ \E o \in Operator, d \in Delivery : RetryRead(o, d)
  BY <1>3, <1>4 DEF Record, Shutdown, Start, RetryRead, vars, worker, history
<1>5. CASE TakeDue
  BY <1>5, TakeDueFacts DEF WorkerInv, StillDue, Flying
<1>6. CASE EndTick \/ HandleFailureRaises \/ Exit
  <2>1. todo' = <<>> /\ pc' = "idle"
    BY <1>6 DEF EndTick, HandleFailureRaises, Exit
  <2>2. DOMAIN todo' = {}
    BY <2>1
  <2> QED
    BY <2>1, <2>2 DEF WorkerInv
<1>7. CASE RecordDeliveredRaises \/ RecordGiveup
  <2>1. todo' = todo /\ row' = row /\ accepted' = accepted
        /\ \/ pc = "ok" /\ pc' = "bad" /\ cur' = cur
           \/ pc = "giveup" /\ pc' = "tick"
    <3>1. CASE RecordDeliveredRaises
      BY <3>1 DEF RecordDeliveredRaises, history
    <3>2. CASE RecordGiveup
      BY <3>2 DEF RecordGiveup, history
    <3> QED
      BY <1>7, <3>1, <3>2
  <2> QED
    BY <2>1 DEF WorkerInv, StillDue, Flying
<1>8. CASE Post
  <2>1. \A i, j \in DOMAIN todo' : todo'[i].d = todo'[j].d => i = j
    <3> SUFFICES ASSUME NEW i \in DOMAIN todo', NEW j \in DOMAIN todo',
                        todo'[i].d = todo'[j].d
                 PROVE  i = j
      OBVIOUS
    <3>1. i \in Nat /\ j \in Nat /\ i + 1 \in DOMAIN todo /\ j + 1 \in DOMAIN todo
          /\ todo'[i] = todo[i + 1] /\ todo'[j] = todo[j + 1]
      BY <1>8, PostFacts
    <3>2. i + 1 = j + 1
      BY <3>1 DEF WorkerInv
    <3> QED
      BY <3>1, <3>2
  <2>2. \A i \in DOMAIN todo' : StillDue(todo'[i]) /\ todo'[i].d # cur'.d
    BY <1>8, PostFacts DEF WorkerInv
  <2>3. row' = row /\ StillDue(cur') /\ (pc' = "ok" => cur'.d \in accepted')
    BY <1>8, PostFacts
  <2> QED
    BY <2>1, <2>2, <2>3 DEF WorkerInv, StillDue, Flying
<1>9. CASE Outcome
  <2>1. pc \in {"ok", "bad"} /\ pc' \in {"tick", "giveup"} /\ todo' = todo
    BY <1>9, OutcomeFacts
  <2>2. \A i \in DOMAIN todo : todo[i].d # cur.d
    BY <2>1 DEF WorkerInv, Flying
  <2>3. \A d \in Delivery : d # cur.d => row'[d] = row[d]
    BY <1>9, OutcomeFacts DEF TypeOK
  <2>4. \A i \in DOMAIN todo : row'[todo[i].d] = row[todo[i].d]
    BY <1>1, <2>2, <2>3
  <2> QED
    BY <2>1, <2>4 DEF WorkerInv, StillDue, Flying
<1>10. ASSUME NEW d \in Delivery, Insert(d) PROVE WorkerInv'
  <2>1. row[d].status = "none" /\ pc' = pc /\ todo' = todo /\ cur' = cur /\ accepted' = accepted
    BY <1>10 DEF Insert, EnqueueInv, worker, history
  <2>2. \A c \in Delivery \ {d} : row'[c] = row[c]
    BY <1>10 DEF Insert, UpdateOutcome, TypeOK
  <2>3. \A r \in ReadRow : Kept(r)
    BY <2>1, <2>2, ReadRows DEF StillDue
  <2> QED
    BY <1>1, <1>2, <2>1, <2>3 DEF WorkerInv, Flying
<1>11. ASSUME NEW o \in Operator, RetryWrite(o) PROVE WorkerInv'
  <2> DEFINE e == cli[o].d
  <2>1. /\ pc' = pc /\ todo' = todo /\ cur' = cur /\ accepted' = accepted
        /\ row' = [row EXCEPT ![e] = Forced(cli[o])]
        /\ cli[o] # Nothing
    BY <1>11 DEF RetryWrite, worker
  <2>2. e \in Delivery /\ cli[o].attempts >= Len(Backoff) /\ row[e].attempts >= Len(Backoff)
    BY <2>1, ReadRows DEF RetryInv, TypeOK
  <2>3. row'[e] = Forced(cli[o]) /\ \A c \in Delivery \ {e} : row'[c] = row[c]
    BY <2>1, <2>2 DEF TypeOK
  <2>4. row'[e].status = "pending" /\ row'[e].wait = 0 /\ row'[e].attempts = cli[o].attempts
    BY <2>3 DEF Forced, Pending
  <2>5. \A r \in ReadRow : Kept(r)
    BY <2>2, <2>3, <2>4, ReadRows DEF StillDue
  <2> QED
    BY <1>1, <1>2, <2>1, <2>5 DEF WorkerInv, Flying
<1>12. CASE Advance
  <2>1. pc' = pc /\ todo' = todo /\ cur' = cur /\ accepted' = accepted
    BY <1>12 DEF Advance, worker
  <2>2. \A d \in Delivery : /\ row'[d].status = row[d].status
                            /\ row'[d].attempts = row[d].attempts
                            /\ row[d].wait = 0 => row'[d].wait = 0
    BY <1>12, AdvanceFacts
  <2>3. \A r \in ReadRow : Kept(r)
    BY <2>2, ReadRows DEF StillDue
  <2> QED
    BY <1>1, <1>2, <2>1, <2>3 DEF WorkerInv, Flying
<1> QED
  BY <1>4, <1>5, <1>6, <1>7, <1>8, <1>9, <1>10, <1>11, <1>12 DEF Step, Outcome, Next, Worker, Enqueue, Retry

----------------------------------------------------------------------------
(* What a step makes of a consistent row.                                  *)

\* One more POST, of a row that is pending.
LEMMA Posted ==
  ASSUME NEW r, r.attempts \in Nat, NEW p \in Nat, NEW f \in Nat, NEW l \in Nat,
         NEW a, NEW b, r.status = "pending", Consistent(r, p, f, l, a, 0)
  PROVE  Consistent(r, p + 1, f, l, b, 1)
BY Schedule DEF Consistent

\* Its outcome does not reach the table.
LEMMA LostOutcome ==
  ASSUME NEW r, r.attempts \in Nat, NEW p \in Nat, NEW f \in Nat, NEW l \in Nat,
         NEW a, Consistent(r, p, f, l, a, 1)
  PROVE  Consistent(r, p, f, l + 1, a, 0)
BY Schedule DEF Consistent

\* It does, as q: the attempts are counted from what the worker has read, which a
\* forced retry may have overwritten.
LEMMA Landed ==
  ASSUME NEW r, r.attempts \in Nat, NEW p \in Nat, NEW f \in Nat, NEW l \in Nat,
         NEW a \in Nat, NEW n \in Nat, NEW q, q.attempts = n,
         Consistent(r, p, f, l, a, 1), r.status = "pending",
         n = r.attempts + 1 \/ (n > Len(Backoff) /\ r.attempts >= Len(Backoff)),
         \/ q.status = "delivered" /\ q.wait = 0
         \/ q.status = "giving_up" /\ q.wait = 0 /\ n >= Len(Backoff)
         \/ q.status = "pending" /\ n < Len(Backoff) /\ q.wait = Backoff[n + 1]
  PROVE  Consistent(q, p, f, l, a, 0)
<1>k. PICK k \in Nat \ {0} : k = Len(Backoff)
  BY Schedule
<1>m. PICK m \in Nat : m = r.attempts
  OBVIOUS
<1>1. /\ p < k + f + l + 1 /\ p <= m + f + l + 1
      /\ p < k => m + 1 <= p
      /\ f > 0 => m >= k
      /\ p <= k + f + l
  BY <1>k, <1>m DEF Consistent
<1>2. n = m + 1 \/ (n > k /\ m >= k)
  BY <1>k, <1>m
<1>3. /\ p < k => n <= p
      /\ f > 0 => n >= k
      /\ n < k => p <= n + f + l /\ p < k + f + l
      /\ n < k /\ l = 0 /\ p < k => p = n
  BY <1>1, <1>2
<1>4. CASE q.status # "pending"
  BY <1>k, <1>1, <1>3, <1>4 DEF Consistent
<1>5. CASE q.status = "pending"
  <2>1. n < k /\ q.wait = Backoff[n + 1] /\ Backoff[n + 1] \in Nat
    BY <1>k, <1>5, Schedule
  <2>2. l = 0 /\ p \in 1..k - 1 => a + q.wait >= Backoff[p + 1]
    BY <1>3, <2>1
  <2> QED
    BY <1>k, <1>1, <1>3, <1>5, <2>1, <2>2 DEF Consistent
<1> QED
  BY <1>4, <1>5

\* A forced retry of what was given up, whatever has become of it since.
LEMMA Reset ==
  ASSUME NEW r, r.attempts \in Nat, NEW p \in Nat, NEW f \in Nat, NEW l \in Nat,
         NEW a, NEW i \in {0, 1}, NEW q, Consistent(r, p, f, l, a, i),
         r.attempts >= Len(Backoff),
         q.status = "pending", q.attempts \in Nat, q.attempts >= Len(Backoff)
  PROVE  Consistent(q, p, f + 1, l, a, i)
<1> USE Schedule
<1>1. p >= Len(Backoff) /\ p <= Len(Backoff) + f + l
  BY DEF Consistent
<1>2. p \notin 1..Len(Backoff) - 1
  BY <1>1
<1> QED
  BY <1>1, <1>2 DEF Consistent

\* TableInv is inductive.
LEMMA TableStep ==
  ASSUME TypeOK, TableInv, WorkerInv, EnqueueInv, RetryInv, Step
  PROVE  TableInv'
<1> SUFFICES ASSUME NEW d \in Delivery PROVE DeliveryInv(d)'
  BY DEF TableInv
<1>1. /\ row[d].status = "delivered" => d \in accepted
      /\ Consistent(row[d], posts[d], forced[d], lost[d], age[d], InFlight(d))
  BY DEF TableInv, DeliveryInv
<1>2. /\ posts[d] \in Nat /\ lost[d] \in Nat /\ forced[d] \in Nat /\ age[d] \in 0..MaxDelay
      /\ row[d].attempts \in Nat /\ row[d].wait \in Nat /\ age[d] \in Nat
      /\ InFlight(d) \in {0, 1}
  BY ReadRows DEF InFlight
<1>3. ASSUME row'[d] = row[d], posts'[d] = posts[d], lost'[d] = lost[d],
             forced'[d] = forced[d], age'[d] = age[d], accepted \subseteq accepted',
             InFlight(d)' = InFlight(d)
      PROVE  DeliveryInv(d)'
  BY <1>1, <1>3 DEF DeliveryInv
<1>4. CASE UNCHANGED <<row, history>> /\ InFlight(d)' = InFlight(d)
  BY <1>3, <1>4 DEF history
<1>5. CASE (\E e \in Event : Record(e)) \/ Shutdown \/ Start \/ UNCHANGED vars
           \/ \E o \in Operator, c \in Delivery : RetryRead(o, c)
  <2>1. UNCHANGED <<row, history, pc, cur>>
    BY <1>5 DEF Record, Shutdown, Start, RetryRead, vars, worker
  <2> QED
    BY <1>4, <2>1 DEF InFlight, Flying
<1>6. CASE TakeDue \/ EndTick \/ RecordDeliveredRaises \/ RecordGiveup
  <2>1. InFlight(d)' = InFlight(d)
    BY <1>6 DEF InFlight, Flying, TakeDue, EndTick, RecordDeliveredRaises, RecordGiveup
  <2>2. UNCHANGED <<row, history>>
    BY <1>6 DEF TakeDue, EndTick, RecordDeliveredRaises, RecordGiveup
  <2> QED
    BY <1>4, <2>1, <2>2
<1>7. CASE Post
  <2>1. /\ row' = row /\ lost' = lost /\ forced' = forced /\ accepted \subseteq accepted'
        /\ cur'.d \in Delivery
    BY <1>7, PostFacts, ReadRows
  <2>2. InFlight(d) = 0 /\ InFlight(d)' = IF cur'.d = d THEN 1 ELSE 0
    BY <1>7, PostFacts DEF Flying, InFlight
  <2>3. CASE cur'.d # d
    <3>1. posts'[d] = posts[d] /\ age'[d] = age[d]
      BY <1>7, <2>1, <2>3, PostFacts DEF TypeOK
    <3> QED
      BY <1>3, <2>1, <2>2, <2>3, <3>1
  <2>4. CASE cur'.d = d
    <3>1. posts'[d] = posts[d] + 1
      BY <1>7, <2>1, <2>4, PostFacts DEF TypeOK
    <3>2. row[d].status = "pending"
      BY <1>7, <2>4, PostFacts DEF StillDue
    <3>3. Consistent(row[d], posts[d] + 1, forced[d], lost[d], age'[d], 1)
      BY <1>1, <1>2, <2>2, <3>2, Posted
    <3> QED
      BY <2>1, <2>2, <2>4, <3>1, <3>2, <3>3 DEF DeliveryInv
  <2> QED
    BY <2>3, <2>4
<1>8. CASE Outcome
  <2>1. /\ posts' = posts /\ forced' = forced /\ accepted' = accepted /\ age' = age
        /\ cur.d \in Delivery /\ pc \in {"ok", "bad"}
    BY <1>8, OutcomeFacts
  <2>2. InFlight(d)' = 0 /\ InFlight(d) = IF cur.d = d THEN 1 ELSE 0
    BY <1>8, OutcomeFacts DEF Flying, InFlight
  <2>3. CASE cur.d # d
    <3>1. row'[d] = row[d] /\ lost'[d] = lost[d]
      BY <1>8, <2>1, <2>3, OutcomeFacts DEF TypeOK
    <3> QED
      BY <1>3, <2>1, <2>2, <2>3, <3>1
  <2>4. CASE cur.d = d /\ store # "open"
    <3>1. row'[d] = row[d] /\ lost'[d] = lost[d] + 1
      BY <1>8, <2>1, <2>4, OutcomeFacts DEF TypeOK
    <3>2. Consistent(row[d], posts[d], forced[d], lost[d] + 1, age[d], 0)
      BY <1>1, <1>2, <2>2, <2>4, LostOutcome
    <3> QED
      BY <1>1, <2>1, <2>2, <3>1, <3>2 DEF DeliveryInv
  <2>5. CASE cur.d = d /\ store = "open"
    <3>1. row'[d] = OutcomeRow /\ lost'[d] = lost[d]
      BY <1>8, <2>1, <2>5, OutcomeFacts DEF TypeOK
    <3>2. PICK n \in Nat : n = cur.attempts + 1 /\ n + 1 = cur.attempts + 2
      BY <1>8, OutcomeFacts
    <3>3. /\ OutcomeRow.attempts = n
          /\ \/ OutcomeRow.status = "delivered" /\ OutcomeRow.wait = 0 /\ pc = "ok"
             \/ OutcomeRow.status = "giving_up" /\ OutcomeRow.wait = 0 /\ n >= Len(Backoff)
             \/ OutcomeRow.status = "pending" /\ n < Len(Backoff) /\ OutcomeRow.wait = Backoff[n + 1]
      <4>1. pc = "ok" => OutcomeRow.status = "delivered" /\ OutcomeRow.wait = 0
        BY <1>8, OutcomeFacts
      <4>2. pc = "bad" /\ n >= Len(Backoff) =>
              OutcomeRow.status = "giving_up" /\ OutcomeRow.wait = 0
        BY <1>8, <3>2, OutcomeFacts
      <4>3. pc = "bad" /\ n < Len(Backoff) =>
              OutcomeRow.status = "pending" /\ OutcomeRow.wait = Backoff[n + 1]
        BY <1>8, <3>2, OutcomeFacts, Schedule
      <4> QED
        BY <1>8, <2>1, <3>2, <4>1, <4>2, <4>3, OutcomeFacts, Schedule
    <3>4. /\ row[d].status = "pending"
          /\ n = row[d].attempts + 1 \/ (n > Len(Backoff) /\ row[d].attempts >= Len(Backoff))
      <4>1. StillDue(cur) /\ cur.attempts \in Nat
        BY <1>8, <2>1, OutcomeFacts DEF WorkerInv
      <4> QED
        BY <1>2, <2>5, <3>2, <4>1, Schedule DEF StillDue
    <3>5. pc = "ok" => d \in accepted'
      BY <2>1, <2>5 DEF WorkerInv
    <3>6. Consistent(OutcomeRow, posts[d], forced[d], lost[d], age[d], 0)
      <4>1. Consistent(row[d], posts[d], forced[d], lost[d], age[d], 1)
        BY <1>1, <2>2, <2>5
      <4>2. PICK q : q = OutcomeRow
        OBVIOUS
      <4>3. /\ q.attempts = n
            /\ \/ q.status = "delivered" /\ q.wait = 0
               \/ q.status = "giving_up" /\ q.wait = 0 /\ n >= Len(Backoff)
               \/ q.status = "pending" /\ n < Len(Backoff) /\ q.wait = Backoff[n + 1]
        BY <3>3, <4>2
      <4>4. Consistent(q, posts[d], forced[d], lost[d], age[d], 0)
        BY <1>2, <3>4, <4>1, <4>3, Landed
      <4> QED
        BY <4>2, <4>4
    <3> QED
      BY <2>1, <2>2, <3>1, <3>3, <3>5, <3>6 DEF DeliveryInv
  <2> QED
    BY <2>3, <2>4, <2>5
<1>9. CASE HandleFailureRaises \/ (Exit /\ pc \in {"ok", "bad"})
  <2>1. /\ row' = row /\ posts' = posts /\ forced' = forced /\ accepted' = accepted
        /\ age' = age /\ lost' = [lost EXCEPT ![cur.d] = @ + 1] /\ cur.d \in Delivery
    BY <1>9, ReadRows DEF HandleFailureRaises, Exit, Lose
  <2>2. InFlight(d)' = 0 /\ InFlight(d) = IF cur.d = d THEN 1 ELSE 0
    BY <1>9 DEF HandleFailureRaises, Exit, InFlight, Flying
  <2>3. CASE cur.d # d
    <3>1. lost'[d] = lost[d]
      BY <2>1, <2>3 DEF TypeOK
    <3> QED
      BY <1>3, <2>1, <2>2, <2>3, <3>1
  <2>4. CASE cur.d = d
    <3>1. lost'[d] = lost[d] + 1
      BY <2>1, <2>4 DEF TypeOK
    <3>2. Consistent(row[d], posts[d], forced[d], lost[d] + 1, age[d], 0)
      BY <1>1, <1>2, <2>2, <2>4, LostOutcome
    <3> QED
      BY <1>1, <2>1, <2>2, <3>1, <3>2 DEF DeliveryInv
  <2> QED
    BY <2>3, <2>4
<1>10. CASE Exit /\ pc \notin {"ok", "bad"}
  <2>1. InFlight(d) = 0 /\ InFlight(d)' = 0 /\ UNCHANGED <<row, history>>
    BY <1>10 DEF Exit, InFlight, Flying, history
  <2> QED
    BY <1>4, <2>1
<1>11. ASSUME NEW c \in Delivery, Insert(c) PROVE DeliveryInv(d)'
  <2>1. /\ UNCHANGED <<history, pc, cur>> /\ row[c].status = "none"
        /\ row' = row \/ row' = [row EXCEPT ![c] = Pending(0, 0)]
    BY <1>11 DEF Insert, UpdateOutcome, worker, EnqueueInv
  <2>2. InFlight(d)' = InFlight(d)
    BY <2>1 DEF InFlight, Flying
  <2>3. CASE row'[d] = row[d]
    BY <1>3, <2>1, <2>2, <2>3 DEF history
  <2>4. CASE row'[d] # row[d]
    <3>1. c = d /\ row'[d] = Pending(0, 0)
      BY <2>1, <2>4 DEF TypeOK
    <3>2. row'[d].status = "pending" /\ row'[d].attempts = 0 /\ row'[d].wait = 0
      BY <3>1 DEF Pending
    <3>3. posts[d] = 0 /\ forced[d] = 0 /\ InFlight(d) = 0
      BY <1>1, <2>1, <3>1 DEF Consistent
    <3>4. Consistent(row'[d], posts[d], forced[d], lost[d], age[d], 0)
      BY <1>2, <3>2, <3>3, Schedule DEF Consistent
    <3> QED
      BY <2>1, <2>2, <3>2, <3>3, <3>4 DEF DeliveryInv, history
  <2> QED
    BY <2>3, <2>4
<1>12. ASSUME NEW o \in Operator, RetryWrite(o) PROVE DeliveryInv(d)'
  <2> DEFINE e == cli[o].d
  <2>1. /\ UNCHANGED <<posts, accepted, lost, age, pc, cur>> /\ cli[o] # Nothing
        /\ row' = [row EXCEPT ![e] = Forced(cli[o])]
        /\ forced' = [forced EXCEPT ![e] = @ + 1]
    BY <1>12 DEF RetryWrite, worker
  <2>2. e \in Delivery /\ cli[o].attempts >= Len(Backoff) /\ cli[o].attempts \in Nat
        /\ row[e].attempts >= Len(Backoff)
    BY <2>1, ReadRows DEF RetryInv, TypeOK
  <2>3. InFlight(d)' = InFlight(d)
    BY <2>1 DEF InFlight, Flying
  <2>4. CASE e # d
    <3>1. row'[d] = row[d] /\ forced'[d] = forced[d]
      BY <2>1, <2>2, <2>4 DEF TypeOK
    <3> QED
      BY <1>3, <2>1, <2>3, <3>1
  <2>5. CASE e = d
    <3>1. row'[d] = Forced(cli[o]) /\ forced'[d] = forced[d] + 1
      BY <2>1, <2>2, <2>5 DEF TypeOK
    <3>2. row'[d].status = "pending" /\ row'[d].attempts = cli[o].attempts
      BY <3>1 DEF Forced, Pending
    <3>3. Consistent(row'[d], posts[d], forced[d] + 1, lost[d], age[d], InFlight(d))
      <4>1. PICK q : q = row'[d]
        OBVIOUS
      <4>2. q.status = "pending" /\ q.attempts \in Nat /\ q.attempts >= Len(Backoff)
        BY <2>2, <3>2, <4>1
      <4>3. row[d].attempts >= Len(Backoff)
        BY <2>2, <2>5
      <4>4. Consistent(q, posts[d], forced[d] + 1, lost[d], age[d], InFlight(d))
        BY <1>1, <1>2, <4>2, <4>3, Reset
      <4> QED
        BY <4>1, <4>4
    <3> QED
      BY <2>1, <2>3, <3>1, <3>2, <3>3 DEF DeliveryInv
  <2> QED
    BY <2>4, <2>5
<1>13. CASE Advance
  <2>1. UNCHANGED <<posts, accepted, lost, forced, pc, cur>>
    BY <1>13 DEF Advance, worker
  <2>2. InFlight(d)' = InFlight(d)
    BY <2>1 DEF Flying, InFlight
  <2>3. /\ row'[d].status = row[d].status /\ row'[d].attempts = row[d].attempts
        /\ row'[d].wait = IF row[d].wait > 0 THEN row[d].wait - 1 ELSE 0
        /\ age'[d] = IF age[d] < MaxDelay THEN age[d] + 1 ELSE MaxDelay
    BY <1>13, AdvanceFacts
  <2>4. Consistent(row'[d], posts[d], forced[d], lost[d], age'[d], InFlight(d))
    <3>1. PICK q : q = row'[d]
      OBVIOUS
    <3>2. /\ q.status = row[d].status /\ q.attempts = row[d].attempts
          /\ row[d].wait = 0 => q.wait = 0
          /\ q.wait \in Nat /\ q.wait + 1 >= row[d].wait
      BY <1>2, <2>3, <3>1
    <3>3. PICK b \in 0..MaxDelay : b = age'[d] /\ (b = age[d] + 1 \/ b = MaxDelay)
      BY <1>2, <2>3
    <3>4. q.wait + b >= row[d].wait + age[d] \/ b = MaxDelay
      BY <1>2, <3>2, <3>3
    <3>5. posts[d] \in 1..Len(Backoff) - 1 /\ age[d] + row[d].wait >= Backoff[posts[d] + 1]
            => b + q.wait >= Backoff[posts[d] + 1]
      <4> SUFFICES ASSUME posts[d] \in 1..Len(Backoff) - 1,
                          age[d] + row[d].wait >= Backoff[posts[d] + 1]
                   PROVE  b + q.wait >= Backoff[posts[d] + 1]
        OBVIOUS
      <4>1. posts[d] + 1 \in 1..Len(Backoff)
        BY Schedule
      <4>2. PICK x \in 0..MaxDelay : x = Backoff[posts[d] + 1]
        BY <4>1, Schedule
      <4>3. PICK g \in Nat, v \in Nat, w \in Nat :
              g = age[d] /\ v = row[d].wait /\ w = q.wait
        BY <1>2, <3>2
      <4>4. g + v >= x /\ (w + b >= v + g \/ b = MaxDelay)
        BY <3>4, <4>2, <4>3
      <4>5. b + w >= x
        BY <4>4
      <4> QED
        BY <4>2, <4>3, <4>5
    <3>6. Consistent(q, posts[d], forced[d], lost[d], b, InFlight(d))
      BY <1>1, <3>2, <3>5 DEF Consistent
    <3> QED
      BY <3>1, <3>3, <3>6
  <2> QED
    BY <1>1, <2>1, <2>2, <2>3, <2>4 DEF DeliveryInv
<1> QED
  BY <1>5, <1>6, <1>7, <1>8, <1>9, <1>10, <1>11, <1>12, <1>13
  DEF Step, Outcome, Next, Worker, Enqueue, Retry

\* The invariant holds initially.
LEMMA InitHolds == Init => WebhooksInv
<1> SUFFICES ASSUME Init PROVE WebhooksInv
  OBVIOUS
<1>1. NoRow \in Row /\ NoRow.status = "none" /\ NoRow.attempts = 0 /\ NoRow.wait = 0
  BY DEF NoRow, Row
<1>2. TypeOK
  BY <1>1 DEF Init, TypeOK
<1>3. WorkerInv /\ RetryInv
  BY DEF Init, WorkerInv, RetryInv
<1>4. EnqueueInv
  BY <1>1 DEF Init, EnqueueInv
<1>5. TableInv
  <2> SUFFICES ASSUME NEW d \in Delivery PROVE DeliveryInv(d)
    BY DEF TableInv
  <2>1. /\ row[d] = NoRow /\ posts[d] = 0 /\ forced[d] = 0 /\ lost[d] = 0
        /\ InFlight(d) = 0
    BY DEF Init, InFlight, Flying
  <2> QED
    BY <1>1, <2>1, Schedule DEF DeliveryInv, Consistent
<1> QED
  BY <1>2, <1>3, <1>4, <1>5 DEF WebhooksInv

\* The invariant holds in every state.
LEMMA WebhooksHolds == Spec => []WebhooksInv
<1>1. Init => WebhooksInv
  BY InitHolds
<1>2. WebhooksInv /\ [Next]_vars => WebhooksInv'
  BY TypeStep, TableStep, WorkerStep, EnqueueStep, RetryStep DEF WebhooksInv, Step
<1> QED
  BY <1>1, <1>2, PTL DEF Spec

\* Only a forced retry takes a row out of giving_up.
LEMMA OverlapStep ==
  ASSUME WebhooksInv, OverlapInv, [Next]_vars
  PROVE  OverlapInv'
<1> DEFINE Kept == \A d \in Delivery : /\ row[d].status = "giving_up" => row'[d].status = "giving_up"
                                       /\ forced'[d] = forced[d]
<1>t. TypeOK
  BY DEF WebhooksInv
<1>1. ASSUME Kept, cli' = cli PROVE OverlapInv'
  <2>1. \A o \in Operator : cli[o] # Nothing => cli[o].d \in Delivery
    BY <1>t, ReadRows DEF TypeOK
  <2> QED
    BY <1>1, <2>1 DEF OverlapInv
<1>2. CASE UNCHANGED <<row, cli, forced>>
  BY <1>1, <1>2
<1>3. CASE TakeDue \/ EndTick \/ RecordDeliveredRaises \/ HandleFailureRaises \/ RecordGiveup
           \/ Post \/ Shutdown \/ Exit \/ Start \/ UNCHANGED vars
           \/ \E e \in Event : Record(e)
  BY <1>2, <1>3 DEF TakeDue, EndTick, RecordDeliveredRaises, HandleFailureRaises,
     RecordGiveup, Post, Shutdown, Exit, Start, vars, Record, history
<1>4. CASE Outcome
  <2>1. row[cur.d].status = "pending" /\ cli' = cli /\ forced' = forced
    BY <1>t, <1>4, OutcomeFacts DEF WebhooksInv, WorkerInv, StillDue
  <2>2. row' = row \/ row' = [row EXCEPT ![cur.d] = OutcomeRow]
    BY <1>t, <1>4, OutcomeFacts
  <2>3. Kept
    BY <1>t, <2>1, <2>2 DEF TypeOK
  <2> QED
    BY <1>1, <2>1, <2>3
<1>5. ASSUME NEW d \in Delivery, Insert(d) PROVE OverlapInv'
  <2>1. row[d].status = "none" /\ cli' = cli /\ forced' = forced
    BY <1>5 DEF Insert, WebhooksInv, EnqueueInv, history
  <2>2. \A c \in Delivery \ {d} : row'[c] = row[c]
    BY <1>t, <1>5 DEF Insert, UpdateOutcome, TypeOK
  <2> QED
    BY <1>1, <2>1, <2>2
<1>6. ASSUME NEW o \in Operator, RetryWrite(o) PROVE OverlapInv'
  <2>1. /\ cli'[o] = Nothing /\ \A p \in Operator \ {o} : cli'[p] = cli[p]
        /\ \A d \in Delivery \ {cli[o].d} : row'[d] = row[d] /\ forced'[d] = forced[d]
        /\ forced'[cli[o].d] = forced[cli[o].d] + 1
    BY <1>t, <1>6, ReadRows DEF RetryWrite, TypeOK
  <2>2. \A p \in Operator : cli[p] # Nothing => cli[p].d \in Delivery /\ forced[cli[p].d] \in Nat
    BY <1>t, ReadRows DEF TypeOK
  <2>3. cli[o] # Nothing
    BY <1>6 DEF RetryWrite
  <2> QED
    BY <2>1, <2>2, <2>3 DEF OverlapInv
<1>7. ASSUME NEW o \in Operator, NEW d \in Delivery, RetryRead(o, d) PROVE OverlapInv'
  <2>1. /\ cli'[o] = Read(d) /\ row[d].status = "giving_up" /\ row' = row /\ forced' = forced
        /\ \A p \in Operator \ {o} : cli'[p] = cli[p]
    BY <1>t, <1>7 DEF RetryRead, TypeOK, history
  <2>2. Read(d).d = d
    BY DEF Read
  <2> QED
    BY <2>1, <2>2 DEF OverlapInv
<1>8. CASE Advance
  <2>1. Kept
    BY <1>t, <1>8, AdvanceFacts DEF Advance
  <2> QED
    BY <1>1, <1>8, <2>1 DEF Advance
<1> QED
  BY <1>3, <1>4, <1>5, <1>6, <1>7, <1>8 DEF Outcome, Next, Worker, Enqueue, Retry

----------------------------------------------------------------------------
(* The theorems.                                                           *)

\* Every variable has the values the code can give it.
THEOREM TypeCorrect == Spec => []TypeOK
<1>1. WebhooksInv => TypeOK
  BY DEF WebhooksInv
<1> QED
  BY <1>1, WebhooksHolds, PTL

\* What the invariant says of every row.
LEMMA InvariantImplies == WebhooksInv => DeliveredWasAccepted /\ AttemptsMatchSchedule
<1> SUFFICES ASSUME WebhooksInv, NEW d \in Delivery
             PROVE  /\ row[d].status = "delivered" => d \in accepted
                    /\ AttemptsMatchSchedule!(d)
  BY DEF DeliveredWasAccepted, AttemptsMatchSchedule
<1>1. /\ posts[d] \in Nat /\ row[d].attempts \in Nat /\ InFlight(d) \in {0, 1}
      /\ Len(Backoff) \in Nat
  BY ReadRows, Schedule DEF WebhooksInv, InFlight
<1>2. /\ Consistent(row[d], posts[d], forced[d], lost[d], age[d], InFlight(d))
      /\ row[d].status = "delivered" => d \in accepted
  BY DEF WebhooksInv, TableInv, DeliveryInv
<1>3. row[d].status = "giving_up" => posts[d] >= Len(Backoff)
  BY <1>1, <1>2 DEF Consistent
<1> QED
  BY <1>2, <1>3 DEF Consistent

\* update_outcome(delivered) is reached only after the receiver has answered 2xx to
\* that delivery, and force_retry never makes a row delivered.
THEOREM DeliveredAccepted == Spec => []DeliveredWasAccepted
BY InvariantImplies, WebhooksHolds, PTL

\* The schedule is used up before a delivery is given up, and a receiver gets one POST
\* per entry of it, per forced retry and per lost outcome at most, whatever the
\* schedule, the number of operators and the crashes.
THEOREM ScheduleUsed == Spec => []AttemptsMatchSchedule
BY InvariantImplies, WebhooksHolds, PTL

\* A retry waits for its delay: take_due selects a row only when its wait is over, and
\* the n-th outcome was written with the n-th delay.
THEOREM BackoffKept == Spec => BackoffIsKept
<1> DEFINE Waited ==
      \A d \in Delivery :
        /\ posts'[d] # posts[d]
        /\ posts[d] \in 1..Len(Backoff) - 1
        /\ lost[d] = 0
        => age[d] >= Backoff[posts[d] + 1]
<1>1. WebhooksInv /\ [Next]_vars => [Waited]_vars
  <2> SUFFICES ASSUME WebhooksInv, [Next]_vars,
                      NEW d \in Delivery, posts'[d] # posts[d],
                      posts[d] \in 1..Len(Backoff) - 1, lost[d] = 0
               PROVE  age[d] >= Backoff[posts[d] + 1]
    OBVIOUS
  <2>t. TypeOK /\ WorkerInv
    BY DEF WebhooksInv
  <2>1. Post
    <3>1. Post \/ UNCHANGED posts
      BY DEF Next, Worker, Enqueue, Retry, vars, history, TakeDue, EndTick,
         RecordDelivered, RecordDeliveredRaises, HandleFailure, HandleFailureThen,
         HandleFailureRaises, RecordGiveup, Record, Insert, RetryWrite, RetryRead,
         Advance, Shutdown, Exit, Start
    <3> QED
      BY <3>1
  <2>2. cur'.d = d
    BY <2>t, <2>1, PostFacts, ReadRows DEF TypeOK
  <2>3. row[d].status = "pending" /\ row[d].wait = 0
    BY <2>t, <2>1, <2>2, PostFacts DEF StillDue
  <2>4. InFlight(d) = 0
    BY <2>t, <2>1, PostFacts DEF InFlight, Flying
  <2>5. Consistent(row[d], posts[d], forced[d], lost[d], age[d], InFlight(d))
    BY DEF WebhooksInv, TableInv, DeliveryInv
  <2>6. age[d] + 0 >= Backoff[posts[d] + 1] /\ age[d] \in Nat
    BY <2>t, <2>3, <2>4, <2>5, ReadRows DEF Consistent
  <2> QED
    BY <2>6
<1> QED
  BY <1>1, WebhooksHolds, PTL DEF Spec, BackoffIsKept

\* A delivered row is written again only by a `webhook retry' that read it before another
\* one reset it, for any number of operators: force_retry's UPDATE has no guard on the
\* status, and nothing else takes a delivery back.
THEOREM DeliveredStays == Spec => DeliveredIsFinal
<1> DEFINE Kept == \A d \in Delivery :
                     row[d].status = "delivered" /\ row'[d] # row[d] =>
                       /\ forced[d] > 0
                       /\ \E o \in Operator : cli[o].d = d /\ cli'[o] = Nothing
<1>1. Init => OverlapInv
  BY DEF Init, OverlapInv
<1>2. WebhooksInv /\ OverlapInv /\ [Next]_vars => OverlapInv'
  BY OverlapStep
<1>3. WebhooksInv /\ OverlapInv /\ [Next]_vars => [Kept]_vars
  <2> SUFFICES ASSUME WebhooksInv, OverlapInv, [Next]_vars,
                      NEW d \in Delivery, row[d].status = "delivered", row'[d] # row[d]
               PROVE  /\ forced[d] > 0
                      /\ \E o \in Operator : cli[o].d = d /\ cli'[o] = Nothing
    OBVIOUS
  <2>t. TypeOK /\ WorkerInv /\ EnqueueInv
    BY DEF WebhooksInv
  <2>1. CASE Outcome
    <3>1. cur.d # d
      BY <2>t, <2>1, OutcomeFacts DEF WorkerInv, StillDue
    <3>2. row' = row \/ row' = [row EXCEPT ![cur.d] = OutcomeRow]
      BY <2>t, <2>1, OutcomeFacts
    <3> QED
      BY <2>t, <3>1, <3>2 DEF TypeOK
  <2>2. ASSUME NEW c \in Delivery, Insert(c) PROVE row'[d] = row[d]
    <3>1. c # d
      BY <2>t, <2>2 DEF Insert, EnqueueInv
    <3> QED
      BY <2>t, <2>2, <3>1 DEF Insert, UpdateOutcome, TypeOK
  <2>3. ASSUME NEW o \in Operator, RetryWrite(o)
        PROVE  forced[d] > 0 /\ \E p \in Operator : cli[p].d = d /\ cli'[p] = Nothing
    <3>1. cli[o].d = d
      BY <2>t, <2>3 DEF RetryWrite, TypeOK
    <3>2. forced[d] > 0
      BY <2>3, <3>1 DEF RetryWrite, OverlapInv
    <3>3. cli'[o] = Nothing
      BY <2>t, <2>3 DEF RetryWrite, TypeOK
    <3> QED
      BY <3>1, <3>2, <3>3
  <2>4. CASE Advance
    <3>1. row[d].wait = 0
      BY DEF WebhooksInv, TableInv, DeliveryInv, Consistent
    <3> QED
      BY <2>t, <2>4, <3>1, AdvanceFacts
  <2>5. CASE UNCHANGED row
    BY <2>5
  <2>6. \/ Outcome \/ (\E c \in Delivery : Insert(c))
        \/ (\E o \in Operator : RetryWrite(o)) \/ Advance \/ UNCHANGED row
    BY DEF Outcome, Next, Worker, Enqueue, Retry, vars, TakeDue, EndTick, Post,
       RecordDeliveredRaises, HandleFailureRaises, RecordGiveup, Record, RetryRead,
       Shutdown, Exit, Start
  <2> QED
    BY <2>1, <2>2, <2>3, <2>4, <2>5, <2>6
<1> QED
  BY <1>1, <1>2, <1>3, WebhooksHolds, PTL DEF Spec, DeliveredIsFinal

----------------------------------------------------------------------------
(* Alerts: the inductive invariant.                                        *)

\* While the store is closed no handler is about to insert a row.
StoreInv ==
  /\ process = "up" <=> store = "open"
  /\ store # "open" => \A d \in enq : d[1].event \notin HandlerEvent

\* A critical event the operator asked for is queued, and what is queued gets its row.
AlertInv == WebhooksInv /\ StoreInv /\ CriticalAlwaysThrough

----------------------------------------------------------------------------
(* The rules.                                                              *)

\* Hours on the clock, without the remainder.
LEMMA ClockHours ==
  ASSUME NEW a \in Hour, NEW b \in Hour
  PROVE  HoursFrom(a, b) = IF a <= b THEN b - a ELSE b - a + HoursInDay
BY AlertsAssumption DEF HoursFrom, Hour

\* in_quiet_hours, with its cases for a window inside a day and one over midnight, says
\* whether the hour comes after the start and before the end, counted from the start.
LEMMA QuietWindow ==
  ASSUME NEW q \in QuietSpec, NEW h \in Hour
  PROVE  InQuietHours(q, h) <=> HoursFrom(q.start, h) < HoursFrom(q.start, q.end)
<1>1. q.start \in Hour /\ q.end \in Hour
  BY DEF QuietSpec
<1>2. /\ HoursFrom(q.start, h) = IF q.start <= h THEN h - q.start ELSE h - q.start + HoursInDay
      /\ HoursFrom(q.start, q.end) =
           IF q.start <= q.end THEN q.end - q.start ELSE q.end - q.start + HoursInDay
  BY <1>1, ClockHours
<1>3. /\ q.start \in Int /\ 0 <= q.start /\ q.start < HoursInDay
      /\ q.end \in Int /\ 0 <= q.end /\ q.end < HoursInDay
      /\ h \in Int /\ 0 <= h /\ h < HoursInDay /\ HoursInDay \in Nat
  BY <1>1, AlertsAssumption DEF Hour
<1> QED
  BY <1>2, <1>3 DEF InQuietHours

\* What the operator asked for matches a rule and bypasses the window.
LEMMA AskedIsCritical ==
  ASSUME NEW e, Asked(e)
  PROVE  MatchesRule(e) /\ BypassesQuietHours(e) /\ e.event \in HandlerEvent
BY DEF Asked, MatchesRule, BypassesQuietHours, IsSanctionsHit, HandlerEvent

\* The rules keep the window, whatever the setting and the hour.
LEMMA RulesKept == QuietHoursKept
<1> SUFFICES ASSUME NEW q \in QuietSpec, NEW h \in Hour, NEW e \in AuditRecord
             PROVE  LET within == HoursFrom(q.start, h) < HoursFrom(q.start, q.end)
                        verdict == Verdict(e, q, h)
                        critical == e.event = "SEND_FAILED"
                                    \/ (e.event = "SEND_REJECTED" /\ e.sanctions)
                    IN /\ verdict = "queued" => critical \/ ~ within
                       /\ verdict = "suppressed" => within /\ ~ critical
                       /\ Asked(e) => verdict \in {"queued", "off"}
  BY DEF QuietHoursKept
<1>1. InQuietHours(q, h) <=> HoursFrom(q.start, h) < HoursFrom(q.start, q.end)
  BY QuietWindow
<1>2. BypassesQuietHours(e) <=>
        e.event = "SEND_FAILED" \/ (e.event = "SEND_REJECTED" /\ e.sanctions)
  BY DEF BypassesQuietHours, IsSanctionsHit
<1>3. Asked(e) => MatchesRule(e) /\ BypassesQuietHours(e)
  BY AskedIsCritical
<1> QED
  BY <1>1, <1>2, <1>3 DEF Verdict

\* Every step but notify_event is one of the queue, and records nothing.
LEMMA QueueSteps ==
  ASSUME [AlertNext]_vars
  PROVE  \/ Step /\ recorded' = recorded
         \/ \E e \in Event, q \in QuietSpec, h \in Hour : NotifyEvent(e, q, h)
BY DEF AlertNext, Step, Next, Worker, Enqueue, Retry, AlertDelivered, AlertHandleFailure,
   AlertShutdown, vars, RecordDelivered, HandleFailure, HandleFailureThen, TakeDue, EndTick,
   Post, RecordDeliveredRaises, HandleFailureRaises, Insert, RetryWrite, RetryRead, Advance,
   Shutdown, Exit, Start

----------------------------------------------------------------------------
(* Each part of the invariant is inductive relative to the others.         *)

\* What the first part shows of the queue carries over: notify_event only adds rows to
\* insert for an event that has none.
LEMMA QueueStep ==
  ASSUME WebhooksInv, [AlertNext]_vars
  PROVE  WebhooksInv'
<1>1. CASE Step
  BY <1>1, TypeStep, TableStep, WorkerStep, EnqueueStep, RetryStep DEF WebhooksInv
<1>2. ASSUME NEW e \in Event, NEW q \in QuietSpec, NEW h \in Hour, NotifyEvent(e, q, h)
      PROVE  WebhooksInv'
  <2>1. /\ recorded' = recorded \cup {e} /\ e \notin recorded
        /\ enq' \subseteq enq \cup ({e} \X Url)
        /\ UNCHANGED <<row, process, store, pc, todo, cur, cli, posts, accepted, lost,
                       forced, age, trouble, stops>>
    BY <1>2 DEF NotifyEvent, worker, history
  <2>2. \A d \in {e} \X Url : d \in Delivery /\ d[1] = e
    BY DEF Delivery
  <2>3. TypeOK'
    BY <2>1, <2>2 DEF WebhooksInv, TypeOK
  <2>4. TableInv'
    BY <2>1 DEF WebhooksInv, TableInv, DeliveryInv, InFlight, Flying
  <2>5. WorkerInv' /\ RetryInv'
    BY <2>1 DEF WebhooksInv, WorkerInv, RetryInv, StillDue, Flying
  <2>6. \A d \in {e} \X Url : row[d].status = "none"
    BY <2>1, <2>2 DEF WebhooksInv, EnqueueInv
  <2>7. EnqueueInv'
    BY <2>1, <2>2, <2>6 DEF WebhooksInv, EnqueueInv
  <2> QED
    BY <2>3, <2>4, <2>5, <2>7 DEF WebhooksInv
<1> QED
  BY <1>1, <1>2, QueueSteps

\* The handlers have returned when the store is closed, and record nothing after that.
LEMMA StoreStep ==
  ASSUME AlertInv, [AlertNext]_vars
  PROVE  StoreInv'
<1> USE DEF StoreInv
<1>1. ASSUME NEW e \in Event, NEW q \in QuietSpec, NEW h \in Hour, NotifyEvent(e, q, h)
      PROVE  StoreInv'
  <2>1. UNCHANGED <<store, process>> /\ (store # "open" => enq' = enq)
    BY <1>1 DEF NotifyEvent, Verdict
  <2> QED
    BY <2>1 DEF AlertInv
<1>2. CASE enq' = enq /\ UNCHANGED <<store, process>>
  BY <1>2 DEF AlertInv
<1>3. CASE AlertDelivered \/ AlertHandleFailure \/ TakeDue \/ EndTick \/ Post \/ Advance
           \/ UNCHANGED vars
           \/ \E o \in Operator : RetryWrite(o) \/ \E d \in Delivery : RetryRead(o, d)
  BY <1>2, <1>3 DEF AlertDelivered, AlertHandleFailure, RecordDelivered, HandleFailureThen,
     TakeDue, EndTick, Post, RecordDeliveredRaises, HandleFailureRaises, Advance, vars,
     RetryWrite, RetryRead
<1>4. ASSUME NEW d \in Delivery, Insert(d) PROVE StoreInv'
  BY <1>4 DEF AlertInv, Insert
<1>5. CASE AlertShutdown \/ Exit \/ Start
  BY <1>5 DEF AlertInv, AlertShutdown, Shutdown, Exit, Start
<1> QED
  BY <1>1, <1>3, <1>4, <1>5 DEF AlertNext

\* What was asked for gets its row: no step but a failing statement or a crash drops a row
\* of a handler that is still to be inserted, and no row is ever deleted.
LEMMA CriticalStep ==
  ASSUME AlertInv, [AlertNext]_vars
  PROVE  CriticalAlwaysThrough'
<1>q. CriticalAlwaysThrough /\ TypeOK /\ StoreInv
  BY DEF AlertInv, WebhooksInv
<1>d. \A e \in Event, u \in Url : <<e, u>> \in Delivery /\ <<e, u>>[1] = e
  BY DEF Delivery
<1>t. trouble \in Nat /\ recorded \subseteq Event
  BY <1>q DEF TypeOK
<1>h. \A e \in Event : Asked(e) => e.event \in HandlerEvent
  BY AskedIsCritical
<1> DEFINE There(d) == row[d].status # "none" \/ d \in enq
<1>1. ASSUME NEW e \in Event, NEW q \in QuietSpec, NEW h \in Hour, NotifyEvent(e, q, h)
      PROVE  CriticalAlwaysThrough'
  <2>1. /\ enq \subseteq enq' /\ row' = row /\ trouble' = trouble /\ recorded' = recorded \cup {e}
        /\ Verdict(e, q, h) = "queued" => enq' = enq \cup ({e} \X Url)
        /\ process = "up" \/ e.event \notin HandlerEvent
    BY <1>1 DEF NotifyEvent
  <2>2. Asked(e) => Verdict(e, q, h) = "queued"
    BY <1>q, <1>h, <2>1, AskedIsCritical DEF Verdict, StoreInv
  <2>3. Asked(e) => \A u \in Url : <<e, u>> \in enq'
    BY <2>1, <2>2
  <2> QED
    BY <1>q, <2>1, <2>3 DEF CriticalAlwaysThrough
<1>2. ASSUME recorded' = recorded,
             \/ trouble' # 0
             \/ \A d \in Delivery : d[1].event \in HandlerEvent /\ There(d) => There(d)',
             trouble' = 0 => trouble = 0
      PROVE  CriticalAlwaysThrough'
  <2> SUFFICES ASSUME NEW e \in recorded, trouble' = 0, Asked(e), NEW u \in Url
               PROVE  There(<<e, u>>)'
    BY <1>2 DEF CriticalAlwaysThrough
  <2>1. <<e, u>> \in Delivery /\ <<e, u>>[1] = e /\ e.event \in HandlerEvent
    BY <1>d, <1>t, <1>h
  <2>2. There(<<e, u>>)
    BY <1>q, <1>2 DEF CriticalAlwaysThrough
  <2> QED
    BY <1>2, <2>1, <2>2
<1>3. CASE UNCHANGED <<row, enq, recorded>> /\ (trouble' = trouble \/ trouble' = trouble + 1)
  BY <1>t, <1>2, <1>3
<1>4. CASE TakeDue \/ EndTick \/ Post \/ RecordDeliveredRaises \/ HandleFailureRaises
           \/ AlertShutdown \/ Start \/ UNCHANGED vars
           \/ \E o \in Operator, d \in Delivery : RetryRead(o, d)
  BY <1>3, <1>4 DEF TakeDue, EndTick, Post, RecordDeliveredRaises, HandleFailureRaises,
     AlertShutdown, Shutdown, Start, vars, RetryRead, DbError
<1>5. CASE Outcome
  <2>1. OutcomeRow.status # "none" /\ UNCHANGED <<enq, trouble, recorded>>
    BY <1>q, <1>5, OutcomeFacts
  <2>2. row' = row \/ row' = [row EXCEPT ![cur.d] = OutcomeRow]
    BY <1>q, <1>5, OutcomeFacts
  <2>3. \A d \in Delivery : There(d) => There(d)'
    BY <1>q, <2>1, <2>2 DEF TypeOK
  <2> QED
    BY <1>2, <2>1, <2>3
<1>6. ASSUME NEW d \in Delivery, Insert(d) PROVE CriticalAlwaysThrough'
  <2>1. recorded' = recorded /\ d \in enq /\ enq' = enq \ {d}
    BY <1>6 DEF Insert
  <2>2. CASE DbError
    BY <1>t, <1>2, <2>1, <2>2 DEF DbError
  <2>3. CASE UpdateOutcome(d, Pending(0, 0)) /\ UNCHANGED trouble
    <3>1. CASE store = "open"
      <4>1. Pending(0, 0).status = "pending"
        BY DEF Pending
      <4>2. row' = [row EXCEPT ![d] = Pending(0, 0)]
        BY <2>3, <3>1 DEF UpdateOutcome
      <4>3. \A c \in Delivery : There(c) => There(c)'
        BY <1>q, <2>1, <4>1, <4>2 DEF TypeOK
      <4> QED
        BY <1>2, <2>1, <2>3, <4>3
    <3>2. CASE store # "open"
      <4>1. row' = row /\ d[1].event \notin HandlerEvent
        BY <1>q, <2>1, <2>3, <3>2 DEF UpdateOutcome, StoreInv
      <4>2. \A c \in Delivery : c[1].event \in HandlerEvent /\ There(c) => There(c)'
        BY <2>1, <4>1
      <4> QED
        BY <1>2, <2>1, <2>3, <4>2
    <3> QED
      BY <3>1, <3>2
  <2> QED
    BY <1>6, <2>2, <2>3 DEF Insert
<1>7. ASSUME NEW o \in Operator, RetryWrite(o) PROVE CriticalAlwaysThrough'
  <2>1. Forced(cli[o]).status = "pending" /\ UNCHANGED <<enq, trouble, recorded>>
    BY <1>7 DEF RetryWrite, Forced, Pending
  <2>2. \A d \in Delivery : There(d) => There(d)'
    BY <1>q, <1>7, <2>1 DEF RetryWrite, TypeOK
  <2> QED
    BY <1>2, <2>1, <2>2
<1>8. CASE Advance
  <2>1. UNCHANGED <<enq, trouble, recorded>>
    BY <1>8 DEF Advance
  <2>2. \A d \in Delivery : There(d) => There(d)'
    BY <1>q, <1>8, <2>1, AdvanceFacts
  <2> QED
    BY <1>2, <2>1, <2>2
<1>9. CASE Exit
  <2>1. recorded' = recorded /\ row' = row /\ enq' = {}
    BY <1>9 DEF Exit
  <2>2. CASE process = "stopping"
    <3>1. trouble' = trouble /\ \A d \in enq : d[1].event \notin HandlerEvent
      BY <1>q, <1>9, <2>2 DEF Exit, StoreInv
    <3>2. \A c \in Delivery : c[1].event \in HandlerEvent /\ There(c) => There(c)'
      BY <2>1, <3>1
    <3> QED
      BY <1>2, <2>1, <3>1, <3>2
  <2>3. CASE process # "stopping"
    <3>1. trouble' = trouble + 1
      BY <1>9, <2>3 DEF Exit
    <3> QED
      BY <1>t, <1>2, <2>1, <3>1
  <2> QED
    BY <2>2, <2>3
<1> QED
  BY <1>1, <1>4, <1>5, <1>6, <1>7, <1>8, <1>9
  DEF AlertNext, AlertDelivered, AlertHandleFailure, Outcome

\* The invariant holds in every state.
LEMMA AlertHolds == AlertSpec => []AlertInv
<1>1. Init => AlertInv
  BY InitHolds DEF Init, AlertInv, StoreInv, CriticalAlwaysThrough
<1>2. AlertInv /\ [AlertNext]_vars => AlertInv'
  BY QueueStep, StoreStep, CriticalStep DEF AlertInv
<1> QED
  BY <1>1, <1>2, PTL DEF AlertSpec

----------------------------------------------------------------------------
(* The theorems.                                                           *)

\* In the quiet window only critical events are queued, only there is a matching event
\* dropped, and a critical one never, for every window, every rule and every length of the
\* day, in the queue's every state.
THEOREM QuietKept == Spec => []QuietHoursKept
BY RulesKept, PTL

\* A critical event the operator asked for gets its row at any hour and across orderly
\* restarts, while no statement fails and the process does not crash.
THEOREM CriticalThrough == AlertSpec => []CriticalAlwaysThrough
<1>1. AlertInv => CriticalAlwaysThrough
  BY DEF AlertInv
<1> QED
  BY <1>1, AlertHolds, PTL

\* The alert queue keeps the promises of the webhook queue: an alert marked delivered
\* was accepted by Telegram, and it is tried as often as the schedule says.
THEOREM AlertQueueSafe == AlertSpec => [](DeliveredWasAccepted /\ AttemptsMatchSchedule)
<1>1. AlertInv => DeliveredWasAccepted /\ AttemptsMatchSchedule
  BY InvariantImplies DEF AlertInv
<1> QED
  BY <1>1, AlertHolds, PTL
=============================================================================
