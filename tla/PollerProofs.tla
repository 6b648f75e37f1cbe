---------------------------- MODULE PollerProofs ----------------------------
(***************************************************************************)
(* Theorems about ReceiptPoller, for any set of payments, any look-back,   *)
(* give-up period and batch size, punctual or not, under failing RPCs,     *)
(* database and audit writes, slow stops, crashes and restarts.            *)
(***************************************************************************)
EXTENDS ReceiptPoller, SequenceTheorems, TLAPS

USE PollerAssumption, CodesAssumption

----------------------------------------------------------------------------
(* The inductive invariant.                                                *)

\* The candidates still to be polled are committed, unresolved and distinct, and the
\* one in _poll_one is none of them.
QueueInv ==
  /\ \A i, j \in DOMAIN todo : todo[i] = todo[j] => i = j
  /\ \A i \in DOMAIN todo : created[todo[i]] # Never /\ status[todo[i]] = NoStatus
  /\ pc \in {"upsert", "emit"} =>
       cur.txid \in Txid /\ \A i \in DOMAIN todo : todo[i] # cur.txid

\* The connection of a running process is open; only a stop that ran into its join
\* timeout closes it under a working thread.
LifeInv ==
  /\ process = "up" => conn = "open"
  /\ process = "down" => pc = "waiting"
  /\ conn = "closed" /\ process # "down" => slowStops > 0

\* What _poll_one has found out is still so when it is written.
FoundInv ==
  pc = "upsert" =>
    LET x == cur.txid
    IN /\ status[x] = NoStatus /\ created[x] # Never
       /\ cur.at \in Time /\ cur.first = IF seen[x] = Never THEN cur.at ELSE seen[x]
       /\ cur.first >= created[x]
       /\ cur.status = "GIVEUP" => cur.at - cur.first >= Giveup
       /\ cur.status \in TERMINAL_STATUSES \ {"GIVEUP"} => fate[x] = cur.status

\* What the rows of tx_status say of committed payments.
RowInv ==
  \A x \in Txid :
    /\ created[x] <= now
    /\ seen[x] # Never => created[x] # Never /\ seen[x] >= created[x]
    /\ status[x] # NoStatus => seen[x] # Never
    /\ status[x] = "GIVEUP" => checked[x] - seen[x] >= Giveup
    /\ status[x] \notin {NoStatus, "GIVEUP"} => fate[x] = status[x]

\* RECEIPT_RESOLVED records a payment may have: one for its resolved row, and one for
\* each slow stop.
Allowed(x) == slowStops + IF status[x] = NoStatus THEN 0 ELSE 1

ReceiptInv ==
  /\ \A x \in Txid :
       /\ Len(receipts[x]) <= Allowed(x)
       /\ slowStops = 0 /\ receipts[x] # <<>> => receipts[x] = <<status[x]>>
  /\ pc = "emit" =>
       /\ Len(receipts[cur.txid]) < Allowed(cur.txid)
       /\ cur.status \in TERMINAL_STATUSES
       /\ slowStops = 0 => status[cur.txid] = cur.status
  /\ pc = "upsert" /\ conn = "closed" => Len(receipts[cur.txid]) < slowStops

PollerInv == TypeOK /\ QueueInv /\ LifeInv /\ FoundInv /\ RowInv /\ ReceiptInv

----------------------------------------------------------------------------
(* The steps of the thread.                                                *)

\* A batch consists of distinct candidates.
LEMMA TickFacts ==
  ASSUME Tick
  PROVE  /\ process = "up" /\ pc' = "tick"
         /\ todo' \in Seq(Txid) /\ Len(todo') <= Batch
         /\ \A i, j \in DOMAIN todo' : todo'[i] = todo'[j] => i = j
         /\ \A i \in DOMAIN todo' :
              created[todo'[i]] # Never /\ status[todo'[i]] = NoStatus
         /\ UNCHANGED <<now, created, fate, seen, checked, status, process, conn, cur,
                        ticked, receipts, rpcErrors, slowStops>>
<1>1. PICK n \in 0..Batch : \E c \in [1..n -> Candidates] : IsBatch(c) /\ todo' = c
  BY DEF Tick
<1>2. todo' \in [1..n -> Candidates] /\ IsBatch(todo')
  BY <1>1
<1>3. Candidates \subseteq Txid
  BY DEF Candidates
<1>4. todo' \in Seq(Candidates) /\ Len(todo') = n /\ DOMAIN todo' = 1..n
  BY <1>2
<1>5. todo' \in Seq(Txid) /\ Len(todo') <= Batch
  BY <1>3, <1>4, SeqMonotonic
<1>6. \A i \in DOMAIN todo' : todo'[i] \in Candidates
  BY <1>2
<1>7. \A i, j \in DOMAIN todo' : todo'[i] = todo'[j] => i = j
  BY <1>2 DEF IsBatch
<1>8. \A i \in DOMAIN todo' : created[todo'[i]] # Never /\ status[todo'[i]] = NoStatus
  BY <1>6 DEF Candidates
<1> QED
  BY <1>5, <1>7, <1>8 DEF Tick, table, counters

\* What Poll finds out about the payment it takes from the queue.
LEMMA PollFacts ==
  ASSUME TypeOK, QueueInv, RowInv, Poll
  PROVE  /\ pc = "tick" /\ pc' = "upsert" /\ process = "up"
         /\ todo # <<>> /\ todo' = Tail(todo)
         /\ cur'.txid = Head(todo) /\ Head(todo) \in Txid
         /\ created[Head(todo)] # Never /\ status[Head(todo)] = NoStatus
         /\ cur'.at = now
         /\ cur'.first = IF seen[Head(todo)] = Never THEN now ELSE seen[Head(todo)]
         /\ cur'.first \in Time /\ cur'.first >= created[Head(todo)]
         /\ cur'.status = "GIVEUP" => now - cur'.first >= Giveup
         /\ cur'.status \in TERMINAL_STATUSES \ {"GIVEUP"} => fate[Head(todo)] = cur'.status
         /\ cur'.status \in RETRY_STATUSES \cup Codes \cup {"GIVEUP"}
         /\ cur' = [txid |-> cur'.txid, status |-> cur'.status, at |-> cur'.at,
                    first |-> cur'.first]
         /\ rpcErrors' \in 0..MaxRpcErrors
         /\ UNCHANGED <<now, created, fate, seen, checked, status, process, conn, ticked,
                        receipts, slowStops>>
<1> DEFINE x == Head(todo)
<1>1. todo \in Seq(Txid) /\ todo # <<>>
  BY DEF Poll, TypeOK
<1>2. x \in Txid /\ x = todo[1] /\ 1 \in DOMAIN todo
  BY <1>1
<1>3. created[x] # Never /\ status[x] = NoStatus
  BY <1>2 DEF QueueInv
<1>4. PICK r \in Responses(x) :
        /\ r.kind = "rpc_error" => rpcErrors < MaxRpcErrors
        /\ rpcErrors' = IF r.kind = "rpc_error" THEN rpcErrors + 1 ELSE rpcErrors
        /\ cur' = [txid |-> x, status |-> Verdict(x, Classify(r)),
                   at |-> now, first |-> FirstSeen(x)]
  BY DEF Poll
<1>5. fate[x] \in Fate /\ seen[x] \in Time \cup {Never} /\ now \in Time
      /\ created[x] \in Time \cup {Never} /\ rpcErrors \in 0..MaxRpcErrors
  BY <1>2 DEF TypeOK
<1>6. \/ r.kind \in {"rpc_error", "not_found", "no_block"}
      \/ r.kind = "in_block" /\ r.code = fate[x] /\ fate[x] \in Codes
  <2>1. CASE fate[x] = "evicted"
    BY <1>4, <2>1 DEF Responses
  <2>2. CASE fate[x] = "mempool"
    BY <1>4, <2>2 DEF Responses
  <2>3. CASE fate[x] \in Codes
    <3>1. fate[x] \notin {"evicted", "mempool"}
      BY <2>3
    <3> QED
      BY <1>4, <2>3, <3>1 DEF Responses
  <2> QED
    BY <1>5, <2>1, <2>2, <2>3 DEF Fate
<1>7. \/ Classify(r) \in RETRY_STATUSES
      \/ Classify(r) = fate[x] /\ fate[x] \in Codes
  BY <1>6 DEF Classify, RETRY_STATUSES
<1>8. \/ Verdict(x, Classify(r)) \in RETRY_STATUSES
      \/ Verdict(x, Classify(r)) = fate[x] /\ fate[x] \in Codes
      \/ Verdict(x, Classify(r)) = "GIVEUP" /\ now - FirstSeen(x) >= Giveup
  BY <1>7 DEF Verdict
<1>9. FirstSeen(x) \in Time /\ FirstSeen(x) >= created[x]
  BY <1>2, <1>5 DEF FirstSeen, RowInv, Time, Never
<1>10. RETRY_STATUSES \cap TERMINAL_STATUSES = {} /\ "GIVEUP" \notin Codes
  BY DEF RETRY_STATUSES, TERMINAL_STATUSES
<1>11. /\ cur'.status = "GIVEUP" => now - cur'.first >= Giveup
       /\ cur'.status \in TERMINAL_STATUSES \ {"GIVEUP"} => fate[x] = cur'.status
       /\ cur'.status \in RETRY_STATUSES \cup Codes \cup {"GIVEUP"}
  BY <1>4, <1>8, <1>10 DEF RETRY_STATUSES
<1>12. rpcErrors' \in 0..MaxRpcErrors
  BY <1>4, <1>5
<1> QED
  BY <1>1, <1>2, <1>3, <1>4, <1>9, <1>11, <1>12 DEF Poll, FirstSeen, table

\* What Upsert writes, and where the thread goes from there.
LEMMA UpsertFacts ==
  ASSUME TypeOK, QueueInv, FoundInv, Upsert
  PROVE  LET x == cur.txid
             terminal == cur.status \in TERMINAL_STATUSES
         IN /\ pc = "upsert" /\ x \in Txid
            /\ conn = "open" =>
                 /\ seen' = [seen EXCEPT ![x] = cur.first]
                 /\ checked' = [checked EXCEPT ![x] = cur.at]
                 /\ status' = [status EXCEPT ![x] = IF terminal THEN cur.status ELSE NoStatus]
            /\ conn # "open" => UNCHANGED <<seen, checked, status>>
            /\ terminal => pc' = "emit" /\ cur' = cur
            /\ ~ terminal => pc' = "tick" /\ cur' = NoCur
            /\ UNCHANGED <<now, created, fate, process, conn, todo, ticked, receipts,
                           rpcErrors, slowStops>>
<1>1. pc = "upsert" /\ cur.txid \in Txid
  BY DEF Upsert, UpsertAs, QueueInv
<1>2. KeptFirstSeen = cur.first
  BY <1>1 DEF KeptFirstSeen, FoundInv
<1> QED
  BY <1>1, <1>2 DEF Upsert, UpsertAs, table, counters
----------------------------------------------------------------------------
(* Each part of the invariant is inductive relative to the others.       *)

\* Nothing found has the type of what is found.
LEMMA NothingFound == NoCur \in Found
BY DEF NoCur, Found

\* TypeOK is inductive relative to the invariants of the thread.
LEMMA TypeStep ==
  ASSUME TypeOK, QueueInv, FoundInv, RowInv, ReceiptInv, [Next]_vars
  PROVE  TypeOK'
<1> USE DEF TypeOK, table, counters, Time
<1>1. CASE Tick
  BY <1>1, TickFacts
<1>2. CASE TickRaises
  <2>1. ticked' \in Time \cup {Never}
    BY <1>2 DEF TickRaises, TickDone
  <2> QED
    BY <1>2, <2>1 DEF TickRaises
<1>3. CASE EndTick
  <2>1. ticked' \in Time \cup {Never}
    BY <1>3 DEF EndTick, TickDone
  <2> QED
    BY <1>3, <2>1 DEF EndTick
<1>4. CASE Poll
  <2>1. todo \in Seq(Txid) /\ todo # <<>> /\ Len(todo) <= Batch
    BY <1>4, PollFacts
  <2>2. Tail(todo) \in Seq(Txid) /\ Len(Tail(todo)) <= Batch
    <3> HIDE DEF TypeOK
    <3>1. Tail(todo) \in Seq(Txid) /\ Len(Tail(todo)) = Len(todo) - 1 /\ Len(todo) \in Nat
      BY <2>1
    <3> QED
      BY <2>1, <3>1
  <2>3. cur' \in Found
    BY <1>4, PollFacts DEF TERMINAL_STATUSES, Found
  <2> QED
    BY <1>4, <2>2, <2>3, PollFacts
<1>5. CASE Upsert
  <2>1. cur.first \in Time \cup {Never} /\ cur.at \in Time
    BY <1>5, UpsertFacts DEF FoundInv
  <2>2. seen' \in [Txid -> Time \cup {Never}] /\ checked' \in [Txid -> Time \cup {Never}]
    BY <1>5, <2>1, UpsertFacts
  <2>3. status' \in [Txid -> TERMINAL_STATUSES \cup {NoStatus}]
    BY <1>5, UpsertFacts
  <2>4. pc' \in {"waiting", "tick", "upsert", "emit"} /\ (cur' = cur \/ cur' = NoCur)
    BY <1>5, UpsertFacts
  <2>5. cur' \in Found
    BY <2>4, NothingFound
  <2> QED
    BY <1>5, <2>2, <2>3, <2>4, <2>5, UpsertFacts
<1>6. CASE UpsertRaises
  <2>1. ticked' \in Time \cup {Never}
    BY <1>6 DEF UpsertRaises, TickDone
  <2> QED
    BY <1>6, <2>1, NothingFound DEF UpsertRaises
<1>7. CASE EmitReceipt
  <2>1. cur.txid \in Txid /\ cur.status \in TERMINAL_STATUSES
    BY <1>7 DEF EmitReceipt, QueueInv, ReceiptInv
  <2>2. receipts' \in [Txid -> Seq(TERMINAL_STATUSES)]
    <3>1. Append(receipts[cur.txid], cur.status) \in Seq(TERMINAL_STATUSES)
      BY <2>1, AppendProperties
    <3>2. receipts \in [Txid -> Seq(TERMINAL_STATUSES)]
      BY DEF TypeOK
    <3> HIDE DEF TypeOK
    <3> QED
      BY <1>7, <2>1, <3>1, <3>2 DEF EmitReceipt
  <2> QED
    BY <1>7, <2>2, NothingFound DEF EmitReceipt
<1>8. CASE Advance BY <1>8 DEF Advance
<1>9. ASSUME NEW x \in Txid, CommitPayment(x) PROVE TypeOK'
  <2>1. created' \in [Txid -> Time \cup {Never}]
    BY <1>9 DEF CommitPayment
  <2> QED
    BY <1>9, <2>1 DEF CommitPayment
<1>10. ASSUME NEW x \in Txid, Settle(x) PROVE TypeOK'
  <2>1. fate' \in [Txid -> Fate]
    BY <1>10 DEF Settle, Fate
  <2> QED
    BY <1>10, <2>1 DEF Settle
<1>11. CASE Stop BY <1>11 DEF Stop
<1>12. CASE StopTimesOut BY <1>12 DEF StopTimesOut
<1>13. CASE Exit
  BY <1>13, NothingFound DEF Exit
<1>14. CASE Start BY <1>14 DEF Start
<1>15. CASE UNCHANGED vars BY <1>15 DEF vars
<1> QED
  BY <1>1, <1>2, <1>3, <1>4, <1>5, <1>6, <1>7, <1>8, <1>9, <1>10, <1>11,
     <1>12, <1>13, <1>14, <1>15 DEF Next, Thread, World, Life

\* QueueInv is inductive relative to TypeOK and what _poll_one has found.
LEMMA QueueStep ==
  ASSUME TypeOK, QueueInv, LifeInv, FoundInv, RowInv, ReceiptInv, [Next]_vars
  PROVE  QueueInv'
<1> USE DEF QueueInv, table, counters
<1>1. CASE Tick
  BY <1>1, TickFacts
<1>2. CASE TickRaises BY <1>2 DEF TickRaises, TickDone
<1>3. CASE EndTick BY <1>3 DEF EndTick, TickDone
<1>4. CASE Poll
  <2>1. todo \in Seq(Txid) /\ todo # <<>> /\ todo' = Tail(todo)
    BY <1>4, PollFacts DEF TypeOK
  <2>2. \A i \in DOMAIN todo' : i + 1 \in DOMAIN todo /\ todo'[i] = todo[i + 1] /\ i \in Nat \ {0}
    <3> HIDE DEF QueueInv
    <3> QED
      BY <2>1
  <2>3. Head(todo) = todo[1] /\ 1 \in DOMAIN todo
    BY <2>1
  <2>4. \A i, j \in DOMAIN todo' : todo'[i] = todo'[j] => i = j
    <3>1. SUFFICES ASSUME NEW i \in DOMAIN todo', NEW j \in DOMAIN todo', todo'[i] = todo'[j]
                   PROVE  i = j
      OBVIOUS
    <3>2. i + 1 = j + 1
      BY <2>2, <3>1
    <3> QED
      BY <2>2, <3>2
  <2>5. \A i \in DOMAIN todo' : created[todo'[i]] # Never /\ status[todo'[i]] = NoStatus
    BY <2>2
  <2>6. \A i \in DOMAIN todo' : todo'[i] # Head(todo)
    BY <2>2, <2>3
  <2> QED
    BY <1>4, <2>4, <2>5, <2>6, PollFacts
<1>5. CASE Upsert
  <2>1. \A y \in Txid : y # cur.txid => status'[y] = status[y]
    BY <1>5, UpsertFacts DEF TypeOK
  <2>2. \A i \in DOMAIN todo : todo[i] \in Txid
    BY DEF TypeOK
  <2> QED
    BY <1>5, <2>1, <2>2, UpsertFacts
<1>6. CASE UpsertRaises BY <1>6 DEF UpsertRaises, TickDone
<1>7. CASE EmitReceipt BY <1>7 DEF EmitReceipt
<1>8. CASE Advance BY <1>8 DEF Advance
<1>9. ASSUME NEW x \in Txid, CommitPayment(x) PROVE QueueInv'
  <2>1. \A y \in Txid : created'[y] # created[y] => y = x /\ created'[y] # Never
    BY <1>9 DEF CommitPayment, TypeOK, Time, Never
  <2>2. \A i \in DOMAIN todo : todo[i] \in Txid
    BY DEF TypeOK
  <2> QED
    BY <1>9, <2>1, <2>2 DEF CommitPayment
<1>10. ASSUME NEW x \in Txid, Settle(x) PROVE QueueInv'
  BY <1>10 DEF Settle
<1>11. CASE Stop BY <1>11 DEF Stop
<1>12. CASE StopTimesOut BY <1>12 DEF StopTimesOut
<1>13. CASE Exit BY <1>13 DEF Exit
<1>14. CASE Start BY <1>14 DEF Start
<1>15. CASE UNCHANGED vars BY <1>15 DEF vars
<1> QED
  BY <1>1, <1>2, <1>3, <1>4, <1>5, <1>6, <1>7, <1>8, <1>9, <1>10, <1>11,
     <1>12, <1>13, <1>14, <1>15 DEF Next, Thread, World, Life

\* LifeInv is inductive.
LEMMA LifeStep ==
  ASSUME TypeOK, QueueInv, LifeInv, FoundInv, RowInv, [Next]_vars
  PROVE  LifeInv'
<1> USE DEF LifeInv, table, counters
<1>1. CASE Tick
  BY <1>1, TickFacts
<1>2. CASE TickRaises BY <1>2 DEF TickRaises, TickDone
<1>3. CASE EndTick BY <1>3 DEF EndTick, TickDone
<1>4. CASE Poll
  BY <1>4, PollFacts
<1>5. CASE Upsert
  BY <1>5, UpsertFacts
<1>6. CASE UpsertRaises BY <1>6 DEF UpsertRaises, TickDone
<1>7. CASE EmitReceipt BY <1>7 DEF EmitReceipt
<1>8. CASE Advance BY <1>8 DEF Advance
<1>9. ASSUME NEW x \in Txid, CommitPayment(x) PROVE LifeInv'
  BY <1>9 DEF CommitPayment
<1>10. ASSUME NEW x \in Txid, Settle(x) PROVE LifeInv'
  BY <1>10 DEF Settle
<1>11. CASE Stop BY <1>11 DEF Stop
<1>12. CASE StopTimesOut
  BY <1>12 DEF StopTimesOut, TypeOK
<1>13. CASE Exit BY <1>13 DEF Exit
<1>14. CASE Start BY <1>14 DEF Start
<1>15. CASE UNCHANGED vars BY <1>15 DEF vars
<1> QED
  BY <1>1, <1>2, <1>3, <1>4, <1>5, <1>6, <1>7, <1>8, <1>9, <1>10, <1>11,
     <1>12, <1>13, <1>14, <1>15 DEF Next, Thread, World, Life

\* FoundInv is inductive: no other step touches what _poll_one is about to write.
LEMMA FoundStep ==
  ASSUME TypeOK, QueueInv, LifeInv, FoundInv, RowInv, ReceiptInv, [Next]_vars
  PROVE  FoundInv'
<1> USE DEF FoundInv, table, counters
<1>1. CASE Tick
  BY <1>1, TickFacts
<1>2. CASE TickRaises BY <1>2 DEF TickRaises, TickDone
<1>3. CASE EndTick BY <1>3 DEF EndTick, TickDone
<1>4. CASE Poll
  <2>1. now \in Time
    BY DEF TypeOK
  <2> QED
    BY <1>4, <2>1, PollFacts
<1>5. CASE Upsert
  BY <1>5, UpsertFacts
<1>6. CASE UpsertRaises BY <1>6 DEF UpsertRaises, TickDone
<1>7. CASE EmitReceipt BY <1>7 DEF EmitReceipt
<1>8. CASE Advance BY <1>8 DEF Advance
<1>9. ASSUME NEW x \in Txid, CommitPayment(x) PROVE FoundInv'
  <2>1. pc = "upsert" => created'[cur.txid] = created[cur.txid]
    BY <1>9 DEF CommitPayment, TypeOK, QueueInv
  <2> QED
    BY <1>9, <2>1 DEF CommitPayment
<1>10. ASSUME NEW x \in Txid, Settle(x) PROVE FoundInv'
  <2>1. pc = "upsert" /\ cur.status \in TERMINAL_STATUSES \ {"GIVEUP"} =>
          fate'[cur.txid] = fate[cur.txid]
    BY <1>10 DEF Settle, TypeOK, QueueInv, TERMINAL_STATUSES
  <2> QED
    BY <1>10, <2>1 DEF Settle
<1>11. CASE Stop BY <1>11 DEF Stop
<1>12. CASE StopTimesOut BY <1>12 DEF StopTimesOut
<1>13. CASE Exit BY <1>13 DEF Exit
<1>14. CASE Start BY <1>14 DEF Start
<1>15. CASE UNCHANGED vars BY <1>15 DEF vars
<1> QED
  BY <1>1, <1>2, <1>3, <1>4, <1>5, <1>6, <1>7, <1>8, <1>9, <1>10, <1>11,
     <1>12, <1>13, <1>14, <1>15 DEF Next, Thread, World, Life

\* RowInv is inductive: a verdict is written once, from what was found.
LEMMA RowStep ==
  ASSUME TypeOK, QueueInv, LifeInv, FoundInv, RowInv, ReceiptInv, [Next]_vars
  PROVE  RowInv'
<1> USE DEF RowInv, table, counters
<1>1. CASE Tick
  BY <1>1, TickFacts
<1>2. CASE TickRaises BY <1>2 DEF TickRaises, TickDone
<1>3. CASE EndTick BY <1>3 DEF EndTick, TickDone
<1>4. CASE Poll
  BY <1>4, PollFacts
<1>5. CASE Upsert
  <2> DEFINE x == cur.txid
  <2>1. x \in Txid /\ pc = "upsert"
    BY <1>5, UpsertFacts
  <2>2. CASE conn # "open"
    BY <1>5, <2>2, UpsertFacts
  <2>3. CASE conn = "open"
    <3>1. /\ seen'[x] = cur.first /\ checked'[x] = cur.at
          /\ status'[x] = IF cur.status \in TERMINAL_STATUSES THEN cur.status ELSE NoStatus
          /\ created' = created /\ fate' = fate /\ now' = now
      BY <1>5, <2>1, <2>3, UpsertFacts DEF TypeOK
    <3>2. /\ cur.first # Never /\ created[x] # Never /\ cur.first >= created[x]
          /\ cur.status = "GIVEUP" => cur.at - cur.first >= Giveup
          /\ cur.status \in TERMINAL_STATUSES \ {"GIVEUP"} => fate[x] = cur.status
      BY <2>1 DEF FoundInv, TypeOK, Time, Never
    <3>3. \A y \in Txid \ {x} : seen'[y] = seen[y] /\ checked'[y] = checked[y]
                                 /\ status'[y] = status[y]
      BY <1>5, <2>1, <2>3, UpsertFacts DEF TypeOK
    <3>4. created[x] <= now
      BY <2>1
    <3>5. ASSUME NEW y \in Txid PROVE RowInv!(y)'
      <4>1. CASE y = x
        <5> HIDE DEF RowInv, x
        <5> QED
          BY <3>1, <3>2, <3>4, <4>1 DEF NoStatus
      <4>2. CASE y # x
        BY <3>1, <3>3, <4>2
      <4> QED
        BY <4>1, <4>2
    <3> QED
      BY <3>5
  <2> QED
    BY <2>2, <2>3
<1>6. CASE UpsertRaises BY <1>6 DEF UpsertRaises, TickDone
<1>7. CASE EmitReceipt BY <1>7 DEF EmitReceipt
<1>8. CASE Advance
  <2>1. now' = now + 1 /\ now \in Time /\ created \in [Txid -> Time \cup {Never}]
    BY <1>8 DEF Advance, TypeOK
  <2> QED
    BY <1>8, <2>1 DEF Advance, Time, Never
<1>9. ASSUME NEW x \in Txid, CommitPayment(x) PROVE RowInv'
  <2>1. created'[x] = now /\ created[x] = Never /\ seen[x] = Never
    BY <1>9 DEF CommitPayment, TypeOK
  <2>2. \A y \in Txid \ {x} : created'[y] = created[y]
    BY <1>9 DEF CommitPayment, TypeOK
  <2>3. now \in Int
    BY DEF TypeOK, Time
  <2> QED
    BY <1>9, <2>1, <2>2, <2>3 DEF CommitPayment
<1>10. ASSUME NEW x \in Txid, Settle(x) PROVE RowInv'
  <2>1. \A y \in Txid : fate'[y] # fate[y] => fate[y] = "mempool"
    BY <1>10 DEF Settle, TypeOK
  <2>2. \A y \in Txid : status[y] # "mempool"
    BY DEF TypeOK, TERMINAL_STATUSES, NoStatus
  <2> QED
    BY <1>10, <2>1, <2>2 DEF Settle
<1>11. CASE Stop BY <1>11 DEF Stop
<1>12. CASE StopTimesOut BY <1>12 DEF StopTimesOut
<1>13. CASE Exit BY <1>13 DEF Exit
<1>14. CASE Start BY <1>14 DEF Start
<1>15. CASE UNCHANGED vars BY <1>15 DEF vars
<1> QED
  BY <1>1, <1>2, <1>3, <1>4, <1>5, <1>6, <1>7, <1>8, <1>9, <1>10, <1>11,
     <1>12, <1>13, <1>14, <1>15 DEF Next, Thread, World, Life

\* ReceiptInv is inductive: the record follows the row it is about, and only a slow
\* stop lets a later process resolve the payment again.
LEMMA ReceiptStep ==
  ASSUME TypeOK, QueueInv, LifeInv, FoundInv, RowInv, ReceiptInv, [Next]_vars
  PROVE  ReceiptInv'
<1> USE DEF ReceiptInv, Allowed, table, counters
<1>1. CASE Tick
  BY <1>1, TickFacts
<1>2. CASE TickRaises BY <1>2 DEF TickRaises, TickDone
<1>3. CASE EndTick BY <1>3 DEF EndTick, TickDone
<1>4. CASE Poll
  <2>1. conn = "open"
    BY <1>4, PollFacts DEF LifeInv
  <2> QED
    BY <1>4, <2>1, PollFacts
<1>5. CASE Upsert
  <2> DEFINE x == cur.txid
  <2>1. x \in Txid /\ pc = "upsert" /\ status[x] = NoStatus
    BY <1>5, UpsertFacts DEF FoundInv
  <2>2. /\ slowStops \in Nat /\ receipts' = receipts /\ slowStops' = slowStops /\ conn' = conn
        /\ \A y \in Txid : Len(receipts[y]) \in Nat
    BY <1>5, UpsertFacts DEF TypeOK
  <2>3. NoStatus \notin TERMINAL_STATUSES
    BY DEF NoStatus, TERMINAL_STATUSES
  <2>4. slowStops = 0 => receipts[x] = <<>>
    BY <2>1, <2>2, EmptySeq DEF TypeOK
  <2>5. CASE conn = "open"
    <3>1. /\ \A y \in Txid \ {x} : status'[y] = status[y]
          /\ status'[x] = IF cur.status \in TERMINAL_STATUSES THEN cur.status ELSE NoStatus
      BY <1>5, <2>1, <2>5, UpsertFacts DEF TypeOK
    <3>2. \A y \in Txid :
            /\ Len(receipts[y]) <= Allowed(y)'
            /\ slowStops = 0 /\ receipts[y] # <<>> => receipts[y] = <<status'[y]>>
      BY <2>1, <2>2, <2>4, <3>1
    <3>3. pc' = "emit" => /\ cur.status \in TERMINAL_STATUSES /\ cur' = cur
                          /\ status'[x] = cur.status
                          /\ Len(receipts[x]) < Allowed(x)'
      BY <1>5, <2>1, <2>2, <2>3, <3>1, UpsertFacts
    <3>4. pc' # "upsert"
      BY <1>5, UpsertFacts
    <3> QED
      BY <2>2, <3>2, <3>3, <3>4
  <2>6. CASE conn # "open"
    <3>1. status' = status /\ conn = "closed"
      BY <1>5, <2>6, UpsertFacts DEF TypeOK
    <3>2. Len(receipts[x]) < slowStops
      BY <2>1, <3>1
    <3>3. pc' = "emit" => cur.status \in TERMINAL_STATUSES /\ cur' = cur
      BY <1>5, UpsertFacts
    <3>4. pc' # "upsert"
      BY <1>5, UpsertFacts
    <3> QED
      BY <2>1, <2>2, <3>1, <3>2, <3>3, <3>4
  <2> QED
    BY <2>5, <2>6
<1>6. CASE UpsertRaises BY <1>6 DEF UpsertRaises, TickDone
<1>7. CASE EmitReceipt
  <2> DEFINE x == cur.txid
  <2>1. /\ x \in Txid /\ pc = "emit" /\ pc' = "tick" /\ status' = status
        /\ slowStops' = slowStops /\ slowStops \in Nat
    BY <1>7 DEF EmitReceipt, QueueInv, TypeOK
  <2>2. CASE UNCHANGED receipts
    BY <2>1, <2>2
  <2>3. CASE receipts' = [receipts EXCEPT ![x] = Append(receipts[x], cur.status)]
    <3>1. receipts[x] \in Seq(TERMINAL_STATUSES) /\ cur.status \in TERMINAL_STATUSES
      BY <2>1 DEF TypeOK
    <3>2. /\ receipts'[x] = Append(receipts[x], cur.status)
          /\ \A y \in Txid \ {x} : receipts'[y] = receipts[y]
      BY <2>1, <2>3 DEF TypeOK
    <3>3. Len(receipts'[x]) = Len(receipts[x]) + 1 /\ Len(receipts[x]) \in Nat
      BY <3>1, <3>2
    <3>4. Len(receipts'[x]) <= Allowed(x)
      BY <2>1, <3>3
    <3>5. slowStops = 0 => receipts'[x] = <<status[x]>>
      <4>1. SUFFICES ASSUME slowStops = 0 PROVE receipts'[x] = <<status[x]>>
        OBVIOUS
      <4>2. status[x] = cur.status /\ Len(receipts[x]) = 0
        BY <2>1, <3>3, <4>1
      <4>3. receipts[x] = <<>>
        BY <3>1, <4>2, EmptySeq
      <4> QED
        BY <3>2, <4>2, <4>3
    <3> QED
      BY <2>1, <3>2, <3>4, <3>5
  <2> QED
    BY <1>7, <2>2, <2>3 DEF EmitReceipt
<1>8. CASE Advance BY <1>8 DEF Advance
<1>9. ASSUME NEW x \in Txid, CommitPayment(x) PROVE ReceiptInv'
  BY <1>9 DEF CommitPayment
<1>10. ASSUME NEW x \in Txid, Settle(x) PROVE ReceiptInv'
  BY <1>10 DEF Settle
<1>11. CASE Stop BY <1>11 DEF Stop
<1>12. CASE StopTimesOut
  <2>1. slowStops \in Nat /\ \A y \in Txid : Len(receipts[y]) \in Nat
    BY DEF TypeOK
  <2>2. pc = "upsert" => cur.txid \in Txid /\ status[cur.txid] = NoStatus
    BY DEF QueueInv, FoundInv
  <2>3. pc = "emit" => cur.txid \in Txid
    BY DEF QueueInv
  <2> QED
    BY <1>12, <2>1, <2>2, <2>3 DEF StopTimesOut
<1>13. CASE Exit BY <1>13 DEF Exit
<1>14. CASE Start
  <2>1. pc = "waiting"
    BY <1>14 DEF Start, LifeInv
  <2> QED
    BY <1>14, <2>1 DEF Start
<1>15. CASE UNCHANGED vars BY <1>15 DEF vars
<1> QED
  BY <1>1, <1>2, <1>3, <1>4, <1>5, <1>6, <1>7, <1>8, <1>9, <1>10, <1>11,
     <1>12, <1>13, <1>14, <1>15 DEF Next, Thread, World, Life

\* The invariant holds in every state.
LEMMA PollerHolds == Spec => []PollerInv
<1>1. Init => PollerInv
  <2> SUFFICES ASSUME Init PROVE PollerInv
    OBVIOUS
  <2> USE DEF Init
  <2>1. TypeOK
    BY NothingFound DEF TypeOK, Time, Fate
  <2>2. QueueInv /\ LifeInv /\ FoundInv
    BY DEF QueueInv, LifeInv, FoundInv
  <2>3. RowInv
    BY DEF RowInv, Never, NoStatus
  <2>4. ReceiptInv
    BY DEF ReceiptInv, Allowed
  <2> QED
    BY <2>1, <2>2, <2>3, <2>4 DEF PollerInv
<1>2. PollerInv /\ [Next]_vars => PollerInv'
  BY TypeStep, QueueStep, LifeStep, FoundStep, RowStep, ReceiptStep DEF PollerInv
<1> QED
  BY <1>1, <1>2, PTL DEF Spec

----------------------------------------------------------------------------
(* The theorems.                                                           *)

\* Every variable has the values the code can give it.
THEOREM TypeCorrect == Spec => []TypeOK
<1>1. PollerInv => TypeOK
  BY DEF PollerInv
<1> QED
  BY <1>1, PollerHolds, PTL

\* A resolved row tells what the network did, whatever RPC failures, lagging nodes,
\* failing writes, slow stops, crashes and restarts came before.
THEOREM VerdictTrue == Spec => []VerdictIsTrue
<1>1. PollerInv => VerdictIsTrue
  BY DEF PollerInv, RowInv, VerdictIsTrue
<1> QED
  BY <1>1, PollerHolds, PTL

\* No payment is given up before it was looked for over the whole give-up period.
THEOREM GiveupPatient == Spec => []GiveupIsPatient
<1>1. PollerInv => GiveupIsPatient
  BY DEF PollerInv, RowInv, GiveupIsPatient, NoStatus
<1> QED
  BY <1>1, PollerHolds, PTL

\* The audit log has one RECEIPT_RESOLVED per payment, and at most one more for each
\* stop that left a thread behind.
THEOREM OneReceipt == Spec => []OneReceiptPerPayment
<1>1. PollerInv => OneReceiptPerPayment
  <2> SUFFICES ASSUME PollerInv, NEW x \in Txid
               PROVE  OneReceiptPerPayment!(x)
    BY DEF OneReceiptPerPayment
  <2>1. slowStops \in Nat /\ Len(receipts[x]) \in Nat
    BY DEF PollerInv, TypeOK
  <2> QED
    BY <2>1 DEF PollerInv, ReceiptInv, Allowed
<1> QED
  BY <1>1, PollerHolds, PTL

\* A resolved row is never rewritten: only _upsert writes a status, and the payment it
\* writes about has none.
THEOREM VerdictFinal == Spec => VerdictIsFinal
<1> DEFINE Kept == \A x \in Txid : status[x] # NoStatus => status'[x] = status[x]
<1>1. PollerInv /\ [Next]_vars => [Kept]_vars
  <2> SUFFICES ASSUME PollerInv, [Next]_vars PROVE Kept
    OBVIOUS
  <2>1. CASE Upsert
    <3>1. cur.txid \in Txid /\ status[cur.txid] = NoStatus
      BY <2>1, UpsertFacts DEF PollerInv, FoundInv
    <3>2. \A y \in Txid \ {cur.txid} : status'[y] = status[y]
      BY <2>1, UpsertFacts DEF PollerInv, TypeOK
    <3> QED
      BY <3>1, <3>2
  <2>2. CASE UNCHANGED status
    BY <2>2
  <2>3. Upsert \/ UNCHANGED status
    BY DEF Next, Thread, World, Life, vars, table, Tick, TickRaises, EndTick, Poll,
           UpsertRaises, EmitReceipt, Advance, CommitPayment, Settle, Stop,
           StopTimesOut, Exit, Start
  <2> QED
    BY <2>1, <2>2, <2>3
<1> QED
  BY <1>1, PollerHolds, PTL DEF Spec, VerdictIsFinal
============================================================================
