-------------------------- MODULE RateLimitProofs --------------------------
(***************************************************************************)
(* Theorems about RateLimit: for any number of clients, any capacity, cost *)
(* and refill, any idle threshold that leaves room for a check, with the   *)
(* sweeper, failing statements, restarts and a clock that steps back in    *)
(* every order.                                                            *)
(***************************************************************************)
EXTENDS RateLimit, TLAPS

----------------------------------------------------------------------------
(* The inductive invariant.                                                *)

Ideal == [tokens : Int, at : 0..MaxTime, void : BOOLEAN]

\* What a span of time brings, and what a bucket would hold without a capacity.
Gain(d) == Later(0, d) * Refill
Holds(b, now) == b.tokens + Gain(now - b.at)

\* A row read at wall time w, beside the ideal bucket at true time t: no more ahead of it
\* than its slack and, while the clock was never set back, not behind it.
Ahead(r, b, w, t) ==
  IF r = None THEN Full <= Holds(b, t) + Slack(b) ELSE Holds(r, w) <= Holds(b, t) + Slack(b)
Served(r, b, w, t) == Level(r, w) >= Refilled(b, t)
Fair(r, b, w, t) == Ahead(r, b, w, t) /\ (w = t => Served(r, b, w, t))

\* The ideal bucket after a check.
Paid(b, t, ok, void) == IF ok THEN Spent(b, t, void) ELSE b

Sound(r, now) == r # None => r.tokens >= 0 /\ r.at <= now

InTransaction == {"select", "write", "commit"}
Unread == check.pc = "select" \/ (check.pc = "begin" /\ ~ txn)
Mine == check.client

ClockInv ==
  /\ 0 <= time - wall /\ time - wall <= MaxStepBack
  /\ cutoff # NoCutoff => cutoff <= time - IdleThreshold

RowInv ==
  /\ \A c \in Client : Sound(db[c], time) /\ Sound(view[c], time) /\ ideal[c].at <= time
  /\ Sound(check.row, time)

\* The check in progress, its clock and the true time it came in at.
CheckInv ==
  /\ mode = "memory" => check.pc = "idle" /\ ~ txn
  /\ check.pc \in InTransaction => txn
  /\ check.pc # "idle" =>
       /\ 0 <= check.t - check.now /\ check.t - check.now <= time - wall
       /\ check.t <= time /\ time - check.t <= CheckTime
       /\ ideal[Mine].at <= check.t
       /\ cutoff # NoCutoff => cutoff <= check.now

\* What is committed is fair; in a transaction so is what the connection sees of the other
\* clients, and of its own client what the check has read and what it has written.
FairInv ==
  /\ \A c \in Client : Fair(db[c], ideal[c], wall, time)
  /\ check.pc \in InTransaction =>
       \A c \in Client \ {Mine} : Fair(view[c], ideal[c], wall, time)
  /\ Unread => Fair(view[Mine], ideal[Mine], check.now, check.t)
  /\ check.pc = "write" =>
       /\ Fair(check.row, ideal[Mine], check.now, check.t)
       /\ \/ view[Mine] = check.row
          \/ view[Mine] = None /\ Holds(ideal[Mine], check.t) >= Full
  /\ check.pc = "commit" =>
       \/ /\ view[Mine] = None
          /\ Fair(None, Paid(ideal[Mine], check.t, check.ok, TRUE), check.now, check.t)
       \/ /\ view[Mine] # None /\ view[Mine].at = check.now
          /\ Fair(view[Mine], Paid(ideal[Mine], check.t, check.ok, FALSE), check.now, check.t)

\* A row the waiting DELETE would take belongs to a client whose bucket is full again, at
\* the time the check in progress came in too.
SweepInv ==
  cutoff # NoCutoff =>
    /\ \A c \in Client : Idled(db[c]) => Holds(ideal[c], time) >= Full
    /\ check.pc \in InTransaction =>
         \A c \in Client \ {Mine} : Idled(view[c]) => Holds(ideal[c], time) >= Full
    /\ Unread \/ check.pc = "write" =>
         (Idled(view[Mine]) => Holds(ideal[Mine], check.t) >= Full)

LimitInv == TypeOK /\ ClockInv /\ RowInv /\ CheckInv /\ FairInv /\ SweepInv

----------------------------------------------------------------------------
(* Arithmetic.                                                             *)

LEMMA Numbers ==
  /\ Capacity \in Nat /\ Cost \in Nat /\ Cost > 0 /\ Refill \in Nat
  /\ IdleThreshold \in Nat /\ CheckTime \in Nat
  /\ MaxTime \in Nat /\ MaxFaults \in Nat /\ MaxStepBack \in Nat /\ MaxStepBack <= IdleThreshold
BY RateLimitAssumption

\* A full bucket holds at least one request.
LEMMA FullHolds == Full \in Nat /\ Cost <= Full
<1>1. Capacity \in Nat /\ Capacity >= 1 /\ Cost \in Nat
  BY RateLimitAssumption
<1>2. Capacity * Cost \in Nat /\ Capacity * Cost >= Cost
  BY <1>1
<1> QED
  BY <1>2 DEF Full

LEMMA LaterIs ==
  ASSUME NEW a \in Int, NEW b \in Int
  PROVE  Later(a, b) = IF a >= b THEN a ELSE b
BY DEF Later, Max

LEMMA LeastIs ==
  ASSUME NEW a \in Int, NEW b \in Int
  PROVE  Min({a, b}) = IF a <= b THEN a ELSE b
BY DEF Min

LEMMA TimesOrder ==
  ASSUME NEW a \in Nat, NEW b \in Nat, NEW k \in Nat, a <= b
  PROVE  a * k <= b * k /\ a * k \in Nat /\ b * k \in Nat
OBVIOUS

LEMMA TimesSum ==
  ASSUME NEW a \in Nat, NEW b \in Nat, NEW k \in Nat
  PROVE  (a + b) * k = a * k + b * k
OBVIOUS

\* More time brings more.
LEMMA GainOrder ==
  ASSUME NEW d \in Int, NEW e \in Int, d <= e
  PROVE  Gain(d) <= Gain(e) /\ Gain(d) \in Nat /\ Gain(e) \in Nat
<1>1. Later(0, d) \in Nat /\ Later(0, e) \in Nat /\ Later(0, d) <= Later(0, e)
  BY LaterIs
<1> QED
  BY <1>1, TimesOrder, Numbers DEF Gain

\* The gain of a sum, exact where the clock runs forward.
LEMMA GainSum ==
  ASSUME NEW d \in Int, NEW e \in Nat
  PROVE  /\ Gain(d + e) <= Gain(d) + Gain(e)
         /\ d >= 0 => Gain(d + e) = Gain(d) + Gain(e)
         /\ Gain(d) \in Nat /\ Gain(e) \in Nat /\ Gain(d + e) \in Nat
<1>1. Gain(d) \in Nat /\ Gain(e) \in Nat /\ Gain(d + e) \in Nat
  BY GainOrder
<1>2. PICK a \in Nat : a = Later(0, d) /\ a = IF d >= 0 THEN d ELSE 0
  BY LaterIs
<1>3. Later(0, e) = e
  BY LaterIs
<1>4. (a + e) * Refill = a * Refill + e * Refill
  BY TimesSum, Numbers
<1>5. Gain(d) + Gain(e) = (a + e) * Refill
  BY <1>2, <1>3, <1>4 DEF Gain
<1>6. PICK f \in Nat : f = Later(0, d + e) /\ f <= a + e /\ (d >= 0 => f = a + e)
  BY <1>2, LaterIs
<1>7. f * Refill <= (a + e) * Refill
  BY <1>6, TimesOrder, Numbers
<1>8. Gain(d + e) = f * Refill
  BY <1>6 DEF Gain
<1> QED
  BY <1>1, <1>5, <1>6, <1>7, <1>8

\* Idle for as long as the sweeper waits, less a check, a bucket has gained its capacity and
\* one request.
LEMMA GainIdle ==
  ASSUME NEW d \in Int, d >= IdleThreshold - CheckTime
  PROVE  Gain(d) >= Full + Cost /\ Gain(d) \in Nat
<1>1. PICK k \in Int : k = IdleThreshold - CheckTime /\ k * Refill >= Full + Cost
  BY Numbers, RateLimitAssumption
<1>2. k > 0
  <2>1. Refill \in Nat /\ Full + Cost > 0 /\ Full + Cost \in Nat
    BY Numbers, FullHolds
  <2>2. k <= 0 => k * Refill <= 0
    BY <2>1
  <2> QED
    BY <1>1, <2>1, <2>2
<1>3. Later(0, k) = k /\ k <= d
  BY <1>1, <1>2, LaterIs
<1>4. Gain(k) = k * Refill
  BY <1>3 DEF Gain
<1>5. Gain(k) <= Gain(d) /\ Gain(k) \in Nat /\ Gain(d) \in Nat
  BY <1>3, GainOrder
<1> QED
  BY <1>1, <1>4, <1>5, FullHolds, Numbers

\* What a bucket holds is a number, kept under the capacity.
LEMMA HoldsIs ==
  ASSUME NEW b, b.tokens \in Int, b.at \in Int, NEW t \in Int
  PROVE  /\ Holds(b, t) \in Int
         /\ Refilled(b, t) = IF Full <= Holds(b, t) THEN Full ELSE Holds(b, t)
<1>1. Gain(t - b.at) \in Nat
  BY GainOrder
<1>2. Holds(b, t) \in Int /\ Holds(b, t) = b.tokens + Later(0, t - b.at) * Refill
  BY <1>1 DEF Holds, Gain
<1>3. Refilled(b, t) = Min({Full, Holds(b, t)})
  BY <1>2 DEF Refilled
<1> QED
  BY <1>2, <1>3, LeastIs, FullHolds

LEMMA TypedBuckets ==
  /\ \A r \in Bucket : r.tokens \in Int /\ r.at \in Int /\ r.tokens <= Full
  /\ \A b \in Ideal : b.tokens \in Int /\ b.at \in Int
  /\ None \in Bucket
BY Numbers, FullHolds DEF Bucket, Ideal, None

\* A slack is at most one request.
LEMMA SlackIs ==
  ASSUME NEW b \in Ideal
  PROVE  Slack(b) \in Nat /\ Slack(b) <= Cost
BY Numbers DEF Slack

\* As time passes a bucket gains.
LEMMA HoldsOrder ==
  ASSUME NEW b \in Ideal, NEW t \in Int, NEW s \in Int, t <= s
  PROVE  Holds(b, t) <= Holds(b, s)
<1>1. Gain(t - b.at) <= Gain(s - b.at) /\ Gain(t - b.at) \in Nat /\ Gain(s - b.at) \in Nat
  BY TypedBuckets, GainOrder
<1> QED
  BY <1>1, TypedBuckets DEF Holds

\* A fair row stays fair while true time passes at least as fast as the clock.
LEMMA Aging ==
  ASSUME NEW r \in Bucket, NEW b \in Ideal, NEW w \in Int, NEW t \in Int,
         NEW v \in Int, NEW s \in Int,
         Fair(r, b, w, t), Sound(r, t), b.at <= t, w <= t, t <= s, v - w <= s - t
  PROVE  Fair(r, b, v, s)
<1>1. PICK d \in Nat : d = s - t
  OBVIOUS
<1>2. PICK x \in Int : x = w - r.at
  BY TypedBuckets
<1>3. PICK y \in Nat : y = t - b.at
  BY TypedBuckets
<1>4. Holds(b, s) = Holds(b, t) + Gain(d)
  <2>1. s - b.at = y + d /\ t - b.at = y
    BY <1>1, <1>3, TypedBuckets
  <2>2. Gain(y + d) = Gain(y) + Gain(d) /\ Gain(y) \in Nat /\ Gain(d) \in Nat
    <3>1. y \in Int /\ y >= 0
      BY <1>3
    <3> QED
      BY <1>1, <3>1, GainSum
  <2> QED
    BY <2>1, <2>2, TypedBuckets DEF Holds
<1>5. Holds(r, v) <= Holds(r, w) + Gain(d)
  <2>1. v - r.at <= x + d /\ w - r.at = x /\ v - r.at \in Int
    BY <1>1, <1>2, TypedBuckets
  <2>2. Gain(x + d) <= Gain(x) + Gain(d) /\ Gain(x) \in Nat /\ Gain(d) \in Nat
    BY <1>1, <1>2, GainSum
  <2>3. Gain(v - r.at) <= Gain(x + d) /\ Gain(x + d) \in Nat /\ Gain(v - r.at) \in Nat
    BY <2>1, <1>2, GainOrder
  <2> QED
    BY <2>1, <2>2, <2>3, TypedBuckets DEF Holds
<1>6. /\ Holds(b, s) \in Int /\ Holds(b, t) \in Int /\ Gain(d) \in Nat
      /\ Holds(r, v) \in Int /\ Holds(r, w) \in Int
  BY <1>1, TypedBuckets, HoldsIs, GainSum
<1>7. Ahead(r, b, v, s)
  <2>1. Ahead(r, b, w, t)
    BY DEF Fair
  <2> QED
    BY <2>1, <1>4, <1>5, <1>6, FullHolds, SlackIs DEF Ahead
<1>8. ASSUME v = s PROVE Served(r, b, v, s)
  <2>1. w = t /\ Served(r, b, w, t)
    BY <1>8 DEF Fair
  <2>2. CASE r = None
    BY <2>1, <2>2, TypedBuckets, HoldsIs, FullHolds DEF Served, Level
  <2>3. CASE r # None
    <3>1. Holds(r, v) = Holds(r, w) + Gain(d)
      <4>1. x \in Nat /\ v - r.at = x + d /\ w - r.at = x
        BY <1>1, <1>2, <1>8, <2>1, <2>3, TypedBuckets DEF Sound
      <4>2. Gain(x + d) = Gain(x) + Gain(d) /\ Gain(x) \in Nat /\ Gain(d) \in Nat
        <5>1. x \in Int /\ x >= 0
          BY <4>1
        <5> QED
          BY <1>1, <5>1, GainSum
      <4> QED
        BY <4>1, <4>2, TypedBuckets DEF Holds
    <3>2. Refilled(r, w) >= Refilled(b, t)
      BY <2>1, <2>3 DEF Served, Level
    <3>3. Refilled(r, v) >= Refilled(b, s)
      BY <3>1, <3>2, <1>4, <1>6, TypedBuckets, HoldsIs, FullHolds
    <3> QED
      BY <2>3, <3>3 DEF Served, Level
  <2> QED
    BY <2>2, <2>3
<1> QED
  BY <1>7, <1>8 DEF Fair

\* What a row reads, beside what it holds.
LEMMA LevelIs ==
  ASSUME NEW r \in Bucket, NEW w \in Int, r # None => r.tokens >= 0
  PROVE  /\ Level(r, w) \in 0..Full
         /\ r = None => Level(r, w) = Full
         /\ r # None => Level(r, w) = IF Full <= Holds(r, w) THEN Full ELSE Holds(r, w)
<1>1. Holds(r, w) \in Int /\ (r # None => Holds(r, w) >= 0)
  <2>1. Gain(w - r.at) \in Nat
    BY TypedBuckets, GainOrder
  <2> QED
    BY <2>1, TypedBuckets DEF Holds
<1> QED
  BY <1>1, TypedBuckets, HoldsIs, FullHolds DEF Level

\* A bucket just written holds what it was written with.
LEMMA HoldsNow ==
  ASSUME NEW b, b.tokens \in Int, b.at \in Int
  PROVE  Holds(b, b.at) = b.tokens
<1>1. Later(0, b.at - b.at) = 0
  BY LaterIs
<1>2. Gain(b.at - b.at) = 0
  BY <1>1, Numbers DEF Gain
<1> QED
  BY <1>2 DEF Holds

\* The bound the first theorem is about, and the one of the second.
LEMMA FairMeans ==
  ASSUME NEW r \in Bucket, NEW b \in Ideal, NEW w \in Int, NEW t \in Int,
         Fair(r, b, w, t), r # None => r.tokens >= 0
  PROVE  /\ Level(r, w) <= Refilled(b, t) + Slack(b)
         /\ w = t => Level(r, w) >= Refilled(b, t)
<1>1. Level(r, w) <= Refilled(b, t) + Slack(b)
  <2>1. Ahead(r, b, w, t)
    BY DEF Fair
  <2>2. Holds(b, t) \in Int /\ Holds(r, w) \in Int
    BY HoldsIs, TypedBuckets
  <2>3. Refilled(b, t) = IF Full <= Holds(b, t) THEN Full ELSE Holds(b, t)
    BY HoldsIs, TypedBuckets
  <2>4. CASE r = None
    BY <2>1, <2>2, <2>3, <2>4, LevelIs, FullHolds, SlackIs DEF Ahead
  <2>5. CASE r # None
    BY <2>1, <2>2, <2>3, <2>5, LevelIs, FullHolds, SlackIs DEF Ahead
  <2> QED
    BY <2>4, <2>5
<1> QED
  BY <1>1 DEF Fair, Served

\* What a request leaves of the ideal bucket.
LEMMA SpentIs ==
  ASSUME NEW b \in Ideal, NEW t \in 0..MaxTime, NEW void \in BOOLEAN
  PROVE  /\ Spent(b, t, void) \in Ideal /\ Spent(b, t, void).at = t
         /\ Spent(b, t, void).tokens = Refilled(b, t) - Cost
         /\ Spent(b, t, void).void = (void \/ (b.void /\ Refilled(b, t) < Full))
<1>1. t \in Int /\ Refilled(b, t) - Cost \in Int
  BY HoldsIs, TypedBuckets, FullHolds, Numbers
<1>2. PICK v \in BOOLEAN : v = (void \/ (b.void /\ Refilled(b, t) < Full))
  BY Zenon
<1>3. PICK k \in Int : k = Refilled(b, t) - Cost
  BY <1>1
<1>4. Spent(b, t, void) = [tokens |-> k, at |-> t, void |-> v]
  BY <1>2, <1>3, Zenon DEF Spent
<1>5. [tokens |-> k, at |-> t, void |-> v] \in Ideal
  BY DEF Ideal
<1>6. Spent(b, t, void).void = v /\ Spent(b, t, void).at = t /\ Spent(b, t, void).tokens = k
  BY <1>4
<1> QED
  BY <1>2, <1>3, <1>4, <1>5, <1>6, Zenon

\* A check keeps a row fair: it takes from it what it takes from the ideal bucket.
LEMMA CheckFair ==
  ASSUME NEW r \in Bucket, NEW b \in Ideal, NEW w \in -MaxStepBack..MaxTime,
         NEW t \in 0..MaxTime, Fair(r, b, w, t), r # None => r.tokens >= 0, b.at <= t
  PROVE  LET k == Checked(r, w)
         IN /\ k.ok \in BOOLEAN /\ k.row \in Bucket /\ k.row.tokens >= 0 /\ k.row.at = w
            /\ Paid(b, t, k.ok, FALSE) \in Ideal /\ Paid(b, t, k.ok, FALSE).at <= t
            /\ k.row # None /\ Fair(k.row, Paid(b, t, k.ok, FALSE), w, t)
<1> DEFINE k == Checked(r, w)
           p == Paid(b, t, k.ok, FALSE)
<1>0. w \in Int /\ t \in Int
  BY Numbers
<1>1. PICK l \in 0..Full : l = Level(r, w)
  BY <1>0, LevelIs
<1>2. PICK f \in Int : f = Refilled(b, t) /\ f <= Full /\ f <= Holds(b, t)
  BY <1>0, HoldsIs, TypedBuckets, FullHolds
<1>3. l <= f + Slack(b) /\ (w = t => l >= f) /\ Slack(b) \in Nat
  BY <1>0, <1>1, <1>2, FairMeans, SlackIs
<1>4. Holds(b, t) \in Int
  BY <1>0, HoldsIs, TypedBuckets
<1>5. CASE l >= Cost
  <2>1. k.ok \in BOOLEAN /\ k.ok /\ k.row = [tokens |-> l - Cost, at |-> w]
    <3>1. k = [ok |-> TRUE, row |-> [tokens |-> l - Cost, at |-> w]]
      BY <1>1, <1>5, Numbers, FullHolds DEF Checked
    <3> QED
      BY <3>1
  <2>2. p = Spent(b, t, FALSE)
    BY <2>1 DEF Paid
  <2> HIDE DEF p
  <2>3. k.row \in Bucket /\ k.row.tokens >= 0 /\ k.row.at = w /\ k.row # None
    BY <1>1, <1>5, <2>1, Numbers, FullHolds DEF Bucket, None
  <2>4. p \in Ideal /\ p.at = t /\ p.tokens = f - Cost /\ k.row.tokens = l - Cost
    <3>1. f - Cost \in Int
      BY <1>2, Numbers
    <3>2. p \in Ideal /\ p.at = t /\ p.tokens = f - Cost
      BY <1>2, <2>2, SpentIs, Zenon
    <3>3. k.row.tokens = l - Cost
      BY <2>1
    <3> QED
      BY <3>2, <3>3, Zenon
  <2>5. Holds(k.row, w) = l - Cost
    BY <1>0, <2>3, <2>4, TypedBuckets, HoldsNow
  <2>6. Holds(p, t) = f - Cost
    BY <1>0, <2>4, TypedBuckets, HoldsNow
  <2>a. l <= f + Slack(p) /\ Slack(p) \in Nat
    <3>1. p.void <=> (b.void /\ f < Full)
      <4>1. Spent(b, t, FALSE).void = (FALSE \/ (b.void /\ Refilled(b, t) < Full))
        BY SpentIs, Zenon
      <4> QED
        BY <1>2, <2>2, <4>1, Zenon
    <3>2. CASE b.void /\ f < Full
      BY <1>3, <3>1, <3>2, Numbers DEF Slack
    <3>3. CASE ~ (b.void /\ f < Full)
      <4>1. Slack(p) = 0
        BY <3>1, <3>3 DEF Slack
      <4>2. l <= f
        <5>1. CASE ~ b.void
          BY <1>1, <1>2, <1>3, <5>1, FullHolds DEF Slack
        <5>2. CASE b.void
          BY <1>1, <1>2, <3>3, <5>2, FullHolds
        <5> QED
          BY <5>1, <5>2
      <4> QED
        BY <1>1, <1>2, <4>1, <4>2, FullHolds
    <3> QED
      BY <3>2, <3>3
  <2>7. Ahead(k.row, p, w, t)
    BY <1>1, <1>2, <2>a, <2>3, <2>5, <2>6, Numbers, FullHolds DEF Ahead
  <2>8. Level(k.row, w) = IF Full <= l - Cost THEN Full ELSE l - Cost
    BY <1>0, <2>3, <2>5, LevelIs
  <2>9. Refilled(p, t) = IF Full <= f - Cost THEN Full ELSE f - Cost
    BY <1>0, <2>4, <2>6, TypedBuckets, HoldsIs
  <2>10. w = t => Served(k.row, p, w, t)
    BY <1>1, <1>2, <1>3, <2>8, <2>9, Numbers, FullHolds DEF Served
  <2>11. Fair(k.row, p, w, t)
    BY <2>7, <2>10 DEF Fair
  <2>12. p.at <= t
    BY <1>0, <2>4
  <2> QED
    BY <2>1, <2>3, <2>4, <2>11, <2>12, Zenon DEF p
<1>6. CASE ~ (l >= Cost)
  <2>1. k.ok \in BOOLEAN /\ ~ k.ok /\ k.row = [tokens |-> l, at |-> w]
    <3>1. k = [ok |-> FALSE, row |-> [tokens |-> l, at |-> w]]
      <4>1. (Level(r, w) >= Cost) = FALSE
        BY <1>1, <1>6, Numbers, FullHolds
      <4>2. k = [ok |-> (Level(r, w) >= Cost),
                 row |-> [tokens |-> IF Level(r, w) >= Cost THEN Level(r, w) - Cost ELSE Level(r, w),
                          at |-> w]]
        BY DEF Checked
      <4> QED
        BY <4>1, <4>2, <1>1, Zenon
    <3> QED
      BY <3>1
  <2>2. p = b
    BY <2>1 DEF Paid
  <2>3. k.row \in Bucket /\ k.row.tokens = l /\ k.row.tokens >= 0 /\ k.row.at = w /\ k.row # None
    BY <1>1, <2>1, Numbers, FullHolds DEF Bucket, None
  <2>4. Holds(k.row, w) = l
    BY <1>0, <2>3, TypedBuckets, HoldsNow
  <2>5. Ahead(k.row, b, w, t)
    BY <1>1, <1>2, <1>3, <1>4, <2>3, <2>4, FullHolds DEF Ahead
  <2>6. Level(k.row, w) = IF Full <= l THEN Full ELSE l
    BY <1>0, <2>3, <2>4, LevelIs
  <2>7. w = t => Served(k.row, b, w, t)
    BY <1>1, <1>2, <1>3, <2>6, Numbers, FullHolds DEF Served
  <2> QED
    BY <2>1, <2>2, <2>3, <2>5, <2>7 DEF Fair
<1> QED
  BY <1>5, <1>6

\* A client whose bucket is full may lose its row.
LEMMA FullFair ==
  ASSUME NEW b \in Ideal, NEW w \in Int, NEW t \in Int, Holds(b, t) >= Full
  PROVE  Fair(None, b, w, t) /\ Refilled(b, t) = Full /\ Level(None, w) = Full
<1>1. Holds(b, t) \in Int /\ Refilled(b, t) = Full /\ Full \in Nat /\ Cost \in Nat
  BY HoldsIs, TypedBuckets, FullHolds, Numbers
<1>2. Level(None, w) = Full
  BY DEF Level
<1> QED
  BY <1>1, <1>2, SlackIs DEF Fair, Ahead, Served

\* And the request it has just paid for.
LEMMA VoidFair ==
  ASSUME NEW b \in Ideal, NEW w \in Int, NEW t \in 0..MaxTime, Holds(b, t) >= Full,
         NEW ok \in BOOLEAN
  PROVE  Fair(None, Paid(b, t, ok, TRUE), w, t)
<1>0. t \in Int /\ Full \in Nat /\ Cost \in Nat
  BY Numbers, FullHolds
<1>1. Refilled(b, t) = Full
  BY <1>0, FullFair
<1>2. Level(None, w) = Full /\ Fair(None, b, w, t)
  BY <1>0, FullFair
<1>3. ASSUME ok PROVE Fair(None, Paid(b, t, ok, TRUE), w, t)
  <2>1. PICK p : p = Paid(b, t, ok, TRUE)
    OBVIOUS
  <2>0. p = Spent(b, t, TRUE)
    BY <1>3, <2>1 DEF Paid
  <2>2. p.tokens = Full - Cost /\ p.at = t /\ Slack(p) = Cost
    <3>1. Spent(b, t, TRUE).void = (TRUE \/ (b.void /\ Refilled(b, t) < Full))
      BY SpentIs, Zenon
    <3>2. p.void
      BY <2>0, <3>1, Zenon
    <3>3. p.tokens = Full - Cost /\ p.at = t
      BY <1>1, <2>0, SpentIs, Zenon
    <3> QED
      BY <3>2, <3>3 DEF Slack
  <2>3. Holds(p, t) = Full - Cost
    BY <1>0, <2>2, HoldsNow
  <2>4. Refilled(p, t) <= Full
    BY <1>0, <2>2, HoldsIs
  <2>5. Ahead(None, p, w, t)
    BY <1>0, <2>2, <2>3 DEF Ahead
  <2>6. Served(None, p, w, t)
    BY <1>2, <2>4 DEF Served
  <2> QED
    BY <2>1, <2>5, <2>6 DEF Fair
<1> QED
  BY <1>2, <1>3 DEF Paid

\* A row as old as the threshold, less a check, is the row of a full bucket.
LEMMA IdleFull ==
  ASSUME NEW r \in Bucket, NEW b \in Ideal, NEW w \in Int, NEW t \in Int,
         Fair(r, b, w, t), r # None, r.tokens >= 0, w - r.at >= IdleThreshold - CheckTime
  PROVE  Holds(b, t) >= Full
<1>1. Gain(w - r.at) >= Full + Cost /\ Gain(w - r.at) \in Nat
  BY GainIdle, TypedBuckets
<1>2. Holds(r, w) >= Full + Cost /\ Holds(r, w) \in Int /\ Holds(b, t) \in Int
  BY <1>1, TypedBuckets, HoldsIs, FullHolds, Numbers DEF Holds
<1>3. Holds(r, w) <= Holds(b, t) + Slack(b)
  BY DEF Fair, Ahead
<1> QED
  BY <1>2, <1>3, FullHolds, Numbers, SlackIs

----------------------------------------------------------------------------
(* The invariant holds at first and every step keeps it.                   *)

LEMMA Typed ==
  ASSUME TypeOK
  PROVE  /\ time \in 0..MaxTime /\ time \in Int /\ wall \in Int /\ cutoff \in Int
         /\ wall \in -MaxStepBack..MaxTime
         /\ check.now \in -MaxStepBack..MaxTime /\ check.t \in 0..MaxTime
         /\ check.now \in Int /\ check.t \in Int /\ check.ok \in BOOLEAN
         /\ check.row \in Bucket /\ Mine \in Client
         /\ \A c \in Client : db[c] \in Bucket /\ view[c] \in Bucket /\ ideal[c] \in Ideal
BY Numbers DEF TypeOK, Check, Mine, Ideal

LEMMA IdleTyped == Idle \in Check /\ Idle.pc = "idle" /\ Idle.row = None
<1>1. (CHOOSE c \in Client : TRUE) \in Client
  BY RateLimitAssumption
<1> QED
  BY <1>1, TypedBuckets, Numbers DEF Idle, Check

\* The assumption on the threshold leaves room for a check.
LEMMA CheckIsShort == CheckTime < IdleThreshold
<1>1. PICK k \in Int : k = IdleThreshold - CheckTime /\ k * Refill >= Full + Cost
  BY Numbers, RateLimitAssumption
<1>2. Refill \in Nat /\ Full + Cost > 0 /\ Full + Cost \in Nat
  BY Numbers, FullHolds
<1>3. k <= 0 => k * Refill <= 0
  BY <1>2
<1> QED
  BY <1>1, <1>2, <1>3, Numbers

\* What a check pays is a bucket again, written no later than the check came in.
LEMMA PaidTyped ==
  ASSUME NEW b \in Ideal, NEW t \in 0..MaxTime, NEW ok \in BOOLEAN, NEW void \in BOOLEAN,
         b.at <= t
  PROVE  Paid(b, t, ok, void) \in Ideal /\ Paid(b, t, ok, void).at <= t
<1>1. t \in Int
  BY Numbers
<1>2. CASE ok
  BY <1>1, <1>2, SpentIs DEF Paid
<1>3. CASE ~ ok
  BY <1>3 DEF Paid
<1> QED
  BY <1>2, <1>3

LEMMA NewFair ==
  ASSUME NEW t \in 0..MaxTime, NEW w \in Int
  PROVE  /\ [tokens |-> Full, at |-> t, void |-> FALSE] \in Ideal
         /\ Fair(None, [tokens |-> Full, at |-> t, void |-> FALSE], w, t)
<1>1. PICK b : b = [tokens |-> Full, at |-> t, void |-> FALSE]
  OBVIOUS
<1>2. b \in Ideal /\ b.tokens = Full /\ b.at = t
  BY <1>1, FullHolds DEF Ideal
<1>3. Holds(b, t) = Full
  BY <1>2, TypedBuckets, HoldsNow
<1>4. Fair(None, b, w, t)
  BY <1>2, <1>3, FullHolds, FullFair
<1> QED
  BY <1>1, <1>2, <1>4

LEMMA InitLimit == Init => LimitInv
<1> SUFFICES ASSUME Init PROVE LimitInv
  OBVIOUS
<1>1. TypeOK
  <2>1. db \in [Client -> Bucket] /\ view \in [Client -> Bucket] /\ db = view
    BY TypedBuckets DEF Init
  <2>2. ideal \in [Client -> [tokens : Int, at : 0..MaxTime, void : BOOLEAN]]
    BY FullHolds, Numbers DEF Init
  <2>3. check \in Check
    BY IdleTyped DEF Init
  <2> QED
    <3>1. time \in 0..MaxTime /\ wall \in -MaxStepBack..MaxTime /\ faults \in 0..MaxFaults
      BY Numbers DEF Init
    <3>2. cutoff \in Int
      BY DEF Init, NoCutoff
    <3> QED
      BY <2>1, <2>2, <2>3, <3>1, <3>2 DEF TypeOK, Init
<1>2. check.pc = "idle" /\ check.row = None /\ cutoff = NoCutoff
  BY IdleTyped DEF Init
<1>3. ClockInv
  BY <1>2, Numbers DEF ClockInv, Init
<1>4. RowInv
  BY <1>2, Numbers DEF RowInv, Sound, Init
<1>5. CheckInv
  BY <1>2 DEF CheckInv, InTransaction, Init
<1>6. FairInv
  <2>1. \A c \in Client : Fair(db[c], ideal[c], wall, time)
    BY NewFair, Numbers DEF Init
  <2> QED
    BY <1>2, <2>1 DEF FairInv, InTransaction, Unread
<1>7. SweepInv
  BY <1>2 DEF SweepInv
<1> QED
  BY <1>1, <1>3, <1>4, <1>5, <1>6, <1>7 DEF LimitInv

LEMMA ArriveStep ==
  ASSUME LimitInv, NEW c \in Client, Arrive(c)
  PROVE  LimitInv'
<1> USE DEF LimitInv
<1>1. /\ check' = [Idle EXCEPT !.pc = "begin", !.client = c, !.now = wall, !.t = time]
      /\ UNCHANGED <<mode, up, db, view, txn, cutoff, time, wall, faults, ideal>>
      /\ mode = "sqlite"
  BY DEF Arrive
<1>2. /\ check'.pc = "begin" /\ check'.client = c /\ check'.now = wall /\ check'.t = time
      /\ check'.row = None /\ check' \in Check
  BY <1>1, IdleTyped, Typed DEF Check
<1>3. TypeOK'
  BY <1>1, <1>2 DEF TypeOK
<1>4. ClockInv'
  BY <1>1 DEF ClockInv
<1>5. RowInv'
  BY <1>1, <1>2 DEF RowInv, Sound
<1>6. CheckInv'
  <2>1. cutoff # NoCutoff => cutoff <= wall
    BY Typed, Numbers DEF ClockInv
  <2>2. ideal[c].at <= time
    BY DEF RowInv
  <2> QED
    BY <1>1, <1>2, <2>1, <2>2, Typed, Numbers DEF CheckInv, ClockInv, InTransaction, Mine
<1>7. FairInv'
  BY <1>1, <1>2 DEF FairInv, InTransaction, Unread, Mine, TypeOK
<1>8. SweepInv'
  BY <1>1, <1>2 DEF SweepInv, Idled, InTransaction, Unread, Mine, TypeOK
<1> QED
  BY <1>3, <1>4, <1>5, <1>6, <1>7, <1>8

LEMMA BeginStep ==
  ASSUME LimitInv, Begin
  PROVE  LimitInv'
<1> USE DEF LimitInv
<1>1. /\ check.pc = "begin"
      /\ check' = [check EXCEPT !.pc = IF txn THEN "rollback" ELSE "select"]
      /\ txn' = TRUE
      /\ UNCHANGED <<mode, up, db, view, cutoff, time, wall, faults, ideal>>
  BY DEF Begin
<1>2. /\ check'.pc = (IF txn THEN "rollback" ELSE "select") /\ check'.client = check.client
      /\ check'.now = check.now /\ check'.t = check.t
      /\ check'.row = check.row /\ check'.ok = check.ok /\ check' \in Check
  BY <1>1 DEF Check, TypeOK
<1>3. TypeOK'
  BY <1>1, <1>2 DEF TypeOK
<1>4. ClockInv'
  BY <1>1 DEF ClockInv
<1>5. RowInv'
  BY <1>1, <1>2 DEF RowInv
<1>6. CheckInv'
  BY <1>1, <1>2 DEF CheckInv, InTransaction, Mine
<1>7. FairInv'
  BY <1>1, <1>2 DEF FairInv, InTransaction, Unread, Mine, TypeOK
<1>8. SweepInv'
  BY <1>1, <1>2 DEF SweepInv, Idled, InTransaction, Unread, Mine, TypeOK
<1> QED
  BY <1>3, <1>4, <1>5, <1>6, <1>7, <1>8

LEMMA SelectStep ==
  ASSUME LimitInv, Select
  PROVE  LimitInv'
<1> USE DEF LimitInv
<1>1. /\ check.pc = "select"
      /\ check' = [check EXCEPT !.pc = "write", !.row = view[check.client]]
      /\ UNCHANGED <<mode, up, db, view, txn, cutoff, time, wall, faults, ideal>>
  BY DEF Select
<1>2. /\ check'.pc = "write" /\ check'.client = check.client
      /\ check'.now = check.now /\ check'.t = check.t
      /\ check'.row = view[Mine] /\ check'.ok = check.ok /\ check' \in Check
  BY <1>1, Typed DEF Check, TypeOK, Mine
<1>3. TypeOK'
  BY <1>1, <1>2 DEF TypeOK
<1>4. ClockInv'
  BY <1>1 DEF ClockInv
<1>5. RowInv'
  BY <1>1, <1>2, Typed DEF RowInv
<1>6. CheckInv'
  BY <1>1, <1>2 DEF CheckInv, InTransaction, Mine
<1>7. FairInv'
  BY <1>1, <1>2 DEF FairInv, InTransaction, Unread, Mine
<1>8. SweepInv'
  BY <1>1, <1>2 DEF SweepInv, Idled, InTransaction, Unread, Mine
<1> QED
  BY <1>3, <1>4, <1>5, <1>6, <1>7, <1>8

LEMMA WriteStep ==
  ASSUME LimitInv, Write
  PROVE  LimitInv'
<1> USE DEF LimitInv
<1>1. PICK r : r = Checked(check.row, check.now)
  OBVIOUS
<1>2. /\ check.pc = "write"
      /\ check' = [check EXCEPT !.pc = "commit", !.ok = r.ok]
      /\ view' = (IF check.row = None \/ view[check.client] # None
                  THEN [view EXCEPT ![check.client] = r.row] ELSE view)
      /\ UNCHANGED <<mode, up, db, txn, cutoff, time, wall, faults, ideal>>
  BY <1>1 DEF Write
<1>3. /\ r.ok \in BOOLEAN /\ r.row \in Bucket /\ r.row.tokens >= 0 /\ r.row.at = check.now
      /\ r.row # None /\ Fair(r.row, Paid(ideal[Mine], check.t, r.ok, FALSE), check.now, check.t)
  <2>1. Fair(check.row, ideal[Mine], check.now, check.t)
    BY <1>2 DEF FairInv
  <2>2. check.row # None => check.row.tokens >= 0
    BY DEF RowInv, Sound
  <2>3. ideal[Mine].at <= check.t
    BY <1>2 DEF CheckInv
  <2>4. ideal[Mine] \in Ideal
    BY Typed
  <2> QED
    BY <1>1, <2>1, <2>2, <2>3, <2>4, Typed, CheckFair
<1>4. /\ check'.pc = "commit" /\ check'.client = check.client
      /\ check'.now = check.now /\ check'.t = check.t
      /\ check'.row = check.row /\ check'.ok = r.ok /\ check' \in Check
  BY <1>2, <1>3 DEF Check, TypeOK
<1>5. /\ view' \in [Client -> Bucket]
      /\ \A c \in Client \ {Mine} : view'[c] = view[c]
      /\ \/ view'[Mine] = r.row
         \/ view'[Mine] = None /\ Holds(ideal[Mine], check.t) >= Full
  <2>1. CASE check.row = None \/ view[Mine] # None
    BY <1>2, <1>3, <2>1, Typed DEF TypeOK, Mine
  <2>2. CASE check.row # None /\ view[Mine] = None
    BY <1>2, <2>2 DEF TypeOK, FairInv, Mine
  <2> QED
    BY <2>1, <2>2
<1>6. txn
  BY <1>2 DEF CheckInv, InTransaction
<1>7. TypeOK'
  BY <1>2, <1>4, <1>5, <1>6 DEF TypeOK
<1>8. ClockInv'
  BY <1>2 DEF ClockInv
<1>9. RowInv'
  <2>1. Sound(r.row, time)
    BY <1>2, <1>3, Typed DEF Sound, CheckInv
  <2>2. Sound(view'[Mine], time)
    BY <1>5, <2>1 DEF Sound
  <2> QED
    BY <1>2, <1>4, <1>5, <2>2 DEF RowInv
<1>10. CheckInv'
  BY <1>2, <1>4 DEF CheckInv, InTransaction, Mine
<1>11. FairInv'
  <2>1. ASSUME Holds(ideal[Mine], check.t) >= Full
        PROVE  Fair(None, Paid(ideal[Mine], check.t, r.ok, TRUE), check.now, check.t)
    <3>1. ideal[Mine] \in Ideal
      BY Typed
    <3> QED
      BY <2>1, <3>1, <1>3, Typed, VoidFair
  <2>2. \/ /\ view'[Mine] = None
           /\ Fair(None, Paid(ideal[Mine], check.t, r.ok, TRUE), check.now, check.t)
        \/ /\ view'[Mine] # None /\ view'[Mine].at = check.now
           /\ Fair(view'[Mine], Paid(ideal[Mine], check.t, r.ok, FALSE), check.now, check.t)
    BY <1>3, <1>5, <2>1
  <2> QED
    BY <1>2, <1>4, <1>5, <2>2 DEF FairInv, InTransaction, Unread, Mine
<1>12. SweepInv'
  BY <1>2, <1>4, <1>5 DEF SweepInv, Idled, InTransaction, Unread, Mine
<1> QED
  BY <1>7, <1>8, <1>9, <1>10, <1>11, <1>12

LEMMA CommitStep ==
  ASSUME LimitInv, Commit
  PROVE  LimitInv'
<1> USE DEF LimitInv
<1>1. /\ check.pc = "commit" /\ db' = view /\ txn' = FALSE /\ check' = Idle
      /\ UNCHANGED <<mode, up, view, cutoff, time, wall, faults>>
  BY DEF Commit
<1>2. /\ check'.pc = "idle" /\ check'.row = None /\ check' \in Check
  BY <1>1, IdleTyped
<1>3. PICK void \in BOOLEAN : void = (view[Mine] = None)
  BY Zenon
<1>p. PICK p : p = Paid(ideal[Mine], check.t, check.ok, void)
  OBVIOUS
<1>4. /\ 0 <= check.t - check.now /\ check.t - check.now <= time - wall
      /\ check.t <= time /\ ideal[Mine].at <= check.t
      /\ cutoff # NoCutoff => cutoff <= check.now
  BY <1>1 DEF CheckInv
<1>5. p \in Ideal /\ p.at <= check.t
  <2>1. ideal[Mine] \in Ideal
    BY Typed
  <2> QED
    BY <2>1, <1>p, <1>4, Typed, PaidTyped
<1>6. /\ ideal' \in [Client -> Ideal] /\ ideal'[Mine] = p
      /\ \A c \in Client \ {Mine} : ideal'[c] = ideal[c]
  <2>1. ideal \in [Client -> Ideal]
    BY DEF TypeOK, Ideal
  <2>2. CASE check.ok
    <3>1. p = Spent(ideal[Mine], check.t, void)
      BY <1>p, <2>2 DEF Paid
    <3>2. Spend(check.client, check.t, view[check.client] = None)
      BY <2>2, Zenon DEF Commit
    <3>3. ideal' = [ideal EXCEPT ![check.client] = Spent(@, check.t, view[check.client] = None)]
      BY <3>2, Zenon DEF Spend
    <3>4. ideal' = [ideal EXCEPT ![Mine] = p]
      BY <1>3, <3>1, <3>3, Zenon DEF Mine
    <3> QED
      BY <2>1, <1>5, <3>4, Typed
  <2>3. CASE ~ check.ok
    BY <2>1, <2>3, <1>p, <1>5, Typed DEF Commit, Paid, Mine
  <2> QED
    BY <2>2, <2>3
<1>7. TypeOK'
  BY <1>1, <1>2, <1>6 DEF TypeOK, Ideal
<1>8. ClockInv'
  BY <1>1 DEF ClockInv
<1>9. RowInv'
  <2>1. p.at <= time
    BY <1>4, <1>5, Typed, TypedBuckets
  <2> QED
    BY <1>1, <1>2, <1>6, <2>1 DEF RowInv, Sound
<1>10. CheckInv'
  BY <1>1, <1>2 DEF CheckInv, InTransaction
<1>11. view[Mine] = None \/ view[Mine].at = check.now
  BY <1>1 DEF FairInv
<1>12. FairInv'
  <2>1. Fair(view[Mine], p, wall, time)
    <3>1. Fair(view[Mine], p, check.now, check.t)
      <4>1. CASE view[Mine] = None
        <5>1. void = TRUE
          BY <1>3, <4>1, Zenon
        <5> QED
          BY <1>1, <1>p, <4>1, <5>1 DEF FairInv
      <4>2. CASE view[Mine] # None
        <5>1. void = FALSE
          BY <1>3, <4>2, Zenon
        <5> QED
          BY <1>1, <1>p, <4>2, <5>1 DEF FairInv
      <4> QED
        BY <4>1, <4>2
    <3>2. Sound(view[Mine], check.t)
      BY <1>4, <1>11, Typed DEF RowInv, Sound
    <3>3. check.now <= check.t /\ wall - check.now <= time - check.t
      BY <1>4, Typed
    <3>4. view[Mine] \in Bucket
      BY Typed
    <3> QED
      BY <1>4, <1>5, <3>1, <3>2, <3>3, <3>4, Typed, Aging
  <2>2. \A c \in Client \ {Mine} : Fair(view[c], ideal[c], wall, time)
    BY <1>1 DEF FairInv, InTransaction
  <2> QED
    BY <1>1, <1>2, <1>6, <2>1, <2>2 DEF FairInv, InTransaction, Unread
<1>13. SweepInv'
  <2>1. cutoff # NoCutoff => ~ (view[Mine] # None /\ view[Mine].at < cutoff)
    BY <1>4, <1>11, Typed
  <2> QED
    BY <1>1, <1>2, <1>6, <2>1 DEF SweepInv, Idled, InTransaction, Unread
<1> QED
  BY <1>7, <1>8, <1>9, <1>10, <1>12, <1>13

LEMMA FailStep ==
  ASSUME LimitInv, Fail \/ Rollback
  PROVE  LimitInv'
<1> USE DEF LimitInv
<1>1. /\ check.pc # "idle"
      /\ UNCHANGED <<mode, up, db, cutoff, time, wall, ideal>>
      /\ faults' \in 0..MaxFaults
  BY Numbers DEF Fail, Rollback, TypeOK
<1>2. /\ \/ check' = [check EXCEPT !.pc = "rollback"] /\ UNCHANGED <<view, txn>>
         \/ check' = Idle /\ view' = db /\ txn' = FALSE
         \/ check' = Idle /\ UNCHANGED <<view, txn>>
  BY DEF Fail, Rollback
<1>3. /\ check' \in Check /\ check'.pc \in {"idle", "rollback"}
      /\ check'.pc # "idle" => /\ check'.client = check.client
                               /\ check'.now = check.now /\ check'.t = check.t
      /\ check'.row = None \/ check'.row = check.row
  BY <1>2, IdleTyped DEF Check, TypeOK
<1>4. mode # "memory"
  BY <1>1 DEF CheckInv
<1>5. TypeOK'
  BY <1>1, <1>2, <1>3 DEF TypeOK
<1>6. ClockInv'
  BY <1>1 DEF ClockInv
<1>7. RowInv'
  BY <1>1, <1>2, <1>3 DEF RowInv, Sound
<1>8. CheckInv'
  BY <1>1, <1>3, <1>4 DEF CheckInv, InTransaction, Mine
<1>9. FairInv'
  BY <1>1, <1>3 DEF FairInv, InTransaction, Unread
<1>10. SweepInv'
  BY <1>1, <1>3 DEF SweepInv, Idled, InTransaction, Unread
<1> QED
  BY <1>5, <1>6, <1>7, <1>8, <1>9, <1>10

LEMMA CheckMemoryStep ==
  ASSUME LimitInv, NEW c \in Client, CheckMemory(c)
  PROVE  LimitInv'
<1> USE DEF LimitInv
<1>1. PICK r : r = Checked(db[c], wall)
  OBVIOUS
<1>2. /\ mode = "memory" /\ db' = [db EXCEPT ![c] = r.row] /\ view' = db'
      /\ UNCHANGED <<mode, up, txn, check, cutoff, time, wall, faults>>
  BY <1>1 DEF CheckMemory
<1>3. check.pc = "idle" /\ ~ txn
  BY <1>2 DEF CheckInv
<1>4. PICK p : p = Paid(ideal[c], time, r.ok, FALSE)
  OBVIOUS
<1>5. /\ r.ok \in BOOLEAN /\ r.row \in Bucket /\ r.row.tokens >= 0 /\ r.row.at = wall
      /\ p \in Ideal /\ p.at <= time /\ Fair(r.row, p, wall, time)
  <2>1. Fair(db[c], ideal[c], wall, time)
    BY DEF FairInv
  <2>2. (db[c] # None => db[c].tokens >= 0) /\ ideal[c].at <= time
    BY DEF RowInv, Sound
  <2>3. db[c] \in Bucket /\ ideal[c] \in Ideal
    BY Typed
  <2> QED
    BY <1>1, <1>4, <2>1, <2>2, <2>3, Typed, CheckFair
<1>6. /\ ideal' \in [Client -> Ideal] /\ ideal'[c] = p
      /\ \A d \in Client \ {c} : ideal'[d] = ideal[d]
  <2>1. ideal \in [Client -> Ideal]
    BY DEF TypeOK, Ideal
  <2>2. CASE r.ok
    BY <2>1, <2>2, <1>1, <1>4, <1>5 DEF CheckMemory, Spend, Paid
  <2>3. CASE ~ r.ok
    BY <2>1, <2>3, <1>1, <1>4, <1>5 DEF CheckMemory, Paid
  <2> QED
    BY <2>2, <2>3
<1>7. /\ db' \in [Client -> Bucket] /\ db'[c] = r.row
      /\ \A d \in Client \ {c} : db'[d] = db[d]
  BY <1>2, <1>5 DEF TypeOK
<1>8. TypeOK'
  BY <1>2, <1>6, <1>7 DEF TypeOK, Ideal
<1>9. ClockInv'
  BY <1>2 DEF ClockInv
<1>10. RowInv'
  <2>1. Sound(r.row, time)
    BY <1>5, Typed DEF Sound, ClockInv
  <2> QED
    BY <1>2, <1>5, <1>6, <1>7, <2>1 DEF RowInv
<1>11. CheckInv'
  BY <1>2, <1>3 DEF CheckInv, InTransaction
<1>12. FairInv'
  BY <1>2, <1>3, <1>5, <1>6, <1>7 DEF FairInv, InTransaction, Unread
<1>13. SweepInv'
  <2>1. cutoff # NoCutoff => cutoff <= wall
    BY Typed, Numbers DEF ClockInv
  <2>2. cutoff # NoCutoff => ~ (r.row.at < cutoff)
    BY <1>5, <2>1, Typed
  <2> QED
    BY <1>2, <1>3, <1>6, <1>7, <2>2 DEF SweepInv, Idled, InTransaction, Unread
<1> QED
  BY <1>8, <1>9, <1>10, <1>11, <1>12, <1>13

LEMMA SweepStartStep ==
  ASSUME LimitInv, SweepStart
  PROVE  LimitInv'
<1> USE DEF LimitInv
<1>1. /\ cutoff' = wall - IdleThreshold
      /\ UNCHANGED <<mode, up, db, view, txn, check, time, wall, faults, ideal>>
  BY DEF SweepStart
<1>2. CheckTime < IdleThreshold /\ CheckTime \in Nat /\ IdleThreshold \in Nat
  BY CheckIsShort, Numbers
<1>3. check.pc # "idle" => wall - check.now <= CheckTime
  BY <1>2, Typed DEF CheckInv
<1>4. TypeOK'
  BY <1>1, <1>2, Typed DEF TypeOK
<1>5. ClockInv'
  BY <1>1, <1>2, Typed DEF ClockInv
<1>6. RowInv'
  BY <1>1 DEF RowInv
<1>7. CheckInv'
  <2>1. check.pc # "idle" => cutoff' <= check.now
    BY <1>1, <1>2, <1>3, Typed
  <2> QED
    BY <1>1, <2>1 DEF CheckInv, InTransaction, Mine
<1>8. FairInv'
  BY <1>1 DEF FairInv, InTransaction, Unread, Mine
<1>9. SweepInv'
  <2>1. ASSUME NEW c \in Client, NEW r \in Bucket, Fair(r, ideal[c], wall, time),
               Sound(r, time), r # None, r.at < cutoff'
        PROVE  Holds(ideal[c], time) >= Full
    <3>1. wall - r.at >= IdleThreshold - CheckTime
      BY <2>1, <1>1, <1>2, Typed, TypedBuckets
    <3> QED
      BY <2>1, <3>1, Typed, IdleFull DEF Sound
  <2>2. ASSUME check.pc # "idle", NEW r \in Bucket, Fair(r, ideal[Mine], check.now, check.t),
               Sound(r, time), r # None, r.at < cutoff'
        PROVE  Holds(ideal[Mine], check.t) >= Full
    <3>1. check.now - r.at >= IdleThreshold - CheckTime
      BY <2>2, <1>1, <1>2, <1>3, Typed, TypedBuckets
    <3>2. ideal[Mine] \in Ideal
      BY Typed
    <3> QED
      BY <2>2, <3>1, <3>2, Typed, IdleFull DEF Sound
  <2>3. \A c \in Client : db[c] # None /\ db[c].at < cutoff' => Holds(ideal[c], time) >= Full
    BY <2>1, Typed DEF FairInv, RowInv
  <2>4. check.pc \in InTransaction =>
          \A c \in Client \ {Mine} :
            view[c] # None /\ view[c].at < cutoff' => Holds(ideal[c], time) >= Full
    BY <2>1, Typed DEF FairInv, RowInv
  <2>5. Unread \/ check.pc = "write" =>
          (view[Mine] # None /\ view[Mine].at < cutoff' => Holds(ideal[Mine], check.t) >= Full)
    <3>1. view[Mine] \in Bucket /\ Sound(view[Mine], time)
      BY Typed DEF RowInv
    <3>2. CASE Unread
      BY <3>1, <3>2, <2>2 DEF FairInv, Unread
    <3>3. CASE check.pc = "write"
      BY <3>1, <3>3, <2>2 DEF FairInv
    <3> QED
      BY <3>2, <3>3
  <2> QED
    BY <1>1, <2>3, <2>4, <2>5 DEF SweepInv, Idled, InTransaction, Unread, Mine
<1> QED
  BY <1>4, <1>5, <1>6, <1>7, <1>8, <1>9

LEMMA SweepDeleteStep ==
  ASSUME LimitInv, SweepDelete
  PROVE  LimitInv'
<1> USE DEF LimitInv
<1>1. /\ cutoff # NoCutoff /\ cutoff' = NoCutoff
      /\ view' = [c \in Client |-> IF Idled(view[c]) THEN None ELSE view[c]]
      /\ db' = (IF txn THEN db ELSE view')
      /\ UNCHANGED <<mode, up, txn, check, time, wall, faults, ideal>>
  BY DEF SweepDelete
<1>2. /\ \A c \in Client : view'[c] = IF Idled(view[c]) THEN None ELSE view[c]
      /\ \A c \in Client : db'[c] = db[c] \/ (db'[c] = None /\ Idled(db[c]))
      /\ view' \in [Client -> Bucket] /\ db' \in [Client -> Bucket]
  <2>1. \A c \in Client : view'[c] = IF Idled(view[c]) THEN None ELSE view[c]
    BY <1>1
  <2>2. view' \in [Client -> Bucket]
    BY <1>1, Typed, TypedBuckets
  <2>3. CASE txn
    BY <1>1, <2>1, <2>2, <2>3 DEF TypeOK
  <2>4. CASE ~ txn
    BY <1>1, <2>1, <2>2, <2>4 DEF TypeOK
  <2> QED
    BY <2>1, <2>2, <2>3, <2>4
<1>3. TypeOK'
  BY <1>1, <1>2 DEF TypeOK, NoCutoff
<1>4. ClockInv'
  BY <1>1 DEF ClockInv
<1>5. RowInv'
  BY <1>1, <1>2 DEF RowInv, Sound
<1>6. CheckInv'
  BY <1>1 DEF CheckInv, InTransaction, Mine
<1>7. FairInv'
  <2>1. \A c \in Client : Holds(ideal[c], time) >= Full => Fair(None, ideal[c], wall, time)
    BY Typed, FullFair
  <2>2. Holds(ideal[Mine], check.t) >= Full => Fair(None, ideal[Mine], check.now, check.t)
    <3>1. ideal[Mine] \in Ideal
      BY Typed
    <3> QED
      BY <3>1, Typed, FullFair
  <2>3. \A c \in Client : Fair(db'[c], ideal[c], wall, time)
    BY <1>1, <1>2, <2>1 DEF FairInv, SweepInv
  <2>4. check.pc \in InTransaction =>
          \A c \in Client \ {Mine} : Fair(view'[c], ideal[c], wall, time)
    BY <1>1, <1>2, <2>1 DEF FairInv, SweepInv
  <2>5. Unread => Fair(view'[Mine], ideal[Mine], check.now, check.t)
    BY <1>1, <1>2, <2>2, Typed DEF FairInv, SweepInv
  <2>6. check.pc = "write" =>
          /\ Fair(check.row, ideal[Mine], check.now, check.t)
          /\ \/ view'[Mine] = check.row
             \/ view'[Mine] = None /\ Holds(ideal[Mine], check.t) >= Full
    BY <1>1, <1>2, Typed DEF FairInv, SweepInv
  <2>7. check.pc = "commit" => view'[Mine] = view[Mine]
    <3>1. ASSUME check.pc = "commit" PROVE ~ Idled(view[Mine])
      <4>1. view[Mine] = None \/ view[Mine].at = check.now
        BY <3>1 DEF FairInv
      <4>2. cutoff <= check.now
        BY <3>1, <1>1 DEF CheckInv
      <4> QED
        BY <4>1, <4>2, Typed DEF Idled
    <3> QED
      BY <3>1, <1>2, Typed
  <2> QED
    BY <1>1, <2>3, <2>4, <2>5, <2>6, <2>7 DEF FairInv, InTransaction, Unread, Mine
<1>8. SweepInv'
  BY <1>1 DEF SweepInv
<1> QED
  BY <1>3, <1>4, <1>5, <1>6, <1>7, <1>8

LEMMA StopStep ==
  ASSUME LimitInv, Stop
  PROVE  LimitInv'
<1> USE DEF LimitInv
<1>1. /\ db' = (IF mode = "memory" THEN [c \in Client |-> None] ELSE db)
      /\ view' = db' /\ txn' = FALSE /\ up' = FALSE /\ check' = Idle /\ cutoff' = NoCutoff
      /\ ideal' = (IF mode = "memory" THEN [c \in Client |-> [tokens |-> Full, at |-> time, void |-> FALSE]]
                   ELSE ideal)
      /\ UNCHANGED <<mode, time, wall, faults>>
  BY DEF Stop
<1>2. check'.pc = "idle" /\ check'.row = None /\ check' \in Check
  BY <1>1, IdleTyped
<1>3. /\ db' \in [Client -> Bucket] /\ ideal' \in [Client -> Ideal]
      /\ \A c \in Client : \/ db'[c] = db[c] /\ ideal'[c] = ideal[c]
                           \/ db'[c] = None /\ ideal'[c] = [tokens |-> Full, at |-> time, void |-> FALSE]
  <2>1. CASE mode = "memory"
    BY <1>1, <2>1, Typed, TypedBuckets, NewFair
  <2>2. CASE mode # "memory"
    BY <1>1, <2>2 DEF TypeOK, Ideal
  <2> QED
    BY <2>1, <2>2
<1>4. TypeOK'
  <2>1. /\ mode' = mode /\ time' = time /\ wall' = wall /\ faults' = faults
        /\ up' \in BOOLEAN /\ txn' \in BOOLEAN /\ cutoff' \in Int /\ db' = view'
    <3>1. up' \in BOOLEAN /\ txn' \in BOOLEAN
      BY <1>1, Zenon
    <3>2. cutoff' \in Int
      BY <1>1 DEF NoCutoff
    <3> QED
      BY <1>1, <3>1, <3>2, Zenon
  <2>2. ideal' \in [Client -> [tokens : Int, at : 0..MaxTime, void : BOOLEAN]]
    BY <1>3 DEF Ideal
  <2>3. view' \in [Client -> Bucket] /\ db' \in [Client -> Bucket]
    BY <1>3, <2>1
  <2> QED
    BY <1>2, <2>1, <2>2, <2>3 DEF TypeOK
<1>5. ClockInv'
  BY <1>1 DEF ClockInv
<1>6. RowInv'
  BY <1>1, <1>2, <1>3, Typed DEF RowInv, Sound
<1>7. CheckInv'
  BY <1>1, <1>2 DEF CheckInv, InTransaction
<1>8. FairInv'
  <2>1. \A c \in Client : Fair(db'[c], ideal'[c], wall, time)
    BY <1>3, Typed, NewFair DEF FairInv
  <2> QED
    BY <1>1, <1>2, <2>1 DEF FairInv, InTransaction, Unread
<1>9. SweepInv'
  BY <1>1 DEF SweepInv
<1> QED
  BY <1>4, <1>5, <1>6, <1>7, <1>8, <1>9

LEMMA ClockStep ==
  ASSUME LimitInv, Tick \/ StepBack
  PROVE  LimitInv'
<1> USE DEF LimitInv
<1>1. UNCHANGED <<mode, up, db, view, txn, check, cutoff, faults, ideal>>
  BY DEF Tick, StepBack
<1>2. /\ time' \in 0..MaxTime /\ wall' \in -MaxStepBack..MaxTime
      /\ time' \in Int /\ wall' \in Int
      /\ time <= time' /\ wall' - wall <= time' - time
      /\ 0 <= time' - wall' /\ time' - wall' <= MaxStepBack /\ wall <= time
      /\ check.pc # "idle" => time' - check.t <= CheckTime
  <2>1. wall <= time /\ MaxStepBack \in Nat /\ MaxTime \in Nat
    BY Typed, Numbers DEF ClockInv
  <2>2. CASE Tick
    BY <2>1, <2>2, Typed, Numbers DEF Tick, ClockInv
  <2>3. CASE StepBack
    BY <2>1, <2>3, Typed, Numbers DEF StepBack, CheckInv
  <2> QED
    BY <2>2, <2>3
<1>3. TypeOK'
  BY <1>1, <1>2 DEF TypeOK
<1>4. ClockInv'
  <2>1. cutoff # NoCutoff => cutoff <= time' - IdleThreshold
    BY <1>2, Typed, Numbers DEF ClockInv
  <2> QED
    BY <1>1, <1>2, <2>1 DEF ClockInv
<1>5. RowInv'
  BY <1>1, <1>2, Typed, TypedBuckets DEF RowInv, Sound
<1>6. CheckInv'
  <2>1. check.pc # "idle" => check.t - check.now <= time' - wall' /\ check.t <= time'
    BY <1>2, Typed DEF CheckInv
  <2> QED
    BY <1>1, <1>2, <2>1 DEF CheckInv, InTransaction, Mine
<1>7. FairInv'
  <2>1. ASSUME NEW c \in Client, NEW r \in Bucket, Fair(r, ideal[c], wall, time),
               Sound(r, time)
        PROVE  Fair(r, ideal[c], wall', time')
    <3>1. ideal[c] \in Ideal /\ ideal[c].at <= time
      BY Typed DEF RowInv
    <3> QED
      BY <2>1, <3>1, <1>2, Typed, Aging
  <2>2. \A c \in Client : Fair(db[c], ideal[c], wall', time')
    BY <2>1, Typed DEF FairInv, RowInv
  <2>3. check.pc \in InTransaction =>
          \A c \in Client \ {Mine} : Fair(view[c], ideal[c], wall', time')
    BY <2>1, Typed DEF FairInv, RowInv
  <2> QED
    BY <1>1, <2>2, <2>3 DEF FairInv, InTransaction, Unread, Mine
<1>8. SweepInv'
  <2>1. \A c \in Client : Holds(ideal[c], time) >= Full => Holds(ideal[c], time') >= Full
    <3>1. TAKE c \in Client
    <3>2. ideal[c] \in Ideal
      BY Typed
    <3>3. Holds(ideal[c], time) <= Holds(ideal[c], time')
      BY <3>2, <1>2, Typed, HoldsOrder
    <3>4. Holds(ideal[c], time) \in Int /\ Holds(ideal[c], time') \in Int
      BY <3>2, <1>2, Typed, TypedBuckets, HoldsIs
    <3> QED
      BY <3>3, <3>4, FullHolds
  <2> QED
    BY <1>1, <2>1 DEF SweepInv, Idled, InTransaction, Unread, Mine
<1> QED
  BY <1>3, <1>4, <1>5, <1>6, <1>7, <1>8

\* Nothing the invariant reads has changed.
LEMMA StutterStep ==
  ASSUME LimitInv, Start \/ UNCHANGED vars
  PROVE  LimitInv'
<1> USE DEF LimitInv
<1>1. UNCHANGED <<mode, db, view, txn, check, cutoff, time, wall, faults, ideal>> /\ up' \in BOOLEAN
  BY DEF Start, vars, TypeOK
<1>2. TypeOK'
  BY <1>1 DEF TypeOK
<1>3. ClockInv' /\ RowInv'
  BY <1>1 DEF ClockInv, RowInv
<1>4. CheckInv' /\ FairInv'
  BY <1>1 DEF CheckInv, FairInv, InTransaction, Unread, Mine
<1>5. SweepInv'
  BY <1>1 DEF SweepInv, Idled, InTransaction, Unread, Mine
<1> QED
  BY <1>2, <1>3, <1>4, <1>5

LEMMA LimitStep == LimitInv /\ [Next]_vars => LimitInv'
<1> SUFFICES ASSUME LimitInv, [Next]_vars PROVE LimitInv'
  OBVIOUS
<1>1. ASSUME NEW c \in Client, Arrive(c) PROVE LimitInv'
  BY <1>1, ArriveStep
<1>2. ASSUME NEW c \in Client, CheckMemory(c) PROVE LimitInv'
  BY <1>2, CheckMemoryStep
<1>3. CASE Begin
  BY <1>3, BeginStep
<1>4. CASE Select
  BY <1>4, SelectStep
<1>5. CASE Write
  BY <1>5, WriteStep
<1>6. CASE Commit
  BY <1>6, CommitStep
<1>7. CASE Fail \/ Rollback
  BY <1>7, FailStep
<1>8. CASE SweepStart
  BY <1>8, SweepStartStep
<1>9. CASE SweepDelete
  BY <1>9, SweepDeleteStep
<1>10. CASE Stop
  BY <1>10, StopStep
<1>11. CASE Tick \/ StepBack
  BY <1>11, ClockStep
<1>12. CASE Start \/ UNCHANGED vars
  BY <1>12, StutterStep
<1> QED
  BY <1>1, <1>2, <1>3, <1>4, <1>5, <1>6, <1>7, <1>8, <1>9, <1>10, <1>11, <1>12 DEF Next

LEMMA LimitAlways == Spec => []LimitInv
BY InitLimit, LimitStep, PTL DEF Spec

----------------------------------------------------------------------------
(* Theorems.                                                               *)

\* The limiter's state keeps its type.
THEOREM TypeCorrect == Spec => []TypeOK
<1>1. LimitInv => TypeOK
  BY DEF LimitInv
<1> QED
  BY <1>1, LimitAlways, PTL

\* "Capacity = max burst": check, the sweeper's DELETE, failing statements, restarts and a
\* clock set back never give a client more than its bucket holds in true time, but for one
\* request whose UPDATE the sweeper made void, until the bucket is full again.
THEOREM BurstBounded == Spec => []NoExtraBurst
<1>1. ASSUME LimitInv, NEW c \in Client
      PROVE  Level(db[c], wall) <= Refilled(ideal[c], time) + Slack(ideal[c])
  <2>1. Fair(db[c], ideal[c], wall, time) /\ (db[c] # None => db[c].tokens >= 0)
    BY <1>1 DEF LimitInv, FairInv, RowInv, Sound
  <2>2. db[c] \in Bucket /\ ideal[c] \in Ideal /\ wall \in Int /\ time \in Int
    BY <1>1, Typed DEF LimitInv
  <2> QED
    BY <2>1, <2>2, FairMeans
<1>2. LimitInv => NoExtraBurst
  BY <1>1 DEF NoExtraBurst
<1> QED
  BY <1>2, LimitAlways, PTL

\* A refused check keeps what the bucket has gained: while the clock is never set back, a
\* client loses nothing but the requests that were admitted.
THEOREM RefusalFree == Spec => []RefusalCostsNothing
<1>1. ASSUME LimitInv, NEW c \in Client, time = wall
      PROVE  Level(db[c], wall) >= Refilled(ideal[c], time)
  <2>1. Fair(db[c], ideal[c], wall, time) /\ (db[c] # None => db[c].tokens >= 0)
    BY <1>1 DEF LimitInv, FairInv, RowInv, Sound
  <2>2. db[c] \in Bucket /\ ideal[c] \in Ideal /\ wall \in Int /\ time \in Int
    BY <1>1, Typed DEF LimitInv
  <2> QED
    BY <1>1, <2>1, <2>2, FairMeans
<1>2. LimitInv => RefusalCostsNothing
  BY <1>1 DEF RefusalCostsNothing
<1> QED
  BY <1>2, LimitAlways, PTL
=============================================================================
