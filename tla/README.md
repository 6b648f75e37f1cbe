# A TLA+ model of the skr-crypto payout service

skr-crypto is a self-hosted HTTP service that pays USDT (TRC-20) out of hot
wallets. A client sends `POST /api/v1/send` with an idempotency key; the service
checks, signs, broadcasts, writes an audit record and answers. Around that one
operation stand a store of idempotency keys, an append-only audit log, a thread
that polls the network for receipts, two outgoing delivery queues (webhooks and
Telegram alerts), a rate limiter, API tokens, a wallet pool, risk checks and a CLI
that works on the same SQLite files from other processes.

What makes it hard is that a payment cannot be undone and that there is no
transaction over the four places a payout touches: the network, the SQLite file,
the audit file and the HTTP response. A crash, the inactivity timer, a lost answer
or a failing write can come between any two of them.

All paths below are relative to the repository.

## 1. Inventory

| Component | State | Operations | Interacts with |
|---|---|---|---|
| Payout handler (`server/routes.py`) | `_send_lock`, locals of the request | `send`, `_send_impl` | store, audit log, wallet, risk, timer |
| Idempotency store (`server/idempotency.py`) | rows `key -> (status, txid)` in SQLite or a dict, a condition variable | `reserve`, `commit`, `release`, `count`, `close`, `_recover_orphans`, `_build_store` | handler, timer, poller (reads the table) |
| Inactivity timer (`server/shutdown.py`) | one `threading.Timer` | `reset_timer`, `_on_timeout` | closes TRON client, store and audit file under running handlers |
| Audit log (`server/audit.py`) | an open file, sequence number | `record` (write, fsync, then enqueue deliveries) | every component |
| Receipt poller (`server/receipt_poller.py`) | table `tx_status`, a thread, a stop event | `_tick`, `_poll_one`, `_upsert`, `_emit_receipt_audit`, `stop` | store's table, network, audit log |
| Webhooks (`server/webhooks.py`, `cli/commands/webhook.py`) | table `webhook_deliveries`, a thread | `enqueue`, `take_due`, `_deliver_one`, `_handle_failure`, `force_retry`, `shutdown_webhooks` | audit log, receivers, CLI process |
| Alerts (`server/alerts.py`) | table of alerts, rules, quiet hours, a thread | same shape as webhooks, plus trigger rules | audit log, Telegram, CLI process |
| Rate limiter (`server/rate_limit_bucket.py`) | table of token buckets, sweeper thread | `check`, `sweep_idle`, `init_limiter`, `shutdown_limiter` | request middleware |
| Tokens (`server/tokens.py`, `server/security.py`) | table of token hashes and scopes | create, verify, revoke, rotate | middleware, CLI process |
| Wallet pool (`server/wallet_pool.py`, `server/wallet.py`) | wallets, balances read on demand | `resolve`, `_auto_pick_max_usdt`, `send_usdt` | handler, network |
| TRON client (`server/tron_client.py`) | HTTP client, energy price cache | balance, fee limit, retry loop | handler, poller |
| Risk and sanctions (`server/risk.py`, `server/sanctions.py`) | address list, its file on disk | `load`, `assess_risk`, `should_block` | handler |
| Start-up check (`server/startup_check.py`) | none | compares audit log with network | audit log |
| Reports (`server/reporting.py`, `GET /audit`) | none | paging, aggregation | audit log |
| Keystore (`server/encrypted_keystore.py`, `server/key_providers.py`, `cli/commands/wallet.py`) | encrypted file, temporary file, settings | add, generate, remove, rename, encrypt, load at a start | wallet pool, CLI processes |

Behaviours that are hard to test, and the properties that make the parts correct:

* **Payout.** A key pays at most once; a key that has paid is never forgotten; an
  answer and an audit record never claim a payment that did not happen; the audit
  record precedes the answer; the lock is given back on every path. Disturbed by
  crashes, lost answers, failing SQLite statements, failing audit writes and the
  timer that closes the store under the handler.
* **Preflight.** Nobody is paid whom a check could have stopped; the balance covers the
  amount; the fee stays within the burn limit. Disturbed by RPCs that raise, caches that
  are torn or expire, transfers in flight, prices that move between two reads.
* **Receipt poller.** A verdict is true, final and patient; a payment gets one
  audit record; nobody starves behind `LIMIT`. Disturbed by lagging nodes, failing
  lookups, crashes between row and record, a `join` that times out.
* **Webhooks and alerts.** A delivered row was accepted; POSTs agree with the schedule;
  a delivery ends; quiet hours are kept. Disturbed by a concurrent CLI process, a
  shutdown that does not join the worker, an exception of the bookkeeping inside the
  `try` of the POST.
* **Rate limiter.** No client gets more than its bucket, no client is charged for being
  refused. Disturbed by a sweeper on the same connection, failing statements, restarts,
  a wall clock that steps back.
* **Tokens.** Revocation is final and immediate, scopes are respected, a rotation leaves
  access. Disturbed by CLI processes between two reads of a request, killed commands, a
  store that is replaced at a start.
* **Keystore.** The file is whole, a stored key is not lost, the passphrase is proved, a
  server has all of its wallets. Disturbed by concurrent and killed commands, leftover
  temporary files, short writes, colliding names of settings.
* **Audit file and its readers.** What was acknowledged can be read back, paging misses
  nothing, totals add up, an "ok" of the start-up check is right. Disturbed by torn
  lines, buffered remains of failed writes, ids that sort as strings, two time zones.

`PROJECT.json` lists the hazards one by one, at the line where they bite.

## 2. Modules

| Module | Models | Used by |
|---|---|---|
| `IdempotencyRows` | the rows of both stores and the effect of every method on them; open, recovery, close, loss | `Payout` |
| `Payout` | `send`/`_send_impl` in several worker threads, the timer, crash and restart | `MCPayout`, `PayoutProofs` |
| `PaymentLedger` | abstract specification: what `docs/idempotency.md` promises a client | instantiated in `Payout` |
| `PayoutProofs` | theorems about `Payout` | |
| `PollerProofs`, `RateLimitProofs`, `TokensProofs`, `KeystoreProofs`, `PreflightProofs`, `ReportsProofs` | theorems about `ReceiptPoller`, `RateLimit`, `Tokens`, `Keystore`, `Preflight`, `Reports` | |
| `DeliveryProofs` | theorems about `Webhooks` and `Alerts`, which share the steps of the queue | |
| `ReceiptPoller` | the poller thread, its table, clock, network, process | `MCReceiptPoller` |
| `Webhooks` | queue, worker, receivers, CLI retries, shutdown | `MCWebhooks`, `Alerts` |
| `Alerts` | trigger rules and quiet hours in front of the same queue with one receiver | `MCWebhooks`, `DeliveryProofs` |
| `RateLimit` | token buckets, checks, sweeper, clock, process | `MCRateLimit` |
| `Tokens` | token table, CLI commands, verification | `MCTokens` |
| `Keystore` | wallet commands, atomic replacement of the file, key providers | `MCKeystore` |
| `Screening` | sanctions list, checks of a recipient, blocking rule | `Preflight` |
| `Funding` | wallet pool, balances, energy price, fee limit, the chain's blocks | `Preflight` |
| `Preflight` | composition: the steps of `_send_impl` before the broadcast over both | `MCPreflight` |
| `Reports` | the audit file, start-up check, `GET /audit`, reports | `MCReports` |
| `MC*` | model values and symmetry for TLC | |

Operators whose comment begins with "Mutant of" are wrong variants of a definition
(a dropped guard, a missing commit, an index off by one). They are used by no
specification; each one breaks the property it was written for and so shows that the
property depends on the code.

### Payout and IdempotencyRows

`pc[t]` is the control point of thread `t` in `_send_impl`; there is one value for
every point at which another thread, the timer or a crash can come in between:

    idle -> lock -> preflight -> reserve -> checks -> broadcast -> commit -> success -> count -> idle
                        |           |          |          |           |         |
                      refused   duplicate   rpc_failed  tx_failed   release   error
                                waiting

* `preflight` covers wallet choice, address validation and the risk report
  (`routes.py` 119-171); its outcomes are nondeterministic because no property
  of `Payout` depends on why a request is refused. `Preflight` opens this box.
* `checks` covers balances, fee limit and energy (`routes.py` 200-315).
* Everything from `checks` to `commit` is inside the `try` whose
  `except BaseException` calls `release`. `reserve`, the success record and
  `count()` are outside of it.
* A store method is one statement and its `conn.commit()`. `WriteOk` is the
  success, `StoreRaises` the exception, which changes nothing. `disk` is what the
  file holds, `rows` what the running store reads.
* `AuditRaises` may or may not leave the line in the file, because `fsync` can fail
  after `write`.
* `BroadcastLost` is a transaction the network took although `send_usdt` raises.
* `TimerFires`, `TimerClosesStore` and `TimerSignals` are the three steps of
  `_on_timeout` that handlers can observe.

The environment's faults are the constant `Faults`; the stores that a start may end
up with are `Backends` (the code falls back to the dict when SQLite cannot be
opened).

### ReceiptPoller

Time is counted in poll intervals. A payment is a transaction with its creation
time. A lookup may fail, find nothing (also for a transaction that is in a block:
nodes lag), find an entry without a block, or find a receipt with a contract
result. `cur` holds what `_poll_one` has computed and not yet stored; `conn` is
closed under the thread when `stop()` runs into its join timeout, and the code then
writes to a dict that nobody reads. `Exit` is a crash or the end of the process;
`tx_status`, the idempotency rows and the audit file survive it.

### Webhooks

A delivery is a pair of an event and a URL. `row[d].wait` is the time until
`next_attempt`. `todo` and `cur` hold what `take_due` read, which may be stale when
it is used. `RetryRead`/`RetryWrite` are the two statements of `force_retry` in a
CLI process. `posts`, `accepted`, `lost`, `forced` and `age` are history variables
that only properties read. `Shutdown` may come while a thread is between its record and
its INSERTs, which then find no store. `take_due` orders by `next_attempt`; the model lets it
choose any `Limit` of the due rows, which includes that order.

### Alerts

`alerts.py` keeps its deliveries with the same code as `webhooks.py`, so `Alerts`
extends `Webhooks` and its `AlertNext` takes the steps of that queue for one receiver, the
chat. Its own part is `NotifyEvent`: whether a record matches a rule, and whether quiet
hours suppress it (`Verdict`). The hour and the setting are chosen freely for each event;
`QuietHoursKept` compares the comparisons of the code with the length of the window on a
clock. The day has `HoursInDay` hours, so that a small one has windows that do and do not
span midnight, touch both ends, or are empty. The rules keep no state of their own, so
`webhooks_safe` evaluates them in each of its states; the composition `AlertSpec` is what
the theorems are about.

### RateLimit

Tokens are counted in integer units: a request costs `Cost`, a second brings `Refill`.
`db` is what is committed and `view` what the connection sees; they differ inside a
transaction, and the sweeper's `DELETE` acts on `view` because it uses the connection of
the requests. `ideal` is the bucket the documentation promises, in true time and never
swept; both properties compare the code's bucket with it. Its flag `void` notes that an
UPDATE of its client found no row since the bucket was last full. `wall` is the clock the code
reads. A check takes at most `CheckTime`, the busy timeout.

### Tokens

A token's id stands for its plaintext, which is known outside only after a command has
printed it. A rotation is create, revoke, print: three steps, and a revoke or a rotation
looks its row up before it asks the operator. A server process has two names for a store:
`tokens`, which the lifespan points at the database, and `_token_store`, which
`security.py` bound when it was imported and which stays the empty store in memory.
`Request` is the whole of `_verify_with_scope`; what it writes, `last_used_at`, no decision
reads.

### Keystore

Files are inodes, because a command goes on writing to the inode it opened after another
command has unlinked or renamed the name. Ciphertext is a wallet with the passphrase
that opens it. `saved` holds what operators count on; `overlap` and `short` note the two
causes the code has no defence against, and the properties name them. `_atomic_write` is
six steps, the second look at `path` and the rename among them. For the providers
that go by name, settings and the mapping of names to variables are chosen freely in the
initial state.

### Screening, Funding, Preflight

`Screening` has the list with its file (`cache`), which is written in place and may be
cut off; `blind` is the set of checks whose query raises, `empty` those that an external
service answers with 200 and nothing in it, which the code takes for ok; `external` are the
services the settings ask for, none, TronScan or both. `Facts` gives each recipient
its traits. `Funding` has balances on chain, transfers in flight, the price and its
cache. `Preflight` composes them: one request at a time under `_send_lock`, and between
two of its steps a block, a withdrawal by others, a new price or the end of the process.
`PickNext` is one lookup of the auto-pick: balances may change between two of them.

### Reports

`file` is the sequence of readable records; `torn` says that the file ends in a piece of
a line, the writer's own or one that a lost handle left; `cut` that this piece ends inside a
character; `garbled` that such a piece was left behind for good. Lines are written with
`ensure_ascii=False` and read as strict utf-8, so a garbled file decodes for nobody: `/audit`
and the reports answer with a 500, the start-up check sees no records. `backlog` is what a
failed flush has left in the handle's buffer.

`record` is two steps. `Stamp` takes the id and the time, `Write` takes `_file_lock` and
writes: between them another thread may write, so lines need not be in the order of ids or
times, and the clock may be set back as well. `Close` is `close_audit_file`, by the timer
under running handlers or by the shutdown; a thread that had the handle gets an error, a
later record opens the file anew. Ids are pairs of a process prefix, whose order is not that
of the starts, and a number compared as a numeral in base `Base`.

A page of `GET /audit` may be answered with an error instead; a report may be of the lines
before the read raised an `OSError`, which `_iter_audit_records` logs and tells no caller.
Reports are operators over the file, compared with definitions by sets. Python's
list filter and `list.sort` are `Where` and `Sorted`, one pass each over the list: the
standard `SortSeq` leaves open what it returns when two items tie, `list.sort` keeps such
items in their order, and lines of one moment do tie in the sanctions report.

## 3. Runs

Bounds are named in the modules. Sets of threads, keys, transactions and receivers
have the smallest size at which two parties can get in each other's way.

| Run | Instance | Result |
|---|---|---|
| `payout_safe` | 2 threads, 2 keys, 2 transactions, audit failures, crashes, timer, restarts, SQLite | holds: `AtMostOnePayment`, `PaidKeyRemembered`, `SameAnswerForSameKey`, `PendingIsInFlight`, refinement of `PaymentLedger` |
| `payout_faults` | 1 thread, 1 key, 2 transactions, every fault, both stores | holds: `AnswersAreOnChain`, `AnswersAreAudited`, `AuditIsTrue`, `ReservedOnDiskBeforeBroadcast`, `CommittedIsFinal`, `LockIsReleased` |
| `payout_lost_response` | lost answers | violated: `AtMostOnePayment` |
| `poller_safe` | 2 payments, failing lookups, database and audit errors, restarts, one stop whose join times out | holds: `VerdictIsTrue`, `VerdictIsFinal`, `GiveupIsPatient`, `OneReceiptPerPayment` |
| `poller_live` | 2 payments, batch of 1, one failing lookup | holds: `EveryPaymentResolved` |
| `webhooks_safe` | 1 event, 2 receivers, 3 attempts, 2 operators, 1 fault, 1 shutdown; 5 classes of records and all windows of a 3 hour day | holds: `DeliveredWasAccepted`, `AttemptsMatchSchedule`, `BackoffIsKept`, `DeliveredIsFinal`, `EveryDeliveryEnds`, `QuietHoursKept` |
| `ratelimit_safe` | 1 client, capacity 2, refill of 2/3 token, 15 seconds, 2 failing statements, a step back of 1 | holds: `NoExtraBurst`, `RefusalCostsNothing` |
| `tokens_safe` | 3 tokens, 2 operators, 1 kill, restarts | holds: `RotationKeepsAccess`, `RevokedIsFinal` |
| `tokens_minted` | 1 token, 1 operator | violated: `MintedIsAccepted` |
| `keystore_safe` | 2 operators, 3 commands, 2 names, keys and passphrases, 1 kill, 1 short write, all providers | holds: `TornOnlyByRace`, `SavedKeyIsKept`, `PassphraseIsProved`, `StartServesSaved` |
| `preflight_safe` | 6 recipients with every trait, 2 wallets, 2 transfers in flight, 2 prices, 2 starts | holds: `HazardStopsPayment`, `CoveredUnlessCrossed`, `BurnGateHolds` |
| `reports_safe` | 4 records, 2 processes, 2 writers at a time, days of 2 units, pages of 2, 2 failing writes, a clock that steps back | holds: `TearLosesOneRecord`, `PagingIsComplete`, `ReportsAddUp`, `StartupOkIsTrue` |

**Why the bounds are enough.** Two transaction ids and two keys suffice for a
double payment and for an answer that quotes the wrong key; two threads for a
handler that meets another one's row; crashes and restarts are not bounded in
`Payout`. `payout_faults` has one thread and one key, because `_send_lock`
serialises the handlers and a pending row without owner, a lost answer and a second
payment need no more; the theorems of section 4 cover any number.
In the poller the clock ends after the last payment could have left the lookback
window, so that each of resolve, give up and expire happens. In webhooks the
schedule has three entries so that "first", "middle" and "last" attempt differ.
Clients of the rate limiter share nothing but the connection, so one bucket and the
sweeper show what can happen to it; 15 seconds are more than twice the idle threshold,
so a bucket is emptied, swept and used again. Three tokens are a token, its
successor and a rival; two operators let a rotation meet another one's revoke of the same
token. Two operators may retry the same webhook delivery, which is how a delivered row can
be reset. Three commands of two operators reach every pair of overlapping
writes and a third command that meets what they left. In `preflight_safe` and
`reports_safe` the variable `focus` is a bound: a behaviour varies the recipients, the
funds or the price (days, faults or paging), the others staying fixed, because these
parts meet in one request but do not read each other's state. Base 2 makes ids change
their number of digits within four records. Two recipients paid with success let an "ok" of
the start-up check have two payouts to show, and a range of three days exceeds `MaxDays`.

**The violated runs** are disagreements between the code and its documentation, quoted
under `findings`.

* `payout_lost_response`: `routes.py:355` releases the key after *any* exception of the
  broadcast, a timeout included. If the network took the transaction, a retry with the
  same key pays again, contrary to `docs/idempotency.md:13`.
* `tokens_minted`: `security.py:43` binds the token store when it is imported, before
  `init_token_store` replaces it, so HTTP requests ask an empty store. A token that was
  minted and printed is refused, also after a restart, contrary to
  `docs/commands/token.md:124` and to what `token create` prints (`token.py:197`). Only
  `AUTH_TOKEN`, which is compared before the store is asked (`security.py:158`), is accepted.

**Met on the way.** Other places where the code and a sentence about it differ, found
while modelling. The passing properties are stated so that they hold of what the code
does, and their comments name the exception.

* `routes.py:353` commits inside the same `try`; when SQLite refuses the commit and
  then accepts the release, a paid key becomes free (`AtMostOnePayment` fails with
  `"db_error"` in `Faults`).
* The slot is committed before the success record is written (`routes.py:353`, 362);
  the text at `ARCHITECTURE.md:131` describes the opposite order.
* When `release` raises, a pending row stays without a request behind it, and later
  requests wait the full 60 s for it, holding `_send_lock`.
* A duplicate runs wallet choice and risk report before `reserve`;
  `docs/idempotency.md:60` says "no risk preflight".
* `docs/idempotency.md:146` and `ARCHITECTURE.md:239` resolve unknown slots with options
  of `reconcile` that do not exist; `runbooks/unresolved-key.md:66` updates a table
  `slots` that does not exist.
* The poller marks a row resolved before it writes the audit record and does not try
  again (`receipt_poller.py:387`), contrary to its docstring at line 407.
  `_classify_receipt` returns contract results that are in neither of its lists; such a
  payment is never resolved.
* `force_retry` has no guard in its UPDATE (`webhooks.py:294`): of two operators the
  second can reset a row that was delivered meanwhile, although `CHANGELOG.md:243` says
  "Force-retry refuses to reset `delivered` deliveries" and `cli/commands/webhook.py:251`
  "only giving_up / failed deliveries can be retried". Without its exception for this UPDATE,
  `DeliveredIsFinal` is violated in `webhooks_safe`.
* Webhooks are shut down before the poller (`server.py:194`), whose last records are never
  queued; `docs/adr/0011-opt-in-webhooks.md:185` says "at-least-once". A crash between
  the `giving_up` row and the `WEBHOOK_GIVEUP` record loses the record.
* Alerts are dropped in quiet hours (`alerts.py:690`); `docs/adr/0013-telegram-operator-alerts.md:68`
  says that the window "buffers non-critical alerts".
* The per-token gate of `rate_limit_bucket.py:8` ("a request must pass BOTH gates") is
  never called. A sweep between SELECT and UPDATE of a check makes the UPDATE void and
  gives its client one request more than the capacity.
* `rotate` revokes the old token (`token.py:266`) before it prints the new one (271), and is
  not "a single transaction" (`token.py:10`): a command that dies in between leaves its
  caller without a token that works. Its docstring (`token.py:244`) and
  `docs/commands/token.md:160` say "The two tokens coexist long enough for callers to swap
  their config"; the old one is refused from the moment the new one is shown.
  `RotationKeepsAccess` says what is left of this: a successor exists, and at most one
  plaintext is lost per command that died.
* Wallet commands share one temporary file and no lock; `os.write` may be short; an
  empty keystore opens with any passphrase; `wallet encrypt --force` replaces the file by
  an empty one before it adds the key.
* `sanctions.py:122` says that with an empty list the check "will SKIP, never fail-open";
  the empty list counts as loaded, and the check answers OK. `_check_smart_contract`
  answers OK when its RPC raises; the docstring of `assess_risk` says `SKIP`.
  `should_block` says "INVALID always blocks"; at level `none` nothing does.
* `GET /audit` says "most recent records first" and sorts ids as strings. Ids and times are
  taken before the lock of the file (`audit.py:145`, 106), so lines need not be in their
  order; `audit --today`, "Most recent first" (`cli/commands/audit.py:67`), shows the last
  lines of the file.
* The first record behind a torn line of the audit file can be read by nobody. When the tear
  is inside a multi-byte character (`audit.py:162` writes them as they are), no reader
  decodes the file any more: `routes.py:565` and `reporting.py:157` catch `OSError` only, and
  the start-up check takes the file for empty (`startup_check.py:71`), although its docstring
  (line 53) says that "a single corruption doesn't lose the rest of the day".
  `TearLosesOneRecord` without `Decodes` is violated in `reports_safe`.
* A report whose read raises an `OSError` is made of the lines before it, without an error
  (`reporting.py:157`).
* `backup` leaves out the WAL and says "reopening the .db rebuilds them"; what was
  committed and not checkpointed is missing from the archive.

**Fairness.** Safety runs assume none. `Payout!FairSpec` has weak fairness for each
worker thread: its RPCs and `cond.wait` carry timeouts and the holder of
`_send_lock` never waits for another thread without one. `ReceiptPoller!LiveSpec`
describes a process that stays up, whose daemon thread completes a tick per
interval (`Punctual`) and a network that includes or drops a transaction within
`SettleWithin`; it is stated for a process that stays up because a payment that
leaves the lookback window during a long stop is never polled again.
`Webhooks!FairSpec` says that the worker of a running process is scheduled, time
passes, and the INSERTs of a written record are executed; crashes, a shutdown and
failing statements are part of it, and `EveryDeliveryEnds` speaks of behaviours in
which the service finally stays up.

**Deadlock** is checked in the runs of `Payout`, `ReceiptPoller` and `Webhooks`.
The other five have only bounded resources besides the system's own steps (commands,
tokens, seconds, starts, records), and end when these are used up; their system steps
never wait for one another, except for `_send_lock`, which `Payout` covers.

## 4. Theorems

Every theorem is proved for any value of the constants that satisfies the named
`ASSUME`s of its module: any number of threads, keys, clients, tokens, operators,
receivers or wallets, any schedule, price, capacity or window, any number of faults. The
bounds of the runs (`MaxTime`, `MaxFaults`, ...) are constants as well and appear in the
guards, so a theorem holds for all of them. `PROJECT.json` says which property of a run
each theorem states.

| Module | Theorems | Inductive invariant |
|---|---|---|
| `PayoutProofs` | `TypeCorrect`, `AnswersTrue`, `AuditTrue`, `AnswersAudited`, `CommittedStays`, `ReservedFirst`; under `Unambiguous`: `NoDoublePayment`, `PaidKeysRemembered`, `PendingOwned`, `SameAnswers`, `Implements` | `TruthInv`, `SerialInv`, `OwnInv`; `SafeInv` |
| `PollerProofs` | `TypeCorrect`, `VerdictTrue`, `GiveupPatient`, `OneReceipt`, `VerdictFinal` | `PollerInv` |
| `DeliveryProofs` | of `Webhooks`: `TypeCorrect`, `DeliveredAccepted`, `ScheduleUsed`, `BackoffKept`, `DeliveredStays`; of `Alerts`: `QuietKept`, `CriticalThrough`, `AlertQueueSafe` | `WebhooksInv`, `OverlapInv`; `AlertInv` |
| `RateLimitProofs` | `TypeCorrect`, `BurstBounded`, `RefusalFree` | `LimitInv` |
| `TokensProofs` | `TypeCorrect`, `RevokedStays`, `RotationsKeepAccess` | `TokensInv` |
| `KeystoreProofs` | `TypeCorrect`, `TornByRace`, `SavedKept`, `PassphraseProved`, `ServesSaved` | `KeystoreInv` |
| `PreflightProofs` | `HazardStopped`, `CoveredAlone`, `BurnGated` | `PreflightInv` |
| `ReportsProofs` | `TearsBoundLoss`, `ReadableStays`, `IdsStayUnique`, `PagesAreComplete`, `OkSaysTheTruth`, `TotalsAreTrue` | `ReportsInv`, `OrderInv`, `PageInv` |

Each invariant was model-checked on the instances of section 3 before it was proved.

**Payout.** `Unambiguous` says that `Faults` has neither `"lost_response"` nor
`"db_error"` and that `Backends = {"sqlite"}`: the node's answer and the store are
reliable; the audit log and the process are not. `payout_lost_response`, and the commit
error under "Met on the way", show that the assumption cannot be dropped. The other six
theorems hold under every fault and with either store.

1. `TruthInv`: the transaction a thread carries towards commit, success, count or
   the duplicate answer (`HandlerTruth`), the one in a committed row (`RowTruth`)
   and the one in an answer (`AnswerTruth`) belong to the key in question, and so
   do the audit records. It is inductive because `chain` only grows (`ChainGrows`).
   `AnswersAudited` adds that a thread past the record of its branch has that record in
   the log (`HandlerOnRecord`), and that records stay.
2. `SerialInv` says that a thread past the lock holds it, so at most one thread owns a
   slot, and that a running store reads what the file holds; `OwnInv` that an owner finds
   its slot pending. These two need no assumption on the faults, and give `ReservedFirst`
   and `CommittedStays`: whoever writes a row owns it, and an owned row is not committed.
3. `SafeInv`. `AtMostOnePayment` alone is not inductive: before the broadcast one has
   to know that the key has not paid. `UnpaidInv` says that a key has not paid up to the
   broadcast, nor while `release` could delete its slot; `PaidInv` that a paid key is
   pending, unknown, or committed with that very transaction; `PendingIsInFlight` that no
   orphan is taken for a request in flight. A crash leaves pending rows to recovery, which
   turns them into unknown, and `reserve` refuses those.

Refinement then needs only that `BroadcastAccepted` is a `Pay` for an unpaid key and
that a changed answer quotes the ledger.

**ReceiptPoller.** `VerdictIsTrue` and `VerdictIsFinal` rest on what `_poll_one` carries
between its read and its write: the candidates are distinct, unresolved and committed
(`QueueInv`), and what was found out is still so when it is written (`FoundInv`). The
count of receipts follows from `Allowed`: a receipt is owed for a stored verdict, and one
for each stop that closed the connection under the thread. `CodesAssumption` says that
the contract results of the network are none of the poller's own words.

**Webhooks.** `Consistent` relates a row to the history of its delivery: POSTs, forced
retries, lost outcomes, age, and whether a POST is in flight. It is needed because
`attempts` in the row lags behind the POSTs while the worker works on a row it read
earlier (`StillDue`), and because a forced retry resets the status and not the count.
`BackoffIsKept` needs that age and remaining wait add up to the delay. `DeliveredStays`
holds for any number of operators: a row that a retry is about to reset is still given up
unless another retry has reset it (`OverlapInv`), and no other step writes a delivered row.
`MaxDelay` bounds the delays of the schedule. **Alerts** reuses these lemmas, since
`notify_event` only adds rows, and adds that a critical event is queued at once and that
the store is not closed over rows that a handler is still to insert (`StoreInv`).

**RateLimit.** The difficulty is the sweeper's `DELETE` inside the transaction of a check.
`Fair(row, bucket, w, t)` says that a row read at wall time `w` is not
ahead of the ideal bucket at true time `t`, or by one request if the bucket is marked
`void`, and, if `w = t`, not behind it. It stays true
as time passes and the clock is set back (`Aging`), and a check takes the same from both
sides (`CheckFair`). A check uses the time it came in at, so its row is fair at
`check.now` and not at `wall`; `Aging` closes the gap at `COMMIT`. `SweepInv` says that a
row the waiting `DELETE` would take belongs to a client whose bucket is full, also at the
time the check came in: this is where the threshold has to exceed the time a bucket needs
to fill up by one check and one request (`IdleFull`), and why losing the row costs one
request at most (`VoidFair`). The proof needs `MaxStepBack <= IdleThreshold`, and so does
the property: if the clock is set back by more than the threshold while a `DELETE` waits
with its cutoff, the `DELETE` takes rows written since, and a client gets a full bucket
after one request. TLC finds this with `MaxStepBack` 8 and `IdleThreshold` 6.

**Tokens.** A rotation creates, revokes and prints in three steps, between which other
commands revoke or rotate the same row. `Informed` says what a command knows at each step:
the scopes it read are still those of the row, since no write changes them, and the token
it has minted names its parent. `AccessInv` counts the rotations that left nobody a token
against the commands that died, which needs that they are finitely many.

**Keystore.** Commands share the name of the temporary file. `NameInv` says that a torn
file under either name has a writer that is still to fill it, was killed, or wrote short;
`Owns` and `Edits` that a command which runs alone owns the file it has open and writes
the edit of what is stored. `ServesSaved` follows from `SavedKeyIsKept` at the moment of a
start, with what `Opens` demands of the file. Inodes are finite and outnumber the operators by two, so that
a new one exists when a command creates a file.

**Preflight.** `ListInv` follows the last whole download from the network to the file and
from the file to the list of the process, which a request needs. `FundsInv` says that a
request or a transfer that nothing crossed has its wallet to itself, `PriceInv` that
between the gate and the second read the cache holds what the gate has read. Assumed: the
names of the pool are non-empty strings, there is an amount and a well-formed recipient.
The auto-pick runs over several steps, between which balances change; nothing is assumed of
its result but that it is a wallet of the pool.

**Reports.** Three invariants, each resting on the one before it.

1. `ReportsInv`: what is missing, plus one while the file ends in a piece that a lost handle
   left, never exceeds the tears: the next line is lost behind it, whatever the buffer holds
   and whichever thread writes it.
2. `OrderInv`: ids are apart, in the file, in the buffer behind it and among the threads that
   have an id and not the lock yet. An id is new because the prefix of a process is, and its
   number is above all that carry its prefix. It says nothing of order: threads may write
   in any. `IdsStayUnique` follows.
3. `PageInv`: what a client has been given is not below its cursor, and what it has still to
   be given, of the records that were there when it began, is below. `PagingIsComplete`
   follows, given that a page is the head of the list of all records it may show, with ids
   that strictly fall (`PageIs`). This is where ids as strings matter: `NumeralsOrdered` and
   `IdsOrdered` show that comparing numerals without leading zeros digit by digit (10 before
   9, 1 before 10) is a strict order in any base, though not the order of the numbers.

`OkSaysTheTruth` needs that the window of the check is the MSK day and what a clock that was
set back has left beyond it (`InWindow`, `WindowIsToday`), and that the lines read from the
end are shown in that order (`ShownToday`). `TotalsAreTrue` follows the
pass of `aggregate_period` over the file line by line (`BucketsPass`, `AddLine`): after each
line the sums over the rows of the days are the counts over the lines so far, which also
covers a read that stops early. That no two lines are equal (`OrderInv`) is what makes a
count of lines the size of a set.

These are inductions over data, which the provers do not find from the library's induction
theorems, as those take an operator as a parameter. `ReportsProofs` begins with what is
needed instead: `Induction`, with a set of numbers in the place of a predicate, from the
least element of a set; `FoldExists`, that the function a community fold stands for exists;
from it what `FoldLeft` passes through (`WherePass`, `SortedPass`, `BucketsPass`) and what
`SumFunctionOnSet` adds up (`SumRemove`, `SumSame`); and what `Where` and `Sorted` return
(`WhereIs`, `SortedIs`: the same items, in order, none more often than before).
`ReportsAssumption` says that amounts are natural numbers; they are in units of 10^-6 USDT.

**Only model-checked.** Liveness (`LockIsReleased`, `EveryPaymentResolved`,
`EveryDeliveryEnds`): the prover has no support for fairness and `ENABLED`. Every invariant
and every other action property of the passing runs is the statement of a theorem;
`AtMostOnePayment`, which a violated run refutes, under `Unambiguous`.
`CriticalAlwaysThrough`, of the composed alert queue, is only a theorem.

**A note on the prover.** tlapm 1.4.5 translates an `EXCEPT` with two paths below the same
index (`[f EXCEPT ![h].a = x, ![h].b = y]`) wrongly for SMT, and a contradiction follows.
The modules write `![h] = [@ EXCEPT !.a = x, !.b = y]` instead. Prefix `SUBSET` and
`UNION` are parenthesised before a binary set operator, where tlapm and SANY disagree on
precedence. For every action it was tried that `FALSE` does not follow from the invariant
and the action.

## 5. Not modelled

`PROJECT.json` gives the reason for every component. Left out for good: cryptography
(a ciphertext opens with its passphrase, a hash matches its plaintext), HTTP framing and
models, metrics, logging, rendering of CSV and XLSX, prompts and output of the CLI,
installation, update and service control, which are I/O without a protocol of their own;
configuration, whose values are the constants of the modules; SQLite itself, backup and
restore included, which would be a model of its WAL. Inside modelled parts: the retry
loop of the TRON client (an RPC returns or raises), its resource queries, the second
writer of the audit file that `reconcile` is, and the sparkline of the period report, whose
amounts are rounded to floats for a plot and feed nothing else.

## 6. Plan

Models to add: `IdempotencyStore`, concurrent callers of the store and its condition
variable, refining `IdempotencyRows`; the lifespan's order of start and stop composed
with the poller and webhooks; `reconcile` as a second writer of the audit file; webhooks
composed with the audit log, for an operator who subscribes to `WEBHOOK_GIVEUP`.

Theorems to add: a refinement of the rate limiter's bucket by an abstract one; liveness,
with a prover that has fairness and `ENABLED`.
