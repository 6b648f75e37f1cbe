--------------------------- MODULE PaymentLedger ---------------------------
(***************************************************************************)
(* What POST /api/v1/send promises its clients (docs/idempotency.md, "The  *)
(* contract"), without locks, stores, logs or processes: a ledger in which *)
(* an idempotency key pays at most once, and answers that quote only the   *)
(* ledger.                                                                 *)
(***************************************************************************)
CONSTANTS Key, Txid, Thread, NoKey, NoTx

VARIABLES
  ledger,     \* the key each transaction was paid for, or NoKey
  answer      \* the last answer given to each client

Paid(k) == \E x \in Txid : ledger[x] = k

LedgerInit ==
  /\ ledger = [x \in Txid |-> NoKey]
  /\ \A t \in Thread : answer[t].txid = NoTx

\* The first and only payment for k.
Pay(k, x) ==
  /\ ~ Paid(k)
  /\ ledger[x] = NoKey
  /\ ledger' = [ledger EXCEPT ![x] = k]
  /\ UNCHANGED answer

\* Some client's answer changes; an answer that names a transaction names the
\* one that the key paid for.
Reply(t) ==
  /\ \A s \in Thread \ {t} : answer'[s] = answer[s]
  /\ answer'[t].txid # NoTx => ledger[answer'[t].txid] = answer'[t].key
  /\ UNCHANGED ledger

LedgerNext ==
  \/ \E k \in Key, x \in Txid : Pay(k, x)
  \/ \E t \in Thread : Reply(t)

LedgerSpec == LedgerInit /\ [][LedgerNext]_<<ledger, answer>>
============================================================================
