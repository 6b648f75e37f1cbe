------------------------------- MODULE Alerts -------------------------------
(***************************************************************************)
(* alerts.py: which audit records become Telegram messages, and the queue  *)
(* they go through.  AlertDeliveryStore and AlertWorker mirror their       *)
(* webhook counterparts, so their steps are those of Webhooks with one     *)
(* receiver, the chat; the differences are the rules of notify_event and   *)
(* that giving up is logged only.                                          *)
(*                                                                         *)
(* A record is reduced to the fields that the rules look at: [event,       *)
(* sanctions, amount].                                                     *)
(***************************************************************************)
EXTENDS Webhooks

CONSTANTS
  AuditRecord,      \* records the rules may meet
  EventFilter,      \* ALERT_EVENTS
  Threshold,        \* ALERT_SEND_THRESHOLD_USDT, 0 for none
  SanctionsNotify,  \* ALERT_SANCTIONS_HIT_NOTIFY
  HoursInDay        \* 24

ASSUME AlertsAssumption ==
  /\ HoursInDay \in Nat \ {0}
  /\ Threshold \in Nat
  /\ SanctionsNotify \in BOOLEAN
  /\ Event \subseteq AuditRecord
  /\ \A e \in AuditRecord : e.sanctions \in BOOLEAN /\ e.amount \in Nat

Hour == 0..HoursInDay - 1

\* "HH-HH"; an empty, malformed or out of range setting acts like equal bounds.
\* Settings are read at a start and may differ from one start to the next; the rules
\* keep no state, so each event may meet any of them.
QuietSpec == [start : Hour, end : Hour]

----------------------------------------------------------------------------
(* The rules.                                                              *)

\* A rejection whose details name the sanctions check.
IsSanctionsHit(e) == e.event = "SEND_REJECTED" /\ e.sanctions

MeetsThreshold(e) == Threshold # 0 /\ e.event = "SEND_SUCCESS" /\ e.amount >= Threshold

\* Mutant of InQuietHours: the last hour is counted in.
InQuietHoursClosed(q, h) ==
  /\ q.start # q.end
  /\ IF q.start < q.end
     THEN q.start <= h /\ h <= q.end
     ELSE h >= q.start \/ h <= q.end

\* [start, end), over midnight when start > end; equal bounds switch it off.
InQuietHours(q, h) ==
  /\ q.start # q.end
  /\ IF q.start < q.end
     THEN q.start <= h /\ h < q.end
     ELSE h >= q.start \/ h < q.end

BypassesQuietHours(e) == e.event = "SEND_FAILED" \/ IsSanctionsHit(e)

MatchesRule(e) ==
  \/ e.event \in EventFilter
  \/ MeetsThreshold(e)
  \/ SanctionsNotify /\ IsSanctionsHit(e)

\* is_configured() is FALSE once shutdown_alerts has dropped the store.
Verdict(e, q, h) ==
  IF store # "open" THEN "off"
  ELSE IF ~ MatchesRule(e) THEN "unmatched"
  ELSE IF InQuietHours(q, h) /\ ~ BypassesQuietHours(e) THEN "suppressed"
  ELSE "queued"

\* Hours from a to b on the clock.
HoursFrom(a, b) == (b - a) % HoursInDay

\* What the handlers of requests record; they have returned when shutdown_alerts runs.
HandlerEvent == {"SEND_SUCCESS", "SEND_REJECTED", "SEND_FAILED", "SEND_DUPLICATE"}

\* audit.record has the line on disk and calls notify_event in hour h, with quiet hours q.
NotifyEvent(e, q, h) ==
  /\ process = "up" \/ (process = "stopping" /\ e.event \notin HandlerEvent)
  /\ e \notin recorded
  /\ recorded' = recorded \cup {e}
  /\ enq' = IF Verdict(e, q, h) = "queued" THEN enq \cup ({e} \X Url) ELSE enq
  /\ UNCHANGED <<row, process, store, worker, cli, history, trouble, stops>>

----------------------------------------------------------------------------
(* The queue.                                                              *)

\* The delivered row, or its failure inside the try block of the POST.
AlertDelivered == RecordDelivered \/ RecordDeliveredRaises

\* Nothing is recorded when an alert is given up.
AlertHandleFailure == HandleFailureThen("tick") \/ HandleFailureRaises

\* shutdown_alerts comes first in the lifespan: webhooks and poller still record.
AlertShutdown ==
  /\ \A d \in enq : d[1].event \notin HandlerEvent
  /\ Shutdown

\* store.enqueue, take_due, telegram_send_message, `skr-crypto alert retry' and the life
\* cycle are those of the webhooks.
AlertNext ==
  \/ \E e \in Event, q \in QuietSpec, h \in Hour : NotifyEvent(e, q, h)
  \/ \E d \in Delivery : Insert(d)
  \/ TakeDue \/ EndTick \/ Post \/ AlertDelivered \/ AlertHandleFailure
  \/ \E o \in Operator : RetryWrite(o) \/ \E d \in Delivery : RetryRead(o, d)
  \/ Advance \/ AlertShutdown \/ Exit \/ Start

AlertSpec == Init /\ [][AlertNext]_vars

----------------------------------------------------------------------------
(* Properties.                                                             *)

\* A critical event the operator asked for.
Asked(e) ==
  \/ e.event = "SEND_FAILED" /\ "SEND_FAILED" \in EventFilter
  \/ e.event = "SEND_REJECTED" /\ e.sanctions /\ SanctionsNotify

\* The quiet window runs from its start hour for as many hours as lie between the bounds,
\* whether or not it spans midnight: in it only critical events are queued, only in it a
\* matching event is dropped, and "Sanctions hits bypass quiet hours.  SEND_FAILED bypasses
\* quiet hours": while alerts are on, one the operator asked for is queued at any hour
\* (in_quiet_hours, bypasses_quiet_hours and notify_event of alerts.py).
QuietHoursKept ==
  \A q \in QuietSpec, h \in Hour :
    LET within == HoursFrom(q.start, h) < HoursFrom(q.start, q.end)
    IN \A e \in AuditRecord :
         LET verdict == Verdict(e, q, h)
             critical == e.event = "SEND_FAILED" \/ (e.event = "SEND_REJECTED" /\ e.sanctions)
         IN /\ verdict = "queued" => critical \/ ~ within
            /\ verdict = "suppressed" => within /\ ~ critical
            /\ Asked(e) => verdict \in {"queued", "off"}

\* While no statement fails and the process does not crash, a critical event the operator
\* asked for has a row or is about to get one, whenever it was recorded and across orderly
\* restarts (notify_event, shutdown_alerts).
CriticalAlwaysThrough ==
  \A e \in recorded : trouble = 0 /\ Asked(e) =>
    \A u \in Url : row[<<e, u>>].status # "none" \/ <<e, u>> \in enq
============================================================================
