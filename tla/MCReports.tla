----------------------------- MODULE MCReports -----------------------------
(* Constants of the reports run.                                           *)
EXTENDS Reports

Sent(to, fate) == [event |-> "SEND_SUCCESS", to |-> to, amount |-> 2, sanctions |-> FALSE,
                   fate |-> fate, wide |-> FALSE]
Rejected == [Sent("a", "") EXCEPT !.event = "SEND_REJECTED", !.sanctions = TRUE]
Resolved == [Sent("", "REVERT") EXCEPT !.event = "RECEIPT_RESOLVED"]
MCEntry == [
  days |-> {Sent("a", "SUCCESS"), Sent("b", "SUCCESS"), Rejected},
  faults |-> {[Sent("a", "SUCCESS") EXCEPT !.wide = TRUE], Resolved},
  paging |-> {Sent("a", "REVERT")}]
MCMaxRecords == [days |-> 3, faults |-> 3, paging |-> 4]
MCMaxWriters == [days |-> 1, faults |-> 2, paging |-> 2]
============================================================================
