----------------------------- MODULE MCWebhooks -----------------------------
(* Instances of Webhooks, and of the rules of Alerts, for TLC.             *)
EXTENDS Alerts

\* Three attempts: at once, after one interval, after two.
Schedule == <<0, 1, 2>>

\* One record of each class the rules tell apart.
Failed == [event |-> "SEND_FAILED", sanctions |-> FALSE, amount |-> 1]
Sanctioned == [event |-> "SEND_REJECTED", sanctions |-> TRUE, amount |-> 1]
Rejected == [event |-> "SEND_REJECTED", sanctions |-> FALSE, amount |-> 1]
Large == [event |-> "SEND_SUCCESS", sanctions |-> FALSE, amount |-> 2]
Small == [event |-> "SEND_SUCCESS", sanctions |-> FALSE, amount |-> 1]

Records == {Failed, Sanctioned, Rejected, Large, Small}
OneEvent == {Failed}
============================================================================
