--------------------------- MODULE MCDelinquency ----------------------------
(* Instances of Delinquency for TLC. *)
EXTENDS Delinquency

CONSTANTS c1, i1, i2, cron, p1, p2

OnePppoe == [c \in {c1} |-> "PROBED"]

(* Here the operations come from the cycle and the handlers. *)
NoRequests == [p \in {cron, p1} |-> {}]

(* i1 is due today and i2 in two days; service is cut two days overdue. *)
OwnedByOne == [i \in {i1, i2} |-> c1]
DueInTurn  == [i \in {i1, i2} |-> IF i = i1 THEN 0 ELSE 2]
TwoDays    == [c \in {c1} |-> 2]

Office   == {"PAYMENT", "SUSPEND", "REACTIVATE", "TERMINATE", "EDIT", "RETRY", "VOID"}
Counter  == {"PAYMENT", "CHECKOUT", "VOID"}
Payments == {"PAYMENT"}
Retries  == {"RETRY"}

(* What the fair run tells apart: no action that it has reads the jobs or the
   episodes to decide anything but them, and the rest of scVars is history.  *)
Futures == <<access, secret, online, call, today, ran, contract, invoice, cycle, work, owed>>
=============================================================================
