--------------------------- MODULE MCBillingCycle ---------------------------
(* Instances of BillingCycle for TLC. *)
EXTENDS BillingCycle

CONSTANTS c1, c2, cron, office, none

(* A month as long as Fixed, a shorter one and a longer one. *)
ThreeMonths == <<3, 2, 4>>
=============================================================================
