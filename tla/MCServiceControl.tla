-------------------------- MODULE MCServiceControl --------------------------
(* Instances of ServiceControl for TLC. *)
EXTENDS ServiceControl, TLC

CONSTANTS c1, c2, p1, p2

OnePppoe    == [c \in {c1} |-> "PROBED"]
OneManual   == [c \in {c1} |-> "MANUAL_NODE"]

AutomaticSwitches ==
  {<<"SUSPEND", "CRON_MOROSIDAD">>, <<"RESTORE", "PAGO">>}
ManualSwitches == {<<"SUSPEND", "MANUAL">>, <<"RESTORE", "MANUAL">>}
Listeners == {<<"DEPROVISION", "SYSTEM">>, <<"SYNC", "SYSTEM">>}
Retry     == {<<"RETRY", "QUEUE_RETRY">>}
Configure == {<<"PROVISION", "SYSTEM">>}
Rotate    == {<<"ROTATE", "SYSTEM">>}

SwitchRequests == AutomaticSwitches \cup ManualSwitches \cup Retry
AllRequests    == SwitchRequests \cup Listeners \cup Configure \cup Rotate

(* p1 is the cycle, which suspends; p2 serves payments, which restore, and
   rotates the password, which saves twice. *)
SwitchesAndRotations ==
  (p1 :> {<<"SUSPEND", "CRON_MOROSIDAD">>})
    @@ (p2 :> Rotate \cup {<<"RESTORE", "PAGO">>})
Automatic  == [p \in {p1} |-> AutomaticSwitches]
CutAndRetried == [p \in {p1} |-> {<<"SUSPEND", "CRON_MOROSIDAD">>, <<"DEPROVISION", "SYSTEM">>} \cup Retry]
Everything == [p \in {p1} |-> AllRequests]
=============================================================================
