--------------------------- MODULE WanProvisioning ---------------------------
(***************************************************************************)
(* The WAN of one ONU: a connection that is written either through the OLT *)
(* (OMCI) or through the ACS (TR-069), whose answer may be lost and whose  *)
(* task may wait in a queue for hours.                                     *)
(*                                                                         *)
(* OnuWanProvisioningService keeps a desired version and one operation per *)
(* version.  Everything it does is done under a session lock of the        *)
(* database that is tried and never waited for: at most one call is under  *)
(* way, the others are refused.  The process may die at every step of it,  *)
(* which frees the lock.                                                   *)
(***************************************************************************)
EXTENDS Integers

CONSTANTS
  Foreign,      \* what others do to the equipment: "READ", "REBOOT", "RESET"
  CrashPoints,  \* the steps of a call before which the process may die
  MaxAttempts,  \* attempts of a version that was certainly not sent (5 in the code)
  MaxVersion    \* bound: versions that are asked for, and changes of credentials

Methods == {"OMCI", "TR069"}

(* OMCI configures PPPoE only.  The rest of what is desired goes with the mode. *)
Modes == {"PPPOE", "DHCP"}

Statuses == {"NOT_CONFIGURED", "PENDING", "APPLYING", "QUEUED", "VERIFYING",
             "APPLIED", "ERROR", "UNKNOWN"}

Unconfirmed == {"APPLYING", "QUEUED", "VERIFYING", "UNKNOWN"}

Steps == {"check", "apply", "write", "finish", "invalidate", "push"}

ASSUME ConstantsAssumption ==
  /\ Foreign \subseteq {"READ", "REBOOT", "RESET"} /\ CrashPoints \subseteq Steps
  /\ MaxAttempts \in Nat \ {0} /\ MaxVersion \in Nat \ {0}

VARIABLES
  config,      \* the row of onu_service_config
  op,          \* the latest row of onu_wan_operations; version 0: none
  credential,  \* how many times the credentials of the contract have changed
  call,        \* the call that holds the lock, by its next step
  listed,      \* the row as the cron has listed it
  queue,       \* the WANs that wait in the queue of the ACS
  others,      \* the other tasks that wait in it
  device,      \* the WAN that landed last on the equipment; version 0: none of ours
  erased,      \* a factory reset has taken it away since
  informed,    \* the equipment is known to the ACS
  sent         \* history: times a WAN was sent since somebody decided on it

rows  == <<config, op, credential>>
plant == <<queue, others, device, erased, informed>>
vars  == <<config, op, credential, call, listed, queue, others, device, erased, informed, sent>>

-----------------------------------------------------------------------------
(* Rows *)

Versions == 0..(MaxVersion + 1)

Config == [method : Methods \cup {"NONE"}, mode : Modes, desired : Versions,
           applied : Versions, status : Statuses]

(* safe: the evidence says safeToRetry.  task: it names the task of the ACS. *)
Operation == [version : Versions, method : Methods, mode : Modes, secret : Nat,
              status : Statuses, attempts : Nat, safe : BOOLEAN, task : BOOLEAN]

NoOperation == [version |-> 0, method |-> "TR069", mode |-> "PPPOE", secret |-> 0,
                status |-> "ERROR", attempts |-> 1, safe |-> FALSE, task |-> FALSE]

(* What is written: PPPoE needs the credentials of the contract. *)
Secret(mode) == IF mode = "PPPOE" THEN credential ELSE 0

Wan(o) == [version |-> o.version, mode |-> o.mode, secret |-> o.secret]

NoWan == [version |-> 0, mode |-> "PPPOE", secret |-> 0]

Idle == [pc |-> "idle"]

(* affectsWanProvisioning: reads do not; our own tasks and reboots do. *)
Blocked == queue # {} \/ others \ {"READ"} # {}

(* The fingerprint of the latest operation is the one of this request. *)
SameRequest(method, mode) ==
  op.version > 0 /\ op.method = method /\ op.mode = mode /\ op.secret = Secret(mode)

-----------------------------------------------------------------------------
(* configure: the checks, the transaction that makes a new version, the
   write to the equipment, and the transaction that records its outcome      *)

(* ensureAcsDrained and assertTr069QueueAvailable.  An equipment that the ACS
   does not know has no queue.                                              *)
QueueAvailable(method) ==
  informed => ~Blocked /\ (method = "OMCI" => others = {})

(* Mutant of Admitted: the queue of the ACS is not looked at for OMCI. *)
AdmittedUndrained(method, mode) ==
  /\ method = "OMCI" => mode = "PPPOE"
  /\ op.status \notin Unconfirmed \/ op.version = 0
  /\ ~(op.status = "APPLIED" /\ op.version = config.desired /\ SameRequest(method, mode))
  /\ method = "TR069" => QueueAvailable(method)

(* A request goes on unless an operation is unconfirmed, it is applied already
   or the queue is not available.                                            *)
Admitted(method, mode) ==
  /\ method = "OMCI" => mode = "PPPOE"
  /\ op.status \notin Unconfirmed \/ op.version = 0
  /\ ~(op.status = "APPLIED" /\ op.version = config.desired /\ SameRequest(method, mode))
  /\ QueueAvailable(method)

(* resumeSafeAttempt *)
Resumes(method, mode, actor) ==
  /\ ~actor /\ op.version = config.desired /\ op.status = "ERROR"
  /\ SameRequest(method, mode) /\ op.safe

Request(method, mode, actor) ==
  [pc |-> "apply", method |-> method, mode |-> mode,
   resume |-> Resumes(method, mode, actor), actor |-> actor]

Enter(method, mode, actor) ==
  /\ Admitted(method, mode)
  /\ call' = Request(method, mode, actor)

(* Mutant of NextVersion: the version of a failed operation is used again. *)
NextVersionAgain ==
  IF call.resume \/ (op.status = "ERROR" /\ op.version > 0) THEN config.desired ELSE config.desired + 1

NextVersion == IF call.resume THEN config.desired ELSE config.desired + 1

Apply ==
  LET version == NextVersion IN
  /\ call.pc = "apply" /\ version \in Versions
  /\ config' = [config EXCEPT !.method = call.method, !.mode = call.mode,
                              !.desired = version, !.status = "APPLYING"]
  /\ op' = IF call.resume
             THEN [op EXCEPT !.status = "APPLYING", !.attempts = @ + 1, !.safe = FALSE,
                             !.task = FALSE]
             ELSE [version |-> version, method |-> call.method, mode |-> call.mode,
                   secret |-> Secret(call.mode), status |-> "APPLYING", attempts |-> 1,
                   safe |-> FALSE, task |-> FALSE]
  /\ call' = [pc |-> "write"]
  /\ UNCHANGED <<credential, listed, sent>> /\ UNCHANGED plant

(* What becomes of a write: nothing, a task of the ACS, or the equipment has it. *)
Reach(effect) ==
  /\ queue' = IF effect = "queued" THEN queue \cup {Wan(op)} ELSE queue
  /\ device' = IF effect = "done" THEN Wan(op) ELSE device
  /\ erased' = (erased /\ effect # "done")
  /\ sent' = IF effect = "none" THEN sent ELSE sent + 1
  /\ UNCHANGED <<others, informed>>

Outcome(status, safe, task) ==
  call' = [pc |-> "finish", status |-> status, safe |-> safe, task |-> task]

(* configureOnuWanWithSession: a command that fails after the first one leaves
   what it leaves; a check that fails before it has written nothing.         *)
WriteOmci ==
  /\ call.pc = "write" /\ op.method = "OMCI"
  /\ \/ \E status \in {"APPLIED", "VERIFYING"} : Reach("done") /\ Outcome(status, FALSE, FALSE)
     \/ \E effect \in {"none", "done"} : Reach(effect) /\ Outcome("UNKNOWN", FALSE, FALSE)
  /\ UNCHANGED listed /\ UNCHANGED rows

(* Mutant of WriteTr069: whatever fails is taken for an absent equipment. *)
WriteTr069Hopeful ==
  /\ call.pc = "write" /\ op.method = "TR069"
  /\ \/ ~informed /\ Reach("none") /\ Outcome("ERROR", TRUE, FALSE)
     \/ /\ informed
        /\ \/ \E status \in {"APPLIED", "VERIFYING"} : Reach("done") /\ Outcome(status, FALSE, TRUE)
           \/ Reach("queued") /\ Outcome("QUEUED", FALSE, TRUE)
           \/ \E effect \in {"none", "queued", "done"} :
                Reach(effect) /\ Outcome("ERROR", TRUE, FALSE)
  /\ UNCHANGED listed /\ UNCHANGED rows

(* configureCpe: 200, the task was executed, and read back or not; 202, it
   waits in the queue; a failure after the equipment was found says nothing. *)
WriteTr069 ==
  /\ call.pc = "write" /\ op.method = "TR069"
  /\ \/ Reach("none") /\ Outcome("UNKNOWN", FALSE, FALSE)
     \/ ~informed /\ Reach("none") /\ Outcome("ERROR", TRUE, FALSE)
     \/ /\ informed
        /\ \/ \E status \in {"APPLIED", "VERIFYING"} : Reach("done") /\ Outcome(status, FALSE, TRUE)
           \/ Reach("queued") /\ Outcome("QUEUED", FALSE, TRUE)
           \/ \E effect \in {"queued", "done"} : Reach(effect) /\ Outcome("UNKNOWN", FALSE, FALSE)
  /\ UNCHANGED listed /\ UNCHANGED rows

(* finish: both rows in one transaction. *)
Finished(status, safe, task) ==
  /\ config' = [config EXCEPT !.status = status,
                              !.applied = IF status = "APPLIED" THEN op.version ELSE @]
  /\ op' = [op EXCEPT !.status = status, !.safe = safe, !.task = task]

Finish ==
  /\ call.pc = "finish" /\ op.version = config.desired /\ op.method = config.method
  /\ Finished(call.status, call.safe, call.task)
  /\ call' = Idle
  /\ UNCHANGED <<credential, listed, sent>> /\ UNCHANGED plant

(* The process dies, or the step throws: the lock is free, the rows stay. *)
Crash ==
  /\ call.pc \in CrashPoints
  /\ call' = Idle
  /\ UNCHANGED <<listed, sent>> /\ UNCHANGED rows /\ UNCHANGED plant

-----------------------------------------------------------------------------
(* What operators do *)

Configure(method, mode) ==
  /\ call = Idle /\ config.desired < MaxVersion
  /\ Enter(method, mode, TRUE)
  /\ sent' = 0
  /\ UNCHANGED listed /\ UNCHANGED rows /\ UNCHANGED plant

(* retry, acknowledged: the operation is given up, then configured anew. *)
Retry ==
  /\ call = Idle /\ config.desired < MaxVersion
  /\ op.version > 0 /\ op.version = config.desired
  /\ op.status \in {"UNKNOWN", "ERROR", "VERIFYING"} /\ QueueAvailable(op.method)
  /\ Finished("ERROR", op.safe, op.task)
  /\ call' = [pc |-> "check"]
  /\ sent' = 0
  /\ UNCHANGED <<credential, listed>> /\ UNCHANGED plant

Check ==
  /\ call.pc = "check"
  /\ IF Admitted(config.method, config.mode)
       THEN call' = Request(config.method, config.mode, TRUE) ELSE call' = Idle
  /\ UNCHANGED <<listed, sent>> /\ UNCHANGED rows /\ UNCHANGED plant

(* The trigger of network_access waits for the lock of the ONU. *)
ChangeCredentials ==
  /\ call = Idle /\ config.desired < MaxVersion /\ credential < MaxVersion
  /\ credential' = credential + 1
  /\ op' = IF op.status \in Unconfirmed \cup {"PENDING"} THEN [op EXCEPT !.status = "ERROR"] ELSE op
  /\ config' = IF config.method = "NONE" THEN config
                 ELSE [config EXCEPT !.desired = @ + 1, !.status = "PENDING"]
  /\ sent' = 0
  /\ UNCHANGED <<call, listed>> /\ UNCHANGED plant

(* authorizeOnu empties the equipment or not; migrateOnu puts another in its
   place, which the ACS does not know.                                       *)
Replace ==
  /\ call = Idle /\ config.desired < MaxVersion
  /\ \E migrates \in BOOLEAN :
       /\ call' = [pc |-> "invalidate", migrates |-> migrates, old |-> config]
       /\ IF migrates
            THEN device' = NoWan /\ queue' = {} /\ others' = {} /\ erased' = FALSE /\ informed' = FALSE
            ELSE device' \in {device, NoWan} /\ UNCHANGED <<queue, others, erased, informed>>
  /\ sent' = 0
  /\ UNCHANGED listed /\ UNCHANGED rows

(* invalidateReplacement; migrateOnu goes on to push the WAN it had read. *)
Invalidate ==
  /\ call.pc = "invalidate"
  /\ IF config.method = "NONE" THEN UNCHANGED <<config, op>>
       ELSE /\ config' = [config EXCEPT !.applied = 0, !.desired = @ + 1,
                                        !.status = "NOT_CONFIGURED"]
            /\ op' = [op EXCEPT !.status = "ERROR"]
  /\ call' = IF call.migrates /\ call.old.method # "OMCI"
               THEN [pc |-> "push", mode |-> call.old.mode, actor |-> TRUE] ELSE Idle
  /\ UNCHANGED <<credential, listed, sent>> /\ UNCHANGED plant

(* pushCpeConfiguration, when nothing is unconfirmed: TR-069, with the mode that
   its caller had read.  Its failures are swallowed.                         *)
Push ==
  /\ call.pc = "push"
  /\ IF /\ ~(config.status \in Unconfirmed /\ config.desired > 0)
        /\ Admitted("TR069", call.mode)
       THEN call' = Request("TR069", call.mode, call.actor)
       ELSE call' = Idle
  /\ UNCHANGED <<listed, sent>> /\ UNCHANGED rows /\ UNCHANGED plant

-----------------------------------------------------------------------------
(* What the cron does, every two minutes *)

Managed(c) == c.method # "NONE" /\ c.desired > 0

NotListed == [method |-> "NOT_LISTED"]

List ==
  /\ listed = NotListed
  /\ IF Managed(config) THEN config.status \in Unconfirmed \cup {"PENDING", "ERROR"}
                        ELSE config.method # "OMCI"
  /\ listed' = config
  /\ UNCHANGED <<call, sent>> /\ UNCHANGED rows /\ UNCHANGED plant

(* The ONU was listed without a version: its configuration is pushed. *)
PushListed ==
  /\ listed # NotListed /\ ~Managed(listed) /\ call = Idle
  /\ call' = [pc |-> "push", mode |-> listed.mode, actor |-> FALSE]
  /\ listed' = NotListed
  /\ UNCHANGED sent /\ UNCHANGED rows /\ UNCHANGED plant

(* What can be read back is what was asked for; passwords cannot be read. *)
Matches == device.mode = op.mode /\ device.version > 0 /\ ~erased

(* verify: what an observation of the equipment makes of the status. *)
ObservedOmci ==
  IF op.status \in {"UNKNOWN", "APPLYING"} THEN "UNKNOWN"
  ELSE IF Matches THEN "APPLIED" ELSE "VERIFYING"

(* Mutant of ObservedTr069: what is read back is taken for the task. *)
ObservedTr069Hasty ==
  IF ~op.task THEN IF op.status = "APPLYING" THEN "UNKNOWN" ELSE op.status
  ELSE IF Matches THEN "APPLIED"
  ELSE IF Blocked THEN "QUEUED" ELSE "VERIFYING"

(* The readback is as good as its task. *)
ObservedTr069 ==
  IF ~op.task THEN IF op.status = "APPLYING" THEN "UNKNOWN" ELSE op.status
  ELSE IF Blocked THEN "QUEUED"
  ELSE IF Matches THEN "APPLIED" ELSE "VERIFYING"

Observed == IF op.method = "OMCI" THEN ObservedOmci ELSE ObservedTr069

(* The equipment or the ACS could not be asked, or did not say enough. *)
Unobserved == IF op.status = "APPLYING" THEN {"UNKNOWN"}
              ELSE IF op.method = "TR069" /\ op.task
                   THEN {op.status, IF Blocked THEN "QUEUED" ELSE "VERIFYING"}
              ELSE {op.status}

Verify ==
  /\ call = Idle /\ op.version > 0 /\ op.version = config.desired /\ op.status \in Unconfirmed
  /\ \E status \in Unobserved \cup {Observed} : Finished(status, op.safe, op.task)
  /\ UNCHANGED <<credential, call, sent>> /\ UNCHANGED plant

(* Mutant of Resend: what is pending is left to whoever asked for it. *)
ResendFailed ==
  /\ config.status = "ERROR" /\ op.safe /\ op.attempts < MaxAttempts
  /\ Enter(config.method, config.mode, FALSE)
  /\ UNCHANGED sent /\ UNCHANGED rows /\ UNCHANGED plant

(* What is pending, and what certainly was not sent, is configured. *)
Resend ==
  /\ \/ config.status = "PENDING"
     \/ config.status = "ERROR" /\ op.safe /\ op.attempts < MaxAttempts
  /\ Enter(config.method, config.mode, FALSE)
  /\ UNCHANGED sent /\ UNCHANGED rows /\ UNCHANGED plant

(* reconcile reads the row again, under the lock. *)
Reconcile ==
  /\ listed # NotListed /\ Managed(listed) /\ call = Idle
  /\ listed' = NotListed
  /\ Resend \/ (config.status \notin {"PENDING", "ERROR"} /\ Verify)

(* The cron is through with the ONU: refused, or nothing to be done. *)
Unlist ==
  /\ listed # NotListed
  /\ ~ENABLED Reconcile /\ ~ENABLED PushListed
  /\ listed' = NotListed
  /\ UNCHANGED <<call, sent>> /\ UNCHANGED rows /\ UNCHANGED plant

-----------------------------------------------------------------------------
(* The ACS and the equipment *)

Inform ==
  /\ ~informed
  /\ informed' = TRUE
  /\ UNCHANGED <<queue, others, device, erased, call, listed, sent>> /\ UNCHANGED rows

(* Tasks are delivered when the equipment opens a session. *)
Deliver ==
  /\ informed
  /\ \E wan \in queue : queue' = queue \ {wan} /\ device' = wan
  /\ erased' = FALSE
  /\ UNCHANGED <<others, informed, call, listed, sent>> /\ UNCHANGED rows

DeliverOther ==
  /\ informed
  /\ others # {} /\ others' = {}
  /\ erased' = (erased \/ "RESET" \in others)
  /\ UNCHANGED <<queue, device, informed, call, listed, sent>> /\ UNCHANGED rows

(* Support reads, reboots or resets the equipment, without the lock. *)
Disturb ==
  /\ informed
  /\ \E task \in Foreign \ others : others' = others \cup {task}
  /\ UNCHANGED <<queue, device, erased, informed, call, listed, sent>> /\ UNCHANGED rows

(* factoryResetOnu: support resets it from the OLT, without the lock either. *)
FactoryReset ==
  /\ "RESET" \in Foreign
  /\ ~erased /\ erased' = TRUE
  /\ UNCHANGED <<queue, others, device, informed, call, listed, sent>> /\ UNCHANGED rows

(* An operator of the ACS deletes a task that waits. *)
Drop ==
  /\ \E wan \in queue : queue' = queue \ {wan}
  /\ UNCHANGED <<others, device, erased, informed, call, listed, sent>> /\ UNCHANGED rows

-----------------------------------------------------------------------------
(* The specifications *)

(* A row that the migration 106 finds: no method, or TR-069 of unknown state. *)
Init ==
  /\ \E mode \in Modes :
       config \in {[method |-> "NONE", mode |-> mode, desired |-> 0, applied |-> 0,
                    status |-> "NOT_CONFIGURED"],
                   [method |-> "TR069", mode |-> mode, desired |-> 0, applied |-> 0,
                    status |-> "UNKNOWN"]}
  /\ op = NoOperation /\ credential = 0 /\ call = Idle /\ listed = NotListed
  /\ queue = {} /\ others = {} /\ device = NoWan /\ erased = FALSE /\ informed \in BOOLEAN
  /\ sent = 0

CallNext == Apply \/ WriteOmci \/ WriteTr069 \/ Finish \/ Check \/ Invalidate \/ Push

CronNext == List \/ PushListed \/ Reconcile \/ Unlist

OperatorNext ==
  \/ \E method \in Methods, mode \in Modes : Configure(method, mode)
  \/ Retry \/ ChangeCredentials \/ Replace \/ (Verify /\ UNCHANGED listed)

PlantNext == Inform \/ Deliver \/ DeliverOther \/ Disturb \/ FactoryReset

Next == CallNext \/ Crash \/ CronNext \/ OperatorNext \/ PlantNext

Spec == Init /\ [][Next]_vars

(* Tasks are deleted from the queue of the ACS as well. *)
DropSpec == Init /\ [][Next \/ Drop]_vars

(* The row does not change between the list of the cron and its use. *)
FreshSpec == Init /\ [][Next /\ (listed' = listed /\ listed # NotListed => config' = config)]_vars

(* A call that is not interrupted goes on, and is not interrupted for ever
   before it has written anything; the cron keeps trying, and does not find the
   lock taken or the tasks of others in the queue each time it comes; the
   equipment opens sessions.                                                  *)
FairSpec ==
  /\ FreshSpec
  /\ WF_vars(CallNext) /\ SF_vars(Apply)
  /\ WF_vars(List) /\ SF_vars(List /\ others = {}) /\ WF_vars(Unlist)
  /\ WF_vars(PushListed) /\ SF_vars(Reconcile)
  /\ WF_vars(Inform) /\ WF_vars(Deliver) /\ WF_vars(DeliverOther)

-----------------------------------------------------------------------------
(* Properties *)

(* The rows, the call and the queue have their types, and the row of the
   configuration agrees with the latest operation: an operation that is under
   way or not confirmed is the one of the desired version.                   *)
WanTypeOK ==
  /\ config \in Config /\ op \in Operation /\ credential \in 0..MaxVersion
  /\ call.pc \in Steps \cup {"idle"}
  /\ listed \in Config \cup {NotListed}
  /\ others \subseteq Foreign /\ {erased, informed} \subseteq BOOLEAN /\ sent \in Nat
  /\ op.version <= config.desired /\ config.applied <= op.version
  /\ op.status \in Unconfirmed => op.version = config.desired /\ op.status = config.status

(* What somebody decided is sent to the equipment once: a write that may have
   reached it is not repeated by the cron, by a restart or by a verification
   (onu-wan-omci-compatibility.md: a timeout during the write causes no
   automatic resend).                                                        *)
SentOnce == sent <= 1

(* A configuration that says APPLIED is what landed last on the equipment,
   password and all: nothing that waited in the ACS has overwritten it.      *)
AppliedIsTrue ==
  config.status = "APPLIED" /\ call.pc # "invalidate" =>
    /\ config.applied = config.desired /\ op.version = config.desired
    /\ device = Wan(op)

(* An earlier write never lands on the equipment after a later one. *)
NeverBackwards == [][device'.version >= device.version \/ device' = NoWan]_device

(* Nor has it been reset since: the code tells the rows of no factory reset. *)
AppliedIsThere == config.status = "APPLIED" /\ call.pc # "invalidate" => ~erased

(* The method of the WAN is changed by a call of an operator, or set by the
   first push of an ONU that has none.                                       *)
OperatorIsObeyed ==
  [][config'.method # config.method => call.actor \/ config.method = "NONE"]_config

(* What waits to be sent, or was interrupted while it was, is taken up again:
   after a crash, a change of credentials, tasks in the queue of the ACS.    *)
NothingIsForgotten ==
  config.status \in {"PENDING", "APPLYING"} ~> config.status \notin {"PENDING", "APPLYING"}

(* All of it is a delivery: each decision reaches the equipment once, after the
   one before it, and APPLIED is said of what has arrived.                   *)
Promise == INSTANCE Delivery WITH
  Decisions <- [version : Versions, mode : Modes, secret : Nat],
  Nothing <- NoWan,
  wanted  <- Wan(op),
  transit <- queue,
  held    <- device,
  known   <- config.status = "APPLIED" /\ call.pc # "invalidate",
  sends   <- sent

WanIsDelivery == Promise!DeliverySpec

=============================================================================
