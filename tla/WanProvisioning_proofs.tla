------------------------ MODULE WanProvisioning_proofs ------------------------
(***************************************************************************)
(* Proofs about WanProvisioning, for any number of versions, attempts and  *)
(* changes of credentials.                                                 *)
(*                                                                         *)
(* Everything rests on one fact: what waits in the ACS is the latest       *)
(* operation or nothing, because no version is made while something waits. *)
(* The last section puts it together: WanProvisioning implements Delivery. *)
(***************************************************************************)
EXTENDS WanProvisioning, TLAPS

-----------------------------------------------------------------------------
(* The rows, the call and the plant *)

Wans == [version : Versions, mode : Modes, secret : Nat]

(* What a call carries at each of its steps. *)
CallType ==
  /\ call.pc = "apply" => /\ call.method \in Methods /\ call.mode \in Modes
                          /\ call.resume \in BOOLEAN
  /\ call.pc = "finish" => /\ call.status \in Statuses \ {"PENDING", "NOT_CONFIGURED"}
                           /\ call.safe \in BOOLEAN /\ call.task \in BOOLEAN
                           /\ call.safe => call.status = "ERROR"
  /\ call.pc = "invalidate" => /\ call.old \in Config
                               /\ config.desired < MaxVersion
  /\ call.pc = "push" => call.mode \in Modes /\ call.actor \in BOOLEAN
  /\ call.pc = "check" => config.method # "NONE"

(* An ONU that has no method has no operation either, and nothing to be done. *)
Untouched ==
  /\ config.method = "NONE" => config.desired = 0 /\ config.status = "NOT_CONFIGURED"
  /\ op.version = 0 => op.status = "ERROR" /\ ~op.safe

(* The operation of a call that writes is the desired one. *)
UnderWay ==
  /\ call.pc \in {"write", "finish"} =>
       /\ op.version = config.desired /\ op.version > 0
       /\ op.status = "APPLYING" /\ ~op.safe /\ ~op.task
  /\ call.pc = "apply" /\ call.resume =>
       op.version = config.desired /\ op.version > 0 /\ op.status = "ERROR"

(* Both rows say APPLIED, of the same version. *)
RecordsAgree ==
  config.status = "APPLIED" =>
    op.status = "APPLIED" /\ op.version = config.desired /\ config.applied = config.desired

(* The ACS holds the latest operation or nothing. *)
QueueInv ==
  /\ queue \subseteq {Wan(op)}
  /\ ~informed => queue = {}
  /\ call.pc \in {"apply", "write"} => queue = {}
  /\ op.method = "OMCI" => queue = {}

DeviceInv == device \in Wans /\ device.version <= op.version

RowsInv == WanTypeOK /\ CallType /\ Untouched /\ UnderWay /\ RecordsAgree

WanInv == RowsInv /\ QueueInv /\ DeviceInv

-----------------------------------------------------------------------------
(* Steps *)

(* Whatever makes the cron give up, it only forgets what it had listed. *)
LEMMA UnlistStep ==
  Unlist => /\ listed' = NotListed
            /\ UNCHANGED <<config, op, credential, call, queue, others, device, erased, informed, sent>>
  BY DEF Unlist, rows, plant

LEMMA Admission ==
  ASSUME WanInv, NEW method \in Methods, NEW mode \in Modes, NEW actor \in BOOLEAN,
         Enter(method, mode, actor)
  PROVE  /\ queue = {}
         /\ call' = Request(method, mode, actor)
         /\ call'.pc = "apply" /\ call'.method = method /\ call'.mode = mode
         /\ call'.resume \in BOOLEAN
         /\ call'.resume => op.version = config.desired /\ op.version > 0 /\ op.status = "ERROR"
<1>1. queue = {}
  BY DEF Enter, Admitted, QueueAvailable, Blocked, WanInv, QueueInv
<1> QED BY <1>1 DEF Enter, Request, Resumes, SameRequest

LEMMA InitInv == Init => WanInv
<1> SUFFICES ASSUME Init PROVE WanInv
  OBVIOUS
<1>1. config \in Config /\ op \in Operation /\ NoWan \in Wans
  BY ConstantsAssumption
     DEF Init, Config, Operation, NoOperation, NoWan, Wans, Versions, Modes, Methods, Statuses
<1>2. /\ op.version = 0 /\ op.status \notin Unconfirmed
      /\ config.applied = 0 /\ config.desired = 0
  BY DEF Init, NoOperation, Unconfirmed
<1>3. /\ credential \in 0..MaxVersion /\ sent \in Nat
      /\ others \subseteq Foreign /\ erased \in BOOLEAN /\ informed \in BOOLEAN
  <2>1. credential = 0 /\ sent = 0 /\ 0 \in 0..MaxVersion /\ 0 \in Nat
    BY ConstantsAssumption DEF Init
  <2>2. others = {} /\ erased = FALSE /\ informed \in BOOLEAN
    BY Zenon DEF Init
  <2> QED BY <2>1, <2>2
<1>4. WanTypeOK
  BY <1>1, <1>2, <1>3 DEF Init, WanTypeOK, Idle
<1>5. CallType /\ Untouched /\ UnderWay /\ RecordsAgree
  BY <1>1 DEF Init, CallType, Untouched, UnderWay, RecordsAgree, Idle, NoOperation
<1>6. QueueInv /\ DeviceInv
  BY <1>1 DEF Init, QueueInv, DeviceInv, NoOperation, NoWan, Idle
<1> QED BY <1>4, <1>5, <1>6 DEF WanInv, RowsInv

-----------------------------------------------------------------------------
(* The steps of a call *)

LEMMA SecretType == ASSUME WanInv, NEW mode \in Modes PROVE Secret(mode) \in Nat
  BY ConstantsAssumption DEF Secret, WanInv, RowsInv, WanTypeOK

LEMMA ApplyKeeps == ASSUME WanInv, Apply PROVE WanInv'
<1> DEFINE version == IF call.resume THEN config.desired ELSE config.desired + 1
<1>1. version \in Versions /\ version > 0 /\ version >= config.desired /\ version >= op.version
  BY DEF Apply, NextVersion, WanInv, RowsInv, WanTypeOK, CallType, UnderWay, Config, Operation, Versions
<1>2. /\ config' \in Config /\ config'.desired = version /\ config'.status = "APPLYING"
      /\ config'.method = call.method /\ config'.applied = config.applied
  BY <1>1 DEF Apply, NextVersion, WanInv, RowsInv, WanTypeOK, CallType, Config, Statuses
<1>3. /\ op' \in Operation /\ op'.version = version /\ op'.status = "APPLYING"
      /\ ~op'.safe /\ ~op'.task
  <2>1. CASE call.resume
    <3>1. op' = [op EXCEPT !.status = "APPLYING", !.attempts = @ + 1, !.safe = FALSE, !.task = FALSE]
      BY <2>1 DEF Apply, NextVersion
    <3>2. op \in Operation /\ op.version = config.desired
      BY <2>1 DEF Apply, NextVersion, WanInv, RowsInv, WanTypeOK, UnderWay
    <3>3. op.attempts \in Nat /\ op.version = version
      BY <2>1, <3>2 DEF Operation
    <3> DEFINE most == [op EXCEPT !.status = "APPLYING", !.safe = FALSE, !.task = FALSE]
    <3>4. most \in Operation /\ op' = [most EXCEPT !.attempts = op.attempts + 1]
      BY <3>1, <3>2 DEF Operation, Statuses
    <3>5. op' \in Operation
      <4> HIDE DEF most
      <4> QED BY <3>3, <3>4 DEF Operation
    <3>6. op'.version = op.version /\ op'.status = "APPLYING" /\ ~op'.safe /\ ~op'.task
      BY <3>1, <3>2 DEF Operation
    <3> QED BY <3>3, <3>5, <3>6
  <2>2. CASE ~call.resume
    <3>1. call.method \in Methods /\ call.mode \in Modes
      BY DEF Apply, NextVersion, WanInv, RowsInv, CallType
    <3>2. op' = [version |-> version, method |-> call.method, mode |-> call.mode,
                 secret |-> Secret(call.mode), status |-> "APPLYING", attempts |-> 1,
                 safe |-> FALSE, task |-> FALSE]
      BY <2>2 DEF Apply, NextVersion
    <3> HIDE DEF version
    <3> QED BY <1>1, <3>1, <3>2, SecretType DEF Operation, Statuses
  <2>3. call.resume \in BOOLEAN
    BY DEF Apply, NextVersion, WanInv, RowsInv, CallType
  <2> HIDE DEF version
  <2> QED BY <2>1, <2>2, <2>3
<1>4. call' = [pc |-> "write"] /\ UNCHANGED <<credential, listed, sent, queue, others, device, erased, informed>>
  BY DEF Apply, NextVersion, plant
<1>5. queue' = {}
  BY <1>4 DEF Apply, NextVersion, WanInv, QueueInv
<1>6. RowsInv'
  <2> HIDE DEF version
  <2>1. WanTypeOK'
    <3>1. config.applied <= version /\ listed \in Config \cup {NotListed}
      BY <1>1 DEF WanInv, RowsInv, WanTypeOK, Config, Operation, Versions
    <3> QED BY <1>1, <1>2, <1>3, <1>4, <3>1
            DEF WanInv, RowsInv, WanTypeOK, Steps, Versions
  <2>2. CallType' /\ UnderWay' /\ RecordsAgree'
    BY <1>1, <1>2, <1>3, <1>4 DEF CallType, UnderWay, RecordsAgree
  <2>3. call.method # "NONE"
    BY DEF Apply, NextVersion, WanInv, RowsInv, CallType, Methods
  <2>4. Untouched'
    BY <1>1, <1>2, <1>3, <2>3 DEF Untouched
  <2> QED BY <2>1, <2>2, <2>4 DEF RowsInv
<1>7. QueueInv' /\ DeviceInv'
  BY <1>1, <1>3, <1>4, <1>5 DEF WanInv, QueueInv, DeviceInv, Wans, Operation, Versions, RowsInv, WanTypeOK
<1> QED BY <1>6, <1>7 DEF WanInv
LEMMA WriteKeeps == ASSUME WanInv, WriteOmci \/ WriteTr069 PROVE WanInv'
<1>1. /\ UNCHANGED <<config, op, credential, listed, others, informed>>
      /\ call.pc = "write"
      /\ \E status \in Statuses \ {"PENDING", "NOT_CONFIGURED"}, safe \in BOOLEAN, task \in BOOLEAN :
           Outcome(status, safe, task) /\ (safe => status = "ERROR")
  BY DEF WriteOmci, WriteTr069, Reach, rows, Statuses
<1>2. /\ call'.pc = "finish" /\ call'.status \in Statuses \ {"PENDING", "NOT_CONFIGURED"}
      /\ call'.safe \in BOOLEAN /\ call'.task \in BOOLEAN
      /\ call'.safe => call'.status = "ERROR"
  BY <1>1 DEF Outcome
<1>3. \E effect \in {"none", "queued", "done"} :
         Reach(effect) /\ (effect = "queued" => op.method = "TR069" /\ informed)
  BY DEF WriteOmci, WriteTr069
<1>4. sent' \in Nat /\ erased' \in BOOLEAN
  BY <1>3 DEF Reach, WanInv, RowsInv, WanTypeOK
<1>5. RowsInv'
  BY <1>1, <1>2, <1>4
     DEF WanInv, RowsInv, WanTypeOK, CallType, Untouched, UnderWay, RecordsAgree, Steps
<1>6. Wan(op) \in Wans /\ Wan(op).version = op.version
  BY DEF Wan, Wans, WanInv, RowsInv, WanTypeOK, Operation
<1>7. DeviceInv'
  BY <1>1, <1>3, <1>6 DEF Reach, DeviceInv, WanInv, RowsInv, WanTypeOK, Operation, Versions
<1>8. QueueInv'
  BY <1>1, <1>2, <1>3 DEF Reach, QueueInv, WanInv, Wan
<1> QED BY <1>5, <1>7, <1>8 DEF WanInv

(* The rows after an outcome is recorded. *)
LEMMA FinishedRows ==
  ASSUME WanInv, NEW status \in Statuses \ {"PENDING", "NOT_CONFIGURED"},
         NEW safe \in BOOLEAN, NEW task \in BOOLEAN,
         op.version = config.desired, op.version > 0, Finished(status, safe, task)
  PROVE  /\ config' \in Config /\ config'.desired = config.desired
         /\ config'.method = config.method /\ config'.mode = config.mode
         /\ config'.status = status
         /\ config'.applied = IF status = "APPLIED" THEN op.version ELSE config.applied
         /\ op' \in Operation /\ op'.version = op.version /\ op'.method = op.method
         /\ op'.mode = op.mode /\ op'.secret = op.secret
         /\ op'.status = status /\ op'.safe = safe /\ op'.task = task
         /\ Wan(op') = Wan(op)
<1>1. config \in Config /\ op \in Operation
  BY DEF WanInv, RowsInv, WanTypeOK
<1>2. /\ config' \in Config /\ config'.desired = config.desired
      /\ config'.method = config.method /\ config'.mode = config.mode
      /\ config'.status = status
      /\ config'.applied = IF status = "APPLIED" THEN op.version ELSE config.applied
  BY <1>1 DEF Finished, Config, Operation
<1>3. op' \in Operation
  BY <1>1 DEF Finished, Operation
<1>4. /\ op'.version = op.version /\ op'.method = op.method
      /\ op'.mode = op.mode /\ op'.secret = op.secret
      /\ op'.status = status /\ op'.safe = safe /\ op'.task = task
  BY <1>1 DEF Finished, Operation
<1> QED BY <1>2, <1>3, <1>4 DEF Wan

(* Recording an outcome, at the end of a call or of a verification. *)
LEMMA FinishedKeeps ==
  ASSUME WanInv, NEW status \in Statuses \ {"PENDING", "NOT_CONFIGURED"},
         NEW safe \in BOOLEAN, NEW task \in BOOLEAN,
         op.version = config.desired, op.version > 0, Finished(status, safe, task),
         call'.pc \in {"idle", "check"},
         listed' \in {listed, NotListed}, sent' \in Nat,
         UNCHANGED <<credential, queue, others, device, erased, informed>>
  PROVE  WanInv'
<1>1. /\ config' \in Config /\ config'.desired = config.desired
      /\ config'.method = config.method /\ config'.mode = config.mode
      /\ config'.status = status
      /\ config'.applied = IF status = "APPLIED" THEN op.version ELSE config.applied
      /\ op' \in Operation /\ op'.version = op.version /\ op'.method = op.method
      /\ op'.status = status /\ Wan(op') = Wan(op)
  BY FinishedRows
<1>2. config'.applied <= op.version
  BY <1>1 DEF WanInv, RowsInv, WanTypeOK, Operation, Versions
<1>3. RowsInv'
  BY <1>1, <1>2 DEF WanInv, RowsInv, WanTypeOK, CallType, Untouched, UnderWay, RecordsAgree,
     Unconfirmed, Steps, Operation, Versions
<1>4. QueueInv' /\ DeviceInv'
  BY <1>1 DEF WanInv, QueueInv, DeviceInv
<1> QED BY <1>3, <1>4 DEF WanInv
LEMMA FinishKeeps == ASSUME WanInv, Finish PROVE WanInv'
<1>1. /\ call.status \in Statuses \ {"PENDING", "NOT_CONFIGURED"}
      /\ call.safe \in BOOLEAN /\ call.task \in BOOLEAN
      /\ op.version = config.desired /\ op.version > 0
  BY DEF Finish, WanInv, RowsInv, CallType, UnderWay
<1>2. call'.pc = "idle" /\ sent' \in Nat /\ UNCHANGED <<listed, credential, queue, others, device, erased, informed>>
  BY DEF Finish, Idle, plant, WanInv, RowsInv, WanTypeOK
<1> QED BY <1>1, <1>2, FinishedKeeps DEF Finish

LEMMA RetryKeeps == ASSUME WanInv, Retry PROVE WanInv'
<1>1. op.safe \in BOOLEAN /\ op.task \in BOOLEAN
  BY DEF WanInv, RowsInv, WanTypeOK, Operation
<1>2. /\ call'.pc = "check" /\ sent' \in Nat /\ op.version = config.desired /\ op.version > 0
      /\ UNCHANGED <<listed, credential, queue, others, device, erased, informed>>
  BY DEF Retry, plant
<1> QED BY <1>1, <1>2, FinishedKeeps DEF Retry, Statuses

(* What a verification makes of the status. *)
LEMMA Verified ==
  ASSUME WanInv, op.status \in Unconfirmed, NEW status \in Unobserved \cup {Observed}
  PROVE  status \in Statuses \ {"PENDING", "NOT_CONFIGURED"}
  BY DEF Unobserved, Observed, ObservedOmci, ObservedTr069, Matches, Unconfirmed, Statuses

LEMMA VerifyKeeps == ASSUME WanInv, Verify, listed' \in {listed, NotListed} PROVE WanInv'
<1>1. op.safe \in BOOLEAN /\ op.task \in BOOLEAN /\ sent' \in Nat
  BY DEF Verify, WanInv, RowsInv, WanTypeOK, Operation
<1>2. /\ call'.pc = "idle" /\ op.version = config.desired /\ op.version > 0
      /\ op.status \in Unconfirmed
      /\ UNCHANGED <<credential, queue, others, device, erased, informed>>
  BY DEF Verify, plant, Idle
<1>3. PICK status \in Unobserved \cup {Observed} : Finished(status, op.safe, op.task)
  BY DEF Verify
<1>4. status \in Statuses \ {"PENDING", "NOT_CONFIGURED"}
  BY <1>2, Verified
<1> QED BY <1>1, <1>2, <1>3, <1>4, FinishedKeeps

(* A call is let in, whoever made it. *)
LEMMA EnterKeeps ==
  ASSUME WanInv, NEW method \in Methods, NEW mode \in Modes, NEW actor \in BOOLEAN,
         Enter(method, mode, actor),
         listed' \in {listed, NotListed}, sent' \in Nat,
         UNCHANGED <<config, op, credential, queue, others, device, erased, informed>>
  PROVE  WanInv'
<1>1. /\ queue = {} /\ call'.pc = "apply" /\ call'.method = method /\ call'.mode = mode
      /\ call'.resume \in BOOLEAN
      /\ call'.resume => op.version = config.desired /\ op.version > 0 /\ op.status = "ERROR"
  BY Admission
<1>2. RowsInv'
  BY <1>1 DEF WanInv, RowsInv, WanTypeOK, CallType, Untouched, UnderWay, RecordsAgree, Steps
<1>3. QueueInv' /\ DeviceInv'
  BY <1>1 DEF WanInv, QueueInv, DeviceInv
<1> QED BY <1>2, <1>3 DEF WanInv

(* A call goes away, or one begins that has nothing to remember. *)
LEMMA IdleKeeps ==
  ASSUME WanInv, call'.pc = "idle" \/ (call'.pc = "push" /\ call'.mode \in Modes /\ call'.actor \in BOOLEAN),
         listed' \in {listed, NotListed},
         UNCHANGED <<config, op, credential, sent, queue, others, device, erased, informed>>
  PROVE  WanInv'
<1>1. RowsInv'
  BY DEF WanInv, RowsInv, WanTypeOK, CallType, Untouched, UnderWay, RecordsAgree, Steps
<1>2. QueueInv' /\ DeviceInv'
  BY DEF WanInv, QueueInv, DeviceInv
<1> QED BY <1>1, <1>2 DEF WanInv
-----------------------------------------------------------------------------
(* Operators, the cron, the plant *)

LEMMA ConfigureKeeps ==
  ASSUME WanInv, NEW method \in Methods, NEW mode \in Modes, Configure(method, mode)
  PROVE  WanInv'
  BY EnterKeeps DEF Configure, rows, plant

LEMMA CheckKeeps == ASSUME WanInv, Check PROVE WanInv'
<1>1. config.method \in Methods /\ config.mode \in Modes /\ sent \in Nat
  BY DEF Check, WanInv, RowsInv, WanTypeOK, CallType, Config
<1>2. UNCHANGED <<listed, sent, config, op, credential, queue, others, device, erased, informed>>
  BY DEF Check, rows, plant
<1>3. CASE Admitted(config.method, config.mode)
  BY <1>1, <1>2, <1>3, EnterKeeps DEF Check, Enter
<1>4. CASE ~Admitted(config.method, config.mode)
  BY <1>2, <1>4, IdleKeeps DEF Check, Idle
<1> QED BY <1>3, <1>4

LEMMA PushKeeps == ASSUME WanInv, Push PROVE WanInv'
<1>1. call.mode \in Modes /\ call.actor \in BOOLEAN /\ sent \in Nat /\ "TR069" \in Methods
  BY DEF Push, WanInv, RowsInv, WanTypeOK, CallType, Methods
<1>2. UNCHANGED <<listed, sent, config, op, credential, queue, others, device, erased, informed>>
  BY DEF Push, rows, plant
<1>3. CASE /\ ~(config.status \in Unconfirmed /\ config.desired > 0)
           /\ Admitted("TR069", call.mode)
  BY <1>1, <1>2, <1>3, EnterKeeps DEF Push, Enter
<1>4. CASE ~(/\ ~(config.status \in Unconfirmed /\ config.desired > 0)
             /\ Admitted("TR069", call.mode))
  BY <1>2, <1>4, IdleKeeps DEF Push, Idle
<1> QED BY <1>3, <1>4

LEMMA PushListedKeeps == ASSUME WanInv, PushListed PROVE WanInv'
<1>1. listed \in Config
  BY DEF PushListed, WanInv, RowsInv, WanTypeOK
<1> QED BY <1>1, IdleKeeps DEF PushListed, rows, plant, Config

LEMMA ResendKeeps == ASSUME WanInv, Resend, listed' = NotListed PROVE WanInv'
<1>1. config.method \in Methods /\ config.mode \in Modes /\ sent \in Nat /\ FALSE \in BOOLEAN
  BY DEF Resend, WanInv, RowsInv, WanTypeOK, Untouched, Config
<1> QED BY <1>1, EnterKeeps DEF Resend, rows, plant

LEMMA CrashKeeps == ASSUME WanInv, Crash PROVE WanInv'
  BY IdleKeeps DEF Crash, Idle, rows, plant

LEMMA ListKeeps == ASSUME WanInv, List PROVE WanInv'
<1>1. RowsInv'
  BY DEF List, rows, plant, WanInv, RowsInv, WanTypeOK, CallType, Untouched, UnderWay, RecordsAgree
<1>2. QueueInv' /\ DeviceInv'
  BY DEF List, rows, plant, WanInv, QueueInv, DeviceInv
<1> QED BY <1>1, <1>2 DEF WanInv

LEMMA CredentialsKeep == ASSUME WanInv, ChangeCredentials PROVE WanInv'
<1>1. config \in Config /\ op \in Operation /\ MaxVersion \in Nat
  BY ConstantsAssumption DEF WanInv, RowsInv, WanTypeOK
<1>2. /\ op' \in Operation /\ op'.version = op.version /\ op'.method = op.method
      /\ op'.safe = op.safe /\ Wan(op') = Wan(op)
      /\ op'.status \notin Unconfirmed
      /\ op'.status \in {op.status, "ERROR"}
  BY <1>1 DEF ChangeCredentials, Operation, Wan, Statuses, Unconfirmed
<1>3. CASE config.method = "NONE"
  <2>1. op.version = 0 /\ op.status = "ERROR"
    BY <1>3, <1>1 DEF WanInv, RowsInv, WanTypeOK, Untouched, Operation, Versions
  <2> QED BY <1>1, <1>2, <1>3, <2>1
          DEF ChangeCredentials, Idle, plant, WanInv, RowsInv, WanTypeOK, CallType, Untouched, UnderWay, RecordsAgree,
              QueueInv, DeviceInv
<1>4. CASE config.method # "NONE"
  <2>1. /\ config' \in Config /\ config'.desired = config.desired + 1 /\ config'.status = "PENDING"
        /\ config'.applied = config.applied /\ config'.method = config.method
    <3> DEFINE next == config.desired + 1
    <3>1. next \in Versions
      BY <1>1 DEF ChangeCredentials, Config, Versions
    <3>2. config' = [config EXCEPT !.desired = next, !.status = "PENDING"]
      BY <1>4 DEF ChangeCredentials
    <3> HIDE DEF next
    <3>3. /\ config' \in Config /\ config'.desired = next /\ config'.status = "PENDING"
          /\ config'.applied = config.applied /\ config'.method = config.method
      BY <1>1, <3>1, <3>2 DEF Config, Statuses
    <3> QED BY <3>3 DEF next
  <2>2. op.version <= config.desired + 1
    BY <1>1 DEF WanInv, RowsInv, WanTypeOK, Operation, Config, Versions
  <2>3. RowsInv'
    BY <1>1, <1>2, <1>4, <2>1, <2>2
       DEF ChangeCredentials, Idle, plant, WanInv, RowsInv, WanTypeOK, CallType, Untouched, UnderWay, RecordsAgree
  <2>4. QueueInv' /\ DeviceInv'
    BY <1>2 DEF ChangeCredentials, Idle, plant, WanInv, QueueInv, DeviceInv
  <2> QED BY <2>3, <2>4 DEF WanInv
<1> QED BY <1>3, <1>4
LEMMA ReplaceKeeps == ASSUME WanInv, Replace PROVE WanInv'
<1>1. PICK migrates \in BOOLEAN :
        /\ call' = [pc |-> "invalidate", migrates |-> migrates, old |-> config]
        /\ IF migrates
             THEN device' = NoWan /\ queue' = {} /\ others' = {} /\ erased' = FALSE /\ informed' = FALSE
             ELSE device' \in {device, NoWan} /\ UNCHANGED <<queue, others, erased, informed>>
  BY DEF Replace
<1>2. UNCHANGED <<config, op, credential, listed>> /\ sent' = 0 /\ config.desired < MaxVersion
  BY DEF Replace, rows
<1>3. RowsInv'
  BY <1>1, <1>2 DEF WanInv, RowsInv, WanTypeOK, CallType, Untouched, UnderWay, RecordsAgree, Steps
<1>4. QueueInv'
  BY <1>1, <1>2 DEF WanInv, QueueInv
<1>5. NoWan \in Wans /\ NoWan.version = 0 /\ 0 <= op.version
  BY ConstantsAssumption DEF NoWan, Wans, Versions, Modes, WanInv, RowsInv, WanTypeOK, Operation
<1>6. DeviceInv'
  BY <1>1, <1>2, <1>5 DEF WanInv, DeviceInv
<1> QED BY <1>3, <1>4, <1>6 DEF WanInv

LEMMA InvalidateKeeps == ASSUME WanInv, Invalidate PROVE WanInv'
<1>1. config \in Config /\ op \in Operation /\ MaxVersion \in Nat /\ config.desired < MaxVersion
  BY ConstantsAssumption DEF Invalidate, WanInv, RowsInv, WanTypeOK, CallType
<1>2. call'.pc = "idle" \/ (call'.pc = "push" /\ call'.mode \in Modes /\ call'.actor \in BOOLEAN)
  BY DEF Invalidate, Idle, WanInv, RowsInv, CallType, Config
<1>3. UNCHANGED <<credential, listed, sent, queue, others, device, erased, informed>>
  BY DEF Invalidate, plant
<1>4. CASE config.method = "NONE"
  BY <1>2, <1>3, <1>4, IdleKeeps DEF Invalidate
<1>5. CASE config.method # "NONE"
  <2> DEFINE next == config.desired + 1
  <2>1. next \in Versions /\ op.version <= next /\ next > 0
    BY <1>1 DEF WanInv, RowsInv, WanTypeOK, Operation, Config, Versions
  <2>2. config' = [config EXCEPT !.applied = 0, !.desired = next, !.status = "NOT_CONFIGURED"]
    BY <1>5 DEF Invalidate
  <2>3. op' = [op EXCEPT !.status = "ERROR"]
    BY <1>5 DEF Invalidate
  <2> HIDE DEF next
  <2>4. 0 \in Versions
    BY <1>1 DEF Versions
  <2>5. /\ config' \in Config /\ config'.applied = 0 /\ config'.desired = next
        /\ config'.status = "NOT_CONFIGURED" /\ config'.method = config.method
    BY <1>1, <2>1, <2>2, <2>4 DEF Config, Statuses
  <2>6. /\ op' \in Operation /\ op'.version = op.version /\ op'.method = op.method
        /\ op'.status = "ERROR" /\ op'.safe = op.safe /\ Wan(op') = Wan(op)
    BY <1>1, <2>3 DEF Operation, Statuses, Wan
  <2>7. RowsInv'
    BY <1>1, <1>2, <1>3, <1>5, <2>1, <2>5, <2>6
       DEF WanInv, RowsInv, WanTypeOK, CallType, Untouched, UnderWay, RecordsAgree, Unconfirmed, Steps,
           Operation, Versions
  <2>8. QueueInv' /\ DeviceInv'
    BY <1>2, <1>3, <2>6 DEF WanInv, QueueInv, DeviceInv
  <2> QED BY <2>7, <2>8 DEF WanInv
<1> QED BY <1>4, <1>5

LEMMA PlantKeeps == ASSUME WanInv, PlantNext \/ Drop PROVE WanInv'
<1>1. UNCHANGED <<config, op, credential, call, listed, sent>>
  BY DEF PlantNext, Inform, Deliver, DeliverOther, Disturb, FactoryReset, Drop, rows
<1>2. others' \subseteq Foreign /\ erased' \in BOOLEAN /\ informed' \in BOOLEAN
  BY DEF PlantNext, Inform, Deliver, DeliverOther, Disturb, FactoryReset, Drop, WanInv, RowsInv, WanTypeOK
<1>3. RowsInv'
  BY <1>1, <1>2 DEF WanInv, RowsInv, WanTypeOK, CallType, Untouched, UnderWay, RecordsAgree
<1>4. QueueInv'
  BY <1>1 DEF PlantNext, Inform, Deliver, DeliverOther, Disturb, FactoryReset, Drop, WanInv, QueueInv
<1>5. Wan(op) \in Wans /\ Wan(op).version = op.version /\ op.version \in Nat
  BY DEF Wan, Wans, WanInv, RowsInv, WanTypeOK, Operation, Versions
<1>6. device' \in {device, Wan(op)}
  BY DEF PlantNext, Inform, Deliver, DeliverOther, Disturb, FactoryReset, Drop, WanInv, QueueInv
<1>7. DeviceInv'
  BY <1>1, <1>5, <1>6 DEF WanInv, DeviceInv
<1> QED BY <1>3, <1>4, <1>7 DEF WanInv

LEMMA NextKeeps == ASSUME WanInv, [Next]_vars PROVE WanInv'
<1>1. CASE CallNext
  BY <1>1, ApplyKeeps, WriteKeeps, FinishKeeps, CheckKeeps, InvalidateKeeps, PushKeeps DEF CallNext
<1>2. CASE Crash
  BY <1>2, CrashKeeps
<1>3. CASE CronNext
  <2>1. CASE List
    BY <2>1, ListKeeps
  <2>2. CASE PushListed
    BY <2>2, PushListedKeeps
  <2>3. CASE Reconcile
    BY <2>3, ResendKeeps, VerifyKeeps DEF Reconcile
  <2>4. CASE Unlist
    <3>1. WanTypeOK'
      BY <2>4, UnlistStep DEF WanInv, RowsInv, WanTypeOK
    <3>2. (CallType /\ Untouched /\ UnderWay /\ RecordsAgree /\ QueueInv /\ DeviceInv)'
      BY <2>4, UnlistStep
         DEF WanInv, RowsInv, CallType, Untouched, UnderWay, RecordsAgree, QueueInv, DeviceInv
    <3> QED BY <3>1, <3>2 DEF WanInv, RowsInv
  <2> QED BY <1>3, <2>1, <2>2, <2>3, <2>4 DEF CronNext
<1>4. CASE OperatorNext
  BY <1>4, ConfigureKeeps, RetryKeeps, CredentialsKeep, ReplaceKeeps, VerifyKeeps DEF OperatorNext
<1>5. CASE PlantNext
  BY <1>5, PlantKeeps
<1>6. CASE UNCHANGED vars
  BY <1>6 DEF vars, WanInv, RowsInv, WanTypeOK, CallType, Untouched, UnderWay, RecordsAgree, QueueInv,
     DeviceInv
<1> QED BY <1>1, <1>2, <1>3, <1>4, <1>5, <1>6 DEF Next

LEMMA WanAlways == Spec => []WanInv
  BY InitInv, NextKeeps, PTL DEF Spec

(* The rows agree with each other at every step of a call, and wherever it is
   interrupted.                                                             *)
THEOREM WanTypes == Spec => []WanTypeOK
<1>1. WanInv => WanTypeOK
  BY DEF WanInv, RowsInv
<1> QED BY <1>1, WanAlways, PTL
-----------------------------------------------------------------------------
(* Order *)

(* What reaches the equipment is the latest operation. *)
LEMMA DeviceStep ==
  ASSUME WanInv, Next
  PROVE  device' \in {device, Wan(op), NoWan}
<1>1. CASE CallNext
  BY <1>1 DEF CallNext, Apply, NextVersion, WriteOmci, WriteTr069, Reach, Finish, Check, Invalidate, Push, plant
<1>2. CASE Crash
  BY <1>2 DEF Crash, plant
<1>3. CASE CronNext
  <2>1. CASE Unlist
    BY <2>1, UnlistStep
  <2>2. CASE List \/ PushListed \/ Reconcile
    BY <2>2 DEF List, PushListed, Reconcile, Resend, Verify, plant
  <2> QED BY <1>3, <2>1, <2>2 DEF CronNext
<1>4. CASE OperatorNext
  BY <1>4 DEF OperatorNext, Configure, Retry, ChangeCredentials, Replace, Verify, plant
<1>5. CASE PlantNext
  BY <1>5 DEF PlantNext, Inform, Deliver, DeliverOther, Disturb, FactoryReset, WanInv, QueueInv
<1> QED BY <1>1, <1>2, <1>3, <1>4, <1>5 DEF Next

(* No write lands on the equipment after a later one, though tasks wait in the
   ACS for as long as the equipment is away.                                *)
THEOREM WritesLandInOrder == Spec => NeverBackwards
<1>1. ASSUME WanInv, [Next]_vars
      PROVE  [device'.version >= device.version \/ device' = NoWan]_device
  <2>1. CASE Next
    <3>1. op \in Operation /\ device \in Wans /\ device.version <= op.version
      BY <1>1 DEF WanInv, DeviceInv, RowsInv, WanTypeOK
    <3>2. op.version \in Int /\ device.version \in Int /\ Wan(op).version = op.version
      BY <3>1 DEF Wan, Wans, Operation, Versions
    <3>3. device' \in {device, Wan(op), NoWan}
      BY <1>1, <2>1, DeviceStep
    <3> QED BY <3>1, <3>2, <3>3
  <2>2. CASE UNCHANGED vars
    BY <2>2 DEF vars
  <2> QED BY <1>1, <2>1, <2>2
<1> QED BY <1>1, WanAlways, PTL DEF Spec, NeverBackwards

-----------------------------------------------------------------------------
(* Truth *)

(* The equipment has the latest operation, or will when the ACS delivers it. *)
Reached == queue # {} \/ device = Wan(op)

(* What the rows, and the call that is about to write them, know of the
   equipment, unless it has just been replaced.                             *)
EvidenceInv ==
  /\ op.task /\ op.status \in Unconfirmed => Reached
  /\ op.method = "OMCI" /\ op.status \in {"VERIFYING", "QUEUED"} => device = Wan(op)
  /\ config.status = "APPLIED" => queue = {} /\ device = Wan(op)

OutcomeInv ==
  call.pc = "finish" =>
    /\ call.task => Reached
    /\ op.method = "OMCI" /\ call.status \in {"VERIFYING", "QUEUED"} => device = Wan(op)
    /\ call.status = "APPLIED" => queue = {} /\ device = Wan(op)

TruthInv == WanInv /\ (call.pc # "invalidate" => EvidenceInv) /\ OutcomeInv

(* Rows that are not confirmed say nothing of the equipment. *)
LEMMA NoEvidence ==
  ASSUME op.status \notin Unconfirmed, config.status # "APPLIED"
  PROVE  EvidenceInv
  BY DEF EvidenceInv, Unconfirmed

LEMMA TruthInit == Init => TruthInv
<1> SUFFICES ASSUME Init PROVE TruthInv
  OBVIOUS
<1>1. op.status \notin Unconfirmed /\ config.status # "APPLIED" /\ call.pc = "idle"
  BY DEF Init, NoOperation, Unconfirmed, Idle
<1> QED BY <1>1, NoEvidence, InitInv DEF TruthInv, OutcomeInv

(* Recording what was written or observed. *)
LEMMA FinishedTruth ==
  ASSUME WanInv, NEW status \in Statuses \ {"PENDING", "NOT_CONFIGURED"},
         NEW safe \in BOOLEAN, NEW task \in BOOLEAN,
         op.version = config.desired, op.version > 0, Finished(status, safe, task),
         UNCHANGED <<queue, device>>, call'.pc \in {"idle", "check"},
         task /\ status \in Unconfirmed => Reached,
         op.method = "OMCI" /\ status \in {"VERIFYING", "QUEUED"} => device = Wan(op),
         status = "APPLIED" => queue = {} /\ device = Wan(op)
  PROVE  EvidenceInv' /\ OutcomeInv'
<1>1. /\ config'.status = status /\ op'.method = op.method /\ op'.status = status
      /\ op'.task = task /\ Wan(op') = Wan(op)
  BY FinishedRows
<1> QED BY <1>1 DEF EvidenceInv, OutcomeInv, Reached

(* Neither the readback of the OLT nor that of the ACS is believed on its own. *)
LEMMA VerifiedTruth ==
  ASSUME WanInv, EvidenceInv, op.status \in Unconfirmed,
         NEW status \in Unobserved \cup {Observed}
  PROVE  /\ op.method = "OMCI" /\ status \in {"VERIFYING", "QUEUED"} => device = Wan(op)
         /\ status = "APPLIED" => queue = {} /\ device = Wan(op)
<1>1. op.method \in Methods
  BY DEF WanInv, RowsInv, WanTypeOK, Operation
<1>2. CASE op.method = "OMCI"
  <2>1. queue = {}
    BY <1>2 DEF WanInv, QueueInv
  <2>2. status \in {"VERIFYING", "QUEUED", "APPLIED"} => op.status \in {"VERIFYING", "QUEUED"}
    BY <1>2 DEF Unobserved, Observed, ObservedOmci, Unconfirmed
  <2> QED BY <1>2, <2>1, <2>2 DEF EvidenceInv
<1>3. CASE op.method # "OMCI"
  <2>1. status = "APPLIED" => op.task /\ ~Blocked
    BY <1>3 DEF Unobserved, Observed, ObservedTr069, Unconfirmed
  <2>2. ~Blocked => queue = {}
    BY DEF Blocked
  <2> QED BY <1>3, <2>1, <2>2 DEF EvidenceInv, Reached
<1> QED BY <1>2, <1>3

LEMMA VerifyTruth ==
  ASSUME TruthInv, Verify
  PROVE  EvidenceInv' /\ OutcomeInv'
<1>1. op.safe \in BOOLEAN /\ op.task \in BOOLEAN /\ WanInv /\ EvidenceInv
  BY DEF Verify, TruthInv, WanInv, RowsInv, WanTypeOK, Operation, Idle
<1>2. /\ call'.pc = "idle" /\ op.version = config.desired /\ op.version > 0
      /\ op.status \in Unconfirmed /\ UNCHANGED <<queue, device>>
  BY DEF Verify, plant, Idle
<1>3. PICK status \in Unobserved \cup {Observed} : Finished(status, op.safe, op.task)
  BY DEF Verify
<1>4. status \in Statuses \ {"PENDING", "NOT_CONFIGURED"}
  BY <1>1, <1>2, Verified
<1>5. /\ op.method = "OMCI" /\ status \in {"VERIFYING", "QUEUED"} => device = Wan(op)
      /\ status = "APPLIED" => queue = {} /\ device = Wan(op)
  BY <1>1, <1>2, VerifiedTruth
<1>6. op.task => Reached
  BY <1>1, <1>2 DEF EvidenceInv
<1> QED BY <1>1, <1>2, <1>3, <1>4, <1>5, <1>6, FinishedTruth
LEMMA ApplyTruth == ASSUME TruthInv, Apply PROVE EvidenceInv' /\ OutcomeInv'
<1>1. config \in Config /\ op \in Operation /\ call.resume \in BOOLEAN
  BY DEF Apply, NextVersion, TruthInv, WanInv, RowsInv, WanTypeOK, CallType
<1>2. config'.status = "APPLYING"
  BY <1>1 DEF Apply, NextVersion, Config
<1>3. op'.status = "APPLYING" /\ ~op'.task
  <2>1. CASE call.resume
    BY <1>1, <2>1 DEF Apply, NextVersion, Operation
  <2>2. CASE ~call.resume
    BY <2>2 DEF Apply, NextVersion
  <2> QED BY <1>1, <2>1, <2>2
<1>4. call'.pc = "write"
  BY DEF Apply, NextVersion
<1> QED BY <1>2, <1>3, <1>4 DEF EvidenceInv, OutcomeInv

LEMMA WriteTruth == ASSUME TruthInv, WriteOmci \/ WriteTr069 PROVE EvidenceInv' /\ OutcomeInv'
<1>1. call.pc = "write" /\ UNCHANGED <<config, op>>
  BY DEF WriteOmci, WriteTr069, rows
<1>2. op.status = "APPLYING" /\ config.status = "APPLYING" /\ ~op.task /\ queue = {}
  BY <1>1 DEF TruthInv, WanInv, RowsInv, WanTypeOK, UnderWay, QueueInv, Unconfirmed
<1>3. EvidenceInv'
  BY <1>1, <1>2 DEF EvidenceInv
<1>4. OutcomeInv'
  <2>1. CASE WriteOmci
    BY <1>1, <1>2, <2>1 DEF WriteOmci, Reach, Outcome, OutcomeInv, Reached
  <2>2. CASE WriteTr069
    BY <1>1, <1>2, <2>2 DEF WriteTr069, Reach, Outcome, OutcomeInv, Reached
  <2> QED BY <2>1, <2>2
<1> QED BY <1>3, <1>4

LEMMA FinishTruth == ASSUME TruthInv, Finish PROVE EvidenceInv' /\ OutcomeInv'
<1>1. /\ call.status \in Statuses \ {"PENDING", "NOT_CONFIGURED"}
      /\ call.safe \in BOOLEAN /\ call.task \in BOOLEAN
      /\ op.version = config.desired /\ op.version > 0
  BY DEF Finish, TruthInv, WanInv, RowsInv, CallType, UnderWay
<1>2. call'.pc = "idle" /\ UNCHANGED <<queue, device>>
  BY DEF Finish, Idle, plant
<1>3. /\ call.task => Reached
      /\ op.method = "OMCI" /\ call.status \in {"VERIFYING", "QUEUED"} => device = Wan(op)
      /\ call.status = "APPLIED" => queue = {} /\ device = Wan(op)
  BY DEF Finish, TruthInv, OutcomeInv
<1> QED BY <1>1, <1>2, <1>3, FinishedTruth DEF Finish, TruthInv

LEMMA RetryTruth == ASSUME TruthInv, Retry PROVE EvidenceInv' /\ OutcomeInv'
<1>1. op.safe \in BOOLEAN /\ op.task \in BOOLEAN /\ WanInv
  BY DEF TruthInv, WanInv, RowsInv, WanTypeOK, Operation
<1>2. /\ call'.pc = "check" /\ op.version = config.desired /\ op.version > 0
      /\ UNCHANGED <<queue, device>> /\ Finished("ERROR", op.safe, op.task)
  BY DEF Retry, plant
<1>3. "ERROR" \in Statuses \ {"PENDING", "NOT_CONFIGURED"} /\ "ERROR" \notin Unconfirmed
  BY DEF Statuses, Unconfirmed
<1> QED BY <1>1, <1>2, <1>3, FinishedTruth

LEMMA CredentialsTruth == ASSUME TruthInv, ChangeCredentials PROVE EvidenceInv' /\ OutcomeInv'
<1>1. config \in Config /\ op \in Operation
  BY DEF TruthInv, WanInv, RowsInv, WanTypeOK
<1>2. op'.status \notin Unconfirmed /\ op'.status \notin {"VERIFYING", "QUEUED"}
  BY <1>1 DEF ChangeCredentials, Operation, Unconfirmed
<1>3. config'.status # "APPLIED"
  BY <1>1 DEF ChangeCredentials, Config, TruthInv, WanInv, RowsInv, Untouched
<1>4. call'.pc = "idle"
  BY DEF ChangeCredentials, Idle
<1> QED BY <1>2, <1>3, <1>4 DEF EvidenceInv, OutcomeInv

LEMMA InvalidateTruth == ASSUME TruthInv, Invalidate PROVE EvidenceInv' /\ OutcomeInv'
<1>1. config \in Config /\ op \in Operation
  BY DEF TruthInv, WanInv, RowsInv, WanTypeOK
<1>2. call'.pc \in {"idle", "push"}
  BY DEF Invalidate, Idle
<1>3. op'.status = "ERROR" /\ config'.status = "NOT_CONFIGURED"
  <2>1. CASE config.method = "NONE"
    BY <1>1, <2>1 DEF Invalidate, TruthInv, WanInv, RowsInv, WanTypeOK, Untouched, Operation, Versions
  <2>2. CASE config.method # "NONE"
    BY <1>1, <2>2 DEF Invalidate, Config, Operation
  <2> QED BY <2>1, <2>2
<1> QED BY <1>2, <1>3 DEF EvidenceInv, OutcomeInv, Unconfirmed

LEMMA PlantTruth ==
  ASSUME TruthInv, PlantNext
  PROVE  (call.pc # "invalidate" => EvidenceInv') /\ OutcomeInv'
<1>1. UNCHANGED <<config, op, call>>
  BY DEF PlantNext, Inform, Deliver, DeliverOther, Disturb, FactoryReset, rows
<1>2. CASE Deliver
  <2>1. queue # {} /\ device' = Wan(op) /\ op.method # "OMCI"
    BY <1>2 DEF Deliver, TruthInv, WanInv, QueueInv
  <2> QED BY <1>1, <2>1 DEF TruthInv, EvidenceInv, OutcomeInv, Reached
<1>3. CASE Inform \/ DeliverOther \/ Disturb \/ FactoryReset
  <2>1. UNCHANGED <<queue, device>>
    BY <1>3 DEF Inform, DeliverOther, Disturb, FactoryReset
  <2> QED BY <1>1, <2>1 DEF TruthInv, EvidenceInv, OutcomeInv, Reached
<1> QED BY <1>2, <1>3 DEF PlantNext

(* Every other step of a call, of the cron or of an operator. *)
LEMMA OtherTruth ==
  ASSUME TruthInv, "invalidate" \notin CrashPoints,
         \/ Check \/ Push \/ Crash \/ List \/ PushListed \/ (Resend /\ call = Idle) \/ Unlist
         \/ \E method \in Methods, mode \in Modes : Configure(method, mode)
  PROVE  (call'.pc # "invalidate" => EvidenceInv') /\ OutcomeInv'
<1>1. UNCHANGED <<config, op, queue, device>>
  BY UnlistStep DEF Check, Push, Crash, List, PushListed, Resend, Configure, rows, plant
<1>2. call' = call \/ (call.pc # "invalidate" /\ call'.pc # "finish")
  <2>1. CASE Crash \/ List \/ Unlist \/ PushListed
    BY <2>1, UnlistStep DEF Crash, List, PushListed, Idle
  <2>2. CASE Check \/ Push
    <3>1. call.pc # "invalidate"
      BY <2>2 DEF Check, Push
    <3>2. call'.pc \in {"idle", "apply"}
      BY <2>2 DEF Check, Push, Request, Resumes, SameRequest, Idle
    <3> QED BY <3>1, <3>2
  <2>3. CASE (Resend /\ call = Idle) \/ \E method \in Methods, mode \in Modes : Configure(method, mode)
    <3>1. call.pc # "invalidate"
      <4>1. call = Idle
        BY <2>3, Zenon DEF Configure
      <4> QED BY <4>1 DEF Idle
    <3>2. call'.pc = "apply"
      BY <2>3 DEF Resend, Configure, Enter, Request, Resumes, SameRequest
    <3> QED BY <3>1, <3>2
  <2> QED BY <2>1, <2>2, <2>3
<1> QED BY <1>1, <1>2 DEF TruthInv, EvidenceInv, OutcomeInv, Reached

LEMMA TruthNext ==
  ASSUME TruthInv, [Next]_vars, "invalidate" \notin CrashPoints
  PROVE  TruthInv'
<1>1. WanInv'
  BY NextKeeps DEF TruthInv
<1>2. (call'.pc # "invalidate" => EvidenceInv') /\ OutcomeInv'
  <2>1. CASE CallNext
    BY <2>1, ApplyTruth, WriteTruth, FinishTruth, InvalidateTruth, OtherTruth DEF CallNext
  <2>2. CASE Crash
    BY <2>2, OtherTruth
  <2>3. CASE CronNext
    BY <2>3, OtherTruth, VerifyTruth DEF CronNext, Reconcile
  <2>4. CASE OperatorNext
    <3>1. CASE Replace
      <4>1. call'.pc = "invalidate"
        BY <3>1 DEF Replace
      <4> QED BY <4>1 DEF OutcomeInv
    <3> QED BY <2>4, <3>1, OtherTruth, RetryTruth, CredentialsTruth, VerifyTruth DEF OperatorNext
  <2>5. CASE PlantNext
    <3>1. call' = call
      BY <2>5 DEF PlantNext, Inform, Deliver, DeliverOther, Disturb, FactoryReset
    <3> QED BY <2>5, <3>1, PlantTruth
  <2>6. CASE UNCHANGED vars
    BY <2>6 DEF vars, TruthInv, EvidenceInv, OutcomeInv, Reached
  <2> QED BY <2>1, <2>2, <2>3, <2>4, <2>5, <2>6 DEF Next
<1> QED BY <1>1, <1>2 DEF TruthInv

(* A configuration that says APPLIED is what the equipment has, unless the
   process dies between the replacement of the equipment and the invalidation
   of what was applied to it.                                               *)
THEOREM AppliedIsWhatItHas ==
  ASSUME "invalidate" \notin CrashPoints
  PROVE  Spec => []AppliedIsTrue
<1>1. TruthInv /\ [Next]_vars => TruthInv'
  BY TruthNext
<1>2. TruthInv => AppliedIsTrue
  BY DEF TruthInv, EvidenceInv, AppliedIsTrue, WanInv, RowsInv, RecordsAgree
<1> QED BY <1>1, <1>2, TruthInit, PTL DEF Spec
-----------------------------------------------------------------------------
(* Once *)

FreshNext == Next /\ (listed' = listed /\ listed # NotListed => config' = config)

FreshInv == listed # NotListed => listed = config

(* Nothing has been sent where something may still be: before the write of a
   call, and in rows that the cron may send again.                          *)
SentInv ==
  /\ sent <= 1
  /\ call.pc \in {"check", "apply", "write", "invalidate", "push"} => sent = 0
  /\ call.pc = "finish" /\ call.safe => sent = 0
  /\ config.status = "PENDING" => sent = 0
  /\ op.safe => sent = 0
  /\ config.desired = 0 => sent = 0

OnceInv == WanInv /\ FreshInv /\ SentInv

LEMMA OnceInit == Init => OnceInv
  BY InitInv DEF OnceInv, Init, FreshInv, SentInv, NoOperation, Idle, NotListed

(* The cron lists the row as it is, uses the list once, and nobody else does. *)
LEMMA FreshStays == ASSUME FreshInv, [FreshNext]_vars PROVE FreshInv'
<1>1. CASE List
  BY <1>1 DEF List, rows, FreshInv
<1>2. ASSUME Next, ~List PROVE listed' \in {listed, NotListed}
  <2>1. CASE CallNext
    BY <2>1 DEF CallNext, Apply, NextVersion, WriteOmci, WriteTr069, Finish, Check, Invalidate, Push
  <2>2. CASE CronNext
    BY <1>2, <2>2 DEF CronNext, PushListed, Reconcile, Unlist
  <2>3. CASE OperatorNext
    BY <2>3 DEF OperatorNext, Configure, Retry, ChangeCredentials, Replace
  <2>4. CASE PlantNext \/ Crash
    BY <2>4 DEF PlantNext, Inform, Deliver, DeliverOther, Disturb, FactoryReset, Crash
  <2> QED BY <1>2, <2>1, <2>2, <2>3, <2>4 DEF Next
<1> QED BY <1>1, <1>2 DEF FreshNext, FreshInv, vars

(* A decision makes the count begin anew. *)
LEMMA DecisionSent == ASSUME sent' = 0 PROVE SentInv'
  BY DEF SentInv

LEMMA WriteSent == ASSUME OnceInv, WriteOmci \/ WriteTr069 PROVE SentInv'
<1>1. /\ call.pc = "write" /\ UNCHANGED <<config, op>> /\ call'.pc = "finish"
      /\ sent' \in {sent, sent + 1}
  BY DEF WriteOmci, WriteTr069, Reach, Outcome, rows
<1>2. sent = 0 /\ ~op.safe /\ config.status = "APPLYING" /\ config.desired > 0
  BY <1>1 DEF OnceInv, SentInv, WanInv, RowsInv, WanTypeOK, UnderWay, Unconfirmed
<1>3. call'.safe => sent' = sent
  BY DEF WriteOmci, WriteTr069, Reach, Outcome
<1> QED BY <1>1, <1>2, <1>3 DEF SentInv

LEMMA ApplySent == ASSUME OnceInv, Apply PROVE SentInv'
  BY DEF OnceInv, SentInv, Apply, NextVersion

LEMMA FinishedSent ==
  ASSUME OnceInv, NEW status \in Statuses \ {"PENDING", "NOT_CONFIGURED"},
         NEW safe \in BOOLEAN, NEW task \in BOOLEAN,
         op.version = config.desired, op.version > 0, Finished(status, safe, task),
         call'.pc = "idle", sent' = sent, safe => sent = 0
  PROVE  SentInv'
<1>1. config'.status = status /\ config'.desired = config.desired /\ op'.safe = safe
  BY FinishedRows DEF OnceInv
<1> QED BY <1>1 DEF OnceInv, SentInv

LEMMA FinishSent == ASSUME OnceInv, Finish PROVE SentInv'
<1>1. /\ call.status \in Statuses \ {"PENDING", "NOT_CONFIGURED"}
      /\ call.safe \in BOOLEAN /\ call.task \in BOOLEAN
      /\ op.version = config.desired /\ op.version > 0
  BY DEF Finish, OnceInv, WanInv, RowsInv, CallType, UnderWay
<1>2. call'.pc = "idle" /\ sent' = sent /\ (call.safe => sent = 0)
  BY DEF Finish, Idle, OnceInv, SentInv
<1> QED BY <1>1, <1>2, FinishedSent DEF Finish

LEMMA VerifySent == ASSUME OnceInv, Verify PROVE SentInv'
<1>1. op.safe \in BOOLEAN /\ op.task \in BOOLEAN /\ WanInv
  BY DEF OnceInv, WanInv, RowsInv, WanTypeOK, Operation
<1>2. /\ call'.pc = "idle" /\ op.version = config.desired /\ op.version > 0
      /\ op.status \in Unconfirmed /\ sent' = sent /\ (op.safe => sent = 0)
  BY DEF Verify, Idle, OnceInv, SentInv
<1>3. PICK status \in Unobserved \cup {Observed} : Finished(status, op.safe, op.task)
  BY DEF Verify
<1>4. status \in Statuses \ {"PENDING", "NOT_CONFIGURED"}
  BY <1>1, <1>2, Verified
<1> QED BY <1>1, <1>2, <1>3, <1>4, FinishedSent

(* The rows stay and nothing is sent: what matters is where the call stands. *)
LEMMA QuietSent ==
  ASSUME OnceInv, UNCHANGED <<config, op, sent>>,
         call' = call \/ call'.pc = "idle" \/ sent = 0
  PROVE  SentInv'
  BY DEF OnceInv, SentInv

LEMMA PushListedSent == ASSUME OnceInv, PushListed PROVE SentInv'
<1>1. config.desired = 0
  BY DEF PushListed, Managed, OnceInv, FreshInv, WanInv, RowsInv, WanTypeOK, Untouched, Config, Versions
<1> QED BY <1>1, QuietSent DEF PushListed, OnceInv, SentInv, rows

LEMMA ResendSent == ASSUME OnceInv, Resend PROVE SentInv'
<1>1. sent = 0
  BY DEF Resend, OnceInv, SentInv
<1> QED BY <1>1, QuietSent DEF Resend, rows

LEMMA SentNext == ASSUME OnceInv, [FreshNext]_vars PROVE SentInv'
<1>1. CASE CallNext
  <2>1. CASE Check \/ Push
    BY <2>1, QuietSent DEF Check, Push, OnceInv, SentInv, rows
  <2>2. CASE Invalidate
    BY <2>2, DecisionSent DEF Invalidate, OnceInv, SentInv
  <2> QED BY <1>1, <2>1, <2>2, ApplySent, WriteSent, FinishSent DEF CallNext
<1>2. CASE Crash
  BY <1>2, QuietSent DEF Crash, rows, Idle
<1>3. CASE CronNext
  <2>1. CASE List
    BY <2>1, QuietSent DEF List, rows
  <2>2. CASE Unlist
    BY <2>2, QuietSent, UnlistStep
  <2> QED BY <1>3, <2>1, <2>2, PushListedSent, ResendSent, VerifySent DEF CronNext, Reconcile
<1>4. CASE OperatorNext
  <2>1. CASE Retry \/ ChangeCredentials \/ Replace \/ \E method \in Methods, mode \in Modes : Configure(method, mode)
    <3>1. sent' = 0
      BY <2>1 DEF Retry, ChangeCredentials, Replace, Configure
    <3> QED BY <3>1, DecisionSent
  <2> QED BY <1>4, <2>1, VerifySent DEF OperatorNext
<1>5. CASE PlantNext
  <2>1. UNCHANGED <<config, op, sent, call>>
    BY <1>5 DEF PlantNext, Inform, Deliver, DeliverOther, Disturb, FactoryReset, rows
  <2> QED BY <2>1, QuietSent
<1>6. CASE UNCHANGED vars
  BY <1>6, QuietSent DEF vars
<1> QED BY <1>1, <1>2, <1>3, <1>4, <1>5, <1>6 DEF FreshNext, Next

(* What somebody decided is written to the equipment once at most, by whoever
   does it and however often it is interrupted: no restart, verification or
   round of the cron repeats a write that may have got there.               *)
THEOREM NothingIsSentTwice == FreshSpec => []SentOnce
<1>1. OnceInv /\ [FreshNext]_vars => OnceInv'
  BY NextKeeps, FreshStays, SentNext DEF OnceInv, FreshNext
<1>2. OnceInv => SentOnce
  BY DEF OnceInv, SentInv, SentOnce
<1> QED BY <1>1, <1>2, OnceInit, PTL DEF FreshSpec, FreshNext

-----------------------------------------------------------------------------
(* Delivery *)

Known == config.status = "APPLIED" /\ call.pc # "invalidate"

Promised == [Promise!DeliveryStep]_(Promise!deliveryVars)

DeliveryInv == TruthInv /\ OnceInv

(* Steps that the equipment, the ACS and whoever decides do not see. *)
LEMMA Silent ==
  ASSUME UNCHANGED <<Wan(op), queue, device, sent>>, Known' <=> Known
  PROVE  Promised
<1>1. UNCHANGED Promise!deliveryVars
  BY DEF Promise!deliveryVars, Known
<1> QED BY <1>1 DEF Promised

LEMMA IsAsk ==
  ASSUME UNCHANGED <<Wan(op), queue, device>>, sent' = 0, Known' => Known
  PROVE  Promised
<1>1. Promise!Ask
  BY DEF Promise!Ask, Known
<1> QED BY <1>1 DEF Promised, Promise!DeliveryStep

(* The rows are only told that the equipment has what is true of it. *)
LEMMA IsAcknowledge ==
  ASSUME UNCHANGED <<Wan(op), queue, device, sent>>, TruthInv', Known => Known'
  PROVE  Promised
<1>1. CASE Known' /\ ~Known
  <2>1. queue' = {} /\ device' = Wan(op)'
    BY <1>1 DEF TruthInv, EvidenceInv, Known
  <2>2. Promise!Acknowledge
    BY <1>1, <2>1 DEF Promise!Acknowledge, Known
  <2> QED BY <2>2 DEF Promised, Promise!DeliveryStep
<1> QED BY <1>1, Silent

LEMMA ApplyDecides ==
  ASSUME DeliveryInv, DeliveryInv', Apply
  PROVE  Promised
<1>1. /\ call.pc = "apply" /\ call'.pc = "write" /\ queue = {} /\ sent = 0
      /\ UNCHANGED <<queue, device, sent>>
      /\ call.resume \in BOOLEAN
  BY DEF Apply, plant, DeliveryInv, TruthInv, WanInv, RowsInv, CallType, QueueInv, OnceInv, SentInv
<1>2. op \in Operation /\ op' \in Operation
  BY DEF DeliveryInv, OnceInv, WanInv, RowsInv, WanTypeOK
<1>3. ~Known'
  <2>1. config'.status = "APPLYING"
    BY DEF Apply, DeliveryInv, OnceInv, WanInv, RowsInv, WanTypeOK, Config
  <2> QED BY <2>1 DEF Known
<1>4. CASE call.resume
  <2>1. op.status = "ERROR"
    BY <1>1, <1>4 DEF DeliveryInv, OnceInv, WanInv, RowsInv, UnderWay
  <2>2. ~Known
    BY <2>1 DEF Known, DeliveryInv, OnceInv, WanInv, RowsInv, RecordsAgree
  <2>3. op' = [op EXCEPT !.status = "APPLYING", !.attempts = @ + 1, !.safe = FALSE, !.task = FALSE]
    BY <1>4 DEF Apply
  <2>4. Wan(op)' = Wan(op)
    BY <1>2, <2>3 DEF Wan, Operation
  <2> QED BY <1>1, <1>3, <2>2, <2>4, Silent
<1>5. CASE ~call.resume
  <2>1. op'.version = config.desired + 1
    BY <1>5 DEF Apply, NextVersion
  <2>2. op.version <= config.desired /\ config.desired \in Nat /\ op.version \in Nat
    BY DEF DeliveryInv, OnceInv, WanInv, RowsInv, WanTypeOK, Config, Operation, Versions
  <2>3. /\ Wan(op)' \in [version : Versions, mode : Modes, secret : Nat]
        /\ Wan(op)'.version > Wan(op).version
    BY <1>2, <2>1, <2>2 DEF Wan, Operation
  <2>4. Promise!Decide
    BY <1>1, <1>3, <2>3 DEF Promise!Decide, Known
  <2> QED BY <2>4 DEF Promised, Promise!DeliveryStep
<1> QED BY <1>1, <1>4, <1>5

LEMMA WriteSends ==
  ASSUME DeliveryInv, WriteOmci \/ WriteTr069
  PROVE  Promised
<1>1. call.pc = "write" /\ call'.pc = "finish" /\ UNCHANGED <<config, op>>
  BY DEF WriteOmci, WriteTr069, Outcome, rows
<1>2. PICK effect \in {"none", "queued", "done"} : Reach(effect)
  BY DEF WriteOmci, WriteTr069
<1>3. queue = {} /\ sent = 0 /\ config.status = "APPLYING"
  BY <1>1 DEF DeliveryInv, OnceInv, SentInv, WanInv, RowsInv, WanTypeOK, UnderWay, QueueInv, Unconfirmed
<1>4. ~Known /\ ~Known' /\ Wan(op)' = Wan(op)
  BY <1>1, <1>3 DEF Known, Wan
<1>5. CASE effect = "none"
  BY <1>2, <1>4, <1>5, Silent DEF Reach
<1>6. CASE effect \in {"queued", "done"}
  <2>1. /\ sent' = 1
        /\ \/ queue' = {Wan(op)} /\ device' = device
           \/ device' = Wan(op) /\ queue' = queue
    BY <1>2, <1>3, <1>6 DEF Reach
  <2>2. Promise!Send
    BY <1>3, <1>4, <2>1 DEF Promise!Send, Known
  <2> QED BY <2>2 DEF Promised, Promise!DeliveryStep
<1> QED BY <1>5, <1>6

LEMMA FinishedAcknowledges ==
  ASSUME DeliveryInv, DeliveryInv', NEW status, NEW safe, NEW task, Finished(status, safe, task),
         UNCHANGED <<queue, device, sent>>, config.status # "APPLIED"
  PROVE  Promised
<1>1. op \in Operation
  BY DEF DeliveryInv, OnceInv, WanInv, RowsInv, WanTypeOK
<1>2. Wan(op)' = Wan(op)
  BY <1>1 DEF Finished, Wan, Operation
<1>3. ~Known
  BY DEF Known
<1> QED BY <1>2, <1>3, IsAcknowledge DEF DeliveryInv

LEMMA FinishAcknowledges ==
  ASSUME DeliveryInv, DeliveryInv', Finish \/ Verify
  PROVE  Promised
<1>1. op.status \in Unconfirmed
  BY DEF Finish, Verify, DeliveryInv, OnceInv, WanInv, RowsInv, UnderWay, Unconfirmed
<1>2. config.status # "APPLIED"
  BY <1>1 DEF DeliveryInv, OnceInv, WanInv, RowsInv, RecordsAgree, Unconfirmed
<1>3. UNCHANGED <<queue, device, sent>>
  BY DEF Finish, Verify, plant
<1>4. \E status, safe, task : Finished(status, safe, task)
  BY DEF Finish, Verify
<1> QED BY <1>2, <1>3, <1>4, FinishedAcknowledges

(* A call that begins, goes on without writing, or ends. *)
LEMMA CallsAreSilent ==
  ASSUME UNCHANGED <<config, op, queue, device, sent>>,
         call.pc # "invalidate", call'.pc # "invalidate"
  PROVE  Promised
<1>1. Wan(op)' = Wan(op) /\ (Known' <=> Known)
  BY DEF Wan, Known
<1> QED BY <1>1, Silent

LEMMA InvalidateIsSilent ==
  ASSUME DeliveryInv, Invalidate
  PROVE  Promised
<1>1. /\ call.pc = "invalidate" /\ UNCHANGED <<queue, device, sent>>
      /\ op \in Operation /\ config \in Config
  BY DEF Invalidate, plant, DeliveryInv, OnceInv, WanInv, RowsInv, WanTypeOK
<1>2. config'.status = "NOT_CONFIGURED"
  BY <1>1 DEF Invalidate, Config, DeliveryInv, OnceInv, WanInv, RowsInv, Untouched
<1>3. Wan(op)' = Wan(op)
  BY <1>1 DEF Invalidate, Wan, Operation
<1>4. ~Known /\ ~Known'
  BY <1>1, <1>2 DEF Known
<1> QED BY <1>1, <1>3, <1>4, Silent

LEMMA OperatorsAsk ==
  ASSUME DeliveryInv,
         \/ \E method \in Methods, mode \in Modes : Configure(method, mode)
         \/ Retry \/ ChangeCredentials \/ Replace
  PROVE  Promised
<1>1. /\ sent' = 0 /\ call = Idle /\ op \in Operation /\ config \in Config
  BY DEF Configure, Retry, ChangeCredentials, Replace, DeliveryInv, OnceInv, WanInv, RowsInv, WanTypeOK
<1>2. call.pc # "invalidate"
  BY <1>1 DEF Idle
<1>3. CASE \E method \in Methods, mode \in Modes : Configure(method, mode)
  <2>1. UNCHANGED <<config, op, queue, device>>
    BY <1>3 DEF Configure, rows, plant
  <2>2. Wan(op)' = Wan(op) /\ (Known' => Known)
    BY <1>2, <2>1 DEF Wan, Known
  <2> QED BY <1>1, <2>1, <2>2, IsAsk
<1>4. CASE Retry
  <2>1. config'.status = "ERROR" /\ UNCHANGED <<queue, device>>
    BY <1>1, <1>4 DEF Retry, Finished, Config, plant
  <2>2. Wan(op)' = Wan(op)
    BY <1>1, <1>4 DEF Retry, Finished, Wan, Operation
  <2>3. ~Known'
    BY <2>1 DEF Known
  <2> QED BY <1>1, <2>1, <2>2, <2>3, IsAsk
<1>5. CASE ChangeCredentials
  <2>1. (config' = config \/ config'.status = "PENDING") /\ UNCHANGED <<call, queue, device>>
    BY <1>1, <1>5 DEF ChangeCredentials, Config, plant
  <2>2. Wan(op)' = Wan(op)
    BY <1>1, <1>5 DEF ChangeCredentials, Wan, Operation
  <2>3. Known' => Known
    BY <2>1 DEF Known
  <2> QED BY <1>1, <2>1, <2>2, <2>3, IsAsk
<1>6. CASE Replace
  <2>1. call'.pc = "invalidate" /\ UNCHANGED <<config, op>>
    BY <1>6 DEF Replace, rows
  <2>2. ~Known' /\ Wan(op)' = Wan(op)
    BY <2>1 DEF Known, Wan
  <2>3. \/ UNCHANGED <<queue, device>>
        \/ device' = NoWan /\ queue' \in {queue, {}}
    BY <1>6 DEF Replace
  <2>4. CASE UNCHANGED <<queue, device>>
    BY <1>1, <2>2, <2>4, IsAsk
  <2>5. CASE device' = NoWan /\ queue' \in {queue, {}}
    <3>1. Promise!Exchange
      BY <1>1, <2>2, <2>5 DEF Promise!Exchange, Known
    <3> QED BY <3>1 DEF Promised, Promise!DeliveryStep
  <2> QED BY <2>3, <2>4, <2>5
<1> QED BY <1>3, <1>4, <1>5, <1>6

LEMMA PlantArrives ==
  ASSUME DeliveryInv, PlantNext
  PROVE  Promised
<1>1. UNCHANGED <<config, op, call, sent>>
  BY DEF PlantNext, Inform, Deliver, DeliverOther, Disturb, FactoryReset, rows
<1>2. Wan(op)' = Wan(op) /\ (Known' <=> Known)
  BY <1>1 DEF Wan, Known
<1>3. CASE Deliver
  <2>1. queue \subseteq {Wan(op)}
    BY DEF DeliveryInv, OnceInv, WanInv, QueueInv
  <2>2. queue = {Wan(op)} /\ queue' = {} /\ device' = Wan(op)
    BY <1>3, <2>1 DEF Deliver
  <2>3. Promise!Arrive
    BY <1>1, <1>2, <2>2 DEF Promise!Arrive, Known
  <2> QED BY <2>3 DEF Promised, Promise!DeliveryStep
<1>4. CASE ~Deliver
  <2>1. UNCHANGED <<queue, device>>
    BY <1>4 DEF PlantNext, Inform, DeliverOther, Disturb, FactoryReset
  <2> QED BY <1>1, <1>2, <2>1, Silent
<1> QED BY <1>3, <1>4

LEMMA RequestApplies ==
  /\ Idle.pc = "idle"
  /\ \A method, mode, actor : Request(method, mode, actor).pc = "apply"
BY DEF Idle, Request

LEMMA StepIsDelivery ==
  ASSUME DeliveryInv, DeliveryInv', [FreshNext]_vars, "invalidate" \notin CrashPoints
  PROVE  Promised
<1>1. CASE Check \/ Push \/ Crash
  <2>1. UNCHANGED <<config, op, queue, device, sent>>
    BY <1>1 DEF Check, Push, Crash, rows, plant
  <2>2. call.pc # "invalidate"
    BY <1>1 DEF Check, Push, Crash
  <2>3. call' = Idle \/ \E method, mode, actor : call' = Request(method, mode, actor)
    BY <1>1 DEF Check, Push, Crash
  <2>4. call'.pc # "invalidate"
    BY <2>3, RequestApplies
  <2> QED BY <2>1, <2>2, <2>4, CallsAreSilent
<1>2. CASE List \/ Unlist
  <2>1. UNCHANGED <<config, op, call, queue, device, sent>>
    BY <1>2, UnlistStep DEF List, rows, plant
  <2>2. Wan(op)' = Wan(op) /\ (Known' <=> Known)
    BY <2>1 DEF Wan, Known
  <2> QED BY <2>1, <2>2, Silent
<1>3. CASE PushListed \/ (Resend /\ call = Idle)
  <2>1. UNCHANGED <<config, op, queue, device, sent>> /\ call = Idle
    BY <1>3 DEF PushListed, Resend, rows, plant
  <2>2. CASE PushListed
    <3>1. call' = [pc |-> "push", mode |-> listed.mode, actor |-> FALSE]
      BY <2>2 DEF PushListed
    <3>2. call'.pc # "invalidate"
      BY <3>1
    <3> QED BY <2>1, <3>2, RequestApplies, CallsAreSilent
  <2>3. CASE Resend
    <3>1. call' = Request(config.method, config.mode, FALSE)
      BY <2>3 DEF Resend, Enter
    <3>2. call'.pc # "invalidate"
      BY <3>1, RequestApplies
    <3> QED BY <2>1, <3>2, RequestApplies, CallsAreSilent
  <2> QED BY <1>3, <2>2, <2>3
<1>4. CASE CallNext
  BY <1>1, <1>4, ApplyDecides, WriteSends, FinishAcknowledges, InvalidateIsSilent DEF CallNext
<1>5. CASE CronNext
  BY <1>2, <1>3, <1>5, FinishAcknowledges DEF CronNext, Reconcile
<1>6. CASE OperatorNext
  BY <1>6, OperatorsAsk, FinishAcknowledges DEF OperatorNext
<1>7. CASE PlantNext
  BY <1>7, PlantArrives
<1>8. CASE UNCHANGED vars
  <2>1. UNCHANGED <<Wan(op), queue, device, sent>> /\ (Known' <=> Known)
    BY <1>8 DEF vars, Wan, Known
  <2> QED BY <2>1, Silent
<1> QED BY <1>1, <1>4, <1>5, <1>6, <1>7, <1>8 DEF FreshNext, Next

(* The rows, the ACS and the equipment implement Delivery, for any number of
   versions and attempts: whatever is lost, waits or dies, decisions arrive in
   order and once, and APPLIED is said of what has arrived.                 *)
THEOREM WanImplementsDelivery ==
  ASSUME "invalidate" \notin CrashPoints
  PROVE  FreshSpec => WanIsDelivery
<1>1. Init => DeliveryInv /\ Promise!DeliveryInit
  <2>1. Init => Promise!DeliveryInit
    BY DEF Init, Promise!DeliveryInit, NoOperation, NoWan, Wan
  <2> QED BY <2>1, TruthInit, OnceInit DEF DeliveryInv
<1>2. DeliveryInv /\ [FreshNext]_vars => DeliveryInv'
  <2> SUFFICES ASSUME DeliveryInv, [FreshNext]_vars PROVE DeliveryInv'
    OBVIOUS
  <2>1. [Next]_vars
    BY DEF FreshNext
  <2> QED BY <2>1, TruthNext, NextKeeps, FreshStays, SentNext DEF DeliveryInv, OnceInv
<1>3. DeliveryInv /\ DeliveryInv' /\ [FreshNext]_vars => Promised
  BY StepIsDelivery
<1> QED BY <1>1, <1>2, <1>3, PTL DEF FreshSpec, FreshNext, WanIsDelivery, Promise!DeliverySpec, Promised

=============================================================================
