--------------------------- MODULE ServiceControl ---------------------------
(***************************************************************************)
(* The network side of a contract: how ServiceControlService and           *)
(* NetworkProvisioningService switch a subscriber's service on and off on  *)
(* the router or OLT, and what they record about it in net.network_access. *)
(*                                                                         *)
(* Every operation is an async method that reads the access row, probes    *)
(* and commands the device, and writes the row back, with an await between *)
(* each.  Nothing locks the row, so the operations of different callers    *)
(* interleave at those awaits.  TypeORM's save() is two of them: it selects *)
(* the row again, and then updates the columns in which the entity differs *)
(* from what it has just selected.                                         *)
(***************************************************************************)
EXTENDS Naturals, FiniteSets

CONSTANTS
  Contracts,     \* contracts whose service is controlled
  Callers,       \* requests, cron iterations and event handlers in flight
  Medium,        \* Medium[c]: how c's service is cut, a member of Media
  Requests,      \* Requests[p]: the <<operation, process>> pairs that p is asked for
  MaxAttempts,   \* bound: pendingAttempts stops counting here
  MaxJobs        \* bound: jobs of one contract counted in a BullMQ state

(* NO_ACCESS: no network_access row.  NONE: a row with neither node nor ONU.
   PROBED: PPPOE or OLT_NATIVE, probed before use.  DHCP: used unprobed.
   MANUAL_NODE: a node whose provisioningMode is MANUAL; its medium is still
   PPPOE, so it is probed, and then an adapter that touches nothing obeys.   *)
Media    == {"NO_ACCESS", "NONE", "PROBED", "DHCP", "MANUAL_NODE"}
Managed  == {"PROBED", "DHCP"}
Equipped == Managed \cup {"MANUAL_NODE"}

Processes == {"MANUAL", "CRON_MOROSIDAD", "PAGO", "QUEUE_RETRY", "SYSTEM"}
Switches  == {"SUSPEND", "RESTORE"}
Edits     == {"PROVISION", "ROTATE"}
Ops       == Switches \cup Edits \cup {"RETRY", "DEPROVISION", "SYNC"}

ASSUME ContractsAssumption   == Contracts # {}
ASSUME MediumAssumption      == Medium \in [Contracts -> Media]
ASSUME RequestsAssumption    == Requests \in [Callers -> SUBSET (Ops \X Processes)]
ASSUME MaxAttemptsAssumption == MaxAttempts \in Nat \ {0}
ASSUME MaxJobsAssumption     == MaxJobs \in Nat \ {0}

VARIABLES
  access,   \* access[c]: the network_access row of c
  secret,   \* secret[c]: c's PPP secret, DHCP lease or ONU on the device
  online,   \* contracts whose device answers
  jobs,     \* jobs[c]: retry jobs in BullMQ, waiting and failed
  call,     \* call[p]: the operation caller p is executing
  doubt,    \* history: contracts whose device was commanded and whose row does not say so
  overlap,  \* history: overlap[c]: whether operations of c have overlapped
  dropped   \* history: contracts a restart caught between the save and the enqueue

scVars == <<access, secret, online, jobs, call, doubt, overlap, dropped>>

-----------------------------------------------------------------------------
(* Rows, devices and calls *)

Statuses == {"PENDING", "ACTIVE", "SUSPENDED", "CUT"}
Row == [status : Statuses, pending : {"NONE", "SUSPEND", "RESTORE"},
        attempts : 0..MaxAttempts, errorCode : {"NONE", "NET_DEVICE_OFFLINE"}]

Secrets == {"ABSENT", "ENABLED", "DISABLED"}

Results   == {"none", "applied", "offline", "exec_error", "conflict"}
Pcs     == {"idle", "load", "configure", "configuring", "probe", "exec", "save", "saving",
            "enqueue", "done"}

(* NOW: an operation began while another was under way, and no other has begun
   alone since; PAST: one has; NEVER: or a switch begun alone has been recorded. *)
Overlaps == {"NEVER", "PAST", "NOW"}

NewRow(status) == [status |-> status, pending |-> "NONE", attempts |-> 0,
                   errorCode |-> "NONE"]

(* row: the entity in memory; seen: the row as save() has selected it. *)
Call == [pc : Pcs, contract : Contracts, op : Ops, process : Processes,
         row : Row, seen : Row, result : Results]

(* A request for operation op of contract c, about to read the row. *)
Requested(c, op, process) ==
  [pc |-> "load", contract |-> c, op |-> op, process |-> process,
   row |-> NewRow("PENDING"), seen |-> NewRow("PENDING"), result |-> "none"]

NoCall == [Requested(CHOOSE c \in Contracts : TRUE, "SYNC", "SYSTEM") EXCEPT !.pc = "idle"]

(* The operation has returned, or thrown, and its caller has the outcome. *)
Finished(result) == [NoCall EXCEPT !.pc = "done", !.result = result]

Idle(p) == call[p].pc = "idle"

Working(p, c) == call[p].pc \notin {"idle", "done"} /\ call[p].contract = c

(* Mutant of StatusAfter: a restore leaves connectionStatus as it was. *)
StatusAfterForgetsRestore(op, row) ==
  CASE op = "SUSPEND" -> "SUSPENDED"
    [] op = "DEPROVISION" -> "CUT"
    [] op \in Edits /\ row.status = "PENDING" -> "ACTIVE"
    [] OTHER -> row.status

(* The status an applied operation leaves in the row. *)
StatusAfter(op, row) ==
  CASE op = "SUSPEND" -> "SUSPENDED"
    [] op = "RESTORE" -> "ACTIVE"
    [] op = "DEPROVISION" -> "CUT"
    [] op \in Edits /\ row.status = "PENDING" -> "ACTIVE"
    [] OTHER -> row.status

(* What the adapter leaves on the device when it obeys.  A restore of a
   secret that is not there is reported as done and does nothing.  A PPPoE
   provision enables whatever it finds; a DHCP one only creates the lease.   *)
SecretAfter(c, op) ==
  IF Medium[c] \notin Managed
  THEN secret[c]
  ELSE CASE op \in Edits /\ (Medium[c] = "PROBED" \/ secret[c] = "ABSENT") -> "ENABLED"
         [] op \in {"SUSPEND", "DEPROVISION"} /\ secret[c] # "ABSENT" -> "DISABLED"
         [] op = "RESTORE" /\ secret[c] # "ABSENT" -> "ENABLED"
         [] OTHER -> secret[c]

(* setDisabled fails on a PPP secret that does not exist. *)
Obeys(c, op) ==
  Medium[c] \in Managed =>
    /\ c \in online
    /\ Medium[c] = "PROBED" /\ op \in {"SUSPEND", "DEPROVISION", "SYNC"}
          => secret[c] # "ABSENT"

(* A switch decides whether the device serves the contract.  SYNC only sets
   the speed, and a DHCP provision leaves an existing lease as it is.        *)
IsSwitch(c, op) == op # "SYNC" /\ ~(op \in Edits /\ Medium[c] = "DHCP")

(* Until its row is saved, the device may not do what the row says.  A rotation
   serves whom it finds, so it stays in doubt when the row is not ACTIVE.    *)
DoubtAfter(c, op) ==
  IF IsSwitch(c, op) \/ (op = "ROTATE" /\ secret[c] = "ABSENT") THEN doubt \cup {c} ELSE doubt

Recorded(k) ==
  /\ k.result = "applied" /\ IsSwitch(k.contract, k.op)
  /\ overlap[k.contract] # "NOW"
  /\ k.op \in Edits => k.row.status = "ACTIVE"

-----------------------------------------------------------------------------
(* How the row that was read is rewritten; lastSyncAt, lastSyncError and
   pendingSince are left out.                                                *)

(* Mutant of Applied: a success forgets the counter it must clear. *)
AppliedKeepsAttempts(row, op) ==
  [row EXCEPT !.status = StatusAfter(op, row), !.pending = "NONE", !.errorCode = "NONE"]

Applied(row, op) ==
  [row EXCEPT !.status = StatusAfter(op, row), !.pending = "NONE",
              !.attempts = 0, !.errorCode = "NONE"]

Deferred(row, op) ==
  [row EXCEPT !.pending = op,
              !.attempts = IF @ < MaxAttempts THEN @ + 1 ELSE @,
              !.errorCode = "NET_DEVICE_OFFLINE"]

(* NetworkProvisioningService leaves the pending operation alone. *)
Transitioned(row, op) == [row EXCEPT !.status = StatusAfter(op, row)]

(* The UPDATE of save(): of the row there is now, the columns in which the
   entity differs from the row that was selected.                            *)
Merged(now, seen, mine) ==
  [status    |-> IF mine.status    # seen.status    THEN mine.status    ELSE now.status,
   pending   |-> IF mine.pending   # seen.pending   THEN mine.pending   ELSE now.pending,
   attempts  |-> IF mine.attempts  # seen.attempts  THEN mine.attempts  ELSE now.attempts,
   errorCode |-> IF mine.errorCode # seen.errorCode THEN mine.errorCode ELSE now.errorCode]

-----------------------------------------------------------------------------
(* One operation, step by step *)

Begin(p, c, op, process) ==
  /\ Idle(p)
  /\ call' = [call EXCEPT ![p] = Requested(c, op, process)]
  /\ overlap' = [overlap EXCEPT ![c] =
       IF \E q \in Callers : Working(q, c) THEN "NOW"
       ELSE IF @ = "NEVER" THEN "NEVER" ELSE "PAST"]

(* What a call becomes when findOne has given it the row r.  A contract
   without a row has nothing to switch; a retry with nothing pending, a cut of
   what is already CUT and a speed sync without node or ONU end here; a row
   with no medium is updated without touching any device; the rest go on to
   the device.                                                               *)
Loaded(k, r) ==
  LET c == k.contract
      op == IF k.op = "RETRY" THEN r.pending ELSE k.op
  IN IF \/ Medium[c] = "NO_ACCESS"
        \/ k.op = "RETRY" /\ r.pending = "NONE"
        \/ k.op = "DEPROVISION" /\ r.status = "CUT"
        \/ k.op = "SYNC" /\ Medium[c] = "NONE"
     THEN Finished("applied")
     ELSE
       CASE op \in Switches /\ Medium[c] = "NONE" ->
            [k EXCEPT !.pc = "save", !.op = op, !.row = Applied(r, op), !.result = "applied"]
       [] op \in Switches /\ Medium[c] \in Equipped ->
            [k EXCEPT !.pc = "probe", !.op = op, !.row = r]
       [] op \in Edits -> [k EXCEPT !.pc = "configure", !.row = r]
       [] OTHER -> [k EXCEPT !.pc = "exec", !.row = r]

LoadAccess(p) ==
  /\ call[p].pc = "load"
  /\ call' = [call EXCEPT ![p] = Loaded(@, access[@.contract])]
  /\ UNCHANGED <<access, secret, online, jobs, doubt, overlap, dropped>>

(* The SELECT of save(). *)
SelectRow(p) ==
  LET k == call[p] IN
  /\ k.pc \in {"configure", "save"}
  /\ call' = [call EXCEPT ![p] =
       [k EXCEPT !.pc = IF @ = "save" THEN "saving" ELSE "configuring",
                 !.seen = access[k.contract]]]
  /\ UNCHANGED <<access, secret, online, jobs, doubt, overlap, dropped>>

(* upsertConfiguration saves the edited row, and then provisions the device
   when the access was PENDING or its PPPoE password is being rotated; an
   edit of anything else only synchronises the speed profile.                *)
SaveConfiguration(p) ==
  LET k == call[p]
  IN /\ k.pc = "configuring"
     /\ access' = [access EXCEPT ![k.contract] = Merged(@, k.seen, k.row)]
     /\ call' = [call EXCEPT ![p] =
          IF k.row.status = "PENDING" \/ k.op = "ROTATE"
            THEN [k EXCEPT !.pc = "exec", !.seen = NewRow("PENDING")]
            ELSE Requested(k.contract, "SYNC", k.process)]
     /\ UNCHANGED <<secret, online, jobs, doubt, overlap, dropped>>

(* What a call becomes after ensureOnline.  Offline, a MANUAL request is
   refused with 409 and nothing is saved; an automatic one becomes the pending
   operation of the row.                                                     *)
Probed(k) ==
  IF Medium[k.contract] = "DHCP" \/ k.contract \in online THEN [k EXCEPT !.pc = "exec"]
  ELSE IF k.process = "MANUAL" THEN Finished("conflict")
  ELSE [k EXCEPT !.pc = "save", !.result = "offline", !.row = Deferred(k.row, k.op)]

EnsureOnline(p) ==
  /\ call[p].pc = "probe"
  /\ call' = [call EXCEPT ![p] = Probed(@)]
  /\ UNCHANGED <<access, secret, online, jobs, doubt, overlap, dropped>>

(* The adapter's command, obeyed and confirmed. *)
PortSucceeds(p) ==
  LET k == call[p]
      c == k.contract
  IN /\ k.pc = "exec"
     /\ Obeys(c, k.op)
     /\ secret' = [secret EXCEPT ![c] = SecretAfter(c, k.op)]
     /\ call' = [call EXCEPT ![p] =
          [k EXCEPT !.pc = "save", !.result = "applied",
                    !.row = IF k.op \in Switches THEN Applied(k.row, k.op)
                                                 ELSE Transitioned(k.row, k.op)]]
     /\ doubt' = DoubtAfter(c, k.op)
     /\ UNCHANGED <<access, online, jobs, overlap, dropped>>

(* The command fails, or is obeyed but its answer is lost: the row is written
   back as it was read, status and pending operation included.               *)
PortFails(p, obeyed) ==
  LET k == call[p]
      c == k.contract
  IN /\ k.pc = "exec"
     /\ Medium[c] \in Managed
     /\ obeyed => Obeys(c, k.op)
     /\ secret' = IF obeyed THEN [secret EXCEPT ![c] = SecretAfter(c, k.op)] ELSE secret
     /\ doubt' = IF obeyed THEN DoubtAfter(c, k.op) ELSE doubt
     /\ call' = [call EXCEPT ![p] =
          [k EXCEPT !.pc = "save",
                    !.result = IF k.process = "MANUAL" /\ k.op \in Switches
                                 THEN "conflict" ELSE "exec_error"]]
     /\ UNCHANGED <<access, online, jobs, overlap, dropped>>

(* What a call does after its save: a deferred switch is enqueued, and a
   configuration change goes on to synchronise the speed profile.            *)
Saved(k) ==
  IF k.result = "offline" THEN [Requested(k.contract, k.op, k.process) EXCEPT !.pc = "enqueue"]
  ELSE IF k.op \in Edits THEN Requested(k.contract, "SYNC", k.process)
  ELSE Finished(k.result)

(* The UPDATE of accessRepository.save.  A switch begun alone, obeyed and
   recorded makes up for whatever overlapped before it.                      *)
SaveAccess(p) ==
  LET k == call[p]
      c == k.contract
  IN /\ k.pc = "saving"
     /\ access' = [access EXCEPT ![c] = Merged(@, k.seen, k.row)]
     /\ doubt' = IF Recorded(k) THEN doubt \ {c} ELSE doubt
     /\ overlap' = IF Recorded(k) /\ k.op \in Switches
                     THEN [overlap EXCEPT ![c] = "NEVER"] ELSE overlap
     /\ call' = [call EXCEPT ![p] = Saved(k)]
     /\ UNCHANGED <<secret, online, jobs, dropped>>

(* Mutant of EnqueueRetry: the error of queue.add is swallowed. *)
EnqueueRetrySwallowed(p) ==
  /\ call[p].pc = "enqueue"
  /\ call' = [call EXCEPT ![p] = Finished("offline")]
  /\ UNCHANGED <<access, secret, online, jobs, doubt, overlap, dropped>>

EnqueueRetry(p) ==
  LET k == call[p]
      c == k.contract
  IN /\ k.pc = "enqueue"
     /\ jobs' = [jobs EXCEPT ![c].waiting = IF @ < MaxJobs THEN @ + 1 ELSE @]
     /\ call' = [call EXCEPT ![p] = Finished("offline")]
     /\ UNCHANGED <<access, secret, online, doubt, overlap, dropped>>

OperationStep(p) ==
  \/ LoadAccess(p)
  \/ SelectRow(p)
  \/ SaveConfiguration(p)
  \/ EnsureOnline(p)
  \/ PortSucceeds(p)
  \/ \E obeyed \in BOOLEAN : PortFails(p, obeyed)
  \/ SaveAccess(p)
  \/ EnqueueRetry(p)

-----------------------------------------------------------------------------
(* What happens around the operations *)

Request(p) ==
  /\ \E c \in Contracts, r \in Requests[p] :
       /\ r[1] \in Edits => Medium[c] \in Equipped
       /\ Begin(p, c, r[1], r[2])
  /\ UNCHANGED <<access, secret, online, jobs, doubt, dropped>>

(* The caller takes the result; the audit log is not modelled. *)
Return(p) ==
  /\ call[p].pc = "done"
  /\ call' = [call EXCEPT ![p] = NoCall]
  /\ UNCHANGED <<access, secret, online, jobs, doubt, overlap, dropped>>

(* NetworkOpsProcessor.process runs in the BullMQ worker, where no tenant
   context is open: the repository proxy has no findOne there, applyPending
   throws before it reads the row, and the job, which has a single attempt,
   moves to the failed set and stays in it.                                  *)
RunRetryJob(c) ==
  /\ jobs[c].waiting > 0
  /\ jobs' = [jobs EXCEPT ![c].waiting = @ - 1,
                          ![c].failed = IF @ < MaxJobs THEN @ + 1 ELSE @]
  /\ UNCHANGED <<access, secret, online, call, doubt, overlap, dropped>>

(* The device of c, or the tunnel to it, goes down or comes back. *)
DeviceChanges(c) ==
  /\ online' = IF c \in online THEN online \ {c} ELSE online \cup {c}
  /\ UNCHANGED <<access, secret, jobs, call, doubt, overlap, dropped>>

(* The contracts whose pending operation has been saved and not yet enqueued. *)
Unqueued == {c \in Contracts : \E p \in Callers : call[p].pc = "enqueue" /\ call[p].contract = c}

(* The API process restarts: what was in flight is lost, Redis keeps the jobs. *)
Crash ==
  /\ \E p \in Callers : ~Idle(p)
  /\ call' = [p \in Callers |-> NoCall]
  /\ dropped' = dropped \cup Unqueued
  /\ UNCHANGED <<access, secret, online, jobs, doubt, overlap>>

-----------------------------------------------------------------------------
(* Specifications *)

(* A new access is PENDING with nothing on the device; one in service is
   ACTIVE with its secret enabled.                                           *)
Init ==
  /\ access \in [Contracts -> {NewRow("PENDING"), NewRow("ACTIVE")}]
  /\ secret = [c \in Contracts |->
                 IF access[c].status = "ACTIVE" THEN "ENABLED" ELSE "ABSENT"]
  /\ online = Contracts
  /\ jobs = [c \in Contracts |-> [waiting |-> 0, failed |-> 0]]
  /\ call = [p \in Callers |-> NoCall]
  /\ doubt = {} /\ dropped = {}
  /\ overlap = [c \in Contracts |-> "NEVER"]

ProcessNext ==
  \/ \E p \in Callers : Request(p) \/ OperationStep(p) \/ Return(p)
  \/ \E c \in Contracts : RunRetryJob(c) \/ DeviceChanges(c)

Next == ProcessNext \/ Crash

Spec == Init /\ [][Next]_scVars

UninterruptedSpec == Init /\ [][ProcessNext]_scVars

(* Steps the runtime takes by itself once they are possible: the statements
   of an operation, the return to its caller and the BullMQ worker.  Devices,
   requests and crashes owe nothing.                                         *)
RuntimeFairness ==
  /\ \A p \in Callers : WF_scVars(OperationStep(p)) /\ WF_scVars(Return(p))
  /\ \A p \in Callers : SF_scVars(PortSucceeds(p))
  /\ \A c \in Contracts : WF_scVars(RunRetryJob(c))

FairSpec == UninterruptedSpec /\ RuntimeFairness

-----------------------------------------------------------------------------
(* Properties *)

TypeOK ==
  /\ access \in [Contracts -> Row]
  /\ secret \in [Contracts -> Secrets]
  /\ online \subseteq Contracts
  /\ jobs \in [Contracts -> [waiting : 0..MaxJobs, failed : 0..MaxJobs]]
  /\ call \in [Callers -> Call]
  /\ doubt \subseteq Contracts /\ dropped \subseteq Contracts
  /\ overlap \in [Contracts -> Overlaps]

RowConsistent(r) ==
  /\ r.pending # "NONE" <=> r.attempts > 0
  /\ r.pending # "NONE" <=> r.errorCode = "NET_DEVICE_OFFLINE"

(* pendingOperation, pendingAttempts and lastErrorCode tell the same story:
   getPendingOperations, enqueueRetry and the delinquency list each read one of
   the three columns.  Saves that overlap can mix them; one switch that begins
   alone and is confirmed puts them right again.                             *)
PendingConsistent ==
  \A c \in Contracts : overlap[c] = "NEVER" => RowConsistent(access[c])

(* A deferred operation has had a retry job, whatever stale rows are written
   over each other: a row says "pending" with the queue never told only when
   a restart fell between the save and the enqueue.                          *)
DeferredIsQueued ==
  \A c \in Contracts : access[c].pending # "NONE" =>
    c \in dropped \cup Unqueued \/ jobs[c].waiting + jobs[c].failed > 0

(* connectionStatus is "the truth of the network": once a switch has been
   recorded, an access that says SUSPENDED or CUT is not served by the device
   and one that says ACTIVE is not cut by it.  Operations that overlap, an
   answer that is lost and a restart can break it; the next switch that begins
   alone and is confirmed restores it.                                       *)
NetworkTruth ==
  \A c \in Contracts \ doubt : overlap[c] = "NEVER" /\ Medium[c] \in Managed =>
    /\ access[c].status \in {"SUSPENDED", "CUT"} => secret[c] # "ENABLED"
    /\ access[c].status = "ACTIVE" => secret[c] # "DISABLED"

(* An operation that reports "completed and confirmed on the device" has put
   the device in the state it was asked for.                                 *)
ConfirmedMeansDone ==
  \A p \in Callers :
    LET k == call[p] IN
      k.pc = "save" /\ k.result = "applied" /\ Medium[k.contract] \in Managed =>
        /\ k.op = "RESTORE" => secret[k.contract] = "ENABLED"
        /\ k.op = "SUSPEND" => secret[k.contract] # "ENABLED"

(* CUT is terminal: no later operation brings a cut access back. *)
CutIsTerminal ==
  [][\A c \in Contracts : access[c].status = "CUT" => access'[c].status = "CUT"]_scVars

(* An access on a MANUAL node needs no equipment, so nothing waits for it. *)
ManualNodesNeverDefer ==
  \A c \in Contracts : Medium[c] = "MANUAL_NODE" => access[c].pending = "NONE"

(* A pending operation does not stay pending for ever on a device that is
   back for good and knows the subscriber.                                   *)
PendingIsRetried ==
  \A c \in Contracts :
    <>[](c \in online /\ secret[c] # "ABSENT") => []<>(access[c].pending = "NONE")

(* What holds only without races and restarts: sc_divergent.cfg. *)

(* The three columns never disagree. *)
ColumnsNeverMix == \A c \in Contracts : RowConsistent(access[c])

(* No restart parts a deferred operation from its job. *)
NobodyIsDropped == dropped = {}

(* Rotating the password of a suspended access does not serve it again. *)
RotatedIsRecorded ==
  \A p \in Callers :
    LET k == call[p] IN
      k.pc = "saving" /\ k.op = "ROTATE" /\ k.result = "applied" /\ k.row.status = "SUSPENDED"
        /\ Medium[k.contract] \in Managed => secret[k.contract] # "ENABLED"

=============================================================================
