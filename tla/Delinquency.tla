---------------------------- MODULE Delinquency -----------------------------
(***************************************************************************)
(* Who is cut for not paying and who is reconnected for paying: the daily  *)
(* cycle of MorosidadService, the reactivation that follows a payment, and *)
(* the manual operations on a contract, all of them on top of              *)
(* ServiceControl, which moves the service on the device.                  *)
(*                                                                         *)
(* The contract in com.contracts, the invoices in pos.invoices, the access *)
(* row in net.network_access and the device are four records of one fact.  *)
(* No lock or transaction spans them: every handler reads a contract, has  *)
(* the network switched, and then saves the contract it read.              *)
(***************************************************************************)
EXTENDS ServiceControl, SequencesExt

CONSTANTS
  Invoices,      \* recurring invoices
  Owner,         \* Owner[i]: the contract that invoice i charges
  Due,           \* Due[i]: the day i falls due
  Grace,         \* Grace[c]: graceDaysOverride, or the grace of the settings
  AdvanceDays,   \* advanceReminderDaysBeforeDue
  Cron,          \* the caller that runs the daily cycle
  Kinds,         \* the handlers that run besides the cycle
  MaxDay,        \* bound: the calendar stops here, the cycle goes on
  MaxEpisodes    \* bound: suspensions of a contract that are open at once

HandlerKinds == {"PAYMENT", "SUSPEND", "REACTIVATE", "TERMINATE", "CHECKOUT",
                 "EDIT", "RETRY", "VOID"}

ASSUME OwnerAssumption  == Owner \in [Invoices -> Contracts]
ASSUME DueAssumption    == Due \in [Invoices -> Nat]
ASSUME GraceAssumption  == Grace \in [Contracts -> Nat]
ASSUME DaysAssumption   == AdvanceDays \in Nat /\ MaxDay \in Nat /\ MaxEpisodes \in Nat
ASSUME CronAssumption   == Cron \in Callers
ASSUME KindsAssumption  == Kinds \subseteq HandlerKinds

Workers == Callers \ {Cron}

VARIABLES
  today,      \* the current day
  ran,        \* whether today's cycle has started: "YES" or "NO"
  contract,   \* contract[c]: contracts.status
  invoice,    \* invoice[i]: the row of pos.invoices
  episodes,   \* episodes[c]: who opened each open suspension, oldest first
  cycle,      \* the daily cycle in progress
  work,       \* work[p]: the handler that worker p is executing
  owed        \* contracts with an INVOICE_PAID event still to be handled

dqVars == <<today, ran, contract, invoice, episodes, cycle, work, owed>>
vars   == <<scVars, dqVars>>

-----------------------------------------------------------------------------
(* Rows, the cycle and the handlers *)

OpenStatuses == {"PENDING_PAYMENT", "EN_GRACIA", "VENCIDA"}
Invoice == [status : OpenStatuses \cup {"ISSUED", "VOIDED"},
            advanceReminder : {"UNSENT", "SENT"}]

ContractStatuses == {"ACTIVE", "SUSPENDED", "TERMINATED"}

IsOpen(i)      == invoice[i].status \in OpenStatuses
DaysOverdue(i) == today - Due[i]
IsOverdue(i)   == Due[i] < today
PastGrace(i)   == IsOverdue(i) /\ DaysOverdue(i) >= Grace[Owner[i]]
HasDebt(c)     == \E i \in Invoices : Owner[i] = c /\ IsOpen(i) /\ IsOverdue(i)

CyclePcs == {"idle", "review", "suspend", "switch", "save", "episode"}
WorkPcs  == {"idle", "read", "count", "network", "save", "episode"}

(* seen: the open invoices as find() returned them, those not reviewed yet;
   active: the contracts joined to them that were ACTIVE; queue:
   contractsToSuspend; current: the contract being suspended.                *)
NoCycle == [pc |-> "idle", seen |-> << >>, active |-> {}, queue |-> {},
            current |-> NoCall.contract]

NoWork == [pc |-> "idle", kind |-> "EDIT", contract |-> NoCall.contract, row |-> "ACTIVE"]

Busy(p) == work[p].pc # "idle"

-----------------------------------------------------------------------------
(* The daily cycle *)

(* One query reads the open invoices joined to their contracts. *)
StartCycle ==
  LET open == {i \in Invoices : IsOpen(i)}
  IN /\ cycle.pc = "idle" /\ ran = "NO"
     /\ ran' = "YES"
     /\ cycle' = [pc |-> "review", seen |-> [i \in open |-> invoice[i]],
                  active |-> {c \in Contracts : contract[c] = "ACTIVE"},
                  queue |-> {}, current |-> NoCycle.current]
     /\ UNCHANGED <<scVars, today, contract, invoice, episodes, work, owed>>

TargetStatus(i) == IF DaysOverdue(i) >= Grace[Owner[i]] THEN "VENCIDA" ELSE "EN_GRACIA"

Reviewed(i) == [cycle EXCEPT !.seen = [j \in DOMAIN @ \ {i} |-> @[j]]]

(* Mutant of ReviewOverdue: a contract is queued as soon as it owes. *)
ReviewWithoutGrace(i) ==
  /\ cycle.pc = "review" /\ i \in DOMAIN cycle.seen
  /\ IsOverdue(i)
  /\ invoice' = [invoice EXCEPT ![i] = [cycle.seen[i] EXCEPT !.status = TargetStatus(i)]]
  /\ cycle' = IF Owner[i] \in cycle.active
                THEN [Reviewed(i) EXCEPT !.queue = @ \cup {Owner[i]}]
                ELSE Reviewed(i)
  /\ UNCHANGED <<scVars, today, ran, contract, episodes, work, owed>>

(* An overdue invoice is saved every day, for its daysOverdue changes; one
   about to fall due is saved when its advance reminder is sent.  save()
   writes the row that was read when the cycle started.                      *)
ReviewOverdue(i) ==
  /\ cycle.pc = "review" /\ i \in DOMAIN cycle.seen
  /\ IsOverdue(i)
  /\ invoice' = [invoice EXCEPT ![i] = [cycle.seen[i] EXCEPT !.status = TargetStatus(i)]]
  /\ cycle' = IF PastGrace(i) /\ Owner[i] \in cycle.active
                THEN [Reviewed(i) EXCEPT !.queue = @ \cup {Owner[i]}]
                ELSE Reviewed(i)
  /\ UNCHANGED <<scVars, today, ran, contract, episodes, work, owed>>

ReviewNotDue(i) ==
  /\ cycle.pc = "review" /\ i \in DOMAIN cycle.seen
  /\ ~IsOverdue(i)
  /\ invoice' = IF cycle.seen[i].advanceReminder = "UNSENT" /\ Due[i] - today <= AdvanceDays
                  THEN [invoice EXCEPT ![i] = [cycle.seen[i] EXCEPT !.advanceReminder = "SENT"]]
                  ELSE invoice
  /\ cycle' = Reviewed(i)
  /\ UNCHANGED <<scVars, today, ran, contract, episodes, work, owed>>

EndReview ==
  /\ cycle.pc = "review" /\ DOMAIN cycle.seen = {}
  /\ cycle' = [cycle EXCEPT !.pc = "suspend"]
  /\ UNCHANGED <<scVars, today, ran, contract, invoice, episodes, work, owed>>

(* suspendContract: the network first. *)
SuspendNext(c) ==
  /\ cycle.pc = "suspend" /\ c \in cycle.queue
  /\ Begin(Cron, c, "SUSPEND", "CRON_MOROSIDAD")
  /\ cycle' = [cycle EXCEPT !.pc = "switch", !.current = c, !.queue = @ \ {c}]
  /\ UNCHANGED <<access, secret, online, jobs, doubt, dropped>>
  /\ UNCHANGED <<today, ran, contract, invoice, episodes, work, owed>>

(* Mutant of CycleSwitched: any failure leaves the contract ACTIVE. *)
CycleSwitchedIfApplied ==
  /\ cycle.pc = "switch" /\ call[Cron].pc = "done"
  /\ cycle' = [cycle EXCEPT !.pc = IF call[Cron].result = "applied" THEN "save" ELSE "suspend"]
  /\ Return(Cron)
  /\ UNCHANGED <<today, ran, contract, invoice, episodes, work, owed>>

(* Only NET_DEVICE_OFFLINE leaves the contract ACTIVE. *)
CycleSwitched ==
  /\ cycle.pc = "switch" /\ call[Cron].pc = "done"
  /\ cycle' = [cycle EXCEPT !.pc = IF call[Cron].result = "offline" THEN "suspend" ELSE "save"]
  /\ Return(Cron)
  /\ UNCHANGED <<today, ran, contract, invoice, episodes, work, owed>>

CycleSaves ==
  /\ cycle.pc = "save"
  /\ contract' = [contract EXCEPT ![cycle.current] = "SUSPENDED"]
  /\ cycle' = [cycle EXCEPT !.pc = "episode"]
  /\ UNCHANGED <<scVars, today, ran, invoice, episodes, work, owed>>

(* openSuspension inserts a row of suspension_history. *)
Opened(c, process) ==
  IF Len(episodes[c]) < MaxEpisodes
  THEN [episodes EXCEPT ![c] = Append(@, process)]
  ELSE episodes

CycleOpensEpisode ==
  /\ cycle.pc = "episode"
  /\ episodes' = Opened(cycle.current, "CRON_MOROSIDAD")
  /\ cycle' = [cycle EXCEPT !.pc = "suspend"]
  /\ UNCHANGED <<scVars, today, ran, contract, invoice, work, owed>>

EndCycle ==
  /\ cycle.pc = "suspend" /\ cycle.queue = {}
  /\ cycle' = NoCycle
  /\ UNCHANGED <<scVars, today, ran, contract, invoice, episodes, work, owed>>

CycleStep ==
  \/ \E i \in Invoices : ReviewOverdue(i) \/ ReviewNotDue(i)
  \/ EndReview
  \/ \E c \in Contracts : SuspendNext(c)
  \/ CycleSwitched
  \/ CycleSaves
  \/ CycleOpensEpisode
  \/ EndCycle

-----------------------------------------------------------------------------
(* The handlers: each reads the contract, may switch the network, saves the
   contract it read and closes or opens an episode.                          *)

Starting(c, kind) == [NoWork EXCEPT !.pc = "read", !.kind = kind, !.contract = c]

(* A request arrives; a payment is Collect and a void is Void. *)
StartHandler(p, c) ==
  /\ ~Busy(p)
  /\ \E kind \in Kinds \ {"PAYMENT", "VOID"} : work' = [work EXCEPT ![p] = Starting(c, kind)]
  /\ UNCHANGED <<scVars, today, ran, contract, invoice, episodes, cycle, owed>>

(* collectPendingInvoices: the sale is committed with the invoice ISSUED, an
   INVOICE_PAID event is emitted, and the same request goes on to
   reactivateIfSettled.                                                      *)
Collect(p, i) ==
  /\ "PAYMENT" \in Kinds
  /\ ~Busy(p)
  /\ IsOpen(i)
  /\ invoice' = [invoice EXCEPT ![i].status = "ISSUED"]
  /\ owed' = owed \cup {Owner[i]}
  /\ work' = [work EXCEPT ![p] = Starting(Owner[i], "PAYMENT")]
  /\ UNCHANGED <<scVars, today, ran, contract, episodes, cycle>>

(* BillingReactivationListener does the same for the event. *)
HandleInvoicePaid(p, c) ==
  /\ c \in owed
  /\ ~Busy(p)
  /\ owed' = owed \ {c}
  /\ work' = [work EXCEPT ![p] = Starting(c, "PAYMENT")]
  /\ UNCHANGED <<scVars, today, ran, contract, invoice, episodes, cycle>>

(* voidInvoice reactivates nobody. *)
Void(i) ==
  /\ "VOID" \in Kinds
  /\ IsOpen(i)
  /\ invoice' = [invoice EXCEPT ![i].status = "VOIDED"]
  /\ UNCHANGED <<scVars, today, ran, contract, episodes, cycle, work, owed>>

(* The statuses of the contract in which a handler goes on. *)
Accepts(kind) ==
  CASE kind = "SUSPEND" -> {"ACTIVE"}
    [] kind \in {"REACTIVATE", "PAYMENT"} -> {"SUSPENDED"}
    [] kind = "TERMINATE" -> {"ACTIVE", "SUSPENDED"}
    [] OTHER -> ContractStatuses

AfterRead(kind) ==
  CASE kind \in {"SUSPEND", "REACTIVATE", "RETRY"} -> "network"
    [] kind = "PAYMENT" -> "count"
    [] OTHER -> "save"

ReadContract(p) ==
  LET w == work[p] IN
  /\ w.pc = "read"
  /\ work' = [work EXCEPT ![p] =
       IF contract[w.contract] \in Accepts(w.kind)
         THEN [w EXCEPT !.pc = AfterRead(w.kind), !.row = contract[w.contract]]
         ELSE NoWork]
  /\ UNCHANGED <<scVars, today, ran, contract, invoice, episodes, cycle, owed>>

(* Mutant of CountOverdue: every open invoice counts, due or not. *)
CountOpen(p) ==
  /\ work[p].pc = "count"
  /\ work' = [work EXCEPT ![p] =
       IF \E i \in Invoices : Owner[i] = @.contract /\ IsOpen(i)
         THEN NoWork ELSE [@ EXCEPT !.pc = "network"]]
  /\ UNCHANGED <<scVars, today, ran, contract, invoice, episodes, cycle, owed>>

(* reactivateIfSettled stops while anything overdue is open. *)
CountOverdue(p) ==
  /\ work[p].pc = "count"
  /\ work' = [work EXCEPT ![p] = IF HasDebt(@.contract) THEN NoWork ELSE [@ EXCEPT !.pc = "network"]]
  /\ UNCHANGED <<scVars, today, ran, contract, invoice, episodes, cycle, owed>>

SwitchNetwork(p) ==
  LET w == work[p] IN
  /\ w.pc = "network"
  /\ CASE w.kind = "SUSPEND"    -> Begin(p, w.contract, "SUSPEND", "MANUAL")
       [] w.kind = "REACTIVATE" -> Begin(p, w.contract, "RESTORE", "MANUAL")
       [] w.kind = "PAYMENT"    -> Begin(p, w.contract, "RESTORE", "PAGO")
       [] w.kind = "RETRY"      -> Begin(p, w.contract, "RETRY", "QUEUE_RETRY")
       [] w.kind = "TERMINATE"  -> Begin(p, w.contract, "DEPROVISION", "SYSTEM")
  /\ UNCHANGED <<access, secret, online, jobs, doubt, dropped, dqVars>>

(* Mutant of NetworkReturns: the conflict of a manual operation is ignored. *)
NetworkReturnsAlways(p) ==
  LET w == work[p] IN
  /\ w.pc = "network" /\ call[p].pc = "done"
  /\ work' = [work EXCEPT ![p] =
       IF w.kind \in {"RETRY", "TERMINATE"} THEN NoWork ELSE [w EXCEPT !.pc = "save"]]
  /\ Return(p)
  /\ UNCHANGED <<today, ran, contract, invoice, episodes, cycle, owed>>

(* A manual operation ends with the 409; a payment ignores how it went. *)
NetworkReturns(p) ==
  LET w == work[p] IN
  /\ w.pc = "network" /\ call[p].pc = "done"
  /\ work' = [work EXCEPT ![p] =
       IF w.kind \in {"RETRY", "TERMINATE"} \/ call[p].result = "conflict"
         THEN NoWork ELSE [w EXCEPT !.pc = "save"]]
  /\ Return(p)
  /\ UNCHANGED <<today, ran, contract, invoice, episodes, cycle, owed>>

(* contractRepository.save: the checkout reactivates a suspended contract and
   leaves any other as it read it, as updateContract always does.            *)
Saves(w) ==
  CASE w.kind = "SUSPEND" -> "SUSPENDED"
    [] w.kind \in {"REACTIVATE", "PAYMENT"} -> "ACTIVE"
    [] w.kind = "TERMINATE" -> "TERMINATED"
    [] w.kind = "CHECKOUT" /\ w.row = "SUSPENDED" -> "ACTIVE"
    [] OTHER -> w.row

AfterSave(w) ==
  CASE w.kind \in {"CHECKOUT", "EDIT"} -> NoWork
    [] w.kind = "TERMINATE" -> [w EXCEPT !.pc = "network"]
    [] OTHER -> [w EXCEPT !.pc = "episode"]

SaveContract(p) ==
  LET w == work[p] IN
  /\ w.pc = "save"
  /\ contract' = [contract EXCEPT ![w.contract] = Saves(w)]
  /\ work' = [work EXCEPT ![p] = AfterSave(w)]
  /\ UNCHANGED <<scVars, today, ran, invoice, episodes, cycle, owed>>

(* Mutant of Closed: a reconnection closes no suspension. *)
ClosedNone(c) == episodes

(* closeSuspension closes the latest open suspension, if there is one. *)
Closed(c) == IF episodes[c] = << >> THEN episodes ELSE [episodes EXCEPT ![c] = Front(@)]

RecordEpisode(p) ==
  LET w == work[p] IN
  /\ w.pc = "episode"
  /\ episodes' = IF w.kind = "SUSPEND" THEN Opened(w.contract, "MANUAL") ELSE Closed(w.contract)
  /\ work' = [work EXCEPT ![p] = NoWork]
  /\ UNCHANGED <<scVars, today, ran, contract, invoice, cycle, owed>>

WorkStep(p) ==
  \/ ReadContract(p)
  \/ CountOverdue(p)
  \/ SwitchNetwork(p)
  \/ NetworkReturns(p)
  \/ SaveContract(p)
  \/ RecordEpisode(p)

-----------------------------------------------------------------------------
(* Time, the network and restarts *)

(* Assumed: the invoices are reviewed within the day in which they were read,
   for which the cycle computes todayStr once.                               *)
NextDay ==
  /\ ran = "YES" /\ cycle.pc # "review"
  /\ today' = IF today < MaxDay THEN today + 1 ELSE today
  /\ ran' = "NO"
  /\ UNCHANGED <<scVars, contract, invoice, episodes, cycle, work, owed>>

NetworkStep ==
  /\ \/ \E p \in Callers : OperationStep(p)
     \/ \E c \in Contracts : RunRetryJob(c) \/ DeviceChanges(c)
  /\ UNCHANGED dqVars

(* Everything in memory is lost, the INVOICE_PAID events included. *)
Restart ==
  /\ cycle.pc # "idle" \/ owed # {} \/ \E p \in Workers : Busy(p)
  /\ call' = [p \in Callers |-> NoCall]
  /\ cycle' = NoCycle
  /\ work' = [p \in Workers |-> NoWork]
  /\ owed' = {}
  /\ dropped' = dropped \cup Unqueued
  /\ UNCHANGED <<access, secret, online, jobs, doubt, overlap>>
  /\ UNCHANGED <<today, ran, contract, invoice, episodes>>

-----------------------------------------------------------------------------
(* Specifications *)

(* Contracts in service, charged but not yet due. *)
DelinquencyInit ==
  /\ access = [c \in Contracts |-> NewRow("ACTIVE")]
  /\ secret = [c \in Contracts |-> "ENABLED"]
  /\ online = Contracts
  /\ jobs = [c \in Contracts |-> [waiting |-> 0, failed |-> 0]]
  /\ call = [p \in Callers |-> NoCall]
  /\ doubt = {} /\ dropped = {}
  /\ overlap = [c \in Contracts |-> "NEVER"]
  /\ today = 0 /\ ran = "NO"
  /\ contract = [c \in Contracts |-> "ACTIVE"]
  /\ invoice = [i \in Invoices |-> [status |-> "PENDING_PAYMENT", advanceReminder |-> "UNSENT"]]
  /\ episodes = [c \in Contracts |-> << >>]
  /\ cycle = NoCycle
  /\ work = [p \in Workers |-> NoWork]
  /\ owed = {}

DelinquencyNext ==
  \/ StartCycle \/ CycleStep
  \/ \E p \in Workers :
       \/ \E c \in Contracts : StartHandler(p, c) \/ HandleInvoicePaid(p, c)
       \/ \E i \in Invoices : Collect(p, i)
       \/ WorkStep(p)
  \/ \E i \in Invoices : Void(i)
  \/ NextDay
  \/ NetworkStep

DelinquencySpec == DelinquencyInit /\ [][DelinquencyNext \/ Restart]_vars

UninterruptedDelinquencySpec == DelinquencyInit /\ [][DelinquencyNext]_vars

(* The steps the runtime and the calendar owe; the events of EventEmitter2
   are handled in the process that emitted them.  There are no workers to
   wait for in the code, hence SF: that they are few is a bound of the model. *)
DelinquencyFairness ==
  /\ WF_vars(StartCycle) /\ WF_vars(CycleStep) /\ WF_vars(NextDay)
  /\ \A p \in Workers : WF_vars(WorkStep(p))
  /\ \A c \in Contracts : SF_vars(\E p \in Workers : HandleInvoicePaid(p, c))
  /\ \A p \in Callers : WF_vars(OperationStep(p) /\ UNCHANGED dqVars)

FairDelinquencySpec == UninterruptedDelinquencySpec /\ DelinquencyFairness

(* What a quiet night gives: nobody is served while the cycle runs, and two
   handlers of one contract do not overlap.                                  *)
Undisturbed ==
  /\ cycle.pc # "idle" => owed = {} /\ \A p \in Workers : ~Busy(p)
  /\ \A p, q \in Workers :
       Busy(p) /\ Busy(q) /\ work[p].contract = work[q].contract => p = q

UndisturbedSpec == DelinquencyInit /\ [][DelinquencyNext /\ Undisturbed']_vars

-----------------------------------------------------------------------------
(* Properties *)

CycleOK ==
  /\ cycle.pc \in CyclePcs
  /\ DOMAIN cycle.seen \subseteq Invoices
  /\ \A i \in DOMAIN cycle.seen : cycle.seen[i] \in Invoice
  /\ cycle.active \subseteq Contracts /\ cycle.queue \subseteq Contracts
  /\ cycle.current \in Contracts

DelinquencyTypeOK ==
  /\ TypeOK
  /\ today \in 0..MaxDay /\ ran \in {"YES", "NO"}
  /\ contract \in [Contracts -> ContractStatuses]
  /\ invoice \in [Invoices -> Invoice]
  /\ episodes \in [Contracts -> Seq({"CRON_MOROSIDAD", "MANUAL"})]
  /\ CycleOK
  /\ work \in [Workers -> [pc : WorkPcs, kind : HandlerKinds, contract : Contracts,
                           row : ContractStatuses]]
  /\ owed \subseteq Contracts

(* Nobody is working on c, and no payment of c has still to be evaluated. *)
AtRest(c) ==
  /\ c \notin owed
  /\ \A p \in Workers : Busy(p) => work[p].contract # c
  /\ cycle.pc \in {"switch", "save", "episode"} => cycle.current # c

(* The cycle cuts nobody before the grace of one of its invoices has run out,
   however late the cycle acts on what it read and whatever stale contracts
   the other handlers save meanwhile.                                        *)
GraceIsRespected ==
  "SUSPEND" \notin Kinds =>
    \A c \in Contracts :
      contract[c] = "SUSPENDED" => \E i \in Invoices : Owner[i] = c /\ PastGrace(i)

(* suspension_history follows the contract: "an episode is opened on
   suspending and closed on reconnecting".                                   *)
EpisodesMatch ==
  \A c \in Contracts : AtRest(c) =>
    /\ contract[c] = "SUSPENDED" => Len(episodes[c]) = 1
    /\ contract[c] = "ACTIVE" => episodes[c] = << >>

(* A contract that the cycle left suspended still owes an overdue invoice, or
   owes nothing because the invoice was voided, which reconnects nobody.     *)
OnlyDebtorsAreCut ==
  \A c \in Contracts :
    AtRest(c) /\ contract[c] = "SUSPENDED" /\ episodes[c] # << >>
              /\ Last(episodes[c]) = "CRON_MOROSIDAD" =>
      \E i \in Invoices : /\ Owner[i] = c /\ IsOverdue(i)
                          /\ IsOpen(i) \/ invoice[i].status = "VOIDED"

(* A manual operation changes the contract only after the switch has been
   confirmed on the device and recorded in the access row.                   *)
ManualIsConfirmed ==
  \A p \in Workers :
    LET w == work[p] IN
    w.pc = "save" /\ Medium[w.contract] \in Managed =>
      /\ w.kind = "SUSPEND" => access[w.contract].status = "SUSPENDED"
      /\ w.kind = "REACTIVATE" => access[w.contract].status = "ACTIVE"

(* The suspension of the cycle is confirmed on the device before the contract
   is marked SUSPENDED.                                                      *)
CycleIsConfirmed ==
  cycle.pc = "save" /\ Medium[cycle.current] \in Managed =>
    access[cycle.current].status = "SUSPENDED"

(* While nothing is pending, the contract and the network tell one story. *)
ErpInSync ==
  \A c \in Contracts :
    AtRest(c) /\ access[c].pending = "NONE" /\ contract[c] = "ACTIVE" =>
      access[c].status # "SUSPENDED"

(* A contract with every invoice settled is served, or its restoration is
   pending: the automatic reactivation that follows a payment.               *)
SettledIsServed ==
  \A c \in Contracts :
    AtRest(c) /\ ~HasDebt(c) /\ contract[c] = "ACTIVE" /\ access[c].status = "SUSPENDED" =>
      access[c].pending = "RESTORE"

(* What a payment froze in an invoice is not written over. *)
IssuedIsFrozen ==
  [][\A i \in Invoices : invoice[i].status = "ISSUED" => invoice'[i] = invoice[i]]_vars

(* A payment that leaves nothing overdue gets the contract out of SUSPENDED. *)
SettledIsReactivated ==
  \A c \in Contracts :
    (c \in owed /\ ~HasDebt(c)) ~> (contract[c] # "SUSPENDED" \/ HasDebt(c))

(* A contract that never pays is not left ACTIVE for ever by a device that
   answers.                                                                  *)
DelinquentIsCut ==
  \A i \in Invoices :
    <>[](IsOpen(i) /\ PastGrace(i) /\ Owner[i] \in online) =>
      []<>(contract[Owner[i]] # "ACTIVE")
=============================================================================
