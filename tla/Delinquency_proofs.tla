------------------------- MODULE Delinquency_proofs -------------------------
(***************************************************************************)
(* Proofs about the handlers of Delinquency and the calls to the network   *)
(* that they wait for, for any contracts, invoices, workers and calendar.  *)
(*                                                                         *)
(* The first part is about every interleaving, with the process restarting *)
(* at any point: the automatic suspension respects the grace.  This is not *)
(* inductive: whoever is about to save SUSPENDED must be known to have a   *)
(* reason.  GraceInv therefore follows the contract from the queue of the  *)
(* cycle to its save, and every stale copy of a suspended contract that a  *)
(* handler holds.                                                          *)
(*                                                                         *)
(* In the last part two records tell one story, the contract and the access *)
(* of a manual operation.  ManualInv says what is true between the save of  *)
(* one and that of the other; Undisturbed, a quiet night, makes it true.   *)
(***************************************************************************)
EXTENDS Delinquency, ServiceControl_proofs, TLAPS

-----------------------------------------------------------------------------
(* The grace *)

(* An invoice of c has been overdue for the whole grace. *)
Late(c) == \E i \in Invoices : Owner[i] = c /\ PastGrace(i)

WorkRecords == [pc : WorkPcs, kind : HandlerKinds \ {"SUSPEND"}, contract : Contracts,
                row : ContractStatuses]

Shape(k) == k = [pc |-> k.pc, seen |-> k.seen, active |-> k.active, queue |-> k.queue,
                 current |-> k.current]

CalendarOK == today \in Nat /\ today <= MaxDay

ContractsOK ==
  /\ contract \in [Contracts -> ContractStatuses]
  /\ \A c \in Contracts : contract[c] = "SUSPENDED" => Late(c)

CycleLate ==
  /\ Shape(cycle) /\ cycle.pc \in CyclePcs
  /\ cycle.queue \subseteq Contracts /\ cycle.current \in Contracts
  /\ \A c \in cycle.queue : Late(c)
  /\ cycle.pc \in {"switch", "save", "episode"} => Late(cycle.current)

WorkLate ==
  /\ work \in [Workers -> WorkRecords]
  /\ \A p \in Workers : work[p].row = "SUSPENDED" => Late(work[p].contract)

OwedOK == owed \subseteq Contracts

GraceInv == CalendarOK /\ ContractsOK /\ CycleLate /\ WorkLate /\ OwedOK

-----------------------------------------------------------------------------
(* The record that stands for an idle caller names some contract. *)
LEMMA AContract == NoCall.contract \in Contracts
  BY ContractsAssumption DEF NoCall, Requested

(* An idle worker holds no copy of a suspended contract. *)
LEMMA NoWorkType == NoWork \in WorkRecords /\ NoWork.row = "ACTIVE"
  BY AContract DEF NoWork, WorkRecords, WorkPcs, HandlerKinds, ContractStatuses

(* A handler that starts holds no copy of a contract yet. *)
LEMMA StartingType ==
  ASSUME NEW c \in Contracts, NEW kind \in HandlerKinds \ {"SUSPEND"}
  PROVE  Starting(c, kind) \in WorkRecords /\ Starting(c, kind).row = "ACTIVE"
  BY NoWorkType DEF Starting, NoWork, WorkRecords, WorkPcs, ContractStatuses

(* The calendar never runs backwards, so what is late stays late. *)
LEMMA LateStays ==
  ASSUME today \in Nat, today' \in Nat, today <= today', NEW c \in Contracts, Late(c)
  PROVE  Late(c)'
<1>1. PICK i \in Invoices : Owner[i] = c /\ PastGrace(i)
  BY DEF Late
<1>2. Due[i] \in Nat /\ Grace[c] \in Nat
  BY DueAssumption, GraceAssumption
<1>3. PastGrace(i)'
  BY <1>1, <1>2 DEF PastGrace, IsOverdue, DaysOverdue
<1> QED BY <1>1, <1>3 DEF Late

(* The contracts, the queue and the handlers stay late when nothing but the
   calendar moves.                                                           *)
LEMMA LateUnchanged ==
  ASSUME today' = today, NEW c \in Contracts
  PROVE  Late(c)' <=> Late(c)
  BY DEF Late, PastGrace, IsOverdue, DaysOverdue

(* A worker's new record that is well formed and late keeps WorkLate. *)
LEMMA WorkUpdate ==
  ASSUME WorkLate, today' = today, NEW p \in Workers, NEW next \in WorkRecords,
         work' = [work EXCEPT ![p] = next],
         next.row = "SUSPENDED" => Late(next.contract)
  PROVE  WorkLate'
<1>1. work' \in [Workers -> WorkRecords]
  BY DEF WorkLate
<1>2. ASSUME NEW q \in Workers, work'[q].row = "SUSPENDED"
      PROVE  (Late(work[q].contract))'
  <2>1. PICK c \in Contracts : c = work'[q].contract
    BY <1>1 DEF WorkRecords
  <2>2. CASE q = p
    <3>1. work'[q] = next
      BY <2>2 DEF WorkLate
    <3>2. Late(c)
      BY <1>2, <2>1, <3>1
    <3> QED BY <2>1, <3>2, LateUnchanged
  <2>3. CASE q # p
    <3>1. work'[q] = work[q]
      BY <2>3 DEF WorkLate
    <3>2. Late(c)
      BY <1>2, <2>1, <3>1 DEF WorkLate
    <3> QED BY <2>1, <3>2, LateUnchanged
  <2> QED BY <2>2, <2>3
<1> QED BY <1>1, <1>2 DEF WorkLate

(* What a step leaves alone stays as it was, while the calendar stands. *)
LEMMA ContractsStay ==
  ASSUME ContractsOK, today' = today, UNCHANGED contract
  PROVE  ContractsOK'
  BY LateUnchanged DEF ContractsOK

(* The same for what the cycle holds. *)
LEMMA CycleStays ==
  ASSUME CycleLate, today' = today, UNCHANGED cycle
  PROVE  CycleLate'
<1>1. \A c \in Contracts : Late(c)' <=> Late(c)
  BY LateUnchanged
<1> QED BY <1>1 DEF CycleLate, Shape

(* The same for what a request or an event handler holds. *)
LEMMA WorkStays ==
  ASSUME WorkLate, today' = today, UNCHANGED work
  PROVE  WorkLate'
<1>1. \A c \in Contracts : Late(c)' <=> Late(c)
  BY LateUnchanged
<1>2. \A p \in Workers : work[p].contract \in Contracts
  BY DEF WorkLate, WorkRecords
<1> QED BY <1>1, <1>2 DEF WorkLate

-----------------------------------------------------------------------------
(* A cycle that is well formed and suspends only late contracts keeps
   CycleLate while the calendar stands.                                      *)
LEMMA CycleLateUpdate ==
  ASSUME today' = today, NEW next, cycle' = next,
         Shape(next), next.pc \in CyclePcs, next.queue \subseteq Contracts,
         next.current \in Contracts, \A c \in next.queue : Late(c),
         next.pc \in {"switch", "save", "episode"} => Late(next.current)
  PROVE  CycleLate'
<1>1. \A c \in Contracts : Late(c)' <=> Late(c)
  BY LateUnchanged
<1> QED BY <1>1 DEF CycleLate, Shape

(* The end of a cycle, or a restart, forgets every suspension to come. *)
LEMMA NoCycleLate == Shape(NoCycle) /\ NoCycle.queue = {} /\ NoCycle.pc = "idle"
                       /\ NoCycle.current \in Contracts
  BY AContract DEF NoCycle, Shape

(* Each step of the daily cycle suspends only contracts that are late. *)
LEMMA CycleStepInv ==
  ASSUME GraceInv, StartCycle \/ CycleStep
  PROVE  GraceInv'
<1> USE DEF GraceInv, CalendarOK, OwedOK
<1>1. CASE StartCycle
  <2>1. PICK seen, active :
          cycle' = [pc |-> "review", seen |-> seen, active |-> active, queue |-> {},
                    current |-> NoCycle.current]
    BY <1>1 DEF StartCycle
  <2> DEFINE next == [pc |-> "review", seen |-> seen, active |-> active, queue |-> {},
                      current |-> NoCycle.current]
  <2>2. Shape(next) /\ next.pc = "review" /\ next.queue = {} /\ next.current \in Contracts
    BY NoCycleLate DEF Shape
  <2>3. cycle' = next /\ today' = today
    BY <1>1, <2>1 DEF StartCycle
  <2> HIDE DEF next
  <2>4. CycleLate'
    BY <2>2, <2>3, CycleLateUpdate DEF CyclePcs
  <2> QED BY <1>1, <2>4, ContractsStay, WorkStays DEF StartCycle
<1>2. ASSUME NEW i \in Invoices, ReviewOverdue(i) \/ ReviewNotDue(i)
      PROVE  GraceInv'
  <2>1. Owner[i] \in Contracts
    BY OwnerAssumption
  <2>2. PICK next : next = cycle'
    OBVIOUS
  <2>3. /\ Shape(next) /\ next.pc = cycle.pc /\ next.current = cycle.current
        /\ next.queue = cycle.queue \/ (PastGrace(i) /\ next.queue = cycle.queue \cup {Owner[i]})
    BY <1>2, <2>2 DEF ReviewOverdue, ReviewNotDue, Reviewed, CycleLate, Shape
  <2>4. PastGrace(i) => Late(Owner[i])
    BY DEF Late
  <2>5. today' = today
    BY <1>2 DEF ReviewOverdue, ReviewNotDue
  <2>6. CycleLate'
    BY <2>1, <2>2, <2>3, <2>4, <2>5, CycleLateUpdate DEF CycleLate
  <2>7. UNCHANGED <<contract, work, owed>>
    BY <1>2 DEF ReviewOverdue, ReviewNotDue
  <2> QED BY <2>5, <2>6, <2>7, ContractsStay, WorkStays
<1>3. CASE EndReview \/ CycleSwitched \/ CycleOpensEpisode
  <2>1. PICK next : next = cycle'
    OBVIOUS
  <2>2. /\ Shape(next) /\ next.queue = cycle.queue /\ next.current = cycle.current
        /\ next.pc = "suspend" \/ (cycle.pc = "switch" /\ next.pc = "save")
    BY <1>3, <2>1 DEF EndReview, CycleSwitched, CycleOpensEpisode, CycleLate, Shape
  <2>3. UNCHANGED <<today, contract, work, owed>>
    BY <1>3 DEF EndReview, CycleSwitched, CycleOpensEpisode
  <2>4. CycleLate'
    BY <2>1, <2>2, <2>3, CycleLateUpdate DEF CycleLate, CyclePcs
  <2> QED BY <2>3, <2>4, ContractsStay, WorkStays
<1>4. ASSUME NEW c \in Contracts, SuspendNext(c)
      PROVE  GraceInv'
  <2>1. PICK next : next = cycle'
    OBVIOUS
  <2>2. /\ Shape(next) /\ next.queue = cycle.queue \ {c} /\ next.current = c
        /\ next.pc = "switch" /\ Late(c)
    BY <1>4, <2>1 DEF SuspendNext, CycleLate, Shape
  <2>3. UNCHANGED <<today, contract, work, owed>>
    BY <1>4 DEF SuspendNext
  <2>4. CycleLate'
    BY <2>1, <2>2, <2>3, CycleLateUpdate DEF CycleLate, CyclePcs
  <2> QED BY <2>3, <2>4, ContractsStay, WorkStays
<1>5. CASE CycleSaves
  <2>1. PICK next : next = cycle'
    OBVIOUS
  <2>2. /\ Shape(next) /\ next.queue = cycle.queue /\ next.current = cycle.current
        /\ next.pc = "episode" /\ Late(cycle.current)
    BY <1>5, <2>1 DEF CycleSaves, CycleLate, Shape
  <2>3. UNCHANGED <<today, work, owed>>
    BY <1>5 DEF CycleSaves
  <2>4. CycleLate'
    BY <2>1, <2>2, <2>3, CycleLateUpdate DEF CycleLate, CyclePcs
  <2>5. contract' = [contract EXCEPT ![cycle.current] = "SUSPENDED"]
    BY <1>5 DEF CycleSaves
  <2>6. \A c \in Contracts : Late(c)' <=> Late(c)
    BY <2>3, LateUnchanged
  <2>7. ContractsOK'
    BY <2>2, <2>5, <2>6 DEF ContractsOK, ContractStatuses
  <2> QED BY <2>3, <2>4, <2>7, WorkStays
<1>6. CASE EndCycle
  <2>1. UNCHANGED <<today, contract, work, owed>> /\ cycle' = NoCycle
    BY <1>6 DEF EndCycle
  <2>2. CycleLate'
    BY <2>1, NoCycleLate, CycleLateUpdate DEF CyclePcs
  <2> QED BY <2>1, <2>2, ContractsStay, WorkStays
<1> QED BY <1>1, <1>2, <1>3, <1>4, <1>5, <1>6 DEF CycleStep

-----------------------------------------------------------------------------
(* A handler reads, keeps and saves SUSPENDED only for late contracts. *)
LEMMA WorkStepInv ==
  ASSUME GraceInv, NEW p \in Workers, WorkStep(p)
  PROVE  GraceInv'
<1> USE DEF GraceInv, CalendarOK, OwedOK
<1> DEFINE w == work[p]
<1>1. w \in WorkRecords /\ (w.row = "SUSPENDED" => Late(w.contract))
  BY DEF WorkLate
<1>2. ASSUME UNCHANGED <<today, contract, cycle, owed>>,
             NEW next \in WorkRecords, work' = [work EXCEPT ![p] = next],
             next.row = "SUSPENDED" => Late(next.contract)
      PROVE  GraceInv'
  BY <1>2, WorkUpdate, ContractsStay, CycleStays
<1>3. NoWork \in WorkRecords /\ NoWork.row # "SUSPENDED"
  BY NoWorkType
<1>4. CASE ReadContract(p)
  <2>1. UNCHANGED <<today, contract, cycle, owed>>
    BY <1>4 DEF ReadContract
  <2>2. w.contract \in Contracts /\ contract[w.contract] \in ContractStatuses
    BY <1>1 DEF WorkRecords, ContractsOK
  <2>3. AfterRead(w.kind) \in WorkPcs
    BY DEF AfterRead, WorkPcs
  <2>4. CASE contract[w.contract] \in Accepts(w.kind)
    <3> DEFINE next == [w EXCEPT !.pc = AfterRead(w.kind), !.row = contract[w.contract]]
    <3>1. next \in WorkRecords /\ next.row = contract[w.contract] /\ next.contract = w.contract
      BY <1>1, <2>2, <2>3 DEF WorkRecords
    <3>2. work' = [work EXCEPT ![p] = next]
      BY <1>4, <2>4 DEF ReadContract
    <3>3. next.row = "SUSPENDED" => Late(next.contract)
      BY <2>2, <3>1 DEF ContractsOK
    <3> HIDE DEF next
    <3> QED BY <1>2, <2>1, <3>1, <3>2, <3>3
  <2>5. CASE contract[w.contract] \notin Accepts(w.kind)
    <3>1. work' = [work EXCEPT ![p] = NoWork]
      BY <1>4, <2>5 DEF ReadContract
    <3> QED BY <1>2, <1>3, <2>1, <3>1
  <2> QED BY <2>4, <2>5
<1>5. CASE CountOverdue(p) \/ NetworkReturns(p)
  <2>1. UNCHANGED <<today, contract, cycle, owed>>
    BY <1>5 DEF CountOverdue, NetworkReturns
  <2>2. PICK next : /\ work' = [work EXCEPT ![p] = next]
                    /\ \/ next = NoWork
                       \/ next = [w EXCEPT !.pc = "network"]
                       \/ next = [w EXCEPT !.pc = "save"]
    BY <1>5 DEF CountOverdue, NetworkReturns
  <2>3. next \in WorkRecords /\ (next.row = "SUSPENDED" => Late(next.contract))
    BY <1>1, <1>3, <2>2 DEF WorkRecords, WorkPcs
  <2> QED BY <1>2, <2>1, <2>2, <2>3
<1>6. CASE SwitchNetwork(p)
  <2>1. UNCHANGED <<today, contract, cycle, owed, work>>
    BY <1>6 DEF SwitchNetwork, dqVars
  <2> QED BY <2>1, ContractsStay, CycleStays, WorkStays
<1>7. CASE SaveContract(p)
  <2>1. UNCHANGED <<today, cycle, owed>>
    BY <1>7 DEF SaveContract
  <2>2. contract' = [contract EXCEPT ![w.contract] = Saves(w)]
    BY <1>7 DEF SaveContract
  <2>3. w.contract \in Contracts /\ w.row \in ContractStatuses /\ w.kind # "SUSPEND"
    BY <1>1 DEF WorkRecords
  <2>4. Saves(w) \in ContractStatuses /\ (Saves(w) = "SUSPENDED" => w.row = "SUSPENDED")
    BY <2>3 DEF Saves, ContractStatuses
  <2>5. \A c \in Contracts : Late(c)' <=> Late(c)
    BY <2>1, LateUnchanged
  <2>6. ContractsOK'
    BY <1>1, <2>2, <2>3, <2>4, <2>5 DEF ContractsOK
  <2>7. PICK next : /\ work' = [work EXCEPT ![p] = next]
                    /\ \/ next = NoWork
                       \/ next = [w EXCEPT !.pc = "network"]
                       \/ next = [w EXCEPT !.pc = "episode"]
    BY <1>7 DEF SaveContract, AfterSave
  <2>8. next \in WorkRecords /\ (next.row = "SUSPENDED" => Late(next.contract))
    BY <1>1, <1>3, <2>7 DEF WorkRecords, WorkPcs
  <2>9. WorkLate'
    BY <2>1, <2>7, <2>8, WorkUpdate
  <2> QED BY <2>1, <2>6, <2>9, CycleStays
<1>8. CASE RecordEpisode(p)
  <2>1. UNCHANGED <<today, contract, cycle, owed>> /\ work' = [work EXCEPT ![p] = NoWork]
    BY <1>8 DEF RecordEpisode
  <2> QED BY <1>2, <1>3, <2>1
<1> QED BY <1>4, <1>5, <1>6, <1>7, <1>8 DEF WorkStep

(* A handler that starts has read nothing yet. *)
LEMMA StartInv ==
  ASSUME GraceInv, NEW p \in Workers, NEW c \in Contracts, NEW kind \in HandlerKinds \ {"SUSPEND"},
         UNCHANGED <<today, contract, cycle>>, owed' \subseteq Contracts,
         work' = [work EXCEPT ![p] = Starting(c, kind)]
  PROVE  GraceInv'
<1>1. WorkLate'
  BY StartingType, WorkUpdate DEF GraceInv
<1> QED BY <1>1, ContractsStay, CycleStays DEF GraceInv, CalendarOK, OwedOK

(* Every step but a restart keeps the grace, when nobody suspends by hand. *)
LEMMA NextGraceInv ==
  ASSUME "SUSPEND" \notin Kinds, GraceInv, DelinquencyNext
  PROVE  GraceInv'
<1>1. CASE StartCycle \/ CycleStep
  BY <1>1, CycleStepInv
<1>2. ASSUME NEW p \in Workers, NEW c \in Contracts, StartHandler(p, c)
      PROVE  GraceInv'
  <2>1. PICK kind \in Kinds \ {"PAYMENT", "VOID"} : work' = [work EXCEPT ![p] = Starting(c, kind)]
    BY <1>2 DEF StartHandler
  <2>2. kind \in HandlerKinds \ {"SUSPEND"}
    BY <2>1, KindsAssumption
  <2>3. UNCHANGED <<today, contract, cycle, owed>>
    BY <1>2 DEF StartHandler
  <2> QED BY <2>1, <2>2, <2>3, StartInv DEF GraceInv, OwedOK
<1>3. ASSUME NEW p \in Workers, NEW c \in Contracts, HandleInvoicePaid(p, c)
      PROVE  GraceInv'
  BY <1>3, StartInv DEF HandleInvoicePaid, GraceInv, OwedOK, HandlerKinds
<1>4. ASSUME NEW p \in Workers, NEW i \in Invoices, Collect(p, i)
      PROVE  GraceInv'
  <2>1. Owner[i] \in Contracts
    BY OwnerAssumption
  <2> QED BY <1>4, <2>1, StartInv DEF Collect, GraceInv, OwedOK, HandlerKinds
<1>5. ASSUME NEW p \in Workers, WorkStep(p)
      PROVE  GraceInv'
  BY <1>5, WorkStepInv
<1>6. ASSUME NEW i \in Invoices, Void(i)
      PROVE  GraceInv'
  BY <1>6, ContractsStay, CycleStays, WorkStays DEF Void, GraceInv, CalendarOK, OwedOK
<1>7. CASE NextDay
  <2>1. today' \in Nat /\ today <= today' /\ today' <= MaxDay
    BY <1>7, DaysAssumption DEF NextDay, GraceInv, CalendarOK
  <2>2. \A c \in Contracts : Late(c) => Late(c)'
    BY <2>1, LateStays DEF GraceInv, CalendarOK
  <2>3. UNCHANGED <<contract, cycle, work, owed>>
    BY <1>7 DEF NextDay
  <2>4. \A p \in Workers : work[p].contract \in Contracts
    BY DEF GraceInv, WorkLate, WorkRecords
  <2>5. ContractsOK' /\ CycleLate'
    BY <2>2, <2>3 DEF GraceInv, ContractsOK, CycleLate, Shape
  <2>6. WorkLate'
    BY <2>2, <2>3, <2>4 DEF GraceInv, WorkLate
  <2> QED BY <2>1, <2>3, <2>5, <2>6 DEF GraceInv, CalendarOK, OwedOK
<1>8. CASE NetworkStep
  BY <1>8, ContractsStay, CycleStays, WorkStays
     DEF NetworkStep, dqVars, GraceInv, CalendarOK, OwedOK
<1> QED BY <1>1, <1>2, <1>3, <1>4, <1>5, <1>6, <1>7, <1>8 DEF DelinquencyNext

(* A restart forgets whom the cycle and the handlers were about to suspend. *)
LEMMA RestartGraceInv ==
  ASSUME GraceInv, Restart
  PROVE  GraceInv'
<1>1. UNCHANGED <<today, contract>> /\ cycle' = NoCycle /\ owed' = {}
      /\ work' = [p \in Workers |-> NoWork]
  BY DEF Restart
<1>2. CycleLate'
  BY <1>1, NoCycleLate, CycleLateUpdate DEF CyclePcs
<1>3. WorkLate'
  BY <1>1, NoWorkType DEF WorkLate
<1> QED BY <1>1, <1>2, <1>3, ContractsStay DEF GraceInv, CalendarOK, OwedOK

(* Everything starts in service, and nobody is suspended. *)
LEMMA InitGraceInv == DelinquencyInit => GraceInv
<1> SUFFICES ASSUME DelinquencyInit PROVE GraceInv
  OBVIOUS
<1>1. CalendarOK /\ OwedOK
  BY DaysAssumption DEF DelinquencyInit, CalendarOK, OwedOK
<1>2. ContractsOK
  BY DEF DelinquencyInit, ContractsOK, ContractStatuses
<1>3. CycleLate
  BY NoCycleLate DEF DelinquencyInit, CycleLate, CyclePcs
<1>4. WorkLate
  BY NoWorkType DEF DelinquencyInit, WorkLate
<1> QED BY <1>1, <1>2, <1>3, <1>4 DEF GraceInv

(* Nobody is suspended for not paying before the grace of one of the invoices
   has run out: the cycle acts on what it read hours ago, handlers overlap it,
   stale contracts are saved and the process restarts, and still nobody is.  *)
THEOREM NobodyIsCutEarly == DelinquencySpec => []GraceIsRespected
<1>1. CASE "SUSPEND" \in Kinds
  <2>1. GraceIsRespected
    BY <1>1 DEF GraceIsRespected
  <2> QED BY <2>1, PTL
<1>2. CASE "SUSPEND" \notin Kinds
  <2>1. GraceInv /\ [DelinquencyNext \/ Restart]_vars => GraceInv'
    <3> SUFFICES ASSUME GraceInv, [DelinquencyNext \/ Restart]_vars PROVE GraceInv'
      OBVIOUS
    <3>1. CASE UNCHANGED vars
      BY <3>1, ContractsStay, CycleStays, WorkStays
         DEF vars, dqVars, GraceInv, CalendarOK, OwedOK
    <3> QED BY <1>2, <3>1, NextGraceInv, RestartGraceInv
  <2>2. GraceInv => GraceIsRespected
    BY DEF GraceInv, ContractsOK, GraceIsRespected, Late
  <2> QED BY <2>1, <2>2, InitGraceInv, PTL DEF DelinquencySpec
<1> QED BY <1>1, <1>2

-----------------------------------------------------------------------------
(* Types *)

Work == [pc : WorkPcs, kind : HandlerKinds, contract : Contracts, row : ContractStatuses]

(* The kinds of handler that switch the network, and the one that counts. *)
WorkRight ==
  \A p \in Workers :
    /\ work[p].pc = "network" =>
         work[p].kind \in {"SUSPEND", "REACTIVATE", "PAYMENT", "RETRY", "TERMINATE"}
    /\ work[p].pc = "count" => work[p].kind = "PAYMENT"
    /\ work[p].pc # "idle" => work[p].kind # "VOID"

RecordsOK ==
  /\ today \in 0..MaxDay /\ ran \in {"YES", "NO"}
  /\ contract \in [Contracts -> ContractStatuses]
  /\ invoice \in [Invoices -> Invoice]
  /\ episodes \in [Contracts -> Seq({"CRON_MOROSIDAD", "MANUAL"})]
  /\ owed \subseteq Contracts

WorkOK == work \in [Workers -> Work] /\ WorkRight

CycleInv ==
  /\ CycleOK
  /\ cycle = [pc |-> cycle.pc, seen |-> cycle.seen, active |-> cycle.active,
              queue |-> cycle.queue, current |-> cycle.current]

TypesInv == TypeInv /\ RecordsOK /\ WorkOK /\ CycleInv

(* What leaves the network alone keeps its types. *)
LEMMA NetworkIdle == UNCHANGED scVars /\ TypeInv => TypeInv'
  BY NextTypeInv DEF scVars

(* A handler or the cycle begins an operation. *)
LEMMA BeginTypes ==
  ASSUME TypeInv, NEW p \in Callers, NEW c \in Contracts, NEW op \in Ops, NEW process \in Processes,
         Begin(p, c, op, process), UNCHANGED <<access, secret, online, jobs, doubt, dropped>>
  PROVE  TypeInv'
<1>1. Requested(c, op, process) \in Call /\ Requested(c, op, process).pc # "probe"
  BY CallTypes DEF Requested
<1>2. call' \in [Callers -> Call] /\ ProbesSwitches'
  BY <1>1, CallUpdate DEF Begin
<1>3. overlap' \in [Contracts -> Overlaps]
  BY DEF Begin, TypeInv, TypeOK, Overlaps
<1> QED BY <1>2, <1>3 DEF TypeInv, TypeOK

(* A handler or the cycle takes the result of one. *)
LEMMA ReturnTypes ==
  ASSUME TypeInv, NEW p \in Callers, Return(p)
  PROVE  TypeInv'
  BY NextTypeInv DEF Next, ProcessNext

(* So do the steps of the operations and of the devices. *)
LEMMA NetworkTypes == TypeInv /\ NetworkStep => TypeInv'
  BY NextTypeInv DEF NetworkStep, Next, ProcessNext

(* A restart forgets the calls. *)
LEMMA RestartTypes == TypeInv /\ Restart => TypeInv'
  BY CallTypes DEF Restart, Unqueued, TypeInv, TypeOK, ProbesSwitches

(* A review makes an invoice due, in grace or past it. *)
LEMMA StatusTypes ==
  /\ OpenStatuses \subseteq {"PENDING_PAYMENT", "EN_GRACIA", "VENCIDA"}
  /\ \A i \in Invoices : TargetStatus(i) \in OpenStatuses
  BY DEF OpenStatuses, TargetStatus

(* A cycle put together from well-typed parts is well typed. *)
LEMMA CycleUpdate ==
  ASSUME NEW pc \in CyclePcs, NEW seen, DOMAIN seen \subseteq Invoices,
         \A i \in DOMAIN seen : seen[i] \in Invoice,
         NEW active \in SUBSET Contracts, NEW queue \in SUBSET Contracts, NEW current \in Contracts,
         cycle' = [pc |-> pc, seen |-> seen, active |-> active, queue |-> queue, current |-> current]
  PROVE  CycleInv'
  BY DEF CycleInv, CycleOK

(* The cycle that does not run is well typed. *)
LEMMA NoCycleInv == cycle' = NoCycle => CycleInv'
<1>1. NoCall.contract \in Contracts
  BY CallTypes DEF Call
<1>2. DOMAIN << >> = {}
  OBVIOUS
<1> QED BY <1>1, <1>2, CycleUpdate DEF NoCycle, CyclePcs

(* An invoice with one column rewritten is an invoice. *)
LEMMA InvoiceUpdate ==
  ASSUME invoice \in [Invoices -> Invoice], NEW i \in Invoices, NEW row \in Invoice,
         NEW s \in OpenStatuses \cup {"ISSUED", "VOIDED"}, NEW r \in {"UNSENT", "SENT"}
  PROVE  /\ [row EXCEPT !.status = s] \in Invoice
         /\ [row EXCEPT !.advanceReminder = r] \in Invoice
         /\ [invoice EXCEPT ![i] = row] \in [Invoices -> Invoice]
  BY DEF Invoice

(* Opening and closing an episode leave a history. *)
LEMMA OpenedTypes ==
  ASSUME RecordsOK, NEW c \in Contracts, NEW process \in {"CRON_MOROSIDAD", "MANUAL"}
  PROVE  /\ Opened(c, process) \in [Contracts -> Seq({"CRON_MOROSIDAD", "MANUAL"})]
         /\ Closed(c) \in [Contracts -> Seq({"CRON_MOROSIDAD", "MANUAL"})]
<1> DEFINE P == {"CRON_MOROSIDAD", "MANUAL"}
<1>1. episodes \in [Contracts -> Seq(P)] /\ episodes[c] \in Seq(P)
  BY DEF RecordsOK
<1>2. Append(episodes[c], process) \in Seq(P)
  BY <1>1
<1>3. episodes[c] # << >> => Front(episodes[c]) \in Seq(P)
  <2>1. SUFFICES ASSUME episodes[c] # << >> PROVE Front(episodes[c]) \in Seq(P)
    OBVIOUS
  <2>2. Len(episodes[c]) \in Nat /\ Len(episodes[c]) > 0
    BY <1>1, <2>1
  <2>3. \A j \in 1..(Len(episodes[c]) - 1) : episodes[c][j] \in P
    BY <1>1, <2>2
  <2> QED BY <1>1, <2>2, <2>3 DEF Front
<1> HIDE DEF P
<1> QED BY <1>1, <1>2, <1>3 DEF Opened, Closed, P

-----------------------------------------------------------------------------
(* Steps of the cycle *)

(* The cycle keeps every type. *)
LEMMA CycleTypes ==
  ASSUME TypesInv, StartCycle \/ CycleStep
  PROVE  TypesInv'
<1> USE DEF TypesInv
<1>0. /\ cycle.pc \in CyclePcs /\ DOMAIN cycle.seen \subseteq Invoices
      /\ \A i \in DOMAIN cycle.seen : cycle.seen[i] \in Invoice
      /\ cycle.active \in SUBSET Contracts /\ cycle.queue \in SUBSET Contracts
      /\ cycle.current \in Contracts
  BY DEF CycleInv, CycleOK
<1>1. CASE StartCycle
  <2> DEFINE open == {i \in Invoices : IsOpen(i)}
             seen == [i \in open |-> invoice[i]]
             active == {c \in Contracts : contract[c] = "ACTIVE"}
  <2>1. cycle' = [pc |-> "review", seen |-> seen, active |-> active, queue |-> {},
                  current |-> NoCycle.current]
    BY <1>1 DEF StartCycle
  <2>2. NoCycle.current \in Contracts
    BY CallTypes DEF NoCycle, Call
  <2>3. DOMAIN seen \subseteq Invoices /\ \A i \in DOMAIN seen : seen[i] \in Invoice
    BY DEF RecordsOK
  <2>4. "review" \in CyclePcs /\ active \in SUBSET Contracts /\ {} \in SUBSET Contracts
    BY DEF CyclePcs
  <2> HIDE DEF seen, active
  <2>5. CycleInv'
    BY <2>1, <2>2, <2>3, <2>4, CycleUpdate
  <2> QED BY <1>1, <2>5, NetworkIdle DEF StartCycle, RecordsOK, WorkOK, WorkRight
<1>2. ASSUME NEW i \in Invoices, ReviewOverdue(i) \/ ReviewNotDue(i)
      PROVE  TypesInv'
  <2> DEFINE seen == [j \in DOMAIN cycle.seen \ {i} |-> cycle.seen[j]]
  <2>1. PICK queue : /\ queue \in {cycle.queue, cycle.queue \cup {Owner[i]}}
                     /\ cycle' = [pc |-> cycle.pc, seen |-> seen, active |-> cycle.active,
                                  queue |-> queue, current |-> cycle.current]
    BY <1>2 DEF ReviewOverdue, ReviewNotDue, Reviewed, CycleInv
  <2>2. Owner[i] \in Contracts
    BY OwnerAssumption
  <2>3. DOMAIN seen \subseteq Invoices /\ \A j \in DOMAIN seen : seen[j] \in Invoice
    BY <1>0
  <2>4. CycleInv'
    <3> HIDE DEF seen
    <3> QED BY <1>0, <2>1, <2>2, <2>3, CycleUpdate
  <2>5. invoice' \in [Invoices -> Invoice]
    <3>1. i \in DOMAIN cycle.seen /\ cycle.seen[i] \in Invoice /\ invoice \in [Invoices -> Invoice]
      BY <1>0, <1>2 DEF ReviewOverdue, ReviewNotDue, RecordsOK
    <3>2. TargetStatus(i) \in OpenStatuses \cup {"ISSUED", "VOIDED"}
      BY StatusTypes
    <3>3. /\ [cycle.seen[i] EXCEPT !.status = TargetStatus(i)] \in Invoice
          /\ [cycle.seen[i] EXCEPT !.advanceReminder = "SENT"] \in Invoice
      BY <3>1, <3>2, InvoiceUpdate
    <3> QED BY <1>2, <3>1, <3>3, InvoiceUpdate DEF ReviewOverdue, ReviewNotDue
  <2> QED BY <1>2, <2>4, <2>5, NetworkIdle
          DEF ReviewOverdue, ReviewNotDue, RecordsOK, WorkOK, WorkRight
<1>3. CASE EndReview \/ CycleSaves
  <2>1. PICK pc \in CyclePcs :
          cycle' = [pc |-> pc, seen |-> cycle.seen, active |-> cycle.active,
                    queue |-> cycle.queue, current |-> cycle.current]
    BY <1>3 DEF EndReview, CycleSaves, CycleInv, CyclePcs
  <2>2. CycleInv'
    BY <1>0, <2>1, CycleUpdate
  <2>3. contract' \in [Contracts -> ContractStatuses]
    BY <1>0, <1>3 DEF EndReview, CycleSaves, RecordsOK, ContractStatuses
  <2> QED BY <1>3, <2>2, <2>3, NetworkIdle DEF EndReview, CycleSaves, RecordsOK, WorkOK, WorkRight
<1>4. ASSUME NEW c \in Contracts, SuspendNext(c)
      PROVE  TypesInv'
  <2>1. cycle' = [pc |-> "switch", seen |-> cycle.seen, active |-> cycle.active,
                  queue |-> cycle.queue \ {c}, current |-> c]
    BY <1>4 DEF SuspendNext, CycleInv
  <2>2. CycleInv'
    BY <1>0, <2>1, CycleUpdate DEF CyclePcs
  <2>3. TypeInv'
    BY <1>4, CronAssumption, BeginTypes DEF SuspendNext, Ops, Switches, Processes
  <2> QED BY <1>4, <2>2, <2>3 DEF SuspendNext, RecordsOK, WorkOK, WorkRight
<1>5. CASE CycleSwitched
  <2>1. PICK pc \in CyclePcs :
          cycle' = [pc |-> pc, seen |-> cycle.seen, active |-> cycle.active,
                    queue |-> cycle.queue, current |-> cycle.current]
    BY <1>5 DEF CycleSwitched, CycleInv, CyclePcs
  <2>2. CycleInv'
    BY <1>0, <2>1, CycleUpdate
  <2>3. TypeInv'
    BY <1>5, CronAssumption, ReturnTypes DEF CycleSwitched
  <2> QED BY <1>5, <2>2, <2>3 DEF CycleSwitched, RecordsOK, WorkOK, WorkRight
<1>6. CASE CycleOpensEpisode
  <2>1. cycle' = [pc |-> "suspend", seen |-> cycle.seen, active |-> cycle.active,
                  queue |-> cycle.queue, current |-> cycle.current]
    BY <1>6 DEF CycleOpensEpisode, CycleInv
  <2>2. CycleInv'
    BY <1>0, <2>1, CycleUpdate DEF CyclePcs
  <2>3. episodes' \in [Contracts -> Seq({"CRON_MOROSIDAD", "MANUAL"})]
    BY <1>0, <1>6, OpenedTypes DEF CycleOpensEpisode
  <2> QED BY <1>6, <2>2, <2>3, NetworkIdle DEF CycleOpensEpisode, RecordsOK, WorkOK, WorkRight
<1>7. CASE EndCycle
  BY <1>7, NoCycleInv, NetworkIdle DEF EndCycle, RecordsOK, WorkOK, WorkRight
<1> QED BY <1>1, <1>2, <1>3, <1>4, <1>5, <1>6, <1>7 DEF CycleStep

-----------------------------------------------------------------------------
(* Steps of the handlers *)

(* What may be said of the record of one handler. *)
Right(w) ==
  /\ w \in Work
  /\ w.pc = "network" => w.kind \in {"SUSPEND", "REACTIVATE", "PAYMENT", "RETRY", "TERMINATE"}
  /\ w.pc = "count" => w.kind = "PAYMENT"
  /\ w.pc # "idle" => w.kind # "VOID"

(* A well-formed record for one handler keeps all of them so. *)
LEMMA WorkUpdated ==
  ASSUME WorkOK, NEW p \in Workers, NEW next, Right(next), work' = [work EXCEPT ![p] = next]
  PROVE  WorkOK'
  BY DEF WorkOK, WorkRight, Right

(* The record of an idle worker is well formed. *)
LEMMA NoWorkRight == Right(NoWork) /\ NoWork.row \in ContractStatuses
<1>1. NoCall.contract \in Contracts
  BY CallTypes DEF Call
<1> QED BY <1>1 DEF NoWork, Right, Work, WorkPcs, HandlerKinds, ContractStatuses

(* So is that of a handler that starts. *)
LEMMA StartingRight ==
  ASSUME NEW c \in Contracts, NEW kind \in HandlerKinds \ {"VOID"}
  PROVE  Right(Starting(c, kind))
  BY NoWorkRight DEF Starting, NoWork, Right, Work, WorkPcs, ContractStatuses

(* The handlers keep every type. *)
LEMMA WorkTypes ==
  ASSUME TypesInv, NEW p \in Workers, WorkStep(p)
  PROVE  TypesInv'
<1> USE DEF TypesInv
<1> DEFINE w == work[p]
<1>1. Right(w) /\ p \in Callers
  BY DEF WorkOK, WorkRight, Right, Workers
<1>2. w.contract \in Contracts /\ w.row \in ContractStatuses /\ w.kind \in HandlerKinds
  BY <1>1 DEF Right, Work
<1>3. CASE ReadContract(p)
  <2>1. contract[w.contract] \in ContractStatuses
    BY <1>2 DEF RecordsOK
  <2> DEFINE next == [w EXCEPT !.pc = AfterRead(w.kind), !.row = contract[w.contract]]
  <2>2. Right(next)
    BY <1>1, <1>3, <2>1 DEF ReadContract, AfterRead, Right, Work, WorkPcs
  <2>3. work' = [work EXCEPT ![p] = next] \/ work' = [work EXCEPT ![p] = NoWork]
    BY <1>3 DEF ReadContract
  <2> HIDE DEF next
  <2>4. WorkOK'
    BY <2>2, <2>3, NoWorkRight, WorkUpdated
  <2> QED BY <1>3, <2>4, NetworkIdle DEF ReadContract, RecordsOK, CycleInv, CycleOK
<1>4. CASE CountOverdue(p)
  <2> DEFINE next == [w EXCEPT !.pc = "network"]
  <2>1. Right(next)
    BY <1>1, <1>4 DEF CountOverdue, Right, Work, WorkPcs
  <2>2. work' = [work EXCEPT ![p] = next] \/ work' = [work EXCEPT ![p] = NoWork]
    BY <1>4 DEF CountOverdue
  <2> HIDE DEF next
  <2>3. WorkOK'
    BY <2>1, <2>2, NoWorkRight, WorkUpdated
  <2> QED BY <1>4, <2>3, NetworkIdle DEF CountOverdue, RecordsOK, CycleInv, CycleOK
<1>5. CASE SwitchNetwork(p)
  <2>1. PICK op \in Ops, process \in Processes : Begin(p, w.contract, op, process)
    BY <1>1, <1>5 DEF SwitchNetwork, Right, Ops, Switches, Processes
  <2>2. TypeInv'
    BY <1>1, <1>2, <1>5, <2>1, BeginTypes DEF SwitchNetwork
  <2> QED BY <1>5, <2>2
          DEF SwitchNetwork, dqVars, RecordsOK, WorkOK, WorkRight, CycleInv, CycleOK
<1>6. CASE NetworkReturns(p)
  <2> DEFINE next == [w EXCEPT !.pc = "save"]
  <2>1. Right(next)
    BY <1>1, <1>6 DEF NetworkReturns, Right, Work, WorkPcs
  <2>2. work' = [work EXCEPT ![p] = next] \/ work' = [work EXCEPT ![p] = NoWork]
    BY <1>6 DEF NetworkReturns
  <2> HIDE DEF next
  <2>3. WorkOK' /\ TypeInv'
    BY <1>1, <1>6, <2>1, <2>2, NoWorkRight, WorkUpdated, ReturnTypes DEF NetworkReturns
  <2> QED BY <1>6, <2>3 DEF NetworkReturns, RecordsOK, CycleInv, CycleOK
<1>7. CASE SaveContract(p)
  <2>1. Right(AfterSave(w))
    BY <1>1, <1>7, NoWorkRight DEF SaveContract, AfterSave, Right, Work, WorkPcs
  <2>2. WorkOK'
    BY <1>7, <2>1, WorkUpdated DEF SaveContract
  <2>3. Saves(w) \in ContractStatuses
    BY <1>2 DEF Saves, ContractStatuses
  <2>4. contract' \in [Contracts -> ContractStatuses]
    BY <1>2, <1>7, <2>3 DEF SaveContract, RecordsOK
  <2> QED BY <1>7, <2>2, <2>4, NetworkIdle DEF SaveContract, RecordsOK, CycleInv, CycleOK
<1>8. CASE RecordEpisode(p)
  <2>1. WorkOK'
    BY <1>8, NoWorkRight, WorkUpdated DEF RecordEpisode
  <2>2. episodes' \in [Contracts -> Seq({"CRON_MOROSIDAD", "MANUAL"})]
    BY <1>2, <1>8, OpenedTypes DEF RecordEpisode
  <2> QED BY <1>8, <2>1, <2>2, NetworkIdle DEF RecordEpisode, RecordsOK, CycleInv, CycleOK
<1> QED BY <1>3, <1>4, <1>5, <1>6, <1>7, <1>8 DEF WorkStep

(* A handler that starts has read nothing yet. *)
LEMMA StartTypes ==
  ASSUME TypesInv, NEW p \in Workers, NEW c \in Contracts, NEW kind \in HandlerKinds \ {"VOID"},
         work' = [work EXCEPT ![p] = Starting(c, kind)],
         invoice' \in [Invoices -> Invoice], owed' \subseteq Contracts,
         UNCHANGED <<scVars, today, ran, contract, episodes, cycle>>
  PROVE  TypesInv'
<1>1. WorkOK'
  BY StartingRight, WorkUpdated DEF TypesInv
<1> QED BY <1>1, NetworkIdle DEF TypesInv, RecordsOK, CycleInv, CycleOK

(* Nothing that happens breaks a type, a restart included. *)
LEMMA NextTypes ==
  ASSUME TypesInv, DelinquencyNext \/ Restart
  PROVE  TypesInv'
<1> USE DEF TypesInv
<1>1. CASE StartCycle \/ CycleStep
  BY <1>1, CycleTypes
<1>2. ASSUME NEW p \in Workers, NEW c \in Contracts, StartHandler(p, c) \/ HandleInvoicePaid(p, c)
      PROVE  TypesInv'
  <2>1. CASE StartHandler(p, c)
    <3>1. PICK kind \in Kinds \ {"PAYMENT", "VOID"} : work' = [work EXCEPT ![p] = Starting(c, kind)]
      BY <2>1 DEF StartHandler
    <3>2. kind \in HandlerKinds \ {"VOID"}
      BY <3>1, KindsAssumption
    <3> QED BY <2>1, <3>1, <3>2, StartTypes DEF StartHandler, RecordsOK
  <2>2. CASE HandleInvoicePaid(p, c)
    BY <2>2, StartTypes DEF HandleInvoicePaid, RecordsOK, HandlerKinds
  <2> QED BY <1>2, <2>1, <2>2
<1>3. ASSUME NEW i \in Invoices, NEW s \in {"ISSUED", "VOIDED"}
      PROVE  [invoice EXCEPT ![i].status = s] \in [Invoices -> Invoice]
  BY DEF RecordsOK, Invoice
<1>4. ASSUME NEW p \in Workers, NEW i \in Invoices, Collect(p, i)
      PROVE  TypesInv'
  <2>1. Owner[i] \in Contracts
    BY OwnerAssumption
  <2>2. "PAYMENT" \in HandlerKinds \ {"VOID"} /\ owed' \subseteq Contracts
    BY <1>4, <2>1 DEF Collect, RecordsOK, HandlerKinds
  <2> QED BY <1>3, <1>4, <2>1, <2>2, StartTypes DEF Collect
<1>5. ASSUME NEW p \in Workers, WorkStep(p)
      PROVE  TypesInv'
  BY <1>5, WorkTypes
<1>6. ASSUME NEW i \in Invoices, Void(i)
      PROVE  TypesInv'
  BY <1>3, <1>6, NetworkIdle DEF Void, RecordsOK, WorkOK, WorkRight, CycleInv, CycleOK
<1>7. CASE NextDay
  <2>1. today' \in 0..MaxDay
    BY <1>7, DaysAssumption DEF NextDay, RecordsOK
  <2> QED BY <1>7, <2>1, NetworkIdle DEF NextDay, RecordsOK, WorkOK, WorkRight, CycleInv, CycleOK
<1>8. CASE NetworkStep
  BY <1>8, NetworkTypes DEF NetworkStep, dqVars, RecordsOK, WorkOK, WorkRight, CycleInv, CycleOK
<1>9. CASE Restart
  <2>1. WorkOK'
    BY <1>9, NoWorkRight DEF Restart, WorkOK, WorkRight, Right
  <2>2. CycleInv' /\ TypeInv'
    BY <1>9, NoCycleInv, RestartTypes DEF Restart
  <2> QED BY <1>9, <2>1, <2>2 DEF Restart, RecordsOK
<1> QED BY <1>1, <1>2, <1>4, <1>5, <1>6, <1>7, <1>8, <1>9 DEF DelinquencyNext

(* Everything starts well typed. *)
LEMMA InitTypes == DelinquencyInit => TypesInv
<1> SUFFICES ASSUME DelinquencyInit PROVE TypesInv
  OBVIOUS
<1>1. NewRow("ACTIVE") \in Row
  BY NewRowType DEF Statuses
<1>2. 0 \in 0..MaxJobs
  BY MaxJobsAssumption
<1>3. jobs \in [Contracts -> [waiting : 0..MaxJobs, failed : 0..MaxJobs]]
  BY <1>2 DEF DelinquencyInit
<1>4. TypeInv
  <2>1. overlap \in [Contracts -> Overlaps]
    BY DEF DelinquencyInit, Overlaps
  <2> QED
    BY <1>1, <1>3, <2>1, CallTypes DEF DelinquencyInit, TypeInv, TypeOK, ProbesSwitches, Secrets
<1>5. WorkOK
  BY NoWorkRight DEF DelinquencyInit, WorkOK, WorkRight, Right
<1>6. CycleInv
  <2>1. NoCycle.current \in Contracts /\ DOMAIN NoCycle.seen = {}
    BY CallTypes DEF NoCycle, Call
  <2> QED BY <2>1 DEF DelinquencyInit, CycleInv, CycleOK, NoCycle, CyclePcs
<1>7. RecordsOK
  <2>1. today \in 0..MaxDay
    BY DaysAssumption DEF DelinquencyInit
  <2>2. invoice \in [Invoices -> Invoice]
    BY DEF DelinquencyInit, Invoice, OpenStatuses
  <2>3. episodes \in [Contracts -> Seq({"CRON_MOROSIDAD", "MANUAL"})]
    BY DEF DelinquencyInit
  <2> QED BY <2>1, <2>2, <2>3 DEF DelinquencyInit, RecordsOK, ContractStatuses
<1> QED BY <1>4, <1>5, <1>6, <1>7 DEF TypesInv

(* Nothing changes when nothing happens. *)
LEMMA StutterTypes ==
  ASSUME TypesInv, UNCHANGED vars
  PROVE  TypesInv'
  BY NetworkIdle DEF vars, dqVars, TypesInv, RecordsOK, WorkOK, WorkRight, CycleInv, CycleOK

(* Contracts, invoices, episodes, the cycle and the handlers keep their types
   along every overlap of them and across restarts.                          *)
THEOREM DelinquencyTypes == DelinquencySpec => []DelinquencyTypeOK
<1>1. TypesInv /\ [DelinquencyNext \/ Restart]_vars => TypesInv'
  BY NextTypes, StutterTypes
<1>2. TypesInv => DelinquencyTypeOK
  BY DEF TypesInv, TypeInv, RecordsOK, WorkOK, Work, CycleInv, DelinquencyTypeOK
<1> QED BY <1>1, <1>2, InitTypes, PTL DEF DelinquencySpec

-----------------------------------------------------------------------------
(* What a manual operation knows when it saves the contract.  It is the
   status of the access, as long as nobody writes the row between the save of
   the call and that of the handler: the point where Undisturbed is used.     *)

Wanted(kind) == IF kind = "SUSPEND" THEN "SUSPEND" ELSE "RESTORE"
Target(kind) == IF kind = "SUSPEND" THEN "SUSPENDED" ELSE "ACTIVE"

(* An operation on the network belongs to the handler, or cycle, that waits. *)
CallsBelong ==
  /\ \A p \in Workers : ~Idle(p) =>
       /\ work[p].pc = "network"
       /\ call[p].pc # "done" => call[p].contract = work[p].contract
  /\ ~Idle(Cron) => cycle.pc = "switch"

(* How far the call k of a manual handler w has got, r being the access row. *)
Underway(w, k, r) ==
  /\ k.pc \in {"idle", "load", "probe", "exec", "save", "saving", "done"}
  /\ k.pc \in {"load", "probe", "exec", "save", "saving"} =>
       k.op = Wanted(w.kind) /\ k.process = "MANUAL"
  /\ k.pc \in {"save", "saving"} => /\ k.result \in {"applied", "conflict"}
                                    /\ k.result = "applied" => k.row.status = Target(w.kind)
  /\ k.pc = "saving" => k.seen.status = r.status
  /\ k.pc = "done" /\ Medium[w.contract] \in Managed =>
       k.result = "conflict" \/ r.status = Target(w.kind)

Confirmed(w, k, r) ==
  w.kind \in {"SUSPEND", "REACTIVATE"} =>
    /\ w.pc = "network" => Underway(w, k, r)
    /\ w.pc = "save" /\ Medium[w.contract] \in Managed => r.status = Target(w.kind)

ManualInv == \A p \in Workers : Confirmed(work[p], call[p], access[work[p].contract])

ConfirmedInv == TypesInv /\ Undisturbed /\ CallsBelong /\ ManualInv

(* A statement of an operation moves one call and writes one row. *)
LEMMA StepTouches ==
  ASSUME TypesInv, NEW p \in Callers, OperationStep(p)
  PROVE  /\ call[p].pc \notin {"idle", "done"}
         /\ \A q \in Callers : q # p => call'[q] = call[q]
         /\ call'[p].pc # "idle"
         /\ call'[p].pc # "done" => call'[p].contract = call[p].contract
         /\ \A c \in Contracts : c # call[p].contract => access'[c] = access[c]
<1>1. /\ call[p] \in Call /\ access \in [Contracts -> Row] /\ call[p].contract \in Contracts
      /\ call \in [Callers -> Call]
  BY HeldTypes DEF TypesInv, TypeInv, TypeOK
<1>2. \A x \in Results : Finished(x).pc = "done"
  BY DEF Finished, NoCall, Requested
<1>3. \A op \in Ops, process \in Processes, c \in Contracts :
        Requested(c, op, process).pc = "load" /\ Requested(c, op, process).contract = c
  BY DEF Requested
<1>4. call[p].op \in Ops /\ call[p].process \in Processes /\ "SYNC" \in Ops
      /\ call[p].result \in Results
  BY <1>1 DEF Call, Ops
<1>5. {"applied", "conflict", "offline"} \subseteq Results
  BY DEF Results
<1>6. CASE LoadAccess(p)
  BY <1>1, <1>2, <1>5, <1>6 DEF LoadAccess, Loaded, Call
<1>61. CASE SelectRow(p)
  BY <1>1, <1>61 DEF SelectRow, Call
<1>7. CASE SaveConfiguration(p)
  BY <1>1, <1>3, <1>4, <1>7 DEF SaveConfiguration, Call
<1>8. CASE EnsureOnline(p)
  BY <1>1, <1>2, <1>5, <1>8 DEF EnsureOnline, Probed, Call
<1>9. CASE PortSucceeds(p)
  BY <1>1, <1>9 DEF PortSucceeds, Call
<1>10. ASSUME NEW obeyed \in BOOLEAN, PortFails(p, obeyed)
       PROVE  /\ call[p].pc \notin {"idle", "done"} /\ access' = access
              /\ \A q \in Callers : q # p => call'[q] = call[q]
              /\ call'[p].pc # "idle"
              /\ call'[p].pc # "done" => call'[p].contract = call[p].contract
  BY <1>1, <1>10 DEF PortFails, Call
<1>11. CASE SaveAccess(p)
  <2>1. \A op \in Ops, process \in Processes, c \in Contracts :
          /\ [Requested(c, op, process) EXCEPT !.pc = "enqueue"].pc = "enqueue"
          /\ [Requested(c, op, process) EXCEPT !.pc = "enqueue"].contract = c
    BY DEF Requested
  <2>2. Saved(call[p]).pc # "idle"
        /\ (Saved(call[p]).pc # "done" => Saved(call[p]).contract = call[p].contract)
    BY <1>1, <1>2, <1>3, <1>4, <2>1 DEF Saved
  <2> QED BY <1>1, <1>11, <2>2 DEF SaveAccess
<1>12. CASE EnqueueRetry(p)
  BY <1>1, <1>2, <1>5, <1>12 DEF EnqueueRetry
<1> QED BY <1>6, <1>61, <1>7, <1>8, <1>9, <1>10, <1>11, <1>12 DEF OperationStep

(* What a switch becomes when the row has been read. *)
LEMMA LoadedSwitch ==
  ASSUME NEW k \in Call, NEW r \in Row, k.op \in Switches
  PROVE  /\ Medium[k.contract] = "NO_ACCESS" => Loaded(k, r).pc = "done"
         /\ Medium[k.contract] = "NONE" =>
              /\ Loaded(k, r).pc = "save" /\ Loaded(k, r).result = "applied"
              /\ Loaded(k, r).row = Applied(r, k.op)
              /\ Loaded(k, r).op = k.op /\ Loaded(k, r).process = k.process
         /\ Medium[k.contract] \in Equipped =>
              /\ Loaded(k, r).pc = "probe"
              /\ Loaded(k, r).op = k.op /\ Loaded(k, r).process = k.process
<1>1. k.op # "RETRY" /\ k.op # "DEPROVISION" /\ k.op # "SYNC"
  BY DEF Switches
<1>2. ASSUME Medium[k.contract] = "NONE"
      PROVE  /\ Loaded(k, r).pc = "save" /\ Loaded(k, r).result = "applied"
             /\ Loaded(k, r).row = Applied(r, k.op)
             /\ Loaded(k, r).op = k.op /\ Loaded(k, r).process = k.process
  BY <1>1, <1>2 DEF Loaded, Call, Switches, Edits, Equipped, Managed
<1>3. ASSUME Medium[k.contract] \in Equipped
      PROVE  /\ Loaded(k, r).pc = "probe"
             /\ Loaded(k, r).op = k.op /\ Loaded(k, r).process = k.process
  <2>1. Medium[k.contract] # "NONE" /\ Medium[k.contract] # "NO_ACCESS"
    BY <1>3 DEF Equipped, Managed
  <2> QED BY <1>1, <1>3, <2>1 DEF Loaded, Call, Switches, Edits
<1>4. Finished("applied").pc = "done"
  BY DEF Finished, NoCall, Requested
<1> QED BY <1>2, <1>3, <1>4 DEF Loaded

(* A manual call goes on as it should. *)
LEMMA ManualStep ==
  ASSUME ConfirmedInv, NEW p \in Workers, OperationStep(p)
  PROVE  Confirmed(work[p], call'[p], access'[work[p].contract])
<1> DEFINE w == work[p]
           k == call[p]
<1>1. /\ p \in Callers /\ w.contract \in Contracts /\ k \in Call /\ k.row \in Row
      /\ access \in [Contracts -> Row] /\ call \in [Callers -> Call]
  <2>1. p \in Callers /\ w \in Work
    BY DEF Workers, ConfirmedInv, TypesInv, WorkOK
  <2>2. access \in [Contracts -> Row] /\ call \in [Callers -> Call]
    BY DEF ConfirmedInv, TypesInv, TypeInv, TypeOK
  <2> QED BY <2>1, <2>2 DEF Work, Call
<1>2. k.pc \notin {"idle", "done"}
  BY <1>1, StepTouches DEF ConfirmedInv
<1>3. w.pc = "network" /\ k.contract = w.contract
  BY <1>2 DEF ConfirmedInv, CallsBelong, Idle
<1> SUFFICES ASSUME w.kind \in {"SUSPEND", "REACTIVATE"}
             PROVE  Underway(w, call'[p], access'[w.contract])
  BY <1>3 DEF Confirmed
<1>4. Underway(w, k, access[w.contract])
  BY <1>3 DEF ConfirmedInv, ManualInv, Confirmed
<1>5. k.op = Wanted(w.kind) /\ k.process = "MANUAL"
      /\ k.pc \in {"load", "probe", "exec", "save", "saving"}
  BY <1>2, <1>4 DEF Underway
<1>6. k.op \in Switches /\ k.op # "RETRY" /\ k.op # "DEPROVISION" /\ k.op # "SYNC"
  BY <1>5 DEF Wanted, Switches
<1>7. \A x : Finished(x).pc = "done" /\ Finished(x).result = x
  BY DEF Finished, NoCall, Requested
<1>8. \A r \in Row : Applied(r, k.op).status = Target(w.kind)
  BY <1>5, <1>6 DEF Applied, StatusAfter, Row, Wanted, Target, Switches, Edits
<1>9. CASE LoadAccess(p)
  <2> DEFINE r == access[w.contract]
  <2>1. call'[p] = Loaded(k, r) /\ r \in Row
    BY <1>1, <1>3, <1>9 DEF LoadAccess
  <2>2. CASE Medium[w.contract] = "NO_ACCESS"
    BY <1>1, <1>3, <1>6, <2>1, <2>2, LoadedSwitch DEF Underway, Managed
  <2>3. CASE Medium[w.contract] = "NONE"
    BY <1>1, <1>3, <1>5, <1>6, <1>8, <2>1, <2>3, LoadedSwitch DEF Underway
  <2>4. CASE Medium[w.contract] \in Equipped
    BY <1>1, <1>3, <1>5, <1>6, <2>1, <2>4, LoadedSwitch DEF Underway
  <2>5. Medium[w.contract] \in Media
    BY <1>1, MediumAssumption
  <2> QED BY <2>2, <2>3, <2>4, <2>5 DEF Media, Equipped, Managed
<1>91. CASE SelectRow(p)
  <2> DEFINE n == [k EXCEPT !.pc = "saving", !.seen = access[w.contract]]
  <2>1. k.pc = "save" /\ call'[p] = n /\ access' = access
    BY <1>1, <1>3, <1>5, <1>91 DEF SelectRow
  <2>2. /\ n.pc = "saving" /\ n.seen = access[w.contract] /\ n.op = k.op
        /\ n.process = k.process /\ n.result = k.result /\ n.row = k.row
    BY <1>1 DEF Call
  <2> HIDE DEF n
  <2> QED BY <1>4, <2>1, <2>2 DEF Underway
<1>10. CASE EnsureOnline(p)
  <2>1. call'[p] = [k EXCEPT !.pc = "exec"] \/ call'[p] = Finished("conflict")
    BY <1>1, <1>5, <1>10 DEF EnsureOnline, Probed
  <2> QED BY <1>1, <1>5, <1>7, <2>1 DEF Underway, Call
<1>11. CASE PortSucceeds(p)
  <2>1. call'[p] = [k EXCEPT !.pc = "save", !.result = "applied", !.row = Applied(k.row, k.op)]
    BY <1>1, <1>6, <1>11 DEF PortSucceeds
  <2> QED BY <1>1, <1>5, <1>8, <2>1 DEF Underway, Call
<1>12. ASSUME NEW obeyed \in BOOLEAN, PortFails(p, obeyed)
       PROVE  Underway(w, call'[p], access'[w.contract])
  <2>1. call'[p] = [k EXCEPT !.pc = "save", !.result = "conflict"]
    BY <1>1, <1>5, <1>6, <1>12 DEF PortFails
  <2> QED BY <1>1, <1>5, <2>1 DEF Underway, Call
<1>13. CASE SaveAccess(p)
  <2>1. k.result \in {"applied", "conflict"} /\ (k.result = "applied" => k.row.status = Target(w.kind))
    BY <1>4, <1>13 DEF Underway, SaveAccess
  <2>2. call'[p] = Finished(k.result)
    BY <1>1, <1>6, <1>13, <2>1 DEF SaveAccess, Saved, Switches, Edits
  <2>3. access'[w.contract].status \in {k.row.status, access[w.contract].status}
        /\ (access'[w.contract].status # k.row.status => k.row.status = k.seen.status)
    BY <1>1, <1>3, <1>13 DEF SaveAccess, Merged
  <2>4. access'[w.contract].status = k.row.status
    BY <1>4, <1>13, <2>3 DEF Underway, SaveAccess
  <2> QED BY <1>7, <2>1, <2>2, <2>4 DEF Underway
<1>14. CASE SaveConfiguration(p) \/ EnqueueRetry(p)
  BY <1>5, <1>14 DEF SaveConfiguration, EnqueueRetry
<1> QED BY <1>9, <1>91, <1>10, <1>11, <1>12, <1>13, <1>14 DEF OperationStep

(* A call on the network touches no other handler: those that work on other
   contracts, and none while the cycle has the call.                         *)
LEMMA OthersConfirmed ==
  ASSUME ConfirmedInv, NEW p \in Callers, OperationStep(p), UNCHANGED dqVars,
         NEW q \in Workers, q # p
  PROVE  Confirmed(work'[q], call'[q], access'[work'[q].contract])
<1>1. Confirmed(work[q], call[q], access[work[q].contract]) /\ work' = work
  BY DEF ConfirmedInv, ManualInv, dqVars
<1>2. call'[q] = call[q] /\ call[p].pc \notin {"idle", "done"}
  BY StepTouches DEF ConfirmedInv, Workers
<1>3. CASE work[q].pc = "idle"
  BY <1>1, <1>3 DEF Confirmed
<1>4. CASE work[q].pc # "idle"
  <2>1. p # Cron
    BY <1>2, <1>4 DEF ConfirmedInv, CallsBelong, Undisturbed, Idle, Busy
  <2>2. p \in Workers /\ work[p].pc = "network" /\ call[p].contract = work[p].contract
    BY <1>2, <2>1 DEF ConfirmedInv, CallsBelong, Idle, Workers
  <2>3. work[q].contract # work[p].contract
    BY <1>4, <2>2 DEF ConfirmedInv, Undisturbed, Busy
  <2>4. work[q].contract \in Contracts
    BY DEF ConfirmedInv, TypesInv, WorkOK, Work
  <2>5. access'[work[q].contract] = access[work[q].contract]
    BY <2>2, <2>3, <2>4, StepTouches DEF ConfirmedInv
  <2> QED BY <1>1, <1>2, <2>5
<1> QED BY <1>3, <1>4

(* A handler whose record and call stay, like the row of its contract. *)
LEMMA StaysConfirmed ==
  ASSUME ConfirmedInv, NEW q \in Workers, UNCHANGED access, call'[q] = call[q], work'[q] = work[q]
  PROVE  Confirmed(work'[q], call'[q], access'[work'[q].contract])
  BY DEF ConfirmedInv, ManualInv

(* The network goes on with the calls of all handlers. *)
LEMMA NetworkConfirmed ==
  ASSUME ConfirmedInv, NetworkStep
  PROVE  CallsBelong' /\ ManualInv'
<1>1. UNCHANGED dqVars
  BY DEF NetworkStep
<1>2. ASSUME NEW p \in Callers, OperationStep(p)
      PROVE  CallsBelong' /\ ManualInv'
  <2>1. /\ \A q \in Callers : q # p => call'[q] = call[q]
        /\ call[p].pc \notin {"idle", "done"}
        /\ call'[p].pc # "done" => call'[p].contract = call[p].contract
    BY <1>2, StepTouches DEF ConfirmedInv
  <2>2. CallsBelong'
    BY <1>1, <2>1, CronAssumption DEF ConfirmedInv, CallsBelong, Idle, Workers, dqVars
  <2>3. ASSUME NEW q \in Workers
        PROVE  Confirmed(work'[q], call'[q], access'[work'[q].contract])
    <3>1. CASE q = p
      BY <1>1, <1>2, <3>1, ManualStep DEF dqVars
    <3>2. CASE q # p
      BY <1>1, <1>2, <3>2, OthersConfirmed
    <3> QED BY <3>1, <3>2
  <2> QED BY <2>2, <2>3 DEF ManualInv
<1>3. ASSUME NEW c \in Contracts, RunRetryJob(c) \/ DeviceChanges(c)
      PROVE  CallsBelong' /\ ManualInv'
  <2>1. UNCHANGED <<access, call, work, cycle>>
    BY <1>1, <1>3 DEF RunRetryJob, DeviceChanges, dqVars
  <2> QED BY <2>1 DEF ConfirmedInv, CallsBelong, ManualInv, Idle
<1> QED BY <1>2, <1>3 DEF NetworkStep

(* The cycle works alone, so no manual operation is under way. *)
LEMMA CycleConfirmed ==
  ASSUME ConfirmedInv, StartCycle \/ CycleStep
  PROVE  CallsBelong' /\ ManualInv'
<1>1. UNCHANGED <<access, work>>
  BY DEF StartCycle, CycleStep, ReviewOverdue, ReviewNotDue, EndReview, SuspendNext, CycleSwitched,
         Return, CycleSaves, CycleOpensEpisode, EndCycle, scVars
<1>2. \A q \in Workers : call'[q] = call[q]
  <2>1. call \in [Callers -> Call]
    BY DEF ConfirmedInv, TypesInv, TypeInv, TypeOK
  <2> QED BY <2>1
      DEF StartCycle, CycleStep, ReviewOverdue, ReviewNotDue, EndReview, SuspendNext, CycleSwitched,
          Return, Begin, CycleSaves, CycleOpensEpisode, EndCycle, scVars, Workers
<1>3. call'[Cron].pc # "idle" => cycle'.pc = "switch"
  <2>1. cycle = [pc |-> cycle.pc, seen |-> cycle.seen, active |-> cycle.active,
                 queue |-> cycle.queue, current |-> cycle.current]
    BY DEF ConfirmedInv, TypesInv, CycleInv
  <2>2. call[Cron].pc # "idle" => cycle.pc = "switch"
    BY DEF ConfirmedInv, CallsBelong, Idle
  <2>3. call \in [Callers -> Call] /\ NoCall.pc = "idle"
    BY CallTypes DEF ConfirmedInv, TypesInv, TypeInv, TypeOK
  <2>4. CASE CycleSwitched
    BY <2>3, <2>4, CronAssumption DEF CycleSwitched, Return
  <2>5. ASSUME NEW c \in Contracts, SuspendNext(c) PROVE cycle'.pc = "switch"
    BY <2>1, <2>5 DEF SuspendNext
  <2>6. CASE \/ StartCycle \/ EndReview \/ CycleSaves \/ CycleOpensEpisode \/ EndCycle
             \/ \E i \in Invoices : ReviewOverdue(i) \/ ReviewNotDue(i)
    <3>1. call' = call /\ cycle.pc # "switch"
      BY <2>6 DEF StartCycle, ReviewOverdue, ReviewNotDue, EndReview, CycleSaves,
                  CycleOpensEpisode, EndCycle, scVars
    <3> QED BY <2>2, <3>1
  <2> QED BY <2>4, <2>5, <2>6 DEF CycleStep
<1>4. CallsBelong'
  BY <1>1, <1>2, <1>3 DEF ConfirmedInv, CallsBelong, Idle
<1>5. ManualInv'
  BY <1>1, <1>2, StaysConfirmed DEF ManualInv
<1> QED BY <1>4, <1>5

(* A step of one handler that leaves the calls alone. *)
LEMMA QuietConfirmed ==
  ASSUME ConfirmedInv, NEW p \in Workers, NEW next, work' = [work EXCEPT ![p] = next],
         UNCHANGED <<access, call, cycle>>, work[p].pc # "network",
         next.kind \in {"SUSPEND", "REACTIVATE"} => next.pc # "save"
  PROVE  CallsBelong' /\ ManualInv'
<1>1. Idle(p) /\ work \in [Workers -> Work]
  BY DEF ConfirmedInv, CallsBelong, TypesInv, WorkOK
<1>2. CallsBelong'
  BY <1>1 DEF ConfirmedInv, CallsBelong, Idle
<1>3. ASSUME NEW q \in Workers
      PROVE  Confirmed(work'[q], call'[q], access'[work'[q].contract])
  <2>1. CASE q = p
    BY <1>1, <2>1 DEF Confirmed, Underway, Idle
  <2>2. CASE q # p
    BY <1>1, <2>2, StaysConfirmed
  <2> QED BY <2>1, <2>2
<1> QED BY <1>2, <1>3 DEF ManualInv

(* One handler takes a step. *)
LEMMA WorkConfirmed ==
  ASSUME ConfirmedInv, NEW p \in Workers, WorkStep(p)
  PROVE  CallsBelong' /\ ManualInv'
<1> DEFINE w == work[p]
<1>1. /\ p \in Callers /\ Right(w) /\ work \in [Workers -> Work] /\ call \in [Callers -> Call]
      /\ p # Cron
  BY DEF ConfirmedInv, TypesInv, TypeInv, TypeOK, WorkOK, WorkRight, Right, Workers
<1>2. NoWork.pc = "idle" /\ NoWork.kind = "EDIT"
  BY DEF NoWork
<1>3. w = [pc |-> w.pc, kind |-> w.kind, contract |-> w.contract, row |-> w.row]
  BY <1>1 DEF Work
<1>4. CASE ReadContract(p) \/ CountOverdue(p) \/ SaveContract(p) \/ RecordEpisode(p)
  <2>1. PICK next : next = work'[p]
    OBVIOUS
  <2>2. /\ work' = [work EXCEPT ![p] = next] /\ w.pc # "network"
        /\ UNCHANGED <<access, call, cycle>>
    BY <1>1, <1>4, <2>1
       DEF ReadContract, CountOverdue, SaveContract, RecordEpisode, scVars
  <2>3. next.kind \in {"SUSPEND", "REACTIVATE"} => next.pc # "save"
    BY <1>1, <1>2, <1>3, <1>4, <2>1
       DEF ReadContract, AfterRead, CountOverdue, SaveContract, AfterSave, RecordEpisode
  <2> QED BY <2>2, <2>3, QuietConfirmed
<1>5. CASE SwitchNetwork(p)
  <2>1. PICK k : k = call'[p]
    OBVIOUS
  <2>2. /\ \A q \in Callers : q # p => call'[q] = call[q]
        /\ UNCHANGED <<access, work, cycle>> /\ w.pc = "network"
        /\ k.pc = "load" /\ k.contract = w.contract
        /\ w.kind \in {"SUSPEND", "REACTIVATE"} => k.op = Wanted(w.kind) /\ k.process = "MANUAL"
    <3>1. PICK op \in Ops, process \in Processes :
            /\ Begin(p, w.contract, op, process)
            /\ w.kind \in {"SUSPEND", "REACTIVATE"} => op = Wanted(w.kind) /\ process = "MANUAL"
      BY <1>1, <1>5 DEF SwitchNetwork, Right, Ops, Switches, Processes, Wanted
    <3>2. call' = [call EXCEPT ![p] = Requested(w.contract, op, process)]
      BY <3>1 DEF Begin
    <3> QED BY <1>1, <1>5, <2>1, <3>1, <3>2 DEF SwitchNetwork, Requested, dqVars
  <2>3. CallsBelong'
    BY <1>1, <2>1, <2>2, CronAssumption DEF ConfirmedInv, CallsBelong, Idle, Workers
  <2>4. ASSUME NEW q \in Workers
        PROVE  Confirmed(work'[q], call'[q], access'[work'[q].contract])
    <3>1. CASE q = p
      BY <2>1, <2>2, <3>1 DEF Confirmed, Underway
    <3>2. CASE q # p
      BY <2>2, <3>2, StaysConfirmed DEF Workers
    <3> QED BY <3>1, <3>2
  <2> QED BY <2>3, <2>4 DEF ManualInv
<1>6. CASE NetworkReturns(p)
  <2>1. PICK next : next = work'[p]
    OBVIOUS
  <2>2. /\ \A q \in Callers : q # p => call'[q] = call[q]
        /\ \A q \in Workers : q # p => work'[q] = work[q]
        /\ UNCHANGED <<access, cycle>> /\ w.pc = "network"
        /\ call'[p].pc = "idle" /\ call[p].pc = "done"
    BY <1>1, <1>6, CallTypes DEF NetworkReturns, Return
  <2>3. \/ next = NoWork
        \/ next = [w EXCEPT !.pc = "save"] /\ call[p].result # "conflict"
    BY <1>1, <1>6, <2>1 DEF NetworkReturns
  <2>4. CallsBelong'
    BY <1>1, <2>2, CronAssumption DEF ConfirmedInv, CallsBelong, Idle, Workers
  <2>5. Confirmed(next, call'[p], access[next.contract])
    <3>1. CASE next = NoWork
      BY <1>2, <3>1 DEF Confirmed
    <3>2. CASE next = [w EXCEPT !.pc = "save"] /\ call[p].result # "conflict"
      <4>1. Confirmed(w, call[p], access[w.contract])
        BY DEF ConfirmedInv, ManualInv
      <4> QED BY <1>3, <2>2, <3>2, <4>1 DEF Confirmed, Underway
    <3> QED BY <2>3, <3>1, <3>2
  <2>6. ASSUME NEW q \in Workers
        PROVE  Confirmed(work'[q], call'[q], access'[work'[q].contract])
    <3>1. CASE q = p
      BY <2>1, <2>2, <2>5, <3>1
    <3>2. CASE q # p
      BY <2>2, <3>2, StaysConfirmed DEF Workers
    <3> QED BY <3>1, <3>2
  <2> QED BY <2>4, <2>6 DEF ManualInv
<1> QED BY <1>4, <1>5, <1>6 DEF WorkStep

(* Every step keeps what the manual operations know. *)
LEMMA NextConfirmed ==
  ASSUME ConfirmedInv, DelinquencyNext, Undisturbed'
  PROVE  ConfirmedInv'
<1>1. TypesInv'
  BY NextTypes DEF ConfirmedInv
<1>2. ASSUME NEW p \in Workers, ~Busy(p), NEW c \in Contracts, NEW kind \in HandlerKinds,
             work' = [work EXCEPT ![p] = Starting(c, kind)], UNCHANGED <<access, call, cycle>>
      PROVE  CallsBelong' /\ ManualInv'
  BY <1>2, QuietConfirmed DEF Busy, Starting, NoWork
<1>3. ASSUME UNCHANGED <<access, call, work, cycle>>
      PROVE  CallsBelong' /\ ManualInv'
  BY <1>3 DEF ConfirmedInv, CallsBelong, ManualInv, Idle
<1>4. CASE StartCycle \/ CycleStep
  BY <1>1, <1>4, CycleConfirmed DEF ConfirmedInv
<1>5. ASSUME NEW p \in Workers, NEW c \in Contracts, StartHandler(p, c)
      PROVE  CallsBelong' /\ ManualInv'
  BY <1>2, <1>5, KindsAssumption DEF StartHandler, scVars
<1>6. ASSUME NEW p \in Workers, NEW c \in Contracts, HandleInvoicePaid(p, c)
      PROVE  CallsBelong' /\ ManualInv'
  BY <1>2, <1>6 DEF HandleInvoicePaid, scVars, HandlerKinds
<1>7. ASSUME NEW p \in Workers, NEW i \in Invoices, Collect(p, i)
      PROVE  CallsBelong' /\ ManualInv'
  BY <1>2, <1>7, OwnerAssumption DEF Collect, scVars, HandlerKinds
<1>8. ASSUME NEW p \in Workers, WorkStep(p)
      PROVE  CallsBelong' /\ ManualInv'
  BY <1>8, WorkConfirmed
<1>9. CASE NextDay \/ \E i \in Invoices : Void(i)
  BY <1>1, <1>3, <1>9 DEF NextDay, Void, scVars, ConfirmedInv
<1>10. CASE NetworkStep
  BY <1>1, <1>10, NetworkConfirmed DEF ConfirmedInv
<1> QED BY <1>1, <1>4, <1>5, <1>6, <1>7, <1>8, <1>9, <1>10 DEF DelinquencyNext, ConfirmedInv

(* At the start nobody has called. *)
LEMMA InitConfirmed == DelinquencyInit => ConfirmedInv
<1> SUFFICES ASSUME DelinquencyInit PROVE ConfirmedInv
  OBVIOUS
<1>1. \A p \in Callers : call[p].pc = "idle"
  BY CallTypes DEF DelinquencyInit
<1>2. cycle.pc = "idle" /\ \A p \in Workers : work[p].pc = "idle"
  BY DEF DelinquencyInit, NoCycle, NoWork
<1> QED BY <1>1, <1>2, InitTypes, CronAssumption
    DEF ConfirmedInv, Undisturbed, CallsBelong, ManualInv, Confirmed, Idle, Busy, Workers

(* A manual suspension or reconnection changes the contract only after it has
   been confirmed and recorded, whatever fails, when handlers of one contract
   do not overlap and the cycle runs alone.                                   *)
THEOREM OfficeIsConfirmed == UndisturbedSpec => []ManualIsConfirmed
<1>1. ConfirmedInv /\ [DelinquencyNext /\ Undisturbed']_vars => ConfirmedInv'
  <2> SUFFICES ASSUME ConfirmedInv, UNCHANGED vars PROVE ConfirmedInv'
    BY NextConfirmed
  <2>1. TypesInv'
    BY StutterTypes DEF ConfirmedInv
  <2> QED BY <2>1
      DEF vars, scVars, dqVars, ConfirmedInv, Undisturbed, CallsBelong, ManualInv, Idle, Busy
<1>2. ConfirmedInv => ManualIsConfirmed
  BY DEF ConfirmedInv, ManualInv, Confirmed, ManualIsConfirmed, Target
<1> QED BY <1>1, <1>2, InitConfirmed, PTL DEF UndisturbedSpec

=============================================================================
