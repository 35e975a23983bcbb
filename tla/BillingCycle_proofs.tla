------------------------- MODULE BillingCycle_proofs -------------------------
(***************************************************************************)
(* Proofs about BillingCycle, for any calendar, contracts, billing days and *)
(* runs at the same time: its types, that a contract owes one invoice of a *)
(* month, that its first invoice is fair, and that no month that is over   *)
(* was forgotten.                                                          *)
(*                                                                         *)
(* The last of these is the one that needs an invariant of its own,        *)
(* Remembered: it speaks of the nights that are past, and of the one that  *)
(* is running, where the property speaks of months that are over.          *)
(***************************************************************************)
EXTENDS BillingCycle, TLAPS

-----------------------------------------------------------------------------
(* Dates *)

LEMMA TargetIsADay ==
  ASSUME NEW m \in Months, NEW b \in BillingDays
  PROVE  /\ Target(m, b) \in 1..Length[m]
         /\ [month |-> m, day |-> Target(m, b)] \in Dates
<1>1. Length[m] \in Nat \ {0} /\ b \in Nat \ {0}
  BY CalendarAssumption DEF Months
<1>2. Target(m, b) \in 1..Length[m]
  BY <1>1 DEF Target, Minimum
<1> QED BY <1>1, <1>2 DEF Dates

LEMMA FirstIsADate == FirstOfAll \in Dates
<1>1. 1 \in Months /\ Length[1] \in Nat \ {0}
  BY CalendarAssumption DEF Months
<1> QED BY <1>1 DEF FirstOfAll, Dates

LEMMA TomorrowIsADate ==
  ASSUME NEW d \in Dates, ~IsLast(d)
  PROVE  Tomorrow(d) \in Dates
<1>1. /\ Length \in Seq(Nat \ {0}) /\ d.month \in 1..Len(Length)
      /\ d.day \in 1..Length[d.month] /\ Length[d.month] \in Nat
      /\ d = [month |-> d.month, day |-> d.day]
  BY CalendarAssumption DEF Months, Dates
<1>2. CASE d.day < Length[d.month]
  BY <1>1, <1>2 DEF Tomorrow, Dates, Months
<1>3. CASE ~(d.day < Length[d.month])
  <2>1. d.month # Len(Length)
    BY <1>1, <1>3 DEF IsLast
  <2>2. d.month + 1 \in Months /\ Length[d.month + 1] \in Nat \ {0}
    BY <1>1, <2>1 DEF Months
  <2> QED BY <1>3, <2>2 DEF Tomorrow, Dates
<1> QED BY <1>2, <1>3

(* What is before tomorrow is before today, or today. *)
LEMMA NothingBetween ==
  ASSUME NEW d \in Dates, NEW e \in Dates, ~IsLast(d), Before(e, Tomorrow(d))
  PROVE  Before(e, d) \/ e = d
<1>1. /\ Length \in Seq(Nat \ {0})
      /\ d.month \in 1..Len(Length) /\ d.day \in 1..Length[d.month]
      /\ e.month \in 1..Len(Length) /\ e.day \in 1..Length[e.month]
      /\ Length[d.month] \in Nat /\ Length[e.month] \in Nat
      /\ d = [month |-> d.month, day |-> d.day] /\ e = [month |-> e.month, day |-> e.day]
  BY CalendarAssumption DEF Months, Dates
<1>2. CASE d.day < Length[d.month]
  <2>1. Tomorrow(d).month = d.month /\ Tomorrow(d).day = d.day + 1
    BY <1>1, <1>2 DEF Tomorrow
  <2> QED BY <1>1, <2>1 DEF Before
<1>3. CASE ~(d.day < Length[d.month])
  <2>1. Tomorrow(d).month = d.month + 1 /\ Tomorrow(d).day = 1
    BY <1>1, <1>3 DEF Tomorrow
  <2>2. e.month <= d.month
    BY <1>1, <2>1 DEF Before
  <2>3. d.day = Length[d.month]
    BY <1>1, <1>3
  <2> QED BY <1>1, <2>2, <2>3 DEF Before
<1> QED BY <1>2, <1>3

-----------------------------------------------------------------------------
(* Types *)

LEMMA FirstShareType ==
  ASSUME NEW start \in Dates, NEW policy
  PROVE  /\ FirstShare(start, policy) \in Invoice
         /\ FirstShare(start, policy).days <= FirstShare(start, policy).cycle
         /\ FirstShare(start, policy).days + start.day <= Length[start.month] + 1
         /\ FirstShare(start, policy).first
<1>1. start.month \in Months /\ start.day \in 1..Length[start.month]
  BY DEF Dates
<1>2. Length[start.month] \in Nat \ {0}
  BY <1>1, CalendarAssumption DEF Months
<1>3. Cycle(policy, start.month) \in Nat \ {0}
  BY <1>2, CalendarAssumption DEF Cycle
<1> QED BY <1>1, <1>2, <1>3 DEF FirstShare, Invoice, Minimum

LEMMA FullMonthType == FullMonth \in Invoice
  BY DEF FullMonth, Invoice

LEMMA InitTypes == Init => BillTypeOK
<1>1. [c \in Contracts |-> [m \in Months |-> <<>>]] \in [Contracts -> [Months -> Seq(Invoice)]]
  OBVIOUS
<1> QED BY <1>1, FirstIsADate, PartiesAssumption
        DEF Init, BillTypeOK, Contract, Statuses, Run, Idle

LEMMA NextTypes ==
  ASSUME BillTypeOK, [Next]_vars
  PROVE  BillTypeOK'
<1> USE DEF BillTypeOK
<1>0. Idle \in Run
  BY FirstIsADate DEF Idle, Run
<1>1. CASE StartNight
  BY <1>1, PartiesAssumption DEF StartNight, Read, Run, Dates
<1>2. CASE NightIsLost
  BY <1>2 DEF NightIsLost, Dates
<1>3. CASE NextDay
  BY <1>3, TomorrowIsADate, PartiesAssumption DEF NextDay
<1>4. CASE Crash
  <2>1. \A c \in Contracts : LostFirst(c) \subseteq Months
    BY DEF LostFirst, Contract, Dates
  <2>2. excused' \in [Contracts -> SUBSET Months]
    BY <1>4, <2>1 DEF Crash, Dates
  <2>3. run' \in [Workers -> Run] /\ \A w \in Workers : run'[w] = Idle
    BY <1>4, <1>0 DEF Crash
  <2> QED BY <1>4, <2>2, <2>3, PartiesAssumption DEF Crash, Idle
<1>5. ASSUME NEW w \in Workers, Steps(w) PROVE BillTypeOK'
  <2>0. run[w] \in Run /\ run[w] = [busy |-> run[w].busy, date |-> run[w].date,
                                    due |-> run[w].due, now |-> run[w].now]
    BY DEF Run
  <2>1. CASE StartRun(w)
    BY <2>1, <2>0, PartiesAssumption DEF StartRun, Read, Run
  <2>2. CASE Look(w)
    <3>1. PICK c \in run[w].due, n \in Contracts \cup {NoContract} :
             Takes(w, c, n) /\ n \in {c, NoContract}
      BY <2>0, <2>2 DEF Look, Run
    <3> DEFINE left == [busy |-> TRUE, date |-> run[w].date, due |-> run[w].due \ {c}, now |-> n]
    <3>a. run' = [run EXCEPT ![w] = left]
      BY <3>1 DEF Takes
    <3>2. run' \in [Workers -> Run] /\ left \in Run
      BY <2>0, <3>a DEF Run
    <3>3. run'[w].now \notin run'[w].due /\ run'[w].busy = run[w].busy
      BY <2>0, <2>2, <3>1, <3>a, PartiesAssumption DEF Look, Run
    <3>4. run[w].busy /\ \A v \in Workers : v # w => run'[v] = run[v]
      BY <2>2, <3>a DEF Look
    <3>5. \A v \in Workers : (run'[v].now \notin run'[v].due) /\ (~run'[v].busy => run'[v] = Idle)
      BY <3>3, <3>4
    <3>6. run'[Cron].busy = run[Cron].busy
      BY <3>3, <3>4, PartiesAssumption
    <3> QED BY <2>2, <3>2, <3>5, <3>6 DEF Look
  <2>3. CASE Insert(w)
    <3> DEFINE c == run[w].now
               m == run[w].date.month
    <3>1. c \in Contracts /\ m \in Months /\ billed[c] \in [Months -> Seq(Invoice)]
      BY <2>0, <2>3 DEF Insert, Run, Dates
    <3>2. Append(billed[c][m], FullMonth) \in Seq(Invoice)
      BY <3>1, FullMonthType
    <3>3. billed' \in [Contracts -> [Months -> Seq(Invoice)]]
      BY <2>3, <3>1, <3>2 DEF Insert
    <3>4. run' = [run EXCEPT ![w].now = NoContract] /\ run[w].busy
      BY <2>3 DEF Insert
    <3>5. run' \in [Workers -> Run] /\ NoContract \notin run[w].due
      BY <2>0, <3>4, PartiesAssumption DEF Run
    <3>6. UNCHANGED <<day, night, contract, opening, excused>>
      BY <2>3 DEF Insert
    <3> QED BY <2>0, <3>3, <3>4, <3>5, <3>6, PartiesAssumption
  <2>4. CASE InsertFails(w)
    <3>1. run[w].now \in Contracts /\ run[w].date.month \in Months
      BY <2>0, <2>4 DEF InsertFails, Run, Dates
    <3>2. excused' \in [Contracts -> SUBSET Months]
      BY <2>4, <3>1 DEF InsertFails
    <3>4. run' = [run EXCEPT ![w].now = NoContract] /\ run[w].busy
      BY <2>4 DEF InsertFails
    <3>5. run' \in [Workers -> Run] /\ NoContract \notin run[w].due
      BY <2>0, <3>4, PartiesAssumption DEF Run
    <3>6. UNCHANGED <<day, night, contract, opening, billed>>
      BY <2>4 DEF InsertFails
    <3> QED BY <2>0, <3>2, <3>4, <3>5, <3>6, PartiesAssumption
  <2>5. CASE Finish(w)
    BY <2>5, <1>0, PartiesAssumption DEF Finish, Idle
  <2> QED BY <1>5, <2>1, <2>2, <2>3, <2>4, <2>5 DEF Steps
<1>6. ASSUME NEW c \in Contracts, Office(c) PROVE BillTypeOK'
  <2>0. contract[c] \in Contract
    OBVIOUS
  <2>1. CASE AddContract(c)
    <3>1. PICK start \in Dates :
             contract' = [contract EXCEPT ![c].status = "ACTIVE", ![c].start = start]
      BY <2>1, TomorrowIsADate DEF AddContract
    <3> QED BY <2>0, <2>1, <3>1 DEF AddContract, Contract, Statuses
  <2>2. CASE FirstInvoice(c)
    <3>1. PICK policy \in Policies : billed' =
             IF Admits(c, contract[c].start.month)
             THEN [billed EXCEPT ![c][contract[c].start.month] =
                     Append(@, FirstShare(contract[c].start, policy))]
             ELSE billed
      BY <2>2 DEF FirstInvoice
    <3>2. contract[c].start \in Dates /\ contract[c].start.month \in Months
      BY <2>0 DEF Contract, Dates
    <3>3. billed[c] \in [Months -> Seq(Invoice)]
      OBVIOUS
    <3>4. Append(billed[c][contract[c].start.month], FirstShare(contract[c].start, policy))
            \in Seq(Invoice)
      BY <3>2, <3>3, FirstShareType
    <3>5. billed' \in [Contracts -> [Months -> Seq(Invoice)]]
      BY <3>1, <3>3, <3>4
    <3> QED BY <2>2, <3>5 DEF FirstInvoice
  <2>3. CASE FirstFails(c)
    BY <2>0, <2>3 DEF FirstFails, LostFirst, Contract, Dates
  <2>4. ASSUME NEW before, NEW after \in Statuses, SetStatus(c, before, after)
        PROVE  BillTypeOK'
    BY <2>0, <2>4 DEF SetStatus, Contract
  <2>5. CASE Suspend(c) \/ Reactivate(c) \/ Terminate(c)
    BY <2>4, <2>5 DEF Suspend, Reactivate, Terminate, Statuses
  <2>6. CASE ChangeBillingDay(c)
    <3>1. PICK b \in BillingDays :
             /\ contract' = [contract EXCEPT ![c].billingDay = b]
             /\ excused' = IF IsRead(day.month, b) /\ ~IsRead(day.month, contract[c].billingDay)
                           THEN [excused EXCEPT ![c] = @ \cup {day.month}] ELSE excused
      BY <2>6 DEF ChangeBillingDay
    <3>2. contract' \in [Contracts -> Contract]
      BY <2>0, <3>1 DEF Contract
    <3>3. excused' \in [Contracts -> SUBSET Months]
      BY <3>1 DEF Dates
    <3> QED BY <2>6, <3>2, <3>3 DEF ChangeBillingDay
  <2>7. CASE \E m \in Months : VoidInvoice(c, m)
    <3>0. PICK m \in Months : VoidInvoice(c, m)
      BY <2>7
    <3>1. PICK i \in Live(c, m) : billed' = [billed EXCEPT ![c][m][i].status = "VOIDED"]
      BY <3>0 DEF VoidInvoice
    <3>2. billed[c] \in [Months -> Seq(Invoice)] /\ billed[c][m] \in Seq(Invoice) /\ i \in DOMAIN billed[c][m]
      BY <3>1 DEF Live
    <3>3. billed[c][m][i] \in Invoice
      BY <3>2
    <3>4. [billed[c][m][i] EXCEPT !.status = "VOIDED"] \in Invoice
      BY <3>3 DEF Invoice
    <3>5. [billed[c][m] EXCEPT ![i] = [@ EXCEPT !.status = "VOIDED"]] \in Seq(Invoice)
      BY <3>2, <3>4
    <3>7. billed' \in [Contracts -> [Months -> Seq(Invoice)]]
      BY <3>1, <3>2, <3>5
    <3> QED BY <2>7, <3>7 DEF VoidInvoice
  <2> QED BY <1>6, <2>1, <2>2, <2>3, <2>5, <2>6, <2>7 DEF Office
<1>7. CASE UNCHANGED vars
  BY <1>7 DEF vars
<1> QED BY <1>1, <1>2, <1>3, <1>4, <1>5, <1>6, <1>7 DEF Next

(* The rows of the contracts and of the invoices, and the dates and the steps of
   the runs, are what they should be: a run takes every contract once.       *)
THEOREM BillingTypes == Spec => []BillTypeOK
<1> QED BY InitTypes, NextTypes, PTL DEF Spec

-----------------------------------------------------------------------------
(* What a step does to the rows *)

Inserts(c, m, bill) ==
  /\ billed' = [billed EXCEPT ![c][m] = Append(@, bill)]
  /\ Live(c, m) = {} /\ bill \in Invoice

Shares(c, m, bill) ==
  /\ c \in opening /\ m = contract[c].start.month
  /\ bill.days <= bill.cycle
  /\ bill.days + contract[c].start.day <= Length[m] + 1

(* Rows of invoices only come, where none is live, and are voided. *)
LEMMA BilledStep ==
  ASSUME BillTypeOK, [Next]_vars
  PROVE  \/ UNCHANGED billed
         \/ \E c \in Contracts, m \in Months, bill \in Invoice :
              /\ Inserts(c, m, bill) /\ UNCHANGED contract
              /\ bill.first => Shares(c, m, bill)
         \/ \E c \in Contracts, m \in Months : \E i \in Live(c, m) :
              billed' = [billed EXCEPT ![c][m][i].status = "VOIDED"] /\ UNCHANGED contract
<1>1. CASE \E w \in Workers : Insert(w)
  <2>1. PICK w \in Workers : Insert(w)
    BY <1>1
  <2> DEFINE c == run[w].now
             m == run[w].date.month
  <2>2. c \in Contracts /\ m \in Months
    BY <2>1 DEF Insert, BillTypeOK, Run, Dates
  <2>3. CASE Admits(c, m)
    <3>1. Inserts(c, m, FullMonth) /\ UNCHANGED contract
      BY <2>1, <2>3, FullMonthType DEF Insert, Inserts, Admits
    <3>2. ~FullMonth.first
      BY DEF FullMonth
    <3> QED BY <2>2, <3>1, <3>2, FullMonthType
  <2>4. CASE ~Admits(c, m)
    BY <2>1, <2>4 DEF Insert
  <2> QED BY <2>3, <2>4
<1>2. CASE \E c \in Contracts : FirstInvoice(c)
  <2>1. PICK c \in Contracts : FirstInvoice(c)
    BY <1>2
  <2> DEFINE start == contract[c].start
  <2>2. PICK policy \in Policies : billed' =
          IF Admits(c, start.month)
          THEN [billed EXCEPT ![c][start.month] = Append(@, FirstShare(start, policy))]
          ELSE billed
    BY <2>1 DEF FirstInvoice
  <2>3. start \in Dates /\ start.month \in Months
    BY DEF BillTypeOK, Contract, Dates
  <2>4. CASE Admits(c, start.month)
    <3>1. Inserts(c, start.month, FirstShare(start, policy))
      BY <2>2, <2>3, <2>4, FirstShareType DEF Inserts, Admits
    <3>2. Shares(c, start.month, FirstShare(start, policy))
      BY <2>1, <2>3, FirstShareType DEF Shares, FirstInvoice
    <3>3. UNCHANGED contract
      BY <2>1 DEF FirstInvoice
    <3> QED BY <2>3, <3>1, <3>2, <3>3, FirstShareType
  <2>5. CASE ~Admits(c, start.month)
    BY <2>2, <2>5
  <2> QED BY <2>4, <2>5
<1>3. CASE \E c \in Contracts, m \in Months : VoidInvoice(c, m)
  <2>1. PICK c \in Contracts, m \in Months : VoidInvoice(c, m)
    BY <1>3
  <2>2. \E i \in Live(c, m) : billed' = [billed EXCEPT ![c][m][i].status = "VOIDED"]
    BY <2>1 DEF VoidInvoice
  <2>3. UNCHANGED contract
    BY <2>1 DEF VoidInvoice
  <2> QED BY <2>2, <2>3
<1>4. CASE StartNight \/ NightIsLost \/ NextDay \/ Crash \/ UNCHANGED vars
  BY <1>4 DEF StartNight, NightIsLost, NextDay, Crash, vars
<1>5. CASE \E w \in Workers : StartRun(w) \/ Look(w) \/ InsertFails(w) \/ Finish(w)
  BY <1>5 DEF StartRun, Look, InsertFails, Finish
<1>6. CASE \E c \in Contracts : \/ AddContract(c) \/ FirstFails(c) \/ Suspend(c) \/ Reactivate(c)
                               \/ Terminate(c) \/ ChangeBillingDay(c)
  BY <1>6 DEF AddContract, FirstFails, Suspend, Reactivate, Terminate, SetStatus, ChangeBillingDay
<1> QED BY <1>1, <1>2, <1>3, <1>4, <1>5, <1>6 DEF Next, Steps, Office

Keeps(c) ==
  /\ contract'[c].start = contract[c].start
  /\ contract'[c].status = "NONE" <=> contract[c].status = "NONE"
  /\ c \in opening' => c \in opening

Born(c) ==
  /\ contract[c].status = "NONE" /\ contract'[c].status = "ACTIVE"
  /\ UNCHANGED <<billed, day, night, run, excused>>
  /\ contract'[c].start.month >= day.month /\ c \in opening'

(* A contract keeps its start, and stays one, from the moment it is created. *)
LEMMA ContractStep ==
  ASSUME BillTypeOK, [Next]_vars, NEW c \in Contracts
  PROVE  Keeps(c) \/ Born(c)
<1> USE DEF BillTypeOK, Keeps, Born
<1>0. contract[c] \in Contract
  OBVIOUS
<1>1. CASE StartNight \/ NightIsLost \/ NextDay \/ Crash \/ UNCHANGED vars
  BY <1>1 DEF StartNight, NightIsLost, NextDay, Crash, vars
<1>2. CASE \E w \in Workers : Steps(w)
  BY <1>2 DEF Steps, StartRun, Look, Insert, InsertFails, Finish
<1>3. ASSUME NEW d \in Contracts, Office(d)
      PROVE  Keeps(c) \/ Born(c)
  <2>0. contract[d] \in Contract
    OBVIOUS
  <2>1. CASE AddContract(d)
    <3>1. PICK start \in {day, IF IsLast(day) THEN day ELSE Tomorrow(day)} :
             contract' = [contract EXCEPT ![d].status = "ACTIVE", ![d].start = start]
      BY <2>1 DEF AddContract
    <3>2. start.month >= day.month
      <4>1. day.month \in Nat
        BY CalendarAssumption DEF Dates, Months
      <4>2. Tomorrow(day).month \in {day.month, day.month + 1}
        BY DEF Tomorrow, Dates
      <4> QED BY <4>1, <4>2
    <3> QED BY <2>0, <2>1, <3>1, <3>2 DEF AddContract, Contract
  <2>2. CASE FirstInvoice(d) \/ FirstFails(d)
    BY <2>2 DEF FirstInvoice, FirstFails
  <2>3. CASE Suspend(d) \/ Reactivate(d) \/ Terminate(d)
    BY <2>0, <2>3 DEF Suspend, Reactivate, Terminate, SetStatus, Contract
  <2>4. CASE ChangeBillingDay(d)
    BY <2>0, <2>4 DEF ChangeBillingDay, Contract
  <2>5. CASE \E m \in Months : VoidInvoice(d, m)
    BY <2>5 DEF VoidInvoice
  <2> QED BY <1>3, <2>1, <2>2, <2>3, <2>4, <2>5 DEF Office
<1> QED BY <1>1, <1>2, <1>3 DEF Next

-----------------------------------------------------------------------------
(* One invoice of a month, and a fair one *)

(* A contract that does not exist has no first invoice, nor one on its way. *)
Unborn ==
  \A c \in Contracts : contract[c].status = "NONE" =>
    /\ c \notin opening
    /\ \A m \in Months : \A i \in DOMAIN billed[c][m] : ~billed[c][m][i].first

RowsInv == BillTypeOK /\ OneInvoicePerPeriod /\ FirstChargeIsFair /\ Unborn

LEMMA InitRows == Init => RowsInv
<1> SUFFICES ASSUME Init PROVE RowsInv
  OBVIOUS
<1>1. BillTypeOK
  BY InitTypes
<1>2. \A c \in Contracts, m \in Months : billed[c][m] = <<>> /\ DOMAIN billed[c][m] = {}
  BY DEF Init
<1> QED BY <1>1, <1>2 DEF Init, RowsInv, OneInvoicePerPeriod, FirstChargeIsFair, Unborn, Live

RowKept(c, m) == billed'[c][m] = billed[c][m]

RowAdded(c, m) ==
  \E bill \in Invoice :
    /\ billed'[c][m] = Append(billed[c][m], bill) /\ Live(c, m) = {}
    /\ UNCHANGED contract
    /\ bill.first => Shares(c, m, bill)

RowVoided(c, m) ==
  \E i \in Live(c, m) :
    /\ billed'[c][m] = [billed[c][m] EXCEPT ![i] = [@ EXCEPT !.status = "VOIDED"]]
    /\ UNCHANGED contract

(* A step in terms of one contract and month: nothing, a new row or a void one. *)
LEMMA RowStep ==
  ASSUME BillTypeOK, [Next]_vars, NEW c \in Contracts, NEW m \in Months
  PROVE  RowKept(c, m) \/ RowAdded(c, m) \/ RowVoided(c, m)
<1> USE DEF RowKept, RowAdded, RowVoided
<1>0. billed \in [Contracts -> [Months -> Seq(Invoice)]]
  BY DEF BillTypeOK
<1>1. CASE UNCHANGED billed
  BY <1>1
<1>2. ASSUME NEW d \in Contracts, NEW n \in Months, NEW bill \in Invoice,
             Inserts(d, n, bill), UNCHANGED contract, bill.first => Shares(d, n, bill)
      PROVE  RowKept(c, m) \/ RowAdded(c, m) \/ RowVoided(c, m)
  BY <1>0, <1>2 DEF Inserts
<1>3. ASSUME NEW d \in Contracts, NEW n \in Months, NEW i \in Live(d, n),
             billed' = [billed EXCEPT ![d][n][i].status = "VOIDED"], UNCHANGED contract
      PROVE  RowKept(c, m) \/ RowAdded(c, m) \/ RowVoided(c, m)
  BY <1>0, <1>3
<1> QED BY <1>1, <1>2, <1>3, BilledStep

LEMMA NextUnique ==
  ASSUME BillTypeOK, OneInvoicePerPeriod, [Next]_vars
  PROVE  OneInvoicePerPeriod'
<1> SUFFICES ASSUME NEW c \in Contracts, NEW m \in Months
             PROVE  \A i, j \in Live(c, m)' : i = j
  BY DEF OneInvoicePerPeriod
<1>0. billed[c][m] \in Seq(Invoice) /\ \A i, j \in Live(c, m) : i = j
  BY DEF BillTypeOK, OneInvoicePerPeriod
<1>1. CASE RowKept(c, m)
  BY <1>0, <1>1 DEF RowKept, Live
<1>2. CASE RowAdded(c, m)
  <2>1. PICK bill \in Invoice : billed'[c][m] = Append(billed[c][m], bill) /\ Live(c, m) = {}
    BY <1>2 DEF RowAdded
  <2>2. \A i \in DOMAIN billed[c][m] : billed'[c][m][i] = billed[c][m][i] /\ i \notin Live(c, m)'
    BY <1>0, <2>1 DEF Live
  <2>3. \A i \in Live(c, m)' : i = Len(billed[c][m]) + 1
    BY <1>0, <2>1, <2>2 DEF Live
  <2> QED BY <2>3
<1>3. CASE RowVoided(c, m)
  <2>1. PICK i \in Live(c, m) :
           billed'[c][m] = [billed[c][m] EXCEPT ![i] = [@ EXCEPT !.status = "VOIDED"]]
    BY <1>3 DEF RowVoided
  <2>2. \A j \in Live(c, m)' : j \in Live(c, m)
    BY <1>0, <2>1 DEF Live
  <2> QED BY <1>0, <2>2
<1> QED BY <1>1, <1>2, <1>3, RowStep

(* What is new in a row, and what is left of it. *)
LEMMA FirstRows ==
  ASSUME BillTypeOK, [Next]_vars, NEW c \in Contracts, NEW m \in Months,
         NEW i \in DOMAIN billed'[c][m], billed'[c][m][i].first
  PROVE  \/ i \in DOMAIN billed[c][m] /\ billed[c][m][i].first
            /\ billed'[c][m][i].days = billed[c][m][i].days
            /\ billed'[c][m][i].cycle = billed[c][m][i].cycle
         \/ Shares(c, m, billed'[c][m][i]) /\ UNCHANGED contract
<1>0. billed[c][m] \in Seq(Invoice)
  BY DEF BillTypeOK
<1>1. CASE RowKept(c, m)
  BY <1>1 DEF RowKept
<1>2. CASE RowAdded(c, m)
  <2>1. PICK bill \in Invoice :
           /\ billed'[c][m] = Append(billed[c][m], bill) /\ UNCHANGED contract
           /\ bill.first => Shares(c, m, bill)
    BY <1>2 DEF RowAdded
  <2>2. CASE i \in DOMAIN billed[c][m]
    BY <1>0, <2>1, <2>2
  <2>3. CASE i \notin DOMAIN billed[c][m]
    <3>1. billed'[c][m][i] = bill
      BY <1>0, <2>1, <2>3
    <3> QED BY <2>1, <3>1
  <2> QED BY <2>2, <2>3
<1>3. CASE RowVoided(c, m)
  <2>1. PICK j \in Live(c, m) :
           billed'[c][m] = [billed[c][m] EXCEPT ![j] = [@ EXCEPT !.status = "VOIDED"]]
    BY <1>3 DEF RowVoided
  <2>2. j \in DOMAIN billed[c][m] /\ i \in DOMAIN billed[c][m] /\ billed[c][m][j] \in Invoice
    BY <1>0, <2>1 DEF Live
  <2>3. CASE i = j
    <3>1. billed'[c][m][i] = [billed[c][m][i] EXCEPT !.status = "VOIDED"]
      BY <1>0, <2>1, <2>2, <2>3
    <3> QED BY <2>2, <2>3, <3>1 DEF Invoice
  <2>4. CASE i # j
    BY <1>0, <2>1, <2>2, <2>4
  <2> QED BY <2>3, <2>4
<1> QED BY <1>1, <1>2, <1>3, RowStep

LEMMA NextUnborn ==
  ASSUME BillTypeOK, Unborn, [Next]_vars
  PROVE  Unborn'
<1> SUFFICES ASSUME NEW c \in Contracts, contract'[c].status = "NONE"
             PROVE  /\ c \notin opening'
                    /\ \A m \in Months : \A i \in DOMAIN billed'[c][m] : ~billed'[c][m][i].first
  BY DEF Unborn
<1>1. Keeps(c)
  BY ContractStep DEF Born
<1>2. /\ c \notin opening /\ c \notin opening'
      /\ \A m \in Months : \A i \in DOMAIN billed[c][m] : ~billed[c][m][i].first
  BY <1>1 DEF Keeps, Unborn
<1>3. ASSUME NEW m \in Months, NEW i \in DOMAIN billed'[c][m], billed'[c][m][i].first
      PROVE  FALSE
  BY <1>2, <1>3, FirstRows DEF Shares
<1> QED BY <1>2, <1>3

LEMMA NextFair ==
  ASSUME RowsInv, [Next]_vars
  PROVE  FirstChargeIsFair'
<1> USE DEF RowsInv
<1> SUFFICES ASSUME NEW c \in Contracts, NEW m \in Months, NEW i \in DOMAIN billed'[c][m],
                    billed'[c][m][i].first
             PROVE  /\ contract'[c].start.month = m
                    /\ billed'[c][m][i].days <= billed'[c][m][i].cycle
                    /\ billed'[c][m][i].days + contract'[c].start.day <= Length[m] + 1
  BY DEF FirstChargeIsFair
<1>1. CASE Shares(c, m, billed'[c][m][i]) /\ UNCHANGED contract
  BY <1>1 DEF Shares
<1>2. CASE i \in DOMAIN billed[c][m] /\ billed[c][m][i].first
           /\ billed'[c][m][i].days = billed[c][m][i].days
           /\ billed'[c][m][i].cycle = billed[c][m][i].cycle
  <2>1. contract[c].status # "NONE"
    BY <1>2 DEF Unborn
  <2>2. contract'[c].start = contract[c].start
    BY <2>1, ContractStep DEF Keeps, Born
  <2> QED BY <1>2, <2>2 DEF FirstChargeIsFair
<1> QED BY <1>1, <1>2, FirstRows

LEMMA RowsAlways == Spec => []RowsInv
<1>1. RowsInv /\ [Next]_vars => RowsInv'
  BY NextTypes, NextUnique, NextUnborn, NextFair DEF RowsInv
<1> QED BY InitRows, <1>1, PTL DEF Spec

(* The office may run the cycle while the night does, restart the server in the
   middle and void what it finds: a contract owes one invoice of a month.    *)
THEOREM OneInvoiceOfAMonth == Spec => []OneInvoicePerPeriod
<1>1. RowsInv => OneInvoicePerPeriod
  BY DEF RowsInv
<1> QED BY <1>1, RowsAlways, PTL

(* In every calendar, under every policy, a first invoice charges no more than
   a month and no more days than are left of it.                             *)
THEOREM FirstInvoicesAreFair == Spec => []FirstChargeIsFair
<1>1. RowsInv => FirstChargeIsFair
  BY DEF RowsInv
<1> QED BY <1>1, RowsAlways, PTL

-----------------------------------------------------------------------------
(* No month is forgotten *)

(* The run of the night still has the contract to do, or in hand. *)
InHand(c, m) ==
  night = "running" /\ m = day.month /\ c \in run[Cron].due \cup {run[Cron].now}

Expected(c, m) ==
  /\ contract[c].status # "NONE" /\ contract[c].start.month <= m
  /\ c \notin opening /\ m \notin excused[c]
  /\ IsRead(m, contract[c].billingDay)

Remembered ==
  /\ \A c \in Contracts, m \in Months : Expected(c, m) => billed[c][m] # <<>> \/ InHand(c, m)
  /\ \A c \in opening : contract[c].status # "NONE" /\ contract[c].start.month >= day.month
  /\ run[Cron].busy => run[Cron].date = day

MemoryInv == BillTypeOK /\ Remembered

LEMMA DaysAreNumbers ==
  ASSUME BillTypeOK, NEW c \in Contracts
  PROVE  /\ day.month \in Nat /\ day.day \in Nat /\ day.month \in Months
         /\ contract[c].start.month \in Nat /\ contract[c].start.month \in Months
         /\ contract[c].billingDay \in BillingDays
         /\ \A m \in Months : m \in Nat
  BY CalendarAssumption DEF BillTypeOK, Contract, Dates, Months

(* Only a month that has begun has had the night of its billing day. *)
LEMMA ReadHasBegun ==
  ASSUME BillTypeOK, NEW m \in Months, NEW b \in BillingDays, IsRead(m, b)
  PROVE  m <= day.month
<1>1. day.month \in Nat /\ m \in Nat
  BY CalendarAssumption DEF BillTypeOK, Dates, Months
<1>2. CASE Before([month |-> m, day |-> Target(m, b)], day)
  BY <1>1, <1>2 DEF Before
<1>3. CASE [month |-> m, day |-> Target(m, b)] = day
  BY <1>1, <1>3
<1> QED BY <1>2, <1>3 DEF IsRead

(* A month that is over has had it. *)
LEMMA OverIsRead ==
  ASSUME NEW m, NEW b, m < day.month
  PROVE  IsRead(m, b)
  BY DEF IsRead, Before

(* The nights that are read are so whatever happens but a night, a new day
   or another billing day.                                                  *)
LEMMA SameNights ==
  ASSUME NEW m, NEW b, UNCHANGED day, night' = "due" <=> night = "due"
  PROVE  IsRead(m, b)' <=> IsRead(m, b)
  BY DEF IsRead, Before, Target

(* Without its first invoice a contract still has the nights to come. *)
LEMMA WithoutFirst ==
  ASSUME BillTypeOK, Remembered, NEW c \in opening, NEW m \in Months,
         contract[c].start.month <= m, m \notin LostFirst(c)
  PROVE  ~IsRead(m, contract[c].billingDay)
<1>1. SUFFICES ASSUME IsRead(m, contract[c].billingDay) PROVE FALSE
  OBVIOUS
<1>2. c \in Contracts /\ contract[c].start.month >= day.month
  BY DEF BillTypeOK, Remembered
<1>3. m <= day.month
  BY <1>1, <1>2, DaysAreNumbers, ReadHasBegun
<1>4. m = contract[c].start.month
  BY <1>2, <1>3, DaysAreNumbers
<1> QED BY <1>1, <1>4 DEF LostFirst

LEMMA RowsStay ==
  ASSUME BillTypeOK, [Next]_vars, NEW c \in Contracts, NEW m \in Months, billed[c][m] # <<>>
  PROVE  billed'[c][m] # <<>>
<1>1. billed[c][m] \in Seq(Invoice) /\ Len(billed[c][m]) > 0
  BY DEF BillTypeOK
<1>2. CASE RowKept(c, m)
  BY <1>2 DEF RowKept
<1>3. CASE RowAdded(c, m)
  BY <1>1, <1>3 DEF RowAdded
<1>4. CASE RowVoided(c, m)
  <2>1. PICK i \in Live(c, m) :
           billed'[c][m] = [billed[c][m] EXCEPT ![i] = [@ EXCEPT !.status = "VOIDED"]]
    BY <1>4 DEF RowVoided
  <2>2. i \in DOMAIN billed[c][m] /\ DOMAIN billed'[c][m] = DOMAIN billed[c][m]
    BY <2>1 DEF Live
  <2> QED BY <2>2
<1> QED BY <1>2, <1>3, <1>4, RowStep

(* A step that leaves the nights, the contracts and the list of the night as
   they are forgets nothing.                                               *)
LEMMA QuietStep ==
  ASSUME BillTypeOK, Remembered, [Next]_vars, UNCHANGED <<day, night>>,
         opening' = opening, \A c \in Contracts : excused[c] \subseteq excused'[c],
         \A c \in Contracts : /\ contract'[c].status = "NONE" <=> contract[c].status = "NONE"
                              /\ contract'[c].start = contract[c].start
                              /\ contract'[c].billingDay = contract[c].billingDay,
         run'[Cron] = run[Cron]
  PROVE  Remembered'
<1>1. \A c \in Contracts, m \in Months : Expected(c, m)' => Expected(c, m)
  <2> SUFFICES ASSUME NEW c \in Contracts, NEW m \in Months, Expected(c, m)'
               PROVE  Expected(c, m)
    OBVIOUS
  <2>1. contract'[c].billingDay = contract[c].billingDay /\ excused[c] \subseteq excused'[c]
    OBVIOUS
  <2>2. IsRead(m, contract[c].billingDay)
    BY <2>1 DEF Expected, IsRead, Before, Target
  <2>3. /\ contract[c].status # "NONE" /\ contract[c].start.month <= m
        /\ c \notin opening /\ m \notin excused[c]
    BY <2>1 DEF Expected
  <2> QED BY <2>2, <2>3 DEF Expected
<1>2. \A c \in Contracts, m \in Months : InHand(c, m) => InHand(c, m)'
  BY DEF InHand
<1>3. \A c \in Contracts, m \in Months : Expected(c, m)' => (billed[c][m] # <<>> \/ InHand(c, m))'
  BY <1>1, <1>2, RowsStay DEF Remembered
<1>4. ASSUME NEW c \in opening'
      PROVE  contract'[c].status # "NONE" /\ contract'[c].start.month >= day'.month
  <2>1. c \in Contracts /\ contract[c].status # "NONE" /\ contract[c].start.month >= day.month
    BY DEF Remembered, BillTypeOK
  <2> QED BY <2>1
<1>5. run'[Cron].busy => run'[Cron].date = day'
  BY DEF Remembered
<1> QED BY <1>3, <1>4, <1>5 DEF Remembered

LEMMA NightRemembers ==
  ASSUME BillTypeOK, Remembered, StartNight \/ NightIsLost
  PROVE  Remembered'
<1> USE PartiesAssumption
<1>0. UNCHANGED <<day, contract, opening, billed>> /\ night = "due" /\ night' # "due"
  BY DEF StartNight, NightIsLost
<1>1. ASSUME NEW c \in Contracts, NEW m \in Months, Expected(c, m)'
      PROVE  (billed[c][m] # <<>> \/ InHand(c, m))'
  <2> DEFINE date == [month |-> m, day |-> Target(m, contract[c].billingDay)]
  <2>1. Before(date, day) \/ date = day
    BY <1>0, <1>1 DEF Expected, IsRead, Before, Target
  <2>2. m \notin excused[c]
    BY <1>1 DEF Expected, StartNight, NightIsLost, BillTypeOK
  <2>3. CASE Before(date, day)
    <3>1. IsRead(m, contract[c].billingDay)
      BY <2>3 DEF IsRead
    <3>2. Expected(c, m)
      BY <1>0, <1>1, <2>2, <3>1 DEF Expected
    <3>3. ~InHand(c, m)
      BY <1>0 DEF InHand
    <3> QED BY <1>0, <3>2, <3>3 DEF Remembered
  <2>4. CASE date = day
    <3>1. m = day.month /\ DueOn(c, day)
      BY <2>4 DEF DueOn
    <3>2. day.month \notin excused'[c]
      BY <1>0, <1>1, <3>1 DEF Expected
    <3>3. StartNight /\ contract[c].status = "ACTIVE"
      BY <3>1, <3>2 DEF StartNight, NightIsLost
    <3>4. c \in run'[Cron].due
      BY <3>1, <3>3 DEF StartNight, Read, BillTypeOK
    <3> QED BY <1>0, <3>1, <3>3, <3>4 DEF InHand, StartNight
  <2> QED BY <2>1, <2>3, <2>4
<1>2. run'[Cron].busy => run'[Cron].date = day'
  BY <1>0 DEF StartNight, Read, NightIsLost, BillTypeOK, Remembered
<1>3. \A c \in opening' : contract'[c].status # "NONE" /\ contract'[c].start.month >= day'.month
  BY <1>0 DEF Remembered
<1> QED BY <1>1, <1>2, <1>3 DEF Remembered

LEMMA NextDayRemembers ==
  ASSUME BillTypeOK, Remembered, NextDay
  PROVE  Remembered'
<1>1. ASSUME NEW c \in Contracts, NEW m \in Months, Expected(c, m)'
      PROVE  (billed[c][m] # <<>> \/ InHand(c, m))'
  <2> DEFINE date == [month |-> m, day |-> Target(m, contract[c].billingDay)]
  <2>1. date \in Dates /\ day \in Dates
    BY TargetIsADay, DaysAreNumbers DEF BillTypeOK
  <2>2. Before(date, Tomorrow(day))
    BY <1>1 DEF Expected, IsRead, NextDay, Before, Target
  <2>3. Before(date, day) \/ date = day
    BY <2>1, <2>2, NothingBetween DEF NextDay
  <2>4. IsRead(m, contract[c].billingDay)
    BY <2>3 DEF IsRead, NextDay
  <2>5. Expected(c, m) /\ ~InHand(c, m)
    BY <1>1, <2>4 DEF Expected, InHand, NextDay
  <2> QED BY <2>5 DEF Remembered, NextDay
<1> QED BY <1>1, PartiesAssumption DEF NextDay, Remembered

LEMMA CrashRemembers ==
  ASSUME BillTypeOK, Remembered, Crash
  PROVE  Remembered'
<1>1. ASSUME NEW c \in Contracts, NEW m \in Months, Expected(c, m)'
      PROVE  billed'[c][m] # <<>>
  <2>0. UNCHANGED <<day, contract, billed>> /\ (night' = "due" <=> night = "due")
    BY DEF Crash, BillTypeOK
  <2>1. IsRead(m, contract[c].billingDay) /\ m \notin excused'[c]
    BY <1>1, <2>0, SameNights DEF Expected
  <2>2. excused'[c] = excused[c]
          \cup (IF c \in run[Cron].due \cup {run[Cron].now} THEN {day.month} ELSE {})
          \cup (IF c \in opening THEN LostFirst(c) ELSE {})
    BY DEF Crash
  <2>3. c \notin opening
    BY <1>1, <2>0, <2>1, <2>2, WithoutFirst DEF Expected
  <2>4. Expected(c, m) /\ ~InHand(c, m)
    BY <1>1, <2>0, <2>1, <2>2, <2>3 DEF Expected, InHand
  <2> QED BY <2>0, <2>4 DEF Remembered
<1>2. ~run'[Cron].busy /\ opening' = {}
  BY PartiesAssumption DEF Crash, Idle
<1> QED BY <1>1, <1>2 DEF Remembered

(* A step of the run of the night, or of another run, leaves nights, contracts
   and openings alone: what counts is what becomes of the contract in hand.  *)
LEMMA StepsRemember ==
  ASSUME BillTypeOK, Remembered, [Next]_vars, NEW w \in Workers, Steps(w)
  PROVE  Remembered'
<1> USE PartiesAssumption
<1>0. UNCHANGED <<day, contract, opening>> /\ (night' = "due" <=> night = "due")
  BY DEF Steps, StartRun, Look, Insert, InsertFails, Finish, BillTypeOK
<1>1. \A c \in Contracts : excused[c] \subseteq excused'[c]
  BY DEF Steps, StartRun, Look, Insert, InsertFails, Finish, BillTypeOK
<1>2. CASE w # Cron
  <2>1. run'[Cron] = run[Cron] /\ night' = night
    BY <1>2 DEF Steps, StartRun, Read, Look, Takes, Insert, InsertFails, Finish, BillTypeOK
  <2> QED BY <1>0, <1>1, <2>1, QuietStep
<1>3. CASE w = Cron
  <2>0. run[Cron].busy /\ night = "running" /\ run[Cron].date = day /\ run[Cron] \in Run
    BY <1>3 DEF Steps, StartRun, Look, Insert, InsertFails, Finish, BillTypeOK, Remembered
  <2>1. ASSUME NEW c \in Contracts, NEW m \in Months, Expected(c, m)'
        PROVE  (billed[c][m] # <<>> \/ InHand(c, m))'
    <3>1. IsRead(m, contract[c].billingDay) /\ m \notin excused[c]
      BY <1>0, <1>1, <2>1, SameNights DEF Expected
    <3>2. Expected(c, m)
      BY <1>0, <2>1, <3>1 DEF Expected
    <3>3. CASE billed[c][m] # <<>>
      BY <3>3, RowsStay
    <3>4. CASE billed[c][m] = <<>> /\ InHand(c, m)
      <4>1. m = day.month /\ c \in run[Cron].due \cup {run[Cron].now}
        BY <3>4 DEF InHand
      <4>2. CASE Look(Cron)
        <5>1. PICK d \in run[Cron].due :
                 \/ (\E i \in Live(d, m) : TRUE) /\ Takes(Cron, d, NoContract)
                 \/ Takes(Cron, d, d)
          BY <2>0, <4>1, <4>2 DEF Look
        <5>2. run[Cron].now = NoContract /\ c # NoContract
          BY <4>2 DEF Look
        <5>3. Live(c, m) = {}
          BY <3>4 DEF Live
        <5>4. c \in run'[Cron].due \cup {run'[Cron].now}
          BY <4>1, <5>1, <5>2, <5>3 DEF Takes, BillTypeOK
        <5> QED BY <1>0, <2>0, <4>1, <4>2, <5>4 DEF InHand, Look
      <4>3. CASE Insert(Cron)
        <5>1. CASE c = run[Cron].now
          <6>1. Admits(c, m)
            BY <3>4 DEF Admits, Live
          <6>2. billed'[c][m] = Append(billed[c][m], FullMonth)
            BY <2>0, <4>1, <4>3, <5>1, <6>1 DEF Insert, BillTypeOK
          <6> QED BY <3>4, <6>2
        <5>2. CASE c \in run[Cron].due
          BY <1>0, <2>0, <4>1, <4>3, <5>2 DEF Insert, InHand, BillTypeOK
        <5> QED BY <4>1, <5>1, <5>2
      <4>4. CASE InsertFails(Cron)
        <5>1. c # run[Cron].now
          BY <1>0, <2>0, <2>1, <4>1, <4>4 DEF InsertFails, Expected, BillTypeOK
        <5> QED BY <1>0, <2>0, <4>1, <4>4, <5>1 DEF InsertFails, InHand, BillTypeOK
      <4>5. CASE Finish(Cron)
        BY <4>1, <4>5 DEF Finish
      <4> QED BY <1>3, <4>2, <4>3, <4>4, <4>5 DEF Steps, StartRun
    <3> QED BY <3>2, <3>3, <3>4 DEF Remembered
  <2>2. run'[Cron].busy => run'[Cron].date = day'
    BY <1>0, <1>3, <2>0 DEF Steps, StartRun, Look, Takes, Insert, InsertFails, Finish, Idle, Run, BillTypeOK
  <2>3. \A c \in opening' : contract'[c].status # "NONE" /\ contract'[c].start.month >= day'.month
    BY <1>0 DEF Remembered
  <2> QED BY <2>1, <2>2, <2>3 DEF Remembered
<1> QED BY <1>2, <1>3

LEMMA OfficeRemembers ==
  ASSUME BillTypeOK, Remembered, [Next]_vars, NEW d \in Contracts, Office(d)
  PROVE  Remembered'
<1>0. UNCHANGED <<day, night, run>>
  BY DEF Office, AddContract, FirstInvoice, FirstFails, Suspend, Reactivate, Terminate,
         SetStatus, ChangeBillingDay, VoidInvoice
<1>1. ASSUME NEW c \in Contracts, NEW m \in Months, Expected(c, m)', ~Expected(c, m)
      PROVE  billed'[c][m] # <<>>
  <2>0. Keeps(c)
    BY <1>1, ContractStep DEF Expected, Born
  <2>1. contract[c].status # "NONE" /\ contract[c].start.month <= m
    BY <1>1, <2>0 DEF Expected, Keeps
  <2>2. CASE FirstInvoice(d) /\ c = d
    <3>1. UNCHANGED contract /\ m \notin excused[c]
      BY <1>1, <2>2 DEF FirstInvoice, Expected
    <3>2. IsRead(m, contract[c].billingDay)
      BY <1>0, <1>1, <3>1, SameNights DEF Expected
    <3>3. c \in opening
      BY <1>1, <2>1, <3>1, <3>2 DEF Expected
    <3>4. m = contract[c].start.month
      BY <2>1, <3>2, <3>3, DaysAreNumbers, ReadHasBegun DEF Remembered
    <3>5. CASE Admits(c, m)
      <4>1. PICK policy \in Policies :
               billed'[c][m] = Append(billed[c][m], FirstShare(contract[c].start, policy))
        BY <2>2, <3>4, <3>5 DEF FirstInvoice, BillTypeOK
      <4>2. billed[c][m] \in Seq(Invoice)
        BY DEF BillTypeOK
      <4> QED BY <4>1, <4>2
    <3>6. CASE ~Admits(c, m)
      <4>1. billed[c][m] # <<>>
        BY <3>6 DEF Admits, Live
      <4> QED BY <4>1, RowsStay
    <3> QED BY <3>5, <3>6
  <2>3. CASE FirstFails(d) /\ c = d
    <3>1. UNCHANGED contract /\ m \notin excused[c] /\ m \notin LostFirst(c)
      BY <1>1, <2>3 DEF FirstFails, Expected, BillTypeOK
    <3>2. IsRead(m, contract[c].billingDay)
      BY <1>0, <1>1, <3>1, SameNights DEF Expected
    <3>3. c \in opening
      BY <2>3 DEF FirstFails
    <3> QED BY <2>1, <3>1, <3>2, <3>3, WithoutFirst
  <2>4. CASE ChangeBillingDay(d) /\ c = d
    <3>1. PICK b \in BillingDays :
             /\ contract'[c].billingDay = b
             /\ excused' = IF IsRead(day.month, b) /\ ~IsRead(day.month, contract[c].billingDay)
                           THEN [excused EXCEPT ![c] = @ \cup {day.month}] ELSE excused
      BY <2>4 DEF ChangeBillingDay, BillTypeOK
    <3>2. IsRead(m, b) /\ c \notin opening /\ m \notin excused'[c]
      BY <1>0, <1>1, <2>4, <3>1 DEF Expected, ChangeBillingDay, IsRead, Before, Target
    <3>3. m \notin excused[c] /\ ~IsRead(m, contract[c].billingDay)
      BY <1>1, <2>1, <3>1, <3>2 DEF Expected, BillTypeOK
    <3>4. m = day.month
      BY <3>2, <3>3, DaysAreNumbers, ReadHasBegun, OverIsRead
    <3> QED BY <3>1, <3>2, <3>3, <3>4 DEF BillTypeOK
  <2>5. CASE /\ ~(c = d /\ (FirstInvoice(d) \/ FirstFails(d) \/ ChangeBillingDay(d)))
    <3>1. /\ contract'[c].billingDay = contract[c].billingDay
          /\ c \in opening => c \in opening'
          /\ excused[c] \subseteq excused'[c]
      <4>0. contract[c] \in Contract /\ contract[d] \in Contract
        BY DEF BillTypeOK
      <4>1. CASE AddContract(d)
        <5>1. PICK start : contract' = [contract EXCEPT ![d].status = "ACTIVE", ![d].start = start]
          BY <4>1 DEF AddContract
        <5>2. contract'[c].billingDay = contract[c].billingDay
          BY <4>0, <5>1 DEF Contract, BillTypeOK
        <5> QED BY <4>1, <5>2 DEF AddContract
      <4>2. CASE Suspend(d) \/ Reactivate(d) \/ Terminate(d)
        <5>1. PICK after \in Statuses : contract' = [contract EXCEPT ![d].status = after]
          BY <4>2 DEF Suspend, Reactivate, Terminate, SetStatus, Statuses
        <5>2. contract'[c].billingDay = contract[c].billingDay
          BY <4>0, <5>1 DEF Contract, BillTypeOK
        <5>3. UNCHANGED <<opening, excused>>
          BY <4>2 DEF Suspend, Reactivate, Terminate, SetStatus
        <5> QED BY <5>2, <5>3
      <4>3. CASE FirstInvoice(d) \/ FirstFails(d) \/ ChangeBillingDay(d)
        <5>1. c # d
          BY <2>5, <4>3
        <5> QED BY <4>3, <5>1 DEF FirstInvoice, FirstFails, ChangeBillingDay, BillTypeOK
      <4>4. CASE \E n \in Months : VoidInvoice(d, n)
        BY <4>4 DEF VoidInvoice
      <4> QED BY <4>1, <4>2, <4>3, <4>4 DEF Office
    <3>2. IsRead(m, contract[c].billingDay)
      BY <1>0, <1>1, <3>1 DEF Expected, IsRead, Before, Target
    <3> QED BY <1>1, <2>1, <3>1, <3>2 DEF Expected
  <2> QED BY <2>2, <2>3, <2>4, <2>5
<1>2. ASSUME NEW c \in Contracts, NEW m \in Months, Expected(c, m)'
      PROVE  (billed[c][m] # <<>> \/ InHand(c, m))'
  <2>1. InHand(c, m) => InHand(c, m)'
    BY <1>0 DEF InHand
  <2> QED BY <1>1, <1>2, <2>1, RowsStay DEF Remembered
<1>3. ASSUME NEW c \in opening'
      PROVE  contract'[c].status # "NONE" /\ contract'[c].start.month >= day'.month
  <2>0. c \in Contracts
    <3>1. BillTypeOK'
      BY NextTypes
    <3> QED BY <3>1 DEF BillTypeOK
  <2>1. CASE Born(c)
    BY <1>0, <2>1 DEF Born
  <2>2. CASE Keeps(c)
    BY <1>0, <2>0, <2>2 DEF Keeps, Remembered
  <2> QED BY <2>0, <2>1, <2>2, ContractStep
<1>4. run'[Cron].busy => run'[Cron].date = day'
  BY <1>0 DEF Remembered
<1> QED BY <1>2, <1>3, <1>4 DEF Remembered

LEMMA InitMemory == Init => MemoryInv
<1> SUFFICES ASSUME Init PROVE MemoryInv
  OBVIOUS
<1>1. ASSUME NEW c \in Contracts PROVE contract[c].status = "NONE"
  <2>1. contract[c] \in {[status |-> "NONE", billingDay |-> b, start |-> FirstOfAll] : b \in BillingDays}
    BY DEF Init
  <2> QED BY <2>1
<1>2. ~run[Cron].busy /\ opening = {}
  BY PartiesAssumption DEF Init, Idle
<1> QED BY <1>1, <1>2, InitTypes DEF MemoryInv, Remembered, Expected

LEMMA NextMemory ==
  ASSUME MemoryInv, [Next]_vars
  PROVE  MemoryInv'
<1> USE DEF MemoryInv
<1>1. CASE UNCHANGED vars
  <2>1. UNCHANGED <<day, night, contract, opening, billed, run, excused>>
    BY <1>1 DEF vars
  <2> QED BY <2>1, NextTypes, QuietStep
<1> QED BY <1>1, NextTypes, NightRemembers, NextDayRemembers, CrashRemembers, StepsRemember,
           OfficeRemembers DEF Next

LEMMA MemoryAlways == Spec => []MemoryInv
<1> QED BY InitMemory, NextMemory, PTL DEF Spec

LEMMA MemoryImpliesBilled == MemoryInv => EveryPeriodIsBilled
<1> SUFFICES ASSUME MemoryInv, NEW c \in Contracts, NEW m \in Months,
                    contract[c].status # "NONE", contract[c].start.month <= m, m < day.month,
                    c \notin opening, m \notin excused[c]
             PROVE  billed[c][m] # <<>>
  BY DEF EveryPeriodIsBilled
<1>1. Expected(c, m)
  BY OverIsRead DEF Expected
<1>2. ~InHand(c, m)
  BY DaysAreNumbers DEF InHand, MemoryInv
<1> QED BY <1>1, <1>2 DEF MemoryInv, Remembered

(* A month that is over was billed to every contract that nothing kept from it:
   an equality of dates, a clamp and a first invoice that is made elsewhere
   leave no gap between them.                                                *)
THEOREM NoMonthIsForgotten == Spec => []EveryPeriodIsBilled
<1> QED BY MemoryAlways, MemoryImpliesBilled, PTL
=============================================================================
