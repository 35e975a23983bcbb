---------------------------- MODULE BillingCycle ----------------------------
(***************************************************************************)
(* The monthly invoices of the contracts.                                  *)
(*                                                                         *)
(* Every night at two a run of BillingCycleService bills the contracts     *)
(* whose billing day is today, and no other: a day that is missed is not   *)
(* made up for.  The office may start the same run at any time.  The first *)
(* invoice of a contract is made when the contract is, for the days that   *)
(* are left of its month.  What keeps a month from being billed twice is   *)
(* an index of the database.                                               *)
(***************************************************************************)
EXTENDS Integers, Sequences

CONSTANTS
  Contracts,
  Workers,     \* those who may run the cycle at the same time
  Cron,        \* the one among them that the scheduler starts
  NoContract,
  Length,      \* days of every month of the calendar
  Fixed,       \* days of a month for the policy FIXED_30
  Policies,    \* the policies of the settings that are in use
  BillingDays, \* days that contracts are given, some of them past the end of a month
  MaxRows      \* bound: invoices of a contract and a month, void or not

Months == DOMAIN Length

ASSUME CalendarAssumption ==
  /\ Length \in Seq(Nat \ {0}) /\ Length # <<>>
  /\ Fixed \in Nat \ {0} /\ BillingDays \subseteq Nat \ {0} /\ MaxRows \in Nat
  /\ Policies \subseteq {"FIXED_30", "ACTUAL_MONTH_DAYS", "CYCLE_DAYS"}

ASSUME PartiesAssumption == Cron \in Workers /\ NoContract \notin Contracts

VARIABLES
  day,       \* today, as a date [month, day]
  night,     \* the cycle of the night: "due", "running", "done"
  contract,  \* the rows of com.contracts
  opening,   \* contracts whose first invoice is being made
  billed,    \* the rows of pos.invoices of a contract and a month
  run,       \* what every worker is doing
  excused    \* history: months in which something kept a contract from its invoice

vars == <<day, night, contract, opening, billed, run, excused>>

-----------------------------------------------------------------------------
(* Dates *)

Dates == {d \in [month : Months, day : Nat] : d.day \in 1..Length[d.month]}

Before(d, e) == d.month < e.month \/ (d.month = e.month /\ d.day < e.day)

FirstOfAll == [month |-> 1, day |-> 1]

(* The calendar has an end, which is a bound. *)
IsLast(d) == d.day = Length[d.month] /\ d.month = Len(Length)

Tomorrow(d) == IF d.day < Length[d.month] THEN [d EXCEPT !.day = d.day + 1]
               ELSE [month |-> d.month + 1, day |-> 1]

(* The billing day of a month, which may be shorter than the day asked for. *)
Minimum(a, b) == IF a < b THEN a ELSE b

TargetUnclamped(m, billingDay) == billingDay

Target(m, billingDay) == Minimum(billingDay, Length[m])

DueOn(c, date) == date.day = Target(date.month, contract[c].billingDay)

(* The night of the billing day of this month, or of another, has had its read. *)
IsRead(m, billingDay) ==
  LET date == [month |-> m, day |-> Target(m, billingDay)] IN
  Before(date, day) \/ (date = day /\ night # "due")

-----------------------------------------------------------------------------
(* Rows *)

Statuses == {"NONE", "ACTIVE", "SUSPENDED", "TERMINATED"}

Contract == [status : Statuses, billingDay : BillingDays, start : Dates]

(* The price of a month is charged for `days' of `cycle'. *)
Invoice == [status : {"PENDING_PAYMENT", "VOIDED"}, days : Nat, cycle : Nat \ {0},
            first : BOOLEAN]

Run == [busy : BOOLEAN, date : Dates, due : SUBSET Contracts,
        now : Contracts \cup {NoContract}]

Idle == [busy |-> FALSE, date |-> FirstOfAll, due |-> {}, now |-> NoContract]

Live(c, m) == {i \in DOMAIN billed[c][m] : billed[c][m][i].status # "VOIDED"}

(* The unique index: an invoice that is not void keeps others out. *)
AdmitsAlways(c, m) == TRUE

Admits(c, m) == Live(c, m) = {}

FullMonth == [status |-> "PENDING_PAYMENT", days |-> 1, cycle |-> 1, first |-> FALSE]

(* The first invoice: never more than one month, whatever the policy. *)
Cycle(policy, m) == IF policy = "FIXED_30" THEN Fixed ELSE Length[m]

FirstShareUncapped(start, policy) ==
  [status |-> "PENDING_PAYMENT", first |-> TRUE, cycle |-> Cycle(policy, start.month),
   days |-> Length[start.month] - start.day + 1]

FirstShare(start, policy) ==
  [status |-> "PENDING_PAYMENT", first |-> TRUE, cycle |-> Cycle(policy, start.month),
   days |-> Minimum(Length[start.month] - start.day + 1, Cycle(policy, start.month))]

Init ==
  /\ day = FirstOfAll /\ night = "due"
  /\ contract \in [Contracts -> {[status |-> "NONE", billingDay |-> b, start |-> FirstOfAll] :
                                   b \in BillingDays}]
  /\ opening = {}
  /\ billed = [c \in Contracts |-> [m \in Months |-> <<>>]]
  /\ run = [w \in Workers |-> Idle]
  /\ excused = [c \in Contracts |-> {}]

-----------------------------------------------------------------------------
(* The cycle *)

(* The active contracts are read once.  Which of them are due depends on
   nothing but what was read and the date the run was started with.        *)
Read(w) ==
  run' = [run EXCEPT ![w] =
            [busy |-> TRUE, date |-> day, now |-> NoContract,
             due |-> {c \in Contracts : contract[c].status = "ACTIVE" /\ DueOn(c, day)}]]

(* The run of the night passes over those who are suspended on their day. *)
StartNight ==
  /\ night = "due" /\ night' = "running"
  /\ Read(Cron)
  /\ excused' = [c \in Contracts |->
       excused[c] \cup IF DueOn(c, day) /\ contract[c].status # "ACTIVE" THEN {day.month} ELSE {}]
  /\ UNCHANGED <<day, contract, opening, billed>>

StartRun(w) ==
  /\ w # Cron /\ ~run[w].busy
  /\ Read(w)
  /\ UNCHANGED <<day, night, contract, opening, billed, excused>>

(* A contract leaves the list, to be billed now or not at all. *)
Takes(w, c, now) ==
  run' = [run EXCEPT ![w] =
            [busy |-> TRUE, date |-> run[w].date, due |-> run[w].due \ {c}, now |-> now]]

(* findOne looks at one invoice of the period, in no order, void or not. *)
Look(w) ==
  /\ run[w].busy /\ run[w].now = NoContract
  /\ \E c \in run[w].due :
       LET m == run[w].date.month IN
       \/ /\ \E i \in Live(c, m) : TRUE
          /\ Takes(w, c, NoContract)
       \/ /\ billed[c][m] = <<>> \/ \E i \in DOMAIN billed[c][m] : billed[c][m][i].status = "VOIDED"
          /\ Takes(w, c, c)
  /\ UNCHANGED <<day, night, contract, opening, billed, excused>>

Insert(w) ==
  LET c == run[w].now
      m == run[w].date.month
  IN
  /\ run[w].busy /\ c # NoContract
  /\ billed' = IF Admits(c, m) THEN [billed EXCEPT ![c][m] = Append(@, FullMonth)] ELSE billed
  /\ run' = [run EXCEPT ![w].now = NoContract]
  /\ UNCHANGED <<day, night, contract, opening, excused>>

(* An error of one contract is logged and the run goes on with the next. *)
InsertFails(w) ==
  LET c == run[w].now IN
  /\ run[w].busy /\ c # NoContract
  /\ run' = [run EXCEPT ![w].now = NoContract]
  /\ excused' = [excused EXCEPT ![c] = @ \cup {run[w].date.month}]
  /\ UNCHANGED <<day, night, contract, opening, billed>>

Finish(w) ==
  /\ run[w].busy /\ run[w].now = NoContract /\ run[w].due = {}
  /\ run' = [run EXCEPT ![w] = Idle]
  /\ night' = IF w = Cron THEN "done" ELSE night
  /\ UNCHANGED <<day, contract, opening, billed, excused>>

(* Without its first invoice a contract has the one of its billing day, if
   that is still to come.                                                  *)
LostFirst(c) ==
  IF IsRead(contract[c].start.month, contract[c].billingDay)
  THEN {contract[c].start.month} ELSE {}

(* Nothing remembers where a run was when the server stops. *)
Crash ==
  /\ \E w \in Workers : run[w].busy
  /\ run' = [w \in Workers |-> Idle]
  /\ opening' = {}
  /\ night' = IF run[Cron].busy THEN "done" ELSE night
  /\ excused' = [c \in Contracts |-> excused[c]
       \cup (IF c \in run[Cron].due \cup {run[Cron].now} THEN {day.month} ELSE {})
       \cup (IF c \in opening THEN LostFirst(c) ELSE {})]
  /\ UNCHANGED <<day, contract, billed>>

(* A night on which the server is down, or the contracts cannot be read. *)
NightIsLost ==
  /\ night = "due" /\ night' = "done"
  /\ excused' = [c \in Contracts |-> excused[c] \cup IF DueOn(c, day) THEN {day.month} ELSE {}]
  /\ UNCHANGED <<day, contract, opening, billed, run>>

(* The run of a night ends, and requests are answered, before the next night. *)
NextDay ==
  /\ night = "done" /\ ~IsLast(day)
  /\ opening = {} /\ \A w \in Workers : ~run[w].busy
  /\ day' = Tomorrow(day) /\ night' = "due"
  /\ UNCHANGED <<contract, opening, billed, run, excused>>

-----------------------------------------------------------------------------
(* The office *)

(* A contract is born active, at a date of UTC, which may be tomorrow's. *)
AddContract(c) ==
  /\ contract[c].status = "NONE"
  /\ \E start \in {day, IF IsLast(day) THEN day ELSE Tomorrow(day)} :
       contract' = [contract EXCEPT ![c].status = "ACTIVE", ![c].start = start]
  /\ opening' = opening \cup {c}
  /\ UNCHANGED <<day, night, billed, run, excused>>

(* The first invoice comes after the row of the contract is saved. *)
FirstInvoice(c) ==
  LET start == contract[c].start IN
  /\ c \in opening /\ opening' = opening \ {c}
  /\ \E policy \in Policies :
       billed' = IF Admits(c, start.month)
                 THEN [billed EXCEPT ![c][start.month] = Append(@, FirstShare(start, policy))]
                 ELSE billed
  /\ UNCHANGED <<day, night, contract, run, excused>>

(* Its error is logged: the contract is created all the same. *)
FirstFails(c) ==
  /\ c \in opening /\ opening' = opening \ {c}
  /\ excused' = [excused EXCEPT ![c] = @ \cup LostFirst(c)]
  /\ UNCHANGED <<day, night, contract, billed, run>>

SetStatus(c, before, after) ==
  /\ contract[c].status \in before
  /\ contract' = [contract EXCEPT ![c].status = after]
  /\ UNCHANGED <<day, night, opening, billed, run, excused>>

Suspend(c) == SetStatus(c, {"ACTIVE"}, "SUSPENDED")

Reactivate(c) == SetStatus(c, {"SUSPENDED"}, "ACTIVE")

Terminate(c) == SetStatus(c, {"ACTIVE", "SUSPENDED"}, "TERMINATED")

(* A month is lost when its old billing day is to come and the new one is past. *)
ChangeBillingDay(c) ==
  /\ contract[c].status # "NONE"
  /\ \E b \in BillingDays \ {contract[c].billingDay} :
       /\ contract' = [contract EXCEPT ![c].billingDay = b]
       /\ excused' = IF IsRead(day.month, b) /\ ~IsRead(day.month, contract[c].billingDay)
                     THEN [excused EXCEPT ![c] = @ \cup {day.month}] ELSE excused
  /\ UNCHANGED <<day, night, opening, billed, run>>

(* An invoice that is not paid may be voided, so that another can be made. *)
VoidInvoice(c, m) ==
  /\ Len(billed[c][m]) < MaxRows
  /\ \E i \in Live(c, m) : billed' = [billed EXCEPT ![c][m][i].status = "VOIDED"]
  /\ UNCHANGED <<day, night, contract, opening, run, excused>>

Steps(w) == StartRun(w) \/ Look(w) \/ Insert(w) \/ InsertFails(w) \/ Finish(w)

Office(c) ==
  \/ AddContract(c) \/ FirstInvoice(c) \/ FirstFails(c)
  \/ Suspend(c) \/ Reactivate(c) \/ Terminate(c) \/ ChangeBillingDay(c)
  \/ \E m \in Months : VoidInvoice(c, m)

Next ==
  \/ StartNight \/ NightIsLost \/ NextDay \/ Crash
  \/ \E w \in Workers : Steps(w)
  \/ \E c \in Contracts : Office(c)

Spec == Init /\ [][Next]_vars

-----------------------------------------------------------------------------
(* Properties *)

(* What every row holds; a run takes every contract once, and one that is idle
   remembers nothing.                                                      *)
BillTypeOK ==
  /\ day \in Dates /\ night \in {"due", "running", "done"}
  /\ contract \in [Contracts -> Contract] /\ opening \subseteq Contracts
  /\ billed \in [Contracts -> [Months -> Seq(Invoice)]]
  /\ run \in [Workers -> Run] /\ excused \in [Contracts -> SUBSET Months]
  /\ \A w \in Workers : (run[w].now \notin run[w].due) /\ (~run[w].busy => run[w] = Idle)
  /\ run[Cron].busy <=> night = "running"

(* Whatever runs overlap, restart or start again, and whatever is voided in
   between, a contract owes one invoice of a month: billing-cycle.service.ts,
   generateInvoiceForContractIfDue and generateInitialProratedInvoiceIfNeeded. *)
OneInvoicePerPeriod ==
  \A c \in Contracts, m \in Months : \A i, j \in Live(c, m) : i = j

(* A month that is over has been billed to every contract that had started by
   then, unless something kept it from it: the night of its billing day was
   lost or fell in a suspension, an insert failed, or the billing day was
   moved from a day to come to one that was past.  The run compares dates for
   equality: runBillingCycle, resolveBillingDayForMonth, addContract.      *)
EveryPeriodIsBilled ==
  \A c \in Contracts, m \in Months :
    /\ contract[c].status # "NONE" /\ contract[c].start.month <= m /\ m < day.month
    /\ c \notin opening /\ m \notin excused[c]
    => billed[c][m] # <<>>

(* Whatever the policy was on the day and whatever UTC made of the date, the
   first invoice is of the month the contract starts in, for no more than a
   month and no more days than are left of it: FIXED_30 meets months that are
   shorter and longer (generateInitialProratedInvoiceIfNeeded).            *)
FirstChargeIsFair ==
  \A c \in Contracts, m \in Months : \A i \in DOMAIN billed[c][m] :
    LET bill == billed[c][m][i] IN
    bill.first => /\ contract[c].start.month = m
                  /\ bill.days <= bill.cycle
                  /\ bill.days + contract[c].start.day <= Length[m] + 1

(* Nothing else bills the days before a contract: the invoice of the month it
   starts in is its share.  Not so: when the first invoice fails, or a run
   comes before it, the cycle charges the whole month.                     *)
FirstMonthIsShared ==
  \A c \in Contracts, m \in Months :
    contract[c].status # "NONE" /\ contract[c].start.month = m /\ contract[c].start.day > 1
    => \A i \in DOMAIN billed[c][m] : billed[c][m][i].first

(* Who starts on the first day of a month pays the month, which FIXED_30 does
   not grant in a month that is shorter.                                   *)
FirstOfMonthPaysTheMonth ==
  \A c \in Contracts, m \in Months :
    contract[c].start = [month |-> m, day |-> 1]
    => \A i \in DOMAIN billed[c][m] : billed[c][m][i].days = billed[c][m][i].cycle

(* A month in which a contract was never away is billed even if the server
   was, or the subscriber, on the one day that counts.                     *)
NoMonthIsGivenAway == \A c \in Contracts : excused[c] = {}
=============================================================================
