------------------------------ MODULE CashDesk ------------------------------
(***************************************************************************)
(* Where the money goes: the shifts of the cash registers, the sales that  *)
(* are rung up on them, the deposits that subscribers report from the      *)
(* portal, and the working days (jornadas) of the technicians, who collect *)
(* in the field.                                                           *)
(*                                                                         *)
(* A payment is one transaction, which reads the invoices again.  All the  *)
(* rest locks nothing: a handler reads a row, decides, and saves in a      *)
(* later step the row that it read.                                        *)
(***************************************************************************)
EXTENDS Naturals

CONSTANTS
  Cashiers,     \* users who may open a shift: CAJERO, ADMIN, GERENTE
  Technicians,  \* users who collect in the field and have no shift
  Agents,       \* users who review deposits and have no shift: AGENTE_CRM
  Registers,    \* identifiers of shifts, rows of pos.cash_registers
  Invoices,     \* recurring invoices, of one client
  Amount,       \* Amount[i]: grandTotal
  Due,          \* Due[i]: dueDate
  Deposits,     \* identifiers of deposit proofs
  Paid,         \* Paid[d]: the amount of the deposit
  Days,         \* identifiers of jornadas
  Expenses,     \* lines of expenses, each with its receipt
  Requests,     \* requests in flight
  Remembered,   \* shifts that a screen goes on naming when they are closed
  None,         \* no shift, no invoice, no deposit
  MaxPayments   \* bound: transactions that are committed

ASSUME UsersAssumption == /\ Cashiers \cap Technicians = {} /\ Cashiers \cap Agents = {}
                          /\ Technicians \cap Agents = {}
ASSUME NoneAssumption  == None \notin Registers \cup Invoices \cup Deposits
ASSUME AmountsAssumption == /\ \A i \in Invoices : Amount[i] \in Nat /\ Due[i] \in Nat
                            /\ \A d \in Deposits : Paid[d] \in Nat
ASSUME BoundsAssumption  == Remembered \subseteq Registers /\ MaxPayments \in Nat

Reviewers == Cashiers \cup Agents

VARIABLES
  register,  \* register[r]: a shift of a cashier
  sales,     \* the rows of pos.sales, all of them PAID
  payments,  \* transactions committed so far
  invoice,   \* invoice[i]: the status of the invoice
  proof,     \* proof[d]: the row of pos.deposit_proofs
  day,       \* day[j]: the row of tickets.daily_closures
  listed,    \* listed[j][x]: rows of daily_closure_expenses of j for x
  request    \* request[p]: the next step of the handler that p is in

deskVars == <<register, sales, payments, invoice>>
fieldVars == <<day, listed>>
vars == <<register, sales, payments, invoice, proof, day, listed, request>>

-----------------------------------------------------------------------------
(* Rows *)

(* A sale is told by its transaction and by what it is for: an invoice, or a
   charge (the items of a checkout, the reconnection fee of a collection).   *)
Charge == "CHARGE"
Things == Invoices \cup {Charge}
Keys   == (1..MaxPayments) \X Things

ASSUME ChargeAssumption == Charge \notin Invoices

(* register: cash_register_id.  proof: the deposit that pays; auto: its approval
   has chosen the invoice.  History: made, the register at the insertion;
   timely, that the shift was then open and nobody was closing it; seen, how
   many payments had been committed when the invoice was read for this one.  *)
Sale == [key : Keys, register : Registers \cup {None}, made : Registers \cup {None},
         timely : BOOLEAN, seen : 0..MaxPayments, proof : Deposits \cup {None}, auto : BOOLEAN]

(* counted: the sales whose totals are in expectedClosingAmount. *)
Shift == [status : {"OPEN", "CLOSED"}, user : Cashiers, counted : SUBSET Keys]

NoShift == [status |-> "NONE"]

Verdicts == {"APPROVED", "REJECTED"}

(* invoice: what the client says that the deposit pays, later what it paid. *)
Proof == [status : Verdicts \cup {"PENDING_REVIEW"}, invoice : Invoices \cup {None}]

NoProof == [status |-> "NONE"]

(* total: the expenses whose sum is totalExpensesAmount. *)
Jornada == [status : {"OPEN", "CLOSED"}, technician : Technicians, total : SUBSET Expenses]

NoDay == [status |-> "NONE"]

-----------------------------------------------------------------------------
(* Requests *)

Opening   == [at : {"insertRegister"}, user : Cashiers]
Closing   == [at : {"saveRegister"}, register : Registers, row : Shift, counted : SUBSET Keys]
Paying    == [at : {"settle", "commit"}, register : Registers \cup {None},
              invoices : SUBSET Invoices, charge : BOOLEAN, seen : 0..MaxPayments,
              proof : Deposits \cup {None}, auto : BOOLEAN]
Reviewing == [at : {"saveReview"}, user : Reviewers, deposit : Deposits, row : Proof,
              verdict : Verdicts]
Looking   == [at : {"findOldest"}, user : Reviewers, deposit : Deposits]
Applying  == [at : {"apply"}, user : Reviewers, deposit : Deposits, invoice : Invoices]
Recording == [at : {"saveProof"}, deposit : Deposits, invoice : Invoices]
Starting  == [at : {"insertDay"}, technician : Technicians]
Leaving   == [at : {"saveDay"}, day : Days, row : Jornada, expenses : SUBSET Expenses]
Listing   == [at : {"listExpenses"}, day : Days, expenses : SUBSET Expenses]

Idle == [at |-> "idle"]

Request == Opening \cup Closing \cup Paying \cup Reviewing \cup Looking \cup Applying
             \cup Recording \cup Starting \cup Leaving \cup Listing \cup {Idle}

Begins(p, step) ==
  /\ request[p] = Idle
  /\ request' = [request EXCEPT ![p] = step]

Goes(p, step) == request' = [request EXCEPT ![p] = step]

(* The handler throws, or the process stops: what it has written stays, and a
   transaction that has not been committed is rolled back.                   *)
Stops(p) ==
  /\ request[p] # Idle
  /\ Goes(p, Idle)
  /\ UNCHANGED <<deskVars, proof, fieldVars>>

-----------------------------------------------------------------------------
(* Shifts *)

(* getActiveRegister returns one of these. *)
ActiveRegisters(u) == {r \in Registers : register[r].status = "OPEN" /\ register[r].user = u}

SalesOf(r) == {s \in sales : s.register = r}

OpenCashRegister(p, u) ==
  /\ ActiveRegisters(u) = {}
  /\ Begins(p, [at |-> "insertRegister", user |-> u])
  /\ UNCHANGED <<deskVars, proof, fieldVars>>

InsertRegister(p, r) ==
  /\ request[p].at = "insertRegister" /\ register[r] = NoShift
  /\ register' = [register EXCEPT ![r] = [status |-> "OPEN", user |-> request[p].user,
                                          counted |-> {}]]
  /\ Goes(p, Idle)
  /\ UNCHANGED <<sales, payments, invoice, proof, fieldVars>>

(* Mutant of CloseCashRegister: it counts the invoices, and not what was charged
   besides.                                                                  *)
CloseOnInvoices(p, r) ==
  /\ register[r].status = "OPEN"
  /\ Begins(p, [at |-> "saveRegister", register |-> r, row |-> register[r],
                counted |-> {s.key : s \in {z \in SalesOf(r) : z.key[2] # Charge}}])
  /\ UNCHANGED <<deskVars, proof, fieldVars>>

(* closeCashRegister loads the shift with its sales, of every payment method. *)
CloseCashRegister(p, r) ==
  /\ register[r].status = "OPEN"
  /\ Begins(p, [at |-> "saveRegister", register |-> r, row |-> register[r],
                counted |-> {s.key : s \in SalesOf(r)}])
  /\ UNCHANGED <<deskVars, proof, fieldVars>>

(* save writes the row and its relation to the sales it was loaded with: of the
   sales that its SELECT finds, one that it was not loaded with loses its
   register, and one that another closure has taken off is put back.         *)
SaveRegister(p) ==
  LET c == request[p]
      misplaced == {s \in sales : ~(s.register = c.register <=> s.key \in c.counted)}
  IN
  /\ c.at = "saveRegister"
  /\ register' = [register EXCEPT ![c.register] =
                    [c.row EXCEPT !.status = "CLOSED", !.counted = c.counted]]
  /\ \E moved \in SUBSET misplaced :
       sales' = (sales \ moved) \cup
         {[s EXCEPT !.register = IF s.key \in c.counted THEN c.register ELSE None] : s \in moved}
  /\ Goes(p, Idle)
  /\ UNCHANGED <<payments, invoice, proof, fieldVars>>

-----------------------------------------------------------------------------
(* Payments *)

(* isOpenInvoiceStatus.  OPEN is PENDING_PAYMENT, EN_GRACIA and VENCIDA. *)
Payable(i) == invoice[i] = "OPEN"

(* The shift of a sale at the counter: the one that the request names, whatever
   its state, or the active one of the user.                                 *)
Named(u, r) ==
  r \in ActiveRegisters(u) \/ r \in {q \in Remembered : register[q] # NoShift}

(* Nobody asks a deposit for a register; the reviewer's is taken if open. *)
Unasked(u, r) ==
  IF ActiveRegisters(u) = {} THEN r = None ELSE r \in ActiveRegisters(u)

Payment(r, I, charge, d, auto) ==
  [at |-> "settle", register |-> r, invoices |-> I, charge |-> charge, seen |-> 0,
   proof |-> d, auto |-> auto]

Checkout(p, u, r) ==
  /\ Named(u, r)
  /\ Begins(p, Payment(r, {}, TRUE, None, FALSE))
  /\ UNCHANGED <<deskVars, proof, fieldVars>>

(* collectInvoices at the counter, with or without the fee of a reconnection,
   or by a technician in the field (Cobro Expres).                           *)
CollectInvoices(p, u, r, I, fee) ==
  /\ I # {} /\ \A i \in I : Payable(i)
  /\ IF u \in Technicians THEN r = None ELSE Named(u, r)
  /\ Begins(p, Payment(r, I, fee, None, FALSE))
  /\ UNCHANGED <<deskVars, proof, fieldVars>>

(* The invoicing screen charges an invoice, or issues one directly, on no shift. *)
SettlePendingInvoice(p, i) ==
  /\ Payable(i)
  /\ Begins(p, Payment(None, {i}, FALSE, None, FALSE))
  /\ UNCHANGED <<deskVars, proof, fieldVars>>

EmitDirect(p) ==
  /\ Begins(p, Payment(None, {}, TRUE, None, FALSE))
  /\ UNCHANGED <<deskVars, proof, fieldVars>>

(* Mutant of SettleInvoices: it trusts the check that the request began with. *)
SettleUnchecked(p) ==
  /\ request[p].at = "settle"
  /\ Goes(p, [request[p] EXCEPT !.at = "commit", !.seen = payments])
  /\ UNCHANGED <<deskVars, proof, fieldVars>>

(* In its transaction, settleInvoice reads every invoice again. *)
SettleInvoices(p) ==
  /\ request[p].at = "settle"
  /\ \A i \in request[p].invoices : Payable(i)
  /\ Goes(p, [request[p] EXCEPT !.at = "commit", !.seen = payments])
  /\ UNCHANGED <<deskVars, proof, fieldVars>>

(* The shift is open, and nobody has loaded it to close it. *)
InTime(r) ==
  /\ r \in Registers /\ register[r].status = "OPEN"
  /\ \A q \in Requests : request[q].at = "saveRegister" => request[q].register # r

(* One sale for every invoice of the batch, and one for the charge. *)
NewSales(k) ==
  {[key |-> <<payments + 1, x>>, register |-> k.register, made |-> k.register,
    timely |-> InTime(k.register), seen |-> k.seen, proof |-> k.proof, auto |-> k.auto] :
     x \in k.invoices \cup (IF k.charge THEN {Charge} ELSE {})}

CommitPayment(p) ==
  LET k == request[p] IN
  /\ k.at = "commit" /\ payments < MaxPayments
  /\ payments' = payments + 1
  /\ sales' = sales \cup NewSales(k)
  /\ invoice' = [i \in Invoices |-> IF i \in k.invoices THEN "ISSUED" ELSE invoice[i]]
  /\ IF k.proof = None
       THEN Goes(p, Idle)
       ELSE \E i \in k.invoices :
              Goes(p, [at |-> "saveProof", deposit |-> k.proof, invoice |-> i])
  /\ UNCHANGED <<register, proof, fieldVars>>

-----------------------------------------------------------------------------
(* Deposits reported from the portal *)

SubmitDepositProof(d, claim) ==
  /\ proof[d] = NoProof
  /\ proof' = [proof EXCEPT ![d] = [status |-> "PENDING_REVIEW", invoice |-> claim]]
  /\ UNCHANGED <<deskVars, fieldVars, request>>

Reviewable(d) == proof[d].status = "PENDING_REVIEW"

(* approveDepositProof and rejectDepositProof read the proof, and save it. *)
ReviewDepositProof(p, u, d, verdict) ==
  /\ Reviewable(d)
  /\ Begins(p, [at |-> "saveReview", user |-> u, deposit |-> d, row |-> proof[d],
                verdict |-> verdict])
  /\ UNCHANGED <<deskVars, proof, fieldVars>>

SaveReview(p) ==
  LET v == request[p] IN
  /\ v.at = "saveReview"
  /\ proof' = [proof EXCEPT ![v.deposit] = [v.row EXCEPT !.status = v.verdict]]
  /\ Goes(p, IF v.verdict = "APPROVED"
               THEN [at |-> "findOldest", user |-> v.user, deposit |-> v.deposit]
               ELSE Idle)
  /\ UNCHANGED <<deskVars, fieldVars>>

Oldest(i) == Payable(i) /\ \A j \in Invoices : Payable(j) => Due[i] <= Due[j]

Matches(d, i) == Paid[d] = Amount[i]

(* The approval pays the oldest invoice if the deposit is of its exact amount;
   otherwise it notifies the client and ends.                                *)
FindOldest(p) ==
  LET v == request[p] IN
  /\ v.at = "findOldest"
  /\ \/ \E i \in Invoices :
          /\ Oldest(i) /\ Matches(v.deposit, i)
          /\ Goes(p, [at |-> "apply", user |-> v.user, deposit |-> v.deposit, invoice |-> i])
     \/ /\ \/ \A i \in Invoices : ~Payable(i)
           \/ \E i \in Invoices : Oldest(i) /\ ~Matches(v.deposit, i)
        /\ Goes(p, Idle)
  /\ UNCHANGED <<deskVars, proof, fieldVars>>

(* What applyDepositProofToInvoice reads before it collects the invoice. *)
Applicable(d, i) == proof[d].status = "APPROVED" /\ Payable(i)

ApplyApproved(p, r) ==
  LET v == request[p] IN
  /\ v.at = "apply"
  /\ Applicable(v.deposit, v.invoice) /\ Unasked(v.user, r)
  /\ Goes(p, Payment(r, {v.invoice}, FALSE, v.deposit, TRUE))
  /\ UNCHANGED <<deskVars, proof, fieldVars>>

(* The endpoint of the staff: any approved deposit, to any open invoice. *)
ApplyByHand(p, u, r, d, i) ==
  /\ Applicable(d, i) /\ Unasked(u, r)
  /\ Begins(p, Payment(r, {i}, FALSE, d, FALSE))
  /\ UNCHANGED <<deskVars, proof, fieldVars>>

(* The proof is saved as it was read: APPROVED, and with its invoice. *)
SaveProof(p) ==
  LET v == request[p] IN
  /\ v.at = "saveProof"
  /\ proof' = [proof EXCEPT ![v.deposit] = [status |-> "APPROVED", invoice |-> v.invoice]]
  /\ Goes(p, Idle)
  /\ UNCHANGED <<deskVars, fieldVars>>

-----------------------------------------------------------------------------
(* Working days *)

OpenDays(t) == {j \in Days : day[j].status = "OPEN" /\ day[j].technician = t}

StartJornada(p, t) ==
  /\ OpenDays(t) = {}
  /\ Begins(p, [at |-> "insertDay", technician |-> t])
  /\ UNCHANGED <<deskVars, proof, fieldVars>>

(* uq_daily_closures_active_employee *)
Admitted(t) == OpenDays(t) = {}

InsertDay(p, j) ==
  LET v == request[p] IN
  /\ v.at = "insertDay" /\ day[j] = NoDay
  /\ Admitted(v.technician)
  /\ day' = [day EXCEPT ![j] = [status |-> "OPEN", technician |-> v.technician, total |-> {}]]
  /\ Goes(p, Idle)
  /\ UNCHANGED <<deskVars, proof, listed>>

(* Mutant of Closable: a day can be closed again. *)
ClosableAgain(t) == {j \in Days : day[j] # NoDay /\ day[j].technician = t}

(* close finds the jornada of the technician that is open. *)
Closable(t) == OpenDays(t)

CloseDay(p, t, j, X) ==
  /\ j \in Closable(t) /\ X # {}
  /\ Begins(p, [at |-> "saveDay", day |-> j, row |-> day[j], expenses |-> X])
  /\ UNCHANGED <<deskVars, proof, fieldVars>>

(* The day is closed with its total, after the photo of the fuel is uploaded. *)
SaveDay(p) ==
  LET v == request[p] IN
  /\ v.at = "saveDay"
  /\ day' = [day EXCEPT ![v.day] = [v.row EXCEPT !.status = "CLOSED", !.total = v.expenses]]
  /\ Goes(p, [at |-> "listExpenses", day |-> v.day, expenses |-> v.expenses])
  /\ UNCHANGED <<deskVars, proof, listed>>

(* Then its lines, one by one, each after its photo. *)
ListExpense(p, x) ==
  LET v == request[p] IN
  /\ v.at = "listExpenses" /\ x \in v.expenses
  /\ listed' = [listed EXCEPT ![v.day][x] = @ + 1]
  /\ Goes(p, IF v.expenses = {x} THEN Idle ELSE [v EXCEPT !.expenses = @ \ {x}])
  /\ UNCHANGED <<deskVars, proof, day>>

-----------------------------------------------------------------------------

Init ==
  /\ register = [r \in Registers |-> NoShift]
  /\ sales = {} /\ payments = 0
  /\ invoice = [i \in Invoices |-> "OPEN"]
  /\ proof = [d \in Deposits |-> NoProof]
  /\ day = [j \in Days |-> NoDay]
  /\ listed = [j \in Days |-> [x \in Expenses |-> 0]]
  /\ request = [p \in Requests |-> Idle]

ShiftMoves(p) ==
  \/ \E u \in Cashiers : OpenCashRegister(p, u)
  \/ \E r \in Registers : InsertRegister(p, r) \/ CloseCashRegister(p, r)
  \/ SaveRegister(p)

PaymentMoves(p) ==
  \/ \E u \in Cashiers, r \in Registers : Checkout(p, u, r)
  \/ \E u \in Cashiers \cup Technicians, r \in Registers \cup {None}, I \in SUBSET Invoices,
        fee \in BOOLEAN : CollectInvoices(p, u, r, I, fee)
  \/ \E i \in Invoices : SettlePendingInvoice(p, i)
  \/ EmitDirect(p)
  \/ SettleInvoices(p)
  \/ CommitPayment(p)

DepositMoves(p) ==
  \/ \E u \in Reviewers, d \in Deposits, v \in Verdicts : ReviewDepositProof(p, u, d, v)
  \/ SaveReview(p)
  \/ FindOldest(p)
  \/ \E r \in Registers \cup {None} : ApplyApproved(p, r)
  \/ \E u \in Reviewers, r \in Registers \cup {None}, d \in Deposits, i \in Invoices :
       ApplyByHand(p, u, r, d, i)
  \/ SaveProof(p)

DayMoves(p) ==
  \/ \E t \in Technicians : StartJornada(p, t)
  \/ \E j \in Days : InsertDay(p, j)
  \/ \E t \in Technicians, j \in Days, X \in SUBSET Expenses : CloseDay(p, t, j, X)
  \/ SaveDay(p)
  \/ \E x \in Expenses : ListExpense(p, x)

RequestMoves(p) ==
  ShiftMoves(p) \/ PaymentMoves(p) \/ DepositMoves(p) \/ DayMoves(p) \/ Stops(p)

Next ==
  \/ \E d \in Deposits, claim \in Invoices \cup {None} : SubmitDepositProof(d, claim)
  \/ \E p \in Requests : RequestMoves(p)

Spec == Init /\ [][Next]_vars

(* A technician closes a day from one screen: no second request to close it is
   sent while one is in flight.                                              *)
OneScreen ==
  \A p, q \in Requests :
    /\ {request[p].at, request[q].at} \subseteq {"saveDay", "listExpenses"}
    /\ request[p].day = request[q].day
    => p = q

ScreenSpec == Init /\ [][Next /\ OneScreen']_vars

-----------------------------------------------------------------------------
(* Properties *)

(* The rows and the requests have their types. *)
CashTypeOK ==
  /\ register \in [Registers -> Shift \cup {NoShift}]
  /\ sales \subseteq Sale /\ payments \in 0..MaxPayments
  /\ invoice \in [Invoices -> {"OPEN", "ISSUED"}]
  /\ proof \in [Deposits -> Proof \cup {NoProof}]
  /\ day \in [Days -> Jornada \cup {NoDay}]
  /\ listed \in [Days -> [Expenses -> Nat]]
  /\ request \in [Requests -> Request]

(* A sale that is committed while its shift is open and nobody is closing it is
   in the expected amount the shift is closed with, and still belongs to the
   shift, whatever was under way when the closing began, however many requests
   close the shift at once and whatever is rung up on it later; and the amount
   has no sale of another shift.                                             *)
TimelySalesAreCounted ==
  /\ \A s \in sales : s.timely =>
       /\ s.register = s.made
       /\ register[s.made].status = "CLOSED" => s.key \in register[s.made].counted
  /\ \A r \in Registers : register[r].status = "CLOSED" =>
       register[r].counted \subseteq {s.key : s \in {z \in sales : z.made = r}}

(* An invoice is paid a second time only by a payment that read it before the
   first was committed, whoever collects: the counter, a technician, the
   invoicing screen, or a reviewer who applies a deposit.                    *)
PaidAgainOnlyInARace ==
  \A s, z \in sales :
    s.key[2] = z.key[2] /\ s.key[2] \in Invoices /\ s.key[1] < z.key[1] => z.seen < s.key[1]

(* An expense is reimbursed once, and only if the total of its day has it, also
   when the closing of the day stops half-way and is sent again.             *)
ExpensesAreListedOnce ==
  \A j \in Days : \A x \in Expenses :
    /\ listed[j][x] <= 1
    /\ listed[j][x] = 1 => day[j].status = "CLOSED" /\ x \in day[j].total

(* What the repository says and the code does not do, each checked by
   cash_divergent.cfg.

   What a shift is closed with is what was rung up on it: a sale that is under
   way while its shift is closed, or that names a closed shift, is missing.  *)
ClosureCountsItsSales ==
  \A r \in Registers : register[r].status = "CLOSED" =>
    /\ register[r].counted = {s.key : s \in {z \in sales : z.made = r}}
    /\ \A s \in sales : s.made = r => s.register = r

(* A cashier has one shift open at a time (openCashRegister refuses a second). *)
OneShiftPerCashier ==
  \A u \in Cashiers : \A r, q \in ActiveRegisters(u) : r = q

(* Of one invoice there is one paid sale. *)
PaidByOneChannel ==
  \A s, z \in sales : s.key[2] \in Invoices /\ s.key[2] = z.key[2] => s = z

(* The approval of a deposit pays one invoice at most. *)
ApprovalPaysOnce ==
  \A s, z \in sales : s.auto /\ z.auto /\ s.proof = z.proof => s = z

(* A deposit that pays something is approved. *)
RejectedPaysNothing ==
  \A s \in sales : s.proof # None => proof[s.proof].status = "APPROVED"

(* The application of a deposit is "sin caja registradora",
   no cash being involved (portal.service.ts, applyDepositProofToInvoice): it
   takes the open shift of the reviewer, whose closure then expects the money. *)
TransfersStayOutOfTheDrawer == \A s \in sales : s.proof # None => s.made = None

(* totalExpensesAmount is the sum of the lines (daily-closure.entity.ts): the day
   is closed before they are written, and a photo that fails leaves them out. *)
TotalsAreListed ==
  \A j \in Days : day[j].status = "CLOSED" =>
    \A x \in day[j].total : \/ listed[j][x] > 0
                           \/ \E p \in Requests : request[p].at = "listExpenses" /\ request[p].day = j

=============================================================================
