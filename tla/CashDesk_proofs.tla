--------------------------- MODULE CashDesk_proofs ---------------------------
(* The theorems of CashDesk, for any cashiers, shifts, invoices, deposits,
   days and requests, and any number of payments.                            *)
EXTENDS CashDesk, TLAPS

USE BoundsAssumption

-----------------------------------------------------------------------------
(* Types *)

(* The step of a request tells what it carries. *)
LEMMA KindOf ==
  ASSUME NEW k \in Request
  PROVE  /\ k.at = "insertRegister" => k \in Opening
         /\ k.at = "saveRegister" => k \in Closing
         /\ k.at \in {"settle", "commit"} => k \in Paying
         /\ k.at = "saveReview" => k \in Reviewing
         /\ k.at = "findOldest" => k \in Looking
         /\ k.at = "apply" => k \in Applying
         /\ k.at = "saveProof" => k \in Recording
         /\ k.at = "insertDay" => k \in Starting
         /\ k.at = "saveDay" => k \in Leaving
         /\ k.at = "listExpenses" => k \in Listing
BY DEF Request, Opening, Closing, Paying, Reviewing, Looking, Applying, Recording, Starting,
       Leaving, Listing, Idle

(* A request that goes on has its type, and the others keep theirs. *)
LEMMA RequestTypes ==
  ASSUME CashTypeOK, NEW p \in Requests, NEW step \in Request,
         Goes(p, step) \/ Begins(p, step)
  PROVE  /\ request' \in [Requests -> Request]
         /\ request'[p] = step
         /\ \A q \in Requests : q # p => request'[q] = request[q]
BY DEF CashTypeOK, Goes, Begins

(* The steps that begin or end where the types are plain. *)
LEMMA StepKinds ==
  /\ Idle \in Request
  /\ \A u \in Cashiers : [at |-> "insertRegister", user |-> u] \in Request
  /\ \A r \in Registers, row \in Shift, K \in SUBSET Keys :
       [at |-> "saveRegister", register |-> r, row |-> row, counted |-> K] \in Request
  /\ \A r \in Registers \cup {None}, I \in SUBSET Invoices, c, a \in BOOLEAN,
        d \in Deposits \cup {None} :
       Payment(r, I, c, d, a) \in Paying /\ Payment(r, I, c, d, a) \in Request
  /\ \A u \in Reviewers, d \in Deposits, row \in Proof, v \in Verdicts :
       [at |-> "saveReview", user |-> u, deposit |-> d, row |-> row, verdict |-> v] \in Request
  /\ \A u \in Reviewers, d \in Deposits :
       [at |-> "findOldest", user |-> u, deposit |-> d] \in Request
  /\ \A u \in Reviewers, d \in Deposits, i \in Invoices :
       [at |-> "apply", user |-> u, deposit |-> d, invoice |-> i] \in Request
  /\ \A d \in Deposits, i \in Invoices :
       [at |-> "saveProof", deposit |-> d, invoice |-> i] \in Request
<1>1. Idle \in Request
  BY DEF Request
<1>2. \A u \in Cashiers : [at |-> "insertRegister", user |-> u] \in Request
  BY DEF Request, Opening
<1>3. \A r \in Registers, row \in Shift, K \in SUBSET Keys :
        [at |-> "saveRegister", register |-> r, row |-> row, counted |-> K] \in Request
  BY DEF Request, Closing
<1>4. \A r \in Registers \cup {None}, I \in SUBSET Invoices, c, a \in BOOLEAN,
         d \in Deposits \cup {None} : Payment(r, I, c, d, a) \in Paying
  BY DEF Payment, Paying
<1>5. \A u \in Reviewers, d \in Deposits, row \in Proof, v \in Verdicts :
        [at |-> "saveReview", user |-> u, deposit |-> d, row |-> row, verdict |-> v] \in Request
  BY DEF Request, Reviewing
<1>6. \A u \in Reviewers, d \in Deposits :
        [at |-> "findOldest", user |-> u, deposit |-> d] \in Request
  BY DEF Request, Looking
<1>7. \A u \in Reviewers, d \in Deposits, i \in Invoices :
        [at |-> "apply", user |-> u, deposit |-> d, invoice |-> i] \in Request
  BY DEF Request, Applying
<1>8. \A d \in Deposits, i \in Invoices :
        [at |-> "saveProof", deposit |-> d, invoice |-> i] \in Request
  BY DEF Request, Recording
<1> QED
  BY <1>1, <1>2, <1>3, <1>4, <1>5, <1>6, <1>7, <1>8 DEF Request

(* The steps of a working day. *)
LEMMA DayKinds ==
  /\ \A t \in Technicians : [at |-> "insertDay", technician |-> t] \in Request
  /\ \A j \in Days, row \in Jornada, X \in SUBSET Expenses :
       [at |-> "saveDay", day |-> j, row |-> row, expenses |-> X] \in Request
  /\ \A j \in Days, X \in SUBSET Expenses :
       [at |-> "listExpenses", day |-> j, expenses |-> X] \in Request
BY DEF Request, Starting, Leaving, Listing

(* The sales of a payment are rows of their table. *)
LEMMA NewSalesTypes ==
  ASSUME CashTypeOK, NEW k \in Paying, payments < MaxPayments
  PROVE  NewSales(k) \subseteq Sale
<1>1. payments + 1 \in 1..MaxPayments /\ InTime(k.register) \in BOOLEAN
  BY DEF CashTypeOK, InTime
<1>2. k.invoices \cup (IF k.charge THEN {Charge} ELSE {}) \subseteq Things
  BY DEF Paying, Things
<1> QED
  BY <1>1, <1>2 DEF NewSales, Sale, Keys, Paying

LEMMA ShiftTypes ==
  ASSUME CashTypeOK, NEW p \in Requests, ShiftMoves(p)
  PROVE  CashTypeOK'
<1>1. CASE \E u \in Cashiers : OpenCashRegister(p, u)
  BY <1>1, RequestTypes, StepKinds DEF OpenCashRegister, CashTypeOK, deskVars, fieldVars
<1>2. ASSUME NEW r \in Registers, InsertRegister(p, r) PROVE CashTypeOK'
  <2>1. request[p] \in Opening
    BY <1>2, KindOf DEF InsertRegister, CashTypeOK
  <2>2. [status |-> "OPEN", user |-> request[p].user, counted |-> {}] \in Shift
    BY <2>1 DEF Opening, Shift
  <2>3. register' \in [Registers -> Shift \cup {NoShift}]
    BY <1>2, <2>2 DEF InsertRegister, CashTypeOK
  <2> QED
    BY <1>2, <2>3, RequestTypes, StepKinds DEF InsertRegister, CashTypeOK, fieldVars
<1>3. ASSUME NEW r \in Registers, CloseCashRegister(p, r) PROVE CashTypeOK'
  <2>1. register[r] \in Shift
    BY <1>3 DEF CloseCashRegister, CashTypeOK, NoShift
  <2>2. {s.key : s \in SalesOf(r)} \in SUBSET Keys
    BY DEF SalesOf, CashTypeOK, Sale
  <2> QED
    BY <1>3, <2>1, <2>2, RequestTypes, StepKinds DEF CloseCashRegister, CashTypeOK, deskVars, fieldVars
<1>4. CASE SaveRegister(p)
  <2>1. request[p] \in Closing
    BY <1>4, KindOf DEF SaveRegister, CashTypeOK
  <2>2. register' \in [Registers -> Shift \cup {NoShift}]
    BY <1>4, <2>1 DEF SaveRegister, CashTypeOK, Closing, Shift
  <2>3. \A s \in sales, r \in Registers \cup {None} : [s EXCEPT !.register = r] \in Sale
    BY DEF CashTypeOK, Sale
  <2>4. sales' \subseteq Sale
    <3> DEFINE c == request[p]
               turned(s) == [s EXCEPT !.register = IF s.key \in c.counted THEN c.register ELSE None]
    <3>1. PICK moved \in SUBSET sales : sales' = (sales \ moved) \cup {turned(s) : s \in moved}
      BY <1>4 DEF SaveRegister
    <3>2. ASSUME NEW s \in moved PROVE turned(s) \in Sale
      <4>1. CASE s.key \in c.counted
        BY <2>1, <2>3, <4>1 DEF Closing
      <4>2. CASE s.key \notin c.counted
        BY <2>3, <4>2
      <4> QED
        BY <4>1, <4>2
    <3> HIDE DEF turned
    <3> QED
      BY <3>1, <3>2 DEF CashTypeOK
  <2> QED
    BY <1>4, <2>2, <2>4, RequestTypes, StepKinds DEF SaveRegister, CashTypeOK, fieldVars
<1> QED
  BY <1>1, <1>2, <1>3, <1>4 DEF ShiftMoves

LEMMA PaymentTypes ==
  ASSUME CashTypeOK, NEW p \in Requests, PaymentMoves(p)
  PROVE  CashTypeOK'
<1> USE StepKinds, RequestTypes DEF deskVars, fieldVars
<1>1. CASE \E u \in Cashiers, r \in Registers : Checkout(p, u, r)
  BY <1>1 DEF Checkout, CashTypeOK
<1>2. CASE \E u \in Cashiers \cup Technicians, r \in Registers \cup {None}, I \in SUBSET Invoices,
             fee \in BOOLEAN : CollectInvoices(p, u, r, I, fee)
  BY <1>2 DEF CollectInvoices, CashTypeOK
<1>3. CASE \E i \in Invoices : SettlePendingInvoice(p, i)
  BY <1>3 DEF SettlePendingInvoice, CashTypeOK
<1>4. CASE EmitDirect(p)
  BY <1>4 DEF EmitDirect, CashTypeOK
<1>5. CASE SettleInvoices(p)
  <2>1. request[p] \in Paying
    BY <1>5, KindOf DEF SettleInvoices, CashTypeOK
  <2>2. [request[p] EXCEPT !.at = "commit", !.seen = payments] \in Request
    BY <2>1 DEF Paying, Request, CashTypeOK
  <2> QED
    BY <1>5, <2>2 DEF SettleInvoices, CashTypeOK
<1>6. CASE CommitPayment(p)
  <2>1. request[p] \in Paying
    BY <1>6, KindOf DEF CommitPayment, CashTypeOK
  <2>2. sales' \subseteq Sale
    BY <1>6, <2>1, NewSalesTypes DEF CommitPayment, CashTypeOK
  <2>3. payments' \in 0..MaxPayments /\ invoice' \in [Invoices -> {"OPEN", "ISSUED"}]
    BY <1>6 DEF CommitPayment, CashTypeOK
  <2>4. request' \in [Requests -> Request]
    BY <1>6, <2>1 DEF CommitPayment, Paying
  <2> QED
    BY <1>6, <2>2, <2>3, <2>4 DEF CommitPayment, CashTypeOK
<1> QED
  BY <1>1, <1>2, <1>3, <1>4, <1>5, <1>6 DEF PaymentMoves

LEMMA DepositTypes ==
  ASSUME CashTypeOK, NEW p \in Requests, DepositMoves(p)
  PROVE  CashTypeOK'
<1> USE StepKinds, RequestTypes DEF deskVars, fieldVars
<1>1. ASSUME NEW u \in Reviewers, NEW d \in Deposits, NEW v \in Verdicts, ReviewDepositProof(p, u, d, v)
      PROVE  CashTypeOK'
  <2>1. proof[d] \in Proof
    BY <1>1 DEF ReviewDepositProof, Reviewable, CashTypeOK, NoProof
  <2> QED
    BY <1>1, <2>1 DEF ReviewDepositProof, CashTypeOK
<1>2. CASE SaveReview(p)
  <2>1. request[p] \in Reviewing
    BY <1>2, KindOf DEF SaveReview, CashTypeOK
  <2>2. proof' \in [Deposits -> Proof \cup {NoProof}]
    BY <1>2, <2>1 DEF SaveReview, CashTypeOK, Reviewing, Proof
  <2>3. request' \in [Requests -> Request]
    BY <1>2, <2>1 DEF SaveReview, Reviewing
  <2> QED
    BY <1>2, <2>2, <2>3 DEF SaveReview, CashTypeOK
<1>3. CASE FindOldest(p)
  <2>1. request[p] \in Looking
    BY <1>3, KindOf DEF FindOldest, CashTypeOK
  <2>2. request' \in [Requests -> Request]
    BY <1>3, <2>1 DEF FindOldest, Looking
  <2> QED
    BY <1>3, <2>2 DEF FindOldest, CashTypeOK
<1>4. ASSUME NEW r \in Registers \cup {None}, ApplyApproved(p, r) PROVE CashTypeOK'
  <2>1. request[p] \in Applying
    BY <1>4, KindOf DEF ApplyApproved, CashTypeOK
  <2> QED
    BY <1>4, <2>1 DEF ApplyApproved, CashTypeOK, Applying
<1>5. CASE \E u \in Reviewers, r \in Registers \cup {None}, d \in Deposits, i \in Invoices :
             ApplyByHand(p, u, r, d, i)
  BY <1>5 DEF ApplyByHand, CashTypeOK
<1>6. CASE SaveProof(p)
  <2>1. request[p] \in Recording
    BY <1>6, KindOf DEF SaveProof, CashTypeOK
  <2>2. proof' \in [Deposits -> Proof \cup {NoProof}]
    BY <1>6, <2>1 DEF SaveProof, CashTypeOK, Recording, Proof, Verdicts
  <2> QED
    BY <1>6, <2>2 DEF SaveProof, CashTypeOK
<1> QED
  BY <1>1, <1>2, <1>3, <1>4, <1>5, <1>6 DEF DepositMoves

LEMMA DayTypes ==
  ASSUME CashTypeOK, NEW p \in Requests, DayMoves(p)
  PROVE  CashTypeOK'
<1> USE StepKinds, DayKinds, RequestTypes DEF deskVars, fieldVars
<1>1. CASE \E t \in Technicians : StartJornada(p, t)
  BY <1>1 DEF StartJornada, CashTypeOK
<1>2. ASSUME NEW j \in Days, InsertDay(p, j) PROVE CashTypeOK'
  <2>1. request[p] \in Starting
    BY <1>2, KindOf DEF InsertDay, CashTypeOK
  <2>2. day' \in [Days -> Jornada \cup {NoDay}]
    BY <1>2, <2>1 DEF InsertDay, CashTypeOK, Starting, Jornada
  <2> QED
    BY <1>2, <2>2 DEF InsertDay, CashTypeOK
<1>3. ASSUME NEW t \in Technicians, NEW j \in Days, NEW X \in SUBSET Expenses, CloseDay(p, t, j, X)
      PROVE  CashTypeOK'
  <2>1. day[j] \in Jornada
    BY <1>3 DEF CloseDay, Closable, OpenDays, CashTypeOK, NoDay
  <2> QED
    BY <1>3, <2>1 DEF CloseDay, CashTypeOK
<1>4. CASE SaveDay(p)
  <2>1. request[p] \in Leaving
    BY <1>4, KindOf DEF SaveDay, CashTypeOK
  <2>2. day' \in [Days -> Jornada \cup {NoDay}]
    BY <1>4, <2>1 DEF SaveDay, CashTypeOK, Leaving, Jornada
  <2>3. request' \in [Requests -> Request]
    BY <1>4, <2>1 DEF SaveDay, Leaving
  <2> QED
    BY <1>4, <2>2, <2>3 DEF SaveDay, CashTypeOK
<1>5. ASSUME NEW x \in Expenses, ListExpense(p, x) PROVE CashTypeOK'
  <2>1. request[p] \in Listing
    BY <1>5, KindOf DEF ListExpense, CashTypeOK
  <2>2. listed' \in [Days -> [Expenses -> Nat]]
    BY <1>5, <2>1 DEF ListExpense, CashTypeOK, Listing
  <2>3. [request[p] EXCEPT !.expenses = @ \ {x}] \in Request
    BY <2>1 DEF Listing, Request
  <2>4. request' \in [Requests -> Request]
    BY <1>5, <2>3 DEF ListExpense
  <2> QED
    BY <1>5, <2>2, <2>4 DEF ListExpense, CashTypeOK
<1> QED
  BY <1>1, <1>2, <1>3, <1>4, <1>5 DEF DayMoves

LEMMA InitTypes == Init => CashTypeOK
BY StepKinds DEF Init, CashTypeOK

LEMMA NextTypes == CashTypeOK /\ [Next]_vars => CashTypeOK'
<1> SUFFICES ASSUME CashTypeOK, [Next]_vars PROVE CashTypeOK'
  OBVIOUS
<1>1. ASSUME NEW d \in Deposits, NEW claim \in Invoices \cup {None}, SubmitDepositProof(d, claim)
      PROVE  CashTypeOK'
  <2>1. proof' \in [Deposits -> Proof \cup {NoProof}]
    BY <1>1 DEF SubmitDepositProof, CashTypeOK, Proof
  <2> QED
    BY <1>1, <2>1 DEF SubmitDepositProof, CashTypeOK, deskVars, fieldVars
<1>2. ASSUME NEW p \in Requests, Stops(p) PROVE CashTypeOK'
  BY <1>2, StepKinds, RequestTypes DEF Stops, CashTypeOK, deskVars, fieldVars
<1>3. CASE UNCHANGED vars
  BY <1>3 DEF vars, CashTypeOK
<1> QED
  BY <1>1, <1>2, <1>3, ShiftTypes, PaymentTypes, DepositTypes, DayTypes DEF Next, RequestMoves

(* The rows of shifts, sales, deposits and days, and the requests in flight,
   keep their types, whatever overlaps and wherever a request stops.         *)
THEOREM CashTypes == Spec => []CashTypeOK
<1> QED
  BY InitTypes, NextTypes, PTL DEF Spec

-----------------------------------------------------------------------------
(* Shifts and payments, whatever overlaps *)

KeysMadeOn(r) == {s.key : s \in {z \in sales : z.made = r}}

(* A sale is told by its key, belongs to the shift it was made on or to none,
   and has settled its invoice.                                              *)
SalesInv ==
  /\ \A s, z \in sales : s.key = z.key => s = z
  /\ \A s \in sales :
       /\ s.key[1] <= payments
       /\ s.register \in {s.made, None}
       /\ s.timely => s.made \in Registers
       /\ s.key[2] \in Invoices => invoice[s.key[2]] = "ISSUED"

(* A request that closes a shift has counted the timely sales of the shift, and
   none of another; one that commits a payment read its invoices before any
   other payment of them was committed.                                      *)
RequestInv ==
  \A p \in Requests :
    /\ request[p].at = "saveRegister" =>
         /\ \A s \in sales : s.timely /\ s.made = request[p].register => s.key \in request[p].counted
         /\ request[p].counted \subseteq KeysMadeOn(request[p].register)
    /\ request[p].at = "commit" =>
         /\ request[p].seen <= payments
         /\ \A s \in sales : s.key[2] \in request[p].invoices => request[p].seen < s.key[1]

DeskInv == SalesInv /\ RequestInv /\ TimelySalesAreCounted /\ PaidAgainOnlyInARace

(* The keys of sales are of payments. *)
LEMMA SaleKeys ==
  ASSUME CashTypeOK, NEW s \in sales
  PROVE  /\ s.key = <<s.key[1], s.key[2]>> /\ s.key[1] \in 1..MaxPayments /\ s.key[2] \in Things
         /\ s.seen \in 0..MaxPayments /\ s \in Sale
BY DEF CashTypeOK, Sale, Keys

(* A step that moves no shift and no sale, and goes on neither to close a shift
   nor to commit a payment.                                                  *)
LEMMA QuietDesk ==
  ASSUME CashTypeOK, DeskInv, NEW p \in Requests, UNCHANGED deskVars,
         \A q \in Requests : q # p => request'[q] = request[q],
         request'[p].at \notin {"saveRegister", "commit"}
  PROVE  DeskInv'
<1>1. SalesInv' /\ TimelySalesAreCounted' /\ PaidAgainOnlyInARace'
  BY DEF deskVars, DeskInv, SalesInv, TimelySalesAreCounted, PaidAgainOnlyInARace
<1>2. RequestInv'
  <2> SUFFICES ASSUME NEW q \in Requests, request'[q].at \in {"saveRegister", "commit"}
               PROVE  request'[q] = request[q]
    BY DEF deskVars, DeskInv, RequestInv, KeysMadeOn
  <2> QED
    OBVIOUS
<1> QED
  BY <1>1, <1>2 DEF DeskInv

(* The shift is inserted. *)
LEMMA InsertKeepsDesk ==
  ASSUME CashTypeOK, DeskInv, NEW p \in Requests, NEW r \in Registers, InsertRegister(p, r)
  PROVE  DeskInv'
<1>1. /\ UNCHANGED <<sales, payments, invoice>>
      /\ register' = [register EXCEPT ![r] = [status |-> "OPEN", user |-> request[p].user,
                                              counted |-> {}]]
      /\ \A q \in Requests : request'[q] = request[q] \/ request'[q] = Idle
  BY DEF InsertRegister, Goes, CashTypeOK
<1>2. \A q \in Registers : register'[q].status = "CLOSED" => register'[q] = register[q]
  BY <1>1 DEF CashTypeOK
<1>3. SalesInv' /\ PaidAgainOnlyInARace'
  BY <1>1 DEF DeskInv, SalesInv, PaidAgainOnlyInARace
<1>4. TimelySalesAreCounted'
  BY <1>1, <1>2 DEF DeskInv, SalesInv, TimelySalesAreCounted
<1>5. RequestInv'
  BY <1>1 DEF DeskInv, RequestInv, KeysMadeOn, Idle
<1> QED
  BY <1>3, <1>4, <1>5 DEF DeskInv

(* The shift is loaded with its sales: the timely ones are among them. *)
LEMMA CloseKeepsDesk ==
  ASSUME CashTypeOK, DeskInv, NEW p \in Requests, NEW r \in Registers, CloseCashRegister(p, r)
  PROVE  DeskInv'
<1>1. /\ UNCHANGED deskVars
      /\ \A q \in Requests : q # p => request'[q] = request[q]
      /\ request'[p] = [at |-> "saveRegister", register |-> r, row |-> register[r],
                        counted |-> {s.key : s \in SalesOf(r)}]
  BY DEF CloseCashRegister, Begins, CashTypeOK
<1>2. SalesInv' /\ TimelySalesAreCounted' /\ PaidAgainOnlyInARace'
  BY <1>1 DEF deskVars, DeskInv, SalesInv, TimelySalesAreCounted, PaidAgainOnlyInARace
<1>3. /\ \A s \in sales : s.timely /\ s.made = r => s.key \in {z.key : z \in SalesOf(r)}
      /\ {s.key : s \in SalesOf(r)} \subseteq KeysMadeOn(r)
  BY NoneAssumption DEF DeskInv, SalesInv, TimelySalesAreCounted, SalesOf, KeysMadeOn
<1>4. RequestInv'
  <2> SUFFICES ASSUME NEW q \in Requests
               PROVE  /\ request'[q].at = "saveRegister" =>
                           /\ \A s \in sales : s.timely /\ s.made = request'[q].register
                                => s.key \in request'[q].counted
                           /\ request'[q].counted \subseteq KeysMadeOn(request'[q].register)
                      /\ request'[q].at = "commit" =>
                           /\ request'[q].seen <= payments
                           /\ \A s \in sales : s.key[2] \in request'[q].invoices
                                => request'[q].seen < s.key[1]
    BY <1>1 DEF deskVars, RequestInv, KeysMadeOn
  <2>1. CASE q = p
    BY <1>1, <1>3, <2>1
  <2>2. CASE q # p
    BY <1>1, <2>2 DEF DeskInv, RequestInv
  <2> QED
    BY <2>1, <2>2
<1> QED
  BY <1>2, <1>4 DEF DeskInv

(* The save of a closed shift moves sales off the shift or back on it, but no
   timely one.                                                               *)
LEMMA SaveKeepsDesk ==
  ASSUME CashTypeOK, DeskInv, NEW p \in Requests, SaveRegister(p)
  PROVE  DeskInv'
<1> DEFINE c == request[p]
           Same(z, s) == /\ z.key = s.key /\ z.made = s.made /\ z.timely = s.timely
                         /\ z.seen = s.seen
<1>1. c \in Closing /\ c.register \in Registers /\ c.register # None
  BY KindOf, NoneAssumption DEF SaveRegister, CashTypeOK, Closing
<1>2. PICK moved \in SUBSET {s \in sales : ~(s.register = c.register <=> s.key \in c.counted)} :
        sales' = (sales \ moved) \cup
          {[s EXCEPT !.register = IF s.key \in c.counted THEN c.register ELSE None] : s \in moved}
  BY DEF SaveRegister
<1>3. /\ register' = [register EXCEPT ![c.register] =
                        [c.row EXCEPT !.status = "CLOSED", !.counted = c.counted]]
      /\ UNCHANGED <<payments, invoice>>
      /\ \A q \in Requests : request'[q] = request[q] \/ request'[q] = Idle
  BY DEF SaveRegister, Goes, CashTypeOK
<1>4. /\ \A s \in sales : s.timely /\ s.made = c.register => s.key \in c.counted
      /\ c.counted \subseteq KeysMadeOn(c.register)
  BY DEF SaveRegister, DeskInv, RequestInv
<1>5. ASSUME NEW s \in sales, s.key \in c.counted PROVE s.made = c.register
  BY <1>4, <1>5 DEF KeysMadeOn, DeskInv, SalesInv
<1>6. ASSUME NEW s \in moved
      PROVE  /\ ~s.timely
             /\ Same([s EXCEPT !.register = IF s.key \in c.counted THEN c.register ELSE None], s)
  <2>1. s \in sales /\ s \in Sale
    BY SaleKeys
  <2>2. ~s.timely
    <3> SUFFICES ASSUME s.timely PROVE FALSE
      OBVIOUS
    <3>1. s.register = s.made
      BY <2>1 DEF DeskInv, TimelySalesAreCounted
    <3> QED
      BY <1>4, <1>5, <2>1, <3>1
  <2> QED
    BY <2>1, <2>2 DEF Sale
<1>7. ASSUME NEW z \in sales'
      PROVE  \E s \in sales :
               /\ Same(z, s) /\ z.register \in {s.register, s.made, None}
               /\ IF s \in moved THEN ~z.timely
                    /\ z = [s EXCEPT !.register = IF s.key \in c.counted THEN c.register ELSE None]
                  ELSE z = s
  <2>1. CASE z \in sales \ moved
    BY <2>1
  <2>2. ASSUME NEW s \in moved,
               z = [s EXCEPT !.register = IF s.key \in c.counted THEN c.register ELSE None]
        PROVE  /\ Same(z, s) /\ z.register \in {s.register, s.made, None} /\ ~z.timely
               /\ s \in sales
    <3>1. s \in sales /\ s \in Sale
      BY SaleKeys
    <3>2. z.register = IF s.key \in c.counted THEN c.register ELSE None
      BY <2>2, <3>1 DEF Sale
    <3>3. Same(z, s) /\ ~s.timely
      BY <1>6, <2>2
    <3> HIDE DEF c
    <3> QED
      BY <1>5, <3>1, <3>2, <3>3
  <2> HIDE DEF Same, c
  <2> QED
    BY <1>2, <2>1, <2>2
<1>8. ASSUME NEW s \in sales PROVE \E z \in sales' : Same(z, s)
  BY <1>2, <1>6
<1>9. SalesInv'
  <2>1. ASSUME NEW y \in sales', NEW z \in sales', y.key = z.key PROVE y = z
    <3>1. PICK s \in sales : Same(y, s) /\ IF s \in moved
            THEN y = [s EXCEPT !.register = IF s.key \in c.counted THEN c.register ELSE None]
            ELSE y = s
      BY <1>7
    <3>2. PICK t \in sales : Same(z, t) /\ IF t \in moved
            THEN z = [t EXCEPT !.register = IF t.key \in c.counted THEN c.register ELSE None]
            ELSE z = t
      BY <1>7
    <3>3. s = t
      BY <2>1, <3>1, <3>2 DEF DeskInv, SalesInv
    <3> QED
      BY <3>1, <3>2, <3>3
  <2>2. ASSUME NEW z \in sales'
        PROVE  /\ z.key[1] <= payments' /\ z.register \in {z.made, None}
               /\ z.timely => z.made \in Registers
               /\ z.key[2] \in Invoices => invoice'[z.key[2]] = "ISSUED"
    <3>1. PICK s \in sales : Same(z, s) /\ z.register \in {s.register, s.made, None}
      BY <1>7
    <3>2. s.register \in {s.made, None}
      BY DEF DeskInv, SalesInv
    <3> QED
      BY <1>3, <3>1, <3>2 DEF DeskInv, SalesInv
  <2> QED
    BY <2>1, <2>2 DEF SalesInv
<1>10. \A r : KeysMadeOn(r)' = KeysMadeOn(r)
  BY <1>7, <1>8 DEF KeysMadeOn
<1>11. TimelySalesAreCounted'
  <2>1. \A r \in Registers : register'[r] =
          IF r = c.register THEN [c.row EXCEPT !.status = "CLOSED", !.counted = c.counted]
          ELSE register[r]
    BY <1>3 DEF CashTypeOK
  <2>2. [c.row EXCEPT !.status = "CLOSED", !.counted = c.counted].counted = c.counted
    BY <1>1 DEF Closing, Shift
  <2>3. ASSUME NEW z \in sales', z.timely
        PROVE  /\ z.register = z.made
               /\ register'[z.made].status = "CLOSED" => z.key \in register'[z.made].counted
    <3>1. z \in sales /\ z.made \in Registers
      BY <1>7, <2>3 DEF DeskInv, SalesInv
    <3>2. /\ z.register = z.made
          /\ register[z.made].status = "CLOSED" => z.key \in register[z.made].counted
      BY <2>3, <3>1 DEF DeskInv, TimelySalesAreCounted
    <3>3. CASE z.made = c.register
      BY <1>4, <2>1, <2>2, <2>3, <3>1, <3>2, <3>3
    <3>4. CASE z.made # c.register
      BY <2>1, <3>1, <3>2, <3>4
    <3> QED
      BY <3>3, <3>4
  <2>4. ASSUME NEW r \in Registers, register'[r].status = "CLOSED"
        PROVE  register'[r].counted \subseteq KeysMadeOn(r)'
    <3>1. register[r].status = "CLOSED" => register[r].counted \subseteq KeysMadeOn(r)
      BY DEF DeskInv, TimelySalesAreCounted, KeysMadeOn
    <3>2. CASE r = c.register
      BY <1>4, <1>10, <2>1, <2>2, <3>2
    <3>3. CASE r # c.register
      BY <1>10, <2>1, <2>4, <3>1, <3>3
    <3> QED
      BY <3>2, <3>3
  <2> QED
    BY <2>3, <2>4 DEF TimelySalesAreCounted, KeysMadeOn
<1>12. PaidAgainOnlyInARace'
  <2> SUFFICES ASSUME NEW y \in sales', NEW z \in sales', y.key[2] = z.key[2],
                      y.key[2] \in Invoices, y.key[1] < z.key[1]
               PROVE  z.seen < y.key[1]
    BY DEF PaidAgainOnlyInARace
  <2>1. PICK s \in sales : Same(y, s)
    BY <1>7
  <2>2. PICK t \in sales : Same(z, t)
    BY <1>7
  <2> QED
    BY <2>1, <2>2 DEF DeskInv, PaidAgainOnlyInARace
<1>13. RequestInv'
  <2> SUFFICES ASSUME NEW q \in Requests, request'[q] = request[q]
               PROVE  /\ request[q].at = "saveRegister" =>
                           /\ \A z \in sales' : z.timely /\ z.made = request[q].register
                                => z.key \in request[q].counted
                           /\ request[q].counted \subseteq KeysMadeOn(request[q].register)'
                      /\ request[q].at = "commit" =>
                           /\ request[q].seen <= payments
                           /\ \A z \in sales' : z.key[2] \in request[q].invoices
                                => request[q].seen < z.key[1]
    BY <1>3 DEF RequestInv, KeysMadeOn, Idle
  <2>1. request[q].at = "saveRegister" =>
          request[q].counted \subseteq KeysMadeOn(request[q].register)'
    BY <1>10 DEF DeskInv, RequestInv
  <2>2. ASSUME NEW z \in sales'
        PROVE  /\ request[q].at = "saveRegister" =>
                    (z.timely /\ z.made = request[q].register => z.key \in request[q].counted)
               /\ request[q].at = "commit" =>
                    (z.key[2] \in request[q].invoices => request[q].seen < z.key[1])
    <3>1. PICK s \in sales : Same(z, s)
      BY <1>7
    <3> QED
      BY <3>1 DEF DeskInv, RequestInv
  <2>3. request[q].at = "commit" => request[q].seen <= payments
    BY DEF DeskInv, RequestInv
  <2> QED
    BY <2>1, <2>2, <2>3
<1> QED
  BY <1>9, <1>11, <1>12, <1>13 DEF DeskInv

(* The invoices are read again: none has a sale yet. *)
LEMMA SettleKeepsDesk ==
  ASSUME CashTypeOK, DeskInv, NEW p \in Requests, SettleInvoices(p)
  PROVE  DeskInv'
<1> DEFINE next == [request[p] EXCEPT !.at = "commit", !.seen = payments]
<1>1. request[p] \in Paying
  BY KindOf DEF SettleInvoices, CashTypeOK
<1>2. next.at = "commit" /\ next.seen = payments /\ next.invoices = request[p].invoices
  BY <1>1 DEF Paying
<1>3. /\ UNCHANGED deskVars /\ request'[p] = next
      /\ \A q \in Requests : q # p => request'[q] = request[q]
  BY DEF SettleInvoices, Goes, CashTypeOK
<1> HIDE DEF next
<1>4. \A s \in sales : s.key[2] \notin next.invoices
  BY <1>1, <1>2 DEF SettleInvoices, Payable, DeskInv, SalesInv, Paying
<1>5. SalesInv' /\ TimelySalesAreCounted' /\ PaidAgainOnlyInARace'
  BY <1>3 DEF deskVars, DeskInv, SalesInv, TimelySalesAreCounted, PaidAgainOnlyInARace
<1>6. payments <= payments
  BY DEF CashTypeOK
<1>7. RequestInv'
  BY <1>2, <1>3, <1>4, <1>6 DEF deskVars, DeskInv, RequestInv, KeysMadeOn
<1> QED
  BY <1>5, <1>7 DEF DeskInv

(* The payment is committed, under a number of its own. *)
LEMMA CommitKeepsDesk ==
  ASSUME CashTypeOK, DeskInv, NEW p \in Requests, CommitPayment(p)
  PROVE  DeskInv'
<1> DEFINE k == request[p]
<1>1. /\ k \in Paying /\ k.at = "commit" /\ payments \in Nat /\ payments' = payments + 1
      /\ sales' = sales \cup NewSales(k) /\ register' = register
      /\ invoice' = [i \in Invoices |-> IF i \in k.invoices THEN "ISSUED" ELSE invoice[i]]
  BY KindOf DEF CommitPayment, CashTypeOK
<1>2. /\ \A q \in Requests : q # p => request'[q] = request[q]
      /\ request'[p].at \notin {"saveRegister", "commit"}
  BY DEF CommitPayment, Goes, CashTypeOK, Idle
<1>3. ASSUME NEW z \in NewSales(k)
      PROVE  /\ z.key = <<payments + 1, z.key[2]>> /\ z.key[1] = payments + 1
             /\ z.key[2] \in k.invoices \cup {Charge}
             /\ z.register = k.register /\ z.made = k.register
             /\ z.timely = InTime(k.register) /\ z.seen = k.seen
  BY <1>3 DEF NewSales
<1>4. \A s \in sales : s.key[1] \in Nat /\ s.key[1] <= payments
  BY SaleKeys DEF DeskInv, SalesInv
<1>5. k.seen \in Nat /\ k.seen <= payments
      /\ \A s \in sales : s.key[2] \in k.invoices => k.seen < s.key[1]
  BY <1>1 DEF DeskInv, RequestInv, Paying
<1>6. SalesInv'
  <2>1. ASSUME NEW s \in NewSales(k), NEW z \in NewSales(k), s.key = z.key PROVE s = z
    BY <2>1 DEF NewSales
  <2>2. \A s \in sales, z \in NewSales(k) : s.key # z.key
    BY <1>1, <1>3, <1>4
  <2>3. \A s, z \in sales' : s.key = z.key => s = z
    BY <1>1, <2>1, <2>2 DEF DeskInv, SalesInv
  <2>4. ASSUME NEW s \in sales
        PROVE  /\ s.key[1] <= payments' /\ s.register \in {s.made, None}
               /\ s.timely => s.made \in Registers
               /\ s.key[2] \in Invoices => invoice'[s.key[2]] = "ISSUED"
    BY <1>1, <1>4 DEF DeskInv, SalesInv
  <2>5. ASSUME NEW z \in NewSales(k)
        PROVE  /\ z.key[1] <= payments' /\ z.register \in {z.made, None}
               /\ z.timely => z.made \in Registers
               /\ z.key[2] \in Invoices => invoice'[z.key[2]] = "ISSUED"
    <3>1. z.key[2] \in Invoices => z.key[2] \in k.invoices
      BY <1>3, ChargeAssumption
    <3>2. z.key[1] <= payments'
      BY <1>1, <1>3
    <3>3. z.timely => z.made \in Registers
      BY <1>3 DEF InTime
    <3>4. z.register = z.made
      BY <1>3
    <3> QED
      BY <1>1, <3>1, <3>2, <3>3, <3>4
  <2> QED
    BY <1>1, <2>3, <2>4, <2>5 DEF SalesInv
<1>7. \A r : KeysMadeOn(r) \subseteq KeysMadeOn(r)'
  BY <1>1 DEF KeysMadeOn
<1>8. TimelySalesAreCounted'
  <2>1. ASSUME NEW z \in sales', z.timely
        PROVE  /\ z.register = z.made
               /\ register[z.made].status = "CLOSED" => z.key \in register[z.made].counted
    <3>1. CASE z \in sales
      BY <2>1, <3>1 DEF DeskInv, TimelySalesAreCounted
    <3>2. CASE z \in NewSales(k)
      BY <1>3, <2>1, <3>2 DEF InTime
    <3> QED
      BY <1>1, <3>1, <3>2
  <2>2. \A r \in Registers : register[r].status = "CLOSED" =>
          register[r].counted \subseteq KeysMadeOn(r)'
    BY <1>7 DEF DeskInv, TimelySalesAreCounted, KeysMadeOn
  <2> QED
    BY <1>1, <2>1, <2>2 DEF TimelySalesAreCounted, KeysMadeOn
<1>9. PaidAgainOnlyInARace'
  <2> SUFFICES ASSUME NEW s \in sales', NEW z \in sales', s.key[2] = z.key[2],
                      s.key[2] \in Invoices, s.key[1] < z.key[1]
               PROVE  z.seen < s.key[1]
    BY DEF PaidAgainOnlyInARace
  <2>1. s \in sales
    BY <1>1, <1>3, <1>4
  <2>2. CASE z \in sales
    BY <2>1, <2>2 DEF DeskInv, PaidAgainOnlyInARace
  <2>3. CASE z \in NewSales(k)
    BY <1>3, <1>5, <2>1, <2>3, ChargeAssumption
  <2> QED
    BY <1>1, <2>2, <2>3
<1>10. RequestInv'
  <2> SUFFICES ASSUME NEW q \in Requests, q # p
               PROVE  /\ request[q].at = "saveRegister" =>
                           /\ \A s \in sales' : s.timely /\ s.made = request[q].register
                                => s.key \in request[q].counted
                           /\ request[q].counted \subseteq KeysMadeOn(request[q].register)'
                      /\ request[q].at = "commit" =>
                           /\ request[q].seen <= payments'
                           /\ \A s \in sales' : s.key[2] \in request[q].invoices
                                => request[q].seen < s.key[1]
    BY <1>2 DEF RequestInv, KeysMadeOn
  <2>1. request[q].at = "saveRegister" =>
          request[q].counted \subseteq KeysMadeOn(request[q].register)'
    <3>1. request[q].at = "saveRegister" =>
            request[q].counted \subseteq KeysMadeOn(request[q].register)
      BY DEF DeskInv, RequestInv
    <3> DEFINE r == request[q].register
    <3>2. request'[q] = request[q]
      BY <1>2
    <3>3. KeysMadeOn(r)' = {s.key : s \in {z \in sales' : z.made = r}}
      BY <3>2 DEF KeysMadeOn
    <3> QED
      BY <1>1, <3>1, <3>2, <3>3 DEF KeysMadeOn
  <2>2. ASSUME request[q].at = "saveRegister", NEW s \in sales', s.timely,
               s.made = request[q].register
        PROVE  s.key \in request[q].counted
    <3>1. s \notin NewSales(k)
      BY <1>3, <2>2 DEF InTime
    <3> QED
      BY <1>1, <2>2, <3>1 DEF DeskInv, RequestInv
  <2>3. ASSUME request[q].at = "commit"
        PROVE  /\ request[q].seen <= payments'
               /\ \A s \in sales' : s.key[2] \in request[q].invoices => request[q].seen < s.key[1]
    <3>1. /\ request[q].seen \in Nat /\ request[q].seen <= payments
          /\ \A s \in sales : s.key[2] \in request[q].invoices => request[q].seen < s.key[1]
      BY <2>3, KindOf DEF DeskInv, RequestInv, CashTypeOK, Paying
    <3> QED
      BY <1>1, <1>3, <3>1
  <2> QED
    BY <2>1, <2>2, <2>3
<1> QED
  BY <1>6, <1>8, <1>9, <1>10 DEF DeskInv

(* Every step of the system. *)
LEMMA DeskInvKept == CashTypeOK /\ DeskInv /\ [Next]_vars => DeskInv'
<1> SUFFICES ASSUME CashTypeOK, DeskInv, [Next]_vars PROVE DeskInv'
  OBVIOUS
<1> USE DEF Goes, Begins
<1>1. ASSUME UNCHANGED <<deskVars, request>> PROVE DeskInv'
  BY <1>1 DEF deskVars, DeskInv, SalesInv, RequestInv, TimelySalesAreCounted, PaidAgainOnlyInARace,
              KeysMadeOn
<1>2. ASSUME NEW p \in Requests, UNCHANGED deskVars,
             \A q \in Requests : q # p => request'[q] = request[q],
             request'[p].at \notin {"saveRegister", "commit"}
      PROVE  DeskInv'
  BY <1>2, QuietDesk
<1>3. ASSUME NEW p \in Requests, ShiftMoves(p) PROVE DeskInv'
  <2>1. CASE \E u \in Cashiers : OpenCashRegister(p, u)
    BY <1>2, <2>1 DEF OpenCashRegister, CashTypeOK
  <2> QED
    BY <1>3, <2>1, InsertKeepsDesk, CloseKeepsDesk, SaveKeepsDesk DEF ShiftMoves
<1>4. ASSUME NEW p \in Requests, PaymentMoves(p) PROVE DeskInv'
  <2> USE DEF Payment, CashTypeOK
  <2>1. CASE \E u \in Cashiers, r \in Registers : Checkout(p, u, r)
    BY <1>2, <2>1 DEF Checkout
  <2>2. CASE \E u \in Cashiers \cup Technicians, r \in Registers \cup {None},
                I \in SUBSET Invoices, fee \in BOOLEAN : CollectInvoices(p, u, r, I, fee)
    BY <1>2, <2>2 DEF CollectInvoices
  <2>3. CASE \E i \in Invoices : SettlePendingInvoice(p, i)
    BY <1>2, <2>3 DEF SettlePendingInvoice
  <2>4. CASE EmitDirect(p)
    BY <1>2, <2>4 DEF EmitDirect
  <2> HIDE DEF Payment, CashTypeOK
  <2> QED
    BY <1>4, <2>1, <2>2, <2>3, <2>4, SettleKeepsDesk, CommitKeepsDesk DEF PaymentMoves
<1>5. ASSUME NEW p \in Requests, DepositMoves(p) PROVE DeskInv'
  <2>1. UNCHANGED deskVars
    BY <1>5 DEF DepositMoves, ReviewDepositProof, SaveReview, FindOldest, ApplyApproved, ApplyByHand,
                SaveProof
  <2>2. /\ \A q \in Requests : q # p => request'[q] = request[q]
        /\ request'[p].at \notin {"saveRegister", "commit"}
    BY <1>5 DEF DepositMoves, ReviewDepositProof, SaveReview, FindOldest, ApplyApproved, ApplyByHand,
                SaveProof, Payment, Idle, CashTypeOK
  <2> QED
    BY <2>1, <2>2, QuietDesk
<1>6. ASSUME NEW p \in Requests, DayMoves(p) PROVE DeskInv'
  <2>1. UNCHANGED deskVars
    BY <1>6 DEF DayMoves, StartJornada, InsertDay, CloseDay, SaveDay, ListExpense
  <2>2. /\ \A q \in Requests : q # p => request'[q] = request[q]
        /\ request'[p].at \notin {"saveRegister", "commit"}
    <3>1. request[p].at = "listExpenses" => request[p] \in Listing
      BY KindOf DEF CashTypeOK
    <3>2. CASE \E x \in Expenses : ListExpense(p, x)
      BY <3>1, <3>2 DEF ListExpense, Listing, Idle, CashTypeOK
    <3> QED
      BY <1>6, <3>2 DEF DayMoves, StartJornada, InsertDay, CloseDay, SaveDay, Idle, CashTypeOK
  <2> QED
    BY <2>1, <2>2, QuietDesk
<1>7. ASSUME NEW p \in Requests, Stops(p) PROVE DeskInv'
  BY <1>2, <1>7 DEF Stops, Idle, CashTypeOK
<1>8. ASSUME NEW d \in Deposits, NEW claim \in Invoices \cup {None}, SubmitDepositProof(d, claim)
      PROVE  DeskInv'
  BY <1>1, <1>8 DEF SubmitDepositProof
<1>9. CASE UNCHANGED vars
  BY <1>1, <1>9 DEF vars, deskVars
<1> QED
  BY <1>3, <1>4, <1>5, <1>6, <1>7, <1>8, <1>9 DEF Next, RequestMoves

LEMMA DeskInvHolds == Spec => []DeskInv
<1>1. Init => CashTypeOK /\ DeskInv
  BY InitTypes DEF Init, DeskInv, SalesInv, RequestInv, TimelySalesAreCounted, PaidAgainOnlyInARace,
                   Idle, NoShift
<1>2. CashTypeOK /\ DeskInv /\ [Next]_vars => (CashTypeOK /\ DeskInv)'
  BY DeskInvKept, NextTypes
<1> QED
  BY <1>1, <1>2, PTL DEF Spec

(* With every request of the system in flight at once, sales that name a closed
   shift and several closings of one shift among them, what is committed while
   the shift is open and nobody closes it is counted and stays.              *)
THEOREM ClosuresCountTimelySales == Spec => []TimelySalesAreCounted
<1>1. DeskInv => TimelySalesAreCounted
  BY DEF DeskInv
<1> QED
  BY <1>1, DeskInvHolds, PTL

(* A second payment of an invoice, on whatever channel, had read the invoice
   before the first was committed: the check inside the transaction leaves no
   other way to charge it twice.                                             *)
THEOREM PaidTwiceMeansOverlap == Spec => []PaidAgainOnlyInARace
<1>1. DeskInv => PaidAgainOnlyInARace
  BY DEF DeskInv
<1> QED
  BY <1>1, DeskInvHolds, PTL

-----------------------------------------------------------------------------
(* Working days, each closed from one screen *)

(* A request that closes a day has read it open; one that lists the expenses of
   a day has closed it with them, and has not listed them yet.               *)
DayReady(k) ==
  /\ k.at = "saveDay" => day[k.day] = k.row /\ k.row.status = "OPEN"
  /\ k.at = "listExpenses" =>
       /\ day[k.day].status = "CLOSED" /\ k.expenses \subseteq day[k.day].total
       /\ \A x \in k.expenses : listed[k.day][x] = 0

(* A day is listed by the request that closed it, once it is closed. *)
DayInv ==
  /\ ExpensesAreListedOnce
  /\ OneScreen
  /\ \A p \in Requests : DayReady(request[p])
  /\ \A j \in Days : day[j].status # "CLOSED" => \A x \in Expenses : listed[j][x] = 0

(* A step of p that writes no day and no expense, and goes on to none. *)
LEMMA QuietDay ==
  ASSUME CashTypeOK, CashTypeOK', OneScreen', DayInv, NEW p \in Requests,
         \A q \in Requests : q # p => request'[q] = request[q],
         UNCHANGED <<day, listed>>, request'[p].at # "listExpenses", DayReady(request[p])'
  PROVE  DayInv'
<1>1. \A q \in Requests : DayReady(request[q])'
  BY DEF DayInv, DayReady
<1> QED
  BY <1>1 DEF DayInv, ExpensesAreListedOnce

LEMMA OtherMovesKeepDays ==
  ASSUME CashTypeOK, CashTypeOK', OneScreen', DayInv, NEW p \in Requests,
         ShiftMoves(p) \/ PaymentMoves(p) \/ DepositMoves(p) \/ Stops(p)
  PROVE  DayInv'
<1> USE DEF CashTypeOK, Goes, Begins
<1>1. /\ UNCHANGED <<day, listed>>
      /\ \A q \in Requests : q # p => request'[q] = request[q]
      /\ request'[p].at \notin {"saveDay", "listExpenses"}
  <2>1. CASE ShiftMoves(p)
    BY <2>1 DEF ShiftMoves, OpenCashRegister, InsertRegister, CloseCashRegister, SaveRegister,
                Idle, fieldVars
  <2>2. CASE PaymentMoves(p)
    <3>1. request[p].at = "settle" => request[p] \in Paying
      BY KindOf
    <3>2. CASE SettleInvoices(p)
      BY <3>1, <3>2 DEF SettleInvoices, Paying, fieldVars
    <3>3. CASE CommitPayment(p)
      BY <3>3 DEF CommitPayment, Idle, fieldVars
    <3> QED
      BY <2>2, <3>2, <3>3 DEF PaymentMoves, Checkout, CollectInvoices, SettlePendingInvoice,
                              EmitDirect, Payment, fieldVars
  <2>3. CASE DepositMoves(p)
    <3>1. CASE FindOldest(p)
      BY <3>1 DEF FindOldest, Idle, fieldVars
    <3> QED
      BY <2>3, <3>1 DEF DepositMoves, ReviewDepositProof, SaveReview, ApplyApproved, ApplyByHand,
                        SaveProof, Payment, Idle, fieldVars
  <2>4. CASE Stops(p)
    BY <2>4 DEF Stops, Idle, fieldVars
  <2> QED
    BY <2>1, <2>2, <2>3, <2>4
<1>2. DayReady(request[p])'
  BY <1>1 DEF DayReady
<1> QED
  BY <1>1, <1>2, QuietDay

(* The requests that close or list a day are about a day. *)
LEMMA DayOf ==
  ASSUME CashTypeOK, NEW q \in Requests, request[q].at \in {"saveDay", "listExpenses"}
  PROVE  request[q].day \in Days /\ request[q].expenses \subseteq Expenses
BY KindOf DEF CashTypeOK, Leaving, Listing

(* What a request has read of a day is there after the step of another. *)
LEMMA DayReadyKept ==
  ASSUME CashTypeOK, NEW q \in Requests, request'[q] = request[q],
         DayReady(request[q]), UNCHANGED listed,
         request[q].at \in {"saveDay", "listExpenses"} => UNCHANGED day[request[q].day]
  PROVE  DayReady(request[q])'
BY DEF DayReady

LEMMA InsertKeepsDays ==
  ASSUME CashTypeOK, CashTypeOK', OneScreen', DayInv, NEW p \in Requests, NEW j \in Days,
         InsertDay(p, j)
  PROVE  DayInv'
<1>1. /\ day[j].status = "NONE" /\ UNCHANGED listed
      /\ \A h \in Days : h # j => day'[h] = day[h]
      /\ day'[j].status = "OPEN"
  BY DEF InsertDay, CashTypeOK, NoDay
<1>2. request'[p] = Idle /\ \A q \in Requests : q # p => request'[q] = request[q]
  BY DEF InsertDay, Goes, CashTypeOK
<1>3. ASSUME NEW q \in Requests, q # p PROVE DayReady(request[q])'
  <2>1. request[q].at \in {"saveDay", "listExpenses"} =>
          request[q].day \in Days /\ request[q].day # j
    BY <1>1, DayOf DEF DayInv, DayReady
  <2> QED
    BY <1>1, <1>2, <1>3, <2>1, DayReadyKept DEF DayInv
<1>4. DayReady(request[p])'
  BY <1>2 DEF DayReady, Idle
<1> QED
  BY <1>1, <1>2, <1>3, <1>4 DEF DayInv, ExpensesAreListedOnce, Idle

LEMMA SaveKeepsDays ==
  ASSUME CashTypeOK, CashTypeOK', OneScreen', DayInv, NEW p \in Requests, SaveDay(p)
  PROVE  DayInv'
<1> DEFINE v == request[p]  j == v.day
<1>1. v \in Leaving /\ j \in Days /\ v.expenses \subseteq Expenses
  BY KindOf DEF SaveDay, CashTypeOK, Leaving
<1>2. /\ day[j].status = "OPEN" /\ UNCHANGED listed
      /\ \A h \in Days : h # j => day'[h] = day[h]
      /\ day'[j].status = "CLOSED" /\ day'[j].total = v.expenses
  BY <1>1 DEF SaveDay, CashTypeOK, DayInv, DayReady, Leaving, Jornada
<1>3. /\ request'[p] = [at |-> "listExpenses", day |-> j, expenses |-> v.expenses]
      /\ \A q \in Requests : q # p => request'[q] = request[q]
  BY DEF SaveDay, Goes, CashTypeOK
<1>4. \A x \in Expenses : listed[j][x] = 0
  BY <1>1, <1>2 DEF DayInv
<1>5. ASSUME NEW q \in Requests, q # p, request[q].at \in {"saveDay", "listExpenses"}
      PROVE  request[q].day \in Days /\ request[q].day # j
  BY <1>5, DayOf DEF SaveDay, DayInv, OneScreen
<1>6. ASSUME NEW q \in Requests, q # p PROVE DayReady(request[q])'
  BY <1>2, <1>3, <1>5, <1>6, DayReadyKept DEF DayInv
<1>7. DayReady(request[p])'
  BY <1>1, <1>2, <1>3, <1>4 DEF DayReady
<1>8. ExpensesAreListedOnce'
  BY <1>2, <1>4 DEF DayInv, ExpensesAreListedOnce
<1> QED
  BY <1>2, <1>3, <1>5, <1>6, <1>7, <1>8 DEF DayInv

LEMMA ListKeepsDays ==
  ASSUME CashTypeOK, CashTypeOK', OneScreen', DayInv, NEW p \in Requests, NEW x \in Expenses, ListExpense(p, x)
  PROVE  DayInv'
<1> DEFINE v == request[p]  j == v.day
<1>1. v \in Listing /\ j \in Days
  BY KindOf DEF ListExpense, CashTypeOK, Listing
<1>2. /\ UNCHANGED day /\ day[j].status = "CLOSED" /\ x \in day[j].total /\ listed[j][x] = 0
      /\ listed'[j][x] = 1
      /\ \A h \in Days, y \in Expenses : <<h, y>> # <<j, x>> => listed'[h][y] = listed[h][y]
  BY <1>1 DEF ListExpense, DayInv, DayReady, CashTypeOK
<1>3. \A q \in Requests : q # p => request'[q] = request[q]
  BY DEF ListExpense, Goes, CashTypeOK
<1>4. \/ request'[p] = Idle
      \/ /\ request'[p].at = "listExpenses" /\ request'[p].day = j
         /\ request'[p].expenses = v.expenses \ {x}
  BY <1>1 DEF ListExpense, Goes, CashTypeOK, Listing
<1>5. ASSUME NEW q \in Requests, q # p PROVE DayReady(request[q])'
  <2>1. request[q].at = "listExpenses" =>
          /\ request[q].day \in Days /\ request[q].day # j
          /\ request[q].expenses \subseteq Expenses
    BY <1>5, DayOf DEF DayInv, OneScreen, ListExpense
  <2> QED
    BY <1>2, <1>3, <1>5, <2>1 DEF DayInv, DayReady
<1>6. DayReady(request[p])'
  <2>1. v.expenses \subseteq Expenses /\ DayReady(v)
    BY <1>1 DEF Listing, DayInv
  <2> QED
    BY <1>1, <1>2, <1>4, <2>1 DEF DayReady, Idle, Listing
<1>7. ExpensesAreListedOnce'
  BY <1>2 DEF DayInv, ExpensesAreListedOnce
<1>8. \A h \in Days : day'[h].status # "CLOSED" => \A y \in Expenses : listed'[h][y] = 0
  BY <1>2 DEF DayInv
<1> QED
  BY <1>5, <1>6, <1>7, <1>8 DEF DayInv

LEMMA DayMovesKeepDays ==
  ASSUME CashTypeOK, CashTypeOK', OneScreen', DayInv, NEW p \in Requests, DayMoves(p)
  PROVE  DayInv'
<1>1. CASE \E t \in Technicians : StartJornada(p, t)
  BY <1>1, QuietDay DEF StartJornada, Begins, CashTypeOK, DayReady, fieldVars
<1>2. ASSUME NEW t \in Technicians, NEW j \in Days, NEW X \in SUBSET Expenses, CloseDay(p, t, j, X)
      PROVE  DayInv'
  <2>1. request'[p] = [at |-> "saveDay", day |-> j, row |-> day[j], expenses |-> X]
    BY <1>2 DEF CloseDay, Begins, CashTypeOK
  <2>2. day[j].status = "OPEN" /\ UNCHANGED <<day, listed>>
    BY <1>2 DEF CloseDay, Closable, OpenDays, fieldVars
  <2>3. \A q \in Requests : q # p => request'[q] = request[q]
    BY <1>2 DEF CloseDay, Begins, CashTypeOK
  <2>4. DayReady(request[p])'
    BY <2>1, <2>2 DEF DayReady
  <2> QED
    BY <2>1, <2>2, <2>3, <2>4, QuietDay
<1> QED
  BY <1>1, <1>2, InsertKeepsDays, SaveKeepsDays, ListKeepsDays DEF DayMoves

LEMMA DayInvKept ==
  CashTypeOK /\ DayInv /\ [Next /\ OneScreen']_vars => DayInv'
<1> SUFFICES ASSUME CashTypeOK, DayInv, [Next /\ OneScreen']_vars
             PROVE  DayInv'
  OBVIOUS
<1>1. CashTypeOK'
  BY NextTypes
<1>2. ASSUME UNCHANGED <<day, listed, request>> PROVE DayInv'
  BY <1>2 DEF DayInv, OneScreen, ExpensesAreListedOnce, DayReady
<1>3. CASE UNCHANGED vars
  BY <1>2, <1>3 DEF vars
<1>4. ASSUME NEW d \in Deposits, NEW claim \in Invoices \cup {None}, SubmitDepositProof(d, claim)
      PROVE  DayInv'
  BY <1>2, <1>4 DEF SubmitDepositProof, fieldVars
<1> QED
  BY <1>1, <1>3, <1>4, OtherMovesKeepDays, DayMovesKeepDays DEF Next, RequestMoves

(* When each day is closed from one screen an expense is listed at most once, on
   a day that is closed and whose total has it, wherever a closing stops.    *)
THEOREM ExpensesAreReimbursedOnce == ScreenSpec => []ExpensesAreListedOnce
<1>1. Init => CashTypeOK /\ DayInv
  BY InitTypes DEF Init, DayInv, OneScreen, ExpensesAreListedOnce, DayReady, Idle
<1>2. CashTypeOK /\ DayInv /\ [Next /\ OneScreen']_vars => (CashTypeOK /\ DayInv)'
  BY DayInvKept, NextTypes
<1>3. DayInv => ExpensesAreListedOnce
  BY DEF DayInv
<1> QED
  BY <1>1, <1>2, <1>3, PTL DEF ScreenSpec

=============================================================================
