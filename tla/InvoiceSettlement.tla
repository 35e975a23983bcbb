------------------------- MODULE InvoiceSettlement --------------------------
(***************************************************************************)
(* How invoices are charged and given their fiscal number (NCF): the       *)
(* settlement of recurring invoices from the POS and the invoicing screen, *)
(* direct invoices, credit notes, voids, the daily ageing of an invoice    *)
(* and the edition of a sequence.                                          *)
(*                                                                         *)
(* A charge runs in one READ COMMITTED transaction: it reads the sequence, *)
(* advances it, files the document with the tax authority (DGII) and saves *)
(* the invoice.  The rows it read are not locked; the row of the sequence  *)
(* is, from its UPDATE to the end of the transaction; what DGII was sent   *)
(* is not rolled back.                                                     *)
(***************************************************************************)
EXTENDS Naturals, FiniteSets

CONSTANTS
  Recurring,   \* invoices generated by the billing cycle, open at first
  Direct,      \* invoices that are created when they are charged
  Workers,     \* requests and cron iterations in flight
  NoWorker,    \* not a worker: the row of the sequence is not locked
  Kinds,       \* what the workers do
  EndSequence  \* the last number DGII has authorised

ASSUME InvoicesAssumption  == Recurring \cap Direct = {}
ASSUME NoWorkerAssumption  == NoWorker \notin Workers
ASSUME KindsAssumption     == Kinds \subseteq {"COLLECT", "DIRECT", "CREDIT", "VOID", "AGE", "EDIT"}
ASSUME SequenceAssumption  == EndSequence \in Nat \ {0}

Invoices == Recurring \cup Direct

(* E32: the number of an invoice.  E34: the number of a credit note. *)
NcfTypes == {"E32", "E34"}
Numbers  == 1..EndSequence

VARIABLES
  invoice,   \* invoice[d]: the row of pos.invoices
  note,      \* note[d]: the number of the credit note of d, or 0
  charged,   \* charged[d]: PAID sales committed for d, counted up to 2
  sequence,  \* sequence[t]: currentSequence of pos.ecf_sequences, committed
  lock,      \* lock[t]: the worker whose transaction has updated sequence t
  filed,     \* documents that DGII has received
  tx         \* tx[w]: what worker w is doing

vars == <<invoice, note, charged, sequence, lock, filed, tx>>

-----------------------------------------------------------------------------
(* Rows and transactions *)

(* OPEN stands for PENDING_PAYMENT, EN_GRACIA and VENCIDA. *)
Row == [status : {"ABSENT", "OPEN", "ISSUED", "VOIDED"}, ncf : 0..EndSequence]

Document == [type : NcfTypes, number : Numbers, of : Invoices]

Operations == {"COLLECT", "DIRECT", "CREDIT", "VOID", "AGE"}

(* row: for a VOID or an AGE, the invoice that was read; number: the sequence
   that was read; seen: the invoice as the SELECT of its save found it.      *)
Idle == [pc |-> "idle"]

Tx == [pc : {"settle", "number", "reserve", "submit", "save", "saving", "write", "writing"},
       kind : Operations, of : Invoices, row : Row, number : 0..EndSequence, seen : Row]

NoRow == [status |-> "ABSENT", ncf |-> 0]

TypeOf(k) == IF k.kind = "CREDIT" THEN "E34" ELSE "E32"

Busy(w) == tx[w].pc # "idle"

(* save() is two statements: a SELECT, which found the row as seen, and an
   UPDATE of the columns in which the entity differs from it.  OPEN is three
   statuses: changed tells that the save moves the row from one to another.  *)
Merged(now, seen, mine, changed) ==
  [status |-> IF changed \/ mine.status # seen.status THEN mine.status ELSE now.status,
   ncf    |-> IF mine.ncf # seen.ncf THEN mine.ncf ELSE now.ncf]

(* The unique index on ncf_number lets invoice d carry number n. *)
IsFree(n, d) == \A e \in Invoices \ {d} : n = 0 \/ invoice[e].ncf # n

(* The numbers of type t that a committed row carries. *)
Recorded(t) ==
  (IF t = "E32" THEN {invoice[d].ncf : d \in Invoices} ELSE {note[d] : d \in Invoices}) \ {0}

(* The transaction ends, committed or rolled back, and its lock with it. *)
EndTx(w) ==
  /\ tx' = [tx EXCEPT ![w] = Idle]
  /\ lock' = [t \in NcfTypes |-> IF lock[t] = w THEN NoWorker ELSE lock[t]]

-----------------------------------------------------------------------------
(* Requests, up to the check that precedes each operation *)

Starts(w, kind, d, pc, row) ==
  /\ ~Busy(w) /\ kind \in Kinds
  /\ tx' = [tx EXCEPT ![w] = [pc |-> pc, kind |-> kind, of |-> d, row |-> row, number |-> 0,
                             seen |-> NoRow]]
  /\ UNCHANGED <<invoice, note, charged, sequence, lock, filed>>

(* collectInvoices, or settlePendingInvoice from the invoicing screen. *)
RequestCollect(w, d) ==
  /\ invoice[d].status = "OPEN"
  /\ Starts(w, "COLLECT", d, "settle", NoRow)

(* emitDirect creates the sale and the invoice that it charges. *)
RequestDirect(w, d) ==
  /\ d \in Direct /\ invoice[d].status = "ABSENT"
  /\ \A v \in Workers : Busy(v) => tx[v].of # d
  /\ Starts(w, "DIRECT", d, "number", NoRow)

(* createCreditNote *)
RequestCreditNote(w, d) ==
  /\ invoice[d].status = "ISSUED" /\ note[d] = 0
  /\ Starts(w, "CREDIT", d, "number", NoRow)

(* voidInvoice reads the row that it will write. *)
RequestVoid(w, d) ==
  /\ invoice[d].status = "OPEN"
  /\ Starts(w, "VOID", d, "write", invoice[d])

(* So does the daily cycle, for every open invoice. *)
ReadToAge(w, d) ==
  /\ invoice[d].status = "OPEN"
  /\ Starts(w, "AGE", d, "write", invoice[d])

RequestStep(w, d) ==
  \/ RequestCollect(w, d)
  \/ RequestDirect(w, d)
  \/ RequestCreditNote(w, d)
  \/ RequestVoid(w, d)
  \/ ReadToAge(w, d)

-----------------------------------------------------------------------------
(* A charge or a credit note, step by step *)

(* Mutant of SettleInvoice: it trusts the check that collectInvoices made. *)
SettleUnchecked(w) ==
  /\ tx[w].pc = "settle"
  /\ tx' = [tx EXCEPT ![w].pc = "number"]
  /\ UNCHANGED <<invoice, note, charged, sequence, lock, filed>>

(* settleInvoice reads the invoice again, inside the transaction. *)
SettleInvoice(w) ==
  /\ tx[w].pc = "settle"
  /\ invoice[tx[w].of].status = "OPEN"
  /\ tx' = [tx EXCEPT ![w].pc = "number"]
  /\ UNCHANGED <<invoice, note, charged, sequence, lock, filed>>

(* getNextNcfSequence: findOne sees what has been committed. *)
ReadSequence(w) ==
  LET k == tx[w] IN
  /\ k.pc = "number"
  /\ sequence[TypeOf(k)] <= EndSequence
  /\ tx' = [tx EXCEPT ![w].pc = "reserve", ![w].number = sequence[TypeOf(k)]]
  /\ UNCHANGED <<invoice, note, charged, sequence, lock, filed>>

(* Mutant of ReserveNumber: the sequence is saved outside the transaction. *)
ReserveAtOnce(w) ==
  LET k == tx[w] IN
  /\ k.pc = "reserve"
  /\ lock[TypeOf(k)] = NoWorker
  /\ sequence' = [sequence EXCEPT ![TypeOf(k)] = k.number + 1]
  /\ tx' = [tx EXCEPT ![w].pc = "submit"]
  /\ UNCHANGED <<invoice, note, charged, lock, filed>>

(* Its save: the UPDATE waits for the transaction that has updated the row.
   save() loads the row again first, and updates nothing when it finds that
   the row holds the next number already.                                    *)
ReserveNumber(w) ==
  LET k == tx[w] IN
  /\ k.pc = "reserve"
  /\ \/ lock[TypeOf(k)] = NoWorker /\ lock' = [lock EXCEPT ![TypeOf(k)] = w]
     \/ sequence[TypeOf(k)] = k.number + 1 /\ UNCHANGED lock
  /\ tx' = [tx EXCEPT ![w].pc = "submit"]
  /\ UNCHANGED <<invoice, note, charged, sequence, filed>>

(* The e-CF is signed and sent: DGII receives it, or the invoice is issued in
   contingency.                                                              *)
SubmitEcf(w, received) ==
  LET k == tx[w] IN
  /\ k.pc = "submit"
  /\ filed' = IF received THEN filed \cup {[type |-> TypeOf(k), number |-> k.number, of |-> k.of]}
                          ELSE filed
  /\ tx' = [tx EXCEPT ![w].pc = "save"]
  /\ UNCHANGED <<invoice, note, charged, sequence, lock>>

(* The SELECT of the save of an invoice that exists. *)
SelectInvoice(w) ==
  LET k == tx[w] IN
  /\ k.pc \in {"save", "write"} /\ k.kind \in {"COLLECT", "VOID", "AGE"}
  /\ tx' = [tx EXCEPT ![w].pc = IF k.pc = "save" THEN "saving" ELSE "writing",
                      ![w].seen = invoice[k.of]]
  /\ UNCHANGED <<invoice, note, charged, sequence, lock, filed>>

(* The invoice that was read or created is ISSUED, under its number. *)
Issued(k) == Merged(invoice[k.of], k.seen, [status |-> "ISSUED", ncf |-> k.number], FALSE)

(* The transaction commits it, or the credit note, with the sale and the
   sequence.                                                                 *)
Commit(w) ==
  LET k == tx[w] IN
  /\ IF k.kind = "CREDIT"
       THEN /\ note' = [note EXCEPT ![k.of] = k.number]
            /\ UNCHANGED <<invoice, charged>>
       ELSE /\ invoice' = [invoice EXCEPT ![k.of] = Issued(k)]
            /\ charged' = [charged EXCEPT ![k.of] = IF @ < 2 THEN @ + 1 ELSE @]
            /\ UNCHANGED note
  /\ sequence' = [t \in NcfTypes |-> IF lock[t] = w THEN k.number + 1 ELSE sequence[t]]
  /\ EndTx(w)
  /\ UNCHANGED filed

(* A charge of an invoice that exists saves it; the others insert a row. *)
Saves(k) == k.pc = "saving" \/ (k.pc = "save" /\ k.kind \in {"DIRECT", "CREDIT"})

(* Mutant of SaveAndCommit: ncf_number has no unique index. *)
SaveUnchecked(w) ==
  /\ Saves(tx[w])
  /\ ~(tx[w].kind = "CREDIT" /\ note[tx[w].of] # 0)
  /\ Commit(w)

(* The unique indexes on ncf_number and on original_invoice_id. *)
SaveAndCommit(w) ==
  LET k == tx[w] IN
  /\ Saves(k)
  /\ IF k.kind = "CREDIT" THEN k.number \notin Recorded("E34") /\ note[k.of] = 0
                          ELSE IsFree(Issued(k).ncf, k.of)
  /\ Commit(w)

(* An error or a crash at any point of an operation undoes it. *)
Rollback(w) ==
  /\ Busy(w)
  /\ EndTx(w)
  /\ UNCHANGED <<invoice, note, charged, sequence, filed>>

-----------------------------------------------------------------------------
(* Writes outside a transaction of several statements *)

(* voidInvoice voids, and the daily cycle ages, the row that was read. *)
Written(k) == IF k.kind = "VOID" THEN [k.row EXCEPT !.status = "VOIDED"] ELSE k.row

WriteInvoice(w, changed) ==
  LET k == tx[w]
      row == Merged(invoice[k.of], k.seen, Written(k), changed)
  IN
  /\ k.pc = "writing"
  /\ changed => k.kind = "AGE"
  /\ IsFree(row.ncf, k.of)
  /\ invoice' = [invoice EXCEPT ![k.of] = row]
  /\ EndTx(w)
  /\ UNCHANGED <<note, charged, sequence, filed>>

(* updateSequence saves the sequence with any number of its range, chosen by
   the administrator or read a moment before.                                *)
EditSequence(t) ==
  /\ "EDIT" \in Kinds
  /\ lock[t] = NoWorker
  /\ \E current \in Numbers : sequence' = [sequence EXCEPT ![t] = current]
  /\ UNCHANGED <<invoice, note, charged, lock, filed, tx>>

-----------------------------------------------------------------------------
(* Specifications *)

Init ==
  /\ invoice = [d \in Invoices |->
                  [status |-> IF d \in Recurring THEN "OPEN" ELSE "ABSENT", ncf |-> 0]]
  /\ note = [d \in Invoices |-> 0]
  /\ charged = [d \in Invoices |-> 0]
  /\ sequence = [t \in NcfTypes |-> 1]
  /\ lock = [t \in NcfTypes |-> NoWorker]
  /\ filed = {}
  /\ tx = [w \in Workers |-> Idle]

TxStep(w) ==
  \/ SettleInvoice(w)
  \/ ReadSequence(w)
  \/ ReserveNumber(w)
  \/ \E received \in BOOLEAN : SubmitEcf(w, received)
  \/ SelectInvoice(w)
  \/ SaveAndCommit(w)
  \/ Rollback(w)
  \/ \E changed \in BOOLEAN : WriteInvoice(w, changed)

Next ==
  \/ \E w \in Workers : TxStep(w) \/ \E d \in Invoices : RequestStep(w, d)
  \/ \E t \in NcfTypes : EditSequence(t)

Spec == Init /\ [][Next]_vars

(* No two transactions work on one invoice at a time: what a lock on its row,
   taken where settleInvoice and voidInvoice read it, would give.  The code
   takes none.                                                               *)
Works(w) == tx[w].pc \notin {"idle", "settle"}
Apart == \A w, v \in Workers : Works(w) /\ Works(v) /\ tx[w].of = tx[v].of => w = v

ApartSpec == Init /\ [][Next /\ Apart']_vars

-----------------------------------------------------------------------------
(* Properties *)

TypeOK ==
  /\ invoice \in [Invoices -> Row]
  /\ note \in [Invoices -> 0..EndSequence]
  /\ charged \in [Invoices -> 0..2]
  /\ sequence \in [NcfTypes -> 1..EndSequence + 1]
  /\ lock \in [NcfTypes -> Workers \cup {NoWorker}]
  /\ filed \subseteq Document
  /\ tx \in [Workers -> Tx \cup {Idle}]

(* No two invoices, and no two credit notes, carry the same NCF, whatever the
   sequence was edited to and however the charges race for it.               *)
UniqueNumbers ==
  \A d, e \in Invoices :
    /\ invoice[d].ncf # 0 /\ invoice[d].ncf = invoice[e].ncf => d = e
    /\ note[d] # 0 /\ note[d] = note[e] => d = e

(* An invoice carries an NCF exactly when it is ISSUED.  The code breaks it:
   a void that started before a charge committed leaves a VOIDED invoice with
   the NCF that DGII received.                                               *)
IssuedHasNumber == \A d \in Invoices : invoice[d].status = "ISSUED" <=> invoice[d].ncf # 0

(* "Preserving the sequential numbering required": the committed documents of
   a type carry every number below the sequence, and no other.               *)
NumbersAreConsecutive == \A t \in NcfTypes : Recorded(t) = 1..(sequence[t] - 1)

(* A recurring invoice is charged once. *)
ChargedOnce == \A d \in Invoices : charged[d] <= 1

(* An e-CF that was issued is neither edited nor deleted: it stays ISSUED for
   ever, under its number.                                                   *)
IssuedForEver ==
  [][\A d \in Invoices : invoice[d].status = "ISSUED" => invoice'[d] = invoice[d]]_vars

(* The next number is reserved atomically: DGII never receives two documents
   under one NCF.                                                            *)
FiledOnce ==
  \A x, y \in filed : x.type = y.type /\ x.number = y.number => x = y

(* Under ApartSpec, and while nobody edits a sequence, all of this is a ledger:
   every charge, every credit note and every void takes effect in one step,
   and what a transaction read before it commits is never outdated.          *)
Book == INSTANCE Ledger WITH
  LastNumber <- EndSequence,
  fate  <- [d \in Invoices |-> invoice[d].status],
  entry <- [t \in NcfTypes |-> IF t = "E32" THEN [d \in Invoices |-> invoice[d].ncf] ELSE note],
  next  <- sequence,
  paid  <- charged

SettlementIsLedger == Book!LedgerSpec
=============================================================================
