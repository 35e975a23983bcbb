----------------------- MODULE InvoiceSettlement_proofs ----------------------
(* That NCFs are unique whatever happens; and that they have no gap as long as
   the transactions of one invoice do not overlap and nobody edits a sequence:
   under these conditions InvoiceSettlement implements Ledger.               *)
EXTENDS InvoiceSettlement, TLAPS

USE SequenceAssumption, NoWorkerAssumption, InvoicesAssumption, KindsAssumption

(* Past its read of the sequence, and past its UPDATE of it. *)
Numbered == {"reserve", "submit", "save", "saving"}
Sending  == {"submit", "save", "saving"}

(* Past its read of the sequence a transaction holds a number of the range.  *)
NumberInv == \A w \in Workers : tx[w].pc \in Numbered => tx[w].number \in Numbers

UniqueInv == TypeOK /\ NumberInv /\ UniqueNumbers

(* A row that is updated column by column is still a row.                    *)
LEMMA MergedRow ==
  ASSUME NEW now \in Row, NEW seen \in Row, NEW mine \in Row, NEW changed \in BOOLEAN
  PROVE  Merged(now, seen, mine, changed) \in Row
BY DEF Merged, Row

(* What a committed charge or credit note leaves in the sequences.           *)
LEMMA CommitTypes ==
  ASSUME TypeOK, NumberInv, NEW w \in Workers, Saves(tx[w]), Commit(w)
  PROVE  TypeOK'
<1>1. tx[w] \in Tx /\ tx[w].number \in Numbers /\ tx[w].of \in Invoices /\ tx[w].seen \in Row
  BY DEF TypeOK, Idle, Tx, NumberInv, Numbered, Saves
<1>2. sequence' \in [NcfTypes -> 1..EndSequence + 1]
  BY <1>1 DEF TypeOK, Commit, Numbers
<1>3. lock' \in [NcfTypes -> Workers \cup {NoWorker}] /\ tx' \in [Workers -> Tx \cup {Idle}]
  BY DEF TypeOK, Commit, EndTx
<1>4. Issued(tx[w]) \in Row
  <2>1. [status |-> "ISSUED", ncf |-> tx[w].number] \in Row /\ invoice[tx[w].of] \in Row
    BY <1>1 DEF Row, Numbers, TypeOK
  <2> QED
    BY <1>1, <2>1, MergedRow DEF Issued
<1>5. invoice' \in [Invoices -> Row] /\ note' \in [Invoices -> 0..EndSequence]
  BY <1>1, <1>4 DEF TypeOK, Commit, Numbers
<1>6. charged' \in [Invoices -> 0..2] /\ filed' \subseteq Document
  BY <1>1 DEF TypeOK, Commit
<1> QED
  BY <1>2, <1>3, <1>5, <1>6 DEF TypeOK

(* A step of one worker keeps the rows well typed, and its number in range.  *)
LEMMA StepTypes ==
  ASSUME TypeOK, NumberInv, NEW w \in Workers, TxStep(w)
  PROVE  TypeOK' /\ NumberInv'
<1> USE DEF Numbered
<1>1. tx[w].pc # "idle" => tx[w] \in Tx
  BY DEF TypeOK, Idle, Tx
<1>2. CASE SettleInvoice(w)
  BY <1>1, <1>2 DEF SettleInvoice, TypeOK, NumberInv, Tx
<1>3. CASE ReadSequence(w)
  <2>1. TypeOf(tx[w]) \in NcfTypes
    BY DEF TypeOf, NcfTypes
  <2>2. sequence[TypeOf(tx[w])] \in Numbers
    BY <1>3, <2>1 DEF ReadSequence, TypeOK, Numbers
  <2> DEFINE next == [tx[w] EXCEPT !.pc = "reserve", !.number = sequence[TypeOf(tx[w])]]
  <2>3. next \in Tx /\ next.number \in Numbers
    <3>1. tx[w] \in Tx /\ sequence[TypeOf(tx[w])] \in 0..EndSequence
      BY <1>1, <1>3, <2>2 DEF ReadSequence, Numbers
    <3> QED
      BY <2>2, <3>1 DEF Tx
  <2>4. tx' = [tx EXCEPT ![w] = next]
    BY <1>3 DEF ReadSequence
  <2> HIDE DEF next
  <2> QED
    BY <1>3, <2>3, <2>4 DEF ReadSequence, TypeOK, NumberInv
<1>4. CASE ReserveNumber(w)
  BY <1>1, <1>4 DEF ReserveNumber, TypeOK, NumberInv, Tx, NcfTypes, TypeOf
<1>5. ASSUME NEW received \in BOOLEAN, SubmitEcf(w, received) PROVE TypeOK' /\ NumberInv'
  BY <1>1, <1>5 DEF SubmitEcf, TypeOK, NumberInv, Tx, Document, NcfTypes, TypeOf
<1>6. CASE SelectInvoice(w)
  <2> DEFINE next == [tx[w] EXCEPT !.pc = IF tx[w].pc = "save" THEN "saving" ELSE "writing",
                                   !.seen = invoice[tx[w].of]]
  <2>1. tx[w] \in Tx /\ invoice[tx[w].of] \in Row
    BY <1>1, <1>6 DEF SelectInvoice, TypeOK, Tx
  <2>2. next \in Tx /\ (next.pc \in Numbered => tx[w].pc = "save" /\ next.number = tx[w].number)
    BY <1>6, <2>1 DEF SelectInvoice, Tx
  <2>3. tx' = [tx EXCEPT ![w] = next] /\ UNCHANGED <<invoice, note, charged, sequence, lock, filed>>
    BY <1>6 DEF SelectInvoice
  <2> HIDE DEF next
  <2> QED
    BY <2>2, <2>3 DEF TypeOK, NumberInv
<1>7. CASE SaveAndCommit(w)
  <2>1. Saves(tx[w]) /\ Commit(w)
    BY <1>7 DEF SaveAndCommit
  <2> QED
    BY <2>1, CommitTypes DEF Commit, EndTx, Idle, NumberInv, TypeOK
<1>8. CASE Rollback(w)
  BY <1>8 DEF Rollback, EndTx, TypeOK, NumberInv, Idle
<1>9. ASSUME NEW changed \in BOOLEAN, WriteInvoice(w, changed) PROVE TypeOK' /\ NumberInv'
  <2> DEFINE row == Merged(invoice[tx[w].of], tx[w].seen, Written(tx[w]), changed)
  <2>1. tx[w].of \in Invoices /\ Written(tx[w]) \in Row /\ tx[w].seen \in Row
    BY <1>1, <1>9 DEF WriteInvoice, Written, Tx, Row
  <2>2. row \in Row
    BY <2>1, MergedRow DEF TypeOK
  <2>3. invoice' = [invoice EXCEPT ![tx[w].of] = row]
    BY <1>9 DEF WriteInvoice
  <2> HIDE DEF row
  <2> QED
    BY <1>9, <2>1, <2>2, <2>3 DEF WriteInvoice, EndTx, TypeOK, NumberInv, Idle
<1> QED
  BY <1>2, <1>3, <1>4, <1>5, <1>6, <1>7, <1>8, <1>9 DEF TxStep

(* What a request that is admitted makes of its worker.                      *)
LEMMA Admitted ==
  ASSUME TypeOK, NEW w \in Workers, NEW d \in Invoices, RequestStep(w, d)
  PROVE  \E next \in Tx :
           /\ tx' = [tx EXCEPT ![w] = next] /\ tx[w].pc = "idle"
           /\ UNCHANGED <<invoice, note, charged, sequence, lock, filed>>
           /\ next.of = d /\ next.pc \in {"settle", "number", "write"} /\ next.seen = NoRow
           /\ next.pc = "write" => next.row = invoice[d] /\ invoice[d].status = "OPEN"
           /\ next.pc # "settle" => \/ next.kind = "CREDIT" /\ next.pc # "write"
                                  \/ invoice[d].status # "ISSUED"
<1>1. ASSUME NEW kind \in Operations, NEW pc \in {"settle", "number", "write"}, NEW row \in Row,
             Starts(w, kind, d, pc, row),
             pc = "write" => row = invoice[d] /\ invoice[d].status = "OPEN",
             pc # "settle" => (kind = "CREDIT" /\ pc # "write") \/ invoice[d].status # "ISSUED"
      PROVE  \E next \in Tx :
               /\ tx' = [tx EXCEPT ![w] = next] /\ tx[w].pc = "idle"
               /\ UNCHANGED <<invoice, note, charged, sequence, lock, filed>>
               /\ next.of = d /\ next.pc \in {"settle", "number", "write"} /\ next.seen = NoRow
               /\ next.pc = "write" => next.row = invoice[d] /\ invoice[d].status = "OPEN"
               /\ next.pc # "settle" => \/ next.kind = "CREDIT" /\ next.pc # "write"
                                      \/ invoice[d].status # "ISSUED"
  <2> DEFINE next == [pc |-> pc, kind |-> kind, of |-> d, row |-> row, number |-> 0, seen |-> NoRow]
  <2>1. next \in Tx
    BY DEF Tx, NoRow, Row
  <2>2. /\ tx' = [tx EXCEPT ![w] = next] /\ tx[w].pc = "idle"
        /\ UNCHANGED <<invoice, note, charged, sequence, lock, filed>>
    BY <1>1 DEF Starts, Busy
  <2>3. next.of = d /\ next.pc = pc /\ next.row = row /\ next.kind = kind /\ next.seen = NoRow
    OBVIOUS
  <2> HIDE DEF next
  <2> QED
    BY <1>1, <2>1, <2>2, <2>3
<1>2. NoRow \in Row /\ {"COLLECT", "DIRECT", "CREDIT", "VOID", "AGE"} = Operations
  BY DEF NoRow, Row, Operations
<1>3. invoice[d] \in Row
  BY DEF TypeOK
<1>4. CASE RequestCollect(w, d)
  BY <1>1, <1>2, <1>4 DEF RequestCollect
<1>5. CASE RequestDirect(w, d)
  BY <1>1, <1>2, <1>5 DEF RequestDirect
<1>6. CASE RequestCreditNote(w, d)
  BY <1>1, <1>2, <1>6 DEF RequestCreditNote
<1>7. CASE RequestVoid(w, d)
  BY <1>1, <1>2, <1>3, <1>7 DEF RequestVoid
<1>8. CASE ReadToAge(w, d)
  BY <1>1, <1>2, <1>3, <1>8 DEF ReadToAge
<1> QED
  BY <1>4, <1>5, <1>6, <1>7, <1>8 DEF RequestStep

(* So does every step of the system.                                         *)
LEMMA NextTypes ==
  ASSUME TypeOK, NumberInv, [Next]_vars
  PROVE  TypeOK' /\ NumberInv'
<1>1. ASSUME NEW w \in Workers, TxStep(w) PROVE TypeOK' /\ NumberInv'
  BY <1>1, StepTypes
<1>2. ASSUME NEW w \in Workers, NEW d \in Invoices, RequestStep(w, d)
      PROVE  TypeOK' /\ NumberInv'
  <2>1. PICK next \in Tx :
          /\ tx' = [tx EXCEPT ![w] = next] /\ next.pc \in {"settle", "number", "write"}
          /\ UNCHANGED <<invoice, note, charged, sequence, lock, filed>>
    BY <1>2, Admitted
  <2> QED
    BY <2>1 DEF TypeOK, NumberInv, Numbered
<1>3. ASSUME NEW t \in NcfTypes, EditSequence(t) PROVE TypeOK' /\ NumberInv'
  BY <1>3 DEF EditSequence, TypeOK, NumberInv, Numbers
<1>4. CASE UNCHANGED vars
  BY <1>4 DEF vars, TypeOK, NumberInv
<1> QED
  BY <1>1, <1>2, <1>3, <1>4 DEF Next

(* The numbers that are recorded are those of the rows.                      *)
LEMMA RecordedNumbers ==
  ASSUME TypeOK, NEW d \in Invoices
  PROVE  /\ invoice[d].ncf # 0 => invoice[d].ncf \in Recorded("E32")
         /\ note[d] # 0 => note[d] \in Recorded("E34")
BY DEF Recorded

(* The unique index keeps the number of a row that is written its own.       *)
LEMMA RowUnique ==
  ASSUME UniqueInv, NEW d \in Invoices, NEW row, IsFree(row.ncf, d),
         invoice' = [invoice EXCEPT ![d] = row], UNCHANGED note
  PROVE  UniqueNumbers'
<1>1. \A e \in Invoices : invoice'[e] = IF e = d THEN row ELSE invoice[e]
  BY DEF UniqueInv, TypeOK
<1>2. \A e \in Invoices : e # d => row.ncf = 0 \/ invoice[e].ncf # row.ncf
  BY DEF IsFree
<1> QED
  BY <1>1, <1>2 DEF UniqueInv, UniqueNumbers

(* A step keeps the number of every document its own.                        *)
LEMMA StepUnique ==
  ASSUME UniqueInv, NEW w \in Workers, TxStep(w)
  PROVE  UniqueNumbers'
<1>1. tx[w].pc # "idle" => tx[w].of \in Invoices
  BY DEF UniqueInv, TypeOK, Idle, Tx
<1>2. ASSUME UNCHANGED <<invoice, note>> PROVE UniqueNumbers'
  BY <1>2 DEF UniqueInv, UniqueNumbers
<1>3. \/ UNCHANGED <<invoice, note>>
      \/ SaveAndCommit(w)
      \/ \E changed \in BOOLEAN : WriteInvoice(w, changed)
  BY DEF TxStep, SettleInvoice, ReadSequence, ReserveNumber, SubmitEcf, SelectInvoice, Rollback
<1>4. CASE SaveAndCommit(w)
  <2> DEFINE n == tx[w].number
  <2>1. n # 0 /\ tx[w].of \in Invoices
    BY <1>1, <1>4 DEF SaveAndCommit, Saves, UniqueInv, NumberInv, Numbered, Numbers
  <2>2. CASE tx[w].kind = "CREDIT"
    <3>1. \A d \in Invoices : note[d] # n
      BY <1>4, <2>1, <2>2, RecordedNumbers DEF SaveAndCommit, UniqueInv
    <3>2. note' = [note EXCEPT ![tx[w].of] = n] /\ UNCHANGED invoice
      BY <1>4, <2>2 DEF SaveAndCommit, Commit
    <3> QED
      BY <2>1, <3>1, <3>2 DEF UniqueInv, UniqueNumbers, TypeOK
  <2>3. CASE tx[w].kind # "CREDIT"
    <3>1. /\ IsFree(Issued(tx[w]).ncf, tx[w].of) /\ UNCHANGED note
          /\ invoice' = [invoice EXCEPT ![tx[w].of] = Issued(tx[w])]
      BY <1>4, <2>3 DEF SaveAndCommit, Commit
    <3> QED
      BY <2>1, <3>1, RowUnique
  <2> QED
    BY <2>2, <2>3
<1>5. ASSUME NEW changed \in BOOLEAN, WriteInvoice(w, changed) PROVE UniqueNumbers'
  <2> DEFINE row == Merged(invoice[tx[w].of], tx[w].seen, Written(tx[w]), changed)
  <2>1. /\ IsFree(row.ncf, tx[w].of) /\ UNCHANGED note /\ tx[w].of \in Invoices
        /\ invoice' = [invoice EXCEPT ![tx[w].of] = row]
    BY <1>1, <1>5 DEF WriteInvoice
  <2> HIDE DEF row
  <2> QED
    BY <2>1, RowUnique
<1> QED
  BY <1>2, <1>3, <1>4, <1>5

(* The invariant that makes UniqueNumbers inductive.                         *)
LEMMA NextUnique ==
  ASSUME UniqueInv, [Next]_vars
  PROVE  UniqueInv'
<1>1. TypeOK' /\ NumberInv'
  BY NextTypes DEF UniqueInv
<1>2. ASSUME NEW w \in Workers, TxStep(w) PROVE UniqueNumbers'
  BY <1>2, StepUnique
<1>3. ASSUME UNCHANGED <<invoice, note>> PROVE UniqueNumbers'
  BY <1>3 DEF UniqueInv, UniqueNumbers
<1>4. ASSUME NEW w \in Workers, NEW d \in Invoices, RequestStep(w, d)
      PROVE  UNCHANGED <<invoice, note>>
  BY <1>4 DEF RequestStep, RequestCollect, RequestDirect, RequestCreditNote, RequestVoid, ReadToAge,
              Starts
<1>5. UniqueNumbers'
  BY <1>2, <1>3, <1>4 DEF Next, EditSequence, vars
<1> QED
  BY <1>1, <1>5 DEF UniqueInv

(* The initial states satisfy it.                                            *)
LEMMA InitUnique == Init => UniqueInv
BY DEF Init, UniqueInv, TypeOK, NumberInv, Numbered, UniqueNumbers, Row, Idle, NcfTypes

LEMMA UniqueAlways == Spec => []UniqueInv
<1>1. UniqueInv /\ [Next]_vars => UniqueInv'
  BY NextUnique
<1> QED
  BY <1>1, InitUnique, PTL DEF Spec

(* Whatever charges, credit notes, voids and sequence editions race, with any
   number of workers and wherever transactions roll back, no two invoices and
   no two credit notes are committed under one NCF.                          *)
THEOREM NumbersAreUnique == Spec => []UniqueNumbers
<1>1. UniqueInv => UniqueNumbers
  BY DEF UniqueInv
<1> QED
  BY <1>1, UniqueAlways, PTL

(* The rows, the sequences and the transactions in flight keep their types: a
   sequence is never read past its end, nor a lock left to nobody that exists. *)
THEOREM SettlementTypes == Spec => []TypeOK
<1>1. UniqueInv => TypeOK
  BY DEF UniqueInv
<1> QED
  BY <1>1, UniqueAlways, PTL

-----------------------------------------------------------------------------
(* Transactions that do not overlap on an invoice, and no edition *)

NoEdit == "EDIT" \notin Kinds

(* Transactions that will write the row of their invoice.                    *)
Replaces(k) ==
  \/ k.pc \in {"write", "writing"}
  \/ k.pc \in {"number", "reserve", "submit", "save", "saving"} /\ k.kind # "CREDIT"

Unissued(row) == row.status # "ISSUED" /\ row.ncf = 0

(* An invoice is numbered exactly when it is issued, and the rows that a
   transaction has read were not: the row that a void or the cycle will save,
   and the one that the SELECT of a save found.                              *)
RowsInv ==
  /\ IssuedHasNumber
  /\ \A w \in Workers : tx[w].pc \in {"write", "writing"} =>
       tx[w].row = [status |-> "OPEN", ncf |-> 0]
  /\ \A w \in Workers : tx[w].pc # "idle" => Unissued(tx[w].seen)

(* The invoice of such a transaction is not issued yet.                      *)
HeldInv == \A w \in Workers : Replaces(tx[w]) => invoice[tx[w].of].status # "ISSUED"

(* The lock of a sequence is held by a transaction that numbers a document of
   its type; one that holds a number without the lock holds a used one.      *)
LockInv ==
  /\ \A t \in NcfTypes : lock[t] # NoWorker =>
       tx[lock[t]].pc \in Sending /\ TypeOf(tx[lock[t]]) = t
  /\ \A w \in Workers : tx[w].pc \in Numbered =>
       tx[w].number <= sequence[TypeOf(tx[w])]
  /\ \A w \in Workers : tx[w].pc \in Sending =>
       lock[TypeOf(tx[w])] = w \/ tx[w].number < sequence[TypeOf(tx[w])]

ChargedInv == \A d \in Invoices : charged[d] = IF invoice[d].status = "ISSUED" THEN 1 ELSE 0

ApartInv == UniqueInv /\ Apart /\ RowsInv /\ HeldInv /\ LockInv /\ ChargedInv /\ NumbersAreConsecutive

(* A new number joins those that are recorded for its type.                  *)
LEMMA RecordedInvoice ==
  ASSUME TypeOK, NEW d \in Invoices, NEW n \in Nat, invoice[d].ncf = 0, UNCHANGED note,
         NEW row, row.ncf = n, invoice' = [invoice EXCEPT ![d] = row]
  PROVE  /\ Recorded("E32")' = Recorded("E32") \cup ({n} \ {0})
         /\ Recorded("E34")' = Recorded("E34")
<1>1. \A e \in Invoices : invoice'[e].ncf = IF e = d THEN n ELSE invoice[e].ncf
  BY DEF TypeOK
<1> QED
  BY <1>1 DEF Recorded

(* The same for the number of a credit note. *)
LEMMA RecordedNote ==
  ASSUME TypeOK, NEW d \in Invoices, NEW n \in Numbers, note[d] = 0, UNCHANGED invoice,
         note' = [note EXCEPT ![d] = n]
  PROVE  /\ Recorded("E34")' = Recorded("E34") \cup {n}
         /\ Recorded("E32")' = Recorded("E32")
<1>1. \A e \in Invoices : note'[e] = IF e = d THEN n ELSE note[e]
  BY DEF TypeOK
<1>2. n # 0
  BY DEF Numbers
<1> QED
  BY <1>1, <1>2 DEF Recorded

(* A charge commits over an invoice that is not issued, and writes both its
   status and its number.                                                    *)
LEMMA CommitOfUnissued ==
  ASSUME ApartInv, NEW w \in Workers, SaveAndCommit(w), tx[w].kind # "CREDIT"
  PROVE  /\ Unissued(invoice[tx[w].of]) /\ invoice[tx[w].of].ncf # tx[w].number
         /\ Issued(tx[w]) = [status |-> "ISSUED", ncf |-> tx[w].number]
<1>1. tx[w].number \in Numbers /\ tx[w].of \in Invoices /\ Replaces(tx[w]) /\ tx[w].pc # "idle"
  BY DEF SaveAndCommit, Saves, ApartInv, UniqueInv, TypeOK, NumberInv, Numbered, Tx, Idle, Replaces
<1>2. Unissued(invoice[tx[w].of]) /\ Unissued(tx[w].seen) /\ tx[w].number # 0
  BY <1>1 DEF ApartInv, HeldInv, RowsInv, IssuedHasNumber, Unissued, Numbers
<1>3. Issued(tx[w]) = [status |-> "ISSUED", ncf |-> tx[w].number]
  BY <1>2 DEF Issued, Merged, Unissued
<1> QED
  BY <1>2, <1>3 DEF Unissued

(* The transaction that commits has locked its sequence, and the number it
   read is still the next one.                                               *)
LEMMA CommitsTheNext ==
  ASSUME ApartInv, NEW w \in Workers, SaveAndCommit(w)
  PROVE  /\ tx[w].number = sequence[TypeOf(tx[w])]
         /\ \A t \in NcfTypes : lock[t] = w <=> t = TypeOf(tx[w])
<1> DEFINE t == TypeOf(tx[w])
           n == tx[w].number
<1>1. t \in NcfTypes /\ tx[w].pc \in Sending /\ tx[w].pc \in Numbered /\ n \in Numbers
  BY DEF SaveAndCommit, Saves, Sending, Numbered, TypeOf, NcfTypes, ApartInv, UniqueInv, NumberInv
<1>2. n \notin Recorded(t)
  <2>1. CASE tx[w].kind = "CREDIT"
    BY <2>1 DEF SaveAndCommit, TypeOf
  <2>2. CASE tx[w].kind # "CREDIT"
    <3>1. /\ Issued(tx[w]) = [status |-> "ISSUED", ncf |-> tx[w].number]
          /\ invoice[tx[w].of].ncf # n
      BY <2>2, CommitOfUnissued
    <3>2. \A d \in Invoices : invoice[d].ncf # n
      BY <1>1, <2>2, <3>1 DEF SaveAndCommit, IsFree, Numbers
    <3> QED
      BY <2>2, <3>2 DEF Recorded, TypeOf
  <2> QED
    BY <2>1, <2>2
<1>3. n \notin 1..(sequence[t] - 1)
  BY <1>1, <1>2 DEF ApartInv, NumbersAreConsecutive
<1>4. n <= sequence[t] /\ sequence[t] \in 1..EndSequence + 1
  BY <1>1 DEF ApartInv, LockInv, UniqueInv, TypeOK
<1>5. n = sequence[t]
  BY <1>1, <1>3, <1>4 DEF Numbers
<1>6. lock[t] = w
  BY <1>1, <1>4, <1>5 DEF ApartInv, LockInv, Numbers
<1>7. \A u \in NcfTypes : lock[u] = w => u = t
  BY <1>1 DEF ApartInv, LockInv
<1> QED
  BY <1>5, <1>6, <1>7

(* What a step must leave in its own transaction, and in the sequences.      *)
LEMMA LockUpdate ==
  ASSUME ApartInv, NEW w \in Workers, NEW next, tx' = [tx EXCEPT ![w] = next],
         \A t \in NcfTypes : sequence'[t] \in Nat /\ sequence'[t] >= sequence[t],
         \A t \in NcfTypes : lock'[t] = lock[t] \/ {lock[t], lock'[t]} \subseteq {w, NoWorker},
         \A t \in NcfTypes : lock'[t] = w => next.pc \in Sending /\ TypeOf(next) = t,
         next.pc \in Numbered => next.number <= sequence'[TypeOf(next)],
         next.pc \in Sending =>
           lock'[TypeOf(next)] = w \/ next.number < sequence'[TypeOf(next)]
  PROVE  LockInv'
<1> USE DEF Numbered, Sending
<1>1. \A v \in Workers : tx'[v] = IF v = w THEN next ELSE tx[v]
  BY DEF ApartInv, UniqueInv, TypeOK
<1>2. \A t \in NcfTypes : sequence[t] \in Nat /\ lock[t] \in Workers \cup {NoWorker}
  BY DEF ApartInv, UniqueInv, TypeOK
<1>3. \A v \in Workers : tx[v].pc \in Numbered =>
        tx[v].number \in Nat /\ TypeOf(tx[v]) \in NcfTypes
  BY DEF ApartInv, UniqueInv, NumberInv, Numbers, TypeOf, NcfTypes
<1>4. ASSUME NEW t \in NcfTypes, lock'[t] # NoWorker
      PROVE  tx'[lock'[t]].pc \in Sending /\ TypeOf(tx'[lock'[t]]) = t
  BY <1>1, <1>2, <1>4 DEF ApartInv, LockInv
<1>5. ASSUME NEW v \in Workers \ {w}, tx[v].pc \in Numbered
      PROVE  /\ tx[v].number <= sequence'[TypeOf(tx[v])]
             /\ tx[v].pc # "reserve" =>
                  lock'[TypeOf(tx[v])] = v \/ tx[v].number < sequence'[TypeOf(tx[v])]
  <2> DEFINE t == TypeOf(tx[v])
  <2>1. t \in NcfTypes /\ tx[v].number \in Nat
    BY <1>3, <1>5
  <2>2. /\ tx[v].number <= sequence[t]
        /\ tx[v].pc # "reserve" => lock[t] = v \/ tx[v].number < sequence[t]
    BY <1>5 DEF ApartInv, LockInv
  <2>3. lock[t] = v => lock'[t] = v
    BY <2>1, <1>5
  <2>4. sequence[t] \in Nat /\ sequence'[t] \in Nat /\ sequence[t] <= sequence'[t]
    BY <1>2, <2>1
  <2> HIDE DEF t
  <2>5. /\ tx[v].number <= sequence'[t]
        /\ tx[v].pc # "reserve" => lock'[t] = v \/ tx[v].number < sequence'[t]
    BY <2>1, <2>2, <2>3, <2>4
  <2> QED
    BY <2>5 DEF t
<1>6. \A v \in Workers : TypeOf(tx[v])' = TypeOf(tx'[v])
  BY DEF TypeOf
<1> QED
  BY <1>1, <1>4, <1>5 DEF LockInv, TypeOf

(* The same for a step that changes neither the sequences nor their locks.   *)
LEMMA LockStays ==
  ASSUME ApartInv, NEW w \in Workers, NEW next, tx' = [tx EXCEPT ![w] = next],
         UNCHANGED <<sequence, lock>>,
         \A t \in NcfTypes : lock[t] = w => next.pc \in Sending /\ TypeOf(next) = t,
         next.pc \in Numbered => next.number <= sequence[TypeOf(next)],
         next.pc \in Sending =>
           lock[TypeOf(next)] = w \/ next.number < sequence[TypeOf(next)]
  PROVE  LockInv'
<1> USE DEF Numbered, Sending
<1>1. \A v \in Workers : tx'[v] = IF v = w THEN next ELSE tx[v]
  BY DEF ApartInv, UniqueInv, TypeOK
<1>2. sequence' = sequence /\ lock' = lock
  OBVIOUS
<1>3. \A t \in NcfTypes : lock[t] # NoWorker =>
        tx'[lock[t]].pc \in Sending /\ TypeOf(tx'[lock[t]]) = t
  BY <1>1 DEF ApartInv, LockInv, UniqueInv, TypeOK
<1>4. ASSUME NEW v \in Workers
      PROVE  /\ tx'[v].pc \in Numbered =>
                  tx'[v].number <= sequence[TypeOf(tx'[v])]
             /\ tx'[v].pc \in Sending =>
                  lock[TypeOf(tx'[v])] = v \/ tx'[v].number < sequence[TypeOf(tx'[v])]
  BY <1>1 DEF ApartInv, LockInv
<1> QED
  BY <1>2, <1>3, <1>4 DEF LockInv, TypeOf

(* The two invariants about rows are kept by a step that changes no row.     *)
LEMMA QuietUpdate ==
  ASSUME ApartInv, NEW w \in Workers, NEW next, tx' = [tx EXCEPT ![w] = next],
         UNCHANGED <<invoice, note, charged, sequence>>,
         Replaces(next) => invoice[next.of].status # "ISSUED",
         next.pc \in {"write", "writing"} => next.row = [status |-> "OPEN", ncf |-> 0],
         next.pc # "idle" => Unissued(next.seen)
  PROVE  RowsInv' /\ HeldInv' /\ ChargedInv' /\ NumbersAreConsecutive'
<1>1. \A v \in Workers : tx'[v] = IF v = w THEN next ELSE tx[v]
  BY DEF ApartInv, UniqueInv, TypeOK
<1>2. HeldInv'
  BY <1>1 DEF ApartInv, HeldInv, Replaces
<1>3. ChargedInv'
  BY DEF ApartInv, ChargedInv
<1>4. NumbersAreConsecutive'
  BY DEF ApartInv, NumbersAreConsecutive, Recorded
<1>5. RowsInv'
  BY <1>1 DEF ApartInv, RowsInv, IssuedHasNumber, Unissued
<1> QED
  BY <1>2, <1>3, <1>4, <1>5

(* A step that ends a transaction without touching a sequence.               *)
LEMMA EndLock ==
  ASSUME ApartInv, NEW w \in Workers, EndTx(w),
         \A t \in NcfTypes : sequence'[t] \in Nat /\ sequence'[t] >= sequence[t]
  PROVE  LockInv'
<1>1. /\ Idle.pc = "idle"
      /\ tx' = [tx EXCEPT ![w] = Idle]
      /\ \A t \in NcfTypes : lock'[t] = IF lock[t] = w THEN NoWorker ELSE lock[t]
  BY DEF EndTx, Idle
<1>2. \A t \in NcfTypes : lock'[t] # w
  BY <1>1
<1>3. \A t \in NcfTypes : lock'[t] = lock[t] \/ {lock[t], lock'[t]} \subseteq {w, NoWorker}
  BY <1>1
<1> QED
  BY <1>1, <1>2, <1>3, LockUpdate DEF Numbered, Sending

(* No other transaction that will write works on the invoice of w.           *)
LEMMA WorksAlone ==
  ASSUME ApartInv, NEW w \in Workers, Works(w), NEW v \in Workers, Replaces(tx[v]), v # w
  PROVE  tx[v].of # tx[w].of
BY DEF ApartInv, Apart, Works, Replaces

Kept == RowsInv' /\ HeldInv' /\ LockInv' /\ ChargedInv' /\ NumbersAreConsecutive'

(* The commit of a charge or of a credit note.                               *)
LEMMA CommitApart ==
  ASSUME ApartInv, NEW w \in Workers, SaveAndCommit(w)
  PROVE  Kept
<1> DEFINE k == tx[w]
           n == k.number
           t == TypeOf(k)
           d == k.of
<1>1. k \in Tx /\ d \in Invoices /\ n \in Numbers /\ t \in NcfTypes /\ k.pc \in {"save", "saving"}
  BY DEF SaveAndCommit, Saves, ApartInv, UniqueInv, TypeOK, NumberInv, Numbered, Tx, Idle, TypeOf,
         NcfTypes
<1>2. n = sequence[t] /\ \A u \in NcfTypes : lock[u] = w <=> u = t
  BY CommitsTheNext
<1>3. EndTx(w) /\ sequence' = [u \in NcfTypes |-> IF lock[u] = w THEN n + 1 ELSE sequence[u]]
  BY DEF SaveAndCommit, Commit
<1>4. \A u \in NcfTypes : sequence'[u] = IF u = t THEN sequence[u] + 1 ELSE sequence[u]
  BY <1>2, <1>3
<1>5. \A u \in NcfTypes : sequence[u] \in Nat
  BY DEF ApartInv, UniqueInv, TypeOK
<1>6. LockInv'
  BY <1>3, <1>4, <1>5, EndLock
<1>7. n # 0 /\ n \in Nat /\ Works(w)
  BY <1>1 DEF Numbers, Works
<1>8. \A v \in Workers : tx'[v] = IF v = w THEN Idle ELSE tx[v]
  BY <1>3 DEF EndTx, ApartInv, UniqueInv, TypeOK
<1>9. ASSUME \A u \in NcfTypes :
                Recorded(u)' = IF u = t THEN Recorded(u) \cup {n} ELSE Recorded(u)
      PROVE  NumbersAreConsecutive'
  <2> HIDE DEF t, n
  <2>1. \A u \in NcfTypes : Recorded(u) = 1..(sequence[u] - 1)
    BY DEF ApartInv, NumbersAreConsecutive
  <2>2. (1..(n - 1)) \cup {n} = 1..n /\ n + 1 - 1 = n
    BY <1>7
  <2>3. ASSUME NEW u \in NcfTypes PROVE Recorded(u)' = 1..(sequence'[u] - 1)
    <3>1. CASE u = t
      <4>1. Recorded(u)' = Recorded(u) \cup {n} /\ sequence'[u] = n + 1
        BY <1>2, <1>4, <1>9, <3>1
      <4>2. Recorded(u) = 1..(n - 1)
        BY <1>2, <2>1, <3>1
      <4> QED
        BY <2>2, <4>1, <4>2
    <3>2. CASE u # t
      BY <1>4, <1>9, <2>1, <3>2
    <3> QED
      BY <3>1, <3>2
  <2> QED
    BY <2>3 DEF NumbersAreConsecutive, Recorded
<1>10. CASE k.kind = "CREDIT"
  <2>1. /\ note' = [note EXCEPT ![d] = n] /\ UNCHANGED <<invoice, charged>>
        /\ note[d] = 0 /\ t = "E34"
    BY <1>10 DEF SaveAndCommit, Commit, TypeOf
  <2>2. Recorded("E34")' = Recorded("E34") \cup {n} /\ Recorded("E32")' = Recorded("E32")
    BY <1>1, <2>1, RecordedNote DEF ApartInv, UniqueInv
  <2>3. NumbersAreConsecutive'
    BY <1>9, <2>1, <2>2 DEF NcfTypes
  <2>4. RowsInv' /\ HeldInv' /\ ChargedInv'
    BY <1>8, <2>1 DEF ApartInv, RowsInv, IssuedHasNumber, Unissued, HeldInv, ChargedInv, Replaces, Idle
  <2> QED
    BY <1>6, <2>3, <2>4 DEF Kept
<1>11. CASE k.kind # "CREDIT"
  <2> DEFINE row == [status |-> "ISSUED", ncf |-> n]
  <2>1. /\ invoice' = [invoice EXCEPT ![d] = row] /\ UNCHANGED note /\ t = "E32"
        /\ charged' = [charged EXCEPT ![d] = IF @ < 2 THEN @ + 1 ELSE @]
    BY <1>11, CommitOfUnissued DEF SaveAndCommit, Commit, TypeOf
  <2>2. invoice[d].status # "ISSUED" /\ invoice[d].ncf = 0
    BY <1>11, CommitOfUnissued DEF Unissued
  <2>3. Recorded("E32")' = Recorded("E32") \cup {n} /\ Recorded("E34")' = Recorded("E34")
    <3>1. row.ncf = n /\ {n} \ {0} = {n} /\ TypeOK
      BY <1>7 DEF ApartInv, UniqueInv
    <3> HIDE DEF row, n, d
    <3>2. /\ Recorded("E32")' = Recorded("E32") \cup ({n} \ {0})
          /\ Recorded("E34")' = Recorded("E34")
      BY <1>1, <1>7, <2>1, <2>2, <3>1, RecordedInvoice
    <3> QED
      BY <3>1, <3>2
  <2>4. NumbersAreConsecutive'
    BY <1>9, <2>1, <2>3 DEF NcfTypes
  <2>5. \A e \in Invoices : invoice'[e] = IF e = d THEN row ELSE invoice[e]
    BY <2>1 DEF ApartInv, UniqueInv, TypeOK
  <2>6. RowsInv'
    BY <1>7, <1>8, <2>5 DEF ApartInv, RowsInv, IssuedHasNumber, Unissued, Idle
  <2>7. HeldInv'
    <3> SUFFICES ASSUME NEW v \in Workers, Replaces(tx'[v])
                 PROVE  invoice'[tx'[v].of].status # "ISSUED"
      BY DEF HeldInv, Replaces
    <3>1. v # w /\ tx'[v] = tx[v]
      BY <1>8 DEF Replaces, Idle
    <3>2. tx[v].of # d /\ invoice[tx[v].of].status # "ISSUED"
      BY <1>7, <3>1, WorksAlone DEF ApartInv, HeldInv
    <3>3. tx[v].of \in Invoices
      BY <3>1 DEF ApartInv, UniqueInv, TypeOK, Tx, Idle, Replaces
    <3> QED
      BY <2>5, <3>1, <3>2, <3>3
  <2>8. ChargedInv'
    <3>1. charged[d] = 0
      BY <1>1, <2>2 DEF ApartInv, ChargedInv
    <3>2. \A e \in Invoices : charged'[e] = IF e = d THEN 1 ELSE charged[e]
      BY <1>1, <2>1, <3>1 DEF ApartInv, UniqueInv, TypeOK
    <3> QED
      BY <2>5, <3>2 DEF ApartInv, ChargedInv
  <2> QED
    BY <1>6, <2>4, <2>6, <2>7, <2>8 DEF Kept
<1> QED
  BY <1>10, <1>11

(* The write of a stale row, which is not stale when transactions are apart. *)
LEMMA WriteApart ==
  ASSUME ApartInv, NEW w \in Workers, NEW changed \in BOOLEAN, WriteInvoice(w, changed)
  PROVE  Kept
<1> DEFINE d == tx[w].of
           row == Merged(invoice[d], tx[w].seen, Written(tx[w]), changed)
<1>1. d \in Invoices /\ tx[w].pc = "writing" /\ Works(w)
  BY DEF WriteInvoice, ApartInv, UniqueInv, TypeOK, Tx, Idle, Works
<1>2. invoice[d].status # "ISSUED" /\ invoice[d].ncf = 0
  BY <1>1 DEF ApartInv, HeldInv, Replaces, RowsInv, IssuedHasNumber
<1>3. row.status # "ISSUED" /\ row.ncf = 0
  <2>1. Written(tx[w]).status \in {"OPEN", "VOIDED"} /\ Written(tx[w]).ncf = 0
    BY <1>1 DEF Written, ApartInv, RowsInv
  <2> QED
    BY <1>2, <2>1 DEF Merged
<1>4. /\ invoice' = [invoice EXCEPT ![d] = row] /\ EndTx(w)
      /\ UNCHANGED <<note, charged, sequence>>
  BY DEF WriteInvoice
<1> HIDE DEF row
<1>5. \A e \in Invoices : invoice'[e] = IF e = d THEN row ELSE invoice[e]
  BY <1>4 DEF ApartInv, UniqueInv, TypeOK
<1>6. \A v \in Workers : tx'[v] = IF v = w THEN Idle ELSE tx[v]
  BY <1>4 DEF EndTx, ApartInv, UniqueInv, TypeOK
<1>7. LockInv'
  BY <1>4, EndLock DEF ApartInv, UniqueInv, TypeOK
<1>8. Recorded("E32")' = Recorded("E32") /\ Recorded("E34")' = Recorded("E34")
  <2>1. TypeOK /\ 0 \in Nat /\ {0} \ {0} = {}
    BY DEF ApartInv, UniqueInv
  <2> HIDE DEF d
  <2>2. /\ Recorded("E32")' = Recorded("E32") \cup ({0} \ {0})
        /\ Recorded("E34")' = Recorded("E34")
    BY <1>1, <1>2, <1>3, <1>4, <2>1, RecordedInvoice
  <2> QED
    BY <2>1, <2>2
<1>9. NumbersAreConsecutive'
  BY <1>4, <1>8 DEF ApartInv, NumbersAreConsecutive, NcfTypes
<1>10. HeldInv'
  <2> SUFFICES ASSUME NEW v \in Workers, Replaces(tx'[v])
               PROVE  invoice'[tx'[v].of].status # "ISSUED"
    BY DEF HeldInv, Replaces
  <2>1. tx'[v] = tx[v] /\ Replaces(tx[v])
    BY <1>6 DEF Replaces, Idle
  <2>2. invoice[tx[v].of].status # "ISSUED" /\ tx[v].of \in Invoices
    BY <2>1 DEF ApartInv, HeldInv, UniqueInv, TypeOK, Tx, Idle, Replaces
  <2> QED
    BY <1>3, <1>5, <2>1, <2>2
<1>11. ChargedInv' /\ RowsInv'
  BY <1>1, <1>2, <1>3, <1>4, <1>5, <1>6
     DEF ApartInv, ChargedInv, RowsInv, IssuedHasNumber, Unissued, Idle
<1> QED
  BY <1>7, <1>9, <1>10, <1>11 DEF Kept

(* A step of one worker.                                                     *)
LEMMA StepApart ==
  ASSUME ApartInv, NEW w \in Workers, TxStep(w)
  PROVE  Kept
<1> USE DEF Numbered, Sending
<1>1. /\ \A t \in NcfTypes : sequence[t] \in Nat /\ (lock[t] = w => tx[w].pc \in Sending)
      /\ TypeOf(tx[w]) \in NcfTypes /\ w # NoWorker
      /\ tx[w].pc # "idle" => tx[w] \in Tx /\ Unissued(tx[w].seen)
  BY DEF ApartInv, RowsInv, LockInv, UniqueInv, TypeOK, TypeOf, NcfTypes, Idle, Tx
<1>2. CASE SettleInvoice(w)
  <2> DEFINE next == [tx[w] EXCEPT !.pc = "number"]
  <2>1. tx' = [tx EXCEPT ![w] = next] /\ UNCHANGED <<invoice, note, charged, sequence, lock>>
    BY <1>2 DEF SettleInvoice
  <2>2. /\ next.pc = "number" /\ next.of = tx[w].of /\ \A t \in NcfTypes : lock[t] # w
        /\ Unissued(next.seen)
    BY <1>1, <1>2 DEF SettleInvoice, Tx
  <2>3. invoice[next.of].status # "ISSUED"
    BY <1>2, <2>2 DEF SettleInvoice
  <2> HIDE DEF next
  <2>4. RowsInv' /\ HeldInv' /\ ChargedInv' /\ NumbersAreConsecutive'
    BY <2>1, <2>2, <2>3, QuietUpdate
  <2>5. LockInv'
    BY <2>1, <2>2, LockStays
  <2> QED
    BY <2>1, <2>4, <2>5 DEF Kept
<1>3. CASE ReadSequence(w)
  <2> DEFINE next == [tx[w] EXCEPT !.pc = "reserve", !.number = sequence[TypeOf(tx[w])]]
  <2>1. tx' = [tx EXCEPT ![w] = next] /\ UNCHANGED <<invoice, note, charged, sequence, lock>>
    BY <1>3 DEF ReadSequence
  <2>2. /\ next.pc = "reserve" /\ next.of = tx[w].of /\ next.kind = tx[w].kind
        /\ next.number = sequence[TypeOf(tx[w])] /\ \A t \in NcfTypes : lock[t] # w
        /\ Unissued(next.seen)
    BY <1>1, <1>3 DEF ReadSequence, Tx
  <2>3. Replaces(next) => invoice[next.of].status # "ISSUED"
    BY <1>3, <2>2 DEF ReadSequence, Replaces, ApartInv, HeldInv
  <2>4. TypeOf(next) = TypeOf(tx[w])
    BY <2>2 DEF TypeOf
  <2> HIDE DEF next
  <2>5. RowsInv' /\ HeldInv' /\ ChargedInv' /\ NumbersAreConsecutive'
    BY <2>1, <2>2, <2>3, QuietUpdate
  <2>6. LockInv'
    <3>1. next.number <= sequence[TypeOf(next)]
      BY <1>1, <2>2, <2>4
    <3> QED
      BY <2>1, <2>2, <3>1, LockStays
  <2> QED
    BY <2>1, <2>5, <2>6 DEF Kept
<1>4. CASE ReserveNumber(w)
  <2> DEFINE next == [tx[w] EXCEPT !.pc = "submit"]
             t == TypeOf(tx[w])
  <2>1. tx' = [tx EXCEPT ![w] = next] /\ UNCHANGED <<invoice, note, charged, sequence>>
    BY <1>4 DEF ReserveNumber
  <2>2. /\ next.pc = "submit" /\ next.of = tx[w].of /\ next.kind = tx[w].kind
        /\ next.number = tx[w].number /\ Unissued(next.seen)
    BY <1>1, <1>4 DEF ReserveNumber, Tx
  <2>3. Replaces(next) => invoice[next.of].status # "ISSUED"
    BY <1>4, <2>2 DEF ReserveNumber, Replaces, ApartInv, HeldInv
  <2>4. TypeOf(next) = t
    BY <2>2 DEF TypeOf
  <2>5. next.number \in Nat /\ next.number <= sequence[t]
    BY <1>4, <2>2 DEF ReserveNumber, ApartInv, LockInv, UniqueInv, NumberInv, Numbers
  <2>6. \A u \in NcfTypes : lock[u] # w
    BY <1>1, <1>4 DEF ReserveNumber
  <2> HIDE DEF next
  <2>7. \/ lock[t] = NoWorker /\ lock' = [lock EXCEPT ![t] = w]
        \/ sequence[t] = next.number + 1 /\ UNCHANGED lock
    BY <1>4, <2>2 DEF ReserveNumber
  <2> HIDE DEF t
  <2>8. /\ \A u \in NcfTypes : lock'[u] = lock[u] \/ {lock[u], lock'[u]} \subseteq {w, NoWorker}
        /\ \A u \in NcfTypes : lock'[u] = w => u = t
        /\ lock'[t] = w \/ next.number < sequence[t]
    BY <1>1, <2>5, <2>6, <2>7 DEF ApartInv, UniqueInv, TypeOK, t
  <2>9. RowsInv' /\ HeldInv' /\ ChargedInv' /\ NumbersAreConsecutive'
    BY <2>1, <2>2, <2>3, QuietUpdate
  <2>10. LockInv'
    <3>1. \A u \in NcfTypes : sequence'[u] \in Nat /\ sequence'[u] >= sequence[u]
      BY <1>1, <2>1
    <3>2. /\ next.number <= sequence'[TypeOf(next)]
          /\ lock'[TypeOf(next)] = w \/ next.number < sequence'[TypeOf(next)]
          /\ \A u \in NcfTypes : lock'[u] = w => TypeOf(next) = u
      BY <2>1, <2>4, <2>5, <2>8
    <3> QED
      BY <2>1, <2>2, <2>8, <3>1, <3>2, LockUpdate
  <2> QED
    BY <2>1, <2>9, <2>10 DEF Kept
<1>5. ASSUME NEW received \in BOOLEAN, SubmitEcf(w, received) PROVE Kept
  <2> DEFINE next == [tx[w] EXCEPT !.pc = "save"]
  <2>1. tx' = [tx EXCEPT ![w] = next] /\ UNCHANGED <<invoice, note, charged, sequence, lock>>
    BY <1>5 DEF SubmitEcf
  <2>2. /\ next.pc = "save" /\ next.of = tx[w].of /\ next.kind = tx[w].kind
        /\ next.number = tx[w].number /\ Unissued(next.seen)
    BY <1>1, <1>5 DEF SubmitEcf, Tx
  <2>3. Replaces(next) => invoice[next.of].status # "ISSUED"
    BY <1>5, <2>2 DEF SubmitEcf, Replaces, ApartInv, HeldInv
  <2>4. TypeOf(next) = TypeOf(tx[w])
    BY <2>2 DEF TypeOf
  <2>5. /\ next.number <= sequence[TypeOf(next)]
        /\ lock[TypeOf(next)] = w \/ next.number < sequence[TypeOf(next)]
        /\ \A t \in NcfTypes : lock[t] = w => TypeOf(next) = t
    BY <1>1, <1>5, <2>2, <2>4 DEF SubmitEcf, ApartInv, LockInv
  <2> HIDE DEF next
  <2>6. RowsInv' /\ HeldInv' /\ ChargedInv' /\ NumbersAreConsecutive'
    BY <2>1, <2>2, <2>3, QuietUpdate
  <2>7. LockInv'
    BY <2>1, <2>2, <2>5, LockStays
  <2> QED
    BY <2>1, <2>6, <2>7 DEF Kept
<1>6. CASE SaveAndCommit(w)
  BY <1>6, CommitApart
<1>7. CASE Rollback(w)
  <2>1. /\ EndTx(w) /\ UNCHANGED <<invoice, note, charged, sequence>>
        /\ tx' = [tx EXCEPT ![w] = Idle] /\ ~Replaces(Idle) /\ Idle.pc = "idle"
    BY <1>7 DEF Rollback, EndTx, Replaces, Idle
  <2>2. LockInv'
    BY <1>1, <2>1, EndLock
  <2>3. RowsInv' /\ HeldInv' /\ ChargedInv' /\ NumbersAreConsecutive'
    BY <2>1, QuietUpdate
  <2> QED
    BY <2>1, <2>2, <2>3 DEF Kept
<1>8. ASSUME NEW changed \in BOOLEAN, WriteInvoice(w, changed) PROVE Kept
  BY <1>8, WriteApart
<1>9. CASE SelectInvoice(w)
  <2> DEFINE next == [tx[w] EXCEPT !.pc = IF tx[w].pc = "save" THEN "saving" ELSE "writing",
                                   !.seen = invoice[tx[w].of]]
  <2>1. tx' = [tx EXCEPT ![w] = next] /\ UNCHANGED <<invoice, note, charged, sequence, lock>>
    BY <1>9 DEF SelectInvoice
  <2>2. /\ next.pc = (IF tx[w].pc = "save" THEN "saving" ELSE "writing") /\ next.of = tx[w].of
        /\ next.kind = tx[w].kind /\ next.number = tx[w].number /\ next.row = tx[w].row
        /\ next.seen = invoice[tx[w].of] /\ tx[w].pc \in {"save", "write"}
        /\ tx[w].kind # "CREDIT" /\ tx[w].of \in Invoices
    BY <1>1, <1>9 DEF SelectInvoice, Tx
  <2>3. invoice[tx[w].of].status # "ISSUED" /\ Unissued(next.seen)
    BY <2>2 DEF ApartInv, HeldInv, Replaces, RowsInv, IssuedHasNumber, Unissued
  <2>4. TypeOf(next) = TypeOf(tx[w])
    BY <2>2 DEF TypeOf
  <2> HIDE DEF next
  <2>5. next.pc = "writing" => next.row = [status |-> "OPEN", ncf |-> 0]
    BY <2>2 DEF ApartInv, RowsInv
  <2>6. RowsInv' /\ HeldInv' /\ ChargedInv' /\ NumbersAreConsecutive'
    BY <2>1, <2>2, <2>3, <2>5, QuietUpdate
  <2>7. LockInv'
    <3>1. \A t \in NcfTypes : lock[t] = w => TypeOf(next) = t
      BY <1>1, <2>2, <2>4 DEF ApartInv, LockInv
    <3>2. CASE tx[w].pc = "save"
      <4>1. next.pc = "saving" /\ next.number <= sequence[TypeOf(next)]
            /\ (lock[TypeOf(next)] = w \/ next.number < sequence[TypeOf(next)])
        BY <2>2, <2>4, <3>2 DEF ApartInv, LockInv
      <4> QED
        BY <2>1, <3>1, <4>1, LockStays
    <3>3. CASE tx[w].pc = "write"
      <4>1. next.pc = "writing" /\ \A t \in NcfTypes : lock[t] # w
        BY <1>1, <2>2, <3>3
      <4> QED
        BY <2>1, <4>1, LockStays
    <3> QED
      BY <2>2, <3>2, <3>3
  <2> QED
    BY <2>6, <2>7 DEF Kept
<1> QED
  BY <1>2, <1>3, <1>4, <1>5, <1>6, <1>7, <1>8, <1>9 DEF TxStep

(* Every step of the system.                                                 *)
LEMMA NextApart ==
  ASSUME NoEdit, ApartInv, [Next /\ Apart']_vars
  PROVE  ApartInv'
<1>1. UniqueInv'
  BY NextUnique DEF ApartInv
<1>2. Apart'
  BY DEF ApartInv, Apart, Works, vars
<1>3. ASSUME NEW w \in Workers, TxStep(w) PROVE Kept
  BY <1>3, StepApart
<1>4. ASSUME NEW w \in Workers, NEW d \in Invoices, RequestStep(w, d)
      PROVE  Kept
  <2>1. PICK next \in Tx :
          /\ tx' = [tx EXCEPT ![w] = next] /\ tx[w].pc = "idle"
          /\ UNCHANGED <<invoice, note, charged, sequence, lock>>
          /\ next.of = d /\ next.pc \in {"settle", "number", "write"} /\ next.seen = NoRow
          /\ next.pc = "write" => next.row = invoice[d] /\ invoice[d].status = "OPEN"
          /\ next.pc # "settle" => \/ next.kind = "CREDIT" /\ next.pc # "write"
                                 \/ invoice[d].status # "ISSUED"
    BY <1>4, Admitted DEF ApartInv, UniqueInv
  <2>2. /\ Replaces(next) => invoice[next.of].status # "ISSUED"
        /\ next.pc \in {"write", "writing"} => next.row = [status |-> "OPEN", ncf |-> 0]
        /\ Unissued(next.seen)
    BY <2>1 DEF Replaces, ApartInv, UniqueInv, TypeOK, RowsInv, IssuedHasNumber, Row, Unissued, NoRow
  <2>3. \A t \in NcfTypes : lock[t] # w
    BY <2>1 DEF ApartInv, LockInv, Sending
  <2>4. RowsInv' /\ HeldInv' /\ ChargedInv' /\ NumbersAreConsecutive'
    BY <2>1, <2>2, QuietUpdate
  <2>5. LockInv'
    BY <2>1, <2>3, LockStays DEF Numbered, Sending
  <2> QED
    BY <2>1, <2>4, <2>5 DEF Kept
<1>5. ASSUME UNCHANGED vars
      PROVE  RowsInv' /\ HeldInv' /\ LockInv' /\ ChargedInv' /\ NumbersAreConsecutive'
  BY <1>5 DEF vars, ApartInv, RowsInv, IssuedHasNumber, Unissued, HeldInv, LockInv, ChargedInv, NumbersAreConsecutive, Recorded,
              Replaces, TypeOf
<1>6. \A t \in NcfTypes : ~EditSequence(t)
  BY DEF EditSequence, NoEdit
<1> QED
  BY <1>1, <1>2, <1>3, <1>4, <1>5, <1>6 DEF Next, Kept, ApartInv

(* The initial states satisfy the invariant. *)
LEMMA InitApart == Init => ApartInv
<1> SUFFICES ASSUME Init PROVE ApartInv
  OBVIOUS
<1>1. Apart /\ RowsInv /\ HeldInv /\ LockInv /\ ChargedInv
  BY DEF Init, Apart, Works, RowsInv, IssuedHasNumber, HeldInv, Replaces, LockInv, ChargedInv, Idle,
         Numbered, Sending
<1>2. NumbersAreConsecutive
  BY DEF Init, NumbersAreConsecutive, Recorded, NcfTypes
<1> QED
  BY <1>1, <1>2, InitUnique DEF ApartInv

(* As long as the transactions of one invoice do not overlap and nobody edits
   a sequence, the NCFs in use are 1, 2, 3... without a gap, although numbers
   are read without a lock and transactions roll back at any point.          *)
THEOREM NumbersHaveNoGap ==
  ASSUME NoEdit PROVE ApartSpec => []NumbersAreConsecutive
<1>1. ApartInv /\ [Next /\ Apart']_vars => ApartInv'
  BY NextApart
<1>2. ApartInv => NumbersAreConsecutive
  BY DEF ApartInv
<1> QED
  BY <1>1, <1>2, InitApart, PTL DEF ApartSpec

-----------------------------------------------------------------------------
(* The ledger *)

(* What the invoice of a transaction must still be when it writes. *)
Expected(k) ==
  IF k.pc \in {"write", "writing"} THEN {"OPEN"}
  ELSE IF k.kind = "CREDIT" THEN {"ISSUED"} ELSE {"ABSENT", "OPEN"}

(* What a transaction has read of its invoice is not outdated. *)
FreshInv ==
  \A w \in Workers :
    /\ tx[w].pc = "settle" => tx[w].kind = "COLLECT"
    /\ tx[w].pc = "writing" => tx[w].seen.status = "OPEN"
    /\ Works(w) => invoice[tx[w].of].status \in Expected(tx[w])

LedgerInv == ApartInv /\ FreshInv

(* A step that writes no invoice but its own leaves the others their reads. *)
LEMMA FreshUpdate ==
  ASSUME LedgerInv, NEW w \in Workers, NEW new, tx' = [tx EXCEPT ![w] = new],
         \A d \in Invoices : invoice'[d] = invoice[d] \/ (Works(w) /\ d = tx[w].of),
         new.pc = "settle" => new.kind = "COLLECT",
         new.pc = "writing" => new.seen.status = "OPEN",
         new.pc \notin {"idle", "settle"} => invoice'[new.of].status \in Expected(new)
  PROVE  FreshInv'
<1>1. \A v \in Workers : tx'[v] = IF v = w THEN new ELSE tx[v]
  BY DEF LedgerInv, ApartInv, UniqueInv, TypeOK
<1>2. ASSUME NEW v \in Workers, v # w, tx[v].pc \notin {"idle", "settle"}
      PROVE  invoice'[tx[v].of] = invoice[tx[v].of]
  <2>1. tx[v].of \in Invoices
    BY <1>2 DEF LedgerInv, ApartInv, UniqueInv, TypeOK, Tx, Idle
  <2>2. Works(w) => tx[v].of # tx[w].of
    BY <1>2 DEF LedgerInv, ApartInv, Apart, Works
  <2> QED BY <2>1, <2>2
<1> QED BY <1>1, <1>2 DEF LedgerInv, FreshInv, Works, Expected

LEMMA StepFresh ==
  ASSUME LedgerInv, NEW w \in Workers, TxStep(w)
  PROVE  FreshInv'
<1> USE DEF LedgerInv, Numbered
<1>1. tx[w].pc # "idle" => tx[w] \in Tx
  BY DEF ApartInv, UniqueInv, TypeOK, Idle
<1>2. CASE SettleInvoice(w)
  <2> DEFINE new == [tx[w] EXCEPT !.pc = "number"]
  <2>1. tx' = [tx EXCEPT ![w] = new] /\ invoice' = invoice /\ invoice[tx[w].of].status = "OPEN"
    BY <1>2 DEF SettleInvoice
  <2>2. new.pc = "number" /\ new.of = tx[w].of /\ new.kind = "COLLECT"
    BY <1>1, <1>2 DEF SettleInvoice, FreshInv, Tx
  <2> HIDE DEF new
  <2> QED BY <2>1, <2>2, FreshUpdate DEF Expected
<1>3. ASSUME NEW new, tx' = [tx EXCEPT ![w] = new], invoice' = invoice,
             tx[w].pc \in {"number", "reserve", "submit"},
             new.pc \in {"reserve", "submit", "save"}, new.of = tx[w].of, new.kind = tx[w].kind
      PROVE  FreshInv'
  <2>1. invoice[new.of].status \in Expected(new)
    BY <1>3 DEF FreshInv, Works, Expected
  <2>2. new.pc \notin {"settle", "writing"}
    BY <1>3
  <2> QED BY <1>3, <2>1, <2>2, FreshUpdate
<1>4. CASE ReadSequence(w)
  <2> DEFINE new == [tx[w] EXCEPT !.pc = "reserve", !.number = sequence[TypeOf(tx[w])]]
  <2>1. tx' = [tx EXCEPT ![w] = new] /\ invoice' = invoice /\ tx[w].pc = "number"
    BY <1>4 DEF ReadSequence
  <2>2. new.pc = "reserve" /\ new.of = tx[w].of /\ new.kind = tx[w].kind
    BY <1>1, <2>1 DEF Tx
  <2> HIDE DEF new
  <2> QED BY <2>1, <2>2, <1>3
<1>5. CASE ReserveNumber(w)
  <2> DEFINE new == [tx[w] EXCEPT !.pc = "submit"]
  <2>1. tx' = [tx EXCEPT ![w] = new] /\ invoice' = invoice /\ tx[w].pc = "reserve"
    BY <1>5 DEF ReserveNumber
  <2>2. new.pc = "submit" /\ new.of = tx[w].of /\ new.kind = tx[w].kind
    BY <1>1, <2>1 DEF Tx
  <2> HIDE DEF new
  <2> QED BY <2>1, <2>2, <1>3
<1>6. ASSUME NEW received \in BOOLEAN, SubmitEcf(w, received) PROVE FreshInv'
  <2> DEFINE new == [tx[w] EXCEPT !.pc = "save"]
  <2>1. tx' = [tx EXCEPT ![w] = new] /\ invoice' = invoice /\ tx[w].pc = "submit"
    BY <1>6 DEF SubmitEcf
  <2>2. new.pc = "save" /\ new.of = tx[w].of /\ new.kind = tx[w].kind
    BY <1>1, <2>1 DEF Tx
  <2> HIDE DEF new
  <2> QED BY <2>1, <2>2, <1>3
<1>7. ASSUME tx' = [tx EXCEPT ![w] = Idle],
             \A d \in Invoices : invoice'[d] = invoice[d] \/ (Works(w) /\ d = tx[w].of)
      PROVE  FreshInv'
  <2>1. Idle.pc = "idle"
    BY DEF Idle
  <2> QED BY <1>7, <2>1, FreshUpdate
<1>8. CASE SaveAndCommit(w) \/ \E changed \in BOOLEAN : WriteInvoice(w, changed)
  <2>1. tx' = [tx EXCEPT ![w] = Idle] /\ Works(w)
    BY <1>8 DEF SaveAndCommit, Saves, Commit, WriteInvoice, EndTx, Works
  <2>2. \/ invoice' = invoice
        \/ \E row : invoice' = [invoice EXCEPT ![tx[w].of] = row]
    BY <1>8 DEF SaveAndCommit, Commit, WriteInvoice
  <2>3. \A d \in Invoices : invoice'[d] = invoice[d] \/ d = tx[w].of
    BY <2>2 DEF ApartInv, UniqueInv, TypeOK
  <2> QED BY <2>1, <2>3, <1>7
<1>9. CASE Rollback(w)
  BY <1>7, <1>9 DEF Rollback, EndTx
<1>10. CASE SelectInvoice(w)
  <2> DEFINE new == [tx[w] EXCEPT !.pc = IF tx[w].pc = "save" THEN "saving" ELSE "writing",
                                  !.seen = invoice[tx[w].of]]
  <2>1. tx' = [tx EXCEPT ![w] = new] /\ invoice' = invoice /\ tx[w].pc \in {"save", "write"}
    BY <1>10 DEF SelectInvoice
  <2>2. /\ new.pc = (IF tx[w].pc = "save" THEN "saving" ELSE "writing")
        /\ new.of = tx[w].of /\ new.kind = tx[w].kind /\ new.seen = invoice[tx[w].of]
    BY <1>1, <2>1 DEF Tx
  <2>3. invoice[tx[w].of].status \in Expected(tx[w])
    BY <2>1 DEF FreshInv, Works
  <2>4. invoice[new.of].status \in Expected(new) /\ (new.pc = "writing" => new.seen.status = "OPEN")
    BY <2>1, <2>2, <2>3 DEF Expected
  <2> HIDE DEF new
  <2> QED BY <2>1, <2>2, <2>4, FreshUpdate
<1> QED BY <1>2, <1>4, <1>5, <1>6, <1>8, <1>9, <1>10 DEF TxStep

LEMMA RequestFresh ==
  ASSUME LedgerInv, NEW w \in Workers, NEW d \in Invoices, RequestStep(w, d)
  PROVE  FreshInv'
<1>1. ASSUME NEW kind, NEW pc, NEW row, Starts(w, kind, d, pc, row),
             pc = "settle" => kind = "COLLECT", pc # "writing",
             pc # "settle" =>
               invoice[d].status \in (IF pc = "write" THEN {"OPEN"}
                                      ELSE IF kind = "CREDIT" THEN {"ISSUED"} ELSE {"ABSENT", "OPEN"})
      PROVE  FreshInv'
  <2> DEFINE new == [pc |-> pc, kind |-> kind, of |-> d, row |-> row, number |-> 0, seen |-> NoRow]
  <2>1. tx' = [tx EXCEPT ![w] = new] /\ invoice' = invoice
    BY <1>1 DEF Starts
  <2>2. new.pc = pc /\ new.kind = kind /\ new.of = d
    OBVIOUS
  <2> HIDE DEF new
  <2> QED BY <1>1, <2>1, <2>2, FreshUpdate DEF Expected
<1>2. CASE RequestCollect(w, d)
  BY <1>1, <1>2 DEF RequestCollect
<1>3. CASE RequestDirect(w, d)
  BY <1>1, <1>3 DEF RequestDirect
<1>4. CASE RequestCreditNote(w, d)
  BY <1>1, <1>4 DEF RequestCreditNote
<1>5. CASE RequestVoid(w, d)
  BY <1>1, <1>5 DEF RequestVoid
<1>6. CASE ReadToAge(w, d)
  BY <1>1, <1>6 DEF ReadToAge
<1> QED BY <1>2, <1>3, <1>4, <1>5, <1>6 DEF RequestStep

LEMMA NextLedger ==
  ASSUME NoEdit, LedgerInv, [Next /\ Apart']_vars
  PROVE  LedgerInv'
<1>1. ApartInv'
  BY NextApart DEF LedgerInv
<1>2. \A t \in NcfTypes : ~EditSequence(t)
  BY DEF EditSequence, NoEdit
<1>3. CASE UNCHANGED vars
  BY <1>1, <1>3 DEF vars, LedgerInv, FreshInv, Works, Expected
<1>4. ASSUME NEW w \in Workers, TxStep(w) \/ \E d \in Invoices : RequestStep(w, d) PROVE FreshInv'
  BY <1>4, StepFresh, RequestFresh
<1> QED BY <1>1, <1>2, <1>3, <1>4 DEF Next, LedgerInv

(* The ledger that the rows make. *)
Fates == [d \in Invoices |-> invoice[d].status]

Entries ==
  [t \in NcfTypes |-> IF t = "E32" THEN [d \in Invoices |-> invoice[d].ncf] ELSE note]

(* The commit of a charge or of a credit note is one entry of the ledger. *)
LEMMA CommitIsEntry ==
  ASSUME LedgerInv, NEW w \in Workers, SaveAndCommit(w), NEW d \in Invoices, tx[w].of = d
  PROVE  Book!LedgerStep(d)
<1> DEFINE k == tx[w]
           n == k.number
           t == TypeOf(k)
<1> USE DEF LedgerInv, ApartInv, UniqueInv
<1>1. /\ k \in Tx /\ n \in Numbers /\ t \in NcfTypes
      /\ k.pc \in {"save", "saving"} /\ Works(w)
  BY DEF SaveAndCommit, Saves, TypeOK, NumberInv, Numbered, Tx, Idle, TypeOf, NcfTypes, Works
<1>2. n = sequence[t] /\ \A u \in NcfTypes : lock[u] = w <=> u = t
  BY CommitsTheNext
<1>3. sequence' = [u \in NcfTypes |-> IF lock[u] = w THEN n + 1 ELSE sequence[u]]
  BY DEF SaveAndCommit, Commit
<1>4. sequence' = [sequence EXCEPT ![t] = @ + 1] /\ sequence[t] <= EndSequence
  <2>1. sequence \in [NcfTypes -> 1..EndSequence + 1] /\ n <= EndSequence
    BY <1>1 DEF TypeOK, Numbers
  <2> HIDE DEF t, n
  <2>2. sequence' = [u \in NcfTypes |-> IF u = t THEN sequence[t] + 1 ELSE sequence[u]]
    BY <1>1, <1>2, <1>3
  <2> QED BY <1>1, <1>2, <2>1, <2>2
<1>5. CASE k.kind = "CREDIT"
  <2>1. /\ note' = [note EXCEPT ![d] = n] /\ invoice' = invoice /\ charged' = charged
        /\ note[d] = 0 /\ t = "E34"
    BY <1>5 DEF SaveAndCommit, Commit, TypeOf
  <2>2. invoice[d].status = "ISSUED"
    BY <1>1, <1>5 DEF FreshInv, Expected
  <2> HIDE DEF n, t
  <2>3. Entries' = [Entries EXCEPT !["E34"][d] = n] /\ Entries["E34"][d] = 0
    BY <2>1, <1>1 DEF Entries, NcfTypes, TypeOK
  <2>4. Fates' = Fates /\ Fates[d] = "ISSUED"
    BY <1>1, <2>1, <2>2 DEF Fates
  <2>5. Book!Enter("E34", d)
    BY <1>2, <1>4, <2>1, <2>3 DEF Book!Enter, Entries
  <2>6. Book!Credit(d)
    BY <2>1, <2>4, <2>5 DEF Book!Credit, Fates
  <2> QED BY <2>6 DEF Book!LedgerStep
<1>6. CASE k.kind # "CREDIT"
  <2> DEFINE row == [status |-> "ISSUED", ncf |-> n]
  <2>1. /\ invoice' = [invoice EXCEPT ![d] = row] /\ note' = note /\ t = "E32"
        /\ charged' = [charged EXCEPT ![d] = IF @ < 2 THEN @ + 1 ELSE @]
    BY <1>6, CommitOfUnissued DEF SaveAndCommit, Commit, TypeOf
  <2>2. invoice[d].status \in {"ABSENT", "OPEN"}
    BY <1>1, <1>6 DEF FreshInv, Expected
  <2>3. invoice[d].ncf = 0 /\ charged[d] = 0
    BY <1>1, <2>2 DEF RowsInv, IssuedHasNumber, ChargedInv
  <2>4. row.status = "ISSUED" /\ row.ncf = n
    OBVIOUS
  <2>5. charged' = [charged EXCEPT ![d] = 1]
    BY <1>1, <2>1, <2>3
  <2> HIDE DEF n, t, row
  <2>6. /\ [e \in Invoices |-> invoice'[e].status] =
             [[e \in Invoices |-> invoice[e].status] EXCEPT ![d] = "ISSUED"]
        /\ [e \in Invoices |-> invoice'[e].ncf] = [[e \in Invoices |-> invoice[e].ncf] EXCEPT ![d] = n]
    BY <1>1, <2>1, <2>4 DEF TypeOK
  <2>7. Entries' = [Entries EXCEPT !["E32"][d] = n] /\ Entries["E32"][d] = 0
    BY <1>1, <2>1, <2>3, <2>6 DEF Entries, NcfTypes, TypeOK
  <2>8. Fates' = [Fates EXCEPT ![d] = "ISSUED"] /\ Fates[d] \in {"ABSENT", "OPEN"}
    BY <1>1, <2>2, <2>6 DEF Fates
  <2>9. Book!Enter("E32", d)
    BY <1>2, <1>4, <2>1, <2>7 DEF Book!Enter, Entries
  <2>10. Book!Issue(d)
    BY <2>3, <2>5, <2>8, <2>9 DEF Book!Issue, Fates
  <2> QED BY <2>10 DEF Book!LedgerStep
<1> QED BY <1>5, <1>6

(* A void is one step of the ledger; the cycle writes back what is there. *)
LEMMA WriteIsVoid ==
  ASSUME LedgerInv, NEW w \in Workers, NEW changed \in BOOLEAN, WriteInvoice(w, changed),
         NEW d \in Invoices, tx[w].of = d
  PROVE  Book!Void(d) \/ UNCHANGED <<invoice, note, charged, sequence>>
<1> DEFINE k == tx[w]
           row == Merged(invoice[d], k.seen, Written(k), changed)
<1> USE DEF LedgerInv, ApartInv, UniqueInv
<1>1. k \in Tx /\ k.pc = "writing" /\ Works(w)
  BY DEF WriteInvoice, TypeOK, Tx, Idle, Works
<1>2. invoice' = [invoice EXCEPT ![d] = row] /\ UNCHANGED <<note, charged, sequence>>
  BY DEF WriteInvoice
<1>3. invoice[d].status = "OPEN" /\ invoice[d].ncf = 0
  BY <1>1 DEF FreshInv, Expected, RowsInv, IssuedHasNumber
<1>4. invoice[d] \in Row
  BY <1>1 DEF TypeOK
<1>5. /\ k.row = [status |-> "OPEN", ncf |-> 0] /\ k.row = invoice[d]
      /\ k.seen.status = "OPEN" /\ k.seen.ncf = 0
  BY <1>1, <1>3, <1>4 DEF RowsInv, Row, Unissued, FreshInv
<1>6. CASE k.kind = "VOID"
  <2>1. row.status = "VOIDED" /\ row.ncf = 0
    BY <1>3, <1>5, <1>6 DEF Written, Merged
  <2> HIDE DEF row
  <2>2. /\ [e \in Invoices |-> invoice'[e].status] =
             [[e \in Invoices |-> invoice[e].status] EXCEPT ![d] = "VOIDED"]
        /\ [e \in Invoices |-> invoice'[e].ncf] = [e \in Invoices |-> invoice[e].ncf]
    BY <1>1, <1>2, <1>3, <2>1 DEF TypeOK
  <2> QED BY <1>1, <1>2, <1>3, <2>2 DEF Book!Void
<1>7. CASE k.kind # "VOID"
  <2>1. row = invoice[d]
    BY <1>3, <1>5, <1>7 DEF Written, Merged
  <2> HIDE DEF row
  <2> QED BY <1>2, <2>1 DEF TypeOK
<1> QED BY <1>6, <1>7

(* All the rest of a transaction is invisible in the ledger. *)
LEMMA OthersAreInvisible ==
  ASSUME NEW w \in Workers,
         \/ \E d \in Invoices : RequestStep(w, d)
         \/ SettleInvoice(w) \/ ReadSequence(w) \/ ReserveNumber(w) \/ SelectInvoice(w) \/ Rollback(w)
         \/ \E received \in BOOLEAN : SubmitEcf(w, received)
  PROVE  UNCHANGED <<invoice, note, charged, sequence>>
BY DEF RequestStep, RequestCollect, RequestDirect, RequestCreditNote, RequestVoid, ReadToAge, Starts,
       SettleInvoice, ReadSequence, ReserveNumber, SelectInvoice, Rollback, SubmitEcf

(* The invoices, credit notes and sequences of the code are a ledger, for any
   number of invoices and requests, while the transactions of one invoice do
   not overlap and nobody edits a sequence: numbers in order, one charge and
   one number in one step, credit only for what was issued.                *)
THEOREM SettlementImplementsLedger ==
  ASSUME NoEdit PROVE ApartSpec => SettlementIsLedger
<1>1. Init => LedgerInv /\ Book!LedgerInit
  <2>1. Init => FreshInv
    BY DEF Init, FreshInv, Works, Idle
  <2>2. Init => Book!LedgerInit
    BY DEF Init, Book!LedgerInit, Book!Books, NcfTypes
  <2> QED BY <2>1, <2>2, InitApart DEF LedgerInv
<1>2. LedgerInv /\ [Next /\ Apart']_vars => LedgerInv'
  BY NextLedger
<1>3. LedgerInv /\ [Next /\ Apart']_vars
        => [\E d \in Invoices : Book!LedgerStep(d)]_(Book!ledgerVars)
  <2> SUFFICES ASSUME LedgerInv, [Next /\ Apart']_vars
               PROVE  (\E d \in Invoices : Book!LedgerStep(d)) \/ UNCHANGED <<invoice, note, charged, sequence>>
    BY DEF Book!ledgerVars
  <2>1. \A t \in NcfTypes : ~EditSequence(t)
    BY DEF EditSequence, NoEdit
  <2>2. UNCHANGED vars => UNCHANGED <<invoice, note, charged, sequence>>
    BY DEF vars
  <2>3. ASSUME NEW w \in Workers, SaveAndCommit(w) \/ \E changed \in BOOLEAN : WriteInvoice(w, changed)
        PROVE  (\E d \in Invoices : Book!LedgerStep(d)) \/ UNCHANGED <<invoice, note, charged, sequence>>
    <3>1. PICK d \in Invoices : tx[w].of = d
      BY <2>3 DEF SaveAndCommit, Saves, WriteInvoice, LedgerInv, ApartInv, UniqueInv, TypeOK, Tx, Idle
    <3> QED BY <2>3, <3>1, CommitIsEntry, WriteIsVoid DEF Book!LedgerStep
  <2>4. ASSUME NEW w \in Workers, TxStep(w) \/ \E d \in Invoices : RequestStep(w, d)
        PROVE  (\E d \in Invoices : Book!LedgerStep(d)) \/ UNCHANGED <<invoice, note, charged, sequence>>
    <3>1. CASE SaveAndCommit(w) \/ \E changed \in BOOLEAN : WriteInvoice(w, changed)
      BY <3>1, <2>3
    <3> QED BY <2>4, <3>1, OthersAreInvisible DEF TxStep
  <2> QED BY <2>1, <2>2, <2>4 DEF Next
<1> QED
  BY <1>1, <1>2, <1>3, PTL DEF ApartSpec, SettlementIsLedger, Book!LedgerSpec

=============================================================================
