------------------------------- MODULE Ledger -------------------------------
(***************************************************************************)
(* What the fiscal numbering promises: a book of invoices and a book of    *)
(* credit notes in which every entry is made once, in one step, under the  *)
(* next number, together with the charge it documents.  InvoiceSettlement  *)
(* implements it when its transactions do not overlap on an invoice.       *)
(***************************************************************************)
EXTENDS Naturals

CONSTANTS
  Invoices,
  LastNumber   \* the last number that may be used

VARIABLES
  fate,        \* fate[d]: what has become of invoice d
  entry,       \* entry[t][d]: the number of d, or of its credit note, in book t
  next,        \* next[t]: the number of the next entry of book t
  paid         \* paid[d]: how many times d was charged

ledgerVars == <<fate, entry, next, paid>>

Books == {"E32", "E34"}

LedgerInit ==
  /\ fate \in [Invoices -> {"ABSENT", "OPEN"}]
  /\ entry = [t \in Books |-> [d \in Invoices |-> 0]]
  /\ next = [t \in Books |-> 1]
  /\ paid = [d \in Invoices |-> 0]

(* An entry takes the next number of its book, and no other entry moves. *)
Enter(t, d) ==
  /\ entry[t][d] = 0 /\ next[t] <= LastNumber
  /\ entry' = [entry EXCEPT ![t][d] = next[t]]
  /\ next' = [next EXCEPT ![t] = @ + 1]

(* Charged, numbered and issued in one step, or not at all. *)
Issue(d) ==
  /\ fate[d] \in {"ABSENT", "OPEN"} /\ paid[d] = 0
  /\ Enter("E32", d)
  /\ fate' = [fate EXCEPT ![d] = "ISSUED"]
  /\ paid' = [paid EXCEPT ![d] = 1]

(* Only what was issued can be credited, and once. *)
Credit(d) ==
  /\ fate[d] = "ISSUED"
  /\ Enter("E34", d)
  /\ UNCHANGED <<fate, paid>>

(* Only what was not issued can be voided, and it never is afterwards. *)
Void(d) ==
  /\ fate[d] = "OPEN"
  /\ fate' = [fate EXCEPT ![d] = "VOIDED"]
  /\ UNCHANGED <<entry, next, paid>>

LedgerStep(d) == Issue(d) \/ Credit(d) \/ Void(d)

LedgerSpec == LedgerInit /\ [][\E d \in Invoices : LedgerStep(d)]_ledgerVars
=============================================================================
