------------------------ MODULE MCInvoiceSettlement -------------------------
(* Instances of InvoiceSettlement for TLC. *)
EXTENDS InvoiceSettlement, TLC

CONSTANTS r1, r2, d1, d2, w1, w2, w3, none

WorkerSymmetry == Permutations(Workers)

(* filed is a history variable that no action reads: two states that differ
   only in it have the same futures.  The runs that are not about it ignore it. *)
WithoutHistory == <<invoice, note, charged, sequence, lock, tx>>

Everything == {"COLLECT", "DIRECT", "CREDIT", "VOID", "AGE", "EDIT"}
NoEdition  == Everything \ {"EDIT"}
Charges    == {"COLLECT", "DIRECT"}
Counter    == {"COLLECT"}
Voids      == {"COLLECT", "VOID"}
=============================================================================
