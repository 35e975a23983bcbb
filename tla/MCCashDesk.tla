----------------------------- MODULE MCCashDesk -----------------------------
(* Instances of CashDesk for TLC. *)
EXTENDS CashDesk, TLC

CONSTANTS c1, t1, r1, r2, i1, i2, d1, j1, x1, p1, p2

(* Both invoices are of the amount of the deposit and due on one day. *)
Equal   == [i \in {i1, i2} |-> 2]
DueOnce == [i \in {i1, i2} |-> 1]
Exact   == [d \in {d1} |-> 2]

(* The desk and the working days share no row and no request: what both do is
   what each does, interleaved.  A behaviour is explored of one or the other. *)
OneOrTheOther ==
  \/ day = [j \in Days |-> NoDay]
  \/ /\ register = [r \in Registers |-> NoShift] /\ sales = {}
     /\ proof = [d \in Deposits |-> NoProof]

Symmetry ==
  Permutations({r1, r2}) \cup Permutations({p1, p2}) \cup Permutations({i1, i2})
=============================================================================
