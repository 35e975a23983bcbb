---------------------------- MODULE MCInventory -----------------------------
(* Instances of Inventory for TLC. *)
EXTENDS Inventory, TLC

CONSTANTS e1, e2, t1, t2, w1, w2, k1, d1, d2, u1, u2

FaultyToo == {"USABLE", "FAULTY"}

CountedSome ==
  {<<"WAREHOUSE", "USABLE">>, <<"WAREHOUSE", "FAULTY">>, <<"TECHNICIAN", "USABLE">>,
   <<"CLIENT", "USABLE">>, <<"LOST", "SCRAPPED">>}

(* Of two requests in flight, both add a line. *)
TwoDraft ==
  \A u, v \in Users :
    u # v /\ NoRequest \notin {request[u], request[v]} =>
      {request[u].write, request[v].write} = {"insertLine"}

Symmetry ==
  UNION {Permutations({e1, e2}), Permutations({t1, t2}), Permutations({w1, w2}),
         Permutations({d1, d2}), Permutations({u1, u2})}
=============================================================================
