---------------------------- MODULE Consignment -----------------------------
(***************************************************************************)
(* What a dispatch of material promises to the warehouse and to the        *)
(* technician: a list that is prepared, sent once as a whole, and then     *)
(* kept or sent back.  Inventory implements it when its requests do not    *)
(* overlap on the same dispatch.                                           *)
(***************************************************************************)
CONSTANTS
  Dispatches,
  Empty        \* the list of nothing

VARIABLES
  phase,       \* phase[d]: how far dispatch d has come
  manifest     \* manifest[d]: what d lists

consignmentVars == <<phase, manifest>>

ConsignmentInit ==
  /\ phase = [d \in Dispatches |-> "NONE"]
  /\ manifest = [d \in Dispatches |-> Empty]

Advance(d, from, to) ==
  /\ phase[d] = from
  /\ phase' = [phase EXCEPT ![d] = to]

Open(d) == Advance(d, "NONE", "DRAFT") /\ UNCHANGED manifest

(* A list is only ever changed in a draft, and one list at a time. *)
Rewrite(d) ==
  /\ phase[d] = "DRAFT"
  /\ \A other \in Dispatches \ {d} : manifest'[other] = manifest[other]
  /\ DOMAIN manifest' = Dispatches
  /\ UNCHANGED phase

Discard(d) ==
  /\ Advance(d, "DRAFT", "DELETED")
  /\ manifest' = [manifest EXCEPT ![d] = Empty]

(* What is sent is what the list says, and it says something. *)
Send(d) ==
  /\ manifest[d] # Empty
  /\ Advance(d, "DRAFT", "DISPATCHED")
  /\ UNCHANGED manifest

Keep(d)     == Advance(d, "DISPATCHED", "ACCEPTED") /\ UNCHANGED manifest
SendBack(d) == Advance(d, "DISPATCHED", "REJECTED") /\ UNCHANGED manifest

ConsignmentStep(d) ==
  \/ Open(d)
  \/ Rewrite(d)
  \/ Discard(d)
  \/ Send(d)
  \/ Keep(d)
  \/ SendBack(d)

ConsignmentSpec ==
  ConsignmentInit /\ [][\E d \in Dispatches : ConsignmentStep(d)]_consignmentVars

=============================================================================
