------------------------------ MODULE Delivery ------------------------------
(***************************************************************************)
(* What WAN provisioning promises about one piece of equipment: decisions  *)
(* follow one another, each is sent once, what lands is the latest one,    *)
(* and it is known to be there only when it is and nothing is on its way.  *)
(* WanProvisioning implements it, with answers that are lost, tasks that   *)
(* wait and processes that die.                                            *)
(***************************************************************************)
EXTENDS Naturals

CONSTANTS
  Decisions,   \* what may be decided, with its version
  Nothing      \* what an equipment holds that was never told anything

VARIABLES
  wanted,      \* the latest decision
  transit,     \* the decisions that have been sent and have not arrived
  held,        \* what the equipment has
  known,       \* it is known that the equipment has what is wanted
  sends        \* times something was sent since somebody last asked

deliveryVars == <<wanted, transit, held, known, sends>>

DeliveryInit ==
  /\ wanted = Nothing /\ transit = {} /\ held = Nothing
  /\ known = FALSE /\ sends = 0

(* Somebody asks for something: what is known may be so no longer. *)
Ask ==
  /\ sends' = 0
  /\ known' \in {known, FALSE}
  /\ UNCHANGED <<wanted, transit, held>>

(* A decision is newer than the one before, which is not on its way any more. *)
Decide ==
  /\ transit = {} /\ sends = 0
  /\ wanted' \in Decisions /\ wanted'.version > wanted.version
  /\ known' = FALSE
  /\ UNCHANGED <<transit, held, sends>>

Send ==
  /\ ~known /\ transit = {} /\ sends = 0
  /\ sends' = 1
  /\ \/ transit' = {wanted} /\ UNCHANGED held
     \/ held' = wanted /\ UNCHANGED transit
  /\ UNCHANGED <<wanted, known>>

Arrive ==
  /\ transit = {wanted}
  /\ held' = wanted /\ transit' = {}
  /\ UNCHANGED <<wanted, known, sends>>

Acknowledge ==
  /\ held = wanted /\ transit = {}
  /\ known' = TRUE
  /\ UNCHANGED <<wanted, transit, held, sends>>

(* Another equipment, or the same one emptied. *)
Exchange ==
  /\ held' = Nothing /\ transit' \in {transit, {}}
  /\ known' = FALSE /\ sends' = 0
  /\ UNCHANGED wanted

DeliveryStep == Ask \/ Decide \/ Send \/ Arrive \/ Acknowledge \/ Exchange

DeliverySpec == DeliveryInit /\ [][DeliveryStep]_deliveryVars

=============================================================================
