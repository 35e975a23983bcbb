----------------------------- MODULE Inventory ------------------------------
(***************************************************************************)
(* The warehouse: serialised equipment, bulk material and the dispatches   *)
(* that hand both to technicians.                                          *)
(*                                                                         *)
(* Every transition of EquipmentMovementService and ConsumableStockService *)
(* and the confirmation and the answer of a dispatch are one transaction   *)
(* that locks the row it moves: one atomic action each.  The drafts of a   *)
(* dispatch, the direct assignment of a serial and the sale of hardware at *)
(* the counter lock nothing: they read, and write in a later step.         *)
(***************************************************************************)
EXTENDS Integers, FiniteSets

CONSTANTS
  Equipment,    \* serial numbers, of one product
  Technicians,  \* active employees with the role TECNICO
  Warehouses,
  Clients,
  Dispatches,   \* identifiers of dispatches
  Users,        \* requests in flight of the operations that lock nothing
  Amounts,      \* amounts of material in a movement, in half units
  Damages,      \* the conditions that reportarDano is given
  Removed,      \* the conditions that desinstalar is given
  Counted,      \* the <<location, condition>> pairs that physical counts find
  Sold,         \* what is sold at the counter: equipment, material
  Superfluous,  \* custodians that a physical count names besides the right one
  MaxMaterial,  \* bound: half units of material that enter the warehouse
  MaxLines      \* bound: lines of a dispatch for the same thing

(* USABLE is NEW and GOOD, FAULTY is DAMAGED and DEFECTIVE. *)
Conditions == {"USABLE", "FAULTY", "IN_REPAIR", "SCRAPPED"}

Custodies == {"WAREHOUSE", "TECHNICIAN", "CLIENT", "REPAIR_VENDOR", "RETIRED", "LOST"}

Custodians == Warehouses \cup Technicians \cup Clients

(* The two products: the serialised one and the one in bulk. *)
Products == {"EQUIPMENT", "MATERIAL"}

(* What a line of a dispatch lists: a serial, or one unit of the material. *)
Material == "MATERIAL"
Things   == Equipment \cup {Material}

ASSUME FiniteAssumption  == IsFiniteSet(Equipment)
ASSUME DisjointAssumption ==
  /\ Warehouses \cap Technicians = {} /\ Clients \cap Technicians = {}
  /\ Warehouses \cap Clients = {} /\ Material \notin Equipment
ASSUME AmountsAssumption == Amounts \subseteq Nat \ {0}
ASSUME InputsAssumption  == /\ Damages \subseteq Conditions /\ Removed \subseteq Conditions
                            /\ Counted \subseteq Custodies \X Conditions
                            /\ Sold \subseteq Products
                            /\ Superfluous \subseteq Technicians \cup Clients
ASSUME BoundsAssumption  == MaxMaterial \in Nat /\ MaxLines \in Nat \ {0}

VARIABLES
  item,      \* item[e]: the row of inv.serial_numbers
  stock,     \* stockCurrent of the product of the equipment
  material,  \* stockCurrent of the product in bulk: whole units, an integer column
  carried,   \* carried[t]: quantity of the stock item of technician t, in half units
  dispatch,  \* dispatch[d]: the row of inv.dispatches
  lines,     \* lines[d][x]: how many lines of d list x
  request,   \* request[u]: the unlocked operation that u has begun
  received   \* history: half units received and found, less those consumed, lost and sold

warehouseVars == <<item, stock, material, carried, received>>
vars == <<item, stock, material, carried, dispatch, lines, request, received>>

-----------------------------------------------------------------------------
(* Rows *)

LegacyStatuses == {"AVAILABLE", "RESERVED", "ASSIGNED_TO_CLIENT", "DAMAGED", "IN_REPAIR"}

DeriveLegacyStatus(location, condition) ==
  CASE condition = "FAULTY" -> "DAMAGED"
    [] condition = "IN_REPAIR" \/ (condition # "FAULTY" /\ location = "REPAIR_VENDOR") -> "IN_REPAIR"
    [] condition \in {"USABLE", "SCRAPPED"} /\ location = "CLIENT" -> "ASSIGNED_TO_CLIENT"
    [] condition \in {"USABLE", "SCRAPPED"} /\ location = "WAREHOUSE" -> "AVAILABLE"
    [] condition \in {"USABLE", "SCRAPPED"} /\ location = "TECHNICIAN" -> "RESERVED"
    [] OTHER -> "DAMAGED"

(* holders: the custody columns that are not null.  The column of the contract
   goes with that of the client.                                             *)
Item == [location : Custodies \cup {"ABSENT"}, condition : Conditions,
         holders : SUBSET Custodians, status : LegacyStatuses]

Unregistered == [location |-> "ABSENT", condition |-> "USABLE", holders |-> {},
                 status |-> "AVAILABLE"]

(* Usable equipment in the warehouse: what stockCurrent counts. *)
OnShelf(i) == i.location = "WAREHOUSE" /\ i.condition = "USABLE"
Shelf == {e \in Equipment : OnShelf(item[e])}

DispatchStatuses == {"DRAFT", "DISPATCHED", "ACCEPTED", "REJECTED"}

DispatchRow == [status : DispatchStatuses, technician : Technicians, warehouse : Warehouses]

(* NONE: no such dispatch yet.  DELETED: its row was deleted. *)
NoRow == [status : {"NONE", "DELETED"}]

NoLines == [x \in Things |-> 0]

(* The equipment that dispatch d lists. *)
Listed(d) == {e \in Equipment : lines[d][e] > 0}

Drafts == {d \in Dispatches : dispatch[d].status = "DRAFT"}

-----------------------------------------------------------------------------
(* What the transitions are made of *)

(* persistTransition: the columns that are not given become null. *)
Placed(location, holders, condition) ==
  [location |-> location, condition |-> condition, holders |-> holders,
   status |-> DeriveLegacyStatus(location, condition)]

(* Mutant of PersistTransition: a column that is not given keeps its value. *)
PersistUndefined(e, location, holders, condition) ==
  item' = [item EXCEPT ![e] = Placed(location, @.holders \cup holders, condition)]

PersistTransition(e, location, holders, condition) ==
  item' = [item EXCEPT ![e] = Placed(location, holders, condition)]

(* adjustWarehouseStock of the equipment: an UPDATE that never goes below 0. *)
AdjustStock(delta) ==
  /\ stock + delta >= 0
  /\ stock' = stock + delta

(* The same of the material, whose delta is in half units: the column is an
   integer, and what is assigned to it is rounded.                           *)
AdjustMaterial(delta) ==
  /\ 2 * material + delta >= 0
  /\ material' = (2 * material + delta + 1) \div 2

(* incrementTechnicianStock locks the stock item, or inserts it. *)
IncrementCarried(t, delta) ==
  /\ carried[t] + delta >= 0
  /\ carried' = [carried EXCEPT ![t] = @ + delta]

EquipmentStep == UNCHANGED <<material, carried, dispatch, lines, request, received>>
MaterialStep  == UNCHANGED <<item, stock, dispatch, lines, request>>

(* wasUsableInWarehouse, as a number. *)
Usable(e) == IF OnShelf(item[e]) THEN 1 ELSE 0

-----------------------------------------------------------------------------
(* The life of one piece of equipment *)

IngresarEquipo(e, w) ==
  /\ item[e].location = "ABSENT"
  /\ PersistTransition(e, "WAREHOUSE", {w}, "USABLE")
  /\ AdjustStock(1)
  /\ EquipmentStep

AsignarATecnico(e, t) ==
  /\ OnShelf(item[e])
  /\ PersistTransition(e, "TECHNICIAN", {t}, "USABLE")
  /\ AdjustStock(-1)
  /\ EquipmentStep

InstalarEnCliente(e, c) ==
  /\ item[e].location = "TECHNICIAN" /\ item[e].condition = "USABLE"
  /\ PersistTransition(e, "CLIENT", {c}, "USABLE")
  /\ UNCHANGED stock /\ EquipmentStep

Desinstalar(e, t, condition) ==
  /\ item[e].location = "CLIENT"
  /\ PersistTransition(e, "TECHNICIAN", {t}, condition)
  /\ UNCHANGED stock /\ EquipmentStep

(* Mutant of DevolverAlmacen: what comes back damaged is counted as well. *)
DevolverAnything(e, w) ==
  /\ item[e].location = "TECHNICIAN"
  /\ PersistTransition(e, "WAREHOUSE", {w}, item[e].condition)
  /\ AdjustStock(1)
  /\ EquipmentStep

DevolverAlmacen(e, w) ==
  /\ item[e].location = "TECHNICIAN"
  /\ PersistTransition(e, "WAREHOUSE", {w}, item[e].condition)
  /\ AdjustStock(IF item[e].condition = "USABLE" THEN 1 ELSE 0)
  /\ EquipmentStep

TransferirATecnico(e, t) ==
  /\ item[e].location = "TECHNICIAN" /\ t \notin item[e].holders
  /\ PersistTransition(e, "TECHNICIAN", {t}, item[e].condition)
  /\ UNCHANGED stock /\ EquipmentStep

ReportarDano(e, condition) ==
  /\ item[e].location \notin {"ABSENT", "RETIRED", "LOST"}
  /\ PersistTransition(e, item[e].location, item[e].holders, condition)
  /\ AdjustStock(-Usable(e))
  /\ EquipmentStep

EnviarAReparacion(e) ==
  /\ item[e].location \in {"WAREHOUSE", "TECHNICIAN"} /\ item[e].condition = "FAULTY"
  /\ PersistTransition(e, "REPAIR_VENDOR", {}, "IN_REPAIR")
  /\ UNCHANGED stock /\ EquipmentStep

RetornarDeReparacion(e, repaired, w) ==
  /\ item[e].location = "REPAIR_VENDOR"
  /\ IF repaired THEN /\ PersistTransition(e, "WAREHOUSE", {w}, "USABLE")
                      /\ AdjustStock(1)
                 ELSE /\ PersistTransition(e, "RETIRED", {}, "SCRAPPED")
                      /\ UNCHANGED stock
  /\ EquipmentStep

DarDeBaja(e, lost) ==
  /\ item[e].location \notin {"ABSENT", "CLIENT", "RETIRED", "LOST"}
  /\ PersistTransition(e, IF lost THEN "LOST" ELSE "RETIRED", {}, "SCRAPPED")
  /\ AdjustStock(-Usable(e))
  /\ EquipmentStep

(* The custodians that a physical count may name for a location. *)
CustodiansOf(location) ==
  CASE location = "WAREHOUSE"  -> Warehouses
    [] location = "TECHNICIAN" -> Technicians
    [] location = "CLIENT"     -> Clients
    [] OTHER                   -> {}

CountedHolders(location) ==
  LET named == IF location \in {"WAREHOUSE", "TECHNICIAN", "CLIENT"}
                 THEN {{h} : h \in CustodiansOf(location)} ELSE {{}}
      extra == {{}} \cup {{h} : h \in Superfluous \ CustodiansOf(location)}
  IN  {h \cup x : h \in named, x \in extra}

AjusteEquipo(e, location, condition, holders) ==
  /\ item[e].location # "ABSENT"
  /\ PersistTransition(e, location, holders, condition)
  /\ AdjustStock((IF location = "WAREHOUSE" /\ condition = "USABLE" THEN 1 ELSE 0) - Usable(e))
  /\ EquipmentStep

EquipmentMoves(e) ==
  \/ \E w \in Warehouses : IngresarEquipo(e, w)
  \/ \E t \in Technicians : AsignarATecnico(e, t)
  \/ \E c \in Clients : InstalarEnCliente(e, c)
  \/ \E t \in Technicians, condition \in Removed : Desinstalar(e, t, condition)
  \/ \E w \in Warehouses : DevolverAlmacen(e, w)
  \/ \E t \in Technicians : TransferirATecnico(e, t)
  \/ \E condition \in Damages : ReportarDano(e, condition)
  \/ EnviarAReparacion(e)
  \/ \E w \in Warehouses, repaired \in BOOLEAN : RetornarDeReparacion(e, repaired, w)
  \/ \E lost \in BOOLEAN : DarDeBaja(e, lost)
  \/ \E count \in Counted : \E holders \in CountedHolders(count[1]) :
       AjusteEquipo(e, count[1], count[2], holders)

-----------------------------------------------------------------------------
(* Material in bulk *)

(* ingresoAlmacen, and the IN_PURCHASE of recordMovement. *)
IngresoAlmacen(n) ==
  /\ received + n <= MaxMaterial
  /\ AdjustMaterial(n)
  /\ received' = received + n
  /\ UNCHANGED carried /\ MaterialStep

SalidaATecnico(t, n) ==
  /\ AdjustMaterial(-n)
  /\ IncrementCarried(t, n)
  /\ UNCHANGED received /\ MaterialStep

ConsumoEnInstalacion(t, n) ==
  /\ IncrementCarried(t, -n)
  /\ received' = received - n
  /\ UNCHANGED material /\ MaterialStep

(* Mutant of DevolverMaterial: the stock item of the technician is forgotten. *)
DevolverUncounted(t, n) ==
  /\ carried[t] >= n
  /\ AdjustMaterial(n)
  /\ UNCHANGED <<carried, received>> /\ MaterialStep

DevolverMaterial(t, n) ==
  /\ IncrementCarried(t, -n)
  /\ AdjustMaterial(n)
  /\ UNCHANGED received /\ MaterialStep

(* ajustar in the hands of a technician: what a count finds more or less. *)
AjustarTecnico(t, delta) ==
  /\ received + delta <= MaxMaterial
  /\ IncrementCarried(t, delta)
  /\ received' = received + delta
  /\ UNCHANGED material /\ MaterialStep

(* ajustar in the warehouse, and the other movements of recordBulkMovement. *)
AjustarAlmacen(delta) ==
  /\ received + delta <= MaxMaterial
  /\ AdjustMaterial(delta)
  /\ received' = received + delta
  /\ UNCHANGED carried /\ MaterialStep

MaterialMoves ==
  \E n \in Amounts :
    \/ IngresoAlmacen(n)
    \/ \E delta \in {n, -n} : AjustarAlmacen(delta)
    \/ \E t \in Technicians : \/ SalidaATecnico(t, n)
                              \/ ConsumoEnInstalacion(t, n)
                              \/ DevolverMaterial(t, n)
                              \/ \E delta \in {n, -n} : AjustarTecnico(t, delta)

-----------------------------------------------------------------------------
(* Dispatches *)

CreateDraft(d, w, t) ==
  /\ dispatch[d].status = "NONE"
  /\ dispatch' = [dispatch EXCEPT ![d] = [status |-> "DRAFT", technician |-> t, warehouse |-> w]]
  /\ UNCHANGED <<lines, request>> /\ UNCHANGED warehouseVars

(* Equipment that a dispatch lists twice fails the second time it is moved. *)
ListedOnce(d) == \A e \in Equipment : lines[d][e] <= 1

(* asignarATecnico or salidaATecnico for every line, all or nothing. *)
ConfirmDispatch(d) ==
  LET row == dispatch[d]
      n   == 2 * lines[d][Material]
  IN
  /\ row.status = "DRAFT" /\ lines[d] # NoLines /\ ListedOnce(d)
  /\ Listed(d) \subseteq Shelf
  /\ item' = [e \in Equipment |->
                IF e \in Listed(d) THEN Placed("TECHNICIAN", {row.technician}, "USABLE") ELSE item[e]]
  /\ AdjustStock(-Cardinality(Listed(d)))
  /\ AdjustMaterial(-n) /\ IncrementCarried(row.technician, n)
  /\ dispatch' = [dispatch EXCEPT ![d].status = "DISPATCHED"]
  /\ UNCHANGED <<lines, request, received>>

AcceptDispatch(d) ==
  /\ dispatch[d].status = "DISPATCHED"
  /\ dispatch' = [dispatch EXCEPT ![d].status = "ACCEPTED"]
  /\ UNCHANGED <<lines, request>> /\ UNCHANGED warehouseVars

(* devolverAlmacen for every line, all or nothing.  The equipment may be with
   any technician; the material has to be with the technician of the dispatch. *)
RejectDispatch(d) ==
  LET row == dispatch[d]
      n   == 2 * lines[d][Material]
  IN
  /\ row.status = "DISPATCHED" /\ ListedOnce(d)
  /\ \A e \in Listed(d) : item[e].location = "TECHNICIAN"
  /\ item' = [e \in Equipment |->
                IF e \in Listed(d) THEN Placed("WAREHOUSE", {row.warehouse}, item[e].condition)
                                   ELSE item[e]]
  /\ AdjustStock(Cardinality({e \in Listed(d) : item[e].condition = "USABLE"}))
  /\ IncrementCarried(row.technician, -n) /\ AdjustMaterial(n)
  /\ dispatch' = [dispatch EXCEPT ![d].status = "REJECTED"]
  /\ UNCHANGED <<lines, request, received>>

DispatchMoves(d) ==
  \/ \E w \in Warehouses, t \in Technicians : CreateDraft(d, w, t)
  \/ ConfirmDispatch(d)
  \/ AcceptDispatch(d)
  \/ RejectDispatch(d)

-----------------------------------------------------------------------------
(* Operations that lock nothing: what was read, and the write that follows *)

(* draft and listed: the row to save and the lines that were read with it; row:
   the serial to save; level: the stock that was read.                       *)
Request ==
  [write : {"nothing"}]
    \cup [write : {"insertLine", "deleteLine"}, dispatch : Dispatches, thing : Things]
    \cup [write : {"clearLines", "saveDraft"}, dispatch : Dispatches, draft : DispatchRow,
          listed : [Things -> 0..MaxLines]]
    \cup [write : {"emptyDraft", "deleteDraft"}, dispatch : Dispatches]
    \cup [write : {"saveSerial"}, serial : Equipment, row : Item]
    \cup [write : {"saveProduct"}, product : Products, level : Nat \ {0}]

NoRequest == [write |-> "nothing"]

Begin(u, r) ==
  /\ request[u] = NoRequest
  /\ request' = [request EXCEPT ![u] = r]
  /\ UNCHANGED <<dispatch, lines>> /\ UNCHANGED warehouseVars

End(u) == request' = [request EXCEPT ![u] = NoRequest]

AddLine(u, d, x) ==
  /\ dispatch[d].status = "DRAFT"
  /\ x \in Equipment => /\ item[x].location = "WAREHOUSE"
                        /\ \A other \in Drafts : lines[other][x] = 0
  /\ Begin(u, [write |-> "insertLine", dispatch |-> d, thing |-> x])

(* The foreign key is all that the INSERT checks. *)
InsertLine(u) ==
  LET r == request[u] IN
  /\ r.write = "insertLine"
  /\ IF dispatch[r.dispatch].status = "DELETED" THEN UNCHANGED lines
       ELSE /\ lines[r.dispatch][r.thing] < MaxLines
            /\ lines' = [lines EXCEPT ![r.dispatch][r.thing] = @ + 1]
  /\ End(u) /\ UNCHANGED dispatch /\ UNCHANGED warehouseVars

RemoveLine(u, d, x) ==
  /\ dispatch[d].status = "DRAFT" /\ lines[d][x] > 0
  /\ Begin(u, [write |-> "deleteLine", dispatch |-> d, thing |-> x])

DeleteLine(u) ==
  LET r == request[u] IN
  /\ r.write = "deleteLine"
  /\ lines' = [lines EXCEPT ![r.dispatch][r.thing] = IF @ > 0 THEN @ - 1 ELSE 0]
  /\ End(u) /\ UNCHANGED dispatch /\ UNCHANGED warehouseVars

(* Another warehouse for a draft with lines is refused, or clears them first. *)
UpdateDraft(u, d, w, t, clear) ==
  LET row == dispatch[d]
      moved == w # row.warehouse /\ lines[d] # NoLines
  IN
  /\ row.status = "DRAFT"
  /\ moved => clear
  /\ Begin(u, [write |-> IF moved THEN "clearLines" ELSE "saveDraft", dispatch |-> d,
                draft |-> [row EXCEPT !.technician = t, !.warehouse = w],
                listed |-> lines[d]])

ClearLines(u) ==
  LET r == request[u] IN
  /\ r.write = "clearLines"
  /\ lines' = [lines EXCEPT ![r.dispatch] = NoLines]
  /\ request' = [request EXCEPT ![u].write = "saveDraft"]
  /\ UNCHANGED dispatch /\ UNCHANGED warehouseVars

(* save() writes the row that was read, its status too.  A line inserted since
   the lines were read makes it fail: it would lose its dispatch.             *)
SaveDraft(u) ==
  LET r == request[u] IN
  /\ r.write = "saveDraft"
  /\ dispatch' = IF \A x \in Things : lines[r.dispatch][x] <= r.listed[x]
                   THEN [dispatch EXCEPT ![r.dispatch] = r.draft] ELSE dispatch
  /\ End(u) /\ UNCHANGED lines /\ UNCHANGED warehouseVars

(* Mutant of DeleteDraft: it forgets to look at the status. *)
DeleteDraftOfAny(u, d) ==
  /\ dispatch[d].status \in DispatchStatuses
  /\ Begin(u, [write |-> IF lines[d] = NoLines THEN "deleteDraft" ELSE "emptyDraft",
                dispatch |-> d])

DeleteDraft(u, d) ==
  /\ dispatch[d].status = "DRAFT"
  /\ Begin(u, [write |-> IF lines[d] = NoLines THEN "deleteDraft" ELSE "emptyDraft",
                dispatch |-> d])

EmptyDraft(u) ==
  LET r == request[u] IN
  /\ r.write = "emptyDraft"
  /\ lines' = [lines EXCEPT ![r.dispatch] = NoLines]
  /\ request' = [request EXCEPT ![u].write = "deleteDraft"]
  /\ UNCHANGED dispatch /\ UNCHANGED warehouseVars

(* The lines that are left go with the row: ON DELETE CASCADE. *)
DeleteRow(u) ==
  LET r == request[u] IN
  /\ r.write = "deleteDraft"
  /\ dispatch' = [dispatch EXCEPT ![r.dispatch] = [status |-> "DELETED"]]
  /\ lines' = [lines EXCEPT ![r.dispatch] = NoLines]
  /\ End(u) /\ UNCHANGED warehouseVars

(* assignSerial: the status says that the client has it; the location stays. *)
AssignSerial(u, e, c) ==
  /\ item[e].location # "ABSENT" /\ item[e].status \in {"AVAILABLE", "RESERVED"}
  /\ Begin(u, [write |-> "saveSerial", serial |-> e,
                row |-> [item[e] EXCEPT !.holders = (@ \ Clients) \cup {c},
                                        !.status = "ASSIGNED_TO_CLIENT"]])

SaveSerial(u) ==
  LET r == request[u] IN
  /\ r.write = "saveSerial"
  /\ item' = [item EXCEPT ![r.serial] = r.row]
  /\ End(u) /\ UNCHANGED <<stock, material, carried, dispatch, lines, received>>

(* reserveStockForSale, in the transaction of the checkout: one unit.  It sells
   a product and not a serial.                                              *)
ReadStock(u, p) ==
  LET level == IF p = "EQUIPMENT" THEN stock ELSE material IN
  /\ level >= 1
  /\ Begin(u, [write |-> "saveProduct", product |-> p, level |-> level])

SaveProduct(u) ==
  LET r == request[u] IN
  /\ r.write = "saveProduct"
  /\ IF r.product = "MATERIAL"
       THEN material' = r.level - 1 /\ received' = received - 2 /\ UNCHANGED stock
       ELSE stock' = r.level - 1 /\ UNCHANGED <<material, received>>
  /\ End(u) /\ UNCHANGED <<item, carried, dispatch, lines>>

(* The rest of the checkout fails, and nothing of it is committed. *)
Rollback(u) ==
  /\ request[u].write = "saveProduct"
  /\ End(u) /\ UNCHANGED <<dispatch, lines>> /\ UNCHANGED warehouseVars

RequestMoves(u) ==
  \/ \E d \in Dispatches : DeleteDraft(u, d)
  \/ \E d \in Dispatches, x \in Things : AddLine(u, d, x) \/ RemoveLine(u, d, x)
  \/ \E d \in Dispatches, w \in Warehouses, t \in Technicians, clear \in BOOLEAN :
       UpdateDraft(u, d, w, t, clear)
  \/ \E e \in Equipment, c \in Clients : AssignSerial(u, e, c)
  \/ \E p \in Sold : ReadStock(u, p)
  \/ InsertLine(u) \/ DeleteLine(u) \/ ClearLines(u) \/ SaveDraft(u)
  \/ EmptyDraft(u) \/ DeleteRow(u) \/ SaveSerial(u)
  \/ SaveProduct(u) \/ Rollback(u)

-----------------------------------------------------------------------------
(* The specifications *)

Init ==
  /\ item = [e \in Equipment |-> Unregistered]
  /\ stock = 0 /\ material = 0 /\ received = 0
  /\ carried = [t \in Technicians |-> 0]
  /\ dispatch = [d \in Dispatches |-> [status |-> "NONE"]]
  /\ lines = [d \in Dispatches |-> NoLines]
  /\ request = [u \in Users |-> NoRequest]

Next ==
  \/ \E e \in Equipment : EquipmentMoves(e)
  \/ MaterialMoves
  \/ \E d \in Dispatches : DispatchMoves(d)
  \/ \E u \in Users : RequestMoves(u)

Spec == Init /\ [][Next]_vars

(* What a request in flight must find as it has read it.  A line is inserted or
   deleted whatever has become of the list, and of the other drafts.         *)
Read(r) ==
  CASE r.write = "nothing"     -> <<>>
    [] r.write = "saveSerial"  -> <<item[r.serial]>>
    [] r.write = "saveProduct" -> <<stock, material>>
    [] r.write \in {"insertLine", "deleteLine"} -> <<dispatch[r.dispatch]>>
    [] OTHER                   -> <<dispatch[r.dispatch], lines[r.dispatch]>>

(* No step changes what a request in flight has read, unless it is its own. *)
Undisturbed ==
  \A u \in Users : request'[u] = request[u] => Read(request[u])' = Read(request[u])

ApartSpec == Init /\ [][Next /\ Undisturbed]_vars

-----------------------------------------------------------------------------
(* Properties *)

(* The rows, the counters and the requests have their types; no counter is
   negative.                                                                *)
InventoryTypeOK ==
  /\ item \in [Equipment -> Item]
  /\ stock \in Nat /\ material \in Nat
  /\ carried \in [Technicians -> Nat]
  /\ dispatch \in [Dispatches -> DispatchRow \cup NoRow]
  /\ lines \in [Dispatches -> [Things -> 0..MaxLines]]
  /\ request \in [Users -> Request]
  /\ received \in Int

(* stockCurrent of the product is the number of its serials that are in the
   warehouse in a usable condition: what every transition adds and takes away
   agrees with what it moves, and so does a dispatch.                        *)
StockCountsEquipment == stock = Cardinality(Shelf)

(* The custody columns of a serial agree with its location: of the warehouse
   and the technician it names the one that has it, or neither
   (serial-number.entity.ts asks for as much).  The client may be left by
   assignSerial, and is named when the equipment is installed.              *)
CustodyMatchesLocation ==
  \A e \in Equipment :
    LET i == item[e]
        keepers == i.holders \ Clients
    IN  /\ i.location = "WAREHOUSE"  => \E w \in Warehouses : keepers = {w}
        /\ i.location = "TECHNICIAN" => \E t \in Technicians : keepers = {t}
        /\ i.location = "CLIENT"     => keepers = {} /\ i.holders # {}
        /\ i.location \notin {"WAREHOUSE", "TECHNICIAN"} => keepers = {}

(* The half units that the technicians have, one by one. *)
HalvesCarried == UNION {{t} \X (1..carried[t]) : t \in Technicians}

(* Material is in the warehouse or with a technician: what was received and not
   consumed, lost or sold is there, through dispatches, their rejections and
   the sales of the counter.                                                *)
MaterialIsConserved ==
  2 * material + Cardinality(HalvesCarried) = received

-----------------------------------------------------------------------------
(* What a dispatch promises *)

Promise == INSTANCE Consignment WITH
  phase    <- [d \in Dispatches |-> dispatch[d].status],
  manifest <- lines,
  Empty    <- NoLines

(* A dispatch is a consignment: its list can be changed while it is a draft,
   is sent once, as it stands, and from then on is only answered, once.  It
   is never sent again, never changed or deleted under way, never a draft
   again.                                                                   *)
DispatchIsConsignment == Promise!ConsignmentSpec

-----------------------------------------------------------------------------
(* What the repository says and the code does not do, checked by inv_divergent.cfg *)

(* A serial is on one line of one draft at most ("ya está agregado en otro
   despacho en borrador"): the search and the insertion of addLine are apart. *)
DraftedOnce ==
  \A e \in Equipment : \A d \in Drafts :
    /\ lines[d][e] <= 1
    /\ \A other \in Drafts : lines[d][e] > 0 /\ lines[other][e] > 0 => d = other

=============================================================================
