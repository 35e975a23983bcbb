-------------------------- MODULE Inventory_proofs --------------------------
(***************************************************************************)
(* Proofs about Inventory, for any equipment, technicians, warehouses,     *)
(* clients, dispatches and requests: its types, that material is neither   *)
(* lost nor made, and that a dispatch is a consignment.                    *)
(*                                                                         *)
(* All but the types need the requests to be undisturbed, which an         *)
(* invariant has to say of every request in flight: InFlightInv is what    *)
(* each still knows of the rows that it has read.                          *)
(***************************************************************************)
EXTENDS Inventory, FiniteSetTheorems, TLAPS

-----------------------------------------------------------------------------
(* Types *)

LEMMA LegacyType ==
  ASSUME NEW location, NEW condition
  PROVE  DeriveLegacyStatus(location, condition) \in LegacyStatuses
  BY DEF DeriveLegacyStatus, LegacyStatuses

(* Whatever persistTransition is given, it writes a row of the table. *)
LEMMA PlacedType ==
  ASSUME NEW location \in Custodies, NEW holders \in SUBSET Custodians,
         NEW condition \in Conditions
  PROVE  Placed(location, holders, condition) \in Item
  BY LegacyType DEF Placed, Item

(* A physical count names custodians. *)
LEMMA CountedType ==
  ASSUME NEW location \in Custodies
  PROVE  CountedHolders(location) \in SUBSET SUBSET Custodians
<1>1. CustodiansOf(location) \subseteq Custodians
  BY DEF CustodiansOf, Custodians
<1>2. Superfluous \subseteq Custodians
  BY InputsAssumption DEF Custodians
<1> QED BY <1>1, <1>2 DEF CountedHolders

(* What a movement of equipment does to its row, whichever movement it is. *)
Moves(e, location, holders, condition) ==
  /\ PersistTransition(e, location, holders, condition)
  /\ EquipmentStep

(* Every movement of equipment places it somewhere, and leaves a stock. *)
LEMMA MovesType ==
  ASSUME InventoryTypeOK, NEW e \in Equipment, EquipmentMoves(e)
  PROVE  /\ \E location \in Custodies, holders \in SUBSET Custodians, condition \in Conditions :
              Moves(e, location, holders, condition)
         /\ stock' \in Nat
<1> USE DEF EquipmentMoves, Moves, Custodies, Conditions, AdjustStock, InventoryTypeOK,
            Custodians, Usable
<1>0. item[e] \in Item
  OBVIOUS
<1>1. CASE \E w \in Warehouses : IngresarEquipo(e, w)
  BY <1>1 DEF IngresarEquipo
<1>2. CASE \E t \in Technicians : AsignarATecnico(e, t)
  BY <1>2 DEF AsignarATecnico
<1>3. CASE \E c \in Clients : InstalarEnCliente(e, c)
  BY <1>3 DEF InstalarEnCliente
<1>4. CASE \E t \in Technicians, condition \in Removed : Desinstalar(e, t, condition)
  BY <1>4, InputsAssumption DEF Desinstalar
<1>5. CASE \E w \in Warehouses : DevolverAlmacen(e, w)
  BY <1>0, <1>5 DEF DevolverAlmacen, Item
<1>6. CASE \E t \in Technicians : TransferirATecnico(e, t)
  BY <1>0, <1>6 DEF TransferirATecnico, Item
<1>7. CASE \E condition \in Damages : ReportarDano(e, condition)
  BY <1>0, <1>7, InputsAssumption DEF ReportarDano, Item
<1>8. CASE EnviarAReparacion(e)
  BY <1>8 DEF EnviarAReparacion
<1>9. CASE \E w \in Warehouses, repaired \in BOOLEAN : RetornarDeReparacion(e, repaired, w)
  BY <1>9 DEF RetornarDeReparacion
<1>10. CASE \E lost \in BOOLEAN : DarDeBaja(e, lost)
  BY <1>10 DEF DarDeBaja
<1>11. CASE \E count \in Counted : \E holders \in CountedHolders(count[1]) :
              AjusteEquipo(e, count[1], count[2], holders)
  <2>1. PICK count \in Counted : \E holders \in CountedHolders(count[1]) :
              AjusteEquipo(e, count[1], count[2], holders)
    BY <1>11
  <2>2. count[1] \in Custodies /\ count[2] \in Conditions
    BY InputsAssumption
  <2>3. PICK holders \in CountedHolders(count[1]) : AjusteEquipo(e, count[1], count[2], holders)
    BY <2>1
  <2>4. holders \in SUBSET Custodians
    BY <2>2, CountedType
  <2> QED BY <2>2, <2>3, <2>4 DEF AjusteEquipo
<1> QED BY <1>1, <1>2, <1>3, <1>4, <1>5, <1>6, <1>7, <1>8, <1>9, <1>10, <1>11

(* The UPDATE of the stock of the material leaves a natural number. *)
LEMMA MaterialType ==
  ASSUME material \in Nat, NEW delta \in Int, AdjustMaterial(delta)
  PROVE  material' \in Nat
  BY DEF AdjustMaterial

LEMMA CarriedType ==
  ASSUME carried \in [Technicians -> Nat], NEW t \in Technicians, NEW delta \in Int,
         IncrementCarried(t, delta)
  PROVE  carried' \in [Technicians -> Nat]
  BY DEF IncrementCarried

(* No movement of material takes a counter below zero. *)
LEMMA MaterialMovesType ==
  ASSUME InventoryTypeOK, MaterialMoves
  PROVE  /\ MaterialStep
         /\ material' \in Nat /\ carried' \in [Technicians -> Nat] /\ received' \in Int
<1> USE DEF InventoryTypeOK
<1>1. PICK n \in Amounts :
        \/ IngresoAlmacen(n)
        \/ \E delta \in {n, -n} : AjustarAlmacen(delta)
        \/ \E t \in Technicians : \/ SalidaATecnico(t, n)
                                  \/ ConsumoEnInstalacion(t, n)
                                  \/ DevolverMaterial(t, n)
                                  \/ \E delta \in {n, -n} : AjustarTecnico(t, delta)
  BY DEF MaterialMoves
<1>2. n \in Nat /\ n \in Int /\ -n \in Int
  BY AmountsAssumption
<1>3. CASE IngresoAlmacen(n)
  BY <1>2, <1>3, MaterialType DEF IngresoAlmacen
<1>4. CASE \E delta \in {n, -n} : AjustarAlmacen(delta)
  BY <1>2, <1>4, MaterialType DEF AjustarAlmacen
<1>5. CASE \E t \in Technicians : SalidaATecnico(t, n)
  BY <1>2, <1>5, MaterialType, CarriedType DEF SalidaATecnico
<1>6. CASE \E t \in Technicians : ConsumoEnInstalacion(t, n)
  BY <1>2, <1>6, CarriedType DEF ConsumoEnInstalacion
<1>7. CASE \E t \in Technicians : DevolverMaterial(t, n)
  BY <1>2, <1>7, MaterialType, CarriedType DEF DevolverMaterial
<1>8. CASE \E t \in Technicians : \E delta \in {n, -n} : AjustarTecnico(t, delta)
  BY <1>2, <1>8, CarriedType DEF AjustarTecnico
<1> QED BY <1>1, <1>3, <1>4, <1>5, <1>6, <1>7, <1>8

(* Equipment, and so any part of it, can be counted. *)
LEMMA Countable ==
  ASSUME NEW S \in SUBSET Equipment
  PROVE  IsFiniteSet(S) /\ Cardinality(S) \in Nat
  BY FiniteAssumption, FS_Subset, FS_CardinalityType

(* A dispatch that is confirmed or rejected places what it lists. *)
LEMMA DispatchMovesType ==
  ASSUME InventoryTypeOK, NEW d \in Dispatches, DispatchMoves(d)
  PROVE  /\ item' \in [Equipment -> Item] /\ stock' \in Nat /\ material' \in Nat
         /\ carried' \in [Technicians -> Nat]
         /\ dispatch' \in [Dispatches -> DispatchRow \cup NoRow]
         /\ UNCHANGED <<lines, request, received>>
<1> USE DEF InventoryTypeOK
<1>0. /\ 2 * lines[d][Material] \in Nat
      /\ -(2 * lines[d][Material]) \in Int
      /\ dispatch[d].status \in DispatchStatuses => dispatch[d] \in DispatchRow
  BY DEF Things, DispatchRow, NoRow, DispatchStatuses, Material
<1>1. CASE \E w \in Warehouses, t \in Technicians : CreateDraft(d, w, t)
  BY <1>1 DEF CreateDraft, DispatchRow, DispatchStatuses, warehouseVars
<1>2. CASE ConfirmDispatch(d)
  <2>0. Cardinality(Listed(d)) \in Nat
    BY Countable DEF Listed
  <2>1. /\ dispatch[d] \in DispatchRow
        /\ dispatch' = [dispatch EXCEPT ![d].status = "DISPATCHED"]
        /\ stock' \in Nat
    BY <1>0, <1>2, <2>0 DEF ConfirmDispatch, AdjustStock, DispatchStatuses
  <2>2. dispatch' \in [Dispatches -> DispatchRow \cup NoRow]
    BY <2>1 DEF DispatchRow, DispatchStatuses
  <2>3. \A e \in Equipment : Placed("TECHNICIAN", {dispatch[d].technician}, "USABLE") \in Item
    BY <2>1, PlacedType DEF DispatchRow, Custodies, Conditions, Custodians
  <2>4. item' \in [Equipment -> Item]
    BY <1>2, <2>3 DEF ConfirmDispatch
  <2>5. material' \in Nat /\ carried' \in [Technicians -> Nat]
    BY <1>0, <1>2, <2>1, MaterialType, CarriedType DEF ConfirmDispatch, DispatchRow
  <2> QED BY <1>2, <2>1, <2>2, <2>4, <2>5 DEF ConfirmDispatch
<1>3. CASE AcceptDispatch(d)
  BY <1>0, <1>3 DEF AcceptDispatch, DispatchRow, DispatchStatuses, warehouseVars
<1>4. CASE RejectDispatch(d)
  <2>0. Cardinality({e \in Listed(d) : item[e].condition = "USABLE"}) \in Nat
    BY Countable DEF Listed
  <2>1. /\ dispatch[d] \in DispatchRow
        /\ dispatch' = [dispatch EXCEPT ![d].status = "REJECTED"]
        /\ stock' \in Nat
    BY <1>0, <1>4, <2>0 DEF RejectDispatch, AdjustStock, DispatchStatuses
  <2>2. dispatch' \in [Dispatches -> DispatchRow \cup NoRow]
    BY <2>1 DEF DispatchRow, DispatchStatuses
  <2>3. \A e \in Equipment : Placed("WAREHOUSE", {dispatch[d].warehouse}, item[e].condition) \in Item
    <3> TAKE e \in Equipment
    <3>1. item[e].condition \in Conditions
      BY DEF Item
    <3> QED BY <2>1, <3>1, PlacedType DEF DispatchRow, Custodies, Custodians
  <2>4. item' \in [Equipment -> Item]
    BY <1>4, <2>3 DEF RejectDispatch
  <2>5. material' \in Nat /\ carried' \in [Technicians -> Nat]
    BY <1>0, <1>4, <2>1, MaterialType, CarriedType DEF RejectDispatch, DispatchRow
  <2> QED BY <1>4, <2>1, <2>2, <2>4, <2>5 DEF RejectDispatch
<1> QED BY <1>1, <1>2, <1>3, <1>4 DEF DispatchMoves

(* What a request may be: one fact for each write that it is about to make. *)
LEMMA RequestShape ==
  ASSUME NEW r \in Request
  PROVE  /\ r.write \in {"insertLine", "deleteLine"} =>
              r = [write |-> r.write, dispatch |-> r.dispatch, thing |-> r.thing]
              /\ r.dispatch \in Dispatches /\ r.thing \in Things
         /\ r.write \in {"clearLines", "saveDraft"} =>
              r = [write |-> r.write, dispatch |-> r.dispatch, draft |-> r.draft,
                   listed |-> r.listed]
              /\ r.dispatch \in Dispatches /\ r.draft \in DispatchRow
              /\ r.listed \in [Things -> 0..MaxLines]
         /\ r.write \in {"emptyDraft", "deleteDraft"} =>
              r = [write |-> r.write, dispatch |-> r.dispatch] /\ r.dispatch \in Dispatches
         /\ r.write = "saveSerial" =>
              r = [write |-> r.write, serial |-> r.serial, row |-> r.row]
              /\ r.serial \in Equipment /\ r.row \in Item
         /\ r.write = "saveProduct" =>
              r = [write |-> r.write, product |-> r.product, level |-> r.level]
              /\ r.product \in Products /\ r.level \in Nat \ {0}
  BY DEF Request

(* A request begins with nothing but its own record. *)
LEMMA BeginType ==
  ASSUME InventoryTypeOK, NEW u \in Users, NEW r \in Request, Begin(u, r)
  PROVE  InventoryTypeOK'
  BY DEF Begin, InventoryTypeOK, warehouseVars

LEMMA EndType ==
  ASSUME InventoryTypeOK, NEW u \in Users, End(u)
  PROVE  request' \in [Users -> Request]
  BY DEF End, NoRequest, Request, InventoryTypeOK

LEMMA EmptyLines == NoLines \in [Things -> 0..MaxLines]
  BY BoundsAssumption DEF NoLines

(* A draft or a deleted dispatch is a row, and not the absence of one. *)
LEMMA RowOf ==
  ASSUME InventoryTypeOK, NEW d \in Dispatches, dispatch[d].status \in DispatchStatuses
  PROVE  dispatch[d] \in DispatchRow
  BY DEF InventoryTypeOK, DispatchRow, NoRow, DispatchStatuses

(* Every read of a request leaves the types as they are. *)
LEMMA ReadsType ==
  ASSUME InventoryTypeOK, NEW u \in Users,
         \/ \E d \in Dispatches : DeleteDraft(u, d)
         \/ \E d \in Dispatches, x \in Things : AddLine(u, d, x) \/ RemoveLine(u, d, x)
         \/ \E d \in Dispatches, w \in Warehouses, t \in Technicians, clear \in BOOLEAN :
              UpdateDraft(u, d, w, t, clear)
         \/ \E e \in Equipment, c \in Clients : AssignSerial(u, e, c)
         \/ \E p \in Sold : ReadStock(u, p)
  PROVE  InventoryTypeOK'
<1>1. CASE \E d \in Dispatches : DeleteDraft(u, d)
  BY <1>1, BeginType DEF DeleteDraft, Request
<1>2. CASE \E d \in Dispatches, x \in Things : AddLine(u, d, x) \/ RemoveLine(u, d, x)
  BY <1>2, BeginType DEF AddLine, RemoveLine, Request
<1>3. CASE \E d \in Dispatches, w \in Warehouses, t \in Technicians, clear \in BOOLEAN :
             UpdateDraft(u, d, w, t, clear)
  <2>1. PICK d \in Dispatches, w \in Warehouses, t \in Technicians, clear \in BOOLEAN :
          UpdateDraft(u, d, w, t, clear)
    BY <1>3
  <2>2. dispatch[d] \in DispatchRow /\ lines[d] \in [Things -> 0..MaxLines]
    BY <2>1, RowOf DEF UpdateDraft, DispatchStatuses, InventoryTypeOK
  <2>3. [dispatch[d] EXCEPT !.technician = t, !.warehouse = w] \in DispatchRow
    BY <2>2 DEF DispatchRow
  <2> QED BY <2>1, <2>2, <2>3, BeginType DEF UpdateDraft, Request
<1>4. CASE \E e \in Equipment, c \in Clients : AssignSerial(u, e, c)
  <2>1. PICK e \in Equipment, c \in Clients : AssignSerial(u, e, c)
    BY <1>4
  <2>2. item[e] \in Item
    BY DEF InventoryTypeOK
  <2>3. [item[e] EXCEPT !.holders = (@ \ Clients) \cup {c}, !.status = "ASSIGNED_TO_CLIENT"] \in Item
    BY <2>2 DEF Item, LegacyStatuses, Custodians
  <2> QED BY <2>1, <2>3, BeginType DEF AssignSerial, Request
<1>5. CASE \E p \in Sold : ReadStock(u, p)
  BY <1>5, BeginType, InputsAssumption DEF ReadStock, Request, InventoryTypeOK
<1> QED BY <1>1, <1>2, <1>3, <1>4, <1>5

(* One more line, or one less, within the bound. *)
LEMMA RecountType ==
  ASSUME InventoryTypeOK, NEW d \in Dispatches, NEW x \in Things, NEW n \in 0..MaxLines
  PROVE  [lines EXCEPT ![d][x] = n] \in [Dispatches -> [Things -> 0..MaxLines]]
  BY DEF InventoryTypeOK

(* So does every write. *)
LEMMA WritesType ==
  ASSUME InventoryTypeOK, NEW u \in Users,
         \/ InsertLine(u) \/ DeleteLine(u) \/ ClearLines(u) \/ SaveDraft(u)
         \/ EmptyDraft(u) \/ DeleteRow(u) \/ SaveSerial(u) \/ SaveProduct(u) \/ Rollback(u)
  PROVE  InventoryTypeOK'
<1> DEFINE r == request[u]
<1> USE DEF InventoryTypeOK
<1>0. r \in Request
  OBVIOUS
<1>1. CASE InsertLine(u)
  <2>1. r.dispatch \in Dispatches /\ r.thing \in Things
    BY <1>0, <1>1, RequestShape DEF InsertLine
  <2>2. lines[r.dispatch][r.thing] \in 0..MaxLines
    BY <2>1
  <2>3. lines[r.dispatch][r.thing] < MaxLines => lines[r.dispatch][r.thing] + 1 \in 0..MaxLines
    BY <2>2, BoundsAssumption
  <2>4. lines' \in [Dispatches -> [Things -> 0..MaxLines]]
    <3>1. CASE lines' = lines
      BY <3>1
    <3>2. CASE /\ lines[r.dispatch][r.thing] < MaxLines
               /\ lines' = [lines EXCEPT ![r.dispatch][r.thing] = lines[r.dispatch][r.thing] + 1]
      BY <2>1, <2>3, <3>2, RecountType
    <3> QED BY <1>1, <3>1, <3>2 DEF InsertLine
  <2> QED BY <1>1, <2>4, EndType DEF InsertLine, warehouseVars
<1>2. CASE DeleteLine(u)
  <2>1. r.dispatch \in Dispatches /\ r.thing \in Things
    BY <1>0, <1>2, RequestShape DEF DeleteLine
  <2>2. lines[r.dispatch][r.thing] \in 0..MaxLines
    BY <2>1
  <2>3. (IF lines[r.dispatch][r.thing] > 0 THEN lines[r.dispatch][r.thing] - 1 ELSE 0)
          \in 0..MaxLines
    BY <2>2, BoundsAssumption
  <2>4. lines' \in [Dispatches -> [Things -> 0..MaxLines]]
    BY <1>2, <2>1, <2>3, RecountType DEF DeleteLine
  <2> QED BY <1>2, <2>4, EndType DEF DeleteLine, warehouseVars
<1>3. CASE ClearLines(u)
  <2>1. [r EXCEPT !.write = "saveDraft"] \in Request
    BY <1>0, <1>3, RequestShape DEF ClearLines, Request
  <2>2. request' \in [Users -> Request]
    BY <1>3, <2>1 DEF ClearLines
  <2> QED BY <1>0, <1>3, <2>2, RequestShape, EmptyLines DEF ClearLines, warehouseVars
<1>4. CASE SaveDraft(u)
  BY <1>0, <1>4, RequestShape, EndType DEF SaveDraft, warehouseVars
<1>5. CASE EmptyDraft(u)
  <2>1. [r EXCEPT !.write = "deleteDraft"] \in Request
    BY <1>0, <1>5, RequestShape DEF EmptyDraft, Request
  <2>2. request' \in [Users -> Request]
    BY <1>5, <2>1 DEF EmptyDraft
  <2> QED BY <1>0, <1>5, <2>2, RequestShape, EmptyLines DEF EmptyDraft, warehouseVars
<1>6. CASE DeleteRow(u)
  BY <1>0, <1>6, RequestShape, EndType, EmptyLines DEF DeleteRow, NoRow, warehouseVars
<1>7. CASE SaveSerial(u)
  BY <1>0, <1>7, RequestShape, EndType DEF SaveSerial
<1>8. CASE SaveProduct(u)
  <2>1. r.level - 1 \in Nat
    BY <1>0, <1>8, RequestShape DEF SaveProduct
  <2>2. stock' \in Nat /\ material' \in Nat /\ received' \in Int
    BY <1>8, <2>1 DEF SaveProduct
  <2> QED BY <1>8, <2>2, EndType DEF SaveProduct
<1>9. CASE Rollback(u)
  BY <1>9, EndType DEF Rollback, warehouseVars
<1> QED BY <1>1, <1>2, <1>3, <1>4, <1>5, <1>6, <1>7, <1>8, <1>9

(* Every step keeps the types. *)
LEMMA NextType ==
  ASSUME InventoryTypeOK, [Next]_vars
  PROVE  InventoryTypeOK'
<1>1. CASE \E e \in Equipment : EquipmentMoves(e)
  <2>1. PICK e \in Equipment : EquipmentMoves(e)
    BY <1>1
  <2>2. PICK location \in Custodies, holders \in SUBSET Custodians, condition \in Conditions :
          Moves(e, location, holders, condition)
    BY <2>1, MovesType
  <2>3. item' \in [Equipment -> Item]
    BY <2>2, PlacedType DEF Moves, PersistTransition, InventoryTypeOK
  <2> QED BY <2>1, <2>2, <2>3, MovesType DEF Moves, EquipmentStep, InventoryTypeOK
<1>2. CASE MaterialMoves
  BY <1>2, MaterialMovesType DEF MaterialStep, InventoryTypeOK
<1>3. CASE \E d \in Dispatches : DispatchMoves(d)
  BY <1>3, DispatchMovesType DEF InventoryTypeOK
<1>4. CASE \E u \in Users : RequestMoves(u)
  BY <1>4, ReadsType, WritesType DEF RequestMoves
<1>5. CASE UNCHANGED vars
  BY <1>5 DEF vars, InventoryTypeOK
<1> QED BY <1>1, <1>2, <1>3, <1>4, <1>5 DEF Next

LEMMA InitType == Init => InventoryTypeOK
  BY EmptyLines DEF Init, InventoryTypeOK, Item, Unregistered, LegacyStatuses, Conditions,
     NoRow, Request, NoRequest

(* The rows, the counters and the requests keep their types, and no counter
   goes below zero, whatever overlaps.                                      *)
THEOREM WarehouseTypes == Spec => []InventoryTypeOK
  BY InitType, NextType, PTL DEF Spec

-----------------------------------------------------------------------------
(* What a request in flight still knows of the rows that it has read *)

OnDraft == {"insertLine", "deleteLine", "clearLines", "saveDraft", "emptyDraft", "deleteDraft"}

Knows(u) ==
  LET r == request[u] IN
  /\ r.write \in OnDraft => dispatch[r.dispatch].status = "DRAFT"
  /\ r.write \in {"clearLines", "saveDraft"} => r.draft.status = "DRAFT"
  /\ r.write = "saveProduct" => r.product \in Sold

(* There is nothing on the list of a dispatch that does not exist. *)
NothingListed ==
  \A d \in Dispatches : dispatch[d].status \in {"NONE", "DELETED"} => lines[d] = NoLines

InFlightInv ==
  /\ InventoryTypeOK
  /\ \A u \in Users : Knows(u)
  /\ NothingListed

(* A request that does not move keeps its knowledge: nothing it read changes. *)
LEMMA KnowledgeStays ==
  ASSUME InFlightInv, InventoryTypeOK', Undisturbed, NEW u \in Users, request'[u] = request[u]
  PROVE  Knows(u)'
<1> DEFINE r == request[u]
<1>1. r \in Request /\ Knows(u)
  BY DEF InFlightInv, InventoryTypeOK
<1>2. Read(r)' = Read(r)
  BY DEF Undisturbed
<1>4. CASE r.write \in OnDraft
  BY <1>1, <1>2, <1>4 DEF Read, OnDraft, Knows
<1>5. CASE r.write = "saveSerial"
  BY <1>1, <1>2, <1>5 DEF Read, OnDraft, Knows
<1>6. CASE r.write = "saveProduct"
  BY <1>1, <1>2, <1>6 DEF OnDraft, Knows
<1>7. CASE r.write = "nothing"
  BY <1>1, <1>7 DEF OnDraft, Knows
<1> QED BY <1>1, <1>4, <1>5, <1>6, <1>7 DEF Request, OnDraft

(* A request that has ended knows nothing. *)
LEMMA EndKnows ==
  ASSUME InventoryTypeOK, NEW u \in Users, End(u)
  PROVE  Knows(u)' /\ \A v \in Users \ {u} : request'[v] = request[v]
  BY DEF End, NoRequest, Knows, OnDraft, InventoryTypeOK

(* A request that begins knows what it has just read. *)
LEMMA BeginKnows ==
  ASSUME InFlightInv, InventoryTypeOK', NEW u \in Users, RequestMoves(u)
  PROVE  Knows(u)' /\ \A v \in Users \ {u} : request'[v] = request[v]
<1> USE DEF InFlightInv, InventoryTypeOK
<1>0. request[u] \in Request /\ Knows(u)
  OBVIOUS
<1>1. CASE \E d \in Dispatches : DeleteDraft(u, d)
  BY <1>1 DEF DeleteDraft, Begin, Knows, OnDraft
<1>2. CASE \E d \in Dispatches, x \in Things : AddLine(u, d, x) \/ RemoveLine(u, d, x)
  BY <1>2 DEF AddLine, RemoveLine, Begin, Knows, OnDraft, Drafts
<1>3. CASE \E d \in Dispatches, w \in Warehouses, t \in Technicians, clear \in BOOLEAN :
             UpdateDraft(u, d, w, t, clear)
  <2>1. PICK d \in Dispatches, w \in Warehouses, t \in Technicians, clear \in BOOLEAN :
          UpdateDraft(u, d, w, t, clear)
    BY <1>3
  <2>2. dispatch[d] \in DispatchRow /\ dispatch[d].status = "DRAFT"
    BY <2>1, RowOf DEF UpdateDraft, DispatchStatuses
  <2>3. [dispatch[d] EXCEPT !.technician = t, !.warehouse = w].status = "DRAFT"
    BY <2>2 DEF DispatchRow
  <2> QED BY <2>1, <2>2, <2>3 DEF UpdateDraft, Begin, Knows, OnDraft
<1>4. CASE \E e \in Equipment, c \in Clients : AssignSerial(u, e, c)
  <2>1. PICK e \in Equipment, c \in Clients : AssignSerial(u, e, c)
    BY <1>4
  <2>2. PICK row : Begin(u, [write |-> "saveSerial", serial |-> e, row |-> row])
    BY <2>1 DEF AssignSerial
  <2> QED BY <2>2 DEF Begin, Knows, OnDraft
<1>5. CASE \E p \in Sold : ReadStock(u, p)
  BY <1>5 DEF ReadStock, Begin, Knows, OnDraft
<1>6. CASE ClearLines(u)
  BY <1>0, <1>6, RequestShape DEF ClearLines, Knows, OnDraft
<1>7. CASE EmptyDraft(u)
  BY <1>0, <1>7, RequestShape DEF EmptyDraft, Knows, OnDraft
<1>8. CASE \/ InsertLine(u) \/ DeleteLine(u) \/ SaveDraft(u) \/ DeleteRow(u)
           \/ SaveSerial(u) \/ SaveProduct(u) \/ Rollback(u)
  BY <1>8, EndKnows DEF InsertLine, DeleteLine, SaveDraft, DeleteRow, SaveSerial, SaveProduct,
     Rollback
<1> QED BY <1>1, <1>2, <1>3, <1>4, <1>5, <1>6, <1>7, <1>8 DEF RequestMoves

(* What a step does to the dispatches and their lists, in the words of the
   abstract specification: nothing, or one of its steps.                     *)
ListStep(d) ==
  \/ \E w \in Warehouses, t \in Technicians : CreateDraft(d, w, t)
  \/ ConfirmDispatch(d)
  \/ AcceptDispatch(d)
  \/ RejectDispatch(d)
  \/ /\ dispatch[d].status = "DRAFT"
     /\ \E row \in DispatchRow : row.status = "DRAFT" /\ dispatch' = [dispatch EXCEPT ![d] = row]
     /\ UNCHANGED lines
  \/ /\ dispatch[d].status = "DRAFT"
     /\ \E list \in [Things -> 0..MaxLines] : lines' = [lines EXCEPT ![d] = list]
     /\ UNCHANGED dispatch
  \/ /\ dispatch[d].status = "DRAFT"
     /\ dispatch' = [dispatch EXCEPT ![d] = [status |-> "DELETED"]]
     /\ lines' = [lines EXCEPT ![d] = NoLines]

LEMMA ListSteps ==
  ASSUME InFlightInv, [Next]_vars
  PROVE  UNCHANGED <<dispatch, lines>> \/ \E d \in Dispatches : ListStep(d)
<1> USE DEF InFlightInv, InventoryTypeOK
<1>1. CASE \E e \in Equipment : EquipmentMoves(e)
  BY <1>1, MovesType DEF Moves, EquipmentStep
<1>2. CASE MaterialMoves
  BY <1>2, MaterialMovesType DEF MaterialStep
<1>3. CASE \E d \in Dispatches : DispatchMoves(d)
  BY <1>3 DEF DispatchMoves, ListStep
<1>4. CASE \E u \in Users : RequestMoves(u)
  <2>1. PICK u \in Users : RequestMoves(u)
    BY <1>4
  <2> DEFINE r == request[u]
  <2>2. r \in Request /\ Knows(u)
    OBVIOUS
  <2>3. CASE InsertLine(u)
    <3>1. /\ r.dispatch \in Dispatches /\ r.thing \in Things
          /\ dispatch[r.dispatch].status = "DRAFT" /\ UNCHANGED dispatch
          /\ lines[r.dispatch][r.thing] < MaxLines
          /\ lines' = [lines EXCEPT ![r.dispatch][r.thing] = @ + 1]
      BY <2>2, <2>3, RequestShape DEF InsertLine, Knows, OnDraft
    <3> DEFINE list == [lines[r.dispatch] EXCEPT ![r.thing] = @ + 1]
    <3>2. lines[r.dispatch] \in [Things -> 0..MaxLines] /\ list \in [Things -> 0..MaxLines]
      BY <3>1, BoundsAssumption
    <3>3. lines' = [lines EXCEPT ![r.dispatch] = list]
      BY <3>1
    <3> QED BY <3>1, <3>2, <3>3 DEF ListStep
  <2>4. CASE DeleteLine(u)
    <3>1. /\ r.dispatch \in Dispatches /\ r.thing \in Things
          /\ dispatch[r.dispatch].status = "DRAFT" /\ UNCHANGED dispatch
          /\ lines' = [lines EXCEPT ![r.dispatch][r.thing] = IF @ > 0 THEN @ - 1 ELSE 0]
      BY <2>2, <2>4, RequestShape DEF DeleteLine, Knows, OnDraft
    <3> DEFINE list == [lines[r.dispatch] EXCEPT ![r.thing] = IF @ > 0 THEN @ - 1 ELSE 0]
    <3>2. lines[r.dispatch] \in [Things -> 0..MaxLines] /\ list \in [Things -> 0..MaxLines]
      BY <3>1, BoundsAssumption
    <3>3. lines' = [lines EXCEPT ![r.dispatch] = list]
      BY <3>1
    <3> HIDE DEF list
    <3> QED BY <3>1, <3>2, <3>3 DEF ListStep
  <2>5. CASE ClearLines(u) \/ EmptyDraft(u)
    <3>1. /\ r.dispatch \in Dispatches /\ dispatch[r.dispatch].status = "DRAFT"
          /\ UNCHANGED dispatch /\ lines' = [lines EXCEPT ![r.dispatch] = NoLines]
      BY <2>2, <2>5, RequestShape DEF ClearLines, EmptyDraft, Knows, OnDraft
    <3> QED BY <3>1, EmptyLines DEF ListStep
  <2>6. CASE SaveDraft(u)
    BY <2>2, <2>6, RequestShape DEF SaveDraft, Knows, OnDraft, ListStep
  <2>7. CASE DeleteRow(u)
    BY <2>2, <2>7, RequestShape DEF DeleteRow, Knows, OnDraft, ListStep
  <2>8. CASE SaveSerial(u) \/ SaveProduct(u) \/ Rollback(u)
    BY <2>8 DEF SaveSerial, SaveProduct, Rollback
  <2>9. CASE \/ \E d \in Dispatches : DeleteDraft(u, d)
             \/ \E d \in Dispatches, x \in Things : AddLine(u, d, x) \/ RemoveLine(u, d, x)
             \/ \E d \in Dispatches, w \in Warehouses, t \in Technicians, clear \in BOOLEAN :
                  UpdateDraft(u, d, w, t, clear)
             \/ \E e \in Equipment, c \in Clients : AssignSerial(u, e, c)
             \/ \E p \in Sold : ReadStock(u, p)
    BY <2>9 DEF DeleteDraft, AddLine, RemoveLine, UpdateDraft, AssignSerial, ReadStock, Begin
  <2> QED BY <2>1, <2>3, <2>4, <2>5, <2>6, <2>7, <2>8, <2>9 DEF RequestMoves
<1>5. CASE UNCHANGED vars
  BY <1>5 DEF vars
<1> QED BY <1>1, <1>2, <1>3, <1>4, <1>5 DEF Next

LEMMA NothingListedStays ==
  ASSUME InFlightInv, [Next]_vars
  PROVE  NothingListed'
<1> USE DEF InFlightInv, InventoryTypeOK, NothingListed
<1>1. CASE UNCHANGED <<dispatch, lines>>
  BY <1>1
<1>2. ASSUME NEW d \in Dispatches, ListStep(d)
      PROVE  NothingListed'
  BY <1>2, RowOf DEF ListStep, CreateDraft, ConfirmDispatch, AcceptDispatch, RejectDispatch,
     DispatchRow, DispatchStatuses
<1> QED BY <1>1, <1>2, ListSteps

LEMMA InFlightNext ==
  ASSUME InFlightInv, [Next]_vars, Undisturbed \/ UNCHANGED vars
  PROVE  InFlightInv'
<1>1. InventoryTypeOK' /\ NothingListed'
  BY NextType, NothingListedStays DEF InFlightInv
<1>2. CASE UNCHANGED vars
  BY <1>1, <1>2 DEF InFlightInv, vars, Knows, Drafts
<1>3. CASE Undisturbed /\ (UNCHANGED request)
  BY <1>1, <1>3, KnowledgeStays DEF InFlightInv
<1>4. CASE Undisturbed /\ \E u \in Users : RequestMoves(u)
  <2>1. PICK u \in Users : RequestMoves(u)
    BY <1>4
  <2>2. Knows(u)' /\ \A v \in Users \ {u} : request'[v] = request[v]
    BY <1>1, <2>1, BeginKnows
  <2>3. \A v \in Users \ {u} : Knows(v)'
    BY <1>1, <1>4, <2>2, KnowledgeStays
  <2> QED BY <1>1, <2>2, <2>3 DEF InFlightInv
<1>5. (\E u \in Users : RequestMoves(u)) \/ (UNCHANGED request) \/ UNCHANGED vars
  BY MovesType, MaterialMovesType, DispatchMovesType
     DEF Next, Moves, EquipmentStep, MaterialStep, InFlightInv
<1> QED BY <1>2, <1>3, <1>4, <1>5

LEMMA InFlightInit == Init => InFlightInv
  BY InitType DEF Init, InFlightInv, NothingListed, Knows, NoRequest, OnDraft

-----------------------------------------------------------------------------
(* Dispatches *)

(* A step on a dispatch is a step of the abstract specification. *)
LEMMA ListStepIsConsignment ==
  ASSUME InFlightInv, InFlightInv', NEW d \in Dispatches, ListStep(d)
  PROVE  Promise!ConsignmentStep(d)
<1> USE DEF InFlightInv, InventoryTypeOK, Promise!ConsignmentStep, Promise!Advance
<1>1. CASE \E w \in Warehouses, t \in Technicians : CreateDraft(d, w, t)
  <2>1. /\ dispatch[d].status = "NONE" /\ dispatch'[d].status = "DRAFT"
        /\ \A x \in Dispatches \ {d} : dispatch'[x] = dispatch[x]
        /\ UNCHANGED lines
    BY <1>1 DEF CreateDraft
  <2> QED BY <2>1 DEF Promise!Open
<1>2. CASE ConfirmDispatch(d)
  BY <1>2, RowOf DEF ConfirmDispatch, DispatchStatuses, DispatchRow, Promise!Send
<1>3. CASE AcceptDispatch(d)
  BY <1>3, RowOf DEF AcceptDispatch, DispatchStatuses, DispatchRow, Promise!Keep
<1>4. CASE RejectDispatch(d)
  BY <1>4, RowOf DEF RejectDispatch, DispatchStatuses, DispatchRow, Promise!SendBack
<1>5. CASE /\ dispatch[d].status = "DRAFT"
           /\ \E row \in DispatchRow :
                row.status = "DRAFT" /\ dispatch' = [dispatch EXCEPT ![d] = row]
           /\ UNCHANGED lines
  BY <1>5 DEF Promise!Rewrite
<1>6. CASE /\ dispatch[d].status = "DRAFT"
           /\ \E list \in [Things -> 0..MaxLines] : lines' = [lines EXCEPT ![d] = list]
           /\ UNCHANGED dispatch
  BY <1>6 DEF Promise!Rewrite
<1>7. CASE /\ dispatch[d].status = "DRAFT"
           /\ dispatch' = [dispatch EXCEPT ![d] = [status |-> "DELETED"]]
           /\ lines' = [lines EXCEPT ![d] = NoLines]
  BY <1>7 DEF Promise!Discard
<1> QED BY <1>1, <1>2, <1>3, <1>4, <1>5, <1>6, <1>7 DEF ListStep

(* The dispatches implement Consignment as long as the requests do not
   interfere: a list is sent once, as it stands, and is not touched again.  *)
THEOREM DispatchesAreConsignments == ApartSpec => DispatchIsConsignment
<1>1. Init => Promise!ConsignmentInit
  BY DEF Init, Promise!ConsignmentInit
<1>2. InFlightInv /\ InFlightInv' /\ [Next /\ Undisturbed]_vars
        => [\E d \in Dispatches : Promise!ConsignmentStep(d)]_(Promise!consignmentVars)
  <2> SUFFICES ASSUME InFlightInv, InFlightInv', [Next /\ Undisturbed]_vars
               PROVE  [\E d \in Dispatches : Promise!ConsignmentStep(d)]_(Promise!consignmentVars)
    OBVIOUS
  <2>1. CASE UNCHANGED <<dispatch, lines>>
    BY <2>1 DEF Promise!consignmentVars
  <2>2. CASE \E d \in Dispatches : ListStep(d)
    BY <2>2, ListStepIsConsignment
  <2> QED BY <2>1, <2>2, ListSteps
<1>3. InFlightInv /\ [Next /\ Undisturbed]_vars => InFlightInv'
  BY InFlightNext
<1> QED BY <1>1, <1>2, <1>3, InFlightInit, PTL
        DEF ApartSpec, DispatchIsConsignment, Promise!ConsignmentSpec

-----------------------------------------------------------------------------
(* Material *)

(* Nobody moves half a unit: the column of the stock would round it. *)
WholeUnits == \A n \in Amounts : n % 2 = 0

(* A sale at the counter knows what is left. *)
SalesKnow ==
  \A u \in Users : request[u].write = "saveProduct" /\ request[u].product = "MATERIAL" =>
    request[u].level = material

MaterialInv ==
  InFlightInv /\ SalesKnow /\ IsFiniteSet(HalvesCarried) /\ MaterialIsConserved

(* What one technician gets or gives is what all of them have more or less. *)
LEMMA HalvesChange ==
  ASSUME carried \in [Technicians -> Nat], IsFiniteSet(HalvesCarried),
         NEW t \in Technicians, NEW delta \in Int, IncrementCarried(t, delta)
  PROVE  /\ IsFiniteSet(HalvesCarried')
         /\ Cardinality(HalvesCarried') = Cardinality(HalvesCarried) + delta
<1> DEFINE n == carried[t]
           rest == UNION {{q} \X (1..carried[q]) : q \in Technicians \ {t}}
           before == {t} \X (1..n)
           after == {t} \X (1..(n + delta))
<1>1. /\ n \in Nat /\ n + delta \in Nat
      /\ carried' = [carried EXCEPT ![t] = n + delta]
  BY DEF IncrementCarried
<1>2. HalvesCarried = rest \cup before
  BY DEF HalvesCarried
<1>3. HalvesCarried' = rest \cup after
  <2>1. HalvesCarried' = UNION {{q} \X (1..carried'[q]) : q \in Technicians}
    BY DEF HalvesCarried
  <2>2. carried'[t] = n + delta /\ \A q \in Technicians \ {t} : carried'[q] = carried[q]
    BY <1>1
  <2> QED BY <2>1, <2>2
<1>4. rest \cap before = {} /\ rest \cap after = {} /\ rest \in SUBSET HalvesCarried
  BY <1>2
<1>5. \A m \in Nat : IsFiniteSet({t} \X (1..m)) /\ Cardinality({t} \X (1..m)) = m
  <2> TAKE m \in Nat
  <2>1. IsFiniteSet(1..m) /\ Cardinality(1..m) = m
    BY FS_Interval
  <2>2. IsFiniteSet({t}) /\ Cardinality({t}) = 1
    BY FS_Singleton
  <2>3. /\ IsFiniteSet({t} \X (1..m))
        /\ Cardinality({t} \X (1..m)) = Cardinality({t}) * Cardinality(1..m)
    BY <2>1, <2>2, FS_Product
  <2> QED BY <2>1, <2>2, <2>3
<1>6. IsFiniteSet(rest) /\ Cardinality(rest) \in Nat
  BY <1>4, FS_Subset, FS_CardinalityType
<1>7. IsFiniteSet(before) /\ Cardinality(before) = n /\ IsFiniteSet(after) /\ Cardinality(after) = n + delta
  BY <1>1, <1>5
<1> HIDE DEF rest, before, after
<1>8. Cardinality(rest \cup before) = Cardinality(rest) + n
  <2>1. Cardinality(rest \cup before)
          = Cardinality(rest) + Cardinality(before) - Cardinality(rest \cap before)
    BY <1>6, <1>7, FS_Union
  <2>2. Cardinality(rest \cap before) = 0
    BY <1>4, FS_EmptySet
  <2> QED BY <1>1, <1>6, <1>7, <2>1, <2>2
<1>9. IsFiniteSet(rest \cup after) /\ Cardinality(rest \cup after) = Cardinality(rest) + n + delta
  BY <1>1, <1>4, <1>6, <1>7, FS_Union, FS_EmptySet
<1> QED BY <1>1, <1>2, <1>3, <1>6, <1>8, <1>9

(* A whole number of units is not rounded. *)
LEMMA NotRounded ==
  ASSUME material \in Nat, NEW delta \in Int, delta % 2 = 0, AdjustMaterial(delta)
  PROVE  2 * material' = 2 * material + delta
BY DEF AdjustMaterial

LEMMA HalvesCounted ==
  ASSUME IsFiniteSet(HalvesCarried)
  PROVE  Cardinality(HalvesCarried) \in Nat
BY FS_CardinalityType

(* What the warehouse hands to a technician, or takes back, stays. *)
LEMMA HandedOver ==
  ASSUME InventoryTypeOK, IsFiniteSet(HalvesCarried), MaterialIsConserved,
         NEW t \in Technicians, NEW delta \in Int, delta % 2 = 0,
         AdjustMaterial(-delta), IncrementCarried(t, delta), UNCHANGED received
  PROVE  IsFiniteSet(HalvesCarried)' /\ MaterialIsConserved'
<1>1. -delta \in Int /\ (-delta) % 2 = 0 /\ material \in Nat /\ received \in Int
  BY DEF InventoryTypeOK
<1>2. 2 * material' = 2 * material + (-delta)
  BY <1>1, NotRounded
<1>3. IsFiniteSet(HalvesCarried') /\ Cardinality(HalvesCarried') = Cardinality(HalvesCarried) + delta
  BY HalvesChange DEF InventoryTypeOK
<1>4. Cardinality(HalvesCarried) \in Nat
  BY HalvesCounted
<1> QED BY <1>1, <1>2, <1>3, <1>4 DEF MaterialIsConserved

LEMMA MaterialMovesConserve ==
  ASSUME WholeUnits, InventoryTypeOK, IsFiniteSet(HalvesCarried), MaterialIsConserved, MaterialMoves
  PROVE  IsFiniteSet(HalvesCarried)' /\ MaterialIsConserved'
<1>1. PICK n \in Amounts :
        \/ IngresoAlmacen(n)
        \/ \E delta \in {n, -n} : AjustarAlmacen(delta)
        \/ \E t \in Technicians : \/ SalidaATecnico(t, n)
                                  \/ ConsumoEnInstalacion(t, n)
                                  \/ DevolverMaterial(t, n)
                                  \/ \E delta \in {n, -n} : AjustarTecnico(t, delta)
  BY DEF MaterialMoves
<1>2. /\ n \in Int /\ -n \in Int /\ n % 2 = 0 /\ (-n) % 2 = 0 /\ -(-n) = n
      /\ material \in Nat /\ received \in Int /\ carried \in [Technicians -> Nat]
      /\ Cardinality(HalvesCarried) \in Nat
  BY AmountsAssumption, HalvesCounted DEF WholeUnits, InventoryTypeOK
<1>3. ASSUME NEW delta \in {n, -n}, AdjustMaterial(delta), received' = received + delta, UNCHANGED carried
      PROVE  IsFiniteSet(HalvesCarried)' /\ MaterialIsConserved'
  <2>1. 2 * material' = 2 * material + delta
    BY <1>2, <1>3, NotRounded
  <2>2. HalvesCarried' = HalvesCarried
    BY <1>3 DEF HalvesCarried
  <2> QED BY <1>2, <1>3, <2>1, <2>2 DEF MaterialIsConserved
<1>4. ASSUME NEW t \in Technicians, NEW delta \in {n, -n}, IncrementCarried(t, delta),
             received' = received + delta, UNCHANGED material
      PROVE  IsFiniteSet(HalvesCarried)' /\ MaterialIsConserved'
  <2>1. IsFiniteSet(HalvesCarried') /\ Cardinality(HalvesCarried') = Cardinality(HalvesCarried) + delta
    BY <1>2, <1>4, HalvesChange
  <2> QED BY <1>2, <1>4, <2>1 DEF MaterialIsConserved
<1>5. CASE IngresoAlmacen(n) \/ \E delta \in {n, -n} : AjustarAlmacen(delta)
  BY <1>3, <1>5 DEF IngresoAlmacen, AjustarAlmacen
<1>6. CASE \E t \in Technicians : ConsumoEnInstalacion(t, n) \/ \E delta \in {n, -n} : AjustarTecnico(t, delta)
  <2>1. received - n = received + (-n)
    BY <1>2
  <2> QED BY <1>4, <1>6, <2>1 DEF ConsumoEnInstalacion, AjustarTecnico
<1>7. CASE \E t \in Technicians : SalidaATecnico(t, n) \/ DevolverMaterial(t, n)
  BY <1>2, <1>7, HandedOver DEF SalidaATecnico, DevolverMaterial
<1> QED BY <1>1, <1>5, <1>6, <1>7

(* A dispatch hands over whole units. *)
LEMMA DispatchesConserve ==
  ASSUME InventoryTypeOK, IsFiniteSet(HalvesCarried), MaterialIsConserved,
         NEW d \in Dispatches, DispatchMoves(d)
  PROVE  IsFiniteSet(HalvesCarried)' /\ MaterialIsConserved'
<1> DEFINE n == 2 * lines[d][Material]
           t == dispatch[d].technician
<1>1. UNCHANGED <<material, carried, received>> => IsFiniteSet(HalvesCarried)' /\ MaterialIsConserved'
  BY DEF HalvesCarried, MaterialIsConserved
<1>2. n \in Int /\ -n \in Int /\ n % 2 = 0 /\ (-n) % 2 = 0 /\ -(-n) = n
  <2>1. lines[d][Material] \in Nat
    BY BoundsAssumption DEF InventoryTypeOK, Things
  <2> QED BY <2>1
<1>3. dispatch[d].status \in DispatchStatuses => t \in Technicians
  BY RowOf DEF DispatchRow
<1> HIDE DEF n
<1>4. CASE ConfirmDispatch(d)
  <2>1. t \in Technicians /\ AdjustMaterial(-n) /\ IncrementCarried(t, n) /\ UNCHANGED received
    BY <1>3, <1>4 DEF ConfirmDispatch, DispatchStatuses, n
  <2> QED BY <1>2, <2>1, HandedOver
<1>5. CASE RejectDispatch(d)
  <2>1. t \in Technicians /\ AdjustMaterial(n) /\ IncrementCarried(t, -n) /\ UNCHANGED received
    BY <1>3, <1>5 DEF RejectDispatch, DispatchStatuses, n
  <2> QED BY <1>2, <2>1, HandedOver
<1> QED BY <1>1, <1>4, <1>5 DEF DispatchMoves, CreateDraft, AcceptDispatch, warehouseVars

(* The level that a sale has read is still there when it saves. *)
LEMMA SalesConserve ==
  ASSUME MaterialInv, NEW u \in Users, RequestMoves(u)
  PROVE  IsFiniteSet(HalvesCarried)' /\ MaterialIsConserved'
<1>1. UNCHANGED <<material, carried, received>> => IsFiniteSet(HalvesCarried)' /\ MaterialIsConserved'
  BY DEF MaterialInv, HalvesCarried, MaterialIsConserved
<1>2. CASE SaveProduct(u)
  <2>1. CASE request[u].product = "MATERIAL"
    <3>1. material' = material - 1 /\ received' = received - 2 /\ UNCHANGED carried
      BY <1>2, <2>1 DEF SaveProduct, MaterialInv, SalesKnow
    <3>2. HalvesCarried' = HalvesCarried
      BY <3>1 DEF HalvesCarried
    <3>3. material \in Int /\ received \in Int /\ Cardinality(HalvesCarried) \in Nat
      BY HalvesCounted DEF MaterialInv, InFlightInv, InventoryTypeOK
    <3> QED BY <3>1, <3>2, <3>3 DEF MaterialInv, MaterialIsConserved
  <2>2. CASE request[u].product # "MATERIAL"
    BY <1>1, <1>2, <2>2 DEF SaveProduct
  <2> QED BY <2>1, <2>2
<1>3. CASE ~SaveProduct(u)
  BY <1>1, <1>3 DEF RequestMoves, DeleteDraft, AddLine, RemoveLine, UpdateDraft,
     AssignSerial, ReadStock, Begin, InsertLine, DeleteLine, ClearLines, SaveDraft, EmptyDraft,
     DeleteRow, SaveSerial, Rollback, warehouseVars
<1> QED BY <1>2, <1>3

LEMMA SalesKnowNext ==
  ASSUME MaterialInv, [Next]_vars, Undisturbed \/ UNCHANGED vars
  PROVE  SalesKnow'
<1> USE DEF MaterialInv
<1>1. CASE UNCHANGED vars
  BY <1>1 DEF vars, SalesKnow
<1>2. ASSUME Undisturbed, NEW v \in Users, request'[v] = request[v],
             request[v].write = "saveProduct", request[v].product = "MATERIAL"
      PROVE  request'[v].level = material'
  <2>1. Read(request[v])' = Read(request[v])
    BY <1>2 DEF Undisturbed
  <2>2. request[v].level = material
    BY <1>2 DEF SalesKnow
  <2>3. material' = material
    BY <1>2, <2>1 DEF Read
  <2> QED BY <1>2, <2>2, <2>3
<1>3. CASE Undisturbed /\ UNCHANGED request
  BY <1>2, <1>3 DEF SalesKnow
<1>4. CASE Undisturbed /\ \E u \in Users : RequestMoves(u)
  <2>1. PICK u \in Users : RequestMoves(u)
    BY <1>4
  <2>2. request \in [Users -> Request] /\ \A v \in Users \ {u} : request'[v] = request[v]
    BY <2>1, BeginKnows, InFlightNext, <1>4 DEF InFlightInv, InventoryTypeOK
  <2>3. request'[u].write = "saveProduct" /\ request'[u].product = "MATERIAL" =>
          request'[u].level = material'
    <3>1. CASE \E p \in Sold : ReadStock(u, p)
      BY <2>2, <3>1 DEF ReadStock, Begin, warehouseVars
    <3>2. CASE ~\E p \in Sold : ReadStock(u, p)
      <4>1. CASE ClearLines(u) \/ EmptyDraft(u)
        <5>1. request[u].write \in {"clearLines", "emptyDraft"} /\ request[u] \in Request
          BY <2>2, <4>1 DEF ClearLines, EmptyDraft
        <5>2. [request[u] EXCEPT !.write = "saveDraft"].write # "saveProduct"
              /\ [request[u] EXCEPT !.write = "deleteDraft"].write # "saveProduct"
          BY <5>1, RequestShape
        <5> QED BY <2>2, <4>1, <5>2 DEF ClearLines, EmptyDraft
      <4>2. CASE \E d \in Dispatches, w \in Warehouses, t \in Technicians, clear \in BOOLEAN :
                   UpdateDraft(u, d, w, t, clear)
        BY <2>2, <4>2 DEF UpdateDraft, Begin
      <4>3. CASE \/ \E d \in Dispatches : DeleteDraft(u, d)
                 \/ \E d \in Dispatches, x \in Things : AddLine(u, d, x) \/ RemoveLine(u, d, x)
                 \/ \E e \in Equipment, c \in Clients : AssignSerial(u, e, c)
        <5>1. CASE \E d \in Dispatches : DeleteDraft(u, d)
          BY <2>2, <5>1 DEF DeleteDraft, Begin
        <5>2. CASE \E d \in Dispatches, x \in Things : AddLine(u, d, x) \/ RemoveLine(u, d, x)
          BY <2>2, <5>2 DEF AddLine, RemoveLine, Begin
        <5>3. CASE \E e \in Equipment, c \in Clients : AssignSerial(u, e, c)
          <6>1. PICK e \in Equipment, c \in Clients : AssignSerial(u, e, c)
            BY <5>3
          <6>2. PICK row : Begin(u, [write |-> "saveSerial", serial |-> e, row |-> row])
            BY <6>1 DEF AssignSerial
          <6> QED BY <2>2, <6>2 DEF Begin
        <5> QED BY <4>3, <5>1, <5>2, <5>3
      <4>4. CASE End(u)
        BY <2>2, <4>4 DEF End, NoRequest
      <4>5. InsertLine(u) \/ DeleteLine(u) \/ SaveDraft(u) \/ DeleteRow(u) \/ SaveSerial(u)
              \/ SaveProduct(u) \/ Rollback(u) => End(u)
        BY DEF InsertLine, DeleteLine, SaveDraft, DeleteRow, SaveSerial, SaveProduct, Rollback
      <4>6. \/ \E d \in Dispatches : DeleteDraft(u, d)
            \/ \E d \in Dispatches, x \in Things : AddLine(u, d, x) \/ RemoveLine(u, d, x)
            \/ \E e \in Equipment, c \in Clients : AssignSerial(u, e, c)
            \/ \E d \in Dispatches, w \in Warehouses, t \in Technicians, clear \in BOOLEAN :
                 UpdateDraft(u, d, w, t, clear)
            \/ ClearLines(u) \/ EmptyDraft(u) \/ End(u)
        BY <2>1, <3>2, <4>5 DEF RequestMoves
      <4> QED BY <4>1, <4>2, <4>3, <4>4, <4>6
    <3> QED BY <3>1, <3>2
  <2> QED BY <1>2, <1>4, <2>2, <2>3 DEF SalesKnow
<1>5. (\E u \in Users : RequestMoves(u)) \/ (UNCHANGED request) \/ UNCHANGED vars
  BY MovesType, MaterialMovesType, DispatchMovesType
     DEF Next, Moves, EquipmentStep, MaterialStep, InFlightInv
<1> QED BY <1>1, <1>3, <1>4, <1>5

LEMMA MaterialNext ==
  ASSUME WholeUnits, MaterialInv, [Next]_vars
  PROVE  IsFiniteSet(HalvesCarried)' /\ MaterialIsConserved'
<1>1. InventoryTypeOK /\ IsFiniteSet(HalvesCarried) /\ MaterialIsConserved
  BY DEF MaterialInv, InFlightInv
<1>2. UNCHANGED <<material, carried, received>> => IsFiniteSet(HalvesCarried)' /\ MaterialIsConserved'
  BY <1>1 DEF HalvesCarried, MaterialIsConserved
<1>3. ASSUME NEW e \in Equipment, EquipmentMoves(e)
      PROVE  UNCHANGED <<material, carried, received>>
  BY <1>1, <1>3, MovesType DEF Moves, EquipmentStep
<1>4. UNCHANGED vars => UNCHANGED <<material, carried, received>>
  BY DEF vars
<1> QED BY <1>1, <1>2, <1>3, <1>4, MaterialMovesConserve, DispatchesConserve, SalesConserve DEF Next

LEMMA MaterialInit == Init => MaterialInv
<1> SUFFICES ASSUME Init PROVE MaterialInv
  OBVIOUS
<1>1. HalvesCarried = {}
  BY DEF Init, HalvesCarried
<1>2. SalesKnow
  BY DEF Init, SalesKnow, NoRequest
<1>3. 2 * 0 + 0 = 0
  OBVIOUS
<1> QED BY <1>1, <1>2, <1>3, InFlightInit, FS_EmptySet DEF MaterialInv, MaterialIsConserved, Init

(* Material is in the warehouse or with a technician, or was consumed, lost or
   sold: dispatches, their rejections, movements and sales lose and make none,
   as long as whole units are moved and no sale is overtaken.              *)
THEOREM MaterialIsSomewhere == ASSUME WholeUnits PROVE ApartSpec => []MaterialIsConserved
<1>1. MaterialInv /\ [Next /\ Undisturbed]_vars => MaterialInv'
  BY InFlightNext, SalesKnowNext, MaterialNext DEF MaterialInv
<1>2. MaterialInv => MaterialIsConserved
  BY DEF MaterialInv
<1> QED BY <1>1, <1>2, MaterialInit, PTL DEF ApartSpec

=============================================================================
