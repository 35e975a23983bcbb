---------------------------- MODULE OnuRegistry ----------------------------
(***************************************************************************)
(* The ONUs of one PON port of an OLT: what the OLT has in its slots, and  *)
(* the rows of net.onus that say who is in which slot.                     *)
(*                                                                         *)
(* Every request reads its row first, then speaks with the OLT under the   *)
(* mutex of the OLT (one action each, whatever it reads and writes in that *)
(* session), and then writes the row.  Requests and scans overlap between  *)
(* those points.  Authorisation and migration also take the lock of the    *)
(* ONU, which is tried and not waited for; deletion, blocking, unblocking, *)
(* linking and the scans take none.                                        *)
(***************************************************************************)
EXTENDS Naturals, FiniteSets

CONSTANTS
  Serials,     \* the ONUs that are plugged to the port
  Rows,        \* identifiers of rows
  Slots,       \* the ids of ONU of the port (1..128 in the code)
  Contracts,
  Workers,     \* requests that are under way at once
  Labels,      \* slots that a careless request has written to the row (dto.onuIndex)
  Asked,       \* pairs <<request, status of the row>> that are made
  Apart,       \* pairs of requests that the office never overlaps
  CarefulApart, \* pairs that only a careful office does not overlap
  Offices,     \* the values of careful that are considered
  NoSerial, NoOnu, NoRow, NoContract, NoSlot

(* AUTHORIZING, OFFLINE and LOS are declared and never written. *)
Statuses == {"UNCONFIGURED", "ACTIVE", "BLOCKED", "ERROR"}

Requests == {"link", "authorize", "block", "unblock", "delete", "migrate"}

ASSUME ConstantsAssumption ==
  /\ IsFiniteSet(Rows) /\ IsFiniteSet(Serials) /\ IsFiniteSet(Workers)
  /\ Cardinality(Rows) > Cardinality(Serials)
  /\ Slots \subseteq Nat \ {0} /\ Labels \subseteq Slots /\ Asked \subseteq Requests \X Statuses
  /\ Apart \cup CarefulApart \subseteq SUBSET (Requests \cup {"scan", "import"})
  /\ Offices \subseteq BOOLEAN

ASSUME NothingAssumption ==
  /\ NoSerial \notin Serials /\ NoRow \notin Rows /\ NoSlot \notin Slots
  /\ NoContract \notin Contracts
  /\ NoOnu \notin [serial : Serials, index : Slots, status : Statuses,
                   contract : Contracts \cup {NoContract}, configured : BOOLEAN]

(* What an office has to keep apart for the rows to tell the truth of the OLT:
   requests for one row, and two migrations that bring the same equipment. *)
Overlapping ==
  {{"import", "delete"}, {"import", "migrate"}, {"block", "unblock"}, {"link", "authorize"}, {"migrate"}}
  \cup {{k, l} : k \in {"authorize", "migrate", "delete"}, l \in {"block", "unblock"}}
  \cup {{"delete", l} : l \in {"authorize", "migrate", "delete"}}

(* The scan comes every quarter of an hour, whatever the office is doing. *)
Scans == {{"scan", "authorize"}, {"scan", "migrate"}}

(* The requests that make sense for what the row says. *)
Sensible ==
  (Requests \X {"ACTIVE", "BLOCKED"})
  \cup {<<"authorize", "UNCONFIGURED">>, <<"authorize", "ERROR">>, <<"migrate", "ERROR">>}

VARIABLES
  slot,     \* the serial that the OLT has registered in a slot
  shut,     \* the slots that are shut down
  onu,      \* net.onus; configured: it has a row in onu_service_config
  job,      \* what each worker is doing
  careful   \* the office keeps the scans apart as well

vars == <<slot, shut, onu, job, careful>>

-----------------------------------------------------------------------------
(* The OLT *)

Registered == {slot[i] : i \in Slots} \ {NoSerial}

Entry == [index : Slots \cup {NoSlot}, status : Statuses]

(* show gpon onu uncfg: the ONUs that answer and have no slot.  The index that
   the OLT proposes for each is chosen when it is used.                    *)
Unconfigured ==
  {[n \in D |-> [index |-> NoSlot, status |-> "UNCONFIGURED"]] : D \in SUBSET (Serials \ Registered)}

Places(entry) == IF entry.index = NoSlot THEN Slots ELSE {entry.index}

(* show gpon onu baseinfo and state. *)
Authorized ==
  [n \in Registered |->
     LET i == CHOOSE i \in Slots : slot[i] = n
     IN  [index |-> i, status |-> IF i \in shut THEN "BLOCKED" ELSE "ACTIVE"]]

Free == {i \in Slots : slot[i] = NoSerial}

(* The lowest of them, when there is one. *)
FirstFree == {i \in Free : \A j \in Free : i <= j}

(* "no onu" *)
Empty(i) == slot' = [slot EXCEPT ![i] = NoSerial] /\ shut' = shut \ {i}

(* "no onu" and "onu ... sn": the slot is emptied before it is taken. *)
Register(i, n) == slot' = [slot EXCEPT ![i] = n] /\ shut' = shut \ {i}

-----------------------------------------------------------------------------
(* Rows *)

Onu == [serial : Serials, index : Slots, status : Statuses,
        contract : Contracts \cup {NoContract},
        configured : BOOLEAN]

Saved == {r \in Rows : onu[r] # NoOnu}

(* UPDATE ... WHERE id = the row of the request, which o is to be: it changes
   nothing when the row has gone.                                          *)
Update(w, o) == onu' = [onu EXCEPT ![job[w].row] = IF @ = NoOnu THEN NoOnu ELSE o]

Mine(w) == onu[job[w].row]

(* delete of the row, and of its configuration in cascade. *)
Forget(R) == onu' = [r \in Rows |-> IF r \in R THEN NoOnu ELSE onu[r]]

NoneFound == [n \in {} |-> NoSlot]

(* What a request or a scan has read, and what it was asked. *)
Idle == [kind |-> "idle", step |-> "idle", row |-> NoRow, serial |-> NoSerial, index |-> NoSlot,
         auto |-> FALSE, contract |-> NoContract, new |-> NoSerial,
         found |-> NoneFound, todo |-> {}, known |-> {}]

Locking == {"authorize", "migrate"}

(* withMutation: refused while another operation holds the lock of the ONU. *)
LockFree(r) == \A w \in Workers : ~(job[w].row = r /\ job[w].kind \in Locking)

(* A scan is of the whole port; the rest is of one row, and a migration of the
   equipment that it brings as well.                                       *)
Touch(j, l) ==
  \/ {j.kind, l.kind} \cap {"scan", "import"} # {}
  \/ j.row = l.row
  \/ j.new = l.new /\ j.new # NoSerial

Clash(j, l) ==
  {j.kind, l.kind} \in Apart \cup (IF careful THEN CarefulApart ELSE {}) /\ Touch(j, l)

Start(w, j) ==
  /\ job[w] = Idle
  /\ j.kind \in Locking => LockFree(j.row)
  /\ j.row # NoRow => <<j.kind, onu[j.row].status>> \in Asked
  /\ \A v \in Workers : ~Clash(j, job[v])
  /\ job' = [job EXCEPT ![w] = j]
  /\ UNCHANGED <<slot, shut, onu, careful>>

(* The first read of a request, from which it goes on at step s. *)
Reading(k, s, r) ==
  [Idle EXCEPT !.kind = k, !.step = s, !.row = r, !.serial = onu[r].serial, !.index = onu[r].index]

At(w, k, s) == job[w].kind = k /\ job[w].step = s

GoTo(w, s) == job' = [job EXCEPT ![w].step = s]
Done(w) == job' = [job EXCEPT ![w] = Idle]

-----------------------------------------------------------------------------
(* scanUnconfiguredOnus and scanAuthorizedOnus: one reading of the OLT, and
   then one serial after the other.                                        *)

StartScan(w, k, found) ==
  Start(w, [Idle EXCEPT !.kind = k, !.step = "find", !.found = found, !.todo = DOMAIN found])

Scan(w) == \E found \in Unconfigured : StartScan(w, "scan", found)

Import(w) == StartScan(w, "import", Authorized)

Scanning(w, s) == job[w].kind \in {"scan", "import"} /\ job[w].step = s

Found(w) == job' = [job EXCEPT ![w].step = "find", ![w].serial = NoSerial, ![w].known = {}]

RowsOf(n) == {r \in Saved : onu[r].serial = n}

ScanFind(w) ==
  /\ Scanning(w, "find")
  /\ \E n \in job[w].todo :
       job' = [job EXCEPT ![w].step = "save", ![w].todo = @ \ {n},
                          ![w].serial = n, ![w].known = RowsOf(n)]
  /\ UNCHANGED <<slot, shut, onu, careful>>

(* Mutant: it writes the status of what it shows, too. *)
RelocatedWhole(r, i) == [onu[r] EXCEPT !.index = i, !.status = "UNCONFIGURED"]

(* A known row keeps everything but its place: an UPDATE of those columns. *)
Relocated(r, i) == [onu[r] EXCEPT !.index = i]

(* An import never touches a row that exists. *)
ScanKnown(w) ==
  /\ Scanning(w, "save") /\ job[w].known # {}
  /\ IF job[w].kind = "import" THEN UNCHANGED onu
     ELSE \E i \in Places(job[w].found[job[w].serial]) :
            onu' = [r \in Rows |-> IF r \in job[w].known \cap Saved THEN Relocated(r, i) ELSE onu[r]]
  /\ Found(w)
  /\ UNCHANGED <<slot, shut, careful>>

New(n, entry) ==
  [serial : {n}, index : Places(entry), status : {entry.status},
   contract : {NoContract}, configured : {FALSE}]

(* An identifier is never used twice. *)
Unused == {r \in Rows \ Saved : \A w \in Workers :
             /\ job[w].row # r
             /\ job[w].kind \in {"scan", "import"} => r \notin job[w].known}

(* An unknown serial gets a row.  When another scan has inserted it meanwhile,
   the unique key ends this scan.                                          *)
ScanNew(w) ==
  LET n == job[w].serial
  IN  /\ Scanning(w, "save") /\ job[w].known = {}
      /\ \/ /\ RowsOf(n) = {}
            /\ \E r \in Unused, o \in New(n, job[w].found[n]) : onu' = [onu EXCEPT ![r] = o]
            /\ Found(w)
         \/ RowsOf(n) # {} /\ Done(w) /\ UNCHANGED onu
      /\ UNCHANGED <<slot, shut, careful>>

(* The rows that wait for an authorisation and that the OLT no longer shows. *)
Stale(found) ==
  {r \in Saved : onu[r].status = "UNCONFIGURED" /\ onu[r].serial \notin DOMAIN found}

ScanEnd(w) ==
  /\ Scanning(w, "find") /\ job[w].todo = {}
  /\ IF job[w].kind = "scan" /\ Stale(job[w].found) # {}
     THEN job' = [job EXCEPT ![w].step = "remove", ![w].known = Stale(job[w].found)]
     ELSE Done(w)
  /\ UNCHANGED <<slot, shut, onu, careful>>

(* They are removed by id, whatever they have become. *)
ScanRemove(w) ==
  /\ Scanning(w, "remove")
  /\ Forget(job[w].known) /\ Done(w)
  /\ UNCHANGED <<slot, shut, careful>>

-----------------------------------------------------------------------------
(* linkOnuToContract *)

(* Bound: contracts are told apart only where a property speaks of them. *)
Customers == IF careful THEN Contracts ELSE {}

Link(w) == \E r \in Saved, c \in Customers :
  /\ onu[r].status = "ACTIVE" /\ onu[r].contract = NoContract
  /\ Start(w, [Reading("link", "row", r) EXCEPT !.contract = c])

LinkRow(w) ==
  /\ At(w, "link", "row")
  /\ Update(w, [Mine(w) EXCEPT !.contract = job[w].contract])
  /\ Done(w) /\ UNCHANGED <<slot, shut, careful>>

-----------------------------------------------------------------------------
(* authorizeOnu *)

(* Only an ONU that was never authorised may be given another id than asked. *)
AutoAllocates(o, want) == want = NoSlot /\ o.status = "UNCONFIGURED"

(* Mutant: only what the operator names. *)
SubscriberNamed(o, c) == c

(* dto.contractId || onu.contractId *)
Subscriber(o, c) == IF c = NoContract THEN o.contract ELSE c

(* The operator may name the id of the ONU and the contract. *)
Authorize(w) == \E r \in Saved, i \in Slots \cup {NoSlot}, c \in Customers \cup {NoContract} :
  Start(w, [Reading("authorize", "olt", r) EXCEPT
              !.index = IF i = NoSlot THEN @ ELSE i,
              !.auto = AutoAllocates(onu[r], i), !.contract = Subscriber(onu[r], c)])

(* Mutant: the driver does not look who is in the slot. *)
TakesAnyway(j) == {j.index}

(* The slots that the driver may empty and take for this ONU. *)
Takes(j) ==
  IF slot[j.index] \in {NoSerial, j.serial} THEN {j.index}
  ELSE IF j.auto THEN FirstFree ELSE {}

(* The OLT registers a serial once. *)
Elsewhere(i, n) == n \in Registered /\ slot[i] # n

(* Mutant: the id that the driver has assigned is not taken over. *)
AuthorizeOltAsked(w) ==
  LET j == job[w]
  IN  /\ At(w, "authorize", "olt")
      /\ \E i \in Takes(j) : ~Elsewhere(i, j.serial) /\ Register(i, j.serial)
      /\ GoTo(w, "config")
      /\ UNCHANGED <<onu, careful>>

AuthorizeOlt(w) ==
  LET j == job[w]
  IN  /\ At(w, "authorize", "olt")
      /\ \E i \in Takes(j) :
           /\ ~Elsewhere(i, j.serial)
           /\ Register(i, j.serial)
           /\ job' = [job EXCEPT ![w].step = "config", ![w].index = i]
      /\ UNCHANGED <<onu, careful>>

(* The script is refused before it has changed the slot: the row stays as it is. *)
AuthorizeFails(w) ==
  /\ At(w, "authorize", "olt")
  /\ Done(w) /\ UNCHANGED <<slot, shut, onu, careful>>

(* It is refused after "no onu", or after "onu ... sn", and the row stays too. *)
AuthorizeHalf(w) ==
  LET j == job[w]
  IN  /\ At(w, "authorize", "olt")
      /\ \E i \in Takes(j) : Empty(i) \/ (~Elsewhere(i, j.serial) /\ Register(i, j.serial))
      /\ Done(w) /\ UNCHANGED <<onu, careful>>

(* The OLT does not show the slot in a form that is known: the driver warns that
   "no onu" may erase another ONU, and goes on.                            *)
AuthorizeBlind(w) ==
  /\ At(w, "authorize", "olt")
  /\ ~Elsewhere(job[w].index, job[w].serial)
  /\ Register(job[w].index, job[w].serial)
  /\ GoTo(w, "config") /\ UNCHANGED <<onu, careful>>

(* The foreign key refuses the configuration of a row that has gone. *)
AuthorizeConfig(w) ==
  /\ At(w, "authorize", "config")
  /\ IF onu[job[w].row] = NoOnu THEN Done(w)
     ELSE GoTo(w, "row")
  /\ Update(w, [Mine(w) EXCEPT !.configured = TRUE])
  /\ UNCHANGED <<slot, shut, careful>>

(* The row takes the id that the OLT has been given, or what dto.onuIndex says,
   which goes to the row only.                                             *)
AuthorizeRow(w) ==
  /\ At(w, "authorize", "row")
  /\ \E i \in {job[w].index} \cup (IF careful THEN {} ELSE Labels) :
       Update(w, [Mine(w) EXCEPT !.status = "ACTIVE", !.contract = job[w].contract, !.index = i])
  /\ Done(w) /\ UNCHANGED <<slot, shut, careful>>

-----------------------------------------------------------------------------
(* blockOnu, unblockOnu *)

Switch(w) == \E r \in Saved, k \in {"block", "unblock"} : Start(w, Reading(k, "olt", r))

(* "shutdown" of an empty slot changes nothing, and its answer is not read. *)
SwitchOlt(w) ==
  LET i == job[w].index
  IN  /\ job[w].kind \in {"block", "unblock"} /\ job[w].step = "olt"
      /\ shut' = IF job[w].kind = "block" /\ slot[i] # NoSerial THEN shut \cup {i} ELSE shut \ {i}
      /\ GoTo(w, "row")
      /\ UNCHANGED <<slot, onu, careful>>

SwitchRow(w) ==
  /\ job[w].kind \in {"block", "unblock"} /\ job[w].step = "row"
  /\ Update(w, [Mine(w) EXCEPT !.status = IF job[w].kind = "block" THEN "BLOCKED" ELSE "ACTIVE"])
  /\ Done(w) /\ UNCHANGED <<slot, shut, careful>>

-----------------------------------------------------------------------------
(* deleteOnu: the slot of the row is emptied, whoever is in it. *)

Delete(w) == \E r \in Saved : Start(w, Reading("delete", "olt", r))

DeleteOlt(w) ==
  /\ At(w, "delete", "olt")
  /\ Empty(job[w].index) /\ GoTo(w, "row")
  /\ UNCHANGED <<onu, careful>>

DeleteRow(w) ==
  /\ At(w, "delete", "row")
  /\ Forget({job[w].row}) /\ Done(w)
  /\ UNCHANGED <<slot, shut, careful>>

-----------------------------------------------------------------------------
(* migrateOnu: another equipment takes the place of this one. *)

Migrate(w) == \E r \in Saved, n \in Serials :
  /\ onu[r].status # "UNCONFIGURED" /\ onu[r].configured
  /\ n # onu[r].serial /\ RowsOf(n) = {}
  /\ Start(w, [Reading("migrate", "olt", r) EXCEPT !.new = n])

(* The slot has to show the old serial before it is emptied; then the new one
   is authorised in it, or is not.                                         *)
MigrateOlt(w) ==
  LET i == job[w].index
  IN  /\ At(w, "migrate", "olt")
      /\ slot[i] = job[w].serial
      /\ \/ /\ ~Elsewhere(i, job[w].new)
            /\ Register(i, job[w].new) /\ GoTo(w, "row")
         \/ Empty(i) /\ GoTo(w, "failed")
      /\ UNCHANGED <<onu, careful>>

MigrateFailed(w) ==
  /\ At(w, "migrate", "failed")
  /\ Update(w, [Mine(w) EXCEPT !.status = "ERROR"])
  /\ Done(w) /\ UNCHANGED <<slot, shut, careful>>

(* Mutant: the status is left as it was. *)
MigrateRowKeeping(w) ==
  /\ At(w, "migrate", "row")
  /\ IF RowsOf(job[w].new) = {} THEN Update(w, [Mine(w) EXCEPT !.serial = job[w].new])
     ELSE UNCHANGED onu
  /\ Done(w) /\ UNCHANGED <<slot, shut, careful>>

(* The unique key refuses the serial when a scan has inserted it meanwhile. *)
MigrateRow(w) ==
  /\ At(w, "migrate", "row")
  /\ IF RowsOf(job[w].new) = {}
     THEN Update(w, [Mine(w) EXCEPT !.serial = job[w].new, !.status = "ACTIVE"])
     ELSE UNCHANGED onu
  /\ Done(w) /\ UNCHANGED <<slot, shut, careful>>

-----------------------------------------------------------------------------
(* The OLT cannot be reached, or does not show who is in the slot: the request
   ends having written nothing.                                            *)
Refuse(w) ==
  /\ job[w].kind \in {"block", "unblock", "delete", "migrate"} /\ job[w].step = "olt"
  /\ Done(w) /\ UNCHANGED <<slot, shut, onu, careful>>

(* The process ends with all that it was doing; the locks go with it. *)
Crash ==
  /\ job' = [w \in Workers |-> Idle]
  /\ UNCHANGED <<slot, shut, onu, careful>>

(* The OLT comes with the ONUs that another system has registered. *)
Init ==
  /\ slot \in {f \in [Slots -> Serials \cup {NoSerial}] :
                 \A i, j \in Slots : f[i] = f[j] /\ f[i] # NoSerial => i = j}
  /\ shut \in SUBSET {i \in Slots : slot[i] # NoSerial}
  /\ onu = [r \in Rows |-> NoOnu]
  /\ job = [w \in Workers |-> Idle]
  /\ careful \in Offices

ScanStep(w) == ScanFind(w) \/ ScanKnown(w) \/ ScanNew(w) \/ ScanEnd(w) \/ ScanRemove(w)

AuthorizeStep(w) ==
  AuthorizeOlt(w) \/ AuthorizeFails(w) \/ AuthorizeConfig(w) \/ AuthorizeRow(w)

Next ==
  \E w \in Workers :
    \/ Scan(w) \/ Import(w) \/ ScanStep(w)
    \/ Link(w) \/ LinkRow(w)
    \/ Authorize(w) \/ AuthorizeStep(w)
    \/ Switch(w) \/ SwitchOlt(w) \/ SwitchRow(w)
    \/ Delete(w) \/ DeleteOlt(w) \/ DeleteRow(w)
    \/ Migrate(w) \/ MigrateOlt(w) \/ MigrateFailed(w) \/ MigrateRow(w)
    \/ Refuse(w)

Spec == Init /\ [][Next]_vars

(* What the code has no answer to. *)
Fault == Crash \/ \E w \in Workers : AuthorizeHalf(w) \/ AuthorizeBlind(w)

FaultySpec == Init /\ [][Next \/ Fault]_vars

-----------------------------------------------------------------------------
(* Properties *)

Steps(k) ==
  CASE k \in {"scan", "import"} -> {"find", "save", "remove"}
    [] k = "link" -> {"row"}
    [] k = "authorize" -> {"olt", "config", "row"}
    [] k \in {"block", "unblock", "delete"} -> {"olt", "row"}
    [] k = "migrate" -> {"olt", "row", "failed"}
    [] k = "idle" -> {"idle"}

Job ==
  [kind : Requests \cup {"scan", "import", "idle"},
   step : {"idle", "find", "save", "remove", "olt", "config", "row", "failed"},
   row : Rows \cup {NoRow}, serial : Serials \cup {NoSerial}, index : Slots \cup {NoSlot},
   auto : BOOLEAN, contract : Contracts \cup {NoContract}, new : Serials \cup {NoSerial},
   found : UNION {[D -> Entry] : D \in SUBSET Serials}, todo : SUBSET Serials, known : SUBSET Rows]

(* What a job of this kind has read, at this step. *)
Shaped(j) ==
  /\ j.step \in Steps(j.kind)
  /\ j.kind \in Requests => j.row \in Rows /\ j.serial \in Serials /\ j.index \in Slots
  /\ j.kind \in {"scan", "import", "idle"} => j.row = NoRow
  /\ j.kind = "link" => j.contract # NoContract
  /\ j.new # NoSerial <=> j.kind = "migrate"
  /\ j.todo \subseteq DOMAIN j.found
  /\ j.step = "save" => j.serial \in DOMAIN j.found

(* Types, one slot per registered serial and one row per serial (the unique
   key of migration 065), whatever overlaps and fails.                     *)
OnuTypeOK ==
  /\ slot \in [Slots -> Serials \cup {NoSerial}]
  /\ shut \subseteq {i \in Slots : slot[i] # NoSerial}
  /\ onu \in [Rows -> Onu \cup {NoOnu}]
  /\ job \in [Workers -> Job] /\ careful \in BOOLEAN
  /\ \A w \in Workers : Shaped(job[w])
  /\ \A i, j \in Slots : slot[i] = slot[j] /\ slot[i] # NoSerial => i = j
  /\ \A r, q \in Saved : onu[r].serial = onu[q].serial => r = q

(* No request is at work on the row. *)
Quiet(r) == \A w \in Workers : job[w].row # r

InService(r) == r \in Saved /\ onu[r].status \in {"ACTIVE", "BLOCKED"} /\ Quiet(r)

(* When the office is careful, the row of an ONU in service names the slot in
   which the OLT has it: authorisation with and without the id that was asked
   for, migration, import and deletion, with scans between their steps.    *)
LocationIsTrue ==
  careful => \A r \in Rows : InService(r) => slot[onu[r].index] = onu[r].serial

(* ... and it is BLOCKED exactly when that slot is shut down (blockOnu and
   unblockOnu, which the suspension of a contract calls as well).          *)
BlockedIsShut ==
  careful => \A r \in Rows :
    InService(r) => (onu[r].status = "BLOCKED" <=> onu[r].index \in shut)

(* authorizeOnu and migrateOnu never take the slot of an ONU other than the
   one they are about, whatever overlaps them and however old is what they
   have read; deleteOnu, which does not look, does not when the office is
   careful.                                                                *)
OthersAreSpared ==
  [][\A i \in Slots : slot[i] # NoSerial /\ slot'[i] # slot[i] =>
       \E w \in Workers :
         /\ job[w].kind \in {"authorize", "migrate", "delete"} /\ job'[w] # job[w]
         /\ slot[i] = job[w].serial \/ (job[w].kind = "delete" /\ ~careful)]_vars

(* A row that has been authorised is never UNCONFIGURED again: a scan that read
   it before does not write back what it read (the defect of 2026-10-17 that
   scanUnconfiguredOnus tells of), though authorisations overlap it.       *)
AuthorizedForGood ==
  [][\A r \in Saved : onu[r].status # "UNCONFIGURED" /\ onu'[r] # NoOnu =>
       onu'[r].status # "UNCONFIGURED"]_vars

(* When the office is careful, an ONU keeps its contract through every
   authorisation, migration, block and scan that does not name another.    *)
SubscriberIsKept ==
  [][careful => \A r \in Saved : onu[r].contract # NoContract /\ onu'[r] # NoOnu =>
       onu'[r].contract # NoContract]_vars

(* Only deleteOnu removes the row of an ONU that has been authorised (the
   comment of scanUnconfiguredOnus, lines 459 to 466).  Violated: the rows to
   be removed are read first, and removed by id.                           *)
OnlyDeletionForgets ==
  [][\A r \in Saved : onu[r].status # "UNCONFIGURED" /\ onu'[r] = NoOnu =>
       \E w \in Workers : job[w].kind = "delete" /\ job[w].row = r]_vars

=============================================================================
