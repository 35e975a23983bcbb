------------------------- MODULE OnuRegistry_proofs -------------------------
(***************************************************************************)
(* Proofs about OnuRegistry, for any number of ONUs, rows, slots and       *)
(* requests under way.                                                     *)
(*                                                                         *)
(* All of it holds in every office, careful or not: the types, that an     *)
(* authorisation is never taken back, also with the faults, and that the   *)
(* slot of another ONU is taken by no authorisation and no migration.      *)
(***************************************************************************)
EXTENDS OnuRegistry, TLAPS

-----------------------------------------------------------------------------
(* What is read *)

Founds == UNION {[D -> Entry] : D \in SUBSET Serials}

LEMMA OnuFields ==
  ASSUME NEW o \in Onu
  PROVE  /\ o.serial \in Serials /\ o.index \in Slots /\ o.status \in Statuses
         /\ o.contract \in Contracts \cup {NoContract} /\ o.configured \in BOOLEAN
         /\ o # NoOnu
BY NothingAssumption DEF Onu

LEMMA FoundEntry ==
  ASSUME NEW found \in Founds, NEW n \in DOMAIN found
  PROVE  n \in Serials /\ found[n] \in Entry
BY DEF Founds

LEMMA IdleType == Idle \in Job /\ Shaped(Idle)
<1>1. NoneFound \in [{} -> Entry] /\ DOMAIN NoneFound = {}
  BY DEF NoneFound
<1>2. NoneFound \in UNION {[D -> Entry] : D \in SUBSET Serials}
  BY <1>1
<1> QED BY <1>1, <1>2 DEF Idle, Job, Shaped, Steps, Requests

LEMMA UnconfiguredType ==
  ASSUME OnuTypeOK
  PROVE  Unconfigured \subseteq Founds
<1> SUFFICES ASSUME NEW D \in SUBSET (Serials \ Registered)
             PROVE  [n \in D |-> [index |-> NoSlot, status |-> "UNCONFIGURED"]] \in Founds
  BY DEF Unconfigured
<1>1. [n \in D |-> [index |-> NoSlot, status |-> "UNCONFIGURED"]] \in [D -> Entry]
  BY DEF Entry, Statuses
<1> QED BY <1>1 DEF Founds

LEMMA AuthorizedType ==
  ASSUME OnuTypeOK
  PROVE  /\ Authorized \in Founds /\ DOMAIN Authorized = Registered
         /\ \A n \in Registered :
              /\ Authorized[n].index \in Slots /\ slot[Authorized[n].index] = n
              /\ Authorized[n].status \in {"ACTIVE", "BLOCKED"}
              /\ Authorized[n].status = "BLOCKED" <=> Authorized[n].index \in shut
<1> DEFINE Place(n) == CHOOSE i \in Slots : slot[i] = n
<1>1. \A n \in Registered : Place(n) \in Slots /\ slot[Place(n)] = n
  BY DEF Registered
<1>2. Registered \in SUBSET Serials
  BY DEF OnuTypeOK, Registered
<1>3. Authorized = [n \in Registered |->
        [index |-> Place(n), status |-> IF Place(n) \in shut THEN "BLOCKED" ELSE "ACTIVE"]]
  BY DEF Authorized
<1> HIDE DEF Place
<1>4. Authorized \in [Registered -> Entry]
  BY <1>1, <1>3 DEF Entry, Statuses
<1>5. Authorized \in Founds
  BY <1>2, <1>4 DEF Founds
<1> QED BY <1>1, <1>3, <1>5

IsReading(j, k, s, r) ==
  /\ j \in Job /\ j.kind = k /\ j.step = s /\ j.row = r
  /\ j.serial = onu[r].serial /\ j.index = onu[r].index
  /\ j.new = NoSerial /\ j.todo = {}
  /\ r \in Rows /\ onu[r] \in Onu

LEMMA ReadingType ==
  ASSUME OnuTypeOK, NEW k \in Requests, NEW s \in {"olt", "row"}, NEW r \in Saved
  PROVE  IsReading(Reading(k, s, r), k, s, r)
<1>1. onu[r] \in Onu /\ r \in Rows
  BY DEF OnuTypeOK, Saved
<1>2. NoneFound \in UNION {[D -> Entry] : D \in SUBSET Serials}
  BY IdleType DEF Job, Idle
<1> QED BY <1>1, <1>2, OnuFields DEF IsReading, Reading, Idle, Job

-----------------------------------------------------------------------------
(* What a worker does next *)

JobsOK == job \in [Workers -> Job] /\ \A w \in Workers : Shaped(job[w])

(* The other workers go on with what they were doing. *)
Others(w) == \A v \in Workers : v # w => job'[v] = job[v]

LEMMA JobPut ==
  ASSUME JobsOK, NEW w \in Workers, NEW j \in Job, Shaped(j), job' = [job EXCEPT ![w] = j]
  PROVE  JobsOK' /\ job'[w] = j /\ Others(w)
BY DEF JobsOK, Others

LEMMA DoneType ==
  ASSUME JobsOK, NEW w \in Workers, Done(w)
  PROVE  JobsOK' /\ job'[w] = Idle /\ Others(w)
BY IdleType, JobPut DEF Done

(* All but the step stays. *)
SameRequest(j, l) ==
  /\ j.kind = l.kind /\ j.row = l.row /\ j.serial = l.serial /\ j.auto = l.auto
  /\ j.contract = l.contract /\ j.new = l.new
  /\ j.found = l.found /\ j.todo = l.todo /\ j.known = l.known

LEMMA GoToType ==
  ASSUME JobsOK, NEW w \in Workers, NEW s \in Steps(job[w].kind), s # "save",
         job[w].kind \in Requests, GoTo(w, s)
  PROVE  /\ JobsOK' /\ Others(w) /\ job'[w].step = s
         /\ SameRequest(job'[w], job[w]) /\ job'[w].index = job[w].index
<1>1. job[w] \in Job /\ Shaped(job[w])
  BY DEF JobsOK
<1> DEFINE j == [job[w] EXCEPT !.step = s]
<1>2. job' = [job EXCEPT ![w] = j]
  BY DEF GoTo, JobsOK
<1>3. s \in {"idle", "find", "save", "remove", "olt", "config", "row", "failed"}
  BY DEF Steps, Requests
<1>4. j \in Job /\ j.step = s /\ SameRequest(j, job[w]) /\ j.index = job[w].index
  BY <1>1, <1>3 DEF Job, SameRequest
<1> HIDE DEF j
<1>5. Shaped(j)
  BY <1>1, <1>4 DEF Shaped, SameRequest
<1> QED BY <1>2, <1>4, <1>5, JobPut

LEMMA AuthorizeOltJob ==
  ASSUME JobsOK, NEW w \in Workers, NEW i \in Slots, At(w, "authorize", "olt"),
         job' = [job EXCEPT ![w].step = "config", ![w].index = i]
  PROVE  /\ JobsOK' /\ Others(w) /\ job'[w].step = "config"
         /\ SameRequest(job'[w], job[w]) /\ job'[w].index = i
<1>1. job[w] \in Job /\ Shaped(job[w])
  BY DEF JobsOK
<1> DEFINE j == [job[w] EXCEPT !.step = "config", !.index = i]
<1>2. job' = [job EXCEPT ![w] = j]
  BY DEF JobsOK
<1>3. j \in Job /\ j.step = "config" /\ SameRequest(j, job[w]) /\ j.index = i
  BY <1>1 DEF Job, SameRequest
<1> HIDE DEF j
<1>4. Shaped(j)
  BY <1>1, <1>3 DEF Shaped, SameRequest, At, Steps, Requests
<1> QED BY <1>2, <1>3, <1>4, JobPut

(* The same scan, at another serial. *)
SameScan(j, l) == j.kind = l.kind /\ j.row = l.row /\ j.found = l.found /\ j.new = l.new

LEMMA FoundJob ==
  ASSUME JobsOK, NEW w \in Workers, Scanning(w, "save"), Found(w)
  PROVE  /\ JobsOK' /\ Others(w) /\ job'[w].step = "find"
         /\ SameScan(job'[w], job[w]) /\ job'[w].known = {}
<1>1. job[w] \in Job /\ Shaped(job[w])
  BY DEF JobsOK
<1> DEFINE j == [job[w] EXCEPT !.step = "find", !.serial = NoSerial, !.known = {}]
<1>2. job' = [job EXCEPT ![w] = j]
  BY DEF JobsOK, Found
<1>3. j \in Job /\ j.step = "find" /\ SameScan(j, job[w]) /\ j.known = {} /\ j.todo = job[w].todo
  BY <1>1 DEF Job, SameScan
<1> HIDE DEF j
<1>4. Shaped(j)
  BY <1>1, <1>3 DEF Shaped, SameScan, Scanning, Steps, Requests
<1> QED BY <1>2, <1>3, <1>4, JobPut

LEMMA ScanFindJob ==
  ASSUME JobsOK, NEW w \in Workers, ScanFind(w)
  PROVE  /\ JobsOK' /\ Others(w) /\ job'[w].step = "save"
         /\ SameScan(job'[w], job[w])
         /\ job'[w].serial \in DOMAIN job[w].found
         /\ job'[w].known = RowsOf(job'[w].serial)
<1>1. job[w] \in Job /\ Shaped(job[w]) /\ Scanning(w, "find")
  BY DEF JobsOK, ScanFind
<1>2. PICK n \in job[w].todo :
        job' = [job EXCEPT ![w].step = "save", ![w].todo = @ \ {n},
                           ![w].serial = n, ![w].known = RowsOf(n)]
  BY DEF ScanFind
<1> DEFINE j == [job[w] EXCEPT !.step = "save", !.todo = @ \ {n}, !.serial = n, !.known = RowsOf(n)]
<1>3. job' = [job EXCEPT ![w] = j]
  BY <1>2 DEF JobsOK
<1>4. n \in Serials /\ RowsOf(n) \subseteq Rows
  BY <1>1 DEF Job, RowsOf, Saved
<1>5. /\ j \in Job /\ j.step = "save" /\ SameScan(j, job[w]) /\ j.serial = n
      /\ j.known = RowsOf(n) /\ j.todo = job[w].todo \ {n}
  BY <1>1, <1>4 DEF Job, SameScan
<1> HIDE DEF j
<1>6. n \in DOMAIN job[w].found
  BY <1>1 DEF Shaped
<1>7. Shaped(j)
  BY <1>1, <1>5, <1>6 DEF Shaped, SameScan, Scanning, Steps, Requests
<1> QED BY <1>3, <1>5, <1>6, <1>7, JobPut

LEMMA ScanEndJob ==
  ASSUME JobsOK, NEW w \in Workers, ScanEnd(w)
  PROVE  /\ JobsOK' /\ Others(w)
         /\ \/ job'[w] = Idle
            \/ /\ job[w].kind = "scan" /\ job'[w].step = "remove"
               /\ SameScan(job'[w], job[w]) /\ job'[w].known = Stale(job[w].found)
<1>1. job[w] \in Job /\ Shaped(job[w]) /\ Scanning(w, "find")
  BY DEF JobsOK, ScanEnd
<1>2. CASE job[w].kind = "scan" /\ Stale(job[w].found) # {}
  <2> DEFINE j == [job[w] EXCEPT !.step = "remove", !.known = Stale(job[w].found)]
  <2>1. job' = [job EXCEPT ![w] = j]
    BY <1>2 DEF JobsOK, ScanEnd
  <2>2. Stale(job[w].found) \subseteq Rows
    BY DEF Stale, Saved
  <2>3. /\ j \in Job /\ j.step = "remove" /\ SameScan(j, job[w]) /\ j.todo = job[w].todo
        /\ j.known = Stale(job[w].found)
    BY <1>1, <2>2 DEF Job, SameScan
  <2> HIDE DEF j
  <2>4. Shaped(j)
    BY <1>1, <1>2, <2>3 DEF Shaped, SameScan, Steps, Requests
  <2> QED BY <1>2, <2>1, <2>3, <2>4, JobPut
<1>3. CASE ~(job[w].kind = "scan" /\ Stale(job[w].found) # {})
  BY <1>3, DoneType DEF ScanEnd
<1> QED BY <1>2, <1>3

LEMMA StartJob ==
  ASSUME JobsOK, NEW w \in Workers, NEW j \in Job, Shaped(j), Start(w, j)
  PROVE  JobsOK' /\ Others(w) /\ job'[w] = j /\ job[w] = Idle /\ UNCHANGED <<slot, shut, onu, careful>>
BY JobPut DEF Start

LEMMA ScanStarts ==
  ASSUME JobsOK, NEW w \in Workers, NEW k \in {"scan", "import"}, NEW found \in Founds,
         StartScan(w, k, found)
  PROVE  /\ JobsOK' /\ Others(w) /\ job[w] = Idle /\ UNCHANGED <<slot, shut, onu, careful>>
         /\ job'[w].kind = k /\ job'[w].step = "find" /\ job'[w].row = NoRow
         /\ job'[w].new = NoSerial /\ job'[w].found = found /\ job'[w].known = {}
         /\ Start(w, job'[w])
<1> DEFINE j == [Idle EXCEPT !.kind = k, !.step = "find", !.found = found, !.todo = DOMAIN found]
<1>1. Start(w, j)
  BY DEF StartScan
<1>2. /\ j.kind = k /\ j.step = "find" /\ j.row = NoRow /\ j.new = NoSerial
      /\ j.found = found /\ j.todo = DOMAIN found /\ j.known = {}
  BY DEF Idle
<1>3. DOMAIN found \subseteq Serials
  BY DEF Founds
<1>4. found \in UNION {[D -> Entry] : D \in SUBSET Serials}
  BY DEF Founds
<1>5. j \in Job
  BY <1>3, <1>4 DEF Idle, Job
<1> HIDE DEF j
<1>6. Shaped(j)
  BY <1>2 DEF Shaped, Steps, Requests
<1> QED BY <1>1, <1>2, <1>5, <1>6, StartJob

(* What every request has read of its row when it goes on. *)
HasRead(w, k, s, r) ==
  /\ JobsOK' /\ Others(w) /\ job[w] = Idle /\ UNCHANGED <<slot, shut, onu, careful>>
  /\ job'[w].kind = k /\ job'[w].step = s /\ job'[w].row = r
  /\ job'[w].serial = onu[r].serial

LEMMA LinkStarts ==
  ASSUME OnuTypeOK, NEW w \in Workers, Link(w)
  PROVE  \E r \in Saved : /\ HasRead(w, "link", "row", r) /\ job'[w].new = NoSerial
                          /\ job'[w].contract \in Contracts
                          /\ Start(w, job'[w])
<1>1. PICK r \in Saved, c \in Contracts : Start(w, [Reading("link", "row", r) EXCEPT !.contract = c])
  BY DEF Link, Customers
<1> DEFINE q == Reading("link", "row", r)
           j == [q EXCEPT !.contract = c]
<1>2. "link" \in Requests /\ JobsOK
  BY DEF Requests, OnuTypeOK, JobsOK
<1>a. IsReading(q, "link", "row", r)
  BY <1>2, ReadingType
<1> HIDE DEF q
<1>3. /\ j \in Job /\ j.kind = "link" /\ j.step = "row" /\ j.row = r /\ j.serial = onu[r].serial
      /\ j.index = onu[r].index /\ j.new = NoSerial /\ j.contract = c /\ j.todo = {}
  BY <1>a DEF IsReading, Job
<1> HIDE DEF j
<1>4. Shaped(j)
  BY <1>a, <1>3, OnuFields, NothingAssumption DEF IsReading, Shaped, Steps, Requests
<1>5. Start(w, j)
  BY <1>1 DEF j, q
<1>6. JobsOK' /\ Others(w) /\ job'[w] = j /\ job[w] = Idle /\ UNCHANGED <<slot, shut, onu, careful>>
  BY <1>2, <1>3, <1>4, <1>5, StartJob
<1> QED BY <1>3, <1>5, <1>6 DEF HasRead

LEMMA AuthorizeStarts ==
  ASSUME OnuTypeOK, NEW w \in Workers, Authorize(w)
  PROVE  \E r \in Saved : /\ HasRead(w, "authorize", "olt", r) /\ job'[w].new = NoSerial
                          /\ onu[r].contract # NoContract => job'[w].contract # NoContract
                          /\ Start(w, job'[w])
<1>1. PICK r \in Saved, i \in Slots \cup {NoSlot}, c \in Contracts \cup {NoContract} :
        Start(w, [Reading("authorize", "olt", r) EXCEPT
                    !.index = IF i = NoSlot THEN @ ELSE i,
                    !.auto = AutoAllocates(onu[r], i), !.contract = Subscriber(onu[r], c)])
  BY DEF Authorize, Customers
<1> DEFINE q == Reading("authorize", "olt", r)
           x == IF i = NoSlot THEN q.index ELSE i
           a == AutoAllocates(onu[r], i)
           s == Subscriber(onu[r], c)
           j == [q EXCEPT !.index = x, !.auto = a, !.contract = s]
<1>2. "authorize" \in Requests /\ JobsOK
  BY DEF Requests, OnuTypeOK, JobsOK
<1>3. IsReading(q, "authorize", "olt", r)
  BY <1>2, ReadingType
<1>6. Start(w, j)
  BY <1>1
<1> HIDE DEF q
<1>4. x \in Slots /\ a \in BOOLEAN /\ s \in Contracts \cup {NoContract}
      /\ (onu[r].contract # NoContract => s # NoContract)
  BY <1>3, OnuFields DEF IsReading, AutoAllocates, Subscriber
<1>5. /\ j \in Job /\ j.kind = "authorize" /\ j.step = "olt" /\ j.row = r /\ j.serial = onu[r].serial
      /\ j.index \in Slots /\ j.new = NoSerial /\ j.contract = s /\ j.todo = {}
  <2> HIDE DEF x, a, s
  <2> QED BY <1>3, <1>4 DEF IsReading, Job
<1> HIDE DEF j
<1>7. Shaped(j)
  BY <1>3, <1>5, OnuFields, NothingAssumption DEF IsReading, Shaped, Steps, Requests
<1>8. JobsOK' /\ Others(w) /\ job'[w] = j /\ job[w] = Idle /\ UNCHANGED <<slot, shut, onu, careful>>
  BY <1>2, <1>5, <1>6, <1>7, StartJob
<1> QED BY <1>4, <1>5, <1>6, <1>8 DEF HasRead

LEMMA PlainStart ==
  ASSUME OnuTypeOK, NEW w \in Workers, NEW k \in {"block", "unblock", "delete"}, NEW r \in Saved,
         Start(w, Reading(k, "olt", r))
  PROVE  /\ HasRead(w, k, "olt", r) /\ job'[w].new = NoSerial /\ job'[w].index = onu[r].index
         /\ Start(w, job'[w])
<1> DEFINE j == Reading(k, "olt", r)
<1>1. k \in Requests /\ JobsOK
  BY DEF Requests, OnuTypeOK, JobsOK
<1>2. IsReading(j, k, "olt", r)
  BY <1>1, ReadingType
<1>3. Start(w, j)
  OBVIOUS
<1> HIDE DEF j
<1>4. Shaped(j)
  BY <1>2, OnuFields, NothingAssumption DEF IsReading, Shaped, Steps, Requests
<1>5. JobsOK' /\ Others(w) /\ job'[w] = j /\ job[w] = Idle /\ UNCHANGED <<slot, shut, onu, careful>>
  BY <1>1, <1>2, <1>3, <1>4, StartJob DEF IsReading
<1> QED BY <1>2, <1>3, <1>5 DEF HasRead, IsReading

LEMMA MigrateStarts ==
  ASSUME OnuTypeOK, NEW w \in Workers, Migrate(w)
  PROVE  \E r \in Saved : /\ HasRead(w, "migrate", "olt", r) /\ job'[w].index = onu[r].index
                          /\ job'[w].new \in Serials /\ RowsOf(job'[w].new) = {}
                          /\ Start(w, job'[w])
<1>1. PICK r \in Saved, n \in Serials :
        RowsOf(n) = {} /\ Start(w, [Reading("migrate", "olt", r) EXCEPT !.new = n])
  BY DEF Migrate
<1> DEFINE q == Reading("migrate", "olt", r)
           j == [q EXCEPT !.new = n]
<1>2. "migrate" \in Requests /\ JobsOK
  BY DEF Requests, OnuTypeOK, JobsOK
<1>3. IsReading(q, "migrate", "olt", r)
  BY <1>2, ReadingType
<1>4. Start(w, j)
  BY <1>1
<1> HIDE DEF q
<1>5. /\ j \in Job /\ j.kind = "migrate" /\ j.step = "olt" /\ j.row = r /\ j.serial = onu[r].serial
      /\ j.index = onu[r].index /\ j.new = n /\ j.todo = {}
  BY <1>3 DEF IsReading, Job
<1> HIDE DEF j
<1>6. Shaped(j)
  BY <1>3, <1>5, OnuFields, NothingAssumption DEF IsReading, Shaped, Steps, Requests
<1>7. JobsOK' /\ Others(w) /\ job'[w] = j /\ job[w] = Idle /\ UNCHANGED <<slot, shut, onu, careful>>
  BY <1>2, <1>4, <1>5, <1>6, StartJob
<1> QED BY <1>1, <1>4, <1>5, <1>7 DEF HasRead

-----------------------------------------------------------------------------
(* What a step does to the slots *)

SlotsOK ==
  /\ slot \in [Slots -> Serials \cup {NoSerial}]
  /\ shut \subseteq {i \in Slots : slot[i] # NoSerial}
  /\ \A i, j \in Slots : slot[i] = slot[j] /\ slot[i] # NoSerial => i = j

(* Slot i is open and holds n, or nobody; the others are as they were. *)
Becomes(i, n) ==
  /\ slot'[i] = n /\ i \notin shut'
  /\ \A k \in Slots : k # i => slot'[k] = slot[k] /\ (k \in shut' <=> k \in shut)

LEMMA RegisterSlot ==
  ASSUME SlotsOK, NEW i \in Slots, NEW n \in Serials, ~Elsewhere(i, n), Register(i, n)
  PROVE  SlotsOK' /\ Becomes(i, n)
<1>1. \A k \in Slots : slot[k] = n => k = i
  BY NothingAssumption DEF SlotsOK, Elsewhere, Registered
<1> QED BY <1>1, NothingAssumption DEF SlotsOK, Register, Becomes

LEMMA EmptySlot ==
  ASSUME SlotsOK, NEW i \in Slots, Empty(i)
  PROVE  SlotsOK' /\ Becomes(i, NoSerial)
BY DEF SlotsOK, Empty, Becomes

LEMMA TakenSlot ==
  ASSUME NEW j, j.index \in Slots, NEW i \in Takes(j)
  PROVE  i \in Slots /\ slot[i] \in {NoSerial, j.serial}
BY DEF Takes, FirstFree, Free

LEMMA SwitchedSlot ==
  ASSUME SlotsOK, JobsOK, NEW w \in Workers, SwitchOlt(w)
  PROVE  /\ SlotsOK' /\ job[w].index \in Slots
         /\ \A k \in Slots : k # job[w].index => (k \in shut' <=> k \in shut)
         /\ slot[job[w].index] # NoSerial => (job[w].index \in shut' <=> job[w].kind = "block")
<1>1. job[w].index \in Slots
  BY DEF JobsOK, Shaped, SwitchOlt, Requests
<1> QED BY <1>1 DEF SlotsOK, SwitchOlt

-----------------------------------------------------------------------------
(* What a step does to the rows *)

RowsOK ==
  /\ onu \in [Rows -> Onu \cup {NoOnu}]
  /\ \A r, q \in Saved : onu[r].serial = onu[q].serial => r = q

(* The row of the request becomes o, when it is still there. *)
Writes(r, o) ==
  /\ onu'[r] = IF r \in Saved THEN o ELSE NoOnu
  /\ \A q \in Rows : q # r => onu'[q] = onu[q]
  /\ Saved' = Saved

LEMMA UpdateRow ==
  ASSUME RowsOK, NEW w \in Workers, job[w].row \in Rows, NEW o, Update(w, o),
         job[w].row \in Saved =>
           o \in Onu /\ (o.serial = onu[job[w].row].serial \/ RowsOf(o.serial) = {})
  PROVE  RowsOK' /\ Writes(job[w].row, o)
<1>1. onu' \in [Rows -> Onu \cup {NoOnu}]
  BY DEF RowsOK, Update, Saved
<1>2. Writes(job[w].row, o)
  BY OnuFields DEF RowsOK, Update, Saved, Writes
<1>3. ASSUME NEW r \in Saved, NEW q \in Saved, onu'[r].serial = onu'[q].serial PROVE r = q
  BY <1>2, <1>3 DEF RowsOK, Writes, RowsOf, Saved
<1> QED BY <1>1, <1>2, <1>3 DEF RowsOK, Writes

LEMMA ForgottenRows ==
  ASSUME RowsOK, NEW R, Forget(R)
  PROVE  /\ RowsOK' /\ Saved' = Saved \ R
         /\ \A q \in Rows \ R : onu'[q] = onu[q]
BY DEF RowsOK, Forget, Saved

(* A row of n is inserted, and the rest is as it was. *)
Inserts(r, n, entry) ==
  /\ r \in Unused /\ Saved' = Saved \cup {r}
  /\ onu'[r] \in Onu /\ onu'[r].serial = n /\ onu'[r].status = entry.status
  /\ onu'[r].contract = NoContract
  /\ onu'[r].index \in Places(entry)
  /\ \A q \in Rows : q # r => onu'[q] = onu[q]

LEMMA InsertedRow ==
  ASSUME RowsOK, NEW n \in Serials, NEW entry \in Entry, RowsOf(n) = {},
         NEW r \in Unused, NEW o \in New(n, entry), onu' = [onu EXCEPT ![r] = o]
  PROVE  RowsOK' /\ Inserts(r, n, entry)
<1>1. o \in Onu /\ o # NoOnu /\ o.serial = n /\ o.status = entry.status /\ o.index \in Places(entry)
      /\ o.contract = NoContract
  BY OnuFields, NothingAssumption DEF New, Places, Entry, Onu
<1>2. r \in Rows \ Saved
  BY DEF Unused
<1>3. Inserts(r, n, entry) /\ onu' \in [Rows -> Onu \cup {NoOnu}]
  BY <1>1, <1>2 DEF RowsOK, Inserts, Saved
<1>4. ASSUME NEW p \in Saved', NEW q \in Saved', onu'[p].serial = onu'[q].serial PROVE p = q
  BY <1>1, <1>2, <1>3, <1>4 DEF RowsOK, Inserts, RowsOf, Saved
<1> QED BY <1>3, <1>4 DEF RowsOK

(* The rows of K get an index, and nothing else changes. *)
Moves(K, i) ==
  /\ Saved' = Saved
  /\ \A r \in Rows : onu'[r] = IF r \in K \cap Saved THEN [onu[r] EXCEPT !.index = i] ELSE onu[r]
  /\ \A r \in Saved : /\ onu'[r].serial = onu[r].serial /\ onu'[r].status = onu[r].status
                      /\ onu'[r].contract = onu[r].contract
                      /\ r \notin K => onu'[r].index = onu[r].index

LEMMA MovedRows ==
  ASSUME RowsOK, NEW i \in Slots, NEW K,
         onu' = [r \in Rows |-> IF r \in K \cap Saved THEN Relocated(r, i) ELSE onu[r]]
  PROVE  RowsOK' /\ Moves(K, i)
<1>1. \A r \in Saved : onu[r] \in Onu /\ r \in Rows
  BY DEF RowsOK, Saved
<1>2. \A r \in Saved : LET o == [onu[r] EXCEPT !.index = i]
        IN  o \in Onu /\ o.serial = onu[r].serial /\ o.status = onu[r].status /\ o.contract = onu[r].contract
  BY <1>1 DEF Onu
<1>3. onu' \in [Rows -> Onu \cup {NoOnu}]
  BY <1>1, <1>2 DEF RowsOK, Relocated
<1>4. Saved' = Saved
  BY <1>1, <1>2, OnuFields DEF Saved, Relocated
<1>5. Moves(K, i)
  BY <1>1, <1>2, <1>4 DEF Moves, Relocated
<1>6. ASSUME NEW r \in Saved', NEW q \in Saved', onu'[r].serial = onu'[q].serial PROVE r = q
  <2>1. r \in Saved /\ q \in Saved /\ onu'[r].serial = onu[r].serial /\ onu'[q].serial = onu[q].serial
    BY <1>5 DEF Moves
  <2> QED BY <1>6, <2>1 DEF RowsOK
<1> QED BY <1>3, <1>5, <1>6 DEF RowsOK

-----------------------------------------------------------------------------
(* What each step does *)

LEMMA TypeParts ==
  /\ OnuTypeOK <=> SlotsOK /\ RowsOK /\ JobsOK /\ careful \in BOOLEAN
  /\ OnuTypeOK' <=> SlotsOK' /\ RowsOK' /\ JobsOK' /\ careful' \in BOOLEAN
BY DEF OnuTypeOK, SlotsOK, RowsOK, JobsOK

(* The slots, the rows and the office stay. *)
Devices == <<slot, shut>>

LEMMA DevicesStay ==
  ASSUME SlotsOK, UNCHANGED Devices
  PROVE  SlotsOK'
BY DEF SlotsOK, Devices

LEMMA RowsStay ==
  ASSUME RowsOK, UNCHANGED onu
  PROVE  RowsOK'
BY DEF RowsOK, Saved

LEMMA RequestRow ==
  ASSUME JobsOK, NEW w \in Workers, job[w].kind \in Requests
  PROVE  /\ job[w].row \in Rows /\ job[w].serial \in Serials /\ job[w].index \in Slots
         /\ job[w].row # NoRow
BY NothingAssumption DEF JobsOK, Shaped

LEMMA SavedRow ==
  ASSUME RowsOK, NEW r \in Saved
  PROVE  r \in Rows /\ onu[r] \in Onu /\ onu[r] # NoOnu
BY DEF RowsOK, Saved

LEMMA ScanKnownStep ==
  ASSUME OnuTypeOK, NEW w \in Workers, ScanKnown(w)
  PROVE  /\ OnuTypeOK' /\ Others(w) /\ job'[w].step = "find"
         /\ SameScan(job'[w], job[w]) /\ job'[w].known = {} /\ UNCHANGED <<slot, shut, careful>>
         /\ \/ job[w].kind = "import" /\ UNCHANGED onu
            \/ job[w].kind = "scan" /\ \E i \in Slots : Moves(job[w].known, i)
<1>1. SlotsOK /\ RowsOK /\ JobsOK /\ careful \in BOOLEAN /\ Scanning(w, "save")
  BY TypeParts DEF ScanKnown
<1>2. JobsOK' /\ Others(w) /\ job'[w].step = "find" /\ SameScan(job'[w], job[w]) /\ job'[w].known = {}
  BY <1>1, FoundJob DEF ScanKnown
<1>3. CASE job[w].kind = "import"
  BY <1>1, <1>2, <1>3, TypeParts, DevicesStay, RowsStay DEF ScanKnown, Devices
<1>4. CASE job[w].kind # "import"
  <2>1. job[w].found \in Founds /\ job[w].serial \in DOMAIN job[w].found /\ job[w].kind = "scan"
    BY <1>1, <1>4 DEF JobsOK, Job, Founds, Shaped, Scanning
  <2>2. Places(job[w].found[job[w].serial]) \subseteq Slots
    BY <2>1, FoundEntry DEF Places, Entry
  <2>3. PICK i \in Slots :
          onu' = [r \in Rows |-> IF r \in job[w].known \cap Saved THEN Relocated(r, i) ELSE onu[r]]
    BY <1>4, <2>2 DEF ScanKnown
  <2>4. RowsOK' /\ Moves(job[w].known, i)
    BY <1>1, <2>3, MovedRows
  <2> QED BY <1>1, <1>2, <2>1, <2>4, TypeParts, DevicesStay DEF ScanKnown, Devices
<1> QED BY <1>3, <1>4

LEMMA ScanNewStep ==
  ASSUME OnuTypeOK, NEW w \in Workers, ScanNew(w)
  PROVE  /\ OnuTypeOK' /\ Others(w) /\ UNCHANGED <<slot, shut, careful>>
         /\ job[w].kind \in {"scan", "import"} /\ job[w].serial \in DOMAIN job[w].found
         /\ \/ /\ job'[w].step = "find" /\ SameScan(job'[w], job[w]) /\ job'[w].known = {}
               /\ RowsOf(job[w].serial) = {}
               /\ \E r \in Unused : Inserts(r, job[w].serial, job[w].found[job[w].serial])
            \/ job'[w] = Idle /\ UNCHANGED onu
<1>1. SlotsOK /\ RowsOK /\ JobsOK /\ careful \in BOOLEAN /\ Scanning(w, "save")
  BY TypeParts DEF ScanNew
<1> DEFINE n == job[w].serial
           entry == job[w].found[n]
<1>2. n \in DOMAIN job[w].found /\ n \in Serials /\ entry \in Entry
  <2>1. job[w].found \in Founds /\ n \in DOMAIN job[w].found
    BY <1>1 DEF JobsOK, Job, Founds, Shaped, Scanning
  <2> QED BY <2>1, FoundEntry
<1>3. CASE RowsOf(n) = {} /\ Found(w)
           /\ \E r \in Unused, o \in New(n, entry) : onu' = [onu EXCEPT ![r] = o]
  <2>1. PICK r \in Unused, o \in New(n, entry) : onu' = [onu EXCEPT ![r] = o]
    BY <1>3
  <2> HIDE DEF n, entry
  <2>2. RowsOK' /\ Inserts(r, n, entry)
    BY <1>1, <1>2, <1>3, <2>1, InsertedRow
  <2>3. JobsOK' /\ Others(w) /\ job'[w].step = "find" /\ SameScan(job'[w], job[w]) /\ job'[w].known = {}
    BY <1>1, <1>3, FoundJob
  <2>4. SlotsOK' /\ careful' \in BOOLEAN /\ UNCHANGED <<slot, shut, careful>>
    BY <1>1, DevicesStay DEF ScanNew, Devices
  <2>5. OnuTypeOK'
    BY <2>2, <2>3, <2>4, TypeParts
  <2> QED BY <1>1, <1>2, <1>3, <2>2, <2>3, <2>4, <2>5 DEF n, entry, Scanning
<1>4. CASE Done(w) /\ UNCHANGED onu
  BY <1>1, <1>2, <1>4, DoneType, DevicesStay, RowsStay, TypeParts DEF ScanNew, Devices, Scanning
<1> QED BY <1>3, <1>4 DEF ScanNew

LEMMA ScanRemoveStep ==
  ASSUME OnuTypeOK, NEW w \in Workers, ScanRemove(w)
  PROVE  /\ OnuTypeOK' /\ Others(w) /\ job'[w] = Idle /\ UNCHANGED <<slot, shut, careful>>
         /\ job[w].kind \in {"scan", "import"} /\ job[w].step = "remove"
         /\ Saved' = Saved \ job[w].known /\ \A q \in Rows \ job[w].known : onu'[q] = onu[q]
BY TypeParts, DoneType, ForgottenRows, DevicesStay DEF ScanRemove, Scanning, Devices

(* A request writes its row and the OLT is left alone. *)
LEMMA RequestWrites ==
  ASSUME OnuTypeOK, JobsOK', NEW w \in Workers, job[w].kind \in Requests, NEW o, Update(w, o),
         job[w].row \in Saved =>
           o \in Onu /\ (o.serial = onu[job[w].row].serial \/ RowsOf(o.serial) = {}),
         UNCHANGED <<slot, shut, careful>>
  PROVE  OnuTypeOK' /\ Writes(job[w].row, o)
<1>1. SlotsOK /\ RowsOK /\ JobsOK /\ careful \in BOOLEAN
  BY TypeParts
<1>2. RowsOK' /\ Writes(job[w].row, o)
  BY <1>1, RequestRow, UpdateRow
<1> QED BY <1>1, <1>2, TypeParts, DevicesStay DEF Devices

LEMMA LinkRowStep ==
  ASSUME OnuTypeOK, NEW w \in Workers, LinkRow(w)
  PROVE  /\ OnuTypeOK' /\ Others(w) /\ job'[w] = Idle /\ UNCHANGED <<slot, shut, careful>>
         /\ job[w].kind = "link" /\ job[w].contract \in Contracts
         /\ Writes(job[w].row, [Mine(w) EXCEPT !.contract = job[w].contract])
<1>1. JobsOK /\ RowsOK /\ job[w].kind = "link" /\ job[w].kind \in Requests
  BY TypeParts DEF LinkRow, At, Requests
<1>2. job[w].contract \in Contracts
  BY <1>1 DEF JobsOK, Job, Shaped
<1>3. JobsOK' /\ job'[w] = Idle /\ Others(w)
  BY <1>1, DoneType DEF LinkRow
<1> DEFINE o == [Mine(w) EXCEPT !.contract = job[w].contract]
<1>4. job[w].row \in Saved => o \in Onu /\ o.serial = onu[job[w].row].serial
  BY <1>1, <1>2, SavedRow DEF Mine, Onu
<1>5. Update(w, o)
  BY DEF LinkRow
<1> HIDE DEF o
<1>6. OnuTypeOK' /\ Writes(job[w].row, o)
  BY <1>1, <1>3, <1>4, <1>5, RequestWrites DEF LinkRow
<1> QED BY <1>1, <1>2, <1>3, <1>6 DEF LinkRow, o

LEMMA AuthorizeOltStep ==
  ASSUME OnuTypeOK, NEW w \in Workers, AuthorizeOlt(w)
  PROVE  /\ OnuTypeOK' /\ Others(w) /\ UNCHANGED <<onu, careful>>
         /\ job[w].kind = "authorize" /\ job[w].step = "olt" /\ job'[w].step = "config"
         /\ SameRequest(job'[w], job[w]) /\ job'[w].index \in Slots
         /\ slot[job'[w].index] \in {NoSerial, job[w].serial}
         /\ Becomes(job'[w].index, job[w].serial)
<1>1. JobsOK /\ SlotsOK /\ RowsOK /\ job[w].kind = "authorize" /\ job[w].kind \in Requests
  BY TypeParts DEF AuthorizeOlt, At, Requests
<1>2. job[w].index \in Slots /\ job[w].serial \in Serials
  BY <1>1, RequestRow
<1>3. PICK i \in Takes(job[w]) :
        /\ ~Elsewhere(i, job[w].serial)
        /\ Register(i, job[w].serial)
        /\ job' = [job EXCEPT ![w].step = "config", ![w].index = i]
  BY DEF AuthorizeOlt
<1>4. i \in Slots /\ slot[i] \in {NoSerial, job[w].serial}
  BY <1>2, TakenSlot
<1>5. SlotsOK' /\ Becomes(i, job[w].serial)
  BY <1>1, <1>2, <1>3, <1>4, RegisterSlot
<1>6. JobsOK' /\ Others(w) /\ job'[w].step = "config" /\ SameRequest(job'[w], job[w]) /\ job'[w].index = i
  BY <1>1, <1>3, <1>4, AuthorizeOltJob DEF AuthorizeOlt
<1>7. RowsOK' /\ UNCHANGED <<onu, careful>>
  BY <1>1, RowsStay DEF AuthorizeOlt
<1>8. OnuTypeOK'
  BY <1>5, <1>6, <1>7, TypeParts
<1> QED BY <1>1, <1>4, <1>5, <1>6, <1>7, <1>8 DEF AuthorizeOlt, At

LEMMA AuthorizeConfigStep ==
  ASSUME OnuTypeOK, NEW w \in Workers, AuthorizeConfig(w)
  PROVE  /\ OnuTypeOK' /\ Others(w) /\ UNCHANGED <<slot, shut, careful>>
         /\ job[w].kind = "authorize" /\ job[w].step = "config"
         /\ \/ job'[w] = Idle /\ job[w].row \notin Saved
            \/ /\ job'[w].step = "row" /\ SameRequest(job'[w], job[w])
               /\ job'[w].index = job[w].index
         /\ Writes(job[w].row, [Mine(w) EXCEPT !.configured = TRUE])
<1>1. JobsOK /\ RowsOK /\ job[w].kind = "authorize" /\ job[w].kind \in Requests
  BY TypeParts DEF AuthorizeConfig, At, Requests
<1>2. /\ JobsOK' /\ Others(w)
      /\ \/ job'[w] = Idle /\ job[w].row \notin Saved
         \/ job'[w].step = "row" /\ SameRequest(job'[w], job[w]) /\ job'[w].index = job[w].index
  BY <1>1, DoneType, GoToType DEF AuthorizeConfig, Steps, Saved
<1> DEFINE o == [Mine(w) EXCEPT !.configured = TRUE]
<1>3. job[w].row \in Saved => o \in Onu /\ o.serial = onu[job[w].row].serial
  BY <1>1, SavedRow DEF Mine, Onu
<1>4. Update(w, o)
  BY DEF AuthorizeConfig
<1> HIDE DEF o
<1>5. OnuTypeOK' /\ Writes(job[w].row, o)
  BY <1>1, <1>2, <1>3, <1>4, RequestWrites DEF AuthorizeConfig
<1> QED BY <1>1, <1>2, <1>5 DEF AuthorizeConfig, At, o

LEMMA AuthorizeRowStep ==
  ASSUME OnuTypeOK, NEW w \in Workers, AuthorizeRow(w)
  PROVE  /\ OnuTypeOK' /\ Others(w) /\ job'[w] = Idle /\ UNCHANGED <<slot, shut, careful>>
         /\ job[w].kind = "authorize" /\ job[w].step = "row"
         /\ \E i \in Slots :
              Writes(job[w].row, [Mine(w) EXCEPT !.status = "ACTIVE", !.contract = job[w].contract,
                                                 !.index = i])
<1>1. JobsOK /\ RowsOK /\ job[w].kind = "authorize" /\ job[w].kind \in Requests
  BY TypeParts DEF AuthorizeRow, At, Requests
<1>2. JobsOK' /\ Others(w) /\ job'[w] = Idle
  BY <1>1, DoneType DEF AuthorizeRow
<1>3. job[w].contract \in Contracts \cup {NoContract} /\ job[w].index \in Slots
  BY <1>1, RequestRow DEF JobsOK, Job
<1>4. PICK i \in Slots :
        Update(w, [Mine(w) EXCEPT !.status = "ACTIVE", !.contract = job[w].contract, !.index = i])
  BY <1>3, ConstantsAssumption DEF AuthorizeRow
<1> DEFINE o == [Mine(w) EXCEPT !.status = "ACTIVE", !.contract = job[w].contract, !.index = i]
<1>5. job[w].row \in Saved => o \in Onu /\ o.serial = onu[job[w].row].serial
  BY <1>1, <1>3, SavedRow DEF Mine, Onu, Statuses
<1> HIDE DEF o
<1>6. OnuTypeOK' /\ Writes(job[w].row, o)
  BY <1>1, <1>2, <1>4, <1>5, RequestWrites DEF AuthorizeRow, o
<1> QED BY <1>1, <1>2, <1>6 DEF AuthorizeRow, At, o

LEMMA SwitchOltStep ==
  ASSUME OnuTypeOK, NEW w \in Workers, SwitchOlt(w)
  PROVE  /\ OnuTypeOK' /\ Others(w) /\ UNCHANGED <<slot, onu, careful>>
         /\ job[w].kind \in {"block", "unblock"} /\ job[w].step = "olt" /\ job'[w].step = "row"
         /\ SameRequest(job'[w], job[w]) /\ job'[w].index = job[w].index
         /\ job[w].index \in Slots
         /\ \A k \in Slots : k # job[w].index => (k \in shut' <=> k \in shut)
         /\ slot[job[w].index] # NoSerial => (job[w].index \in shut' <=> job[w].kind = "block")
<1>1. JobsOK /\ SlotsOK /\ RowsOK /\ job[w].kind \in {"block", "unblock"} /\ job[w].kind \in Requests
  BY TypeParts DEF SwitchOlt, Requests
<1>2. /\ JobsOK' /\ Others(w) /\ job'[w].step = "row"
      /\ SameRequest(job'[w], job[w]) /\ job'[w].index = job[w].index
  BY <1>1, GoToType DEF SwitchOlt, Steps
<1>3. /\ SlotsOK' /\ job[w].index \in Slots
      /\ \A k \in Slots : k # job[w].index => (k \in shut' <=> k \in shut)
      /\ slot[job[w].index] # NoSerial => (job[w].index \in shut' <=> job[w].kind = "block")
  BY <1>1, SwitchedSlot
<1>4. RowsOK'
  BY <1>1, RowsStay DEF SwitchOlt
<1>5. OnuTypeOK'
  BY <1>2, <1>3, <1>4, TypeParts DEF SwitchOlt
<1> QED BY <1>1, <1>2, <1>3, <1>5 DEF SwitchOlt

LEMMA SwitchRowStep ==
  ASSUME OnuTypeOK, NEW w \in Workers, SwitchRow(w)
  PROVE  /\ OnuTypeOK' /\ Others(w) /\ job'[w] = Idle /\ UNCHANGED <<slot, shut, careful>>
         /\ job[w].kind \in {"block", "unblock"} /\ job[w].step = "row"
         /\ Writes(job[w].row,
                   [Mine(w) EXCEPT !.status = IF job[w].kind = "block" THEN "BLOCKED" ELSE "ACTIVE"])
<1>1. JobsOK /\ RowsOK /\ job[w].kind \in {"block", "unblock"} /\ job[w].kind \in Requests
  BY TypeParts DEF SwitchRow, Requests
<1>2. JobsOK' /\ Others(w) /\ job'[w] = Idle
  BY <1>1, DoneType DEF SwitchRow
<1> DEFINE o == [Mine(w) EXCEPT !.status = IF job[w].kind = "block" THEN "BLOCKED" ELSE "ACTIVE"]
<1>3. job[w].row \in Saved => o \in Onu /\ o.serial = onu[job[w].row].serial
  BY <1>1, SavedRow DEF Mine, Onu, Statuses
<1>4. Update(w, o)
  BY DEF SwitchRow
<1> HIDE DEF o
<1>5. OnuTypeOK' /\ Writes(job[w].row, o)
  BY <1>1, <1>2, <1>3, <1>4, RequestWrites DEF SwitchRow
<1> QED BY <1>1, <1>2, <1>5 DEF SwitchRow, o

LEMMA DeleteOltStep ==
  ASSUME OnuTypeOK, NEW w \in Workers, DeleteOlt(w)
  PROVE  /\ OnuTypeOK' /\ Others(w) /\ UNCHANGED <<onu, careful>>
         /\ job[w].kind = "delete" /\ job[w].step = "olt" /\ job'[w].step = "row"
         /\ SameRequest(job'[w], job[w]) /\ job[w].index \in Slots
         /\ Becomes(job[w].index, NoSerial)
<1>1. JobsOK /\ SlotsOK /\ RowsOK /\ job[w].kind = "delete" /\ job[w].kind \in Requests
  BY TypeParts DEF DeleteOlt, At, Requests
<1>2. JobsOK' /\ Others(w) /\ job'[w].step = "row" /\ SameRequest(job'[w], job[w])
  BY <1>1, GoToType DEF DeleteOlt, Steps
<1>3. SlotsOK' /\ job[w].index \in Slots /\ Becomes(job[w].index, NoSerial)
  BY <1>1, RequestRow, EmptySlot DEF DeleteOlt
<1>4. RowsOK'
  BY <1>1, RowsStay DEF DeleteOlt
<1>5. OnuTypeOK'
  BY <1>2, <1>3, <1>4, TypeParts DEF DeleteOlt
<1> QED BY <1>1, <1>2, <1>3, <1>5 DEF DeleteOlt, At

LEMMA DeleteRowStep ==
  ASSUME OnuTypeOK, NEW w \in Workers, DeleteRow(w)
  PROVE  /\ OnuTypeOK' /\ Others(w) /\ job'[w] = Idle /\ UNCHANGED <<slot, shut, careful>>
         /\ job[w].kind = "delete" /\ job[w].step = "row" /\ job[w].row \in Rows
         /\ Saved' = Saved \ {job[w].row} /\ \A q \in Rows \ {job[w].row} : onu'[q] = onu[q]
<1>1. JobsOK /\ job[w].kind = "delete" /\ job[w].kind \in Requests /\ job[w].row \in Rows
  BY TypeParts, RequestRow DEF DeleteRow, At, Requests
<1> QED BY <1>1, TypeParts, DoneType, ForgottenRows, DevicesStay DEF DeleteRow, At, Devices

LEMMA MigrateOltStep ==
  ASSUME OnuTypeOK, NEW w \in Workers, MigrateOlt(w)
  PROVE  /\ OnuTypeOK' /\ Others(w) /\ UNCHANGED <<onu, careful>>
         /\ job[w].kind = "migrate" /\ job[w].step = "olt" /\ job[w].index \in Slots
         /\ slot[job[w].index] = job[w].serial /\ job[w].serial \in Serials
         /\ SameRequest(job'[w], job[w]) /\ job'[w].index = job[w].index
         /\ \/ /\ job'[w].step = "row" /\ Becomes(job[w].index, job[w].new)
               /\ job[w].new \in Serials /\ ~Elsewhere(job[w].index, job[w].new)
            \/ job'[w].step = "failed" /\ Becomes(job[w].index, NoSerial)
<1>1. JobsOK /\ SlotsOK /\ RowsOK /\ job[w].kind = "migrate" /\ job[w].kind \in Requests
  BY TypeParts DEF MigrateOlt, At, Requests
<1>2. job[w].index \in Slots /\ job[w].serial \in Serials /\ job[w].new \in Serials
  BY <1>1, RequestRow DEF JobsOK, Job, Shaped
<1>3. RowsOK'
  BY <1>1, RowsStay DEF MigrateOlt
<1>4. CASE ~Elsewhere(job[w].index, job[w].new) /\ Register(job[w].index, job[w].new) /\ GoTo(w, "row")
  <2>1. /\ JobsOK' /\ Others(w) /\ job'[w].step = "row" /\ SameRequest(job'[w], job[w])
        /\ job'[w].index = job[w].index
    BY <1>1, <1>4, GoToType DEF Steps
  <2>2. SlotsOK' /\ Becomes(job[w].index, job[w].new)
    BY <1>1, <1>2, <1>4, RegisterSlot
  <2>3. OnuTypeOK'
    BY <1>3, <2>1, <2>2, TypeParts DEF MigrateOlt
  <2> QED BY <1>1, <1>2, <1>4, <2>1, <2>2, <2>3 DEF MigrateOlt, At
<1>5. CASE Empty(job[w].index) /\ GoTo(w, "failed")
  <2>1. /\ JobsOK' /\ Others(w) /\ job'[w].step = "failed" /\ SameRequest(job'[w], job[w])
        /\ job'[w].index = job[w].index
    BY <1>1, <1>5, GoToType DEF Steps
  <2>2. SlotsOK' /\ Becomes(job[w].index, NoSerial)
    BY <1>1, <1>2, <1>5, EmptySlot
  <2>3. OnuTypeOK'
    BY <1>3, <2>1, <2>2, TypeParts DEF MigrateOlt
  <2> QED BY <1>1, <1>2, <2>1, <2>2, <2>3 DEF MigrateOlt, At
<1> QED BY <1>4, <1>5 DEF MigrateOlt

LEMMA MigrateFailedStep ==
  ASSUME OnuTypeOK, NEW w \in Workers, MigrateFailed(w)
  PROVE  /\ OnuTypeOK' /\ Others(w) /\ job'[w] = Idle /\ UNCHANGED <<slot, shut, careful>>
         /\ job[w].kind = "migrate" /\ job[w].step = "failed"
         /\ Writes(job[w].row, [Mine(w) EXCEPT !.status = "ERROR"])
<1>1. JobsOK /\ RowsOK /\ job[w].kind = "migrate" /\ job[w].kind \in Requests
  BY TypeParts DEF MigrateFailed, At, Requests
<1>2. JobsOK' /\ Others(w) /\ job'[w] = Idle
  BY <1>1, DoneType DEF MigrateFailed
<1> DEFINE o == [Mine(w) EXCEPT !.status = "ERROR"]
<1>3. job[w].row \in Saved => o \in Onu /\ o.serial = onu[job[w].row].serial
  BY <1>1, SavedRow DEF Mine, Onu, Statuses
<1>4. Update(w, o)
  BY DEF MigrateFailed
<1> HIDE DEF o
<1>5. OnuTypeOK' /\ Writes(job[w].row, o)
  BY <1>1, <1>2, <1>3, <1>4, RequestWrites DEF MigrateFailed
<1> QED BY <1>1, <1>2, <1>5 DEF MigrateFailed, At, o

LEMMA MigrateRowStep ==
  ASSUME OnuTypeOK, NEW w \in Workers, MigrateRow(w)
  PROVE  /\ OnuTypeOK' /\ Others(w) /\ job'[w] = Idle /\ UNCHANGED <<slot, shut, careful>>
         /\ job[w].kind = "migrate" /\ job[w].step = "row" /\ job[w].new \in Serials
         /\ IF RowsOf(job[w].new) = {}
            THEN Writes(job[w].row, [Mine(w) EXCEPT !.serial = job[w].new, !.status = "ACTIVE"])
            ELSE UNCHANGED onu
<1>1. JobsOK /\ SlotsOK /\ RowsOK /\ job[w].kind = "migrate" /\ job[w].kind \in Requests
  BY TypeParts DEF MigrateRow, At, Requests
<1>2. JobsOK' /\ Others(w) /\ job'[w] = Idle /\ job[w].new \in Serials
  BY <1>1, DoneType DEF MigrateRow, JobsOK, Job, Shaped
<1>3. CASE RowsOf(job[w].new) = {}
  <2> DEFINE o == [Mine(w) EXCEPT !.serial = job[w].new, !.status = "ACTIVE"]
  <2>1. job[w].row \in Saved => o \in Onu /\ o.serial = job[w].new
    BY <1>1, <1>2, SavedRow DEF Mine, Onu, Statuses
  <2>2. Update(w, o)
    BY <1>3 DEF MigrateRow
  <2> HIDE DEF o
  <2>3. OnuTypeOK' /\ Writes(job[w].row, o)
    BY <1>1, <1>2, <1>3, <2>1, <2>2, RequestWrites DEF MigrateRow
  <2> QED BY <1>1, <1>2, <1>3, <2>3 DEF MigrateRow, At, o
<1>4. CASE RowsOf(job[w].new) # {}
  BY <1>1, <1>2, <1>4, TypeParts, RowsStay, DevicesStay DEF MigrateRow, At, Devices
<1> QED BY <1>3, <1>4

LEMMA Withdrawn ==
  ASSUME OnuTypeOK, NEW w \in Workers, AuthorizeFails(w) \/ Refuse(w)
  PROVE  /\ OnuTypeOK' /\ Others(w) /\ job'[w] = Idle /\ UNCHANGED <<slot, shut, onu, careful>>
         /\ job[w].kind \in Requests
BY TypeParts, DoneType, RowsStay, DevicesStay DEF AuthorizeFails, Refuse, At, Requests, Devices

-----------------------------------------------------------------------------
(* Types, whatever overlaps and fails *)

(* What no office can do anything about keeps the types as well. *)
LEMMA FaultTypes ==
  ASSUME OnuTypeOK, Fault
  PROVE  OnuTypeOK' /\ UNCHANGED onu
<1>1. SlotsOK /\ RowsOK /\ JobsOK /\ careful \in BOOLEAN
  BY TypeParts
<1>2. CASE Crash
  <2>1. JobsOK'
    BY <1>2, IdleType DEF Crash, JobsOK
  <2> QED BY <1>1, <1>2, <2>1, TypeParts, RowsStay, DevicesStay DEF Crash, Devices
<1>3. ASSUME NEW w \in Workers, AuthorizeHalf(w) PROVE OnuTypeOK' /\ UNCHANGED onu
  <2>1. job[w].kind \in Requests /\ job[w].index \in Slots /\ job[w].serial \in Serials
    BY <1>1, <1>3, RequestRow DEF AuthorizeHalf, At, Requests
  <2>2. PICK i \in Takes(job[w]) :
          Empty(i) \/ (~Elsewhere(i, job[w].serial) /\ Register(i, job[w].serial))
    BY <1>3 DEF AuthorizeHalf
  <2>3. SlotsOK'
    BY <1>1, <2>1, <2>2, TakenSlot, EmptySlot, RegisterSlot
  <2>4. JobsOK' /\ RowsOK'
    BY <1>1, <1>3, DoneType, RowsStay DEF AuthorizeHalf
  <2> QED BY <1>1, <1>3, <2>3, <2>4, TypeParts DEF AuthorizeHalf
<1>4. ASSUME NEW w \in Workers, AuthorizeBlind(w) PROVE OnuTypeOK' /\ UNCHANGED onu
  <2>1. job[w].kind = "authorize" /\ job[w].kind \in Requests
    BY <1>4 DEF AuthorizeBlind, At, Requests
  <2>2. job[w].index \in Slots /\ job[w].serial \in Serials
    BY <1>1, <2>1, RequestRow
  <2>3. SlotsOK'
    BY <1>1, <1>4, <2>2, RegisterSlot DEF AuthorizeBlind
  <2>4. "config" \in Steps(job[w].kind)
    BY <2>1 DEF Steps
  <2>5. JobsOK' /\ RowsOK'
    BY <1>1, <1>4, <2>1, <2>4, GoToType, RowsStay DEF AuthorizeBlind
  <2> QED BY <1>1, <1>4, <2>3, <2>5, TypeParts DEF AuthorizeBlind
<1> QED BY <1>2, <1>3, <1>4 DEF Fault

(* A request or a scan that starts has read and changed nothing. *)
LEMMA StartTypes ==
  ASSUME OnuTypeOK, NEW w \in Workers,
         Scan(w) \/ Import(w) \/ Link(w) \/ Authorize(w) \/ Switch(w) \/ Delete(w) \/ Migrate(w)
  PROVE  OnuTypeOK' /\ UNCHANGED <<slot, shut, onu, careful>>
<1>1. SlotsOK /\ RowsOK /\ JobsOK /\ careful \in BOOLEAN
  BY TypeParts
<1> SUFFICES JobsOK' /\ UNCHANGED <<slot, shut, onu, careful>>
  BY <1>1, TypeParts, RowsStay, DevicesStay DEF Devices
<1>2. CASE Scan(w)
  BY <1>1, <1>2, UnconfiguredType, ScanStarts DEF Scan
<1>3. CASE Import(w)
  BY <1>1, <1>3, AuthorizedType, ScanStarts DEF Import
<1>4. CASE Link(w)
  BY <1>4, LinkStarts DEF HasRead
<1>5. CASE Authorize(w)
  BY <1>5, AuthorizeStarts DEF HasRead
<1>6. CASE Switch(w) \/ Delete(w)
  BY <1>6, PlainStart DEF HasRead, Switch, Delete
<1>7. CASE Migrate(w)
  BY <1>7, MigrateStarts DEF HasRead
<1> QED BY <1>2, <1>3, <1>4, <1>5, <1>6, <1>7

(* One step of one worker: the body of Next. *)
StepOf(w) ==
  \/ Scan(w) \/ Import(w) \/ ScanStep(w)
  \/ Link(w) \/ LinkRow(w)
  \/ Authorize(w) \/ AuthorizeStep(w)
  \/ Switch(w) \/ SwitchOlt(w) \/ SwitchRow(w)
  \/ Delete(w) \/ DeleteOlt(w) \/ DeleteRow(w)
  \/ Migrate(w) \/ MigrateOlt(w) \/ MigrateFailed(w) \/ MigrateRow(w)
  \/ Refuse(w)

LEMMA NextTypes ==
  ASSUME OnuTypeOK, NEW w \in Workers, StepOf(w)
  PROVE  OnuTypeOK'
<1>1. CASE ScanStep(w)
  <2>1. CASE ScanFind(w) \/ ScanEnd(w)
    BY <2>1, TypeParts, ScanFindJob, ScanEndJob, RowsStay, DevicesStay DEF ScanFind, ScanEnd, Devices
  <2> QED BY <1>1, <2>1, ScanKnownStep, ScanNewStep, ScanRemoveStep DEF ScanStep
<1>2. CASE AuthorizeStep(w)
  BY <1>2, AuthorizeOltStep, Withdrawn, AuthorizeConfigStep, AuthorizeRowStep DEF AuthorizeStep
<1>3. CASE SwitchOlt(w) \/ SwitchRow(w) \/ DeleteOlt(w) \/ DeleteRow(w)
  BY <1>3, SwitchOltStep, SwitchRowStep, DeleteOltStep, DeleteRowStep
<1>4. CASE MigrateOlt(w) \/ MigrateFailed(w) \/ MigrateRow(w)
  BY <1>4, MigrateOltStep, MigrateFailedStep, MigrateRowStep
<1>5. CASE LinkRow(w) \/ Refuse(w)
  BY <1>5, LinkRowStep, Withdrawn
<1> QED BY <1>1, <1>2, <1>3, <1>4, <1>5, StartTypes DEF StepOf

LEMMA InitTypes == Init => OnuTypeOK
<1> SUFFICES ASSUME Init PROVE OnuTypeOK
  OBVIOUS
<1>1. SlotsOK
  BY DEF Init, SlotsOK
<1>2. RowsOK
  BY DEF Init, RowsOK, Saved
<1>3. JobsOK
  BY IdleType DEF Init, JobsOK
<1> QED BY <1>1, <1>2, <1>3, TypeParts, ConstantsAssumption DEF Init

LEMMA StutterTypes ==
  ASSUME OnuTypeOK, UNCHANGED vars
  PROVE  OnuTypeOK'
BY TypeParts, RowsStay, DevicesStay DEF vars, Devices, JobsOK

(* A serial is in one slot and has one row, and every request holds what its
   step uses, whatever overlaps, fails half way or crashes.                *)
THEOREM OnuTypes == FaultySpec => []OnuTypeOK
<1>1. OnuTypeOK /\ [Next \/ Fault]_vars => OnuTypeOK'
  BY NextTypes, FaultTypes, StutterTypes DEF Next, StepOf
<1> QED BY <1>1, InitTypes, PTL DEF FaultySpec

LEMMA OnuTypesOfSpec == Spec => []OnuTypeOK
<1>1. OnuTypeOK /\ [Next]_vars => OnuTypeOK'
  BY NextTypes, StutterTypes DEF Next, StepOf
<1> QED BY <1>1, InitTypes, PTL DEF Spec

-----------------------------------------------------------------------------
(* An authorisation is never taken back *)

LEMMA StatusStays ==
  ASSUME OnuTypeOK, NEW w \in Workers, StepOf(w),
         NEW r \in Saved, onu[r].status # "UNCONFIGURED", onu'[r] # NoOnu
  PROVE  onu'[r].status # "UNCONFIGURED"
<1>1. r \in Rows /\ onu[r] \in Onu
  BY TypeParts, SavedRow
<1>2. onu' = onu => onu'[r].status # "UNCONFIGURED"
  OBVIOUS
<1>3. CASE ScanFind(w) \/ ScanEnd(w)
  BY <1>2, <1>3 DEF ScanFind, ScanEnd
<1>4. CASE ScanKnown(w)
  BY <1>2, <1>4, ScanKnownStep DEF Moves
<1>5. CASE ScanNew(w)
  <2>1. ASSUME NEW q \in Unused, Inserts(q, job[w].serial, job[w].found[job[w].serial])
        PROVE  onu'[r] = onu[r]
    BY <1>1, <2>1 DEF Inserts, Unused
  <2> QED BY <1>2, <1>5, <2>1, ScanNewStep
<1>6. CASE ScanRemove(w) \/ DeleteRow(w)
  <2>1. onu'[r] = onu[r] \/ r \notin Saved'
    BY <1>1, <1>6, ScanRemoveStep, DeleteRowStep
  <2> QED BY <1>1, <2>1 DEF Saved
<1>7. CASE AuthorizeStep(w)
  <2>1. CASE AuthorizeConfig(w)
    <3>1. Writes(job[w].row, [Mine(w) EXCEPT !.configured = TRUE])
      BY <2>1, AuthorizeConfigStep
    <3> QED BY <1>1, <3>1 DEF Writes, Mine, Onu
  <2>2. CASE AuthorizeRow(w)
    BY <1>1, <2>2, AuthorizeRowStep DEF Writes, Mine, Onu
  <2> QED BY <1>2, <1>7, <2>1, <2>2, AuthorizeOltStep, Withdrawn DEF AuthorizeStep
<1>8. CASE SwitchRow(w)
  BY <1>1, <1>8, SwitchRowStep DEF Writes, Mine, Onu
<1>9. CASE MigrateFailed(w) \/ MigrateRow(w)
  <2>1. CASE MigrateFailed(w)
    BY <1>1, <2>1, MigrateFailedStep DEF Writes, Mine, Onu
  <2>2. CASE MigrateRow(w)
    <3>1. onu' = onu \/ Writes(job[w].row, [Mine(w) EXCEPT !.serial = job[w].new, !.status = "ACTIVE"])
      BY <2>2, MigrateRowStep
    <3> QED BY <1>1, <1>2, <3>1 DEF Writes, Mine, Onu
  <2> QED BY <1>9, <2>1, <2>2
<1>10. CASE LinkRow(w)
  <2>1. Writes(job[w].row, [Mine(w) EXCEPT !.contract = job[w].contract])
    BY <1>10, LinkRowStep
  <2> QED BY <1>1, <2>1 DEF Writes, Mine, Onu
<1>11. CASE SwitchOlt(w) \/ DeleteOlt(w) \/ MigrateOlt(w) \/ Refuse(w)
  BY <1>2, <1>11, SwitchOltStep, DeleteOltStep, MigrateOltStep, Withdrawn
<1> QED BY <1>2, <1>3, <1>4, <1>5, <1>6, <1>7, <1>8, <1>9, <1>10, <1>11, StartTypes DEF StepOf, ScanStep

(* A row that was authorised is never UNCONFIGURED again, in any office and with
   the faults as well: a scan writes back nothing of what it read.         *)
THEOREM AuthorizedStays == FaultySpec => AuthorizedForGood
<1>1. OnuTypeOK /\ [Next \/ Fault]_vars =>
        [\A r \in Saved : onu[r].status # "UNCONFIGURED" /\ onu'[r] # NoOnu =>
           onu'[r].status # "UNCONFIGURED"]_vars
  BY StatusStays, FaultTypes DEF Next, StepOf
<1> QED BY <1>1, OnuTypes, PTL DEF FaultySpec, AuthorizedForGood

-----------------------------------------------------------------------------
(* A slot is looked at before it is taken *)

(* Whose slot a step may change. *)
LEMMA SlotsChange ==
  ASSUME OnuTypeOK, NEW w \in Workers, StepOf(w), NEW i \in Slots, slot'[i] # slot[i]
  PROVE  /\ job'[w] # job[w]
         /\ \/ job[w].kind \in {"authorize", "migrate"} /\ slot[i] \in {NoSerial, job[w].serial}
            \/ DeleteOlt(w) /\ job[w].kind = "delete" /\ i = job[w].index
<1>1. CASE AuthorizeOlt(w)
  BY <1>1, AuthorizeOltStep DEF Becomes
<1>2. CASE DeleteOlt(w)
  BY <1>2, DeleteOltStep DEF Becomes
<1>3. CASE MigrateOlt(w)
  BY <1>3, MigrateOltStep DEF Becomes
<1>4. CASE slot' = slot
  BY <1>4
<1>5. CASE ScanStep(w) \/ Scan(w) \/ Import(w) \/ Link(w) \/ Authorize(w) \/ Switch(w) \/ Delete(w) \/ Migrate(w)
  BY <1>4, <1>5 DEF ScanStep, ScanFind, ScanKnown, ScanNew, ScanEnd, ScanRemove,
                    Scan, Import, StartScan, Link, Authorize, Switch, Delete, Migrate, Start
<1>6. CASE LinkRow(w) \/ AuthorizeFails(w) \/ AuthorizeConfig(w) \/ AuthorizeRow(w)
           \/ SwitchOlt(w) \/ SwitchRow(w) \/ DeleteRow(w) \/ MigrateFailed(w) \/ MigrateRow(w) \/ Refuse(w)
  BY <1>4, <1>6 DEF LinkRow, AuthorizeFails, AuthorizeConfig, AuthorizeRow, SwitchOlt, SwitchRow,
                    DeleteRow, MigrateFailed, MigrateRow, Refuse
<1> QED BY <1>1, <1>2, <1>3, <1>5, <1>6 DEF StepOf, AuthorizeStep

(* What the driver looks at before "no onu" is enough for the ONUs of others,
   whatever the office overlaps: a slot changes hands in an authorisation or a
   migration of the ONU that is in it, or in a deletion.                   *)
LooksFirst ==
  [][\A i \in Slots : slot[i] # NoSerial /\ slot'[i] # slot[i] =>
       \E w \in Workers :
         /\ job[w].kind \in {"authorize", "migrate", "delete"} /\ job'[w] # job[w]
         /\ job[w].kind # "delete" => slot[i] = job[w].serial]_vars

(* The slot of another ONU is taken by no authorisation and no migration, in any
   office, be it careful or not (the driver's look at the slot, in one session
   with what it writes).                                                   *)
THEOREM LooksBeforeTaking == Spec => LooksFirst
<1>1. OnuTypeOK /\ [Next]_vars =>
        [\A i \in Slots : slot[i] # NoSerial /\ slot'[i] # slot[i] =>
           \E w \in Workers :
             /\ job[w].kind \in {"authorize", "migrate", "delete"} /\ job'[w] # job[w]
             /\ job[w].kind # "delete" => slot[i] = job[w].serial]_vars
  BY SlotsChange DEF Next, StepOf
<1> QED BY <1>1, OnuTypesOfSpec, PTL DEF Spec, LooksFirst

=============================================================================
