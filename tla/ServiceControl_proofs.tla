------------------------ MODULE ServiceControl_proofs ------------------------
(* Proofs about ServiceControl, for any contracts, callers, media and
   requests, any overlap of callers, any restart, and any bounds.            *)
EXTENDS ServiceControl, TLAPS

-----------------------------------------------------------------------------
(* What the helpers return *)

(* The row of a new access is well typed. *)
LEMMA NewRowType == \A s \in Statuses : NewRow(s) \in Row
<1>1. 0 \in 0..MaxAttempts
  BY MaxAttemptsAssumption
<1> QED
  BY <1>1 DEF NewRow, Row

(* An idle or finished call is a call. *)
LEMMA CallTypes ==
  /\ NoCall \in Call /\ NoCall.pc = "idle" /\ NoCall.row = NewRow("PENDING")
  /\ \A r \in Results : Finished(r) \in Call
  /\ \A c \in Contracts, op \in Ops, process \in Processes :
       Requested(c, op, process) \in Call
<1>1. \E c \in Contracts : TRUE
  BY ContractsAssumption
<1>2. (CHOOSE c \in Contracts : TRUE) \in Contracts
  BY <1>1
<1>3. NewRow("PENDING") \in Row
  BY NewRowType DEF Statuses
<1>4. \A c \in Contracts, op \in Ops, process \in Processes :
        Requested(c, op, process) \in Call
  BY <1>3 DEF Requested, Call, Pcs, Results
<1>5. "SYNC" \in Ops /\ "SYSTEM" \in Processes
  BY DEF Ops, Processes
<1>6. NoCall \in Call /\ NoCall.pc = "idle" /\ NoCall.row = NewRow("PENDING")
  BY <1>2, <1>3, <1>5 DEF NoCall, Requested, Call, Pcs, Results
<1>7. \A r \in Results : Finished(r) \in Call
  BY <1>6 DEF Finished, Call, Pcs
<1> QED
  BY <1>4, <1>6, <1>7

(* A call that has read nothing yet holds a blank row. *)
LEMMA FreshRows ==
  /\ NoCall.row = NewRow("PENDING")
  /\ \A x \in Results : Finished(x).row = NewRow("PENDING")
  /\ \A c \in Contracts, op \in Ops, process \in Processes :
       Requested(c, op, process).row = NewRow("PENDING")
BY CallTypes DEF Finished, Requested, Call

(* Rewriting a row gives a row, and a status is always a status. *)
LEMMA RowTypes ==
  ASSUME NEW row \in Row, NEW op \in Ops
  PROVE  /\ Applied(row, op) \in Row
         /\ Transitioned(row, op) \in Row
         /\ op \in Switches => Deferred(row, op) \in Row
<1>1. StatusAfter(op, row) \in Statuses
  BY DEF StatusAfter, Statuses, Row
<1>2. 0 \in 0..MaxAttempts
  BY MaxAttemptsAssumption
<1>3. Applied(row, op) \in Row /\ Transitioned(row, op) \in Row
  BY <1>1, <1>2 DEF Applied, Transitioned, Row
<1>4. ASSUME op \in Switches PROVE Deferred(row, op) \in Row
  <2> DEFINE n == IF row.attempts < MaxAttempts THEN row.attempts + 1 ELSE row.attempts
  <2>1. n \in 0..MaxAttempts
    BY MaxAttemptsAssumption DEF Row
  <2>2. Deferred(row, op) = [row EXCEPT !.pending = op, !.attempts = n,
                                        !.errorCode = "NET_DEVICE_OFFLINE"]
    BY DEF Deferred
  <2>3. op \in {"NONE", "SUSPEND", "RESTORE"}
    BY <1>4 DEF Switches
  <2> HIDE DEF n
  <2> QED
    BY <2>1, <2>2, <2>3 DEF Row
<1> QED
  BY <1>3, <1>4

(* What save() writes is a row; with nobody in between, the row of the entity. *)
LEMMA MergedRows ==
  ASSUME NEW now \in Row, NEW seen \in Row, NEW mine \in Row
  PROVE  /\ Merged(now, seen, mine) \in Row
         /\ Merged(seen, seen, mine) = mine
<1>1. Merged(now, seen, mine) \in Row
  BY DEF Merged, Row
<1>2. Merged(seen, seen, mine) =
        [status |-> mine.status, pending |-> mine.pending, attempts |-> mine.attempts,
         errorCode |-> mine.errorCode]
  BY DEF Merged
<1> QED
  BY <1>1, <1>2 DEF Row

(* What a command leaves on the device is a state of a secret. *)
LEMMA SecretTypes ==
  ASSUME TypeOK, NEW c \in Contracts, NEW op \in Ops
  PROVE  SecretAfter(c, op) \in Secrets
BY DEF SecretAfter, Secrets, TypeOK

-----------------------------------------------------------------------------
(* Type correctness.  Only a switch is probed, and so only a switch can be
   deferred: the fact TypeOK needs to be inductive.                          *)

ProbesSwitches == \A p \in Callers : call[p].pc = "probe" => call[p].op \in Switches

TypeInv == TypeOK /\ ProbesSwitches

(* The initial states are well typed. *)
LEMMA InitTypeInv == Init => TypeInv
<1> SUFFICES ASSUME Init PROVE TypeInv
  OBVIOUS
<1>1. NewRow("PENDING") \in Row /\ NewRow("ACTIVE") \in Row
  BY NewRowType DEF Statuses
<1>2. access \in [Contracts -> Row]
  BY <1>1 DEF Init
<1>3. secret \in [Contracts -> Secrets]
  BY DEF Init, Secrets
<1>4. 0 \in 0..MaxJobs
  BY MaxJobsAssumption
<1>5. jobs \in [Contracts -> [waiting : 0..MaxJobs, failed : 0..MaxJobs]]
  BY <1>4 DEF Init
<1>51. overlap \in [Contracts -> Overlaps]
  BY DEF Init, Overlaps
<1>6. call \in [Callers -> Call] /\ ProbesSwitches
  BY CallTypes DEF Init, ProbesSwitches
<1> QED
  BY <1>2, <1>3, <1>5, <1>51, <1>6 DEF Init, TypeInv, TypeOK

(* What a caller holds has its type. *)
LEMMA HeldTypes ==
  ASSUME TypeOK, NEW p \in Callers
  PROVE  /\ call[p] \in Call /\ call[p].contract \in Contracts
         /\ call[p].op \in Ops /\ call[p].process \in Processes
         /\ call[p].row \in Row /\ call[p].seen \in Row /\ call[p].result \in Results
         /\ access[call[p].contract] \in Row
BY DEF TypeOK, Call

(* Giving one caller a well-typed next state keeps all of them well typed. *)
LEMMA CallUpdate ==
  ASSUME TypeInv, NEW p \in Callers, NEW next \in Call,
         next.pc = "probe" => next.op \in Switches,
         call' = [call EXCEPT ![p] = next]
  PROVE  call' \in [Callers -> Call] /\ ProbesSwitches'
BY DEF TypeInv, TypeOK, ProbesSwitches

(* No statement of an operation breaks a type. *)
LEMMA StepTypeInv ==
  ASSUME TypeInv, NEW p \in Callers, OperationStep(p)
  PROVE  TypeInv'
<1> DEFINE k == call[p]
           c == k.contract
           r == access[c]
<1> USE DEF TypeInv
<1>1. /\ k \in Call /\ c \in Contracts /\ k.op \in Ops /\ k.process \in Processes
      /\ k.row \in Row /\ k.seen \in Row /\ k.result \in Results /\ r \in Row
  BY HeldTypes
<1>2. \A o \in Ops : /\ Requested(c, o, k.process) \in Call
                     /\ Requested(c, o, k.process).pc = "load"
  BY <1>1, CallTypes DEF Requested
<1>3. Applied(k.row, k.op) \in Row /\ Transitioned(k.row, k.op) \in Row
  BY <1>1, RowTypes
<1>4. \A x \in Results : Finished(x) \in Call /\ Finished(x).pc = "done"
  BY CallTypes DEF Finished, Call
<1>5. SecretAfter(c, k.op) \in Secrets
  BY <1>1, SecretTypes
<1>51. Merged(r, k.seen, k.row) \in Row
  BY <1>1, MergedRows
<1>52. DoubtAfter(c, k.op) \subseteq Contracts
  BY <1>1 DEF DoubtAfter, TypeOK
<1>53. CASE SelectRow(p)
  <2> DEFINE next == [k EXCEPT !.pc = IF k.pc = "save" THEN "saving" ELSE "configuring",
                               !.seen = r]
  <2>1. next \in Call /\ next.pc # "probe"
    BY <1>1 DEF Call, Pcs
  <2>2. call' = [call EXCEPT ![p] = next]
    BY <1>53 DEF SelectRow
  <2> HIDE DEF next
  <2>3. call' \in [Callers -> Call] /\ ProbesSwitches'
    BY <2>1, <2>2, CallUpdate
  <2> QED
    BY <1>53, <2>3 DEF SelectRow, TypeOK
<1>6. CASE LoadAccess(p)
  <2> DEFINE op == IF k.op = "RETRY" THEN r.pending ELSE k.op
  <2>1. \A o \in Switches : o \in Ops /\ Applied(r, o) \in Row
    BY <1>1, RowTypes DEF Ops
  <2> DEFINE Good(next) == next \in Call /\ (next.pc = "probe" => next.op \in Switches)
  <2>2. \A o \in Switches :
          /\ Good([k EXCEPT !.pc = "save", !.op = o, !.row = Applied(r, o),
                            !.result = "applied"])
          /\ Good([k EXCEPT !.pc = "probe", !.op = o, !.row = r])
    BY <1>1, <2>1 DEF Call, Pcs, Results
  <2>3. /\ Good([k EXCEPT !.pc = "configure", !.row = r])
        /\ Good([k EXCEPT !.pc = "exec", !.row = r])
        /\ Good(Finished("applied"))
    BY <1>1, <1>4 DEF Call, Pcs, Results
  <2>4. \/ Loaded(k, r) = Finished("applied")
        \/ /\ op \in Switches
           /\ Loaded(k, r) \in {[k EXCEPT !.pc = "save", !.op = op, !.row = Applied(r, op),
                                          !.result = "applied"],
                                [k EXCEPT !.pc = "probe", !.op = op, !.row = r]}
        \/ Loaded(k, r) = [k EXCEPT !.pc = "configure", !.row = r]
        \/ Loaded(k, r) = [k EXCEPT !.pc = "exec", !.row = r]
    BY DEF Loaded
  <2> HIDE DEF Good, op
  <2>5. Good(Loaded(k, r))
    BY <2>2, <2>3, <2>4
  <2>6. call' = [call EXCEPT ![p] = Loaded(k, r)]
    BY <1>6 DEF LoadAccess
  <2>7. call' \in [Callers -> Call] /\ ProbesSwitches'
    BY <2>5, <2>6, CallUpdate DEF Good
  <2> QED
    BY <1>6, <2>7 DEF LoadAccess, TypeOK
<1>7. CASE SaveConfiguration(p)
  <2> DEFINE on == [k EXCEPT !.pc = "exec", !.seen = NewRow("PENDING")]
  <2>1. on \in Call /\ on.pc = "exec"
    BY <1>1, NewRowType DEF Call, Pcs, Statuses
  <2>2. PICK next : /\ call' = [call EXCEPT ![p] = next]
                    /\ next \in {on, Requested(c, "SYNC", k.process)}
    BY <1>7 DEF SaveConfiguration
  <2>3. next \in Call /\ next.pc # "probe"
    BY <1>2, <2>1, <2>2 DEF Ops
  <2>4. call' \in [Callers -> Call] /\ ProbesSwitches'
    BY <2>2, <2>3, CallUpdate
  <2> QED
    BY <1>1, <1>7, <1>51, <2>4 DEF SaveConfiguration, TypeOK
<1>8. CASE EnsureOnline(p)
  <2>1. k.op \in Switches
    BY <1>8 DEF EnsureOnline, ProbesSwitches
  <2>2. Deferred(k.row, k.op) \in Row
    BY <1>1, <2>1, RowTypes
  <2>3. /\ [k EXCEPT !.pc = "exec"] \in Call
        /\ [k EXCEPT !.pc = "save", !.result = "offline", !.row = Deferred(k.row, k.op)] \in Call
    BY <1>1, <2>2 DEF Call, Pcs, Results
  <2>4. Probed(k) \in Call /\ Probed(k).pc # "probe"
    BY <1>1, <1>4, <2>3 DEF Probed, Call, Results
  <2>5. call' = [call EXCEPT ![p] = Probed(k)]
    BY <1>8 DEF EnsureOnline
  <2>6. call' \in [Callers -> Call] /\ ProbesSwitches'
    BY <2>4, <2>5, CallUpdate
  <2> QED
    BY <1>8, <2>6 DEF EnsureOnline, TypeOK
<1>9. CASE PortSucceeds(p)
  <2> DEFINE next == [k EXCEPT !.pc = "save", !.result = "applied",
                               !.row = IF k.op \in Switches THEN Applied(k.row, k.op)
                                                            ELSE Transitioned(k.row, k.op)]
  <2>1. next \in Call /\ next.pc # "probe"
    BY <1>1, <1>3 DEF Call, Pcs, Results
  <2>2. call' = [call EXCEPT ![p] = next]
    BY <1>9 DEF PortSucceeds
  <2> HIDE DEF next
  <2>3. call' \in [Callers -> Call] /\ ProbesSwitches'
    BY <2>1, <2>2, CallUpdate
  <2>4. doubt' \subseteq Contracts /\ secret' \in [Contracts -> Secrets]
    BY <1>1, <1>5, <1>9, <1>52 DEF PortSucceeds, TypeOK
  <2> QED
    BY <1>9, <2>3, <2>4 DEF PortSucceeds, TypeOK
<1>10. CASE \E obeyed \in BOOLEAN : PortFails(p, obeyed)
  <2>1. PICK obeyed \in BOOLEAN : PortFails(p, obeyed)
    BY <1>10
  <2> DEFINE next == [k EXCEPT !.pc = "save",
                               !.result = IF k.process = "MANUAL" /\ k.op \in Switches
                                            THEN "conflict" ELSE "exec_error"]
  <2>2. next \in Call /\ next.pc # "probe"
    BY <1>1 DEF Call, Pcs, Results
  <2>3. call' = [call EXCEPT ![p] = next]
    BY <2>1 DEF PortFails
  <2> HIDE DEF next
  <2>4. call' \in [Callers -> Call] /\ ProbesSwitches'
    BY <2>2, <2>3, CallUpdate
  <2>5. doubt' \subseteq Contracts
    BY <1>52, <2>1 DEF PortFails, TypeOK
  <2>6. secret' \in [Contracts -> Secrets]
    BY <1>1, <1>5, <2>1 DEF PortFails, TypeOK
  <2> QED
    BY <2>1, <2>4, <2>5, <2>6 DEF PortFails, TypeOK
<1>11. CASE SaveAccess(p)
  <2>1. \A n : n \in Call => [n EXCEPT !.pc = "enqueue"] \in Call
    BY DEF Call, Pcs
  <2>11. \A n : n \in Call => [n EXCEPT !.pc = "enqueue"].pc = "enqueue"
    BY DEF Call
  <2>2. Saved(k) \in Call /\ Saved(k).pc # "probe"
    BY <1>1, <1>2, <1>4, <2>1, <2>11 DEF Saved, Ops
  <2>3. call' = [call EXCEPT ![p] = Saved(k)]
    BY <1>11 DEF SaveAccess
  <2>4. call' \in [Callers -> Call] /\ ProbesSwitches'
    BY <2>2, <2>3, CallUpdate
  <2>5. doubt' \subseteq Contracts
    BY <1>11 DEF SaveAccess, TypeOK
  <2>6. overlap' \in [Contracts -> Overlaps]
    BY <1>11 DEF SaveAccess, TypeOK, Overlaps
  <2> QED
    BY <1>1, <1>11, <1>51, <2>4, <2>5, <2>6 DEF SaveAccess, TypeOK
<1>12. CASE EnqueueRetry(p)
  <2>1. call' \in [Callers -> Call] /\ ProbesSwitches'
    BY <1>4, <1>12, CallUpdate DEF EnqueueRetry, Results
  <2>2. jobs' \in [Contracts -> [waiting : 0..MaxJobs, failed : 0..MaxJobs]]
    BY <1>1, <1>12, MaxJobsAssumption DEF EnqueueRetry, TypeOK
  <2> QED
    BY <1>12, <2>1, <2>2 DEF EnqueueRetry, TypeOK
<1> QED
  BY <1>6, <1>53, <1>7, <1>8, <1>9, <1>10, <1>11, <1>12 DEF OperationStep

(* Nor does anything that happens around the operations. *)
LEMMA NextTypeInv == TypeInv /\ [Next]_scVars => TypeInv'
<1> SUFFICES ASSUME TypeInv, [Next]_scVars PROVE TypeInv'
  OBVIOUS
<1> USE DEF TypeInv
<1>1. ASSUME NEW p \in Callers, Request(p) PROVE TypeInv'
  <2>1. PICK c \in Contracts, r \in Requests[p] : Begin(p, c, r[1], r[2])
    BY <1>1 DEF Request
  <2>2. r[1] \in Ops /\ r[2] \in Processes
    BY RequestsAssumption
  <2>21. overlap' \in [Contracts -> Overlaps]
    BY <2>1 DEF Begin, TypeOK, Overlaps
  <2>3. /\ Requested(c, r[1], r[2]) \in Call
        /\ Requested(c, r[1], r[2]).pc # "probe"
    BY <2>2, CallTypes DEF Requested
  <2>4. call' \in [Callers -> Call] /\ ProbesSwitches'
    BY <2>1, <2>3, CallUpdate DEF Begin
  <2> QED
    BY <1>1, <2>21, <2>4 DEF Request, TypeOK
<1>2. ASSUME NEW p \in Callers, OperationStep(p) PROVE TypeInv'
  BY <1>2, StepTypeInv
<1>3. ASSUME NEW p \in Callers, Return(p) PROVE TypeInv'
  <2>1. call' \in [Callers -> Call] /\ ProbesSwitches'
    BY <1>3, CallTypes, CallUpdate DEF Return
  <2> QED
    BY <1>3, <2>1 DEF Return, TypeOK
<1>4. ASSUME NEW c \in Contracts, RunRetryJob(c) PROVE TypeInv'
  <2>1. jobs' \in [Contracts -> [waiting : 0..MaxJobs, failed : 0..MaxJobs]]
    <3> DEFINE failed == IF jobs[c].failed < MaxJobs THEN jobs[c].failed + 1 ELSE jobs[c].failed
    <3>1. jobs[c].waiting - 1 \in 0..MaxJobs /\ failed \in 0..MaxJobs
      BY <1>4, MaxJobsAssumption DEF RunRetryJob, TypeOK
    <3>2. jobs' = [jobs EXCEPT ![c].waiting = jobs[c].waiting - 1, ![c].failed = failed]
      BY <1>4 DEF RunRetryJob
    <3> HIDE DEF failed
    <3> QED
      BY <3>1, <3>2 DEF TypeOK
  <2> QED
    BY <1>4, <2>1 DEF RunRetryJob, TypeOK, ProbesSwitches
<1>5. ASSUME NEW c \in Contracts, DeviceChanges(c) PROVE TypeInv'
  BY <1>5 DEF DeviceChanges, TypeOK, ProbesSwitches
<1>6. CASE Crash
  BY <1>6, CallTypes DEF Crash, Unqueued, TypeOK, ProbesSwitches
<1>7. CASE UNCHANGED scVars
  BY <1>7 DEF scVars, TypeOK, ProbesSwitches
<1> QED
  BY <1>1, <1>2, <1>3, <1>4, <1>5, <1>6, <1>7 DEF Next, ProcessNext

(* Every reachable state of ServiceControl is well typed: in particular only a
   switch is ever recorded as the pending operation of an access.            *)
THEOREM TypeCorrect == Spec => []TypeOK
<1>1. TypeInv => TypeOK
  BY DEF TypeInv
<1> QED
  BY InitTypeInv, NextTypeInv, <1>1, PTL DEF Spec

-----------------------------------------------------------------------------
(* A call whose contract nobody else works on finds in the table the row that it
   holds, or the one it has rewritten, from its read to its save.            *)

(* What a call makes of the row that it has read when it comes to save it. *)
Rewritten(k, r) ==
  IF k.result = "applied" THEN IF k.op \in Switches THEN Applied(r, k.op) ELSE Transitioned(r, k.op)
  ELSE IF k.result = "offline" THEN Deferred(r, k.op) ELSE r

Faithful(k, r) ==
  /\ k.pc \in {"configure", "configuring", "probe", "exec"} => k.row = r
  /\ k.pc \in {"save", "saving"} => /\ k.row = Rewritten(k, r)
                                    /\ k.result = "offline" => k.op \in Switches
  /\ k.pc \in {"configuring", "saving"} => k.seen = r

CleanInv ==
  \A c \in Contracts, p \in Callers : overlap[c] # "NOW" /\ Working(p, c) =>
    /\ \A q \in Callers : Working(q, c) => q = p
    /\ Faithful(call[p], access[c])

(* Whoever takes a step of an operation is working on its contract. *)
LEMMA StepWorks ==
  ASSUME NEW p \in Callers, OperationStep(p) PROVE Working(p, call[p].contract)
BY DEF OperationStep, LoadAccess, SelectRow, SaveConfiguration, EnsureOnline, PortSucceeds,
       PortFails, SaveAccess, EnqueueRetry, Working

(* A step of p, on its contract c, leaves the calls of other contracts alone. *)
LEMMA CleanUpdate ==
  ASSUME TypeInv, CleanInv, NEW p \in Callers, NEW c \in Contracts, Working(p, c),
         NEW next, call' = [call EXCEPT ![p] = next],
         next.pc \notin {"idle", "done"} => next.contract = c,
         \A d \in Contracts \ {c} : access'[d] = access[d] /\ overlap'[d] = overlap[d],
         overlap'[c] # "NOW" => overlap[c] # "NOW",
         overlap[c] # "NOW" => Faithful(next, access'[c])
  PROVE  CleanInv'
<1>1. call'[p] = next /\ \A q \in Callers \ {p} : call'[q] = call[q]
  BY DEF TypeInv, TypeOK
<1>2. \A q \in Callers, d \in Contracts : Working(q, d)' => Working(q, d)
  BY <1>1 DEF Working
<1>3. ASSUME NEW d \in Contracts, NEW q \in Callers, overlap'[d] # "NOW", Working(q, d)'
      PROVE  /\ \A x \in Callers : Working(x, d)' => x = q
             /\ Faithful(call'[q], access'[d])
  <2>1. overlap[d] # "NOW" /\ Working(q, d)
    BY <1>2, <1>3
  <2>2. /\ \A x \in Callers : Working(x, d) => x = q
        /\ Faithful(call[q], access[d])
    BY <2>1 DEF CleanInv
  <2>3. Faithful(call'[q], access'[d])
    <3>1. CASE d = c
      BY <1>1, <2>1, <2>2, <3>1
    <3>2. CASE d # c
      BY <1>1, <1>3, <2>2, <3>2 DEF Working
    <3> QED BY <3>1, <3>2
  <2> QED BY <1>2, <2>2, <2>3
<1> QED BY <1>3 DEF CleanInv

(* A call carries its row along and saves what it made of it. *)
LEMMA StepClean ==
  ASSUME TypeInv, CleanInv, NEW p \in Callers, OperationStep(p)
  PROVE  CleanInv'
<1> USE DEF TypeInv
<1> DEFINE k == call[p]
<1>1. PICK c \in Contracts : k.contract = c
  BY HeldTypes
<1>2. PICK r \in Row : access[c] = r
  BY <1>1, HeldTypes
<1>3. /\ k \in Call /\ k.op \in Ops /\ k.process \in Processes
      /\ k.row \in Row /\ k.seen \in Row /\ k.result \in Results
  BY HeldTypes
<1>4. Working(p, c)
  BY <1>1, StepWorks
<1>5. \A x \in Results : Finished(x).pc = "done"
  BY CallTypes DEF Finished, Call
<1>6. overlap[c] # "NOW" => Faithful(k, r)
  BY <1>2, <1>4 DEF CleanInv
<1> DEFINE Good(n) == /\ n.pc \notin {"idle", "done"} => n.contract = c
                      /\ overlap[c] # "NOW" => Faithful(n, r)
<1>7. ASSUME NEW n, Good(n), call' = [call EXCEPT ![p] = n], UNCHANGED <<access, overlap>>
      PROVE  CleanInv'
  BY <1>2, <1>4, <1>7, CleanUpdate
<1>8. CASE LoadAccess(p)
  <2> DEFINE op == IF k.op = "RETRY" THEN r.pending ELSE k.op
  <2>1. \/ Loaded(k, r) = Finished("applied")
        \/ /\ Loaded(k, r) = [k EXCEPT !.pc = "save", !.op = op, !.row = Applied(r, op),
                                       !.result = "applied"]
           /\ op \in Switches
        \/ Loaded(k, r) = [k EXCEPT !.pc = "probe", !.op = op, !.row = r]
        \/ Loaded(k, r) = [k EXCEPT !.pc = "configure", !.row = r]
        \/ Loaded(k, r) = [k EXCEPT !.pc = "exec", !.row = r]
    BY <1>1 DEF Loaded
  <2> HIDE DEF op
  <2>2. Good(Finished("applied"))
    BY <1>5 DEF Results, Faithful
  <2>3. ASSUME op \in Switches
        PROVE  Good([k EXCEPT !.pc = "save", !.op = op, !.row = Applied(r, op),
                              !.result = "applied"])
    BY <1>1, <1>3, <2>3 DEF Call, Faithful, Rewritten
  <2>4. /\ Good([k EXCEPT !.pc = "probe", !.op = op, !.row = r])
        /\ Good([k EXCEPT !.pc = "configure", !.row = r])
        /\ Good([k EXCEPT !.pc = "exec", !.row = r])
    BY <1>1, <1>3 DEF Call, Faithful
  <2> HIDE DEF Good
  <2>5. Good(Loaded(k, r))
    BY <2>1, <2>2, <2>3, <2>4
  <2> QED BY <1>1, <1>2, <1>7, <1>8, <2>5 DEF LoadAccess
<1>9. CASE SelectRow(p)
  <2> DEFINE n == [k EXCEPT !.pc = IF k.pc = "save" THEN "saving" ELSE "configuring", !.seen = r]
  <2>1. /\ n.contract = c /\ n.row = k.row /\ n.seen = r /\ n.op = k.op /\ n.result = k.result
        /\ n.pc = IF k.pc = "save" THEN "saving" ELSE "configuring"
    BY <1>1, <1>3 DEF Call
  <2>2. k.pc \in {"configure", "save"} /\ call' = [call EXCEPT ![p] = n]
    BY <1>1, <1>2, <1>9 DEF SelectRow
  <2> HIDE DEF n
  <2>3. Good(n)
    BY <1>6, <2>1, <2>2 DEF Faithful, Rewritten
  <2> QED BY <1>7, <1>9, <2>2, <2>3 DEF SelectRow
<1>10. CASE SaveConfiguration(p)
  <2>1. /\ access' = [access EXCEPT ![c] = Merged(r, k.seen, k.row)]
        /\ k.pc = "configuring" /\ UNCHANGED overlap
    BY <1>1, <1>2, <1>10 DEF SaveConfiguration
  <2>2. overlap[c] # "NOW" => access'[c] = r /\ k.row = r
    BY <1>2, <1>3, <1>6, <2>1, MergedRows DEF TypeOK, Faithful
  <2>3. \A d \in Contracts \ {c} : access'[d] = access[d]
    BY <2>1 DEF TypeOK
  <2>4. PICK n : /\ call' = [call EXCEPT ![p] = n]
                 /\ n \in {[k EXCEPT !.pc = "exec", !.seen = NewRow("PENDING")],
                           Requested(c, "SYNC", k.process)}
    BY <1>1, <1>10 DEF SaveConfiguration
  <2>5. n.contract = c /\ n.pc \in {"exec", "load"} /\ (n.pc = "exec" => n.row = k.row)
    <3>1. \A x : x = [k EXCEPT !.pc = "exec", !.seen = NewRow("PENDING")] =>
            x.contract = c /\ x.pc = "exec" /\ x.row = k.row
      BY <1>1, <1>3 DEF Call
    <3>2. \A x : x = Requested(c, "SYNC", k.process) => x.contract = c /\ x.pc = "load"
      BY DEF Requested
    <3> QED BY <2>4, <3>1, <3>2
  <2>6. overlap[c] # "NOW" => Faithful(n, access'[c])
    BY <2>2, <2>5 DEF Faithful
  <2> QED BY <1>4, <2>1, <2>3, <2>4, <2>5, <2>6, CleanUpdate
<1>11. CASE EnsureOnline(p)
  <2>1. k.op \in Switches /\ (overlap[c] # "NOW" => k.row = r)
    BY <1>6, <1>11 DEF EnsureOnline, ProbesSwitches, Faithful
  <2>2. Good([k EXCEPT !.pc = "exec"])
    BY <1>1, <1>3, <2>1 DEF Call, Faithful
  <2>3. Good([k EXCEPT !.pc = "save", !.result = "offline", !.row = Deferred(k.row, k.op)])
    BY <1>1, <1>3, <2>1 DEF Call, Faithful, Rewritten
  <2>4. Good(Finished("conflict"))
    BY <1>5 DEF Results, Faithful
  <2> HIDE DEF Good
  <2>5. Good(Probed(k))
    BY <2>2, <2>3, <2>4 DEF Probed
  <2> QED BY <1>7, <1>11, <2>5 DEF EnsureOnline
<1>12. CASE PortSucceeds(p)
  <2> DEFINE n == [k EXCEPT !.pc = "save", !.result = "applied",
                            !.row = IF k.op \in Switches THEN Applied(k.row, k.op)
                                                         ELSE Transitioned(k.row, k.op)]
  <2>1. overlap[c] # "NOW" => k.row = r
    BY <1>6, <1>12 DEF PortSucceeds, Faithful
  <2>2. Good(n)
    BY <1>1, <1>3, <2>1 DEF Call, Faithful, Rewritten
  <2>3. call' = [call EXCEPT ![p] = n] /\ UNCHANGED <<access, overlap>>
    BY <1>12 DEF PortSucceeds
  <2> HIDE DEF n, Good
  <2> QED BY <1>7, <2>2, <2>3
<1>13. CASE \E obeyed \in BOOLEAN : PortFails(p, obeyed)
  <2> DEFINE n == [k EXCEPT !.pc = "save",
                            !.result = IF k.process = "MANUAL" /\ k.op \in Switches
                                         THEN "conflict" ELSE "exec_error"]
  <2>1. overlap[c] # "NOW" => k.row = r
    BY <1>6, <1>13 DEF PortFails, Faithful
  <2>2. Good(n)
    BY <1>1, <1>3, <2>1 DEF Call, Faithful, Rewritten
  <2>3. call' = [call EXCEPT ![p] = n] /\ UNCHANGED <<access, overlap>>
    BY <1>13 DEF PortFails
  <2> HIDE DEF n, Good
  <2> QED BY <1>7, <2>2, <2>3
<1>14. CASE SaveAccess(p)
  <2>1. /\ \A d \in Contracts \ {c} : access'[d] = access[d] /\ overlap'[d] = overlap[d]
        /\ overlap'[c] # "NOW" => overlap[c] # "NOW"
        /\ call' = [call EXCEPT ![p] = Saved(k)]
    BY <1>1, <1>14 DEF SaveAccess, TypeOK, Recorded
  <2>2. /\ Saved(k).pc \in {"enqueue", "load", "done"}
        /\ Saved(k).pc # "done" => Saved(k).contract = c
    <3>1. \A o \in Ops : /\ Requested(c, o, k.process).contract = c
                         /\ Requested(c, o, k.process).pc = "load"
                         /\ [Requested(c, o, k.process) EXCEPT !.pc = "enqueue"].pc = "enqueue"
                         /\ [Requested(c, o, k.process) EXCEPT !.pc = "enqueue"].contract = c
      BY DEF Requested
    <3> QED BY <1>1, <1>3, <1>5, <3>1 DEF Saved, Ops
  <2>3. PICK n : n = Saved(k)
    OBVIOUS
  <2>4. /\ n.pc \in {"enqueue", "load", "done"} /\ Faithful(n, access'[c])
        /\ n.pc # "done" => n.contract = c
    BY <2>2, <2>3 DEF Faithful
  <2> QED BY <1>4, <2>1, <2>3, <2>4, CleanUpdate
<1>15. CASE EnqueueRetry(p)
  <2>1. Good(Finished("offline"))
    BY <1>5 DEF Results, Faithful
  <2> HIDE DEF Good
  <2> QED BY <1>7, <1>15, <2>1 DEF EnqueueRetry
<1> QED
  BY <1>8, <1>9, <1>10, <1>11, <1>12, <1>13, <1>14, <1>15 DEF OperationStep

(* Whoever begins marks the contract as soon as somebody else works on it. *)
LEMMA BeginClean ==
  ASSUME TypeInv, CleanInv, NEW p \in Callers, NEW c \in Contracts, NEW op \in Ops,
         NEW process \in Processes, Begin(p, c, op, process), UNCHANGED access
  PROVE  CleanInv'
<1>1. /\ call'[p].pc = "load" /\ call'[p].contract = c
      /\ \A q \in Callers \ {p} : call'[q] = call[q]
  BY DEF Begin, Requested, TypeInv, TypeOK
<1>2. ~Working(p, c)
  BY DEF Begin, Idle, Working
<1>3. ASSUME NEW d \in Contracts, NEW q \in Callers, overlap'[d] # "NOW", Working(q, d)'
      PROVE  /\ \A x \in Callers : Working(x, d)' => x = q
             /\ Faithful(call'[q], access'[d])
  <2>1. CASE d = c
    <3>1. \A x \in Callers : ~Working(x, c)
      BY <1>3, <2>1 DEF Begin, TypeInv, TypeOK
    <3>2. \A x \in Callers : Working(x, c)' => x = p
      BY <1>1, <3>1 DEF Working
    <3> QED BY <1>1, <1>3, <2>1, <3>2 DEF Faithful
  <2>2. CASE d # c
    <3>1. overlap'[d] = overlap[d]
      BY <2>2 DEF Begin, TypeInv, TypeOK
    <3>2. \A x \in Callers : Working(x, d)' => Working(x, d) /\ call'[x] = call[x]
      BY <1>1, <2>2 DEF Working
    <3> QED BY <1>3, <3>1, <3>2 DEF CleanInv
  <2> QED BY <2>1, <2>2
<1> QED BY <1>3 DEF CleanInv

LEMMA InitClean == Init => CleanInv
BY CallTypes DEF Init, CleanInv, Working

(* So does every step of the system. *)
LEMMA NextClean == TypeInv /\ CleanInv /\ [Next]_scVars => CleanInv'
<1> SUFFICES ASSUME TypeInv, CleanInv, [Next]_scVars PROVE CleanInv'
  OBVIOUS
<1>1. ASSUME NEW p \in Callers, Request(p) PROVE CleanInv'
  <2>1. PICK c \in Contracts, r \in Requests[p] : Begin(p, c, r[1], r[2])
    BY <1>1 DEF Request
  <2>2. r[1] \in Ops /\ r[2] \in Processes
    BY RequestsAssumption
  <2> QED BY <1>1, <2>1, <2>2, BeginClean DEF Request
<1>2. ASSUME UNCHANGED <<access, overlap>>,
             \A q \in Callers : call'[q] = call[q] \/ call'[q].pc \in {"idle", "done"}
      PROVE  CleanInv'
  BY <1>2 DEF CleanInv, Working
<1>3. ASSUME NEW p \in Callers, Return(p) PROVE CleanInv'
  BY <1>2, <1>3, CallTypes DEF Return, TypeInv, TypeOK
<1>4. CASE Crash
  BY <1>2, <1>4, CallTypes DEF Crash
<1>5. CASE UNCHANGED <<access, overlap, call>>
  BY <1>2, <1>5
<1> QED
  BY <1>1, <1>3, <1>4, <1>5, StepClean DEF Next, ProcessNext, RunRetryJob, DeviceChanges, scVars

-----------------------------------------------------------------------------
(* Consistency of the pending columns. *)

(* Each way a row is rewritten changes the three columns together, and a switch
   that is applied puts them right whatever they said.                       *)
LEMMA RewritesConsistent ==
  ASSUME NEW k \in Call, NEW r \in Row, k.result = "offline" => k.op \in Switches,
         RowConsistent(r) \/ (k.result = "applied" /\ k.op \in Switches)
  PROVE  RowConsistent(Rewritten(k, r))
<1>1. RowConsistent(Applied(r, k.op))
  BY DEF RowConsistent, Applied, Row
<1>2. RowConsistent(r) => RowConsistent(Transitioned(r, k.op))
  BY DEF RowConsistent, Transitioned, Row
<1>3. ASSUME k.op \in Switches PROVE RowConsistent(Deferred(r, k.op))
  <2>1. Deferred(r, k.op).pending # "NONE" /\ Deferred(r, k.op).errorCode = "NET_DEVICE_OFFLINE"
    BY <1>3 DEF Deferred, Switches, Row
  <2>2. Deferred(r, k.op).attempts = IF r.attempts < MaxAttempts THEN r.attempts + 1 ELSE r.attempts
    BY DEF Deferred, Row
  <2>3. Deferred(r, k.op).attempts > 0
    BY <2>2, MaxAttemptsAssumption DEF Row
  <2> QED BY <2>1, <2>3 DEF RowConsistent
<1> QED BY <1>1, <1>2, <1>3 DEF Rewritten

(* Only a save writes a row, and it leaves it consistent unless it overlaps. *)
LEMMA NextPending ==
  TypeInv /\ CleanInv /\ PendingConsistent /\ [Next]_scVars => PendingConsistent'
<1> SUFFICES ASSUME TypeInv, CleanInv, PendingConsistent, [Next]_scVars,
                    NEW c \in Contracts, overlap'[c] = "NEVER"
             PROVE  RowConsistent(access'[c])
  BY DEF PendingConsistent
<1> USE DEF TypeInv
<1>1. CASE UNCHANGED <<access, overlap>>
  BY <1>1 DEF PendingConsistent
<1>2. ASSUME NEW p \in Callers, SaveConfiguration(p) PROVE RowConsistent(access'[c])
  <2>1. CASE call[p].contract # c
    BY <1>2, <2>1 DEF SaveConfiguration, PendingConsistent, TypeOK
  <2>2. CASE call[p].contract = c
    <3>1. Faithful(call[p], access[c])
      BY <1>2, <2>2, StepWorks DEF OperationStep, CleanInv, SaveConfiguration
    <3>2. call[p].seen = access[c] /\ call[p].row = access[c]
      BY <1>2, <3>1 DEF SaveConfiguration, Faithful
    <3>3. access'[c] = Merged(access[c], access[c], access[c])
      BY <1>2, <2>2, <3>2 DEF SaveConfiguration, TypeOK
    <3>4. access'[c] = access[c] /\ overlap[c] = "NEVER"
      BY <1>2, <3>3, MergedRows DEF SaveConfiguration, TypeOK
    <3> QED BY <3>4 DEF PendingConsistent
  <2> QED BY <2>1, <2>2
<1>3. ASSUME NEW p \in Callers, SaveAccess(p) PROVE RowConsistent(access'[c])
  <2>1. CASE call[p].contract # c
    BY <1>3, <2>1 DEF SaveAccess, PendingConsistent, TypeOK
  <2>2. CASE call[p].contract = c
    <3>1. /\ overlap[c] # "NOW"
          /\ overlap[c] = "NEVER" \/ (call[p].result = "applied" /\ call[p].op \in Switches)
      BY <1>3, <2>2 DEF SaveAccess, Recorded, TypeOK
    <3>2. Faithful(call[p], access[c]) /\ call[p].pc = "saving"
      BY <1>3, <2>2, <3>1, StepWorks DEF OperationStep, CleanInv, SaveAccess
    <3>3. access'[c] = Merged(access[c], access[c], call[p].row)
      BY <1>3, <2>2, <3>2 DEF SaveAccess, Faithful, TypeOK
    <3>4. access'[c] = Rewritten(call[p], access[c])
      BY <3>2, <3>3, HeldTypes, MergedRows DEF Faithful, TypeOK
    <3> QED BY <3>1, <3>2, <3>4, HeldTypes, RewritesConsistent
               DEF Faithful, PendingConsistent, TypeOK
  <2> QED BY <2>1, <2>2
<1>4. ASSUME NEW p \in Callers, Request(p) PROVE RowConsistent(access'[c])
  BY <1>4 DEF Request, Begin, PendingConsistent, TypeOK
<1> QED
  BY <1>1, <1>2, <1>3, <1>4
     DEF Next, ProcessNext, OperationStep, LoadAccess, SelectRow, EnsureOnline, PortSucceeds,
         PortFails, EnqueueRetry, Return, RunRetryJob, DeviceChanges, Crash, scVars

(* pendingOperation, pendingAttempts and lastErrorCode tell the same story, for
   any number of callers and contracts, any overlap and any restart, except from
   an overlap on that contract to the next switch that begins alone and is
   confirmed: one such switch heals whatever mixture the saves have left.    *)
THEOREM PendingColumnsConsistent == Spec => []PendingConsistent
<1>1. Init => PendingConsistent
  BY DEF Init, PendingConsistent, RowConsistent, NewRow
<1> QED
  BY InitTypeInv, NextTypeInv, InitClean, NextClean, NextPending, <1>1, PTL DEF Spec

-----------------------------------------------------------------------------
(* A deferred operation reaches the queue.  A row that carries a pending
   operation can be held, stale, by any caller; the only one that the queue need
   not have heard of is about to be saved and enqueued, or was caught there by a
   restart.                                                                  *)

Told(c) == c \in dropped \cup Unqueued \/ jobs[c].waiting + jobs[c].failed > 0

Deferring(k) == k.pc \in {"save", "saving"} /\ k.result = "offline"

(* The call holds a row of c with a pending operation that has been saved. *)
Holds(k, c) == k.contract = c /\ k.row.pending # "NONE" /\ ~Deferring(k)

QueuedInv ==
  /\ DeferredIsQueued
  /\ \A p \in Callers, c \in Contracts : Holds(call[p], c) => Told(c)

(* Once the queue has heard of a contract, it never forgets it: a job that
   fails stays in the failed set, and a caller about to enqueue does, or is
   counted among the dropped.                                                *)
LEMMA StaysTold ==
  ASSUME TypeInv, NEW c \in Contracts, Told(c),
         \/ UNCHANGED <<jobs, call, dropped>>
         \/ \E d \in Contracts : RunRetryJob(d)
         \/ \E p \in Callers : EnqueueRetry(p)
         \/ Crash
         \/ \E p \in Callers : /\ call[p].pc # "enqueue"
                              /\ UNCHANGED <<jobs, dropped>>
                              /\ \E next : call' = [call EXCEPT ![p] = next]
  PROVE  Told(c)'
<1> USE DEF TypeInv
<1>1. jobs[c].waiting \in 0..MaxJobs /\ jobs[c].failed \in 0..MaxJobs
  BY DEF TypeOK
<1>2. CASE UNCHANGED <<jobs, call, dropped>>
  BY <1>2 DEF Told, Unqueued
<1>3. ASSUME NEW d \in Contracts, RunRetryJob(d) PROVE Told(c)'
  <2>1. CASE d = c
    <3>1. /\ jobs'[c].waiting = jobs[c].waiting - 1
          /\ jobs'[c].failed = IF jobs[c].failed < MaxJobs THEN jobs[c].failed + 1
                                                          ELSE jobs[c].failed
      BY <1>3, <2>1 DEF RunRetryJob, TypeOK
    <3>2. jobs'[c].waiting + jobs'[c].failed > 0
      BY <1>1, <1>3, <2>1, <3>1, MaxJobsAssumption DEF RunRetryJob
    <3> QED BY <3>2 DEF Told
  <2>2. CASE d # c
    BY <1>3, <2>2 DEF RunRetryJob, TypeOK, Told, Unqueued
  <2> QED BY <2>1, <2>2
<1>4. ASSUME NEW p \in Callers, EnqueueRetry(p) PROVE Told(c)'
  <2>1. CASE call[p].contract = c
    <3>1. /\ jobs'[c].waiting = IF jobs[c].waiting < MaxJobs THEN jobs[c].waiting + 1
                                                            ELSE jobs[c].waiting
          /\ jobs'[c].failed = jobs[c].failed
      BY <1>4, <2>1 DEF EnqueueRetry, TypeOK
    <3>2. jobs'[c].waiting + jobs'[c].failed > 0
      BY <1>1, <3>1, MaxJobsAssumption
    <3> QED BY <3>2 DEF Told
  <2>2. CASE call[p].contract # c
    <3>1. jobs'[c] = jobs[c] /\ dropped' = dropped
      BY <1>4, <2>2 DEF EnqueueRetry, TypeOK
    <3>2. \A q \in Callers : call[q].contract = c => call'[q] = call[q]
      BY <1>4, <2>2 DEF EnqueueRetry, TypeOK
    <3> QED BY <3>1, <3>2 DEF Told, Unqueued
  <2> QED BY <2>1, <2>2
<1>5. CASE Crash
  BY <1>5 DEF Crash, Told
<1>6. ASSUME NEW p \in Callers, call[p].pc # "enqueue", UNCHANGED <<jobs, dropped>>,
             NEW next, call' = [call EXCEPT ![p] = next]
      PROVE  Told(c)'
  <2>1. \A q \in Callers : call[q].pc = "enqueue" => call'[q] = call[q]
    BY <1>6 DEF TypeOK
  <2> QED BY <1>6, <2>1 DEF Told, Unqueued
<1> QED BY <1>2, <1>3, <1>4, <1>5, <1>6

(* A caller's step keeps the invariant when what it now holds, and what it
   wrote, are known to the queue.                                            *)
LEMMA QueuedUpdate ==
  ASSUME TypeInv, QueuedInv, NEW p \in Callers, call[p].pc # "enqueue",
         UNCHANGED <<jobs, dropped>>,
         NEW next, call' = [call EXCEPT ![p] = next],
         NEW c \in Contracts, call[p].contract = c,
         \A d \in Contracts : Holds(next, d) => d = c /\ Told(c)',
         \A d \in Contracts \ {c} : access'[d] = access[d],
         access'[c].pending = access[c].pending \/ (access'[c].pending # "NONE" => Told(c)')
  PROVE  QueuedInv'
<1> USE DEF TypeInv
<1>1. \A d \in Contracts : Told(d) => Told(d)'
  BY StaysTold
<1>2. \A d \in Contracts : access[d].pending # "NONE" => Told(d)
  BY DEF QueuedInv, DeferredIsQueued, Told
<1>3. \A d \in Contracts : access'[d].pending # "NONE" => Told(d)'
  BY <1>1, <1>2
<1>4. ASSUME NEW q \in Callers, NEW d \in Contracts, Holds(call[q], d)'
      PROVE  Told(d)'
  <2>1. CASE q = p
    BY <1>4, <2>1 DEF TypeOK, Holds, Deferring
  <2>2. CASE q # p
    <3>1. Holds(call[q], d)
      BY <1>4, <2>2 DEF TypeOK, Holds, Deferring
    <3> QED BY <1>1, <3>1 DEF QueuedInv
  <2> QED BY <2>1, <2>2
<1>5. DeferredIsQueued'
  BY <1>3 DEF DeferredIsQueued, Told
<1> QED BY <1>4, <1>5 DEF QueuedInv

(* A step of one call leaves no deferred operation without its job, unless
   that call is about to enqueue it. *)
LEMMA StepQueuedInv ==
  ASSUME TypeInv, QueuedInv, NEW p \in Callers, OperationStep(p)
  PROVE  QueuedInv'
<1> USE DEF TypeInv
<1> DEFINE k == call[p]
<1>1. PICK c \in Contracts : k.contract = c
  BY HeldTypes
<1>2. PICK r \in Row : access[c] = r
  BY <1>1, HeldTypes
<1>3. /\ k \in Call /\ k.op \in Ops /\ k.process \in Processes
      /\ k.row \in Row /\ k.seen \in Row /\ k.result \in Results
  BY HeldTypes
<1>4. \A n : n.row.pending = "NONE" => \A d \in Contracts : ~Holds(n, d)
  BY DEF Holds
<1>5. \A x \in Results : Finished(x).row.pending = "NONE"
  BY FreshRows DEF NewRow
<1>6. r.pending # "NONE" => Told(c)
  BY <1>2 DEF QueuedInv, DeferredIsQueued, Told
<1>7. k.row.pending # "NONE" /\ ~Deferring(k) => Told(c)
  BY <1>1 DEF QueuedInv, Holds
<1>8. ASSUME k.pc # "enqueue", UNCHANGED <<jobs, dropped>>,
             NEW next, call' = [call EXCEPT ![p] = next]
      PROVE  Told(c) => Told(c)'
  BY <1>8, StaysTold
<1> DEFINE Good(n) == \A d \in Contracts :
                        Holds(n, d) => d = c /\ (r.pending # "NONE" \/ (k.row.pending # "NONE" /\ ~Deferring(k)))
<1>9. ASSUME k.pc # "enqueue", UNCHANGED <<jobs, dropped, access>>,
             NEW next, call' = [call EXCEPT ![p] = next], Good(next)
      PROVE  QueuedInv'
  <2>1. Told(c) => Told(c)'
    BY <1>8, <1>9
  <2>2. \A d \in Contracts : Holds(next, d) => d = c /\ Told(c)'
    BY <1>6, <1>7, <1>9, <2>1
  <2> QED BY <1>1, <1>9, <2>2, QueuedUpdate
<1>10. CASE LoadAccess(p)
  <2>1. \/ Loaded(k, r).row.pending = "NONE"
        \/ Loaded(k, r).row = r /\ Loaded(k, r).contract = c
    BY <1>1, <1>3, <1>5 DEF Loaded, Call, Results, Applied, Row
  <2>2. Good(Loaded(k, r))
    BY <2>1 DEF Holds
  <2>3. call' = [call EXCEPT ![p] = Loaded(k, r)]
    BY <1>1, <1>2, <1>10 DEF LoadAccess
  <2> HIDE DEF Good
  <2> QED BY <1>9, <1>10, <2>2, <2>3 DEF LoadAccess
<1>11. CASE SelectRow(p)
  <2> DEFINE n == [k EXCEPT !.pc = IF k.pc = "save" THEN "saving" ELSE "configuring", !.seen = r]
  <2>1. /\ n.contract = c /\ n.row = k.row /\ n.result = k.result
        /\ n.pc = IF k.pc = "save" THEN "saving" ELSE "configuring"
    BY <1>1, <1>3 DEF Call
  <2>2. k.pc \in {"configure", "save"} /\ call' = [call EXCEPT ![p] = n]
    BY <1>1, <1>2, <1>11 DEF SelectRow
  <2> HIDE DEF n
  <2>3. Good(n)
    BY <2>1, <2>2 DEF Holds, Deferring
  <2> HIDE DEF Good
  <2> QED BY <1>9, <1>11, <2>2, <2>3 DEF SelectRow
<1>12. ASSUME k.pc # "enqueue", UNCHANGED <<jobs, dropped>>,
              access' = [access EXCEPT ![c] = Merged(r, k.seen, k.row)],
              k.row.pending # "NONE" => Told(c)',
              NEW next, call' = [call EXCEPT ![p] = next], Good(next)
       PROVE  QueuedInv'
  <2>1. Told(c) => Told(c)'
    BY <1>8, <1>12
  <2>2. \A d \in Contracts : Holds(next, d) => d = c /\ Told(c)'
    BY <1>6, <1>7, <1>12, <2>1
  <2>3. access'[c] = Merged(r, k.seen, k.row) /\ \A d \in Contracts \ {c} : access'[d] = access[d]
    BY <1>12 DEF TypeOK
  <2>4. access'[c].pending = access[c].pending \/ (access'[c].pending # "NONE" => Told(c)')
    BY <1>2, <1>12, <2>3 DEF Merged
  <2> HIDE DEF Good
  <2> QED BY <1>1, <1>12, <2>2, <2>3, <2>4, QueuedUpdate
<1>13. CASE SaveConfiguration(p)
  <2>1. PICK next : call' = [call EXCEPT ![p] = next] /\ Good(next)
    <3>1. [k EXCEPT !.pc = "exec", !.seen = NewRow("PENDING")].contract = c
          /\ [k EXCEPT !.pc = "exec", !.seen = NewRow("PENDING")].row = k.row
      BY <1>1, <1>3 DEF Call
    <3>2. Good([k EXCEPT !.pc = "exec", !.seen = NewRow("PENDING")])
      BY <1>13, <3>1 DEF Holds, SaveConfiguration, Deferring
    <3>3. Good(Requested(c, "SYNC", k.process))
      BY <1>4 DEF Requested, NewRow
    <3> HIDE DEF Good
    <3> QED BY <1>1, <1>13, <3>2, <3>3 DEF SaveConfiguration
  <2>2. k.row.pending # "NONE" => Told(c)'
    BY <1>7, <1>8, <1>13, <2>1 DEF SaveConfiguration, Deferring
  <2> HIDE DEF Good
  <2> QED BY <1>1, <1>2, <1>12, <1>13, <2>1, <2>2 DEF SaveConfiguration
<1>14. CASE EnsureOnline(p)
  <2>1. \/ Probed(k).row.pending = "NONE"
        \/ Probed(k).row = k.row /\ Probed(k).contract = c
        \/ Deferring(Probed(k))
    BY <1>1, <1>3, <1>5 DEF Probed, Call, Results, Deferring
  <2>2. Good(Probed(k))
    BY <1>14, <2>1 DEF Holds, EnsureOnline, Deferring
  <2> HIDE DEF Good
  <2> QED BY <1>9, <1>14, <2>2 DEF EnsureOnline
<1>15. CASE PortSucceeds(p)
  <2>1. /\ Applied(k.row, k.op).pending = "NONE"
        /\ Transitioned(k.row, k.op).pending = k.row.pending
    BY <1>3 DEF Applied, Transitioned, Row
  <2> DEFINE next == [k EXCEPT !.pc = "save", !.result = "applied",
                               !.row = IF k.op \in Switches THEN Applied(k.row, k.op)
                                                            ELSE Transitioned(k.row, k.op)]
  <2>2. next.contract = c /\ next.row.pending \in {"NONE", k.row.pending}
    BY <1>1, <1>3, <2>1 DEF Call
  <2>3. call' = [call EXCEPT ![p] = next] /\ k.pc = "exec"
    BY <1>15 DEF PortSucceeds
  <2> HIDE DEF next
  <2>4. Good(next)
    BY <2>2, <2>3 DEF Holds, Deferring
  <2> HIDE DEF Good
  <2> QED BY <1>9, <1>15, <2>3, <2>4 DEF PortSucceeds
<1>16. CASE \E obeyed \in BOOLEAN : PortFails(p, obeyed)
  <2> DEFINE next == [k EXCEPT !.pc = "save",
                               !.result = IF k.process = "MANUAL" /\ k.op \in Switches
                                            THEN "conflict" ELSE "exec_error"]
  <2>1. next.contract = c /\ next.row = k.row
    BY <1>1, <1>3 DEF Call
  <2>2. call' = [call EXCEPT ![p] = next] /\ k.pc = "exec"
    BY <1>16 DEF PortFails
  <2> HIDE DEF next
  <2>3. Good(next)
    BY <2>1, <2>2 DEF Holds, Deferring
  <2> HIDE DEF Good
  <2> QED BY <1>9, <1>16, <2>2, <2>3 DEF PortFails
<1>17. CASE SaveAccess(p)
  <2>1. call' = [call EXCEPT ![p] = Saved(k)] /\ k.pc = "saving"
    BY <1>17 DEF SaveAccess
  <2>2. k.row.pending # "NONE" => Told(c)'
    <3>1. CASE k.result = "offline"
      <4>1. Saved(k).pc = "enqueue" /\ Saved(k).contract = c
        BY <1>1, <3>1 DEF Saved, Requested
      <4>2. call'[p].pc = "enqueue" /\ call'[p].contract = c
        BY <2>1, <4>1 DEF TypeOK
      <4> QED BY <4>2 DEF Told, Unqueued
    <3>2. CASE k.result # "offline"
      BY <1>7, <1>8, <1>17, <2>1, <3>2 DEF SaveAccess, Deferring
    <3> QED BY <3>1, <3>2
  <2>3. Saved(k).row.pending = "NONE"
    BY <1>1, <1>3, <1>5 DEF Saved, Requested, NewRow
  <2>4. Good(Saved(k))
    BY <1>4, <2>3
  <2>5. PICK n : n = Saved(k)
    OBVIOUS
  <2>6. call' = [call EXCEPT ![p] = n] /\ Good(n)
    BY <2>1, <2>4, <2>5
  <2> HIDE DEF Good
  <2> QED BY <1>1, <1>2, <1>12, <1>17, <2>2, <2>6 DEF SaveAccess
<1>18. CASE EnqueueRetry(p)
  <2>1. \A d \in Contracts : Told(d) => Told(d)'
    BY <1>18, StaysTold
  <2>2. Finished("offline").row.pending = "NONE"
    BY <1>5 DEF Results
  <2>3. access' = access /\ call' = [call EXCEPT ![p] = Finished("offline")]
    BY <1>18 DEF EnqueueRetry
  <2>4. DeferredIsQueued'
    BY <2>1, <2>3 DEF QueuedInv, DeferredIsQueued, Told
  <2>5. ASSUME NEW q \in Callers, NEW d \in Contracts, Holds(call[q], d)'
        PROVE  Told(d)'
    <3>1. q # p
      BY <2>2, <2>3, <2>5 DEF TypeOK, Holds
    <3>2. Holds(call[q], d)
      BY <2>3, <2>5, <3>1 DEF TypeOK, Holds, Deferring
    <3> QED BY <2>1, <3>2 DEF QueuedInv
  <2> QED BY <2>4, <2>5 DEF QueuedInv
<1> QED
  BY <1>10, <1>11, <1>13, <1>14, <1>15, <1>16, <1>17, <1>18 DEF OperationStep

(* So does every other step, a restart included. *)
LEMMA NextQueuedInv == TypeInv /\ QueuedInv /\ [Next]_scVars => QueuedInv'
<1> SUFFICES ASSUME TypeInv, QueuedInv, [Next]_scVars PROVE QueuedInv'
  OBVIOUS
<1> USE DEF TypeInv
<1>1. ASSUME NEW p \in Callers, NEW next, next.row.pending = "NONE",
             call[p].pc \in {"idle", "done"},
             call' = [call EXCEPT ![p] = next], UNCHANGED <<access, jobs, dropped>>
      PROVE  QueuedInv'
  <2>1. PICK c \in Contracts : call[p].contract = c
    BY HeldTypes
  <2>2. \A d \in Contracts : ~Holds(next, d)
    BY <1>1 DEF Holds
  <2> QED BY <1>1, <2>1, <2>2, QueuedUpdate
<1>2. ASSUME NEW p \in Callers, Request(p) PROVE QueuedInv'
  <2>1. PICK c \in Contracts, r \in Requests[p] : Begin(p, c, r[1], r[2])
    BY <1>2 DEF Request
  <2>2. Requested(c, r[1], r[2]).row.pending = "NONE"
    BY DEF Requested, NewRow
  <2> QED BY <1>1, <1>2, <2>1, <2>2 DEF Begin, Idle, Request
<1>3. ASSUME NEW p \in Callers, OperationStep(p) PROVE QueuedInv'
  BY <1>3, StepQueuedInv
<1>4. ASSUME NEW p \in Callers, Return(p) PROVE QueuedInv'
  <2>1. NoCall.row.pending = "NONE"
    BY CallTypes DEF NewRow
  <2> QED BY <1>1, <1>4, <2>1 DEF Return
<1>5. ASSUME UNCHANGED access, \A c \in Contracts : Told(c) => Told(c)',
             \A q \in Callers : call'[q] = call[q] \/ call'[q] = NoCall
      PROVE  QueuedInv'
  <2>1. DeferredIsQueued'
    BY <1>5 DEF QueuedInv, DeferredIsQueued, Told
  <2>2. \A q \in Callers, c \in Contracts : Holds(call[q], c)' => Holds(call[q], c)
    BY <1>5, CallTypes DEF Holds, Deferring, NewRow
  <2> QED BY <1>5, <2>1, <2>2 DEF QueuedInv
<1>6. ASSUME NEW d \in Contracts, RunRetryJob(d) PROVE QueuedInv'
  <2>1. \A c \in Contracts : Told(c) => Told(c)'
    BY <1>6, StaysTold
  <2> QED BY <1>5, <1>6, <2>1 DEF RunRetryJob
<1>7. CASE Crash
  <2>1. \A c \in Contracts : Told(c) => Told(c)'
    BY <1>7, StaysTold
  <2> QED BY <1>5, <1>7, <2>1 DEF Crash
<1>8. CASE UNCHANGED <<access, jobs, call, dropped>>
  <2>1. \A c \in Contracts : Told(c) => Told(c)'
    BY <1>8, StaysTold
  <2> QED BY <1>5, <1>8, <2>1
<1> QED
  BY <1>2, <1>3, <1>4, <1>6, <1>7, <1>8 DEF Next, ProcessNext, DeviceChanges, scVars

(* A row that says an operation is pending has a retry job behind it, whatever
   callers overlap, whatever stale rows they write back and whenever the
   process restarts; the one exception is a contract that a restart caught
   between the save and the enqueue.                                         *)
THEOREM DeferralsReachTheQueue == Spec => []DeferredIsQueued
<1>1. Init => QueuedInv
  <2> SUFFICES ASSUME Init PROVE QueuedInv
    OBVIOUS
  <2>1. \A p \in Callers, c \in Contracts : ~Holds(call[p], c)
    BY CallTypes DEF Init, Holds, NewRow
  <2>2. DeferredIsQueued
    BY DEF Init, DeferredIsQueued, NewRow
  <2> QED BY <2>1, <2>2 DEF QueuedInv
<1>2. QueuedInv => DeferredIsQueued
  BY DEF QueuedInv
<1> QED
  BY InitTypeInv, NextTypeInv, NextQueuedInv, <1>1, <1>2, PTL DEF Spec

-----------------------------------------------------------------------------
(* That connectionStatus is the truth of the network once the last switch has
   been recorded by an operation that overlapped with no other.              *)

(* What a status says of the device.  Nothing has cut a PENDING access yet.  *)
Truth(status, s) ==
  /\ status \in {"SUSPENDED", "CUT"} => s # "ENABLED"
  /\ status \in {"ACTIVE", "PENDING"} => s # "DISABLED"

Settled(c) == c \notin doubt /\ overlap[c] = "NEVER"

StoredTruth ==
  \A c \in Contracts : Medium[c] \in Managed /\ Settled(c) => Truth(access[c].status, secret[c])

(* The device was switched, and the row that will be saved says so. *)
HasSwitched(k) ==
  /\ k.result = "applied" /\ IsSwitch(k.contract, k.op)
  /\ k.op \in Edits => k.row.status = "ACTIVE"

Answers(k, c) ==
  k.pc \in {"save", "saving"} /\ (HasSwitched(k) \/ Settled(c)) => Truth(k.row.status, secret[c])

SavedTruth ==
  \A p \in Callers, c \in Contracts :
    Medium[c] \in Managed /\ overlap[c] # "NOW" /\ Working(p, c) => Answers(call[p], c)

(* Only a PENDING access is provisioned, and a retry reaches the device as the
   switch it retries.                                                        *)
Orderly(k) ==
  /\ k.pc \in {"configure", "configuring", "exec"} => k.op # "RETRY"
  /\ k.pc = "exec" /\ k.op = "PROVISION" => k.row.status = "PENDING"

TruthInv == StoredTruth /\ SavedTruth /\ \A p \in Callers : Orderly(call[p])

(* What one operation leaves in its row, on its device and in its own call. *)
LEMMA TruthUpdate ==
  ASSUME TypeInv, CleanInv, TruthInv, NEW p \in Callers, NEW c \in Contracts, Working(p, c),
         NEW next, call' = [call EXCEPT ![p] = next],
         next.pc \notin {"idle", "done"} => next.contract = c,
         \A d \in Contracts \ {c} :
           /\ access'[d] = access[d] /\ secret'[d] = secret[d] /\ overlap'[d] = overlap[d]
           /\ d \in doubt' <=> d \in doubt,
         overlap'[c] # "NOW" => overlap[c] # "NOW",
         Medium[c] \in Managed /\ overlap'[c] # "NOW" =>
           /\ Settled(c)' => Truth(access'[c].status, secret'[c])
           /\ next.pc \in {"save", "saving"} /\ (HasSwitched(next) \/ Settled(c)')
                => Truth(next.row.status, secret'[c]),
         Orderly(next)
  PROVE  TruthInv'
<1>1. call'[p] = next /\ \A q \in Callers \ {p} : call'[q] = call[q]
  BY DEF TypeInv, TypeOK
<1>2. \A d \in Contracts \ {c} : Settled(d)' <=> Settled(d)
  BY DEF Settled
<1>3. StoredTruth'
  <2>1. ASSUME NEW d \in Contracts, Medium[d] \in Managed, Settled(d)'
        PROVE  Truth(access'[d].status, secret'[d])
    <3>1. CASE d = c
      BY <2>1, <3>1 DEF Settled
    <3>2. CASE d # c
      BY <1>2, <2>1, <3>2 DEF TruthInv, StoredTruth
    <3> QED BY <3>1, <3>2
  <2> QED BY <2>1 DEF StoredTruth, Truth
<1>4. ASSUME NEW q \in Callers, NEW d \in Contracts, Medium[d] \in Managed,
             overlap'[d] # "NOW", Working(q, d)'
      PROVE  Answers(call[q], d)'
  <2>1. CASE q = p
    <3>1. d = c
      BY <1>1, <1>4, <2>1 DEF Working
    <3> QED BY <1>1, <1>4, <2>1, <3>1 DEF Answers, HasSwitched, Truth, IsSwitch
  <2>2. CASE q # p
    <3>1. call'[q] = call[q] /\ Working(q, d)
      BY <1>1, <1>4, <2>2 DEF Working
    <3>2. d # c
      BY <1>4, <2>2, <3>1 DEF CleanInv
    <3>3. Answers(call[q], d)
      BY <1>4, <3>1, <3>2 DEF TruthInv, SavedTruth
    <3> QED BY <1>2, <3>1, <3>2, <3>3 DEF Answers, HasSwitched, Truth, IsSwitch
  <2> QED BY <2>1, <2>2
<1>5. SavedTruth'
  BY <1>4 DEF SavedTruth
<1>6. \A q \in Callers : Orderly(call[q])'
  BY <1>1 DEF TruthInv, Orderly
<1> QED BY <1>3, <1>5, <1>6 DEF TruthInv

(* What a command obeyed by the device makes of the status and the secret: a
   switch makes them agree, and anything else leaves them in agreement.      *)
LEMMA CommandTruth ==
  ASSUME TypeOK, NEW row \in Row, NEW c \in Contracts, Medium[c] \in Managed,
         NEW op \in Ops \ {"RETRY"}, op = "PROVISION" => row.status = "PENDING"
  PROVE  /\ IsSwitch(c, op) /\ (op \in Edits => StatusAfter(op, row) = "ACTIVE")
              => Truth(StatusAfter(op, row), SecretAfter(c, op))
         /\ c \notin DoubtAfter(c, op) /\ Truth(row.status, secret[c]) =>
              /\ Truth(row.status, SecretAfter(c, op))
              /\ Truth(StatusAfter(op, row), SecretAfter(c, op))
<1>1. op \in {"SUSPEND", "RESTORE", "PROVISION", "ROTATE", "DEPROVISION", "SYNC"}
  BY DEF Ops, Switches, Edits
<1>2. secret[c] \in {"ABSENT", "ENABLED", "DISABLED"} /\ row.status \in Statuses
  BY DEF TypeOK, Secrets, Row
<1>3. CASE op \in {"SUSPEND", "DEPROVISION"}
  BY <1>2, <1>3 DEF Truth, StatusAfter, SecretAfter, IsSwitch, Edits, DoubtAfter
<1>4. CASE op = "RESTORE"
  BY <1>2, <1>4 DEF Truth, StatusAfter, SecretAfter, IsSwitch, Edits, DoubtAfter
<1>5. CASE op \in {"PROVISION", "ROTATE"}
  BY <1>2, <1>5 DEF Truth, StatusAfter, SecretAfter, IsSwitch, Edits, DoubtAfter, Managed
<1>6. CASE op = "SYNC"
  BY <1>2, <1>6 DEF Truth, StatusAfter, SecretAfter, IsSwitch, Edits
<1> QED BY <1>1, <1>3, <1>4, <1>5, <1>6

(* A step of one call keeps what its row says of the device true. *)
LEMMA StepTruthInv ==
  ASSUME TypeInv, CleanInv, TruthInv, NEW p \in Callers, OperationStep(p)
  PROVE  TruthInv'
<1> USE DEF TypeInv
<1> DEFINE k == call[p]
<1>1. PICK c \in Contracts : k.contract = c
  BY HeldTypes
<1>2. PICK r \in Row : access[c] = r
  BY <1>1, HeldTypes
<1>3. /\ k \in Call /\ k.op \in Ops /\ k.process \in Processes
      /\ k.row \in Row /\ k.seen \in Row /\ k.result \in Results
  BY HeldTypes
<1>4. Working(p, c)
  BY <1>1, StepWorks
<1>5. \A x \in Results : Finished(x).pc = "done"
  BY CallTypes DEF Finished, Call
<1>6. /\ Orderly(k)
      /\ overlap[c] # "NOW" => Faithful(k, r)
      /\ Medium[c] \in Managed /\ Settled(c) => Truth(r.status, secret[c])
      /\ Medium[c] \in Managed /\ overlap[c] # "NOW" => Answers(k, c)
  BY <1>2, <1>4 DEF TruthInv, StoredTruth, SavedTruth, CleanInv
<1>7. Settled(c) => overlap[c] # "NOW"
  BY DEF Settled
<1> DEFINE Good(n) == /\ n.pc \notin {"idle", "done"} => n.contract = c
                      /\ Medium[c] \in Managed /\ overlap[c] # "NOW"
                           /\ n.pc \in {"save", "saving"} /\ (HasSwitched(n) \/ Settled(c))
                           => Truth(n.row.status, secret[c])
                      /\ Orderly(n)
<1>8. ASSUME NEW n, Good(n), call' = [call EXCEPT ![p] = n],
             UNCHANGED <<access, secret, doubt, overlap>>
      PROVE  TruthInv'
  <2>1. Settled(c)' <=> Settled(c)
    BY <1>8 DEF Settled
  <2> QED BY <1>2, <1>4, <1>6, <1>8, <2>1, TruthUpdate
<1>9. CASE LoadAccess(p)
  <2> DEFINE op == IF k.op = "RETRY" THEN r.pending ELSE k.op
  <2>1. \/ Loaded(k, r) = Finished("applied")
        \/ /\ Loaded(k, r) = [k EXCEPT !.pc = "save", !.op = op, !.row = Applied(r, op),
                                       !.result = "applied"]
           /\ Medium[c] = "NONE"
        \/ Loaded(k, r) = [k EXCEPT !.pc = "probe", !.op = op, !.row = r]
        \/ Loaded(k, r) = [k EXCEPT !.pc = "configure", !.row = r] /\ k.op # "RETRY"
        \/ Loaded(k, r) = [k EXCEPT !.pc = "exec", !.row = r] /\ k.op \notin {"RETRY", "PROVISION"}
    <3>1. Medium[c] \in Media /\ r.pending \in Switches \cup {"NONE"}
      BY MediumAssumption DEF Row, Switches
    <3>2. CASE Loaded(k, r) = Finished("applied")
      BY <3>2
    <3>3. CASE Loaded(k, r) # Finished("applied")
      <4>1. /\ Medium[c] # "NO_ACCESS" /\ ~(k.op = "SYNC" /\ Medium[c] = "NONE")
            /\ ~(k.op = "RETRY" /\ r.pending = "NONE")
            /\ ~(k.op = "DEPROVISION" /\ r.status = "CUT")
        BY <1>1, <3>3 DEF Loaded
      <4>2. Loaded(k, r) =
              CASE op \in Switches /\ Medium[c] = "NONE" ->
                     [k EXCEPT !.pc = "save", !.op = op, !.row = Applied(r, op), !.result = "applied"]
                [] op \in Switches /\ Medium[c] \in Equipped ->
                     [k EXCEPT !.pc = "probe", !.op = op, !.row = r]
                [] op \in Edits -> [k EXCEPT !.pc = "configure", !.row = r]
                [] OTHER -> [k EXCEPT !.pc = "exec", !.row = r]
        BY <1>1, <3>3, <4>1 DEF Loaded
      <4>3. op \in Switches \/ (op = k.op /\ k.op # "RETRY")
        BY <3>1, <4>1
      <4>4. op \in Switches => Medium[c] = "NONE" \/ Medium[c] \in Equipped
        BY <3>1, <4>1 DEF Media, Equipped, Managed
      <4>5. \A o \in Edits : o \notin Switches
        BY DEF Edits, Switches
      <4> HIDE DEF op
      <4>6. CASE op \in Switches /\ Medium[c] = "NONE"
        BY <4>2, <4>5, <4>6 DEF Equipped, Managed
      <4>7. CASE op \in Switches /\ Medium[c] \in Equipped
        BY <4>2, <4>5, <4>7 DEF Equipped, Managed
      <4>8. CASE op \notin Switches
        BY <4>2, <4>3, <4>8 DEF Edits
      <4> QED BY <4>4, <4>6, <4>7, <4>8
    <3> QED BY <3>2, <3>3
  <2> HIDE DEF op
  <2>2. Good(Finished("applied"))
    BY <1>5 DEF Results, Orderly
  <2>3. ASSUME Medium[c] = "NONE"
        PROVE  Good([k EXCEPT !.pc = "save", !.op = op, !.row = Applied(r, op),
                              !.result = "applied"])
    BY <1>1, <1>3, <2>3 DEF Call, Orderly, Managed
  <2>4. Good([k EXCEPT !.pc = "probe", !.op = op, !.row = r])
    BY <1>1, <1>3 DEF Call, Orderly
  <2>5. ASSUME k.op # "RETRY" PROVE Good([k EXCEPT !.pc = "configure", !.row = r])
    BY <1>1, <1>3, <2>5 DEF Call, Orderly
  <2>6. ASSUME k.op \notin {"RETRY", "PROVISION"} PROVE Good([k EXCEPT !.pc = "exec", !.row = r])
    BY <1>1, <1>3, <2>6 DEF Call, Orderly
  <2> HIDE DEF Good
  <2>7. Good(Loaded(k, r))
    BY <2>1, <2>2, <2>3, <2>4, <2>5, <2>6
  <2> QED BY <1>1, <1>2, <1>8, <1>9, <2>7 DEF LoadAccess
<1>10. CASE SelectRow(p)
  <2> DEFINE n == [k EXCEPT !.pc = IF k.pc = "save" THEN "saving" ELSE "configuring", !.seen = r]
  <2>1. /\ n.contract = c /\ n.row = k.row /\ n.op = k.op /\ n.result = k.result
        /\ n.pc = IF k.pc = "save" THEN "saving" ELSE "configuring"
    BY <1>1, <1>3 DEF Call
  <2>2. k.pc \in {"configure", "save"} /\ call' = [call EXCEPT ![p] = n]
    BY <1>1, <1>2, <1>10 DEF SelectRow
  <2> HIDE DEF n
  <2>3. Good(n)
    BY <1>1, <1>6, <2>1, <2>2 DEF Orderly, Answers, HasSwitched
  <2> HIDE DEF Good
  <2> QED BY <1>8, <1>10, <2>2, <2>3 DEF SelectRow
<1>11. CASE SaveConfiguration(p)
  <2>1. /\ access' = [access EXCEPT ![c] = Merged(r, k.seen, k.row)]
        /\ k.pc = "configuring" /\ UNCHANGED <<secret, doubt, overlap>>
    BY <1>1, <1>2, <1>11 DEF SaveConfiguration
  <2>2. overlap[c] # "NOW" => access'[c] = r
    BY <1>2, <1>3, <1>6, <2>1, MergedRows DEF TypeOK, Faithful
  <2>3. \A d \in Contracts \ {c} : access'[d] = access[d]
    BY <2>1 DEF TypeOK
  <2>4. PICK n : /\ call' = [call EXCEPT ![p] = n]
                 /\ n.contract = c /\ n.pc \in {"exec", "load"} /\ Orderly(n)
    <3>1. \A x : x = [k EXCEPT !.pc = "exec", !.seen = NewRow("PENDING")] =>
            x.contract = c /\ x.pc = "exec" /\ x.row = k.row /\ x.op = k.op
      BY <1>1, <1>3 DEF Call
    <3>2. \A x : x = Requested(c, "SYNC", k.process) => x.contract = c /\ x.pc = "load"
      BY DEF Requested
    <3>3. CASE k.row.status = "PENDING" \/ k.op = "ROTATE"
      <4>1. call' = [call EXCEPT ![p] = [k EXCEPT !.pc = "exec", !.seen = NewRow("PENDING")]]
        BY <1>11, <3>3 DEF SaveConfiguration
      <4>2. k.op # "RETRY" /\ (k.op = "PROVISION" => k.row.status = "PENDING")
        BY <1>6, <3>3, <2>1 DEF Orderly
      <4> QED BY <3>1, <4>1, <4>2 DEF Orderly
    <3>4. CASE ~(k.row.status = "PENDING" \/ k.op = "ROTATE")
      <4>1. call' = [call EXCEPT ![p] = Requested(c, "SYNC", k.process)]
        BY <1>1, <1>11, <3>4 DEF SaveConfiguration
      <4> QED BY <3>2, <4>1 DEF Orderly
    <3> QED BY <3>3, <3>4
  <2>5. Settled(c)' <=> Settled(c)
    BY <2>1 DEF Settled
  <2> QED BY <1>4, <1>6, <1>7, <2>1, <2>2, <2>3, <2>4, <2>5, TruthUpdate
<1>12. CASE EnsureOnline(p)
  <2>1. overlap[c] # "NOW" => k.row = r
    BY <1>6, <1>12 DEF EnsureOnline, Faithful
  <2>2. Deferred(k.row, k.op).status = k.row.status
    BY <1>3 DEF Deferred, Row
  <2>3. Good([k EXCEPT !.pc = "exec"])
    BY <1>1, <1>3, <1>12 DEF Call, Orderly, EnsureOnline, ProbesSwitches, Switches
  <2>4. Good([k EXCEPT !.pc = "save", !.result = "offline", !.row = Deferred(k.row, k.op)])
    BY <1>1, <1>3, <1>6, <2>1, <2>2 DEF Call, Orderly, HasSwitched
  <2>5. Good(Finished("conflict"))
    BY <1>5 DEF Results, Orderly
  <2> HIDE DEF Good
  <2>6. Good(Probed(k))
    BY <2>3, <2>4, <2>5 DEF Probed
  <2> QED BY <1>8, <1>12, <2>6 DEF EnsureOnline
<1>13. ASSUME NEW n, call' = [call EXCEPT ![p] = n],
              n.pc = "save", n.op = k.op, n.contract = c, k.pc = "exec",
              UNCHANGED <<access, overlap>>,
              \A d \in Contracts \ {c} : secret'[d] = secret[d] /\ (d \in doubt' <=> d \in doubt),
              \/ /\ secret'[c] = SecretAfter(c, k.op) /\ doubt' = DoubtAfter(c, k.op)
                 /\ \/ n.row.status = StatusAfter(k.op, k.row)
                    \/ n.row.status = k.row.status /\ n.result # "applied"
              \/ /\ n.row.status = k.row.status /\ n.result # "applied"
                 /\ secret'[c] = secret[c] /\ doubt' = doubt
       PROVE  TruthInv'
  <2>1. k.op \in Ops \ {"RETRY"} /\ (k.op = "PROVISION" => k.row.status = "PENDING")
    BY <1>3, <1>6, <1>13 DEF Orderly
  <2>2. overlap[c] # "NOW" => k.row = r
    BY <1>6, <1>13 DEF Faithful
  <2>3. doubt \subseteq DoubtAfter(c, k.op)
    BY DEF DoubtAfter
  <2>4. Settled(c)' => Settled(c) /\ c \notin doubt'
    BY <1>13, <2>3 DEF Settled
  <2>5. ASSUME Medium[c] \in Managed, overlap[c] # "NOW"
        PROVE  /\ Settled(c)' => Truth(r.status, secret'[c])
               /\ HasSwitched(n) \/ Settled(c)' => Truth(n.row.status, secret'[c])
    <3>1. /\ IsSwitch(c, k.op) /\ (k.op \in Edits => StatusAfter(k.op, k.row) = "ACTIVE")
               => Truth(StatusAfter(k.op, k.row), SecretAfter(c, k.op))
          /\ c \notin DoubtAfter(c, k.op) /\ Truth(k.row.status, secret[c]) =>
               /\ Truth(k.row.status, SecretAfter(c, k.op))
               /\ Truth(StatusAfter(k.op, k.row), SecretAfter(c, k.op))
      BY <1>3, <2>1, <2>5, CommandTruth
    <3>2. Settled(c)' => Truth(r.status, secret[c])
      BY <1>6, <2>4, <2>5
    <3>3. Settled(c)' => Truth(r.status, secret'[c]) /\ Truth(n.row.status, secret'[c])
      BY <1>13, <2>2, <2>4, <2>5, <3>1, <3>2
    <3>4. HasSwitched(n) => Truth(n.row.status, secret'[c])
      BY <1>13, <3>1 DEF HasSwitched
    <3> QED BY <3>3, <3>4
  <2>6. Orderly(n)
    BY <1>13 DEF Orderly
  <2>7. access'[c] = r /\ overlap'[c] = overlap[c]
    BY <1>2, <1>13
  <2> QED BY <1>4, <1>13, <2>5, <2>6, <2>7, TruthUpdate
<1>14. \A d \in Contracts \ {c} : d \in DoubtAfter(c, k.op) <=> d \in doubt
  BY DEF DoubtAfter
<1>15. CASE PortSucceeds(p)
  <2> DEFINE n == [k EXCEPT !.pc = "save", !.result = "applied",
                            !.row = IF k.op \in Switches THEN Applied(k.row, k.op)
                                                         ELSE Transitioned(k.row, k.op)]
  <2>1. /\ Applied(k.row, k.op).status = StatusAfter(k.op, k.row)
        /\ Transitioned(k.row, k.op).status = StatusAfter(k.op, k.row)
    BY <1>3 DEF Applied, Transitioned, Row
  <2>2. /\ n.pc = "save" /\ n.op = k.op /\ n.contract = c
        /\ n.row.status = StatusAfter(k.op, k.row)
    BY <1>1, <1>3, <2>1 DEF Call
  <2>3. /\ call' = [call EXCEPT ![p] = n] /\ k.pc = "exec" /\ UNCHANGED <<access, overlap>>
        /\ secret' = [secret EXCEPT ![c] = SecretAfter(c, k.op)] /\ doubt' = DoubtAfter(c, k.op)
    BY <1>1, <1>15 DEF PortSucceeds
  <2>4. secret'[c] = SecretAfter(c, k.op) /\ \A d \in Contracts \ {c} : secret'[d] = secret[d]
    BY <2>3 DEF TypeOK
  <2> HIDE DEF n
  <2> QED BY <1>13, <1>14, <2>2, <2>3, <2>4
<1>16. CASE \E obeyed \in BOOLEAN : PortFails(p, obeyed)
  <2>1. PICK obeyed \in BOOLEAN : PortFails(p, obeyed)
    BY <1>16
  <2> DEFINE n == [k EXCEPT !.pc = "save",
                            !.result = IF k.process = "MANUAL" /\ k.op \in Switches
                                         THEN "conflict" ELSE "exec_error"]
  <2>2. /\ n.pc = "save" /\ n.op = k.op /\ n.contract = c
        /\ n.result # "applied" /\ n.row = k.row
    BY <1>1, <1>3 DEF Call
  <2>3. call' = [call EXCEPT ![p] = n] /\ k.pc = "exec" /\ UNCHANGED <<access, overlap>>
    BY <2>1 DEF PortFails
  <2> HIDE DEF n
  <2>4. CASE obeyed
    <3>1. secret' = [secret EXCEPT ![c] = SecretAfter(c, k.op)] /\ doubt' = DoubtAfter(c, k.op)
      BY <1>1, <2>1, <2>4 DEF PortFails
    <3>2. secret'[c] = SecretAfter(c, k.op) /\ \A d \in Contracts \ {c} : secret'[d] = secret[d]
      BY <3>1 DEF TypeOK
    <3> QED BY <1>13, <1>14, <2>2, <2>3, <3>1, <3>2
  <2>5. CASE ~obeyed
    <3>1. secret' = secret /\ doubt' = doubt
      BY <2>1, <2>5 DEF PortFails
    <3> QED BY <1>13, <2>2, <2>3, <3>1
  <2> QED BY <2>4, <2>5
<1>17. CASE SaveAccess(p)
  <2>1. /\ access' = [access EXCEPT ![c] = Merged(r, k.seen, k.row)] /\ UNCHANGED secret
        /\ k.pc = "saving"
        /\ doubt' = IF Recorded(k) THEN doubt \ {c} ELSE doubt
        /\ overlap' = IF Recorded(k) /\ k.op \in Switches
                        THEN [overlap EXCEPT ![c] = "NEVER"] ELSE overlap
    BY <1>1, <1>2, <1>17 DEF SaveAccess
  <2>2. overlap[c] # "NOW" => access'[c] = k.row
    BY <1>2, <1>3, <1>6, <2>1, MergedRows DEF TypeOK, Faithful
  <2>3. \A d \in Contracts \ {c} : /\ access'[d] = access[d] /\ overlap'[d] = overlap[d]
                                   /\ d \in doubt' <=> d \in doubt
    BY <2>1 DEF TypeOK
  <2>4. /\ overlap'[c] # "NOW" => overlap[c] # "NOW"
        /\ Settled(c)' => overlap[c] # "NOW" /\ (HasSwitched(k) \/ Settled(c))
    BY <1>1, <2>1 DEF TypeOK, Settled, Recorded, HasSwitched
  <2>5. Medium[c] \in Managed /\ Settled(c)' => Truth(access'[c].status, secret'[c])
    BY <1>6, <2>1, <2>2, <2>4 DEF Answers
  <2>6. /\ Saved(k).pc \in {"enqueue", "load", "done"}
        /\ Saved(k).pc # "done" => Saved(k).contract = c
    BY <1>1, <1>3, <1>5 DEF Saved, Requested
  <2>7. PICK n : call' = [call EXCEPT ![p] = n] /\ n.pc \in {"enqueue", "load", "done"}
                 /\ (n.pc # "done" => n.contract = c)
    BY <1>17, <2>6 DEF SaveAccess
  <2>8. Orderly(n)
    BY <2>7 DEF Orderly
  <2> QED BY <1>4, <2>1, <2>3, <2>4, <2>5, <2>7, <2>8, TruthUpdate
<1>18. CASE EnqueueRetry(p)
  <2>1. Good(Finished("offline"))
    BY <1>5 DEF Results, Orderly
  <2> HIDE DEF Good
  <2> QED BY <1>8, <1>18, <2>1 DEF EnqueueRetry
<1> QED
  BY <1>9, <1>10, <1>11, <1>12, <1>15, <1>16, <1>17, <1>18 DEF OperationStep

(* An operation that begins alone finds a contract on which nobody works. *)
LEMMA BeginTruth ==
  ASSUME TypeInv, TruthInv, NEW p \in Callers, NEW c \in Contracts, NEW op \in Ops,
         NEW process \in Processes, Begin(p, c, op, process), UNCHANGED <<access, secret, doubt>>
  PROVE  TruthInv'
<1>1. /\ call'[p].pc = "load" /\ call'[p].contract = c
      /\ \A q \in Callers \ {p} : call'[q] = call[q]
  BY DEF Begin, Requested, TypeInv, TypeOK
<1>2. /\ \A d \in Contracts \ {c} : overlap'[d] = overlap[d]
      /\ overlap'[c] = "NEVER" => overlap[c] = "NEVER"
      /\ overlap'[c] # "NOW" => \A q \in Callers : ~Working(q, c)
  BY DEF Begin, TypeInv, TypeOK
<1>3. \A d \in Contracts : Settled(d)' => Settled(d)
  BY <1>2 DEF Settled
<1>4. StoredTruth'
  BY <1>3 DEF TruthInv, StoredTruth, Truth
<1>5. ASSUME NEW q \in Callers, NEW d \in Contracts, Medium[d] \in Managed,
             overlap'[d] # "NOW", Working(q, d)'
      PROVE  Answers(call[q], d)'
  <2>1. CASE q = p
    BY <1>1, <2>1 DEF Answers
  <2>2. CASE q # p
    <3>1. call'[q] = call[q] /\ Working(q, d) /\ overlap[d] # "NOW"
      BY <1>1, <1>2, <1>5, <2>2 DEF Working
    <3>2. Answers(call[q], d)
      BY <1>5, <3>1 DEF TruthInv, SavedTruth
    <3> QED BY <1>3, <3>1, <3>2 DEF Answers, HasSwitched, Truth, IsSwitch
  <2> QED BY <2>1, <2>2
<1>6. \A q \in Callers : Orderly(call[q])'
  BY <1>1 DEF TruthInv, Orderly
<1> QED BY <1>4, <1>5, <1>6 DEF TruthInv, SavedTruth

(* So does every step of the system, overlapping or not. *)
LEMMA NextTruthInv == TypeInv /\ CleanInv /\ TruthInv /\ [Next]_scVars => TruthInv'
<1> SUFFICES ASSUME TypeInv, CleanInv, TruthInv, [Next]_scVars PROVE TruthInv'
  OBVIOUS
<1>1. ASSUME NEW p \in Callers, Request(p) PROVE TruthInv'
  <2>1. PICK c \in Contracts, r \in Requests[p] : Begin(p, c, r[1], r[2])
    BY <1>1 DEF Request
  <2>2. r[1] \in Ops /\ r[2] \in Processes
    BY RequestsAssumption
  <2> QED BY <1>1, <2>1, <2>2, BeginTruth DEF Request
<1>2. ASSUME UNCHANGED <<access, secret, doubt, overlap>>,
             \A q \in Callers : call'[q] = call[q] \/ call'[q].pc = "idle"
      PROVE  TruthInv'
  <2>1. StoredTruth'
    BY <1>2 DEF TruthInv, StoredTruth, Settled, Truth
  <2>2. SavedTruth'
    BY <1>2 DEF TruthInv, SavedTruth, Working, Answers, Settled, Truth, HasSwitched, IsSwitch
  <2>3. \A q \in Callers : Orderly(call[q])'
    BY <1>2 DEF TruthInv, Orderly
  <2> QED BY <2>1, <2>2, <2>3 DEF TruthInv
<1>3. ASSUME NEW p \in Callers, Return(p) PROVE TruthInv'
  BY <1>2, <1>3, CallTypes DEF Return, TypeInv, TypeOK
<1>4. CASE Crash
  BY <1>2, <1>4, CallTypes DEF Crash
<1>5. CASE UNCHANGED <<access, secret, call, doubt, overlap>>
  BY <1>2, <1>5
<1> QED
  BY <1>1, <1>3, <1>4, <1>5, StepTruthInv DEF Next, ProcessNext, RunRetryJob, DeviceChanges, scVars

LEMMA InitTruthInv == Init => TruthInv
<1> SUFFICES ASSUME Init PROVE TruthInv
  OBVIOUS
<1>1. \A p \in Callers : call[p].pc = "idle"
  BY CallTypes DEF Init
<1>2. StoredTruth
  BY DEF Init, StoredTruth, Truth, NewRow
<1> QED BY <1>1, <1>2 DEF TruthInv, SavedTruth, Working, Orderly

(* What connectionStatus says of a contract is what its device does, for any
   operations of any callers, password rotations included, through overlaps,
   failed commands, lost answers and restarts.  Two things suspend the claim: an
   answer that was lost, or a rotation that served an access which is not ACTIVE,
   until the next switch is recorded; and operations that overlap, until a switch
   that begins alone is confirmed.                                           *)
THEOREM StatusIsTheTruth == Spec => []NetworkTruth
<1>1. TruthInv => NetworkTruth
  BY DEF TruthInv, StoredTruth, Settled, Truth, NetworkTruth
<1> QED
  BY InitTypeInv, NextTypeInv, InitClean, NextClean, InitTruthInv, NextTruthInv, <1>1, PTL DEF Spec

=============================================================================
