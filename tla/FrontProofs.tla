----------------------------- MODULE FrontProofs -----------------------------
(***************************************************************************)
(* Proofs about the till side, for any number of requests in flight: the   *)
(* devices of an outlet and the work queued for them (DeviceFleet), its    *)
(* floor plan (FloorPlan), its time clock (TimeClock), its cash drawer     *)
(* (CashDrawer) and the pages of the lists it shows (KeysetPages).         *)
(***************************************************************************)
EXTENDS DeviceFleet, FloorPlan, TimeClock, CashDrawer, KeysetPages, Sums, FiniteSetTheorems, TLAPS

-----------------------------------------------------------------------------
(* Devices.  A request in a slot is known by its op alone, so what it read *)
(* is stated op by op.                                                     *)

DeviceRow == [st : {"none", "active", "revoked"}, type : Types, role : {"terminal", "hub"},
              paired : DeviceIds \cup {None}, code : Codes \cup {None}]
JobRow == [st : {"none", "queued", "done"}, kind : Types, target : DeviceIds \cup {None}, raced : BOOLEAN]

\* What the request of a slot carries from its read to its write.
DeskOK(q) ==
  /\ q.op = "enroll" => q.code \in Codes
  /\ q.op = "pair" => q.device \in DeviceIds /\ q.pos \in DeviceIds \cup {None}
  /\ q.op \in {"owner", "operator"} => q.device \in DeviceIds
  /\ q.op = "spool" => q.kind \in Types /\ q.target \in DeviceIds \cup {None}
  /\ q.op \in {"replay", "apply"} => q \in [op : {"replay", "apply"}, rows : Seq(DOMAIN Letters)]
  /\ q.op = "apply" => q.rows # << >>

\* The rows and the requests keep their types.
FleetTypeOK ==
  /\ code \in [Codes -> {"none", "live", "expired", "used"}]
  /\ device \in [DeviceIds -> DeviceRow]
  /\ job \in [Jobs -> JobRow]
  /\ letter \in [DOMAIN Letters -> [resolved : BOOLEAN, times : Nat]]
  /\ DOMAIN desk = Desks /\ \A k \in Desks : DeskOK(desk[k])
  /\ cut \in [ops : SUBSET DeviceIds, pos : SUBSET DeviceIds]

\* A device's code was used up, and an operation that is not in the ledger was
\* never applied from any of its letters.
CodesUsed == \A d \in DeviceIds : device[d].code # None => device[d].code \in Codes /\ code[device[d].code] = "used"
LedgerKept == \A r \in DOMAIN Letters : Letters[r].op \notin applied => letter[r].times = 0

\* The inductive invariant of the fleet.
FleetInv ==
  /\ FleetTypeOK
  /\ CodesUsed /\ OneDevicePerCode
  /\ LedgerKept /\ ReplayedOnce
  /\ RelinkStrandsNothing

\* The slots after a write that frees slot k, or sets it to request q.
LEMMA DeskStep ==
  ASSUME FleetTypeOK, NEW k \in Desks, NEW q, DeskOK(q), desk' = [desk EXCEPT ![k] = q]
  PROVE  DOMAIN desk' = Desks /\ \A l \in Desks : DeskOK(desk'[l])
BY DEF FleetTypeOK

\* An empty slot carries nothing.
LEMMA NoDeskOK == DeskOK(NoDesk)
BY DEF DeskOK, NoDesk

\* Only the slots, the count and the state of unused codes change.
LEMMA FleetQuiet ==
  ASSUME FleetInv, UNCHANGED <<device, job, applied, letter, cut>>,
         code' \in [Codes -> {"none", "live", "expired", "used"}],
         \A c \in Codes : code[c] = "used" => code'[c] = "used",
         DOMAIN desk' = Desks /\ \A k \in Desks : DeskOK(desk'[k])
  PROVE  FleetInv'
<1>1. FleetTypeOK'
  BY DEF FleetInv, FleetTypeOK
<1>2. CodesUsed' /\ OneDevicePerCode'
  BY DEF FleetInv, CodesUsed, OneDevicePerCode
<1>3. LedgerKept' /\ ReplayedOnce'
  BY DEF FleetInv, LedgerKept, ReplayedOnce
<1>4. RelinkStrandsNothing'
  BY DEF FleetInv, RelinkStrandsNothing, Drained, OwnQueue, Active
<1> QED
  BY <1>1, <1>2, <1>3, <1>4 DEF FleetInv

\* A read step.
LEMMA BeginInv ==
  ASSUME FleetInv, NEW k \in Desks, NEW q, DeskOK(q), Begin(k, q)
  PROVE  FleetInv'
<1>1. DOMAIN desk' = Desks /\ \A l \in Desks : DeskOK(desk'[l])
  BY DeskStep DEF FleetInv, Begin
<1> QED
  BY <1>1, FleetQuiet DEF FleetInv, FleetTypeOK, Begin

\* A write step that leaves the ledger and the letters alone.
LEMMA FleetWrite ==
  ASSUME FleetInv, NEW k \in Desks, Done(k), UNCHANGED <<applied, letter>>,
         code' \in [Codes -> {"none", "live", "expired", "used"}],
         device' \in [DeviceIds -> DeviceRow], job' \in [Jobs -> JobRow],
         cut' \in [ops : SUBSET DeviceIds, pos : SUBSET DeviceIds],
         CodesUsed', OneDevicePerCode', RelinkStrandsNothing'
  PROVE  FleetInv'
<1>1. DOMAIN desk' = Desks /\ \A l \in Desks : DeskOK(desk'[l])
  BY DeskStep, NoDeskOK DEF FleetInv, Done
<1>2. FleetTypeOK'
  BY <1>1 DEF FleetInv, FleetTypeOK
<1>3. LedgerKept' /\ ReplayedOnce'
  BY DEF FleetInv, LedgerKept, ReplayedOnce
<1> QED
  BY <1>2, <1>3 DEF FleetInv

\* A write that leaves every device its code.
LEMMA FleetCodesStay ==
  ASSUME FleetInv, UNCHANGED code, \A d \in DeviceIds : device'[d].code = device[d].code
  PROVE  CodesUsed' /\ OneDevicePerCode'
BY DEF FleetInv, CodesUsed, OneDevicePerCode

\* A code is handed out, or expires.
LEMMA FleetCodeInv == ASSUME FleetInv, NEW c \in Codes, generateCode(c) \/ CodeExpires(c) PROVE FleetInv'
<1>1. code' \in [Codes -> {"none", "live", "expired", "used"}]
  BY DEF generateCode, CodeExpires, FleetInv, FleetTypeOK
<1>2. \A e \in Codes : code[e] = "used" => code'[e] = "used"
  BY DEF generateCode, CodeExpires, FleetInv, FleetTypeOK
<1>3. /\ UNCHANGED <<device, job, applied, letter, cut, desk>>
      /\ DOMAIN desk' = Desks /\ \A k \in Desks : DeskOK(desk'[k])
  BY DEF generateCode, CodeExpires, FleetInv, FleetTypeOK
<1> QED
  BY <1>1, <1>2, <1>3, FleetQuiet

\* A code becomes a device, or is found used.
LEMMA EnrollWriteInv == ASSUME FleetInv, NEW k \in Desks, EnrollWrite(k) PROVE FleetInv'
<1>1. PICK c \in Codes : c = desk[k].code
  BY DEF EnrollWrite, FleetInv, FleetTypeOK, DeskOK
<1>2. Done(k) /\ UNCHANGED <<job, applied, letter, cut>>
  BY DEF EnrollWrite
<1>3. CASE ~Consumes(c)
  <2>1. UNCHANGED <<code, device>>
    BY <1>1, <1>3 DEF EnrollWrite
  <2>2. CodesUsed' /\ OneDevicePerCode'
    BY <2>1, FleetCodesStay
  <2>3. RelinkStrandsNothing'
    BY <1>2, <2>1 DEF FleetInv, RelinkStrandsNothing, Drained, OwnQueue, Active
  <2> QED
    BY <1>2, <2>1, <2>2, <2>3, FleetWrite DEF FleetInv, FleetTypeOK
<1>4. CASE Consumes(c)
  <2>1. code[c] # "used" /\ code' = [code EXCEPT ![c] = "used"]
    BY <1>1, <1>4 DEF EnrollWrite, Consumes
  <2> DEFINE r == [NoDeviceRow EXCEPT !.st = "active", !.type = CodeType[c], !.code = c]
  <2>2. PICK d \in DeviceIds : device[d].st = "none" /\ device' = [device EXCEPT ![d] = r]
    BY <1>1, <1>4 DEF EnrollWrite
  <2>3. r \in DeviceRow /\ r.code = c
    BY FleetAssumption DEF DeviceRow, NoDeviceRow, Types
  <2> HIDE DEF r
  <2>4. /\ device' \in [DeviceIds -> DeviceRow] /\ device'[d] = r
        /\ \A e \in DeviceIds \ {d} : device'[e] = device[e]
    BY <2>2, <2>3 DEF FleetInv, FleetTypeOK
  <2>5. /\ code' \in [Codes -> {"none", "live", "expired", "used"}] /\ code'[c] = "used"
        /\ \A e \in Codes : code[e] = "used" => code'[e] = "used"
    BY <2>1 DEF FleetInv, FleetTypeOK
  <2>6. CodesUsed'
    BY <2>3, <2>4, <2>5 DEF FleetInv, CodesUsed
  <2>7. \A e \in DeviceIds \ {d} : device[e].code # None => device[e].code # c
    BY <2>1 DEF FleetInv, CodesUsed
  <2>8. OneDevicePerCode'
    BY <2>3, <2>4, <2>7 DEF FleetInv, OneDevicePerCode
  <2>9. ASSUME NEW j \in Jobs PROVE Drained(j) => Drained(j)'
    <3>1. job[j].target \in DeviceIds \cup {None}
      BY DEF FleetInv, FleetTypeOK, JobRow
    <3>2. UNCHANGED job
      BY <1>2
    <3>3. OwnQueue(job[j].target) => job[j].target \in DeviceIds \ {d}
      BY <2>2, <3>1 DEF OwnQueue, Active
    <3> QED
      BY <2>4, <3>2, <3>3 DEF Drained, OwnQueue, Active
  <2>10. RelinkStrandsNothing'
    BY <1>2, <2>9 DEF FleetInv, RelinkStrandsNothing
  <2> QED
    BY <1>2, <2>4, <2>5, <2>6, <2>8, <2>10, FleetWrite DEF FleetInv, FleetTypeOK
<1> QED
  BY <1>3, <1>4

\* The hub changes: only roles do.
LEMMA DesignateWriteInv == ASSUME FleetInv, NEW k \in Desks, DesignateWrite(k) PROVE FleetInv'
<1>1. Done(k) /\ UNCHANGED <<code, job, applied, letter, cut>>
  BY DEF DesignateWrite
<1>2. ASSUME NEW d \in DeviceIds
      PROVE  \/ device'[d] = [device[d] EXCEPT !.role = "terminal"]
             \/ device'[d] = [device[d] EXCEPT !.role = "hub"]
             \/ device'[d] = device[d]
  BY DEF DesignateWrite
<1>3. ASSUME NEW d \in DeviceIds
      PROVE  /\ device'[d] \in DeviceRow /\ device'[d].code = device[d].code
             /\ device'[d].st = device[d].st /\ device'[d].paired = device[d].paired
  <2>1. device[d] \in DeviceRow
    BY DEF FleetInv, FleetTypeOK
  <2> QED
    BY <1>2, <2>1 DEF DeviceRow
<1>4. device' \in [DeviceIds -> DeviceRow]
  <2>1. DOMAIN device' = DeviceIds /\ device' = [d \in DeviceIds |-> device'[d]]
    BY DEF DesignateWrite
  <2> QED
    BY <1>3, <2>1
<1>5. CodesUsed' /\ OneDevicePerCode'
  BY <1>1, <1>3, FleetCodesStay
<1>6. RelinkStrandsNothing'
  <2>1. \A j \in Jobs : job[j].target \in DeviceIds \cup {None}
    BY DEF FleetInv, FleetTypeOK, JobRow
  <2> QED
    BY <1>1, <1>3, <2>1 DEF FleetInv, RelinkStrandsNothing, Drained, OwnQueue, Active
<1> QED
  BY <1>1, <1>4, <1>5, <1>6, FleetWrite DEF FleetInv, FleetTypeOK

\* The queue of device d falls back to the outlet's.
LEMMA RequeuedRows ==
  ASSUME FleetInv, NEW d \in DeviceIds, job' = Requeued(d)
  PROVE  /\ job' \in [Jobs -> JobRow]
         /\ \A j \in Jobs : /\ job'[j].raced = job[j].raced /\ job'[j].st = job[j].st
                            /\ IF job[j].st = "queued" /\ job[j].target = d
                               THEN job'[j].target = None ELSE job'[j].target = job[j].target
<1>1. ASSUME NEW j \in Jobs
      PROVE  /\ job'[j] \in JobRow /\ job'[j].raced = job[j].raced /\ job'[j].st = job[j].st
             /\ IF job[j].st = "queued" /\ job[j].target = d
                THEN job'[j].target = None ELSE job'[j].target = job[j].target
  <2>1. job[j] \in JobRow
    BY DEF FleetInv, FleetTypeOK
  <2>2. job'[j] = IF job[j].st = "queued" /\ job[j].target = d THEN [job[j] EXCEPT !.target = None] ELSE job[j]
    BY DEF Requeued
  <2> QED
    BY <2>1, <2>2 DEF JobRow
<1>2. job' = [j \in Jobs |-> job'[j]]
  BY DEF Requeued
<1> QED
  BY <1>1, <1>2

\* A peripheral is linked to another POS, or to none.
LEMMA PairingInv == ASSUME FleetInv, NEW k \in Desks, setPairing(k) PROVE FleetInv'
<1>1. PICK d \in DeviceIds, pos \in DeviceIds \cup {None} :
        d = desk[k].device /\ pos = desk[k].pos
  BY DEF setPairing, FleetInv, FleetTypeOK, DeskOK
<1>2. /\ Done(k) /\ UNCHANGED <<code, applied, letter, cut>>
      /\ job' = Requeued(d) /\ device' = [device EXCEPT ![d].paired = pos]
  BY <1>1 DEF setPairing
<1> DEFINE r == [device[d] EXCEPT !.paired = pos]
<1>3. device[d] \in DeviceRow /\ device \in [DeviceIds -> DeviceRow] /\ device' = [device EXCEPT ![d] = r]
  BY <1>2 DEF FleetInv, FleetTypeOK
<1>4. r \in DeviceRow /\ r.code = device[d].code
  BY <1>3 DEF DeviceRow
<1> HIDE DEF r
<1>5. /\ device' \in [DeviceIds -> DeviceRow] /\ device'[d] = r
      /\ \A e \in DeviceIds \ {d} : device'[e] = device[e]
  BY <1>3, <1>4
<1>6. CodesUsed' /\ OneDevicePerCode'
  BY <1>2, <1>4, <1>5, FleetCodesStay
<1>7. RelinkStrandsNothing'
  <2>1. \A j \in Jobs : job[j].target \in DeviceIds \cup {None}
    BY DEF FleetInv, FleetTypeOK, JobRow
  <2> QED
    BY <1>2, <1>5, <2>1, RequeuedRows DEF FleetInv, RelinkStrandsNothing, Drained, OwnQueue, Active
<1> QED
  BY <1>2, <1>5, <1>6, <1>7, RequeuedRows, FleetWrite DEF FleetInv, FleetTypeOK

\* The owner removes a device: its queue and its peripherals' links go.
LEMMA OwnerRevokeInv == ASSUME FleetInv, NEW k \in Desks, OwnerRevoke(k) PROVE FleetInv'
<1>1. PICK d \in DeviceIds : d = desk[k].device
  BY DEF OwnerRevoke, FleetInv, FleetTypeOK, DeskOK
<1> DEFINE linked == {e \in DeviceIds : device[e].paired = d}
<1>2. /\ Done(k) /\ UNCHANGED <<code, applied, letter>> /\ job' = Requeued(d)
      /\ cut' = [cut EXCEPT !.pos = cut.pos \cup linked]
  BY <1>1 DEF OwnerRevoke
<1>3. cut' \in [ops : SUBSET DeviceIds, pos : SUBSET DeviceIds] /\ cut'.ops = cut.ops /\ cut'.pos = cut.pos \cup linked
  BY SMTT(40), <1>2 DEF FleetInv, FleetTypeOK
<1>4. device' = [e \in DeviceIds |-> device'[e]] /\ \A e \in DeviceIds :
        \/ e = d /\ device'[e] = [device[e] EXCEPT !.st = "revoked", !.paired = None]
        \/ e # d /\ e \in linked /\ device'[e] = [device[e] EXCEPT !.paired = None]
        \/ e # d /\ e \notin linked /\ device'[e] = device[e]
  BY <1>1 DEF OwnerRevoke
<1>5. ASSUME NEW e \in DeviceIds
      PROVE  /\ device'[e] \in DeviceRow /\ device'[e].code = device[e].code
             /\ e # d /\ e \notin linked => device'[e] = device[e]
  <2>1. device[e] \in DeviceRow
    BY DEF FleetInv, FleetTypeOK
  <2> HIDE DEF linked
  <2> QED
    BY ZenonT(60), <1>4, <2>1 DEF DeviceRow
<1>6. device' \in [DeviceIds -> DeviceRow]
  BY <1>4, <1>5
<1>7. CodesUsed' /\ OneDevicePerCode'
  BY <1>2, <1>5, FleetCodesStay
<1>8. RelinkStrandsNothing'
  <2>1. \A j \in Jobs : job[j].target \in DeviceIds \cup {None}
    BY DEF FleetInv, FleetTypeOK, JobRow
  <2> HIDE DEF linked
  <2>2. ASSUME NEW j \in Jobs
        PROVE  job'[j].raced \/ job'[j].target \in cut'.ops \cup cut'.pos \/ Drained(j)'
    <3>1. job[j].raced \/ job[j].target \in cut.ops \cup cut.pos \/ Drained(j)
      BY DEF FleetInv, RelinkStrandsNothing
    <3>2. /\ job'[j].raced = job[j].raced /\ job'[j].st = job[j].st
          /\ IF job[j].st = "queued" /\ job[j].target = d
             THEN job'[j].target = None ELSE job'[j].target = job[j].target
      BY <1>2, RequeuedRows
    <3> QED
      BY <1>3, <1>5, <2>1, <3>1, <3>2 DEF Drained, OwnQueue, Active
  <2> QED
    BY <2>2 DEF RelinkStrandsNothing
<1> QED
  BY <1>2, <1>3, <1>6, <1>7, <1>8, RequeuedRows, FleetWrite DEF FleetInv, FleetTypeOK

\* An operator removes a device.
LEMMA OperatorRevokeInv == ASSUME FleetInv, NEW k \in Desks, OperatorRevoke(k) PROVE FleetInv'
<1>1. PICK d \in DeviceIds : d = desk[k].device
  BY DEF OperatorRevoke, FleetInv, FleetTypeOK, DeskOK
<1>2. /\ Done(k) /\ UNCHANGED <<code, job, applied, letter>>
      /\ device' = [device EXCEPT ![d].st = "revoked"] /\ cut' = [cut EXCEPT !.ops = cut.ops \cup {d}]
  BY <1>1 DEF OperatorRevoke
<1>3. cut' \in [ops : SUBSET DeviceIds, pos : SUBSET DeviceIds] /\ cut'.ops = cut.ops \cup {d} /\ cut'.pos = cut.pos
  BY <1>2 DEF FleetInv, FleetTypeOK
<1> DEFINE r == [device[d] EXCEPT !.st = "revoked"]
<1>4. device[d] \in DeviceRow /\ device \in [DeviceIds -> DeviceRow] /\ device' = [device EXCEPT ![d] = r]
  BY <1>2 DEF FleetInv, FleetTypeOK
<1>5. r \in DeviceRow /\ r.code = device[d].code
  BY <1>4 DEF DeviceRow
<1> HIDE DEF r
<1>6. /\ device' \in [DeviceIds -> DeviceRow] /\ device'[d] = r
      /\ \A e \in DeviceIds \ {d} : device'[e] = device[e]
  BY <1>4, <1>5
<1>7. CodesUsed' /\ OneDevicePerCode'
  BY <1>2, <1>5, <1>6, FleetCodesStay
<1>8. RelinkStrandsNothing'
  <2>1. \A j \in Jobs : job[j].target \in DeviceIds \cup {None}
    BY DEF FleetInv, FleetTypeOK, JobRow
  <2> QED
    BY <1>2, <1>3, <1>6, <2>1 DEF FleetInv, RelinkStrandsNothing, Drained, OwnQueue, Active
<1> QED
  BY <1>2, <1>3, <1>6, <1>7, <1>8, FleetWrite DEF FleetInv, FleetTypeOK

\* A receipt or a payment is queued where its request saw a device poll.
LEMMA SpoolWriteInv == ASSUME FleetInv, NEW k \in Desks, NEW j \in Jobs, SpoolWrite(k, j) PROVE FleetInv'
<1>1. PICK kind \in Types, target \in DeviceIds \cup {None} :
        kind = desk[k].kind /\ target = desk[k].target
  BY DEF SpoolWrite, FleetInv, FleetTypeOK, DeskOK
<1>2. PICK raced \in BOOLEAN : raced = (target # None /\ ~OwnQueue(target))
  OBVIOUS
<1> DEFINE r == [st |-> "queued", kind |-> kind, target |-> target, raced |-> raced]
<1>3. Done(k) /\ UNCHANGED <<code, device, applied, letter, cut>> /\ job' = [job EXCEPT ![j] = r]
  BY <1>1, <1>2 DEF SpoolWrite
<1>4. r \in JobRow /\ (r.raced \/ r.target = None \/ OwnQueue(r.target))
  BY <1>2 DEF JobRow
<1> HIDE DEF r
<1>5. /\ job' \in [Jobs -> JobRow] /\ job'[j] = r
      /\ \A i \in Jobs \ {j} : job'[i] = job[i]
  BY <1>3, <1>4 DEF FleetInv, FleetTypeOK
<1>6. RelinkStrandsNothing'
  BY <1>3, <1>4, <1>5 DEF FleetInv, RelinkStrandsNothing, Drained, OwnQueue, Active
<1>7. CodesUsed' /\ OneDevicePerCode'
  BY <1>3, FleetCodesStay
<1> QED
  BY <1>3, <1>5, <1>6, <1>7, FleetWrite DEF FleetInv, FleetTypeOK

\* A device takes a job off its queue.
LEMMA MarkPrintedInv == ASSUME FleetInv, NEW d \in DeviceIds, NEW j \in Jobs, markPrinted(d, j) PROVE FleetInv'
<1>1. UNCHANGED <<code, device, applied, letter, desk, cut>> /\ job' = [job EXCEPT ![j].st = "done"]
  BY DEF markPrinted
<1>2. /\ job' \in [Jobs -> JobRow] /\ job'[j].st = "done" /\ job'[j].target = job[j].target
      /\ job'[j].raced = job[j].raced /\ \A i \in Jobs \ {j} : job'[i] = job[i]
  BY <1>1 DEF FleetInv, FleetTypeOK, JobRow
<1>3. FleetTypeOK'
  BY <1>1, <1>2 DEF FleetInv, FleetTypeOK
<1>4. CodesUsed' /\ OneDevicePerCode'
  BY <1>1, FleetCodesStay
<1>5. LedgerKept' /\ ReplayedOnce'
  BY <1>1 DEF FleetInv, LedgerKept, ReplayedOnce
<1>6. RelinkStrandsNothing'
  BY <1>1, <1>2 DEF FleetInv, RelinkStrandsNothing, Drained, OwnQueue, Active
<1> QED
  BY <1>3, <1>4, <1>5, <1>6 DEF FleetInv

\* The next letter of a batch is looked up.
LEMMA ReplayReadInv == ASSUME FleetInv, NEW k \in Desks, ReplayRead(k) PROVE FleetInv'
<1> DEFINE q == desk[k]
<1>1. /\ q \in [op : {"replay", "apply"}, rows : Seq(DOMAIN Letters)] /\ q.op = "replay"
      /\ UNCHANGED <<code, device, job, applied, letter, cut>>
  BY DEF ReplayRead, FleetInv, FleetTypeOK, DeskOK
<1>2. \/ desk' = [desk EXCEPT ![k] = NoDesk]
      \/ q.rows # << >> /\ desk' = [desk EXCEPT ![k] = [q EXCEPT !.rows = Tail(q.rows)]]
      \/ q.rows # << >> /\ desk' = [desk EXCEPT ![k] = [q EXCEPT !.op = "apply"]]
  BY DEF ReplayRead
<1> HIDE DEF q
<1>3. q.rows # << >> => DeskOK([q EXCEPT !.rows = Tail(q.rows)]) /\ DeskOK([q EXCEPT !.op = "apply"])
  <2> SUFFICES ASSUME q.rows # << >>
               PROVE  DeskOK([q EXCEPT !.rows = Tail(q.rows)]) /\ DeskOK([q EXCEPT !.op = "apply"])
    OBVIOUS
  <2> DEFINE a == [q EXCEPT !.rows = Tail(q.rows)]
             b == [q EXCEPT !.op = "apply"]
  <2>1. Tail(q.rows) \in Seq(DOMAIN Letters)
    BY <1>1
  <2>2. a \in [op : {"replay", "apply"}, rows : Seq(DOMAIN Letters)] /\ a.op = "replay"
    BY <1>1, <2>1
  <2>3. b \in [op : {"replay", "apply"}, rows : Seq(DOMAIN Letters)] /\ b.op = "apply" /\ b.rows = q.rows
    BY <1>1
  <2> HIDE DEF a, b
  <2>4. DeskOK(a) /\ DeskOK(b)
    BY <2>2, <2>3 DEF DeskOK
  <2> QED
    BY <2>4 DEF a, b
<1>4. DOMAIN desk' = Desks /\ \A l \in Desks : DeskOK(desk'[l])
  BY <1>2, <1>3, DeskStep, NoDeskOK DEF FleetInv
<1> QED
  BY <1>1, <1>4, FleetQuiet DEF FleetInv, FleetTypeOK

\* A letter is applied under the key of the ledger, or the batch ends.
LEMMA ReplayWriteInv == ASSUME FleetInv, NEW k \in Desks, ReplayWrite(k) PROVE FleetInv'
<1> DEFINE q == desk[k]
<1>1. /\ q \in [op : {"replay", "apply"}, rows : Seq(DOMAIN Letters)] /\ q.op = "apply" /\ q.rows # << >>
      /\ UNCHANGED <<code, device, job, cut>>
  BY DEF ReplayWrite, FleetInv, FleetTypeOK, DeskOK
<1>2. PICK r \in DOMAIN Letters : r = Head(q.rows)
  BY <1>1
<1>3. CASE ~NewOp(Letters[r].op)
  <2>1. desk' = [desk EXCEPT ![k] = NoDesk] /\ UNCHANGED <<applied, letter>>
    BY <1>2, <1>3 DEF ReplayWrite
  <2>2. DOMAIN desk' = Desks /\ \A l \in Desks : DeskOK(desk'[l])
    BY <2>1, DeskStep, NoDeskOK DEF FleetInv
  <2> QED
    BY <1>1, <2>1, <2>2, FleetQuiet DEF FleetInv, FleetTypeOK
<1>4. CASE NewOp(Letters[r].op)
  <2> DEFINE next == [q EXCEPT !.op = "replay", !.rows = Tail(q.rows)]
  <2>1. /\ applied' = applied \cup {Letters[r].op} /\ desk' = [desk EXCEPT ![k] = next]
        /\ letter' = [letter EXCEPT ![r] = [resolved |-> TRUE, times |-> letter[r].times + 1]]
    BY <1>2, <1>4 DEF ReplayWrite
  <2> HIDE DEF q
  <2>2. DeskOK(next)
    <3>1. Tail(q.rows) \in Seq(DOMAIN Letters)
      BY <1>1
    <3>2. next \in [op : {"replay", "apply"}, rows : Seq(DOMAIN Letters)] /\ next.op = "replay"
      BY <1>1, <3>1
    <3> QED
      BY <3>2 DEF DeskOK
  <2> HIDE DEF next
  <2>3. DOMAIN desk' = Desks /\ \A l \in Desks : DeskOK(desk'[l])
    BY <2>1, <2>2, DeskStep DEF FleetInv
  <2>4. \A s \in DOMAIN Letters : Letters[s].op = Letters[r].op => letter[s].times = 0
    BY <1>4 DEF NewOp, FleetInv, LedgerKept
  <2>5. letter' = [letter EXCEPT ![r] = [resolved |-> TRUE, times |-> 1]]
    <3>1. letter[r].times = 0
      BY <2>4
    <3>2. letter[r].times + 1 = 1
      BY <3>1
    <3> QED
      BY <2>1, <3>2
  <2>6. /\ letter' \in [DOMAIN Letters -> [resolved : BOOLEAN, times : Nat]] /\ letter'[r].times = 1
        /\ \A s \in DOMAIN Letters \ {r} : letter'[s] = letter[s]
    BY <2>5 DEF FleetInv, FleetTypeOK
  <2>7. FleetTypeOK'
    BY <1>1, <2>3, <2>6 DEF FleetInv, FleetTypeOK
  <2>8. LedgerKept'
    BY <2>1, <2>6 DEF FleetInv, LedgerKept
  <2>9. ReplayedOnce'
    <3> SUFFICES ASSUME NEW s \in DOMAIN Letters, NEW u \in DOMAIN Letters, Letters[s].op = Letters[u].op
                 PROVE  letter'[s].times + (IF s = u THEN 0 ELSE letter'[u].times) <= 1
      BY DEF ReplayedOnce
    <3>1. letter[s].times + (IF s = u THEN 0 ELSE letter[u].times) <= 1
      BY DEF FleetInv, ReplayedOnce
    <3>2. letter[s].times \in Nat /\ letter[u].times \in Nat
      BY DEF FleetInv, FleetTypeOK
    <3>3. CASE s # r /\ u # r
      BY <2>6, <3>1, <3>3
    <3>4. CASE s = r /\ u = r
      BY <2>6, <3>4
    <3>5. CASE s = r /\ u # r
      <4>1. letter'[s].times = 1 /\ letter'[u].times = 0
        BY <2>4, <2>6, <3>5
      <4> QED
        BY <3>5, <4>1
    <3>6. CASE s # r /\ u = r
      <4>1. letter'[s].times = 0 /\ letter'[u].times = 1
        BY <2>4, <2>6, <3>6
      <4> QED
        BY <3>6, <4>1
    <3> QED
      BY <3>3, <3>4, <3>5, <3>6
  <2>10. CodesUsed' /\ OneDevicePerCode'
    BY <1>1, FleetCodesStay
  <2>11. RelinkStrandsNothing'
    BY <1>1 DEF FleetInv, RelinkStrandsNothing, Drained, OwnQueue, Active
  <2> QED
    BY <2>7, <2>8, <2>9, <2>10, <2>11 DEF FleetInv
<1> QED
  BY <1>3, <1>4

\* The devices that were enrolled before satisfy the invariant.
LEMMA FleetInitInv == FleetInit => FleetInv
<1> SUFFICES ASSUME FleetInit PROVE FleetInv
  OBVIOUS
<1>1. NoDeviceRow \in DeviceRow /\ NoDeviceRow.code = None
  BY DEF NoDeviceRow, DeviceRow, Types, None
<1>2. ASSUME NEW d \in DOMAIN Enrolled
      PROVE  /\ [NoDeviceRow EXCEPT !.st = "active", !.type = Enrolled[d]] \in DeviceRow
             /\ [NoDeviceRow EXCEPT !.st = "active", !.type = Enrolled[d]].code = None
  <2>1. PICK type \in Types : type = Enrolled[d]
    BY FleetAssumption
  <2>2. [NoDeviceRow EXCEPT !.st = "active", !.type = type] \in DeviceRow
    BY <1>1 DEF DeviceRow
  <2>3. [NoDeviceRow EXCEPT !.st = "active", !.type = type].code = None
    BY DEF NoDeviceRow
  <2> QED
    BY <2>1, <2>2, <2>3
<1>3. device \in [DeviceIds -> DeviceRow] /\ \A d \in DeviceIds : device[d].code = None
  BY <1>1, <1>2 DEF FleetInit
<1>4. job \in [Jobs -> JobRow] /\ \A j \in Jobs : job[j].st = "none"
  BY DEF FleetInit, NoJob, JobRow, Types, None
<1>5. FleetTypeOK
  BY <1>3, <1>4, NoDeskOK DEF FleetInit, FleetTypeOK
<1>6. CodesUsed /\ OneDevicePerCode
  BY <1>3 DEF CodesUsed, OneDevicePerCode
<1>7. LedgerKept /\ ReplayedOnce
  <2>1. \A r \in DOMAIN Letters : letter[r].times = 0
    BY DEF FleetInit
  <2> QED
    BY <2>1 DEF LedgerKept, ReplayedOnce
<1>8. RelinkStrandsNothing
  BY <1>4 DEF RelinkStrandsNothing, Drained
<1> QED
  BY <1>5, <1>6, <1>7, <1>8 DEF FleetInv

\* Every read step carries what its write step needs.
LEMMA FleetReadInv ==
  ASSUME FleetInv, NEW k \in Desks,
         \/ \E c \in Codes : EnrollRead(k, c)
         \/ \E d \in DeviceIds : DesignateRead(k, d) \/ \E pos \in DeviceIds \cup {None} : PairRead(k, d, pos)
         \/ \E d \in DeviceIds, who \in {"owner", "operator"} : RevokeRead(k, d, who)
         \/ \E pos \in DeviceIds \cup {None}, kind \in {"printer", "terminal"} : SpoolRead(k, pos, kind)
         \/ \E rows \in Batches : ReplayBegin(k, rows)
  PROVE  FleetInv'
<1>1. CASE \E c \in Codes : EnrollRead(k, c)
  <2>1. PICK c \in Codes : Begin(k, [op |-> "enroll", code |-> c])
    BY <1>1 DEF EnrollRead
  <2>2. DeskOK([op |-> "enroll", code |-> c])
    BY DEF DeskOK
  <2> QED
    BY <2>1, <2>2, BeginInv
<1>2. CASE \E d \in DeviceIds : DesignateRead(k, d)
  <2>1. PICK d, prior, was : Begin(k, [op |-> "hub", device |-> d, prior |-> prior, was |-> was])
    BY <1>2 DEF DesignateRead
  <2>2. DeskOK([op |-> "hub", device |-> d, prior |-> prior, was |-> was])
    BY DEF DeskOK
  <2> QED
    BY <2>1, <2>2, BeginInv
<1>3. CASE \E d \in DeviceIds, pos \in DeviceIds \cup {None} : PairRead(k, d, pos)
  <2>1. PICK d \in DeviceIds, pos \in DeviceIds \cup {None} : Begin(k, [op |-> "pair", device |-> d, pos |-> pos])
    BY <1>3 DEF PairRead
  <2>2. DeskOK([op |-> "pair", device |-> d, pos |-> pos])
    BY DEF DeskOK
  <2> QED
    BY <2>1, <2>2, BeginInv
<1>4. CASE \E d \in DeviceIds, who \in {"owner", "operator"} : RevokeRead(k, d, who)
  <2>1. PICK d \in DeviceIds, who \in {"owner", "operator"} : Begin(k, [op |-> who, device |-> d])
    BY <1>4 DEF RevokeRead
  <2>2. DeskOK([op |-> who, device |-> d])
    BY DEF DeskOK
  <2> QED
    BY <2>1, <2>2, BeginInv
<1>5. CASE \E pos \in DeviceIds \cup {None}, kind \in {"printer", "terminal"} : SpoolRead(k, pos, kind)
  <2>1. PICK kind \in {"printer", "terminal"}, target \in DeviceIds \cup {None} :
          Begin(k, [op |-> "spool", kind |-> kind, target |-> target])
    BY <1>5 DEF SpoolRead, linkedPeripheral
  <2>2. DeskOK([op |-> "spool", kind |-> kind, target |-> target])
    BY DEF DeskOK, Types
  <2> QED
    BY <2>1, <2>2, BeginInv
<1>6. CASE \E rows \in Batches : ReplayBegin(k, rows)
  <2>1. PICK rows \in Batches : Begin(k, [op |-> "replay", rows |-> rows])
    BY <1>6 DEF ReplayBegin
  <2>2. rows \in Seq(DOMAIN Letters)
    <3>1. Cardinality(DOMAIN Letters) \in Nat
      BY FleetAssumption, FS_CardinalityType
    <3>2. CASE rows \in SetToSeqs(DOMAIN Letters)
      <4>1. rows \in [1..Cardinality(DOMAIN Letters) -> DOMAIN Letters]
        BY <3>2 DEF SetToSeqs
      <4> QED
        BY <3>1, <4>1
    <3>3. CASE rows \in {<<r>> : r \in DOMAIN Letters}
      <4>1. PICK r \in DOMAIN Letters : rows = <<r>>
        BY <3>3
      <4> QED
        BY <4>1
    <3> QED
      BY <3>2, <3>3 DEF Batches
  <2>3. DeskOK([op |-> "replay", rows |-> rows])
    BY <2>2 DEF DeskOK
  <2> QED
    BY <2>1, <2>3, BeginInv
<1> QED
  BY <1>1, <1>2, <1>3, <1>4, <1>5, <1>6

\* Every step of the fleet keeps the invariant.
LEMMA FleetStep == FleetInv /\ [FleetNext]_fleetVars => FleetInv'
<1> SUFFICES ASSUME FleetInv, [FleetNext]_fleetVars PROVE FleetInv'
  OBVIOUS
<1>1. CASE UNCHANGED fleetVars
  <2>1. UNCHANGED <<code, device, job, applied, letter, desk, cut>>
    BY <1>1 DEF fleetVars
  <2> QED
    BY <2>1, FleetQuiet DEF FleetInv, FleetTypeOK
<1>2. CASE FleetNext
  BY <1>2, FleetCodeInv, FleetReadInv, EnrollWriteInv, DesignateWriteInv, PairingInv, OwnerRevokeInv,
     OperatorRevokeInv, SpoolWriteInv, MarkPrintedInv, ReplayReadInv, ReplayWriteInv DEF FleetNext
<1> QED
  BY <1>1, <1>2

\* The fleet's invariant holds throughout.
THEOREM FleetInvariance == FleetSpec => []FleetInv
<1> QED
  BY FleetInitInv, FleetStep, PTL DEF FleetSpec

\* However many redeem a code at once and even if it expires meanwhile, it
\* enrols one device; however many operators replay them, one by one or in
\* batches, no dead-lettered operation is applied twice (enrollWithActor,
\* replayRow).
THEOREM CodesAndLettersRedeemedOnce == FleetSpec => []RedeemedOnce
<1>1. FleetInv => RedeemedOnce
  BY DEF FleetInv, RedeemedOnce
<1> QED
  BY <1>1, FleetInvariance, PTL

\* No relink or unlink strands a receipt or a payment where no device polls for
\* it (setPairing, revoke, printBill, createIntent).
THEOREM QueuedWorkIsPolled == FleetSpec => []RelinkStrandsNothing
<1>1. FleetInv => RelinkStrandsNothing
  BY DEF FleetInv
<1> QED
  BY <1>1, FleetInvariance, PTL

-----------------------------------------------------------------------------
(* The floor plan.  A request that places a table carries, from its look   *)
(* at the floor to its write, what it has not seen: only tables put there  *)
(* since may be in its way.                                                *)

Box == [x : Nat, y : Nat, width : Nat \ {0}, height : Nat \ {0}]
TableRow == [st : {"none", "live", "gone"}, floor : FloorIds, at : Box, by : {"owner", "starter"},
             saw : Nat, placed : Nat]
PlanRow == [op : {"idle", "tick", "deleteFloor", "createTable", "updateTable", "starterFloor", "starterAll"},
            floor : FloorIds, table : TableIds, at : Box, first : BOOLEAN, saw : Nat]

\* The rows and the requests keep their types.
PlanTypeOK ==
  /\ floor \in [FloorIds -> {"none", "live", "gone"}]
  /\ table \in [TableIds -> TableRow]
  /\ sat \subseteq TableIds
  /\ planner \in [Planners -> PlanRow]
  /\ placings \in Nat

Live == {t \in TableIds : table[t].st = "live"}

\* Tables in the way of bounds b on floor f were put there after the request looked.
Unseen(f, b, saw, exclude) ==
  \A t \in TablesOf(f) \ exclude : boundsOverlap(b, table[t].at) => saw < table[t].placed

\* What the request of a slot may rely on at its write.
PlanRowOK(p) ==
  /\ p.saw <= placings
  /\ p.op = "createTable" => /\ Unseen(p.floor, p.at, p.saw, {})
                             /\ ~p.first => \E t \in TableIds : table[t].placed > 0
  /\ p.op = "updateTable" => /\ table[p.table].st # "none" /\ table[p.table].floor = p.floor
                             /\ Unseen(p.floor, p.at, p.saw, {p.table})

\* A table that was never made has no place, and none is later than the count.
PlacedInTurn ==
  \A t \in TableIds : /\ table[t].placed <= placings
                      /\ IF table[t].st = "none" THEN table[t].placed = 0 /\ table[t].by = "owner" ELSE table[t].placed > 0

\* The four parts of TablesApart, the first by bounds instead of grid cells.
BoundsApart ==
  \A t, u \in Live : t # u /\ table[t].floor = table[u].floor /\ boundsOverlap(table[t].at, table[u].at)
                     /\ table[t].placed <= table[u].placed =>
    table[u].saw < table[t].placed /\ table[u].placed # table[t].placed
OnFloors == \A t \in Live : floor[table[t].floor] = "live"
Seated == sat \subseteq Live
StepTicked == ticked \/ cutOff \/ \E k \in Planners : planner[k].op = "tick"
FirstTicks ==
  (\E t \in TableIds : table[t].placed > 0) /\ (\A t \in TableIds : table[t].by = "owner") => StepTicked

\* The starter's tables came with the starter's floor.
StarterTogether == \A t \in StarterTables : table[t].st # "none" => floor[StarterFloor] # "none"

\* The inductive invariant of the floor plan.
PlanInv ==
  /\ PlanTypeOK
  /\ PlacedInTurn /\ BoundsApart /\ OnFloors /\ Seated /\ FirstTicks /\ StarterTogether
  /\ \A k \in Planners : PlanRowOK(planner[k])

\* Two boxes that share a grid cell overlap.
LEMMA CellsOverlap ==
  ASSUME NEW a \in Box, NEW b \in Box, Cells(a) \cap Cells(b) # {}
  PROVE  boundsOverlap(a, b)
<1>1. /\ a.x \in Nat /\ a.y \in Nat /\ a.width \in Nat /\ a.height \in Nat
      /\ b.x \in Nat /\ b.y \in Nat /\ b.width \in Nat /\ b.height \in Nat
  BY DEF Box
<1>2. PICK c \in (a.x .. (a.x + a.width - 1)) \X (a.y .. (a.y + a.height - 1)) :
        c \in (b.x .. (b.x + b.width - 1)) \X (b.y .. (b.y + b.height - 1))
  BY DEF Cells
<1>3. PICK x \in a.x .. (a.x + a.width - 1), y \in a.y .. (a.y + a.height - 1) : c = <<x, y>>
  BY <1>2
<1>4. x \in b.x .. (b.x + b.width - 1) /\ y \in b.y .. (b.y + b.height - 1)
  BY <1>2, <1>3
<1> QED
  BY <1>1, <1>3, <1>4 DEF boundsOverlap

\* Two boxes overlap whichever is named first (boundsOverlap).
LEMMA OverlapSymmetric ==
  ASSUME NEW a \in Box, NEW b \in Box, boundsOverlap(a, b)
  PROVE  boundsOverlap(b, a)
BY DEF Box, boundsOverlap

\* Multiples of d are at least d apart.
LEMMA MultiplesApart ==
  ASSUME NEW d \in Nat, NEW m \in Nat, NEW n \in Nat, m < n
  PROVE  m * d + d <= n * d
<1>1. PICK e \in Nat : n = m + 1 + e
  <2>1. n - m - 1 \in Nat /\ n = m + 1 + (n - m - 1)
    OBVIOUS
  <2> QED
    BY <2>1
<1>2. n * d = m * d + d + e * d
  BY <1>1
<1>3. e * d \in Nat /\ m * d \in Nat
  OBVIOUS
<1> QED
  BY <1>2, <1>3

\* A number is told by its quotient and its rest.
LEMMA QuotientAndRest ==
  ASSUME NEW d \in Nat \ {0}, NEW m \in Nat, NEW n \in Nat, m \div d = n \div d, m % d = n % d
  PROVE  m = n
OBVIOUS

\* The starter's layout leaves every grid cell to one table, however many
\* tables it has.
LEMMA StarterApart ==
  ASSUME NEW i \in Nat, NEW j \in Nat, i # j
  PROVE  StarterAt(i) \in Box /\ ~boundsOverlap(StarterAt(i), StarterAt(j))
<1> DEFINE d == Size + Gap
<1>1. d \in Nat /\ Size <= d /\ Size \in Nat \ {0} /\ Columns \in Nat \ {0}
  BY FloorPlanAssumption
<1>2. \A n \in Nat : n % Columns \in Nat /\ n \div Columns \in Nat
  BY <1>1
<1>3. PICK a \in Nat, b \in Nat, e \in Nat, f \in Nat :
        a = i % Columns /\ b = i \div Columns /\ e = j % Columns /\ f = j \div Columns
  BY <1>2
<1>4. a # e \/ b # f
  BY <1>1, <1>3, QuotientAndRest
<1>5. /\ StarterAt(i) = [x |-> a * d, y |-> b * d, width |-> Size, height |-> Size]
      /\ StarterAt(j) = [x |-> e * d, y |-> f * d, width |-> Size, height |-> Size]
  BY <1>3 DEF StarterAt
<1> HIDE DEF d
<1>6. a * d \in Nat /\ b * d \in Nat /\ e * d \in Nat /\ f * d \in Nat
  BY <1>1
<1>7. StarterAt(i) \in Box
  BY <1>1, <1>5, <1>6 DEF Box
<1>8. a # e => a * d + d <= e * d \/ e * d + d <= a * d
  BY <1>1, MultiplesApart
<1>9. b # f => b * d + d <= f * d \/ f * d + d <= b * d
  BY <1>1, MultiplesApart
<1>10. PICK p \in Nat, q \in Nat, r \in Nat, s \in Nat : p = a * d /\ q = b * d /\ r = e * d /\ s = f * d
  BY <1>6
<1>11. boundsOverlap(StarterAt(i), StarterAt(j)) =>
         p < r + Size /\ p + Size > r /\ q < s + Size /\ q + Size > s
  BY <1>5, <1>10 DEF boundsOverlap
<1>12. (p + d <= r \/ r + d <= p) \/ (q + d <= s \/ s + d <= q)
  BY <1>4, <1>8, <1>9, <1>10
<1>13. ~(p < r + Size /\ p + Size > r /\ q < s + Size /\ q + Size > s)
  BY <1>1, <1>12
<1> QED
  BY <1>7, <1>11, <1>13

\* An empty slot carries nothing.
LEMMA NoPlanOK == PlanInv => NoPlan \in PlanRow /\ PlanRowOK(NoPlan) /\ NoPlan.op = "idle"
<1> SUFFICES ASSUME PlanInv PROVE NoPlan \in PlanRow /\ PlanRowOK(NoPlan) /\ NoPlan.op = "idle"
  OBVIOUS
<1>1. (CHOOSE b \in Spots : TRUE) \in Box /\ (CHOOSE t \in TableIds : TRUE) \in TableIds
  BY FloorPlanAssumption DEF Box
<1>2. NoPlan \in PlanRow /\ NoPlan.op = "idle" /\ NoPlan.saw = 0
  BY <1>1, FloorPlanAssumption DEF NoPlan, PlanRow
<1> QED
  BY <1>2 DEF PlanRowOK, PlanInv, PlanTypeOK

\* A step that writes no table: a floor goes only when it is empty, and the
\* step stays ticked.
LEMMA NoTableWritten ==
  ASSUME PlanInv, UNCHANGED <<table, sat, placings>>,
         planner' \in [Planners -> PlanRow], \A l \in Planners : PlanRowOK(planner'[l]),
         floor' \in [FloorIds -> {"none", "live", "gone"}],
         \A f \in FloorIds : /\ floor[f] = "live" => floor'[f] = "live" \/ TablesOf(f) = {}
                             /\ floor[f] # "none" => floor'[f] # "none",
         StepTicked => StepTicked'
  PROVE  PlanInv'
<1>1. PlanTypeOK'
  BY DEF PlanInv, PlanTypeOK
<1>2. PlacedInTurn' /\ Seated' /\ FirstTicks'
  BY DEF PlanInv, PlacedInTurn, Seated, FirstTicks, Live
<1>3. OnFloors' /\ StarterTogether'
  <2>1. \A t \in TableIds : table[t].floor \in FloorIds
    BY DEF PlanInv, PlanTypeOK, TableRow
  <2>2. OnFloors'
    BY <2>1 DEF PlanInv, OnFloors, Live, TablesOf
  <2> QED
    BY <2>2, FloorPlanAssumption DEF PlanInv, StarterTogether
<1>4. BoundsApart'
  BY DEF PlanInv, BoundsApart, Live
<1>5. ASSUME NEW l \in Planners PROVE PlanRowOK(planner[l])'
  <2>1. PlanRowOK(planner'[l])
    OBVIOUS
  <2> QED
    BY <2>1 DEF PlanRowOK, Unseen, TablesOf
<1> QED
  BY <1>1, <1>2, <1>3, <1>4, <1>5 DEF PlanInv

\* A request is set down in a slot, or leaves it.
LEMMA SlotChanges ==
  ASSUME PlanInv, NEW k \in Planners, NEW p \in PlanRow, PlanRowOK(p), planner' = [planner EXCEPT ![k] = p]
  PROVE  /\ planner' \in [Planners -> PlanRow] /\ \A l \in Planners : PlanRowOK(planner'[l])
         /\ planner'[k] = p /\ \A l \in Planners \ {k} : planner'[l] = planner[l]
BY DEF PlanInv, PlanTypeOK

\* A request that has looked, and written nothing yet.
LEMMA TakeInv ==
  ASSUME PlanInv, NEW k \in Planners, NEW p \in PlanRow, PlanRowOK(p), Take(k, p),
         UNCHANGED <<floor, table, sat, ticked, placings, cutOff>>
  PROVE  PlanInv'
<1>1. /\ planner' \in [Planners -> PlanRow] /\ \A l \in Planners : PlanRowOK(planner'[l])
      /\ planner[k].op = "idle" /\ \A l \in Planners \ {k} : planner'[l] = planner[l]
  BY SlotChanges DEF Take
<1>2. StepTicked => StepTicked'
  BY <1>1 DEF StepTicked
<1> QED
  BY <1>1, <1>2, NoTableWritten DEF PlanInv, PlanTypeOK

\* A request is refused, or ticks the checklist.
LEMMA PlanDropInv == ASSUME PlanInv, NEW k \in Planners, Drop(k) \/ updateStep(k) PROVE PlanInv'
<1>1. planner' = [planner EXCEPT ![k] = NoPlan] /\ UNCHANGED <<floor, table, sat, placings>>
  BY DEF Drop, updateStep, Free
<1>2. /\ planner' \in [Planners -> PlanRow] /\ \A l \in Planners : PlanRowOK(planner'[l])
      /\ \A l \in Planners \ {k} : planner'[l] = planner[l]
  BY <1>1, SlotChanges, NoPlanOK
<1>3. StepTicked => StepTicked'
  BY <1>2 DEF StepTicked, Drop, updateStep
<1> QED
  BY <1>1, <1>2, <1>3, NoTableWritten DEF PlanInv, PlanTypeOK

\* Floors come, and go when they are empty.
LEMMA FloorInv ==
  ASSUME PlanInv, (\E f \in FloorIds : createFloor(f)) \/ \E k \in Planners : DeleteFloorWrite(k)
  PROVE  PlanInv'
<1>1. CASE \E f \in FloorIds : createFloor(f)
  <2>1. PICK f \in FloorIds : createFloor(f)
    BY <1>1
  <2>2. floor' \in [FloorIds -> {"none", "live", "gone"}] /\ \A g \in FloorIds : floor[g] # "none" => floor'[g] = floor[g]
    BY <2>1 DEF createFloor, PlanInv, PlanTypeOK
  <2>3. UNCHANGED <<table, sat, placings, planner, ticked, cutOff>>
    BY <2>1 DEF createFloor
  <2>4. StepTicked => StepTicked'
    BY <2>3 DEF StepTicked
  <2> QED
    BY <2>2, <2>3, <2>4, NoTableWritten DEF PlanInv, PlanTypeOK
<1>2. CASE \E k \in Planners : DeleteFloorWrite(k)
  <2>1. PICK k \in Planners : DeleteFloorWrite(k)
    BY <1>2
  <2>2. PICK f \in FloorIds : f = planner[k].floor
    BY DEF PlanInv, PlanTypeOK, PlanRow
  <2>3. /\ floor[f] = "live" /\ TablesOf(f) = {} /\ floor' = [floor EXCEPT ![f] = "gone"]
        /\ planner[k].op = "deleteFloor" /\ planner' = [planner EXCEPT ![k] = NoPlan]
        /\ UNCHANGED <<table, sat, placings, ticked, cutOff>>
    BY <2>1, <2>2 DEF DeleteFloorWrite, Free
  <2>4. /\ planner' \in [Planners -> PlanRow] /\ \A l \in Planners : PlanRowOK(planner'[l])
        /\ \A l \in Planners \ {k} : planner'[l] = planner[l]
    BY <2>3, SlotChanges, NoPlanOK
  <2>5. StepTicked => StepTicked'
    BY <2>3, <2>4 DEF StepTicked
  <2>6. /\ floor' \in [FloorIds -> {"none", "live", "gone"}] /\ floor'[f] = "gone"
        /\ \A g \in FloorIds \ {f} : floor'[g] = floor[g]
    BY <2>3 DEF PlanInv, PlanTypeOK
  <2> QED
    BY <2>3, <2>4, <2>5, <2>6, NoTableWritten
<1> QED
  BY <1>1, <1>2

\* The reads: what a request finds on the floor is not in its way.
LEMMA PlanReadInv ==
  ASSUME PlanInv, NEW k \in Planners,
         \/ \E f \in FloorIds : DeleteFloorRead(k, f) \/ \E b \in Spots : CreateTableRead(k, f, b)
         \/ \E t \in TableIds, b \in Spots : UpdateTableRead(k, t, b)
         \/ StarterRead(k)
  PROVE  PlanInv'
<1>1. placings \in Nat /\ NoPlan \in PlanRow /\ NoPlan.op = "idle" /\ NoPlan.saw <= placings /\ Spots \subseteq Box
  BY NoPlanOK, FloorPlanAssumption DEF PlanInv, PlanTypeOK, PlanRowOK, Box
<1>2. UNCHANGED <<floor, table, sat, ticked, placings, cutOff>>
  BY DEF DeleteFloorRead, CreateTableRead, UpdateTableRead, StarterRead
<1>3. CASE \E f \in FloorIds : DeleteFloorRead(k, f)
  <2>1. PICK f \in FloorIds : Take(k, [NoPlan EXCEPT !.op = "deleteFloor", !.floor = f])
    BY <1>3 DEF DeleteFloorRead
  <2> DEFINE p == [NoPlan EXCEPT !.op = "deleteFloor", !.floor = f]
  <2>2. p \in PlanRow /\ p.op = "deleteFloor" /\ p.saw = NoPlan.saw
    BY <1>1 DEF PlanRow
  <2>3. PlanRowOK(p)
    BY <1>1, <2>2 DEF PlanRowOK
  <2> QED
    BY <1>2, <2>1, <2>2, <2>3, TakeInv
<1>4. CASE \E f \in FloorIds, b \in Spots : CreateTableRead(k, f, b)
  <2>1. PICK f \in FloorIds, b \in Spots, first \in BOOLEAN :
          /\ assertNoOverlap(f, b, {}) /\ first = (\A t \in TableIds : table[t].st # "live")
          /\ Take(k, [NoPlan EXCEPT !.op = "createTable", !.floor = f, !.at = b, !.saw = placings, !.first = first])
    BY <1>4 DEF CreateTableRead
  <2> DEFINE p == [NoPlan EXCEPT !.op = "createTable", !.floor = f, !.at = b, !.saw = placings, !.first = first]
  <2>2. p \in PlanRow /\ p.op = "createTable" /\ p.saw = placings /\ p.floor = f /\ p.at = b /\ p.first = first
    BY <1>1 DEF PlanRow
  <2> HIDE DEF p
  <2>3. Unseen(f, b, placings, {})
    BY <2>1 DEF Unseen, assertNoOverlap
  <2>4. ~first => \E t \in TableIds : table[t].placed > 0
    BY <2>1 DEF PlanInv, PlacedInTurn
  <2>5. PlanRowOK(p)
    BY <1>1, <2>2, <2>3, <2>4 DEF PlanRowOK
  <2> QED
    BY <1>2, <2>1, <2>2, <2>5, TakeInv DEF p
<1>5. CASE \E t \in TableIds, b \in Spots : UpdateTableRead(k, t, b)
  <2>1. PICK t \in TableIds, b \in Spots, f \in FloorIds :
          /\ table[t].st = "live" /\ f = table[t].floor /\ assertNoOverlap(f, b, {t})
          /\ Take(k, [NoPlan EXCEPT !.op = "updateTable", !.floor = f, !.table = t, !.at = b, !.saw = placings])
    <3>1. \A t \in TableIds : table[t].floor \in FloorIds
      BY DEF PlanInv, PlanTypeOK, TableRow
    <3> QED
      BY <1>5, <3>1 DEF UpdateTableRead
  <2> DEFINE p == [NoPlan EXCEPT !.op = "updateTable", !.floor = f, !.table = t, !.at = b, !.saw = placings]
  <2>2. p \in PlanRow /\ p.op = "updateTable" /\ p.saw = placings /\ p.floor = f /\ p.at = b /\ p.table = t
    BY <1>1 DEF PlanRow
  <2> HIDE DEF p
  <2>3. Unseen(f, b, placings, {t})
    BY <2>1 DEF Unseen, assertNoOverlap
  <2>4. PlanRowOK(p)
    BY <1>1, <2>1, <2>2, <2>3 DEF PlanRowOK
  <2> QED
    BY <1>2, <2>1, <2>2, <2>4, TakeInv DEF p
<1>6. CASE StarterRead(k)
  <2>1. PICK op \in {"starterFloor", "starterAll"}, first \in BOOLEAN :
          Take(k, [NoPlan EXCEPT !.op = op, !.first = first, !.saw = placings])
    BY <1>6 DEF StarterRead
  <2> DEFINE p == [NoPlan EXCEPT !.op = op, !.first = first, !.saw = placings]
  <2>2. p \in PlanRow /\ p.op = op /\ p.saw = placings
    BY <1>1 DEF PlanRow
  <2>3. PlanRowOK(p)
    BY <1>1, <2>2 DEF PlanRowOK
  <2> QED
    BY <1>2, <2>1, <2>2, <2>3, TakeInv
<1> QED
  BY <1>3, <1>4, <1>5, <1>6

\* Table t is put where its request found room: later than every other table,
\* and in the way only of those the request had not seen.
LEMMA PlaceStep ==
  ASSUME PlanInv, NEW t \in TableIds, NEW r \in TableRow,
         r.st = "live", r.placed = placings + 1, Unseen(r.floor, r.at, r.saw, {t}), floor[r.floor] = "live",
         table[t].st # "none" => r.floor = table[t].floor,
         t \in StarterTables => table[t].st # "none",
         table' = [table EXCEPT ![t] = r], placings' = placings + 1, UNCHANGED <<floor, sat>>,
         planner' \in [Planners -> PlanRow],
         \A l \in Planners : planner'[l] = planner[l] \/ (planner'[l].op \in {"idle", "tick"} /\ planner'[l].saw = 0),
         FirstTicks'
  PROVE  PlanInv'
<1>1. /\ table' \in [TableIds -> TableRow] /\ table'[t] = r
      /\ \A u \in TableIds \ {t} : table'[u] = table[u]
  BY DEF PlanInv, PlanTypeOK
<1>2. placings \in Nat /\ \A u \in TableIds : table[u] \in TableRow /\ table[u].placed \in Nat /\ table[u].placed <= placings
  BY DEF PlanInv, PlanTypeOK, PlacedInTurn, TableRow
<1>3. PlanTypeOK'
  BY <1>1, <1>2 DEF PlanInv, PlanTypeOK
<1>4. PlacedInTurn'
  BY <1>1, <1>2 DEF PlanInv, PlacedInTurn
<1>5. Live' = Live \cup {t}
  BY <1>1 DEF Live
<1>6. BoundsApart'
  <2> SUFFICES ASSUME NEW x \in Live', NEW y \in Live', x # y, table'[x].floor = table'[y].floor,
                      boundsOverlap(table'[x].at, table'[y].at), table'[x].placed <= table'[y].placed
               PROVE  table'[y].saw < table'[x].placed /\ table'[y].placed # table'[x].placed
    BY DEF BoundsApart, boundsOverlap
  <2>1. x \in TableIds /\ y \in TableIds
    BY DEF Live
  <2>2. CASE x # t /\ y # t
    BY <1>1, <1>5, <2>1, <2>2 DEF PlanInv, BoundsApart
  <2>3. CASE x = t
    BY <1>1, <1>2, <2>1, <2>3
  <2>4. CASE y = t /\ x # t
    <3>1. x \in TablesOf(r.floor) \ {t}
      BY <1>1, <1>5, <2>1, <2>4 DEF TablesOf, Live
    <3>2. boundsOverlap(table[x].at, r.at) /\ table[x].at \in Box /\ r.at \in Box
      BY <1>1, <1>2, <2>1, <2>4 DEF TableRow
    <3>3. r.saw < table[x].placed
      BY <3>1, <3>2, OverlapSymmetric DEF Unseen
    <3> QED
      BY <1>1, <1>2, <2>1, <2>4, <3>3
  <2> QED
    BY <2>2, <2>3, <2>4
<1>7. OnFloors' /\ Seated' /\ StarterTogether'
  <2>1. OnFloors'
    BY <1>1, <1>5 DEF PlanInv, OnFloors, Live
  <2>2. Seated'
    BY <1>5 DEF PlanInv, Seated
  <2>3. StarterTogether'
    BY <1>1, FloorPlanAssumption DEF PlanInv, StarterTogether
  <2> QED
    BY <2>1, <2>2, <2>3
<1>8. ASSUME NEW f, NEW b, NEW saw \in Nat, saw <= placings, NEW ex, Unseen(f, b, saw, ex)
      PROVE  Unseen(f, b, saw, ex)'
  <2> SUFFICES ASSUME NEW u \in TablesOf(f)' \ ex, boundsOverlap(b, table'[u].at)
               PROVE  saw < table'[u].placed
    BY DEF Unseen, boundsOverlap
  <2>1. u \in TableIds
    BY DEF TablesOf
  <2>2. CASE u = t
    BY <1>8, <1>1, <1>2, <2>2
  <2>3. CASE u # t
    <3>1. u \in TablesOf(f) \ ex /\ table'[u] = table[u]
      BY <1>1, <2>1, <2>3 DEF TablesOf
    <3> QED
      BY <1>8, <3>1 DEF Unseen
  <2> QED
    BY <2>2, <2>3
<1>9. ASSUME NEW l \in Planners PROVE PlanRowOK(planner[l])'
  <2>1. PICK p \in PlanRow : p = planner'[l]
    OBVIOUS
  <2>2. CASE p.op \in {"idle", "tick"} /\ p.saw = 0
    BY <1>2, <2>1, <2>2 DEF PlanRowOK
  <2>3. CASE p = planner[l]
    <3>1. PlanRowOK(p) /\ p.saw \in Nat /\ p.saw <= placings /\ p.table \in TableIds
      BY <2>3 DEF PlanInv, PlanRowOK, PlanRow
    <3>2. p.saw <= placings'
      BY <1>2, <3>1
    <3>3. p.op = "createTable" => /\ Unseen(p.floor, p.at, p.saw, {})'
                                  /\ ~p.first => \E u \in TableIds : table'[u].placed > 0
      BY <1>1, <1>2, <1>8, <3>1 DEF PlanRowOK
    <3>4. p.op = "updateTable" => /\ table'[p.table].st # "none" /\ table'[p.table].floor = p.floor
                                  /\ Unseen(p.floor, p.at, p.saw, {p.table})'
      BY <1>1, <1>8, <3>1 DEF PlanRowOK
    <3> QED
      BY <2>1, <3>2, <3>3, <3>4 DEF PlanRowOK
  <2> QED
    BY <2>1, <2>2, <2>3
<1> QED
  BY <1>3, <1>4, <1>6, <1>7, <1>9 DEF PlanInv

\* A table is drawn; the first ticks the checklist.
LEMMA CreateTableInv ==
  ASSUME PlanInv, NEW k \in Planners, NEW t \in TableIds, CreateTableWrite(k, t)
  PROVE  PlanInv'
<1>1. PICK p \in PlanRow : p = planner[k]
  BY DEF PlanInv, PlanTypeOK
<1> DEFINE r == Row(p, "owner")
           next == IF p.first THEN [NoPlan EXCEPT !.op = "tick"] ELSE NoPlan
<1>2. /\ p.op = "createTable" /\ floor[p.floor] = "live" /\ table[t].st = "none" /\ t \notin StarterTables
      /\ table' = [table EXCEPT ![t] = r] /\ placings' = placings + 1
      /\ planner' = [planner EXCEPT ![k] = next] /\ UNCHANGED <<floor, sat, ticked, cutOff>>
  BY <1>1 DEF CreateTableWrite
<1>3. placings \in Nat
  BY DEF PlanInv, PlanTypeOK
<1>4. /\ r \in TableRow /\ r.st = "live" /\ r.placed = placings + 1 /\ r.by = "owner"
      /\ r.floor = p.floor /\ r.at = p.at /\ r.saw = p.saw
  BY <1>3 DEF Row, TableRow, PlanRow
<1>5. next \in PlanRow /\ next.op \in {"idle", "tick"} /\ next.saw = 0 /\ (p.first => next.op = "tick")
  <2>1. NoPlan \in PlanRow /\ NoPlan.op = "idle" /\ NoPlan.saw = 0
    BY NoPlanOK DEF NoPlan
  <2>2. [NoPlan EXCEPT !.op = "tick"] \in PlanRow /\ [NoPlan EXCEPT !.op = "tick"].op = "tick"
        /\ [NoPlan EXCEPT !.op = "tick"].saw = 0
    BY <2>1 DEF PlanRow
  <2> QED
    BY <2>1, <2>2
<1> HIDE DEF r, next
<1>6. /\ planner' \in [Planners -> PlanRow] /\ planner'[k] = next
      /\ \A l \in Planners \ {k} : planner'[l] = planner[l]
  BY <1>2, <1>5 DEF PlanInv, PlanTypeOK
<1>7. Unseen(r.floor, r.at, r.saw, {t}) /\ (~p.first => \E u \in TableIds : table[u].placed > 0)
  BY <1>1, <1>2, <1>4 DEF PlanInv, PlanRowOK, Unseen
<1>8. FirstTicks'
  <2>1. CASE p.first
    BY <1>5, <1>6, <2>1 DEF FirstTicks, StepTicked
  <2>2. CASE ~p.first
    <3>1. \A u \in TableIds : table'[u].by = table[u].by
      BY <1>2, <1>4 DEF PlanInv, PlanTypeOK, PlacedInTurn
    <3>2. StepTicked => StepTicked'
      BY <1>1, <1>2, <1>6 DEF StepTicked
    <3> QED
      BY <1>7, <2>2, <3>1, <3>2 DEF PlanInv, FirstTicks
  <2> QED
    BY <2>1, <2>2
<1> QED
  BY <1>2, <1>4, <1>5, <1>6, <1>7, <1>8, PlaceStep

\* A table is moved on its floor.
LEMMA UpdateTableInv == ASSUME PlanInv, NEW k \in Planners, UpdateTableWrite(k) PROVE PlanInv'
<1>1. PICK p \in PlanRow : p = planner[k]
  BY DEF PlanInv, PlanTypeOK
<1>2. PICK t \in TableIds, by \in {"owner", "starter"} : t = p.table /\ by = table[t].by
  BY DEF PlanInv, PlanTypeOK, PlanRow, TableRow
<1> DEFINE r == Row(p, by)
<1>3. /\ p.op = "updateTable" /\ table[t].st = "live" /\ table' = [table EXCEPT ![t] = r]
      /\ placings' = placings + 1 /\ planner' = [planner EXCEPT ![k] = NoPlan]
      /\ UNCHANGED <<floor, sat, ticked, cutOff>>
  BY <1>1, <1>2 DEF UpdateTableWrite, Free
<1>4. placings \in Nat /\ NoPlan \in PlanRow /\ NoPlan.op = "idle" /\ NoPlan.saw = 0
  BY NoPlanOK DEF PlanInv, PlanTypeOK, NoPlan
<1>5. /\ r \in TableRow /\ r.st = "live" /\ r.placed = placings + 1 /\ r.by = by
      /\ r.floor = p.floor /\ r.at = p.at /\ r.saw = p.saw
  BY <1>4 DEF Row, TableRow, PlanRow
<1> HIDE DEF r
<1>6. /\ planner' \in [Planners -> PlanRow] /\ planner'[k] = NoPlan
      /\ \A l \in Planners \ {k} : planner'[l] = planner[l]
  BY <1>3, <1>4 DEF PlanInv, PlanTypeOK
<1>7. table[t].floor = p.floor /\ Unseen(r.floor, r.at, r.saw, {t})
  BY <1>1, <1>2, <1>3, <1>5 DEF PlanInv, PlanRowOK
<1>8. floor[r.floor] = "live"
  BY <1>3, <1>5, <1>7 DEF PlanInv, OnFloors, Live
<1>9. FirstTicks'
  <2>1. \A u \in TableIds : table'[u].by = table[u].by
    BY <1>2, <1>3, <1>5 DEF PlanInv, PlanTypeOK
  <2>2. table[t].placed > 0
    BY <1>3 DEF PlanInv, PlacedInTurn
  <2>3. StepTicked => StepTicked'
    BY <1>1, <1>3, <1>6 DEF StepTicked
  <2> QED
    BY <2>1, <2>2, <2>3 DEF PlanInv, FirstTicks
<1> QED
  BY <1>3, <1>4, <1>5, <1>6, <1>7, <1>8, <1>9, PlaceStep

\* Guests sit down, and a table nobody sat at is removed.
LEMMA SeatInv == ASSUME PlanInv, NEW t \in TableIds, Seat(t) PROVE PlanInv'
<1>1. table[t].st = "live" /\ sat' = sat \cup {t} /\ UNCHANGED <<floor, table, ticked, planner, placings, cutOff>>
  BY DEF Seat
<1>2. PlanTypeOK' /\ PlacedInTurn' /\ OnFloors' /\ StarterTogether'
  BY <1>1 DEF PlanInv, PlanTypeOK, PlacedInTurn, OnFloors, StarterTogether, Live
<1>3. BoundsApart' /\ FirstTicks'
  BY <1>1 DEF PlanInv, BoundsApart, Live, FirstTicks, StepTicked
<1>4. Seated'
  BY <1>1 DEF PlanInv, Seated, Live
<1>5. \A l \in Planners : PlanRowOK(planner[l])'
  BY <1>1 DEF PlanInv, PlanRowOK, Unseen, TablesOf
<1> QED
  BY <1>2, <1>3, <1>4, <1>5 DEF PlanInv

\* A table without sessions is removed.
LEMMA DeleteTableInv == ASSUME PlanInv, NEW t \in TableIds, deleteTable(t) PROVE PlanInv'
<1>1. /\ table[t].st = "live" /\ t \notin sat /\ table' = [table EXCEPT ![t].st = "gone"]
      /\ UNCHANGED <<floor, sat, ticked, planner, placings, cutOff>>
  BY DEF deleteTable
<1>2. /\ table' \in [TableIds -> TableRow] /\ table'[t].st = "gone"
      /\ \A u \in TableIds \ {t} : table'[u] = table[u]
      /\ \A u \in TableIds : table'[u].floor = table[u].floor /\ table'[u].placed = table[u].placed /\ table'[u].by = table[u].by
  BY <1>1 DEF PlanInv, PlanTypeOK, TableRow
<1>3. Live' = Live \ {t} /\ \A u \in Live' : table'[u] = table[u]
  BY <1>2 DEF Live
<1>4. PlanTypeOK' /\ PlacedInTurn'
  BY <1>1, <1>2 DEF PlanInv, PlanTypeOK, PlacedInTurn
<1>5. OnFloors' /\ Seated' /\ FirstTicks'
  BY <1>1, <1>2, <1>3 DEF PlanInv, OnFloors, Seated, FirstTicks, StepTicked
<1>6. StarterTogether'
  BY <1>1, <1>2, FloorPlanAssumption DEF PlanInv, StarterTogether
<1>7. BoundsApart'
  BY <1>3 DEF PlanInv, BoundsApart
<1>8. ASSUME NEW l \in Planners PROVE PlanRowOK(planner[l])'
  <2>1. PICK p \in PlanRow : p = planner[l] /\ p = planner'[l]
    BY <1>1 DEF PlanInv, PlanTypeOK
  <2>2. PlanRowOK(p) /\ p.table \in TableIds
    BY <2>1 DEF PlanInv, PlanRow
  <2>3. \A f, b, saw, ex : Unseen(f, b, saw, ex) => Unseen(f, b, saw, ex)'
    BY <1>2 DEF Unseen, TablesOf
  <2> QED
    BY <1>1, <1>2, <2>1, <2>2, <2>3 DEF PlanRowOK
<1> QED
  BY <1>4, <1>5, <1>6, <1>7, <1>8 DEF PlanInv

\* The starter lays out its floor, if it saw none; otherwise it writes no table.
LEMMA StarterInv == ASSUME PlanInv, NEW k \in Planners, StarterWrite(k) PROVE PlanInv'
<1>1. PICK p \in PlanRow : p = planner[k]
  BY DEF PlanInv, PlanTypeOK
<1> DEFINE laid(t) == Row([p EXCEPT !.floor = StarterFloor, !.at = StarterAt(t - 1)], "starter")
<1>2. /\ p.op \in {"starterFloor", "starterAll"}
      /\ p.first => floor[StarterFloor] = "none"
      /\ floor' = (IF p.first THEN [floor EXCEPT ![StarterFloor] = "live"] ELSE floor)
      /\ table' = [t \in TableIds |-> IF p.first /\ t \in StarterTables THEN laid(t) ELSE table[t]]
      /\ placings' = (IF p.first THEN placings + 1 ELSE placings)
      /\ planner' = [planner EXCEPT ![k] = NoPlan]
      /\ UNCHANGED <<sat, ticked, cutOff>>
  BY <1>1 DEF StarterWrite, Free
<1>3. /\ planner' \in [Planners -> PlanRow] /\ \A l \in Planners : PlanRowOK(planner'[l])
      /\ planner'[k] = NoPlan /\ NoPlan.op = "idle" /\ \A l \in Planners \ {k} : planner'[l] = planner[l]
  BY <1>2, SlotChanges, NoPlanOK
<1>4. StepTicked => StepTicked'
  BY <1>1, <1>2, <1>3 DEF StepTicked
<1>5. CASE ~p.first
  <2>1. floor' = floor /\ placings' = placings /\ table' = table
    <3>1. table' = [t \in TableIds |-> table[t]] /\ table \in [TableIds -> TableRow]
      BY <1>2, <1>5 DEF PlanInv, PlanTypeOK
    <3>2. table' = table
      BY <3>1
    <3> QED
      BY <1>2, <1>5, <3>2
  <2> QED
    BY <1>2, <1>3, <1>4, <2>1, NoTableWritten DEF PlanInv, PlanTypeOK
<1>6. CASE p.first
  <2>1. /\ placings \in Nat /\ placings' = placings + 1 /\ floor[StarterFloor] = "none"
        /\ floor' \in [FloorIds -> {"none", "live", "gone"}] /\ floor'[StarterFloor] = "live"
        /\ \A f \in FloorIds \ {StarterFloor} : floor'[f] = floor[f]
    BY <1>2, <1>6, FloorPlanAssumption DEF PlanInv, PlanTypeOK
  <2>2. ASSUME NEW t \in StarterTables
        PROVE  /\ laid(t) \in TableRow /\ laid(t).st = "live" /\ laid(t).floor = StarterFloor
               /\ laid(t).at = StarterAt(t - 1) /\ laid(t).by = "starter" /\ laid(t).placed = placings + 1
    <3>1. t - 1 \in Nat /\ StarterAt(t - 1) \in Box /\ StarterFloor \in FloorIds
      <4>1. t - 1 \in Nat /\ t - 1 # t
        BY FloorPlanAssumption
      <4>2. t \in Nat
        BY FloorPlanAssumption
      <4> QED
        BY <4>1, <4>2, StarterApart, FloorPlanAssumption
    <3>2. PICK b \in Box : b = StarterAt(t - 1)
      BY <3>1
    <3> DEFINE q == [p EXCEPT !.floor = StarterFloor, !.at = b]
    <3>3. q \in PlanRow /\ q.floor = StarterFloor /\ q.at = b
      BY <3>1 DEF PlanRow
    <3> HIDE DEF q
    <3>4. /\ Row(q, "starter") \in TableRow /\ Row(q, "starter").st = "live"
          /\ Row(q, "starter").floor = StarterFloor /\ Row(q, "starter").at = b
          /\ Row(q, "starter").by = "starter" /\ Row(q, "starter").placed = placings + 1
      BY <2>1, <3>3 DEF Row, TableRow, PlanRow
    <3> QED
      BY <3>2, <3>4 DEF q
  <2> HIDE DEF laid
  <2>3. /\ table' = [t \in TableIds |-> IF t \in StarterTables THEN laid(t) ELSE table[t]]
        /\ \A t \in StarterTables : table'[t] = laid(t)
        /\ \A t \in TableIds \ StarterTables : table'[t] = table[t]
    BY <1>2, <1>6, FloorPlanAssumption
  <2>4. table' \in [TableIds -> TableRow]
    BY <2>2, <2>3 DEF PlanInv, PlanTypeOK
  <2>5. /\ \A t \in StarterTables : t \in TableIds /\ table[t].st = "none"
        /\ \A t \in Live : t \notin StarterTables /\ table[t].floor # StarterFloor /\ table[t].floor \in FloorIds
    BY <2>1, FloorPlanAssumption DEF PlanInv, StarterTogether, OnFloors, Live, PlanTypeOK, TableRow
  <2>6. Live' = Live \cup StarterTables
    BY <2>2, <2>3, <2>5, FloorPlanAssumption DEF Live
  <2>7. PlanTypeOK'
    BY <1>2, <1>3, <2>1, <2>4 DEF PlanInv, PlanTypeOK
  <2>8. PlacedInTurn'
    <3>1. \A t \in TableIds : table[t].placed \in Nat
      BY DEF PlanInv, PlanTypeOK, TableRow
    <3> QED
      BY <2>1, <2>2, <2>3, <3>1 DEF PlanInv, PlacedInTurn
  <2>9. BoundsApart'
    <3> SUFFICES ASSUME NEW x \in Live', NEW y \in Live', x # y, table'[x].floor = table'[y].floor,
                        boundsOverlap(table'[x].at, table'[y].at), table'[x].placed <= table'[y].placed
                 PROVE  table'[y].saw < table'[x].placed /\ table'[y].placed # table'[x].placed
      BY DEF BoundsApart, boundsOverlap
    <3>1. CASE x \in StarterTables /\ y \in StarterTables
      <4>1. x - 1 \in Nat /\ y - 1 \in Nat /\ x - 1 # y - 1
        <5>1. x \in Nat \ {0} /\ y \in Nat \ {0}
          BY <3>1, FloorPlanAssumption
        <5> QED
          BY <5>1
      <4>2. ~boundsOverlap(StarterAt(x - 1), StarterAt(y - 1))
        BY <4>1, StarterApart
      <4> QED
        BY <2>2, <2>3, <3>1, <4>2
    <3>2. CASE x \in Live /\ y \in Live
      <4>1. table'[x] = table[x] /\ table'[y] = table[y]
        BY <2>3, <2>5, <3>2 DEF Live
      <4> QED
        BY <3>2, <4>1 DEF PlanInv, BoundsApart
    <3>3. CASE x \in StarterTables /\ y \in Live
      BY <2>2, <2>3, <2>5, <3>3 DEF Live
    <3>4. CASE x \in Live /\ y \in StarterTables
      BY <2>2, <2>3, <2>5, <3>4 DEF Live
    <3> QED
      BY <2>6, <3>1, <3>2, <3>3, <3>4
  <2>10. OnFloors'
    BY <2>1, <2>2, <2>3, <2>5, <2>6 DEF PlanInv, OnFloors, Live
  <2>11. Seated' /\ StarterTogether'
    BY <1>2, <2>1, <2>6 DEF PlanInv, Seated, StarterTogether
  <2>12. FirstTicks'
    <3>1. CASE StarterTables # {}
      <4>1. PICK t \in StarterTables : table'[t].by = "starter" /\ t \in TableIds
        BY <2>2, <2>3, <2>5, <3>1
      <4> QED
        BY <4>1 DEF FirstTicks
    <3>2. CASE StarterTables = {}
      <4>1. \A t \in TableIds : table'[t] = table[t]
        BY <2>3, <3>2
      <4> QED
        BY <1>4, <4>1 DEF PlanInv, FirstTicks
    <3> QED
      BY <3>1, <3>2
  <2>13. ASSUME NEW f, NEW b, NEW saw \in Nat, saw <= placings, NEW ex, Unseen(f, b, saw, ex)
         PROVE  Unseen(f, b, saw, ex)'
    <3> SUFFICES ASSUME NEW u \in TablesOf(f)' \ ex, boundsOverlap(b, table'[u].at)
                 PROVE  saw < table'[u].placed
      BY DEF Unseen, boundsOverlap
    <3>1. u \in TableIds
      BY DEF TablesOf
    <3>2. CASE u \in StarterTables
      BY <2>13, <2>1, <2>2, <2>3, <3>2
    <3>3. CASE u \notin StarterTables
      <4>1. u \in TablesOf(f) \ ex /\ table'[u] = table[u]
        BY <2>3, <3>1, <3>3 DEF TablesOf
      <4> QED
        BY <2>13, <4>1 DEF Unseen
    <3> QED
      BY <3>2, <3>3
  <2>14. ASSUME NEW l \in Planners PROVE PlanRowOK(planner[l])'
    <3>1. PICK q \in PlanRow : q = planner'[l]
      BY <1>3
    <3>2. PlanRowOK(q) /\ q.saw \in Nat /\ q.saw <= placings /\ q.table \in TableIds
      BY <1>3, <3>1 DEF PlanRowOK, PlanRow
    <3>3. q.saw <= placings'
      BY <2>1, <3>2
    <3>4. (\E u \in TableIds : table[u].placed > 0) => \E u \in TableIds : table'[u].placed > 0
      BY <2>3, <2>5 DEF PlanInv, PlacedInTurn
    <3>5. q.op = "createTable" => /\ Unseen(q.floor, q.at, q.saw, {})'
                                  /\ ~q.first => \E u \in TableIds : table'[u].placed > 0
      BY <2>13, <3>2, <3>4 DEF PlanRowOK
    <3>6. q.op = "updateTable" => /\ table'[q.table].st # "none" /\ table'[q.table].floor = q.floor
                                  /\ Unseen(q.floor, q.at, q.saw, {q.table})'
      BY <2>3, <2>5, <2>13, <3>2 DEF PlanRowOK
    <3> QED
      BY <3>1, <3>3, <3>5, <3>6 DEF PlanRowOK
  <2> QED
    BY <2>7, <2>8, <2>9, <2>10, <2>11, <2>12, <2>14 DEF PlanInv
<1> QED
  BY <1>5, <1>6

\* The empty floor plan satisfies the invariant.
LEMMA PlanInitInv == PlanInit => PlanInv
<1> SUFFICES ASSUME PlanInit PROVE PlanInv
  OBVIOUS
<1>1. (CHOOSE b \in Spots : TRUE) \in Box /\ (CHOOSE t \in TableIds : TRUE) \in TableIds
  BY FloorPlanAssumption DEF Box
<1>2. NoTable \in TableRow /\ NoTable.st = "none" /\ NoTable.placed = 0 /\ NoTable.by = "owner"
  BY <1>1, FloorPlanAssumption DEF NoTable, TableRow
<1>3. NoPlan \in PlanRow /\ NoPlan.op = "idle" /\ NoPlan.saw = 0
  BY <1>1, FloorPlanAssumption DEF NoPlan, PlanRow
<1>4. /\ table \in [TableIds -> TableRow] /\ \A t \in TableIds : table[t] = NoTable
      /\ planner \in [Planners -> PlanRow] /\ \A k \in Planners : planner[k] = NoPlan
      /\ floor \in [FloorIds -> {"none", "live", "gone"}] /\ sat = {} /\ placings = 0
  BY <1>2, <1>3 DEF PlanInit
<1>5. PlanTypeOK
  BY <1>4 DEF PlanTypeOK
<1>6. PlacedInTurn /\ FirstTicks /\ StarterTogether
  BY <1>2, <1>4, FloorPlanAssumption DEF PlacedInTurn, FirstTicks, StarterTogether
<1>7. Live = {}
  BY <1>2, <1>4 DEF Live
<1>8. BoundsApart /\ OnFloors /\ Seated
  BY <1>4, <1>7 DEF BoundsApart, OnFloors, Seated
<1>9. \A k \in Planners : PlanRowOK(planner[k])
  BY <1>3, <1>4 DEF PlanRowOK
<1> QED
  BY <1>5, <1>6, <1>8, <1>9 DEF PlanInv

\* Every step of the floor plan keeps the invariant.
LEMMA PlanStep == PlanInv /\ [PlanNext]_planVars => PlanInv'
<1> SUFFICES ASSUME PlanInv, [PlanNext]_planVars PROVE PlanInv'
  OBVIOUS
<1>1. CASE UNCHANGED planVars
  <2>1. UNCHANGED <<floor, table, sat, ticked, planner, placings, cutOff>>
    BY <1>1 DEF planVars
  <2>2. StepTicked => StepTicked'
    BY <2>1 DEF StepTicked
  <2> QED
    BY <2>1, <2>2, NoTableWritten DEF PlanInv, PlanTypeOK
<1>2. CASE PlanNext
  BY <1>2, FloorInv, PlanReadInv, CreateTableInv, UpdateTableInv, PlanDropInv, StarterInv, SeatInv,
     DeleteTableInv DEF PlanNext
<1> QED
  BY <1>1, <1>2

\* Whatever owners draw, move and remove at once, beside a starter setup: two
\* tables of a floor share a grid cell only if the later one's request looked
\* before the earlier one was put there; a table stands on a floor that exists
\* and stays if guests sat at it; the first table drawn ticks the checklist
\* (floor-plan.service, starter-setup.service).
THEOREM TablesStandApart == PlanSpec => []TablesApart
<1>1. PlanSpec => []PlanInv
  BY PlanInitInv, PlanStep, PTL DEF PlanSpec
<1>2. PlanInv => TablesApart
  <2> SUFFICES ASSUME PlanInv PROVE TablesApart
    OBVIOUS
  <2>1. \A t \in TableIds : table[t].at \in Box
    BY DEF PlanInv, PlanTypeOK, TableRow
  <2>2. ASSUME NEW t \in Live, NEW u \in Live, Collide(t, u), table[t].placed <= table[u].placed
        PROVE  table[u].saw < table[t].placed /\ table[u].placed # table[t].placed
    <3>1. boundsOverlap(table[t].at, table[u].at)
      BY <2>1, <2>2, CellsOverlap DEF Collide, Live
    <3> QED
      BY <2>2, <3>1 DEF PlanInv, BoundsApart, Collide
  <2>3. (\E t \in TableIds : table[t].placed > 0) /\ (\A t \in TableIds : table[t].by = "owner") =>
          ticked \/ cutOff \/ \E k \in Planners : planner[k].op = "tick"
    BY DEF PlanInv, FirstTicks, StepTicked
  <2>4. (\A t \in Live : floor[table[t].floor] = "live") /\ sat \subseteq Live
    BY DEF PlanInv, OnFloors, Seated
  <2> QED
    BY <2>2, <2>3, <2>4 DEF TablesApart, Live
<1> QED
  BY <1>1, <1>2, PTL

-----------------------------------------------------------------------------
(* The time clock.  What a request read, the first `saw' events, never     *)
(* changes, so what it concluded from them still holds of its event; and   *)
(* a stamp is later than those of all the events that were read.           *)

EventRow == [type : {"clock_in", "clock_out"}, who : People, site : Sites, at : Nat, saw : Nat]

\* What a request found among the person's events it read.
Looked(type, who, site, at, saw) ==
  LET S == {n \in 1..saw : events[n].who = who} IN
  /\ saw \in 0..Len(events)
  /\ \A n \in 1..saw : events[n].at < at
  /\ type = "clock_in" =>
       \A i \in LatestOf(S) : ~(events[i].type = "clock_in" /\ localDate(events[i].at, site) = localDate(at, site))
  /\ type = "clock_out" => \E i \in LatestOf(S) : events[i].type = "clock_in"

\* The request of a slot that has been stamped.
Pending(k) ==
  /\ clocking[k].op \in {"clock_in", "clock_out"} /\ clocking[k].who \in People /\ clocking[k].site \in Sites
  /\ clocking[k].at \in Nat /\ clocking[k].saw \in Nat /\ clocking[k].at < time
  /\ Looked(clocking[k].op, clocking[k].who, clocking[k].site, clocking[k].at, clocking[k].saw)

ClockTypeOK ==
  /\ time \in Nat
  /\ events \in Seq(EventRow)
  /\ DOMAIN clocking = Clockings /\ \A k \in Clockings : clocking[k].op = "idle" \/ Pending(k)

\* Every event was stamped in the past, by a request that read part of the
\* events before it.
EventsRead ==
  \A i \in DOMAIN events :
    /\ events[i].saw < i /\ events[i].at < time
    /\ Looked(events[i].type, events[i].who, events[i].site, events[i].at, events[i].saw)

\* No instant is stamped twice.
StampsDiffer ==
  /\ \A i, j \in DOMAIN events : i # j => events[i].at # events[j].at
  /\ \A i \in DOMAIN events, k \in Clockings : clocking[k].op # "idle" => events[i].at # clocking[k].at
  /\ \A k, l \in Clockings : k # l /\ clocking[k].op # "idle" /\ clocking[l].op # "idle" =>
       clocking[k].at # clocking[l].at

\* The inductive invariant of the time clock.
ClockInv == ClockTypeOK /\ EventsRead /\ StampsDiffer

\* What a request found stays true when events are added.
LEMMA LookedStays ==
  ASSUME events \in Seq(EventRow), events' \in Seq(EventRow), Len(events) <= Len(events'),
         \A n \in 1..Len(events) : events'[n] = events[n],
         NEW type, NEW who, NEW site, NEW at, NEW saw, Looked(type, who, site, at, saw)
  PROVE  Looked(type, who, site, at, saw)'
<1> DEFINE S == {n \in 1..saw : events[n].who = who}
<1>1. Len(events) \in Nat /\ Len(events') \in Nat /\ saw \in 0..Len(events) /\ saw \in 0..Len(events')
  BY DEF Looked
<1>2. \A n \in 1..saw : n \in 1..Len(events) /\ events'[n] = events[n]
  BY <1>1
<1>3. S' = S /\ S \subseteq 1..saw
  BY <1>2
<1>4. LatestOf(S)' = LatestOf(S) /\ LatestOf(S) \subseteq S
  BY <1>2, <1>3 DEF LatestOf
<1>5. \A n \in 1..saw : events'[n].at < at
  BY <1>2 DEF Looked
<1>6. type = "clock_in" =>
        \A i \in LatestOf(S)' : ~(events'[i].type = "clock_in" /\ localDate(events'[i].at, site) = localDate(at, site))
  BY <1>2, <1>3, <1>4 DEF Looked
<1>7. type = "clock_out" => \E i \in LatestOf(S)' : events'[i].type = "clock_in"
  BY <1>2, <1>3, <1>4 DEF Looked
<1> QED
  BY <1>1, <1>5, <1>6, <1>7 DEF Looked, localDate

\* What the types of the clock say of its rows.
LEMMA ClockTypes ==
  ASSUME ClockInv
  PROVE  /\ events \in Seq(EventRow) /\ time \in Nat /\ Len(events) \in Nat /\ DOMAIN clocking = Clockings
         /\ DOMAIN events = 1..Len(events)
         /\ \A i \in DOMAIN events : /\ events[i] \in EventRow /\ events[i].at \in Nat /\ events[i].saw \in Nat
                                    /\ events[i].type \in {"clock_in", "clock_out"} /\ events[i].who \in People
<1>1. events \in Seq(EventRow) /\ time \in Nat /\ DOMAIN clocking = Clockings
  BY DEF ClockInv, ClockTypeOK
<1>2. Len(events) \in Nat /\ DOMAIN events = 1..Len(events) /\ \A i \in DOMAIN events : events[i] \in EventRow
  BY <1>1
<1> QED
  BY <1>1, <1>2 DEF EventRow

\* A step of the clock that changes no event and no request.
LEMMA ClockTicksInv == ASSUME ClockInv, time' \in Nat, time <= time', UNCHANGED <<events, clocking>> PROVE ClockInv'
<1>1. events \in Seq(EventRow) /\ time \in Nat /\ Len(events) \in Nat
      /\ \A i \in DOMAIN events : events[i].at \in Nat
  BY ClockTypes
<1>2. \A type, who, site, at, saw : Looked(type, who, site, at, saw) => Looked(type, who, site, at, saw)'
  BY <1>1, LookedStays
<1>3. ClockTypeOK'
  <2>1. ASSUME NEW k \in Clockings, Pending(k) PROVE Pending(k)'
    BY <1>1, <1>2, <2>1 DEF Pending
  <2> QED
    BY <1>1, <2>1 DEF ClockInv, ClockTypeOK
<1>4. EventsRead'
  BY <1>1, <1>2 DEF ClockInv, EventsRead
<1>5. StampsDiffer'
  BY DEF ClockInv, StampsDiffer
<1> QED
  BY <1>3, <1>4, <1>5 DEF ClockInv

\* A request is stamped, after it looked at all events there are.
LEMMA StampedInv ==
  ASSUME ClockInv, NEW k \in Clockings, NEW p \in People, NEW s \in Sites, NEW type \in {"clock_in", "clock_out"},
         Stamped(k, type, p, s), UNCHANGED events, Looked(type, p, s, time, Len(events))
  PROVE  ClockInv'
<1>1. events \in Seq(EventRow) /\ time \in Nat /\ Len(events) \in Nat /\ DOMAIN clocking = Clockings
      /\ \A i \in DOMAIN events : events[i].at \in Nat
  BY ClockTypes
<1>0. PICK c : c = [op |-> type, who |-> p, site |-> s, at |-> time, saw |-> Len(events)]
  OBVIOUS
<1>2. /\ time' = time + 1 /\ clocking'[k] = c /\ DOMAIN clocking' = Clockings
      /\ \A l \in Clockings \ {k} : clocking'[l] = clocking[l]
  BY <1>0, <1>1 DEF Stamped
<1>3. c.op = type /\ c.who = p /\ c.site = s /\ c.at = time /\ c.saw = Len(events) /\ c.op # "idle"
  BY <1>0
<1>4. \A ty, who, site, at, saw : Looked(ty, who, site, at, saw) => Looked(ty, who, site, at, saw)'
  BY <1>1, LookedStays
<1>5. Pending(k)'
  <2>1. Looked(c.op, c.who, c.site, c.at, c.saw)'
    BY <1>3, <1>4
  <2> QED
    BY <1>1, <1>2, <1>3, <2>1 DEF Pending
<1>6. ASSUME NEW l \in Clockings \ {k}, Pending(l) PROVE Pending(l)'
  BY <1>1, <1>2, <1>4, <1>6 DEF Pending
<1>7. ClockTypeOK'
  BY <1>1, <1>2, <1>5, <1>6 DEF ClockInv, ClockTypeOK
<1>8. EventsRead'
  BY <1>1, <1>2, <1>4 DEF ClockInv, EventsRead
<1>9. StampsDiffer'
  <2>1. \A i \in DOMAIN events : events[i].at # time
    BY <1>1 DEF ClockInv, EventsRead
  <2>2. \A l \in Clockings : clocking[l].op # "idle" => clocking[l].at # time
    BY <1>1 DEF ClockInv, ClockTypeOK, Pending
  <2> QED
    BY <1>2, <1>3, <2>1, <2>2 DEF ClockInv, StampsDiffer
<1> QED
  BY <1>7, <1>8, <1>9 DEF ClockInv

\* A sign-in or a clock-out reads the events.
LEMMA ClockReadInv ==
  ASSUME ClockInv, NEW k \in Clockings, NEW p \in People, NEW s \in Sites, SignInRead(k, p, s) \/ ClockOutRead(k, p, s)
  PROVE  ClockInv'
<1>1. events \in Seq(EventRow) /\ Len(events) \in Nat /\ DOMAIN events = 1..Len(events)
  BY DEF ClockInv, ClockTypeOK
<1>0. Len(events) \in 0..Len(events)
  BY <1>1
<1>2. {n \in 1..Len(events) : events[n].who = p} = EventsOf(p)
  BY <1>1 DEF EventsOf
<1>3. \A n \in 1..Len(events) : events[n].at < time
  BY <1>1 DEF ClockInv, EventsRead
<1>4. CASE SignInRead(k, p, s)
  <2>1. \A i \in LatestOf(EventsOf(p)) :
          ~(events[i].type = "clock_in" /\ localDate(events[i].at, s) = localDate(time, s))
    BY <1>4 DEF SignInRead
  <2>2. Looked("clock_in", p, s, time, Len(events))
    BY <1>0, <1>2, <1>3, <2>1 DEF Looked
  <2> QED
    BY <1>4, <2>2, StampedInv DEF SignInRead
<1>5. CASE ClockOutRead(k, p, s)
  <2>1. \E i \in LatestOf(EventsOf(p)) : events[i].type = "clock_in"
    BY <1>5 DEF ClockOutRead
  <2>2. Looked("clock_out", p, s, time, Len(events))
    BY <1>0, <1>2, <1>3, <2>1 DEF Looked
  <2> QED
    BY <1>5, <2>2, StampedInv DEF ClockOutRead
<1> QED
  BY <1>4, <1>5

\* The event commits.
LEMMA ClockWriteInv == ASSUME ClockInv, NEW k \in Clockings, ClockWrite(k) PROVE ClockInv'
<1>a. PICK c : c = clocking[k]
  OBVIOUS
<1>b. PICK e : e = [type |-> c.op, who |-> c.who, site |-> c.site, at |-> c.at, saw |-> c.saw]
  OBVIOUS
<1>1. /\ c.op # "idle" /\ events' = Append(events, e) /\ UNCHANGED time
      /\ clocking' = [clocking EXCEPT ![k] = NoClocking]
  BY <1>a, <1>b DEF ClockWrite
<1>2. events \in Seq(EventRow) /\ time \in Nat /\ Len(events) \in Nat /\ DOMAIN clocking = Clockings
      /\ DOMAIN events = 1..Len(events)
  BY DEF ClockInv, ClockTypeOK
<1>3. /\ c.op \in {"clock_in", "clock_out"} /\ c.who \in People /\ c.site \in Sites
      /\ c.at \in Nat /\ c.saw \in Nat /\ c.at < time /\ Looked(c.op, c.who, c.site, c.at, c.saw)
  BY <1>1, <1>a DEF ClockInv, ClockTypeOK, Pending
<1>4. /\ e \in EventRow /\ e.type = c.op /\ e.who = c.who /\ e.site = c.site /\ e.at = c.at /\ e.saw = c.saw
  BY <1>3, <1>b DEF EventRow
<1>5. c.saw <= Len(events)
  BY <1>2, <1>3 DEF Looked
<1>6. /\ events' \in Seq(EventRow) /\ Len(events') = Len(events) + 1 /\ events'[Len(events) + 1] = e
      /\ \A n \in 1..Len(events) : events'[n] = events[n]
      /\ DOMAIN events' = 1..(Len(events) + 1)
  BY <1>1, <1>2, <1>4
<1>7. \A ty, who, site, at, saw : Looked(ty, who, site, at, saw) => Looked(ty, who, site, at, saw)'
  BY <1>2, <1>6, LookedStays
<1>8. /\ DOMAIN clocking' = Clockings /\ clocking'[k].op = "idle"
      /\ \A l \in Clockings \ {k} : clocking'[l] = clocking[l]
  BY <1>1, <1>2 DEF NoClocking
<1>9. ClockTypeOK'
  <2>1. ASSUME NEW l \in Clockings \ {k}, Pending(l) PROVE Pending(l)'
    BY <1>1, <1>7, <1>8, <2>1 DEF Pending
  <2> QED
    BY <1>1, <1>2, <1>6, <1>8, <2>1 DEF ClockInv, ClockTypeOK
<1>10. EventsRead'
  <2>1. ASSUME NEW i \in 1..Len(events)
        PROVE  /\ events'[i].saw < i /\ events'[i].at < time'
               /\ Looked(events[i].type, events[i].who, events[i].site, events[i].at, events[i].saw)'
    <3>1. /\ events[i].saw < i /\ events[i].at < time /\ events'[i] = events[i]
          /\ Looked(events[i].type, events[i].who, events[i].site, events[i].at, events[i].saw)
      BY <1>2, <1>6 DEF ClockInv, EventsRead
    <3>2. PICK r : r = events[i] /\ r = events'[i]
      BY <3>1
    <3>3. Looked(r.type, r.who, r.site, r.at, r.saw)'
      BY <1>7, <3>1, <3>2
    <3> QED
      BY <1>1, <3>1, <3>2, <3>3
  <2>2. e.saw < Len(events) + 1 /\ e.at < time' /\ Looked(e.type, e.who, e.site, e.at, e.saw)'
    BY <1>1, <1>2, <1>3, <1>4, <1>5, <1>7
  <2> QED
    BY <1>2, <1>6, <2>1, <2>2 DEF EventsRead
<1>11. StampsDiffer'
  <2>1. \A i \in 1..Len(events) : events[i].at # e.at
    BY <1>1, <1>2, <1>4, <1>a DEF ClockInv, StampsDiffer
  <2>2. \A l \in Clockings \ {k} : clocking[l].op # "idle" => clocking[l].at # e.at
    BY <1>1, <1>4, <1>a DEF ClockInv, StampsDiffer
  <2>3. \A i \in DOMAIN events' : i \in 1..Len(events) \/ i = Len(events) + 1
    BY <1>2, <1>6
  <2>4. \A i, j \in DOMAIN events' : i # j => events'[i].at # events'[j].at
    BY <1>2, <1>6, <2>1, <2>3 DEF ClockInv, StampsDiffer
  <2>5. \A i \in DOMAIN events', l \in Clockings : clocking'[l].op # "idle" => events'[i].at # clocking'[l].at
    BY <1>2, <1>6, <1>8, <2>2, <2>3 DEF ClockInv, StampsDiffer
  <2>6. \A m, l \in Clockings : m # l /\ clocking'[m].op # "idle" /\ clocking'[l].op # "idle" =>
          clocking'[m].at # clocking'[l].at
    BY <1>8 DEF ClockInv, StampsDiffer
  <2> QED
    BY <2>4, <2>5, <2>6 DEF StampsDiffer
<1> QED
  BY <1>9, <1>10, <1>11 DEF ClockInv

\* Every step of the clock keeps the invariant.
LEMMA ClockStep == ClockInv /\ [ClockNext]_clockVars => ClockInv'
<1> SUFFICES ASSUME ClockInv, [ClockNext]_clockVars PROVE ClockInv'
  OBVIOUS
<1>1. time \in Nat
  BY DEF ClockInv, ClockTypeOK
<1>2. CASE ClockTicks \/ UNCHANGED clockVars
  <2>1. time' \in Nat /\ time <= time' /\ UNCHANGED <<events, clocking>>
    BY <1>1, <1>2 DEF ClockTicks, clockVars
  <2> QED
    BY <2>1, ClockTicksInv
<1>3. CASE \E k \in Clockings : ClockWrite(k) \/ \E p \in People, s \in Sites : SignInRead(k, p, s) \/ ClockOutRead(k, p, s)
  BY <1>3, ClockWriteInv, ClockReadInv
<1> QED
  BY <1>2, <1>3 DEF ClockNext

\* Nobody has clocked in yet.
LEMMA ClockInitInv == ClockInit => ClockInv
<1> SUFFICES ASSUME ClockInit PROVE ClockInv
  OBVIOUS
<1>1. events = << >> /\ DOMAIN events = {} /\ events \in Seq(EventRow) /\ time \in Nat
  BY TimeClockAssumption DEF ClockInit
<1>2. DOMAIN clocking = Clockings /\ \A k \in Clockings : clocking[k].op = "idle"
  BY DEF ClockInit, NoClocking
<1> QED
  BY <1>1, <1>2 DEF ClockInv, ClockTypeOK, EventsRead, StampsDiffer

\* Of some events, one has the latest stamp.
LEMMA LatestExists ==
  ASSUME ClockInv, NEW S \in SUBSET DOMAIN events, S # {}
  PROVE  LatestOf(S) # {}
<1> DEFINE T == {time - events[n].at : n \in S}
<1>1. \A n \in S : time \in Nat /\ events[n].at \in Nat /\ events[n].at < time
  BY ClockTypes DEF ClockInv, EventsRead
<1>2. T \in SUBSET Nat /\ T # {}
  BY <1>1
<1>3. PICK m \in T : \A o \in T : m <= o
  BY <1>2, LeastNatural
<1>4. PICK n \in S : m = time - events[n].at
  BY <1>3
<1>5. ASSUME NEW o \in S PROVE events[o].at <= events[n].at
  <2>1. time - events[o].at \in T
    OBVIOUS
  <2>2. time - events[n].at <= time - events[o].at
    BY <1>3, <1>4, <2>1
  <2>3. PICK a \in Nat, b \in Nat, c \in Nat : a = events[o].at /\ b = events[n].at /\ c = time
    BY <1>1
  <2> QED
    BY <2>2, <2>3
<1> QED
  BY <1>4, <1>5 DEF LatestOf

\* Two events of a person in a row: if no request overlapped another's, the
\* second looked at the first and found it to be the latest.
LEMMA SecondSeesFirst ==
  ASSUME ClockInv, NEW i \in DOMAIN events, NEW j \in DOMAIN events, i < j,
         events[i].who = events[j].who,
         \A n \in (i + 1)..(j - 1) : events[n].who # events[i].who,
         ~Overlapped(i), ~Overlapped(j)
  PROVE  LatestOf({n \in 1..events[j].saw : events[n].who = events[j].who}) = {i}
<1> DEFINE S == {n \in 1..events[j].saw : events[n].who = events[j].who}
<1>1. /\ i \in Nat /\ j \in Nat /\ i >= 1 /\ j <= Len(events) /\ Len(events) \in Nat /\ DOMAIN events = 1..Len(events)
      /\ \A n \in DOMAIN events : events[n].at \in Nat /\ events[n].saw \in Nat
  BY ClockTypes
<1>2. /\ \A n \in DOMAIN events : events[n].who = events[j].who /\ n < j => n <= events[j].saw
      /\ \A n \in DOMAIN events : events[n].who = events[i].who /\ n < i => n <= events[i].saw
  BY <1>1 DEF Overlapped, EventsOf
<1>3. events[j].saw < j /\ \A n \in 1..events[i].saw : events[n].at < events[i].at
  BY DEF ClockInv, EventsRead, Looked
<1>4. i \in S
  BY <1>1, <1>2
<1>5. ASSUME NEW n \in S, n # i PROVE events[n].at < events[i].at
  <2>1. n \in Nat /\ n >= 1 /\ n < j /\ n \in DOMAIN events /\ events[n].who = events[i].who
    BY <1>1, <1>3
  <2>2. n < i
    <3>1. ~(n \in (i + 1)..(j - 1))
      BY <2>1
    <3> QED
      BY <1>1, <1>5, <2>1, <3>1
  <2>3. n <= events[i].saw
    BY <1>2, <2>1, <2>2
  <2> QED
    BY <1>1, <1>3, <2>1, <2>3
<1>6. \A n \in S : n \in DOMAIN events /\ events[n].at \in Nat
  BY <1>1, <1>3
<1> HIDE DEF S
<1>7. i \in LatestOf(S)
  BY <1>4, <1>5, <1>6 DEF LatestOf
<1>8. \A n \in LatestOf(S) : n = i
  BY <1>4, <1>5, <1>6 DEF LatestOf
<1>9. LatestOf(S) = {i}
  BY <1>7, <1>8
<1> QED
  BY <1>9 DEF S

\* The attendance of an outlet is whoever clocked in there today and did not
\* clock out there since.
LEMMA AttendanceTrue ==
  ASSUME ClockInv, NEW s \in Sites, NEW p \in People
  PROVE  p \in getAttendance(s) <=>
           \E i \in EventsOf(p) :
             /\ events[i].site = s /\ events[i].type = "clock_in" /\ Today(events[i].at, s) = Today(time, s)
             /\ \A o \in EventsOf(p) : events[o].site = s /\ events[o].type = "clock_out" => events[o].at < events[i].at
<1> DEFINE recent == {i \in DOMAIN events : events[i].site = s /\ events[i].at + LookbackHours >= time}
           R == recent \cap EventsOf(p)
           Near(i) == localDate(events[i].at, s) = localDate(time, s)
<1>1. p \in getAttendance(s) <=> \E i \in LatestOf(R) : events[i].type = "clock_in" /\ Near(i)
  BY DEF getAttendance
<1>2. \A i \in DOMAIN events : Near(i) <=> Today(events[i].at, s) = Today(time, s)
  BY DEF localDate, Today
<1>3. /\ time \in Nat /\ Ahead[s] \in Nat /\ HoursADay \in Nat \ {0} /\ LookbackHours = 2 * HoursADay
      /\ \A i \in DOMAIN events : /\ events[i].at \in Nat /\ events[i].at < time
                                  /\ events[i].type \in {"clock_in", "clock_out"}
  BY ClockTypes, TimeClockAssumption DEF ClockInv, EventsRead
<1>4. \A i \in R : i \in DOMAIN events /\ events[i].who = p /\ events[i].site = s /\ events[i].at + LookbackHours >= time
  BY DEF EventsOf
<1>5. ASSUME NEW i \in DOMAIN events, events[i].who = p, events[i].site = s, Near(i) PROVE i \in R
  <2>1. PICK a \in Nat, x \in Nat : a = events[i].at /\ x = Ahead[s]
    BY <1>3
  <2>2. (a + x) \div HoursADay = (time + x) \div HoursADay /\ a + x \in Nat /\ time + x \in Nat
    BY <1>3, <1>5, <2>1 DEF localDate
  <2>3. time + x < a + x + HoursADay
    BY <1>3, <2>2, SameDayNear
  <2>4. a + LookbackHours >= time
    BY <1>3, <2>1, <2>3
  <2> QED
    BY <1>5, <2>1, <2>4 DEF EventsOf
<1>6. ASSUME NEW i \in DOMAIN events, Near(i), NEW m \in DOMAIN events, events[i].at <= events[m].at PROVE Near(m)
  <2>1. PICK a \in Nat, b \in Nat, x \in Nat : a = events[i].at /\ b = events[m].at /\ x = Ahead[s]
    BY <1>3
  <2>2. a + x \in Nat /\ b + x \in Nat /\ time + x \in Nat /\ a + x <= b + x /\ b + x <= time + x
    BY <1>3, <1>6, <2>1
  <2>3. (a + x) \div HoursADay <= (b + x) \div HoursADay /\ (a + x) \div HoursADay \in Nat
    BY <1>3, <2>2, DaysInOrder
  <2>4. (b + x) \div HoursADay <= (time + x) \div HoursADay
        /\ (b + x) \div HoursADay \in Nat /\ (time + x) \div HoursADay \in Nat
    BY <1>3, <2>2, DaysInOrder
  <2>5. (a + x) \div HoursADay = (time + x) \div HoursADay
    BY <1>6, <2>1 DEF localDate
  <2>6. (b + x) \div HoursADay = (time + x) \div HoursADay
    BY <2>3, <2>4, <2>5
  <2> QED
    BY <2>1, <2>6 DEF localDate
<1> HIDE DEF Near
<1>7. ASSUME NEW i \in LatestOf(R), events[i].type = "clock_in", Near(i)
      PROVE  /\ i \in EventsOf(p) /\ events[i].site = s
             /\ \A o \in EventsOf(p) : events[o].site = s /\ events[o].type = "clock_out" => events[o].at < events[i].at
  <2>1. i \in R /\ \A o \in R : events[o].at <= events[i].at
    BY DEF LatestOf
  <2>2. ASSUME NEW o \in EventsOf(p), events[o].site = s, events[o].type = "clock_out"
        PROVE  events[o].at < events[i].at
    <3>1. o \in DOMAIN events /\ i \in DOMAIN events /\ o # i
      BY <1>4, <1>7, <2>1, <2>2 DEF EventsOf
    <3>2. events[o].at # events[i].at
      BY <3>1 DEF ClockInv, StampsDiffer
    <3>3. CASE o \in R
      BY <1>3, <2>1, <3>1, <3>2, <3>3
    <3>4. CASE o \notin R
      <4>1. ~(events[o].at + LookbackHours >= time)
        BY <2>2, <3>1, <3>4
      <4>2. events[i].at + LookbackHours >= time
        BY <1>4, <2>1
      <4> QED
        BY <1>3, <3>1, <4>1, <4>2
    <3> QED
      BY <3>3, <3>4
  <2> QED
    BY <1>4, <2>1, <2>2 DEF EventsOf
<1>8. ASSUME NEW i \in EventsOf(p), events[i].site = s, events[i].type = "clock_in", Near(i),
             \A o \in EventsOf(p) : events[o].site = s /\ events[o].type = "clock_out" => events[o].at < events[i].at
      PROVE  \E m \in LatestOf(R) : events[m].type = "clock_in" /\ Near(m)
  <2>1. i \in DOMAIN events /\ events[i].who = p
    BY DEF EventsOf
  <2>2. i \in R
    BY <1>5, <1>8, <2>1
  <2>3. PICK m : m \in LatestOf(R)
    <3>1. R \in SUBSET DOMAIN events /\ R # {}
      BY <2>2
    <3> HIDE DEF R
    <3> QED
      BY <3>1, LatestExists
  <2>4. m \in R /\ events[i].at <= events[m].at
    BY <2>2, <2>3 DEF LatestOf
  <2>5. Near(m)
    BY <1>4, <1>6, <1>8, <2>1, <2>4
  <2>6. m \in EventsOf(p) /\ events[m].site = s /\ events[m].type \in {"clock_in", "clock_out"}
    BY <1>3, <1>4, <2>4 DEF EventsOf
  <2>7. events[m].type # "clock_out"
    BY <1>3, <1>4, <1>8, <2>1, <2>4, <2>6
  <2> QED
    BY <2>3, <2>5, <2>6, <2>7
<1>9. EventsOf(p) \subseteq DOMAIN events /\ LatestOf(R) \subseteq R
  BY DEF EventsOf, LatestOf
<1> QED
  BY <1>1, <1>2, <1>4, <1>7, <1>8, <1>9

\* Whatever tills a person signs in at: a second clock-in of an outlet's day, or
\* a second clock-out, comes only from requests that overlap, and an outlet's
\* attendance is whoever clocked in there today and is not out since
\* (recordClockInIfNeeded, clockOut, getAttendance).
THEOREM ClockKept == ClockSpec => []ClockedOnce
<1>1. ClockSpec => []ClockInv
  BY ClockInitInv, ClockStep, PTL DEF ClockSpec
<1>2. ClockInv => ClockedOnce
  <2> SUFFICES ASSUME ClockInv PROVE ClockedOnce
    OBVIOUS
  <2>1. ASSUME NEW i \in DOMAIN events, NEW j \in DOMAIN events, i < j, events[i].who = events[j].who,
               events[i].type = events[j].type, \A n \in (i + 1)..(j - 1) : events[n].who # events[i].who,
               events[i].type = "clock_in" => Today(events[i].at, events[j].site) = Today(events[j].at, events[j].site),
               ~Overlapped(i), ~Overlapped(j)
        PROVE  FALSE
    <3> DEFINE S == {n \in 1..events[j].saw : events[n].who = events[j].who}
    <3>1. LatestOf(S) = {i}
      BY <2>1, SecondSeesFirst
    <3>2. /\ events[j].type = "clock_in" =>
               \A m \in LatestOf(S) : ~(/\ events[m].type = "clock_in"
                                        /\ localDate(events[m].at, events[j].site) = localDate(events[j].at, events[j].site))
          /\ events[j].type = "clock_out" => \E m \in LatestOf(S) : events[m].type = "clock_in"
      BY DEF ClockInv, EventsRead, Looked
    <3>3. events[j].type \in {"clock_in", "clock_out"}
      BY ClockTypes
    <3> HIDE DEF S
    <3>4. CASE events[j].type = "clock_in"
      BY <2>1, <3>1, <3>2, <3>4 DEF localDate, Today
    <3>5. CASE events[j].type = "clock_out"
      BY <2>1, <3>1, <3>2, <3>5
    <3> QED
      BY <3>3, <3>4, <3>5
  <2>2. ASSUME NEW s \in Sites
        PROVE  getAttendance(s) =
                 {p \in People : \E i \in EventsOf(p) :
                    /\ events[i].site = s /\ events[i].type = "clock_in" /\ Today(events[i].at, s) = Today(time, s)
                    /\ \A o \in EventsOf(p) : events[o].site = s /\ events[o].type = "clock_out" => events[o].at < events[i].at}
    <3>1. getAttendance(s) \subseteq People
      BY DEF getAttendance
    <3> QED
      BY <3>1, AttendanceTrue
  <2> QED
    BY <2>1, <2>2 DEF ClockedOnce
<1> QED
  BY <1>1, <1>2, PTL

-----------------------------------------------------------------------------
(* The cash drawer.  Sales and notes carry no shift id, so a close takes    *)
(* what is stamped since the opening: two shifts are told apart only by     *)
(* when they opened and closed.                                             *)

\* What a close, or a shift it was written to, has taken: rows that were there
\* and are stamped not before the opening.
Took(r) ==
  /\ \A b \in r.sales : b \in Sales /\ sale[b].st = "done" /\ sale[b].at >= r.at
  /\ \A n \in DOMAIN r.cash : n \in Notes /\ note[n].st = "done" /\ note[n].at >= r.at

ShiftOK(r) ==
  /\ r.st \in {"none", "open", "closed"} /\ r.at \in Nat /\ r.closes \in Nat
  /\ r.closes = 0 <=> r.st \in {"none", "open"}

DrawerTypes ==
  /\ stamp \in Nat
  /\ DOMAIN shift = Shifts /\ \A s \in Shifts : ShiftOK(shift[s])
  /\ sale \in [Sales -> [st : {"none", "pending", "done"}, at : Nat]]
  /\ note \in [Notes -> [st : {"none", "pending", "done"}, at : Nat, method : {"cash", "card", "unknown"}]]
  /\ DOMAIN till = Tills /\ \A k \in Tills : till[k].at \in Nat

\* Rows are stamped by the clock, so a shift that opens now is after them all.
StampsPast ==
  /\ \A b \in Sales : sale[b].at <= stamp
  /\ \A n \in Notes : note[n].at <= stamp

\* A close in flight knows its shift's opening, and took what is since then.
ClosesSound == \A k \in Tills :
  /\ Took(till[k])
  /\ till[k].op \in {"sum sales", "sum refunds", "close"} =>
       /\ till[k].shift \in Shifts /\ shift[till[k].shift].st # "none"
       /\ till[k].at = shift[till[k].shift].at

\* Shifts are opened in order, one after the other is closed.
InOrder == \A r, s \in Shifts :
  r < s /\ shift[s].st # "none" => shift[r].st = "closed"

\* What a shift closed by one request took is older than every later shift.
TookBefore == \A r, s \in Shifts :
  r < s /\ shift[s].st # "none" /\ shift[r].closes = 1 =>
    /\ \A b \in shift[r].sales : sale[b].at < shift[s].at
    /\ \A n \in DOMAIN shift[r].cash : note[n].at < shift[s].at

\* The inductive invariant of the drawer.
DrawerInv ==
  /\ DrawerTypes /\ StampsPast /\ ClosesSound
  /\ \A s \in Shifts : Took(shift[s])
  /\ InOrder /\ TookBefore

\* Nothing is taken by an idle till or a shift that is not closed.
LEMMA NothingTaken ==
  /\ Took(IdleTill) /\ Took(NoShift) /\ \A t \in Nat : Took(OpenedAt(t)) /\ ShiftOK(OpenedAt(t))
  /\ ShiftOK(NoShift) /\ IdleTill.at \in Nat /\ IdleTill.op = "idle"
BY DEF Took, IdleTill, NoShift, OpenedAt, ShiftOK

\* A finite set of naturals with 0 in it has a largest element.
LEMMA GreatestStamp ==
  ASSUME NEW F, IsFiniteSet(F), NEW f, \A x \in F : f[x] \in Nat
  PROVE  LET S == {f[x] : x \in F} \cup {0} IN Max(S) \in Nat /\ \A y \in S : y <= Max(S)
<1> DEFINE Top(s) == \E m \in {f[x] : x \in s} \cup {0} : \A y \in {f[x] : x \in s} \cup {0} : m >= y
           G == {s \in SUBSET F : Top(s)}
<1>1. {} \in G
  OBVIOUS
<1>2. ASSUME NEW s \in SUBSET F, NEW x \in F, s \in G PROVE s \cup {x} \in G
  <2>1. PICK m \in {f[z] : z \in s} \cup {0} : \A y \in {f[z] : z \in s} \cup {0} : m >= y
    BY <1>2
  <2>2. m \in Nat /\ f[x] \in Nat
    BY <2>1
  <2>3. CASE m >= f[x]
    <3>1. m \in {f[z] : z \in s \cup {x}} \cup {0} /\ \A y \in {f[z] : z \in s \cup {x}} \cup {0} : m >= y
      BY <2>1, <2>3
    <3> QED
      BY <3>1
  <2>4. CASE f[x] > m
    <3>1. \A y \in {f[z] : z \in s} \cup {0} : y \in Nat /\ f[x] >= y
      BY <2>1, <2>2, <2>4
    <3>2. f[x] \in {f[z] : z \in s \cup {x}} \cup {0} /\ \A y \in {f[z] : z \in s \cup {x}} \cup {0} : f[x] >= y
      BY <2>2, <3>1
    <3> QED
      BY <3>2
  <2> QED
    BY <2>2, <2>3, <2>4
<1>3. F \in G
  <2> HIDE DEF G
  <2> QED
    BY <1>1, <1>2, SubsetsAll
<1>4. Top(F)
  BY <1>3
<1>5. PICK m \in {f[x] : x \in F} \cup {0} : \A y \in {f[x] : x \in F} \cup {0} : m >= y
  BY <1>4
<1> DEFINE S == {f[x] : x \in F} \cup {0}
<1>6. Max(S) \in S /\ \A y \in S : Max(S) >= y
  BY <1>5 DEF Max
<1>7. \A y \in S : y \in Nat
  OBVIOUS
<1> QED
  BY <1>6, <1>7

\* Old notes, their paid bills and an open shift satisfy the invariant.
LEMMA DrawerStart == ASSUME DrawerInit PROVE DrawerInv
<1>1. stamp \in Nat /\ \A n \in DOMAIN Legacy : Legacy[n] <= stamp
  <2> DEFINE S == {Legacy[n] : n \in DOMAIN Legacy} \cup {0}
  <2>1. IsFiniteSet(DOMAIN Legacy)
    BY DrawerAssumption, FS_Subset
  <2>2. Max(S) \in Nat /\ \A y \in S : y <= Max(S)
    BY DrawerAssumption, <2>1, GreatestStamp
  <2> QED
    BY <2>2 DEF DrawerInit
<1>2. PICK since \in 0..stamp :
        shift = [s \in Shifts |-> IF s = 1 THEN OpenedAt(since) ELSE NoShift]
  BY DEF DrawerInit
<1>3. since \in Nat
  BY <1>1, <1>2
<1>4. \A s \in Shifts : ShiftOK(shift[s]) /\ Took(shift[s]) /\ shift[s].closes = 0 /\ (s # 1 => shift[s].st = "none")
  BY <1>2, <1>3, NothingTaken DEF NoShift, OpenedAt
<1>5. \A b \in Sales : sale[b] \in [st : {"none", "pending", "done"}, at : Nat] /\ sale[b].at = 0
  BY DEF DrawerInit, NoRow
<1>6. \A n \in Notes : /\ note[n] \in [st : {"none", "pending", "done"}, at : Nat, method : {"cash", "card", "unknown"}]
                       /\ note[n].at <= stamp
  BY <1>1, DrawerAssumption DEF DrawerInit
<1>7. \A k \in Tills : till[k] = IdleTill
  BY DEF DrawerInit
<1>8. DrawerTypes
  BY <1>1, <1>2, <1>4, <1>5, <1>6, <1>7, NothingTaken DEF DrawerInit, DrawerTypes
<1>9. StampsPast
  BY <1>1, <1>5, <1>6 DEF StampsPast
<1>10. ClosesSound
  BY <1>7, NothingTaken DEF ClosesSound
<1>11. InOrder /\ TookBefore
  <2>1. \A s \in Shifts : s \in Nat \ {0}
    BY DrawerAssumption
  <2>2. ASSUME NEW r \in Shifts, NEW s \in Shifts, r < s PROVE shift[s].st = "none"
    BY <1>4, <2>1, <2>2
  <2> QED
    BY <1>4, <2>2 DEF InOrder, TookBefore
<1> QED
  BY <1>4, <1>8, <1>9, <1>10, <1>11 DEF DrawerInv

\* Sales and notes only go on: what was done stays as it is.
RowsKept ==
  /\ \A b \in Sales : sale[b].st = "done" => sale'[b] = sale[b]
  /\ \A n \in Notes : note[n].st = "done" => note'[n] = note[n]

\* What was taken stays taken.
LEMMA TookKept ==
  ASSUME NEW r, Took(r), RowsKept
  PROVE  Took(r)'
BY DEF Took, RowsKept

\* The tills after a step that gives slot k the request q.
LEMMA TillStep ==
  ASSUME DrawerInv, NEW k \in Tills, NEW q, till' = [till EXCEPT ![k] = q], UNCHANGED <<stamp, shift, sale, note>>,
         q.at \in Nat, Took(q),
         q.op \in {"sum sales", "sum refunds", "close"} =>
           q.shift \in Shifts /\ shift[q.shift].st # "none" /\ q.at = shift[q.shift].at
  PROVE  DrawerInv'
<1>1. DOMAIN till' = Tills /\ till'[k] = q /\ \A j \in Tills : j # k => till'[j] = till[j]
  BY DEF DrawerInv, DrawerTypes
<1>2. \A r : Took(r)' <=> Took(r)
  BY DEF Took
<1>3. DrawerTypes'
  BY <1>1 DEF DrawerInv, DrawerTypes, ShiftOK
<1>4. StampsPast' /\ InOrder' /\ TookBefore'
  BY DEF DrawerInv, StampsPast, InOrder, TookBefore
<1>5. \A j \in Tills : Took(till'[j])
  BY <1>1 DEF DrawerInv, ClosesSound
<1>6. \A j \in Tills : till'[j].op \in {"sum sales", "sum refunds", "close"} =>
         /\ till'[j].shift \in Shifts /\ shift[till'[j].shift].st # "none"
         /\ till'[j].at = shift[till'[j].shift].at
  BY <1>1 DEF DrawerInv, ClosesSound
<1>7. ClosesSound'
  BY ZenonT(60), <1>5, <1>6 DEF ClosesSound, Took
<1>8. (\A s \in Shifts : Took(shift[s]))'
  BY <1>2 DEF DrawerInv, Took
<1> QED
  BY <1>3, <1>4, <1>7, <1>8 DEF DrawerInv

\* The requests' reads, and the write of a movement.
LEMMA DrawerReads ==
  ASSUME DrawerInv, NEW k \in Tills,
         \/ OpenRead(k) \/ SumSales(k) \/ SumRefunds(k)
         \/ \E s \in Shifts : MoveRead(k, s) \/ CloseLoad(k, s)
         \/ \E v \in Movements : MoveWrite(k, v)
  PROVE  DrawerInv'
<1>1. CASE OpenRead(k)
  <2> DEFINE q == [IdleTill EXCEPT !.op = "open"]
  <2>1. q.op = "open" /\ q.at = 0 /\ q.sales = {} /\ q.cash = << >>
    BY DEF IdleTill
  <2>2. Took(q)
    BY <2>1 DEF Took
  <2>3. till' = [till EXCEPT ![k] = q] /\ UNCHANGED <<stamp, shift, sale, note>>
    BY <1>1 DEF OpenRead
  <2>4. q.at \in Nat /\ q.op \notin {"sum sales", "sum refunds", "close"}
    BY <2>1
  <2> HIDE DEF q
  <2> QED
    BY <2>2, <2>3, <2>4, TillStep
<1>2. CASE \E s \in Shifts : MoveRead(k, s)
  <2>1. PICK s \in Shifts : MoveRead(k, s)
    BY <1>2
  <2> DEFINE q == [op |-> "move", shift |-> s, at |-> 0, moved |-> {}, sales |-> {}, cash |-> << >>]
  <2>2. q.op = "move" /\ q.at \in Nat /\ Took(q)
    BY DEF Took
  <2>3. till' = [till EXCEPT ![k] = q] /\ UNCHANGED <<stamp, shift, sale, note>>
    BY <2>1 DEF MoveRead
  <2> HIDE DEF q
  <2> QED
    BY <2>2, <2>3, TillStep
<1>3. CASE \E v \in Movements : MoveWrite(k, v)
  <2>1. till' = [till EXCEPT ![k] = IdleTill] /\ UNCHANGED <<stamp, shift, sale, note>>
    BY <1>3 DEF MoveWrite
  <2> QED
    BY <2>1, NothingTaken, TillStep
<1>4. CASE \E s \in Shifts : CloseLoad(k, s)
  <2>1. PICK s \in Shifts : CloseLoad(k, s)
    BY <1>4
  <2> DEFINE q == [op |-> "sum sales", shift |-> s, at |-> shift[s].at,
                   moved |-> {v \in Movements : moved[v] = s}, sales |-> {}, cash |-> << >>]
  <2>2. shift[s].st # "none" /\ shift[s].at \in Nat
    BY <2>1 DEF CloseLoad, DrawerInv, DrawerTypes, ShiftOK
  <2>3. q.shift = s /\ q.at = shift[s].at /\ Took(q)
    BY DEF Took
  <2>4. till' = [till EXCEPT ![k] = q] /\ UNCHANGED <<stamp, shift, sale, note>>
    BY <2>1 DEF CloseLoad
  <2> HIDE DEF q
  <2> QED
    BY <2>2, <2>3, <2>4, TillStep
<1>5. CASE SumSales(k)
  <2> DEFINE q == [op |-> "sum refunds", shift |-> till[k].shift, at |-> till[k].at, moved |-> till[k].moved,
                   sales |-> computeCashSales(till[k].at), cash |-> << >>]
  <2>1. till[k].op = "sum sales" /\ till' = [till EXCEPT ![k] = q] /\ UNCHANGED <<stamp, shift, sale, note>>
    BY <1>5 DEF SumSales
  <2>2. q.shift = till[k].shift /\ q.at = till[k].at
    OBVIOUS
  <2>3. Took(q)
    BY DEF Took, computeCashSales
  <2>4. q.at \in Nat /\ q.shift \in Shifts /\ shift[q.shift].st # "none" /\ q.at = shift[q.shift].at
    BY <2>1, <2>2 DEF DrawerInv, DrawerTypes, ClosesSound
  <2> HIDE DEF q
  <2> QED
    BY <2>1, <2>3, <2>4, TillStep
<1>6. CASE SumRefunds(k)
  <2> DEFINE q == [op |-> "close", shift |-> till[k].shift, at |-> till[k].at, moved |-> till[k].moved,
                   sales |-> till[k].sales, cash |-> computeCashRefunds(till[k].at)]
  <2>1. till[k].op = "sum refunds" /\ till' = [till EXCEPT ![k] = q] /\ UNCHANGED <<stamp, shift, sale, note>>
    BY <1>6 DEF SumRefunds
  <2>2. q.shift = till[k].shift /\ q.at = till[k].at /\ q.sales = till[k].sales /\ q.cash = computeCashRefunds(till[k].at)
    OBVIOUS
  <2>3. DOMAIN computeCashRefunds(till[k].at) = {n \in Notes : note[n].st = "done" /\ note[n].at >= till[k].at}
    BY DEF computeCashRefunds
  <2>4. Took(till[k])
    BY DEF DrawerInv, ClosesSound
  <2>5. Took(q)
    BY <2>2, <2>3, <2>4 DEF Took
  <2>6. q.at \in Nat /\ q.shift \in Shifts /\ shift[q.shift].st # "none" /\ q.at = shift[q.shift].at
    BY <2>1, <2>2 DEF DrawerInv, DrawerTypes, ClosesSound
  <2> HIDE DEF q
  <2> QED
    BY <2>1, <2>5, <2>6, TillStep
<1> QED
  BY <1>1, <1>2, <1>3, <1>4, <1>5, <1>6

\* A sale or a note is stamped or becomes visible: no close has taken it yet.
LEMMA SalesGoOn ==
  ASSUME DrawerInv, UNCHANGED <<shift, till>>, RowsKept, stamp' \in {stamp, stamp + 1},
         sale' \in [Sales -> [st : {"none", "pending", "done"}, at : Nat]],
         note' \in [Notes -> [st : {"none", "pending", "done"}, at : Nat, method : {"cash", "card", "unknown"}]],
         StampsPast'
  PROVE  DrawerInv'
<1>1. DrawerTypes'
  BY DEF DrawerInv, DrawerTypes, ShiftOK
<1>2. InOrder'
  BY DEF DrawerInv, InOrder
<1>3. \A s \in Shifts : Took(shift[s])'
  BY TookKept DEF DrawerInv
<1>4. \A k \in Tills : Took(till[k])'
  BY TookKept DEF DrawerInv, ClosesSound
<1>5. ClosesSound'
  BY <1>4 DEF DrawerInv, ClosesSound, Took
<1>6. TookBefore'
  BY DEF DrawerInv, TookBefore, Took, RowsKept
<1>7. (\A s \in Shifts : Took(shift[s]))'
  BY <1>3 DEF Took
<1> QED
  BY <1>1, <1>2, <1>5, <1>6, <1>7 DEF DrawerInv

\* Sales and refunds are stamped and become visible.
LEMMA SalesInv ==
  ASSUME DrawerInv,
         \/ \E b \in Sales : SaleStamp(b) \/ SaleCommit(b)
         \/ \E n \in Notes, method \in {"cash", "card"} : RefundStamp(n, method)
         \/ \E n \in Notes : RefundCommit(n)
  PROVE  DrawerInv'
<1> USE DEF Tick
<1>1. CASE \E b \in Sales : SaleStamp(b)
  <2>1. PICK b \in Sales : SaleStamp(b)
    BY <1>1
  <2>2. sale' \in [Sales -> [st : {"none", "pending", "done"}, at : Nat]]
    BY <2>1 DEF SaleStamp, DrawerInv, DrawerTypes
  <2>3. RowsKept
    BY <2>1 DEF SaleStamp, RowsKept, DrawerInv, DrawerTypes
  <2>4. StampsPast'
    BY <2>1 DEF SaleStamp, StampsPast, DrawerInv, DrawerTypes
  <2> QED
    BY <2>1, <2>2, <2>3, <2>4, SalesGoOn DEF SaleStamp, DrawerInv, DrawerTypes
<1>2. CASE \E b \in Sales : SaleCommit(b)
  <2>1. PICK b \in Sales : SaleCommit(b)
    BY <1>2
  <2>2. sale' \in [Sales -> [st : {"none", "pending", "done"}, at : Nat]] /\ \A c \in Sales : sale'[c].at = sale[c].at
    BY <2>1 DEF SaleCommit, DrawerInv, DrawerTypes
  <2>3. RowsKept
    BY <2>1 DEF SaleCommit, RowsKept, DrawerInv, DrawerTypes
  <2>4. StampsPast'
    BY <2>1, <2>2 DEF SaleCommit, StampsPast, DrawerInv, DrawerTypes
  <2> QED
    BY <2>1, <2>2, <2>3, <2>4, SalesGoOn DEF SaleCommit, DrawerInv, DrawerTypes
<1>3. CASE \E n \in Notes, method \in {"cash", "card"} : RefundStamp(n, method)
  <2>1. PICK n \in Notes, method \in {"cash", "card"} : RefundStamp(n, method)
    BY <1>3
  <2>2. note' \in [Notes -> [st : {"none", "pending", "done"}, at : Nat, method : {"cash", "card", "unknown"}]]
    BY <2>1 DEF RefundStamp, DrawerInv, DrawerTypes
  <2>3. RowsKept
    BY <2>1 DEF RefundStamp, RowsKept, DrawerInv, DrawerTypes
  <2>4. StampsPast'
    BY <2>1 DEF RefundStamp, StampsPast, DrawerInv, DrawerTypes
  <2> QED
    BY <2>1, <2>2, <2>3, <2>4, SalesGoOn DEF RefundStamp, DrawerInv, DrawerTypes
<1>4. CASE \E n \in Notes : RefundCommit(n)
  <2>1. PICK n \in Notes : RefundCommit(n)
    BY <1>4
  <2>2. /\ note' \in [Notes -> [st : {"none", "pending", "done"}, at : Nat, method : {"cash", "card", "unknown"}]]
        /\ \A m \in Notes : note'[m].at = note[m].at
    BY <2>1 DEF RefundCommit, DrawerInv, DrawerTypes
  <2>3. RowsKept
    BY <2>1 DEF RefundCommit, RowsKept, DrawerInv, DrawerTypes
  <2>4. StampsPast'
    BY <2>1, <2>2 DEF RefundCommit, StampsPast, DrawerInv, DrawerTypes
  <2> QED
    BY <2>1, <2>2, <2>3, <2>4, SalesGoOn DEF RefundCommit, DrawerInv, DrawerTypes
<1> QED
  BY <1>1, <1>2, <1>3, <1>4

\* A shift opens: every row is older than it.
LEMMA OpenInv == ASSUME DrawerInv, NEW k \in Tills, OpenWrite(k) PROVE DrawerInv'
<1>1. till' = [till EXCEPT ![k] = IdleTill] /\ UNCHANGED <<sale, note>>
  BY DEF OpenWrite
<1>2. CASE UNCHANGED <<stamp, shift>>
  BY <1>1, <1>2, NothingTaken, TillStep
<1>3. ASSUME NEW s \in Shifts, NoOpenShift, Tick, shift[s].st = "none", \A r \in Shifts : r < s => shift[r].st # "none",
             shift' = [shift EXCEPT ![s] = OpenedAt(stamp')]
      PROVE  DrawerInv'
  <2>1. stamp \in Nat /\ stamp' = stamp + 1
    BY <1>3 DEF Tick, DrawerInv, DrawerTypes
  <2>2. DOMAIN shift' = Shifts /\ shift'[s] = OpenedAt(stamp + 1) /\ \A r \in Shifts : r # s => shift'[r] = shift[r]
    BY <1>3, <2>1 DEF DrawerInv, DrawerTypes
  <2>3. /\ OpenedAt(stamp + 1).st = "open" /\ OpenedAt(stamp + 1).at = stamp + 1 /\ OpenedAt(stamp + 1).closes = 0
        /\ Took(OpenedAt(stamp + 1)) /\ ShiftOK(OpenedAt(stamp + 1))
    BY <2>1, NothingTaken DEF OpenedAt
  <2>4. DOMAIN till' = Tills /\ till'[k] = IdleTill /\ \A j \in Tills : j # k => till'[j] = till[j]
    BY <1>1 DEF DrawerInv, DrawerTypes
  <2>5. DrawerTypes'
    BY <1>1, <2>1, <2>2, <2>3, <2>4, NothingTaken DEF DrawerInv, DrawerTypes, ShiftOK
  <2>6. StampsPast'
    BY <1>1, <2>1 DEF DrawerInv, DrawerTypes, StampsPast
  <2>7. \A j \in Tills : Took(till'[j])
    BY <2>4, NothingTaken DEF DrawerInv, ClosesSound
  <2>8. \A j \in Tills : till'[j].op \in {"sum sales", "sum refunds", "close"} =>
           /\ till'[j].shift \in Shifts /\ shift'[till'[j].shift].st # "none"
           /\ till'[j].at = shift'[till'[j].shift].at
    <3> SUFFICES ASSUME NEW j \in Tills, till'[j].op \in {"sum sales", "sum refunds", "close"}
                 PROVE  /\ till'[j].shift \in Shifts /\ shift'[till'[j].shift].st # "none"
                        /\ till'[j].at = shift'[till'[j].shift].at
      OBVIOUS
    <3>1. j # k /\ till'[j] = till[j]
      BY <2>4, NothingTaken
    <3>2. till[j].shift \in Shifts /\ shift[till[j].shift].st # "none" /\ till[j].at = shift[till[j].shift].at
      BY <3>1 DEF DrawerInv, ClosesSound
    <3>3. shift'[till[j].shift] = shift[till[j].shift]
      BY <1>3, <2>2, <3>2
    <3> QED
      BY <3>1, <3>2, <3>3
  <2>9. ClosesSound'
    BY <1>1, <2>7, <2>8 DEF ClosesSound, Took
  <2>10. \A r \in Shifts : Took(shift'[r])
    BY <2>2, <2>3 DEF DrawerInv
  <2>11. (\A r \in Shifts : Took(shift[r]))'
    BY <1>1, <2>10 DEF Took
  <2>12. \A r \in Shifts : shift[r].st # "open"
    BY <1>3 DEF NoOpenShift, OpenShifts
  <2>13. \A r \in Shifts : r < s => shift[r].st = "closed"
    BY <1>3, <2>12 DEF DrawerInv, DrawerTypes, ShiftOK
  <2>14. \A r \in Shifts : s < r => shift[r].st = "none"
    BY <1>3 DEF DrawerInv, InOrder
  <2>15. \A q, r \in Shifts : q \in Nat /\ r \in Nat
    BY DrawerAssumption
  <2>16. InOrder'
    <3> SUFFICES ASSUME NEW q \in Shifts, NEW r \in Shifts, q < r, shift'[r].st # "none"
                 PROVE  shift'[q].st = "closed"
      BY DEF InOrder
    <3>1. CASE r = s
      BY <2>2, <2>13, <2>15, <3>1
    <3>2. CASE q = s
      BY <2>2, <2>14, <2>15, <3>2
    <3>3. CASE q # s /\ r # s
      BY <2>2, <3>3 DEF DrawerInv, InOrder
    <3> QED
      BY <3>1, <3>2, <3>3
  <2>17. TookBefore'
    <3> SUFFICES ASSUME NEW q \in Shifts, NEW r \in Shifts, q < r, shift'[r].st # "none", shift'[q].closes = 1
                 PROVE  /\ \A b \in shift'[q].sales : sale[b].at < shift'[r].at
                        /\ \A n \in DOMAIN shift'[q].cash : note[n].at < shift'[r].at
      BY <1>1 DEF TookBefore
    <3>1. q # s /\ shift'[q] = shift[q]
      BY <2>2, <2>3
    <3>2. CASE r = s
      <4>1. /\ \A b \in shift[q].sales : sale[b].at \in Nat /\ sale[b].at <= stamp
            /\ \A n \in DOMAIN shift[q].cash : note[n].at \in Nat /\ note[n].at <= stamp
        BY DEF DrawerInv, Took, StampsPast, DrawerTypes
      <4>2. shift'[r].at = stamp + 1
        BY <2>2, <2>3, <3>2
      <4> QED
        BY <2>1, <3>1, <4>1, <4>2
    <3>3. CASE r # s
      BY <2>2, <3>1, <3>3 DEF DrawerInv, TookBefore
    <3> QED
      BY <3>2, <3>3
  <2> QED
    BY <2>5, <2>6, <2>9, <2>11, <2>16, <2>17 DEF DrawerInv
<1> QED
  BY <1>2, <1>3 DEF OpenWrite

\* A shift is closed: if this is its first close, no later shift is there yet.
LEMMA CloseInv == ASSUME DrawerInv, NEW k \in Tills, CloseWrite(k) PROVE DrawerInv'
<1>1. PICK t : t = till[k]
  OBVIOUS
<1>2. /\ t.op = "close" /\ till' = [till EXCEPT ![k] = IdleTill] /\ UNCHANGED <<stamp, sale, note>>
      /\ t.shift \in Shifts /\ shift[t.shift].st # "none" /\ t.at = shift[t.shift].at /\ t.at \in Nat /\ Took(t)
  BY <1>1 DEF CloseWrite, DrawerInv, ClosesSound, DrawerTypes
<1>3. PICK s \in Shifts : s = t.shift
  BY <1>2
<1>4. PICK row : row = [st |-> "closed", at |-> t.at, expected |-> expectedMinor(t),
                        sales |-> t.sales, cash |-> t.cash, closes |-> shift[s].closes + 1]
  OBVIOUS
<1>5. shift' = [shift EXCEPT ![s] = row]
  BY <1>1, <1>3, <1>4 DEF CloseWrite
<1>6. ShiftOK(shift[s])
  BY DEF DrawerInv, DrawerTypes
<1>7. /\ row.st = "closed" /\ row.at = t.at /\ row.sales = t.sales /\ row.cash = t.cash
      /\ row.closes = shift[s].closes + 1
  BY <1>4
<1>8. ShiftOK(row) /\ Took(row)
  BY <1>2, <1>6, <1>7 DEF ShiftOK, Took
<1>9. DOMAIN shift' = Shifts /\ shift'[s] = row /\ \A r \in Shifts : r # s => shift'[r] = shift[r]
  BY <1>5 DEF DrawerInv, DrawerTypes
<1>10. DOMAIN till' = Tills /\ till'[k] = IdleTill /\ \A j \in Tills : j # k => till'[j] = till[j]
  BY <1>2 DEF DrawerInv, DrawerTypes
<1>11. DrawerTypes'
  BY <1>2, <1>8, <1>9, <1>10, NothingTaken DEF DrawerInv, DrawerTypes, ShiftOK
<1>12. StampsPast'
  BY <1>2 DEF DrawerInv, StampsPast
<1>13. \A j \in Tills : Took(till'[j])
  BY <1>10, NothingTaken DEF DrawerInv, ClosesSound
<1>14. \A r \in Shifts : shift'[r].at = shift[r].at /\ (shift[r].st # "none" <=> shift'[r].st # "none")
  BY <1>2, <1>3, <1>7, <1>9
<1>15. \A j \in Tills : till'[j].op \in {"sum sales", "sum refunds", "close"} =>
          /\ till'[j].shift \in Shifts /\ shift'[till'[j].shift].st # "none"
          /\ till'[j].at = shift'[till'[j].shift].at
  <2> SUFFICES ASSUME NEW j \in Tills, till'[j].op \in {"sum sales", "sum refunds", "close"}
               PROVE  /\ till'[j].shift \in Shifts /\ shift'[till'[j].shift].st # "none"
                      /\ till'[j].at = shift'[till'[j].shift].at
    OBVIOUS
  <2>1. j # k /\ till'[j] = till[j]
    BY <1>10, NothingTaken
  <2>2. till[j].shift \in Shifts /\ shift[till[j].shift].st # "none" /\ till[j].at = shift[till[j].shift].at
    BY <2>1 DEF DrawerInv, ClosesSound
  <2> QED
    BY <1>14, <2>1, <2>2
<1>16. ClosesSound'
  BY <1>2, <1>13, <1>15 DEF ClosesSound, Took
<1>17. \A r \in Shifts : Took(shift'[r])
  BY <1>8, <1>9 DEF DrawerInv
<1>18. (\A r \in Shifts : Took(shift[r]))'
  BY <1>2, <1>17 DEF Took
<1>19. InOrder'
  BY <1>7, <1>9, <1>14 DEF DrawerInv, InOrder
<1>20. TookBefore'
  <2> SUFFICES ASSUME NEW q \in Shifts, NEW r \in Shifts, q < r, shift'[r].st # "none", shift'[q].closes = 1
               PROVE  /\ \A b \in shift'[q].sales : sale[b].at < shift'[r].at
                      /\ \A n \in DOMAIN shift'[q].cash : note[n].at < shift'[r].at
    BY <1>2 DEF TookBefore
  <2>1. shift[q].st = "closed" /\ shift[r].st # "none"
    BY <1>14 DEF DrawerInv, InOrder
  <2>2. q # s
    BY <1>6, <1>7, <1>9, <2>1 DEF ShiftOK
  <2> QED
    BY <1>9, <1>14, <2>1, <2>2 DEF DrawerInv, TookBefore
<1> QED
  BY <1>11, <1>12, <1>16, <1>18, <1>19, <1>20 DEF DrawerInv

\* The invariant holds of every reachable state, for any shifts, bills, notes
\* and number of requests in flight.
THEOREM DrawerInvariance == DrawerSpec => []DrawerInv
<1>1. DrawerInit => DrawerInv
  BY DrawerStart
<1>2. DrawerInv /\ [DrawerNext]_drawerVars => DrawerInv'
  <2> SUFFICES ASSUME DrawerInv, [DrawerNext]_drawerVars PROVE DrawerInv'
    OBVIOUS
  <2>1. ASSUME NEW k \in Tills,
               \/ OpenRead(k) \/ SumSales(k) \/ SumRefunds(k)
               \/ \E s \in Shifts : MoveRead(k, s) \/ CloseLoad(k, s)
               \/ \E v \in Movements : MoveWrite(k, v)
        PROVE  DrawerInv'
    BY <2>1, DrawerReads
  <2>2. ASSUME NEW k \in Tills, OpenWrite(k) PROVE DrawerInv'
    BY <2>2, OpenInv
  <2>3. ASSUME NEW k \in Tills, CloseWrite(k) PROVE DrawerInv'
    BY <2>3, CloseInv
  <2>4. CASE \/ \E b \in Sales : SaleStamp(b) \/ SaleCommit(b)
             \/ \E n \in Notes, method \in {"cash", "card"} : RefundStamp(n, method)
             \/ \E n \in Notes : RefundCommit(n)
    BY <2>4, SalesInv
  <2>5. CASE UNCHANGED drawerVars
    <3>1. UNCHANGED <<stamp, shift, sale, note, till>>
      BY <2>5 DEF drawerVars
    <3>2. RowsKept /\ StampsPast'
      BY <3>1 DEF RowsKept, DrawerInv, StampsPast
    <3> QED
      BY <3>1, <3>2, SalesGoOn DEF DrawerInv, DrawerTypes
  <2> QED
    BY <2>1, <2>2, <2>3, <2>4, <2>5 DEF DrawerNext
<1> QED
  BY <1>1, <1>2, PTL DEF DrawerSpec

\* No sale and no refund is in the expected cash of two shifts that were each
\* closed by one request, although neither carries a shift id (closeShift,
\* computeCashSalesMinor, shifts_one_open_per_outlet).
THEOREM CashTakenOnce == DrawerSpec => []CountedOnce
<1>1. ASSUME DrawerInv PROVE CountedOnce
  <2>1. ASSUME NEW r \in Shifts, NEW s \in Shifts, r < s, shift[r].closes = 1, shift[s].closes = 1
        PROVE  /\ shift[r].sales \cap shift[s].sales = {}
               /\ DOMAIN shift[r].cash \cap DOMAIN shift[s].cash = {}
    <3>1. shift[s].st # "none" /\ shift[s].at \in Nat
      BY <1>1, <2>1 DEF DrawerInv, DrawerTypes, ShiftOK
    <3>2. /\ \A b \in shift[r].sales : sale[b].at < shift[s].at
          /\ \A n \in DOMAIN shift[r].cash : note[n].at < shift[s].at
      BY <1>1, <2>1, <3>1 DEF DrawerInv, TookBefore
    <3>3. /\ \A b \in shift[s].sales : sale[b].at \in Nat /\ sale[b].at >= shift[s].at
          /\ \A n \in DOMAIN shift[s].cash : note[n].at \in Nat /\ note[n].at >= shift[s].at
      BY <1>1 DEF DrawerInv, DrawerTypes, Took
    <3> QED
      BY <3>1, <3>2, <3>3
  <2>2. \A r, s \in Shifts : r \in Nat /\ s \in Nat /\ (r # s => r < s \/ s < r)
    BY DrawerAssumption
  <2> QED
    BY <2>1, <2>2 DEF CountedOnce, ClosedOnce
<1> QED
  BY <1>1, DrawerInvariance, PTL

-----------------------------------------------------------------------------
(* Walking a list page by page *)

Mark == [key : Nat, id : Nat]

PagesTypeOK ==
  /\ entry \in [Ids -> [st : {"absent", "listed", "gone"}, key : Nat]]
  /\ walk \in [st : {"idle", "walking", "done"}, cursor : Mark, seen : [Ids -> Nat],
               stayed : SUBSET Ids, moved : SUBSET Ids]

\* Nothing has been shown before the first page; a cursor on the way names a
\* row; what stayed is there.
WalkStarts == walk.st = "idle" => walk.cursor = NoCursor /\ \A i \in Ids : walk.seen[i] = 0
WalkOnTheWay == walk.st = "walking" => walk.cursor.id \in Ids
StayedListed == walk.st # "idle" => walk.stayed \subseteq Listed

\* What stayed has been shown or is still ahead.
NothingMissed ==
  \A i \in walk.stayed : \/ walk.st = "idle" \/ walk.seen[i] > 0
                         \/ walk.st = "walking" /\ Before(shown.order, walk.cursor, At(i))

\* What has been shown is behind, unless it was moved.
NothingTwice ==
  \A i \in Ids \ walk.moved :
    /\ walk.seen[i] <= 1
    /\ walk.st = "walking" /\ walk.seen[i] > 0 =>
         entry[i].st # "absent" /\ ~ Before(shown.order, walk.cursor, At(i))

PagesInv == PagesTypeOK /\ WalkStarts /\ WalkOnTheWay /\ StayedListed /\ NothingMissed /\ NothingTwice

\* The order of a list is strict and transitive (ORDER BY key, id).
LEMMA PageOrder ==
  ASSUME NEW order, NEW a \in Mark, NEW b \in Mark, NEW c \in Mark
  PROVE  /\ ~ Before(order, a, a)
         /\ Before(order, a, b) => ~ Before(order, b, a)
         /\ Before(order, a, b) /\ Before(order, b, c) => Before(order, a, c)
BY DEF Before, Lt, Mark

\* An empty walk.
LEMMA PagesStart == PagesInit => PagesInv
<1> SUFFICES ASSUME PagesInit PROVE PagesInv
  OBVIOUS
<1>1. PagesTypeOK
  BY DEF PagesInit, PagesTypeOK, Mark, NoCursor
<1> QED
  BY <1>1 DEF PagesInit, PagesInv, WalkStarts, WalkOnTheWay, StayedListed, NothingMissed, NothingTwice

\* A page shows the next rows and leaves the cursor on the last of them.
LEMMA PageKeeps ==
  ASSUME PagesInv, PageRead
  PROVE  PagesInv'
<1>1. PICK rows : rows = {i \in Listed : Beyond(walk.cursor, i)}
  OBVIOUS
<1>2. PICK more \in BOOLEAN : more <=> (Cardinality(rows) > Limit)
  OBVIOUS
<1>3. PICK page \in FirstOf(rows, IF more THEN Limit ELSE Cardinality(rows)) :
        \E cursor \in IF more THEN {At(i) : i \in LastOn(page)} ELSE {NoCursor} :
             walk' = [st |-> IF more THEN "walking" ELSE "done",
                      cursor |-> cursor,
                      seen |-> [i \in Ids |-> IF i \in page THEN walk.seen[i] + 1 ELSE walk.seen[i]],
                      stayed |-> IF walk.st = "idle" THEN Listed ELSE walk.stayed,
                      moved |-> IF walk.st = "idle" THEN {} ELSE walk.moved]
  BY <1>1, <1>2 DEF PageRead
<1>4. PICK cursor \in IF more THEN {At(i) : i \in LastOn(page)} ELSE {NoCursor} :
             walk' = [st |-> IF more THEN "walking" ELSE "done",
                      cursor |-> cursor,
                      seen |-> [i \in Ids |-> IF i \in page THEN walk.seen[i] + 1 ELSE walk.seen[i]],
                      stayed |-> IF walk.st = "idle" THEN Listed ELSE walk.stayed,
                      moved |-> IF walk.st = "idle" THEN {} ELSE walk.moved]
  BY <1>3
<1>5. /\ walk'.st = (IF more THEN "walking" ELSE "done") /\ walk'.cursor = cursor
      /\ walk'.seen = [i \in Ids |-> IF i \in page THEN walk.seen[i] + 1 ELSE walk.seen[i]]
      /\ walk'.stayed = (IF walk.st = "idle" THEN Listed ELSE walk.stayed)
      /\ walk'.moved = (IF walk.st = "idle" THEN {} ELSE walk.moved)
  BY <1>4
<1>6. walk.st # "done" /\ shown' = shown /\ entry' = entry
  BY DEF PageRead
<1>7. PICK order : order = shown.order
  OBVIOUS
<1>8. PICK at : at = [i \in Ids |-> At(i)]
  OBVIOUS
<1>9. Listed \subseteq Ids /\ at \in [Ids -> Mark] /\ (\A i \in Ids : at[i] = At(i) /\ at[i] = At(i)' /\ at[i].id = i)
  BY <1>6, <1>8, KeysetAssumption DEF Listed, At, Mark, PagesInv, PagesTypeOK
<1>10. Listed' = Listed
  BY <1>6 DEF Listed
<1>11. walk.seen \in [Ids -> Nat] /\ walk.cursor \in Mark /\ walk.st \in {"idle", "walking", "done"}
       /\ walk.stayed \subseteq Ids /\ walk.moved \subseteq Ids
  BY DEF PagesInv, PagesTypeOK
<1>12. page \subseteq rows /\ rows \subseteq Listed /\ \A i \in page, j \in rows \ page : Before(order, at[i], at[j])
  BY <1>1, <1>7, <1>9 DEF FirstOf, Precedes
<1>13. walk.st = "idle" => rows = Listed
  BY <1>1 DEF PagesInv, WalkStarts, Beyond
<1>14. walk.st = "walking" => \A i \in Listed : i \in rows <=> Before(order, walk.cursor, at[i])
  <2> SUFFICES ASSUME walk.st = "walking", NEW i \in Listed PROVE i \in rows <=> Before(order, walk.cursor, at[i])
    OBVIOUS
  <2>1. walk.cursor # NoCursor
    BY KeysetAssumption DEF PagesInv, WalkOnTheWay, NoCursor
  <2> QED
    BY <1>1, <1>7, <1>9, <2>1 DEF Beyond, Precedes
<1>15. ~ more => page = rows /\ cursor = NoCursor
  <2> SUFFICES ASSUME ~ more PROVE page = rows /\ cursor = NoCursor
    OBVIOUS
  <2>1. IsFiniteSet(rows)
    <3>1. rows \in SUBSET Ids
      BY <1>9, <1>12
    <3> QED
      BY <3>1, KeysetAssumption, FS_Subset
  <2>2. Cardinality(page) = Cardinality(rows)
    BY DEF FirstOf
  <2>3. page = rows
    BY <1>12, <2>1, <2>2, FS_Subset
  <2> QED
    BY <1>4, <2>3
<1>16. ASSUME more
       PROVE  /\ cursor \in Mark /\ cursor.id \in Ids
              /\ \A j \in rows \ page : Before(order, cursor, at[j])
              /\ \A j \in page : ~ Before(order, cursor, at[j])
              /\ walk.st = "walking" => Before(order, walk.cursor, cursor)
  <2>1. PICK i \in page : cursor = at[i] /\ \A j \in page \ {i} : Before(order, at[j], at[i])
    <3>1. PICK i \in LastOn(page) : cursor = At(i)
      BY <1>4, <1>16
    <3>2. i \in page /\ (\A j \in page : j \in Ids) /\ \A j \in page \ {i} : Precedes(At(j), At(i))
      BY <1>9, <1>12 DEF LastOn
    <3> QED
      BY <1>7, <1>9, <3>1, <3>2 DEF Precedes
  <2>2. i \in Ids /\ i \in Listed /\ i \in rows /\ at[i] \in Mark
    BY <1>9, <1>12
  <2>3. \A j \in rows \ page : Before(order, cursor, at[j])
    BY <1>12, <2>1
  <2>4. ASSUME NEW j \in page PROVE ~ Before(order, cursor, at[j])
    <3>1. at[j] \in Mark
      BY <1>9, <1>12
    <3> QED
      BY <2>1, <2>2, <3>1, PageOrder
  <2>5. walk.st = "walking" => Before(order, walk.cursor, cursor)
    BY <1>14, <2>1, <2>2
  <2>6. cursor \in Mark /\ cursor.id \in Ids
    BY <1>9, <2>1, <2>2
  <2> QED
    BY <2>3, <2>4, <2>5, <2>6
<1>17. PagesTypeOK'
  <2>1. entry' \in [Ids -> [st : {"absent", "listed", "gone"}, key : Nat]]
    BY <1>6 DEF PagesInv, PagesTypeOK
  <2>2. cursor \in Mark
    BY <1>15, <1>16 DEF NoCursor, Mark
  <2>3. [i \in Ids |-> IF i \in page THEN walk.seen[i] + 1 ELSE walk.seen[i]] \in [Ids -> Nat]
    BY <1>11
  <2>4. (IF walk.st = "idle" THEN Listed ELSE walk.stayed) \subseteq Ids /\ (IF walk.st = "idle" THEN {} ELSE walk.moved) \subseteq Ids
    BY <1>9, <1>11
  <2> QED
    BY <1>4, <2>1, <2>2, <2>3, <2>4 DEF PagesTypeOK
<1>18. WalkStarts' /\ WalkOnTheWay'
  BY <1>5, <1>16 DEF WalkStarts, WalkOnTheWay
<1>19. StayedListed'
  BY <1>5, <1>10 DEF StayedListed, PagesInv
<1>20. NothingMissed'
  <2> SUFFICES ASSUME NEW i \in walk'.stayed
               PROVE  walk'.seen[i] > 0 \/ (walk'.st = "walking" /\ Before(order, cursor, at[i]))
    <3>1. \A i \in walk'.stayed : i \in Ids
      BY <1>5, <1>9, <1>11
    <3>2. \A i \in walk'.stayed : walk'.seen[i] > 0 \/ (walk'.st = "walking" /\ Before(shown'.order, walk'.cursor, At(i)'))
      BY <1>5, <1>6, <1>7, <1>9, <3>1
    <3> QED
      BY <3>2 DEF NothingMissed
  <2>1. i \in Listed /\ i \in Ids /\ (walk.st # "idle" => i \in walk.stayed)
    BY <1>5, <1>9 DEF PagesInv, StayedListed
  <2>2. CASE i \in page
    BY <1>5, <1>11, <2>1, <2>2
  <2>3. CASE i \in rows \ page
    <3>1. more
      BY <1>15, <2>3
    <3> QED
      BY <1>5, <1>16, <2>3, <3>1
  <2>4. CASE i \notin rows
    <3>1. walk.st = "walking"
      BY <1>6, <1>11, <1>13, <2>1, <2>4
    <3>2. ~ Before(order, walk.cursor, at[i])
      BY <1>14, <2>1, <2>4, <3>1
    <3>3. walk.seen[i] > 0
      BY <1>7, <1>9, <2>1, <3>1, <3>2 DEF PagesInv, NothingMissed
    <3> QED
      BY <1>5, <1>11, <2>1, <3>3
  <2> QED
    BY <2>2, <2>3, <2>4
<1>21. NothingTwice'
  <2> SUFFICES ASSUME NEW i \in Ids \ walk'.moved
               PROVE  /\ walk'.seen[i] <= 1
                      /\ walk'.st = "walking" /\ walk'.seen[i] > 0 =>
                           entry[i].st # "absent" /\ ~ Before(order, cursor, at[i])
    <3>1. \A i \in Ids \ walk'.moved :
             /\ walk'.seen[i] <= 1
             /\ walk'.st = "walking" /\ walk'.seen[i] > 0 =>
                  entry'[i].st # "absent" /\ ~ Before(shown'.order, walk'.cursor, At(i)')
      BY <1>5, <1>6, <1>7, <1>9
    <3> QED
      BY <3>1 DEF NothingTwice
  <2>1. walk.st = "idle" => walk.seen[i] = 0
    BY DEF PagesInv, WalkStarts
  <2>2. walk.st = "walking" => /\ walk.seen[i] <= 1
                               /\ walk.seen[i] > 0 => entry[i].st # "absent" /\ ~ Before(order, walk.cursor, at[i])
    BY <1>5, <1>7, <1>9 DEF PagesInv, NothingTwice
  <2>3. walk.st \in {"idle", "walking"}
    BY <1>6, <1>11
  <2>4. CASE i \in page
    <3>1. i \in Listed /\ i \in rows
      BY <1>12, <2>4
    <3>2. walk.seen[i] = 0
      BY <1>11, <1>14, <2>1, <2>2, <2>3, <3>1
    <3>3. walk'.seen[i] = 1
      BY <1>5, <2>4, <3>2
    <3>4. entry[i].st # "absent"
      BY <3>1 DEF Listed
    <3> QED
      BY <1>5, <1>16, <2>4, <3>3, <3>4
  <2>5. CASE i \notin page
    <3>1. walk'.seen[i] = walk.seen[i]
      BY <1>5, <2>5
    <3>2. ASSUME more, walk.seen[i] > 0 PROVE entry[i].st # "absent" /\ ~ Before(order, cursor, at[i])
      <4>1. walk.st = "walking" /\ entry[i].st # "absent" /\ ~ Before(order, walk.cursor, at[i])
        BY <2>1, <2>2, <2>3, <3>2
      <4>2. Before(order, walk.cursor, cursor) /\ cursor \in Mark /\ at[i] \in Mark
        BY <1>9, <1>16, <3>2, <4>1
      <4> QED
        BY <1>11, <4>1, <4>2, PageOrder
    <3> QED
      BY <1>5, <1>11, <2>1, <2>2, <2>3, <3>1, <3>2
  <2> QED
    BY <2>4, <2>5
<1> QED
  BY <1>17, <1>18, <1>19, <1>20, <1>21 DEF PagesInv

\* Rows that arrive, leave or are renamed between two pages.
LEMMA PagesStep == PagesInv /\ [PagesNext]_pageVars => PagesInv'
<1> SUFFICES ASSUME PagesInv, [PagesNext]_pageVars PROVE PagesInv'
  OBVIOUS
<1> USE KeysetAssumption
<1>1. ASSUME NEW i \in Ids, NEW k \in SortKeys, Arrive(i, k) PROVE PagesInv'
  <2>1. entry[i].st = "absent" /\ entry' = [entry EXCEPT ![i] = [st |-> "listed", key |-> k]] /\ shown' = shown /\ walk' = walk
    BY <1>1 DEF Arrive
  <2>2. PagesTypeOK'
    BY <2>1 DEF PagesInv, PagesTypeOK
  <2>3. \A j \in Ids \ {i} : entry'[j] = entry[j] /\ At(j)' = At(j)
    BY <2>1 DEF PagesInv, PagesTypeOK, At
  <2>4. StayedListed'
    BY <2>1, <2>3 DEF PagesInv, PagesTypeOK, StayedListed, Listed
  <2>5. walk.st # "idle" => i \notin walk.stayed
    BY <2>1 DEF PagesInv, StayedListed, Listed
  <2>6. NothingMissed'
    <3> SUFFICES ASSUME NEW j \in walk.stayed, walk.st # "idle"
                 PROVE  walk.seen[j] > 0 \/ (walk.st = "walking" /\ Before(shown.order, walk.cursor, At(j)'))
      BY <2>1 DEF NothingMissed
    <3>1. j \in Ids \ {i}
      BY <2>5 DEF PagesInv, PagesTypeOK
    <3> QED
      BY <2>3, <3>1 DEF PagesInv, NothingMissed
  <2>7. NothingTwice'
    <3> SUFFICES ASSUME NEW j \in Ids \ walk.moved
                 PROVE  /\ walk.seen[j] <= 1
                        /\ walk.st = "walking" /\ walk.seen[j] > 0 =>
                             entry'[j].st # "absent" /\ ~ Before(shown.order, walk.cursor, At(j)')
      BY <2>1 DEF NothingTwice
    <3>1. CASE j = i
      BY <2>1, <3>1 DEF PagesInv, NothingTwice
    <3>2. CASE j # i
      BY <2>3, <3>2 DEF PagesInv, NothingTwice
    <3> QED
      BY <3>1, <3>2
  <2>8. WalkStarts' /\ WalkOnTheWay'
    BY <2>1 DEF PagesInv, WalkStarts, WalkOnTheWay
  <2> QED
    BY <2>2, <2>4, <2>6, <2>7, <2>8 DEF PagesInv
<1>2. ASSUME NEW i \in Ids, Leave(i) PROVE PagesInv'
  <2>1. /\ entry' = [entry EXCEPT ![i].st = "gone"] /\ shown' = shown
        /\ walk' = [walk EXCEPT !.stayed = @ \ {i}]
    BY <1>2 DEF Leave
  <2>2. /\ walk'.st = walk.st /\ walk'.cursor = walk.cursor /\ walk'.seen = walk.seen /\ walk'.moved = walk.moved
        /\ walk'.stayed = walk.stayed \ {i}
    BY <2>1 DEF PagesInv, PagesTypeOK
  <2>3. PagesTypeOK'
    BY <2>1 DEF PagesInv, PagesTypeOK
  <2>4. \A j \in Ids : At(j)' = At(j) /\ (entry[j].st # "absent" => entry'[j].st # "absent") /\ (j # i => entry'[j] = entry[j])
    BY <2>1 DEF PagesInv, PagesTypeOK, At
  <2>5. StayedListed'
    BY <2>2, <2>4 DEF PagesInv, PagesTypeOK, StayedListed, Listed
  <2>6. NothingMissed'
    <3> SUFFICES ASSUME NEW j \in walk.stayed \ {i}, walk.st # "idle"
                 PROVE  walk.seen[j] > 0 \/ (walk.st = "walking" /\ Before(shown.order, walk.cursor, At(j)'))
      BY <2>1, <2>2 DEF NothingMissed
    <3> QED
      BY <2>4 DEF PagesInv, PagesTypeOK, NothingMissed
  <2>7. NothingTwice'
    <3> SUFFICES ASSUME NEW j \in Ids \ walk.moved
                 PROVE  /\ walk.seen[j] <= 1
                        /\ walk.st = "walking" /\ walk.seen[j] > 0 =>
                             entry'[j].st # "absent" /\ ~ Before(shown.order, walk.cursor, At(j)')
      BY <2>1, <2>2 DEF NothingTwice
    <3> QED
      BY <2>4 DEF PagesInv, NothingTwice
  <2>8. WalkStarts' /\ WalkOnTheWay'
    BY <2>2 DEF PagesInv, WalkStarts, WalkOnTheWay
  <2> QED
    BY <2>3, <2>5, <2>6, <2>7, <2>8 DEF PagesInv
<1>3. ASSUME NEW i \in Ids, NEW k \in SortKeys, Move(i, k) PROVE PagesInv'
  <2>1. /\ entry' = [entry EXCEPT ![i].key = k] /\ shown' = shown
        /\ walk' = [walk EXCEPT !.stayed = @ \ {i}, !.moved = @ \cup {i}]
    BY <1>3 DEF Move
  <2>2. /\ walk'.st = walk.st /\ walk'.cursor = walk.cursor /\ walk'.seen = walk.seen /\ walk'.moved = walk.moved \cup {i}
        /\ walk'.stayed = walk.stayed \ {i}
    BY <2>1 DEF PagesInv, PagesTypeOK
  <2>3. PagesTypeOK'
    BY <2>1 DEF PagesInv, PagesTypeOK
  <2>4. \A j \in Ids \ {i} : At(j)' = At(j) /\ entry'[j] = entry[j]
    BY <2>1 DEF PagesInv, PagesTypeOK, At
  <2>5. StayedListed'
    BY <2>2, <2>4 DEF PagesInv, PagesTypeOK, StayedListed, Listed
  <2>6. NothingMissed'
    <3> SUFFICES ASSUME NEW j \in walk.stayed \ {i}, walk.st # "idle"
                 PROVE  walk.seen[j] > 0 \/ (walk.st = "walking" /\ Before(shown.order, walk.cursor, At(j)'))
      BY <2>1, <2>2 DEF NothingMissed
    <3> QED
      BY <2>4 DEF PagesInv, PagesTypeOK, NothingMissed
  <2>7. NothingTwice'
    <3> SUFFICES ASSUME NEW j \in Ids \ (walk.moved \cup {i})
                 PROVE  /\ walk.seen[j] <= 1
                        /\ walk.st = "walking" /\ walk.seen[j] > 0 =>
                             entry'[j].st # "absent" /\ ~ Before(shown.order, walk.cursor, At(j)')
      BY <2>1, <2>2 DEF NothingTwice
    <3> QED
      BY <2>4 DEF PagesInv, NothingTwice
  <2>8. WalkStarts' /\ WalkOnTheWay'
    BY <2>2 DEF PagesInv, WalkStarts, WalkOnTheWay
  <2> QED
    BY <2>3, <2>5, <2>6, <2>7, <2>8 DEF PagesInv
<1>4. ASSUME UNCHANGED pageVars PROVE PagesInv'
  <2>1. entry' = entry /\ shown' = shown /\ walk' = walk
    BY <1>4 DEF pageVars
  <2> QED
    BY <2>1 DEF PagesInv, PagesTypeOK, WalkStarts, WalkOnTheWay, StayedListed, NothingMissed, NothingTwice, Listed, At
<1> QED
  BY <1>1, <1>2, <1>3, <1>4, PageKeeps DEF PagesNext

\* Of any list, with any page length and however its rows come, go and are
\* renamed between the pages, a walk to the end misses no row that stayed and
\* shows none twice that was not renamed (nextCursor of the four endpoints).
THEOREM PagesComplete == PagesSpec => []PagesMissNothing
<1>1. PagesInv => PagesMissNothing
  <2> SUFFICES ASSUME PagesInv PROVE PagesMissNothing
    OBVIOUS
  <2>1. \A i \in Ids : walk.seen[i] \in Nat
    BY DEF PagesInv, PagesTypeOK
  <2> QED
    BY <2>1 DEF PagesInv, NothingMissed, NothingTwice, PagesMissNothing
<1> QED
  BY <1>1, PagesStart, PagesStep, PTL DEF PagesSpec

\* The walk over every subset of a set of notes.
WalkedBy(w, W) ==
  w = [S \in SUBSET W |-> IF S = {} THEN [left |-> CashPaid, cash |-> [n \in W |-> 0]]
                             ELSE NoteStep(w[S \ {Youngest(S)}], Youngest(S))]

\* Some note of a finite set is the youngest.
LEMMA YoungestIn ==
  ASSUME NEW S, IsFiniteSet(S), S # {}, \A n \in S : note[n].at \in Nat
  PROVE  Youngest(S) \in S
<1> DEFINE f == [n \in S |-> note[n].at]
           V == {f[n] : n \in S} \cup {0}
<1>1. \A n \in S : f[n] = note[n].at /\ f[n] \in Nat
  OBVIOUS
<1> HIDE DEF f
<1>2. Max(V) \in Nat /\ \A y \in V : y <= Max(V)
  BY <1>1, GreatestStamp
<1>3. Max(V) \in V
  BY <1>2 DEF Max
<1>4. \E n \in S : \A m \in S : note[m].at <= note[n].at
  <2>1. CASE \E n \in S : Max(V) = f[n]
    <3>1. PICK n \in S : Max(V) = f[n]
      BY <2>1
    <3>2. \A m \in S : f[m] <= f[n]
      BY <1>2, <3>1
    <3> QED
      BY <1>1, <3>2
  <2>2. CASE Max(V) = 0
    <3>1. \A m \in S : f[m] <= 0
      BY <1>2, <2>2
    <3>2. \A m \in S : note[m].at = 0
      BY <1>1, <3>1
    <3> QED
      BY <3>2
  <2> QED
    BY <1>3, <2>1, <2>2
<1> QED
  BY <1>4 DEF Youngest

\* The walk over a finite set is there: it is built up by size.
LEMMA WalkExists ==
  ASSUME NEW W, IsFiniteSet(W), \A n \in W : note[n].at \in Nat
  PROVE  \E w : WalkedBy(w, W)
<1> DEFINE Start == [left |-> CashPaid, cash |-> [n \in W |-> 0]]
           Small(n) == {S \in SUBSET W : Cardinality(S) <= n}
           Upto(n, w) == w = [S \in Small(n) |-> IF S = {} THEN Start ELSE NoteStep(w[S \ {Youngest(S)}], Youngest(S))]
           N == {n \in Nat : \E w : Upto(n, w)}
<1>1. \A S \in SUBSET W : /\ IsFiniteSet(S) /\ Cardinality(S) \in Nat /\ Cardinality(S) <= Cardinality(W)
                             /\ (Cardinality(S) = 0 <=> S = {})
  BY FS_Subset, FS_CardinalityType, FS_EmptySet
<1>2. \A S \in SUBSET W : S # {} => /\ Youngest(S) \in S /\ S \ {Youngest(S)} \in SUBSET W
                                       /\ Cardinality(S \ {Youngest(S)}) = Cardinality(S) - 1
  <2> SUFFICES ASSUME NEW S \in SUBSET W, S # {}
               PROVE  Youngest(S) \in S /\ Cardinality(S \ {Youngest(S)}) = Cardinality(S) - 1
    OBVIOUS
  <2>1. Youngest(S) \in S
    BY <1>1, YoungestIn
  <2> QED
    BY <1>1, <2>1, FS_RemoveElement
<1> HIDE DEF Start
<1>3. 0 \in N
  <2> DEFINE h == [S \in Small(0) |-> Start]
  <2>1. \A S \in Small(0) : S = {}
    BY <1>1
  <2>2. h = [S \in Small(0) |-> IF S = {} THEN Start ELSE NoteStep(h[S \ {Youngest(S)}], Youngest(S))]
    BY <2>1
  <2> QED
    BY <2>2
<1>4. ASSUME NEW n \in Nat, n \in N PROVE n + 1 \in N
  <2>1. PICK g : Upto(n, g)
    BY <1>4
  <2> DEFINE h == [S \in Small(n + 1) |-> IF S = {} THEN Start ELSE NoteStep(g[S \ {Youngest(S)}], Youngest(S))]
  <2>2. \A S \in Small(n + 1) : S # {} => S \ {Youngest(S)} \in Small(n)
    BY <1>1, <1>2
  <2>3. \A S \in Small(n) : S \in Small(n + 1)
    BY <1>1
  <2>4. \A S \in Small(n) : h[S] = g[S]
    BY <2>1, <2>3
  <2>5. \A S \in Small(n + 1) : S # {} => h[S \ {Youngest(S)}] = g[S \ {Youngest(S)}]
    BY <2>2, <2>4
  <2>6. h = [S \in Small(n + 1) |-> IF S = {} THEN Start ELSE NoteStep(h[S \ {Youngest(S)}], Youngest(S))]
    BY <2>5
  <2>7. Upto(n + 1, h)
    BY <2>6
  <2> HIDE DEF h, Upto
  <2> QED
    BY <2>7
<1> HIDE DEF N
<1>5. Cardinality(W) \in N
  BY <1>1, <1>3, <1>4, NaturalsAll
<1>6. Small(Cardinality(W)) = SUBSET W
  BY <1>1
<1>7. PICK w : Upto(Cardinality(W), w)
  BY <1>5 DEF N
<1>8. WalkedBy(w, W)
  BY <1>6, <1>7 DEF WalkedBy, Start
<1> QED
  BY <1>8

\* The notes of unknown method of a bill.
Unknown(S, b) == {n \in S : NoteBill[n] = b /\ note[n].method = "unknown"}

\* After the walk over S: what the unknown notes of a bill took and what is
\* left of its cash is no more than its cash.
WalkSound(acc, W, S) ==
  /\ acc.left \in [Sales -> Nat] /\ acc.cash \in [W -> Nat]
  /\ \A b \in Sales : SumFunctionOnSet(acc.cash, Unknown(S, b)) + acc.left[b] <= CashPaid[b]

\* The larger and the smaller of two.
LEMMA TwoNumbers ==
  ASSUME NEW x \in Int, NEW y \in Int
  PROVE  /\ Max({x, y}) \in {x, y} /\ Max({x, y}) >= x /\ Max({x, y}) >= y
         /\ Min({x, y}) \in {x, y} /\ Min({x, y}) <= x /\ Min({x, y}) <= y
<1>1. \E m \in {x, y} : \A z \in {x, y} : m >= z
  OBVIOUS
<1>2. \E m \in {x, y} : \A z \in {x, y} : m <= z
  OBVIOUS
<1>3. Max({x, y}) \in {x, y} /\ \A z \in {x, y} : Max({x, y}) >= z
  BY <1>1 DEF Max
<1>4. Min({x, y}) \in {x, y} /\ \A z \in {x, y} : Min({x, y}) <= z
  BY <1>2 DEF Min
<1> QED
  BY <1>3, <1>4

\* One more note: an unknown one takes no more than is left, the others leave
\* no more than there was.
LEMMA NoteStepSound ==
  ASSUME DrawerTypes, NEW W \in SUBSET Notes, IsFiniteSet(W), NEW R \in SUBSET W, NEW y \in W \ R,
         NEW acc, WalkSound(acc, W, R)
  PROVE  WalkSound(NoteStep(acc, y), W, R \cup {y})
<1> DEFINE a == NoteBill[y]
           c == CashOf(y, acc.left[a])
           l == Max({acc.left[a] - c, 0})
           new == NoteStep(acc, y)
<1>1. a \in Sales /\ NoteTotal[y] \in Nat /\ acc.left[a] \in Nat /\ note[y].method \in {"cash", "card", "unknown"}
  BY DrawerAssumption DEF WalkSound, DrawerTypes
<1>2. c \in Nat /\ (note[y].method = "unknown" => c <= acc.left[a])
  BY <1>1, TwoNumbers DEF CashOf
<1>3. l \in Nat /\ l <= acc.left[a] /\ (note[y].method = "unknown" => c + l <= acc.left[a])
  <2> HIDE DEF c
  <2>0. acc.left[a] - c \in Int /\ 0 \in Int
    BY <1>1, <1>2
  <2>1. l \in {acc.left[a] - c, 0} /\ l >= acc.left[a] - c /\ l >= 0
    BY <2>0, TwoNumbers
  <2> HIDE DEF c, l
  <2> QED
    BY <1>1, <1>2, <2>1
<1>4. new.left = [acc.left EXCEPT ![a] = l] /\ new.cash = [acc.cash EXCEPT ![y] = c]
  BY DEF NoteStep
<1> HIDE DEF c, l, new
<1>5. new.left \in [Sales -> Nat] /\ new.cash \in [W -> Nat]
  BY <1>1, <1>2, <1>3, <1>4 DEF WalkSound
<1>6. ASSUME NEW b \in Sales
      PROVE  SumFunctionOnSet(new.cash, Unknown(R \cup {y}, b)) + new.left[b] <= CashPaid[b]
  <2> DEFINE old == SumFunctionOnSet(acc.cash, Unknown(R, b))
  <2>1. IsFiniteSet(Unknown(R, b)) /\ Unknown(R, b) \in SUBSET W /\ y \notin Unknown(R, b)
    BY FS_Subset DEF Unknown
  <2>2. old + acc.left[b] <= CashPaid[b] /\ acc.left[b] \in Nat /\ CashPaid[b] \in Nat
    BY DrawerAssumption DEF WalkSound
  <2>3. old \in Nat
    BY <2>1, SumNaturals DEF WalkSound
  <2>4. SumFunctionOnSet(new.cash, Unknown(R, b)) = old
    <3>1. \A n \in Unknown(R, b) : new.cash[n] = acc.cash[n]
      BY <1>4, <2>1 DEF WalkSound
    <3> QED
      BY <2>1, <3>1, SumSame
  <2> HIDE DEF old
  <2>5. CASE b = a /\ note[y].method = "unknown"
    <3>1. Unknown(R \cup {y}, b) = Unknown(R, b) \cup {y}
      BY <2>5 DEF Unknown
    <3>2. new.cash[y] = c /\ new.left[b] = l
      BY <1>1, <1>4, <2>5 DEF WalkSound
    <3>3. \A n \in W : new.cash[n] \in Int
      BY <1>5
    <3>4. SumFunctionOnSet(new.cash, Unknown(R, b) \cup {y}) = c + old
      BY <2>1, <2>4, <3>2, <3>3, SumInsert
    <3>5. c \in Nat /\ l \in Nat /\ c + l <= acc.left[b]
      BY <1>2, <1>3, <2>5
    <3>6. c + old + l <= CashPaid[b]
      BY <2>2, <2>3, <3>5
    <3> QED
      BY <3>1, <3>2, <3>4, <3>6
  <2>6. CASE ~(b = a /\ note[y].method = "unknown")
    <3>1. Unknown(R \cup {y}, b) = Unknown(R, b)
      BY <2>6 DEF Unknown
    <3>2. new.left[b] \in Nat /\ new.left[b] <= acc.left[b]
      BY <1>1, <1>3, <1>4, <2>2 DEF WalkSound
    <3> QED
      BY <2>2, <2>3, <2>4, <3>1, <3>2
  <2> QED
    BY <2>5, <2>6
<1> QED
  BY <1>5, <1>6 DEF WalkSound, new

\* The whole walk: no bill's unknown notes take more than its cash.
LEMMA WalkedSound ==
  ASSUME DrawerTypes, NEW W \in SUBSET Notes
  PROVE  WalkSound(Walked(W), W, W)
<1>0. IsFiniteSet(W) /\ \A n \in W : note[n].at \in Nat
  BY DrawerAssumption, FS_Subset DEF DrawerTypes
<1> DEFINE w == CHOOSE g : WalkedBy(g, W)
<1>1. WalkedBy(w, W)
  BY <1>0, WalkExists
<1>2. Walked(W) = w[W]
  BY DEF Walked, WalkedBy
<1> HIDE DEF w
<1>3. \A S \in SUBSET W : w[S] = IF S = {} THEN [left |-> CashPaid, cash |-> [n \in W |-> 0]]
                                 ELSE NoteStep(w[S \ {Youngest(S)}], Youngest(S))
  BY <1>1 DEF WalkedBy
<1>4. \A S \in SUBSET W : IsFiniteSet(S) /\ Cardinality(S) \in Nat /\ (Cardinality(S) = 0 <=> S = {})
  BY <1>0, FS_Subset, FS_CardinalityType, FS_EmptySet
<1> DEFINE N == {n \in Nat : \A S \in SUBSET W : Cardinality(S) = n => WalkSound(w[S], W, S)}
<1>5. 0 \in N
  <2>1. \A b \in Sales : Unknown({}, b) = {} /\ CashPaid[b] \in Nat
    BY DrawerAssumption DEF Unknown
  <2>2. w[{}] = [left |-> CashPaid, cash |-> [n \in W |-> 0]]
    BY <1>3
  <2>3. \A b \in Sales : SumFunctionOnSet(w[{}].cash, Unknown({}, b)) + w[{}].left[b] <= CashPaid[b]
    <3> SUFFICES ASSUME NEW b \in Sales
                 PROVE  SumFunctionOnSet(w[{}].cash, Unknown({}, b)) + w[{}].left[b] <= CashPaid[b]
      OBVIOUS
    <3>1. SumFunctionOnSet(w[{}].cash, Unknown({}, b)) = 0
      BY <2>1, SumEmpty
    <3> QED
      BY <2>1, <2>2, <3>1
  <2>4. WalkSound(w[{}], W, {})
    BY <2>2, <2>3, DrawerAssumption DEF WalkSound
  <2> QED
    BY <1>4, <2>4
<1>6. ASSUME NEW n \in Nat, n \in N PROVE n + 1 \in N
  <2> SUFFICES ASSUME NEW S \in SUBSET W, Cardinality(S) = n + 1 PROVE WalkSound(w[S], W, S)
    OBVIOUS
  <2> DEFINE y == Youngest(S)
             R == S \ {Youngest(S)}
  <2>1. S # {}
    BY <1>4
  <2>2. y \in S
    BY <1>0, <1>4, <2>1, YoungestIn
  <2>3. R \in SUBSET W /\ Cardinality(R) = n /\ y \in W \ R /\ R \cup {y} = S
    <3>1. Cardinality(R) = Cardinality(S) - 1
      BY <1>4, <2>2, FS_RemoveElement
    <3> QED
      BY <2>2, <3>1
  <2>4. WalkSound(w[R], W, R)
    BY <1>6, <2>3
  <2>5. w[S] = NoteStep(w[R], y)
    BY <1>3, <2>1
  <2> HIDE DEF y, R
  <2>6. WalkSound(NoteStep(w[R], y), W, R \cup {y})
    BY <1>0, <2>3, <2>4, NoteStepSound
  <2> QED
    BY <2>3, <2>5, <2>6
<1> HIDE DEF N
<1>7. Cardinality(W) \in N
  BY <1>4, <1>5, <1>6, NaturalsAll
<1> QED
  BY <1>2, <1>7 DEF N

\* The notes of unknown method are there from the start and stay so.
LegacyRows == \A n \in DOMAIN Legacy : note[n].st = "done" /\ note[n].method = "unknown"

\* A shift opened since is younger than they are: they are refunds of the
\* first shift, or of none.
LegacyFirst == \A s \in Shifts : s # 1 /\ shift[s].st # "none" =>
  \A n \in DOMAIN Legacy : note[n].at < shift[s].at

\* What a close takes of a bill for them is covered by the bill's cash.
LegacyOf(cash, b) == {n \in DOMAIN cash : n \in DOMAIN Legacy /\ NoteBill[n] = b}
TakesWithin(r) ==
  /\ \A n \in DOMAIN r.cash : r.cash[n] \in Nat
  /\ \A b \in LegacyBills : SumFunctionOnSet(r.cash, LegacyOf(r.cash, b)) <= CashPaid[b]

\* The inductive invariant of what the old notes take.
LegacyInv ==
  /\ LegacyRows /\ LegacyFirst
  /\ \A k \in Tills : TakesWithin(till[k])
  /\ \A s \in Shifts : TakesWithin(shift[s])

\* The refunds of a close stay within the cash of each bill.
LEMMA RefundsTakeWithin ==
  ASSUME DrawerTypes, LegacyRows, NEW since
  PROVE  TakesWithin([cash |-> computeCashRefunds(since)])
<1> DEFINE seen == {n \in Notes : note[n].st = "done"}
           inShift == {n \in seen : note[n].at >= since}
           W == {n \in seen : \E i \in inShift : NoteBill[i] = NoteBill[n]}
           full == Walked(W).cash
           cash == computeCashRefunds(since)
<1>1. cash = [n \in inShift |-> full[n]]
  BY DEF computeCashRefunds
<1>2. inShift \subseteq W /\ W \in SUBSET Notes
  OBVIOUS
<1>3. WalkSound(Walked(W), W, W)
  BY <1>2, WalkedSound
<1>4. IsFiniteSet(W)
  BY <1>2, DrawerAssumption, FS_Subset
<1> HIDE DEF inShift, W, full, cash
<1>5. DOMAIN cash = inShift /\ \A n \in inShift : cash[n] = full[n] /\ cash[n] \in Nat
  BY <1>1, <1>2, <1>3 DEF WalkSound, full
<1>6. ASSUME NEW b \in LegacyBills
      PROVE  SumFunctionOnSet(cash, LegacyOf(cash, b)) <= CashPaid[b]
  <2>1. b \in Sales /\ CashPaid[b] \in Nat
    BY DrawerAssumption DEF LegacyBills
  <2> DEFINE L == LegacyOf(cash, b)
             U == Unknown(W, b)
  <2>2. L \subseteq U /\ U \subseteq W /\ L \subseteq inShift
    BY <1>2, <1>5 DEF LegacyOf, Unknown, LegacyRows
  <2>3. IsFiniteSet(U) /\ IsFiniteSet(L) /\ \A n \in U : full[n] \in Nat
    BY <1>3, <1>4, <2>2, FS_Subset DEF WalkSound, full
  <2> HIDE DEF L, U
  <2>4. SumFunctionOnSet(cash, L) = SumFunctionOnSet(full, L)
    BY <1>5, <2>2, <2>3, SumSame
  <2>5. SumFunctionOnSet(full, L) <= SumFunctionOnSet(full, U)
    <3>1. L \in SUBSET U /\ U \ L \in SUBSET U /\ L \cap (U \ L) = {} /\ L \cup (U \ L) = U
      BY <2>2
    <3>2. \A n \in U : full[n] \in Int
      BY <2>3
    <3>3. SumFunctionOnSet(full, L \cup (U \ L)) = SumFunctionOnSet(full, L) + SumFunctionOnSet(full, U \ L)
      BY <2>3, <3>1, <3>2, SumUnion
    <3>4. SumFunctionOnSet(full, L) \in Nat /\ SumFunctionOnSet(full, U \ L) \in Nat
      BY <2>3, <3>1, SumNaturals
    <3>5. SumFunctionOnSet(full, U) = SumFunctionOnSet(full, L) + SumFunctionOnSet(full, U \ L)
      BY Zenon, <3>1, <3>3
    <3> QED
      BY <3>4, <3>5
  <2>6. SumFunctionOnSet(full, U) + Walked(W).left[b] <= CashPaid[b] /\ Walked(W).left[b] \in Nat
    BY <1>3, <2>1 DEF WalkSound, full, U
  <2>7. SumFunctionOnSet(full, U) \in Nat
    <3>1. U \in SUBSET U
      OBVIOUS
    <3> QED
      BY <2>3, <3>1, SumNaturals
  <2>8. SumFunctionOnSet(full, L) \in Nat
    BY <2>2, <2>3, SumNaturals
  <2>9. SumFunctionOnSet(cash, L) <= CashPaid[b]
    BY <2>1, <2>4, <2>5, <2>6, <2>7, <2>8
  <2> QED
    BY <2>9 DEF L
<1> QED
  BY <1>5, <1>6 DEF TakesWithin, cash

\* A step that keeps what was there, and takes only what is covered.
LEMMA LegacyStep ==
  ASSUME LegacyInv, DrawerTypes, RowsKept, LegacyFirst',
         \A k \in Tills : till'[k] = till[k] \/ TakesWithin(till'[k]),
         \A s \in Shifts : shift'[s] = shift[s] \/ TakesWithin(shift'[s])
  PROVE  LegacyInv'
<1>1. LegacyRows'
  BY DrawerAssumption DEF LegacyInv, LegacyRows, RowsKept
<1>2. \A r : TakesWithin(r)' <=> TakesWithin(r)
  BY DEF TakesWithin, LegacyOf, LegacyBills
<1>3. \A k \in Tills : TakesWithin(till'[k])
  BY DEF LegacyInv
<1>4. \A s \in Shifts : TakesWithin(shift'[s])
  BY DEF LegacyInv
<1>5. (\A k \in Tills : TakesWithin(till[k]))' /\ (\A s \in Shifts : TakesWithin(shift[s]))'
  BY <1>3, <1>4 DEF TakesWithin
<1> QED
  BY <1>1, <1>5 DEF LegacyInv

\* Nothing is within the cash.
LEMMA NothingWithin ==
  ASSUME NEW r, r.cash = << >>
  PROVE  TakesWithin(r)
<1>1. \A b \in LegacyBills : b \in Sales /\ CashPaid[b] \in Nat
  BY DrawerAssumption DEF LegacyBills
<1>2. DOMAIN r.cash = {} /\ \A b : LegacyOf(r.cash, b) = {}
  BY DEF LegacyOf
<1>3. SumFunctionOnSet(r.cash, {}) = 0
  BY SumEmpty
<1> QED
  BY SMTT(40), <1>1, <1>2, <1>3 DEF TakesWithin

\* The shifts as they were: the old notes still precede all but the first.
LEMMA FirstKept ==
  ASSUME LegacyInv, RowsKept, UNCHANGED shift
  PROVE  LegacyFirst'
<1>1. \A n \in DOMAIN Legacy : note'[n] = note[n]
  BY DrawerAssumption DEF LegacyInv, LegacyRows, RowsKept
<1> QED
  BY <1>1 DEF LegacyInv, LegacyFirst

\* The requests' reads, the write of a movement, and the sales and refunds.
LEMMA LegacyReads ==
  ASSUME LegacyInv, DrawerInv, UNCHANGED shift, RowsKept,
         \/ UNCHANGED till
         \/ \E k \in Tills :
              \/ OpenRead(k) \/ SumSales(k) \/ SumRefunds(k)
              \/ \E s \in Shifts : MoveRead(k, s) \/ CloseLoad(k, s)
              \/ \E v \in Movements : MoveWrite(k, v)
  PROVE  LegacyInv'
<1>1. \A k \in Tills : till'[k] = till[k] \/ TakesWithin(till'[k])
  <2>1. CASE UNCHANGED till
    BY <2>1
  <2>2. ASSUME NEW k \in Tills, NEW q, till' = [till EXCEPT ![k] = q], TakesWithin(q)
        PROVE  \A l \in Tills : till'[l] = till[l] \/ TakesWithin(till'[l])
    BY <2>2 DEF DrawerInv, DrawerTypes
  <2>3. ASSUME NEW k \in Tills, SumRefunds(k)
        PROVE  \A l \in Tills : till'[l] = till[l] \/ TakesWithin(till'[l])
    <3> DEFINE q == [op |-> "close", shift |-> till[k].shift, at |-> till[k].at, moved |-> till[k].moved,
                     sales |-> till[k].sales, cash |-> computeCashRefunds(till[k].at)]
               c == [cash |-> computeCashRefunds(till[k].at)]
    <3>1. TakesWithin(c)
      BY RefundsTakeWithin DEF DrawerInv, LegacyInv
    <3>2. q.cash = c.cash
      OBVIOUS
    <3>3. till' = [till EXCEPT ![k] = q]
      BY <2>3 DEF SumRefunds
    <3> HIDE DEF q, c
    <3>4. TakesWithin(q)
      BY <3>1, <3>2 DEF TakesWithin
    <3> QED
      BY <2>2, <3>3, <3>4
  <2>4. ASSUME NEW k \in Tills,
               \/ OpenRead(k) \/ SumSales(k)
               \/ \E s \in Shifts : MoveRead(k, s) \/ CloseLoad(k, s)
               \/ \E v \in Movements : MoveWrite(k, v)
        PROVE  \A l \in Tills : till'[l] = till[l] \/ TakesWithin(till'[l])
    <3>1. PICK q : till' = [till EXCEPT ![k] = q] /\ q.cash = << >>
      <4>0. ASSUME NEW q, till' = [till EXCEPT ![k] = q], q.cash = << >>
            PROVE  \E r : till' = [till EXCEPT ![k] = r] /\ r.cash = << >>
        BY Zenon, <4>0
      <4>1. CASE OpenRead(k)
        <5> DEFINE q == [IdleTill EXCEPT !.op = "open"]
        <5>1. till' = [till EXCEPT ![k] = q] /\ q.cash = << >>
          BY <4>1 DEF OpenRead, IdleTill
        <5> HIDE DEF q
        <5> QED
          BY <4>0, <5>1
      <4>2. CASE SumSales(k)
        <5> DEFINE q == [op |-> "sum refunds", shift |-> till[k].shift, at |-> till[k].at, moved |-> till[k].moved,
                         sales |-> computeCashSales(till[k].at), cash |-> << >>]
        <5>1. till' = [till EXCEPT ![k] = q] /\ q.cash = << >>
          BY <4>2 DEF SumSales
        <5> HIDE DEF q
        <5> QED
          BY <4>0, <5>1
      <4>3. CASE \E s \in Shifts : MoveRead(k, s)
        <5>1. PICK s \in Shifts : MoveRead(k, s)
          BY <4>3
        <5> DEFINE q == [op |-> "move", shift |-> s, at |-> 0, moved |-> {}, sales |-> {}, cash |-> << >>]
        <5>2. till' = [till EXCEPT ![k] = q] /\ q.cash = << >>
          BY <5>1 DEF MoveRead
        <5> HIDE DEF q
        <5> QED
          BY <4>0, <5>2
      <4>4. CASE \E s \in Shifts : CloseLoad(k, s)
        <5>1. PICK s \in Shifts : CloseLoad(k, s)
          BY <4>4
        <5> DEFINE q == [op |-> "sum sales", shift |-> s, at |-> shift[s].at,
                         moved |-> {v \in Movements : moved[v] = s}, sales |-> {}, cash |-> << >>]
        <5>2. till' = [till EXCEPT ![k] = q] /\ q.cash = << >>
          BY <5>1 DEF CloseLoad
        <5> HIDE DEF q
        <5> QED
          BY <4>0, <5>2
      <4>5. CASE \E v \in Movements : MoveWrite(k, v)
        <5>1. till' = [till EXCEPT ![k] = IdleTill] /\ IdleTill.cash = << >>
          BY <4>5 DEF MoveWrite, IdleTill
        <5> QED
          BY <4>0, <5>1
      <4> QED
        BY <2>4, <4>1, <4>2, <4>3, <4>4, <4>5
    <3>2. TakesWithin(q)
      BY <3>1, NothingWithin
    <3> QED
      BY <2>2, <3>1, <3>2
  <2> QED
    BY <2>1, <2>3, <2>4
<1>2. LegacyFirst'
  BY FirstKept
<1> QED
  BY <1>1, <1>2, LegacyStep DEF DrawerInv

\* A shift opens after every note there is.
LEMMA LegacyOpen ==
  ASSUME LegacyInv, DrawerInv, NEW k \in Tills, OpenWrite(k)
  PROVE  LegacyInv'
<1>1. DOMAIN till' = Tills /\ \A l \in Tills : till'[l] = till[l] \/ till'[l] = IdleTill
  BY DEF OpenWrite, DrawerInv, DrawerTypes
<1>2. RowsKept
  BY DEF OpenWrite, RowsKept
<1>3. TakesWithin(IdleTill)
  <2>1. IdleTill.cash = << >>
    BY DEF IdleTill
  <2> QED
    BY <2>1, NothingWithin
<1>4. DrawerTypes
  BY DEF DrawerInv
<1>5. CASE UNCHANGED shift
  BY <1>1, <1>2, <1>3, <1>4, <1>5, FirstKept, LegacyStep
<1>6. CASE \E s \in Shifts : Tick /\ shift' = [shift EXCEPT ![s] = OpenedAt(stamp')]
  <2>1. PICK s \in Shifts : Tick /\ shift' = [shift EXCEPT ![s] = OpenedAt(stamp')]
    BY <1>6
  <2>2. OpenedAt(stamp').cash = << >> /\ OpenedAt(stamp').at = stamp + 1
    BY <2>1 DEF OpenedAt, Tick
  <2>3. TakesWithin(OpenedAt(stamp'))
    BY <2>2, NothingWithin
  <2>4. \A r \in Shifts : shift'[r] = shift[r] \/ (r = s /\ shift'[r] = OpenedAt(stamp'))
    BY <1>4, <2>1 DEF DrawerTypes
  <2>5. \A n \in DOMAIN Legacy : note'[n] = note[n] /\ note[n].at \in Nat /\ note[n].at <= stamp
    BY <1>2, DrawerAssumption DEF LegacyInv, LegacyRows, RowsKept, DrawerInv, DrawerTypes, StampsPast
  <2>6. stamp \in Nat
    BY <1>4 DEF DrawerTypes
  <2>7. LegacyFirst'
    <3> SUFFICES ASSUME NEW r \in Shifts, r # 1, shift'[r].st # "none", NEW n \in DOMAIN Legacy
                 PROVE  note'[n].at < shift'[r].at
      BY DEF LegacyFirst
    <3>1. CASE shift'[r] = shift[r]
      BY <2>5, <3>1 DEF LegacyInv, LegacyFirst
    <3>2. CASE shift'[r] = OpenedAt(stamp')
      BY <2>2, <2>5, <2>6, <3>2
    <3> QED
      BY <2>4, <3>1, <3>2
  <2> QED
    BY <1>1, <1>2, <1>3, <1>4, <2>3, <2>4, <2>7, LegacyStep
<1> QED
  BY <1>5, <1>6 DEF OpenWrite

\* A close writes what its slot took, and leaves the opening.
LEMMA LegacyClose ==
  ASSUME LegacyInv, DrawerInv, NEW k \in Tills, CloseWrite(k)
  PROVE  LegacyInv'
<1>1. DOMAIN till' = Tills /\ \A l \in Tills : till'[l] = till[l] \/ till'[l] = IdleTill
  BY DEF CloseWrite, DrawerInv, DrawerTypes
<1>2. RowsKept /\ UNCHANGED note
  BY DEF CloseWrite, RowsKept
<1>3. TakesWithin(IdleTill)
  <2>1. IdleTill.cash = << >>
    BY DEF IdleTill
  <2> QED
    BY <2>1, NothingWithin
<1>4. DrawerTypes
  BY DEF DrawerInv
<1>5. PICK t : t = till[k]
  OBVIOUS
<1>6. t.op = "close" /\ t.shift \in Shifts /\ shift[t.shift].st # "none" /\ t.at = shift[t.shift].at
  BY <1>5 DEF CloseWrite, DrawerInv, ClosesSound
<1>7. PICK row : row = [st |-> "closed", at |-> t.at, expected |-> expectedMinor(t),
                        sales |-> t.sales, cash |-> t.cash, closes |-> shift[t.shift].closes + 1]
  OBVIOUS
<1>8. shift' = [shift EXCEPT ![t.shift] = row]
  BY <1>5, <1>7 DEF CloseWrite
<1>9. row.cash = t.cash /\ row.at = t.at /\ row.st = "closed"
  BY <1>7
<1>10. TakesWithin(row)
  BY <1>5, <1>9 DEF LegacyInv, TakesWithin
<1>11. \A r \in Shifts : shift'[r] = shift[r] \/ (r = t.shift /\ shift'[r] = row)
  BY <1>4, <1>8 DEF DrawerTypes
<1>12. \A r \in Shifts : shift'[r].at = shift[r].at /\ (shift'[r].st # "none" => shift[r].st # "none")
  BY <1>6, <1>9, <1>11
<1>13. LegacyFirst'
  BY <1>2, <1>12 DEF LegacyInv, LegacyFirst
<1> QED
  BY <1>1, <1>2, <1>3, <1>4, <1>10, <1>11, <1>13, LegacyStep

\* The invariant of the old notes holds of every reachable state.
THEOREM LegacyInvariance == DrawerSpec => []LegacyInv
<1>1. DrawerInit => LegacyInv
  <2> SUFFICES ASSUME DrawerInit PROVE LegacyInv
    OBVIOUS
  <2>1. LegacyRows
    BY DrawerAssumption DEF DrawerInit, LegacyRows
  <2>2. \A s \in Shifts : shift[s].cash = << >> /\ (s # 1 => shift[s].st = "none")
    BY DEF DrawerInit, OpenedAt, NoShift
  <2>3. \A k \in Tills : till[k].cash = << >>
    BY DEF DrawerInit, IdleTill
  <2>4. LegacyFirst
    BY <2>2 DEF LegacyFirst
  <2> QED
    BY <2>1, <2>2, <2>3, <2>4, NothingWithin DEF LegacyInv
<1>2. LegacyInv /\ DrawerInv /\ [DrawerNext]_drawerVars => LegacyInv'
  <2> SUFFICES ASSUME LegacyInv, DrawerInv, [DrawerNext]_drawerVars PROVE LegacyInv'
    OBVIOUS
  <2>1. ASSUME NEW k \in Tills,
               \/ OpenRead(k) \/ SumSales(k) \/ SumRefunds(k)
               \/ \E s \in Shifts : MoveRead(k, s) \/ CloseLoad(k, s)
               \/ \E v \in Movements : MoveWrite(k, v)
        PROVE  LegacyInv'
    <3>1. UNCHANGED <<shift, sale, note>>
      BY <2>1 DEF OpenRead, SumSales, SumRefunds, MoveRead, CloseLoad, MoveWrite
    <3>2. RowsKept
      BY <3>1 DEF RowsKept
    <3> QED
      BY <2>1, <3>1, <3>2, LegacyReads
  <2>2. ASSUME NEW k \in Tills, OpenWrite(k) PROVE LegacyInv'
    BY <2>2, LegacyOpen
  <2>3. ASSUME NEW k \in Tills, CloseWrite(k) PROVE LegacyInv'
    BY <2>3, LegacyClose
  <2>4. CASE \E b \in Sales : SaleStamp(b) \/ SaleCommit(b)
    <3>1. UNCHANGED <<shift, note, till>>
      BY <2>4 DEF SaleStamp, SaleCommit
    <3>2. RowsKept
      BY <2>4 DEF SaleStamp, SaleCommit, RowsKept, DrawerInv, DrawerTypes
    <3> QED
      BY <3>1, <3>2, LegacyReads
  <2>5. CASE \/ \E n \in Notes, method \in {"cash", "card"} : RefundStamp(n, method)
             \/ \E n \in Notes : RefundCommit(n)
    <3>1. UNCHANGED <<shift, sale, till>>
      BY <2>5 DEF RefundStamp, RefundCommit
    <3>2. RowsKept
      BY <2>5 DEF RefundStamp, RefundCommit, RowsKept, DrawerInv, DrawerTypes
    <3> QED
      BY <3>1, <3>2, LegacyReads
  <2>6. CASE UNCHANGED drawerVars
    <3>1. UNCHANGED <<shift, till>> /\ RowsKept
      BY <2>6 DEF drawerVars, RowsKept
    <3> QED
      BY <3>1, LegacyReads
  <2> QED
    BY <2>1, <2>2, <2>3, <2>4, <2>5, <2>6 DEF DrawerNext
<1> QED
  BY <1>1, <1>2, DrawerInvariance, PTL DEF DrawerSpec

\* No cash is counted twice over the shifts, coming in or going out: besides,
\* refunds of unknown method never take more out of the drawers than their
\* bill was paid in cash (closeShift, computeCashRefundsMinor).
THEOREM CashNeverCountedTwice == DrawerSpec => []CashCountedOnce
<1>1. ASSUME DrawerInv, LegacyInv, NEW b \in LegacyBills
      PROVE  SumFunctionOnSet([s \in ClosedOnce |-> SumFunctionOnSet(shift[s].cash, LegacyOf(shift[s].cash, b))],
                              ClosedOnce) <= CashPaid[b]
  <2> DEFINE taken == [s \in ClosedOnce |-> SumFunctionOnSet(shift[s].cash, LegacyOf(shift[s].cash, b))]
  <2>1. IsFiniteSet(ClosedOnce) /\ ClosedOnce \subseteq Shifts
    BY DrawerAssumption, FS_Subset DEF ClosedOnce
  <2>2. CashPaid[b] \in Nat /\ b \in Sales
    BY DrawerAssumption DEF LegacyBills
  <2>3. \A s \in ClosedOnce : s # 1 => taken[s] = 0
    <3> SUFFICES ASSUME NEW s \in ClosedOnce, s # 1 PROVE taken[s] = 0
      OBVIOUS
    <3>1. s \in Shifts /\ shift[s].st # "none" /\ shift[s].at \in Nat
      BY <1>1 DEF ClosedOnce, DrawerInv, DrawerTypes, ShiftOK
    <3>2. \A n \in DOMAIN Legacy : note[n].at \in Nat /\ note[n].at < shift[s].at
      BY <1>1, <3>1, DrawerAssumption DEF LegacyInv, LegacyFirst, DrawerInv, DrawerTypes
    <3>3. \A n \in DOMAIN shift[s].cash : note[n].at >= shift[s].at
      BY <1>1, <3>1 DEF DrawerInv, Took
    <3>4. LegacyOf(shift[s].cash, b) = {}
      BY <3>1, <3>2, <3>3 DEF LegacyOf
    <3> QED
      BY <3>4, SumEmpty
  <2>4. CASE 1 \in ClosedOnce
    <3>1. TakesWithin(shift[1])
      BY <1>1, <2>1, <2>4 DEF LegacyInv
    <3>2. taken[1] <= CashPaid[b]
      BY <2>4, <3>1 DEF TakesWithin
    <3>3. taken[1] \in Nat
      <4>1. LegacyOf(shift[1].cash, b) \subseteq Notes
        BY DrawerAssumption DEF LegacyOf
      <4>2. IsFiniteSet(LegacyOf(shift[1].cash, b))
        BY <4>1, DrawerAssumption, FS_Subset
      <4>3. \A n \in LegacyOf(shift[1].cash, b) : shift[1].cash[n] \in Nat
        BY <3>1 DEF TakesWithin, LegacyOf
      <4>4. SumFunctionOnSet(shift[1].cash, LegacyOf(shift[1].cash, b)) \in Nat
        BY <4>2, <4>3, SumNaturals
      <4> QED
        BY <2>4, <4>4
    <3> HIDE DEF taken
    <3>4. \A s \in ClosedOnce \ {1} : taken[s] = 0
      BY <2>3
    <3>5. SumFunctionOnSet(taken, ClosedOnce) = taken[1]
      BY <2>1, <2>4, <3>3, <3>4, SumOne
    <3> QED
      BY <3>2, <3>5 DEF taken
  <2>5. CASE 1 \notin ClosedOnce
    <3> HIDE DEF taken
    <3>1. \A s \in ClosedOnce : taken[s] = 0 /\ taken[s] \in Int
      BY <2>3, <2>5
    <3>2. SumFunctionOnSet(taken, ClosedOnce) = SumFunctionOnSet(taken, {})
      BY <2>1, <3>1, SumWithin
    <3>3. SumFunctionOnSet(taken, ClosedOnce) = 0
      BY <3>2, SumEmpty
    <3> QED
      BY <2>2, <3>3 DEF taken
  <2> QED
    BY <2>4, <2>5
<1>2. DrawerInv /\ LegacyInv => LegacyWithinCash
  BY <1>1 DEF LegacyWithinCash, LegacyOf
<1> QED
  BY <1>2, CashTakenOnce, DrawerInvariance, LegacyInvariance, PTL DEF CashCountedOnce

=============================================================================
