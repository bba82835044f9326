----------------------------- MODULE DeviceFleet -----------------------------
(***************************************************************************)
(* The devices of one outlet: enrolment codes, the hub, the printers and   *)
(* card terminals linked to a POS, and the work queued for them            *)
(* (ops/devices, admin/devices, device/enroll, pos/device-routing, the     *)
(* print spool of pos/bills); and the replay of dead-lettered operations   *)
(* (ops/dlq).                                                              *)
(*                                                                         *)
(* Every request is a read step, in a slot k \in Desks, and a write step.  *)
(* A payment intent is queued for a terminal the way a receipt is queued   *)
(* for a printer, so both are jobs.                                        *)
(***************************************************************************)
EXTENDS Naturals, Sequences, SequencesExt, FiniteSets

CONSTANTS
  CodeType,     \* enrolment codes, and the type of device each enrols
  DeviceIds,    \* ids of devices, 1..n in order of enrolment
  Enrolled,     \* the types of the devices enrolled at the start
  Jobs,
  Letters,      \* dead letters: the operation and whether it can be replayed
  Desks,
  MaxRequests   \* bound: requests

Codes == DOMAIN CodeType
Types == {"pos", "printer", "terminal"}
None == 0

ASSUME FleetAssumption ==
  /\ DeviceIds \subseteq Nat \ {None} /\ CodeType \in [Codes -> Types]
  /\ Enrolled \in Seq(Types) /\ IsFiniteSet(DOMAIN Letters) /\ MaxRequests \in Nat

VARIABLES
  code,      \* enrolment_codes
  device,    \* devices
  job,       \* print_jobs and payment_intents: where they are queued
  applied,   \* applied_ops
  letter,    \* sync_dead_letters.resolved_at, and history: applications
  desk,      \* the request in each slot
  requests,  \* counts towards MaxRequests
  cut        \* history: devices an operator revoked; devices whose POS was revoked

fleetVars == <<code, device, job, applied, letter, desk, requests, cut>>

NoDeviceRow == [st |-> "none", type |-> "pos", role |-> "terminal", paired |-> None, code |-> None]
NoJob == [st |-> "none", kind |-> "printer", target |-> None, raced |-> FALSE]
NoDesk == [op |-> "none"]

FleetInit ==
  /\ code = [c \in Codes |-> "none"]
  /\ device = [d \in DeviceIds |->
                 IF d \in DOMAIN Enrolled THEN [NoDeviceRow EXCEPT !.st = "active", !.type = Enrolled[d]] ELSE NoDeviceRow]
  /\ job = [j \in Jobs |-> NoJob]
  /\ applied = {}
  /\ letter = [r \in DOMAIN Letters |-> [resolved |-> FALSE, times |-> 0]]
  /\ desk = [k \in Desks |-> NoDesk]
  /\ requests = 0
  /\ cut = [ops |-> {}, pos |-> {}]

Active(d) == d # None /\ device[d].st = "active"

Begin(k, request) ==
  /\ desk[k].op = "none"
  /\ requests < MaxRequests
  /\ requests' = requests + 1
  /\ desk' = [desk EXCEPT ![k] = request]
  /\ UNCHANGED <<code, device, job, applied, letter, cut>>

Done(k) == desk' = [desk EXCEPT ![k] = NoDesk] /\ UNCHANGED requests

-----------------------------------------------------------------------------
\* Enrolment

generateCode(c) ==
  /\ code[c] = "none"
  /\ requests < MaxRequests
  /\ requests' = requests + 1
  /\ code' = [code EXCEPT ![c] = "live"]
  /\ UNCHANGED <<device, job, applied, letter, desk, cut>>

CodeExpires(c) ==
  /\ code[c] = "live"
  /\ code' = [code EXCEPT ![c] = "expired"]
  /\ UNCHANGED <<device, job, applied, letter, desk, requests, cut>>

EnrollRead(k, c) == code[c] = "live" /\ Begin(k, [op |-> "enroll", code |-> c])

\* UPDATE ... WHERE used_at IS NULL.
Mut_Consumes(c) == TRUE
Consumes(c) == code[c] # "used"

EnrollWrite(k) ==
  LET c == desk[k].code IN
  /\ desk[k].op = "enroll"
  /\ \/ /\ Consumes(c)
        /\ code' = [code EXCEPT ![c] = "used"]
        /\ \E d \in DeviceIds :
             /\ device[d].st = "none" /\ \A e \in DeviceIds : e < d => device[e].st # "none"
             /\ device' = [device EXCEPT ![d] = [NoDeviceRow EXCEPT !.st = "active", !.type = CodeType[c], !.code = c]]
     \/ /\ ~Consumes(c)
        /\ UNCHANGED <<code, device>>
  /\ Done(k)
  /\ UNCHANGED <<job, applied, letter, cut>>

-----------------------------------------------------------------------------
\* The hub, links and removal

DesignateRead(k, d) ==
  /\ Active(d)
  /\ \E prior \in {h \in DeviceIds \ {d} : Active(h) /\ device[h].role = "hub"} \cup {None} :
       /\ prior = None => \A h \in DeviceIds \ {d} : ~(Active(h) /\ device[h].role = "hub")
       /\ Begin(k, [op |-> "hub", device |-> d, prior |-> prior, was |-> device[d].role])

DesignateWrite(k) ==
  LET q == desk[k] IN
  /\ q.op = "hub"
  /\ device' = [d \in DeviceIds |->
       CASE d = q.prior -> [device[d] EXCEPT !.role = "terminal"]
         [] d = q.device /\ q.was # "hub" -> [device[d] EXCEPT !.role = "hub"]
         [] OTHER -> device[d]]
  /\ Done(k)
  /\ UNCHANGED <<code, job, applied, letter, cut>>

PairRead(k, d, pos) ==
  /\ Active(d) /\ device[d].type # "pos"
  /\ pos # None =>
       /\ Active(pos) /\ device[pos].type = "pos"
       /\ \A e \in DeviceIds \ {d} : Active(e) /\ device[e].type = device[d].type => device[e].paired # pos
  /\ Begin(k, [op |-> "pair", device |-> d, pos |-> pos])

\* Work queued for d falls back to the outlet-wide queue.
Mut_Requeued(d) == job
Requeued(d) == [j \in Jobs |-> IF job[j].st = "queued" /\ job[j].target = d THEN [job[j] EXCEPT !.target = None] ELSE job[j]]

setPairing(k) ==
  LET q == desk[k] IN
  /\ q.op = "pair"
  /\ job' = Requeued(q.device)
  /\ device' = [device EXCEPT ![q.device].paired = q.pos]
  /\ Done(k)
  /\ UNCHANGED <<code, applied, letter, cut>>

RevokeRead(k, d, who) == Active(d) /\ Begin(k, [op |-> who, device |-> d])

\* The owner's removal cleans up the links and the queue of the device.
OwnerRevoke(k) ==
  LET d == desk[k].device
      linked == {e \in DeviceIds : device[e].paired = d}
  IN
  /\ desk[k].op = "owner"
  /\ job' = Requeued(d)
  /\ device' = [e \in DeviceIds |->
       CASE e = d -> [device[e] EXCEPT !.st = "revoked", !.paired = None]
         [] e # d /\ e \in linked -> [device[e] EXCEPT !.paired = None]
         [] OTHER -> device[e]]
  /\ cut' = [cut EXCEPT !.pos = @ \cup linked]
  /\ Done(k)
  /\ UNCHANGED <<code, applied, letter>>

OperatorRevoke(k) ==
  /\ desk[k].op = "operator"
  /\ device' = [device EXCEPT ![desk[k].device].st = "revoked"]
  /\ cut' = [cut EXCEPT !.ops = @ \cup {desk[k].device}]
  /\ Done(k)
  /\ UNCHANGED <<code, job, applied, letter>>

-----------------------------------------------------------------------------
\* Work for printers and terminals

\* The peripherals of the kind that serve this POS alone.
linkedPeripheral(pos, kind) ==
  {d \in DeviceIds : /\ Active(d) /\ device[d].type = kind /\ pos # None /\ device[d].paired = pos
                     /\ Active(pos)}

\* A device that drains the queue of its own name.
OwnQueue(d) == Active(d) /\ device[d].paired # None

\* A receipt is queued whether or not a printer is there; a payment only for a
\* terminal that will pick it up.
SpoolRead(k, pos, kind) ==
  LET linked == linkedPeripheral(pos, kind) IN
  /\ \E target \in IF linked = {} THEN {None} ELSE linked :
       /\ kind = "terminal" /\ target = None =>
            \E d \in DeviceIds : Active(d) /\ device[d].type = "terminal" /\ device[d].paired = None
       /\ Begin(k, [op |-> "spool", kind |-> kind, target |-> target])

SpoolWrite(k, j) ==
  LET q == desk[k] IN
  /\ q.op = "spool"
  /\ job[j].st = "none"
  /\ job' = [job EXCEPT ![j] = [st |-> "queued", kind |-> q.kind, target |-> q.target,
                                raced |-> q.target # None /\ ~OwnQueue(q.target)]]
  /\ Done(k)
  /\ UNCHANGED <<code, device, applied, letter, cut>>

queueFor(d) == IF OwnQueue(d) THEN d ELSE None

\* A poll by device d shows the job, which is then printed or charged.
markPrinted(d, j) ==
  /\ Active(d) /\ device[d].type = job[j].kind
  /\ job[j].st = "queued" /\ job[j].target = queueFor(d)
  /\ job' = [job EXCEPT ![j].st = "done"]
  /\ UNCHANGED <<code, device, applied, letter, desk, requests, cut>>

-----------------------------------------------------------------------------
\* Dead letters

\* replay() of one letter, or replayBulk() of several, one transaction each.
ReplayBegin(k, rows) == Begin(k, [op |-> "replay", rows |-> rows])

\* The ledger lookup of the next row: already applied and not recoverable
\* letters are skipped.
ReplayRead(k) ==
  LET q == desk[k]
      r == Head(q.rows)
  IN
  /\ q.op = "replay"
  /\ desk' = [desk EXCEPT ![k] =
       CASE q.rows = << >> -> NoDesk
         [] q.rows # << >> /\ (Letters[r].op \in applied \/ ~Letters[r].recoverable) -> [q EXCEPT !.rows = Tail(@)]
         [] OTHER -> [q EXCEPT !.op = "apply"]]
  /\ UNCHANGED <<code, device, job, applied, letter, requests, cut>>

\* The primary key of applied_ops.
NewOp(op) == op \notin applied

\* A key violation rolls the row back and ends the batch.
ReplayWrite(k) ==
  LET q == desk[k]
      r == Head(q.rows)
  IN
  /\ q.op = "apply"
  /\ \/ /\ NewOp(Letters[r].op)
        /\ applied' = applied \cup {Letters[r].op}
        /\ letter' = [letter EXCEPT ![r] = [resolved |-> TRUE, times |-> @.times + 1]]
        /\ desk' = [desk EXCEPT ![k] = [q EXCEPT !.op = "replay", !.rows = Tail(@)]]
     \/ /\ ~NewOp(Letters[r].op)
        /\ desk' = [desk EXCEPT ![k] = NoDesk]
        /\ UNCHANGED <<applied, letter>>
  /\ UNCHANGED <<code, device, job, requests, cut>>

\* One dead letter, or all of them in any order.
Batches == SetToSeqs(DOMAIN Letters) \cup {<<r>> : r \in DOMAIN Letters}

FleetNext ==
  \/ \E c \in Codes : generateCode(c) \/ CodeExpires(c)
  \/ \E k \in Desks, c \in Codes : EnrollRead(k, c)
  \/ \E k \in Desks, d \in DeviceIds : DesignateRead(k, d) \/ \E pos \in DeviceIds \cup {None} : PairRead(k, d, pos)
  \/ \E k \in Desks, d \in DeviceIds, who \in {"owner", "operator"} : RevokeRead(k, d, who)
  \/ \E k \in Desks, pos \in DeviceIds \cup {None}, kind \in {"printer", "terminal"} : SpoolRead(k, pos, kind)
  \/ \E k \in Desks, j \in Jobs : SpoolWrite(k, j)
  \/ \E d \in DeviceIds, j \in Jobs : markPrinted(d, j)
  \/ \E k \in Desks : \/ EnrollWrite(k) \/ DesignateWrite(k) \/ setPairing(k)
                      \/ OwnerRevoke(k) \/ OperatorRevoke(k) \/ ReplayRead(k) \/ ReplayWrite(k)
  \/ \E k \in Desks, rows \in Batches : ReplayBegin(k, rows)

FleetSpec == FleetInit /\ [][FleetNext]_fleetVars

-----------------------------------------------------------------------------
\* One code enrols one device, however many redeem it at once and even if it
\* expires meanwhile (enrollWithActor).
OneDevicePerCode ==
  \A d, e \in DeviceIds : d # e /\ device[d].code # None => device[d].code # device[e].code

\* No dead-lettered operation is applied twice, by two operators, by a batch
\* and a single replay, or because it was dead-lettered twice (replayRow).
ReplayedOnce ==
  \A r, s \in DOMAIN Letters : Letters[r].op = Letters[s].op =>
    letter[r].times + (IF r = s THEN 0 ELSE letter[s].times) <= 1

\* What may be redeemed once is: an enrolment code, a dead letter.
RedeemedOnce == OneDevicePerCode /\ ReplayedOnce

Drained(j) == job[j].st = "queued" /\ job[j].target # None => OwnQueue(job[j].target)

\* "A relink or unlink never strands a receipt or a payment": queued work stays
\* where a device polls for it, except work for a device that an operator
\* removed, whose POS was removed, or that was relinked while the work was
\* being queued (setPairing, revoke, printBill, createIntent).
RelinkStrandsNothing ==
  \A j \in Jobs : job[j].raced \/ job[j].target \in cut.ops \cup cut.pos \/ Drained(j)

\* The same of the owner's "Remove device": "a revoked POS's linked
\* printer/terminal fall back to the outlet, and work still queued for the
\* device goes to the outlet-wide queue" (revoke).
RemovalStrandsNothing ==
  \A j \in Jobs : job[j].raced \/ job[j].target \in cut.ops \/ Drained(j)
=============================================================================
