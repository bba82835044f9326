--------------------------- MODULE TenantLifecycle ---------------------------
(***************************************************************************)
(* What becomes of one tenant after its onboarding: its status, Test or    *)
(* Live mode, soft delete and subscription, changed by operators           *)
(* (ops/tenants/directory.service, ops/subscriptions), by the owner's Go   *)
(* live (admin/checklist) and by the first sale (bill-core), all at once.  *)
(*                                                                         *)
(* Every handler is one transaction that reads the tenant without a lock   *)
(* and writes it, with its audit event, by id.                             *)
(***************************************************************************)
EXTENDS Naturals

CONSTANTS
  Seats,     \* slots for requests in flight
  MaxMoment  \* bound: instants that are stamped

ASSUME LifecycleAssumption == MaxMoment \in Nat

VARIABLES
  moment,     \* the clock
  tenant,     \* tenants row: status, live_since (0: Test mode), deleted_at
  checklist,  \* have all steps of checklist_progress been completed
  trade,      \* the tenant's order: "none", "open" or "closed"
  soldAt,     \* finalizedAt of the newest finalized bill, 0 if there is none
  sub,        \* subscriptions row's status; "none": the row is still virtual
  told,       \* the newest audit event about the status, and the subscription
  seat        \* the request in each slot

lifecycleVars == <<moment, tenant, checklist, trade, soldAt, sub, told, seat>>

IdleSeat == [op |-> "idle", seen |-> "none"]

LifecycleInit ==
  /\ moment = 1
  /\ \E testMode \in BOOLEAN :
       tenant = [status |-> "provisioning", liveSince |-> IF testMode THEN 0 ELSE 1, deleted |-> FALSE]
  /\ checklist = FALSE
  /\ trade = "none" /\ soldAt = 0
  /\ sub = "none"
  /\ told = [tenant |-> "provisioned", sub |-> "none"]
  /\ seat = [k \in Seats |-> IdleSeat]

TimeGoes ==
  /\ moment < MaxMoment
  /\ moment' = moment + 1
  /\ UNCHANGED <<tenant, checklist, trade, soldAt, sub, told, seat>>

\* mutate(), requireTenant(): a deleted tenant is not found.
Take(k, op) ==
  /\ seat[k].op = "idle"
  /\ ~tenant.deleted
  /\ seat' = [seat EXCEPT ![k] = [op |-> op, seen |-> "none"]]
  /\ UNCHANGED <<moment, tenant, checklist, trade, soldAt, sub, told>>

Free(k) == seat' = [seat EXCEPT ![k] = IdleSeat]

isTenantBlocked == tenant.status = "inactive" \/ tenant.deleted

-----------------------------------------------------------------------------
\* The operator

\* The status each change wants, and the one it makes.
From == [activated |-> {"provisioning"}, deactivated |-> {"active"}, reactivated |-> {"inactive"}]
To == [activated |-> "active", deactivated |-> "inactive", reactivated |-> "active"]

\* activate(), deactivate(), reactivate()
StatusRead(k, change) == tenant.status \in From[change] /\ Take(k, change)

StatusWrite(k) ==
  LET change == seat[k].op IN
  /\ change \in DOMAIN To
  /\ tenant' = [tenant EXCEPT !.status = To[change]]
  /\ told' = [told EXCEPT !.tenant = change]
  /\ Free(k)
  /\ UNCHANGED <<moment, checklist, trade, soldAt, sub>>

\* setMode(): back to Test only if no bill was finalized since live_since.
ModeRead(k, mode) ==
  /\ \/ mode = "live" /\ tenant.liveSince = 0
     \/ mode = "test" /\ tenant.liveSince > 0 /\ soldAt < tenant.liveSince
  /\ Take(k, mode)

setMode(k) ==
  /\ seat[k].op \in {"test", "live"}
  /\ tenant' = [tenant EXCEPT !.liveSince = IF seat[k].op = "test" THEN 0 ELSE moment]
  /\ Free(k)
  /\ UNCHANGED <<moment, checklist, trade, soldAt, sub, told>>

\* softDelete(): not while an order or a bill is open.
DeleteRead(k) == trade # "open" /\ Take(k, "delete")

softDelete(k) ==
  /\ seat[k].op = "delete"
  /\ tenant' = [tenant EXCEPT !.deleted = TRUE]
  /\ Free(k)
  /\ UNCHANGED <<moment, checklist, trade, soldAt, sub, told>>

\* A tenant without a row has an active subscription.
SubRead(k, change) ==
  /\ (change = "suspend") = (sub # "suspended")
  /\ Take(k, change)

\* suspend(), reactivate() through persistSubscription()
SubWrite(k) ==
  /\ seat[k].op \in {"suspend", "resume"}
  /\ sub' = IF seat[k].op = "suspend" THEN "suspended" ELSE "active"
  /\ told' = [told EXCEPT !.sub = seat[k].op]
  /\ Free(k)
  /\ UNCHANGED <<moment, tenant, checklist, trade, soldAt>>

-----------------------------------------------------------------------------
\* The owner

\* updateStep() of the last step, or of any step back to not done.
updateStep ==
  /\ ~isTenantBlocked
  /\ checklist' = ~checklist
  /\ UNCHANGED <<moment, tenant, trade, soldAt, sub, told, seat>>

\* AdminAuthGuard lets Go live in ...
GoLiveAdmit(k) == ~isTenantBlocked /\ Take(k, "golive")

\* ... which reads the tenant and the checklist ...
GoLiveRead(k) ==
  /\ seat[k] = [op |-> "golive", seen |-> "none"]
  /\ seat' = [seat EXCEPT ![k] =
                IF checklist /\ tenant.status # "active" THEN [@ EXCEPT !.seen = tenant.status] ELSE IdleSeat]
  /\ UNCHANGED <<moment, tenant, checklist, trade, soldAt, sub, told>>

\* ... and, of a tenant that was not active, writes the status.
goLive(k) ==
  /\ seat[k].op = "golive" /\ seat[k].seen # "none"
  /\ tenant' = [tenant EXCEPT !.status = "active"]
  /\ told' = [told EXCEPT !.tenant = "went_live"]
  /\ Free(k)
  /\ UNCHANGED <<moment, checklist, trade, soldAt, sub>>

-----------------------------------------------------------------------------
\* The tills

OpenOrder ==
  /\ ~isTenantBlocked
  /\ trade # "open"
  /\ trade' = "open"
  /\ UNCHANGED <<moment, tenant, checklist, soldAt, sub, told, seat>>

\* PosAuthGuard lets a finalize in; it commits later.
SaleAdmit(k) == ~isTenantBlocked /\ trade = "open" /\ Take(k, "sale")

\* updateMany where status = 'provisioning': does the sale make it active.
Mut_WentLive == TRUE
WentLive == tenant.status = "provisioning"

commitFinalize(k) ==
  /\ seat[k].op = "sale"
  /\ Free(k)
  /\ IF trade # "open" THEN UNCHANGED <<tenant, told, trade, soldAt>>
     ELSE /\ trade' = "closed"
          /\ soldAt' = moment
          /\ tenant' = [tenant EXCEPT !.status = IF @ = "provisioning" THEN "active" ELSE @]
          /\ told' = IF WentLive THEN [told EXCEPT !.tenant = "went_live"] ELSE told
  /\ UNCHANGED <<moment, checklist, sub>>

LifecycleNext ==
  \/ TimeGoes \/ updateStep \/ OpenOrder
  \/ \E k \in Seats :
       \/ \E change \in DOMAIN To : StatusRead(k, change)
       \/ \E mode \in {"test", "live"} : ModeRead(k, mode)
       \/ \E change \in {"suspend", "resume"} : SubRead(k, change)
       \/ StatusWrite(k) \/ setMode(k) \/ DeleteRead(k) \/ softDelete(k) \/ SubWrite(k)
       \/ GoLiveAdmit(k) \/ GoLiveRead(k) \/ goLive(k)
       \/ SaleAdmit(k) \/ commitFinalize(k)

LifecycleSpec == LifecycleInit /\ [][LifecycleNext]_lifecycleVars

-----------------------------------------------------------------------------
\* The status the audit trail tells of.
StatusTold ==
  CASE told.tenant = "provisioned" -> "provisioning"
    [] told.tenant = "deactivated" -> "inactive"
    [] OTHER -> "active"

\* The newest audit event about a tenant tells its status, and the newest one
\* about its subscription whether it is suspended, however operators, the
\* owner's Go live and the first sale cross: a request that lost a race leaves
\* no event of a change it did not make (directory.service mutate,
\* checklist goLive, bill-core's went_live, subscriptions mutate).
AuditTellsStatus ==
  /\ tenant.status = StatusTold
  /\ (sub = "suspended") = (told.sub = "suspend")
=============================================================================
