----------------------------- MODULE SyncHealth -----------------------------
(***************************************************************************)
(* The silent-device watch (ops/sync-health): a timer sweeps the fleet     *)
(* every minute, operators open the same list, and a device not heard from *)
(* for 48 hours is reported once per silence.  What was reported is a map  *)
(* in the memory of the one process.                                       *)
(*                                                                         *)
(* list() reads the devices, in no particular order, then walks them; the  *)
(* walk only pauses while an alert is being delivered.  The rows it still  *)
(* has before it are kept by device.                                       *)
(*                                                                         *)
(* Time is counted in periods: a heartbeat                                 *)
(* starts a device's next period, and the period turns quiet 48 hours on.  *)
(* An alert mark holds the clock, here as the periods the devices were in. *)
(***************************************************************************)
EXTENDS Naturals, FiniteSets

CONSTANTS
  Watched,      \* devices
  Pages,        \* operators' requests; the sweep is one more lister
  Scopes,       \* the devices a tenant filter leaves
  Sweep,        \* the sweep
  Unmarked,
  MaxPeriod,    \* bound: heartbeats of each device
  MaxFaults     \* bound: alerts the channel rejects, restarts of the process

Listers == Pages \cup {Sweep}

ASSUME HealthAssumption ==
  /\ Sweep \notin Pages /\ Unmarked \notin Nat /\ IsFiniteSet(Pages)
  /\ MaxPeriod \in [Watched -> Nat] /\ MaxFaults \in Nat /\ Scopes \subseteq SUBSET Watched

VARIABLES
  contact,   \* devices: active, the period, is the period quiet
  lastAlertedAt,
  lister,    \* the list() in each slot
  alerts,    \* history: alerts this process delivered for the current period
  unmarks,   \* history: marks of silent devices a walk cleared, likewise
  faults     \* counts towards MaxFaults

healthVars == <<contact, lastAlertedAt, lister, alerts, unmarks, faults>>

NoRows == [d \in {} |-> 0]
NoList == [op |-> "none", scope |-> Watched, rows |-> NoRows, now |-> NoRows, alerting |-> Unmarked]

HealthInit ==
  /\ contact = [d \in Watched |-> [active |-> TRUE, period |-> 0, quiet |-> FALSE]]
  /\ lastAlertedAt = [d \in Watched |-> Unmarked]
  /\ lister = [l \in Listers |-> NoList]
  /\ alerts = [d \in Watched |-> 0]
  /\ unmarks = alerts
  /\ faults = 0

-----------------------------------------------------------------------------
\* The devices

heartbeat(d) ==
  /\ contact[d].active
  /\ contact[d].period < MaxPeriod[d]
  /\ contact' = [contact EXCEPT ![d] = [active |-> TRUE, period |-> @.period + 1, quiet |-> FALSE]]
  /\ alerts' = [alerts EXCEPT ![d] = 0]
  /\ unmarks' = [unmarks EXCEPT ![d] = 0]
  /\ UNCHANGED <<lastAlertedAt, lister, faults>>

Revoke(d) ==
  /\ contact[d].active
  /\ contact' = [contact EXCEPT ![d].active = FALSE]
  /\ UNCHANGED <<lastAlertedAt, lister, alerts, unmarks, faults>>

\* 48 hours: longer than any list() lives, and long enough for a sweep to have
\* cleared a mark set after the last heartbeat.
GoQuiet(d) ==
  /\ contact[d].active /\ ~contact[d].quiet
  /\ lastAlertedAt[d] # Unmarked => lastAlertedAt[d] < contact[d].period
  /\ \A l \in Listers : d \in DOMAIN lister[l].rows => lister[l].rows[d].period = contact[d].period
  /\ contact' = [contact EXCEPT ![d].quiet = TRUE]
  /\ UNCHANGED <<lastAlertedAt, lister, alerts, unmarks, faults>>

-----------------------------------------------------------------------------
\* list()

\* The query: active devices of the scope.
Start(l, scope) ==
  /\ lister[l].op = "none"
  /\ lister' = [lister EXCEPT ![l] =
       [NoList EXCEPT !.op = "read", !.scope = scope,
          !.rows = [d \in {e \in scope : contact[e].active} |->
                      [period |-> contact[d].period, quiet |-> contact[d].quiet]]]]
  /\ UNCHANGED <<contact, lastAlertedAt, alerts, unmarks, faults>>

\* The timer never starts a second sweep; a page may have a tenant filter.
SweepStart == Start(Sweep, Watched)
PageStart(l, scope) == l # Sweep /\ Start(l, scope)

\* classifySeverity at the walk's clock.
silent(d, row, now) == row.quiet \/ (now[d].period = row.period /\ now[d].quiet)

\* Does the row need an alert: silent, and not marked since its last contact.
Mut_Due(d, row, now, marks) == silent(d, row, now) /\ marks[d] = Unmarked
Due(d, row, now, marks) ==
  /\ silent(d, row, now)
  /\ marks[d] = Unmarked \/ row.period > marks[d]

\* The marks after the walk went by these devices: a healthy one loses its mark.
Passed(ds, rows, now, marks) ==
  [d \in Watched |-> IF d \in ds /\ ~silent(d, rows[d], now) THEN Unmarked ELSE marks[d]]

\* An alert is marked before it is sent.
Mut_Reserve(marks, d, now) == marks
Reserve(marks, d, now) == [marks EXCEPT ![d] = now[d].period]

\* The walk goes by some rows without an alert, up to a device that needs one,
\* or by all of them.
Walk(l, rows, now, marks) ==
  LET due == {d \in DOMAIN rows : Due(d, rows[d], now, marks)} IN
  /\ \/ /\ due = {}
        /\ lastAlertedAt' = Passed(DOMAIN rows, rows, now, marks)
        /\ lister' = [lister EXCEPT ![l] = NoList]
     \/ \E d \in due, gone \in SUBSET (DOMAIN rows \ due) :
          /\ lastAlertedAt' = Reserve(Passed(gone, rows, now, marks), d, now)
          /\ lister' = [lister EXCEPT ![l] =
               [op |-> "notify", scope |-> @.scope, rows |-> [e \in DOMAIN rows \ gone |-> rows[e]],
                now |-> now, alerting |-> d]]
  /\ unmarks' = [d \in Watched |->
       unmarks[d] + IF /\ contact[d].active /\ contact[d].quiet
                       /\ lastAlertedAt[d] # Unmarked /\ lastAlertedAt'[d] = Unmarked
                    THEN 1 ELSE 0]

\* The marks an unfiltered list drops: devices that are not active any more.
Forgotten(l) == IF lister[l].scope = Watched THEN Watched \ DOMAIN lister[l].rows ELSE {}

\* The query answers: clear the marks of devices that are gone, take the
\* clock, walk.
WalkBegin(l) ==
  LET kept == [d \in Watched |-> IF d \in Forgotten(l) THEN Unmarked ELSE lastAlertedAt[d]]
  IN
  /\ lister[l].op = "read"
  /\ Walk(l, lister[l].rows, contact, kept)
  /\ UNCHANGED <<contact, alerts, faults>>

\* notifySilentDevice() resolves, delivered or logged; the walk goes on.
Notified(l) ==
  LET d == lister[l].alerting
      rows == lister[l].rows
  IN
  /\ lister[l].op = "notify"
  /\ Walk(l, [e \in DOMAIN rows \ {d} |-> rows[e]], lister[l].now, lastAlertedAt)
  /\ alerts' = IF contact[d].active /\ contact[d].period = rows[d].period
               THEN [alerts EXCEPT ![d] = @ + 1] ELSE alerts
  /\ UNCHANGED <<contact, faults>>

\* It rejects: the mark is taken back and the list fails.
NotifyFails(l) ==
  /\ lister[l].op = "notify"
  /\ faults < MaxFaults
  /\ faults' = faults + 1
  /\ lastAlertedAt' = [lastAlertedAt EXCEPT ![lister[l].alerting] = Unmarked]
  /\ lister' = [lister EXCEPT ![l] = NoList]
  /\ UNCHANGED <<contact, alerts, unmarks>>

\* A new process starts with an empty map.
Restart ==
  /\ faults < MaxFaults
  /\ faults' = faults + 1
  /\ lastAlertedAt' = [d \in Watched |-> Unmarked]
  /\ lister' = [l \in Listers |-> NoList]
  /\ alerts' = [d \in Watched |-> 0]
  /\ unmarks' = [d \in Watched |-> 0]
  /\ UNCHANGED contact

HealthNext ==
  \/ \E d \in Watched : heartbeat(d) \/ Revoke(d) \/ GoQuiet(d)
  \/ SweepStart
  \/ \E l \in Pages, scope \in Scopes : PageStart(l, scope)
  \/ \E l \in Listers : WalkBegin(l) \/ Notified(l) \/ NotifyFails(l)
  \/ Restart

\* The timer keeps firing, queries answer, and a delivery ends: the webhook
\* call gives up after five seconds.
HealthFairness ==
  /\ WF_healthVars(SweepStart)
  /\ \A l \in Listers : WF_healthVars(WalkBegin(l) \/ Notified(l))

HealthSpec == HealthInit /\ [][HealthNext]_healthVars /\ HealthFairness

-----------------------------------------------------------------------------
\* While a device stays silent this process reports it once, however many
\* sweeps and page reads overlap and whatever snapshots they hold.  Each
\* further report takes a walk that judged the device before it fell silent
\* and cleared its mark afterwards (list, lastAlertedAt).
ReportedOncePerSilence == \A d \in Watched : alerts[d] <= 1 + unmarks[d]

\* "Simultaneous page reads and sweeps cannot both send the same alert" (list).
NeverReportedTwice == \A d \in Watched : alerts[d] <= 1

\* A device that falls silent is reported, unless it is heard from or removed
\* first, although lists overlap, deliveries fail and the process restarts
\* (sweep).
SilenceIsReported ==
  \A d \in Watched :
    (contact[d].active /\ contact[d].quiet /\ alerts[d] = 0)
      ~> (alerts[d] > 0 \/ ~contact[d].active \/ ~contact[d].quiet)
=============================================================================
