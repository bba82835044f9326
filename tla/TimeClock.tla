------------------------------ MODULE TimeClock ------------------------------
(***************************************************************************)
(* The time clock: a sign-in at a till clocks a person in unless they are  *)
(* in already today (pos/clock/clock.util), clocking out is a request of   *)
(* its own (clock.service), and the attendance of an outlet is read off    *)
(* the same rows (attendance.service).  Both writers read a person's       *)
(* latest event, at any outlet, without a lock.  A day is an outlet's own. *)
(* Every stamp is an instant of its own: two events of one person in one   *)
(* millisecond are left out.                                               *)
(***************************************************************************)
EXTENDS Naturals, FiniteSets, Sequences

CONSTANTS
  People,
  Sites,         \* outlets
  Ahead,         \* per outlet: its time zone, in hours ahead of the server
  HoursADay,
  LookbackHours,
  Clockings,     \* slots for requests in flight
  MaxTime,       \* bound
  MaxEvents      \* bound: clock events

ASSUME TimeClockAssumption ==
  /\ HoursADay \in Nat \ {0} /\ LookbackHours = 2 * HoursADay
  /\ Ahead \in [Sites -> 0..(HoursADay - 1)] /\ MaxTime \in Nat /\ MaxEvents \in Nat

VARIABLES
  time,
  events,    \* clock_events in the order they commit; `saw' is history
  clocking   \* the request in each slot

clockVars == <<time, events, clocking>>

NoClocking == [op |-> "idle", who |-> CHOOSE p \in People : TRUE, site |-> CHOOSE s \in Sites : TRUE, at |-> 0, saw |-> 0]

ClockInit ==
  /\ time = HoursADay
  /\ events = << >>
  /\ clocking = [k \in Clockings |-> NoClocking]

ClockTicks ==
  /\ time < MaxTime
  /\ time' = time + 1
  /\ UNCHANGED <<events, clocking>>

\* A slip: the day is the server's.
Mut_localDate(t, s) == t \div HoursADay
localDate(t, s) == (t + Ahead[s]) \div HoursADay

EventsOf(p) == {i \in DOMAIN events : events[i].who = p}

\* orderBy occurredAt desc, first.
LatestOf(S) == {i \in S : \A j \in S : events[j].at <= events[i].at}

\* The request takes the present instant with it.
Stamped(k, type, p, s) ==
  /\ time < MaxTime
  /\ time' = time + 1
  /\ clocking[k].op = "idle"
  /\ clocking' = [clocking EXCEPT ![k] = [op |-> type, who |-> p, site |-> s, at |-> time, saw |-> Len(events)]]

-----------------------------------------------------------------------------
\* recordClockInIfNeeded(), which takes the time after its read.
SignInRead(k, p, s) ==
  /\ \A i \in LatestOf(EventsOf(p)) :
       ~ (events[i].type = "clock_in" /\ localDate(events[i].at, s) = localDate(time, s))
  /\ Stamped(k, "clock_in", p, s)
  /\ UNCHANGED events

\* clockOut(): at the outlet of the session, whichever the clock-in was at.
ClockOutRead(k, p, s) ==
  /\ \E i \in LatestOf(EventsOf(p)) : events[i].type = "clock_in"
  /\ Stamped(k, "clock_out", p, s)
  /\ UNCHANGED events

ClockWrite(k) ==
  LET c == clocking[k] IN
  /\ c.op # "idle" /\ Len(events) < MaxEvents
  /\ events' = Append(events, [type |-> c.op, who |-> c.who, site |-> c.site, at |-> c.at, saw |-> c.saw])
  /\ clocking' = [clocking EXCEPT ![k] = NoClocking]
  /\ UNCHANGED time

ClockNext ==
  \/ ClockTicks
  \/ \E k \in Clockings : ClockWrite(k) \/ \E p \in People, s \in Sites : SignInRead(k, p, s) \/ ClockOutRead(k, p, s)

ClockSpec == ClockInit /\ [][ClockNext]_clockVars

-----------------------------------------------------------------------------
\* getAttendance(): newest first, each person's first row counts.
getAttendance(s) ==
  LET recent == {i \in DOMAIN events : events[i].site = s /\ events[i].at + LookbackHours >= time}
  IN  {p \in People : \E i \in LatestOf(recent \cap EventsOf(p)) :
         events[i].type = "clock_in" /\ localDate(events[i].at, s) = localDate(time, s)}

\* The calendar day of an outlet.
Today(t, s) == (t + Ahead[s]) \div HoursADay

\* An event whose request read before another of the person committed.
Overlapped(i) == \E n \in EventsOf(events[i].who) : n < i /\ events[i].saw < n

\* CAP-1's "once per day": a person's second clock-in of an outlet's day with no
\* clock-out between, and a second clock-out with no clock-in between, come only
\* from requests that overlap (double taps).  CAP-11: an outlet's attendance is
\* whoever clocked in there today and did not clock out there since.
ClockedOnce ==
  /\ \A i, j \in DOMAIN events :
       /\ i < j /\ events[i].who = events[j].who /\ events[i].type = events[j].type
       /\ \A n \in (i + 1)..(j - 1) : events[n].who # events[i].who
       /\ events[i].type = "clock_in" => Today(events[i].at, events[j].site) = Today(events[j].at, events[j].site)
       => Overlapped(i) \/ Overlapped(j)
  /\ \A s \in Sites : getAttendance(s) =
       {p \in People : \E i \in EventsOf(p) :
          /\ events[i].site = s /\ events[i].type = "clock_in" /\ Today(events[i].at, s) = Today(time, s)
          /\ \A o \in EventsOf(p) : events[o].site = s /\ events[o].type = "clock_out" => events[o].at < events[i].at}
=============================================================================
