------------------------------- MODULE MCFront -------------------------------
(***************************************************************************)
(* The parts of the till side that share no state, checked side by side: a *)
(* behaviour is a behaviour of one of them (part), the others rest in one  *)
(* of their initial states.  Every invariant is about one part.            *)
(***************************************************************************)
EXTENDS MCMoney, CashDrawer, AttemptLimiter, PosSessions, DeviceFleet, KeysetPages,
  SalesFigures, FloorPlan, TimeClock, TLC

VARIABLE part

\* CashDrawer: two shifts, two cash bills, three notes of which two are older
\* than the tender column.
CONSTANTS b1, b2
TwoShifts == 1..2
TwoBills == b1 :> 3 @@ b2 :> 2
ThreeNotes == 1..3
NoteBills == <<b1, b1, b2>>
NoteTotals == <<2, 2, 1>>
OldNotes == <<1, 2>>

\* AttemptLimiter: a till's own counter, and a guest's under two counters.
CONSTANTS dev, ip, shared, pos1, guest
TheRules == [c \in {pos1, guest} |-> IF c = pos1 THEN <<dev>> ELSE <<ip, shared>>]
TheMax == [k \in {dev, ip, shared} |-> IF k = shared THEN 2 ELSE 1]

\* PosSessions: one till, two outlets.
CONSTANTS o1, o2
TheTills == pos1 :> o1

\* DeviceFleet: a till with a printer and a terminal, and a code for another printer.
CONSTANTS c1, op1, op2
TheCodes == [c \in {c1} |-> "printer"]
FiveIds == 1..5
TheEnrolled == <<"pos", "printer", "terminal">>
TheLetters == <<[op |-> op1, recoverable |-> TRUE], [op |-> op1, recoverable |-> TRUE],
                [op |-> op2, recoverable |-> FALSE]>>

\* SalesFigures: two outlets in different time zones, a combo of two with two picks each, a dish.
TheOffsets == o1 :> 0 @@ o2 :> 1
TheOrder == [lines |-> <<[qty |-> 2, unit |-> 2, parent |-> 0], [qty |-> 4, unit |-> 1, parent |-> 1],
                         [qty |-> 1, unit |-> 2, parent |-> 0]>>,
             tax |-> 1, discount |-> 3, roundOff |-> 1]
OneOrder == {TheOrder}

\* FloorPlan: two boxes that share a cell.
TheSpots == {[x |-> 0, y |-> 0, width |-> 2, height |-> 2], [x |-> 1, y |-> 1, width |-> 1, height |-> 2]}

frontVars == <<part, taxVars, drawerVars, limiterVars, sessionVars, fleetVars, pageVars, salesVars,
               planVars, clockVars>>

FrontInit ==
  /\ part \in {"money", "drawer", "limiter", "sessions", "fleet", "pages", "sales", "plan", "clock"}
  /\ TaxInit /\ DrawerInit /\ LimiterInit /\ SessionsInit /\ FleetInit /\ PagesInit /\ SalesInit
  /\ PlanInit /\ ClockInit
  /\ part = "money" \/ profile = CHOOSE p \in Profiles : p.country = "AU" /\ ~p.gstRegistered
  /\ part = "drawer" \/ shift[1].at = 0
  /\ part = "sessions" \/ ~staff.hasPin
  /\ part = "plan" \/ ~stations
  /\ part = "pages" \/ shown = listPayments

FrontNext ==
  /\ UNCHANGED part
  /\ IF part = "money" THEN TaxNext ELSE UNCHANGED taxVars
  /\ IF part = "drawer" THEN DrawerNext ELSE UNCHANGED drawerVars
  /\ IF part = "limiter" THEN LimiterNext ELSE UNCHANGED limiterVars
  /\ IF part = "sessions" THEN SessionsNext ELSE UNCHANGED sessionVars
  /\ IF part = "fleet" THEN FleetNext ELSE UNCHANGED fleetVars
  /\ IF part = "pages" THEN PagesNext ELSE UNCHANGED pageVars
  /\ IF part = "sales" THEN SalesNext ELSE UNCHANGED salesVars
  /\ IF part = "plan" THEN PlanNext ELSE UNCHANGED planVars
  /\ IF part = "clock" THEN ClockNext ELSE UNCHANGED clockVars

FrontSpec == FrontInit /\ [][FrontNext]_frontVars
=============================================================================
