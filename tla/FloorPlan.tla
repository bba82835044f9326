------------------------------ MODULE FloorPlan ------------------------------
(***************************************************************************)
(* The floors and tables of one outlet as its owner draws them             *)
(* (admin/floor-plan), and the starter setup that lays out a first floor   *)
(* (admin/outlets/starter-setup).  Every handler is one transaction that   *)
(* checks, without a lock, and then writes; the checklist's floor_plan     *)
(* step is ticked after it, in a transaction of its own.                   *)
(*                                                                         *)
(* A table's bounds are the grid units of its row; its label, shape and    *)
(* seats are left out, and so are printers.  The starter's stations are    *)
(* one name: all of them are made, or found, together.                     *)
(***************************************************************************)
EXTENDS Naturals, FiniteSets

CONSTANTS
  Planners,       \* slots for the owner's requests in flight
  FloorIds,
  TableIds,       \* in the order the rows are made
  Spots,          \* bounds the owner draws
  StarterFloor,   \* the floor the starter setup makes, one of FloorIds
  StarterTables,  \* the tables it makes, the first of TableIds
  Columns, Size, Gap,   \* TABLE_COLUMNS, TABLE_SIZE, TABLE_GAP
  MaxPlacings     \* bound: tables placed or moved

ASSUME FloorPlanAssumption ==
  /\ StarterFloor \in FloorIds /\ TableIds # {} /\ Spots # {}
  /\ TableIds \subseteq Nat \ {0} /\ StarterTables \subseteq TableIds
  /\ StarterTables = 1..Cardinality(StarterTables)
  /\ Columns \in Nat \ {0} /\ Size \in Nat \ {0} /\ Gap \in Nat /\ MaxPlacings \in Nat
  /\ Spots \subseteq [x : Nat, y : Nat, width : Nat \ {0}, height : Nat \ {0}]

VARIABLES
  floor,     \* floors: "none", "live" or "gone"
  table,     \* dining_tables; `by', `saw' and `placed' are history
  sat,       \* tables a table_sessions row names
  stations,  \* has the starter's station
  ticked,    \* the checklist's floor_plan step
  planner,   \* the request in each slot
  placings,  \* tables placed or moved so far
  cutOff     \* history: a request was lost between its commit and the tick

planVars == <<floor, table, sat, stations, ticked, planner, placings, cutOff>>

NoTable == [st |-> "none", floor |-> StarterFloor, at |-> CHOOSE b \in Spots : TRUE,
            by |-> "owner", saw |-> 0, placed |-> 0]
NoPlan == [op |-> "idle", floor |-> StarterFloor, table |-> CHOOSE t \in TableIds : TRUE,
           at |-> CHOOSE b \in Spots : TRUE, first |-> FALSE, saw |-> 0]

\* An outlet before its starter setup, which provision() applies to a new one,
\* or one whose floors were all removed since.
PlanInit ==
  /\ floor = [f \in FloorIds |-> "none"]
  /\ table = [t \in TableIds |-> NoTable]
  /\ sat = {} /\ stations \in BOOLEAN /\ ticked = FALSE
  /\ planner = [k \in Planners |-> NoPlan]
  /\ placings = 0 /\ cutOff = FALSE

TablesOf(f) == {t \in TableIds : table[t].st = "live" /\ table[t].floor = f}

Take(k, p) == planner[k].op = "idle" /\ planner' = [planner EXCEPT ![k] = p]
Free(k) == planner' = [planner EXCEPT ![k] = NoPlan]

\* The request is refused or loses its connection: what it had not committed
\* is not there.
Drop(k) ==
  /\ planner[k].op # "idle"
  /\ Free(k)
  /\ cutOff' = (cutOff \/ planner[k].op = "tick")
  /\ UNCHANGED <<floor, table, sat, stations, ticked, placings>>

-----------------------------------------------------------------------------
\* Floors

createFloor(f) ==
  /\ floor[f] = "none" /\ f # StarterFloor
  /\ floor' = [floor EXCEPT ![f] = "live"]
  /\ UNCHANGED <<table, sat, stations, ticked, planner, placings, cutOff>>

DeleteFloorRead(k, f) ==
  /\ floor[f] = "live"
  /\ TablesOf(f) = {}
  /\ Take(k, [NoPlan EXCEPT !.op = "deleteFloor", !.floor = f])
  /\ UNCHANGED <<floor, table, sat, stations, ticked, placings, cutOff>>

\* The foreign key of dining_tables refuses a floor that got a table meanwhile.
DeleteFloorWrite(k) ==
  LET f == planner[k].floor IN
  /\ planner[k].op = "deleteFloor"
  /\ floor[f] = "live" /\ TablesOf(f) = {}
  /\ floor' = [floor EXCEPT ![f] = "gone"]
  /\ Free(k)
  /\ UNCHANGED <<table, sat, stations, ticked, placings, cutOff>>

-----------------------------------------------------------------------------
\* Tables

\* A slip: the boxes' heights are forgotten.
Mut_boundsOverlap(a, b) ==
  a.x < b.x + b.width /\ a.x + a.width > b.x /\ a.y = b.y

\* Strict: tables may share an edge.
boundsOverlap(a, b) ==
  /\ a.x < b.x + b.width /\ a.x + a.width > b.x
  /\ a.y < b.y + b.height /\ a.y + a.height > b.y

assertNoOverlap(f, b, exclude) == \A t \in TablesOf(f) \ exclude : ~ boundsOverlap(b, table[t].at)

CreateTableRead(k, f, b) ==
  /\ floor[f] = "live"
  /\ assertNoOverlap(f, b, {})
  /\ Take(k, [NoPlan EXCEPT !.op = "createTable", !.floor = f, !.at = b, !.saw = placings,
                            !.first = \A t \in TableIds : table[t].st # "live"])
  /\ UNCHANGED <<floor, table, sat, stations, ticked, placings, cutOff>>

Row(p, by) == [st |-> "live", floor |-> p.floor, at |-> p.at, by |-> by, saw |-> p.saw, placed |-> placings + 1]

\* The outlet's first table ticks the step afterwards.
CreateTableWrite(k, t) ==
  LET p == planner[k] IN
  /\ p.op = "createTable" /\ placings < MaxPlacings
  /\ floor[p.floor] = "live"
  /\ table[t].st = "none" /\ t \notin StarterTables
  /\ \A u \in TableIds \ StarterTables : u < t => table[u].st # "none"
  /\ table' = [table EXCEPT ![t] = Row(p, "owner")]
  /\ placings' = placings + 1
  /\ planner' = [planner EXCEPT ![k] = IF p.first THEN [NoPlan EXCEPT !.op = "tick"] ELSE NoPlan]
  /\ UNCHANGED <<floor, sat, stations, ticked, cutOff>>

updateStep(k) ==
  /\ planner[k].op = "tick"
  /\ ticked' = TRUE
  /\ Free(k)
  /\ UNCHANGED <<floor, table, sat, stations, placings, cutOff>>

\* Bounds that are not in the request are those of the row as read.
UpdateTableRead(k, t, b) ==
  /\ table[t].st = "live"
  /\ assertNoOverlap(table[t].floor, b, {t})
  /\ Take(k, [NoPlan EXCEPT !.op = "updateTable", !.floor = table[t].floor, !.table = t, !.at = b, !.saw = placings])
  /\ UNCHANGED <<floor, table, sat, stations, ticked, placings, cutOff>>

UpdateTableWrite(k) ==
  LET p == planner[k] IN
  /\ p.op = "updateTable" /\ placings < MaxPlacings
  /\ table[p.table].st = "live"
  /\ table' = [table EXCEPT ![p.table] = Row(p, @.by)]
  /\ placings' = placings + 1
  /\ Free(k)
  /\ UNCHANGED <<floor, sat, stations, ticked, cutOff>>

\* A guest's session keeps its table for good.
Seat(t) ==
  /\ table[t].st = "live"
  /\ sat' = sat \cup {t}
  /\ UNCHANGED <<floor, table, stations, ticked, planner, placings, cutOff>>

deleteTable(t) ==
  /\ table[t].st = "live" /\ t \notin sat
  /\ table' = [table EXCEPT ![t].st = "gone"]
  /\ UNCHANGED <<floor, sat, stations, ticked, planner, placings, cutOff>>

-----------------------------------------------------------------------------
\* applyStarterSetup()

StarterAt(i) == [x |-> (i % Columns) * (Size + Gap), y |-> (i \div Columns) * (Size + Gap),
                 width |-> Size, height |-> Size]

\* It looks for stations, and for any floor.
StarterRead(k) ==
  /\ Take(k, [NoPlan EXCEPT !.op = IF stations THEN "starterFloor" ELSE "starterAll",
                            !.first = \A f \in FloorIds : floor[f] # "live", !.saw = placings])
  /\ UNCHANGED <<floor, table, sat, stations, ticked, placings, cutOff>>

\* A station that came to be meanwhile makes the unique index refuse it all.
\* Bound: one starter floor; two runs that both find the stations and no floor
\* would lay out two.
StarterWrite(k) ==
  LET p == planner[k]
      lays == p.first
      laid(t) == Row([p EXCEPT !.floor = StarterFloor, !.at = StarterAt(t - 1)], "starter")
  IN  /\ p.op \in {"starterFloor", "starterAll"}
      /\ p.op = "starterAll" => ~ stations
      /\ stations' = TRUE
      /\ lays => floor[StarterFloor] = "none" /\ placings < MaxPlacings
      /\ floor' = IF lays THEN [floor EXCEPT ![StarterFloor] = "live"] ELSE floor
      /\ table' = [t \in TableIds |-> IF lays /\ t \in StarterTables THEN laid(t) ELSE table[t]]
      /\ placings' = IF lays THEN placings + 1 ELSE placings
      /\ Free(k)
      /\ UNCHANGED <<sat, ticked, cutOff>>

PlanNext ==
  \/ \E f \in FloorIds : createFloor(f)
  \/ \E k \in Planners :
       \/ \E f \in FloorIds : DeleteFloorRead(k, f) \/ \E b \in Spots : CreateTableRead(k, f, b)
       \/ \E t \in TableIds : CreateTableWrite(k, t) \/ \E b \in Spots : UpdateTableRead(k, t, b)
       \/ DeleteFloorWrite(k) \/ UpdateTableWrite(k) \/ updateStep(k)
       \/ StarterRead(k) \/ StarterWrite(k) \/ Drop(k)
  \/ \E t \in TableIds : Seat(t) \/ deleteTable(t)

PlanSpec == PlanInit /\ [][PlanNext]_planVars

-----------------------------------------------------------------------------
\* The grid cells a table covers, and whether two tables share one.
Cells(b) == (b.x .. (b.x + b.width - 1)) \X (b.y .. (b.y + b.height - 1))
Collide(t, u) == t # u /\ table[t].floor = table[u].floor /\ Cells(table[t].at) \cap Cells(table[u].at) # {}

\* The header of floor-plan.service.ts, "REJECT with 409": two tables of a
\* floor share a grid cell only if the later one's request had looked before
\* the earlier one was put there.  Whatever is deleted meanwhile, a table
\* stands on a floor that exists, and a table guests sat at stays.  The first
\* table an owner draws ticks the checklist, unless its request was cut off or
\* a starter layout was there.
TablesApart ==
  LET live == {t \in TableIds : table[t].st = "live"} IN
  /\ \A t, u \in live : Collide(t, u) /\ table[t].placed <= table[u].placed =>
       table[u].saw < table[t].placed /\ table[u].placed # table[t].placed
  /\ \A t \in live : floor[table[t].floor] = "live"
  /\ sat \subseteq live
  /\ (\E t \in TableIds : table[t].placed > 0) /\ (\A t \in TableIds : table[t].by = "owner") =>
       ticked \/ cutOff \/ \E k \in Planners : planner[k].op = "tick"
=============================================================================
