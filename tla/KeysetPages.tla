----------------------------- MODULE KeysetPages -----------------------------
(***************************************************************************)
(* Walking a list page by page while it changes: the payments of a report  *)
(* (admin/reports), the dead letters (ops/dlq), the device fleet           *)
(* (ops/devices) and the tenant directory (ops/tenants).  All four cut     *)
(* pages with a keyset cursor, the sort key and id of the last row shown,  *)
(* and each page is a request of its own: rows arrive, leave and, where    *)
(* the key can be edited, move between two pages.                          *)
(*                                                                         *)
(* SortKeys stand for the sort column.  Time columns hold whole ms         *)
(* (they are written from a JavaScript Date), so a cursor's toISOString()  *)
(* loses nothing.  A new row may carry an older key than rows already      *)
(* listed: its stamp is taken before its transaction commits.              *)
(***************************************************************************)
EXTENDS Naturals, FiniteSets

CONSTANTS
  Ids,       \* row ids, in the order the database compares them
  SortKeys,  \* values of the sort column
  Limit,     \* rows of a page
  MaxMoves   \* bound: edits of a sort column

ASSUME KeysetAssumption ==
  /\ Ids \subseteq Nat \ {0} /\ IsFiniteSet(Ids) /\ SortKeys \subseteq Nat
  /\ Limit \in Nat \ {0} /\ MaxMoves \in Nat

VARIABLES
  shown,   \* the list being walked
  entry,   \* per id: absent, listed or gone, and its key
  moves,   \* counts towards MaxMoves
  walk     \* the reader: its cursor, how often it was shown each id, and history

pageVars == <<shown, entry, moves, walk>>

(* What each endpoint sorts by, and what can happen to its rows. *)

\* finalizedAt desc; a finalized bill stays finalized.
listPayments == [table |-> "bills", order |-> "desc", leaves |-> FALSE, moves |-> FALSE]
\* createdAt desc; a replayed letter is resolved and leaves.
listDeadLetters == [table |-> "sync_dead_letters", order |-> "desc", leaves |-> TRUE, moves |-> FALSE]
\* enrolledAt desc; a revoked device leaves the list of the active ones.
listDevices == [table |-> "devices", order |-> "desc", leaves |-> TRUE, moves |-> FALSE]
\* by name, asc unless asked otherwise; tenants are renamed and deleted.
listTenants == [table |-> "tenants", order |-> "asc", leaves |-> TRUE, moves |-> TRUE]

Endpoints == {listPayments, listDeadLetters, listDevices, listTenants}

NoCursor == [key |-> 0, id |-> 0]

PagesInit ==
  /\ shown \in Endpoints
  /\ entry = [i \in Ids |-> [st |-> "absent", key |-> 0]]
  /\ moves = 0
  /\ walk = [st |-> "idle", cursor |-> NoCursor, seen |-> [i \in Ids |-> 0], stayed |-> {}, moved |-> {}]

Listed == {i \in Ids : entry[i].st = "listed"}

-----------------------------------------------------------------------------
\* The table changes

Arrive(i, k) ==
  /\ entry[i].st = "absent"
  /\ entry' = [entry EXCEPT ![i] = [st |-> "listed", key |-> k]]
  /\ UNCHANGED <<shown, moves, walk>>

Leave(i) ==
  /\ shown.leaves
  /\ i \in Listed
  /\ entry' = [entry EXCEPT ![i].st = "gone"]
  /\ walk' = [walk EXCEPT !.stayed = @ \ {i}]
  /\ UNCHANGED <<shown, moves>>

\* updateBasics() with a new name.
Move(i, k) ==
  /\ shown.moves /\ moves < MaxMoves
  /\ i \in Listed /\ entry[i].key # k
  /\ entry' = [entry EXCEPT ![i].key = k]
  /\ moves' = moves + 1
  /\ walk' = [walk EXCEPT !.stayed = @ \ {i}, !.moved = @ \cup {i}]
  /\ UNCHANGED shown

-----------------------------------------------------------------------------
\* A page

Lt(a, b) == a.key < b.key \/ (a.key = b.key /\ a.id < b.id)
At(i) == [key |-> entry[i].key, id |-> i]

\* ORDER BY key, id, both in the list's direction.
Before(order, a, b) == IF order = "desc" THEN Lt(b, a) ELSE Lt(a, b)
Precedes(a, b) == Before(shown.order, a, b)

Mut_Beyond(cursor, i) ==
  cursor = NoCursor \/ IF shown.order = "desc" THEN entry[i].key < cursor.key ELSE entry[i].key > cursor.key

\* The cursor's OR: a key past the cursor's, or the same key and an id past its id.
Beyond(cursor, i) == cursor = NoCursor \/ Precedes(cursor, At(i))

\* The first n of some rows, and the row they end with.
FirstOf(rows, n) ==
  {page \in SUBSET rows : Cardinality(page) = n /\ \A i \in page, j \in rows \ page : Precedes(At(i), At(j))}
LastOn(page) == {i \in page : \A j \in page \ {i} : Precedes(At(j), At(i))}

\* take: limit + 1, of which limit are shown; one row more means another page.
PageRead ==
  LET rows == {i \in Listed : Beyond(walk.cursor, i)}
      more == Cardinality(rows) > Limit
  IN  /\ walk.st # "done"
      /\ \E page \in FirstOf(rows, IF more THEN Limit ELSE Cardinality(rows)) :
           \E cursor \in IF more THEN {At(i) : i \in LastOn(page)} ELSE {NoCursor} :
             walk' = [st |-> IF more THEN "walking" ELSE "done",
                      cursor |-> cursor,
                      seen |-> [i \in Ids |-> IF i \in page THEN walk.seen[i] + 1 ELSE walk.seen[i]],
                      stayed |-> IF walk.st = "idle" THEN Listed ELSE walk.stayed,
                      moved |-> IF walk.st = "idle" THEN {} ELSE walk.moved]
      /\ UNCHANGED <<shown, entry, moves>>

PagesNext ==
  \/ \E i \in Ids, k \in SortKeys : Arrive(i, k) \/ Move(i, k)
  \/ \E i \in Ids : Leave(i)
  \/ PageRead

PagesSpec == PagesInit /\ [][PagesNext]_pageVars

-----------------------------------------------------------------------------
\* A reader who follows nextCursor to the end has been shown every row that
\* was in the list from the first page to the last, whatever arrived, left or
\* was renamed meanwhile, and no row twice unless it was renamed on the way.
PagesMissNothing ==
  /\ walk.st = "done" => \A i \in walk.stayed : walk.seen[i] > 0
  /\ \A i \in Ids : walk.seen[i] > 1 => i \in walk.moved
=============================================================================
