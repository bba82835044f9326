----------------------------- MODULE MenuImport -----------------------------
(***************************************************************************)
(* How dishes get onto a tenant's menu: an uploaded file becomes a draft   *)
(* the owner edits and commits (admin/menu-import), products are imported  *)
(* from the platform's directory (ops/catalog), and items and categories   *)
(* are edited one by one (admin/menu).  The two imports share              *)
(* commitItems(), which finds a category by its name in any case or        *)
(* creates it.                                                             *)
(*                                                                         *)
(* Requests of two tabs run in slots and under READ COMMITTED: a commit    *)
(* checks the draft, reads the categories again and writes, and other      *)
(* requests commit in between.  The database keeps two rules: live items   *)
(* of a category have different names (a partial unique index; names are   *)
(* compared exactly), and an item's category exists (a foreign key).       *)
(***************************************************************************)
EXTENDS Naturals, Sequences, SequencesExt, FiniteSets, FiniteSetsExt

CONSTANTS
  Tabs,
  Named,          \* category and item names as written
  Lower,          \* name -> the name in lower case
  Uploaded,       \* rows of the uploaded file: [name, category]
  Product,        \* a product of the directory: [name, category]
  MaxCategories,  \* bound: categories ever created
  MaxItems,       \* bound: items ever created
  MaxMenuEdits    \* bound: edits of the draft, of items and of categories

ASSUME MenuImportAssumption ==
  /\ Lower \in [Named -> Named]
  /\ Uploaded \in Seq([name : Named, category : Named])
  /\ Product \in [name : Named, category : Named]

VARIABLES
  sheet,     \* menu_import_drafts: its status and rows
  shelf,     \* menu_categories in the order they were created; `by' is history
  dish,      \* menu_items in the order they were created; `by' is history
  tab,       \* the request in each tab
  menuEdits, \* counts towards MaxMenuEdits
  commits    \* history: commits and imports so far

importVars == <<sheet, shelf, dish, tab, menuEdits, commits>>

IdleTab == [op |-> "idle", rows |-> << >>, found |-> {}]

ImportInit ==
  /\ sheet = [st |-> "none", rows |-> << >>]
  /\ shelf = << >> /\ dish = << >>
  /\ tab = [k \in Tabs |-> IdleTab]
  /\ menuEdits = 0 /\ commits = 0

Shelves == {c \in DOMAIN shelf : shelf[c].live}
Dishes == {i \in DOMAIN dish : dish[i].st = "live"}
MenuEdit == menuEdits < MaxMenuEdits /\ menuEdits' = menuEdits + 1

-----------------------------------------------------------------------------
\* Drafts

upload ==
  /\ sheet.st = "none"
  /\ sheet' = [st |-> "draft", rows |-> Uploaded]
  /\ UNCHANGED <<shelf, dish, tab, menuEdits, commits>>

\* The status is checked with the rows; the edit writes the whole payload.
PatchRead(k) ==
  /\ tab[k] = IdleTab
  /\ sheet.st = "draft"
  /\ tab' = [tab EXCEPT ![k] = [IdleTab EXCEPT !.op = "patch", !.rows = sheet.rows]]
  /\ UNCHANGED <<sheet, shelf, dish, menuEdits, commits>>

patch(k) ==
  /\ MenuEdit
  /\ tab[k].op = "patch"
  /\ \E i \in DOMAIN tab[k].rows :
       \/ \E n \in Named : sheet' = [sheet EXCEPT !.rows = [tab[k].rows EXCEPT ![i].name = n]]
       \/ sheet' = [sheet EXCEPT !.rows = RemoveAt(tab[k].rows, i)]
  /\ tab' = [tab EXCEPT ![k] = IdleTab]
  /\ UNCHANGED <<shelf, dish, commits>>

\* A row clashes with the menu, or with a row above it, in any case; of two
\* categories of one name the one listed last stands for it.
ShelfFor(cs, name) ==
  LET named == {c \in cs : Lower[shelf[c].name] = Lower[name]} IN IF named = {} THEN 0 ELSE Max(named)

findDuplicates(rows) ==
  {i \in DOMAIN rows :
     \/ \E d \in Dishes : /\ dish[d].category = ShelfFor(Shelves, rows[i].category)
                          /\ Lower[dish[d].name] = Lower[rows[i].name]
     \/ \E j \in 1..(i - 1) : /\ Lower[rows[j].name] = Lower[rows[i].name]
                              /\ Lower[rows[j].category] = Lower[rows[i].category]}

CommitCheck(k) ==
  /\ tab[k] = IdleTab
  /\ sheet.st = "draft"
  /\ sheet.rows # << >>
  /\ findDuplicates(sheet.rows) = {}
  /\ tab' = [tab EXCEPT ![k] = [IdleTab EXCEPT !.op = "commit", !.rows = sheet.rows]]
  /\ UNCHANGED <<sheet, shelf, dish, menuEdits, commits>>

\* importForTenant() does not look for duplicates first.
ImportCheck(k) ==
  /\ tab[k] = IdleTab
  /\ tab' = [tab EXCEPT ![k] = [IdleTab EXCEPT !.op = "import", !.rows = <<Product>>]]
  /\ UNCHANGED <<sheet, shelf, dish, menuEdits, commits>>

-----------------------------------------------------------------------------
\* commitItems()

\* It reads the categories once.
ReadShelves(k) ==
  /\ tab[k].op \in {"commit", "import"}
  /\ tab' = [tab EXCEPT ![k] =
       [op |-> IF @.op = "commit" THEN "commitWrite" ELSE "importWrite", rows |-> @.rows,
        found |-> {[id |-> c, name |-> shelf[c].name] : c \in Shelves}]]
  /\ UNCHANGED <<sheet, shelf, dish, menuEdits, commits>>

Mut_Known(found, shelves, n) == found

\* The categories a row may use, by the names they had when read: those found,
\* and those this commit created.
Known(found, shelves, n) ==
  found \cup {[id |-> c, name |-> shelves[c].name] : c \in {d \in DOMAIN shelves : shelves[d].by = n}}

PlaceRow(n, found, acc, r) ==
  LET named == {c.id : c \in {x \in Known(found, acc.shelf, n) : Lower[x.name] = Lower[r.category]}}
      shelves == IF named # {} THEN acc.shelf
                 ELSE Append(acc.shelf, [name |-> r.category, live |-> TRUE, by |-> n])
      at == IF named # {} THEN Max(named) ELSE Len(shelves)
  IN  [shelf |-> shelves, dish |-> Append(acc.dish, [name |-> r.name, category |-> at, st |-> "live", by |-> n])]

\* The rows are placed one after the other.
commitItems(k) ==
  LET rows == tab[k].rows
      placed[i \in 0..Len(rows)] ==
        IF i = 0 THEN [shelf |-> shelf, dish |-> dish]
        ELSE PlaceRow(commits + 1, tab[k].found, placed[i - 1], rows[i])
  IN  placed[Len(rows)]

\* The partial unique index and the foreign key, as the transaction meets them.
Clash(dishes) ==
  \E i, j \in DOMAIN dishes : /\ i < j /\ dishes[i].st = "live" /\ dishes[j].st = "live"
                              /\ dishes[i].name = dishes[j].name /\ dishes[i].category = dishes[j].category
Homeless(shelves, dishes) == \E i \in DOMAIN dishes : ~ shelves[dishes[i].category].live
Storable(new) == ~ Clash(new.dish) /\ ~ Homeless(new.shelf, new.dish)

\* The draft is marked by its id: it may have been committed since the check.
CommitWrite(k) ==
  LET new == commitItems(k) IN
  /\ tab[k].op \in {"commitWrite", "importWrite"}
  /\ Len(new.shelf) <= MaxCategories /\ Len(new.dish) <= MaxItems
  /\ Storable(new)
  /\ shelf' = new.shelf /\ dish' = new.dish
  /\ sheet' = IF tab[k].op = "commitWrite" THEN [sheet EXCEPT !.st = "committed"] ELSE sheet
  /\ commits' = commits + 1
  /\ tab' = [tab EXCEPT ![k] = IdleTab]
  /\ UNCHANGED menuEdits

\* A refused request, or one that lost its connection, leaves nothing behind.
RolledBack(k) ==
  /\ tab[k] # IdleTab
  /\ tab' = [tab EXCEPT ![k] = IdleTab]
  /\ UNCHANGED <<sheet, shelf, dish, menuEdits, commits>>

-----------------------------------------------------------------------------
\* Categories and items one by one

createCategory(n) ==
  /\ MenuEdit /\ Len(shelf) < MaxCategories
  /\ shelf' = Append(shelf, [name |-> n, live |-> TRUE, by |-> 0])
  /\ UNCHANGED <<sheet, dish, tab, commits>>

renameCategory(c, n) ==
  /\ MenuEdit
  /\ c \in Shelves
  /\ shelf' = [shelf EXCEPT ![c].name = n]
  /\ UNCHANGED <<sheet, dish, tab, commits>>

\* Archived items hold their category too.
removeCategory(c) ==
  /\ MenuEdit
  /\ c \in Shelves
  /\ \A i \in DOMAIN dish : dish[i].category # c
  /\ shelf' = [shelf EXCEPT ![c].live = FALSE]
  /\ UNCHANGED <<sheet, dish, tab, commits>>

createItem(n, c) ==
  LET new == Append(dish, [name |-> n, category |-> c, st |-> "live", by |-> 0]) IN
  /\ MenuEdit /\ Len(dish) < MaxItems
  /\ c \in Shelves
  /\ ~ Clash(new)
  /\ dish' = new
  /\ UNCHANGED <<sheet, shelf, tab, commits>>

updateItem(i, n, c) ==
  LET new == [dish EXCEPT ![i].name = n, ![i].category = c] IN
  /\ MenuEdit
  /\ i \in Dishes /\ c \in Shelves
  /\ ~ Clash(new)
  /\ dish' = new
  /\ UNCHANGED <<sheet, shelf, tab, commits>>

archiveDish(i) ==
  /\ MenuEdit
  /\ i \in Dishes
  /\ dish' = [dish EXCEPT ![i].st = "archived"]
  /\ UNCHANGED <<sheet, shelf, tab, commits>>

ImportNext ==
  \/ upload
  \/ \E k \in Tabs : \/ PatchRead(k) \/ patch(k) \/ CommitCheck(k) \/ ImportCheck(k)
                     \/ ReadShelves(k) \/ CommitWrite(k) \/ RolledBack(k)
  \/ \E n \in Named : createCategory(n)
  \/ \E c \in DOMAIN shelf, n \in Named : renameCategory(c, n) \/ createItem(n, c)
  \/ \E c \in DOMAIN shelf : removeCategory(c)
  \/ \E i \in DOMAIN dish, n \in Named, c \in DOMAIN shelf : updateItem(i, n, c)
  \/ \E i \in DOMAIN dish : archiveDish(i)

ImportSpec == ImportInit /\ [][ImportNext]_importVars

-----------------------------------------------------------------------------
\* However imports, edits and removals cross: every item, archived ones too,
\* is in a category that exists; no category offers two live items of one name;
\* and an import never makes a category twice, so two categories of one name in
\* any case are the work of two requests, or of a rename.
MenuInOrder ==
  /\ ~ Homeless(shelf, dish)
  /\ ~ Clash(dish)
  /\ \A c, d \in DOMAIN shelf :
       c # d /\ Lower[shelf[c].name] = Lower[shelf[d].name] =>
         shelf[c].by # shelf[d].by \/ shelf[c].by = 0 \/ menuEdits > 0
=============================================================================
