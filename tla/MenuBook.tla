------------------------------- MODULE MenuBook -------------------------------
(***************************************************************************)
(* What a menu offers at one outlet, and what guests and tills may take of *)
(* it while the owner edits it: items that are switched off ("86'd") for   *)
(* the tenant or the outlet and items that are deleted, a combo whose      *)
(* slots are rewritten, the cart lines that point at both, and the orders  *)
(* made of them (admin/menu/items, combos, combo-menu, pricing, guest/cart, *)
(* guest/orders, order-lines).                                             *)
(*                                                                         *)
(* The combo has one slot of which one option is picked.  Each rewrite of  *)
(* its slots makes new option rows: a new edition.                         *)
(***************************************************************************)
EXTENDS Naturals, FiniteSets

CONSTANTS
  Items,
  CartLines,   \* cart_lines rows that can come to be
  Phones,      \* slots for guests' requests in flight
  MaxEdition   \* bound: rewrites of the combo

ASSUME MenuAssumption == MaxEdition \in Nat

VARIABLES
  item,     \* menu_items row and item_outlet_overrides row of each item
  combo,    \* the combo and its options
  cart,     \* the cart's lines
  phone,    \* the request in each slot
  sold      \* history: the editions the last order's combos were picked from, and the one it was checked with

menuVars == <<item, combo, cart, phone, sold>>

NoLineYet == [kind |-> "none"]
IdlePhone == [op |-> "idle"]

MenuInit ==
  /\ item = [i \in Items |-> [available |-> TRUE, override |-> "none", archived |-> FALSE]]
  /\ combo = [st |-> "none", on |-> TRUE, edition |-> 0, options |-> {}]
  /\ cart = [l \in CartLines |-> NoLineYet]
  /\ phone = [k \in Phones |-> IdlePhone]
  /\ sold = [editions |-> {}, of |-> 0]

-----------------------------------------------------------------------------
\* The owner

Live(i) == ~item[i].archived

setAvailability(i, on) ==
  /\ Live(i)
  /\ item' = [item EXCEPT ![i].available = on]
  /\ UNCHANGED <<combo, cart, phone, sold>>

\* setOutletAvailability(), clearOutletAvailability()
setOverride(i, o) ==
  /\ Live(i)
  /\ item' = [item EXCEPT ![i].override = o]
  /\ UNCHANGED <<combo, cart, phone, sold>>

\* "Delete" of an item; cart lines, orders and combos go on pointing at it.
archiveItem(i) ==
  /\ Live(i)
  /\ item' = [item EXCEPT ![i].archived = TRUE]
  /\ UNCHANGED <<combo, cart, phone, sold>>

\* The cart lines of the combo are deleted.
WithoutCombo(lines) == [l \in CartLines |-> IF lines[l].kind = "combo" THEN NoLineYet ELSE lines[l]]

\* create() and update(): options are items that are not deleted.
SaveCombo(options, on) ==
  /\ combo.st # "archived"
  /\ combo.edition < MaxEdition
  /\ options # {} /\ \A i \in options : Live(i)
  /\ combo' = [st |-> "live", on |-> on, edition |-> combo.edition + 1, options |-> options]
  /\ cart' = WithoutCombo(cart)
  /\ UNCHANGED <<item, phone, sold>>

archiveCombo ==
  /\ combo.st = "live"
  /\ combo' = [combo EXCEPT !.st = "archived"]
  /\ cart' = WithoutCombo(cart)
  /\ UNCHANGED <<item, phone, sold>>

-----------------------------------------------------------------------------
\* What may be ordered

\* An item on its own: switched off nowhere.
assertItemAvailable(i) == Live(i) /\ item[i].available /\ item[i].override # "off"

\* An item in a combo: the outlet's switch wins over the tenant's.
itemAvailability(i) == IF item[i].override = "none" THEN item[i].available ELSE item[i].override = "on"

ComboAvailable == combo.on /\ \E i \in combo.options : itemAvailability(i)

\* resolveComboSelection() of a pick made from an edition of the combo.
Mut_Resolves(line) == combo.st = "live" /\ ComboAvailable /\ itemAvailability(line.pick)
Resolves(line) ==
  /\ combo.st = "live"
  /\ ComboAvailable
  /\ line.edition = combo.edition
  /\ line.pick \in combo.options
  /\ itemAvailability(line.pick)

-----------------------------------------------------------------------------
\* Guests

Ask(k, p) == phone[k] = IdlePhone /\ phone' = [phone EXCEPT ![k] = p]

\* addLine() and addCombo() of the cart check, and insert.
AddItemRead(k, i) ==
  /\ assertItemAvailable(i)
  /\ Ask(k, [op |-> "add", line |-> [kind |-> "item", item |-> i]])
  /\ UNCHANGED <<item, combo, cart, sold>>

AddComboRead(k, i) ==
  LET line == [kind |-> "combo", edition |-> combo.edition, pick |-> i] IN
  /\ Resolves(line)
  /\ Ask(k, [op |-> "add", line |-> line])
  /\ UNCHANGED <<item, combo, cart, sold>>

AddWrite(k, l) ==
  /\ phone[k].op = "add"
  /\ cart[l] = NoLineYet
  /\ cart' = [cart EXCEPT ![l] = phone[k].line]
  /\ phone' = [phone EXCEPT ![k] = IdlePhone]
  /\ UNCHANGED <<item, combo, sold>>

\* placeOrder() reads the cart ...
PlaceCartRead(k) ==
  /\ \E l \in CartLines : cart[l] # NoLineYet
  /\ Ask(k, [op |-> "place", lines |-> cart])
  /\ UNCHANGED <<item, combo, cart, sold>>

\* ... checks its combos again, not its items ...
PlaceCheck(k) ==
  LET combos == {l \in CartLines : phone[k].lines[l].kind = "combo"} IN
  /\ phone[k].op = "place"
  /\ phone' = [phone EXCEPT ![k] = IF \A l \in combos : Resolves(phone[k].lines[l])
                                   THEN [op |-> "order", of |-> combo.edition,
                                         editions |-> {phone[k].lines[l].edition : l \in combos}]
                                   ELSE IdlePhone]
  /\ UNCHANGED <<item, combo, cart, sold>>

\* ... and commits the order, which empties the cart.
placeOrder(k) ==
  /\ phone[k].op = "order"
  /\ cart' = [l \in CartLines |-> NoLineYet]
  /\ sold' = [editions |-> phone[k].editions, of |-> phone[k].of]
  /\ phone' = [phone EXCEPT ![k] = IdlePhone]
  /\ UNCHANGED <<item, combo>>

MenuNext ==
  \/ \E i \in Items :
       \/ \E on \in BOOLEAN : setAvailability(i, on)
       \/ \E o \in {"none", "on", "off"} : setOverride(i, o)
       \/ archiveItem(i)
  \/ \E options \in SUBSET Items, on \in BOOLEAN : SaveCombo(options, on)
  \/ archiveCombo
  \/ \E k \in Phones :
       \/ \E i \in Items : AddItemRead(k, i) \/ AddComboRead(k, i)
       \/ \E l \in CartLines : AddWrite(k, l)
       \/ PlaceCartRead(k) \/ PlaceCheck(k) \/ placeOrder(k)

MenuSpec == MenuInit /\ [][MenuNext]_menuVars

-----------------------------------------------------------------------------
\* A combo is ordered only with picks of the slots it had at the check, though
\* a guest who was adding one while the owner rewrote it leaves a line of the
\* old slots in the cart, after combos.update() emptied it of them
\* (resolveComboSelection, placeOrder: "re-checked against its current slots").
NoStalePicks == sold.editions \subseteq {sold.of}

\* An item the owner deleted is not on sale: "every menu read filters on
\* archivedAt" (items.service archive, listMenuCombos).
DeletedNotOffered ==
  \A i \in Items : item[i].archived =>
    ~(combo.st = "live" /\ ComboAvailable /\ i \in combo.options /\ itemAvailability(i))
=============================================================================
