------------------------------ MODULE MenuPrices ------------------------------
(***************************************************************************)
(* The prices and portions of one menu item: the insert-only price rows,   *)
(* scoped to a portion, an outlet and a channel, and effective from an     *)
(* instant on; the portions (variants) that come and go; and the price the *)
(* tills and the guest cart charge (admin/menu/prices.service, pricing,    *)
(* items.service, order-lines.service, guest/cart, guest/orders).          *)
(*                                                                         *)
(* A row's price is its id, so that two rows never cost the same.          *)
(***************************************************************************)
EXTENDS Naturals, FiniteSets, FiniteSetsExt

CONSTANTS
  Channels,
  Portions,   \* variants the item can have, the base portion's among them
  Regular,    \* the base portion, once the item has portions
  Base,       \* variant_id null: the item itself
  Everywhere, \* outlet_id null
  House,      \* the outlet
  AnyChannel, \* channel null
  Editors,    \* slots for the owner's requests in flight
  MaxRows, MaxInstant

ASSUME PricesAssumption ==
  /\ Regular \in Portions /\ Base \notin Portions
  /\ AnyChannel \notin Channels /\ Everywhere # House
  /\ MaxRows \in Nat /\ MaxInstant \in Nat

VARIABLES
  instant,    \* the clock
  prices,     \* item_prices rows
  portions,   \* item_variants rows
  editor,     \* the request in each slot
  continued,  \* history: did the base portion keep every price there was
  reached     \* history: did every change for all channels reach them

priceVars == <<instant, prices, portions, editor, continued, reached>>

NoEdit == [op |-> "idle"]

PricesInit ==
  /\ instant = 0
  /\ prices = {[id |-> 1, of |-> Base, was |-> Base, outlet |-> Everywhere, channel |-> AnyChannel, from |-> 0, at |-> 1]}
  /\ portions = {}
  /\ editor = [e \in Editors |-> NoEdit]
  /\ continued = TRUE /\ reached = TRUE

NextId == Max({r.id : r \in prices}) + 1

-----------------------------------------------------------------------------
\* What an item costs (pickCurrentPrice)

Score(r) == (IF r.outlet # Everywhere THEN 2 ELSE 0) + (IF r.channel # AnyChannel THEN 1 ELSE 0)

\* Rows of a set that apply at a moment, to a channel at an outlet.
Eligible(rows, p, outlet, channel, t) ==
  {r \in rows : r.of = p /\ r.from <= t /\ r.outlet \in {Everywhere, outlet} /\ r.channel \in {AnyChannel, channel}}

\* Is a picked over b.
Beats(a, b) ==
  \/ Score(a) > Score(b)
  \/ Score(a) = Score(b) /\ a.from > b.from
  \/ Score(a) = Score(b) /\ a.from = b.from /\ a.at > b.at

\* The rows that can be picked; more than one only if created at one instant.
pickCurrentPrice(rows, p, outlet, channel, t) ==
  LET E == Eligible(rows, p, outlet, channel, t) IN {a \in E : \A b \in E : ~Beats(b, a)}

-----------------------------------------------------------------------------
\* The owner

OwnPriced(p, outlet) == {r.channel : r \in {x \in prices : x.of = p /\ x.outlet = outlet}} \ {AnyChannel}

\* insertPrice() for one channel, or for all: then the channels that have a
\* price of their own here are read, to be given the new one too.
PriceRead(e, p, outlet, channel) ==
  /\ editor[e] = NoEdit
  /\ p \in portions \cup {Base}
  /\ editor' = [editor EXCEPT ![e] =
       [op |-> "price", of |-> p, outlet |-> outlet,
        channels |-> IF channel = AnyChannel THEN OwnPriced(p, outlet) \cup {AnyChannel} ELSE {channel}]]
  /\ UNCHANGED <<instant, prices, portions, continued, reached>>

\* One row per channel, all with one price, created together.
PriceRows(h, from, n) ==
  {[id |-> n, of |-> h.of, was |-> h.of, outlet |-> h.outlet, channel |-> c, from |-> from, at |-> n] : c \in h.channels}

\* Effective at once, from a later instant or from an earlier one.  The
\* foreign key refuses a row of a portion deleted meanwhile.
insertPrice(e, from) ==
  LET h == editor[e] IN
  /\ h.op = "price"
  /\ IF h.of \in portions \cup {Base}
     THEN /\ Cardinality(prices) + Cardinality(h.channels) <= MaxRows
          /\ prices' = prices \cup PriceRows(h, from, NextId)
          /\ reached' = (reached /\ (AnyChannel \in h.channels /\ from = instant =>
               \A c \in Channels : c \in OwnPriced(h.of, h.outlet) \ h.channels \/
                 {r.id : r \in pickCurrentPrice(prices', h.of, h.outlet, c, instant)} = {NextId}))
     ELSE UNCHANGED <<prices, reached>>
  /\ editor' = [editor EXCEPT ![e] = NoEdit]
  /\ UNCHANGED <<instant, portions, continued>>

\* addVariant(): the item, its portions and its own price rows are read.
PortionRead(e, p) ==
  /\ editor[e] = NoEdit
  /\ p \in Portions \ {Regular}
  /\ editor' = [editor EXCEPT ![e] = [op |-> "portion", new |-> p,
                  base |-> IF portions = {} THEN {r \in prices : r.of = Base} ELSE {}]]
  /\ UNCHANGED <<instant, prices, portions, continued, reached>>

\* copyBasePricesToVariant(): the item's own price rows again, for Regular.
Mut_Copies(rows) == {[r EXCEPT !.of = Regular, !.was = Regular] : r \in {x \in rows : x.from <= instant}}
Copies(rows) == {[r EXCEPT !.of = Regular, !.was = Regular] : r \in rows}

\* createVariant(), with or without a price; names are unique on an item.
PortionWrite(e, priced) ==
  LET h == editor[e]
      first == h.base # {}
      made == {h.new} \cup (IF first THEN {Regular} ELSE {})
      rows == (IF first THEN Copies(h.base) ELSE {}) \cup
              (IF priced THEN PriceRows([of |-> h.new, outlet |-> Everywhere, channels |-> {AnyChannel}], instant, NextId) ELSE {})
  IN
  /\ h.op = "portion"
  /\ IF made \cap portions = {}
     THEN /\ Cardinality(prices) + Cardinality(rows) <= MaxRows
          /\ portions' = portions \cup made
          /\ prices' = prices \cup rows
          /\ continued' = (continued /\ (first =>
               \A outlet \in {Everywhere, House}, c \in Channels, t \in 0..MaxInstant :
                 {r.id : r \in pickCurrentPrice(prices', Regular, outlet, c, t)} =
                   {r.id : r \in pickCurrentPrice(h.base, Base, outlet, c, t)}))
     ELSE UNCHANGED <<portions, prices, continued>>
  /\ editor' = [editor EXCEPT ![e] = NoEdit]
  /\ UNCHANGED <<instant, reached>>

\* removeVariant(): the foreign keys of its price rows and of cart lines for
\* it are set null, which makes them the item's own.
removeVariant(p) ==
  /\ p \in portions
  /\ portions' = portions \ {p}
  /\ prices' = {IF r.of = p THEN [r EXCEPT !.of = Base] ELSE r : r \in prices}
  /\ UNCHANGED <<instant, editor, continued, reached>>

InstantPasses ==
  /\ instant < MaxInstant
  /\ instant' = instant + 1
  /\ UNCHANGED <<prices, portions, editor, continued, reached>>

PricesNext ==
  \/ InstantPasses
  \/ \E p \in Portions : removeVariant(p)
  \/ \E e \in Editors :
       \/ \E from \in 0..MaxInstant : insertPrice(e, from)
       \/ \E priced \in BOOLEAN : PortionWrite(e, priced)
       \/ \E p \in Portions : PortionRead(e, p)
       \/ \E p \in Portions \cup {Base}, outlet \in {Everywhere, House}, c \in Channels \cup {AnyChannel} :
            PriceRead(e, p, outlet, c)

PricesSpec == PricesInit /\ [][PricesNext]_priceVars

-----------------------------------------------------------------------------
\* When an item gets its first portion, the base portion that is made of the
\* item costs what the item cost, at every outlet, on every channel, now and
\* when each scheduled price comes due (copyBasePricesToVariant: "the
\* current/scheduled resolution is identical").
PortionKeepsPrice == continued

\* A price change for all channels that is effective at once is what every
\* channel charges from then on, also a channel that had a price of its own
\* when the change looked (insertPrice: "a channel-specific row would
\* otherwise keep winning"); one that got its own while the change was under
\* way keeps it.
BlanketPriceReaches == reached

\* A price the owner set stays in force: both of the above.
PriceInForce == PortionKeepsPrice /\ BlanketPriceReaches

\* What prices.service.ts:1-3 says, and removeVariant() refutes, is that a price
\* row stays as it was inserted: "every price edit is an INSERT, never
\* an UPDATE - the old row is left exactly as it was".
PricesInsertOnly == \A r \in prices : r.of = r.was
=============================================================================
