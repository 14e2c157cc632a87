--------------------------- MODULE SalesShipments ---------------------------
(***************************************************************************)
(* The rows of the sales module that its commands change, and the commands *)
(* about shipments (modules/sales/commands/shipments.ts).                  *)
(*                                                                         *)
(* A command is an operator from the database and its input to an outcome: *)
(* whether the handler returned, the database it left behind, which a      *)
(* handler that throws halfway has changed, too, and the orders whose      *)
(* derived numbers it computes again in its next flush.                    *)
(* Quantities and amounts are whole numbers and every unit costs 1; what   *)
(* an order or a line is, beyond that, is left out.                        *)
(***************************************************************************)
EXTENDS Naturals, FiniteSets, Functions

CONSTANTS
  Documents,   \* ids of orders and quotes: converting a quote keeps its id
  Lines,       \* ids of lines
  Shipments,
  Payments,
  NoOrder,     \* order_id NULL: the order of a payment is gone (ON DELETE SET NULL)
  MaxQuantity  \* bound: the quantity of a line and the amount of a payment

ASSUME SalesAssumption ==
  /\ IsFiniteSet(Documents) /\ IsFiniteSet(Lines)
  /\ IsFiniteSet(Shipments) /\ IsFiniteSet(Payments)
  /\ NoOrder \notin Documents
  /\ MaxQuantity \in Nat \ {0}

Quantity == 1..MaxQuantity

PartialFunctions(S, T) == UNION {[D -> T] : D \in SUBSET S}

(***************************************************************************)
(* The tables: rows and the columns they have                              *)
(***************************************************************************)

\* f is a table of rows of a type under some of the keys S.
IsTable(f, S, type(_)) ==
  /\ DOMAIN f \subseteq S /\ f = [x \in DOMAIN f |-> f[x]]
  /\ \A x \in DOMAIN f : type(f[x])

IsLine(row) == row \in [quantity : Quantity, fulfilled : Nat]

IsOrder(row) ==
  /\ row \in [lines : {row.lines}, discount : Nat, grand : Nat, paid : Nat,
              outstanding : Nat]
  /\ IsTable(row.lines, Lines, IsLine)

IsQuote(row) == row \in [lines : PartialFunctions(Lines, Quantity), discount : Nat]

IsShipment(row) ==
  row \in [order : Documents, items : PartialFunctions(Lines, Quantity)]

IsPayment(row) ==
  row \in [order : Documents \cup {NoOrder}, amount : Quantity,
           allocations : PartialFunctions(Documents, Quantity)]

IsDatabase(d) ==
  /\ d \in [orders : {d.orders}, quotes : {d.quotes}, shipments : {d.shipments},
            payments : {d.payments}]
  /\ IsTable(d.orders, Documents, IsOrder) /\ IsTable(d.quotes, Documents, IsQuote)
  /\ IsTable(d.shipments, Shipments, IsShipment)
  /\ IsTable(d.payments, Payments, IsPayment)

NoRows == [x \in {} |-> {}]

\* :> and @@ of TLC, which the prover does not know.
Only(x, v) == [y \in {x} |-> v]
Over(g, f) == [x \in DOMAIN f \cup DOMAIN g |-> IF x \in DOMAIN g THEN g[x] ELSE f[x]]
Put(f, x, v) == Over(Only(x, v), f)

Without(f, S) == Restrict(f, DOMAIN f \ S)

Done(d, touched) == [done |-> TRUE, db |-> d, touched |-> touched]
Rejected(d) == [done |-> FALSE, db |-> d, touched |-> {}]

(***************************************************************************)
(* Shipments                                                               *)
(***************************************************************************)

ShipmentsOf(d, o) == {s \in DOMAIN d.shipments : d.shipments[s].order = o}

ShippedBy(d, s, l) ==
  IF l \in DOMAIN d.shipments[s].items THEN d.shipments[s].items[l] ELSE 0

\* The shipments of an order, but one, are asked for what they have shipped.
loadShippedTotals(d, o, l, excluded) ==
  SumFunction([s \in ShipmentsOf(d, o) \ excluded |-> ShippedBy(d, s, l)])

recomputeFulfilledQuantities(d, o) ==
  [d.orders[o] EXCEPT !.lines =
     [l \in DOMAIN @ |-> [@[l] EXCEPT !.fulfilled = loadShippedTotals(d, o, l, {})]]]

validateShipmentItems(d, o, items, excluded) ==
  /\ DOMAIN items # {}
  /\ \A l \in DOMAIN items :
       /\ l \in DOMAIN d.orders[o].lines
       /\ items[l] + loadShippedTotals(d, o, l, excluded)
            <= d.orders[o].lines[l].quantity

createShipment(d, c) ==
  IF c.order \in DOMAIN d.orders /\ validateShipmentItems(d, c.order, c.items, {})
  THEN Done([d EXCEPT !.shipments =
               Put(@, c.id, [order |-> c.order, items |-> c.items])], {c.order})
  ELSE Rejected(d)

updateShipment(d, c) ==
  IF /\ c.id \in DOMAIN d.shipments
     /\ validateShipmentItems(d, d.shipments[c.id].order, c.items, {c.id})
  THEN Done([d EXCEPT !.shipments[c.id].items = c.items], {d.shipments[c.id].order})
  ELSE Rejected(d)

deleteShipmentWithItems(d, s) == [d EXCEPT !.shipments = Without(@, {s})]

deleteShipment(d, c) ==
  IF c.id \in DOMAIN d.shipments
  THEN Done(deleteShipmentWithItems(d, c.id), {d.shipments[c.id].order})
  ELSE Rejected(d)

loadShipmentSnapshot(d, s) ==
  [kind |-> "shipment", id |-> s, row |-> d.shipments[s]]

\* Mutant of restoreShipmentSnapshot: items come back without their lines.
restoreShipmentSnapshot_AllItems(d, snapshot) ==
  IF snapshot.row.order \in DOMAIN d.orders
  THEN [d EXCEPT !.shipments = Put(@, snapshot.id, snapshot.row)]
  ELSE d

\* Items whose line is gone are dropped; quantities are not validated again.
restoreShipmentSnapshot(d, snapshot) ==
  LET row == snapshot.row
      kept == DOMAIN row.items \cap DOMAIN d.orders[row.order].lines
  IN IF row.order \in DOMAIN d.orders
     THEN [d EXCEPT !.shipments =
             Put(@, snapshot.id, [order |-> row.order, items |-> Restrict(row.items, kept)])]
     ELSE d

undoCreateShipment(d, after) ==
  IF after.id \in DOMAIN d.shipments
  THEN Done(deleteShipmentWithItems(d, after.id), {d.shipments[after.id].order})
  ELSE Done(d, {})

undoChangeOfShipment(d, before) ==
  Done(restoreShipmentSnapshot(d, before), {before.row.order} \cap DOMAIN d.orders)
=============================================================================
