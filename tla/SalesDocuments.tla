--------------------------- MODULE SalesDocuments ---------------------------
(***************************************************************************)
(* The commands about orders and quotes, their lines and adjustments, and  *)
(* the conversion of a quote (modules/sales/commands/documents.ts).  A     *)
(* document has at most one adjustment, a discount.  Deletions by          *)
(* nativeDelete are committed one by one: a handler that throws after them *)
(* leaves them done.                                                       *)
(***************************************************************************)
EXTENDS SalesPayments

SubtotalOf(quantities) == SumFunction(quantities)

\* calculateDocumentTotals: unit price 1, the discount is cut off at zero.
GrandTotal(quantities, discount) == Minus(SubtotalOf(quantities), discount)

QuantitiesOf(order) == [l \in DOMAIN order.lines |-> order.lines[l].quantity]

\* Mutant of applyOrderTotals: outstanding is what the document costs.
applyOrderTotals_IgnoresPaid(order) ==
  LET grand == GrandTotal(QuantitiesOf(order), order.discount)
  IN [order EXCEPT !.grand = grand, !.outstanding = grand]

\* What was paid is taken over from the row.
applyOrderTotals(order) ==
  LET grand == GrandTotal(QuantitiesOf(order), order.discount)
  IN [order EXCEPT !.grand = grand, !.outstanding = Minus(grand, order.paid)]

NewOrder(quantities, discount) ==
  applyOrderTotals([lines |-> [l \in DOMAIN quantities |->
                                 [quantity |-> quantities[l], fulfilled |-> 0]],
                    discount |-> discount, grand |-> 0, paid |-> 0, outstanding |-> 0])

PutOrder(d, o, order) == Done([d EXCEPT !.orders = Put(@, o, order)], {})
PutQuote(d, q, quote) == Done([d EXCEPT !.quotes = Put(@, q, quote)], {})

(***************************************************************************)
(* Snapshots                                                               *)
(***************************************************************************)

loadQuoteSnapshot(d, q) == [kind |-> "quote", id |-> q, row |-> d.quotes[q]]

loadOrderSnapshot(d, o) ==
  [kind |-> "order", id |-> o, row |-> d.orders[o],
   shipments |-> Restrict(d.shipments, ShipmentsOf(d, o)),
   payments |-> Restrict(d.payments, PaymentsOf(d, o))]

\* Mutant of restoreQuoteGraph: the adjustments do not come back.
restoreQuoteGraph_NoAdjustments(d, snapshot) ==
  PutQuote(d, snapshot.id, [snapshot.row EXCEPT !.discount = 0])

restoreQuoteGraph(d, snapshot) == PutQuote(d, snapshot.id, snapshot.row)

\* A payment of the order that is allocated elsewhere, too, cannot be deleted.
RemainsAllocated(d, o) == \E p \in PaymentsOf(d, o) :
                            DOMAIN d.payments[p].allocations \ {o} # {}

withoutShipmentsAndAllocations(d, o) ==
  [d EXCEPT !.shipments = Without(@, ShipmentsOf(d, o)),
            !.payments = [p \in DOMAIN d.payments |->
               [d.payments[p] EXCEPT !.allocations = Without(@, {o})]]]

withoutRecords(d, o) ==
  LET e == withoutShipmentsAndAllocations(d, o)
  IN [e EXCEPT !.payments = Without(@, PaymentsOf(d, o))]

\* Whatever was shipped or paid since the snapshot goes; totals are not recomputed.
restoreOrderGraph(d, snapshot) ==
  IF RemainsAllocated(d, snapshot.id)
  THEN Rejected(withoutShipmentsAndAllocations(d, snapshot.id))
  ELSE LET e == withoutRecords(d, snapshot.id) IN
       Done([e EXCEPT !.orders = Put(@, snapshot.id, snapshot.row),
                      !.shipments = Over(snapshot.shipments, @),
                      !.payments = Over(snapshot.payments, @)], {})

(***************************************************************************)
(* Orders                                                                  *)
(***************************************************************************)

createOrder(d, c) == PutOrder(d, c.id, NewOrder(c.quantities, 0))

\* The lines cannot go while they are shipped; the adjustments are gone by then.
undoCreateOrder(d, after) ==
  LET o == after.id
      e == [d EXCEPT !.orders = Without(@, {o}),
                     !.payments = [p \in DOMAIN d.payments |->
                        [d.payments[p] EXCEPT !.order = IF @ = o THEN NoOrder ELSE @,
                                              !.allocations = Without(@, {o})]]]
  IN IF o \notin DOMAIN d.orders THEN Done(d, {})
     ELSE IF ShipmentsOf(d, o) # {} THEN Rejected([d EXCEPT !.orders[o].discount = 0])
     ELSE Done(e, {})

deleteOrder(d, c) ==
  LET e == withoutRecords(d, c.id)
  IN IF c.id \notin DOMAIN d.orders THEN Rejected(d)
     ELSE IF RemainsAllocated(d, c.id)
     THEN Rejected(withoutShipmentsAndAllocations(d, c.id))
     ELSE Done([e EXCEPT !.orders = Without(@, {c.id})], {})

\* A given id that is no line of the document changes no line.
Upserted(lines, c, line) ==
  IF c.given /\ c.line \notin DOMAIN lines THEN lines ELSE Put(lines, c.line, line)

\* Mutant of orderLineUpsert: the line is created anew.
orderLineUpsert_Resets(d, c) ==
  IF c.id \in DOMAIN d.orders
  THEN PutOrder(d, c.id, applyOrderTotals(
         [d.orders[c.id] EXCEPT !.lines =
            Upserted(@, c, [quantity |-> c.quantity, fulfilled |-> 0])]))
  ELSE Rejected(d)

\* An existing line keeps what was shipped; nobody compares it with the quantity.
orderLineUpsert(d, c) ==
  LET fulfilled == IF c.line \in DOMAIN d.orders[c.id].lines
                   THEN d.orders[c.id].lines[c.line].fulfilled ELSE 0
      line == [quantity |-> c.quantity, fulfilled |-> fulfilled]
  IN IF c.id \in DOMAIN d.orders
     THEN PutOrder(d, c.id, applyOrderTotals(
                      [d.orders[c.id] EXCEPT !.lines = Upserted(@, c, line)]))
     ELSE Rejected(d)

orderLineDelete(d, c) ==
  IF /\ c.id \in DOMAIN d.orders
     /\ \A s \in ShipmentsOf(d, c.id) : c.line \notin DOMAIN d.shipments[s].items
     /\ c.line \in DOMAIN d.orders[c.id].lines
  THEN PutOrder(d, c.id, applyOrderTotals(
                  [d.orders[c.id] EXCEPT !.lines = Without(@, {c.line})]))
  ELSE Rejected(d)

orderAdjustmentUpsert(d, c) ==
  IF c.id \in DOMAIN d.orders
  THEN PutOrder(d, c.id, applyOrderTotals([d.orders[c.id] EXCEPT !.discount = c.discount]))
  ELSE Rejected(d)

orderAdjustmentDelete(d, c) ==
  IF c.id \in DOMAIN d.orders /\ d.orders[c.id].discount > 0
  THEN PutOrder(d, c.id, applyOrderTotals([d.orders[c.id] EXCEPT !.discount = 0]))
  ELSE Rejected(d)

(***************************************************************************)
(* Quotes                                                                  *)
(***************************************************************************)

createQuote(d, c) == PutQuote(d, c.id, [lines |-> c.quantities, discount |-> 0])

undoCreateQuote(d, after) == Done([d EXCEPT !.quotes = Without(@, {after.id})], {})

deleteQuote(d, c) ==
  IF c.id \in DOMAIN d.quotes
  THEN Done([d EXCEPT !.quotes = Without(@, {c.id})], {})
  ELSE Rejected(d)

quoteLineUpsert(d, c) ==
  IF c.id \in DOMAIN d.quotes
  THEN PutQuote(d, c.id, [d.quotes[c.id] EXCEPT !.lines = Upserted(@, c, c.quantity)])
  ELSE Rejected(d)

quoteLineDelete(d, c) ==
  IF c.id \in DOMAIN d.quotes /\ c.line \in DOMAIN d.quotes[c.id].lines
  THEN PutQuote(d, c.id, [d.quotes[c.id] EXCEPT !.lines = Without(@, {c.line})])
  ELSE Rejected(d)

quoteAdjustmentUpsert(d, c) ==
  IF c.id \in DOMAIN d.quotes
  THEN PutQuote(d, c.id, [d.quotes[c.id] EXCEPT !.discount = c.discount])
  ELSE Rejected(d)

quoteAdjustmentDelete(d, c) ==
  IF c.id \in DOMAIN d.quotes /\ d.quotes[c.id].discount > 0
  THEN PutQuote(d, c.id, [d.quotes[c.id] EXCEPT !.discount = 0])
  ELSE Rejected(d)

\* The order takes the id and the lines of the quote, which is removed.
convertQuoteToOrder(d, c) ==
  IF c.id \in DOMAIN d.quotes /\ c.id \notin DOMAIN d.orders
  THEN Done([d EXCEPT !.orders =
               Put(@, c.id, NewOrder(d.quotes[c.id].lines, d.quotes[c.id].discount)),
             !.quotes = Without(@, {c.id})], {})
  ELSE Rejected(d)
=============================================================================
