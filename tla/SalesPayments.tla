--------------------------- MODULE SalesPayments ----------------------------
(***************************************************************************)
(* The commands about payments (modules/sales/commands/payments.ts): a     *)
(* payment belongs to an order and is allocated, in amounts, to orders;    *)
(* the totals of an order are computed again after every change.           *)
(***************************************************************************)
EXTENDS SalesShipments

PaymentsOf(d, o) == {p \in DOMAIN d.payments : d.payments[p].order = o}
AllocatedTo(d, o) == {p \in DOMAIN d.payments : o \in DOMAIN d.payments[p].allocations}

\* Mutant of Minus: nothing is cut off.
Minus_Negative(a, b) == a - b

\* Max(a - b, 0), as every total is cut off.
Minus(a, b) == IF a > b THEN a - b ELSE 0

\* Allocations count; without any, the amounts of the order's payments.
PaidTotal(d, o) ==
  IF AllocatedTo(d, o) # {}
  THEN SumFunction([p \in AllocatedTo(d, o) |-> d.payments[p].allocations[o]])
  ELSE SumFunction([p \in PaymentsOf(d, o) |-> d.payments[p].amount])

recomputeOrderPaymentTotals(d, o) ==
  [d.orders[o] EXCEPT !.paid = PaidTotal(d, o),
                      !.outstanding = Minus(d.orders[o].grand, PaidTotal(d, o))]

OrdersOf(row) == ({row.order} \ {NoOrder}) \cup DOMAIN row.allocations

createPayment(d, c) ==
  IF c.order \in DOMAIN d.orders
  THEN Done([d EXCEPT !.payments =
               Put(@, c.id, [order |-> c.order, amount |-> c.amount,
                         allocations |-> Only(c.order, c.amount)])], {c.order})
  ELSE Rejected(d)

\* The allocations stay as they are unless the input names new ones.
updatePayment(d, c) ==
  IF c.id \in DOMAIN d.payments /\ c.order \in DOMAIN d.orders
  THEN Done([d EXCEPT !.payments[c.id] =
               [order |-> c.order, amount |-> c.amount,
                allocations |-> IF c.reallocate THEN Only(c.order, c.amount)
                                                ELSE @.allocations]],
            {c.order, d.payments[c.id].order} \ {NoOrder})
  ELSE Rejected(d)

removePayment(d, p) == [d EXCEPT !.payments = Without(@, {p})]

deletePayment(d, c) ==
  IF c.id \in DOMAIN d.payments
  THEN Done(removePayment(d, c.id), OrdersOf(d.payments[c.id]))
  ELSE Rejected(d)

loadPaymentSnapshot(d, p) ==
  [kind |-> "payment", id |-> p, row |-> d.payments[p]]

\* Rows that name an order that is gone violate a foreign key: nothing is written.
restorePaymentSnapshot(d, snapshot) ==
  [d EXCEPT !.payments = Put(@, snapshot.id, snapshot.row)]

undoCreatePayment(d, after) ==
  IF after.id \in DOMAIN d.payments
  THEN Done(removePayment(d, after.id), OrdersOf(d.payments[after.id]))
  ELSE Done(d, {})

\* Of the orders concerned only the one the payment belonged to is computed again.
undoChangeOfPayment(d, before) ==
  IF OrdersOf(before.row) \subseteq DOMAIN d.orders
  THEN Done(restorePaymentSnapshot(d, before), {before.row.order} \ {NoOrder})
  ELSE Rejected(d)
=============================================================================
