----------------------------- MODULE CommandBus -----------------------------
(***************************************************************************)
(* The command bus (packages/shared/src/lib/commands) executing, undoing   *)
(* and redoing the commands of the sales module: a command takes a         *)
(* snapshot, runs its handler, and leaves an entry in the action log with  *)
(* what its undo will need.  One request at a time.                        *)
(***************************************************************************)
EXTENDS SalesDocuments, ActionLog

CONSTANTS
  Users,
  PaymentsMove,  \* whether a payment is ever given another order
  MaxLog         \* bound: entries of the log

VARIABLES
  db,      \* the rows of orders, quotes, shipments and payments
  log,     \* the action log
  states,  \* history: the database before and after the command of each entry
  stale    \* history: orders a handler has left with totals that are not theirs

vars == <<db, log, states, stale>>

\* The example orders are seeded without commands.
SeededOrder == NewOrder([l \in Lines |-> MaxQuantity], 0)

Init ==
  /\ \E seeded \in SUBSET Documents :
       db = [orders |-> [o \in seeded |-> SeededOrder],
             quotes |-> NoRows, shipments |-> NoRows, payments |-> NoRows]
  /\ log = <<>>
  /\ states = <<>>
  /\ stale = {}

(***************************************************************************)
(* The commands and their inputs                                           *)
(***************************************************************************)

Creates == {"orders.create", "quotes.create", "shipments.create", "payments.create"}
OrderCommands == {"orders.create", "orders.delete", "orders.lines.upsert",
                  "orders.lines.delete", "orders.adjustments.upsert",
                  "orders.adjustments.delete"}
QuoteCommands == {"quotes.create", "quotes.delete", "quotes.lines.upsert",
                  "quotes.lines.delete", "quotes.adjustments.upsert",
                  "quotes.adjustments.delete", "quotes.convert_to_order"}
ShipmentCommands == {"shipments.create", "shipments.update", "shipments.delete"}
PaymentCommands == {"payments.create", "payments.update", "payments.delete"}
Commands == OrderCommands \cup QuoteCommands \cup ShipmentCommands \cup PaymentCommands

\* Ids are never used twice.
Fresh(ids) == {i \in ids : /\ i \notin DOMAIN db.orders \cup DOMAIN db.quotes
                           /\ i \notin DOMAIN db.shipments \cup DOMAIN db.payments
                           /\ \A k \in DOMAIN log : log[k].payload.id # i}

Quantities == PartialFunctions(Lines, Quantity) \ {NoRows}

\* A request names a line (given) or leaves the id of a new one to the handler.
LineInputs(rows) ==
  {c \in [id : Documents, line : Lines, quantity : Quantity, given : BOOLEAN] :
     c.given \/ c.id \notin DOMAIN rows \/ c.line \notin DOMAIN rows[c.id].lines}

Inputs(command) ==
  CASE command \in {"orders.create", "quotes.create"} ->
         [id : Fresh(Documents), quantities : Quantities]
    [] command = "orders.lines.upsert" -> LineInputs(db.orders)
    [] command = "quotes.lines.upsert" -> LineInputs(db.quotes)
    [] command \in {"orders.lines.delete", "quotes.lines.delete"} ->
         [id : Documents, line : Lines]
    [] command \in {"orders.adjustments.upsert", "quotes.adjustments.upsert"} ->
         [id : Documents, discount : Quantity]
    [] command = "shipments.create" ->
         [id : Fresh(Shipments), order : Documents, items : Quantities]
    [] command = "shipments.update" -> [id : Shipments, items : Quantities]
    [] command = "shipments.delete" -> [id : Shipments]
    [] command = "payments.create" ->
         [id : Fresh(Payments), order : Documents, amount : Quantity]
    [] command = "payments.update" ->
         {c \in [id : Payments, order : Documents, amount : Quantity,
                reallocate : BOOLEAN] :
            \/ PaymentsMove
            \/ c.id \in DOMAIN db.payments =>
                 db.payments[c.id].order \in {c.order, NoOrder}}
    [] command = "payments.delete" -> [id : Payments]
    [] OTHER -> [id : Documents]

(***************************************************************************)
(* What the handlers of a command do                                       *)
(***************************************************************************)

execute(command, d, c) ==
  CASE command = "orders.create" -> createOrder(d, c)
    [] command = "orders.delete" -> deleteOrder(d, c)
    [] command = "orders.lines.upsert" -> orderLineUpsert(d, c)
    [] command = "orders.lines.delete" -> orderLineDelete(d, c)
    [] command = "orders.adjustments.upsert" -> orderAdjustmentUpsert(d, c)
    [] command = "orders.adjustments.delete" -> orderAdjustmentDelete(d, c)
    [] command = "quotes.create" -> createQuote(d, c)
    [] command = "quotes.delete" -> deleteQuote(d, c)
    [] command = "quotes.lines.upsert" -> quoteLineUpsert(d, c)
    [] command = "quotes.lines.delete" -> quoteLineDelete(d, c)
    [] command = "quotes.adjustments.upsert" -> quoteAdjustmentUpsert(d, c)
    [] command = "quotes.adjustments.delete" -> quoteAdjustmentDelete(d, c)
    [] command = "quotes.convert_to_order" -> convertQuoteToOrder(d, c)
    [] command = "shipments.create" -> createShipment(d, c)
    [] command = "shipments.update" -> updateShipment(d, c)
    [] command = "shipments.delete" -> deleteShipment(d, c)
    [] command = "payments.create" -> createPayment(d, c)
    [] command = "payments.update" -> updatePayment(d, c)
    [] command = "payments.delete" -> deletePayment(d, c)

undo(command, d, snapshot) ==
  CASE command = "orders.create" -> undoCreateOrder(d, snapshot)
    [] command = "quotes.create" -> undoCreateQuote(d, snapshot)
    [] command = "shipments.create" -> undoCreateShipment(d, snapshot)
    [] command = "payments.create" -> undoCreatePayment(d, snapshot)
    [] command \in OrderCommands \ Creates -> restoreOrderGraph(d, snapshot)
    [] command \in QuoteCommands \ Creates -> restoreQuoteGraph(d, snapshot)
    [] command \in ShipmentCommands \ Creates -> undoChangeOfShipment(d, snapshot)
    [] command \in PaymentCommands \ Creates -> undoChangeOfPayment(d, snapshot)

snapshotOf(command, d, id) ==
  CASE command \in OrderCommands -> loadOrderSnapshot(d, id)
    [] command \in QuoteCommands -> loadQuoteSnapshot(d, id)
    [] command \in ShipmentCommands -> loadShipmentSnapshot(d, id)
    [] command \in PaymentCommands -> loadPaymentSnapshot(d, id)

\* The second flush of the handlers of shipments and payments.
recompute(command, outcome) ==
  LET d == outcome.db
  IN [d EXCEPT !.orders =
       [o \in DOMAIN @ |-> IF o \notin outcome.touched THEN @[o]
                          ELSE IF command \in ShipmentCommands
                          THEN recomputeFulfilledQuantities(d, o)
                          ELSE recomputeOrderPaymentTotals(d, o)]]

(***************************************************************************)
(* What is logged.  buildLog is not handed the snapshot taken afterwards:  *)
(* builders that ask for it return null, so that the entry names no        *)
(* resource and carries the one snapshot the bus itself has.               *)
(***************************************************************************)

resourceOf(command, id) ==
  CASE command = "quotes.convert_to_order" -> <<"sales.order", id>>
    [] command = "orders.delete" -> <<"sales.order", id>>
    [] command = "quotes.delete" -> <<"sales.quote", id>>
    [] command \in ShipmentCommands \ Creates -> <<"sales.shipment", id>>
    [] command \in PaymentCommands \ Creates -> <<"sales.payment", id>>
    [] OTHER -> NoResource

\* A created row is what was found afterwards, any other what was there before.
payloadOf(command, before, after, id) ==
  snapshotOf(command, IF command \in Creates THEN after ELSE before, id)

newEntry(user, command, c, after) ==
  Entry(user, command, c, resourceOf(command, c.id), payloadOf(command, db, after, c.id))

(***************************************************************************)
(* Requests                                                                *)
(***************************************************************************)

\* Orders whose payments have changed, and which nobody computes again.
Neglected(outcome) ==
  {o \in DOMAIN db.orders \cap DOMAIN outcome.db.orders :
     /\ o \notin outcome.touched
     /\ outcome.db.orders[o] = db.orders[o]
     /\ PaidTotal(outcome.db, o) # PaidTotal(db, o)}

\* A handler that throws after its first deletions has changed its order.
Failed(outcome, id) ==
  /\ db' = outcome.db
  /\ stale' = IF outcome.db = db THEN stale ELSE stale \cup {id}
  /\ UNCHANGED <<log, states>>

Logged(user, command, c, previous) ==
  LET outcome == execute(command, db, c)
      after == recompute(command, outcome)
  IN IF outcome.done
     THEN /\ db' = after
          /\ log' = Append(previous, newEntry(user, command, c, after))
          /\ states' = Append(states, [before |-> db, after |-> after])
          /\ stale' = stale \cup Neglected(outcome)
     ELSE Failed(outcome, c.id)

Execute(user) ==
  /\ Len(log) < MaxLog
  /\ \E command \in Commands : \E c \in Inputs(command) : Logged(user, command, c, log)

Undo(user) ==
  \E i \in DOMAIN log :
    LET outcome == undo(log[i].command, db, log[i].payload)
    IN /\ mayUndo(log, user, i)
       /\ IF outcome.done
          THEN /\ db' = recompute(log[i].command, outcome)
               /\ log' = markUndone(log, i)
               /\ stale' = stale \cup Neglected(outcome)
               /\ UNCHANGED states
          ELSE Failed(outcome, log[i].payload.id)

\* The command runs again on its own input; what it creates has a new id.
RedoInputs(e) ==
  IF e.command \notin Creates THEN {e.input} \cap Inputs(e.command)
  ELSE {[e.input EXCEPT !.id = id] : id \in {c.id : c \in Inputs(e.command)}}

Redo(user) ==
  /\ Len(log) < MaxLog
  /\ \E i \in DOMAIN log :
       /\ mayRedo(log, user, i)
       /\ \E c \in RedoInputs(log[i]) : Logged(user, log[i].command, c, markRedone(log, i))

Next == \E user \in Users : Execute(user) \/ Undo(user) \/ Redo(user)

Spec == Init /\ [][Next]_vars

(***************************************************************************)
(* Properties                                                              *)
(***************************************************************************)

\* The type invariant: rows and entries have the columns of the tables.
TypeOK ==
  /\ IsDatabase(db)
  /\ \A i \in DOMAIN log : /\ log[i].actor \in Users
                           /\ log[i].command \in Commands
                           /\ log[i].state \in {"done", "undone", "redone"}
  /\ Len(states) = Len(log) /\ stale \subseteq Documents

\* What a line says is fulfilled is what the shipments of its order hold,
\* whichever commands were executed, undone and redone in whichever order.
FulfilledAgrees ==
  \A o \in DOMAIN db.orders : \A l \in DOMAIN db.orders[o].lines :
    db.orders[o].lines[l].fulfilled = loadShippedTotals(db, o, l, {})

\* What an order says it costs, was paid and is outstanding follows from its
\* lines, its discount and the payments, unless a handler failed halfway or
\* took a payment from the order without computing the order again.
TotalsAgree ==
  \A o \in DOMAIN db.orders \ stale :
    LET order == db.orders[o]
    IN /\ order.grand = GrandTotal(QuantitiesOf(order), order.discount)
       /\ order.paid = PaidTotal(db, o)
       /\ order.outstanding = Minus(order.grand, order.paid)

\* Shipments belong to orders that exist and ship lines that these still have;
\* nothing is allocated to an order that is gone: restoring a snapshot of a
\* row whose surroundings have changed since breaks no reference.
ReferencesExist ==
  /\ \A s \in DOMAIN db.shipments :
       /\ db.shipments[s].order \in DOMAIN db.orders
       /\ DOMAIN db.shipments[s].items \subseteq
            DOMAIN db.orders[db.shipments[s].order].lines
  /\ \A p \in DOMAIN db.payments :
       OrdersOf(db.payments[p]) \subseteq DOMAIN db.orders

UndoneNow(i) == i \in DOMAIN log /\ log[i].state = "done" /\ log'[i].state = "undone"

\* The same rows, but for what some orders say was paid and is outstanding.
SameBut(unsure, d, e) ==
  LET unpaid(order) == [order EXCEPT !.paid = 0, !.outstanding = 0]
  IN /\ d.quotes = e.quotes /\ d.shipments = e.shipments /\ d.payments = e.payments
     /\ DOMAIN d.orders = DOMAIN e.orders
     /\ \A o \in DOMAIN d.orders :
          IF o \in unsure THEN unpaid(d.orders[o]) = unpaid(e.orders[o])
          ELSE d.orders[o] = e.orders[o]

Reverses(i) ==
  UndoneNow(i) /\ db = states[i].after => SameBut(stale', db', states[i].before)

\* An undo that finds the data as its command left it brings back the data as
\* its command found it: rows, items, allocations and derived totals alike,
\* but for the payment totals of orders that were not computed again.  The
\* conversion of a quote is logged without the order it made (execute passes
\* buildLog what was read before), and its undo leaves that order.
UndoReverses ==
  [][\A i \in DOMAIN log : log[i].command # "quotes.convert_to_order" => Reverses(i)]_vars
=============================================================================
