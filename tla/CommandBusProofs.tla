-------------------------- MODULE CommandBusProofs --------------------------
(***************************************************************************)
(* The invariants of CommandBus for every value of its constants, as long  *)
(* as no payment is given another order: what an order says was shipped    *)
(* and paid agrees with its rows, whichever commands are executed, undone  *)
(* and redone by whom.  SalesProofs says what each change of the database  *)
(* preserves; here are the commands, their snapshots and the log.          *)
(***************************************************************************)
EXTENDS CommandBus, SalesProofs, SequenceTheorems

\* The inputs of a command whatever the database and the log are.
InputsOf(command) ==
  CASE command \in {"orders.create", "quotes.create"} ->
         [id : Documents, quantities : PartialFunctions(Lines, Quantity)]
    [] command \in {"orders.lines.upsert", "quotes.lines.upsert"} ->
         [id : Documents, line : Lines, quantity : Quantity, given : BOOLEAN]
    [] command \in {"orders.lines.delete", "quotes.lines.delete"} ->
         [id : Documents, line : Lines]
    [] command \in {"orders.adjustments.upsert", "quotes.adjustments.upsert"} ->
         [id : Documents, discount : Quantity]
    [] command = "shipments.create" ->
         [id : Shipments, order : Documents, items : PartialFunctions(Lines, Quantity)]
    [] command = "shipments.update" ->
         [id : Shipments, items : PartialFunctions(Lines, Quantity)]
    [] command = "shipments.delete" -> [id : Shipments]
    [] command = "payments.create" -> [id : Payments, order : Documents, amount : Quantity]
    [] command = "payments.update" ->
         [id : Payments, order : Documents, amount : Quantity, reallocate : BOOLEAN]
    [] command = "payments.delete" -> [id : Payments]
    [] OTHER -> [id : Documents]

(***************************************************************************)
(* Quotes                                                                  *)
(***************************************************************************)

\* A quote is written.
LEMMA QuotePut ==
  ASSUME NEW d, NEW unsure, NEW home, Sound(d, unsure, home),
         NEW q \in Documents, NEW row \in QuoteRow
  PROVE  /\ PutQuote(d, q, row).done /\ PutQuote(d, q, row).touched = {}
         /\ Sound(PutQuote(d, q, row).db, unsure, home)
         /\ q \in DOMAIN PutQuote(d, q, row).db.quotes
<1>1. PICK quotes : quotes = Put(d.quotes, q, row)
  OBVIOUS
<1>2. d \in Database /\ d.quotes \in PartialFunctions(Documents, QuoteRow)
  BY Fields DEF Sound
<1>3. quotes \in PartialFunctions(Documents, QuoteRow)
  BY <1>1, <1>2, PutTyped
<1>4. q \in DOMAIN quotes
  BY <1>1 DEF Put, Over, Only
<1>5. PutQuote(d, q, row) = Done([d EXCEPT !.quotes = quotes], {})
  BY <1>1 DEF PutQuote
<1>6. /\ PutQuote(d, q, row).done /\ PutQuote(d, q, row).touched = {}
      /\ PutQuote(d, q, row).db = [d EXCEPT !.quotes = quotes]
  BY <1>5 DEF Done
<1>7. [d EXCEPT !.quotes = quotes].quotes = quotes
  BY <1>2 DEF Database
<1> QED
  BY <1>3, <1>4, <1>6, <1>7, QuotesChange

\* A quote is deleted.
LEMMA QuoteGone ==
  ASSUME NEW d, NEW unsure, NEW home, Sound(d, unsure, home), NEW q
  PROVE  Sound([d EXCEPT !.quotes = Without(@, {q})], unsure, home)
<1>1. PICK quotes : quotes = Without(d.quotes, {q})
  OBVIOUS
<1>2. d \in Database /\ d.quotes \in PartialFunctions(Documents, QuoteRow)
  BY Fields DEF Sound
<1>3. quotes \in PartialFunctions(Documents, QuoteRow)
  BY <1>1, <1>2, WithoutTyped
<1>4. Sound([d EXCEPT !.quotes = quotes], unsure, home)
  BY <1>3, QuotesChange
<1> QED
  BY <1>1, <1>4

\* A row of a quote with a field changed is a row.
LEMMA QuoteRowChanged ==
  ASSUME NEW row \in QuoteRow
  PROVE  /\ \A lines \in PartialFunctions(Lines, Quantity) :
              [row EXCEPT !.lines = lines] \in QuoteRow
         /\ \A discount \in Nat : [row EXCEPT !.discount = discount] \in QuoteRow
BY DEF QuoteRow

\* Every quantity is a number.
LEMMA QuantityNumber == Quantity \subseteq Nat
BY SalesAssumption DEF Quantity

\* A command about a quote, but its conversion, is executed or rejected whole.
LEMMA QuoteExecuted ==
  ASSUME NEW d, NEW unsure, NEW home, Sound(d, unsure, home),
         NEW command \in QuoteCommands \ {"quotes.convert_to_order"},
         NEW c \in InputsOf(command), NEW out, out = execute(command, d, c)
  PROVE  /\ out.touched = {} /\ c.id \in Documents
         /\ out.done => /\ Sound(out.db, unsure, home)
                        /\ c.id \in DOMAIN (IF command \in Creates THEN out.db ELSE d).quotes
         /\ ~ out.done => out.db = d
<1>0. d \in Database /\ \A q \in DOMAIN d.quotes : d.quotes[q] \in QuoteRow
  BY RowsTyped DEF Sound
<1>1. CASE command = "quotes.create"
  <2>1. out = createQuote(d, c)
    BY <1>1 DEF execute
  <2>2. c \in [id : Documents, quantities : PartialFunctions(Lines, Quantity)]
    BY <1>1 DEF InputsOf
  <2>3. PICK row : row = [lines |-> c.quantities, discount |-> 0]
    OBVIOUS
  <2>4. row \in QuoteRow /\ out = PutQuote(d, c.id, row)
    BY <2>1, <2>2, <2>3 DEF createQuote, QuoteRow
  <2> QED
    BY <1>1, <2>2, <2>4, QuotePut DEF Creates
<1>2. CASE command = "quotes.delete"
  <2>1. out = deleteQuote(d, c)
    BY <1>2 DEF execute
  <2>2. c \in [id : Documents]
    BY <1>2 DEF InputsOf
  <2>3. CASE c.id \in DOMAIN d.quotes
    <3>1. out = Done([d EXCEPT !.quotes = Without(@, {c.id})], {})
      BY <2>1, <2>3 DEF deleteQuote
    <3>2. out.done /\ out.touched = {} /\ out.db = [d EXCEPT !.quotes = Without(@, {c.id})]
      BY <3>1 DEF Done
    <3>3. Sound([d EXCEPT !.quotes = Without(@, {c.id})], unsure, home)
      BY QuoteGone
    <3>4. Sound(out.db, unsure, home)
      BY <3>2, <3>3
    <3>5. command \notin Creates
      BY <1>2 DEF Creates
    <3> QED
      BY <2>2, <2>3, <3>2, <3>4, <3>5
  <2>4. CASE c.id \notin DOMAIN d.quotes
    BY <2>1, <2>2, <2>4 DEF deleteQuote, Rejected
  <2> QED
    BY <2>3, <2>4
<1>3. CASE command = "quotes.lines.upsert"
  <2>1. out = quoteLineUpsert(d, c)
    BY <1>3 DEF execute
  <2>2. c \in [id : Documents, line : Lines, quantity : Quantity, given : BOOLEAN]
    BY <1>3 DEF InputsOf
  <2>3. CASE c.id \in DOMAIN d.quotes
    <3>1. PICK lines : lines = Upserted(d.quotes[c.id].lines, c, c.quantity)
      OBVIOUS
    <3>2. PICK row : row = [d.quotes[c.id] EXCEPT !.lines = lines]
      OBVIOUS
    <3>3. d.quotes[c.id].lines \in PartialFunctions(Lines, Quantity)
      BY <1>0, <2>3 DEF QuoteRow
    <3>4. lines \in PartialFunctions(Lines, Quantity)
      BY <2>2, <3>1, <3>3, PutTyped DEF Upserted
    <3>5. row \in QuoteRow
      BY <1>0, <2>3, <3>2, <3>4, QuoteRowChanged
    <3>6. out = PutQuote(d, c.id, row)
      BY <2>1, <2>3, <3>1, <3>2 DEF quoteLineUpsert
    <3> QED
      BY <1>3, <2>2, <2>3, <3>5, <3>6, QuotePut DEF Creates
  <2>4. CASE c.id \notin DOMAIN d.quotes
    BY <2>1, <2>2, <2>4 DEF quoteLineUpsert, Rejected
  <2> QED
    BY <2>3, <2>4
<1>4. CASE command = "quotes.lines.delete"
  <2>1. out = quoteLineDelete(d, c)
    BY <1>4 DEF execute
  <2>2. c \in [id : Documents, line : Lines]
    BY <1>4 DEF InputsOf
  <2>3. CASE c.id \in DOMAIN d.quotes /\ c.line \in DOMAIN d.quotes[c.id].lines
    <3>1. PICK lines : lines = Without(d.quotes[c.id].lines, {c.line})
      OBVIOUS
    <3>2. PICK row : row = [d.quotes[c.id] EXCEPT !.lines = lines]
      OBVIOUS
    <3>3. d.quotes[c.id].lines \in PartialFunctions(Lines, Quantity)
      BY <1>0, <2>3 DEF QuoteRow
    <3>4. lines \in PartialFunctions(Lines, Quantity)
      BY <3>1, <3>3, WithoutTyped
    <3>5. row \in QuoteRow
      BY <1>0, <2>3, <3>2, <3>4, QuoteRowChanged
    <3>6. out = PutQuote(d, c.id, row)
      BY <2>1, <2>3, <3>1, <3>2 DEF quoteLineDelete
    <3> QED
      BY <1>4, <2>2, <2>3, <3>5, <3>6, QuotePut DEF Creates
  <2>4. CASE ~ (c.id \in DOMAIN d.quotes /\ c.line \in DOMAIN d.quotes[c.id].lines)
    BY <2>1, <2>2, <2>4 DEF quoteLineDelete, Rejected
  <2> QED
    BY <2>3, <2>4
<1>5. CASE command = "quotes.adjustments.upsert"
  <2>1. out = quoteAdjustmentUpsert(d, c)
    BY <1>5 DEF execute
  <2>2. c \in [id : Documents, discount : Quantity]
    BY <1>5 DEF InputsOf
  <2>3. CASE c.id \in DOMAIN d.quotes
    <3>1. PICK row : row = [d.quotes[c.id] EXCEPT !.discount = c.discount]
      OBVIOUS
    <3>2. row \in QuoteRow
      BY <1>0, <2>2, <2>3, <3>1, QuoteRowChanged, QuantityNumber
    <3>3. out = PutQuote(d, c.id, row)
      BY <2>1, <2>3, <3>1 DEF quoteAdjustmentUpsert
    <3> QED
      BY <1>5, <2>2, <2>3, <3>2, <3>3, QuotePut DEF Creates
  <2>4. CASE c.id \notin DOMAIN d.quotes
    BY <2>1, <2>2, <2>4 DEF quoteAdjustmentUpsert, Rejected
  <2> QED
    BY <2>3, <2>4
<1>6. CASE command = "quotes.adjustments.delete"
  <2>1. out = quoteAdjustmentDelete(d, c)
    BY <1>6 DEF execute
  <2>2. c \in [id : Documents]
    BY <1>6 DEF InputsOf
  <2>3. CASE c.id \in DOMAIN d.quotes /\ d.quotes[c.id].discount > 0
    <3>1. PICK row : row = [d.quotes[c.id] EXCEPT !.discount = 0]
      OBVIOUS
    <3>2. row \in QuoteRow
      BY <1>0, <2>3, <3>1, QuoteRowChanged
    <3>3. out = PutQuote(d, c.id, row)
      BY <2>1, <2>3, <3>1 DEF quoteAdjustmentDelete
    <3> QED
      BY <1>6, <2>2, <2>3, <3>2, <3>3, QuotePut DEF Creates
  <2>4. CASE ~ (c.id \in DOMAIN d.quotes /\ d.quotes[c.id].discount > 0)
    BY <2>1, <2>2, <2>4 DEF quoteAdjustmentDelete, Rejected
  <2> QED
    BY <2>3, <2>4
<1> QED
  BY <1>1, <1>2, <1>3, <1>4, <1>5, <1>6 DEF QuoteCommands

(***************************************************************************)
(* Orders                                                                  *)
(***************************************************************************)

\* Totals follow from lines, discount and what was paid.
LEMMA TotalsApplied ==
  ASSUME NEW order \in OrderRow
  PROVE  LET row == applyOrderTotals(order)
         IN /\ row \in OrderRow /\ row.lines = order.lines /\ row.paid = order.paid
            /\ GrandAgrees(row) /\ row.outstanding = Minus(row.grand, row.paid)
<1>1. PICK grand : grand = GrandTotal(QuantitiesOf(order), order.discount)
  OBVIOUS
<1>2. order.lines \in PartialFunctions(Lines, LineRow) /\ order.discount \in Nat
      /\ order.paid \in Nat
  BY DEF OrderRow
<1>3. QuantitiesOf(order) \in PartialFunctions(Lines, Quantity)
  BY <1>2, QuantitiesTyped
<1>4. grand \in Nat
  BY <1>1, <1>2, <1>3, GrandNumber
<1>5. PICK outstanding : outstanding = Minus(grand, order.paid)
  OBVIOUS
<1>6. outstanding \in Nat
  BY <1>2, <1>4, <1>5, MinusNumber
<1>7. PICK row : row = applyOrderTotals(order)
  OBVIOUS
<1>8. row = [order EXCEPT !.grand = grand, !.outstanding = outstanding]
  BY <1>1, <1>5, <1>7 DEF applyOrderTotals
<1>9. /\ row \in OrderRow /\ row.lines = order.lines /\ row.paid = order.paid
      /\ row.discount = order.discount /\ row.grand = grand /\ row.outstanding = outstanding
  BY <1>4, <1>6, <1>8 DEF OrderRow
<1>10. QuantitiesOf(row) = QuantitiesOf(order)
  BY <1>9 DEF QuantitiesOf
<1> QED
  BY <1>1, <1>5, <1>7, <1>9, <1>10 DEF GrandAgrees

\* A new order.
LEMMA NewOrderRow ==
  ASSUME NEW quantities \in PartialFunctions(Lines, Quantity), NEW discount \in Nat
  PROVE  LET row == NewOrder(quantities, discount)
         IN /\ row \in OrderRow /\ row.paid = 0 /\ GrandAgrees(row)
            /\ row.outstanding = Minus(row.grand, row.paid)
            /\ \A l \in DOMAIN row.lines : row.lines[l].fulfilled = 0
<1>1. PICK lines : lines = [l \in DOMAIN quantities |->
                              [quantity |-> quantities[l], fulfilled |-> 0]]
  OBVIOUS
<1>2. DOMAIN quantities \subseteq Lines /\ \A l \in DOMAIN quantities : quantities[l] \in Quantity
  BY PartialIs
<1>3. /\ DOMAIN lines \subseteq Lines /\ lines = [l \in DOMAIN lines |-> lines[l]]
      /\ \A l \in DOMAIN lines : lines[l] \in LineRow /\ lines[l].fulfilled = 0
  BY <1>1, <1>2 DEF LineRow
<1>4. lines \in PartialFunctions(Lines, LineRow)
  BY <1>3, PartialIs
<1>5. PICK order : order = [lines |-> lines, discount |-> discount, grand |-> 0, paid |-> 0,
                            outstanding |-> 0]
  OBVIOUS
<1>6. order \in OrderRow /\ order.lines = lines /\ order.paid = 0
  BY <1>4, <1>5 DEF OrderRow
<1>7. NewOrder(quantities, discount) = applyOrderTotals(order)
  BY <1>1, <1>5 DEF NewOrder
<1> QED
  BY <1>3, <1>6, <1>7, TotalsApplied

\* A new order is written where there is none.
LEMMA OrderNew ==
  ASSUME NEW d, NEW unsure, NEW home, Sound(d, unsure, home),
         NEW o \in Documents, o \notin DOMAIN d.orders,
         NEW quantities \in PartialFunctions(Lines, Quantity), NEW discount \in Nat,
         NEW row, row = NewOrder(quantities, discount)
  PROVE  Sound([d EXCEPT !.orders = Put(@, o, row)], unsure, home)
<1>1. /\ row \in OrderRow /\ row.paid = 0 /\ GrandAgrees(row)
      /\ row.outstanding = Minus(row.grand, row.paid)
      /\ \A l \in DOMAIN row.lines : row.lines[l].fulfilled = 0
  BY NewOrderRow
<1>2. ShipmentsOf(d, o) = {}
  BY DEF Sound, Referenced, ShipmentsOf
<1> QED
  BY <1>1, <1>2, OrderPut

\* An order that exists is written, its lines changed without losing what was
\* shipped, its totals computed again.
LEMMA OrderChanged ==
  ASSUME NEW d, NEW unsure, NEW home, Sound(d, unsure, home), NEW o \in DOMAIN d.orders,
         NEW order \in OrderRow, order.paid = d.orders[o].paid,
         \A l \in DOMAIN order.lines : order.lines[l].fulfilled =
           IF l \in DOMAIN d.orders[o].lines THEN d.orders[o].lines[l].fulfilled ELSE 0,
         \A s \in ShipmentsOf(d, o) : DOMAIN d.shipments[s].items \subseteq DOMAIN order.lines,
         NEW out, out = PutOrder(d, o, applyOrderTotals(order))
  PROVE  /\ out.done /\ out.touched = {} /\ Sound(out.db, unsure, home)
<1>1. PICK row : row = applyOrderTotals(order)
  OBVIOUS
<1>2. /\ row \in OrderRow /\ row.lines = order.lines /\ row.paid = order.paid
      /\ GrandAgrees(row) /\ row.outstanding = Minus(row.grand, row.paid)
  BY <1>1, TotalsApplied
<1>3. o \in Documents
  BY RowsTyped DEF Sound
<1>4. Sound([d EXCEPT !.orders = Put(@, o, row)], unsure, home)
  BY <1>2, <1>3, OrderPut
<1>5. out = Done([d EXCEPT !.orders = Put(@, o, row)], {})
  BY <1>1 DEF PutOrder
<1>6. out.done /\ out.touched = {} /\ out.db = [d EXCEPT !.orders = Put(@, o, row)]
  BY <1>5 DEF Done
<1> QED
  BY <1>4, <1>6

\* Shipments only hold lines of their order.
LEMMA ShippedLines ==
  ASSUME NEW d, NEW unsure, NEW home, Sound(d, unsure, home), NEW o
  PROVE  \A s \in ShipmentsOf(d, o) :
           DOMAIN d.shipments[s].items \subseteq DOMAIN d.orders[o].lines
BY DEF Sound, Referenced, ShipmentsOf

\* A command about an order is executed or rejected whole.
LEMMA OrderExecuted ==
  ASSUME NEW d, NEW unsure, NEW home, Sound(d, unsure, home),
         NEW command \in OrderCommands, NEW c \in InputsOf(command),
         command = "orders.create" => c.id \notin DOMAIN d.orders,
         NEW out, out = execute(command, d, c)
  PROVE  /\ out.touched = {} /\ c.id \in Documents
         /\ out.done => /\ Sound(out.db, unsure, home)
                        /\ c.id \in DOMAIN (IF command \in Creates THEN out.db ELSE d).orders
         /\ ~ out.done => out.db = d
<1>0. d \in Database /\ \A o \in DOMAIN d.orders : o \in Documents /\ d.orders[o] \in OrderRow
  BY RowsTyped DEF Sound
<1>1. CASE command = "orders.create"
  <2>1. out = createOrder(d, c)
    BY <1>1 DEF execute
  <2>2. c \in [id : Documents, quantities : PartialFunctions(Lines, Quantity)]
    BY <1>1 DEF InputsOf
  <2>3. PICK row : row = NewOrder(c.quantities, 0)
    OBVIOUS
  <2>4. PICK a : a = [d EXCEPT !.orders = Put(@, c.id, row)]
    OBVIOUS
  <2>5. Sound(a, unsure, home)
    BY <1>1, <2>2, <2>3, <2>4, OrderNew
  <2>6. out = Done(a, {})
    BY <2>1, <2>3, <2>4 DEF createOrder, PutOrder
  <2>7. out.done /\ out.touched = {} /\ out.db = a
    BY <2>6 DEF Done
  <2>8. a.orders = Put(d.orders, c.id, row)
    BY <1>0, <2>4 DEF Database
  <2>9. c.id \in DOMAIN a.orders
    BY <2>8 DEF Put, Over, Only
  <2>10. command \in Creates
    BY <1>1 DEF Creates
  <2> QED
    BY <2>2, <2>5, <2>7, <2>9, <2>10
<1>2. CASE command = "orders.delete"
  <2>1. out = deleteOrder(d, c)
    BY <1>2 DEF execute
  <2>2. c \in [id : Documents]
    BY <1>2 DEF InputsOf
  <2>3. CASE c.id \in DOMAIN d.orders
    <3>1. PICK a : a = [withoutRecords(d, c.id) EXCEPT !.orders = Without(@, {c.id})]
      OBVIOUS
    <3>2. ~ RemainsAllocated(d, c.id)
      BY NeverAllocatedElsewhere DEF Sound
    <3>3. out = Done(a, {})
      BY <2>1, <2>3, <3>1, <3>2 DEF deleteOrder
    <3>4. out.done /\ out.touched = {} /\ out.db = a
      BY <3>3 DEF Done
    <3>5. Sound(a, unsure, home)
      BY <2>2, <3>1, OrderGone
    <3>6. command \notin Creates
      BY <1>2 DEF Creates
    <3> QED
      BY <2>2, <2>3, <3>4, <3>5, <3>6
  <2>4. CASE c.id \notin DOMAIN d.orders
    BY <2>1, <2>2, <2>4 DEF deleteOrder, Rejected
  <2> QED
    BY <2>3, <2>4
<1>3. CASE command = "orders.lines.upsert"
  <2>1. out = orderLineUpsert(d, c)
    BY <1>3 DEF execute
  <2>2. c \in [id : Documents, line : Lines, quantity : Quantity, given : BOOLEAN]
    BY <1>3 DEF InputsOf
  <2>3. CASE c.id \in DOMAIN d.orders
    <3>0. PICK old : old = d.orders[c.id].lines
      OBVIOUS
    <3>1. PICK fulfilled : fulfilled = IF c.line \in DOMAIN old THEN old[c.line].fulfilled ELSE 0
      OBVIOUS
    <3>2. PICK line : line = [quantity |-> c.quantity, fulfilled |-> fulfilled]
      OBVIOUS
    <3>3. PICK lines : lines = Upserted(old, c, line)
      OBVIOUS
    <3>4. PICK order : order = [d.orders[c.id] EXCEPT !.lines = lines]
      OBVIOUS
    <3>5. old \in PartialFunctions(Lines, LineRow)
      BY <1>0, <2>3, <3>0 DEF OrderRow
    <3>6. \A l \in DOMAIN old : old[l] \in LineRow
      BY <3>5, PartialIs
    <3>7. line \in LineRow
      BY <2>2, <3>1, <3>2, <3>6 DEF LineRow
    <3>8. lines \in PartialFunctions(Lines, LineRow)
      BY <2>2, <3>3, <3>5, <3>7, PutTyped DEF Upserted
    <3>9. order \in OrderRow /\ order.lines = lines /\ order.paid = d.orders[c.id].paid
      BY <1>0, <2>3, <3>4, <3>8 DEF OrderRow
    <3>10. /\ DOMAIN old \subseteq DOMAIN lines /\ DOMAIN lines \subseteq DOMAIN old \cup {c.line}
           /\ c.line \in DOMAIN lines => lines[c.line] = line
           /\ \A l \in DOMAIN old : l # c.line => lines[l] = old[l]
      <4>1. CASE lines = old /\ c.line \notin DOMAIN old
        BY <4>1
      <4>2. CASE lines = Put(old, c.line, line)
        <5>1. DOMAIN lines = DOMAIN old \cup {c.line} /\ lines[c.line] = line
              /\ \A l \in DOMAIN old : l # c.line => lines[l] = old[l]
          BY <4>2 DEF Put, Over, Only
        <5> QED
          BY <5>1
      <4> QED
        BY <3>3, <4>1, <4>2 DEF Upserted
    <3>11. \A l \in DOMAIN lines : lines[l].fulfilled =
             IF l \in DOMAIN old THEN old[l].fulfilled ELSE 0
      BY <3>1, <3>2, <3>10
    <3>12. \A s \in ShipmentsOf(d, c.id) : DOMAIN d.shipments[s].items \subseteq DOMAIN lines
      BY <3>0, <3>10, ShippedLines
    <3>13. out = PutOrder(d, c.id, applyOrderTotals(order))
      BY <2>1, <2>3, <3>0, <3>1, <3>2, <3>3, <3>4 DEF orderLineUpsert
    <3>14. out.done /\ out.touched = {} /\ Sound(out.db, unsure, home)
      BY <2>3, <3>0, <3>9, <3>11, <3>12, <3>13, OrderChanged
    <3>15. command \notin Creates
      BY <1>3 DEF Creates
    <3> QED
      BY <2>2, <2>3, <3>14, <3>15
  <2>4. CASE c.id \notin DOMAIN d.orders
    BY <2>1, <2>2, <2>4 DEF orderLineUpsert, Rejected
  <2> QED
    BY <2>3, <2>4
<1>4. CASE command = "orders.lines.delete"
  <2>1. out = orderLineDelete(d, c)
    BY <1>4 DEF execute
  <2>2. c \in [id : Documents, line : Lines]
    BY <1>4 DEF InputsOf
  <2> DEFINE may == /\ c.id \in DOMAIN d.orders
                    /\ \A s \in ShipmentsOf(d, c.id) : c.line \notin DOMAIN d.shipments[s].items
                    /\ c.line \in DOMAIN d.orders[c.id].lines
  <2>3. CASE may
    <3>0. PICK old : old = d.orders[c.id].lines
      OBVIOUS
    <3>3. PICK lines : lines = Without(old, {c.line})
      OBVIOUS
    <3>4. PICK order : order = [d.orders[c.id] EXCEPT !.lines = lines]
      OBVIOUS
    <3>5. old \in PartialFunctions(Lines, LineRow)
      BY <1>0, <2>3, <3>0 DEF OrderRow
    <3>8. lines \in PartialFunctions(Lines, LineRow)
      BY <3>3, <3>5, WithoutTyped
    <3>9. order \in OrderRow /\ order.lines = lines /\ order.paid = d.orders[c.id].paid
      BY <1>0, <2>3, <3>4, <3>8 DEF OrderRow
    <3>10. DOMAIN lines = DOMAIN old \ {c.line} /\ \A l \in DOMAIN lines : lines[l] = old[l]
      BY <3>3 DEF Without, Restrict
    <3>11. \A l \in DOMAIN lines : lines[l].fulfilled =
             IF l \in DOMAIN old THEN old[l].fulfilled ELSE 0
      BY <3>10
    <3>12. \A s \in ShipmentsOf(d, c.id) : DOMAIN d.shipments[s].items \subseteq DOMAIN lines
      BY <2>3, <3>0, <3>10, ShippedLines
    <3>13. out = PutOrder(d, c.id, applyOrderTotals(order))
      BY <2>1, <2>3, <3>0, <3>3, <3>4 DEF orderLineDelete
    <3>14. out.done /\ out.touched = {} /\ Sound(out.db, unsure, home)
      BY <2>3, <3>0, <3>9, <3>11, <3>12, <3>13, OrderChanged
    <3>15. command \notin Creates
      BY <1>4 DEF Creates
    <3> QED
      BY <2>2, <2>3, <3>14, <3>15
  <2>4. CASE ~ may
    BY <2>1, <2>2, <2>4 DEF orderLineDelete, Rejected
  <2> QED
    BY <2>3, <2>4
<1>5. CASE command = "orders.adjustments.upsert"
  <2>1. out = orderAdjustmentUpsert(d, c)
    BY <1>5 DEF execute
  <2>2. c \in [id : Documents, discount : Quantity]
    BY <1>5 DEF InputsOf
  <2>3. CASE c.id \in DOMAIN d.orders
    <3>1. PICK order : order = [d.orders[c.id] EXCEPT !.discount = c.discount]
      OBVIOUS
    <3>2. /\ order \in OrderRow /\ order.lines = d.orders[c.id].lines
          /\ order.paid = d.orders[c.id].paid
      BY <1>0, <2>2, <2>3, <3>1, QuantityNumber DEF OrderRow
    <3>3. out = PutOrder(d, c.id, applyOrderTotals(order))
      BY <2>1, <2>3, <3>1 DEF orderAdjustmentUpsert
    <3>4. \A s \in ShipmentsOf(d, c.id) : DOMAIN d.shipments[s].items \subseteq DOMAIN order.lines
      BY <3>2, ShippedLines
    <3>5. out.done /\ out.touched = {} /\ Sound(out.db, unsure, home)
      BY <2>3, <3>2, <3>3, <3>4, OrderChanged
    <3>6. command \notin Creates
      BY <1>5 DEF Creates
    <3> QED
      BY <2>2, <2>3, <3>5, <3>6
  <2>4. CASE c.id \notin DOMAIN d.orders
    BY <2>1, <2>2, <2>4 DEF orderAdjustmentUpsert, Rejected
  <2> QED
    BY <2>3, <2>4
<1>6. CASE command = "orders.adjustments.delete"
  <2>1. out = orderAdjustmentDelete(d, c)
    BY <1>6 DEF execute
  <2>2. c \in [id : Documents]
    BY <1>6 DEF InputsOf
  <2>3. CASE c.id \in DOMAIN d.orders /\ d.orders[c.id].discount > 0
    <3>1. PICK order : order = [d.orders[c.id] EXCEPT !.discount = 0]
      OBVIOUS
    <3>2. /\ order \in OrderRow /\ order.lines = d.orders[c.id].lines
          /\ order.paid = d.orders[c.id].paid
      BY <1>0, <2>3, <3>1 DEF OrderRow
    <3>3. out = PutOrder(d, c.id, applyOrderTotals(order))
      BY <2>1, <2>3, <3>1 DEF orderAdjustmentDelete
    <3>4. \A s \in ShipmentsOf(d, c.id) : DOMAIN d.shipments[s].items \subseteq DOMAIN order.lines
      BY <3>2, ShippedLines
    <3>5. out.done /\ out.touched = {} /\ Sound(out.db, unsure, home)
      BY <2>3, <3>2, <3>3, <3>4, OrderChanged
    <3>6. command \notin Creates
      BY <1>6 DEF Creates
    <3> QED
      BY <2>2, <2>3, <3>5, <3>6
  <2>4. CASE ~ (c.id \in DOMAIN d.orders /\ d.orders[c.id].discount > 0)
    BY <2>1, <2>2, <2>4 DEF orderAdjustmentDelete, Rejected
  <2> QED
    BY <2>3, <2>4
<1> QED
  BY <1>1, <1>2, <1>3, <1>4, <1>5, <1>6 DEF OrderCommands

\* The conversion of a quote is executed or rejected whole.
LEMMA ConversionExecuted ==
  ASSUME NEW d, NEW unsure, NEW home, Sound(d, unsure, home),
         NEW c \in InputsOf("quotes.convert_to_order"),
         NEW out, out = execute("quotes.convert_to_order", d, c)
  PROVE  /\ out.touched = {} /\ c.id \in Documents
         /\ out.done => Sound(out.db, unsure, home) /\ c.id \in DOMAIN d.quotes
         /\ ~ out.done => out.db = d
<1>0. d \in Database /\ \A q \in DOMAIN d.quotes : d.quotes[q] \in QuoteRow
  BY RowsTyped DEF Sound
<1>1. out = convertQuoteToOrder(d, c)
  BY DEF execute
<1>2. c \in [id : Documents]
  BY DEF InputsOf
<1>3. CASE c.id \in DOMAIN d.quotes /\ c.id \notin DOMAIN d.orders
  <2>1. PICK row : row = NewOrder(d.quotes[c.id].lines, d.quotes[c.id].discount)
    OBVIOUS
  <2>2. PICK orders : orders = Put(d.orders, c.id, row)
    OBVIOUS
  <2>3. PICK a : a = [d EXCEPT !.orders = orders]
    OBVIOUS
  <2>4. /\ d.quotes[c.id].lines \in PartialFunctions(Lines, Quantity)
        /\ d.quotes[c.id].discount \in Nat
    BY <1>0, <1>3 DEF QuoteRow
  <2>5. Sound(a, unsure, home)
    BY <1>2, <1>3, <2>1, <2>2, <2>3, <2>4, OrderNew
  <2>6. a \in Database /\ a.quotes = d.quotes
    BY <1>0, <2>3, <2>5 DEF Sound, Database
  <2>7. PICK quotes : quotes = Without(d.quotes, {c.id})
    OBVIOUS
  <2>8. Sound([a EXCEPT !.quotes = Without(@, {c.id})], unsure, home)
    BY <2>5, QuoteGone
  <2>9. Sound([a EXCEPT !.quotes = quotes], unsure, home)
    BY <2>6, <2>7, <2>8
  <2>10. out = Done([d EXCEPT !.orders = orders, !.quotes = quotes], {})
    BY <1>1, <1>3, <2>1, <2>2, <2>7 DEF convertQuoteToOrder
  <2>11. [d EXCEPT !.orders = orders, !.quotes = quotes] = [a EXCEPT !.quotes = quotes]
    BY <1>0, <2>3 DEF Database
  <2>12. out.done /\ out.touched = {} /\ out.db = [a EXCEPT !.quotes = quotes]
    BY <2>10, <2>11 DEF Done
  <2> QED
    BY <1>2, <1>3, <2>9, <2>12
<1>4. CASE ~ (c.id \in DOMAIN d.quotes /\ c.id \notin DOMAIN d.orders)
  BY <1>1, <1>2, <1>4 DEF convertQuoteToOrder, Rejected
<1> QED
  BY <1>3, <1>4

(***************************************************************************)
(* Shipments                                                               *)
(***************************************************************************)

\* A shipment is written for its order: it is new, or stays with its order.
LEMMA ShipmentPut ==
  ASSUME NEW d, NEW unsure, NEW home, Sound(d, unsure, home),
         NEW s \in Shipments, NEW row \in ShipmentRow,
         row.order \in DOMAIN d.orders,
         DOMAIN row.items \subseteq DOMAIN d.orders[row.order].lines,
         s \in DOMAIN d.shipments => d.shipments[s].order = row.order,
         NEW newHome, AtHome(d, newHome), s \in DOMAIN newHome, newHome[s] = row.order,
         NEW T, row.order \in T,
         NEW e, e = [d EXCEPT !.shipments = Put(@, s, row)]
  PROVE  /\ Sound(WithFulfilled(e, T), unsure, newHome)
         /\ WithFulfilled(e, T).shipments = Put(d.shipments, s, row)
<1>0. d \in Database /\ d.shipments \in PartialFunctions(Shipments, ShipmentRow)
  BY Fields DEF Sound
<1>1. PICK rows : rows = Put(d.shipments, s, row)
  OBVIOUS
<1>2. e = [d EXCEPT !.shipments = rows]
  BY <1>1
<1>3. rows \in PartialFunctions(Shipments, ShipmentRow)
  BY <1>0, <1>1, PutTyped
<1>4. /\ e.orders = d.orders /\ e.payments = d.payments /\ e.shipments = rows
      /\ e \in Database
  BY <1>0, <1>2, <1>3 DEF Database
<1>5. /\ DOMAIN rows = DOMAIN d.shipments \cup {s} /\ rows[s] = row
      /\ \A y \in DOMAIN d.shipments : y # s => rows[y] = d.shipments[y]
  BY <1>1 DEF Put, Over, Only
<1>6. AtHome(e, newHome)
  BY <1>4, <1>5 DEF AtHome
<1>7. Referenced(e)
  BY <1>4, <1>5 DEF Sound, Referenced
<1>8. ASSUME NEW o \in DOMAIN d.orders \ T, NEW l
      PROVE  loadShippedTotals(e, o, l, {}) = loadShippedTotals(d, o, l, {})
  <2>1. /\ ShipmentsOf(e, o) = ShipmentsOf(d, o)
        /\ \A y \in ShipmentsOf(e, o) : e.shipments[y].items = d.shipments[y].items
    BY <1>4, <1>5 DEF ShipmentsOf
  <2> QED
    BY <2>1, ShippedSame
<1>9. WithFulfilled(e, T).shipments = rows
  BY <1>4, WithFulfilledIs
<1>10. Sound(WithFulfilled(e, T), unsure, newHome)
  BY <1>4, <1>6, <1>7, <1>8, ShipmentsChange
<1> QED
  BY <1>1, <1>9, <1>10

\* A shipment is deleted.
LEMMA ShipmentGone ==
  ASSUME NEW d, NEW unsure, NEW home, Sound(d, unsure, home), NEW s \in DOMAIN d.shipments
  PROVE  Sound(WithFulfilled(deleteShipmentWithItems(d, s), {d.shipments[s].order}), unsure, home)
<1>0. d \in Database /\ d.shipments \in PartialFunctions(Shipments, ShipmentRow)
  BY Fields DEF Sound
<1>1. PICK rows : rows = Without(d.shipments, {s})
  OBVIOUS
<1>2. PICK e : e = deleteShipmentWithItems(d, s)
  OBVIOUS
<1>3. e = [d EXCEPT !.shipments = rows]
  BY <1>1, <1>2 DEF deleteShipmentWithItems
<1>4. rows \in PartialFunctions(Shipments, ShipmentRow)
  BY <1>0, <1>1, WithoutTyped
<1>5. /\ e.orders = d.orders /\ e.payments = d.payments /\ e.shipments = rows
      /\ e \in Database
  BY <1>0, <1>3, <1>4 DEF Database
<1>6. DOMAIN rows = DOMAIN d.shipments \ {s} /\ \A y \in DOMAIN rows : rows[y] = d.shipments[y]
  BY <1>1 DEF Without, Restrict
<1>7. AtHome(e, home)
  BY <1>5, <1>6 DEF Sound, AtHome
<1>8. Referenced(e)
  BY <1>5, <1>6 DEF Sound, Referenced
<1>9. ASSUME NEW o \in DOMAIN d.orders \ {d.shipments[s].order}, NEW l
      PROVE  loadShippedTotals(e, o, l, {}) = loadShippedTotals(d, o, l, {})
  <2>1. /\ ShipmentsOf(e, o) = ShipmentsOf(d, o)
        /\ \A y \in ShipmentsOf(e, o) : e.shipments[y].items = d.shipments[y].items
    BY <1>5, <1>6 DEF ShipmentsOf
  <2> QED
    BY <2>1, ShippedSame
<1>10. Sound(WithFulfilled(e, {d.shipments[s].order}), unsure, home)
  BY <1>5, <1>7, <1>8, <1>9, ShipmentsChange
<1> QED
  BY <1>2, <1>10

\* The second flush of a command about shipments.
LEMMA ShipmentsRecomputed ==
  ASSUME NEW command \in ShipmentCommands, NEW out
  PROVE  recompute(command, out) = WithFulfilled(out.db, out.touched)
BY DEF recompute, WithFulfilled

\* The shipments whose homes a command makes known.
HomesAfter(command, out, c, home) ==
  IF command = "shipments.create" /\ out.done THEN Put(home, c.id, c.order) ELSE home

\* A command about a shipment is executed or rejected whole.
LEMMA ShipmentExecuted ==
  ASSUME NEW d, NEW unsure, NEW home, Sound(d, unsure, home),
         NEW command \in ShipmentCommands, NEW c \in InputsOf(command),
         command = "shipments.create" => c.id \notin DOMAIN home,
         NEW out, out = execute(command, d, c),
         NEW newHome, newHome = HomesAfter(command, out, c, home)
  PROVE  /\ c.id \in Shipments
         /\ out.done => /\ Sound(recompute(command, out), unsure, newHome)
                        /\ c.id \in DOMAIN (IF command \in Creates THEN recompute(command, out)
                                            ELSE d).shipments
         /\ ~ out.done => out.db = d
<1>0. d \in Database /\ \A s \in DOMAIN d.shipments : s \in Shipments /\ d.shipments[s] \in ShipmentRow
  BY RowsTyped DEF Sound
<1>1. CASE command = "shipments.create"
  <2>1. out = createShipment(d, c)
    BY <1>1 DEF execute
  <2>2. c \in [id : Shipments, order : Documents, items : PartialFunctions(Lines, Quantity)]
    BY <1>1 DEF InputsOf
  <2>3. CASE c.order \in DOMAIN d.orders /\ validateShipmentItems(d, c.order, c.items, {})
    <3>1. PICK row : row = [order |-> c.order, items |-> c.items]
      OBVIOUS
    <3>2. PICK e : e = [d EXCEPT !.shipments = Put(@, c.id, row)]
      OBVIOUS
    <3>3. out = Done(e, {c.order})
      BY <2>1, <2>3, <3>1, <3>2 DEF createShipment
    <3>4. out.done /\ out.touched = {c.order} /\ out.db = e
      BY <3>3 DEF Done
    <3>5. row \in ShipmentRow /\ row.order = c.order /\ row.items = c.items
      BY <2>2, <3>1 DEF ShipmentRow
    <3>6. DOMAIN row.items \subseteq DOMAIN d.orders[row.order].lines
      BY <2>3, <3>5 DEF validateShipmentItems
    <3>7. newHome = Put(home, c.id, c.order)
      BY <1>1, <3>4 DEF HomesAfter
    <3>8. /\ DOMAIN newHome = DOMAIN home \cup {c.id} /\ newHome[c.id] = c.order
          /\ \A s \in DOMAIN home : s # c.id => newHome[s] = home[s]
      BY <3>7 DEF Put, Over, Only
    <3>9. AtHome(d, newHome) /\ c.id \notin DOMAIN d.shipments
      BY <1>1, <3>8 DEF Sound, AtHome
    <3>10. /\ Sound(WithFulfilled(e, {c.order}), unsure, newHome)
           /\ WithFulfilled(e, {c.order}).shipments = Put(d.shipments, c.id, row)
      <4>1. PICK s : s = c.id
        OBVIOUS
      <4>2. s \in Shipments /\ s \notin DOMAIN d.shipments
        BY <2>2, <3>9, <4>1
      <4>3. row.order \in DOMAIN d.orders /\ row.order \in {c.order}
        BY <2>3, <3>5
      <4>4. s \in DOMAIN newHome /\ newHome[s] = row.order
        BY <3>5, <3>8, <4>1
      <4>5. e = [d EXCEPT !.shipments = Put(@, s, row)]
        BY <3>2, <4>1
      <4>6. AtHome(d, newHome)
        BY <3>9
      <4>7. /\ Sound(WithFulfilled(e, {c.order}), unsure, newHome)
            /\ WithFulfilled(e, {c.order}).shipments = Put(d.shipments, s, row)
        BY ONLY <4>2, <4>3, <4>4, <4>5, <4>6, <3>5, <3>6, Sound(d, unsure, home), ShipmentPut
      <4> QED
        BY <4>1, <4>7
    <3>11. c.id \in DOMAIN Put(d.shipments, c.id, row)
      BY DEF Put, Over, Only
    <3>12. recompute(command, out) = WithFulfilled(e, {c.order})
      BY <3>4, ShipmentsRecomputed
    <3>13. command \in Creates
      BY <1>1 DEF Creates
    <3> QED
      BY <2>2, <3>4, <3>10, <3>11, <3>12, <3>13
  <2>4. CASE ~ (c.order \in DOMAIN d.orders /\ validateShipmentItems(d, c.order, c.items, {}))
    BY <2>1, <2>2, <2>4 DEF createShipment, Rejected
  <2> QED
    BY <2>3, <2>4
<1>2. CASE command = "shipments.update"
  <2>1. out = updateShipment(d, c)
    BY <1>2 DEF execute
  <2>2. c \in [id : Shipments, items : PartialFunctions(Lines, Quantity)]
    BY <1>2 DEF InputsOf
  <2> DEFINE may == /\ c.id \in DOMAIN d.shipments
                    /\ validateShipmentItems(d, d.shipments[c.id].order, c.items, {c.id})
  <2>3. CASE may
    <3>1. PICK o : o = d.shipments[c.id].order
      OBVIOUS
    <3>2. PICK row : row = [d.shipments[c.id] EXCEPT !.items = c.items]
      OBVIOUS
    <3>3. PICK e : e = [d EXCEPT !.shipments = Put(@, c.id, row)]
      OBVIOUS
    <3>4. out = Done([d EXCEPT !.shipments[c.id].items = c.items], {o})
      BY <2>1, <2>3, <3>1 DEF updateShipment
    <3>5. [d EXCEPT !.shipments[c.id].items = c.items] = e
      <4>1. PICK rows : rows = Put(d.shipments, c.id, row)
        OBVIOUS
      <4>2. d.shipments \in PartialFunctions(Shipments, ShipmentRow)
        BY <1>0, Fields
      <4>3. d.shipments = [s \in DOMAIN d.shipments |-> d.shipments[s]]
        BY <4>2, PartialIs
      <4>4. rows = [s \in DOMAIN d.shipments |-> IF s = c.id THEN row ELSE d.shipments[s]]
        BY <2>3, <4>1 DEF Put, Over, Only
      <4>5. [d.shipments EXCEPT ![c.id].items = c.items] = rows
        BY <2>3, <3>2, <4>3, <4>4
      <4>6. [d EXCEPT !.shipments[c.id].items = c.items]
              = [d EXCEPT !.shipments = [d.shipments EXCEPT ![c.id].items = c.items]]
        OBVIOUS
      <4> QED
        BY <3>3, <4>1, <4>5, <4>6
    <3>6. out.done /\ out.touched = {o} /\ out.db = e
      BY <3>4, <3>5 DEF Done
    <3>7. row \in ShipmentRow /\ row.order = o /\ row.items = c.items
      BY <1>0, <2>2, <2>3, <3>1, <3>2 DEF ShipmentRow
    <3>8. o \in DOMAIN d.orders
      BY <2>3, <3>1 DEF Sound, Referenced
    <3>9. DOMAIN row.items \subseteq DOMAIN d.orders[row.order].lines
      BY <2>3, <3>1, <3>7 DEF validateShipmentItems
    <3>10. newHome = home
      BY <1>2 DEF HomesAfter
    <3>11. c.id \in DOMAIN home /\ home[c.id] = o /\ AtHome(d, home)
      BY <2>3, <3>1 DEF Sound, AtHome
    <3>12. Sound(WithFulfilled(e, {o}), unsure, home)
      BY <1>0, <2>3, <3>1, <3>3, <3>7, <3>8, <3>9, <3>11, ShipmentPut
    <3>13. recompute(command, out) = WithFulfilled(e, {o})
      BY <3>6, ShipmentsRecomputed
    <3>14. command \notin Creates
      BY <1>2 DEF Creates
    <3> QED
      BY <2>2, <2>3, <3>6, <3>10, <3>12, <3>13, <3>14
  <2>4. CASE ~ may
    BY <2>1, <2>2, <2>4 DEF updateShipment, Rejected
  <2> QED
    BY <2>3, <2>4
<1>3. CASE command = "shipments.delete"
  <2>1. out = deleteShipment(d, c)
    BY <1>3 DEF execute
  <2>2. c \in [id : Shipments]
    BY <1>3 DEF InputsOf
  <2>3. CASE c.id \in DOMAIN d.shipments
    <3>1. out = Done(deleteShipmentWithItems(d, c.id), {d.shipments[c.id].order})
      BY <2>1, <2>3 DEF deleteShipment
    <3>2. /\ out.done /\ out.touched = {d.shipments[c.id].order}
          /\ out.db = deleteShipmentWithItems(d, c.id)
      BY <3>1 DEF Done
    <3>3. newHome = home
      BY <1>3 DEF HomesAfter
    <3>4. Sound(recompute(command, out), unsure, home)
      BY <2>3, <3>2, ShipmentGone, ShipmentsRecomputed
    <3>5. command \notin Creates
      BY <1>3 DEF Creates
    <3> QED
      BY <2>2, <2>3, <3>2, <3>3, <3>4, <3>5
  <2>4. CASE c.id \notin DOMAIN d.shipments
    BY <2>1, <2>2, <2>4 DEF deleteShipment, Rejected
  <2> QED
    BY <2>3, <2>4
<1> QED
  BY <1>1, <1>2, <1>3 DEF ShipmentCommands

(***************************************************************************)
(* Payments                                                                *)
(***************************************************************************)

\* The second flush of any other command.
LEMMA TotalsRecomputed ==
  ASSUME NEW command \in Commands \ ShipmentCommands, NEW out
  PROVE  recompute(command, out) = WithTotals(out.db, out.touched)
BY DEF recompute, WithTotals

\* Orders whose payments differ after a handler that has left them alone.
NeglectedIn(d, out) ==
  {o \in DOMAIN d.orders \cap DOMAIN out.db.orders :
     /\ o \notin out.touched
     /\ out.db.orders[o] = d.orders[o]
     /\ PaidTotal(out.db, o) # PaidTotal(d, o)}

\* Payments changed and the totals computed again that the handler asks for.
LEMMA PaymentsRecomputed ==
  ASSUME NEW d, NEW unsure, NEW home, Sound(d, unsure, home),
         NEW payments \in PartialFunctions(Payments, PaymentRow),
         \A p \in DOMAIN payments :
           OwnAllocation(payments[p]) /\ OrdersOf(payments[p]) \subseteq DOMAIN d.orders,
         NEW out, out.db = [d EXCEPT !.payments = payments]
  PROVE  /\ Sound(WithTotals(out.db, out.touched), unsure \cup NeglectedIn(d, out), home)
         /\ WithTotals(out.db, out.touched).payments = payments
<1>1. PICK e : e = out.db
  OBVIOUS
<1>2. PICK T : T = out.touched
  OBVIOUS
<1>3. PICK left : left = NeglectedIn(d, out)
  OBVIOUS
<1>4. d \in Database
  BY DEF Sound
<1>5. e \in Database /\ e.orders = d.orders /\ e.shipments = d.shipments /\ e.payments = payments
  BY <1>1, <1>4 DEF Database
<1>6. Referenced(e)
  BY <1>5 DEF Sound, Referenced
<1>7. OwnAllocations(e)
  BY <1>5 DEF OwnAllocations
<1>8. \A o \in DOMAIN d.orders \ (T \cup left) : PaidTotal(e, o) = PaidTotal(d, o)
  BY <1>1, <1>2, <1>3, <1>5 DEF NeglectedIn
<1>9. Sound(WithTotals(e, T), unsure \cup left, home)
  BY ONLY <1>5, <1>6, <1>7, <1>8, Sound(d, unsure, home), PaymentsChange
<1>10. WithTotals(e, T).payments = payments
  BY <1>5, WithTotalsIs
<1> QED
  BY <1>1, <1>2, <1>3, <1>9, <1>10

\* A payment is written.
LEMMA PaymentPut ==
  ASSUME NEW d, NEW unsure, NEW home, Sound(d, unsure, home),
         NEW p \in Payments, NEW row \in PaymentRow, OwnAllocation(row),
         OrdersOf(row) \subseteq DOMAIN d.orders,
         NEW out, out.db = [d EXCEPT !.payments = Put(@, p, row)]
  PROVE  /\ Sound(WithTotals(out.db, out.touched), unsure \cup NeglectedIn(d, out), home)
         /\ p \in DOMAIN WithTotals(out.db, out.touched).payments
<1>0. d.payments \in PartialFunctions(Payments, PaymentRow)
  BY Fields DEF Sound
<1>1. PICK payments : payments = Put(d.payments, p, row)
  OBVIOUS
<1>2. out.db = [d EXCEPT !.payments = payments]
  BY <1>1
<1>3. payments \in PartialFunctions(Payments, PaymentRow)
  BY <1>0, <1>1, PutTyped
<1>4. /\ DOMAIN payments = DOMAIN d.payments \cup {p} /\ payments[p] = row
      /\ \A y \in DOMAIN d.payments : y # p => payments[y] = d.payments[y]
  BY <1>1 DEF Put, Over, Only
<1>5. \A y \in DOMAIN payments :
        OwnAllocation(payments[y]) /\ OrdersOf(payments[y]) \subseteq DOMAIN d.orders
  BY <1>4 DEF Sound, Referenced, OwnAllocations
<1> QED
  BY <1>2, <1>3, <1>4, <1>5, PaymentsRecomputed

\* A payment is deleted.
LEMMA PaymentGone ==
  ASSUME NEW d, NEW unsure, NEW home, Sound(d, unsure, home), NEW p,
         NEW out, out.db = removePayment(d, p)
  PROVE  Sound(WithTotals(out.db, out.touched), unsure \cup NeglectedIn(d, out), home)
<1>0. d.payments \in PartialFunctions(Payments, PaymentRow)
  BY Fields DEF Sound
<1>1. PICK payments : payments = Without(d.payments, {p})
  OBVIOUS
<1>2. out.db = [d EXCEPT !.payments = payments]
  BY <1>1 DEF removePayment
<1>3. payments \in PartialFunctions(Payments, PaymentRow)
  BY <1>0, <1>1, WithoutTyped
<1>4. /\ DOMAIN payments = DOMAIN d.payments \ {p}
      /\ \A y \in DOMAIN payments : payments[y] = d.payments[y]
  BY <1>1 DEF Without, Restrict
<1>5. \A y \in DOMAIN payments :
        OwnAllocation(payments[y]) /\ OrdersOf(payments[y]) \subseteq DOMAIN d.orders
  BY <1>4 DEF Sound, Referenced, OwnAllocations
<1> QED
  BY <1>2, <1>3, <1>5, PaymentsRecomputed

\* A command about a payment is executed or rejected whole.
LEMMA PaymentExecuted ==
  ASSUME NEW d, NEW unsure, NEW home, Sound(d, unsure, home),
         NEW command \in PaymentCommands, NEW c \in InputsOf(command),
         command = "payments.update" =>
           (c.id \in DOMAIN d.payments => d.payments[c.id].order \in {c.order, NoOrder}),
         NEW out, out = execute(command, d, c)
  PROVE  /\ c.id \in Payments
         /\ out.done => /\ Sound(recompute(command, out), unsure \cup NeglectedIn(d, out), home)
                        /\ c.id \in DOMAIN (IF command \in Creates THEN recompute(command, out)
                                            ELSE d).payments
         /\ ~ out.done => out.db = d
<1>0. /\ d \in Database /\ d.payments \in PartialFunctions(Payments, PaymentRow)
      /\ \A p \in DOMAIN d.payments : p \in Payments /\ d.payments[p] \in PaymentRow
      /\ \A o \in DOMAIN d.orders : o \in Documents
  BY RowsTyped, Fields DEF Sound
<1>r. recompute(command, out) = WithTotals(out.db, out.touched)
  <2>1. command \in Commands \ ShipmentCommands
    BY DEF Commands, PaymentCommands, ShipmentCommands
  <2> QED
    BY <2>1, TotalsRecomputed
<1>1. CASE command = "payments.create"
  <2>1. out = createPayment(d, c)
    BY <1>1 DEF execute
  <2>2. c \in [id : Payments, order : Documents, amount : Quantity]
    BY <1>1 DEF InputsOf
  <2>3. CASE c.order \in DOMAIN d.orders
    <3>1. PICK own : own = Only(c.order, c.amount)
      OBVIOUS
    <3>2. PICK row : row = [order |-> c.order, amount |-> c.amount, allocations |-> own]
      OBVIOUS
    <3>3. out = Done([d EXCEPT !.payments = Put(@, c.id, row)], {c.order})
      BY <2>1, <2>3, <3>1, <3>2 DEF createPayment
    <3>4. out.done /\ out.db = [d EXCEPT !.payments = Put(@, c.id, row)]
      BY <3>3 DEF Done
    <3>5. own \in PartialFunctions(Documents, Quantity)
      BY <2>2, <3>1, OnlyTyped
    <3>6. row \in PaymentRow
      BY <2>2, <3>2, <3>5 DEF PaymentRow
    <3>7. OwnAllocation(row) /\ OrdersOf(row) \subseteq DOMAIN d.orders
      BY <2>3, <3>1, <3>2 DEF OwnAllocation, OrdersOf, Only
    <3>8. command \in Creates
      BY <1>1 DEF Creates
    <3> QED
      BY <1>r, <2>2, <3>4, <3>6, <3>7, <3>8, PaymentPut
  <2>4. CASE c.order \notin DOMAIN d.orders
    BY <2>1, <2>2, <2>4 DEF createPayment, Rejected
  <2> QED
    BY <2>3, <2>4
<1>2. CASE command = "payments.update"
  <2>1. out = updatePayment(d, c)
    BY <1>2 DEF execute
  <2>2. c \in [id : Payments, order : Documents, amount : Quantity, reallocate : BOOLEAN]
    BY <1>2 DEF InputsOf
  <2>3. CASE c.id \in DOMAIN d.payments /\ c.order \in DOMAIN d.orders
    <3>0. PICK old : old = d.payments[c.id]
      OBVIOUS
    <3>1. PICK own : own = IF c.reallocate THEN Only(c.order, c.amount) ELSE old.allocations
      OBVIOUS
    <3>2. PICK row : row = [order |-> c.order, amount |-> c.amount, allocations |-> own]
      OBVIOUS
    <3>3. out = Done([d EXCEPT !.payments = [d.payments EXCEPT ![c.id] = row]],
                     {c.order, old.order} \ {NoOrder})
      BY <2>1, <2>3, <3>0, <3>1, <3>2 DEF updatePayment
    <3>4. [d.payments EXCEPT ![c.id] = row] = Put(d.payments, c.id, row)
      <4>1. d.payments = [p \in DOMAIN d.payments |-> d.payments[p]]
        BY <1>0, PartialIs
      <4> QED
        BY <2>3, <4>1 DEF Put, Over, Only
    <3>5. out.done /\ out.db = [d EXCEPT !.payments = Put(@, c.id, row)]
      BY <3>3, <3>4 DEF Done
    <3>6. old \in PaymentRow /\ OwnAllocation(old) /\ OrdersOf(old) \subseteq DOMAIN d.orders
      BY <1>0, <2>3, <3>0 DEF Sound, Referenced, OwnAllocations
    <3>7. own \in PartialFunctions(Documents, Quantity)
      <4>1. Only(c.order, c.amount) \in PartialFunctions(Documents, Quantity)
        BY <2>2, OnlyTyped
      <4> QED
        BY <3>1, <3>6, <4>1 DEF PaymentRow
    <3>8. row \in PaymentRow
      BY <2>2, <3>2, <3>7 DEF PaymentRow
    <3>9. DOMAIN own \subseteq {c.order}
      <4>1. DOMAIN Only(c.order, c.amount) = {c.order}
        BY DEF Only
      <4>2. old.order \in {c.order, NoOrder}
        BY <1>2, <2>3, <3>0
      <4>3. DOMAIN old.allocations \subseteq Documents
        BY <3>6, PartialIs DEF PaymentRow
      <4>4. DOMAIN old.allocations \subseteq {c.order}
        BY <3>6, <4>2, <4>3, SalesAssumption DEF OwnAllocation
      <4> QED
        BY <3>1, <4>1, <4>4
    <3>10. OwnAllocation(row) /\ OrdersOf(row) \subseteq DOMAIN d.orders
      BY <2>3, <3>2, <3>9 DEF OwnAllocation, OrdersOf
    <3>11. command \notin Creates
      BY <1>2 DEF Creates
    <3> QED
      BY <1>r, <2>2, <2>3, <3>5, <3>8, <3>10, <3>11, PaymentPut
  <2>4. CASE ~ (c.id \in DOMAIN d.payments /\ c.order \in DOMAIN d.orders)
    BY <2>1, <2>2, <2>4 DEF updatePayment, Rejected
  <2> QED
    BY <2>3, <2>4
<1>3. CASE command = "payments.delete"
  <2>1. out = deletePayment(d, c)
    BY <1>3 DEF execute
  <2>2. c \in [id : Payments]
    BY <1>3 DEF InputsOf
  <2>3. CASE c.id \in DOMAIN d.payments
    <3>1. out = Done(removePayment(d, c.id), OrdersOf(d.payments[c.id]))
      BY <2>1, <2>3 DEF deletePayment
    <3>2. out.done /\ out.db = removePayment(d, c.id)
      BY <3>1 DEF Done
    <3>3. command \notin Creates
      BY <1>3 DEF Creates
    <3> QED
      BY <1>r, <2>2, <2>3, <3>2, <3>3, PaymentGone
  <2>4. CASE c.id \notin DOMAIN d.payments
    BY <2>1, <2>2, <2>4 DEF deletePayment, Rejected
  <2> QED
    BY <2>3, <2>4
<1> QED
  BY <1>1, <1>2, <1>3 DEF PaymentCommands

(***************************************************************************)
(* Snapshots in the log, and every command                                 *)
(***************************************************************************)

\* The rows a command is about.
TableOf(command, d) ==
  CASE command \in OrderCommands -> d.orders
    [] command \in QuoteCommands -> d.quotes
    [] command \in ShipmentCommands -> d.shipments
    [] command \in PaymentCommands -> d.payments

\* What the snapshot that a command has logged holds whenever it is undone.
PayloadSound(command, payload, unsure, home) ==
  /\ command \in OrderCommands =>
       payload.id \in Documents /\ Sound(RowsOf(payload), unsure, home)
  /\ command \in QuoteCommands => payload.id \in Documents /\ payload.row \in QuoteRow
  /\ command \in ShipmentCommands =>
       /\ payload.id \in Shipments /\ payload.row \in ShipmentRow
       /\ payload.id \in DOMAIN home /\ payload.row.order = home[payload.id]
  /\ command \in PaymentCommands =>
       payload.id \in Payments /\ payload.row \in PaymentRow /\ OwnAllocation(payload.row)

\* No command is of two kinds.
LEMMA OneKind ==
  /\ OrderCommands \cap (QuoteCommands \cup ShipmentCommands \cup PaymentCommands) = {}
  /\ QuoteCommands \cap (ShipmentCommands \cup PaymentCommands) = {}
  /\ ShipmentCommands \cap PaymentCommands = {}
BY DEF OrderCommands, QuoteCommands, ShipmentCommands, PaymentCommands

LEMMA PayloadWeaker ==
  ASSUME NEW command, NEW payload, NEW unsure, NEW home,
         PayloadSound(command, payload, unsure, home),
         NEW more, unsure \subseteq more, NEW newHome,
         \A s \in DOMAIN home : s \in DOMAIN newHome /\ newHome[s] = home[s]
  PROVE  PayloadSound(command, payload, more, newHome)
<1>1. ASSUME command \in OrderCommands
      PROVE  payload.id \in Documents /\ Sound(RowsOf(payload), more, newHome)
  BY <1>1, SoundWeaker DEF PayloadSound
<1> QED
  BY <1>1 DEF PayloadSound

\* A snapshot of a row that exists.
LEMMA SnapshotTaken ==
  ASSUME NEW d, NEW unsure, NEW home, Sound(d, unsure, home),
         NEW command \in Commands, NEW id \in DOMAIN TableOf(command, d),
         NEW payload, payload = snapshotOf(command, d, id)
  PROVE  PayloadSound(command, payload, unsure, home) /\ payload.id = id
<1>0. /\ DOMAIN d.orders \subseteq Documents /\ DOMAIN d.quotes \subseteq Documents
      /\ \A q \in DOMAIN d.quotes : d.quotes[q] \in QuoteRow
      /\ DOMAIN d.shipments \subseteq Shipments
      /\ \A s \in DOMAIN d.shipments : d.shipments[s] \in ShipmentRow
      /\ DOMAIN d.payments \subseteq Payments
      /\ \A p \in DOMAIN d.payments : d.payments[p] \in PaymentRow
  BY RowsTyped DEF Sound
<1>1. CASE command \in OrderCommands
  <2>1. id \in DOMAIN d.orders /\ payload = loadOrderSnapshot(d, id)
    BY <1>1, OneKind DEF TableOf, snapshotOf
  <2>2. payload.id = id
    BY <2>1 DEF loadOrderSnapshot
  <2>3. Sound(RowsOf(payload), unsure, home)
    BY <2>1, SnapshotSound
  <2> QED
    BY <1>0, <1>1, <2>1, <2>2, <2>3, OneKind DEF PayloadSound
<1>2. CASE command \in QuoteCommands
  <2>1. id \in DOMAIN d.quotes /\ payload = loadQuoteSnapshot(d, id)
    BY <1>2, OneKind DEF TableOf, snapshotOf
  <2>2. payload.id = id /\ payload.row = d.quotes[id]
    BY <2>1 DEF loadQuoteSnapshot
  <2> QED
    BY <1>0, <1>2, <2>1, <2>2, OneKind DEF PayloadSound
<1>3. CASE command \in ShipmentCommands
  <2>1. id \in DOMAIN d.shipments /\ payload = loadShipmentSnapshot(d, id)
    BY <1>3, OneKind DEF TableOf, snapshotOf
  <2>2. payload.id = id /\ payload.row = d.shipments[id]
    BY <2>1 DEF loadShipmentSnapshot
  <2>3. id \in DOMAIN home /\ payload.row.order = home[id]
    BY <2>1, <2>2 DEF Sound, AtHome
  <2> QED
    BY <1>0, <1>3, <2>1, <2>2, <2>3, OneKind DEF PayloadSound
<1>4. CASE command \in PaymentCommands
  <2>1. id \in DOMAIN d.payments /\ payload = loadPaymentSnapshot(d, id)
    BY <1>4, OneKind DEF TableOf, snapshotOf
  <2>2. payload.id = id /\ payload.row = d.payments[id]
    BY <2>1 DEF loadPaymentSnapshot
  <2>3. OwnAllocation(payload.row)
    BY <2>1, <2>2 DEF Sound, OwnAllocations
  <2> QED
    BY <1>0, <1>4, <2>1, <2>2, <2>3, OneKind DEF PayloadSound
<1> QED
  BY <1>1, <1>2, <1>3, <1>4 DEF Commands

\* Where nothing is computed again nothing changes.
LEMMA NothingRecomputed ==
  ASSUME NEW d \in Database
  PROVE  WithTotals(d, {}) = d /\ WithFulfilled(d, {}) = d
<1>1. PICK orders : orders = [o \in DOMAIN d.orders |-> d.orders[o]]
  OBVIOUS
<1>2. orders = d.orders
  BY <1>1, Fields, PartialIs
<1>3. WithTotals(d, {}) = [d EXCEPT !.orders = orders]
  BY <1>1 DEF WithTotals
<1>4. WithFulfilled(d, {}) = [d EXCEPT !.orders = orders]
  BY <1>1 DEF WithFulfilled
<1>5. [d EXCEPT !.orders = orders] = d
  BY <1>2 DEF Database
<1> QED
  BY <1>3, <1>4, <1>5

\* The inputs that nothing rules out: what is created is new, and a payment
\* stays with its order.
MayRun(d, home, command, c) ==
  /\ c \in InputsOf(command)
  /\ command = "orders.create" => c.id \notin DOMAIN d.orders
  /\ command = "shipments.create" => c.id \notin DOMAIN home
  /\ command = "payments.update" =>
       (c.id \in DOMAIN d.payments => d.payments[c.id].order \in {c.order, NoOrder})

\* A command is executed, leaving a sound database, or is rejected and changes
\* nothing; and the row it will be undone by exists.
LEMMA Executed ==
  ASSUME NEW d, NEW unsure, NEW home, Sound(d, unsure, home),
         NEW command \in Commands, NEW c, MayRun(d, home, command, c),
         NEW out, out = execute(command, d, c),
         NEW newHome, newHome = HomesAfter(command, out, c, home),
         NEW after, after = recompute(command, out)
  PROVE  /\ out.done => /\ Sound(after, unsure \cup NeglectedIn(d, out), newHome)
                        /\ c.id \in DOMAIN TableOf(command, IF command \in Creates THEN after ELSE d)
         /\ ~ out.done => out.db = d
<1>1. CASE command \in OrderCommands \cup QuoteCommands
  <2>0. command \notin ShipmentCommands /\ newHome = home
    BY <1>1, OneKind DEF HomesAfter, ShipmentCommands
  <2>1. /\ out.touched = {}
        /\ out.done => Sound(out.db, unsure, home)
                       /\ c.id \in DOMAIN TableOf(command, IF command \in Creates THEN out.db ELSE d)
        /\ ~ out.done => out.db = d
    <3>1. CASE command \in OrderCommands
      <4>1. TableOf(command, out.db) = out.db.orders /\ TableOf(command, d) = d.orders
        BY <3>1, OneKind DEF TableOf
      <4> QED
        BY <3>1, <4>1, OrderExecuted DEF MayRun
    <3>2. CASE command \in QuoteCommands \ {"quotes.convert_to_order"}
      <4>1. TableOf(command, out.db) = out.db.quotes /\ TableOf(command, d) = d.quotes
        BY <3>2, OneKind DEF TableOf
      <4> QED
        BY <3>2, <4>1, QuoteExecuted DEF MayRun
    <3>3. CASE command = "quotes.convert_to_order"
      <4>1. TableOf(command, d) = d.quotes /\ command \notin Creates
        BY <3>3, OneKind DEF TableOf, Creates, QuoteCommands
      <4> QED
        BY <3>3, <4>1, ConversionExecuted DEF MayRun
    <3> QED
      BY <1>1, <3>1, <3>2, <3>3
  <2>2. CASE out.done
    <3>1. Sound(out.db, unsure, home)
      BY <2>1, <2>2
    <3>2. after = out.db
      BY <2>0, <2>1, <3>1, TotalsRecomputed, NothingRecomputed DEF Sound
    <3>3. Sound(out.db, unsure \cup NeglectedIn(d, out), home)
      BY <3>1, SoundWeaker
    <3> QED
      BY <2>0, <2>1, <2>2, <3>2, <3>3
  <2> QED
    BY <2>1, <2>2
<1>2. CASE command \in ShipmentCommands
  <2>0. TableOf(command, after) = after.shipments /\ TableOf(command, d) = d.shipments
    BY <1>2, OneKind DEF TableOf
  <2>1. /\ out.done => /\ Sound(after, unsure, newHome)
                       /\ c.id \in DOMAIN (IF command \in Creates THEN after ELSE d).shipments
        /\ ~ out.done => out.db = d
    BY <1>2, ShipmentExecuted DEF MayRun
  <2>2. ASSUME out.done PROVE Sound(after, unsure \cup NeglectedIn(d, out), newHome)
    BY <2>1, <2>2, SoundWeaker
  <2> QED
    BY <2>0, <2>1, <2>2
<1>3. CASE command \in PaymentCommands
  <2>0. TableOf(command, after) = after.payments /\ TableOf(command, d) = d.payments
    BY <1>3, OneKind DEF TableOf
  <2>1. newHome = home
    BY <1>3 DEF HomesAfter, PaymentCommands
  <2>2. /\ out.done => /\ Sound(after, unsure \cup NeglectedIn(d, out), home)
                       /\ c.id \in DOMAIN (IF command \in Creates THEN after ELSE d).payments
        /\ ~ out.done => out.db = d
    BY <1>3, PaymentExecuted DEF MayRun
  <2> QED
    BY <2>0, <2>1, <2>2
<1> QED
  BY <1>1, <1>2, <1>3 DEF Commands

(***************************************************************************)
(* Undoing                                                                 *)
(***************************************************************************)

\* What follows for an undo that leaves the payments of every order alone.
LEMMA UndoneUntouched ==
  ASSUME NEW d, NEW unsure, NEW home, NEW command \in Commands \ ShipmentCommands,
         NEW out, out.touched = {}, Sound(out.db, unsure \cup NeglectedIn(d, out), home)
  PROVE  Sound(recompute(command, out), unsure \cup NeglectedIn(d, out), home)
<1>1. recompute(command, out) = out.db
  BY TotalsRecomputed, NothingRecomputed DEF Sound
<1> QED
  BY <1>1

\* The creation of a shipment is undone, or its change.
LEMMA ShipmentUndone ==
  ASSUME NEW d, NEW unsure, NEW home, Sound(d, unsure, home),
         NEW command \in ShipmentCommands,
         NEW payload, PayloadSound(command, payload, unsure, home),
         NEW out, out = undo(command, d, payload)
  PROVE  out.done /\ Sound(recompute(command, out), unsure, home)
<1>0. d \in Database
  BY DEF Sound
<1>1. CASE command = "shipments.create"
  <2>1. out = undoCreateShipment(d, payload)
    BY <1>1 DEF undo, Creates
  <2>2. CASE payload.id \in DOMAIN d.shipments
    <3>1. out = Done(deleteShipmentWithItems(d, payload.id), {d.shipments[payload.id].order})
      BY <2>1, <2>2 DEF undoCreateShipment
    <3>2. /\ out.done /\ out.touched = {d.shipments[payload.id].order}
          /\ out.db = deleteShipmentWithItems(d, payload.id)
      BY <3>1 DEF Done
    <3> QED
      BY <2>2, <3>2, ShipmentGone, ShipmentsRecomputed
  <2>3. CASE payload.id \notin DOMAIN d.shipments
    <3>1. out = Done(d, {})
      BY <2>1, <2>3 DEF undoCreateShipment
    <3>2. out.done /\ out.db = d /\ out.touched = {}
      BY <3>1 DEF Done
    <3> QED
      BY <1>0, <3>2, ShipmentsRecomputed, NothingRecomputed
  <2> QED
    BY <2>2, <2>3
<1>2. CASE command \in ShipmentCommands \ Creates
  <2>1. out = undoChangeOfShipment(d, payload)
    BY <1>2, OneKind DEF undo, ShipmentCommands, Creates, OrderCommands, QuoteCommands
  <2>2. PICK o : o = payload.row.order
    OBVIOUS
  <2>3. /\ payload.id \in Shipments /\ payload.row \in ShipmentRow
        /\ payload.id \in DOMAIN home /\ home[payload.id] = o
    BY <2>2 DEF PayloadSound
  <2>4. out = Done(restoreShipmentSnapshot(d, payload), {o} \cap DOMAIN d.orders)
    BY <2>1, <2>2 DEF undoChangeOfShipment
  <2>5. /\ out.done /\ out.db = restoreShipmentSnapshot(d, payload)
        /\ out.touched = {o} \cap DOMAIN d.orders
    BY <2>4 DEF Done
  <2>6. CASE o \in DOMAIN d.orders
    <3>1. PICK kept : kept = DOMAIN payload.row.items \cap DOMAIN d.orders[o].lines
      OBVIOUS
    <3>2. PICK items : items = Restrict(payload.row.items, kept)
      OBVIOUS
    <3>3. PICK row : row = [order |-> o, items |-> items]
      OBVIOUS
    <3>4. PICK s : s = payload.id
      OBVIOUS
    <3>5. out.db = [d EXCEPT !.shipments = Put(@, s, row)]
      BY <2>2, <2>5, <2>6, <3>1, <3>2, <3>3, <3>4 DEF restoreShipmentSnapshot
    <3>6. payload.row.items \in PartialFunctions(Lines, Quantity) /\ o \in Documents
      BY <2>2, <2>3 DEF ShipmentRow
    <3>7. items \in PartialFunctions(Lines, Quantity)
      BY <3>1, <3>2, <3>6, RestrictTyped
    <3>8. DOMAIN items = kept
      BY <3>2 DEF Restrict
    <3>9. row \in ShipmentRow /\ row.order = o /\ row.items = items
      BY <3>3, <3>6, <3>7 DEF ShipmentRow
    <3>10. row.order \in DOMAIN d.orders /\ row.order \in {o}
      BY <2>6, <3>9
    <3>11. DOMAIN row.items \subseteq DOMAIN d.orders[row.order].lines
      BY <3>1, <3>8, <3>9
    <3>12. AtHome(d, home)
      BY DEF Sound
    <3>13. s \in DOMAIN home /\ home[s] = row.order /\ s \in Shipments
      BY <2>3, <3>4, <3>9
    <3>14. s \in DOMAIN d.shipments => d.shipments[s].order = row.order
      BY <3>12, <3>13 DEF AtHome
    <3>15. PICK e : e = out.db
      OBVIOUS
    <3>16. e = [d EXCEPT !.shipments = Put(@, s, row)]
      BY <3>5, <3>15
    <3>17. Sound(WithFulfilled(e, {o}), unsure, home)
      BY ONLY <3>9, <3>10, <3>11, <3>12, <3>13, <3>14, <3>16, Sound(d, unsure, home), ShipmentPut
    <3>18. out.touched = {o}
      BY <2>5, <2>6
    <3> QED
      BY <2>5, <3>15, <3>17, <3>18, ShipmentsRecomputed
  <2>7. CASE o \notin DOMAIN d.orders
    <3>1. out.db = d /\ out.touched = {}
      BY <2>2, <2>5, <2>7 DEF restoreShipmentSnapshot
    <3> QED
      BY <1>0, <2>5, <3>1, ShipmentsRecomputed, NothingRecomputed
  <2> QED
    BY <2>6, <2>7
<1> QED
  BY <1>1, <1>2 DEF ShipmentCommands, Creates

\* The creation of a payment is undone, or its change.
LEMMA PaymentUndone ==
  ASSUME NEW d, NEW unsure, NEW home, Sound(d, unsure, home),
         NEW command \in PaymentCommands,
         NEW payload, PayloadSound(command, payload, unsure, home),
         NEW out, out = undo(command, d, payload)
  PROVE  /\ out.done => Sound(recompute(command, out), unsure \cup NeglectedIn(d, out), home)
         /\ ~ out.done => out.db = d
<1>0. d \in Database /\ command \in Commands \ ShipmentCommands
  BY OneKind DEF Sound, Commands
<1>r. recompute(command, out) = WithTotals(out.db, out.touched)
  BY <1>0, TotalsRecomputed
<1>1. CASE command = "payments.create"
  <2>1. out = undoCreatePayment(d, payload)
    BY <1>1 DEF undo, Creates
  <2>2. CASE payload.id \in DOMAIN d.payments
    <3>1. out = Done(removePayment(d, payload.id), OrdersOf(d.payments[payload.id]))
      BY <2>1, <2>2 DEF undoCreatePayment
    <3>2. out.done /\ out.db = removePayment(d, payload.id)
      BY <3>1 DEF Done
    <3> QED
      BY <1>r, <3>2, PaymentGone
  <2>3. CASE payload.id \notin DOMAIN d.payments
    <3>1. out = Done(d, {})
      BY <2>1, <2>3 DEF undoCreatePayment
    <3>2. out.done /\ out.db = d /\ out.touched = {}
      BY <3>1 DEF Done
    <3>3. Sound(out.db, unsure \cup NeglectedIn(d, out), home)
      BY <3>2, SoundWeaker
    <3> QED
      BY <1>0, <3>2, <3>3, UndoneUntouched
  <2> QED
    BY <2>2, <2>3
<1>2. CASE command \in PaymentCommands \ Creates
  <2>1. out = undoChangeOfPayment(d, payload)
    BY <1>2, OneKind DEF undo, PaymentCommands, Creates, OrderCommands, QuoteCommands
  <2>2. payload.id \in Payments /\ payload.row \in PaymentRow /\ OwnAllocation(payload.row)
    BY DEF PayloadSound
  <2>3. CASE OrdersOf(payload.row) \subseteq DOMAIN d.orders
    <3>1. out = Done(restorePaymentSnapshot(d, payload), {payload.row.order} \ {NoOrder})
      BY <2>1, <2>3 DEF undoChangeOfPayment
    <3>2. out.done /\ out.db = [d EXCEPT !.payments = Put(@, payload.id, payload.row)]
      BY <3>1 DEF Done, restorePaymentSnapshot
    <3> QED
      BY <1>r, <2>2, <2>3, <3>2, PaymentPut
  <2>4. CASE ~ (OrdersOf(payload.row) \subseteq DOMAIN d.orders)
    BY <2>1, <2>4 DEF undoChangeOfPayment, Rejected
  <2> QED
    BY <2>3, <2>4
<1> QED
  BY <1>1, <1>2 DEF PaymentCommands, Creates

\* A command about a quote is undone.
LEMMA QuoteUndone ==
  ASSUME NEW d, NEW unsure, NEW home, Sound(d, unsure, home),
         NEW command \in QuoteCommands,
         NEW payload, PayloadSound(command, payload, unsure, home),
         NEW out, out = undo(command, d, payload)
  PROVE  out.done /\ out.touched = {} /\ Sound(out.db, unsure, home)
<1>1. CASE command = "quotes.create"
  <2>1. out = Done([d EXCEPT !.quotes = Without(@, {payload.id})], {})
    BY <1>1 DEF undo, Creates, undoCreateQuote
  <2>2. /\ out.done /\ out.touched = {}
        /\ out.db = [d EXCEPT !.quotes = Without(@, {payload.id})]
    BY <2>1 DEF Done
  <2>3. Sound([d EXCEPT !.quotes = Without(@, {payload.id})], unsure, home)
    BY QuoteGone
  <2> QED
    BY <2>2, <2>3
<1>2. CASE command \in QuoteCommands \ Creates
  <2>1. out = restoreQuoteGraph(d, payload)
    BY <1>2, OneKind DEF undo, QuoteCommands, Creates, OrderCommands
  <2>2. payload.id \in Documents /\ payload.row \in QuoteRow
    BY DEF PayloadSound
  <2> QED
    BY <2>1, <2>2, QuotePut DEF restoreQuoteGraph
<1> QED
  BY <1>1, <1>2 DEF QuoteCommands, Creates

\* The orders other than its own are as they were when an order is restored.
LEMMA OtherOrdersKept ==
  ASSUME NEW d \in Database, OwnAllocations(d), NEW snapshot, snapshot.id \in Documents,
         RowsOf(snapshot) \in Database,
         NEW out, out = restoreOrderGraph(d, snapshot)
  PROVE  \A y \in DOMAIN d.orders : y # snapshot.id =>
           y \in DOMAIN out.db.orders /\ out.db.orders[y] = d.orders[y]
<1>1. PICK e : e = withoutRecords(d, snapshot.id)
  OBVIOUS
<1>2. e \in Database /\ e.orders = d.orders
  BY <1>1, RecordsGone
<1>3. PICK orders : orders = Put(e.orders, snapshot.id, snapshot.row)
  OBVIOUS
<1>4. PICK shipments : shipments = Over(snapshot.shipments, e.shipments)
  OBVIOUS
<1>5. PICK payments : payments = Over(snapshot.payments, e.payments)
  OBVIOUS
<1>6. ~ RemainsAllocated(d, snapshot.id)
  BY NeverAllocatedElsewhere
<1>7. out = Done([e EXCEPT !.orders = orders, !.shipments = shipments, !.payments = payments], {})
  BY <1>1, <1>3, <1>4, <1>5, <1>6 DEF restoreOrderGraph
<1>8. out.db = [e EXCEPT !.orders = orders, !.shipments = shipments, !.payments = payments]
  BY <1>7 DEF Done
<1>9. out.db.orders = orders
  BY <1>2, <1>8 DEF Database
<1> QED
  BY <1>2, <1>3, <1>9 DEF Put, Over, Only

\* A command about an order is undone, or the undo fails and leaves an order
\* behind whose totals may not be its own.
LEMMA OrderUndone ==
  ASSUME NEW d, NEW unsure, NEW home, Sound(d, unsure, home),
         NEW command \in OrderCommands,
         NEW payload, PayloadSound(command, payload, unsure, home),
         NEW out, out = undo(command, d, payload)
  PROVE  /\ out.touched = {} /\ payload.id \in Documents
         /\ out.done => Sound(out.db, unsure \cup NeglectedIn(d, out), home)
         /\ ~ out.done => Sound(out.db, unsure \cup {payload.id}, home)
<1>0. payload.id \in Documents /\ Sound(RowsOf(payload), unsure, home)
  BY DEF PayloadSound
<1>1. CASE command = "orders.create"
  <2>1. out = undoCreateOrder(d, payload)
    BY <1>1 DEF undo, Creates
  <2>2. /\ out.touched = {}
        /\ out.done => Sound(out.db, unsure, home)
        /\ ~ out.done => Sound(out.db, unsure \cup {payload.id}, home)
    BY <1>0, <2>1, OrderUncreated
  <2>3. Sound(out.db, unsure, home) => Sound(out.db, unsure \cup NeglectedIn(d, out), home)
    BY SoundWeaker
  <2> QED
    BY <1>0, <2>2, <2>3
<1>2. CASE command \in OrderCommands \ Creates
  <2>1. out = restoreOrderGraph(d, payload)
    BY <1>2, OneKind DEF undo, OrderCommands, Creates
  <2>2. PICK left : left = NeglectedIn(d, out)
    OBVIOUS
  <2>3. \A y \in DOMAIN d.orders : y # payload.id =>
          y \in DOMAIN out.db.orders /\ out.db.orders[y] = d.orders[y]
    BY <1>0, <2>1, OtherOrdersKept DEF Sound
  <2>4. out.touched = {}
    BY <2>1 DEF restoreOrderGraph, Done, Rejected
  <2>5. \A y \in DOMAIN d.orders \ left : y # payload.id =>
          PaidTotal(restoreOrderGraph(d, payload).db, y) = PaidTotal(d, y)
    BY <2>1, <2>2, <2>3, <2>4 DEF NeglectedIn
  <2>6. out.done /\ Sound(out.db, unsure \cup left, home)
    BY <1>0, <2>1, <2>5, OrderRestored
  <2> QED
    BY <1>0, <2>2, <2>4, <2>6
<1> QED
  BY <1>1, <1>2 DEF OrderCommands, Creates

\* Every command is undone, or its undo fails.
LEMMA Undone ==
  ASSUME NEW d, NEW unsure, NEW home, Sound(d, unsure, home),
         NEW command \in Commands,
         NEW payload, PayloadSound(command, payload, unsure, home),
         NEW out, out = undo(command, d, payload)
  PROVE  /\ out.done => Sound(recompute(command, out), unsure \cup NeglectedIn(d, out), home)
         /\ ~ out.done => \/ out.db = d
                          \/ /\ payload.id \in Documents
                             /\ Sound(out.db, unsure \cup {payload.id}, home)
<1>1. CASE command \in OrderCommands
  <2>1. command \in Commands \ ShipmentCommands
    BY <1>1, OneKind
  <2> QED
    BY <1>1, <2>1, OrderUndone, UndoneUntouched
<1>2. CASE command \in QuoteCommands
  <2>1. command \in Commands \ ShipmentCommands
    BY <1>2, OneKind
  <2>2. out.done /\ out.touched = {} /\ Sound(out.db, unsure, home)
    BY <1>2, QuoteUndone
  <2>3. Sound(out.db, unsure \cup NeglectedIn(d, out), home)
    BY <2>2, SoundWeaker
  <2> QED
    BY <2>1, <2>2, <2>3, UndoneUntouched
<1>3. CASE command \in ShipmentCommands
  <2>1. out.done /\ Sound(recompute(command, out), unsure, home)
    BY <1>3, ShipmentUndone
  <2> QED
    BY <2>1, SoundWeaker
<1>4. CASE command \in PaymentCommands
  BY <1>4, PaymentUndone
<1> QED
  BY <1>1, <1>2, <1>3, <1>4 DEF Commands

(***************************************************************************)
(* Undoing brings back what the command has found                          *)
(***************************************************************************)

\* Rows that agree in all that is not derived from other rows.
SameDocument(x, y) ==
  x.discount = y.discount /\ x.grand = y.grand /\ QuantitiesOf(x) = QuantitiesOf(y)

SameData(d, e) ==
  /\ d.quotes = e.quotes /\ d.shipments = e.shipments /\ d.payments = e.payments
  /\ DOMAIN d.orders = DOMAIN e.orders
  /\ \A o \in DOMAIN d.orders : SameDocument(d.orders[o], e.orders[o])

\* What is derived agrees, then, wherever both databases are sound.
LEMMA SameDataSameBut ==
  ASSUME NEW unsure, NEW d, NEW home, Sound(d, unsure, home),
         NEW e, NEW other, Sound(e, unsure, other), SameData(d, e)
  PROVE  SameBut(unsure, d, e)
<1>0. /\ d \in Database /\ e \in Database
      /\ \A o \in DOMAIN d.orders : d.orders[o] \in OrderRow
      /\ \A o \in DOMAIN e.orders : e.orders[o] \in OrderRow
  BY RowsTyped DEF Sound
<1>1. ASSUME NEW o \in DOMAIN d.orders
      PROVE  d.orders[o].lines = e.orders[o].lines
  <2>1. PICK f : f = d.orders[o].lines
    OBVIOUS
  <2>2. PICK g : g = e.orders[o].lines
    OBVIOUS
  <2>3. f \in PartialFunctions(Lines, LineRow) /\ g \in PartialFunctions(Lines, LineRow)
    BY <1>0, <2>1, <2>2 DEF SameData, OrderRow
  <2>4. QuantitiesOf(d.orders[o]) = QuantitiesOf(e.orders[o])
    BY DEF SameData, SameDocument
  <2>5. [l \in DOMAIN f |-> f[l].quantity] = [l \in DOMAIN g |-> g[l].quantity]
    BY <2>1, <2>2, <2>4 DEF QuantitiesOf
  <2>6. DOMAIN f = DOMAIN g /\ \A l \in DOMAIN f : f[l].quantity = g[l].quantity
    BY <2>5
  <2>7. \A l : loadShippedTotals(d, o, l, {}) = loadShippedTotals(e, o, l, {})
    <3>1. ShipmentsOf(d, o) = ShipmentsOf(e, o)
      BY DEF SameData, ShipmentsOf
    <3> QED
      BY <3>1, ShippedSame DEF SameData
  <2>8. \A l \in DOMAIN f : f[l].fulfilled = loadShippedTotals(d, o, l, {})
    BY <2>1 DEF Sound, Fulfilled
  <2>9. \A l \in DOMAIN g : g[l].fulfilled = loadShippedTotals(e, o, l, {})
    BY <2>2 DEF Sound, Fulfilled, SameData
  <2>10. \A l \in DOMAIN f : f[l] \in LineRow /\ g[l] \in LineRow
    BY <2>3, <2>6, PartialIs
  <2>11. \A l \in DOMAIN f : f[l] = g[l]
    <3>1. TAKE l \in DOMAIN f
    <3>2. f[l].quantity = g[l].quantity /\ f[l].fulfilled = g[l].fulfilled
      BY <2>6, <2>7, <2>8, <2>9
    <3> QED
      BY <2>10, <3>2 DEF LineRow
  <2> QED
    BY ONLY <2>1, <2>2, <2>3, <2>6, <2>11, SameRows
<1>2. ASSUME NEW o \in DOMAIN d.orders \ unsure
      PROVE  /\ d.orders[o].paid = e.orders[o].paid
             /\ d.orders[o].outstanding = e.orders[o].outstanding
  <2>1. PaidTotal(d, o) = PaidTotal(e, o)
    <3>1. d.payments = e.payments
      BY DEF SameData
    <3>2. PaymentsOf(d, o) = PaymentsOf(e, o) /\ AllocatedTo(d, o) = AllocatedTo(e, o)
      BY <3>1 DEF PaymentsOf, AllocatedTo
    <3> QED
      BY <3>1, <3>2, PaidSame
  <2>2. TotalAgrees(d, o)
    BY DEF Sound, Totals
  <2>3. TotalAgrees(e, o)
    BY DEF Sound, Totals, SameData
  <2> QED
    BY <2>1, <2>2, <2>3 DEF TotalAgrees, SameData, SameDocument
<1>3. ASSUME NEW x \in OrderRow, NEW y \in OrderRow,
             x.lines = y.lines, x.discount = y.discount, x.grand = y.grand
      PROVE  /\ [x EXCEPT !.paid = 0, !.outstanding = 0] = [y EXCEPT !.paid = 0, !.outstanding = 0]
             /\ (x.paid = y.paid /\ x.outstanding = y.outstanding) => x = y
  <2>1. PICK u : u = [x EXCEPT !.paid = 0, !.outstanding = 0]
    OBVIOUS
  <2>2. PICK v : v = [y EXCEPT !.paid = 0, !.outstanding = 0]
    OBVIOUS
  <2>3. u \in OrderRow /\ v \in OrderRow
    BY <2>1, <2>2 DEF OrderRow
  <2>4. /\ u.lines = x.lines /\ u.discount = x.discount /\ u.grand = x.grand
        /\ u.paid = 0 /\ u.outstanding = 0
    BY <2>1 DEF OrderRow
  <2>5. /\ v.lines = x.lines /\ v.discount = x.discount /\ v.grand = x.grand
        /\ v.paid = 0 /\ v.outstanding = 0
    BY <1>3, <2>2 DEF OrderRow
  <2>6. u = v
    BY ONLY <2>3, <2>4, <2>5 DEF OrderRow
  <2>7. (x.paid = y.paid /\ x.outstanding = y.outstanding) => x = y
    BY ONLY <1>3, x \in OrderRow, y \in OrderRow DEF OrderRow
  <2> QED
    BY <2>1, <2>2, <2>6, <2>7
<1>4. \A o \in DOMAIN d.orders :
        /\ d.orders[o] \in OrderRow /\ e.orders[o] \in OrderRow
        /\ d.orders[o].discount = e.orders[o].discount
        /\ d.orders[o].grand = e.orders[o].grand
  BY <1>0 DEF SameData, SameDocument
<1>5. \A o \in DOMAIN d.orders :
        IF o \in unsure
        THEN [d.orders[o] EXCEPT !.paid = 0, !.outstanding = 0]
               = [e.orders[o] EXCEPT !.paid = 0, !.outstanding = 0]
        ELSE d.orders[o] = e.orders[o]
  <2>1. TAKE o \in DOMAIN d.orders
  <2>2. PICK x \in OrderRow : x = d.orders[o]
    BY <1>4
  <2>3. PICK y \in OrderRow : y = e.orders[o]
    BY <1>4
  <2>4. x.lines = y.lines /\ x.discount = y.discount /\ x.grand = y.grand
    BY <1>1, <1>4, <2>2, <2>3
  <2>5. /\ [x EXCEPT !.paid = 0, !.outstanding = 0] = [y EXCEPT !.paid = 0, !.outstanding = 0]
        /\ x.paid = y.paid /\ x.outstanding = y.outstanding => x = y
    BY ONLY <1>3, <2>4, x \in OrderRow, y \in OrderRow
  <2>6. o \notin unsure => x.paid = y.paid /\ x.outstanding = y.outstanding
    BY <1>2, <2>2, <2>3
  <2> QED
    BY <2>2, <2>3, <2>5, <2>6
<1> QED
  BY <1>5 DEF SameBut, SameData

\* Computing again leaves the data.
LEMMA RecomputedSame ==
  ASSUME NEW command \in Commands, NEW out, out.db \in Database
  PROVE  SameData(recompute(command, out), out.db)
<1>1. CASE command \in ShipmentCommands
  <2>1. PICK a : a = WithFulfilled(out.db, out.touched)
    OBVIOUS
  <2>2. recompute(command, out) = a
    BY <1>1, <2>1, ShipmentsRecomputed
  <2>3. /\ a.quotes = out.db.quotes /\ a.shipments = out.db.shipments
        /\ a.payments = out.db.payments /\ DOMAIN a.orders = DOMAIN out.db.orders
        /\ \A o \in DOMAIN out.db.orders :
             /\ QuantitiesOf(a.orders[o]) = QuantitiesOf(out.db.orders[o])
             /\ a.orders[o].discount = out.db.orders[o].discount
             /\ a.orders[o].grand = out.db.orders[o].grand
    BY <2>1, WithFulfilledIs
  <2> QED
    BY <2>2, <2>3 DEF SameData, SameDocument
<1>2. CASE command \notin ShipmentCommands
  <2>1. \A x, y : x.lines = y.lines => QuantitiesOf(x) = QuantitiesOf(y)
    BY DEF QuantitiesOf
  <2>2. PICK a : a = WithTotals(out.db, out.touched)
    OBVIOUS
  <2>3. recompute(command, out) = a
    BY <1>2, <2>2, TotalsRecomputed
  <2>4. /\ a.quotes = out.db.quotes /\ a.shipments = out.db.shipments
        /\ a.payments = out.db.payments /\ DOMAIN a.orders = DOMAIN out.db.orders
        /\ \A o \in DOMAIN out.db.orders :
             /\ a.orders[o].lines = out.db.orders[o].lines
             /\ a.orders[o].discount = out.db.orders[o].discount
             /\ a.orders[o].grand = out.db.orders[o].grand
    BY <2>2, WithTotalsIs
  <2> QED
    BY <2>1, <2>3, <2>4 DEF SameData, SameDocument
<1> QED
  BY <1>1, <1>2

\* What is new is new, and payments stay with their order.
FreshIn(d, command, c) ==
  /\ command \in Creates => c.id \notin DOMAIN TableOf(command, d)
  /\ command = "payments.update" =>
       (c.id \in DOMAIN d.payments => d.payments[c.id].order \in {c.order, NoOrder})

\* A command and the undo of it.
LEMMA QuoteReversed ==
  ASSUME NEW b \in Database, NEW command \in QuoteCommands \ {"quotes.convert_to_order"},
         NEW c, FreshIn(b, command, c),
         NEW out, out = execute(command, b, c), out.done,
         NEW payload, payload.id = c.id,
         command \notin Creates => payload = snapshotOf(command, b, c.id),
         NEW back, back = undo(command, out.db, payload)
  PROVE  back.db.quotes = b.quotes /\ back.db = [b EXCEPT !.quotes = back.db.quotes]
<1>0. b.quotes = [q \in DOMAIN b.quotes |-> b.quotes[q]]
  BY Fields, PartialIs
<1>1. CASE command = "quotes.create"
  <2>1. PICK row : row = [lines |-> c.quantities, discount |-> 0]
    OBVIOUS
  <2>2. c.id \notin DOMAIN b.quotes
    BY <1>1, OneKind DEF FreshIn, TableOf, Creates
  <2>3. out = Done([b EXCEPT !.quotes = Put(@, c.id, row)], {})
    BY <1>1, <2>1 DEF execute, createQuote, PutQuote
  <2>4. PICK quotes : quotes = Put(b.quotes, c.id, row)
    OBVIOUS
  <2>5. out.db = [b EXCEPT !.quotes = quotes]
    BY <2>3, <2>4 DEF Done
  <2>6. PICK left : left = Without(quotes, {c.id})
    OBVIOUS
  <2>7. out.db.quotes = quotes
    BY <2>5 DEF Database
  <2>8. back = Done([out.db EXCEPT !.quotes = left], {})
    BY <1>1, <2>6, <2>7 DEF undo, Creates, undoCreateQuote
  <2>9. back.db = [out.db EXCEPT !.quotes = left]
    BY <2>8 DEF Done
  <2>10. back.db.quotes = left /\ back.db = [b EXCEPT !.quotes = left]
    BY <2>5, <2>9 DEF Database
  <2>11. left = b.quotes
    BY <1>0, <2>2, <2>4, <2>6, NewDropped
  <2> QED
    BY <2>10, <2>11
<1>2. CASE command \notin Creates
  <2>1. payload = loadQuoteSnapshot(b, c.id)
    BY <1>2, OneKind DEF snapshotOf
  <2>2. payload.id = c.id /\ payload.row = b.quotes[c.id]
    BY <2>1 DEF loadQuoteSnapshot
  <2>3. /\ out.db = [b EXCEPT !.quotes = out.db.quotes]
        /\ DOMAIN out.db.quotes \cup {c.id} = DOMAIN b.quotes
        /\ \A q \in DOMAIN out.db.quotes : q # c.id => out.db.quotes[q] = b.quotes[q]
        /\ c.id \in DOMAIN b.quotes
    <3>1. CASE command = "quotes.delete"
      <4>0. out = deleteQuote(b, c)
        BY <3>1 DEF execute
      <4>2. PICK quotes : quotes = Without(b.quotes, {c.id})
        OBVIOUS
      <4>1. c.id \in DOMAIN b.quotes /\ out = Done([b EXCEPT !.quotes = quotes], {})
        BY <4>0, <4>2 DEF deleteQuote, Rejected
      <4>3. out.db = [b EXCEPT !.quotes = quotes]
        BY <4>1 DEF Done
      <4>5. out.db.quotes = quotes
        BY <4>3 DEF Database
      <4>4. /\ DOMAIN quotes = DOMAIN b.quotes \ {c.id}
            /\ \A q \in DOMAIN quotes : quotes[q] = b.quotes[q]
        BY <4>2 DEF Without, Restrict
      <4> QED
        BY <4>1, <4>3, <4>4, <4>5
    <3>2. CASE command # "quotes.delete"
      <4>1. PICK row : c.id \in DOMAIN b.quotes /\ out = PutQuote(b, c.id, row)
        <5>1. CASE command = "quotes.lines.upsert"
          BY <5>1 DEF execute, quoteLineUpsert, Rejected
        <5>2. CASE command = "quotes.lines.delete"
          BY <5>2 DEF execute, quoteLineDelete, Rejected
        <5>3. CASE command = "quotes.adjustments.upsert"
          BY <5>3 DEF execute, quoteAdjustmentUpsert, Rejected
        <5>4. CASE command = "quotes.adjustments.delete"
          BY <5>4 DEF execute, quoteAdjustmentDelete, Rejected
        <5> QED
          BY <1>2, <3>2, <5>1, <5>2, <5>3, <5>4 DEF QuoteCommands, Creates
      <4>2. PICK quotes : quotes = Put(b.quotes, c.id, row)
        OBVIOUS
      <4>3. out = Done([b EXCEPT !.quotes = quotes], {})
        BY <4>1, <4>2 DEF PutQuote
      <4>4. out.db = [b EXCEPT !.quotes = quotes]
        BY <4>3 DEF Done
      <4>6. out.db.quotes = quotes
        BY <4>4 DEF Database
      <4>5. /\ DOMAIN quotes = DOMAIN b.quotes \cup {c.id}
            /\ \A q \in DOMAIN quotes : q # c.id => quotes[q] = b.quotes[q]
        BY <4>2 DEF Put, Over, Only
      <4> QED
        BY <4>1, <4>4, <4>5, <4>6
    <3> QED
      BY <3>1, <3>2
  <2>4. PICK left : left = Put(out.db.quotes, c.id, b.quotes[c.id])
    OBVIOUS
  <2>5. left = b.quotes
    BY <1>0, <2>3, <2>4, PutBack
  <2>7. back = restoreQuoteGraph(out.db, payload)
    BY <1>2, OneKind DEF undo, OrderCommands, Creates
  <2>8. back = Done([out.db EXCEPT !.quotes = left], {})
    BY <2>2, <2>4, <2>7 DEF restoreQuoteGraph, PutQuote
  <2>9. back.db = [out.db EXCEPT !.quotes = left]
    BY <2>8 DEF Done
  <2>10. back.db.quotes = left /\ back.db = [b EXCEPT !.quotes = left]
    BY <2>3, <2>9 DEF Database
  <2> QED
    BY <2>5, <2>10
<1> QED
  BY <1>1, <1>2 DEF QuoteCommands, Creates

\* The data after a command about shipments, but for these.
LEMMA ShipmentsAside ==
  ASSUME NEW b \in Database, NEW ships, NEW T, NEW e, e = [b EXCEPT !.shipments = ships],
         NEW a \in Database, a = WithFulfilled(e, T)
  PROVE  /\ a.shipments = ships /\ a.quotes = b.quotes /\ a.payments = b.payments
         /\ DOMAIN a.orders = DOMAIN b.orders
         /\ \A o \in DOMAIN b.orders : SameDocument(a.orders[o], b.orders[o])
<1>1. e = [orders |-> b.orders, quotes |-> b.quotes, shipments |-> ships,
           payments |-> b.payments]
  BY DEF Database
<1>2. a.shipments = ships
  BY <1>1 DEF WithFulfilled
<1>3. ships \in PartialFunctions(Shipments, ShipmentRow)
  BY <1>2, Fields
<1>4. e \in Database
  BY <1>1, <1>3, Fields DEF Database
<1>5. e.orders = b.orders /\ e.quotes = b.quotes /\ e.payments = b.payments
  BY <1>1
<1>6. PICK w : w = WithFulfilled(e, T)
  OBVIOUS
<1>7. /\ w.quotes = e.quotes /\ w.payments = e.payments /\ DOMAIN w.orders = DOMAIN e.orders
      /\ \A o \in DOMAIN e.orders :
           /\ QuantitiesOf(w.orders[o]) = QuantitiesOf(e.orders[o])
           /\ w.orders[o].discount = e.orders[o].discount
           /\ w.orders[o].grand = e.orders[o].grand
  BY ONLY <1>4, <1>6, WithFulfilledIs
<1>8. w = a
  BY <1>6
<1> QED
  BY ONLY <1>2, <1>5, <1>7, <1>8 DEF SameDocument

\* The data after a command about payments, but for these.
LEMMA PaymentsAside ==
  ASSUME NEW b \in Database, NEW pays, NEW e,
         e = [orders |-> b.orders, quotes |-> b.quotes, shipments |-> b.shipments,
              payments |-> pays],
         NEW T, NEW a \in Database, a = WithTotals(e, T)
  PROVE  /\ a.payments = pays /\ a.quotes = b.quotes /\ a.shipments = b.shipments
         /\ DOMAIN a.orders = DOMAIN b.orders
         /\ \A o \in DOMAIN b.orders : SameDocument(a.orders[o], b.orders[o])
<1>1. a.payments = pays
  BY DEF WithTotals
<1>2. pays \in PartialFunctions(Payments, PaymentRow)
  BY <1>1, Fields
<1>3. e \in Database
  BY <1>2, Fields DEF Database
<1>4. e.orders = b.orders /\ e.quotes = b.quotes /\ e.shipments = b.shipments
  OBVIOUS
<1>5. \A x, y : x.lines = y.lines => QuantitiesOf(x) = QuantitiesOf(y)
  BY DEF QuantitiesOf
<1>6. PICK w : w = WithTotals(e, T)
  OBVIOUS
<1>7. /\ w.quotes = e.quotes /\ w.shipments = e.shipments /\ DOMAIN w.orders = DOMAIN e.orders
      /\ \A o \in DOMAIN e.orders :
           /\ w.orders[o].lines = e.orders[o].lines
           /\ w.orders[o].discount = e.orders[o].discount
           /\ w.orders[o].grand = e.orders[o].grand
  BY ONLY <1>3, <1>6, WithTotalsIs
<1>8. w = a
  BY <1>6
<1> QED
  BY ONLY <1>1, <1>4, <1>5, <1>7, <1>8 DEF SameDocument

LEMMA ShipmentReversed ==
  ASSUME NEW b \in Database, Referenced(b), NEW command \in ShipmentCommands,
         NEW c, FreshIn(b, command, c),
         NEW out, out = execute(command, b, c), out.done,
         NEW a \in Database, a = recompute(command, out),
         NEW payload, payload.id = c.id,
         command \notin Creates => payload = snapshotOf(command, b, c.id),
         NEW back, back = undo(command, a, payload)
  PROVE  back.db \in Database /\ SameData(back.db, b)
<1>0. /\ b.shipments = [s \in DOMAIN b.shipments |-> b.shipments[s]]
      /\ b.shipments \in PartialFunctions(Shipments, ShipmentRow)
      /\ \A s \in DOMAIN b.shipments : b.shipments[s] \in ShipmentRow
  BY Fields, RowsTyped, PartialIs
<1>1. a = WithFulfilled(out.db, out.touched)
  BY ShipmentsRecomputed
<1>2. SUFFICES ASSUME NEW ships, NEW e, e = [b EXCEPT !.shipments = ships], out.db = e
               PROVE  back.db = [a EXCEPT !.shipments = b.shipments]
  <2>1. PICK ships : ships = out.db.shipments
    OBVIOUS
  <2>2. out.db = [b EXCEPT !.shipments = ships]
    <3>1. CASE command = "shipments.create"
      <4>1. out = createShipment(b, c)
        BY <3>1 DEF execute
      <4>2. PICK row : row = [order |-> c.order, items |-> c.items]
        OBVIOUS
      <4>3. PICK new : new = Put(b.shipments, c.id, row)
        OBVIOUS
      <4>4. out = Done([b EXCEPT !.shipments = new], {c.order})
        BY <4>1, <4>2, <4>3 DEF createShipment, Rejected
      <4>5. out.db = [b EXCEPT !.shipments = new]
        BY <4>4 DEF Done
      <4>6. out.db.shipments = new
        BY <4>5 DEF Database
      <4> QED
        BY <2>1, <4>5, <4>6
    <3>2. CASE command = "shipments.update"
      <4>1. out = updateShipment(b, c)
        BY <3>2 DEF execute
      <4>2. PICK new : new = [b.shipments EXCEPT ![c.id].items = c.items]
        OBVIOUS
      <4>3. out = Done([b EXCEPT !.shipments = new], {b.shipments[c.id].order})
        BY <4>1, <4>2 DEF updateShipment, Rejected
      <4>4. out.db = [b EXCEPT !.shipments = new]
        BY <4>3 DEF Done
      <4>5. out.db.shipments = new
        BY <4>4 DEF Database
      <4> QED
        BY <2>1, <4>4, <4>5
    <3>3. CASE command = "shipments.delete"
      <4>1. out = deleteShipment(b, c)
        BY <3>3 DEF execute
      <4>2. PICK new : new = Without(b.shipments, {c.id})
        OBVIOUS
      <4>3. out = Done([b EXCEPT !.shipments = new], {b.shipments[c.id].order})
        BY <4>1, <4>2 DEF deleteShipment, deleteShipmentWithItems, Rejected
      <4>4. out.db = [b EXCEPT !.shipments = new]
        BY <4>3 DEF Done
      <4>5. out.db.shipments = new
        BY <4>4 DEF Database
      <4> QED
        BY <2>1, <4>4, <4>5
    <3> QED
      BY <3>1, <3>2, <3>3 DEF ShipmentCommands
  <2>3. back.db = [a EXCEPT !.shipments = b.shipments]
    BY <1>2, <2>2
  <2>4. /\ a.quotes = b.quotes /\ a.payments = b.payments /\ DOMAIN a.orders = DOMAIN b.orders
        /\ \A o \in DOMAIN b.orders : SameDocument(a.orders[o], b.orders[o])
    <3>1. PICK e : e = [b EXCEPT !.shipments = ships]
      OBVIOUS
    <3>2. a = WithFulfilled(e, out.touched)
      BY <1>1, <2>2, <3>1
    <3> QED
      BY ONLY <3>1, <3>2, a \in Database, b \in Database, ShipmentsAside
  <2>5. PICK d : d = back.db
    OBVIOUS
  <2>6. d = [orders |-> a.orders, quotes |-> a.quotes, shipments |-> b.shipments,
             payments |-> a.payments]
    BY <2>3, <2>5 DEF Database
  <2>7. d \in Database
    BY <1>0, <2>6, Fields DEF Database
  <2>8. SameData(d, b)
    BY <2>4, <2>6 DEF SameData
  <2> QED
    BY <2>5, <2>7, <2>8
<1>3. /\ a.shipments = ships /\ DOMAIN a.orders = DOMAIN b.orders
      /\ \A o \in DOMAIN b.orders : DOMAIN a.orders[o].lines = DOMAIN b.orders[o].lines
  <2>0. PICK f : f = [b EXCEPT !.shipments = ships]
    OBVIOUS
  <2>1. a = WithFulfilled(f, out.touched)
    BY <1>1, <1>2, <2>0
  <2>2. /\ a.shipments = ships /\ a.quotes = b.quotes /\ a.payments = b.payments
        /\ DOMAIN a.orders = DOMAIN b.orders
        /\ \A o \in DOMAIN b.orders : SameDocument(a.orders[o], b.orders[o])
    BY ONLY <2>0, <2>1, a \in Database, b \in Database, ShipmentsAside
  <2>3. \A x : DOMAIN QuantitiesOf(x) = DOMAIN x.lines
    BY DEF QuantitiesOf
  <2>4. \A o \in DOMAIN b.orders : DOMAIN a.orders[o].lines = DOMAIN b.orders[o].lines
    BY <2>2, <2>3 DEF SameDocument
  <2> QED
    BY <2>2, <2>4
<1>4. out.db.shipments = ships
  BY <1>2 DEF Database
<1>5. CASE command = "shipments.create"
  <2>1. PICK row : row = [order |-> c.order, items |-> c.items]
    OBVIOUS
  <2>2. PICK new : new = Put(b.shipments, c.id, row)
    OBVIOUS
  <2>3. out = Done([b EXCEPT !.shipments = new], {c.order})
    BY <1>5, <2>1, <2>2 DEF execute, createShipment, Rejected
  <2>4. out.db = [b EXCEPT !.shipments = new]
    BY <2>3 DEF Done
  <2>5. ships = new
    BY <1>4, <2>4 DEF Database
  <2>6. c.id \notin DOMAIN b.shipments
    BY <1>5, OneKind DEF FreshIn, TableOf, Creates
  <2>7. Without(new, {c.id}) = b.shipments
    BY <1>0, <2>2, <2>6, NewDropped
  <2>8. c.id \in DOMAIN new
    BY <2>2 DEF Put, Over, Only
  <2>9. back = undoCreateShipment(a, payload)
    BY <1>5 DEF undo, Creates
  <2>10. back = Done(deleteShipmentWithItems(a, c.id), {a.shipments[c.id].order})
    BY <1>3, <2>5, <2>8, <2>9 DEF undoCreateShipment
  <2>11. back.db = deleteShipmentWithItems(a, c.id)
    BY <2>10 DEF Done
  <2> QED
    BY <1>3, <2>5, <2>7, <2>11 DEF deleteShipmentWithItems
<1>6. CASE command \notin Creates
  <2>1. payload = loadShipmentSnapshot(b, c.id)
    BY <1>6, OneKind DEF snapshotOf
  <2>2. PICK row : row = b.shipments[c.id]
    OBVIOUS
  <2>3. payload.id = c.id /\ payload.row = row
    BY <2>1, <2>2 DEF loadShipmentSnapshot
  <2>4. /\ c.id \in DOMAIN b.shipments /\ DOMAIN ships \cup {c.id} = DOMAIN b.shipments
        /\ \A s \in DOMAIN ships : s # c.id => ships[s] = b.shipments[s]
    <3>1. CASE command = "shipments.update"
      <4>1. PICK new : new = [b.shipments EXCEPT ![c.id].items = c.items]
        OBVIOUS
      <4>2. /\ c.id \in DOMAIN b.shipments
            /\ out = Done([b EXCEPT !.shipments = new], {b.shipments[c.id].order})
        BY <3>1, <4>1 DEF execute, updateShipment, Rejected
      <4>3. out.db = [b EXCEPT !.shipments = new]
        BY <4>2 DEF Done
      <4>4. ships = new
        BY <1>4, <4>3 DEF Database
      <4> QED
        BY <4>1, <4>2, <4>4
    <3>2. CASE command = "shipments.delete"
      <4>1. PICK new : new = Without(b.shipments, {c.id})
        OBVIOUS
      <4>2. /\ c.id \in DOMAIN b.shipments
            /\ out = Done([b EXCEPT !.shipments = new], {b.shipments[c.id].order})
        BY <3>2, <4>1 DEF execute, deleteShipment, deleteShipmentWithItems, Rejected
      <4>3. out.db = [b EXCEPT !.shipments = new]
        BY <4>2 DEF Done
      <4>4. ships = new
        BY <1>4, <4>3 DEF Database
      <4>5. /\ DOMAIN new = DOMAIN b.shipments \ {c.id}
            /\ \A s \in DOMAIN new : new[s] = b.shipments[s]
        BY <4>1 DEF Without, Restrict
      <4> QED
        BY <4>2, <4>4, <4>5
    <3> QED
      BY <1>6, <3>1, <3>2 DEF ShipmentCommands, Creates
  <2>5. PICK kept : kept = DOMAIN row.items \cap DOMAIN a.orders[row.order].lines
    OBVIOUS
  <2>6. row \in ShipmentRow /\ row.order \in DOMAIN b.orders
        /\ DOMAIN row.items \subseteq DOMAIN b.orders[row.order].lines
    BY <1>0, <2>2, <2>4 DEF Referenced
  <2>7. row.order \in DOMAIN a.orders /\ kept = DOMAIN row.items
    BY <1>3, <2>5, <2>6
  <2>8. row.items = [l \in DOMAIN row.items |-> row.items[l]]
    BY <2>6, PartialIs DEF ShipmentRow
  <2>9. Restrict(row.items, kept) = row.items
    BY <2>7, <2>8, AllKept
  <2>10. [order |-> row.order, items |-> Restrict(row.items, kept)] = row
    BY <2>6, <2>9 DEF ShipmentRow
  <2>11. PICK left : left = Put(ships, c.id, row)
    OBVIOUS
  <2>12. restoreShipmentSnapshot(a, payload) = [a EXCEPT !.shipments = left]
    BY <1>3, <2>3, <2>5, <2>7, <2>10, <2>11 DEF restoreShipmentSnapshot
  <2>13. left = b.shipments
    BY <1>0, <2>2, <2>4, <2>11, PutBack
  <2>14. back = undoChangeOfShipment(a, payload)
    BY <1>6, OneKind DEF undo, ShipmentCommands, Creates, OrderCommands, QuoteCommands
  <2>15. back.db = restoreShipmentSnapshot(a, payload)
    BY <2>14 DEF undoChangeOfShipment, Done
  <2> QED
    BY <2>12, <2>13, <2>15
<1> QED
  BY <1>5, <1>6 DEF ShipmentCommands, Creates

LEMMA PaymentReversed ==
  ASSUME NEW b \in Database, NEW command \in PaymentCommands,
         NEW c, FreshIn(b, command, c),
         NEW out, out = execute(command, b, c), out.done,
         NEW a \in Database, a = recompute(command, out),
         NEW payload, payload.id = c.id,
         command \notin Creates => payload = snapshotOf(command, b, c.id),
         NEW back, back = undo(command, a, payload), back.done
  PROVE  back.db \in Database /\ SameData(back.db, b)
<1>0. /\ b.payments = [p \in DOMAIN b.payments |-> b.payments[p]]
      /\ b.payments \in PartialFunctions(Payments, PaymentRow)
  BY Fields, PartialIs
<1>1. a = WithTotals(out.db, out.touched)
  <2>1. command \in Commands \ ShipmentCommands
    BY OneKind DEF Commands
  <2> QED
    BY <2>1, TotalsRecomputed
<1>2. PICK pays : pays = out.db.payments
  OBVIOUS
<1>3. ASSUME command = "payments.create"
      PROVE  \A row : row = [order |-> c.order, amount |-> c.amount,
                             allocations |-> Only(c.order, c.amount)]
                        => pays = Put(b.payments, c.id, row) /\ out.db = [b EXCEPT !.payments = pays]
  <2>1. TAKE row
  <2>2. HAVE row = [order |-> c.order, amount |-> c.amount,
                    allocations |-> Only(c.order, c.amount)]
  <2>3. PICK new : new = Put(b.payments, c.id, row)
    OBVIOUS
  <2>4. out = Done([b EXCEPT !.payments = new], {c.order})
    BY <1>3, <2>2, <2>3 DEF execute, createPayment, Rejected
  <2>5. out.db = [b EXCEPT !.payments = new]
    BY <2>4 DEF Done
  <2>6. pays = new
    BY <1>2, <2>5 DEF Database
  <2> QED
    BY <2>3, <2>5, <2>6
<1>4. ASSUME command = "payments.update"
      PROVE  /\ c.id \in DOMAIN b.payments /\ DOMAIN pays \cup {c.id} = DOMAIN b.payments
             /\ \A p \in DOMAIN pays : p # c.id => pays[p] = b.payments[p]
             /\ out.db = [b EXCEPT !.payments = pays]
  <2>1. PICK row : row = [order |-> c.order, amount |-> c.amount,
                          allocations |-> IF c.reallocate THEN Only(c.order, c.amount)
                                          ELSE b.payments[c.id].allocations]
    OBVIOUS
  <2>2. PICK new : new = [b.payments EXCEPT ![c.id] = row]
    OBVIOUS
  <2>3. /\ c.id \in DOMAIN b.payments
        /\ out = Done([b EXCEPT !.payments = new],
                      {c.order, b.payments[c.id].order} \ {NoOrder})
    BY <1>4, <2>1, <2>2 DEF execute, updatePayment, Rejected
  <2>4. out.db = [b EXCEPT !.payments = new]
    BY <2>3 DEF Done
  <2>5. pays = new
    BY <1>2, <2>4 DEF Database
  <2> QED
    BY <2>2, <2>3, <2>4, <2>5
<1>5. ASSUME command = "payments.delete"
      PROVE  /\ c.id \in DOMAIN b.payments /\ DOMAIN pays \cup {c.id} = DOMAIN b.payments
             /\ \A p \in DOMAIN pays : p # c.id => pays[p] = b.payments[p]
             /\ out.db = [b EXCEPT !.payments = pays]
  <2>1. PICK new : new = Without(b.payments, {c.id})
    OBVIOUS
  <2>2. /\ c.id \in DOMAIN b.payments
        /\ out = Done([b EXCEPT !.payments = new], OrdersOf(b.payments[c.id]))
    BY <1>5, <2>1 DEF execute, deletePayment, removePayment, Rejected
  <2>3. out.db = [b EXCEPT !.payments = new]
    BY <2>2 DEF Done
  <2>4. pays = new
    BY <1>2, <2>3 DEF Database
  <2>5. /\ DOMAIN new = DOMAIN b.payments \ {c.id}
        /\ \A p \in DOMAIN new : new[p] = b.payments[p]
    BY <2>1 DEF Without, Restrict
  <2> QED
    BY <2>2, <2>3, <2>4, <2>5
<1>6. out.db = [b EXCEPT !.payments = pays]
  BY <1>3, <1>4, <1>5 DEF PaymentCommands
<1>7. /\ a.payments = pays /\ a.quotes = b.quotes /\ a.shipments = b.shipments
      /\ DOMAIN a.orders = DOMAIN b.orders
      /\ \A o \in DOMAIN b.orders : SameDocument(a.orders[o], b.orders[o])
  <2>1. PICK e : e = [orders |-> b.orders, quotes |-> b.quotes, shipments |-> b.shipments,
                      payments |-> pays]
    OBVIOUS
  <2>2. a = WithTotals(e, out.touched)
    BY <1>1, <1>6, <2>1 DEF Database
  <2> QED
    BY ONLY <2>1, <2>2, a \in Database, b \in Database, PaymentsAside
<1>8. back.db = [a EXCEPT !.payments = b.payments]
  <2>1. CASE command = "payments.create"
    <3>1. PICK row : row = [order |-> c.order, amount |-> c.amount,
                            allocations |-> Only(c.order, c.amount)]
      OBVIOUS
    <3>2. pays = Put(b.payments, c.id, row)
      BY <1>3, <2>1, <3>1
    <3>3. c.id \notin DOMAIN b.payments
      BY <2>1, OneKind DEF FreshIn, TableOf, Creates
    <3>4. Without(pays, {c.id}) = b.payments
      BY <1>0, <3>2, <3>3, NewDropped
    <3>5. c.id \in DOMAIN pays
      BY <3>2 DEF Put, Over, Only
    <3>6. back = undoCreatePayment(a, payload)
      BY <2>1 DEF undo, Creates
    <3>7. back = Done(removePayment(a, c.id), OrdersOf(a.payments[c.id]))
      BY <1>7, <3>5, <3>6 DEF undoCreatePayment
    <3>8. back.db = removePayment(a, c.id)
      BY <3>7 DEF Done
    <3> QED
      BY <1>7, <3>4, <3>8 DEF removePayment
  <2>2. CASE command \notin Creates
    <3>1. payload = loadPaymentSnapshot(b, c.id)
      BY <2>2, OneKind DEF snapshotOf
    <3>2. payload.id = c.id /\ payload.row = b.payments[c.id]
      BY <3>1 DEF loadPaymentSnapshot
    <3>3. back = undoChangeOfPayment(a, payload)
      BY <2>2, OneKind DEF undo, Creates, OrderCommands, QuoteCommands, ShipmentCommands,
                           PaymentCommands
    <3>4. back.db = restorePaymentSnapshot(a, payload)
      BY <3>3 DEF undoChangeOfPayment, Done, Rejected
    <3>5. PICK left : left = Put(pays, c.id, b.payments[c.id])
      OBVIOUS
    <3>6. left = b.payments
      <4>1. /\ c.id \in DOMAIN b.payments /\ DOMAIN pays \cup {c.id} = DOMAIN b.payments
            /\ \A p \in DOMAIN pays : p # c.id => pays[p] = b.payments[p]
        BY <1>4, <1>5, <2>2 DEF PaymentCommands, Creates
      <4> QED
        BY <1>0, <3>5, <4>1, PutBack
    <3> QED
      BY <1>7, <3>2, <3>4, <3>5, <3>6 DEF restorePaymentSnapshot
  <2> QED
    BY <2>1, <2>2 DEF PaymentCommands, Creates
<1>9. PICK d : d = back.db
  OBVIOUS
<1>10. d = [orders |-> a.orders, quotes |-> a.quotes, shipments |-> a.shipments,
            payments |-> b.payments]
  BY <1>8, <1>9 DEF Database
<1>11. d \in Database
  BY <1>0, <1>10, Fields DEF Database
<1>12. SameData(d, b)
  BY <1>7, <1>10 DEF SameData
<1> QED
  BY <1>9, <1>11, <1>12

\* An order's snapshot is restored where nothing but the order, its shipments
\* and its payments has changed.
LEMMA OrderBack ==
  ASSUME NEW b \in Database, NEW o \in DOMAIN b.orders,
         NEW a \in Database, OwnAllocations(a), a.quotes = b.quotes,
         DOMAIN a.orders \cup {o} = DOMAIN b.orders,
         \A x \in DOMAIN a.orders : x # o => a.orders[x] = b.orders[x],
         DOMAIN a.shipments \ ShipmentsOf(a, o) = DOMAIN b.shipments \ ShipmentsOf(b, o),
         \A s \in DOMAIN a.shipments \ ShipmentsOf(a, o) : a.shipments[s] = b.shipments[s],
         DOMAIN a.payments \ PaymentsOf(a, o) = DOMAIN b.payments \ PaymentsOf(b, o),
         \A p \in DOMAIN a.payments \ PaymentsOf(a, o) : a.payments[p] = b.payments[p]
  PROVE  restoreOrderGraph(a, loadOrderSnapshot(b, o)).db = b
<1>0. /\ b.orders = [x \in DOMAIN b.orders |-> b.orders[x]]
      /\ b.shipments = [x \in DOMAIN b.shipments |-> b.shipments[x]]
      /\ b.payments = [x \in DOMAIN b.payments |-> b.payments[x]]
      /\ o \in Documents
  BY Fields, RowsTyped, PartialIs
<1>1. PICK snapshot : snapshot = loadOrderSnapshot(b, o)
  OBVIOUS
<1>2. /\ snapshot.id = o /\ snapshot.row = b.orders[o]
      /\ snapshot.shipments = Restrict(b.shipments, ShipmentsOf(b, o))
      /\ snapshot.payments = Restrict(b.payments, PaymentsOf(b, o))
  BY <1>1 DEF loadOrderSnapshot
<1>3. PICK e : e = withoutRecords(a, o)
  OBVIOUS
<1>4. /\ e \in Database /\ e.orders = a.orders /\ e.quotes = a.quotes
      /\ DOMAIN e.shipments = DOMAIN a.shipments \ ShipmentsOf(a, o)
      /\ \A s \in DOMAIN e.shipments : e.shipments[s] = a.shipments[s]
      /\ DOMAIN e.payments = DOMAIN a.payments \ PaymentsOf(a, o)
      /\ \A p \in DOMAIN e.payments : e.payments[p] = a.payments[p]
  BY <1>0, <1>3, RecordsGone
<1>5. PICK orders : orders = Put(a.orders, o, b.orders[o])
  OBVIOUS
<1>6. PICK ships : ships = Over(Restrict(b.shipments, ShipmentsOf(b, o)), e.shipments)
  OBVIOUS
<1>7. PICK pays : pays = Over(Restrict(b.payments, PaymentsOf(b, o)), e.payments)
  OBVIOUS
<1>8. orders = b.orders
  BY <1>0, <1>5, PutBack
<1>9. ships = b.shipments
  <2>1. ShipmentsOf(b, o) \subseteq DOMAIN b.shipments
    BY DEF ShipmentsOf
  <2>2. DOMAIN e.shipments = DOMAIN b.shipments \ ShipmentsOf(b, o)
    BY <1>4
  <2>3. \A s \in DOMAIN e.shipments : e.shipments[s] = b.shipments[s]
    BY <1>4
  <2>4. PICK f : f = b.shipments
    OBVIOUS
  <2>5. PICK D : D = ShipmentsOf(b, o)
    OBVIOUS
  <2>6. PICK g : g = e.shipments
    OBVIOUS
  <2>7. /\ f = [x \in DOMAIN f |-> f[x]] /\ D \subseteq DOMAIN f /\ DOMAIN g = DOMAIN f \ D
        /\ \A x \in DOMAIN g : g[x] = f[x]
    BY <1>0, <2>1, <2>2, <2>3, <2>4, <2>5, <2>6
  <2>8. Over(Restrict(f, D), g) = f
    BY ONLY <2>7, OverBack
  <2> QED
    BY <1>6, <2>4, <2>5, <2>6, <2>8
<1>10. pays = b.payments
  <2>1. PaymentsOf(b, o) \subseteq DOMAIN b.payments
    BY DEF PaymentsOf
  <2>2. DOMAIN e.payments = DOMAIN b.payments \ PaymentsOf(b, o)
    BY <1>4
  <2>3. \A p \in DOMAIN e.payments : e.payments[p] = b.payments[p]
    BY <1>4
  <2>4. PICK f : f = b.payments
    OBVIOUS
  <2>5. PICK D : D = PaymentsOf(b, o)
    OBVIOUS
  <2>6. PICK g : g = e.payments
    OBVIOUS
  <2>7. /\ f = [x \in DOMAIN f |-> f[x]] /\ D \subseteq DOMAIN f /\ DOMAIN g = DOMAIN f \ D
        /\ \A x \in DOMAIN g : g[x] = f[x]
    BY <1>0, <2>1, <2>2, <2>3, <2>4, <2>5, <2>6
  <2>8. Over(Restrict(f, D), g) = f
    BY ONLY <2>7, OverBack
  <2> QED
    BY <1>7, <2>4, <2>5, <2>6, <2>8
<1>11. ~ RemainsAllocated(a, o)
  BY NeverAllocatedElsewhere
<1>12. restoreOrderGraph(a, snapshot)
         = Done([e EXCEPT !.orders = orders, !.shipments = ships, !.payments = pays], {})
  BY <1>2, <1>3, <1>4, <1>5, <1>6, <1>7, <1>11 DEF restoreOrderGraph
<1>13. restoreOrderGraph(a, snapshot).db
         = [e EXCEPT !.orders = orders, !.shipments = ships, !.payments = pays]
  BY <1>12 DEF Done
<1>14. [e EXCEPT !.orders = orders, !.shipments = ships, !.payments = pays]
         = [orders |-> b.orders, quotes |-> b.quotes, shipments |-> b.shipments,
            payments |-> b.payments]
  BY <1>4, <1>8, <1>9, <1>10 DEF Database
<1>15. b = [orders |-> b.orders, quotes |-> b.quotes, shipments |-> b.shipments,
            payments |-> b.payments]
  BY DEF Database
<1> QED
  BY <1>1, <1>13, <1>14, <1>15

LEMMA OrderReversed ==
  ASSUME NEW b \in Database, Referenced(b), OwnAllocations(b), NEW command \in OrderCommands,
         NEW c, c.id \in Documents, FreshIn(b, command, c),
         NEW out, out = execute(command, b, c), out.done,
         out.db \in Database, OwnAllocations(out.db),
         NEW payload, payload.id = c.id,
         command \notin Creates => payload = snapshotOf(command, b, c.id),
         NEW back, back = undo(command, out.db, payload), back.done
  PROVE  back.db = b
<1>0. PICK o : o = c.id
  OBVIOUS
<1>1. PICK a : a = out.db
  OBVIOUS
<1>2. a \in Database /\ OwnAllocations(a) /\ OwnAllocations(b)
  BY <1>1
<1>3. CASE command = "orders.create"
  <2>1. PICK row : row = NewOrder(c.quantities, 0)
    OBVIOUS
  <2>2. PICK orders : orders = Put(b.orders, o, row)
    OBVIOUS
  <2>3. out = Done([b EXCEPT !.orders = orders], {})
    BY <1>0, <1>3, <2>1, <2>2 DEF execute, createOrder, PutOrder
  <2>4. a = [b EXCEPT !.orders = orders]
    BY <1>1, <2>3 DEF Done
  <2>5. a.orders = orders /\ a.payments = b.payments
    BY <2>4 DEF Database
  <2>6. o \notin DOMAIN b.orders /\ o # NoOrder
    BY <1>0, <1>3, OneKind, SalesAssumption DEF FreshIn, TableOf, Creates
  <2>7. PICK left : left = Without(orders, {o})
    OBVIOUS
  <2>8. left = b.orders
    <3>1. b.orders = [x \in DOMAIN b.orders |-> b.orders[x]]
      BY Fields, PartialIs
    <3> QED
      BY <2>2, <2>6, <2>7, <3>1, NewDropped
  <2>9. PICK pays : pays = [p \in DOMAIN b.payments |->
                              [b.payments[p] EXCEPT !.order = IF @ = o THEN NoOrder ELSE @,
                                                    !.allocations = Without(@, {o})]]
    OBVIOUS
  <2>10. ASSUME NEW p \in DOMAIN b.payments PROVE pays[p] = b.payments[p]
    <3>1. PICK r : r = b.payments[p]
      OBVIOUS
    <3>2. r \in PaymentRow /\ OrdersOf(r) \subseteq DOMAIN b.orders
      BY <3>1, RowsTyped DEF Referenced
    <3>3. r.order # o /\ o \notin DOMAIN r.allocations
      BY <2>6, <3>2 DEF OrdersOf
    <3>4. r.allocations = [x \in DOMAIN r.allocations |-> r.allocations[x]]
      BY <3>2, PartialIs DEF PaymentRow
    <3>5. Without(r.allocations, {o}) = r.allocations
      BY <3>3, <3>4 DEF Without, Restrict
    <3>6. pays[p] = [r EXCEPT !.order = r.order, !.allocations = r.allocations]
      BY <2>9, <3>1, <3>3, <3>5
    <3> QED
      BY <3>1, <3>2, <3>6 DEF PaymentRow
  <2>11. pays = b.payments
    <3>1. b.payments = [p \in DOMAIN b.payments |-> b.payments[p]]
      BY Fields, PartialIs
    <3>2. pays = [p \in DOMAIN b.payments |-> pays[p]]
      BY <2>9
    <3> QED
      BY <2>10, <3>1, <3>2
  <2>12. o \in DOMAIN orders
    BY <2>2 DEF Put, Over, Only
  <2>13. back = undoCreateOrder(a, payload) /\ payload.id = o
    BY <1>0, <1>1, <1>3 DEF undo, Creates
  <2>14. back.db = [a EXCEPT !.orders = left, !.payments = pays]
    <3>1. PICK e : e = [a EXCEPT !.orders = Without(@, {o}),
                                 !.payments = [p \in DOMAIN a.payments |->
                                    [a.payments[p] EXCEPT !.order = IF @ = o THEN NoOrder ELSE @,
                                                          !.allocations = Without(@, {o})]]]
      OBVIOUS
    <3>2. back = IF ShipmentsOf(a, o) # {} THEN Rejected([a EXCEPT !.orders[o].discount = 0])
                 ELSE Done(e, {})
      BY <2>5, <2>12, <2>13, <3>1 DEF undoCreateOrder
    <3>3. back = Done(e, {})
      BY <3>2 DEF Rejected
    <3>4. back.db = e
      BY <3>3 DEF Done
    <3>5. e = [a EXCEPT !.orders = left, !.payments = pays]
      BY <2>5, <2>7, <2>9, <3>1
    <3> QED
      BY <3>4, <3>5
  <2>15. back.db = [orders |-> b.orders, quotes |-> b.quotes, shipments |-> b.shipments,
                    payments |-> b.payments]
    BY <2>4, <2>8, <2>11, <2>14 DEF Database
  <2>16. b = [orders |-> b.orders, quotes |-> b.quotes, shipments |-> b.shipments,
              payments |-> b.payments]
    BY DEF Database
  <2> QED
    BY <2>15, <2>16
<1>4. CASE command \notin Creates
  <2>1. payload = loadOrderSnapshot(b, o)
    BY <1>0, <1>4, OneKind DEF snapshotOf
  <2>2. back = restoreOrderGraph(a, payload)
    BY <1>1, <1>4, OneKind DEF undo, Creates
  <2>3. CASE command = "orders.delete"
    <3>1. PICK e : e = withoutRecords(b, o)
      OBVIOUS
    <3>2. PICK left : left = Without(b.orders, {o})
      OBVIOUS
    <3>3. /\ e \in Database /\ e.orders = b.orders /\ e.quotes = b.quotes
          /\ DOMAIN e.shipments = DOMAIN b.shipments \ ShipmentsOf(b, o)
          /\ \A s \in DOMAIN e.shipments : e.shipments[s] = b.shipments[s]
          /\ DOMAIN e.payments = DOMAIN b.payments \ PaymentsOf(b, o)
          /\ \A p \in DOMAIN e.payments : e.payments[p] = b.payments[p]
      BY <1>0, <3>1, RecordsGone
    <3>4. o \in DOMAIN b.orders /\ out = Done([e EXCEPT !.orders = left], {})
      BY <1>0, <2>3, <3>1, <3>2, <3>3 DEF execute, deleteOrder, Rejected
    <3>5. a = [e EXCEPT !.orders = left]
      BY <1>1, <3>4 DEF Done
    <3>6. /\ a.orders = left /\ a.quotes = e.quotes /\ a.shipments = e.shipments
          /\ a.payments = e.payments
      BY <3>3, <3>5 DEF Database
    <3>7. DOMAIN left = DOMAIN b.orders \ {o} /\ \A x \in DOMAIN left : left[x] = b.orders[x]
      BY <3>2 DEF Without, Restrict
    <3>8. ShipmentsOf(a, o) = {} /\ PaymentsOf(a, o) = {}
      BY <3>3, <3>6 DEF ShipmentsOf, PaymentsOf
    <3> QED
      BY <1>2, <2>1, <2>2, <3>3, <3>4, <3>6, <3>7, <3>8, OrderBack
  <2>4. CASE command # "orders.delete"
    <3>1. PICK row : o \in DOMAIN b.orders /\ out = PutOrder(b, o, row)
      <4>1. CASE command = "orders.lines.upsert"
        BY <1>0, <4>1 DEF execute, orderLineUpsert, Rejected
      <4>2. CASE command = "orders.lines.delete"
        BY <1>0, <4>2 DEF execute, orderLineDelete, Rejected
      <4>3. CASE command = "orders.adjustments.upsert"
        BY <1>0, <4>3 DEF execute, orderAdjustmentUpsert, Rejected
      <4>4. CASE command = "orders.adjustments.delete"
        BY <1>0, <4>4 DEF execute, orderAdjustmentDelete, Rejected
      <4> QED
        BY <1>4, <2>4, <4>1, <4>2, <4>3, <4>4 DEF OrderCommands, Creates
    <3>2. PICK orders : orders = Put(b.orders, o, row)
      OBVIOUS
    <3>3. out = Done([b EXCEPT !.orders = orders], {})
      BY <3>1, <3>2 DEF PutOrder
    <3>4. a = [b EXCEPT !.orders = orders]
      BY <1>1, <3>3 DEF Done
    <3>5. /\ a.orders = orders /\ a.quotes = b.quotes /\ a.shipments = b.shipments
          /\ a.payments = b.payments
      BY <3>4 DEF Database
    <3>6. /\ DOMAIN orders = DOMAIN b.orders \cup {o}
          /\ \A x \in DOMAIN orders : x # o => orders[x] = b.orders[x]
      BY <3>2 DEF Put, Over, Only
    <3>7. ShipmentsOf(a, o) = ShipmentsOf(b, o) /\ PaymentsOf(a, o) = PaymentsOf(b, o)
      BY <3>5 DEF ShipmentsOf, PaymentsOf
    <3> QED
      BY <1>2, <2>1, <2>2, <3>1, <3>5, <3>6, <3>7, OrderBack
  <2> QED
    BY <2>3, <2>4
<1> QED
  BY <1>3, <1>4 DEF OrderCommands, Creates

\* Undoing a command right after it leaves what it has found.
LEMMA Reversed ==
  ASSUME NEW b, NEW unsure, NEW home, Sound(b, unsure, home),
         NEW command \in Commands \ {"quotes.convert_to_order"},
         NEW c, MayRun(b, home, command, c), FreshIn(b, command, c),
         NEW out, out = execute(command, b, c), out.done,
         NEW a, a = recompute(command, out),
         NEW payload, payload = snapshotOf(command, IF command \in Creates THEN a ELSE b, c.id),
         NEW back, back = undo(command, a, payload), back.done
  PROVE  SameData(recompute(command, back), b)
<1>0. b \in Database /\ Referenced(b) /\ OwnAllocations(b)
  BY DEF Sound
<1>1. PICK more : more = unsure \cup NeglectedIn(b, out)
  OBVIOUS
<1>2. PICK newHome : newHome = HomesAfter(command, out, c, home)
  OBVIOUS
<1>3. /\ Sound(a, more, newHome)
      /\ c.id \in DOMAIN TableOf(command, IF command \in Creates THEN a ELSE b)
  BY <1>1, <1>2, Executed
<1>4. a \in Database /\ OwnAllocations(a)
  BY <1>3 DEF Sound
<1>5. payload.id = c.id /\ (command \notin Creates => payload = snapshotOf(command, b, c.id))
  <2>1. PICK d : d = IF command \in Creates THEN a ELSE b
    OBVIOUS
  <2>2. payload = snapshotOf(command, d, c.id)
    BY <2>1
  <2>3. payload.id = c.id
    BY <2>2 DEF snapshotOf, loadOrderSnapshot, loadQuoteSnapshot, loadShipmentSnapshot,
                loadPaymentSnapshot, Commands
  <2> QED
    BY <2>1, <2>2, <2>3
<1>6. CASE command \in ShipmentCommands
  <2>1. back.db \in Database /\ SameData(back.db, b)
    BY <1>0, <1>4, <1>5, <1>6, ShipmentReversed
  <2>2. SameData(recompute(command, back), back.db)
    BY <2>1, RecomputedSame
  <2> QED
    BY <2>1, <2>2 DEF SameData, SameDocument
<1>7. CASE command \in PaymentCommands
  <2>1. back.db \in Database /\ SameData(back.db, b)
    BY <1>0, <1>4, <1>5, <1>7, PaymentReversed
  <2>2. SameData(recompute(command, back), back.db)
    BY <2>1, RecomputedSame
  <2> QED
    BY <2>1, <2>2 DEF SameData, SameDocument
<1>8. CASE command \in OrderCommands \cup QuoteCommands
  <2>1. command \in Commands \ ShipmentCommands
    BY <1>8, OneKind
  <2>2. c.id \in Documents
    BY <1>8 DEF MayRun, InputsOf, OrderCommands, QuoteCommands
  <2>3. out.touched = {} /\ Sound(out.db, unsure, home)
    <3>1. CASE command \in OrderCommands
      BY <3>1, OneKind, OrderExecuted DEF MayRun
    <3>2. CASE command \in QuoteCommands
      BY <3>2, QuoteExecuted DEF MayRun
    <3> QED
      BY <1>8, <3>1, <3>2
  <2>4. a = WithTotals(out.db, {})
    BY <2>1, <2>3, TotalsRecomputed
  <2>5. out.db \in Database
    BY <2>3 DEF Sound
  <2>6. out.db = a
    BY <2>4, <2>5, NothingRecomputed
  <2>7. back.db = b
    <3>1. CASE command \in OrderCommands
      BY <1>0, <1>4, <1>5, <2>2, <2>6, <3>1, OrderReversed
    <3>2. CASE command \in QuoteCommands
      <4>1. back.db.quotes = b.quotes /\ back.db = [b EXCEPT !.quotes = back.db.quotes]
        BY <1>0, <1>5, <2>6, <3>2, QuoteReversed
      <4> QED
        BY <1>0, <4>1 DEF Database
    <3> QED
      BY <1>8, <3>1, <3>2
  <2>8. SameData(recompute(command, back), back.db)
    BY <1>0, <2>7, RecomputedSame
  <2> QED
    BY <2>7, <2>8
<1> QED
  BY <1>6, <1>7, <1>8 DEF Commands

(***************************************************************************)
(* The log                                                                 *)
(***************************************************************************)

IsSequence(s) == s \in Seq({s[k] : k \in DOMAIN s})

LEMMA SequenceOf ==
  ASSUME NEW S, NEW s \in Seq(S) PROVE IsSequence(s)
<1>1. \A k \in 1..Len(s) : s[k] \in {s[j] : j \in DOMAIN s}
  OBVIOUS
<1>2. Len(s) \in Nat /\ DOMAIN s = 1..Len(s) /\ s = [k \in 1..Len(s) |-> s[k]]
  OBVIOUS
<1>3. s \in [1..Len(s) -> {s[j] : j \in DOMAIN s}]
  BY <1>1, <1>2
<1> QED
  BY <1>2, <1>3, SeqDef DEF IsSequence

LEMMA SequenceAppended ==
  ASSUME NEW s, IsSequence(s), NEW e
  PROVE  /\ IsSequence(Append(s, e)) /\ Len(Append(s, e)) = Len(s) + 1
         /\ DOMAIN s = 1..Len(s) /\ DOMAIN Append(s, e) = 1..Len(s) + 1 /\ Len(s) \in Nat
         /\ Append(s, e)[Len(s) + 1] = e /\ \A k \in DOMAIN s : Append(s, e)[k] = s[k]
<1>1. PICK S : S = {s[k] : k \in DOMAIN s} \cup {e}
  OBVIOUS
<1>2. s \in Seq(S) /\ e \in S
  <2>1. {s[k] : k \in DOMAIN s} \subseteq S
    BY <1>1
  <2> QED
    BY <1>1, <2>1 DEF IsSequence
<1>3. Append(s, e) \in Seq(S)
  BY <1>2
<1>4. IsSequence(Append(s, e))
  BY <1>3, SequenceOf
<1> QED
  BY <1>2, <1>4

LEMMA SequenceUpdated ==
  ASSUME NEW s, IsSequence(s), NEW i \in DOMAIN s, NEW e
  PROVE  /\ IsSequence([s EXCEPT ![i] = e])
         /\ Len([s EXCEPT ![i] = e]) = Len(s) /\ DOMAIN [s EXCEPT ![i] = e] = DOMAIN s
         /\ [s EXCEPT ![i] = e][i] = e
         /\ \A k \in DOMAIN s \ {i} : [s EXCEPT ![i] = e][k] = s[k]
<1>1. PICK S : S = {s[k] : k \in DOMAIN s} \cup {e}
  OBVIOUS
<1>2. s \in Seq(S) /\ e \in S
  <2>1. {s[k] : k \in DOMAIN s} \subseteq S
    BY <1>1
  <2> QED
    BY <1>1, <2>1 DEF IsSequence
<1>3. [s EXCEPT ![i] = e] \in Seq(S) /\ Len([s EXCEPT ![i] = e]) = Len(s)
  BY <1>2
<1>4. IsSequence([s EXCEPT ![i] = e])
  BY <1>3, SequenceOf
<1> QED
  BY <1>2, <1>3, <1>4

\* An entry can be undone whenever that comes, and what it did redone.
EntrySound(e, unsure, home) ==
  /\ e \in [actor : Users, command : Commands, input : InputsOf(e.command),
            resource : {e.resource}, payload : {e.payload},
            state : {"done", "undone", "redone"}, at : {e.at}]
  /\ PayloadSound(e.command, e.payload, unsure, home)

LogSound(d, entries, unsure, home) ==
  /\ DOMAIN home \subseteq {entries[k].payload.id : k \in DOMAIN entries}
  /\ Sound(d, unsure, home)
  /\ \A k \in DOMAIN entries : EntrySound(entries[k], unsure, home)

\* The inductive invariant: the data is sound, and every snapshot in the log
\* would be if it were the data.
IInv ==
  /\ IsSequence(log) /\ IsSequence(states) /\ Len(states) = Len(log)
  /\ stale \subseteq Documents
  /\ \E home \in PartialFunctions(Shipments, Documents) : LogSound(db, log, stale, home)

\* Marking an entry leaves what undoing and redoing need.
LEMMA Remarked ==
  ASSUME NEW entries, IsSequence(entries), NEW d, NEW unsure, NEW home,
         LogSound(d, entries, unsure, home), NEW i \in DOMAIN entries,
         NEW marked, marked \in {markUndone(entries, i), markRedone(entries, i)}
  PROVE  /\ IsSequence(marked) /\ Len(marked) = Len(entries)
         /\ DOMAIN marked = DOMAIN entries /\ LogSound(d, marked, unsure, home)
         /\ \A k \in DOMAIN entries : /\ marked[k].command = entries[k].command
                                      /\ marked[k].input = entries[k].input
                                      /\ marked[k].payload = entries[k].payload
         /\ \A k \in DOMAIN entries \ {i} : marked[k] = entries[k]
<1>1. PICK e : e = entries[i]
  OBVIOUS
<1>2. PICK n : n = 1 + Max({entries[j].at : j \in DOMAIN entries})
  OBVIOUS
<1>3. EntrySound(e, unsure, home)
  BY <1>1 DEF LogSound
<1>4. ASSUME NEW m, m \in {[e EXCEPT !.state = "undone", !.at = n], [e EXCEPT !.state = "redone"]}
      PROVE  /\ EntrySound(m, unsure, home)
             /\ m.command = e.command /\ m.input = e.input /\ m.payload = e.payload
  <2>1. /\ m.command = e.command /\ m.input = e.input /\ m.payload = e.payload
        /\ m \in [actor : Users, command : Commands, input : InputsOf(e.command),
                  resource : {m.resource}, payload : {m.payload},
                  state : {"done", "undone", "redone"}, at : {m.at}]
    BY <1>3, <1>4 DEF EntrySound
  <2> QED
    BY <1>3, <2>1 DEF EntrySound
<1>5. PICK m : /\ m \in {[e EXCEPT !.state = "undone", !.at = n], [e EXCEPT !.state = "redone"]}
               /\ marked = [entries EXCEPT ![i] = m]
  <2>1. CASE marked = markUndone(entries, i)
    <3>1. marked = [entries EXCEPT ![i] = [e EXCEPT !.state = "undone", !.at = n]]
      BY <1>1, <1>2, <2>1 DEF markUndone
    <3> QED
      BY <3>1
  <2>2. CASE marked = markRedone(entries, i)
    <3>1. marked = [entries EXCEPT ![i] = [e EXCEPT !.state = "redone"]]
      BY <1>1, <2>2 DEF markRedone
    <3> QED
      BY <3>1
  <2> QED
    BY <2>1, <2>2
<1>6. /\ IsSequence(marked) /\ Len(marked) = Len(entries) /\ DOMAIN marked = DOMAIN entries
      /\ marked[i] = m /\ \A k \in DOMAIN entries \ {i} : marked[k] = entries[k]
  <2>1. marked = [entries EXCEPT ![i] = m]
    BY <1>5
  <2> QED
    BY <2>1, SequenceUpdated
<1>7. \A k \in DOMAIN entries : /\ marked[k].command = entries[k].command
                                /\ marked[k].input = entries[k].input
                                /\ marked[k].payload = entries[k].payload
                                /\ EntrySound(marked[k], unsure, home)
  BY <1>1, <1>4, <1>5, <1>6 DEF LogSound
<1> QED
  BY <1>6, <1>7 DEF LogSound

\* Less certainty about totals and more about shipments leaves the log sound.
LEMMA EntriesWeaker ==
  ASSUME NEW entries, NEW unsure, NEW home,
         \A k \in DOMAIN entries : EntrySound(entries[k], unsure, home),
         NEW more, unsure \subseteq more, NEW newHome,
         \A s \in DOMAIN home : s \in DOMAIN newHome /\ newHome[s] = home[s]
  PROVE  \A k \in DOMAIN entries : EntrySound(entries[k], more, newHome)
BY PayloadWeaker DEF EntrySound

\* The inputs of a request that is made now.
LEMMA InputsMayRun ==
  ASSUME ~ PaymentsMove, NEW home,
         DOMAIN home \subseteq {log[k].payload.id : k \in DOMAIN log},
         NEW command \in Commands, NEW c \in Inputs(command)
  PROVE  MayRun(db, home, command, c)
<1>1. Fresh(Documents) \subseteq Documents /\ Fresh(Shipments) \subseteq Shipments
      /\ Fresh(Payments) \subseteq Payments
  BY DEF Fresh
<1>2. Quantities \subseteq PartialFunctions(Lines, Quantity)
  BY DEF Quantities
<1>3. c \in InputsOf(command)
  <2>1. CASE command \in {"orders.lines.upsert", "quotes.lines.upsert"}
    <3>1. /\ command = "orders.lines.upsert" => c \in LineInputs(db.orders)
          /\ command = "quotes.lines.upsert" => c \in LineInputs(db.quotes)
      BY DEF Inputs
    <3>2. \A rows : LineInputs(rows) \subseteq [id : Documents, line : Lines, quantity : Quantity,
                                               given : BOOLEAN]
      BY DEF LineInputs
    <3>3. c \in [id : Documents, line : Lines, quantity : Quantity, given : BOOLEAN]
      BY <2>1, <3>1, <3>2
    <3> QED
      BY <2>1, <3>3 DEF InputsOf
  <2>2. CASE command \notin {"orders.lines.upsert", "quotes.lines.upsert"}
    BY <1>1, <1>2, <2>2 DEF Inputs, InputsOf
  <2> QED
    BY <2>1, <2>2
<1>4. command = "orders.create" => c.id \notin DOMAIN db.orders
  BY DEF Inputs, Fresh
<1>5. command = "shipments.create" => c.id \notin DOMAIN home
  BY DEF Inputs, Fresh
<1>6. command = "payments.update" =>
        (c.id \in DOMAIN db.payments => db.payments[c.id].order \in {c.order, NoOrder})
  BY DEF Inputs
<1> QED
  BY <1>3, <1>4, <1>5, <1>6 DEF MayRun

\* The inputs of a request that repeats an entry of the log.
LEMMA RedoneMayRun ==
  ASSUME ~ PaymentsMove, NEW home,
         DOMAIN home \subseteq {log[k].payload.id : k \in DOMAIN log},
         NEW e, NEW unsure, EntrySound(e, unsure, home), NEW c \in RedoInputs(e)
  PROVE  MayRun(db, home, e.command, c)
<1>0. e.command \in Commands /\ e.input \in InputsOf(e.command)
  BY DEF EntrySound
<1>1. CASE e.command \notin Creates
  <2>1. c \in Inputs(e.command)
    BY <1>1 DEF RedoInputs
  <2> QED
    BY <1>0, <2>1, InputsMayRun
<1>2. CASE e.command \in Creates
  <2>1. PICK f \in Inputs(e.command) : c = [e.input EXCEPT !.id = f.id]
    BY <1>2 DEF RedoInputs
  <2>2. MayRun(db, home, e.command, f)
    BY <1>0, InputsMayRun
  <2>3. c \in InputsOf(e.command) /\ c.id = f.id
    BY <1>0, <1>2, <2>1, <2>2 DEF MayRun, InputsOf, Creates
  <2> QED
    BY <1>2, <2>2, <2>3 DEF MayRun, Creates
<1> QED
  BY <1>1, <1>2

(***************************************************************************)
(* Requests                                                                *)
(***************************************************************************)

\* What Neglected says of the database is what NeglectedIn says.
LEMMA NeglectedIs ==
  ASSUME NEW out, Sound(db, stale, {}) \/ db \in Database
  PROVE  Neglected(out) = NeglectedIn(db, out) /\ Neglected(out) \subseteq Documents
BY RowsTyped DEF Neglected, NeglectedIn, Sound

\* A command is executed, or executed again, and logged; or it is rejected.
LEMMA LoggedSound ==
  ASSUME IInv, NEW user \in Users, NEW command \in Commands, NEW c,
         NEW home \in PartialFunctions(Shipments, Documents),
         NEW previous, IsSequence(previous), Len(previous) = Len(log),
         LogSound(db, previous, stale, home), MayRun(db, home, command, c),
         Logged(user, command, c, previous)
  PROVE  IInv' \/ UNCHANGED vars
<1>1. PICK out : out = execute(command, db, c)
  OBVIOUS
<1>2. PICK after : after = recompute(command, out)
  OBVIOUS
<1>3. PICK newHome : newHome = HomesAfter(command, out, c, home)
  OBVIOUS
<1>4. Sound(db, stale, home)
  BY DEF LogSound
<1>5. /\ out.done => /\ Sound(after, stale \cup NeglectedIn(db, out), newHome)
                     /\ c.id \in DOMAIN TableOf(command, IF command \in Creates THEN after ELSE db)
      /\ ~ out.done => out.db = db
  BY ONLY <1>1, <1>2, <1>3, <1>4, command \in Commands, MayRun(db, home, command, c), Executed
<1>6. CASE out.done
  <2>1. PICK e : e = newEntry(user, command, c, after)
    OBVIOUS
  <2>2. PICK more : more = stale \cup NeglectedIn(db, out)
    OBVIOUS
  <2>3. more \subseteq Documents /\ stale \subseteq more
    BY <1>4, <2>2, NeglectedIs DEF IInv, Sound
  <2>4. /\ db' = after /\ log' = Append(previous, e) /\ stale' = more
        /\ states' = Append(states, [before |-> db, after |-> after])
    BY <1>1, <1>2, <1>4, <1>6, <2>1, <2>2, NeglectedIs DEF Logged, Sound
  <2>5. Sound(after, more, newHome)
    BY <1>5, <1>6, <2>2
  <2>6. \A s \in DOMAIN home : s \in DOMAIN newHome /\ newHome[s] = home[s]
    BY <1>3 DEF HomesAfter, MayRun, Put, Over, Only
  <2>7. PICK payload : payload = payloadOf(command, db, after, c.id)
    OBVIOUS
  <2>8. PayloadSound(command, payload, more, newHome) /\ payload.id = c.id
    <3>1. CASE command \in Creates
      BY <1>5, <1>6, <2>5, <2>7, <3>1, SnapshotTaken DEF payloadOf
    <3>2. CASE command \notin Creates
      <4>1. PayloadSound(command, payload, stale, home) /\ payload.id = c.id
        BY <1>4, <1>5, <1>6, <2>7, <3>2, SnapshotTaken DEF payloadOf
      <4> QED
        BY <2>3, <2>6, <4>1, PayloadWeaker
    <3> QED
      BY <3>1, <3>2
  <2>9. EntrySound(e, more, newHome) /\ e.payload = payload
    <3>1. c \in InputsOf(command)
      BY DEF MayRun
    <3>2. PICK resource : resource = resourceOf(command, c.id)
      OBVIOUS
    <3>3. e = [actor |-> user, command |-> command, input |-> c, resource |-> resource,
               payload |-> payload, state |-> "done", at |-> 0]
      BY <2>1, <2>7, <3>2 DEF newEntry, Entry
    <3> QED
      BY <2>8, <3>1, <3>3 DEF EntrySound
  <2>10. /\ IsSequence(log') /\ Len(log') = Len(previous) + 1
         /\ DOMAIN previous = 1..Len(previous) /\ DOMAIN log' = 1..Len(previous) + 1
         /\ Len(previous) \in Nat
         /\ log'[Len(previous) + 1] = e /\ \A k \in DOMAIN previous : log'[k] = previous[k]
    BY <2>4, SequenceAppended
  <2>11. IsSequence(states') /\ Len(states') = Len(states) + 1
    <3>1. PICK row : row = [before |-> db, after |-> after]
      OBVIOUS
    <3> QED
      BY <2>4, <3>1, SequenceAppended DEF IInv
  <2>12. \A k \in DOMAIN previous : EntrySound(previous[k], more, newHome)
    BY <2>3, <2>6, EntriesWeaker DEF LogSound
  <2>13. \A k \in DOMAIN log' : EntrySound(log'[k], more, newHome)
    BY <2>9, <2>10, <2>12
  <2>14. DOMAIN newHome \subseteq {log'[k].payload.id : k \in DOMAIN log'}
    <3>1. DOMAIN newHome \subseteq DOMAIN home \cup {c.id}
      BY <1>3 DEF HomesAfter, Put, Over, Only
    <3>2. DOMAIN home \subseteq {previous[k].payload.id : k \in DOMAIN previous}
      BY DEF LogSound
    <3>3. \A k \in DOMAIN previous : k \in DOMAIN log' /\ log'[k] = previous[k]
      BY <2>10
    <3>4. Len(previous) + 1 \in DOMAIN log' /\ log'[Len(previous) + 1].payload.id = c.id
      BY <2>8, <2>9, <2>10
    <3> QED
      BY <3>1, <3>2, <3>3, <3>4
  <2>15. newHome \in PartialFunctions(Shipments, Documents)
    <3>1. ASSUME command = "shipments.create"
          PROVE  Put(home, c.id, c.order) \in PartialFunctions(Shipments, Documents)
      <4>1. c.id \in Shipments /\ c.order \in Documents
        BY <3>1 DEF MayRun, InputsOf
      <4> QED
        BY <4>1, PutTyped
    <3> QED
      BY <1>3, <3>1 DEF HomesAfter
  <2>16. LogSound(db', log', stale', newHome)
    BY <2>4, <2>5, <2>13, <2>14 DEF LogSound
  <2> QED
    BY <2>3, <2>4, <2>10, <2>11, <2>15, <2>16 DEF IInv
<1>7. CASE ~ out.done
  <2>1. Failed(out, c.id)
    BY <1>1, <1>7 DEF Logged
  <2>2. out.db = db
    BY <1>5, <1>7
  <2> QED
    BY <2>1, <2>2 DEF Failed, vars
<1> QED
  BY <1>6, <1>7

\* The seeded orders are sound.
LEMMA InitSound == Init => IInv
<1> SUFFICES ASSUME Init PROVE IInv
  OBVIOUS
<1>1. PICK seeded \in SUBSET Documents :
        db = [orders |-> [o \in seeded |-> SeededOrder],
              quotes |-> NoRows, shipments |-> NoRows, payments |-> NoRows]
  BY DEF Init
<1>2. /\ SeededOrder \in OrderRow /\ SeededOrder.paid = 0 /\ GrandAgrees(SeededOrder)
      /\ SeededOrder.outstanding = Minus(SeededOrder.grand, SeededOrder.paid)
      /\ \A l \in DOMAIN SeededOrder.lines : SeededOrder.lines[l].fulfilled = 0
  <2>1. PICK quantities : quantities = [l \in Lines |-> MaxQuantity]
    OBVIOUS
  <2>2. quantities \in PartialFunctions(Lines, Quantity)
    BY <2>1, SalesAssumption, PartialIs DEF Quantity
  <2> QED
    BY <2>1, <2>2, NewOrderRow DEF SeededOrder
<1>3. PICK orders : orders = [o \in seeded |-> SeededOrder]
  OBVIOUS
<1>4. orders \in PartialFunctions(Documents, OrderRow)
  BY <1>2, <1>3, PartialIs
<1>5. /\ NoRows \in PartialFunctions(Documents, QuoteRow)
      /\ NoRows \in PartialFunctions(Shipments, ShipmentRow)
      /\ NoRows \in PartialFunctions(Payments, PaymentRow)
      /\ NoRows \in PartialFunctions(Shipments, Documents) /\ DOMAIN NoRows = {}
  BY NoRowsPartial
<1>6. db = [orders |-> orders, quotes |-> NoRows, shipments |-> NoRows, payments |-> NoRows]
  BY <1>1, <1>3
<1>7. /\ db \in Database /\ db.orders = orders /\ db.shipments = NoRows /\ db.payments = NoRows
  BY <1>4, <1>5, <1>6 DEF Database
<1>8. Referenced(db) /\ OwnAllocations(db) /\ AtHome(db, NoRows)
  BY <1>5, <1>7 DEF Referenced, OwnAllocations, AtHome
<1>9. \A o : ShipmentsOf(db, o) = {} /\ PaymentsOf(db, o) = {} /\ AllocatedTo(db, o) = {}
  BY <1>5, <1>7 DEF ShipmentsOf, PaymentsOf, AllocatedTo
<1>10. \A o, l : loadShippedTotals(db, o, l, {}) = 0 /\ PaidTotal(db, o) = 0
  BY <1>7, <1>9, ShippedNumber, PaidNumber
<1>11. Fulfilled(db)
  BY <1>2, <1>3, <1>7, <1>10 DEF Fulfilled
<1>12. Totals(db, {})
  BY <1>2, <1>3, <1>7, <1>10 DEF Totals, TotalAgrees
<1>13. Sound(db, {}, NoRows)
  BY <1>7, <1>8, <1>11, <1>12 DEF Sound
<1>14. log = <<>> /\ states = <<>> /\ stale = {}
  BY DEF Init
<1>15. IsSequence(log) /\ IsSequence(states) /\ Len(states) = Len(log) /\ DOMAIN log = {}
  BY <1>14 DEF IsSequence
<1>16. LogSound(db, log, stale, NoRows)
  BY <1>5, <1>13, <1>14, <1>15 DEF LogSound
<1> QED
  BY <1>5, <1>14, <1>15, <1>16 DEF IInv

\* A request executes a command.
LEMMA ExecuteSound ==
  ASSUME ~ PaymentsMove, IInv, NEW user \in Users, Execute(user)
  PROVE  IInv' \/ UNCHANGED vars
<1>1. PICK home \in PartialFunctions(Shipments, Documents) : LogSound(db, log, stale, home)
  BY DEF IInv
<1>2. PICK command \in Commands : \E c \in Inputs(command) : Logged(user, command, c, log)
  BY DEF Execute
<1>3. PICK c \in Inputs(command) : Logged(user, command, c, log)
  BY <1>2
<1>4. MayRun(db, home, command, c)
  BY <1>1, InputsMayRun DEF LogSound
<1>5. IsSequence(log)
  BY DEF IInv
<1> QED
  BY <1>1, <1>3, <1>4, <1>5, LoggedSound

\* A request executes the command of an entry again.
LEMMA RedoSound ==
  ASSUME ~ PaymentsMove, IInv, NEW user \in Users, Redo(user)
  PROVE  IInv' \/ UNCHANGED vars
<1>1. PICK home \in PartialFunctions(Shipments, Documents) : LogSound(db, log, stale, home)
  BY DEF IInv
<1>2. PICK i \in DOMAIN log : \E c \in RedoInputs(log[i]) :
        Logged(user, log[i].command, c, markRedone(log, i))
  BY DEF Redo
<1>3. PICK c \in RedoInputs(log[i]) : Logged(user, log[i].command, c, markRedone(log, i))
  BY <1>2
<1>4. PICK previous : previous = markRedone(log, i)
  OBVIOUS
<1>5. /\ IsSequence(previous) /\ Len(previous) = Len(log)
      /\ LogSound(db, previous, stale, home)
  BY <1>1, <1>2, <1>4, Remarked DEF IInv
<1>6. EntrySound(log[i], stale, home) /\ log[i].command \in Commands
  BY <1>1, <1>2 DEF LogSound, EntrySound
<1>7. MayRun(db, home, log[i].command, c)
  BY <1>1, <1>3, <1>6, RedoneMayRun DEF LogSound
<1> QED
  BY <1>3, <1>4, <1>5, <1>6, <1>7, LoggedSound

\* A request undoes the command of an entry, or fails to.
LEMMA UndoSound ==
  ASSUME IInv, NEW user \in Users, Undo(user)
  PROVE  IInv' \/ UNCHANGED vars
<1>1. PICK home \in PartialFunctions(Shipments, Documents) : LogSound(db, log, stale, home)
  BY DEF IInv
<1>2. PICK i \in DOMAIN log :
        LET outcome == undo(log[i].command, db, log[i].payload)
        IN IF outcome.done
           THEN /\ db' = recompute(log[i].command, outcome)
                /\ log' = markUndone(log, i)
                /\ stale' = stale \cup Neglected(outcome)
                /\ UNCHANGED states
           ELSE Failed(outcome, log[i].payload.id)
  BY DEF Undo
<1>3. PICK command : command = log[i].command
  OBVIOUS
<1>4. PICK payload : payload = log[i].payload
  OBVIOUS
<1>5. PICK out : out = undo(command, db, payload)
  OBVIOUS
<1>6. command \in Commands /\ PayloadSound(command, payload, stale, home)
  BY <1>1, <1>2, <1>3, <1>4 DEF LogSound, EntrySound
<1>7. Sound(db, stale, home) /\ stale \subseteq Documents
  BY <1>1 DEF LogSound, IInv
<1>8. /\ out.done => Sound(recompute(command, out), stale \cup NeglectedIn(db, out), home)
      /\ ~ out.done => \/ out.db = db
                       \/ /\ payload.id \in Documents
                          /\ Sound(out.db, stale \cup {payload.id}, home)
  BY ONLY <1>5, <1>6, <1>7, Undone
<1>9. CASE out.done
  <2>1. PICK more : more = stale \cup NeglectedIn(db, out)
    OBVIOUS
  <2>2. more \subseteq Documents /\ stale \subseteq more
    BY <1>7, <2>1, NeglectedIs DEF Sound
  <2>3. /\ db' = recompute(command, out) /\ log' = markUndone(log, i) /\ stale' = more
        /\ states' = states
    BY <1>2, <1>3, <1>4, <1>5, <1>7, <1>9, <2>1, NeglectedIs DEF Sound
  <2>4. PICK marked : marked = markUndone(log, i)
    OBVIOUS
  <2>5. /\ IsSequence(marked) /\ Len(marked) = Len(log) /\ DOMAIN marked = DOMAIN log
        /\ LogSound(db, marked, stale, home)
    BY <1>1, <1>2, <2>4, Remarked DEF IInv
  <2>6. \A k \in DOMAIN marked : EntrySound(marked[k], more, home)
    BY <2>2, <2>5, EntriesWeaker DEF LogSound
  <2>7. Sound(db', more, home)
    BY <1>8, <1>9, <2>1, <2>3
  <2>8. LogSound(db', log', stale', home)
    BY <2>3, <2>4, <2>5, <2>6, <2>7 DEF LogSound
  <2> QED
    BY <1>1, <2>2, <2>3, <2>4, <2>5, <2>8 DEF IInv
<1>10. CASE ~ out.done
  <2>1. Failed(out, payload.id)
    BY <1>2, <1>3, <1>4, <1>5, <1>10
  <2>2. CASE out.db = db
    BY <2>1, <2>2 DEF Failed, vars
  <2>3. CASE out.db # db
    <3>1. PICK more : more = stale \cup {payload.id}
      OBVIOUS
    <3>2. db' = out.db /\ stale' = more /\ log' = log /\ states' = states
      BY <2>1, <2>3, <3>1 DEF Failed
    <3>3. Sound(db', more, home) /\ more \subseteq Documents /\ stale \subseteq more
      BY <1>7, <1>8, <1>10, <2>3, <3>1, <3>2
    <3>4. \A k \in DOMAIN log : EntrySound(log[k], more, home)
      BY <1>1, <3>3, EntriesWeaker DEF LogSound
    <3>5. LogSound(db', log', stale', home)
      BY <1>1, <3>2, <3>3, <3>4 DEF LogSound
    <3> QED
      BY <1>1, <3>2, <3>3, <3>5 DEF IInv
  <2> QED
    BY <2>2, <2>3
<1> QED
  BY <1>9, <1>10

\* Nothing else happens.
LEMMA NextSound ==
  ASSUME ~ PaymentsMove, IInv, [Next]_vars
  PROVE  IInv'
<1>1. CASE UNCHANGED vars
  BY <1>1 DEF vars, IInv, LogSound
<1>2. CASE Next
  <2>1. IInv' \/ UNCHANGED vars
    BY <1>2, ExecuteSound, UndoSound, RedoSound DEF Next
  <2> QED
    BY <1>1, <2>1
<1> QED
  BY <1>1, <1>2

LEMMA Invariance == ASSUME ~ PaymentsMove PROVE Spec => []IInv
<1>1. Init => IInv
  BY InitSound
<1>2. IInv /\ [Next]_vars => IInv'
  BY NextSound
<1> QED
  BY <1>1, <1>2, PTL DEF Spec

(***************************************************************************)
(* What the log and the history say of each command                       *)
(***************************************************************************)

\* The command of entry e ran on st.before and left st.after.
Ran(e, st) ==
  LET out == execute(e.command, st.before, e.input)
  IN /\ FreshIn(st.before, e.command, e.input) /\ out.done
     /\ st.after = recompute(e.command, out)
     /\ e.payload = snapshotOf(e.command, IF e.command \in Creates THEN st.after ELSE st.before,
                               e.input.id)

Recorded(e, st, unsure) ==
  /\ e.command \in Commands /\ Ran(e, st)
  /\ \E home : Sound(st.before, unsure, home) /\ MayRun(st.before, home, e.command, e.input)

HInv == \A k \in DOMAIN log : Recorded(log[k], states[k], stale)

\* Less certainty about totals, and marks on entries, leave records as they are.
LEMMA RecordedStill ==
  ASSUME NEW e, NEW st, NEW unsure, Recorded(e, st, unsure), NEW more, unsure \subseteq more,
         NEW m, m.command = e.command, m.input = e.input, m.payload = e.payload
  PROVE  Recorded(m, st, more)
<1>1. PICK home : Sound(st.before, unsure, home) /\ MayRun(st.before, home, e.command, e.input)
  BY DEF Recorded
<1>2. Sound(st.before, more, home)
  BY <1>1, SoundWeaker
<1>3. Ran(m, st)
  BY DEF Recorded, Ran
<1>4. MayRun(st.before, home, m.command, m.input) /\ m.command \in Commands
  BY <1>1 DEF Recorded
<1> QED
  BY <1>2, <1>3, <1>4 DEF Recorded

LEMMA InputsFresh ==
  ASSUME ~ PaymentsMove, NEW command \in Commands, NEW c \in Inputs(command)
  PROVE  FreshIn(db, command, c)
<1>1. command = "payments.update" =>
        (c.id \in DOMAIN db.payments => db.payments[c.id].order \in {c.order, NoOrder})
  BY DEF Inputs
<1>2. command \in Creates => c.id \notin DOMAIN TableOf(command, db)
  BY OneKind DEF Inputs, Fresh, Creates, TableOf, OrderCommands, QuoteCommands,
                 ShipmentCommands, PaymentCommands
<1> QED
  BY <1>1, <1>2 DEF FreshIn

LEMMA RedoneFresh ==
  ASSUME ~ PaymentsMove, NEW e, e.command \in Commands, e.input \in InputsOf(e.command),
         NEW c \in RedoInputs(e)
  PROVE  FreshIn(db, e.command, c)
<1>1. CASE e.command \notin Creates
  BY <1>1, InputsFresh DEF RedoInputs
<1>2. CASE e.command \in Creates
  <2>1. PICK f \in Inputs(e.command) : c = [e.input EXCEPT !.id = f.id]
    BY <1>2 DEF RedoInputs
  <2>2. FreshIn(db, e.command, f)
    BY InputsFresh
  <2>3. c.id = f.id
    BY <1>2, <2>1 DEF InputsOf, Creates
  <2> QED
    BY <1>2, <2>2, <2>3 DEF FreshIn, Creates
<1> QED
  BY <1>1, <1>2

\* A command is recorded as it runs; what was recorded stays.
LEMMA LoggedRecorded ==
  ASSUME IInv, HInv, NEW user, NEW command \in Commands, NEW c,
         NEW home, Sound(db, stale, home), MayRun(db, home, command, c),
         FreshIn(db, command, c),
         NEW previous, IsSequence(previous), Len(previous) = Len(log),
         \A k \in DOMAIN previous : /\ previous[k].command = log[k].command
                                    /\ previous[k].input = log[k].input
                                    /\ previous[k].payload = log[k].payload,
         Logged(user, command, c, previous)
  PROVE  /\ HInv'
         /\ \/ log' = log
            \/ \A k \in DOMAIN log : k \in DOMAIN previous /\ log'[k] = previous[k]
<1>1. PICK out : out = execute(command, db, c)
  OBVIOUS
<1>2. PICK after : after = recompute(command, out)
  OBVIOUS
<1>3. DOMAIN log = 1..Len(log) /\ DOMAIN previous = 1..Len(log) /\ Len(log) \in Nat
      /\ DOMAIN states = 1..Len(log)
  BY SequenceAppended DEF IInv
<1>4. CASE out.done
  <2>1. PICK payload : payload = payloadOf(command, db, after, c.id)
    OBVIOUS
  <2>2. PICK e : e = newEntry(user, command, c, after)
    OBVIOUS
  <2>3. PICK st : st = [before |-> db, after |-> after]
    OBVIOUS
  <2>4. /\ log' = Append(previous, e) /\ states' = Append(states, st)
        /\ stale' = stale \cup Neglected(out)
    BY <1>1, <1>2, <1>4, <2>2, <2>3 DEF Logged
  <2>5. /\ DOMAIN log' = 1..Len(log) + 1 /\ log'[Len(log) + 1] = e
        /\ \A k \in 1..Len(log) : log'[k] = previous[k]
    BY <1>3, <2>4, SequenceAppended
  <2>6. states'[Len(log) + 1] = st /\ \A k \in 1..Len(log) : states'[k] = states[k]
    BY <1>3, <2>4, SequenceAppended DEF IInv
  <2>7. e.command = command /\ e.input = c /\ e.payload = payload
    BY <2>1, <2>2 DEF newEntry, Entry
  <2>8. st.before = db /\ st.after = after
    BY <2>3
  <2>9. payload = snapshotOf(command, IF command \in Creates THEN after ELSE db, c.id)
    BY <2>1 DEF payloadOf
  <2>10. Ran(e, st)
    BY <1>1, <1>2, <1>4, <2>7, <2>8, <2>9 DEF Ran
  <2>11. Recorded(e, st, stale')
    <3>1. Sound(db, stale', home)
      BY <2>4, SoundWeaker
    <3> QED
      BY <2>7, <2>8, <2>10, <3>1 DEF Recorded
  <2>12. ASSUME NEW k \in 1..Len(log) PROVE Recorded(log'[k], states'[k], stale')
    <3>1. Recorded(log[k], states[k], stale)
      BY <1>3 DEF HInv
    <3>2. PICK m : m = previous[k]
      OBVIOUS
    <3>3. m.command = log[k].command /\ m.input = log[k].input /\ m.payload = log[k].payload
      BY <1>3, <3>2
    <3>4. stale \subseteq stale'
      BY <2>4
    <3>5. Recorded(m, states[k], stale')
      BY ONLY <3>1, <3>3, <3>4, RecordedStill
    <3> QED
      BY <2>5, <2>6, <3>2, <3>5
  <2>13. HInv'
    <3>1. \A k \in 1..Len(log) + 1 : k \in 1..Len(log) \/ k = Len(log) + 1
      BY <1>3
    <3> QED
      BY <2>5, <2>6, <2>11, <2>12, <3>1 DEF HInv
  <2> QED
    BY <1>3, <2>5, <2>13
<1>5. CASE ~ out.done
  <2>1. Failed(out, c.id)
    BY <1>1, <1>5 DEF Logged
  <2>2. log' = log /\ states' = states /\ stale \subseteq stale'
    BY <2>1 DEF Failed
  <2>3. HInv'
    BY <2>2, RecordedStill DEF HInv
  <2> QED
    BY <2>2, <2>3
<1> QED
  BY <1>4, <1>5

\* An undo leaves the records, and marks its entry alone.
LEMMA UndoRecorded ==
  ASSUME IInv, HInv, NEW user, Undo(user)
  PROVE  /\ HInv' /\ stale \subseteq stale'
         /\ \/ log' = log
            \/ \E i \in DOMAIN log :
                 LET out == undo(log[i].command, db, log[i].payload)
                 IN /\ out.done /\ db' = recompute(log[i].command, out)
                    /\ \A k \in DOMAIN log \ {i} : log'[k] = log[k]
<1>1. PICK home : LogSound(db, log, stale, home)
  BY DEF IInv
<1>2. PICK i \in DOMAIN log :
        LET outcome == undo(log[i].command, db, log[i].payload)
        IN IF outcome.done
           THEN /\ db' = recompute(log[i].command, outcome)
                /\ log' = markUndone(log, i)
                /\ stale' = stale \cup Neglected(outcome)
                /\ UNCHANGED states
           ELSE Failed(outcome, log[i].payload.id)
  BY DEF Undo
<1>3. PICK out : out = undo(log[i].command, db, log[i].payload)
  OBVIOUS
<1>4. CASE out.done
  <2>1. PICK marked : marked = markUndone(log, i)
    OBVIOUS
  <2>2. /\ db' = recompute(log[i].command, out) /\ log' = marked /\ stale \subseteq stale'
        /\ states' = states
    BY <1>2, <1>3, <1>4, <2>1
  <2>3. /\ DOMAIN marked = DOMAIN log
        /\ \A k \in DOMAIN log : /\ marked[k].command = log[k].command
                                 /\ marked[k].input = log[k].input
                                 /\ marked[k].payload = log[k].payload
        /\ \A k \in DOMAIN log \ {i} : marked[k] = log[k]
    BY <1>1, <1>2, <2>1, Remarked DEF IInv
  <2>4. ASSUME NEW k \in DOMAIN log PROVE Recorded(marked[k], states[k], stale')
    <3>1. Recorded(log[k], states[k], stale)
      BY DEF HInv
    <3>2. PICK m : m = marked[k]
      OBVIOUS
    <3>3. m.command = log[k].command /\ m.input = log[k].input /\ m.payload = log[k].payload
      BY <2>3, <3>2
    <3>4. Recorded(m, states[k], stale')
      BY ONLY <2>2, <3>1, <3>3, RecordedStill
    <3> QED
      BY <3>2, <3>4
  <2>5. HInv'
    BY <2>2, <2>3, <2>4 DEF HInv
  <2> QED
    BY <1>3, <1>4, <2>2, <2>3, <2>5
<1>5. CASE ~ out.done
  <2>1. Failed(out, log[i].payload.id)
    BY <1>2, <1>3, <1>5
  <2>2. log' = log /\ states' = states /\ stale \subseteq stale'
    BY <2>1 DEF Failed
  <2> QED
    BY <2>2, RecordedStill DEF HInv
<1> QED
  BY <1>4, <1>5

\* A request leaves the records, and marks no other entry undone.
LEMMA RequestRecorded ==
  ASSUME ~ PaymentsMove, IInv, HInv, NEW user \in Users, Execute(user) \/ Redo(user)
  PROVE  HInv' /\ \A k \in DOMAIN log : ~ UndoneNow(k)
<1>1. PICK home : LogSound(db, log, stale, home)
  BY DEF IInv
<1>2. Sound(db, stale, home) /\ DOMAIN home \subseteq {log[k].payload.id : k \in DOMAIN log}
      /\ IsSequence(log)
  BY <1>1 DEF LogSound, IInv
<1>3. CASE Execute(user)
  <2>1. PICK command \in Commands : \E c \in Inputs(command) : Logged(user, command, c, log)
    BY <1>3 DEF Execute
  <2>2. PICK c \in Inputs(command) : Logged(user, command, c, log)
    BY <2>1
  <2>3. MayRun(db, home, command, c) /\ FreshIn(db, command, c)
    BY <1>2, InputsMayRun, InputsFresh
  <2>4. HInv' /\ (log' = log \/ \A k \in DOMAIN log : log'[k] = log[k])
    BY <1>2, <2>2, <2>3, LoggedRecorded
  <2> QED
    BY <2>4 DEF UndoneNow
<1>4. CASE Redo(user)
  <2>1. PICK i \in DOMAIN log :
          /\ mayRedo(log, user, i)
          /\ \E c \in RedoInputs(log[i]) : Logged(user, log[i].command, c, markRedone(log, i))
    BY <1>4 DEF Redo
  <2>2. PICK c \in RedoInputs(log[i]) : Logged(user, log[i].command, c, markRedone(log, i))
    BY <2>1
  <2>3. PICK previous : previous = markRedone(log, i)
    OBVIOUS
  <2>4. /\ IsSequence(previous) /\ Len(previous) = Len(log)
        /\ DOMAIN previous = DOMAIN log
        /\ \A k \in DOMAIN log : /\ previous[k].command = log[k].command
                                 /\ previous[k].input = log[k].input
                                 /\ previous[k].payload = log[k].payload
        /\ \A k \in DOMAIN log \ {i} : previous[k] = log[k]
    BY <1>1, <1>2, <2>1, <2>3, Remarked
  <2>5. EntrySound(log[i], stale, home)
    BY <1>1, <2>1 DEF LogSound
  <2>6. log[i].command \in Commands /\ log[i].input \in InputsOf(log[i].command)
    BY <2>5 DEF EntrySound
  <2>7. MayRun(db, home, log[i].command, c) /\ FreshIn(db, log[i].command, c)
    BY <1>2, <2>2, <2>5, <2>6, RedoneMayRun, RedoneFresh
  <2>8. PICK command : command = log[i].command
    OBVIOUS
  <2>9. /\ command \in Commands /\ MayRun(db, home, command, c) /\ FreshIn(db, command, c)
        /\ Logged(user, command, c, previous)
    BY <2>2, <2>3, <2>6, <2>7, <2>8
  <2>10. /\ HInv'
         /\ \/ log' = log
            \/ \A k \in DOMAIN log : k \in DOMAIN previous /\ log'[k] = previous[k]
    BY <1>2, <2>4, <2>9, LoggedRecorded
  <2>11. log[i].state = "undone"
    BY <2>1 DEF mayRedo, Own
  <2> QED
    BY <2>4, <2>10, <2>11 DEF UndoneNow
<1> QED
  BY <1>3, <1>4

LEMMA History == ASSUME ~ PaymentsMove PROVE Spec => []HInv
<1>1. Init => HInv
  BY DEF Init, HInv
<1>2. IInv /\ HInv /\ [Next]_vars => HInv'
  <2> SUFFICES ASSUME IInv, HInv, [Next]_vars PROVE HInv'
    OBVIOUS
  <2>1. CASE UNCHANGED vars
    BY <2>1 DEF vars, HInv
  <2>2. CASE Next
    BY <2>2, RequestRecorded, UndoRecorded DEF Next
  <2> QED
    BY <2>1, <2>2
<1> QED
  BY <1>1, <1>2, Invariance, PTL DEF Spec

\* A step that undoes the command of an entry where it left the data.
LEMMA StepReverses ==
  ASSUME ~ PaymentsMove, IInv, HInv, IInv', Next, NEW i \in DOMAIN log,
         log[i].command # "quotes.convert_to_order"
  PROVE  Reverses(i)
<1> SUFFICES ASSUME UndoneNow(i), db = states[i].after
             PROVE  SameBut(stale', db', states[i].before)
  BY DEF Reverses
<1>1. PICK user \in Users : Undo(user)
  BY RequestRecorded DEF Next
<1>2. stale \subseteq stale'
  BY <1>1, UndoRecorded
<1>3. PICK command : command = log[i].command
  OBVIOUS
<1>4. PICK payload : payload = log[i].payload
  OBVIOUS
<1>5. PICK back : back = undo(command, db, payload)
  OBVIOUS
<1>6. back.done /\ db' = recompute(command, back)
  <2>1. log' # log
    BY DEF UndoneNow
  <2>2. PICK j \in DOMAIN log :
          LET out == undo(log[j].command, db, log[j].payload)
          IN /\ out.done /\ db' = recompute(log[j].command, out)
             /\ \A k \in DOMAIN log \ {j} : log'[k] = log[k]
    BY <1>1, <2>1, UndoRecorded
  <2>3. i = j
    BY <2>2 DEF UndoneNow
  <2> QED
    BY <1>3, <1>4, <1>5, <2>2, <2>3
<1>7. PICK b : b = states[i].before
  OBVIOUS
<1>8. PICK c : c = log[i].input
  OBVIOUS
<1>9. PICK out : out = execute(command, b, c)
  OBVIOUS
<1>10. Recorded(log[i], states[i], stale)
  BY DEF HInv
<1>11. PICK home : Sound(b, stale, home) /\ MayRun(b, home, command, c)
  BY <1>3, <1>7, <1>8, <1>10 DEF Recorded
<1>12. /\ command \in Commands /\ FreshIn(b, command, c) /\ out.done
       /\ db = recompute(command, out)
       /\ payload = snapshotOf(command, IF command \in Creates THEN db ELSE b, c.id)
  BY <1>3, <1>4, <1>7, <1>8, <1>9, <1>10 DEF Recorded, Ran
<1>13. SameData(recompute(command, back), b)
  <2>1. command \in Commands \ {"quotes.convert_to_order"}
    BY <1>3, <1>12
  <2> QED
    BY ONLY <1>5, <1>6, <1>9, <1>11, <1>12, <2>1, Reversed
<1>14. PICK other : Sound(db', stale', other)
  BY DEF IInv, LogSound
<1>15. Sound(b, stale', home)
  BY <1>2, <1>11, SoundWeaker
<1>16. SameBut(stale', db', b)
  BY <1>6, <1>13, <1>14, <1>15, SameDataSameBut
<1> QED
  BY <1>7, <1>16

(***************************************************************************)
(* The theorems                                                            *)
(***************************************************************************)

\* Rows and log entries have the columns of their tables, the numbers in them
\* never negative.
THEOREM TypeCorrect == ASSUME ~ PaymentsMove PROVE Spec => []TypeOK
<1>1. IInv => TypeOK
  BY DatabaseIs DEF IInv, LogSound, Sound, EntrySound, TypeOK
<1> QED
  BY <1>1, Invariance, PTL

\* However commands are executed, undone and redone, what a line of an order
\* says is fulfilled is what the shipments of the order hold of it.
THEOREM FulfilledIsShipped == ASSUME ~ PaymentsMove PROVE Spec => []FulfilledAgrees
<1>1. IInv => FulfilledAgrees
  BY DEF IInv, LogSound, Sound, Fulfilled, FulfilledAgrees
<1> QED
  BY <1>1, Invariance, PTL

\* However commands are executed, undone and redone, an order costs what its
\* lines and discount come to and has been paid what its payments come to,
\* unless a handler has left it without computing it again.
THEOREM TotalsFollow == ASSUME ~ PaymentsMove PROVE Spec => []TotalsAgree
<1>1. IInv => TotalsAgree
  BY DEF IInv, LogSound, Sound, Totals, TotalAgrees, GrandAgrees, TotalsAgree
<1> QED
  BY <1>1, Invariance, PTL

\* However snapshots are restored, shipments have their order and its lines,
\* and payments the orders they belong and are allocated to.
THEOREM NoReferenceBreaks == ASSUME ~ PaymentsMove PROVE Spec => []ReferencesExist
<1>1. IInv => ReferencesExist
  BY DEF IInv, LogSound, Sound, Referenced, ReferencesExist
<1> QED
  BY <1>1, Invariance, PTL

\* An undo that finds the data as its command left it brings back the data as
\* the command found it, with all that is derived from it but the payment
\* totals of orders that no handler has computed again.
THEOREM UndoBringsBack == ASSUME ~ PaymentsMove PROVE Spec => UndoReverses
<1>1. IInv /\ HInv /\ IInv' /\ [Next]_vars
        => [\A i \in DOMAIN log :
              log[i].command # "quotes.convert_to_order" => Reverses(i)]_vars
  BY StepReverses
<1> QED
  BY <1>1, Invariance, History, PTL DEF Spec, UndoReverses
=============================================================================
