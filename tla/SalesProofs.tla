---------------------------- MODULE SalesProofs -----------------------------
(***************************************************************************)
(* What the operators of the sales module preserve: sums, tables, and the  *)
(* commands about shipments, payments, orders and quotes, each as an       *)
(* operator on databases, whatever the ids and quantities are.             *)
(***************************************************************************)
EXTENDS SalesDocuments, FiniteSetTheorems, WellFoundedInduction, TLAPS

(***************************************************************************)
(* Sums.  SumFunction adds the values of a function one by one.  That a    *)
(* function by recursion on the indices left exists for a finite domain    *)
(* follows from a least counterexample in their number.                    *)
(***************************************************************************)

First(s) == CHOOSE x \in s : TRUE

\* The sum over the indices s, given the sums g over fewer.
Sum(f, g, s) == IF s = {} THEN 0 ELSE f[First(s)] + g[s \ {First(s)}]

Sums(f) == CHOOSE g : g = [s \in SUBSET DOMAIN f |-> Sum(f, g, s)]

UpTo(f, n) == {s \in SUBSET DOMAIN f : Cardinality(s) <= n}

\* A set of numbers that has 0 and with every number the next has them all.
LEMMA NumbersInductive ==
  ASSUME NEW T, 0 \in T, \A n \in Nat : n \in T => n + 1 \in T
  PROVE  Nat \subseteq T
<1>1. SUFFICES ASSUME Nat \ T # {} PROVE FALSE
  OBVIOUS
<1>2. PICK n \in Nat \ T : \A y \in Nat \ T : ~ (<<y, n>> \in OpToRel(<, Nat))
  <2>1. Nat \ T \subseteq Nat
    OBVIOUS
  <2> QED
    BY <1>1, <2>1, WFMin, NatLessThanWellFounded
<1>3. n # 0 /\ n \in Nat /\ n - 1 \in Nat /\ n - 1 < n
  OBVIOUS
<1>4. n - 1 \notin T
  <2>1. n - 1 \in T => n - 1 + 1 \in T
    BY <1>3
  <2> QED
    BY <1>3, <2>1
<1>5. <<n - 1, n>> \in OpToRel(<, Nat)
  BY <1>3 DEF OpToRel
<1> QED
  BY <1>2, <1>3, <1>4, <1>5

\* What SumFunction is, once its folds are expanded.
LEMMA SumIsLast ==
  ASSUME NEW f
  PROVE  SumFunction(f) = Sums(f)[DOMAIN f]
BY Zenon DEF SumFunction, SumFunctionOnSet, FoldFunctionOnSet, MapThenFoldSet, Sums, Sum, First

\* The sums over a finite domain exist.
LEMMA SumsExist ==
  ASSUME NEW f, IsFiniteSet(DOMAIN f)
  PROVE  \E h : h = [s \in SUBSET DOMAIN f |-> Sum(f, h, s)]
<1> DEFINE T == {n \in Nat : \E h : h = [s \in UpTo(f, n) |-> Sum(f, h, s)]}
<1>0. \A s \in SUBSET DOMAIN f : IsFiniteSet(s) /\ Cardinality(s) \in Nat
  BY FS_Subset, FS_CardinalityType
<1>1. 0 \in T
  <2> DEFINE h == [s \in UpTo(f, 0) |-> 0]
  <2>1. \A s \in UpTo(f, 0) : s = {}
    BY <1>0, FS_EmptySet DEF UpTo
  <2>2. h = [s \in UpTo(f, 0) |-> Sum(f, h, s)]
    BY <2>1 DEF Sum
  <2> QED
    BY <2>2
<1>2. ASSUME NEW n \in Nat, n \in T PROVE n + 1 \in T
  <2>1. PICK h : h = [s \in UpTo(f, n) |-> Sum(f, h, s)]
    BY <1>2
  <2> DEFINE k == [s \in UpTo(f, n + 1) |-> Sum(f, h, s)]
  <2>2. ASSUME NEW s \in UpTo(f, n + 1), s # {}
        PROVE  s \ {First(s)} \in UpTo(f, n) /\ s \ {First(s)} \in UpTo(f, n + 1)
    <3>1. First(s) \in s /\ IsFiniteSet(s) /\ Cardinality(s) <= n + 1 /\ s \subseteq DOMAIN f
      BY <2>2, <1>0 DEF First, UpTo
    <3>2. Cardinality(s \ {First(s)}) = Cardinality(s) - 1
      BY <3>1, FS_RemoveElement
    <3>3. s \ {First(s)} \in SUBSET DOMAIN f
      BY <3>1
    <3> QED
      BY <3>1, <3>2, <3>3, <1>0 DEF UpTo
  <2>3. ASSUME NEW s \in UpTo(f, n) PROVE s \in UpTo(f, n + 1) /\ k[s] = h[s]
    <3>1. s \in UpTo(f, n + 1)
      BY <1>0 DEF UpTo
    <3>2. h[s] = Sum(f, h, s)
      BY <2>1
    <3> QED
      BY <3>1, <3>2
  <2>4. ASSUME NEW s \in UpTo(f, n + 1) PROVE Sum(f, h, s) = Sum(f, k, s)
    BY <2>2, <2>3 DEF Sum
  <2>5. k = [s \in UpTo(f, n + 1) |-> Sum(f, k, s)]
    BY <2>4
  <2> HIDE DEF k
  <2> QED
    BY <2>5
<1>3. Nat \subseteq T
  <2> HIDE DEF T
  <2> QED
    BY <1>1, <1>2, NumbersInductive
<1>4. Cardinality(DOMAIN f) \in Nat
  BY <1>0
<1>5. UpTo(f, Cardinality(DOMAIN f)) = SUBSET DOMAIN f
  BY <1>0, FS_Subset DEF UpTo
<1> QED
  BY <1>3, <1>4, <1>5

\* How sums go on, one index at a time.
LEMMA SumsStep ==
  ASSUME NEW f, IsFiniteSet(DOMAIN f), NEW s \in SUBSET DOMAIN f
  PROVE  Sums(f)[s] = Sum(f, Sums(f), s)
<1>1. PICK h : h = [t \in SUBSET DOMAIN f |-> Sum(f, h, t)]
  BY SumsExist
<1>2. Sums(f) = [t \in SUBSET DOMAIN f |-> Sum(f, Sums(f), t)]
  BY <1>1, Zenon DEF Sums
<1> QED
  BY <1>2

\* What every sum has that 0 has and that adding a value keeps.
LEMMA SumsInductive ==
  ASSUME NEW f, IsFiniteSet(DOMAIN f), NEW V, 0 \in V,
         \A x \in DOMAIN f : \A v \in V : f[x] + v \in V
  PROVE  SumFunction(f) \in V
<1> DEFINE T == {n \in Nat : \A s \in UpTo(f, n) : Sums(f)[s] \in V}
<1>0. \A s \in SUBSET DOMAIN f : IsFiniteSet(s) /\ Cardinality(s) \in Nat
  BY FS_Subset, FS_CardinalityType
<1>1. 0 \in T
  <2>1. \A s \in UpTo(f, 0) : s = {} /\ s \in SUBSET DOMAIN f
    BY <1>0, FS_EmptySet DEF UpTo
  <2> QED
    BY <2>1, SumsStep DEF Sum
<1>2. ASSUME NEW n \in Nat, n \in T PROVE n + 1 \in T
  <2>1. ASSUME NEW s \in UpTo(f, n + 1) PROVE Sums(f)[s] \in V
    <3>1. s \in SUBSET DOMAIN f /\ Sums(f)[s] = Sum(f, Sums(f), s)
      BY SumsStep DEF UpTo
    <3>2. CASE s = {}
      BY <3>1, <3>2 DEF Sum
    <3>3. CASE s # {}
      <4>1. First(s) \in s /\ IsFiniteSet(s) /\ Cardinality(s) <= n + 1
        BY <3>1, <3>3, <1>0 DEF First, UpTo
      <4>2. Cardinality(s \ {First(s)}) = Cardinality(s) - 1
        BY <4>1, FS_RemoveElement
      <4>3. s \ {First(s)} \in UpTo(f, n)
        BY <3>1, <4>1, <4>2, <1>0 DEF UpTo
      <4> QED
        BY <3>1, <3>3, <4>1, <4>3, <1>2 DEF Sum
    <3> QED
      BY <3>2, <3>3
  <2> QED
    BY <2>1
<1>3. Nat \subseteq T
  <2> HIDE DEF T
  <2> QED
    BY <1>1, <1>2, NumbersInductive
<1>4. DOMAIN f \in UpTo(f, Cardinality(DOMAIN f)) /\ Cardinality(DOMAIN f) \in Nat
  BY <1>0 DEF UpTo
<1> QED
  BY <1>3, <1>4, SumIsLast

\* Numbers add up to a number.
LEMMA SumOfNumbers ==
  ASSUME NEW f, IsFiniteSet(DOMAIN f), \A x \in DOMAIN f : f[x] \in Nat
  PROVE  SumFunction(f) \in Nat
<1>1. 0 \in Nat /\ \A x \in DOMAIN f : \A v \in Nat : f[x] + v \in Nat
  OBVIOUS
<1> QED
  BY ONLY IsFiniteSet(DOMAIN f), <1>1, SumsInductive

\* Nothing adds up to nothing.
LEMMA SumOfZeros ==
  ASSUME NEW f, IsFiniteSet(DOMAIN f), \A x \in DOMAIN f : f[x] = 0
  PROVE  SumFunction(f) = 0
<1>1. 0 \in {0} /\ \A x \in DOMAIN f : \A v \in {0} : f[x] + v \in {0}
  OBVIOUS
<1>2. SumFunction(f) \in {0}
  BY ONLY IsFiniteSet(DOMAIN f), <1>1, SumsInductive
<1> QED
  BY <1>2

(***************************************************************************)
(* Tables as sets of functions                                             *)
(***************************************************************************)

LineRow == [quantity : Quantity, fulfilled : Nat]
OrderRow == [lines : PartialFunctions(Lines, LineRow), discount : Nat, grand : Nat,
             paid : Nat, outstanding : Nat]
QuoteRow == [lines : PartialFunctions(Lines, Quantity), discount : Nat]
ShipmentRow == [order : Documents, items : PartialFunctions(Lines, Quantity)]
PaymentRow == [order : Documents \cup {NoOrder}, amount : Quantity,
               allocations : PartialFunctions(Documents, Quantity)]

Database == [orders : PartialFunctions(Documents, OrderRow),
             quotes : PartialFunctions(Documents, QuoteRow),
             shipments : PartialFunctions(Shipments, ShipmentRow),
             payments : PartialFunctions(Payments, PaymentRow)]

\* What it means to map some of S to T.
LEMMA PartialIs ==
  ASSUME NEW S, NEW T, NEW f
  PROVE  f \in PartialFunctions(S, T) <=>
           /\ DOMAIN f \subseteq S /\ f = [x \in DOMAIN f |-> f[x]]
           /\ \A x \in DOMAIN f : f[x] \in T
<1>1. ASSUME f \in PartialFunctions(S, T)
      PROVE  /\ DOMAIN f \subseteq S /\ f = [x \in DOMAIN f |-> f[x]]
             /\ \A x \in DOMAIN f : f[x] \in T
  <2>1. PICK D \in SUBSET S : f \in [D -> T]
    BY <1>1, Zenon DEF PartialFunctions
  <2> QED
    BY <2>1
<1>2. ASSUME DOMAIN f \subseteq S, f = [x \in DOMAIN f |-> f[x]],
             \A x \in DOMAIN f : f[x] \in T
      PROVE  f \in PartialFunctions(S, T)
  <2>1. f \in [DOMAIN f -> T] /\ DOMAIN f \in SUBSET S
    BY <1>2
  <2> QED
    BY <2>1, Zenon DEF PartialFunctions
<1> QED
  BY <1>1, <1>2

\* The empty table has rows of any type.
LEMMA NoRowsPartial ==
  ASSUME NEW S, NEW T
  PROVE  NoRows \in PartialFunctions(S, T) /\ DOMAIN NoRows = {}
<1>1. DOMAIN NoRows = {} /\ NoRows = [x \in DOMAIN NoRows |-> NoRows[x]]
  BY DEF NoRows
<1> QED
  BY <1>1, PartialIs

\* Tables stay tables.
LEMMA OverTyped ==
  \A S, T, f, h : f \in PartialFunctions(S, T) /\ h \in PartialFunctions(S, T)
                    => Over(h, f) \in PartialFunctions(S, T)
<1> SUFFICES ASSUME NEW S, NEW T, NEW f \in PartialFunctions(S, T),
                    NEW h \in PartialFunctions(S, T)
             PROVE  Over(h, f) \in PartialFunctions(S, T)
  OBVIOUS
<1>1. Over(h, f) = [y \in DOMAIN Over(h, f) |-> Over(h, f)[y]]
  BY DEF Over
<1>2. /\ DOMAIN f \subseteq S /\ \A y \in DOMAIN f : f[y] \in T
      /\ DOMAIN h \subseteq S /\ \A y \in DOMAIN h : h[y] \in T
  BY PartialIs
<1>3. /\ DOMAIN Over(h, f) \subseteq S /\ \A y \in DOMAIN Over(h, f) : Over(h, f)[y] \in T
  BY <1>2 DEF Over
<1> QED
  BY <1>1, <1>3, PartialIs

LEMMA OnlyTyped ==
  \A S, T, x, v : x \in S /\ v \in T => Only(x, v) \in PartialFunctions(S, T)
<1> SUFFICES ASSUME NEW S, NEW T, NEW x \in S, NEW v \in T
             PROVE  Only(x, v) \in PartialFunctions(S, T)
  OBVIOUS
<1>1. Only(x, v) = [y \in DOMAIN Only(x, v) |-> Only(x, v)[y]]
  BY DEF Only
<1>2. DOMAIN Only(x, v) \subseteq S /\ \A y \in DOMAIN Only(x, v) : Only(x, v)[y] \in T
  BY DEF Only
<1> QED
  BY <1>1, <1>2, PartialIs

LEMMA PutTyped ==
  \A S, T, f, x, v : f \in PartialFunctions(S, T) /\ x \in S /\ v \in T
                       => Put(f, x, v) \in PartialFunctions(S, T)
BY OverTyped, OnlyTyped DEF Put

LEMMA RestrictTyped ==
  \A S, T, f, D : f \in PartialFunctions(S, T) /\ D \subseteq DOMAIN f
                    => Restrict(f, D) \in PartialFunctions(S, T)
<1> SUFFICES ASSUME NEW S, NEW T, NEW f \in PartialFunctions(S, T), NEW D \in SUBSET DOMAIN f
             PROVE  Restrict(f, D) \in PartialFunctions(S, T)
  OBVIOUS
<1>1. Restrict(f, D) = [y \in DOMAIN Restrict(f, D) |-> Restrict(f, D)[y]]
  BY DEF Restrict
<1>2. DOMAIN f \subseteq S /\ \A y \in DOMAIN f : f[y] \in T
  BY PartialIs
<1>3. /\ DOMAIN Restrict(f, D) \subseteq S
      /\ \A y \in DOMAIN Restrict(f, D) : Restrict(f, D)[y] \in T
  BY <1>2 DEF Restrict
<1> QED
  BY <1>1, <1>3, PartialIs

LEMMA WithoutTyped ==
  \A S, T, f, D : f \in PartialFunctions(S, T) => Without(f, D) \in PartialFunctions(S, T)
BY RestrictTyped DEF Without

\* Two tables with the same rows are one.
LEMMA SameRows ==
  ASSUME NEW S, NEW T, NEW f \in PartialFunctions(S, T), NEW g \in PartialFunctions(S, T),
         DOMAIN f = DOMAIN g, \A y \in DOMAIN f : f[y] = g[y]
  PROVE  f = g
<1>1. f = [x \in DOMAIN f |-> f[x]] /\ g = [x \in DOMAIN g |-> g[x]]
  BY PartialIs
<1> QED
  BY <1>1

\* A row that was changed or deleted is put back.
LEMMA PutBack ==
  ASSUME NEW f, f = [y \in DOMAIN f |-> f[y]], NEW x \in DOMAIN f,
         NEW g, DOMAIN g \cup {x} = DOMAIN f, \A y \in DOMAIN g : y # x => g[y] = f[y]
  PROVE  Put(g, x, f[x]) = f
<1>1. PICK h : h = Put(g, x, f[x])
  OBVIOUS
<1>2. h = [y \in DOMAIN f |-> IF y = x THEN f[x] ELSE g[y]]
  BY <1>1 DEF Put, Over, Only
<1>3. h = [y \in DOMAIN f |-> f[y]]
  BY <1>2
<1> QED
  BY <1>1, <1>3

\* Some rows that were deleted are put back.
LEMMA OverBack ==
  ASSUME NEW f, f = [y \in DOMAIN f |-> f[y]], NEW D, D \subseteq DOMAIN f,
         NEW g, DOMAIN g = DOMAIN f \ D, \A y \in DOMAIN g : g[y] = f[y]
  PROVE  Over(Restrict(f, D), g) = f
<1>1. PICK h : h = Restrict(f, D)
  OBVIOUS
<1>2. DOMAIN h = D /\ \A y \in D : h[y] = f[y]
  BY <1>1 DEF Restrict
<1>3. PICK k : k = Over(h, g)
  OBVIOUS
<1>4. k = [y \in DOMAIN f |-> IF y \in D THEN h[y] ELSE g[y]]
  BY <1>2, <1>3 DEF Over
<1>5. k = [y \in DOMAIN f |-> f[y]]
  BY <1>2, <1>4
<1> QED
  BY <1>1, <1>3, <1>5

\* A new row is deleted.
LEMMA NewDropped ==
  ASSUME NEW f, f = [y \in DOMAIN f |-> f[y]], NEW x, x \notin DOMAIN f, NEW v
  PROVE  Without(Put(f, x, v), {x}) = f
<1>1. PICK g : g = Put(f, x, v)
  OBVIOUS
<1>2. DOMAIN g = DOMAIN f \cup {x} /\ \A y \in DOMAIN f : g[y] = f[y]
  BY <1>1 DEF Put, Over, Only
<1>3. PICK h : h = Without(g, {x})
  OBVIOUS
<1>4. h = [y \in DOMAIN g \ {x} |-> g[y]]
  <2>1. h = Restrict(g, DOMAIN g \ {x})
    BY <1>3 DEF Without
  <2> QED
    BY <2>1 DEF Restrict
<1>5. h = [y \in DOMAIN f |-> f[y]]
  BY <1>2, <1>4
<1> QED
  BY <1>1, <1>3, <1>5

\* Restricted to all its rows a table is itself.
LEMMA AllKept ==
  ASSUME NEW f, f = [y \in DOMAIN f |-> f[y]], NEW D, D = DOMAIN f
  PROVE  Restrict(f, D) = f
BY DEF Restrict

\* The type invariant's tables are these sets.
LEMMA DatabaseIs ==
  ASSUME NEW d
  PROVE  IsDatabase(d) <=> d \in Database
<1>1. ASSUME NEW row PROVE IsOrder(row) <=> row \in OrderRow
  <2>0. ASSUME NEW line PROVE IsLine(line) <=> line \in LineRow
    BY DEF IsLine, LineRow
  <2>1. IsTable(row.lines, Lines, IsLine)
          <=> row.lines \in PartialFunctions(Lines, LineRow)
    BY <2>0, PartialIs DEF IsTable
  <2> QED
    BY <2>1 DEF IsOrder, OrderRow
<1>2. ASSUME NEW row PROVE IsQuote(row) <=> row \in QuoteRow
  BY DEF IsQuote, QuoteRow
<1>3. ASSUME NEW row PROVE IsShipment(row) <=> row \in ShipmentRow
  BY DEF IsShipment, ShipmentRow
<1>4. ASSUME NEW row PROVE IsPayment(row) <=> row \in PaymentRow
  BY DEF IsPayment, PaymentRow
<1>5. IsTable(d.orders, Documents, IsOrder) <=> d.orders \in PartialFunctions(Documents, OrderRow)
  BY <1>1, PartialIs DEF IsTable
<1>6. IsTable(d.quotes, Documents, IsQuote) <=> d.quotes \in PartialFunctions(Documents, QuoteRow)
  BY <1>2, PartialIs DEF IsTable
<1>7. IsTable(d.shipments, Shipments, IsShipment)
        <=> d.shipments \in PartialFunctions(Shipments, ShipmentRow)
  BY <1>3, PartialIs DEF IsTable
<1>8. IsTable(d.payments, Payments, IsPayment)
        <=> d.payments \in PartialFunctions(Payments, PaymentRow)
  BY <1>4, PartialIs DEF IsTable
<1> QED
  BY <1>5, <1>6, <1>7, <1>8 DEF IsDatabase, Database

(***************************************************************************)
(* What a database owes.  unsure: orders whose totals may be wrong; home:  *)
(* the order each shipment is made for, which nothing changes.             *)
(***************************************************************************)

Referenced(d) ==
  /\ \A s \in DOMAIN d.shipments :
       /\ d.shipments[s].order \in DOMAIN d.orders
       /\ DOMAIN d.shipments[s].items \subseteq
            DOMAIN d.orders[d.shipments[s].order].lines
  /\ \A p \in DOMAIN d.payments : OrdersOf(d.payments[p]) \subseteq DOMAIN d.orders

\* A payment is allocated to the order it belongs to, or to none.
OwnAllocation(row) == DOMAIN row.allocations \subseteq {row.order}
OwnAllocations(d) == \A p \in DOMAIN d.payments : OwnAllocation(d.payments[p])

AtHome(d, home) ==
  \A s \in DOMAIN d.shipments : s \in DOMAIN home /\ d.shipments[s].order = home[s]

Fulfilled(d) ==
  \A o \in DOMAIN d.orders : \A l \in DOMAIN d.orders[o].lines :
    d.orders[o].lines[l].fulfilled = loadShippedTotals(d, o, l, {})

GrandAgrees(order) == order.grand = GrandTotal(QuantitiesOf(order), order.discount)

TotalAgrees(d, o) ==
  /\ GrandAgrees(d.orders[o]) /\ d.orders[o].paid = PaidTotal(d, o)
  /\ d.orders[o].outstanding = Minus(d.orders[o].grand, d.orders[o].paid)

Totals(d, unsure) == \A o \in DOMAIN d.orders \ unsure : TotalAgrees(d, o)

Sound(d, unsure, home) ==
  /\ d \in Database /\ Referenced(d) /\ OwnAllocations(d) /\ AtHome(d, home)
  /\ Fulfilled(d) /\ Totals(d, unsure)

(***************************************************************************)
(* What sums depend on                                                     *)
(***************************************************************************)

\* The fields of a database.
LEMMA Fields ==
  ASSUME NEW d \in Database
  PROVE  /\ d.orders \in PartialFunctions(Documents, OrderRow)
         /\ d.quotes \in PartialFunctions(Documents, QuoteRow)
         /\ d.shipments \in PartialFunctions(Shipments, ShipmentRow)
         /\ d.payments \in PartialFunctions(Payments, PaymentRow)
BY DEF Database

\* The rows of a database.
LEMMA RowsTyped ==
  ASSUME NEW d \in Database
  PROVE  /\ DOMAIN d.orders \subseteq Documents /\ \A o \in DOMAIN d.orders : d.orders[o] \in OrderRow
         /\ DOMAIN d.quotes \subseteq Documents /\ \A q \in DOMAIN d.quotes : d.quotes[q] \in QuoteRow
         /\ DOMAIN d.shipments \subseteq Shipments
         /\ \A s \in DOMAIN d.shipments : d.shipments[s] \in ShipmentRow
         /\ DOMAIN d.payments \subseteq Payments
         /\ \A p \in DOMAIN d.payments : d.payments[p] \in PaymentRow
BY Fields, PartialIs

\* Minus never leaves the numbers.
LEMMA MinusNumber ==
  ASSUME NEW a \in Nat, NEW b \in Nat PROVE Minus(a, b) \in Nat
BY DEF Minus

\* What was shipped for a line depends on the items of the order's shipments.
LEMMA ShippedSame ==
  ASSUME NEW d, NEW e, NEW o, ShipmentsOf(d, o) = ShipmentsOf(e, o),
         \A s \in ShipmentsOf(d, o) : d.shipments[s].items = e.shipments[s].items
  PROVE  \A l : loadShippedTotals(d, o, l, {}) = loadShippedTotals(e, o, l, {})
<1> SUFFICES ASSUME NEW l
             PROVE  loadShippedTotals(d, o, l, {}) = loadShippedTotals(e, o, l, {})
  OBVIOUS
<1>1. \A s \in ShipmentsOf(d, o) : ShippedBy(d, s, l) = ShippedBy(e, s, l)
  BY DEF ShippedBy
<1>2. [s \in ShipmentsOf(d, o) \ {} |-> ShippedBy(d, s, l)]
        = [s \in ShipmentsOf(e, o) \ {} |-> ShippedBy(e, s, l)]
  BY <1>1
<1> QED
  BY <1>2 DEF loadShippedTotals

\* It is a number, and zero where no shipment holds the line.
LEMMA ShippedNumber ==
  ASSUME NEW d \in Database, NEW o, NEW l
  PROVE  /\ loadShippedTotals(d, o, l, {}) \in Nat
         /\ (\A s \in ShipmentsOf(d, o) : l \notin DOMAIN d.shipments[s].items)
              => loadShippedTotals(d, o, l, {}) = 0
<1> DEFINE f == [s \in ShipmentsOf(d, o) \ {} |-> ShippedBy(d, s, l)]
<1>1. IsFiniteSet(DOMAIN f)
  <2>1. DOMAIN f \subseteq Shipments
    BY RowsTyped DEF ShipmentsOf
  <2> QED
    BY <2>1, FS_Subset, SalesAssumption
<1>2. \A s \in DOMAIN f : f[s] \in Nat
  <2> SUFFICES ASSUME NEW s \in ShipmentsOf(d, o) PROVE ShippedBy(d, s, l) \in Nat
    OBVIOUS
  <2>1. d.shipments[s].items \in PartialFunctions(Lines, Quantity)
    BY RowsTyped DEF ShipmentsOf, ShipmentRow
  <2>2. \A k \in DOMAIN d.shipments[s].items : d.shipments[s].items[k] \in Quantity
    BY <2>1, PartialIs
  <2>3. Quantity \subseteq Nat
    BY SalesAssumption DEF Quantity
  <2> QED
    BY <2>2, <2>3 DEF ShippedBy
<1>3. ASSUME \A s \in ShipmentsOf(d, o) : l \notin DOMAIN d.shipments[s].items
      PROVE  \A s \in DOMAIN f : f[s] = 0
  BY <1>3 DEF ShippedBy
<1>4. loadShippedTotals(d, o, l, {}) = SumFunction(f)
  BY DEF loadShippedTotals
<1> HIDE DEF f
<1> QED
  BY <1>1, <1>2, <1>3, <1>4, SumOfNumbers, SumOfZeros

\* What was paid depends on the payments of the order and allocated to it.
LEMMA PaidSame ==
  ASSUME NEW d, NEW e, NEW o,
         PaymentsOf(d, o) = PaymentsOf(e, o), AllocatedTo(d, o) = AllocatedTo(e, o),
         \A p \in PaymentsOf(d, o) \cup AllocatedTo(d, o) : d.payments[p] = e.payments[p]
  PROVE  PaidTotal(d, o) = PaidTotal(e, o)
<1>1. [p \in AllocatedTo(d, o) |-> d.payments[p].allocations[o]]
        = [p \in AllocatedTo(e, o) |-> e.payments[p].allocations[o]]
  OBVIOUS
<1>2. [p \in PaymentsOf(d, o) |-> d.payments[p].amount]
        = [p \in PaymentsOf(e, o) |-> e.payments[p].amount]
  OBVIOUS
<1> QED
  BY <1>1, <1>2 DEF PaidTotal

\* It is a number, and zero for an order without payments.
LEMMA PaidNumber ==
  ASSUME NEW d \in Database, NEW o
  PROVE  /\ PaidTotal(d, o) \in Nat
         /\ PaymentsOf(d, o) = {} /\ AllocatedTo(d, o) = {} => PaidTotal(d, o) = 0
<1> DEFINE f == [p \in AllocatedTo(d, o) |-> d.payments[p].allocations[o]]
           g == [p \in PaymentsOf(d, o) |-> d.payments[p].amount]
<1>1. Quantity \subseteq Nat
  BY SalesAssumption DEF Quantity
<1>2. IsFiniteSet(DOMAIN f) /\ IsFiniteSet(DOMAIN g)
  <2>1. DOMAIN f \subseteq Payments /\ DOMAIN g \subseteq Payments
    BY RowsTyped DEF AllocatedTo, PaymentsOf
  <2> QED
    BY <2>1, FS_Subset, SalesAssumption
<1>3. \A p \in DOMAIN f : f[p] \in Nat
  <2> SUFFICES ASSUME NEW p \in AllocatedTo(d, o)
               PROVE  d.payments[p].allocations[o] \in Nat
    OBVIOUS
  <2>1. d.payments[p].allocations \in PartialFunctions(Documents, Quantity)
    BY RowsTyped DEF AllocatedTo, PaymentRow
  <2>2. d.payments[p].allocations[o] \in Quantity
    BY <2>1, PartialIs DEF AllocatedTo
  <2> QED
    BY <2>2, <1>1
<1>4. \A p \in DOMAIN g : g[p] \in Nat
  BY RowsTyped, <1>1 DEF PaymentsOf, PaymentRow
<1>5. PaidTotal(d, o) = IF AllocatedTo(d, o) # {} THEN SumFunction(f) ELSE SumFunction(g)
  BY DEF PaidTotal
<1>6. PaymentsOf(d, o) = {} => \A p \in DOMAIN g : g[p] = 0
  OBVIOUS
<1> HIDE DEF f, g
<1> QED
  BY <1>2, <1>3, <1>4, <1>5, <1>6, SumOfNumbers, SumOfZeros

\* What a document costs is a number.
LEMMA GrandNumber ==
  ASSUME NEW quantities \in PartialFunctions(Lines, Quantity), NEW discount \in Nat
  PROVE  GrandTotal(quantities, discount) \in Nat
<1>1. Quantity \subseteq Nat
  BY SalesAssumption DEF Quantity
<1>2. IsFiniteSet(DOMAIN quantities) /\ \A l \in DOMAIN quantities : quantities[l] \in Nat
  BY <1>1, PartialIs, FS_Subset, SalesAssumption
<1>3. SubtotalOf(quantities) \in Nat
  BY <1>2, SumOfNumbers DEF SubtotalOf
<1> QED
  BY <1>3, MinusNumber DEF GrandTotal

\* The quantities of an order's lines.
LEMMA QuantitiesTyped ==
  ASSUME NEW order, order.lines \in PartialFunctions(Lines, LineRow)
  PROVE  QuantitiesOf(order) \in PartialFunctions(Lines, Quantity)
<1> DEFINE f == QuantitiesOf(order)
<1>0. DOMAIN order.lines \subseteq Lines
      /\ \A l \in DOMAIN order.lines : order.lines[l].quantity \in Quantity
  <2>1. DOMAIN order.lines \subseteq Lines
        /\ \A l \in DOMAIN order.lines : order.lines[l] \in LineRow
    BY PartialIs
  <2> QED
    BY <2>1 DEF LineRow
<1>1. DOMAIN f \subseteq Lines /\ f = [x \in DOMAIN f |-> f[x]]
      /\ \A x \in DOMAIN f : f[x] \in Quantity
  BY <1>0 DEF QuantitiesOf
<1> HIDE DEF f
<1> QED
  BY <1>1, PartialIs DEF f

(***************************************************************************)
(* A command's change, and what is computed again after it                 *)
(***************************************************************************)

\* The database e with the fulfilled quantities of the orders T computed again.
WithFulfilled(e, T) ==
  [e EXCEPT !.orders = [o \in DOMAIN @ |->
     IF o \notin T THEN @[o] ELSE recomputeFulfilledQuantities(e, o)]]

\* The database e with the totals of the orders T computed again.
WithTotals(e, T) ==
  [e EXCEPT !.orders = [o \in DOMAIN @ |->
     IF o \notin T THEN @[o] ELSE recomputeOrderPaymentTotals(e, o)]]

\* Computing fulfilled quantities again changes these and nothing else.
LEMMA WithFulfilledIs ==
  ASSUME NEW e \in Database, NEW T
  PROVE  /\ WithFulfilled(e, T) \in Database
         /\ WithFulfilled(e, T).quotes = e.quotes
         /\ WithFulfilled(e, T).shipments = e.shipments
         /\ WithFulfilled(e, T).payments = e.payments
         /\ DOMAIN WithFulfilled(e, T).orders = DOMAIN e.orders
         /\ \A o \in DOMAIN e.orders \ T : WithFulfilled(e, T).orders[o] = e.orders[o]
         /\ \A o \in DOMAIN e.orders :
              LET row == WithFulfilled(e, T).orders[o]
              IN /\ row.discount = e.orders[o].discount /\ row.grand = e.orders[o].grand
                 /\ row.paid = e.orders[o].paid
                 /\ row.outstanding = e.orders[o].outstanding
                 /\ DOMAIN row.lines = DOMAIN e.orders[o].lines
                 /\ QuantitiesOf(row) = QuantitiesOf(e.orders[o])
                 /\ o \in T => \A l \in DOMAIN row.lines :
                      row.lines[l].fulfilled = loadShippedTotals(e, o, l, {})
<1> DEFINE a == WithFulfilled(e, T)
<1>1. /\ a.quotes = e.quotes /\ a.shipments = e.shipments /\ a.payments = e.payments
      /\ a.orders = [o \in DOMAIN e.orders |->
           IF o \notin T THEN e.orders[o] ELSE recomputeFulfilledQuantities(e, o)]
      /\ a = [orders |-> a.orders, quotes |-> e.quotes, shipments |-> e.shipments,
              payments |-> e.payments]
  BY DEF WithFulfilled, Database
<1> HIDE DEF a
<1>2. ASSUME NEW o \in DOMAIN e.orders, o \in T
      PROVE  /\ a.orders[o] \in OrderRow
             /\ a.orders[o].discount = e.orders[o].discount
             /\ a.orders[o].grand = e.orders[o].grand
             /\ a.orders[o].paid = e.orders[o].paid
             /\ a.orders[o].outstanding = e.orders[o].outstanding
             /\ DOMAIN a.orders[o].lines = DOMAIN e.orders[o].lines
             /\ QuantitiesOf(a.orders[o]) = QuantitiesOf(e.orders[o])
             /\ \A l \in DOMAIN a.orders[o].lines :
                  a.orders[o].lines[l].fulfilled = loadShippedTotals(e, o, l, {})
  <2> DEFINE f == e.orders[o].lines
             g == [l \in DOMAIN f |->
                     [f[l] EXCEPT !.fulfilled = loadShippedTotals(e, o, l, {})]]
  <2>1. e.orders[o] \in OrderRow /\ a.orders[o] = [e.orders[o] EXCEPT !.lines = g]
    BY <1>1, <1>2, RowsTyped DEF recomputeFulfilledQuantities
  <2>2. f \in PartialFunctions(Lines, LineRow)
    BY <2>1 DEF OrderRow
  <2>3. DOMAIN f \subseteq Lines /\ \A l \in DOMAIN f : f[l] \in LineRow
    BY <2>2, PartialIs
  <2> HIDE DEF f
  <2>4. ASSUME NEW l \in DOMAIN f
        PROVE  /\ g[l] \in LineRow /\ g[l].quantity = f[l].quantity
               /\ g[l].fulfilled = loadShippedTotals(e, o, l, {})
    BY <2>3, ShippedNumber DEF LineRow
  <2>5. DOMAIN g = DOMAIN f /\ g = [l \in DOMAIN g |-> g[l]]
    OBVIOUS
  <2> HIDE DEF g
  <2>6. g \in PartialFunctions(Lines, LineRow)
    BY <2>3, <2>4, <2>5, PartialIs
  <2>7. a.orders[o] \in OrderRow
    BY <2>1, <2>6 DEF OrderRow
  <2>8. /\ a.orders[o].lines = g
        /\ a.orders[o].discount = e.orders[o].discount
        /\ a.orders[o].grand = e.orders[o].grand
        /\ a.orders[o].paid = e.orders[o].paid
        /\ a.orders[o].outstanding = e.orders[o].outstanding
    BY <2>1 DEF OrderRow
  <2>9. QuantitiesOf(a.orders[o]) = QuantitiesOf(e.orders[o])
    BY <2>4, <2>5, <2>8 DEF QuantitiesOf, f
  <2> QED
    BY <2>4, <2>5, <2>7, <2>8, <2>9 DEF f
<1>3. \A o \in DOMAIN e.orders \ T : a.orders[o] = e.orders[o]
  BY <1>1
<1>4. DOMAIN a.orders = DOMAIN e.orders
  BY <1>1
<1>5. a.orders \in PartialFunctions(Documents, OrderRow)
  <2>1. \A o \in DOMAIN e.orders : a.orders[o] \in OrderRow
    BY <1>2, <1>3, RowsTyped
  <2>2. a.orders = [o \in DOMAIN a.orders |-> a.orders[o]]
    BY <1>1
  <2>3. DOMAIN e.orders \subseteq Documents
    BY RowsTyped
  <2> QED
    BY <2>1, <2>2, <2>3, <1>4, PartialIs
<1>6. a \in Database
  BY <1>1, <1>5, Fields DEF Database
<1> QED
  BY <1>1, <1>2, <1>3, <1>4, <1>6 DEF a

\* Computing totals again changes what is paid and outstanding, nothing else.
LEMMA WithTotalsIs ==
  ASSUME NEW e \in Database, NEW T
  PROVE  /\ WithTotals(e, T) \in Database
         /\ WithTotals(e, T).quotes = e.quotes
         /\ WithTotals(e, T).shipments = e.shipments
         /\ WithTotals(e, T).payments = e.payments
         /\ DOMAIN WithTotals(e, T).orders = DOMAIN e.orders
         /\ \A o \in DOMAIN e.orders \ T : WithTotals(e, T).orders[o] = e.orders[o]
         /\ \A o \in DOMAIN e.orders :
              LET row == WithTotals(e, T).orders[o]
              IN /\ row.lines = e.orders[o].lines
                 /\ row.discount = e.orders[o].discount /\ row.grand = e.orders[o].grand
                 /\ o \in T => /\ row.paid = PaidTotal(e, o)
                               /\ row.outstanding = Minus(row.grand, row.paid)
<1> DEFINE a == WithTotals(e, T)
<1>1. /\ a.quotes = e.quotes /\ a.shipments = e.shipments /\ a.payments = e.payments
      /\ a.orders = [o \in DOMAIN e.orders |->
           IF o \notin T THEN e.orders[o] ELSE recomputeOrderPaymentTotals(e, o)]
      /\ a = [orders |-> a.orders, quotes |-> e.quotes, shipments |-> e.shipments,
              payments |-> e.payments]
  BY DEF WithTotals, Database
<1> HIDE DEF a
<1>2. ASSUME NEW o \in DOMAIN e.orders, o \in T
      PROVE  /\ a.orders[o] \in OrderRow
             /\ a.orders[o].lines = e.orders[o].lines
             /\ a.orders[o].discount = e.orders[o].discount
             /\ a.orders[o].grand = e.orders[o].grand
             /\ a.orders[o].paid = PaidTotal(e, o)
             /\ a.orders[o].outstanding = Minus(a.orders[o].grand, a.orders[o].paid)
  <2>1. e.orders[o] \in OrderRow
    BY RowsTyped
  <2>2. a.orders[o] = [e.orders[o] EXCEPT !.paid = PaidTotal(e, o),
                         !.outstanding = Minus(e.orders[o].grand, PaidTotal(e, o))]
    BY <1>1, <1>2 DEF recomputeOrderPaymentTotals
  <2>3. PaidTotal(e, o) \in Nat /\ Minus(e.orders[o].grand, PaidTotal(e, o)) \in Nat
    BY <2>1, PaidNumber, MinusNumber DEF OrderRow
  <2> QED
    BY <2>1, <2>2, <2>3 DEF OrderRow
<1>3. \A o \in DOMAIN e.orders \ T : a.orders[o] = e.orders[o]
  BY <1>1
<1>4. DOMAIN a.orders = DOMAIN e.orders
  BY <1>1
<1>5. a.orders \in PartialFunctions(Documents, OrderRow)
  <2>1. \A o \in DOMAIN e.orders : a.orders[o] \in OrderRow
    BY <1>2, <1>3, RowsTyped
  <2>2. a.orders = [o \in DOMAIN a.orders |-> a.orders[o]]
    BY <1>1
  <2>3. DOMAIN e.orders \subseteq Documents
    BY RowsTyped
  <2> QED
    BY <2>1, <2>2, <2>3, <1>4, PartialIs
<1>6. a \in Database
  BY <1>1, <1>5, Fields DEF Database
<1> QED
  BY <1>1, <1>2, <1>3, <1>4, <1>6 DEF a

\* Shipments have changed, those of other orders only so that sums stay, and
\* the fulfilled quantities of the orders T are computed again.
LEMMA ShipmentsChange ==
  ASSUME NEW d, NEW unsure, NEW home, Sound(d, unsure, home),
         NEW e \in Database, e.orders = d.orders, e.payments = d.payments,
         NEW newHome, AtHome(e, newHome), Referenced(e), NEW T,
         \A o \in DOMAIN d.orders \ T : \A l :
           loadShippedTotals(e, o, l, {}) = loadShippedTotals(d, o, l, {})
  PROVE  Sound(WithFulfilled(e, T), unsure, newHome)
<1> DEFINE a == WithFulfilled(e, T)
<1>0. /\ a \in Database /\ a.shipments = e.shipments /\ a.payments = e.payments
      /\ DOMAIN a.orders = DOMAIN e.orders
      /\ \A o \in DOMAIN e.orders \ T : a.orders[o] = e.orders[o]
      /\ \A o \in DOMAIN e.orders :
           /\ a.orders[o].discount = e.orders[o].discount
           /\ a.orders[o].grand = e.orders[o].grand
           /\ a.orders[o].paid = e.orders[o].paid
           /\ a.orders[o].outstanding = e.orders[o].outstanding
           /\ DOMAIN a.orders[o].lines = DOMAIN e.orders[o].lines
           /\ QuantitiesOf(a.orders[o]) = QuantitiesOf(e.orders[o])
           /\ o \in T => \A l \in DOMAIN a.orders[o].lines :
                a.orders[o].lines[l].fulfilled = loadShippedTotals(e, o, l, {})
  BY WithFulfilledIs
<1> HIDE DEF a
<1>1. Referenced(a)
  BY <1>0 DEF Referenced, Sound
<1>2. OwnAllocations(a)
  BY <1>0 DEF OwnAllocations, Sound
<1>3. AtHome(a, newHome)
  BY <1>0 DEF AtHome
<1>4. Fulfilled(a)
  <2> SUFFICES ASSUME NEW o \in DOMAIN a.orders, NEW l \in DOMAIN a.orders[o].lines
               PROVE  a.orders[o].lines[l].fulfilled = loadShippedTotals(a, o, l, {})
    BY DEF Fulfilled
  <2>1. loadShippedTotals(a, o, l, {}) = loadShippedTotals(e, o, l, {})
    BY <1>0, ShippedSame DEF ShipmentsOf
  <2>2. CASE o \in T
    BY <1>0, <2>1, <2>2
  <2>3. CASE o \notin T
    BY <1>0, <2>1, <2>3 DEF Sound, Fulfilled
  <2> QED
    BY <2>2, <2>3
<1>5. Totals(a, unsure)
  <2> SUFFICES ASSUME NEW o \in DOMAIN a.orders \ unsure PROVE TotalAgrees(a, o)
    BY DEF Totals
  <2>1. TotalAgrees(d, o)
    BY <1>0 DEF Sound, Totals
  <2>2. PaidTotal(a, o) = PaidTotal(d, o)
    BY <1>0, PaidSame DEF PaymentsOf, AllocatedTo
  <2> QED
    BY <1>0, <2>1, <2>2 DEF TotalAgrees, GrandAgrees
<1> QED
  BY <1>0, <1>1, <1>2, <1>3, <1>4, <1>5 DEF Sound, a

\* Payments have changed, those of other orders only so that sums stay, and
\* the totals of the orders T are computed again.
LEMMA PaymentsChange ==
  ASSUME NEW d, NEW unsure, NEW home, Sound(d, unsure, home),
         NEW e \in Database, e.orders = d.orders, e.shipments = d.shipments,
         Referenced(e), OwnAllocations(e), NEW T, NEW left,
         \A o \in DOMAIN d.orders \ (T \cup left) : PaidTotal(e, o) = PaidTotal(d, o)
  PROVE  Sound(WithTotals(e, T), unsure \cup left, home)
<1> DEFINE a == WithTotals(e, T)
<1>0. /\ a \in Database /\ a.shipments = e.shipments /\ a.payments = e.payments
      /\ DOMAIN a.orders = DOMAIN e.orders
      /\ \A o \in DOMAIN e.orders \ T : a.orders[o] = e.orders[o]
      /\ \A o \in DOMAIN e.orders :
           /\ a.orders[o].lines = e.orders[o].lines
           /\ a.orders[o].discount = e.orders[o].discount
           /\ a.orders[o].grand = e.orders[o].grand
           /\ o \in T => /\ a.orders[o].paid = PaidTotal(e, o)
                         /\ a.orders[o].outstanding = Minus(a.orders[o].grand, a.orders[o].paid)
  BY WithTotalsIs
<1> HIDE DEF a
<1>1. Referenced(a)
  BY <1>0 DEF Referenced, Sound
<1>2. OwnAllocations(a)
  BY <1>0 DEF OwnAllocations, Sound
<1>3. AtHome(a, home)
  BY <1>0 DEF AtHome, Sound
<1>4. Fulfilled(a)
  <2> SUFFICES ASSUME NEW o \in DOMAIN a.orders, NEW l \in DOMAIN a.orders[o].lines
               PROVE  a.orders[o].lines[l].fulfilled = loadShippedTotals(a, o, l, {})
    BY DEF Fulfilled
  <2>1. loadShippedTotals(a, o, l, {}) = loadShippedTotals(d, o, l, {})
    BY <1>0, ShippedSame DEF ShipmentsOf
  <2> QED
    BY <1>0, <2>1 DEF Sound, Fulfilled
<1>5. Totals(a, unsure \cup left)
  <2> SUFFICES ASSUME NEW o \in DOMAIN a.orders \ (unsure \cup left) PROVE TotalAgrees(a, o)
    BY DEF Totals
  <2>1. TotalAgrees(d, o)
    BY <1>0 DEF Sound, Totals
  <2>2. PaidTotal(a, o) = PaidTotal(e, o)
    BY <1>0, PaidSame DEF PaymentsOf, AllocatedTo
  <2>3. GrandAgrees(a.orders[o])
    BY <1>0, <2>1 DEF TotalAgrees, GrandAgrees, QuantitiesOf
  <2>4. CASE o \in T
    BY <1>0, <2>2, <2>3, <2>4 DEF TotalAgrees
  <2>5. CASE o \notin T
    BY <1>0, <2>1, <2>2, <2>3, <2>5 DEF TotalAgrees
  <2> QED
    BY <2>4, <2>5
<1> QED
  BY <1>0, <1>1, <1>2, <1>3, <1>4, <1>5 DEF Sound, a

\* An order is written, its totals computed from its lines and from what was
\* paid, and what is fulfilled taken over: from nothing when it is new.
LEMMA OrderPut ==
  ASSUME NEW d, NEW unsure, NEW home, Sound(d, unsure, home),
         NEW o \in Documents, NEW row \in OrderRow,
         GrandAgrees(row), row.outstanding = Minus(row.grand, row.paid),
         row.paid = IF o \in DOMAIN d.orders THEN d.orders[o].paid ELSE 0,
         \A l \in DOMAIN row.lines : row.lines[l].fulfilled =
           IF o \in DOMAIN d.orders
           THEN IF l \in DOMAIN d.orders[o].lines
                THEN d.orders[o].lines[l].fulfilled ELSE 0
           ELSE 0,
         \A s \in ShipmentsOf(d, o) : DOMAIN d.shipments[s].items \subseteq DOMAIN row.lines
  PROVE  Sound([d EXCEPT !.orders = Put(@, o, row)], unsure, home)
<1> DEFINE a == [d EXCEPT !.orders = Put(@, o, row)]
<1>0. d \in Database
  BY DEF Sound
<1>1. /\ a.quotes = d.quotes /\ a.shipments = d.shipments /\ a.payments = d.payments
      /\ a.orders = Put(d.orders, o, row)
      /\ a = [orders |-> a.orders, quotes |-> d.quotes, shipments |-> d.shipments,
              payments |-> d.payments]
  BY <1>0 DEF Database
<1> HIDE DEF a
<1>2. /\ a.orders \in PartialFunctions(Documents, OrderRow)
      /\ DOMAIN a.orders = DOMAIN d.orders \cup {o} /\ a.orders[o] = row
      /\ \A y \in DOMAIN d.orders : y # o => a.orders[y] = d.orders[y]
  <2>1. d.orders \in PartialFunctions(Documents, OrderRow)
    BY <1>0, Fields
  <2>2. Put(d.orders, o, row) \in PartialFunctions(Documents, OrderRow)
    BY <2>1, PutTyped
  <2> QED
    BY <2>2, <1>1 DEF Put, Over, Only
<1>3. a \in Database
  BY <1>0, <1>1, <1>2, Fields DEF Database
<1>4. Referenced(a)
  BY <1>1, <1>2 DEF Sound, Referenced, ShipmentsOf
<1>5. OwnAllocations(a) /\ AtHome(a, home)
  BY <1>1 DEF Sound, OwnAllocations, AtHome
<1>6. Fulfilled(a)
  <2> SUFFICES ASSUME NEW y \in DOMAIN a.orders, NEW l \in DOMAIN a.orders[y].lines
               PROVE  a.orders[y].lines[l].fulfilled = loadShippedTotals(a, y, l, {})
    BY DEF Fulfilled
  <2>1. loadShippedTotals(a, y, l, {}) = loadShippedTotals(d, y, l, {})
    BY <1>1, ShippedSame DEF ShipmentsOf
  <2>2. CASE y # o
    BY <1>2, <2>1, <2>2 DEF Sound, Fulfilled
  <2>3. CASE y = o /\ o \in DOMAIN d.orders /\ l \in DOMAIN d.orders[o].lines
    BY <1>2, <2>1, <2>3 DEF Sound, Fulfilled
  <2>4. CASE y = o /\ ~ (o \in DOMAIN d.orders /\ l \in DOMAIN d.orders[o].lines)
    <3>1. \A s \in ShipmentsOf(d, o) : l \notin DOMAIN d.shipments[s].items
      BY <2>4 DEF Sound, Referenced, ShipmentsOf
    <3>2. loadShippedTotals(d, o, l, {}) = 0
      BY <3>1, <1>0, ShippedNumber
    <3> QED
      BY <1>2, <2>1, <2>4, <3>2
  <2> QED
    BY <2>2, <2>3, <2>4
<1>7. Totals(a, unsure)
  <2> SUFFICES ASSUME NEW y \in DOMAIN a.orders \ unsure PROVE TotalAgrees(a, y)
    BY DEF Totals
  <2>1. PaidTotal(a, y) = PaidTotal(d, y)
    BY <1>1, PaidSame DEF PaymentsOf, AllocatedTo
  <2>2. CASE y # o
    BY <1>2, <2>1, <2>2 DEF Sound, Totals, TotalAgrees
  <2>3. CASE y = o /\ o \in DOMAIN d.orders
    BY <1>2, <2>1, <2>3 DEF Sound, Totals, TotalAgrees
  <2>4. CASE y = o /\ o \notin DOMAIN d.orders
    <3>1. PaymentsOf(d, o) = {} /\ AllocatedTo(d, o) = {}
      <4>1. o # NoOrder
        BY SalesAssumption
      <4> QED
        BY <2>4, <4>1 DEF Sound, Referenced, OrdersOf, PaymentsOf, AllocatedTo
    <3>2. PaidTotal(d, o) = 0
      BY <3>1, <1>0, PaidNumber
    <3> QED
      BY <1>2, <2>1, <2>4, <3>2 DEF TotalAgrees
  <2> QED
    BY <2>2, <2>3, <2>4
<1> QED
  BY <1>3, <1>4, <1>5, <1>6, <1>7 DEF Sound, a

\* Only quotes have changed.
LEMMA QuotesChange ==
  ASSUME NEW d, NEW unsure, NEW home, Sound(d, unsure, home),
         NEW quotes \in PartialFunctions(Documents, QuoteRow)
  PROVE  Sound([d EXCEPT !.quotes = quotes], unsure, home)
<1> DEFINE a == [d EXCEPT !.quotes = quotes]
<1>1. d \in Database
  BY DEF Sound
<1>2. /\ a.orders = d.orders /\ a.shipments = d.shipments /\ a.payments = d.payments
      /\ a \in Database
  BY <1>1 DEF Database
<1> HIDE DEF a
<1>3. Referenced(a) /\ OwnAllocations(a) /\ AtHome(a, home)
  BY <1>2 DEF Sound, Referenced, OwnAllocations, AtHome
<1>4. Fulfilled(a)
  <2>1. \A o, l : loadShippedTotals(a, o, l, {}) = loadShippedTotals(d, o, l, {})
    BY <1>2 DEF loadShippedTotals, ShipmentsOf, ShippedBy
  <2> QED
    BY <1>2, <2>1 DEF Sound, Fulfilled
<1>5. Totals(a, unsure)
  <2>1. \A o : PaidTotal(a, o) = PaidTotal(d, o)
    BY <1>2 DEF PaidTotal, PaymentsOf, AllocatedTo
  <2> QED
    BY <1>2, <2>1 DEF Sound, Totals, TotalAgrees
<1> QED
  BY <1>2, <1>3, <1>4, <1>5 DEF Sound, a

\* Fewer orders are sure, or more shipments have a home.
LEMMA SoundWeaker ==
  ASSUME NEW d, NEW unsure, NEW home, Sound(d, unsure, home),
         NEW more, unsure \subseteq more, NEW newHome,
         \A s \in DOMAIN home : s \in DOMAIN newHome /\ newHome[s] = home[s]
  PROVE  Sound(d, more, newHome)
BY DEF Sound, Totals, AtHome

\* What is left when the shipments and payments of an order are deleted.
LEMMA RecordsGone ==
  ASSUME NEW d \in Database, OwnAllocations(d), NEW o \in Documents
  PROVE  LET e == withoutRecords(d, o) IN
         /\ e \in Database /\ e.orders = d.orders /\ e.quotes = d.quotes
         /\ DOMAIN e.shipments = DOMAIN d.shipments \ ShipmentsOf(d, o)
         /\ \A s \in DOMAIN e.shipments : e.shipments[s] = d.shipments[s]
         /\ DOMAIN e.payments = DOMAIN d.payments \ PaymentsOf(d, o)
         /\ \A p \in DOMAIN e.payments : e.payments[p] = d.payments[p]
<1> DEFINE ships == Without(d.shipments, ShipmentsOf(d, o))
           cut == [p \in DOMAIN d.payments |->
                     [d.payments[p] EXCEPT !.allocations = Without(@, {o})]]
           pays == Without(cut, PaymentsOf(d, o))
           e == withoutRecords(d, o)
<1>1. e = [orders |-> d.orders, quotes |-> d.quotes, shipments |-> ships, payments |-> pays]
  <2> DEFINE w == withoutShipmentsAndAllocations(d, o)
  <2>1. w = [d EXCEPT !.shipments = ships, !.payments = cut]
    BY DEF withoutShipmentsAndAllocations
  <2>2. e = [w EXCEPT !.payments = Without(w.payments, PaymentsOf(d, o))]
    BY DEF withoutRecords
  <2> HIDE DEF ships, cut, w, e
  <2>3. w = [orders |-> d.orders, quotes |-> d.quotes, shipments |-> ships, payments |-> cut]
    BY <2>1 DEF Database
  <2> QED
    BY <2>2, <2>3
<1> HIDE DEF e
<1>2. /\ ships \in PartialFunctions(Shipments, ShipmentRow)
      /\ DOMAIN ships = DOMAIN d.shipments \ ShipmentsOf(d, o)
      /\ \A s \in DOMAIN ships : ships[s] = d.shipments[s]
  <2>1. d.shipments \in PartialFunctions(Shipments, ShipmentRow)
    BY Fields
  <2>2. ships \in PartialFunctions(Shipments, ShipmentRow)
    BY <2>1, WithoutTyped
  <2> QED
    BY <2>2 DEF Without, Restrict
<1>3. ASSUME NEW p \in DOMAIN d.payments
      PROVE  /\ cut[p] \in PaymentRow
             /\ p \notin PaymentsOf(d, o) => cut[p] = d.payments[p]
  <2> DEFINE f == d.payments[p].allocations
  <2>1. d.payments[p] \in PaymentRow
    BY RowsTyped
  <2>2. f \in PartialFunctions(Documents, Quantity)
    BY <2>1 DEF PaymentRow
  <2>3. Without(f, {o}) \in PartialFunctions(Documents, Quantity)
    BY <2>2, WithoutTyped
  <2>4. cut[p] \in PaymentRow
    BY <2>1, <2>3 DEF PaymentRow
  <2>5. ASSUME p \notin PaymentsOf(d, o) PROVE cut[p] = d.payments[p]
    <3>1. o \notin DOMAIN f
      BY <2>5 DEF OwnAllocations, OwnAllocation, PaymentsOf
    <3>2. f = [x \in DOMAIN f |-> f[x]]
      BY <2>2, PartialIs
    <3>3. Without(f, {o}) = f
      BY <3>1, <3>2 DEF Without, Restrict
    <3> QED
      BY <2>1, <3>3 DEF PaymentRow
  <2> QED
    BY <2>4, <2>5
<1>4. cut \in PartialFunctions(Payments, PaymentRow)
  <2>1. DOMAIN cut \subseteq Payments /\ cut = [p \in DOMAIN cut |-> cut[p]]
    BY RowsTyped
  <2>2. \A p \in DOMAIN cut : cut[p] \in PaymentRow
    BY <1>3
  <2> HIDE DEF cut
  <2> QED
    BY <2>1, <2>2, PartialIs
<1>5. DOMAIN cut = DOMAIN d.payments
  OBVIOUS
<1> HIDE DEF cut
<1>6. /\ pays \in PartialFunctions(Payments, PaymentRow)
      /\ DOMAIN pays = DOMAIN d.payments \ PaymentsOf(d, o)
      /\ \A p \in DOMAIN pays : pays[p] = d.payments[p]
  <2>1. pays \in PartialFunctions(Payments, PaymentRow)
    BY <1>4, WithoutTyped
  <2>2. /\ DOMAIN pays = DOMAIN d.payments \ PaymentsOf(d, o)
        /\ \A p \in DOMAIN pays : pays[p] = cut[p]
    BY <1>5 DEF Without, Restrict
  <2> QED
    BY <2>1, <2>2, <1>3
<1> HIDE DEF ships, pays
<1>7. e \in Database
  BY <1>1, <1>2, <1>6, Fields DEF Database
<1> QED
  BY <1>1, <1>2, <1>6, <1>7 DEF e

\* An order is deleted with its shipments and payments.
LEMMA OrderGone ==
  ASSUME NEW d, NEW unsure, NEW home, Sound(d, unsure, home), NEW o \in Documents
  PROVE  Sound([withoutRecords(d, o) EXCEPT !.orders = Without(@, {o})], unsure, home)
<1> DEFINE e == withoutRecords(d, o)
           a == [e EXCEPT !.orders = Without(@, {o})]
<1>0. d \in Database /\ OwnAllocations(d)
  BY DEF Sound
<1>1. /\ e \in Database /\ e.orders = d.orders
      /\ DOMAIN e.shipments = DOMAIN d.shipments \ ShipmentsOf(d, o)
      /\ \A s \in DOMAIN e.shipments : e.shipments[s] = d.shipments[s]
      /\ DOMAIN e.payments = DOMAIN d.payments \ PaymentsOf(d, o)
      /\ \A p \in DOMAIN e.payments : e.payments[p] = d.payments[p]
  BY <1>0, RecordsGone
<1> HIDE DEF e
<1>2. /\ a.shipments = e.shipments /\ a.payments = e.payments
      /\ a.orders = Without(d.orders, {o})
      /\ a = [orders |-> a.orders, quotes |-> e.quotes, shipments |-> e.shipments,
              payments |-> e.payments]
  BY <1>1 DEF Database
<1> HIDE DEF a
<1>3. /\ a.orders \in PartialFunctions(Documents, OrderRow)
      /\ DOMAIN a.orders = DOMAIN d.orders \ {o}
      /\ \A y \in DOMAIN a.orders : a.orders[y] = d.orders[y]
  <2>1. d.orders \in PartialFunctions(Documents, OrderRow)
    BY <1>0, Fields
  <2>2. a.orders \in PartialFunctions(Documents, OrderRow)
    BY <2>1, <1>2, WithoutTyped
  <2> QED
    BY <2>2, <1>2 DEF Without, Restrict
<1>4. a \in Database
  BY <1>1, <1>2, <1>3, Fields DEF Database
<1>5. Referenced(a)
  <2>1. ASSUME NEW s \in DOMAIN a.shipments
        PROVE  /\ a.shipments[s].order \in DOMAIN a.orders
               /\ DOMAIN a.shipments[s].items \subseteq
                    DOMAIN a.orders[a.shipments[s].order].lines
    <3>1. s \in DOMAIN d.shipments /\ a.shipments[s] = d.shipments[s] /\ d.shipments[s].order # o
      BY <1>1, <1>2 DEF ShipmentsOf
    <3>2. /\ d.shipments[s].order \in DOMAIN d.orders
          /\ DOMAIN d.shipments[s].items \subseteq DOMAIN d.orders[d.shipments[s].order].lines
      BY <3>1 DEF Sound, Referenced
    <3> QED
      BY <3>1, <3>2, <1>3
  <2>2. ASSUME NEW p \in DOMAIN a.payments
        PROVE  OrdersOf(a.payments[p]) \subseteq DOMAIN a.orders
    <3>1. p \in DOMAIN d.payments /\ a.payments[p] = d.payments[p] /\ d.payments[p].order # o
      BY <1>1, <1>2 DEF PaymentsOf
    <3>2. OrdersOf(d.payments[p]) \subseteq DOMAIN d.orders /\ o \notin OrdersOf(d.payments[p])
      BY <3>1 DEF Sound, Referenced, OwnAllocations, OwnAllocation, OrdersOf
    <3> QED
      BY <3>1, <3>2, <1>3
  <2> QED
    BY <2>1, <2>2 DEF Referenced
<1>6. OwnAllocations(a) /\ AtHome(a, home)
  BY <1>1, <1>2 DEF Sound, OwnAllocations, AtHome
<1>7. Fulfilled(a)
  <2> SUFFICES ASSUME NEW y \in DOMAIN a.orders, NEW l \in DOMAIN a.orders[y].lines
               PROVE  a.orders[y].lines[l].fulfilled = loadShippedTotals(a, y, l, {})
    BY DEF Fulfilled
  <2>1. ShipmentsOf(a, y) = ShipmentsOf(d, y)
        /\ \A s \in ShipmentsOf(a, y) : a.shipments[s].items = d.shipments[s].items
    BY <1>1, <1>2, <1>3 DEF ShipmentsOf
  <2>2. loadShippedTotals(a, y, l, {}) = loadShippedTotals(d, y, l, {})
    BY <2>1, ShippedSame
  <2> QED
    BY <1>3, <2>2 DEF Sound, Fulfilled
<1>8. Totals(a, unsure)
  <2> SUFFICES ASSUME NEW y \in DOMAIN a.orders \ unsure PROVE TotalAgrees(a, y)
    BY DEF Totals
  <2>1. PaymentsOf(a, y) = PaymentsOf(d, y)
    BY <1>1, <1>2, <1>3 DEF PaymentsOf
  <2>2. AllocatedTo(a, y) = AllocatedTo(d, y)
    BY <1>1, <1>2, <1>3 DEF Sound, OwnAllocations, OwnAllocation, AllocatedTo, PaymentsOf
  <2>3. PaidTotal(a, y) = PaidTotal(d, y)
    <3>1. \A p \in PaymentsOf(a, y) \cup AllocatedTo(a, y) : a.payments[p] = d.payments[p]
      BY <1>1, <1>2 DEF PaymentsOf, AllocatedTo
    <3> QED
      BY <2>1, <2>2, <3>1, PaidSame
  <2> QED
    BY <1>3, <2>3 DEF Sound, Totals, TotalAgrees
<1> QED
  BY <1>4, <1>5, <1>6, <1>7, <1>8 DEF Sound, a, e

\* No order's payments are allocated elsewhere.
LEMMA NeverAllocatedElsewhere ==
  ASSUME NEW d, OwnAllocations(d), NEW o PROVE ~ RemainsAllocated(d, o)
BY DEF RemainsAllocated, OwnAllocations, OwnAllocation, PaymentsOf

\* The rows an order's snapshot holds, as a database.
RowsOf(snapshot) ==
  [orders |-> Only(snapshot.id, snapshot.row), quotes |-> NoRows,
   shipments |-> snapshot.shipments, payments |-> snapshot.payments]

\* What a snapshot holds when it is taken of a sound database.
LEMMA SnapshotSound ==
  ASSUME NEW d, NEW unsure, NEW home, Sound(d, unsure, home), NEW o \in DOMAIN d.orders
  PROVE  Sound(RowsOf(loadOrderSnapshot(d, o)), unsure, home)
<1> DEFINE a == RowsOf(loadOrderSnapshot(d, o))
<1>0. d \in Database /\ o \in Documents /\ d.orders[o] \in OrderRow /\ o # NoOrder
  BY RowsTyped, SalesAssumption DEF Sound
<1>1. a = [orders |-> Only(o, d.orders[o]), quotes |-> NoRows,
           shipments |-> Restrict(d.shipments, ShipmentsOf(d, o)),
           payments |-> Restrict(d.payments, PaymentsOf(d, o))]
  BY DEF RowsOf, loadOrderSnapshot
<1> HIDE DEF a
<1>2. /\ DOMAIN a.orders = {o} /\ a.orders[o] = d.orders[o]
      /\ DOMAIN a.shipments = ShipmentsOf(d, o)
      /\ \A s \in DOMAIN a.shipments : s \in DOMAIN d.shipments /\ a.shipments[s] = d.shipments[s]
      /\ DOMAIN a.payments = PaymentsOf(d, o)
      /\ \A p \in DOMAIN a.payments : p \in DOMAIN d.payments /\ a.payments[p] = d.payments[p]
  BY <1>1 DEF Only, Restrict, ShipmentsOf, PaymentsOf
<1>3. a \in Database
  <2>1. a.orders \in PartialFunctions(Documents, OrderRow)
    BY <1>0, <1>1, OnlyTyped
  <2>2. d.shipments \in PartialFunctions(Shipments, ShipmentRow)
        /\ ShipmentsOf(d, o) \subseteq DOMAIN d.shipments
    BY <1>0, Fields DEF ShipmentsOf
  <2>3. a.shipments \in PartialFunctions(Shipments, ShipmentRow)
    BY <1>1, <2>2, RestrictTyped
  <2>4. d.payments \in PartialFunctions(Payments, PaymentRow)
        /\ PaymentsOf(d, o) \subseteq DOMAIN d.payments
    BY <1>0, Fields DEF PaymentsOf
  <2>5. a.payments \in PartialFunctions(Payments, PaymentRow)
    BY <1>1, <2>4, RestrictTyped
  <2>6. a.quotes \in PartialFunctions(Documents, QuoteRow)
    BY <1>1, NoRowsPartial
  <2>7. a = [orders |-> a.orders, quotes |-> a.quotes, shipments |-> a.shipments,
             payments |-> a.payments]
    BY <1>1
  <2> QED
    BY <2>1, <2>3, <2>5, <2>6, <2>7 DEF Database
<1>4. Referenced(a)
  <2>1. ASSUME NEW s \in DOMAIN a.shipments
        PROVE  /\ a.shipments[s].order \in DOMAIN a.orders
               /\ DOMAIN a.shipments[s].items \subseteq
                    DOMAIN a.orders[a.shipments[s].order].lines
    BY <1>2 DEF Sound, Referenced, ShipmentsOf
  <2>2. ASSUME NEW p \in DOMAIN a.payments
        PROVE  OrdersOf(a.payments[p]) \subseteq DOMAIN a.orders
    BY <1>2 DEF Sound, OwnAllocations, OwnAllocation, PaymentsOf, OrdersOf
  <2> QED
    BY <2>1, <2>2 DEF Referenced
<1>5. OwnAllocations(a) /\ AtHome(a, home)
  BY <1>2 DEF Sound, OwnAllocations, AtHome
<1>6. Fulfilled(a)
  <2> SUFFICES ASSUME NEW l \in DOMAIN a.orders[o].lines
               PROVE  a.orders[o].lines[l].fulfilled = loadShippedTotals(a, o, l, {})
    BY <1>2 DEF Fulfilled
  <2>1. ShipmentsOf(a, o) = ShipmentsOf(d, o)
        /\ \A s \in ShipmentsOf(a, o) : a.shipments[s].items = d.shipments[s].items
    BY <1>2 DEF ShipmentsOf
  <2>2. loadShippedTotals(a, o, l, {}) = loadShippedTotals(d, o, l, {})
    BY <2>1, ShippedSame
  <2> QED
    BY <1>2, <2>2 DEF Sound, Fulfilled
<1>7. Totals(a, unsure)
  <2> SUFFICES ASSUME o \notin unsure PROVE TotalAgrees(a, o)
    BY <1>2 DEF Totals
  <2>1. PaymentsOf(a, o) = PaymentsOf(d, o)
    BY <1>2 DEF PaymentsOf
  <2>2. AllocatedTo(a, o) = AllocatedTo(d, o)
    BY <1>2 DEF Sound, OwnAllocations, OwnAllocation, AllocatedTo, PaymentsOf
  <2>3. PaidTotal(a, o) = PaidTotal(d, o)
    <3>1. \A p \in PaymentsOf(a, o) \cup AllocatedTo(a, o) : a.payments[p] = d.payments[p]
      BY <1>2 DEF PaymentsOf, AllocatedTo
    <3> QED
      BY <2>1, <2>2, <3>1, PaidSame
  <2> QED
    BY <1>2, <2>3 DEF Sound, Totals, TotalAgrees
<1> QED
  BY <1>3, <1>4, <1>5, <1>6, <1>7 DEF Sound, a

\* A snapshot is restored: the order, its shipments and its payments come
\* back in place of what there is; payments of other orders may be overwritten.
LEMMA OrderRestored ==
  ASSUME NEW d, NEW unsure, NEW home, Sound(d, unsure, home),
         NEW snapshot, Sound(RowsOf(snapshot), unsure, home), NEW left,
         \A y \in DOMAIN d.orders \ left : y # snapshot.id =>
           PaidTotal(restoreOrderGraph(d, snapshot).db, y) = PaidTotal(d, y)
  PROVE  /\ restoreOrderGraph(d, snapshot).done
         /\ restoreOrderGraph(d, snapshot).touched = {}
         /\ Sound(restoreOrderGraph(d, snapshot).db, unsure \cup left, home)
<1> DEFINE o == snapshot.id
           k == RowsOf(snapshot)
           e == withoutRecords(d, o)
           r == restoreOrderGraph(d, snapshot).db
<1>0. d \in Database /\ OwnAllocations(d) /\ k \in Database
  BY DEF Sound
<1>1. /\ k.orders = Only(o, snapshot.row) /\ k.shipments = snapshot.shipments
      /\ k.payments = snapshot.payments
      /\ DOMAIN k.orders = {o} /\ k.orders[o] = snapshot.row
  BY DEF RowsOf, Only
<1>2. o \in Documents /\ snapshot.row \in OrderRow /\ o # NoOrder
  BY <1>0, <1>1, RowsTyped, SalesAssumption
<1>3. /\ e \in Database /\ e.orders = d.orders
      /\ DOMAIN e.shipments = DOMAIN d.shipments \ ShipmentsOf(d, o)
      /\ \A s \in DOMAIN e.shipments : e.shipments[s] = d.shipments[s]
      /\ DOMAIN e.payments = DOMAIN d.payments \ PaymentsOf(d, o)
      /\ \A p \in DOMAIN e.payments : e.payments[p] = d.payments[p]
  BY <1>0, <1>2, RecordsGone
<1>4. /\ restoreOrderGraph(d, snapshot) =
           Done([e EXCEPT !.orders = Put(@, snapshot.id, snapshot.row),
                          !.shipments = Over(snapshot.shipments, @),
                          !.payments = Over(snapshot.payments, @)], {})
  BY <1>0, NeverAllocatedElsewhere DEF restoreOrderGraph
<1>5. restoreOrderGraph(d, snapshot).done /\ restoreOrderGraph(d, snapshot).touched = {}
  BY <1>4 DEF Done
<1>6. r = [e EXCEPT !.orders = Put(@, snapshot.id, snapshot.row),
                    !.shipments = Over(snapshot.shipments, @),
                    !.payments = Over(snapshot.payments, @)]
  BY <1>4 DEF Done
<1> HIDE DEF e, r, k
<1>7. r = [orders |-> Put(d.orders, o, snapshot.row), quotes |-> e.quotes,
           shipments |-> Over(k.shipments, e.shipments),
           payments |-> Over(k.payments, e.payments)]
  BY <1>1, <1>3, <1>6 DEF Database
<1>8. r \in Database
  <2>1. r.orders \in PartialFunctions(Documents, OrderRow)
    <3>1. d.orders \in PartialFunctions(Documents, OrderRow)
      BY <1>0, Fields
    <3> QED
      BY <3>1, <1>2, <1>7, PutTyped
  <2>2. r.shipments \in PartialFunctions(Shipments, ShipmentRow)
    <3>1. /\ k.shipments \in PartialFunctions(Shipments, ShipmentRow)
          /\ e.shipments \in PartialFunctions(Shipments, ShipmentRow)
      BY <1>0, <1>3, Fields
    <3> QED
      BY <3>1, <1>7, OverTyped
  <2>3. r.payments \in PartialFunctions(Payments, PaymentRow)
    <3>1. /\ k.payments \in PartialFunctions(Payments, PaymentRow)
          /\ e.payments \in PartialFunctions(Payments, PaymentRow)
      BY <1>0, <1>3, Fields
    <3> QED
      BY <3>1, <1>7, OverTyped
  <2>4. e.quotes \in PartialFunctions(Documents, QuoteRow)
    BY <1>3, Fields
  <2> QED
    BY <2>1, <2>2, <2>3, <2>4, <1>7 DEF Database
<1>9. /\ DOMAIN r.orders = DOMAIN d.orders \cup {o} /\ r.orders[o] = k.orders[o]
      /\ \A y \in DOMAIN d.orders : y # o => r.orders[y] = d.orders[y]
  BY <1>1, <1>7 DEF Put, Over, Only
<1>10. /\ DOMAIN r.shipments = DOMAIN e.shipments \cup DOMAIN k.shipments
       /\ \A s \in DOMAIN k.shipments : r.shipments[s] = k.shipments[s]
       /\ \A s \in DOMAIN e.shipments : s \notin DOMAIN k.shipments =>
            r.shipments[s] = e.shipments[s]
  BY <1>7 DEF Over
<1>11. /\ DOMAIN r.payments = DOMAIN e.payments \cup DOMAIN k.payments
       /\ \A p \in DOMAIN k.payments : r.payments[p] = k.payments[p]
       /\ \A p \in DOMAIN e.payments : p \notin DOMAIN k.payments =>
            r.payments[p] = e.payments[p]
  BY <1>7 DEF Over
\* The restored shipments are the order's, and the order's alone are restored.
<1>12. /\ \A s \in DOMAIN k.shipments : k.shipments[s].order = o /\ home[s] = o
       /\ \A s \in DOMAIN e.shipments : /\ s \in DOMAIN d.shipments
                                        /\ e.shipments[s] = d.shipments[s]
                                        /\ d.shipments[s].order # o
                                        /\ s \notin DOMAIN k.shipments
  <2>1. \A s \in DOMAIN k.shipments : k.shipments[s].order = o /\ home[s] = o
    BY <1>1 DEF Sound, Referenced, AtHome, k
  <2>2. \A s \in DOMAIN d.shipments : d.shipments[s].order = home[s]
    BY DEF Sound, AtHome
  <2> QED
    BY <2>1, <2>2, <1>3 DEF ShipmentsOf
\* So are the restored payments.
<1>13. /\ \A p \in DOMAIN k.payments : OrdersOf(k.payments[p]) \subseteq {o}
       /\ \A p \in DOMAIN e.payments : /\ p \in DOMAIN d.payments
                                       /\ e.payments[p] = d.payments[p]
                                       /\ d.payments[p].order # o
                                       /\ o \notin DOMAIN d.payments[p].allocations
  <2>1. \A p \in DOMAIN k.payments : OrdersOf(k.payments[p]) \subseteq {o}
    BY <1>1 DEF Sound, Referenced, k
  <2> QED
    BY <2>1, <1>3 DEF PaymentsOf, Sound, OwnAllocations, OwnAllocation
<1>14. Referenced(r)
  <2>1. ASSUME NEW s \in DOMAIN r.shipments
        PROVE  /\ r.shipments[s].order \in DOMAIN r.orders
               /\ DOMAIN r.shipments[s].items \subseteq
                    DOMAIN r.orders[r.shipments[s].order].lines
    <3>1. CASE s \in DOMAIN k.shipments
      <4>1. DOMAIN k.shipments[s].items \subseteq DOMAIN k.orders[o].lines
        BY <3>1, <1>12 DEF Sound, Referenced, k
      <4> QED
        BY <3>1, <4>1, <1>9, <1>10, <1>12
    <3>2. CASE s \notin DOMAIN k.shipments
      <4>1. /\ d.shipments[s].order \in DOMAIN d.orders
            /\ DOMAIN d.shipments[s].items \subseteq DOMAIN d.orders[d.shipments[s].order].lines
        BY <3>2, <1>10, <1>12 DEF Sound, Referenced
      <4> QED
        BY <3>2, <4>1, <1>9, <1>10, <1>12
    <3> QED
      BY <3>1, <3>2
  <2>2. ASSUME NEW p \in DOMAIN r.payments
        PROVE  OrdersOf(r.payments[p]) \subseteq DOMAIN r.orders
    <3>1. CASE p \in DOMAIN k.payments
      BY <3>1, <1>9, <1>11, <1>13
    <3>2. CASE p \notin DOMAIN k.payments
      <4>1. p \in DOMAIN d.payments /\ r.payments[p] = d.payments[p]
        BY <3>2, <1>11, <1>13
      <4>2. OrdersOf(d.payments[p]) \subseteq DOMAIN d.orders
        BY <4>1 DEF Sound, Referenced
      <4> QED
        BY <4>1, <4>2, <1>9
    <3> QED
      BY <3>1, <3>2
  <2> QED
    BY <2>1, <2>2 DEF Referenced
<1>15. OwnAllocations(r)
  BY <1>11, <1>13 DEF Sound, OwnAllocations, k
<1>16. AtHome(r, home)
  BY <1>10, <1>12 DEF Sound, AtHome, k
<1>17. Fulfilled(r)
  <2> SUFFICES ASSUME NEW y \in DOMAIN r.orders, NEW l \in DOMAIN r.orders[y].lines
               PROVE  r.orders[y].lines[l].fulfilled = loadShippedTotals(r, y, l, {})
    BY DEF Fulfilled
  <2>1. CASE y = o
    <3>1. ShipmentsOf(r, o) = ShipmentsOf(k, o)
          /\ \A s \in ShipmentsOf(r, o) : r.shipments[s].items = k.shipments[s].items
      BY <1>10, <1>12 DEF ShipmentsOf
    <3>2. loadShippedTotals(r, o, l, {}) = loadShippedTotals(k, o, l, {})
      BY <3>1, ShippedSame
    <3>3. k.orders[o].lines[l].fulfilled = loadShippedTotals(k, o, l, {})
      BY <2>1, <1>1, <1>9 DEF Sound, Fulfilled, k
    <3> QED
      BY <2>1, <3>2, <3>3, <1>9
  <2>2. CASE y # o
    <3>1. ShipmentsOf(r, y) = ShipmentsOf(d, y)
          /\ \A s \in ShipmentsOf(r, y) : r.shipments[s].items = d.shipments[s].items
      BY <2>2, <1>3, <1>10, <1>12 DEF ShipmentsOf
    <3>2. loadShippedTotals(r, y, l, {}) = loadShippedTotals(d, y, l, {})
      BY <3>1, ShippedSame
    <3> QED
      BY <2>2, <3>2, <1>9 DEF Sound, Fulfilled
  <2> QED
    BY <2>1, <2>2
<1>18. Totals(r, unsure \cup left)
  <2> SUFFICES ASSUME NEW y \in DOMAIN r.orders \ (unsure \cup left) PROVE TotalAgrees(r, y)
    BY DEF Totals
  <2>1. CASE y = o
    <3>1. PaymentsOf(r, o) = PaymentsOf(k, o)
      BY <1>11, <1>13 DEF PaymentsOf
    <3>2. AllocatedTo(r, o) = AllocatedTo(k, o)
      BY <1>11, <1>13 DEF AllocatedTo
    <3>3. \A p \in PaymentsOf(r, o) \cup AllocatedTo(r, o) : r.payments[p] = k.payments[p]
      BY <3>1, <3>2, <1>11 DEF PaymentsOf, AllocatedTo
    <3>4. PaidTotal(r, o) = PaidTotal(k, o)
      BY <3>1, <3>2, <3>3, PaidSame
    <3>5. TotalAgrees(k, o)
      BY <2>1, <1>1 DEF Sound, Totals, k
    <3> QED
      BY <2>1, <3>4, <3>5, <1>9 DEF TotalAgrees
  <2>2. CASE y # o
    <3>1. PaidTotal(r, y) = PaidTotal(d, y)
      BY <2>2, <1>9 DEF r
    <3> QED
      BY <2>2, <3>1, <1>9 DEF Sound, Totals, TotalAgrees
  <2> QED
    BY <2>1, <2>2
<1> QED
  BY <1>5, <1>8, <1>14, <1>15, <1>16, <1>17, <1>18 DEF Sound, r

\* The creation of an order is undone: its payments stay, without an order.
\* An order with shipments only loses its adjustment before the handler throws.
LEMMA OrderUncreated ==
  ASSUME NEW d, NEW unsure, NEW home, Sound(d, unsure, home),
         NEW after, after.id \in Documents
  PROVE  LET out == undoCreateOrder(d, after)
         IN /\ out.touched = {}
            /\ out.done => Sound(out.db, unsure, home)
            /\ ~ out.done => Sound(out.db, unsure \cup {after.id}, home)
<1> DEFINE o == after.id
           out == undoCreateOrder(d, after)
<1>0. d \in Database /\ o \in Documents /\ o # NoOrder
  BY SalesAssumption DEF Sound
<1>1. CASE o \notin DOMAIN d.orders
  <2>1. out = Done(d, {})
    BY <1>1 DEF undoCreateOrder
  <2> QED
    BY <2>1 DEF Done
<1>2. CASE o \in DOMAIN d.orders /\ ShipmentsOf(d, o) # {}
  <2> DEFINE a == [d EXCEPT !.orders[o].discount = 0]
  <2>1. out = Rejected(a)
    BY <1>2 DEF undoCreateOrder
  <2>2. out.touched = {} /\ ~ out.done /\ out.db = a
    BY <2>1 DEF Rejected
  <2>3. /\ a.quotes = d.quotes /\ a.shipments = d.shipments /\ a.payments = d.payments
        /\ a.orders = [d.orders EXCEPT ![o].discount = 0]
        /\ a = [orders |-> a.orders, quotes |-> a.quotes, shipments |-> a.shipments,
                payments |-> a.payments]
    BY <1>0 DEF Database
  <2> HIDE DEF a
  <2>4. d.orders[o] \in OrderRow /\ DOMAIN d.orders \subseteq Documents
        /\ d.orders = [y \in DOMAIN d.orders |-> d.orders[y]]
        /\ \A y \in DOMAIN d.orders : d.orders[y] \in OrderRow
    BY <1>0, <1>2, Fields, PartialIs
  <2>5. PICK row : row = [d.orders[o] EXCEPT !.discount = 0]
    OBVIOUS
  <2>6. row \in OrderRow /\ row.lines = d.orders[o].lines
    BY <2>4, <2>5 DEF OrderRow
  <2>7. /\ DOMAIN a.orders = DOMAIN d.orders /\ a.orders[o] = row
        /\ \A y \in DOMAIN d.orders : y # o => a.orders[y] = d.orders[y]
        /\ a.orders = [y \in DOMAIN a.orders |-> a.orders[y]]
    BY <1>2, <2>3, <2>4, <2>5
  <2>8. a.orders \in PartialFunctions(Documents, OrderRow)
    <3>1. \A y \in DOMAIN a.orders : a.orders[y] \in OrderRow
      BY <2>4, <2>6, <2>7
    <3> QED
      BY <3>1, <2>4, <2>7, PartialIs
  <2>9. a \in Database
    BY <1>0, <2>3, <2>8, Fields DEF Database
  <2>10. Referenced(a)
    BY <2>3, <2>6, <2>7 DEF Sound, Referenced
  <2>11. OwnAllocations(a) /\ AtHome(a, home)
    BY <2>3 DEF Sound, OwnAllocations, AtHome
  <2>12. Fulfilled(a)
    <3>1. \A y, l : loadShippedTotals(a, y, l, {}) = loadShippedTotals(d, y, l, {})
      BY <2>3 DEF loadShippedTotals, ShipmentsOf, ShippedBy
    <3> QED
      BY <2>6, <2>7, <3>1 DEF Sound, Fulfilled
  <2>13. Totals(a, unsure \cup {o})
    <3>1. \A y : PaidTotal(a, y) = PaidTotal(d, y)
      BY <2>3 DEF PaidTotal, PaymentsOf, AllocatedTo
    <3> QED
      BY <2>7, <3>1 DEF Sound, Totals, TotalAgrees
  <2> QED
    BY <2>2, <2>9, <2>10, <2>11, <2>12, <2>13 DEF Sound
<1>3. CASE o \in DOMAIN d.orders /\ ShipmentsOf(d, o) = {}
  <2> DEFINE cut == [p \in DOMAIN d.payments |->
                       [d.payments[p] EXCEPT !.order = IF @ = o THEN NoOrder ELSE @,
                                             !.allocations = Without(@, {o})]]
             a == [d EXCEPT !.orders = Without(@, {o}), !.payments = cut]
  <2>1. out = Done(a, {})
    BY <1>3 DEF undoCreateOrder
  <2>2. out.touched = {} /\ out.done /\ out.db = a
    BY <2>1 DEF Done
  <2>3. /\ a.quotes = d.quotes /\ a.shipments = d.shipments /\ a.payments = cut
        /\ a.orders = Without(d.orders, {o})
        /\ a = [orders |-> a.orders, quotes |-> a.quotes, shipments |-> a.shipments,
                payments |-> a.payments]
    <3> HIDE DEF cut
    <3>1. PICK w : w = Without(d.orders, {o})
      OBVIOUS
    <3>2. a = [d EXCEPT !.orders = w, !.payments = cut]
      BY <3>1
    <3> HIDE DEF a
    <3>3. a = [orders |-> w, quotes |-> d.quotes, shipments |-> d.shipments,
               payments |-> cut]
      BY <1>0, <3>2 DEF Database
    <3> QED
      BY <3>1, <3>3
  <2> HIDE DEF a
  <2>4. ASSUME NEW p \in DOMAIN d.payments
        PROVE  /\ cut[p] \in PaymentRow
               /\ d.payments[p].order # o => cut[p] = d.payments[p]
               /\ d.payments[p].order = o =>
                    cut[p].order = NoOrder /\ DOMAIN cut[p].allocations = {}
    <3> DEFINE f == d.payments[p].allocations
    <3>1. d.payments[p] \in PaymentRow /\ DOMAIN f \subseteq {d.payments[p].order}
      BY <1>0, RowsTyped DEF Sound, OwnAllocations, OwnAllocation
    <3>2. f \in PartialFunctions(Documents, Quantity)
      BY <3>1 DEF PaymentRow
    <3>3. PICK g : g = Without(f, {o})
      OBVIOUS
    <3>4. g \in PartialFunctions(Documents, Quantity)
      BY <3>2, <3>3, WithoutTyped
    <3>5. f = [x \in DOMAIN f |-> f[x]]
      BY <3>2, PartialIs
    <3>6. DOMAIN g = DOMAIN f \ {o} /\ (o \notin DOMAIN f => g = f)
      BY <3>3, <3>5 DEF Without, Restrict
    <3>7. cut[p] = [d.payments[p] EXCEPT !.order = IF @ = o THEN NoOrder ELSE @,
                                         !.allocations = g]
      BY <3>3
    <3> HIDE DEF cut
    <3>8. PICK old : old = d.payments[p]
      OBVIOUS
    <3>9. old \in PaymentRow
      BY <3>1, <3>8
    <3>10. cut[p] = [order |-> IF old.order = o THEN NoOrder ELSE old.order,
                     amount |-> old.amount, allocations |-> g]
      BY <3>7, <3>8, <3>9 DEF PaymentRow
    <3>11. cut[p] \in PaymentRow
      BY <3>4, <3>9, <3>10 DEF PaymentRow
    <3>12. old.order # o => cut[p] = old
      BY <3>1, <3>6, <3>8, <3>9, <3>10 DEF PaymentRow
    <3>13. old.order = o => cut[p].order = NoOrder /\ DOMAIN cut[p].allocations = {}
      <4>1. old.order = o => DOMAIN g = {}
        BY <3>1, <3>6, <3>8
      <4> QED
        BY <4>1, <3>10
    <3> QED
      BY <3>8, <3>11, <3>12, <3>13
  <2>5. DOMAIN cut = DOMAIN d.payments /\ cut = [p \in DOMAIN cut |-> cut[p]]
    OBVIOUS
  <2> HIDE DEF cut
  <2>6. cut \in PartialFunctions(Payments, PaymentRow)
    BY <1>0, <2>4, <2>5, RowsTyped, PartialIs
  <2>7. a.orders \in PartialFunctions(Documents, OrderRow)
    BY <1>0, <2>3, Fields, WithoutTyped
  <2>8. a \in Database
    BY <1>0, <2>3, <2>6, <2>7, Fields DEF Database
  <2>9. /\ DOMAIN a.orders = DOMAIN d.orders \ {o}
        /\ \A y \in DOMAIN a.orders : a.orders[y] = d.orders[y]
    BY <2>3 DEF Without, Restrict
  <2>10. Referenced(a)
    <3>1. ASSUME NEW s \in DOMAIN a.shipments
          PROVE  /\ a.shipments[s].order \in DOMAIN a.orders
                 /\ DOMAIN a.shipments[s].items \subseteq
                      DOMAIN a.orders[a.shipments[s].order].lines
      <4>1. s \in DOMAIN d.shipments /\ a.shipments[s] = d.shipments[s]
            /\ d.shipments[s].order # o
        BY <1>3, <2>3 DEF ShipmentsOf
      <4>2. /\ d.shipments[s].order \in DOMAIN d.orders
            /\ DOMAIN d.shipments[s].items \subseteq DOMAIN d.orders[d.shipments[s].order].lines
        BY <4>1 DEF Sound, Referenced
      <4> QED
        BY <4>1, <4>2, <2>9
    <3>2. ASSUME NEW p \in DOMAIN a.payments
          PROVE  OrdersOf(a.payments[p]) \subseteq DOMAIN a.orders
      <4>1. CASE d.payments[p].order = o
        BY <4>1, <2>3, <2>4, <2>5 DEF OrdersOf
      <4>2. CASE d.payments[p].order # o
        <5>1. p \in DOMAIN d.payments /\ a.payments[p] = d.payments[p]
          BY <4>2, <2>3, <2>4, <2>5
        <5>2. OrdersOf(d.payments[p]) \subseteq DOMAIN d.orders /\ o \notin OrdersOf(d.payments[p])
          BY <4>2, <5>1 DEF Sound, Referenced, OwnAllocations, OwnAllocation, OrdersOf
        <5> QED
          BY <5>1, <5>2, <2>9
      <4> QED
        BY <4>1, <4>2
    <3> QED
      BY <3>1, <3>2 DEF Referenced
  <2>11. OwnAllocations(a)
    BY <2>3, <2>4, <2>5 DEF Sound, OwnAllocations, OwnAllocation
  <2>12. AtHome(a, home)
    BY <2>3 DEF Sound, AtHome
  <2>13. Fulfilled(a)
    <3>1. \A y, l : loadShippedTotals(a, y, l, {}) = loadShippedTotals(d, y, l, {})
      BY <2>3 DEF loadShippedTotals, ShipmentsOf, ShippedBy
    <3> QED
      BY <2>9, <3>1 DEF Sound, Fulfilled
  <2>14. Totals(a, unsure)
    <3> SUFFICES ASSUME NEW y \in DOMAIN a.orders \ unsure PROVE TotalAgrees(a, y)
      BY DEF Totals
    <3>1. y \in DOMAIN d.orders /\ y # o /\ y # NoOrder /\ a.orders[y] = d.orders[y]
      BY <1>0, <2>9, RowsTyped, SalesAssumption
    <3>2. PaymentsOf(a, y) = PaymentsOf(d, y)
      BY <2>3, <2>4, <2>5, <3>1 DEF PaymentsOf
    <3>3. \A p \in DOMAIN d.payments : y \in DOMAIN d.payments[p].allocations
                                         => d.payments[p].order = y
      BY DEF Sound, OwnAllocations, OwnAllocation
    <3>4. AllocatedTo(a, y) = AllocatedTo(d, y)
      BY <2>3, <2>4, <2>5, <3>1, <3>3 DEF AllocatedTo
    <3>5. \A p \in PaymentsOf(a, y) \cup AllocatedTo(a, y) : a.payments[p] = d.payments[p]
      BY <2>3, <2>4, <2>5, <3>1, <3>2, <3>3, <3>4 DEF PaymentsOf, AllocatedTo
    <3>6. PaidTotal(a, y) = PaidTotal(d, y)
      BY <3>2, <3>4, <3>5, PaidSame
    <3> QED
      BY <3>1, <3>6 DEF Sound, Totals, TotalAgrees
  <2> QED
    BY <2>2, <2>8, <2>10, <2>11, <2>12, <2>13, <2>14 DEF Sound
<1> QED
  BY <1>1, <1>2, <1>3

=============================================================================
