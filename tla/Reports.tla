------------------------------- MODULE Reports -------------------------------
(***************************************************************************)
(* The back office's reports: what sold, what it brought in by week or      *)
(* month and what does not move                                             *)
(* (reports/reports.service.ts, reports/report-window.ts,                   *)
(* reports/aggregates.ts).                                                  *)
(*                                                                         *)
(* Each report is an aggregate over tables other parts write, so the state  *)
(* is those tables, cut down to the columns the reports read, and the       *)
(* reports are operators on it.  An order is paid when it is paid, or, for  *)
(* one a marketplace sends late, some time before.                          *)
(***************************************************************************)
EXTENDS Integers, FiniteSets, FiniteSetsExt, Functions

CONSTANTS
  OrderIds,      (* ids of orders                                           *)
  Wares,         (* ids of products, ordered as ORDER BY id orders them     *)
  Carriage,      (* what freight an order may carry, cents                  *)
  Stocked,       (* units of each product at the start; a count finds no    *)
                 (* more: a bound of the model                              *)
  PerOrder,      (* units of one product an order may take: a bound         *)
  Horizon,       (* the last instant looked at: a bound of the model        *)
  Behind,        (* how far the store's clock is behind UTC                 *)
  Granule,       (* the length of a week or month                           *)
  PageSize       (* perPage                                                 *)

ASSUME ReportsAssumption ==
  /\ Wares \subseteq Nat \ {0} /\ IsFiniteSet(Wares) /\ IsFiniteSet(OrderIds)
  /\ Carriage \subseteq Nat /\ Stocked \in Nat /\ PerOrder \in Nat
  /\ Horizon \in Nat /\ Behind \in Nat /\ Granule \in Nat \ {0} /\ PageSize \in Nat \ {0}

VARIABLES
  now,      (* the clock, in instants of UTC                                *)
  order,    (* orders and their order_items                                 *)
  onShelf,  (* units of each product, its sizes together                    *)
  listed    (* the ACTIVE products                                          *)

reportVars == <<now, order, onShelf, listed>>

-----------------------------------------------------------------------------
OrderStatuses == {"none", "CREATED", "PAID", "SHIPPED", "DELIVERED", "CANCELLED", "REFUNDED"}

SOLD_STATUSES == {"PAID", "SHIPPED", "DELIVERED"}

Instants == 0..Horizon

PlacedRows == [status: OrderStatuses, paidAt: Instants, units: [Wares -> 0..PerOrder],
              freight: Carriage \cup {0}]

NoOrderYet == [status |-> "none", paidAt |-> 0, units |-> [w \in Wares |-> 0], freight |-> 0]

ReportsTypeOK ==
  /\ now \in Instants
  /\ order \in [OrderIds -> PlacedRows]
  /\ onShelf \in [Wares -> Nat]
  /\ listed \subseteq Wares

ReportsInit ==
  /\ now = 0
  /\ order = [o \in OrderIds |-> NoOrderYet]
  /\ onShelf = [w \in Wares |-> Stocked]
  /\ listed = Wares

(* A piece costs twice its id, so that no two cost the same.                *)
UnitPrice(w) == 2 * w

-----------------------------------------------------------------------------
(* The tables' writers.                                                     *)
Basket(units) == units \in [Wares -> 0..PerOrder] /\ \E w \in Wares : units[w] > 0

Insert(o, status, at, units, freight) ==
  /\ order[o].status = "none" /\ Basket(units)
  /\ order' = [order EXCEPT ![o] =
       [status |-> status, paidAt |-> at, units |-> units, freight |-> freight]]
  /\ UNCHANGED <<now, listed>>

(* Mutant: the decrement without `stock_quantity >= n`.                     *)
MayTakeAny(w, n) == n = 0 \/ w \in listed

(* StockService.decrement, for the sizes of a product together: never more  *)
(* than there is, and nothing of a product that is not for sale.            *)
MayTake(w, n) == n = 0 \/ (w \in listed /\ n <= onShelf[w])

(* Checkout: every line leaves the shelf, or there is no order.             *)
PlaceOrderOf(o, units, freight) ==
  /\ \A w \in Wares : MayTake(w, units[w])
  /\ Insert(o, "CREATED", 0, units, freight)
  /\ onShelf' = [w \in Wares |-> onShelf[w] - units[w]]

(* A marketplace's sale: the order is made whatever the shelf has.  A line  *)
(* whose size is short is logged and kept; taken is what did leave.         *)
ImportOrder(o, units, freight, status, at) ==
  /\ at <= now /\ (status = "CREATED" => at = 0)
  /\ Insert(o, status, at, units, freight)
  /\ \E taken \in [Wares -> 0..PerOrder] :
       /\ \A w \in Wares : taken[w] <= units[w] /\ MayTake(w, taken[w])
       /\ onShelf' = [w \in Wares |-> onShelf[w] - taken[w]]

(* setQuantity writes what somebody counted, whatever has moved since.      *)
Recount(w, n) ==
  /\ onShelf' = [onShelf EXCEPT ![w] = n]
  /\ UNCHANGED <<now, order, listed>>

PayOrder(o) ==
  /\ order[o].status = "CREATED"
  /\ order' = [order EXCEPT ![o].status = "PAID", ![o].paidAt = now]
  /\ UNCHANGED <<now, onShelf, listed>>

ForwardOrder(o) ==
  /\ \/ /\ order[o].status = "PAID"
        /\ order' = [order EXCEPT ![o].status = "SHIPPED"]
     \/ /\ order[o].status = "SHIPPED"
        /\ order' = [order EXCEPT ![o].status = "DELIVERED"]
  /\ UNCHANGED <<now, onShelf, listed>>

(* A cancellation or a refund puts every unit back, those that never left   *)
(* among them.                                                              *)
UndoOrder(o) ==
  /\ \/ /\ order[o].status = "CREATED"
        /\ order' = [order EXCEPT ![o].status = "CANCELLED"]
     \/ /\ order[o].status = "PAID"
        /\ order' = [order EXCEPT ![o].status = "REFUNDED"]
  /\ onShelf' = [w \in Wares |-> onShelf[w] + order[o].units[w]]
  /\ UNCHANGED <<now, listed>>

Delist(w) ==
  /\ w \in listed
  /\ listed' = listed \ {w}
  /\ UNCHANGED <<now, order, onShelf>>

Relist(w) ==
  /\ w \notin listed
  /\ listed' = listed \cup {w}
  /\ UNCHANGED <<now, order, onShelf>>

ReportTick ==
  /\ now < Horizon
  /\ now' = now + 1
  /\ UNCHANGED <<order, onShelf, listed>>

ReportsNext ==
  \/ ReportTick
  \/ \E w \in Wares : Delist(w) \/ Relist(w) \/ \E n \in 0..Stocked : Recount(w, n)
  \/ \E o \in OrderIds :
       \/ PayOrder(o) \/ ForwardOrder(o) \/ UndoOrder(o)
       \/ \E units \in [Wares -> 0..PerOrder], freight \in Carriage :
            \/ PlaceOrderOf(o, units, freight)
            \/ \E at \in Instants, status \in {"CREATED", "PAID"} :
                 ImportOrder(o, units, freight, status, at)

ReportsSpec == ReportsInit /\ [][ReportsNext]_reportVars

-----------------------------------------------------------------------------
(* resolveWindow: [from, to), never empty.                                  *)
Windows == {w \in [from: 0..(Horizon + 1), to: 0..(Horizon + 1)] : w.from < w.to}

(* Mutant: the end of the window included.                                  *)
SoldThrough(window) ==
  {o \in OrderIds : /\ order[o].status \in SOLD_STATUSES
                    /\ window.from <= order[o].paidAt /\ order[o].paidAt <= window.to}

(* soldInWindow.                                                            *)
SoldInWindow(window) ==
  {o \in OrderIds : /\ order[o].status \in SOLD_STATUSES
                    /\ window.from <= order[o].paidAt /\ order[o].paidAt < window.to}

(* Columns of the orders, to be added up over some of them.                 *)
UnitsOf(w) == [o \in OrderIds |-> order[o].units[w]]

FreightOf == [o \in OrderIds |-> order[o].freight]

ItemsSubtotal ==
  [o \in OrderIds |->
     SumFunctionOnSet([w \in Wares |-> order[o].units[w] * UnitPrice(w)], Wares)]

(* productSales: one row for each product a sale of the window has.         *)
UnitsSold(w, window) == SumFunctionOnSet(UnitsOf(w), SoldInWindow(window))

ProductSales(window) ==
  {[ware |-> w, units |-> UnitsSold(w, window),
    revenue |-> UnitsSold(w, window) * UnitPrice(w)] :
     w \in {v \in Wares : \E o \in SoldInWindow(window) : order[o].units[v] > 0}}

(* ORDER BY units DESC, id ASC; LIMIT perPage OFFSET skip.                  *)
SalesPage(rows, page) ==
  LET above(r) == {q \in rows : q.units > r.units \/ (q.units = r.units /\ q.ware < r.ware)}
  IN {r \in rows : /\ (page - 1) * PageSize <= Cardinality(above(r))
                   /\ Cardinality(above(r)) < page * PageSize}

(* bucketOf: the week or month an instant falls in on the store's own       *)
(* clock; buckets are numbered from the calendar's.                         *)
BucketOf(instant) == (instant - Behind) \div Granule

(* The calendar of the window.  Its end is excluded, so it is stepped back  *)
(* less than an instant before it is cut.                                   *)
Series(window) == BucketOf(window.from)..BucketOf(window.to - 1)

(* revenue: LEFT JOIN of the sales to the calendar.                         *)
Revenue(window) ==
  [b \in Series(window) |->
     LET sales == {o \in SoldInWindow(window) : BucketOf(order[o].paidAt) = b}
         items == SumFunctionOnSet(ItemsSubtotal, sales)
         freight == SumFunctionOnSet(FreightOf, sales)
     IN [items |-> items, freight |-> freight, revenue |-> items + freight,
         count |-> Cardinality(sales)]]

(* Mutant: what was ever sold counts as moving.                             *)
NeverSoldProducts(window) ==
  {w \in listed : /\ onShelf[w] > 0
                  /\ \A o \in OrderIds :
                       order[o].status \in SOLD_STATUSES => order[o].units[w] = 0}

(* unsoldCandidates, and when each of them last sold.                       *)
UnsoldProducts(window) ==
  {w \in listed : /\ onShelf[w] > 0
                  /\ \A o \in SoldInWindow(window) : order[o].units[w] = 0}

SalesOf(w) == {o \in OrderIds : order[o].status \in SOLD_STATUSES /\ order[o].units[w] > 0}

LastSoldAt(w) == IF SalesOf(w) = {} THEN -1 ELSE Max({order[o].paidAt : o \in SalesOf(w)})

(* The tabs of the order list: OrdersService.list groups by status.         *)
StatusCount(s) == Cardinality({o \in OrderIds : order[o].status = s})

-----------------------------------------------------------------------------
(* Asking for two periods that meet and adding them gives what asking for   *)
(* both at once gives: no sale on the boundary is lost or counted twice, in *)
(* the list by product and in the bars.                                     *)
PeriodsAddUp(w1, w2) ==
  LET both == [from |-> w1.from, to |-> w2.to]
      bar(window, b) == IF b \in Series(window) THEN Revenue(window)[b].revenue ELSE 0
  IN /\ \A w \in Wares : UnitsSold(w, both) = UnitsSold(w, w1) + UnitsSold(w, w2)
     /\ Series(both) = Series(w1) \cup Series(w2)
     /\ \A b \in Series(both) : Revenue(both)[b].revenue = bar(w1, b) + bar(w2, b)

(* Two screens of one panel agree: the bars of any period hold every sale   *)
(* of it once, whichever zone cuts them and wherever the period begins, the *)
(* list by product, page after page, adds up to the same money, periods     *)
(* that meet add up (invariant 3 of the reports' spec), and the tabs of the *)
(* order list count the sales of all time.                                  *)
ScreensReconcile ==
  /\ \A window \in Windows :
       LET bars == Revenue(window)
           rows == ProductSales(window)
           pages == UNION {SalesPage(rows, n) : n \in 1..Cardinality(Wares)}
           shown == SumFunction([b \in DOMAIN bars |-> bars[b].items])
       IN /\ shown = SumFunctionOnSet(ItemsSubtotal, SoldInWindow(window))
          /\ shown = SumFunction([r \in pages |-> r.revenue])
          /\ SumFunction([b \in DOMAIN bars |-> bars[b].count]) =
               Cardinality(SoldInWindow(window))
  /\ \A w1 \in Windows, w2 \in Windows : w1.to = w2.from => PeriodsAddUp(w1, w2)
  /\ Cardinality(SoldInWindow([from |-> 0, to |-> Horizon + 1])) =
       StatusCount("PAID") + StatusCount("SHIPPED") + StatusCount("DELIVERED")

(* A listed product in stock is either on the sales report of a period or   *)
(* on its list of what does not move, and there its last sale is never one  *)
(* of the period; what does not move over two periods that meet is what     *)
(* does not move in either.  It holds whatever the shelf and the orders     *)
(* have to do with one another: short imports and recounts part them.       *)
SoldOrUnsold ==
  /\ \A window \in Windows : \A w \in listed :
       onShelf[w] > 0 =>
         /\ (w \in UnsoldProducts(window)) # (\E r \in ProductSales(window) : r.ware = w)
         /\ w \in UnsoldProducts(window) =>
              ~(window.from <= LastSoldAt(w) /\ LastSoldAt(w) < window.to)
  /\ \A w1 \in Windows, w2 \in Windows :
       w1.to = w2.from =>
         UnsoldProducts([from |-> w1.from, to |-> w2.to]) =
           UnsoldProducts(w1) \cap UnsoldProducts(w2)
=============================================================================
