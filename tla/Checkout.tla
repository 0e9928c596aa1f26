------------------------------ MODULE Checkout ------------------------------
(***************************************************************************)
(* Carts, the checkout transaction, the transaction that gives an order's   *)
(* lines back, the back office's absolute stock write, and the stock pushed *)
(* to the marketplaces after a sale (orders.service.ts checkout, cancel and *)
(* applyRefund; cart.service.ts; stock.service.ts; *-sync.service.ts).      *)
(*                                                                         *)
(* A transaction is cut into its statements.  Postgres runs them at READ    *)
(* COMMITTED: what a transaction wrote is invisible until it commits, and   *)
(* the rows it wrote are locked against every other writer until then.  A   *)
(* request's record therefore holds what its transaction has written, and   *)
(* `stock` and `cart` are the committed rows.  A statement that waited for  *)
(* a row reads it again when it gets it.                                    *)
(***************************************************************************)
EXTENDS Integers, FiniteSets

CONSTANTS
  Variants,    (* what can be bought: one size of one product               *)
  Users,       (* each with one cart                                        *)
  LineIds,     (* primary keys of cart lines: bounds how many are ever added *)
  Orders,      (* orders: bounds how many are ever placed                   *)
  Requests,    (* checkouts and returns in flight: bounds their overlap     *)
  MaxQty,      (* bounds the units in one line; 999 per request in the code *)
  StartStock,  (* the stock of each variant at the start                    *)
  Recounts,    (* the quantities the back office may write                  *)
  Offers,      (* what the catalogue may make of a variant: see Sellable    *)
  Marketplaces,      (* whether a marketplace is connected                  *)
  EditsMidCheckout,  (* whether a buyer edits a cart being checked out      *)
  Faults,      (* whether a process may die, a statement or a push fail     *)
  NoUser, NoOrder  (* null                                                  *)

ASSUME BoundAssumption ==
  /\ MaxQty \in Nat
  /\ StartStock \in [Variants -> Nat]
  /\ Recounts \in SUBSET Nat
  /\ Offers \in SUBSET {"active", "archived", "withdrawn"}
  /\ Marketplaces \in BOOLEAN /\ EditsMidCheckout \in BOOLEAN /\ Faults \in BOOLEAN
  /\ NoUser \notin Users
  /\ NoOrder \notin Orders

VARIABLES
  stock,    (* product_variants.stock_quantity, committed                   *)
  offer,    (* "active"; "archived": the variant is; "withdrawn": its       *)
            (* product is not ACTIVE                                        *)
  cart,     (* cart_items of each user, committed                           *)
  issued,   (* line ids given out so far                                    *)
  state,    (* state[o]: "none", "placed", or "returned" (lines given back) *)
  items,    (* order_items of o                                             *)
  listing,  (* the stock a marketplace shows for each variant               *)
  pushes,   (* calls of syncVariantStock in flight                          *)
  job       (* what each request in flight is about to do                   *)

saleVars == <<state, items>>
cartVars == <<cart, issued>>
marketVars == <<listing, pushes>>
vars == <<stock, offer, cartVars, saleVars, marketVars, job>>

-----------------------------------------------------------------------------
Lines == [id: LineIds, variant: Variants, qty: 1..MaxQty]

Pushes == [order: Orders, variant: Variants, qty: Nat]

(* `lines`: what the request read; `left`: lines its transaction has not    *)
(* reached, or while "blocked" the cart rows its DELETE can see; `held`:    *)
(* lines whose variant rows it wrote and locked; `eaten`: cart rows it      *)
(* deleted; `failed`: some decrement matched no row; `seen`: the stock it   *)
(* read before the transaction.                                             *)
Jobs ==
  [at: {"idle", "price", "consume", "blocked", "take", "restock"},
   user: Users \cup {NoUser}, order: Orders \cup {NoOrder},
   lines: SUBSET Lines, left: SUBSET Lines, held: SUBSET Lines,
   eaten: SUBSET Lines, failed: BOOLEAN, seen: [Variants -> Nat]]

Idle ==
  [at |-> "idle", user |-> NoUser, order |-> NoOrder, lines |-> {},
   left |-> {}, held |-> {}, eaten |-> {}, failed |-> FALSE, seen |-> StartStock]

TypeOK ==
  /\ stock \in [Variants -> Nat]
  /\ offer \in [Variants -> Offers \cup {"active"}]
  /\ cart \in [Users -> SUBSET Lines]
  /\ issued \in SUBSET LineIds
  /\ state \in [Orders -> {"none", "placed", "returned"}]
  /\ items \in [Orders -> SUBSET Lines]
  /\ listing \in [Variants -> Nat]
  /\ pushes \in SUBSET Pushes
  /\ job \in [Requests -> Jobs]

Init ==
  /\ stock = StartStock
  /\ offer = [v \in Variants |-> "active"]
  /\ cart = [u \in Users |-> {}]
  /\ issued = {}
  /\ state = [o \in Orders |-> "none"]
  /\ items = [o \in Orders |-> {}]
  /\ listing = StartStock
  /\ pushes = {}
  /\ job = [c \in Requests |-> Idle]

-----------------------------------------------------------------------------
(* Row locks.                                                               *)
Locks(c, v) == \E l \in job[c].held : l.variant = v

LockedByOther(c, v) == \E d \in Requests \ {c} : Locks(d, v)

CartLine(u, v) == {l \in cart[u] : l.variant = v}

(* A cart row deleted by an open transaction is locked, and so is its place *)
(* in the unique index on (cart_id, variant_id).                            *)
RowLocked(u, v) ==
  \E c \in Requests : job[c].user = u /\ \E l \in job[c].eaten : l.variant = v

(* The cart rows c's DELETE sees: those there when it started.               *)
Visible(c) == IF job[c].at = "blocked" THEN job[c].left ELSE cart[job[c].user]

HoldsCart(d, c) == \E k \in job[d].eaten, l \in Visible(c) : k.id = l.id

CartLocked(c) == \E d \in Requests \ {c} : HoldsCart(d, c)

Finish(c) == job' = [job EXCEPT ![c] = Idle]

(* The units of v among lines with at most one line per variant.            *)
Units(lines, v) ==
  LET ofV == {l \in lines : l.variant = v}
  IN IF ofV = {} THEN 0 ELSE (CHOOSE l \in ofV : TRUE).qty

-----------------------------------------------------------------------------
(* The cart: one statement per edit, upsert on (cart, variant).  MaxQty is  *)
(* a bound of the model: the code sums without one.                         *)
MayEdit(u) ==
  EditsMidCheckout \/ \A c \in Requests : job[c].user # u

AddItem(u, v, id, q) ==
  /\ MayEdit(u)
  /\ offer[v] # "withdrawn"
  /\ ~RowLocked(u, v)
  /\ IF CartLine(u, v) = {}
       THEN /\ id \notin issued
            /\ issued' = issued \cup {id}
            /\ cart' = [cart EXCEPT ![u] = @ \cup {[id |-> id, variant |-> v, qty |-> q]}]
       ELSE \E l \in CartLine(u, v) :
              /\ id = l.id
              /\ l.qty + q <= MaxQty
              /\ cart' = [cart EXCEPT ![u] =
                            (@ \ {l}) \cup {[l EXCEPT !.qty = @ + q]}]
              /\ UNCHANGED issued
  /\ UNCHANGED <<stock, offer, saleVars, marketVars, job>>

SetQuantity(u, l, q) ==
  /\ MayEdit(u)
  /\ l \in cart[u]
  /\ ~RowLocked(u, l.variant)
  /\ cart' = [cart EXCEPT ![u] = (@ \ {l}) \cup {[l EXCEPT !.qty = q]}]
  /\ UNCHANGED <<stock, offer, issued, saleVars, marketVars, job>>

(* removeItem and clear: some of the rows, or all of them.                  *)
RemoveItems(u, gone) ==
  /\ MayEdit(u)
  /\ gone = cart[u] \/ \E l \in cart[u] : gone = {l}
  /\ gone # {}
  /\ \A l \in gone : ~RowLocked(u, l.variant)
  /\ cart' = [cart EXCEPT ![u] = @ \ gone]
  /\ UNCHANGED <<stock, offer, issued, saleVars, marketVars, job>>

-----------------------------------------------------------------------------
(* A bound, not a guard of the code: there is an order left for every       *)
(* checkout that begins.                                                    *)
OrderLeft ==
  Cardinality({c \in Requests : job[c].user # NoUser})
    < Cardinality({o \in Orders : state[o] = "none"})

(* checkout: reads the cart, refuses an empty one.                          *)
ReadCart(c, u) ==
  /\ OrderLeft
  /\ job[c].at = "idle"
  /\ cart[u] # {}
  /\ job' = [job EXCEPT ![c] = [Idle EXCEPT !.at = "price", !.user = u,
                                            !.lines = cart[u]]]
  /\ UNCHANGED <<stock, offer, cartVars, saleVars, marketVars>>

(* Reads the variants, refuses products that are not ACTIVE, and prices the *)
(* freight outside any transaction (which may refuse too).                  *)
Price(c) ==
  /\ job[c].at = "price"
  /\ \/ Finish(c)
     \/ /\ \A l \in job[c].lines : offer[l.variant] # "withdrawn"
        /\ job' = [job EXCEPT ![c] =
                     [@ EXCEPT !.at = "consume",
                               !.seen = IF Marketplaces THEN stock ELSE StartStock]]
  /\ UNCHANGED <<stock, offer, cartVars, saleVars, marketVars>>

(* The transaction's first statement deletes the cart's rows.  While another *)
(* transaction holds some of them it waits, and then deletes what is left   *)
(* of the rows it saw when it started.                                      *)
BeginConsume(c) ==
  /\ job[c].at = "consume"
  /\ CartLocked(c)
  /\ job' = [job EXCEPT ![c] = [@ EXCEPT !.at = "blocked",
                                         !.left = cart[job[c].user]]]
  /\ UNCHANGED <<stock, offer, cartVars, saleVars, marketVars>>

Deletable(c) == {l \in cart[job[c].user] : \E k \in Visible(c) : k.id = l.id}

(* MUTANT of Consume: the row count is not compared.                        *)
ConsumeUncounted(c) ==
  /\ job[c].at \in {"consume", "blocked"}
  /\ ~CartLocked(c)
  /\ job' = [job EXCEPT ![c] = [@ EXCEPT !.at = "take", !.left = job[c].lines,
                                         !.eaten = Deletable(c)]]
  /\ UNCHANGED <<stock, offer, cartVars, saleVars, marketVars>>

(* It compares how MANY rows it deleted with how many the request read.     *)
Consume(c) ==
  /\ job[c].at \in {"consume", "blocked"}
  /\ ~CartLocked(c)
  /\ IF Cardinality(Deletable(c)) = Cardinality(job[c].lines)
       THEN job' = [job EXCEPT ![c] =
                      [@ EXCEPT !.at = "take", !.left = job[c].lines,
                                !.eaten = Deletable(c)]]
       ELSE Finish(c)
  /\ UNCHANGED <<stock, offer, cartVars, saleVars, marketVars>>

Sellable(l) == offer[l.variant] = "active" /\ stock[l.variant] >= l.qty

(* StockService.decrement of one line, in the order of the cart's row ids:  *)
(* a conditional UPDATE.  A committed row that does not match is passed     *)
(* over at once; one that does is waited for, and read again.               *)
NextLine(c, l) == l \in job[c].left /\ \A m \in job[c].left : l.id <= m.id

(* The UPDATE of l's variant matched a row, or none.                        *)
Wrote(c, l) == [job[c] EXCEPT !.left = @ \ {l}, !.held = @ \cup {l}]

Missed(c, l) == [job[c] EXCEPT !.left = @ \ {l}, !.failed = TRUE]

(* MUTANT of Take: the UPDATE does not wait for the row's lock.             *)
TakeUnlocked(c, l) ==
  /\ job[c].at = "take"
  /\ NextLine(c, l)
  /\ job' = [job EXCEPT ![c] = IF Sellable(l) THEN Wrote(c, l) ELSE Missed(c, l)]
  /\ UNCHANGED <<stock, offer, cartVars, saleVars, marketVars>>

(* MUTANT of Take: a line that cannot be taken yet is waited for.           *)
TakeWaiting(c, l) ==
  /\ job[c].at = "take"
  /\ NextLine(c, l)
  /\ Sellable(l)
  /\ ~LockedByOther(c, l.variant)
  /\ job' = [job EXCEPT ![c] = Wrote(c, l)]
  /\ UNCHANGED <<stock, offer, cartVars, saleVars, marketVars>>

Take(c, l) ==
  /\ job[c].at = "take"
  /\ NextLine(c, l)
  /\ \/ /\ Sellable(l)
        /\ ~LockedByOther(c, l.variant)
        /\ job' = [job EXCEPT ![c] = Wrote(c, l)]
     \/ /\ ~Sellable(l)
        /\ job' = [job EXCEPT ![c] = Missed(c, l)]
  /\ UNCHANGED <<stock, offer, cartVars, saleVars, marketVars>>

(* What the store tells the marketplaces after a sale: the stock it read    *)
(* before the transaction, less the line.                                   *)
PushesOf(c, o) ==
  IF ~Marketplaces THEN {}
  ELSE {[order |-> o, variant |-> l.variant,
         qty |-> IF job[c].seen[l.variant] >= l.qty
                 THEN job[c].seen[l.variant] - l.qty ELSE 0] : l \in job[c].lines}

(* MUTANT of CommitSale: a failed line is left out instead of aborting.     *)
CommitWhatWasThere(c, o) ==
  /\ job[c].at = "take"
  /\ job[c].left = {}
  /\ state[o] = "none"
  /\ stock' = [v \in Variants |-> stock[v] - Units(job[c].held, v)]
  /\ cart' = [cart EXCEPT ![job[c].user] = @ \ job[c].eaten]
  /\ state' = [state EXCEPT ![o] = "placed"]
  /\ items' = [items EXCEPT ![o] = job[c].lines]
  /\ pushes' = pushes \cup PushesOf(c, o)
  /\ Finish(c)
  /\ UNCHANGED <<offer, issued, listing>>

(* The order is created from the lines that were READ, and the transaction  *)
(* commits; the marketplaces are told without waiting for them.  The payment *)
(* session that follows is module OrderLifecycle's.                         *)
CommitSale(c, o) ==
  /\ job[c].at = "take"
  /\ job[c].left = {}
  /\ ~job[c].failed
  /\ state[o] = "none"
  /\ stock' = [v \in Variants |-> stock[v] - Units(job[c].held, v)]
  /\ cart' = [cart EXCEPT ![job[c].user] = @ \ job[c].eaten]
  /\ state' = [state EXCEPT ![o] = "placed"]
  /\ items' = [items EXCEPT ![o] = job[c].lines]
  /\ pushes' = pushes \cup PushesOf(c, o)
  /\ Finish(c)
  /\ UNCHANGED <<offer, issued, listing>>

(* Some line could not be taken: the exception rolls everything back.       *)
Refuse(c) ==
  /\ job[c].at = "take"
  /\ job[c].left = {}
  /\ job[c].failed
  /\ Finish(c)
  /\ UNCHANGED <<stock, offer, cartVars, saleVars, marketVars>>

-----------------------------------------------------------------------------
(* MUTANT of BeginReturn: the UPDATE does not look at the status.           *)
BeginReturnById(c, o) ==
  /\ job[c].at = "idle"
  /\ state[o] # "none"
  /\ \A d \in Requests : job[d].order # o
  /\ job' = [job EXCEPT ![c] = [Idle EXCEPT !.at = "restock", !.order = o,
                                            !.lines = items[o], !.left = items[o]]]
  /\ UNCHANGED <<stock, offer, cartVars, saleVars, marketVars>>

(* cancel and applyRefund: the transaction's conditional UPDATE locks the   *)
(* order's row; a second one waits, then matches nothing.                   *)
BeginReturn(c, o) ==
  /\ job[c].at = "idle"
  /\ state[o] = "placed"
  /\ \A d \in Requests : job[d].order # o
  /\ job' = [job EXCEPT ![c] = [Idle EXCEPT !.at = "restock", !.order = o,
                                            !.lines = items[o], !.left = items[o]]]
  /\ UNCHANGED <<stock, offer, cartVars, saleVars, marketVars>>

(* StockService.restock of one line, in no particular order.                *)
Restock(c, l) ==
  /\ job[c].at = "restock"
  /\ l \in job[c].left
  /\ ~LockedByOther(c, l.variant)
  /\ job' = [job EXCEPT ![c] = Wrote(c, l)]
  /\ UNCHANGED <<stock, offer, cartVars, saleVars, marketVars>>

CommitReturn(c) ==
  /\ job[c].at = "restock"
  /\ job[c].left = {}
  /\ stock' = [v \in Variants |-> stock[v] + Units(job[c].held, v)]
  /\ state' = [state EXCEPT ![job[c].order] = "returned"]
  /\ Finish(c)
  /\ UNCHANGED <<offer, cartVars, items, marketVars>>

-----------------------------------------------------------------------------
(* c waits for a row d has locked.                                          *)
WaitsFor(c, d) ==
  /\ c # d
  /\ \/ /\ job[c].at = "blocked" /\ HoldsCart(d, c)
     \/ /\ job[c].at = "take"
        /\ \E l \in job[c].left : NextLine(c, l) /\ Sellable(l) /\ Locks(d, l.variant)
     \/ /\ job[c].at = "restock"
        /\ \E l \in job[c].left : Locks(d, l.variant)

(* c is in a cycle of requests that wait for each other.                    *)
Deadlocked(c) ==
  \E S \in SUBSET Requests :
    /\ c \in S
    /\ \A d \in S : (\E e \in S : WaitsFor(d, e)) /\ (\E e \in S : WaitsFor(e, d))

(* Postgres aborts a transaction of a cycle; the process dies, or the       *)
(* database fails.                                                          *)
Rollback(c) ==
  /\ job[c].at # "idle"
  /\ Faults \/ Deadlocked(c)
  /\ Finish(c)
  /\ UNCHANGED <<stock, offer, cartVars, saleVars, marketVars>>

(* StockService.setQuantity: the absolute write of the back office.         *)
Recount(v, q) ==
  /\ \A c \in Requests : ~Locks(c, v)
  /\ stock' = [stock EXCEPT ![v] = q]
  /\ UNCHANGED <<offer, cartVars, saleVars, marketVars, job>>

(* The catalogue archives, restores or withdraws a variant; whether it may, *)
(* given the product's other variants, is left open here.                   *)
Reoffer(v, s) ==
  /\ offer[v] # s
  /\ offer' = [offer EXCEPT ![v] = s]
  /\ UNCHANGED <<stock, cartVars, saleVars, marketVars, job>>

(* A push arrives, in any order, or fails and is forgotten.                 *)
PushArrives(p) ==
  /\ pushes' = pushes \ {p}
  /\ \/ listing' = [listing EXCEPT ![p.variant] = p.qty]
     \/ Faults /\ UNCHANGED listing
  /\ UNCHANGED <<stock, offer, cartVars, saleVars, job>>

-----------------------------------------------------------------------------
CartEdit(u) ==
  \/ \E v \in Variants, id \in LineIds, q \in 1..MaxQty : AddItem(u, v, id, q)
  \/ \E l \in cart[u], q \in 1..MaxQty : SetQuantity(u, l, q)
  \/ \E gone \in SUBSET cart[u] : RemoveItems(u, gone)

Request(c) ==
  \/ Price(c)
  \/ BeginConsume(c)
  \/ Consume(c)
  \/ \E l \in Lines : Take(c, l) \/ Restock(c, l)
  \/ \E o \in Orders : CommitSale(c, o)
  \/ Refuse(c)
  \/ CommitReturn(c)
  \/ Rollback(c)

Next ==
  \/ \E u \in Users : CartEdit(u)
  \/ \E c \in Requests : \/ \E u \in Users : ReadCart(c, u)
                         \/ \E o \in Orders : BeginReturn(c, o)
                         \/ Request(c)
  \/ \E v \in Variants : \/ \E q \in Recounts : Recount(v, q)
                         \/ \E s \in Offers : Reoffer(v, s)
  \/ \E p \in pushes : PushArrives(p)

Spec == Init /\ [][Next]_vars

-----------------------------------------------------------------------------
(* SAFETY *)

(* All or nothing: however the statements of concurrent transactions        *)
(* interleave, each order's lines leave the shelf in one step, all of them  *)
(* backed by stock, and come back in one step, once.                        *)
AtomicSales == INSTANCE Inventory
                 WITH stock <- stock, state <- state, items <- items

InventoryImplemented == AtomicSales!Spec

(* One cart line is bought at most once: submitting a checkout twice makes  *)
(* one order (the count after deleteMany).                                  *)
OneOrderPerLine ==
  \A o, p \in Orders : o # p =>
    \A k \in items[o], l \in items[p] : k.id # l.id

(* Once every request and push is over, no marketplace offers units the     *)
(* store does not have (syncVariantStock).                                  *)
ListingIsBacked ==
  (pushes = {} /\ \A c \in Requests : job[c] = Idle) =>
    \A v \in Variants : listing[v] <= stock[v]

-----------------------------------------------------------------------------
(* LIVENESS *)

(* A request goes on, and a row that is freed again and again is eventually *)
(* its own: Postgres serves the waiters of a row in order.                  *)
FairRequests == \A c \in Requests : SF_vars(Request(c))

FairSpec == Spec /\ FairRequests

(* Every checkout and every return ends, whatever it waits for.             *)
RequestsEnd == \A c \in Requests : (job[c].at # "idle") ~> (job[c].at = "idle")

=============================================================================
