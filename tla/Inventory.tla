------------------------------ MODULE Inventory ------------------------------
(***************************************************************************)
(* What the store promises about units on the shelf, with carts, requests,  *)
(* transactions and locks abstracted away: a sale takes all of its lines at *)
(* once and only what is there, and gives all of them back at most once.    *)
(* Module Checkout implements this specification.                           *)
(***************************************************************************)
EXTENDS Integers

CONSTANTS
  Variants,    (* what can be bought: one size of one product               *)
  LineIds,     (* primary keys of cart lines: bounds how many are ever added *)
  Orders,      (* orders: bounds how many are ever placed                   *)
  MaxQty,      (* bounds the units in one line                              *)
  StartStock,  (* the stock of each variant at the start                    *)
  Recounts     (* the quantities the back office may write                  *)

VARIABLES
  stock,   (* product_variants.stock_quantity                               *)
  state,   (* state[o]: "none", "placed", or "returned" (lines given back)  *)
  items    (* order_items of o                                              *)

inventoryVars == <<stock, state, items>>

Lines == [id: LineIds, variant: Variants, qty: 1..MaxQty]

OneLinePerVariant(lines) ==
  \A k, l \in lines : k.variant = l.variant => k = l

(* The units of v among lines with at most one line per variant.            *)
Units(lines, v) ==
  LET ofV == {l \in lines : l.variant = v}
  IN IF ofV = {} THEN 0 ELSE (CHOOSE l \in ofV : TRUE).qty

Init ==
  /\ stock = StartStock
  /\ state = [o \in Orders |-> "none"]
  /\ items = [o \in Orders |-> {}]

Sell(o) ==
  /\ state[o] = "none"
  /\ state' = [state EXCEPT ![o] = "placed"]
  /\ \E lines \in SUBSET Lines :
       /\ items' = [items EXCEPT ![o] = lines]
       /\ OneLinePerVariant(lines)
       /\ \A v \in Variants : Units(lines, v) <= stock[v]
       /\ stock' = [v \in Variants |-> stock[v] - Units(lines, v)]

Return(o) ==
  /\ state[o] = "placed"
  /\ stock' = [v \in Variants |-> stock[v] + Units(items[o], v)]
  /\ state' = [state EXCEPT ![o] = "returned"]
  /\ UNCHANGED items

Recount(v, q) ==
  /\ stock' = [stock EXCEPT ![v] = q]
  /\ UNCHANGED <<state, items>>

Next ==
  \/ \E o \in Orders : Sell(o) \/ Return(o)
  \/ \E v \in Variants, q \in Recounts : Recount(v, q)

Spec == Init /\ [][Next]_inventoryVars

=============================================================================
