---------------------------- MODULE OrderContract ----------------------------
(***************************************************************************)
(* What the store promises about an order, with every request, session and  *)
(* webhook abstracted away: the life cycle its status follows, where the    *)
(* goods are at each point of it, and that the buyer hears of each change   *)
(* at most once.  OrderLifecycle implements this specification.             *)
(***************************************************************************)
EXTENDS Integers

CONSTANT Orders

VARIABLES
  status,    (* status[o]: "NONE" until the checkout that creates o        *)
  unitsOut,  (* unitsOut[o]: times o's lines were taken off the shelf,     *)
             (* less the times they were put back                          *)
  mailed     (* mailed[o][k]: e-mails of kind k sent to o's buyer          *)

contractVars == <<status, unitsOut, mailed>>

(* OrderStatus of the schema, and the absence of the row.                   *)
Statuses ==
  {"NONE", "CREATED", "PAID", "SHIPPED", "DELIVERED", "CANCELLED", "REFUNDED"}

(* The e-mails of order-notifications.service.ts, named by what they tell.  *)
Mails == {"PAID", "SHIPPED", "CANCELLED", "REFUNDED"}

Init ==
  /\ status = [o \in Orders |-> "NONE"]
  /\ unitsOut = [o \in Orders |-> 0]
  /\ mailed = [o \in Orders |-> [k \in Mails |-> 0]]

(* The arrows of the life cycle, each with what it does to the shelf.       *)
Arrow(from, to) ==
  CASE from = "NONE"    -> to = "CREATED"
    [] from = "CREATED" -> to \in {"PAID", "CANCELLED"}
    [] from = "PAID"    -> to \in {"SHIPPED", "REFUNDED"}
    [] from = "SHIPPED" -> to = "DELIVERED"
    [] OTHER            -> FALSE

ShelfChange(to) ==
  CASE to = "CREATED"                   -> 1
    [] to \in {"CANCELLED", "REFUNDED"} -> -1
    [] OTHER                            -> 0

Move(o, to) ==
  /\ Arrow(status[o], to)
  /\ status' = [status EXCEPT ![o] = to]
  /\ unitsOut' = [unitsOut EXCEPT ![o] = @ + ShelfChange(to)]
  /\ UNCHANGED mailed

(* The statuses an order that was once k can have by now.                   *)
WasOnce(k) ==
  CASE k = "PAID"    -> {"PAID", "SHIPPED", "DELIVERED", "REFUNDED"}
    [] k = "SHIPPED" -> {"SHIPPED", "DELIVERED"}
    [] OTHER         -> {k}

(* The buyer is told that the order became k, after it did, and only once.  *)
Tell(o, k) ==
  /\ status[o] \in WasOnce(k)
  /\ mailed[o][k] = 0
  /\ mailed' = [mailed EXCEPT ![o][k] = 1]
  /\ UNCHANGED <<status, unitsOut>>

Next ==
  \E o \in Orders :
    \/ \E to \in Statuses : Move(o, to)
    \/ \E k \in Mails : Tell(o, k)

Spec == Init /\ [][Next]_contractVars

=============================================================================
