--------------------------- MODULE PaymentGateway ---------------------------
(***************************************************************************)
(* The payment adapters behind the PAYMENT_PROVIDER token: how each one     *)
(* translates a gateway's session states and notifications into the         *)
(* vocabulary the orders module speaks (payments/payment-provider.ts).      *)
(*                                                                         *)
(* One instance of the module fixes ONE gateway: HybridPaymentProvider      *)
(* routes every call about a session to the adapter that issued it, so the  *)
(* sessions of two gateways never mix in one call.                          *)
(***************************************************************************)

CONSTANTS
  Gateway,      (* which adapter issued the sessions                       *)
  RefundNames   (* whether a refund notice names the order: a subset of    *)
                (* BOOLEAN, both members when either may happen             *)

ASSUME GatewayAssumption ==
  /\ Gateway \in {"stripe", "asaas", "mercadopago"}
  /\ RefundNames \in SUBSET BOOLEAN
  /\ RefundNames # {}

-----------------------------------------------------------------------------
(* What a session can be at the gateway. "settling" is a checkout the buyer *)
(* completed with a method that pays later (boleto), "failed" one whose     *)
(* later payment never came; both exist at Stripe only.                     *)
SessionStates ==
  {"unused", "open", "settling", "paid", "failed", "expired"}

(* The buyer has paid, may still pay, or is in the middle of paying.        *)
Live(state) == state \in {"open", "settling", "paid"}

(* What happened at the gateway, before any adapter translates it.          *)
NoticeKinds == {"paid", "failed", "refunded"}

-----------------------------------------------------------------------------
(* getPayment: the three-way answer of SessionLookup.                       *)

StripeLookup(state) ==
  CASE state = "open"                           -> "open"
    [] state \in {"settling", "paid", "failed"} -> "completed"
    [] OTHER                                    -> "gone"

AsaasLookup(state) ==
  CASE state = "open" -> "open"
    [] state = "paid" -> "completed"
    [] OTHER          -> "gone"

(* A preference knows whether it is active, never whether it was paid.      *)
MercadoPagoLookup(state) ==
  IF state \in {"open", "paid"} THEN "open" ELSE "gone"

Lookup(state) ==
  CASE Gateway = "stripe" -> StripeLookup(state)
    [] Gateway = "asaas"  -> AsaasLookup(state)
    [] OTHER              -> MercadoPagoLookup(state)

-----------------------------------------------------------------------------
(* expirePayment. Stripe refuses to expire a session that is not open and   *)
(* its adapter lets the refusal through; Asaas answers a deletion it will   *)
(* not make with 400, which its adapter reads as "already gone"; Mercado    *)
(* Pago deactivates a preference whatever was paid through it.              *)
ExpireAccepted(state) == Gateway # "stripe" \/ state = "open"

AfterExpire(state) == IF state = "open" THEN "expired" ELSE state

-----------------------------------------------------------------------------
(* parseEvent: the domain outcome of a notice.                              *)

FaithfulOutcome ==
  [paid |-> "succeeded", failed |-> "failed", refunded |-> "refunded"]

(* MUTANT of Classify: every notice is a success.                           *)
ClassifyAllAsPaid(kind) == "succeeded"

(* Mercado Pago's adapter reads every payment notification as a success.    *)
Classify(kind) ==
  IF Gateway = "mercadopago" THEN "succeeded" ELSE FaithfulOutcome[kind]

(* MUTANT of OrderFields: every notice carries the order's id.              *)
OrderAlwaysNamed(kind, order, none) == {order}

(* The order ids a notice of this kind may carry, `none` for no id: session *)
(* notices name the order, a charge's refund names it only when the charge  *)
(* inherited the metadata, and Mercado Pago's notices not reliably.         *)
OrderFields(kind, order, none) ==
  CASE Gateway = "mercadopago" -> {order, none}
    [] kind = "refunded" -> {IF named THEN order ELSE none : named \in RefundNames}
    [] OTHER             -> {order}

(* Stripe's event ids are the gateway's own and survive a redelivery; the   *)
(* other two adapters stamp Date.now() into the id they make up.            *)
StableEventIds == Gateway = "stripe"

(* Methods that complete now and pay later.                                 *)
PaysLater == Gateway = "stripe"

(* A refused card is notified like any other change of a payment.           *)
NotifiesRejections == Gateway = "mercadopago"

=============================================================================
