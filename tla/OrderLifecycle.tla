--------------------------- MODULE OrderLifecycle ---------------------------
(***************************************************************************)
(* Orders, their payment sessions and the payment webhook: every handler of *)
(* orders.service.ts that changes an order, and the webhook handler of      *)
(* payment-events.service.ts, run by any number of concurrent requests.     *)
(*                                                                         *)
(* Postgres runs at READ COMMITTED and no handler locks the order row, so a *)
(* handler is cut into one step per statement, transaction or gateway call: *)
(* between two awaits anything else may run, and what a request read before *)
(* an await is carried, stale, in its job record.                           *)
(***************************************************************************)
EXTENDS Integers, PaymentGateway

CONSTANTS
  Orders,     (* the orders that may be placed                              *)
  Sessions,   (* the payment sessions the gateway can issue: bounds how     *)
              (* many are ever created                                      *)
  PaySlots,   (* requests that may issue a session (checkout, pay): bounds  *)
              (* how many of them are in flight at once                     *)
  DeskSlots,  (* requests of the other routes in flight at once             *)
  HookSlots,  (* webhook deliveries in flight at once                       *)
  Faults,     (* whether a process may die, a statement or a gateway call   *)
              (* fail, and an acknowledgement get lost                      *)
  NoOrder, NoRef, NoEvent  (* null, for the three kinds of reference        *)

ASSUME SlotAssumption ==
  /\ PaySlots \cap DeskSlots = {}
  /\ PaySlots \cap HookSlots = {}
  /\ DeskSlots \cap HookSlots = {}
  /\ Faults \in BOOLEAN

ASSUME NullAssumption ==
  /\ NoOrder \notin Orders
  /\ NoRef \notin Sessions
  /\ NoEvent \notin [kind: NoticeKinds, charge: Sessions, order: Orders \cup {NoOrder}]

VARIABLES
  status,      (* orders.status, "NONE" before the row exists               *)
  unitsOut,    (* times the order's lines were taken off the shelf, less    *)
               (* the times they were put back                              *)
  paymentRef,  (* orders.payment_ref: the session stored on the order       *)
  intentRef,   (* orders.payment_intent_ref: the charge that paid it        *)
  processed,   (* payment_events rows with processed_at set                 *)
  mailed,      (* mailed[o][k]: e-mails of kind k sent about o              *)
  sess,        (* gateway: the state of each session                        *)
  sessOrder,   (* gateway: the order each session was created for           *)
  refunded,    (* gateway: the charges whose money went back                *)
  inbox,       (* gateway: notices it keeps delivering until acknowledged   *)
  job          (* what each request in flight is about to do                *)

rowVars == <<status, unitsOut, paymentRef, intentRef>>
gatewayVars == <<sess, sessOrder, refunded, inbox>>
vars == <<rowVars, processed, mailed, gatewayVars, job>>

-----------------------------------------------------------------------------
Slots == PaySlots \cup DeskSlots \cup HookSlots
Refs == Sessions \cup {NoRef}

Statuses ==
  {"NONE", "CREATED", "PAID", "SHIPPED", "DELIVERED", "CANCELLED", "REFUNDED"}

Mails == {"PAID", "SHIPPED", "CANCELLED", "REFUNDED"}

(* A notice: what happened to which charge, and the order id it carries.    *)
(* One session takes one charge, so the session stands for its intent.      *)
Events ==
  [kind: NoticeKinds, charge: Sessions, order: Orders \cup {NoOrder}]

Labels ==
  {"idle", "lookup", "expire", "create", "attach", "expireQuietly",
   "cancel", "refund", "applyRefund", "shipLabel", "mail",
   "claim", "dispatch", "stamp"}

(* `ref` is the session or charge the request read or created, `tell` the   *)
(* e-mail it still has to send ("none" when it has none).                   *)
Jobs ==
  [at: Labels, order: Orders \cup {NoOrder}, ref: Refs,
   tell: Mails \cup {"none"}, event: Events \cup {NoEvent}]

Idle == [at |-> "idle", order |-> NoOrder, ref |-> NoRef, tell |-> "none",
         event |-> NoEvent]

TypeOK ==
  /\ status \in [Orders -> Statuses]
  /\ unitsOut \in [Orders -> Int]
  /\ paymentRef \in [Orders -> Refs]
  /\ intentRef \in [Orders -> Refs]
  /\ processed \in SUBSET Events
  /\ mailed \in [Orders -> [Mails -> Nat]]
  /\ sess \in [Sessions -> SessionStates]
  /\ sessOrder \in [Sessions -> Orders \cup {NoOrder}]
  /\ refunded \in SUBSET Sessions
  /\ inbox \in SUBSET Events
  /\ job \in [Slots -> Jobs]

Init ==
  /\ status = [o \in Orders |-> "NONE"]
  /\ unitsOut = [o \in Orders |-> 0]
  /\ paymentRef = [o \in Orders |-> NoRef]
  /\ intentRef = [o \in Orders |-> NoRef]
  /\ processed = {}
  /\ mailed = [o \in Orders |-> [k \in Mails |-> 0]]
  /\ sess = [s \in Sessions |-> "unused"]
  /\ sessOrder = [s \in Sessions |-> NoOrder]
  /\ refunded = {}
  /\ inbox = {}
  /\ job = [h \in Slots |-> Idle]

-----------------------------------------------------------------------------
(* A request begins, moves to its next await, or ends.                      *)
Begin(h, at, o, ref, tell) ==
  /\ job[h] = Idle
  /\ job' = [job EXCEPT ![h] = [at |-> at, order |-> o, ref |-> ref,
                                tell |-> tell, event |-> NoEvent]]

Goto(h, at) == job' = [job EXCEPT ![h] = [@ EXCEPT !.at = at]]

Finish(h) == job' = [job EXCEPT ![h] = Idle]

(* The next await after an e-mail, or after there is none to send: a        *)
(* delivery still has its event row to stamp.                               *)
AfterMail(h) == IF job[h].event = NoEvent THEN Idle
                ELSE [job[h] EXCEPT !.at = "stamp", !.tell = "none"]

MailThen(h, k) == job' = [job EXCEPT ![h] = [@ EXCEPT !.at = "mail", !.tell = k]]

(* The conditional UPDATE every life-cycle move is: match the id and the    *)
(* expected status, set the new one.                                        *)
Transition(o, from, to) ==
  /\ status[o] = from
  /\ status' = [status EXCEPT ![o] = to]

Notify(kind, s) ==
  \E o \in OrderFields(kind, sessOrder[s], NoOrder) :
    inbox' = inbox \cup {[kind |-> kind, charge |-> s, order |-> o]}

-----------------------------------------------------------------------------
(* checkout: the transaction that takes the lines off the shelf and creates *)
(* the order. What happens inside it is module Checkout's subject. The      *)
(* session is issued after it commits, from the row it returned.            *)
PlaceOrder(h, o) ==
  /\ Transition(o, "NONE", "CREATED")
  /\ unitsOut' = [unitsOut EXCEPT ![o] = @ + 1]
  /\ Begin(h, "create", o, NoRef, "none")
  /\ UNCHANGED <<paymentRef, intentRef, processed, mailed, gatewayVars>>

(* pay: reads the order, refuses one that is not CREATED, and goes on to    *)
(* issueSession with the payment_ref it read.                               *)
Pay(h, o) ==
  /\ status[o] = "CREATED"
  /\ Begin(h, IF paymentRef[o] = NoRef THEN "create" ELSE "lookup",
           o, paymentRef[o], "none")
  /\ UNCHANGED <<rowVars, processed, mailed, gatewayVars>>

(* issueSession asks the gateway what became of the stored session: a       *)
(* completed one is refused (409), an open one is handed back unless the    *)
(* caller wants the other mode, anything else is replaced.                  *)
LookupSession(h) ==
  /\ job[h].at = "lookup"
  /\ LET found == Lookup(sess[job[h].ref]) IN
       \/ found \in {"completed", "open"} /\ Finish(h)
       \/ found = "open" /\ Goto(h, "expire")
       \/ found = "gone" /\ Goto(h, "create")
  /\ UNCHANGED <<rowVars, processed, mailed, gatewayVars>>

(* MUTANT of ExpireOld: the mode switch closes the old session quietly.     *)
ExpireOldQuietly(h) ==
  /\ job[h].at = "expire"
  /\ sess' = [sess EXCEPT ![job[h].ref] = AfterExpire(@)]
  /\ Goto(h, "create")
  /\ UNCHANGED <<rowVars, processed, mailed, sessOrder, refunded, inbox>>

(* The mode switch closes the old session first; a refusal aborts (503).    *)
ExpireOld(h) ==
  /\ job[h].at = "expire"
  /\ IF ExpireAccepted(sess[job[h].ref])
       THEN /\ sess' = [sess EXCEPT ![job[h].ref] = AfterExpire(@)]
            /\ Goto(h, "create")
       ELSE /\ Finish(h)
            /\ UNCHANGED sess
  /\ UNCHANGED <<rowVars, processed, mailed, sessOrder, refunded, inbox>>

CreateSession(h, s) ==
  /\ job[h].at = "create"
  /\ sess[s] = "unused"
  /\ sess' = [sess EXCEPT ![s] = "open"]
  /\ sessOrder' = [sessOrder EXCEPT ![s] = job[h].order]
  /\ job' = [job EXCEPT ![h] = [@ EXCEPT !.at = "attach", !.ref = s]]
  /\ UNCHANGED <<rowVars, processed, mailed, refunded, inbox>>

(* The final write is conditional on CREATED; when it matches nothing, the  *)
(* session just created is closed again, quietly.                           *)
AttachSession(h) ==
  /\ job[h].at = "attach"
  /\ IF status[job[h].order] = "CREATED"
       THEN /\ paymentRef' = [paymentRef EXCEPT ![job[h].order] = job[h].ref]
            /\ Finish(h)
       ELSE /\ Goto(h, "expireQuietly")
            /\ UNCHANGED paymentRef
  /\ UNCHANGED <<status, unitsOut, intentRef, processed, mailed, gatewayVars>>

(* expireQuietly swallows the gateway's refusal and its failure alike. A    *)
(* cancellation by someone other than the owner then mails the owner.       *)
ExpireQuietly(h) ==
  /\ job[h].at = "expireQuietly"
  /\ \/ sess' = [sess EXCEPT ![job[h].ref] = AfterExpire(@)]
     \/ Faults /\ UNCHANGED sess
  /\ IF job[h].tell = "none" THEN Finish(h) ELSE Goto(h, "mail")
  /\ UNCHANGED <<rowVars, processed, mailed, sessOrder, refunded, inbox>>

-----------------------------------------------------------------------------
(* cancel: reads the order, whatever its status, with its payment_ref.      *)
CancelRead(h, o, tell) ==
  /\ status[o] # "NONE"
  /\ tell \in {"none", "CANCELLED"}
  /\ Begin(h, "cancel", o, paymentRef[o], tell)
  /\ UNCHANGED <<rowVars, processed, mailed, gatewayVars>>

(* MUTANT of CancelCommit: the UPDATE matches on the id alone.              *)
CancelById(h) ==
  /\ job[h].at = "cancel"
  /\ LET o == job[h].order IN
       /\ status' = [status EXCEPT ![o] = "CANCELLED"]
       /\ unitsOut' = [unitsOut EXCEPT ![o] = @ - 1]
  /\ Finish(h)
  /\ UNCHANGED <<paymentRef, intentRef, processed, mailed, gatewayVars>>

(* The transaction: conditional on CREATED (409 otherwise), then restock.   *)
(* The session to close is the one READ, not the one stored by now.         *)
CancelCommit(h) ==
  /\ job[h].at = "cancel"
  /\ LET o == job[h].order IN
       IF status[o] = "CREATED"
         THEN /\ Transition(o, "CREATED", "CANCELLED")
              /\ unitsOut' = [unitsOut EXCEPT ![o] = @ - 1]
              /\ IF job[h].ref # NoRef THEN Goto(h, "expireQuietly")
                 ELSE IF job[h].tell = "none" THEN Finish(h)
                 ELSE Goto(h, "mail")
         ELSE /\ Finish(h)
              /\ UNCHANGED <<status, unitsOut>>
  /\ UNCHANGED <<paymentRef, intentRef, processed, mailed, gatewayVars>>

(* MUTANT of RefundRead: the order is marked before the gateway is asked.   *)
RefundLocallyFirst(h, o) ==
  /\ status[o] = "PAID"
  /\ intentRef[o] # NoRef
  /\ Begin(h, "applyRefund", o, intentRef[o], "none")
  /\ UNCHANGED <<rowVars, processed, mailed, gatewayVars>>

(* refund: only a PAID order with a recorded charge; the gateway first.     *)
RefundRead(h, o) ==
  /\ status[o] = "PAID"
  /\ intentRef[o] # NoRef
  /\ Begin(h, "refund", o, intentRef[o], "none")
  /\ UNCHANGED <<rowVars, processed, mailed, gatewayVars>>

(* A charge is refunded once: the gateway refuses the second attempt, and   *)
(* the refusal ends the request.                                            *)
RefundAtGateway(h) ==
  /\ job[h].at = "refund"
  /\ IF sess[job[h].ref] = "paid" /\ job[h].ref \notin refunded
       THEN /\ refunded' = refunded \cup {job[h].ref}
            /\ Notify("refunded", job[h].ref)
            /\ Goto(h, "applyRefund")
       ELSE /\ Finish(h)
            /\ UNCHANGED <<refunded, inbox>>
  /\ UNCHANGED <<rowVars, processed, mailed, sess, sessOrder>>

(* MUTANT of ApplyRefund: an order already REFUNDED is refunded again.      *)
ApplyRefundAgain(h, otherwise) ==
  LET o == job[h].order IN
    IF status[o] \in {"PAID", "REFUNDED"}
      THEN /\ status' = [status EXCEPT ![o] = "REFUNDED"]
           /\ unitsOut' = [unitsOut EXCEPT ![o] = @ - 1]
           /\ MailThen(h, "REFUNDED")
      ELSE /\ job' = [job EXCEPT ![h] = otherwise]
           /\ UNCHANGED <<status, unitsOut>>

(* applyRefund, the transaction the route and the webhook share: PAID to    *)
(* REFUNDED and the lines back on the shelf, then the e-mail; `otherwise`   *)
(* is what its caller does when the order was no longer PAID.               *)
ApplyRefund(h, otherwise) ==
  LET o == job[h].order IN
    IF status[o] = "PAID"
      THEN /\ Transition(o, "PAID", "REFUNDED")
           /\ unitsOut' = [unitsOut EXCEPT ![o] = @ - 1]
           /\ MailThen(h, "REFUNDED")
      ELSE /\ job' = [job EXCEPT ![h] = otherwise]
           /\ UNCHANGED <<status, unitsOut>>

RefundCommit(h) ==
  /\ job[h].at = "applyRefund"
  /\ ApplyRefund(h, Idle)
  /\ UNCHANGED <<paymentRef, intentRef, processed, mailed, gatewayVars>>

(* mark-paid by an operator records no charge.                              *)
MarkPaidByHand(h, o) ==
  /\ Transition(o, "CREATED", "PAID")
  /\ Begin(h, "mail", o, NoRef, "PAID")
  /\ UNCHANGED <<unitsOut, paymentRef, intentRef, processed, mailed, gatewayVars>>

Ship(h, o) ==
  /\ Transition(o, "PAID", "SHIPPED")
  /\ Begin(h, "mail", o, NoRef, "SHIPPED")
  /\ UNCHANGED <<unitsOut, paymentRef, intentRef, processed, mailed, gatewayVars>>

(* purchaseLabel reads a PAID order, buys the label, and only then ships.   *)
PurchaseLabel(h, o) ==
  /\ status[o] = "PAID"
  /\ Begin(h, "shipLabel", o, NoRef, "none")
  /\ UNCHANGED <<rowVars, processed, mailed, gatewayVars>>

ShipLabel(h) ==
  /\ job[h].at = "shipLabel"
  /\ IF status[job[h].order] = "PAID"
       THEN /\ Transition(job[h].order, "PAID", "SHIPPED")
            /\ MailThen(h, "SHIPPED")
       ELSE /\ Finish(h)
            /\ UNCHANGED status
  /\ UNCHANGED <<unitsOut, paymentRef, intentRef, processed, mailed, gatewayVars>>

Deliver(o) ==
  /\ Transition(o, "SHIPPED", "DELIVERED")
  /\ UNCHANGED <<unitsOut, paymentRef, intentRef, processed, mailed,
                 gatewayVars, job>>

(* OrderNotificationsService.attempt: sent or swallowed, never retried.     *)
SendMail(h) ==
  /\ job[h].at = "mail"
  /\ \/ mailed' = [mailed EXCEPT ![job[h].order][job[h].tell] = @ + 1]
     \/ Faults /\ UNCHANGED mailed
  /\ job' = [job EXCEPT ![h] = AfterMail(h)]
  /\ UNCHANGED <<rowVars, processed, gatewayVars>>

-----------------------------------------------------------------------------
(* handle, first await: resolveOrderId. The notice names the order, or the  *)
(* order is whoever stored the charge when it was paid.                     *)
Resolved(e) ==
  IF e.order # NoOrder THEN {e.order}
  ELSE LET payers == {o \in Orders : intentRef[o] = e.charge}
       IN IF payers = {} THEN {NoOrder} ELSE payers

Receive(h, e) ==
  /\ job[h] = Idle
  /\ e \in inbox
  /\ \E o \in Resolved(e) :
       job' = [job EXCEPT ![h] = [at |-> "claim", order |-> o, ref |-> e.charge,
                                  tell |-> "none", event |-> e]]
  /\ UNCHANGED <<rowVars, processed, mailed, gatewayVars>>

(* A 2xx takes the notice out of the gateway's queue, unless it gets lost.  *)
Acknowledge(e) ==
  \/ inbox' = inbox \ {e}
  \/ Faults /\ UNCHANGED inbox

(* MUTANT of Claim: the row is stamped when it is inserted, not at the end. *)
ClaimAndStamp(h) ==
  /\ job[h].at = "claim"
  /\ IF StableEventIds /\ job[h].event \in processed
       THEN /\ Acknowledge(job[h].event)
            /\ Finish(h)
       ELSE /\ Goto(h, "dispatch")
            /\ UNCHANGED inbox
  /\ processed' = processed \cup {job[h].event}
  /\ UNCHANGED <<rowVars, mailed, sess, sessOrder, refunded>>

(* claim: the event row is inserted, or found; found and stamped is a       *)
(* duplicate, answered at once. Ids made up per delivery are never found.   *)
Claim(h) ==
  /\ job[h].at = "claim"
  /\ IF StableEventIds /\ job[h].event \in processed
       THEN /\ Acknowledge(job[h].event)
            /\ Finish(h)
       ELSE /\ Goto(h, "dispatch")
            /\ UNCHANGED inbox
  /\ UNCHANGED <<rowVars, processed, mailed, sess, sessOrder, refunded>>

Stamped(h) == [job[h] EXCEPT !.at = "stamp"]

(* MUTANT of DispatchPayment: any order may be marked paid.                 *)
DispatchPaymentAnyStatus(h) ==
  /\ job[h].at = "dispatch"
  /\ Classify(job[h].event.kind) = "succeeded"
  /\ job[h].order \in Orders
  /\ status' = [status EXCEPT ![job[h].order] = "PAID"]
  /\ intentRef' = [intentRef EXCEPT ![job[h].order] = job[h].event.charge]
  /\ MailThen(h, "PAID")
  /\ UNCHANGED <<unitsOut, paymentRef, processed, mailed, gatewayVars>>

(* MUTANT of DispatchPayment: the order's own id is stored as the charge.   *)
DispatchPaymentWrongId(h) ==
  /\ job[h].at = "dispatch"
  /\ Classify(job[h].event.kind) = "succeeded"
  /\ job[h].order \in Orders
  /\ Transition(job[h].order, "CREATED", "PAID")
  /\ intentRef' = [intentRef EXCEPT ![job[h].order] = job[h].event.order]
  /\ MailThen(h, "PAID")
  /\ UNCHANGED <<unitsOut, paymentRef, processed, mailed, gatewayVars>>

(* applyPayment: markPaid with the charge; an unknown order, or one that is *)
(* no longer CREATED, is logged and the event counts as processed.          *)
DispatchPayment(h) ==
  /\ job[h].at = "dispatch"
  /\ Classify(job[h].event.kind) = "succeeded"
  /\ LET o == job[h].order IN
       IF o \in Orders /\ status[o] = "CREATED"
         THEN /\ Transition(o, "CREATED", "PAID")
              /\ intentRef' = [intentRef EXCEPT ![o] = job[h].event.charge]
              /\ MailThen(h, "PAID")
         ELSE /\ job' = [job EXCEPT ![h] = Stamped(h)]
              /\ UNCHANGED <<status, intentRef>>
  /\ UNCHANGED <<unitsOut, paymentRef, processed, mailed, gatewayVars>>

(* MUTANT of DispatchRefund: an order nobody knows is logged, and stamped.  *)
DispatchRefundSwallowed(h) ==
  /\ job[h].at = "dispatch"
  /\ Classify(job[h].event.kind) = "refunded"
  /\ IF job[h].order = NoOrder
       THEN /\ job' = [job EXCEPT ![h] = Stamped(h)]
            /\ UNCHANGED <<status, unitsOut>>
       ELSE ApplyRefund(h, Stamped(h))
  /\ UNCHANGED <<paymentRef, intentRef, processed, mailed, gatewayVars>>

(* applyRefund of the webhook: a refund no order claims yet is refused with *)
(* 503, unprocessed, so that the gateway delivers it again.                 *)
DispatchRefund(h) ==
  /\ job[h].at = "dispatch"
  /\ Classify(job[h].event.kind) = "refunded"
  /\ IF job[h].order = NoOrder
       THEN Finish(h) /\ UNCHANGED <<status, unitsOut>>
       ELSE ApplyRefund(h, Stamped(h))
  /\ UNCHANGED <<paymentRef, intentRef, processed, mailed, gatewayVars>>

(* A failed payment is recorded and leaves the order alone.                 *)
DispatchFailure(h) ==
  /\ job[h].at = "dispatch"
  /\ Classify(job[h].event.kind) = "failed"
  /\ job' = [job EXCEPT ![h] = Stamped(h)]
  /\ UNCHANGED <<rowVars, processed, mailed, gatewayVars>>

StampProcessed(h) ==
  /\ job[h].at = "stamp"
  /\ processed' = processed \cup {job[h].event}
  /\ Acknowledge(job[h].event)
  /\ Finish(h)
  /\ UNCHANGED <<rowVars, mailed, sess, sessOrder, refunded>>

-----------------------------------------------------------------------------
(* The request dies after its last completed await: the process stops, the  *)
(* database or the gateway answers with an error, a call's answer is lost.  *)
Abort(h) ==
  /\ Faults
  /\ job[h] # Idle
  /\ Finish(h)
  /\ UNCHANGED <<rowVars, processed, mailed, gatewayVars>>

(* The buyer, the merchant's dashboard and the clock, at the gateway.       *)
BuyerPays(s) ==
  /\ sess[s] \in {"open", "settling"}
  /\ sess' = [sess EXCEPT ![s] = "paid"]
  /\ Notify("paid", s)
  /\ UNCHANGED <<rowVars, processed, mailed, sessOrder, refunded, job>>

BuyerWillPayLater(s) ==
  /\ PaysLater
  /\ sess[s] = "open"
  /\ sess' = [sess EXCEPT ![s] = "settling"]
  /\ UNCHANGED <<rowVars, processed, mailed, sessOrder, refunded, inbox, job>>

PaymentFails(s) ==
  /\ \/ sess[s] = "settling" /\ sess' = [sess EXCEPT ![s] = "failed"]
     \/ NotifiesRejections /\ sess[s] = "open" /\ UNCHANGED sess
  /\ Notify("failed", s)
  /\ UNCHANGED <<rowVars, processed, mailed, sessOrder, refunded, job>>

SessionTimesOut(s) ==
  /\ sess[s] = "open"
  /\ sess' = [sess EXCEPT ![s] = "expired"]
  /\ UNCHANGED <<rowVars, processed, mailed, sessOrder, refunded, inbox, job>>

RefundInDashboard(s) ==
  /\ sess[s] = "paid"
  /\ s \notin refunded
  /\ refunded' = refunded \cup {s}
  /\ Notify("refunded", s)
  /\ UNCHANGED <<rowVars, processed, mailed, sess, sessOrder, job>>

-----------------------------------------------------------------------------
PayRequest(h) ==
  \/ \E o \in Orders : PlaceOrder(h, o) \/ Pay(h, o)
  \/ LookupSession(h)
  \/ ExpireOld(h)
  \/ \E s \in Sessions : CreateSession(h, s)
  \/ AttachSession(h)
  \/ ExpireQuietly(h)

DeskRequest(h) ==
  \/ \E o \in Orders :
       \/ \E tell \in {"none", "CANCELLED"} : CancelRead(h, o, tell)
       \/ RefundRead(h, o)
       \/ MarkPaidByHand(h, o)
       \/ Ship(h, o)
       \/ PurchaseLabel(h, o)
  \/ CancelCommit(h)
  \/ ExpireQuietly(h)
  \/ RefundAtGateway(h)
  \/ RefundCommit(h)
  \/ ShipLabel(h)
  \/ SendMail(h)

Delivery(h) ==
  \/ \E e \in inbox : Receive(h, e)
  \/ Claim(h)
  \/ DispatchPayment(h)
  \/ DispatchRefund(h)
  \/ DispatchFailure(h)
  \/ SendMail(h)
  \/ StampProcessed(h)

GatewayStep(s) ==
  \/ BuyerPays(s)
  \/ BuyerWillPayLater(s)
  \/ PaymentFails(s)
  \/ SessionTimesOut(s)
  \/ RefundInDashboard(s)

Next ==
  \/ \E h \in PaySlots : PayRequest(h)
  \/ \E h \in DeskSlots : DeskRequest(h)
  \/ \E h \in HookSlots : Delivery(h)
  \/ \E h \in Slots : Abort(h)
  \/ \E o \in Orders : Deliver(o)
  \/ \E s \in Sessions : GatewayStep(s)

Spec == Init /\ [][Next]_vars

-----------------------------------------------------------------------------
(* SAFETY *)

(* The goods are off the shelf exactly while the order may still be shipped *)
(* or was: every cancellation and refund puts them back once, however many  *)
(* routes, redeliveries and deaths of the process took part in it           *)
(* (orders.service.ts cancel, applyRefund).                                 *)
ShelfFollowsStatus ==
  \A o \in Orders :
    unitsOut[o] = IF status[o] \in {"CREATED", "PAID", "SHIPPED", "DELIVERED"}
                  THEN 1 ELSE 0

(* An order is marked paid by a charge only when the buyer paid that charge *)
(* for that order (the webhook's applyPayment).                             *)
ChargeIsReal ==
  \A o \in Orders :
    intentRef[o] # NoRef =>
      sess[intentRef[o]] = "paid" /\ sessOrder[intentRef[o]] = o

(* A payment notice that was stamped processed, and will not come again,    *)
(* did not leave its order waiting for payment (handle: dispatch, then      *)
(* stamp).                                                                  *)
ProcessedPaymentTaken ==
  \A e \in processed :
    e.kind = "paid" => status[sessOrder[e.charge]] # "CREATED"

(* An order is REFUNDED only when the buyer got money back for it: no       *)
(* interleaving of the route, the dashboard and the webhook restocks goods  *)
(* that are still paid for (refund, markRefunded).                          *)
RefundMovedMoney ==
  \A o \in Orders :
    status[o] = "REFUNDED" => \E s \in refunded : sessOrder[s] = o

(* ... and the money that came back is the charge the order was paid with.  *)
RefundIsOfTheOrdersCharge ==
  \A o \in Orders : status[o] = "REFUNDED" => intentRef[o] \in refunded

(* A second payment "moves nothing": an order paid with one charge is not   *)
(* REFUNDED by the refund of another, a duplicate that was refunded by hand *)
(* (docs/specs/payments.md, a second payment on a paid order;               *)
(* applyPayment's log line).                                                *)
DuplicateRefundSparesOrder ==
  \A o \in Orders :
    status[o] = "REFUNDED" /\ intentRef[o] # NoRef => intentRef[o] \in refunded

(* A refund notice stamped processed did not leave the order it refunds     *)
(* PAID, ready to be shipped (payment-events applyRefund).                  *)
ProcessedRefundTaken ==
  \A e \in processed : \A o \in Orders :
    e.kind = "refunded" /\ intentRef[o] = e.charge => status[o] # "PAID"

(* Once the refund route has moved the money, the order is still PAID, so    *)
(* that its own UPDATE or the webhook takes it to REFUNDED, or already is    *)
(* (the fallback refund's comment relies on).                                *)
RoutedRefundConverges ==
  \A h \in DeskSlots :
    job[h].at = "applyRefund" => status[job[h].order] \in {"PAID", "REFUNDED"}

(* No order ever has two sessions the buyer paid or can still pay           *)
(* (issueSession).                                                          *)
OneLiveSession ==
  \A s, t \in Sessions :
    s # t /\ sessOrder[s] = sessOrder[t] => ~(Live(sess[s]) /\ Live(sess[t]))

(* The gateway answers "completed" for the session an order is waiting on   *)
(* only while its payment may still arrive: a failed payment can be retried *)
(* with POST /orders/:id/pay.                                               *)
FailedPaymentCanBeRetried ==
  \A o \in Orders :
    status[o] = "CREATED" /\ paymentRef[o] # NoRef
      /\ Lookup(sess[paymentRef[o]]) = "completed"
    => sess[paymentRef[o]] \in {"settling", "paid"}

(* The charge an order was paid with is never overwritten: a second payment *)
(* is reported, not recorded over the first (applyPayment).                 *)
ChargeNeverReplaced ==
  [][\A o \in Orders : intentRef[o] # NoRef => intentRef'[o] = intentRef[o]]_vars

(* The abstract order: its life cycle, the shelf, one e-mail per change.    *)
Contract == INSTANCE OrderContract
              WITH status <- status, unitsOut <- unitsOut, mailed <- mailed

ContractImplemented == Contract!Spec

-----------------------------------------------------------------------------
(* LIVENESS *)

(* What the code's scheduling justifies: a delivery being handled goes on   *)
(* or dies, a gateway redelivers every notice it was not acknowledged for,  *)
(* and a delivery that is retried for ever is not killed at the same step   *)
(* for ever. Nothing is assumed of buyers, operators or their requests.     *)
ReceivePayment(s) ==
  \E h \in HookSlots : \E e \in inbox :
    e.kind = "paid" /\ e.charge = s /\ Receive(h, e)

PaymentStep(s, label) ==
  \E h \in HookSlots :
    /\ job[h].at = label
    /\ job[h].event # NoEvent
    /\ job[h].event.kind = "paid" /\ job[h].event.charge = s
    /\ Delivery(h)

DeliveryGoesOn(h) == job[h] # Idle /\ Delivery(h)

RedeliveryFairness ==
  /\ \A h \in HookSlots : WF_vars(DeliveryGoesOn(h))
  /\ \A s \in Sessions :
       /\ SF_vars(ReceivePayment(s))
       /\ SF_vars(PaymentStep(s, "claim"))
       /\ SF_vars(PaymentStep(s, "dispatch"))

FairSpec == Spec /\ RedeliveryFairness

(* Money taken for an order that waits for it is eventually recorded: the   *)
(* order does not stay CREATED (it is PAID by this charge or another, or    *)
(* was cancelled meanwhile).                                                *)
PaymentConverges ==
  \A s \in Sessions : \A o \in Orders :
    (sess[s] = "paid" /\ sessOrder[s] = o) ~> (status[o] # "CREATED")

=============================================================================
