------------------------ MODULE OrderLifecycleProofs ------------------------
(***************************************************************************)
(* Proofs about OrderLifecycle, for any number of orders, sessions and      *)
(* concurrent requests, and that it implements OrderContract.               *)
(***************************************************************************)
EXTENDS OrderLifecycle, TLAPS

DeliveryLabels == {"claim", "dispatch", "stamp"}

RequestLabels ==
  {"lookup", "expire", "create", "attach", "expireQuietly",
   "cancel", "refund", "applyRefund", "shipLabel"}

SessionLabels == {"lookup", "expire", "attach", "expireQuietly", "refund", "applyRefund"}

(* What a request must carry to be at its label.                            *)
JobShape(j) ==
  /\ j.at \in RequestLabels => j.order \in Orders /\ j.event = NoEvent
  /\ j.at \in SessionLabels => j.ref \in Sessions
  /\ j.at \in DeliveryLabels => j.event \in Events /\ j.tell = "none"
  /\ j.at = "mail" => j.order \in Orders /\ j.tell \in Mails
  /\ j.at \in {"lookup", "expire", "create", "attach"} => j.tell = "none"
  /\ j.at \in {"cancel", "expireQuietly"} => j.tell \in {"none", "CANCELLED"}

JobsShaped == \A h \in Slots : JobShape(job[h])

TypeInv == TypeOK /\ JobsShaped

(* Every other request stays where it is.                                   *)
OthersStay(h) == \A g \in Slots \ {h} : job'[g] = job[g]

-----------------------------------------------------------------------------
(* What each way of moving a request does to its record, so that no later   *)
(* proof looks inside EXCEPT.                                               *)
LEMMA GotoFacts ==
  ASSUME job \in [Slots -> Jobs], NEW h \in Slots, NEW l \in Labels, Goto(h, l)
  PROVE  /\ job' \in [Slots -> Jobs] /\ OthersStay(h)
         /\ job'[h].at = l
         /\ job'[h].order = job[h].order
         /\ job'[h].ref = job[h].ref
         /\ job'[h].tell = job[h].tell
         /\ job'[h].event = job[h].event
BY DEF Goto, Jobs, OthersStay

LEMMA FinishFacts ==
  ASSUME job \in [Slots -> Jobs], NEW h \in Slots, Finish(h)
  PROVE  /\ job' \in [Slots -> Jobs] /\ OthersStay(h)
         /\ job'[h] = Idle
         /\ job'[h].at = "idle"
BY DEF Finish, Idle, Jobs, Labels, Refs, OthersStay

LEMMA BeginFacts ==
  ASSUME job \in [Slots -> Jobs], NEW h \in Slots, NEW l \in Labels,
         NEW o \in Orders, NEW r \in Refs, NEW k \in Mails \cup {"none"},
         Begin(h, l, o, r, k)
  PROVE  /\ job' \in [Slots -> Jobs] /\ OthersStay(h)
         /\ job'[h].at = l
         /\ job'[h].order = o
         /\ job'[h].ref = r
         /\ job'[h].tell = k
         /\ job'[h].event = NoEvent
BY DEF Begin, Jobs, OthersStay

LEMMA MailThenFacts ==
  ASSUME job \in [Slots -> Jobs], NEW h \in Slots, NEW k \in Mails, MailThen(h, k)
  PROVE  /\ job' \in [Slots -> Jobs] /\ OthersStay(h)
         /\ job'[h].at = "mail"
         /\ job'[h].tell = k
         /\ job'[h].order = job[h].order
         /\ job'[h].ref = job[h].ref
         /\ job'[h].event = job[h].event
BY DEF MailThen, Jobs, Labels, OthersStay

LEMMA CreateFacts ==
  ASSUME job \in [Slots -> Jobs], NEW h \in Slots, NEW s \in Sessions,
         CreateSession(h, s)
  PROVE  /\ job' \in [Slots -> Jobs] /\ OthersStay(h)
         /\ job'[h].at = "attach"
         /\ job'[h].ref = s
         /\ job'[h].tell = job[h].tell
         /\ job'[h].order = job[h].order
         /\ job'[h].event = job[h].event
BY DEF CreateSession, Jobs, Labels, Refs, OthersStay

LEMMA StampedFacts ==
  ASSUME job \in [Slots -> Jobs], NEW h \in Slots,
         job' = [job EXCEPT ![h] = Stamped(h)]
  PROVE  /\ job' \in [Slots -> Jobs] /\ OthersStay(h)
         /\ job'[h].at = "stamp"
         /\ job'[h].order = job[h].order
         /\ job'[h].ref = job[h].ref
         /\ job'[h].tell = job[h].tell
         /\ job'[h].event = job[h].event
BY DEF Stamped, Jobs, Labels, OthersStay

LEMMA AfterMailFacts ==
  ASSUME job \in [Slots -> Jobs], NEW h \in Slots,
         job' = [job EXCEPT ![h] = AfterMail(h)]
  PROVE  /\ job' \in [Slots -> Jobs] /\ OthersStay(h)
         /\ \/ job[h].event = NoEvent /\ job'[h].at = "idle"
            \/ /\ job[h].event # NoEvent
               /\ job'[h].at = "stamp"
               /\ job'[h].order = job[h].order
               /\ job'[h].ref = job[h].ref
               /\ job'[h].tell = "none"
               /\ job'[h].event = job[h].event
<1>1. CASE job[h].event = NoEvent
  <2>1. Finish(h)
    BY <1>1 DEF AfterMail, Finish
  <2>2. QED
    BY <1>1, <2>1, FinishFacts
<1>2. CASE job[h].event # NoEvent
  BY <1>2 DEF AfterMail, Jobs, Labels, OthersStay
<1>3. QED
  BY <1>1, <1>2

LEMMA ReceiveFacts ==
  ASSUME TypeOK, NEW h \in Slots, NEW e, Receive(h, e)
  PROVE  /\ e \in inbox /\ e \in Events
         /\ job' \in [Slots -> Jobs] /\ OthersStay(h)
         /\ job'[h].at = "claim"
         /\ job'[h].order \in Resolved(e)
         /\ job'[h].ref = e.charge
         /\ job'[h].tell = "none"
         /\ job'[h].event = e
<1>1. e \in inbox /\ e \in Events
  BY DEF Receive, TypeOK
<1>2. PICK o \in Resolved(e) :
        job' = [job EXCEPT ![h] = [at |-> "claim", order |-> o, ref |-> e.charge,
                                   tell |-> "none", event |-> e]]
  BY DEF Receive
<1>3. o \in Orders \cup {NoOrder}
  BY <1>1, <1>2 DEF Resolved, Events
<1>4. e.charge \in Refs
  BY <1>1 DEF Events, Refs
<1>5. QED
  BY <1>1, <1>2, <1>3, <1>4 DEF TypeOK, Jobs, Labels, OthersStay

-----------------------------------------------------------------------------
LEMMA NotifyType ==
  ASSUME TypeOK, NEW kind \in NoticeKinds, NEW s \in Sessions, Notify(kind, s)
  PROVE  inbox' \in SUBSET Events
<1>1. PICK o \in OrderFields(kind, sessOrder[s], NoOrder) :
        inbox' = inbox \cup {[kind |-> kind, charge |-> s, order |-> o]}
  BY DEF Notify
<1>2. o \in Orders \cup {NoOrder}
  BY <1>1 DEF OrderFields, TypeOK
<1>3. QED
  BY <1>1, <1>2 DEF Events, TypeOK

LEMMA InitType == Init => TypeInv
<1> SUFFICES ASSUME Init PROVE TypeInv
  OBVIOUS
<1>1. Idle \in Jobs /\ Idle.at = "idle"
  BY DEF Idle, Jobs, Labels, Refs
<1>2. job \in [Slots -> Jobs] /\ JobsShaped
  BY <1>1 DEF Init, JobsShaped, JobShape, DeliveryLabels, RequestLabels, SessionLabels
<1>3. QED
  BY <1>2 DEF Init, TypeInv, TypeOK, Refs, Statuses, Mails, SessionStates

LEMMA JobStepType ==
  ASSUME TypeInv, NEW h \in Slots, TypeOK', OthersStay(h), JobShape(job'[h])
  PROVE  TypeInv'
<1>1. \A g \in Slots : JobShape(job'[g])
  BY DEF TypeInv, JobsShaped, OthersStay
<1>2. QED
  BY <1>1 DEF TypeInv, JobsShaped

LEMMA PayRequestType ==
  ASSUME TypeInv, NEW h \in Slots, PayRequest(h)
  PROVE  TypeInv'
<1> USE DEF TypeOK, rowVars, gatewayVars, JobShape, DeliveryLabels, RequestLabels,
            SessionLabels
<1> TypeOK /\ JobShape(job[h])
  BY DEF TypeInv, JobsShaped
<1> SUFFICES TypeOK' /\ OthersStay(h) /\ JobShape(job'[h])
  BY JobStepType
<1>1. CASE \E o \in Orders : PlaceOrder(h, o)
  <2> PICK o \in Orders : PlaceOrder(h, o)
    BY <1>1
  <2>1. status' \in [Orders -> Statuses] /\ unitsOut' \in [Orders -> Int]
    BY DEF PlaceOrder, Transition, Statuses
  <2>2. /\ job' \in [Slots -> Jobs] /\ OthersStay(h)
        /\ job'[h].at = "create" /\ job'[h].order = o /\ job'[h].event = NoEvent
        /\ job'[h].tell = "none"
    BY BeginFacts, ZenonT(30) DEF PlaceOrder, Labels, Refs
  <2>3. QED
    BY <2>1, <2>2 DEF PlaceOrder
<1>2. CASE \E o \in Orders : Pay(h, o)
  <2> PICK o \in Orders : Pay(h, o)
    BY <1>2
  <2> DEFINE l == IF paymentRef[o] = NoRef THEN "create" ELSE "lookup"
  <2>1. /\ l \in Labels
        /\ Begin(h, l, o, paymentRef[o], "none")
        /\ l = "create" \/ (l = "lookup" /\ paymentRef[o] # NoRef)
    BY DEF Pay, Labels
  <2> HIDE DEF l
  <2>2. /\ job' \in [Slots -> Jobs] /\ OthersStay(h)
        /\ job'[h].at = l /\ job'[h].order = o /\ job'[h].event = NoEvent
        /\ job'[h].ref = paymentRef[o] /\ job'[h].tell = "none"
    BY <2>1, BeginFacts
  <2>3. QED
    BY <2>1, <2>2 DEF Pay, Refs
<1>3. CASE LookupSession(h)
  BY <1>3, GotoFacts, FinishFacts DEF LookupSession, Labels
<1>4. CASE ExpireOld(h)
  <2>1. sess' \in [Sessions -> SessionStates]
    BY <1>4 DEF ExpireOld, AfterExpire, SessionStates
  <2>2. QED
    BY <1>4, <2>1, GotoFacts, FinishFacts DEF ExpireOld, Labels
<1>5. CASE \E s \in Sessions : CreateSession(h, s)
  <2> PICK s \in Sessions : CreateSession(h, s)
    BY <1>5
  <2>1. sess' \in [Sessions -> SessionStates]
    BY DEF CreateSession, SessionStates
  <2>2. sessOrder' \in [Sessions -> Orders \cup {NoOrder}]
    BY DEF CreateSession, Jobs
  <2>3. /\ job' \in [Slots -> Jobs] /\ OthersStay(h)
        /\ job'[h].at = "attach" /\ job'[h].ref = s /\ job'[h].tell = "none"
        /\ job'[h].order \in Orders /\ job'[h].event = NoEvent
    BY CreateFacts DEF CreateSession
  <2>4. QED
    BY <2>1, <2>2, <2>3 DEF CreateSession
<1>6. CASE AttachSession(h)
  <2>1. paymentRef' \in [Orders -> Refs]
    BY <1>6 DEF AttachSession, Jobs
  <2>2. QED
    BY <1>6, <2>1, GotoFacts, FinishFacts DEF AttachSession, Labels
<1>7. CASE ExpireQuietly(h)
  <2>1. sess' \in [Sessions -> SessionStates]
    BY <1>7 DEF ExpireQuietly, AfterExpire, SessionStates
  <2>2. QED
    BY <1>7, <2>1, GotoFacts, FinishFacts DEF ExpireQuietly, Labels, Jobs
<1>8. QED
  BY <1>1, <1>2, <1>3, <1>4, <1>5, <1>6, <1>7 DEF PayRequest

LEMMA ApplyRefundType ==
  ASSUME TypeOK, NEW h \in Slots, NEW r, ApplyRefund(h, r)
  PROVE  /\ status' \in [Orders -> Statuses]
         /\ unitsOut' \in [Orders -> Int]
         /\ MailThen(h, "REFUNDED") \/ job' = [job EXCEPT ![h] = r]
BY DEF ApplyRefund, Transition, TypeOK, Statuses

LEMMA SendMailType ==
  ASSUME TypeInv, NEW h \in Slots, SendMail(h)
  PROVE  TypeInv'
<1> USE DEF TypeOK, rowVars, gatewayVars, JobShape, DeliveryLabels, RequestLabels,
            SessionLabels
<1> TypeOK /\ JobShape(job[h])
  BY DEF TypeInv, JobsShaped
<1>1. mailed' \in [Orders -> [Mails -> Nat]]
  <2>1. job[h].order \in Orders /\ job[h].tell \in Mails
    BY DEF SendMail
  <2>2. [mailed[job[h].order] EXCEPT ![job[h].tell] = @ + 1] \in [Mails -> Nat]
    BY <2>1
  <2>3. QED
    BY <2>1, <2>2 DEF SendMail
<1>2. job' \in [Slots -> Jobs] /\ OthersStay(h)
  BY AfterMailFacts DEF SendMail
<1>3. JobShape(job'[h])
  BY AfterMailFacts DEF SendMail, Jobs
<1>4. QED
  BY <1>1, <1>2, <1>3, JobStepType DEF SendMail, TypeInv

LEMMA DeskRequestType ==
  ASSUME TypeInv, NEW h \in Slots, DeskRequest(h)
  PROVE  TypeInv'
<1> USE DEF TypeOK, rowVars, gatewayVars, JobShape, DeliveryLabels, RequestLabels,
            SessionLabels
<1> TypeOK /\ JobShape(job[h])
  BY DEF TypeInv, JobsShaped
<1>1. CASE SendMail(h)
  BY <1>1, SendMailType
<1>2. CASE ExpireQuietly(h)
  BY <1>2, PayRequestType DEF PayRequest
<1> SUFFICES ASSUME ~SendMail(h), ~ExpireQuietly(h)
             PROVE  TypeOK' /\ OthersStay(h) /\ JobShape(job'[h])
  BY <1>1, <1>2, JobStepType
<1>3. CASE \E o \in Orders, tell \in {"none", "CANCELLED"} : CancelRead(h, o, tell)
  <2> PICK o \in Orders, tell \in {"none", "CANCELLED"} : CancelRead(h, o, tell)
    BY <1>3
  <2>1. "cancel" \in Labels /\ paymentRef[o] \in Refs /\ tell \in Mails \cup {"none"}
    BY DEF Labels, Mails, Refs
  <2>2. Begin(h, "cancel", o, paymentRef[o], tell)
    BY DEF CancelRead
  <2>3. /\ job' \in [Slots -> Jobs] /\ OthersStay(h)
        /\ job'[h].at = "cancel" /\ job'[h].order = o /\ job'[h].event = NoEvent
        /\ job'[h].tell \in {"none", "CANCELLED"}
    BY <2>1, <2>2, BeginFacts
  <2>4. QED
    BY <2>3 DEF CancelRead
<1>4. CASE \E o \in Orders : RefundRead(h, o)
  BY <1>4, BeginFacts DEF RefundRead, Labels, Refs
<1>5. CASE \E o \in Orders : MarkPaidByHand(h, o) \/ Ship(h, o)
  <2> PICK o \in Orders : MarkPaidByHand(h, o) \/ Ship(h, o)
    BY <1>5
  <2>1. status' \in [Orders -> Statuses]
    BY DEF MarkPaidByHand, Ship, Transition, Statuses
  <2>2. \/ Begin(h, "mail", o, NoRef, "PAID")
        \/ Begin(h, "mail", o, NoRef, "SHIPPED")
    BY DEF MarkPaidByHand, Ship
  <2>3. "mail" \in Labels /\ NoRef \in Refs /\ "PAID" \in Mails /\ "SHIPPED" \in Mails
    BY DEF Labels, Mails, Refs
  <2>4. /\ job' \in [Slots -> Jobs] /\ OthersStay(h) /\ job'[h].at = "mail"
        /\ job'[h].order = o /\ job'[h].event = NoEvent /\ job'[h].tell \in Mails
    BY <2>2, <2>3, BeginFacts
  <2>5. QED
    BY <2>1, <2>4 DEF MarkPaidByHand, Ship
<1>6. CASE \E o \in Orders : PurchaseLabel(h, o)
  <2> PICK o \in Orders : PurchaseLabel(h, o)
    BY <1>6
  <2>1. /\ job' \in [Slots -> Jobs] /\ OthersStay(h)
        /\ job'[h].at = "shipLabel" /\ job'[h].order = o /\ job'[h].event = NoEvent
    BY BeginFacts DEF PurchaseLabel, Labels, Refs
  <2>2. QED
    BY <2>1 DEF PurchaseLabel
<1>7. CASE CancelCommit(h)
  <2>1. status' \in [Orders -> Statuses]
    BY <1>7 DEF CancelCommit, Transition, Statuses
  <2>2. unitsOut' \in [Orders -> Int]
    BY <1>7 DEF CancelCommit
  <2>3. QED
    BY <1>7, <2>1, <2>2, GotoFacts, FinishFacts DEF CancelCommit, Labels, Jobs, Refs
<1>8. CASE RefundAtGateway(h)
  <2>1. refunded' \in SUBSET Sessions
    BY <1>8 DEF RefundAtGateway
  <2>2. inbox' \in SUBSET Events
    BY <1>8, NotifyType DEF RefundAtGateway, NoticeKinds
  <2>3. QED
    BY <1>8, <2>1, <2>2, GotoFacts, FinishFacts DEF RefundAtGateway, Labels
<1>9. CASE RefundCommit(h)
  BY <1>9, ApplyRefundType, MailThenFacts, FinishFacts DEF RefundCommit, Finish, Mails
<1>10. CASE ShipLabel(h)
  <2>1. status' \in [Orders -> Statuses]
    BY <1>10 DEF ShipLabel, Transition, Statuses
  <2>2. QED
    BY <1>10, <2>1, MailThenFacts, FinishFacts DEF ShipLabel, Mails
<1>11. QED
  BY <1>1, <1>2, <1>3, <1>4, <1>5, <1>6, <1>7, <1>8, <1>9, <1>10 DEF DeskRequest

LEMMA DeliveryType ==
  ASSUME TypeInv, NEW h \in Slots, Delivery(h)
  PROVE  TypeInv'
<1> USE DEF TypeOK, rowVars, gatewayVars, JobShape, DeliveryLabels, RequestLabels,
            SessionLabels
<1> TypeOK /\ JobShape(job[h])
  BY DEF TypeInv, JobsShaped
<1>1. CASE SendMail(h)
  BY <1>1, SendMailType
<1> SUFFICES ASSUME ~SendMail(h)
             PROVE  TypeOK' /\ OthersStay(h) /\ JobShape(job'[h])
  BY <1>1, JobStepType
<1>2. CASE \E e \in inbox : Receive(h, e)
  <2> PICK e \in inbox : Receive(h, e)
    BY <1>2
  <2>1. /\ job' \in [Slots -> Jobs] /\ OthersStay(h)
        /\ job'[h].at = "claim" /\ job'[h].event \in Events /\ job'[h].tell = "none"
    BY ReceiveFacts
  <2>2. QED
    BY <2>1 DEF Receive
<1>3. CASE Claim(h)
  BY <1>3, GotoFacts, FinishFacts DEF Claim, Acknowledge, Labels
<1>4. CASE DispatchPayment(h)
  <2>1. status' \in [Orders -> Statuses] /\ intentRef' \in [Orders -> Refs]
    BY <1>4 DEF DispatchPayment, Transition, Statuses, Events, Refs
  <2>2. QED
    BY <1>4, <2>1, MailThenFacts, StampedFacts DEF DispatchPayment, Mails
<1>5. CASE DispatchRefund(h)
  <2>1. CASE ApplyRefund(h, Stamped(h))
    <3>1. status' \in [Orders -> Statuses] /\ unitsOut' \in [Orders -> Int]
      BY <2>1, ApplyRefundType
    <3>2. CASE MailThen(h, "REFUNDED") /\ job[h].order \in Orders
      BY <1>5, <3>1, <3>2, MailThenFacts DEF DispatchRefund, Mails
    <3>3. CASE job' = [job EXCEPT ![h] = Stamped(h)]
      BY <1>5, <3>1, <3>3, StampedFacts DEF DispatchRefund
    <3>4. job[h].order # NoOrder => job[h].order \in Orders
      BY DEF Jobs
    <3>5. CASE job[h].order = NoOrder
      BY <1>5, <3>5, FinishFacts DEF DispatchRefund
    <3>6. QED
      BY <2>1, <3>2, <3>3, <3>4, <3>5, ApplyRefundType
  <2>2. CASE Finish(h) /\ UNCHANGED <<status, unitsOut>>
    BY <1>5, <2>2, FinishFacts DEF DispatchRefund
  <2>3. QED
    BY <1>5, <2>1, <2>2 DEF DispatchRefund
<1>6. CASE DispatchFailure(h)
  BY <1>6, StampedFacts DEF DispatchFailure
<1>7. CASE StampProcessed(h)
  BY <1>7, FinishFacts DEF StampProcessed, Acknowledge
<1>8. QED
  BY <1>1, <1>2, <1>3, <1>4, <1>5, <1>6, <1>7 DEF Delivery

LEMMA GatewayStepType ==
  ASSUME TypeInv, NEW s \in Sessions, GatewayStep(s)
  PROVE  TypeInv'
<1> USE DEF TypeOK, rowVars, gatewayVars
<1> TypeOK
  BY DEF TypeInv
<1>1. sess' \in [Sessions -> SessionStates] /\ refunded' \in SUBSET Sessions
  BY DEF GatewayStep, BuyerPays, BuyerWillPayLater, PaymentFails, SessionTimesOut,
         RefundInDashboard, SessionStates
<1>2. inbox' \in SUBSET Events
  BY NotifyType DEF GatewayStep, BuyerPays, BuyerWillPayLater, PaymentFails,
     SessionTimesOut, RefundInDashboard, NoticeKinds
<1>3. UNCHANGED <<rowVars, processed, mailed, sessOrder, job>>
  BY DEF GatewayStep, BuyerPays, BuyerWillPayLater, PaymentFails, SessionTimesOut,
         RefundInDashboard
<1>4. QED
  BY <1>1, <1>2, <1>3 DEF TypeInv, JobsShaped

LEMMA NextType == TypeInv /\ [Next]_vars => TypeInv'
<1> SUFFICES ASSUME TypeInv, [Next]_vars PROVE TypeInv'
  OBVIOUS
<1>1. CASE \E h \in Slots : PayRequest(h) \/ DeskRequest(h) \/ Delivery(h)
  BY <1>1, PayRequestType, DeskRequestType, DeliveryType
<1>2. CASE \E h \in Slots : Abort(h)
  <2> PICK h \in Slots : Abort(h)
    BY <1>2
  <2>1. job' \in [Slots -> Jobs] /\ OthersStay(h) /\ job'[h].at = "idle"
    BY FinishFacts DEF Abort, TypeInv, TypeOK
  <2>2. QED
    BY <2>1, JobStepType DEF Abort, TypeInv, TypeOK, rowVars, gatewayVars, JobShape,
       DeliveryLabels, RequestLabels, SessionLabels
<1>3. CASE \E o \in Orders : Deliver(o)
  BY <1>3 DEF Deliver, Transition, TypeInv, TypeOK, JobsShaped, Statuses, gatewayVars
<1>4. CASE \E s \in Sessions : GatewayStep(s)
  BY <1>4, GatewayStepType
<1>5. CASE UNCHANGED vars
  BY <1>5 DEF vars, rowVars, gatewayVars, TypeInv, TypeOK, JobsShaped
<1>6. QED
  BY <1>1, <1>2, <1>3, <1>4, <1>5 DEF Next, Slots

(* Every reachable state is well typed, whatever the number of orders,      *)
(* sessions and requests in flight.                                          *)
THEOREM TypeCorrect == Spec => []TypeOK
<1>1. Spec => []TypeInv
  BY InitType, NextType, PTL DEF Spec
<1>2. TypeInv => TypeOK
  BY DEF TypeInv
<1>3. QED
  BY <1>1, <1>2, PTL

-----------------------------------------------------------------------------
(* THE SHELF *)

(* How any step changes the rows: not at all, or one order moves along one  *)
(* arrow of the contract, with that arrow's effect on the shelf; a charge   *)
(* is only ever written on an order that leaves CREATED.                    *)
RowsMove(o, to) ==
  /\ Contract!Arrow(status[o], to)
  /\ status' = [status EXCEPT ![o] = to]
  /\ unitsOut' = [unitsOut EXCEPT ![o] = @ + Contract!ShelfChange(to)]
  /\ \/ intentRef' = intentRef
     \/ status[o] = "CREATED" /\ \E c \in Refs : intentRef' = [intentRef EXCEPT ![o] = c]

RowsStay == UNCHANGED <<status, unitsOut, intentRef>>

RowsStep == RowsStay \/ \E o \in Orders, to \in Statuses : RowsMove(o, to)

LEMMA PayRequestRows ==
  ASSUME TypeInv, NEW h \in Slots, PayRequest(h)
  PROVE  RowsStep
<1>1. CASE \E o \in Orders : PlaceOrder(h, o)
  <2> PICK o \in Orders : PlaceOrder(h, o)
    BY <1>1
  <2>1. RowsMove(o, "CREATED")
    BY DEF PlaceOrder, Transition, RowsMove, Contract!Arrow, Contract!ShelfChange
  <2>2. QED
    BY <2>1 DEF RowsStep, Statuses
<1>2. CASE ~ \E o \in Orders : PlaceOrder(h, o)
  BY <1>2 DEF PayRequest, Pay, LookupSession, ExpireOld, CreateSession, AttachSession,
              ExpireQuietly, RowsStep, RowsStay, rowVars
<1>3. QED
  BY <1>1, <1>2

LEMMA ApplyRefundRows ==
  ASSUME TypeInv, NEW h \in Slots, NEW r, ApplyRefund(h, r), job[h].order \in Orders,
         UNCHANGED intentRef
  PROVE  RowsStep
<1>1. CASE status[job[h].order] = "PAID"
  <2>1. RowsMove(job[h].order, "REFUNDED")
    BY <1>1 DEF ApplyRefund, Transition, RowsMove, Contract!Arrow, Contract!ShelfChange,
                TypeInv, TypeOK
  <2>2. QED
    BY <2>1 DEF RowsStep, Statuses
<1>2. CASE status[job[h].order] # "PAID"
  BY <1>2 DEF ApplyRefund, RowsStep, RowsStay
<1>3. QED
  BY <1>1, <1>2

LEMMA DeskRequestRows ==
  ASSUME TypeInv, NEW h \in Slots, DeskRequest(h)
  PROVE  RowsStep
<1> JobShape(job[h])
  BY DEF TypeInv, JobsShaped
<1>1. CASE \E o \in Orders : MarkPaidByHand(h, o)
  <2> PICK o \in Orders : MarkPaidByHand(h, o)
    BY <1>1
  <2>1. RowsMove(o, "PAID")
    BY DEF MarkPaidByHand, Transition, RowsMove, Contract!Arrow, Contract!ShelfChange,
           TypeInv, TypeOK
  <2>2. QED
    BY <2>1 DEF RowsStep, Statuses
<1>2. CASE \E o \in Orders : Ship(h, o)
  <2> PICK o \in Orders : Ship(h, o)
    BY <1>2
  <2>1. RowsMove(o, "SHIPPED")
    BY DEF Ship, Transition, RowsMove, Contract!Arrow, Contract!ShelfChange,
           TypeInv, TypeOK
  <2>2. QED
    BY <2>1 DEF RowsStep, Statuses
<1>3. CASE CancelCommit(h)
  <2> DEFINE o == job[h].order
  <2>1. o \in Orders
    BY <1>3 DEF CancelCommit, JobShape, RequestLabels
  <2>2. CASE status[o] = "CREATED"
    <3>1. RowsMove(o, "CANCELLED")
      BY <1>3, <2>2 DEF CancelCommit, Transition, RowsMove, Contract!Arrow,
                        Contract!ShelfChange, TypeInv, TypeOK
    <3>2. QED
      BY <2>1, <3>1 DEF RowsStep, Statuses
  <2>3. CASE status[o] # "CREATED"
    BY <1>3, <2>3 DEF CancelCommit, RowsStep, RowsStay
  <2>4. QED
    BY <2>2, <2>3
<1>4. CASE RefundCommit(h)
  BY <1>4, ApplyRefundRows DEF RefundCommit, JobShape, RequestLabels
<1>5. CASE ShipLabel(h)
  <2> DEFINE o == job[h].order
  <2>1. o \in Orders
    BY <1>5 DEF ShipLabel, JobShape, RequestLabels
  <2>2. CASE status[o] = "PAID"
    <3>1. RowsMove(o, "SHIPPED")
      BY <1>5, <2>2 DEF ShipLabel, Transition, RowsMove, Contract!Arrow,
                        Contract!ShelfChange, TypeInv, TypeOK
    <3>2. QED
      BY <2>1, <3>1 DEF RowsStep, Statuses
  <2>3. CASE status[o] # "PAID"
    BY <1>5, <2>3 DEF ShipLabel, RowsStep, RowsStay
  <2>4. QED
    BY <2>2, <2>3
<1>6. CASE \/ \E o \in Orders, tell \in {"none", "CANCELLED"} : CancelRead(h, o, tell)
           \/ \E o \in Orders : RefundRead(h, o) \/ PurchaseLabel(h, o)
           \/ ExpireQuietly(h) \/ RefundAtGateway(h) \/ SendMail(h)
  BY <1>6 DEF CancelRead, RefundRead, PurchaseLabel, ExpireQuietly, RefundAtGateway,
              SendMail, RowsStep, RowsStay, rowVars
<1>7. QED
  BY <1>1, <1>2, <1>3, <1>4, <1>5, <1>6 DEF DeskRequest

LEMMA DeliveryRows ==
  ASSUME TypeInv, NEW h \in Slots, Delivery(h)
  PROVE  RowsStep
<1>1. CASE DispatchPayment(h)
  <2> DEFINE o == job[h].order
  <2>1. CASE o \in Orders /\ status[o] = "CREATED"
    <3>1. job[h].event.charge \in Refs
      BY <1>1 DEF DispatchPayment, TypeInv, JobsShaped, JobShape, DeliveryLabels, Events,
                  Refs
    <3>2. RowsMove(o, "PAID")
      BY <1>1, <2>1, <3>1 DEF DispatchPayment, Transition, RowsMove, Contract!Arrow,
                              Contract!ShelfChange, TypeInv, TypeOK
    <3>3. QED
      BY <2>1, <3>2 DEF RowsStep, Statuses
  <2>2. CASE ~(o \in Orders /\ status[o] = "CREATED")
    BY <1>1, <2>2 DEF DispatchPayment, RowsStep, RowsStay
  <2>3. QED
    BY <2>1, <2>2
<1>2. CASE DispatchRefund(h)
  <2>1. CASE job[h].order = NoOrder
    BY <1>2, <2>1 DEF DispatchRefund, RowsStep, RowsStay
  <2>2. CASE job[h].order # NoOrder
    <3>1. job[h].order \in Orders
      BY <2>2 DEF TypeInv, TypeOK, Jobs
    <3>2. QED
      BY <1>2, <2>2, <3>1, ApplyRefundRows DEF DispatchRefund
  <2>3. QED
    BY <2>1, <2>2
<1>3. CASE \/ \E e \in inbox : Receive(h, e)
           \/ Claim(h) \/ DispatchFailure(h) \/ SendMail(h) \/ StampProcessed(h)
  BY <1>3 DEF Receive, Claim, DispatchFailure, SendMail, StampProcessed, RowsStep,
              RowsStay, rowVars
<1>4. QED
  BY <1>1, <1>2, <1>3 DEF Delivery

LEMMA NextRows == TypeInv /\ [Next]_vars => RowsStep
<1> SUFFICES ASSUME TypeInv, [Next]_vars PROVE RowsStep
  OBVIOUS
<1>1. CASE \E h \in Slots : PayRequest(h) \/ DeskRequest(h) \/ Delivery(h)
  BY <1>1, PayRequestRows, DeskRequestRows, DeliveryRows
<1>2. CASE \E o \in Orders : Deliver(o)
  <2> PICK o \in Orders : Deliver(o)
    BY <1>2
  <2>1. RowsMove(o, "DELIVERED")
    BY DEF Deliver, Transition, RowsMove, Contract!Arrow, Contract!ShelfChange,
           TypeInv, TypeOK
  <2>2. QED
    BY <2>1 DEF RowsStep, Statuses
<1>3. CASE \/ \E h \in Slots : Abort(h)
           \/ \E s \in Sessions : GatewayStep(s)
           \/ UNCHANGED vars
  BY <1>3 DEF Abort, GatewayStep, BuyerPays, BuyerWillPayLater, PaymentFails,
              SessionTimesOut, RefundInDashboard, vars, rowVars, RowsStep, RowsStay
<1>4. QED
  BY <1>1, <1>2, <1>3 DEF Next, Slots

(* The goods of an order are off the shelf exactly while it can still be    *)
(* shipped or was, whatever routes, deliveries and deaths took part, for    *)
(* every gateway.                                                            *)
THEOREM ShelfCorrect == Spec => []ShelfFollowsStatus
<1>1. Init => ShelfFollowsStatus
  BY DEF Init, ShelfFollowsStatus
<1>2. TypeInv /\ ShelfFollowsStatus /\ [Next]_vars => ShelfFollowsStatus'
  <2> SUFFICES ASSUME TypeInv, ShelfFollowsStatus, [Next]_vars
               PROVE  ShelfFollowsStatus'
    OBVIOUS
  <2>1. CASE RowsStay
    BY <2>1 DEF RowsStay, ShelfFollowsStatus
  <2>2. CASE \E o \in Orders, to \in Statuses : RowsMove(o, to)
    <3> PICK o \in Orders, to \in Statuses : RowsMove(o, to)
      BY <2>2
    <3>1. /\ status' = [status EXCEPT ![o] = to]
          /\ unitsOut' = [unitsOut EXCEPT ![o] = unitsOut[o] + Contract!ShelfChange(to)]
          /\ status \in [Orders -> Statuses]
          /\ unitsOut \in [Orders -> Int]
      BY DEF RowsMove, TypeInv, TypeOK
    <3>2. unitsOut'[o] = IF to \in {"CREATED", "PAID", "SHIPPED", "DELIVERED"}
                         THEN 1 ELSE 0
      BY <3>1 DEF RowsMove, Contract!Arrow, Contract!ShelfChange, ShelfFollowsStatus,
                  Statuses
    <3>3. QED
      BY <3>1, <3>2 DEF ShelfFollowsStatus
  <2>3. QED
    BY <2>1, <2>2, NextRows DEF RowsStep
<1>3. QED
  BY <1>1, <1>2, InitType, NextType, PTL DEF Spec

-----------------------------------------------------------------------------
(* MONEY *)

Faithful == Gateway # "mercadopago"
RefundsUnnamed == Faithful /\ RefundNames = {FALSE}

(* What a notice says is true, at the gateway, for ever.                    *)
NoticeTrue(e) ==
  /\ sess[e.charge] # "unused"
  /\ e.order # NoOrder => e.order = sessOrder[e.charge]
  /\ e.kind = "paid" => sess[e.charge] = "paid"
  /\ e.kind = "paid" /\ Faithful => e.order # NoOrder
  /\ e.kind = "refunded" => e.charge \in refunded
  /\ e.kind = "refunded" /\ RefundsUnnamed => e.order = NoOrder

(* The notice has done to its order what it can do.                         *)
PaymentTaken(e) ==
  e.kind = "paid" => status[sessOrder[e.charge]] \notin {"NONE", "CREATED"}

RefundTaken(e) ==
  e.kind = "refunded" =>
    /\ sessOrder[e.charge] \in Orders
    /\ intentRef[sessOrder[e.charge]] = e.charge
    /\ status[sessOrder[e.charge]] \notin {"NONE", "CREATED", "PAID"}

Taken(e) ==
  /\ Faithful => PaymentTaken(e)
  /\ RefundsUnnamed => RefundTaken(e)

JobMoney(j) ==
  /\ j.at \in RequestLabels => status[j.order] # "NONE"
  /\ j.at \in {"refund", "applyRefund"} => intentRef[j.order] = j.ref
  /\ j.at = "applyRefund" => j.ref \in refunded
  /\ j.event \in Events => NoticeTrue(j.event)
  /\ j.at \in {"claim", "dispatch"} =>
       /\ j.order # NoOrder => j.order = sessOrder[j.event.charge]
       /\ Faithful /\ j.event.kind = "paid" => j.order # NoOrder
       /\ RefundsUnnamed /\ j.event.kind = "refunded" /\ j.order # NoOrder =>
            intentRef[j.order] = j.event.charge
  /\ j.at \in {"mail", "stamp"} /\ j.event \in Events => Taken(j.event)

SessionMoney(s) ==
  /\ sess[s] # "unused" => sessOrder[s] \in Orders /\ status[sessOrder[s]] # "NONE"
  /\ s \in refunded => sess[s] = "paid"

OrderMoney(o) ==
  /\ intentRef[o] # NoRef =>
       /\ status[o] \notin {"NONE", "CREATED"}
       /\ sess[intentRef[o]] # "unused"
       /\ sessOrder[intentRef[o]] = o
       /\ Faithful => sess[intentRef[o]] = "paid"
  /\ status[o] = "REFUNDED" =>
       /\ \E s \in refunded : sessOrder[s] = o
       /\ RefundsUnnamed => intentRef[o] \in refunded

MoneyInv ==
  /\ \A s \in Sessions : SessionMoney(s)
  /\ \A o \in Orders : OrderMoney(o)
  /\ \A e \in inbox : NoticeTrue(e)
  /\ \A e \in processed : NoticeTrue(e) /\ Taken(e)
  /\ \A h \in Slots : JobMoney(job[h])

(* How any step changes the gateway: at most one session moves, never out   *)
(* of "paid" and never back to "unused", and only its creation says whose   *)
(* it is.                                                                    *)
SessionMoves(s, to) ==
  /\ sess[s] # "paid"
  /\ to # "unused"
  /\ sess' = [sess EXCEPT ![s] = to]
  /\ \/ sessOrder' = sessOrder
     \/ sess[s] = "unused" /\ \E o \in Orders : sessOrder' = [sessOrder EXCEPT ![s] = o]

SessionsStep ==
  /\ refunded \subseteq refunded'
  /\ \/ UNCHANGED <<sess, sessOrder>>
     \/ \E s \in Sessions, to \in SessionStates : SessionMoves(s, to)

LEMMA ExpireSessions ==
  ASSUME TypeInv, NEW s \in Sessions, sess' = [sess EXCEPT ![s] = AfterExpire(@)],
         UNCHANGED <<sessOrder, refunded>>
  PROVE  SessionsStep
<1>1. CASE sess[s] = "open"
  <2>1. SessionMoves(s, "expired")
    BY <1>1 DEF SessionMoves, AfterExpire
  <2>2. QED
    BY <2>1 DEF SessionsStep, SessionStates
<1>2. CASE sess[s] # "open"
  BY <1>2 DEF SessionsStep, AfterExpire, TypeInv, TypeOK
<1>3. QED
  BY <1>1, <1>2

LEMMA PayRequestSessions ==
  ASSUME TypeInv, NEW h \in Slots, PayRequest(h)
  PROVE  SessionsStep
<1> JobShape(job[h])
  BY DEF TypeInv, JobsShaped
<1>1. CASE \E s \in Sessions : CreateSession(h, s)
  <2> PICK s \in Sessions : CreateSession(h, s)
    BY <1>1
  <2>1. job[h].order \in Orders
    BY DEF CreateSession, JobShape, RequestLabels
  <2>2. SessionMoves(s, "open")
    BY <2>1 DEF CreateSession, SessionMoves
  <2>3. QED
    BY <2>2 DEF CreateSession, SessionsStep, SessionStates
<1>2. CASE ExpireOld(h) \/ ExpireQuietly(h)
  <2>1. job[h].ref \in Sessions
    BY <1>2 DEF ExpireOld, ExpireQuietly, JobShape, SessionLabels
  <2>2. /\ UNCHANGED <<sessOrder, refunded>>
        /\ \/ UNCHANGED sess
           \/ sess' = [sess EXCEPT ![job[h].ref] = AfterExpire(@)]
    BY <1>2 DEF ExpireOld, ExpireQuietly
  <2>3. QED
    BY <2>1, <2>2, ExpireSessions DEF SessionsStep
<1>3. CASE \/ \E o \in Orders : PlaceOrder(h, o) \/ Pay(h, o)
           \/ LookupSession(h) \/ AttachSession(h)
  BY <1>3 DEF PlaceOrder, Pay, LookupSession, AttachSession, gatewayVars, SessionsStep
<1>4. QED
  BY <1>1, <1>2, <1>3 DEF PayRequest

LEMMA GatewaySessions ==
  ASSUME TypeInv, NEW s \in Sessions, GatewayStep(s)
  PROVE  SessionsStep
<1>1. CASE RefundInDashboard(s)
  BY <1>1 DEF RefundInDashboard, SessionsStep
<1>2. CASE PaymentFails(s) /\ UNCHANGED sess
  BY <1>2 DEF PaymentFails, SessionsStep
<1>3. CASE BuyerPays(s)
  <2>1. SessionMoves(s, "paid")
    BY <1>3 DEF BuyerPays, SessionMoves
  <2>2. QED
    BY <1>3, <2>1 DEF BuyerPays, SessionsStep, SessionStates
<1>4. CASE BuyerWillPayLater(s)
  <2>1. SessionMoves(s, "settling")
    BY <1>4 DEF BuyerWillPayLater, SessionMoves
  <2>2. QED
    BY <1>4, <2>1 DEF BuyerWillPayLater, SessionsStep, SessionStates
<1>5. CASE PaymentFails(s) /\ sess' # sess
  <2>1. SessionMoves(s, "failed")
    BY <1>5 DEF PaymentFails, SessionMoves
  <2>2. QED
    BY <1>5, <2>1 DEF PaymentFails, SessionsStep, SessionStates
<1>6. CASE SessionTimesOut(s)
  <2>1. SessionMoves(s, "expired")
    BY <1>6 DEF SessionTimesOut, SessionMoves
  <2>2. QED
    BY <1>6, <2>1 DEF SessionTimesOut, SessionsStep, SessionStates
<1>7. QED
  BY <1>1, <1>2, <1>3, <1>4, <1>5, <1>6 DEF GatewayStep

LEMMA NextSessions == TypeInv /\ [Next]_vars => SessionsStep
<1> SUFFICES ASSUME TypeInv, [Next]_vars PROVE SessionsStep
  OBVIOUS
<1>1. CASE \E h \in Slots : PayRequest(h)
  BY <1>1, PayRequestSessions
<1>2. CASE \E h \in Slots : DeskRequest(h)
  <2> PICK h \in Slots : DeskRequest(h)
    BY <1>2
  <2>1. CASE ExpireQuietly(h)
    BY <2>1, PayRequestSessions DEF PayRequest
  <2>2. CASE ~ExpireQuietly(h)
    BY <2>2 DEF DeskRequest, CancelRead, RefundRead, MarkPaidByHand, Ship, PurchaseLabel,
           CancelCommit, RefundAtGateway, RefundCommit, ShipLabel, SendMail, gatewayVars,
           SessionsStep
  <2>3. QED
    BY <2>1, <2>2
<1>3. CASE \E h \in Slots : Delivery(h)
  BY <1>3 DEF Delivery, Receive, Claim, DispatchPayment, DispatchRefund, DispatchFailure,
              SendMail, StampProcessed, gatewayVars, SessionsStep
<1>4. CASE \E s \in Sessions : GatewayStep(s)
  BY <1>4, GatewaySessions
<1>5. CASE \/ \E h \in Slots : Abort(h)
           \/ \E o \in Orders : Deliver(o)
           \/ UNCHANGED vars
  BY <1>5 DEF Abort, Deliver, vars, gatewayVars, SessionsStep
<1>6. QED
  BY <1>1, <1>2, <1>3, <1>4, <1>5 DEF Next, Slots

(* What no step undoes.                                                     *)
Lasting ==
  /\ \A s \in Sessions :
       /\ sess[s] = "paid" => sess'[s] = "paid"
       /\ sess[s] # "unused" => sess'[s] # "unused" /\ sessOrder'[s] = sessOrder[s]
       /\ s \in refunded => s \in refunded'
  /\ \A o \in Orders :
       /\ status[o] # "NONE" => status'[o] # "NONE"
       /\ status[o] \notin {"NONE", "CREATED"} =>
            status'[o] \notin {"NONE", "CREATED"} /\ intentRef'[o] = intentRef[o]
       /\ status[o] \notin {"NONE", "CREATED", "PAID"} =>
            status'[o] \notin {"NONE", "CREATED", "PAID"}

LEMMA NextLasts == TypeInv /\ [Next]_vars => Lasting
<1> SUFFICES ASSUME TypeInv, [Next]_vars PROVE Lasting
  OBVIOUS
<1>1. \A s \in Sessions :
        /\ sess[s] = "paid" => sess'[s] = "paid"
        /\ sess[s] # "unused" => sess'[s] # "unused" /\ sessOrder'[s] = sessOrder[s]
        /\ s \in refunded => s \in refunded'
  <2>1. SessionsStep
    BY NextSessions
  <2>2. CASE UNCHANGED <<sess, sessOrder>>
    BY <2>1, <2>2 DEF SessionsStep
  <2>3. CASE \E t \in Sessions, to \in SessionStates : SessionMoves(t, to)
    BY <2>1, <2>3 DEF SessionsStep, SessionMoves, TypeInv, TypeOK
  <2>4. QED
    BY <2>1, <2>2, <2>3 DEF SessionsStep
<1>2. \A o \in Orders :
        /\ status[o] # "NONE" => status'[o] # "NONE"
        /\ status[o] \notin {"NONE", "CREATED"} =>
             status'[o] \notin {"NONE", "CREATED"} /\ intentRef'[o] = intentRef[o]
        /\ status[o] \notin {"NONE", "CREATED", "PAID"} =>
             status'[o] \notin {"NONE", "CREATED", "PAID"}
  <2>1. RowsStep
    BY NextRows
  <2>2. CASE RowsStay
    BY <2>2 DEF RowsStay
  <2>3. CASE \E o \in Orders, to \in Statuses : RowsMove(o, to)
    <3> PICK o \in Orders, to \in Statuses : RowsMove(o, to)
      BY <2>3
    <3>1. /\ Contract!Arrow(status[o], to)
          /\ status' = [status EXCEPT ![o] = to]
          /\ status \in [Orders -> Statuses]
          /\ intentRef \in [Orders -> Refs]
      BY DEF RowsMove, TypeInv, TypeOK
    <3>2. status[o] # "CREATED" => intentRef' = intentRef
      BY DEF RowsMove
    <3>3. \A p \in Orders : p # o => intentRef'[p] = intentRef[p]
      BY <3>1 DEF RowsMove
    <3>4. QED
      BY <3>1, <3>2, <3>3 DEF Contract!Arrow
  <2>4. QED
    BY <2>1, <2>2, <2>3 DEF RowsStep
<1>3. QED
  BY <1>1, <1>2 DEF Lasting

LEMMA NoticeLasts ==
  ASSUME TypeInv, Lasting, NEW e \in Events, NoticeTrue(e)
  PROVE  NoticeTrue(e)'
BY DEF Lasting, NoticeTrue, Events

LEMMA TakenLasts ==
  ASSUME TypeInv, Lasting, \A s \in Sessions : SessionMoney(s), \A o \in Orders : OrderMoney(o),
         NEW e \in Events, NoticeTrue(e), Taken(e)
  PROVE  Taken(e)'
<1>1. /\ e.charge \in Sessions
      /\ sessOrder'[e.charge] = sessOrder[e.charge]
      /\ sessOrder[e.charge] \in Orders
  BY DEF Lasting, NoticeTrue, SessionMoney, Events
<1>2. Faithful => PaymentTaken(e)'
  BY <1>1 DEF Taken, PaymentTaken, Lasting
<1>3. RefundsUnnamed => RefundTaken(e)'
  BY <1>1 DEF Taken, RefundTaken, Lasting
<1>4. QED
  BY <1>2, <1>3 DEF Taken

LEMMA JobMoneyLasts ==
  ASSUME TypeInv, Lasting, \A s \in Sessions : SessionMoney(s), \A o \in Orders : OrderMoney(o),
         NEW j \in Jobs, JobShape(j), JobMoney(j)
  PROVE  JobMoney(j)'
<1> USE DEF JobMoney, JobShape
<1>1. j.at \in RequestLabels => status'[j.order] # "NONE"
  BY DEF Lasting
<1>2. j.at \in {"refund", "applyRefund"} => intentRef'[j.order] = j.ref
  BY NullAssumption DEF Lasting, OrderMoney, RequestLabels, SessionLabels
<1>3. j.at = "applyRefund" => j.ref \in refunded'
  BY DEF Lasting, SessionLabels
<1>4. j.event \in Events => NoticeTrue(j.event)'
  BY NoticeLasts
<1>5. ASSUME j.at \in {"claim", "dispatch"}
      PROVE  /\ j.order # NoOrder => j.order = sessOrder'[j.event.charge]
             /\ RefundsUnnamed /\ j.event.kind = "refunded" /\ j.order # NoOrder =>
                  intentRef'[j.order] = j.event.charge
  <2>1. j.event \in Events /\ j.event.charge \in Sessions
    BY <1>5 DEF DeliveryLabels, Events
  <2>2. sessOrder'[j.event.charge] = sessOrder[j.event.charge]
    BY <2>1 DEF NoticeTrue, Lasting
  <2>3. ASSUME RefundsUnnamed, j.event.kind = "refunded", j.order # NoOrder
        PROVE  intentRef'[j.order] = j.event.charge
    <3>1. j.order \in Orders /\ intentRef[j.order] = j.event.charge
      BY <1>5, <2>3 DEF Jobs
    <3>2. intentRef[j.order] # NoRef
      BY <2>1, <3>1, NullAssumption
    <3>3. QED
      BY <3>1, <3>2 DEF OrderMoney, Lasting
  <2>4. QED
    BY <1>5, <2>2, <2>3
<1>6. j.at \in {"mail", "stamp"} /\ j.event \in Events => Taken(j.event)'
  BY TakenLasts
<1>7. QED
  BY <1>1, <1>2, <1>3, <1>4, <1>5, <1>6

(* What is left to show of a step of request h.                             *)
LEMMA MoneyStep ==
  ASSUME TypeInv, TypeInv', MoneyInv, Lasting, NEW h \in Slots, OthersStay(h),
         JobMoney(job[h])',
         (\A s \in Sessions : SessionMoney(s))',
         (\A o \in Orders : OrderMoney(o))',
         \A e \in inbox' : e \in inbox \/ NoticeTrue(e)',
         \A e \in processed' : e \in processed \/ (NoticeTrue(e) /\ Taken(e))'
  PROVE  MoneyInv'
<1>1. \A e \in inbox' : NoticeTrue(e)'
  BY NoticeLasts DEF MoneyInv, TypeInv, TypeOK
<1>2. \A e \in processed' : NoticeTrue(e)' /\ Taken(e)'
  BY NoticeLasts, TakenLasts DEF MoneyInv, TypeInv, TypeOK
<1>3. ASSUME NEW g \in Slots PROVE JobMoney(job[g])'
  <2>1. CASE g = h
    BY <2>1
  <2>2. CASE g # h
    <3>1. job'[g] = job[g] /\ job[g] \in Jobs /\ JobShape(job[g]) /\ JobMoney(job[g])
      BY <2>2 DEF OthersStay, MoneyInv, TypeInv, TypeOK, JobsShaped
    <3> DEFINE j == job[g]
    <3>2. ASSUME NEW x \in Jobs, x = job[g] PROVE JobMoney(x)'
      BY <3>1, <3>2, JobMoneyLasts DEF MoneyInv
    <3>3. QED
      BY <3>1, <3>2
  <2>3. QED
    BY <2>1, <2>2
<1>4. QED
  BY <1>1, <1>2, <1>3 DEF MoneyInv

LEMMA QuietOrders ==
  ASSUME TypeInv, MoneyInv, Lasting, UNCHANGED intentRef,
         \A o \in Orders : status'[o] = "REFUNDED" => status[o] = "REFUNDED"
  PROVE  (\A o \in Orders : OrderMoney(o))'
<1> SUFFICES ASSUME NEW o \in Orders PROVE OrderMoney(o)'
  OBVIOUS
<1>1. OrderMoney(o)
  BY DEF MoneyInv
<1>2. ASSUME intentRef'[o] # NoRef
      PROVE  /\ status'[o] \notin {"NONE", "CREATED"}
             /\ sess'[intentRef'[o]] # "unused"
             /\ sessOrder'[intentRef'[o]] = o
             /\ Faithful => sess'[intentRef'[o]] = "paid"
  <2>1. intentRef[o] # NoRef /\ intentRef[o] \in Sessions
    BY <1>2 DEF TypeInv, TypeOK, Refs
  <2>2. QED
    BY <1>1, <2>1 DEF OrderMoney, Lasting
<1>3. ASSUME status'[o] = "REFUNDED"
      PROVE  /\ \E s \in refunded' : sessOrder'[s] = o
             /\ RefundsUnnamed => intentRef'[o] \in refunded'
  <2>1. status[o] = "REFUNDED"
    BY <1>3
  <2>2. PICK s \in refunded : sessOrder[s] = o
    BY <1>1, <2>1 DEF OrderMoney
  <2>3. s \in Sessions /\ sess[s] = "paid"
    BY <2>2 DEF TypeInv, TypeOK, MoneyInv, SessionMoney
  <2>4. s \in refunded' /\ sessOrder'[s] = o
    BY <2>2, <2>3 DEF Lasting
  <2>5. RefundsUnnamed => intentRef'[o] \in refunded'
    BY <1>1, <2>1 DEF OrderMoney, Lasting, TypeInv, TypeOK
  <2>6. QED
    BY <2>4, <2>5
<1>4. QED
  BY <1>2, <1>3 DEF OrderMoney

LEMMA QuietSessions ==
  ASSUME TypeInv, MoneyInv, Lasting, UNCHANGED <<sessOrder, refunded>>,
         \A s \in Sessions : sess'[s] # "unused" => sess[s] # "unused"
  PROVE  (\A s \in Sessions : SessionMoney(s))'
BY DEF MoneyInv, SessionMoney, Lasting

LEMMA InitMoney == Init => MoneyInv
<1> SUFFICES ASSUME Init PROVE MoneyInv
  OBVIOUS
<1>1. \A h \in Slots : JobMoney(job[h])
  BY NullAssumption DEF Init, JobMoney, Idle, RequestLabels, Events
<1>2. QED
  BY <1>1 DEF Init, MoneyInv, SessionMoney, OrderMoney

(* A request of the buyer: it opens and closes sessions, and can close none *)
(* that was paid.                                                           *)
LEMMA PayRequestMoney ==
  ASSUME TypeInv, TypeInv', MoneyInv, Lasting, NEW h \in Slots, PayRequest(h)
  PROVE  MoneyInv'
<1> TypeOK /\ JobShape(job[h]) /\ JobMoney(job[h])
  BY DEF TypeInv, JobsShaped, MoneyInv
<1> NoEvent \notin Events
  BY NullAssumption DEF Events
<1> USE DEF JobMoney, JobShape, RequestLabels, SessionLabels, TypeOK, rowVars, gatewayVars
<1>1. (\A o \in Orders : OrderMoney(o))'
  <2>1. UNCHANGED intentRef /\ \A o \in Orders : status'[o] = "REFUNDED" => status[o] = "REFUNDED"
    BY DEF PayRequest, PlaceOrder, Pay, LookupSession, ExpireOld, CreateSession,
           AttachSession, ExpireQuietly, Transition
  <2>2. QED
    BY <2>1, QuietOrders
<1>2. inbox' = inbox /\ processed' = processed
  BY DEF PayRequest, PlaceOrder, Pay, LookupSession, ExpireOld, CreateSession,
         AttachSession, ExpireQuietly
<1>3. CASE \E s \in Sessions : CreateSession(h, s)
  <2> PICK s \in Sessions : CreateSession(h, s)
    BY <1>3
  <2>1. /\ OthersStay(h) /\ job'[h].at = "attach" /\ job'[h].event = NoEvent
        /\ job'[h].order \in Orders /\ status'[job'[h].order] # "NONE"
    BY CreateFacts, ZenonT(30) DEF CreateSession
  <2>2. (\A t \in Sessions : SessionMoney(t))'
    BY DEF CreateSession, MoneyInv, SessionMoney, Lasting
  <2>3. QED
    BY <1>1, <1>2, <2>1, <2>2, MoneyStep
<1>4. CASE ~ \E s \in Sessions : CreateSession(h, s)
  <2>1. OthersStay(h) /\ job'[h].event = NoEvent
        /\ job'[h].at \in {"idle", "create", "lookup", "expire", "expireQuietly", "mail"}
    <3>1. CASE \E o \in Orders : PlaceOrder(h, o)
      <4> PICK o \in Orders : PlaceOrder(h, o)
        BY <3>1
      <4>1. OthersStay(h) /\ job'[h].event = NoEvent /\ job'[h].at = "create"
        BY BeginFacts DEF PlaceOrder, Labels, Refs
      <4>2. QED
        BY <4>1
    <3>2. CASE \E o \in Orders : Pay(h, o)
      <4> PICK o \in Orders : Pay(h, o)
        BY <3>2
      <4> DEFINE l == IF paymentRef[o] = NoRef THEN "create" ELSE "lookup"
      <4>1. l \in Labels /\ Begin(h, l, o, paymentRef[o], "none") /\ l \in {"create", "lookup"}
        BY DEF Pay, Labels
      <4> HIDE DEF l
      <4>2. OthersStay(h) /\ job'[h].event = NoEvent /\ job'[h].at = l
        BY <4>1, BeginFacts
      <4>3. QED
        BY <4>1, <4>2
    <3>3. CASE LookupSession(h)
      BY <3>3, GotoFacts, FinishFacts DEF LookupSession, Labels, Idle
    <3>4. CASE ExpireOld(h)
      BY <3>4, GotoFacts, FinishFacts DEF ExpireOld, Labels, Idle
    <3>5. CASE AttachSession(h)
      BY <3>5, GotoFacts, FinishFacts DEF AttachSession, Labels, Idle
    <3>6. CASE ExpireQuietly(h)
      BY <3>6, GotoFacts, FinishFacts DEF ExpireQuietly, Labels, Idle
    <3>7. QED
      BY <1>4, <3>1, <3>2, <3>3, <3>4, <3>5, <3>6 DEF PayRequest
  <2>2. job'[h].at \in RequestLabels => status'[job'[h].order] # "NONE"
    <3>1. CASE \E o \in Orders : PlaceOrder(h, o)
      <4> PICK o \in Orders : PlaceOrder(h, o)
        BY <3>1
      <4>1. job'[h].order = o
        BY BeginFacts, ZenonT(30) DEF PlaceOrder, Labels, Refs
      <4>2. QED
        BY <4>1 DEF PlaceOrder, Transition
    <3>2. CASE \E o \in Orders : Pay(h, o)
      <4> PICK o \in Orders : Pay(h, o)
        BY <3>2
      <4> DEFINE l == IF paymentRef[o] = NoRef THEN "create" ELSE "lookup"
      <4>1. l \in Labels /\ Begin(h, l, o, paymentRef[o], "none")
        BY DEF Pay, Labels
      <4> HIDE DEF l
      <4>2. job'[h].order = o
        BY <4>1, BeginFacts
      <4>3. QED
        BY <4>2 DEF Pay
    <3>3. CASE LookupSession(h) \/ ExpireOld(h) \/ AttachSession(h) \/ ExpireQuietly(h)
      <4>1. job[h].order \in Orders /\ status[job[h].order] # "NONE"
        BY <3>3 DEF LookupSession, ExpireOld, AttachSession, ExpireQuietly
      <4>2. status' = status
        BY <3>3 DEF LookupSession, ExpireOld, AttachSession, ExpireQuietly
      <4>3. job'[h].at = "idle" \/ job'[h].order = job[h].order
        BY <3>3, GotoFacts, FinishFacts
           DEF LookupSession, ExpireOld, AttachSession, ExpireQuietly, Labels
      <4>4. QED
        BY <4>1, <4>2, <4>3
    <3>4. QED
      BY <1>4, <3>1, <3>2, <3>3 DEF PayRequest
  <2>3. JobMoney(job[h])'
    BY <2>1, <2>2
  <2>4. (\A s \in Sessions : SessionMoney(s))'
    <3>1. UNCHANGED <<sessOrder, refunded>>
          /\ \A s \in Sessions : sess'[s] # "unused" => sess[s] # "unused"
      BY <1>4 DEF PayRequest, PlaceOrder, Pay, LookupSession, ExpireOld, AttachSession,
                  ExpireQuietly, AfterExpire
    <3>2. QED
      BY <3>1, QuietSessions
  <2>5. QED
    BY <1>1, <1>2, <2>1, <2>3, <2>4, MoneyStep
<1>5. QED
  BY <1>3, <1>4

LEMMA ApplyRefundMoney ==
  ASSUME TypeInv, MoneyInv, Lasting, NEW h \in Slots, NEW r, NEW c \in refunded,
         job[h].order \in Orders, sessOrder[c] = job[h].order,
         RefundsUnnamed => intentRef[job[h].order] = c,
         ApplyRefund(h, r), UNCHANGED <<intentRef, gatewayVars>>
  PROVE  (\A o \in Orders : OrderMoney(o))'
<1> DEFINE p == job[h].order
<1>1. CASE status[p] = "PAID"
  <2>1. /\ status' = [status EXCEPT ![p] = "REFUNDED"]
        /\ status \in [Orders -> Statuses]
    BY <1>1 DEF ApplyRefund, Transition, TypeInv, TypeOK
  <2>2. ASSUME NEW o \in Orders PROVE OrderMoney(o)'
    <3>1. OrderMoney(o) /\ sessOrder' = sessOrder /\ sess' = sess /\ refunded' = refunded
      BY DEF MoneyInv, gatewayVars
    <3>2. CASE o = p
      BY <1>1, <2>1, <3>1, <3>2 DEF OrderMoney
    <3>3. CASE o # p
      BY <2>1, <3>1, <3>3 DEF OrderMoney
    <3>4. QED
      BY <3>2, <3>3
  <2>3. QED
    BY <2>2
<1>2. CASE status[p] # "PAID"
  <2>1. UNCHANGED status
    BY <1>2 DEF ApplyRefund
  <2>2. QED
    BY <2>1, QuietOrders
<1>3. QED
  BY <1>1, <1>2

(* An e-mail moves no money.                                                *)
LEMMA SendMailMoney ==
  ASSUME TypeInv, TypeInv', MoneyInv, Lasting, NEW h \in Slots, SendMail(h)
  PROVE  MoneyInv'
<1> TypeOK /\ JobShape(job[h]) /\ JobMoney(job[h])
  BY DEF TypeInv, JobsShaped, MoneyInv
<1>1. job[h].at = "mail" /\ UNCHANGED <<status, intentRef, sess, sessOrder, refunded, inbox, processed>>
  BY DEF SendMail, rowVars, gatewayVars
<1>2. (\A o \in Orders : OrderMoney(o))' /\ (\A s \in Sessions : SessionMoney(s))'
  BY <1>1, QuietOrders, QuietSessions
<1>3. /\ OthersStay(h)
      /\ \/ job'[h] = Idle
         \/ job'[h].at = "stamp" /\ job'[h].event = job[h].event /\ job[h].event \in Events
  <2>1. CASE job[h].event = NoEvent
    <3>1. Finish(h)
      BY <2>1 DEF SendMail, AfterMail, Finish
    <3>2. QED
      BY <3>1, FinishFacts DEF TypeOK
  <2>2. CASE job[h].event # NoEvent
    BY <2>2, AfterMailFacts DEF SendMail, TypeOK, Jobs
  <2>3. QED
    BY <2>1, <2>2
<1>4. JobMoney(job[h])'
  <2>1. CASE job'[h] = Idle
    BY <2>1, NullAssumption DEF JobMoney, Idle, RequestLabels, Events
  <2>2. CASE job'[h].at = "stamp" /\ job'[h].event = job[h].event /\ job[h].event \in Events
    <3>1. NoticeTrue(job[h].event) /\ Taken(job[h].event)
      BY <1>1, <2>2 DEF JobMoney
    <3>2. NoticeTrue(job[h].event)' /\ Taken(job[h].event)'
      BY <1>1, <2>2, <3>1 DEF NoticeTrue, Taken, PaymentTaken, RefundTaken
    <3>3. QED
      BY <2>2, <3>2 DEF JobMoney, RequestLabels
  <2>3. QED
    BY <1>3, <2>1, <2>2
<1>5. QED
  BY <1>1, <1>2, <1>3, <1>4, MoneyStep

LEMMA NoticeOfRefund ==
  ASSUME NEW c \in Sessions, sess[c] = "paid", refunded' = refunded \cup {c},
         UNCHANGED <<sess, sessOrder>>, Notify("refunded", c)
  PROVE  \A e \in inbox' : e \in inbox \/ NoticeTrue(e)'
<1>1. PICK o \in OrderFields("refunded", sessOrder[c], NoOrder) :
        inbox' = inbox \cup {[kind |-> "refunded", charge |-> c, order |-> o]}
  BY DEF Notify
<1>2. o \in {sessOrder[c], NoOrder} /\ (RefundsUnnamed => o = NoOrder)
  BY <1>1 DEF OrderFields, RefundsUnnamed, Faithful
<1>3. NoticeTrue([kind |-> "refunded", charge |-> c, order |-> o])'
  BY <1>2 DEF NoticeTrue
<1>4. QED
  BY <1>1, <1>3

LEMMA DeskRequestMoney ==
  ASSUME TypeInv, TypeInv', MoneyInv, Lasting, NEW h \in Slots, DeskRequest(h)
  PROVE  MoneyInv'
<1> TypeOK /\ JobShape(job[h]) /\ JobMoney(job[h])
  BY DEF TypeInv, JobsShaped, MoneyInv
<1> NoEvent \notin Events
  BY NullAssumption DEF Events
<1> USE DEF JobMoney, JobShape, RequestLabels, SessionLabels, TypeOK, rowVars, gatewayVars
<1>1. CASE SendMail(h)
  BY <1>1, SendMailMoney
<1>2. CASE ExpireQuietly(h)
  BY <1>2, PayRequestMoney DEF PayRequest
<1>3. CASE RefundAtGateway(h)
  <2>1. job[h].event = NoEvent /\ job[h].order \in Orders /\ job[h].ref \in Sessions
        /\ intentRef[job[h].order] = job[h].ref
    BY <1>3 DEF RefundAtGateway
  <2>2. UNCHANGED <<status, intentRef, sess, sessOrder, processed>>
    BY <1>3 DEF RefundAtGateway
  <2>3. (\A o \in Orders : OrderMoney(o))'
    BY <2>2, QuietOrders
  <2>4. (\A s \in Sessions : SessionMoney(s))'
    BY <1>3, <2>2 DEF RefundAtGateway, MoneyInv, SessionMoney
  <2>5. \A e \in inbox' : e \in inbox \/ NoticeTrue(e)'
    <3>1. CASE inbox' = inbox
      BY <3>1
    <3>2. CASE inbox' # inbox
      <4> PICK c \in Sessions : c = job[h].ref
        BY <2>1
      <4>1. sess[c] = "paid" /\ refunded' = refunded \cup {c} /\ Notify("refunded", c)
        BY <1>3, <3>2 DEF RefundAtGateway
      <4>2. QED
        BY <2>2, <4>1, NoticeOfRefund
    <3>3. QED
      BY <3>1, <3>2
  <2>6. OthersStay(h) /\ JobMoney(job[h])'
    <3>1. CASE Goto(h, "applyRefund") /\ refunded' = refunded \cup {job[h].ref}
      <4>1. /\ OthersStay(h) /\ job'[h].at = "applyRefund" /\ job'[h].event = NoEvent
            /\ job'[h].order = job[h].order /\ job'[h].ref = job[h].ref
        BY <2>1, <3>1, GotoFacts DEF Labels
      <4>2. QED
        BY <1>3, <2>1, <2>2, <3>1, <4>1 DEF RefundAtGateway
    <3>2. CASE Finish(h)
      <4>1. OthersStay(h) /\ job'[h].at = "idle" /\ job'[h].event = NoEvent
        BY <3>2, FinishFacts DEF Idle
      <4>2. QED
        BY <4>1
    <3>3. QED
      BY <1>3, <3>1, <3>2 DEF RefundAtGateway
  <2>7. QED
    BY <2>2, <2>3, <2>4, <2>5, <2>6, MoneyStep
<1>4. CASE RefundCommit(h)
  <2>1. /\ job[h].event = NoEvent /\ job[h].order \in Orders /\ job[h].ref \in Sessions
        /\ job[h].ref \in refunded /\ intentRef[job[h].order] = job[h].ref
    BY <1>4 DEF RefundCommit
  <2>2. sessOrder[job[h].ref] = job[h].order
    BY <2>1, NullAssumption DEF MoneyInv, OrderMoney
  <2>3. UNCHANGED <<intentRef, sess, sessOrder, refunded, inbox, processed>>
    BY <1>4 DEF RefundCommit
  <2>4. (\A o \in Orders : OrderMoney(o))'
    BY <1>4, <2>1, <2>2, ApplyRefundMoney DEF RefundCommit
  <2>5. (\A s \in Sessions : SessionMoney(s))'
    BY <2>3, QuietSessions
  <2>6. OthersStay(h) /\ job'[h].at \in {"mail", "idle"} /\ job'[h].event = NoEvent
    <3>1. CASE MailThen(h, "REFUNDED")
      BY <2>1, <3>1, MailThenFacts DEF Mails
    <3>2. CASE Finish(h)
      BY <3>2, FinishFacts DEF Idle
    <3>3. QED
      BY <1>4, <3>1, <3>2 DEF RefundCommit, ApplyRefund, Finish
  <2>7. QED
    BY <2>3, <2>4, <2>5, <2>6, MoneyStep
<1>5. CASE \E o \in Orders : RefundRead(h, o)
  <2> PICK o \in Orders : RefundRead(h, o)
    BY <1>5
  <2>1. UNCHANGED <<status, intentRef, sess, sessOrder, refunded, inbox, processed>>
    BY DEF RefundRead
  <2>2. (\A p \in Orders : OrderMoney(p))' /\ (\A s \in Sessions : SessionMoney(s))'
    BY <2>1, QuietOrders, QuietSessions
  <2>3. /\ OthersStay(h) /\ job'[h].at = "refund" /\ job'[h].event = NoEvent
        /\ job'[h].order = o /\ job'[h].ref = intentRef[o]
    BY BeginFacts DEF RefundRead, Labels
  <2>4. JobMoney(job[h])'
    BY <2>1, <2>3 DEF RefundRead
  <2>5. QED
    BY <2>1, <2>2, <2>3, <2>4, MoneyStep
<1> DEFINE Plain ==
      \/ \E o \in Orders : \/ \E tell \in {"none", "CANCELLED"} : CancelRead(h, o, tell)
                           \/ MarkPaidByHand(h, o) \/ Ship(h, o) \/ PurchaseLabel(h, o)
      \/ CancelCommit(h) \/ ShipLabel(h)
<1>6. CASE Plain
  <2>1. UNCHANGED <<intentRef, sess, sessOrder, refunded, inbox, processed>>
    BY <1>6 DEF CancelRead, MarkPaidByHand, Ship, PurchaseLabel, CancelCommit, ShipLabel
  <2>2. \A p \in Orders : status'[p] = "REFUNDED" => status[p] = "REFUNDED"
    BY <1>6 DEF CancelRead, MarkPaidByHand, Ship, PurchaseLabel, CancelCommit, ShipLabel,
                Transition
  <2>3. (\A p \in Orders : OrderMoney(p))' /\ (\A s \in Sessions : SessionMoney(s))'
    BY <2>1, <2>2, QuietOrders, QuietSessions
  <2>4. /\ OthersStay(h) /\ job'[h].event = NoEvent
        /\ job'[h].at \in {"idle", "cancel", "shipLabel", "mail", "expireQuietly"}
        /\ job'[h].at \in RequestLabels => status'[job'[h].order] # "NONE"
    <3>1. CASE \E o \in Orders, tell \in {"none", "CANCELLED"} : CancelRead(h, o, tell)
      <4> PICK o \in Orders, tell \in {"none", "CANCELLED"} : CancelRead(h, o, tell)
        BY <3>1
      <4>1. /\ OthersStay(h) /\ job'[h].event = NoEvent /\ job'[h].at = "cancel"
            /\ job'[h].order = o
        BY BeginFacts, ZenonT(30) DEF CancelRead, Labels, Refs, Mails
      <4>2. QED
        BY <4>1 DEF CancelRead
    <3>2. CASE \E o \in Orders : MarkPaidByHand(h, o) \/ Ship(h, o)
      BY <3>2, BeginFacts, ZenonT(30) DEF MarkPaidByHand, Ship, Labels, Mails, Refs
    <3>3. CASE \E o \in Orders : PurchaseLabel(h, o)
      <4> PICK o \in Orders : PurchaseLabel(h, o)
        BY <3>3
      <4>1. /\ OthersStay(h) /\ job'[h].event = NoEvent /\ job'[h].at = "shipLabel"
            /\ job'[h].order = o
        BY BeginFacts, ZenonT(30) DEF PurchaseLabel, Labels, Refs
      <4>2. QED
        BY <4>1 DEF PurchaseLabel
    <3>4. CASE CancelCommit(h)
      <4>1. job[h].order \in Orders /\ job[h].event = NoEvent /\ status[job[h].order] # "NONE"
        BY <3>4 DEF CancelCommit
      <4>2. status'[job[h].order] # "NONE"
        BY <4>1 DEF Lasting
      <4>3. \/ Finish(h) \/ Goto(h, "expireQuietly") \/ Goto(h, "mail")
        BY <3>4 DEF CancelCommit
      <4>4. QED
        BY <4>1, <4>2, <4>3, GotoFacts, FinishFacts DEF Labels, Idle
    <3>5. CASE ShipLabel(h)
      <4>1. job[h].event = NoEvent
        BY <3>5 DEF ShipLabel
      <4>2. Finish(h) \/ MailThen(h, "SHIPPED")
        BY <3>5 DEF ShipLabel
      <4>3. QED
        BY <4>1, <4>2, MailThenFacts, FinishFacts DEF Mails, Idle
    <3>6. QED
      BY <1>6, <3>1, <3>2, <3>3, <3>4, <3>5
  <2>5. JobMoney(job[h])'
    BY <2>4
  <2>6. QED
    BY <2>1, <2>3, <2>4, <2>5, MoneyStep
<1>7. QED
  BY <1>1, <1>2, <1>3, <1>4, <1>5, <1>6 DEF DeskRequest

(* The notice says the charge was paid, so the order it is recorded on is   *)
(* the one that was charged.                                                *)
LEMMA DispatchPaymentMoney ==
  ASSUME TypeInv, TypeInv', MoneyInv, Lasting, NEW h \in Slots, DispatchPayment(h)
  PROVE  MoneyInv'
<1> TypeOK /\ JobShape(job[h]) /\ JobMoney(job[h])
  BY DEF TypeInv, JobsShaped, MoneyInv
<1> PICK e \in Events : e = job[h].event
  BY DEF DispatchPayment, JobShape, DeliveryLabels
<1> PICK o \in Orders \cup {NoOrder} : o = job[h].order
  BY DEF TypeOK, Jobs
<1>1. /\ NoticeTrue(e)
      /\ o # NoOrder => o = sessOrder[e.charge]
      /\ Faithful /\ e.kind = "paid" => o # NoOrder
      /\ e.charge \in Sessions /\ e.kind \in NoticeKinds
  BY DEF DispatchPayment, JobMoney, Events
<1>2. Faithful => e.kind = "paid"
  BY <1>1 DEF DispatchPayment, Classify, FaithfulOutcome, NoticeKinds, Faithful
<1>3. UNCHANGED <<sess, sessOrder, refunded, inbox, processed>>
  BY DEF DispatchPayment, gatewayVars
<1>4. (\A s \in Sessions : SessionMoney(s))'
  BY <1>3, QuietSessions
<1>5. NoticeTrue(e)'
  BY <1>1, NoticeLasts
<1>6. CASE o \in Orders /\ status[o] = "CREATED"
  <2>1. /\ status' = [status EXCEPT ![o] = "PAID"]
        /\ intentRef' = [intentRef EXCEPT ![o] = e.charge]
        /\ MailThen(h, "PAID")
    BY <1>6 DEF DispatchPayment, Transition
  <2>2. ASSUME NEW p \in Orders PROVE OrderMoney(p)'
    <3>1. OrderMoney(p) /\ status \in [Orders -> Statuses] /\ intentRef \in [Orders -> Refs]
      BY DEF MoneyInv, TypeOK
    <3>2. CASE p = o
      <4>1. status'[p] = "PAID" /\ intentRef'[p] = e.charge
        BY <2>1, <3>1, <3>2
      <4>2. sess'[e.charge] # "unused" /\ sessOrder'[e.charge] = p
            /\ (Faithful => sess'[e.charge] = "paid")
        BY <1>1, <1>2, <1>3, <1>6, <3>2, NullAssumption DEF NoticeTrue
      <4>3. QED
        BY <4>1, <4>2 DEF OrderMoney
    <3>3. CASE p # o
      BY <1>3, <2>1, <3>1, <3>3 DEF OrderMoney
    <3>4. QED
      BY <3>2, <3>3
  <2>3. /\ OthersStay(h) /\ job'[h].at = "mail" /\ job'[h].event = e
    BY <2>1, MailThenFacts DEF TypeOK, Mails
  <2>4. Taken(e)'
    <3>1. sessOrder'[e.charge] = o /\ status'[o] = "PAID"
      BY <1>1, <1>3, <1>6, <2>1, NullAssumption DEF TypeOK
    <3>2. RefundsUnnamed => e.kind = "paid"
      BY <1>2 DEF RefundsUnnamed
    <3>3. QED
      BY <3>1, <3>2 DEF Taken, PaymentTaken, RefundTaken
  <2>5. JobMoney(job[h])'
    BY <1>5, <2>3, <2>4 DEF JobMoney, RequestLabels
  <2>6. QED
    BY <1>3, <1>4, <2>2, <2>3, <2>5, MoneyStep
<1>7. CASE ~(o \in Orders /\ status[o] = "CREATED")
  <2>1. UNCHANGED <<status, intentRef>> /\ job' = [job EXCEPT ![h] = Stamped(h)]
    BY <1>7 DEF DispatchPayment
  <2>2. (\A p \in Orders : OrderMoney(p))'
    BY <2>1, QuietOrders
  <2>3. /\ OthersStay(h) /\ job'[h].at = "stamp" /\ job'[h].event = e
    BY <2>1, StampedFacts DEF TypeOK
  <2>4. Taken(e)'
    <3>1. ASSUME Faithful PROVE status'[sessOrder'[e.charge]] \notin {"NONE", "CREATED"}
      <4>1. o = sessOrder[e.charge] /\ o \in Orders
        BY <1>1, <1>2, <3>1
      <4>2. status[o] # "NONE"
        BY <1>1, <4>1 DEF NoticeTrue, MoneyInv, SessionMoney
      <4>3. QED
        BY <1>3, <1>7, <2>1, <4>1, <4>2
    <3>2. RefundsUnnamed => e.kind = "paid"
      BY <1>2 DEF RefundsUnnamed
    <3>3. QED
      BY <3>1, <3>2 DEF Taken, PaymentTaken, RefundTaken
  <2>5. JobMoney(job[h])'
    BY <1>5, <2>3, <2>4 DEF JobMoney, RequestLabels
  <2>6. QED
    BY <1>3, <1>4, <2>2, <2>3, <2>5, MoneyStep
<1>8. QED
  BY <1>6, <1>7

LEMMA DispatchRefundMoney ==
  ASSUME TypeInv, TypeInv', MoneyInv, Lasting, NEW h \in Slots, DispatchRefund(h)
  PROVE  MoneyInv'
<1> TypeOK /\ JobShape(job[h]) /\ JobMoney(job[h])
  BY DEF TypeInv, JobsShaped, MoneyInv
<1> PICK e \in Events : e = job[h].event
  BY DEF DispatchRefund, JobShape, DeliveryLabels
<1> PICK o \in Orders \cup {NoOrder} : o = job[h].order
  BY DEF TypeOK, Jobs
<1>1. /\ NoticeTrue(e)
      /\ o # NoOrder => o = sessOrder[e.charge]
      /\ RefundsUnnamed /\ e.kind = "refunded" /\ o # NoOrder => intentRef[o] = e.charge
      /\ e.charge \in Sessions /\ e.kind \in NoticeKinds
  BY DEF DispatchRefund, JobMoney, Events
<1>2. e.kind = "refunded"
  BY <1>1 DEF DispatchRefund, Classify, FaithfulOutcome, NoticeKinds
<1>3. UNCHANGED <<intentRef, sess, sessOrder, refunded, inbox, processed>>
  BY DEF DispatchRefund, gatewayVars
<1>4. (\A s \in Sessions : SessionMoney(s))'
  BY <1>3, QuietSessions
<1>5. NoticeTrue(e)'
  BY <1>1, NoticeLasts
<1>6. CASE o = NoOrder
  <2>1. UNCHANGED status /\ Finish(h)
    BY <1>6 DEF DispatchRefund
  <2>2. (\A p \in Orders : OrderMoney(p))'
    BY <1>3, <2>1, QuietOrders
  <2>3. OthersStay(h) /\ job'[h].at = "idle" /\ job'[h].event = NoEvent
    BY <2>1, FinishFacts DEF TypeOK, Idle
  <2>4. JobMoney(job[h])'
    BY <2>3, NullAssumption DEF JobMoney, RequestLabels, Events
  <2>5. QED
    BY <1>3, <1>4, <2>2, <2>3, <2>4, MoneyStep
<1>7. CASE o # NoOrder
  <2>1. /\ o \in Orders /\ sessOrder[e.charge] = o /\ e.charge \in refunded
        /\ RefundsUnnamed => intentRef[o] = e.charge
    BY <1>1, <1>2, <1>7 DEF NoticeTrue
  <2>2. ApplyRefund(h, Stamped(h))
    BY <1>7 DEF DispatchRefund
  <2>3. (\A p \in Orders : OrderMoney(p))'
    BY <1>3, <2>1, <2>2, ApplyRefundMoney DEF gatewayVars
  <2>4. OthersStay(h) /\ job'[h].at \in {"mail", "stamp"} /\ job'[h].event = e
    <3>1. CASE MailThen(h, "REFUNDED")
      BY <3>1, MailThenFacts DEF TypeOK, Mails
    <3>2. CASE job' = [job EXCEPT ![h] = Stamped(h)]
      BY <3>2, StampedFacts DEF TypeOK
    <3>3. QED
      BY <2>2, <3>1, <3>2 DEF ApplyRefund
  <2>5. Taken(e)'
    <3>1. status[o] \notin {"NONE", "CREATED"} \/ ~RefundsUnnamed
      BY <1>1, <2>1, NullAssumption DEF MoneyInv, OrderMoney
    <3>2. RefundsUnnamed => status'[o] \notin {"NONE", "CREATED", "PAID"}
      BY <2>1, <2>2, <3>1 DEF ApplyRefund, Transition, TypeOK
    <3>3. QED
      BY <1>2, <1>3, <2>1, <3>2 DEF Taken, PaymentTaken, RefundTaken
  <2>6. JobMoney(job[h])'
    BY <1>5, <2>4, <2>5 DEF JobMoney, RequestLabels
  <2>7. QED
    BY <1>3, <1>4, <2>3, <2>4, <2>6, MoneyStep
<1>8. QED
  BY <1>6, <1>7

LEMMA DeliveryMoney ==
  ASSUME TypeInv, TypeInv', MoneyInv, Lasting, NEW h \in Slots, Delivery(h)
  PROVE  MoneyInv'
<1> TypeOK /\ JobShape(job[h]) /\ JobMoney(job[h])
  BY DEF TypeInv, JobsShaped, MoneyInv
<1> NoEvent \notin Events
  BY NullAssumption DEF Events
<1>1. CASE SendMail(h)
  BY <1>1, SendMailMoney
<1>2. CASE DispatchPayment(h)
  BY <1>2, DispatchPaymentMoney
<1>3. CASE DispatchRefund(h)
  BY <1>3, DispatchRefundMoney
<1> SUFFICES ASSUME ~SendMail(h), ~DispatchPayment(h), ~DispatchRefund(h)
             PROVE  MoneyInv'
  BY <1>1, <1>2, <1>3
<1>4. /\ UNCHANGED <<status, intentRef, sess, sessOrder, refunded>>
      /\ inbox' \subseteq inbox
  BY DEF Delivery, Receive, Claim, DispatchFailure, StampProcessed, Acknowledge, rowVars,
         gatewayVars
<1>5. (\A o \in Orders : OrderMoney(o))' /\ (\A s \in Sessions : SessionMoney(s))'
  BY <1>4, QuietOrders, QuietSessions
<1>6. CASE \E e \in inbox : Receive(h, e)
  <2> PICK e \in inbox : Receive(h, e)
    BY <1>6
  <2>1. /\ e \in Events /\ OthersStay(h) /\ job'[h].at = "claim" /\ job'[h].event = e
        /\ job'[h].order \in Resolved(e)
    BY ReceiveFacts
  <2>2. NoticeTrue(e) /\ NoticeTrue(e)'
    BY <2>1, NoticeLasts DEF MoneyInv
  <2> PICK o \in Resolved(e) : o = job'[h].order
    BY <2>1
  <2>3. /\ o # NoOrder => o = sessOrder[e.charge]
        /\ Faithful /\ e.kind = "paid" => o # NoOrder
        /\ RefundsUnnamed /\ e.kind = "refunded" /\ o # NoOrder => intentRef[o] = e.charge
    <3>1. CASE e.order # NoOrder
      BY <2>2, <3>1 DEF Resolved, NoticeTrue
    <3>2. CASE e.order = NoOrder
      <4>1. o = NoOrder \/ (o \in Orders /\ intentRef[o] = e.charge)
        BY <3>2 DEF Resolved
      <4>2. e.charge # NoRef
        BY <2>1, NullAssumption DEF Events
      <4>3. QED
        BY <2>2, <3>2, <4>1, <4>2 DEF MoneyInv, OrderMoney, NoticeTrue
    <3>3. QED
      BY <3>1, <3>2
  <2>4. JobMoney(job[h])'
    BY <1>4, <2>1, <2>2, <2>3 DEF JobMoney, RequestLabels
  <2>5. processed' = processed
    BY DEF Receive
  <2>6. QED
    BY <1>4, <1>5, <2>1, <2>4, <2>5, MoneyStep
<1>7. CASE Claim(h)
  <2>1. job[h].at = "claim" /\ processed' = processed
    BY <1>7 DEF Claim
  <2>2. CASE Finish(h)
    <3>1. OthersStay(h) /\ job'[h].at = "idle" /\ job'[h].event = NoEvent
      BY <2>2, FinishFacts DEF TypeOK, Idle
    <3>2. JobMoney(job[h])'
      BY <3>1 DEF JobMoney, RequestLabels
    <3>3. QED
      BY <1>4, <1>5, <2>1, <3>1, <3>2, MoneyStep
  <2>3. CASE Goto(h, "dispatch")
    <3>1. /\ OthersStay(h) /\ job'[h].at = "dispatch" /\ job'[h].event = job[h].event
          /\ job'[h].order = job[h].order
      BY <2>3, GotoFacts DEF TypeOK, Labels
    <3> PICK e \in Events : e = job[h].event
      BY <2>1 DEF JobShape, DeliveryLabels
    <3>2. NoticeTrue(e)'
      BY NoticeLasts DEF JobMoney
    <3>3. JobMoney(job[h])'
      BY <1>4, <2>1, <3>1, <3>2 DEF JobMoney, RequestLabels
    <3>4. QED
      BY <1>4, <1>5, <2>1, <3>1, <3>3, MoneyStep
  <2>4. QED
    BY <1>7, <2>2, <2>3 DEF Claim
<1>8. CASE DispatchFailure(h)
  <2> PICK e \in Events : e = job[h].event
    BY <1>8 DEF DispatchFailure, JobShape, DeliveryLabels
  <2>1. /\ job[h].at = "dispatch" /\ processed' = processed
        /\ job' = [job EXCEPT ![h] = Stamped(h)]
    BY <1>8 DEF DispatchFailure
  <2>2. OthersStay(h) /\ job'[h].at = "stamp" /\ job'[h].event = e
    BY <2>1, StampedFacts DEF TypeOK
  <2>3. e.kind = "failed"
    BY <1>8 DEF DispatchFailure, Classify, FaithfulOutcome, Events, NoticeKinds
  <2>4. NoticeTrue(e)' /\ Taken(e)'
    BY <2>3, NoticeLasts DEF JobMoney, Taken, PaymentTaken, RefundTaken
  <2>5. JobMoney(job[h])'
    BY <2>2, <2>4 DEF JobMoney, RequestLabels
  <2>6. QED
    BY <1>4, <1>5, <2>1, <2>2, <2>5, MoneyStep
<1>9. CASE StampProcessed(h)
  <2> PICK e \in Events : e = job[h].event
    BY <1>9 DEF StampProcessed, JobShape, DeliveryLabels
  <2>1. NoticeTrue(e) /\ Taken(e)
    BY <1>9 DEF StampProcessed, JobMoney
  <2>2. NoticeTrue(e)' /\ Taken(e)'
    BY <2>1, NoticeLasts, TakenLasts DEF MoneyInv
  <2>3. Finish(h) /\ processed' = processed \cup {e}
    BY <1>9 DEF StampProcessed
  <2>4. OthersStay(h) /\ job'[h].at = "idle" /\ job'[h].event = NoEvent
    BY <2>3, FinishFacts DEF TypeOK, Idle
  <2>5. JobMoney(job[h])'
    BY <2>4 DEF JobMoney, RequestLabels
  <2>6. QED
    BY <1>4, <1>5, <2>2, <2>3, <2>4, <2>5, MoneyStep
<1>10. QED
  BY <1>6, <1>7, <1>8, <1>9 DEF Delivery

(* ... and of a step that moves no request.                                 *)
LEMMA MoneyStepOutside ==
  ASSUME TypeInv, TypeInv', MoneyInv, Lasting, UNCHANGED <<job, processed>>,
         (\A s \in Sessions : SessionMoney(s))',
         (\A o \in Orders : OrderMoney(o))',
         \A e \in inbox' : e \in inbox \/ NoticeTrue(e)'
  PROVE  MoneyInv'
<1>1. \A e \in inbox' : NoticeTrue(e)'
  BY NoticeLasts DEF MoneyInv, TypeInv, TypeOK
<1>2. \A e \in processed' : NoticeTrue(e)' /\ Taken(e)'
  BY NoticeLasts, TakenLasts DEF MoneyInv, TypeInv, TypeOK
<1>3. ASSUME NEW g \in Slots PROVE JobMoney(job[g])'
  <2>1. job'[g] = job[g] /\ job[g] \in Jobs /\ JobShape(job[g]) /\ JobMoney(job[g])
    BY DEF MoneyInv, TypeInv, TypeOK, JobsShaped
  <2>2. ASSUME NEW x \in Jobs, x = job[g] PROVE JobMoney(x)'
    BY <2>1, <2>2, JobMoneyLasts DEF MoneyInv
  <2>3. QED
    BY <2>1, <2>2
<1>4. QED
  BY <1>1, <1>2, <1>3 DEF MoneyInv

LEMMA GatewayMoney ==
  ASSUME TypeInv, TypeInv', MoneyInv, Lasting, NEW s \in Sessions, GatewayStep(s)
  PROVE  MoneyInv'
<1> TypeOK
  BY DEF TypeInv
<1>1. UNCHANGED <<status, intentRef, sessOrder, processed, job>>
  BY DEF GatewayStep, BuyerPays, BuyerWillPayLater, PaymentFails, SessionTimesOut,
         RefundInDashboard, rowVars
<1>2. (\A o \in Orders : OrderMoney(o))'
  BY <1>1, QuietOrders
<1>3. (\A t \in Sessions : SessionMoney(t))'
  <2>1. CASE RefundInDashboard(s)
    BY <1>1, <2>1 DEF RefundInDashboard, MoneyInv, SessionMoney
  <2>2. CASE ~RefundInDashboard(s)
    <3>1. refunded' = refunded /\ \A t \in Sessions : sess'[t] # "unused" => sess[t] # "unused"
      BY <2>2 DEF GatewayStep, BuyerPays, BuyerWillPayLater, PaymentFails, SessionTimesOut,
                  TypeOK
    <3>2. QED
      BY <1>1, <3>1, QuietSessions
  <2>3. QED
    BY <2>1, <2>2
<1>4. \A e \in inbox' : e \in inbox \/ NoticeTrue(e)'
  <2>1. CASE RefundInDashboard(s)
    BY <1>1, <2>1, NoticeOfRefund DEF RefundInDashboard
  <2>2. CASE BuyerPays(s) \/ PaymentFails(s)
    <3>1. PICK kind \in {"paid", "failed"} :
            /\ Notify(kind, s)
            /\ sess'[s] # "unused"
            /\ kind = "paid" => sess'[s] = "paid"
      BY <2>2 DEF BuyerPays, PaymentFails, TypeOK
    <3>2. PICK o \in OrderFields(kind, sessOrder[s], NoOrder) :
            inbox' = inbox \cup {[kind |-> kind, charge |-> s, order |-> o]}
      BY <3>1 DEF Notify
    <3>3. o \in {sessOrder[s], NoOrder} /\ (Faithful => o = sessOrder[s])
      BY <3>1, <3>2 DEF OrderFields, Faithful
    <3>4. sessOrder[s] \in Orders
      BY <2>2 DEF BuyerPays, PaymentFails, MoneyInv, SessionMoney
    <3>5. NoticeTrue([kind |-> kind, charge |-> s, order |-> o])'
      BY <1>1, <3>1, <3>3, <3>4, NullAssumption DEF NoticeTrue
    <3>6. QED
      BY <3>2, <3>5
  <2>3. CASE BuyerWillPayLater(s) \/ SessionTimesOut(s)
    BY <2>3 DEF BuyerWillPayLater, SessionTimesOut
  <2>4. QED
    BY <2>1, <2>2, <2>3 DEF GatewayStep
<1>5. QED
  BY <1>1, <1>2, <1>3, <1>4, MoneyStepOutside

LEMMA NextMoney == TypeInv /\ MoneyInv /\ [Next]_vars => MoneyInv'
<1> SUFFICES ASSUME TypeInv, MoneyInv, [Next]_vars PROVE MoneyInv'
  OBVIOUS
<1> TypeInv' /\ Lasting
  BY NextType, NextLasts
<1>1. CASE \E h \in Slots : PayRequest(h) \/ DeskRequest(h) \/ Delivery(h)
  BY <1>1, PayRequestMoney, DeskRequestMoney, DeliveryMoney
<1>2. CASE \E s \in Sessions : GatewayStep(s)
  BY <1>2, GatewayMoney
<1>3. CASE \E h \in Slots : Abort(h)
  <2> PICK h \in Slots : Abort(h)
    BY <1>3
  <2>1. UNCHANGED <<status, intentRef, sess, sessOrder, refunded, inbox, processed>>
    BY DEF Abort, rowVars, gatewayVars
  <2>2. OthersStay(h) /\ job'[h].at = "idle" /\ job'[h].event = NoEvent
    BY FinishFacts DEF Abort, TypeInv, TypeOK, Idle
  <2>3. JobMoney(job[h])'
    BY <2>2, NullAssumption DEF JobMoney, RequestLabels, Events
  <2>4. QED
    BY <2>1, <2>2, <2>3, QuietOrders, QuietSessions, MoneyStep
<1>4. CASE \E o \in Orders : Deliver(o)
  <2>1. /\ UNCHANGED <<intentRef, sess, sessOrder, refunded, inbox, processed, job>>
        /\ \A o \in Orders : status'[o] = "REFUNDED" => status[o] = "REFUNDED"
    BY <1>4 DEF Deliver, Transition, gatewayVars
  <2>2. QED
    BY <2>1, QuietOrders, QuietSessions, MoneyStepOutside
<1>5. CASE UNCHANGED vars
  <2>1. UNCHANGED <<status, intentRef, sess, sessOrder, refunded, inbox, processed, job>>
    BY <1>5 DEF vars, rowVars, gatewayVars
  <2>2. QED
    BY <2>1, QuietOrders, QuietSessions, MoneyStepOutside
<1>6. QED
  BY <1>1, <1>2, <1>3, <1>4, <1>5 DEF Next, Slots

LEMMA MoneyCorrect == Spec => [](TypeInv /\ MoneyInv)
BY InitType, NextType, InitMoney, NextMoney, PTL DEF Spec

(* Behind every gateway that tells a payment from a rejection, an order is  *)
(* marked paid by a charge only when the buyer paid it for that order       *)
(* (payment-events applyPayment).                                           *)
THEOREM ChargesAreReal ==
  ASSUME Gateway # "mercadopago"
  PROVE  Spec => []ChargeIsReal
<1>1. TypeInv /\ MoneyInv => ChargeIsReal
  BY DEF MoneyInv, OrderMoney, ChargeIsReal, Faithful
<1>2. QED
  BY <1>1, MoneyCorrect, PTL

(* ... and a payment notice is stamped processed only once its order no     *)
(* longer waits for it: dying at any step of the handler loses no payment.  *)
THEOREM ProcessedPaymentsTaken ==
  ASSUME Gateway # "mercadopago"
  PROVE  Spec => []ProcessedPaymentTaken
<1>1. TypeInv /\ MoneyInv => ProcessedPaymentTaken
  BY DEF MoneyInv, Taken, PaymentTaken, ProcessedPaymentTaken, Faithful
<1>2. QED
  BY <1>1, MoneyCorrect, PTL

(* For every gateway, the goods of a refunded order are back on the shelf   *)
(* only if the buyer got money back for that order (refund, markRefunded).  *)
THEOREM RefundsMovedMoney == Spec => []RefundMovedMoney
<1>1. TypeInv /\ MoneyInv => RefundMovedMoney
  BY DEF MoneyInv, OrderMoney, RefundMovedMoney
<1>2. QED
  BY <1>1, MoneyCorrect, PTL

(* When refund notices carry no order id and the order is found through its *)
(* stored charge (resolveOrderId), the charge that came back is the one the *)
(* order was paid with.                                                     *)
THEOREM RefundsAreOfTheOrdersCharge ==
  ASSUME Gateway # "mercadopago", RefundNames = {FALSE}
  PROVE  Spec => []RefundIsOfTheOrdersCharge
<1>1. TypeInv /\ MoneyInv => RefundIsOfTheOrdersCharge
  BY DEF MoneyInv, OrderMoney, RefundIsOfTheOrdersCharge, Faithful, RefundsUnnamed
<1>2. QED
  BY <1>1, MoneyCorrect, PTL

(* Under the same conditions a refund notice that was stamped left no order *)
(* PAID (applyRefund).                                                      *)
THEOREM ProcessedRefundsTaken ==
  ASSUME Gateway # "mercadopago", RefundNames = {FALSE}
  PROVE  Spec => []ProcessedRefundTaken
<1>1. TypeInv /\ MoneyInv => ProcessedRefundTaken
  <2> SUFFICES ASSUME TypeInv, MoneyInv, NEW e \in processed, NEW o \in Orders,
                      e.kind = "refunded", intentRef[o] = e.charge
               PROVE  status[o] # "PAID"
    BY DEF ProcessedRefundTaken
  <2>1. RefundTaken(e) /\ e.charge \in Sessions
    BY DEF MoneyInv, Taken, RefundsUnnamed, Faithful, TypeInv, TypeOK, Events
  <2>2. sessOrder[e.charge] = o
    BY <2>1, NullAssumption DEF MoneyInv, OrderMoney
  <2>3. QED
    BY <2>1, <2>2 DEF RefundTaken
<1>2. QED
  BY <1>1, MoneyCorrect, PTL

(* The charge recorded on an order is never overwritten by a second one.    *)
THEOREM ChargesNeverReplaced == Spec => ChargeNeverReplaced
<1>1. TypeInv /\ MoneyInv /\ [Next]_vars =>
        [\A o \in Orders : intentRef[o] # NoRef => intentRef'[o] = intentRef[o]]_vars
  BY NextLasts DEF MoneyInv, OrderMoney, Lasting
<1>2. QED
  BY <1>1, MoneyCorrect, PTL DEF Spec, ChargeNeverReplaced

-----------------------------------------------------------------------------
(* ONE LIVE SESSION *)

(* Two requests at once could each open a session, and one that dies leaves *)
(* the session it opened to nobody; the other gateways close a session      *)
(* without asking whether it was paid.                                      *)
OneAtATime == Gateway = "stripe" /\ ~Faults /\ \A p, q \in PaySlots : p = q

LiveOf(o) == {s \in Sessions : sessOrder[s] = o /\ Live(sess[s])}

(* What a request that will open a session, or has, knows of the others.    *)
PayKnows(p) ==
  /\ job[p].at = "create" => LiveOf(job[p].order) = {}
  /\ job[p].at \in {"lookup", "expire", "attach"} =>
       LiveOf(job[p].order) \subseteq {job[p].ref}

(* A session still of use is the one on the order, or about to be.          *)
LiveIsStored(o) ==
  status[o] = "CREATED" =>
    \A s \in LiveOf(o) :
      \/ s = paymentRef[o]
      \/ \E p \in PaySlots :
           job[p].at = "attach" /\ job[p].order = o /\ job[p].ref = s

OneLiveInv ==
  /\ OneLiveSession
  /\ \A o \in Orders : LiveIsStored(o)
  /\ \A p \in PaySlots : PayKnows(p)

NoneRevived ==
  \A s \in Sessions : Live(sess'[s]) => Live(sess[s]) /\ sessOrder'[s] = sessOrder[s]

LEMMA FewerLive ==
  ASSUME NoneRevived
  PROVE  /\ \A o : (LiveOf(o))' \subseteq LiveOf(o)
         /\ OneLiveSession => OneLiveSession'
BY DEF NoneRevived, LiveOf, OneLiveSession

LEMMA NoneBeforeOrder ==
  ASSUME MoneyInv, NEW o \in Orders, status[o] = "NONE" PROVE LiveOf(o) = {}
BY DEF MoneyInv, SessionMoney, LiveOf, Live

(* Orders do not come back to CREATED, so what is known of one stays.       *)
LEMMA CreatedBefore ==
  ASSUME MoneyInv, Lasting, NEW o \in Orders, status'[o] = "CREATED"
  PROVE  status[o] = "CREATED" \/ LiveOf(o) = {}
<1>1. status[o] = "CREATED" \/ status[o] = "NONE"
  BY DEF Lasting
<1> QED
  BY <1>1, NoneBeforeOrder

LEMMA LiveElsewhere ==
  ASSUME TypeInv, MoneyInv, Lasting, OneLiveInv, NoneRevived, UNCHANGED paymentRef,
         \A p \in PaySlots : job'[p] = job[p]
  PROVE  OneLiveInv'
<1>1. OneLiveSession' /\ \A o : (LiveOf(o))' \subseteq LiveOf(o)
  BY FewerLive DEF OneLiveInv
<1>2. ASSUME NEW o \in Orders PROVE LiveIsStored(o)'
  <2> SUFFICES ASSUME status'[o] = "CREATED", NEW s \in LiveOf(o)'
               PROVE  \/ s = paymentRef'[o]
                      \/ \E p \in PaySlots :
                           job'[p].at = "attach" /\ job'[p].order = o /\ job'[p].ref = s
    BY DEF LiveIsStored
  <2>1. s \in LiveOf(o) /\ status[o] = "CREATED"
    BY <1>1, CreatedBefore
  <2> QED
    BY <2>1 DEF OneLiveInv, LiveIsStored
<1>3. ASSUME NEW p \in PaySlots PROVE PayKnows(p)'
  <2>1. job'[p] = job[p] /\ PayKnows(p)
    BY DEF OneLiveInv
  <2> QED
    BY <1>1, <2>1 DEF PayKnows
<1> QED
  BY <1>1, <1>2, <1>3 DEF OneLiveInv

(* A request that holds no session of its own yet.                          *)
LEMMA PayMoves ==
  ASSUME OneAtATime, TypeInv, MoneyInv, Lasting, OneLiveInv, NoneRevived,
         UNCHANGED paymentRef, NEW h \in PaySlots, job[h].at # "attach", PayKnows(h)'
  PROVE  OneLiveInv'
<1>1. OneLiveSession' /\ \A o : (LiveOf(o))' \subseteq LiveOf(o)
  BY FewerLive DEF OneLiveInv
<1>2. \A p \in PaySlots : p = h
  BY DEF OneAtATime
<1>3. ASSUME NEW o \in Orders PROVE LiveIsStored(o)'
  <2> SUFFICES ASSUME status'[o] = "CREATED", NEW s \in LiveOf(o)'
               PROVE  s = paymentRef'[o]
    BY DEF LiveIsStored
  <2>1. s \in LiveOf(o) /\ status[o] = "CREATED"
    BY <1>1, CreatedBefore
  <2> QED
    BY <1>2, <2>1 DEF OneLiveInv, LiveIsStored
<1> QED
  BY <1>1, <1>2, <1>3 DEF OneLiveInv

LEMMA ExpiryRevivesNone ==
  ASSUME TypeInv, NEW s \in Sessions, UNCHANGED sessOrder,
         \/ UNCHANGED sess
         \/ sess' = [sess EXCEPT ![s] = AfterExpire(@)]
  PROVE  NoneRevived
BY DEF TypeInv, TypeOK, NoneRevived, AfterExpire, Live

LEMMA PayLives ==
  ASSUME OneAtATime, TypeInv, MoneyInv, Lasting, OneLiveInv, NEW h \in PaySlots,
         \/ \E o \in Orders : PlaceOrder(h, o) \/ Pay(h, o)
         \/ LookupSession(h) \/ ExpireOld(h) \/ ExpireQuietly(h)
  PROVE  OneLiveInv'
<1> USE SlotAssumption
<1>1. h \in Slots /\ job \in [Slots -> Jobs] /\ JobShape(job[h]) /\ PayKnows(h)
  BY DEF Slots, TypeInv, TypeOK, JobsShaped, OneLiveInv
<1>2. UNCHANGED paymentRef
  BY DEF PlaceOrder, Pay, LookupSession, ExpireOld, ExpireQuietly, rowVars
<1>3. ASSUME NEW o \in Orders, PlaceOrder(h, o) PROVE OneLiveInv'
  <2>1. UNCHANGED <<sess, sessOrder>> /\ status[o] = "NONE" /\ job[h].at = "idle"
    BY <1>3 DEF PlaceOrder, Transition, Begin, Idle, gatewayVars
  <2>2. job'[h].at = "create" /\ job'[h].order = o
    BY <1>1, <1>3, BeginFacts, ZenonT(30) DEF PlaceOrder, Labels, Refs
  <2>3. LiveOf(o)' = {}
    BY <2>1, NoneBeforeOrder DEF LiveOf
  <2>4. PayKnows(h)'
    BY <2>2, <2>3 DEF PayKnows
  <2> QED
    BY <1>2, <2>1, <2>4, PayMoves DEF NoneRevived
<1>4. ASSUME NEW o \in Orders, Pay(h, o) PROVE OneLiveInv'
  <2>1. /\ UNCHANGED <<sess, sessOrder>> /\ status[o] = "CREATED" /\ job[h].at = "idle"
        /\ paymentRef[o] \in Refs
    BY <1>4 DEF Pay, Begin, Idle, gatewayVars, TypeInv, TypeOK
  <2>2. /\ job'[h].at = IF paymentRef[o] = NoRef THEN "create" ELSE "lookup"
        /\ job'[h].order = o /\ job'[h].ref = paymentRef[o]
    <3> DEFINE l == IF paymentRef[o] = NoRef THEN "create" ELSE "lookup"
    <3>1. l \in Labels /\ Begin(h, l, o, paymentRef[o], "none")
      BY <1>4 DEF Pay, Labels
    <3> HIDE DEF l
    <3>2. job'[h].at = l /\ job'[h].order = o /\ job'[h].ref = paymentRef[o]
      BY <1>1, <2>1, <3>1, BeginFacts
    <3> QED
      BY <3>2 DEF l
  <2>3. \A p \in PaySlots : job[p].at # "attach"
    BY <2>1 DEF OneAtATime
  <2>4. LiveOf(o) \subseteq {paymentRef[o]}
    BY <2>1, <2>3 DEF OneLiveInv, LiveIsStored
  <2>5. LiveOf(o)' = LiveOf(o) /\ LiveOf(o) \subseteq Sessions
    BY <2>1 DEF LiveOf
  <2>6. PayKnows(h)'
    BY <2>2, <2>4, <2>5, NullAssumption DEF PayKnows
  <2> QED
    BY <1>2, <2>1, <2>6, PayMoves DEF NoneRevived
<1>5. CASE LookupSession(h)
  <2>1. /\ UNCHANGED <<sess, sessOrder>> /\ job[h].at = "lookup" /\ job[h].ref \in Sessions
        /\ LiveOf(job[h].order) \subseteq {job[h].ref}
    BY <1>1, <1>5 DEF LookupSession, gatewayVars, JobShape, SessionLabels, PayKnows
  <2>2. \/ job'[h].at = "idle"
        \/ /\ job'[h].at = "expire" /\ job'[h].order = job[h].order
           /\ job'[h].ref = job[h].ref
        \/ /\ job'[h].at = "create" /\ job'[h].order = job[h].order
           /\ Lookup(sess[job[h].ref]) = "gone"
    BY <1>1, <1>5, GotoFacts, FinishFacts DEF LookupSession, Labels
  <2>3. Lookup(sess[job[h].ref]) = "gone" => ~Live(sess[job[h].ref])
    <3>1. Lookup(sess[job[h].ref]) = StripeLookup(sess[job[h].ref])
      BY DEF OneAtATime, Lookup
    <3>2. ASSUME NEW x, Live(x) PROVE StripeLookup(x) # "gone"
      BY <3>2 DEF StripeLookup, Live
    <3> QED
      BY <3>1, <3>2
  <2>4. \A o : (LiveOf(o))' = LiveOf(o)
    BY <2>1 DEF LiveOf
  <2>5. job[h].ref \in LiveOf(job[h].order) => Live(sess[job[h].ref])
    BY DEF LiveOf
  <2>6. PayKnows(h)'
    BY <2>1, <2>2, <2>3, <2>4, <2>5 DEF PayKnows
  <2> QED
    BY <1>2, <2>1, <2>6, PayMoves DEF NoneRevived
<1>6. CASE ExpireOld(h)
  <2>1. /\ UNCHANGED sessOrder /\ job[h].at = "expire" /\ job[h].ref \in Sessions
        /\ LiveOf(job[h].order) \subseteq {job[h].ref}
    BY <1>1, <1>6 DEF ExpireOld, JobShape, SessionLabels, PayKnows
  <2>2. NoneRevived
    BY <1>6, <2>1, ExpiryRevivesNone DEF ExpireOld
  <2>3. \/ job'[h].at = "idle"
        \/ /\ job'[h].at = "create" /\ job'[h].order = job[h].order
           /\ sess'[job[h].ref] = "expired"
    <3>1. CASE ExpireAccepted(sess[job[h].ref])
      <4>1. sess[job[h].ref] = "open"
        BY <3>1 DEF OneAtATime, ExpireAccepted
      <4>2. sess'[job[h].ref] = "expired"
        BY <1>6, <2>1, <3>1, <4>1 DEF ExpireOld, AfterExpire, TypeInv, TypeOK
      <4> QED
        BY <1>1, <1>6, <3>1, <4>2, GotoFacts DEF ExpireOld, Labels
    <3>2. CASE ~ExpireAccepted(sess[job[h].ref])
      BY <1>1, <1>6, <3>2, FinishFacts DEF ExpireOld
    <3> QED
      BY <3>1, <3>2
  <2>4. sess'[job[h].ref] = "expired" => job[h].ref \notin LiveOf(job[h].order)'
    BY DEF LiveOf, Live
  <2>5. PayKnows(h)'
    BY <2>1, <2>2, <2>3, <2>4, FewerLive DEF PayKnows
  <2> QED
    BY <1>2, <2>1, <2>2, <2>5, PayMoves
<1>7. CASE ExpireQuietly(h)
  <2>1. /\ UNCHANGED sessOrder /\ job[h].at = "expireQuietly" /\ job[h].ref \in Sessions
        /\ UNCHANGED sess \/ sess' = [sess EXCEPT ![job[h].ref] = AfterExpire(@)]
    BY <1>1, <1>7 DEF ExpireQuietly, JobShape, SessionLabels
  <2>2. job'[h].at \in {"idle", "mail"}
    BY <1>1, <1>7, GotoFacts, FinishFacts DEF ExpireQuietly, Labels
  <2> QED
    BY <1>2, <2>1, <2>2, ExpiryRevivesNone, PayMoves DEF PayKnows
<1> QED
  BY <1>3, <1>4, <1>5, <1>6, <1>7

(* The session just opened is the only live one of its order.               *)
LEMMA CreateLives ==
  ASSUME OneAtATime, TypeInv, MoneyInv, OneLiveInv, NEW h \in PaySlots,
         NEW s \in Sessions, CreateSession(h, s)
  PROVE  OneLiveInv'
<1>1. h \in Slots /\ job \in [Slots -> Jobs] /\ JobShape(job[h]) /\ PayKnows(h)
  BY DEF Slots, TypeInv, TypeOK, JobsShaped, OneLiveInv
<1>2. PICK o \in Orders : o = job[h].order
  BY <1>1 DEF CreateSession, JobShape, RequestLabels
<1>3. /\ UNCHANGED <<status, paymentRef>> /\ job[h].at = "create" /\ LiveOf(o) = {}
      /\ sess' = [sess EXCEPT ![s] = "open"] /\ sessOrder' = [sessOrder EXCEPT ![s] = o]
      /\ sess[s] = "unused"
  BY <1>1, <1>2 DEF CreateSession, rowVars, PayKnows
<1>4. job'[h].at = "attach" /\ job'[h].ref = s /\ job'[h].order = o
  BY <1>1, <1>2, CreateFacts
<1>5. LiveOf(o)' = {s}
  BY <1>3 DEF LiveOf, Live, TypeInv, TypeOK
<1>6. \A q : q # o => (LiveOf(q))' = LiveOf(q)
  BY <1>3 DEF LiveOf, Live, TypeInv, TypeOK
<1>7. OneLiveSession'
  <2> SUFFICES ASSUME NEW a \in Sessions, NEW b \in Sessions, a # b,
                      sessOrder'[a] = sessOrder'[b], Live(sess'[a]), Live(sess'[b])
               PROVE  FALSE
    BY DEF OneLiveSession
  <2>1. CASE sessOrder'[a] = o
    <3>1. \A t \in Sessions : sessOrder'[t] = o /\ Live(sess'[t]) => t \in LiveOf(o)'
      BY DEF LiveOf
    <3> QED
      BY <1>5, <2>1, <3>1
  <2>2. CASE sessOrder'[a] # o
    <3>1. a # s /\ b # s
      BY <1>3, <2>2 DEF TypeInv, TypeOK
    <3>2. Live(sess[a]) /\ Live(sess[b]) /\ sessOrder[a] = sessOrder[b]
      BY <1>3, <3>1 DEF TypeInv, TypeOK
    <3> QED
      BY <3>2 DEF OneLiveInv, OneLiveSession
  <2> QED
    BY <2>1, <2>2
<1>8. \A p \in PaySlots : p = h
  BY DEF OneAtATime
<1>9. ASSUME NEW q \in Orders PROVE LiveIsStored(q)'
  <2>1. CASE q = o
    BY <1>4, <1>5, <2>1 DEF LiveIsStored
  <2>2. CASE q # o
    BY <1>3, <1>6, <1>8, <2>2 DEF OneLiveInv, LiveIsStored
  <2> QED
    BY <2>1, <2>2
<1>10. PayKnows(h)'
  BY <1>4, <1>5 DEF PayKnows
<1> QED
  BY <1>7, <1>8, <1>9, <1>10 DEF OneLiveInv

(* It becomes the order's; if the order left CREATED meanwhile, no other    *)
(* will be opened for it.                                                   *)
LEMMA AttachLives ==
  ASSUME OneAtATime, TypeInv, OneLiveInv, NEW h \in PaySlots, AttachSession(h)
  PROVE  OneLiveInv'
<1>1. h \in Slots /\ job \in [Slots -> Jobs] /\ JobShape(job[h]) /\ PayKnows(h)
  BY DEF Slots, TypeInv, TypeOK, JobsShaped, OneLiveInv
<1>2. PICK o \in Orders : o = job[h].order
  BY <1>1 DEF AttachSession, JobShape, RequestLabels
<1>3. /\ UNCHANGED <<status, sess, sessOrder>> /\ job[h].at = "attach"
      /\ LiveOf(o) \subseteq {job[h].ref}
  BY <1>1, <1>2 DEF AttachSession, gatewayVars, PayKnows
<1>4. \A p \in PaySlots : p = h
  BY DEF OneAtATime
<1>5. \A q : (LiveOf(q))' = LiveOf(q)
  BY <1>3 DEF LiveOf
<1>6. OneLiveSession'
  BY <1>3 DEF OneLiveInv, OneLiveSession
<1>7. \/ status[o] = "CREATED" /\ paymentRef' = [paymentRef EXCEPT ![o] = job[h].ref]
      \/ status[o] # "CREATED" /\ paymentRef' = paymentRef
  BY <1>2 DEF AttachSession
<1>8. job'[h].at \in {"idle", "expireQuietly"}
  BY <1>1, GotoFacts, FinishFacts DEF AttachSession, Labels
<1>9. ASSUME NEW q \in Orders PROVE LiveIsStored(q)'
  <2> SUFFICES ASSUME status'[q] = "CREATED", NEW s \in LiveOf(q)'
               PROVE  s = paymentRef'[q]
    BY DEF LiveIsStored
  <2>1. s \in LiveOf(q) /\ status[q] = "CREATED"
    BY <1>3, <1>5
  <2>2. CASE q = o
    BY <1>3, <1>7, <2>1, <2>2 DEF TypeInv, TypeOK
  <2>3. CASE q # o
    <3>1. s = paymentRef[q]
      BY <1>2, <1>4, <2>1, <2>3 DEF OneLiveInv, LiveIsStored
    <3> QED
      BY <1>7, <2>3, <3>1 DEF TypeInv, TypeOK
  <2> QED
    BY <2>2, <2>3
<1>10. PayKnows(h)'
  BY <1>8 DEF PayKnows
<1> QED
  BY <1>4, <1>6, <1>9, <1>10 DEF OneLiveInv

(* Nobody else opens a session, stores one, or moves such a request.        *)
LEMMA DeskLives ==
  ASSUME TypeInv, NEW h \in DeskSlots, DeskRequest(h)
  PROVE  NoneRevived /\ UNCHANGED paymentRef /\ OthersStay(h)
<1>1. h \in Slots /\ job \in [Slots -> Jobs] /\ JobShape(job[h])
  BY DEF Slots, TypeInv, TypeOK, JobsShaped
<1>2. OthersStay(h)
  BY <1>1 DEF DeskRequest, CancelRead, RefundRead, MarkPaidByHand, Ship, PurchaseLabel,
              CancelCommit, ExpireQuietly, RefundAtGateway, RefundCommit, ApplyRefund,
              ShipLabel, SendMail, Begin, Goto, Finish, MailThen, OthersStay
<1>3. UNCHANGED paymentRef
  BY DEF DeskRequest, CancelRead, RefundRead, MarkPaidByHand, Ship, PurchaseLabel,
         CancelCommit, ExpireQuietly, RefundAtGateway, RefundCommit, ShipLabel, SendMail,
         rowVars
<1>4. CASE ExpireQuietly(h)
  <2>1. job[h].ref \in Sessions
    BY <1>1, <1>4 DEF ExpireQuietly, JobShape, SessionLabels
  <2> QED
    BY <1>2, <1>3, <1>4, <2>1, ExpiryRevivesNone DEF ExpireQuietly
<1>5. CASE ~ExpireQuietly(h)
  <2>1. UNCHANGED <<sess, sessOrder>>
    BY <1>5 DEF DeskRequest, CancelRead, RefundRead, MarkPaidByHand, Ship, PurchaseLabel,
                CancelCommit, RefundAtGateway, RefundCommit, ShipLabel, SendMail,
                gatewayVars
  <2> QED
    BY <1>2, <1>3, <2>1 DEF NoneRevived
<1> QED
  BY <1>4, <1>5

LEMMA DeliveryLives ==
  ASSUME TypeInv, NEW h \in HookSlots, Delivery(h)
  PROVE  NoneRevived /\ UNCHANGED paymentRef /\ OthersStay(h)
<1>1. h \in Slots /\ job \in [Slots -> Jobs]
  BY DEF Slots, TypeInv, TypeOK
<1>2. OthersStay(h)
  BY <1>1 DEF Delivery, Receive, Claim, DispatchPayment, DispatchRefund, DispatchFailure,
              ApplyRefund, SendMail, StampProcessed, Goto, Finish, MailThen, OthersStay
<1>3. UNCHANGED <<sess, sessOrder, paymentRef>>
  BY DEF Delivery, Receive, Claim, DispatchPayment, DispatchRefund, DispatchFailure,
         SendMail, StampProcessed, rowVars, gatewayVars
<1> QED
  BY <1>2, <1>3 DEF NoneRevived

LEMMA GatewayLives ==
  ASSUME TypeInv, NEW s \in Sessions, GatewayStep(s)
  PROVE  NoneRevived /\ UNCHANGED <<paymentRef, job>>
BY DEF GatewayStep, BuyerPays, BuyerWillPayLater, PaymentFails, SessionTimesOut,
       RefundInDashboard, NoneRevived, Live, TypeInv, TypeOK, rowVars

LEMMA NextLives ==
  ASSUME OneAtATime, TypeInv, MoneyInv, OneLiveInv, [Next]_vars PROVE OneLiveInv'
<1> Lasting
  BY NextLasts
<1>1. CASE \E h \in PaySlots : PayRequest(h)
  BY <1>1, PayLives, CreateLives, AttachLives DEF PayRequest
<1>2. CASE \E h \in DeskSlots : DeskRequest(h)
  <2> PICK h \in DeskSlots : DeskRequest(h)
    BY <1>2
  <2>1. \A p \in PaySlots : job'[p] = job[p]
    BY DeskLives, SlotAssumption DEF OthersStay, Slots
  <2> QED
    BY <2>1, DeskLives, LiveElsewhere
<1>3. CASE \E h \in HookSlots : Delivery(h)
  <2> PICK h \in HookSlots : Delivery(h)
    BY <1>3
  <2>1. \A p \in PaySlots : job'[p] = job[p]
    BY DeliveryLives, SlotAssumption DEF OthersStay, Slots
  <2> QED
    BY <2>1, DeliveryLives, LiveElsewhere
<1>4. CASE \E s \in Sessions : GatewayStep(s)
  BY <1>4, GatewayLives, LiveElsewhere
<1>5. CASE (\E o \in Orders : Deliver(o)) \/ UNCHANGED vars
  <2>1. UNCHANGED <<sess, sessOrder, paymentRef, job>>
    BY <1>5 DEF Deliver, vars, rowVars, gatewayVars
  <2> QED
    BY <2>1, LiveElsewhere DEF NoneRevived
<1>6. ~\E h \in Slots : Abort(h)
  BY DEF OneAtATime, Abort
<1> QED
  BY <1>1, <1>2, <1>3, <1>4, <1>5, <1>6 DEF Next

(* As long as requests that may open a session come one at a time, none of  *)
(* them dies, and Stripe refuses to close what was paid, an order never has *)
(* two sessions its buyer paid or can pay, whatever cancellations, refunds, *)
(* deliveries and payments happen meanwhile (issueSession).                 *)
THEOREM SessionsLiveAlone ==
  ASSUME Gateway = "stripe", ~Faults, \A p, q \in PaySlots : p = q
  PROVE  Spec => []OneLiveSession
<1>1. OneAtATime
  BY DEF OneAtATime
<1>2. Init => OneLiveInv
  BY DEF Init, OneLiveInv, OneLiveSession, LiveIsStored, PayKnows, LiveOf, Live, Idle,
         Slots
<1>3. TypeInv /\ MoneyInv /\ OneLiveInv /\ [Next]_vars => OneLiveInv'
  BY <1>1, NextLives
<1>4. OneLiveInv => OneLiveSession
  BY DEF OneLiveInv
<1> QED
  BY <1>2, <1>3, <1>4, MoneyCorrect, PTL DEF Spec

-----------------------------------------------------------------------------
(* OrderLifecycle implements OrderContract: every step of every handler is  *)
(* one arrow of the order's life cycle with its effect on the shelf, one    *)
(* e-mail that was due and never sent before, or invisible.                 *)

(* Request h is bound to send the e-mail k about order o.                   *)
Owes(h, o, k) ==
  /\ job[h].at \in {"mail", "expireQuietly"}
  /\ job[h].order = o
  /\ job[h].tell = k

(* An e-mail is owed by one request at most, never once it was sent, and    *)
(* owed or sent only after the order was what it tells.                     *)
MailInv ==
  /\ \A h \in Slots, o \in Orders, k \in Mails :
       Owes(h, o, k) => status[o] \in Contract!WasOnce(k) /\ mailed[o][k] = 0
  /\ \A h, g \in Slots, o \in Orders, k \in Mails :
       Owes(h, o, k) /\ Owes(g, o, k) => h = g
  /\ \A o \in Orders, k \in Mails :
       mailed[o][k] # 0 => status[o] \in Contract!WasOnce(k)

-----------------------------------------------------------------------------
(* The kinds of step.                                                       *)
NoNewDebt == \A g \in Slots, p \in Orders, q \in Mails : Owes(g, p, q)' => Owes(g, p, q)

Unseen ==
  /\ UNCHANGED <<status, unitsOut, mailed>>
  /\ NoNewDebt

Moves(h, o, to) ==
  /\ RowsMove(o, to)
  /\ UNCHANGED mailed
  /\ \A g \in Slots, p \in Orders, q \in Mails :
       Owes(g, p, q)' => Owes(g, p, q) \/ (g = h /\ p = o /\ q = to)

Tells(h, o, k) ==
  /\ Owes(h, o, k)
  /\ mailed' = [mailed EXCEPT ![o][k] = @ + 1]
  /\ UNCHANGED <<status, unitsOut>>
  /\ \A g \in Slots, p \in Orders, q \in Mails : Owes(g, p, q)' => Owes(g, p, q) /\ g # h

DeliveredStep(o) == RowsMove(o, "DELIVERED") /\ UNCHANGED <<mailed, job>>

ContractStep ==
  \/ Unseen
  \/ \E o \in Orders : DeliveredStep(o)
  \/ \E h \in Slots, o \in Orders, to \in Statuses : Moves(h, o, to)
  \/ \E h \in Slots, o \in Orders, k \in Mails : Tells(h, o, k)

LEMMA OthersDebt ==
  ASSUME TypeInv, NEW h \in Slots, OthersStay(h),
         \A p \in Orders, q \in Mails : Owes(h, p, q)' => Owes(h, p, q)
  PROVE  NoNewDebt
BY DEF NoNewDebt, OthersStay, Owes

LEMMA MovesDebt ==
  ASSUME TypeInv, NEW h \in Slots, NEW o \in Orders, NEW to \in Statuses, OthersStay(h),
         RowsMove(o, to), UNCHANGED mailed,
         \A p \in Orders, q \in Mails : Owes(h, p, q)' => p = o /\ q = to
  PROVE  ContractStep
BY DEF ContractStep, Moves, OthersStay, Owes

LEMMA UnseenStep ==
  ASSUME TypeInv, NEW h \in Slots, OthersStay(h), UNCHANGED <<status, unitsOut, mailed>>,
         \A p \in Orders, q \in Mails : Owes(h, p, q)' => Owes(h, p, q)
  PROVE  ContractStep
BY OthersDebt DEF ContractStep, Unseen

LEMMA PayRequestContract ==
  ASSUME TypeInv, NEW h \in Slots, PayRequest(h)
  PROVE  ContractStep
<1> TypeOK /\ JobShape(job[h])
  BY DEF TypeInv, JobsShaped
<1> USE DEF TypeOK, JobShape, rowVars, gatewayVars
<1>1. CASE \E o \in Orders : PlaceOrder(h, o)
  <2> PICK o \in Orders : PlaceOrder(h, o)
    BY <1>1
  <2>1. RowsMove(o, "CREATED")
    BY DEF PlaceOrder, Transition, RowsMove, Contract!Arrow, Contract!ShelfChange
  <2>2. OthersStay(h) /\ job'[h].at = "create"
    BY BeginFacts DEF PlaceOrder, Labels, Refs
  <2>3. QED
    BY <2>1, <2>2, MovesDebt DEF PlaceOrder, Owes, Statuses
<1>2. CASE \E o \in Orders : Pay(h, o)
  <2> PICK o \in Orders : Pay(h, o)
    BY <1>2
  <2> DEFINE l == IF paymentRef[o] = NoRef THEN "create" ELSE "lookup"
  <2>1. l \in Labels /\ Begin(h, l, o, paymentRef[o], "none") /\ l \in {"create", "lookup"}
    BY DEF Pay, Labels
  <2> HIDE DEF l
  <2>2. OthersStay(h) /\ job'[h].at = l
    BY <2>1, BeginFacts
  <2>3. QED
    BY <2>1, <2>2, UnseenStep DEF Pay, Owes
<1>3. CASE \E s \in Sessions : CreateSession(h, s)
  BY <1>3, CreateFacts, UnseenStep DEF CreateSession, Owes
<1>4. CASE LookupSession(h)
  BY <1>4, GotoFacts, FinishFacts, UnseenStep DEF LookupSession, Labels, Owes
<1>5. CASE ExpireOld(h)
  BY <1>5, GotoFacts, FinishFacts, UnseenStep DEF ExpireOld, Labels, Owes
<1>6. CASE AttachSession(h)
  <2>1. job[h].tell = "none"
    BY <1>6 DEF AttachSession
  <2>2. OthersStay(h) /\ (job'[h].at = "idle" \/ job'[h].tell = "none")
    BY <1>6, <2>1, GotoFacts, FinishFacts DEF AttachSession, Labels
  <2>3. QED
    BY <1>6, <2>2, UnseenStep DEF AttachSession, Owes, Mails
<1>7. CASE ExpireQuietly(h)
  <2>1. Finish(h) \/ Goto(h, "mail")
    BY <1>7 DEF ExpireQuietly
  <2>2. /\ OthersStay(h)
        /\ \/ job'[h].at = "idle"
           \/ job'[h].order = job[h].order /\ job'[h].tell = job[h].tell
    BY <2>1, GotoFacts, FinishFacts DEF Labels
  <2>3. QED
    BY <1>7, <2>2, UnseenStep DEF ExpireQuietly, Owes
<1>8. QED
  BY <1>1, <1>2, <1>3, <1>4, <1>5, <1>6, <1>7 DEF PayRequest

LEMMA SendMailContract ==
  ASSUME TypeInv, MailInv, NEW h \in Slots, SendMail(h)
  PROVE  ContractStep
<1> TypeOK /\ JobShape(job[h])
  BY DEF TypeInv, JobsShaped
<1>1. OthersStay(h) /\ job'[h].at \in {"idle", "stamp"}
  BY AfterMailFacts DEF SendMail, TypeOK
<1>2. UNCHANGED <<status, unitsOut>> /\ job[h].at = "mail"
  BY DEF SendMail, rowVars
<1>3. CASE UNCHANGED mailed
  BY <1>1, <1>2, <1>3, UnseenStep DEF Owes
<1>4. CASE mailed' = [mailed EXCEPT ![job[h].order][job[h].tell] = @ + 1]
  <2>1. job[h].order \in Orders /\ job[h].tell \in Mails
    BY <1>2 DEF JobShape
  <2>2. Owes(h, job[h].order, job[h].tell)
    BY <1>2 DEF Owes
  <2>3. \A g \in Slots, p \in Orders, q \in Mails : Owes(g, p, q)' => Owes(g, p, q) /\ g # h
    BY <1>1 DEF Owes, OthersStay
  <2>4. Tells(h, job[h].order, job[h].tell)
    BY <1>2, <1>4, <2>2, <2>3 DEF Tells
  <2>5. QED
    BY <2>1, <2>4 DEF ContractStep
<1>5. QED
  BY <1>3, <1>4 DEF SendMail

LEMMA ApplyRefundContract ==
  ASSUME TypeInv, NEW h \in Slots, NEW r, ApplyRefund(h, r), UNCHANGED <<intentRef, mailed>>,
         job[h].order \in Orders,
         job' = [job EXCEPT ![h] = r] =>
           OthersStay(h) /\ job'[h].at \notin {"mail", "expireQuietly"}
  PROVE  ContractStep
<1> DEFINE o == job[h].order
<1>1. CASE status[o] = "PAID"
  <2>1. RowsMove(o, "REFUNDED")
    BY <1>1 DEF ApplyRefund, Transition, RowsMove, Contract!Arrow, Contract!ShelfChange,
                TypeInv, TypeOK
  <2>2. OthersStay(h) /\ job'[h].order = o /\ job'[h].tell = "REFUNDED"
    BY <1>1, MailThenFacts DEF ApplyRefund, Mails, TypeInv, TypeOK
  <2>3. QED
    BY <2>1, <2>2, MovesDebt DEF Owes, Statuses
<1>2. CASE status[o] # "PAID"
  BY <1>2, UnseenStep DEF ApplyRefund, Owes
<1>3. QED
  BY <1>1, <1>2

LEMMA DeskRequestContract ==
  ASSUME TypeInv, MailInv, NEW h \in Slots, DeskRequest(h)
  PROVE  ContractStep
<1> TypeOK /\ JobShape(job[h])
  BY DEF TypeInv, JobsShaped
<1> USE DEF TypeOK, JobShape, RequestLabels, rowVars, gatewayVars
<1>1. CASE SendMail(h)
  BY <1>1, SendMailContract
<1>2. CASE ExpireQuietly(h)
  BY <1>2, PayRequestContract DEF PayRequest
<1>3. CASE \E o \in Orders, tell \in {"none", "CANCELLED"} : CancelRead(h, o, tell)
  <2> PICK o \in Orders, tell \in {"none", "CANCELLED"} : CancelRead(h, o, tell)
    BY <1>3
  <2>1. OthersStay(h) /\ job'[h].at = "cancel"
    BY BeginFacts DEF CancelRead, Labels, Refs, Mails
  <2>2. QED
    BY <2>1, UnseenStep DEF CancelRead, Owes
<1>4. CASE \E o \in Orders : RefundRead(h, o)
  <2> PICK o \in Orders : RefundRead(h, o)
    BY <1>4
  <2>1. OthersStay(h) /\ job'[h].at = "refund"
    BY BeginFacts DEF RefundRead, Labels, Refs, Mails
  <2>2. QED
    BY <2>1, UnseenStep DEF RefundRead, Owes
<1>5. CASE \E o \in Orders : PurchaseLabel(h, o)
  <2> PICK o \in Orders : PurchaseLabel(h, o)
    BY <1>5
  <2>1. OthersStay(h) /\ job'[h].at = "shipLabel"
    BY BeginFacts DEF PurchaseLabel, Labels, Refs, Mails
  <2>2. QED
    BY <2>1, UnseenStep DEF PurchaseLabel, Owes
<1>6. CASE \E o \in Orders : MarkPaidByHand(h, o)
  <2> PICK o \in Orders : MarkPaidByHand(h, o)
    BY <1>6
  <2>1. RowsMove(o, "PAID")
    BY DEF MarkPaidByHand, Transition, RowsMove, Contract!Arrow, Contract!ShelfChange
  <2>2. OthersStay(h) /\ job'[h].order = o /\ job'[h].tell = "PAID"
    BY BeginFacts DEF MarkPaidByHand, Labels, Mails, Refs
  <2>3. QED
    BY <2>1, <2>2, MovesDebt DEF MarkPaidByHand, Owes, Statuses
<1>7. CASE \E o \in Orders : Ship(h, o)
  <2> PICK o \in Orders : Ship(h, o)
    BY <1>7
  <2>1. RowsMove(o, "SHIPPED")
    BY DEF Ship, Transition, RowsMove, Contract!Arrow, Contract!ShelfChange
  <2>2. OthersStay(h) /\ job'[h].order = o /\ job'[h].tell = "SHIPPED"
    BY BeginFacts DEF Ship, Labels, Mails, Refs
  <2>3. QED
    BY <2>1, <2>2, MovesDebt DEF Ship, Owes, Statuses
<1>8. CASE CancelCommit(h)
  <2> DEFINE o == job[h].order
  <2>1. o \in Orders /\ job[h].tell \in {"none", "CANCELLED"}
    BY <1>8 DEF CancelCommit
  <2>2. CASE status[o] = "CREATED"
    <3>1. RowsMove(o, "CANCELLED")
      BY <1>8, <2>2 DEF CancelCommit, Transition, RowsMove, Contract!Arrow,
                        Contract!ShelfChange
    <3>2. Finish(h) \/ Goto(h, "expireQuietly") \/ Goto(h, "mail")
      BY <1>8, <2>2 DEF CancelCommit
    <3>3. /\ OthersStay(h)
          /\ \/ job'[h].at = "idle"
             \/ job'[h].order = o /\ job'[h].tell \in {"none", "CANCELLED"}
      BY <2>1, <3>2, GotoFacts, FinishFacts DEF Labels
    <3>4. QED
      BY <1>8, <2>1, <3>1, <3>3, MovesDebt DEF CancelCommit, Owes, Statuses, Mails
  <2>3. CASE status[o] # "CREATED"
    <3>1. OthersStay(h) /\ job'[h].at = "idle"
      BY <1>8, <2>3, FinishFacts DEF CancelCommit
    <3>2. QED
      BY <1>8, <2>3, <3>1, UnseenStep DEF CancelCommit, Owes
  <2>4. QED
    BY <2>2, <2>3
<1>9. CASE RefundAtGateway(h)
  <2>1. Finish(h) \/ Goto(h, "applyRefund")
    BY <1>9 DEF RefundAtGateway
  <2>2. OthersStay(h) /\ job'[h].at \in {"idle", "applyRefund"}
    BY <2>1, GotoFacts, FinishFacts DEF Labels
  <2>3. QED
    BY <1>9, <2>2, UnseenStep DEF RefundAtGateway, Owes
<1>10. CASE RefundCommit(h)
  <2>1. job' = [job EXCEPT ![h] = Idle] =>
          OthersStay(h) /\ job'[h].at \notin {"mail", "expireQuietly"}
    BY FinishFacts DEF Finish
  <2>2. QED
    BY <1>10, <2>1, ApplyRefundContract DEF RefundCommit
<1>11. CASE ShipLabel(h)
  <2> DEFINE o == job[h].order
  <2>1. o \in Orders
    BY <1>11 DEF ShipLabel
  <2>2. CASE status[o] = "PAID"
    <3>1. RowsMove(o, "SHIPPED")
      BY <1>11, <2>2 DEF ShipLabel, Transition, RowsMove, Contract!Arrow,
                         Contract!ShelfChange
    <3>2. OthersStay(h) /\ job'[h].order = o /\ job'[h].tell = "SHIPPED"
      BY <1>11, <2>2, MailThenFacts DEF ShipLabel, Mails
    <3>3. QED
      BY <1>11, <2>1, <3>1, <3>2, MovesDebt DEF ShipLabel, Owes, Statuses
  <2>3. CASE status[o] # "PAID"
    <3>1. OthersStay(h) /\ job'[h].at = "idle"
      BY <1>11, <2>3, FinishFacts DEF ShipLabel
    <3>2. QED
      BY <1>11, <2>3, <3>1, UnseenStep DEF ShipLabel, Owes
  <2>4. QED
    BY <2>2, <2>3
<1>12. QED
  BY <1>1, <1>2, <1>3, <1>4, <1>5, <1>6, <1>7, <1>8, <1>9, <1>10, <1>11 DEF DeskRequest

LEMMA DeliveryContract ==
  ASSUME TypeInv, MailInv, NEW h \in Slots, Delivery(h)
  PROVE  ContractStep
<1> TypeOK /\ JobShape(job[h])
  BY DEF TypeInv, JobsShaped
<1> USE DEF TypeOK, rowVars, gatewayVars
<1>1. CASE SendMail(h)
  BY <1>1, SendMailContract
<1>2. CASE DispatchPayment(h)
  <2> DEFINE o == job[h].order
  <2>1. CASE o \in Orders /\ status[o] = "CREATED"
    <3>1. job[h].event.charge \in Refs
      BY <1>2 DEF DispatchPayment, JobShape, DeliveryLabels, Events, Refs
    <3>2. RowsMove(o, "PAID")
      BY <1>2, <2>1, <3>1 DEF DispatchPayment, Transition, RowsMove, Contract!Arrow,
                              Contract!ShelfChange
    <3>3. OthersStay(h) /\ job'[h].order = o /\ job'[h].tell = "PAID"
      BY <1>2, <2>1, MailThenFacts DEF DispatchPayment, Mails
    <3>4. QED
      BY <1>2, <2>1, <3>2, <3>3, MovesDebt DEF DispatchPayment, Owes, Statuses
  <2>2. CASE ~(o \in Orders /\ status[o] = "CREATED")
    <3>1. OthersStay(h) /\ job'[h].at = "stamp"
      BY <1>2, <2>2, StampedFacts DEF DispatchPayment
    <3>2. QED
      BY <1>2, <2>2, <3>1, UnseenStep DEF DispatchPayment, Owes
  <2>3. QED
    BY <2>1, <2>2
<1>3. CASE DispatchRefund(h)
  <2>1. CASE job[h].order = NoOrder
    <3>1. OthersStay(h) /\ job'[h].at = "idle"
      BY <1>3, <2>1, FinishFacts DEF DispatchRefund
    <3>2. QED
      BY <1>3, <2>1, <3>1, UnseenStep DEF DispatchRefund, Owes
  <2>2. CASE job[h].order # NoOrder
    <3>1. job[h].order \in Orders
      BY <2>2 DEF Jobs
    <3>2. job' = [job EXCEPT ![h] = Stamped(h)] =>
            OthersStay(h) /\ job'[h].at \notin {"mail", "expireQuietly"}
      BY StampedFacts
    <3>3. QED
      BY <1>3, <2>2, <3>1, <3>2, ApplyRefundContract DEF DispatchRefund
  <2>3. QED
    BY <2>1, <2>2
<1>4. CASE \E e \in inbox : Receive(h, e)
  <2> PICK e \in inbox : Receive(h, e)
    BY <1>4
  <2>1. OthersStay(h) /\ job'[h].at = "claim"
    BY ReceiveFacts
  <2>2. QED
    BY <2>1, UnseenStep DEF Receive, Owes
<1>5. CASE Claim(h)
  <2>1. Finish(h) \/ Goto(h, "dispatch")
    BY <1>5 DEF Claim
  <2>2. OthersStay(h) /\ job'[h].at \in {"idle", "dispatch"}
    BY <2>1, GotoFacts, FinishFacts DEF Labels
  <2>3. QED
    BY <1>5, <2>2, UnseenStep DEF Claim, Owes
<1>6. CASE DispatchFailure(h)
  <2>1. OthersStay(h) /\ job'[h].at = "stamp"
    BY <1>6, StampedFacts DEF DispatchFailure
  <2>2. QED
    BY <1>6, <2>1, UnseenStep DEF DispatchFailure, Owes
<1>7. CASE StampProcessed(h)
  <2>1. OthersStay(h) /\ job'[h].at = "idle"
    BY <1>7, FinishFacts DEF StampProcessed
  <2>2. QED
    BY <1>7, <2>1, UnseenStep DEF StampProcessed, Owes
<1>8. QED
  BY <1>1, <1>2, <1>3, <1>4, <1>5, <1>6, <1>7 DEF Delivery

LEMMA NextContract == TypeInv /\ MailInv /\ [Next]_vars => ContractStep
<1> SUFFICES ASSUME TypeInv, MailInv, [Next]_vars PROVE ContractStep
  OBVIOUS
<1>1. CASE \E h \in Slots : PayRequest(h) \/ DeskRequest(h) \/ Delivery(h)
  BY <1>1, PayRequestContract, DeskRequestContract, DeliveryContract
<1>2. CASE \E h \in Slots : Abort(h)
  <2> PICK h \in Slots : Abort(h)
    BY <1>2
  <2>1. OthersStay(h) /\ job'[h].at = "idle"
    BY FinishFacts DEF Abort, TypeInv, TypeOK
  <2>2. QED
    BY <2>1, UnseenStep DEF Abort, Owes, rowVars
<1>3. CASE \E o \in Orders : Deliver(o)
  <2> PICK o \in Orders : Deliver(o)
    BY <1>3
  <2>1. RowsMove(o, "DELIVERED")
    BY DEF Deliver, Transition, RowsMove, Contract!Arrow, Contract!ShelfChange,
           TypeInv, TypeOK
  <2>2. DeliveredStep(o)
    BY <2>1 DEF Deliver, DeliveredStep
  <2>3. QED
    BY <2>2 DEF ContractStep
<1>4. CASE \/ \E s \in Sessions : GatewayStep(s)
           \/ UNCHANGED vars
  BY <1>4 DEF GatewayStep, BuyerPays, BuyerWillPayLater, PaymentFails, SessionTimesOut,
              RefundInDashboard, vars, rowVars, ContractStep, Unseen, NoNewDebt, Owes
<1>5. QED
  BY <1>1, <1>2, <1>3, <1>4 DEF Next, Slots

-----------------------------------------------------------------------------
LEMMA InitMail == Init => MailInv
BY DEF Init, MailInv, Owes, Idle

LEMMA ArrowsKeepTold ==
  ASSUME NEW from \in Statuses, NEW to \in Statuses, NEW k \in Mails,
         Contract!Arrow(from, to)
  PROVE  /\ from \in Contract!WasOnce(k) => to \in Contract!WasOnce(k)
         /\ to = k => from \notin Contract!WasOnce(k) /\ to \in Contract!WasOnce(k)
BY DEF Contract!Arrow, Contract!WasOnce, Mails, Statuses

LEMMA NextMail == TypeInv /\ MailInv /\ ContractStep => MailInv'
<1> SUFFICES ASSUME TypeInv, MailInv, ContractStep PROVE MailInv'
  OBVIOUS
<1> TypeOK
  BY DEF TypeInv
<1>1. CASE Unseen
  BY <1>1 DEF Unseen, NoNewDebt, MailInv
<1>2. ASSUME NEW h \in Slots, NEW o \in Orders, NEW to \in Statuses, Moves(h, o, to)
      PROVE  MailInv'
  <2>1. /\ mailed' = mailed
        /\ status' = [status EXCEPT ![o] = to] /\ status \in [Orders -> Statuses]
        /\ Contract!Arrow(status[o], to)
        /\ \A g \in Slots, p \in Orders, q \in Mails :
             Owes(g, p, q)' => Owes(g, p, q) \/ (g = h /\ p = o /\ q = to)
    BY <1>2 DEF Moves, RowsMove, TypeOK
  <2>2. \A p \in Orders, q \in Mails :
          status[p] \in Contract!WasOnce(q) => status'[p] \in Contract!WasOnce(q)
    BY <2>1, ArrowsKeepTold
  <2>3. to \in Mails => /\ status[o] \notin Contract!WasOnce(to)
                        /\ status'[o] \in Contract!WasOnce(to)
    BY <2>1, ArrowsKeepTold
  <2>4. to \in Mails => /\ mailed[o][to] = 0
                        /\ \A g \in Slots : ~Owes(g, o, to)
    BY <2>3 DEF MailInv
  <2>5. QED
    BY <2>1, <2>2, <2>3, <2>4 DEF MailInv
<1>3. ASSUME NEW h \in Slots, NEW o \in Orders, NEW k \in Mails, Tells(h, o, k)
      PROVE  MailInv'
  <2>1. /\ Owes(h, o, k) /\ status' = status
        /\ mailed' = [mailed EXCEPT ![o] = [mailed[o] EXCEPT ![k] = mailed[o][k] + 1]]
        /\ mailed \in [Orders -> [Mails -> Nat]]
        /\ \A g \in Slots, p \in Orders, q \in Mails :
             Owes(g, p, q)' => Owes(g, p, q) /\ g # h
    BY <1>3 DEF Tells, TypeOK
  <2>2. \A p \in Orders, q \in Mails :
          ~(p = o /\ q = k) => mailed'[p][q] = mailed[p][q]
    BY <2>1
  <2>3. status[o] \in Contract!WasOnce(k) /\ \A g \in Slots : g # h => ~Owes(g, o, k)
    BY <2>1 DEF MailInv
  <2>4. QED
    BY <2>1, <2>2, <2>3 DEF MailInv
<1>4. ASSUME NEW o \in Orders, DeliveredStep(o) PROVE MailInv'
  <2>1. /\ mailed' = mailed /\ job' = job
        /\ status' = [status EXCEPT ![o] = "DELIVERED"] /\ status \in [Orders -> Statuses]
        /\ Contract!Arrow(status[o], "DELIVERED") /\ "DELIVERED" \in Statuses
    BY <1>4 DEF DeliveredStep, RowsMove, TypeOK, Statuses
  <2>2. \A p \in Orders, q \in Mails :
          status[p] \in Contract!WasOnce(q) => status'[p] \in Contract!WasOnce(q)
    BY <2>1, ArrowsKeepTold
  <2>3. QED
    BY <2>1, <2>2 DEF MailInv, Owes
<1>5. QED
  BY <1>1, <1>2, <1>3, <1>4 DEF ContractStep

LEMMA StepRefines ==
  ASSUME TypeInv, MailInv, ContractStep
  PROVE  [Contract!Next]_(Contract!contractVars)
<1> TypeOK
  BY DEF TypeInv
<1>1. CASE Unseen
  BY <1>1 DEF Unseen, Contract!contractVars
<1>2. ASSUME NEW o \in Orders, NEW to \in Statuses, RowsMove(o, to), UNCHANGED mailed
      PROVE  Contract!Next
  <2>1. Contract!Move(o, to)
    BY <1>2 DEF RowsMove, Contract!Move
  <2>2. QED
    BY <2>1 DEF Contract!Next, Contract!Statuses, Statuses
<1>3. ASSUME NEW h \in Slots, NEW o \in Orders, NEW k \in Mails, Tells(h, o, k)
      PROVE  Contract!Next
  <2>1. mailed[o][k] = 0 /\ status[o] \in Contract!WasOnce(k)
    BY <1>3 DEF Tells, MailInv
  <2>2. mailed' = [mailed EXCEPT ![o] = [mailed[o] EXCEPT ![k] = 1]]
    BY <1>3, <2>1 DEF Tells
  <2>3. Contract!Tell(o, k)
    BY <1>3, <2>1, <2>2 DEF Tells, Contract!Tell
  <2>4. QED
    BY <2>3 DEF Contract!Next, Contract!Mails, Mails
<1>4. QED
  BY <1>1, <1>2, <1>3 DEF ContractStep, Moves, DeliveredStep, Statuses

(* Orders follow the contract whatever the gateway, the faults and the      *)
(* interleaving: no status is skipped or revived, goods are restocked once, *)
(* and no buyer is told twice (orders.service.ts, payment-events.service.ts).*)
THEOREM ImplementsContract == Spec => ContractImplemented
<1>1. Init => Contract!Init
  BY DEF Init, Contract!Init, Contract!Mails, Mails
<1>2. TypeInv /\ MailInv /\ [Next]_vars =>
        MailInv' /\ [Contract!Next]_(Contract!contractVars)
  BY NextContract, NextMail, StepRefines
<1>3. QED
  BY <1>1, <1>2, InitType, NextType, InitMail, PTL
     DEF Spec, ContractImplemented, Contract!Spec

=============================================================================
