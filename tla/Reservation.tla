---------------------------- MODULE Reservation ----------------------------
(***************************************************************************)
(* Orders, their Monobank payment holds and the launched drop they compete *)
(* for: OrdersService, PaymentsService, the part of DropsService they call *)
(* and the transition handler of AdminDropsController.                     *)
(*                                                                         *)
(* Every request of a buyer, every webhook delivery and every              *)
(* administrator's transition is a task of a worker and advances by one    *)
(* action per await; tasks interleave freely.  Monobank is external: it    *)
(* holds, declines or expires an invoice on its own, may fail a call with  *)
(* or without having acted on it, and delivers each webhook at least once, *)
(* in any order and at any time.                                           *)
(***************************************************************************)
EXTENDS DropRules, FiniteSets, FiniteSetsExt

CONSTANTS
  Orders, Payments,   \* orders that can be placed, payments that can be made
  NoPayment,          \* an order without a payment
  Sizes, Quantity,    \* size labels; the quantity of each order
  MinQuantity, MaxQuantity,
  Buyers, Hooks, Admins,   \* workers: tasks of each sort in progress at once
  BuyerRequests,      \* the requests buyers make: "pay", "cancel", "resize"
  Targets,            \* the statuses administrators move the drop to
  HoldNames,          \* the reports of one hold: a status that stands for a hold,
                      \* with its modifiedDate, tells one event from another
  CanFail             \* TRUE: a database call may fail, or the process restart

ASSUME PaymentsAssumption == NoPayment \notin Payments
ASSUME QuantityAssumption == Quantity \in [Orders -> Nat \ {0}]
ASSUME LimitsAssumption ==
  MinQuantity \in Nat \ {0} /\ MaxQuantity \in Nat /\ MinQuantity <= MaxQuantity
ASSUME HoldNamesAssumption ==
  IsFiniteSet(HoldNames) /\ HoldNames \cap {"finalized", "cancelled", "expired", "failed"} = {}
ASSUME TargetsAssumption == Targets \subseteq DropStatuses
ASSUME CanFailAssumption == CanFail \in BOOLEAN

VARIABLES
  drop,       \* the drop document
  order,      \* the order documents
  payment,    \* the payment documents
  bank,       \* Monobank: the invoice made for each payment
  sent,       \* Monobank: the webhook messages, delivered again and again
  failures,   \* payments with a recorded lifecycle failure (audit log)
  buyer, hook, admin   \* what each task holds between two calls

stored == << drop, order, payment >>
external == << bank, sent >>
vars == << stored, external, failures, buyer, hook, admin >>

OrderStatuses ==
  {"absent", "pending_payment", "reserved", "paid", "payment_failed", "cancelled"}
PaymentStatuses ==
  {"absent", "created", "hold_created", "finalized", "cancelled", "expired", "failed"}
BankStates ==
  {"none", "invoiced", "offered", "held", "captured", "released", "expired", "declined"}
EventNames == HoldNames \cup {"finalized", "cancelled", "expired", "failed"}
Messages == [payment : Payments, name : EventNames]

\* BLOCKED_CANCEL_STATUSES, isCancellablePayment and the filter of
\* processActiveHoldsForDrop, restricted to the statuses that occur.
BlockedCancelStatuses == {"paid", "cancelled"}
BlockedUpdateStatuses == {"cancelled"}
CancellablePayments == {"created", "hold_created"}
ActiveHolds == { p \in Payments : payment[p].status = "hold_created" }
FinalizingStatuses == {"sold_out", "successful", "completed"}
CancellingStatuses == {"failed", "cancelled"}

\* What a webhook event sets on the payment and on its order.
PaymentStatusFor(name) == IF name \in HoldNames THEN "hold_created" ELSE name
\* Mutant: a status it does not name is taken for a hold.
OrderStatusByDefault(name) ==
  CASE name = "finalized"                -> "paid"
    [] name \in {"cancelled", "expired"} -> "cancelled"
    [] OTHER                             -> "reserved"

\* Mutant: the order takes over the payment's status.
OrderStatusOfPayment(name) == PaymentStatusFor(name)

OrderStatusFor(name) ==
  CASE name \in HoldNames              -> "reserved"
    [] name = "finalized"              -> "paid"
    [] name \in {"cancelled", "expired"} -> "cancelled"
    [] name = "failed"                 -> "payment_failed"

Idle == [step |-> "idle"]
BuyerAt(b, step) == buyer[b].step = step
HookAt(h, step) == hook[h].step = step
AdminAt(a, step) == admin[a].step = step
Buyer(b, t) == buyer' = [buyer EXCEPT ![b] = t]
Hook(h, t) == hook' = [hook EXCEPT ![h] = t]
Admin(a, t) == admin' = [admin EXCEPT ![a] = t]
\* What a webhook keeps of its request once the drop is done with.
Request(t, step) ==
  [ step |-> step, payment |-> t.payment, name |-> t.name, order |-> t.order,
    loaded |-> t.loaded ]

Init ==
  /\ drop = [ status |-> "active_collecting", minQuantity |-> MinQuantity,
              maxQuantity |-> MaxQuantity, sizeOptions |-> Sizes,
              currentQuantity |-> 0, sizeBreakdown |-> [s \in Sizes |-> 0] ]
  /\ order \in [Orders -> [ status : {"absent"}, canCancel : {TRUE},
                            payment : {NoPayment}, size : Sizes ]]
  /\ payment = [ p \in Payments |-> [ status |-> "absent" ] ]
  /\ bank = [p \in Payments |-> "none"]
  /\ sent = {}
  /\ failures = {}
  /\ buyer = [b \in Buyers |-> Idle]
  /\ hook = [h \in Hooks |-> Idle]
  /\ admin = [a \in Admins |-> Idle]

-----------------------------------------------------------------------------
(* Monobank *)

BankHold(p) ==
  /\ bank[p] = "offered"
  /\ bank' = [bank EXCEPT ![p] = "held"]
  /\ sent' = sent \cup { [payment |-> p, name |-> n] : n \in HoldNames }

BankDecline(p) ==
  /\ bank[p] = "offered"
  /\ bank' = [bank EXCEPT ![p] = "declined"]
  /\ sent' = sent \cup { [payment |-> p, name |-> "failed"] }

BankExpire(p) ==
  /\ bank[p] \in {"invoiced", "offered", "held"}
  /\ bank' = [bank EXCEPT ![p] = "expired"]
  /\ sent' = sent \cup { [payment |-> p, name |-> "expired"] }

\* /invoice/finalize and /invoice/cancel, when Monobank carries them out.
BankCapture(p) ==
  /\ bank[p] = "held"
  /\ bank' = [bank EXCEPT ![p] = "captured"]
  /\ sent' = sent \cup { [payment |-> p, name |-> "finalized"] }

BankRelease(p) ==
  /\ bank[p] \in {"invoiced", "offered", "held"}
  /\ bank' = [bank EXCEPT ![p] = "released"]
  /\ sent' = sent \cup { [payment |-> p, name |-> "cancelled"] }

BankStep ==
  /\ \E p \in Payments : BankHold(p) \/ BankDecline(p) \/ BankExpire(p)
  /\ UNCHANGED << stored, failures, buyer, hook, admin >>

-----------------------------------------------------------------------------
(* Orders and payments: the buyer's requests *)

\* createOrder: the drop is validated, the order created; nothing is counted.
CreateOrder(o) ==
  /\ order[o].status = "absent"
  /\ Reservable(drop, order[o].size, Quantity[o])
  /\ order' = [order EXCEPT ![o].status = "pending_payment"]
  /\ UNCHANGED << drop, payment, external, failures, buyer, hook, admin >>

\* Mutant: an order that has a payment gets another one.
PayStartAgain(b) ==
  /\ "pay" \in BuyerRequests
  /\ BuyerAt(b, "idle")
  /\ \E o \in Orders, p \in Payments :
       /\ order[o].status = "pending_payment"
       /\ payment[p].status = "absent"
       /\ payment' = [payment EXCEPT ![p] =
            [status |-> "created", order |-> o, linked |-> FALSE, events |-> {}]]
       /\ Buyer(b, [step |-> "invoice", order |-> o, payment |-> p])
  /\ UNCHANGED << drop, order, external, failures, hook, admin >>

\* createPaymentHold: a pending order without a payment gets one.
PayStart(b) ==
  /\ "pay" \in BuyerRequests
  /\ BuyerAt(b, "idle")
  /\ \E o \in Orders, p \in Payments :
       /\ order[o].status = "pending_payment"
       /\ order[o].payment = NoPayment
       /\ payment[p].status = "absent"
       /\ payment' = [payment EXCEPT ![p] =
            [status |-> "created", order |-> o, linked |-> FALSE, events |-> {}]]
       /\ Buyer(b, [step |-> "invoice", order |-> o, payment |-> p])
  /\ UNCHANGED << drop, order, external, failures, hook, admin >>

\* createHoldInvoice answers.
PayInvoice(b) ==
  /\ BuyerAt(b, "invoice")
  /\ bank' = [bank EXCEPT ![buyer[b].payment] = "invoiced"]
  /\ Buyer(b, [buyer[b] EXCEPT !.step = "link"])
  /\ UNCHANGED << stored, sent, failures, hook, admin >>

\* createHoldInvoice fails: the payment is saved as failed.
PayInvoiceFails(b) ==
  /\ BuyerAt(b, "invoice")
  /\ payment' = [payment EXCEPT ![buyer[b].payment].status = "failed"]
  /\ Buyer(b, Idle)
  /\ UNCHANGED << drop, order, external, failures, hook, admin >>

\* The payment is saved with its invoice: webhooks find it from now on.
PayLink(b) ==
  /\ BuyerAt(b, "link")
  /\ payment' = [payment EXCEPT ![buyer[b].payment].linked = TRUE]
  /\ Buyer(b, [buyer[b] EXCEPT !.step = "attach"])
  /\ UNCHANGED << drop, order, external, failures, hook, admin >>

\* The order is saved with its payment, and the buyer gets the payment page.
PayAttach(b) ==
  /\ BuyerAt(b, "attach")
  /\ order' = [order EXCEPT ![buyer[b].order].payment = buyer[b].payment]
  /\ bank' = [bank EXCEPT ![buyer[b].payment] = IF @ = "invoiced" THEN "offered" ELSE @]
  /\ Buyer(b, Idle)
  /\ UNCHANGED << drop, payment, sent, failures, hook, admin >>

\* A save fails after the invoice was made: the catch block saves the payment
\* as failed, with the invoice it carries.
PayFails(b) ==
  /\ CanFail
  /\ BuyerAt(b, "link") \/ BuyerAt(b, "attach")
  /\ payment' = [payment EXCEPT ![buyer[b].payment].status = "failed",
                                ![buyer[b].payment].linked = TRUE]
  /\ Buyer(b, Idle)
  /\ UNCHANGED << drop, order, external, failures, hook, admin >>

\* cancelOrder: the order is read and may be cancelled.
CancelRead(b) ==
  /\ "cancel" \in BuyerRequests
  /\ BuyerAt(b, "idle")
  /\ \E o \in Orders :
       /\ order[o].status \notin BlockedCancelStatuses \cup {"absent"}
       /\ order[o].canCancel
       /\ Buyer(b, IF order[o].payment = NoPayment
                   THEN [step |-> "cancel_order", order |-> o]
                   ELSE [step |-> "cancel_find", order |-> o,
                         payment |-> order[o].payment])
  /\ UNCHANGED << stored, external, failures, hook, admin >>

\* cancelHoldForOrder: a payment that is past cancelling is left alone.
CancelFind(b) ==
  /\ BuyerAt(b, "cancel_find")
  /\ Buyer(b, [buyer[b] EXCEPT !.step =
                 IF payment[buyer[b].payment].status \in CancellablePayments
                 THEN "cancel_hold" ELSE "cancel_order"])
  /\ UNCHANGED << stored, external, failures, hook, admin >>

\* The bank releases the hold.
CancelHold(b) ==
  /\ BuyerAt(b, "cancel_hold")
  /\ BankRelease(buyer[b].payment)
  /\ Buyer(b, [buyer[b] EXCEPT !.step = "cancel_payment"])
  /\ UNCHANGED << stored, failures, hook, admin >>

\* The bank's answer is an error, after it acted or without: the order stays.
CancelHoldFails(b) ==
  /\ BuyerAt(b, "cancel_hold")
  /\ BankRelease(buyer[b].payment) \/ UNCHANGED external
  /\ Buyer(b, Idle)
  /\ UNCHANGED << stored, failures, hook, admin >>

CancelPayment(b) ==
  /\ BuyerAt(b, "cancel_payment")
  /\ payment' = [payment EXCEPT ![buyer[b].payment].status = "cancelled"]
  /\ Buyer(b, [buyer[b] EXCEPT !.step = "cancel_order"])
  /\ UNCHANGED << drop, order, external, failures, hook, admin >>

\* cancelOrder saves the copy of the order it read.  The drop is not touched.
CancelOrder(b) ==
  /\ BuyerAt(b, "cancel_order")
  /\ order' = [order EXCEPT ![buyer[b].order].status = "cancelled",
                            ![buyer[b].order].canCancel = FALSE]
  /\ Buyer(b, Idle)
  /\ UNCHANGED << drop, payment, external, failures, hook, admin >>

\* updateOrderSize: the order is read, the size validated against the drop.
ResizeRead(b) ==
  /\ "resize" \in BuyerRequests
  /\ BuyerAt(b, "idle")
  /\ \E o \in Orders, size \in drop.sizeOptions :
       /\ order[o].status \notin BlockedUpdateStatuses \cup {"absent"}
       /\ order[o].size # size
       /\ Buyer(b, [step |-> "resize", order |-> o, size |-> size])
  /\ UNCHANGED << stored, external, failures, hook, admin >>

ResizeSave(b) ==
  /\ BuyerAt(b, "resize")
  /\ order' = [order EXCEPT ![buyer[b].order].size = buyer[b].size]
  /\ Buyer(b, Idle)
  /\ UNCHANGED << drop, payment, external, failures, hook, admin >>

BuyerFails(b) ==
  /\ CanFail
  /\ ~BuyerAt(b, "idle")
  /\ Buyer(b, Idle)
  /\ UNCHANGED << stored, external, failures, hook, admin >>

-----------------------------------------------------------------------------
(* The webhook: handleMonobankWebhook *)

\* Mutant: recorded events are not looked up.
HookStartNoDuplicates(h) ==
  /\ HookAt(h, "idle")
  /\ \E m \in sent :
       LET doc == payment[m.payment]
       IN /\ doc.linked
          /\ Hook(h, [ step |-> IF m.name \in HoldNames THEN "read" ELSE "order",
                       payment |-> m.payment, name |-> m.name, order |-> doc.order,
                       loaded |-> doc.status ])
  /\ UNCHANGED << stored, external, failures, buyer, admin >>

\* The payment is found by its invoice; an event it has recorded is a
\* duplicate, a hold of a payment that is held changes nothing but the record.
HookStart(h) ==
  /\ HookAt(h, "idle")
  /\ \E m \in sent :
       LET doc == payment[m.payment]
       IN /\ doc.linked
          /\ m.name \notin doc.events
          /\ Hook(h, [ step |-> IF m.name \notin HoldNames THEN "order"
                                ELSE IF doc.status = "hold_created" THEN "record"
                                ELSE "read",
                       payment |-> m.payment, name |-> m.name, order |-> doc.order,
                       loaded |-> doc.status ])
  /\ UNCHANGED << stored, external, failures, buyer, admin >>

\* confirmHold, confirmPaymentHoldQuantity: the order and the drop are read and
\* validated; what the validation refuses ends the request with an error.
HookRead(h) ==
  /\ HookAt(h, "read")
  /\ LET o == hook[h].order
         size == order[o].size
     IN Hook(h, IF Reservable(drop, size, Quantity[o])
                THEN [ step |-> "count", payment |-> hook[h].payment,
                       name |-> hook[h].name, order |-> o, loaded |-> hook[h].loaded,
                       size |-> size, limit |-> drop.maxQuantity - Quantity[o],
                       previous |-> drop.status ]
                ELSE Idle)
  /\ UNCHANGED << stored, external, failures, buyer, admin >>

\* Mutant: an update that matches no drop does not end the request.
HookCountUnchecked(h) ==
  /\ HookAt(h, "count")
  /\ LET t == hook[h]
     IN /\ drop' = IF CountFilter(drop, t.size, t.limit)
                   THEN Counted(drop, t.size, Quantity[t.order]) ELSE drop
        /\ Hook(h, Request(t, "order"))
  /\ UNCHANGED << order, payment, external, failures, buyer, admin >>

\* The atomic update of the drop.
HookCount(h) ==
  /\ HookAt(h, "count")
  /\ LET t == hook[h]
         counted == Counted(drop, t.size, Quantity[t.order])
     IN IF CountFilter(drop, t.size, t.limit)
        THEN /\ drop' = counted
             /\ Hook(h, IF CallsForSave(counted, t.previous)
                        THEN [ step |-> "rule", payment |-> t.payment, name |-> t.name,
                               order |-> t.order, loaded |-> t.loaded,
                               status |-> StatusAfterCount(counted, t.previous) ]
                        ELSE Request(t, "order"))
        ELSE Hook(h, Idle) /\ UNCHANGED drop
  /\ UNCHANGED << order, payment, external, failures, buyer, admin >>

\* applyQuantityStatusRules saves the status.
HookRule(h) ==
  /\ HookAt(h, "rule")
  /\ drop' = [drop EXCEPT !.status = hook[h].status]
  /\ Hook(h, Request(hook[h], "order"))
  /\ UNCHANGED << order, payment, external, failures, buyer, admin >>

\* The order's status is set, whatever it is now.
HookOrder(h) ==
  /\ HookAt(h, "order")
  /\ order' = [order EXCEPT ![hook[h].order].status = OrderStatusFor(hook[h].name)]
  /\ Hook(h, Request(hook[h], "record"))
  /\ UNCHANGED << drop, payment, external, failures, buyer, admin >>

\* The copy of the payment is saved: the event is added, the status written
\* when it is a change of the copy.
HookRecord(h) ==
  /\ HookAt(h, "record")
  /\ LET t == hook[h]
         status == PaymentStatusFor(t.name)
     IN payment' = [payment EXCEPT
          ![t.payment].events = @ \cup {t.name},
          ![t.payment].status = IF status # t.loaded THEN status ELSE @]
  /\ Hook(h, Idle)
  /\ UNCHANGED << drop, order, external, failures, buyer, admin >>

HookFails(h) ==
  /\ CanFail
  /\ ~HookAt(h, "idle")
  /\ Hook(h, Idle)
  /\ UNCHANGED << stored, external, failures, buyer, admin >>

-----------------------------------------------------------------------------
(* The administrator's transition: AdminDropsController.transition *)

MoveRead(a) ==
  /\ AdminAt(a, "idle")
  /\ \E target \in MoveTargets(drop) \cap Targets :
       Admin(a, [step |-> "move", target |-> target])
  /\ UNCHANGED << stored, external, failures, buyer, hook >>

MoveSave(a) ==
  /\ AdminAt(a, "move")
  /\ LET target == admin[a].target
     IN /\ drop' = [drop EXCEPT !.status = target]
        /\ Admin(a, CASE target \in FinalizingStatuses -> [step |-> "list", action |-> "finalize"]
                      [] target \in CancellingStatuses -> [step |-> "list", action |-> "cancel"]
                      [] OTHER -> Idle)
  /\ UNCHANGED << order, payment, external, failures, buyer, hook >>

\* processActiveHoldsForDrop: the loop over queue.
Settle(action, queue) ==
  IF queue = {} THEN Idle ELSE [step |-> "settle", action |-> action, queue |-> queue]

List(a) ==
  /\ AdminAt(a, "list")
  /\ Admin(a, Settle(admin[a].action, ActiveHolds))
  /\ UNCHANGED << stored, external, failures, buyer, hook >>

\* Mutant: the two calls are swapped.
BankCallSwapped(action, p) ==
  IF action = "finalize" THEN BankRelease(p) ELSE BankCapture(p)

BankCall(action, p) == IF action = "finalize" THEN BankCapture(p) ELSE BankRelease(p)

SettleHold(a) ==
  /\ AdminAt(a, "settle")
  /\ \E p \in admin[a].queue :
       /\ BankCall(admin[a].action, p)
       /\ Admin(a, [ step |-> "settle_payment", action |-> admin[a].action,
                     queue |-> admin[a].queue \ {p}, payment |-> p ])
  /\ UNCHANGED << stored, failures, buyer, hook >>

\* Mutant: the error is swallowed and the payment processed as if settled.
SettleHoldFailsUnnoticed(a) ==
  /\ AdminAt(a, "settle")
  /\ \E p \in admin[a].queue :
       Admin(a, [ step |-> "settle_payment", action |-> admin[a].action,
                  queue |-> admin[a].queue \ {p}, payment |-> p ])
  /\ UNCHANGED << stored, external, failures, buyer, hook >>

\* Mutant: the error is not recorded.
SettleHoldFailsUnrecorded(a) ==
  /\ AdminAt(a, "settle")
  /\ \E p \in admin[a].queue :
       Admin(a, Settle(admin[a].action, admin[a].queue \ {p}))
  /\ UNCHANGED << stored, external, failures, buyer, hook >>

\* The bank's answer is an error: it is recorded, the loop goes on.
SettleHoldFails(a) ==
  /\ AdminAt(a, "settle")
  /\ \E p \in admin[a].queue :
       /\ BankCall(admin[a].action, p) \/ UNCHANGED external
       /\ failures' = failures \cup {p}
       /\ Admin(a, Settle(admin[a].action, admin[a].queue \ {p}))
  /\ UNCHANGED << stored, buyer, hook >>

SettlePayment(a) ==
  /\ AdminAt(a, "settle_payment")
  /\ payment' = [payment EXCEPT ![admin[a].payment].status =
       IF admin[a].action = "finalize" THEN "finalized" ELSE "cancelled"]
  /\ Admin(a, [admin[a] EXCEPT !.step = "settle_order"])
  /\ UNCHANGED << drop, order, external, failures, buyer, hook >>

SettleOrder(a) ==
  /\ AdminAt(a, "settle_order")
  /\ LET o == payment[admin[a].payment].order
     IN order' = [order EXCEPT
          ![o].status = IF admin[a].action = "finalize" THEN "paid" ELSE "cancelled",
          ![o].canCancel = FALSE]
  /\ Admin(a, Settle(admin[a].action, admin[a].queue))
  /\ UNCHANGED << drop, payment, external, failures, buyer, hook >>

\* A save of one payment or order fails: recorded, the loop goes on.
SettleSaveFails(a) ==
  /\ CanFail
  /\ AdminAt(a, "settle_payment") \/ AdminAt(a, "settle_order")
  /\ failures' = failures \cup {admin[a].payment}
  /\ Admin(a, Settle(admin[a].action, admin[a].queue))
  /\ UNCHANGED << stored, external, buyer, hook >>

AdminFails(a) ==
  /\ CanFail
  /\ ~AdminAt(a, "idle")
  /\ Admin(a, Idle)
  /\ UNCHANGED << stored, external, failures, buyer, hook >>

-----------------------------------------------------------------------------
BuyerStarts(b) == PayStart(b) \/ CancelRead(b) \/ ResizeRead(b)
BuyerContinues(b) ==
  \/ PayInvoice(b) \/ PayInvoiceFails(b) \/ PayLink(b) \/ PayAttach(b) \/ PayFails(b)
  \/ CancelFind(b) \/ CancelHold(b) \/ CancelHoldFails(b) \/ CancelPayment(b)
  \/ CancelOrder(b) \/ ResizeSave(b)
HookContinues(h) == HookRead(h) \/ HookCount(h) \/ HookRule(h) \/ HookOrder(h) \/ HookRecord(h)
AdminContinues(a) ==
  \/ MoveSave(a) \/ List(a) \/ SettleHold(a) \/ SettleHoldFails(a)
  \/ SettlePayment(a) \/ SettleOrder(a) \/ SettleSaveFails(a)

Next ==
  \/ BankStep
  \/ \E o \in Orders : CreateOrder(o)
  \/ \E b \in Buyers : BuyerStarts(b) \/ BuyerContinues(b) \/ BuyerFails(b)
  \/ \E h \in Hooks : HookStart(h) \/ HookContinues(h) \/ HookFails(h)
  \/ \E a \in Admins : MoveRead(a) \/ AdminContinues(a) \/ AdminFails(a)

Spec == Init /\ [][Next]_vars

\* A task that has begun is carried on, and Monobank keeps delivering a webhook
\* until it was accepted.  Buyers and administrators need never do anything.
FairSpec ==
  /\ Spec
  /\ \A b \in Buyers : WF_vars(BuyerContinues(b))
  /\ \A h \in Hooks : WF_vars(HookStart(h)) /\ WF_vars(HookContinues(h))
  /\ \A a \in Admins : WF_vars(AdminContinues(a))

-----------------------------------------------------------------------------
(* Properties *)

Order ==
  [ status : OrderStatuses, canCancel : BOOLEAN,
    payment : Payments \cup {NoPayment}, size : Sizes ]
Payment ==
  [ status : {"absent"} ] \cup
  [ status : PaymentStatuses \ {"absent"}, order : Orders, linked : BOOLEAN,
    events : SUBSET EventNames ]
Drop ==
  [ status : DropStatuses, minQuantity : {MinQuantity}, maxQuantity : {MaxQuantity},
    sizeOptions : {Sizes}, currentQuantity : Nat, sizeBreakdown : [Sizes -> Nat] ]
BuyerTask ==
  [ step : {"invoice", "link", "attach", "cancel_find", "cancel_hold", "cancel_payment"},
    order : Orders, payment : Payments ]
  \cup [ step : {"cancel_order"}, order : Orders, payment : Payments ]
  \cup [ step : {"cancel_order"}, order : Orders ]
  \cup [ step : {"resize"}, order : Orders, size : Sizes ]
HookRequest ==
  [ step : {"read"}, payment : Payments, name : HoldNames, order : Orders,
    loaded : PaymentStatuses \ {"absent"} ]
  \cup [ step : {"order", "record"}, payment : Payments, name : EventNames,
         order : Orders, loaded : PaymentStatuses \ {"absent"} ]
HookTask ==
  HookRequest
  \cup [ step : {"count"}, payment : Payments, name : HoldNames, order : Orders,
         loaded : PaymentStatuses \ {"absent"}, size : Sizes, limit : Int,
         previous : OpenStatuses ]
  \cup [ step : {"rule"}, payment : Payments, name : HoldNames, order : Orders,
         loaded : PaymentStatuses \ {"absent"}, status : {"guaranteed", "sold_out"} ]
Actions == {"finalize", "cancel"}
AdminTask ==
  [ step : {"move"}, target : DropStatuses ]
  \cup [ step : {"list"}, action : Actions ]
  \cup [ step : {"settle"}, action : Actions, queue : SUBSET Payments ]
  \cup [ step : {"settle_payment", "settle_order"}, action : Actions,
         queue : SUBSET Payments, payment : Payments ]

TypeOK ==
  /\ drop \in Drop
  /\ order \in [Orders -> Order]
  /\ payment \in [Payments -> Payment]
  /\ bank \in [Payments -> BankStates]
  /\ sent \subseteq Messages
  /\ failures \subseteq Payments
  /\ buyer \in [Buyers -> {Idle} \cup BuyerTask]
  /\ hook \in [Hooks -> {Idle} \cup HookTask]
  /\ admin \in [Admins -> {Idle} \cup AdminTask]

PaymentsOf(o) == { p \in Payments : payment[p].status # "absent" /\ payment[p].order = o }
Total(orders) == MapThenSumSet(LAMBDA o : Quantity[o], orders)
Seated == { o \in Orders : order[o].status \in {"reserved", "paid"} }
Counts(p) == payment[p].status # "absent" /\ payment[p].events \cap HoldNames # {}
Holds == { p \in Payments : Counts(p) }
HeldQuantity == [p \in Holds |-> Quantity[payment[p].order]]

\* The drop never counts more than its maximum, whatever is delivered, retried,
\* cancelled or lost at the same time.
NoOversell == drop.currentQuantity <= MaxQuantity

\* Every order the buyer is told holds a seat is in the drop's count.
SeatsAreCounted == Total(Seated) <= drop.currentQuantity

\* An order is paid and a payment finalized only when the bank has the money.
PaidIsCaptured ==
  /\ \A p \in Payments : payment[p].status = "finalized" => bank[p] = "captured"
  /\ \A o \in Orders : order[o].status = "paid" =>
       \E p \in PaymentsOf(o) : bank[p] = "captured"

\* An order holds a seat only after the bank has reported money held for it.
SeatsWereHeld ==
  \A o \in Orders : order[o].status = "reserved" =>
    \E p \in PaymentsOf(o), n \in HoldNames : [payment |-> p, name |-> n] \in sent

\* Webhooks that do not overlap and do not fail count every recorded hold, and
\* count it once while the bank keeps its money, however often and under however
\* many names it is reported.  Once the money is captured, released or expired a
\* report under a name not seen before counts again, so the number of names
\* recorded is then the bound.
TimesCounted(p) ==
  IF bank[p] = "held" THEN 1 ELSE Cardinality(payment[p].events \cap HoldNames)
ReportedQuantity == [p \in Holds |-> Quantity[payment[p].order] * TimesCounted(p)]
CountsEachHoldOnce ==
  (\A h \in Hooks : HookAt(h, "idle")) =>
    /\ MapThenSumSet(LAMBDA p : HeldQuantity[p], Holds) <= drop.currentQuantity
    /\ drop.currentQuantity <= MapThenSumSet(LAMBDA p : ReportedQuantity[p], Holds)

\* Nobody is charged for a drop that failed.
NoChargeForFailedDrop ==
  drop.status = "failed" => \A p \in Payments : bank[p] # "captured"

\* An order never has two payments the buyer can pay (findUserPendingPaymentOrder):
\* an invoice is offered only once the order is known to have it.  That is enough
\* for payment requests that do not overlap, retries of failed ones included.
OnePaymentPerOrder ==
  \A p, q \in Payments :
    bank[p] = "offered" /\ bank[q] = "offered" /\ payment[p].order = payment[q].order
      => p = q

\* The drop's count is a quota of MaxQuantity seats, sold in the orders' quantities.
Seats == INSTANCE Quota WITH
  Limit <- MaxQuantity, Lots <- { Quantity[o] : o \in Orders },
  taken <- drop.currentQuantity, open <- drop.status \in OpenStatuses
SeatQuota == Seats!Spec

\* Every hold found when a drop closes is taken off the list with its money
\* captured or released, or with a failure in the audit log.
ListedHoldsSettle ==
  \A a \in Admins, p \in Payments :
    AdminAt(a, "settle") /\ p \in admin[a].queue ~>
      bank[p] # "held" \/ p \in failures

-----------------------------------------------------------------------------
(* What the documents say of the whole system. *)

\* The count is that of the payments whose hold was recorded: an event that
\* arrives again does not take a seat again.
CountIsIdempotent ==
  (\A h \in Hooks : HookAt(h, "idle")) =>
    drop.currentQuantity = MapThenSumSet(LAMBDA p : HeldQuantity[p], Holds)

\* The money held for a failed drop is released, without its buyer asking for it.
FailedDropReleases ==
  \A p \in Payments : drop.status = "failed" /\ bank[p] = "held" ~>
    bank[p] # "held" \/ \E b \in Buyers : BuyerAt(b, "cancel_hold")
=============================================================================
