-------------------------- MODULE ReservationProofs --------------------------
(* Theorems about module Reservation, for every set of orders, payments,    *)
(* sizes and workers, every quantity of an order and every limit.           *)
EXTENDS Reservation, SumTheorems

Created == { p \in Payments : payment[p].status # "absent" }

PaymentDocument ==
  [ status : PaymentStatuses \ {"absent"}, order : Orders, linked : BOOLEAN,
    events : SUBSET EventNames ]

(***************************************************************************)
(* Whatever refers to a payment refers to one that was created: the tasks, *)
(* the orders, the bank's invoices and the webhooks.  Without this a save  *)
(* could hit a document that does not exist.                               *)
(***************************************************************************)
BuyerRefs ==
  \A b \in Buyers :
    buyer[b].step \in {"invoice", "link", "attach", "cancel_find", "cancel_hold",
                       "cancel_payment"} => buyer[b].payment \in Created
HookRefs == \A h \in Hooks : hook[h].step # "idle" => hook[h].payment \in Created
AdminRefs ==
  \A a \in Admins :
    /\ admin[a].step \in {"settle", "settle_payment", "settle_order"} =>
         admin[a].queue \subseteq Created
    /\ admin[a].step \in {"settle_payment", "settle_order"} => admin[a].payment \in Created
OrderRefs == \A o \in Orders : order[o].payment # NoPayment => order[o].payment \in Created
BankRefs == \A p \in Payments : bank[p] # "none" => p \in Created
SentRefs == \A m \in sent : m.payment \in Created

References == BuyerRefs /\ HookRefs /\ AdminRefs /\ OrderRefs /\ BankRefs /\ SentRefs

TInv == TypeOK /\ References

-----------------------------------------------------------------------------
(* Helpers *)

LEMMA CreatedIsDocument ==
  ASSUME TypeOK, NEW p \in Payments, p \in Created
  PROVE  payment[p] \in PaymentDocument
BY DEF TypeOK, Payment, Created, PaymentDocument

(* Saving a document in place of a created one loses no payment. *)
LEMMA SavedPayment ==
  ASSUME TypeOK, NEW p \in Payments, NEW doc \in PaymentDocument,
         payment' = [payment EXCEPT ![p] = doc]
  PROVE  /\ payment' \in [Payments -> Payment]
         /\ payment'[p] = doc
         /\ \A q \in Payments : q # p => payment'[q] = payment[q]
         /\ Created \subseteq Created'
<1>1. doc \in Payment /\ doc.status # "absent"
  BY DEF Payment, PaymentDocument
<1> QED
  BY <1>1 DEF TypeOK, Created

LEMMA BuyerShapes ==
  ASSUME TypeOK, NEW b \in Buyers
  PROVE  /\ buyer[b] \in {Idle} \cup BuyerTask
         /\ buyer[b].step \in {"invoice", "link", "attach", "cancel_find", "cancel_hold",
                               "cancel_payment"} =>
              buyer[b].order \in Orders /\ buyer[b].payment \in Payments
         /\ buyer[b].step = "cancel_order" => buyer[b].order \in Orders
         /\ buyer[b].step = "resize" => buyer[b].order \in Orders /\ buyer[b].size \in Sizes
BY DEF TypeOK, BuyerTask, Idle

LEMMA HookShapes ==
  ASSUME TypeOK, NEW h \in Hooks, hook[h].step # "idle"
  PROVE  /\ hook[h] \in HookTask
         /\ hook[h].payment \in Payments /\ hook[h].order \in Orders
         /\ hook[h].name \in EventNames
         /\ hook[h].loaded \in PaymentStatuses \ {"absent"}
         /\ hook[h].step \in {"read", "count", "rule"} => hook[h].name \in HoldNames
         /\ hook[h].step = "count" =>
              hook[h].size \in Sizes /\ hook[h].limit \in Int
         /\ hook[h].step = "rule" => hook[h].status \in {"guaranteed", "sold_out"}
BY DEF TypeOK, HookTask, HookRequest, Idle, EventNames

LEMMA AdminShapes ==
  ASSUME TypeOK, NEW a \in Admins
  PROVE  /\ admin[a] \in {Idle} \cup AdminTask
         /\ admin[a].step = "move" => admin[a].target \in DropStatuses
         /\ admin[a].step \in {"list", "settle", "settle_payment", "settle_order"} =>
              admin[a].action \in Actions
         /\ admin[a].step \in {"settle", "settle_payment", "settle_order"} =>
              admin[a].queue \in SUBSET Payments
         /\ admin[a].step \in {"settle_payment", "settle_order"} =>
              admin[a].payment \in Payments
BY DEF TypeOK, AdminTask, Idle

(* Only the worker's own record changes. *)
LEMMA BuyerOwn ==
  ASSUME TypeOK, NEW b \in Buyers, NEW t \in {Idle} \cup BuyerTask, Buyer(b, t)
  PROVE  /\ buyer' \in [Buyers -> {Idle} \cup BuyerTask]
         /\ buyer'[b] = t
         /\ \A c \in Buyers : c # b => buyer'[c] = buyer[c]
BY DEF TypeOK, Buyer

LEMMA HookOwn ==
  ASSUME TypeOK, NEW h \in Hooks, NEW t \in {Idle} \cup HookTask, Hook(h, t)
  PROVE  /\ hook' \in [Hooks -> {Idle} \cup HookTask]
         /\ hook'[h] = t
         /\ \A g \in Hooks : g # h => hook'[g] = hook[g]
BY DEF TypeOK, Hook

LEMMA AdminOwn ==
  ASSUME TypeOK, NEW a \in Admins, NEW t \in {Idle} \cup AdminTask, Admin(a, t)
  PROVE  /\ admin' \in [Admins -> {Idle} \cup AdminTask]
         /\ admin'[a] = t
         /\ \A c \in Admins : c # a => admin'[c] = admin[c]
BY DEF TypeOK, Admin

LEMMA CountedDrop ==
  ASSUME NEW size \in Sizes, NEW quantity \in Nat, drop \in Drop
  PROVE  /\ Counted(drop, size, quantity) \in Drop
         /\ Counted(drop, size, quantity).currentQuantity = drop.currentQuantity + quantity
         /\ Counted(drop, size, quantity).status = drop.status
<1> DEFINE b == [drop.sizeBreakdown EXCEPT ![size] = @ + quantity]
<1>1. b \in [Sizes -> Nat]
  BY DEF Drop
<1>2. drop.currentQuantity + quantity \in Nat
  BY DEF Drop
<1>3. Counted(drop, size, quantity) =
        [drop EXCEPT !.currentQuantity = drop.currentQuantity + quantity,
                     !.sizeBreakdown = b]
  BY DEF Counted, Drop
<1> HIDE DEF b
<1> QED
  BY <1>1, <1>2, <1>3 DEF Drop

LEMMA DropStatusSaved ==
  ASSUME drop \in Drop, NEW s \in DropStatuses, drop' = [drop EXCEPT !.status = s]
  PROVE  /\ drop' \in Drop
         /\ drop'.status = s
         /\ drop'.currentQuantity = drop.currentQuantity
BY DEF Drop

LEMMA RuleStatus ==
  ASSUME NEW d, NEW previous, CallsForSave(d, previous)
  PROVE  StatusAfterCount(d, previous) \in {"guaranteed", "sold_out"}
BY DEF CallsForSave, StatusAfterCount

LEMMA InitTInv == Init => TInv
<1> SUFFICES ASSUME Init PROVE TInv
  OBVIOUS
<1>1. drop \in Drop
  BY LimitsAssumption DEF Init, Drop, DropStatuses
<1>2. order \in [Orders -> Order] /\ \A o \in Orders : order[o].payment = NoPayment
  BY DEF Init, Order, OrderStatuses
<1>3. payment \in [Payments -> Payment]
  BY DEF Init, Payment
<1>4. TypeOK
  BY <1>1, <1>2, <1>3 DEF Init, TypeOK, BankStates
<1>5. References
  BY <1>2 DEF Init, References, BuyerRefs, HookRefs, AdminRefs, OrderRefs, BankRefs,
     SentRefs, Idle
<1> QED
  BY <1>4, <1>5 DEF TInv

-----------------------------------------------------------------------------
(* TInv is kept: the parts of the invariant that depend on each worker pool *)
(* are preserved by a change of one task, whatever else the step changes.   *)

LEMMA BuyerRefsKept ==
  ASSUME TInv, NEW b \in Buyers, NEW t \in {Idle} \cup BuyerTask, Buyer(b, t),
         Created \subseteq Created',
         t.step \in {"invoice", "link", "attach", "cancel_find", "cancel_hold",
                     "cancel_payment"} => t.payment \in Created'
  PROVE  buyer' \in [Buyers -> {Idle} \cup BuyerTask] /\ BuyerRefs'
<1>1. /\ buyer' \in [Buyers -> {Idle} \cup BuyerTask]
      /\ buyer'[b] = t
      /\ \A c \in Buyers : c # b => buyer'[c] = buyer[c]
  BY BuyerOwn DEF TInv
<1>2. \A c \in Buyers :
        buyer'[c].step \in {"invoice", "link", "attach", "cancel_find", "cancel_hold",
                            "cancel_payment"} => buyer'[c].payment \in Created'
  BY <1>1, BuyerShapes DEF TInv, References, BuyerRefs
<1> QED
  BY <1>1, <1>2 DEF BuyerRefs

LEMMA HookRefsKept ==
  ASSUME TInv, NEW h \in Hooks, NEW t \in {Idle} \cup HookTask, Hook(h, t),
         Created \subseteq Created',
         t.step # "idle" => t.payment \in Created'
  PROVE  hook' \in [Hooks -> {Idle} \cup HookTask] /\ HookRefs'
<1>1. /\ hook' \in [Hooks -> {Idle} \cup HookTask]
      /\ hook'[h] = t
      /\ \A g \in Hooks : g # h => hook'[g] = hook[g]
  BY HookOwn DEF TInv
<1>2. \A g \in Hooks : hook'[g].step # "idle" => hook'[g].payment \in Created'
  BY <1>1, HookShapes DEF TInv, References, HookRefs
<1> QED
  BY <1>1, <1>2 DEF HookRefs

LEMMA AdminRefsKept ==
  ASSUME TInv, NEW a \in Admins, NEW t \in {Idle} \cup AdminTask, Admin(a, t),
         Created \subseteq Created',
         t.step \in {"settle", "settle_payment", "settle_order"} =>
           t.queue \subseteq Created',
         t.step \in {"settle_payment", "settle_order"} => t.payment \in Created'
  PROVE  admin' \in [Admins -> {Idle} \cup AdminTask] /\ AdminRefs'
<1>1. /\ admin' \in [Admins -> {Idle} \cup AdminTask]
      /\ admin'[a] = t
      /\ \A c \in Admins : c # a => admin'[c] = admin[c]
  BY AdminOwn DEF TInv
<1>2. \A c \in Admins :
        /\ admin'[c].step \in {"settle", "settle_payment", "settle_order"} =>
             admin'[c].queue \subseteq Created'
        /\ admin'[c].step \in {"settle_payment", "settle_order"} => admin'[c].payment \in Created'
  BY <1>1, AdminShapes DEF TInv, References, AdminRefs
<1> QED
  BY <1>1, <1>2 DEF AdminRefs

(* Payments once created stay created, so references that do not change stay *)
(* good.                                                                     *)
LEMMA OtherRefsKept ==
  ASSUME TInv, Created \subseteq Created'
  PROVE  /\ buyer' = buyer => BuyerRefs'
         /\ hook' = hook => HookRefs'
         /\ admin' = admin => AdminRefs'
         /\ order' = order => OrderRefs'
         /\ bank' = bank => BankRefs'
         /\ sent' = sent => SentRefs'
<1> USE DEF TInv, References
<1>1. buyer' = buyer => BuyerRefs'
  BY BuyerShapes DEF BuyerRefs
<1>2. hook' = hook => HookRefs'
  BY HookShapes DEF HookRefs
<1>3. admin' = admin => AdminRefs'
  BY AdminShapes DEF AdminRefs
<1>4. order' = order => OrderRefs'
  BY DEF OrderRefs, TypeOK, Order
<1>5. bank' = bank => BankRefs'
  BY DEF BankRefs
<1>6. sent' = sent => SentRefs'
  BY DEF SentRefs, TypeOK, Messages
<1> QED
  BY <1>1, <1>2, <1>3, <1>4, <1>5, <1>6

(* The bank's moves: they concern an invoice that was made. *)
LEMMA BankMove ==
  ASSUME TInv, UNCHANGED payment, NEW p \in Payments, p \in Created,
         NEW s \in BankStates, bank' = [bank EXCEPT ![p] = s],
         sent' \subseteq sent \cup [payment : {p}, name : EventNames]
  PROVE  /\ bank' \in [Payments -> BankStates]
         /\ sent' \subseteq Messages
         /\ BankRefs' /\ SentRefs'
BY DEF TInv, References, TypeOK, BankRefs, SentRefs, Messages, Created

LEMMA BankCalls ==
  ASSUME TInv, UNCHANGED payment, NEW p \in Payments,
         BankHold(p) \/ BankDecline(p) \/ BankExpire(p) \/ BankCapture(p) \/ BankRelease(p)
  PROVE  /\ bank' \in [Payments -> BankStates]
         /\ sent' \subseteq Messages
         /\ BankRefs' /\ SentRefs'
<1>1. p \in Created
  BY DEF BankHold, BankDecline, BankExpire, BankCapture, BankRelease, TInv, References,
     BankRefs
<1>2. PICK s \in BankStates : bank' = [bank EXCEPT ![p] = s]
  BY DEF BankHold, BankDecline, BankExpire, BankCapture, BankRelease, BankStates
<1>3. sent' \subseteq sent \cup [payment : {p}, name : EventNames]
  BY DEF BankHold, BankDecline, BankExpire, BankCapture, BankRelease, EventNames
<1> QED
  BY <1>1, <1>2, <1>3, BankMove

(* A step that changes no payment keeps TInv when each part it changes does. *)
LEMMA PartsKeepTInv ==
  ASSUME drop' \in Drop, order' \in [Orders -> Order], payment' \in [Payments -> Payment],
         bank' \in [Payments -> BankStates], sent' \subseteq Messages,
         failures' \subseteq Payments,
         buyer' \in [Buyers -> {Idle} \cup BuyerTask],
         hook' \in [Hooks -> {Idle} \cup HookTask],
         admin' \in [Admins -> {Idle} \cup AdminTask],
         BuyerRefs', HookRefs', AdminRefs', OrderRefs', BankRefs', SentRefs'
  PROVE  TInv'
BY DEF TInv, TypeOK, References

LEMMA BankStepT ==
  ASSUME TInv, BankStep
  PROVE  TInv'
<1>1. PICK p \in Payments : BankHold(p) \/ BankDecline(p) \/ BankExpire(p)
  BY DEF BankStep
<1>2. UNCHANGED << drop, order, payment, failures, buyer, hook, admin >>
  BY DEF BankStep, stored
<1>3. /\ bank' \in [Payments -> BankStates] /\ sent' \subseteq Messages
      /\ BankRefs' /\ SentRefs'
  BY <1>1, <1>2, BankCalls
<1>4. Created \subseteq Created'
  BY <1>2 DEF Created
<1> QED
  BY <1>2, <1>3, <1>4, OtherRefsKept, PartsKeepTInv DEF TInv, TypeOK

LEMMA CreateOrderT ==
  ASSUME TInv, NEW o \in Orders, CreateOrder(o)
  PROVE  TInv'
<1>1. UNCHANGED << drop, payment, bank, sent, failures, buyer, hook, admin >>
  BY DEF CreateOrder, external
<1>2. order' \in [Orders -> Order] /\ \A q \in Orders : order'[q].payment = order[q].payment
  BY DEF CreateOrder, TInv, TypeOK, Order, OrderStatuses
<1>3. Created' = Created
  BY <1>1 DEF Created
<1>4. OrderRefs'
  BY <1>2, <1>3 DEF OrderRefs, TInv, References
<1> QED
  BY <1>1, <1>2, <1>3, <1>4, OtherRefsKept, PartsKeepTInv DEF TInv, TypeOK

(* A step of buyer b that leaves the payments, the bank and the orders' *)
(* payments alone.                                                      *)
LEMMA BuyerOnly ==
  ASSUME TInv, NEW b \in Buyers, NEW t \in {Idle} \cup BuyerTask, Buyer(b, t),
         t.step \in {"invoice", "link", "attach", "cancel_find", "cancel_hold",
                     "cancel_payment"} => t.payment \in Created,
         UNCHANGED << drop, payment, bank, sent, failures, hook, admin >>,
         order' \in [Orders -> Order],
         \A o \in Orders : order'[o].payment = order[o].payment
  PROVE  TInv'
<1>1. Created' = Created
  BY DEF Created
<1>2. buyer' \in [Buyers -> {Idle} \cup BuyerTask] /\ BuyerRefs'
  BY <1>1, BuyerRefsKept
<1>3. OrderRefs'
  BY <1>1 DEF OrderRefs, TInv, References
<1> QED
  BY <1>1, <1>2, <1>3, OtherRefsKept, PartsKeepTInv DEF TInv, TypeOK

(* A step of buyer b that saves one payment document. *)
LEMMA BuyerSavesPayment ==
  ASSUME TInv, NEW b \in Buyers, NEW t \in {Idle} \cup BuyerTask, Buyer(b, t),
         NEW p \in Payments, NEW doc \in PaymentDocument,
         payment' = [payment EXCEPT ![p] = doc],
         t.step \in {"invoice", "link", "attach", "cancel_find", "cancel_hold",
                     "cancel_payment"} => t.payment \in Created',
         UNCHANGED << drop, order, bank, sent, failures, hook, admin >>
  PROVE  TInv'
<1>1. payment' \in [Payments -> Payment] /\ Created \subseteq Created'
  BY SavedPayment DEF TInv
<1>2. buyer' \in [Buyers -> {Idle} \cup BuyerTask] /\ BuyerRefs'
  BY <1>1, BuyerRefsKept
<1> QED
  BY <1>1, <1>2, OtherRefsKept, PartsKeepTInv DEF TInv, TypeOK

LEMMA PayStartT ==
  ASSUME TInv, NEW b \in Buyers, PayStart(b)
  PROVE  TInv'
<1>1. PICK o \in Orders, p \in Payments :
        /\ payment' = [payment EXCEPT ![p] =
             [status |-> "created", order |-> o, linked |-> FALSE, events |-> {}]]
        /\ Buyer(b, [step |-> "invoice", order |-> o, payment |-> p])
  BY DEF PayStart
<1> DEFINE doc == [status |-> "created", order |-> o, linked |-> FALSE, events |-> {}]
           t == [step |-> "invoice", order |-> o, payment |-> p]
<1>2. doc \in PaymentDocument /\ t \in BuyerTask
  BY DEF PaymentDocument, PaymentStatuses, BuyerTask
<1>3. p \in Created'
  BY <1>1, <1>2, SavedPayment DEF Created, TInv
<1>4. UNCHANGED << drop, order, bank, sent, failures, hook, admin >>
  BY DEF PayStart, external
<1>5. t.payment = p
  OBVIOUS
<1>6. payment' = [payment EXCEPT ![p] = doc] /\ Buyer(b, t)
  BY <1>1
<1> HIDE DEF doc, t
<1> QED
  BY <1>2, <1>3, <1>4, <1>5, <1>6, BuyerSavesPayment

LEMMA PayInvoiceT ==
  ASSUME TInv, NEW b \in Buyers, PayInvoice(b)
  PROVE  TInv'
<1> DEFINE p == buyer[b].payment
           t == [buyer[b] EXCEPT !.step = "link"]
<1>1. /\ buyer[b].step = "invoice" /\ Buyer(b, t)
      /\ bank' = [bank EXCEPT ![p] = "invoiced"]
      /\ UNCHANGED << drop, order, payment, sent, failures, hook, admin >>
  BY DEF PayInvoice, BuyerAt, stored
<1>2. p \in Payments /\ p \in Created
  BY <1>1, BuyerShapes DEF TInv, References, BuyerRefs
<1>3. t \in BuyerTask /\ t.payment = p
  BY <1>1, BuyerShapes DEF TInv, BuyerTask, Idle
<1>4. Created' = Created
  BY <1>1 DEF Created
<1>5. buyer' \in [Buyers -> {Idle} \cup BuyerTask] /\ BuyerRefs'
  <2> HIDE DEF t
  <2> QED
    BY <1>1, <1>2, <1>3, <1>4, BuyerRefsKept
<1>6. bank' \in [Payments -> BankStates] /\ BankRefs'
  BY <1>1, <1>2, BankMove DEF BankStates
<1> QED
  BY <1>1, <1>4, <1>5, <1>6, OtherRefsKept, PartsKeepTInv DEF TInv, TypeOK

(* Saving another status, a link or an event in a created payment. *)
LEMMA EditedDocument ==
  ASSUME TInv, NEW p \in Created, NEW s \in PaymentStatuses \ {"absent"},
         NEW l \in BOOLEAN, NEW e \in SUBSET EventNames
  PROVE  /\ [payment[p] EXCEPT !.status = s] \in PaymentDocument
         /\ [payment[p] EXCEPT !.linked = l] \in PaymentDocument
         /\ [payment[p] EXCEPT !.status = s, !.linked = l] \in PaymentDocument
         /\ [payment[p] EXCEPT !.events = payment[p].events \cup e, !.status = s]
              \in PaymentDocument
<1>1. p \in Payments /\ payment[p] \in PaymentDocument
  BY CreatedIsDocument DEF TInv, Created
<1> QED
  BY <1>1 DEF PaymentDocument

LEMMA PaySavesT ==
  ASSUME TInv, NEW b \in Buyers,
         PayInvoiceFails(b) \/ PayLink(b) \/ PayFails(b) \/ CancelPayment(b)
  PROVE  TInv'
<1> DEFINE p == buyer[b].payment
<1>1. /\ buyer[b].step \in {"invoice", "link", "attach", "cancel_payment"}
      /\ UNCHANGED << drop, order, bank, sent, failures, hook, admin >>
  BY DEF PayInvoiceFails, PayLink, PayFails, CancelPayment, BuyerAt, external
<1>2. p \in Payments /\ p \in Created /\ buyer[b].order \in Orders
  BY <1>1, BuyerShapes DEF TInv, References, BuyerRefs
<1>3. PICK doc \in PaymentDocument : payment' = [payment EXCEPT ![p] = doc]
  <2>1. "failed" \in PaymentStatuses \ {"absent"} /\ "cancelled" \in PaymentStatuses \ {"absent"}
    BY DEF PaymentStatuses
  <2>2. CASE PayInvoiceFails(b)
    BY <1>2, <2>1, <2>2, EditedDocument DEF PayInvoiceFails
  <2>3. CASE PayLink(b)
    BY <1>2, <2>1, <2>3, EditedDocument DEF PayLink
  <2>4. CASE PayFails(b)
    <3>1. payment' = [payment EXCEPT ![p] = [payment[p] EXCEPT !.status = "failed",
                                                               !.linked = TRUE]]
      BY <1>2, <2>4 DEF PayFails, TInv, TypeOK
    <3> QED
      BY <1>2, <2>1, <3>1, EditedDocument
  <2>5. CASE CancelPayment(b)
    BY <1>2, <2>1, <2>5, EditedDocument DEF CancelPayment
  <2> QED
    BY <2>2, <2>3, <2>4, <2>5
<1>4. p \in Created'
  BY <1>2, <1>3, SavedPayment DEF TInv
<1>5. PICK t \in {Idle} \cup BuyerTask :
        /\ Buyer(b, t)
        /\ t.step \in {"invoice", "link", "attach", "cancel_find", "cancel_hold",
                       "cancel_payment"} => t.payment = p
  <2>1. [buyer[b] EXCEPT !.step = "attach"] \in BuyerTask
     /\ [buyer[b] EXCEPT !.step = "cancel_order"] \in BuyerTask
    BY <1>1, <1>2, BuyerShapes DEF TInv, BuyerTask, Idle
  <2>2. [buyer[b] EXCEPT !.step = "attach"].payment = p
    BY <1>1, BuyerShapes DEF TInv, BuyerTask, Idle
  <2>3. Idle.step = "idle"
    BY DEF Idle
  <2>4. CASE PayInvoiceFails(b) \/ PayFails(b)
    BY <2>3, <2>4 DEF PayInvoiceFails, PayFails
  <2>5. CASE PayLink(b)
    BY <2>1, <2>2, <2>5 DEF PayLink
  <2>6. CASE CancelPayment(b)
    <3>1. [buyer[b] EXCEPT !.step = "cancel_order"].step = "cancel_order"
      BY <1>1, BuyerShapes DEF TInv, BuyerTask, Idle
    <3> QED
      BY <2>1, <2>6, <3>1 DEF CancelPayment
  <2> QED
    BY <2>4, <2>5, <2>6
<1> QED
  BY <1>1, <1>2, <1>3, <1>4, <1>5, BuyerSavesPayment

(* PayAttach is the only step that gives an order a payment. *)
LEMMA PayAttachT ==
  ASSUME TInv, NEW b \in Buyers, PayAttach(b)
  PROVE  TInv'
<1> DEFINE p == buyer[b].payment
           o == buyer[b].order
           s == IF bank[p] = "invoiced" THEN "offered" ELSE bank[p]
<1>1. /\ buyer[b].step = "attach" /\ Buyer(b, Idle)
      /\ UNCHANGED << drop, payment, sent, failures, hook, admin >>
  BY DEF PayAttach, BuyerAt
<1>2. p \in Payments /\ p \in Created /\ o \in Orders
  BY <1>1, BuyerShapes DEF TInv, References, BuyerRefs
<1>3. Created' = Created
  BY <1>1 DEF Created
<1>4. bank' = [bank EXCEPT ![p] = s] /\ s \in BankStates
  BY <1>2 DEF PayAttach, TInv, TypeOK, BankStates
<1>5. bank' \in [Payments -> BankStates] /\ BankRefs'
  <2> HIDE DEF s, p
  <2> QED
    BY <1>1, <1>2, <1>4, BankMove
<1>6. order' \in [Orders -> Order] /\ OrderRefs'
  <2>1. [order[o] EXCEPT !.payment = p] \in Order
    BY <1>2 DEF TInv, TypeOK, Order
  <2>2. order' = [order EXCEPT ![o] = [order[o] EXCEPT !.payment = p]]
    BY <1>2 DEF PayAttach, TInv, TypeOK
  <2>3. [order[o] EXCEPT !.payment = p].payment = p
    BY <1>2 DEF TInv, TypeOK, Order
  <2> QED
    BY <1>2, <1>3, <2>1, <2>2, <2>3 DEF TInv, TypeOK, OrderRefs, References
<1>7. buyer' \in [Buyers -> {Idle} \cup BuyerTask] /\ BuyerRefs'
  BY <1>1, <1>3, BuyerRefsKept DEF Idle
<1> QED
  BY <1>1, <1>3, <1>5, <1>6, <1>7, OtherRefsKept, PartsKeepTInv DEF TInv, TypeOK

LEMMA CancelReadT ==
  ASSUME TInv, NEW b \in Buyers, CancelRead(b)
  PROVE  TInv'
<1>1. /\ UNCHANGED << drop, order, payment, bank, sent, failures, hook, admin >>
  BY DEF CancelRead, stored, external
<1>2. PICK o \in Orders :
        Buyer(b, IF order[o].payment = NoPayment
                 THEN [step |-> "cancel_order", order |-> o]
                 ELSE [step |-> "cancel_find", order |-> o, payment |-> order[o].payment])
  BY DEF CancelRead
<1>3. CASE order[o].payment = NoPayment
  <2> DEFINE t == [step |-> "cancel_order", order |-> o]
  <2>1. t \in BuyerTask /\ t.step = "cancel_order" /\ Buyer(b, t)
    BY <1>2, <1>3 DEF BuyerTask
  <2> HIDE DEF t
  <2> QED
    BY <1>1, <2>1, BuyerOnly DEF TInv, TypeOK
<1>4. CASE order[o].payment # NoPayment
  <2> DEFINE t == [step |-> "cancel_find", order |-> o, payment |-> order[o].payment]
  <2>1. order[o].payment \in Created
    BY <1>4 DEF TInv, References, OrderRefs
  <2>2. t \in BuyerTask /\ t.payment \in Created /\ Buyer(b, t)
    BY <1>2, <1>4, <2>1 DEF BuyerTask, Created
  <2> HIDE DEF t
  <2> QED
    BY <1>1, <2>2, BuyerOnly DEF TInv, TypeOK
<1> QED
  BY <1>3, <1>4

LEMMA CancelFindT ==
  ASSUME TInv, NEW b \in Buyers, CancelFind(b)
  PROVE  TInv'
<1>1. /\ buyer[b].step = "cancel_find"
      /\ UNCHANGED << drop, order, payment, bank, sent, failures, hook, admin >>
  BY DEF CancelFind, BuyerAt, stored, external
<1>2. /\ buyer[b].payment \in Created /\ buyer[b].payment \in Payments
      /\ buyer[b].order \in Orders
  BY <1>1, BuyerShapes DEF TInv, References, BuyerRefs
<1>3. PICK s \in {"cancel_hold", "cancel_order"} : Buyer(b, [buyer[b] EXCEPT !.step = s])
  BY DEF CancelFind
<1> DEFINE t == [buyer[b] EXCEPT !.step = s]
<1>4. t \in BuyerTask /\ t.payment = buyer[b].payment
  BY <1>1, <1>2, BuyerShapes DEF TInv, BuyerTask, Idle
<1>5. Buyer(b, t)
  BY <1>3
<1> HIDE DEF t
<1> QED
  BY <1>1, <1>2, <1>4, <1>5, BuyerOnly DEF TInv, TypeOK

LEMMA CancelHoldT ==
  ASSUME TInv, NEW b \in Buyers, CancelHold(b) \/ CancelHoldFails(b)
  PROVE  TInv'
<1> DEFINE p == buyer[b].payment
<1>1. /\ buyer[b].step = "cancel_hold"
      /\ UNCHANGED << drop, order, payment, failures, hook, admin >>
      /\ BankRelease(p) \/ UNCHANGED << bank, sent >>
  BY DEF CancelHold, CancelHoldFails, BuyerAt, stored, external
<1>2. p \in Payments /\ p \in Created /\ buyer[b].order \in Orders
  BY <1>1, BuyerShapes DEF TInv, References, BuyerRefs
<1>3. Created' = Created
  BY <1>1 DEF Created
<1>4. /\ bank' \in [Payments -> BankStates] /\ sent' \subseteq Messages
      /\ BankRefs' /\ SentRefs'
  <2>1. CASE BankRelease(p)
    BY <1>1, <1>2, <2>1, BankCalls
  <2>2. CASE UNCHANGED << bank, sent >>
    BY <1>3, <2>2, OtherRefsKept DEF TInv, TypeOK
  <2> QED
    BY <1>1, <2>1, <2>2
<1>5. buyer' \in [Buyers -> {Idle} \cup BuyerTask] /\ BuyerRefs'
  <2>1. CASE CancelHold(b)
    <3> DEFINE t == [buyer[b] EXCEPT !.step = "cancel_payment"]
    <3>1. t \in BuyerTask /\ t.payment = p /\ Buyer(b, t)
      BY <1>1, <1>2, <2>1, BuyerShapes DEF CancelHold, TInv, BuyerTask, Idle
    <3> HIDE DEF t
    <3> QED
      BY <1>2, <1>3, <3>1, BuyerRefsKept
  <2>2. CASE CancelHoldFails(b)
    BY <1>3, <2>2, BuyerRefsKept DEF CancelHoldFails, Idle
  <2> QED
    BY <2>1, <2>2
<1> QED
  BY <1>1, <1>3, <1>4, <1>5, OtherRefsKept, PartsKeepTInv DEF TInv, TypeOK

LEMMA CancelOrderT ==
  ASSUME TInv, NEW b \in Buyers, CancelOrder(b) \/ ResizeSave(b) \/ BuyerFails(b)
  PROVE  TInv'
<1>1. Buyer(b, Idle) /\ UNCHANGED << drop, payment, bank, sent, failures, hook, admin >>
  BY DEF CancelOrder, ResizeSave, BuyerFails, stored, external
<1>2. /\ order' \in [Orders -> Order]
      /\ \A o \in Orders : order'[o].payment = order[o].payment
  <2>1. CASE CancelOrder(b)
    <3>1. buyer[b].order \in Orders
      BY <2>1, BuyerShapes DEF CancelOrder, BuyerAt, TInv
    <3> DEFINE o == buyer[b].order
               new == [order[o] EXCEPT !.status = "cancelled", !.canCancel = FALSE]
    <3>2. order' = [order EXCEPT ![o] = new]
      BY <2>1, <3>1 DEF CancelOrder, TInv, TypeOK
    <3>3. new \in Order /\ new.payment = order[o].payment
      BY <3>1 DEF TInv, TypeOK, Order, OrderStatuses
    <3> HIDE DEF new
    <3> QED
      BY <3>1, <3>2, <3>3 DEF TInv, TypeOK
  <2>2. CASE ResizeSave(b)
    <3>1. buyer[b].order \in Orders /\ buyer[b].size \in Sizes
      BY <2>2, BuyerShapes DEF ResizeSave, BuyerAt, TInv
    <3> QED
      BY <2>2, <3>1 DEF ResizeSave, TInv, TypeOK, Order
  <2>3. CASE BuyerFails(b)
    BY <2>3 DEF BuyerFails, stored, TInv, TypeOK
  <2> QED
    BY <2>1, <2>2, <2>3
<1>3. Idle.step = "idle"
  BY DEF Idle
<1> QED
  BY <1>1, <1>2, <1>3, BuyerOnly

LEMMA ResizeReadT ==
  ASSUME TInv, NEW b \in Buyers, ResizeRead(b)
  PROVE  TInv'
<1>1. /\ UNCHANGED << drop, order, payment, bank, sent, failures, hook, admin >>
  BY DEF ResizeRead, stored, external
<1>2. PICK o \in Orders, size \in drop.sizeOptions :
        Buyer(b, [step |-> "resize", order |-> o, size |-> size])
  BY DEF ResizeRead
<1> DEFINE t == [step |-> "resize", order |-> o, size |-> size]
<1>3. t \in BuyerTask /\ t.step = "resize" /\ Buyer(b, t)
  BY <1>2 DEF BuyerTask, TInv, TypeOK, Drop
<1> HIDE DEF t
<1> QED
  BY <1>1, <1>3, BuyerOnly DEF TInv, TypeOK

LEMMA BuyerT ==
  ASSUME TInv, NEW b \in Buyers, BuyerStarts(b) \/ BuyerContinues(b) \/ BuyerFails(b)
  PROVE  TInv'
BY PayStartT, CancelReadT, ResizeReadT, PayInvoiceT, PaySavesT, PayAttachT, CancelFindT,
   CancelHoldT, CancelOrderT DEF BuyerStarts, BuyerContinues

-----------------------------------------------------------------------------
(* The webhook's steps keep TInv. *)

(* A step of hook h that leaves the payments, the bank and the orders' *)
(* payments alone.                                                     *)
LEMMA HookOnly ==
  ASSUME TInv, NEW h \in Hooks, NEW t \in {Idle} \cup HookTask, Hook(h, t),
         t.step # "idle" => t.payment \in Created,
         UNCHANGED << payment, bank, sent, failures, buyer, admin >>,
         drop' \in Drop, order' \in [Orders -> Order],
         \A o \in Orders : order'[o].payment = order[o].payment
  PROVE  TInv'
<1>1. Created' = Created
  BY DEF Created
<1>2. hook' \in [Hooks -> {Idle} \cup HookTask] /\ HookRefs'
  BY <1>1, HookRefsKept
<1>3. OrderRefs'
  BY <1>1 DEF OrderRefs, TInv, References
<1> QED
  BY <1>1, <1>2, <1>3, OtherRefsKept, PartsKeepTInv DEF TInv, TypeOK

LEMMA HookStartT ==
  ASSUME TInv, NEW h \in Hooks, HookStart(h)
  PROVE  TInv'
<1>1. UNCHANGED << drop, order, payment, bank, sent, failures, buyer, admin >>
  BY DEF HookStart, stored, external
<1>2. PICK m \in sent, step \in {"read", "order", "record"} :
        /\ Hook(h, [ step |-> step, payment |-> m.payment, name |-> m.name,
                     order |-> payment[m.payment].order,
                     loaded |-> payment[m.payment].status ])
        /\ step = "read" => m.name \in HoldNames
  BY DEF HookStart
<1>3. /\ m.payment \in Payments /\ m.payment \in Created /\ m.name \in EventNames
      /\ payment[m.payment] \in PaymentDocument
  BY CreatedIsDocument DEF TInv, TypeOK, References, SentRefs, Messages
<1> DEFINE t == [ step |-> step, payment |-> m.payment, name |-> m.name,
                  order |-> payment[m.payment].order,
                  loaded |-> payment[m.payment].status ]
<1>4. t \in HookTask /\ t.payment = m.payment /\ Hook(h, t)
  BY <1>2, <1>3 DEF HookTask, HookRequest, PaymentDocument
<1> HIDE DEF t
<1> QED
  BY <1>1, <1>3, <1>4, HookOnly DEF TInv, TypeOK

(* What is left of a request is a task that waits for its order or its record. *)
LEMMA RequestIsTask ==
  ASSUME TypeOK, NEW h \in Hooks, hook[h].step # "idle"
  PROVE  \A step \in {"order", "record"} :
           /\ Request(hook[h], step) \in HookTask
           /\ Request(hook[h], step).payment = hook[h].payment
           /\ Request(hook[h], step).step = step
           /\ Request(hook[h], step).name = hook[h].name
           /\ Request(hook[h], step).order = hook[h].order
BY HookShapes DEF Request, HookTask, HookRequest

LEMMA HookReadT ==
  ASSUME TInv, NEW h \in Hooks, HookRead(h)
  PROVE  TInv'
<1> DEFINE o == hook[h].order
           size == order[o].size
           t == [ step |-> "count", payment |-> hook[h].payment,
                  name |-> hook[h].name, order |-> o, loaded |-> hook[h].loaded,
                  size |-> size, limit |-> drop.maxQuantity - Quantity[o],
                  previous |-> drop.status ]
<1>1. /\ hook[h].step = "read"
      /\ UNCHANGED << drop, order, payment, bank, sent, failures, buyer, admin >>
  BY DEF HookRead, HookAt, stored, external
<1>2. /\ hook[h].payment \in Created /\ hook[h].payment \in Payments
      /\ o \in Orders /\ hook[h].name \in HoldNames
      /\ hook[h].loaded \in PaymentStatuses \ {"absent"}
  BY <1>1, HookShapes DEF TInv, References, HookRefs
<1>3. CASE Reservable(drop, size, Quantity[o])
  <2>1. drop.maxQuantity - Quantity[o] \in Int
    BY <1>2, QuantityAssumption, LimitsAssumption DEF TInv, TypeOK, Drop
  <2>2. drop.status \in OpenStatuses
    BY <1>3 DEF Reservable
  <2>3. size \in Sizes
    BY <1>2 DEF TInv, TypeOK, Order
  <2>4. t \in HookTask /\ t.payment = hook[h].payment
    BY <1>2, <2>1, <2>2, <2>3 DEF HookTask
  <2>5. Hook(h, t)
    BY <1>3 DEF HookRead
  <2> HIDE DEF t
  <2> QED
    BY <1>1, <1>2, <2>4, <2>5, HookOnly DEF TInv, TypeOK
<1>4. CASE ~Reservable(drop, size, Quantity[o])
  <2>1. Hook(h, Idle) /\ Idle.step = "idle"
    BY <1>4 DEF HookRead, Idle
  <2> QED
    BY <1>1, <2>1, HookOnly DEF TInv, TypeOK
<1> QED
  BY <1>3, <1>4

LEMMA HookCountT ==
  ASSUME TInv, NEW h \in Hooks, HookCount(h)
  PROVE  TInv'
<1> DEFINE counted == Counted(drop, hook[h].size, Quantity[hook[h].order])
           rule == [ step |-> "rule", payment |-> hook[h].payment,
                     name |-> hook[h].name, order |-> hook[h].order,
                     loaded |-> hook[h].loaded,
                     status |-> StatusAfterCount(counted, hook[h].previous) ]
<1>1. /\ hook[h].step = "count"
      /\ UNCHANGED << order, payment, bank, sent, failures, buyer, admin >>
  BY DEF HookCount, HookAt, external
<1>2. /\ hook[h].payment \in Created /\ hook[h].payment \in Payments
      /\ hook[h].order \in Orders /\ hook[h].name \in HoldNames
      /\ hook[h].loaded \in PaymentStatuses \ {"absent"} /\ hook[h].size \in Sizes
  BY <1>1, HookShapes DEF TInv, References, HookRefs
<1>3. counted \in Drop
  BY <1>2, CountedDrop, QuantityAssumption DEF TInv, TypeOK
<1>4. drop' \in Drop
  BY <1>3 DEF HookCount, TInv, TypeOK
<1>5. PICK t \in {Idle} \cup HookTask :
        Hook(h, t) /\ (t.step # "idle" => t.payment = hook[h].payment)
  <2>1. CASE Hook(h, Idle)
    BY <2>1 DEF Idle
  <2>2. CASE Hook(h, Request(hook[h], "order"))
    BY <1>1, <2>2, RequestIsTask DEF TInv
  <2>3. CASE Hook(h, rule) /\ CallsForSave(counted, hook[h].previous)
    <3>1. rule \in HookTask /\ rule.payment = hook[h].payment
      BY <1>2, <2>3, RuleStatus DEF HookTask
    <3> QED
      BY <2>3, <3>1
  <2> QED
    BY <2>1, <2>2, <2>3 DEF HookCount
<1> QED
  BY <1>1, <1>2, <1>4, <1>5, HookOnly DEF TInv, TypeOK

LEMMA HookRuleT ==
  ASSUME TInv, NEW h \in Hooks, HookRule(h)
  PROVE  TInv'
<1>1. /\ hook[h].step = "rule" /\ Hook(h, Request(hook[h], "order"))
      /\ drop' = [drop EXCEPT !.status = hook[h].status]
      /\ UNCHANGED << order, payment, bank, sent, failures, buyer, admin >>
  BY DEF HookRule, HookAt, external
<1>2. hook[h].payment \in Created /\ hook[h].status \in DropStatuses
  BY <1>1, HookShapes DEF TInv, References, HookRefs, DropStatuses
<1>3. drop' \in Drop
  BY <1>1, <1>2, DropStatusSaved DEF TInv, TypeOK
<1> QED
  BY <1>1, <1>2, <1>3, HookOnly, RequestIsTask DEF TInv, TypeOK

LEMMA HookOrderT ==
  ASSUME TInv, NEW h \in Hooks, HookOrder(h)
  PROVE  TInv'
<1> DEFINE o == hook[h].order
           new == [order[o] EXCEPT !.status = OrderStatusFor(hook[h].name)]
<1>1. /\ hook[h].step = "order" /\ Hook(h, Request(hook[h], "record"))
      /\ UNCHANGED << drop, payment, bank, sent, failures, buyer, admin >>
  BY DEF HookOrder, HookAt, external
<1>2. hook[h].payment \in Created /\ o \in Orders /\ hook[h].name \in EventNames
  BY <1>1, HookShapes DEF TInv, References, HookRefs
<1>3. OrderStatusFor(hook[h].name) \in OrderStatuses
  BY <1>2, HoldNamesAssumption DEF OrderStatusFor, OrderStatuses, EventNames
<1>4. new \in Order /\ new.payment = order[o].payment
  BY <1>2, <1>3 DEF TInv, TypeOK, Order
<1>5. order' = [order EXCEPT ![o] = new]
  BY <1>2 DEF HookOrder, TInv, TypeOK
<1>6. order' \in [Orders -> Order] /\ \A q \in Orders : order'[q].payment = order[q].payment
  <2> HIDE DEF new
  <2> QED
    BY <1>2, <1>4, <1>5 DEF TInv, TypeOK
<1> QED
  BY <1>1, <1>2, <1>6, HookOnly, RequestIsTask DEF TInv, TypeOK

LEMMA HookRecordT ==
  ASSUME TInv, NEW h \in Hooks, HookRecord(h)
  PROVE  TInv'
<1> DEFINE p == hook[h].payment
           name == hook[h].name
           s == IF PaymentStatusFor(name) # hook[h].loaded
                THEN PaymentStatusFor(name) ELSE payment[p].status
           doc == [payment[p] EXCEPT !.events = payment[p].events \cup {name}, !.status = s]
<1>1. /\ hook[h].step = "record" /\ Hook(h, Idle)
      /\ UNCHANGED << drop, order, bank, sent, failures, buyer, admin >>
  BY DEF HookRecord, HookAt, external
<1>2. /\ p \in Created /\ p \in Payments /\ name \in EventNames
      /\ payment[p] \in PaymentDocument
  BY <1>1, HookShapes, CreatedIsDocument DEF TInv, References, HookRefs
<1>3. s \in PaymentStatuses \ {"absent"}
  BY <1>2, HoldNamesAssumption
  DEF PaymentStatusFor, PaymentStatuses, EventNames, PaymentDocument
<1>4. doc \in PaymentDocument
  BY <1>2, <1>3, EditedDocument
<1>5. payment' = [payment EXCEPT ![p] = doc]
  BY <1>2 DEF HookRecord, TInv, TypeOK
<1>6. payment' \in [Payments -> Payment] /\ Created \subseteq Created'
  <2> HIDE DEF doc, p
  <2> QED
    BY <1>2, <1>4, <1>5, SavedPayment DEF TInv
<1>7. hook' \in [Hooks -> {Idle} \cup HookTask] /\ HookRefs'
  BY <1>1, <1>6, HookRefsKept DEF Idle
<1> QED
  BY <1>1, <1>6, <1>7, OtherRefsKept, PartsKeepTInv DEF TInv, TypeOK

LEMMA HookT ==
  ASSUME TInv, NEW h \in Hooks, HookStart(h) \/ HookContinues(h) \/ HookFails(h)
  PROVE  TInv'
<1>1. CASE HookFails(h)
  BY <1>1, HookOnly DEF HookFails, Idle, stored, external, TInv, TypeOK
<1> QED
  BY <1>1, HookStartT, HookReadT, HookCountT, HookRuleT, HookOrderT, HookRecordT
  DEF HookContinues

-----------------------------------------------------------------------------
(* The administrator's steps keep TInv. *)

(* A task of the loop, or the end of it. *)
LEMMA SettleIsTask ==
  ASSUME TInv, NEW action \in Actions, NEW queue \in SUBSET Payments, queue \subseteq Created
  PROVE  /\ Settle(action, queue) \in {Idle} \cup AdminTask
         /\ Settle(action, queue).step \in {"idle", "settle"}
         /\ Settle(action, queue).step = "settle" => Settle(action, queue).queue = queue
         /\ Settle(action, queue).step = "settle" => Settle(action, queue).action = action
BY DEF Settle, AdminTask, Idle

(* A step of administrator a that leaves the payments, the bank and the *)
(* orders' payments alone.                                              *)
LEMMA AdminOnly ==
  ASSUME TInv, NEW a \in Admins, NEW t \in {Idle} \cup AdminTask, Admin(a, t),
         t.step \in {"settle", "settle_payment", "settle_order"} => t.queue \subseteq Created,
         t.step \in {"settle_payment", "settle_order"} => t.payment \in Created,
         UNCHANGED << payment, buyer, hook >>,
         drop' \in Drop, order' \in [Orders -> Order], failures' \subseteq Payments,
         \A o \in Orders : order'[o].payment = order[o].payment,
         bank' \in [Payments -> BankStates], sent' \subseteq Messages,
         BankRefs', SentRefs'
  PROVE  TInv'
<1>1. Created' = Created
  BY DEF Created
<1>2. admin' \in [Admins -> {Idle} \cup AdminTask] /\ AdminRefs'
  BY <1>1, AdminRefsKept
<1>3. OrderRefs'
  BY <1>1 DEF OrderRefs, TInv, References
<1> QED
  BY <1>1, <1>2, <1>3, OtherRefsKept, PartsKeepTInv DEF TInv, TypeOK

LEMMA BankUntouched ==
  ASSUME TInv, UNCHANGED << payment, bank, sent >>
  PROVE  /\ bank' \in [Payments -> BankStates] /\ sent' \subseteq Messages
         /\ BankRefs' /\ SentRefs'
<1>1. Created' = Created
  BY DEF Created
<1> QED
  BY <1>1, OtherRefsKept DEF TInv, TypeOK

LEMMA MoveT ==
  ASSUME TInv, NEW a \in Admins, MoveRead(a) \/ MoveSave(a) \/ AdminFails(a)
  PROVE  TInv'
<1>1. UNCHANGED << order, payment, bank, sent, failures, buyer, hook >>
  BY DEF MoveRead, MoveSave, AdminFails, stored, external
<1>2. drop' \in Drop
  <2>1. CASE MoveSave(a)
    BY <2>1, AdminShapes, DropStatusSaved DEF MoveSave, AdminAt, TInv, TypeOK
  <2>2. CASE UNCHANGED drop
    BY <2>2 DEF TInv, TypeOK
  <2> QED
    BY <2>1, <2>2 DEF MoveRead, AdminFails, stored
<1>3. PICK t \in {Idle} \cup AdminTask : Admin(a, t) /\ t.step \in {"idle", "move", "list"}
  <2>1. CASE MoveRead(a)
    <3>1. PICK target \in DropStatuses : Admin(a, [step |-> "move", target |-> target])
      BY <2>1, TargetsAssumption DEF MoveRead
    <3> QED
      BY <3>1 DEF AdminTask
  <2>2. CASE MoveSave(a)
    <3>1. \A action \in Actions : [step |-> "list", action |-> action] \in AdminTask
      BY DEF AdminTask
    <3> QED
      BY <2>2, <3>1 DEF MoveSave, Actions, Idle
  <2>3. CASE AdminFails(a)
    BY <2>3 DEF AdminFails, Idle
  <2> QED
    BY <2>1, <2>2, <2>3
<1> QED
  BY <1>1, <1>2, <1>3, BankUntouched, AdminOnly DEF TInv, TypeOK

LEMMA ListT ==
  ASSUME TInv, NEW a \in Admins, List(a)
  PROVE  TInv'
<1>1. /\ UNCHANGED << drop, order, payment, bank, sent, failures, buyer, hook >>
      /\ admin[a].action \in Actions
  BY AdminShapes DEF List, AdminAt, stored, external, TInv
<1> DEFINE t == Settle(admin[a].action, ActiveHolds)
<1>2. ActiveHolds \subseteq Created /\ ActiveHolds \in SUBSET Payments
  BY DEF ActiveHolds, Created
<1>3. /\ t \in {Idle} \cup AdminTask /\ t.step \in {"idle", "settle"}
      /\ t.step = "settle" => t.queue = ActiveHolds
  BY <1>1, <1>2, SettleIsTask
<1>4. Admin(a, t)
  BY DEF List
<1> HIDE DEF t
<1> QED
  BY <1>1, <1>2, <1>3, <1>4, BankUntouched, AdminOnly DEF TInv, TypeOK

LEMMA BankCallT ==
  ASSUME TInv, NEW action \in Actions, NEW p \in Payments, UNCHANGED payment,
         BankCall(action, p) \/ UNCHANGED external
  PROVE  /\ bank' \in [Payments -> BankStates] /\ sent' \subseteq Messages
         /\ BankRefs' /\ SentRefs'
<1>1. CASE BankCall(action, p)
  BY <1>1, BankCalls DEF BankCall
<1>2. CASE UNCHANGED external
  BY <1>2, BankUntouched DEF external
<1> QED
  BY <1>1, <1>2

LEMMA SettleHoldT ==
  ASSUME TInv, NEW a \in Admins, SettleHold(a) \/ SettleHoldFails(a)
  PROVE  TInv'
<1> DEFINE action == admin[a].action
           queue == admin[a].queue
<1>1. /\ admin[a].step = "settle"
      /\ UNCHANGED << drop, order, payment, buyer, hook >>
  BY DEF SettleHold, SettleHoldFails, AdminAt, stored
<1>2. /\ action \in Actions /\ queue \in SUBSET Payments /\ queue \subseteq Created
  BY <1>1, AdminShapes DEF TInv, References, AdminRefs
<1>3. PICK p \in queue :
        /\ BankCall(action, p) \/ UNCHANGED external
        /\ failures' \subseteq failures \cup {p}
        /\ \/ Admin(a, [ step |-> "settle_payment", action |-> action,
                         queue |-> queue \ {p}, payment |-> p ])
           \/ Admin(a, Settle(action, queue \ {p}))
  BY DEF SettleHold, SettleHoldFails
<1>4. /\ bank' \in [Payments -> BankStates] /\ sent' \subseteq Messages
      /\ BankRefs' /\ SentRefs'
  BY <1>1, <1>2, <1>3, BankCallT
<1>5. PICK t \in {Idle} \cup AdminTask :
        /\ Admin(a, t)
        /\ t.step \in {"settle", "settle_payment", "settle_order"} => t.queue \subseteq Created
        /\ t.step \in {"settle_payment", "settle_order"} => t.payment \in Created
  <2> DEFINE next == [ step |-> "settle_payment", action |-> action,
                       queue |-> queue \ {p}, payment |-> p ]
             end == Settle(action, queue \ {p})
  <2>1. next \in AdminTask /\ next.queue \subseteq Created /\ next.payment \in Created
    BY <1>2, <1>3 DEF AdminTask
  <2>2. end \in {Idle} \cup AdminTask /\ end.step \in {"idle", "settle"}
        /\ (end.step = "settle" => end.queue = queue \ {p})
    BY <1>2, SettleIsTask
  <2>3. Admin(a, next) \/ Admin(a, end)
    BY <1>3
  <2> HIDE DEF next, end
  <2> QED
    BY <1>2, <2>1, <2>2, <2>3
<1> QED
  BY <1>1, <1>2, <1>3, <1>4, <1>5, AdminOnly DEF TInv, TypeOK

LEMMA SettlePaymentT ==
  ASSUME TInv, NEW a \in Admins, SettlePayment(a)
  PROVE  TInv'
<1> DEFINE p == admin[a].payment
           s == IF admin[a].action = "finalize" THEN "finalized" ELSE "cancelled"
           doc == [payment[p] EXCEPT !.status = s]
           t == [admin[a] EXCEPT !.step = "settle_order"]
<1>1. /\ admin[a].step = "settle_payment" /\ Admin(a, t)
      /\ UNCHANGED << drop, order, bank, sent, failures, buyer, hook >>
  BY DEF SettlePayment, AdminAt, external
<1>2. /\ p \in Created /\ p \in Payments /\ admin[a].queue \subseteq Created
      /\ admin[a].queue \in SUBSET Payments /\ admin[a].action \in Actions
  BY <1>1, AdminShapes DEF TInv, References, AdminRefs
<1>3. s \in PaymentStatuses \ {"absent"}
  BY DEF PaymentStatuses
<1>4. doc \in PaymentDocument
  <2> HIDE DEF s
  <2> QED
    BY <1>2, <1>3, EditedDocument
<1>5. payment' = [payment EXCEPT ![p] = doc]
  BY <1>2 DEF SettlePayment, TInv, TypeOK
<1>6. payment' \in [Payments -> Payment] /\ Created \subseteq Created'
  <2> HIDE DEF doc, p
  <2> QED
    BY <1>2, <1>4, <1>5, SavedPayment DEF TInv
<1>7. t \in AdminTask /\ t.queue = admin[a].queue /\ t.payment = p
  BY <1>1, <1>2, AdminShapes DEF TInv, AdminTask, Idle
<1>8. admin' \in [Admins -> {Idle} \cup AdminTask] /\ AdminRefs'
  <2> HIDE DEF t, p
  <2> QED
    BY <1>1, <1>2, <1>6, <1>7, AdminRefsKept
<1> QED
  BY <1>1, <1>6, <1>8, OtherRefsKept, PartsKeepTInv DEF TInv, TypeOK

LEMMA SettleOrderT ==
  ASSUME TInv, NEW a \in Admins, SettleOrder(a) \/ SettleSaveFails(a)
  PROVE  TInv'
<1> DEFINE t == Settle(admin[a].action, admin[a].queue)
<1>1. /\ admin[a].step \in {"settle_payment", "settle_order"} /\ Admin(a, t)
      /\ UNCHANGED << drop, payment, bank, sent, buyer, hook >>
  BY DEF SettleOrder, SettleSaveFails, AdminAt, stored, external
<1>2. /\ admin[a].payment \in Created /\ admin[a].payment \in Payments
      /\ admin[a].queue \subseteq Created
      /\ admin[a].queue \in SUBSET Payments /\ admin[a].action \in Actions
  BY <1>1, AdminShapes DEF TInv, References, AdminRefs
<1>3. failures' \subseteq Payments
  BY <1>2 DEF SettleOrder, SettleSaveFails, TInv, TypeOK
<1>4. /\ order' \in [Orders -> Order]
      /\ \A o \in Orders : order'[o].payment = order[o].payment
  <2>1. CASE SettleOrder(a)
    <3> DEFINE o == payment[admin[a].payment].order
               s == IF admin[a].action = "finalize" THEN "paid" ELSE "cancelled"
               new == [order[o] EXCEPT !.status = s, !.canCancel = FALSE]
    <3>1. o \in Orders
      BY <1>2, CreatedIsDocument DEF TInv, PaymentDocument
    <3>2. order' = [order EXCEPT ![o] = new]
      BY <2>1, <3>1 DEF SettleOrder, TInv, TypeOK
    <3>3. new \in Order /\ new.payment = order[o].payment
      BY <3>1 DEF TInv, TypeOK, Order, OrderStatuses
    <3> HIDE DEF new, o
    <3> QED
      BY <3>1, <3>2, <3>3 DEF TInv, TypeOK
  <2>2. CASE SettleSaveFails(a)
    BY <2>2 DEF SettleSaveFails, stored, TInv, TypeOK
  <2> QED
    BY <2>1, <2>2
<1>5. /\ t \in {Idle} \cup AdminTask /\ t.step \in {"idle", "settle"}
      /\ t.step = "settle" => t.queue = admin[a].queue
  BY <1>2, SettleIsTask
<1> HIDE DEF t
<1> QED
  BY <1>1, <1>2, <1>3, <1>4, <1>5, BankUntouched, AdminOnly DEF TInv, TypeOK

LEMMA AdminT ==
  ASSUME TInv, NEW a \in Admins, MoveRead(a) \/ AdminContinues(a) \/ AdminFails(a)
  PROVE  TInv'
BY MoveT, ListT, SettleHoldT, SettlePaymentT, SettleOrderT DEF AdminContinues

-----------------------------------------------------------------------------
LEMMA StepTInv == TInv /\ [Next]_vars => TInv'
<1> SUFFICES ASSUME TInv, [Next]_vars PROVE TInv'
  OBVIOUS
<1>1. CASE Next
  BY <1>1, BankStepT, CreateOrderT, BuyerT, HookT, AdminT DEF Next
<1>2. CASE UNCHANGED vars
  BY <1>2, OtherRefsKept, PartsKeepTInv
  DEF vars, stored, external, TInv, TypeOK, Created
<1> QED
  BY <1>1, <1>2

LEMMA AlwaysTInv == Spec => []TInv
BY InitTInv, StepTInv, PTL DEF Spec

(* Every document, task, invoice and message keeps its type, and every      *)
(* reference to a payment is to one that was created: no webhook, cancel    *)
(* or settlement saves a payment or an order that does not exist.           *)
THEOREM TypeCorrect == Spec => []TypeOK
BY AlwaysTInv, PTL DEF TInv

-----------------------------------------------------------------------------
(***************************************************************************)
(* The count.  The filter of the atomic update compares the stored count   *)
(* with a limit computed earlier; it protects the maximum because the      *)
(* limit a webhook carries is still the one the stored drop calls for: no  *)
(* step of a launched drop changes its maximum or an order's quantity.     *)
(***************************************************************************)
LimitsCurrent ==
  \A h \in Hooks : hook[h].step = "count" =>
    hook[h].limit = MaxQuantity - Quantity[hook[h].order]

QInv == TInv /\ LimitsCurrent /\ NoOversell

(* The steps of Monobank and of the buyers, and an administrator's but for  *)
(* the save of a new status, leave the drop and the webhooks alone.         *)
LEMMA DropAlone ==
  /\ BankStep => UNCHANGED << drop, hook >>
  /\ \A o \in Orders : CreateOrder(o) => UNCHANGED << drop, hook >>
  /\ \A b \in Buyers :
       BuyerStarts(b) \/ BuyerContinues(b) \/ BuyerFails(b) => UNCHANGED << drop, hook >>
  /\ \A a \in Admins :
       MoveRead(a) \/ AdminContinues(a) \/ AdminFails(a) =>
         UNCHANGED << drop, hook >> \/ MoveSave(a)
<1> USE DEF stored, external
<1>1. BankStep => UNCHANGED << drop, hook >>
  BY DEF BankStep
<1>2. ASSUME NEW o \in Orders, CreateOrder(o) PROVE UNCHANGED << drop, hook >>
  BY <1>2 DEF CreateOrder
<1>3. ASSUME NEW b \in Buyers, BuyerStarts(b) \/ BuyerContinues(b) \/ BuyerFails(b)
      PROVE  UNCHANGED << drop, hook >>
  BY <1>3 DEF BuyerStarts, BuyerContinues, BuyerFails, PayStart, CancelRead, ResizeRead,
     PayInvoice, PayInvoiceFails, PayLink, PayAttach, PayFails, CancelFind, CancelHold,
     CancelHoldFails, CancelPayment, CancelOrder, ResizeSave
<1>4. ASSUME NEW a \in Admins, MoveRead(a) \/ AdminContinues(a) \/ AdminFails(a)
      PROVE  UNCHANGED << drop, hook >> \/ MoveSave(a)
  BY <1>4 DEF MoveRead, AdminContinues, AdminFails, List, SettleHold, SettleHoldFails,
     SettlePayment, SettleOrder, SettleSaveFails
<1> QED
  BY <1>1, <1>2, <1>3, <1>4

(* What a step does to the drop: nothing, a new status, or one order's      *)
(* quantity counted while the drop is open and has room for it.             *)
LEMMA DropStep ==
  ASSUME QInv, [Next]_vars
  PROVE  \/ UNCHANGED drop
         \/ drop'.currentQuantity = drop.currentQuantity
         \/ \E o \in Orders :
              /\ drop.status \in OpenStatuses
              /\ drop.currentQuantity + Quantity[o] <= MaxQuantity
              /\ drop'.currentQuantity = drop.currentQuantity + Quantity[o]
              /\ drop'.status = drop.status
<1>1. ASSUME NEW h \in Hooks, HookCount(h), ~UNCHANGED drop
      PROVE  \E o \in Orders :
               /\ drop.status \in OpenStatuses
               /\ drop.currentQuantity + Quantity[o] <= MaxQuantity
               /\ drop'.currentQuantity = drop.currentQuantity + Quantity[o]
               /\ drop'.status = drop.status
  <2> DEFINE o == hook[h].order
  <2>1. /\ hook[h].step = "count"
        /\ CountFilter(drop, hook[h].size, hook[h].limit)
        /\ drop' = Counted(drop, hook[h].size, Quantity[o])
    BY <1>1 DEF HookCount, HookAt
  <2>2. o \in Orders /\ hook[h].size \in Sizes /\ hook[h].limit = MaxQuantity - Quantity[o]
    BY <2>1, HookShapes DEF QInv, TInv, LimitsCurrent
  <2>3. Quantity[o] \in Nat /\ MaxQuantity \in Nat /\ drop.currentQuantity \in Nat
    BY <2>2, QuantityAssumption, LimitsAssumption DEF QInv, TInv, TypeOK, Drop
  <2>4. /\ drop'.currentQuantity = drop.currentQuantity + Quantity[o]
        /\ drop'.status = drop.status
    BY <2>1, <2>2, <2>3, CountedDrop DEF QInv, TInv, TypeOK
  <2>5. drop.status \in OpenStatuses /\ drop.currentQuantity <= hook[h].limit
    BY <2>1 DEF CountFilter
  <2>6. drop.currentQuantity + Quantity[o] <= MaxQuantity
    BY <2>2, <2>3, <2>5
  <2> HIDE DEF o
  <2> QED
    BY <2>2, <2>4, <2>5, <2>6
<1>2. ASSUME NEW h \in Hooks, HookRule(h)
      PROVE  drop'.currentQuantity = drop.currentQuantity
  BY <1>2 DEF HookRule, QInv, TInv, TypeOK, Drop
<1>3. ASSUME NEW a \in Admins, MoveSave(a)
      PROVE  drop'.currentQuantity = drop.currentQuantity
  BY <1>3 DEF MoveSave, QInv, TInv, TypeOK, Drop
<1>4. ASSUME NEW h \in Hooks,
             HookStart(h) \/ HookRead(h) \/ HookOrder(h) \/ HookRecord(h) \/ HookFails(h)
      PROVE  UNCHANGED drop
  BY <1>4 DEF HookStart, HookRead, HookOrder, HookRecord, HookFails, stored
<1>5. CASE Next
  BY <1>1, <1>2, <1>3, <1>4, <1>5, DropAlone DEF Next, HookContinues
<1>6. CASE UNCHANGED vars
  BY <1>6 DEF vars, stored
<1> QED
  BY <1>5, <1>6

(* A limit is computed from the drop and the order as they are stored. *)
LEMMA LimitsStep ==
  ASSUME QInv, [Next]_vars
  PROVE  LimitsCurrent'
<1>1. CASE UNCHANGED hook
  BY <1>1 DEF QInv, LimitsCurrent
<1>2. ASSUME NEW h \in Hooks, HookStart(h) \/ HookContinues(h) \/ HookFails(h)
      PROVE  LimitsCurrent'
  <2>1. PICK t :
          /\ Hook(h, t)
          /\ t.step = "count" => t.limit = MaxQuantity - Quantity[t.order]
    <3>1. CASE HookRead(h)
      BY <3>1 DEF HookRead, QInv, TInv, TypeOK, Drop, Idle
    <3>2. CASE HookStart(h)
      BY <3>2 DEF HookStart
    <3>3. CASE HookCount(h)
      BY <3>3 DEF HookCount, Request, Idle
    <3>4. CASE HookRule(h) \/ HookOrder(h) \/ HookRecord(h) \/ HookFails(h)
      BY <3>4 DEF HookRule, HookOrder, HookRecord, HookFails, Request, Idle
    <3> QED
      BY <1>2, <3>1, <3>2, <3>3, <3>4 DEF HookContinues
  <2>2. \A g \in Hooks : hook'[g] = hook[g] \/ hook'[g] = t
    BY <2>1 DEF Hook, QInv, TInv, TypeOK
  <2> QED
    BY <2>1, <2>2 DEF LimitsCurrent, QInv
<1>3. CASE Next
  <2>1. ASSUME NEW a \in Admins, MoveSave(a) PROVE UNCHANGED hook
    BY <2>1 DEF MoveSave
  <2> QED
    BY <1>1, <1>2, <1>3, <2>1, DropAlone DEF Next
<1>4. CASE UNCHANGED vars
  BY <1>1, <1>4 DEF vars
<1> QED
  BY <1>3, <1>4

LEMMA InitQInv == Init => QInv
<1> SUFFICES ASSUME Init PROVE QInv
  OBVIOUS
<1>1. LimitsCurrent
  BY DEF Init, LimitsCurrent, Idle
<1>2. drop.currentQuantity = 0 /\ MaxQuantity \in Nat
  BY LimitsAssumption DEF Init
<1>3. NoOversell
  BY <1>2 DEF NoOversell
<1> QED
  BY <1>1, <1>3, InitTInv DEF QInv

LEMMA StepQInv == QInv /\ [Next]_vars => QInv'
<1> SUFFICES ASSUME QInv, [Next]_vars PROVE QInv'
  OBVIOUS
<1>1. NoOversell'
  BY DropStep DEF QInv, NoOversell
<1> QED
  BY <1>1, StepTInv, LimitsStep DEF QInv

LEMMA AlwaysQInv == Spec => []QInv
BY InitQInv, StepQInv, PTL DEF Spec

(* The drop never counts more than its maximum, whatever number of webhooks *)
(* are handled at once, redelivered, retried or interrupted, and whatever   *)
(* buyers cancel or administrators decide meanwhile.                        *)
THEOREM NeverOversold == Spec => []NoOversell
BY AlwaysQInv, PTL DEF QInv

(* The whole of orders, payments, webhooks and administration implements    *)
(* the quota of module Quota: units are taken only while the drop is open,  *)
(* one order's quantity at a time, within the maximum; none is given back.  *)
THEOREM ImplementsQuota == Spec => SeatQuota
<1>1. Init => Seats!Init
  BY DEF Init, Seats!Init, OpenStatuses
<1>2. QInv /\ [Next]_vars =>
        [Seats!Next]_<< drop.currentQuantity, drop.status \in OpenStatuses >>
  <2> SUFFICES ASSUME QInv, [Next]_vars
               PROVE  [Seats!Next]_<< drop.currentQuantity, drop.status \in OpenStatuses >>
    OBVIOUS
  <2>1. CASE drop'.currentQuantity = drop.currentQuantity
    BY <2>1 DEF Seats!Next, Seats!Switch
  <2>2. CASE \E o \in Orders :
               /\ drop.status \in OpenStatuses
               /\ drop.currentQuantity + Quantity[o] <= MaxQuantity
               /\ drop'.currentQuantity = drop.currentQuantity + Quantity[o]
               /\ drop'.status = drop.status
    BY <2>2 DEF Seats!Next, Seats!Take
  <2> QED
    BY <2>1, <2>2, DropStep
<1> QED
  BY <1>1, <1>2, AlwaysQInv, PTL DEF Spec, SeatQuota, Seats!Spec

-----------------------------------------------------------------------------
(* The money side: what is marked paid was captured, a reserved seat was    *)
(* reported held, and every seat is in the drop's count.  And what the      *)
(* buyers' and administrators' requests keep to as long as they do not      *)
(* overlap: one payable invoice for an order, no charge for a drop that     *)
(* failed, and each hold counted once.                                      *)

Reported(p, name) == [payment |-> p, name |-> name] \in sent

(***************************************************************************)
(* A captured invoice stays captured because an invoice is made once for   *)
(* each payment (InvoiceOnce); a webhook on its way reports what was sent, *)
(* for the order of its payment (HookFaithful); Monobank reports a charge  *)
(* only when there is one (ReportedCaptured); and the loop marks a payment *)
(* paid only after the capture (SettledCaptured).                          *)
(***************************************************************************)
InvoiceOnce ==
  \A b \in Buyers : BuyerAt(b, "invoice") =>
    /\ bank[buyer[b].payment] = "none"
    /\ \A c \in Buyers :
         BuyerAt(c, "invoice") /\ buyer[c].payment = buyer[b].payment => c = b
ReportedCaptured == \A p \in Payments : Reported(p, "finalized") => bank[p] = "captured"
HookFaithful ==
  \A h \in Hooks : hook[h].step # "idle" =>
    /\ Reported(hook[h].payment, hook[h].name)
    /\ payment[hook[h].payment].order = hook[h].order
SettledCaptured ==
  \A a \in Admins :
    admin[a].step \in {"settle_payment", "settle_order"} /\ admin[a].action = "finalize"
      => bank[admin[a].payment] = "captured"

MInv ==
  /\ TInv /\ InvoiceOnce /\ ReportedCaptured /\ HookFaithful /\ SettledCaptured
  /\ PaidIsCaptured /\ SeatsWereHeld

-----------------------------------------------------------------------------
(* Which actions change which variables. *)

LEMMA BuyerActions ==
  ASSUME [Next]_vars
  PROVE  \/ UNCHANGED buyer
         \/ \E b \in Buyers : BuyerStarts(b) \/ BuyerContinues(b) \/ BuyerFails(b)
BY DEF Next, vars, BankStep, CreateOrder, HookStart, HookContinues, HookRead, HookCount,
   HookRule, HookOrder, HookRecord, HookFails, MoveRead, AdminContinues, MoveSave, List,
   SettleHold, SettleHoldFails, SettlePayment, SettleOrder, SettleSaveFails, AdminFails

LEMMA HookActions ==
  ASSUME [Next]_vars
  PROVE  \/ UNCHANGED hook
         \/ \E h \in Hooks : HookStart(h) \/ HookContinues(h) \/ HookFails(h)
BY DropAlone DEF Next, vars, MoveSave

LEMMA AdminActions ==
  ASSUME [Next]_vars
  PROVE  \/ UNCHANGED admin
         \/ \E a \in Admins : MoveRead(a) \/ AdminContinues(a) \/ AdminFails(a)
BY DEF Next, vars, BankStep, CreateOrder, HookStart, HookContinues, HookRead, HookCount,
   HookRule, HookOrder, HookRecord, HookFails, BuyerStarts, BuyerContinues, BuyerFails,
   PayStart, CancelRead, ResizeRead, PayInvoice, PayInvoiceFails, PayLink, PayAttach,
   PayFails, CancelFind, CancelHold, CancelHoldFails, CancelPayment, CancelOrder, ResizeSave

LEMMA BankActions ==
  ASSUME [Next]_vars
  PROVE  \/ UNCHANGED external
         \/ \E p \in Payments : BankHold(p) \/ BankDecline(p) \/ BankExpire(p)
         \/ \E b \in Buyers :
              PayInvoice(b) \/ PayAttach(b) \/ CancelHold(b) \/ CancelHoldFails(b)
         \/ \E a \in Admins : SettleHold(a) \/ SettleHoldFails(a)
BY DEF Next, vars, BankStep, CreateOrder, HookStart, HookContinues, HookRead, HookCount,
   HookRule, HookOrder, HookRecord, HookFails, BuyerStarts, BuyerContinues, BuyerFails,
   PayStart, CancelRead, ResizeRead, PayInvoiceFails, PayLink, PayFails, CancelFind,
   CancelPayment, CancelOrder, ResizeSave, MoveRead, AdminContinues, MoveSave, List,
   SettlePayment, SettleOrder, SettleSaveFails, AdminFails

LEMMA PaymentActions ==
  ASSUME [Next]_vars
  PROVE  \/ UNCHANGED payment
         \/ \E b \in Buyers : PayStart(b) \/ PayInvoiceFails(b) \/ PayLink(b)
                                \/ PayFails(b) \/ CancelPayment(b)
         \/ \E h \in Hooks : HookRecord(h)
         \/ \E a \in Admins : SettlePayment(a)
BY DEF Next, vars, stored, BankStep, CreateOrder, HookStart, HookContinues, HookRead,
   HookCount, HookRule, HookOrder, HookFails, BuyerStarts, BuyerContinues, BuyerFails,
   CancelRead, ResizeRead, PayInvoice, PayAttach, CancelFind, CancelHold, CancelHoldFails,
   CancelOrder, ResizeSave, MoveRead, AdminContinues, MoveSave, List, SettleHold,
   SettleHoldFails, SettleOrder, SettleSaveFails, AdminFails

LEMMA OrderActions ==
  ASSUME [Next]_vars
  PROVE  \/ UNCHANGED order
         \/ \E o \in Orders : CreateOrder(o)
         \/ \E b \in Buyers : PayAttach(b) \/ CancelOrder(b) \/ ResizeSave(b)
         \/ \E h \in Hooks : HookOrder(h)
         \/ \E a \in Admins : SettleOrder(a)
BY DEF Next, vars, stored, BankStep, HookStart, HookContinues, HookRead,
   HookCount, HookRule, HookRecord, HookFails, BuyerStarts, BuyerContinues, BuyerFails,
   CancelRead, ResizeRead, PayStart, PayInvoice, PayInvoiceFails, PayLink, PayFails,
   CancelFind, CancelHold, CancelHoldFails, CancelPayment, MoveRead, AdminContinues,
   MoveSave, List, SettleHold, SettleHoldFails, SettlePayment, SettleSaveFails, AdminFails

-----------------------------------------------------------------------------
(* What lasts: a payment's document and its order, a message, a capture. *)

LEMMA DocumentsKept ==
  ASSUME TInv, [Next]_vars
  PROVE  \A p \in Created : p \in Created' /\ payment'[p].order = payment[p].order
<1>1. ASSUME NEW p \in Payments, NEW doc \in PaymentDocument,
             payment' = [payment EXCEPT ![p] = doc],
             p \in Created => doc.order = payment[p].order
      PROVE  \A q \in Created : q \in Created' /\ payment'[q].order = payment[q].order
  BY <1>1, SavedPayment DEF TInv, Created
<1>2. ASSUME NEW p \in Created, NEW doc,
             payment' = [payment EXCEPT ![p] = doc],
             doc \in PaymentDocument, doc.order = payment[p].order
      PROVE  \A q \in Created : q \in Created' /\ payment'[q].order = payment[q].order
  BY <1>1, <1>2 DEF Created
<1>3. CASE UNCHANGED payment
  BY <1>3 DEF Created
<1>4. ASSUME NEW b \in Buyers, PayStart(b)
      PROVE  \A q \in Created : q \in Created' /\ payment'[q].order = payment[q].order
  <2>1. PICK o \in Orders, p \in Payments :
          /\ payment[p].status = "absent"
          /\ payment' = [payment EXCEPT ![p] =
               [status |-> "created", order |-> o, linked |-> FALSE, events |-> {}]]
    BY <1>4 DEF PayStart
  <2> DEFINE doc == [status |-> "created", order |-> o, linked |-> FALSE, events |-> {}]
  <2>2. doc \in PaymentDocument /\ p \notin Created
    BY <2>1 DEF PaymentDocument, PaymentStatuses, Created
  <2> HIDE DEF doc
  <2> QED
    BY <1>1, <2>1, <2>2 DEF doc
<1>5. ASSUME NEW b \in Buyers,
             PayInvoiceFails(b) \/ PayLink(b) \/ PayFails(b) \/ CancelPayment(b)
      PROVE  \A q \in Created : q \in Created' /\ payment'[q].order = payment[q].order
  <2> DEFINE p == buyer[b].payment
  <2>1. p \in Created /\ p \in Payments /\ payment[p] \in PaymentDocument
    BY <1>5, BuyerShapes, CreatedIsDocument
    DEF PayInvoiceFails, PayLink, PayFails, CancelPayment, BuyerAt, TInv, References, BuyerRefs
  <2>2. \/ payment' = [payment EXCEPT ![p] = [payment[p] EXCEPT !.status = "failed"]]
        \/ payment' = [payment EXCEPT ![p] = [payment[p] EXCEPT !.status = "cancelled"]]
        \/ payment' = [payment EXCEPT ![p] = [payment[p] EXCEPT !.linked = TRUE]]
        \/ payment' = [payment EXCEPT ![p] =
                         [payment[p] EXCEPT !.status = "failed", !.linked = TRUE]]
    BY <1>5, <2>1 DEF PayInvoiceFails, PayLink, PayFails, CancelPayment, TInv, TypeOK
  <2>3. /\ [payment[p] EXCEPT !.status = "failed"].order = payment[p].order
        /\ [payment[p] EXCEPT !.status = "cancelled"].order = payment[p].order
        /\ [payment[p] EXCEPT !.linked = TRUE].order = payment[p].order
        /\ [payment[p] EXCEPT !.status = "failed", !.linked = TRUE].order = payment[p].order
    BY <2>1 DEF PaymentDocument
  <2>4. "failed" \in PaymentStatuses \ {"absent"} /\ "cancelled" \in PaymentStatuses \ {"absent"}
    BY DEF PaymentStatuses
  <2> HIDE DEF p
  <2> QED
    BY <1>2, <2>1, <2>2, <2>3, <2>4, EditedDocument
<1>6. ASSUME NEW h \in Hooks, HookRecord(h)
      PROVE  \A q \in Created : q \in Created' /\ payment'[q].order = payment[q].order
  <2> DEFINE p == hook[h].payment
  <2>1. p \in Created /\ p \in Payments /\ payment[p] \in PaymentDocument
    BY <1>6, HookShapes, CreatedIsDocument DEF HookRecord, HookAt, TInv, References, HookRefs
  <2>2. /\ \A q \in Payments : q # p => payment'[q] = payment[q]
        /\ payment'[p].order = payment[p].order
        /\ payment'[p].status \in {payment[p].status, PaymentStatusFor(hook[h].name)}
    BY <1>6, <2>1 DEF HookRecord, TInv, TypeOK, PaymentDocument
  <2>3. PaymentStatusFor(hook[h].name) # "absent"
    BY <1>6, HookShapes, HoldNamesAssumption
    DEF HookRecord, HookAt, TInv, PaymentStatusFor, EventNames
  <2> QED
    BY <2>1, <2>2, <2>3 DEF Created
<1>7. ASSUME NEW a \in Admins, SettlePayment(a)
      PROVE  \A q \in Created : q \in Created' /\ payment'[q].order = payment[q].order
  <2> DEFINE p == admin[a].payment
  <2>1. p \in Created /\ p \in Payments /\ payment[p] \in PaymentDocument
    BY <1>7, AdminShapes, CreatedIsDocument
    DEF SettlePayment, AdminAt, TInv, References, AdminRefs
  <2>2. /\ \A q \in Payments : q # p => payment'[q] = payment[q]
        /\ payment'[p].order = payment[p].order
        /\ payment'[p].status # "absent"
    BY <1>7, <2>1 DEF SettlePayment, TInv, TypeOK, PaymentDocument
  <2> QED
    BY <2>1, <2>2 DEF Created
<1> QED
  BY <1>3, <1>4, <1>5, <1>6, <1>7, PaymentActions

LEMMA SentGrows ==
  ASSUME [Next]_vars
  PROVE  sent \subseteq sent'
BY BankActions DEF external, BankHold, BankDecline, BankExpire, PayInvoice, PayAttach,
   CancelHold, CancelHoldFails, SettleHold, SettleHoldFails, BankCall, BankCapture, BankRelease

LEMMA CapturedStays ==
  ASSUME TInv, InvoiceOnce, [Next]_vars
  PROVE  \A p \in Payments : bank[p] = "captured" => bank'[p] = "captured"
<1>1. ASSUME NEW p \in Payments,
             BankHold(p) \/ BankDecline(p) \/ BankExpire(p) \/ BankCapture(p) \/ BankRelease(p)
      PROVE  \A q \in Payments : bank[q] = "captured" => bank'[q] = "captured"
  BY <1>1 DEF BankHold, BankDecline, BankExpire, BankCapture, BankRelease, TInv, TypeOK
<1>2. CASE UNCHANGED external
  BY <1>2 DEF external
<1>3. ASSUME NEW b \in Buyers, PayInvoice(b)
      PROVE  \A q \in Payments : bank[q] = "captured" => bank'[q] = "captured"
  BY <1>3 DEF PayInvoice, InvoiceOnce, TInv, TypeOK
<1>4. ASSUME NEW b \in Buyers, PayAttach(b)
      PROVE  \A q \in Payments : bank[q] = "captured" => bank'[q] = "captured"
  BY <1>4 DEF PayAttach, TInv, TypeOK
<1>5. ASSUME NEW b \in Buyers, CancelHold(b) \/ CancelHoldFails(b)
      PROVE  \A q \in Payments : bank[q] = "captured" => bank'[q] = "captured"
  <2>1. buyer[b].payment \in Payments
    BY <1>5, BuyerShapes DEF CancelHold, CancelHoldFails, BuyerAt, TInv
  <2> QED
    BY <1>1, <1>2, <1>5, <2>1 DEF CancelHold, CancelHoldFails
<1>6. ASSUME NEW a \in Admins, SettleHold(a) \/ SettleHoldFails(a)
      PROVE  \A q \in Payments : bank[q] = "captured" => bank'[q] = "captured"
  <2>1. admin[a].queue \in SUBSET Payments
    BY <1>6, AdminShapes DEF SettleHold, SettleHoldFails, AdminAt, TInv
  <2> QED
    BY <1>1, <1>2, <1>6, <2>1 DEF SettleHold, SettleHoldFails, BankCall
<1> QED
  BY <1>1, <1>2, <1>3, <1>4, <1>5, <1>6, BankActions

-----------------------------------------------------------------------------
(* Each part of MInv is kept. *)

(* A payment without an invoice gets one from the request that made it. *)
LEMMA NoneStays ==
  ASSUME TInv, [Next]_vars, NEW p \in Payments, bank[p] = "none"
  PROVE  bank'[p] = "none" \/ \E b \in Buyers : PayInvoice(b) /\ buyer[b].payment = p
<1>1. ASSUME NEW q \in Payments,
             BankHold(q) \/ BankDecline(q) \/ BankExpire(q) \/ BankCapture(q) \/ BankRelease(q)
      PROVE  bank'[p] = "none"
  BY <1>1 DEF BankHold, BankDecline, BankExpire, BankCapture, BankRelease, TInv, TypeOK
<1>2. ASSUME UNCHANGED external
      PROVE  bank'[p] = "none"
  BY <1>2 DEF external
<1>3. ASSUME NEW b \in Buyers, PayInvoice(b), buyer[b].payment # p
      PROVE  bank'[p] = "none"
  BY <1>3 DEF PayInvoice, TInv, TypeOK
<1>4. ASSUME NEW b \in Buyers, PayAttach(b)
      PROVE  bank'[p] = "none"
  BY <1>4 DEF PayAttach, TInv, TypeOK
<1>5. ASSUME NEW b \in Buyers, CancelHold(b) \/ CancelHoldFails(b)
      PROVE  bank'[p] = "none"
  <2>1. buyer[b].payment \in Payments
    BY <1>5, BuyerShapes DEF CancelHold, CancelHoldFails, BuyerAt, TInv
  <2> QED
    BY <1>1, <1>2, <1>5, <2>1 DEF CancelHold, CancelHoldFails
<1>6. ASSUME NEW a \in Admins, SettleHold(a) \/ SettleHoldFails(a)
      PROVE  bank'[p] = "none"
  <2>1. admin[a].queue \in SUBSET Payments
    BY <1>6, AdminShapes DEF SettleHold, SettleHoldFails, AdminAt, TInv
  <2> QED
    BY <1>1, <1>2, <1>6, <2>1 DEF SettleHold, SettleHoldFails, BankCall
<1> QED
  BY <1>1, <1>2, <1>3, <1>4, <1>5, <1>6, BankActions

(* A buyer's step changes that buyer's task only, and only a new payment *)
(* leads to the making of an invoice.                                     *)
LEMMA BuyerNext ==
  ASSUME TInv, NEW b \in Buyers, BuyerStarts(b) \/ BuyerContinues(b) \/ BuyerFails(b)
  PROVE  /\ \A c \in Buyers : c # b => buyer'[c] = buyer[c]
         /\ PayStart(b) \/ buyer'[b].step # "invoice"
<1>1. PICK t : /\ Buyer(b, t)
               /\ PayStart(b) \/ t.step # "invoice"
  <2>1. CASE PayStart(b)
    BY <2>1 DEF PayStart
  <2>2. CASE CancelRead(b)
    BY <2>2 DEF CancelRead
  <2>3. CASE ResizeRead(b)
    BY <2>3 DEF ResizeRead
  <2>4. CASE PayInvoice(b) \/ PayLink(b) \/ CancelFind(b) \/ CancelHold(b) \/ CancelPayment(b)
    <3>1. PICK s \in {"link", "attach", "cancel_hold", "cancel_order", "cancel_payment"} :
            Buyer(b, [buyer[b] EXCEPT !.step = s])
      BY <2>4 DEF PayInvoice, PayLink, CancelFind, CancelHold, CancelPayment
    <3>2. buyer[b].step \in {"invoice", "link", "cancel_find", "cancel_hold",
                             "cancel_payment"}
      BY <2>4 DEF PayInvoice, PayLink, CancelFind, CancelHold, CancelPayment, BuyerAt
    <3> DEFINE t == [buyer[b] EXCEPT !.step = s]
    <3>3. t.step # "invoice"
      BY <3>1, <3>2, BuyerShapes DEF TInv, BuyerTask, Idle
    <3>4. Buyer(b, t)
      BY <3>1
    <3> HIDE DEF t
    <3> QED
      BY <3>3, <3>4
  <2>5. CASE PayInvoiceFails(b) \/ PayAttach(b) \/ PayFails(b) \/ CancelHoldFails(b)
               \/ CancelOrder(b) \/ ResizeSave(b) \/ BuyerFails(b)
    BY <2>5 DEF PayInvoiceFails, PayAttach, PayFails, CancelHoldFails, CancelOrder,
       ResizeSave, BuyerFails, Idle
  <2> QED
    BY <2>1, <2>2, <2>3, <2>4, <2>5 DEF BuyerStarts, BuyerContinues
<1> QED
  BY <1>1 DEF Buyer, TInv, TypeOK

LEMMA InvoiceOnceKept ==
  ASSUME TInv, InvoiceOnce, [Next]_vars
  PROVE  InvoiceOnce'
<1>1. ASSUME NEW c \in Buyers, BuyerAt(c, "invoice"),
             \A b \in Buyers : PayInvoice(b) => b # c
      PROVE  bank'[buyer[c].payment] = "none"
  BY <1>1, NoneStays, BuyerShapes DEF TInv, InvoiceOnce, PayInvoice, BuyerAt
<1>2. CASE UNCHANGED buyer
  <2>1. ASSUME NEW b \in Buyers PROVE ~PayInvoice(b)
    <3>1. ASSUME PayInvoice(b) PROVE FALSE
      <4>1. buyer[b].step = "invoice" /\ buyer'[b] = [buyer[b] EXCEPT !.step = "link"]
        BY <3>1 DEF PayInvoice, BuyerAt, Buyer, TInv, TypeOK
      <4>2. [buyer[b] EXCEPT !.step = "link"].step = "link"
        BY <4>1, BuyerShapes DEF TInv, BuyerTask, Idle
      <4> QED
        BY <1>2, <4>1, <4>2
    <3> QED
      BY <3>1
  <2> QED
    BY <1>1, <1>2, <2>1 DEF InvoiceOnce, BuyerAt
<1>3. ASSUME NEW b \in Buyers, BuyerStarts(b) \/ BuyerContinues(b) \/ BuyerFails(b)
      PROVE  InvoiceOnce'
  <2>1. \A c \in Buyers : c # b => buyer'[c] = buyer[c]
    BY <1>3, BuyerNext
  <2>2. \A c \in Buyers : PayInvoice(c) => c = b
    <3> SUFFICES ASSUME NEW c \in Buyers, PayInvoice(c), c # b PROVE FALSE
      OBVIOUS
    <3>1. buyer[c].step = "invoice" /\ buyer'[c] = [buyer[c] EXCEPT !.step = "link"]
      BY DEF PayInvoice, BuyerAt, Buyer, TInv, TypeOK
    <3>2. [buyer[c] EXCEPT !.step = "link"].step = "link"
      BY <3>1, BuyerShapes DEF TInv, BuyerTask, Idle
    <3> QED
      BY <2>1, <3>1, <3>2
  <2>3. \A c \in Buyers : c # b /\ BuyerAt(c, "invoice") => bank'[buyer[c].payment] = "none"
    BY <1>1, <2>2
  <2>4. CASE buyer'[b].step # "invoice"
    BY <2>1, <2>3, <2>4 DEF InvoiceOnce, BuyerAt
  <2>5. CASE PayStart(b)
    <3>1. PICK o \in Orders, p \in Payments :
            /\ payment[p].status = "absent"
            /\ Buyer(b, [step |-> "invoice", order |-> o, payment |-> p])
            /\ UNCHANGED bank
      BY <2>5 DEF PayStart, external
    <3>2. buyer'[b].payment = p /\ buyer'[b].step = "invoice"
      BY <3>1 DEF Buyer, TInv, TypeOK
    <3>3. bank'[p] = "none"
      BY <3>1 DEF TInv, References, BankRefs, Created
    <3>4. \A c \in Buyers : BuyerAt(c, "invoice") => buyer[c].payment # p
      BY <3>1 DEF BuyerAt, TInv, References, BuyerRefs, Created
    <3> QED
      BY <2>1, <2>3, <3>2, <3>3, <3>4 DEF InvoiceOnce, BuyerAt
  <2> QED
    BY <1>3, <2>4, <2>5, BuyerNext
<1> QED
  BY <1>2, <1>3, BuyerActions

LEMMA ReportedCapturedKept ==
  ASSUME TInv, InvoiceOnce, ReportedCaptured, [Next]_vars
  PROVE  ReportedCaptured'
<1> SUFFICES ASSUME NEW p \in Payments, [payment |-> p, name |-> "finalized"] \in sent'
             PROVE  bank'[p] = "captured"
  BY DEF ReportedCaptured, Reported
<1> DEFINE m == [payment |-> p, name |-> "finalized"]
<1>1. CASE m \in sent
  BY <1>1, CapturedStays DEF ReportedCaptured, Reported
<1>2. CASE m \notin sent
  <2>1. ASSUME NEW q \in Payments, BankHold(q) \/ BankDecline(q) \/ BankExpire(q) \/ BankRelease(q)
        PROVE  FALSE
    BY <1>2, <2>1, HoldNamesAssumption DEF BankHold, BankDecline, BankExpire, BankRelease
  <2>2. ASSUME NEW q \in Payments, BankCapture(q)
        PROVE  bank'[p] = "captured"
    <3>1. m = [payment |-> q, name |-> "finalized"]
      BY <1>2, <2>2 DEF BankCapture
    <3>2. p = q
      BY <3>1
    <3> QED
      BY <2>2, <3>2 DEF BankCapture, TInv, TypeOK
  <2>3. ~UNCHANGED sent
    BY <1>2
  <2>4. ASSUME NEW b \in Buyers, CancelHold(b) \/ CancelHoldFails(b)
        PROVE  FALSE
    <3>1. buyer[b].payment \in Payments
      BY <2>4, BuyerShapes DEF CancelHold, CancelHoldFails, BuyerAt, TInv
    <3> QED
      BY <2>1, <2>3, <2>4, <3>1 DEF CancelHold, CancelHoldFails, external
  <2>5. ASSUME NEW a \in Admins, SettleHold(a) \/ SettleHoldFails(a)
        PROVE  bank'[p] = "captured"
    <3>1. admin[a].queue \in SUBSET Payments
      BY <2>5, AdminShapes DEF SettleHold, SettleHoldFails, AdminAt, TInv
    <3> QED
      BY <2>1, <2>2, <2>3, <2>5, <3>1 DEF SettleHold, SettleHoldFails, BankCall, external
  <2>6. ASSUME NEW b \in Buyers, PayInvoice(b) \/ PayAttach(b)
        PROVE  FALSE
    BY <2>3, <2>6 DEF PayInvoice, PayAttach
  <2> QED
    BY <2>1, <2>3, <2>4, <2>5, <2>6, BankActions DEF external
<1> QED
  BY <1>1, <1>2

(* A webhook keeps the payment, the event and the order it started with. *)
LEMMA HookNext ==
  ASSUME TInv, NEW h \in Hooks, HookStart(h) \/ HookContinues(h) \/ HookFails(h)
  PROVE  \E t :
           /\ Hook(h, t)
           /\ \/ t = Idle
              \/ /\ [payment |-> t.payment, name |-> t.name] \in sent
                 /\ t.payment \in Created
                 /\ t.order = payment[t.payment].order
              \/ /\ hook[h].step # "idle"
                 /\ t.payment = hook[h].payment /\ t.name = hook[h].name
                 /\ t.order = hook[h].order
<1>1. CASE HookStart(h)
  <2>1. PICK m \in sent, s \in {"order", "record", "read"} :
          Hook(h, [step |-> s, payment |-> m.payment, name |-> m.name,
                   order |-> payment[m.payment].order, loaded |-> payment[m.payment].status])
    BY <1>1 DEF HookStart
  <2>2. m \in [payment : Payments, name : EventNames] /\ m.payment \in Created
    BY DEF TInv, TypeOK, Messages, References, SentRefs
  <2>3. [payment |-> m.payment, name |-> m.name] = m
    BY <2>2
  <2> QED
    BY <2>1, <2>2, <2>3
<1>2. CASE HookRead(h)
  BY <1>2 DEF HookRead, HookAt, Idle
<1>3. CASE HookCount(h)
  <2>1. PICK t : /\ Hook(h, t)
                 /\ \/ t = Idle
                    \/ \E s : t = [step |-> "rule", payment |-> hook[h].payment,
                                   name |-> hook[h].name, order |-> hook[h].order,
                                   loaded |-> hook[h].loaded, status |-> s]
                    \/ t = Request(hook[h], "order")
    BY <1>3 DEF HookCount
  <2> QED
    BY <1>3, <2>1 DEF HookCount, HookAt, Request
<1>4. CASE HookRule(h) \/ HookOrder(h)
  <2>1. PICK s \in {"order", "record"} : Hook(h, Request(hook[h], s))
    BY <1>4 DEF HookRule, HookOrder
  <2> QED
    BY <1>4, <2>1 DEF HookRule, HookOrder, HookAt, Request
<1>5. CASE HookRecord(h) \/ HookFails(h)
  BY <1>5 DEF HookRecord, HookFails
<1> QED
  BY <1>1, <1>2, <1>3, <1>4, <1>5 DEF HookContinues

LEMMA HookFaithfulKept ==
  ASSUME TInv, HookFaithful, [Next]_vars
  PROVE  HookFaithful'
<1>1. ASSUME NEW h \in Hooks, hook[h].step # "idle"
      PROVE  /\ [payment |-> hook[h].payment, name |-> hook[h].name] \in sent'
             /\ payment'[hook[h].payment].order = hook[h].order
  <2>1. hook[h].payment \in Created
    BY <1>1 DEF TInv, References, HookRefs
  <2> QED
    BY <1>1, <2>1, DocumentsKept, SentGrows DEF HookFaithful, Reported
<1>2. CASE UNCHANGED hook
  BY <1>1, <1>2 DEF HookFaithful, Reported
<1>3. ASSUME NEW h \in Hooks, HookStart(h) \/ HookContinues(h) \/ HookFails(h)
      PROVE  HookFaithful'
  <2>1. PICK t : /\ Hook(h, t)
                 /\ \/ t = Idle
                    \/ /\ [payment |-> t.payment, name |-> t.name] \in sent
                       /\ t.payment \in Created
                       /\ t.order = payment[t.payment].order
                    \/ /\ hook[h].step # "idle"
                       /\ t.payment = hook[h].payment /\ t.name = hook[h].name
                       /\ t.order = hook[h].order
    BY <1>3, HookNext
  <2>2. hook'[h] = t /\ \A g \in Hooks : g # h => hook'[g] = hook[g]
    BY <2>1 DEF Hook, TInv, TypeOK
  <2>3. \/ t.step = "idle"
        \/ /\ [payment |-> t.payment, name |-> t.name] \in sent'
           /\ payment'[t.payment].order = t.order
    <3>1. CASE t = Idle
      BY <3>1 DEF Idle
    <3>2. CASE /\ [payment |-> t.payment, name |-> t.name] \in sent
               /\ t.payment \in Created
               /\ t.order = payment[t.payment].order
      BY <3>2, SentGrows, DocumentsKept
    <3>3. CASE /\ hook[h].step # "idle"
               /\ t.payment = hook[h].payment /\ t.name = hook[h].name
               /\ t.order = hook[h].order
      BY <1>1, <3>3
    <3> QED
      BY <2>1, <3>1, <3>2, <3>3
  <2> QED
    BY <1>1, <2>2, <2>3 DEF HookFaithful, Reported
<1> QED
  BY <1>2, <1>3, HookActions

(* An administrator's loop reaches a payment by the call to Monobank. *)
LEMMA AdminNext ==
  ASSUME TInv, NEW a \in Admins, MoveRead(a) \/ AdminContinues(a) \/ AdminFails(a)
  PROVE  \E t :
           /\ Admin(a, t)
           /\ \/ t.step \notin {"settle_payment", "settle_order"}
              \/ \E p \in Payments :
                   t.payment = p /\ (t.action = "finalize" => BankCapture(p))
              \/ /\ admin[a].step = "settle_payment"
                 /\ t.payment = admin[a].payment /\ t.action = admin[a].action
<1>1. CASE MoveRead(a) \/ List(a) \/ SettleOrder(a) \/ SettleHoldFails(a)
             \/ SettleSaveFails(a) \/ AdminFails(a)
  <2>1. \A action, queue : Settle(action, queue).step \in {"idle", "settle"}
    BY DEF Settle, Idle
  <2>2. \/ \E action, queue : Admin(a, Settle(action, queue))
        \/ Admin(a, Idle)
        \/ \E target : Admin(a, [step |-> "move", target |-> target])
    BY <1>1 DEF MoveRead, List, SettleOrder, SettleHoldFails, SettleSaveFails, AdminFails
  <2>3. \A target : [step |-> "move", target |-> target].step = "move"
    OBVIOUS
  <2>4. Idle.step = "idle"
    BY DEF Idle
  <2>5. \E t : Admin(a, t) /\ t.step \in {"idle", "settle", "move"}
    BY <2>1, <2>2, <2>3, <2>4, Zenon
  <2> QED
    BY <2>5
<1>2. CASE MoveSave(a)
  <2> DEFINE t == CASE admin[a].target \in FinalizingStatuses ->
                         [step |-> "list", action |-> "finalize"]
                    [] admin[a].target \in CancellingStatuses ->
                         [step |-> "list", action |-> "cancel"]
                    [] OTHER -> Idle
  <2>1. Admin(a, t)
    BY <1>2 DEF MoveSave
  <2>2. t.step \notin {"settle_payment", "settle_order"}
    BY DEF Idle
  <2> QED
    BY <2>1, <2>2
<1>3. CASE SettleHold(a)
  <2>1. PICK p \in admin[a].queue :
          /\ BankCall(admin[a].action, p)
          /\ Admin(a, [ step |-> "settle_payment", action |-> admin[a].action,
                        queue |-> admin[a].queue \ {p}, payment |-> p ])
    BY <1>3 DEF SettleHold
  <2>2. p \in Payments
    BY <1>3, AdminShapes DEF SettleHold, AdminAt, TInv
  <2> QED
    BY <2>1, <2>2 DEF BankCall
<1>4. CASE SettlePayment(a)
  <2> DEFINE t == [admin[a] EXCEPT !.step = "settle_order"]
  <2>1. admin[a].step = "settle_payment" /\ Admin(a, t)
    BY <1>4 DEF SettlePayment, AdminAt
  <2>2. t.payment = admin[a].payment /\ t.action = admin[a].action
    BY <2>1, AdminShapes DEF TInv, AdminTask, Idle
  <2> HIDE DEF t
  <2> QED
    BY <2>1, <2>2
<1> QED
  BY <1>1, <1>2, <1>3, <1>4 DEF AdminContinues

LEMMA SettledCapturedKept ==
  ASSUME TInv, InvoiceOnce, SettledCaptured, [Next]_vars
  PROVE  SettledCaptured'
<1>1. ASSUME NEW a \in Admins, admin[a].step \in {"settle_payment", "settle_order"},
             admin[a].action = "finalize"
      PROVE  bank'[admin[a].payment] = "captured"
  BY <1>1, CapturedStays, AdminShapes DEF SettledCaptured, TInv
<1>2. CASE UNCHANGED admin
  BY <1>1, <1>2 DEF SettledCaptured
<1>3. ASSUME NEW a \in Admins, MoveRead(a) \/ AdminContinues(a) \/ AdminFails(a)
      PROVE  SettledCaptured'
  <2>1. PICK t : /\ Admin(a, t)
                 /\ \/ t.step \notin {"settle_payment", "settle_order"}
                    \/ \E p \in Payments :
                         t.payment = p /\ (t.action = "finalize" => BankCapture(p))
                    \/ /\ admin[a].step = "settle_payment"
                       /\ t.payment = admin[a].payment /\ t.action = admin[a].action
    BY <1>3, AdminNext
  <2>2. admin'[a] = t /\ \A c \in Admins : c # a => admin'[c] = admin[c]
    BY <2>1 DEF Admin, TInv, TypeOK
  <2>3. \A p \in Payments : BankCapture(p) => bank'[p] = "captured"
    BY DEF BankCapture, TInv, TypeOK
  <2>4. t.step \in {"settle_payment", "settle_order"} /\ t.action = "finalize" =>
          bank'[t.payment] = "captured"
    BY <1>1, <2>1, <2>3
  <2> QED
    BY <1>1, <2>2, <2>4 DEF SettledCaptured
<1> QED
  BY <1>2, <1>3, AdminActions

-----------------------------------------------------------------------------
(* Who marks a payment finalized, and an order reserved or paid. *)

LEMMA PaymentNext ==
  ASSUME TInv, [Next]_vars, NEW p \in Payments, payment'[p].status = "finalized"
  PROVE  \/ payment[p].status = "finalized"
         \/ \E h \in Hooks : /\ hook[h].step = "record" /\ hook[h].payment = p
                             /\ hook[h].name = "finalized"
         \/ \E a \in Admins : /\ admin[a].step = "settle_payment" /\ admin[a].payment = p
                              /\ admin[a].action = "finalize"
<1>1. CASE UNCHANGED payment
  BY <1>1
<1>2. ASSUME NEW b \in Buyers, PayStart(b)
      PROVE  payment[p].status = "finalized"
  <2>1. PICK o \in Orders, q \in Payments :
          payment' = [payment EXCEPT ![q] =
            [status |-> "created", order |-> o, linked |-> FALSE, events |-> {}]]
    BY <1>2 DEF PayStart
  <2> QED
    BY <2>1 DEF TInv, TypeOK
<1>3. ASSUME NEW b \in Buyers,
             PayInvoiceFails(b) \/ PayLink(b) \/ PayFails(b) \/ CancelPayment(b)
      PROVE  payment[p].status = "finalized"
  <2> DEFINE q == buyer[b].payment
  <2>1. q \in Payments /\ payment[q] \in PaymentDocument
    BY <1>3, BuyerShapes, CreatedIsDocument
    DEF PayInvoiceFails, PayLink, PayFails, CancelPayment, BuyerAt, TInv, References, BuyerRefs
  <2>2. /\ \A r \in Payments : r # q => payment'[r] = payment[r]
        /\ payment'[q].status \in {payment[q].status, "failed", "cancelled"}
    BY <1>3, <2>1
    DEF PayInvoiceFails, PayLink, PayFails, CancelPayment, TInv, TypeOK, PaymentDocument
  <2> QED
    BY <2>1, <2>2
<1>4. ASSUME NEW h \in Hooks, HookRecord(h), payment[p].status # "finalized"
      PROVE  /\ hook[h].step = "record" /\ hook[h].payment = p
             /\ hook[h].name = "finalized"
  <2> DEFINE q == hook[h].payment
  <2>1. hook[h].step = "record" /\ q \in Payments /\ payment[q] \in PaymentDocument
    BY <1>4, HookShapes, CreatedIsDocument DEF HookRecord, HookAt, TInv, References, HookRefs
  <2>2. /\ \A r \in Payments : r # q => payment'[r] = payment[r]
        /\ payment'[q].status \in {payment[q].status, PaymentStatusFor(hook[h].name)}
    BY <1>4, <2>1 DEF HookRecord, TInv, TypeOK, PaymentDocument
  <2>3. p = q /\ PaymentStatusFor(hook[h].name) = "finalized"
    BY <1>4, <2>1, <2>2
  <2> QED
    BY <2>1, <2>3 DEF PaymentStatusFor
<1>5. ASSUME NEW a \in Admins, SettlePayment(a), payment[p].status # "finalized"
      PROVE  /\ admin[a].step = "settle_payment" /\ admin[a].payment = p
             /\ admin[a].action = "finalize"
  <2> DEFINE q == admin[a].payment
  <2>1. admin[a].step = "settle_payment" /\ q \in Payments /\ payment[q] \in PaymentDocument
    BY <1>5, AdminShapes, CreatedIsDocument
    DEF SettlePayment, AdminAt, TInv, References, AdminRefs
  <2>2. /\ \A r \in Payments : r # q => payment'[r] = payment[r]
        /\ payment'[q].status = IF admin[a].action = "finalize" THEN "finalized" ELSE "cancelled"
    BY <1>5, <2>1 DEF SettlePayment, TInv, TypeOK, PaymentDocument
  <2> QED
    BY <1>5, <2>1, <2>2
<1> QED
  BY <1>1, <1>2, <1>3, <1>4, <1>5, PaymentActions

LEMMA OrderNext ==
  ASSUME TInv, [Next]_vars, NEW o \in Orders
  PROVE  \/ order'[o].status \in {order[o].status, "pending_payment", "cancelled"}
         \/ \E h \in Hooks : /\ hook[h].step = "order" /\ hook[h].order = o
                             /\ order'[o].status = OrderStatusFor(hook[h].name)
         \/ \E a \in Admins : /\ admin[a].step = "settle_order"
                              /\ admin[a].action = "finalize"
                              /\ payment[admin[a].payment].order = o
                              /\ order'[o].status = "paid"
<1>1. CASE UNCHANGED order
  BY <1>1
<1>2. ASSUME NEW r \in Orders, CreateOrder(r)
      PROVE  order'[o].status \in {order[o].status, "pending_payment"}
  BY <1>2 DEF CreateOrder, TInv, TypeOK, Order
<1>3. ASSUME NEW b \in Buyers, PayAttach(b) \/ CancelOrder(b) \/ ResizeSave(b)
      PROVE  order'[o].status \in {order[o].status, "cancelled"}
  BY <1>3, BuyerShapes
  DEF PayAttach, CancelOrder, ResizeSave, BuyerAt, TInv, TypeOK, Order
<1>4. ASSUME NEW h \in Hooks, HookOrder(h)
      PROVE  \/ order'[o].status = order[o].status
             \/ /\ hook[h].step = "order" /\ hook[h].order = o
                /\ order'[o].status = OrderStatusFor(hook[h].name)
  BY <1>4, HookShapes DEF HookOrder, HookAt, TInv, TypeOK, Order
<1>5. ASSUME NEW a \in Admins, SettleOrder(a)
      PROVE  \/ order'[o].status \in {order[o].status, "cancelled"}
             \/ /\ admin[a].step = "settle_order" /\ admin[a].action = "finalize"
                /\ payment[admin[a].payment].order = o /\ order'[o].status = "paid"
  BY <1>5 DEF SettleOrder, AdminAt, TInv, TypeOK, Order
<1> QED
  BY <1>1, <1>2, <1>3, <1>4, <1>5, OrderActions

LEMMA PaymentsOfGrow ==
  ASSUME TInv, [Next]_vars, NEW o \in Orders
  PROVE  PaymentsOf(o) \subseteq PaymentsOf(o)'
BY DocumentsKept DEF PaymentsOf, Created

LEMMA PaidIsCapturedKept ==
  ASSUME MInv, [Next]_vars
  PROVE  PaidIsCaptured'
<1>1. ASSUME NEW p \in Payments, payment'[p].status = "finalized"
      PROVE  bank'[p] = "captured"
  <2>1. bank[p] = "captured"
    <3>1. CASE payment[p].status = "finalized"
      BY <3>1 DEF MInv, PaidIsCaptured
    <3>2. ASSUME NEW h \in Hooks, hook[h].step = "record", hook[h].payment = p,
                 hook[h].name = "finalized"
          PROVE  bank[p] = "captured"
      BY <3>2 DEF MInv, HookFaithful, ReportedCaptured
    <3>3. ASSUME NEW a \in Admins, admin[a].step = "settle_payment",
                 admin[a].payment = p, admin[a].action = "finalize"
          PROVE  bank[p] = "captured"
      BY <3>3 DEF MInv, SettledCaptured
    <3> QED
      BY <1>1, <3>1, <3>2, <3>3, PaymentNext DEF MInv
  <2> QED
    BY <2>1, CapturedStays DEF MInv
<1>2. ASSUME NEW o \in Orders, order'[o].status = "paid"
      PROVE  \E p \in PaymentsOf(o)' : bank'[p] = "captured"
  <2>1. \E p \in PaymentsOf(o) : bank[p] = "captured"
    <3>1. CASE order'[o].status \in {order[o].status, "pending_payment", "cancelled"}
      BY <1>2, <3>1 DEF MInv, PaidIsCaptured
    <3>2. ASSUME NEW h \in Hooks, hook[h].step = "order", hook[h].order = o,
                 order'[o].status = OrderStatusFor(hook[h].name)
          PROVE  \E p \in PaymentsOf(o) : bank[p] = "captured"
      <4>1. hook[h].name \in EventNames /\ hook[h].payment \in Payments
        BY <3>2, HookShapes DEF MInv, TInv
      <4>2. hook[h].name = "finalized"
        BY <1>2, <3>2, <4>1 DEF OrderStatusFor, EventNames
      <4>3. hook[h].payment \in Created
        BY <3>2 DEF MInv, TInv, References, HookRefs
      <4> QED
        BY <3>2, <4>1, <4>2, <4>3
        DEF MInv, HookFaithful, ReportedCaptured, Reported, PaymentsOf, Created
    <3>3. ASSUME NEW a \in Admins, admin[a].step = "settle_order",
                 admin[a].action = "finalize", payment[admin[a].payment].order = o
          PROVE  \E p \in PaymentsOf(o) : bank[p] = "captured"
      BY <3>3 DEF MInv, SettledCaptured, TInv, References, AdminRefs, PaymentsOf, Created
    <3> QED
      BY <3>1, <3>2, <3>3, OrderNext DEF MInv
  <2> QED
    BY <2>1, PaymentsOfGrow, CapturedStays DEF MInv, PaymentsOf
<1> QED
  BY <1>1, <1>2 DEF PaidIsCaptured

LEMMA SeatsWereHeldKept ==
  ASSUME MInv, [Next]_vars
  PROVE  SeatsWereHeld'
<1> SUFFICES ASSUME NEW o \in Orders, order'[o].status = "reserved"
             PROVE  \E p \in PaymentsOf(o)', n \in HoldNames :
                      [payment |-> p, name |-> n] \in sent'
  BY DEF SeatsWereHeld
<1>1. \E p \in PaymentsOf(o), n \in HoldNames : [payment |-> p, name |-> n] \in sent
  <2>1. CASE order'[o].status \in {order[o].status, "pending_payment", "cancelled"}
    BY <2>1 DEF MInv, SeatsWereHeld
  <2>2. ASSUME NEW h \in Hooks, hook[h].step = "order", hook[h].order = o,
               order'[o].status = OrderStatusFor(hook[h].name)
        PROVE  \E p \in PaymentsOf(o), n \in HoldNames : [payment |-> p, name |-> n] \in sent
    <3>1. hook[h].name \in EventNames /\ hook[h].payment \in Payments
      BY <2>2, HookShapes DEF MInv, TInv
    <3>2. hook[h].name \in HoldNames
      BY <2>2, <3>1 DEF OrderStatusFor, EventNames
    <3>3. hook[h].payment \in Created
      BY <2>2 DEF MInv, TInv, References, HookRefs
    <3> QED
      BY <2>2, <3>1, <3>2, <3>3 DEF MInv, HookFaithful, Reported, PaymentsOf, Created
  <2> QED
    BY <2>1, <2>2, OrderNext DEF MInv
<1> QED
  BY <1>1, PaymentsOfGrow, SentGrows DEF MInv

-----------------------------------------------------------------------------
(* The theorems. *)

LEMMA InitMInv == Init => MInv
<1> SUFFICES ASSUME Init PROVE MInv
  OBVIOUS
<1>1. TInv
  BY InitTInv
<1>2. /\ \A b \in Buyers : buyer[b].step = "idle"
      /\ \A h \in Hooks : hook[h].step = "idle"
      /\ \A a \in Admins : admin[a].step = "idle"
  BY DEF Init, Idle
<1>3. \A o \in Orders : order[o].status = "absent"
  BY DEF Init
<1>4. \A p \in Payments : payment[p].status = "absent"
  BY DEF Init
<1>5. InvoiceOnce /\ HookFaithful /\ SettledCaptured
  BY <1>2 DEF InvoiceOnce, HookFaithful, SettledCaptured, BuyerAt
<1>6. ReportedCaptured
  BY DEF Init, ReportedCaptured, Reported
<1>7. PaidIsCaptured /\ SeatsWereHeld
  BY <1>3, <1>4 DEF PaidIsCaptured, SeatsWereHeld
<1> QED
  BY <1>1, <1>5, <1>6, <1>7 DEF MInv

LEMMA StepMInv == MInv /\ [Next]_vars => MInv'
<1> SUFFICES ASSUME MInv, [Next]_vars PROVE MInv'
  OBVIOUS
<1>1. TInv'
  BY StepTInv DEF MInv
<1>2. InvoiceOnce'
  BY InvoiceOnceKept DEF MInv
<1>3. ReportedCaptured'
  BY ReportedCapturedKept DEF MInv
<1>4. HookFaithful'
  BY HookFaithfulKept DEF MInv
<1>5. SettledCaptured'
  BY SettledCapturedKept DEF MInv
<1>6. PaidIsCaptured'
  BY PaidIsCapturedKept
<1>7. SeatsWereHeld'
  BY SeatsWereHeldKept
<1> QED
  BY <1>1, <1>2, <1>3, <1>4, <1>5, <1>6, <1>7 DEF MInv

(* An order is paid and a payment finalized only when Monobank captured the *)
(* money: handleMonobankWebhook and processActiveHoldsForDrop write those   *)
(* statuses after the capture, whatever is delivered again or out of order. *)
THEOREM PaidCaptured == Spec => []PaidIsCaptured
<1>1. MInv => PaidIsCaptured
  BY DEF MInv
<1> QED
  BY <1>1, InitMInv, StepMInv, PTL DEF Spec

(* An order is reserved only after Monobank reported a hold of one of its *)
(* payments: no other handler gives a seat, and a resize or a late save   *)
(* does not make one.                                                     *)
THEOREM SeatsHeld == Spec => []SeatsWereHeld
<1>1. MInv => SeatsWereHeld
  BY DEF MInv
<1> QED
  BY <1>1, InitMInv, StepMInv, PTL DEF Spec

-----------------------------------------------------------------------------
(***************************************************************************)
(* An order's payment is the one its buyer can pay (Offered), and while a  *)
(* payment is being made for an order the order has none (Making).         *)
(***************************************************************************)
PayingSteps == {"invoice", "link", "attach"}
Offered ==
  \A p \in Payments : bank[p] = "offered" => order[payment[p].order].payment = p
Making ==
  \A b \in Buyers : buyer[b].step \in PayingSteps =>
    /\ payment[buyer[b].payment].order = buyer[b].order
    /\ order[buyer[b].order].payment = NoPayment

OInv == TInv /\ Offered /\ Making

-----------------------------------------------------------------------------
(* One payment of an order *)

(* Only PayAttach gives an order a payment. *)
LEMMA OrderPaymentKept ==
  ASSUME TInv, [Next]_vars, \A b \in Buyers : ~PayAttach(b), NEW o \in Orders
  PROVE  order'[o].payment = order[o].payment
<1>1. CASE UNCHANGED order
  BY <1>1
<1>2. ASSUME NEW q \in Orders, CreateOrder(q)
      PROVE  order'[o].payment = order[o].payment
  BY <1>2 DEF CreateOrder, TInv, TypeOK, Order
<1>3. ASSUME NEW b \in Buyers, CancelOrder(b) \/ ResizeSave(b)
      PROVE  order'[o].payment = order[o].payment
  BY <1>3 DEF CancelOrder, ResizeSave, TInv, TypeOK, Order
<1>4. ASSUME NEW h \in Hooks, HookOrder(h)
      PROVE  order'[o].payment = order[o].payment
  BY <1>4 DEF HookOrder, TInv, TypeOK, Order
<1>5. ASSUME NEW a \in Admins, SettleOrder(a)
      PROVE  order'[o].payment = order[o].payment
  BY <1>5 DEF SettleOrder, TInv, TypeOK, Order
<1> QED
  BY <1>1, <1>2, <1>3, <1>4, <1>5, OrderActions

(* PayAttach gives the payment to the order it was made for, and to no other. *)
LEMMA Attached ==
  ASSUME TInv, NEW b \in Buyers, PayAttach(b)
  PROVE  /\ buyer[b].step = "attach"
         /\ buyer[b].order \in Orders /\ buyer[b].payment \in Created
         /\ buyer[b].payment \in Payments
         /\ order'[buyer[b].order].payment = buyer[b].payment
         /\ \A o \in Orders : o # buyer[b].order => order'[o] = order[o]
         /\ UNCHANGED payment
         /\ \A p \in Payments : p # buyer[b].payment => bank'[p] = bank[p]
         /\ buyer'[b].step = "idle"
<1>1. buyer[b].step = "attach" /\ buyer[b].order \in Orders /\ buyer[b].payment \in Payments
  BY BuyerShapes DEF PayAttach, BuyerAt, TInv
<1>2. buyer[b].payment \in Created
  BY <1>1 DEF TInv, References, BuyerRefs
<1>3. /\ order'[buyer[b].order].payment = buyer[b].payment
      /\ \A o \in Orders : o # buyer[b].order => order'[o] = order[o]
  BY <1>1 DEF PayAttach, TInv, TypeOK, Order
<1>4. UNCHANGED payment /\ \A p \in Payments : p # buyer[b].payment => bank'[p] = bank[p]
  BY DEF PayAttach, TInv, TypeOK
<1>5. buyer'[b].step = "idle"
  BY DEF PayAttach, Buyer, TInv, TypeOK, Idle
<1> QED
  BY <1>1, <1>2, <1>3, <1>4, <1>5

(* No other step offers an invoice. *)
LEMMA OfferedNext ==
  ASSUME TInv, [Next]_vars, \A b \in Buyers : ~PayAttach(b),
         NEW p \in Payments, bank'[p] = "offered"
  PROVE  bank[p] = "offered"
<1>1. ASSUME NEW q \in Payments,
             BankHold(q) \/ BankDecline(q) \/ BankExpire(q) \/ BankCapture(q) \/ BankRelease(q)
      PROVE  bank[p] = "offered"
  BY <1>1 DEF BankHold, BankDecline, BankExpire, BankCapture, BankRelease, TInv, TypeOK
<1>2. ASSUME UNCHANGED external PROVE bank[p] = "offered"
  BY <1>2 DEF external
<1>3. ASSUME NEW b \in Buyers, PayInvoice(b) PROVE bank[p] = "offered"
  BY <1>3 DEF PayInvoice, TInv, TypeOK
<1>4. ASSUME NEW b \in Buyers, CancelHold(b) \/ CancelHoldFails(b)
      PROVE  bank[p] = "offered"
  <2>1. buyer[b].payment \in Payments
    BY <1>4, BuyerShapes DEF CancelHold, CancelHoldFails, BuyerAt, TInv
  <2> QED
    BY <1>1, <1>2, <1>4, <2>1 DEF CancelHold, CancelHoldFails
<1>5. ASSUME NEW a \in Admins, SettleHold(a) \/ SettleHoldFails(a)
      PROVE  bank[p] = "offered"
  <2>1. admin[a].queue \in SUBSET Payments
    BY <1>5, AdminShapes DEF SettleHold, SettleHoldFails, AdminAt, TInv
  <2> QED
    BY <1>1, <1>2, <1>5, <2>1 DEF SettleHold, SettleHoldFails, BankCall
<1> QED
  BY <1>1, <1>2, <1>3, <1>4, <1>5, BankActions

LEMMA OfferedKept ==
  ASSUME OInv, [Next]_vars
  PROVE  Offered'
<1> SUFFICES ASSUME NEW p \in Payments, bank'[p] = "offered"
             PROVE  order'[payment'[p].order].payment = p
  BY DEF Offered
<1>1. ASSUME p \in Created PROVE payment[p].order \in Orders /\ payment'[p].order = payment[p].order
  BY <1>1, CreatedIsDocument, DocumentsKept DEF OInv, TInv, PaymentDocument
<1>2. CASE \A b \in Buyers : ~PayAttach(b)
  <2>1. bank[p] = "offered"
    BY <1>2, OfferedNext DEF OInv
  <2>2. p \in Created
    BY <2>1 DEF OInv, TInv, References, BankRefs
  <2>3. order'[payment[p].order].payment = order[payment[p].order].payment
    BY <1>1, <1>2, <2>2, OrderPaymentKept DEF OInv
  <2> QED
    BY <1>1, <2>1, <2>2, <2>3 DEF OInv, Offered
<1>3. ASSUME NEW b \in Buyers, PayAttach(b)
      PROVE  order'[payment'[p].order].payment = p
  <2>1. CASE p = buyer[b].payment
    BY <1>3, <2>1, Attached DEF OInv, Making, PayingSteps
  <2>2. CASE p # buyer[b].payment
    <3>1. bank[p] = "offered"
      BY <1>3, <2>2, Attached DEF OInv
    <3>2. p \in Created /\ order[payment[p].order].payment = p
      BY <3>1 DEF OInv, TInv, References, BankRefs, Offered
    <3>3. order[buyer[b].order].payment = NoPayment
      BY <1>3, Attached DEF OInv, Making, PayingSteps
    <3>4. payment[p].order # buyer[b].order
      BY <3>2, <3>3, PaymentsAssumption
    <3> QED
      BY <1>1, <1>3, <3>2, <3>4, Attached DEF OInv
  <2> QED
    BY <2>1, <2>2
<1> QED
  BY <1>2, <1>3

(* A buyer's request gets on with making a payment, or starts to. *)
LEMMA PayingNext ==
  ASSUME TInv, NEW b \in Buyers, BuyerStarts(b) \/ BuyerContinues(b) \/ BuyerFails(b),
         buyer'[b].step \in PayingSteps
  PROVE  \/ PayStart(b)
         \/ /\ buyer[b].step \in PayingSteps
            /\ buyer'[b].payment = buyer[b].payment /\ buyer'[b].order = buyer[b].order
<1>1. ASSUME NEW t, Buyer(b, t) PROVE buyer'[b] = t
  BY <1>1 DEF Buyer, TInv, TypeOK
<1>2. CASE PayStart(b)
  BY <1>2
<1>3. CASE CancelRead(b) \/ ResizeRead(b)
  <2>1. ASSUME CancelRead(b)
        PROVE  \E t : Buyer(b, t) /\ t.step \notin PayingSteps
    <3>1. PICK o \in Orders :
            Buyer(b, IF order[o].payment = NoPayment
                     THEN [step |-> "cancel_order", order |-> o]
                     ELSE [step |-> "cancel_find", order |-> o,
                           payment |-> order[o].payment])
      BY <2>1 DEF CancelRead
    <3>2. CASE order[o].payment = NoPayment
      BY <3>1, <3>2 DEF PayingSteps
    <3>3. CASE order[o].payment # NoPayment
      BY <3>1, <3>3 DEF PayingSteps
    <3> QED
      BY <3>2, <3>3
  <2>2. ASSUME ResizeRead(b)
        PROVE  \E t : Buyer(b, t) /\ t.step \notin PayingSteps
    BY <2>2 DEF ResizeRead, PayingSteps
  <2>3. PICK t : Buyer(b, t) /\ t.step \notin PayingSteps
    BY <1>3, <2>1, <2>2
  <2> QED
    BY <1>1, <2>3
<1>4. CASE PayInvoice(b) \/ PayLink(b)
  <2>1. PICK s \in {"link", "attach"} : Buyer(b, [buyer[b] EXCEPT !.step = s])
    BY <1>4 DEF PayInvoice, PayLink
  <2>2. buyer[b].step \in {"invoice", "link"}
    BY <1>4 DEF PayInvoice, PayLink, BuyerAt
  <2> DEFINE t == [buyer[b] EXCEPT !.step = s]
  <2>3. t.payment = buyer[b].payment /\ t.order = buyer[b].order
    BY <2>2, BuyerShapes DEF TInv, BuyerTask, Idle
  <2>4. buyer'[b] = t
    BY <1>1, <2>1
  <2> HIDE DEF t
  <2> QED
    BY <2>2, <2>3, <2>4 DEF PayingSteps
<1>5. CASE CancelFind(b) \/ CancelHold(b) \/ CancelPayment(b)
  <2>1. PICK s \in {"cancel_hold", "cancel_order", "cancel_payment"} :
          Buyer(b, [buyer[b] EXCEPT !.step = s])
    BY <1>5 DEF CancelFind, CancelHold, CancelPayment
  <2>2. buyer[b].step \in {"cancel_find", "cancel_hold", "cancel_payment"}
    BY <1>5 DEF CancelFind, CancelHold, CancelPayment, BuyerAt
  <2> DEFINE t == [buyer[b] EXCEPT !.step = s]
  <2>3. t.step = s
    BY <2>2, BuyerShapes DEF TInv, BuyerTask, Idle
  <2>4. buyer'[b] = t
    BY <1>1, <2>1
  <2> HIDE DEF t
  <2> QED
    BY <2>1, <2>3, <2>4 DEF PayingSteps
<1>6. CASE PayInvoiceFails(b) \/ PayAttach(b) \/ PayFails(b) \/ CancelHoldFails(b)
             \/ CancelOrder(b) \/ ResizeSave(b) \/ BuyerFails(b)
  <2>1. Buyer(b, Idle)
    BY <1>6 DEF PayInvoiceFails, PayAttach, PayFails, CancelHoldFails, CancelOrder,
       ResizeSave, BuyerFails
  <2> QED
    BY <1>1, <2>1 DEF Idle, PayingSteps
<1> QED
  BY <1>2, <1>3, <1>4, <1>5, <1>6 DEF BuyerStarts, BuyerContinues

LEMMA MakingKept ==
  ASSUME OInv, [Next]_vars, \A b, c \in Buyers : b = c
  PROVE  Making'
<1> SUFFICES ASSUME NEW b \in Buyers, buyer'[b].step \in PayingSteps
             PROVE  /\ payment'[buyer'[b].payment].order = buyer'[b].order
                    /\ order'[buyer'[b].order].payment = NoPayment
  BY DEF Making
<1>1. \A c \in Buyers : ~PayAttach(c)
  BY Attached DEF OInv, PayingSteps
<1>2. CASE PayStart(b)
  <2>1. PICK o \in Orders, p \in Payments :
          /\ order[o].payment = NoPayment
          /\ payment' = [payment EXCEPT ![p] =
               [status |-> "created", order |-> o, linked |-> FALSE, events |-> {}]]
          /\ Buyer(b, [step |-> "invoice", order |-> o, payment |-> p])
          /\ UNCHANGED order
    BY <1>2 DEF PayStart
  <2>2. buyer'[b].payment = p /\ buyer'[b].order = o
    BY <2>1 DEF Buyer, OInv, TInv, TypeOK
  <2>3. payment'[p].order = o
    BY <2>1 DEF OInv, TInv, TypeOK
  <2> QED
    BY <2>1, <2>2, <2>3
<1>3. CASE /\ buyer[b].step \in PayingSteps
           /\ buyer'[b].payment = buyer[b].payment /\ buyer'[b].order = buyer[b].order
  <2>1. buyer[b].payment \in Created /\ buyer[b].order \in Orders
    BY <1>3, BuyerShapes DEF OInv, TInv, References, BuyerRefs, PayingSteps
  <2>2. payment'[buyer[b].payment].order = payment[buyer[b].payment].order
    BY <2>1, DocumentsKept DEF OInv
  <2>3. order'[buyer[b].order].payment = order[buyer[b].order].payment
    BY <1>1, <2>1, OrderPaymentKept DEF OInv
  <2> QED
    BY <1>3, <2>2, <2>3 DEF OInv, Making
<1>4. CASE UNCHANGED buyer
  BY <1>3, <1>4
<1>5. CASE BuyerStarts(b) \/ BuyerContinues(b) \/ BuyerFails(b)
  BY <1>2, <1>3, <1>5, PayingNext DEF OInv
<1> QED
  BY <1>4, <1>5, BuyerActions

LEMMA InitOInv == Init => OInv
<1> SUFFICES ASSUME Init PROVE OInv
  OBVIOUS
<1>1. Offered
  BY DEF Init, Offered
<1>2. Making
  BY DEF Init, Making, Idle, PayingSteps
<1> QED
  BY <1>1, <1>2, InitTInv DEF OInv

(* A buyer who makes one request at a time never gets two invoices to pay for *)
(* one order: createPaymentHold saves the order with its payment before the   *)
(* buyer can pay, and a request that stopped in between offered nothing.      *)
THEOREM OnePayment ==
  ASSUME \A b, c \in Buyers : b = c
  PROVE  Spec => []OnePaymentPerOrder
<1>1. OInv => OnePaymentPerOrder
  BY DEF OInv, Offered, OnePaymentPerOrder
<1>2. OInv /\ [Next]_vars => OInv'
  BY StepTInv, OfferedKept, MakingKept DEF OInv
<1> QED
  BY <1>1, <1>2, InitOInv, PTL DEF Spec

-----------------------------------------------------------------------------
(***************************************************************************)
(* No charge for a failed drop.  A drop fails only from active_collecting, *)
(* which a launched drop leaves for good (Launched); once a transition     *)
(* that charges is under way, or something was charged, the drop is past   *)
(* both (ChargedIsPast); and an administrator about to save the failure    *)
(* read the drop before anything was charged (FailsUncharged).             *)
(***************************************************************************)
SettlingSteps == {"list", "settle", "settle_payment", "settle_order"}
Finalizes(a) == admin[a].step \in SettlingSteps /\ admin[a].action = "finalize"
Charged == \E p \in Payments : bank[p] = "captured"
Launched ==
  /\ drop.status \notin UnlaunchedStatuses
  /\ \A a \in Admins : AdminAt(a, "move") =>
       admin[a].target \notin UnlaunchedStatuses \cup {"active_collecting"}
ChargedIsPast ==
  Charged \/ (\E a \in Admins : Finalizes(a)) =>
    drop.status \notin {"active_collecting", "failed"}
FailsUncharged ==
  \A a \in Admins : AdminAt(a, "move") /\ admin[a].target = "failed" => ~Charged

CInv == TInv /\ Launched /\ ChargedIsPast /\ FailsUncharged

(* Money is captured only by a transition that finalizes. *)
LEMMA ChargedNext ==
  ASSUME TInv, [Next]_vars, Charged'
  PROVE  Charged \/ \E a \in Admins : Finalizes(a) /\ (SettleHold(a) \/ SettleHoldFails(a))
<1>1. PICK p \in Payments : bank'[p] = "captured"
  BY DEF Charged
<1> SUFFICES ASSUME bank[p] # "captured"
             PROVE  \E a \in Admins : Finalizes(a) /\ (SettleHold(a) \/ SettleHoldFails(a))
  BY DEF Charged
<1>2. ASSUME NEW q \in Payments,
             BankHold(q) \/ BankDecline(q) \/ BankExpire(q) \/ BankRelease(q)
      PROVE  FALSE
  BY <1>1, <1>2 DEF BankHold, BankDecline, BankExpire, BankRelease, TInv, TypeOK
<1>3. ASSUME UNCHANGED external PROVE FALSE
  BY <1>1, <1>3 DEF external
<1>4. ASSUME NEW b \in Buyers, PayInvoice(b) \/ PayAttach(b) PROVE FALSE
  BY <1>1, <1>4 DEF PayInvoice, PayAttach, TInv, TypeOK
<1>5. ASSUME NEW b \in Buyers, CancelHold(b) \/ CancelHoldFails(b) PROVE FALSE
  <2>1. buyer[b].payment \in Payments
    BY <1>5, BuyerShapes DEF CancelHold, CancelHoldFails, BuyerAt, TInv
  <2> QED
    BY <1>2, <1>3, <1>5, <2>1 DEF CancelHold, CancelHoldFails
<1>6. ASSUME NEW a \in Admins, SettleHold(a) \/ SettleHoldFails(a)
      PROVE  Finalizes(a)
  <2>1. admin[a].step = "settle" /\ admin[a].queue \in SUBSET Payments
    BY <1>6, AdminShapes DEF SettleHold, SettleHoldFails, AdminAt, TInv
  <2>2. CASE admin[a].action = "finalize"
    BY <2>1, <2>2 DEF Finalizes, SettlingSteps
  <2>3. CASE admin[a].action # "finalize"
    BY <1>2, <1>3, <1>6, <2>1, <2>3 DEF SettleHold, SettleHoldFails, BankCall
  <2> QED
    BY <2>2, <2>3
<1> QED
  BY <1>2, <1>3, <1>4, <1>5, <1>6, BankActions

(* The status of the drop is a count's, or the one an administrator saves. *)
LEMMA StatusNext ==
  ASSUME TInv, [Next]_vars, \A a \in Admins : ~MoveSave(a)
  PROVE  drop'.status \in {drop.status, "guaranteed", "sold_out"}
<1>1. ASSUME NEW h \in Hooks, HookCount(h)
      PROVE  drop'.status = drop.status
  <2>1. hook[h].order \in Orders /\ hook[h].size \in Sizes
    BY <1>1, HookShapes DEF HookCount, HookAt, TInv
  <2>2. Quantity[hook[h].order] \in Nat
    BY <2>1, QuantityAssumption
  <2> QED
    BY <1>1, <2>1, <2>2, CountedDrop DEF HookCount, TInv, TypeOK
<1>2. ASSUME NEW h \in Hooks, HookRule(h)
      PROVE  drop'.status \in {"guaranteed", "sold_out"}
  BY <1>2, HookShapes DEF HookRule, HookAt, TInv, TypeOK, Drop
<1>3. ASSUME NEW h \in Hooks,
             HookStart(h) \/ HookRead(h) \/ HookOrder(h) \/ HookRecord(h) \/ HookFails(h)
      PROVE  UNCHANGED drop
  BY <1>3 DEF HookStart, HookRead, HookOrder, HookRecord, HookFails, stored
<1>4. CASE UNCHANGED vars
  BY <1>4 DEF vars, stored
<1> QED
  BY <1>1, <1>2, <1>3, <1>4, DropAlone DEF Next, HookContinues

(* What a transition does next: it aims at a successor of the drop it read, *)
(* settles what the saved target calls for, or goes on as it was.           *)
LEMMA TransitionNext ==
  ASSUME TInv, NEW a \in Admins, MoveRead(a) \/ AdminContinues(a) \/ AdminFails(a)
  PROVE  /\ \A c \in Admins : c # a => admin'[c] = admin[c]
         /\ AdminAt(a, "move")' =>
              MoveRead(a) /\ admin'[a].target \in MoveTargets(drop) /\ UNCHANGED bank
         /\ Finalizes(a)' =>
              \/ Finalizes(a)
              \/ MoveSave(a) /\ admin[a].target \in FinalizingStatuses
<1>1. ASSUME NEW t, Admin(a, t)
      PROVE  admin'[a] = t /\ \A c \in Admins : c # a => admin'[c] = admin[c]
  BY <1>1 DEF Admin, TInv, TypeOK
<1>2. CASE MoveRead(a)
  BY <1>1, <1>2 DEF MoveRead, AdminAt, Finalizes, SettlingSteps, external
<1>3. CASE MoveSave(a)
  <2>1. CASE admin[a].target \in FinalizingStatuses
    <3>1. Admin(a, [step |-> "list", action |-> "finalize"])
      BY <1>3, <2>1 DEF MoveSave, FinalizingStatuses, CancellingStatuses
    <3> QED
      BY <1>1, <1>3, <2>1, <3>1 DEF AdminAt
  <2>2. CASE admin[a].target \notin FinalizingStatuses
    <3>1. \/ Admin(a, [step |-> "list", action |-> "cancel"])
          \/ Admin(a, Idle)
      BY <1>3, <2>2 DEF MoveSave
    <3> QED
      BY <1>1, <3>1 DEF AdminAt, Finalizes, SettlingSteps, Idle
  <2> QED
    BY <2>1, <2>2
<1>4. CASE List(a) \/ SettleHoldFails(a) \/ SettleOrder(a) \/ SettleSaveFails(a)
  <2>1. admin[a].step \in SettlingSteps
    BY <1>4 DEF List, SettleHoldFails, SettleOrder, SettleSaveFails, AdminAt, SettlingSteps
  <2>2. PICK queue : Admin(a, Settle(admin[a].action, queue))
    BY <1>4 DEF List, SettleHoldFails, SettleOrder, SettleSaveFails
  <2>3. \/ admin'[a] = [step |-> "settle", action |-> admin[a].action, queue |-> queue]
        \/ admin'[a] = Idle
    BY <1>1, <2>2 DEF Settle
  <2> QED
    BY <1>1, <2>1, <2>2, <2>3 DEF AdminAt, Finalizes, SettlingSteps, Idle
<1>5. CASE SettleHold(a)
  <2>1. PICK p \in admin[a].queue :
          Admin(a, [ step |-> "settle_payment", action |-> admin[a].action,
                     queue |-> admin[a].queue \ {p}, payment |-> p ])
    BY <1>5 DEF SettleHold
  <2>2. admin[a].step = "settle"
    BY <1>5 DEF SettleHold, AdminAt
  <2> QED
    BY <1>1, <2>1, <2>2 DEF AdminAt, Finalizes, SettlingSteps
<1>6. CASE SettlePayment(a)
  <2> DEFINE t == [admin[a] EXCEPT !.step = "settle_order"]
  <2>1. admin[a].step = "settle_payment" /\ Admin(a, t)
    BY <1>6 DEF SettlePayment, AdminAt
  <2>2. t.step = "settle_order" /\ t.action = admin[a].action
    BY <2>1, AdminShapes DEF TInv, AdminTask, Idle
  <2>3. admin'[a] = t
    BY <1>1, <2>1
  <2> HIDE DEF t
  <2> QED
    BY <1>1, <2>1, <2>2, <2>3 DEF AdminAt, Finalizes, SettlingSteps
<1>7. CASE AdminFails(a)
  BY <1>1, <1>7 DEF AdminFails, AdminAt, Finalizes, SettlingSteps, Idle
<1> QED
  BY <1>2, <1>3, <1>4, <1>5, <1>6, <1>7 DEF AdminContinues

(* The rows of the lifecycle table that lead to a start or to a failure. *)
LEMMA LifecycleTable ==
  ASSUME drop \in Drop, drop.status \notin UnlaunchedStatuses
  PROVE  /\ MoveTargets(drop) \cap (UnlaunchedStatuses \cup {"active_collecting"}) = {}
         /\ "failed" \in MoveTargets(drop) => drop.status = "active_collecting"
<1>1. drop.status \in DropStatuses
  BY DEF Drop
<1>2. MoveTargets(drop) =
        CASE drop.status = "draft"                -> { "ready_for_launch", "archived" }
          [] drop.status = "ready_for_launch"     -> { "active_collecting", "draft", "archived" }
          [] drop.status = "active_collecting"    -> { "guaranteed", "sold_out", "failed" }
          [] drop.status = "guaranteed"           -> { "sold_out", "successful" }
          [] drop.status = "sold_out"             -> { "successful" }
          [] drop.status = "successful"           -> { "in_production" }
          [] drop.status = "in_production"        -> { "ready_to_ship" }
          [] drop.status = "ready_to_ship"        -> { "shipped" }
          [] drop.status = "shipped"              -> { "delivered" }
          [] drop.status = "delivered"            -> { "completed", "second_chance_window" }
          [] drop.status = "second_chance_window" -> { "forever_closed" }
          [] OTHER                                -> {}
  BY <1>1 DEF MoveTargets, DropTransitions
<1> QED
  BY <1>1, <1>2 DEF UnlaunchedStatuses, DropStatuses

LEMMA InitCInv == Init => CInv
<1> SUFFICES ASSUME Init PROVE CInv
  OBVIOUS
<1>1. \A a \in Admins : admin[a].step = "idle"
  BY DEF Init, Idle
<1>2. ~Charged
  BY DEF Init, Charged
<1>3. drop.status = "active_collecting"
  BY DEF Init
<1>4. Launched
  BY <1>1, <1>3 DEF Launched, AdminAt, UnlaunchedStatuses
<1>5. ChargedIsPast /\ FailsUncharged
  BY <1>1, <1>2 DEF ChargedIsPast, FailsUncharged, AdminAt, Finalizes, SettlingSteps
<1> QED
  BY <1>4, <1>5, InitTInv DEF CInv

LEMMA StepCInv ==
  ASSUME CInv, [Next]_vars, \A a, c \in Admins : a = c
  PROVE  CInv'
<1>1. TInv' /\ TInv /\ drop \in Drop
  BY StepTInv DEF CInv, TInv, TypeOK
<1>2. ASSUME NEW a \in Admins, AdminAt(a, "move")', admin'[a] # admin[a]
      PROVE  /\ admin'[a].target \in MoveTargets(drop) /\ UNCHANGED << drop, bank >>
  <2>1. MoveRead(a)
    BY <1>1, <1>2, AdminActions, TransitionNext
  <2>2. admin'[a].target \in MoveTargets(drop) /\ UNCHANGED bank
    BY <1>1, <1>2, <2>1, TransitionNext
  <2>3. UNCHANGED drop
    BY <2>1 DEF MoveRead, stored
  <2> QED
    BY <2>2, <2>3
<1>3. Launched'
  <2>1. ASSUME NEW a \in Admins, AdminAt(a, "move")'
        PROVE  admin'[a].target \notin UnlaunchedStatuses \cup {"active_collecting"}
    <3>1. CASE admin'[a] = admin[a]
      BY <2>1, <3>1 DEF CInv, Launched, AdminAt
    <3>2. CASE admin'[a] # admin[a]
      BY <1>1, <1>2, <2>1, <3>2, LifecycleTable DEF CInv, Launched
    <3> QED
      BY <3>1, <3>2
  <2>2. drop'.status \notin UnlaunchedStatuses
    <3>1. ASSUME NEW a \in Admins, MoveSave(a)
          PROVE  drop'.status \notin UnlaunchedStatuses
      BY <1>1, <3>1 DEF MoveSave, AdminAt, CInv, Launched, Drop
    <3>2. CASE \A a \in Admins : ~MoveSave(a)
      BY <1>1, <3>2, StatusNext DEF CInv, Launched, UnlaunchedStatuses
    <3> QED
      BY <3>1, <3>2
  <2> QED
    BY <2>1, <2>2 DEF Launched
<1>4. ChargedIsPast'
  <2> SUFFICES ASSUME Charged' \/ \E a \in Admins : Finalizes(a)'
               PROVE  drop'.status \notin {"active_collecting", "failed"}
    BY DEF ChargedIsPast
  <2>1. CASE \A a \in Admins : ~MoveSave(a)
    <3>1. Charged \/ \E a \in Admins : Finalizes(a)
      <4>1. ASSUME NEW a \in Admins, Finalizes(a)' PROVE Finalizes(a)
        <5>1. CASE UNCHANGED admin
          BY <4>1, <5>1 DEF Finalizes
        <5>2. CASE MoveRead(a) \/ AdminContinues(a) \/ AdminFails(a)
          BY <1>1, <2>1, <4>1, <5>2, TransitionNext
        <5> QED
          BY <5>1, <5>2, AdminActions
      <4> QED
        BY <1>1, <4>1, ChargedNext
    <3> QED
      BY <1>1, <2>1, <3>1, StatusNext DEF CInv, ChargedIsPast
  <2>2. ASSUME NEW a \in Admins, MoveSave(a)
        PROVE  drop'.status \notin {"active_collecting", "failed"}
    <3>1. admin[a].step = "move" /\ drop'.status = admin[a].target
      BY <1>1, <2>2 DEF MoveSave, AdminAt, Drop
    <3>2. admin[a].target # "active_collecting"
      BY <3>1 DEF CInv, Launched, AdminAt
    <3>3. ASSUME admin[a].target = "failed" PROVE FALSE
      <4>1. ~Charged /\ \A c \in Admins : ~Finalizes(c)
        BY <3>1, <3>3 DEF CInv, FailsUncharged, AdminAt, Finalizes, SettlingSteps
      <4>2. ~Charged'
        BY <1>1, <4>1, ChargedNext
      <4>3. ~Finalizes(a)'
        BY <1>1, <2>2, <3>3, <4>1, TransitionNext DEF AdminContinues, FinalizingStatuses
      <4> QED
        BY <4>2, <4>3
    <3> QED
      BY <3>1, <3>2, <3>3
  <2> QED
    BY <2>1, <2>2
<1>5. FailsUncharged'
  <2> SUFFICES ASSUME NEW a \in Admins, AdminAt(a, "move")', admin'[a].target = "failed"
               PROVE  ~Charged'
    BY DEF FailsUncharged
  <2>1. CASE admin'[a] = admin[a]
    <3>1. ~Charged /\ \A c \in Admins : ~Finalizes(c)
      BY <2>1 DEF CInv, FailsUncharged, AdminAt, Finalizes, SettlingSteps
    <3> QED
      BY <1>1, <3>1, ChargedNext
  <2>2. CASE admin'[a] # admin[a]
    <3>1. "failed" \in MoveTargets(drop) /\ UNCHANGED bank
      BY <1>2, <2>2
    <3>2. drop.status = "active_collecting"
      BY <1>1, <3>1, LifecycleTable DEF CInv, Launched
    <3> QED
      BY <3>1, <3>2 DEF CInv, ChargedIsPast, Charged
  <2> QED
    BY <2>1, <2>2
<1> QED
  BY <1>1, <1>3, <1>4, <1>5 DEF CInv

(* With one administrator at a time nobody is charged for a failed drop: the *)
(* transition that captures the holds and the one that fails the drop cannot *)
(* both be taken, however late the webhooks' own saves of the status are.    *)
THEOREM FailedIsUncharged ==
  ASSUME \A a, c \in Admins : a = c
  PROVE  Spec => []NoChargeForFailedDrop
<1>1. CInv => NoChargeForFailedDrop
  BY DEF CInv, ChargedIsPast, Charged, NoChargeForFailedDrop
<1>2. CInv /\ [Next]_vars => CInv'
  BY StepCInv
<1> QED
  BY <1>1, <1>2, InitCInv, PTL DEF Spec

-----------------------------------------------------------------------------
(***************************************************************************)
(* Seats and the count.  An order is backed while it holds a seat, once    *)
(* the hold of one of its payments is recorded, and while a webhook that   *)
(* has counted the hold is on its way to record it (Counting).  Only a     *)
(* recorded hold is ever captured, so a charge that is reported seats only *)
(* orders that are backed already.                                         *)
(***************************************************************************)
Counting(h) == hook[h].step \in {"rule", "order", "record"} /\ hook[h].name \in HoldNames
Backed ==
  { o \in Orders :
      \/ o \in Seated
      \/ \E p \in Payments : Counts(p) /\ payment[p].order = o
      \/ \E h \in Hooks : Counting(h) /\ hook[h].order = o }
HeldCounts == \A p \in Payments : payment[p].status = "hold_created" => Counts(p)
QueuesCount ==
  \A a \in Admins : admin[a].step \in {"settle", "settle_payment", "settle_order"} =>
    \A p \in admin[a].queue : Counts(p)
CapturedCounts == \A p \in Payments : bank[p] = "captured" => Counts(p)
BackedAreCounted ==
  IsFiniteSet(Backed) /\ SumOver(Quantity, Backed) <= drop.currentQuantity

HInv == MInv /\ HeldCounts /\ QueuesCount /\ CapturedCounts

-----------------------------------------------------------------------------
(* The recorded holds *)

\* A webhook records a hold.
Records(h, p) == HookRecord(h) /\ hook[h].payment = p /\ hook[h].name \in HoldNames

(* A recorded hold stays recorded; a webhook records one, nothing else does. *)
LEMMA HoldsNext ==
  ASSUME TInv, [Next]_vars, NEW p \in Payments
  PROVE  /\ Counts(p) => Counts(p)'
         /\ Counts(p)' => Counts(p) \/ \E h \in Hooks : Records(h, p)
         /\ payment'[p].status = "hold_created" =>
              payment[p].status = "hold_created" \/ \E h \in Hooks : Records(h, p)
         /\ \A h \in Hooks : Records(h, p) => Counts(p)'
<1> DEFINE Done ==
      /\ Counts(p) => Counts(p)'
      /\ Counts(p)' => Counts(p) \/ \E h \in Hooks : Records(h, p)
      /\ payment'[p].status = "hold_created" =>
           payment[p].status = "hold_created" \/ \E h \in Hooks : Records(h, p)
<1>1. ASSUME payment'[p] = payment[p] PROVE Done
  BY <1>1 DEF Counts
<1>2. ASSUME NEW b \in Buyers, PayStart(b) PROVE Done
  <2>1. PICK o \in Orders, q \in Payments :
          /\ payment[q].status = "absent"
          /\ payment' = [payment EXCEPT ![q] =
               [status |-> "created", order |-> o, linked |-> FALSE, events |-> {}]]
    BY <1>2 DEF PayStart
  <2>2. CASE p # q
    BY <1>1, <2>1, <2>2 DEF TInv, TypeOK
  <2>3. CASE p = q
    <3>1. payment'[p] = [status |-> "created", order |-> o, linked |-> FALSE, events |-> {}]
      BY <2>1, <2>3 DEF TInv, TypeOK
    <3> QED
      BY <2>1, <2>3, <3>1 DEF Counts
  <2> QED
    BY <2>2, <2>3
<1>3. ASSUME NEW q \in Payments, payment[q] \in PaymentDocument,
             \A r \in Payments : r # q => payment'[r] = payment[r],
             payment'[q].events = payment[q].events,
             payment'[q].status \in {payment[q].status, "failed", "cancelled", "finalized"}
      PROVE  Done
  BY <1>1, <1>3 DEF Counts, PaymentDocument
<1>4. ASSUME NEW b \in Buyers,
             PayInvoiceFails(b) \/ PayLink(b) \/ PayFails(b) \/ CancelPayment(b)
      PROVE  Done
  <2> DEFINE q == buyer[b].payment
  <2>1. q \in Payments /\ payment[q] \in PaymentDocument
    BY <1>4, BuyerShapes, CreatedIsDocument
    DEF PayInvoiceFails, PayLink, PayFails, CancelPayment, BuyerAt, TInv, References, BuyerRefs
  <2>2. /\ \A r \in Payments : r # q => payment'[r] = payment[r]
        /\ payment'[q].events = payment[q].events
        /\ payment'[q].status \in {payment[q].status, "failed", "cancelled"}
    BY <1>4, <2>1
    DEF PayInvoiceFails, PayLink, PayFails, CancelPayment, TInv, TypeOK, PaymentDocument
  <2> HIDE DEF q
  <2> QED
    BY <1>3, <2>1, <2>2
<1>5. ASSUME NEW h \in Hooks, HookRecord(h)
      PROVE  Done /\ (Records(h, p) => Counts(p)')
  <2> DEFINE q == hook[h].payment
  <2>1. /\ hook[h].step = "record" /\ q \in Payments /\ payment[q] \in PaymentDocument
        /\ hook[h].name \in EventNames
    BY <1>5, HookShapes, CreatedIsDocument DEF HookRecord, HookAt, TInv, References, HookRefs
  <2>2. /\ \A r \in Payments : r # q => payment'[r] = payment[r]
        /\ payment'[q].events = payment[q].events \cup {hook[h].name}
        /\ payment'[q].status \in {payment[q].status, PaymentStatusFor(hook[h].name)}
    BY <1>5, <2>1 DEF HookRecord, TInv, TypeOK, PaymentDocument
  <2>3. PaymentStatusFor(hook[h].name) # "absent"
    BY <2>1, HoldNamesAssumption DEF PaymentStatusFor, EventNames
  <2>4. CASE p # q
    BY <1>1, <2>2, <2>4 DEF Records
  <2>5. CASE p = q
    <3>1. payment[q].status # "absent" /\ payment'[q].status # "absent"
      BY <2>1, <2>2, <2>3 DEF PaymentDocument
    <3>2. Records(h, p) <=> hook[h].name \in HoldNames
      BY <1>5, <2>5 DEF Records
    <3>3. hook[h].name \notin HoldNames => PaymentStatusFor(hook[h].name) # "hold_created"
      BY <2>1 DEF PaymentStatusFor, EventNames
    <3> QED
      BY <1>5, <2>2, <2>5, <3>1, <3>2, <3>3 DEF Counts
  <2> QED
    BY <2>4, <2>5
<1>6. ASSUME NEW a \in Admins, SettlePayment(a) PROVE Done
  <2> DEFINE q == admin[a].payment
  <2>1. admin[a].step = "settle_payment" /\ q \in Payments /\ payment[q] \in PaymentDocument
    BY <1>6, AdminShapes, CreatedIsDocument
    DEF SettlePayment, AdminAt, TInv, References, AdminRefs
  <2>2. /\ \A r \in Payments : r # q => payment'[r] = payment[r]
        /\ payment'[q].events = payment[q].events
        /\ payment'[q].status \in {"finalized", "cancelled"}
    BY <1>6, <2>1 DEF SettlePayment, TInv, TypeOK, PaymentDocument
  <2> HIDE DEF q
  <2> QED
    BY <1>3, <2>1, <2>2
<1>7. Done
  BY <1>1, <1>2, <1>4, <1>5, <1>6, PaymentActions
<1>8. \A h \in Hooks : Records(h, p) => Counts(p)'
  BY <1>5 DEF Records
<1> QED
  BY <1>7, <1>8

LEMMA HeldCountsKept ==
  ASSUME TInv, HeldCounts, [Next]_vars
  PROVE  HeldCounts'
<1> SUFFICES ASSUME NEW p \in Payments, payment'[p].status = "hold_created"
             PROVE  Counts(p)'
  BY DEF HeldCounts
<1> QED
  BY HoldsNext DEF HeldCounts

(* A loop settles what was held when it was listed. *)
LEMMA QueueNext ==
  ASSUME TInv, NEW a \in Admins, MoveRead(a) \/ AdminContinues(a) \/ AdminFails(a)
  PROVE  /\ \A c \in Admins : c # a => admin'[c] = admin[c]
         /\ admin'[a].step \in {"settle", "settle_payment", "settle_order"} =>
              \/ admin'[a].queue \subseteq ActiveHolds
              \/ /\ admin[a].step \in {"settle", "settle_payment", "settle_order"}
                 /\ admin'[a].queue \subseteq admin[a].queue
<1>1. ASSUME NEW t, Admin(a, t)
      PROVE  admin'[a] = t /\ \A c \in Admins : c # a => admin'[c] = admin[c]
  BY <1>1 DEF Admin, TInv, TypeOK
<1>2. CASE MoveRead(a) \/ AdminFails(a)
  <2>1. PICK t : Admin(a, t) /\ t.step \in {"move", "idle"}
    <3>1. CASE MoveRead(a)
      <4>1. PICK target : Admin(a, [step |-> "move", target |-> target])
        BY <3>1 DEF MoveRead
      <4> QED
        BY <4>1
    <3>2. CASE AdminFails(a)
      BY <3>2 DEF AdminFails, Idle
    <3> QED
      BY <1>2, <3>1, <3>2
  <2> QED
    BY <1>1, <2>1
<1>3. CASE MoveSave(a)
  <2> DEFINE t == CASE admin[a].target \in FinalizingStatuses ->
                         [step |-> "list", action |-> "finalize"]
                    [] admin[a].target \in CancellingStatuses ->
                         [step |-> "list", action |-> "cancel"]
                    [] OTHER -> Idle
  <2>1. Admin(a, t)
    BY <1>3 DEF MoveSave
  <2>2. t.step \in {"list", "idle"}
    BY DEF Idle
  <2> HIDE DEF t
  <2> QED
    BY <1>1, <2>1, <2>2
<1>4. ASSUME NEW action, NEW queue, Admin(a, Settle(action, queue)),
             \/ queue \subseteq ActiveHolds
             \/ /\ admin[a].step \in {"settle", "settle_payment", "settle_order"}
                /\ queue \subseteq admin[a].queue
      PROVE  admin'[a].step \in {"settle", "settle_payment", "settle_order"} =>
              \/ admin'[a].queue \subseteq ActiveHolds
              \/ /\ admin[a].step \in {"settle", "settle_payment", "settle_order"}
                 /\ admin'[a].queue \subseteq admin[a].queue
  BY <1>1, <1>4 DEF Settle, Idle
<1>5. CASE List(a)
  BY <1>1, <1>4, <1>5 DEF List
<1>6. CASE SettleHoldFails(a) \/ SettleOrder(a) \/ SettleSaveFails(a)
  <2>1. admin[a].step \in {"settle", "settle_payment", "settle_order"}
    BY <1>6 DEF SettleHoldFails, SettleOrder, SettleSaveFails, AdminAt
  <2>2. PICK queue \in SUBSET admin[a].queue : Admin(a, Settle(admin[a].action, queue))
    BY <1>6 DEF SettleHoldFails, SettleOrder, SettleSaveFails
  <2> QED
    BY <1>1, <1>4, <2>1, <2>2
<1>7. CASE SettleHold(a)
  <2>1. PICK p \in admin[a].queue :
          Admin(a, [ step |-> "settle_payment", action |-> admin[a].action,
                     queue |-> admin[a].queue \ {p}, payment |-> p ])
    BY <1>7 DEF SettleHold
  <2> QED
    BY <1>1, <1>7, <2>1 DEF SettleHold, AdminAt
<1>8. CASE SettlePayment(a)
  <2> DEFINE t == [admin[a] EXCEPT !.step = "settle_order"]
  <2>1. admin[a].step = "settle_payment" /\ Admin(a, t)
    BY <1>8 DEF SettlePayment, AdminAt
  <2>2. t.queue = admin[a].queue
    BY <2>1, AdminShapes DEF TInv, AdminTask, Idle
  <2> HIDE DEF t
  <2> QED
    BY <1>1, <2>1, <2>2
<1> QED
  BY <1>2, <1>3, <1>5, <1>6, <1>7, <1>8 DEF AdminContinues

LEMMA QueuesCountKept ==
  ASSUME TInv, HeldCounts, QueuesCount, [Next]_vars
  PROVE  QueuesCount'
<1>1. ASSUME NEW a \in Admins, admin[a].step \in {"settle", "settle_payment", "settle_order"}
      PROVE  \A p \in admin[a].queue : p \in Payments /\ Counts(p)'
  BY <1>1, AdminShapes, HoldsNext DEF TInv, QueuesCount
<1>2. CASE UNCHANGED admin
  BY <1>1, <1>2 DEF QueuesCount
<1>3. ASSUME NEW a \in Admins, MoveRead(a) \/ AdminContinues(a) \/ AdminFails(a)
      PROVE  QueuesCount'
  <2>1. \A p \in ActiveHolds : Counts(p)'
    BY HoldsNext DEF ActiveHolds, HeldCounts
  <2>2. /\ \A c \in Admins : c # a => admin'[c] = admin[c]
        /\ admin'[a].step \in {"settle", "settle_payment", "settle_order"} =>
             \/ admin'[a].queue \subseteq ActiveHolds
             \/ /\ admin[a].step \in {"settle", "settle_payment", "settle_order"}
                /\ admin'[a].queue \subseteq admin[a].queue
    BY <1>3, QueueNext
  <2>3. admin'[a].step \in {"settle", "settle_payment", "settle_order"} =>
          \A p \in admin'[a].queue : Counts(p)'
    BY <1>1, <2>1, <2>2
  <2> QED
    BY <1>1, <2>2, <2>3 DEF QueuesCount
<1> QED
  BY <1>2, <1>3, AdminActions

(* Money is captured only by a loop that has the payment on its list. *)
LEMMA CapturedNext ==
  ASSUME TInv, [Next]_vars, NEW p \in Payments, bank'[p] = "captured", bank[p] # "captured"
  PROVE  \E a \in Admins : admin[a].step = "settle" /\ p \in admin[a].queue
<1>1. ASSUME NEW q \in Payments,
             BankHold(q) \/ BankDecline(q) \/ BankExpire(q) \/ BankRelease(q)
      PROVE  FALSE
  BY <1>1 DEF BankHold, BankDecline, BankExpire, BankRelease, TInv, TypeOK
<1>2. ASSUME UNCHANGED external PROVE FALSE
  BY <1>2 DEF external
<1>3. ASSUME NEW b \in Buyers, PayInvoice(b) \/ PayAttach(b) PROVE FALSE
  BY <1>3 DEF PayInvoice, PayAttach, TInv, TypeOK
<1>4. ASSUME NEW b \in Buyers, CancelHold(b) \/ CancelHoldFails(b) PROVE FALSE
  <2>1. buyer[b].payment \in Payments
    BY <1>4, BuyerShapes DEF CancelHold, CancelHoldFails, BuyerAt, TInv
  <2> QED
    BY <1>1, <1>2, <1>4, <2>1 DEF CancelHold, CancelHoldFails
<1>5. ASSUME NEW a \in Admins, SettleHold(a) \/ SettleHoldFails(a)
      PROVE  admin[a].step = "settle" /\ p \in admin[a].queue
  <2>1. admin[a].step = "settle" /\ admin[a].queue \in SUBSET Payments
    BY <1>5, AdminShapes DEF SettleHold, SettleHoldFails, AdminAt, TInv
  <2>2. PICK q \in admin[a].queue : BankCapture(q)
    BY <1>1, <1>2, <1>5, <2>1 DEF SettleHold, SettleHoldFails, BankCall
  <2>3. p = q
    BY <2>1, <2>2 DEF BankCapture, TInv, TypeOK
  <2> QED
    BY <2>1, <2>2, <2>3
<1> QED
  BY <1>1, <1>2, <1>3, <1>4, <1>5, BankActions

LEMMA CapturedCountsKept ==
  ASSUME TInv, QueuesCount, CapturedCounts, [Next]_vars
  PROVE  CapturedCounts'
<1> SUFFICES ASSUME NEW p \in Payments, bank'[p] = "captured"
             PROVE  Counts(p)'
  BY DEF CapturedCounts
<1>1. Counts(p)
  BY CapturedNext DEF CapturedCounts, QueuesCount
<1> QED
  BY <1>1, HoldsNext

LEMMA InitHInv == Init => HInv
<1> SUFFICES ASSUME Init PROVE HInv
  OBVIOUS
<1>1. \A a \in Admins : admin[a].step = "idle"
  BY DEF Init, Idle
<1>2. /\ \A p \in Payments : payment[p].status = "absent" /\ bank[p] = "none"
  BY DEF Init
<1>3. HeldCounts /\ QueuesCount /\ CapturedCounts
  BY <1>1, <1>2 DEF HeldCounts, QueuesCount, CapturedCounts
<1> QED
  BY <1>3, InitMInv DEF HInv

LEMMA StepHInv == HInv /\ [Next]_vars => HInv'
<1> SUFFICES ASSUME HInv, [Next]_vars PROVE HInv'
  OBVIOUS
<1>1. MInv' /\ TInv
  BY StepMInv DEF HInv, MInv
<1>2. HeldCounts' /\ QueuesCount' /\ CapturedCounts'
  BY <1>1, HeldCountsKept, QueuesCountKept, CapturedCountsKept DEF HInv
<1> QED
  BY <1>1, <1>2 DEF HInv

-----------------------------------------------------------------------------
(* What a step counts *)

\* A webhook's update matches the drop.
Takes(h) == HookCount(h) /\ CountFilter(drop, hook[h].size, hook[h].limit)

LEMMA TakesNext ==
  ASSUME TInv, NEW h \in Hooks, Takes(h)
  PROVE  /\ drop'.currentQuantity = drop.currentQuantity + Quantity[hook[h].order]
         /\ hook'[h].step \in {"rule", "order"}
         /\ hook'[h].payment = hook[h].payment /\ hook'[h].order = hook[h].order
         /\ hook'[h].name = hook[h].name
         /\ hook[h].step = "count" /\ hook[h].name \in HoldNames
         /\ hook[h].payment \in Payments /\ hook[h].order \in Orders
         /\ \A g \in Hooks : g # h => hook'[g] = hook[g]
         /\ UNCHANGED << order, payment >>
<1>1. /\ hook[h].order \in Orders /\ hook[h].size \in Sizes
      /\ hook[h].step = "count" /\ hook[h].name \in HoldNames /\ hook[h].payment \in Payments
  BY HookShapes DEF Takes, HookCount, HookAt, TInv
<1>2. Quantity[hook[h].order] \in Nat
  BY <1>1, QuantityAssumption
<1>3. drop'.currentQuantity = drop.currentQuantity + Quantity[hook[h].order]
  BY <1>1, <1>2, CountedDrop DEF Takes, HookCount, TInv, TypeOK
<1>4. PICK t : /\ Hook(h, t)
               /\ \/ \E s : t = [step |-> "rule", payment |-> hook[h].payment,
                                 name |-> hook[h].name, order |-> hook[h].order,
                                 loaded |-> hook[h].loaded, status |-> s]
                  \/ t = Request(hook[h], "order")
  BY DEF Takes, HookCount
<1>5. /\ t.step \in {"rule", "order"} /\ t.payment = hook[h].payment
      /\ t.order = hook[h].order /\ t.name = hook[h].name
  BY <1>4 DEF Request
<1>6. hook'[h] = t /\ \A g \in Hooks : g # h => hook'[g] = hook[g]
  BY <1>4 DEF Hook, TInv, TypeOK
<1> QED
  BY <1>1, <1>3, <1>5, <1>6 DEF Takes, HookCount

LEMMA NothingTaken ==
  ASSUME TInv, [Next]_vars, \A h \in Hooks : ~Takes(h)
  PROVE  drop'.currentQuantity = drop.currentQuantity
<1>1. ASSUME NEW h \in Hooks, HookCount(h)
      PROVE  UNCHANGED drop
  BY <1>1 DEF Takes, HookCount
<1>2. ASSUME NEW h \in Hooks, HookRule(h)
      PROVE  drop'.currentQuantity = drop.currentQuantity
  BY <1>2 DEF HookRule, TInv, TypeOK, Drop
<1>3. ASSUME NEW a \in Admins, MoveSave(a)
      PROVE  drop'.currentQuantity = drop.currentQuantity
  BY <1>3 DEF MoveSave, TInv, TypeOK, Drop
<1>4. ASSUME NEW h \in Hooks,
             HookStart(h) \/ HookRead(h) \/ HookOrder(h) \/ HookRecord(h) \/ HookFails(h)
      PROVE  UNCHANGED drop
  BY <1>4 DEF HookStart, HookRead, HookOrder, HookRecord, HookFails, stored
<1>5. CASE UNCHANGED vars
  BY <1>5 DEF vars, stored
<1> QED
  BY <1>1, <1>2, <1>3, <1>4, <1>5, DropAlone DEF Next, HookContinues

(* A webhook comes to be counting by counting, by a hold that is recorded *)
(* already, or has been counting; and it stays so until it has recorded.  *)
LEMMA CountingNext ==
  ASSUME TInv, HeldCounts, [Next]_vars, NEW h \in Hooks
  PROVE  /\ Counting(h)' =>
              \/ Takes(h)
              \/ /\ Counting(h)
                 /\ hook'[h].payment = hook[h].payment /\ hook'[h].order = hook[h].order
              \/ /\ hook'[h].payment \in Payments /\ Counts(hook'[h].payment)
                 /\ hook'[h].order = payment[hook'[h].payment].order
         /\ Counting(h) =>
              \/ Counting(h)' /\ hook'[h].payment = hook[h].payment
              \/ Records(h, hook[h].payment)
              \/ CanFail
<1> DEFINE Done ==
      /\ Counting(h)' =>
           \/ Takes(h)
           \/ /\ Counting(h)
              /\ hook'[h].payment = hook[h].payment /\ hook'[h].order = hook[h].order
           \/ /\ hook'[h].payment \in Payments /\ Counts(hook'[h].payment)
              /\ hook'[h].order = payment[hook'[h].payment].order
      /\ Counting(h) =>
           \/ Counting(h)' /\ hook'[h].payment = hook[h].payment
           \/ Records(h, hook[h].payment)
           \/ CanFail
<1>1. ASSUME hook'[h] = hook[h] PROVE Done
  BY <1>1 DEF Counting
<1>2. ASSUME NEW g \in Hooks, HookStart(g) \/ HookContinues(g) \/ HookFails(g), g # h
      PROVE  hook'[h] = hook[h]
  <2>1. PICK t : Hook(g, t)
    BY <1>2, HookNext
  <2> QED
    BY <1>2, <2>1 DEF Hook, TInv, TypeOK
<1>3. ASSUME NEW t, Hook(h, t) PROVE hook'[h] = t
  BY <1>3 DEF Hook, TInv, TypeOK
<1>4. CASE HookStart(h)
  <2>1. hook[h].step = "idle"
    BY <1>4 DEF HookStart, HookAt
  <2>2. PICK m \in sent, s \in {"order", "record", "read"} :
          /\ Hook(h, [step |-> s, payment |-> m.payment, name |-> m.name,
                      order |-> payment[m.payment].order, loaded |-> payment[m.payment].status])
          /\ s = "order" => m.name \notin HoldNames
          /\ s = "record" => payment[m.payment].status = "hold_created"
    BY <1>4 DEF HookStart
  <2>3. m.payment \in Payments
    BY DEF TInv, TypeOK, Messages
  <2>4. s = "record" => Counts(m.payment)
    BY <2>2, <2>3 DEF HeldCounts
  <2>5. hook'[h] = [step |-> s, payment |-> m.payment, name |-> m.name,
                    order |-> payment[m.payment].order, loaded |-> payment[m.payment].status]
    BY <1>3, <2>2
  <2> QED
    BY <2>1, <2>2, <2>3, <2>4, <2>5 DEF Counting
<1>5. CASE HookRead(h)
  <2>1. PICK t : Hook(h, t) /\ t.step \in {"count", "idle"}
    BY <1>5 DEF HookRead, Idle
  <2>2. hook'[h].step \in {"count", "idle"}
    BY <1>3, <2>1
  <2> QED
    BY <1>5, <2>2 DEF Counting, HookRead, HookAt
<1>6. CASE HookCount(h)
  <2>1. hook[h].step = "count"
    BY <1>6 DEF HookCount, HookAt
  <2>2. CASE Takes(h)
    BY <2>1, <2>2 DEF Counting
  <2>3. CASE ~Takes(h)
    <3>1. hook'[h] = Idle
      BY <1>3, <1>6, <2>3 DEF Takes, HookCount
    <3> QED
      BY <2>1, <3>1 DEF Counting, Idle
  <2> QED
    BY <2>2, <2>3
<1>7. CASE HookRule(h) \/ HookOrder(h)
  <2>1. PICK s \in {"order", "record"} : Hook(h, Request(hook[h], s))
    BY <1>7 DEF HookRule, HookOrder
  <2>2. hook'[h] = Request(hook[h], s)
    BY <1>3, <2>1
  <2>3. hook[h].step \in {"rule", "order"}
    BY <1>7 DEF HookRule, HookOrder, HookAt
  <2> QED
    BY <2>1, <2>2, <2>3 DEF Counting, Request
<1>8. CASE HookRecord(h)
  <2>1. hook'[h] = Idle
    BY <1>3, <1>8 DEF HookRecord
  <2> QED
    BY <1>8, <2>1 DEF Counting, Idle, Records
<1>9. CASE HookFails(h)
  <2>1. hook'[h] = Idle /\ CanFail
    BY <1>3, <1>9 DEF HookFails
  <2> QED
    BY <2>1 DEF Counting, Idle
<1>10. CASE UNCHANGED hook
  BY <1>1, <1>10
<1>11. Done
  BY <1>1, <1>2, <1>4, <1>5, <1>6, <1>7, <1>8, <1>9, <1>10, HookActions DEF HookContinues
<1> QED
  BY <1>11 DEF Done

-----------------------------------------------------------------------------
(* Every seat is counted *)

(* An order becomes backed by being counted. *)
LEMMA BackedNext ==
  ASSUME HInv, [Next]_vars, NEW o \in Orders, o \in Backed'
  PROVE  o \in Backed \/ \E h \in Hooks : Takes(h) /\ hook[h].order = o
<1> USE DEF HInv, MInv
<1>1. ASSUME NEW p \in Payments, Counts(p), payment[p].order = o PROVE o \in Backed
  BY <1>1 DEF Backed
<1>2. ASSUME NEW h \in Hooks, Counting(h), hook[h].order = o PROVE o \in Backed
  BY <1>2 DEF Backed
<1>3. CASE o \in Seated'
  <2>1. order'[o].status \in {"reserved", "paid"}
    BY <1>3 DEF Seated
  <2>2. CASE order'[o].status \in {order[o].status, "pending_payment", "cancelled"}
    BY <2>1, <2>2 DEF Backed, Seated
  <2>3. ASSUME NEW h \in Hooks, hook[h].step = "order", hook[h].order = o,
               order'[o].status = OrderStatusFor(hook[h].name)
        PROVE  o \in Backed
    <3>1. /\ hook[h].name \in EventNames /\ hook[h].payment \in Payments
          /\ payment[hook[h].payment].order = o
          /\ Reported(hook[h].payment, hook[h].name)
      BY <2>3, HookShapes DEF TInv, HookFaithful
    <3>2. CASE hook[h].name \in HoldNames
      BY <1>2, <2>3, <3>2 DEF Counting
    <3>3. CASE hook[h].name \notin HoldNames
      <4>1. hook[h].name = "finalized"
        BY <2>1, <2>3, <3>1, <3>3 DEF OrderStatusFor, EventNames
      <4> QED
        BY <1>1, <3>1, <4>1 DEF ReportedCaptured, CapturedCounts
    <3> QED
      BY <3>2, <3>3
  <2>4. ASSUME NEW a \in Admins, admin[a].step = "settle_order",
               admin[a].action = "finalize", payment[admin[a].payment].order = o
        PROVE  o \in Backed
    <3>1. admin[a].payment \in Payments /\ bank[admin[a].payment] = "captured"
      BY <2>4, AdminShapes DEF TInv, SettledCaptured
    <3> QED
      BY <1>1, <2>4, <3>1 DEF CapturedCounts
  <2> QED
    BY <2>2, <2>3, <2>4, OrderNext
<1>4. ASSUME NEW p \in Payments, Counts(p)', payment'[p].order = o PROVE o \in Backed
  <2>1. CASE Counts(p)
    <3>1. p \in Created
      BY <2>1 DEF Counts, Created
    <3> QED
      BY <1>1, <1>4, <2>1, <3>1, DocumentsKept
  <2>2. ASSUME NEW h \in Hooks, Records(h, p) PROVE o \in Backed
    <3>1. hook[h].step = "record" /\ hook[h].payment = p /\ hook[h].name \in HoldNames
      BY <2>2 DEF Records, HookRecord, HookAt
    <3>2. p \in Created /\ payment[p].order = hook[h].order
      BY <3>1 DEF TInv, References, HookRefs, HookFaithful
    <3>3. hook[h].order = o
      BY <1>4, <3>2, DocumentsKept
    <3> QED
      BY <1>2, <3>1, <3>3 DEF Counting
  <2> QED
    BY <1>4, <2>1, <2>2, HoldsNext
<1>5. ASSUME NEW h \in Hooks, Counting(h)', hook'[h].order = o
      PROVE  o \in Backed \/ (Takes(h) /\ hook[h].order = o)
  <2>1. CASE Takes(h)
    BY <1>5, <2>1, TakesNext
  <2>2. CASE Counting(h) /\ hook'[h].order = hook[h].order
    BY <1>2, <1>5, <2>2
  <2>3. CASE /\ hook'[h].payment \in Payments /\ Counts(hook'[h].payment)
             /\ hook'[h].order = payment[hook'[h].payment].order
    BY <1>1, <1>5, <2>3
  <2>4. TInv /\ HeldCounts
    OBVIOUS
  <2>5. \/ Takes(h)
        \/ /\ Counting(h)
           /\ hook'[h].payment = hook[h].payment /\ hook'[h].order = hook[h].order
        \/ /\ hook'[h].payment \in Payments /\ Counts(hook'[h].payment)
           /\ hook'[h].order = payment[hook'[h].payment].order
    BY <1>5, <2>4, CountingNext
  <2> QED
    BY <2>1, <2>2, <2>3, <2>5
<1>6. \/ o \in Seated'
      \/ \E p \in Payments : Counts(p)' /\ payment'[p].order = o
      \/ \E h \in Hooks : Counting(h)' /\ hook'[h].order = o
  BY DEF Backed
<1> QED
  BY <1>3, <1>4, <1>5, <1>6

LEMMA OrdersBacked == Backed \subseteq Orders
BY DEF Backed

LEMMA QuantitiesAdd ==
  ASSUME NEW S \in SUBSET Orders, IsFiniteSet(S), NEW T \in SUBSET S
  PROVE  /\ IsFiniteSet(T)
         /\ SumOver(Quantity, T) \in Nat /\ SumOver(Quantity, S) \in Nat
         /\ SumOver(Quantity, T) <= SumOver(Quantity, S)
<1>1. \A o \in S : Quantity[o] \in Nat /\ Quantity[o] \in Int
  BY QuantityAssumption
<1>2. IsFiniteSet(T)
  BY FS_Subset
<1> QED
  BY <1>1, <1>2, SumType, SumGrows

LEMMA BackedAreCountedKept ==
  ASSUME HInv, BackedAreCounted, [Next]_vars
  PROVE  BackedAreCounted'
<1> DEFINE n == drop.currentQuantity
<1>1. TInv /\ n \in Nat
  BY DEF HInv, MInv, TInv, TypeOK, Drop
<1>2. Backed \subseteq Orders /\ Backed' \subseteq Orders
  BY OrdersBacked DEF Backed
<1>3. IsFiniteSet(Backed) /\ SumOver(Quantity, Backed) <= n
  BY DEF BackedAreCounted
<1> SUFFICES IsFiniteSet(Backed') /\ SumOver(Quantity, Backed') <= drop'.currentQuantity
  BY DEF BackedAreCounted
<1> PICK A, B : A = Backed /\ B = Backed'
  OBVIOUS
<1>4. CASE \A h \in Hooks : ~Takes(h)
  <2>1. drop'.currentQuantity = n
    BY <1>1, <1>4, NothingTaken
  <2>2. B \subseteq A
    BY <1>2, <1>4, BackedNext
  <2>3. IsFiniteSet(B) /\ SumOver(Quantity, B) <= SumOver(Quantity, A)
        /\ SumOver(Quantity, A) \in Nat /\ SumOver(Quantity, B) \in Nat
    BY <1>2, <1>3, <2>2, QuantitiesAdd
  <2> QED
    BY <1>1, <1>3, <2>1, <2>3
<1>5. ASSUME NEW h \in Hooks, Takes(h) PROVE IsFiniteSet(B) /\ SumOver(Quantity, B) <= drop'.currentQuantity
  <2> PICK o : o = hook[h].order
    OBVIOUS
  <2>1. o \in Orders /\ drop'.currentQuantity = n + Quantity[o]
    BY <1>1, <1>5, TakesNext
  <2>2. Quantity[o] \in Nat
    BY <2>1, QuantityAssumption
  <2>3. B \subseteq A \cup {o}
    <3>1. ASSUME NEW g \in Hooks, Takes(g) PROVE g = h
      <4>1. hook'[g].step \in {"rule", "order"} /\ hook[g].step = "count"
        BY <1>1, <3>1, TakesNext
      <4> QED
        BY <1>1, <1>5, <4>1, TakesNext
    <3> QED
      BY <1>2, <3>1, BackedNext
  <2>4. IsFiniteSet(A \cup {o})
    BY <1>3, FS_AddElement
  <2>5. SumOver(Quantity, A \cup {o}) <= SumOver(Quantity, A) + Quantity[o]
    <3>1. SumOver(Quantity, A) \in Nat
      BY <1>2, <1>3, QuantitiesAdd
    <3>2. CASE o \in A
      <4>1. PICK C : C = A \cup {o}
        OBVIOUS
      <4>2. C = A
        BY <3>2, <4>1
      <4>3. SumOver(Quantity, C) <= SumOver(Quantity, A) + Quantity[o]
        BY <2>2, <3>1, <4>2
      <4> QED
        BY <4>1, <4>3
    <3>3. CASE o \notin A
      <4>1. \A x \in A \cup {o} : Quantity[x] \in Int
        BY <1>2, <2>1, QuantityAssumption
      <4>2. SumOver(Quantity, A \cup {o}) = SumOver(Quantity, A) + Quantity[o]
        BY <1>3, <3>3, <4>1, SumAdds
      <4> QED
        BY <2>2, <3>1, <4>2
    <3> QED
      BY <3>2, <3>3
  <2>6. A \cup {o} \subseteq Orders
    BY <1>2, <2>1
  <2>7. /\ IsFiniteSet(B) /\ SumOver(Quantity, B) \in Nat
        /\ SumOver(Quantity, A \cup {o}) \in Nat
        /\ SumOver(Quantity, B) <= SumOver(Quantity, A \cup {o})
    BY <2>3, <2>4, <2>6, QuantitiesAdd
  <2>8. SumOver(Quantity, A) \in Nat
    BY <1>2, <1>3, QuantitiesAdd
  <2> QED
    BY <1>1, <1>3, <2>1, <2>2, <2>5, <2>7, <2>8
<1> QED
  BY <1>4, <1>5

LEMMA SeatedAreBacked ==
  ASSUME HInv, BackedAreCounted
  PROVE  SeatsAreCounted
<1>1. Seated \subseteq Backed /\ Backed \subseteq Orders
  BY DEF Backed, Seated
<1>2. Total(Seated) = SumOver(Quantity, Seated)
  BY DEF Total, SumOver
<1>3. drop.currentQuantity \in Nat
  BY DEF HInv, MInv, TInv, TypeOK, Drop
<1>4. IsFiniteSet(Backed) /\ SumOver(Quantity, Backed) <= drop.currentQuantity
  BY DEF BackedAreCounted
<1>5. PICK A, B : A = Backed /\ B = Seated
  OBVIOUS
<1>6. /\ SumOver(Quantity, B) \in Nat /\ SumOver(Quantity, A) \in Nat
      /\ SumOver(Quantity, B) <= SumOver(Quantity, A)
  BY <1>1, <1>4, <1>5, QuantitiesAdd
<1> QED
  BY <1>2, <1>3, <1>4, <1>5, <1>6 DEF SeatsAreCounted

(* Every order that holds a seat is in the drop's count, whatever webhooks  *)
(* overlap, are delivered again or out of order, whatever is cancelled and  *)
(* charged meanwhile and whichever call fails: no handler seats an order    *)
(* whose hold was not counted first.                                        *)
THEOREM SeatsCounted == Spec => []SeatsAreCounted
<1>1. Init => BackedAreCounted
  <2> SUFFICES ASSUME Init PROVE BackedAreCounted
    OBVIOUS
  <2>1. Backed = {}
    BY DEF Init, Backed, Seated, Counts, Counting, Idle
  <2>2. drop.currentQuantity = 0
    BY DEF Init
  <2> QED
    BY <2>1, <2>2, SumEmpty, FS_EmptySet DEF BackedAreCounted
<1>2. HInv /\ BackedAreCounted /\ [Next]_vars => HInv' /\ BackedAreCounted'
  BY StepHInv, BackedAreCountedKept
<1>3. HInv /\ BackedAreCounted => SeatsAreCounted
  BY SeatedAreBacked
<1> QED
  BY <1>1, <1>2, <1>3, InitHInv, PTL DEF Spec

-----------------------------------------------------------------------------
(***************************************************************************)
(* The count is that of the holds.  A hold is known once it is recorded or *)
(* a webhook that counted it is about to record it; with one webhook at a  *)
(* time, what is about to be counted is not known while the bank keeps the *)
(* money (Fresh), a report is recorded once (Unrecorded), and without      *)
(* failing calls what was counted gets known.                              *)
(***************************************************************************)
CountingFor(p) == \E h \in Hooks : Counting(h) /\ hook[h].payment = p
Known == { p \in Payments : Counts(p) \/ CountingFor(p) }
KnownQuantity == [p \in Known |-> Quantity[payment[p].order]]

Recorded(p) == payment[p].events \cap HoldNames
Times(p) ==
  IF bank[p] = "held" THEN 1
  ELSE Cardinality(Recorded(p)) + (IF CountingFor(p) THEN 1 ELSE 0)
KnownTimes == [p \in Known |-> Quantity[payment[p].order] * Times(p)]

Fresh ==
  \A h \in Hooks : hook[h].step \in {"read", "count"} /\ bank[hook[h].payment] = "held" =>
    hook[h].payment \notin Known
Unrecorded ==
  \A h \in Hooks : hook[h].step # "idle" =>
    hook[h].name \notin payment[hook[h].payment].events
KnownIsCounted ==
  /\ IsFiniteSet(Known)
  /\ SumOver(KnownQuantity, Known) <= drop.currentQuantity
  /\ drop.currentQuantity <= SumOver(KnownTimes, Known)

(***************************************************************************)
(* While the bank keeps the money, the payment of a recorded hold says so: *)
(* what would end it (another webhook, a cancel, the settlement) follows   *)
(* the bank, which never takes an ended invoice back.                      *)
(***************************************************************************)
Decided(p) == bank[p] \notin {"none", "invoiced", "offered"}
Ended(p) == Decided(p) /\ bank[p] # "held"
SentAreDecided ==
  \A m \in sent : Decided(m.payment) /\ (m.name \notin HoldNames => Ended(m.payment))
CancelledAreEnded ==
  \A b \in Buyers : buyer[b].step = "cancel_payment" => Ended(buyer[b].payment)
SettledAreEnded ==
  \A a \in Admins : admin[a].step = "settle_payment" => Ended(admin[a].payment)
LoadedCounts ==
  \A h \in Hooks : hook[h].step # "idle" /\ hook[h].loaded = "hold_created" =>
    Counts(hook[h].payment)
KeptIsHeld ==
  \A p \in Payments : Counts(p) =>
    Decided(p) /\ (bank[p] = "held" => payment[p].status = "hold_created")

EInv ==
  /\ HInv /\ SentAreDecided /\ CancelledAreEnded /\ SettledAreEnded /\ LoadedCounts
  /\ KeptIsHeld

(* An invoice that is decided stays decided, one that has ended, ended. *)
LEMMA EndedStays ==
  ASSUME TInv, InvoiceOnce, [Next]_vars
  PROVE  \A p \in Payments : /\ Decided(p) => Decided(p)'
                             /\ Ended(p) => Ended(p)'
<1> DEFINE Stays == \A q \in Payments : (Decided(q) => Decided(q)') /\ (Ended(q) => Ended(q)')
<1>1. ASSUME NEW p \in Payments,
             BankHold(p) \/ BankDecline(p) \/ BankExpire(p) \/ BankCapture(p) \/ BankRelease(p)
      PROVE  Stays
  BY <1>1 DEF BankHold, BankDecline, BankExpire, BankCapture, BankRelease, TInv, TypeOK,
     Decided, Ended
<1>2. CASE UNCHANGED external
  BY <1>2 DEF external, Decided, Ended
<1>3. ASSUME NEW b \in Buyers, PayInvoice(b) PROVE Stays
  BY <1>3 DEF PayInvoice, InvoiceOnce, TInv, TypeOK, Decided, Ended
<1>4. ASSUME NEW b \in Buyers, PayAttach(b) PROVE Stays
  BY <1>4 DEF PayAttach, TInv, TypeOK, Decided, Ended
<1>5. ASSUME NEW b \in Buyers, CancelHold(b) \/ CancelHoldFails(b) PROVE Stays
  <2>1. PICK p : p = buyer[b].payment
    OBVIOUS
  <2>2. p \in Payments
    BY <1>5, <2>1, BuyerShapes DEF CancelHold, CancelHoldFails, BuyerAt, TInv
  <2>3. BankRelease(p) \/ UNCHANGED external
    BY <1>5, <2>1 DEF CancelHold, CancelHoldFails, BankRelease
  <2> QED
    BY <1>1, <1>2, <2>2, <2>3
<1>6. ASSUME NEW a \in Admins, SettleHold(a) \/ SettleHoldFails(a) PROVE Stays
  <2>1. PICK p \in admin[a].queue : BankCapture(p) \/ BankRelease(p) \/ UNCHANGED external
    BY <1>6 DEF SettleHold, SettleHoldFails, BankCall
  <2>2. p \in Payments
    BY <1>6, <2>1, AdminShapes DEF SettleHold, SettleHoldFails, AdminAt, TInv
  <2> QED
    BY <1>1, <1>2, <2>1, <2>2
<1> QED
  BY <1>1, <1>2, <1>3, <1>4, <1>5, <1>6, BankActions

LEMMA SentAreDecidedKept ==
  ASSUME TInv, InvoiceOnce, SentAreDecided, [Next]_vars
  PROVE  SentAreDecided'
<1> SUFFICES ASSUME NEW m \in sent'
             PROVE  Decided(m.payment)' /\ (m.name \notin HoldNames => Ended(m.payment)')
  BY DEF SentAreDecided
<1> DEFINE Done == Decided(m.payment)' /\ (m.name \notin HoldNames => Ended(m.payment)')
<1>1. CASE m \in sent
  <2>1. m.payment \in Payments
    BY <1>1 DEF TInv, TypeOK, Messages
  <2> QED
    BY <1>1, <2>1, EndedStays DEF SentAreDecided
<1>2. CASE m \notin sent
  <2>1. ASSUME NEW q \in Payments,
               BankHold(q) \/ BankDecline(q) \/ BankExpire(q) \/ BankCapture(q) \/ BankRelease(q)
        PROVE  Done
    <3>1. CASE BankHold(q)
      <4>1. PICK n \in HoldNames : m = [payment |-> q, name |-> n]
        BY <1>2, <3>1 DEF BankHold
      <4> QED
        BY <3>1, <4>1 DEF BankHold, TInv, TypeOK, Decided
    <3>2. CASE BankDecline(q) \/ BankExpire(q) \/ BankCapture(q) \/ BankRelease(q)
      <4>1. m.payment = q
        BY <1>2, <3>2 DEF BankDecline, BankExpire, BankCapture, BankRelease
      <4>2. bank'[q] \in {"declined", "expired", "captured", "released"}
        BY <3>2 DEF BankDecline, BankExpire, BankCapture, BankRelease, TInv, TypeOK
      <4> QED
        BY <4>1, <4>2 DEF Decided, Ended
    <3> QED
      BY <2>1, <3>1, <3>2
  <2>2. ~UNCHANGED sent
    BY <1>2
  <2>3. ASSUME NEW b \in Buyers, CancelHold(b) \/ CancelHoldFails(b) PROVE Done
    <3>1. PICK p : p = buyer[b].payment
      OBVIOUS
    <3>2. p \in Payments
      BY <2>3, <3>1, BuyerShapes DEF CancelHold, CancelHoldFails, BuyerAt, TInv
    <3>3. BankRelease(p) \/ UNCHANGED sent
      BY <2>3, <3>1 DEF CancelHold, CancelHoldFails, BankRelease, external
    <3> QED
      BY <2>1, <2>2, <3>2, <3>3
  <2>4. ASSUME NEW a \in Admins, SettleHold(a) \/ SettleHoldFails(a) PROVE Done
    <3>1. PICK p \in admin[a].queue : BankCapture(p) \/ BankRelease(p) \/ UNCHANGED sent
      BY <2>4 DEF SettleHold, SettleHoldFails, BankCall, external
    <3>2. p \in Payments
      BY <2>4, <3>1, AdminShapes DEF SettleHold, SettleHoldFails, AdminAt, TInv
    <3> QED
      BY <2>1, <2>2, <3>1, <3>2
  <2>5. ASSUME NEW b \in Buyers, PayInvoice(b) \/ PayAttach(b) PROVE FALSE
    BY <2>2, <2>5 DEF PayInvoice, PayAttach
  <2>6. Done
    BY <2>1, <2>2, <2>3, <2>4, <2>5, BankActions DEF external
  <2> QED
    BY <2>6 DEF Done
<1> QED
  BY <1>1, <1>2

(* A buyer's request saves a payment as cancelled after the bank's release. *)
LEMMA CancelledAreEndedKept ==
  ASSUME TInv, InvoiceOnce, CancelledAreEnded, [Next]_vars
  PROVE  CancelledAreEnded'
<1> DEFINE Open == {"none", "invoiced", "offered", "held"}
<1>1. ASSUME NEW b \in Buyers, buyer[b].step = "cancel_payment"
      PROVE  bank'[buyer[b].payment] \notin Open
  <2>1. PICK p : p = buyer[b].payment
    OBVIOUS
  <2>2. p \in Payments /\ Ended(p)
    BY <1>1, <2>1, BuyerShapes DEF CancelledAreEnded, TInv, Ended, Decided
  <2>3. Ended(p)'
    BY <2>2, EndedStays
  <2> QED
    BY <2>1, <2>3 DEF Ended, Decided
<1> SUFFICES ASSUME NEW b \in Buyers, buyer'[b].step = "cancel_payment"
             PROVE  bank'[buyer'[b].payment] \notin Open
  BY DEF CancelledAreEnded, Ended, Decided
<1>2. CASE buyer'[b] = buyer[b]
  BY <1>1, <1>2
<1>3. CASE CancelHold(b)
  <2> DEFINE t == [buyer[b] EXCEPT !.step = "cancel_payment"]
  <2>1. buyer[b].step = "cancel_hold" /\ buyer[b].payment \in Payments
    BY <1>3, BuyerShapes DEF CancelHold, BuyerAt, TInv
  <2>2. t.payment = buyer[b].payment
    BY <2>1, BuyerShapes DEF TInv, BuyerTask, Idle
  <2>3. buyer'[b] = t
    BY <1>3 DEF CancelHold, Buyer, TInv, TypeOK
  <2>4. bank'[buyer[b].payment] = "released"
    BY <1>3, <2>1 DEF CancelHold, BankRelease, TInv, TypeOK
  <2> QED
    BY <2>2, <2>3, <2>4
<1>4. ASSUME NEW t, Buyer(b, t), t.step # "cancel_payment" PROVE FALSE
  BY <1>4 DEF Buyer, TInv, TypeOK
<1>5. CASE PayStart(b) \/ CancelRead(b) \/ ResizeRead(b)
  BY <1>4, <1>5 DEF PayStart, CancelRead, ResizeRead
<1>6. CASE PayInvoice(b) \/ PayLink(b) \/ CancelFind(b) \/ CancelPayment(b)
  <2>1. PICK s \in {"link", "attach", "cancel_hold", "cancel_order"} :
          Buyer(b, [buyer[b] EXCEPT !.step = s])
    BY <1>6 DEF PayInvoice, PayLink, CancelFind, CancelPayment
  <2>2. buyer[b].step \in {"invoice", "link", "cancel_find", "cancel_payment"}
    BY <1>6 DEF PayInvoice, PayLink, CancelFind, CancelPayment, BuyerAt
  <2> DEFINE t == [buyer[b] EXCEPT !.step = s]
  <2>3. t.step # "cancel_payment"
    BY <2>1, <2>2, BuyerShapes DEF TInv, BuyerTask, Idle
  <2>4. Buyer(b, t)
    BY <2>1
  <2> HIDE DEF t
  <2> QED
    BY <1>4, <2>3, <2>4
<1>7. CASE PayInvoiceFails(b) \/ PayAttach(b) \/ PayFails(b) \/ CancelHoldFails(b)
             \/ CancelOrder(b) \/ ResizeSave(b) \/ BuyerFails(b)
  BY <1>4, <1>7 DEF PayInvoiceFails, PayAttach, PayFails, CancelHoldFails, CancelOrder,
     ResizeSave, BuyerFails, Idle
<1>8. ASSUME NEW c \in Buyers, BuyerStarts(c) \/ BuyerContinues(c) \/ BuyerFails(c), c # b
      PROVE  buyer'[b] = buyer[b]
  BY <1>8, BuyerNext
<1> QED
  BY <1>2, <1>3, <1>5, <1>6, <1>7, <1>8, BuyerActions DEF BuyerStarts, BuyerContinues

(* The settlement saves a payment after the bank's call. *)
LEMMA SettledAreEndedKept ==
  ASSUME TInv, InvoiceOnce, SettledAreEnded, [Next]_vars
  PROVE  SettledAreEnded'
<1> SUFFICES ASSUME NEW a \in Admins, admin'[a].step = "settle_payment"
             PROVE  bank'[admin'[a].payment] \notin {"none", "invoiced", "offered", "held"}
  BY DEF SettledAreEnded, Ended, Decided
<1>1. CASE admin'[a] = admin[a]
  <2>1. PICK p : p = admin[a].payment
    OBVIOUS
  <2>2. p \in Payments /\ Ended(p)
    BY <1>1, <2>1, AdminShapes DEF SettledAreEnded, TInv, Ended, Decided
  <2>3. Ended(p)'
    BY <2>2, EndedStays
  <2> QED
    BY <1>1, <2>1, <2>3 DEF Ended, Decided
<1>2. CASE SettleHold(a)
  <2>1. PICK p \in admin[a].queue :
          /\ BankCall(admin[a].action, p)
          /\ Admin(a, [ step |-> "settle_payment", action |-> admin[a].action,
                        queue |-> admin[a].queue \ {p}, payment |-> p ])
    BY <1>2 DEF SettleHold
  <2>2. p \in Payments
    BY <1>2, AdminShapes DEF SettleHold, AdminAt, TInv
  <2>3. admin'[a].payment = p
    BY <2>1 DEF Admin, TInv, TypeOK
  <2>4. bank'[p] \in {"captured", "released"}
    BY <2>1, <2>2 DEF BankCall, BankCapture, BankRelease, TInv, TypeOK
  <2> QED
    BY <2>3, <2>4
<1>3. ASSUME NEW t, Admin(a, t), t.step # "settle_payment" PROVE FALSE
  BY <1>3 DEF Admin, TInv, TypeOK
<1>4. CASE MoveRead(a) \/ List(a) \/ SettleOrder(a) \/ SettleHoldFails(a)
             \/ SettleSaveFails(a) \/ AdminFails(a)
  <2>1. \A action, queue : Settle(action, queue).step \in {"idle", "settle"}
    BY DEF Settle, Idle
  <2>2. \/ \E action, queue : Admin(a, Settle(action, queue))
        \/ Admin(a, Idle)
        \/ \E target : Admin(a, [step |-> "move", target |-> target])
    BY <1>4 DEF MoveRead, List, SettleOrder, SettleHoldFails, SettleSaveFails, AdminFails
  <2>3. \A target : [step |-> "move", target |-> target].step = "move"
    OBVIOUS
  <2>4. Idle.step = "idle"
    BY DEF Idle
  <2>5. \E t : Admin(a, t) /\ t.step \in {"idle", "settle", "move"}
    BY <2>1, <2>2, <2>3, <2>4, Zenon
  <2> QED
    BY <1>3, <2>5
<1>5. CASE MoveSave(a)
  <2> DEFINE t == CASE admin[a].target \in FinalizingStatuses ->
                         [step |-> "list", action |-> "finalize"]
                    [] admin[a].target \in CancellingStatuses ->
                         [step |-> "list", action |-> "cancel"]
                    [] OTHER -> Idle
  <2>1. Admin(a, t)
    BY <1>5 DEF MoveSave
  <2>2. t.step # "settle_payment"
    BY DEF Idle
  <2> HIDE DEF t
  <2> QED
    BY <1>3, <2>1, <2>2
<1>6. CASE SettlePayment(a)
  <2> DEFINE t == [admin[a] EXCEPT !.step = "settle_order"]
  <2>1. admin[a].step = "settle_payment" /\ Admin(a, t)
    BY <1>6 DEF SettlePayment, AdminAt
  <2>2. t.step # "settle_payment"
    BY <2>1, AdminShapes DEF TInv, AdminTask, Idle
  <2> HIDE DEF t
  <2> QED
    BY <1>3, <2>1, <2>2
<1>7. ASSUME NEW c \in Admins, MoveRead(c) \/ AdminContinues(c) \/ AdminFails(c), c # a
      PROVE  admin'[a] = admin[a]
  <2>1. PICK t : Admin(c, t)
    BY <1>7, AdminNext
  <2> QED
    BY <1>7, <2>1 DEF Admin, TInv, TypeOK
<1> QED
  BY <1>1, <1>2, <1>4, <1>5, <1>6, <1>7, AdminActions DEF AdminContinues

(* A webhook starts with what it finds in the payment, and keeps it. *)
LEMMA HookKeeps ==
  ASSUME TInv, [Next]_vars, NEW h \in Hooks, hook'[h].step # "idle"
  PROVE  \/ /\ hook[h].step # "idle"
            /\ hook'[h].payment = hook[h].payment /\ hook'[h].name = hook[h].name
            /\ hook'[h].loaded = hook[h].loaded
            /\ hook'[h].step \in {"read", "count"} => hook[h].step \in {"read", "count"}
         \/ /\ HookStart(h) /\ hook'[h].payment \in Payments
            /\ hook'[h].loaded = payment[hook'[h].payment].status
            /\ hook'[h].name \notin payment[hook'[h].payment].events
            /\ hook'[h].step = "read" => /\ hook'[h].loaded # "hold_created"
                                         /\ hook'[h].name \in HoldNames
            /\ hook'[h].step # "count"
<1> DEFINE t == hook[h]
           Keeps(u) == /\ u.payment = t.payment /\ u.name = t.name /\ u.loaded = t.loaded
                       /\ u.step \in {"read", "count"} => t.step \in {"read", "count"}
<1>1. ASSUME NEW u, Hook(h, u) PROVE hook'[h] = u
  BY <1>1 DEF Hook, TInv, TypeOK
<1>2. CASE hook'[h] = t
  BY <1>2
<1>3. ASSUME NEW g \in Hooks, HookStart(g) \/ HookContinues(g) \/ HookFails(g), g # h
      PROVE  hook'[h] = t
  <2>1. PICK u : Hook(g, u)
    BY <1>3, HookNext
  <2> QED
    BY <1>3, <2>1 DEF Hook, TInv, TypeOK
<1>4. CASE HookStart(h)
  <2>1. PICK m \in sent :
          /\ m.name \notin payment[m.payment].events
          /\ Hook(h, [ step |-> IF m.name \notin HoldNames THEN "order"
                                ELSE IF payment[m.payment].status = "hold_created"
                                THEN "record" ELSE "read",
                       payment |-> m.payment, name |-> m.name,
                       order |-> payment[m.payment].order,
                       loaded |-> payment[m.payment].status ])
    BY <1>4 DEF HookStart
  <2>2. m.payment \in Payments
    BY DEF TInv, TypeOK, Messages
  <2>3. PICK s : s = IF m.name \notin HoldNames THEN "order"
                     ELSE IF payment[m.payment].status = "hold_created"
                     THEN "record" ELSE "read"
    OBVIOUS
  <2>4. hook'[h] = [ step |-> s, payment |-> m.payment, name |-> m.name,
                     order |-> payment[m.payment].order,
                     loaded |-> payment[m.payment].status ]
    BY <1>1, <2>1, <2>3
  <2>5. /\ s = "read" => payment[m.payment].status # "hold_created" /\ m.name \in HoldNames
        /\ s # "count"
    BY <2>3
  <2> QED
    BY <1>4, <2>1, <2>2, <2>4, <2>5
<1>5. CASE HookRead(h)
  <2>1. t.step = "read"
    BY <1>5 DEF HookRead, HookAt
  <2>2. PICK u : Hook(h, u) /\ (u = Idle \/ Keeps(u))
    BY <1>5, <2>1 DEF HookRead
  <2>3. hook'[h] = u
    BY <1>1, <2>2
  <2> QED
    BY <2>1, <2>2, <2>3 DEF Idle
<1>6. CASE HookCount(h) \/ HookRule(h) \/ HookOrder(h)
  <2>1. t.step \in {"count", "rule", "order"}
    BY <1>6 DEF HookCount, HookRule, HookOrder, HookAt
  <2>2. PICK u : Hook(h, u) /\ (u = Idle \/ Keeps(u))
    BY <1>6, <2>1 DEF HookCount, HookRule, HookOrder, Request
  <2>3. hook'[h] = u
    BY <1>1, <2>2
  <2> QED
    BY <2>1, <2>2, <2>3 DEF Idle
<1>7. CASE HookRecord(h) \/ HookFails(h)
  <2>1. hook'[h] = Idle
    BY <1>1, <1>7 DEF HookRecord, HookFails
  <2> QED
    BY <2>1 DEF Idle
<1> QED
  BY <1>2, <1>3, <1>4, <1>5, <1>6, <1>7, HookActions DEF HookContinues

LEMMA LoadedCountsKept ==
  ASSUME TInv, HeldCounts, LoadedCounts, [Next]_vars
  PROVE  LoadedCounts'
<1> SUFFICES ASSUME NEW h \in Hooks, hook'[h].step # "idle", hook'[h].loaded = "hold_created"
             PROVE  /\ payment'[hook'[h].payment].status # "absent"
                    /\ payment'[hook'[h].payment].events \cap HoldNames # {}
  BY DEF LoadedCounts, Counts
<1>1. PICK p : p = hook'[h].payment
  OBVIOUS
<1>2. p \in Payments /\ Counts(p)
  <2>1. CASE hook[h].step # "idle" /\ p = hook[h].payment /\ hook'[h].loaded = hook[h].loaded
    BY <2>1, HookShapes DEF LoadedCounts, TInv
  <2>2. CASE p \in Payments /\ hook'[h].loaded = payment[p].status
    BY <2>2 DEF HeldCounts
  <2> QED
    BY <1>1, <2>1, <2>2, HookKeeps
<1>3. Counts(p)'
  BY <1>2, HoldsNext
<1> QED
  BY <1>1, <1>3 DEF Counts

LEMMA KnownAreCreated ==
  ASSUME TInv
  PROVE  Known \subseteq Created
BY HookShapes DEF Known, CountingFor, Counts, Counting, Created, TInv, References, HookRefs

(* A hold becomes known by being counted, and stays so. *)
LEMMA KnownNext ==
  ASSUME HInv, [Next]_vars, ~CanFail
  PROVE  /\ Known \subseteq Known'
         /\ \A p \in Known' : p \in Known \/ \E h \in Hooks : Takes(h) /\ hook[h].payment = p
         /\ \A h \in Hooks : Takes(h) => hook[h].payment \in Known'
<1>1. TInv /\ HeldCounts
  BY DEF HInv, MInv
<1>2. ASSUME NEW p \in Known PROVE p \in Known'
  <2>1. ASSUME Counts(p)' PROVE p \in Known'
    BY <2>1 DEF Known, CountingFor
  <2>2. CASE Counts(p)
    BY <1>1, <2>1, <2>2, HoldsNext DEF Known, CountingFor
  <2>3. ASSUME NEW h \in Hooks, Counting(h), hook[h].payment = p PROVE p \in Known'
    <3>1. CASE Counting(h)' /\ hook'[h].payment = hook[h].payment
      BY <2>3, <3>1 DEF Known, CountingFor
    <3>2. CASE Records(h, hook[h].payment)
      BY <1>1, <2>1, <2>3, <3>2, HoldsNext DEF Known, CountingFor
    <3> QED
      BY <1>1, <2>3, <3>1, <3>2, CountingNext
  <2> QED
    BY <2>2, <2>3 DEF Known, CountingFor
<1>3. ASSUME NEW p \in Known'
      PROVE  p \in Known \/ \E h \in Hooks : Takes(h) /\ hook[h].payment = p
  <2>1. p \in Payments
    BY DEF Known, CountingFor
  <2>2. CASE Counts(p)'
    <3>1. ASSUME NEW h \in Hooks, Records(h, p) PROVE p \in Known
      <4>1. Counting(h) /\ hook[h].payment = p
        BY <3>1 DEF Records, HookRecord, HookAt, Counting
      <4> QED
        BY <2>1, <4>1 DEF Known, CountingFor
    <3>2. Counts(p) => p \in Known
      BY <2>1 DEF Known, CountingFor
    <3> QED
      BY <1>1, <2>1, <2>2, <3>1, <3>2, HoldsNext
  <2>3. ASSUME NEW h \in Hooks, Counting(h)', hook'[h].payment = p
        PROVE  p \in Known \/ (Takes(h) /\ hook[h].payment = p)
    <3>1. CASE Takes(h)
      BY <1>1, <2>3, <3>1, TakesNext
    <3>2. CASE Counting(h) /\ hook'[h].payment = hook[h].payment
      BY <2>1, <2>3, <3>2 DEF Known, CountingFor
    <3>3. CASE Counts(hook'[h].payment)
      BY <2>1, <2>3, <3>3 DEF Known, CountingFor
    <3> QED
      BY <1>1, <2>3, <3>1, <3>2, <3>3, CountingNext
  <2>4. Counts(p)' \/ \E h \in Hooks : Counting(h)' /\ hook'[h].payment = p
    BY DEF Known, CountingFor
  <2> QED
    BY <2>2, <2>3, <2>4
<1>4. ASSUME NEW h \in Hooks, Takes(h) PROVE hook[h].payment \in Known'
  <2>1. /\ hook'[h].step \in {"rule", "order"} /\ hook'[h].name \in HoldNames
        /\ hook'[h].payment = hook[h].payment /\ hook[h].payment \in Payments
    BY <1>1, <1>4, TakesNext
  <2> QED
    BY <2>1 DEF Known, CountingFor, Counting
<1> QED
  BY <1>2, <1>3, <1>4

(* A payment's events change when a webhook records; without failing calls  *)
(* its status is then the hold's or changes with the end of its invoice.    *)
LEMMA DocumentNext ==
  ASSUME EInv, [Next]_vars, ~CanFail, NEW p \in Created
  PROVE  /\ \/ payment'[p].events = payment[p].events
            \/ \E h \in Hooks : /\ HookRecord(h) /\ hook[h].payment = p
                               /\ payment'[p].events = payment[p].events \cup {hook[h].name}
         /\ Decided(p) /\ bank[p] = "held" =>
              \/ payment'[p].status = payment[p].status
              \/ \E h \in Hooks : /\ HookRecord(h) /\ hook[h].payment = p
                                 /\ hook[h].name \in HoldNames
                                 /\ payment'[p].status = "hold_created"
<1>1. TInv /\ HookFaithful /\ p \in Payments /\ payment[p] \in PaymentDocument
  BY CreatedIsDocument DEF EInv, HInv, MInv, TInv, Created
<1> DEFINE Done ==
      /\ \/ payment'[p].events = payment[p].events
         \/ \E h \in Hooks : /\ HookRecord(h) /\ hook[h].payment = p
                            /\ payment'[p].events = payment[p].events \cup {hook[h].name}
      /\ Decided(p) /\ bank[p] = "held" =>
           \/ payment'[p].status = payment[p].status
           \/ \E h \in Hooks : /\ HookRecord(h) /\ hook[h].payment = p
                              /\ hook[h].name \in HoldNames
                              /\ payment'[p].status = "hold_created"
<1>2. ASSUME payment'[p] = payment[p] PROVE Done
  BY <1>2
<1>3. ASSUME NEW b \in Buyers, PayStart(b) PROVE Done
  <2>1. PICK q, doc : q \in Payments /\ payment[q].status = "absent" /\ payment' = [payment EXCEPT ![q] = doc]
    BY <1>3 DEF PayStart
  <2>2. p # q
    BY <2>1 DEF Created
  <2> QED
    BY <1>1, <1>2, <2>1, <2>2 DEF TInv, TypeOK
<1>4. ASSUME NEW b \in Buyers, PayInvoiceFails(b) \/ PayLink(b) \/ CancelPayment(b)
      PROVE  Done
  <2> DEFINE q == buyer[b].payment
  <2>1. q \in Payments /\ payment[q] \in PaymentDocument
    BY <1>1, <1>4, BuyerShapes, CreatedIsDocument
    DEF PayInvoiceFails, PayLink, CancelPayment, BuyerAt, TInv, References, BuyerRefs
  <2>2. /\ \A r \in Payments : r # q => payment'[r] = payment[r]
        /\ payment'[q].events = payment[q].events
        /\ PayLink(b) => payment'[q].status = payment[q].status
    BY <1>1, <1>4, <2>1 DEF PayInvoiceFails, PayLink, CancelPayment, TInv, TypeOK, PaymentDocument
  <2>3. ~PayLink(b) => bank[q] # "held"
    BY <1>4 DEF PayInvoiceFails, CancelPayment, BuyerAt, EInv, HInv, MInv, InvoiceOnce,
       CancelledAreEnded, Ended
  <2> HIDE DEF q
  <2> QED
    BY <1>1, <1>2, <2>1, <2>2, <2>3
<1>5. ASSUME NEW h \in Hooks, HookRecord(h) PROVE Done
  <2> DEFINE q == hook[h].payment
  <2>1. /\ hook[h].step = "record" /\ q \in Payments /\ payment[q] \in PaymentDocument
        /\ hook[h].name \in EventNames
    BY <1>1, <1>5, HookShapes, CreatedIsDocument
    DEF HookRecord, HookAt, TInv, References, HookRefs
  <2>2. /\ \A r \in Payments : r # q => payment'[r] = payment[r]
        /\ payment'[q].events = payment[q].events \cup {hook[h].name}
        /\ payment'[q].status \in {payment[q].status, PaymentStatusFor(hook[h].name)}
    BY <1>1, <1>5, <2>1 DEF HookRecord, TInv, TypeOK, PaymentDocument
  <2>3. hook[h].name \notin HoldNames => bank[q] # "held"
    <3>1. [payment |-> q, name |-> hook[h].name] \in sent
      BY <1>1, <2>1 DEF HookFaithful, Reported
    <3> QED
      BY <3>1 DEF EInv, SentAreDecided, Ended
  <2>4. hook[h].name \in HoldNames => PaymentStatusFor(hook[h].name) = "hold_created"
    BY DEF PaymentStatusFor
  <2> QED
    BY <1>1, <1>2, <1>5, <2>1, <2>2, <2>3, <2>4
<1>6. ASSUME NEW a \in Admins, SettlePayment(a) PROVE Done
  <2> DEFINE q == admin[a].payment
  <2>1. admin[a].step = "settle_payment" /\ q \in Payments /\ payment[q] \in PaymentDocument
    BY <1>1, <1>6, AdminShapes, CreatedIsDocument
    DEF SettlePayment, AdminAt, TInv, References, AdminRefs
  <2>2. /\ \A r \in Payments : r # q => payment'[r] = payment[r]
        /\ payment'[q].events = payment[q].events
    BY <1>1, <1>6, <2>1 DEF SettlePayment, TInv, TypeOK, PaymentDocument
  <2>3. bank[q] # "held"
    BY <2>1 DEF EInv, SettledAreEnded, Ended
  <2> HIDE DEF q
  <2> QED
    BY <1>1, <1>2, <2>1, <2>2, <2>3
<1>7. ~\E b \in Buyers : PayFails(b)
  BY DEF PayFails
<1>8. Done
  BY <1>2, <1>3, <1>4, <1>5, <1>6, <1>7, PaymentActions
<1> QED
  BY <1>8 DEF Done

LEMMA CountsAreCreated ==
  ASSUME NEW p \in Payments, Counts(p)
  PROVE  p \in Created
BY DEF Counts, Created

LEMMA KeptIsHeldKept ==
  ASSUME EInv, [Next]_vars, ~CanFail
  PROVE  KeptIsHeld'
<1>1. TInv /\ InvoiceOnce /\ HookFaithful /\ HeldCounts
  BY DEF EInv, HInv, MInv
<1> SUFFICES ASSUME NEW p \in Payments, Counts(p)'
             PROVE  Decided(p)' /\ (bank'[p] = "held" => payment'[p].status = "hold_created")
  BY DEF KeptIsHeld
<1>2. Decided(p) => Decided(p)' /\ (bank'[p] = "held" => bank[p] = "held")
  BY <1>1, EndedStays DEF Decided, Ended
<1>3. CASE Counts(p)
  <2>1. Decided(p) /\ (bank[p] = "held" => payment[p].status = "hold_created") /\ p \in Created
    BY <1>3, CountsAreCreated DEF EInv, KeptIsHeld
  <2> QED
    BY <1>2, <2>1, DocumentNext
<1>4. ASSUME NEW h \in Hooks, Records(h, p), ~Counts(p)
      PROVE  Decided(p)' /\ (bank'[p] = "held" => payment'[p].status = "hold_created")
  <2>1. /\ hook[h].step = "record" /\ hook[h].payment = p /\ hook[h].name \in HoldNames
        /\ payment[p] \in PaymentDocument
    BY <1>1, <1>4, CreatedIsDocument
    DEF Records, HookRecord, HookAt, TInv, References, HookRefs
  <2>2. Decided(p)
    <3>1. [payment |-> p, name |-> hook[h].name] \in sent
      BY <1>1, <2>1 DEF HookFaithful, Reported
    <3> QED
      BY <3>1 DEF EInv, SentAreDecided
  <2>3. hook[h].loaded # "hold_created"
    BY <1>4, <2>1 DEF EInv, LoadedCounts
  <2>4. payment'[p].status = "hold_created"
    BY <1>1, <1>4, <2>1, <2>3
    DEF Records, HookRecord, PaymentStatusFor, TInv, TypeOK, PaymentDocument
  <2> QED
    BY <1>2, <2>2, <2>4
<1> QED
  BY <1>1, <1>3, <1>4, HoldsNext

LEMMA InitEInv == Init => EInv
<1> SUFFICES ASSUME Init PROVE EInv
  OBVIOUS
<1>1. /\ \A b \in Buyers : buyer[b].step = "idle"
      /\ \A h \in Hooks : hook[h].step = "idle"
      /\ \A a \in Admins : admin[a].step = "idle"
  BY DEF Init, Idle
<1>2. sent = {} /\ \A p \in Payments : ~Counts(p)
  BY DEF Init, Counts
<1> QED
  BY <1>1, <1>2, InitHInv
  DEF EInv, SentAreDecided, CancelledAreEnded, SettledAreEnded, LoadedCounts, KeptIsHeld

LEMMA StepEInv ==
  ASSUME ~CanFail
  PROVE  EInv /\ [Next]_vars => EInv'
<1> SUFFICES ASSUME EInv, [Next]_vars PROVE EInv'
  OBVIOUS
<1>1. TInv /\ InvoiceOnce /\ HeldCounts
  BY DEF EInv, HInv, MInv
<1>2. HInv'
  BY StepHInv DEF EInv
<1>3. SentAreDecided' /\ CancelledAreEnded' /\ SettledAreEnded' /\ LoadedCounts'
  BY <1>1, SentAreDecidedKept, CancelledAreEndedKept, SettledAreEndedKept, LoadedCountsKept
  DEF EInv
<1>4. KeptIsHeld'
  BY KeptIsHeldKept
<1> QED
  BY <1>2, <1>3, <1>4 DEF EInv

LEMMA UnrecordedKept ==
  ASSUME EInv, Unrecorded, [Next]_vars, ~CanFail, \A g, h \in Hooks : g = h
  PROVE  Unrecorded'
<1>1. TInv
  BY DEF EInv, HInv, MInv
<1> SUFFICES ASSUME NEW h \in Hooks, hook'[h].step # "idle"
             PROVE  hook'[h].name \notin payment'[hook'[h].payment].events
  BY DEF Unrecorded
<1>2. PICK p, name : p = hook'[h].payment /\ name = hook'[h].name
  OBVIOUS
<1>3. ~HookRecord(h)
  <2>1. ASSUME HookRecord(h) PROVE hook'[h] = Idle
    BY <1>1, <2>1 DEF HookRecord, Hook, TInv, TypeOK
  <2> QED
    BY <2>1 DEF Idle
<1>4. CASE hook[h].step # "idle" /\ p = hook[h].payment /\ name = hook[h].name
  <2>1. p \in Created
    BY <1>1, <1>4 DEF TInv, References, HookRefs
  <2>2. payment'[p].events = payment[p].events
    BY <1>3, <2>1, DocumentNext
  <2>3. name \notin payment[p].events
    BY <1>4 DEF Unrecorded
  <2> QED
    BY <1>2, <2>2, <2>3
<1>5. CASE HookStart(h) /\ p \in Payments /\ name \notin payment[p].events
  BY <1>2, <1>5 DEF HookStart, stored
<1> QED
  BY <1>1, <1>2, <1>4, <1>5, HookKeeps

LEMMA FreshKept ==
  ASSUME EInv, Fresh, [Next]_vars, ~CanFail, \A g, h \in Hooks : g = h
  PROVE  Fresh'
<1>1. TInv /\ InvoiceOnce /\ HookFaithful
  BY DEF EInv, HInv, MInv
<1> SUFFICES ASSUME NEW h \in Hooks, hook'[h].step \in {"read", "count"},
                    bank'[hook'[h].payment] = "held", hook'[h].payment \in Known'
             PROVE  FALSE
  BY DEF Fresh
<1>2. PICK p : p = hook'[h].payment
  OBVIOUS
<1>3. p \in Payments
  BY <1>2 DEF Known
<1>4. ~Takes(h)
  BY <1>1, TakesNext
<1>5. p \in Known
  BY <1>2, <1>4, KnownNext DEF EInv
<1>6. Decided(p) => bank[p] = "held"
  BY <1>1, <1>2, <1>3, EndedStays DEF Decided, Ended
<1>7. CASE hook[h].step \in {"read", "count"} /\ p = hook[h].payment
  <2>1. Decided(p)
    BY <1>1, <1>7 DEF EInv, SentAreDecided, HookFaithful, Reported
  <2> QED
    BY <1>5, <1>6, <1>7, <2>1 DEF Fresh
<1>8. CASE HookStart(h) /\ hook'[h].step = "read"
  <2>1. /\ hook'[h].loaded = payment[p].status /\ hook'[h].loaded # "hold_created"
    BY <1>1, <1>2, <1>8, HookKeeps DEF HookStart, HookAt
  <2>2. ~Counting(h)
    BY <1>8 DEF HookStart, HookAt, Counting
  <2>3. Counts(p)
    BY <1>5, <2>2 DEF Known, CountingFor
  <2> QED
    BY <1>3, <1>6, <2>1, <2>3 DEF EInv, KeptIsHeld
<1> QED
  BY <1>1, <1>2, <1>7, <1>8, HookKeeps

LEMMA TimesType ==
  ASSUME NEW p \in Known
  PROVE  /\ IsFiniteSet(Recorded(p)) /\ Cardinality(Recorded(p)) \in Nat
         /\ Times(p) \in Nat
         /\ Times(p) >= 1
<1>1. IsFiniteSet(Recorded(p)) /\ Cardinality(Recorded(p)) \in Nat
  BY HoldNamesAssumption, FS_Subset, FS_CardinalityType DEF Recorded
<1>2. ~CountingFor(p) => Cardinality(Recorded(p)) >= 1
  <2> SUFFICES ASSUME ~CountingFor(p) PROVE Cardinality(Recorded(p)) # 0
    BY <1>1
  <2>1. Recorded(p) # {}
    BY DEF Known, Counts, Recorded
  <2> QED
    BY <1>1, <2>1, FS_EmptySet
<1> QED
  BY <1>1, <1>2 DEF Times

LEMMA TimesTypeNext ==
  ASSUME NEW p \in Known'
  PROVE  /\ IsFiniteSet(Recorded(p)') /\ Cardinality(Recorded(p)') \in Nat
         /\ Times(p)' \in Nat
         /\ Times(p)' >= 1
<1>1. IsFiniteSet(Recorded(p)') /\ Cardinality(Recorded(p)') \in Nat
  BY HoldNamesAssumption, FS_Subset, FS_CardinalityType DEF Recorded
<1>2. ~CountingFor(p)' => Cardinality(Recorded(p)') >= 1
  <2> SUFFICES ASSUME ~CountingFor(p)' PROVE Cardinality(Recorded(p)') # 0
    BY <1>1
  <2>1. Recorded(p)' # {}
    BY DEF Known, Counts, Recorded
  <2> QED
    BY <1>1, <2>1, FS_EmptySet
<1> QED
  BY <1>1, <1>2 DEF Times

(* A hold that is kept counts once; after that a report is counted at most *)
(* once under each name.                                                   *)
LEMMA TimesNext ==
  ASSUME EInv, Fresh, Unrecorded, [Next]_vars, ~CanFail, \A g, h \in Hooks : g = h,
         NEW p \in Known
  PROVE  /\ \A h \in Hooks : Takes(h) /\ hook[h].payment = p => Times(p)' >= Times(p) + 1
         /\ Times(p)' >= Times(p)
<1>1. TInv /\ TInv' /\ InvoiceOnce /\ HeldCounts /\ HookFaithful
  BY StepTInv DEF EInv, HInv, MInv
<1>2. p \in Payments /\ p \in Created
  BY <1>1, KnownAreCreated DEF Known
<1>3. p \in Known'
  BY KnownNext DEF EInv
<1>4. PICK c, d, j, k :
        /\ c = Cardinality(Recorded(p)) /\ d = Cardinality(Recorded(p)')
        /\ j = (IF CountingFor(p) THEN 1 ELSE 0) /\ k = (IF CountingFor(p)' THEN 1 ELSE 0)
  OBVIOUS
<1>5. c \in Nat /\ d \in Nat /\ j \in {0, 1} /\ k \in {0, 1}
  BY <1>3, <1>4, TimesType, TimesTypeNext
<1>6. /\ Times(p) = IF bank[p] = "held" THEN 1 ELSE c + j
      /\ Times(p)' = IF bank'[p] = "held" THEN 1 ELSE d + k
  BY <1>4 DEF Times
<1>7. Times(p)' >= 1 /\ Times(p)' \in Nat /\ Times(p) \in Nat
  BY <1>3, TimesType, TimesTypeNext
<1>8. bank'[p] = "held" => bank[p] = "held"
  <2>1. Decided(p)
    <3>1. CASE Counts(p)
      BY <1>2, <3>1 DEF EInv, KeptIsHeld
    <3>2. ASSUME NEW h \in Hooks, Counting(h), hook[h].payment = p PROVE Decided(p)
      BY <1>1, <3>2 DEF Counting, HookFaithful, Reported, EInv, SentAreDecided
    <3> QED
      BY <3>1, <3>2 DEF Known, CountingFor
  <2> QED
    BY <1>1, <1>2, <2>1, EndedStays DEF Decided, Ended
<1>9. ASSUME payment'[p].events = payment[p].events PROVE c = d
  BY <1>4, <1>9 DEF Recorded
<1>10. ASSUME NEW h \in Hooks, Takes(h), hook[h].payment = p
       PROVE  Times(p)' >= Times(p) + 1
  <2>1. /\ hook[h].step = "count" /\ payment' = payment
        /\ hook'[h].step \in {"rule", "order"} /\ hook'[h].payment = p
        /\ hook'[h].name \in HoldNames
    BY <1>1, <1>10, TakesNext
  <2>2. bank[p] # "held"
    BY <1>10, <2>1 DEF Fresh
  <2>3. c = d
    BY <1>9, <2>1
  <2>4. k = 1
    BY <1>4, <2>1 DEF CountingFor, Counting
  <2>5. j = 0
    BY <1>4, <2>1 DEF CountingFor, Counting
  <2> QED
    BY <1>5, <1>6, <1>8, <2>2, <2>3, <2>4, <2>5
<1>11. Times(p)' >= Times(p)
  <2>1. CASE bank[p] = "held"
    BY <1>6, <1>7, <2>1
  <2>2. ASSUME bank[p] # "held" PROVE d + k >= c + j
    <3>1. Recorded(p) \subseteq Recorded(p)' /\ IsFiniteSet(Recorded(p)')
      <4>1. payment[p].events \subseteq payment'[p].events
        BY <1>2, DocumentNext
      <4>2. IsFiniteSet(Recorded(p)')
        BY <1>3, TimesType, TimesTypeNext
      <4> QED
        BY <4>1, <4>2 DEF Recorded
    <3>2. c <= d
      BY <1>4, <3>1, FS_Subset
    <3>3. CASE j = 0
      BY <1>5, <3>2, <3>3
    <3>4. ASSUME NEW h \in Hooks, Counting(h), hook[h].payment = p
          PROVE  d + k >= c + j
      <4>1. CASE Counting(h)' /\ hook'[h].payment = hook[h].payment
        <5>1. k = 1
          BY <1>4, <3>4, <4>1 DEF CountingFor
        <5> QED
          BY <1>5, <3>2, <5>1
      <4>2. CASE Records(h, p)
        <5>1. hook[h].name \in HoldNames /\ hook[h].name \notin payment[p].events
          BY <3>4, <4>2 DEF Counting, Unrecorded
        <5>2. hook[h].name \in payment'[p].events
          <6>1. payment[p] \in PaymentDocument
            BY <1>1, <1>2, CreatedIsDocument DEF TInv
          <6> QED
            BY <1>1, <1>2, <4>2, <6>1
            DEF Records, HookRecord, TInv, TypeOK, PaymentDocument
        <5>3. Recorded(p) # Recorded(p)'
          BY <5>1, <5>2 DEF Recorded
        <5>4. c < d
          BY <1>4, <1>5, <3>1, <3>2, <5>3, FS_Subset
        <5> QED
          BY <1>5, <5>4
      <4> QED
        BY <1>1, <3>4, <4>1, <4>2, CountingNext
    <3> QED
      BY <1>4, <3>3, <3>4 DEF CountingFor
  <2> QED
    BY <1>6, <1>8, <2>1, <2>2
<1> QED
  BY <1>10, <1>11

LEMMA ProductGrows ==
  ASSUME NEW q \in Nat, NEW m \in Nat, NEW n \in Nat
  PROVE  /\ q * m \in Nat
         /\ m <= n => q * m <= q * n
         /\ m + 1 <= n => q * m + q <= q * n
         /\ 1 <= n => q <= q * n
OBVIOUS

LEMMA KnownIsCountedKept ==
  ASSUME EInv, Fresh, Unrecorded, KnownIsCounted, [Next]_vars, ~CanFail,
         \A g, h \in Hooks : g = h
  PROVE  KnownIsCounted'
<1>1. TInv /\ TInv' /\ HookFaithful
  BY StepTInv DEF EInv, HInv, MInv
<1>2. drop.currentQuantity \in Nat
  BY <1>1 DEF TInv, TypeOK, Drop
<1>3. PICK A, B, f, g, v, w :
        /\ A = Known /\ B = Known' /\ f = KnownQuantity /\ g = KnownQuantity'
        /\ v = KnownTimes /\ w = KnownTimes'
  OBVIOUS
<1>4. PICK x, y : x = [p \in A |-> Times(p)] /\ y = [p \in B |-> Times(p)']
  OBVIOUS
<1>5. A \subseteq Created /\ A \subseteq B
  BY <1>1, <1>3, KnownAreCreated, KnownNext DEF EInv
<1>6. /\ \A p \in A : x[p] \in Nat /\ x[p] >= 1
      /\ \A p \in B : y[p] \in Nat /\ y[p] >= 1
      /\ \A p \in A : y[p] >= x[p]
      /\ \A p \in A : \A h \in Hooks : Takes(h) /\ hook[h].payment = p => y[p] >= x[p] + 1
  BY <1>3, <1>4, <1>5, TimesType, TimesTypeNext, TimesNext
<1>7. /\ IsFiniteSet(A)
      /\ SumOver(f, A) <= drop.currentQuantity /\ drop.currentQuantity <= SumOver(v, A)
  BY <1>3 DEF KnownIsCounted
<1>8. /\ \A p \in A : /\ f[p] \in Nat /\ f[p] = Quantity[payment[p].order]
                       /\ g[p] = f[p]
                       /\ v[p] = f[p] * x[p] /\ w[p] = f[p] * y[p]
      /\ \A p \in B : /\ g[p] = Quantity[payment'[p].order]
                       /\ w[p] = g[p] * y[p]
  <2>1. ASSUME NEW p \in A
        PROVE  payment[p].order \in Orders /\ payment'[p].order = payment[p].order
    <3>1. p \in Created /\ p \in Payments /\ payment[p].order \in Orders
      BY <1>1, <1>5, CreatedIsDocument DEF Created, PaymentDocument, TInv
    <3> QED
      BY <1>1, <3>1, DocumentsKept
  <2> QED
    BY <1>3, <1>4, <1>5, <2>1, QuantityAssumption DEF KnownQuantity, KnownTimes
<1>9. \A p \in A : v[p] \in Nat /\ w[p] \in Nat /\ v[p] <= w[p]
  BY <1>5, <1>6, <1>8, ProductGrows
<1>10. /\ SumOver(g, A) = SumOver(f, A) /\ SumOver(f, A) \in Nat
       /\ SumOver(v, A) \in Nat /\ SumOver(w, A) \in Nat
  BY <1>7, <1>8, <1>9, SumSame, SumType
<1>11. SumOver(v, A) <= SumOver(w, A)
  BY <1>7, <1>9, SumMonotone
<1> SUFFICES /\ IsFiniteSet(B)
             /\ SumOver(g, B) <= drop'.currentQuantity
             /\ drop'.currentQuantity <= SumOver(w, B)
  BY <1>3 DEF KnownIsCounted
<1>12. CASE \A h \in Hooks : ~Takes(h)
  <2>1. drop'.currentQuantity = drop.currentQuantity
    BY <1>1, <1>12, NothingTaken
  <2>2. A = B
    BY <1>3, <1>5, <1>12, KnownNext DEF EInv
  <2> QED
    BY <1>2, <1>7, <1>10, <1>11, <2>1, <2>2
<1>13. ASSUME NEW h \in Hooks, Takes(h)
       PROVE  /\ IsFiniteSet(B)
              /\ SumOver(g, B) <= drop'.currentQuantity
              /\ drop'.currentQuantity <= SumOver(w, B)
  <2>1. PICK p, o : p = hook[h].payment /\ o = hook[h].order
    OBVIOUS
  <2>2. /\ drop'.currentQuantity = drop.currentQuantity + Quantity[o]
        /\ hook[h].step = "count" /\ o \in Orders /\ p \in Payments
        /\ payment' = payment
    BY <1>1, <1>13, <2>1, TakesNext
  <2>3. payment[p].order = o
    BY <1>1, <2>1, <2>2 DEF HookFaithful
  <2>4. PICK q : q = Quantity[o] /\ q \in Nat
    BY <2>2, QuantityAssumption
  <2>5. p \in B /\ B = A \cup {p}
    BY <1>3, <1>5, <1>13, <2>1, KnownNext DEF EInv
  <2>6. g[p] = q /\ w[p] = q * y[p] /\ y[p] \in Nat /\ y[p] >= 1
    BY <1>6, <1>8, <2>2, <2>3, <2>4, <2>5
  <2>7. w[p] \in Nat /\ q <= w[p]
    BY <2>4, <2>6, ProductGrows
  <2>8. CASE p \notin A
    <3>1. \A r \in A \cup {p} : g[r] \in Int /\ w[r] \in Int
      BY <1>8, <1>9, <2>4, <2>6, <2>7
    <3>2. /\ SumOver(g, A \cup {p}) = SumOver(g, A) + g[p]
          /\ SumOver(w, A \cup {p}) = SumOver(w, A) + w[p]
      BY <1>7, <2>8, <3>1, SumAdds
    <3>3. IsFiniteSet(A \cup {p})
      BY <1>7, FS_AddElement
    <3> QED
      BY <1>2, <1>7, <1>10, <1>11, <2>2, <2>4, <2>5, <2>6, <2>7, <3>2, <3>3
  <2>9. CASE p \in A
    <3>1. f[p] = q /\ v[p] = q * x[p] /\ x[p] \in Nat /\ y[p] >= x[p] + 1
      BY <1>6, <1>8, <1>13, <2>1, <2>3, <2>4, <2>9
    <3>2. v[p] + q <= w[p]
      BY <2>4, <2>6, <3>1, ProductGrows
    <3>3. /\ SumOver(v, A) = v[p] + SumOver(v, A \ {p})
          /\ SumOver(w, A) = w[p] + SumOver(w, A \ {p})
      BY <1>7, <1>9, <2>9, SumApart
    <3>4. IsFiniteSet(A \ {p})
      BY <1>7, FS_RemoveElement
    <3>5. /\ SumOver(v, A \ {p}) <= SumOver(w, A \ {p})
          /\ SumOver(v, A \ {p}) \in Nat /\ SumOver(w, A \ {p}) \in Nat
      BY <1>9, <3>4, SumMonotone, SumType
    <3>6. B = A
      BY <2>5, <2>9
    <3>7. v[p] \in Nat /\ w[p] \in Nat
      BY <1>9, <2>9
    <3> QED
      BY <1>2, <1>7, <1>10, <2>2, <2>4, <3>2, <3>3, <3>5, <3>6, <3>7
  <2> QED
    BY <2>8, <2>9
<1> QED
  BY <1>12, <1>13

(* While webhooks are handled one at a time and no call fails in between,   *)
(* every hold recorded is in the drop's count, once while the bank keeps    *)
(* the money and after that at most once for each report of it: a           *)
(* redelivery is found among the recorded events, and another name for a    *)
(* hold that is held changes nothing.                                       *)
THEOREM EachHoldOnce ==
  ASSUME ~CanFail, \A g, h \in Hooks : g = h
  PROVE  Spec => []CountsEachHoldOnce
<1>1. Init => Fresh /\ Unrecorded /\ KnownIsCounted
  <2> SUFFICES ASSUME Init PROVE Fresh /\ Unrecorded /\ KnownIsCounted
    OBVIOUS
  <2>1. Known = {} /\ Fresh /\ Unrecorded
    BY DEF Init, Known, Fresh, Unrecorded, Counts, Counting, CountingFor, Idle
  <2>2. drop.currentQuantity = 0
    BY DEF Init
  <2> QED
    BY <2>1, <2>2, SumEmpty, FS_EmptySet DEF KnownIsCounted
<1>2. /\ EInv /\ Fresh /\ Unrecorded /\ KnownIsCounted /\ [Next]_vars
      => EInv' /\ Fresh' /\ Unrecorded' /\ KnownIsCounted'
  BY StepEInv, FreshKept, UnrecordedKept, KnownIsCountedKept
<1>3. EInv /\ KnownIsCounted => CountsEachHoldOnce
  <2> SUFFICES ASSUME KnownIsCounted, \A h \in Hooks : HookAt(h, "idle")
               PROVE  /\ MapThenSumSet(LAMBDA p : HeldQuantity[p], Holds) <= drop.currentQuantity
                      /\ drop.currentQuantity <=
                           MapThenSumSet(LAMBDA p : ReportedQuantity[p], Holds)
    BY DEF CountsEachHoldOnce
  <2>1. Known = Holds /\ \A p : ~CountingFor(p)
    BY DEF Known, Holds, CountingFor, Counting, HookAt
  <2>2. KnownQuantity = HeldQuantity
    BY <2>1 DEF KnownQuantity, HeldQuantity
  <2>3. \A p \in Holds : Times(p) = TimesCounted(p)
    <3>1. \A p \in Holds : Cardinality(payment[p].events \cap HoldNames) \in Nat
      BY HoldNamesAssumption, FS_Subset, FS_CardinalityType
    <3> QED
      BY <2>1, <3>1 DEF Times, TimesCounted, Recorded
  <2>4. KnownTimes = ReportedQuantity
    BY <2>1, <2>3 DEF KnownTimes, ReportedQuantity
  <2> QED
    BY <2>1, <2>2, <2>4 DEF SumOver, KnownIsCounted
<1> QED
  BY <1>1, <1>2, <1>3, InitEInv, PTL DEF Spec
=============================================================================
