----------------------------- MODULE Fulfilment -----------------------------
(***************************************************************************)
(* What follows a closed drop: ProductionService makes its production      *)
(* package and moves it along, DeliveryService has Nova Poshta issue a     *)
(* waybill (TTN) for every order, while buyers still change and cancel     *)
(* their orders.                                                           *)
(*                                                                         *)
(* An administrator's request is a task that advances by one action per    *)
(* await.  The transition of the drop and the capture of its holds are     *)
(* steps of their own here; Reservation has their details.                 *)
(***************************************************************************)
EXTENDS Integers, Sequences, FiniteSets, FiniteSetsExt, SequencesExt

CONSTANTS
  Orders,             \* the orders of one drop, all reserved at first
  Quantity, SizeAsked, \* what each order asks for
  Sizes,              \* what a buyer can change an order to
  Packages,           \* identifiers for production packages
  NoDelivery,         \* an order without a delivery document
  Admins, Buyers,     \* requests of each sort in progress at once
  Envs,               \* who works at the same time, and whether calls fail
  MaxWaybills,        \* bound on the waybills made for one order
  OperatorMarks       \* TRUE: an operator sets orders to in_production

Duties == {"close", "package", "produce", "ship"}

ASSUME OrdersAssumption == IsFiniteSet(Orders)
ASSUME QuantityAssumption == Quantity \in [Orders -> Nat \ {0}]
ASSUME SizeAskedAssumption == SizeAsked \in [Orders -> Sizes]
ASSUME MaxWaybillsAssumption == MaxWaybills \in Nat
ASSUME NoDeliveryAssumption == NoDelivery \notin 1 .. MaxWaybills
ASSUME AdminsAssumption == IsFiniteSet(Admins)
ASSUME EnvsAssumption ==
  Envs \subseteq [duties : [Admins -> SUBSET Duties], buyers : SUBSET Buyers, faults : BOOLEAN]

VARIABLES
  env,        \* the one of Envs this behaviour is in
  drop,       \* the drop's status
  order,      \* the order documents
  package,    \* the production package documents
  delivery,   \* the delivery documents of each order, by waybill number
  waybill,    \* Nova Poshta: how many waybills it made for each order
  notices,    \* owners told that their order is ready to ship
  task, buyer \* what each request holds between two calls

vars == << env, drop, order, package, delivery, waybill, notices, task, buyer >>

PackageStatuses ==
  {"draft", "ready_for_production", "sent_to_producer", "in_production",
   "completed", "ready_to_ship", "problem", "cancelled"}
OrderStatuses ==
  {"reserved", "paid", "cancelled", "in_production", "ready_to_ship",
   "delivery_problem"}

\* Mutant: a successful drop is left out.
ClosedByCountOnly == {"sold_out", "completed"}

\* PRODUCTION_DROP_STATUSES and PRODUCTION_ORDER_STATUSES.
ProductionDropStatuses == {"sold_out", "successful", "completed"}
ProductionOrderStatuses == {"reserved", "paid", "in_production", "ready_to_ship"}
BlockedCancelStatuses ==
  {"paid", "cancelled", "in_production", "ready_to_ship", "delivery_problem"}
BlockedUpdateStatuses ==
  {"cancelled", "in_production", "ready_to_ship", "delivery_problem"}

PackageLifecycle ==
  [ s \in PackageStatuses |->
      CASE s = "draft" -> {"ready_for_production", "cancelled"}
        [] s = "ready_for_production" -> {"sent_to_producer", "problem", "cancelled"}
        [] s = "sent_to_producer" -> {"in_production", "problem", "cancelled"}
        [] s = "in_production" -> {"completed", "problem", "cancelled"}
        [] s = "completed" -> {"ready_to_ship", "problem"}
        [] s = "problem" -> {"ready_for_production", "cancelled"}
        [] OTHER -> {} ]

\* Mutant: the status name of the baseline document.
LifecycleOfTheBaseline ==
  [PackageLifecycle EXCEPT !["in_production"] = {"production_completed", "problem"}]

\* Mutant: a package that is ready to ship can become a problem again.
LifecycleWithReturn == [PackageLifecycle EXCEPT !["ready_to_ship"] = {"problem"}]

ProductionTransitions == PackageLifecycle

Made == { k \in Packages : package[k].status # "absent" }
PieceCount(S) == MapThenSumSet(LAMBDA o : Quantity[o], S)

\* Mutant: a size keeps the quantity of one of its orders.
LastPerSize(copy, S) ==
  [ z \in { copy[o].size : o \in S } |->
      Quantity[CHOOSE o \in S : copy[o].size = z] ]

\* buildSizeBreakdown, over the orders as they were read.
SizeBreakdown(copy, S) ==
  [ z \in { copy[o].size : o \in S } |->
      PieceCount({ o \in S : copy[o].size = z }) ]

Idle == [step |-> "idle"]
Free(a, duty) == duty \in env.duties[a] /\ task[a] = Idle
At(a, step) == task[a].step = step
Hold(a, t) == task' = [task EXCEPT ![a] = t]
Go(a, step) == Hold(a, [task[a] EXCEPT !.step = step])
BuyerAt(b, step) == buyer[b].step = step
BuyerHolds(b, t) == buyer' = [buyer EXCEPT ![b] = t]

documents == << order, package, delivery >>
elsewhere == << env, buyer >>

\* The drop has met its minimum and its orders are reserved.
Init ==
  /\ env \in Envs
  /\ drop = "guaranteed"
  /\ order = [ o \in Orders |-> [ status |-> "reserved", size |-> SizeAsked[o],
                                 delivery |-> NoDelivery ] ]
  /\ package = [k \in Packages |-> [status |-> "absent"]]
  /\ delivery = [o \in Orders |-> {}]
  /\ waybill = [o \in Orders |-> 0]
  /\ notices = {}
  /\ task = [a \in Admins |-> Idle]
  /\ buyer = [b \in Buyers |-> Idle]

-----------------------------------------------------------------------------
(* The transition of the drop and the package it ends with *)

\* AdminDropsController.transition: the drop's status is saved.
CloseDrop(a) ==
  /\ Free(a, "close")
  /\ drop = "guaranteed"
  /\ drop' = "successful"
  /\ Hold(a, [ step |-> "settle",
               todo |-> { o \in Orders : order[o].status = "reserved" } ])
  /\ UNCHANGED << documents, waybill, notices, elsewhere >>

\* finalizeActiveHoldsForDrop, one hold: captured, or left for an operator.
SettleOne(a) ==
  /\ At(a, "settle")
  /\ \E o \in task[a].todo :
       /\ Hold(a, [task[a] EXCEPT !.todo = @ \ {o}])
       /\ \/ order' = [order EXCEPT ![o].status = "paid"]
          \/ env.faults /\ UNCHANGED order
  /\ UNCHANGED << drop, package, delivery, waybill, notices, elsewhere >>

Settled(a) ==
  /\ At(a, "settle")
  /\ task[a].todo = {}
  /\ Hold(a, [step |-> "ensure"])
  /\ UNCHANGED << drop, documents, waybill, notices, elsewhere >>

\* The route ensure-package asks for the same without a transition.
RequestPackage(a) ==
  /\ Free(a, "package")
  /\ Hold(a, [step |-> "ensure"])
  /\ UNCHANGED << drop, documents, waybill, notices, elsewhere >>

\* ensurePackageForDrop: the drop is read; an open drop is refused.
EnsureRead(a) ==
  /\ At(a, "ensure")
  /\ Hold(a, IF drop \in ProductionDropStatuses THEN [step |-> "find"] ELSE Idle)
  /\ UNCHANGED << drop, documents, waybill, notices, elsewhere >>

\* A package that exists is returned.
EnsureFind(a) ==
  /\ At(a, "find")
  /\ Hold(a, IF Made = {} THEN [step |-> "gather"] ELSE Idle)
  /\ UNCHANGED << drop, documents, waybill, notices, elsewhere >>

\* The orders to make are read; the package is computed from this copy.
EnsureGather(a) ==
  /\ At(a, "gather")
  /\ LET listed == { o \in Orders : order[o].status \in ProductionOrderStatuses }
     IN Hold(a, [ step |-> "create", orderIds |-> listed,
                  totalQuantity |-> PieceCount(listed),
                  sizeBreakdown |-> SizeBreakdown(order, listed) ])
  /\ UNCHANGED << drop, documents, waybill, notices, elsewhere >>

\* Mutant: no unique index.
CreateAnyway(a) ==
  /\ At(a, "create")
  /\ \E k \in Packages \ Made :
       package' = [package EXCEPT ![k] =
         [ status |-> "ready_for_production", orderIds |-> task[a].orderIds,
           totalQuantity |-> task[a].totalQuantity,
           sizeBreakdown |-> task[a].sizeBreakdown ]]
  /\ Hold(a, Idle)
  /\ UNCHANGED << drop, order, delivery, waybill, notices, elsewhere >>

\* The package is created: the unique index on dropId refuses a second one.
EnsureCreate(a) ==
  /\ At(a, "create")
  /\ IF Made = {}
     THEN \E k \in Packages :
            package' = [package EXCEPT ![k] =
              [ status |-> "ready_for_production", orderIds |-> task[a].orderIds,
                totalQuantity |-> task[a].totalQuantity,
                sizeBreakdown |-> task[a].sizeBreakdown ]]
     ELSE UNCHANGED package
  /\ Hold(a, Idle)
  /\ UNCHANGED << drop, order, delivery, waybill, notices, elsewhere >>

-----------------------------------------------------------------------------
(* The production package *)

\* transitionProductionPackage: the package is read, the table consulted.
MoveRead(a) ==
  /\ Free(a, "produce")
  /\ \E k \in Made : \E target \in ProductionTransitions[package[k].status] :
       Hold(a, [ package |-> k, target |-> target,
                 step |-> IF target = "ready_to_ship" THEN "mark" ELSE "save" ])
  /\ UNCHANGED << drop, documents, waybill, notices, elsewhere >>

\* markOrdersReadyToShip: one update of the listed orders in production, then
\* a notice to the owner of every listed order.
MarkOrders(a) ==
  /\ At(a, "mark")
  /\ order' = [ o \in Orders |->
       IF /\ o \in package[task[a].package].orderIds
          /\ order[o].status = "in_production"
       THEN [order[o] EXCEPT !.status = "ready_to_ship"]
       ELSE order[o] ]
  /\ Go(a, "notify")
  /\ UNCHANGED << drop, package, delivery, waybill, notices, elsewhere >>

NotifyOwners(a) ==
  /\ At(a, "notify")
  /\ notices' = notices \cup package[task[a].package].orderIds
  /\ Go(a, "save")
  /\ UNCHANGED << drop, documents, waybill, elsewhere >>

\* The new status is saved, whatever the stored one has become.
MoveSave(a) ==
  /\ At(a, "save")
  /\ package' = [package EXCEPT ![task[a].package].status = task[a].target]
  /\ Hold(a, Idle)
  /\ UNCHANGED << drop, order, delivery, waybill, notices, elsewhere >>

\* External: no code sets an order to in_production; an operator edits paid
\* orders in the database while their package is in production.
OperatorMark(o) ==
  /\ OperatorMarks
  /\ order[o].status = "paid"
  /\ \E k \in Made : package[k].status = "in_production" /\ o \in package[k].orderIds
  /\ order' = [order EXCEPT ![o].status = "in_production"]
  /\ UNCHANGED << env, drop, package, delivery, waybill, notices, task, buyer >>

-----------------------------------------------------------------------------
(* Delivery *)

\* createTtnForOrders: a list of orders, served one after the other;
\* createTtnForOrder is a list of one.
TtnRequest(a) ==
  /\ Free(a, "ship")
  /\ \E o \in Orders :
       \E rest \in {<< >>} \cup { << p >> : p \in Orders } :
         /\ \E p \in {o} \cup ToSet(rest) : order[p].status = "ready_to_ship"
         /\ Hold(a, [step |-> "ttn", todo |-> << o >> \o rest])
  /\ UNCHANGED << drop, documents, waybill, notices, elsewhere >>

\* Mutant: the loop ends with the first order that fails.
AbandonList(a) == Hold(a, Idle)

\* The catch in the loop: an order that fails is reported, the next one begins.
NextOrder(a) ==
  Hold(a, IF Len(task[a].todo) = 1 THEN Idle
          ELSE [step |-> "ttn", todo |-> Tail(task[a].todo)])

\* The answer for an order that cannot have a waybill, or whose call failed.
ReportError(a) == NextOrder(a)

\* Mutant: the order's delivery is not looked at.
CanHaveTtnAgain(o) == order[o].status = "ready_to_ship"

CanHaveTtn(o) == order[o].status = "ready_to_ship" /\ order[o].delivery = NoDelivery

\* The order is read and checked.
TtnRead(a) ==
  /\ At(a, "ttn")
  /\ LET o == Head(task[a].todo)
     IN IF CanHaveTtn(o)
        THEN Hold(a, [step |-> "call", todo |-> task[a].todo, copy |-> o])
        ELSE ReportError(a)
  /\ UNCHANGED << drop, documents, waybill, notices, elsewhere >>

\* NovaPoshtaService.createTtn answers with a waybill.
TtnIssued(a) ==
  /\ At(a, "call")
  /\ waybill[task[a].copy] < MaxWaybills
  /\ waybill' = [waybill EXCEPT ![task[a].copy] = @ + 1]
  /\ Hold(a, [ step |-> "store", todo |-> task[a].todo, copy |-> task[a].copy,
               number |-> waybill[task[a].copy] + 1 ])
  /\ UNCHANGED << drop, documents, notices, elsewhere >>

\* It throws: the request was refused, or carried out and its answer lost.
TtnFails(a) ==
  /\ At(a, "call")
  /\ \/ UNCHANGED waybill
     \/ /\ waybill[task[a].copy] < MaxWaybills
        /\ waybill' = [waybill EXCEPT ![task[a].copy] = @ + 1]
  /\ Go(a, "problem")
  /\ UNCHANGED << drop, documents, notices, elsewhere >>

\* The order is saved as a delivery problem, whatever it has become.
MarkProblem(a) ==
  /\ At(a, "problem")
  /\ order' = [order EXCEPT ![task[a].copy].status = "delivery_problem"]
  /\ ReportError(a)
  /\ UNCHANGED << drop, package, delivery, waybill, notices, elsewhere >>

\* Mutant: the order is linked before its delivery document exists.
LinkFirst(a) ==
  /\ At(a, "store")
  /\ order' = [order EXCEPT ![task[a].copy].delivery = task[a].number]
  /\ Go(a, "link")
  /\ UNCHANGED << drop, package, delivery, waybill, notices, elsewhere >>

\* The delivery document is created, then the order is saved with it.
StoreDelivery(a) ==
  /\ At(a, "store")
  /\ delivery' = [delivery EXCEPT ![task[a].copy] = @ \cup {task[a].number}]
  /\ Go(a, "link")
  /\ UNCHANGED << drop, order, package, waybill, notices, elsewhere >>

LinkDelivery(a) ==
  /\ At(a, "link")
  /\ order' = [order EXCEPT ![task[a].copy].delivery = task[a].number]
  /\ NextOrder(a)
  /\ UNCHANGED << drop, package, delivery, waybill, notices, elsewhere >>

\* A database call fails inside the loop (reported, the loop goes on), or the
\* request ends: a failed call elsewhere, or a restart of the process.
LoopError(a) ==
  /\ env.faults
  /\ task[a].step \in {"ttn", "problem", "store", "link"}
  /\ ReportError(a)
  /\ UNCHANGED << drop, documents, waybill, notices, elsewhere >>

Fail(a) ==
  /\ env.faults
  /\ task[a] # Idle
  /\ Hold(a, Idle)
  /\ UNCHANGED << drop, documents, waybill, notices, elsewhere >>

-----------------------------------------------------------------------------
(* Buyers: cancelOrder and updateOrderSize; updateOrderDelivery is alike, of
   data nothing here reads. *)

BuyerRead(b) ==
  /\ b \in env.buyers /\ BuyerAt(b, "idle")
  /\ \E o \in Orders :
       \/ /\ order[o].status \notin BlockedCancelStatuses
          /\ BuyerHolds(b, [step |-> "cancel", order |-> o])
       \/ /\ order[o].status \notin BlockedUpdateStatuses
          /\ \E z \in Sizes \ {order[o].size} :
               BuyerHolds(b, [step |-> "resize", order |-> o, size |-> z])
  /\ UNCHANGED << env, drop, documents, waybill, notices, task >>

\* The save writes the fields that were changed and no other.
BuyerSave(b) ==
  /\ ~BuyerAt(b, "idle")
  /\ LET o == buyer[b].order
     IN order' = [order EXCEPT ![o] =
          CASE BuyerAt(b, "cancel") -> [@ EXCEPT !.status = "cancelled"]
            [] BuyerAt(b, "resize") -> [@ EXCEPT !.size = buyer[b].size]]
  /\ BuyerHolds(b, Idle)
  /\ UNCHANGED << env, drop, package, delivery, waybill, notices, task >>

-----------------------------------------------------------------------------
Closing(a) == SettleOne(a) \/ Settled(a)
Ensuring(a) == EnsureRead(a) \/ EnsureFind(a) \/ EnsureGather(a) \/ EnsureCreate(a)
Producing(a) == MarkOrders(a) \/ NotifyOwners(a) \/ MoveSave(a)
Shipping(a) ==
  TtnRead(a) \/ TtnIssued(a) \/ TtnFails(a) \/ MarkProblem(a)
  \/ StoreDelivery(a) \/ LinkDelivery(a)

\* A request that has begun runs on.
Continue(a) == Closing(a) \/ Ensuring(a) \/ Producing(a) \/ Shipping(a)
Begin(a) == CloseDrop(a) \/ RequestPackage(a) \/ MoveRead(a) \/ TtnRequest(a)

Next ==
  \/ \E a \in Admins : Begin(a) \/ Continue(a) \/ LoopError(a) \/ Fail(a)
  \/ \E b \in Buyers : BuyerRead(b) \/ BuyerSave(b)
  \/ \E o \in Orders : OperatorMark(o)

Spec == Init /\ [][Next]_vars
FairSpec == Spec /\ \A a \in Admins : WF_vars(Continue(a))

-----------------------------------------------------------------------------
(* Properties *)

OrderTypeOK ==
  order \in [Orders -> [ status : OrderStatuses, size : Sizes,
                         delivery : (1 .. MaxWaybills) \cup {NoDelivery} ]]

\* Types: every status is one its schema names, every number one that was given.
TypeOK ==
  /\ env \in Envs
  /\ drop \in {"guaranteed", "successful"}
  /\ OrderTypeOK
  /\ \A k \in Made : /\ package[k].status \in PackageStatuses
                     /\ package[k].orderIds \subseteq Orders
                     /\ package[k].totalQuantity \in Nat
  /\ delivery \in [Orders -> SUBSET (1 .. MaxWaybills)]
  /\ waybill \in [Orders -> 0 .. MaxWaybills]
  /\ notices \subseteq Orders

\* One request of an administrator at a time, and no call fails.
Calm == Cardinality({ a \in Admins : env.duties[a] # {} }) = 1 /\ ~env.faults

\* A drop has one production package, however many transitions and
\* ensure-package requests overlap, and it adds up: the producer's total is what
\* the listed orders ask for and the sum of the sizes, even when sizes change
\* while the package is made.
PackageAddsUp ==
  /\ Cardinality(Made) <= 1
  /\ \A k \in Made :
       LET p == package[k]
       IN /\ p.totalQuantity = PieceCount(p.orderIds)
          /\ p.totalQuantity =
               MapThenSumSet(LAMBDA z : p.sizeBreakdown[z], DOMAIN p.sizeBreakdown)

\* Without overlap or failure, an order is ready to ship only when its package
\* is, or is being saved so: nothing takes the package back.
ReadyMeansProduced ==
  Calm => \A o \in Orders : order[o].status = "ready_to_ship" =>
    \E k \in Made :
      /\ o \in package[k].orderIds
      /\ \/ package[k].status = "ready_to_ship"
         \/ \E a \in Admins : At(a, "notify") \/ At(a, "save")

\* For each order one waybill (docs/LimitWear_Baseline.md, 2.13.3), also when a
\* list names an order twice or Nova Poshta answers with an error after issuing.
OneWaybill == Calm => \A o \in Orders : waybill[o] <= 1

\* Every delivery document stands for a waybill of its order, and the delivery
\* an order names exists, under any interleaving and any failure.
DeliveriesAreIssued ==
  \A o \in Orders :
    /\ delivery[o] \subseteq 1 .. waybill[o]
    /\ order[o].delivery = NoDelivery \/ order[o].delivery \in delivery[o]

\* A drop that is closed gets its production package: the transition ends with it.
ClosedDropIsPackaged ==
  \A a \in Admins :
    (~env.faults /\ At(a, "settle")) ~> (Made # {})

\* An order of a list that could be shipped is: an order before it that fails
\* does not stop the list.
ListIsServed ==
  \A a \in Admins : \A o \in Orders :
    (~env.faults /\ At(a, "ttn") /\ o \in ToSet(task[a].todo) /\ CanHaveTtn(o))
      ~> ~CanHaveTtn(o)

\* "Your LimitWear order is ready for Nova Poshta delivery." (the notice of
\* markOrdersReadyToShip): broken when nothing sets orders to in_production.
NoticeIsTrue ==
  \A o \in notices : order[o].status \in {"ready_to_ship", "delivery_problem"}
=============================================================================
