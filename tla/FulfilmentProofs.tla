-------------------------- MODULE FulfilmentProofs --------------------------
(***************************************************************************)
(* For any number of orders, administrators and buyers at work at once: a  *)
(* delivery stands for a waybill of its order, and a drop has one          *)
(* production package, which adds up.  Between the answer of Nova          *)
(* Poshta and the last save of an order a request holds the number alone,  *)
(* so what each suspended request holds is part of what is kept (TaskOK),  *)
(* and no other step takes away what it relies on (Growth).                *)
(* With one administrator at work and no failing call, an order has one    *)
(* waybill at most (WInv), and is ready only with its package (RInv).      *)
(***************************************************************************)
EXTENDS Fulfilment, SequenceTheorems, SumTheorems

OrderDocs ==
  [ status : OrderStatuses, size : Sizes, delivery : (1 .. MaxWaybills) \cup {NoDelivery} ]

\* What the sizes ask for is what the orders of S ask for.
Adds(sizes, S) == SumOver(sizes, DOMAIN sizes) = PieceCount(S)

\* A package document with the total of the orders it lists.
IsPackage(doc) ==
  \E s \in PackageStatuses, S \in SUBSET Orders : \E sizes :
    Adds(sizes, S) /\ doc = [ status |-> s, orderIds |-> S, totalQuantity |-> PieceCount(S),
                             sizeBreakdown |-> sizes ]

\* What a suspended request holds, the packages to be created apart.
Lists == Seq(Orders) \ {<< >>}
Tasks ==
  {Idle}
  \cup [step : {"settle"}, todo : SUBSET Orders]
  \cup [step : {"ensure", "find", "gather"}]
  \cup [step : {"mark", "notify", "save"}, package : Packages, target : PackageStatuses]
  \cup [step : {"ttn"}, todo : Lists]
  \cup [step : {"call", "problem"}, todo : Lists, copy : Orders]
  \cup [step : {"store", "link"}, todo : Lists, copy : Orders, number : 1 .. MaxWaybills]
IsCreation(t) ==
  \E S \in SUBSET Orders : \E sizes :
    Adds(sizes, S) /\ t = [ step |-> "create", orderIds |-> S,
                           totalQuantity |-> PieceCount(S), sizeBreakdown |-> sizes ]

BuyerTasks ==
  {Idle} \cup [step : {"cancel"}, order : Orders]
  \cup [step : {"resize"}, order : Orders, size : Sizes]

\* The package a task names exists; a number that is not stored yet was issued for
\* the order, and one that is not linked yet is stored.
TaskOK(t) ==
  \/ IsCreation(t)
  \/ /\ t \in Tasks
     /\ t.step \in {"mark", "notify", "save"} => t.package \in Made
     /\ t.step = "store" => t.number \in 1 .. waybill[t.copy]
     /\ t.step = "link" => t.number \in delivery[t.copy]

DocsOK ==
  /\ order \in [Orders -> OrderDocs]
  /\ delivery \in [Orders -> SUBSET (1 .. MaxWaybills)]
  /\ waybill \in [Orders -> 0 .. MaxWaybills]
  /\ DeliveriesAreIssued
  /\ DOMAIN package = Packages
  /\ \A k \in Made : IsPackage(package[k])
  /\ \A j, k \in Made : j = k
  /\ buyer \in [Buyers -> BuyerTasks]

IInv == DocsOK /\ DOMAIN task = Admins /\ \A a \in Admins : TaskOK(task[a])

\* No step takes away what a task relies on.
Growth ==
  /\ Made \subseteq Made'
  /\ \A o \in Orders : delivery[o] \subseteq delivery'[o] /\ waybill[o] <= waybill'[o]

-----------------------------------------------------------------------------
(* What the steps have in common *)

\* buildSizeBreakdown puts every order it is given into one size.
LEMMA SizeSums ==
  ASSUME NEW copy, NEW S \in SUBSET Orders
  PROVE  Adds(SizeBreakdown(copy, S), S)
<1>1. PICK g : g = SizeBreakdown(copy, S)
  OBVIOUS
<1>2. PICK key : key = [o \in S |-> copy[o].size]
  OBVIOUS
<1>3. DOMAIN g = KeysOf(key, S)
  BY <1>1, <1>2 DEF SizeBreakdown, KeysOf
<1>4. ASSUME NEW z \in KeysOf(key, S)
      PROVE  g[z] = SumOver(Quantity, Group(key, S, z))
  <2>1. Group(key, S, z) = { o \in S : copy[o].size = z }
    BY <1>2 DEF Group
  <2>2. g[z] = PieceCount({ o \in S : copy[o].size = z })
    BY <1>1, <1>3, <1>4 DEF SizeBreakdown
  <2> QED
    BY <2>1, <2>2 DEF PieceCount, SumOver
<1>5. IsFiniteSet(S) /\ \A o \in S : Quantity[o] \in Int
  BY OrdersAssumption, QuantityAssumption, FS_Subset
<1>6. SumOver(g, KeysOf(key, S)) = SumOver(Quantity, S)
  BY <1>4, <1>5, SumByKey
<1>7. SumOver(Quantity, S) = PieceCount(S)
  BY DEF PieceCount, SumOver
<1>8. SumOver(g, DOMAIN g) = PieceCount(S)
  BY <1>3, <1>6, <1>7
<1> QED
  BY <1>1, <1>8 DEF Adds

LEMMA Stable ==
  ASSUME IInv, DocsOK', Growth, NEW t, TaskOK(t)
  PROVE  TaskOK(t)'
<1>1. CASE IsCreation(t)
  BY <1>1 DEF TaskOK, IsCreation
<1>2. CASE /\ t \in Tasks
           /\ t.step \in {"mark", "notify", "save"} => t.package \in Made
           /\ t.step = "store" => t.number \in 1 .. waybill[t.copy]
           /\ t.step = "link" => t.number \in delivery[t.copy]
  <2>1. t.step \in {"store", "link"} => t.copy \in Orders
    BY <1>2 DEF Tasks, Idle
  <2>2. t.step = "store" => t.number \in 1 .. waybill'[t.copy]
    BY <1>2, <2>1 DEF Growth, IInv, DocsOK
  <2>3. t.step = "link" => t.number \in delivery'[t.copy]
    BY <1>2, <2>1 DEF Growth
  <2>4. t.step \in {"mark", "notify", "save"} => t.package \in Made'
    BY <1>2 DEF Growth
  <2> QED
    BY <1>2, <2>2, <2>3, <2>4 DEF TaskOK
<1> QED
  BY <1>1, <1>2 DEF TaskOK

\* A step that works on a task.
LEMMA Works ==
  ASSUME IInv, DocsOK', Growth, NEW a \in Admins, NEW t, TaskOK(t)', Hold(a, t)
  PROVE  IInv'
<1>1. /\ DOMAIN task' = Admins
      /\ task'[a] = t
      /\ \A b \in Admins : b # a => task'[b] = task[b]
  BY DEF Hold, IInv
<1>2. ASSUME NEW b \in Admins
      PROVE  TaskOK(task[b])'
  <2>1. PICK s : s = task'[b]
    OBVIOUS
  <2>2. TaskOK(s)'
    <3>1. CASE b = a
      BY <1>1, <2>1, <3>1
    <3>2. CASE b # a
      <4>1. TaskOK(s)
        BY <1>1, <2>1, <3>2 DEF IInv
      <4> QED
        BY <4>1, Stable
    <3> QED
      BY <3>1, <3>2
  <2> QED
    BY <2>1, <2>2 DEF TaskOK, IsCreation
<1> QED
  BY <1>1, <1>2 DEF IInv

\* A step that works on none.
LEMMA Rests ==
  ASSUME IInv, DocsOK', Growth, UNCHANGED task
  PROVE  IInv'
<1>1. ASSUME NEW b \in Admins
      PROVE  TaskOK(task[b])'
  <2>1. PICK s : s = task[b]
    OBVIOUS
  <2>2. TaskOK(s)'
    BY <2>1, Stable DEF IInv
  <2> QED
    BY <2>1, <2>2 DEF TaskOK, IsCreation
<1> QED
  BY <1>1 DEF IInv

\* A step that changes orders, each with a delivery it had or one that is stored.
LEMMA OrdersChange ==
  ASSUME IInv, order' \in [Orders -> OrderDocs], UNCHANGED << package, delivery, waybill >>,
         buyer' \in [Buyers -> BuyerTasks],
         \A o \in Orders : order'[o].delivery \in {order[o].delivery} \cup delivery[o]
  PROVE  DocsOK' /\ Growth
<1>1. Made' = Made
  BY DEF Made
<1>2. DeliveriesAreIssued'
  BY DEF IInv, DocsOK, DeliveriesAreIssued
<1>3. \A k \in Made : IsPackage(package[k])'
  BY DEF IInv, DocsOK, IsPackage
<1>4. \A o \in Orders : waybill[o] <= waybill'[o]
  BY DEF IInv, DocsOK
<1> QED
  BY <1>1, <1>2, <1>3, <1>4 DEF IInv, DocsOK, Growth

\* A step that only moves a task on.
LEMMA Moves ==
  ASSUME IInv, UNCHANGED << order, package, delivery, waybill, buyer >>, NEW a \in Admins,
         NEW t, TaskOK(t), Hold(a, t)
  PROVE  IInv'
<1>1. DocsOK' /\ Growth
  BY OrdersChange DEF IInv, DocsOK
<1> QED
  BY <1>1, Stable, Works

LEMMA IdleOK == TaskOK(Idle)
BY DEF TaskOK, Idle, Tasks

LEMMA IdleStaysOK == TaskOK(Idle)'
BY DEF TaskOK, Idle, Tasks

LEMMA InitIInv == Init => IInv
<1> SUFFICES ASSUME Init PROVE IInv
  OBVIOUS
<1>1. Made = {}
  BY DEF Init, Made
<1>2. DocsOK
  BY <1>1, SizeAskedAssumption, MaxWaybillsAssumption
  DEF Init, DocsOK, OrderDocs, OrderStatuses, DeliveriesAreIssued, BuyerTasks
<1>3. DOMAIN task = Admins /\ \A a \in Admins : task[a] = Idle
  BY DEF Init
<1> QED
  BY <1>2, <1>3, IdleOK DEF IInv, TaskOK

-----------------------------------------------------------------------------
(* The transition of the drop and the package *)

\* Steps that read, or only move the request on.
LEMMA EnsureMoves ==
  ASSUME IInv, NEW a \in Admins,
         Settled(a) \/ RequestPackage(a) \/ EnsureRead(a) \/ EnsureFind(a) \/ EnsureGather(a)
  PROVE  IInv'
<1>1. UNCHANGED << order, package, delivery, waybill, buyer >>
  BY DEF Settled, RequestPackage, EnsureRead, EnsureFind, EnsureGather, documents, elsewhere
<1>2. PICK t :
        /\ Hold(a, t)
        /\ \/ t \in {Idle} \cup [step : {"ensure", "find", "gather"}]
           \/ IsCreation(t)
  <2>1. CASE EnsureGather(a)
    <3> DEFINE listed == { o \in Orders : order[o].status \in ProductionOrderStatuses }
    <3>1. listed \in SUBSET Orders
      OBVIOUS
    <3>2. PICK t : t = [ step |-> "create", orderIds |-> listed,
                         totalQuantity |-> PieceCount(listed),
                         sizeBreakdown |-> SizeBreakdown(order, listed) ]
      OBVIOUS
    <3>3. Hold(a, t)
      BY <2>1, <3>2 DEF EnsureGather
    <3>4. IsCreation(t)
      BY <3>1, <3>2, SizeSums DEF IsCreation
    <3> QED
      BY <3>3, <3>4
  <2>2. CASE Settled(a) \/ RequestPackage(a) \/ EnsureRead(a) \/ EnsureFind(a)
    BY <2>2 DEF Settled, RequestPackage, EnsureRead, EnsureFind
  <2> QED
    BY <2>1, <2>2
<1>3. TaskOK(t)
  BY <1>2 DEF TaskOK, Tasks, Idle
<1> QED
  BY <1>1, <1>2, <1>3, Moves

\* The drop's status is saved; the orders to settle are listed.
LEMMA CloseStep ==
  ASSUME IInv, NEW a \in Admins, CloseDrop(a)
  PROVE  IInv'
<1>1. PICK t : t = [ step |-> "settle",
                     todo |-> { o \in Orders : order[o].status = "reserved" } ]
  OBVIOUS
<1>2. TaskOK(t) /\ Hold(a, t)
  BY <1>1 DEF TaskOK, Tasks, CloseDrop
<1> QED
  BY <1>2, Moves DEF CloseDrop, documents, elsewhere

LEMMA SettleStep ==
  ASSUME IInv, NEW a \in Admins, SettleOne(a)
  PROVE  IInv'
<1>1. TaskOK(task[a]) /\ task[a].step = "settle"
  BY DEF SettleOne, At, IInv
<1>2. task[a] \in [step : {"settle"}, todo : SUBSET Orders]
  <2>1. ASSUME IsCreation(task[a])
        PROVE  FALSE
    <3>1. task[a].step = "create"
      BY <2>1 DEF IsCreation
    <3> QED
      BY <1>1, <3>1
  <2> QED
    BY <1>1, <2>1 DEF TaskOK, Tasks, Idle
<1>3. PICK o \in task[a].todo :
        /\ Hold(a, [task[a] EXCEPT !.todo = @ \ {o}])
        /\ \/ order' = [order EXCEPT ![o].status = "paid"]
           \/ UNCHANGED order
  BY DEF SettleOne
<1>4. PICK t : t = [task[a] EXCEPT !.todo = @ \ {o}]
  OBVIOUS
<1>5. TaskOK(t)
  BY <1>2, <1>4 DEF TaskOK, Tasks
<1>6. order' \in [Orders -> OrderDocs] /\ \A p \in Orders : order'[p].delivery = order[p].delivery
  BY <1>2, <1>3 DEF IInv, DocsOK, OrderDocs, OrderStatuses
<1>7. DocsOK' /\ Growth
  BY <1>6, OrdersChange DEF SettleOne, elsewhere, IInv, DocsOK
<1> QED
  BY <1>3, <1>4, <1>5, <1>7, Stable, Works

\* The look at the unique index and the insertion are one call.
LEMMA CreateStep ==
  ASSUME IInv, NEW a \in Admins, EnsureCreate(a)
  PROVE  IInv'
<1>1. TaskOK(task[a]) /\ task[a].step = "create"
  BY DEF EnsureCreate, At, IInv
<1>2. IsCreation(task[a])
  BY <1>1 DEF TaskOK, Tasks, Idle
<1>3. Hold(a, Idle) /\ UNCHANGED << order, delivery, waybill, buyer >>
  BY DEF EnsureCreate, elsewhere
<1>4. CASE Made = {}
  <2>1. PICK k \in Packages :
          package' = [package EXCEPT ![k] =
            [ status |-> "ready_for_production", orderIds |-> task[a].orderIds,
              totalQuantity |-> task[a].totalQuantity,
              sizeBreakdown |-> task[a].sizeBreakdown ]]
    BY <1>4 DEF EnsureCreate
  <2>2. DOMAIN package' = Packages /\ \A j \in Packages : j # k => package'[j] = package[j]
    BY <2>1 DEF IInv, DocsOK
  <2>3. IsPackage(package'[k])
    <3>1. package'[k] =
            [ status |-> "ready_for_production", orderIds |-> task[a].orderIds,
              totalQuantity |-> task[a].totalQuantity, sizeBreakdown |-> task[a].sizeBreakdown ]
      BY <2>1 DEF IInv, DocsOK
    <3>2. PICK S \in SUBSET Orders : \E sizes :
            Adds(sizes, S) /\ task[a] = [ step |-> "create", orderIds |-> S,
              totalQuantity |-> PieceCount(S), sizeBreakdown |-> sizes ]
      BY <1>2 DEF IsCreation
    <3>3. /\ task[a].orderIds = S /\ task[a].totalQuantity = PieceCount(S)
          /\ Adds(task[a].sizeBreakdown, S)
      BY <3>2
    <3> QED
      BY <3>1, <3>2, <3>3 DEF IsPackage, PackageStatuses
  <2>4. \A j \in Made' : j = k
    BY <1>4, <2>2 DEF Made
  <2>5. \A j \in Made' : IsPackage(package'[j])
    BY <2>3, <2>4
  <2>6. DeliveriesAreIssued'
    BY <1>3 DEF IInv, DocsOK, DeliveriesAreIssued
  <2>7. DocsOK'
    BY <1>3, <2>2, <2>4, <2>5, <2>6 DEF IInv, DocsOK, IsPackage
  <2>8. Growth
    BY <1>3, <1>4 DEF Growth, IInv, DocsOK
  <2> QED
    BY <1>3, <2>7, <2>8, IdleStaysOK, Works
<1>5. CASE Made # {}
  BY <1>3, <1>5, IdleOK, Moves DEF EnsureCreate
<1> QED
  BY <1>4, <1>5

-----------------------------------------------------------------------------
(* The production package *)

\* What a suspended move holds.
LEMMA MoveTask ==
  ASSUME IInv, NEW a \in Admins, task[a].step \in {"mark", "notify", "save"}
  PROVE  /\ task[a] \in [step : {"mark", "notify", "save"}, package : Packages,
                         target : PackageStatuses]
         /\ task[a].package \in Made
BY DEF IInv, TaskOK, IsCreation, Tasks, Idle

LEMMA TransitionsAreStatuses ==
  ASSUME NEW s \in PackageStatuses
  PROVE  ProductionTransitions[s] \subseteq PackageStatuses
BY DEF ProductionTransitions, PackageLifecycle, PackageStatuses

LEMMA MoveReadStep ==
  ASSUME IInv, NEW a \in Admins, MoveRead(a)
  PROVE  IInv'
<1>1. PICK k \in Made : \E target \in ProductionTransitions[package[k].status] :
        Hold(a, [ package |-> k, target |-> target,
                  step |-> IF target = "ready_to_ship" THEN "mark" ELSE "save" ])
  BY DEF MoveRead
<1>2. k \in Packages /\ package[k].status \in PackageStatuses
  BY DEF Made, IInv, DocsOK, IsPackage
<1>3. PICK target \in PackageStatuses :
        Hold(a, [ package |-> k, target |-> target,
                  step |-> IF target = "ready_to_ship" THEN "mark" ELSE "save" ])
  BY <1>1, <1>2, TransitionsAreStatuses
<1>4. PICK t : t = [ package |-> k, target |-> target,
                     step |-> IF target = "ready_to_ship" THEN "mark" ELSE "save" ]
  OBVIOUS
<1>5. t \in [step : {"mark", "notify", "save"}, package : Packages, target : PackageStatuses]
  BY <1>2, <1>4
<1>6. TaskOK(t)
  BY <1>4, <1>5 DEF TaskOK, Tasks
<1> QED
  BY <1>3, <1>4, <1>6, Moves DEF MoveRead, documents, elsewhere

LEMMA MarkStep ==
  ASSUME IInv, NEW a \in Admins, MarkOrders(a) \/ NotifyOwners(a)
  PROVE  IInv'
<1>1. task[a].step \in {"mark", "notify"}
  BY DEF MarkOrders, NotifyOwners, At
<1>2. PICK t : t = task[a] /\ t \in [step : {"mark", "notify", "save"}, package : Packages,
                                     target : PackageStatuses]
             /\ t.package \in Made
  BY <1>1, MoveTask
<1>3. PICK s : /\ s = [t EXCEPT !.step = "notify"] \/ s = [t EXCEPT !.step = "save"]
               /\ Hold(a, s)
  BY <1>2 DEF MarkOrders, NotifyOwners, Go
<1>4. TaskOK(s)
  <2>1. s \in [step : {"mark", "notify", "save"}, package : Packages, target : PackageStatuses]
    BY <1>2, <1>3
  <2> QED
    BY <1>2, <1>3, <2>1 DEF TaskOK, Tasks
<1>5. /\ order' \in [Orders -> OrderDocs]
      /\ \A o \in Orders : order'[o].delivery = order[o].delivery
  BY DEF MarkOrders, NotifyOwners, documents, IInv, DocsOK, OrderDocs, OrderStatuses
<1>6. DocsOK' /\ Growth
  BY <1>5, OrdersChange DEF MarkOrders, NotifyOwners, documents, elsewhere, IInv, DocsOK
<1> QED
  BY <1>3, <1>4, <1>6, Stable, Works

\* A save changes the status of a package that exists.
LEMMA MoveSaveStep ==
  ASSUME IInv, NEW a \in Admins, MoveSave(a)
  PROVE  IInv'
<1> DEFINE k == task[a].package
<1>1. k \in Made /\ k \in Packages /\ task[a].target \in PackageStatuses
  BY MoveTask DEF MoveSave, At
<1>2. PICK s \in PackageStatuses, S \in SUBSET Orders : \E sizes :
        Adds(sizes, S) /\ package[k] = [ status |-> s, orderIds |-> S,
          totalQuantity |-> PieceCount(S), sizeBreakdown |-> sizes ]
  BY <1>1 DEF IInv, DocsOK, IsPackage
<1>3. PICK sizes :
        Adds(sizes, S) /\ package[k] = [ status |-> s, orderIds |-> S,
          totalQuantity |-> PieceCount(S), sizeBreakdown |-> sizes ]
  BY <1>2
<1>4. /\ Hold(a, Idle)
      /\ package' = [package EXCEPT ![k].status = task[a].target]
      /\ UNCHANGED << order, delivery, waybill, buyer >>
  BY DEF MoveSave, elsewhere
<1>5. DOMAIN package' = Packages /\ \A j \in Packages : j # k => package'[j] = package[j]
  BY <1>4 DEF IInv, DocsOK
<1>6. package'[k] = [ status |-> task[a].target, orderIds |-> S,
                      totalQuantity |-> PieceCount(S), sizeBreakdown |-> sizes ]
  BY <1>1, <1>3, <1>4 DEF IInv, DocsOK
<1>7. IsPackage(package'[k])
  BY <1>1, <1>3, <1>6 DEF IsPackage
<1>8. package'[k].status # "absent"
  BY <1>1, <1>6 DEF PackageStatuses
<1>9. Made' = Made
  BY <1>1, <1>5, <1>8 DEF Made
<1>10. DeliveriesAreIssued'
  BY <1>4 DEF IInv, DocsOK, DeliveriesAreIssued
<1>11. \A j \in Made' : IsPackage(package'[j])
  BY <1>5, <1>7, <1>9 DEF IInv, DocsOK, Made
<1>12. DocsOK'
  BY <1>4, <1>5, <1>9, <1>10, <1>11 DEF IInv, DocsOK, IsPackage
<1>13. Growth
  BY <1>4, <1>9 DEF Growth, IInv, DocsOK
<1> QED
  BY <1>4, <1>12, <1>13, IdleStaysOK, Works

\* An operator's edit and a buyer's requests leave the delivery of an order alone.
LEMMA OperatorStep ==
  ASSUME IInv, NEW o \in Orders, OperatorMark(o)
  PROVE  IInv'
<1>1. /\ order' \in [Orders -> OrderDocs]
      /\ \A p \in Orders : order'[p].delivery = order[p].delivery
  BY DEF OperatorMark, IInv, DocsOK, OrderDocs, OrderStatuses
<1>2. DocsOK' /\ Growth
  BY <1>1, OrdersChange DEF OperatorMark, IInv, DocsOK
<1> QED
  BY <1>2, Rests DEF OperatorMark

LEMMA BuyerStep ==
  ASSUME IInv, NEW b \in Buyers, BuyerRead(b) \/ BuyerSave(b)
  PROVE  IInv'
<1>1. buyer[b] \in BuyerTasks
  BY DEF IInv, DocsOK
<1>2. CASE BuyerRead(b)
  <2>1. buyer' \in [Buyers -> BuyerTasks]
    BY <1>2 DEF BuyerRead, BuyerHolds, BuyerTasks, IInv, DocsOK
  <2>2. DocsOK' /\ Growth
    BY <1>2, <2>1, OrdersChange DEF BuyerRead, documents, IInv, DocsOK
  <2> QED
    BY <1>2, <2>2, Rests DEF BuyerRead
<1>3. CASE BuyerSave(b)
  <2>1. buyer' \in [Buyers -> BuyerTasks]
    BY <1>3 DEF BuyerSave, BuyerHolds, BuyerTasks, IInv, DocsOK
  <2>2. /\ buyer[b].order \in Orders
        /\ \/ BuyerAt(b, "cancel")
           \/ BuyerAt(b, "resize") /\ ~BuyerAt(b, "cancel") /\ buyer[b].size \in Sizes
    BY <1>1, <1>3 DEF BuyerSave, BuyerTasks, BuyerAt, Idle
  <2>3. PICK o \in Orders : o = buyer[b].order
    BY <2>2
  <2>4. order[o] \in OrderDocs /\ order \in [Orders -> OrderDocs]
    BY DEF IInv, DocsOK
  <2>5. /\ order' \in [Orders -> OrderDocs]
        /\ \A p \in Orders : order'[p].delivery = order[p].delivery
    <3>1. CASE BuyerAt(b, "cancel")
      <4>1. order' = [order EXCEPT ![o] = [@ EXCEPT !.status = "cancelled"]]
        BY <1>3, <2>3, <3>1 DEF BuyerSave, BuyerAt
      <4> QED
        BY <2>4, <4>1 DEF OrderDocs, OrderStatuses
    <3>2. CASE BuyerAt(b, "resize") /\ ~BuyerAt(b, "cancel") /\ buyer[b].size \in Sizes
      <4>1. order' = [order EXCEPT ![o] = [@ EXCEPT !.size = buyer[b].size]]
        BY <1>3, <2>3, <3>2 DEF BuyerSave, BuyerAt
      <4> QED
        BY <2>4, <3>2, <4>1 DEF OrderDocs, OrderStatuses
    <3> QED
      BY <2>2, <3>1, <3>2
  <2>6. DocsOK' /\ Growth
    BY <1>3, <2>1, <2>5, OrdersChange DEF BuyerSave
  <2> QED
    BY <1>3, <2>6, Rests DEF BuyerSave
<1> QED
  BY <1>2, <1>3

-----------------------------------------------------------------------------
(* Delivery: a number is issued, stored and linked in three calls *)

\* What a suspended request for waybills holds.
LEMMA ShipTask ==
  ASSUME IInv, NEW a \in Admins,
         task[a].step \in {"ttn", "call", "problem", "store", "link"}
  PROVE  /\ task[a] \in Tasks
         /\ task[a].todo \in Lists
         /\ task[a].step # "ttn" => task[a].copy \in Orders
         /\ task[a].step \in {"store", "link"} => task[a].number \in 1 .. MaxWaybills
         /\ task[a].step = "store" => task[a].number \in 1 .. waybill[task[a].copy]
         /\ task[a].step = "link" => task[a].number \in delivery[task[a].copy]
<1>1. ASSUME IsCreation(task[a])
      PROVE  FALSE
  <2>1. task[a].step = "create"
    BY <1>1 DEF IsCreation
  <2> QED
    BY <2>1
<1>2. task[a] \in Tasks
  BY <1>1 DEF IInv, TaskOK
<1>3. /\ task[a].todo \in Lists
      /\ task[a].step # "ttn" => task[a].copy \in Orders
      /\ task[a].step \in {"store", "link"} => task[a].number \in 1 .. MaxWaybills
  BY <1>2 DEF Tasks, Idle
<1> QED
  BY <1>1, <1>2, <1>3 DEF IInv, TaskOK

\* The next order of the list, or the end of it.
LEMMA NextOrderTask ==
  ASSUME IInv, NEW a \in Admins, NextOrder(a),
         task[a].step \in {"ttn", "call", "problem", "store", "link"}
  PROVE  \E t : TaskOK(t) /\ Hold(a, t)
<1>1. CASE Len(task[a].todo) = 1
  BY <1>1, IdleOK DEF NextOrder
<1>2. CASE Len(task[a].todo) # 1
  <2>1. PICK t : t = [step |-> "ttn", todo |-> Tail(task[a].todo)]
    OBVIOUS
  <2>2. Tail(task[a].todo) \in Lists
    <3>1. PICK list \in Seq(Orders) : list = task[a].todo /\ list # << >>
      BY ShipTask DEF Lists
    <3>2. Len(list) \in Nat \ {0} /\ Len(list) # 1
      <4>1. Len(list) # 1
        BY <1>2, <3>1
      <4>2. Len(list) \in Nat \ {0}
        BY <3>1, EmptySeq, Zenon
      <4> QED
        BY <4>1, <4>2
    <3>3. Tail(list) \in Seq(Orders) /\ Len(Tail(list)) = Len(list) - 1
      BY <3>1, <3>2
    <3>4. Tail(list) # << >>
      <4>1. Len(Tail(list)) # 0 /\ Len(<< >>) = 0
        BY <3>2, <3>3
      <4> QED
        BY <4>1
    <3> QED
      BY <3>1, <3>3, <3>4, Zenon DEF Lists
  <2>3. TaskOK(t)
    BY <2>1, <2>2 DEF TaskOK, Tasks
  <2> QED
    BY <1>2, <2>1, <2>3 DEF NextOrder
<1> QED
  BY <1>1, <1>2

\* Steps that leave every document as it is.
LEMMA ShipMoves ==
  ASSUME IInv, NEW a \in Admins, TtnRequest(a) \/ TtnRead(a) \/ LoopError(a) \/ Fail(a)
  PROVE  IInv'
<1>1. UNCHANGED << order, package, delivery, waybill, buyer >>
  BY DEF TtnRequest, TtnRead, LoopError, Fail, documents, elsewhere
<1>2. \E t : TaskOK(t) /\ Hold(a, t)
  <2>1. CASE TtnRequest(a)
    <3>1. PICK o \in Orders : \E rest \in {<< >>} \cup { << p >> : p \in Orders } :
            Hold(a, [step |-> "ttn", todo |-> << o >> \o rest])
      BY <2>1 DEF TtnRequest
    <3>2. PICK rest \in Seq(Orders) : Hold(a, [step |-> "ttn", todo |-> << o >> \o rest])
      <4>1. << >> \in Seq(Orders) /\ \A p \in Orders : << p >> \in Seq(Orders)
        OBVIOUS
      <4> QED
        BY <3>1, <4>1
    <3>3. << o >> \o rest \in Lists
      BY DEF Lists
    <3>4. PICK t : t = [step |-> "ttn", todo |-> << o >> \o rest]
      OBVIOUS
    <3>5. TaskOK(t)
      BY <3>3, <3>4 DEF TaskOK, Tasks
    <3> QED
      BY <3>2, <3>4, <3>5
  <2>2. CASE TtnRead(a)
    <3>1. task[a].step = "ttn" /\ task[a].todo \in Lists
      BY <2>2, ShipTask DEF TtnRead, At
    <3>2. Head(task[a].todo) \in Orders
      BY <3>1 DEF Lists
    <3>3. PICK t : t = [step |-> "call", todo |-> task[a].todo, copy |-> Head(task[a].todo)]
      OBVIOUS
    <3>4. TaskOK(t)
      BY <3>1, <3>2, <3>3 DEF TaskOK, Tasks
    <3>5. Hold(a, t) \/ NextOrder(a)
      BY <2>2, <3>3 DEF TtnRead, ReportError
    <3> QED
      BY <3>1, <3>4, <3>5, NextOrderTask
  <2>3. CASE LoopError(a)
    BY <2>3, NextOrderTask DEF LoopError, ReportError
  <2>4. CASE Fail(a)
    BY <2>4, IdleOK DEF Fail
  <2> QED
    BY <2>1, <2>2, <2>3, <2>4
<1> QED
  BY <1>1, <1>2, Moves

\* Nova Poshta answers, or does not: the count of its waybills grows.
LEMMA IssueStep ==
  ASSUME IInv, NEW a \in Admins, TtnIssued(a) \/ TtnFails(a)
  PROVE  IInv'
<1> DEFINE o == task[a].copy
<1>1. task[a].step = "call" /\ o \in Orders /\ task[a].todo \in Lists
  BY ShipTask DEF TtnIssued, TtnFails, At
<1>2. UNCHANGED << order, package, delivery, buyer >>
  BY DEF TtnIssued, TtnFails, documents, elsewhere
<1>3. /\ waybill[o] \in Nat
      /\ \/ UNCHANGED waybill
         \/ waybill[o] < MaxWaybills /\ waybill' = [waybill EXCEPT ![o] = @ + 1]
  BY <1>1, MaxWaybillsAssumption DEF TtnIssued, TtnFails, IInv, DocsOK
<1>4. /\ waybill' \in [Orders -> 0 .. MaxWaybills]
      /\ \A p \in Orders : waybill[p] <= waybill'[p] /\ waybill[p] \in Nat /\ waybill'[p] \in Nat
  BY <1>1, <1>3, MaxWaybillsAssumption DEF IInv, DocsOK
<1>5. DeliveriesAreIssued'
  BY <1>2, <1>4 DEF IInv, DocsOK, DeliveriesAreIssued
<1>6. DocsOK' /\ Growth
  <2>1. Made' = Made
    BY <1>2 DEF Made
  <2>2. DocsOK'
    BY <1>2, <1>4, <1>5, <2>1 DEF IInv, DocsOK, IsPackage
  <2>3. Growth
    BY <1>2, <1>4, <2>1 DEF Growth
  <2> QED
    BY <2>2, <2>3
<1>7. \E t : TaskOK(t)' /\ Hold(a, t)
  <2>1. CASE TtnIssued(a)
    <3>1. PICK t : t = [ step |-> "store", todo |-> task[a].todo, copy |-> o,
                         number |-> waybill[o] + 1 ]
      OBVIOUS
    <3>2. waybill'[o] = waybill[o] + 1 /\ waybill'[o] \in 1 .. MaxWaybills
      BY <1>1, <1>3, <1>4, <2>1 DEF TtnIssued, IInv, DocsOK
    <3>3. t \in Tasks /\ t.step = "store" /\ t.number \in 1 .. waybill'[t.copy]
      BY <1>1, <1>3, <3>1, <3>2 DEF Tasks
    <3>4. TaskOK(t)'
      BY <3>3 DEF TaskOK
    <3> QED
      BY <2>1, <3>1, <3>4 DEF TtnIssued
  <2>2. CASE TtnFails(a)
    <3>1. PICK s : s = task[a] /\ s \in Tasks /\ s.step = "call"
      BY <1>1, ShipTask
    <3>2. PICK t : t = [s EXCEPT !.step = "problem"]
      OBVIOUS
    <3>3. s \in [step : {"call", "problem"}, todo : Lists, copy : Orders]
      BY <3>1 DEF Tasks, Idle
    <3>4. t \in [step : {"call", "problem"}, todo : Lists, copy : Orders] /\ t.step = "problem"
      BY <3>2, <3>3
    <3>5. TaskOK(t)'
      BY <3>4 DEF TaskOK, Tasks
    <3> QED
      BY <2>2, <3>1, <3>2, <3>5 DEF TtnFails, Go
  <2> QED
    BY <2>1, <2>2
<1> QED
  BY <1>6, <1>7, Works

\* The delivery document is created with a number issued for its order.
LEMMA StoreStep ==
  ASSUME IInv, NEW a \in Admins, StoreDelivery(a)
  PROVE  IInv'
<1>1. PICK s : s = task[a]
  OBVIOUS
<1>2. /\ s.step = "store" /\ s.copy \in Orders
      /\ s.number \in 1 .. waybill[s.copy]
      /\ s.number \in 1 .. MaxWaybills
      /\ s \in [step : {"store", "link"}, todo : Lists, copy : Orders, number : 1 .. MaxWaybills]
  <2>1. s.step = "store" /\ s \in Tasks
    BY <1>1, ShipTask DEF StoreDelivery, At
  <2> QED
    BY <1>1, <2>1, ShipTask DEF Tasks, Idle
<1>3. /\ delivery' = [delivery EXCEPT ![s.copy] = @ \cup {s.number}]
      /\ UNCHANGED << order, package, waybill, buyer >>
      /\ Hold(a, [s EXCEPT !.step = "link"])
  BY <1>1 DEF StoreDelivery, elsewhere, Go
<1>4. /\ delivery' \in [Orders -> SUBSET (1 .. MaxWaybills)]
      /\ delivery'[s.copy] = delivery[s.copy] \cup {s.number}
      /\ \A o \in Orders : o # s.copy => delivery'[o] = delivery[o]
  BY <1>2, <1>3 DEF IInv, DocsOK
<1>5. DeliveriesAreIssued'
  BY <1>2, <1>3, <1>4 DEF IInv, DocsOK, DeliveriesAreIssued
<1>6. Made' = Made
  BY <1>3 DEF Made
<1>7. DocsOK'
  <2>1. \A k \in Made : IsPackage(package[k])'
    BY <1>3 DEF IInv, DocsOK, IsPackage
  <2> QED
    BY <1>3, <1>4, <1>5, <1>6, <2>1 DEF IInv, DocsOK
<1>8. Growth
  BY <1>3, <1>4, <1>6 DEF Growth, IInv, DocsOK
<1>9. PICK t : t = [s EXCEPT !.step = "link"]
  OBVIOUS
<1>10. /\ t \in [step : {"store", "link"}, todo : Lists, copy : Orders, number : 1 .. MaxWaybills]
       /\ t.step = "link" /\ t.number = s.number /\ t.copy = s.copy
  BY <1>2, <1>9
<1>11. TaskOK(t)'
  BY <1>4, <1>10 DEF TaskOK, Tasks
<1> QED
  BY <1>3, <1>7, <1>8, <1>9, <1>11, Works

\* The order is saved with its delivery, or as a delivery problem.
LEMMA LinkStep ==
  ASSUME IInv, NEW a \in Admins, LinkDelivery(a) \/ MarkProblem(a)
  PROVE  IInv'
<1> DEFINE o == task[a].copy
<1>1. o \in Orders /\ order[o] \in OrderDocs /\ task[a].step \in {"link", "problem"}
  BY ShipTask DEF LinkDelivery, MarkProblem, At, IInv, DocsOK
<1>2. /\ order' \in [Orders -> OrderDocs]
      /\ \A p \in Orders : order'[p].delivery \in {order[p].delivery} \cup delivery[p]
  <2>1. CASE LinkDelivery(a)
    <3>1. task[a].number \in delivery[o] /\ task[a].number \in 1 .. MaxWaybills
      BY <2>1, ShipTask DEF LinkDelivery, At
    <3> QED
      BY <1>1, <2>1, <3>1 DEF LinkDelivery, IInv, DocsOK, OrderDocs
  <2>2. CASE MarkProblem(a)
    BY <1>1, <2>2 DEF MarkProblem, IInv, DocsOK, OrderDocs, OrderStatuses
  <2> QED
    BY <2>1, <2>2
<1>3. DocsOK' /\ Growth
  BY <1>2, OrdersChange DEF LinkDelivery, MarkProblem, elsewhere, IInv, DocsOK
<1>4. PICK t : TaskOK(t) /\ Hold(a, t)
  BY <1>1, NextOrderTask DEF LinkDelivery, MarkProblem, ReportError
<1> QED
  BY <1>3, <1>4, Stable, Works

-----------------------------------------------------------------------------
LEMMA NextIInv == IInv /\ [Next]_vars => IInv'
<1> SUFFICES ASSUME IInv, [Next]_vars PROVE IInv'
  OBVIOUS
<1>1. CASE UNCHANGED vars
  <2>1. DocsOK' /\ Growth
    BY <1>1, OrdersChange DEF vars, IInv, DocsOK
  <2> QED
    BY <1>1, <2>1, Rests DEF vars
<1>2. ASSUME NEW a \in Admins, Begin(a) \/ Closing(a) \/ Ensuring(a) \/ Producing(a)
      PROVE  IInv'
  BY <1>2, EnsureMoves, CloseStep, SettleStep, CreateStep, MoveReadStep, MarkStep,
     MoveSaveStep, ShipMoves DEF Begin, Closing, Ensuring, Producing
<1>3. ASSUME NEW a \in Admins, Shipping(a) \/ LoopError(a) \/ Fail(a)
      PROVE  IInv'
  BY <1>3, ShipMoves, IssueStep, StoreStep, LinkStep DEF Shipping
<1>4. ASSUME NEW b \in Buyers, BuyerRead(b) \/ BuyerSave(b)
      PROVE  IInv'
  BY <1>4, BuyerStep
<1>5. ASSUME NEW o \in Orders, OperatorMark(o)
      PROVE  IInv'
  BY <1>5, OperatorStep
<1> QED
  BY <1>1, <1>2, <1>3, <1>4, <1>5 DEF Next, Continue

LEMMA Inductive == Spec => []IInv
BY InitIInv, NextIInv, PTL DEF Spec

-----------------------------------------------------------------------------
(* Under any interleaving and any failure, a delivery document stands for a  *)
(* waybill Nova Poshta made for its order, and the delivery an order names   *)
(* exists: createTtnForOrder creates the document before it links the order. *)
THEOREM DeliveriesIssued == Spec => []DeliveriesAreIssued
<1>1. IInv => DeliveriesAreIssued
  BY DEF IInv, DocsOK
<1> QED
  BY <1>1, Inductive, PTL

(* However many transitions and requests ensure the package of a drop, and   *)
(* whatever buyers change meanwhile, one package is created at most, its      *)
(* total is that of the orders it lists, and its sizes add up to the total    *)
(* (ensurePackageForDrop, buildSizeBreakdown).                                *)
THEOREM OnePackageAddsUp == Spec => []PackageAddsUp
<1>1. IInv => PackageAddsUp
  <2> SUFFICES ASSUME IInv PROVE PackageAddsUp
    OBVIOUS
  <2>1. Cardinality(Made) <= 1
    <3>1. CASE Made = {}
      BY <3>1, FS_EmptySet
    <3>2. CASE Made # {}
      <4>1. PICK k \in Made : TRUE
        BY <3>2
      <4>2. Made = {k}
        BY <4>1 DEF IInv, DocsOK
      <4> QED
        BY <4>2, FS_Singleton
    <3> QED
      BY <3>1, <3>2
  <2>2. ASSUME NEW k \in Made
        PROVE  /\ package[k].totalQuantity = PieceCount(package[k].orderIds)
               /\ package[k].totalQuantity =
                    MapThenSumSet(LAMBDA z : package[k].sizeBreakdown[z],
                                  DOMAIN package[k].sizeBreakdown)
    <3>1. PICK s \in PackageStatuses, S \in SUBSET Orders : \E sizes :
            Adds(sizes, S) /\ package[k] = [ status |-> s, orderIds |-> S,
              totalQuantity |-> PieceCount(S), sizeBreakdown |-> sizes ]
      BY DEF IInv, DocsOK, IsPackage
    <3>2. PICK sizes :
            Adds(sizes, S) /\ package[k] = [ status |-> s, orderIds |-> S,
              totalQuantity |-> PieceCount(S), sizeBreakdown |-> sizes ]
      BY <3>1
    <3>3. /\ package[k].totalQuantity = PieceCount(S)
          /\ package[k].orderIds = S /\ package[k].sizeBreakdown = sizes
      BY <3>2
    <3>4. PieceCount(S) = MapThenSumSet(LAMBDA z : sizes[z], DOMAIN sizes)
      BY <3>2 DEF Adds, SumOver
    <3> QED
      BY <3>3, <3>4
  <2> QED
    BY <2>1, <2>2 DEF PackageAddsUp
<1> QED
  BY <1>1, Inductive, PTL

\* With what the other variables can hold.
TInv ==
  /\ IInv
  /\ env \in Envs
  /\ drop \in {"guaranteed", "successful"}
  /\ notices \subseteq Orders

LEMMA PackagesTyped ==
  ASSUME IInv, NEW k \in Made
  PROVE  /\ package[k].status \in PackageStatuses
         /\ package[k].orderIds \subseteq Orders
         /\ package[k].totalQuantity \in Nat
<1>1. PICK s \in PackageStatuses, S \in SUBSET Orders : \E sizes :
        Adds(sizes, S) /\ package[k] = [ status |-> s, orderIds |-> S,
          totalQuantity |-> PieceCount(S), sizeBreakdown |-> sizes ]
  BY DEF IInv, DocsOK, IsPackage
<1>2. IsFiniteSet(S) /\ \A o \in S : Quantity[o] \in Nat /\ Quantity[o] \in Int
  BY OrdersAssumption, QuantityAssumption, FS_Subset
<1>3. SumOver(Quantity, S) \in Nat
  BY <1>2, SumType
<1>4. PieceCount(S) \in Nat
  BY <1>3 DEF PieceCount, SumOver
<1> QED
  BY <1>1, <1>4

LEMMA InitTInv == Init => TInv
BY InitIInv DEF Init, TInv

LEMMA NextTInv == TInv /\ [Next]_vars => TInv'
<1> SUFFICES ASSUME TInv, [Next]_vars PROVE TInv'
  OBVIOUS
<1>1. IInv'
  BY NextIInv DEF TInv
<1>2. UNCHANGED env /\ drop' \in {drop, "successful"}
  BY DEF Next, vars, Begin, Continue, Closing, Ensuring, Producing, Shipping, CloseDrop,
     SettleOne, Settled, RequestPackage, EnsureRead, EnsureFind, EnsureGather, EnsureCreate,
     MoveRead, MarkOrders, NotifyOwners, MoveSave, OperatorMark, TtnRequest, TtnRead,
     TtnIssued, TtnFails, MarkProblem, StoreDelivery, LinkDelivery, LoopError, Fail,
     BuyerRead, BuyerSave, elsewhere
<1>3. \/ UNCHANGED notices
      \/ \E a \in Admins : NotifyOwners(a)
  BY DEF Next, vars, Begin, Continue, Closing, Ensuring, Producing, Shipping, CloseDrop,
     SettleOne, Settled, RequestPackage, EnsureRead, EnsureFind, EnsureGather, EnsureCreate,
     MoveRead, MarkOrders, MoveSave, OperatorMark, TtnRequest, TtnRead,
     TtnIssued, TtnFails, MarkProblem, StoreDelivery, LinkDelivery, LoopError, Fail,
     BuyerRead, BuyerSave
<1>4. ASSUME NEW a \in Admins, NotifyOwners(a)
      PROVE  notices' \subseteq Orders
  <2>1. task[a].package \in Made
    BY <1>4, MoveTask DEF NotifyOwners, At, TInv
  <2>2. package[task[a].package].orderIds \subseteq Orders
    BY <2>1, PackagesTyped DEF TInv
  <2> QED
    BY <1>4, <2>2 DEF NotifyOwners, TInv
<1> QED
  BY <1>1, <1>2, <1>3, <1>4 DEF TInv

(* Every status stays one its schema names and every number one that was      *)
(* given, whatever the handlers interleave and fail (the enumerations of the  *)
(* order, package and delivery schemas).                                      *)
THEOREM TypeCorrect == Spec => []TypeOK
<1>1. TInv => TypeOK
  BY PackagesTyped DEF TInv, TypeOK, IInv, DocsOK, OrderDocs, OrderTypeOK
<1> QED
  BY <1>1, InitTInv, NextTInv, PTL DEF Spec

-----------------------------------------------------------------------------
(***************************************************************************)
(* One waybill.  In a calm environment one administrator, c, does all the  *)
(* work.  Until the drop's holds are settled nothing is made or shipped    *)
(* (Untouched), so that the settlement takes no order back to paid later;  *)
(* an order is called for only when it has no waybill (Fresh); and one     *)
(* that has a waybill cannot be called for again: it names its delivery,   *)
(* it is a problem or cancelled, or c is about to make it so (Once).       *)
(***************************************************************************)
Sole(c) ==
  /\ ~env.faults
  /\ \A a \in Admins \ {c} : env.duties[a] = {} /\ task[a] = Idle
Before(c) == drop = "guaranteed" \/ At(c, "settle")
Untouched(c) ==
  Before(c) =>
    /\ Made = {}
    /\ \A o \in Orders : waybill[o] = 0 /\ order[o].status \in {"reserved", "paid", "cancelled"}
    /\ task[c].step \in {"idle", "settle", "ensure"}
Ended == {"delivery_problem", "cancelled"}
Spending == {"store", "link", "problem"}
Spent(c, o) ==
  \/ order[o].delivery # NoDelivery
  \/ order[o].status \in Ended
  \/ task[c].step \in Spending /\ task[c].copy = o
Once(c) == \A o \in Orders : waybill[o] = 0 \/ (waybill[o] = 1 /\ Spent(c, o))
Fresh(c) == At(c, "call") => waybill[task[c].copy] = 0

WInv(c) == IInv /\ Sole(c) /\ Untouched(c) /\ Once(c) /\ Fresh(c)

\* The orders keep their deliveries, and an order that has ended stays so.
Lasting ==
  \A o \in Orders :
    /\ order'[o].delivery = order[o].delivery
    /\ order[o].status \in Ended => order'[o].status \in Ended

LEMMA OwnTask ==
  ASSUME IInv, NEW c \in Admins, NEW t, Hold(c, t)
  PROVE  task'[c] = t /\ \A a \in Admins : a # c => task'[a] = task[a]
BY DEF IInv, Hold

LEMMA SoleStays ==
  ASSUME IInv, NEW c \in Admins, Sole(c), NEW t, Hold(c, t), UNCHANGED env
  PROVE  Sole(c)'
BY OwnTask DEF Sole

(* A step of c that neither makes nor loses a waybill. *)
LEMMA CarriesOn ==
  ASSUME NEW c \in Admins, WInv(c), IInv', NEW t, Hold(c, t),
         UNCHANGED << env, drop, waybill >>, Lasting,
         task[c].step \notin Spending, t.step \notin {"call", "settle"},
         Before(c) => t.step \in {"idle", "ensure"} /\ UNCHANGED << order, package >>
  PROVE  WInv(c)'
<1>1. task'[c] = t /\ Sole(c)'
  BY OwnTask, SoleStays DEF WInv
<1>2. Before(c)' => Before(c)
  BY <1>1 DEF Before, At
<1>3. Untouched(c)'
  BY <1>1, <1>2 DEF WInv, Untouched, Made
<1>4. Once(c)'
  <2> SUFFICES ASSUME NEW o \in Orders, waybill[o] = 1, Spent(c, o)
               PROVE  Spent(c, o)'
    BY DEF WInv, Once
  <2> QED
    BY DEF Spent, Lasting
<1>5. Fresh(c)'
  BY <1>1 DEF Fresh, At
<1> QED
  BY <1>1, <1>3, <1>4, <1>5 DEF WInv

(* A step of a buyer or an operator. *)
LEMMA OthersStep ==
  ASSUME NEW c \in Admins, WInv(c), IInv', UNCHANGED << env, drop, package, waybill, task >>,
         Lasting,
         Before(c) => \A o \in Orders : order'[o].status \in {"reserved", "paid", "cancelled"}
  PROVE  WInv(c)'
<1>1. Sole(c)' /\ Fresh(c)'
  BY DEF WInv, Sole, Fresh, At
<1>2. Untouched(c)'
  BY DEF WInv, Untouched, Before, At, Made
<1>3. Once(c)'
  <2> SUFFICES ASSUME NEW o \in Orders, waybill[o] = 1, Spent(c, o)
               PROVE  Spent(c, o)'
    BY DEF WInv, Once
  <2> QED
    BY DEF Spent, Lasting
<1> QED
  BY <1>1, <1>2, <1>3 DEF WInv

LEMMA ClosingOnce ==
  ASSUME NEW c \in Admins, WInv(c), IInv', CloseDrop(c) \/ Closing(c)
  PROVE  WInv(c)'
<1>1. /\ Before(c)
      /\ UNCHANGED << env, package, delivery, waybill >>
  BY DEF CloseDrop, Closing, SettleOne, Settled, At, Before, documents, elsewhere
<1>2. /\ Made = {}
      /\ \A o \in Orders : waybill[o] = 0 /\ order[o].status \in {"reserved", "paid", "cancelled"}
  BY <1>1 DEF WInv, Untouched
<1>3. PICK t : Hold(c, t) /\ t.step \in {"settle", "ensure"}
  <2>1. CASE CloseDrop(c)
    BY <2>1 DEF CloseDrop
  <2>2. CASE SettleOne(c)
    <3>1. PICK o \in task[c].todo : Hold(c, [task[c] EXCEPT !.todo = @ \ {o}])
      BY <2>2 DEF SettleOne
    <3>2. task[c].step = "settle"
      BY <2>2 DEF SettleOne, At
    <3>3. task[c] \in [step : {"settle"}, todo : SUBSET Orders]
      <4>1. ASSUME IsCreation(task[c]) PROVE FALSE
        BY <3>2, <4>1 DEF IsCreation
      <4> QED
        BY <3>2, <4>1 DEF WInv, IInv, TaskOK, Tasks, Idle
    <3> QED
      BY <3>1, <3>3
  <2>3. CASE Settled(c)
    BY <2>3 DEF Settled
  <2> QED
    BY <2>1, <2>2, <2>3 DEF Closing
<1>4. task'[c] = t /\ Sole(c)'
  BY <1>1, <1>3, OwnTask, SoleStays DEF WInv
<1>5. \A o \in Orders : order'[o].status \in {"reserved", "paid", "cancelled"}
  <2>1. \/ UNCHANGED order
        \/ \E o : order' = [order EXCEPT ![o].status = "paid"]
    BY DEF CloseDrop, Closing, SettleOne, Settled, documents
  <2> QED
    BY <1>2, <2>1 DEF WInv, IInv, DocsOK, OrderDocs
<1>6. Untouched(c)' /\ Once(c)' /\ Fresh(c)'
  BY <1>1, <1>2, <1>3, <1>4, <1>5 DEF Untouched, Once, Fresh, At, Made
<1> QED
  BY <1>4, <1>6 DEF WInv

LEMMA PackagingOnce ==
  ASSUME NEW c \in Admins, WInv(c), IInv',
         RequestPackage(c) \/ Ensuring(c) \/ MoveRead(c) \/ Producing(c)
  PROVE  WInv(c)'
<1>1. UNCHANGED << env, drop, waybill >>
  BY DEF RequestPackage, Ensuring, EnsureRead, EnsureFind, EnsureGather, EnsureCreate,
     MoveRead, Producing, MarkOrders, NotifyOwners, MoveSave, elsewhere
<1>2. task[c].step \notin Spending
  <2>1. CASE RequestPackage(c)
    BY <2>1 DEF RequestPackage, Free, Idle, Spending
  <2>2. CASE MoveRead(c)
    BY <2>2 DEF MoveRead, Free, Idle, Spending
  <2>3. CASE Ensuring(c) \/ Producing(c)
    <3>1. task[c].step \in {"ensure", "find", "gather", "create", "mark", "notify", "save"}
      BY <2>3 DEF Ensuring, EnsureRead, EnsureFind, EnsureGather, EnsureCreate, Producing,
         MarkOrders, NotifyOwners, MoveSave, At
    <3> QED
      BY <3>1 DEF Spending
  <2> QED
    BY <2>1, <2>2, <2>3
<1>3. Lasting
  <2>1. CASE MarkOrders(c)
    BY <2>1 DEF MarkOrders, Lasting, Ended, WInv, IInv, DocsOK, OrderDocs
  <2>2. CASE ~MarkOrders(c)
    <3>1. UNCHANGED order
      BY <2>2 DEF RequestPackage, Ensuring, EnsureRead, EnsureFind, EnsureGather,
         EnsureCreate, MoveRead, Producing, NotifyOwners, MoveSave, documents
    <3> QED
      BY <3>1 DEF Lasting
  <2> QED
    BY <2>1, <2>2
<1>4. CASE RequestPackage(c) \/ EnsureRead(c)
  <2>1. UNCHANGED << order, package >>
    BY <1>4 DEF RequestPackage, EnsureRead, documents
  <2>2. PICK t : /\ Hold(c, t) /\ t.step \in {"idle", "ensure", "find"}
                 /\ Before(c) => t.step \in {"idle", "ensure"}
    <3>1. CASE RequestPackage(c)
      BY <3>1 DEF RequestPackage
    <3>2. CASE EnsureRead(c)
      BY <3>2 DEF EnsureRead, Before, At, ProductionDropStatuses, Idle
    <3> QED
      BY <1>4, <3>1, <3>2
  <2> QED
    BY <1>1, <1>2, <1>3, <2>1, <2>2, CarriesOn
<1>5. CASE EnsureFind(c) \/ EnsureGather(c) \/ EnsureCreate(c) \/ MoveRead(c) \/ Producing(c)
  <2>1. ~Before(c)
    <3>1. CASE MoveRead(c)
      BY <3>1 DEF MoveRead, WInv, Untouched
    <3>2. CASE ~MoveRead(c)
      <4>1. task[c].step \in {"find", "gather", "create", "mark", "notify", "save"}
        BY <1>5, <3>2 DEF EnsureFind, EnsureGather, EnsureCreate, Producing, MarkOrders,
           NotifyOwners, MoveSave, At
      <4> QED
        BY <4>1 DEF WInv, Untouched
    <3> QED
      BY <3>1, <3>2
  <2>2. PICK t : Hold(c, t) /\ t.step \notin {"call", "settle"}
    <3>1. CASE EnsureFind(c) \/ EnsureGather(c) \/ EnsureCreate(c) \/ MoveSave(c)
      BY <3>1 DEF EnsureFind, EnsureGather, EnsureCreate, MoveSave, Idle
    <3>2. CASE MoveRead(c)
      <4>1. PICK k, target :
              Hold(c, [ package |-> k, target |-> target,
                        step |-> IF target = "ready_to_ship" THEN "mark" ELSE "save" ])
        BY <3>2 DEF MoveRead
      <4> QED
        BY <4>1
    <3>3. CASE MarkOrders(c) \/ NotifyOwners(c)
      <4>1. task[c] \in [step : {"mark", "notify", "save"}, package : Packages,
                         target : PackageStatuses]
        BY <3>3, MoveTask DEF MarkOrders, NotifyOwners, At, WInv
      <4>2. \/ Hold(c, [task[c] EXCEPT !.step = "notify"])
            \/ Hold(c, [task[c] EXCEPT !.step = "save"])
        BY <3>3 DEF MarkOrders, NotifyOwners, Go
      <4> QED
        BY <4>1, <4>2
    <3> QED
      BY <1>5, <3>1, <3>2, <3>3 DEF Producing
  <2> QED
    BY <1>1, <1>2, <1>3, <2>1, <2>2, CarriesOn
<1> QED
  BY <1>4, <1>5 DEF Ensuring

(* A request for a waybill: one call for an order without one, and whatever   *)
(* its answer, the order cannot be called for again.                          *)
LEMMA ShippingOnce ==
  ASSUME NEW c \in Admins, WInv(c), IInv', TtnRequest(c) \/ Shipping(c)
  PROVE  WInv(c)'
<1>1. UNCHANGED << env, drop, package >>
  BY DEF TtnRequest, Shipping, TtnRead, TtnIssued, TtnFails, MarkProblem, StoreDelivery,
     LinkDelivery, documents, elsewhere
<1>2. ~Before(c)
  <2>1. CASE TtnRequest(c)
    <3>1. PICK o \in Orders, rest \in {<< >>} \cup { << q >> : q \in Orders } :
            \E p \in {o} \cup ToSet(rest) : order[p].status = "ready_to_ship"
      BY <2>1 DEF TtnRequest
    <3>2. PICK p \in {o} \cup ToSet(rest) : order[p].status = "ready_to_ship"
      BY <3>1
    <3>3. p \in Orders
      <4>1. CASE rest = << >>
        BY <4>1, <3>2 DEF ToSet
      <4>2. ASSUME NEW q \in Orders, rest = << q >>
            PROVE  p \in Orders
        <5>1. DOMAIN rest = {1} /\ rest[1] = q
          BY <4>2
        <5> QED
          BY <5>1, <3>2 DEF ToSet
      <4> QED
        BY <4>1, <4>2, <3>1
    <3> QED
      BY <3>2, <3>3 DEF WInv, Untouched
  <2>2. CASE Shipping(c)
    <3>1. task[c].step \in {"ttn", "call", "problem", "store", "link"}
      BY <2>2 DEF Shipping, TtnRead, TtnIssued, TtnFails, MarkProblem, StoreDelivery,
         LinkDelivery, At
    <3> QED
      BY <3>1 DEF WInv, Untouched
  <2> QED
    BY <2>1, <2>2
<1>3. ASSUME NEW t, Hold(c, t), t.step # "settle"
      PROVE  task'[c] = t /\ Sole(c)' /\ Untouched(c)'
  <2>1. task'[c] = t /\ Sole(c)'
    BY <1>1, <1>3, OwnTask, SoleStays DEF WInv
  <2>2. ~Before(c)'
    BY <1>1, <1>2, <1>3, <2>1 DEF Before, At
  <2> QED
    BY <2>1, <2>2 DEF Untouched
<1>4. ASSUME NextOrder(c)
      PROVE  \E t : Hold(c, t) /\ t.step \in {"idle", "ttn"}
  BY <1>4 DEF NextOrder, Idle
<1>5. CASE TtnRequest(c)
  <2>1. PICK t : Hold(c, t) /\ t.step = "ttn"
    BY <1>5 DEF TtnRequest
  <2>2. Lasting /\ UNCHANGED waybill /\ task[c].step \notin Spending
    BY <1>5 DEF TtnRequest, documents, Lasting, Free, Idle, Spending
  <2> QED
    BY <1>1, <1>2, <2>1, <2>2, CarriesOn
<1>6. CASE TtnRead(c)
  <2> DEFINE o == Head(task[c].todo)
  <2>1. task[c].step = "ttn" /\ UNCHANGED << order, waybill >>
    BY <1>6 DEF TtnRead, At, documents
  <2>2. CASE CanHaveTtn(o)
    <3>1. PICK t : t = [step |-> "call", todo |-> task[c].todo, copy |-> o]
      OBVIOUS
    <3>2. Hold(c, t)
      BY <1>6, <2>2, <3>1 DEF TtnRead
    <3>3. task'[c] = t /\ Sole(c)' /\ Untouched(c)'
      BY <1>3, <3>1, <3>2
    <3>4. o \in Orders
      BY <2>1, ShipTask DEF WInv, Lists
    <3>5. waybill[o] = 0
      BY <2>1, <2>2, <3>4 DEF WInv, Once, Spent, CanHaveTtn, Ended, Spending
    <3>6. Fresh(c)'
      BY <2>1, <3>1, <3>3, <3>5 DEF Fresh, At
    <3>7. Once(c)'
      BY <2>1 DEF WInv, Once, Spent, Spending
    <3> QED
      BY <3>3, <3>6, <3>7 DEF WInv
  <2>3. CASE ~CanHaveTtn(o)
    <3>1. PICK t : Hold(c, t) /\ t.step \in {"idle", "ttn"}
      BY <1>4, <1>6, <2>3 DEF TtnRead, ReportError
    <3> QED
      BY <1>1, <1>2, <2>1, <3>1, CarriesOn DEF Lasting, Spending
  <2> QED
    BY <2>2, <2>3
<1>7. CASE TtnIssued(c) \/ TtnFails(c)
  <2> DEFINE o == task[c].copy
  <2>1. task[c].step = "call" /\ task[c] \in Tasks /\ o \in Orders
    BY <1>7, ShipTask DEF TtnIssued, TtnFails, At, WInv
  <2>2. waybill[o] = 0 /\ waybill \in [Orders -> 0 .. MaxWaybills]
    BY <2>1 DEF WInv, Fresh, At, IInv, DocsOK
  <2>3. PICK t : Hold(c, t) /\ t.step \in {"store", "problem"} /\ t.copy = o
    <3>1. CASE TtnIssued(c)
      BY <3>1 DEF TtnIssued
    <3>2. CASE TtnFails(c)
      <4>1. task[c] \in [step : {"call", "problem"}, todo : Lists, copy : Orders]
        BY <2>1 DEF Tasks, Idle
      <4>2. Hold(c, [task[c] EXCEPT !.step = "problem"])
        BY <3>2 DEF TtnFails, Go
      <4> QED
        BY <4>1, <4>2
    <3> QED
      BY <1>7, <3>1, <3>2
  <2>4. task'[c] = t /\ Sole(c)' /\ Untouched(c)'
    BY <1>3, <2>3
  <2>5. /\ UNCHANGED order
        /\ waybill'[o] \in {0, 1}
        /\ \A p \in Orders : p # o => waybill'[p] = waybill[p]
    BY <1>7, <2>1, <2>2 DEF TtnIssued, TtnFails, documents
  <2>6. Once(c)'
    <3> SUFFICES ASSUME NEW p \in Orders
                 PROVE  waybill'[p] = 0 \/ (waybill'[p] = 1 /\ Spent(c, p)')
      BY DEF Once
    <3>1. CASE p = o
      BY <2>3, <2>4, <2>5, <3>1 DEF Spent, Spending
    <3>2. CASE p # o
      BY <2>1, <2>5, <3>2 DEF WInv, Once, Spent, Spending
    <3> QED
      BY <3>1, <3>2
  <2>7. Fresh(c)'
    BY <2>3, <2>4 DEF Fresh, At
  <2> QED
    BY <2>4, <2>6, <2>7 DEF WInv
<1>8. CASE StoreDelivery(c)
  <2> DEFINE o == task[c].copy
  <2>1. task[c].step = "store" /\ task[c] \in Tasks
    BY <1>8, ShipTask DEF StoreDelivery, At, WInv
  <2>2. task[c] \in [step : {"store", "link"}, todo : Lists, copy : Orders,
                     number : 1 .. MaxWaybills]
    BY <2>1 DEF Tasks, Idle
  <2>3. PICK t : Hold(c, t) /\ t.step = "link" /\ t.copy = o
    BY <1>8, <2>2 DEF StoreDelivery, Go
  <2>4. task'[c] = t /\ Sole(c)' /\ Untouched(c)'
    BY <1>3, <2>3
  <2>5. UNCHANGED << order, waybill >>
    BY <1>8 DEF StoreDelivery
  <2>6. Once(c)' /\ Fresh(c)'
    BY <2>1, <2>3, <2>4, <2>5 DEF WInv, Once, Spent, Spending, Fresh, At
  <2> QED
    BY <2>4, <2>6 DEF WInv
<1>9. CASE LinkDelivery(c) \/ MarkProblem(c)
  <2> DEFINE o == task[c].copy
  <2>1. task[c].step \in {"link", "problem"} /\ o \in Orders
    BY <1>9, ShipTask DEF LinkDelivery, MarkProblem, At, WInv
  <2>2. PICK t : Hold(c, t) /\ t.step \in {"idle", "ttn"}
    BY <1>4, <1>9 DEF LinkDelivery, MarkProblem, ReportError
  <2>3. task'[c] = t /\ Sole(c)' /\ Untouched(c)'
    BY <1>3, <2>2
  <2>4. /\ UNCHANGED waybill
        /\ \A p \in Orders : p # o => order'[p] = order[p]
        /\ order'[o].delivery # NoDelivery \/ order'[o].status \in Ended
    <3>1. CASE LinkDelivery(c)
      <4>1. task[c].number \in 1 .. MaxWaybills
        BY <3>1, ShipTask DEF LinkDelivery, At, WInv
      <4>2. order \in [Orders -> OrderDocs]
        BY DEF WInv, IInv, DocsOK
      <4> QED
        BY <2>1, <3>1, <4>1, <4>2, NoDeliveryAssumption DEF LinkDelivery, OrderDocs
    <3>2. CASE MarkProblem(c)
      BY <2>1, <3>2 DEF MarkProblem, WInv, IInv, DocsOK, OrderDocs, Ended
    <3> QED
      BY <1>9, <3>1, <3>2
  <2>5. Once(c)'
    <3> SUFFICES ASSUME NEW p \in Orders, waybill[p] = 1, Spent(c, p)
                 PROVE  Spent(c, p)'
      BY <2>4 DEF WInv, Once
    <3> QED
      BY <2>4 DEF Spent
  <2>6. Fresh(c)'
    BY <2>2, <2>3 DEF Fresh, At
  <2> QED
    BY <2>3, <2>5, <2>6 DEF WInv
<1> QED
  BY <1>5, <1>6, <1>7, <1>8, <1>9 DEF Shipping

\* In a calm environment nobody but c takes a step, and no step of c fails.
LEMMA SoleWorks ==
  ASSUME NEW c \in Admins, WInv(c)
  PROVE  \A a \in Admins :
           Begin(a) \/ Continue(a) \/ LoopError(a) \/ Fail(a) =>
             a = c /\ (Begin(a) \/ Continue(a))
<1>1. ASSUME NEW a \in Admins, a # c
      PROVE  ~(Begin(a) \/ Continue(a) \/ LoopError(a) \/ Fail(a))
  BY <1>1 DEF WInv, Sole, Idle, At, Free, Begin, CloseDrop, RequestPackage, MoveRead,
     TtnRequest, Continue, Closing, SettleOne, Settled, Ensuring, EnsureRead, EnsureFind,
     EnsureGather, EnsureCreate, Producing, MarkOrders, NotifyOwners, MoveSave, Shipping,
     TtnRead, TtnIssued, TtnFails, MarkProblem, StoreDelivery, LinkDelivery, LoopError, Fail
<1>2. \A a \in Admins : ~LoopError(a) /\ ~Fail(a)
  BY DEF WInv, Sole, LoopError, Fail
<1> QED
  BY <1>1, <1>2

\* A buyer's save leaves the delivery alone, and cancels the order or not.
LEMMA BuyerSaves ==
  ASSUME IInv, NEW b \in Buyers, BuyerSave(b)
  PROVE  \A o \in Orders : /\ order'[o].delivery = order[o].delivery
                           /\ order'[o].status \in {order[o].status, "cancelled"}
<1>1. buyer[b] \in BuyerTasks /\ order \in [Orders -> OrderDocs]
  BY DEF IInv, DocsOK
<1>2. PICK p : p = buyer[b].order
  OBVIOUS
<1>3. CASE BuyerAt(b, "cancel")
  BY <1>1, <1>2, <1>3 DEF BuyerSave, BuyerAt, OrderDocs
<1>4. CASE BuyerAt(b, "resize") /\ ~BuyerAt(b, "cancel")
  BY <1>1, <1>2, <1>4 DEF BuyerSave, BuyerAt, OrderDocs
<1> QED
  BY <1>1, <1>3, <1>4 DEF BuyerSave, BuyerTasks, BuyerAt, Idle

LEMMA StepWInv ==
  ASSUME NEW c \in Admins, WInv(c), [Next]_vars
  PROVE  WInv(c)'
<1>1. IInv'
  BY NextIInv DEF WInv
<1>2. \A a \in Admins :
        Begin(a) \/ Continue(a) \/ LoopError(a) \/ Fail(a) =>
          a = c /\ (Begin(a) \/ Continue(a))
  BY SoleWorks
<1>3. CASE Begin(c) \/ Continue(c)
  BY <1>1, <1>3, ClosingOnce, PackagingOnce, ShippingOnce DEF Begin, Continue
<1>4. ASSUME NEW b \in Buyers, BuyerRead(b) \/ BuyerSave(b)
      PROVE  WInv(c)'
  <2>1. UNCHANGED << env, drop, package, waybill, task >>
    BY <1>4 DEF BuyerRead, BuyerSave, documents
  <2>2. \A o \in Orders :
          /\ order'[o].delivery = order[o].delivery
          /\ order'[o].status \in {order[o].status, "cancelled"}
    BY <1>4, BuyerSaves DEF BuyerRead, documents, WInv
  <2>3. /\ Lasting
        /\ Before(c) =>
             \A o \in Orders : order'[o].status \in {"reserved", "paid", "cancelled"}
    BY <2>2 DEF Lasting, Ended, WInv, Untouched
  <2> QED
    BY <1>1, <2>1, <2>3, OthersStep
<1>5. ASSUME NEW o \in Orders, OperatorMark(o)
      PROVE  WInv(c)'
  <2>1. UNCHANGED << env, drop, package, waybill, task >> /\ Made # {}
    BY <1>5 DEF OperatorMark
  <2>2. Lasting
    BY <1>5 DEF OperatorMark, Lasting, Ended, WInv, IInv, DocsOK, OrderDocs
  <2>3. ~Before(c)
    BY <2>1 DEF WInv, Untouched
  <2> QED
    BY <1>1, <2>1, <2>2, <2>3, OthersStep
<1>6. CASE UNCHANGED vars
  BY <1>1, <1>6, OthersStep DEF vars, Lasting, WInv, Untouched
<1> QED
  BY <1>2, <1>3, <1>4, <1>5, <1>6 DEF Next

(* Only one administrator is at work in a calm environment. *)
CalmInv == Calm => \E c \in Admins : WInv(c)

LEMMA InitCalm == Init => CalmInv
<1> SUFFICES ASSUME Init, Calm PROVE \E c \in Admins : WInv(c)
  BY DEF CalmInv
<1> DEFINE busy == { a \in Admins : env.duties[a] # {} }
<1>1. IsFiniteSet(busy)
  BY AdminsAssumption, FS_Subset
<1>2. PICK c : busy = {c}
  BY <1>1, FS_Singleton DEF Calm
<1>3. c \in Admins /\ Sole(c)
  BY <1>2 DEF Calm, Init, Sole
<1>4. task[c].step = "idle"
  BY <1>3 DEF Init, Idle
<1>5. Untouched(c) /\ Once(c) /\ Fresh(c)
  BY <1>4 DEF Init, Untouched, Once, Fresh, At, Made
<1> QED
  BY <1>3, <1>5, InitIInv DEF WInv

LEMMA EnvStays == [Next]_vars => UNCHANGED env
BY DEF Next, vars, elsewhere, Begin, CloseDrop, RequestPackage, MoveRead, TtnRequest,
   Continue, Closing, SettleOne, Settled, Ensuring, EnsureRead, EnsureFind, EnsureGather,
   EnsureCreate, Producing, MarkOrders, NotifyOwners, MoveSave, Shipping, TtnRead,
   TtnIssued, TtnFails, MarkProblem, StoreDelivery, LinkDelivery, LoopError, Fail,
   BuyerRead, BuyerSave, OperatorMark

LEMMA StepCalm == CalmInv /\ [Next]_vars => CalmInv'
<1> SUFFICES ASSUME CalmInv, [Next]_vars, Calm' PROVE \E c \in Admins : WInv(c)'
  BY DEF CalmInv
<1>1. Calm
  BY EnvStays DEF Calm
<1> QED
  BY <1>1, StepWInv DEF CalmInv

(* With one administrator at work and no failing database call, Nova Poshta   *)
(* makes at most one waybill for an order, whatever lists are sent, whatever  *)
(* it answers, and whatever buyers change meanwhile (createTtnForOrder).      *)
THEOREM OneWaybillEach == Spec => []OneWaybill
<1>1. CalmInv => OneWaybill
  BY DEF CalmInv, OneWaybill, WInv, Once
<1> QED
  BY <1>1, InitCalm, StepCalm, PTL DEF Spec

-----------------------------------------------------------------------------
(***************************************************************************)
(* Ready orders.  Only a move of the package to ready_to_ship makes orders *)
(* ready, and it saves the package last: between the two the package of a  *)
(* ready order is the one c is moving (Moving).  The move cannot be of a   *)
(* package that is ready already, since its status still allows it         *)
(* (Allowed), so no save takes that status from a package.                 *)
(***************************************************************************)
MoveSteps == {"mark", "notify", "save"}
Moving(c, k) ==
  /\ task[c].step \in {"notify", "save"}
  /\ task[c].package = k
  /\ task[c].target = "ready_to_ship"
Covered(c) ==
  \A o \in Orders : order[o].status = "ready_to_ship" =>
    \E k \in Made : /\ o \in package[k].orderIds
                    /\ package[k].status = "ready_to_ship" \/ Moving(c, k)
Allowed(c) ==
  task[c].step \in MoveSteps =>
    /\ task[c].target \in ProductionTransitions[package[task[c].package].status]
    /\ task[c].step \in {"mark", "notify"} => task[c].target = "ready_to_ship"

RInv(c) == WInv(c) /\ Covered(c) /\ Allowed(c)

\* A step of c, or of somebody else, that has no part in a move.
LEMMA Bystander ==
  ASSUME NEW c \in Admins, RInv(c), UNCHANGED package,
         \A o \in Orders : order'[o].status = "ready_to_ship" =>
                             order[o].status = "ready_to_ship",
         \/ UNCHANGED task
         \/ task[c].step \notin MoveSteps /\ task'[c].step \notin MoveSteps
  PROVE  Covered(c)' /\ Allowed(c)'
<1>1. Covered(c)'
  <2> SUFFICES ASSUME NEW o \in Orders, order[o].status = "ready_to_ship"
               PROVE  \E k \in Made' : /\ o \in package'[k].orderIds
                                       /\ package'[k].status = "ready_to_ship" \/ Moving(c, k)'
    BY DEF Covered
  <2>1. PICK k \in Made : /\ o \in package[k].orderIds
                          /\ package[k].status = "ready_to_ship" \/ Moving(c, k)
    BY DEF RInv, Covered
  <2>2. k \in Made' /\ Moving(c, k) => Moving(c, k)'
    BY <2>1 DEF Made, Moving, MoveSteps
  <2> QED
    BY <2>1, <2>2 DEF Made
<1>2. Allowed(c)'
  BY DEF RInv, Allowed, MoveSteps
<1> QED
  BY <1>1, <1>2

\* Orders become ready together, and all are of the package that is moved.
LEMMA MarkCovers ==
  ASSUME NEW c \in Admins, RInv(c), MarkOrders(c)
  PROVE  Covered(c)' /\ Allowed(c)'
<1> DEFINE k == task[c].package
<1>1. /\ task[c].step = "mark" /\ k \in Made
      /\ task[c] \in [step : MoveSteps, package : Packages, target : PackageStatuses]
  BY MoveTask DEF MarkOrders, At, RInv, WInv, MoveSteps
<1>2. /\ task[c].target = "ready_to_ship"
      /\ task[c].target \in ProductionTransitions[package[k].status]
  BY <1>1 DEF RInv, Allowed, MoveSteps
<1>3. PICK t : Hold(c, t) /\ t = [task[c] EXCEPT !.step = "notify"]
  BY DEF MarkOrders, Go
<1>4. task'[c] = t
  BY <1>3, OwnTask DEF RInv, WInv
<1>5. t.step = "notify" /\ t.package = k /\ t.target = "ready_to_ship"
  BY <1>1, <1>2, <1>3
<1>6. UNCHANGED package /\ Made' = Made
  BY DEF MarkOrders, Made
<1>7. Covered(c)'
  <2> SUFFICES ASSUME NEW o \in Orders, order'[o].status = "ready_to_ship"
               PROVE  \E j \in Made : /\ o \in package[j].orderIds
                                      /\ package[j].status = "ready_to_ship" \/ Moving(c, j)'
    BY <1>6 DEF Covered
  <2>1. CASE o \in package[k].orderIds
    BY <1>1, <1>4, <1>5, <2>1 DEF Moving
  <2>2. CASE o \notin package[k].orderIds
    <3>1. order[o].status = "ready_to_ship"
      BY <2>2 DEF MarkOrders
    <3>2. PICK j \in Made : /\ o \in package[j].orderIds
                            /\ package[j].status = "ready_to_ship" \/ Moving(c, j)
      BY <3>1 DEF RInv, Covered
    <3>3. package[j].status = "ready_to_ship"
      BY <1>1, <3>2 DEF Moving
    <3> WITNESS j \in Made
    <3> QED
      BY <3>2, <3>3
  <2> QED
    BY <2>1, <2>2
<1>8. Allowed(c)'
  BY <1>2, <1>4, <1>5, <1>6 DEF Allowed
<1> QED
  BY <1>7, <1>8

LEMMA NotifyCovers ==
  ASSUME NEW c \in Admins, RInv(c), NotifyOwners(c)
  PROVE  Covered(c)' /\ Allowed(c)'
<1>1. /\ task[c].step = "notify"
      /\ task[c] \in [step : MoveSteps, package : Packages, target : PackageStatuses]
  BY MoveTask DEF NotifyOwners, At, RInv, WInv, MoveSteps
<1>2. PICK t : Hold(c, t) /\ t = [task[c] EXCEPT !.step = "save"]
  BY DEF NotifyOwners, Go
<1>3. task'[c] = t
  BY <1>2, OwnTask DEF RInv, WInv
<1>4. t.step = "save" /\ t.package = task[c].package /\ t.target = task[c].target
  BY <1>1, <1>2
<1>5. UNCHANGED << order, package >> /\ Made' = Made
  BY DEF NotifyOwners, documents, Made
<1>6. \A k : Moving(c, k) => Moving(c, k)'
  BY <1>3, <1>4 DEF Moving
<1>7. Covered(c)'
  BY <1>5, <1>6 DEF RInv, Covered
<1>8. Allowed(c)'
  BY <1>1, <1>3, <1>4, <1>5 DEF RInv, Allowed, MoveSteps
<1> QED
  BY <1>7, <1>8

\* The save of a move: the package of a ready order is the one c moved.
LEMMA SaveCovers ==
  ASSUME NEW c \in Admins, RInv(c), MoveSave(c)
  PROVE  Covered(c)' /\ Allowed(c)'
<1> DEFINE k == task[c].package
<1>1. task[c].step = "save" /\ k \in Made /\ task[c].target \in PackageStatuses
  BY MoveTask DEF MoveSave, At, RInv, WInv
<1>2. task[c].target \in ProductionTransitions[package[k].status]
  BY <1>1 DEF RInv, Allowed, MoveSteps
<1>3. IsPackage(package[k]) /\ DOMAIN package = Packages /\ \A j \in Made : j = k
  BY <1>1 DEF RInv, WInv, IInv, DocsOK
<1>4. package[k].status # "ready_to_ship"
  BY <1>2 DEF ProductionTransitions, PackageLifecycle, PackageStatuses
<1>5. k \in Packages /\ package' = [package EXCEPT ![k].status = task[c].target]
  BY <1>1 DEF MoveSave, Made
<1>6. /\ package'[k].status = task[c].target
      /\ package'[k].orderIds = package[k].orderIds
  <2>1. PICK s, S, n, sizes :
          package[k] = [status |-> s, orderIds |-> S, totalQuantity |-> n,
                        sizeBreakdown |-> sizes]
    BY <1>3 DEF IsPackage
  <2> QED
    BY <1>3, <1>5, <2>1
<1>7. k \in Made'
  BY <1>1, <1>5, <1>6 DEF Made, PackageStatuses
<1>8. Covered(c)'
  <2> SUFFICES ASSUME NEW o \in Orders, order[o].status = "ready_to_ship"
               PROVE  /\ o \in package'[k].orderIds
                      /\ package'[k].status = "ready_to_ship"
    BY <1>7 DEF Covered, MoveSave
  <2>1. PICK j \in Made : /\ o \in package[j].orderIds
                          /\ package[j].status = "ready_to_ship" \/ Moving(c, j)
    BY DEF RInv, Covered
  <2>2. j = k
    BY <1>3, <2>1
  <2> QED
    BY <1>4, <1>6, <2>1, <2>2 DEF Moving
<1>9. task'[c] = Idle
  BY OwnTask DEF MoveSave, RInv, WInv
<1>10. Allowed(c)'
  BY <1>9 DEF Allowed, Idle, MoveSteps
<1> QED
  BY <1>8, <1>10

\* A package that is not there yet lists no order that is ready.
LEMMA CreateCovers ==
  ASSUME NEW c \in Admins, RInv(c), EnsureCreate(c)
  PROVE  Covered(c)' /\ Allowed(c)'
<1>1. task'[c] = Idle /\ UNCHANGED order /\ task[c].step = "create"
  BY OwnTask DEF EnsureCreate, At, RInv, WInv
<1>2. Allowed(c)'
  BY <1>1 DEF Allowed, Idle, MoveSteps
<1>3. CASE Made = {}
  <2>1. \A o \in Orders : order[o].status # "ready_to_ship"
    BY <1>3 DEF RInv, Covered
  <2>2. Covered(c)'
    BY <1>1, <2>1 DEF Covered
  <2> QED
    BY <1>2, <2>2
<1>4. CASE Made # {}
  BY <1>1, <1>4, Bystander DEF EnsureCreate, Idle, MoveSteps
<1> QED
  BY <1>2, <1>3, <1>4

\* A move begins with a status the table allows.
LEMMA MoveCovers ==
  ASSUME NEW c \in Admins, RInv(c), MoveRead(c)
  PROVE  Covered(c)' /\ Allowed(c)'
<1>1. PICK k \in Made : \E target \in ProductionTransitions[package[k].status] :
        Hold(c, [ package |-> k, target |-> target,
                  step |-> IF target = "ready_to_ship" THEN "mark" ELSE "save" ])
  BY DEF MoveRead
<1>2. PICK target \in ProductionTransitions[package[k].status] :
        Hold(c, [ package |-> k, target |-> target,
                  step |-> IF target = "ready_to_ship" THEN "mark" ELSE "save" ])
  BY <1>1
<1>3. PICK t : t = [ package |-> k, target |-> target,
                     step |-> IF target = "ready_to_ship" THEN "mark" ELSE "save" ]
  OBVIOUS
<1>4. task'[c] = t
  BY <1>2, <1>3, OwnTask DEF RInv, WInv
<1>5. /\ t.package = k /\ t.target = target
      /\ t.step \in {"mark", "notify"} => target = "ready_to_ship"
  BY <1>3
<1>6. UNCHANGED << order, package >> /\ Made' = Made
  BY DEF MoveRead, documents, Made
<1>7. \A j : ~Moving(c, j)
  BY DEF MoveRead, Free, Idle, Moving
<1>8. Covered(c)'
  BY <1>6, <1>7 DEF RInv, Covered
<1>9. Allowed(c)'
  BY <1>4, <1>5, <1>6 DEF Allowed
<1> QED
  BY <1>8, <1>9

\* The other steps of c: a settlement, a request for the package, a list of orders.
LEMMA OtherCovers ==
  ASSUME NEW c \in Admins, RInv(c),
         \/ CloseDrop(c) \/ Closing(c) \/ RequestPackage(c)
         \/ EnsureRead(c) \/ EnsureFind(c) \/ EnsureGather(c)
         \/ TtnRequest(c) \/ Shipping(c)
  PROVE  Covered(c)' /\ Allowed(c)'
<1>1. task[c].step \notin MoveSteps
  BY DEF CloseDrop, Closing, SettleOne, Settled, RequestPackage, EnsureRead, EnsureFind,
     EnsureGather, TtnRequest, Shipping, TtnRead, TtnIssued, TtnFails, MarkProblem,
     StoreDelivery, LinkDelivery, At, Free, Idle, MoveSteps
<1>2. ASSUME NEW t, Hold(c, t)
      PROVE  task'[c] = t
  BY <1>2, OwnTask DEF RInv, WInv
<1>3. task'[c].step \notin MoveSteps
  <2>1. CASE CloseDrop(c) \/ Settled(c) \/ RequestPackage(c)
    BY <1>2, <2>1 DEF CloseDrop, Settled, RequestPackage, MoveSteps
  <2>2. CASE SettleOne(c)
    <3>1. PICK o \in task[c].todo : Hold(c, [task[c] EXCEPT !.todo = @ \ {o}])
      BY <2>2 DEF SettleOne
    <3>2. task[c] \in [step : {"settle"}, todo : SUBSET Orders]
      <4>1. task[c].step = "settle"
        BY <2>2 DEF SettleOne, At
      <4>2. ASSUME IsCreation(task[c]) PROVE FALSE
        BY <4>1, <4>2 DEF IsCreation
      <4> QED
        BY <4>1, <4>2 DEF RInv, WInv, IInv, TaskOK, Tasks, Idle
    <3>3. task'[c] = [task[c] EXCEPT !.todo = @ \ {o}]
      BY <1>2, <3>1
    <3> QED
      BY <3>2, <3>3 DEF MoveSteps
  <2>3. CASE EnsureRead(c) \/ EnsureFind(c) \/ EnsureGather(c)
    BY <1>2, <2>3 DEF EnsureRead, EnsureFind, EnsureGather, Idle, MoveSteps
  <2>4. CASE TtnRequest(c) \/ TtnIssued(c)
    <3>1. CASE TtnRequest(c)
      <4>1. PICK t : Hold(c, t) /\ t.step = "ttn"
        BY <3>1 DEF TtnRequest
      <4> QED
        BY <1>2, <4>1 DEF MoveSteps
    <3>2. CASE TtnIssued(c)
      BY <1>2, <3>2 DEF TtnIssued, MoveSteps
    <3> QED
      BY <2>4, <3>1, <3>2
  <2>5. CASE TtnFails(c) \/ StoreDelivery(c)
    <3>1. /\ task[c].step \in {"call", "store"}
          /\ \/ task'[c] = [task[c] EXCEPT !.step = "problem"]
             \/ task'[c] = [task[c] EXCEPT !.step = "link"]
      BY <1>2, <2>5 DEF TtnFails, StoreDelivery, Go, At
    <3>2. task[c] \in [step : {"call", "problem"}, todo : Lists, copy : Orders]
                      \cup [step : {"store", "link"}, todo : Lists, copy : Orders,
                            number : 1 .. MaxWaybills]
      <4>1. task[c] \in Tasks
        BY <3>1, ShipTask DEF RInv, WInv
      <4> QED
        BY <3>1, <4>1 DEF Tasks, Idle
    <3> QED
      BY <3>1, <3>2 DEF MoveSteps
  <2>6. CASE TtnRead(c) \/ MarkProblem(c) \/ LinkDelivery(c)
    <3>1. PICK t : Hold(c, t) /\ t.step \in {"idle", "ttn", "call"}
      BY <2>6 DEF TtnRead, MarkProblem, LinkDelivery, ReportError, NextOrder, Idle
    <3> QED
      BY <1>2, <3>1 DEF MoveSteps
  <2> QED
    BY <2>1, <2>2, <2>3, <2>4, <2>5, <2>6 DEF Closing, Shipping
<1>4. UNCHANGED package
  BY DEF CloseDrop, Closing, SettleOne, Settled, RequestPackage, EnsureRead, EnsureFind,
     EnsureGather, TtnRequest, Shipping, TtnRead, TtnIssued, TtnFails, MarkProblem,
     StoreDelivery, LinkDelivery, documents
<1>5. \A o \in Orders : order'[o].status = "ready_to_ship" =>
                        order[o].status = "ready_to_ship"
  <2>1. order \in [Orders -> OrderDocs]
    BY DEF RInv, WInv, IInv, DocsOK
  <2>2. CASE SettleOne(c)
    <3>1. UNCHANGED order \/ \E p : order' = [order EXCEPT ![p].status = "paid"]
      BY <2>2 DEF SettleOne
    <3> QED
      BY <2>1, <3>1 DEF OrderDocs
  <2>3. CASE MarkProblem(c)
    BY <2>1, <2>3 DEF MarkProblem, OrderDocs
  <2>4. CASE LinkDelivery(c)
    BY <2>1, <2>4 DEF LinkDelivery, OrderDocs
  <2>5. CASE ~(SettleOne(c) \/ MarkProblem(c) \/ LinkDelivery(c))
    <3>1. UNCHANGED order
      BY <2>5 DEF CloseDrop, Closing, Settled, RequestPackage, EnsureRead, EnsureFind,
         EnsureGather, TtnRequest, Shipping, TtnRead, TtnIssued, TtnFails, StoreDelivery,
         documents
    <3> QED
      BY <3>1
  <2> QED
    BY <2>2, <2>3, <2>4, <2>5
<1> QED
  BY <1>1, <1>3, <1>4, <1>5, Bystander

LEMMA StepRInv ==
  ASSUME NEW c \in Admins, RInv(c), [Next]_vars
  PROVE  RInv(c)'
<1>1. WInv(c)'
  BY StepWInv DEF RInv
<1>2. \A a \in Admins :
        Begin(a) \/ Continue(a) \/ LoopError(a) \/ Fail(a) =>
          a = c /\ (Begin(a) \/ Continue(a))
  BY SoleWorks DEF RInv
<1>3. CASE Begin(c) \/ Continue(c)
  BY <1>1, <1>3, OtherCovers, MoveCovers, CreateCovers, MarkCovers, NotifyCovers, SaveCovers
     DEF RInv, Begin, Continue, Ensuring, Producing
<1>4. ASSUME \/ \E b \in Buyers : BuyerRead(b) \/ BuyerSave(b)
             \/ \E o \in Orders : OperatorMark(o)
             \/ UNCHANGED vars
      PROVE  RInv(c)'
  <2>1. UNCHANGED << package, task >>
    BY <1>4 DEF BuyerRead, BuyerSave, OperatorMark, documents, vars
  <2>2. \A o \in Orders : order'[o].status = "ready_to_ship" =>
                          order[o].status = "ready_to_ship"
    <3>1. CASE \E b \in Buyers : BuyerSave(b)
      <4>1. PICK b \in Buyers : BuyerSave(b)
        BY <3>1
      <4>2. \A o \in Orders : order'[o].status \in {order[o].status, "cancelled"}
        BY <4>1, BuyerSaves DEF RInv, WInv
      <4> QED
        BY <4>2
    <3>2. CASE \E o \in Orders : OperatorMark(o)
      BY <3>2 DEF OperatorMark, RInv, WInv, IInv, DocsOK, OrderDocs
    <3>3. CASE UNCHANGED order
      BY <3>3
    <3> QED
      BY <1>4, <3>1, <3>2, <3>3 DEF BuyerRead, documents, vars
  <2> QED
    BY <1>1, <2>1, <2>2, Bystander DEF RInv
<1> QED
  BY <1>2, <1>3, <1>4 DEF Next

ReadyInv == Calm => \E c \in Admins : RInv(c)

LEMMA InitReady == Init => ReadyInv
<1> SUFFICES ASSUME Init, Calm PROVE \E c \in Admins : RInv(c)
  BY DEF ReadyInv
<1>1. PICK c \in Admins : WInv(c)
  BY InitCalm DEF CalmInv
<1>2. task[c] = Idle /\ \A o \in Orders : order[o].status # "ready_to_ship"
  BY DEF Init
<1>3. Covered(c) /\ Allowed(c)
  BY <1>2 DEF Covered, Allowed, Idle, MoveSteps
<1> QED
  BY <1>1, <1>3 DEF RInv

LEMMA StepReady == ReadyInv /\ [Next]_vars => ReadyInv'
<1> SUFFICES ASSUME ReadyInv, [Next]_vars, Calm' PROVE \E c \in Admins : RInv(c)'
  BY DEF ReadyInv
<1>1. Calm
  BY EnvStays DEF Calm
<1> QED
  BY <1>1, StepRInv DEF ReadyInv

(* With one administrator at work and no failing database call, a customer's  *)
(* order is ready to ship only as part of a package that has been produced,   *)
(* or whose move to ready_to_ship is being carried out: markOrdersReadyToShip *)
(* runs before the package is saved, and no move takes the status back.       *)
THEOREM ReadyIsProduced == Spec => []ReadyMeansProduced
<1>1. ReadyInv => ReadyMeansProduced
  <2> SUFFICES ASSUME ReadyInv, Calm, NEW o \in Orders, order[o].status = "ready_to_ship"
               PROVE  \E k \in Made :
                        /\ o \in package[k].orderIds
                        /\ \/ package[k].status = "ready_to_ship"
                           \/ \E a \in Admins : At(a, "notify") \/ At(a, "save")
    BY DEF ReadyMeansProduced
  <2>1. PICK c \in Admins : Covered(c)
    BY DEF ReadyInv, RInv
  <2> QED
    BY <2>1 DEF Covered, Moving, At
<1> QED
  BY <1>1, InitReady, StepReady, PTL DEF Spec
=============================================================================
