---------------------------- MODULE PayoutsProofs ----------------------------
(***************************************************************************)
(* What is recorded as paid to a designer, for every set of orders, of     *)
(* requests at once and of amounts.  The first invariant, Backed, holds    *)
(* however requests overlap and fail; the others add what one request at   *)
(* a time (Alone, Tallied) or the absence of returns (Steady) give.        *)
(***************************************************************************)
EXTENDS Payouts, SumTheorems

\* Every book of orders the system can be in.
Books == [Orders -> OrderDocs \cup { Returned(d) : d \in OrderDocs }]
TInv == TypeOK /\ order \in Books

\* What is paid, or about to be saved as paid, was sent.
Backed ==
  /\ PaidIsBacked
  /\ \A w \in Workers : At(w, "pay") => task[w].next <= sent

IInv == TInv /\ Backed

-----------------------------------------------------------------------------
(* Amounts and saves *)

LEMMA BookShape ==
  ASSUME NEW copy \in Books
  PROVE  /\ DOMAIN copy = Orders /\ IsFiniteSet(Orders)
         /\ \A o \in Orders : /\ copy[o].quantity \in Nat /\ copy[o].price \in Nat
                             /\ copy[o].quantity * copy[o].price \in Nat
BY OrdersAssumption, OrderDocsAssumption DEF Books, Returned

LEMMA RevenueIsMoney ==
  ASSUME NEW copy \in Books, NEW S
  PROVE  SumRevenue(copy, S) \in Nat
<1>1. PICK f : f = Totals(copy)
  OBVIOUS
<1>2. PICK T : T = OrdersIn(copy, S)
  OBVIOUS
<1>3. IsFiniteSet(T) /\ \A o \in T : f[o] \in Nat /\ f[o] \in Int
  BY <1>1, <1>2, BookShape, FS_Subset DEF Totals, OrdersIn
<1>4. SumOver(f, T) \in Nat
  BY <1>3, SumType
<1> QED
  BY <1>1, <1>2, <1>4 DEF SumRevenue, SumOver

\* The revenue of some statuses as a sum over all orders.
PartOf(copy, S) ==
  [o \in Orders |-> IF copy[o].status \in S THEN copy[o].quantity * copy[o].price ELSE 0]

LEMMA RevenueOfAll ==
  ASSUME NEW copy \in Books, NEW S
  PROVE  SumOver(PartOf(copy, S), Orders) = SumRevenue(copy, S)
<1>1. PICK f : f = PartOf(copy, S)
  OBVIOUS
<1>2. PICK T : T = OrdersIn(copy, S)
  OBVIOUS
<1>3. PICK totals : totals = Totals(copy)
  OBVIOUS
<1>4. /\ T \in SUBSET Orders /\ IsFiniteSet(Orders)
      /\ IsFiniteSet(T) /\ IsFiniteSet(Orders \ T)
  BY <1>2, BookShape, FS_Subset DEF OrdersIn
<1>5. \A o \in Orders : f[o] \in Int
  BY <1>1, BookShape DEF PartOf
<1>6. SumOver(f, Orders) = SumOver(f, T) + SumOver(f, Orders \ T)
  BY <1>4, <1>5, SumSplits
<1>7. SumOver(f, T) = SumOver(totals, T)
  <2>1. \A o \in T : f[o] = totals[o]
    BY <1>1, <1>2, <1>3, BookShape DEF OrdersIn, PartOf, Totals
  <2> QED
    BY <1>4, <2>1, SumSame
<1>8. SumOver(f, Orders \ T) = 0
  <2>1. \A o \in Orders \ T : f[o] = 0
    BY <1>1, <1>2, BookShape DEF OrdersIn, PartOf
  <2> QED
    BY <1>4, <2>1, SumOfZeros
<1>9. SumOver(totals, T) = SumRevenue(copy, S)
  BY <1>2, <1>3 DEF SumRevenue, SumOver
<1>10. SumRevenue(copy, S) \in Nat
  BY RevenueIsMoney
<1> QED
  BY <1>1, <1>6, <1>7, <1>8, <1>9, <1>10

\* Sold and returned orders apart, or each order with its sign.
LEMMA NetIsWorth ==
  ASSUME NEW copy \in Books
  PROVE  MapThenSumSet(LAMBDA o : Worths(copy)[o], DOMAIN copy) =
           SumRevenue(copy, RevenueStatuses) - SumRevenue(copy, ReturnedStatuses)
<1>1. PICK worths : worths = Worths(copy)
  OBVIOUS
<1>2. PICK f : f = PartOf(copy, RevenueStatuses)
  OBVIOUS
<1>3. PICK g : g = PartOf(copy, ReturnedStatuses)
  OBVIOUS
<1>4. \A o \in Orders : f[o] \in Int /\ g[o] \in Int /\ worths[o] = f[o] - g[o]
  <2> SUFFICES ASSUME NEW o \in Orders
               PROVE  f[o] \in Int /\ g[o] \in Int /\ worths[o] = f[o] - g[o]
    OBVIOUS
  <2>1. PICK n \in Nat : n = copy[o].quantity * copy[o].price
    BY BookShape
  <2>2. /\ worths[o] = Worth(copy[o])
        /\ f[o] = IF copy[o].status \in RevenueStatuses THEN n ELSE 0
        /\ g[o] = IF copy[o].status \in ReturnedStatuses THEN n ELSE 0
    BY <1>1, <1>2, <1>3, <2>1, BookShape DEF PartOf, Worths
  <2>3. /\ copy[o].status \in RevenueStatuses => Worth(copy[o]) = n
        /\ copy[o].status \in ReturnedStatuses => Worth(copy[o]) = -n
        /\ copy[o].status \notin RevenueStatuses \cup ReturnedStatuses => Worth(copy[o]) = 0
    BY <2>1 DEF Worth, RevenueStatuses, ReturnedStatuses
  <2>4. copy[o].status \in RevenueStatuses => copy[o].status \notin ReturnedStatuses
    BY DEF RevenueStatuses, ReturnedStatuses
  <2> QED
    BY <2>2, <2>3, <2>4
<1>5. SumOver(worths, Orders) = SumOver(f, Orders) - SumOver(g, Orders)
  BY <1>4, BookShape, SumOfDifferences
<1>6. SumOver(worths, Orders) = MapThenSumSet(LAMBDA o : Worths(copy)[o], DOMAIN copy)
  BY <1>1, BookShape DEF SumOver
<1> QED
  BY <1>2, <1>3, <1>5, <1>6, RevenueOfAll

\* roundMoney is off by half a hundredth at most, whichever way a half goes.
LEMMA RoundsToTheNearest ==
  ASSUME NEW n \in Nat, NEW p \in Nat, NEW up
  PROVE  /\ ShareOf(n, p, up) \in Nat
         /\ -(Hundred * Cent) <= 2 * (Hundred * Cent * ShareOf(n, p, up) - n * p)
         /\ 2 * (Hundred * Cent * ShareOf(n, p, up) - n * p) <= Hundred * Cent
<1>1. PICK whole \in Nat \ {0} : whole = Hundred * Cent
  BY UnitsAssumption
<1>2. PICK x \in Nat : x = n * p
  OBVIOUS
<1>3. PICK q \in Int, r \in Int : q = x \div whole /\ r = x % whole
  OBVIOUS
<1>4. x = whole * q + r /\ 0 <= r /\ r < whole
  BY <1>3
<1>5. q \in Nat
  BY <1>3, <1>4
<1>6. PICK y \in Int : y = whole * q /\ whole * (q + 1) = y + whole
  OBVIOUS
<1>7. ShareOf(n, p, up) = q \/ (ShareOf(n, p, up) = q + 1 /\ 2 * r >= whole)
  BY <1>1, <1>2, <1>3 DEF ShareOf
<1>8. ShareOf(n, p, up) = q => 2 * r <= whole
  BY <1>1, <1>2, <1>3 DEF ShareOf
<1> HIDE DEF ShareOf
<1> QED
  BY <1>1, <1>2, <1>4, <1>5, <1>6, <1>7, <1>8

LEMMA AmountIsMoney ==
  ASSUME NEW copy \in Books
  PROVE  /\ PayoutAmount(copy, Percent) \in Nat
         /\ IsShare(PayoutAmount(copy, Percent), copy, Percent)
<1>1. PICK sum : sum = SumRevenue(copy, RevenueStatuses) - SumRevenue(copy, ReturnedStatuses)
  OBVIOUS
<1>2. sum \in Int /\ NotBelowZero(sum) \in Nat
  BY <1>1, RevenueIsMoney DEF NotBelowZero
<1>3. PayoutAmount(copy, Percent) = ShareOf(NotBelowZero(sum), Percent, copy \in RoundedUp)
  BY <1>1 DEF PayoutAmount, NetRevenue
<1>4. Percent \in Nat
  BY PercentAssumption, UnitsAssumption
<1>5. MapThenSumSet(LAMBDA o : Worths(copy)[o], DOMAIN copy) = sum
  BY <1>1, NetIsWorth
<1>6. PICK amount, net : amount = PayoutAmount(copy, Percent) /\ net = NotBelowZero(sum)
  OBVIOUS
<1>7. /\ amount \in Nat
      /\ -(Hundred * Cent) <= 2 * (Hundred * Cent * amount - net * Percent)
      /\ 2 * (Hundred * Cent * amount - net * Percent) <= Hundred * Cent
  BY <1>2, <1>3, <1>4, <1>6, RoundsToTheNearest
<1> QED
  BY <1>5, <1>6, <1>7 DEF IsShare

\* What a save makes of a stored document, field by field.
LEMMA SavedFields ==
  ASSUME NEW stored \in Documents, NEW read \in Documents, NEW new \in Documents
  PROVE  /\ Saved(stored, read, new) \in Documents
         /\ Saved(stored, read, new).status =
              IF new.status # read.status THEN new.status ELSE stored.status
         /\ Saved(stored, read, new).amount =
              IF new.amount # read.amount THEN new.amount ELSE stored.amount
         /\ Saved(stored, read, new).paidAmount =
              IF new.paidAmount # read.paidAmount THEN new.paidAmount ELSE stored.paidAmount
<1>1. DOMAIN stored = {"status", "amount", "paidAmount"}
  BY DEF Documents
<1> DEFINE doc == [ status |-> IF new.status # read.status THEN new.status ELSE stored.status,
                    amount |-> IF new.amount # read.amount THEN new.amount ELSE stored.amount,
                    paidAmount |-> IF new.paidAmount # read.paidAmount
                                   THEN new.paidAmount ELSE stored.paidAmount ]
<1>2. Saved(stored, read, new) = doc
  BY <1>1 DEF Saved
<1>3. doc \in Documents
  BY DEF Documents
<1> QED
  BY <1>2, <1>3

-----------------------------------------------------------------------------
(* The first invariant *)

LEMMA InitIInv == Init => IInv
<1> SUFFICES ASSUME Init PROVE IInv
  OBVIOUS
<1>1. order \in Books
  BY DEF Init, Books
<1>2. TypeOK
  BY DEF Init, TypeOK, Absent, Documents, Tasks, Idle, DropMoves
<1>3. Backed
  BY DEF Init, Backed, PaidIsBacked, Absent, At, Idle
<1> QED
  BY <1>1, <1>2, <1>3 DEF IInv, TInv

LEMMA AroundIInv ==
  ASSUME IInv, MoveDrop \/ Tick \/ OrderComesBack
  PROVE  IInv'
<1>1. CASE MoveDrop
  <2>1. drop' \in [status : DOMAIN DropMoves, completedAt : Nat \cup {NotCompleted}]
    <3>1. PICK s \in DropMoves[drop.status] :
            drop' = [ status |-> s,
                      completedAt |-> IF s = "completed" THEN clock ELSE drop.completedAt ]
      BY <1>1 DEF MoveDrop
    <3>2. drop.status \in DOMAIN DropMoves /\ drop.completedAt \in Nat \cup {NotCompleted}
          /\ clock \in Nat
      BY DEF IInv, TInv, TypeOK
    <3>3. s \in DOMAIN DropMoves
      BY <3>2 DEF DropMoves
    <3> QED
      BY <3>1, <3>2, <3>3
  <2> QED
    BY <1>1, <2>1 DEF MoveDrop, IInv, TInv, TypeOK, Backed, PaidIsBacked, At
<1>2. CASE Tick
  BY <1>2 DEF Tick, IInv, TInv, TypeOK, Backed, PaidIsBacked, At
<1>3. CASE OrderComesBack
  <2>1. order' \in Books
    BY <1>3 DEF OrderComesBack, IInv, TInv, Books, Returned
  <2> QED
    BY <1>3, <2>1 DEF OrderComesBack, IInv, TInv, TypeOK, Backed, PaidIsBacked, At
<1> QED
  BY <1>1, <1>2, <1>3

\* A request keeps or drops what it holds; documents and money stay.
LEMMA TaskOnly ==
  ASSUME IInv, NEW w \in Workers, NEW t \in Tasks, Hold(w, t),
         t.step = "pay" => t.next <= sent, UNCHANGED << payout, sent, elsewhere >>
  PROVE  IInv'
<1>1. task' \in [Workers -> Tasks]
  BY DEF IInv, TInv, TypeOK, Hold
<1>2. TInv'
  BY <1>1 DEF IInv, TInv, TypeOK, elsewhere
<1>3. ASSUME NEW v \in Workers, task'[v].step = "pay"
      PROVE  task'[v].next <= sent
  <2>1. CASE v = w
    BY <1>3, <2>1 DEF Hold, IInv, TInv, TypeOK
  <2>2. CASE v # w
    BY <1>3, <2>2 DEF Hold, IInv, TInv, TypeOK, Backed, At
  <2> QED
    BY <2>1, <2>2
<1> QED
  BY <1>2, <1>3 DEF IInv, Backed, PaidIsBacked, At

\* A request ends with one payout document changed.
LEMMA DocumentOnly ==
  ASSUME IInv, NEW w \in Workers, NEW k \in PayoutIds, NEW doc \in Documents,
         payout' = [payout EXCEPT ![k] = doc], doc.paidAmount <= sent, Hold(w, Idle),
         UNCHANGED << sent, elsewhere >>
  PROVE  IInv'
<1>1. payout' \in [PayoutIds -> Documents]
  BY DEF IInv, TInv, TypeOK
<1>2. task' \in [Workers -> Tasks]
  BY DEF IInv, TInv, TypeOK, Hold, Tasks
<1>3. TInv'
  BY <1>1, <1>2 DEF IInv, TInv, TypeOK, elsewhere
<1>4. PaidIsBacked'
  BY DEF IInv, TInv, TypeOK, Backed, PaidIsBacked
<1>5. \A v \in Workers : task'[v].step = "pay" => task'[v].next <= sent
  BY DEF IInv, TInv, TypeOK, Backed, Hold, Idle, At
<1> QED
  BY <1>3, <1>4, <1>5 DEF IInv, Backed, At

\* What a request holds at each step.
LEMMA TaskShape ==
  ASSUME TInv, NEW w \in Workers
  PROVE  /\ At(w, "find") => task[w].drop \in [status : DOMAIN DropMoves,
                                               completedAt : Nat \cup {NotCompleted}]
         /\ At(w, "calculate") =>
              /\ task[w].drop \in [status : DOMAIN DropMoves,
                                   completedAt : Nat \cup {NotCompleted}]
              /\ task[w].id \in PayoutIds \cup {NoPayout}
              /\ task[w].read \in Documents
         /\ At(w, "store") =>
              /\ task[w].id \in PayoutIds \cup {NoPayout}
              /\ task[w].read \in Documents
              /\ task[w].amount \in Nat
              /\ task[w].status \in {"pending", "ready_to_pay"}
         /\ At(w, "pay") =>
              /\ task[w].id \in PayoutIds
              /\ task[w].read \in Documents
              /\ task[w].next \in Nat
<1>1. task[w] \in Tasks
  BY DEF TInv, TypeOK
<1> QED
  BY <1>1 DEF Tasks, At, Idle

LEMMA EnsureIInv ==
  ASSUME IInv, NEW w \in Workers, Ensuring(w)
  PROVE  IInv'
<1>0. TInv /\ payout \in [PayoutIds -> Documents]
  BY DEF IInv, TInv, TypeOK
<1>1. CASE EnsureRead(w)
  <2> DEFINE t == [step |-> "find", drop |-> drop]
  <2>1. t \in Tasks
    BY <1>0 DEF TInv, TypeOK, Tasks
  <2> QED
    BY <1>1, <2>1, TaskOnly DEF EnsureRead
<1>2. CASE EnsureFind(w)
  <2>1. PICK k \in IF Exists = {} THEN {NoPayout} ELSE Exists :
          Hold(w, [ step |-> "calculate", drop |-> task[w].drop, id |-> k,
                    read |-> IF k = NoPayout THEN Absent ELSE payout[k] ])
    BY <1>2 DEF EnsureFind
  <2> DEFINE t == [ step |-> "calculate", drop |-> task[w].drop, id |-> k,
                    read |-> IF k = NoPayout THEN Absent ELSE payout[k] ]
  <2>2. k \in PayoutIds \cup {NoPayout}
    BY <2>1 DEF Exists
  <2>3. t.read \in Documents
    BY <1>0, <2>2 DEF Absent, Documents
  <2>4. t \in Tasks
    BY <1>0, <1>2, <2>2, <2>3, TaskShape DEF Tasks, EnsureFind
  <2> QED
    BY <1>2, <2>1, <2>4, TaskOnly DEF EnsureFind
<1>3. CASE EnsureCalculate(w)
  <2> DEFINE t == [ step |-> "store", id |-> task[w].id, read |-> task[w].read,
                    amount |-> PayoutAmount(order, Percent),
                    status |-> PayoutStatusWhen(WindowOpen(task[w].drop)) ]
  <2>1. t.amount \in Nat
    BY <1>0, AmountIsMoney DEF TInv
  <2>2. t.status \in {"pending", "ready_to_pay"}
    BY DEF PayoutStatusWhen
  <2>3. t \in Tasks
    BY <1>0, <1>3, <2>1, <2>2, TaskShape DEF Tasks, EnsureCalculate
  <2>4. Idle \in Tasks /\ Idle.step # "pay" /\ t.step # "pay"
    BY DEF Tasks, Idle
  <2>5. Hold(w, Idle) \/ Hold(w, t)
    BY <1>3 DEF EnsureCalculate
  <2> QED
    BY <1>3, <2>3, <2>4, <2>5, TaskOnly DEF EnsureCalculate
<1>4. CASE EnsureCreate(w)
  <2>1. CASE Exists = {}
    <3> DEFINE doc == [status |-> task[w].status, amount |-> task[w].amount, paidAmount |-> 0]
    <3>1. PICK k \in PayoutIds : payout' = [payout EXCEPT ![k] = doc]
      BY <1>4, <2>1 DEF EnsureCreate
    <3>2. doc \in Documents
      BY <1>0, <1>4, TaskShape DEF Documents, EnsureCreate, PayoutStatuses
    <3>3. doc.paidAmount <= sent
      BY <1>0 DEF TInv, TypeOK
    <3> QED
      BY <1>4, <3>1, <3>2, <3>3, DocumentOnly DEF EnsureCreate
  <2>2. CASE Exists # {}
    <3>1. Idle \in Tasks /\ Idle.step # "pay"
      BY DEF Tasks, Idle
    <3> QED
      BY <1>4, <2>2, <3>1, TaskOnly DEF EnsureCreate
  <2> QED
    BY <2>1, <2>2
<1>5. CASE EnsureSave(w)
  <2> DEFINE t == task[w]
             new == [t.read EXCEPT !.status = t.status, !.amount = t.amount]
             doc == Saved(payout[t.id], t.read, new)
  <2>1. t.id \in PayoutIds /\ t.read \in Documents /\ new \in Documents
        /\ new.paidAmount = t.read.paidAmount
    BY <1>0, <1>5, TaskShape DEF EnsureSave, Documents, PayoutStatuses
  <2>2. doc \in Documents /\ doc.paidAmount = payout[t.id].paidAmount
    <3>1. payout[t.id] \in Documents
      BY <1>0, <2>1
    <3> HIDE DEF new, t
    <3> QED
      BY <2>1, <3>1, SavedFields
  <2>3. doc.paidAmount <= sent
    BY <2>1, <2>2 DEF IInv, Backed, PaidIsBacked
  <2>4. payout' = [payout EXCEPT ![t.id] = doc]
    BY <1>5 DEF EnsureSave
  <2> HIDE DEF doc
  <2> QED
    BY <1>5, <2>1, <2>2, <2>3, <2>4, DocumentOnly DEF EnsureSave
<1> QED
  BY <1>1, <1>2, <1>3, <1>4, <1>5 DEF Ensuring

\* The payment an administrator records: of which payout, and how much.
PayTask(k, applied) ==
  [step |-> "pay", id |-> k, read |-> payout[k], next |-> PaidNext(payout[k], applied)]

LEMMA PayReadCopy ==
  ASSUME TInv, NEW w \in Workers, PayRead(w)
  PROVE  \E k \in PayoutIds : \E applied \in Nat :
           /\ payout[k] \in Documents
           /\ payout[k].status \notin {"absent", "paid", "cancelled"}
           /\ sent' = sent + applied
           /\ Hold(w, PayTask(k, applied))
<1> DEFINE Goes(k, applied) ==
      /\ payout[k].status \notin {"paid", "cancelled"}
      /\ sent' = sent + applied
      /\ Hold(w, PayTask(k, applied))
    Given(k) == Amounts \cup {NotBelowZero(payout[k].amount - payout[k].paidAmount)}
<1>1. PICK k \in Exists : \E applied \in Given(k) : Goes(k, applied)
  BY DEF PayRead, PayTask
<1>2. PICK applied \in Given(k) : Goes(k, applied)
  BY <1>1
<1>3. k \in PayoutIds /\ payout[k] \in Documents /\ payout[k].status # "absent"
  BY DEF Exists, TInv, TypeOK
<1>4. applied \in Nat
  <2>1. NotBelowZero(payout[k].amount - payout[k].paidAmount) \in Nat
    BY <1>3 DEF NotBelowZero, Documents
  <2> QED
    BY <2>1, AmountsAssumption
<1> QED
  BY <1>2, <1>3, <1>4

LEMMA PayIInv ==
  ASSUME IInv, NEW w \in Workers, Paying(w)
  PROVE  IInv'
<1>0. TInv /\ payout \in [PayoutIds -> Documents] /\ sent \in Nat
  BY DEF IInv, TInv, TypeOK
<1>1. CASE PayRead(w)
  <2>1. PICK k \in PayoutIds, applied \in Nat :
          /\ payout[k] \in Documents
          /\ sent' = sent + applied
          /\ Hold(w, PayTask(k, applied))
    BY <1>0, <1>1, PayReadCopy
  <2> DEFINE t == PayTask(k, applied)
  <2>2. payout[k].amount \in Nat /\ payout[k].paidAmount \in Nat
    BY <2>1 DEF Documents
  <2>5. t.next \in Nat /\ t.next <= payout[k].paidAmount + applied
    BY <2>2 DEF PayTask, PaidNext, Smaller
  <2>6. payout[k].paidAmount <= sent
    BY DEF IInv, Backed, PaidIsBacked
  <2>7. t.next <= sent' /\ sent' \in Nat
    BY <1>0, <2>1, <2>2, <2>5, <2>6
  <2>8. t \in Tasks
    BY <2>1, <2>5 DEF PayTask, Tasks
  <2>9. task' = [task EXCEPT ![w] = t] /\ task' \in [Workers -> Tasks]
    BY <1>0, <2>1, <2>8 DEF Hold, TInv, TypeOK
  <2>10. TInv'
    BY <1>0, <1>1, <2>7, <2>9 DEF TInv, TypeOK, PayRead, elsewhere
  <2>11. PaidIsBacked'
    <3>1. sent <= sent'
      BY <1>0, <2>1
    <3>2. payout' = payout
      BY <1>1 DEF PayRead
    <3>3. \A i \in PayoutIds : payout[i].paidAmount \in Nat /\ payout[i].paidAmount <= sent
      BY <1>0 DEF IInv, Backed, PaidIsBacked, Documents
    <3> QED
      BY <1>0, <2>7, <3>1, <3>2, <3>3 DEF PaidIsBacked
  <2>12. ASSUME NEW v \in Workers, task'[v].step = "pay"
         PROVE  task'[v].next <= sent'
    <3>1. CASE v = w
      BY <2>7, <2>9, <3>1 DEF IInv, TInv, TypeOK
    <3>2. CASE v # w
      <4>1. task'[v] = task[v]
        BY <1>0, <2>9, <3>2 DEF TInv, TypeOK
      <4>2. task[v].next \in Nat /\ task[v].next <= sent
        BY <1>0, <2>12, <4>1, TaskShape DEF IInv, Backed, At
      <4> QED
        BY <1>0, <2>1, <4>1, <4>2
    <3> QED
      BY <3>1, <3>2
  <2> QED
    BY <2>10, <2>11, <2>12 DEF IInv, Backed, At
<1>2. CASE PaySave(w)
  <2> DEFINE t == task[w]
             new == [ t.read EXCEPT !.paidAmount = t.next,
                      !.status = IF t.next >= t.read.amount THEN "paid" ELSE "partially_paid" ]
             doc == Saved(payout[t.id], t.read, new)
  <2>1. t.id \in PayoutIds /\ t.read \in Documents /\ new \in Documents
        /\ new.paidAmount = t.next
    BY <1>0, <1>2, TaskShape DEF PaySave, Documents, PayoutStatuses
  <2>2. doc \in Documents /\ doc.paidAmount \in {t.next, payout[t.id].paidAmount}
    <3>1. payout[t.id] \in Documents
      BY <1>0, <2>1
    <3> HIDE DEF new, t
    <3> QED
      BY <2>1, <3>1, SavedFields
  <2>3. doc.paidAmount <= sent
    BY <1>2, <2>1, <2>2 DEF IInv, Backed, PaidIsBacked, PaySave
  <2>4. payout' = [payout EXCEPT ![t.id] = doc]
    BY <1>2 DEF PaySave
  <2> HIDE DEF doc
  <2> QED
    BY <1>2, <2>1, <2>2, <2>3, <2>4, DocumentOnly DEF PaySave
<1> QED
  BY <1>1, <1>2 DEF Paying

LEMMA StepIInv == IInv /\ [Next]_vars => IInv'
<1> SUFFICES ASSUME IInv, [Next]_vars PROVE IInv'
  OBVIOUS
<1>1. CASE UNCHANGED vars
  BY <1>1 DEF vars, IInv, TInv, TypeOK, Backed, PaidIsBacked, At
<1>2. CASE MoveDrop \/ Tick \/ OrderComesBack
  BY <1>2, AroundIInv
<1>3. ASSUME NEW w \in Workers, Ensuring(w) \/ Paying(w) \/ Fail(w)
      PROVE  IInv'
  <2>1. CASE Fail(w)
    <3>1. Idle \in Tasks /\ Idle.step # "pay"
      BY DEF Tasks, Idle
    <3> QED
      BY <2>1, <3>1, TaskOnly DEF Fail
  <2> QED
    BY <1>3, <2>1, EnsureIInv, PayIInv
<1> QED
  BY <1>1, <1>2, <1>3 DEF Next

LEMMA Inductive == Spec => []IInv
BY InitIInv, StepIInv, PTL DEF Spec

(* Every document and suspended request keeps its type: amounts stay naturals, *)
(* for any quantities and prices the order schema accepts.                     *)
THEOREM TypeCorrect == Spec => []TypeOK
<1>1. IInv => TypeOK
  BY DEF IInv, TInv
<1> QED
  BY <1>1, Inductive, PTL

(* However many requests ensure and pay payouts at the same time, whatever     *)
(* fails and whatever comes back, no payout records more than was sent: each   *)
(* save of markPaid writes what its own copy and payment add up to.            *)
THEOREM MoneyIsBacked == Spec => []PaidIsBacked
<1>1. IInv => PaidIsBacked
  BY DEF IInv, Backed
<1> QED
  BY <1>1, Inductive, PTL

-----------------------------------------------------------------------------
(* Without returns.  The orders then stay as they are, so every payout and   *)
(* every copy of one has the same amount, however old the copy is.           *)

Share == PayoutAmount(order, Percent)
Reads(t) == t.step \in {"calculate", "store", "pay"}

SteadyTask(t) ==
  /\ Reads(t) /\ t.id # NoPayout => payout[t.id].status # "absent" /\ t.read.amount = Share
  /\ t.step = "store" => t.amount = Share
  /\ t.step = "pay" => t.next <= Share
Steady ==
  /\ \A k \in PayoutIds :
       /\ payout[k].status # "absent" => payout[k].amount = Share
       /\ payout[k].paidAmount <= payout[k].amount
  /\ \A w \in Workers : SteadyTask(task[w])

LEMMA SteadyHold ==
  ASSUME TInv, Steady, NEW w \in Workers, NEW t, SteadyTask(t), Hold(w, t),
         UNCHANGED << payout, order >>
  PROVE  Steady'
<1>1. \A v \in Workers : task'[v] = IF v = w THEN t ELSE task[v]
  BY DEF Hold, TInv, TypeOK
<1>2. Share' = Share
  BY DEF Share
<1>3. \A v \in Workers : SteadyTask(task[v])'
  BY <1>1, <1>2 DEF Steady, SteadyTask, Reads
<1> QED
  BY <1>2, <1>3 DEF Steady

LEMMA SteadySave ==
  ASSUME TInv, Steady, NEW w \in Workers, NEW k \in PayoutIds, NEW doc \in Documents,
         payout' = [payout EXCEPT ![k] = doc], doc.status # "absent", doc.amount = Share,
         doc.paidAmount <= Share, Hold(w, Idle), UNCHANGED order
  PROVE  Steady'
<1>1. \A v \in Workers : task'[v] = IF v = w THEN Idle ELSE task[v]
  BY DEF Hold, TInv, TypeOK
<1>2. Share' = Share
  BY DEF Share
<1>3. \A j \in PayoutIds : payout'[j] = IF j = k THEN doc ELSE payout[j]
  BY DEF TInv, TypeOK
<1>4. ASSUME NEW v \in Workers
      PROVE  SteadyTask(task[v])'
  <2>1. CASE v = w
    BY <1>1, <2>1 DEF SteadyTask, Reads, Idle
  <2>2. CASE v # w
    <3>1. task'[v] = task[v] /\ SteadyTask(task[v])
      BY <1>1, <2>2 DEF Steady
    <3>2. ASSUME Reads(task[v]), task[v].id # NoPayout
          PROVE  payout'[task[v].id].status # "absent"
      <4>1. task[v].id \in PayoutIds
        BY <3>2, TaskShape DEF Reads, At
      <4> QED
        BY <1>3, <3>1, <3>2, <4>1 DEF SteadyTask
    <3> QED
      BY <1>2, <3>1, <3>2 DEF SteadyTask, Reads
  <2> QED
    BY <2>1, <2>2
<1> QED
  BY <1>2, <1>3, <1>4 DEF Steady

LEMMA SteadyStep ==
  ASSUME TInv, Steady, ~env.returns, [Next]_vars
  PROVE  Steady'
<1>0. payout \in [PayoutIds -> Documents] /\ Share \in Nat
  BY AmountIsMoney DEF TInv, TypeOK, Share
<1>1. CASE UNCHANGED vars \/ MoveDrop \/ Tick \/ OrderComesBack
  <2>1. UNCHANGED << payout, order, task >>
    BY <1>1 DEF vars, MoveDrop, Tick, OrderComesBack
  <2> QED
    BY <2>1 DEF Steady, SteadyTask, Share, Reads
<1>2. ASSUME NEW w \in Workers, Ensuring(w) \/ Paying(w) \/ Fail(w)
      PROVE  Steady'
  <2>0. UNCHANGED order
    BY <1>2 DEF Ensuring, Paying, EnsureRead, EnsureFind, EnsureCalculate, EnsureCreate,
       EnsureSave, PayRead, PaySave, Fail, elsewhere
  <2>a. SteadyTask(Idle) /\ SteadyTask(task[w])
    BY DEF Steady, SteadyTask, Reads, Idle
  <2>1. CASE EnsureRead(w)
    <3>1. SteadyTask([step |-> "find", drop |-> drop])
      BY DEF SteadyTask, Reads
    <3> QED
      BY <2>0, <2>1, <3>1, SteadyHold DEF EnsureRead
  <2>2. CASE EnsureFind(w)
    <3>1. PICK k \in IF Exists = {} THEN {NoPayout} ELSE Exists :
            Hold(w, [ step |-> "calculate", drop |-> task[w].drop, id |-> k,
                      read |-> IF k = NoPayout THEN Absent ELSE payout[k] ])
      BY <2>2 DEF EnsureFind
    <3> DEFINE t == [ step |-> "calculate", drop |-> task[w].drop, id |-> k,
                      read |-> IF k = NoPayout THEN Absent ELSE payout[k] ]
    <3>2. k # NoPayout => k \in PayoutIds /\ payout[k].status # "absent"
      BY <3>1 DEF Exists
    <3>3. SteadyTask(t)
      BY <3>2 DEF SteadyTask, Reads, Steady
    <3> QED
      BY <2>0, <2>2, <3>1, <3>3, SteadyHold DEF EnsureFind
  <2>3. CASE EnsureCalculate(w)
    <3> DEFINE t == [ step |-> "store", id |-> task[w].id, read |-> task[w].read,
                      amount |-> PayoutAmount(order, Percent),
                      status |-> PayoutStatusWhen(WindowOpen(task[w].drop)) ]
    <3>1. SteadyTask(t)
      BY <2>3, <2>a DEF SteadyTask, Reads, Share, EnsureCalculate, At
    <3>2. Hold(w, Idle) \/ Hold(w, t)
      BY <2>3 DEF EnsureCalculate
    <3> HIDE DEF t
    <3> QED
      BY <2>0, <2>3, <2>a, <3>1, <3>2, SteadyHold DEF EnsureCalculate
  <2>4. CASE EnsureCreate(w)
    <3>1. CASE Exists = {}
      <4> DEFINE doc == [status |-> task[w].status, amount |-> task[w].amount, paidAmount |-> 0]
      <4>1. PICK k \in PayoutIds : payout' = [payout EXCEPT ![k] = doc]
        BY <2>4, <3>1 DEF EnsureCreate
      <4>2. doc \in Documents /\ doc.status # "absent"
        BY <2>4, TaskShape DEF Documents, EnsureCreate, PayoutStatuses
      <4>3. doc.amount = Share /\ doc.paidAmount <= Share
        BY <1>0, <2>4, <2>a DEF SteadyTask, EnsureCreate, At
      <4> QED
        BY <2>0, <2>4, <4>1, <4>2, <4>3, SteadySave DEF EnsureCreate
    <3>2. CASE Exists # {}
      BY <2>0, <2>4, <2>a, <3>2, SteadyHold DEF EnsureCreate
    <3> QED
      BY <3>1, <3>2
  <2>5. CASE EnsureSave(w)
    <3> DEFINE t == task[w]
               new == [t.read EXCEPT !.status = t.status, !.amount = t.amount]
               doc == Saved(payout[t.id], t.read, new)
    <3>1. /\ t.id \in PayoutIds /\ t.read \in Documents /\ new \in Documents
          /\ new.status # "absent" /\ new.amount = t.amount
          /\ new.paidAmount = t.read.paidAmount
      BY <2>5, TaskShape DEF EnsureSave, Documents, PayoutStatuses
    <3>2. /\ t.amount = Share /\ t.read.amount = Share
          /\ payout[t.id].status # "absent" /\ payout[t.id].amount = Share
          /\ payout[t.id].paidAmount <= Share
      BY <2>5, <2>a, <3>1 DEF SteadyTask, Reads, Steady, EnsureSave, At
    <3>3. doc \in Documents /\ doc.status # "absent" /\ doc.amount = Share
          /\ doc.paidAmount <= Share
      <4>1. payout[t.id] \in Documents
        BY <1>0, <3>1
      <4> HIDE DEF new, t
      <4> QED
        BY <3>1, <3>2, <4>1, SavedFields
    <3>4. payout' = [payout EXCEPT ![t.id] = doc]
      BY <2>5 DEF EnsureSave
    <3> HIDE DEF doc
    <3> QED
      BY <2>0, <2>5, <3>1, <3>3, <3>4, SteadySave DEF EnsureSave
  <2>6. CASE PayRead(w)
    <3>1. PICK k \in PayoutIds, applied \in Nat :
            /\ payout[k] \in Documents /\ payout[k].status # "absent"
            /\ Hold(w, PayTask(k, applied))
      BY <2>6, PayReadCopy
    <3> DEFINE t == PayTask(k, applied)
    <3>2. payout[k].amount = Share /\ payout[k].paidAmount \in Nat
      BY <3>1 DEF Steady, Documents
    <3>3. t.next <= Share
      BY <1>0, <3>2 DEF PayTask, PaidNext, Smaller
    <3>4. SteadyTask(t)
      BY <3>1, <3>2, <3>3 DEF PayTask, SteadyTask, Reads
    <3> QED
      BY <2>0, <2>6, <3>1, <3>4, SteadyHold DEF PayRead
  <2>7. CASE PaySave(w)
    <3> DEFINE t == task[w]
               new == [ t.read EXCEPT !.paidAmount = t.next,
                        !.status = IF t.next >= t.read.amount THEN "paid" ELSE "partially_paid" ]
               doc == Saved(payout[t.id], t.read, new)
    <3>1. /\ t.id \in PayoutIds /\ t.read \in Documents /\ new \in Documents
          /\ new.status # "absent" /\ new.amount = t.read.amount /\ new.paidAmount = t.next
      BY <2>7, TaskShape DEF PaySave, Documents, PayoutStatuses
    <3>2. /\ t.next <= Share /\ t.read.amount = Share
          /\ payout[t.id].status # "absent" /\ payout[t.id].amount = Share
          /\ payout[t.id].paidAmount <= Share
      BY <2>7, <2>a, <3>1, NoPayoutAssumption DEF SteadyTask, Reads, Steady, PaySave, At
    <3>3. doc \in Documents /\ doc.status # "absent" /\ doc.amount = Share
          /\ doc.paidAmount <= Share
      <4>1. payout[t.id] \in Documents
        BY <1>0, <3>1
      <4> HIDE DEF new, t
      <4> QED
        BY <3>1, <3>2, <4>1, SavedFields
    <3>4. payout' = [payout EXCEPT ![t.id] = doc]
      BY <2>7 DEF PaySave
    <3> HIDE DEF doc
    <3> QED
      BY <2>0, <2>7, <3>1, <3>3, <3>4, SteadySave DEF PaySave
  <2>8. CASE Fail(w)
    BY <2>0, <2>8, <2>a, SteadyHold DEF Fail
  <2> QED
    BY <1>2, <2>1, <2>2, <2>3, <2>4, <2>5, <2>6, <2>7, <2>8 DEF Ensuring, Paying
<1> QED
  BY <1>1, <1>2 DEF Next

-----------------------------------------------------------------------------
(* One request at a time.  What the request w holds is then what is stored,  *)
(* and a payout something was paid of is settled: w calculates it no more.   *)

AloneTask(t) ==
  /\ t.step \in {"calculate", "store"} =>
       IF t.id = NoPayout THEN Exists = {} ELSE t.id \in Exists /\ t.read = payout[t.id]
  /\ t.step = "store" => ~Settled(t.read.status)
  /\ t.step = "pay" =>
       /\ t.id \in Exists /\ t.read = payout[t.id] /\ t.read.status # "paid"
       /\ t.read.paidAmount <= t.next /\ t.next <= t.read.amount
Orderly ==
  /\ \A j, k \in Exists : j = k
  /\ \A k \in PayoutIds : /\ payout[k].paidAmount <= payout[k].amount
                          /\ payout[k].paidAmount > 0 => Settled(payout[k].status)
Alone(w) ==
  /\ \A v \in Workers \ {w} : task[v] = Idle
  /\ Orderly
  /\ AloneTask(task[w])

\* Without failures, w is about to save, or has saved, all that was sent.
Tallied(w) ==
  /\ Exists = {} => sent = 0
  /\ IF At(w, "pay")
     THEN task[w].next = Smaller(task[w].read.amount, sent)
     ELSE \A k \in Exists : /\ payout[k].paidAmount = Smaller(payout[k].amount, sent)
                            /\ Settled(payout[k].status) \/ sent = 0

\* What one step may do to the documents when w works alone.
Lasts ==
  \A k \in PayoutIds :
    /\ payout[k].paidAmount > 0 =>
         payout'[k].amount = payout[k].amount /\ payout'[k].paidAmount >= payout[k].paidAmount
    /\ payout[k].status = "paid" => payout'[k].status = "paid"

SInv(w) == Alone(w) /\ (~env.faults => Tallied(w))

LEMMA AloneHold ==
  ASSUME TInv, NEW w \in Workers, SInv(w), NEW t, AloneTask(t), Hold(w, t), t.step # "pay",
         ~At(w, "pay") \/ env.faults, UNCHANGED << payout, sent, env >>
  PROVE  SInv(w)' /\ Lasts
<1>1. \A v \in Workers : task'[v] = IF v = w THEN t ELSE task[v]
  BY DEF Hold, TInv, TypeOK
<1>2. Exists' = Exists
  BY DEF Exists
<1>3. Alone(w)'
  BY <1>1, <1>2 DEF SInv, Alone, Orderly, AloneTask
<1>4. ASSUME ~env.faults
      PROVE  Tallied(w)'
  BY <1>1, <1>2, <1>4 DEF SInv, Tallied, At
<1>5. payout \in [PayoutIds -> Documents]
  BY DEF TInv, TypeOK
<1>6. Lasts
  BY <1>5 DEF Lasts, Documents
<1> QED
  BY <1>3, <1>4, <1>6 DEF SInv

LEMMA AloneSave ==
  ASSUME TInv, NEW w \in Workers, SInv(w), NEW k \in PayoutIds, NEW doc \in Documents,
         payout' = [payout EXCEPT ![k] = doc], doc.status # "absent",
         Exists = {} \/ k \in Exists,
         doc.paidAmount <= doc.amount, doc.paidAmount > 0 => Settled(doc.status),
         ~env.faults => /\ doc.paidAmount = Smaller(doc.amount, sent)
                        /\ Settled(doc.status) \/ sent = 0,
         Hold(w, Idle), UNCHANGED << sent, env >>
  PROVE  SInv(w)'
<1>1. \A v \in Workers : task'[v] = IF v = w THEN Idle ELSE task[v]
  BY DEF Hold, TInv, TypeOK
<1>2. \A j \in PayoutIds : payout'[j] = IF j = k THEN doc ELSE payout[j]
  BY DEF TInv, TypeOK
<1>3. Exists' = {k}
  BY <1>2 DEF Exists, SInv, Alone, Orderly
<1>4. Orderly'
  BY <1>2, <1>3 DEF SInv, Alone, Orderly
<1>5. AloneTask(Idle)'
  BY DEF AloneTask, Idle
<1>6. Alone(w)'
  BY <1>1, <1>4, <1>5 DEF SInv, Alone
<1>7. ASSUME ~env.faults
      PROVE  Tallied(w)'
  BY <1>1, <1>2, <1>3, <1>7 DEF Tallied, At, Idle
<1> QED
  BY <1>6, <1>7 DEF SInv

\* Only w, alone at work, takes steps of a request.
LEMMA OnlyWorker ==
  ASSUME NEW w \in Workers, env.workers = {w}, Alone(w), NEW v \in Workers,
         Ensuring(v) \/ Paying(v) \/ Fail(v)
  PROVE  v = w
<1>1. v \in env.workers \/ task[v] # Idle
  BY DEF Ensuring, Paying, EnsureRead, EnsureFind, EnsureCalculate, EnsureCreate,
     EnsureSave, PayRead, PaySave, Fail, Free, At, Idle
<1> QED
  BY <1>1 DEF Alone

LEMMA InitSInv ==
  ASSUME Init, NEW w \in Workers
  PROVE  SInv(w)
<1>1. Exists = {} /\ sent = 0 /\ task[w] = Idle
  BY DEF Init, Exists, Absent
<1>2. Alone(w)
  BY <1>1 DEF Init, Alone, Orderly, AloneTask, Absent, Idle
<1>3. Tallied(w)
  BY <1>1 DEF Tallied, At, Idle
<1> QED
  BY <1>2, <1>3 DEF SInv

LEMMA AloneEnsure ==
  ASSUME TInv, NEW w \in Workers, SInv(w), Ensuring(w)
  PROVE  SInv(w)' /\ Lasts
<1>0. payout \in [PayoutIds -> Documents] /\ sent \in Nat
  BY DEF TInv, TypeOK
<1>a. AloneTask(Idle) /\ AloneTask(task[w])
  BY DEF SInv, Alone, AloneTask, Idle
<1>b. UNCHANGED env
  BY DEF Ensuring, EnsureRead, EnsureFind, EnsureCalculate, EnsureCreate, EnsureSave, elsewhere
<1>1. CASE EnsureRead(w)
  <2>1. AloneTask([step |-> "find", drop |-> drop])
    BY DEF AloneTask
  <2> QED
    BY <1>1, <1>b, <2>1, AloneHold DEF EnsureRead, Free, At, Idle
<1>2. CASE EnsureFind(w)
  <2>1. PICK k \in IF Exists = {} THEN {NoPayout} ELSE Exists :
          Hold(w, [ step |-> "calculate", drop |-> task[w].drop, id |-> k,
                    read |-> IF k = NoPayout THEN Absent ELSE payout[k] ])
    BY <1>2 DEF EnsureFind
  <2> DEFINE t == [ step |-> "calculate", drop |-> task[w].drop, id |-> k,
                    read |-> IF k = NoPayout THEN Absent ELSE payout[k] ]
  <2>2. IF Exists = {} THEN k = NoPayout ELSE k \in Exists /\ k # NoPayout
    BY <2>1, NoPayoutAssumption DEF Exists
  <2>3. AloneTask(t)
    BY <2>2 DEF AloneTask
  <2> QED
    BY <1>2, <1>b, <2>1, <2>3, AloneHold DEF EnsureFind, At
<1>3. CASE EnsureCalculate(w)
  <2> DEFINE t == [ step |-> "store", id |-> task[w].id, read |-> task[w].read,
                    amount |-> PayoutAmount(order, Percent),
                    status |-> PayoutStatusWhen(WindowOpen(task[w].drop)) ]
  <2>1. Settled(task[w].read.status) \/ AloneTask(t)
    BY <1>3, <1>a DEF AloneTask, EnsureCalculate, At
  <2>2. \/ Hold(w, Idle)
        \/ Hold(w, t) /\ AloneTask(t)
    BY <1>3, <2>1 DEF EnsureCalculate
  <2>3. Idle.step # "pay" /\ t.step # "pay" /\ ~At(w, "pay")
    BY <1>3 DEF EnsureCalculate, At, Idle
  <2> HIDE DEF t
  <2> QED
    BY <1>3, <1>a, <1>b, <2>2, <2>3, AloneHold DEF EnsureCalculate
<1>4. CASE EnsureCreate(w)
  <2>1. CASE Exists = {}
    <3> DEFINE doc == [status |-> task[w].status, amount |-> task[w].amount, paidAmount |-> 0]
    <3>1. PICK k \in PayoutIds : payout' = [payout EXCEPT ![k] = doc]
      BY <1>4, <2>1 DEF EnsureCreate
    <3>2. doc \in Documents /\ doc.status # "absent" /\ doc.paidAmount <= doc.amount
      BY <1>4, TaskShape DEF Documents, EnsureCreate, PayoutStatuses
    <3>3. ~env.faults => sent = 0 /\ doc.paidAmount = Smaller(doc.amount, sent)
      BY <2>1, <3>2 DEF SInv, Tallied, Smaller, Documents
    <3>a. ~(doc.paidAmount > 0) /\ Hold(w, Idle) /\ UNCHANGED sent
      BY <1>4 DEF EnsureCreate
    <3>4. SInv(w)'
      <4> HIDE DEF doc
      <4> QED
        BY <1>b, <2>1, <3>1, <3>2, <3>3, <3>a, AloneSave
    <3>5. payout[k].paidAmount = 0 /\ payout[k].status = "absent"
      BY <1>0, <2>1 DEF Exists, SInv, Alone, Orderly, Settled, Documents
    <3>6. Lasts
      BY <1>0, <3>1, <3>5 DEF Lasts, Documents
    <3> QED
      BY <3>4, <3>6
  <2>2. CASE Exists # {}
    BY <1>4, <1>a, <1>b, <2>2, AloneHold DEF EnsureCreate, At, Idle
  <2> QED
    BY <2>1, <2>2
<1>5. CASE EnsureSave(w)
  <2> DEFINE t == task[w]
             new == [t.read EXCEPT !.status = t.status, !.amount = t.amount]
             doc == Saved(payout[t.id], t.read, new)
  <2>1. /\ t.id \in PayoutIds /\ t.read \in Documents /\ new \in Documents
        /\ new.status \in {"pending", "ready_to_pay"}
        /\ new.paidAmount = t.read.paidAmount
    BY <1>5, TaskShape DEF EnsureSave, Documents, PayoutStatuses
  <2>2. t.id \in Exists /\ t.read = payout[t.id] /\ ~Settled(t.read.status)
    BY <1>5, <1>a DEF AloneTask, EnsureSave, At
  <2>3. payout[t.id].paidAmount = 0
    BY <2>1, <2>2 DEF SInv, Alone, Orderly, Documents
  <2>4. doc \in Documents /\ doc.status # "absent" /\ doc.paidAmount = 0
    <3> HIDE DEF new, t
    <3> QED
      BY <2>1, <2>2, <2>3, SavedFields
  <2>5. payout' = [payout EXCEPT ![t.id] = doc]
    BY <1>5 DEF EnsureSave
  <2>6. ~env.faults => sent = 0
    BY <1>5, <2>2 DEF SInv, Tallied, EnsureSave, At
  <2> HIDE DEF doc
  <2>7. doc.paidAmount <= doc.amount /\ (~env.faults => doc.paidAmount = Smaller(doc.amount, sent))
    BY <2>4, <2>6 DEF Documents, Smaller
  <2>a. ~(doc.paidAmount > 0) /\ Hold(w, Idle) /\ UNCHANGED sent
    BY <1>5, <2>4 DEF EnsureSave
  <2>8. SInv(w)'
    <3> HIDE DEF t
    <3> QED
      BY <1>b, <2>1, <2>2, <2>4, <2>5, <2>6, <2>7, <2>a, AloneSave
  <2>9. payout[t.id].status # "paid"
    BY <2>2 DEF Settled
  <2>10. Lasts
    BY <1>0, <2>1, <2>3, <2>5, <2>9 DEF Lasts, Documents
  <2> QED
    BY <2>8, <2>10
<1> QED
  BY <1>1, <1>2, <1>3, <1>4, <1>5 DEF Ensuring

LEMMA AlonePay ==
  ASSUME TInv, NEW w \in Workers, SInv(w), Paying(w)
  PROVE  SInv(w)' /\ Lasts
<1>0. payout \in [PayoutIds -> Documents] /\ sent \in Nat
  BY DEF TInv, TypeOK
<1>1. CASE PayRead(w)
  <2>1. PICK k \in PayoutIds, applied \in Nat :
          /\ payout[k] \in Documents
          /\ payout[k].status \notin {"absent", "paid", "cancelled"}
          /\ sent' = sent + applied
          /\ Hold(w, PayTask(k, applied))
    BY <1>1, PayReadCopy
  <2> DEFINE t == PayTask(k, applied)
  <2>2. UNCHANGED << payout, env >> /\ Exists' = Exists /\ k \in Exists
    BY <1>1, <2>1 DEF PayRead, elsewhere, Exists
  <2>3. \A v \in Workers : task'[v] = IF v = w THEN t ELSE task[v]
    BY <2>1 DEF Hold, TInv, TypeOK
  <2>4. payout[k].amount \in Nat /\ payout[k].paidAmount \in Nat
        /\ payout[k].paidAmount <= payout[k].amount
    BY <2>1 DEF Documents, SInv, Alone, Orderly
  <2>5. AloneTask(t)
    BY <2>1, <2>2, <2>4 DEF AloneTask, PayTask, PaidNext, Smaller
  <2>6. Alone(w)'
    BY <2>2, <2>3, <2>5 DEF SInv, Alone, Orderly, AloneTask
  <2>7. ASSUME ~env.faults
        PROVE  Tallied(w)'
    <3>1. ~At(w, "pay")
      BY <1>1 DEF PayRead, Free, At, Idle
    <3>2. payout[k].paidAmount = Smaller(payout[k].amount, sent)
      BY <2>2, <2>7, <3>1 DEF SInv, Tallied
    <3>3. t.step = "pay" /\ t.next = Smaller(t.read.amount, sent')
      BY <1>0, <2>1, <2>4, <3>2 DEF PayTask, PaidNext, Smaller
    <3> QED
      BY <2>2, <2>3, <3>3 DEF Tallied, At
  <2>8. Lasts
    BY <1>0, <2>2 DEF Lasts, Documents
  <2> QED
    BY <2>2, <2>6, <2>7, <2>8 DEF SInv
<1>2. CASE PaySave(w)
  <2> DEFINE t == task[w]
             new == [ t.read EXCEPT !.paidAmount = t.next,
                      !.status = IF t.next >= t.read.amount THEN "paid" ELSE "partially_paid" ]
             doc == Saved(payout[t.id], t.read, new)
  <2>1. /\ t.id \in PayoutIds /\ t.read \in Documents /\ new \in Documents
        /\ new.status \in {"paid", "partially_paid"}
        /\ new.amount = t.read.amount /\ new.paidAmount = t.next
    BY <1>2, TaskShape DEF PaySave, Documents, PayoutStatuses
  <2>2. /\ t.id \in Exists /\ t.read = payout[t.id] /\ t.read.status # "paid"
        /\ t.read.paidAmount <= t.next /\ t.next <= t.read.amount
    BY <1>2 DEF SInv, Alone, AloneTask, PaySave, At
  <2>3. /\ doc \in Documents /\ doc.status \in {"paid", "partially_paid"}
        /\ doc.amount = t.read.amount /\ doc.paidAmount = t.next
    <3> HIDE DEF new, t
    <3> QED
      BY <2>1, <2>2, SavedFields
  <2>4. payout' = [payout EXCEPT ![t.id] = doc]
    BY <1>2 DEF PaySave
  <2>5. ~env.faults => doc.paidAmount = Smaller(doc.amount, sent)
    BY <1>2, <2>3 DEF SInv, Tallied, PaySave
  <2> HIDE DEF doc
  <2>6. SInv(w)'
    BY <1>2, <2>1, <2>2, <2>3, <2>4, <2>5, AloneSave DEF PaySave, Settled, elsewhere
  <2>7. Lasts
    BY <1>0, <2>1, <2>2, <2>3, <2>4 DEF Lasts, Documents
  <2> QED
    BY <2>6, <2>7
<1> QED
  BY <1>1, <1>2 DEF Paying

LEMMA AloneStep ==
  ASSUME TInv, NEW w \in Workers, env.workers = {w}, SInv(w), [Next]_vars
  PROVE  SInv(w)' /\ Lasts
<1>0. payout \in [PayoutIds -> Documents]
  BY DEF TInv, TypeOK
<1>1. CASE UNCHANGED vars \/ MoveDrop \/ Tick \/ OrderComesBack
  <2>1. UNCHANGED << payout, sent, env, task >>
    BY <1>1 DEF vars, MoveDrop, Tick, OrderComesBack
  <2>2. Exists' = Exists
    BY <2>1 DEF Exists
  <2>3. SInv(w)'
    BY <2>1, <2>2 DEF SInv, Alone, Orderly, AloneTask, Tallied, At
  <2>4. Lasts
    BY <1>0, <2>1 DEF Lasts, Documents
  <2> QED
    BY <2>3, <2>4
<1>2. ASSUME NEW v \in Workers, Ensuring(v) \/ Paying(v) \/ Fail(v)
      PROVE  SInv(w)' /\ Lasts
  <2>1. v = w
    BY <1>2, OnlyWorker DEF SInv
  <2>2. CASE Fail(w)
    <3>1. AloneTask(Idle) /\ Idle.step # "pay"
      BY DEF AloneTask, Idle
    <3> QED
      BY <2>2, <3>1, AloneHold DEF Fail, elsewhere
  <2> QED
    BY <1>2, <2>1, <2>2, AloneEnsure, AlonePay
<1> QED
  BY <1>1, <1>2 DEF Next

-----------------------------------------------------------------------------
(* One payout.  Whatever overlaps, fails or comes back, a second document is *)
(* never made, and what a request is about to save is one that exists.       *)
One ==
  /\ \A j, k \in Exists : j = k
  /\ \A w \in Workers :
       Reads(task[w]) /\ task[w].id # NoPayout => task[w].id \in Exists

LEMMA OneHold ==
  ASSUME TInv, One, NEW w \in Workers, NEW t, Hold(w, t), Exists' = Exists,
         Reads(t) /\ t.id # NoPayout => t.id \in Exists
  PROVE  One'
<1>1. \A v \in Workers : task'[v] = IF v = w THEN t ELSE task[v]
  BY DEF Hold, TInv, TypeOK
<1> QED
  BY <1>1 DEF One, Reads

\* A save leaves the document it changes.
LEMMA OneSave ==
  ASSUME TInv, One, NEW w \in Workers, At(w, "store") \/ At(w, "pay"), NEW new \in Documents,
         task[w].id # NoPayout, new.status # "absent", Hold(w, Idle),
         payout' = [payout EXCEPT ![task[w].id] = Saved(@, task[w].read, new)]
  PROVE  One'
<1>1. PICK k : k = task[w].id
  OBVIOUS
<1>2. k \in Exists /\ k \in PayoutIds /\ payout \in [PayoutIds -> Documents]
  BY <1>1 DEF One, Reads, At, Exists, TInv, TypeOK
<1>3. task[w].read \in Documents
  BY TaskShape
<1>4. PICK doc : doc = Saved(payout[k], task[w].read, new)
  OBVIOUS
<1>5. doc.status # "absent"
  BY <1>2, <1>3, <1>4, SavedFields DEF Exists
<1>6. payout' = [payout EXCEPT ![k] = doc]
  BY <1>1, <1>4
<1>7. Exists' = Exists
  BY <1>2, <1>5, <1>6 DEF Exists
<1> QED
  BY <1>7, OneHold DEF Reads, Idle

LEMMA OneStep ==
  ASSUME TInv, One, [Next]_vars
  PROVE  One'
<1>1. CASE UNCHANGED vars \/ MoveDrop \/ Tick \/ OrderComesBack
  BY <1>1 DEF vars, MoveDrop, Tick, OrderComesBack, One, Exists, Reads
<1>2. ASSUME NEW w \in Workers, Ensuring(w) \/ Paying(w) \/ Fail(w)
      PROVE  One'
  <2>1. CASE EnsureRead(w) \/ Fail(w)
    <3>1. PICK t : Hold(w, t) /\ ~Reads(t)
      BY <2>1 DEF EnsureRead, Fail, Reads, Idle
    <3> QED
      BY <2>1, <3>1, OneHold DEF EnsureRead, Fail, Exists
  <2>2. CASE EnsureFind(w)
    <3>1. PICK k \in IF Exists = {} THEN {NoPayout} ELSE Exists :
            Hold(w, [ step |-> "calculate", drop |-> task[w].drop, id |-> k,
                      read |-> IF k = NoPayout THEN Absent ELSE payout[k] ])
      BY <2>2 DEF EnsureFind
    <3>2. PICK t : /\ t = [ step |-> "calculate", drop |-> task[w].drop, id |-> k,
                            read |-> IF k = NoPayout THEN Absent ELSE payout[k] ]
                   /\ Hold(w, t)
      BY <3>1
    <3>3. t.id # NoPayout => t.id \in Exists
      BY <3>1, <3>2
    <3> QED
      BY <2>2, <3>2, <3>3, OneHold DEF EnsureFind, Exists
  <2>3. CASE EnsureCalculate(w)
    <3>1. PICK t : /\ Hold(w, t)
                   /\ t = Idle \/ t.id = task[w].id
      BY <2>3 DEF EnsureCalculate
    <3>2. Reads(t) /\ t.id # NoPayout => t.id \in Exists
      BY <2>3, <3>1 DEF EnsureCalculate, One, Reads, At, Idle
    <3> QED
      BY <2>3, <3>1, <3>2, OneHold DEF EnsureCalculate, Exists
  <2>4. CASE EnsureCreate(w)
    <3>1. CASE Exists = {}
      <4>1. PICK k \in PayoutIds :
              payout' = [payout EXCEPT ![k] =
                [status |-> task[w].status, amount |-> task[w].amount, paidAmount |-> 0]]
        BY <2>4, <3>1 DEF EnsureCreate
      <4>2. \A j \in Exists' : j = k
        BY <3>1, <4>1 DEF Exists, TInv, TypeOK
      <4>3. \A v \in Workers : task'[v] = IF v = w THEN Idle ELSE task[v]
        BY <2>4 DEF EnsureCreate, Hold, TInv, TypeOK
      <4>4. \A v \in Workers : Reads(task[v]) => task[v].id = NoPayout
        BY <3>1 DEF One
      <4> QED
        BY <4>2, <4>3, <4>4 DEF One, Reads, Idle
    <3>2. CASE Exists # {}
      <4>1. Hold(w, Idle) /\ Exists' = Exists
        BY <2>4, <3>2 DEF EnsureCreate, Exists
      <4> QED
        BY <4>1, OneHold DEF Reads, Idle
    <3> QED
      BY <3>1, <3>2
  <2>5. CASE EnsureSave(w)
    <3>1. PICK new : new = [task[w].read EXCEPT !.status = task[w].status, !.amount = task[w].amount]
      OBVIOUS
    <3>2. At(w, "store") /\ new \in Documents /\ new.status # "absent"
      BY <2>5, <3>1, TaskShape DEF EnsureSave, Documents, PayoutStatuses
    <3>3. payout' = [payout EXCEPT ![task[w].id] = Saved(@, task[w].read, new)]
      BY <2>5, <3>1 DEF EnsureSave
    <3> QED
      BY <2>5, <3>2, <3>3, OneSave DEF EnsureSave
  <2>6. CASE PayRead(w)
    <3>1. PICK k \in Exists : \E t : Hold(w, t) /\ t.id = k
      BY <2>6 DEF PayRead
    <3> QED
      BY <2>6, <3>1, OneHold DEF PayRead, Exists
  <2>7. CASE PaySave(w)
    <3>1. PICK new :
            new = [ task[w].read EXCEPT !.paidAmount = task[w].next,
                    !.status = IF task[w].next >= task[w].read.amount
                               THEN "paid" ELSE "partially_paid" ]
      OBVIOUS
    <3>2. /\ At(w, "pay") /\ new \in Documents /\ new.status # "absent"
          /\ task[w].id # NoPayout
      BY <2>7, <3>1, TaskShape, NoPayoutAssumption DEF PaySave, Documents, PayoutStatuses
    <3>3. payout' = [payout EXCEPT ![task[w].id] = Saved(@, task[w].read, new)]
      BY <2>7, <3>1 DEF PaySave
    <3> QED
      BY <2>7, <3>2, <3>3, OneSave DEF PaySave
  <2> QED
    BY <1>2, <2>1, <2>2, <2>3, <2>4, <2>5, <2>6, <2>7 DEF Ensuring, Paying
<1> QED
  BY <1>1, <1>2 DEF Next

-----------------------------------------------------------------------------
\* Which of the two invariants holds depends on the behaviour's environment.
PInv ==
  /\ IInv
  /\ One
  /\ ~env.returns => Steady
  /\ \A w \in Workers : env.workers = {w} => SInv(w)

LEMMA EnvStays == [Next]_vars => env' = env
BY DEF vars, Next, MoveDrop, Tick, OrderComesBack, Ensuring, Paying, EnsureRead, EnsureFind,
   EnsureCalculate, EnsureCreate, EnsureSave, PayRead, PaySave, Fail, elsewhere

LEMMA InitPInv == Init => PInv
<1>1. Init => Steady
  BY DEF Init, Steady, SteadyTask, Reads, Absent, Idle
<1>2. Init => One
  BY DEF Init, One, Exists, Reads, Absent, Idle
<1> QED
  BY <1>1, <1>2, InitIInv, InitSInv DEF PInv

LEMMA StepPInv == PInv /\ [Next]_vars => PInv'
<1> SUFFICES ASSUME PInv, [Next]_vars PROVE PInv'
  OBVIOUS
<1>1. IInv' /\ env' = env
  BY StepIInv, EnvStays DEF PInv
<1>2. (~env.returns => Steady') /\ One'
  BY SteadyStep, OneStep DEF PInv, IInv
<1>3. \A w \in Workers : env.workers = {w} => SInv(w)'
  BY AloneStep DEF PInv, IInv
<1> QED
  BY <1>1, <1>2, <1>3 DEF PInv

LEMMA AllInductive == Spec => []PInv
BY InitPInv, StepPInv, PTL DEF Spec

LEMMA OneAtWork ==
  ASSUME TypeOK, Cardinality(env.workers) = 1
  PROVE  \E w \in Workers : env.workers = {w}
<1>1. env.workers \subseteq Workers
  BY EnvsAssumption DEF TypeOK
<1>2. IsFiniteSet(env.workers)
  BY <1>1, WorkersAssumption, FS_Subset
<1> QED
  BY <1>1, <1>2, FS_Singleton

(* No payout records more than its amount: when nothing comes back every copy  *)
(* of a payout has the same amount, and when requests do not overlap the copy  *)
(* markPaid reads is the one it saves.                                         *)
THEOREM NobodyOverpaid == Spec => []NeverOverpaid
<1>1. PInv => NeverOverpaid
  <2> SUFFICES ASSUME PInv, ~env.returns \/ Cardinality(env.workers) = 1,
                      NEW k \in PayoutIds
               PROVE  payout[k].paidAmount <= payout[k].amount
    BY DEF NeverOverpaid
  <2>1. CASE ~env.returns
    BY <2>1 DEF PInv, Steady
  <2>2. CASE Cardinality(env.workers) = 1
    <3>1. PICK w \in Workers : env.workers = {w}
      BY <2>2, OneAtWork DEF PInv, IInv, TInv
    <3> QED
      BY <3>1 DEF PInv, SInv, Alone, Orderly
  <2> QED
    BY <2>1, <2>2
<1> QED
  BY <1>1, AllInductive, PTL

(* A drop has one payout, however many requests ensure it at the same time     *)
(* (the unique index of the payout schema), and as long as nothing comes back  *)
(* its amount is the designer's share of what the orders are worth, off by     *)
(* half a hundredth at most, for any number of orders, any prices and any      *)
(* percentage, fractions of a hundredth included, and whichever way a half is  *)
(* rounded (calculatePayout).                                                  *)
THEOREM OnePayoutEach == Spec => []OnePayoutOfShare
<1>1. PInv => OnePayoutOfShare
  <2> SUFFICES ASSUME PInv PROVE OnePayoutOfShare
    OBVIOUS
  <2>1. Cardinality(Exists) <= 1
    <3>1. CASE Exists = {}
      BY <3>1, FS_EmptySet
    <3>2. CASE Exists # {}
      <4>1. PICK k \in Exists : TRUE
        BY <3>2
      <4>2. Exists = {k}
        BY <4>1 DEF PInv, One
      <4> QED
        BY <4>2, FS_Singleton
    <3> QED
      BY <3>1, <3>2
  <2>2. ASSUME ~env.returns, NEW k \in Exists
        PROVE  IsShare(payout[k].amount, order, Percent)
    <3>1. payout[k].amount = PayoutAmount(order, Percent)
      BY <2>2 DEF PInv, Steady, Exists, Share
    <3>2. order \in Books
      BY DEF PInv, IInv, TInv
    <3> QED
      BY <3>1, <3>2, AmountIsMoney
  <2> QED
    BY <2>1, <2>2 DEF OnePayoutOfShare
<1> QED
  BY <1>1, AllInductive, PTL

(* One request at a time and no call failing, every amount that was sent is on *)
(* record, up to what the designer is due (markPaid).                          *)
THEOREM AllRecorded == Spec => []NothingForgotten
<1>1. PInv => NothingForgotten
  <2> SUFFICES ASSUME PInv, Calm, Quiet, NEW k \in Exists
               PROVE  payout[k].paidAmount = Smaller(payout[k].amount, sent)
    BY DEF NothingForgotten
  <2>1. PICK w \in Workers : env.workers = {w}
    BY OneAtWork DEF Calm, PInv, IInv, TInv
  <2>2. ~At(w, "pay") /\ Tallied(w)
    BY <2>1 DEF Calm, Quiet, At, Idle, PInv, SInv
  <2> QED
    BY <2>2 DEF Tallied
<1> QED
  BY <1>1, AllInductive, PTL

(* One request at a time, also with failures, a payout that was paid something *)
(* of is calculated no more, and one that is paid stays paid: the early return *)
(* of ensurePayoutForDrop.                                                     *)
THEOREM PaidStays == Spec => PaidIsFinal
<1> DEFINE Final ==
      Cardinality(env.workers) = 1 =>
        \A k \in PayoutIds :
          /\ payout[k].paidAmount > 0 =>
               /\ payout'[k].amount = payout[k].amount
               /\ payout'[k].paidAmount >= payout[k].paidAmount
          /\ payout[k].status = "paid" => payout'[k].status = "paid"
<1>1. PInv /\ [Next]_vars => [Final]_vars
  <2> SUFFICES ASSUME PInv, [Next]_vars, Cardinality(env.workers) = 1
               PROVE  Lasts
    BY DEF Lasts
  <2>1. PICK w \in Workers : env.workers = {w}
    BY OneAtWork DEF PInv, IInv, TInv
  <2> QED
    BY <2>1, AloneStep DEF PInv, IInv
<1> QED
  BY <1>1, AllInductive, PTL DEF Spec, PaidIsFinal
=============================================================================
