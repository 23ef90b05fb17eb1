------------------------------- MODULE Payouts -------------------------------
(***************************************************************************)
(* PayoutsService: the designer's payout of one drop, calculated from its  *)
(* orders (again and again until something is paid) and marked as paid, in *)
(* part or in full, by administrators.  A request advances by one action   *)
(* per await; the money itself is sent outside the system.                 *)
(***************************************************************************)
EXTENDS PayoutRules

CONSTANTS
  Orders, OrderDocs,  \* the orders of the drop, the documents they can be
  Percent,            \* the designer's share
  PayoutIds,          \* identifiers for payout documents
  Workers,            \* requests in progress at once
  Amounts,            \* amounts an administrator records
  MaxSent, MaxClock,  \* bounds on the money sent and on time
  Window,             \* length of the return window
  Envs,               \* [workers, returns, faults]: who works, whether orders
                      \* come back, whether calls fail
  NotCompleted, NoPayout  \* no completedAt; no payout document found

ASSUME PercentAssumption == Percent \in 0 .. Hundred
ASSUME AmountsAssumption == Amounts \subseteq Nat \ {0}
ASSUME NoPayoutAssumption == NoPayout \notin PayoutIds
ASSUME WorkersAssumption == IsFiniteSet(Workers)
ASSUME EnvsAssumption ==
  Envs \subseteq [workers : SUBSET Workers, returns : BOOLEAN, faults : BOOLEAN]

ASSUME OrdersAssumption == IsFiniteSet(Orders)
\* What the order schema requires of a quantity and a price.
ASSUME OrderDocsAssumption ==
  OrderDocs \subseteq [status : STRING, quantity : Nat \ {0}, price : Nat]

Returned(doc) == [doc EXCEPT !.status = "returned"]

VARIABLES
  env,     \* the one of Envs this behaviour is in
  drop,    \* [status, completedAt]
  order,   \* the order documents
  payout,  \* the payout documents
  sent,    \* external: the money administrators asked to be recorded
  clock,
  task     \* what each request holds between two calls

vars == << env, drop, order, payout, sent, clock, task >>

PayoutStatuses ==
  {"pending", "scheduled", "ready_to_pay", "partially_paid", "paid",
   "cancelled", "disputed"}
PayoutDropStatuses == {"completed", "delivered", "forever_closed"}
\* What the drop moves through once it is shipped (DROP_TRANSITIONS).
DropMoves ==
  [ shipped |-> {"delivered"}, delivered |-> {"completed", "second_chance_window"},
    completed |-> {}, second_chance_window |-> {"forever_closed"},
    forever_closed |-> {} ]

Absent == [status |-> "absent", amount |-> 0, paidAmount |-> 0]
Exists == { k \in PayoutIds : payout[k].status # "absent" }
Smaller(m, n) == IF m < n THEN m ELSE n

\* getReturnWindowEndsAt, from the copy of the drop: completedAt, else endsAt,
\* which is time 0 here.
WindowOpen(copy) ==
  (IF copy.completedAt = NotCompleted THEN 0 ELSE copy.completedAt) + Window > clock

\* A save writes the fields that differ from what was read and no other.
Saved(stored, read, new) ==
  [ f \in DOMAIN stored |-> IF new[f] # read[f] THEN new[f] ELSE stored[f] ]

Idle == [step |-> "idle"]
Free(w) == w \in env.workers /\ task[w] = Idle
At(w, step) == task[w].step = step
Hold(w, t) == task' = [task EXCEPT ![w] = t]
elsewhere == << env, drop, order, clock >>

Init ==
  /\ env \in Envs
  /\ drop = [status |-> "shipped", completedAt |-> NotCompleted]
  /\ order \in [Orders -> OrderDocs]
  /\ payout = [k \in PayoutIds |-> Absent]
  /\ sent = 0
  /\ clock = 0
  /\ task = [w \in Workers |-> Idle]

-----------------------------------------------------------------------------
(* What goes on around payouts *)

\* transitionDrop; completing the drop starts the return window again, which a
\* delivered drop counts from its end.
MoveDrop ==
  /\ \E s \in DropMoves[drop.status] :
       drop' = [ status |-> s,
                 completedAt |-> IF s = "completed" THEN clock ELSE drop.completedAt ]
  /\ UNCHANGED << env, order, payout, sent, clock, task >>

Tick ==
  /\ clock < MaxClock
  /\ clock' = clock + 1
  /\ UNCHANGED << env, drop, order, payout, sent, task >>

\* External: an operator records the return of an order; no code does.
OrderComesBack ==
  /\ env.returns
  /\ \E o \in Orders :
       /\ order[o].status = "paid"
       /\ order' = [order EXCEPT ![o] = Returned(@)]
  /\ UNCHANGED << env, drop, payout, sent, clock, task >>

-----------------------------------------------------------------------------
(* ensurePayoutForDrop *)

\* findPayoutDrop: the drop is read; before it is delivered it is refused.
EnsureRead(w) ==
  /\ Free(w)
  /\ drop.status \in PayoutDropStatuses
  /\ Hold(w, [step |-> "find", drop |-> drop])
  /\ UNCHANGED << payout, sent, elsewhere >>

EnsureFind(w) ==
  /\ At(w, "find")
  /\ \E k \in IF Exists = {} THEN {NoPayout} ELSE Exists :
       Hold(w, [ step |-> "calculate", drop |-> task[w].drop, id |-> k,
                 read |-> IF k = NoPayout THEN Absent ELSE payout[k] ])
  /\ UNCHANGED << payout, sent, elsewhere >>

\* Mutant: a payout is calculated again until it is paid in full.
SettledOnlyWhenPaid(status) == status = "paid"

\* A payout something was paid of is returned as it is.
Settled(status) == status \in {"paid", "partially_paid"}

\* The orders are read and the payout is calculated.
EnsureCalculate(w) ==
  /\ At(w, "calculate")
  /\ Hold(w, IF Settled(task[w].read.status)
             THEN Idle
             ELSE [ step |-> "store", id |-> task[w].id, read |-> task[w].read,
                    amount |-> PayoutAmount(order, Percent),
                    status |-> PayoutStatusWhen(WindowOpen(task[w].drop)) ])
  /\ UNCHANGED << payout, sent, elsewhere >>

\* Mutant: no unique index on dropId.
CreateAnother(w) ==
  /\ At(w, "store") /\ task[w].id = NoPayout
  /\ \E k \in PayoutIds \ Exists :
       payout' = [payout EXCEPT ![k] =
         [status |-> task[w].status, amount |-> task[w].amount, paidAmount |-> 0]]
  /\ Hold(w, Idle)
  /\ UNCHANGED << sent, elsewhere >>

\* A new payout is created; the unique index on dropId refuses a second one.
EnsureCreate(w) ==
  /\ At(w, "store") /\ task[w].id = NoPayout
  /\ IF Exists = {}
     THEN \E k \in PayoutIds :
            payout' = [payout EXCEPT ![k] =
              [status |-> task[w].status, amount |-> task[w].amount, paidAmount |-> 0]]
     ELSE UNCHANGED payout
  /\ Hold(w, Idle)
  /\ UNCHANGED << sent, elsewhere >>

\* An existing one is saved with the new amount and status.
EnsureSave(w) ==
  /\ At(w, "store") /\ task[w].id # NoPayout
  /\ LET t == task[w]
         new == [t.read EXCEPT !.status = t.status, !.amount = t.amount]
     IN payout' = [payout EXCEPT ![t.id] = Saved(@, t.read, new)]
  /\ Hold(w, Idle)
  /\ UNCHANGED << sent, elsewhere >>

-----------------------------------------------------------------------------
(* markPaid *)

\* Mutant: the amount is recorded without its limit.
PaidUnlimited(read, applied) == read.paidAmount + applied

\* Mutant: what was paid before is forgotten.
PaidAfresh(read, applied) == Smaller(read.amount, applied)

\* Mutant: more is recorded than the administrator asked for.
PaidRounded(read, applied) == Smaller(read.amount, read.paidAmount + applied + 1)

PaidNext(read, applied) == Smaller(read.amount, read.paidAmount + applied)

\* The payout is read; the amount is the one given or all that is left.
PayRead(w) ==
  /\ Free(w)
  /\ \E k \in Exists :
       LET p == payout[k]
       IN \E applied \in Amounts \cup {NotBelowZero(p.amount - p.paidAmount)} :
            /\ p.status \notin {"paid", "cancelled"}
            /\ sent + applied <= MaxSent
            /\ sent' = sent + applied
            /\ Hold(w, [ step |-> "pay", id |-> k, read |-> p,
                         next |-> PaidNext(p, applied) ])
  /\ UNCHANGED << payout, elsewhere >>

PaySave(w) ==
  /\ At(w, "pay")
  /\ LET t == task[w]
         new == [ t.read EXCEPT !.paidAmount = t.next,
                  !.status = IF t.next >= t.read.amount THEN "paid" ELSE "partially_paid" ]
     IN payout' = [payout EXCEPT ![t.id] = Saved(@, t.read, new)]
  /\ Hold(w, Idle)
  /\ UNCHANGED << sent, elsewhere >>

\* A database call fails or the process restarts: the request ends.
Fail(w) ==
  /\ env.faults
  /\ task[w] # Idle
  /\ Hold(w, Idle)
  /\ UNCHANGED << payout, sent, elsewhere >>

-----------------------------------------------------------------------------
Ensuring(w) ==
  EnsureRead(w) \/ EnsureFind(w) \/ EnsureCalculate(w) \/ EnsureCreate(w) \/ EnsureSave(w)
Paying(w) == PayRead(w) \/ PaySave(w)

Next ==
  \/ MoveDrop \/ Tick \/ OrderComesBack
  \/ \E w \in Workers : Ensuring(w) \/ Paying(w) \/ Fail(w)

Spec == Init /\ [][Next]_vars

-----------------------------------------------------------------------------
(* Properties *)

Documents == [status : PayoutStatuses \cup {"absent"}, amount : Nat, paidAmount : Nat]
Tasks ==
  {Idle}
  \cup [step : {"find"}, drop : [status : DOMAIN DropMoves,
                                 completedAt : Nat \cup {NotCompleted}]]
  \cup [step : {"calculate"}, id : PayoutIds \cup {NoPayout}, read : Documents,
        drop : [status : DOMAIN DropMoves, completedAt : Nat \cup {NotCompleted}]]
  \cup [step : {"store"}, id : PayoutIds \cup {NoPayout}, read : Documents,
        amount : Nat, status : {"pending", "ready_to_pay"}]
  \cup [step : {"pay"}, id : PayoutIds, read : Documents, next : Nat]

\* Types of the documents and of every suspended request.
TypeOK ==
  /\ env \in Envs
  /\ drop \in [status : DOMAIN DropMoves, completedAt : Nat \cup {NotCompleted}]
  /\ payout \in [PayoutIds -> Documents]
  /\ sent \in Nat /\ clock \in Nat
  /\ task \in [Workers -> Tasks]

\* One request at a time, and no call fails.
Calm == Cardinality(env.workers) = 1 /\ ~env.faults
Quiet == \A w \in Workers : task[w] = Idle

\* What is recorded as paid was sent: with requests overlapping and saves that
\* fail or overwrite each other, money can be forgotten but never invented.
PaidIsBacked == \A k \in PayoutIds : payout[k].paidAmount <= sent

\* No payout records more than its amount, when either nothing comes back or
\* requests do not overlap.
NeverOverpaid ==
  ~env.returns \/ Cardinality(env.workers) = 1 =>
    \A k \in PayoutIds : payout[k].paidAmount <= payout[k].amount

\* A drop has one payout, however many requests ensure it at the same time, and
\* calculatePayout agrees with its reference definition: as long as nothing comes
\* back the stored amount is the designer's share of what was sold less what had
\* come back, off by half a hundredth at most.
OnePayoutOfShare ==
  /\ Cardinality(Exists) <= 1
  /\ ~env.returns => \A k \in Exists : IsShare(payout[k].amount, order, Percent)

\* One request at a time, everything that was sent is recorded, up to the amount.
NothingForgotten ==
  Calm /\ Quiet => \A k \in Exists :
    payout[k].paidAmount = Smaller(payout[k].amount, sent)

\* One request at a time, a payout that was paid something of keeps its amount,
\* and one that is paid stays paid.
PaidIsFinal ==
  [][ Cardinality(env.workers) = 1 =>
        \A k \in PayoutIds :
          /\ payout[k].paidAmount > 0 =>
               /\ payout'[k].amount = payout[k].amount
               /\ payout'[k].paidAmount >= payout[k].paidAmount
          /\ payout[k].status = "paid" => payout'[k].status = "paid" ]_vars
=============================================================================
