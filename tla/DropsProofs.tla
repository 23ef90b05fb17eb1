---------------------------- MODULE DropsProofs ----------------------------
(* Theorems about module Drops, for every set of workers, sizes, terms and *)
(* quantities.                                                             *)
EXTENDS Drops, SumTheorems

(***************************************************************************)
(* The inductive invariant.  The limit a confirmation carries was computed *)
(* from a maximum that is still the stored one unless a launched drop's    *)
(* limits were changed; and no confirmation is under way, and no unit      *)
(* counted, before the first launch.                                       *)
(***************************************************************************)
LimitsCurrent ==
  \A w \in Workers :
    task[w].step = "count" /\ terms # "changed" =>
      task[w].limit = drop.maxQuantity - task[w].quantity

NothingBeforeLaunch ==
  terms = "open" =>
    /\ drop.status \in UnlaunchedStatuses
    /\ drop.currentQuantity = 0
    /\ \A w \in Workers : task[w].step \notin {"count", "rule"}

IInv == StateOK /\ LimitsCurrent /\ NothingBeforeLaunch /\ NoOversell

-----------------------------------------------------------------------------
(* Every status the lifecycle table leads to is a status. *)
LEMMA TransitionsAreStatuses ==
  ASSUME NEW d \in Drop
  PROVE  MoveTargets(d) \subseteq DropStatuses
BY DEF Drop, MoveTargets, DropTransitions, DropStatuses

(* Counting a hold yields a drop that differs from the old one in the count *)
(* and the breakdown only.                                                  *)
LEMMA CountedDrop ==
  ASSUME NEW d \in Drop, NEW size \in Sizes, NEW quantity \in Nat
  PROVE  /\ Counted(d, size, quantity) \in Drop
         /\ Counted(d, size, quantity).currentQuantity = d.currentQuantity + quantity
         /\ Counted(d, size, quantity).maxQuantity = d.maxQuantity
         /\ Counted(d, size, quantity).status = d.status
<1> DEFINE b == [d.sizeBreakdown EXCEPT ![size] = @ + quantity]
<1>1. b \in [Sizes -> Nat]
  BY DEF Drop
<1>2. d.currentQuantity + quantity \in Nat
  BY DEF Drop
<1>3. Counted(d, size, quantity) =
        [d EXCEPT !.currentQuantity = d.currentQuantity + quantity, !.sizeBreakdown = b]
  BY DEF Counted, Drop
<1> HIDE DEF b
<1> QED
  BY <1>1, <1>2, <1>3 DEF Drop

(* A status to save is one of the two the rules may set. *)
LEMMA RuleStatus ==
  ASSUME NEW d, NEW previous, CallsForSave(d, previous)
  PROVE  StatusAfterCount(d, previous) \in {"guaranteed", "sold_out"}
BY DEF CallsForSave, StatusAfterCount

LEMMA InitIInv == Init => IInv
<1> SUFFICES ASSUME Init PROVE IInv
  OBVIOUS
<1> PICK min \in Terms, max \in Terms, sizes \in SUBSET Sizes :
      drop = [ status |-> "draft", minQuantity |-> min, maxQuantity |-> max,
               sizeOptions |-> sizes, currentQuantity |-> 0,
               sizeBreakdown |-> [s \in Sizes |-> 0] ]
  BY DEF Init
<1>1. drop \in Drop
  BY TermsAssumption DEF Drop, DropStatuses
<1>2. task = [w \in Workers |-> Idle] /\ terms = "open"
  BY DEF Init
<1>3. StateOK
  BY <1>1, <1>2 DEF StateOK, Tasks
<1>4. \A w \in Workers : task[w].step = "idle"
  BY <1>2 DEF Idle
<1>5. max \in Nat
  BY TermsAssumption
<1> QED
  BY <1>2, <1>3, <1>4, <1>5
  DEF IInv, LimitsCurrent, NothingBeforeLaunch, NoOversell, UnlaunchedStatuses

-----------------------------------------------------------------------------
(* The steps.  A worker's record has the shape its step names. *)
LEMMA TaskShapes ==
  ASSUME StateOK, NEW w \in Workers
  PROVE  /\ At(w, "count") => task[w] \in CountTask
         /\ At(w, "rule")  => task[w] \in RuleTask
         /\ At(w, "move")  => task[w] \in MoveTask
         /\ At(w, "edit")  => task[w] \in EditTask
BY DEF StateOK, Tasks, At, Idle, CountTask, RuleTask, MoveTask, EditTask

(* Only the worker's own record changes when it takes or answers a request. *)
LEMMA HoldOwnRecord ==
  ASSUME StateOK, NEW w \in Workers, NEW t \in Tasks, Hold(w, t)
  PROVE  /\ task' \in [Workers -> Tasks]
         /\ task'[w] = t
         /\ \A v \in Workers : v # w => task'[v] = task[v]
BY DEF StateOK, Hold

LEMMA ConfirmReadStep ==
  ASSUME IInv, NEW w \in Workers, ConfirmRead(w)
  PROVE  IInv'
<1> USE DEF IInv
<1> PICK size \in Sizes, quantity \in Quantities :
      /\ Reservable(drop, size, quantity)
      /\ Hold(w, [ step |-> "count", size |-> size, quantity |-> quantity,
                   limit |-> drop.maxQuantity - quantity,
                   previous |-> drop.status ])
  BY DEF ConfirmRead
<1> DEFINE t == [ step |-> "count", size |-> size, quantity |-> quantity,
                  limit |-> drop.maxQuantity - quantity, previous |-> drop.status ]
<1>1. t \in Tasks
  BY QuantitiesAssumption DEF Tasks, CountTask, StateOK, Drop, Reservable
<1>2. drop' = drop /\ terms' = terms
  BY DEF ConfirmRead
<1>3. /\ task' \in [Workers -> Tasks]
      /\ task'[w] = t
      /\ \A v \in Workers : v # w => task'[v] = task[v]
  BY <1>1, HoldOwnRecord
<1>4. terms # "open"
  BY DEF Reservable, NothingBeforeLaunch, OpenStatuses, UnlaunchedStatuses
<1>5. StateOK'
  BY <1>2, <1>3 DEF StateOK
<1>6. LimitsCurrent'
  BY <1>2, <1>3 DEF LimitsCurrent
<1>7. NothingBeforeLaunch' /\ NoOversell'
  BY <1>2, <1>4 DEF NothingBeforeLaunch, NoOversell
<1> QED
  BY <1>5, <1>6, <1>7

LEMMA ConfirmCountStep ==
  ASSUME IInv, NEW w \in Workers, ConfirmCount(w)
  PROVE  IInv'
<1> USE DEF IInv
<1> DEFINE t == task[w]
           counted == Counted(drop, t.size, t.quantity)
<1>1. t \in CountTask /\ t.step = "count"
  BY TaskShapes DEF ConfirmCount, At
<1>2. terms' = terms /\ terms # "open"
  BY <1>1 DEF ConfirmCount, NothingBeforeLaunch
<1>3. CASE ~CountFilter(drop, t.size, t.limit)
  <2>1. drop' = drop /\ Hold(w, Idle)
    BY <1>3 DEF ConfirmCount, Answer
  <2>2. /\ task' \in [Workers -> Tasks]
        /\ task'[w] = Idle
        /\ \A v \in Workers : v # w => task'[v] = task[v]
    BY <2>1, HoldOwnRecord DEF Tasks
  <2>3. StateOK' /\ LimitsCurrent'
    BY <1>2, <2>1, <2>2 DEF StateOK, LimitsCurrent, Idle
  <2> QED
    BY <1>2, <2>1, <2>3 DEF NothingBeforeLaunch, NoOversell
<1>4. CASE CountFilter(drop, t.size, t.limit)
  <2>1. drop' = counted
    BY <1>4 DEF ConfirmCount
  <2>2. t.size \in Sizes /\ t.quantity \in Nat
    BY <1>1, QuantitiesAssumption DEF CountTask
  <2>3. /\ drop' \in Drop
        /\ drop'.currentQuantity = drop.currentQuantity + t.quantity
        /\ drop'.maxQuantity = drop.maxQuantity
    BY <2>1, <2>2, CountedDrop DEF StateOK
  <2>4. PICK u \in Tasks : u.step # "count" /\ Hold(w, u)
    <3>1. CASE CallsForSave(counted, t.previous)
      <4> DEFINE u == [ step |-> "rule", next |-> StatusAfterCount(counted, t.previous) ]
      <4>1. u \in Tasks
        BY <3>1, RuleStatus DEF Tasks, RuleTask
      <4>2. Hold(w, u)
        BY <1>4, <3>1 DEF ConfirmCount
      <4> QED
        BY <4>1, <4>2
    <3>2. CASE ~CallsForSave(counted, t.previous)
      BY <1>4, <3>2 DEF ConfirmCount, Answer, Idle, Tasks
    <3> QED
      BY <3>1, <3>2
  <2>5. /\ task' \in [Workers -> Tasks]
        /\ task'[w] = u
        /\ \A v \in Workers : v # w => task'[v] = task[v]
    BY <2>4, HoldOwnRecord
  <2>6. StateOK'
    BY <1>2, <2>3, <2>5 DEF StateOK
  <2>7. LimitsCurrent'
    BY <1>2, <2>3, <2>4, <2>5 DEF LimitsCurrent
  <2>8. NothingBeforeLaunch'
    BY <1>2 DEF NothingBeforeLaunch
  <2>9. NoOversell'
    <3>1. SUFFICES ASSUME terms # "changed"
                   PROVE  drop'.currentQuantity <= drop'.maxQuantity
      BY <1>2 DEF NoOversell
    <3>2. t.limit = drop.maxQuantity - t.quantity
      BY <1>1, <3>1 DEF LimitsCurrent
    <3>3. drop.currentQuantity <= t.limit
      BY <1>4 DEF CountFilter
    <3>4. drop.currentQuantity \in Nat /\ drop.maxQuantity \in Nat
      BY DEF StateOK, Drop
    <3> QED
      BY <2>2, <2>3, <3>2, <3>3, <3>4
  <2> QED
    BY <2>6, <2>7, <2>8, <2>9
<1> QED
  BY <1>3, <1>4

(* A step that ends worker w's request and leaves the limits, the count and *)
(* the history alone keeps the invariant, if a drop not launched stays so.  *)
LEMMA AnswerKeeps ==
  ASSUME IInv, NEW w \in Workers, Answer(w), terms' = terms, drop' \in Drop,
         drop'.currentQuantity = drop.currentQuantity,
         drop'.maxQuantity = drop.maxQuantity,
         terms = "open" => drop'.status \in UnlaunchedStatuses
  PROVE  IInv'
<1> USE DEF IInv
<1>1. /\ task' \in [Workers -> Tasks]
      /\ task'[w] = Idle
      /\ \A v \in Workers : v # w => task'[v] = task[v]
  BY HoldOwnRecord DEF Tasks, Answer
<1>2. StateOK' /\ LimitsCurrent'
  BY <1>1 DEF StateOK, LimitsCurrent, Idle
<1>3. NothingBeforeLaunch' /\ NoOversell'
  BY <1>1 DEF NothingBeforeLaunch, NoOversell, Idle
<1> QED
  BY <1>2, <1>3

LEMMA ConfirmRuleStep ==
  ASSUME IInv, NEW w \in Workers, ConfirmRule(w)
  PROVE  IInv'
<1>1. task[w] \in RuleTask /\ task[w].step = "rule"
  BY TaskShapes DEF ConfirmRule, At, IInv
<1>2. terms # "open"
  BY <1>1 DEF IInv, NothingBeforeLaunch
<1>3. /\ drop' \in Drop
      /\ drop'.currentQuantity = drop.currentQuantity
      /\ drop'.maxQuantity = drop.maxQuantity
  BY <1>1 DEF ConfirmRule, RuleTask, IInv, StateOK, Drop, DropStatuses
<1> QED
  BY <1>2, <1>3, AnswerKeeps DEF ConfirmRule

(* Taking a request of another kind than a confirmation keeps the invariant. *)
LEMMA TakeKeeps ==
  ASSUME IInv, NEW w \in Workers, NEW t \in MoveTask \cup EditTask, Hold(w, t),
         drop' = drop, terms' = terms
  PROVE  IInv'
<1> USE DEF IInv
<1>1. t \in Tasks /\ t.step \notin {"count", "rule"}
  BY DEF Tasks, MoveTask, EditTask
<1>2. /\ task' \in [Workers -> Tasks]
      /\ task'[w] = t
      /\ \A v \in Workers : v # w => task'[v] = task[v]
  BY <1>1, HoldOwnRecord
<1>3. StateOK' /\ LimitsCurrent'
  BY <1>1, <1>2 DEF StateOK, LimitsCurrent
<1>4. NothingBeforeLaunch' /\ NoOversell'
  BY <1>1, <1>2 DEF NothingBeforeLaunch, NoOversell
<1> QED
  BY <1>3, <1>4

LEMMA MoveReadStep ==
  ASSUME IInv, NEW w \in Workers, MoveRead(w) \/ LaunchRead(w)
  PROVE  IInv'
<1>1. MoveTargets(drop) \subseteq DropStatuses
  BY TransitionsAreStatuses DEF IInv, StateOK
<1>2. PICK t \in MoveTask : Hold(w, t)
  BY <1>1 DEF MoveRead, LaunchRead, MoveTask
<1>3. drop' = drop /\ terms' = terms
  BY DEF MoveRead, LaunchRead
<1> QED
  BY <1>2, <1>3, TakeKeeps

LEMMA MoveSaveStep ==
  ASSUME IInv, NEW w \in Workers, MoveSave(w)
  PROVE  IInv'
<1>1. task[w] \in MoveTask
  BY TaskShapes DEF MoveSave, IInv
<1>2. /\ drop' \in Drop
      /\ drop'.status = task[w].target
      /\ drop'.currentQuantity = drop.currentQuantity
      /\ drop'.maxQuantity = drop.maxQuantity
  BY <1>1 DEF MoveSave, MoveTask, IInv, StateOK, Drop
<1>3. CASE terms' = terms
  <2>1. terms = "open" => drop'.status \in UnlaunchedStatuses
    BY <1>2, <1>3 DEF MoveSave
  <2> QED
    BY <1>2, <1>3, <2>1, AnswerKeeps DEF MoveSave
<1>4. CASE terms' # terms
  <2>1. terms = "open" /\ terms' = "locked"
    BY <1>4 DEF MoveSave
  <2>2. \A v \in Workers : task[v].step # "count"
    BY <2>1 DEF IInv, NothingBeforeLaunch
  <2>3. /\ task' \in [Workers -> Tasks]
        /\ task'[w] = Idle
        /\ \A v \in Workers : v # w => task'[v] = task[v]
    BY HoldOwnRecord DEF Tasks, Answer, MoveSave, IInv
  <2>4. StateOK' /\ LimitsCurrent'
    BY <1>2, <2>1, <2>2, <2>3 DEF IInv, StateOK, LimitsCurrent, Idle
  <2>5. NothingBeforeLaunch' /\ NoOversell'
    BY <1>2, <2>1 DEF IInv, NothingBeforeLaunch, NoOversell
  <2> QED
    BY <2>4, <2>5 DEF IInv
<1> QED
  BY <1>3, <1>4

LEMMA EditReadStep ==
  ASSUME IInv, NEW w \in Workers, EditRead(w)
  PROVE  IInv'
<1>1. PICK t \in EditTask : Hold(w, t)
  BY TermsAssumption DEF EditRead, EditTask
<1>2. drop' = drop /\ terms' = terms
  BY DEF EditRead
<1> QED
  BY <1>1, <1>2, TakeKeeps

(* An edit either leaves the limits of a launched drop alone or marks them  *)
(* changed; before the launch no confirmation depends on them.              *)
LEMMA EditSaveStep ==
  ASSUME IInv, NEW w \in Workers, EditSave(w)
  PROVE  IInv'
<1> USE DEF IInv
<1>1. task[w] \in EditTask
  BY TaskShapes DEF EditSave
<1>2. /\ drop' \in Drop
      /\ drop'.status = drop.status
      /\ drop'.currentQuantity = drop.currentQuantity
  <2> DEFINE t == task[w]
             Write(field, new) == IF field \in t.changed THEN new ELSE drop[field]
  <2>1. /\ Write("minQuantity", t.min) \in Nat
        /\ Write("maxQuantity", t.max) \in Nat
        /\ Write("sizeOptions", t.sizes) \in SUBSET Sizes
    BY <1>1 DEF EditTask, StateOK, Drop
  <2>2. drop' = [drop EXCEPT !.minQuantity = Write("minQuantity", t.min),
                             !.maxQuantity = Write("maxQuantity", t.max),
                             !.sizeOptions = Write("sizeOptions", t.sizes)]
    BY DEF EditSave
  <2> HIDE DEF Write
  <2> QED
    BY <2>1, <2>2 DEF StateOK, Drop
<1>3. /\ task' \in [Workers -> Tasks]
      /\ task'[w] = Idle
      /\ \A v \in Workers : v # w => task'[v] = task[v]
  BY HoldOwnRecord DEF Tasks, Answer, EditSave
<1>4. CASE drop'.maxQuantity = drop.maxQuantity /\ terms' = terms
  BY <1>2, <1>4, AnswerKeeps DEF EditSave, NothingBeforeLaunch
<1>5. CASE drop'.maxQuantity # drop.maxQuantity /\ terms' = terms
  <2>1. terms \in {"open", "changed"}
    BY <1>5 DEF EditSave, StateOK
  <2>2. CASE terms = "open"
    <3>1. \A v \in Workers : task'[v].step \notin {"count", "rule"}
      BY <1>3, <2>2 DEF NothingBeforeLaunch, Idle
    <3>2. drop'.currentQuantity = 0 /\ drop'.maxQuantity \in Nat
      BY <1>2, <2>2 DEF NothingBeforeLaunch, Drop
    <3> QED
      BY <1>2, <1>3, <1>5, <2>2, <3>1, <3>2
      DEF StateOK, LimitsCurrent, NothingBeforeLaunch, NoOversell
  <2>3. CASE terms = "changed"
    BY <1>2, <1>3, <1>5, <2>3
    DEF StateOK, LimitsCurrent, NothingBeforeLaunch, NoOversell
  <2> QED
    BY <2>1, <2>2, <2>3
<1>6. CASE terms' # terms
  <2>1. terms' = "changed"
    BY <1>6 DEF EditSave
  <2> QED
    BY <1>2, <1>3, <2>1 DEF StateOK, LimitsCurrent, NothingBeforeLaunch, NoOversell
<1> QED
  BY <1>4, <1>5, <1>6

LEMMA FailStep ==
  ASSUME IInv, NEW w \in Workers, Fail(w)
  PROVE  IInv'
BY AnswerKeeps DEF Fail, IInv, StateOK, NothingBeforeLaunch

LEMMA NextIInv == IInv /\ [Next]_vars => IInv'
<1> SUFFICES ASSUME IInv, [Next]_vars PROVE IInv'
  OBVIOUS
<1>1. CASE UNCHANGED vars
  BY <1>1 DEF vars, IInv, StateOK, LimitsCurrent, NothingBeforeLaunch, NoOversell
<1>2. CASE Next
  <2>1. PICK w \in Workers : Start(w) \/ Continue(w) \/ Fail(w)
    BY <1>2 DEF Next
  <2>2. CASE Start(w)
    BY <2>2, ConfirmReadStep, MoveReadStep, EditReadStep DEF Start
  <2>3. CASE Continue(w)
    BY <2>3, ConfirmCountStep, ConfirmRuleStep, MoveSaveStep, EditSaveStep DEF Continue
  <2>4. CASE Fail(w)
    BY <2>4, FailStep
  <2> QED
    BY <2>1, <2>2, <2>3, <2>4
<1> QED
  BY <1>1, <1>2

-----------------------------------------------------------------------------
LEMMA Inductive == Spec => []IInv
BY InitIInv, NextIInv, PTL DEF Spec

(* A behaviour stays in its situation, and only workers of it hold anything. *)
OnlyWorkers ==
  /\ env \in Envs
  /\ \A w \in Workers : w \notin env.workers => Free(w)

LEMMA EnvIsRigid ==
  ASSUME [Next]_vars
  PROVE  env' = env /\ Alone' = Alone
BY DEF Next, vars, Start, Continue, Fail, ConfirmRead, MoveRead, LaunchRead, EditRead,
       ConfirmCount, ConfirmRule, MoveSave, EditSave, Alone

LEMMA StepsAreOfWorkers ==
  ASSUME OnlyWorkers, NEW w \in Workers, Start(w) \/ Continue(w) \/ Fail(w)
  PROVE  w \in env.workers
<1>1. CASE Start(w)
  BY <1>1 DEF Start, ConfirmRead, MoveRead, LaunchRead, EditRead, Ready
<1>2. CASE Continue(w)
  <2>1. task[w].step \in {"count", "rule", "move", "edit"}
    BY <1>2 DEF Continue, ConfirmCount, ConfirmRule, MoveSave, EditSave, At
  <2>2. task[w] # Idle
    BY <2>1 DEF Idle
  <2> QED
    BY <2>2 DEF OnlyWorkers, Free
<1>3. CASE Fail(w)
  BY <1>3 DEF Fail, OnlyWorkers
<1> QED
  BY <1>1, <1>2, <1>3

LEMMA WorkersInductive == Spec => []OnlyWorkers
<1>1. Init => OnlyWorkers
  BY DEF Init, OnlyWorkers, Free
<1>2. IInv /\ OnlyWorkers /\ [Next]_vars => OnlyWorkers'
  <2> SUFFICES ASSUME IInv, OnlyWorkers, [Next]_vars PROVE OnlyWorkers'
    OBVIOUS
  <2>1. CASE UNCHANGED vars
    BY <2>1 DEF vars, OnlyWorkers, Free
  <2>2. ASSUME NEW w \in Workers, Start(w) \/ Continue(w) \/ Fail(w) PROVE OnlyWorkers'
    <3>1. env' = env
      BY <2>2 DEF Start, Continue, Fail, ConfirmRead, MoveRead, LaunchRead, EditRead,
                  ConfirmCount, ConfirmRule, MoveSave, EditSave
    <3>2. PICK t : Hold(w, t)
      BY <2>2 DEF Start, Continue, Fail, ConfirmRead, MoveRead, LaunchRead, EditRead,
                  ConfirmCount, ConfirmRule, MoveSave, EditSave, Answer
    <3>3. \A v \in Workers : v # w => task'[v] = task[v]
      BY <3>2 DEF Hold, IInv, StateOK
    <3>4. w \in env.workers
      BY <2>2, StepsAreOfWorkers
    <3> QED
      BY <3>1, <3>3, <3>4 DEF OnlyWorkers, Free
  <2> QED
    BY <2>1, <2>2 DEF Next
<1> QED
  BY <1>1, <1>2, Inductive, PTL DEF Spec

(* Type correctness: every reachable document and request has its declared *)
(* shape (drop.schema.ts and the locals of the handlers).                  *)
THEOREM TypeCorrect == Spec => []TypeOK
<1>1. IInv /\ OnlyWorkers => TypeOK
  BY DEF IInv, OnlyWorkers, TypeOK
<1> QED
  BY <1>1, Inductive, WorkersInductive, PTL

(* However many confirmations, moves and edits run at the same time, a drop *)
(* counts at most maxQuantity units as long as its limits were not changed  *)
(* after the launch (the conditional update of confirmPaymentHoldQuantity). *)
THEOREM NeverOversold == Spec => []NoOversell
<1>1. IInv => NoOversell
  BY DEF IInv
<1> QED
  BY <1>1, Inductive, PTL

(* No interleaving counts a hold on a drop whose stored status is not open, *)
(* even one whose validation saw the drop open.                             *)
THEOREM ClosedTakesNoHold == Spec => ClosedDropTakesNoHold
<1> DEFINE Kept == drop.status \notin OpenStatuses =>
                     drop'.currentQuantity = drop.currentQuantity
<1>1. IInv /\ [Next]_vars => [Kept]_vars
  <2> SUFFICES ASSUME IInv, Next, drop.status \notin OpenStatuses
               PROVE  drop'.currentQuantity = drop.currentQuantity
    OBVIOUS
  <2>0. drop \in Drop
    BY DEF IInv, StateOK
  <2>1. PICK w \in Workers : Start(w) \/ Continue(w) \/ Fail(w)
    BY DEF Next
  <2>2. CASE Start(w) \/ Fail(w)
    BY <2>2 DEF Start, Fail, ConfirmRead, MoveRead, LaunchRead, EditRead
  <2>3. CASE ConfirmCount(w)
    BY <2>3 DEF ConfirmCount, CountFilter
  <2>4. CASE ConfirmRule(w) \/ MoveSave(w) \/ EditSave(w)
    BY <2>0, <2>4 DEF ConfirmRule, MoveSave, EditSave, Drop
  <2> QED
    BY <2>1, <2>2, <2>3, <2>4 DEF Continue
<1> QED
  BY <1>1, Inductive, PTL DEF Spec, ClosedDropTakesNoHold

-----------------------------------------------------------------------------
(***************************************************************************)
(* One request at a time.  Then what a request has read is what is stored  *)
(* when it saves (Current), terms stay valid and locked from the launch on *)
(* (Locked), and between requests an open drop's status is the one its     *)
(* count calls for, a confirmation that still has to save it being the     *)
(* only exception (Agrees).                                                *)
(***************************************************************************)
Current ==
  \A w \in Workers :
    /\ At(w, "count") => task[w].previous = drop.status
    /\ At(w, "rule") /\ task[w].next = "guaranteed" => drop.currentQuantity < drop.maxQuantity
    /\ At(w, "move") => task[w].target \in MoveTargets(drop)
    /\ At(w, "edit") =>
         /\ EditAllowed(drop, task[w].min, task[w].max, task[w].sizes)
         /\ "minQuantity" \notin task[w].changed => task[w].min = drop.minQuantity
         /\ "maxQuantity" \notin task[w].changed => task[w].max = drop.maxQuantity
         /\ "sizeOptions" \notin task[w].changed => task[w].sizes = drop.sizeOptions

Locked ==
  /\ ValidTerms(drop.minQuantity, drop.maxQuantity, drop.sizeOptions)
  /\ terms # "changed"
  /\ terms = "locked" => drop.status \notin UnlaunchedStatuses

Agrees ==
  drop.status \in OpenStatuses =>
    /\ drop.currentQuantity < drop.maxQuantity
    /\ drop.currentQuantity >= drop.minQuantity => drop.status = "guaranteed"
NoRule == \A w \in Workers : ~At(w, "rule")

SInv == IInv /\ Current /\ Locked
AInv == SInv /\ (NoRule => Agrees)

\* No request but the one of w is under way.
Others(w) == \A v \in Workers : v # w => task[v] = Idle

LEMMA InitAInv == Init => AInv
<1> SUFFICES ASSUME Init PROVE AInv
  OBVIOUS
<1>1. \A w \in Workers : task[w].step = "idle"
  BY DEF Init, Idle
<1>2. drop.status = "draft" /\ terms = "open"
  BY DEF Init
<1>3. ValidTerms(drop.minQuantity, drop.maxQuantity, drop.sizeOptions)
  BY DEF Init
<1>4. Current
  BY <1>1 DEF Current, At
<1>5. Locked
  BY <1>2, <1>3 DEF Locked
<1>6. Agrees
  BY <1>2 DEF Agrees, OpenStatuses
<1> QED
  BY <1>4, <1>5, <1>6, InitIInv DEF AInv, SInv

(* The rows of the lifecycle table: nothing leads back before the launch, and *)
(* only a drop that is ready for it is launched.                              *)
LEMMA LifecycleTable ==
  ASSUME NEW d \in Drop, NEW target \in MoveTargets(d)
  PROVE  /\ d.status \notin UnlaunchedStatuses => target \notin UnlaunchedStatuses
         /\ target = "active_collecting" => d.status = "ready_for_launch"
         /\ target = "guaranteed" => d.status = "active_collecting"
BY DEF Drop, MoveTargets, DropTransitions, DropStatuses, UnlaunchedStatuses

(* Taking a request changes nothing that is stored. *)
LEMMA StartStep ==
  ASSUME SInv, NEW w \in Workers, Others(w), Start(w), IInv'
  PROVE  SInv' /\ (Agrees => Agrees') /\ NoRule
<1> USE DEF SInv
<1>1. drop' = drop /\ terms' = terms /\ Free(w)
  BY DEF Start, ConfirmRead, MoveRead, LaunchRead, EditRead, Ready
<1>2. NoRule
  BY <1>1 DEF NoRule, At, Free, Idle, Others
<1>3. Locked' /\ (Agrees => Agrees')
  BY <1>1 DEF Locked, Agrees
<1>4. ASSUME NEW t, Hold(w, t) PROVE task'[w] = t /\ Others(w)'
  BY <1>4 DEF Hold, IInv, StateOK, Others
<1>5. CASE ConfirmRead(w)
  <2>1. PICK size \in Sizes, quantity \in Quantities :
          /\ task'[w] = [ step |-> "count", size |-> size, quantity |-> quantity,
                          limit |-> drop.maxQuantity - quantity, previous |-> drop.status ]
          /\ Others(w)'
    BY <1>4, <1>5 DEF ConfirmRead
  <2>2. Current'
    BY <1>1, <2>1 DEF Current, At, Others, Idle
  <2> QED
    BY <1>2, <1>3, <2>2
<1>6. CASE MoveRead(w) \/ LaunchRead(w)
  <2>1. PICK target \in MoveTargets(drop) :
          task'[w] = [ step |-> "move", target |-> target ] /\ Others(w)'
    BY <1>4, <1>6 DEF MoveRead, LaunchRead
  <2>2. Current'
    BY <1>1, <2>1 DEF Current, At, Others, Idle
  <2> QED
    BY <1>2, <1>3, <2>2
<1>7. CASE EditRead(w)
  <2>a. PICK min \in Terms, max \in Terms, sizes \in SUBSET Sizes :
          /\ EditAllowed(drop, min, max, sizes)
          /\ Hold(w, [ step |-> "edit", min |-> min, max |-> max, sizes |-> sizes,
               changed |->
                 { f \in {"minQuantity", "maxQuantity", "sizeOptions"} :
                     CASE f = "minQuantity" -> min # drop.minQuantity
                       [] f = "maxQuantity" -> max # drop.maxQuantity
                       [] f = "sizeOptions" -> sizes # drop.sizeOptions } ])
    BY <1>7 DEF EditRead
  <2>1. /\ EditAllowed(drop, min, max, sizes) /\ Others(w)'
        /\ task'[w] = [ step |-> "edit", min |-> min, max |-> max, sizes |-> sizes,
             changed |->
               { f \in {"minQuantity", "maxQuantity", "sizeOptions"} :
                   CASE f = "minQuantity" -> min # drop.minQuantity
                     [] f = "maxQuantity" -> max # drop.maxQuantity
                     [] f = "sizeOptions" -> sizes # drop.sizeOptions } ]
    BY <1>4, <2>a
  <2>2. /\ "minQuantity" \notin task'[w].changed => min = drop.minQuantity
        /\ "maxQuantity" \notin task'[w].changed => max = drop.maxQuantity
        /\ "sizeOptions" \notin task'[w].changed => sizes = drop.sizeOptions
    BY <2>1
  <2>3. /\ task'[w].min = min /\ task'[w].max = max /\ task'[w].sizes = sizes
        /\ task'[w].step = "edit"
    BY <2>1
  <2>4. \A v \in Workers : v # w => task'[v].step = "idle"
    BY <2>1 DEF Others, Idle
  <2>5. EditAllowed(drop', min, max, sizes)
    BY <1>1, <2>1
  <2>6. Current'
    BY <1>1, <2>2, <2>3, <2>4, <2>5 DEF Current, At
  <2> QED
    BY <1>2, <1>3, <2>6
<1> QED
  BY <1>5, <1>6, <1>7 DEF Start

(* A request that is over has read nothing. *)
LEMMA AnsweredIsCurrent ==
  ASSUME StateOK, NEW w \in Workers, Others(w), Answer(w)
  PROVE  Current' /\ NoRule'
<1>1. \A v \in Workers : task'[v].step = "idle"
  BY DEF Answer, Hold, StateOK, Idle, Others
<1> QED
  BY <1>1 DEF Current, NoRule, At

LEMMA ConfirmCountSequential ==
  ASSUME SInv, NEW w \in Workers, Others(w), ConfirmCount(w), IInv'
  PROVE  SInv' /\ (Agrees => (NoRule' => Agrees')) /\ NoRule
<1> USE DEF SInv, IInv
<1> DEFINE t == task[w]
           counted == Counted(drop, t.size, t.quantity)
<1>1. t \in CountTask /\ t.step = "count" /\ terms' = terms
  BY TaskShapes DEF ConfirmCount, At
<1>2. NoRule
  BY <1>1 DEF NoRule, At, Others, Idle
<1>3. CASE ~CountFilter(drop, t.size, t.limit)
  <2>1. drop' = drop /\ Answer(w)
    BY <1>3 DEF ConfirmCount
  <2> QED
    BY <1>1, <1>2, <2>1, AnsweredIsCurrent DEF Locked, Agrees
<1>4. CASE CountFilter(drop, t.size, t.limit)
  <2>1. drop' = counted /\ drop.status \in OpenStatuses
    BY <1>4 DEF ConfirmCount, CountFilter
  <2>2. t.size \in Sizes /\ t.quantity \in Nat /\ t.previous = drop.status
    BY <1>1, QuantitiesAssumption DEF CountTask, Current, At
  <2>3. /\ drop'.status = drop.status
        /\ drop'.minQuantity = drop.minQuantity
        /\ drop'.maxQuantity = drop.maxQuantity
        /\ drop'.sizeOptions = drop.sizeOptions
    BY <2>1 DEF Counted, StateOK, Drop
  <2>4. Locked'
    BY <1>1, <2>3 DEF Locked
  <2>5. drop'.currentQuantity \in Nat /\ drop'.maxQuantity \in Nat /\ drop'.minQuantity \in Nat
    BY DEF StateOK, Drop
  <2> DEFINE status == StatusAfterCount(drop', drop.status)
  <2>6. CASE CallsForSave(counted, t.previous)
    <3>1. Hold(w, [ step |-> "rule", next |-> status ])
      BY <1>4, <2>1, <2>2, <2>6 DEF ConfirmCount
    <3>2. task'[w] = [ step |-> "rule", next |-> status ] /\ Others(w)'
      BY <3>1 DEF Hold, StateOK, Others
    <3>3. status = "guaranteed" => drop'.currentQuantity < drop'.maxQuantity
      BY <2>1, <2>2, <2>5, <2>6 DEF StatusAfterCount, CallsForSave
    <3> HIDE DEF status
    <3>4. Current' /\ ~NoRule'
      BY <3>2, <3>3 DEF Current, NoRule, At, Others, Idle
    <3> QED
      BY <1>2, <2>4, <3>4
  <2>7. CASE ~CallsForSave(counted, t.previous)
    <3>1. Answer(w)
      BY <1>4, <2>7 DEF ConfirmCount
    <3>2. StatusAfterCount(drop', drop.status) = drop.status
      BY <2>1, <2>2, <2>3, <2>7 DEF CallsForSave
    <3>3. Agrees'
      BY <2>1, <2>3, <2>5, <3>2 DEF Agrees, StatusAfterCount, OpenStatuses
    <3> QED
      BY <1>2, <2>4, <3>1, <3>3, AnsweredIsCurrent
  <2> QED
    BY <2>6, <2>7
<1> QED
  BY <1>3, <1>4

LEMMA ConfirmRuleSequential ==
  ASSUME SInv, NEW w \in Workers, Others(w), ConfirmRule(w), IInv'
  PROVE  SInv' /\ Agrees'
<1> USE DEF SInv, IInv
<1>1. task[w] \in RuleTask /\ task[w].step = "rule" /\ terms' = terms
  BY TaskShapes DEF ConfirmRule, At
<1>2. /\ drop'.status = task[w].next
      /\ drop'.currentQuantity = drop.currentQuantity
      /\ drop'.minQuantity = drop.minQuantity
      /\ drop'.maxQuantity = drop.maxQuantity
      /\ drop'.sizeOptions = drop.sizeOptions
  BY DEF ConfirmRule, StateOK, Drop
<1>3. task[w].next \in {"guaranteed", "sold_out"}
  BY <1>1 DEF RuleTask
<1>4. Locked'
  BY <1>1, <1>2, <1>3 DEF Locked, UnlaunchedStatuses
<1>5. Agrees'
  BY <1>1, <1>2, <1>3 DEF Agrees, Current, At, OpenStatuses
<1> QED
  BY <1>4, <1>5, AnsweredIsCurrent DEF ConfirmRule

LEMMA MoveSaveSequential ==
  ASSUME SInv, NEW w \in Workers, Others(w), MoveSave(w), IInv'
  PROVE  SInv' /\ (Agrees => Agrees') /\ NoRule
<1> USE DEF SInv, IInv
<1>1. task[w].step = "move" /\ task[w].target \in MoveTargets(drop)
  BY DEF MoveSave, Current, At
<1>2. NoRule
  BY <1>1 DEF NoRule, At, Others, Idle
<1>3. /\ drop'.status = task[w].target
      /\ drop'.currentQuantity = drop.currentQuantity
      /\ drop'.minQuantity = drop.minQuantity
      /\ drop'.maxQuantity = drop.maxQuantity
      /\ drop'.sizeOptions = drop.sizeOptions
  BY DEF MoveSave, StateOK, Drop
<1>4. /\ drop.status \notin UnlaunchedStatuses => drop'.status \notin UnlaunchedStatuses
      /\ drop'.status = "active_collecting" => drop.status = "ready_for_launch"
      /\ drop'.status = "guaranteed" => drop.status = "active_collecting"
  BY <1>1, <1>3, LifecycleTable DEF StateOK
<1>5. Locked'
  BY <1>3, <1>4 DEF Locked, MoveSave
<1>6. Agrees => Agrees'
  <2> SUFFICES ASSUME Agrees, drop'.status \in OpenStatuses
               PROVE  /\ drop'.currentQuantity < drop'.maxQuantity
                      /\ drop'.currentQuantity >= drop'.minQuantity =>
                           drop'.status = "guaranteed"
    BY DEF Agrees
  <2>1. CASE drop'.status = "active_collecting"
    <3>1. drop.currentQuantity = 0
      BY <1>4, <2>1 DEF Locked, NothingBeforeLaunch, StateOK, UnlaunchedStatuses
    <3>2. drop.minQuantity >= 1 /\ drop.maxQuantity >= drop.minQuantity
      BY DEF Locked, ValidTerms
    <3>3. drop.minQuantity \in Nat /\ drop.maxQuantity \in Nat
      BY DEF StateOK, Drop
    <3> QED
      BY <1>3, <3>1, <3>2, <3>3
  <2>2. CASE drop'.status = "guaranteed"
    BY <1>3, <1>4, <2>2 DEF Agrees, OpenStatuses
  <2> QED
    BY <2>1, <2>2 DEF OpenStatuses
<1> QED
  BY <1>2, <1>5, <1>6, AnsweredIsCurrent DEF MoveSave

LEMMA EditSaveSequential ==
  ASSUME SInv, NEW w \in Workers, Others(w), EditSave(w), IInv'
  PROVE  SInv' /\ (Agrees => Agrees') /\ NoRule
<1> USE DEF SInv, IInv
<1> DEFINE t == task[w]
<1>1. /\ t.step = "edit" /\ t \in EditTask
      /\ EditAllowed(drop, t.min, t.max, t.sizes)
  BY TaskShapes DEF EditSave, Current, At
<1>2. NoRule
  BY <1>1 DEF NoRule, At, Others, Idle
<1>3. /\ drop'.minQuantity = t.min /\ drop'.maxQuantity = t.max
      /\ drop'.sizeOptions = t.sizes
      /\ drop'.status = drop.status /\ drop'.currentQuantity = drop.currentQuantity
  BY DEF EditSave, StateOK, Drop, Current, At
<1>4. ValidTerms(drop'.minQuantity, drop'.maxQuantity, drop'.sizeOptions)
  BY <1>1, <1>3 DEF EditAllowed
<1>5. drop.status \notin UnlaunchedStatuses =>
        drop'.minQuantity = drop.minQuantity /\ drop'.maxQuantity = drop.maxQuantity
  BY <1>1, <1>3 DEF EditAllowed
<1>6. terms' = terms
  BY <1>5 DEF EditSave, Locked, StateOK
<1>7. Locked'
  BY <1>3, <1>4, <1>6 DEF Locked
<1>8. Agrees => Agrees'
  BY <1>3, <1>5 DEF Agrees, OpenStatuses, UnlaunchedStatuses
<1> QED
  BY <1>2, <1>7, <1>8, AnsweredIsCurrent DEF EditSave

LEMMA FailSequential ==
  ASSUME SInv, NEW w \in Workers, Others(w), Fail(w), IInv'
  PROVE  SInv'
BY AnsweredIsCurrent DEF SInv, IInv, Fail, Locked

LEMMA StepSInv ==
  ASSUME SInv, OnlyWorkers, Alone, [Next]_vars
  PROVE  /\ SInv' /\ Alone' /\ env' = env
         /\ ~env.faults /\ (NoRule => Agrees) => (NoRule' => Agrees')
<1>1. IInv'
  BY NextIInv DEF SInv
<1>2. CASE UNCHANGED vars
  BY <1>1, <1>2 DEF vars, SInv, Current, Locked, Agrees, NoRule, At, Alone
<1>3. ASSUME NEW w \in Workers, Start(w) \/ Continue(w) \/ Fail(w)
      PROVE  /\ SInv' /\ Alone' /\ env' = env
             /\ ~env.faults /\ (NoRule => Agrees) => (NoRule' => Agrees')
  <2>a. w \in env.workers
    BY <1>3, StepsAreOfWorkers
  <2>b. Others(w)
    BY <2>a DEF Alone, OnlyWorkers, Others, Free
  <2>c. env' = env /\ Alone'
    BY <1>3 DEF Start, Continue, Fail, ConfirmRead, MoveRead, LaunchRead, EditRead,
                ConfirmCount, ConfirmRule, MoveSave, EditSave, Alone
  <2>1. CASE Start(w)
    BY <1>1, <2>1, <2>b, <2>c, StartStep
  <2>2. CASE ConfirmCount(w)
    BY <1>1, <2>2, <2>b, <2>c, ConfirmCountSequential
  <2>3. CASE ConfirmRule(w)
    BY <1>1, <2>3, <2>b, <2>c, ConfirmRuleSequential
  <2>4. CASE MoveSave(w)
    BY <1>1, <2>4, <2>b, <2>c, MoveSaveSequential
  <2>5. CASE EditSave(w)
    BY <1>1, <2>5, <2>b, <2>c, EditSaveSequential
  <2>6. CASE Fail(w)
    <3>1. env.faults
      BY <2>6 DEF Fail
    <3>2. SInv'
      BY <1>1, <2>6, <2>b, FailSequential
    <3> QED
      BY <2>c, <3>1, <3>2
  <2> QED
    BY <1>3, <2>1, <2>2, <2>3, <2>4, <2>5, <2>6 DEF Continue
<1> QED
  BY <1>2, <1>3 DEF Next

(* One request at a time and without failing calls, an open drop is never full *)
(* and is guaranteed once its count has reached the minimum: the rules of      *)
(* applyQuantityStatusRules and the lifecycle table leave no other status.     *)
THEOREM StatusFollowsCount == Spec => []StatusAgreesWithCount
<1> DEFINE Calm == Alone /\ ~env.faults
<1>1. (Calm => AInv) => StatusAgreesWithCount
  BY DEF AInv, Agrees, NoRule, At, Free, Idle, StatusAgreesWithCount
<1>2. (Calm => AInv) /\ OnlyWorkers /\ [Next]_vars => (Calm => AInv)'
  <2> SUFFICES ASSUME Calm => AInv, OnlyWorkers, [Next]_vars, Calm' PROVE AInv'
    OBVIOUS
  <2> QED
    BY EnvIsRigid, StepSInv DEF AInv
<1>3. Init => (Calm => AInv)
  BY InitAInv
<1> QED
  BY <1>1, <1>2, <1>3, WorkersInductive, PTL DEF Spec

-----------------------------------------------------------------------------
(* The count per size *)

AddsUp(d) == d.currentQuantity = SumOver(d.sizeBreakdown, Sizes)

(* Counting a hold adds its quantity to the total and to one of the sizes. *)
LEMMA CountedAddsUp ==
  ASSUME NEW d \in Drop, AddsUp(d), NEW size \in Sizes, NEW quantity \in Nat
  PROVE  AddsUp(Counted(d, size, quantity))
<1> DEFINE b == d.sizeBreakdown
           c == [b EXCEPT ![size] = @ + quantity]
<1>1. b \in [Sizes -> Nat] /\ d.currentQuantity \in Nat
  BY DEF Drop
<1>2. Counted(d, size, quantity).sizeBreakdown = c
  BY DEF Counted, Drop
<1>3. Counted(d, size, quantity).currentQuantity = d.currentQuantity + quantity
  BY CountedDrop
<1> HIDE DEF b
<1>4. c[size] = b[size] + quantity /\ \A s \in Sizes \ {size} : c[s] = b[s]
  BY <1>1
<1> HIDE DEF c
<1>5. SumOver(c, Sizes) = SumOver(b, Sizes) + (c[size] - b[size])
  <2>1. PICK f, g : f = b /\ g = c
    OBVIOUS
  <2>2. (\A s \in Sizes : f[s] \in Int) /\ g[size] \in Int /\ \A s \in Sizes \ {size} : g[s] = f[s]
    BY <1>1, <1>4, <2>1
  <2>3. SumOver(g, Sizes) = SumOver(f, Sizes) + (g[size] - f[size])
    BY <2>2, SizesAssumption, SumBumps
  <2> QED
    BY <2>1, <2>3
<1>6. d.currentQuantity = SumOver(b, Sizes)
  BY DEF AddsUp, b
<1>7. SumOver(c, Sizes) = d.currentQuantity + quantity
  BY <1>1, <1>4, <1>5, <1>6
<1> QED
  BY <1>2, <1>3, <1>7 DEF AddsUp

(* The counts per size account for every counted unit: both are written by *)
(* one update, and no move or edit touches either, whatever overlaps or    *)
(* fails and whichever sizes are taken off sale.                           *)
THEOREM SizesAccountForAll == Spec => []SizesAddUp
<1>1. SizesAddUp <=> AddsUp(drop)
  BY DEF SizesAddUp, AddsUp, SumOver
<1>2. Init => AddsUp(drop)
  <2> SUFFICES ASSUME Init PROVE AddsUp(drop)
    OBVIOUS
  <2>1. /\ drop.currentQuantity = 0
        /\ drop.sizeBreakdown = [s \in Sizes |-> 0]
    BY DEF Init
  <2> DEFINE none == [s \in Sizes |-> 0]
  <2>2. SumOver(none, Sizes) = 0
    <3>1. \A s \in Sizes : none[s] = 0
      OBVIOUS
    <3> HIDE DEF none
    <3> QED
      BY <3>1, SizesAssumption, SumOfZeros
  <2> QED
    BY <2>1, <2>2 DEF AddsUp
<1>3. StateOK /\ AddsUp(drop) /\ [Next]_vars => AddsUp(drop)'
  <2> SUFFICES ASSUME StateOK, AddsUp(drop), [Next]_vars PROVE AddsUp(drop)'
    OBVIOUS
  <2> SUFFICES AddsUp(drop')
    BY DEF AddsUp
  <2>1. CASE /\ drop'.currentQuantity = drop.currentQuantity
             /\ drop'.sizeBreakdown = drop.sizeBreakdown
    BY <2>1 DEF AddsUp
  <2>2. ASSUME NEW w \in Workers, ConfirmCount(w) PROVE AddsUp(drop')
    <3>1. /\ task[w].size \in Sizes /\ task[w].quantity \in Nat
      BY <2>2, TaskShapes, QuantitiesAssumption DEF ConfirmCount, CountTask
    <3>2. drop' = drop \/ drop' = Counted(drop, task[w].size, task[w].quantity)
      BY <2>2 DEF ConfirmCount
    <3> QED
      BY <2>1, <3>1, <3>2, CountedAddsUp DEF StateOK
  <2>3. ASSUME NEW w \in Workers, ConfirmRule(w) \/ MoveSave(w) \/ EditSave(w)
        PROVE  AddsUp(drop')
    BY <2>1, <2>3 DEF ConfirmRule, MoveSave, EditSave, StateOK, Drop
  <2>4. ASSUME NEW w \in Workers, Start(w) \/ Fail(w) PROVE AddsUp(drop')
    BY <2>1, <2>4 DEF Start, ConfirmRead, MoveRead, LaunchRead, EditRead, Fail
  <2> QED
    BY <2>1, <2>2, <2>3, <2>4 DEF Next, Continue, vars
<1>4. IInv => StateOK
  BY DEF IInv
<1> QED
  BY <1>1, <1>2, <1>3, <1>4, Inductive, PTL DEF Spec
=============================================================================
