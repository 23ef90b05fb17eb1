------------------------------- MODULE Drops -------------------------------
(***************************************************************************)
(* One drop document and the requests that work on it at the same time:    *)
(* the confirmation of a payment hold (confirmPaymentHoldQuantity), an     *)
(* administrator's move along the lifecycle (transitionDrop, launchDrop)   *)
(* and an administrator's edit (updateAdminDrop).                          *)
(*                                                                         *)
(* A request is taken by a free worker and is modelled with one action per *)
(* database call: between two calls any other request may run.  A copy of  *)
(* the document read in one call and saved in a later one writes only the  *)
(* paths the request has changed in the copy (mongoose save()).            *)
(***************************************************************************)
EXTENDS DropRules, FiniteSets, FiniteSetsExt

CONSTANTS
  Workers,      \* requests that can be in progress at the same time
  Sizes,        \* size labels
  Terms,        \* values of minQuantity and maxQuantity
  Quantities,   \* quantities one order may ask for
  Envs          \* who works at the same time, and whether calls fail

ASSUME SizesAssumption == IsFiniteSet(Sizes)
ASSUME TermsAssumption == Terms \subseteq Nat
ASSUME QuantitiesAssumption == Quantities \subseteq Nat \ {0}
ASSUME EnvsAssumption == Envs \subseteq [workers : SUBSET Workers, faults : BOOLEAN]

VARIABLES
  env,    \* the one of Envs this behaviour is in
  drop,   \* the stored document
  task,   \* what each worker's request holds between two calls
  terms   \* history: "open" until the first launch, then "locked",
          \* "changed" once a quantity limit was changed after that

vars == << env, drop, task, terms >>

Drop ==
  [ status          : DropStatuses,
    minQuantity     : Nat,
    maxQuantity     : Nat,
    sizeOptions     : SUBSET Sizes,
    currentQuantity : Nat,
    sizeBreakdown   : [Sizes -> Nat] ]

Idle == [ step |-> "idle" ]

\* A hold confirmation that has validated its copy of the drop.
CountTask ==
  [ step : {"count"}, size : Sizes, quantity : Quantities, limit : Int,
    previous : OpenStatuses ]
\* A hold confirmation that is counted and has a status to save.
RuleTask == [ step : {"rule"}, next : {"guaranteed", "sold_out"} ]
\* A move that has passed the lifecycle table.
MoveTask == [ step : {"move"}, target : DropStatuses ]
\* An edit that has passed the lock and the validation.
EditTask ==
  [ step : {"edit"}, min : Nat, max : Nat, sizes : SUBSET Sizes,
    changed : SUBSET {"minQuantity", "maxQuantity", "sizeOptions"} ]

Tasks == {Idle} \cup CountTask \cup RuleTask \cup MoveTask \cup EditTask

-----------------------------------------------------------------------------
\* createAdminDrop: a draft with valid terms and nothing counted.
Init ==
  /\ env \in Envs
  /\ \E min \in Terms, max \in Terms, sizes \in SUBSET Sizes :
       /\ ValidTerms(min, max, sizes)
       /\ drop = [ status |-> "draft", minQuantity |-> min, maxQuantity |-> max,
                   sizeOptions |-> sizes, currentQuantity |-> 0,
                   sizeBreakdown |-> [s \in Sizes |-> 0] ]
  /\ task = [w \in Workers |-> Idle]
  /\ terms = "open"

Free(w) == task[w] = Idle
Ready(w) == w \in env.workers /\ Free(w)
At(w, step) == task[w].step = step
Hold(w, t) == task' = [task EXCEPT ![w] = t]
Answer(w) == Hold(w, Idle)

\* confirmPaymentHoldQuantity, first call: the drop is read and validated.
\* A request the validation refuses changes nothing.
ConfirmRead(w) ==
  /\ Ready(w)
  /\ \E size \in Sizes, quantity \in Quantities :
       /\ Reservable(drop, size, quantity)
       /\ Hold(w, [ step |-> "count", size |-> size, quantity |-> quantity,
                    limit |-> drop.maxQuantity - quantity,
                    previous |-> drop.status ])
  /\ UNCHANGED << env, drop, terms >>

\* Second call: the filter and the increment are one atomic update.
ConfirmCount(w) ==
  /\ At(w, "count")
  /\ LET t == task[w]
         counted == Counted(drop, t.size, t.quantity)
     IN IF CountFilter(drop, t.size, t.limit)
        THEN /\ drop' = counted
             /\ IF CallsForSave(counted, t.previous)
                THEN Hold(w, [ step |-> "rule",
                               next |-> StatusAfterCount(counted, t.previous) ])
                ELSE Answer(w)
        ELSE Answer(w) /\ UNCHANGED drop
  /\ UNCHANGED << env, terms >>

\* Third call (applyQuantityStatusRules): the status is saved, whatever the
\* stored status has become since the count.
ConfirmRule(w) ==
  /\ At(w, "rule")
  /\ drop' = [drop EXCEPT !.status = task[w].next]
  /\ Answer(w)
  /\ UNCHANGED << env, terms >>

\* transitionDrop, first call: the drop is read, the table consulted.
MoveRead(w) ==
  /\ Ready(w)
  /\ \E target \in MoveTargets(drop) :
       Hold(w, [ step |-> "move", target |-> target ])
  /\ UNCHANGED << env, drop, terms >>

\* launchDrop: the same, from ready_for_launch only.
LaunchRead(w) ==
  /\ Ready(w)
  /\ drop.status = "ready_for_launch"
  /\ "active_collecting" \in MoveTargets(drop)
  /\ Hold(w, [ step |-> "move", target |-> "active_collecting" ])
  /\ UNCHANGED << env, drop, terms >>

\* transitionDrop, second call: the status is saved.
MoveSave(w) ==
  /\ At(w, "move")
  /\ drop' = [drop EXCEPT !.status = task[w].target]
  /\ terms' = IF terms = "open" /\ task[w].target \notin UnlaunchedStatuses
              THEN "locked" ELSE terms
  /\ Answer(w)
  /\ UNCHANGED env

\* updateAdminDrop, first call: a launched drop keeps its quantity limits;
\* the merged terms are validated; `changed` are the paths save() will write.
EditRead(w) ==
  /\ Ready(w)
  /\ \E min \in Terms, max \in Terms, sizes \in SUBSET Sizes :
       /\ EditAllowed(drop, min, max, sizes)
       /\ Hold(w, [ step |-> "edit", min |-> min, max |-> max, sizes |-> sizes,
                    changed |->
                      { f \in {"minQuantity", "maxQuantity", "sizeOptions"} :
                          CASE f = "minQuantity" -> min # drop.minQuantity
                            [] f = "maxQuantity" -> max # drop.maxQuantity
                            [] f = "sizeOptions" -> sizes # drop.sizeOptions } ])
  /\ UNCHANGED << env, drop, terms >>

\* updateAdminDrop, second call: the changed paths are saved.
EditSave(w) ==
  /\ At(w, "edit")
  /\ LET t == task[w]
         Write(field, new) == IF field \in t.changed THEN new ELSE drop[field]
     IN drop' = [drop EXCEPT !.minQuantity = Write("minQuantity", t.min),
                             !.maxQuantity = Write("maxQuantity", t.max),
                             !.sizeOptions = Write("sizeOptions", t.sizes)]
  /\ terms' = IF /\ terms # "open"
                 /\ << drop'.minQuantity, drop'.maxQuantity >>
                      # << drop.minQuantity, drop.maxQuantity >>
              THEN "changed" ELSE terms
  /\ Answer(w)
  /\ UNCHANGED env

\* A database call fails or the process restarts: the request ends where it is.
Fail(w) ==
  /\ env.faults
  /\ ~Free(w)
  /\ Answer(w)
  /\ UNCHANGED << env, drop, terms >>

Start(w) == ConfirmRead(w) \/ MoveRead(w) \/ LaunchRead(w) \/ EditRead(w)
Continue(w) == ConfirmCount(w) \/ ConfirmRule(w) \/ MoveSave(w) \/ EditSave(w)

Next == \E w \in Workers : Start(w) \/ Continue(w) \/ Fail(w)

Spec == Init /\ [][Next]_vars

\* A request that has begun is carried on: the process keeps running its
\* handlers.  Nothing is assumed about requests arriving.
FairSpec == Spec /\ \A w \in Workers : WF_vars(Continue(w))

-----------------------------------------------------------------------------
(* Properties *)

StateOK ==
  /\ drop \in Drop
  /\ task \in [Workers -> Tasks]
  /\ terms \in {"open", "locked", "changed"}
TypeOK == env \in Envs /\ StateOK

\* One request at a time.
Alone == \A v, w \in env.workers : v = w

\* A drop never counts more holds than its maximum (the atomic filter of
\* confirmPaymentHoldQuantity against a limit computed from an older read),
\* as long as no edit has changed the limits of a launched drop.
NoOversell == terms # "changed" => drop.currentQuantity <= drop.maxQuantity

\* The count per size accounts for every counted unit, also when sizes are
\* taken off sale or a confirmation stops half way.
SizesAddUp ==
  drop.currentQuantity = MapThenSumSet(LAMBDA s : drop.sizeBreakdown[s], Sizes)

\* A drop that is no longer open takes no hold, even one validated while it
\* was still open.
ClosedDropTakesNoHold ==
  [][drop.status \notin OpenStatuses => drop'.currentQuantity = drop.currentQuantity]_vars

\* One request at a time and without failures, an open drop's status agrees with
\* its count while no request is in progress: a full drop is sold out, one that
\* reached the minimum is guaranteed.  This needs the lock on the limits of a
\* launched drop (of two requests, an edit that read the drop before the launch
\* can be saved after it).
StatusAgreesWithCount ==
  /\ Alone /\ ~env.faults
  /\ \A w \in Workers : Free(w)
  /\ drop.status \in OpenStatuses
  => /\ drop.currentQuantity < drop.maxQuantity
     /\ drop.currentQuantity >= drop.minQuantity => drop.status = "guaranteed"

\* One request at a time and without failures, a drop filled up under the limits
\* it was launched with stops being open.  (Of two confirmations that fill it the
\* save of guaranteed can land after that of sold_out: the drop stays open.)
FullDropCloses ==
  (Alone /\ ~env.faults /\ terms = "locked" /\ drop.currentQuantity >= drop.maxQuantity)
    ~> terms = "changed" \/ drop.status \notin OpenStatuses
=============================================================================
