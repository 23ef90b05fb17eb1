------------------------------ MODULE DropRules ------------------------------
(***************************************************************************)
(* The rules of one drop document that DropsService applies, without any   *)
(* state: the lifecycle table, what a drop accepts, what counting a        *)
(* confirmed hold does to it, and which status the count calls for.        *)
(* Modules Drops and Reservation build their steps from these operators.   *)
(***************************************************************************)
EXTENDS Integers

DropStatuses ==
  { "draft", "scheduled", "active", "ready_for_launch", "active_collecting",
    "guaranteed", "sold_out", "successful", "failed", "in_production",
    "ready_to_ship", "shipped", "delivered", "completed",
    "second_chance_window", "forever_closed", "cancelled", "archived" }

\* The statuses from which an administrator may still change the terms.
UnlaunchedStatuses == { "draft", "ready_for_launch" }

\* The statuses in which a confirmed hold may be counted.
OpenStatuses == { "active_collecting", "guaranteed" }

\* The table's rows; a status without a row has no successor.
DropTransitions ==
  [ s \in DropStatuses |->
      CASE s = "draft"                -> { "ready_for_launch", "archived" }
        [] s = "ready_for_launch"     -> { "active_collecting", "draft", "archived" }
        [] s = "active_collecting"    -> { "guaranteed", "sold_out", "failed" }
        [] s = "guaranteed"           -> { "sold_out", "successful" }
        [] s = "sold_out"             -> { "successful" }
        [] s = "successful"           -> { "in_production" }
        [] s = "in_production"        -> { "ready_to_ship" }
        [] s = "ready_to_ship"        -> { "shipped" }
        [] s = "shipped"              -> { "delivered" }
        [] s = "delivered"            -> { "completed", "second_chance_window" }
        [] s = "second_chance_window" -> { "forever_closed" }
        [] OTHER                      -> {} ]

ValidTerms(min, max, sizes) == min >= 1 /\ max >= min /\ sizes # {}

\* Mutant: the quantity limits are not locked.
EditUnlocked(d, min, max, sizes) == ValidTerms(min, max, sizes)

\* What updateAdminDrop accepts: terms valid once merged into the copy d, and
\* no new quantity limit on a launched drop.
EditAllowed(d, min, max, sizes) ==
  /\ d.status \notin UnlaunchedStatuses => min = d.minQuantity /\ max = d.maxQuantity
  /\ ValidTerms(min, max, sizes)

MoveTargets(d) == DropTransitions[d.status]

\* The check made on the copy of the drop a request has read.
Reservable(d, size, quantity) ==
  /\ d.status \in OpenStatuses
  /\ size \in d.sizeOptions
  /\ d.currentQuantity + quantity <= d.maxQuantity

\* Mutant: the update is filtered on the count only.
CountFilterAnyStatus(d, size, limit) ==
  size \in d.sizeOptions /\ d.currentQuantity <= limit

\* Mutant: the update relies on the earlier validation of the count.
CountFilterNoLimit(d, size, limit) ==
  d.status \in OpenStatuses /\ size \in d.sizeOptions

\* The filter of the atomic update: the stored drop d against a limit
\* computed from the copy that was read before.
CountFilter(d, size, limit) ==
  /\ d.status \in OpenStatuses
  /\ size \in d.sizeOptions
  /\ d.currentQuantity <= limit

\* Mutant: the size breakdown is left as it was.
CountedWithoutSize(d, size, quantity) == [d EXCEPT !.currentQuantity = @ + quantity]

\* Mutant: the update subtracts.
CountedDown(d, size, quantity) ==
  [d EXCEPT !.currentQuantity = @ - quantity, !.sizeBreakdown[size] = @ - quantity]

Counted(d, size, quantity) ==
  [d EXCEPT !.currentQuantity = @ + quantity, !.sizeBreakdown[size] = @ + quantity]

\* Mutant: the limits must be exceeded, not reached.
StatusPastLimits(d, previous) ==
  IF d.currentQuantity > d.maxQuantity THEN "sold_out"
  ELSE IF previous = "active_collecting" /\ d.currentQuantity > d.minQuantity
       THEN "guaranteed"
       ELSE previous

\* The status the counted copy d calls for when the drop had status
\* `previous` before: previous itself when there is nothing to change.
StatusAfterCount(d, previous) ==
  IF d.currentQuantity >= d.maxQuantity THEN "sold_out"
  ELSE IF previous = "active_collecting" /\ d.currentQuantity >= d.minQuantity
       THEN "guaranteed"
       ELSE previous

\* save() of copy d writes the status only when it is a change of the copy.
CallsForSave(d, previous) == StatusAfterCount(d, previous) \notin {previous, d.status}
=============================================================================
