--------------------------- MODULE WishlistProofs ---------------------------
(***************************************************************************)
(* Nobody is told twice that a drop is almost sold out, for any number of  *)
(* users and of confirmations handled at once.  ToldOnce is not inductive: *)
(* a notice is created one call after its item was claimed, so what is to  *)
(* be kept is that a claim stands behind every notice, given or due, and   *)
(* that a claim has one holder.                                            *)
(***************************************************************************)
EXTENDS Wishlist, TLAPS

Due(w, u) == At(w, "tell") /\ task[w].user = u

\* A notice that is due was claimed, has one holder and was not given before.
OneHolder ==
  \A w \in Workers, u \in Users : Due(w, u) =>
    /\ item[u].notifiedAt
    /\ notices[u] = 0
    /\ \A v \in Workers : Due(v, u) => v = w

\* A notice that was given was claimed, and given once.
GivenOnce ==
  \A u \in Users : notices[u] # 0 => notices[u] = 1 /\ item[u].notifiedAt

\* The loop runs, and notices are given, only once the drop is almost full; the
\* count never goes back.
OnlyWhenLow ==
  /\ \A w \in Workers : task[w] # Idle => IsLowStock(count)
  /\ \A u \in Users : notices[u] # 0 => IsLowStock(count)

IInv == TypeOK /\ OneHolder /\ GivenOnce /\ OnlyWhenLow

-----------------------------------------------------------------------------
LEMMA InitIInv == Init => IInv
BY MaxAssumption
DEF Init, IInv, TypeOK, OneHolder, GivenOnce, OnlyWhenLow, Due, At, Idle, NoItem, Items,
    ItemStatuses, SettingsDocs, Tasks

\* A request of a user that leaves the claim on the item alone.
LEMMA ItemKeepsClaims ==
  ASSUME IInv, NEW u \in Users, NEW status \in ItemStatuses, NEW flag \in BOOLEAN,
         item' = [item EXCEPT ![u].status = status, ![u].notifyLowStock = flag],
         UNCHANGED << count, notices, task, people >>
  PROVE  IInv'
<1>1. item' \in [Users -> Items] /\ \A v \in Users : item'[v].notifiedAt = item[v].notifiedAt
  BY DEF IInv, TypeOK, Items, ItemStatuses
<1>2. TypeOK'
  BY <1>1 DEF IInv, TypeOK, people
<1> QED
  BY <1>1, <1>2 DEF IInv, OneHolder, GivenOnce, OnlyWhenLow, Due, At, IsLowStock, people

LEMMA ItemStep ==
  ASSUME IInv, NEW u \in Users, ItemActs(u)
  PROVE  IInv'
<1>1. item[u] \in Items
  BY DEF IInv, TypeOK
<1>2. CASE AddForUser(u)
  <2>1. item' = [item EXCEPT ![u].status = "active", ![u].notifyLowStock = @]
    BY <1>1, <1>2 DEF AddForUser, IInv, TypeOK, Items
  <2> QED
    BY <1>1, <1>2, <2>1, ItemKeepsClaims DEF AddForUser, Items, ItemStatuses
<1>3. CASE CloseForUser(u)
  <2>1. item' = [item EXCEPT ![u].status = "closed", ![u].notifyLowStock = @]
    BY <1>1, <1>3 DEF CloseForUser, IInv, TypeOK, Items
  <2> QED
    BY <1>1, <1>3, <2>1, ItemKeepsClaims DEF CloseForUser, Items, ItemStatuses
<1>4. CASE UpdateForUser(u)
  BY <1>4, ItemKeepsClaims DEF UpdateForUser
<1> QED
  BY <1>2, <1>3, <1>4 DEF ItemActs

\* The settings are documents of their own.
LEMMA SettingsStep ==
  ASSUME IInv, NEW u \in SettingsUsers, SettingsActs(u)
  PROVE  IInv'
<1>1. /\ settings' \in [SettingsUsers -> SettingsDocs]
      /\ reader' \subseteq SettingsUsers
      /\ UNCHANGED << faults, count, item, notices, task >>
  BY DEF SettingsActs, FindSettings, CreateSettings, UpdateSettings, IInv, TypeOK, SettingsDocs
<1> QED
  BY <1>1 DEF IInv, TypeOK, OneHolder, GivenOnce, OnlyWhenLow, Due, At, IsLowStock

\* A drop that is almost full stays so while its count grows.
LEMMA LowStaysLow ==
  ASSUME NEW old \in Nat, NEW new \in Nat, new >= old, IsLowStock(old)
  PROVE  IsLowStock(new)
BY MaxAssumption DEF IsLowStock

LEMMA ConfirmStep ==
  ASSUME IInv, NEW w \in Workers, Confirm(w)
  PROVE  IInv'
<1>1. PICK quantity \in 1 .. Max - count :
        /\ count' = count + quantity
        /\ Hold(w, IF IsLowStock(count') THEN [step |-> "list"] ELSE Idle)
  BY DEF Confirm
<1>2. count \in Nat /\ Max \in Nat /\ count' \in 0 .. Max /\ count' \in Nat /\ count' >= count
  BY <1>1, MaxAssumption DEF IInv, TypeOK
<1>3. IsLowStock(count) => IsLowStock(count')
  BY <1>2, LowStaysLow
<1>4. /\ task' \in [Workers -> Tasks]
      /\ task'[w].step \in {"idle", "list"}
      /\ task'[w] # Idle => IsLowStock(count')
      /\ \A v \in Workers : v # w => task'[v] = task[v]
  BY <1>1 DEF Hold, IInv, TypeOK, Tasks, Idle
<1>5. TypeOK'
  BY <1>2, <1>4 DEF Confirm, IInv, TypeOK, people
<1>6. \A v \in Workers, u \in Users : Due(v, u)' => Due(v, u)
  BY <1>4 DEF Due, At
<1>7. OneHolder' /\ GivenOnce'
  BY <1>6 DEF IInv, OneHolder, GivenOnce, Confirm
<1>8. OnlyWhenLow'
  BY <1>3, <1>4 DEF IInv, OnlyWhenLow, Confirm
<1> QED
  BY <1>5, <1>7, <1>8 DEF IInv

\* A step of the loop after which no notice is due from this confirmation.
LEMMA NothingDue ==
  ASSUME IInv, NEW w \in Workers, NEW t \in Tasks, Hold(w, t), t.step # "tell",
         task[w] # Idle, UNCHANGED << count, item, notices, people >>
  PROVE  IInv'
<1>1. /\ task' \in [Workers -> Tasks]
      /\ task'[w].step # "tell"
      /\ \A v \in Workers : v # w => task'[v] = task[v]
  BY DEF Hold, IInv, TypeOK
<1>2. TypeOK'
  BY <1>1 DEF IInv, TypeOK, people
<1>3. \A v \in Workers, u \in Users : Due(v, u)' => Due(v, u)
  BY <1>1 DEF Due, At
<1>4. OneHolder' /\ GivenOnce'
  BY <1>3 DEF IInv, OneHolder, GivenOnce
<1>5. OnlyWhenLow'
  BY <1>1 DEF IInv, OnlyWhenLow, IsLowStock
<1> QED
  BY <1>2, <1>4, <1>5 DEF IInv

LEMMA ClaimStep ==
  ASSUME IInv, NEW w \in Workers, Claim(w)
  PROVE  IInv'
<1>0. task[w] \in Tasks /\ task[w].step = "claim" /\ task[w] # Idle
  BY DEF Claim, At, IInv, TypeOK, Idle
<1>1. task[w].todo \subseteq Users
  BY <1>0 DEF Tasks
<1>2. PICK u \in task[w].todo :
        IF item[u].notifiedAt
        THEN Hold(w, [step |-> "claim", todo |-> task[w].todo \ {u}]) /\ UNCHANGED item
        ELSE /\ item' = [item EXCEPT ![u].notifiedAt = TRUE]
             /\ Hold(w, [step |-> "tell", todo |-> task[w].todo \ {u}, user |-> u])
  BY DEF Claim
<1>3. u \in Users
  BY <1>1
<1>4. CASE item[u].notifiedAt
  <2>1. [step |-> "claim", todo |-> task[w].todo \ {u}] \in Tasks
    BY <1>1 DEF Tasks
  <2> QED
    BY <1>0, <1>2, <1>4, <2>1, NothingDue DEF Claim
<1>5. CASE ~item[u].notifiedAt
  <2>1. /\ item' \in [Users -> Items]
        /\ item'[u].notifiedAt
        /\ \A v \in Users : v # u => item'[v] = item[v]
    BY <1>2, <1>3, <1>5 DEF IInv, TypeOK, Items
  <2>2. /\ task' \in [Workers -> Tasks]
        /\ task'[w] = [step |-> "tell", todo |-> task[w].todo \ {u}, user |-> u]
        /\ \A v \in Workers : v # w => task'[v] = task[v]
    BY <1>1, <1>2, <1>3, <1>5 DEF Hold, IInv, TypeOK, Tasks
  <2>3. notices[u] = 0 /\ \A v \in Workers : ~Due(v, u)
    BY <1>3, <1>5 DEF IInv, OneHolder, GivenOnce
  <2>4. TypeOK'
    BY <2>1, <2>2 DEF Claim, IInv, TypeOK, people
  <2>5. /\ \A v \in Workers, x \in Users : Due(v, x)' => (v = w /\ x = u) \/ (v # w /\ Due(v, x))
        /\ Due(w, u)'
    BY <2>2 DEF Due, At
  <2>6. OneHolder'
    BY <2>1, <2>3, <2>5 DEF Claim, IInv, OneHolder
  <2>7. GivenOnce'
    BY <2>1, <2>3 DEF Claim, IInv, GivenOnce
  <2>8. OnlyWhenLow'
    BY <1>0, <2>2 DEF Claim, IInv, OnlyWhenLow, IsLowStock
  <2> QED
    BY <2>4, <2>6, <2>7, <2>8 DEF IInv
<1> QED
  BY <1>4, <1>5

LEMMA TellStep ==
  ASSUME IInv, NEW w \in Workers, Tell(w)
  PROVE  IInv'
<1> DEFINE u == task[w].user
<1>0. task[w] \in Tasks /\ task[w].step = "tell" /\ task[w] # Idle
  BY DEF Tell, At, IInv, TypeOK, Idle
<1>1. u \in Users /\ task[w].todo \subseteq Users /\ Due(w, u)
  BY <1>0 DEF Tasks, Due, At
<1>2. item[u].notifiedAt /\ notices[u] = 0 /\ \A v \in Workers : Due(v, u) => v = w
  BY <1>1 DEF IInv, OneHolder
<1>3. /\ notices' \in [Users -> Nat]
      /\ notices'[u] = 1
      /\ \A x \in Users : x # u => notices'[x] = notices[x]
  BY <1>1, <1>2 DEF Tell, IInv, TypeOK
<1>4. /\ task' \in [Workers -> Tasks]
      /\ task'[w].step = "claim"
      /\ \A v \in Workers : v # w => task'[v] = task[v]
  BY <1>1 DEF Tell, Hold, IInv, TypeOK, Tasks
<1>5. TypeOK'
  BY <1>3, <1>4 DEF Tell, IInv, TypeOK, people
<1>6. \A v \in Workers, x \in Users : Due(v, x)' => v # w /\ Due(v, x)
  BY <1>4 DEF Due, At
<1>7. OneHolder'
  BY <1>1, <1>2, <1>3, <1>6 DEF Tell, IInv, OneHolder
<1>8. GivenOnce'
  BY <1>2, <1>3 DEF Tell, IInv, GivenOnce
<1>9. OnlyWhenLow'
  BY <1>0, <1>3, <1>4 DEF Tell, IInv, OnlyWhenLow, IsLowStock
<1> QED
  BY <1>5, <1>7, <1>8, <1>9 DEF IInv

LEMMA LoopStep ==
  ASSUME IInv, NEW w \in Workers, ListCandidates(w) \/ LoopEnds(w) \/ LoopFails(w)
  PROVE  IInv'
<1>1. task[w] # Idle
  BY DEF ListCandidates, LoopEnds, LoopFails, At, Idle
<1>2. Idle \in Tasks /\ Idle.step # "tell"
  BY DEF Idle, Tasks
<1>3. [step |-> "claim", todo |-> Candidates] \in Tasks
  BY DEF Candidates, Tasks
<1> QED
  BY <1>1, <1>2, <1>3, NothingDue DEF ListCandidates, LoopEnds, LoopFails

LEMMA NextIInv == IInv /\ [Next]_wishlistVars => IInv'
<1> SUFFICES ASSUME IInv, [Next]_wishlistVars PROVE IInv'
  OBVIOUS
<1>1. CASE UNCHANGED wishlistVars
  BY <1>1 DEF wishlistVars, IInv, TypeOK, OneHolder, GivenOnce, OnlyWhenLow, Due, At, IsLowStock
<1>2. CASE \E u \in Users : ItemActs(u)
  BY <1>2, ItemStep
<1>3. CASE \E u \in SettingsUsers : SettingsActs(u)
  BY <1>3, SettingsStep
<1>4. CASE \E w \in Workers : Confirm(w) \/ Notifying(w) \/ LoopFails(w)
  BY <1>4, ConfirmStep, ClaimStep, TellStep, LoopStep DEF Notifying
<1> QED
  BY <1>1, <1>2, <1>3, <1>4 DEF Next

LEMMA Inductive == Spec => []IInv
BY InitIInv, NextIInv, PTL DEF Spec

-----------------------------------------------------------------------------
(* However many confirmations notify the wishlists of a drop at the same     *)
(* time, with failures, restarts and users who come and go, a user is told   *)
(* at most once, and not before the drop is almost full: the conditional     *)
(* update on lowStockNotifiedAt of notifyLowStockForDrop.                    *)
THEOREM NobodyToldTwice == Spec => []ToldOnce
<1>1. IInv => ToldOnce
  BY DEF IInv, GivenOnce, OnlyWhenLow, ToldOnce, IsLowStock, TypeOK
<1> QED
  BY <1>1, Inductive, PTL

(* A user's choice of notification settings outlives the creation of the     *)
(* defaults by a request that found no document before (getSettings).        *)
THEOREM ChoiceSurvives == Spec => ChoiceKept
<1> DEFINE Kept == \A u \in SettingsUsers : settings[u] = "chosen" => settings'[u] = "chosen"
<1>1. IInv /\ [Next]_wishlistVars => [Kept]_wishlistVars
  <2> SUFFICES ASSUME IInv, Next, NEW u \in SettingsUsers, settings[u] = "chosen"
               PROVE  settings'[u] = "chosen"
    OBVIOUS
  <2>0. settings \in [SettingsUsers -> SettingsDocs]
    BY DEF IInv, TypeOK
  <2>1. CASE \E v \in Users : ItemActs(v)
    BY <2>1 DEF ItemActs, AddForUser, CloseForUser, UpdateForUser, people
  <2>2. CASE \E v \in SettingsUsers : SettingsActs(v)
    BY <2>0, <2>2 DEF SettingsActs, FindSettings, CreateSettings, UpdateSettings
  <2>3. CASE \E w \in Workers : Confirm(w) \/ Notifying(w) \/ LoopFails(w)
    BY <2>3 DEF Notifying, Confirm, ListCandidates, Claim, Tell, LoopEnds, LoopFails, people
  <2> QED
    BY <2>1, <2>2, <2>3 DEF Next
<1> QED
  BY <1>1, Inductive, PTL DEF Spec, ChoiceKept
=============================================================================
