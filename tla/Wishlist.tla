------------------------------ MODULE Wishlist ------------------------------
(***************************************************************************)
(* Who is told that a drop is almost sold out: WishlistService, the low    *)
(* stock notice DropsService sends at the end of every confirmation, and   *)
(* the notification settings of NotificationsService.  Each confirmation   *)
(* ends with a loop of its own over the same wishlist items; tasks         *)
(* advance by one action per await.                                        *)
(***************************************************************************)
EXTENDS Integers, FiniteSets

CONSTANTS
  Users,
  SettingsUsers, \* those of them who open their notification settings
  Max,       \* the drop's maxQuantity
  Workers    \* confirmations handled at once

ASSUME MaxAssumption == Max \in Nat \ {0}
ASSUME SettingsUsersAssumption == SettingsUsers \subseteq Users

VARIABLES
  faults,    \* TRUE: calls may fail, the process may restart
  count,     \* the drop's currentQuantity
  item,      \* the wishlist item each user has for the drop
  notices,   \* low stock notifications created for each user
  settings,  \* the notification settings document of each user
  task,      \* what each confirmation holds between two calls
  reader     \* users whose getSettings found no document

wishlistVars == << faults, count, item, notices, settings, task, reader >>

\* No document; the default of schema and service; what a user chose.
SettingsDocs == {"none", "defaults", "chosen"}
ItemStatuses == {"active", "closed", "archived"}
NoItem == [status |-> "absent", notifyLowStock |-> TRUE, notifiedAt |-> FALSE]
Items ==
  [status : {"absent"} \cup ItemStatuses, notifyLowStock : BOOLEAN,
   notifiedAt : BOOLEAN]

Idle == [step |-> "idle"]
At(w, step) == task[w].step = step
Hold(w, t) == task' = [task EXCEPT ![w] = t]
people == << settings, reader, faults >>

\* At most 20 percent of the maximum is left.
IsLowStock(quantity) == 5 * (Max - quantity) <= Max

Candidates == { u \in Users : /\ item[u].status = "active"
                              /\ item[u].notifyLowStock
                              /\ ~item[u].notifiedAt }

Init ==
  /\ faults \in BOOLEAN
  /\ count = 0
  /\ item = [u \in Users |-> NoItem]
  /\ notices = [u \in Users |-> 0]
  /\ settings = [u \in SettingsUsers |-> "none"]
  /\ task = [w \in Workers |-> Idle]
  /\ reader = {}

-----------------------------------------------------------------------------
(* The user's requests; each is one atomic update of the user's document. *)

\* addForUser: an upsert; an item that was told once stays so.
AddForUser(u) ==
  /\ item' = [item EXCEPT ![u].status = "active"]
  /\ UNCHANGED << count, notices, task, people >>

CloseForUser(u) ==
  /\ item[u].status # "absent"
  /\ item' = [item EXCEPT ![u].status = "closed"]
  /\ UNCHANGED << count, notices, task, people >>

\* updateForUser: the status, the flag, or both.
UpdateForUser(u) ==
  /\ item[u].status # "absent"
  /\ \E status \in ItemStatuses, flag \in BOOLEAN :
       item' = [item EXCEPT ![u].status = status, ![u].notifyLowStock = flag]
  /\ UNCHANGED << count, notices, task, people >>

\* getSettings: the document is looked for,
FindSettings(u) ==
  /\ settings[u] = "none"
  /\ reader' = reader \cup {u}
  /\ UNCHANGED << faults, count, item, notices, task, settings >>

\* Mutant: the defaults replace whatever was saved meanwhile.
ResetSettings(u) ==
  /\ u \in reader
  /\ reader' = reader \ {u}
  /\ settings' = [settings EXCEPT ![u] = "defaults"]
  /\ UNCHANGED << faults, count, item, notices, task >>

\* and created; the unique index on userId refuses a second one.
CreateSettings(u) ==
  /\ u \in reader
  /\ reader' = reader \ {u}
  /\ settings' = [settings EXCEPT ![u] = IF @ = "none" THEN "defaults" ELSE @]
  /\ UNCHANGED << faults, count, item, notices, task >>

\* updateSettings: an upsert.
UpdateSettings(u) ==
  /\ settings' = [settings EXCEPT ![u] = "chosen"]
  /\ UNCHANGED << faults, count, item, notices, task, reader >>

-----------------------------------------------------------------------------
(* The notice at the end of a confirmation *)

\* The hold is counted; the notice works with the count this update returned.
Confirm(w) ==
  /\ task[w] = Idle
  /\ \E quantity \in 1 .. Max - count :
       /\ count' = count + quantity
       /\ Hold(w, IF IsLowStock(count') THEN [step |-> "list"] ELSE Idle)
  /\ UNCHANGED << item, notices, people >>

\* notifyLowStockForDrop: the candidates are read.
ListCandidates(w) ==
  /\ At(w, "list")
  /\ Hold(w, [step |-> "claim", todo |-> Candidates])
  /\ UNCHANGED << count, item, notices, people >>

\* Mutant: the candidate that was read is told without a claim.
ClaimOfCopy(w) ==
  /\ At(w, "claim")
  /\ \E u \in task[w].todo :
       /\ item' = [item EXCEPT ![u].notifiedAt = TRUE]
       /\ Hold(w, [step |-> "tell", todo |-> task[w].todo \ {u}, user |-> u])
  /\ UNCHANGED << count, notices, people >>

\* Mutant: one candidate that is taken ends the loop.
ClaimOrStop(w) ==
  /\ At(w, "claim")
  /\ \E u \in task[w].todo :
       IF item[u].notifiedAt
       THEN Hold(w, Idle) /\ UNCHANGED item
       ELSE /\ item' = [item EXCEPT ![u].notifiedAt = TRUE]
            /\ Hold(w, [step |-> "tell", todo |-> task[w].todo \ {u}, user |-> u])
  /\ UNCHANGED << count, notices, people >>

\* One candidate is claimed by an update that filters on lowStockNotifiedAt; one
\* that another confirmation claimed is passed over.
Claim(w) ==
  /\ At(w, "claim")
  /\ \E u \in task[w].todo :
       LET left == task[w].todo \ {u}
       IN IF item[u].notifiedAt
          THEN Hold(w, [step |-> "claim", todo |-> left]) /\ UNCHANGED item
          ELSE /\ item' = [item EXCEPT ![u].notifiedAt = TRUE]
               /\ Hold(w, [step |-> "tell", todo |-> left, user |-> u])
  /\ UNCHANGED << count, notices, people >>

\* createInterestNotification for the claimed item.
Tell(w) ==
  /\ At(w, "tell")
  /\ notices' = [notices EXCEPT ![task[w].user] = @ + 1]
  /\ Hold(w, [step |-> "claim", todo |-> task[w].todo])
  /\ UNCHANGED << count, item, people >>

LoopEnds(w) ==
  /\ At(w, "claim")
  /\ task[w].todo = {}
  /\ Hold(w, Idle)
  /\ UNCHANGED << count, item, notices, people >>

\* A call of the loop fails: safelyNotifyLowStock swallows it with what was left
\* to do.  A restart is the same.
LoopFails(w) ==
  /\ faults
  /\ task[w] # Idle
  /\ Hold(w, Idle)
  /\ UNCHANGED << count, item, notices, people >>

-----------------------------------------------------------------------------
ItemActs(u) == AddForUser(u) \/ CloseForUser(u) \/ UpdateForUser(u)
SettingsActs(u) == FindSettings(u) \/ CreateSettings(u) \/ UpdateSettings(u)
Notifying(w) == ListCandidates(w) \/ Claim(w) \/ Tell(w) \/ LoopEnds(w)

Next ==
  \/ \E u \in Users : ItemActs(u)
  \/ \E u \in SettingsUsers : SettingsActs(u)
  \/ \E w \in Workers : Confirm(w) \/ Notifying(w) \/ LoopFails(w)

Spec == Init /\ [][Next]_wishlistVars
Fairness == \A w \in Workers : WF_wishlistVars(Notifying(w))
FairSpec == Spec /\ Fairness

-----------------------------------------------------------------------------
(* Properties *)

Tasks ==
  [step : {"idle", "list"}] \cup [step : {"claim"}, todo : SUBSET Users]
  \cup [step : {"tell"}, todo : SUBSET Users, user : Users]

\* Types of the documents and of every suspended confirmation.
TypeOK ==
  /\ faults \in BOOLEAN
  /\ count \in 0 .. Max
  /\ item \in [Users -> Items]
  /\ notices \in [Users -> Nat]
  /\ settings \in [SettingsUsers -> SettingsDocs]
  /\ task \in [Workers -> Tasks]
  /\ reader \subseteq SettingsUsers

\* Nobody is told twice, though every confirmation of an almost full drop runs
\* the loop, loops overlap and fail, and users leave and come back; and nobody is
\* told before the drop is almost full.
ToldOnce ==
  \A u \in Users : notices[u] <= 1 /\ (notices[u] = 1 => 5 * (Max - count) <= Max)

\* Who was read as a candidate is told, by this loop or by the one that claimed
\* the item first, as long as no call fails.
CandidatesAreTold ==
  \A w \in Workers : \A u \in Users :
    (~faults /\ At(w, "claim") /\ u \in task[w].todo) ~> (notices[u] = 1)

\* What a user chose is never replaced by the defaults another request of the
\* same user creates after it found no document.
ChoiceKept ==
  [][\A u \in SettingsUsers : settings[u] = "chosen" => settings'[u] = "chosen"]_wishlistVars
=============================================================================
