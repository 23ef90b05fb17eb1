---------------------------- MODULE WishlistPages ----------------------------
(***************************************************************************)
(* The two places a buyer keeps a wishlist in the web client: the button   *)
(* of a drop's page, which sends one request at a time, and the panel of   *)
(* the profile, which disables the buttons of the item saved last only.    *)
(* Both replace an item by the answer; answers arrive in any order.        *)
(***************************************************************************)
EXTENDS Naturals

CONSTANTS
  Drops,        \* the drops a buyer can follow
  MaxSaves,     \* bound on the requests
  WishlistEnvs  \* [page, patient, faults]: the panel or the button, whether the
                \* user waits for an item, whether calls fail

VARIABLES
  place,       \* the one of WishlistEnvs this behaviour is in
  item,        \* the items as the API keeps them
  shown,       \* the items as the page shows them
  savingDropId, \* the drop whose buttons are disabled; on the button, isSaving
  saves,       \* the requests under way
  count        \* how many there have been

wishlistVars == << place, item, shown, savingDropId, saves, count >>

NoItem == [status |-> "absent", low |-> FALSE]
NoDrop == "none"
Items == [status : {"active", "closed", "archived"}, low : BOOLEAN]

WishlistInit ==
  /\ place \in WishlistEnvs
  /\ item \in [Drops -> {NoItem} \cup Items]
  /\ shown = item
  /\ savingDropId = NoDrop
  /\ saves = {} /\ count = 0

\* The requests a click on an item can send: the fields it changes.
PanelRequests(i) ==
  {[low |-> ~i.low]}
  \cup (IF i.status = "active" THEN {[status |-> "closed"]} ELSE {})
  \cup (IF i.status # "archived" THEN {[status |-> "archived"]} ELSE {})

ButtonRequests(i) ==
  IF i.status = "active" THEN {[status |-> "closed"]} ELSE {[status |-> "active"]}

Requests(d) ==
  IF place.page = "panel"
  THEN IF shown[d] = NoItem THEN {} ELSE PanelRequests(shown[d])
  ELSE ButtonRequests(shown[d])

Save(d, fields) ==
  /\ count < MaxSaves
  /\ place.patient => \A s \in saves : s.drop # d
  /\ count' = count + 1
  /\ savingDropId' = d
  /\ saves' = saves \cup
       {[n |-> count, drop |-> d, fields |-> fields, done |-> FALSE, reply |-> NoItem]}
  /\ UNCHANGED << place, item, shown >>

\* saveItem of the panel.
saveItem ==
  /\ place.page = "panel"
  /\ \E d \in Drops \ {savingDropId} :
       \E fields \in Requests(d) : Save(d, fields)

\* handleToggle of the button, which is disabled while it saves.
handleToggle ==
  /\ place.page = "button" /\ savingDropId = NoDrop
  /\ \E d \in Drops : \E fields \in Requests(d) : Save(d, fields)

\* addForUser, closeForUser and updateForUser: the given fields are set on the
\* stored item, a new one has its reminders on.
Updated(i, fields) ==
  [ status |-> IF "status" \in DOMAIN fields THEN fields.status ELSE i.status,
    low |-> IF "low" \in DOMAIN fields THEN fields.low
            ELSE i = NoItem \/ i.low ]

ServeSave(s) ==
  /\ ~s.done
  /\ item' = [item EXCEPT ![s.drop] = Updated(@, s.fields)]
  /\ saves' = (saves \ {s}) \cup {[s EXCEPT !.done = TRUE, !.reply = item'[s.drop]]}
  /\ UNCHANGED << place, shown, savingDropId, count >>

\* Mutant: the click is shown, not the answer.
ShowRequested(s) ==
  shown' = [shown EXCEPT ![s.drop] = [@ EXCEPT !.status =
              IF "status" \in DOMAIN s.fields THEN s.fields.status ELSE @]]

ShowAnswer(s) == shown' = [shown EXCEPT ![s.drop] = s.reply]

\* An answer enables every button again.
ReceiveSave(s) ==
  /\ s.done
  /\ ShowAnswer(s)
  /\ savingDropId' = NoDrop
  /\ saves' = saves \ {s}
  /\ UNCHANGED << place, item, count >>

SaveFails(s) ==
  /\ place.faults
  /\ savingDropId' = NoDrop
  /\ saves' = saves \ {s}
  /\ UNCHANGED << place, item, shown, count >>

WishlistNext ==
  \/ saveItem \/ handleToggle
  \/ \E s \in saves : ServeSave(s) \/ ReceiveSave(s) \/ SaveFails(s)

WishlistSpec == WishlistInit /\ [][WishlistNext]_wishlistVars

\* With nothing under way and no failed call the page shows the stored items.
\* The button keeps that by itself; on the panel, saving a second item enables
\* the buttons of the first one, whose answers can then cross, so its user must
\* not use them before the first answer.
WishlistIsCurrent ==
  (place.page = "button" \/ place.patient) /\ ~place.faults /\ saves = {} =>
    shown = item
=============================================================================
