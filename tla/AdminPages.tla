----------------------------- MODULE AdminPages -----------------------------
(***************************************************************************)
(* The administrators' panels of the web client - drops, production,       *)
(* payouts and second chance - over the records the API keeps.  A panel    *)
(* holds copies; each request travels to the API and its answer back, and  *)
(* answers of different requests arrive in any order.  While one request   *)
(* to save is under way the panel sends no other, but a record can be      *)
(* selected at any time.                                                   *)
(***************************************************************************)
EXTENDS DropRules, SecondChance, FiniteSets

CONSTANTS
  Ids,         \* the records of the page, Nobody not among them
  Slots,       \* requests under way at once
  MaxVersion,  \* bound on the edits of a drop
  Envs,        \* [page, patient, others, faults]: which panel, whether its user
               \* waits for answers, whether someone else acts, whether calls fail;
               \* the pages are drops, production, payouts and secondChance
  Nobody       \* no record selected

VARIABLES
  env,      \* the one of Envs this behaviour is in
  stored,   \* the records as the API keeps them
  sales,    \* how often a listing was sold since it was last offered
  list,     \* the copies the panel lists
  selected, \* selectedId
  detail,   \* the copy the panel shows and edits: [id, rec]
  request   \* the requests under way

vars == << env, stored, sales, list, selected, detail, request >>

Absent == [status |-> "absent", version |-> 0]
NoRecords == [i \in Ids |-> Absent]
Known(records) == { i \in Ids : records[i] # Absent }
Copy(i, records) == [id |-> i, rec |-> records[i]]
NoDetail == [id |-> Nobody, rec |-> Absent]

\* The drops and the production panel keep a copy of the selected record of
\* their own; the others look it up in their list.
KeepsDetail == env.page \in {"drops", "production"}
Shown == IF KeepsDetail THEN detail.id ELSE selected

NoRequest == [stage |-> "none"]
Free == { s \in Slots : request[s] = NoRequest }
Under(s, tasks) == request[s] # NoRequest /\ request[s].task \in tasks
isLoading == \E s \in Slots : Under(s, {"load"})
isSaving == \E s \in Slots : Under(s, {"save", "refresh"})

\* `of` is the record the panel showed when it asked; the forms that create a
\* payout or a listing are not about the selected one.
Asked(task, i, op) ==
  [ stage |-> "asked", task |-> task, id |-> i, op |-> op,
    of |-> IF op = "create" /\ ~KeepsDetail THEN Nobody ELSE Shown,
    reply |-> NoRecords ]
Ask(task, i, op) ==
  /\ Free # {}
  /\ request' = [request EXCEPT ![CHOOSE s \in Free : TRUE] = Asked(task, i, op)]
AtEase == ~isLoading /\ (env.patient => Free = Slots)

Init ==
  /\ env \in Envs
  /\ stored \in [ Ids -> {Absent} \cup
       [ status : CASE env.page = "drops" -> {"draft", "guaranteed"}
                    [] env.page = "production" -> {"ready_for_production"}
                    [] env.page = "payouts" -> {"pending"}
                    [] OTHER -> {NewListing}, version : {0} ] ]
  /\ sales = [i \in Ids |-> 0]
  /\ list = NoRecords
  /\ selected = Nobody
  /\ detail = NoDetail
  /\ \E s \in Slots :
       request = [ r \in Slots |->
         IF r = s THEN [ stage |-> "asked", task |-> "load", id |-> Nobody,
                         op |-> "read", of |-> Nobody, reply |-> NoRecords ]
         ELSE NoRequest ]

-----------------------------------------------------------------------------
(* The API *)

ProductionMoves ==
  [ s \in { "draft", "ready_for_production", "sent_to_producer", "in_production",
            "completed", "ready_to_ship", "problem", "cancelled" } |->
      CASE s = "draft" -> {"ready_for_production", "cancelled"}
        [] s = "ready_for_production" -> {"sent_to_producer", "problem", "cancelled"}
        [] s = "sent_to_producer" -> {"in_production", "problem", "cancelled"}
        [] s = "in_production" -> {"completed", "problem", "cancelled"}
        [] s = "completed" -> {"ready_to_ship", "problem"}
        [] s = "problem" -> {"ready_for_production", "cancelled"}
        [] OTHER -> {} ]

\* An update sends every field of the form, the locked ones too; the number and
\* the slug of another drop are refused by their unique indexes.
DropUpdated(rec, i, of) ==
  { r \in {[rec EXCEPT !.version = @ + 1]} :
      of = i /\ rec.status \in UnlaunchedStatuses /\ r.version <= MaxVersion }

Moves(status, op) ==
  CASE env.page = "drops" -> {op} \cap DropTransitions[status]
    [] env.page = "production" -> {op} \cap ProductionMoves[status]
    [] env.page = "payouts" ->
         IF op = "pay" /\ status \notin {"paid", "cancelled"}
         THEN {"partially_paid", "paid"} ELSE {}
    [] OTHER -> TransitionListing(status, op)

\* What a request makes of the record: one of these, or a refusal when there is none.
Outcomes(i, op, of) ==
  LET rec == stored[i]
  IN CASE op = "create" ->
            IF env.page = "payouts"
            THEN IF rec.status \in {"paid", "partially_paid"} THEN {rec}
                 ELSE [status : {"pending", "ready_to_pay"}, version : {0}]
            ELSE IF of = Nobody /\ rec = Absent
                 THEN {[status |-> "draft", version |-> 0]} ELSE {}
       [] op = "update" -> DropUpdated(rec, i, of)
       [] OTHER -> { [rec EXCEPT !.status = t] : t \in Moves(rec.status, op) }

Write(i, op, rec) ==
  /\ stored' = [stored EXCEPT ![i] = rec]
  /\ sales' = [sales EXCEPT ![i] =
                 CASE op = "sold" -> @ + 1
                   [] op = "public_available" -> 0
                   [] OTHER -> @]

Serve(s) ==
  /\ request[s].stage = "asked"
  /\ \/ /\ Under(s, {"load", "select", "refresh"})
        /\ request' = [request EXCEPT ![s].stage = "answered", ![s].reply = stored]
        /\ UNCHANGED << stored, sales >>
     \/ /\ Under(s, {"save"})
        /\ LET r == request[s]
           IN \/ \E rec \in Outcomes(r.id, r.op, r.of) :
                   /\ Write(r.id, r.op, rec)
                   /\ request' = [request EXCEPT ![s].stage = "answered",
                                                 ![s].reply = stored']
              \/ /\ Outcomes(r.id, r.op, r.of) = {}
                 /\ request' = [request EXCEPT ![s].stage = "refused"]
                 /\ UNCHANGED << stored, sales >>
  /\ UNCHANGED << env, list, selected, detail >>

\* The request or its answer is lost.
Lose(s) ==
  /\ env.faults
  /\ request[s].stage \in {"asked", "answered"}
  /\ request' = [request EXCEPT ![s].stage = "refused"]
  /\ UNCHANGED << env, stored, sales, list, selected, detail >>

-----------------------------------------------------------------------------
(* What the user does *)

NEXT_STATUSES ==
  [ s \in DropStatuses |->
      CASE s = "draft"                -> {"ready_for_launch", "archived"}
        [] s = "ready_for_launch"     -> {"active_collecting", "draft", "archived"}
        [] s = "active_collecting"    -> {"guaranteed", "sold_out", "failed"}
        [] s = "guaranteed"           -> {"sold_out", "successful"}
        [] s = "sold_out"             -> {"successful"}
        [] s = "successful"           -> {"in_production"}
        [] s = "in_production"        -> {"ready_to_ship"}
        [] s = "ready_to_ship"        -> {"shipped"}
        [] s = "shipped"              -> {"delivered"}
        [] s = "delivered"            -> {"completed", "second_chance_window"}
        [] s = "second_chance_window" -> {"forever_closed"}
        [] OTHER                      -> {} ]

NEXT_STATUS_OPTIONS ==
  {"sent_to_producer", "in_production", "completed", "ready_to_ship", "problem",
   "cancelled"}

\* The buttons under a drop, Launch included, are those of the copy shown.
DropButtons(rec) == NEXT_STATUSES[rec.status]
ListingButtons == Relistings \cup {"sold"}

\* Mutant: the cached copy is not shown before the fresh one arrives.
ShowFresh(i) == UNCHANGED detail

ShowCached(i) == detail' = Copy(i, list)

\* The listed copy is shown while a fresh one is fetched.
SelectAndFetch(page) ==
  /\ env.page = page /\ AtEase
  /\ \E i \in Known(list) :
       /\ selected' = i
       /\ ShowCached(i)
       /\ Ask("select", i, "read")
  /\ UNCHANGED << env, stored, sales, list >>

\* Only noted as selected.
SelectListed(page) ==
  /\ env.page = page /\ AtEase
  /\ selected' \in Known(list)
  /\ UNCHANGED << env, stored, sales, list, detail, request >>

\* handleSelect of the drops and of the production panel, and the lists of the
\* other two.
SelectDrop == SelectAndFetch("drops")
SelectPackage == SelectAndFetch("production")
SelectPayout == SelectListed("payouts")
SelectListing == SelectListed("secondChance")

handleNew ==
  /\ env.page = "drops" /\ AtEase
  /\ selected' = Nobody
  /\ detail' = NoDetail
  /\ UNCHANGED << env, stored, sales, list, request >>

\* A form sends its request; the others wait until it is answered.
Send(page, i, op) == env.page = page /\ AtEase /\ ~isSaving /\ Ask("save", i, op)
Sending == UNCHANGED << env, stored, sales, list, selected, detail >>

\* handleSubmit of the drops panel: an update of the selected drop, else a new one.
SubmitDrop ==
  /\ \/ selected # Nobody /\ Send("drops", selected, "update")
     \/ selected = Nobody /\ \E i \in Ids \ Known(stored) : Send("drops", i, "create")
  /\ Sending

\* handleEnsure of payouts, for a drop typed in,
handleEnsure == (\E i \in Ids : Send("payouts", i, "create")) /\ Sending

\* and handleCreate of second chance.
handleCreate ==
  (\E i \in Ids \ Known(stored) : Send("secondChance", i, "create")) /\ Sending

\* The buttons about the selected record; without one they only say so.
Act(page, ops) ==
  /\ selected # Nobody
  /\ \E op \in ops : Send(page, selected, op)
  /\ Sending

runDropAction ==
  env.page = "drops" /\ detail.id # Nobody /\ Act("drops", DropButtons(detail.rec))
handleTransition == Act("production", NEXT_STATUS_OPTIONS)
handleMarkPaid == Act("payouts", {"pay"})
updateSelected == Act("secondChance", ListingButtons)

-----------------------------------------------------------------------------
(* Answers *)

Answered(s, task) ==
  request[s] # NoRequest /\ request[s].stage = "answered" /\ request[s].task = task
Done(s) == request' = [request EXCEPT ![s] = NoRequest]

\* An effect has loaded the list; its first record, if any, is selected.
ReceiveList(s, page) ==
  /\ env.page = page /\ Answered(s, "load")
  /\ LET reply == request[s].reply
     IN /\ list' = reply
        /\ \/ Known(reply) = {} /\ UNCHANGED << selected, detail >>
           \/ \E i \in Known(reply) :
                /\ selected' = i
                /\ detail' = IF KeepsDetail THEN Copy(i, reply) ELSE detail
  /\ Done(s)
  /\ UNCHANGED << env, stored, sales >>

ReceiveDrops(s) == ReceiveList(s, "drops")
ReceivePackages(s) == ReceiveList(s, "production")
ReceivePayouts(s) == ReceiveList(s, "payouts")
ReceiveListings(s) == ReceiveList(s, "secondChance")

\* The fresh copy is shown, whatever has been selected since.
ReceiveSelected(s) ==
  /\ Answered(s, "select")
  /\ detail' = Copy(request[s].id, request[s].reply)
  /\ Done(s)
  /\ UNCHANGED << env, stored, sales, list, selected >>

\* A saved drop makes the panel ask for the list again.
ReceiveDropSaved(s) ==
  /\ env.page = "drops" /\ Answered(s, "save")
  /\ request' = [request EXCEPT ![s].stage = "asked", ![s].task = "refresh",
                                ![s].reply = NoRecords]
  /\ UNCHANGED << env, stored, sales, list, selected, detail >>

\* Mutant: the list is replaced and the selection left as it is.
ListOnly(i, reply) == list' = reply /\ UNCHANGED << selected, detail >>

refreshDrops(i, reply) ==
  /\ list' = reply
  /\ selected' = i
  /\ detail' = Copy(i, reply)

ReceiveRefresh(s) ==
  /\ Answered(s, "refresh")
  /\ refreshDrops(request[s].id, request[s].reply)
  /\ Done(s)
  /\ UNCHANGED << env, stored, sales >>

\* Mutant: only a record that is already listed is replaced.
ReplaceListed(i, reply) ==
  list' = IF i \in Known(list) THEN [list EXCEPT ![i] = reply[i]] ELSE list

\* The answer replaces the listed copy of its record or joins the list.
upsert(i, reply) == list' = [list EXCEPT ![i] = reply[i]]

ReceiveSaved(s, page) ==
  /\ env.page = page /\ Answered(s, "save")
  /\ upsert(request[s].id, request[s].reply)
  /\ Done(s)
  /\ UNCHANGED << env, stored, sales >>

SelectCreated(s) == selected' = IF request[s].op = "create" THEN request[s].id ELSE selected

ReceivePackage(s) ==
  /\ ReceiveSaved(s, "production")
  /\ detail' = Copy(request[s].id, request[s].reply)
  /\ UNCHANGED selected

upsertPayout(s) == ReceiveSaved(s, "payouts") /\ SelectCreated(s) /\ UNCHANGED detail
ReceiveListing(s) == ReceiveSaved(s, "secondChance") /\ SelectCreated(s) /\ UNCHANGED detail

\* The error is shown and nothing else changes.
ReceiveError(s) ==
  /\ request[s].stage = "refused"
  /\ Done(s)
  /\ UNCHANGED << env, stored, sales, list, selected, detail >>

-----------------------------------------------------------------------------
\* Another administrator's panel sends what its own buttons allow.
OtherAdministrator ==
  /\ env.others
  /\ \E i \in Known(stored) :
       \E op \in CASE env.page = "drops" -> DropButtons(stored[i])
                   [] env.page = "production" -> NEXT_STATUS_OPTIONS
                   [] env.page = "payouts" -> {"pay"}
                   [] OTHER -> ListingButtons :
         \E rec \in Outcomes(i, op, i) : Write(i, op, rec)
  /\ UNCHANGED << env, list, selected, detail, request >>

Receive(s) ==
  \/ ReceiveDrops(s) \/ ReceivePackages(s) \/ ReceivePayouts(s) \/ ReceiveListings(s)
  \/ ReceiveSelected(s) \/ ReceiveDropSaved(s) \/ ReceiveRefresh(s)
  \/ ReceivePackage(s) \/ upsertPayout(s) \/ ReceiveListing(s) \/ ReceiveError(s)

User ==
  \/ SelectDrop \/ SelectPackage \/ SelectPayout \/ SelectListing
  \/ handleNew \/ SubmitDrop \/ runDropAction
  \/ handleTransition \/ handleEnsure \/ handleMarkPaid \/ handleCreate \/ updateSelected

Next ==
  \/ User
  \/ OtherAdministrator
  \/ \E s \in Slots : Serve(s) \/ Lose(s) \/ Receive(s)

Spec == Init /\ [][Next]_vars

-----------------------------------------------------------------------------
(* Properties *)

\* The panels that look the selected record up cannot show another one; the two
\* that keep a copy can, when a record is selected before the answer for the
\* previous one is there.
Careful == env.patient \/ ~KeepsDetail

\* With nothing under way, one administrator and no failed call, the panel shows
\* what is stored: its list and the copy of the selected record, new ones included.
ShowsWhatIsStored ==
  Careful /\ ~env.others /\ ~env.faults /\ Free = Slots =>
    /\ list = stored
    /\ KeepsDetail => detail = IF selected = Nobody THEN NoDetail ELSE Copy(selected, stored)

\* A request goes to the record its user was looking at, whatever fails and whoever
\* else acts, on the panels that keep a copy only while the user waits for each
\* answer before selecting again (Careful); and on the drops panel no button a
\* single administrator is offered is refused by the lifecycle of the API.
ActsOnWhatIsShown ==
  \A s \in Slots :
    Careful /\ Under(s, {"save"}) /\ request[s].op # "create" =>
      /\ request[s].of = request[s].id
      /\ request[s].stage = "refused" /\ env.page = "drops" =>
           request[s].op = "update" \/ env.others \/ env.faults

\* A listing is sold once for each time it is offered to the public, with
\* administrators acting on stale copies and repeating lost requests.
SoldOncePerOffer == \A i \in Ids : sales[i] <= 1
=============================================================================
