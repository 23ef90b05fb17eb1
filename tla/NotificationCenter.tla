------------------------- MODULE NotificationCenter -------------------------
(***************************************************************************)
(* The page of a user's notifications: the list for the chosen filter and  *)
(* the settings, fetched together whenever the filter changes, with the    *)
(* requests that mark everything read and save the settings.  Answers      *)
(* arrive in any order.                                                    *)
(***************************************************************************)
EXTENDS Naturals

CONSTANTS
  Notices,    \* notifications that may be created
  MaxAsked,   \* bound on the requests of the page
  CenterEnvs  \* [patient, faults]: whether the user waits, whether calls fail

VARIABLES
  manner,   \* the one of CenterEnvs this behaviour is in
  notice,   \* the status of each notification as the API keeps it
  kept,     \* the stored setting
  filter, items, settings,  \* what the page shows; items as [n, status]
  edited,   \* the settings form holds a change that was not sent
  shownFor, \* the filter the shown list was fetched for
  pending,  \* the requests under way
  started   \* how many there have been

centerVars ==
  << manner, notice, kept, filter, items, settings, edited, shownFor, pending, started >>

Filters == {"all", "unread", "read"}
Unknown == "unknown"
Flip(choice) == IF choice = "on" THEN "off" ELSE "on"

Matching(f) ==
  { [n |-> x, status |-> notice[x]] : x \in { y \in Notices :
      notice[y] # "absent" /\ f \in {"all", notice[y]} } }

Request(kind, f, value) ==
  [ n |-> started, kind |-> kind, filter |-> f, value |-> value, done |-> FALSE,
    items |-> {} ]

CenterInit ==
  /\ manner \in CenterEnvs
  /\ notice \in [Notices -> {"absent", "unread", "read"}]
  /\ kept = "off"
  /\ filter = "all" /\ items = {} /\ settings = Unknown /\ edited = FALSE
  /\ shownFor = "none"
  /\ started = 1
  /\ pending = {[ n |-> 0, kind |-> "load", filter |-> "all", value |-> Unknown,
                  done |-> FALSE, items |-> {} ]}

Begin(request, others) ==
  /\ started < MaxAsked
  /\ manner.patient => pending = {}
  /\ started' = started + 1
  /\ pending' = others \cup {request}

\* Mutant: isMounted is not consulted, an answer for an earlier filter is shown.
KeepEarlier == pending

\* The cleanup of the effect: answers for an earlier filter are dropped.
DropEarlier == { p \in pending : p.kind # "load" }

\* A filter button; the effect runs again for another filter only.
ChooseFilter ==
  /\ \E f \in Filters \ {filter} :
       /\ filter' = f
       /\ Begin(Request("load", f, Unknown), DropEarlier)
  /\ UNCHANGED << manner, notice, kept, items, settings, edited, shownFor >>

handleMarkAllRead ==
  /\ Begin(Request("markAll", filter, Unknown), pending)
  /\ UNCHANGED << manner, notice, kept, filter, items, settings, edited, shownFor >>

EditSettings ==
  /\ settings # Unknown
  /\ settings' = Flip(settings)
  /\ edited' = TRUE
  /\ UNCHANGED << manner, notice, kept, filter, items, shownFor, pending, started >>

\* One save at a time.
handleSettingsSubmit ==
  /\ settings # Unknown
  /\ \A p \in pending : p.kind # "save"
  /\ Begin(Request("save", filter, settings), pending)
  /\ edited' = FALSE
  /\ UNCHANGED << manner, notice, kept, filter, items, settings, shownFor >>

-----------------------------------------------------------------------------
(* The API *)

\* markAllRead
AllRead == [x \in Notices |-> IF notice[x] = "unread" THEN "read" ELSE notice[x]]

ServeCenter(p) ==
  /\ ~p.done
  /\ \/ /\ p.kind = "load"
        /\ pending' = (pending \ {p}) \cup
             {[p EXCEPT !.done = TRUE, !.items = Matching(p.filter), !.value = kept]}
        /\ UNCHANGED << notice, kept >>
     \/ /\ p.kind = "markAll"
        /\ notice' = AllRead
        /\ pending' = (pending \ {p}) \cup {[p EXCEPT !.done = TRUE]}
        /\ UNCHANGED kept
     \/ /\ p.kind = "save"
        /\ kept' = p.value
        /\ pending' = (pending \ {p}) \cup {[p EXCEPT !.done = TRUE]}
        /\ UNCHANGED notice
  /\ UNCHANGED << manner, filter, items, settings, edited, shownFor, started >>

NoticeArrives ==
  /\ \E x \in Notices :
       /\ notice[x] = "absent"
       /\ notice' = [notice EXCEPT ![x] = "unread"]
  /\ UNCHANGED << manner, kept, filter, items, settings, edited, shownFor, pending, started >>

RequestFails(p) ==
  /\ manner.faults
  /\ pending' = pending \ {p}
  /\ UNCHANGED << manner, notice, kept, filter, items, settings, edited, shownFor, started >>

-----------------------------------------------------------------------------
(* Answers *)

\* List and settings are both replaced, a change not sent yet included.
ReceiveLoad(p) ==
  /\ p.done /\ p.kind = "load"
  /\ items' = p.items
  /\ shownFor' = p.filter
  /\ settings' = p.value /\ edited' = FALSE
  /\ pending' = pending \ {p}
  /\ UNCHANGED << manner, notice, kept, filter, started >>

ReceiveMarked(p) ==
  /\ p.done /\ p.kind = "markAll"
  /\ items' = { [i EXCEPT !.status = "read"] : i \in items }
  /\ pending' = pending \ {p}
  /\ UNCHANGED << manner, notice, kept, filter, settings, edited, shownFor, started >>

ReceiveSettings(p) ==
  /\ p.done /\ p.kind = "save"
  /\ settings' = p.value /\ edited' = FALSE
  /\ pending' = pending \ {p}
  /\ UNCHANGED << manner, notice, kept, filter, items, shownFor, started >>

CenterNext ==
  \/ ChooseFilter \/ handleMarkAllRead \/ EditSettings \/ handleSettingsSubmit
  \/ NoticeArrives
  \/ \E p \in pending :
       ServeCenter(p) \/ RequestFails(p)
       \/ ReceiveLoad(p) \/ ReceiveMarked(p) \/ ReceiveSettings(p)

CenterSpec == CenterInit /\ [][CenterNext]_centerVars

\* With nothing under way and no failed call, the list is the one of the chosen
\* filter however fast filters are changed; and for a user who waits, every
\* notification has the status that is stored and the settings are the stored
\* ones unless they were edited.
CenterIsCurrent ==
  ~manner.faults /\ pending = {} =>
    /\ shownFor = filter
    /\ manner.patient =>
         /\ \A i \in items : i.status = notice[i.n]
         /\ edited \/ settings = kept
=============================================================================
