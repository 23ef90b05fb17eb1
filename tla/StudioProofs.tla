---------------------------- MODULE StudioProofs ----------------------------
(***************************************************************************)
(* For any number of users, requests and documents: an address has one     *)
(* account, a profile one user, an approved application a designer with a  *)
(* profile, and an attached file one application; an update of a list      *)
(* loses no upload.  None is inductive: a request saves its documents one  *)
(* after the other, from copies it has read before, so each suspended      *)
(* request carries what it has made or seen so far (TaskOK, CopyTask,      *)
(* ApplyTask), and no other step takes that away (Growth, VersionsMove,    *)
(* FilesKept).                                                             *)
(***************************************************************************)
EXTENDS Studio, FiniteSetTheorems, TLAPS

RequestDocs ==
  [status : RequestStatuses, user : Accounts, slug : Slugs, files : SUBSET Files]
DesignDocs ==
  [ status : DesignStatuses, owner : Accounts, main : SUBSET Files,
    previews : SUBSET Files, version : Nat ]

\* What a suspended request holds.
Tasks ==
  {Idle}
  \cup [step : {"create"}, email : Emails]
  \cup [step : {"sign"}, account : Accounts]
  \cup [step : {"look", "apply"}, user : Accounts, files : SUBSET Files, slug : Slugs]
  \cup [step : {"match"}, request : Requests, files : SUBSET Files]
  \cup [step : {"attach"}, request : Requests, files : SUBSET Files, todo : SUBSET Files]
  \cup [step : {"profile", "role", "decide"}, request : Requests, status : ReviewStatuses,
        read : RequestStatuses]
  \cup [step : {"status"}, design : Designs, read : DesignStatuses, status : DesignStatuses]
  \cup [step : {"list"}, design : Designs, main : SUBSET Files, previews : SUBSET Files,
        version : Nat]
  \cup [step : {"store"}, design : Designs, category : {"main", "previews"}]
  \cup [step : {"main", "previews"}, design : Designs, file : Files]

HasProfile(a) == \E p \in profile : p.user = a

\* The documents a task names exist, and an approval has made what precedes it.
TaskOK(t) ==
  /\ t \in Tasks
  /\ t.step \in {"look", "apply"} => t.user \in Known
  /\ t.step \in {"match", "attach", "profile", "role", "decide"} => t.request \in Made(request)
  /\ t.step = "attach" => t.todo \subseteq Uploaded
  /\ t.step \in {"status", "list", "store", "main", "previews"} => t.design \in Made(design)
  /\ t.step = "role" \/ (t.step = "decide" /\ t.status = "approved") =>
       HasProfile(request[t.request].user)
  /\ t.step = "decide" /\ t.status = "approved" =>
       account[request[t.request].user].role = "designer"

DocsOK ==
  /\ TypeOK
  /\ \A r \in Made(request) : request[r].user \in Known
  /\ OneOfEach
  /\ ApprovedHasProfile

IInv == DocsOK /\ task \in [Workers -> Tasks] /\ \A w \in Workers : TaskOK(task[w])

\* No step takes away what a task relies on.
Growth ==
  /\ Known \subseteq Known'
  /\ \A a \in Known : account[a].role = "designer" => account'[a].role = "designer"
  /\ Made(request) \subseteq Made(request)'
  /\ \A r \in Made(request) : request'[r].user = request[r].user
  /\ Made(design) \subseteq Made(design)'
  /\ Uploaded \subseteq Uploaded'
  /\ profile \subseteq profile'

-----------------------------------------------------------------------------
(* What the steps have in common *)

LEMMA KnownAccount ==
  ASSUME TypeOK, NEW a \in Known
  PROVE  a \in Accounts /\ account[a] \in User
BY DEF TypeOK, Known, NoAccount

LEMMA MadeRequest ==
  ASSUME TypeOK, NEW r \in Made(request)
  PROVE  r \in Requests /\ request[r] \in RequestDocs
BY DEF TypeOK, Made, Absent, RequestDocs

LEMMA MadeDesign ==
  ASSUME TypeOK, NEW d \in Made(design)
  PROVE  d \in Designs /\ design[d] \in DesignDocs
BY DEF TypeOK, Made, Absent, DesignDocs

LEMMA Stable ==
  ASSUME IInv, Growth, NEW t, TaskOK(t)
  PROVE  TaskOK(t)'
<1>1. ASSUME t.step \in {"match", "attach", "profile", "role", "decide"}
      PROVE  /\ t.request \in Made(request)
             /\ request'[t.request].user = request[t.request].user
             /\ request[t.request].user \in Known
  BY <1>1 DEF TaskOK, Growth, IInv, DocsOK
<1>2. \A a : HasProfile(a) => HasProfile(a)'
  BY DEF HasProfile, Growth
<1> QED
  BY <1>1, <1>2 DEF TaskOK, Growth

\* A step that works on a task.
LEMMA Works ==
  ASSUME IInv, DocsOK', Growth, NEW w \in Workers, NEW t, TaskOK(t)', Hold(w, t)
  PROVE  IInv'
<1>1. t \in Tasks
  BY DEF TaskOK
<1>2. /\ task' \in [Workers -> Tasks]
      /\ task'[w] = t
      /\ \A v \in Workers : v # w => task'[v] = task[v]
  BY <1>1 DEF Hold, IInv
<1>3. ASSUME NEW v \in Workers
      PROVE  TaskOK(task[v])'
  <2>1. PICK s : s = task'[v]
    OBVIOUS
  <2>2. TaskOK(s)'
    <3>1. CASE v = w
      BY <1>2, <2>1, <3>1
    <3>2. CASE v # w
      <4>1. TaskOK(s)
        BY <1>2, <2>1, <3>2 DEF IInv
      <4> QED
        BY <4>1, Stable
    <3> QED
      BY <3>1, <3>2
  <2> QED
    BY <2>1, <2>2 DEF TaskOK
<1> QED
  BY <1>2, <1>3 DEF IInv

\* A step that works on none.
LEMMA Rests ==
  ASSUME IInv, DocsOK', Growth, UNCHANGED task
  PROVE  IInv'
<1>1. ASSUME NEW v \in Workers
      PROVE  TaskOK(task[v])'
  <2>1. PICK s : s = task[v]
    OBVIOUS
  <2>2. TaskOK(s)'
    BY <2>1, Stable DEF IInv
  <2> QED
    BY <2>1, <2>2 DEF TaskOK
<1> QED
  BY <1>1 DEF IInv

\* A step that changes files and designs, or nothing.
LEMMA OtherDocs ==
  ASSUME IInv, UNCHANGED << account, session, profile, request >>,
         file' \in [Files -> {NoFile} \cup [owner : Accounts, of : Owners]],
         design' \in [Designs -> {Absent} \cup DesignDocs],
         Made(design) \subseteq Made(design)', Uploaded \subseteq Uploaded'
  PROVE  DocsOK' /\ Growth
<1>1. Known' = Known /\ Made(request)' = Made(request)
  BY DEF Known, Made
<1>2. TypeOK'
  BY DEF IInv, DocsOK, TypeOK, DesignDocs
<1>3. OneOfEach' /\ ApprovedHasProfile'
  BY <1>1 DEF IInv, DocsOK, OneOfEach, ApprovedHasProfile
<1> QED
  BY <1>1, <1>2, <1>3 DEF IInv, DocsOK, Growth

\* A step that only moves a task on.
LEMMA Moves ==
  ASSUME IInv, UNCHANGED << account, session, docs >>, NEW w \in Workers, NEW t, TaskOK(t),
         Hold(w, t)
  PROVE  IInv'
<1>1. DocsOK' /\ Growth
  <2>1. /\ file' \in [Files -> {NoFile} \cup [owner : Accounts, of : Owners]]
        /\ design' \in [Designs -> {Absent} \cup DesignDocs]
        /\ Made(design) \subseteq Made(design)'
        /\ Uploaded \subseteq Uploaded'
    BY DEF docs, IInv, DocsOK, TypeOK, DesignDocs, Made, Uploaded
  <2> QED
    BY <2>1, OtherDocs DEF docs
<1>2. TaskOK(t)'
  BY <1>1, Stable
<1> QED
  BY <1>1, <1>2, Works

LEMMA IdleOK == TaskOK(Idle)
BY DEF TaskOK, Idle, Tasks

LEMMA IdleStaysOK == TaskOK(Idle)'
BY DEF TaskOK, Idle, Tasks

-----------------------------------------------------------------------------
LEMMA InitIInv == Init => IInv
<1> SUFFICES ASSUME Init PROVE IInv
  OBVIOUS
<1>1. /\ account \in [Accounts -> User \cup {NoAccount}]
      /\ \A a, b \in Accounts :
           account[a] # NoAccount /\ account[b] # NoAccount /\ account[a].email = account[b].email
             => a = b
  BY EnvsAssumption, UsersAssumption DEF Init, AccountsInit
<1>2. /\ Made(request) = {}
      /\ Made(design) = {}
      /\ \A a \in Known : a \in Accounts /\ account[a] # NoAccount
  BY <1>1 DEF Init, Made, Absent, Known, NoAccount
<1>3. DocsOK
  BY <1>1, <1>2 DEF Init, AccountsInit, DocsOK, TypeOK, OneOfEach, ApprovedHasProfile, Absent,
     NoFile
<1>4. \A w \in Workers : task[w] = Idle
  BY DEF Init, AccountsInit
<1> QED
  BY <1>3, <1>4, IdleOK DEF Init, AccountsInit, IInv, TaskOK

-----------------------------------------------------------------------------
(* Accounts *)

\* The look at the unique index and the insertion are one call.
LEMMA RegisterStep ==
  ASSUME IInv, NEW w \in Workers, RegisterCreate(w), UNCHANGED docs
  PROVE  IInv'
<1>1. task[w] \in Tasks /\ task[w].step = "create"
  BY DEF RegisterCreate, At, IInv
<1>2. task[w].email \in Emails
  BY <1>1 DEF Tasks, Idle
<1>3. /\ Hold(w, Idle)
      /\ UNCHANGED << session, docs >>
  BY DEF RegisterCreate, Finish
<1>4. CASE UNCHANGED account
  BY <1>3, <1>4, IdleOK, Moves
<1>5. CASE \E a \in Accounts \ Known :
             /\ \A b \in Known : account[b].email # task[w].email
             /\ account' = [account EXCEPT ![a] =
                  [status |-> "active", email |-> task[w].email, role |-> "user"]]
  <2>1. PICK a \in Accounts \ Known :
             /\ \A b \in Known : account[b].email # task[w].email
             /\ account' = [account EXCEPT ![a] =
                  [status |-> "active", email |-> task[w].email, role |-> "user"]]
    BY <1>5
  <2>2. /\ account' \in [Accounts -> User \cup {NoAccount}]
        /\ account'[a] = [status |-> "active", email |-> task[w].email, role |-> "user"]
        /\ \A b \in Accounts : b # a => account'[b] = account[b]
    BY <1>2, <2>1 DEF IInv, DocsOK, TypeOK, User, Roles
  <2>3. Known' = Known \cup {a}
    BY <2>1, <2>2 DEF Known
  <2>4. OneOfEach'
    BY <1>3, <2>1, <2>2, <2>3 DEF IInv, DocsOK, OneOfEach, docs, Known
  <2>5. /\ Made(request)' = Made(request)
        /\ Made(design)' = Made(design)
        /\ \A b \in Known : account'[b] = account[b]
    BY <1>3, <2>1, <2>2 DEF docs, Made, Known
  <2>6. TypeOK'
    BY <1>3, <2>2 DEF IInv, DocsOK, TypeOK, docs
  <2>7. ApprovedHasProfile'
    BY <1>3, <2>5 DEF IInv, DocsOK, ApprovedHasProfile, docs
  <2>8. DocsOK' /\ Growth
    BY <1>3, <2>3, <2>4, <2>5, <2>6, <2>7 DEF IInv, DocsOK, Growth, docs, Uploaded
  <2> QED
    BY <1>3, <2>8, IdleStaysOK, Works
<1> QED
  BY <1>4, <1>5 DEF RegisterCreate

\* Sessions, and the status of an account.
LEMMA SessionStep ==
  ASSUME IInv, UNCHANGED docs,
         \/ \E w \in Workers : LoginSign(w)
         \/ \E a \in Accounts : Logout(a) \/ Block(a)
  PROVE  IInv'
<1>1. ASSUME account' \in [Accounts -> User \cup {NoAccount}], session' \subseteq Accounts,
             Known' = Known,
             \A a \in Known : /\ account'[a].email = account[a].email
                              /\ account'[a].role = account[a].role
      PROVE  DocsOK' /\ Growth
  <2>1. Made(request)' = Made(request) /\ Made(design)' = Made(design)
    BY DEF docs, Made
  <2>2. TypeOK'
    BY <1>1 DEF IInv, DocsOK, TypeOK, docs
  <2>3. OneOfEach' /\ ApprovedHasProfile'
    BY <1>1, <2>1 DEF IInv, DocsOK, OneOfEach, ApprovedHasProfile, docs
  <2> QED
    BY <1>1, <2>1, <2>2, <2>3 DEF IInv, DocsOK, Growth, docs, Uploaded
<1>2. ASSUME NEW w \in Workers, LoginSign(w)
      PROVE  IInv'
  <2>1. task[w] \in Tasks /\ task[w].step = "sign"
    BY <1>2 DEF LoginSign, At, IInv
  <2>2. task[w].account \in Accounts
    BY <2>1 DEF Tasks, Idle
  <2>3. session' \subseteq Accounts
    BY <1>2, <2>2 DEF LoginSign, IInv, DocsOK, TypeOK
  <2>4. /\ account' \in [Accounts -> User \cup {NoAccount}]
        /\ account' = account
        /\ Known' = Known
    BY <1>2 DEF LoginSign, Known, IInv, DocsOK, TypeOK
  <2>5. DocsOK' /\ Growth
    BY <1>1, <2>3, <2>4
  <2> QED
    BY <1>2, <2>5, IdleStaysOK, Works DEF LoginSign, Finish
<1>3. ASSUME NEW a \in Accounts, Logout(a)
      PROVE  IInv'
  <2>1. /\ session' \subseteq Accounts
        /\ account' \in [Accounts -> User \cup {NoAccount}]
        /\ account' = account
        /\ Known' = Known
    BY <1>3 DEF Logout, Known, IInv, DocsOK, TypeOK
  <2> QED
    BY <1>1, <1>3, <2>1, Rests DEF Logout
<1>4. ASSUME NEW a \in Accounts, Block(a)
      PROVE  IInv'
  <2>1. a \in Known /\ account[a] \in User
    BY <1>4 DEF Block, Known, NoAccount, IInv, DocsOK, TypeOK
  <2>2. /\ account' \in [Accounts -> User \cup {NoAccount}]
        /\ \A b \in Accounts : b # a => account'[b] = account[b]
        /\ account'[a].status = "blocked"
        /\ account'[a].email = account[a].email
        /\ account'[a].role = account[a].role
    BY <1>4, <2>1 DEF Block, IInv, DocsOK, TypeOK, User
  <2>3. /\ session' \subseteq Accounts
        /\ Known' = Known
    BY <1>4, <2>1, <2>2 DEF Block, Known, IInv, DocsOK, TypeOK
  <2>4. \A b \in Known : /\ account'[b].email = account[b].email
                         /\ account'[b].role = account[b].role
    BY <2>2 DEF Known
  <2> QED
    BY <1>1, <1>4, <2>2, <2>3, <2>4, Rests DEF Block
<1> QED
  BY <1>2, <1>3, <1>4

LEMMA AccountStep ==
  ASSUME IInv, AccountActions, UNCHANGED docs
  PROVE  IInv'
<1>1. ASSUME NEW w \in Workers, RegisterFind(w)
      PROVE  IInv'
  <2>1. PICK e \in Emails : Hold(w, [step |-> "create", email |-> e])
    BY <1>1 DEF RegisterFind
  <2>2. PICK t : t = [step |-> "create", email |-> e]
    OBVIOUS
  <2>3. TaskOK(t) /\ Hold(w, t)
    BY <2>1, <2>2 DEF TaskOK, Tasks
  <2> QED
    BY <1>1, <2>3, Moves DEF RegisterFind
<1>2. ASSUME NEW w \in Workers, LoginFind(w)
      PROVE  IInv'
  <2>1. PICK a \in Known : Hold(w, [step |-> "sign", account |-> a])
    BY <1>2 DEF LoginFind
  <2>2. PICK t : t = [step |-> "sign", account |-> a]
    OBVIOUS
  <2>3. TaskOK(t) /\ Hold(w, t)
    BY <2>1, <2>2 DEF TaskOK, Tasks, Known
  <2> QED
    BY <1>2, <2>3, Moves DEF LoginFind
<1>3. ASSUME NEW w \in Workers, Fail(w)
      PROVE  IInv'
  BY <1>3, IdleOK, Moves DEF Fail, Finish
<1> QED
  BY <1>1, <1>2, <1>3, RegisterStep, SessionStep DEF AccountActions

-----------------------------------------------------------------------------
(* Applications *)

\* The steps of an application that change no document but a file's owner.
LEMMA ApplyMoves ==
  ASSUME IInv, NEW w \in Workers, ApplyStart(w) \/ ApplyLook(w) \/ AttachFind(w)
  PROVE  IInv'
<1>1. CASE ApplyStart(w)
  <2>1. PICK a \in Accounts, S \in SUBSET Uploaded, slug \in Slugs :
          /\ a \in Known
          /\ Hold(w, [step |-> "look", user |-> a, files |-> S, slug |-> slug])
    BY <1>1 DEF ApplyStart, Admitted
  <2>2. PICK t : t = [step |-> "look", user |-> a, files |-> S, slug |-> slug]
    OBVIOUS
  <2>3. TaskOK(t)
    BY <2>1, <2>2 DEF TaskOK, Tasks, Uploaded
  <2> QED
    BY <1>1, <2>1, <2>2, <2>3, Moves DEF ApplyStart, same
<1>2. CASE ApplyLook(w)
  <2>1. TaskOK(task[w]) /\ task[w].step = "look"
    BY <1>2 DEF ApplyLook, At, IInv
  <2>2. PICK t : t = [task[w] EXCEPT !.step = "apply"]
    OBVIOUS
  <2>3. TaskOK(t)
    BY <2>1, <2>2 DEF TaskOK, Tasks, Idle
  <2>4. Hold(w, Idle) \/ Hold(w, t)
    BY <1>2, <2>2 DEF ApplyLook, Finish, Go
  <2> QED
    BY <1>2, <2>3, <2>4, IdleOK, Moves DEF ApplyLook, same
<1>3. CASE AttachFind(w)
  <2>1. TaskOK(task[w]) /\ task[w].step = "match"
    BY <1>3 DEF AttachFind, At, IInv
  <2> DEFINE a == request[task[w].request].user
  <2>2. CASE \A f \in task[w].files : CanAttach(f, a)
    <3>1. PICK t : t = [ step |-> "attach", request |-> task[w].request,
                         files |-> task[w].files, todo |-> task[w].files ]
      OBVIOUS
    <3>2. TaskOK(t)
      BY <2>1, <2>2, <3>1 DEF TaskOK, Tasks, Idle, CanAttach
    <3> QED
      BY <1>3, <2>2, <3>1, <3>2, Moves DEF AttachFind, same
  <2>3. CASE ~\A f \in task[w].files : CanAttach(f, a)
    BY <1>3, <2>3, IdleOK, Moves DEF AttachFind, Finish, same
  <2> QED
    BY <2>2, <2>3
<1> QED
  BY <1>1, <1>2, <1>3

\* The files of an application.
LEMMA ApplyFiles ==
  ASSUME IInv, NEW w \in Workers, UploadPending(w) \/ AttachSave(w)
  PROVE  IInv'
<1>1. design' \in [Designs -> {Absent} \cup DesignDocs] /\ Made(design) \subseteq Made(design)'
  BY DEF UploadPending, AttachSave, IInv, DocsOK, TypeOK, DesignDocs, Made
<1>2. CASE UploadPending(w)
  <2>1. /\ file' \in [Files -> {NoFile} \cup [owner : Accounts, of : Owners]]
        /\ Uploaded \subseteq Uploaded'
    BY <1>2 DEF UploadPending, IInv, DocsOK, TypeOK, Owners, Uploaded
  <2>2. DocsOK' /\ Growth
    BY <1>1, <1>2, <2>1, OtherDocs DEF UploadPending, same
  <2> QED
    BY <1>2, <2>2, Rests DEF UploadPending
<1>3. CASE AttachSave(w)
  <2>1. TaskOK(task[w]) /\ task[w].step = "attach"
    BY <1>3 DEF AttachSave, At, IInv
  <2>2. PICK f \in task[w].todo :
          /\ file' = [file EXCEPT ![f].of = task[w].request]
          /\ Hold(w, [task[w] EXCEPT !.todo = @ \ {f}])
    BY <1>3 DEF AttachSave
  <2>3. /\ task[w].request \in Requests
        /\ task[w] \in [step : {"attach"}, request : Requests, files : SUBSET Files,
                        todo : SUBSET Files]
    BY <2>1 DEF TaskOK, Tasks, Idle
  <2>4. PICK t : t = [task[w] EXCEPT !.todo = @ \ {f}]
    OBVIOUS
  <2>5. t.step = "attach" /\ t.request = task[w].request /\ t \in Tasks
    BY <2>3, <2>4 DEF Tasks
  <2>6. TaskOK(t)
    BY <2>1, <2>4, <2>5 DEF TaskOK
  <2>7. f \in Files /\ file[f] \in [owner : Accounts, of : Owners]
    BY <2>1, <2>2 DEF TaskOK, Uploaded, IInv, DocsOK, TypeOK
  <2>8. /\ file' \in [Files -> {NoFile} \cup [owner : Accounts, of : Owners]]
        /\ file'[f].owner \in Accounts
        /\ \A g \in Files : g # f => file'[g] = file[g]
    BY <2>2, <2>3, <2>7 DEF IInv, DocsOK, TypeOK, Owners
  <2>9. Uploaded \subseteq Uploaded'
    BY <2>7, <2>8, NoneAssumption DEF Uploaded, NoFile
  <2>10. DocsOK' /\ Growth
    BY <1>1, <1>3, <2>8, <2>9, OtherDocs DEF AttachSave, same
  <2> QED
    BY <2>2, <2>4, <2>6, <2>10, Stable, Works
<1> QED
  BY <1>2, <1>3

\* The application documents: a new one, and its files.
LEMMA ApplyDocs ==
  ASSUME IInv, NEW w \in Workers, ApplyCreate(w) \/ ApplyLink(w)
  PROVE  IInv'
<1>1. CASE ApplyCreate(w)
  <2>1. TaskOK(task[w]) /\ task[w].step = "apply"
    BY <1>1 DEF ApplyCreate, At, IInv
  <2>2. /\ task[w].user \in Known
        /\ task[w].slug \in Slugs
        /\ task[w].files \subseteq Files
    BY <2>1 DEF TaskOK, Tasks, Idle
  <2>3. PICK r \in Requests \ Made(request) :
          /\ request' = [request EXCEPT ![r] =
               [ status |-> "submitted", user |-> task[w].user, slug |-> task[w].slug,
                 files |-> {} ]]
          /\ Hold(w, [step |-> "match", request |-> r, files |-> task[w].files])
    BY <1>1 DEF ApplyCreate
  <2>4. /\ request' \in [Requests -> {Absent} \cup RequestDocs]
        /\ request'[r].status = "submitted"
        /\ request'[r].user = task[w].user
        /\ \A q \in Requests : q # r => request'[q] = request[q]
    BY <2>2, <2>3 DEF IInv, DocsOK, TypeOK, RequestDocs, RequestStatuses, Known
  <2>5. Made(request)' = Made(request) \cup {r}
    BY <2>3, <2>4 DEF Made, IInv, DocsOK, TypeOK
  <2>6. /\ UNCHANGED << account, session, profile, file, design >>
        /\ Known' = Known /\ Made(design)' = Made(design) /\ Uploaded' = Uploaded
    BY <1>1 DEF ApplyCreate, same, Known, Made, Uploaded
  <2>7. TypeOK'
    BY <2>4, <2>6 DEF IInv, DocsOK, TypeOK, RequestDocs
  <2>8. \A q \in Made(request) : request'[q] = request[q]
    BY <2>3, <2>4 DEF Made, IInv, DocsOK, TypeOK
  <2>9. OneOfEach' /\ ApprovedHasProfile'
    BY <2>4, <2>5, <2>6, <2>8 DEF IInv, DocsOK, OneOfEach, ApprovedHasProfile
  <2>10. DocsOK' /\ Growth
    BY <2>2, <2>4, <2>5, <2>6, <2>7, <2>8, <2>9 DEF IInv, DocsOK, Growth
  <2>11. PICK t : t = [step |-> "match", request |-> r, files |-> task[w].files]
    OBVIOUS
  <2>12. TaskOK(t)'
    BY <2>2, <2>3, <2>5, <2>11 DEF TaskOK, Tasks
  <2> QED
    BY <2>3, <2>10, <2>11, <2>12, Works
<1>2. CASE ApplyLink(w)
  <2>1. TaskOK(task[w]) /\ task[w].step = "attach"
    BY <1>2 DEF ApplyLink, At, IInv
  <2>2. task[w].request \in Made(request) /\ task[w].files \subseteq Files
    BY <2>1 DEF TaskOK, Tasks, Idle
  <2>3. request' = [request EXCEPT ![task[w].request].files = task[w].files]
    BY <1>2 DEF ApplyLink
  <2>4. request[task[w].request] \in RequestDocs /\ task[w].request \in Requests
    BY <2>2, MadeRequest DEF IInv, DocsOK
  <2>5. /\ request' \in [Requests -> {Absent} \cup RequestDocs]
        /\ \A q \in Requests : /\ request'[q].status = request[q].status
                               /\ request'[q].user = request[q].user
    BY <2>2, <2>3, <2>4 DEF IInv, DocsOK, TypeOK, RequestDocs
  <2>6. Made(request)' = Made(request) /\ Made(request) \subseteq Requests
    BY <2>5 DEF Made, IInv, DocsOK, TypeOK
  <2>7. /\ UNCHANGED << account, session, profile, file, design >>
        /\ Known' = Known /\ Made(design)' = Made(design) /\ Uploaded' = Uploaded
    BY <1>2 DEF ApplyLink, same, Known, Made, Uploaded
  <2>8. TypeOK'
    BY <2>5, <2>7 DEF IInv, DocsOK, TypeOK, RequestDocs
  <2>9. OneOfEach' /\ ApprovedHasProfile'
    BY <2>5, <2>6, <2>7 DEF IInv, DocsOK, OneOfEach, ApprovedHasProfile
  <2>10. DocsOK' /\ Growth
    BY <2>5, <2>6, <2>7, <2>8, <2>9 DEF IInv, DocsOK, Growth
  <2> QED
    BY <1>2, <2>10, IdleStaysOK, Works DEF ApplyLink, Finish
<1> QED
  BY <1>1, <1>2

-----------------------------------------------------------------------------
(* Reviews: profile, role and decision are saved one after the other *)

LEMMA ReviewStart ==
  ASSUME IInv, NEW w \in Workers, ReviewRead(w)
  PROVE  IInv'
<1>1. PICK r \in Made(request), s \in ReviewStatuses :
        Hold(w, [ request |-> r, status |-> s, read |-> request[r].status,
                  step |-> IF s = "approved" THEN "profile" ELSE "decide" ])
  BY DEF ReviewRead
<1>2. PICK t : t = [ request |-> r, status |-> s, read |-> request[r].status,
                     step |-> IF s = "approved" THEN "profile" ELSE "decide" ]
  OBVIOUS
<1>3. r \in Requests /\ request[r].status \in RequestStatuses
  BY MadeRequest DEF IInv, DocsOK, RequestDocs
<1>4. t \in Tasks
  <2>1. t \in [step : {"profile", "role", "decide"}, request : Requests,
               status : ReviewStatuses, read : RequestStatuses]
    BY <1>2, <1>3
  <2> QED
    BY <2>1 DEF Tasks
<1>5. TaskOK(t)
  BY <1>2, <1>4 DEF TaskOK
<1> QED
  BY <1>1, <1>2, <1>5, Moves DEF ReviewRead, same

\* What a suspended review holds.
LEMMA ReviewTask ==
  ASSUME IInv, NEW w \in Workers, task[w].step \in {"profile", "role", "decide"}
  PROVE  /\ task[w] \in [step : {"profile", "role", "decide"}, request : Requests,
                         status : ReviewStatuses, read : RequestStatuses]
         /\ task[w].request \in Made(request)
         /\ request[task[w].request] \in RequestDocs
         /\ request[task[w].request].user \in Known
<1>1. task[w] \in Tasks /\ task[w].request \in Made(request)
  BY DEF IInv, TaskOK
<1>2. task[w] \in [step : {"profile", "role", "decide"}, request : Requests,
                   status : ReviewStatuses, read : RequestStatuses]
  BY <1>1 DEF Tasks, Idle
<1> QED
  BY <1>1, <1>2, MadeRequest DEF IInv, DocsOK

\* The unique indexes refuse a second profile of the user or the slug.
LEMMA ProfileStep ==
  ASSUME IInv, NEW w \in Workers, ApproveProfile(w)
  PROVE  IInv'
<1> DEFINE r == request[task[w].request]
<1>1. TaskOK(task[w]) /\ task[w].step = "profile"
  BY DEF ApproveProfile, At, IInv
<1>2. r \in RequestDocs /\ r.user \in Known /\ r.user \in Accounts /\ r.slug \in Slugs
  BY <1>1, ReviewTask DEF RequestDocs
<1>3. CASE \E p \in profile : p.user = r.user \/ p.slug = r.slug
  BY <1>3, IdleOK, Moves DEF ApproveProfile, Finish, same, docs
<1>4. CASE ~\E p \in profile : p.user = r.user \/ p.slug = r.slug
  <2>1. /\ profile' = profile \cup {[user |-> r.user, slug |-> r.slug]}
        /\ Hold(w, [task[w] EXCEPT !.step = "role"])
        /\ UNCHANGED << account, session, request, file, design >>
    BY <1>4 DEF ApproveProfile, Go, same
  <2>2. /\ Known' = Known
        /\ Made(request)' = Made(request)
        /\ Made(design)' = Made(design)
        /\ Uploaded' = Uploaded
    BY <2>1 DEF Known, Made, Uploaded
  <2>3. TypeOK'
    BY <1>2, <2>1 DEF IInv, DocsOK, TypeOK
  <2>4. OneOfEach'
    <3>1. \A p, q \in profile' : p.user = q.user \/ p.slug = q.slug => p = q
      BY <1>4, <2>1 DEF IInv, DocsOK, OneOfEach
    <3> QED
      BY <2>1, <2>2, <3>1 DEF IInv, DocsOK, OneOfEach
  <2>5. ApprovedHasProfile'
    BY <2>1, <2>2 DEF IInv, DocsOK, ApprovedHasProfile
  <2>6. DocsOK' /\ Growth
    <3>1. DocsOK'
      BY <2>1, <2>2, <2>3, <2>4, <2>5 DEF IInv, DocsOK
    <3>2. Growth
      BY <2>1, <2>2 DEF Growth
    <3> QED
      BY <3>1, <3>2
  <2>7. PICK t : t = [task[w] EXCEPT !.step = "role"]
    OBVIOUS
  <2>8. /\ t.step = "role" /\ t.request = task[w].request
        /\ t \in Tasks
    BY <1>1, <2>7, ReviewTask DEF Tasks
  <2>9. HasProfile(request[t.request].user)'
    <3>1. PICK p : p = [user |-> r.user, slug |-> r.slug]
      OBVIOUS
    <3>2. p \in profile' /\ p.user = request'[t.request].user
      BY <2>1, <2>8, <3>1
    <3> QED
      BY <3>2 DEF HasProfile
  <2>10. TaskOK(t)'
    BY <1>1, <2>2, <2>8, <2>9 DEF TaskOK
  <2> QED
    BY <2>1, <2>6, <2>7, <2>10, Works
<1> QED
  BY <1>3, <1>4

\* The user becomes a designer; nothing makes a designer a user again.
LEMMA RoleStep ==
  ASSUME IInv, NEW w \in Workers, ApproveRole(w)
  PROVE  IInv'
<1> DEFINE a == request[task[w].request].user
<1>1. TaskOK(task[w]) /\ task[w].step = "role"
  BY DEF ApproveRole, At, IInv
<1>2. a \in Known /\ a \in Accounts /\ account[a] \in User
  BY <1>1, ReviewTask, KnownAccount DEF IInv, DocsOK
<1>3. /\ account' = [account EXCEPT ![a].role = "designer"]
      /\ Hold(w, [task[w] EXCEPT !.step = "decide"])
      /\ UNCHANGED << session, profile, request, file, design >>
  BY DEF ApproveRole, Go, docs
<1>4. /\ account' \in [Accounts -> User \cup {NoAccount}]
      /\ account'[a].role = "designer"
      /\ account'[a].status = account[a].status
      /\ account'[a].email = account[a].email
      /\ \A b \in Accounts : b # a => account'[b] = account[b]
  BY <1>2, <1>3 DEF IInv, DocsOK, TypeOK, User, Roles
<1>5. /\ Known' = Known
      /\ Made(request)' = Made(request)
      /\ Made(design)' = Made(design)
      /\ Uploaded' = Uploaded
  BY <1>2, <1>3, <1>4 DEF Known, Made, Uploaded
<1>6. \A b \in Known : /\ account'[b].email = account[b].email
                       /\ account[b].role = "designer" => account'[b].role = "designer"
  BY <1>4 DEF Known
<1>7. TypeOK'
  BY <1>3, <1>4 DEF IInv, DocsOK, TypeOK
<1>8. OneOfEach'
  BY <1>3, <1>5, <1>6 DEF IInv, DocsOK, OneOfEach
<1>9. ApprovedHasProfile'
  BY <1>3, <1>5, <1>6 DEF IInv, DocsOK, ApprovedHasProfile
<1>10. DocsOK' /\ Growth
  BY <1>3, <1>5, <1>6, <1>7, <1>8, <1>9 DEF IInv, DocsOK, Growth
<1>11. PICK t : t = [task[w] EXCEPT !.step = "decide"]
  OBVIOUS
<1>12. t.step = "decide" /\ t.request = task[w].request /\ t \in Tasks
  BY <1>1, <1>11, ReviewTask DEF Tasks
<1>13. request'[t.request].user = a
  BY <1>3, <1>12
<1>14. HasProfile(request[t.request].user)'
  BY <1>1, <1>3, <1>12, <1>13 DEF TaskOK, HasProfile
<1>15. TaskOK(t)'
  BY <1>1, <1>4, <1>5, <1>12, <1>13, <1>14 DEF TaskOK
<1> QED
  BY <1>3, <1>10, <1>11, <1>15, Works

\* The decision is saved when what it claims has been made.
LEMMA DecideStep ==
  ASSUME IInv, NEW w \in Workers, ReviewDecide(w)
  PROVE  IInv'
<1> DEFINE q == task[w].request
<1>1. TaskOK(task[w]) /\ task[w].step = "decide"
  BY DEF ReviewDecide, At, IInv
<1>2. /\ q \in Requests /\ q \in Made(request)
      /\ request[q] \in RequestDocs
      /\ task[w].status \in ReviewStatuses
  BY <1>1, ReviewTask
<1>3. /\ request' = [request EXCEPT ![q].status =
           IF task[w].status # task[w].read THEN task[w].status ELSE @]
      /\ Hold(w, Idle)
      /\ UNCHANGED << account, session, profile, file, design >>
  BY DEF ReviewDecide, Finish, same
<1>4. /\ request' \in [Requests -> {Absent} \cup RequestDocs]
      /\ request'[q].status \in {task[w].status, request[q].status}
      /\ \A r \in Requests : /\ request'[r].user = request[r].user
                             /\ r # q => request'[r] = request[r]
  BY <1>2, <1>3 DEF IInv, DocsOK, TypeOK, RequestDocs, RequestStatuses, ReviewStatuses
<1>5. /\ Known' = Known
      /\ Made(request)' = Made(request)
      /\ Made(design)' = Made(design)
      /\ Uploaded' = Uploaded
  BY <1>2, <1>3, <1>4 DEF Known, Made, Uploaded, ReviewStatuses, RequestDocs, RequestStatuses,
     IInv, DocsOK, TypeOK
<1>6. TypeOK'
  BY <1>3, <1>4 DEF IInv, DocsOK, TypeOK, RequestDocs
<1>7. OneOfEach'
  BY <1>3, <1>5 DEF IInv, DocsOK, OneOfEach
<1>8. ApprovedHasProfile'
  <2> SUFFICES ASSUME NEW r \in Made(request), request'[r].status = "approved"
               PROVE  account[request[r].user].role = "designer" /\ HasProfile(request[r].user)
    BY <1>3, <1>4, <1>5, MadeRequest DEF ApprovedHasProfile, HasProfile, IInv, DocsOK
  <2>1. CASE request[r].status = "approved"
    BY <2>1 DEF IInv, DocsOK, ApprovedHasProfile, HasProfile
  <2>2. CASE request[r].status # "approved"
    <3>1. r \in Requests
      BY MadeRequest DEF IInv, DocsOK
    <3>2. r = q /\ task[w].status = "approved"
      BY <1>4, <2>2, <3>1
    <3> QED
      BY <1>1, <3>2 DEF TaskOK
  <2> QED
    BY <2>1, <2>2
<1>9. \A r \in Made(request) : request'[r].user = request[r].user
  BY <1>4, MadeRequest DEF IInv, DocsOK
<1>10. DocsOK'
  BY <1>5, <1>6, <1>7, <1>8, <1>9 DEF IInv, DocsOK
<1>11. Growth
  BY <1>3, <1>5, <1>9 DEF Growth
<1> QED
  BY <1>3, <1>10, <1>11, IdleStaysOK, Works

-----------------------------------------------------------------------------
(* Designs *)

\* A step that creates, uploads, submits, judges or saves a design leaves
\* applications, profiles and accounts alone.
LEMMA DesignMoves ==
  ASSUME IInv, NEW w \in Workers,
         SubmitRead(w) \/ JudgeRead(w) \/ UpdateRead(w) \/ UploadRead(w)
  PROVE  IInv'
<1>1. UNCHANGED << account, session, docs >>
  BY DEF SubmitRead, JudgeRead, UpdateRead, UploadRead, same
<1>2. PICK d \in Made(design) : \E t :
        /\ Hold(w, t)
        /\ \/ \E s \in DesignStatuses :
                t = [step |-> "status", design |-> d, read |-> design[d].status, status |-> s]
           \/ t = [ step |-> "list", design |-> d, main |-> design[d].main,
                     previews |-> design[d].previews, version |-> design[d].version ]
           \/ \E category \in {"main", "previews"} :
                t = [step |-> "store", design |-> d, category |-> category]
  BY DEF SubmitRead, JudgeRead, UpdateRead, UploadRead, Opens, ReviewStatuses, DesignStatuses
<1>3. PICK t :
        /\ Hold(w, t)
        /\ \/ \E s \in DesignStatuses :
                t = [step |-> "status", design |-> d, read |-> design[d].status, status |-> s]
           \/ t = [ step |-> "list", design |-> d, main |-> design[d].main,
                     previews |-> design[d].previews, version |-> design[d].version ]
           \/ \E category \in {"main", "previews"} :
                t = [step |-> "store", design |-> d, category |-> category]
  BY <1>2
<1>4. d \in Designs /\ design[d] \in DesignDocs
  BY MadeDesign DEF IInv, DocsOK
<1>5. t \in Tasks /\ t.step \in {"status", "list", "store"} /\ t.design = d
  BY <1>3, <1>4 DEF Tasks, DesignDocs
<1>6. TaskOK(t)
  BY <1>5 DEF TaskOK
<1> QED
  BY <1>1, <1>3, <1>6, Moves

\* What a save makes of a design: its list changes only with its version.
Follows(d, x) ==
  /\ x \in DesignDocs
  /\ x.owner = design[d].owner
  /\ \/ x.version = design[d].version /\ x.previews = design[d].previews
     \/ x.version = design[d].version + 1

\* An update saves its list only when the version is the one it has read.
LEMMA UpdateSaves ==
  ASSUME IInv, NEW w \in Workers, UpdateSave(w), NEW d \in Designs, d = task[w].design,
         design[d] \in DesignDocs
  PROVE  \E x : /\ design' = [design EXCEPT ![d] = x]
                /\ Follows(d, x)
                /\ x.version # design[d].version => task[w].version = design[d].version
<1> DEFINE t == task[w]
           refused == design[d].version # t.version
<1>0. design \in [Designs -> {Absent} \cup DesignDocs]
  BY DEF IInv, DocsOK, TypeOK, DesignDocs
<1>1. PICK main \in MainFiles :
        \/ design' = [design EXCEPT ![d].main = IF main = t.main THEN @ ELSE main]
        \/ \E previews \in SUBSET Files :
             design' = IF refused THEN design
                       ELSE [[design EXCEPT ![d].main = IF main = t.main THEN @ ELSE main]
                               EXCEPT ![d].previews = previews, ![d].version = @ + 1]
  BY DEF UpdateSave, SaveFiles
<1>2. PICK m : m = IF main = t.main THEN design[d].main ELSE main
  OBVIOUS
<1>3. m \in SUBSET Files
  BY <1>2 DEF MainFiles, DesignDocs
<1>4. PICK kept : kept = [design[d] EXCEPT !.main = m]
  OBVIOUS
<1>5. /\ kept \in DesignDocs /\ kept.owner = design[d].owner
      /\ kept.version = design[d].version /\ kept.previews = design[d].previews
  BY <1>3, <1>4 DEF DesignDocs
<1>6. [design EXCEPT ![d].main = IF main = t.main THEN @ ELSE main] = [design EXCEPT ![d] = kept]
  BY <1>0, <1>2, <1>4
<1>7. CASE design' = [design EXCEPT ![d] = kept]
  BY <1>5, <1>7 DEF Follows
<1>8. CASE design' = design
  <2>1. design' = [design EXCEPT ![d] = design[d]]
    BY <1>0, <1>8
  <2>2. Follows(d, design[d])
    BY DEF Follows
  <2> QED
    BY <2>1, <2>2
<1>9. ASSUME NEW previews \in SUBSET Files, ~refused,
             design' = [[design EXCEPT ![d] = kept]
                          EXCEPT ![d].previews = previews, ![d].version = @ + 1]
      PROVE  \E x : /\ design' = [design EXCEPT ![d] = x]
                    /\ Follows(d, x)
                    /\ x.version # design[d].version => task[w].version = design[d].version
  <2>1. PICK n : n = design[d].version + 1
    OBVIOUS
  <2>2. n \in Nat
    BY <2>1 DEF DesignDocs
  <2>3. PICK x : x = [kept EXCEPT !.previews = previews, !.version = n]
    OBVIOUS
  <2>4. x \in DesignDocs /\ x.owner = design[d].owner /\ x.version = n
    BY <1>5, <2>2, <2>3 DEF DesignDocs
  <2>5. design' = [design EXCEPT ![d] = x]
    BY <1>0, <1>5, <1>9, <2>1, <2>3
  <2>6. Follows(d, x)
    BY <2>1, <2>4 DEF Follows
  <2> QED
    BY <1>9, <2>5, <2>6
<1> QED
  BY <1>1, <1>6, <1>7, <1>8, <1>9

\* The saves of a design that exists.
LEMMA DesignSaved ==
  ASSUME IInv, NEW w \in Workers, NEW d, d = task[w].design,
         StatusSave(w) \/ UpdateSave(w) \/ UploadMain(w) \/ UploadPreview(w)
  PROVE  /\ d \in Made(design) /\ d \in Designs /\ design[d] \in DesignDocs
         /\ \E x : design' = [design EXCEPT ![d] = x] /\ Follows(d, x)
<1>1. TaskOK(task[w]) /\ task[w].step \in {"status", "list", "main", "previews"}
  BY DEF StatusSave, UpdateSave, UploadMain, UploadPreview, At, IInv
<1>2. d \in Made(design) /\ d \in Designs /\ design[d] \in DesignDocs
  BY <1>1, MadeDesign DEF TaskOK, IInv, DocsOK
<1>3. /\ task[w].step = "status" => task[w].status \in DesignStatuses
      /\ task[w].step \in {"main", "previews"} => task[w].file \in Files
  BY <1>1 DEF TaskOK, Tasks, Idle
<1>4. design \in [Designs -> {Absent} \cup DesignDocs]
  BY DEF IInv, DocsOK, TypeOK, DesignDocs
<1>5. CASE StatusSave(w)
  <2>1. PICK s \in DesignStatuses : design' = [design EXCEPT ![d].status = s]
    <3>1. design[d].status \in DesignStatuses /\ task[w].status \in DesignStatuses
      BY <1>2, <1>3, <1>5 DEF StatusSave, At, DesignDocs
    <3> QED
      BY <1>5, <3>1 DEF StatusSave
  <2>2. PICK x : x = [design[d] EXCEPT !.status = s]
    OBVIOUS
  <2>3. Follows(d, x)
    BY <1>2, <2>2 DEF Follows, DesignDocs
  <2> QED
    BY <1>2, <2>1, <2>2, <2>3
<1>6. CASE UpdateSave(w)
  BY <1>2, <1>6, UpdateSaves
<1>7. CASE UploadMain(w)
  <2>1. PICK x : x = [design[d] EXCEPT !.main = {task[w].file}]
    OBVIOUS
  <2>2. Follows(d, x)
    BY <1>2, <1>3, <1>7, <2>1 DEF Follows, DesignDocs, UploadMain, At
  <2>3. design' = [design EXCEPT ![d] = x]
    BY <1>2, <1>4, <1>7, <2>1 DEF UploadMain
  <2> QED
    BY <1>2, <2>2, <2>3
<1>8. CASE UploadPreview(w)
  <2>1. PICK previews, n : previews = design[d].previews \cup {task[w].file} /\ n = design[d].version + 1
    OBVIOUS
  <2>2. previews \in SUBSET Files /\ n \in Nat
    BY <1>2, <1>3, <1>8, <2>1 DEF UploadPreview, At, DesignDocs
  <2>3. PICK x : x = [design[d] EXCEPT !.previews = previews, !.version = n]
    OBVIOUS
  <2>4. Follows(d, x)
    BY <1>2, <2>1, <2>2, <2>3 DEF Follows, DesignDocs
  <2>5. design' = [design EXCEPT ![d] = x]
    BY <1>2, <1>4, <1>8, <2>1, <2>3 DEF UploadPreview
  <2> QED
    BY <1>2, <2>4, <2>5
<1> QED
  BY <1>2, <1>5, <1>6, <1>7, <1>8

LEMMA DesignSaves ==
  ASSUME IInv, NEW w \in Workers,
         StatusSave(w) \/ UpdateSave(w) \/ UploadMain(w) \/ UploadPreview(w)
  PROVE  IInv'
<1>1. PICK d : d = task[w].design
  OBVIOUS
<1>2. PICK x : /\ d \in Made(design) /\ d \in Designs /\ design[d] \in DesignDocs
               /\ design' = [design EXCEPT ![d] = x] /\ x \in DesignDocs
  BY <1>1, DesignSaved DEF Follows
<1>3. Hold(w, Idle) /\ UNCHANGED << account, session, profile, request, file >>
  BY DEF StatusSave, UpdateSave, UploadMain, UploadPreview, Finish, same
<1>4. design' \in [Designs -> {Absent} \cup DesignDocs] /\ Made(design) \subseteq Made(design)'
  <2>1. design \in [Designs -> {Absent} \cup DesignDocs]
    BY DEF IInv, DocsOK, TypeOK, DesignDocs
  <2>2. x.status # "absent"
    BY <1>2 DEF DesignDocs, DesignStatuses
  <2> QED
    BY <1>2, <2>1, <2>2 DEF Made
<1>5. DocsOK' /\ Growth
  <2>1. file' \in [Files -> {NoFile} \cup [owner : Accounts, of : Owners]]
    BY <1>3 DEF IInv, DocsOK, TypeOK
  <2>2. Uploaded \subseteq Uploaded'
    BY <1>3 DEF Uploaded
  <2> QED
    BY <1>3, <1>4, <2>1, <2>2, OtherDocs
<1> QED
  BY <1>3, <1>5, IdleStaysOK, Works

\* A new design, and a file stored as a design's.
LEMMA DesignGrows ==
  ASSUME IInv, NEW w \in Workers, CreateDesign(w) \/ UploadStore(w)
  PROVE  IInv'
<1>1. CASE CreateDesign(w)
  <2>1. /\ design' \in [Designs -> {Absent} \cup DesignDocs]
        /\ Made(design) \subseteq Made(design)'
    <3>1. PICK e \in Designs \ Made(design), x \in DesignDocs :
            design' = [design EXCEPT ![e] = x]
      BY <1>1 DEF CreateDesign, MainFiles, DesignDocs, DesignStatuses
    <3>2. design \in [Designs -> {Absent} \cup DesignDocs]
      BY DEF IInv, DocsOK, TypeOK, DesignDocs
    <3> QED
      BY <3>1, <3>2 DEF Made, DesignDocs
  <2>2. /\ file' \in [Files -> {NoFile} \cup [owner : Accounts, of : Owners]]
        /\ Uploaded \subseteq Uploaded'
    BY <1>1 DEF CreateDesign, IInv, DocsOK, TypeOK, Uploaded
  <2>3. DocsOK' /\ Growth
    BY <1>1, <2>1, <2>2, OtherDocs DEF CreateDesign, same
  <2> QED
    BY <1>1, <2>3, Rests DEF CreateDesign
<1>2. CASE UploadStore(w)
  <2> DEFINE d == task[w].design
  <2>1. TaskOK(task[w]) /\ task[w].step = "store"
    BY <1>2 DEF UploadStore, At, IInv
  <2>2. d \in Made(design) /\ d \in Designs /\ design[d] \in DesignDocs
    BY <2>1, MadeDesign DEF TaskOK, IInv, DocsOK
  <2>3. task[w].category \in {"main", "previews"}
    BY <2>1 DEF TaskOK, Tasks, Idle
  <2>4. PICK f \in Files \ Uploaded :
          /\ file' = [file EXCEPT ![f] = [owner |-> design[d].owner, of |-> d]]
          /\ Hold(w, [step |-> task[w].category, design |-> d, file |-> f])
    BY <1>2 DEF UploadStore
  <2>5. PICK t : t = [step |-> task[w].category, design |-> d, file |-> f]
    OBVIOUS
  <2>6. t \in Tasks /\ t.step \in {"main", "previews"} /\ t.design = d
    BY <2>2, <2>3, <2>4, <2>5 DEF Tasks
  <2>7. TaskOK(t)
    BY <2>2, <2>6 DEF TaskOK
  <2>8. /\ file' \in [Files -> {NoFile} \cup [owner : Accounts, of : Owners]]
        /\ Uploaded \subseteq Uploaded'
    BY <2>2, <2>4 DEF IInv, DocsOK, TypeOK, Owners, DesignDocs, Uploaded
  <2>9. design' \in [Designs -> {Absent} \cup DesignDocs] /\ Made(design) \subseteq Made(design)'
    BY <1>2 DEF UploadStore, IInv, DocsOK, TypeOK, DesignDocs, Made
  <2>10. DocsOK' /\ Growth
    BY <1>2, <2>8, <2>9, OtherDocs DEF UploadStore, same
  <2> QED
    BY <2>4, <2>5, <2>7, <2>10, Stable, Works
<1> QED
  BY <1>1, <1>2

-----------------------------------------------------------------------------
LEMMA NextIInv == IInv /\ [Next]_vars => IInv'
<1> SUFFICES ASSUME IInv, [Next]_vars PROVE IInv'
  OBVIOUS
<1>1. CASE UNCHANGED vars
  <2>1. PICK s : s = task
    OBVIOUS
  <2> QED
    BY <1>1 DEF vars, accountVars, docs, IInv, DocsOK, TypeOK, OneOfEach, ApprovedHasProfile,
       TaskOK, HasProfile, Known, Made, Uploaded
<1>2. CASE AccountActions /\ UNCHANGED docs
  BY <1>2, AccountStep
<1>3. ASSUME NEW w \in Workers, Applying(w)
      PROVE  IInv'
  BY <1>3, ApplyMoves, ApplyFiles, ApplyDocs DEF Applying
<1>4. ASSUME NEW w \in Workers, Reviewing(w)
      PROVE  IInv'
  BY <1>4, ReviewStart, ProfileStep, RoleStep, DecideStep DEF Reviewing
<1>5. ASSUME NEW w \in Workers, Designing(w) \/ Judging(w)
      PROVE  IInv'
  BY <1>5, DesignMoves, DesignSaves, DesignGrows DEF Designing, Judging
<1> QED
  BY <1>1, <1>2, <1>3, <1>4, <1>5 DEF Next

LEMMA Inductive == Spec => []IInv
BY InitIInv, NextIInv, PTL DEF Spec

-----------------------------------------------------------------------------
(* Documents of users, applications, profiles, files and designs keep their  *)
(* types, and a status is always one the code sets.                          *)
THEOREM TypeCorrect == Spec => []TypeOK
<1>1. IInv => TypeOK
  BY DEF IInv, DocsOK
<1> QED
  BY <1>1, Inductive, PTL

(* However registrations and reviews overlap, an address has one account, a  *)
(* user one profile and a slug one user: RegisterCreate and ApproveProfile   *)
(* rest on the unique indexes alone, not on what was looked for before.      *)
THEOREM OneEach == Spec => []OneOfEach
<1>1. IInv => OneOfEach
  BY DEF IInv, DocsOK
<1> QED
  BY <1>1, Inductive, PTL

(* Whatever reviews overlap, fail or decide differently on one application,  *)
(* an approved one belongs to a designer with a profile: the order of the    *)
(* three saves of reviewDesignerApplication.                                 *)
THEOREM ApprovedMeansDesigner == Spec => []ApprovedHasProfile
<1>1. IInv => ApprovedHasProfile
  BY DEF IInv, DocsOK
<1> QED
  BY <1>1, Inductive, PTL

-----------------------------------------------------------------------------
(* Lists of designs.  An update saves what it is given over a copy it has    *)
(* read some calls ago; as long as the version is the copy's, so is the list *)
(* (CopyTask), since nothing saves a list without its version (VersionsMove).*)

CopyTask(t) ==
  t.step = "list" =>
    /\ t.version <= design[t.design].version
    /\ t.version = design[t.design].version => t.previews = design[t.design].previews

KInv == \A w \in Workers : CopyTask(task[w])

VersionsMove ==
  \A d \in Made(design) :
    /\ design'[d].version \in Nat /\ design'[d].version >= design[d].version
    /\ design'[d].version = design[d].version => design'[d].previews = design[d].previews

LEMMA ListTask ==
  ASSUME IInv, NEW t, TaskOK(t), t.step = "list"
  PROVE  /\ t.design \in Made(design) /\ t.design \in Designs
         /\ design[t.design] \in DesignDocs
         /\ t.version \in Nat /\ t.previews \in SUBSET Files
<1>1. t \in Tasks
  BY DEF TaskOK
<1>2. t.design \in Made(design) /\ t.design \in Designs /\ design[t.design] \in DesignDocs
  BY MadeDesign DEF TaskOK, IInv, DocsOK
<1> QED
  BY <1>1, <1>2 DEF Tasks, Idle

LEMMA CopyTaskStays ==
  ASSUME IInv, VersionsMove, NEW t, TaskOK(t), CopyTask(t)
  PROVE  CopyTask(t)'
<1> SUFFICES ASSUME t.step = "list"
             PROVE  /\ t.version <= design'[t.design].version
                    /\ t.version = design'[t.design].version =>
                         t.previews = design'[t.design].previews
  BY DEF CopyTask
<1>1. /\ t.design \in Made(design) /\ t.version \in Nat
      /\ design[t.design].version \in Nat
  BY ListTask DEF DesignDocs
<1>2. /\ t.version <= design[t.design].version
      /\ t.version = design[t.design].version => t.previews = design[t.design].previews
  BY DEF CopyTask
<1>3. /\ design'[t.design].version \in Nat
      /\ design'[t.design].version >= design[t.design].version
      /\ design'[t.design].version = design[t.design].version =>
           design'[t.design].previews = design[t.design].previews
  BY <1>1 DEF VersionsMove
<1> QED
  BY <1>1, <1>2, <1>3

\* Requests stay as they are, or go on to hold what is no copy or a fresh one.
LEMMA CopiesKept ==
  ASSUME IInv, KInv, VersionsMove,
         \A v \in Workers : \/ task'[v] = task[v]
                            \/ task'[v].step # "list"
                            \/ CopyTask(task'[v]) /\ UNCHANGED design
  PROVE  KInv'
<1> SUFFICES ASSUME NEW v \in Workers
             PROVE  CopyTask(task[v])'
  BY DEF KInv
<1>1. PICK t : t = task'[v]
  OBVIOUS
<1>2. CopyTask(t)'
  <2>1. CASE t = task[v]
    BY <2>1, CopyTaskStays DEF IInv, KInv
  <2>2. CASE t.step # "list"
    BY <2>2 DEF CopyTask
  <2>3. CASE CopyTask(t) /\ UNCHANGED design
    BY <2>3 DEF CopyTask
  <2> QED
    BY <1>1, <2>1, <2>2, <2>3
<1> QED
  BY <1>1, <1>2 DEF CopyTask

\* A request comes to hold a copy only by reading it.
LEMMA CopyIsRead ==
  ASSUME IInv, Next, NEW v \in Workers, task'[v].step = "list"
  PROVE  \/ task'[v] = task[v]
         \/ \E d \in Made(design) :
              /\ UNCHANGED design
              /\ task'[v] = [ step |-> "list", design |-> d, main |-> design[d].main,
                              previews |-> design[d].previews, version |-> design[d].version ]
<1> DEFINE Done ==
      \/ task'[v] = task[v]
      \/ \E d \in Made(design) :
           /\ UNCHANGED design
           /\ task'[v] = [ step |-> "list", design |-> d, main |-> design[d].main,
                           previews |-> design[d].previews, version |-> design[d].version ]
<1>1. CASE UNCHANGED task
  BY <1>1
<1>2. ASSUME NEW w \in Workers, NEW t, Hold(w, t), t.step # "list" PROVE Done
  BY <1>2 DEF Hold, IInv
<1>3. ASSUME NEW w \in Workers, Finish(w) PROVE Done
  <2>1. Idle.step # "list"
    BY DEF Idle
  <2> QED
    BY <1>2, <1>3, <2>1 DEF Finish
<1>4. ASSUME NEW w \in Workers, NEW s \in {"apply", "role", "decide"}, Go(w, s),
             task[w].step \in {"look", "profile", "role"}
      PROVE  Done
  <2>1. PICK t : t = [task[w] EXCEPT !.step = s]
    OBVIOUS
  <2>2. t.step = s
    BY <1>4, <2>1 DEF IInv, TaskOK, Tasks, Idle
  <2> QED
    BY <1>2, <1>4, <2>1, <2>2 DEF Go
<1>5. CASE AccountActions
  <2>1. ASSUME NEW w \in Workers, RegisterFind(w) \/ LoginFind(w) PROVE Done
    BY <1>2, <2>1 DEF RegisterFind, LoginFind
  <2> QED
    BY <1>1, <1>3, <1>5, <2>1 DEF AccountActions, RegisterCreate, LoginSign, Fail, Logout, Block
<1>6. ASSUME NEW w \in Workers, Applying(w) PROVE Done
  <2>1. CASE UploadPending(w)
    BY <1>1, <2>1 DEF UploadPending
  <2>2. CASE ApplyStart(w) \/ ApplyCreate(w)
    BY <1>2, <2>2 DEF ApplyStart, ApplyCreate
  <2>3. CASE ApplyLook(w)
    BY <1>3, <1>4, <2>3 DEF ApplyLook, At
  <2>4. CASE AttachFind(w)
    BY <1>2, <1>3, <2>4 DEF AttachFind
  <2>5. CASE AttachSave(w)
    <3>1. PICK f : Hold(w, [task[w] EXCEPT !.todo = @ \ {f}])
      BY <2>5 DEF AttachSave
    <3>2. PICK t : t = [task[w] EXCEPT !.todo = @ \ {f}]
      OBVIOUS
    <3>3. t.step # "list"
      BY <2>5, <3>2 DEF AttachSave, At, IInv, TaskOK, Tasks, Idle
    <3> QED
      BY <1>2, <3>1, <3>2, <3>3
  <2>6. CASE ApplyLink(w)
    BY <1>3, <2>6 DEF ApplyLink
  <2> QED
    BY <1>6, <2>1, <2>2, <2>3, <2>4, <2>5, <2>6 DEF Applying
<1>7. ASSUME NEW w \in Workers, Reviewing(w) PROVE Done
  <2>1. CASE ReviewRead(w)
    <3>1. PICK r, s : Hold(w, [ request |-> r, status |-> s, read |-> request[r].status,
                                step |-> IF s = "approved" THEN "profile" ELSE "decide" ])
      BY <2>1 DEF ReviewRead
    <3> QED
      BY <1>2, <3>1
  <2>2. CASE ApproveProfile(w) \/ ApproveRole(w)
    BY <1>3, <1>4, <2>2 DEF ApproveProfile, ApproveRole, At
  <2>3. CASE ReviewDecide(w)
    BY <1>3, <2>3 DEF ReviewDecide
  <2> QED
    BY <1>7, <2>1, <2>2, <2>3 DEF Reviewing
<1>8. ASSUME NEW w \in Workers, Designing(w) \/ Judging(w) PROVE Done
  <2>1. CASE CreateDesign(w)
    BY <1>1, <2>1 DEF CreateDesign
  <2>2. CASE SubmitRead(w) \/ JudgeRead(w) \/ UploadRead(w)
    BY <1>2, <2>2 DEF SubmitRead, JudgeRead, UploadRead
  <2>3. CASE UpdateRead(w)
    <3>1. PICK d \in Made(design) :
            Hold(w, [ step |-> "list", design |-> d, main |-> design[d].main,
                      previews |-> design[d].previews, version |-> design[d].version ])
      BY <2>3 DEF UpdateRead, Opens
    <3>2. UNCHANGED design
      BY <2>3 DEF UpdateRead, docs
    <3> QED
      BY <3>1, <3>2 DEF Hold, IInv
  <2>4. CASE UploadStore(w)
    <3>1. PICK f : Hold(w, [step |-> task[w].category, design |-> task[w].design, file |-> f])
      BY <2>4 DEF UploadStore
    <3>2. task[w].category \in {"main", "previews"}
      BY <2>4 DEF UploadStore, At, IInv, TaskOK, Tasks, Idle
    <3> QED
      BY <1>2, <3>1, <3>2
  <2>5. CASE StatusSave(w) \/ UpdateSave(w) \/ UploadMain(w) \/ UploadPreview(w)
    BY <1>3, <2>5 DEF StatusSave, UpdateSave, UploadMain, UploadPreview
  <2> QED
    BY <1>8, <2>1, <2>2, <2>3, <2>4, <2>5 DEF Designing, Judging
<1> QED
  BY <1>5, <1>6, <1>7, <1>8 DEF Next

\* What changes a design is its creation or one of the saves.
LEMMA DesignNext ==
  ASSUME Next, design' # design
  PROVE  \E w \in Workers : \/ CreateDesign(w) \/ StatusSave(w) \/ UpdateSave(w)
                           \/ UploadMain(w) \/ UploadPreview(w)
BY DEF Next, docs, Applying, Reviewing, Designing, Judging, UploadPending, ApplyStart,
   ApplyLook, ApplyCreate, AttachFind, AttachSave, ApplyLink, ReviewRead, ApproveProfile,
   ApproveRole, ReviewDecide, SubmitRead, UpdateRead, UploadRead, UploadStore, JudgeRead

\* A step leaves a design that is made as it is, or saves it.
LEMMA MadeNext ==
  ASSUME IInv, Next, NEW d \in Made(design), design'[d] # design[d]
  PROVE  \E w \in Workers :
           /\ StatusSave(w) \/ UpdateSave(w) \/ UploadMain(w) \/ UploadPreview(w)
           /\ task[w].design = d
           /\ design' = [design EXCEPT ![d] = design'[d]]
           /\ Follows(d, design'[d])
<1>1. d \in Designs /\ design \in [Designs -> {Absent} \cup DesignDocs]
  BY MadeDesign DEF IInv, DocsOK, TypeOK, DesignDocs
<1>2. PICK w \in Workers : \/ CreateDesign(w) \/ StatusSave(w) \/ UpdateSave(w)
                           \/ UploadMain(w) \/ UploadPreview(w)
  BY DesignNext
<1>3. CASE CreateDesign(w)
  <2>1. PICK e, x : e \in Designs \ Made(design) /\ design' = [design EXCEPT ![e] = x]
    BY <1>3 DEF CreateDesign
  <2> QED
    BY <1>1, <2>1
<1>4. CASE StatusSave(w) \/ UpdateSave(w) \/ UploadMain(w) \/ UploadPreview(w)
  <2>1. PICK e : e = task[w].design
    OBVIOUS
  <2>2. PICK x : e \in Designs /\ design' = [design EXCEPT ![e] = x] /\ Follows(e, x)
    BY <1>4, <2>1, DesignSaved
  <2>3. d = e /\ design'[d] = x
    BY <1>1, <2>2
  <2> QED
    BY <1>4, <2>1, <2>2, <2>3
<1> QED
  BY <1>2, <1>3, <1>4

LEMMA VersionsNext ==
  ASSUME IInv, Next
  PROVE  VersionsMove
<1> SUFFICES ASSUME NEW d \in Made(design)
             PROVE  /\ design'[d].version \in Nat /\ design'[d].version >= design[d].version
                    /\ design'[d].version = design[d].version =>
                         design'[d].previews = design[d].previews
  BY DEF VersionsMove
<1>1. design[d].version \in Nat
  BY MadeDesign DEF IInv, DocsOK, DesignDocs
<1>2. CASE design'[d] = design[d]
  BY <1>1, <1>2
<1>3. CASE design'[d] # design[d]
  <2>1. Follows(d, design'[d])
    BY <1>3, MadeNext
  <2> QED
    BY <1>1, <2>1 DEF Follows
<1> QED
  BY <1>2, <1>3

LEMMA NextKInv == IInv /\ KInv /\ [Next]_vars => KInv'
<1> SUFFICES ASSUME IInv, KInv, [Next]_vars PROVE KInv'
  OBVIOUS
<1>1. CASE UNCHANGED vars
  <2>1. UNCHANGED << task, design >>
    BY <1>1 DEF vars, accountVars, docs
  <2> QED
    BY <2>1 DEF KInv, CopyTask
<1>2. CASE Next
  <2>1. VersionsMove
    BY <1>2, VersionsNext
  <2>2. ASSUME NEW v \in Workers, task'[v].step = "list", task'[v] # task[v]
        PROVE  CopyTask(task'[v]) /\ UNCHANGED design
    <3>1. PICK d \in Made(design) :
            /\ UNCHANGED design
            /\ task'[v] = [ step |-> "list", design |-> d, main |-> design[d].main,
                            previews |-> design[d].previews, version |-> design[d].version ]
      BY <1>2, <2>2, CopyIsRead
    <3>2. design[d].version \in Nat
      BY MadeDesign DEF IInv, DocsOK, DesignDocs
    <3> QED
      BY <3>1, <3>2 DEF CopyTask
  <2> QED
    BY <2>1, <2>2, CopiesKept
<1> QED
  BY <1>1, <1>2

LEMMA CopiesInductive == Spec => [](IInv /\ KInv)
<1>1. Init => KInv
  BY DEF Init, KInv, CopyTask, AccountsInit, Idle
<1> QED
  BY <1>1, InitIInv, NextIInv, NextKInv, PTL DEF Spec

(* An update of the list of previews that was overtaken by an upload is      *)
(* refused, whatever list it would set: UpdateSave compares versions, and    *)
(* whatever saved the list since it was read moved the version on.           *)
THEOREM UploadsStay == Spec => UploadsKept
<1>1. IInv /\ KInv /\ [Next]_vars =>
        [ \A d \in Made(design) : \A f \in design[d].previews \ design'[d].previews :
            \E w \in Workers : At(w, "list") /\ f \in task[w].previews ]_vars
  <2> SUFFICES ASSUME IInv, KInv, Next, NEW d \in Made(design),
                      NEW f \in design[d].previews \ design'[d].previews
               PROVE  \E w \in Workers : At(w, "list") /\ f \in task[w].previews
    BY DEF vars, docs
  <2>1. d \in Designs /\ design[d] \in DesignDocs
        /\ design \in [Designs -> {Absent} \cup DesignDocs]
    BY MadeDesign DEF IInv, DocsOK, TypeOK, DesignDocs
  <2>2. design'[d] # design[d]
    OBVIOUS
  <2>3. PICK w \in Workers :
          /\ StatusSave(w) \/ UpdateSave(w) \/ UploadMain(w) \/ UploadPreview(w)
          /\ task[w].design = d
          /\ Follows(d, design'[d])
    BY <2>2, MadeNext
  <2>4. UpdateSave(w)
    <3>1. ~StatusSave(w) /\ ~UploadMain(w) /\ ~UploadPreview(w)
      BY <2>1, <2>3 DEF StatusSave, UploadMain, UploadPreview, DesignDocs
    <3> QED
      BY <2>3, <3>1
  <2>5. At(w, "list") /\ CopyTask(task[w])
    BY <2>4 DEF UpdateSave, KInv
  <2>6. task[w].version = design[d].version
    <3>1. PICK x : /\ design' = [design EXCEPT ![d] = x] /\ Follows(d, x)
                   /\ x.version # design[d].version => task[w].version = design[d].version
      BY <2>1, <2>3, <2>4, UpdateSaves
    <3>2. x = design'[d]
      BY <2>1, <3>1
    <3>3. design'[d].version # design[d].version
      BY <2>1, <2>3 DEF Follows, DesignDocs
    <3> QED
      BY <3>1, <3>2, <3>3
  <2>7. task[w].previews = design[d].previews
    BY <2>3, <2>5, <2>6 DEF At, CopyTask
  <2> QED
    BY <2>5, <2>7
<1> QED
  BY <1>1, CopiesInductive, PTL DEF Spec, UploadsKept

-----------------------------------------------------------------------------
(* Files of applications, whose user hands in one request at a time: a       *)
(* suspended request tells how far its files are attached (ApplyTask), and   *)
(* all but the save of an attached file leave the files that exist alone.    *)

ApplySteps == {"look", "apply", "match", "attach"}

ApplyTask(w, t) ==
  /\ t.step \in ApplySteps => "apply" \in env.duties[w]
  /\ t.step = "attach" =>
       /\ t.todo \subseteq t.files
       /\ \A f \in t.files :
            file[f] = [ owner |-> request[t.request].user,
                        of |-> IF f \in t.todo THEN Pending ELSE t.request ]

FilesOfRequests ==
  \A r \in Made(request) : \A f \in request[r].files :
    file[f] = [owner |-> request[r].user, of |-> r]

GInv == OneApplicant => FilesOfRequests /\ \A w \in Workers : ApplyTask(w, task[w])

FilesKept == \A f \in Uploaded : file'[f] = file[f]

UsersKept ==
  env' = env /\ \A r \in Made(request) : r \in Made(request)' /\ request'[r].user = request[r].user

RequestsKept ==
  \A r \in Made(request)' : \A f \in request'[r].files :
    r \in Made(request) /\ f \in request[r].files

LEMMA OneOnly ==
  ASSUME OneApplicant, NEW v \in Workers, NEW w \in Workers,
         "apply" \in env.duties[v], "apply" \in env.duties[w]
  PROVE  v = w
<1> DEFINE S == { u \in Workers : "apply" \in env.duties[u] }
<1>1. IsFiniteSet(S) /\ Cardinality(S) = 1
  BY WorkersAssumption, FS_Subset DEF OneApplicant
<1>2. PICK u : S = {u}
  BY <1>1, FS_Singleton
<1>3. v \in S /\ w \in S
  OBVIOUS
<1> QED
  BY <1>2, <1>3

\* What a suspended application holds.
LEMMA AttachTask ==
  ASSUME IInv, NEW w \in Workers, NEW t, TaskOK(t), t.step = "attach", ApplyTask(w, t)
  PROVE  /\ t \in [step : {"attach"}, request : Requests, files : SUBSET Files,
                   todo : SUBSET Files]
         /\ t.request \in Made(request)
         /\ request[t.request] \in RequestDocs
         /\ \A f \in t.files : f \in Uploaded
<1>1. t \in [step : {"attach"}, request : Requests, files : SUBSET Files, todo : SUBSET Files]
  BY DEF TaskOK, Tasks, Idle
<1>2. t.request \in Made(request) /\ request[t.request] \in RequestDocs
  BY MadeRequest DEF TaskOK, IInv, DocsOK
<1>3. ASSUME NEW f \in t.files
      PROVE  f \in Uploaded
  <2>1. f \in Files /\ request[t.request].user \in Accounts
    BY <1>1, <1>2 DEF RequestDocs
  <2>2. file[f] = [ owner |-> request[t.request].user,
                    of |-> IF f \in t.todo THEN Pending ELSE t.request ]
    BY DEF ApplyTask
  <2>3. file[f].owner = request[t.request].user
    BY <2>2
  <2> QED
    BY <2>1, <2>3, NoneAssumption DEF Uploaded, NoFile
<1> QED
  BY <1>1, <1>2, <1>3

LEMMA ApplyTaskStays ==
  ASSUME IInv, FilesKept, UsersKept, NEW w \in Workers, NEW t, TaskOK(t), ApplyTask(w, t)
  PROVE  ApplyTask(w, t)'
<1>1. CASE t.step = "attach"
  BY <1>1, AttachTask DEF ApplyTask, FilesKept, UsersKept
<1>2. CASE t.step # "attach"
  BY <1>2 DEF ApplyTask, UsersKept
<1> QED
  BY <1>1, <1>2

\* A file an application lists is there.
LEMMA LinkedIsUploaded ==
  ASSUME IInv, FilesOfRequests, NEW r \in Made(request), NEW f \in request[r].files
  PROVE  f \in Uploaded /\ file[f].of = r /\ r \in Requests
<1>1. r \in Requests /\ request[r] \in RequestDocs
  BY MadeRequest DEF IInv, DocsOK
<1>2. f \in Files /\ file[f] = [owner |-> request[r].user, of |-> r]
  BY <1>1 DEF FilesOfRequests, RequestDocs
<1> QED
  BY <1>1, <1>2, NoneAssumption DEF Uploaded, NoFile, RequestDocs

LEMMA LinksKept ==
  ASSUME IInv, FilesOfRequests, FilesKept, UsersKept, RequestsKept
  PROVE  FilesOfRequests'
<1>1. ASSUME NEW r \in Made(request)', NEW f \in request'[r].files
      PROVE  file'[f] = [owner |-> request'[r].user, of |-> r]
  <2>1. r \in Made(request) /\ f \in request[r].files
    BY <1>1 DEF RequestsKept
  <2>2. file[f] = [owner |-> request[r].user, of |-> r] /\ f \in Uploaded
    BY <2>1, LinkedIsUploaded DEF FilesOfRequests
  <2> QED
    BY <2>1, <2>2 DEF FilesKept, UsersKept
<1> QED
  BY <1>1 DEF FilesOfRequests

\* At most one request goes on.
LEMMA ApplyWork ==
  ASSUME IInv, GInv, OneApplicant, FilesKept, UsersKept, FilesOfRequests', NEW w \in Workers,
         \A v \in Workers : v # w => task'[v] = task[v],
         task'[w] = task[w] \/ ApplyTask(w, task[w])'
  PROVE  GInv'
<1>1. ASSUME NEW v \in Workers, task'[v] = task[v]
      PROVE  ApplyTask(v, task[v])'
  <2>1. PICK t : t = task[v]
    OBVIOUS
  <2>2. ApplyTask(v, t)'
    BY <2>1, ApplyTaskStays DEF IInv, GInv
  <2> QED
    BY <1>1, <2>1, <2>2 DEF ApplyTask
<1>2. \A v \in Workers : ApplyTask(v, task[v])'
  BY <1>1
<1> QED
  BY <1>2 DEF GInv

\* Files and applications are left alone, or get one more.
LEMMA ApplyElsewhere ==
  ASSUME IInv, GInv, OneApplicant, NEW w \in Workers, FilesKept,
         UNCHANGED << env, request >>,
         \A v \in Workers : v # w => task'[v] = task[v],
         task'[w] = task[w] \/ task'[w].step \notin ApplySteps
  PROVE  GInv'
<1>1. UsersKept /\ RequestsKept
  BY DEF UsersKept, RequestsKept, Made
<1>2. FilesOfRequests'
  BY <1>1, LinksKept DEF GInv
<1>3. task'[w] = task[w] \/ ApplyTask(w, task[w])'
  BY DEF ApplyTask, ApplySteps
<1> QED
  BY <1>1, <1>2, <1>3, ApplyWork

LEMMA AccountsGInv ==
  ASSUME IInv, GInv, OneApplicant, AccountActions, UNCHANGED docs
  PROVE  GInv'
<1>1. FilesKept /\ UNCHANGED << env, request >>
  BY DEF AccountActions, RegisterFind, RegisterCreate, LoginFind, LoginSign, Fail, Logout,
     Block, docs, FilesKept
<1>2. CASE UNCHANGED task
  <2>1. CASE Workers = {}
    BY <1>1, <2>1 DEF GInv, OneApplicant, FilesOfRequests, Made, docs
  <2>2. CASE Workers # {}
    BY <1>1, <1>2, <2>2, ApplyElsewhere
  <2> QED
    BY <2>1, <2>2
<1>3. ASSUME NEW w \in Workers, RegisterFind(w) \/ LoginFind(w) \/ Finish(w)
      PROVE  GInv'
  <2>1. \A v \in Workers : v # w => task'[v] = task[v]
    BY <1>3 DEF RegisterFind, LoginFind, Finish, Hold, IInv
  <2>2. task'[w].step \notin ApplySteps
    BY <1>3 DEF RegisterFind, LoginFind, Finish, Hold, Idle, IInv, ApplySteps
  <2> QED
    BY <1>1, <2>1, <2>2, ApplyElsewhere
<1> QED
  BY <1>2, <1>3 DEF AccountActions, RegisterCreate, LoginSign, Fail, Logout, Block

LEMMA DesignsGInv ==
  ASSUME IInv, GInv, OneApplicant, NEW w \in Workers, Designing(w) \/ Judging(w)
  PROVE  GInv'
<1>1. UNCHANGED << env, request >>
  BY DEF Designing, Judging, CreateDesign, SubmitRead, UpdateRead, UpdateSave, UploadRead,
     UploadStore, UploadMain, UploadPreview, JudgeRead, StatusSave, same, docs
<1>2. FilesKept
  <2>1. CASE UNCHANGED file
    BY <2>1 DEF FilesKept
  <2>2. CASE UploadStore(w)
    <3>1. PICK f \in Files \ Uploaded :
            file' = [file EXCEPT ![f] = [ owner |-> design[task[w].design].owner,
                                          of |-> task[w].design ]]
      BY <2>2 DEF UploadStore
    <3> QED
      BY <3>1 DEF FilesKept, Uploaded, IInv, DocsOK, TypeOK
  <2> QED
    BY <2>1, <2>2 DEF Designing, Judging, CreateDesign, SubmitRead, UpdateRead, UpdateSave,
       UploadRead, UploadMain, UploadPreview, JudgeRead, StatusSave, docs
<1>3. \A v \in Workers : v # w => task'[v] = task[v]
  BY DEF Designing, Judging, CreateDesign, SubmitRead, UpdateRead, UpdateSave, UploadRead,
     UploadStore, UploadMain, UploadPreview, JudgeRead, StatusSave, Finish, Hold, IInv
<1>4. task'[w] = task[w] \/ task'[w].step \notin ApplySteps
  <2>1. CASE UNCHANGED task
    BY <2>1
  <2>2. CASE Finish(w)
    BY <2>2 DEF Finish, Hold, Idle, IInv, ApplySteps
  <2>3. CASE SubmitRead(w) \/ JudgeRead(w)
    BY <2>3 DEF SubmitRead, JudgeRead, Hold, IInv, ApplySteps
  <2>4. CASE UpdateRead(w) \/ UploadRead(w)
    BY <2>4 DEF UpdateRead, UploadRead, Hold, IInv, ApplySteps
  <2>5. CASE UploadStore(w)
    <3>1. task[w].category \in {"main", "previews"}
      BY <2>5 DEF UploadStore, At, IInv, TaskOK, Tasks, Idle
    <3> QED
      BY <2>5, <3>1 DEF UploadStore, Hold, IInv, ApplySteps
  <2> QED
    BY <2>1, <2>2, <2>3, <2>4, <2>5 DEF Designing, Judging, CreateDesign, UpdateSave,
       UploadMain, UploadPreview, StatusSave
<1> QED
  BY <1>1, <1>2, <1>3, <1>4, ApplyElsewhere

LEMMA ReviewsGInv ==
  ASSUME IInv, GInv, OneApplicant, NEW w \in Workers, Reviewing(w)
  PROVE  GInv'
<1>1. FilesKept /\ UNCHANGED env
  BY DEF Reviewing, ReviewRead, ApproveProfile, ApproveRole, ReviewDecide, same, docs, FilesKept
<1>2. \A v \in Workers : v # w => task'[v] = task[v]
  BY DEF Reviewing, ReviewRead, ApproveProfile, ApproveRole, ReviewDecide, Finish, Go, Hold,
     IInv
<1>3. task'[w].step \notin ApplySteps
  <2>1. CASE ReviewRead(w)
    BY <2>1 DEF ReviewRead, Hold, IInv, ApplySteps
  <2>2. CASE Finish(w)
    BY <2>2 DEF Finish, Hold, Idle, IInv, ApplySteps
  <2>3. ASSUME NEW s \in {"role", "decide"}, Go(w, s), task[w].step \in {"profile", "role"}
        PROVE  task'[w].step \notin ApplySteps
    BY <2>3, ReviewTask DEF Go, Hold, IInv, ApplySteps
  <2> QED
    BY <2>1, <2>2, <2>3 DEF Reviewing, ApproveProfile, ApproveRole, ReviewDecide, At
<1>4. CASE UNCHANGED request
  BY <1>1, <1>2, <1>3, <1>4, ApplyElsewhere
<1>5. CASE ReviewDecide(w)
  <2> DEFINE d == task[w].request
  <2>1. d \in Requests /\ request[d] \in RequestDocs /\ task[w].status \in ReviewStatuses
    BY <1>5, ReviewTask DEF ReviewDecide, At
  <2>2. PICK s \in RequestStatuses : request' = [request EXCEPT ![d].status = s]
    BY <1>5, <2>1 DEF ReviewDecide, ReviewStatuses, RequestStatuses, RequestDocs
  <2>3. PICK x : x = [request[d] EXCEPT !.status = s]
    OBVIOUS
  <2>4. x.user = request[d].user /\ x.files = request[d].files /\ x.status = s
    BY <2>1, <2>3 DEF RequestDocs
  <2>5. /\ request'[d] = x /\ DOMAIN request' = Requests /\ DOMAIN request = Requests
        /\ \A r \in Requests : r # d => request'[r] = request[r]
    BY <2>1, <2>2, <2>3 DEF IInv, DocsOK, TypeOK
  <2>6. d \in Made(request)
    BY <1>5, ReviewTask DEF ReviewDecide, At
  <2>7. UsersKept /\ RequestsKept
    BY <1>1, <2>4, <2>5, <2>6 DEF UsersKept, RequestsKept, Made, RequestStatuses
  <2>8. FilesOfRequests'
    BY <1>1, <2>7, LinksKept DEF GInv
  <2>9. ApplyTask(w, task[w])'
    BY <1>3 DEF ApplyTask, ApplySteps
  <2> QED
    BY <1>1, <1>2, <2>7, <2>8, <2>9, ApplyWork
<1> QED
  BY <1>4, <1>5 DEF Reviewing, ReviewRead, ApproveProfile, ApproveRole, docs

LEMMA ApplyingGInv ==
  ASSUME IInv, GInv, OneApplicant, NEW w \in Workers,
         UploadPending(w) \/ ApplyStart(w) \/ ApplyLook(w) \/ AttachFind(w)
  PROVE  GInv'
<1>1. UNCHANGED << env, request >>
  BY DEF UploadPending, ApplyStart, ApplyLook, AttachFind, same, docs
<1>2. FilesKept
  <2>1. CASE UNCHANGED file
    BY <2>1 DEF FilesKept
  <2>2. CASE UploadPending(w)
    <3>1. PICK f \in Files \ Uploaded, a \in Accounts :
            file' = [file EXCEPT ![f] = [owner |-> a, of |-> Pending]]
      BY <2>2 DEF UploadPending
    <3> QED
      BY <3>1 DEF FilesKept, Uploaded, IInv, DocsOK, TypeOK
  <2> QED
    BY <2>1, <2>2 DEF ApplyStart, ApplyLook, AttachFind, docs
<1>3. \A v \in Workers : v # w => task'[v] = task[v]
  BY DEF UploadPending, ApplyStart, ApplyLook, AttachFind, Finish, Go, Hold, IInv
<1>4. UsersKept /\ RequestsKept
  BY <1>1 DEF UsersKept, RequestsKept, Made
<1>5. FilesOfRequests'
  BY <1>2, <1>4, LinksKept DEF GInv
<1>6. ASSUME Finish(w)
      PROVE  task'[w].step \notin ApplySteps
  BY <1>6 DEF Finish, Hold, Idle, IInv, ApplySteps
<1>7. task'[w] = task[w] \/ ApplyTask(w, task[w])'
  <2>1. CASE UploadPending(w)
    BY <2>1 DEF UploadPending
  <2>2. CASE Finish(w)
    BY <1>6, <2>2 DEF ApplyTask, ApplySteps
  <2>3. CASE ApplyStart(w)
    <3>1. task'[w].step = "look" /\ "apply" \in env'.duties[w]
      BY <1>1, <2>3 DEF ApplyStart, Free, Hold, IInv
    <3> QED
      BY <3>1 DEF ApplyTask
  <2>4. CASE ApplyLook(w) /\ Go(w, "apply")
    <3>1. task[w].step = "look" /\ TaskOK(task[w]) /\ ApplyTask(w, task[w])
      BY <2>4 DEF ApplyLook, At, IInv, GInv
    <3>2. task'[w].step = "apply"
      BY <2>4, <3>1 DEF Go, Hold, IInv, TaskOK, Tasks, Idle
    <3> QED
      BY <1>1, <3>1, <3>2 DEF ApplyTask, ApplySteps
  <2>5. CASE AttachFind(w) /\ ~Finish(w)
    <3>1. /\ task[w].step = "match" /\ TaskOK(task[w]) /\ ApplyTask(w, task[w])
          /\ \A f \in task[w].files : CanAttach(f, request[task[w].request].user)
      BY <2>5 DEF AttachFind, At, IInv, GInv
    <3>2. /\ task'[w].step = "attach" /\ task'[w].request = task[w].request
          /\ task'[w].files = task[w].files /\ task'[w].todo = task[w].files
      BY <2>5 DEF AttachFind, Hold, IInv
    <3>3. ASSUME NEW f \in task[w].files
          PROVE  file[f] = [owner |-> request[task[w].request].user, of |-> Pending]
      <4>1. f \in Uploaded /\ file[f].owner = request[task[w].request].user
            /\ file[f].of = Pending
        BY <3>1 DEF CanAttach
      <4>2. file[f] \in [owner : Accounts, of : Owners]
        BY <4>1 DEF Uploaded, IInv, DocsOK, TypeOK
      <4> QED
        BY <4>1, <4>2
    <3>4. UNCHANGED file
      BY <2>5 DEF AttachFind, docs
    <3> QED
      BY <1>1, <3>1, <3>2, <3>3, <3>4 DEF ApplyTask, ApplySteps
  <2> QED
    BY <2>1, <2>2, <2>3, <2>4, <2>5 DEF ApplyLook
<1> QED
  BY <1>2, <1>3, <1>4, <1>5, <1>7, ApplyWork

LEMMA CreateGInv ==
  ASSUME IInv, GInv, OneApplicant, NEW w \in Workers, ApplyCreate(w)
  PROVE  GInv'
<1>1. PICK r \in Requests \ Made(request) :
        /\ request' = [request EXCEPT ![r] =
             [ status |-> "submitted", user |-> task[w].user, slug |-> task[w].slug,
               files |-> {} ]]
        /\ Hold(w, [step |-> "match", request |-> r, files |-> task[w].files])
  BY DEF ApplyCreate
<1>2. /\ request'[r].files = {} /\ DOMAIN request' = Requests /\ DOMAIN request = Requests
      /\ \A x \in Requests : x # r => request'[x] = request[x]
  BY <1>1 DEF IInv, DocsOK, TypeOK
<1>3. FilesKept /\ UNCHANGED << env, file >>
  BY DEF ApplyCreate, same, FilesKept
<1>4. UsersKept /\ RequestsKept
  BY <1>1, <1>2, <1>3 DEF UsersKept, RequestsKept, Made
<1>5. FilesOfRequests'
  BY <1>3, <1>4, LinksKept DEF GInv
<1>6. /\ \A v \in Workers : v # w => task'[v] = task[v]
      /\ task'[w].step = "match"
  BY <1>1 DEF Hold, IInv
<1>7. "apply" \in env.duties[w]
  BY DEF ApplyCreate, At, GInv, ApplyTask, ApplySteps
<1>8. ApplyTask(w, task[w])'
  BY <1>3, <1>6, <1>7 DEF ApplyTask
<1> QED
  BY <1>3, <1>4, <1>5, <1>6, <1>8, ApplyWork

\* The one step that changes a file: it is pending, so no application lists it.
LEMMA AttachGInv ==
  ASSUME IInv, GInv, OneApplicant, NEW w \in Workers, AttachSave(w)
  PROVE  GInv'
<1> DEFINE r == task[w].request
<1>1. task[w].step = "attach" /\ TaskOK(task[w]) /\ ApplyTask(w, task[w])
  BY DEF AttachSave, At, IInv, GInv
<1>2. /\ task[w] \in [step : {"attach"}, request : Requests, files : SUBSET Files,
                      todo : SUBSET Files]
      /\ \A f \in task[w].files : f \in Uploaded
  BY <1>1, AttachTask
<1>3. /\ "apply" \in env.duties[w] /\ task[w].todo \subseteq task[w].files
      /\ \A f \in task[w].files :
           file[f] = [owner |-> request[r].user, of |-> IF f \in task[w].todo THEN Pending ELSE r]
  BY <1>1 DEF ApplyTask, ApplySteps
<1>4. PICK f \in task[w].todo :
        /\ file' = [file EXCEPT ![f].of = r]
        /\ Hold(w, [task[w] EXCEPT !.todo = @ \ {f}])
  BY DEF AttachSave
<1>5. f \in Files /\ file[f] = [owner |-> request[r].user, of |-> Pending]
  BY <1>2, <1>3
<1>6. /\ file'[f] = [owner |-> request[r].user, of |-> r]
      /\ \A g \in Files : g # f => file'[g] = file[g]
  BY <1>4, <1>5 DEF IInv, DocsOK, TypeOK
<1>7. UNCHANGED << env, request >>
  BY DEF AttachSave, same
<1>8. FilesOfRequests'
  <2>1. ASSUME NEW x \in Made(request), NEW g \in request[x].files
        PROVE  file'[g] = [owner |-> request[x].user, of |-> x]
    <3>1. g \in Files /\ file[g].of = x /\ x \in Requests
      BY LinkedIsUploaded DEF GInv, Uploaded
    <3>2. g # f
      BY <1>5, <3>1, DocumentsAssumption
    <3> QED
      BY <1>6, <3>1, <3>2 DEF GInv, FilesOfRequests
  <2> QED
    BY <1>7, <2>1 DEF FilesOfRequests, Made
<1>9. ASSUME NEW v \in Workers
      PROVE  ApplyTask(v, task[v])'
  <2>1. CASE v = w
    <3>1. /\ task'[w].step = "attach" /\ task'[w].request = r /\ task'[w].files = task[w].files
          /\ task'[w].todo = task[w].todo \ {f}
      BY <1>2, <1>4 DEF Hold, IInv
    <3>2. ASSUME NEW g \in task[w].files
          PROVE  file'[g] = [ owner |-> request[r].user,
                              of |-> IF g \in task[w].todo \ {f} THEN Pending ELSE r ]
      <4>1. CASE g = f
        BY <1>6, <4>1
      <4>2. CASE g # f
        BY <1>2, <1>3, <1>6, <4>2
      <4> QED
        BY <4>1, <4>2
    <3> QED
      BY <1>3, <1>7, <2>1, <3>1, <3>2 DEF ApplyTask
  <2>2. CASE v # w
    <3>1. task'[v] = task[v]
      BY <1>4, <2>2 DEF Hold, IInv
    <3>2. task[v].step \notin ApplySteps
      BY <1>3, <2>2, OneOnly DEF GInv, ApplyTask
    <3> QED
      BY <3>1, <3>2 DEF ApplyTask, ApplySteps
  <2> QED
    BY <2>1, <2>2
<1> QED
  BY <1>8, <1>9 DEF GInv

LEMMA LinkGInv ==
  ASSUME IInv, GInv, OneApplicant, NEW w \in Workers, ApplyLink(w)
  PROVE  GInv'
<1> DEFINE d == task[w].request
<1>1. task[w].step = "attach" /\ TaskOK(task[w]) /\ ApplyTask(w, task[w]) /\ task[w].todo = {}
  BY DEF ApplyLink, At, IInv, GInv
<1>2. d \in Made(request) /\ d \in Requests /\ request[d] \in RequestDocs
  BY <1>1, AttachTask, MadeRequest DEF IInv, DocsOK
<1>3. \A f \in task[w].files : file[f] = [owner |-> request[d].user, of |-> d]
  BY <1>1 DEF ApplyTask
<1>4. request' = [request EXCEPT ![d].files = task[w].files] /\ UNCHANGED << env, file >>
  BY DEF ApplyLink, same
<1>5. PICK x : x = [request[d] EXCEPT !.files = task[w].files]
  OBVIOUS
<1>6. /\ x.user = request[d].user /\ x.files = task[w].files /\ x.status = request[d].status
  BY <1>2, <1>5 DEF RequestDocs
<1>7. /\ request'[d] = x /\ DOMAIN request' = Requests /\ DOMAIN request = Requests
      /\ \A r \in Requests : r # d => request'[r] = request[r]
  BY <1>2, <1>4, <1>5 DEF IInv, DocsOK, TypeOK
<1>8. FilesKept /\ UsersKept
  BY <1>2, <1>4, <1>6, <1>7 DEF FilesKept, UsersKept, Made
<1>9. FilesOfRequests'
  <2>1. ASSUME NEW r \in Made(request)', NEW f \in request'[r].files
        PROVE  file'[f] = [owner |-> request'[r].user, of |-> r]
    <3>1. CASE r = d
      BY <1>3, <1>4, <1>6, <1>7, <2>1, <3>1
    <3>2. CASE r # d
      <4>1. r \in Made(request) /\ request'[r] = request[r]
        BY <1>7, <2>1, <3>2 DEF Made
      <4> QED
        BY <1>4, <2>1, <4>1 DEF GInv, FilesOfRequests
    <3> QED
      BY <3>1, <3>2
  <2> QED
    BY <2>1 DEF FilesOfRequests
<1>10. \A v \in Workers : v # w => task'[v] = task[v]
  BY DEF ApplyLink, Finish, Hold, IInv
<1>11. ApplyTask(w, task[w])'
  BY DEF ApplyLink, Finish, Hold, Idle, IInv, ApplyTask, ApplySteps
<1> QED
  BY <1>8, <1>9, <1>10, <1>11, ApplyWork

LEMMA NextGInv == IInv /\ GInv /\ [Next]_vars => GInv'
<1> SUFFICES ASSUME IInv, GInv, [Next]_vars PROVE GInv'
  OBVIOUS
<1>1. env' = env
  BY DEF Next, vars, accountVars, AccountActions, RegisterFind, RegisterCreate, LoginFind,
     LoginSign, Fail, Logout, Block, Applying, Reviewing, Designing, Judging, UploadPending,
     ApplyStart, ApplyLook, ApplyCreate, AttachFind, AttachSave, ApplyLink, ReviewRead,
     ApproveProfile, ApproveRole, ReviewDecide, CreateDesign, SubmitRead, UpdateRead,
     UpdateSave, UploadRead, UploadStore, UploadMain, UploadPreview, JudgeRead, StatusSave, same
<1>2. CASE ~OneApplicant
  BY <1>1, <1>2 DEF GInv, OneApplicant
<1>3. CASE OneApplicant
  <2>1. CASE UNCHANGED vars
    BY <2>1 DEF vars, accountVars, docs, GInv, OneApplicant, FilesOfRequests, Made, ApplyTask
  <2>2. CASE AccountActions /\ UNCHANGED docs
    BY <1>3, <2>2, AccountsGInv
  <2>3. ASSUME NEW w \in Workers, Applying(w)
        PROVE  GInv'
    BY <1>3, <2>3, ApplyingGInv, CreateGInv, AttachGInv, LinkGInv DEF Applying
  <2>4. ASSUME NEW w \in Workers, Reviewing(w)
        PROVE  GInv'
    BY <1>3, <2>4, ReviewsGInv
  <2>5. ASSUME NEW w \in Workers, Designing(w) \/ Judging(w)
        PROVE  GInv'
    BY <1>3, <2>5, DesignsGInv
  <2> QED
    BY <2>1, <2>2, <2>3, <2>4, <2>5 DEF Next
<1> QED
  BY <1>2, <1>3

(* A file an application lists was uploaded by its user and is attached to   *)
(* it and to no other application: attachPendingFiles takes only pending     *)
(* files of the user, which is enough as long as one request at a time       *)
(* applies, whatever is uploaded for designs, listed by them and reviewed    *)
(* meanwhile and whichever call fails.                                       *)
THEOREM AttachedToOne == Spec => []AttachedFilesBelong
<1>1. Init => GInv
  BY DEF Init, GInv, FilesOfRequests, ApplyTask, ApplySteps, Made, Absent, AccountsInit, Idle
<1>2. GInv => AttachedFilesBelong
  BY DEF GInv, FilesOfRequests, AttachedFilesBelong
<1> QED
  BY <1>1, <1>2, InitIInv, NextIInv, NextGInv, PTL DEF Spec
=============================================================================
