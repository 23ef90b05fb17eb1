------------------------------- MODULE Studio -------------------------------
(***************************************************************************)
(* How a user becomes a designer and how designs come to be:               *)
(* RequestsService (applications and their review), DesignerProfiles-      *)
(* Service, FilesService and DesignsService, for the users of Accounts.    *)
(***************************************************************************)
EXTENDS Accounts

CONSTANTS
  Requests, Files, Designs, \* identifiers of the documents
  Slugs,                    \* names a profile can be reached by
  MaxVersion                \* bound on the saves of a design's lists

ASSUME NoneAssumption == "none" \notin Accounts

VARIABLES
  profile,  \* the designer profiles
  request,  \* the designer applications
  file,     \* the file assets
  design    \* the design documents

docs == << profile, request, file, design >>
vars == << accountVars, docs >>

\* ACTIVE_DESIGNER_APPLICATION_STATUSES, RESUBMITTABLE_STATUSES and the statuses
\* of both reviews.
ActiveStatuses == {"submitted", "under_review", "needs_changes"}
ResubmittableStatuses == {"draft", "needs_changes"}
ReviewStatuses == {"approved", "rejected", "needs_changes"}
RequestStatuses == {"submitted", "needs_changes", "approved", "rejected"}
DesignStatuses ==
  {"draft", "submitted", "needs_changes", "resubmitted", "approved", "rejected"}

Absent == [status |-> "absent"]
NoFile == [owner |-> "none", of |-> "none"]
Pending == "pending"        \* the file belongs to no resource yet
\* Identifiers are told apart.
ASSUME DocumentsAssumption ==
  Requests \cap Designs = {} /\ Pending \notin Requests \cup Designs
Made(doc) == { x \in DOMAIN doc : doc[x].status # "absent" }
Uploaded == { f \in Files : file[f] # NoFile }

Init ==
  /\ AccountsInit
  /\ profile = {}
  /\ request = [r \in Requests |-> Absent]
  /\ file = [f \in Files |-> NoFile]
  /\ design = [d \in Designs |-> Absent]

same == << env, account, session >>

-----------------------------------------------------------------------------
(* Applications *)

\* A pending file of the application: validated, stored, its asset created.
UploadPending(w) ==
  /\ Free(w, "apply")
  /\ \E a \in Accounts : \E f \in Files \ Uploaded :
       /\ Admitted(a, "apply")
       /\ file' = [file EXCEPT ![f] = [owner |-> a, of |-> Pending]]
  /\ UNCHANGED << same, task, profile, request, design >>

\* createDesignerApplication: a designer needs none.
ApplyStart(w) ==
  /\ Free(w, "apply")
  /\ \E a \in Accounts : \E S \in SUBSET Uploaded : \E slug \in Slugs :
       /\ Admitted(a, "apply")
       /\ account[a].role # "designer"
       /\ Hold(w, [step |-> "look", user |-> a, files |-> S, slug |-> slug])
  /\ UNCHANGED << same, docs >>

\* An application that is still active is looked for.
ApplyLook(w) ==
  /\ At(w, "look")
  /\ IF \E r \in Made(request) : /\ request[r].user = task[w].user
                                 /\ request[r].status \in ActiveStatuses
     THEN Finish(w)
     ELSE Go(w, "apply")
  /\ UNCHANGED << same, docs >>

\* The application is created; its files are not attached yet.
ApplyCreate(w) ==
  /\ At(w, "apply")
  /\ \E r \in Requests \ Made(request) :
       /\ request' = [request EXCEPT ![r] =
            [ status |-> "submitted", user |-> task[w].user, slug |-> task[w].slug,
              files |-> {} ]]
       /\ Hold(w, [step |-> "match", request |-> r, files |-> task[w].files])
  /\ UNCHANGED << same, profile, file, design >>

\* Mutant: any file of the user can be attached.
CanAttachUsed(f, a) == f \in Uploaded /\ file[f].owner = a

CanAttach(f, a) == f \in Uploaded /\ file[f].owner = a /\ file[f].of = Pending

\* attachPendingFiles: the files are read; one that is not a pending file of
\* this user refuses them all, and the application stays as it is.
AttachFind(w) ==
  /\ At(w, "match")
  /\ LET a == request[task[w].request].user
     IN IF \A f \in task[w].files : CanAttach(f, a)
        THEN Hold(w, [ step |-> "attach", request |-> task[w].request,
                       files |-> task[w].files, todo |-> task[w].files ])
        ELSE Finish(w)
  /\ UNCHANGED << same, docs >>

\* The files are saved, in any order.
AttachSave(w) ==
  /\ At(w, "attach")
  /\ \E f \in task[w].todo :
       /\ file' = [file EXCEPT ![f].of = task[w].request]
       /\ Hold(w, [task[w] EXCEPT !.todo = @ \ {f}])
  /\ UNCHANGED << same, profile, request, design >>

\* The application is saved with its files.
ApplyLink(w) ==
  /\ At(w, "attach")
  /\ task[w].todo = {}
  /\ request' = [request EXCEPT ![task[w].request].files = task[w].files]
  /\ Finish(w)
  /\ UNCHANGED << same, profile, file, design >>

\* reviewDesignerApplication: the application is read, whatever its status.
ReviewRead(w) ==
  /\ Free(w, "review")
  /\ \E a \in Accounts : Admitted(a, "review")
  /\ \E r \in Made(request) : \E s \in ReviewStatuses :
       Hold(w, [ request |-> r, status |-> s, read |-> request[r].status,
                 step |-> IF s = "approved" THEN "profile" ELSE "decide" ])
  /\ UNCHANGED << same, docs >>

\* Mutant: no unique index on the profiles.
CreateAnyProfile(w) ==
  /\ At(w, "profile")
  /\ LET r == request[task[w].request]
     IN profile' = profile \cup {[user |-> r.user, slug |-> r.slug]}
  /\ Go(w, "role")
  /\ UNCHANGED << same, request, file, design >>

\* createApprovedProfile: the unique indexes on userId and slug refuse a second.
ApproveProfile(w) ==
  /\ At(w, "profile")
  /\ LET r == request[task[w].request]
     IN IF \E p \in profile : p.user = r.user \/ p.slug = r.slug
        THEN Finish(w) /\ UNCHANGED profile
        ELSE profile' = profile \cup {[user |-> r.user, slug |-> r.slug]} /\ Go(w, "role")
  /\ UNCHANGED << same, request, file, design >>

ApproveRole(w) ==
  /\ At(w, "role")
  /\ account' = [account EXCEPT ![request[task[w].request].user].role = "designer"]
  /\ Go(w, "decide")
  /\ UNCHANGED << env, session, docs >>

\* Mutant: an approval is saved before the profile is created.
DecideFirst(w) ==
  /\ At(w, "decide") \/ At(w, "profile")
  /\ request' = [request EXCEPT ![task[w].request].status =
       IF task[w].status # task[w].read THEN task[w].status ELSE @]
  /\ Finish(w)
  /\ UNCHANGED << same, profile, file, design >>

\* The application is saved: its status, if it differs from the one read.
ReviewDecide(w) ==
  /\ At(w, "decide")
  /\ request' = [request EXCEPT ![task[w].request].status =
       IF task[w].status # task[w].read THEN task[w].status ELSE @]
  /\ Finish(w)
  /\ UNCHANGED << same, profile, file, design >>

-----------------------------------------------------------------------------
(* Designs *)

\* The files a request names for a design are any ids, whether uploaded or not and
\* by whomever: at most one main file, and lists, of which one (the previews)
\* stands for all and is kept as the set of its files.
MainFiles == { S \in SUBSET Files : Cardinality(S) <= 1 }

CreateDesign(w) ==
  /\ Free(w, "design")
  /\ \E a \in Accounts : \E d \in Designs \ Made(design) :
     \E main \in MainFiles : \E previews \in SUBSET Files :
       /\ Admitted(a, "design")
       /\ design' = [design EXCEPT ![d] =
            [ status |-> "draft", owner |-> a, main |-> main, previews |-> previews,
              version |-> 0 ]]
  /\ UNCHANGED << same, task, profile, request, file >>

\* findOwnedDesign, the first step of every request about a design.
Opens(w, d) ==
  /\ Free(w, "design")
  /\ d \in Made(design)
  /\ Admitted(design[d].owner, "design")

\* submitDesignerDesign: drafts, and designs sent back.
SubmitRead(w) ==
  /\ \E d \in Designs :
       /\ Opens(w, d)
       /\ design[d].status \in ResubmittableStatuses
       /\ Hold(w, [ step |-> "status", design |-> d, read |-> design[d].status,
                    status |-> IF design[d].status = "needs_changes"
                               THEN "resubmitted" ELSE "submitted" ])
  /\ UNCHANGED << same, docs >>

\* reviewDesign: whatever the status is.
JudgeRead(w) ==
  /\ Free(w, "judge")
  /\ \E a \in Accounts : Admitted(a, "judge")
  /\ \E d \in Made(design) : \E s \in ReviewStatuses :
       Hold(w, [step |-> "status", design |-> d, read |-> design[d].status, status |-> s])
  /\ UNCHANGED << same, docs >>

\* The new status is saved, if it differs from the one read.
StatusSave(w) ==
  /\ At(w, "status")
  /\ design' = [design EXCEPT ![task[w].design].status =
       IF task[w].status # task[w].read THEN task[w].status ELSE @]
  /\ Finish(w)
  /\ UNCHANGED << same, profile, request, file >>

\* updateDesignerDesign: the copy read
UpdateRead(w) ==
  /\ \E d \in Designs :
       /\ Opens(w, d)
       /\ design[d].version < MaxVersion
       /\ Hold(w, [ step |-> "list", design |-> d, main |-> design[d].main,
                    previews |-> design[d].previews, version |-> design[d].version ])
  /\ UNCHANGED << same, docs >>

\* is given the main file and the list of the request, if it has them, and what
\* differs from the copy is saved; `refused` is what a replaced list meets.
SaveFiles(w, refused) ==
  LET t == task[w]
  IN \E main \in MainFiles :
       LET kept == [design EXCEPT ![t.design].main = IF main = t.main THEN @ ELSE main]
       IN /\ main = {} => t.main = {}
          /\ \/ design' = kept
             \/ \E previews \in SUBSET Files :
                  design' = IF refused THEN design
                            ELSE [kept EXCEPT ![t.design].previews = previews,
                                              ![t.design].version = @ + 1]

\* Mutant: the version is not compared.
UpdateAnyVersion(w) ==
  /\ At(w, "list")
  /\ SaveFiles(w, FALSE)
  /\ Finish(w)
  /\ UNCHANGED << same, profile, request, file >>

\* A save that replaces a list is refused when the version has moved on.
UpdateSave(w) ==
  /\ At(w, "list")
  /\ SaveFiles(w, design[task[w].design].version # task[w].version)
  /\ Finish(w)
  /\ UNCHANGED << same, profile, request, file >>

\* uploadDesignerFile: the design is read, whatever its status,
UploadRead(w) ==
  /\ \E d \in Designs :
       /\ Opens(w, d)
       /\ design[d].version < MaxVersion
       /\ \E category \in {"main", "previews"} :
            Hold(w, [step |-> "store", design |-> d, category |-> category])
  /\ UNCHANGED << same, docs >>

\* the file is stored as the design's,
UploadStore(w) ==
  /\ At(w, "store")
  /\ \E f \in Files \ Uploaded :
       /\ file' = [file EXCEPT ![f] =
            [owner |-> design[task[w].design].owner, of |-> task[w].design]]
       /\ Hold(w, [step |-> task[w].category, design |-> task[w].design, file |-> f])
  /\ UNCHANGED << same, profile, request, design >>

\* and the design is saved with it as its main file
UploadMain(w) ==
  /\ At(w, "main")
  /\ design' = [design EXCEPT ![task[w].design].main = {task[w].file}]
  /\ Finish(w)
  /\ UNCHANGED << same, profile, request, file >>

\* or added to its list: what is pushed is added to the stored list.
UploadPreview(w) ==
  /\ At(w, "previews")
  /\ design' = [design EXCEPT ![task[w].design].previews = @ \cup {task[w].file},
                              ![task[w].design].version = @ + 1]
  /\ Finish(w)
  /\ UNCHANGED << same, profile, request, file >>

-----------------------------------------------------------------------------
Applying(w) ==
  UploadPending(w) \/ ApplyStart(w) \/ ApplyLook(w) \/ ApplyCreate(w)
  \/ AttachFind(w) \/ AttachSave(w) \/ ApplyLink(w)
Reviewing(w) == ReviewRead(w) \/ ApproveProfile(w) \/ ApproveRole(w) \/ ReviewDecide(w)
Designing(w) ==
  CreateDesign(w) \/ SubmitRead(w) \/ UpdateRead(w) \/ UpdateSave(w)
  \/ UploadRead(w) \/ UploadStore(w) \/ UploadMain(w) \/ UploadPreview(w)
Judging(w) == JudgeRead(w) \/ StatusSave(w)

Next ==
  \/ AccountActions /\ UNCHANGED docs
  \/ \E w \in Workers : Applying(w) \/ Reviewing(w) \/ Designing(w) \/ Judging(w)

Spec == Init /\ [][Next]_vars

-----------------------------------------------------------------------------
(* Properties *)

Owners == Requests \cup Designs \cup {Pending}

\* Types of the documents; of the statuses the schemas name, those the code sets.
TypeOK ==
  /\ account \in [Accounts -> User \cup {NoAccount}]
  /\ session \subseteq Accounts
  /\ profile \subseteq [user : Accounts, slug : Slugs]
  /\ request \in [Requests -> {Absent} \cup
       [ status : RequestStatuses, user : Accounts, slug : Slugs,
         files : SUBSET Files ]]
  /\ file \in [Files -> {NoFile} \cup [owner : Accounts, of : Owners]]
  /\ design \in [Designs -> {Absent} \cup
       [ status : DesignStatuses, owner : Accounts, main : SUBSET Files,
         previews : SUBSET Files, version : Nat ]]

\* An address has one account, a user one profile and a profile's slug one user,
\* whatever requests overlap: each is looked for, if at all, one call before it
\* is created.
OneOfEach ==
  /\ \A a, b \in Known : account[a].email = account[b].email => a = b
  /\ \A p, q \in profile : p.user = q.user \/ p.slug = q.slug => p = q

\* An application is approved only when its user is a designer with a profile,
\* though the three are saved one after the other, reviews overlap and calls fail.
ApprovedHasProfile ==
  \A r \in Made(request) : request[r].status = "approved" =>
    /\ account[request[r].user].role = "designer"
    /\ \E p \in profile : p.user = request[r].user

\* Who has handed in one request at a time.
OneApplicant == Cardinality({ w \in Workers : "apply" \in env.duties[w] }) = 1

\* A file an application lists is one its user uploaded and is attached to it, so
\* that no other application lists it, whatever else its user sends and whichever
\* call fails; as long as the applications of a user do not overlap.
AttachedFilesBelong ==
  OneApplicant => \A r \in Made(request) : \A f \in request[r].files :
    file[f] = [owner |-> request[r].user, of |-> r]

\* An update of a design's list of files, which may set any list, removes only
\* files it has seen: uploads that end meanwhile, of which the form for a new
\* design starts several at once, are kept.
UploadsKept ==
  [][ \A d \in Made(design) : \A f \in design[d].previews \ design'[d].previews :
        \E w \in Workers : At(w, "list") /\ f \in task[w].previews ]_vars
=============================================================================
