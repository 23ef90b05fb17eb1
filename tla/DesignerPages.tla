---------------------------- MODULE DesignerPages ----------------------------
(***************************************************************************)
(* What a designer does in the web client: the application, whose files    *)
(* are uploaded at once before it is sent; the form of a new design, which *)
(* creates it, uploads its files in three waves and may submit it; and the *)
(* list of designs.  Each form is a chain of requests, any of which may    *)
(* fail; what was done before the failure stays.  A request and its answer *)
(* are one step, except on the list, where answers can cross.              *)
(***************************************************************************)
EXTENDS Naturals

CONSTANTS
  Designs,      \* designs that can be created
  Portfolio,    \* the files at hand: [category, n, type, fits]
  NoDesign,
  DesignerEnvs  \* [page, patient, faults, others, slug]: the page opened first,
                \* whether its user waits, whether calls fail, whether designs are
                \* reviewed meanwhile, whether the form is given a slug

VARIABLES
  mood,         \* the one of DesignerEnvs this behaviour is in
  design,       \* the designs as the API keeps them
  application,  \* the designer application as the API keeps it
  page,         \* application, form or list
  chain,        \* where the form is: [at, of, chosen, ids, submit]
  uploads,      \* uploads under way: [of, file]
  told,         \* what the form says
  designs,      \* the list shown
  submittingId, \* the design whose button is disabled
  calls,        \* requests of the list under way
  submitted     \* what the form has submitted: [of, chosen]

designerVars ==
  << mood, design, application, page, chain, uploads, told, designs, submittingId,
     calls, submitted >>

NoUpload == [status |-> "absent", files |-> {}]
Undone == [at |-> "idle", of |-> NoDesign, chosen |-> {}, ids |-> {}, submit |-> FALSE]

\* Types that the file inputs of the forms accept,
Accept ==
  [ c \in {"design_original", "design_preview", "mockup", "designer_application_file"} |->
      IF c \in {"design_original", "designer_application_file"}
      THEN {"jpeg", "png", "webp", "pdf"} ELSE {"jpeg", "png", "webp"} ]

\* and those FILE_RULES allows: the images, and pdf as well.
IMAGE_TYPES == {"jpeg", "png", "webp"}
FILE_RULES ==
  [ design_original |-> [types |-> IMAGE_TYPES \cup {"pdf"}, roles |-> {"designer", "admin"}],
    design_preview |-> [types |-> IMAGE_TYPES, roles |-> {"designer", "admin"}],
    mockup |-> [types |-> IMAGE_TYPES, roles |-> {"designer", "admin"}],
    designer_application_file |->
      [types |-> IMAGE_TYPES \cup {"pdf"}, roles |-> {"user", "designer", "admin"}] ]

role == IF page = "application" THEN "user" ELSE "designer"

\* The validation of an upload, the size of its file included.
Valid(f) ==
  LET rule == FILE_RULES[f.category]
  IN role \in rule.roles /\ f.type \in rule.types /\ f.fits

\* The files that can be chosen for a category.
Of(category) ==
  { f \in Portfolio : f.category = category /\ f.type \in Accept[category] }

Mine == { u \in uploads : u.of = chain.of }

DesignerInit ==
  /\ mood \in DesignerEnvs
  /\ design = [d \in Designs |-> NoUpload]
  /\ application = NoUpload
  /\ page = mood.page
  /\ chain = Undone
  /\ uploads = {} /\ told = {}
  /\ designs = [d \in Designs |-> NoUpload]
  /\ submittingId = NoDesign
  /\ calls = IF page = "list" THEN {[kind |-> "load", of |-> NoDesign, done |-> FALSE,
                                     reply |-> design]} ELSE {}
  /\ submitted = {}

api == << design, application >>
onList == << designs, submittingId, calls >>

-----------------------------------------------------------------------------
(* The chains of requests *)

\* The form stops with an error and keeps what was chosen; uploads that were
\* started go on.
Stop ==
  /\ chain' = [Undone EXCEPT !.chosen = chain.chosen]
  /\ told' = {"error"}

\* The next stage of the chain, and the uploads it starts.
Stage(at, of, category) ==
  /\ chain' = [chain EXCEPT !.at = at, !.of = of]
  /\ uploads' = uploads \cup { [of |-> of, file |-> f] : f \in chain.chosen \cap Of(category) }

\* handleSubmit of the form, and handleApply: one original, any other files.
Fill(at, categories) ==
  /\ chain.at = "idle"
  /\ mood.patient => uploads = {}
  /\ \E chosen \in SUBSET UNION { Of(c) : c \in categories } : \E submit \in BOOLEAN :
       /\ \A f, g \in chosen \cap Of("design_original") : f = g
       /\ chain' = [Undone EXCEPT !.at = at, !.chosen = chosen, !.submit = submit]
  /\ told' = {}
  /\ UNCHANGED << mood, api, page, uploads, onList, submitted >>

handleSubmit ==
  page = "form" /\ Fill("create", {"design_original", "design_preview", "mockup"})

\* createDesignerDesign: a slug in use is refused by its unique index.
SlugTaken == mood.slug /\ \E d \in Designs : design[d] # NoUpload
NewDraft(d) ==
  /\ ~SlugTaken /\ design[d] = NoUpload
  /\ design' = [design EXCEPT ![d] = [status |-> "draft", files |-> {}]]

CreateDesign ==
  /\ chain.at = "create"
  /\ \/ SlugTaken /\ Stop /\ UNCHANGED << design, uploads >>
     \/ \E d \in Designs :
          /\ NewDraft(d)
          /\ Stage("design_original", d, "design_original") /\ UNCHANGED told
  /\ UNCHANGED << mood, application, page, onList, submitted >>

\* Mutant: the uploads are started and not waited for.
NotAwaited == TRUE

\* A wave of uploads has to end before the next starts.
Uploaded == Mine = {}

UploadPreviews ==
  /\ chain.at = "design_original" /\ Uploaded
  /\ Stage("design_preview", chain.of, "design_preview")
  /\ UNCHANGED << mood, api, page, told, onList, submitted >>

UploadMockups ==
  /\ chain.at = "design_preview" /\ Uploaded
  /\ Stage("mockup", chain.of, "mockup")
  /\ UNCHANGED << mood, api, page, told, onList, submitted >>

\* The page is left for the list, which is loaded; on the list itself nothing is.
OpenList ==
  /\ page' = "list"
  /\ IF page = "list" THEN UNCHANGED onList
     ELSE /\ designs' = [d \in Designs |-> NoUpload]
          /\ submittingId' = NoDesign
          /\ calls' = {[kind |-> "load", of |-> NoDesign, done |-> FALSE, reply |-> design]}

ResubmittableStatuses == {"draft", "needs_changes"}
Submits(d) ==
  [design EXCEPT ![d].status = IF @ = "draft" THEN "submitted" ELSE "resubmitted"]

\* The end of handleSubmit: submitDesignerDesign if it was asked for, and the
\* router, wherever the user has gone meanwhile.
FinishDesign ==
  /\ chain.at = "mockup" /\ Uploaded
  /\ IF chain.submit /\ design[chain.of].status \notin ResubmittableStatuses
     THEN Stop /\ UNCHANGED << design, submitted, page, onList >>
     ELSE /\ chain' = Undone /\ UNCHANGED told
          /\ design' = IF chain.submit THEN Submits(chain.of) ELSE design
          /\ submitted' = IF chain.submit
                          THEN submitted \cup {[of |-> chain.of, chosen |-> chain.chosen]}
                          ELSE submitted
          /\ OpenList
  /\ UNCHANGED << mood, application, uploads >>

\* handleApply uploads its files at once (those of an attempt that failed have
\* ended),
handleApply ==
  /\ page = "application"
  /\ chain.at = "idle" /\ uploads = {}
  /\ \E chosen \in SUBSET Of("designer_application_file") :
       /\ chain' = [Undone EXCEPT !.at = "apply", !.chosen = chosen]
       /\ uploads' = uploads \cup { [of |-> NoDesign, file |-> f] : f \in chosen }
  /\ told' = {}
  /\ UNCHANGED << mood, api, page, onList, submitted >>

\* and sends the application with them; an active one refuses another.  Resetting
\* the form afterwards throws, because the event has no current target any more,
\* so an error is shown beside the success.
Apply ==
  /\ chain.at = "apply" /\ Uploaded
  /\ IF application = NoUpload
     THEN /\ application' = [status |-> "submitted", files |-> chain.ids]
          /\ submitted' = submitted \cup {[of |-> NoDesign, chosen |-> chain.chosen]}
          /\ chain' = Undone /\ told' = {"success", "error"}
     ELSE Stop /\ UNCHANGED << application, submitted >>
  /\ UNCHANGED << mood, design, page, uploads, onList >>

\* The API stores a file, whatever the status of the design, or refuses it, which
\* stops the form that waits for it.
Upload(u) ==
  /\ IF Valid(u.file)
     THEN /\ design' = IF u.of = NoDesign THEN design
                       ELSE [design EXCEPT ![u.of].files = @ \cup {u.file}]
          /\ chain' = IF chain.at = "apply" THEN [chain EXCEPT !.ids = @ \cup {u.file}]
                      ELSE chain
          /\ UNCHANGED told
     ELSE /\ IF u \in Mine THEN Stop ELSE UNCHANGED << chain, told >>
          /\ UNCHANGED design
  /\ uploads' = uploads \ {u}
  /\ UNCHANGED << mood, application, page, onList, submitted >>

UploadFails(u) ==
  /\ mood.faults
  /\ IF u \in Mine THEN Stop ELSE UNCHANGED << chain, told >>
  /\ uploads' = uploads \ {u}
  /\ UNCHANGED << mood, api, page, onList, submitted >>

\* Another call of the chain fails; when it is its answer that is lost, the design
\* was created or submitted, or the application sent, nevertheless.
CallFails ==
  /\ mood.faults
  /\ \/ /\ chain.at \in {"create", "apply", "mockup"} /\ Uploaded
        /\ chain.at = "mockup" => chain.submit
        /\ UNCHANGED api
     \/ /\ chain.at = "create"
        /\ \E d \in Designs : NewDraft(d)
        /\ UNCHANGED application
     \/ /\ chain.at = "apply" /\ Uploaded /\ application = NoUpload
        /\ application' = [status |-> "submitted", files |-> chain.ids]
        /\ UNCHANGED design
     \/ /\ chain.at = "mockup" /\ Uploaded /\ chain.submit
        /\ design[chain.of].status \in ResubmittableStatuses
        /\ design' = Submits(chain.of)
        /\ UNCHANGED application
  /\ Stop
  /\ UNCHANGED << mood, page, uploads, onList, submitted >>

-----------------------------------------------------------------------------
(* The list of designs *)

\* The links between the form and the list; a form that is opened anew is empty.
LeaveForm ==
  /\ page = "form" /\ (mood.patient => chain.at = "idle" /\ uploads = {})
  /\ OpenList
  /\ UNCHANGED << mood, api, chain, uploads, told, submitted >>

NewDesign ==
  /\ page = "list" /\ chain.at = "idle" /\ calls = {}
  /\ page' = "form" /\ told' = {}
  /\ UNCHANGED << mood, api, chain, uploads, onList, submitted >>

canSubmit(d) == designs[d].status \in {"draft", "needs_changes"}

\* handleSubmitDesign
handleSubmitDesign ==
  /\ page = "list" /\ (mood.patient => calls = {})
  /\ \E d \in Designs \ {submittingId} :
       /\ canSubmit(d)
       /\ submittingId' = d
       /\ calls' = calls \cup {[kind |-> "submit", of |-> d, done |-> FALSE, reply |-> designs]}
  /\ UNCHANGED << mood, api, page, chain, uploads, told, designs, submitted >>

Answer(c) == calls' = (calls \ {c}) \cup {[c EXCEPT !.done = TRUE, !.reply = design']}

ServeCall(c) ==
  /\ ~c.done
  /\ IF c.kind = "load" THEN UNCHANGED design
     ELSE design[c.of].status \in ResubmittableStatuses /\ design' = Submits(c.of)
  /\ Answer(c)
  /\ UNCHANGED << mood, application, page, chain, uploads, told, designs, submittingId,
                  submitted >>

ReceiveLoad(c) ==
  /\ c.done /\ c.kind = "load"
  /\ designs' = c.reply
  /\ calls' = calls \ {c}
  /\ UNCHANGED << mood, api, page, chain, uploads, told, submittingId, submitted >>

\* Mutant: the design is shown as it was, the answer is not used.
KeepShown(c) == UNCHANGED designs

ShowSubmitted(c) == designs' = [designs EXCEPT ![c.of] = c.reply[c.of]]

\* The answer replaces the design; every button is enabled again.
ReceiveSubmitted(c) ==
  /\ c.done /\ c.kind = "submit"
  /\ ShowSubmitted(c)
  /\ submittingId' = NoDesign
  /\ calls' = calls \ {c}
  /\ UNCHANGED << mood, api, page, chain, uploads, told, submitted >>

\* The call fails, or the design cannot be submitted any more.
CallRefused(c) ==
  /\ ~c.done
  /\ mood.faults \/ (c.kind = "submit" /\ design[c.of].status \notin ResubmittableStatuses)
  /\ told' = {"error"}
  /\ submittingId' = IF c.kind = "submit" THEN NoDesign ELSE submittingId
  /\ calls' = calls \ {c}
  /\ UNCHANGED << mood, api, page, chain, uploads, designs, submitted >>

\* reviewDesign by an administrator.
Review ==
  /\ mood.others
  /\ \E d \in Designs :
       /\ design[d].status \in {"submitted", "resubmitted"}
       /\ \E s \in {"approved", "rejected", "needs_changes"} :
            design' = [design EXCEPT ![d].status = s]
  /\ UNCHANGED << mood, application, page, chain, uploads, told, onList, submitted >>

DesignerNext ==
  \/ handleSubmit \/ CreateDesign \/ UploadPreviews \/ UploadMockups \/ FinishDesign
  \/ handleApply \/ Apply \/ CallFails
  \/ \E u \in uploads : Upload(u) \/ UploadFails(u)
  \/ LeaveForm \/ NewDesign \/ handleSubmitDesign \/ Review
  \/ \E c \in calls : ServeCall(c) \/ ReceiveLoad(c) \/ ReceiveSubmitted(c) \/ CallRefused(c)

DesignerSpec == DesignerInit /\ [][DesignerNext]_designerVars

-----------------------------------------------------------------------------
(* Properties *)

\* A design or an application that a form has submitted has every file its
\* designer chose, whatever uploads failed, were repeated for another draft or
\* went on while the page was left.
SubmittedInFull ==
  \A s \in submitted :
    s.chosen \subseteq IF s.of = NoDesign THEN application.files ELSE design[s.of].files

\* A designer alone who waits for each form, with no failed call, sees an error
\* only for a file that is too large, a slug already used, or beside a success:
\* every type the file inputs offer is one the API takes.
NoSurprise ==
  mood.patient /\ ~mood.faults /\ ~mood.others /\ told = {"error"} =>
    \/ \E f \in chain.chosen : ~f.fits
    \/ SlugTaken
    \/ application # NoUpload

\* With nothing under way the list shows the designs as they are stored, new ones
\* and their files included, for a designer who stays on the form until it is done.
DesignsAreCurrent ==
  /\ page = "list" /\ calls = {} /\ chain.at = "idle" /\ uploads = {}
  /\ mood.patient /\ ~mood.faults /\ ~mood.others
  => designs = design
=============================================================================
