-------------------------------- MODULE Web --------------------------------
(***************************************************************************)
(* The pages of the web client, and the limiter their requests pass.  A    *)
(* behaviour is about one of them, the `scene`; the variables of the       *)
(* others keep their initial values.                                       *)
(***************************************************************************)
EXTENDS Naturals, FiniteSets

CONSTANTS   \* those of the pages and of the limiter
  Ids, Slots, MaxVersion, Envs, Nobody,
  Cities, Nothing, MaxLookups, CheckoutEnvs,
  Notices, MaxAsked, CenterEnvs,
  Drops, MaxSaves, WishlistEnvs,
  Designs, Portfolio, NoDesign, DesignerEnvs,
  Clients, Configured, DEFAULT_RATE_LIMIT_MAX, windowMs, MaxTime, MaxRequests

\* The length of the window and the default allowance are positive constants of the
\* middleware, and a setting that is no positive integer counts as 0.
ASSUME LimiterAssumption ==
  /\ Configured \subseteq Nat /\ DEFAULT_RATE_LIMIT_MAX \in Nat \ {0}
  /\ windowMs \in Nat \ {0} /\ MaxTime \in Nat /\ MaxRequests \in Nat

\* The record shown is one of the API's or none, and a panel is one of the four.
ASSUME NobodyAssumption == Nobody \notin Ids
ASSUME PanelsAssumption ==
  Envs \subseteq [ page : {"drops", "production", "payouts", "secondChance"},
                   patient : BOOLEAN, others : BOOLEAN, faults : BOOLEAN ]

\* The buttons of no drop are disabled.
ASSUME NoDropAssumption == "none" \notin Drops

\* A form that has created no design is about none of them, and a file is within the
\* size the API allows or it is not.
ASSUME DesignersAssumption ==
  /\ NoDesign \notin Designs
  /\ \A f \in Portfolio : f.fits \in BOOLEAN
  /\ DesignerEnvs \subseteq
       [ page : {"application", "form", "list"}, patient : BOOLEAN, faults : BOOLEAN,
         others : BOOLEAN, slug : BOOLEAN ]

VARIABLES
  scene,
  env, stored, sales, list, selected, detail, request,
  situation, query, typing, cities, city, warehouse, warehouses, lookups, asked, sent,
  manner, notice, kept, filter, items, settings, edited, shownFor, pending, started,
  place, item, shown, savingDropId, saves, count,
  mood, design, application, page, chain, uploads, told, designs, submittingId,
  calls, submitted,
  now, limit, buckets, passed, refused

Admin == INSTANCE AdminPages
Checkout == INSTANCE CheckoutForm
Center == INSTANCE NotificationCenter
Wishes == INSTANCE WishlistPages
Designer == INSTANCE DesignerPages
Limiter == INSTANCE RateLimit

-----------------------------------------------------------------------------
Off == "off"
AdminOff ==
  /\ env = Off /\ stored = Off /\ sales = Off /\ list = Off
  /\ selected = Off /\ detail = Off /\ request = Off
CheckoutOff ==
  /\ situation = Off /\ query = Off /\ typing = Off /\ cities = Off
  /\ city = Off /\ warehouse = Off /\ warehouses = Off /\ lookups = Off
  /\ asked = Off /\ sent = Off
CenterOff ==
  /\ manner = Off /\ notice = Off /\ kept = Off /\ filter = Off
  /\ items = Off /\ settings = Off /\ edited = Off /\ shownFor = Off
  /\ pending = Off /\ started = Off
WishesOff ==
  /\ place = Off /\ item = Off /\ shown = Off /\ savingDropId = Off
  /\ saves = Off /\ count = Off
DesignerOff ==
  /\ mood = Off /\ design = Off /\ application = Off /\ page = Off /\ chain = Off
  /\ uploads = Off /\ told = Off /\ designs = Off /\ submittingId = Off
  /\ calls = Off /\ submitted = Off
LimiterOff ==
  now = Off /\ limit = Off /\ buckets = Off /\ passed = Off /\ refused = Off

adminVars == << env, stored, sales, list, selected, detail, request >>
checkoutVars ==
  << situation, query, typing, cities, city, warehouse, warehouses, lookups, asked, sent >>
centerVars ==
  << manner, notice, kept, filter, items, settings, edited, shownFor, pending, started >>
wishlistVars == << place, item, shown, savingDropId, saves, count >>
designerVars ==
  << mood, design, application, page, chain, uploads, told, designs, submittingId,
     calls, submitted >>
limiterVars == << now, limit, buckets, passed, refused >>

Init ==
  \/ /\ scene = "admin" /\ Admin!Init
     /\ CheckoutOff /\ CenterOff /\ WishesOff /\ DesignerOff /\ LimiterOff
  \/ /\ scene = "checkout" /\ Checkout!CheckoutInit
     /\ AdminOff /\ CenterOff /\ WishesOff /\ DesignerOff /\ LimiterOff
  \/ /\ scene = "center" /\ Center!CenterInit
     /\ AdminOff /\ CheckoutOff /\ WishesOff /\ DesignerOff /\ LimiterOff
  \/ /\ scene = "wishlist" /\ Wishes!WishlistInit
     /\ AdminOff /\ CheckoutOff /\ CenterOff /\ DesignerOff /\ LimiterOff
  \/ /\ scene = "designer" /\ Designer!DesignerInit
     /\ AdminOff /\ CheckoutOff /\ CenterOff /\ WishesOff /\ LimiterOff
  \/ /\ scene = "limiter" /\ Limiter!LimiterInit
     /\ AdminOff /\ CheckoutOff /\ CenterOff /\ WishesOff /\ DesignerOff

Next ==
  /\ UNCHANGED scene
  /\ \/ /\ scene = "admin" /\ Admin!Next
        /\ UNCHANGED << checkoutVars, centerVars, wishlistVars, designerVars, limiterVars >>
     \/ /\ scene = "checkout" /\ Checkout!CheckoutNext
        /\ UNCHANGED << adminVars, centerVars, wishlistVars, designerVars, limiterVars >>
     \/ /\ scene = "center" /\ Center!CenterNext
        /\ UNCHANGED << adminVars, checkoutVars, wishlistVars, designerVars, limiterVars >>
     \/ /\ scene = "wishlist" /\ Wishes!WishlistNext
        /\ UNCHANGED << adminVars, checkoutVars, centerVars, designerVars, limiterVars >>
     \/ /\ scene = "designer" /\ Designer!DesignerNext
        /\ UNCHANGED << adminVars, checkoutVars, centerVars, wishlistVars, limiterVars >>
     \/ /\ scene = "limiter" /\ Limiter!LimiterNext
        /\ UNCHANGED << adminVars, checkoutVars, centerVars, wishlistVars, designerVars >>

Spec ==
  Init /\ [][Next]_<< scene, adminVars, checkoutVars, centerVars, wishlistVars,
                      designerVars, limiterVars >>

-----------------------------------------------------------------------------
(* Properties, of whichever page the behaviour is on *)

\* Once nothing is under way, a page shows the records the API keeps: the lists
\* and selected copies of the panels (ShowsWhatIsStored), the notifications of the
\* chosen filter and the settings (CenterIsCurrent), the wishlist
\* (WishlistIsCurrent), a designer's designs (DesignsAreCurrent), each under the
\* condition stated there.
PagesShowWhatIsStored ==
  /\ scene = "admin" => Admin!ShowsWhatIsStored
  /\ scene = "center" => Center!CenterIsCurrent
  /\ scene = "wishlist" => Wishes!WishlistIsCurrent
  /\ scene = "designer" => Designer!DesignsAreCurrent

\* A designer's forms submit a design or an application with every file chosen for
\* it, also when earlier attempts failed half way or the designer did not wait
\* (SubmittedInFull); to one who waits, alone and with no failed call, they refuse no
\* file their own inputs accept but for its size (NoSurprise).
FormsSubmitInFull ==
  scene = "designer" => Designer!SubmittedInFull /\ Designer!NoSurprise

\* For a user who waits for every answer: a panel changes the record it shows
\* (ActsOnWhatIsShown) and an order goes to a warehouse of the chosen city
\* (OrderGoesToItsCity).  The panels of payouts and Second Chance look the record up
\* in their list and need no waiting; on those of drops and production (setSelectedDrop,
\* setSelectedPackage) and on the checkout form (setWarehouse) nothing makes the user
\* wait, and both are false for one who does not: the answer for an earlier selection
\* is taken for the later one.
PatientUsersSendWhatIsShown ==
  /\ scene = "admin" => Admin!ActsOnWhatIsShown
  /\ scene = "checkout" => Checkout!OrderGoesToItsCity

\* A listing is sold once for each time it is offered, whatever two administrators
\* press on stale copies (SoldOncePerOffer).
ListingsAreSoldOnce == scene = "admin" => Admin!SoldOncePerOffer

\* The limiter in front of the API lets a client through as often as it should,
\* and refuses it only then (AllowanceHolds).
AllowanceIsKept == scene = "limiter" => Limiter!AllowanceHolds
=============================================================================
