# A TLA+ verification of LimitWear

LimitWear sells clothing in limited *drops*: a drop collects orders until it
reaches a minimum (guaranteed) or a maximum (sold out); every order is backed
by money that Monobank holds on the buyer's card; when the drop succeeds the
holds are finalized (charged), the clothes are produced and shipped by Nova
Poshta and the designer is paid a share; when it fails the holds are cancelled.
The back end is a NestJS application (`apps/api`) over MongoDB; the web front
end (`apps/web`) calls it over HTTP and keeps copies of what it was answered.

The modules here model what the back end does to its documents, one action per
awaited call, and what the pages do with their copies, one action per request
and answer, so that TLC explores all interleavings of requests, webhooks,
administrators and pages with failures in between; the facts that matter most
are proved with TLAPS for every value of the constants.

## Inventory of the system

Paths are relative to `apps/api/src`, those of the pages to `apps/web/src`.

| Component | State | Operations | What makes it correct |
| --- | --- | --- | --- |
| Drops (`drops/`) | drop document: status, limits, sizes on sale, `currentQuantity`, `sizeBreakdown` | createAdminDrop, updateAdminDrop, launchDrop, transitionDrop, confirmPaymentHoldQuantity | never oversold; count and breakdown agree; terms locked after the launch |
| Orders (`orders/`) | order documents: status, size, paymentId, deliveryId | createOrder, cancelOrder, updateOrderSize, updateOrderDelivery | a seat is counted and backed by a hold |
| Payments (`payments/`) | payment documents: status, invoice, recorded webhook events | createPaymentHold, handleMonobankWebhook, cancelHoldForOrder, the finalize and cancel loop | each hold counted once; paid means captured; every hold settled |
| Monobank (external) | invoices, holds, webhooks | create, finalize, cancel; webhooks | at-least-once, unordered; calls may fail after acting |
| Drop administration (`admin/`) | none | transition: save the status, settle the holds, make the production package | the money follows the outcome of the drop |
| Production (`production/`) | package: orders, breakdown, status | ensurePackageForDrop, transitionProductionPackage | one package of the drop, that adds up |
| Delivery (`delivery/`), Nova Poshta (external) | deliveries, `order.deliveryId`; waybills | createTtnForOrder, createTtnForOrders | one waybill for an order, none without a record |
| Payouts (`payouts/`) | payout: amount, paidAmount, status | ensurePayoutForDrop, markPaid, calculatePayout | the right share, nothing invented or forgotten |
| Wishlist (`wishlist/`) | items, `lowStockNotifiedAt` | addForUser, updateForUser, closeForUser, notifyLowStockForDrop | told once, and nobody left out |
| Second Chance (`second-chance/`) | listings | createListing, transitionListing | sold once for each offer |
| Requests, designer profiles (`requests/`, `designer-profiles/`) | applications, profiles, roles | createDesignerApplication, reviewDesignerApplication | approval means a designer with a profile |
| Designs (`designs/`) | designs with their lists of files | create, update, upload, submit, review | an edit loses no upload; what a design lists exists |
| Files (`files/`) | file assets | upload, attachPendingFiles | a file belongs to one document |
| Notifications (`notifications/`) | notifications, settings | create, mark read, getSettings, updateSettings | one settings document, choices kept |
| Users, auth (`users/`, `auth/`) | users, session cookies | register, login, logout, guards | one account for an address; the stored role counts |
| Rate limit (`app.rate-limit.ts`) | a counter for each client | the middleware | a bounded number of requests |
| Administration panels (`components/admin-*-panel.tsx`) | list, selected record, copy being edited | load, select, save, act | what is sent is about what is shown |
| Checkout form (`components/delivery-checkout-form.tsx`) | city, warehouses, warehouse | search, choose, reserve | the warehouse is one of the city |
| Buyer pages (`notification-center`, `wishlist-panel`, `wishlist-button`) | list, filter, settings, items | load, mark read, save | the list is that of the filter |
| Designer pages (`new-design-form`, `designs-list`, `designer-cabinet`, `designer-application-*`) | form, waves of uploads, list | create, upload, submit, apply | what is submitted is complete |
| Audit, collections, analytics, configuration, health, public pages | log entries, plain reads | – | – |

How they interact: an order is created after `DropsService` validated the drop;
a payment is created for the order and an invoice at Monobank; Monobank's webhook
counts the order in the drop (one atomic MongoDB update), which may change the
drop's status and tells the users of the wishlist; an administrator's transition
saves the drop's status and then, in the same request, settles the holds one by
one and makes the production package from the orders of that moment; when the
package is ready its orders are, and waybills can be made; a completed drop has a
payout. A page holds copies, and its answers arrive in any order.

Nothing is transactional: each `await` is a point where another request runs,
and each document is saved on its own. `doc.save()` writes the paths changed in
the copy that was read; only a list that is replaced is saved under a version;
`findByIdAndUpdate` is unconditional; only `findOneAndUpdate` with a filter, and a
unique index, is a compare-and-set.

The hard behaviours follow from that: copies that are stale when they are saved,
webhooks delivered twice, late or while their first delivery is handled, requests
that stop half way, an external call that fails after it acted, loops that run
once while what they list still changes, two requests that both find nothing and
both create, answers that cross. `PROJECT.json` (`hazards`) lists each at its line
with the properties that would catch it.

## Modules

| Module | What it is |
| --- | --- |
| `DropRules` | The rules of one drop without state: the lifecycle table, validation, the filter and effect of the atomic count, the status the count calls for. |
| `Drops` | One drop document under concurrent confirmations, moves, launches and edits. |
| `Quota` | Abstract specification: seats taken while sales are open, within a limit. |
| `Reservation` | Orders, payments, webhooks, the settlement loop and Monobank around one launched drop, with the same `DropRules`. |
| `Fulfilment` | The closed drop: production package, waybills, and the buyers who still change orders. |
| `PayoutRules`, `Payouts` | The share of a designer, with a reference definition; the payout document under overlapping requests. |
| `Wishlist` | The low-stock loop at the end of each confirmation, the items it reads, the notification settings. |
| `Accounts`, `Studio` | Users, sessions and permissions; on top of them applications, profiles, files and designs. |
| `AdminPages`, `SecondChance` | The four panels of the administrators over the records of the API, with the lifecycles of drops and of listings. |
| `CheckoutForm`, `NotificationCenter`, `WishlistPages`, `DesignerPages` | The other pages that keep state. |
| `RateLimit` | The middleware in front of the API. |
| `Web` | The pages and the limiter put together: a behaviour is about one of them, its scene. |
| `MC…` | Instances for TLC. |
| `DropsProofs`, `ReservationProofs`, `FulfilmentProofs`, `PayoutsProofs`, `WishlistProofs`, `StudioProofs`, `WebProofs` | Theorems and their proofs. |
| `SumTheorems` | What a sum over a finite set is worth: the lemmas the others cite. |

Definitions marked *Mutant* in a comment are deliberately wrong variants of the
definition that follows them; no specification uses them. Putting one in the
place of its original makes a run fail, which shows the run's property depends
on that piece of code.

In every back end module a request is a task: `task[w]` holds the local variables
that live across an `await`, `Idle` between requests, and each action is the code
from one `await` to the next. `Fail`, `BuyerFails`, `HookFails`, `AdminFails` and
`LoopFails` are a rejected call or a restart: the request ends where it is. A
request that a guard or a validation refuses changes nothing and is not an action.

### Drops

`drop` is the stored document; `terms` is a history variable that says whether a
quantity limit was changed after the launch. `env` says how many workers the behaviour
has and whether calls fail.

| Action | Code |
| --- | --- |
| `Init` | createAdminDrop: a draft with valid terms, nothing counted |
| `ConfirmRead`, `ConfirmCount`, `ConfirmRule` | confirmPaymentHoldQuantity: read and validate; the filtered update; applyQuantityStatusRules' save |
| `MoveRead`, `LaunchRead`, `MoveSave` | transitionDrop / launchDrop: read and consult the table; save the status |
| `EditRead`, `EditSave` | updateAdminDrop: read, lock, validate; save the changed paths |

Price, revenue share, texts and dates are abstracted: the edit is validated on its
limits and sizes.

### Reservation

`order`, `payment` and `drop` are the documents (a payment document carries its
status, whether its invoice is stored, and the recorded events); `bank` and
`sent` are Monobank's invoices and webhook messages; `failures` is the set of
payments with a lifecycle failure in the audit log; `buyer`, `hook` and `admin`
hold the tasks in progress.

| Actions | Code |
| --- | --- |
| `CreateOrder` | createOrder (nothing is counted, so validating and creating are one action) |
| `PayStart` … `PayAttach`, `PayInvoiceFails`, `PayFails` | createPaymentHold with its catch block |
| `CancelRead` … `CancelOrder` | cancelOrder with cancelHoldForOrder |
| `ResizeRead`, `ResizeSave` | updateOrderSize |
| `HookStart` … `HookRecord` | handleMonobankWebhook: find and duplicate check, validation, count, status, the order, the record of the event |
| `MoveRead`, `MoveSave`, `List`, `Settle*` | AdminDropsController.transition, processActiveHoldsForDrop |
| `BankHold`, `BankDecline`, `BankExpire`, `BankCapture`, `BankRelease` | Monobank (external), from how the code uses it |

Messages in `sent` are never removed: each can be delivered any number of times
and in any order. A failed bank call may or may not have acted. A webhook names a
hold by any of `HoldNames` (the code takes `hold_created`, `hold` and `success`
alike, and tells events apart by their status and `modifiedDate`: a name stands for the
two), so that a hold reported again under another name is another event; the names that mean a failure are one name,
`failed`, and of each other name there is one event.

The count implements `Quota` under the mapping `taken <- drop.currentQuantity`,
`open <- drop.status \in OpenStatuses`.

### Fulfilment

`drop` is the closing drop's status, `order`, `package` and `delivery` the documents,
`waybill` how many waybills Nova Poshta made for an order, `notices` the owners told
that their order is ready. `env` says which administrators do what (`Duties`), which
buyers act and whether calls fail; it never changes.

| Actions | Code |
| --- | --- |
| `CloseDrop`, `SettleOne`, `Settled` | transition and its loop, reduced to what production sees of them; `Reservation` has the details |
| `RequestPackage`, `EnsureRead`, `EnsureFind`, `EnsureGather`, `EnsureCreate` | the ensure-package endpoint and ensurePackageForDrop; the index on the drop refuses a second package |
| `MoveRead`, `MarkOrders`, `NotifyOwners`, `MoveSave` | transitionProductionPackage with markOrdersReadyToShip |
| `TtnRequest`, `NextOrder`, `ReportError`, `LoopError` | createTtnForOrders, order by order, errors collected |
| `TtnRead`, `TtnIssued`, `TtnFails`, `MarkProblem`, `StoreDelivery`, `LinkDelivery` | createTtnForOrder and its failure path |
| `BuyerRead`, `BuyerSave` | cancelOrder and updateOrderSize, which go on after the drop is closed |
| `OperatorMark` (external) | an operator sets orders to `in_production` in the database: no code does |

### Payouts

`drop`, `order` and `payout` are the documents, `sent` the money sent on the payout,
`clock` the time the return window is measured with.

| Actions | Code |
| --- | --- |
| `MoveDrop` | transitionDrop; a completion stamps `completedAt` |
| `EnsureRead`, `EnsureFind`, `EnsureCalculate`, `EnsureCreate`, `EnsureSave` | ensurePayoutForDrop: the drop, the payout, the orders with calculatePayout, the create or save |
| `PayRead`, `PaySave` | markPaid: the copy read, the sum and status it saves |
| `Tick`, `OrderComesBack` (external) | time; an operator records a return |

`PayoutRules` has the calculation and the reference definition `IsShare` it is checked
against. Prices and the percentage are integers of a unit as fine as one likes (`Cent`
of them make a hundredth, `Hundred` are a hundred percent); the amount is the nearest
hundredth. The code computes in doubles, where a half can come out a little above or
below itself (0.30 at 25 percent gives 0.08, 34.30 gives 8.57, not 8.58): which, is left
open (`RoundedUp`, any set of order books). The error of doubles elsewhere, of some
1e-16 of the amount, is left out, as it decides nothing but halves; so is that of the
sum of part payments (see the hazard at `payouts.service.ts:118`).

### Wishlist

`count` is the drop's count, `item` each user's item, `notices` the low-stock notices
created, `settings` the settings documents, `reader` the users whose getSettings found
none. `Confirm` is a confirmation that ends in the loop; `Notifying` lists the
candidates, claims an item with the filtered update, creates the notice. `ItemActs`
are a user's requests about the item, `SettingsActs` getSettings (find, then create
the defaults, refused by the unique index) and updateSettings (an upsert).

### Accounts and Studio

`account`, `profile`, `request`, `file` and `design` are the documents, `session` the
browsers that hold a cookie. `Admitted` is the guard of a route: a cookie, an active
account and the permission of the role that is stored, not of the one in the cookie.

| Actions | Code |
| --- | --- |
| `RegisterFind`, `RegisterCreate`, `LoginFind`, `LoginSign`, `Logout` | AuthService over UsersService; the index on the address |
| `UploadPending`, `ApplyStart` … `ApplyLink` | upload of a pending file; createDesignerApplication with attachPendingFiles |
| `ReviewRead`, `ApproveProfile`, `ApproveRole`, `ReviewDecide` | reviewDesignerApplication, whatever the status of what it reviews |
| `CreateDesign`, `SubmitRead`, `JudgeRead`, `StatusSave` | createDesignerDesign with any files, submitDesignerDesign, reviewDesign |
| `UpdateRead`, `UpdateSave`, `UploadRead`, `UploadStore`, `UploadMain`, `UploadPreview` | updateDesignerDesign, which sets any main file and any list, replaced under its version (`SaveFiles`); uploadDesignerFile, which adds to the stored list |

### Pages

A page's variables are its React state; `request`, `lookups`, `pending`, `saves` and
`calls` hold the requests under way, each first served or lost (the API's step), then
received (the page's). In `DesignerPages` a request of a form and its answer are one
step. What a user may press is what the page leaves enabled in that state; a user is
*patient* when waiting for every answer before the next click. Who else acts and
whether calls fail is part of the environment, so that each property states its
condition.

`AdminPages` has four panels: drops and production look a selected record up and edit
the copy (`SelectDrop`, `SelectPackage`, `ReceiveSelected`); payouts and second chance
show the listed record (`SelectPayout`, `SelectListing`). `Serve` does to the record
what the API does, with the tables of `DropRules` and `SecondChance`.
`NotificationCenter` fetches list and settings when the filter changes and drops
answers of an earlier filter; `CheckoutForm` debounces the search and forgets the
branches when the city changes, but takes an answer for an earlier city like any other;
`WishlistPages` is the panel, which disables the buttons of one item, and the button,
which sends one request at a time; `DesignerPages` is the application, the form that
creates a design, uploads in three waves and submits it, and the list.

`RateLimit` has the buckets of the middleware, `Receive` for a request and `Pass` for
time.

## Runs

Runs that pass show that the properties hold on the instance; the others check a
sentence of a document or a message against the code and find it broken, and
`PROJECT.json` (`findings`) quotes the sentence.

| Run | Instance | Shows |
| --- | --- | --- |
| `Drops` | 2 sizes, limits 1 and 3, quantities 1–2, fairness; two environments: two workers with failures, one without | `TypeOK`, `NoOversell`, `SizesAddUp`, `ClosedDropTakesNoHold` under any interleaving; `StatusAgreesWithCount`, `FullDropCloses` for one worker without failures |
| `ReservationSettlement` | 2 orders, 2 payments, minimum and maximum 2, 2 names of a hold, buyer, webhook, administrator, failures | `TypeOK`, `SeatsAreCounted`, `PaidIsCaptured`, `SeatsWereHeld`, `NoChargeForFailedDrop`, and `SeatQuota`, the refinement |
| `ReservationDelivery` | the same with 1 name, 2 sizes, pay and resize, fairness, no failing database call | `OnePaymentPerOrder`, `ListedHoldsSettle` |
| `HoldsCounted` | as `ReservationSettlement` without failures: one webhook at a time, 2 names | `CountsEachHoldOnce` |
| `Fulfilment` | 2 orders of 1 and 2 units, 2 package ids, 2 administrators, 1 buyer, fairness; four environments: one administrator with a buyer, one with failures, two who overlap in package making, two in shipping | `TypeOK`, `PackageAddsUp`, `ReadyMeansProduced`, `OneWaybill`, `DeliveriesAreIssued`, `ClosedDropIsPackaged`, `ListIsServed` |
| `Payouts` | 2 orders, 2 payout ids, 12.5 percent, prices with half hundredths, up to 3 payments of 1; one worker with returns, one with failures, two with and without returns | `TypeOK`, `PaidIsBacked`, `NeverOverpaid`, `OnePayoutOfShare`, `NothingForgotten`, `PaidIsFinal` |
| `Wishlist` | 2 users, 1 of whom opens the settings, 2 confirmations at once, maximum 6, with and without failures, fairness | `ToldOnce`, `CandidatesAreTold`, `ChoiceKept` |
| `Studio` | 2 requests at once, 3 accounts; five situations: registration and login; an application and a review with failures; two reviews; two applications of one user; uploads, edits and reviews of a design with failures | `OneOfEach`, `ApprovedHasProfile`, `AttachedFilesBelong`, `UploadsKept` |
| `Web` | each page with two records, patient and impatient users, failures and others at work; the limiter with two clients | `PagesShowWhatIsStored`, `FormsSubmitInFull`, `PatientUsersSendWhatIsShown`, `ListingsAreSoldOnce`, `AllowanceIsKept` |

| Run that fails | Property | Trace in short |
| --- | --- | --- |
| `WebhookDeliveredTwice` | `CountIsIdempotent` | both deliveries pass the duplicate check before either records its event |
| `RefusedHold` | `FailedDropReleases` | the webhook of a hold is refused by the drop that has failed; the loop that releases holds is over, and only the buyer's cancelling the order would release this one |
| `ReadyNotice` | `NoticeIsTrue` | owners are told their order is ready, but only orders in `in_production`, a status no code gives, are made ready |

### Where a property stops holding

Some properties hold only under a condition, part of the property or of the run's
instance. The condition is the code's limit, not the model's.

| Property | Holds with | Otherwise |
| --- | --- | --- |
| `StatusAgreesWithCount`, `FullDropCloses` | one request at a time, no failure | the check is made on the copy, the save is unconditional: of two confirmations that fill a drop, the save of `guaranteed` can land after that of `sold_out` and the full drop stays open; an edit read before the launch can be saved after it |
| `CountsEachHoldOnce` | no overlapping deliveries, no failure | the event is recorded after the count (`WebhookDeliveredTwice`) |
| its “once” | the bank keeps the money | an expired or released hold that is reported under a name not seen before is counted again: counted as `hold`, expired, and then reported as `success`, with one handler and no failure (`payments.service.ts:242`, `:261`); then the number of names is the bound |
| `OnePaymentPerOrder` | payment requests that do not overlap | the order learns its payment last: both requests find it without one, and both invoices can be paid |
| `NoChargeForFailedDrop` | one administrator | two who close the drop in opposite ways each run the loop of their own request |
| `SeatsAreCounted` | always, as an inequality | a failure between the count and the order leaves the count ahead, and a cancelled order stays counted |
| `PaidIsCaptured` | always, in this direction | a status saved from an older copy can hide a capture: an order paid is then shown cancelled, or a payment as it was before |
| `OneWaybill`, `ReadyMeansProduced` | one administrator, no failing database call | two requests both find no delivery; a delivery that was not saved is not seen by the next request |
| `NeverOverpaid` | no returns, or one request at a time | a payment is added to a copy with the amount from before the return |
| `NothingForgotten`, `PaidIsFinal` | one request at a time (the first without failures) | the later save writes the sum of its own copy |
| `CandidatesAreTold` | no failure | the claim stays and the loop stops: nobody left on its list is told by it |
| `AttachedFilesBelong` | one application at a time | both read the file as pending, and both list it |
| `ActsOnWhatIsShown` on the drops and production panels, `OrderGoesToItsCity` | a user who waits for every answer | the answer for an earlier selection is taken for the later one (`admin-drops-panel.tsx:140`, `delivery-checkout-form.tsx:110`): a save goes to a record that is not the one selected, an order carries the city of one place and the warehouse of another |
| `NoSurprise` | a patient designer alone, no failure | errors for calls that failed or crossed |
| `ShowsWhatIsStored`, `DesignsAreCurrent` | a patient user on the pages that keep a copy, one administrator, no failure | a list is fetched once and not again until the next action |

### Noticed while modelling

Behaviours of the code that a reader of the properties should know, besides those of
the runs that fail:

- The units of a cancelled order are not returned to the drop, and a changed size
  leaves the breakdown as it was: `SeatsAreCounted` is one direction. A buyer can also
  cancel after the minimum is reached: nothing gives an order the status `guaranteed`
  that would block it (`orders.service.ts:199`). `docs/LimitWear_Baseline.md:216` says
  that cancelling is blocked then; before, line 214 allows it.
- A drop that sells out by a confirmation settles only when an administrator moves it
  on. `docs/LimitWear_Baseline.md:231` has the system do it: “Дроп sold out раніше |
  Система завершує дроп і фіналізує платежі.” There is no run for this sentence: the
  model leaves administrators free to act or not, and does not tell the system from
  them.
- updateOrderDelivery can save an address after the waybill was made for another.
- A payout ensured while its drop is `delivered` counts the return window from the end
  of the drop; completing the drop starts it again from `completedAt`, so a payout that
  was ready waits again. A returned order is no revenue, and its price is deducted once
  more; the unit test agrees (`payouts` spec).
- A design stores whatever file ids it is given, checked for their form only
  (`designs.service.ts:242`): the files may not exist or be another user's, where
  `docs/LimitWear_Baseline.md:1295` has every id checked for existence. In `Studio` the
  main file and the previews are such ids; the lists of mockups and of production files
  are stored as the previews are.
- An application sent back (`needs_changes`) counts as active, so its applicant cannot
  hand in another; a restart between profile and role leaves a profile whose index
  refuses the next approval; reviews do not look at the status of what they review.
- A sold listing can be made public again and sold again, as the unit test expects:
  `SoldOncePerOffer` counts from the last offer.
- The drops panel always sends every field, the locked ones included, so that an
  update of a launched drop is refused (`admin-drops-panel.tsx:479`,
  `drops.service.ts:76`); it shows times as UTC and reads them back as local time
  (`admin-drops-panel.tsx:514`). The production panel offers no move to
  `ready_for_production`. The application page resets its form through an event that is
  gone after the `await` (`designer-cabinet.tsx:63`), so an error stands beside the
  success.
- The setting `wishlistEnabled` is stored and shown, and no sender consults it
  (`docs/LimitWear_Baseline.md:326`).
- Twice the allowance can pass the limiter within the length of a window; that is what
  `AllowanceHolds` bounds. Buckets are never removed.

### Bounds

- `Drops`: quantities of 1 and 2 against limits of 1 and 3 include an order that does
  not fit what is left, and a maximum lowered below the count.
- `Reservation`: two orders, two payments and a maximum of two: the drop can be
  guaranteed or fail with a hold counted, be full, and have two holds in competition
  for the last unit. All orders ask for one unit; the proofs cover every quantity. Two
  names of a hold let it be reported again after its end; the proofs cover any number.
- `Fulfilment`: `MaxWaybills` 2 lets a second waybill be made for one order; two package
  identifiers let a second package appear. A list of waybills may name an order twice.
- `Payouts`: prices in halves of a hundredth (`Cent` 2) and a share in tenths of a
  percent (`Hundred` 1000, `Percent` 125) come out on a half, rounded either way
  (`MCRoundedUp`), and on neither side of one; payments of 1, at most 3 (`MaxSent`),
  against shares of up to 3; `Window` 1 and `MaxClock` 2 let the window end, counted
  from the end of the drop, and start again at its completion.
- `Wishlist`: with a maximum of 6, low stock begins at a count of 5, so two
  confirmations run the loop.
- `Studio`: `MaxVersion` 3 bounds the saves of a list, two files, which are
  interchangeable (symmetry), and two applications let every pair overlap. The five situations give each pair of duties that share
  documents to two workers.
- `Web`: `MaxVersion` 1 bounds the edits of a drop, `MaxLookups`, `MaxAsked` and
  `MaxSaves` 4 the requests of a page (two in flight, one stale answer, one more);
  the limiter has windows of 2 units, a clock to `MaxTime` 4 and at most `MaxRequests` 3
  per client and window against allowances of 1 and 2.
- Two requests at once are enough for every two-request race; each worker runs any
  number of requests one after the other. Each run has the workers its question needs.
- Where deadlock is not checked: a drop may be archived, and when all is settled, shipped and
  paid there is nothing left to do.
- Symmetry is used only in runs without liveness; every order of `Reservation` asks for
  the same quantity there, so permuting orders is sound.

### Fairness

`FairSpec` assumes weak fairness of a request that has begun (`Continue`,
`BuyerContinues`, `HookContinues`, `AdminContinues`, `Notifying`): Node keeps running a
handler whose awaited call has returned, and every call returns or fails. Webhooks are
handled until one is accepted, for Monobank retries a delivery that was answered with
an error. Nothing obliges buyers, administrators or Monobank to start anything. Where a
database call or a restart may end the request, the liveness properties say `~faults`.

## Proofs

Eight modules, every theorem checked to the last leaf, for every value of the
constants that satisfies the named assumptions. In each, an invariant `…Inv` is
inductive and implies the property; the steps are proved action by action, with frame
lemmas for what an action leaves alone.

| Module | Theorems | The argument |
| --- | --- | --- |
| `DropsProofs` | `TypeOK`, `NoOversell`, `ClosedDropTakesNoHold`, `SizesAddUp` for any workers; `StatusAgreesWithCount` for one worker without failures | The filter compares the stored count with a limit computed from an older copy: `LimitsCurrent` says this limit is still the stored maximum less the quantity unless a launched drop's limits changed, `NothingBeforeLaunch` that nothing is counted before. The filtered update adds one quantity to the count and to one size (`AddsUp`). For one worker `SInv` and `AInv` say that the copy it holds is the stored one (`Current`, `Locked`, `Agrees`). |
| `ReservationProofs`, the count | `TypeOK`, `NoOversell`, `SeatQuota` | `TInv`: a reference to a payment is to one that was created (`References`). `QInv`: the limit a webhook carries is `MaxQuantity` less its order's quantity. `DropStep` says what any step does to the count, and each case is a step of the quota or a stutter. |
| `ReservationProofs`, the settlement | `PaidIsCaptured`, `SeatsWereHeld`, `SeatsAreCounted`; `OnePaymentPerOrder` for one buyer's worker; `NoChargeForFailedDrop` for one administrator; `CountsEachHoldOnce` for one webhook at a time and no failing call, under any names | A status is written calls after the bank acted. `MInv`: an invoice is made once for a payment, so a capture is never undone (`InvoiceOnce`); a charge is reported only when there is one (`ReportedCaptured`); a webhook in progress carries what was sent (`HookFaithful`); the loop writes after the capture (`SettledCaptured`). For the count (`HInv`): an order that holds a seat, or is about to, has a payment whose hold is recorded or being recorded, hence counted before (`HeldCounts`, `QueuesCount`, `CapturedCounts`), and the count is at least the total of these orders (`BackedAreCounted`); without overlap it is at least the total of the holds known, and at most that total with each hold taken once for each name recorded, or once while the bank keeps the money (`KnownIsCounted`), for then the payment says so (`EInv`: what would change it follows the bank, which never takes an ended invoice back). `OInv`: the payment a buyer can pay is the one the order names (`Offered`), and while one is being made the order has none (`Making`). `CInv`: a charge needs a loop that finalizes, hence a drop that has left the open statuses for good (`Launched`, `ChargedIsPast`), and a loop of a failed drop meets no charge (`FailsUncharged`). |
| `FulfilmentProofs` | `TypeOK`, `DeliveriesAreIssued`, `PackageAddsUp`; `OneWaybill`; `ReadyMeansProduced` | Between Nova Poshta's answer and the last save the request alone holds the number: `TaskOK` says what a suspended request holds, `Growth` that no step takes it away. A package and the request that is to create it carry sizes that add up to the total (`Adds`), because every order is in one group of its size (`SizeSums`). For one waybill (one administrator, no failing database call) `WInv`: the order under way is the only one (`Sole`), untouched by others (`Untouched`), asked for once (`Once`, `Fresh`). `ReadyMeansProduced` in the same environment (`RInv`): a move still allowed by the package's status (`Allowed`) cannot be of a package that is ready already, so a ready order is covered by its package or by the move under way (`Covered`). |
| `PayoutsProofs` | `TypeOK`, `PaidIsBacked`, `NeverOverpaid`, `OnePayoutOfShare`, `NothingForgotten`, `PaidIsFinal` | `Backed`: what is paid, or about to be saved as paid, was sent; it survives every overlap and failure. Without returns every copy has the same amount (`Steady`), the share of what the orders are worth: sold less returned is the sum of the orders with their sign (`NetIsWorth`), and the rounding is off by half a hundredth at most whichever way a half goes (`RoundsToTheNearest`). A request names a payout that exists and there is one (`One`); for one worker the copy is the stored document (`Alone`) and nothing sent is unrecorded (`Tallied`). |
| `WishlistProofs` | `ToldOnce`, `ChoiceKept` | A notice follows its claim by one call: a claim stands behind every notice, given or due (`GivenOnce`), and has one holder (`OneHolder`), because the claim is a filtered update. |
| `WebProofs`, the limiter | `AllowanceIsKept` | A window starts when its bucket is made; since then as many requests passed as were counted, up to the limit, and in the length of a window before that no more than the limit (`Window`). Any span as long as the window touches two windows at most, which is the bound of two allowances, and `LInv` keeps what was refused and why. |
| `WebProofs`, the panels | `ListingsAreSoldOnce`, and their part of the two below | `ASold`: a listing that was sold since its last offer has a status no sale starts from. `ACare`: who waits has one request under way, about the record shown. `AQuiet`: with nobody else at work the panel shows what is stored, except for what the request under way has changed. |
| `WebProofs`, the pages | `PagesShowWhatIsStored`, `FormsSubmitInFull`, `PatientUsersSendWhatIsShown` | The checkout (`KInv`), for a buyer who waits: what is looked up, offered and chosen is of the city. The notifications (`NInv`): a list that is not of the chosen filter is being fetched for it, and nothing for another (`Fetching`); what is listed is what is stored until everything is marked read (`Waiting`). The wishlist (`WInv`): one save of an item is under way, and page and API differ about it only while its answer is (`Saving`, `Agreed`). The designer (`DInv`): the files of each wave that was started have arrived or are on their way (`AllComing`), so that a form that has waited for its uploads submits all of them; a designer alone has one form or one change of the list under way (`OneForm`, `ListKept`). |
| `SumTheorems` | Lemmas: a sum is an integer, loses one element by subtracting it, splits over a part, changes by what one value changes, is the sum of its groups (`SumByKey`) and of its differences | A sum is a recursive function on the subsets of a set. That it exists and is unique is shown by taking a smallest subset where it would not be (`Smallest`): proper inclusion of finite sets is well founded. The lemmas take a smallest counterexample in the same way, for the induction theorems of the library are out of the provers' reach. |
| `StudioProofs` | types, `OneOfEach`, `ApprovedHasProfile`, `UploadsKept`, `AttachedFilesBelong` | `TaskOK`/`Growth`: an approval has made the profile and the role before it is saved. `CopyTask`/`VersionsMove`: an update whose version is still current has read the current list, so it removes only what it has seen, whatever it sets; an upload only adds to the list. `ApplyTask`: with one applicant, a file under attachment is pending or already its application's. |

The properties that need a condition carry it in themselves (`Calm`, `Alone`, `OneApplicant`,
`~env.faults`, `~env.returns`, `Careful`, `situation.patient`), or the theorem states it:
one buyer's worker, one webhook at a time, one administrator, `~CanFail`.

Assumptions on the constants, each named in its module and evaluated by TLC on the
instances: positive quantities and naturals as limits (`QuantityAssumption`,
`LimitsAssumption`, `MaxWaybillsAssumption`, `MaxAssumption`), as validated by the DTOs;
sizes that are on sale (`SizeAskedAssumption`); identifiers that are told apart
(`NoneAssumption`, `NoDeliveryAssumption`, `DocumentsAssumption`, `HoldNamesAssumption`);
unique addresses of the users there are (`UsersAssumption`); finitely many requests at
once (`AdminsAssumption`, `WorkersAssumption`); environments of the right shape
(`EnvsAssumption`); finitely many orders and sizes of a drop where they are added up
(`OrdersAssumption`, `SizesAssumption`); the units prices and percentages are counted in
(`UnitsAssumption`); and the quantities and prices the order schema accepts
(`OrderDocsAssumption`). For the pages: a positive window and default allowance
(`LimiterAssumption`); no record, drop or design that stands for none
(`NobodyAssumption`, `NoDropAssumption`, `DesignersAssumption`); and environments on one
of the pages there are (`PanelsAssumption`, `DesignersAssumption`).

Only model-checked: everything temporal under fairness (`FullDropCloses`,
`ListedHoldsSettle`, `ClosedDropIsPackaged`, `ListIsServed`, `CandidatesAreTold`,
`FailedDropReleases`), which the prover does not handle. Every invariant and every
action property of a run that passes is proved as well.

## Not modelled

- Collections, analytics, configuration, health, the public and profile pages: they
  read, and change no state another component relies on. Analytics adds up documents
  it does not read in one snapshot, so its numbers can disagree among themselves for a
  moment; nothing is computed from them.
- Notifications other than low-stock and ready-to-ship: their failures are swallowed by
  `safelyCreateServiceNotification` or end a request after its last state change, which
  `Fail` and its like cover. E-mail and Telegram are external.
- The audit log, except the recorded settlement failures.
- updateOrderDelivery: recipient data, copied into the delivery and read by nothing else.
- Prices, currencies and texts where no rule of the model reads them; the errors of
  doubles other than the rounding of a half of a hundredth.
- softDelete of a file: no caller. Reading a file: no effect.
- Hashes, tokens and cookies' format; blocking a user is an operator's act.
- A webhook with a status the handler does not know: it is only recorded.
- Two administrators who close one drop in opposite ways: see `NoChargeForFailedDrop`.
- On the designer's form one creation at a time; a designer who leaves the form before it
  is done may see a list without the last upload.

## What could be added

The address of a waybill under a buyer's late change of the order; an abstract
specification of the settlement (each hold ends captured or released) that
`Reservation` would implement under fairness.
