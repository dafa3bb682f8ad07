# EuroAtlas cargo platform: TLA+ specifications

The platform (a NestJS API over PostgreSQL with a Next.js front end) follows
vehicles that are shipped: a shipment goes from draft to delivery, its vehicles
are inspected, loaded, moved and delivered, and the customer reads the way it
travelled on a public tracking page. These modules model the API, where every
state change is decided, the pages of the front end, which work on what the API
last told them, and the scripts that put a release on the server. They say what
holds when requests overlap, fail or are lost with the process, when answers
arrive late, and when a script stops half way.

Paths below are relative to the root of the repository; `api/` stands for
`apps/api/src/`, `web/` for `apps/web/src/`.

## 1. Inventory

One API process (`docker-compose.production.yml` starts a single `api`
container) serves requests over one PostgreSQL database. The process is
single-threaded, but a handler gives way at every `await`: between its queries,
queries of other requests run. The database runs at READ COMMITTED (Prisma's
default), without version columns or `SELECT ... FOR UPDATE`.

| component | state | operations | hard behaviour | what makes it correct |
|---|---|---|---|---|
| Shipment workflow, `api/shipments` | `Shipment.status`, route and activity fields, number counter | create, update, remove; dispatch, arrival, customs clearance, ready for delivery, delivery, cancel; readiness | status and readiness are checked before the transaction and written by id alone; counts before `updateMany`; notification after the commit | status, vehicles and tracking log agree; the log is the way travelled; nothing of a deleted shipment returns; requests are answered |
| Vehicles, `api/vehicles` | `Vehicle.status`, `shipmentId`, `isActive`, VIN, number counter | create, update, remove | update reads, checks and writes in separate steps; races with loading | every vehicle has a shipment; none travels in an empty shipment or is left behind |
| Inspections, `api/vehicle-inspections` | status, approval, damage reports, two histories | create, update, change status, approve, reject, revoke, remove; damage reports | checks before transactions, flag and reports written apart, numbers from a count | history is a path of the transition table and ends in the current value; approved means completed; vehicle moves only on approval |
| Tracking log, `api/tracking` | `ShipmentTracking` rows | create, update, remove of non-workflow events; public lookup | must not touch what the workflow wrote | a STATUS_CHANGED row is written by the workflow only |
| Documents, `api/documents` | rows and files | upload, update, remove | row and file are two stores | no row without file |
| Photos, `api/vehicle-photos` | rows, files on disk or at Cloudinary | upload, update, remove | two stores; the primary flag spans rows | at most one primary; no row without file |
| Invoices, `api/invoices` | rows with items, amounts, number, status | create, update, cancel | numbers from a count; amounts rounded one by one; the shipment may change hands | unique numbers; amounts add up; made out to the owner of the shipment |
| Customers, `api/customers` | rows | create, update, remove | looked for before, not while, it writes | a number has one customer; nothing refers to a customer that is gone |
| Notifications, `api/notifications` | history rows, Gmail token cache | announcement after a transition, manual e-mail and WhatsApp, admin confirmation | channels fail apart; the status is read again after the commit; the token expires | what is recorded as sent was delivered; no status told before the one reached; no send with an expired token |
| Users and authentication, `api/users`, `api/auth` | user rows; stateless tokens | create, login, guards, administrator script | hashing takes time between read and write; a token outlives changes of the user | the administrator stays one; a token is earned by a password |
| Dashboard, health, PDF | none | queries, layout | none | - |
| Deployment, `deploy/scripts` | checked-out tag, images, containers, schema, dumps, state file | first deploy, upgrade, rollback, backup, restore | a step fails half way | no release runs without its migrations; every migrated database has a dump; the release on record was healthy |
| Web front end, `apps/web` | what a page last loaded, its forms, flags and dialogs | pages and panels over the API | answers late or out of order, lost answers, other operators, stale forms | flags belong to calls; forms, dialogs and rows agree; what is offered is accepted; what was done is shown |

How they interact: the workflow reads vehicles, inspections, damage and
documents (readiness), writes vehicles and the tracking log in its transactions
and calls notifications after them. Approving an inspection moves the vehicle.
Foreign keys tie vehicles and invoices to shipments (delete refused) and
tracking events, documents and histories to theirs (deleted along). All
components share the database and nothing else. A page of the front end shares
nothing with another page but the API.

## 2. Modules

    ShipmentStatuses      statuses, the workflow table, the two protected sets
      ShipmentLifecycle   abstract: what the API promises about one shipment
      ShipmentWorkflow    ShipmentsService: overlapping requests, step by step
        Fleet             + VehiclesService: vehicles come, move and go
    InspectionStatuses    statuses, approval, the transition table
      InspectionRecord    abstract: what the API promises about an inspection
      VehicleInspections  VehicleInspectionsService: overlapping requests
    NumberSeries          abstract: 1, 2, 3, ... in each year
      NumberCounters      how shipments, vehicles, inspections and invoices
                          get their numbers
    StoredFiles           documents and photos: a row and a file
    Notifications         messages to the customer, their history, the token
    CustomerRecords       customers, and who refers to them
    InvoiceAmounts        the amounts of an invoice, rounded and repriced
    Accounts              accounts, the administrator script, tokens
    Releases              first deployment, upgrade, rollback
    WebCalls              the calls a page has under way
      CustomersPage, ShipmentsPage, DocumentsPage, UsersPage, VehiclesPage,
      InspectionsPage, InvoicesPage                           the lists
      ShipmentScreen, TrackingPanel, DocumentsPanel,
      NotificationPanel, ShipmentEdit                         one shipment
      VehicleScreen, VehiclePhotosPanel                       one vehicle, its photos
      InspectionScreen, InvoiceScreen                         one inspection, one invoice
    MCShipmentWorkflow, MCFleet, MCVehicleInspections, MCStoredFiles,
    MCServices (NumberCounters and the five services after StoredFiles),
    MCWeb (every page)                                        instances for TLC
    ShipmentWorkflowProofs (with its contract and Fleet),     theorems about
    VehicleInspectionsProofs, StoredFilesProofs,              the handlers, how
    ServicesProofs (NumberCounters too)                       they implement
    InspectionRecordProofs                                    the contracts,
    InspectionScreenProofs, WebPagesProofs, WebProofs         and about the pages

**ShipmentWorkflow** models `api/shipments/shipments.service.ts`. A worker is a
request in flight; its phase is the await it is stopped at:

| phase | the handler has | next step |
|---|---|---|
| `checking` | found the shipment and accepted its status | `AssertReadyForStatus` (the readiness query) |
| `counting` | passed the readiness check, opened the transaction | `CountActiveVehicles` |
| `writing` | done all its reads | `Commit...` or `Rollback` |
| `notifying` | committed | `NotifyShipmentStatusChange` |

`Begin...` is the arrival with the first read and the checks made on it. A handler
that is refused there changes nothing and is left out. From the first write on, a
transaction holds the locks of the rows it wrote, so the rest of it is one step;
what it only read, the vehicle count, is a step before. The variables are the
columns the handlers decide by: `status`; `facts`, what readiness asks of the
shipment row and its documents; `vehicle` rows; `cleared`, the vehicles that have a
completed, approved inspection and no open critical damage; `events`, how many
STATUS_CHANGED rows of each status the tracking log holds. Two variables only
observe: `untold`, the milestone last logged of a shipment while neither a message
told its customer nor an error the caller; `withdrawn`, the clearances and facts
that were taken back since a request passed its readiness check. Texts, dates,
locations and numbers are left out. The inspection and document endpoints appear as
far as they change these variables (`ApproveInspection`, `RevokeApproval`,
`UploadDocument`, `RemoveDocument`): `RevokeApproval` stands for everything that
takes a clearance away, a revocation as well as a reopened inspection, new critical
damage or a deleted inspection. `Fail` is a query that fails: an open transaction
rolls back and the caller gets an error; after the commit it is the read for the
message (`shipments.service.ts:67`), and the milestone is logged and never
announced. `Crash` is the death of the process: requests vanish, open transactions
roll back, a commit without its notification stays.

**Fleet** extends it with `api/vehicles/vehicles.service.ts`, as editors: one
step for the checks (`Begin...`), one for the shipment lookup of an update
(`CheckAssignment`), one for the write (`Commit...` or `FailEdit`).

**VehicleInspections** models
`api/vehicle-inspections/vehicle-inspections.service.ts` in the same way. A
request keeps the row as `findOne` returned it (`seen`): the handlers decide on
it, record its status or approval as the value before, and take from it the
vehicle that an approval advances. The history row and the row it is about are
written in one transaction, hence in one step; the two handlers of damage
reports use no transaction, so inserting the report and setting
`hasVisibleDamage` are two steps, and deleting, counting and clearing three.
`Fail` may end a request before any of them; a report that was stored and whose
flag was not written is observed by `unflagged`.
The database sorts a history by its time stamps; with overlapping requests the
order of two entries says little, so only the properties of serial requests rely
on it. An approval advances the vehicle at its commit; when `updateMany` finds no
vehicle in the required status and one comes into it before the commit, the code
leaves it behind, which moves less than the model does. The inspection side of
`ShipmentWorkflow` (`ApproveInspection`, `RevokeApproval`) is the view a shipment
has of this module.

**InspectionRecord** is its contract: one step per successful request, a status
along the table, an approval decided while the inspection is completed, and a
history of each.

**NumberCounters** takes from four services how they number what they create.
`shipment` and `vehicle` draw from a row of `ShipmentNumberCounter` or
`VehicleNumberCounter` inside the transaction that inserts: the upsert locks the
row until the commit (`isLocked`), and a rollback takes the increment back.
`inspection` and `invoice` count the rows of the year (`Arrive`), an invoice
number is looked up once more (`CheckInvoiceNumber`), and the insert comes later;
only the unique index stands between two requests that counted alike. A row is
its number; rows are deleted except invoices, which are cancelled and stay. The
year may end at any moment: a shipment is numbered in the year read before its
transaction, a vehicle in the year read in it.

**NumberSeries** is the contract of the three series that keep it: a step gives
out the next number of a year. Inspections do not keep it, a deletion lowers
their count.

**ShipmentLifecycle** is the contract: one step per successful request, the
status along the table, one log entry per operational status.

**StoredFiles** models `api/documents/documents.service.ts` with its upload
middleware and `api/vehicle-photos`. `document` and `photo` are the rows (of a
document its shipment, of a photo its vehicle, `isPrimary` and the provider it
names), `stored` the files on the disk and at Cloudinary. No transaction spans
the two, so every call to a store or to the database is a step of its own:

| request | steps |
|---|---|
| document, upload | `received` (the middleware has written the file), `inserting`, or `discarding` when the shipment is missing |
| document, removal | `deleting` (the row), then `unlinking` (the file) |
| photo, upload | `storing`, then a transaction; `compensating` when it fails |
| photo, update | a transaction |
| photo, removal | `unstoring` (the file), then `deletingPhoto` (the row) |

A transaction that makes a photo primary is `reading`, `clearing`, `writing`:
`updateMany` selects the primary photos that are committed, waits until no other
transaction has them locked, and clears those that still are primary; they stay
locked until the commit, which writes all rows at once. A deadlock, a failed
statement and a rollback are `AbortPhoto`. A document and a photo are uploaded
once each, because the name of a file is drawn anew for every upload. Shipments
and vehicles may be removed with their rows (`RemoveOwner`), and the process may
be started again with or without Cloudinary (`Crash`). Three variables only
observe: `abandoned` collects the files that the code leaves when a store, a
validation or the process fails or an owner goes; `doomed` the photos whose
removal was asked for; `raced` the vehicles on which two promotions overlapped,
the one case in which two photos may be primary.

**Notifications** models `api/notifications` with what the workflow asks of it. A
transition decides on the row it read (`CheckTransition`), writes by id
(`CommitTransition`) or fails (`Refuse`), reads the row again for the text of its
message (`notifyShipmentStatusChange`, which may fail too) and waits for both
channels (`sendShipmentTrackingUpdate`); the generic update checks and writes in the
same way (`CheckUpdate`, `CommitUpdate`), so a write may put the status back.
`overtaken` observes the transitions whose status was overwritten by a write that
was decided on an outdated row, before it was read for the message; the two
endpoints for one channel (`sendTracking`) write a row of the history when the
provider has answered (`RecordHistory`). A channel goes `token` (e-mail only) →
`provider` → `told` → `ok` or `no`, with `asked` and `granted` while Google issues a
token: the token is valid from the moment it is issued, its times are counted from
the moment it arrives. Time is counted in minutes, so `Math.max(expiresIn - 60, 60)`
is `keptFor`. `Deliver` may fail, the answer of a provider may be lost (`Answered`),
and `Crash` forgets requests and token.

**CustomerRecords** models the rows that refer to each other: customers,
shipments, invoices. A create or an update reads what it refers to (`asked` →
`half` → `checked`), and the write is decided by the constraints of the tables.
`moved` observes the shipments that were given to another customer after an
invoice for them had been checked.

**InvoiceAmounts** is the arithmetic of one invoice, create and update. Prices are
counted in quarters of a cent, so that a half cent can be told from less, and the
rates that are sent in thousandths of a percent: amounts and tax are computed
exactly, from the rate as it was sent, and each is rounded half up when it is
stored (`Decimal(12, 2)`), the rate to hundredths of a percent (`Decimal(5, 2)`).
An update of the tax rate leaves tax and total as they were.

**Accounts** models `api/users`, `api/auth` and
`scripts/reset-admin-password.ts`: `create` looks for the address, hashes, and
inserts; the script is one upsert; a login reads the row, compares, and signs a
token. `promised` and `had` observe what the script ended with and which
passwords an account has had.

**Releases** models `deploy/scripts`: `first-deploy.sh`, `upgrade-release.sh`,
`rollback-release.sh`, `backup-postgres.sh`. A step is a command that changes
something: the tag checked out (`head`), the images, the containers, the schema
of the database, the dumps, the state file. `Stop` may end a script before each,
`Migrate` and `Start` may fail half way through the migrations, and a script
that found what it needs may be started again.

**WebCalls** is what the pages have in common: `calls`, a few slots for the calls
a page has under way; `Sent` by the page, served by the API (`Reply`, which may
fail or be lost after it was done) and received by the page, in any order. The
state of a page is the record `ui` of its `useState` variables (the ones that
only hold texts are left out), the rows at the API are `db`. Two kinds of rows
are told apart: where a property compares the page with the API, `db` is
modelled and somebody else changes it; where it does not, the page takes any
answer. Handlers are two actions, up to the `await` and after it; the second
works on what the closure of the first had captured. `orphans`, `overtaken`,
`newest`, `mine`, `done`, `exact` and `alone` only observe.

`InspectionScreen` is the page of an inspection with its three parts, which put
what they were answered in place of the inspection: the two panels the row of the
API, the card (`withReport`, `withoutReport`) the inspection it had when it asked,
one report more or less. The gallery of `VehiclePhotosPanel` does the same with
its list (`Seen`, `changed`). Two such changes that overlap undo each other on the
page; `OwnStepIsShown` is about those that do not (`exact`), and shows that
nothing else does: no collapsing, editing, cancelling, failing or reopening.

## 3. Runs

| run | instance | shows |
|---|---|---|
| `workflow_fleet` | 1 shipment, 2 vehicles, 2 requests | whatever the overlapping requests had checked, the vehicles move together and as logged; no operational status without an event |
| `workflow_serial` | 2 vehicles, 1 request at a time, approvals and documents that change at any moment, 1 crash, milestones tried twice | what a shipment lacks when it is loaded was taken back after its check; the handlers implement `ShipmentLifecycle`; status and vehicles agree; each milestone is announced or ends in an error |
| `workflow_removal` | 2 requests, 1 vehicle that may belong to the shipment or not, failing queries | a deleted shipment stays deleted; each request ends |
| `fleet` | 2 vehicles, 1 shipment request, 1 vehicle request, 4 vehicle requests in all | every vehicle has a shipment; no milestone without a vehicle that made it |
| `inspections_overlap` | 1 inspection, 1 vehicle, 2 requests | the histories account for every status and approval; no vehicle advances without an approval |
| `inspections_serial` | 2 vehicles, 2 reports, 1 request at a time | the handlers implement `InspectionRecord`, whose histories are paths; reported damage is shown unless the write of the flag failed |
| `files` | 2 requests, 1 shipment, 1 vehicle, 1 document, 2 photos, 1 crash | rows keep their files and files their rows; one primary photo, which no promotion loses |
| `services` | one service at a time: `NumberCounters` with 3 requests at a time, 5 in all, 2 years, counters up to 2; the others with 2 requests at a time | numbers are neither given twice nor left out, and an invoice can be tried again; what is recorded as sent was delivered, and no message tells a status before the one that was reached, outdated writes excepted; no row dangles; amounts add up within the rounding; the administrator stays, tokens are earned; no release runs without its migrations, and every migrated database has a dump |
| `web` | one page at a time, 2 calls under way, 1 or 2 rows of each kind | flags fall with their calls; forms and dialogs keep their row, the number of a shipment excepted; where no load failed or was overtaken, a list shows what its filters ask for and a screen what the operator did; no milestone but the customs is shown too early; what is offered is refused only when somebody else was faster |
| `claim_...` | as small as the disagreement allows | section 6 |

Bounds. Shipments share no row except vehicles that move between them, and
every property speaks of one shipment, so one shipment is enough for the
workflow runs. Two vehicles are needed for one that moved and one that did not.
Two requests are needed for a race. `MaxEvents` refuses a request for a status
that was logged so often (two requests may still both get through): the table
has no cycles, so a status is logged more than once only by such races.
`MaxCrashes` and `MaxEdits` bound what the environment may repeat for ever;
approvals are given and revoked, and documents come and go, without a bound.
`StatusHasEvent` is checked with `CreateStatuses` outside the operational ones. One
request is enough for `LoadedShipmentWasReady` (what is revoked between its check
and its commit is the environment's doing), and its theorem has no such bound. The
process of `workflow_removal` does not die: to a shipment that is like a failing
query in each of its requests.

No handler of the inspections reads a second inspection, so one is enough.
`MaxHistory` refuses a request that would extend a history that long (here the
table has cycles); overlapping requests get past it. Two vehicles let an update
move an inspection to another vehicle; one report less than two would not show a
flag cleared too early. `Flags` is empty where `DamageShown` is checked: callers
may set `hasVisibleDamage` to anything, and the property is about what the report
endpoints make of it. `Types` keeps the two types an approval acts on where that
is the question, and one of the others elsewhere.

Three requests let two that hold a number meet a third that draws or counts, and
`Limit = 2` (9999 in the code) is passed by the third draw. Four requests fill a
series, delete from it and go on. With `LastYear = 2` there is one turn of the
year; the series of two years share nothing.

Two calls under way are what it takes for one to overtake the other. MCWeb mounts
the page of an inspection four times, each time with those of its parts that
share state or rows: the two panels; the status and the form that edits; the
reports, two of them; the card with one report, which others may delete.

The services of `services` share no table, so each is run alone, with the others
at rest (`Served`), and each property is about one of them; so are the pages of
`web` (`Shown`). Two requests overlap, three add nothing to a read followed by a
write. A token lives 1 or 3 minutes, less than the margin and more, and three
minutes pass. Amounts of 0, 2, 6, 399 and 1197 quarters of a cent meet the cases of the
rounding, up to three items add their errors up; of the rates (0, 7.125 and 19 %)
one is not a hundredth of a percent. The shipment of the messages starts quoted,
which the milestones do not list, or ready for delivery. Of three releases one is ahead
of and one behind the one that is deployed. A page with two calls under way has
an answer that overtakes another; each page has two rows where a form or a dialog
could name the wrong one.

Two photos are one to promote and one to be demoted, two requests a race. The
same properties also hold with three photos (1.1 million states without a crash,
6.2 million with one), which takes too long to be run every time. Documents and
photos share nothing but the process that dies.

Fairness. `FairSpec` asks weak fairness of `Serve(w)`: the event loop resumes a
handler when its query is answered, and PostgreSQL answers or aborts every
query (a deadlock or a lost connection is an error, hence an answer). Nothing
is asked of the arrival of requests or of the environment; a crash ends the
requests it meets. `CHECK_DEADLOCK` is
off where the system may stop: after the last shipment is deleted, or when all
bounded requests were sent.

Definitions marked *faulty* are plausible mistakes in the definition below
them. No action uses them; put in the place of the right one, the property
listed beside it in `PROJECT.json` is violated.

## 4. Proofs

`ShipmentWorkflowProofs` holds for every number of shipments, vehicles and
overlapping requests and every value of the bounds (`ConstantsAssumption`:
finitely many vehicles, statuses and facts from their enumerations).

* `TypeCorrect`: `TypeOK` with `RequestsOK`, which ties the handler of a request
  to its target and phase. `TypeOK` alone is not inductive: `RecordStatus` logs
  `request.target`, which could be unset for an update.
* `FleetFollowsLogAlways`: the invariant is not inductive by itself, since a
  transaction that counted no vehicle would log a milestone nobody made.
  `CountsOK` adds that a request about to write a milestone counted at least
  one vehicle. Then the count of `updateMany` equals a positive number only if
  *all* active vehicles were in the required status (`MovedAll`, by the
  cardinality of a subset), so by the invariant exactly the milestones before
  it were logged, however stale the status check had become.
* `SerialImplementsLifecycle`: with one request at a time (`OneAtATime`), `Spec`
  implements `ShipmentLifecycle`. The inductive part is `SerialInv`: while a
  request is in flight, the transition it was accepted for is still allowed,
  because only requests change the status of a shipment that exists.
* `FleetFollowsStatusAlways`, under the same assumption: `SerialInv`, the log
  (`FleetFollowsLog`) and `Attached`, that an active vehicle of a shipment exists
  with it, carry the statement from each step to the next. Without `OneAtATime`
  it is false: the status is written whatever it has become.
* `LogIsTheWayTravelledAlways`: the contract implies that the log of a shipment
  is exactly its way through the table, for any number of shipments.
  `SerialLogIsTheWayTravelled` takes it over to the handlers, one request at a
  time, by the refinement.
* `DeletedStaysDeletedAlways`, `StatusHasEventAlways`,
  `LoadedShipmentWasReadyAlways`, each with its own strengthening: a deleted
  shipment has no readiness facts left, so no document can be removed from it
  (`DeletedEmpty`); an update in flight carries no operational status other than one
  that was logged (`UpdatesLogged`, with `CreateStatuses` outside the operational
  ones); a loading request past its readiness check lacks only what was taken back
  since (`ReadyBut`). The last is an action property of every loading, whatever
  requests overlap and whatever is revoked.

The theorems about `Fleet`, in the same module, are about the shipments and the
vehicle service together, for every number of shipments, vehicles, workers and
editors. `FleetTypeCorrect` needs what a vehicle request in flight carries
(`EditsOK`). `VehicleHasShipmentAlways` shows
that the foreign key is enough: whatever a request had looked up, the row it
writes belongs to a shipment that exists at that moment (`WritesRow`), a shipment
handler moves no vehicle to another shipment, and a deletion takes its vehicles
along. `NothingTravelsEmptyAlways` is an action property: a transition's count
and its `updateMany` are two statements, and `CountsOK` of the workflow is
carried through the steps of the editors, so the step that logs a milestone has
moved a vehicle.

`InspectionRecordProofs` proves `HistoriesArePathsAlways`: appending to a path an
edge from its end gives a path, and creation starts one. No run checks it by
name; `inspections_serial` checks that the handlers implement the record. By that
refinement `SerialHistoriesArePaths` (`VehicleInspectionsProofs`) says the same of
the histories the API keeps, one request at a time.

`VehicleInspectionsProofs` holds for every number of inspections, vehicles,
reports and requests. `Inv` is the conjunction of `TypeOK`, of the foreign
key of a report (`ReportsOK`), of what a request in flight may rely on
(`RequestsOK`) and of the two statements about the histories. The part that
makes it inductive is `RequestsOK`: the status and approval a request *saw* are
in the history, if the inspection still exists, and what it is about to write is
allowed from what it saw. Histories only grow until the inspection is deleted, so
no other request can take that away; hence `StatusAccountedForAlways` and
`ApprovalAccountedForAlways`.

`NoFreeAdvanceAlways` counts: with `Paid`, that the approvals recorded are finitely
many, every step that moves a vehicle forward by one stage either adds one approval
to a history in the same transaction or counts as a move of another endpoint. The
cardinalities are those of sets of pairs, so that no sum over a set is needed;
`InspectionConstants` has the inspections and vehicles finite.

With one request at a time (`OneAtATime`), `SerialImplementsInspectionRecord` maps
every step to one of `InspectionRecord` or to a stutter. The inductive part is
`Current`: the row a handler decided on is still the row it is about to write.
`DamageShownAlways` assumes besides that no update clears the flag by hand
(`"NO" \notin Flags`, as in the run); `DamageInv` says that an inspection with a
report has the flag or a request that is about to set it, unless that request
failed (`unflagged`), and that the flag is only cleared where no report is left.

`ServicesProofs` begins with `NumberCounters`, for every number of requests, years
and every limit. `Inv` says that a counter series has given out exactly `1 .. counter`
(`CounterHolds`), that invoices were never deleted and so the numbers taken are
`1 .. n` (`InvoicesHold`), that the number a request drew is the next one of its
counter (`RequestsOK`), and that one request at most holds a counter row
(`OneHolder`): its commit makes the counter grow by one, and no other request can
have moved it. An invoice number that was counted is at most one beyond the last,
so the insert that succeeds is always the next of the series. From `Inv` follow
all four properties of the run, the refinement included: a commit maps to
`Issue`, because `Cardinality(1 .. n) = n`, and every other step to a stutter.

`StoredFilesProofs` holds for every number of requests, shipments, vehicles,
documents, photos and crashes. `Inv` says of every request in flight what it may
rely on (`RequestsOK`): the file of an upload has no row and, once stored, is in
the one store the request chose; the row that an update or removal knows still
names the same vehicle and store, if it is there; what a transaction cleared
still has its rows. `Sole` adds that nobody else serves a file that is being
uploaded, so a failed upload takes back nothing but its own, `Placed` that a file
is in no store but the one its row names, and `Accounted` that a file without a
row has a request that is still to remove or insert it. The properties about
rows and files follow at once, and so does `PrimaryStays`: whatever a commit
clears belongs to the vehicle whose photo it makes primary. `OnePrimary` needs
one more invariant, `Alone`: on a vehicle without a race, the request that is
promoting a photo is the only one, and has found, then cleared, every other
primary photo.

The rest of `ServicesProofs` is about the services of `MCServices`, for every number of
customers, shipments, invoices, items, accounts, messages, tokens, releases and
requests. It assumes `ServicesConstants`: null is no value, and amounts, minutes
and releases are counted.

* Customers: what makes `InvoiceNamesOwner` inductive is `OwnersOK`: what a
  request has checked about a shipment, that it belongs to the customer of the
  invoice, stays true until the invoice is written, unless the shipment is gone,
  when the foreign key refuses the insert, or was given to another customer, which
  `moved` records. `NothingDangles` and the uniqueness of the customers' numbers
  follow from the constraints, whatever a request had found before its write.
* Accounts: `AccountsHoldAlways` with `PasswordsKnown`, a row has a password its
  account has had, and `LoginsKnown`, so has the row a login has read, and the
  account is there: no handler deletes or deactivates one.
* Releases: `SchemaCarriesReleaseAlways` and `WayBackExistsAlways` follow from
  `ScriptInv`, which says for each step of a script what it has got done: from its
  backup on, an upgrade has a dump of the database as it is until the migrations;
  what it verified was its own target. Migrations only go up, so what was true of a
  schema stays true.
* Messages: `MessagesInv` says of every message on its way that its request is
  (`SendInv`), that the customer has it when the provider says so, and that a
  shipment is, and a message tells, the status a transition reached or one further
  on the way (`RequestInv`), as long as no write decided on an outdated row has come
  between the commit and the read: such a write makes the transitions that wait for
  their read `overtaken`, and one decided on the present row follows the table,
  which never leads back (`TransitionsGoOn`, by the places of the statuses on the
  way). That nothing ahead
  is ticked off is a fact about the two lists alone: they follow the way, so what is
  before the index of a status has an earlier place (`TickedIsBehind`).
  `TokenStillGoodAlways` is an action property: a message gets to the provider
  without asking for a token only with the one in the cache (`OnlyCachedTokens`),
  whose expiry is the margin before the end of its life, counted from its arrival
  (`TokenInv`).
* Amounts: `AmountsAgreeAlways` holds for any number of items and any rates. The
  tax is computed from the exact sum and the rate as it was sent, and compared with
  the stored subtotal and the stored rate: what their product is off is bounded by
  `OffByRate`. The sums are a
  recursive function; that it exists, that it is a natural number and that rounding
  each item takes it off by half a cent at most for each of them are inductions,
  carried out with the least natural number of a set (`LeastNatural`, from the
  well-foundedness of `<`), since the induction theorems of the library take an
  operator.
* `ServicesTyped`: `ServicesTypeOK`, from these invariants and from the theorems
  about the numbers and the customers.

`WebPagesProofs`, `InspectionScreenProofs` and `WebProofs` are about the pages of
the front end, for every number of rows and of calls under way, whose answers may
come in any order or not at all. They assume `WebConstants`, that a page may have a
call and that null is no number, and `PagesConstants`, that a shipment and a vehicle
are opened in a status they can have, that a list has a first page, that it is not
filtered at first and that the form of an invoice has a line. The pages share the
lemmas about calls: `apiFetch` finds a free slot (`CallIsPlaced`), a step puts one
call into a slot or takes one out (`Puts`), and leaves all others as they were.

`PagesInv` is the inductive invariant of `MCWeb`: one invariant for each of the
nineteen values of `mounted`. The lists, the pages of one shipment, vehicle and
invoice are in `WebPagesProofs`, the panels in `WebProofs`. The page of one
inspection is mounted with four choices of its parts: `InspectionScreenProofs` proves
its invariant for every choice, and `WebProofs` shows that each instance is one of
these (`ReviewedPage`, `FormOfPage`, `DamagedPage`, `CardedPage`).

* `PagesTypedAlways` and `BusyWhileUnderWayAlways`: what each call under way carries
  is of the type its handler stores, and every flag names the call that clears it.
  The calls of a panel that was closed clear nothing (`orphans`): while a flag is
  up, one of the others is under way.
* `FormsKeepTheirRowAlways`: the pages of the customers, the shipments and the
  accounts. What makes it inductive is that one deletion is under way at a time
  (`Alone`) and that the dialog waits for it (`DialogWaits`), so an answer that
  arrives while the dialog names a row is about this row; a creation of an account
  keeps its dialog open in the same way.
* `RefusedOnlyWhenStaleAlways`: the pages of a shipment, a vehicle, an invoice and
  an inspection, the last with the panel of the status and, in turn, that of the
  approval and the form. Each invariant says that what a page has sent was offered
  for the record it had *seen* (`ScreenCallOK`, `VehicleCallOK`, `InvoiceCallOK`,
  `PanelsCallOK`), and so is what is selected and not yet sent; an
  invoice depends besides on its options being loaded once, before anything can be
  chosen (`OneLoad`). With that the theorem is a fact about two tables, of the page
  and of the API, compared status by status.
* `PagesTellTheTruthAlways`: that a page that has settled, without a failed load and
  an answer that was overtaken, is right follows from what is on its way. The newest
  load of a list asks for the filters on the page (`VehiclesSettle`,
  `InspectionsSettle`). On the page of a shipment no answer that counts is older
  than what the operator did, as far as no later one was overtaken (`ScreenTruth`,
  `TrackingTruth`, `MessagesTruth`). A document has an id nobody had before
  (`PapersUsed`), so that what was uploaded and what was removed are told apart; a
  load that overlaps neither has the one and not the other (`PapersLoads`), and the
  panel shows both right unless answers got mixed (`PapersShown`). While photos
  change one at a time the gallery has the rows of the API but for the change under
  way, and every load brings these rows (`PhotosExact`, `PhotosLoaded`); the reports
  on the page of an inspection likewise (`Own`).

Only model-checked: the liveness properties (`RequestsAnswered`,
`MilestonesAnnounced`), which are beyond the provers. The properties of the
`claim_...` runs are false.

## 5. What is not modelled

* Texts, dates, search terms and layout, and with them the PDF documents and the
  dashboard, which only read. The read-only endpoints change no state.
* A commit that succeeds while its answer is lost between API and database: to
  the models of the API a transaction fails or commits, and the handler knows
  which. Between page and API the lost answer is modelled (`WebCalls`).
* `restore-postgres.sh`: it reads a dump that `backup-postgres.sh` made without
  `--clean` into a database that has tables, so `psql` stops at its first
  statement; what could be modelled is that nothing happens.
* The mail to the administrator that follows the one to the customer, whose
  failure is only logged.
* Entries of the tracking log are updated and removed by endpoints no page calls;
  the log keeps the two kinds apart (`TrackingPanel`), which is all the others
  rely on.
* The uniqueness of VINs, a unique index with a lookup before it, as the numbers
  of customers in `CustomerRecords`.
* The contents of a damage report, the texts and the order of photos, the title
  and category of a document; the deletion of a vehicle together with its
  inspections.
* Numbers that migrations seeded from existing rows.
* Of the front end, the login page, the public tracking page, the dashboard and
  the header: they send one call and show its answer. The list of inspections on
  the page of a vehicle (`VehicleInspectionList.tsx`), whose cards and forms are
  those of `InspectionScreen`.

## 6. Where the code does not do what it says

Each `claim_` run checks one sentence of the repository and ends in a
counterexample; `PROJECT.json` quotes the sentence.

* `claim_terminal`: a generic update that sends the status as it was read is checked
  before a cancellation, writes after it, by id alone, and overwrites CANCELLED. The
  workflow endpoints write in the same way after their check. A
  `where: { id, status: <status read> }` would close it. Readiness, read before
  the transaction too, may be gone when the shipment is loaded (no run states
  this; `LoadedShipmentWasReady` says that nothing else may be missing).
* `claim_left_behind`: a vehicle joins between the count and `updateMany`.
  In the same way a vehicle update writes a status it checked before the
  shipment was loaded, and moves the vehicle back (no run states this).
* `claim_deployed`: each script checks its target out before it builds and starts
  it. One that stops after its checkout, in the trace a rollback, leaves a tag
  checked out that does not run, and an upgrade to this tag is refused as "already
  deployed". The same happens to an upgrade that stops there and is tried again; the
  next one then records a release that never ran as its predecessor.

What follows was met while modelling. No run states it, since no sentence of the
repository denies it; the models contain it, and where a property would be
violated by it the property says so.

API:

* `POST /shipments` accepts any status, also one the workflow would have had to
  log (`shipments.service.ts`, `create`); `StatusHasEvent` is about the others.
* An inspection may be reopened between the check of its status and the
  transaction that approves it, so an approved inspection need not be completed.
* After the commit of a transition the status is read again for the message: of
  two overlapping transitions the second may be announced twice and the first
  never, a message may tell the status an outdated write has put back, and when this
  read fails the caller gets an error for a transition that was made.
* A damage report is stored before the flag of its inspection is set: when the
  second statement fails or the process dies, the inspection shows no damage. The
  automatic messages leave no row in the history. A message whose provider's answer
  is lost is recorded as failed.
* `gmail-api.transport.ts:120`: a token that lives for two minutes or less is
  kept for one minute all the same.
* An update may give a shipment to another customer although invoices for it are
  made out to the former.
* `invoices.service.ts`, `update`: the tax rate is stored without computing tax
  and total again, and a cancelled invoice may get any status. Quantities and
  the rate are stored rounded, while the amounts and the tax were computed from the
  unrounded, so the tax on an invoice need not be the one of its rate.
* The milestone lists of both providers lack `QUOTED`, in which nothing is ticked
  off.

Scripts:

* Going back starts an older release on the newer database and leaves the file
  that names the active release as it was. The images carry one tag whatever they
  were built from, and the image that the first deployment migrates with is not
  built again when there is one.

Front end:

* `ShipmentMilestones.tsx` and the statuses of `AddTrackingEventForm.tsx` have the
  customs clearance before the loading, so it is shown as completed from the loading
  on, while it is still ahead; `MilestonesNotAhead` excepts it. The form starts with
  an entry of type `STATUS_CHANGED`, which `tracking.service.ts` always refuses.
* A late answer to an older question overwrites the newer one: the list of
  shipments and of customers after a change of the filter, the inspection or the
  documents after a refresh, the number proposed for a shipment after the
  operator has opened another one, whose number, the page says, cannot be changed
  (`FormFollowsEditing` excepts it). `ShowsWhatIsAsked` is therefore about lists
  that have settled without such an overtaking, and says so (`overtaken`).
* What is opened while a save or a deletion is under way is emptied by its
  answer; a form that replaces the whole row sends what it had loaded, so a
  change of somebody else is undone by the next save. A field that is cleared is
  sent as `undefined` and keeps its value.
* A save whose answer is lost is reported as failed, and repeating it makes a
  second row. In the forms that leave the page after a save
  (`invoices/new/page.tsx`, `VehicleForm.tsx`, `shipments/[id]/edit/page.tsx`)
  the button is enabled again before the page is gone.
* The panels of a shipment offer steps by a table of their own: the dispatch
  panel offers the loading whatever the status. The header of the shipment and
  the tracking panel are not loaded again after a step. When the refresh of
  `ShipmentScreen` fails, its panels are unmounted with the operator's entries.
* `InspectionStatusWorkflow.tsx:43` offers a return from IN_PROGRESS to DRAFT,
  which `assertStatusTransition` always refuses; the form that edits an inspection
  offers every status, and the panel of the approval only warns where the API
  refuses. What was selected in a panel stays selected after another part has
  changed the inspection.
* `VehicleInspectionCard.tsx:138`: a report that is saved or deleted while another
  change is under way puts the older inspection back. `DamageReportForm` has no
  key (412): going from one report to the next keeps what was entered for the
  first and saves it as the second. Collapsing the card or opening its form
  forgets what is being saved.
* `VehiclePhotoGallery.tsx:88`, `142` and `323` put the list back that the handler
  had seen, so of two overlapping changes the later answer undoes the earlier, and
  a saved photo closes the editor of another one (349).
* The pages that download several files have one flag for the row that is being
  downloaded, and a failed download on `invoices/[id]/page.tsx` replaces the
  invoice by an error for good.

## 7. Plan

1. Done: the shipment workflow, its contract, the fleet; their theorems.
2. Done: the inspections, their contract; their theorems.
3. Done: `NumberCounters`, its contract and theorems.
4. Done: `StoredFiles`, documents and photos, row and file; its theorems.
5. Done: `Notifications`, `CustomerRecords` with theorems, `InvoiceAmounts`,
   `Accounts`, `Releases`.
6. Done: the pages of the front end over `WebCalls`.
7. Done: theorems about the fleet, the inspections served one at a time, and all
   the services.
8. Done: theorems about the pages, one invariant for all of them.
9. Contracts for `Releases` (what an operator may count on after any script) and
   for `Notifications`.
