# Bihar Transport: a verification project

TLA+ models of the orders, trips and money of the transport back end
(`src/transport-system/backend`, Node/Express, Prisma on PostgreSQL), the TLC
runs that check them, and proofs about them checked by TLAPS.

The paths below are relative to `src/transport-system/backend/`.

## 1. The system

A customer submits an **enquiry**; an operator assigns a vehicle and a driver,
prices it, and sends the price; the customer accepts, or the operator confirms on
the phone; acceptance creates a **booking**, the booking gets an operational
**trip**, the trip is loaded, dispatched, delivered, and billed; vendors and
drivers are settled. There is one Node process per instance, several instances may
run, and the only shared state is PostgreSQL at its default isolation level, READ
COMMITTED. Nothing is queued: every state change happens in an HTTP handler, which
is a chain of `await`s on the database. **The hard behaviour of the system is
what happens when the statements of several such handlers interleave, or when a
handler stops between two of them.**

| Component | State it keeps | Operations | Correct when |
|---|---|---|---|
| `utils/EnquiryStateMachine.js` | none | transition table, `shortestPath` | the table says what the handlers assume |
| `services/EnquiryService.js` | `enquiries` row | `adminAssign`, `adminSetQuote`, `adminSendQuote`, `adminSetReviewStatus`, `customerAccept`, `adminConfirmOrder`, `customerReject`, `customerCancel`, `adminCancel` | one order per enquiry, claims are resolved, an offer is complete |
| `services/QuotationService.js` | `quotations`, snapshots | `saveQuotation`, `sendQuotation`, `confirmOrder`, money arithmetic | CONVERTED means an order, the frozen money is the order's, the sums add up |
| `services/ManualOrderService.js`, MANUAL branch of `createEnquiry` | enquiry, booking and trip of a phone order | `createManualOrder`, `createEnquiry` with a key | one whole order per form, however often it is sent |
| `services/TripProvisioningService.js` | `trips` row | `ensureTripForEnquiry`, `ensureTripForBooking` | one trip per consignment, bound to its own order |
| `services/TripVehicleAssignmentService.js`, `EnquiryAssignmentService.js`, `ResourceAvailabilityService.js` | vehicle, driver and vendor on trip and enquiry; availability flags | `assign`, `validateAssignment`, mark busy, release | no truck on two overlapping jobs, no busy truck marked free |
| `services/TripService.js`, `TripOperationalService`, `TripDispatchService`, `TripTransitOpsService`, `TripDeliveryService` | `trips.status` and its records | the trip's life cycle, generic status endpoint | no stage is skipped, completion frees the truck |
| `services/BookingService.js`, `ReservationRepository.js` | `bookings`, reservations | the older quote/accept/reject flow, deletion | one answer per quote |
| `services/FinancePostingService.js`, `CanonicalFinancialService.js`, `TripSettlementService.js`, `TripInvoiceService.js`, `TripAdvanceService.js`, `TripService.addPayment` | the ledger | receipts, settlements, advances, reversals | nothing is paid or received twice or beyond what is due |
| `services/VehicleHireWorkflowService.js` | the vendor obligation of a trip | create, edit, cancel a hire | one obligation per trip |
| petrol pump billing, numbers, master data, OTP and tokens, realtime and e-mail, PDFs, maps, routes | own rows or none | see `PROJECT.json` | |

Interaction: `QuotationService.confirmOrder` calls
`EnquiryService.adminConfirmOrder` and then continues with its result;
`EnquiryService` calls `BookingService.createBooking`,
`TripProvisioningService.ensureTripForEnquiry` and
`TripVehicleAssignmentService.assign`; everything else meets in the database.
`PROJECT.json` lists every component with its status, and every hazard at the line
where it bites.

## 2. The modules

| Module | What it is |
|---|---|
| `EnquiryStates` | the status table of an enquiry and the functions over it |
| `OrderCharter` | the abstract specification of an enquiry: where it stands, who has taken its offer, which order it became |
| `EnquiryOrder` | one enquiry and any number of requests on it: all handlers of `EnquiryService`, with trip provisioning and assignment as they act on that enquiry; it implements `OrderCharter` |
| `QuotationDesk` | extends `EnquiryOrder` with the quotation, its snapshots and the three handlers of the quotation screen; the conversion started by `confirmOrder` *is* the one of `EnquiryOrder` |
| `Paise`, `QuotationMoney`, `HireMoney` | the money of a saved quotation (totals and the three payment schedules) and of a hire's terms, rounded at every step where the code rounds |
| `ManualOrder` | orders taken by phone: `createManualOrder` and the MANUAL branch of `createEnquiry`, sent again with the same key |
| `TripStates` | the status table of trips, with the legacy skips |
| `Fleet` | several trips competing for vehicles: `adminAssign` and `assign()` with row locks, `createTrip` and `updateTrip` with advisory locks, the exclusion constraint on stamped trips, the generic status endpoint, provisioning and release |
| `TripCharter` | the abstract specification of a trip: the order of its stages and the facts each stage needs |
| `TripLife` | one trip from assignment to completion: loading, dispatch, transit, incidents and vehicle changes, proof of delivery, completion; it implements `TripCharter` |
| `LedgerRows`, `CustomerLedger`, `VendorLedger`, `PumpBook`, `Ledger` | money on one trip: the table of financial rows with its locks and unique indexes; receipts and invoices; settlements, vendor payments, advances and hires; the book of a petrol pump; and their composition |
| `BookingStates`, `BookingLife` | one booking of the older flow: preparation, sending with a reservation, answer, expiry, edits, driver stages, bulk operations, deletion |
| `EnquiryOrder_proofs`, `QuotationDesk_proofs`, `ManualOrder_proofs`, `Fleet_proofs`, `TripLife_proofs`, `BookingLife_proofs`, `Ledger_proofs`, `Money_proofs` | the theorems about the module of that name; `Money_proofs` is about `Paise`, `QuotationMoney` and `HireMoney` |
| `MC...` | instances for TLC. `MCBackOffice` puts the screens that share no row side by side: a behaviour is one of the quotation desk, one form of a quotation or a hire, or one of the phone |

Which interact: `QuotationDesk` extends `EnquiryOrder`; `Ledger` composes customer,
vendor and pump over one table and one set of locks; `EnquiryOrder` and `Fleet` both
contain `assign()`, the first as it acts on one enquiry, the second as it competes
with other trips, and `TripLife` what follows its commit.

### How the code becomes a model

* **A request is a process.** `req[r]` holds the place a handler has reached
  (`at`) and what it has read and will use later: `st` a status, `pr` a price,
  `asg` and `hd` resources, `bk` a booking id. `desk[r]` is the same for the
  quotation screen; while `desk[r].at = "wait"` the request runs `req[r]`.
  `GoOn` also drops a value the handler does not use again, which changes nothing a
  handler does and keeps equal situations one state.
* **One action per database statement or transaction.** A write by primary key
  (`update ... where enquiry_id`) is `WriteStatus`, which lands whatever the row has
  become; a conditional `updateMany` is a pair of actions, won and lost. Reads that
  decide are in the action of the read; a handler that returns or throws before it
  writes is a request that does nothing and has no action.
* **Guards that fail in the database or in another service are choices**: a booking
  cannot be created (`CreateFails`, and `CreateFailsLate` when the second of its two
  writes fails), a vehicle is engaged elsewhere (`AssignRefused`, `ConfirmRefused`),
  an insert meets the unique index (`MakeTripLost`).
* **`Crash(r)`** ends a request between two statements: the process died or lost its
  connection. Nothing of a request survives; the rows do.
* **Data**: the vehicle and the driver are two resources that are set or not; an
  amount is a model value; events, timeline entries, messages and timestamps are
  left out. In `QuotationDesk` an amount also stands for the rows it is computed
  from, so that a total computed from older rows can be told from a fresh one.
* `DRAFT` is the schema's default for a quotation and is never written;
  `IN_PROGRESS` and `COMPLETED` are statuses of an enquiry that no handler writes.

`reopened` is a history variable: some write took the enquiry from a decided status
(accepted, confirmed, rejected, cancelled) back to an undecided one. No handler
intends that, and the table forbids it, but five writes can do it because they
write by primary key what they decided from an earlier read. The safety
properties are stated up to that event. Together with the run `one_booking` they say
exactly where the protection ends: **every duplicate or replaced order needs a stale
status write first, and such a write exists.**

The other modules follow the same rules, and add:

* **Locks** (`Fleet`, `LedgerRows`, `PumpBook`). A row lock is held from the statement
  that takes it to the end of the transaction, and a request that has to wait has no
  enabled step. When requests wait on each other in a circle, PostgreSQL aborts one;
  that is the roll-back or crash every request may meet at any place. What a
  transaction has written is invisible to others until it commits, so its writes are
  one action at the commit unless it releases something earlier.
* **Stale reads.** A handler that reads before its transaction keeps what it read in
  its request, and the later write lands by primary key. Nothing is re-read that the
  code does not re-read.
* **A row that may not be there** (`LedgerRows`). `filed` counts the trip's rows in
  `trip_financials`, `booked` says whether the trip has a booking. Who finds the row locks
  it; who finds none creates one in its transaction and locks nothing. With a booking the
  unique index on `booking_id` makes two creations collide; without one nothing does, and
  the trip gets a second row (`filed = 2`).
* **Serializable transactions** of the pump book commit only if nobody has committed
  since their snapshot, and are started again as the code does.
* **`mix`** (`TripLife`, `Ledger`) is chosen once: which group of endpoints is called
  in this behaviour. It bounds the interleavings to endpoints that touch the same rows,
  and the groups overlap in the rows they share.
* **History variables** only record, no action reads them: `how`, `raced` and `revived`
  (`Fleet`: which writer engaged a trip's vehicle; another request engaged it between
  the check and the write; a stale write took the trip out of a final status), `once`
  (`TripLife`: the proof of delivery was verified or waived, the trip was delivered),
  `lapped` (`CustomerLedger`: two requests were reconciling the invoice at one time),
  `answered` (`VendorLedger`: the adjustments that were acknowledged), `outdated`,
  `reassigned`, `repriced`, `doubled` (`BookingLife`: a request wrote after the quote it had
  read was replaced; the driver, the price was changed by hand; two requests inserted a trip
  after neither had found one), `answers` and `overtaken` (`ManualOrder`: the bookings named in
  answer to a key; the keys whose enquiry the desk converted meanwhile).
* **Money** is a whole number of paise. `Nearest` is `round2`, and because the quotient
  is a double, a half may go either way. The tolerance of a schedule is
  `total + 0.01` in doubles, which does not always reach the next paisa; both outcomes
  are possible (`Checked`). A percentage is a whole number of `1 / Hundred`.
* **What may go wrong in a statement** (a constraint, a time-out, a lost connection) is
  a step that ends the request, with a roll-back of the open transaction.

## 3. What is checked

| Run | What runs | Shows |
|---|---|---|
| `enquiry_order` | the nine endpoints on one enquiry, crashes, booking failures, guest; 2 requests, 2 bookings, 1 price; 1.9 million states, 100 s | `OneConversion`, `TripFollowsOrder`, `OfferIsComplete`, and `KeepsOrderCharter`: `EnquiryOrder` implements `OrderCharter` |
| `quotation_desk` | one screen of the back office per behaviour (`MCBackOffice`); 2.0 million states, 100 s | the desk: `ConvertedHasOrder`, `SnapshotOfTheOrder`, `OneConversion`; forms: `AdvanceCoversTheBill`, `MilestonesCoverTheBill`, `NetFreightIsPayable`; the phone: `AnswersAgree`, `OrdersAreWhole` |
| `claim_resolved` | desk and customer under fairness; 150 thousand states | `ClaimResolved`: an accepted enquiry does not stay between acceptance and order |
| `fleet` | eight endpoints, 2 trips, 1 vehicle, 2 requests; 1.1 million states, 45 s | `AssignedApart`, `CreatedApart`, `ApartUnlessRaced` |
| `trip_life` | one trip, 2 vehicles, 2 requests, three mixes of endpoints; 710 thousand states, 50 s | `NeverAheadOfFacts`, `ChangeBacksIncident`, `DispatchRowAdvances`, and `KeepsCharter`: `TripLife` implements `TripCharter` |
| `ledger` | one trip's money, 2 requests, six mixes of endpoints, with and without a booking and a financial row; 1.2 million states, 100 s | `GuardedReceiptsFit`, `InvoiceAgreesUnlessLapped`, `ReversedOnce`, `PaidWithinPosition`, `BookKeepsPace`, `AdjustmentsAddUp`, `PumpBalanced`, `BillsAddUp` |
| `booking_life` | one booking, 2 requests, 2 drivers, 2 prices, 2 offers; 2.2 million states, 95 s | `OneActiveReservation`, `HeldForOpenQuote`, `ConfirmedIsAccepted`, `DealAgrees`, `OneTripUnlessOverlap`, `AnswerStands` |
| `claim_has_owner`, `agreed_price`, `one_booking`, `retry_finds_order`, `reversed_receipt` | | one comment of the source each that the program does not keep; see section 6 |

Each safety run also checks the type invariant of its module. `MCEnquiryOrder`
evaluates `HasPathIsReachability`: the two hops of `HasPath` are the breadth-first
search of `shortestPath` for the only target asked for.

**Two requests.** Two requests at once give every race of two handlers, each of which
may be any of the endpoints of the run, and a finished request may arrive again as
another, so sequences are unbounded. A third request adds no third kind of lock or
claim: every decision is one read and one later write, or one lock held to the commit.

**Other bounds.**

* `enquiry_order`, `quotation_desk`, `claim_resolved`: two booking ids are enough to see
  a duplicate; when both are used no further booking is made, which is the bound's only
  effect. One price where prices are not compared, two where they are. The desk runs
  leave `adminAssign` out: the client's workflow, which `confirmOrder` documents, hires
  the vehicle after the order, and with no vehicle `adminSendQuote` is never enabled; the
  two are raced with everything else in `enquiry_order`.
* Forms: amounts from {0, 1, 2, 5} paise, percentages in eighths (so that halves occur
  and two roundings can meet), up to three milestones. One form per behaviour, because a
  save computes everything afresh. The arithmetic is periodic in the amounts, and what
  holds for all of them is proved.
* Phone: two requests, two keys, three bookings. A key is made for one of the two forms
  when the form is opened.
* `fleet`: two trips and the one vehicle they compete for is what a double booking
  needs. One trip carries a stored window and a vehicle from its booking, the other does
  not. The status endpoint may cancel or move a trip on. Another enquiry that shows the
  vehicle refuses it only in some statuses of that enquiry, which the fleet does not follow:
  `HeldByEnquiry` may refuse or not.
* `trip_life`: one change of vehicle; the mixes are the yard (engagement to departure),
  the door (loading to completion, with the papers of the delivery) and the road
  (incidents, vehicle changes, other trips taking and giving back vehicles).
* `ledger`: the freight is 2, an amount is 1 or 2, so that one payment can fill, half
  fill or exceed what is due; three rows, counting one for each request in flight
  (`Room`), one key, two net freights, one edit of the hire; at the
  pump two bill periods, two fuel entries, two payments, and a bill's adjustment of -1, so
  that a bill can be nothing and can be paid in parts. `Days` are the mixes,
  each with what the trip has when it begins: the customer's counter with a booking and
  without, before there is a financial row; the owner's settlements with advances, with
  vendor payments, with a hire whose terms move; the pump. A financial row that carries only the
  booking counts as the trip's, and once there are several, which one a request finds is
  not followed: it locks none of them.
* `booking_life`: the booking starts with either price, as both booking routes create it
  (`final_price = estimated_price`), so a customer may also accept the estimate once a driver
  is assigned. `OneTrouble` does not continue behaviours in which both an offer was
  replaced under a request and price or driver were edited by hand. Three of the
  properties say nothing after the first of the two, and each is explored alone.

**Symmetry.** Requests, booking ids, keys, drivers, prices and vehicles are
interchangeable where the cfg says so: no action chooses one by name. Symmetry is used
in safety runs only (`KeepsCharter` and `KeepsOrderCharter` are safety refinements).

**Deadlock** is not checked. When the ids, rows or changes of the bound are used up, or
the enquiry is closed, the model may stop, as the system does when nobody calls it. A circle of
lock waits is not a stop either: PostgreSQL aborts one of the waiting transactions,
which is always enabled here.

**Fairness.** `FairSpec` and `FairDeskSpec` assume weak fairness of the own steps of
each request that has started, because Node resumes a handler when its `await`
settles and Prisma settles every call (with a result, an error or a timeout). The
arrival of requests is not fair: nobody has to call anything. The liveness run excludes
crashes, since no handler or job of the code picks up an interrupted conversion, and
reserved vehicles, since the refusal at the last moment strands the claim
(`claim_has_owner`); any other error in that last transaction strands it as well, and the
models have that as a crash at the same place. The other modules state no liveness: what would have to happen
in them next (a departure, an answer, a payment) waits for a person.

**Why the properties have conditions.** A property that says *unless raced*, *unless
lapped*, *unless overlap* or *unless outdated* names the one event the code does not
exclude, recorded by a history variable, and TLC finds the property broken without
it. Together with the condition it says exactly where the protection ends. In `fleet`,
row locks and advisory locks do not see each other, so a trip assigned while another is
created can take the same vehicle. In `ledger`, `reconcileInvoiceStatus` sums before
the other transaction has committed and stamps after it. In `booking_life`, `accept`,
`prepare` and `send` decide from an offer that may have been replaced.

## 4. What is proved

TLAPS proves the following for every value of the constants that satisfies the named
assumptions of the modules (each evaluated by a run): any number of requests, callers,
bookings, trips, vehicles, drivers, prices and amounts. The bounds of section 3 are
values of constants, not hypotheses. Where a bound is a constant of the module
(`MaxRows`, `MaxEdits`, `MaxSends`, `MaxFuels`, `MaxPays`), it guards an action of the
model and a theorem holds for each of its values.

Every invariant and every action property that a passing run checks is also a theorem;
only the liveness property `ClaimResolved` is not. Each inductive invariant was model-checked
on the run's instance before it was proved.

### The order: `EnquiryOrder_proofs`

| Theorem | Statement |
|---|---|
| `TypeCorrect` | `Spec => []TypeOK` |
| `OrderInvariance` | `Spec => [](TypeInv /\ OrderInv)` |
| `ConversionExclusive` | `Spec => []OneConversion` |
| `OrderIsFinal` | `Spec => OrderNeverReplaced` |
| `TripIsTheOrders` | `Spec => []TripFollowsOrder` |
| `OfferComplete` | `Spec => []OfferIsComplete` |
| `EnquiryKeepsCharter` | `Spec => KeepsOrderCharter` |

*Typing.* `TypeOK` is not inductive: `WriteReviewStatus` writes a status the request
picked earlier. `TypeInv` adds `PendingStatus`: what is about to be written is a
status, and neither a decided one nor the open offer.

*The order.* None of the four properties is inductive. `OrderInv` holds, until
`reopened`, three facts about the requests in flight:
- `ClaimInv`: a request that is converting does so on an enquiry that is accepted or
  closed and has no booking, and there is one such request. The conditional claim
  establishes it, because an enquiry awaiting acceptance is not decided; nobody else may
  claim, because a decided enquiry that is not reopened never awaits acceptance again,
  except when the owner of the claim itself gives it back.
- `TripInv`: a booking id that `ensureTripForEnquiry` has read and not used is null or
  still the enquiry's; with `ClaimInv` the link is only ever set once.
- `OfferInv`: whoever is about to release the truck has closed the enquiry before, and
  whoever is about to publish still sees a truck, a driver and a price.

Each lemma takes one group of actions (`Arrive`, `ConversionStep`, `ClosingStep` with
`DeskStep`, `AssignStep`) and has one step per action.

*The charter.* `OrderCharter` knows nothing of statements, prices or trucks: an offer is
taken by one request, the taker places the order, gives the offer back, or is lost, and
a decided enquiry is offered again only by its taker. The mapping reads the phase off
the status, the takers off the places of the requests, and the order off `booking_id`.
Every step but `Claim`, `ReleaseClaim` and `ConfirmOrder` is `Quiet` (`StepIsQuiet`): it
links no order, makes nobody a taker, and keeps a decision, closes, or reopens. So it
maps to `Negotiate`, `CloseEnquiry`, `Reopen`, a stutter, or, when a taker fails or
crashes, `GiveUp`; the other three map to `Take`, `GiveUp` and `Place`. A stale write
maps to `Reopen`, after which the charter asks nothing more: the protection ends there
and the theorem says so. The mutant of the run, a catch block that gives the offer back
by primary key, breaks the charter and leaves the conversion exclusive.
`OrderNeverReplaced` is a part of the charter (an order is placed where there was none),
so the run checks it only there.

### The quotation desk: `QuotationDesk_proofs`

| Theorem | Statement |
|---|---|
| `DeskInvariance` | `DeskSpec => []DeskInv` |
| `DeskTypesHold` | `DeskSpec => []DeskTypeOK` |
| `ConvertedIsOrdered` | `DeskSpec => []ConvertedHasOrder` |
| `SnapshotFollowsOrder` | `DeskSpec => []SnapshotOfTheOrder` |
| `ConversionExclusiveAtDesk` | `DeskSpec => []OneConversion` |
| `DeskKeepsCharter` | `DeskSpec => KeepsOrderCharter` |

`DeskInv == DeskTypes /\ Ordering /\ Frozen`. `Ordering` says that a conversion which has
returned, and a screen that is writing its snapshot, have linked an order; it holds even
after a reopening. `Frozen` is up to `reopened`: the booking such a request goes on with is
the enquiry's, and no other booking has a snapshot. The desk runs the conversion of
`EnquiryOrder` beside requests of its own, so every step is one of `EnquiryOrder`'s, or
`Quiet` for it; the lemmas about `Quiet` are used for both. `DeskSpec` is the half of
`MCBackOffice!OneScreenSpec` in which the desk moves.

### Orders by phone: `ManualOrder_proofs`

| Theorem | Statement |
|---|---|
| `PhoneAnswersAgree` | `ManualSpec => []AnswersAgree` |
| `PhoneOrdersWhole` | `ManualSpec => []OrdersAreWhole`: a linked order has its trip, a confirmed enquiry has a booking, an open one none |

The tables obey their unique indexes (`TablesStand`), each request knows the key of what
it is creating (`Knows`), one request takes an enquiry further (`OneCreator`), and a
request on its way to look has missed no booking the enquiry does not name
(`NoneMissed`). From these, what may be answered to a key (`Right`) stays right: two
answers name one booking, unless the desk converted the enquiry meanwhile. `IInv` was
model-checked with three callers, two keys and three orders (6.3 million states).

### The fleet: `Fleet_proofs`

| Theorem | Statement |
|---|---|
| `FleetTyped` | `Spec => []FleetTypeOK` |
| `AssignKeepsApart` | `Spec => []AssignedApart` |
| `CreateKeepsApart` | `Spec => []CreatedApart` |
| `FamiliesApartUnlessRaced` | `Spec => []ApartUnlessRaced` |

The three are one induction, over any number of trips, vehicles and requests. `IInv`
adds to the typed rows what makes a check last until its write: a request that is
engaging a vehicle holds the lock of its family (`Holds`), and what it checked is still
so (`Guarded`): no other active trip engaged by the same family has the vehicle, and
none of the other family unless the trip is marked `raced`. The lock is why nobody of the same
family can break `Guarded`; the mark records the one way the other family can.

### The trip: `TripLife_proofs`

| Theorem | Statement |
|---|---|
| `TypesHold` | `Spec => []TripLifeTypeOK` |
| `StatusFollowsFacts` | `Spec => []NeverAheadOfFacts` |
| `ChangeIsRecorded` | `Spec => []ChangeBacksIncident` |
| `DispatchStands` | `Spec => DispatchRowAdvances` |
| `TripKeepsCharter` | `Spec => KeepsCharter` |

`FactsStand` and `Backed` are the strengthening: the facts a handler checked before its transaction
(loading recorded, the dispatch row, arrival, papers) only accumulate, so a late write
may land on another status but never ahead of the facts. With it each step of `TripLife`
is a step of `TripCharter` or leaves status and facts alone, which is the refinement:
`Charter!Init` holds initially and every step is `Charter!Next` or a stutter. `Backed`
says of each request in flight that what it is about to write rests on recorded facts:
an arrival on a departure, a verified proof of delivery on a verification, an incident
closed by a vehicle change on that change.

### The older booking: `BookingLife_proofs`

| Theorem | Statement |
|---|---|
| `BookingTypes` | `Spec => []BookingTypeOK` |
| `OneReservation` | `Spec => []OneActiveReservation` |
| `DriverHeldForOpenQuote` | `Spec => []HeldForOpenQuote` |
| `ConfirmedOnlyAccepted` | `Spec => []ConfirmedIsAccepted` |
| `InvoiceAndTripsAgree` | `Spec => []DealAgrees`: for an accepted quote and for an accepted estimate |
| `SecondTripOnlyOverlap` | `Spec => []OneTripUnlessOverlap` |
| `TheAnswerStands` | `Spec => AnswerStands` |

What is inductive is what each request still knows of the row it read (`Reads`): while
the quote has not been replaced under it (`Fresh`), the quote is in the state its
handler checked, the reservations it is about to release are all there are, and the
price it will invoice is the booking's. `LandKeeps` is the lemma about a write on the
row: it leaves the other requests what they know or makes them old, and the write of an
old request marks the behaviour `outdated`. `IInv` was model-checked without the state
constraint `OneTrouble` (4.4 million states), because the theorems have none.

### The ledger: `Ledger_proofs`

| Theorem | Statement |
|---|---|
| `LedgerTypes` | `Spec => []LedgerTypeOK` |
| `EntriesReversedOnce` | `Spec => []ReversedOnce` |
| `AdvancesAddUp` | `Spec => []AdjustmentsAddUp` |
| `NoSettlementLost` | `Spec => []BookKeepsPace` |
| `InvoiceFollowsLedger` | `Spec => []InvoiceAgreesUnlessLapped`: nor once a receipt was reversed |
| `BalanceOfThePump` | `Spec => []PumpBalanced` |
| `BillsOfThePump` | `Spec => []BillsAddUp`: fuel plus adjustment |
| `PaymentsCovered` | `Spec => PaidWithinPosition` |
| `ReceiptsWithinTotal` | `Spec => GuardedReceiptsFit`: client payments on every trip with a booking, and on one without while it has one financial row |

`IInv == Base /\ Promises`. `Base` is what one request can do to another: no row is locked
twice (`LocksApart`), the rows that are not yet committed clash with none that are and with
each other under the unique indexes (`RowsApart`), and a request holds the locks of the
place it is at. Every step of every endpoint is described once by `Does`: it stays, locks,
puts a row in its own transaction, or commits. `Promises` has one part per service, and
each needs only `Base` and one sentence about a request in flight: a settlement holds the
trip from its position on, so neither rows nor terms nor `owner_settlement_amount` can
change before it commits (`Settling`); a guarded receipt holds the row that serializes its
guard, or is about to create it and will not commit beside another creation
(`Guarding`); an adjustment holds the advance it has read (`Adjusting`); a reversal
holds the entry it undoes (`Undoing`); a serializable write of the pump is fresh or will
not commit (`Pumping`); a stamp that is older than the rows has `lapped` set (`Stamping`).

A sum over the rows is a recursive function down the table. What one appended or
changed row adds is proved by induction over its length, not assumed (`SumRuns` and the
lemmas after it; see the end of this section).

Assumptions: `LedgerAssumption` (the requests are finite in number: the bound on rows counts
the ones that are coming; bounds are positive), `TotalAssumption`, `VendorAssumption`,
`PumpAssumption` (amounts and bounds are natural numbers).

### Money: `Money_proofs`

| Theorem | Statement |
|---|---|
| `AdvanceAlwaysCovers` | `MoneySpec => []AdvanceCoversTheBill` |
| `MilestonesAlwaysCover` | `MoneySpec => []MilestonesCoverTheBill` |
| `NetFreightAlwaysPayable` | `HireMoneySpec => []NetFreightIsPayable` |

For all amounts and percentages. The first shows that a booking amount within the
advance is never refused and that the three payments add up to the bill although each is
rounded. The second bounds the rounding of up to three milestones, the number the model
has: the sum is within one paisa of the bill, and a schedule is refused only when it is one
paisa over. The last follows the net freight the operator typed through the gross that is
computed from it and back: the two roundings together are off by less than one paisa,
hence by nothing, whichever way a half goes. It needs a default commission below 100 %
(`HireAssumption`), because at 100 % there is no gross.

### Only model-checked

`ClaimResolved` (liveness under fairness is out of the prover's reach) and the fact
that the two hops of `HasPath` are reachability in the status table.

*Induction over data.* The induction theorems of the library take an operator as a parameter,
which the installed provers cannot instantiate. `SetInduction` states induction over the
naturals for a set instead, and is proved from the well-foundedness of their order; the sums
of the ledger rest on it. It serves for recursive functions; a recursive operator would
still be out of reach, and the models of this project that are proved about have none.

## 5. What is not modelled

Left out of a modelled component, because nothing in the properties reads it:

* *Enquiry*: the vehicle and driver columns copied onto the booking, `adminReassign`'s
  validation flag, events.
* *Trips*: the driver where it follows the vehicle's protocol, e-way bill columns,
  halts, checkpoints, locations, `deleteTrip`. Paperwork saved before departure is a
  draft of the dispatch row.
* *Ledger*: journals, `TripPayment` rows, document sequences, `createSettlement`'s
  second leg, commissions, driver settlements and advances, COLLECT, SETTLEMENT and
  FUEL_CREDIT of the vendor route, editing and cancelling a pump bill, the trip status a
  hire writes, the challan.
* *Booking*: `force_resend` (no route passes it), vehicle, delivery row, assignment history, availability flags, snapshots,
  archiving, the deletion of a pending booking whose delivery is over; bookings created
  already accepted by the enquiry flow (those are `EnquiryOrder`'s).
* *Quotation money*: single charge lines, GST (shown, never charged), more than three
  milestones.
* *Manual orders*: client rows, commercial terms, events, requests without a key (both
  forms always send one), one key used by both forms.

Components with no model: finance reporting and reconciliation (read-only queries over
the ledger; the balance `reconcilePumpBalance` recomputes is the property
`PumpBalanced`), master data of drivers, owners, partners and clients (single-row edits
behind validation), document numbers (one statement of the database each), login and
tokens, realtime events and notifications (sent after the commit, read by no handler),
PDFs, maps and look-ups, routes, controllers and middleware, and the React front end.
They are most of the repository's lines and change none of the state above, which is
why the models stand for a small share of the lines and for most of the state changes
of an order.

## 6. Where the program departs from its comments

Five are runs; `PROJECT.json` quotes the lines.

1. *claim_has_owner*: the second check of the reserved vehicle is in the last
   transaction, after claim and booking have been committed. When it refuses, the
   enquiry stays CUSTOMER_ACCEPTED with a booking nobody is linked to.
2. *agreed_price*: `adminSetQuote` may still change the price of an accepted enquiry.
3. *one_booking*: `adminSendQuote` writes AWAITING_CUSTOMER_ACCEPTANCE twice; the
   second write undoes an acceptance, and the customer's next tap books again.
4. *retry_finds_order*: after the customer accepted on their own page, `confirmOrder`
   overwrites the price and then refuses, and the quotation stays SENT for good.
5. *reversed_receipt*: `reverseTransaction` inserts a REVERSAL row and leaves the original
   as it is; `reconcileInvoiceStatus` sums the receipts only, so the invoice stays PAID.
   The comments there and `tests/financeReversals.db.test.js` say it falls back.

The following were met while modelling and have no run of their own; where a model
covers the code, it does what the code does, and the condition of a property says so. Files
are under `services/` unless named.

**Fleet and trips**
* `TripService.js:464` (advisory locks) and `assign()` (row locks) do not exclude each
  other: the same vehicle can be taken twice in the race (`raced`).
* `TripVehicleAssignmentService.js:604`, "consistent ordering to prevent deadlocks": each
  `assign()` locks its own trip first and the other trips of the vehicle last, so two of
  them can wait on each other until PostgreSQL aborts one.
* `updateTripStatus` decides from a read and writes by key: a trip cancelled meanwhile is
  brought back (`revived`).
* `TripDispatchService.js:59` and `:416`: readiness refuses a trip whose own vehicle
  `assign()` has marked busy.
* `TripDeliveryService`, comment about `:489`, "a trip can never be COMPLETED while its
  resources stay locked": a vehicle change, or the late marking after an assignment, leaves
  one busy.
* `TripDocumentService.js:244`, "verification is ONE-WAY": `recordDocument` writes a
  status decided from an older read over a verification.
* `TripDeliveryService`, comment at `:395`, "Re-check arrival inside the transaction":
  the transaction does not.
* `changeVehicle` numbers its rows by a count taken outside the transaction, and resolves
  an incident without looking whether it is still open.

**Quotation**
* `QuotationService.js:641`, "The status only ever advances": a save that read the quotation
  before it was sent writes it back to RATE_QUOTED.

**Booking**
* `TripProvisioningService.js:22`, "two concurrent confirmations cannot both create
  one": they can, before either commits (`doubled`).
* `routes/adminRoutes.js:2341`, the database is "NEVER left in an inconsistent state":
  a stale prepare, send or expiry leaves a released driver on an open quote
  (`outdated`).
* `accept` writes the invoice from the price it read before its transaction, and puts
  back a driver that was changed by hand while the quote was open (`reassigned`).
* `cancelBooking` frees driver and vehicle without looking at other trips and keeps the
  reservation; the admin PATCH moves a booking without its delivery, although
  `BookingStateMachine` says they always match; a driver's own acceptance is refused by the
  table; deletion checks the status before its transaction and cascades the financial
  rows it did not check.

**Manual orders** (`EnquiryService`)
* After a failed booking the retry answers `enquiryExistsWithoutBooking`; the comment
  about `:292` says it continues and completes the booking. A booking whose link failed is
  an orphan, and the desk can convert the open enquiry into a second one.
* `ManualOrderService`, comment about `:456`, "never create a duplicate client record":
  the phone number has no unique index, and two orders at once create two clients.

**Ledger**
* `CanonicalFinancialService.js:1608`, "the second request waits and then sees the first one's
  money": on a trip without booking and financial row two first payments each create a row,
  lock nothing, find nothing collected, and together exceed the freight (`filed = 2`).
* `TripInvoiceService.js:92` and `:131`: the invoice is stamped from a sum that may be
  older than the rows (`lapped`), and without a booking two requests raise two invoices.
* `FinancePostingService.js:604`: a vendor payment that is part cash and part fuel puts
  its key on no row, so a retry pays again; advances to vendors, drivers and fuel
  ignore the key.
* A reversed receipt also counts in the guard against over-allocation. The reversal of
  entry 12 is taken for one of entry 1, which is then refused (`FinancePostingService.js:1471`
  compares text; `Names`). Payments to the party VENDOR do not count against the owner's position
  while their reversal does. Two owner advances, or an advance of the vendor route beside
  a settlement, can together exceed the payable (`TripSettlementService.js:199`).
* `recordDriverSettlement` takes no lock; `routes/tripFinancialRoutes.js:763` passes
  `req.user` where the service expects a transaction; `confirmHire` and `cancelHire` are
  separate writes, and a cancelled hire remains payable and blocks a new one.

**Money**
* The tolerance of a schedule, `total + 0.01` in doubles (`QuotationService.js:334` and
  `:410`), does not always reach the next paisa: two milestones of 50 % are refused for
  ₹2.01 and, for other odd amounts, accepted one paisa above the bill, although the comment
  says a schedule may not "silently exceed the quotation amount". The final guard of
  the advance schedule never fires (that is part of `AdvanceAlwaysCovers`).
* A hire without commission whose rate field is absent: `computeGrossHire` adds the
  default rate as a fixed amount, `computeMoney` takes nothing off. One with a commission
  whose rate is empty: the first takes 0 and the second the default of 5. The page always
  sends a number, and `NetFreightIsPayable` leaves the two cases out.

## 7. Plan

Done, in the order in which it was planned: the order and the quotation desk with the
order's proofs; the fleet with its proofs; the trip's life, its charter, the refinement
and the proofs; the ledger with the pump; the money of quotations and hires with its
proofs; the older booking flow; manual orders; the order's charter, with the refinement
proved for the enquiry and for the desk; the theorems of the desk, the phone, the booking
and the ledger.

Left, in order of importance:

1. A charter for the older booking (offered, answered, confirmed, gone), with `BookingLife` shown
   to implement it until `outdated`; `Fresh` and `DealKept` are most of its proof.
2. A charter for the ledger: an account with receipts and payments that are each one step,
   and `Ledger` shown to implement it at its commits.
3. The driver's side of the ledger (settlements and advances without a lock), the workflow
   statuses of a hire, editing and cancelling pump bills: first the models, then their caps.
4. More than three milestones: `RoundedSum` by `SetInduction` over the list.
