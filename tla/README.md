# AIRoadcall in TLA+

TLA+ models of AIRoadcall, their model checking with TLC and their proofs with
TLAPS. Paths are those of the repository; `services/`, `api/` and `models/`
stand for `src/backend/app/services/`, `src/backend/app/api/routes/` and
`src/backend/app/models/`.

1. The system
2. The modules and the code
3. What the runs show
4. What is proved
5. Where code and documents disagree
6. What is left out, and the plan

## 1. The system

AIRoadcall takes a roadside call (voice agent, chat or web), finds out where the
driver is, has a payment authorized, offers the job to mechanics by SMS in
parallel, assigns the one who accepts, lets the driver agree to the arrival time
and tracks the drive. It is a FastAPI service over PostgreSQL (SQLAlchemy async
sessions, READ COMMITTED, no `FOR UPDATE` in dispatch), with Redis as a cache and Stripe,
Retell, Twilio/GHL and LiveKit outside. There is no scheduler: nothing happens
unless somebody calls a handler, and every handler is one transaction
(`core/database.py`, `get_db`; some commit early so that another provider can see
their rows). Around the job stand the sessions in which a caller's location is
collected, the search for mechanics a voice agent makes during the call, the shops'
tenants with their Stripe subscriptions, and the campaigns that text mechanics.

| component | state it keeps | operations that change it | what makes it correct |
|---|---|---|---|
| Job lifecycle and dispatch: `services/dispatch_service.py`, `services/job_service.py`, `api/dispatch.py`, `api/jobs.py`, `api/retell_dispatch.py` | the job's row (status, location, city and state, assigned mechanic, decision on the arrival time), its dispatch attempts | create_job, location, location by word of mouth, start dispatch, start-sms, dispatch-next, mechanic response and its next wave, confirm, accept and reject the arrival time, rematch | an assignment is backed by an acceptance and closes the others; nobody is contacted twice; a turned-down wave brings the next |
| Payments: `services/payment_service.py`, `api/payments.py`, `api/webhooks_stripe.py` | payment_status, stripe_payment_intent_id; at Stripe the intents and their events | create intent, confirm, four webhook events, demo authorization | the job never believes in money Stripe does not have, in any order of events |
| Tracking: `services/tracking_service.py`, `api/tracking.py` | tracking sessions | activate, arrive (on a poll of the view), end on release | the session that runs, or arrived, is that of the assigned mechanic |
| Concurrent answers: the same `dispatch_service.py` under `core/database.py` | row locks, uncommitted writes, objects cached by a session | the statements of respond_mechanic_offer, crash, deadlock abort | acceptances and refusals that overlap leave a consistent job |
| Dispatch sessions: `services/dispatch_session_service.py`, `api/dispatch_sessions.py`, `api/session_codes.py` | sessions keyed by call and phone, location links, match results | find or create, intake, issue and use a link or a code, run a match, the go page's dispatch | the status is true of the location and of the latest match; a driver gets another driver's session in two known ways only |
| Shared locations: `services/shared_caller_location_service.py`, `api/caller_share.py` | Redis entries by phone number, with an expiry | store, look up, consume | found and consumed by their own driver only |
| Caller location: `services/caller_location_service.py`, `api/caller_location.py`, parts of `api/webhooks_retell.py` | one session per active call, with an expiry | start, GPS, a text, check, match, driver info | a located call has its own caller's coordinates |
| Roadside matching: `services/roadside_matching_service.py`, `api/roadside.py` | none of its own; it reads the directory in several queries | ask for what is missing; search by city, circle, state; rank; name a shop of a chain | nobody in reach is missed, the nearest ring is offered, nobody better is left out |
| Job ranking: `services/mechanic_scoring_service.py` | none (pure) | score | |
| Subscription billing, lifecycle: `services/subscription_billing_service.py`, `services/lifecycle_service.py`, `api/webhooks_stripe.py` | the tenant's plan, status and features, feature flags, lifecycle events | checkout, subscription web hooks | nobody has a feature for nothing; only a trial's report locks out a shop whose subscription lives |
| Provisioning: `services/provisioning_service.py`, `api/provisioning.py`, `services/roadcall_orchestrator.py` | the same tenant and flags; connections at Retell and GHL | provision, change the plan, switch a feature, shop snapshot, hand over a mechanic | as above |
| Outreach: `services/outreach_service.py`, `api/outreach.py` | campaigns, their messages, the mechanics' lead status | create, edit, send, process, delete, set a lead | nobody is queued twice or texted without end; what the campaign says of itself is true |
| SMS and voice providers, marketplace, enrichment, snapshots, front end | little or none of their own | | see section 6 |

Interactions. The browser, the voice agent and the mechanics' links call the
same handlers with no agreed order. The location handler starts payment or, in demo mode,
matching and the assignment itself. A confirmed payment starts dispatch when the driver is located;
the Stripe webhook only advances the status. A mechanic's acceptance creates a
tracking session; a rejected arrival time ends it; whoever polls the tracking
view makes the arrival happen. A location shared on the web site under a phone
number reaches a dispatch session, the session of an active call and a match request
alike. Stripe's web hooks, the owner's checkout page and the operators' routes
write the same tenant row.

What is hard here, and what the models are aimed at: handlers legal from
almost any status (so that long sequences reach states nobody wrote a
test for); answers of several mechanics in overlapping transactions without row
locks; webhooks late, repeated and out of order, against a browser that
confirms on its own; a next wave that only the last refusal can start; a release
that has to touch three tables; a location with four sources and links that are never
revoked; rows written from what a request loaded earlier; a search of several queries
over a directory that changes; texts that are out before the commit that records
them. `PROJECT.json` lists every hazard at its line.

## 2. The modules and the code

| module | models | state and actions |
|---|---|---|
| `StripePayments` | the payment half of each handler, with Stripe as environment | `payStatus`, `intent` are columns of the job; `stripe` and `events` are Stripe's. `CreateIntent`, `ConfirmIntent`, `HandleStripeEvent` and `DemoAuthorize` are the service; `StripeMoves` is Stripe, the card holder and the operator of the dashboard. An event once raised stays in `events`: it can be delivered late, again, or in any order |
| `JobDispatch` | one job, one action per handler (EXTENDS `StripePayments`) | `status`, `place`, `area`, `assigned`, `eta` are columns of `jobs`; `offers[m]` and `tracking[m]` are m's dispatch attempt and tracking session. `Assign` is the acceptance branch shared by a mechanic's answer and the demo assignment; `SendOffers` is a wave |
| `JobDispatchProps` | the properties of a job and its refinement mapping | |
| `DispatchContract` | abstract specification: whom dispatch may contact, and when | `open`, `contacted`, `holder`; no status, payment or location |
| `OfferTransactions` | several answers at a time, one step per statement on a shared row | `pc`, `queue` (UPDATEs left in a flush), `lock`, `dirty` (written, uncommitted), `db` (committed), `seen` (the job as the session cached it) |
| `MCJobDispatch` | the small directory TLC uses | |
| `SharedLocations` | the Redis entries | `shared[c]`: place and ticks left; `Store`, `Lookup`, `Consume`, `Expire` |
| `DispatchSessions` | dispatch sessions (EXTENDS `SharedLocations`) | `row[s]` is a row of `dispatch_sessions` with what its links, events and results say; one action per handler, `VoiceCall`, `BrowserShare`, `UpdateLocation`, `LinkCaseCode`, `LocationByCode`, `StatusResponse`, `LiveKitMatch`, `GoDispatch`; `Adopts`, `Reuses`, `Opens` say which session a request gets |
| `CallerLocation` | sessions of active calls (EXTENDS `SharedLocations`) | `acs[k]`: status, phone, place and ticks left; `StartCall`, `SubmitGps`, `SubmitManual`, `CheckSession`, `MatchMechanics`, `SaveDriverInfo`, `CheckDriverLocation` |
| `CallerSessions` | the two with one clock | `Tick` ages sessions, links, calls and shares |
| `Tenants` | a tenant's row and flags, the access check | `Written`: SQLAlchemy writes only the columns a request changed, over what the row holds by then |
| `StripeSubscriptions` | Stripe, checkouts, web hooks (EXTENDS `Tenants`) | `OpenCheckout`, `CheckoutCompleted`, `SubscriptionSynced`, served in one step or begun, overtaken and finished (`Begin`, `Finish`, `Abort`) |
| `TenantProvisioning` | the operators' routes (EXTENDS `Tenants`) | `ProvisionTenant`, `UpdatePlan`, `SetFlag`, `ShopSnapshot`, `ProvisionMechanic` |
| `TenantBilling` | the two on one tenant | its properties |
| `Outreach` | a campaign, send requests, workers, operator | `lock` is the campaign row's lock, taken by the autoflush before a query; `SendBegin`, `SendCheck`, `SendCommit`, `WorkerBegin`, `WorkerText`, `WorkerLoad`, `WorkerCount`, `WorkerCommit`, `WorkerCrash`, and what happens to a row that is gone |
| `RoadsideMechanics` | who can be called, distances, the query's window, the score (pure operators) | positions are whole miles on a flat map, scores are hundredths of a point |
| `RoadsideSearch` | match requests of one call (EXTENDS `RoadsideMechanics`) | `pc` is the stage; `Ask` or `Search`, then `FindExactCity`, `Locate`, `FindRadius` for each circle, `FindSameState`, `FindMajorVendor`, or `ApiError`; `EditMechanic` between any two |
| `MCCallerSessions`, `MCTenantBilling`, `MCOutreach`, `MCRoadsideSearch` | the instances TLC uses | |
| `PaymentProofs`, `JobDispatchProofs`, `OfferTransactionsProofs`, `SerialAnswersProofs`, `CallerSessionsProofs`, `TenantBillingProofs`, `OutreachProofs`, `RoadsideSearchProofs` | theorems | `SerialAnswersProofs` instantiates the contract a second time, over the committed rows of `OfferTransactions` |

Composition. `JobDispatch` conjoins a payment action with what the same handler does to
the job, so that every one of its steps is a `PaymentNext` step or leaves the
payment alone; that is theorem `ImplementsPayments`, and it is what lets the
payment invariant be proved once and used for the job. `JobDispatchProps`
instantiates the contract with `open <- OpenOffers`,
`contacted <- Mechanics \ Uncontacted`, `holder <- assigned`. The two granularities
complement each other: `JobDispatch` has every handler with each transaction in one
step; `OfferTransactions` has one handler taken apart. `SerialAnswersProofs` ties them together: as long
as answers do not overlap, the handler taken apart is a step of the contract that
`JobDispatch` implements, so that taking it for one action loses what an overlap can do and nothing
else. `CallerSessions` and
`TenantBilling` compose modules that share a variable (`shared`, and `tenant` with
`flag`); each module's actions say what they do to it.

Abstractions, and why the properties cannot tell the difference:

- A score decides only which candidates a wave takes: a wave is any
  set of `min(n, candidates)` of them. The state's mechanics before the others is kept
  (`Preferred`), and an unknown state is an empty `InState`. A sent wave's
  size and who may be in it are exact.
- Coordinates are `Places`; a bounding box is a set of mechanics. A zero
  coordinate, which parts of the code take for a missing one, is not among them.
- City and state are set or not (`area`): `ManualLocation` adds any of the two,
  or none.
- `offers[m]` needs one attempt per mechanic: `rank_mechanics` and
  the rematch exclude everybody the job ever contacted, and transactions do not overlap
  in this module (in `OfferTransactions` they do, and the offers of a later wave
  are named by the request that made them).
- A mechanic's answer is one of `Responses`; `"other"` stands for every word the code
  does not know, which it stores as declined without a next wave.
- The statuses `created`, `completed`, `canceled` and so on are in the enum but no
  handler of a job sets them, so they are not in `JobStatus`.
- A mechanic's session becomes `active` only in the demo assignment:
  `activate_tracking` has no other caller.
- An attempt is inserted as `queued` and set to `calling` in the same
  transaction; a failed SMS is logged and does not change it.
- In `OfferTransactions` the job's status is left out but for whether a wave has to write
  it: `dispatch_mechanics_batch` sets it to "calling", which is an UPDATE of the job's row, with its
  lock, whenever the handler loaded another status, and either may be (`InsertWave`,
  `StatusUpdate`). The order in which SQLAlchemy updates the rows of two
  tables is any order. An insert holds a lock nobody else asks for.
- Stripe captures and cancels on its own: the service has no code that does.
- A job's links are bearer tokens that change no state: their holder may act
  at any time. Audit rows are only ever added. Both are left out. (The location links of a
  dispatch session are modelled, because they expire and pile up.)
- `DispatchSessions`: a code is a prefix and a number; `RD` stands for every issued prefix but `RC`.
  A driver types a code he was told, of this session or of an earlier one, in full or by
  its four digits, which `normalize_public_code` takes for an `RC` code whatever the prefix was. A voice
  agent's tool may name the caller's phone in its arguments, which are read first
  (`api/webhooks_retell.py`, `_extract_caller_phone`); the models take it to be the caller's own.
- `DispatchSessions`: time is ticks, and an age stops at the first value older than every
  window it is compared with. A place belongs to one driver (`Owner`), so that a
  foreign location can be told. The search is a choice of its result
  (`RoadsideSearch` models it). The session's copy in Redis is written and never read.
- `CallerLocation`: statuses that no handler leaves in a committed row are left out.
- `StripeSubscriptions`: an event stands for all deliveries that report the same state of
  the same subscription; `lapsed` stands for every status other than trialing and
  active. A request is one step, or it loads the row and ends later: of two
  that overlap, the one that ends first is as good as one step, so one handler shows
  every overlap of two.
- `Outreach`: rows of messages are locked by the database as well; those locks only
  delay a worker and are left out. The segment's filters are the lead statuses they let
  through. A text goes out in a step of its own; the provider takes it or not, and its
  answer arrives or is lost. The stub mode, in which a text without a provider counts as sent, is
  left out: `CountedWasTexted` speaks of campaigns with a provider. A campaign's status is any
  word an operator's edit holds, since the schema has no pattern and the column no constraint.
- `RoadsideSearch`: what a caller says is understood or not; recognising places,
  problems and vehicles in text is left out, and so are the phrases that override a
  shared position. Spellings of a city are one city. The limits of 500 and 1000 rows are
  left out. `StateAt` is any assignment of states to positions, the overlapping boxes of
  `utils/us_geo.py` included. Distances count in whole miles and scores in
  hundredths of a point. When a shared position replaces what the caller said, what stood in the
  request's `location`
  object is dropped and what stood beside it stays; `Located` allows either of each.

## 3. What the runs show

| run | instance | what it shows |
|---|---|---|
| `job_dispatch` | real payment, 2 mechanics, 2 intents, one place; answers accepted, declined and an undocumented word; wave sizes 1 and 2 | types, `PaymentIsReal`, the five invariants of the job, `ClosedStaysClosed` and `KeepsContract` (496 414 states) |
| `job_dispatch_demo` | no payment, nearest assigned on the spot, 3 mechanics (one out of state, one out of reach), 2 places with different boxes; documented answers | the same through the assignment made by the location handler, and `MovesOnToNext`: the last open offer of a free job does not close while a candidate is left (485 055 states) |
| `offer_transactions` | 3 overlapping answers to a wave of two, one reserve mechanic, crashes and deadlocks | types, `OneNextWave`, `AcceptanceHolds`, `RefusalsDeadlockByWave`, `AnswersFinish` (75 974 states) |
| `caller_sessions` | 2 drivers, one of them on a voice call, the other with the code RD-1 of an earlier session, a place each, one session row with one of three codes; links, shares and calls live one tick | `StatusFollowsLocation`, `MatchedIsBacked`, `OneCallerPerSession`, `CallIsLocated` (158 217 states) |
| `tenant_billing` | 2 plans, one feature, one subscription and one abandoned checkout, one overlapping request, one operator's act | `FeaturesArePaidFor`, `OnlyTrialsLockOut` (686 384 states) |
| `outreach` | 2 mechanics, 2 copies of a message, 2 send requests, one worker cut off once, batches of two, an operator who pauses the campaign or writes a word of his own into its status | `QueuedOnce`, `TextsAccounted`, `CountedWasTexted`, `CompletionIsTrue` (1 226 317 states) |
| `roadside_search` | 2 mechanics of 10 profiles, 5 positions, 2 states, 2 searches, one change of the directory, one option offered | `NobodyMissed`, `NearestFirst`, `BestOffered` (660 540 states) |
| `captured_stays_captured`, `dispatched_is_confirmed`, `first_acceptance_wins`, `next_wave_goes_out`, `one_session_per_mechanic` | the smallest instance that shows each | a counterexample: section 5 |

What the invariants say:

- `AssignmentBacked`: the assigned mechanic's own attempt is accepted and their session
  has not ended; with nobody assigned nobody's attempt is accepted.
- `AssignedClosesOffers`: while the status is `mechanic_assigned` no offer can be answered.
- `EtaFollowsAssignment`: a pending decision has a mechanic, a rejected one leaves
  nobody tracked.
- `ArrivalIsTracked`: an arrived job has a mechanic whose session arrived. (En route
  does not imply a mechanic: section 5.)
- `OffersNeedLocation`: nobody is contacted without a location or a complete area. Of the
  payment the code keeps no such rule: section 5.
- `PaymentIsReal`: captured means the job's own intent was captured; authorized means a hold
  was once placed on it (it may be gone by now) or that the demo skips payment.
- `ClosedStaysClosed`: no closed offer opens again, no ended session runs again.
- `OneNextWave`: refusals that overlap bring one next wave, however they interleave, because each
  flushes its answer before it looks for open offers. Acceptances can break it (they supersede
  offers whose mechanics are just declining), and so can two mechanics who each
  decline twice: each of the two waves then comes from a copy that the other mechanic's copy has
  hidden. That takes four answers; the run has three, the theorem any number.
- `AcceptanceHolds`: once an acceptance is committed the job has a mechanic with a tracking
  session and an offer that is not superseded, even if acceptances overwrote each other.
- `RefusalsDeadlockByWave`: a refusal is part of a deadlock in one case: it brings a wave and waits for the
  job's row, which an acceptance holds that waits for the refused offer. PostgreSQL then aborts one
  of the two: the acceptance, or the refusal and its wave with it. A refusal without a wave
  never waits while it holds a row.
- `StatusFollowsLocation`: a session waits only while it has no location and says
  it is being matched only with one. The location comes from the request, the
  share, a link or a code, and the go page can erase it.
- `MatchedIsBacked`: "matched" and "manual review" agree with the latest recorded result.
- `OneCallerPerSession`: all who know a session, belong to it or have their location in it
  are one driver, but for two ways in which the code brings two together: the declared map fallback put a
  voice call on the latest session of the map, or a driver's own code, typed without its
  prefix, reads as the `RC` code of that session (`Namesakes`). Both happen in the run.
- `CallIsLocated`: a located or matched call has coordinates, its own caller's.
- `FeaturesArePaidFor`: whoever passes the access check for a feature has it from a recorded
  event whose plan holds it, or from an operator, and was made active by one of the two.
  (After a downgrade the old plan's flags remain: the feature was paid for once.)
- `OnlyTrialsLockOut`: while Stripe has reported only checkouts, trials and paid
  periods and no operator acted, the tenant passes the access check for every feature of every
  plan reported to it, from the first event on, unless a trial's report set its status to
  `trialing`. The check wants `active`, so that a trial has no feature, and a trial's report that comes
  late or again takes a paying shop's until the next report of the paid period. (That one is lost if it
  overlaps the trial's and loaded the row while it was still active.)
- `QueuedOnce`: at most one message of a campaign for each mechanic. Nothing in the table says
  so; what does is the flush of the campaign's new status before the first look for an
  existing message, which makes the second request wait for the first.
- `TextsAccounted`: a message is texted at most once per worker and once per crash.
- `CountedWasTexted`: `total_sent` counts no text the provider never took.
- `CompletionIsTrue`: a worker that sent something and completes the campaign leaves
  nothing pending, again because of a flush, that of `total_sent` before the count. (A worker that sent
  nothing holds no lock while it counts, and the property does not speak of it. Nor does
  any stop a paused campaign's texts: `process` never reads the status.)
- `NobodyMissed`: when nobody is offered, every callable mechanic of the state that did not
  change during the search is in another city and more than 100 miles away.
- `NearestFirst`: a mechanic of the city is offered before any circle, and a circle only if
  nobody steady is in a smaller one.
- `BestOffered`: nobody found is left out for one who is worse in something and
  better in nothing. Something is the place (city, state), the distance, the own radius, the service, the
  hours, the mobile workshop, the vehicle, the priority or the rating; as far as the score looks: distances
  in whole miles up to 100, priorities up to 100, ratings up to 5. `ranked` remembers where the
  caller was taken to be when the mechanics were ranked.

Bounds. Two mechanics make every relation between the assigned one, one
with an open offer and one who is finished; a wave of one and a next wave; the
third, in the demo run, gives a wave that leaves somebody out and the state preference.
Two intents make an old intent's events meet a newer
intent; permuting intents is sound there because the run has no liveness property and no
action names an intent. Two places in the demo run have different boxes, so that a
second location changes who is a candidate. Three answers give two acceptances
and a refusal, three refusals of two mechanics, a double tap beside another answer, and handlers
that wait for each
other in a cycle. No counter of these three needs a cap: every variable ranges over a finite set.
In `caller_sessions` one row lets a second driver meet the first one's session in every way a
request finds one, the codes RC-1, RD-1 and RD-2 let the second one's digits be those of the first one's
session or not; the windows are zero ticks (within the same tick or not), what has a
life lives one, so that each can be there, in its last tick or gone. Two rows are beyond
TLC; the proofs cover any number. In `tenant_billing` `MaxActs` is one act of an operator
at any point, and the abandoned subscription (`Abandoned`) is a second checkout opened beside
the first; the larger plan holds the feature and the smaller does not, for a downgrade.
In `outreach` `Copies` gives a mechanic a second message if the code ever
writes one, `MaxCrashes` is one worker cut off, `StatusEdits` and `LeadEdits` are the
operator's edits that matter (paused, or a word nobody documented; do not contact). Two workers are
beyond TLC and within the proofs. In `roadside_search` the profiles are one for each way of being found or
missed: each circle, a radius of one's own larger than the circles, the city, no phone,
another state; and pairs that differ in the distance, the rating or the priority alone.
`MaxSearches` 2 shows what one search leaves for the next, `MaxEdits` 1 is a change
between any two queries, `Limit` 1 makes the ranking leave somebody out, and a degree of
longitude has 60 miles, as in Florida. Permuting the mechanics is sound there: the run
has only invariants and no action names a mechanic.

Deadlock. A job never stops: there is always a handler that can be called, and a payment can be
confirmed again. `OfferTransactions` stops when all answers are done, so its configurations do not
check for deadlock; that no handler is stuck before is `AnswersFinish`.

Fairness. Only `OfferTransactions` has any: weak fairness of `Handle(r)` for each
request. A handler that has begun is continued by the event loop whenever its statement can run, and
PostgreSQL's deadlock detector aborts some transaction of a waiting cycle (`DeadlockAbort`
is part of `Handle`). Nothing obliges anybody to send an answer (`ReadJob` has
no fairness) and nothing forbids a crash. `JobDispatch` states none: with no
scheduler in the code, there is no step the system itself must take. The
same holds for the sessions, the tenants and the searches; a campaign's messages wait for
somebody to call `process`, so that nothing promises they are ever texted. These modules state no
fairness and only safety.

Every property of a passing run comes with a mutation of the code's model that breaks it
under the same configuration. A mutated operator stands just above the one
it mutates, under a comment that begins with "Mutant".

## 4. What is proved

For every set of mechanics, places, intents, bounding boxes, wave sizes and answers,
for demo mode or not, under the named assumptions of the modules
(`NoMechanic`, `NoRequest`, `Nowhere` and `NoIntent` are not members of the sets they stand outside of;
`InBox` is a function; `Counts` and `BatchSize` are natural numbers; the settings are Boolean;
no two rows of `OfferTransactions` have one name, and a candidate has no open offer yet);
and likewise for every set of drivers, calls, sessions and windows, of plans, features,
subscriptions and handlers, of mechanics, send requests, workers and crashes, of directories, positions,
geocoders and callers, of answers and handlers under way (sets of mechanics, requests, copies and workers are
finite where they are counted):

| theorem | property | argument |
|---|---|---|
| `PaymentInvariant`, `PaymentIsRealAlways` | `PaymentIsReal` | the property is not inductive: it needs `EventsAreReal`, that an event in the set says something true of its intent for ever (a `succeeded` event has a `succeeded` intent, a requires_capture intent has its event) |
| `ImplementsPayments` | | each action of `JobDispatch` is a `PaymentNext` step or a stutter of the payment |
| `JobInvariant` | | `JobInv`: the types of the job and the five invariants together (`BoardInv`), one lemma per kind of action |
| `TypeCorrect`, `JobPaymentIsReal`, `AssignmentIsBacked`, `AssignmentClosesOffers`, `DecisionFollowsAssignment`, `ArrivalsAreTracked`, `ContactNeedsLocation` | the properties of run `job_dispatch` | consequences of the two invariants |
| `ClosedNeverReopens` | `ClosedStaysClosed` | an acceptance writes a session blindly, so one more invariant is needed, `SessionsFollowAcceptance`: who can still accept has no session yet. `BoardStep` lists what an action may do to offers and sessions, and `BoardStepEffect` what each leaves of them |
| `ImplementsContract` | `KeepsContract` | each kind of `BoardStep` is a step of the contract under the refinement mapping, or a stutter; the types come from `JobInvariant` |
| `MovesOn` | `MovesOnToNext` | only a refusal closes the last open offer of a free job, and the handler sends the next wave in the same step; a wave of `min(n, candidates)` with n not zero is empty only when nobody is left. Holds for documented answers, finitely many mechanics and a `BatchSize` that is not zero, as in the run: with an undocumented word it is false |
| `TypeCorrect`, `AcceptanceHoldsAlways` (`OfferTransactionsProofs`) | `TypeOK`, `AcceptanceHolds` | `LockInv`: a handler past its first flush holds the rows of its answer until it commits, what an uncommitted row says follows from who holds it, and the UPDATEs left in a flush are those of its step. A commit publishes exactly the rows its handler holds (`CommitsWhat`), so the last acceptance to commit wins whole |
| `OneNextWaveAlways` | `OneNextWave` | `RefusalInv`: of two handlers that both found nothing open each saw the other's offer closed, by a copy of the other's refusal that is committed; two different mechanics would both decline twice, and two refusals of one mechanic cannot both hold its row |
| `RefusalsDeadlockByWaveAlways` | `RefusalsDeadlockByWave` | `WaitInv`: a refusal waits for its offer before it holds any row, and once it holds that it can only wait for the job's row, to write its status with a wave; the job's row is held by acceptances, or by refusals that wait for nothing more |
| `SerialAnswersKeepContract` | | refinement, for behaviours in which one handler is under way at a time (`Alone`), with crashes and aborts: `SerialInv` says that what a handler has read is still so, that an acceptance supersedes exactly what is open, and that a wave is new; each commit is then `Accept`, `Close` or `CloseAndOffer` of the contract, and nothing else is seen |
| `SerialFirstAcceptanceWins`, `SerialOneSession`, `SerialNextWaveGoesOut` | | under `Alone` the properties that runs `first_acceptance_wins`, `one_session_per_mechanic` and `next_wave_goes_out` refute do hold (the last for a first wave and a batch that are not empty): each of the three defects is one of overlap alone, and handling a job's answers one at a time, by a lock on its row for instance, would remove them |
| `SessionsTyped`, `StatusesFollowLocations`, `MatchesAreBacked`, `SessionsAreOwned`, `CallsAreLocated` | the invariants of `caller_sessions` | `IInv`, one part per component: what is stored under a phone number is its driver's, a row's links go only to drivers who were told its code, a row that was not adopted is owned by one driver and by those whose codes have the digits of its own, no two rows have one code, a call's phone is its caller's. A session found by phone or call is then the same driver's, and so are its share, link and code typed in full |
| `TypeCorrect`, `PaidForAlways`, `OnlyTrialsLockOutAlways` (`TenantBillingProofs`) | the invariants of `tenant_billing` | the row is a mixture of what several requests wrote, so each column needs its own reason: `GrantInv` says that row, flags and status each have their grant, and so have the rows the open requests hold; `PayInv` that those rows are live or wait for a payment not yet recorded; `AccessInv` that the status is `trialing` only after a trial's report and that no flag of a reported plan goes down again |
| `TypeCorrect`, `QueuedOnceAlways`, `TextsAccountedAlways`, `CountedWasTextedAlways`, `CompletionAlwaysTrue` (`OutreachProofs`) | all of `outreach` | `OutreachInv`: a request that has changed the campaign holds its lock, one that is past its look for existing messages holds it until the commit, batches of one worker are apart; the texts are counted by disjoint sets of workers, those through with a message and those that still hold it. `total_sent` is compared with the set of delivered texts: what is counted, with what the workers at work have not written back yet, never exceeds it, nor does what any of them read (`SentBacked`) |
| `TypeCorrect`, `NobodyMissedAlways`, `NearestFirstAlways`, `BestOfferedAlways` (`RoadsideSearchProofs`) | all of `roadside_search` | `SearchInv` carries what each stage has ruled out for the mechanics that did not change; the geometric lemma `WindowHoldsCircle` says that the query's window holds the circle where a degree of longitude has 55 miles or more, and is the only place that needs it. `BetterScores` compares the score term by term, at the position the caller had when ranked; it relies on `Miles` being a cardinality, which grows with the distance, and on `NearerScores`, that a whole mile less scores more |

The five invariants are proved together because `ArrivalIsTracked` is not inductive alone: an
arrival marks the assigned mechanic's session, and it is `AssignmentBacked` that says there is one.
The others need only the types, but one case analysis serves all.

Every invariant and every action property of a passing run is a theorem. Only model-checked is
`AnswersFinish` (liveness under fairness, out of the prover's reach, like ENABLED), and so are the
counterexamples of section 5. What a recursive definition computes for every
input would need induction with an operator as parameter, which the installed back ends
cannot instantiate; no module here has one.

Two proofs corrected the model. An earlier form of `OneNextWave` made no exception for mechanics
who decline twice; it held in the run and could not be proved, and TLC found the counterexample with
a fourth answer. The types of `OfferTransactions` were not inductive as long as a row of an offer and
the job's row shared one range; they are typed row by row since.

## 5. Where code and documents disagree

1. **A capture can be undone** (`captured_stays_captured`).
   `handle_stripe_event` is documented as idempotent; a hold's event delivered
   after the capture's sets the payment back to authorized.
2. **Dispatched without a mechanic** (`dispatched_is_confirmed`).
   `confirm_dispatch` accepts any matching status, and the status tool then reports
   `dispatched`, documented as "Mechanic is confirmed".
3. **The first acceptance can lose** (`first_acceptance_wins`). The
   acceptance writes the assignment without reading it again or locking the row; of two
   that overlap the second wins.
4. **A wave can get lost** (`next_wave_goes_out`). Two overlapping
   refusals each see the other's offer open; nobody sends the next wave and no timer does
   it later.
5. **Two sessions for one acceptance** (`one_session_per_mechanic`). Two
   copies of one acceptance both pass the duplicate check; the tracking view
   then fails on two rows.

Met while modelling, and without a run of their own because the models show them in a step or two:

- **Payment before a location.** "Driver must submit location before payment" (`README.md:331`), but
  `request_payment` (`api/retell_dispatch.py:826-883`) looks at no location and
  `create_payment_intent` (`api/payments.py:26-29`) explicitly admits `awaiting_driver_location`.
  `CreateIntent` has no such guard, and `RequestPayment` and `CreatePaymentIntent` of `JobDispatch`
  no location either.
- **A trial without features.** Driver and fleet plans are sold "after a 7-day free trial"
  (`docs/ghl-onboarding-marketing-telephony.md:330`), but the access check wants the status `active`
  (`services/provisioning_service.py:366`, `api/plan_deps.py:46`) and refuses every feature to a shop
  whose trial Stripe has reported: `OnlyTrialsLockOut` has to except it.
- **Digits of another's code.** Three of four kinds of codes are issued with a prefix other than `RC`,
  and digits alone are read as an `RC` code (`services/dispatch_session_service.py:68`).
- **A campaign's status** is documented nowhere as free text, yet stored as it comes
  (`schemas/outreach.py:27`).

`DeadlockAbort` and `AnswersFinish` also show what is not wrong: overlapping acceptances that
supersede each other's offers do wait for each other, and the database resolves it.

## 6. What is left out, and the plan

Not modelled inside the components above, with the reason:

- Jobs: two jobs at once (an answer is not checked against the job in its path), SMS texts
  and delivery, the warm transfer's answers (they read only), tokens' expiry, creation of
  several jobs, the score of `mechanic_scoring_service.py` (any order stands for it).
- Sessions: events, wording, audio rooms, the go page's dictionary of answers, which is lost with its
  process and read by nothing that is modelled.
- Billing and provisioning: starting the voice agent, the connections to Retell and GHL,
  the customer portal, e-mails, usage rows, partner badges.
- Outreach: previews and figures, which only read.
- Roadside matching: section 2 lists what is abstracted. North of about 37
  degrees the window of a radius query is narrower than its circle, so that
  `NobodyMissed` and `NearestFirst` speak only of callers south of it; no document says
  which of the two is meant. A mechanic whose own radius is above 100 miles is found only within the window.

Next, in this order:

1. The directory: `upsert_mechanic` of `services/mechanic_data_service.py` and the marketplace's
   claims, by phone number, two imports beside each other. Property: one
   row per phone number, and an import does not undo a claim.
2. Provisioning at Retell and GHL (`retell_provisioning_service.py`, `ghl_service.py`): a failure
   after each step and a retry. Property: a retry makes no second agent and leaves
   no connection that nothing points at.
3. Two jobs in `OfferTransactions`, and the chain of SMS providers.
4. Shop calls, fleet requests and leads (`api/shop_ai.py`, `api/fleet.py`, `api/leads.py`).
5. The job ranking's score, against a reference as in `RoadsideMechanics`.

Theorems to come: for each module of this list its types and its safety invariants; for
two jobs, that an answer of one leaves the other as it was.

Never to be modelled: wrappers of outside services that keep no state
(enrichment, snapshots, scheduling, retrieval), the front end, generated voice flows, text
parsing and formatting.
