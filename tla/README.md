# A verification project for the school scheduling backend

TLA+ modules that model the NestJS backend in `src/backend`, TLC runs that check them on small
instances, and theorems about them that TLAPS proves for all values of their constants. Everything
is translated from the TypeScript sources; the table `map` of `PROJECT.json` names the lines behind
every definition.

## 1. The system

The backend is one Node process (or several behind a balancer) over PostgreSQL through Prisma, with
Redis behind a cache and two Bull queues, and external payment and messaging providers. A request is
an `async` method of a service. **An awaited Prisma call is atomic; nothing else is**, except the few
`$transaction` blocks: between two awaited calls of a request any other request may run, and the
process may die with what it wrote so far kept. That one fact is where the system is hard, and it
decides the shape of every module here: an action is one database call (or one transaction), and a
request in flight is a record `[at |-> <the call it makes next>, ...]` with what it has read so far.

`app.module.ts` has its feature modules commented out at this commit, and the repository has no
tests; the services are modelled as written.

### Inventory

| Component | State | Operations that write | What is hard | What makes it correct |
|---|---|---|---|---|
| Schedules and sessions: `schedule.service.ts` | tables `schedules`, `schedule_sessions` | create, update, approve, activate, archive, delete, createSession, updateSession, deleteSession | no transaction anywhere: check-then-write, archive-others-then-set-own, count-then-cascade | one active schedule per school; no double booking; a delete destroys no session; only approved schedules become active |
| Versions: `schedule-versioning.service.ts` | `schedule_versions` and their copies, `schedule.version` | createVersion, activateVersion, rollback, deleteVersion | reads before transactions; rollback is two methods in a row | active version = current version; active version is never deleted; no work lost by a rollback |
| Generation: `scheduling-engine.service.ts`, `scheduling.processor.ts`, queue `scheduling` | jobs in Redis | generateSchedule, optimizeExistingSchedule, cancelJob, two handlers that write | retries after a partial attempt, crashes, cancellation, users writing the same rows | one handler per job; outcome = what the schedule was told; jobs end |
| Solver: `or-tools.service.ts`, `constraints/` | none (temporary files) | solve, optimizeSchedule; validate, score | external process, JSON answer; running counts over sorted days | answers are usable by the handler; valid = free of double bookings; a score is one of the timetable |
| Waiting list: `waiting-list.service.ts` | `waiting_lists`, inserts sessions | create, update, assign, remove | status checked outside the transaction | assigned exactly when one session was inserted |
| Time slots, availabilities: `time-slot.service.ts`, `preferences.service.ts` | `time_slots`, `teacher_availabilities` | create, bulk create, update, (de)activate, delete | overlap query on texts, then insert; update and activate unchecked | what is created overlaps nothing active |
| Preferences and rules, export, performance monitor | rows by identifier | CRUD; read only | - | - |
| Notifications: `notification.service.ts`, `notification.processor.ts`, `websocket.gateway.ts`, queue `notifications` | notification rows, jobs, map of sockets | send, mark as read, delivery handler, connect/authenticate/disconnect | retries, duplicates, lost status updates, reconnects | a row tells what happened to its message |
| Notification preferences: `notification-preference.service.ts` | preference rows | save, bulk, reset, update, delete | find-then-create, delete-then-create, a unique index that does not see null, quiet hours around midnight | the answer is what was last written for the type and template |
| Templates, history, analytics, channels | rows, statistics | CRUD; read only | - | - |
| Subscriptions: `subscription.service.ts` | `subscriptions` | create, update, change plan, cancel, renewals, trial expiry | check-then-create across Stripe calls, swallowed errors, lists in jobs that grow stale | one live subscription per school; a cancelled one stays so; periods follow each other; trials are kept |
| Payments: `payment-orchestrator.service.ts` and the clients of Stripe, PayTabs, PayMob | routing rules, metrics and log in memory; tokens in clients | select with fallbacks, pay, customer, subscription, rules | external effects, an answer that is lost, rules edited meanwhile, a log cut and sorted in place | a payment is sent to one gateway; counts and log tell the truth |
| Prices: currency, tiers, billing, invoices | rate cache, tiers in memory | quote, charge, price a tier, check usage, invoice | rounding at every stage, a rate that expires between two look-ups | what is told twice agrees |
| Dunning, webhooks | none that lasts (storage stubs, log lines) | - | - | - |
| Authentication: `auth.service.ts`, `users.service.ts` | users, profiles, refresh tokens | login, register, refresh, logout, change password; CRUD | two writes without a transaction | no token outlives a password change |
| Tenants, schools, classes, subjects, rooms | their tables | CRUD, (de)activate, assign subjects | check-then-create, check-then-cascade | a removal destroys the row it names and nothing else |
| Cache and rate limiter: `cache.service.ts`, `rate-limit.guard.ts` | Redis keys | getOrSet (uncalled), increment (guard not provided) | - | - |

Interaction: controllers and the two queue handlers call the services; `SchedulingEngineService`
calls `ScheduleService.create` and enqueues; `SchedulingProcessor` calls `OrToolsService` and
`ScheduleService`; `WaitingListService` and `ScheduleVersioningService` write `schedule_sessions`
directly, beside `ScheduleService` and without its checks. The billing, account, resource, calendar
and preference services share no state with these nor with each other, except that the database
deletes what hangs on a deleted row. The hazards, each at its line, are in `PROJECT.json`.

## 2. The modules

| Module | Models | Composes with |
|---|---|---|
| `ActiveRegister` | abstract: per school a register, empty or holding the one entry in force (a schedule, a subscription) | - |
| `PlacementQueue` | abstract: requests that wait until they leave or are given one place nobody had before | - |
| `Schedule` | ScheduleService | refines `ActiveRegister` |
| `ScheduleProofs` | the theorems about `Schedule`: types, activation, bookings | |
| `ScheduleVersions` | ScheduleVersioningService on one schedule | - |
| `WaitingList` | WaitingListService | EXTENDS `Schedule`: same session table; refines `PlacementQueue` |
| `WaitingListProofs` | the theorems about `WaitingList` | EXTENDS `ScheduleProofs`: the steps of Schedule keep what they kept |
| `Generation` | engine, processor and the Bull queue | EXTENDS `Schedule`: its workers run Schedule's actions |
| `GenerationProofs` | the theorems about `Generation` | EXTENDS `ScheduleProofs` |
| `Gateway` | WebSocketGateway: sockets and the map from users to them | - |
| `Notifications` | NotificationService, NotificationProcessor, the writes of NotificationHistoryService and the Bull queue | EXTENDS `Gateway`: same process |
| `NotificationProofs` | the theorems about `Gateway` and `Notifications` | |
| `VersionProofs` | the theorems about `ScheduleVersions` and its behaviours with one administrator | EXTENDS `MCScheduleVersions` |
| `Requests` | what the eight services below share: rows that may be absent, idle workers, optional fields | - |
| `Subscriptions` | SubscriptionService | refines `ActiveRegister` |
| `Payments` | PaymentOrchestratorService over the three gateway clients | - |
| `Pricing` | the arithmetic of CurrencyConversion-, TierCustomization-, Billing- and InvoiceService | - |
| `Resources` | TenantService, SchoolsService, ClassesService, SubjectsService, RoomsService | - |
| `Calendar` | TimeSlotService, availabilities of PreferencesService | - |
| `Accounts` | AuthService and UsersService on the same users | - |
| `Constraints` | HardConstraintsService, SoftConstraintsService | - |
| `NotificationPreferences` | NotificationPreferenceService | - |
| `ConstraintProofs` | the theorems about `Constraints`: groups, runs, the sorted day and the score | |
| `ServiceProofs` | the theorems about `Accounts`, `Calendar`, `Resources`, `NotificationPreferences`, and the types of the eight as `MCServices` composes them | EXTENDS `MCServices`, `BillingProofs`, `ConstraintProofs` |
| `BillingProofs` | the theorems about `Subscriptions`, `Payments`, `Pricing` | EXTENDS the three |
| `MCServices` | one instance of the eight, one service (the *focus*) moving per behaviour | EXTENDS all eight |
| `MC*` | instances for TLC, one `.cfg` per question | |

**Schedule.** `schedule[s]` and `session[x]` are rows, or `Unused` (not inserted yet) or `Gone`
(deleted: identifiers are cuids and never come back). `req[w]` is the request worker `w` executes.
`CreateCheck`/`CreateInsert`, `ActivateRead`/`ActivateOthers`/`ActivateSelf`,
`DeleteCheck`/`DeleteWrite`, `CheckTeacher`/`CheckRoom`/`CheckClass` and so on are the awaited calls
in their order. A request refused by its first read changes nothing and is not represented; a
refusal later on is an action (`RecordNotFound`, `CreateSessionReject`). `Abort` loses a request
between two calls. A slot stands for a time slot on a date, a date for a day.

*Lanes.* `Serves[w]` says which methods worker `w` may execute, and a worker executes one request at
a time. The service itself takes no lock, so with unrestricted workers several of its promises fail:
the violation runs show it. `Serialised(group)` says that one worker executes all methods of a
group, which is what a deployment (or a future lock) would have to guarantee; the passing runs and
the theorems name the groups they need and no more. Requests of different lanes interleave freely
and any request can still be lost half way.

**ScheduleVersions.** What a version copies (sessions, conflicts, status, score) is one abstract
`content`; `Edit` is anything that changes the schedule meanwhile. The unique index on
`(scheduleId, version)` is the action `NumberTaken`. Transactions are single actions: the first
statement of `activateVersion`'s transaction locks every version row of the schedule.

**WaitingList.** Only the transaction of `assignFromWaitingList` is atomic; the status and the wish
it uses are read before. `granted` is a history of the sessions inserted per entry. An entry names a
time slot without a date; the session takes that time slot on the day of the assignment (`Occurs`).

**Generation.** Bull is external and modelled by what the code relies on: a job is handed to one
handler, is retried until its attempts are used (three, two for a validation), is handed out once more when its process died
(`Stalled`), and cannot be removed while active. `Solve` yields what `OrToolsService.solve` can
answer: failure; an empty plan (the heuristic fallback always answers that); or a plan read from a
JSON file, whose dates are strings, on which the handler throws before its first `createSession`.

**Gateway.** `socket[c]`, `userId[c]` (the code's `client.userId`) and `connectedUsers[u]`. The
handlers have no await before their last change, so each is one action. A user listed is one for
whom `sendToUser` answers true; a user reached is one whose listed socket is open. The converse of
`ListedIsOpen` is not stated since it fails: when an old socket of a user disconnects after a newer
one authenticated, the entry goes although the user is online, and messages to that user are
retried as if nobody were there.

**Notifications.** `row[n]` is the notification's row, `job[n]` its job, `sender[w]` the request that
inserts the one and enqueues the other, and `handler` the run of `handleSendNotification` in
progress (one at a time: `@Process` names no concurrency). `sent` and `lost` are histories: the
messages that went out, and the losses (of a provider's answer, of the write that records it, of the
process) after which a repetition is legitimate. The handler's `data.attempts` is kept as the code has it: 0 at
every run, because nothing writes the job's data back. `Crash` takes the process with its sockets,
its requests and its handler. The mail server is external: it refuses, accepts, or accepts and its answer is
lost. SMS and push go nowhere at this commit: `sms.service.ts:67` and `push.service.ts:108` log
`[SIMULATED]` and answer success if the service is configured (`Enabled`), so that such a row becomes
DELIVERED with no message sent. `SendSimulated` does that, and `DeliveredWasSent` speaks of e-mails and
of messages to a user only. A broadcast to a tenant always succeeds, and who is in a room is left out. (It does succeed in the code, whoever listens:
`sendToTenant` emits to the room `tenant:<id>`, `websocket.gateway.ts:110`, while `join-room` only makes
rooms `tenant:<id>:<room>`, line 78, so that no socket is ever in it and the notification becomes
DELIVERED unseen.)

**The eight services.** Each has its table, and one record per request in flight (`call`, `payment`,
`work`, `plan`, `desk`, `visit`): the same shape as `Schedule`. Where a service repeats one pattern
over several tables it is modelled once with the table as a parameter: the rows of `Resources` have
a kind, the spans of `Calendar` have an owner (a school's day or a teacher's). In `Pricing` and
`Constraints` the code is arithmetic and the module is its operators; what the state adds is the
order of events that matters to them: the rate cache that expires between quote and charge, the
timetable that grows and comes, from the solver or from the database, in any order. The price of a tier
(`MonthlyBase`) is written as the sum of its eleven features, as the code adds them, which is also
what lets the provers reason about it.

What the code decides in these modules, and a reader might not expect:

- *Subscriptions.* Time is in instants, `Moments` of them to a day. A period runs from the start of one
  day to the end of another and is kept in days, as `calculateBillingPeriod` makes it; a trial ends at
  the instant of its day at which it started (`trialEnd`). The renewals look a day ahead and list trials
  too. A trial that ends on the last day of its period is therefore turned into a paid subscription
  from the start of that day on, before its instant: `TrialKept` claims the instant for trials shorter
  than every period, and the day for those as long as one. `subscription.service.ts` reads `id` from a
  wrapper that has none, so no row ever holds a Stripe identifier, and what depends on one is never reached. Nothing ends a subscription
  that was cancelled for the end of its period. Nothing in `src/` calls the two jobs, which is why
  no liveness is claimed of them.
- *Prices.* `determineSupportedGateways` adds a gateway for the currency or for the region
  (`tier-customization.service.ts:452`): a tier in Canadian dollars for `SA` gets PayTabs, which does not
  take them. `PricesAgree` says that a gateway takes the currency or the one of the region.
- *Payments.* Nothing in `src/` registers a gateway; `Registered` stands for what a deployment adds.
  PayTabs and PayMob refuse every subscription. `logPaymentAttempt` is defined twice (470 and 861):
  the second counts. The mapping of a customer to a gateway is stored and never read.
- *Resources.* The checks before a removal ask for less than the schema deletes with the row
  (`onDelete: Cascade`): a school's schedules, time slots, preferences, subscriptions and invoices, a
  subject's, class's or room's sessions are asked for by none, and a room's removal asks for nothing.
  `RemovalDestroysNothing` is about the rows the checks do name. Among them are the users of a tenant or
  a school and the students of a class (`seat`): users come, move and go through `UsersService`, a tenant
  takes its users with it, and the database only clears the school or class of the others. Nothing in
  the backend writes the class of a student, so that step (`JoinClass`) is external. `assignTeacher`
  looks for the identifier of a profile where the table refers to a user (`schema.prisma:332`), so that no row of it
  is ever made.
- *Calendar.* Times are texts: a span is validated by the minutes its texts parse to and compared by
  the order of the texts. The DTO admits `9:00`, which sorts after `10:00`; the instance has such a time,
  and a span with it can be created over another. `NewSpansDisjoint` is about pairs of spans whose
  texts are in the order of the clock (`TextsAgree`). With a `specificDate` the query of an availability
  asks only for those of that date (`preferences.service.ts:801`): a one-time availability is accepted
  over an active weekly one of the same teacher and weekday, and one of every week is compared with
  those of every date. The property says that much and no more.
- *Accounts.* `UsersService` stores a password as it is given, so that its user cannot log in; the
  model keeps whether a password is hashed. A login that has checked the old password may insert its
  token after the change has deleted the others; `late` marks those tokens.
- *Constraints.* The day of a session is the key of a `Map`. Where the solver answers, dates are texts
  and sessions of one date share their day. Where the sessions are rows of the database (`fetched`),
  dates are `Date` objects, which equal nothing but themselves: every session is a day of its own
  (`DayKey`), no run of consecutive sessions is ever reported and no teacher has more than one session
  a day (`soft-constraints.service.ts:280`, 497). `RunsCounted` is therefore about texts only, while
  `ScoreOfTimetable` holds of both. A day's sessions are sorted by the order of their slots with a
  stable sort, so that sessions of one order keep the order they came in, and the score of such a day
  depends on it.
  `OrToolsService` passes a context of sessions only (`bare`), for which the slot
  check reports every session.
- *NotificationPreferences.* `@@unique([userId, type, templateId])` does not bind rows without a
  template, so overlapping saves can leave two; midnight reads as hour 24. `sendNotification` never
  asks for the answer, and the bulk route is hidden by `:id` (`notification.controller.ts:551`).

## 3. The runs

| Run | Instance and bounds | Shows |
|---|---|---|
| `schedule_lanes` | 2 schools, 2 schedules, 2 sessions, 4 bookings that clash pairwise in each resource, 2 lanes (both may delete sessions) | the invariants of ScheduleService and the refinement of `ActiveRegister` |
| `schedule_race` | same, both workers execute the whole lifecycle | **violated**: two overlapping activations leave two active schedules |
| `schedule_retime` | 1 update that changes the teacher | **violated**: `updateSession` double books, without any concurrency |
| `schedule_period` | two consecutive terms, one worker | **violated**: activating the next term archives the running one |
| `versions` | 4 version rows, 3 contents, 2 workers; behaviours in which both execute everything, and behaviours with *lanes*: one edits, activates, rolls back and deletes, the other takes versions | unique numbers and active version = current version with every overlap; with lanes, the active version is not deleted and a rollback keeps its backup |
| `waiting_list` | 1 schedule, 2 entries, 2 sessions, wishes for two time slots, with and without a room; one clerk assigns and updates, the other enters and removes, and 1 worker creates, moves, cancels and deletes beside them | assignments are all or nothing and of the class, teacher and room wished, and the refinement of `PlacementQueue`: once, what was placed never waits again, no session is given twice |
| `waiting_list_race` | both clerks assign | **violated**: one entry gets two sessions |
| `generation` | 1 job of any of three kinds, 2 handlers, 1 user, crashes and failing calls | ownership, outcome, what an optimisation leaves alone, termination |
| `generation_failure` | no crash, no failing call | **violated**: a plan fails the job three times and the schedule is never told |
| `notifications` | 1 notification of any of 6 channels (SMS configured, push not), 1 sender, 2 users with 3 sockets, crashes, failing calls, reads and deletions | what a row says is what happened to its message; repetitions need a loss; the map names open sockets |
| `notifications_failed` | 1 user, no crash, no failing call | **violated**: the queue gives the job up and the row still reads PENDING |
| `services` | one focus per behaviour; bounds below | the properties of the eight services |

| Focus of `services` | Instance | Properties |
|---|---|---|
| subscriptions | 1 school, 2 rows, 2 plans with trials of 1 day and of 2, 2 cycles of 2 and 3 days, so that one trial is as long as a period, 3 days of 2 instants; one agent updates, cancels and runs the jobs, one creates and changes plans | `SubscriptionRegister` (with it `OneLive`), `CanceledStays`, `PeriodsContinue`, `TrialKept` |
| payments | 3 gateways, 2 rules and an edit, 2 requests, a log of 1 | `SelectionsCredited`, `AttemptsTruthful` |
| pricing | amounts at the thresholds of taxes and fees, 7 currencies in 4 regions, the two at odds too, usages at the limits of plans | `QuoteHolds`, `PricesAgree` |
| resources | one row of each of five kinds and 1 user; creation, removal, assignment and users who come or move beside renaming, switching, taking apart and users who go | `RemovalDestroysNothing` |
| calendar | 2 spans, 2 school days and a teacher's day, 1 date, 5 times of which one sorts out of order; creation, bulk creation, updates and activation beside deactivation and deletion | `NewSpansDisjoint` |
| accounts | 2 users, 2 tokens, 2 requests, 1 change of password | `TokensOfPassword` |
| constraints | timetables of up to 4 of 6 lessons, with texts or `Date` objects for dates, all six kinds of preference | `HardMeansFree`, `RunsCounted`, `ScoreOfTimetable` |
| preferences | 2 types, with and without template, 2 writers, 4 requests, quiet hours by day and around midnight, the minutes of their ends and after | `AnswersAsWritten` |

What the `services` run leaves to its instance, all of which the code does not enforce: creations of
one kind do not overlap each other (two overlapping `createSubscription`, `create` of a slot or
`save` of a preference each pass their check and insert twice); the jobs of subscriptions do not
overlap a cancellation (their list would be stale and a renewal would revive the row); a removal of
a resource does not overlap a creation below it or a user who comes to it. What does overlap, at every call, is in the table.

The rows of subscriptions and the requests for payment are symmetric in that run (`Identifiers`):
they are model values that nothing orders or prefers, the initial states and the choice of a free row
treat them alike, and the properties are invariants and action properties.

Why the bounds are enough: the properties quantify over at most two schedules, sessions, versions or
handlers, rows of a service, or one notification, at a time, every race needs two requests, and the clashing data are chosen so that each
query of the code is the only one to catch some pair. The attempts and the stall limit are the
code's and Bull's own (3 and 1). Identifiers run out after the given number of inserts, so a state
in which every request has been served and nothing can be inserted is no defect:
`CHECK_DEADLOCK FALSE` is set for that reason only.

*Fairness.* `GenSpec` assumes weak fairness of each handler's steps (Node runs a handler whose
awaited call has returned, and Bull hands waiting jobs to free handlers) and of the stall check (a
timer of Bull). It assumes none of users, of crashes or of failing calls, which are bounded by the
attempts and by the stall limit anyway. `JobsEnd` holds under it. Nowhere else does the code
schedule anything that must happen: requests may be abandoned at any call.

*What the waiting list run leaves to its assumptions.* `RevisionSerialised` and `OnlyAssignAssigns`:
without the first, `waiting_list_race`; without the second, an update with status ASSIGNED, which
the DTO permits, makes an assigned entry without a session. An update in the instance sets no
IN_PROGRESS, which the model treats as CANCELLED except in the search for a similar entry.
`RemovalSerialised` does not hold in the instance: there a removal that found its entry pending can
delete it after it was assigned, as the code can (`waiting-list.service.ts:231` checks, 235 deletes by
identifier alone), and `AssignedStays` fails. `PlacementQueue` lets a placed request leave for that
reason. In `generation`, users only cancel
sessions: a user who moves a session while an optimisation runs has the move undone, since the
handler writes back every teacher, room, slot and date it read.

## 4. The proofs

Every invariant, every action property and every refinement of the passing runs is stated by a theorem,
and so are `OneLive` and `GrantedOnce`, which the two refinements contain, and `AssignedStays`, which no run checks. The theorems hold for every set of schools, schedules, sessions, resources, dates, workers and DTOs, of
versions, entries, jobs, notifications, sockets and users, and of the rows, plans, gateways, amounts,
rates, times and preferences of the eight services, from the assumptions the modules declare:

- constants are of their types: `DtoAssumption`, `DtosAssumption`, `WishAssumption`, `RolesAssumption`,
  `IdentitiesAssumption`, `SubscriptionAssumption`, `PaymentAssumption`, `PriceAssumption` (amounts are
  natural numbers, percentages positive ones), `ResourceAssumption`, `CalendarAssumption`, `AccountAssumption`,
  `ConstraintAssumption`, `PreferenceAssumption`, `ServesAssumption`;
- what stands for no row is no row: `SentinelAssumption`, `NoneAssumption`, `JobRowAssumption`,
  `SubRowAssumption`, `UserRowAssumption`, `SpanRowAssumption`, `ResourceRowAssumption`.

What a theorem needs beyond these is a named hypothesis in its statement, listed below; each is
about lanes or about data. The instance of the run that checks the same property satisfies it.

| Theorem | Assumes | Argument |
|---|---|---|
| `TypeCorrect` | - | `TypeOK` is inductive, one step per action |
| `OverlapsExact` | - | arithmetic: the three branches of the query = the periods share a day |
| `ActiveUnique` | activations in one lane | `ActivationInv`: besides uniqueness, while a worker stands before `activateSelf` its school has no other active schedule |
| `BookingSafe` | bookings in one lane, updates only cancel | `BookingInv`: what each conflict query of a pending booking has confirmed still holds, since nobody else inserts or revives |
| `DeleteSafe` | deletes and bookings in one lane | `DeletionInv`: a pending delete's schedule has no sessions |
| `ApprovedOnly` | lifecycle in one lane | `ApprovalInv`: the schedule of a pending activation is still APPROVED |
| `RegisterImplemented` | activations in one lane | every step retires or enforces one register, or stutters; uses `ActivationInv` |
| `ListTypeCorrect` | - | types of the entries, and of what clerks and workers carry |
| `ActiveUniqueBesideList` | activations in one lane | `ActivationInv` again: the waiting list writes sessions and no schedule |
| `AssignedIsGranted`, `GrantedAtMostOnce` | `RevisionSerialised`, `OnlyAssignAssigns` | `GrantInv`: an entry is ASSIGNED exactly when one session was inserted for it, and what the clerk of the lane read of an entry stands until it writes |
| `GrantHonoured` | the same, `UpdatesKeepResources` | `WishInv`: a granted session keeps the class, teacher and room of the wish the entry had, and a pending assignment carries that wish |
| `WaitingListIsQueue` | `RevisionSerialised`, `OnlyAssignAssigns` | `QueueInv`: besides `GrantInv`, the sessions granted are rows, and identifiers of rows are not used again; each step enters, places or removes one entry, or stutters (`EntryChange`) |
| `AssignedAreKept` | the same, `RemovalSerialised` | `RemovalInv`: an entry whose removal is under way has not been assigned |
| `GenTypeCorrect` | - | types; the attempts of a job that may still run are below its limit |
| `JobHasOneHandler`, `CompletedSubmits` | - | `QueueInv`: a handler holds an active job of the kind it runs, no two hold the same, and a handler about to complete its job has told the schedule |
| `OptimisationMovesNothing` | `UpdatesMoveNothing` | `HoldsPlaces`: the row a handler holds says where its session still is, cancelled meanwhile or not |
| `NotifTypeCorrect` | - | `QueueInv`: types, and a row's attempts are the runs its job has had, which the queue bounds by 3 attempts and 1 stall |
| `CompletedDelivered` | - | `QueueInv`: the handler's job is active, and when it is about to complete its row is DELIVERED or READ, or gone |
| `RepeatsBounded` | - | `RepeatInv`: a message no loss accounts for is about to be recorded, is recorded in a completed job, or its row is gone |
| `DeliveredSent` | each socket logs in as one user | `DeliveryInv`: a row of an e-mail or of a message to a user that is DELIVERED, or whose handler is about to record it, has a message that went out; within the application this rests on `GatewayInv`, by which a listed socket is open |
| `ListedOpen` | each socket logs in as one user | `GatewayInv`: a listed socket is open and carries the user it is listed for |
| `VersionsTypeCorrect` | - | `TypeOK` is inductive: what a request read keeps its type |
| `ActiveIsCurrent` | - | `ActiveInv`: the copy a pending activation works from may be stale, but its number is that of the row, since numbers never change and identifiers are not used again (`CopyNumber`) |
| `OneAdministratorKeepsActive` | one administrator | `LaneInv`: the row a pending deletion names is not active, since only the administrator could activate it |
| `OneAdministratorKeepsWork` | one administrator | `LaneInv`: the copy of a backup is the content as long as the rollback is under way, and once inserted a version holds it |
| `TokensRevoked` | - | `AccInv` follows the logins that had checked the old password: a token older than a finished change is theirs, is about to be deleted, or its deletion was cut short |
| `CreatedSpansDisjoint` | `CreationSerialised` | `CheckedIsFree`: a span that passed the overlap query is still free, since nobody else creates, moves or switches one on |
| `RemovalSafe` | `RemovalSerialised` | `RemovedAreBare`: nothing and nobody the check names has come to the row a clerk is about to delete, since who enrolls users is in the lane |
| `HardIsFree` | - | a group of equal cells with two lessons has cardinality two or more and is reported; for timetables of any length |
| `RunsAreCounted` | - | where dates are texts: induction on the place in the day: up to each place, the sessions above the limit are the excess of the runs that ended before it and of the run it is in |
| `ScoreIsOfTimetable` | - | a reordering is a bijection of places, a sum over places does not change under it (`SumFunction` by induction on the size of its domain), and two sorted days of the same sessions, no two of the same order, agree place by place |
| `AnswersTrue` | `SavingSerialised` | `WriteInv`: what a save has found stands (`SearchHolds`), a type and template has one row (`OneRow`), which holds what was last written; `QuietAgrees` is the arithmetic of quiet hours over midnight |
| `ServicesTypesCorrect` | `SavingSerialised` | each service's types are inductive while it is in focus, with the invariants above where a value depends on them (the prices, the log of payments); where saves of preferences overlap, a key may have two rows, one be deleted, and an update write half-empty settings for a key that has none |
| `OneSubscription` | `SubscribingSerialised`, `CancellationSerialised` | `LiveInv`, with `PendingFree`: the school of a subscription about to be inserted has no live one; nothing revives another |
| `SubscriptionsAreRegister` | the same | an insert fills a register that `PendingFree` says is empty, a cancellation empties one that `OneLive` says held nothing else, every other step stutters |
| `CanceledForGood` | `CancellationSerialised` | `ListedLive`: the rows a job has listed are still live when it writes them |
| `PeriodsJoin` | `RenewalSerialised` | `ListedFresh`: a job knows the end of every row it listed, each listed once |
| `TrialsKept` | - | `TrialInv`: the period of a row in its trial lasts at least the shortest cycle, no update under way will shorten that, and a trial that a job has listed is over |
| `LogTellsTruth`, `SelectionsAreCredited` | - | `AttemptInv`, `CreditInv`: what a payment in progress has decided is what was counted and will be logged, whatever rules are edited meanwhile |
| `QuotesHold`, `PricesAlwaysAgree` | - | `PriceInv`: a quote's rate is the cached one until it expires (`QuoteKept`); below it, bounds on what each rounding adds, and taxes that grow with the amount |

The plain invariants are not inductive: each says nothing of the requests in flight, and it is what
a request has read and not yet used that a concurrent write can make stale. Each strengthening is
the invariant together with "what pending requests have read is still true", and the lane assumption
is what keeps that conjunct. In `Notifications` no lane is needed: the rows are written by one
handler at a time, and the other writers only delete a row or move it to READ.
`ListedOpen` needs its assumption: a socket that authenticates as a second user leaves the first
one's entry behind when it closes.

In `ScheduleVersions` the unique index and the transactions carry `ActiveIsCurrent` without any
lane; the two action properties need the administrator to be alone, and any number of workers that
take versions do not disturb them.

Of the services, `Accounts`, `Payments`, `Constraints`, `Pricing` and the trials need no lane at all:
whatever overlaps, the properties hold. The others check something in one call and write in another,
and their lane is the one the code would have to hold.

*Induction over data.* The library's induction theorems take an operator as a parameter, which no
prover here can instantiate. What the score and the runs need is proved without them: a set of
natural numbers that is not empty has a least element (`LeastNatural`, from the well-foundedness of
strict inclusion among finite sets, `SmallestMember`), so that a claim about numbers or about finite
sets is proved by looking at a smallest counterexample, with the claim written out each time. The
sums are those of `SumFunction` and the sorted day is the one function `CHOOSE` finds: that there is
one, that there is one only, and that it is onto are lemmas (`SortedExists`, `SortedIsOne`,
`SortedIsOnto`).

Model-checked only: `JobsEnd`, since liveness under fairness is beyond TLAPS here, and the properties
of the violation runs, which are false of the code as it is deployed by those instances. `AtMostOneActive`
and `GrantedOnce` are among them and hold under the lanes of their theorems.

## 5. Plan

1. *Core* (done): `Schedule`, `ActiveRegister`, `ScheduleVersions`, `WaitingList`, `Generation`,
   `Gateway`, `Notifications` and their theorems.
2. *Breadth* (done): the eight services, `MCServices`; `VersionProofs`.
3. *Proofs* (done): the waiting list and the generation beside `Schedule`, delivery of
   notifications, the eight services and their types, the score and the runs of the timetable, the
   three refinements. Open: weaker lanes, where the writes of two methods cannot meet on one row;
   a removal of an entry inside the lane of assignments as part of the abstract queue.
4. *Composition*: versions with sessions that keep their identifiers and `isActive`; rooms of the
   gateway with the recipients of broadcasts.

### Not modelled, and why

- *Dunning*: every method that loads or stores a campaign is a stub that returns nothing, so that no
  campaign outlives the call that starts it.
- *Webhooks*: the handlers verify a signature and log the event; none changes a row.
- *Rate limiter*: the guard is provided by no module and its decorator writes another metadata key
  than the guard reads; it never limits anything.
- *Performance monitor, schedule cache*: provided by no module; `getOrSet` has no caller.
- *Export, analytics, templates, history reads, statistics*: they read and format.
- *Scheduling preferences and rules*: rows written by identifier which no method relates to each
  other; `Constraints` takes them as given.
- *Cascades beyond the five tables of `Resources` and the users*, capacities, and the assignment of teachers to subjects.
- *Refunds*: always sent to Stripe, whatever gateway took the payment, with no change of state.
- *Invoices' lists and downloads*: fixed samples. `updateCustomTier` never finds a tier to update.
- *The mail server*: I/O, modelled as accepting, refusing or not answering. What SMS and push would do
  once implemented is not modelled; what they do now is.
- *DTO validation, role checks, pipes, filters, interceptors, configuration, health*: no state.
