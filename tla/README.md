# TLA+ specifications of Campigo

Campigo is a campus platform: students report lost and found items and are matched
by a background worker, claim what was found, buy university-wide alerts from a
prepaid wallet, share rides and rent clothes. The server is a NestJS application
(`src/apps/api`) on PostgreSQL and Redis, with a stateless Python service that scores
matches (`src/apps/ml-service`) and a Next.js client (`src/apps/web`).

The server is stateless: every request is a sequence of awaits against the database,
and requests of the same or of different students interleave at each await, in one
process or in several. There are few transactions, and only two places ask for more
than READ COMMITTED. That is where the program is hard to get right, and what these
specifications are about: which reads are stale when they are used, which writes are
conditional, what a crash between two awaits leaves behind, and what a repeated
request or delivery does then.

## Inventory

| Component | State | Operations | Hard part | What makes it correct |
|---|---|---|---|---|
| Wallet (`wallet.service`, `wallet.controller`, `razorpay.service`) | ledger entries, cached balance, webhook events | top-up order, webhook, debit, balance | duplicate and failed deliveries, racing debits, two isolation levels, a cache next to a ledger | the ledger is never negative; a payment is credited once, and in the end; the cache follows the ledger |
| Alert purchase (`alerts.service`) | alerts, cooldown, fan-out queue | purchase | check, debit, row and job are four awaits; clients repeat requests | no alert without its own debit, no debit without alert; one alert per cooldown |
| Alert fan-out, devices (`alert-fanout.processor`, `devices.service`, `fcm.provider`) | devices, the job, counts, in-app notifications | register, fan out | attempts repeat pushes, a stalled worker goes on beside its successor, tokens change hands | who was to be pushed to is told; counts add up; repeats follow failures only |
| Rides (`rides.service`) | ride, bookings, codes, reviews | join, leave, update, codes, start, complete, cancel, review | checks before unconditional writes | never overbooked; travelling needs a code; nobody waits for a ride that is over |
| Ride pages (`rides.service`, `app/ride-sharing`) | rides, pages of results, a cached ride | offer, search, show, edit, book | a check before an insert; offset pages of changing lists; stale caches | no twin rides, no missed rides and no false labels but for named races |
| Ride chat, location (`rides/chat`, `rides/gateway`) | messages, rooms | join, send, share | membership is checked when an event comes and a room is never left | no message falls between history and room; only people of the ride take part |
| Items and report forms (`items/`, `report-*-flow.tsx`) | items, images, jobs, the form | report, upload, list | create, enqueue, upload are separate requests that are repeated after errors | what is published is complete; images have objects and are scored |
| Matching (`matching/`) | item revisions, jobs, matches, notifications | match; edit, custody, image | items and their photos change while jobs wait or run; attempts repeat | every pair whose jobs knew the items as they are is compared; one notification each |
| Claims (`claims.service`) | claims, item statuses, conversations | create, decide, confirm recovery | concurrent decisions; creation in three awaits | one approved claim per item; item and claims agree |
| Claim chat (`chat/`) | messages, readers, rooms, reports | join, send, mark read, report, resolve | `readBy` is read and written back; flag and report are two writes | only participants read; no mark lost but by overlap |
| Clothes rental (`rentals/`, its pages) | listings, bookings | publish, switch, remove, rent, return | conditional rent, unconditional return, stale pages | one active renter unless the listing was reopened |
| Codes and password reset (`otp.service`, `auth.service`) | codes, reset tokens | request, verify, reset | codes and tokens read by several requests, expiry in between | each used once; no token survives a password change |
| Registration, login, sessions (`auth.service`, `jwt.strategy`) | users, wallets, tokens | register, log in, check a session | three writes after the code is consumed; seconds against milliseconds | one session for a code; a wallet unless a crash; a changed password ends sessions |
| Sign-in form (`auth-flow.tsx`) | mode, stage, fields, timers | the panels' buttons | answers that come after the form moved on | a panel is about what was entered, but the one a late answer opens |
| Browser session (`api-client.ts`, `auth-provider.tsx`) | tokens, query caches, tabs | sign in, query, log out | a late 401; tabs that do not hear of each other | a tab knows who is signed in and shows that account's data |
| Wallet page (`wallet-panel.tsx`) | mutation, checkout script, balance | top up, pay, refetch | one script element for all visits; a webhook at its own time | the page reports its own payment and shows what was credited |
| Administration (`admin.service`, `university.service`) | roles, statuses, universities, audit log | manage users, universities, authorities | checks before unconditional writes; two counts in one rate | administrators stay; changes come from one's own university |
| Rate limits (`redis-throttler.storage`, `socket-rate-limiter`) | counters, blocks, windows | count an event | windows and blocks that expire | less than two limits in a window's time; refusals end |
| ML service (`ml-service/app`) | none | embed, score | real-valued scores | scores within [0, 1] |

Components call each other in-process. `alerts.service` calls `debitForAlert` of the
wallet; claims, the match worker and the fan-out write notifications; claims change the
status of items, which matching and alert purchase read; items add matching jobs and alert
purchase adds fan-out jobs to Redis queues; registration creates the wallet. Adapters to
e-mail, storage and maps, the read-only services, the encryption and the configuration
keep no state and are not modelled.

`PROJECT.json` lists all components with what is modelled of each, the source lines
behind every definition, and the hazards of the code with the properties that cover them.

## Modules

| Module | Models | State and actions |
|---|---|---|
| `RunningTotals` | the sums over ledger entries | `RunningTotal`, a recursive function; `Total` |
| `Wallet` | wallet and webhook controller, with Razorpay as environment | `ledger`, `cached`, `event` are the tables; `order` is Razorpay's side; `topup`, `hook`, `debit`, `reader` are slots for requests in flight, one action per await |
| `IdealWallet` | what a wallet promises | a balance per student, moved by crediting a captured order once and by charging what the balance covers |
| `AlertPurchase` | `purchaseAlert` on top of `Wallet` | extends it with `alerts`, `expired`, `active`, `queued` and a purchase slot per debit slot; the other actions of the wallet interleave |
| `AlertFanout` | `process()` of the fan-out worker, device registration | `job` with its holder, tries and stalls; `runner`, one `process()` per worker, await by await; `device` and the provider's `gone` tokens; histories of pushes |
| `WalletPanel` | the wallet page | `payment` with the phase of its mutation, the `script` element, the `query` of the balance and its `timers`; `page` is the visit on the screen |
| `Rides` | one ride | `ride`, `booking`, `reviews`; each handler is a read action that decides and a write action that does not look again |
| `RideRooms` | the sockets of a ride | `joining` and `inbox` of each chat socket, `sending` rows not yet in the room, `onMap`; `since` is how much was said when a socket joined |
| `RideBoard` | several rides and their pages | `board` of rows, the `offer` form of each tab, a `walk` through pages of results, the `detail` page of a visitor and its cached answer |
| `ReportFlow` | the two report forms, items, images, lists | `form` with step and filled fields, `submission` and `upload` slots, `objects` in the bucket and `images` rows, a `reader` of pages |
| `Matching` | item requests, BullMQ, the match worker | `item` with revision and text, `photo` rows with what was read in them, `jobs` with state, attempts and the photos they knew, `worker` with its place in `processItem`, `matches`, `notifications` |
| `Claims` | claims on items | `claim`, `found`, `lost`; `decision` holds what a Serializable transaction has read |
| `ClaimChat` | conversations of claims, reports about them | `message` with `readBy`, `room`, `marking` with the list a reader read, `report`, `audit` |
| `Rentals` | listings and bookings, used from tabs | `listing`, `booking`; `shown` is the answer a tab still holds, `giving` a return that has read its booking |
| `PasswordReset` | codes and tokens of one account | `challenges` with their age, `tokens`, `changes` (history), slots for requests in flight |
| `Accounts` | registration, login, sessions | `account` with its wallet, `codes` in order, `call` slots between verification and token, `sessions` dated in ticks |
| `AuthFlow` | the sign-in page | `form`, `pending` mutations with what the form held when they were sent, `cooldown`, `timers` |
| `WebSession` | the session in a browser's tabs | `token` in the storage of all tabs, `signedIn`, `cache` and `sent` requests of each |
| `Administration` | users, universities, recovery rate | `role`, `enabled`, `tenant`; `adminCall` slots between check and write |
| `RateLimits` | the Redis script, the socket's window | `redis` counter with expiry and block, `socket` windows; `recent`, `events`, `waited` observe, tick by tick |
| `MC*` | instances for TLC | model values, symmetry, suites |
| `WalletProofs`, `IdealWalletProofs`, `AlertProofs`, `RideProofs`, `ItemProofs`, `ExchangeProofs`, `SignInProofs`, `RunningTotalLemmas` | theorems and lemmas, by suite | |

Conventions. A handler is split at its awaits, except where a step can be moved next
to another without anybody noticing; the module says so. A request that dies, an
await that rejects and a write that finds its row gone all end in the `...Fail` action
of the slot, or in `Crash`. A transaction is one action if it locks what it reads or
writes conditionally (`join`, `confirmRecovery`, `resetPassword`), and a read and a commit
if it does not (`HookFind`/`HookCommit`, READ COMMITTED), or if the isolation level is what
is to be shown (`DecideRead`/`DecideCommit`). `debitForAlert` is Serializable and one
action. A page acts on the last answer it holds, which is a variable, and a mutation keeps
what it was sent with. Time is a set of flags, ages or ticks. Data is cut down to what
the code tells apart: a boarding code is a model value, a guess is right or wrong, an
item's description is its content number, an amount is a small number.

Some variables are histories or observations and no state of the program; they are said
to be in the declaration. Properties use them to name the race that excuses an outcome:
`OverlapNeedsReopening` does not say that a listing has one renter, which the code does not
guarantee, but that a second renter came through one of two named steps and no other.

Definitions named `Bug_...` are variants of the definition that follows them, each with
a mistake one could make in that code. They are not used by the specifications; replacing
a definition by its variant must violate the property `PROJECT.json` names with it.

Invariants that belong to one question are parts of a grouped one (`RentalsAgree`,
`ChatIsKept`, `OutcomeIsRecorded`, ...): a conjunction of named parts, each with a comment of
its own in the module.

## Runs

A run checks one component, or a suite: components that meet in the program and can share
an instance. The module of a suite extends them all and has a variable `focus`, chosen at the
start: only the component in focus moves. Nothing is lost by that, because components of a
suite share no variable; where one of them needs what another provides (a queued alert, a
booking, a code) it has an action of its own for that. A component with much
independent activity is in several foci, each with a part of its actions; together they
have all of them.

| Run | Instance | Shows |
|---|---|---|
| `wallet_race` | 2 students, 1 order with 2 events, 2 slots of each request but balance reads | `TypeOK`; `LedgerNeverNegative`; `PaymentHasEntry`: a captured order has its entry; `ImplementsIdealWallet`: the wallet refines the ideal one |
| `wallet_live` | 1 student, 2 deliveries, a debit, a balance read, crashes | `PaymentIsCredited`; `CacheConverges` |
| `wallet_duplicate` | 2 concurrent deliveries | **violated**: `DuplicateDeliveryIsNoOp` |
| `alert_race` | purchase: 2 purchases, 2 keys, 2 items, 1 top-up. Fan-out: 2 workers, 2 tokens, 2 universities, 2 attempts, 1 stall, batches of 1. Page: 2 top-ups, 2 visits | `AlertPaid`; `CacheTracksLedger` (one delivery at a time, no balance reads); `ImplementsWallet`: the purchase uses the wallet as `Wallet` allows; `OutcomeIsRecorded`; `PushesAreJustified`; `PanelIsTruthful` |
| `alert_retry` | 1 purchase at a time, 2 keys, repeated after crashes; 1 worker, 1 token; 2 top-ups | `CooldownRespected`; `ChargeLeadsToAlert`; `FanoutEnds`; `TopupEnds` |
| `alert_cooldown` | 2 purchases at once | **violated**: `CooldownRespected` |
| `rides_race` | ride: 2 students, 2 codes, 2 requests in flight, seats 1 that may become 2. Rooms: 2 riders, history of 1, 2 messages. Board: 3 rows, 2 tabs of one driver, pages of 1 | `NotOverbooked`, `BoardingIsVerified`, `EndedRideIsSettled`, `RoomsServeTheRide`, `BoardFollowsTheRides` |
| `rides_start` | 1 student, 2 requests in flight | **violated**: `StartsFromUpcoming` |
| `matching_race` | matching: 1 lost and 1 found item with 2 revisions, 1 photo, 2 workers, 2 attempts. Reports: 2 submissions, 2 uploads, limit of 1 image, pages of 1. Administration: 4 users in 2 universities, 2 calls | `MatchesFollowTheItems`, `NotifiedOnce`, `ReportsAreWhole`, `AdministrationIsOrderly` |
| `claims_race` | claims: 3 on 2 items, 2 decisions in flight. Chat: 2 participants, an authority of another university, 2 messages, 1 report. Rentals: 1 listing, 3 bookings, 3 students in 4 tabs | `ClaimsAgree`, `ChatIsKept`, `RentalsAgree` |
| `claims_once` | 3 claims, 2 decisions | **violated**: `OneEverApproved` |
| `reset_race` | reset: 3 codes, 2 of them allowed per hour, 2 verifications, 2 password changes. Accounts: 1 address on the list of 1 of 2 universities, 2 calls, 2 codes, 2 ticks a second. Form: 2 addresses, 2 timers. Session: 2 tabs, 3 sessions of 2 accounts. Limits: 2 in 3 ticks | `SecretsAreSpent`, `HourlyCapKept`, `AccountsAreWhole`, `FlowFollowsTheUser`, `TabsAgreeWithTheSession`, `LimitsHold` |

Every suite also checks `SuiteTypeOK`, the type invariants of its components.

Two of everything is enough for the races in question: every one of them is between two
requests about one row, and a third request finds the row as the first two left it. Where
an invariant counts (seats, attempts, the hourly cap, images, the events of a window) the
limit is small and the number of actors exceeds it by one. Where the number matters the
instance has more: three bookings, because the second of two returns frees the listing under
the third renter; three rides, because a page boundary needs one on each side and one that
moves; three sessions, because a tab signs in again as another account while an old answer is
under way. Bounds that the code does not have are constants that say so: `MaxRevision`,
`MaxChallenges`, `MaxCodes`, `MaxTime`, `MaxTalk`, `MaxItems`, `MaxObjects`, `MaxMounts`,
`MaxTimers`, `MaxSent`, and in `Matching` `Photos` of an item, `Photographed`, `Claimable` and
`Flaky`, which choose the items that get photos, are claimed, or whose jobs fail: in
`matching_race` it is the found item that has a photo, is claimed, and whose jobs fail.

The suites bound some components further, in the focus and not in the module. In
`MCAlerts` a second device registers while at most one worker runs and a failure is used up
once. In `MCRideSharing` the board has three foci: twin offers that nobody joins, a walk
through a search, and the page of one ride. In `MCItems` matching has two: items that are
edited, moved and claimed, and items that are edited and photographed; `NoPairIsLost` is
proved for all of it together. The report form has three: the form sent twice with at most one
stored object (and no form of the other kind after a submission), uploads to one item, and
reading. What these leave out are products of activities that do not touch the same rows.

Symmetric sets of different components share their model values (`a1` and `a2` are workers
in one focus and tabs in another): a permutation of the values then permutes the sets of the
component in focus and fixes the others, which are in their initial states.

Checks of deadlock are switched off where a system comes to rest because its keys, codes or
items are used up or its ride is over.

### What the violated runs say

- `wallet_duplicate`: the doc comment of `completeTopupFromWebhook` promises that a
  duplicate delivery is a no-op. Two concurrent deliveries read the entry PENDING and both
  increment the cached balance. The ledger stays right, and so does the balance a student
  sees, which is the sum `getBalance` computes from it; the column `cachedBalance` alone is
  wrong, until that same read repairs it (`CacheConverges`).
- `alert_cooldown`: the cooldown is a read before the debit, so two requests with
  different keys buy two alerts for one item. One at a time it holds (`alert_retry`).
- `rides_start`: a start that was decided before a cancellation revives the ride. The
  same pattern in `update` lets the driver lower the seats below the bookings
  (`NotOverbooked` is therefore checked with seats that are only added), and in `leave`
  deletes a booking that has boarded meanwhile.
- `claims_once`: the class comment promises that only one claim ever reaches APPROVED.
  The code makes sure of one at a time; after a confirmed recovery or a rejection of
  the approved claim another one can be approved.

### Fairness

`wallet_live` assumes that Razorpay retries a delivery that was not acknowledged, that
deliveries are not refused for ever (strong fairness of receiving and of each later step:
a step that is retried often enough succeeds), that no request stays in flight for ever
(weak fairness of the `Fail` actions), and, for the cache, that the student keeps
opening the wallet page.

`alert_retry` has the fairness of three components. `PurchaseFairness` assumes that a client
repeats an unanswered request with its key and that an await its requests reach again and
again succeeds in the end; nothing is assumed of a client that gives up. It is
`RetryFairness` of `AlertPurchase` under `InPurchase`, so that it asks nothing of a behaviour
about something else. `FanoutFairness` assumes that BullMQ gives a waiting job to a worker,
that a worker goes on with the step it is at, whatever the outcome, and that the lock of a
dead worker expires; failures and deaths are not fair, and they are bounded by the job's
attempts and BullMQ's `maxStalledCount`. `PanelFairness` assumes that a posted order
is answered one way or the other and that the browser fires `load` or `error` of the script;
nothing is assumed of the student, who may leave the checkout open.

## Proofs

The theorems hold for every number of students, keys, orders, events, items, rides, claims,
codes, tabs, listings, messages, workers and requests in flight, and for all amounts, limits,
windows and page sizes. Every invariant a run checks is one of them, and so are the two
refinements. Each component has an inductive invariant, named below, of which its theorems are
consequences. An action of `Next` has a lemma of its own that says what it does to the
invariant; most of them lean on a lemma about one slot (`VerifySlotInv`, `PurchaseMove`,
`RideSlot`, ...) that says what is left to show when only that slot moves.

`SuiteIsOfItsComponents` says of a suite that whatever it does is a step, or none, of each
of its components, so that what is proved of them holds in it, `SuiteTypeOK` included.

### Money and alerts (`WalletProofs`, `IdealWalletProofs`, `AlertProofs`)

- `WalletInv` is `TypeOK`, `TopupInv` (a top-up slot knows the order it created), `OrderInv`
  (an order beyond creation has exactly one entry, with its student and amount), `HookInv` (a
  delivery between its steps points at a top-up entry of its order), `CallerInv` (a debit
  slot's key and student) and `LedgerNeverNegative`. The last is not inductive alone: that a
  completed top-up raises the sum needs the type of the entry, and that an appended debit is
  covered needs the sum before it.
- `WalletImplementsIdeal`: under the mapping of `Ideal` in `Wallet` every step is a credit, a
  covered charge, or a stuttering step of `IdealWallet`. It uses the invariant for the entry
  behind a credit and the fact that keys are unique for a charge.
- `CacheDriftsOnlyInARace` has the hypotheses `DeliveriesApart` and `NoReconciliation`: no two
  deliveries are between finding and completing one entry, and no balance read writes. Without
  the first `CacheTracksLedger` is false (`wallet_duplicate` shows how); a reconciliation
  writes a sum it computed before. Under them an entry about to be completed is still PENDING
  (`CacheInv`), so entry and cache move together.
- `PurchaseImplementsWallet`: a step of a purchase is one of `Wallet` or none, hence
  everything proved of the wallet holds below `purchaseAlert`. `AlertsArePaid` needs
  `EntriesInv`, that a completed debit keeps what a purchase past it remembers and belongs to no
  other alert, and `KeysApart`: `debitForAlert` looks up a key whatever its entry is for, so a
  client that reused a top-up's key would get an alert for it.
- `CooldownBreaksOnlyInARace` has the hypothesis `PurchasesApart`, that no two purchases for
  one item are between check and row; `alert_cooldown` is what happens otherwise.
- `FanoutInv` counts for a device the pushes made, the attempts that may still push and the
  attempt still to be taken: `PushBudget` says that the sum exceeds one by no more than
  the attempts made again. `PanelInv` adds to the page's promise that one payment at a time
  waits for the script or the checkout, and that a refetch reads what was credited before.

### Rides (`RideProofs`)

- `RidesInv`: `RequestsInv` and `BookingsInv` say what a request past its checks may still
  assume when it writes, which is less than it read, because nothing is locked; `PastInv` that a
  ride with reviews has been upcoming for the last time. `RideIsNotOverbooked` has the
  hypothesis `SeatsOnlyGrow`, as the run has it: an `update` does not look at the bookings.
- `RoomInv`: a socket is in the room before its history is read. `RoomReaches` says what the
  room gives from then on, and the history adds what was there before; `LetIn` that whoever is
  in a room, or on the way there, is or was of the ride.
- `BoardInv`: `WalkInv` says that a ride not yet seen has, for every page that was read, a page
  of earlier rides before it, or was overtaken; `UpcomingInv` and `DetailInv` say what the
  rows know of rides that the pages have cached.

### Items and administration (`ItemProofs`)

- `MatchingInv`: a job is active for one worker (`JobsInv`), a row is notified by the worker
  that created it (`NotifyInv`), and a row of current revisions has their text (`ContentInv`).
  `PhotosInv`: what was read in a photo stays read, so what jobs and rows took note of is still
  there. `NoPairIsLost` needs `PairsInv`: a pair that does not score WEAK as its items now are
  has its match as soon as each of the two has a job that knew what the item says and is done
  with the other, because it ended or has the other on its list no more. Its hypothesis
  `FewCandidates` says that no query reaches its limit; beyond it the code takes any 50 and
  promises nothing.
- `ReportInv`: what a submission holds of its form (`SubmissionsInv`), which objects and rows an
  upload has made (`ObjectsInv`), how many images an item can get (`CountInv`), and, for the
  reader, a page of newer items before everything that is due (`ReaderInv`).
- `AdminInv`: what a call read of an account is still so when it writes, but for the status, and
  between two counts the items are those counted and the new ones (`RateInv`).

### Claims, chats, rentals (`ExchangeProofs`)

- `ClaimsInv`: `OneApprovedAtATime` is not inductive, because an approval commits on what it read
  before. `DecisionInv` adds that a decision in flight read no APPROVED claim on its item,
  and `CommitSeesNoApproval` that this is still so when it serializes; with `Serializes` replaced
  by TRUE, which is READ COMMITTED, the lemma fails as the mutant does. `ApprovalsInv` ties
  APPROVED to the history.
- `ChatInv`: a reader's list was a list of the row, and a mark that is lost was
  overwritten by a reader that overlapped; a report's audit names a report that exists.
- `RentalInv`: `AvailableIsFree` says that an available listing is free or was reopened while
  rented, which the conditional update of a booking relies on, and `BookingsExist` that a return
  under way names a booking of a listing.

### Codes, sessions, limits (`SignInProofs`)

- `ResetInv`: `HolderInv` says that a verification between consuming its code and issuing the
  token is the only one to hold it and that no token of it exists, which gives `CodeUsedOnce`;
  `ChangesInv` that a token that changed the password is used or deleted, which gives
  `TokenUsedOnce`. `AttemptsInv` counts the guesses at a code together with those about to be
  counted. `CapBreaksOnlyInARace` has the hypothesis `RequestsApart`, that one request at a time
  is between the count and the insert; it is why the run has one request slot.
- `AccountInv`: one session for a code needs what is between consuming it and issuing the
  token. `HoldersInv` says that a call that is there is the only one with its code and that no
  session of it exists, `VerifiersInv` that a call names a row sent to its address for
  what it does. That no accepted session is as old as its password is then arithmetic: a token's
  second, taken back to ticks, is not later than the token (`SecondsRoundDown`).
- `FlowInv`: what the form shows is calm (`Calm`) but for what is in `late`, a history of the
  operations whose answer came when the form no longer held what they were sent with
  (`OfThisForm`). It says more than the property: a form in a reset has no code stage of the
  sign-in, nor one outside a reset a token, so that cancelling one brings up neither panel; and
  the fields behind a panel that waits cannot be edited. That there are no more intervals than
  `MaxTimers` counts them together with the mutations that may start one (`TimersInv`).
- `SessionInv`: a request in flight carries the token of the storage or one that was replaced.
- `RateInv`: `Windowed` splits what was let through at the tick in which the window opened. Since
  then it is what the counter says, at most the limit; before it is less than the limit, as
  the request that opened the last window is out of sight. `RefusalInv` adds up the time a client
  was refused and the time it still is.

### What they rest on

`RunningTotalLemmas` holds what is needed about sums: they agree on a common prefix, grow by an
appended entry and by a changed one. These are inductions over a length that the prover can do,
on recursive functions. Assumptions are the named `ASSUME`s of the modules; they ask for natural
numbers, finite sets where something is counted, a value `None` outside the other sets, and
disjoint sets where rows are told apart. The hypotheses above are the only others.

Model-checked only: liveness (`PaymentIsCredited`, `CacheConverges`, `ChargeLeadsToAlert`,
`FanoutEnds`, `TopupEnds`), whose proofs need ENABLED, which is out of the prover's reach; and
the four violated runs, which are counterexamples.

## What the code does otherwise than it reads

None of these is a violated run; they came up in the modelling, and the models do what the
code does.

- Alert fan-out. "Can never leak" (`alert-fanout.processor.ts:12-15`) is true of who is read:
  a token that another user registers between the query and the push is pushed to
  (`strangers`, which `TenantIsolation` confines to `moved`). A student whose only token was
  marked INVALID by an attempt that later died is not in the next attempt's query and gets no
  in-app notification either. The status FAILED is never assigned. `markTokenInvalid` is by
  token and can hit a row registered anew. `WebPushProvider`, `NotificationPreference`,
  `deregisterDevice` and `notifyNewChatMessage` have no callers.
- Rides. `rides_start` above, and: after an `update` two rides of a driver can be twins.
  Search sorts upwards without a filter on status, so its first page is the oldest rides. A
  visitor who books the last seat reads "Seats Full".
- Ride rooms. `joinChat` sends the oldest 50 messages of a longer chat. A passenger who leaves
  keeps receiving until the socket ends.
- Reports. A form without a date is always refused by the server. The page of success is
  pushed also for a user who has left the form. Without a bucket configured, rows are written
  whose objects do not exist. `updateCustody` raises the revision of an item and adds no job,
  so `ProcessedPairIsMatched` is about processed revisions only.
- Claims. "Conversation is created eagerly so chat is available as soon as the claim exists"
  (`claims.service.ts:67`): claim and conversation are two awaits without a transaction. A claim
  cut short between them is approved like any other, and nothing creates its conversation later.
- Rentals. "All available rentals" (`rentals.service.ts:31`) lists all. "No overlapping bookings"
  (`rental-bookings.service.ts:15-17`) fails after the owner's switch or the second of two
  returns: `OverlapNeedsReopening`.
- Claim chat. A report about a message never finds it, as the target sent is the
  conversation. The gateway checks the token and not whether the user is still enabled.
- Sign-in page. A late answer to the verification of a reset code mixes accounts
  (`auth-flow.tsx:192-197`): after "Back to sign in", "Forgot password?" and another address it
  puts up the password panel with the token of the first address, whose password is then set.
  The same goes for the two panels that ask for a code: "Enter the verification code sent to"
  (lines 472 and 773) then names an address to which none was sent, or none at all. `FlowFollowsTheUser` holds of a panel
  unless a late answer of its own operation (`late`) opened it; the exception ends when the
  operation is answered in time, or when the user starts over, which clears everything those
  answers set. Further, "Back to sign in" leaves the e-mail stage without a university, whose panel is
  empty; a late answer can put up the code panel in the same state; two intervals run a
  cooldown twice as fast. `api.upload` does not clear tokens on a 401.
- Browser session. A refused sign-in on one tab answers 401, and `request` then clears the
  storage all tabs share: the live session of another tab is gone, and that tab is not told.
  `LiveSessionSurvives` is about the answers to queries and does not count it.
- Matching. The job of a photo scores its pairs anew, but the upsert has `update: {}`
  (`matching.service.ts:295`): a match made before a photo was read keeps the score it had, and
  its revisions stay current. A photo whose embedding was stored by an attempt that failed
  before its text was is skipped by every later attempt (`EmbeddedPhotoIsRead`). Vectors are of a
  type the database client does not read, so the visual score is always that of no photos.
- Wallet page. A top-up waits for ever for a script element that has failed already, or that
  loaded and defined nothing, and its buttons stay disabled until a reload (`late`, which
  `TopupEnds` excepts).
- Administration. A user who is disabled between check and write is made Campus Authority. A
  recovery rate can exceed 1, as it is two counts. Registering does not look at the status
  of the university.
- Rate limits. `timeToBlockExpire` is returned as a point in time; a socket that reconnects has
  a fresh window.

## Not modelled

- The university's filters: each model is one university's data, except where a row passes
  from one to another (devices, administrators, accounts, reports); the guards and the
  `universityId` in every query are stateless.
- Roles and ownership of a row, where a check of them can not become stale.
- Invalid input: a request refused before its first write changes nothing. `ReportFlow` and
  `Rentals` have what the forms and the DTOs disagree about.
- Health, search, maps, dashboard, profiles and the statistics: queries, or an update of one
  row by its owner. `markRead` of notifications sets one timestamp.
- The home screen, the matches page and the other pages that show the answer of one query.
- Scores: real numbers; `Strong` is an arbitrary set of pairs of contents.
- The verification questions of claims, whose answers authorities read outside the program.
- The limit per IP address and the sending of e-mail in `requestOtp`; the adapters to e-mail
  and storage beyond success and failure.
- Field encryption and the error filter: pure conversions. Deployment and migrations:
  configuration.
- The recovery of a lost job: nothing in the code adds a job that was not added after its item was
  written. `Matching` and `ReportFlow` have items without one, and promise nothing about
  them. Three hazards have no property, because nothing in the code promises
  otherwise: the limit of 50 candidates, of which the query takes any, the fan-out job that a
  repeated purchase does not add, and the conversation of a claim that was cut short.

## Plan

What is left to prove is what a run does not check yet.

1. `AlertFanout` and `AlertPurchase` together, by one queue: that an alert marked SENT was paid.
2. An abstract rental and an abstract claim, of which `Rentals` and `Claims` are refinements but
   for the named races, as `IdealWallet` is for the wallet.
3. Weaker hypotheses for `NoPairIsLost`: which pairs are still matched when a query reaches its
   limit.
