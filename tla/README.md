# Vibe Sport, in TLA+

Vibe Sport is a NestJS backend for booking sports courts. A customer *holds* a slot, the
hold is confirmed (directly, or by a deposit paid at PayOS), and jobs expire stale holds
and complete finished bookings. Postgres (through Prisma) keeps the bookings, Redis keeps
one lock per slot, Socket.IO tells the clients of a venue what happens to its slots. No
use case opens a database transaction, so what keeps two customers off one slot is a
protocol of single statements: that protocol is the centre of this project.

Paths below are relative to `src/src/` of the repository unless they start with `docs/`
or `prisma/`.

## Inventory

| Component | State | Operations | Talks to | Correct when |
|---|---|---|---|---|
| Booking life cycle, `domain/entities` | none | `isValidTransition`, `isHoldExpired` | every booking use case | terminal statuses are final |
| Time ranges, `domain/value-objects`, `findConflicting`, availability grid | none | three overlap tests | create, confirm, availability | they agree |
| Slot locks, `hold.service.ts` over `redis.service.ts` | one key with a lifetime per exact slot | `acquireHold` (SET NX EX), `updateHold` (SET EX), `releaseHold` (DEL), `isHeld` | create, confirm, cancel, webhook, jobs | whoever acquired has the slot to itself until the key goes |
| Booking and audit repositories | rows of `bookings`, `booking_audit_logs` | create, update, queries, bulk completion | all of the below | no two blocking rows of a court overlap |
| Create hold | local variables across 6 awaits | lock, check, insert, re-lock, audit; catch | locks, rows, sockets | a refused or failed request leaves nothing held |
| Confirm booking | local variables across 5 awaits | expire / conflict / deposit link / confirm | locks, rows, PayOS, sockets | confirmed in time, once |
| Payment webhook | local variables across 4 awaits | confirm what was paid | locks, rows, sockets | a late or repeated report does no harm |
| Cancel booking | local variables across 4 awaits | customer and owner cancellation | locks, rows, sockets | the promised refund matches what was cancelled |
| Jobs: expire, reconcile, complete | a list of bookings | loop with a try per booking | locks, rows, sockets | every stale hold and finished booking is dealt with |
| Slot events, `modules/socket` | connected clients | emit to venue / user | all use cases | what clients were told last is true |
| Availability, pricing, operating hours | tables edited by owners | grid, price, hours check | create hold | what the grid shows can be held, at that price, while the court is open |
| Recurring bookings | a parent row and child holds | create | bookings table | - (no controller calls it) |
| Accounts: register, login, guard, logout, profile | `users`, the blacklist of tokens in Redis | each a short sequence of reads and writes | Redis, Postgres | one account per e-mail and phone; an ended session stays out |
| One-time passwords, password change | one Redis key per user, the mailbox | draw, store, mail; read back, compare, delete, write | Redis, Postgres, mail | the code that is stored was mailed, and works (it does not) |
| Chat | conversations, messages, `lastReadAt`, rooms | find or create, send, join, read | sockets | one conversation per subject; the preview is the newest; read means shown; no gap between history and broadcasts |
| Notifications, reminders | notification rows | cron every 5 minutes, a listener | findMany, sockets | each booking is reminded of, once |
| Reviews | rows, a cached venue rating | create, recompute, reply | bookings | one review per booking, the rating is their average, a reply stands |
| Favorites | one row per user and venue | toggle, add, remove | - | every press counts |
| Paged lists: bookings, messages, reviews, favorites, conversations | none | `findMany` and `count` side by side | - | a walk through the pages skips nothing |
| Venues: search, details, analytics | venues, courts, rules, bookings | search by page, open, sum up | bookings | the search finds all, list and details agree, revenue is what was charged |
| Uploads, mail templates, HTTP plumbing, seed | - | one call, or wiring | - | not modelled |

The hard behaviours: any two requests interleave at every `await`; the lock is deleted
without asking who holds it (five places), and expires by itself; statuses are decided on
rows read earlier and written unconditionally (`SELECT ... FOR UPDATE` outside a
transaction locks nothing); payments are reported late and repeatedly; a lifetime is
computed before the call it is used in; a failing write to the blacklist is swallowed and
the session called ended; strings of digits come back from Redis as numbers; time stamps
are taken before the statement that stores them; seconds are cut off before times of day
are compared; previews, ratings and favorites are written from what was read one await
earlier; pages are counted from the front of a table that changes; calls throw half way and
the process can be restarted; the scheduler is the only thing that ends an abandoned hold.
`PROJECT.json` lists each hazard at its line.

## Modules

| Module | Models | State |
|---|---|---|
| `BookingStatus` | `booking-status.enum.ts` | - |
| `SlotRange` | `TimeRange`, the OR of `findConflicting`, the grid's overlap test | - |
| `HoldService` | `hold.service.ts`, key expiry, the clock | `now`, `holdUntil` |
| `BookingRepository` | `booking.repository.ts`, `audit.repository.ts` | `bookings`, `audit` |
| `BookingState` | what use cases share: requests in flight, provider, clients | `req`, `payment`, `refunded`, `board`, `faults`; history `kept`, `exposed`, `revived` |
| `CreateHold` | `create-hold.use-case.ts` | |
| `ConfirmBooking` | `confirm-booking.use-case.ts`, `process-payment-webhook.use-case.ts` | |
| `CancelBooking` | `cancel-booking.use-case.ts` | |
| `BookingJobs` | `expire-holds.use-case.ts`, `complete-bookings.use-case.ts`, `booking.scheduler.ts` | |
| `SlotReservation` | nothing: the abstract promise, a table of reservations | `table` |
| `BookingSystem` | the composition; time, failing calls, crashes; all properties | |
| `SerialBookings` | no code: what `MaxInFlight = 1` makes of `BookingSystem`, its inductive invariant | |
| `MCBooking` | instances for TLC | |
| `RedisService` | `redis.service.ts` as tokens and codes use it: SETEX, GET with the client's deserialisation, EXISTS, keys that lapse | `now`, `redis` |
| `UserRepository` | `user.repository.ts`, the two unique columns | `users` |
| `Accounts` | register, login, `jwt-auth.guard`, `jwt.strategy`, logout, profile | `token`, `call`; history `ended`, `unwritten` |
| `PasswordReset` | `change-password`, `request-password-reset`, `verify-otp-reset-password`, `otp.service.ts` | `mail` |
| `AccountsSystem` | the composition; time, faults, crashes, deactivation; properties | `calls`, `faults` |
| `Requests` | what each client of the features below waits for | `call`, `calls`, `faults` |
| `Chat` | `conversation.repository.ts`, the chat use cases, `chat.gateway.ts` | `conversations`, `messages`, `room`, `heard`, `clock`; history |
| `Reviews` | `create-review`, `add-owner-reply`, `review.repository.ts` | `reviews`, `rating`; history |
| `Favorites` | toggle, add, remove, `favorite.repository.ts` | the pairs; history |
| `Reminders` | `reminder.service.ts`, the listener of `booking.confirmed` | bookings' status, reminders sent; history |
| `Listings` | the paged queries: my bookings, owner bookings, messages, reviews, favorites, conversations | the rows listed, the reader's page; history |
| `CommunitySystem` | the composition of the six modules above | `feature` |
| `Pricing` | `validateOperatingHours`, `calculatePrice`, the price rule of the grid | `hours`, `rules` |
| `CourtSchedule` | `get-availability`, what `createHold` answers, `get-venue-analytics` | `bookings`, `grid`; history `answer`, `earned` |
| `VenueSearch` | `search-venues`, `get-venue-detail`, `venue.repository.ts` | `venues`, `heap`, the walk |
| `CatalogSystem` | the composition of the three modules above | `topic` |
| `MCAccounts`, `MCCommunity`, `MCCatalog` | instances for TLC | |
| `SlotRangeProofs`, `BookingSystemProofs`, `ExclusionProofs`, `SerialProofs`, `SerialEffectsProofs`, `AccountsProofs`, `CommunityProofs`, `CatalogProofs` | proofs | |

`HoldService` <- `BookingRepository` <- `BookingState` <- the four use-case modules <-
`BookingSystem` (each arrow is an EXTENDS), and `BookingSystem` instantiates
`SlotReservation`. `UserRepository` <- `Accounts` (which instantiates `RedisService`) <-
`PasswordReset` <- `AccountsSystem`. `Requests` <- `Chat`, `Reviews`, `Favorites`,
`Reminders` <- `CommunitySystem`, which also extends `Listings`. `SlotRange` <- `Pricing` <-
`CourtSchedule` <- `CatalogSystem`, which also extends `VenueSearch`.

The four systems are checked apart because they share little: accounts share nothing with
bookings but the id of a user; chat, reviews and reminders read bookings and never write
them; slot locks and tokens live in one Redis under different prefixes (`AccountsProofs`
proves that blacklist and one-time password keys differ). Where a part reads what another
writes, the writer appears with the steps it may take: `Reminders` has bookings confirmed by
owner and by webhook and cancelled, `CourtSchedule` lets any valid transition happen to a
booking while the customer looks at the grid. The features of `CommunitySystem`, and the two
topics of `CatalogSystem`, have no row in common: a behaviour is about one of them, which
keeps TLC from multiplying independent states.

**Actions.** A use case is an async function; between two awaited calls that touch shared
state any other request may run, so there is one action per such call, with the
synchronous code up to the next one. `req[a]` holds what actor `a` remembers (slot, booking,
the status it read, what is left of a job's list) and the call it makes next (`at`).
Awaited reads of static data (court, policy, operating hours, price) are not steps. A check
of the clock that follows a read after such an await is made with the read; a later check
would only let less through. The early throws (not found, not the owner, wrong status) end
a request that changed nothing and appear as guards of the `Begin...` action.

**Data.** A slot is a record court, start, end with integer times. Ids are numbered in the
order of insertion, which is also `createdAt`. The value stored under a Redis key is left
out, as no operation reads it back: this is why the model has no owner of a key. `board[s]`
is the last slot event sent to the venue about slot `s`. Payment is one fact per booking;
links are created as often as the customer confirms, and one of them is paid at most once.

**Faults.** Every awaited call may reject: `CreateFault` jumps to the catch block,
`CreateAbort` is a rejection outside `try` or inside the catch block, `ItemFault` is caught
per booking in a job's loop, `RequestFault` ends a request. `Crash` forgets all requests and
keeps both stores. A call that fails has not had its effect. `audit` and broadcast that
follow each other without touching shared state in between are one action, so a failing
court read between the two counts as failing before the audit row.

In the other systems the same rules hold: one action per awaited statement that touches
shared state, `Reject`, `CallFault` or `Crash` at any of them, early refusals as guards of
the first action.

**Accounts.** `call[c]` holds the request's local variables. A password and its hash are
one value, a token is a number with `sub` and `exp`. The guard reads the blacklist and then
the user, two awaits. `isBlacklisted` catches Redis errors and answers false:
`BlindlyAdmit`. So do `logout` and `changePassword` with a failing write of the blacklist:
they answer success all the same (`RevokeFails`), which ends the session for its user; the
history variable `unwritten` has the tokens that happened to. `mail[u]` is the set of codes
in the mailbox of `u`; any code may be drawn, also one drawn before. The Redis client is
built with its automatic deserialisation, so `get` parses what it reads: a code is a string
of digits and comes back as a number (`NumberOf`), a value that is no JSON comes back as the
string it is. `verifyOtp` compares what comes back with the string of the request, and no
code is accepted. `RefuseVerify` is therefore the only action of a verification: that its
guard never fails is the theorem `CodesAreRefused`, and that the mailed code should work is
the finding of `reset_code`.

**Chat.** Participants never change, so the participant check goes with the statement that
follows it. A stamp is a `new Date()`, which JavaScript evaluates before the statement that
stores it is awaited: `InsertMessage` takes the one that `UpdatePreview` stores, `BeginRead`
the one that `ReadMark` stores, and other requests run in between. So a late update
may carry a stamp older than a reader's mark; `ReadMeansSeen` is about the stamps in the
rows, and says what they still tell. `Lapses` are the milliseconds that may pass between
two stamps: one in the instance, any set of numbers, 0 included, in the proofs. The user of a socket is the one its payload names. `known` keeps what a
client has been shown.

**Reviews.** `rating[v]` is the set of rows the average in the row of the venue was computed
over: the stars of a row never change, so the set says what the number says, and more.
`RatingIsAverage` compares the averages themselves (`Stars`).

**Reminders and lists.** Time is counted in minutes scaled down (`Period` stands for the
five minutes between runs, `Lead` for the hour). A list is described by whether rows may
leave it and whether they may move; `list` picks one of the six.

**Catalog.** A tick is less than a minute, so that there are instants between two minutes
(in the instance half a minute, of an hour of two minutes). Opening hours and rules are
"HH:mm" (`Clock`), and `validateOperatingHours` and `calculatePrice` cut an instant to its
minute before they compare it: `clockTime`. So a booking may end less than a minute after the
closing, and `NobodyPlaysWhenClosed` says that this is all it may do. The grid's end of day, 23:59:59.999, is the next
midnight, as times are whole ticks. Requests run one at a time: what matters here is
whether the parts of the code that read hours, rules and bookings agree. In the search, the
free-text filter and the order within a page are left out; `heap` is the order in which an
unsorted query returns rows. A price of 0 is taken for "no price" in several places of the
code; the properties about cheapest prices except venues where an hour costs nothing
(`NothingIsFree`), and court 5 of the instance is such a case.

**History variables.** `kept`: requests between lock and insert whose key has been there all
the time. `exposed`: slots inserted by a request that was not in `kept` any more. `revived`:
bookings written CONFIRMED when they no longer blocked their slot. `ended`: tokens whose
user was told that the session is over; `unwritten`: those for which the entry could not be
written. `raced`, `overlapped`, `disturbed` and their like name the subjects on which two requests were at
work at once: a property that fails for those states its promise for all others. History
variables are read by no guard.

## Runs

| Run | Instance | Shows |
|---|---|---|
| `booking_serial` | all use cases, one in flight at a time (`MaxInFlight = 1`), 3 slots of which two overlap and one needs a deposit, 2 bookings, 1 fault, time 0..3; 0.9 million states | `NoDoubleBooking`, `TerminalStatesAreFinal`, the audit, lock, broadcast and refund properties, that `BookingSystem` implements `SlotReservation`, and the invariant `SerialInv` all of these are proved from |
| `booking_race` | 2 requests and the expiry job, two in flight, one slot, 2 bookings; 0.9 million states | `HoldersExclude`, `DoubleBookingHasCause`, `AuditedTransitionsAreValid` |
| `booking_scheduled` | one request, one job, two in flight, one fault, under fairness; 51 thousand states | `StaleHoldsEnd`, `FinishedBookingsEnd` |
| `overlap_race` | two requests, two overlapping slots | finding: `NoDoubleBooking` fails without any fault |
| `late_webhook` | one request, a slot with a deposit | finding: `ConfirmedInTime` fails |
| `terminal_race` | two requests | finding: `TerminalStatesAreFinal` fails |
| `paid_cancel` | one request | finding: `CancelledHoldIsUnpaid` fails |
| `refused_hold` | one request, two overlapping slots, hold and cancel | finding: `LockedSlotIsTaken` fails |
| `accounts` | 2 clients, 2 accounts, e-mails, phones, passwords and codes, 3 tokens, 4 requests, 1 failure (swallowed or not) or crash, time 0..3; 627 thousand states | contacts stay unique, ended sessions stay out, the stored code was mailed |
| `reset_code` | 1 account, 1 client, nothing fails | finding: `MailedCodeWorks` fails |
| `community` | 2 clients, 5 requests, 1 failure; chat of 2 users about 3 subjects, 2 reviews of one venue, 2 favorites, 2 bookings to be reminded of, lists of 4 rows; 1.5 million states | eleven promises, each naming the race, if any, that voids it |
| `catalog` | 2 days of 3 hours of 2 minutes of 2 ticks, 30 schedules (hours off the hour, closed, no row; rules that overlap, leave gaps, cost nothing), 8 ranges, one of them off the minute, 2 bookings; 4 venues, 48 queries; 222 thousand states | grid and hold, shown and charged price, hours, revenue, search, list and details agree |

`booking_scheduled` is about the program with its scheduler. As the repository stands, the
scheduler is commented out of the providers (`modules/bookings/bookings.module.ts:58`), so
no job runs at all and a hold nobody comes back to stays HOLD in the table for ever; with
`Jobs = {}` the same instance violates `StaleHoldsEnd`.

`refused_hold` shows the refused request. A hold whose confirmation comes too late is
expired by `confirm-booking.use-case.ts:100-114`, which frees the key and tells the clients
nothing either; there `slot.locked` stays on the board as well.

Serial and concurrent properties are apart on purpose. Run one at a time, the use cases
keep every promise; `NoDoubleBooking` and the refinement are false as soon as two requests
overlap in time (`overlap_race`, `terminal_race`), and `DoubleBookingHasCause` says what is
left: for one slot, a key that went away too early or a booking that came back.

**Bounds.** `MaxBookings` rows: two are needed to collide, and a third adds no new pair.
`MaxTime`: the clock stops there, and holds are created only while their expiry lies before
it, so that each of them can become stale. `HoldTTL = 1`: a hold can expire at any step of
the request that made it. `MaxFaults`: one failure or crash at each possible point.
`MaxInFlight`: two interleave freely; three were explored in part only (more than five
minutes). `PageSize = 2` stands for the page of ten, so that the page never is smaller than
the table. `UseCases` leaves out of a run what its question does not involve. Requests are
symmetric in `booking_race`, which has no liveness property. Deadlock is not checked,
because at `MaxTime` with no room for bookings the bounded system may really stop.

In `accounts`, `OtpTTL < TokenTTL` and both are shorter than the time there is, so codes and
tokens lapse at every step of a request; two codes let the newest mail be told from an
older one; a token is issued by registering and by logging
in, and a third one lets two sessions of one user end at once. In `community`, two messages
on pages of one make a second page; the starts 6 and 7 lie on and off the period of 2; a
page of one reminder leaves one out when two are due. In `catalog` a slot is an hour of
two minutes of two ticks, so ranges may start and end between slots, and between minutes:
one begins and ends a tick after the hour. The bounds on calls end a behaviour, not
an interleaving: two requests in flight are free to take any order.

The runs `accounts`, `community` and `catalog` check safety and state no fairness: their use
cases end by themselves, and nothing in the code retries what they leave undone.

**Fairness** (`FairSpec`): time passes; each step of a running request or job is taken
(weak: the event loop is fair and awaited calls return or throw); each cron job begins again
and again (strong: an instance of the job, or the limit of actors in flight, disables the
beginning only for a while). No customer, owner or provider has to act. `ReconcileHolds` needs no
fairness: `ExpireHolds` subsumes it.

## Proofs

Every safety property that a run checks is a theorem, for every value of the constants: any
number of actors, slots, rows, keys, clients, schedules and catalogues, any page sizes,
lifetimes and periods.

| Module | Proves |
|---|---|
| `SlotRangeProofs` | what the conflict query finds |
| `BookingSystemProofs` | `TypeOK` and `AuditedTransitionsAreValid` of `BookingSystem` |
| `ExclusionProofs` | `HoldersExclude` and `DoubleBookingHasCause` of `BookingSystem` |
| `SerialProofs` | with one request at a time: `NoDoubleBooking`, `TerminalStatesAreFinal`, `ImplementsReservation` |
| `SerialEffectsProofs` | with one request at a time: `RefundedIsCancelled`, `ReleasedSlotIsFree`, `LiveHoldIsLocked`, `ReleasesAreAudited`, `SerialInv` |
| `AccountsProofs` | the four properties of the run `accounts`, and that no code is accepted |
| `CommunityProofs` | the twelve properties of the run `community` |
| `CatalogProofs` | the eight properties of the run `catalog` |

The assumptions are those named in the modules: times are integers, lifetimes, periods and
pages positive, bounds naturals, null values (`NoBooking`, `NoSlot`, `None`, `NoRow`) are not
data, and the tables of a catalogue and of a schedule have the columns of the schema, a day is
a whole number of hours, an hour of minutes, and days are numbered from zero (`CatalogsAssumption`,
`SchedulesAssumption`, `PricingBounds`).
The serial theorems have the hypothesis `MaxInFlight = 1`, which is what they are about.
The inductive invariants were checked by TLC on the instances of the runs before they were
proved; that of the serial system is a property of `booking_serial`.

### Ranges

On proper ranges (`start < end`) the query is exactly `TimeRange.overlaps`, it is symmetric,
and a free slot of the grid has no conflict; on all ranges, also the inverted ones that
`CreateHoldDto` lets through, a slot conflicts with itself, and the query finds every proper
range that overlaps the one it is asked about.

### Bookings, whatever interleaves

`TypeOK` is not inductive alone: an update keeps the type of the table only if the row is
still there, and an audit row is well typed only if the request remembers a status.
`RequestsOK` says so for each stage, and `Typed == TypeOK /\ RequestsOK` is inductive. The
lemmas at the top state once what a store operation or a change of stage preserves; then
there is one lemma per use case with one case per action. `AuditLogIsValid` follows.

`ExclusionInv`: members of `kept` are between lock and insert (`KeptInside`), have a live key
and different slots (`HoldersExclude`), and once they have checked, a blocking booking of
their slot is accounted for (`CheckedSlotIsFree`). Three steps are the protocol: the lock
(the key was absent, so nobody in `kept` has this slot), the check (a slot conflicts with
itself, so an empty answer means there is no such booking) and the insert. `ExclusionFrame`
reduces every other step to: no key of a member of `kept` disappears without the member, and
no booking starts to block that is not in `revived`.

### Bookings, one request at a time

`NoDoubleBooking` and its like are false when requests interleave (the runs `overlap_race`
and `terminal_race`) and true when they do not. What one request at a time buys is
`NothingStale`: the status, the empty answer of the conflict query and the list a use case
remembers still hold when it writes. The invariant is built in layers, each inductive given
those before it:

1. `Core`: `OneInFlight` (from `Begin`, which needs a free place), `SlotsApart` (blocking
   bookings share no slot and do not collide) and `NothingStale`. The insert keeps
   `SlotsApart` because the query answered nothing and finds every overlap
   (`ConflictQueryFindsOverlap`); no other write makes a booking block, as what it has read is
   not stale. From `Core`: `NoDoubleBooking`; the refinement, where each write changes
   rows along valid transitions (`MovesOne`, `Inserts`, the bulk completion) and everything
   else stutters; and that terminal statuses never change.
2. `ClientsKnow`: what the board says is free is free. A request announces a release only at
   stages where no booking of its slot blocks.
3. `RefundsStand`: a refund is answered for a cancelled booking, which is terminal.
4. `ExpiryBounded` and `KeysOK`: a key is set with a full lifetime, so it lasts at least as
   long as the hold it stands for, unless a request is between the two statements
   (insert and second SET, DEL and update). Who holds the lock of a slot meets no live hold
   there, so that the DELs of a refused request take nobody's key.
5. `AuditKept`: a release is audited, or the request that made it is on its way to it.

Layers 4 and 5 are claimed for `faults = 0`: a failing call may leave a hold without its key
or a release without its row, and the code repairs neither.

### Accounts

`Typed` strengthens `TypeOK` with what each stage of a request may rely on: the account and
the token it holds exist, its argument is one the statement can store, and under the key of
a one-time password lies a code. One lemma per action, `TypedStep` puts them together.
`ContactsStayUnique` needs no more than `Typed` and the two indexes: the lookups of
`register` are no part of the argument. `EndedSessionsStayOut` rests on `SessionsOK`: the
lifetime a request computed reaches to the `exp` of its token (`now + ttl >= exp` holds when
it is computed, and the clock only moves forward until it is used), and the entry of an
ended session is there with a lifetime that long, unless every write of it failed
(`unwritten`); one-time passwords are stored under other keys (`KeysDiffer`).

`StoredCodesAreMailed` rests on `CodesArrive`: without failures, a code that is stored is in
the mailbox, or a request that stored that very code is about to mail it; nothing is taken
out of a mailbox. `CodesAreRefused` needs only what `Typed` says of the keys: what lies
under the key of a one-time password is a code or nothing, a code is a string of digits,
and the number it is read back as is no string.

### Chat, reviews, favorites, reminders and lists

`CommunityInv` has one invariant per feature (a behaviour is about one of them, the others
keep their initial state). Each has the same idea: between two statements of a request the
tables have moved on, and the invariant says what the request still knows, unless a history
variable names the race that took it away.

- `FavoriteWorks`: alone with its pair, a request writes the opposite of what is there.
- `RepliesAlone`: who is alone with a review writes to an unanswered one. `RatingsKept`: the
  average in hand is that of all reviews, or somebody is going to read it again, so the last
  one to write writes the right one. `OneReviewPerBooking` is due to the unique index alone.
- `WalkKept`: while nothing left or moved, what the reader has not seen lies behind the pages
  he was answered (`Behind`): new rows only push it further, and the rank of a row is the number
  of rows after it (`RankOfRow`).
- `SubjectsKept`, `MessagesKept`, `PreviewKept`: who creates a conversation finds none; ids
  of messages have no gaps; the newest message is in the preview or with the only one who
  sends. `ReadKept` looks at every message and stamp the preview shows or is about to show
  (`Previewed`): who has a mark later than that stamp was shown the newest page up to that
  message, or is about to fetch it (`ShownOrComing`). It holds whatever the order of the
  updates, as a stamp is taken after its message is inserted and a mark before its page is
  fetched, and none is from the future (`StampsKept`). `RoomKept`: what was said since was heard or is on
  its way.
- `RunsKept`: one run to a period, and none missing without a fault. A window is one period
  wide and closed, so each start lies in the window of the run it is due at (`WindowsKept`,
  for `EveryoneIsReminded`) and in two only at both ends (`RemindersKept`, for `RemindedOnce`);
  the rest is arithmetic on `\div` and `%`.

### Grid, prices, revenue and search

`CatalogInv` is `ScheduleInv` and `SearchInv`: the topic a behaviour is not about rests in an
initial state, where its invariant holds too.

- `HeldWhenOpen`: every booking passed `validateOperatingHours`, which compares the minutes
  of the day. An instant is less than a minute after the minute it is cut to, and hours are
  minutes themselves (`ClockIs`); between two instants of one day (`WithinDay`) all times of day
  lie between theirs. Hence `NobodyPlaysWhenClosed`: not before the opening, and less than a
  minute after the closing.
- `GridIsCurrent`: what is on the screen is the grid of a day, since whatever changes a booking
  takes it away. So when a request is answered, `GridIsRight` compares the two parts of the code
  in one state: a slot of whole hours lies within the hours if the day opens on the hour
  (`SlotIsWithinHours`), and the overlap test of the grid, restricted to the bookings of the
  day, finds what the conflict query finds (`TakenIsConflict`). This is where bookings that end
  before they begin have to be excepted.
- `AnswerIsPriced`: under the conditions of `ShownPricesAddUp`, the price of each slot in the
  range is an hour at the rate that was charged. Clear rules have one that holds at an instant
  (`OneClearRule`), so both searches for a first rule find the same, although they compare the time of the slot
  and the minute the range begins in (`SameRate`); and a slot in
  a range without conflicts is AVAILABLE (`FreeSlots`), so its price is shown.
- `EarnedIsCharged`: the figure is the sum over the bookings that stand. A change of status
  adds or removes one summand.
- `PagesSeen` and `WalkEnded`: as long as no row was written, the rows before the next page
  have been found. A row's place is the number of matching rows before it, less than all of
  them (`PlaceBound`), so the walk does not stop too early.
- `FoundMatches` and `DetailsAreCurrent`: list and details are functions of a venue of the
  catalogue. `CheapestOfAll` compares the least price with the least of the least prices.

The sums are the community module's `MapThenSumSet`, a recursive function on the parts of a
set. The theorem of induction on finite sets has an operator as a parameter and cannot be used
here; instead, `LeastPart` takes, of the parts of a finite set for which a claim fails, one none
of whose parts it fails for (set inclusion is well-founded on finite sets). With it the module
proves that the recursive function exists (`SumExists`), that there is one (`SumsAgree`), that
the order of the summands does not matter (`SumOfRemove`), and what a sum over a union and over
equal summands is (`SumOfUnion`, `SumOfConstant`). `LeastOf` finds the least of a set of
numbers in the same way, among the intervals from zero to its members.

### Only model-checked

- Liveness (`StaleHoldsEnd`, `FinishedBookingsEnd`): fairness and ENABLED are out of the
  proof system's reach.

## Plan

Done: all systems modelled and checked, and the safety properties proved. Possible extensions:
what a search returns while rows are written (which rows a walk may miss, not only that it
finds all when none is), and a bound for what two requests that cross in a rating or a
preview may leave behind.

## Not modelled

- Recurring bookings, `setForVenue` of operating hours, `setVenueAmenities`: no controller
  or module calls them, so the program never takes these steps.
- Uploads: one call to an external image service.
- HTTP plumbing (guards of roles and venue access, filters, validation, DTOs, configuration,
  wiring): no state of its own. A refused request changes nothing.
- The signature of a webhook and the numbering of order codes: arithmetic on what PayOS
  sends; `payment` is one fact per booking instead.
- Reading notifications and marking them as read: single writes of one row.
- Of analytics, the counters other than revenue; of search, the free-text filter.
- What follows a successful verification of a one-time password (delete the key, store the
  password, send a mail): the program never gets there (`CodesAreRefused`).
- Mail templates, logging, the seed.
- Hazards without a property, with the reason, are in `PROJECT.json`, and so are the notes on
  hazards whose race a property excepts by name: there the property says that nothing
  but that race breaks the promise, not that the race is harmless.
