# Calnode: a TLA+ model

Calnode is a self-hosted scheduling server: a single Go binary over one SQLite
database.  Visitors book time with members ("hosts") through event types; the
server sells slots through Stripe Checkout, writes events to the hosts'
calendars, delivers webhooks and reminders from a jobs table, and heals what its
background goroutines leave undone.  This directory models the parts of that
program in which several actors meet: concurrent requests, goroutines that
outlive their request, the worker's poll loop, the calendar reconciler, Stripe,
and a process that can stop between any two statements.

Paths below are relative to the repository (`internal/...`), as in
`PROJECT.json`, which records for every definition the lines it models.

## 1. Inventory

### 1.1 Components

| Component | State | Operations | Correct when |
|---|---|---|---|
| **Booking ledger** (`internal/booking/service.go`, `handler/booking_handler.go`, `reassign.go`, `reschedule_handler.go`, `users.go`) | `bookings`, `booking_hosts`, the partial unique index on `(host_id, start_at)` | Create, Reschedule, ReassignHost, Cancel, CancelByID, CancelByToken, DeleteUser | no host is in two meetings at once; `host_id` and the primary seat agree; one cancel of many wins; the booking limits hold |
| **Paid bookings** (`handler/stripe_booking.go`, `internal/stripe`, the paid branch of CreateBooking) | `payment_status`, Stripe's session and charge | hold, open Checkout, completed and expired events, backstop sweep, cancel, refund | the column never claims more than Stripe did; a hold ends; a confirmation goes out once, and only when paid for; a paid slot is not lost |
| **Job queue and webhook delivery** (`internal/worker/worker.go`, `internal/webhook/webhook.go`) | `jobs`, `webhook_deliveries` | Enqueue, webhook Delete, Poll (purges, reaper, SELECT, claim, deliver, result) | a job is run by one worker at a time, a bounded number of times, and ends; success means delivered |
| **Idempotency keys** (`handler/idempotency.go`, CreateBooking) | `idempotency_keys` | claim, replay, finish, release, purge | one key, one booking; a replay tells the truth; a key is not reserved for ever |
| **Calendar sync** (`handler/booking_handler.go`, `reassign.go`, `calendar_reconcile.go`, `internal/calendar`) | `external_event_id` of booking and seats, `needs_sync`, the provider's events | inline create, move, delete; reassign; the reconciler's three passes | one event per booking and host, at the booking's time, gone after a cancel |
| **Reminders and manage links** (`handler/booking_handler.go`, `manage_handler.go`, `worker.go` sendReminder, the tokens of `booking/service.go`) | `jobs` of type reminder, `booking_manage_tokens`, `confirm_failed` | schedule, replace, send; issue, rotate, validate; the goroutines of create, reschedule and cancel | the reminder is for the present time; the booker holds a link that works, and no older one; every change is announced |
| **Invites and RSVP** (`handler/invite_delivery.go`, `rsvp_inbound.go`, `reassign.go`) | `invite_organizer`, SEQUENCE, `rsvp_status`, mail under way | invite of each change, inbound webhook | one organizer; the booker's calendar ends with the booking's time; the last answer is on record |
| **Slot generation** (`internal/slots`, `slots_handler.go`, `availability.go`, `override.go`) | rules, overrides, busy times | edit rules and overrides; list; CreateBooking's checks | what is offered is accepted, nothing free is withheld, a blocked date is closed |
| **Event types and hosts** (`handler/event_type*.go`, `event_type_hosts.go`) | `event_types`, `event_type_hosts` | create, patch, delete, duplicate, transfer, set hosts | a booked event type stays, under the link it was booked by |
| **Questions** (`handler/question_handler.go`) | `event_type_questions`, `booking_answers` | create, patch, delete; validate and store answers | what was required is on record; the form can be filled |
| **Members** (`handler/setup.go`, `claim.go`, `auth.go`, `roles.go`, `archive.go`, `users.go`, `invites.go`) | `users` (is_admin, is_owner, archived_at), `invite_tokens` | Setup, Claim, SetUserRole, TransferOwnership, ArchiveUser, RestoreUser, DeleteUser; create, resend, revoke and claim an invite | one owner; somebody can always administer the workspace; an invite makes one account |
| **Sessions** (`handler/session.go`, `email_auth.go`, `magic_link.go`, `password_reset.go`, `auth_*.go`) | `sessions`, magic and reset links | sign in, sign out, change and reset a password | a link opens one session; a new password ends the others |
| **Agents** (`handler/mcp_oauth*.go`, `apikey.go`) | `oauth_clients`, codes, access and refresh tokens, API keys | register, consent, exchange, refresh, revoke | a revoked connection stays revoked, a live one can be refreshed |
| **Calendar accounts** (`internal/calendar`, `connstore`, `oauthstore`, `gcal`, `caldav`, `calendar/microsoft`, `handler/calendar.go`) | `calendar_connections`, `connection_calendars`, an event and where it was filed | connect, pick, move the destination, disconnect; read, create, update, cancel | one destination; an account keeps its own tokens and calendars; success means done |
| **Key vault** (`internal/keyvault`, `cmd/calnode`) | key file, `crypto_keystore`, ciphertext | first boot, legacy migration, open, rotate-key, recover-key | the stored data stays readable, by the platform secret and by the recovery secret |
| **Recording** (`handler/livekit_recording.go`, `livekit_room.go`) | `recordings`, egresses, files, the banner | start, stop, end of the room, LiveKit's events, delete | what runs can be stopped, no file is orphaned, participants are told |
| **Notetaker** (`handler/notetaker*.go`) | `transcripts`, `notes`, their jobs | transcribe, summarise, regenerate, delete | one transcript per recording, all of them in the notes, nothing left of what was deleted |
| Mail, languages, branding, HTTP server, MCP entry points, frontend | I/O and presentation | | |

### 1.2 How they interact

* A request handler runs on its own goroutine.  `CreateBooking` claims an
  idempotency key, calls the ledger, and then either opens a Checkout session
  (paid) or answers and starts `dispatchBookingConfirmation` in the background
  (free).  Reschedule, cancel and reassign likewise answer first and run their
  side effects in a goroutine.
* Stripe calls back into `confirmPaidBooking` and `releaseUnpaidHold`, at least
  once and in any order.
* The worker polls every 5 seconds: it purges keys and finished rows, releases
  unpaid holds older than 45 minutes, reaps stuck jobs, claims due ones and runs
  them.
* The calendar reconciler sweeps every 2 minutes and reads what the goroutines
  wrote.
* All of them share one SQLite database opened with **one connection**
  (`SetMaxOpenConns(1)`), so a statement or a transaction is atomic, and
  everything between two statements may interleave.

### 1.3 What is hard about it

* A goroutine works with a copy of the booking that it took before another
  operation changed the row (create against reschedule, cancel and reassign).
* The request's context is cancelled when the client goes, and some clean-up
  runs with that context.
* A crash loses goroutines but not rows; whatever has no row to restart it from
  is gone.
* Stripe and the calendar providers may do what they were asked and fail to say
  so.
* Times are stored as text and compared as text.
* Periodic repair (reaper, sweeps, reconciler) must neither miss what was lost
  nor repeat what is still in progress.
* Handlers read, decide and write in separate statements: another request falls in
  between (two starts of a recording, a refresh and a revocation, the picker and a
  disconnect, an edit of a question and a submitted form).
* Mail, LiveKit's events and the booker's answers arrive late, twice, or in another
  order.
* Two processes may start on one database, the first time too.

`PROJECT.json` lists each hazard at its line, with the property that would show
it going wrong.

## 2. Modules

| Module | Models | Role |
|---|---|---|
| `Bookings` | the ledger | component |
| `HostAgenda` | who has promised which time to whom | abstract specification, implemented by `Bookings` |
| `Payments` | a paid booking from hold to refund | component |
| `JobQueue` | jobs, deliveries and workers | component |
| `Idempotency` | the requests that share a key | component |
| `Slots` | rules, overrides, the listing and what a booking accepts | component, algorithm |
| `CalendarSync` | one booking's calendar event | component |
| `Connections` | the calendar accounts of a host | component |
| `Followups` | manage links, reminder and announcements of a booking | component |
| `Invitations` | the invites of a booking and the answers to them | component |
| `Questions` | the intake form | component |
| `Recording`, `Notetaker` | the recordings of a meeting; their transcripts and notes | components |
| `Members`, `Sessions`, `Agents`, `EventTypes` | accounts; how one signs in; what acts for one; what one offers | components |
| `KeyVault` | the encryption key | component |
| `Accounts` | what members and operators administer: `Members`, `Sessions`, `Agents`, `EventTypes`, `Connections`, `KeyVault` | composition |
| `Meetings` | what hangs on a booking: `Questions`, `Followups`, `Invitations`, `Recording`, `Notetaker` | composition |
| `BookingsProofs`, `PaymentsProofs`, `JobQueueProofs`, `PublicProofs`, `MembersProofs`, `CalendarSyncProofs`, `AccountsProofs`, `MeetingsProofs` | | theorems |
| `MCBookings`, `MCCalendar`, `MCPublic`, `MCMeetings`, `MCAccounts` | | instances for TLC |

Components that share no state are checked in one run, one at a time: a variable
`part` is chosen at the start and only that part moves, so that the states of the
parts add up and do not multiply.  `MCPublic` holds `Idempotency` and `Slots`;
`MCMeetings` holds the components of `Meetings` and `MCAccounts` those of `Accounts`;
`MCCalendar` holds two settings of `CalendarSync`.  In `Meetings` and `Accounts`
themselves, which the theorems are about, the steps of all parts interleave; they also
state what the constants of their components must satisfy, and the MC modules evaluate
that.

Some properties except a case *by name*: a variable (`raced`, `crossed`, `mishaps`,
`history`, ...) records that two particular steps overlapped, and the property
holds in every behaviour in which they did not.  Each such case is one that the
code does not handle; section 4 lists them.  The exception is the narrowest under
which the property holds, and it is part of the property's comment.

Definitions called "slip" in a comment are not part of a model.  Each is the
modelled definition with one plausible mistake in it, and serves to show that a
property would notice the mistake (`mutants` in `PROJECT.json`).

### 2.1 Bookings

State: `bookings` maps each id to its row (status, event type, invitee, host,
start and end, creation time, and the seats of `booking_hosts`, each "none",
"primary" or "guest"); `now`; the members who still exist; and the progress of
the two operations that are not one transaction (`CancelByToken` validates the
token before its conditional UPDATE; `DeleteUser` counts before it deletes).
Every other operation is one transaction and one action.

* *Time is text.*  `start_at` is written with `RFC3339Nano`, which leaves out a
  zero fraction, and `hostBusy` compares the strings.  `TextKey` orders instants
  as those strings are ordered: within one second, a string with a fraction
  sorts before the one without, because `'.' < 'Z'`.  Instants are half
  seconds, so the model has both kinds.  The clock ticks in half seconds too:
  `created_at` and the cutoff of the hourly throttle are written and compared in the
  same way, so a booking made in the very second an hour ago may be counted or passed
  over, whatever its order in time.
* *Who excludes whom.*  `hostBusy` looks for overlapping active bookings in
  which the host has a seat, or in which a host with the same connected calendar
  has one; `SharedCalendar` is that relation.
* *Routing.*  `pickRotationHost` and `leastLoadedHost` are modelled by their
  result: the free member of the rotation with the fewest upcoming bookings,
  ties broken by order.  Required members must all be free and are seated with
  that host; optional ones are seated when they are free.
* `DeleteUser`'s several guards are one read, since any of them refuses.

The **abstract specification** `HostAgenda` knows nothing of rows, seats or event
types: slots are held, moved, thinned out (a person leaves) and released, no two
held slots of people who exclude each other overlap, and a released slot is
never held again.  `ImplementsAgenda` maps active rows to held slots.

### 2.2 Payments

One state machine per booking: `status`, `pay` (`payment_status`), the handler's
place in the checkout, Stripe's session, the booker's money, the confirmation
goroutine, the refund goroutine and an age that the sweep's 45 minutes and
Checkout's 31 minutes divide.  Each UPDATE, each call to Stripe and each
goroutine's start is an action, so a crash can fall between any two.  The money
and the session belong to Stripe (external); its events are enabled for as long
as they may be delivered, which makes redelivery and late delivery the default.
`Faults` chooses what else may go wrong: a crash, a dropped connection, events
that never arrive, failing refunds, failing loads.

### 2.3 JobQueue

The two tables, and each worker's place in `Poll`: what it selected, the attempt
counts it read, the job it runs and what the job returned.  Retention, due times
and lock expiry are nondeterministic within what the durations allow: a lock
expires while its job is still being processed only under the fault "slow".
The production server has one worker; the second is the process of an overlapping
deployment.  `Finish` keeps an asymmetry of the code: success is recorded only
if the job is still running, failure whatever the row says.

### 2.4 Idempotency

All requests of one key, statement by statement.  Bodies are told apart by their
hash; a body may ask for a priced event type.  The fault "disconnect" is a client
who goes before the response is stored; "drop" is one who goes during the
checkout, so that the `CancelByID` that should release the hold fails with the
request's context.

### 2.5 CalendarSync

One booking, its primary seat, the provider's events and the jobs that touch them:
the confirmation, a mover per reschedule, the cancel, a reassigner and the
reconciler.  Each reads, calls and writes in steps of its own.  The reconciler's
passes take the seat as they found it and act on that copy.  The other hosts'
seats of a booking run the same code beside it and share only
`bookings.external_event_id`, which only the primary host's create writes.

### 2.6 Members

The rows of `users` as sets (present, admin, owner) and `archivedBy`; the invites;
and each request with the actor's tier as `RequireAuth` read it.  A request is
authenticated, then checked against what its handler reads of the target, then
writes, so its checks may be stale; `TransferOwnership` and `ClaimInvite` are
transactions and one step, `issueInvite` deletes and inserts in two.  `raced`
records that ownership moved while another request was being served: the checks
of that request were made for the old tiers.  Bookings that refuse an archiving or
a removal are in `Bookings`; here such a request may end at any point (`Refuse`).

### 2.7 Slots

The interval algorithm (merge, cut, subtract), the windows of a day, busy times, the
grid, notice and horizon as operators over integers.  `Free`, `Taken` and `NoticeGap`
are what the page shows, `Accepts` is what CreateBooking would take; the properties
compare them over every sequence of edits of rules, overrides, meetings and external
calendars.  Custom hours and the change of an override are made in two or three steps
(read, clear, write) as in the code.

* *Hosts.*  `Pool` is the event type's hosts in priority order; `Pooled` are those that
  gate the slots of the routing mode, and `Lead` is the first of them, whose clock the
  grid follows (`newParams`).
* *Zones.*  A host's zone is an offset for each local date, so it changes at a local
  midnight only: `Midnight`, `LocalDate` and `WallClock` say what a clock shows when the
  first hours of a date are skipped or the last ones repeated.  `alignUp` is the
  wall-clock arithmetic of the code with the normalisation of `time.Date` and the loop
  for a result that lies behind.  A zone that changes later in the day is left out.
* *Where the two differ.*  The cases are named: `Straddles` (a slot over two windows that
  touch), `BeyondFreeBusy` (calendars busy next to the dates asked for), `Degraded`,
  unreadable rules, several required hosts in the fixed mode; and for what is offered
  completely, `OneGrid` (the interval divides the day and the leading host's zone does
  not change; otherwise the grid starts anew in the middle of others' windows) and
  `HoursSkipped` (hours that begin in what the clock skips, which `time.Date` reads as
  a time of the date before).

Rules limited to one event type are left out.

### 2.8 Followups and Invitations

Both follow one booking through a create, reschedules, a reassignment and a cancel.
Each change commits in its handler and leaves the rest to a goroutine of its own;
the goroutines run side by side, and a crash ends all of them.  `Followups` has the
tokens, the mails that carry them, the reminder job with the worker that sends it
(claim, load, send) and the webhooks.  A start is named by the change that set it,
so that "the present time" is a comparison of names.  Every step may fail by itself
(`Troubles`); and a reschedule or a cancel has one context of 30 seconds for all its
steps, which the calendar calls and the mails may use up at any point (`Expire`).
From then on (`InTime`) every step of that goroutine fails: the load, the rotation,
the mail, the webhook, the reminder.  A create has the contexts that
`dispatchCalendarBudget` and `dispatchMailBudget` separate, and does not expire.

`Invitations` has the organizer (read, fixed by a conditional UPDATE, read back, with
the sender or the candidate in its place when one of these statements fails), the
SEQUENCE (the second of a change; two changes may fall in one second), the mail
under way, the booker's calendar after RFC 5546 and the answers.  Resend delivers an
answer again as long as it is not told 200, and also after one that was recorded if
the response was lost; or it gives up.  `slips` names what of this happened.

### 2.9 Recording and Notetaker

`Recording` has the egresses at LiveKit, the rows, the files and the banner; two
requests (start, stop, end of the room, delete) overlap, and LiveKit's events come at
any later time.  Each call to LiveKit or the bucket and each statement is a step and may
fail, as the code logs it and goes on: the SELECT of the active row, the start (also
after the egress runs), the INSERT, the stop, the UPDATEs, the update of the room's
metadata.  The process may stop between any two.  `mergeRoomMeta` reads all of the
metadata and writes it back, so the toggle of screen sharing is modelled as the other
writer of the banner.

`Notetaker` has the jobs of the worker, one at a time, the request
that regenerates notes, and a deletion in its four steps.  What notes contain is the
set of recordings they were made from.  Failures that end or repeat a job are told from
those that nobody acts on (`Unnoticed`): a summary that could not be queued, transcripts
read in part (`rows.Err` is not asked), the mark "empty" not made, a DELETE of transcripts
or notes.

### 2.10 Sessions, Agents, EventTypes and Questions

Requests in steps of one statement.  Secrets are presented by whoever knows them.
`Sessions` is about one account, `Agents` about one client of one member: a refresh
token is the number of times its row was rotated.  An event type is looked up by
slug and changed by id.  A password can be changed with a session or with an API key;
in both cases `revokeOtherSessions` passes over the session of whatever cookie came with
the request (`spared` when that is not what authenticated it).  `linked` remembers under which slugs it was booked.  A form
is checked against the questions and stored later; `stored.demanded` is what was
required when it was checked.  A blank option of a select counts as an option, as in
the code, although nobody can answer a required question with it.

### 2.11 Connections

One host with two accounts of one provider or of two.  A CalDAV account goes by its
user name alone, so it can be connected at one site and then at another: `saved` keeps the
calendars of both, the row has the password of the last.  A picker may save any
calendars for an account, and any number of destinations (`Bodies`), for its body is not
checked.  `Authenticate` notes when a password is sent to a server that it is not for, in an
operation on an event or in CalDAV's free/busy.  An operation on a calendar is
four steps: load a row, resolve the calendar (each provider in its own way:
`httpClient`, `loadConn`, `destinationCalendarID`), write the token back (`Token`,
which the code does on first use, refreshed or not), call the provider.  The host's
requests fall in between, and the picker's check and its transaction are two steps.
Calendars are paths, so that CalDAV's rule (the account whose collection contains the
event, the recorded or the deepest one, and nobody on a tie) is `IsPrefix`.  The
providers' answers are external: Google asks in the recorded calendar of an account,
Microsoft in the whole account, CalDAV at the event's URL; a call may fail before or
after it took effect, and a CalDAV server may answer 404, which the code takes for done,
to an account that has no access to the calendar.  `check_conflicts`, which the code never changes, events from
before the provider was recorded and the Google accounts whose email could not be
read are left out.

### 2.12 KeyVault

Two processes on one database, from the choice of the platform secret to the rows of
`crypto_keystore`, statement by statement: key file (absent, created and empty,
written), primary row, recovery row.  A process may stop at any step; a write of the
file may fail, and then removes it.  The operator puts any secret into the
environment, or none, and runs rotate-key and recover-key.  Wrapping is a pair that
only the same secret opens.

## 3. Runs

TLC explores each instance completely.  Deadlock is not checked where the system
may stop for good (all ids used, all bookings settled); `CalendarSync` always has
its reconciler and is checked for deadlock.

| Run | Instance | Shows |
|---|---|---|
| `ledger` | 2 bookings by 2 addresses, 3 hosts (two share a calendar), a one-host and a rotating event type, 2 start times, a throttle of 1 in an "hour" of 4 half seconds, which the clock passes | the ledger keeps its promises under every interleaving when starts are whole seconds, and implements `HostAgenda` |
| `ledger_fraction` | start times 1 and 2, one of them with a fraction | NoDoubleBooking **violated**: the text comparison misses an overlap |
| `payments` | 2 bookings, every fault | money and column agree, a pending hold always ends |
| `payments_late_charge` | 1 booking, no fault | CancelledIsRefunded **violated**: a booking cancelled during Checkout can still be paid for |
| `payments_refund_error` | 1 booking, a failing refund | RefundNotLost **violated**: a failed refund has no second try |
| `queue` | 1 job, 2 workers, 2 attempts, 2 faults: crashes, failing statements, slow endpoints | the claim is exclusive while processing ends within the lock, the limit is exceeded by at most one run per further worker, every job ends |
| `public` | Idempotency: 3 requests, two with one body (priced), one with another (free), crash and disconnect. Slots: 2 hosts in different zones, one of which changes, 2 dates of 6 units, four routing profiles | the key does what it is for; listing and booking agree |
| `meetings` | Questions: 1 question, 2 overlapping updates. Followups: 2 reschedules, one by link, one of 6 kinds of trouble. Invitations: a reschedule, a reassignment, a cancel, 2 answers, one kind of slip. Recording: 2 egresses, 2 callers, one of 8 faults. Notetaker: 2 recordings, one failure or crash | what hangs on a booking follows it |
| `calendar` | "overlap": 1 host, a mover, failing calls. "faults": 2 hosts, one with a calendar, a reassigner, priced and free, one crash or lost answer | one event at most, findable, gone after a cancel; the host gets an event in the end |
| `calendar_drift` | 1 host, a mover, overlap | DriftHealed **violated**: a reschedule that overtakes the create is never written to the calendar |
| `calendar_unpaid` | priced, no fault | NoEventUnpaid **violated**: the reconciler puts an unpaid hold on the calendar |
| `members` | Members: 2 accounts, 1 invite, 2 requests. Sessions: 2 cookies, 1 link, 2 requests, 2 passwords. Agents: 2 grants, 2 exchanges, 1 refresh. EventTypes: 2 types, 2 slugs, an editor, a visitor. Connections: 5 pairs of accounts, one of which has two sites, 4 bodies for the picker, 5 requests. KeyVault: 2 processes, 3 starts, 1 edit | what members and operators administer keeps its promises |

`PROJECT.json` lists the properties of each run; each is stated in words above its
definition.  In the runs that hold several components, one property per component
is the conjunction of those that its module states:

| Run | Property | Is the conjunction of |
|---|---|---|
| `public` | `PageAgreesWithBooking` | `OfferedIsBookable`, `NothingWithheld`, `TakenMeansTaken`, `BlockedDateIsClosed` of `Slots` |
| `meetings` | `FormIsSound` | `ConsentOnRecord`, `FormCanBeFilled` of `Questions` |
| | `BookerIsKeptInformed` | `ReminderFollows`, `BookerHoldsLink`, `OldLinksDie`, `ChangesAreKnown` of `Followups` |
| | `CalendarsAgree` | `OneOrganizer`, `InvitesMayCross`, `RsvpIsLatest` of `Invitations` |
| | `RecordingsAreInHand` | `CanBeStopped`, `FilesAreListed`, `BannerWhileRecording` of `Recording` |
| | `NotesMatchRecordings` | `OneTranscript`, `NotesCoverTranscripts`, `NothingLeft` of `Notetaker` |
| `members` | `SignInIsSound` | `LinkOpensOne`, `NewPasswordSignsOut` of `Sessions` |
| | `ConnectionsAsGranted` | `ClientCanRefresh`, `StaysRevoked` (an action) of `Agents` |
| | `LinksHold` | `LinksHold` of `EventTypes` |
| | `AccountsInOrder` | `OneDestination`, `PickInDestination`, `AsTheHostLeftIt`, `CalendarOfAccount`, `ReportedDoneIsDone`, `CredentialsStayHome` of `Connections` |
| | `DataStaysReadable` | `DataReadable`, `SecretKept`, `RecoveryOpens` of `KeyVault` |

Each conjunct has a slip of its own that breaks it.

Why the bounds are enough to be interesting: two bookings are what it takes for a
reschedule or a reassign to run into another's slot, and for an address to meet its
limit with a cancelled booking (three bookings and a later horizon were checked without
the half-second clock; the proofs cover every number); two attempts and two faults let a job be cut short, retried and cut short
on its last attempt; two workers can select one job before either claims it;
three requests are an original, a retry and a misuse of the key; two or three
events let the provider hold one more than it should, and `Fresh # {}` bounds
their number.  Two reschedules are an earlier and a later one, either of which may
be overtaken; two recordings are one that ends and one that runs; two cookies are
the caller's session and another; five requests are two connects, a create, a move
of the destination or a disconnect, and an update or a cancel; three starts are two
first boots at once and one that finds what they left, and an edit is a rotation or a
wrong environment.  The instances of `public`, `meetings` and `members` are small
because every safety property of these runs is proved for instances of any size
(section 5); in particular one failure per behaviour of `meetings` shows which exceptions
each failure needs, and the proofs allow any number of them.
`MaxFaults`, `Horizon`, `MaxRequests`,
`MaxStarts`, `MaxEdits`, `MaxClock`, `MaxReplies`, `MaxTroubles`, `MaxSlips`, `MaxFailures`, `MaxRefresh`,
`MaxPasswords`, `MaxOverrides` and the sets of ids are the bounds, each a constant.
`ledger` uses symmetry over bookings; `meetings` and `members` use it over what their parts do
not tell apart, with one set of model values for the overlapping requests, updates, callers,
event types, processes and recordings to be transcribed, one for cookies, grants and
slugs, and one for egresses.  No `CHOOSE` takes one of them, and no liveness is checked where there is symmetry.

`members` has two accounts, since a founder and one other can take both ends of a
transfer, a demotion and a removal; it was also checked with three accounts, two
invites and one request, and the proofs cover every size.  `AttemptsBounded` was
also checked with three attempts and with three workers; its bound is tight for two
workers.

### 3.1 Fairness

* Payments: handlers and goroutines run until they return, the worker polls, time
  passes.  Nothing obliges a booker to pay or Stripe to deliver: `HoldResolved`
  rests on the worker alone.
* JobQueue: a worker goes on with its poll, due times and locks pass.  A crash or
  a failing statement is never required and bounded by `MaxFaults`.
* Idempotency: a handler runs until it returns; the worker purges.
* CalendarSync: goroutines run until they return or their 30-second context ends
  (a call succeeds or fails), the reconciler sweeps for ever, the grace period
  ends.  Strong fairness of the reconciler's calls says that a provider is not out
  of order for ever, which is what "heal on a later sweep" presupposes.

The other components are checked for safety only, without fairness: what they leave
to a goroutine has no retry that could make it happen in the end.

None of the specifications assumes that an operator, a visitor or an admin acts.

## 4. Findings

Five runs end in a counterexample to what a comment or a document of the
repository says; `PROJECT.json` quotes the line.

1. **A fraction of a second defeats the overlap check** (`ledger_fraction`).
   Comments call booking times slot-aligned, but the API accepts any RFC3339 start.
   `NeverTextDoubleBooked` shows that this is the only gap: in the order the guard
   uses, there is no overlap at all.
2. **A booking cancelled while its Checkout is open is charged and kept**
   (`payments_late_charge`).
3. **A failed refund is not tried again** (`payments_refund_error`): the claim is
   reverted for "a later cancel", which the ledger refuses.
4. **A reschedule that overtakes the calendar create is lost** (`calendar_drift`).
5. **An unpaid hold appears on the calendar** (`calendar_unpaid`), after five of the
   31 minutes its Checkout is open.

Other behaviours of the models that a maintainer should know, for which no run is
kept:

* A connection that drops during the checkout leaves a confirmed row with
  `payment_status` "none", which neither the expiry event nor the sweep matches:
  the slot stays taken.  With an idempotency key, the key is released all the same
  (its release uses `context.Background()`), so a retry books again if another
  host is free.
* A crash between the UPDATE to "paid" and the confirmation's goroutine loses the
  confirmation; Stripe's redelivery finds nothing pending.
* A crash during a delivery's last attempt makes the reaper fail the job without
  its delivery, which then stays "pending".
* A client who goes before `finishIdempotencyKey` leaves the key "in flight" until
  the 24-hour purge.
* The cap on an invitee's active bookings is enforced by Create only; an ended
  booking can be rescheduled into the future past the cap.
* The hourly throttle compares `created_at` with its cutoff as text
  (`booking/service.go:146`), where a fraction sorts before its whole second: for a second
  at the edge of the hour a booking may go uncounted.  `HourlyThrottle` speaks of the
  hour without that second.
* A booking created between `DeleteUser`'s counts and its DELETE loses the member's
  guest seat by cascade.
* After a reassign, and after a payment made more than five minutes into the hold,
  the reconciler may create the event that a goroutine is creating too, since the
  grace period counts from the booking's creation.
* A reassign to the present host deletes the event and creates it again while the
  seat keeps the old id; if the create fails, the seat names a deleted event, and
  no pass of the reconciler looks for that.
* `TransferOwnership` decides by the tier `RequireAuth` read before its transaction,
  and the other handlers by a read before their write.  A transfer that overlaps
  another request can leave two owners (two transfers), none (a removal of the new
  owner), an owner who is not an admin (a demotion) or nobody who can sign in,
  while a comment (`handler/roles.go:73`) says "Exactly one owner exists at all
  times".  `OneOwner` and `NotLockedOut` except just that case (`raced`).
* `Claim` makes an admin without the owner tier, so a workspace founded through the
  web form has no owner, and nobody can change roles in it; `Setup` makes one.
* Ownership can be transferred to an archived account, and then nobody who can sign
  in has the owner tier; admins stay (`NotLockedOut`).
* Slots: a slot that lies over two windows that touch is offered (the listing merges
  them, `slots/intervals.go:22-30`) and refused (the booking wants one window,
  `booking_handler.go:467`): `Straddles`.  With several required hosts, the fixed
  mode gates the listing on the first one only.  `UpdateAvailabilityOverride` writes
  back columns it read before, so an update between is lost.  Free/busy is read for the
  dates asked for (`Requested`), so an appointment just outside them is seen by the
  booking and not by the listing.  Hours that begin in what a host's clock skips at
  midnight open the date before, also if that one is blocked.  Where the leading host's
  zone changes, the grid shifts inside the windows of the other hosts, and a time may be
  greyed out although nobody is busy.
* Followups: a reminder that runs during a reschedule keeps the new one from being
  enqueued (INSERT OR IGNORE under the index on live jobs); a reschedule goroutine
  that another has overtaken leaves the reminder at the older time; a confirmation
  whose link is issued after the rotation leaves a second link valid; with reschedule
  mails turned off, the link is rotated and the new one is never mailed; a crash or a
  failing load loses the rest of a goroutine.  The calendar, mails, webhook and reminders
  of a reschedule share one 30-second context (`manage_handler.go:290`), and those of a
  cancel another (`booking_handler.go:1830`): a stalled mail loses the announcement and
  leaves the old reminder, which then goes out at the old time.  The comment at
  `booking_handler.go:1367-1371` tells that just this starvation was removed; it was, for
  a create only.
* Invitations: a reassignment's SEQUENCE is the second in which it is sent, with the
  start it read when it committed (`reassign.go:205-213`), so it supersedes a later
  change; answers that cross are recorded in the order of arrival, and one that
  arrives while tracking is off is refused.  Two changes of one second get one SEQUENCE,
  so that the older mail may win; a mail whose `bookingInviteOrganizer` cannot read or
  write the row goes out under another organizer (`invite_delivery.go:126-130,146-150`).
* Recording: two starts that overlap leave two egresses, of which a stop ends one
  while it completes every active row; deleting before the upload ended leaves an
  orphan file; the late end of an earlier recording puts the banner of a later one
  out; the end of an egress that failed before its INSERT leaves an active row.  A room
  can record without telling so: the banner's update may be refused, which is only logged
  (`livekit_room.go:201`), or be overwritten by the screen-share toggle, which writes back
  metadata that it read before; an egress whose answer or INSERT was lost, or that was
  saved by a process that stopped, runs with no row to stop it by.
* Notetaker: migration 00045 speaks of one transcript per recording, but no index
  says so, and a crash between the INSERT and the end of the job makes a second; a
  slow regeneration overwrites newer notes; a job in hand writes back what a deletion
  removed; deleting one recording deletes the booking's notes.  A failure to queue the
  summary is logged and the transcription's job ends done (`notetaker.go:146-148`), so
  that transcript waits for the next one or an admin; the errors of the two DELETEs of
  `deleteRecordingArtifacts` are ignored (`livekit_recording.go:448-450`), so words of a
  deleted recording may stay; and a recording whose row cannot be read counts as having
  nothing to transcribe (`notetaker.go:119` looks at `object_key` before the error).
* Sessions and Agents: a request cut short between the UPDATE of a password and the
  DELETE of the sessions leaves them, and so does `reset-admin`; a password change by API
  key that carries a cookie spares that cookie's session (`email_auth.go:141-147`), though
  the comments at `email_auth.go:136-138` and `session.go:122-131` know no session to keep
  for such a request; two exchanges that
  overlap may both find one code; a refresh answers with tokens even when its row is
  gone (they do not work).
* EventTypes and Questions: a rename counts bookings before its UPDATE, so a booking
  in between loses its link; removing a member may leave a type without a host; a
  PATCH can re-open an archived type; `UpdateQuestion` loses the field that another
  update wrote in between; a select with the one option "" is accepted
  (`question_handler.go:151,287`), and if it is required, nobody can book.
* Connections: once the destination has moved, Google and Microsoft events are looked
  for in the new account, a cancel may report success, and the event stays (comments
  in `gcal/events.go` know this); a token that is saved late brings back a
  disconnected account or its old tokens; `gcal.httpClient` stores the picked
  calendar in the row, contrary to its comment; `created_at` is rewritten by every
  save, so the "oldest" account is the least recently used one; the picker's check
  outside its transaction can leave a host without a destination.  A CalDAV account is
  keyed by its user name (`caldav/discovery.go:57`), and the calendars of a connect at one
  server stay through a connect at another (`discovery.go:148-152`): free/busy, creates,
  updates and cancels then send the new password to the old server
  (`caldav.go:175-180,213-225`, `caldav/events.go:163-179`).  The body of the picker is
  stored as it comes, calendars of other accounts and several destinations included,
  while a comment in `calendar/calselect.go` says "At most one calendar".
* KeyVault: two first boots at once both store a data key, ON CONFLICT DO UPDATE keeps
  the second, and what the first process encrypted is lost, although `keyvault.go`
  calls the key "generated once on first boot"; a legacy deployment that is started
  without its raw key adopts a new one, and `hasEncryptedData`, which is to prevent
  that, ignores errors and looks at four columns; a key file may be withdrawn after
  another process read it; a stop between the two rows leaves no recovery row, and no
  later boot adds one.

## 5. Proofs

TLAPS proves the following for every value of the constants that satisfies the
named assumptions.

**`BookingsProofs`** (assumptions: `Config` is well formed, `SharedCalendar` is a
relation on hosts).
* `TypeCorrect`.
* `NeverTextDoubleBooked`: two active bookings of hosts who exclude each other never
  overlap in text order.  The invariant is inductive together with the type
  invariant, because every action that adds a host to a time or a time to a host
  passes through `hostBusy`; the proof treats Create, Reschedule and ReassignHost,
  and shows that the others only remove.
* `NeverDoubleBooked`: with whole-second starts and durations, text order is the
  order of time (lemma), so `NoDoubleBooking` holds.
* `PrimarySeatMirrorsHost`: needs that a member is not deleted while `host_id` names
  them, which is a foreign key in the code and a guard in the model.
* `CancelSucceedsOnce`: strengthened by "a booking has a winner only if it is
  cancelled".
* `LedgerImplementsAgenda`: every action of the ledger is a `Hold`, a `Release`, a
  `Leave` or a stutter of `HostAgenda`.  That the slot of a `Hold` meets no other is
  where `NeverTextDoubleBooked` is used; `DeleteUserExec` is a `Leave`, because the
  member may still sit in bookings of others.
* `ThrottleHolds`: only Create adds to a window of an hour, and it counts before it
  inserts; what the window holds, Create's comparison of texts counts as well (lemma
  `WindowCounted`), because the window leaves out the second that may be misplaced; the
  clock only moves bookings out of the window, and no other action changes who made a
  booking or when.

**`PaymentsProofs`** (no assumption beyond `Faults`).  `TypeCorrect`;
`BooksAlwaysMatch`, with an invariant that ties each place of the refund goroutine to
what it has done; `ConfirmedAtMostOnce`, with the invariant that an unsent
confirmation is one whose row has just been marked paid; `PaidSlotAlwaysKept`, an
action property.  They hold under every combination of faults.

**`JobQueueProofs`** (assumption: finitely many workers).  `TypeCorrect`;
`NeverTwoRunners`, with the invariant that the row of a job in hand is running under a
lock that holds, except in the last step of a job that failed; `DoneIsDelivered`, with
the invariant that a worker about to report success has delivered.  `RunsAreBounded` is
a counting argument: a job at its limit has a *credit*, one for being pending and one
for each worker that selected it with a smaller count, and attempts plus credit stay
below the bound.  The credit is given when the limit is reached, and then at least one
worker (the one that made the job pending) is not among them.

**`PublicProofs`, keys.**  `TypeCorrect`; `NeverDuplicated`, for any number of requests,
if nothing is priced or "drop" does not happen: the row must name the only request
that may book, and a request that gives the key back must hold no booking;
`AlwaysToldTheTruth`, under every fault.

**`PublicProofs`, slots** (assumptions, in `Slots`: sizes are positive or natural numbers
as `generate` demands of the duration and the interval; no zone is more than a day from
UTC and no clock is moved by more than a day; the inputs are what the handlers parse, in
finite sets).  `PageAgrees` is about every number of hosts and every setting.
* `SlotsType` is the inductive invariant: the tables hold rows of known hosts, hours of
  an available override parse, a half-made edit carries what it read, and meetings end
  after they start.  Everything else the page shows is computed from the tables, so the
  rest of the argument is about that computation in an arbitrary state of this type.
* The loops of `mergeIntervals` and `subtract` run over data.  The induction theorems of
  the library take an operator, which the provers cannot instantiate; `Induction` is
  stated for a set instead (one that has 0 and every successor of its members), proved
  from `WFMin` and `NatLessThanWellFounded`, and applied to the set of counters at which
  a loop invariant holds.  The invariants are
  `Merged` (what has been merged covers the intervals read so far and no other instant)
  and `Left` (no piece meets a busy time cut so far, and no free piece was lost).  That a
  finite set can be sorted (`Sorts`), so that `byStart` is defined, and that the sets in
  between are finite is proved the same way.  The results are `MergeKeepsTime` and
  `SubtractIsDifference`, which hold for every input.
* The free times of a host are then decided instant by instant: a slot lies in a window
  and meets no busy time with its buffers exactly if the booking's own checks pass, and
  the events of the host's own bookings drop out of free/busy on both sides.
* What is left is arithmetic.  Local dates partition the instants that the request can
  reach, the dates that the booking looks at contain the date of the window, and with one
  grid the starts counted from any free piece are those on the grid (`OneGrid`); routing
  is compared by cases of the mode.

**`MembersProofs`** (assumption: `Nobody` is no account).  `TypeCorrect`;
`ExactlyOneOwner`; `NeverLockedOut`; `InvitesAreSingleUse`.  The first two follow from
one invariant about requests in flight: what a request read about the owner is still
true (`Fresh`), only the owner's requests change roles (`ByOwner`), and while no owner
can sign in, no admin is the target of a demotion, an archiving or a removal
(`AdminShape`), which is needed because ownership may go to an archived account.

**`CalendarSyncProofs`.**  `TypeCorrect`, under every fault.  `NeverTwoEvents` and
`NeverAnOrphan` hold for any number of reschedules, for overlapping operations and for
a provider that refuses calls (`Undisturbed`).  The invariant says who knows the event
at each moment: its creator until it is recorded, then the seat (`Known`); that the
grace period keeps the reconciler's create apart from the inline one (`Graced`); and
that a job which deletes has the event of the seat, of a booking that will not get
another (`Deleting`).  Each hypothesis is needed: without any one of them TLC finds
an orphan, and without any but the unreachable account two events.  A crash or a lost
answer between the provider's create and the UPDATE leaves an event that nobody
knows; an unreachable account makes the reconciler forget an event that lives; the late
confirmation of a priced booking is not covered by the grace period; a reassign
moves the seat while another job holds the old one.

**`AccountsProofs`** (assumptions, in `Accounts`: no link is called like the absent one;
host lists give known roles; an account's calendars are non-empty paths and its home is
one of them; secrets are not the two numbers that stand for none and for an empty
file).  One inductive invariant per part, so that the steps of the others are stutters:
* `SignInHolds`: a consumed link is with one request or has opened its session
  (`LinksSpent`), and a session that a new password should end is still to be ended by a
  request *that does not spare it* (`DoomPending`); with two password changes under way,
  each spares its own session and ends the other's.
* `GrantsHold`, an action property: a refresh under way has a connection that was there
  once, and no step brings a revoked row back.
* `LinksLast`: a type with bookings is there, and unless requests crossed, no rename of
  such a type is about to be saved (`Pinned`).
* `AccountsKept`: the order by `created_at` lists exactly the connected accounts
  (`Ordered`), so that there is one to promote; an account that is known at one site, and
  only by calendars of its own, has them where it is connected (`AtHome`); what an
  operation has read is of its own account, whatever happened to that account since
  (`InHand`); and an event is filed under the provider that holds it (`Filed`).  The
  others, for which the code gives no such guarantee, are the accounts in `strayed`, and
  `spilled` those whose password went to a server that it is not for.
* `DataLasts`: one process at most makes the key file, and the file shows how far it got;
  whoever has settled on a secret has one of the operator or the file's (`FileInv`); all
  who run have the keystore's key unless two first boots raced (`KeyInv`); and before
  there is a keystore, a process about to make it has the key of the data (`DataInv`).

**`MeetingsProofs`** (assumptions, in `Meetings`: a reschedule or reassignment is called
like no other change, and the job of the summary like no recording).  Again one inductive
invariant per part:
* `FormsSound`: a PATCH that waits to be written is as well formed as a row (`Asking`), so
  that the order of overlapping PATCHes does not matter; a form that was checked and waits
  to be stored holds what was demanded of it (`Answering`), whatever becomes of the
  questions meanwhile.
* `BookerInformed`: the goroutine of the change that gave the booking its time has begun,
  and each goroutine knows its own time (`Begun`).  The reminder is right once that
  goroutine has come to it, and before the confirmation has, there is none (`Reminded`);
  every link that works was mailed or is in the hands of the goroutine that is about to
  mail it (`Linked`); the confirmation's link outlives a reschedule only until it rotates
  (`Rotated`); who is past an announcement has made it (`Announced`).  Where a
  part fails for a goroutine whose 30 seconds ran out, it names those (`spent`,
  `InTime`); what else went wrong, a crash or a failing step, is in `mishaps`, and each
  part holds as long as none of the kinds that it lists happened (`Spared`).
* `InvitesAgree`: a mail that is about to go has the booking's organizer, which nothing
  changes once it is set (`Organized`); changes are numbered in their order (`Ordered`),
  and unless two fell into one second, the latest made the booking what it is
  (`Numbered`); before the latest mail has gone the
  calendar has no later number, and afterwards none that an older mail could beat
  (`Arrived`), but for a reassignment's, which is numbered when it is sent; the latest
  answer is on the booking, in Resend's queue or in hand (`Underway`).
* `RecordingsKept`: a request between two of its steps holds the egress that it started or
  found (`Busied`); an egress has its row or a request that is about to write it, and a row
  goes after its file (`Filed`).  As long as no start crossed another start or a stop, one
  recording is active at a time, a start finds nothing that runs, and a stop has the one
  that is active (`Alone`); what runs is shown, or about to be, unless LiveKit refused the
  banner or older metadata was written over it (`Shown`, `dimmed`).  An egress whose row
  or stop was lost is in `strayed`, and the rest is proved of the others (`Loose`).
* `NotesFollow`: the job that runs is the one in the worker's hand (`Working`); a
  transcription that is still to run has not run before, unless it was repeated (`Once`);
  what a deletion has passed is gone and nothing in hand can bring it back, unless a DELETE
  failed or the deletion met work under way (`Erased`); and
  while a transcript is missing in finished notes, its own job or a summary is due
  (`Covered`), unless an enqueue or a write of the notes failed without any job noticing
  (`Unnoticed`).

Some definitions were changed in the course of the proofs.  `PassAfter` in
`CalendarSync` had overlapping guards in a CASE, which leaves open which branch is meant
where TLC takes the first; they are disjoint now.  The rows of a host without one
account are written with `RemoveAt` (`Without` in `Connections`), because the provers
know nothing about `SelectSeq`.  In `Slots`, the proof of `PageAgrees` failed for good
reasons: `alignUp` now counts on the host's clock and does not fall back at a change of
the clocks, a date begins where the clock first shows it, and the exceptions `OneGrid`
and `HoursSkipped` are named in the properties that do not hold without them.

**Only model-checked**: liveness, since fairness and ENABLED are outside the proof
system.  Every invariant and every action property of the runs is stated by a theorem.

## 6. Not modelled

* Authorization outside `Members`: an action may be taken by whoever the code lets
  take it.
* Mail (formatting, SMTP), webhook payloads and their settings, languages, branding,
  page rendering, the frontend: presentation and I/O, no property is about them.
* The HTTP server, its middleware and configuration: routing and rate limits; the one
  database connection is an assumption of every module.
* The MCP tools and the booking assistant: entry points that call what `Bookings`
  models.
* The providers' wire formats, the contents of free/busy answers, WebDAV discovery and
  Zoom links: `Connections` and `CalendarSync` have their effect on an event.
* Rules that are limited to one event type, tokens for a meeting room.
* `PROJECT.json` lists every component with its status.

## 7. Plan

Order of work, the most important behaviour first; all of it is done.

1. `Bookings`, `HostAgenda` — the ledger and its promise; theorems.
2. `Payments` — theorems.
3. `JobQueue`.
4. `Idempotency` — theorems.
5. `CalendarSync`.
6. `Members` — theorems.
7. `Followups`, `Invitations` — what a change owes the booker.
8. `Slots` — the listing against what a booking accepts.
9. `Sessions`, `Agents`, `EventTypes`, `Questions`.
10. `Recording`, `Notetaker`.
11. `Connections`, `KeyVault`.
12. Proofs: `JobQueueProofs`, the refinement of `HostAgenda` and the throttle,
    `CalendarSyncProofs`, `AccountsProofs`.
13. Proofs about what hangs on a booking: Questions, Followups, Invitations, Recording
    and Notetaker, composed in `Meetings`: `MeetingsProofs`.
14. The slot listing against what a booking accepts, for every instance: `PublicProofs`.
