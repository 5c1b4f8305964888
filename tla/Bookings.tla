------------------------------ MODULE Bookings ------------------------------
(***************************************************************************)
(* The booking ledger of Calnode: internal/booking/service.go with the     *)
(* handler steps that decide its inputs (host pool, requested time) and    *)
(* the member removal of internal/handler/users.go, which takes seats      *)
(* away.                                                                   *)
(*                                                                         *)
(* The pool has one connection (internal/db/db.go), so a statement, or a   *)
(* transaction, is one step.  What the code does in several statements     *)
(* outside a transaction (CancelByToken, DeleteUser) is several actions.   *)
(*                                                                         *)
(* Instants are counted in half seconds: an even instant is a whole        *)
(* second, an odd one has a fraction.  The database compares the RFC3339   *)
(* TEXT of two instants, where a fraction sorts before the whole second it *)
(* follows ('.' < 'Z').  Two fractions of one second may also be swapped   *)
(* (trailing zeros are trimmed), so text order errs within one second and  *)
(* never across two.  The two clock reads of one Create, made while its    *)
(* transaction holds the connection, are one instant.                      *)
(*                                                                         *)
(* The calendar columns of booking_hosts (external_event_id, needs_sync)   *)
(* and the payment columns of bookings are not part of this module.        *)
(***************************************************************************)
EXTENDS Integers, FiniteSets

CONSTANTS
    Booking,         \* booking ids that can be inserted
    Host,            \* workspace members
    Invitee,         \* booker email addresses, normalised
    EventType,       \* event types
    Config,          \* what an operator configured for each event type
    SharedCalendar,  \* <<h, k>>: h conflict-checks the calendar k books into
    Instant,         \* start times a booker may ask for
    Request,         \* concurrent HTTP requests that span several statements
    MaxBookingsPerHour,
    Hour,            \* length of the throttle's window
    Horizon          \* the clock's bound

Role == {"none", "required", "rotation", "optional"}

EventTypeConfig ==
    [mode: {"fixed", "round_robin"}, strategy: {"priority", "even"},
     role: [Host -> Role], rank: [Host -> Nat],
     duration: Nat, maxActive: Nat]

ASSUME ConfigAssumption ==
    /\ Config \in [EventType -> EventTypeConfig]
    /\ \A t \in EventType : Config[t].duration > 0

ASSUME TimeAssumption ==
    /\ Instant \subseteq Nat
    /\ Hour \in Nat /\ Horizon \in Nat /\ MaxBookingsPerHour \in Nat

ASSUME CalendarAssumption == SharedCalendar \subseteq Host \X Host

NoBooking == "no booking"

ASSUME IdAssumption == NoBooking \notin Booking

VARIABLES
    bookings,    \* the bookings table with its seats: a row for each inserted id
    users,       \* members whose users row exists
    cancelling,  \* the booking each in-flight CancelByToken has read as active
    deleting,    \* members whose DeleteUser guards have passed
    cancelled,   \* how many cancel calls reported success, by booking
    now

vars == <<bookings, users, cancelling, deleting, cancelled, now>>

Seat == {"none", "guest", "primary"}

Row == [status: {"confirmed", "cancelled"}, et: EventType, host: Host,
        seats: [Host -> Seat], start: Nat, end: Nat,
        invitee: Invitee, created: Nat]

-----------------------------------------------------------------------------
(* Reading the tables.                                                     *)

Inserted == DOMAIN bookings

Active(b) == bookings[b].status # "cancelled"

Seated(b) == {h \in Host : bookings[b].seats[h] # "none"}

\* Where an instant's RFC3339Nano text sorts among the texts of the others.
TextKey(t) == IF t % 2 = 0 THEN t + 1 ELSE t - 1

TextBefore(s, t) == TextKey(s) < TextKey(t)

\* SQL's test that [s1, e1) and [s2, e2) overlap.
TextOverlap(s1, e1, s2, e2) == TextBefore(s1, e2) /\ TextBefore(s2, e1)

\* h attends, or checks the calendar k attends from.
Blocks(h, k) == h = k \/ <<h, k>> \in SharedCalendar

\* Two hosts who are one, or who check each other's calendar.
Exclusive(h, k) == Blocks(h, k) /\ Blocks(k, h)

\* Slip: the overlap check looks at host_id and misses the other seats.
hostBusyByHostID(h, start, end, excluded) ==
    \E b \in Inserted \ excluded :
        /\ Active(b)
        /\ Blocks(h, bookings[b].host)
        /\ TextOverlap(bookings[b].start, bookings[b].end, start, end)

hostBusy(h, start, end, excluded) ==
    \E b \in Inserted \ excluded :
        /\ Active(b)
        /\ \E k \in Seated(b) : Blocks(h, k)
        /\ TextOverlap(bookings[b].start, bookings[b].end, start, end)

\* The partial unique index on (host_id, start_at): would a row collide?
IndexCollision(h, start, excluded) ==
    \E b \in Inserted \ excluded :
        Active(b) /\ bookings[b].host = h /\ bookings[b].start = start

Upcoming(b) == Active(b) /\ TextBefore(now, bookings[b].end)

\* Upcoming bookings of event type t that h attends.
Load(t, h) ==
    Cardinality({b \in Inserted : /\ Upcoming(b)
                                  /\ bookings[b].et = t
                                  /\ h \in Seated(b)})

ActiveOf(t, i) ==
    {b \in Inserted : /\ Upcoming(b)
                      /\ bookings[b].et = t
                      /\ bookings[b].invitee = i}

\* The bookings whose created_at sorts after the text of an hour ago.
RecentOf(i) ==
    {b \in Inserted : /\ bookings[b].invitee = i
                      /\ TextBefore(now - Hour, bookings[b].created)}

\* Slip: the throttle forgets cancelled bookings.
UnderHourlyCapActiveOnly(i) ==
    MaxBookingsPerHour > 0 =>
        Cardinality({b \in RecentOf(i) : Active(b)}) < MaxBookingsPerHour

\* The hourly throttle, if there is one, lets invitee i book once more.
UnderHourlyCap(i) ==
    MaxBookingsPerHour > 0 => Cardinality(RecentOf(i)) < MaxBookingsPerHour

-----------------------------------------------------------------------------
(* Choosing who attends.                                                   *)

\* The members with a role on event type t who still exist.
HostsWith(t, r) == {h \in users : Config[t].role[h] = r}

\* The first host of S in (priority, user id) order.
IsFirst(t, S, h) ==
    h \in S /\ \A k \in S : Config[t].rank[h] <= Config[t].rank[k]

\* "priority" takes the first free host, any other strategy the least loaded
\* one, the first of them on a tie.
pickRotationHost(t, free, h) ==
    IF Config[t].strategy = "priority"
    THEN IsFirst(t, free, h)
    ELSE IsFirst(t, {k \in free : \A l \in free : Load(t, k) <= Load(t, l)}, h)

FreeWith(t, r, start, end, avail) ==
    {h \in HostsWith(t, r) \cap avail : ~hostBusy(h, start, end, {})}

\* The required hosts of event type t attend, so all of them must be in avail
\* (within their hours, external calendar readable and free) and not busy.
\* Round-robin adds one free rotation host, who leads; otherwise the first
\* required host leads.
CanLead(t, start, end, avail, h) ==
    /\ HostsWith(t, "required") \subseteq FreeWith(t, "required", start, end, avail)
    /\ IF Config[t].mode = "round_robin"
       THEN pickRotationHost(t, FreeWith(t, "rotation", start, end, avail), h)
       ELSE IsFirst(t, HostsWith(t, "required"), h)

\* Everyone who gets a seat; an optional host joins only if free.
Assigned(t, start, end, avail, primary) ==
    HostsWith(t, "required") \cup {primary}
        \cup FreeWith(t, "optional", start, end, avail)

-----------------------------------------------------------------------------
Init ==
    /\ bookings = [b \in {} |-> {}]
    /\ users = Host
    /\ cancelling = [r \in Request |-> NoBooking]
    /\ deleting = {}
    /\ cancelled = [b \in Booking |-> 0]
    /\ now = 0

\* Service.Create behind CreateBooking / createBookingForSlug: the slot is not
\* in the past, the hosts are free, the invitee is under both caps, and the
\* booking and its seats are inserted together.
Create(b, t, i, start, avail) ==
    LET end == start + Config[t].duration
    IN  /\ b \notin Inserted
        /\ start >= now
        /\ \E primary \in users :
              /\ CanLead(t, start, end, avail, primary)
              /\ Config[t].maxActive > 0 =>
                    Cardinality(ActiveOf(t, i)) < Config[t].maxActive
              /\ UnderHourlyCap(i)
              /\ ~IndexCollision(primary, start, {})
              /\ bookings' =
                    [x \in Inserted \cup {b} |->
                        IF x = b
                        THEN [status |-> "confirmed", et |-> t, host |-> primary,
                              seats |-> [h \in Host |->
                                            IF h = primary THEN "primary"
                                            ELSE IF h \in Assigned(t, start, end, avail, primary)
                                                 THEN "guest"
                                            ELSE "none"],
                              start |-> start, end |-> end,
                              invitee |-> i, created |-> now]
                        ELSE bookings[x]]
        /\ UNCHANGED <<users, cancelling, deleting, cancelled, now>>

\* Slip: only the primary host is checked at the new time.
ReschedulePrimaryOnly(b, start) ==
    LET end == start + Config[bookings[b].et].duration
    IN  /\ Active(b)
        /\ start >= now
        /\ ~hostBusy(bookings[b].host, start, end, {b})
        /\ ~IndexCollision(bookings[b].host, start, {b})
        /\ bookings' = [bookings EXCEPT ![b].start = start, ![b].end = end]
        /\ UNCHANGED <<users, cancelling, deleting, cancelled, now>>

\* Service.Reschedule behind the host's, the booker's and the MCP route: every
\* seated host must be free at the new time.
Reschedule(b, start) ==
    LET end == start + Config[bookings[b].et].duration
    IN  /\ Active(b)
        /\ start >= now
        /\ \A h \in Seated(b) : ~hostBusy(h, start, end, {b})
        /\ ~IndexCollision(bookings[b].host, start, {b})
        /\ bookings' = [bookings EXCEPT ![b].start = start, ![b].end = end]
        /\ UNCHANGED <<users, cancelling, deleting, cancelled, now>>

\* Slip: host_id moves and the seat stays behind.
ReassignHostOnly(b, h) ==
    /\ Active(b)
    /\ h \in users
    /\ bookings[b].host # h
    /\ ~hostBusy(h, bookings[b].start, bookings[b].end, {b})
    /\ bookings[b].seats[h] # "guest"
    /\ ~IndexCollision(h, bookings[b].start, {b})
    /\ bookings' = [bookings EXCEPT ![b].host = h]
    /\ UNCHANGED <<users, cancelling, deleting, cancelled, now>>

\* Service.ReassignHost: host_id and the primary seat move together.
ReassignHost(b, h) ==
    /\ Active(b)
    /\ h \in users
    /\ bookings[b].host # h
    /\ ~hostBusy(h, bookings[b].start, bookings[b].end, {b})
    /\ bookings[b].seats[h] # "guest"
    /\ ~IndexCollision(h, bookings[b].start, {b})
    /\ bookings' =
          [bookings EXCEPT
              ![b].host = h,
              ![b].seats = [k \in Host |->
                               IF k = h THEN "primary"
                               ELSE IF @[k] = "primary" THEN "none"
                               ELSE @[k]]]
    /\ UNCHANGED <<users, cancelling, deleting, cancelled, now>>

\* Slip: a status outside the column's CHECK list.
MarkCanceled(b) ==
    /\ Active(b)
    /\ bookings' = [bookings EXCEPT ![b].status = "canceled"]
    /\ cancelled' = [cancelled EXCEPT ![b] = @ + 1]

\* The conditional UPDATE every cancel path ends in; a row count of one is
\* what the caller takes for success.
MarkCancelled(b) ==
    /\ Active(b)
    /\ bookings' = [bookings EXCEPT ![b].status = "cancelled"]
    /\ cancelled' = [cancelled EXCEPT ![b] = @ + 1]

\* Service.Cancel, called with the host's own id.
Cancel(h, b) ==
    /\ bookings[b].host = h
    /\ MarkCancelled(b)
    /\ UNCHANGED <<users, cancelling, deleting, now>>

\* Service.CancelByID, the admin's and the checkout's path.
CancelByID(b) ==
    /\ MarkCancelled(b)
    /\ UNCHANGED <<users, cancelling, deleting, now>>

\* Service.CancelByToken reads the booking and its status...
CancelByTokenCheck(r, b) ==
    /\ cancelling[r] = NoBooking
    /\ Active(b)
    /\ cancelling' = [cancelling EXCEPT ![r] = b]
    /\ UNCHANGED <<bookings, users, deleting, cancelled, now>>

\* Slip: the update trusts the status read before it.
CancelByTokenBlindUpdate(r) ==
    /\ cancelling[r] # NoBooking
    /\ bookings' = [bookings EXCEPT ![cancelling[r]].status = "cancelled"]
    /\ cancelled' = [cancelled EXCEPT ![cancelling[r]] = @ + 1]
    /\ cancelling' = [cancelling EXCEPT ![r] = NoBooking]
    /\ UNCHANGED <<users, deleting, now>>

\* ...and then updates it if it is still not cancelled; a caller that lost the
\* race gets ErrAlreadyCancelled and no side effects.
CancelByTokenUpdate(r) ==
    /\ cancelling[r] # NoBooking
    /\ \/ MarkCancelled(cancelling[r])
       \/ ~Active(cancelling[r]) /\ UNCHANGED <<bookings, cancelled>>
    /\ cancelling' = [cancelling EXCEPT ![r] = NoBooking]
    /\ UNCHANGED <<users, deleting, now>>

\* DeleteUser's two guards: the member attends nothing upcoming and leads
\* nothing at all.
DeleteUserCheck(h) ==
    /\ h \in users \ deleting
    /\ \A b \in Inserted : bookings[b].host # h
    /\ \A b \in Inserted : h \in Seated(b) => ~Upcoming(b)
    /\ deleting' = deleting \cup {h}
    /\ UNCHANGED <<bookings, users, cancelling, cancelled, now>>

\* DeleteUser's DELETE.  bookings.host_id has no ON DELETE action, so a booking
\* the member leads by now makes it fail; booking_hosts cascades.
DeleteUserExec(h) ==
    /\ h \in deleting
    /\ deleting' = deleting \ {h}
    /\ IF \A b \in Inserted : bookings[b].host # h
       THEN /\ users' = users \ {h}
            /\ bookings' = [b \in Inserted |->
                               [bookings[b] EXCEPT !.seats[h] = "none"]]
       ELSE UNCHANGED <<users, bookings>>
    /\ UNCHANGED <<cancelling, cancelled, now>>

\* time.Now() has fractions, and so have created_at and the throttle's cutoff.
Tick ==
    /\ now < Horizon
    /\ now' = now + 1
    /\ UNCHANGED <<bookings, users, cancelling, deleting, cancelled>>

Next ==
    \/ \E b \in Booking, t \in EventType, i \in Invitee, s \in Instant,
          avail \in SUBSET Host : Create(b, t, i, s, avail)
    \/ \E b \in Inserted, s \in Instant : Reschedule(b, s)
    \/ \E b \in Inserted, h \in Host : ReassignHost(b, h)
    \/ \E b \in Inserted, h \in Host : Cancel(h, b)
    \/ \E b \in Inserted : CancelByID(b)
    \/ \E r \in Request, b \in Inserted : CancelByTokenCheck(r, b)
    \/ \E r \in Request : CancelByTokenUpdate(r)
    \/ \E h \in Host : DeleteUserCheck(h)
    \/ \E h \in Host : DeleteUserExec(h)
    \/ Tick

Spec == Init /\ [][Next]_vars

-----------------------------------------------------------------------------
(* Properties.                                                             *)

\* Every table and every in-flight request holds values of its columns' types,
\* and a request only ever refers to a booking that was inserted.
TypeOK ==
    /\ Inserted \subseteq Booking
    /\ bookings \in [Inserted -> Row]
    /\ users \subseteq Host
    /\ cancelling \in [Request -> Inserted \cup {NoBooking}]
    /\ deleting \subseteq Host
    /\ cancelled \in [Booking -> Nat]
    /\ now \in Nat

\* The double-booking guard of Service.Create, Reschedule and ReassignHost, in
\* the order the database compares: two active bookings whose texts overlap
\* share no host, and no two hosts who check each other's calendar.
NoTextDoubleBooking ==
    \A b, c \in Inserted :
        /\ b # c /\ Active(b) /\ Active(c)
        /\ TextOverlap(bookings[b].start, bookings[b].end,
                       bookings[c].start, bookings[c].end)
        => \A h \in Seated(b), k \in Seated(c) : ~Exclusive(h, k)

\* The same promise in real time: no host attends two active bookings at one
\* moment.
NoDoubleBooking ==
    \A b, c \in Inserted :
        /\ b # c /\ Active(b) /\ Active(c)
        /\ bookings[b].start < bookings[c].end
        /\ bookings[c].start < bookings[b].end
        => \A h \in Seated(b), k \in Seated(c) : ~Exclusive(h, k)

\* The primary seat mirrors bookings.host_id, for active and for cancelled
\* bookings, and its member exists: hostBusy reads seats, ownership reads
\* host_id, and the two must not drift apart (Create, ReassignHost,
\* DeleteUser).
PrimarySeat ==
    \A b \in Inserted :
        /\ bookings[b].host \in users
        /\ {h \in Host : bookings[b].seats[h] = "primary"} = {bookings[b].host}

\* However many cancel calls race (host, admin, manage link), exactly one
\* reports success, so the cancellation's side effects (refund, emails,
\* calendar) are started once.
OneCancelWins ==
    \A b \in Booking :
        cancelled[b] = IF b \in Inserted /\ ~Active(b) THEN 1 ELSE 0

\* The bookings i made in the last hour less one second, in real time.
MadeWithinTheHour(i) ==
    {b \in Inserted : /\ bookings[b].invitee = i
                      /\ bookings[b].created >= now - Hour + 2}

\* One address books at most MaxBookingsPerHour times within an hour, whatever
\* it cancels or moves in between.  Service.Create counts in text order, which
\* can pass over a booking made in the very second an hour ago (a fraction
\* sorts before its whole second), so the real window is a second short of the
\* hour: the miscount never reaches further.
HourlyThrottle ==
    MaxBookingsPerHour > 0 =>
        \A i \in Invitee : Cardinality(MadeWithinTheHour(i)) <= MaxBookingsPerHour

\* The agenda entry of an active booking.
AgendaEntry(b) ==
    [who |-> Seated(b), start |-> bookings[b].start, end |-> bookings[b].end]

Agenda == INSTANCE HostAgenda WITH
    Slot     <- Booking,
    Person   <- Host,
    Overlap  <- TextOverlap,
    Clash    <- Exclusive,
    held     <- [b \in {c \in Inserted : Active(c)} |-> AgendaEntry(b)],
    released <- {b \in Inserted : ~Active(b)}

\* The ledger implements the agenda: each operation holds, moves, releases or
\* thins out slots without a clash, one slot at a time, and a cancelled booking
\* is never revived.
ImplementsAgenda == Agenda!Spec
=============================================================================
