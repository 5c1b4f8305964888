------------------------------- MODULE Slots -------------------------------
(***************************************************************************)
(* Which times a booking page offers, and which of them a booking would be *)
(* accepted at: internal/slots (the interval algorithm), computeSlots in   *)
(* internal/handler/slots_handler.go, the checks of CreateBooking in       *)
(* booking_handler.go and booking_calendar_check.go, and the handlers that *)
(* edit the weekly rules and the date overrides (availability.go,          *)
(* override.go).                                                           *)
(*                                                                         *)
(* Time is counted in units from an origin, Day units to a day; a local    *)
(* time of day is 0 .. Day - 1, or Bad for a text that is not HH:MM.  The  *)
(* zone of a host is an offset for each local date, so it may change at a  *)
(* local midnight.  The listing and the booking read the tables in one     *)
(* step: what they do when the tables change in between is the subject of  *)
(* Bookings, here both look at the same state.                             *)
(***************************************************************************)
EXTENDS Integers, FiniteSets, Sequences, SequencesExt

CONSTANTS
    Pool,          \* the event type's unarchived hosts, in priority order
    Profiles,      \* [mode, role, down]: the cases to look at
    Offset,        \* Offset[h][d]: the zone of a host on a local date
    Day,           \* units in a day
    DateFrom, DateTo,              \* the dates a booker asks for
    Duration, SlotInterval, BufferBefore, BufferAfter, MinNotice, MaxFuture,
    Clock,         \* the current instant
    RuleInputs,    \* weekly rules a host may post: [day, s, e]
    HourInputs,    \* custom hours a host may post: [s, e]
    OverrideDates, \* dates for which each host posts overrides
    MeetingInputs, \* intervals of each host that a booking may take
    ExternalInputs,\* intervals that other calendars of each host may be busy
    MaxOverrides   \* bound on the override rows ever inserted

Hosts == {Pool[i] : i \in DOMAIN Pool}

Bad == -1

TimeOfDay == 0 .. Day - 1

Interval == {iv \in [s: Int, e: Int] : iv.s < iv.e}

\* The local dates that the dates asked for and a step of the grid touch.
Dates == DateFrom - 3 .. DateTo + 3 + SlotInterval \div Day

ASSUME SlotsAssumption ==
    /\ {Day, Duration, SlotInterval} \subseteq Nat \ {0}
    /\ {BufferBefore, BufferAfter, MinNotice, MaxFuture} \subseteq Nat
    /\ {DateFrom, DateTo, Clock} \subseteq Int

\* No zone is more than a day from UTC, and no clock is moved by more than a day.
ASSUME ZoneAssumption ==
    /\ Pool \in Seq(Hosts)
    /\ Offset \in [Hosts -> [Dates -> -Day .. Day]]
    /\ \A h \in Hosts : \A d \in Dates :
          d + 1 \in Dates => Offset[h][d + 1] - Offset[h][d] \in -Day .. Day

ASSUME InputAssumption ==
    /\ Profiles \subseteq [mode: {"fixed", "round_robin", "collective"},
                           role: [Hosts -> {"required", "rotation", "optional"}],
                           down: SUBSET Hosts]
    /\ HourInputs \subseteq [s: TimeOfDay \cup {Bad}, e: TimeOfDay \cup {Bad}]
    /\ \A h \in Hosts :
          /\ RuleInputs[h] \subseteq [day: 0 .. 6, s: TimeOfDay \cup {Bad}, e: TimeOfDay \cup {Bad}]
          /\ OverrideDates[h] \subseteq Int
          /\ MeetingInputs[h] \subseteq Interval /\ ExternalInputs[h] \subseteq Interval
          /\ IsFiniteSet(RuleInputs[h]) /\ IsFiniteSet(ExternalInputs[h])

NoOverride == [user |-> "none"]

Idle == [op |-> "idle"]

VARIABLES
    profile,    \* the routing mode of the event type, the role of each host, and
                \* the hosts whose calendars cannot be read
    rules,      \* availability_rules of each host
    overrides,  \* availability_overrides: a row, or NoOverride once deleted, by id
    editing,    \* an override request between two of its statements
    meetings,   \* bookings of each host: [s, e, live, event]
    external    \* what else keeps each host's calendars busy

mode == profile.mode

RoleOf == profile.role

slotVars == <<profile, rules, overrides, editing, meetings, external>>

-----------------------------------------------------------------------------
(* internal/slots/intervals.go: half-open intervals [s, e).                *)

overlaps(a, b) == a.s < b.e /\ b.s < a.e

Within(iv, w) == w.s <= iv.s /\ iv.e <= w.e

\* sort.Slice: by start, in any order where starts are equal.
byStart(ivs) ==
    CHOOSE q \in [1 .. Cardinality(ivs) -> ivs] :
        /\ \A iv \in ivs : \E i \in DOMAIN q : q[i] = iv
        /\ \A i, j \in DOMAIN q : i < j => q[i].s <= q[j].s

absorb(merged, iv) ==
    IF merged # <<>> /\ iv.s <= merged[Len(merged)].e
    THEN IF iv.e > merged[Len(merged)].e
         THEN [merged EXCEPT ![Len(merged)] = [s |-> @.s, e |-> iv.e]] ELSE merged
    ELSE Append(merged, iv)

\* What has been merged after each of the sorted intervals.
Merging(sorted) ==
    LET merged[n \in 0 .. Len(sorted)] ==
            IF n = 0 THEN <<>> ELSE absorb(merged[n - 1], sorted[n])
    IN  merged

\* Sorted by start; touching and overlapping neighbours become one.
mergeIntervals(ivs) == Merging(byStart(ivs))[Cardinality(ivs)]

cutOut(window, busy) ==
    IF ~overlaps(window, busy) THEN {window}
    ELSE {iv \in {[s |-> window.s, e |-> busy.s]} : window.s < busy.s}
         \cup {iv \in {[s |-> busy.e, e |-> window.e]} : busy.e < window.e}

\* What is left of the windows after each of the busy intervals.
Cutting(windows, busy) ==
    LET remaining[n \in 0 .. Len(busy)] ==
            IF n = 0 THEN windows ELSE UNION {cutOut(r, busy[n]) : r \in remaining[n - 1]}
    IN  remaining

subtract(windows, busy) ==
    LET merged == mergeIntervals(busy)
    IN  Cutting(ToSet(mergeIntervals(windows)), merged)[Len(merged)]

expandBusy(busy, before, after) ==
    {[s |-> b.s - before, e |-> b.e + after] : b \in busy}

-----------------------------------------------------------------------------
(* internal/slots/availability.go: a host's windows on a local date.       *)

parseWallClock(h, d, hhmm) == d * Day + hhmm - Offset[h][d]

wallClockInterval(h, d, hours) ==
    [s |-> parseWallClock(h, d, hours.s), e |-> parseWallClock(h, d, hours.e)]

OverridesOn(h, d) ==
    {o \in ToSet(overrides) : o # NoOverride /\ o.user = h /\ o.date = d}

RulesOn(h, d) == {r \in rules[h] : r.day = d % 7}

\* A rule of that weekday whose text does not parse fails the whole request.
Unreadable(h, d) ==
    OverridesOn(h, d) = {} /\ \E r \in RulesOn(h, d) : Bad \in {r.s, r.e}

\* Slip: custom hours win over a block on the same date.
resolveDayCustomFirst(h, d) ==
    LET customs == {o \in OverridesOn(h, d) : o.avail}
        hours == IF OverridesOn(h, d) # {} THEN customs ELSE RulesOn(h, d)
    IN  {iv \in {wallClockInterval(h, d, x) : x \in hours} : iv.s < iv.e}

\* An override replaces the weekly rules; a blocking one closes the date.
resolveDay(h, d) ==
    LET blocked == \E o \in OverridesOn(h, d) : ~o.avail
        hours == IF OverridesOn(h, d) # {} THEN OverridesOn(h, d)
                                            ELSE RulesOn(h, d)
    IN  IF blocked THEN {}
        ELSE {iv \in {wallClockInterval(h, d, x) : x \in hours} : iv.s < iv.e}

-----------------------------------------------------------------------------
(* internal/slots/generate.go.                                             *)

\* computeSlots pools the hosts that gate the slots of the routing mode.
Pooled ==
    {h \in Hosts : RoleOf[h] = "required" \/ (mode = "round_robin" /\ RoleOf[h] = "rotation")}

\* The first of them in priority order leads.
Lead ==
    Pool[CHOOSE i \in DOMAIN Pool : Pool[i] \in Pooled /\ \A j \in 1 .. i - 1 : Pool[j] \notin Pooled]

\* The instant at which a local date begins.  Clocks that go forward at midnight skip the
\* first hours of the date, and clocks that go back repeat the last ones of the date before.
Midnight(h, d) ==
    d * Day - IF Offset[h][d - 1] < Offset[h][d] THEN Offset[h][d - 1] ELSE Offset[h][d]

LocalDate(h, t) ==
    CHOOSE d \in DateFrom - 2 .. DateTo + 2 : Midnight(h, d) <= t /\ t < Midnight(h, d + 1)

\* The time of day on a host's clock: one set back at midnight shows the last hours twice.
WallClock(h, t) ==
    LET d == LocalDate(h, t)
    IN  t - d * Day
        + IF t + Offset[h][d] < (d + 1) * Day THEN Offset[h][d] ELSE Offset[h][d + 1]

\* Up to the grid counted from local midnight on the leading host's clock, never back.
alignUp(t) ==
    LET wall == WallClock(Lead, t)
        next == (wall \div SlotInterval + 1) * SlotInterval
        out == parseWallClock(Lead, LocalDate(Lead, t) + next \div Day, next % Day)
        behind == IF out < t THEN (t - out + SlotInterval - 1) \div SlotInterval ELSE 0
    IN  IF wall % SlotInterval = 0 THEN t ELSE out + behind * SlotInterval

StartsIn(f) == {t \in alignUp(f.s) .. f.e - Duration :
                   (t - alignUp(f.s)) % SlotInterval = 0}

\* Live bookings, and free/busy without the events of the host's own bookings:
\* the database is the source of truth for those.
ownCalendarEvents(h) == {[s |-> m.s, e |-> m.e] : m \in {x \in meetings[h] : x.event}}

\* External: the provider answers with what overlaps the interval asked for, or
\* with an error.
Unread == profile.down

FreeBusy(h, window) ==
    {b \in external[h] \cup ownCalendarEvents(h) : overlaps(b, window)}

LiveBookings(h) == {[s |-> m.s, e |-> m.e] : m \in {x \in meetings[h] : x.live}}

Requested == [s |-> DateFrom * Day, e |-> (DateTo + 1) * Day]

\* Slip: a cancelled booking's event still counts.
hostBusyWithOwnEvents(h) ==
    LiveBookings(h) \cup FreeBusy(h, Requested)

\* A calendar that cannot be read counts as free here, and the answer as degraded.
hostBusy(h) ==
    LiveBookings(h)
    \cup IF h \in Unread THEN {} ELSE subtract(FreeBusy(h, Requested), ownCalendarEvents(h))

\* Slip: the buffers of the event type are left out.
FreeOnNoBuffer(h, d) == subtract(resolveDay(h, d), hostBusy(h))

FreeOn(h, d) ==
    subtract(resolveDay(h, d), expandBusy(hostBusy(h), BufferBefore, BufferAfter))

HostStarts(h, applyBusy) ==
    UNION {UNION {StartsIn(f) : f \in IF applyBusy THEN FreeOn(h, d) ELSE resolveDay(h, d)}
           : d \in DateFrom .. DateTo}

\* Slip: the pass without bookings forgets the notice.
hostsByStartNoNotice(applyBusy) ==
    [h \in Pooled |-> {t \in HostStarts(h, applyBusy) :
                          (applyBusy => Clock + MinNotice <= t) /\ t <= Clock + MaxFuture}]

\* The starts each host has free, from the notice to the last bookable instant.
hostsByStart(applyBusy) ==
    [h \in Pooled |-> {t \in HostStarts(h, applyBusy) :
                          Clock + MinNotice <= t /\ t <= Clock + MaxFuture}]

belowNotice ==
    [h \in Pooled |-> {t \in HostStarts(h, TRUE) : Clock <= t /\ t < Clock + MinNotice}]

pickHosts(free) ==
    LET required == {h \in Pooled : RoleOf[h] = "required"}
    IN  CASE mode = "collective"  -> Pooled # {} /\ Pooled \subseteq free
          [] mode = "round_robin" -> required \subseteq free /\ (Pooled \ required) \cap free # {}
          [] OTHER                -> Pooled # {} /\ Lead \in free

offer(starts) ==
    {t \in UNION {starts[h] : h \in Pooled} : pickHosts({h \in Pooled : t \in starts[h]})}

\* An unreadable rule of a pooled host answers the whole request with an error.
Fails == \E h \in Pooled, d \in DateFrom .. DateTo : Unreadable(h, d)

Degraded == Pooled \cap Unread # {}

Free == IF Fails THEN {} ELSE offer(hostsByStart(TRUE))

Taken == IF Fails THEN {} ELSE offer(hostsByStart(FALSE)) \ offer(hostsByStart(TRUE))

NoticeGap == IF Fails THEN {} ELSE offer(belowNotice)

-----------------------------------------------------------------------------
(* CreateBooking's own checks of a requested time.                         *)

Slot(t) == [s |-> t, e |-> t + Duration]

hostAvailableAt(h, t) ==
    LET d == t \div Day
    IN  \E x \in d - 1 .. d + 1 :
            /\ \A y \in d - 1 .. x : ~Unreadable(h, y)
            /\ \E w \in resolveDay(h, x) : Within(Slot(t), w)

\* Free/busy of the slot widened by the buffers, own events set aside; a host whose
\* calendar cannot be read is not booked (calendarFreeHosts fails closed).
calendarFreeAt(h, t) ==
    LET window == [s |-> t - BufferAfter, e |-> t + Duration + BufferBefore]
        busy == subtract(FreeBusy(h, window), ownCalendarEvents(h))
    IN  h \notin Unread /\ subtract({window}, busy) = {window}

\* The overlap guard of booking.Service.Create, which knows no buffers.
SeatFree(h, t) == \A b \in LiveBookings(h) : ~overlaps(b, Slot(t))

Candidates == {h \in Hosts : RoleOf[h] = IF mode = "round_robin" THEN "rotation" ELSE "required"}

Required == {h \in Hosts : mode = "round_robin" /\ RoleOf[h] = "required"}

Accepts(t) ==
    LET Ready(h) == hostAvailableAt(h, t) /\ calendarFreeAt(h, t) /\ SeatFree(h, t)
    IN  /\ Candidates # {}
        /\ Clock + MinNotice <= t /\ t <= Clock + MaxFuture
        /\ \A h \in Required : Ready(h)
        /\ IF mode = "round_robin" THEN \E h \in Candidates : Ready(h)
           ELSE \A h \in Candidates : Ready(h)

-----------------------------------------------------------------------------
(* The handlers that edit rules and overrides.                             *)

\* POST checks only that the two texts are there.
CreateAvailabilityRule(h, r) ==
    /\ r \notin rules[h]
    /\ rules' = [rules EXCEPT ![h] = @ \cup {r}]
    /\ UNCHANGED <<profile, overrides, editing, meetings, external>>

UpdateAvailabilityRule(h, old, r) ==
    /\ old \in rules[h] /\ r \notin rules[h]
    /\ Bad \notin {r.s, r.e} /\ r.s < r.e
    /\ rules' = [rules EXCEPT ![h] = (@ \ {old}) \cup {r}]
    /\ UNCHANGED <<profile, overrides, editing, meetings, external>>

DeleteAvailabilityRule(h, r) ==
    /\ r \in rules[h]
    /\ rules' = [rules EXCEPT ![h] = @ \ {r}]
    /\ UNCHANGED <<profile, overrides, editing, meetings, external>>

OverrideUnchanged == UNCHANGED <<profile, rules, meetings, external>>

RowIds(h, d) == {i \in DOMAIN overrides : overrides[i] \in OverridesOn(h, d)}

Without(ids) == [i \in DOMAIN overrides |-> IF i \in ids THEN NoOverride ELSE overrides[i]]

\* The partial unique indexes of migration 00066.
UniqueViolation(table) ==
    \E i, j \in DOMAIN table :
        /\ i # j /\ table[i] # NoOverride /\ table[j] # NoOverride
        /\ table[i].user = table[j].user /\ table[i].date = table[j].date
        /\ table[i].avail = table[j].avail
        /\ table[i].avail => (table[i].s = table[j].s /\ table[i].e = table[j].e)

\* A blocking request clears its dates and inserts one row for each, in one
\* transaction; a span shares a group.
BlockDates(h, from, to) ==
    LET base == Len(overrides)
        cleared == UNION {RowIds(h, d) : d \in from .. to}
        rows == [k \in 1 .. to - from + 1 |->
                    [user |-> h, date |-> from + k - 1, avail |-> FALSE, s |-> Bad, e |-> Bad,
                     group |-> IF from = to THEN 0 ELSE base + 1]]
    IN  /\ base + Len(rows) <= MaxOverrides
        /\ overrides' = Without(cleared) \o rows
        /\ UNCHANGED editing /\ OverrideUnchanged

\* Custom hours: refused on a blocked date, and inserted by a later statement.
CheckCustomHours(h, d, hours) ==
    /\ editing = Idle
    /\ Bad \notin {hours.s, hours.e} /\ hours.s < hours.e
    /\ \A i \in RowIds(h, d) : overrides[i].avail
    /\ editing' = [op |-> "insert", user |-> h, date |-> d, s |-> hours.s, e |-> hours.e]
    /\ UNCHANGED overrides /\ OverrideUnchanged

InsertCustomHours ==
    /\ editing.op = "insert"
    /\ Len(overrides) < MaxOverrides
    /\ LET table == Append(overrides,
               [user |-> editing.user, date |-> editing.date, avail |-> TRUE,
                s |-> editing.s, e |-> editing.e, group |-> 0])
       IN  overrides' = IF UniqueViolation(table) THEN overrides ELSE table
    /\ editing' = Idle
    /\ OverrideUnchanged

\* PATCH reads the row and later writes every column back.
ReadOverride(i, avail, hours) ==
    /\ editing = Idle /\ overrides[i] # NoOverride
    /\ avail => Bad \notin {hours.s, hours.e} /\ hours.s < hours.e
    /\ editing' = [op |-> IF avail THEN "update" ELSE "clear", id |-> i, avail |-> avail,
                   user |-> overrides[i].user, date |-> overrides[i].date,
                   s |-> IF avail THEN hours.s ELSE Bad, e |-> IF avail THEN hours.e ELSE Bad]
    /\ UNCHANGED overrides /\ OverrideUnchanged

\* A flip to blocked first clears the custom hours of the date.
ClearSiblings ==
    /\ editing.op = "clear"
    /\ overrides' = Without({i \in RowIds(editing.user, editing.date) \ {editing.id} :
                               overrides[i].avail})
    /\ editing' = [editing EXCEPT !.op = "update"]
    /\ OverrideUnchanged

WriteOverride ==
    /\ editing.op = "update"
    /\ LET i == editing.id
           table == [overrides EXCEPT ![i].avail = editing.avail, ![i].s = editing.s,
                                      ![i].e = editing.e]
       IN  overrides' = IF overrides[i] = NoOverride \/ UniqueViolation(table)
                        THEN overrides ELSE table
    /\ editing' = Idle
    /\ OverrideUnchanged

DeleteAvailabilityOverride(i) ==
    /\ overrides[i] # NoOverride
    /\ overrides' = Without({i})
    /\ UNCHANGED editing /\ OverrideUnchanged

DeleteAvailabilityOverrideGroup(g) ==
    LET rows == {i \in DOMAIN overrides : overrides[i] # NoOverride /\ overrides[i].group = g}
    IN  /\ rows # {}
        /\ overrides' = Without(rows)
        /\ UNCHANGED editing /\ OverrideUnchanged

-----------------------------------------------------------------------------
(* What other components do to a host's time.                              *)

\* A booking of this or another event type takes a free seat.
TakeSeat(h, iv) ==
    /\ \A b \in LiveBookings(h) : ~overlaps(b, iv)
    /\ \E event \in BOOLEAN :
           meetings' = [meetings EXCEPT ![h] =
               @ \cup {[s |-> iv.s, e |-> iv.e, live |-> TRUE, event |-> event]}]
    /\ UNCHANGED <<profile, rules, overrides, editing, external>>

\* A cancel; the calendar event stays until its deletion succeeds.
CancelMeeting(h, m) ==
    /\ m \in meetings[h] /\ m.live
    /\ meetings' = [meetings EXCEPT ![h] =
           (@ \ {m}) \cup (IF m.event THEN {[m EXCEPT !.live = FALSE]} ELSE {})]
    /\ UNCHANGED <<profile, rules, overrides, editing, external>>

\* The event of a cancelled booking is gone.
EventDeleted(h, m) ==
    /\ m \in meetings[h] /\ ~m.live
    /\ meetings' = [meetings EXCEPT ![h] = @ \ {m}]
    /\ UNCHANGED <<profile, rules, overrides, editing, external>>

ExternalChange(h) ==
    /\ \E busy \in SUBSET ExternalInputs[h] : busy # external[h] /\ external' = [external EXCEPT ![h] = busy]
    /\ UNCHANGED <<profile, rules, overrides, editing, meetings>>

-----------------------------------------------------------------------------

SlotsInit ==
    /\ profile \in Profiles
    /\ rules = [h \in Hosts |-> {}]
    /\ overrides = <<>>
    /\ editing = Idle
    /\ meetings = [h \in Hosts |-> {}]
    /\ external = [h \in Hosts |-> {}]

EditRules ==
    \E h \in Hosts : \E r \in RuleInputs[h] :
        \/ CreateAvailabilityRule(h, r)
        \/ DeleteAvailabilityRule(h, r)
        \/ \E old \in rules[h] : UpdateAvailabilityRule(h, old, r)

EditOverrides ==
    \/ \E h \in Hosts : \E d, x \in OverrideDates[h] : d <= x /\ BlockDates(h, d, x)
    \/ \E h \in Hosts : \E d \in OverrideDates[h], hours \in HourInputs :
           CheckCustomHours(h, d, hours)
    \/ InsertCustomHours
    \/ \E i \in DOMAIN overrides, avail \in BOOLEAN, hours \in HourInputs :
           ReadOverride(i, avail, hours)
    \/ ClearSiblings
    \/ WriteOverride
    \/ \E i \in DOMAIN overrides :
           DeleteAvailabilityOverride(i) \/ DeleteAvailabilityOverrideGroup(i)

HostTime ==
    \E h \in Hosts :
        \/ \E iv \in MeetingInputs[h] : TakeSeat(h, iv)
        \/ \E m \in meetings[h] : CancelMeeting(h, m) \/ EventDeleted(h, m)
        \/ ExternalChange(h)

SlotsNext == EditRules \/ EditOverrides \/ HostTime

SlotsSpec == SlotsInit /\ [][SlotsNext]_slotVars

-----------------------------------------------------------------------------
(* Properties.                                                             *)

Readable == \A h \in Hosts : \A r \in rules[h] : Bad \notin {r.s, r.e}

\* The slot crosses the seam of two windows that touch or overlap.
Straddles(t) ==
    \E h \in Hosts, d \in DateFrom .. DateTo :
        /\ \E w \in ToSet(mergeIntervals(resolveDay(h, d))) : Within(Slot(t), w)
        /\ \A w \in resolveDay(h, d) : ~Within(Slot(t), w)

\* Other calendars are busy next to the dates asked for, where free/busy of the
\* listing does not look.
BeyondFreeBusy ==
    \E h \in Hosts : \E b \in external[h] :
        ~overlaps(b, Requested)

\* What computeSlots offers, CreateBooking would take at that moment, for every
\* routing mode, zone, override, buffer and calendar, except in the cases where the
\* two read the tables differently: a slot over two touching windows, a fixed event
\* type with several required hosts, calendars busy next to the dates asked for, and
\* a rule that does not parse; and unless the answer says that it is degraded.
OfferedIsBookable ==
    Readable /\ ~Degraded /\ ~BeyondFreeBusy /\ (mode = "fixed" => Cardinality(Candidates) = 1) =>
        \A t \in Free : Straddles(t) \/ Accepts(t)

OnGrid(t) == alignUp(t) = t

\* One grid for all the dates: the interval divides the day, and the leading host's zone does
\* not change.  Otherwise the grid starts anew at midnight, in the middle of others' windows.
OneGrid ==
    /\ Day % SlotInterval = 0
    /\ Pooled # {} => \A d \in Dates : Offset[Lead][d] = Offset[Lead][DateFrom]

\* Somebody's hours begin in what their clock skips at midnight: such a time is read as one of
\* the date before.
HoursSkipped ==
    \E h \in Hosts, d \in DateFrom - 2 .. DateTo + 2 :
        \E hours \in OverridesOn(h, d) \cup RulesOn(h, d) :
            hours.s # Bad /\ hours.s < Offset[h][d] - Offset[h][d - 1]

Buffered(h, t) ==
    \A b \in expandBusy(LiveBookings(h), BufferBefore, BufferAfter) : ~overlaps(b, Slot(t))

\* Nothing bookable is kept from the page: a time on the grid and in the dates asked
\* for that CreateBooking would take, with the buffers around every booking, is
\* offered.  The event of a booking that was cancelled does not hide its slot.
NothingWithheld ==
    OneGrid /\ ~HoursSkipped /\ ~Fails =>
        \A t \in DateFrom * Day .. (DateTo + 1) * Day - 1 :
            /\ Accepts(t) /\ OnGrid(t)
            /\ \A h \in Hosts : Buffered(h, t) /\ LocalDate(h, t) \in DateFrom .. DateTo
            => t \in Free

\* A greyed-out time was taken by somebody: some pooled host is busy there, buffers
\* counted; and no time is both greyed out and explained by the notice.
TakenMeansTaken ==
    \A t \in Taken :
        /\ t \notin NoticeGap
        /\ OneGrid => \E h \in Pooled :
               \E b \in expandBusy(hostBusy(h), BufferBefore, BufferAfter) : overlaps(b, Slot(t))

\* A blocked date stays closed, also when a request for custom hours passed its
\* check before the block was written and inserted its row after it.
BlockedDateIsClosed ==
    mode # "fixed" /\ ~HoursSkipped =>
        \A i \in DOMAIN overrides :
            /\ overrides[i] # NoOverride /\ ~overrides[i].avail
            /\ RoleOf[overrides[i].user] = "required"
            => \A t \in Free : LocalDate(overrides[i].user, t) # overrides[i].date

\* The page and the booking agree: what computeSlots offers, CreateBooking would take at that
\* moment; what it would take on the grid is offered; a time is greyed out only when somebody
\* is busy there; and a blocked date stays closed, whatever raced with the block.  Each part
\* names the cases in which the two read the tables differently.
PageAgreesWithBooking ==
    OfferedIsBookable /\ NothingWithheld /\ TakenMeansTaken /\ BlockedDateIsClosed
=============================================================================
