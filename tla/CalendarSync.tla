---------------------------- MODULE CalendarSync ----------------------------
(***************************************************************************)
(* The calendar event of one booking: the side-effect goroutines of        *)
(* create, reschedule, cancel and reassign, and the reconciler that heals  *)
(* what they leave behind (internal/handler/booking_handler.go,            *)
(* reassign.go, calendar_reconcile.go).                                    *)
(*                                                                         *)
(* The booking has one seat, its primary host's; the other hosts' seats    *)
(* run the same code beside it.  A read, a call to the provider and a      *)
(* statement that writes are steps of their own.  A goroutine, and the     *)
(* reconciler, is a job: where it is and what it has read.                 *)
(***************************************************************************)
EXTENDS Naturals

CONSTANTS
    Host,       \* members who can host the booking
    Connected,  \* the ones with a destination calendar
    Mover,      \* rescheduleSideEffects goroutines, each with a new time
    Reassigner, \* goroutines of the reassign handler
    Event,      \* ids the provider can give to events
    Prices,     \* may the event type be priced?
    MaxFaults,  \* bound on the number of crashes and lost answers
    Faults      \* what may go wrong in this instance

Fault ==
    {"overlap",      \* an operation starts while side effects of another run
     "apiError",     \* a call to the provider fails
     "unreachable",  \* it is refused with ErrEventUnreachable
     "lostAnswer",   \* an event is created, but the answer does not arrive
     "crash"}        \* the process stops and is started again

NoEvent == "no event"
Booked == "booked"

Proc == {"confirm", "cancel", "reconciler"} \cup Mover \cup Reassigner

ASSUME SyncAssumption ==
    /\ Connected \subseteq Host /\ Prices \subseteq BOOLEAN
    /\ MaxFaults \in Nat /\ Faults \subseteq Fault
    /\ NoEvent \notin Event /\ Booked \notin Mover
    /\ Mover \cap Reassigner = {}
    /\ {"confirm", "cancel", "reconciler"} \cap (Mover \cup Reassigner) = {}

VARIABLES
    status,   \* bookings.status
    priced,   \* event_types.price_cents > 0
    paid,     \* has the booking been free, or its payment settled?
    host,     \* bookings.host_id and the user of the primary seat
    at,       \* bookings.start_at: Booked, or the goroutine of the last move
    over,     \* is end_at in the past?
    young,    \* was the booking created less than 5 minutes ago?
    seat,     \* booking_hosts.external_event_id
    row,      \* bookings.external_event_id
    dirty,    \* booking_hosts.needs_sync
    event,    \* the provider's events
    job,      \* the goroutines and the reconciler
    faults    \* crashes and lost answers so far

booking == <<status, priced, paid, host, at, over, young>>
ids == <<seat, row, dirty>>
vars == <<booking, ids, event, job, faults>>

Live == {e \in Event : event[e].state = "live"}

\* The provider gives an id it has not used; which one makes no difference.
Fresh == {e \in Event : event[e].state = "unused"}

FreshId == CHOOSE e \in Event : e \in Fresh

\* A goroutine that has not been started, or has returned.
Rests(p) == job[p].pc \in {"idle", "done"}

\* Nothing runs, and the reconciler is between two sweeps.
Quiet ==
    /\ \A p \in Proc \ {"reconciler"} : Rests(p)
    /\ job["reconciler"].pc = "cancellations"

CanStart == "overlap" \in Faults \/ Quiet

Goto(p, pc) == job' = [job EXCEPT ![p].pc = pc]

-----------------------------------------------------------------------------
\* The booking is committed, and for a free event type the handler has started
\* dispatchBookingConfirmation.
Init ==
    /\ status = "confirmed" /\ priced \in Prices /\ paid = ~priced
    /\ host \in Host /\ at = Booked /\ over = FALSE /\ young = TRUE
    /\ seat = NoEvent /\ row = NoEvent /\ dirty = FALSE
    /\ event = [e \in Event |-> [state |-> "unused", on |-> host, at |-> Booked]]
    /\ job = [p \in Proc |->
                [pc |-> CASE p = "confirm" /\ ~priced -> "load"
                          [] p = "reconciler" -> "cancellations"
                          [] OTHER -> "idle",
                 on |-> host, to |-> host, at |-> Booked, event |-> NoEvent]]
    /\ faults = 0

(* The operations, each of which starts its side effects.                  *)

\* Stripe's event: confirmPaidBooking loads the booking and dispatches.
Settle ==
    /\ ~paid
    /\ CanStart
    /\ paid' = TRUE
    /\ job' = [job EXCEPT !["confirm"].pc = "load", !["confirm"].at = at]
    /\ UNCHANGED <<status, priced, host, at, over, young, ids, event, faults>>

\* releaseUnpaidHold or the worker's sweep: no side effects.
ReleaseHold ==
    /\ ~paid /\ status = "confirmed"
    /\ status' = "cancelled"
    /\ UNCHANGED <<priced, paid, host, at, over, young, ids, event, job, faults>>

\* Reschedule commits, and rescheduleSideEffects starts.
Reschedule(m) ==
    /\ status = "confirmed" /\ job[m].pc = "idle"
    /\ CanStart
    /\ at' = m /\ over' = FALSE
    /\ job' = [job EXCEPT ![m].pc = "load", ![m].at = m]
    /\ UNCHANGED <<status, priced, paid, host, young, ids, event, faults>>

\* A cancel commits and clears needs_sync, and cancelSideEffects starts.
Cancel ==
    /\ status = "confirmed"
    /\ CanStart
    /\ status' = "cancelled"
    /\ dirty' = FALSE
    /\ Goto("cancel", "load")
    /\ UNCHANGED <<priced, paid, host, at, over, young, seat, row, event, faults>>

\* The reassign handler reads the old host and bookings.external_event_id...
ReassignLoad(r, h) ==
    /\ job[r].pc = "idle"
    /\ CanStart
    /\ job' = [job EXCEPT ![r] = [pc |-> "commit", on |-> host, to |-> h,
                                  at |-> at, event |-> row]]
    /\ UNCHANGED <<booking, ids, event, faults>>

\* ...and ReassignHost commits, with the ids of the seat cleared; the present
\* host keeps the seat and its ids, but the handler goes on all the same.
ReassignCommit(r) ==
    /\ job[r].pc = "commit"
    /\ IF status = "confirmed"
       THEN /\ host' = job[r].to
            /\ IF job[r].to = host THEN UNCHANGED <<seat, dirty>>
               ELSE seat' = NoEvent /\ dirty' = FALSE
            /\ job' = [job EXCEPT ![r].pc = IF job[r].event = NoEvent THEN "create" ELSE "delete",
                                  ![r].at = at]
       ELSE Goto(r, "done") /\ UNCHANGED <<host, seat, dirty>>
    /\ UNCHANGED <<status, priced, paid, at, over, young, row, event, faults>>

\* The calendar phase of a free booking's dispatch ends after 30 seconds.
GraceEnds ==
    /\ young
    /\ priced \/ Rests("confirm")
    /\ young' = FALSE
    /\ UNCHANGED <<status, priced, paid, host, at, over, ids, event, job, faults>>

MeetingEnds ==
    /\ ~over
    /\ over' = TRUE
    /\ UNCHANGED <<status, priced, paid, host, at, young, ids, event, job, faults>>

(* What the jobs read.                                                     *)

\* assignedHosts, read by dispatchBookingConfirmation.
ConfirmLoad ==
    /\ job["confirm"].pc = "load"
    /\ job' = [job EXCEPT !["confirm"].pc = "create",
                          !["confirm"].on = host, !["confirm"].to = host]
    /\ UNCHANGED <<booking, ids, event, faults>>

\* assignedHosts, read by moveCalendarEvents and by cancelSideEffects: a seat
\* without an event is passed over.
SeatLoad(p, pc) ==
    /\ job[p].pc = "load"
    /\ IF seat = NoEvent
       THEN Goto(p, "done")
       ELSE job' = [job EXCEPT ![p].pc = pc, ![p].on = host, ![p].event = seat]
    /\ UNCHANGED <<booking, ids, event, faults>>

\* Slip: only upcoming bookings are swept.
OrphanedUpcoming == status = "cancelled" /\ ~over /\ seat # NoEvent

\* What the reconciler looks for in each of its passes.
Orphaned == status = "cancelled" /\ seat # NoEvent

\* Slip: no grace for a booking that was just created.
MissingWithoutGrace ==
    status = "confirmed" /\ ~over /\ seat = NoEvent /\ host \in Connected

\* Slip: the comparison with the cut-off is turned round.
MissingAndYoung ==
    status = "confirmed" /\ ~over /\ young /\ seat = NoEvent /\ host \in Connected

Missing ==
    status = "confirmed" /\ ~over /\ ~young /\ seat = NoEvent /\ host \in Connected

Drifted == status = "confirmed" /\ ~over /\ dirty /\ seat # NoEvent

\* One pass of the reconciler: it takes the seat if the seat is found, and goes
\* on to the next pass if it is not.
Pass(from, found, pc, next) ==
    /\ job["reconciler"].pc = from
    /\ IF found
       THEN job' = [job EXCEPT !["reconciler"] =
                       [pc |-> pc, on |-> host, to |-> host, at |-> at, event |-> seat]]
       ELSE Goto("reconciler", next)
    /\ UNCHANGED <<booking, ids, event, faults>>

reconcileCancellations == Pass("cancellations", Orphaned, "delete", "creations")
reconcileCreations == Pass("creations", Missing, "create", "reschedules")
reconcileReschedules == Pass("reschedules", Drifted, "update", "cancellations")

(* Calls to the provider.                                                  *)

\* A goroutine is done with its seat, and the reconciler goes on to the pass
\* after its delete, create or update.
PassAfter(p) ==
    IF p # "reconciler" THEN "done"
    ELSE CASE job[p].pc \in {"delete", "forgetSeat"} -> "creations"
           [] job[p].pc \in {"create", "saveRow"} -> "reschedules"
           [] OTHER -> "cancellations"

\* Where a failed call leads: a reassign creates the new event whether or not
\* the old one could be deleted, and a failed move is flagged.
AfterError(p) ==
    CASE p \in Reassigner /\ job[p].pc = "delete" -> "create"
      [] p \in Mover -> "flag"
      [] OTHER -> PassAfter(p)

\* The event a job puts on a calendar.
Put(p) == [state |-> "live", on |-> job[p].to, at |-> job[p].at]

\* The event is created on the host's destination calendar; a host without one
\* gets no event, and only a reassign records that.
CreateEvent(p) ==
    /\ job[p].pc = "create"
    /\ LET save == IF p \in Reassigner THEN "saveRow" ELSE "saveSeat"
       IN  IF job[p].to \in Connected
           THEN /\ Fresh # {}
                /\ event' = [event EXCEPT ![FreshId] = Put(p)]
                /\ job' = [job EXCEPT ![p].pc = save, ![p].event = FreshId]
           ELSE /\ job' = [job EXCEPT ![p].pc = IF p \in Reassigner THEN save ELSE PassAfter(p),
                                      ![p].event = NoEvent]
                /\ UNCHANGED event
    /\ UNCHANGED <<booking, ids, faults>>

\* The event is created, but the job sees an error.
CreateAnswerLost(p) ==
    /\ "lostAnswer" \in Faults /\ faults < MaxFaults
    /\ job[p].pc = "create" /\ job[p].to \in Connected
    /\ Fresh # {}
    /\ event' = [event EXCEPT ![FreshId] = Put(p)]
    /\ Goto(p, PassAfter(p))
    /\ faults' = faults + 1
    /\ UNCHANGED <<booking, ids>>

\* The event takes the time the job carries; a deleted event is an error.
UpdateEvent(p) ==
    /\ job[p].pc = "update"
    /\ IF job[p].event \in Live
       THEN /\ event' = [event EXCEPT ![job[p].event].at = job[p].at]
            /\ Goto(p, "clear")
       ELSE Goto(p, AfterError(p)) /\ UNCHANGED event
    /\ UNCHANGED <<booking, ids, faults>>

\* The event is deleted; deleting it again is no error.
DeleteEvent(p) ==
    /\ job[p].pc = "delete"
    /\ event' = [event EXCEPT ![job[p].event].state = "gone"]
    /\ Goto(p, IF p \in Reassigner THEN "create" ELSE "forgetSeat")
    /\ UNCHANGED <<booking, ids, faults>>

Call(p) == CreateEvent(p) \/ UpdateEvent(p) \/ DeleteEvent(p)

CallFails(p) ==
    /\ "apiError" \in Faults
    /\ job[p].pc \in {"create", "update", "delete"}
    /\ Goto(p, AfterError(p))
    /\ UNCHANGED <<booking, ids, event, faults>>

\* No single account holds the event: the goroutines treat it as any error, the
\* reconciler gives up, and forgets the event or the flag.
CallRefused(p) ==
    /\ "unreachable" \in Faults
    /\ job[p].pc \in {"update", "delete"}
    /\ Goto(p, IF p # "reconciler" THEN AfterError(p)
               ELSE IF job[p].pc = "update" THEN "clear" ELSE "forgetSeat")
    /\ UNCHANGED <<booking, ids, event, faults>>

(* Statements that record what the calls did.                              *)

\* Slip: the id is recorded for a confirmed booking only.
SaveSeatConfirmed(p) ==
    /\ job[p].pc = "saveSeat"
    /\ seat' = IF status = "confirmed" THEN job[p].event ELSE seat
    /\ Goto(p, IF p \in Reassigner THEN "done" ELSE "saveRow")
    /\ UNCHANGED <<booking, row, dirty, event, faults>>

\* booking_hosts takes the event's id, if the seat is still the host's; a
\* reassign writes the primary seat, whoever has it.
SaveSeat(p) ==
    /\ job[p].pc = "saveSeat"
    /\ seat' = IF p \in Reassigner \/ job[p].to = host THEN job[p].event ELSE seat
    /\ Goto(p, IF p \in Reassigner THEN "done" ELSE "saveRow")
    /\ UNCHANGED <<booking, row, dirty, event, faults>>

\* bookings takes it too.
SaveRow(p) ==
    /\ job[p].pc = "saveRow"
    /\ row' = job[p].event
    /\ Goto(p, IF p \in Reassigner THEN "saveSeat" ELSE PassAfter(p))
    /\ UNCHANGED <<booking, seat, dirty, event, faults>>

\* Slip: the id is overwritten with an empty text, not NULL.
ForgetSeatBlank(p) ==
    /\ job[p].pc = "forgetSeat"
    /\ seat' = ""
    /\ Goto(p, IF p = "reconciler" THEN PassAfter(p) ELSE "forgetRow")
    /\ UNCHANGED <<booking, row, dirty, event, faults>>

\* The deleted event's id is cleared from the seat, and by cancelSideEffects
\* from the booking.
ForgetSeat(p) ==
    /\ job[p].pc = "forgetSeat"
    /\ seat' = IF job[p].on = host THEN NoEvent ELSE seat
    /\ Goto(p, IF p = "reconciler" THEN PassAfter(p) ELSE "forgetRow")
    /\ UNCHANGED <<booking, row, dirty, event, faults>>

ForgetRow(p) ==
    /\ job[p].pc = "forgetRow"
    /\ row' = NoEvent
    /\ Goto(p, "done")
    /\ UNCHANGED <<booking, seat, dirty, event, faults>>

\* needs_sync is set after a failed move and cleared after a good one.
setNeedsSync(p) ==
    /\ job[p].pc \in {"clear", "flag"}
    /\ dirty' = IF job[p].on = host THEN job[p].pc = "flag" ELSE dirty
    /\ Goto(p, PassAfter(p))
    /\ UNCHANGED <<booking, seat, row, event, faults>>

\* The process stops and starts again: the goroutines are lost, and the
\* reconciler begins with its first pass.
Crash ==
    /\ "crash" \in Faults /\ faults < MaxFaults
    /\ faults' = faults + 1
    /\ job' = [p \in Proc |->
                 [job[p] EXCEPT !.pc = IF p = "reconciler" THEN "cancellations"
                                       ELSE IF Rests(p) THEN @ ELSE "done"]]
    /\ UNCHANGED <<booking, ids, event>>

\* A step of a job that does not depend on the provider's luck.
Step(p) ==
    \/ p = "confirm" /\ ConfirmLoad
    \/ p \in Mover /\ SeatLoad(p, "update")
    \/ p = "cancel" /\ SeatLoad(p, "delete")
    \/ p \in Reassigner /\ ReassignCommit(p)
    \/ p = "reconciler" /\ (reconcileCancellations \/ reconcileCreations \/ reconcileReschedules)
    \/ SaveSeat(p) \/ SaveRow(p) \/ ForgetSeat(p) \/ ForgetRow(p) \/ setNeedsSync(p)

Next ==
    \/ Settle \/ ReleaseHold \/ Cancel
    \/ \E m \in Mover : Reschedule(m)
    \/ \E r \in Reassigner, h \in Host : ReassignLoad(r, h)
    \/ GraceEnds \/ MeetingEnds \/ Crash
    \/ \E p \in Proc :
          \/ Step(p) \/ Call(p)
          \/ CallFails(p) \/ CallRefused(p) \/ CreateAnswerLost(p)

\* Goroutines run until they return or time out, the reconciler sweeps every
\* two minutes, and the grace period ends; the provider is not out of order for
\* ever, so that the reconciler's calls succeed now and then.  Nobody is
\* obliged to reschedule, cancel, pay or reassign.
Fairness ==
    /\ WF_vars(GraceEnds)
    /\ \A p \in Proc : WF_vars(Step(p)) /\ WF_vars(Call(p) \/ CallFails(p))
    /\ SF_vars(CreateEvent("reconciler"))
    /\ SF_vars(UpdateEvent("reconciler"))
    /\ SF_vars(DeleteEvent("reconciler"))

Spec == Init /\ [][Next]_vars /\ Fairness

-----------------------------------------------------------------------------
(* Properties.                                                             *)

Place ==
    {"idle", "load", "commit", "create", "update", "delete", "saveSeat", "saveRow",
     "forgetSeat", "forgetRow", "clear", "flag", "done",
     "cancellations", "creations", "reschedules"}

\* The columns, the provider's events and the jobs have their types.
TypeOK ==
    /\ status \in {"confirmed", "cancelled"}
    /\ {priced, paid, over, young, dirty} \subseteq BOOLEAN
    /\ host \in Host /\ at \in Mover \cup {Booked}
    /\ {seat, row} \subseteq Event \cup {NoEvent}
    /\ event \in [Event -> [state: {"unused", "live", "gone"}, on: Host,
                            at: Mover \cup {Booked}]]
    /\ job \in [Proc -> [pc: Place, on: Host, to: Host, at: Mover \cup {Booked},
                         event: Event \cup {NoEvent}]]
    /\ faults \in 0..MaxFaults

\* The booking is never on the calendars twice: the reconciler's create does
\* not race the inline one.
OneEvent == \A d, e \in Live : d = e

\* Every event on a calendar is one the seat names or a running job is about to
\* record, so that a later cancel can find it.
NoOrphan ==
    \A e \in Live : \/ seat = e
                    \/ \E p \in Proc : job[p].pc = "saveSeat" /\ job[p].event = e

\* Once a booking is cancelled its event disappears from the calendar for good,
\* even if the cancel overtook the create or could not reach the provider.
CancelledIsCleared == status = "cancelled" ~> [](Live = {})

\* A reassignment to the host who has the booking: the event is deleted and
\* made again, while the seat keeps naming the deleted one.
Redundant(r) == job[r].pc # "idle" /\ job[r].on = job[r].to

\* A host with a calendar who keeps an upcoming, paid-for booking gets an event
\* for it, whatever crashed or failed.  Only a reassignment to the same host is
\* not healed when it is cut short.
EventAppears ==
    status = "confirmed" /\ paid /\ host \in Connected ~>
        \/ \E e \in Live : event[e].on = host
        \/ status = "cancelled" \/ over \/ host \notin Connected
        \/ \E r \in Reassigner : Redundant(r)

\* The event ends up at the booking's time: a move that failed is made again by
\* the reconciler.
DriftHealed ==
    <>[](status = "confirmed" /\ ~over => \A e \in Live : event[e].at = at)

\* The calendar invitation is one of the side effects that wait for the payment
\* ("DEFER all confirmation side-effects until the webhook marks the payment
\* paid").
NoEventUnpaid == Live # {} => paid
=============================================================================
