----------------------------- MODULE Followups -----------------------------
(***************************************************************************)
(* What follows a booking once it is committed: the manage link in the     *)
(* booker's mail, and the reminder (internal/handler: the side effects of  *)
(* booking_handler.go and manage_handler.go, with the reminder jobs;       *)
(* sendReminder of internal/worker; the manage tokens of internal/booking).*)
(*                                                                         *)
(* A create, each reschedule and a cancel commit first and leave the rest  *)
(* to a goroutine of their own, which a crash ends.  The goroutines of     *)
(* several changes overlap.  Everything a reschedule or a cancel does runs *)
(* on one deadline of 30 seconds, which the calendar calls and the mails   *)
(* may use up: every step after it fails.  A create queues the reminder    *)
(* first and gives the webhook and the mails contexts of their own.  The   *)
(* event type has one reminder, and a reminder may be due at any moment.   *)
(***************************************************************************)
EXTENDS Naturals, FiniteSets

CONSTANTS
    Mover,        \* reschedules, in any order
    ByLink,       \* those of them that come by the booker's link
    Preferences,  \* what a host may leave on of "confirmation", "reschedule", "reminder"
    Faults,       \* what may go wrong: "crash", "stalls", and "mail-", "token-", "load-",
                  \* "writeFails"
    MaxFaults     \* bound on the kinds of failure, and the deadlines, that a behaviour meets

Op == {"create", "cancel"} \cup Mover

None == "none"

VARIABLES
    booked,     \* the booking's row: [status, start]; a start is named by its change
    effects,    \* the goroutine of each change: [pc, start, link]
    links,      \* booking_manage_tokens, each named by the change that issued it
    letters,    \* the links that reached the booker
    notify,     \* the mails to the booker that the host has left on
    reminder,   \* the live or last reminder.send job: [state, start]
    sending,    \* has the worker loaded the booking of the reminder that is running?
    announced,  \* the changes whose webhook was enqueued
    flagged,    \* bookings.confirm_failed
    spent,      \* the changes whose goroutine ran out of time
    mishaps     \* "crash", "mail", "token", "load", "write"; "crossed", "busy", "overtaken"

followupVars == <<booked, effects, links, letters, notify, reminder, sending, announced, flagged,
                  spent, mishaps>>

Work(pc, start) == [pc |-> pc, start |-> start, link |-> None]

FollowupsInit ==
    /\ booked = [status |-> "confirmed", start |-> "create"]
    /\ effects = [o \in Op |-> IF o = "create" THEN Work("remind", "create")
                               ELSE Work("idle", None)]
    /\ links = {} /\ letters = {}
    /\ notify \in Preferences
    /\ reminder = [state |-> None, start |-> None]
    /\ sending = FALSE /\ announced = {} /\ flagged = FALSE
    /\ spent = {} /\ mishaps = {}

At(o, pc) == effects[o].pc = pc

Then(o, pc) == effects' = [effects EXCEPT ![o].pc = pc]

May(fault) ==
    /\ fault \in Faults
    /\ Cardinality(mishaps \ {"crossed", "busy", "overtaken"}) + Cardinality(spent) < MaxFaults

Mishap(what, when) == mishaps' = IF when THEN mishaps \cup {what} ELSE mishaps

InTime(o) == o \notin spent

\* A step fails by itself, or because the deadline has passed.
Fails(o, fault, what) ==
    \/ May(fault) /\ Mishap(what, TRUE)
    \/ ~InTime(o) /\ UNCHANGED mishaps

-----------------------------------------------------------------------------
(* The changes.                                                            *)

Commit(o) ==
    /\ booked.status = "confirmed"
    /\ booked' = IF o = "cancel" THEN [booked EXCEPT !.status = "cancelled"]
                 ELSE [booked EXCEPT !.start = o]
    /\ effects' = [effects EXCEPT ![o] = Work("load", booked'.start)]
    /\ UNCHANGED <<links, letters, notify, reminder, sending, announced, flagged, spent, mishaps>>

RescheduleBooking(o) == o \notin ByLink /\ At(o, "idle") /\ Commit(o)

CancelBooking == At("cancel", "idle") /\ Commit("cancel")

\* ValidateManageToken, with a link that the booker has and that still works; the change
\* is committed later, whatever becomes of the link.
ValidateManageToken(o) ==
    /\ At(o, "idle") /\ links \cap letters # {}
    /\ Then(o, "validated")
    /\ UNCHANGED <<booked, links, letters, notify, reminder, sending, announced, flagged, spent,
                   mishaps>>

RescheduleByToken(o) == At(o, "validated") /\ Commit(o)

CancelByToken == At("cancel", "validated") /\ Commit("cancel")

\* A cancelled booking is not changed.
Refused(o) ==
    /\ At(o, "validated") /\ booked.status = "cancelled"
    /\ Then(o, "done")
    /\ UNCHANGED <<booked, links, letters, notify, reminder, sending, announced, flagged, spent,
                   mishaps>>

-----------------------------------------------------------------------------
(* dispatchBookingConfirmation.                                            *)

Live == reminder.state \in {"pending", "running"}

\* Slip: the reminder is replaced when there is one.
enqueueReplacing(o) ==
    /\ At(o, "remind") /\ o = "create"
    /\ reminder' = IF reminder.state = "running" THEN reminder
                   ELSE [state |-> "pending", start |-> effects[o].start]
    /\ Then(o, "issue")
    /\ UNCHANGED <<booked, links, letters, notify, sending, announced, flagged, spent, mishaps>>

\* INSERT OR IGNORE: a live reminder, which a reschedule left, stays.
enqueueBookingReminders(o) ==
    /\ At(o, "remind") /\ o = "create"
    /\ \/ /\ reminder' = IF Live THEN reminder
                         ELSE [state |-> "pending", start |-> effects[o].start]
          /\ Mishap("overtaken", ~Live /\ reminder.state # None)
       \/ Fails(o, "writeFails", "write") /\ UNCHANGED reminder
    /\ Then(o, "issue")
    /\ UNCHANGED <<booked, links, letters, notify, sending, announced, flagged, spent>>

\* A token that cannot be issued is logged, and the mail goes out without a link.
IssueManageToken(o) ==
    /\ At(o, "issue")
    /\ \/ /\ links' = links \cup {o}
          /\ effects' = [effects EXCEPT ![o].pc = "announce", ![o].link = o]
          /\ Mishap("crossed", booked.start # effects[o].start)
       \/ /\ May("tokenFails")
          /\ Then(o, "announce") /\ Mishap("token", TRUE) /\ UNCHANGED links
    /\ UNCHANGED <<booked, letters, notify, reminder, sending, announced, flagged, spent>>

-----------------------------------------------------------------------------
(* rescheduleSideEffects and cancelSideEffects.                            *)

\* A call to a calendar, or a mail, stalls until the deadline has passed.
Expire(o) ==
    /\ May("stalls") /\ o # "create" /\ InTime(o)
    /\ effects[o].pc \notin {"idle", "validated", "done"}
    /\ spent' = spent \cup {o}
    /\ UNCHANGED <<booked, effects, links, letters, notify, reminder, sending, announced, flagged,
                   mishaps>>

\* loadCancellationData; an error ends the side effects.
loadCancellationData(o) ==
    /\ At(o, "load")
    /\ \/ InTime(o) /\ Then(o, IF o = "cancel" THEN "mail" ELSE "rotate") /\ UNCHANGED mishaps
       \/ Fails(o, "loadFails", "load") /\ Then(o, "done")
    /\ UNCHANGED <<booked, links, letters, notify, reminder, sending, announced, flagged, spent>>

\* Slip: the old tokens stay.
RotateKeeping(o) ==
    /\ At(o, "rotate")
    /\ links' = links \cup {o}
    /\ effects' = [effects EXCEPT ![o].pc = "mail", ![o].link = o]
    /\ UNCHANGED <<booked, letters, notify, reminder, sending, announced, flagged, spent, mishaps>>

\* Slip: the new token is inserted before the booking's tokens are deleted.
RotateDeletingLast(o) ==
    /\ At(o, "rotate")
    /\ links' = {}
    /\ effects' = [effects EXCEPT ![o].pc = "mail", ![o].link = o]
    /\ UNCHANGED <<booked, letters, notify, reminder, sending, announced, flagged, spent, mishaps>>

\* The booking's tokens are deleted and a new one inserted, in one transaction.
RotateManageToken(o) ==
    /\ At(o, "rotate")
    /\ \/ /\ InTime(o) /\ links' = {o}
          /\ effects' = [effects EXCEPT ![o].pc = "mail", ![o].link = o]
          /\ UNCHANGED mishaps
       \/ Fails(o, "tokenFails", "token") /\ Then(o, "mail") /\ UNCHANGED links
    /\ UNCHANGED <<booked, letters, notify, reminder, sending, announced, flagged, spent>>

Notice(o) ==
    IF o \in Mover THEN "reschedule" ELSE IF o = "create" THEN "confirmation" ELSE "cancellation"

Enclosed(o) == {l \in {effects[o].link} : l # None /\ Notice(o) \in notify}

\* Slip: a confirmation that cannot be sent is only logged.
SendUnflagged(o) ==
    /\ At(o, "mail")
    /\ \/ /\ InTime(o) \/ Notice(o) \notin notify
          /\ letters' = letters \cup Enclosed(o)
          /\ UNCHANGED mishaps
       \/ Notice(o) \in notify /\ Fails(o, "mailFails", "mail") /\ UNCHANGED letters
    /\ Then(o, IF o = "create" THEN "done" ELSE "announce")
    /\ UNCHANGED <<booked, links, notify, reminder, sending, announced, flagged, spent>>

\* The booker's mail, unless the host has switched it off; a failure is logged, and for a
\* confirmation it is flagged.
SendToAttendee(o) ==
    /\ At(o, "mail")
    /\ \/ /\ InTime(o) \/ Notice(o) \notin notify
          /\ letters' = letters \cup Enclosed(o)
          /\ UNCHANGED <<flagged, mishaps>>
       \/ /\ Notice(o) \in notify /\ Fails(o, "mailFails", "mail")
          /\ flagged' = (flagged \/ o = "create")
          /\ UNCHANGED letters
       \/ /\ o = "create" /\ Notice(o) \in notify /\ May("mailFails") /\ May("writeFails")
          /\ mishaps' = mishaps \cup {"mail", "write"}
          /\ UNCHANGED <<letters, flagged>>
    /\ Then(o, IF o = "create" THEN "done" ELSE "announce")
    /\ UNCHANGED <<booked, links, notify, reminder, sending, announced, spent>>

\* The webhook of the change; a failure is logged.
Announce(o) ==
    /\ At(o, "announce")
    /\ \/ InTime(o) /\ announced' = announced \cup {o} /\ UNCHANGED mishaps
       \/ Fails(o, "writeFails", "write") /\ UNCHANGED announced
    /\ Then(o, IF o = "create" THEN "mail" ELSE IF o \in Mover THEN "replace" ELSE "done")
    /\ UNCHANGED <<booked, links, letters, notify, reminder, sending, flagged, spent>>

\* Reminders that are not running are deleted; the new one is ignored beside one that
\* runs.  The goroutine of an earlier reschedule may come last.  A failure is logged.
replaceReminderJobs(o) ==
    /\ At(o, "replace")
    /\ \/ /\ InTime(o)
          /\ reminder' = IF reminder.state = "running" THEN reminder
                         ELSE [state |-> "pending", start |-> effects[o].start]
          /\ mishaps' = mishaps
                 \cup {w \in {"busy"} : reminder.state = "running"}
                 \cup {w \in {"overtaken"} : booked.start # o /\ At(booked.start, "done")}
       \/ Fails(o, "writeFails", "write") /\ UNCHANGED reminder
    /\ Then(o, "done")
    /\ UNCHANGED <<booked, links, letters, notify, sending, announced, flagged, spent>>

-----------------------------------------------------------------------------
(* The worker: the job is claimed, sendReminder loads the booking and      *)
(* mails; the result is recorded.                                          *)

ClaimReminder ==
    /\ reminder.state = "pending"
    /\ reminder' = [reminder EXCEPT !.state = "running"]
    /\ UNCHANGED <<booked, effects, links, letters, notify, sending, announced, flagged, spent,
                   mishaps>>

\* A booking that is cancelled, or a host who wants no reminders, ends the job.
LoadBooking ==
    /\ reminder.state = "running" /\ ~sending
    /\ IF booked.status = "confirmed" /\ "reminder" \in notify
       THEN sending' = TRUE /\ UNCHANGED reminder
       ELSE reminder' = [reminder EXCEPT !.state = "done"] /\ UNCHANGED sending
    /\ UNCHANGED <<booked, effects, links, letters, notify, announced, flagged, spent, mishaps>>

\* The mail goes out, or the job waits for another attempt, or it fails for good.
SendReminder ==
    /\ sending
    /\ sending' = FALSE
    /\ \/ reminder' = [reminder EXCEPT !.state = "done"]
       \/ /\ May("mailFails")
          /\ \E s \in {"pending", "failed"} : reminder' = [reminder EXCEPT !.state = s]
    /\ UNCHANGED <<booked, effects, links, letters, notify, announced, flagged, spent, mishaps>>

\* The process stops: goroutines are lost, and the running job is reaped.
Crash ==
    /\ May("crash")
    /\ effects' = [o \in Op |-> IF At(o, "idle") THEN effects[o]
                                ELSE [effects[o] EXCEPT !.pc = "done"]]
    /\ sending' = FALSE
    /\ reminder' = IF reminder.state = "running" THEN [reminder EXCEPT !.state = "pending"]
                   ELSE reminder
    /\ Mishap("crash", TRUE)
    /\ UNCHANGED <<booked, links, letters, notify, announced, flagged, spent>>

FollowupsNext ==
    \/ \E o \in Mover : RescheduleBooking(o) \/ RescheduleByToken(o)
    \/ CancelBooking \/ CancelByToken
    \/ \E o \in ByLink \cup {"cancel"} : ValidateManageToken(o) \/ Refused(o)
    \/ enqueueBookingReminders("create") \/ IssueManageToken("create")
    \/ \E o \in Mover : RotateManageToken(o) \/ replaceReminderJobs(o)
    \/ \E o \in Op : loadCancellationData(o) \/ SendToAttendee(o) \/ Announce(o) \/ Expire(o)
    \/ ClaimReminder \/ LoadBooking \/ SendReminder \/ Crash

FollowupsSpec == FollowupsInit /\ [][FollowupsNext]_followupVars

-----------------------------------------------------------------------------
(* Properties, once every goroutine has ended.                             *)

Settled == \A o \in Op : At(o, "idle") \/ At(o, "done")

Spared(bad) == mishaps \cap bad = {}

\* The reminder on file is for the present time of the booking, whichever of the create
\* and the reschedules came last to the jobs table, but where a reminder ran during the
\* reschedule, an earlier reschedule was overtaken, a goroutine was lost, or the last
\* reschedule ran out of time, for which a stalled mail is enough.
ReminderFollows ==
    Settled /\ Spared({"crash", "load", "write", "busy", "overtaken"}) /\ InTime(booked.start) =>
        reminder.start = booked.start

\* The booker holds a link that works, however the mails of the create and the
\* reschedules overlapped, if the host mails at all, nothing failed and no reschedule ran
\* out of time.
BookerHoldsLink ==
    Settled /\ {"confirmation", "reschedule"} \subseteq notify /\ spent \cap Mover = {}
        /\ Spared({"crash", "load", "mail", "token"}) => links \cap letters # {}

\* The comment on RotateManageToken: after a reschedule the link of the confirmation, or
\* of an earlier reschedule, is of no use; unless it was issued after the reschedule, or
\* the reschedule ran out of time.
OldLinksDie ==
    Settled /\ Spared({"crash", "load", "token", "crossed"}) /\ InTime(booked.start)
        /\ booked.start # "create" => "create" \notin links

\* A change that was made is announced to the webhooks, unless it is a reschedule or a cancel
\* that ran out of time; and a confirmation that never left is flagged for follow-up,
\* whatever else fails.
ChangesAreKnown ==
    Settled /\ Spared({"crash", "load", "write"}) =>
        /\ booked.start \in announced \cup spent
        /\ booked.status = "cancelled" => "cancel" \in announced \cup spent
        /\ letters = {} /\ "confirmation" \in notify /\ Spared({"token"}) => flagged
=============================================================================
