---------------------------- MODULE Invitations ----------------------------
(***************************************************************************)
(* The invite that Calnode mails for a booking, and the answers to it      *)
(* (internal/handler: invite_delivery.go, rsvp_inbound.go, and the mails   *)
(* of the create, reschedule, reassign and cancel side effects).           *)
(*                                                                         *)
(* A change of the booking commits first; a goroutine of its own then      *)
(* settles the organizer and mails the invite, so that mails may cross.    *)
(* SEQUENCE is the second of a change: two changes of one second have the  *)
(* same.  The booker's calendar follows RFC 5546: it takes what is not     *)
(* older than what it has.  Resend delivers an answer until it is told     *)
(* 200, or gives up.                                                       *)
(***************************************************************************)
EXTENDS Naturals, FiniteSets

CONSTANTS
    Mover,      \* reschedules
    Swapper,    \* reassignments to another host
    MaxClock,   \* bound on the seconds that pass
    MaxReplies, \* bound on the answers of the booker
    MaxSlips    \* bound on the kinds of failure, repetition and coincidence

Op == {"create", "cancel"} \cup Mover \cup Swapper

None == "none"

Nobody == <<"none", "none">>

VARIABLES
    clock,     \* now, in seconds
    meeting,   \* the booking's row: [status, start, updated, organizer]
    sender,    \* Settings - Email: "rsvp" while RSVP tracking is set up, or "office"
    mail,      \* the goroutine of each change: [pc, start, seq, org]
    entry,     \* the booker's calendar: [seq, start, org], start None without an event
    signed,    \* the organizer of each invite that was mailed
    replies,   \* the booker's answers that Resend has to deliver: [n, answer]
    answered,  \* how many answers the booker gave, and the last one: [n, answer]
    inbound,   \* the webhook request in hand: [pc, n, answer]
    rsvp,      \* booking_attendees.rsvp_status, and which answer it is: [n, answer]
    slips      \* what else happened: "lost", "outrun", "alike", "unsettled", "shuffled",
               \* "refused", "again"

invitationVars ==
    <<clock, meeting, sender, mail, entry, signed, replies, answered, inbound, rsvp, slips>>

Answers == {"accepted", "declined"}

From == <<"from", "office">>

\* The address a first invite is organized by: with RSVP tracking one of its own, minted
\* at random, and otherwise the sender.
Address(o) == IF sender = "rsvp" THEN <<"reply", o>> ELSE From

Queued(start, seq) == [pc |-> "read", start |-> start, seq |-> seq, org |-> Nobody]

NoReply == [pc |-> "idle", n |-> 0, answer |-> None]

InvitationsInit ==
    /\ clock = 0
    /\ meeting = [status |-> "confirmed", start |-> "create", updated |-> 0, organizer |-> Nobody]
    /\ sender \in {"rsvp", "office"}
    /\ mail = [o \in Op |-> IF o = "create" THEN Queued("create", 0)
                            ELSE [pc |-> "idle", start |-> None, seq |-> 0, org |-> Nobody]]
    /\ entry = [seq |-> 0, start |-> None, org |-> Nobody]
    /\ signed = [o \in Op |-> Nobody]
    /\ replies = {} /\ answered = [n |-> 0, answer |-> "needs-action"]
    /\ inbound = NoReply
    /\ rsvp = [n |-> 0, answer |-> "needs-action"]
    /\ slips = {}

May == Cardinality(slips) < MaxSlips

Slip(slip) == May /\ slips' = slips \cup {slip}

Note(slip, when) == IF when THEN slips \cup {slip} ELSE slips

Rsvps == <<replies, answered, inbound, rsvp>>

-----------------------------------------------------------------------------
(* The changes, each committed at once: updated_at is its second.          *)

Change(o, status, start) ==
    /\ mail[o].pc = "idle" /\ meeting.status = "confirmed"
    /\ meeting' = [meeting EXCEPT !.status = status, !.start = start, !.updated = clock]
    /\ mail' = [mail EXCEPT ![o] = Queued(start, clock)]
    /\ IF clock = meeting.updated THEN Slip("alike") ELSE UNCHANGED slips
    /\ UNCHANGED <<clock, sender, entry, signed, Rsvps>>

Reschedule(o) == Change(o, "confirmed", o)

ReassignHost(o) == Change(o, "confirmed", meeting.start)

Cancel == Change("cancel", "cancelled", meeting.start)

\* PatchEmailSettings: RSVP tracking on or off.
ChangeSender(s) ==
    /\ s # sender
    /\ sender' = s
    /\ UNCHANGED <<clock, meeting, mail, entry, signed, Rsvps, slips>>

Tick ==
    /\ clock < MaxClock
    /\ clock' = clock + 1
    /\ UNCHANGED <<meeting, sender, mail, entry, signed, Rsvps, slips>>

-----------------------------------------------------------------------------
(* The mail of a change: bookingInviteOrganizer, then BuildICS and Send.   *)

\* The stored organizer, or a candidate for a booking that has none; the sender, when the
\* row cannot be read.
LoadOrganizer(o) ==
    /\ mail[o].pc = "read"
    /\ \/ /\ mail' = [mail EXCEPT
                ![o].pc = IF meeting.organizer = Nobody THEN "fix" ELSE "send",
                ![o].org = IF meeting.organizer = Nobody THEN Address(o) ELSE meeting.organizer]
          /\ UNCHANGED slips
       \/ /\ mail' = [mail EXCEPT ![o].pc = "send", ![o].org = From]
          /\ Slip("unsettled")
    /\ UNCHANGED <<clock, meeting, sender, entry, signed, Rsvps>>

\* Slip: the UPDATE does not ask whether the organizer is still unset.
FixOrganizerAnyway(o) ==
    /\ mail[o].pc = "fix"
    /\ meeting' = [meeting EXCEPT !.organizer = mail[o].org]
    /\ mail' = [mail EXCEPT ![o].pc = "send"]
    /\ UNCHANGED <<clock, sender, entry, signed, Rsvps, slips>>

\* The conditional UPDATE, and the row read back; the candidate, when either fails.
FixOrganizer(o) ==
    /\ mail[o].pc = "fix"
    /\ LET org == IF meeting.organizer = Nobody THEN mail[o].org ELSE meeting.organizer
       IN  \/ /\ meeting' = [meeting EXCEPT !.organizer = org]
              /\ mail' = [mail EXCEPT ![o].pc = "send", ![o].org = org]
              /\ UNCHANGED slips
           \/ /\ meeting' \in {meeting, [meeting EXCEPT !.organizer = org]}
              /\ mail' = [mail EXCEPT ![o].pc = "send"]
              /\ Slip("unsettled")
    /\ UNCHANGED <<clock, sender, entry, signed, Rsvps>>

\* Slip: every invite is numbered by the second it is mailed in.
SendingSecond(o) == clock

\* SEQUENCE: updated_at as the change left it, but the present for a reassignment.
Sequence(o) == IF o \in Swapper THEN clock ELSE mail[o].seq

\* The booker's calendar, external: it matches the invite by its organizer and drops an
\* older one.
Received(o) ==
    IF entry.org \in {Nobody, mail[o].org} /\ Sequence(o) >= entry.seq
    THEN [seq |-> Sequence(o), org |-> mail[o].org,
          start |-> IF o = "cancel" THEN None ELSE mail[o].start]
    ELSE entry

\* A change was committed after the one that this mail reports.
Outrun(o) == o \in Swapper /\ meeting.updated > mail[o].seq

SendInvite(o) ==
    /\ mail[o].pc = "send"
    /\ mail' = [mail EXCEPT ![o].pc = "done"]
    /\ \/ /\ entry' = Received(o)
          /\ signed' = [signed EXCEPT ![o] = mail[o].org]
          /\ slips' = Note("outrun", Outrun(o))
       \/ Slip("lost") /\ UNCHANGED <<entry, signed>>
    /\ UNCHANGED <<clock, meeting, sender, Rsvps>>

-----------------------------------------------------------------------------
(* Answers: the booker's calendar mails them to the organizer, and         *)
(* InboundEmailResend records them.                                        *)

Respond(answer) ==
    /\ entry.start # None /\ entry.org[1] = "reply"
    /\ answered.n < MaxReplies
    /\ answered' = [n |-> answered.n + 1, answer |-> answer]
    /\ replies' = replies \cup {answered'}
    /\ UNCHANGED <<clock, meeting, sender, mail, entry, signed, inbound, rsvp, slips>>

\* bookingForReplyAddress: only while RSVP tracking is set up, and for a booking that
\* stands.  What is refused is answered 200, and Resend does not send it again.
InboundEmailResend(r) ==
    /\ inbound.pc = "idle" /\ r \in replies
    /\ replies' = replies \ {r}
    /\ IF sender = "rsvp" /\ meeting.status = "confirmed" /\ meeting.organizer = entry.org
       THEN inbound' = [pc |-> "fetch", n |-> r.n, answer |-> r.answer] /\ UNCHANGED slips
       ELSE slips' = slips \cup {"refused"} /\ UNCHANGED inbound
    /\ UNCHANGED <<clock, meeting, sender, mail, entry, signed, answered, rsvp>>

\* Resend, external, gives up on an answer that it was told 401, 500 or 503 for, which
\* changes nothing here.
GiveUp(r) ==
    /\ r \in replies
    /\ replies' = replies \ {r}
    /\ Slip("refused")
    /\ UNCHANGED <<clock, meeting, sender, mail, entry, signed, answered, inbound, rsvp>>

\* A failing fetch is answered 5xx, and Resend tries again.
FetchFails ==
    /\ inbound.pc = "fetch"
    /\ inbound' = NoReply
    /\ replies' = replies \cup {[n |-> inbound.n, answer |-> inbound.answer]}
    /\ UNCHANGED <<clock, meeting, sender, mail, entry, signed, answered, rsvp, slips>>

\* Slip: only the first answer is recorded.
recordFirstRSVP ==
    /\ inbound.pc = "fetch"
    /\ rsvp' = IF rsvp.n = 0 THEN [n |-> inbound.n, answer |-> inbound.answer] ELSE rsvp
    /\ inbound' = NoReply
    /\ UNCHANGED <<clock, meeting, sender, mail, entry, signed, replies, answered, slips>>

Shuffled == Note("shuffled", inbound.n < rsvp.n)

\* The answer is recorded, whichever answer came before; Resend may not hear of it, and
\* deliver the answer again.
recordRSVP ==
    /\ inbound.pc = "fetch"
    /\ rsvp' = [n |-> inbound.n, answer |-> inbound.answer]
    /\ inbound' = NoReply
    /\ \/ slips' = Shuffled /\ UNCHANGED replies
       \/ /\ May /\ slips' = Shuffled \cup {"again"}
          /\ replies' = replies \cup {[n |-> inbound.n, answer |-> inbound.answer]}
    /\ UNCHANGED <<clock, meeting, sender, mail, entry, signed, answered>>

InvitationsNext ==
    \/ \E o \in Mover : Reschedule(o)
    \/ \E o \in Swapper : ReassignHost(o)
    \/ Cancel \/ Tick
    \/ \E s \in {"rsvp", "office"} : ChangeSender(s)
    \/ \E o \in Op : LoadOrganizer(o) \/ FixOrganizer(o) \/ SendInvite(o)
    \/ \E a \in Answers : Respond(a)
    \/ \E r \in replies : InboundEmailResend(r) \/ GiveUp(r)
    \/ FetchFails \/ recordRSVP

InvitationsSpec == InvitationsInit /\ [][InvitationsNext]_invitationVars

-----------------------------------------------------------------------------
(* Properties.                                                             *)

Mailed == \A o \in Op : mail[o].pc \in {"idle", "done"}

Agrees == entry.start = IF meeting.status = "cancelled" THEN None ELSE meeting.start

\* Every invite of a booking names the same organizer, though the settings change and
\* the first mails race: calendars match an update by its organizer.  Not when the row
\* could not be read or written, for which the sender or a candidate stands in.
OneOrganizer ==
    "unsettled" \notin slips =>
        \A o, p \in Op : Nobody \notin {signed[o], signed[p]} => signed[o] = signed[p]

\* Once every invite has arrived, the booker's calendar has the booking's time, in
\* whatever order the mails crossed; but for changes of one second, for a reassignment
\* that was followed by another change before its mail went out, which is numbered later
\* than that change, and for an invite of another organizer.
InvitesMayCross ==
    Mailed /\ slips \cap {"lost", "outrun", "alike", "unsettled"} = {} => Agrees

\* The answer on the booking is the booker's latest, once all have arrived and however
\* often, unless one overtook another or came when it was not taken.
RsvpIsLatest ==
    replies = {} /\ inbound = NoReply /\ slips \cap {"shuffled", "refused"} = {} =>
        rsvp = answered
=============================================================================
