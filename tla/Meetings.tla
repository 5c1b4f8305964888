------------------------------ MODULE Meetings ------------------------------
(***************************************************************************)
(* What hangs on a booking: the form it is made with (Questions), its      *)
(* manage links and reminder (Followups), its invites and the answers to   *)
(* them (Invitations), the recordings of the meeting (Recording) and their *)
(* transcripts and notes (Notetaker).  They share no state, and their      *)
(* steps interleave.                                                       *)
(***************************************************************************)
EXTENDS Naturals, FiniteSets

CONSTANTS
    Question, Option, Word, Ticks, Update,
    Mover, ByLink, Preferences, Troubles, MaxTroubles,
    Shifter, Swapper, MaxClock, MaxReplies, MaxSlips,
    Egress, Caller, Faults, MaxFaults,
    Take, MaxFailures

VARIABLES
    question, update, form, stored,
    booked, effects, links, letters, notify, reminder, sending, announced, flagged, spent, mishaps,
    clock, meeting, sender, mail, entry, signed, replies, answered, inbound, rsvp, slips,
    egress, news, row, file, banner, caller, crossed, strayed, hasty, dimmed,
    faults,
    recording, enabled, job, transcripts, notes, worker, regenerate, deleting, failures, history

Q == INSTANCE Questions

F == INSTANCE Followups WITH Faults <- Troubles, MaxFaults <- MaxTroubles

I == INSTANCE Invitations WITH Mover <- Shifter

R == INSTANCE Recording

N == INSTANCE Notetaker WITH Recording <- Take

\* A reschedule has a name of its own.
ASSUME MoverAssumption ==
    Mover \cap {"create", "cancel", F!None} = {} /\ ByLink \subseteq Mover

ASSUME InviteAssumption ==
    (Shifter \cup Swapper) \cap {"create", "cancel"} = {} /\ Shifter \cap Swapper = {}

\* The job of the summary is not one of a recording.
ASSUME TakeAssumption == N!Summarize \notin Take

qVars == <<question, update, form, stored>>

fVars == <<booked, effects, links, letters, notify, reminder, sending, announced, flagged,
           spent, mishaps>>

iVars == <<clock, meeting, sender, mail, entry, signed, replies, answered, inbound, rsvp, slips>>

rVars == <<egress, news, row, file, banner, caller, crossed, strayed, hasty, dimmed,
           faults>>

nVars == <<recording, enabled, job, transcripts, notes, worker, regenerate, deleting, failures,
           history>>

meetingsVars == <<qVars, fVars, iVars, rVars, nVars>>

MeetingsInit ==
    /\ Q!QuestionsInit /\ F!FollowupsInit /\ I!InvitationsInit /\ R!RecordingInit
    /\ N!NotetakerInit

QuestionsMove == Q!QuestionsNext /\ UNCHANGED <<fVars, iVars, rVars, nVars>>
FollowupsMove == F!FollowupsNext /\ UNCHANGED <<qVars, iVars, rVars, nVars>>
InvitesMove == I!InvitationsNext /\ UNCHANGED <<qVars, fVars, rVars, nVars>>
RoomsMove == R!RecordingNext /\ UNCHANGED <<qVars, fVars, iVars, nVars>>
NotesMove == N!NotetakerNext /\ UNCHANGED <<qVars, fVars, iVars, rVars>>

MeetingsNext == QuestionsMove \/ FollowupsMove \/ InvitesMove \/ RoomsMove \/ NotesMove

MeetingsSpec == MeetingsInit /\ [][MeetingsNext]_meetingsVars

-----------------------------------------------------------------------------
(* What each part promises, as the conjunction of the properties that its  *)
(* module states and explains.                                             *)

\* Questions: a booking holds the consent that was required of it when its answers were
\* checked, and no overlap of edits leaves a select question with an empty list.
FormIsSound == Q!ConsentOnRecord /\ Q!FormCanBeFilled

\* Followups: when the goroutines of a booking have ended, the reminder on file is for its
\* present time, the booker holds a link that works, no link mailed before a reschedule
\* does, every change was announced, and a confirmation that never left is flagged; but not
\* for a reschedule or a cancel that used up the 30 seconds it has for all of this.
BookerIsKeptInformed ==
    /\ F!ReminderFollows
    /\ F!BookerHoldsLink
    /\ F!OldLinksDie
    /\ F!ChangesAreKnown

\* Invitations: every invite of a booking names the same organizer, the booker's calendar
\* has the booking's time in whatever order the mails crossed, and the answer on the booking
\* is the booker's latest.
CalendarsAgree == I!OneOrganizer /\ I!InvitesMayCross /\ I!RsvpIsLatest

\* Recording: what runs can be stopped, a file in the bucket has a row through which it is
\* listed and deleted, and a room that records shows it to its participants, as far as
\* LiveKit and the database did what they were asked.
RecordingsAreInHand == R!CanBeStopped /\ R!FilesAreListed /\ R!BannerWhileRecording

\* Notetaker: one transcript per recording, all of them in the notes once the jobs have run,
\* and nothing left of a recording that was deleted, unless a statement failed unnoticed.
NotesMatchRecordings == N!OneTranscript /\ N!NotesCoverTranscripts /\ N!NothingLeft
=============================================================================
