----------------------------- MODULE MCMeetings -----------------------------
(***************************************************************************)
(* Meetings for TLC: one part moves in each behaviour, so that the states  *)
(* of the parts add up and do not multiply.                                *)
(***************************************************************************)
EXTENDS Meetings, TLC

\* The invites are taken twice: while time passes and no answer comes, and the other way.
VARIABLE part

MCPreferences == {{"confirmation", "reschedule", "reminder"}, {"confirmation"}}

\* Updates of a question that overlap are alike, and so are requests about recordings and the
\* recordings that are transcribed, of which the cfg makes one and the same set; and so are
\* egresses.
Symmetry == {p @@ q : p \in Permutations(Update), q \in Permutations(Egress)}

mcVars == <<part, meetingsVars>>

\* A part that is not taken stays in one of its initial states.
MCInit ==
    /\ part \in {"questions", "followups", "invites", "answers", "rooms", "notes"}
    /\ MeetingsInit
    /\ part # "followups" => notify = {"confirmation"}
    /\ part \notin {"invites", "answers"} => sender = "rsvp"
    /\ part # "notes" => enabled

MCNext ==
    /\ UNCHANGED part
    /\ \/ part = "questions" /\ QuestionsMove
       \/ part = "followups" /\ FollowupsMove
       \/ part = "invites" /\ InvitesMove /\ UNCHANGED answered
       \/ part = "answers" /\ InvitesMove /\ UNCHANGED clock
       \/ part = "rooms" /\ RoomsMove
       \/ part = "notes" /\ NotesMove

MCSpec == MCInit /\ [][MCNext]_mcVars
=============================================================================
