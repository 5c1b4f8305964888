----------------------------- MODULE MCCalendar -----------------------------
(***************************************************************************)
(* The calendar event of a booking (CalendarSync) in two settings, of      *)
(* which each behaviour takes one: "overlap", where operations start while *)
(* the side effects of others still run, and "faults", with a second host, *)
(* a reassignment, crashes and lost answers.                               *)
(***************************************************************************)
EXTENDS CalendarSync

VARIABLES
    part,
    fStatus, fPriced, fPaid, fHost, fAt, fOver, fYoung, fSeat, fRow, fDirty,
    fEvent, fJob, fFaults

F == INSTANCE CalendarSync WITH
    Host <- {"ana", "bo"}, Connected <- {"ana"}, Mover <- {}, Reassigner <- {"r1"},
    Event <- {"e1", "e2", "e3"}, Prices <- {FALSE, TRUE}, MaxFaults <- 1,
    Faults <- {"apiError", "unreachable", "lostAnswer", "crash"},
    status <- fStatus, priced <- fPriced, paid <- fPaid, host <- fHost, at <- fAt,
    over <- fOver, young <- fYoung, seat <- fSeat, row <- fRow, dirty <- fDirty,
    event <- fEvent, job <- fJob, faults <- fFaults

fVars == <<fStatus, fPriced, fPaid, fHost, fAt, fOver, fYoung, fSeat, fRow, fDirty,
           fEvent, fJob, fFaults>>

mcVars == <<part, vars, fVars>>

\* A part that is not taken stays in one of its initial states.
MCInit ==
    /\ Init /\ F!Init
    /\ \/ part = "overlap" /\ fHost = "ana" /\ fPriced
       \/ part = "faults"

OverlapMoves == part = "overlap" /\ UNCHANGED <<part, fVars>>

FaultsMoves == part = "faults" /\ UNCHANGED <<part, vars>>

MCNext ==
    \/ OverlapMoves /\ Next
    \/ FaultsMoves /\ F!Next

\* The fairness of CalendarSync: a behaviour stays in its setting, so that one
\* condition serves both.
Either(a, b) == (OverlapMoves /\ a) \/ (FaultsMoves /\ b)

MCFairness ==
    /\ WF_mcVars(Either(GraceEnds, F!GraceEnds))
    /\ \A p \in Proc \cup F!Proc :
          /\ WF_mcVars(Either(p \in Proc /\ Step(p), p \in F!Proc /\ F!Step(p)))
          /\ WF_mcVars(Either(p \in Proc /\ (Call(p) \/ CallFails(p)),
                              p \in F!Proc /\ (F!Call(p) \/ F!CallFails(p))))
    /\ SF_mcVars(Either(CreateEvent("reconciler"), F!CreateEvent("reconciler")))
    /\ SF_mcVars(Either(UpdateEvent("reconciler"), F!UpdateEvent("reconciler")))
    /\ SF_mcVars(Either(DeleteEvent("reconciler"), F!DeleteEvent("reconciler")))

MCSpec == MCInit /\ [][MCNext]_mcVars /\ MCFairness

\* A host with a calendar who keeps an upcoming, paid-for booking gets an event
\* for it, whatever crashed or failed (see CalendarSync).
EventAppearsAfterFaults == part = "faults" => F!EventAppears
=============================================================================
