------------------------- MODULE CalendarSyncProofs -------------------------
(***************************************************************************)
(* What holds of a booking's calendar event for every set of hosts, moves  *)
(* and event ids.                                                          *)
(***************************************************************************)
EXTENDS CalendarSync, TLAPS

USE SyncAssumption

-----------------------------------------------------------------------------
(* Types.                                                                  *)

Job == [pc: Place, on: Host, to: Host, at: Mover \cup {Booked},
        event: Event \cup {NoEvent}]

\* Where a job goes next is a place.
LEMMA NextPlace ==
    ASSUME NEW p \in Proc
    PROVE  PassAfter(p) \in Place /\ AfterError(p) \in Place
  <1>1. PassAfter(p) \in {"done", "creations", "reschedules", "cancellations"}
    BY Zenon DEF PassAfter
  <1>2. AfterError(p) \in {"create", "flag", PassAfter(p)}
    BY Zenon DEF AfterError
  <1>3. QED
    BY <1>1, <1>2 DEF Place

\* Goto moves one job.
LEMMA GotoMoves ==
    ASSUME job \in [Proc -> Job], NEW p \in Proc, NEW x \in Place, Goto(p, x)
    PROVE  /\ job' \in [Proc -> Job]
           /\ job'[p].pc = x /\ job'[p].on = job[p].on /\ job'[p].to = job[p].to
           /\ job'[p].at = job[p].at /\ job'[p].event = job[p].event
           /\ \A q \in Proc \ {p} : job'[q] = job[q]
  BY DEF Goto, Job

\* Two fields of one job are written: its place and its time...
LEMMA TimeWritten ==
    ASSUME job \in [Proc -> Job], NEW p \in Proc, NEW x \in Place,
           NEW t \in Mover \cup {Booked},
           job' = [job EXCEPT ![p].pc = x, ![p].at = t]
    PROVE  /\ job' \in [Proc -> Job]
           /\ job'[p].pc = x /\ job'[p].on = job[p].on /\ job'[p].to = job[p].to
           /\ \A q \in Proc \ {p} : job'[q] = job[q]
  <1>1. DOMAIN job' = Proc /\ \A q \in Proc \ {p} : job'[q] = job[q]
    OBVIOUS
  <1>2. job'[p] = [job[p] EXCEPT !.pc = x, !.at = t]
    OBVIOUS
  <1>3. /\ job'[p] \in Job /\ job'[p].pc = x
        /\ job'[p].on = job[p].on /\ job'[p].to = job[p].to
    <2>1. job[p] \in Job
      OBVIOUS
    <2>2. job'[p] \in Job
      BY <1>2, <2>1 DEF Job
    <2>3. QED
      BY <1>2, <2>1, <2>2 DEF Job
  <1>4. job' \in [Proc -> Job]
    BY <1>1, <1>3
  <1>5. QED
    BY <1>1, <1>3, <1>4

\* ...or its place and its event.
LEMMA EventWritten ==
    ASSUME job \in [Proc -> Job], NEW p \in Proc, NEW x \in Place,
           NEW e \in Event \cup {NoEvent},
           job' = [job EXCEPT ![p].pc = x, ![p].event = e]
    PROVE  /\ job' \in [Proc -> Job]
           /\ job'[p].pc = x /\ job'[p].event = e
           /\ job'[p].on = job[p].on /\ job'[p].to = job[p].to
           /\ \A q \in Proc \ {p} : job'[q] = job[q]
  <1>1. DOMAIN job' = Proc /\ \A q \in Proc \ {p} : job'[q] = job[q]
    OBVIOUS
  <1>2. job'[p] = [job[p] EXCEPT !.pc = x, !.event = e]
    OBVIOUS
  <1>3. /\ job'[p] \in Job /\ job'[p].pc = x /\ job'[p].event = e
        /\ job'[p].on = job[p].on /\ job'[p].to = job[p].to
    <2>1. job[p] \in Job
      OBVIOUS
    <2>2. job'[p] \in Job
      BY <1>2, <2>1 DEF Job
    <2>3. QED
      BY <1>2, <2>1, <2>2 DEF Job
  <1>4. job' \in [Proc -> Job]
    BY <1>1, <1>3
  <1>5. QED
    BY <1>1, <1>3, <1>4

\* ...and a load writes three.
LEMMA SeatLoaded ==
    ASSUME TypeOK, NEW p \in Proc, NEW pc \in Place, SeatLoad(p, pc)
    PROVE  /\ job' \in [Proc -> Job]
           /\ \A q \in Proc \ {p} : job'[q] = job[q]
           /\ job'[p].on \in {job[p].on, host} /\ job'[p].to = job[p].to
           /\ IF seat = NoEvent THEN job'[p].pc = "done"
              ELSE job'[p].pc = pc /\ job'[p].event = seat
  <1>1. job \in [Proc -> Job] /\ host \in Host /\ seat \in Event \cup {NoEvent}
    BY DEF TypeOK, Job
  <1>2. CASE seat = NoEvent
    <2>1. Goto(p, "done") /\ "done" \in Place
      BY <1>2 DEF SeatLoad, Place
    <2>2. QED
      BY <1>1, <1>2, <2>1, GotoMoves
  <1>3. CASE seat # NoEvent
    <2>1. job' = [job EXCEPT ![p].pc = pc, ![p].on = host, ![p].event = seat]
      BY <1>3 DEF SeatLoad
    <2>2. DOMAIN job' = Proc /\ \A q \in Proc \ {p} : job'[q] = job[q]
      BY <1>1, <2>1
    <2>3. job'[p] = [job[p] EXCEPT !.pc = pc, !.on = host, !.event = seat]
      BY <1>1, <2>1
    <2>4. /\ job'[p] \in Job /\ job'[p].pc = pc /\ job'[p].event = seat
          /\ job'[p].on = host /\ job'[p].to = job[p].to
      BY <1>1, <2>3, ZenonT(40) DEF Job
    <2>5. job' \in [Proc -> Job]
      BY <1>1, <2>1, <2>2, <2>4
    <2>6. QED
      BY <1>3, <2>2, <2>4, <2>5
  <1>4. QED
    BY <1>2, <1>3

\* The confirm of a paid booking loads its present host.
LEMMA ConfirmLoaded ==
    ASSUME TypeOK, ConfirmLoad
    PROVE  /\ job' \in [Proc -> Job]
           /\ \A q \in Proc \ {"confirm"} : job'[q] = job[q]
           /\ job'["confirm"].pc = "create"
           /\ job'["confirm"].on = host /\ job'["confirm"].to = host
  <1>1. job \in [Proc -> Job] /\ host \in Host /\ "confirm" \in Proc
    BY DEF TypeOK, Job, Proc
  <1>2. job' = [job EXCEPT !["confirm"].pc = "create",
                           !["confirm"].on = host, !["confirm"].to = host]
    BY DEF ConfirmLoad
  <1>3. DOMAIN job' = Proc /\ \A q \in Proc \ {"confirm"} : job'[q] = job[q]
    BY <1>1, <1>2
  <1>4. job'["confirm"] = [job["confirm"] EXCEPT !.pc = "create", !.on = host, !.to = host]
    BY <1>1, <1>2
  <1>5. /\ job'["confirm"] \in Job /\ job'["confirm"].pc = "create"
        /\ job'["confirm"].on = host /\ job'["confirm"].to = host
    BY <1>1, <1>4, ZenonT(40) DEF Job, Place
  <1>6. job' \in [Proc -> Job]
    BY <1>1, <1>2, <1>3, <1>5
  <1>7. QED
    BY <1>3, <1>5, <1>6

\* What the jobs read.
LEMMA LoadType ==
    ASSUME TypeOK, NEW p \in Proc,
           \/ p = "confirm" /\ ConfirmLoad
           \/ SeatLoad(p, "update") \/ SeatLoad(p, "delete")
           \/ p = "reconciler" /\ (reconcileCancellations \/ reconcileCreations
                                      \/ reconcileReschedules)
    PROVE  TypeOK'
  <1>1. job \in [Proc -> Job]
    BY DEF TypeOK, Job
  <1>2. job' \in [Proc -> Job]
    <2>1. CASE p = "confirm" /\ ConfirmLoad
      BY <2>1, ConfirmLoaded
    <2>2. ASSUME NEW pc \in {"update", "delete"}, SeatLoad(p, pc) PROVE job' \in [Proc -> Job]
      BY <2>2, SeatLoaded DEF Place
    <2>3. ASSUME NEW from, NEW found, NEW pc \in Place, NEW next \in Place,
                 p = "reconciler", Pass(from, found, pc, next)
          PROVE  job' \in [Proc -> Job]
      BY <1>1, <2>3, GotoMoves DEF Pass, Job, TypeOK
    <2>4. QED
      BY <2>1, <2>2, <2>3
         DEF reconcileCancellations, reconcileCreations, reconcileReschedules, Place
  <1>3. UNCHANGED <<booking, ids, event, faults>>
    BY DEF ConfirmLoad, SeatLoad, Pass, reconcileCancellations, reconcileCreations,
           reconcileReschedules
  <1>4. QED
    BY <1>2, <1>3 DEF TypeOK, Job, booking, ids

\* Calls to the provider.
LEMMA CallType ==
    ASSUME TypeOK, NEW p \in Proc,
           Call(p) \/ CallFails(p) \/ CallRefused(p) \/ CreateAnswerLost(p)
    PROVE  TypeOK'
  <1> DEFINE Events == [Event -> [state: {"unused", "live", "gone"}, on: Host,
                                  at: Mover \cup {Booked}]]
  <1>1. job \in [Proc -> Job] /\ event \in Events /\ faults \in 0..MaxFaults
    BY DEF TypeOK, Job
  <1>2. PassAfter(p) \in Place /\ AfterError(p) \in Place
    BY NextPlace
  <1>3. Fresh # {} => FreshId \in Event
    BY DEF Fresh, FreshId
  <1>4. Put(p) \in [state: {"unused", "live", "gone"}, on: Host, at: Mover \cup {Booked}]
    BY <1>1 DEF Put, Job
  <1>5. CASE CreateEvent(p)
    <2> DEFINE save == IF p \in Reassigner THEN "saveRow" ELSE "saveSeat"
    <2>1. save \in Place
      BY DEF Place
    <2>2. CASE job[p].to \in Connected
      <3>1. /\ FreshId \in Event
            /\ event' = [event EXCEPT ![FreshId] = Put(p)]
            /\ job' = [job EXCEPT ![p].pc = save, ![p].event = FreshId]
        BY <1>3, <1>5, <2>2 DEF CreateEvent
      <3> HIDE DEF save
      <3>2. event' \in Events
        BY <1>1, <1>4, <3>1
      <3>3. job' \in [Proc -> Job]
        BY <1>1, <2>1, <3>1, EventWritten
      <3>4. QED
        BY <1>5, <3>2, <3>3 DEF CreateEvent, TypeOK, Job, booking, ids
    <2>3. CASE job[p].to \notin Connected
      <3> DEFINE next == IF p \in Reassigner THEN save ELSE PassAfter(p)
      <3>1. next \in Place
        BY <1>2, <2>1
      <3>2. event' = event /\ job' = [job EXCEPT ![p].pc = next, ![p].event = NoEvent]
        BY <1>5, <2>3 DEF CreateEvent
      <3> HIDE DEF next
      <3>3. job' \in [Proc -> Job]
        BY <1>1, <3>1, <3>2, EventWritten
      <3>4. QED
        BY <1>5, <3>2, <3>3 DEF CreateEvent, TypeOK, Job, booking, ids
    <2>4. QED
      BY <2>2, <2>3
  <1>6. CASE UpdateEvent(p)
    <2>1. job' \in [Proc -> Job]
      BY <1>1, <1>2, <1>6, GotoMoves DEF UpdateEvent, Place
    <2>2. event' \in Events
      BY <1>1, <1>6 DEF UpdateEvent, Job
    <2>3. QED
      BY <1>6, <2>1, <2>2 DEF UpdateEvent, TypeOK, Job, booking, ids
  <1>7. CASE DeleteEvent(p)
    <2>1. job' \in [Proc -> Job]
      BY <1>1, <1>7, GotoMoves DEF DeleteEvent, Place
    <2>2. event' \in Events
      BY <1>1, <1>7 DEF DeleteEvent
    <2>3. QED
      BY <1>7, <2>1, <2>2 DEF DeleteEvent, TypeOK, Job, booking, ids
  <1>8. CASE CallFails(p)
    <2>1. job' \in [Proc -> Job]
      BY <1>1, <1>2, <1>8, GotoMoves DEF CallFails
    <2>2. QED
      BY <1>8, <2>1 DEF CallFails, TypeOK, Job, booking, ids
  <1>9. CASE CallRefused(p)
    <2> DEFINE next == IF p # "reconciler" THEN AfterError(p)
                       ELSE IF job[p].pc = "update" THEN "clear" ELSE "forgetSeat"
    <2>1. next \in Place /\ Goto(p, next)
      BY <1>2, <1>9 DEF CallRefused, Place
    <2> HIDE DEF next
    <2>2. job' \in [Proc -> Job]
      BY <1>1, <2>1, GotoMoves
    <2>3. QED
      BY <1>9, <2>2 DEF CallRefused, TypeOK, Job, booking, ids
  <1>10. CASE CreateAnswerLost(p)
    <2>1. job' \in [Proc -> Job]
      BY <1>1, <1>2, <1>10, GotoMoves DEF CreateAnswerLost
    <2>2. event' \in Events
      BY <1>1, <1>3, <1>4, <1>10 DEF CreateAnswerLost
    <2>3. faults' \in 0..MaxFaults
      BY <1>1, <1>10 DEF CreateAnswerLost
    <2>4. QED
      BY <1>10, <2>1, <2>2, <2>3 DEF CreateAnswerLost, TypeOK, Job, booking, ids
  <1>11. QED
    BY <1>5, <1>6, <1>7, <1>8, <1>9, <1>10 DEF Call

\* Statements.
LEMMA SaveType ==
    ASSUME TypeOK, NEW p \in Proc,
           \/ p \in Reassigner /\ ReassignCommit(p)
           \/ SaveSeat(p) \/ SaveRow(p) \/ ForgetSeat(p) \/ ForgetRow(p) \/ setNeedsSync(p)
    PROVE  TypeOK'
  <1>1. job \in [Proc -> Job]
    BY DEF TypeOK, Job
  <1>2. PassAfter(p) \in Place
    BY NextPlace
  <1>3. job[p].event \in Event \cup {NoEvent} /\ job[p].to \in Host
    BY <1>1 DEF Job
  <1>4. CASE p \in Reassigner /\ ReassignCommit(p)
    <2>1. CASE status = "confirmed"
      <3> DEFINE next == IF job[p].event = NoEvent THEN "create" ELSE "delete"
      <3>1. next \in Place /\ job' = [job EXCEPT ![p].pc = next, ![p].at = at]
        BY <1>4, <2>1 DEF ReassignCommit, Place
      <3> HIDE DEF next
      <3>2. job' \in [Proc -> Job]
        BY <1>1, <3>1, TimeWritten DEF TypeOK
      <3>3. QED
        BY <1>3, <1>4, <2>1, <3>2 DEF ReassignCommit, TypeOK, Job
    <2>2. CASE status # "confirmed"
      <3>1. job' \in [Proc -> Job]
        BY <1>1, <1>4, <2>2, GotoMoves DEF ReassignCommit, Place
      <3>2. QED
        BY <1>4, <2>2, <3>1 DEF ReassignCommit, TypeOK, Job
    <2>3. QED
      BY <2>1, <2>2
  <1>5. CASE SaveSeat(p)
    <2>1. job' \in [Proc -> Job]
      BY <1>1, <1>5, GotoMoves DEF SaveSeat, Place
    <2>2. QED
      BY <1>3, <1>5, <2>1 DEF SaveSeat, TypeOK, Job, booking
  <1>6. CASE SaveRow(p)
    <2>1. job' \in [Proc -> Job]
      BY <1>1, <1>2, <1>6, GotoMoves DEF SaveRow, Place
    <2>2. QED
      BY <1>3, <1>6, <2>1 DEF SaveRow, TypeOK, Job, booking
  <1>7. CASE ForgetSeat(p)
    <2>1. job' \in [Proc -> Job]
      BY <1>1, <1>2, <1>7, GotoMoves DEF ForgetSeat, Place
    <2>2. QED
      BY <1>7, <2>1 DEF ForgetSeat, TypeOK, Job, booking
  <1>8. CASE ForgetRow(p)
    <2>1. job' \in [Proc -> Job]
      BY <1>1, <1>8, GotoMoves DEF ForgetRow, Place
    <2>2. QED
      BY <1>8, <2>1 DEF ForgetRow, TypeOK, Job, booking
  <1>9. CASE setNeedsSync(p)
    <2>1. job' \in [Proc -> Job]
      BY <1>1, <1>2, <1>9, GotoMoves DEF setNeedsSync
    <2>2. dirty' \in BOOLEAN
      BY <1>9 DEF setNeedsSync, TypeOK
    <2>3. QED
      BY <1>9, <2>1, <2>2 DEF setNeedsSync, TypeOK, Job, booking
  <1>10. QED
    BY <1>4, <1>5, <1>6, <1>7, <1>8, <1>9

\* The columns, the provider's events and the jobs keep their types, whatever
\* overlaps, fails or crashes.
THEOREM TypeCorrect == Spec => []TypeOK
  <1>1. Init => TypeOK
    <2> SUFFICES ASSUME Init PROVE TypeOK
      OBVIOUS
    <2> DEFINE pc(p) == CASE p = "confirm" /\ ~priced -> "load"
                          [] p = "reconciler" -> "cancellations"
                          [] OTHER -> "idle"
    <2>1. /\ status = "confirmed" /\ priced \in Prices /\ paid = ~priced
          /\ host \in Host /\ at = Booked /\ over = FALSE /\ young = TRUE
          /\ seat = NoEvent /\ row = NoEvent /\ dirty = FALSE /\ faults = 0
          /\ event = [e \in Event |-> [state |-> "unused", on |-> host, at |-> Booked]]
          /\ job = [p \in Proc |-> [pc |-> pc(p), on |-> host, to |-> host, at |-> Booked,
                                    event |-> NoEvent]]
      BY Zenon DEF Init
    <2>2. ASSUME NEW p \in Proc PROVE pc(p) \in {"load", "cancellations", "idle"}
      BY Zenon
    <2> HIDE DEF pc
    <2>3. job \in [Proc -> Job]
      BY <2>1, <2>2 DEF Job, Place
    <2> HIDE DEF Init
    <2>4. event \in [Event -> [state: {"unused", "live", "gone"}, on: Host,
                               at: Mover \cup {Booked}]]
      BY <2>1
    <2>5. {priced, paid, over, young, dirty} \subseteq BOOLEAN
      BY <2>1
    <2>6. QED
      BY <2>1, <2>3, <2>4, <2>5 DEF TypeOK, Job
  <1>2. TypeOK /\ [Next]_vars => TypeOK'
    <2> SUFFICES ASSUME TypeOK, [Next]_vars PROVE TypeOK'
      OBVIOUS
    <2>1. job \in [Proc -> Job]
      BY DEF TypeOK, Job
    <2>2. CASE Settle
      <3>1. job' \in [Proc -> Job]
        BY <2>1, <2>2, TimeWritten DEF Settle, Place, TypeOK, Proc
      <3>2. QED
        BY <2>2, <3>1 DEF Settle, TypeOK, Job, ids
    <2>3. CASE ReleaseHold
      BY <2>3 DEF ReleaseHold, TypeOK, ids
    <2>4. CASE Cancel
      <3>1. job' \in [Proc -> Job]
        BY <2>1, <2>4, GotoMoves DEF Cancel, Place, Proc
      <3>2. QED
        BY <2>4, <3>1 DEF Cancel, TypeOK, Job
    <2>5. ASSUME NEW m \in Mover, Reschedule(m) PROVE TypeOK'
      <3>1. job' \in [Proc -> Job]
        BY <2>1, <2>5, TimeWritten DEF Reschedule, Place, Proc
      <3>2. QED
        BY <2>5, <3>1 DEF Reschedule, TypeOK, Job, ids
    <2>6. ASSUME NEW r \in Reassigner, NEW h \in Host, ReassignLoad(r, h) PROVE TypeOK'
      <3>1. job' \in [Proc -> Job]
        BY <2>1, <2>6 DEF ReassignLoad, Job, Place, TypeOK
      <3>2. QED
        BY <2>6, <3>1 DEF ReassignLoad, TypeOK, Job, ids, booking
    <2>7. CASE GraceEnds
      BY <2>7 DEF GraceEnds, TypeOK, ids
    <2>8. CASE MeetingEnds
      BY <2>8 DEF MeetingEnds, TypeOK, ids
    <2>9. CASE Crash
      <3>1. ASSUME NEW p \in Proc
            PROVE  [job[p] EXCEPT !.pc = IF p = "reconciler" THEN "cancellations"
                                         ELSE IF Rests(p) THEN job[p].pc ELSE "done"] \in Job
        BY <2>1 DEF Job, Place
      <3>2. job' \in [Proc -> Job]
        BY <2>9, <3>1 DEF Crash
      <3>3. QED
        BY <2>9, <3>2 DEF Crash, TypeOK, Job, ids, booking
    <2>10. ASSUME NEW p \in Proc, Step(p) PROVE TypeOK'
      BY <2>10, LoadType, SaveType DEF Step
    <2>11. ASSUME NEW p \in Proc,
                  Call(p) \/ CallFails(p) \/ CallRefused(p) \/ CreateAnswerLost(p)
           PROVE  TypeOK'
      BY <2>11, CallType
    <2>12. CASE UNCHANGED vars
      BY <2>12 DEF vars, booking, ids, TypeOK
    <2>13. QED
      BY <2>2, <2>3, <2>4, <2>5, <2>6, <2>7, <2>8, <2>9, <2>10, <2>11, <2>12 DEF Next
  <1>3. QED
    BY <1>1, <1>2, PTL DEF Spec
-----------------------------------------------------------------------------
(* One event, and never an orphan.                                         *)

\* A free event type, no reassignment, and a provider that may refuse any call
\* but does what it confirms; operations overlap as they like.
Undisturbed ==
    /\ Prices \subseteq {FALSE} /\ Reassigner = {}
    /\ Faults \subseteq {"overlap", "apiError"}

\* Where each job can be.
Places ==
    /\ job["confirm"].pc \in {"load", "create", "saveSeat", "saveRow", "done"}
    /\ job["cancel"].pc \in {"idle", "load", "delete", "forgetSeat", "forgetRow", "done"}
    /\ job["reconciler"].pc \in
          {"cancellations", "creations", "reschedules", "delete", "forgetSeat",
           "create", "saveSeat", "saveRow", "update", "clear"}
    /\ \A m \in Mover : job[m].pc \in {"idle", "load", "update", "clear", "flag", "done"}

\* Nothing is owed, the host stays, and a cancel is not taken back.
Settled ==
    /\ paid /\ ~priced
    /\ \A p \in Proc : job[p].on = host /\ job[p].to = host
    /\ job["cancel"].pc # "idle" => status = "cancelled"

\* The grace period keeps the reconciler's create apart from the inline one.
Graced ==
    /\ job["confirm"].pc # "done" => young
    /\ job["reconciler"].pc \in {"create", "saveSeat", "saveRow"} => ~young

Creator == {"confirm", "reconciler"}

ToCreate == job["confirm"].pc = "load" \/ \E p \in Creator : job[p].pc = "create"

Creating == ToCreate \/ \E p \in Creator : job[p].pc = "saveSeat"

\* Who knows the event: nobody while there is none to know, its creator until
\* it is recorded, and then the seat.
Known ==
    /\ ToCreate => seat = NoEvent /\ Live = {}
    /\ \A p \in Creator : job[p].pc = "saveSeat" =>
          seat = NoEvent /\ Live \subseteq {job[p].event}
    /\ ~Creating => Live \subseteq {seat}

\* A job that deletes has the event of the seat, for a booking that will not
\* get another, and it clears the seat after the event is gone.
Deleting ==
    \A p \in {"cancel", "reconciler"} : job[p].pc \in {"delete", "forgetSeat"} =>
        /\ status = "cancelled" /\ ~Creating
        /\ seat \in {job[p].event, NoEvent}
        /\ job[p].pc = "forgetSeat" => Live = {}

Inv == Places /\ Settled /\ Graced /\ Known /\ Deleting

\* The jobs of a booking are different ones.
LEMMA Jobs ==
    ASSUME Undisturbed
    PROVE  /\ {"confirm", "cancel", "reconciler"} \subseteq Proc
           /\ Proc = {"confirm", "cancel", "reconciler"} \cup Mover
           /\ "confirm" \notin Mover /\ "cancel" \notin Mover /\ "reconciler" \notin Mover
  BY DEF Undisturbed, Proc

\* The calls change the events on the calendars by at most one.
LEMMA LiveAfter ==
    ASSUME TypeOK, NEW p \in Proc
    PROVE  /\ UNCHANGED event => Live' = Live
           /\ Fresh # {} /\ event' = [event EXCEPT ![FreshId] = Put(p)]
                => FreshId \in Event /\ Live' = Live \cup {FreshId}
           /\ UpdateEvent(p) => Live' = Live
           /\ DeleteEvent(p) => Live' = Live \ {job[p].event}
  <1> DEFINE Ev == [state: {"unused", "live", "gone"}, on: Host, at: Mover \cup {Booked}]
  <1>1. event \in [Event -> Ev] /\ job[p].at \in Mover \cup {Booked}
    BY DEF TypeOK
  <1>2. UNCHANGED event => Live' = Live
    BY DEF Live
  <1>3. ASSUME Fresh # {}, event' = [event EXCEPT ![FreshId] = Put(p)]
        PROVE  FreshId \in Event /\ Live' = Live \cup {FreshId}
    <2>1. FreshId \in Event
      BY <1>3 DEF Fresh, FreshId
    <2>2. Put(p).state = "live"
      BY DEF Put
    <2>3. event'[FreshId].state = "live" /\ \A e \in Event \ {FreshId} : event'[e] = event[e]
      BY <1>1, <1>3, <2>1, <2>2
    <2>4. QED
      BY <2>1, <2>3 DEF Live
  <1>4. ASSUME UpdateEvent(p) PROVE Live' = Live
    <2>1. CASE job[p].event \in Live
      <3>1. event' = [event EXCEPT ![job[p].event].at = job[p].at] /\ job[p].event \in Event
        BY <1>4, <2>1 DEF UpdateEvent, Live
      <3>2. event'[job[p].event] = [event[job[p].event] EXCEPT !.at = job[p].at]
        BY <1>1, <3>1
      <3>3. event[job[p].event] \in Ev
        BY <1>1, <3>1
      <3>4. event'[job[p].event].state = event[job[p].event].state
        BY <3>2, <3>3
      <3>5. \A e \in Event \ {job[p].event} : event'[e] = event[e]
        BY <1>1, <3>1
      <3>6. QED
        BY <3>4, <3>5 DEF Live
    <2>2. CASE job[p].event \notin Live
      BY <1>2, <1>4, <2>2 DEF UpdateEvent
    <2>3. QED
      BY <2>1, <2>2
  <1>5. ASSUME DeleteEvent(p) PROVE Live' = Live \ {job[p].event}
    <2>1. event' = [event EXCEPT ![job[p].event].state = "gone"]
      BY <1>5 DEF DeleteEvent
    <2>2. \A e \in Event \ {job[p].event} : event'[e] = event[e]
      BY <1>1, <2>1
    <2>3. ASSUME job[p].event \in Event PROVE event'[job[p].event].state = "gone"
      <3>1. event'[job[p].event] = [event[job[p].event] EXCEPT !.state = "gone"]
        BY <1>1, <2>1, <2>3
      <3>2. event[job[p].event] \in Ev
        BY <1>1, <2>3
      <3>3. QED
        BY <3>1, <3>2
    <2>4. QED
      BY <2>2, <2>3 DEF Live
  <1>6. QED
    BY <1>2, <1>3, <1>4, <1>5

\* Where a job that is done with a call or a statement goes.
LEMMA Onward ==
    ASSUME Undisturbed, NEW p \in Proc
    PROVE  /\ p # "reconciler" => PassAfter(p) = "done"
           /\ p = "reconciler" =>
                /\ job[p].pc \in {"delete", "forgetSeat"} => PassAfter(p) = "creations"
                /\ job[p].pc \in {"create", "saveRow"} => PassAfter(p) = "reschedules"
                /\ job[p].pc \in {"update", "clear"} => PassAfter(p) = "cancellations"
           /\ AfterError(p) = IF p \in Mover THEN "flag" ELSE PassAfter(p)
  <1>1. p # "reconciler" => PassAfter(p) = "done"
    BY Zenon DEF PassAfter
  <1>2. ASSUME p = "reconciler"
        PROVE  PassAfter(p) = IF job[p].pc \in {"delete", "forgetSeat"} THEN "creations"
                              ELSE IF job[p].pc \in {"create", "saveRow"} THEN "reschedules"
                              ELSE "cancellations"
    BY <1>2, Zenon DEF PassAfter
  <1>3. p \notin Reassigner
    BY DEF Undisturbed
  <1>4. AfterError(p) = IF p \in Mover THEN "flag" ELSE PassAfter(p)
    BY <1>3, Zenon DEF AfterError
  <1> HIDE DEF PassAfter, AfterError
  <1>5. QED
    BY <1>1, <1>2, <1>4

\* A create that is not a reassign's leaves the new event's id with the job; for
\* a host without a calendar it does nothing.
LEMMA Created ==
    ASSUME Undisturbed, TypeOK, NEW p \in Proc, CreateEvent(p)
    PROVE  /\ \A q \in Proc \ {p} : job'[q] = job[q]
           /\ job'[p].on = job[p].on /\ job'[p].to = job[p].to
           /\ \/ /\ Live' = Live \cup {job'[p].event} /\ job'[p].pc = "saveSeat"
              \/ /\ Live' = Live /\ job'[p].pc = PassAfter(p)
  <1>1. job \in [Proc -> Job] /\ p \notin Reassigner
    BY DEF TypeOK, Job, Undisturbed
  <1>2. PassAfter(p) \in Place /\ "saveSeat" \in Place
    BY NextPlace DEF Place
  <1>3. CASE job[p].to \in Connected
    <2>1. /\ Fresh # {} /\ event' = [event EXCEPT ![FreshId] = Put(p)]
          /\ job' = [job EXCEPT ![p].pc = "saveSeat", ![p].event = FreshId]
      BY <1>1, <1>3 DEF CreateEvent
    <2>2. FreshId \in Event /\ Live' = Live \cup {FreshId}
      BY <2>1, LiveAfter
    <2>3. PICK e : e = FreshId
      OBVIOUS
    <2>4. job' = [job EXCEPT ![p].pc = "saveSeat", ![p].event = e]
      BY <2>1, <2>3
    <2>5. \A q \in Proc \ {p} : job'[q] = job[q]
      BY <1>1, <2>4
    <2>6. job'[p] = [job[p] EXCEPT !.pc = "saveSeat", !.event = e]
      BY <1>1, <2>4
    <2>7. job[p] \in Job
      BY <1>1
    <2>8. /\ job'[p].pc = "saveSeat" /\ job'[p].event = e
          /\ job'[p].on = job[p].on /\ job'[p].to = job[p].to
      BY <2>6, <2>7 DEF Job
    <2>9. QED
      BY <2>2, <2>3, <2>5, <2>8
  <1>4. CASE job[p].to \notin Connected
    <2>1. PICK x \in Place : x = PassAfter(p)
      BY <1>2
    <2>2. event' = event /\ job' = [job EXCEPT ![p].pc = x, ![p].event = NoEvent]
      BY <1>1, <1>4, <2>1 DEF CreateEvent
    <2>3. /\ job'[p].pc = x
          /\ job'[p].on = job[p].on /\ job'[p].to = job[p].to
          /\ \A q \in Proc \ {p} : job'[q] = job[q]
      BY <1>1, <2>2, EventWritten
    <2>4. QED
      BY <2>1, <2>2, <2>3, LiveAfter
  <1>5. QED
    BY <1>3, <1>4

\* dispatchBookingConfirmation creates while nobody else can.
LEMMA ConfirmStep ==
    ASSUME Undisturbed, TypeOK, Inv,
           Step("confirm") \/ Call("confirm") \/ CallFails("confirm")
    PROVE  Inv'
  <1> DEFINE p == "confirm"
  <1>1. /\ job \in [Proc -> Job] /\ p \in Proc /\ p \notin Reassigner /\ p \notin Mover
        /\ {"confirm", "cancel", "reconciler"} \cup Mover = Proc
        /\ {"cancel", "reconciler"} \cup Mover = Proc \ {p}
    BY Jobs DEF TypeOK, Job, Undisturbed
  <1>2. job[p].pc \in {"load", "create", "saveSeat", "saveRow"} => 
          /\ job["reconciler"].pc \notin {"create", "saveSeat", "saveRow"}
          /\ job[p].pc # "saveRow" => ~ job["cancel"].pc \in {"delete", "forgetSeat"}
          /\ job[p].pc # "saveRow" => ~ job["reconciler"].pc \in {"delete", "forgetSeat"}
    BY DEF Inv, Graced, Deleting, Creating, ToCreate, Creator
  <1>3. job[p].pc \in {"load", "create", "saveSeat", "saveRow", "done"}
    BY DEF Inv, Places
  <1>4. PassAfter(p) = "done" /\ AfterError(p) = "done"
    BY <1>1, Onward
  <1>a. ASSUME UNCHANGED booking,
               \A q \in Proc \ {p} : job'[q] = job[q],
               job'[p].on = host, job'[p].to = host,
               job[p].pc # "done",
               job'[p].pc \in {"create", "saveSeat", "saveRow", "done"},
               Known', Deleting'
        PROVE  Inv'
    <2>1. Places'
      BY <1>1, <1>a DEF Places, Inv
    <2>2. Settled'
      BY <1>1, <1>a DEF Settled, Inv, booking
    <2>3. Graced'
      BY <1>1, <1>a DEF Graced, Inv, booking
    <2>4. QED
      BY <1>a, <2>1, <2>2, <2>3 DEF Inv
  <1>5. CASE ConfirmLoad
    <2>1. /\ \A q \in Proc \ {p} : job'[q] = job[q]
          /\ job'[p].pc = "create" /\ job'[p].on = host /\ job'[p].to = host
          /\ job[p].pc = "load"
      BY <1>5, ConfirmLoaded DEF ConfirmLoad
    <2>2. Live' = Live /\ seat' = seat /\ status' = status /\ UNCHANGED booking
      BY <1>1, <1>5, LiveAfter DEF ConfirmLoad, ids, booking
    <2>3. Known'
      BY <1>1, <1>2, <2>1, <2>2 DEF Inv, Known, Creating, ToCreate, Creator
    <2>4. Deleting'
      BY <1>1, <1>2, <2>1, <2>2 DEF Deleting
    <2>5. QED
      BY <1>a, <2>1, <2>2, <2>3, <2>4
  <1>6. CASE CreateEvent(p)
    <2>1. job[p].pc = "create" /\ UNCHANGED <<booking, ids>> /\ seat' = seat
      BY <1>6 DEF CreateEvent, ids
    <2>2. /\ \A q \in Proc \ {p} : job'[q] = job[q]
          /\ job'[p].on = job[p].on /\ job'[p].to = job[p].to
          /\ \/ /\ Live' = Live \cup {job'[p].event} /\ job'[p].pc = "saveSeat"
             \/ /\ Live' = Live /\ job'[p].pc = "done"
      BY <1>1, <1>4, <1>6, Created
    <2>3. Known'
      BY <1>1, <1>2, <2>1, <2>2 DEF Inv, Known, Creating, ToCreate, Creator
    <2>4. Deleting'
      BY <1>1, <1>2, <2>1, <2>2 DEF Deleting
    <2>5. QED
      BY <1>1, <1>a, <2>1, <2>2, <2>3, <2>4 DEF Inv, Settled
  <1>7. CASE CallFails(p)
    <2>1. /\ job[p].pc = "create" /\ UNCHANGED <<booking, ids, event>> /\ seat' = seat
          /\ Goto(p, "done")
      BY <1>3, <1>4, <1>7 DEF CallFails, ids
    <2>2. /\ job'[p].pc = "done" /\ job'[p].on = job[p].on /\ job'[p].to = job[p].to
          /\ \A q \in Proc \ {p} : job'[q] = job[q]
      BY <1>1, <2>1, GotoMoves DEF Place
    <2>3. Live' = Live
      BY <1>1, <2>1, LiveAfter
    <2>4. Known'
      BY <1>1, <1>2, <2>1, <2>2, <2>3 DEF Inv, Known, Creating, ToCreate, Creator
    <2>5. Deleting'
      BY <1>1, <1>2, <2>1, <2>2 DEF Deleting
    <2>6. QED
      BY <1>1, <1>a, <2>1, <2>2, <2>4, <2>5 DEF Inv, Settled
  <1>8. CASE SaveSeat(p)
    <2>1. job[p].to = host
      BY <1>1 DEF Inv, Settled
    <2>2. /\ job[p].pc = "saveSeat" /\ UNCHANGED <<booking, event>>
          /\ seat' = job[p].event /\ Goto(p, "saveRow")
      BY <1>1, <1>8, <2>1 DEF SaveSeat
    <2>3. /\ job'[p].pc = "saveRow" /\ job'[p].on = job[p].on /\ job'[p].to = job[p].to
          /\ \A q \in Proc \ {p} : job'[q] = job[q]
      BY <1>1, <2>2, GotoMoves DEF Place
    <2>4. Live' = Live
      BY <1>1, <2>2, LiveAfter
    <2>5. Known'
      BY <1>1, <1>2, <2>2, <2>3, <2>4 DEF Inv, Known, Creating, ToCreate, Creator
    <2>6. Deleting'
      BY <1>1, <1>2, <2>2, <2>3 DEF Deleting
    <2>7. QED
      BY <1>1, <1>a, <2>2, <2>3, <2>5, <2>6 DEF Inv, Settled
  <1>9. CASE SaveRow(p)
    <2>1. /\ job[p].pc = "saveRow" /\ UNCHANGED <<booking, event, seat>>
          /\ Goto(p, "done") /\ status' = status
      BY <1>1, <1>4, <1>9 DEF SaveRow, booking
    <2>2. /\ job'[p].pc = "done" /\ job'[p].on = job[p].on /\ job'[p].to = job[p].to
          /\ \A q \in Proc \ {p} : job'[q] = job[q]
      BY <1>1, <2>1, GotoMoves DEF Place
    <2>3. Live' = Live
      BY <1>1, <2>1, LiveAfter
    <2>4. Known'
      BY <1>1, <2>1, <2>2, <2>3 DEF Inv, Known, Creating, ToCreate, Creator
    <2>5. Deleting'
      BY <1>1, <2>1, <2>2, <2>3 DEF Inv, Deleting, Creating, ToCreate, Creator
    <2>6. QED
      BY <1>1, <1>a, <2>1, <2>2, <2>4, <2>5 DEF Inv, Settled
  <1>10. QED
    BY <1>1, <1>3, <1>5, <1>6, <1>7, <1>8, <1>9
       DEF Step, Call, UpdateEvent, DeleteEvent, ForgetSeat, ForgetRow, setNeedsSync

\* rescheduleSideEffects moves the event it finds, and neither makes nor
\* deletes one.
LEMMA MoverStep ==
    ASSUME Undisturbed, TypeOK, Inv, NEW m \in Mover,
           Step(m) \/ Call(m) \/ CallFails(m)
    PROVE  Inv'
  <1>1. /\ job \in [Proc -> Job] /\ m \in Proc /\ m \notin Reassigner
        /\ m \notin {"confirm", "cancel", "reconciler"}
        /\ {"confirm", "cancel", "reconciler"} \subseteq Proc \ {m} /\ Mover \subseteq Proc
    BY Jobs DEF TypeOK, Job, Undisturbed
  <1>2. job[m].pc \in {"idle", "load", "update", "clear", "flag", "done"}
    BY DEF Inv, Places
  <1>3. PassAfter(m) = "done" /\ AfterError(m) = "flag"
    BY <1>1, Onward
  <1>4. {"update", "clear", "flag", "done"} \subseteq Place
    BY DEF Place
  <1>5. ASSUME UNCHANGED booking, seat' = seat, Live' = Live,
               \A q \in Proc \ {m} : job'[q] = job[q],
               job'[m].on = host, job'[m].to = host,
               job'[m].pc \in {"update", "clear", "flag", "done"}
        PROVE  Inv'
    <2>1. Places'
      BY <1>1, <1>5 DEF Places, Inv
    <2>2. Settled'
      BY <1>1, <1>5 DEF Settled, Inv, booking
    <2>3. Graced'
      BY <1>1, <1>5 DEF Graced, Inv, booking
    <2>4. Known'
      BY <1>1, <1>5 DEF Known, Inv, Creating, ToCreate, Creator
    <2>5. Deleting'
      BY <1>1, <1>5 DEF Deleting, Inv, Creating, ToCreate, Creator, booking
    <2>6. QED
      BY <2>1, <2>2, <2>3, <2>4, <2>5 DEF Inv
  <1>6. job[m].on = host /\ job[m].to = host
    BY <1>1 DEF Inv, Settled
  <1>7. CASE SeatLoad(m, "update")
    <2>1. /\ \A q \in Proc \ {m} : job'[q] = job[q]
          /\ job'[m].on = host /\ job'[m].to = host
          /\ job'[m].pc \in {"update", "done"}
      BY <1>1, <1>4, <1>6, <1>7, SeatLoaded
    <2>2. UNCHANGED booking /\ seat' = seat /\ Live' = Live
      BY <1>1, <1>7, LiveAfter DEF SeatLoad, ids
    <2>3. QED
      BY <1>5, <2>1, <2>2
  <1>8. ASSUME NEW x \in {"clear", "flag", "done"}, Goto(m, x),
               UNCHANGED booking, seat' = seat, Live' = Live
        PROVE  Inv'
    <2>1. /\ job'[m].pc = x /\ job'[m].on = job[m].on /\ job'[m].to = job[m].to
          /\ \A q \in Proc \ {m} : job'[q] = job[q]
      BY <1>1, <1>4, <1>8, GotoMoves
    <2>2. QED
      BY <1>5, <1>6, <1>8, <2>1
  <1>9. CASE UpdateEvent(m)
    <2>1. UNCHANGED booking /\ seat' = seat /\ Live' = Live
      BY <1>1, <1>9, LiveAfter DEF UpdateEvent, ids
    <2>2. Goto(m, "clear") \/ Goto(m, "flag")
      BY <1>3, <1>9 DEF UpdateEvent
    <2>3. QED
      BY <1>8, <2>1, <2>2
  <1>10. CASE CallFails(m)
    <2>1. UNCHANGED booking /\ seat' = seat /\ Live' = Live
      BY <1>1, <1>10, LiveAfter DEF CallFails, ids
    <2>2. Goto(m, "flag")
      BY <1>3, <1>10 DEF CallFails
    <2>3. QED
      BY <1>8, <2>1, <2>2
  <1>11. CASE setNeedsSync(m)
    <2>1. UNCHANGED booking /\ seat' = seat /\ Live' = Live
      BY <1>1, <1>11, LiveAfter DEF setNeedsSync
    <2>2. Goto(m, "done")
      BY <1>3, <1>11 DEF setNeedsSync
    <2>3. QED
      BY <1>8, <2>1, <2>2
  <1>12. QED
    BY <1>1, <1>2, <1>7, <1>9, <1>10, <1>11
       DEF Step, Call, CreateEvent, DeleteEvent, SaveSeat, SaveRow, ForgetSeat, ForgetRow

\* cancelSideEffects deletes the event of the seat before it clears the seat.
LEMMA CancelStep ==
    ASSUME Undisturbed, TypeOK, Inv,
           Step("cancel") \/ Call("cancel") \/ CallFails("cancel")
    PROVE  Inv'
  <1> DEFINE p == "cancel"
  <1>1. /\ job \in [Proc -> Job] /\ p \in Proc /\ p \notin Reassigner /\ p \notin Mover
        /\ {"confirm", "reconciler"} \subseteq Proc \ {p}
        /\ Mover \subseteq Proc \ {p} /\ Proc \ {p} = {"confirm", "reconciler"} \cup Mover
    BY Jobs DEF TypeOK, Job, Undisturbed
  <1>2. job[p].pc \in {"idle", "load", "delete", "forgetSeat", "forgetRow", "done"}
    BY DEF Inv, Places
  <1>3. PassAfter(p) = "done" /\ AfterError(p) = "done"
    BY <1>1, Onward
  <1>4. {"delete", "forgetSeat", "forgetRow", "done"} \subseteq Place
    BY DEF Place
  <1>5. job[p].on = host /\ job[p].to = host
    BY <1>1 DEF Inv, Settled
  <1>6. ASSUME UNCHANGED booking, job[p].pc # "idle",
               \A q \in Proc \ {p} : job'[q] = job[q],
               job'[p].on = host, job'[p].to = host,
               job'[p].pc \in {"delete", "forgetSeat", "forgetRow", "done"},
               Live' \subseteq Live,
               \/ seat' = seat
               \/ seat' = NoEvent /\ ~Creating /\ Live = {},
               ~Creating => Live' \subseteq {seat'},
               job'[p].pc \in {"delete", "forgetSeat"} =>
                   /\ ~Creating /\ seat' \in {job'[p].event, NoEvent}
                   /\ job'[p].pc = "forgetSeat" => Live' = {}
        PROVE  Inv'
    <2>1. Places'
      BY <1>1, <1>6 DEF Places, Inv
    <2>2. Settled'
      BY <1>1, <1>6 DEF Settled, Inv, booking
    <2>3. Graced'
      BY <1>1, <1>6 DEF Graced, Inv, booking
    <2>4. Creating' = Creating /\ ToCreate' = ToCreate
      BY <1>1, <1>6 DEF Creating, ToCreate, Creator
    <2>5. Known'
      BY <1>1, <1>6, <2>4 DEF Known, Inv, Creating, Creator
    <2>6. Deleting'
      BY <1>1, <1>6, <2>4 DEF Deleting, Inv, Settled, booking
    <2>7. QED
      BY <2>1, <2>2, <2>3, <2>5, <2>6 DEF Inv
  <1>7. CASE SeatLoad(p, "delete")
    <2>1. /\ \A q \in Proc \ {p} : job'[q] = job[q]
          /\ job'[p].on = host /\ job'[p].to = host
          /\ \/ job'[p].pc = "done"
             \/ job'[p].pc = "delete" /\ job'[p].event = seat /\ seat # NoEvent
      BY <1>1, <1>4, <1>5, <1>7, SeatLoaded
    <2>2. /\ UNCHANGED booking /\ seat' = seat /\ Live' = Live
          /\ job[p].pc = "load"
      BY <1>1, <1>7, LiveAfter DEF SeatLoad, ids
    <2>3. seat # NoEvent => ~Creating
      BY DEF Inv, Known, Creating
    <2>4. ~Creating => Live \subseteq {seat}
      BY DEF Inv, Known
    <2>5. QED
      BY <1>6, <2>1, <2>2, <2>3, <2>4
  <1>8. ASSUME NEW x \in {"forgetSeat", "forgetRow", "done"}, Goto(p, x)
        PROVE  /\ job'[p].pc = x /\ job'[p].on = host /\ job'[p].to = host
               /\ job'[p].event = job[p].event
               /\ \A q \in Proc \ {p} : job'[q] = job[q]
    BY <1>1, <1>4, <1>5, <1>8, GotoMoves
  <1>9. CASE DeleteEvent(p)
    <2>1. /\ job[p].pc = "delete" /\ UNCHANGED booking /\ seat' = seat
          /\ Goto(p, "forgetSeat") /\ Live' = Live \ {job[p].event}
      BY <1>1, <1>9, LiveAfter DEF DeleteEvent, ids
    <2>2. ~Creating /\ seat \in {job[p].event, NoEvent} /\ Live \subseteq {seat}
      BY <2>1 DEF Inv, Deleting, Known
    <2>3. Live \subseteq Event /\ NoEvent \notin Event
      BY DEF Live
    <2>4. Live' = {}
      BY <2>1, <2>2, <2>3
    <2>5. QED
      BY <1>6, <1>8, <2>1, <2>2, <2>4
  <1>10. CASE CallFails(p)
    <2>1. /\ job[p].pc = "delete" /\ UNCHANGED booking /\ seat' = seat
          /\ Goto(p, "done") /\ Live' = Live
      BY <1>1, <1>2, <1>3, <1>10, LiveAfter DEF CallFails, ids
    <2>2. ~Creating => Live \subseteq {seat}
      BY DEF Inv, Known
    <2>3. QED
      BY <1>6, <1>8, <2>1, <2>2
  <1>11. CASE ForgetSeat(p)
    <2>1. /\ job[p].pc = "forgetSeat" /\ UNCHANGED booking /\ seat' = NoEvent
          /\ Goto(p, "forgetRow") /\ Live' = Live
      BY <1>1, <1>5, <1>11, LiveAfter DEF ForgetSeat
    <2>2. ~Creating /\ Live = {}
      BY <2>1 DEF Inv, Deleting
    <2>3. QED
      BY <1>6, <1>8, <2>1, <2>2
  <1>12. CASE ForgetRow(p)
    <2>1. /\ job[p].pc = "forgetRow" /\ UNCHANGED booking /\ seat' = seat
          /\ Goto(p, "done") /\ Live' = Live
      BY <1>1, <1>12, LiveAfter DEF ForgetRow
    <2>2. ~Creating => Live \subseteq {seat}
      BY DEF Inv, Known
    <2>3. QED
      BY <1>6, <1>8, <2>1, <2>2
  <1>13. QED
    BY <1>1, <1>2, <1>7, <1>9, <1>10, <1>11, <1>12
       DEF Step, Call, CreateEvent, UpdateEvent, SaveSeat, SaveRow, setNeedsSync

\* A pass of the reconciler takes the seat, or goes on to the next pass.
LEMMA Passed ==
    ASSUME TypeOK, NEW from, NEW found, NEW pc \in Place, NEW next \in Place,
           Pass(from, found, pc, next)
    PROVE  LET p == "reconciler" IN
           /\ \A q \in Proc \ {p} : job'[q] = job[q]
           /\ \/ found /\ job'[p].pc = pc /\ job'[p].on = host /\ job'[p].to = host
                       /\ job'[p].event = seat
              \/ job'[p].pc = next /\ job'[p].on = job[p].on /\ job'[p].to = job[p].to
  <1> DEFINE p == "reconciler"
  <1>1. job \in [Proc -> Job] /\ p \in Proc
    BY DEF TypeOK, Job, Proc
  <1>2. CASE found
    BY <1>1, <1>2 DEF Pass
  <1>3. CASE ~found
    <2>1. Goto(p, next)
      BY <1>3 DEF Pass
    <2>2. QED
      BY <1>1, <2>1, GotoMoves
  <1>4. QED
    BY <1>2, <1>3

\* The reconciler creates only for a seat that nobody is about to fill, and
\* deletes only what a cancelled booking left.
LEMMA ReconcilerStep ==
    ASSUME Undisturbed, TypeOK, Inv,
           Step("reconciler") \/ Call("reconciler") \/ CallFails("reconciler")
    PROVE  Inv'
  <1> DEFINE p == "reconciler"
  <1>1. /\ job \in [Proc -> Job] /\ p \in Proc /\ p \notin Reassigner /\ p \notin Mover
        /\ {"confirm", "cancel"} \subseteq Proc \ {p}
        /\ Mover \subseteq Proc \ {p} /\ Proc \ {p} = {"confirm", "cancel"} \cup Mover
    BY Jobs DEF TypeOK, Job, Undisturbed
  <1> DEFINE Places10 == {"cancellations", "creations", "reschedules", "delete", "forgetSeat",
                        "create", "saveSeat", "saveRow", "update", "clear"}
  <1>2. job[p].pc \in Places10 /\ Places10 \subseteq Place
    BY DEF Inv, Places, Place
  <1>3. job[p].on = host /\ job[p].to = host
    BY <1>1 DEF Inv, Settled
  <1>4. ASSUME UNCHANGED booking,
               \A q \in Proc \ {p} : job'[q] = job[q],
               job'[p].on = host, job'[p].to = host, job'[p].pc \in Places10,
               job'[p].pc \in {"create", "saveSeat", "saveRow"} => ~young,
               Known', Deleting'
        PROVE  Inv'
    <2>1. Places'
      BY <1>1, <1>4 DEF Places, Inv
    <2>2. Settled'
      BY <1>1, <1>4 DEF Settled, Inv, booking
    <2>3. Graced'
      BY <1>1, <1>4 DEF Graced, Inv, booking
    <2>4. QED
      BY <1>4, <2>1, <2>2, <2>3 DEF Inv
  \* What the seat, the events and the other jobs tell when nothing is created.
  <1>5. ASSUME UNCHANGED booking,
               \A q \in Proc \ {p} : job'[q] = job[q],
               job'[p].pc \in {"cancellations", "creations", "reschedules", "update", "clear"},
               Live' = Live, seat' = seat, job[p].pc # "saveSeat"
        PROVE  Known' /\ Deleting'
    <2>1. Known'
      BY <1>1, <1>5 DEF Known, Inv, Creating, ToCreate, Creator
    <2>2. Deleting'
      BY <1>1, <1>5 DEF Deleting, Inv, Creating, ToCreate, Creator, booking
    <2>3. QED
      BY <2>1, <2>2
  <1>6. ASSUME NEW x \in Places10, Goto(p, x)
        PROVE  /\ job'[p].pc = x /\ job'[p].on = host /\ job'[p].to = host
               /\ job'[p].event = job[p].event
               /\ \A q \in Proc \ {p} : job'[q] = job[q]
    BY <1>1, <1>2, <1>3, <1>6, GotoMoves
  <1>7. ASSUME UNCHANGED <<booking, ids, event>> PROVE Live' = Live /\ seat' = seat
    BY <1>1, <1>7, LiveAfter DEF ids
  <1>8. CASE reconcileCancellations
    <2>1. UNCHANGED booking /\ Live' = Live /\ seat' = seat
      BY <1>7, <1>8 DEF reconcileCancellations, Pass
    <2>2. /\ \A q \in Proc \ {p} : job'[q] = job[q]
          /\ job'[p].on = host /\ job'[p].to = host /\ job[p].pc = "cancellations"
          /\ \/ Orphaned /\ job'[p].pc = "delete" /\ job'[p].event = seat
             \/ job'[p].pc = "creations"
      BY <1>2, <1>3, <1>8, Passed DEF reconcileCancellations, Pass
    <2>3. CASE job'[p].pc = "creations"
      BY <1>4, <1>5, <2>1, <2>2, <2>3
    <2>4. CASE Orphaned /\ job'[p].pc = "delete" /\ job'[p].event = seat
      <3>1. ~Creating /\ Live \subseteq {seat} /\ status = "cancelled"
        BY <2>4 DEF Orphaned, Inv, Known, Creating
      <3>2. ~Creating'
        BY <1>1, <2>2, <2>4, <3>1 DEF Creating, ToCreate, Creator
      <3>3. Known'
        BY <2>1, <3>1, <3>2 DEF Known, Creating
      <3>4. Deleting'
        BY <1>1, <2>1, <2>2, <2>4, <3>1, <3>2 DEF Deleting, Inv, booking
      <3>5. QED
        BY <1>4, <2>1, <2>2, <2>4, <3>3, <3>4
    <2>5. QED
      BY <2>2, <2>3, <2>4
  <1>9. CASE reconcileCreations
    <2>1. UNCHANGED booking /\ Live' = Live /\ seat' = seat
      BY <1>7, <1>9 DEF reconcileCreations, Pass
    <2>2. /\ \A q \in Proc \ {p} : job'[q] = job[q]
          /\ job'[p].on = host /\ job'[p].to = host /\ job[p].pc = "creations"
          /\ \/ Missing /\ job'[p].pc = "create"
             \/ job'[p].pc = "reschedules"
      BY <1>2, <1>3, <1>9, Passed DEF reconcileCreations, Pass
    <2>3. CASE job'[p].pc = "reschedules"
      BY <1>4, <1>5, <2>1, <2>2, <2>3
    <2>4. CASE Missing /\ job'[p].pc = "create"
      <3>1. ~young /\ seat = NoEvent /\ status = "confirmed" /\ job["confirm"].pc = "done"
        BY <2>4 DEF Missing, Inv, Graced
      <3>2. ~Creating
        BY <2>2, <3>1 DEF Creating, ToCreate, Creator
      <3>3. Live = {}
        BY <3>1, <3>2 DEF Inv, Known, Live
      <3>4. Known'
        BY <1>1, <2>1, <2>2, <2>4, <3>1, <3>3 DEF Known, Creating, ToCreate, Creator
      <3>5. Deleting'
        BY <1>1, <2>2, <2>4, <3>1 DEF Deleting, Inv
      <3>6. QED
        BY <1>4, <2>1, <2>2, <2>4, <3>1, <3>4, <3>5
    <2>5. QED
      BY <2>2, <2>3, <2>4
  <1>10. CASE reconcileReschedules
    <2>1. UNCHANGED booking /\ Live' = Live /\ seat' = seat
      BY <1>7, <1>10 DEF reconcileReschedules, Pass
    <2>2. /\ \A q \in Proc \ {p} : job'[q] = job[q]
          /\ job'[p].on = host /\ job'[p].to = host /\ job[p].pc = "reschedules"
          /\ job'[p].pc \in {"update", "cancellations"}
      BY <1>2, <1>3, <1>10, Passed DEF reconcileReschedules, Pass
    <2>3. QED
      BY <1>4, <1>5, <2>1, <2>2
  <1>11. ASSUME job[p].pc \in {"create", "saveSeat"}
         PROVE  /\ job["confirm"].pc = "done" /\ ~young /\ seat = NoEvent
                /\ job["cancel"].pc \notin {"delete", "forgetSeat"}
                /\ job[p].pc = "create" => Live = {}
                /\ job[p].pc = "saveSeat" => Live \subseteq {job[p].event}
    BY <1>11 DEF Inv, Graced, Known, Deleting, Creating, ToCreate, Creator
  <1>12. CASE CreateEvent(p)
    <2>1. job[p].pc = "create" /\ UNCHANGED <<booking, ids>> /\ seat' = seat
      BY <1>12 DEF CreateEvent, ids
    <2>2. PassAfter(p) = "reschedules"
      BY <1>1, <2>1, Onward
    <2>3. /\ \A q \in Proc \ {p} : job'[q] = job[q]
          /\ job'[p].on = host /\ job'[p].to = host
          /\ \/ /\ Live' = Live \cup {job'[p].event} /\ job'[p].pc = "saveSeat"
             \/ /\ Live' = Live /\ job'[p].pc = "reschedules"
      BY <1>1, <1>3, <1>12, <2>2, Created
    <2>4. Known'
      BY <1>1, <1>11, <2>1, <2>3 DEF Known, Creating, ToCreate, Creator
    <2>5. Deleting'
      BY <1>1, <1>11, <2>1, <2>3 DEF Deleting
    <2>6. QED
      BY <1>4, <1>11, <2>1, <2>3, <2>4, <2>5
  <1>13. CASE UpdateEvent(p)
    <2>1. /\ job[p].pc = "update" /\ UNCHANGED booking /\ seat' = seat /\ Live' = Live
      BY <1>1, <1>13, LiveAfter DEF UpdateEvent, ids
    <2>2. AfterError(p) = "cancellations"
      BY <1>1, <2>1, Onward
    <2>3. Goto(p, "clear") \/ Goto(p, "cancellations")
      BY <1>13, <2>2 DEF UpdateEvent
    <2>4. QED
      BY <1>4, <1>5, <1>6, <2>1, <2>3
  <1>14. CASE DeleteEvent(p)
    <2>1. /\ job[p].pc = "delete" /\ UNCHANGED booking /\ seat' = seat
          /\ Goto(p, "forgetSeat") /\ Live' = Live \ {job[p].event}
      BY <1>1, <1>14, LiveAfter DEF DeleteEvent, ids
    <2>2. /\ ~Creating /\ seat \in {job[p].event, NoEvent} /\ Live \subseteq {seat}
          /\ status = "cancelled"
      BY <2>1 DEF Inv, Deleting, Known
    <2>3. Live' = {}
      BY <2>1, <2>2 DEF Live
    <2>4. ~Creating'
      BY <1>1, <1>6, <2>1, <2>2 DEF Creating, ToCreate, Creator
    <2>5. Known'
      BY <2>3, <2>4 DEF Known, Creating
    <2>6. Deleting'
      BY <1>1, <1>6, <2>1, <2>2, <2>3, <2>4 DEF Deleting, Inv, booking
    <2>7. QED
      BY <1>4, <1>6, <2>1, <2>5, <2>6
  <1>15. CASE CallFails(p)
    <2>1. /\ UNCHANGED booking /\ seat' = seat /\ Live' = Live
          /\ job[p].pc \in {"create", "update", "delete"} /\ Goto(p, AfterError(p))
      BY <1>7, <1>15 DEF CallFails
    <2>2. AfterError(p) \in {"creations", "reschedules", "cancellations"}
      BY <1>1, <2>1, Onward
    <2>3. PICK x \in {"creations", "reschedules", "cancellations"} : Goto(p, x)
      BY <2>1, <2>2
    <2>4. QED
      BY <1>4, <1>5, <1>6, <2>1, <2>3
  <1>16. CASE SaveSeat(p)
    <2>1. /\ job[p].pc = "saveSeat" /\ UNCHANGED booking /\ seat' = job[p].event
          /\ Goto(p, "saveRow") /\ Live' = Live
      BY <1>1, <1>3, <1>16, LiveAfter DEF SaveSeat
    <2>2. Known'
      BY <1>1, <1>6, <1>11, <2>1 DEF Known, Creating, ToCreate, Creator
    <2>3. Deleting'
      BY <1>1, <1>6, <1>11, <2>1 DEF Deleting
    <2>4. QED
      BY <1>4, <1>6, <1>11, <2>1, <2>2, <2>3
  <1>17. CASE SaveRow(p)
    <2>1. /\ job[p].pc = "saveRow" /\ UNCHANGED booking /\ seat' = seat /\ Live' = Live
      BY <1>1, <1>17, LiveAfter DEF SaveRow
    <2>2. Goto(p, "reschedules")
      BY <1>1, <1>17, <2>1, Onward DEF SaveRow
    <2>3. QED
      BY <1>4, <1>5, <1>6, <2>1, <2>2
  <1>18. CASE ForgetSeat(p)
    <2>1. /\ job[p].pc = "forgetSeat" /\ UNCHANGED booking /\ seat' = NoEvent
          /\ Live' = Live
      BY <1>1, <1>3, <1>18, LiveAfter DEF ForgetSeat
    <2>2. Goto(p, "creations")
      BY <1>1, <1>18, <2>1, Onward DEF ForgetSeat
    <2>3. ~Creating /\ Live = {}
      BY <2>1 DEF Inv, Deleting
    <2>4. ~Creating'
      BY <1>1, <1>6, <2>2, <2>3 DEF Creating, ToCreate, Creator
    <2>5. Known'
      BY <2>1, <2>3, <2>4 DEF Known, Creating
    <2>6. Deleting'
      BY <1>1, <1>6, <2>1, <2>2, <2>3, <2>4 DEF Deleting, Inv, booking
    <2>7. QED
      BY <1>4, <1>6, <2>1, <2>2, <2>5, <2>6
  <1>19. CASE setNeedsSync(p)
    <2>1. /\ job[p].pc = "clear" /\ UNCHANGED booking /\ seat' = seat /\ Live' = Live
      BY <1>1, <1>2, <1>19, LiveAfter DEF setNeedsSync
    <2>2. Goto(p, "cancellations")
      BY <1>1, <1>19, <2>1, Onward DEF setNeedsSync
    <2>3. QED
      BY <1>4, <1>5, <1>6, <2>1, <2>2
  <1>20. QED
    BY <1>1, <1>2, <1>8, <1>9, <1>10, <1>12, <1>13, <1>14, <1>15, <1>16, <1>17, <1>18, <1>19
       DEF Step, Call, ForgetRow

\* The operations start a job, or let time pass.
LEMMA OperationStep ==
    ASSUME Undisturbed, TypeOK, Inv,
           \/ Cancel \/ \E m \in Mover : Reschedule(m)
           \/ GraceEnds \/ MeetingEnds \/ UNCHANGED vars
    PROVE  Inv'
  <1>1. /\ job \in [Proc -> Job] /\ Mover \subseteq Proc
        /\ {"confirm", "cancel", "reconciler"} \subseteq Proc
        /\ "confirm" \notin Mover /\ "cancel" \notin Mover /\ "reconciler" \notin Mover
    BY Jobs DEF TypeOK, Job
  <1>2. Live' = Live /\ seat' = seat /\ UNCHANGED <<host, priced, paid>>
    BY <1>1, LiveAfter
       DEF Cancel, Reschedule, GraceEnds, MeetingEnds, vars, booking, ids
  <1>3. status' = status \/ status' = "cancelled"
    BY DEF Cancel, Reschedule, GraceEnds, MeetingEnds, vars, booking
  <1>4. ASSUME \A q \in {"confirm", "reconciler"} : job'[q] = job[q],
               job'["cancel"] = job["cancel"] \/ job'["cancel"].pc = "load"
        PROVE  Known' /\ Deleting'
    <2>1. (Creating' <=> Creating) /\ (ToCreate' <=> ToCreate)
      BY <1>4 DEF Creating, ToCreate, Creator
    <2>2. Known'
      BY <1>2, <1>4, <2>1 DEF Inv, Known, Creator
    <2>3. Deleting'
      BY <1>2, <1>3, <1>4, <2>1 DEF Inv, Deleting
    <2>4. QED
      BY <2>2, <2>3
  <1>5. CASE Cancel
    <2>1. /\ Goto("cancel", "load") /\ status' = "cancelled" /\ young' = young
      BY <1>5 DEF Cancel
    <2>2. /\ job'["cancel"].pc = "load"
          /\ job'["cancel"].on = job["cancel"].on /\ job'["cancel"].to = job["cancel"].to
          /\ \A q \in Proc \ {"cancel"} : job'[q] = job[q]
      BY <1>1, <2>1, GotoMoves DEF Place
    <2>3. Places'
      BY <1>1, <2>2 DEF Inv, Places
    <2>4. Settled'
      BY <1>1, <1>2, <2>1, <2>2 DEF Inv, Settled
    <2>5. Graced'
      BY <1>1, <2>1, <2>2 DEF Inv, Graced
    <2>6. QED
      BY <1>1, <1>4, <2>2, <2>3, <2>4, <2>5 DEF Inv
  <1>6. ASSUME NEW m \in Mover, Reschedule(m) PROVE Inv'
    <2>1. /\ job' = [job EXCEPT ![m].pc = "load", ![m].at = m]
          /\ young' = young /\ status' = status
      BY <1>6 DEF Reschedule
    <2>2. /\ job'[m].pc = "load" /\ job'[m].on = job[m].on /\ job'[m].to = job[m].to
          /\ \A q \in Proc \ {m} : job'[q] = job[q]
      BY <1>1, <2>1, TimeWritten DEF Place
    <2>3. Places'
      BY <1>1, <2>2 DEF Inv, Places
    <2>4. Settled'
      BY <1>1, <1>2, <2>1, <2>2 DEF Inv, Settled
    <2>5. Graced'
      BY <1>1, <2>1, <2>2 DEF Inv, Graced
    <2>6. QED
      BY <1>1, <1>4, <2>2, <2>3, <2>4, <2>5 DEF Inv
  <1>7. CASE GraceEnds \/ MeetingEnds \/ UNCHANGED vars
    <2>1. job' = job /\ status' = status
      BY <1>7 DEF GraceEnds, MeetingEnds, vars, booking
    <2>2. Places' /\ Settled'
      BY <1>2, <2>1 DEF Inv, Places, Settled
    <2>3. Graced'
      <3>1. CASE GraceEnds
        BY <2>1, <3>1 DEF GraceEnds, Rests, Inv, Graced, Settled, Places
      <3>2. CASE young' = young
        BY <2>1, <3>2 DEF Inv, Graced
      <3>3. QED
        BY <1>7, <3>1, <3>2 DEF MeetingEnds, vars, booking
    <2>4. QED
      BY <1>4, <2>1, <2>2, <2>3 DEF Inv
  <1>8. QED
    BY <1>5, <1>6, <1>7

\* The invariant holds from the start, and every step keeps it.
LEMMA Invariance ==
    ASSUME Undisturbed
    PROVE  Spec => []Inv
  <1>1. Init => Inv
    <2> SUFFICES ASSUME Init PROVE Inv
      OBVIOUS
    <2> DEFINE pc(p) == CASE p = "confirm" /\ ~priced -> "load"
                          [] p = "reconciler" -> "cancellations"
                          [] OTHER -> "idle"
    <2>1. /\ status = "confirmed" /\ priced \in Prices /\ paid = ~priced
          /\ host \in Host /\ young = TRUE /\ seat = NoEvent
          /\ event = [e \in Event |-> [state |-> "unused", on |-> host, at |-> Booked]]
          /\ job = [p \in Proc |-> [pc |-> pc(p), on |-> host, to |-> host, at |-> Booked,
                                    event |-> NoEvent]]
      BY Zenon DEF Init
    <2>2. ~priced /\ paid
      BY <2>1 DEF Undisturbed
    <2>3. /\ pc("confirm") = "load" /\ pc("reconciler") = "cancellations"
          /\ \A p \in Proc \ {"confirm", "reconciler"} : pc(p) = "idle"
      <3>1. pc("confirm") = "load"
        BY <2>2, Zenon
      <3>2. pc("reconciler") = "cancellations"
        BY Zenon
      <3>3. \A p \in Proc \ {"confirm", "reconciler"} : pc(p) = "idle"
        BY Zenon
      <3>4. QED
        BY <3>1, <3>2, <3>3
    <2> HIDE DEF pc, Init
    <2>4. /\ job["confirm"].pc = "load" /\ job["reconciler"].pc = "cancellations"
          /\ \A p \in Proc \ {"confirm", "reconciler"} : job[p].pc = "idle"
          /\ \A p \in Proc : job[p].on = host /\ job[p].to = host
          /\ {"confirm", "cancel", "reconciler"} \subseteq Proc /\ Mover \subseteq Proc
          /\ "confirm" \notin Mover /\ "reconciler" \notin Mover
      BY <2>1, <2>3, Jobs
    <2>5. Live = {}
      BY <2>1 DEF Live
    <2>6. Places /\ Settled /\ Graced
      BY <2>1, <2>2, <2>4 DEF Places, Settled, Graced
    <2>7. Known /\ Deleting
      BY <2>1, <2>4, <2>5 DEF Known, Deleting, Creating, ToCreate, Creator
    <2>8. QED
      BY <2>6, <2>7 DEF Inv
  <1>2. TypeOK /\ Inv /\ [Next]_vars => Inv'
    <2> SUFFICES ASSUME TypeOK, Inv, [Next]_vars PROVE Inv'
      OBVIOUS
    <2>1. ~Settle /\ ~ReleaseHold
      BY DEF Settle, ReleaseHold, Inv, Settled
    <2>2. /\ ~Crash
          /\ \A r \in Reassigner, h \in Host : ~ReassignLoad(r, h)
          /\ \A p \in Proc : ~CallRefused(p) /\ ~CreateAnswerLost(p)
      BY DEF Undisturbed, Crash, CallRefused, CreateAnswerLost
    <2>3. ASSUME NEW p \in Proc, Step(p) \/ Call(p) \/ CallFails(p) PROVE Inv'
      <3>1. p \in {"confirm", "cancel", "reconciler"} \cup Mover
        BY Jobs
      <3>2. QED
        BY <2>3, <3>1, ConfirmStep, CancelStep, ReconcilerStep, MoverStep
    <2>4. QED
      BY <2>1, <2>2, <2>3, OperationStep DEF Next
  <1>3. QED
    BY <1>1, <1>2, TypeCorrect, PTL DEF Spec

\* A free booking that is not reassigned has at most one event on the calendars,
\* however its goroutines and the reconciler overlap and whichever calls fail.
THEOREM NeverTwoEvents ==
    ASSUME Undisturbed
    PROVE  Spec => []OneEvent
  <1>1. Inv => OneEvent
    BY DEF Inv, Known, OneEvent, Creating
  <1>2. QED
    BY <1>1, Invariance, PTL

\* Every event on a calendar is one the seat names, or one whose creator is
\* about to write it there, so that a later cancel finds it.
THEOREM NeverAnOrphan ==
    ASSUME Undisturbed
    PROVE  Spec => []NoOrphan
  <1>1. Inv => NoOrphan
    BY Jobs DEF Inv, Known, NoOrphan, Creating, Creator
  <1>2. QED
    BY <1>1, Invariance, PTL
=============================================================================
