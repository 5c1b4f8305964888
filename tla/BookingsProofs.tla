--------------------------- MODULE BookingsProofs ---------------------------
(***************************************************************************)
(* What holds of the booking ledger for every set of bookings, hosts,      *)
(* event types and requested times.                                        *)
(***************************************************************************)
EXTENDS Bookings, FiniteSetTheorems, TLAPS

\* An entry of the agenda that one person leaves.
LEMMA WithoutOne ==
    ASSUME NEW h, NEW e \in [who: SUBSET Host, start: Nat, end: Nat]
    PROVE  [e EXCEPT !.who = @ \ {h}]
              = [who |-> e.who \ {h}, start |-> e.start, end |-> e.end]
  OBVIOUS

USE ConfigAssumption, TimeAssumption, CalendarAssumption, IdAssumption

-----------------------------------------------------------------------------
(* Each action in terms of the rows it writes.                             *)

\* Create inserts one well-typed row and leaves the others alone.
LEMMA CreateType ==
    ASSUME TypeOK, NEW b \in Booking, NEW t \in EventType, NEW i \in Invitee,
           NEW s \in Instant, NEW avail \in SUBSET Host,
           Create(b, t, i, s, avail)
    PROVE  TypeOK'
  <1> DEFINE e == s + Config[t].duration
  <1>1. Config[t].duration \in Nat /\ s \in Nat
    BY DEF EventTypeConfig
  <1>2. PICK p \in users :
          bookings' = [x \in Inserted \cup {b} |->
             IF x = b
             THEN [status |-> "confirmed", et |-> t, host |-> p,
                   seats |-> [h \in Host |->
                                 IF h = p THEN "primary"
                                 ELSE IF h \in Assigned(t, s, e, avail, p)
                                      THEN "guest"
                                 ELSE "none"],
                   start |-> s, end |-> e,
                   invitee |-> i, created |-> now]
             ELSE bookings[x]]
    BY DEF Create
  <1>3. p \in Host /\ now \in Nat
    BY DEF TypeOK
  <1>4. Inserted' = Inserted \cup {b}
    BY <1>2 DEF Inserted
  <1>5. bookings' \in [Inserted' -> Row]
    BY <1>1, <1>2, <1>3, <1>4 DEF TypeOK, Row, Seat
  <1>6. QED
    BY <1>4, <1>5 DEF TypeOK, Create

\* Reschedule writes two times.
LEMMA RescheduleType ==
    ASSUME TypeOK, NEW b \in Inserted, NEW s \in Instant, Reschedule(b, s)
    PROVE  TypeOK'
  <1>1. bookings[b] \in Row
    BY DEF TypeOK
  <1>2. Config[bookings[b].et].duration \in Nat
    BY <1>1 DEF Row, EventTypeConfig
  <1>3. Inserted' = Inserted
    BY DEF Reschedule, Inserted
  <1>4. bookings' \in [Inserted -> Row]
    BY <1>1, <1>2 DEF TypeOK, Reschedule, Row, Inserted
  <1>5. QED
    BY <1>3, <1>4 DEF TypeOK, Reschedule

\* ReassignHost writes host_id and the seats.
LEMMA ReassignType ==
    ASSUME TypeOK, NEW b \in Inserted, NEW h \in Host, ReassignHost(b, h)
    PROVE  TypeOK'
  <1>1. bookings[b] \in Row
    BY DEF TypeOK
  <1>2. Inserted' = Inserted
    BY DEF ReassignHost, Inserted
  <1>3. bookings' \in [Inserted -> Row]
    BY <1>1 DEF TypeOK, ReassignHost, Row, Seat, Inserted
  <1>4. QED
    BY <1>2, <1>3 DEF TypeOK, ReassignHost

\* A cancel writes the status and counts one success.
LEMMA MarkType ==
    ASSUME TypeOK, NEW b \in Inserted, MarkCancelled(b)
    PROVE  /\ Inserted' = Inserted
           /\ bookings' \in [Inserted -> Row]
           /\ cancelled' \in [Booking -> Nat]
  <1>1. bookings[b] \in Row /\ b \in Booking
    BY DEF TypeOK
  <1>2. Inserted' = Inserted
    BY DEF MarkCancelled, Inserted
  <1>3. bookings' \in [Inserted -> Row]
    BY <1>1 DEF TypeOK, MarkCancelled, Row, Inserted
  <1>4. cancelled' \in [Booking -> Nat]
    BY <1>1 DEF TypeOK, MarkCancelled
  <1>5. QED
    BY <1>2, <1>3, <1>4

\* The DELETE of a member empties that member's seats.
LEMMA DeleteType ==
    ASSUME TypeOK, NEW h \in Host, DeleteUserExec(h)
    PROVE  TypeOK'
  <1>1. CASE \A b \in Inserted : bookings[b].host # h
    <2>1. /\ users' = users \ {h}
          /\ bookings' = [b \in Inserted |->
                             [bookings[b] EXCEPT !.seats[h] = "none"]]
      BY <1>1 DEF DeleteUserExec
    <2>2. Inserted' = Inserted
      BY <2>1 DEF Inserted
    <2>3. \A b \in Inserted : [bookings[b] EXCEPT !.seats[h] = "none"] \in Row
      BY SMTT(40) DEF TypeOK, Row, Seat
    <2>4. QED
      BY <2>1, <2>2, <2>3 DEF TypeOK, DeleteUserExec
  <1>2. CASE ~ \A b \in Inserted : bookings[b].host # h
    BY <1>2 DEF DeleteUserExec, TypeOK, Inserted
  <1>3. QED
    BY <1>1, <1>2

\* The in-flight request's update: it refers to an inserted booking.
LEMMA TokenUpdateType ==
    ASSUME TypeOK, NEW r \in Request, CancelByTokenUpdate(r)
    PROVE  TypeOK'
  <1>1. cancelling[r] \in Inserted
    BY DEF TypeOK, CancelByTokenUpdate
  <1>2. CASE MarkCancelled(cancelling[r])
    BY <1>1, <1>2, MarkType DEF TypeOK, CancelByTokenUpdate
  <1>3. CASE UNCHANGED <<bookings, cancelled>>
    BY <1>3 DEF TypeOK, CancelByTokenUpdate, Inserted
  <1>4. QED
    BY <1>2, <1>3 DEF CancelByTokenUpdate

-----------------------------------------------------------------------------
\* Type correctness of the ledger: no sequence of requests leaves an ill-formed
\* row, or a request that refers to a booking that was never inserted.
THEOREM TypeCorrect == Spec => []TypeOK
  <1>1. Init => TypeOK
    BY DEF Init, TypeOK, Inserted
  <1>2. TypeOK /\ [Next]_vars => TypeOK'
    <2> SUFFICES ASSUME TypeOK, [Next]_vars PROVE TypeOK'
      OBVIOUS
    <2>1. CASE \E b \in Booking, t \in EventType, i \in Invitee, s \in Instant,
                  avail \in SUBSET Host : Create(b, t, i, s, avail)
      BY <2>1, CreateType
    <2>2. CASE \E b \in Inserted, s \in Instant : Reschedule(b, s)
      BY <2>2, RescheduleType
    <2>3. CASE \E b \in Inserted, h \in Host : ReassignHost(b, h)
      BY <2>3, ReassignType
    <2>4. CASE \E b \in Inserted, h \in Host : Cancel(h, b)
      BY <2>4, MarkType DEF Cancel, TypeOK
    <2>5. CASE \E b \in Inserted : CancelByID(b)
      BY <2>5, MarkType DEF CancelByID, TypeOK
    <2>6. CASE \E r \in Request, b \in Inserted : CancelByTokenCheck(r, b)
      BY <2>6 DEF CancelByTokenCheck, TypeOK, Inserted
    <2>7. CASE \E r \in Request : CancelByTokenUpdate(r)
      BY <2>7, TokenUpdateType
    <2>8. CASE \E h \in Host : DeleteUserCheck(h)
      BY <2>8 DEF DeleteUserCheck, TypeOK, Inserted
    <2>9. CASE \E h \in Host : DeleteUserExec(h)
      BY <2>9, DeleteType
    <2>10. CASE Tick
      BY <2>10 DEF Tick, TypeOK, Inserted
    <2>11. CASE UNCHANGED vars
      BY <2>11 DEF vars, TypeOK, Inserted
    <2>12. QED
      BY <2>1, <2>2, <2>3, <2>4, <2>5, <2>6, <2>7, <2>8, <2>9, <2>10, <2>11
         DEF Next
  <1>3. QED
    BY <1>1, <1>2, PTL DEF Spec

-----------------------------------------------------------------------------
(* Double booking.  Every action writes the agenda of at most one booking; *)
(* all the others are kept or shrink, and the one written is clear of them. *)

\* A step that leaves booking x where it is, cancels it, or takes seats off it.
Kept(x) ==
    /\ x \in Inserted
    /\ Active(x)' => Active(x)
    /\ Seated(x)' \subseteq Seated(x)
    /\ bookings'[x].start = bookings[x].start
    /\ bookings'[x].end = bookings[x].end

\* After the step, booking n meets no booking that was there before it.
Clear(n) ==
    Active(n)' =>
        \A h \in Seated(n)', x \in Inserted \ {n} :
            Active(x) =>
                \A k \in Seated(x) :
                    Exclusive(h, k) =>
                        ~TextOverlap(bookings[x].start, bookings[x].end,
                                     bookings'[n].start, bookings'[n].end)

\* Overlap does not depend on the order of the two intervals.
LEMMA OverlapSymmetric ==
    ASSUME NEW a, NEW b, NEW c, NEW d
    PROVE  TextOverlap(a, b, c, d) = TextOverlap(c, d, a, b)
  BY DEF TextOverlap

\* Nor does exclusion on the order of the two hosts.
LEMMA ExclusiveSymmetric ==
    ASSUME NEW h, NEW k, Exclusive(h, k)
    PROVE  Exclusive(k, h)
  BY DEF Exclusive

\* If one booking is clear and the rest are kept, nobody is double booked.
LEMMA OneWritten ==
    ASSUME NoTextDoubleBooking, NEW n,
           \A x \in Inserted' : x # n => Kept(x),
           n \in Inserted' => Clear(n)
    PROVE  NoTextDoubleBooking'
  <1> SUFFICES ASSUME NEW b \in Inserted', NEW c \in Inserted', b # c,
                      Active(b)', Active(c)',
                      TextOverlap(bookings'[b].start, bookings'[b].end,
                                  bookings'[c].start, bookings'[c].end),
                      NEW h \in Seated(b)', NEW k \in Seated(c)',
                      Exclusive(h, k)
               PROVE  FALSE
    BY Zenon DEF NoTextDoubleBooking
  <1>1. CASE b # n /\ c # n
    <2>1. Kept(b) /\ Kept(c)
      BY <1>1
    <2>2. QED
      BY <2>1 DEF Kept, NoTextDoubleBooking
  <1>2. CASE b = n
    <2>1. Kept(c) /\ Clear(b)
      BY <1>2
    <2>2. TextOverlap(bookings[c].start, bookings[c].end,
                      bookings'[b].start, bookings'[b].end)
      BY <2>1, OverlapSymmetric DEF Kept
    <2>3. QED
      BY <1>2, <2>1, <2>2 DEF Kept, Clear
  <1>3. CASE c = n
    <2>1. Kept(b) /\ Clear(c)
      BY <1>3
    <2>2. Exclusive(k, h)
      BY ExclusiveSymmetric
    <2>3. QED
      BY <1>3, <2>1, <2>2 DEF Kept, Clear
  <1>4. QED
    BY <1>1, <1>2, <1>3

\* What a negative hostBusy says of one booking.
LEMMA NotBusy ==
    ASSUME NEW h, NEW s, NEW e, NEW X, ~hostBusy(h, s, e, X),
           NEW x \in Inserted \ X, Active(x), NEW k \in Seated(x), Exclusive(h, k)
    PROVE  ~TextOverlap(bookings[x].start, bookings[x].end, s, e)
  BY DEF hostBusy, Exclusive

\* Create seats only hosts who are free at the new booking's time.
LEMMA CreateClear ==
    ASSUME TypeOK, NoTextDoubleBooking,
           NEW b \in Booking, NEW t \in EventType, NEW i \in Invitee,
           NEW s \in Instant, NEW avail \in SUBSET Host,
           Create(b, t, i, s, avail)
    PROVE  NoTextDoubleBooking'
  <1> DEFINE e == s + Config[t].duration
  <1>1. PICK p \in users :
          /\ CanLead(t, s, e, avail, p)
          /\ bookings' = [x \in Inserted \cup {b} |->
             IF x = b
             THEN [status |-> "confirmed", et |-> t, host |-> p,
                   seats |-> [h \in Host |->
                                 IF h = p THEN "primary"
                                 ELSE IF h \in Assigned(t, s, e, avail, p)
                                      THEN "guest"
                                 ELSE "none"],
                   start |-> s, end |-> e,
                   invitee |-> i, created |-> now]
             ELSE bookings[x]]
    BY DEF Create
  <1>2. b \notin Inserted
    BY DEF Create
  <1>3. Inserted' = Inserted \cup {b}
    BY <1>1 DEF Inserted
  <1>4. ASSUME NEW x \in Inserted', x # b PROVE Kept(x)
    <2>1. x \in Inserted /\ bookings'[x] = bookings[x]
      BY <1>1, <1>3, <1>4
    <2>2. QED
      BY <2>1 DEF Kept, Active, Seated
  <1>5. bookings'[b].start = s /\ bookings'[b].end = e
    BY <1>1
  <1>6. Seated(b)' \subseteq Assigned(t, s, e, avail, p)
    BY <1>1 DEF Seated, Assigned
  <1>7. ~hostBusy(p, s, e, {})
    <2>1. CASE Config[t].mode = "round_robin"
      BY <1>1, <2>1 DEF CanLead, pickRotationHost, IsFirst, FreeWith
    <2>2. CASE Config[t].mode # "round_robin"
      BY <1>1, <2>2 DEF CanLead, IsFirst, FreeWith
    <2>3. QED
      BY <2>1, <2>2
  <1>8. \A h \in Assigned(t, s, e, avail, p) : ~hostBusy(h, s, e, {})
    BY <1>1, <1>7 DEF Assigned, CanLead, FreeWith
  <1>9. Clear(b)
    BY <1>5, <1>6, <1>8, NotBusy DEF Clear
  <1>10. QED
    BY <1>4, <1>9, OneWritten

\* Reschedule moves a booking only where every seated host is free.
LEMMA RescheduleClear ==
    ASSUME TypeOK, NoTextDoubleBooking,
           NEW b \in Inserted, NEW s \in Instant, Reschedule(b, s)
    PROVE  NoTextDoubleBooking'
  <1> DEFINE e == s + Config[bookings[b].et].duration
  <1>1. bookings' = [bookings EXCEPT ![b].start = s, ![b].end = e]
    BY DEF Reschedule
  <1>2. bookings[b] \in Row
    BY DEF TypeOK
  <1>3. bookings'[b] = [bookings[b] EXCEPT !.start = s, !.end = e]
    BY <1>1 DEF Inserted
  <1>4. ASSUME NEW x \in Inserted', x # b PROVE Kept(x)
    <2>1. x \in Inserted /\ bookings'[x] = bookings[x]
      BY <1>1, <1>4 DEF Inserted
    <2>2. QED
      BY <2>1 DEF Kept, Active, Seated
  <1>5. /\ bookings'[b].start = s /\ bookings'[b].end = e
        /\ bookings'[b].seats = bookings[b].seats
    BY <1>2, <1>3 DEF Row
  <1>6. Seated(b)' = Seated(b)
    BY <1>5 DEF Seated
  <1>7. \A h \in Seated(b) : ~hostBusy(h, s, e, {b})
    BY DEF Reschedule
  <1>8. Clear(b)
    BY <1>5, <1>6, <1>7, NotBusy DEF Clear
  <1>9. QED
    BY <1>4, <1>8, OneWritten

\* ReassignHost seats a host who is free; the others stay where they were.
LEMMA ReassignClear ==
    ASSUME TypeOK, NoTextDoubleBooking,
           NEW b \in Inserted, NEW h \in Host, ReassignHost(b, h)
    PROVE  NoTextDoubleBooking'
  <1>1. bookings[b] \in Row /\ Active(b)
    BY DEF TypeOK, ReassignHost
  <1>2. /\ bookings'[b].start = bookings[b].start
        /\ bookings'[b].end = bookings[b].end
    BY <1>1 DEF ReassignHost, Row, Inserted
  <1>3. bookings'[b].seats =
          [k \in Host |-> IF k = h THEN "primary"
                          ELSE IF bookings[b].seats[k] = "primary" THEN "none"
                          ELSE bookings[b].seats[k]]
    BY <1>1 DEF ReassignHost, Row, Inserted
  <1>4. Seated(b)' \subseteq Seated(b) \cup {h}
    BY <1>3 DEF Seated
  <1>5. ASSUME NEW x \in Inserted', x # b PROVE Kept(x)
    <2>1. x \in Inserted /\ bookings'[x] = bookings[x]
      BY <1>5 DEF ReassignHost, Inserted
    <2>2. QED
      BY <2>1 DEF Kept, Active, Seated
  <1>6. ~hostBusy(h, bookings[b].start, bookings[b].end, {b})
    BY DEF ReassignHost
  <1>7. Clear(b)
    <2> SUFFICES ASSUME NEW g \in Seated(b)', NEW x \in Inserted \ {b}, Active(x),
                        NEW k \in Seated(x), Exclusive(g, k)
                 PROVE  ~TextOverlap(bookings[x].start, bookings[x].end,
                                     bookings[b].start, bookings[b].end)
      BY <1>2 DEF Clear
    <2>1. CASE g = h
      BY <1>6, <2>1, NotBusy
    <2>2. CASE g \in Seated(b)
      BY <1>1, <2>2, OverlapSymmetric DEF NoTextDoubleBooking
    <2>3. QED
      BY <1>4, <2>1, <2>2
  <1>8. QED
    BY <1>5, <1>7, OneWritten

\* A cancelled booking meets nobody.
LEMMA MarkClear ==
    ASSUME TypeOK, NoTextDoubleBooking, NEW b \in Inserted, MarkCancelled(b)
    PROVE  NoTextDoubleBooking'
  <1>1. bookings[b] \in Row
    BY DEF TypeOK
  <1>2. ~Active(b)'
    BY <1>1 DEF MarkCancelled, Active, Row, Inserted
  <1>3. Clear(b)
    BY <1>2 DEF Clear
  <1>4. ASSUME NEW x \in Inserted', x # b PROVE Kept(x)
    <2>1. x \in Inserted /\ bookings'[x] = bookings[x]
      BY <1>4 DEF MarkCancelled, Inserted
    <2>2. QED
      BY <2>1 DEF Kept, Active, Seated
  <1>5. QED
    BY <1>3, <1>4, OneWritten

\* Steps that do not write bookings.
LEMMA UnchangedClear ==
    ASSUME NoTextDoubleBooking, UNCHANGED bookings
    PROVE  NoTextDoubleBooking'
  BY DEF NoTextDoubleBooking, Inserted, Active, Seated

\* Removing a member only takes seats away.
LEMMA DeleteClear ==
    ASSUME TypeOK, NoTextDoubleBooking, NEW h \in Host, DeleteUserExec(h)
    PROVE  NoTextDoubleBooking'
  <1>1. CASE \A b \in Inserted : bookings[b].host # h
    <2>1. bookings' = [b \in Inserted |->
                          [bookings[b] EXCEPT !.seats[h] = "none"]]
      BY <1>1 DEF DeleteUserExec
    <2>2. Inserted' = Inserted
      BY <2>1 DEF Inserted
    <2>3. ASSUME NEW x \in Inserted' PROVE Kept(x)
      <3>1. bookings[x] \in Row /\ x \in Inserted
        BY <2>2, <2>3 DEF TypeOK
      <3>2. bookings'[x] = [bookings[x] EXCEPT !.seats[h] = "none"]
        BY <2>1, <3>1
      <3>3. /\ bookings'[x].start = bookings[x].start
            /\ bookings'[x].end = bookings[x].end
            /\ bookings'[x].status = bookings[x].status
            /\ bookings'[x].seats = [bookings[x].seats EXCEPT ![h] = "none"]
        BY <3>1, <3>2 DEF Row
      <3>4. Seated(x)' \subseteq Seated(x)
        BY <3>1, <3>3 DEF Seated, Row
      <3>5. QED
        BY <3>1, <3>3, <3>4 DEF Kept, Active
    <2>4. NoBooking \notin Inserted'
      BY <2>2 DEF TypeOK
    <2>5. QED
      BY <2>3, <2>4, OneWritten
  <1>2. CASE ~ \A b \in Inserted : bookings[b].host # h
    BY <1>2, UnchangedClear DEF DeleteUserExec
  <1>3. QED
    BY <1>1, <1>2

\* The double-booking guard: whatever requests interleave, in the database's
\* own order no host is on two active bookings that overlap, and neither are
\* two hosts who check each other's calendar.
THEOREM NeverTextDoubleBooked == Spec => []NoTextDoubleBooking
  <1>1. Init => NoTextDoubleBooking
    BY DEF Init, NoTextDoubleBooking, Inserted
  <1>2. TypeOK /\ NoTextDoubleBooking /\ [Next]_vars => NoTextDoubleBooking'
    <2> SUFFICES ASSUME TypeOK, NoTextDoubleBooking, [Next]_vars
                 PROVE  NoTextDoubleBooking'
      OBVIOUS
    <2>1. CASE \E b \in Booking, t \in EventType, i \in Invitee, s \in Instant,
                  avail \in SUBSET Host : Create(b, t, i, s, avail)
      BY <2>1, CreateClear
    <2>2. CASE \E b \in Inserted, s \in Instant : Reschedule(b, s)
      BY <2>2, RescheduleClear
    <2>3. CASE \E b \in Inserted, h \in Host : ReassignHost(b, h)
      BY <2>3, ReassignClear
    <2>4. CASE \E b \in Inserted, h \in Host : Cancel(h, b)
      BY <2>4, MarkClear DEF Cancel
    <2>5. CASE \E b \in Inserted : CancelByID(b)
      BY <2>5, MarkClear DEF CancelByID
    <2>6. CASE \E r \in Request, b \in Inserted : CancelByTokenCheck(r, b)
      BY <2>6, UnchangedClear DEF CancelByTokenCheck
    <2>7. CASE \E r \in Request : CancelByTokenUpdate(r)
      <3>1. PICK r \in Request : CancelByTokenUpdate(r)
        BY <2>7
      <3>2. cancelling[r] \in Inserted
        BY <3>1 DEF TypeOK, CancelByTokenUpdate
      <3>3. QED
        BY <3>1, <3>2, MarkClear, UnchangedClear DEF CancelByTokenUpdate
    <2>8. CASE \E h \in Host : DeleteUserCheck(h)
      BY <2>8, UnchangedClear DEF DeleteUserCheck
    <2>9. CASE \E h \in Host : DeleteUserExec(h)
      BY <2>9, DeleteClear
    <2>10. CASE Tick
      BY <2>10, UnchangedClear DEF Tick
    <2>11. CASE UNCHANGED vars
      BY <2>11, UnchangedClear DEF vars
    <2>12. QED
      BY <2>1, <2>2, <2>3, <2>4, <2>5, <2>6, <2>7, <2>8, <2>9, <2>10, <2>11
         DEF Next
  <1>3. QED
    BY <1>1, <1>2, TypeCorrect, PTL DEF Spec

-----------------------------------------------------------------------------
(* Whole seconds: the text order is then the order of time.                *)

WholeSecond(x) == bookings[x].start % 2 = 0 /\ bookings[x].end % 2 = 0

WholeSeconds == \A x \in Inserted : WholeSecond(x)

\* On whole seconds the database's text order is the order of time.
LEMMA WholeSecondOrder ==
    ASSUME NEW s \in Nat, NEW t \in Nat, s % 2 = 0, t % 2 = 0, s < t
    PROVE  TextBefore(s, t)
  BY DEF TextBefore, TextKey

\* A whole-second start plus a whole-second duration ends on a whole second.
LEMMA EvenSum ==
    ASSUME NEW s \in Nat, NEW d \in Nat, s % 2 = 0, d % 2 = 0
    PROVE  (s + d) % 2 = 0
  OBVIOUS

\* When bookers ask for whole-second starts and durations are whole seconds,
\* nobody is double booked in real time.
THEOREM NeverDoubleBooked ==
    ASSUME \A s \in Instant : s % 2 = 0,
           \A t \in EventType : Config[t].duration % 2 = 0
    PROVE  Spec => []NoDoubleBooking
  <1>1. Init => WholeSeconds
    BY DEF Init, WholeSeconds, Inserted
  <1>2. TypeOK /\ WholeSeconds /\ [Next]_vars => WholeSeconds'
    <2> SUFFICES ASSUME TypeOK, WholeSeconds, [Next]_vars PROVE WholeSeconds'
      OBVIOUS
    <2>0. ASSUME UNCHANGED bookings PROVE WholeSeconds'
      BY <2>0 DEF WholeSeconds, WholeSecond, Inserted
    <2>a. ASSUME NEW b \in Inserted, MarkCancelled(b) PROVE WholeSeconds'
      <3> SUFFICES ASSUME NEW x \in Inserted' PROVE WholeSecond(x)'
        BY DEF WholeSeconds
      <3>1. x \in Inserted /\ bookings[x] \in Row
        BY <2>a DEF MarkCancelled, Inserted, TypeOK
      <3>2. /\ bookings'[x].start = bookings[x].start
            /\ bookings'[x].end = bookings[x].end
        BY <2>a, <3>1 DEF MarkCancelled, Inserted, Row
      <3>3. QED
        BY <3>1, <3>2 DEF WholeSeconds, WholeSecond
    <2>1. ASSUME NEW b \in Booking, NEW t \in EventType, NEW i \in Invitee,
                 NEW s \in Instant, NEW avail \in SUBSET Host,
                 Create(b, t, i, s, avail)
          PROVE  WholeSeconds'
      <3> SUFFICES ASSUME NEW x \in Inserted' PROVE WholeSecond(x)'
        BY DEF WholeSeconds
      <3>1. CASE x = b
        <4>1. /\ bookings'[b].start = s
              /\ bookings'[b].end = s + Config[t].duration
          BY <2>1 DEF Create
        <4>2. s \in Nat /\ Config[t].duration \in Nat
          BY DEF EventTypeConfig
        <4>3. QED
          BY <3>1, <4>1, <4>2, EvenSum DEF WholeSecond
      <3>2. CASE x # b
        <4>1. x \in Inserted /\ bookings'[x] = bookings[x]
          BY <2>1, <3>2 DEF Create, Inserted
        <4>2. QED
          BY <4>1 DEF WholeSeconds, WholeSecond
      <3>3. QED
        BY <3>1, <3>2
    <2>2. ASSUME NEW b \in Inserted, NEW s \in Instant, Reschedule(b, s)
          PROVE  WholeSeconds'
      <3> SUFFICES ASSUME NEW x \in Inserted' PROVE WholeSecond(x)'
        BY DEF WholeSeconds
      <3>1. x \in Inserted /\ bookings[x] \in Row /\ bookings[b] \in Row
        BY <2>2 DEF Reschedule, Inserted, TypeOK
      <3>2. CASE x = b
        <4>1. /\ bookings'[b].start = s
              /\ bookings'[b].end = s + Config[bookings[b].et].duration
          BY <2>2, <3>1 DEF Reschedule, Inserted, Row
        <4>2. /\ bookings[b].et \in EventType
              /\ s \in Nat /\ Config[bookings[b].et].duration \in Nat
          BY <3>1 DEF EventTypeConfig, Row
        <4>3. QED
          BY <3>2, <4>1, <4>2, EvenSum DEF WholeSecond
      <3>3. CASE x # b
        <4>1. bookings'[x] = bookings[x]
          BY <2>2, <3>1, <3>3 DEF Reschedule, Inserted
        <4>2. QED
          BY <3>1, <4>1 DEF WholeSeconds, WholeSecond
      <3>4. QED
        BY <3>2, <3>3
    <2>3. ASSUME NEW b \in Inserted, NEW h \in Host, ReassignHost(b, h)
          PROVE  WholeSeconds'
      <3> SUFFICES ASSUME NEW x \in Inserted' PROVE WholeSecond(x)'
        BY DEF WholeSeconds
      <3>1. x \in Inserted /\ bookings[x] \in Row /\ bookings[b] \in Row
        BY <2>3 DEF ReassignHost, Inserted, TypeOK
      <3>2. /\ bookings'[x].start = bookings[x].start
            /\ bookings'[x].end = bookings[x].end
        BY <2>3, <3>1 DEF ReassignHost, Inserted, Row
      <3>3. QED
        BY <3>1, <3>2 DEF WholeSeconds, WholeSecond
    <2>4. ASSUME NEW r \in Request, CancelByTokenUpdate(r) PROVE WholeSeconds'
      <3>1. cancelling[r] \in Inserted
        BY <2>4 DEF TypeOK, CancelByTokenUpdate
      <3>2. QED
        BY <2>0, <2>a, <2>4, <3>1 DEF CancelByTokenUpdate
    <2>5. ASSUME NEW h \in Host, DeleteUserExec(h) PROVE WholeSeconds'
      <3>1. CASE \A b \in Inserted : bookings[b].host # h
        <4> SUFFICES ASSUME NEW x \in Inserted' PROVE WholeSecond(x)'
          BY DEF WholeSeconds
        <4>1. bookings' = [b \in Inserted |->
                              [bookings[b] EXCEPT !.seats[h] = "none"]]
          BY <2>5, <3>1 DEF DeleteUserExec
        <4>2. x \in Inserted /\ bookings[x] \in Row
          BY <4>1 DEF Inserted, TypeOK
        <4>3. bookings'[x] = [bookings[x] EXCEPT !.seats[h] = "none"]
          BY <4>1, <4>2
        <4>4. /\ bookings'[x].start = bookings[x].start
              /\ bookings'[x].end = bookings[x].end
          BY <4>2, <4>3 DEF Row
        <4>5. QED
          BY <4>2, <4>4 DEF WholeSeconds, WholeSecond
      <3>2. CASE ~ \A b \in Inserted : bookings[b].host # h
        BY <2>0, <2>5, <3>2 DEF DeleteUserExec
      <3>3. QED
        BY <3>1, <3>2
    <2>6. QED
      BY <2>0, <2>a, <2>1, <2>2, <2>3, <2>4, <2>5
         DEF Next, vars, Cancel, CancelByID, CancelByTokenCheck,
             DeleteUserCheck, Tick
  <1>3. TypeOK /\ WholeSeconds /\ NoTextDoubleBooking => NoDoubleBooking
    <2> SUFFICES ASSUME TypeOK, WholeSeconds, NoTextDoubleBooking,
                        NEW b \in Inserted, NEW c \in Inserted,
                        b # c, Active(b), Active(c),
                        bookings[b].start < bookings[c].end,
                        bookings[c].start < bookings[b].end
                 PROVE  \A h \in Seated(b), k \in Seated(c) :
                            ~Exclusive(h, k)
      BY DEF NoDoubleBooking
    <2>1. bookings[b] \in Row /\ bookings[c] \in Row
      BY DEF TypeOK
    <2>2. /\ bookings[b].start \in Nat /\ bookings[b].end \in Nat
          /\ bookings[c].start \in Nat /\ bookings[c].end \in Nat
      BY <2>1 DEF Row
    <2>3. WholeSecond(b) /\ WholeSecond(c)
      BY DEF WholeSeconds
    <2>4. TextOverlap(bookings[b].start, bookings[b].end,
                      bookings[c].start, bookings[c].end)
      BY <2>2, <2>3, WholeSecondOrder DEF TextOverlap, WholeSecond
    <2>5. QED
      BY <2>4 DEF NoTextDoubleBooking
  <1>4. QED
    BY <1>1, <1>2, <1>3, TypeCorrect, NeverTextDoubleBooked, PTL DEF Spec

-----------------------------------------------------------------------------
(* The primary seat and bookings.host_id.                                  *)

\* PrimarySeat, for one booking.
Mirrors(x) ==
    /\ bookings[x].host \in users
    /\ {h \in Host : bookings[x].seats[h] = "primary"} = {bookings[x].host}

\* A step that leaves a booking's host and seats, and the members, alone.
LEMMA MirrorsKept ==
    ASSUME NEW x, Mirrors(x), users' = users,
           bookings'[x].host = bookings[x].host,
           bookings'[x].seats = bookings[x].seats
    PROVE  Mirrors(x)'
  BY DEF Mirrors

\* hostBusy reads seats and ownership reads host_id: no interleaving of
\* creations, reassignments and member removals lets the two drift apart, so
\* the "legacy booking" fallbacks of Reschedule and ReassignHost are never taken.
THEOREM PrimarySeatMirrorsHost == Spec => []PrimarySeat
  <1>1. Init => PrimarySeat
    BY DEF Init, PrimarySeat, Inserted
  <1>2. TypeOK /\ PrimarySeat /\ [Next]_vars => PrimarySeat'
    <2> SUFFICES ASSUME TypeOK, PrimarySeat, [Next]_vars, NEW x \in Inserted'
                 PROVE  Mirrors(x)'
      BY DEF PrimarySeat, Mirrors
    <2>0. ASSUME x \in Inserted PROVE Mirrors(x) /\ bookings[x] \in Row
      BY <2>0 DEF PrimarySeat, Mirrors, TypeOK
    <2>a. ASSUME UNCHANGED <<bookings, users>> PROVE Mirrors(x)'
      BY <2>0, <2>a, MirrorsKept DEF Inserted
    <2>b. ASSUME NEW b \in Inserted, MarkCancelled(b), users' = users
          PROVE  Mirrors(x)'
      <3>1. x \in Inserted
        BY <2>b DEF MarkCancelled, Inserted
      <3>2. /\ bookings'[x].host = bookings[x].host
            /\ bookings'[x].seats = bookings[x].seats
        BY <2>0, <2>b, <3>1 DEF MarkCancelled, Inserted, Row
      <3>3. QED
        BY <2>0, <2>b, <3>1, <3>2, MirrorsKept
    <2>1. ASSUME NEW b \in Booking, NEW t \in EventType, NEW i \in Invitee,
                 NEW s \in Instant, NEW avail \in SUBSET Host,
                 Create(b, t, i, s, avail)
          PROVE  Mirrors(x)'
      <3>1. CASE x = b
        <4>1. PICK p \in users :
                /\ bookings'[b].host = p
                /\ \A h \in Host : bookings'[b].seats[h] = "primary" <=> h = p
          BY <2>1 DEF Create
        <4>2. p \in Host /\ users' = users
          BY <2>1 DEF TypeOK, Create
        <4>3. QED
          BY <3>1, <4>1, <4>2 DEF Mirrors
      <3>2. CASE x # b
        <4>1. x \in Inserted /\ bookings'[x] = bookings[x] /\ users' = users
          BY <2>1, <3>2 DEF Create, Inserted
        <4>2. QED
          BY <2>0, <4>1, MirrorsKept
      <3>3. QED
        BY <3>1, <3>2
    <2>2. ASSUME NEW b \in Inserted, NEW s \in Instant, Reschedule(b, s)
          PROVE  Mirrors(x)'
      <3>1. x \in Inserted /\ users' = users
        BY <2>2 DEF Reschedule, Inserted
      <3>2. /\ bookings'[x].host = bookings[x].host
            /\ bookings'[x].seats = bookings[x].seats
        BY <2>0, <2>2, <3>1 DEF Reschedule, Inserted, Row
      <3>3. QED
        BY <2>0, <3>1, <3>2, MirrorsKept
    <2>3. ASSUME NEW b \in Inserted, NEW h \in Host, ReassignHost(b, h)
          PROVE  Mirrors(x)'
      <3>1. x \in Inserted /\ users' = users
        BY <2>3 DEF ReassignHost, Inserted
      <3>2. CASE x = b
        <4>1. bookings[b] \in Row
          BY DEF TypeOK
        <4>2. /\ bookings'[b].host = h
              /\ \A k \in Host : bookings'[b].seats[k] = "primary" <=> k = h
          BY <2>3, <4>1 DEF ReassignHost, Inserted, Row
        <4>3. h \in users
          BY <2>3 DEF ReassignHost
        <4>4. QED
          BY <3>1, <3>2, <4>2, <4>3 DEF Mirrors
      <3>3. CASE x # b
        <4>1. bookings'[x] = bookings[x]
          BY <2>3, <3>1, <3>3 DEF ReassignHost, Inserted
        <4>2. QED
          BY <2>0, <3>1, <4>1, MirrorsKept
      <3>4. QED
        BY <3>2, <3>3
    <2>4. ASSUME NEW r \in Request, CancelByTokenUpdate(r) PROVE Mirrors(x)'
      <3>1. cancelling[r] \in Inserted
        BY <2>4 DEF TypeOK, CancelByTokenUpdate
      <3>2. QED
        BY <2>a, <2>b, <2>4, <3>1 DEF CancelByTokenUpdate
    <2>5. ASSUME NEW h \in Host, DeleteUserExec(h) PROVE Mirrors(x)'
      <3>1. CASE \A b \in Inserted : bookings[b].host # h
        <4>1. /\ users' = users \ {h}
              /\ bookings' = [b \in Inserted |->
                                 [bookings[b] EXCEPT !.seats[h] = "none"]]
          BY <2>5, <3>1 DEF DeleteUserExec
        <4>2. x \in Inserted
          BY <4>1 DEF Inserted
        <4>3. bookings'[x] = [bookings[x] EXCEPT !.seats[h] = "none"]
          BY <4>1, <4>2
        <4>4. /\ bookings'[x].host = bookings[x].host
              /\ bookings'[x].seats = [bookings[x].seats EXCEPT ![h] = "none"]
          BY <2>0, <4>2, <4>3 DEF Row
        <4>5. bookings[x].host # h /\ bookings[x].seats \in [Host -> Seat]
          BY <2>0, <3>1, <4>2 DEF Row
        <4>6. \A k \in Host : bookings'[x].seats[k] = "primary"
                                 <=> bookings[x].seats[k] = "primary"
          <5>1. bookings[x].seats[h] # "primary"
            BY <2>0, <4>2, <4>5 DEF Mirrors
          <5>2. QED
            BY <4>4, <4>5, <5>1
        <4>7. QED
          BY <2>0, <4>1, <4>2, <4>4, <4>5, <4>6 DEF Mirrors
      <3>2. CASE ~ \A b \in Inserted : bookings[b].host # h
        BY <2>a, <2>5, <3>2 DEF DeleteUserExec
      <3>3. QED
        BY <3>1, <3>2
    <2>6. QED
      BY <2>a, <2>b, <2>1, <2>2, <2>3, <2>4, <2>5
         DEF Next, vars, Cancel, CancelByID, CancelByTokenCheck,
             DeleteUserCheck, Tick
  <1>3. QED
    BY <1>1, <1>2, TypeCorrect, PTL DEF Spec

-----------------------------------------------------------------------------
(* Cancellation.                                                           *)

\* OneCancelWins, for one booking.
WonOnce(x) == cancelled[x] = IF x \in Inserted /\ ~Active(x) THEN 1 ELSE 0

\* A step that touches neither the counters nor a status wins nothing.
LEMMA NothingWon ==
    ASSUME TypeOK, NEW x \in Booking, WonOnce(x), cancelled' = cancelled,
           Inserted \subseteq Inserted',
           x \in Inserted => bookings'[x].status = bookings[x].status,
           x \in Inserted' \ Inserted => bookings'[x].status = "confirmed"
    PROVE  WonOnce(x)'
  BY DEF WonOnce, Active

\* However many cancel calls race for a booking, one of them succeeds: the
\* conditional UPDATE, not the status read before it, decides.
THEOREM CancelSucceedsOnce == Spec => []OneCancelWins
  <1>1. Init => OneCancelWins
    BY DEF Init, OneCancelWins, Inserted
  <1>2. TypeOK /\ OneCancelWins /\ [Next]_vars => OneCancelWins'
    <2> SUFFICES ASSUME TypeOK, OneCancelWins, [Next]_vars, NEW x \in Booking
                 PROVE  WonOnce(x)'
      BY DEF OneCancelWins, WonOnce
    <2>0. WonOnce(x)
      BY DEF OneCancelWins, WonOnce
    <2>a. ASSUME UNCHANGED <<bookings, cancelled>> PROVE WonOnce(x)'
      BY <2>0, <2>a, NothingWon DEF Inserted
    <2>b. ASSUME NEW b \in Inserted, MarkCancelled(b) PROVE WonOnce(x)'
      <3>1. bookings[b] \in Row /\ Inserted' = Inserted /\ Active(b)
        BY <2>b DEF TypeOK, MarkCancelled, Inserted
      <3>2. CASE x = b
        <4>1. bookings'[b].status = "cancelled"
          BY <2>b, <3>1 DEF MarkCancelled, Inserted, Row
        <4>2. cancelled'[b] = 1
          BY <2>0, <2>b, <3>1, <3>2 DEF MarkCancelled, TypeOK, WonOnce
        <4>3. QED
          BY <3>1, <3>2, <4>1, <4>2 DEF WonOnce, Active
      <3>3. CASE x # b
        <4>1. cancelled'[x] = cancelled[x]
          BY <2>b, <3>3 DEF MarkCancelled, TypeOK
        <4>2. x \in Inserted => bookings'[x] = bookings[x]
          BY <2>b, <3>3 DEF MarkCancelled, Inserted
        <4>3. QED
          BY <2>0, <3>1, <4>1, <4>2 DEF WonOnce, Active
      <3>4. QED
        BY <3>2, <3>3
    <2>1. ASSUME NEW b \in Booking, NEW t \in EventType, NEW i \in Invitee,
                 NEW s \in Instant, NEW avail \in SUBSET Host,
                 Create(b, t, i, s, avail)
          PROVE  WonOnce(x)'
      <3>1. Inserted' = Inserted \cup {b} /\ b \notin Inserted
        BY <2>1 DEF Create, Inserted
      <3>2. bookings'[b].status = "confirmed"
        BY <2>1 DEF Create
      <3>3. \A y \in Inserted : bookings'[y] = bookings[y]
        BY <2>1 DEF Create, Inserted
      <3>4. cancelled' = cancelled
        BY <2>1 DEF Create
      <3>5. QED
        BY <2>0, <3>1, <3>2, <3>3, <3>4, NothingWon
    <2>2. ASSUME NEW b \in Inserted, NEW s \in Instant, Reschedule(b, s)
          PROVE  WonOnce(x)'
      <3>1. Inserted' = Inserted /\ cancelled' = cancelled
        BY <2>2 DEF Reschedule, Inserted
      <3>2. \A y \in Inserted : bookings'[y].status = bookings[y].status
        BY <2>2 DEF Reschedule, Inserted, TypeOK, Row
      <3>3. QED
        BY <2>0, <3>1, <3>2, NothingWon
    <2>3. ASSUME NEW b \in Inserted, NEW h \in Host, ReassignHost(b, h)
          PROVE  WonOnce(x)'
      <3>1. Inserted' = Inserted /\ cancelled' = cancelled
        BY <2>3 DEF ReassignHost, Inserted
      <3>2. \A y \in Inserted : bookings'[y].status = bookings[y].status
        BY <2>3 DEF ReassignHost, Inserted, TypeOK, Row
      <3>3. QED
        BY <2>0, <3>1, <3>2, NothingWon
    <2>4. ASSUME NEW r \in Request, CancelByTokenUpdate(r) PROVE WonOnce(x)'
      <3>1. cancelling[r] \in Inserted
        BY <2>4 DEF TypeOK, CancelByTokenUpdate
      <3>2. QED
        BY <2>a, <2>b, <2>4, <3>1 DEF CancelByTokenUpdate
    <2>5. ASSUME NEW h \in Host, DeleteUserExec(h) PROVE WonOnce(x)'
      <3>1. CASE \A b \in Inserted : bookings[b].host # h
        <4>1. bookings' = [b \in Inserted |->
                              [bookings[b] EXCEPT !.seats[h] = "none"]]
          BY <2>5, <3>1 DEF DeleteUserExec
        <4>2. Inserted' = Inserted /\ cancelled' = cancelled
          BY <2>5, <4>1 DEF Inserted, DeleteUserExec
        <4>3. x \in Inserted => bookings'[x].status = bookings[x].status
          <5> SUFFICES ASSUME x \in Inserted
                       PROVE  bookings'[x].status = bookings[x].status
            OBVIOUS
          <5>1. bookings'[x] = [bookings[x] EXCEPT !.seats[h] = "none"]
            BY <4>1
          <5>2. bookings[x] \in Row
            BY DEF TypeOK
          <5>3. QED
            BY <5>1, <5>2 DEF Row
        <4>4. QED
          BY <2>0, <4>2, <4>3, NothingWon
      <3>2. CASE ~ \A b \in Inserted : bookings[b].host # h
        BY <2>a, <2>5, <3>2 DEF DeleteUserExec
      <3>3. QED
        BY <3>1, <3>2
    <2>6. QED
      BY <2>a, <2>b, <2>1, <2>2, <2>3, <2>4, <2>5
         DEF Next, vars, Cancel, CancelByID, CancelByTokenCheck,
             DeleteUserCheck, Tick
  <1>3. QED
    BY <1>1, <1>2, TypeCorrect, PTL DEF Spec

-----------------------------------------------------------------------------
(* The ledger implements the agenda.                                       *)

ActiveOnes == {c \in Inserted : Active(c)}

\* A booking that is inserted, moved or handed over, while the others stay, is a
\* slot that is held: the double-booking guard is what keeps it from meeting
\* another.
LEMMA HoldStep ==
    ASSUME NoTextDoubleBooking', NEW b \in Booking, b \in Inserted', Active(b)',
           b \in Inserted => Active(b),
           Inserted' = Inserted \cup {b},
           \A x \in Inserted : x # b => bookings'[x] = bookings[x]
    PROVE  Agenda!Hold(b)
  <1>1. ActiveOnes' = ActiveOnes \cup {b} /\ ~(b \in Inserted /\ ~Active(b))
    BY DEF ActiveOnes, Active
  <1>2. UNCHANGED {c \in Inserted : ~Active(c)}
    BY <1>1 DEF ActiveOnes, Active
  <1>3. \A r \in ActiveOnes \ {b} : AgendaEntry(r)' = AgendaEntry(r)
    BY <1>1 DEF AgendaEntry, Seated, ActiveOnes
  <1>4. \A r \in ActiveOnes \ {b} : ~Agenda!Meets(AgendaEntry(b)', AgendaEntry(r)')
    BY <1>1 DEF NoTextDoubleBooking, AgendaEntry, Agenda!Meets, ActiveOnes
  <1>5. AgendaEntry(b)'.who \subseteq Host
    BY DEF AgendaEntry, Seated
  <1>6. QED
    BY <1>1, <1>2, <1>3, <1>4, <1>5 DEF Agenda!Hold, ActiveOnes

\* The conditional UPDATE of a cancel releases the slot.
LEMMA ReleaseStep ==
    ASSUME TypeOK, NEW b \in Inserted, MarkCancelled(b)
    PROVE  Agenda!Release(b)
  <1>1. bookings[b] \in Row /\ Inserted' = Inserted /\ Active(b)
    BY DEF TypeOK, MarkCancelled, Inserted
  <1>2. ~Active(b)' /\ \A x \in Inserted : x # b => bookings'[x] = bookings[x]
    BY <1>1 DEF MarkCancelled, Active, Inserted, Row
  <1>3. ActiveOnes' = ActiveOnes \ {b} /\ b \in ActiveOnes
    BY <1>1, <1>2 DEF ActiveOnes, Active
  <1>4. {c \in Inserted : ~Active(c)}' = {c \in Inserted : ~Active(c)} \cup {b}
    BY <1>1, <1>2 DEF Active
  <1>5. \A r \in ActiveOnes \ {b} : AgendaEntry(r)' = AgendaEntry(r)
    BY <1>1, <1>2 DEF AgendaEntry, Seated, ActiveOnes
  <1>6. QED
    BY <1>3, <1>4, <1>5 DEF Agenda!Release, ActiveOnes

\* The DELETE of a member gives up every seat of that member, or does nothing.
LEMMA LeaveStep ==
    ASSUME TypeOK, NEW h \in Host, DeleteUserExec(h)
    PROVE  Agenda!Leave(h) \/ UNCHANGED bookings
  <1>1. CASE \A b \in Inserted : bookings[b].host # h
    <2>1. bookings' = [b \in Inserted |->
                          [bookings[b] EXCEPT !.seats[h] = "none"]]
      BY <1>1 DEF DeleteUserExec
    <2>2. Inserted' = Inserted
      BY <2>1 DEF Inserted
    <2>3. ASSUME NEW x \in Inserted
          PROVE  /\ Active(x)' = Active(x)
                 /\ AgendaEntry(x)' = [AgendaEntry(x) EXCEPT !.who = @ \ {h}]
      <3>1. bookings[x] \in Row /\ bookings'[x] = [bookings[x] EXCEPT !.seats[h] = "none"]
        BY <2>1, <2>3 DEF TypeOK
      <3>2. /\ bookings'[x].start = bookings[x].start
            /\ bookings'[x].end = bookings[x].end
            /\ bookings'[x].status = bookings[x].status
            /\ bookings'[x].seats = [bookings[x].seats EXCEPT ![h] = "none"]
        BY <3>1 DEF Row
      <3>3. Seated(x)' = Seated(x) \ {h}
        BY <3>1, <3>2 DEF Seated, Row
      <3>4. Active(x)' = Active(x)
        BY <3>2 DEF Active
      <3>5. AgendaEntry(x)' = [who |-> Seated(x) \ {h}, start |-> AgendaEntry(x).start,
                               end |-> AgendaEntry(x).end]
        BY <3>2, <3>3 DEF AgendaEntry
      <3>6. [AgendaEntry(x) EXCEPT !.who = @ \ {h}]
               = [who |-> Seated(x) \ {h}, start |-> AgendaEntry(x).start,
                  end |-> AgendaEntry(x).end]
        <4>1. AgendaEntry(x) \in [who: SUBSET Host, start: Nat, end: Nat]
          BY <3>1 DEF AgendaEntry, Seated, Row
        <4>2. AgendaEntry(x).who = Seated(x)
          BY DEF AgendaEntry
        <4>3. QED
          BY <4>1, <4>2, WithoutOne, Zenon
      <3>7. QED
        BY <3>4, <3>5, <3>6
    <2>4. UNCHANGED {c \in Inserted : ~Active(c)} /\ ActiveOnes' = ActiveOnes
      BY <2>2, <2>3 DEF ActiveOnes
    <2>5. Agenda!Leave(h)
      BY <2>3, <2>4 DEF Agenda!Leave, ActiveOnes
    <2>6. QED
      BY <2>5
  <1>2. CASE ~ \A b \in Inserted : bookings[b].host # h
    BY <1>2 DEF DeleteUserExec
  <1>3. QED
    BY <1>1, <1>2

\* Every behaviour of the ledger is one of the agenda: each operation holds,
\* releases or thins out slots, one at a time and without a clash.
THEOREM LedgerImplementsAgenda == Spec => ImplementsAgenda
  <1>1. Init => Agenda!Init
    BY DEF Init, Agenda!Init, Inserted
  <1>2. TypeOK /\ NoTextDoubleBooking' /\ [Next]_vars => [Agenda!Next]_Agenda!hvars
    <2> SUFFICES ASSUME TypeOK, NoTextDoubleBooking', [Next]_vars
                 PROVE  Agenda!Next \/ UNCHANGED Agenda!hvars
      OBVIOUS
    <2>a. ASSUME UNCHANGED bookings PROVE UNCHANGED Agenda!hvars
      BY <2>a DEF Agenda!hvars, Inserted, Active, AgendaEntry, Seated
    <2>b. ASSUME NEW b \in Inserted, MarkCancelled(b) PROVE Agenda!Next
      BY <2>b, ReleaseStep DEF Agenda!Next, TypeOK
    <2>1. ASSUME NEW b \in Booking, NEW t \in EventType, NEW i \in Invitee,
                 NEW s \in Instant, NEW avail \in SUBSET Host,
                 Create(b, t, i, s, avail)
          PROVE  Agenda!Next
      <3>1. /\ Inserted' = Inserted \cup {b} /\ b \notin Inserted
            /\ \A x \in Inserted : bookings'[x] = bookings[x]
            /\ bookings'[b].status = "confirmed"
        BY <2>1 DEF Create, Inserted
      <3>2. Agenda!Hold(b)
        BY <3>1, HoldStep DEF Active
      <3>3. QED
        BY <3>2 DEF Agenda!Next
    <2>2. ASSUME NEW b \in Inserted, NEW s \in Instant, Reschedule(b, s)
          PROVE  Agenda!Next
      <3>1. /\ bookings[b] \in Row /\ b \in Booking /\ Active(b)
            /\ Inserted' = Inserted
            /\ \A x \in Inserted : x # b => bookings'[x] = bookings[x]
        BY <2>2 DEF Reschedule, Inserted, TypeOK
      <3>2. bookings'[b].status = bookings[b].status
        BY <2>2, <3>1 DEF Reschedule, Inserted, Row
      <3>3. Agenda!Hold(b)
        BY <3>1, <3>2, HoldStep DEF Active
      <3>4. QED
        BY <3>1, <3>3 DEF Agenda!Next
    <2>3. ASSUME NEW b \in Inserted, NEW h \in Host, ReassignHost(b, h)
          PROVE  Agenda!Next
      <3>1. /\ bookings[b] \in Row /\ b \in Booking /\ Active(b)
            /\ Inserted' = Inserted
            /\ \A x \in Inserted : x # b => bookings'[x] = bookings[x]
        BY <2>3 DEF ReassignHost, Inserted, TypeOK
      <3>2. bookings'[b].status = bookings[b].status
        BY <2>3, <3>1 DEF ReassignHost, Inserted, Row
      <3>3. Agenda!Hold(b)
        BY <3>1, <3>2, HoldStep DEF Active
      <3>4. QED
        BY <3>1, <3>3 DEF Agenda!Next
    <2>4. ASSUME NEW r \in Request, CancelByTokenUpdate(r)
          PROVE  Agenda!Next \/ UNCHANGED Agenda!hvars
      <3>1. cancelling[r] \in Inserted
        BY <2>4 DEF TypeOK, CancelByTokenUpdate
      <3>2. QED
        BY <2>a, <2>b, <2>4, <3>1 DEF CancelByTokenUpdate
    <2>5. ASSUME NEW h \in Host, DeleteUserExec(h)
          PROVE  Agenda!Next \/ UNCHANGED Agenda!hvars
      BY <2>a, <2>5, LeaveStep DEF Agenda!Next
    <2>6. QED
      BY <2>a, <2>b, <2>1, <2>2, <2>3, <2>4, <2>5
         DEF Next, vars, Cancel, CancelByID, CancelByTokenCheck,
             DeleteUserCheck, Tick
  <1>3. QED
    BY <1>1, <1>2, TypeCorrect, NeverTextDoubleBooked, PTL
       DEF Spec, ImplementsAgenda, Agenda!Spec

-----------------------------------------------------------------------------
(* The hourly throttle.                                                    *)

\* The text count passes over no booking of the last hour less one second.
LEMMA WindowCounted ==
    ASSUME TypeOK, NEW i \in Invitee
    PROVE  MadeWithinTheHour(i) \subseteq RecentOf(i)
  <1> SUFFICES ASSUME NEW b \in MadeWithinTheHour(i) PROVE b \in RecentOf(i)
    OBVIOUS
  <1>1. /\ b \in Inserted /\ bookings[b].invitee = i
        /\ bookings[b].created \in Nat /\ now \in Nat /\ Hour \in Nat
        /\ bookings[b].created >= now - Hour + 2
    BY TimeAssumption DEF MadeWithinTheHour, TypeOK, Row
  <1>2. ASSUME NEW s \in Int, NEW t \in Int, t >= s + 2 PROVE TextBefore(s, t)
    BY <1>2 DEF TextBefore, TextKey
  <1>3. QED
    BY <1>1, <1>2 DEF RecentOf

\* Only Create inserts, and only the clock moves the window: cancelling, moving
\* or handing over a booking changes neither who made it nor when.
LEMMA RowsKept ==
    ASSUME TypeOK, [Next]_vars
    PROVE  \/ \E b \in Booking, t \in EventType, i \in Invitee, s \in Instant,
                 avail \in SUBSET Host : Create(b, t, i, s, avail)
           \/ /\ Inserted' = Inserted
              /\ now' = now \/ now' = now + 1
              /\ \A x \in Inserted : /\ bookings'[x].invitee = bookings[x].invitee
                                     /\ bookings'[x].created = bookings[x].created
  <1> DEFINE Kept2 == /\ Inserted' = Inserted
                      /\ now' = now \/ now' = now + 1
                      /\ \A x \in Inserted : /\ bookings'[x].invitee = bookings[x].invitee
                                             /\ bookings'[x].created = bookings[x].created
  <1>a. ASSUME UNCHANGED bookings, now' = now \/ now' = now + 1 PROVE Kept2
    BY <1>a DEF Inserted
  <1>b. ASSUME NEW b \in Inserted, MarkCancelled(b), UNCHANGED now PROVE Kept2
    BY <1>b DEF MarkCancelled, Inserted, TypeOK, Row
  <1>1. ASSUME NEW b \in Inserted, NEW s \in Instant, Reschedule(b, s) PROVE Kept2
    BY <1>1 DEF Reschedule, Inserted, TypeOK, Row
  <1>2. ASSUME NEW b \in Inserted, NEW h \in Host, ReassignHost(b, h) PROVE Kept2
    BY <1>2 DEF ReassignHost, Inserted, TypeOK, Row
  <1>3. ASSUME NEW r \in Request, CancelByTokenUpdate(r) PROVE Kept2
    <2>1. cancelling[r] \in Inserted
      BY <1>3 DEF TypeOK, CancelByTokenUpdate
    <2>2. QED
      BY <1>a, <1>b, <1>3, <2>1 DEF CancelByTokenUpdate
  <1>4. ASSUME NEW h \in Host, DeleteUserExec(h) PROVE Kept2
    <2>1. CASE \A b \in Inserted : bookings[b].host # h
      <3>1. bookings' = [b \in Inserted |-> [bookings[b] EXCEPT !.seats[h] = "none"]]
        BY <1>4, <2>1 DEF DeleteUserExec
      <3>2. ASSUME NEW x \in Inserted
            PROVE  /\ bookings'[x].invitee = bookings[x].invitee
                   /\ bookings'[x].created = bookings[x].created
        <4>1. bookings[x] \in Row /\ bookings'[x] = [bookings[x] EXCEPT !.seats[h] = "none"]
          BY <3>1, <3>2 DEF TypeOK
        <4>2. QED
          BY <4>1 DEF Row
      <3>3. Inserted' = Inserted /\ now' = now
        BY <1>4, <3>1 DEF Inserted, DeleteUserExec
      <3>4. QED
        BY <3>2, <3>3
    <2>2. CASE ~ \A b \in Inserted : bookings[b].host # h
      BY <1>a, <1>4, <2>2 DEF DeleteUserExec
    <2>3. QED
      BY <2>1, <2>2
  <1>5. QED
    BY <1>a, <1>b, <1>1, <1>2, <1>3, <1>4
       DEF Next, vars, Cancel, CancelByID, CancelByTokenCheck, DeleteUserCheck, Tick

\* Within an hour, less the second in which text order may miscount, an address
\* books at most MaxBookingsPerHour times, whatever it cancels, moves or has
\* handed over in between.
THEOREM ThrottleHolds == Spec => []HourlyThrottle
  <1> DEFINE Inv == IsFiniteSet(Inserted) /\ HourlyThrottle
  <1>1. Init => Inv
    <2> SUFFICES ASSUME Init PROVE Inv
      OBVIOUS
    <2>1. Inserted = {} /\ \A i \in Invitee : MadeWithinTheHour(i) = {}
      BY DEF Init, Inserted, MadeWithinTheHour
    <2>2. IsFiniteSet({}) /\ Cardinality({}) = 0
      BY FS_EmptySet
    <2>3. \A i \in Invitee : Cardinality(MadeWithinTheHour(i)) = 0
      BY <2>1, <2>2
    <2>4. 0 <= MaxBookingsPerHour
      BY TimeAssumption
    <2>5. QED
      BY <2>1, <2>2, <2>3, <2>4 DEF HourlyThrottle
  <1>2. TypeOK /\ Inv /\ [Next]_vars => Inv'
    <2> SUFFICES ASSUME TypeOK, Inv, [Next]_vars PROVE Inv'
      OBVIOUS
    <2>1. CASE /\ Inserted' = Inserted
               /\ now' = now \/ now' = now + 1
               /\ \A x \in Inserted : /\ bookings'[x].invitee = bookings[x].invitee
                                      /\ bookings'[x].created = bookings[x].created
      <3> SUFFICES ASSUME NEW i \in Invitee, MaxBookingsPerHour > 0
                   PROVE  Cardinality(MadeWithinTheHour(i)') <= MaxBookingsPerHour
        BY <2>1 DEF HourlyThrottle
      <3>1. \A x \in Inserted : bookings[x].created \in Nat
        BY DEF TypeOK, Row
      <3>2. MadeWithinTheHour(i)' \subseteq MadeWithinTheHour(i)
        BY <2>1, <3>1, TimeAssumption DEF MadeWithinTheHour, TypeOK
      <3>3. MadeWithinTheHour(i) \in SUBSET Inserted
        BY DEF MadeWithinTheHour
      <3>4. IsFiniteSet(MadeWithinTheHour(i))
        BY <3>3, FS_Subset
      <3>5. /\ Cardinality(MadeWithinTheHour(i)') <= Cardinality(MadeWithinTheHour(i))
            /\ Cardinality(MadeWithinTheHour(i)') \in Nat
            /\ Cardinality(MadeWithinTheHour(i)) \in Nat
        BY <3>2, <3>4, FS_Subset, FS_CardinalityType
      <3>6. QED
        BY <3>5, TimeAssumption DEF HourlyThrottle
    <2>2. ASSUME NEW b \in Booking, NEW t \in EventType, NEW j \in Invitee,
                 NEW s \in Instant, NEW avail \in SUBSET Host,
                 Create(b, t, j, s, avail)
          PROVE  Inv'
      <3>1. /\ Inserted' = Inserted \cup {b} /\ b \notin Inserted
            /\ \A x \in Inserted : bookings'[x] = bookings[x]
            /\ bookings'[b].invitee = j /\ now' = now
        BY <2>2 DEF Create, Inserted
      <3>2. UnderHourlyCap(j)
        BY <2>2 DEF Create
      <3>3. IsFiniteSet(Inserted')
        BY <3>1, FS_AddElement
      <3>4. ASSUME NEW i \in Invitee, MaxBookingsPerHour > 0
            PROVE  Cardinality(MadeWithinTheHour(i)') <= MaxBookingsPerHour
        <4>1. CASE i # j
          <5>1. MadeWithinTheHour(i)' = MadeWithinTheHour(i)
            BY <3>1, <4>1 DEF MadeWithinTheHour
          <5>2. QED
            BY <3>4, <5>1 DEF HourlyThrottle
        <4>2. CASE i = j
          <5>1. MadeWithinTheHour(i)' \subseteq RecentOf(i) \cup {b}
            <6>1. MadeWithinTheHour(i)' \subseteq MadeWithinTheHour(i) \cup {b}
              BY <3>1 DEF MadeWithinTheHour
            <6>2. QED
              BY <6>1, WindowCounted
          <5>2. IsFiniteSet(RecentOf(i)) /\ Cardinality(RecentOf(i)) \in Nat
            <6>1. RecentOf(i) \in SUBSET Inserted
              BY DEF RecentOf
            <6>2. QED
              BY <6>1, FS_Subset, FS_CardinalityType
          <5>3. /\ IsFiniteSet(RecentOf(i) \cup {b})
                /\ Cardinality(RecentOf(i) \cup {b})
                      = IF b \in RecentOf(i) THEN Cardinality(RecentOf(i))
                        ELSE Cardinality(RecentOf(i)) + 1
            BY <5>2, FS_AddElement, Zenon
          <5>4. /\ Cardinality(MadeWithinTheHour(i)') <= Cardinality(RecentOf(i) \cup {b})
                /\ Cardinality(MadeWithinTheHour(i)') \in Nat
                /\ Cardinality(RecentOf(i) \cup {b}) \in Nat
            BY <5>1, <5>3, FS_Subset, FS_CardinalityType
          <5>5. Cardinality(RecentOf(i)) < MaxBookingsPerHour
            BY <3>2, <3>4, <4>2 DEF UnderHourlyCap
          <5>6. QED
            BY <5>2, <5>3, <5>4, <5>5, TimeAssumption
        <4>3. QED
          BY <4>1, <4>2
      <3>5. QED
        BY <3>3, <3>4 DEF HourlyThrottle
    <2>3. QED
      BY <2>1, <2>2, RowsKept
  <1>3. QED
    BY <1>1, <1>2, TypeCorrect, PTL DEF Spec
=============================================================================
