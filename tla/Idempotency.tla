---------------------------- MODULE Idempotency ----------------------------
(***************************************************************************)
(* Retried bookings: POST /v1/bookings with an Idempotency-Key             *)
(* (internal/handler/idempotency.go and CreateBooking, free and paid       *)
(* branch; the 24-hour purge of internal/worker).                          *)
(*                                                                         *)
(* All requests here carry the same key.  Each database statement is a     *)
(* step, so requests interleave between them.  Booking itself is abstract: *)
(* Service.Create commits or refuses.  The booking a request creates is    *)
(* named after the request.                                                *)
(***************************************************************************)
EXTENDS Naturals

CONSTANTS
    Request,  \* requests a client sends with the key
    Body,     \* the body of each request, by its hash
    Priced,   \* the bodies that ask for a priced event type
    Faults    \* what may go wrong in this instance

Fault ==
    {"crash",       \* the process stops; requests in flight are lost
     "disconnect",  \* the client gives up before the response is stored
     "drop"}        \* the client gives up during the checkout

ASSUME RequestAssumption == Faults \subseteq Fault

NoRequest == "no request"

ASSUME NoRequestAssumption == NoRequest \notin Request

VARIABLES
    row,      \* the idempotency_keys row: who reserved it, and is it finished?
    booking,  \* the booking of each request
    pc,       \* each request's progress through CreateBooking
    told,     \* whose booking a 2xx response describes
    purged    \* has the key's row been purged?

vars == <<row, booking, pc, told, purged>>

Row == [state: {"absent", "pending", "finished"}, of: Request \cup {NoRequest}]

NoRow == [state |-> "absent", of |-> NoRequest]

\* Requests that reserved the key and have not returned.
Owners == {r \in Request : pc[r] \in {"owner", "checkout", "store", "release"}}

Booked == {r \in Request : booking[r] = "confirmed"}

-----------------------------------------------------------------------------
Init ==
    /\ row = NoRow
    /\ booking = [r \in Request |-> "absent"]
    /\ pc = [r \in Request |-> "new"]
    /\ told = [r \in Request |-> NoRequest]
    /\ purged = FALSE

\* Slip: the key is looked up first and inserted, or overwritten, without
\* relying on its uniqueness.
ClaimOverwriting(r) ==
    /\ pc[r] = "new"
    /\ ~purged
    /\ IF row.state # "finished"
       THEN /\ row' = [state |-> "pending", of |-> r]
            /\ pc' = [pc EXCEPT ![r] = "owner"]
       ELSE /\ pc' = [pc EXCEPT ![r] = "taken"]
            /\ UNCHANGED row
    /\ UNCHANGED <<booking, told, purged>>

\* claimIdempotencyKey's INSERT, which the primary key makes exclusive...  (A
\* client retries within the 24 hours a key is kept.)
Claim(r) ==
    /\ pc[r] = "new"
    /\ ~purged
    /\ IF row.state = "absent"
       THEN /\ row' = [state |-> "pending", of |-> r]
            /\ pc' = [pc EXCEPT ![r] = "owner"]
       ELSE /\ pc' = [pc EXCEPT ![r] = "taken"]
            /\ UNCHANGED row
    /\ UNCHANGED <<booking, told, purged>>

\* Slip: the stored response is replayed without comparing the bodies.
ReadBackAny(r) ==
    /\ pc[r] = "taken"
    /\ told' = [told EXCEPT ![r] = IF row.state = "finished" THEN row.of ELSE NoRequest]
    /\ pc' = [pc EXCEPT ![r] = "answered"]
    /\ UNCHANGED <<row, booking, purged>>

\* ...and the SELECT of the row that was there: 500 if it has gone, 409 while
\* it is unfinished, 422 if the bodies differ, else the stored response.
ReadBack(r) ==
    /\ pc[r] = "taken"
    /\ told' = [told EXCEPT ![r] =
                   IF row.state = "finished" /\ Body[row.of] = Body[r]
                   THEN row.of ELSE NoRequest]
    /\ pc' = [pc EXCEPT ![r] = "answered"]
    /\ UNCHANGED <<row, booking, purged>>

\* Validation and Service.Create: the booking is refused, or committed.
Book(r) ==
    /\ pc[r] = "owner"
    /\ \/ /\ pc' = [pc EXCEPT ![r] = "release"]
          /\ UNCHANGED booking
       \/ /\ booking' = [booking EXCEPT ![r] = "confirmed"]
          /\ pc' = [pc EXCEPT ![r] = IF Body[r] \in Priced THEN "checkout" ELSE "store"]
    /\ UNCHANGED <<row, told, purged>>

\* What a failed checkout makes of its hold: CancelByID releases it, but with
\* r.Context(), so that a client who has gone leaves the hold as it is.
HoldAfterFailure ==
    {"cancelled"} \cup (IF "drop" \in Faults THEN {"confirmed"} ELSE {})

\* startBookingCheckout succeeds, or the hold and the key are given up.
Checkout(r) ==
    /\ pc[r] = "checkout"
    /\ \/ /\ pc' = [pc EXCEPT ![r] = "store"]
          /\ UNCHANGED booking
       \/ /\ pc' = [pc EXCEPT ![r] = "release"]
          /\ \E s \in HoldAfterFailure : booking' = [booking EXCEPT ![r] = s]
    /\ UNCHANGED <<row, told, purged>>

\* finishIdempotencyKey stores the response, which goes out.  If the client has
\* gone, the UPDATE fails, and the key counts as done all the same.
Store(r) ==
    /\ pc[r] = "store"
    /\ \/ /\ row' = [state |-> IF row.state = "absent" THEN "absent" ELSE "finished",
                     of |-> row.of]
          /\ told' = [told EXCEPT ![r] = r]
       \/ "disconnect" \in Faults /\ UNCHANGED <<row, told>>
    /\ pc' = [pc EXCEPT ![r] = "answered"]
    /\ UNCHANGED <<booking, purged>>

\* Slip: the row is marked instead of deleted.
ReleaseMarking(r) ==
    /\ pc[r] = "release"
    /\ row' = [row EXCEPT !.state = "released"]
    /\ pc' = [pc EXCEPT ![r] = "answered"]
    /\ UNCHANGED <<booking, told, purged>>

\* The deferred releaseIdempotencyKey of a request that failed.
Release(r) ==
    /\ pc[r] = "release"
    /\ row' = NoRow
    /\ pc' = [pc EXCEPT ![r] = "answered"]
    /\ UNCHANGED <<booking, told, purged>>

Crash ==
    /\ "crash" \in Faults
    /\ \E r \in Request : pc[r] \notin {"new", "answered"}
    /\ pc' = [r \in Request |-> IF pc[r] = "new" THEN "new" ELSE "answered"]
    /\ UNCHANGED <<row, booking, told, purged>>

\* Slip: the sweep forgets reservations that were never finished.
PurgeFinished ==
    /\ row.state = "finished"
    /\ Owners = {}
    /\ row' = NoRow
    /\ purged' = TRUE
    /\ UNCHANGED <<booking, pc, told>>

\* The worker's purge, 24 hours after the claim; no request lives that long.
Purge ==
    /\ row.state # "absent"
    /\ Owners = {}
    /\ row' = NoRow
    /\ purged' = TRUE
    /\ UNCHANGED <<booking, pc, told>>

Handle(r) ==
    ReadBack(r) \/ Book(r) \/ Checkout(r) \/ Store(r) \/ Release(r)

Next ==
    \/ \E r \in Request : Claim(r) \/ Handle(r)
    \/ Crash
    \/ Purge

\* A handler runs until it returns, and the worker polls.
Fairness ==
    /\ \A r \in Request : WF_vars(Handle(r))
    /\ WF_vars(Purge)

Spec == Init /\ [][Next]_vars /\ Fairness

-----------------------------------------------------------------------------
(* Properties.                                                             *)

\* The row, the bookings and the progress of the requests have their types.
TypeOK ==
    /\ row \in Row
    /\ booking \in [Request -> {"absent", "confirmed", "cancelled"}]
    /\ pc \in [Request -> {"new", "taken", "owner", "checkout", "store",
                           "release", "answered"}]
    /\ told \in [Request -> Request \cup {NoRequest}]
    /\ purged \in BOOLEAN

\* However often, and however concurrently, a request is sent with one key, at
\* most one booking comes out of it ("the original response is replayed
\* verbatim instead of creating a duplicate booking",
\* migrations/00024_idempotency_keys.sql).
OneBooking == \A r, s \in Booked : r = s

\* A client is only ever told of a booking that was made, and made from the
\* same body it sent.
ToldTheTruth ==
    \A r \in Request :
        told[r] # NoRequest =>
            booking[told[r]] = "confirmed" /\ Body[told[r]] = Body[r]

\* A reservation does not stay for ever: it is finished, released or, after a
\* crash, purged.
ReservationEnds == row.state = "pending" ~> row.state # "pending"
=============================================================================
