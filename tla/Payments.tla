------------------------------ MODULE Payments ------------------------------
(***************************************************************************)
(* Paid bookings: the held slot, Stripe Checkout, Stripe's webhooks, the   *)
(* worker's 45-minute sweep, and the refund on cancel                      *)
(* (internal/handler/stripe_booking.go, the paid branch of CreateBooking,  *)
(* cancelSideEffects, and the sweep in internal/worker).                   *)
(*                                                                         *)
(* Every database statement is one step.  Between two statements of one    *)
(* handler or goroutine anything else may happen: another request, a       *)
(* webhook, the sweep, and the faults the run allows.                      *)
(***************************************************************************)
EXTENDS Naturals

CONSTANTS
    Booking,  \* bookings of priced event types
    Faults    \* what may go wrong in this instance

Fault ==
    {"crash",        \* the process stops; goroutines and requests are lost
     "disconnect",   \* the booker's connection drops, cancelling r.Context()
     "lostEvents",   \* an event never takes effect: Stripe gives up on it, or
                     \* its UPDATE fails and it is acknowledged all the same
     "refundError",  \* Stripe's refund call fails, its answer is lost, or it
                     \* cannot be recorded
     "loadError"}    \* a side effect cannot load the booking, or Stripe's keys
                     \* are gone

ASSUME FaultAssumption == Faults \subseteq Fault

VARIABLES
    status,    \* bookings.status, "absent" before the insert
    pay,       \* bookings.payment_status
    checkout,  \* CreateBooking's progress
    session,   \* the Checkout session at Stripe
    money,     \* the booker's money at Stripe
    confirm,   \* confirmPaidBooking's progress
    sent,      \* confirmations dispatched for the booking
    effects,   \* cancelSideEffects' progress
    age        \* 0: Checkout window, 1: window over, 2: past the 45-minute cut-off

vars == <<status, pay, checkout, session, money, confirm, sent, effects, age>>

\* A hold is a booking that keeps its slot without having been paid for.
Held(b) == status[b] = "confirmed" /\ pay[b] \in {"none", "pending"}

-----------------------------------------------------------------------------
Init ==
    /\ status   = [b \in Booking |-> "absent"]
    /\ pay      = [b \in Booking |-> "none"]
    /\ checkout = [b \in Booking |-> "none"]
    /\ session  = [b \in Booking |-> "none"]
    /\ money    = [b \in Booking |-> "kept"]
    /\ confirm  = [b \in Booking |-> "none"]
    /\ sent     = [b \in Booking |-> 0]
    /\ effects  = [b \in Booking |-> "none"]
    /\ age      = [b \in Booking |-> 0]

(* CreateBooking, paid branch.                                             *)

\* Service.Create commits: the slot is held, payment_status is still 'none'.
InsertHold(b) ==
    /\ status[b] = "absent"
    /\ status' = [status EXCEPT ![b] = "confirmed"]
    /\ checkout' = [checkout EXCEPT ![b] = "inserted"]
    /\ UNCHANGED <<pay, session, money, confirm, sent, effects, age>>

\* Stripe creates the Checkout session.
CreateCheckoutSession(b) ==
    /\ checkout[b] = "inserted"
    /\ session' = [session EXCEPT ![b] = "open"]
    /\ checkout' = [checkout EXCEPT ![b] = "opened"]
    /\ UNCHANGED <<status, pay, money, confirm, sent, effects, age>>

\* Slip: a payment status outside the column's CHECK list.
MarkUnpaid(b) ==
    /\ checkout[b] = "opened"
    /\ pay' = [pay EXCEPT ![b] = "unpaid"]
    /\ checkout' = [checkout EXCEPT ![b] = "redirected"]
    /\ UNCHANGED <<status, session, money, confirm, sent, effects, age>>

\* startBookingCheckout's UPDATE, whatever the booking's status is by now, and
\* the redirect to Stripe; a dropped connection loses the redirect.
MarkPending(b) ==
    /\ checkout[b] = "opened"
    /\ pay' = [pay EXCEPT ![b] = "pending"]
    /\ \/ checkout' = [checkout EXCEPT ![b] = "redirected"]
       \/ /\ "disconnect" \in Faults
          /\ checkout' = [checkout EXCEPT ![b] = "over"]
    /\ UNCHANGED <<status, session, money, confirm, sent, effects, age>>

\* No Stripe client, or startBookingCheckout fails: CancelByID releases the
\* hold, without side effects.
CheckoutFails(b) ==
    /\ checkout[b] \in {"inserted", "opened"}
    /\ checkout' = [checkout EXCEPT ![b] = "over"]
    /\ status' = [status EXCEPT ![b] = "cancelled"]
    /\ UNCHANGED <<pay, session, money, confirm, sent, effects, age>>

\* The connection drops: the Stripe call or the UPDATE fails, and so does the
\* CancelByID that follows, for it uses the same request context.
CheckoutAbandoned(b) ==
    /\ "disconnect" \in Faults
    /\ checkout[b] \in {"inserted", "opened"}
    /\ checkout' = [checkout EXCEPT ![b] = "over"]
    /\ UNCHANGED <<status, pay, session, money, confirm, sent, effects, age>>

(* Stripe and the booker.                                                  *)

PayAtStripe(b) ==
    /\ checkout[b] = "redirected"
    /\ session[b] = "open"
    /\ age[b] = 0
    /\ session' = [session EXCEPT ![b] = "complete"]
    /\ money' = [money EXCEPT ![b] = "charged"]
    /\ UNCHANGED <<status, pay, checkout, confirm, sent, effects, age>>

ExpireAtStripe(b) ==
    /\ session[b] = "open"
    /\ age[b] > 0
    /\ session' = [session EXCEPT ![b] = "expired"]
    /\ UNCHANGED <<status, pay, checkout, money, confirm, sent, effects, age>>

(* StripeWebhook.  Stripe delivers an event at least once and at any time  *)
(* after it happened.                                                      *)

\* Slip: a redelivered checkout.session.completed confirms again.
ConfirmPaidAgain(b) ==
    /\ session[b] = "complete"
    /\ pay[b] \in {"pending", "paid"}
    /\ confirm[b] \in {"none", "dispatched"}
    /\ pay' = [pay EXCEPT ![b] = "paid"]
    /\ confirm' = [confirm EXCEPT ![b] = "flipped"]
    /\ UNCHANGED <<status, checkout, session, money, sent, effects, age>>

\* checkout.session.completed: confirmPaidBooking's conditional UPDATE (a
\* redelivery finds no pending row and changes nothing)...
ConfirmPaid(b) ==
    /\ session[b] = "complete"
    /\ pay[b] = "pending"
    /\ pay' = [pay EXCEPT ![b] = "paid"]
    /\ confirm' = [confirm EXCEPT ![b] = "flipped"]
    /\ UNCHANGED <<status, checkout, session, money, sent, effects, age>>

\* ...and the deferred confirmation side effects.
DispatchConfirmation(b) ==
    /\ confirm[b] = "flipped"
    /\ confirm' = [confirm EXCEPT ![b] = "dispatched"]
    /\ sent' = [sent EXCEPT ![b] = @ + 1]
    /\ UNCHANGED <<status, pay, checkout, session, money, effects, age>>

\* confirmPaidBooking cannot load what the confirmation needs, and returns.
ConfirmationFails(b) ==
    /\ "loadError" \in Faults
    /\ confirm[b] = "flipped"
    /\ confirm' = [confirm EXCEPT ![b] = "lost"]
    /\ UNCHANGED <<status, pay, checkout, session, money, sent, effects, age>>

\* Slip: the expiry handler forgets to ask whether the hold was paid.
ReleaseAnyHold(b) ==
    /\ session[b] = "expired" \/ session[b] = "complete"
    /\ status[b] = "confirmed"
    /\ status' = [status EXCEPT ![b] = "cancelled"]
    /\ UNCHANGED <<pay, checkout, session, money, confirm, sent, effects, age>>

\* checkout.session.expired: releaseUnpaidHold.
ReleaseUnpaidHold(b) ==
    /\ session[b] = "expired"
    /\ status[b] = "confirmed" /\ pay[b] = "pending"
    /\ status' = [status EXCEPT ![b] = "cancelled"]
    /\ UNCHANGED <<pay, checkout, session, money, confirm, sent, effects, age>>

(* The worker's backstop.                                                  *)

StaleHold(b) == status[b] = "confirmed" /\ pay[b] = "pending" /\ age[b] = 2

\* Slip: the backstop is left to the expiry webhook.
NoSweep ==
    /\ FALSE
    /\ UNCHANGED vars

HoldSweep ==
    /\ \E b \in Booking : StaleHold(b)
    /\ status' = [b \in Booking |-> IF StaleHold(b) THEN "cancelled" ELSE status[b]]
    /\ UNCHANGED <<pay, checkout, session, money, confirm, sent, effects, age>>

(* Cancelling, by host, admin, manage link or MCP, and the refund.         *)

CancelBooking(b) ==
    /\ status[b] = "confirmed"
    /\ status' = [status EXCEPT ![b] = "cancelled"]
    /\ effects' = [effects EXCEPT ![b] = "started"]
    /\ UNCHANGED <<pay, checkout, session, money, confirm, sent, age>>

\* cancelSideEffects or refundBookingPayment returns before the claim.
LoadFails(b) ==
    /\ "loadError" \in Faults
    /\ effects[b] = "started"
    /\ effects' = [effects EXCEPT ![b] = "over"]
    /\ UNCHANGED <<status, pay, checkout, session, money, confirm, sent, age>>

\* refundBookingPayment claims a paid row; on any other it stops.
ClaimRefund(b) ==
    /\ effects[b] = "started"
    /\ IF pay[b] = "paid"
       THEN /\ pay' = [pay EXCEPT ![b] = "refunding"]
            /\ effects' = [effects EXCEPT ![b] = "claimed"]
       ELSE /\ effects' = [effects EXCEPT ![b] = "over"]
            /\ UNCHANGED pay
    /\ UNCHANGED <<status, checkout, session, money, confirm, sent, age>>

\* The Stripe call succeeds.
RefundAtStripe(b) ==
    /\ effects[b] = "claimed"
    /\ money' = [money EXCEPT ![b] = "returned"]
    /\ effects' = [effects EXCEPT ![b] = "refunded"]
    /\ UNCHANGED <<status, pay, checkout, session, confirm, sent, age>>

\* The Stripe call returns an error: Stripe refused, or refunded and the
\* answer was lost.
RefundFails(b) ==
    /\ "refundError" \in Faults
    /\ effects[b] = "claimed"
    /\ effects' = [effects EXCEPT ![b] = "failed"]
    /\ \/ UNCHANGED money
       \/ money' = [money EXCEPT ![b] = "returned"]
    /\ UNCHANGED <<status, pay, checkout, session, confirm, sent, age>>

\* Slip: the row is marked refunded before Stripe is asked.
MarkRefundedEarly(b) ==
    /\ effects[b] \in {"claimed", "refunded"}
    /\ pay[b] = "refunding"
    /\ pay' = [pay EXCEPT ![b] = "refunded"]
    /\ UNCHANGED <<status, checkout, session, money, confirm, sent, effects, age>>

\* The refund is recorded; if that UPDATE fails the row stays 'refunding'.
MarkRefunded(b) ==
    /\ effects[b] = "refunded"
    /\ \/ pay' = [pay EXCEPT ![b] = "refunded"]
       \/ "refundError" \in Faults /\ UNCHANGED pay
    /\ effects' = [effects EXCEPT ![b] = "over"]
    /\ UNCHANGED <<status, checkout, session, money, confirm, sent, age>>

\* The claim is given back; if that UPDATE fails too (the context has timed
\* out), the row stays 'refunding'.
RevertClaim(b) ==
    /\ effects[b] = "failed"
    /\ \/ pay' = [pay EXCEPT ![b] = "paid"]
       \/ UNCHANGED pay
    /\ effects' = [effects EXCEPT ![b] = "over"]
    /\ UNCHANGED <<status, checkout, session, money, confirm, sent, age>>

\* The process stops and starts again: requests and goroutines are gone.
Crash ==
    /\ "crash" \in Faults
    /\ checkout' = [b \in Booking |->
                       IF checkout[b] \in {"inserted", "opened"} THEN "over"
                       ELSE checkout[b]]
    /\ confirm' = [b \in Booking |->
                      IF confirm[b] = "flipped" THEN "lost" ELSE confirm[b]]
    /\ effects' = [b \in Booking |->
                      IF effects[b] = "none" THEN "none" ELSE "over"]
    /\ UNCHANGED <<status, pay, session, money, sent, age>>

GrowOld(b) ==
    /\ status[b] # "absent"
    /\ age[b] < 2
    /\ age' = [age EXCEPT ![b] = @ + 1]
    /\ UNCHANGED <<status, pay, checkout, session, money, confirm, sent, effects>>

Checkout(b) ==
    \/ CreateCheckoutSession(b) \/ MarkPending(b)
    \/ CheckoutFails(b) \/ CheckoutAbandoned(b)

Webhook(b) == ConfirmPaid(b) \/ ReleaseUnpaidHold(b)

Confirmation(b) == DispatchConfirmation(b) \/ ConfirmationFails(b)

Refund(b) ==
    \/ LoadFails(b) \/ ClaimRefund(b) \/ RefundAtStripe(b) \/ RefundFails(b)
    \/ MarkRefunded(b) \/ RevertClaim(b)

Next ==
    \/ \E b \in Booking :
          \/ InsertHold(b) \/ Checkout(b)
          \/ PayAtStripe(b) \/ ExpireAtStripe(b)
          \/ Webhook(b) \/ Confirmation(b)
          \/ CancelBooking(b) \/ Refund(b)
          \/ GrowOld(b)
    \/ HoldSweep
    \/ Crash

\* Handlers and goroutines run on until they return, the worker polls every
\* 5 seconds, Stripe redelivers events until they are answered (unless the
\* instance lets it give up), and time passes.  Nobody is obliged to book, pay
\* or cancel.
Fairness ==
    /\ WF_vars(HoldSweep)
    /\ \A b \in Booking :
          /\ WF_vars(Checkout(b))
          /\ WF_vars(ExpireAtStripe(b))
          /\ WF_vars("lostEvents" \notin Faults /\ Webhook(b))
          /\ WF_vars(Confirmation(b))
          /\ WF_vars(Refund(b))
          /\ WF_vars(GrowOld(b))

Spec == Init /\ [][Next]_vars /\ Fairness

-----------------------------------------------------------------------------
(* Properties.                                                             *)

\* The columns and the progress of each handler hold values of their types.
TypeOK ==
    /\ status   \in [Booking -> {"absent", "confirmed", "cancelled"}]
    /\ pay      \in [Booking -> {"none", "pending", "paid", "refunding", "refunded"}]
    /\ checkout \in [Booking -> {"none", "inserted", "opened", "redirected", "over"}]
    /\ session  \in [Booking -> {"none", "open", "complete", "expired"}]
    /\ money    \in [Booking -> {"kept", "charged", "returned"}]
    /\ confirm  \in [Booking -> {"none", "flipped", "dispatched", "lost"}]
    /\ sent     \in [Booking -> Nat]
    /\ effects  \in [Booking -> {"none", "started", "claimed", "refunded",
                                 "failed", "over"}]
    /\ age      \in [Booking -> 0..2]

\* The payment column never claims more than Stripe did: a row is paid only if
\* the booker was charged, refunded only if the money went back, and money goes
\* back only for a cancelled booking (confirmPaidBooking,
\* refundBookingPayment).
BooksMatchStripe ==
    \A b \in Booking :
        /\ pay[b] \in {"paid", "refunding"} => money[b] # "kept"
        /\ pay[b] = "refunded" => money[b] = "returned"
        /\ money[b] = "returned" => status[b] = "cancelled"

\* A confirmation goes out at most once, however often Stripe redelivers, and
\* never before the booker was charged.
ConfirmedOnceAndPaid ==
    \A b \in Booking : sent[b] <= 1 /\ (sent[b] = 1 => money[b] # "kept")

\* A paid booking loses its slot only to a cancel that goes on to the refund,
\* never to a late expiry event or to the sweep.
PaidSlotIsKept ==
    [][\A b \in Booking :
          /\ pay[b] = "paid" /\ status[b] = "confirmed"
          /\ status'[b] = "cancelled"
          => effects'[b] = "started"]_vars

\* A hold that waits for payment ends: it is paid for or it frees its slot,
\* even if Stripe's events never arrive (the worker's backstop).
HoldResolved ==
    \A b \in Booking :
        status[b] = "confirmed" /\ pay[b] = "pending" ~> ~Held(b)

\* A refund that was claimed is carried out ("a failed Stripe call reverts the
\* claim so a later cancel retries instead of losing the refund",
\* refundBookingPayment).
RefundNotLost ==
    \A b \in Booking : pay[b] = "refunding" ~> money[b] = "returned"

\* The money of a cancelled booking goes back ("Refund on cancel for paid
\* bookings", docs/ARCHITECTURE.md section 21).
CancelledIsRefunded ==
    \A b \in Booking :
        status[b] = "cancelled" /\ money[b] = "charged" ~> money[b] = "returned"
=============================================================================
