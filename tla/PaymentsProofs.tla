--------------------------- MODULE PaymentsProofs ---------------------------
(***************************************************************************)
(* Proofs about Payments, for any set of bookings and any faults.          *)
(***************************************************************************)
EXTENDS Payments, TLAPS

\* Every step keeps the columns and the handlers' progress in their types.
LEMMA TypeStep ==
    ASSUME TypeOK, [Next]_vars
    PROVE  TypeOK'
<1> USE DEF TypeOK
<1>1. ASSUME NEW b \in Booking, InsertHold(b) PROVE TypeOK'
  BY <1>1 DEF InsertHold
<1>2. ASSUME NEW b \in Booking, CreateCheckoutSession(b) PROVE TypeOK'
  BY <1>2 DEF CreateCheckoutSession
<1>3. ASSUME NEW b \in Booking, MarkPending(b) PROVE TypeOK'
  BY <1>3 DEF MarkPending
<1>4. ASSUME NEW b \in Booking, CheckoutFails(b) PROVE TypeOK'
  BY <1>4 DEF CheckoutFails
<1>5. ASSUME NEW b \in Booking, CheckoutAbandoned(b) PROVE TypeOK'
  BY <1>5 DEF CheckoutAbandoned
<1>6. ASSUME NEW b \in Booking, PayAtStripe(b) PROVE TypeOK'
  BY <1>6 DEF PayAtStripe
<1>7. ASSUME NEW b \in Booking, ExpireAtStripe(b) PROVE TypeOK'
  BY <1>7 DEF ExpireAtStripe
<1>8. ASSUME NEW b \in Booking, ConfirmPaid(b) PROVE TypeOK'
  BY <1>8 DEF ConfirmPaid
<1>9. ASSUME NEW b \in Booking, DispatchConfirmation(b) PROVE TypeOK'
  BY <1>9 DEF DispatchConfirmation
<1>10. ASSUME NEW b \in Booking, ConfirmationFails(b) PROVE TypeOK'
  BY <1>10 DEF ConfirmationFails
<1>11. ASSUME NEW b \in Booking, ReleaseUnpaidHold(b) PROVE TypeOK'
  BY <1>11 DEF ReleaseUnpaidHold
<1>12. ASSUME NEW b \in Booking, CancelBooking(b) PROVE TypeOK'
  BY <1>12 DEF CancelBooking
<1>13. ASSUME NEW b \in Booking, LoadFails(b) PROVE TypeOK'
  BY <1>13 DEF LoadFails
<1>14. ASSUME NEW b \in Booking, ClaimRefund(b) PROVE TypeOK'
  BY <1>14 DEF ClaimRefund
<1>15. ASSUME NEW b \in Booking, RefundAtStripe(b) PROVE TypeOK'
  BY <1>15 DEF RefundAtStripe
<1>16. ASSUME NEW b \in Booking, RefundFails(b) PROVE TypeOK'
  BY <1>16 DEF RefundFails
<1>17. ASSUME NEW b \in Booking, MarkRefunded(b) PROVE TypeOK'
  BY <1>17 DEF MarkRefunded
<1>18. ASSUME NEW b \in Booking, RevertClaim(b) PROVE TypeOK'
  BY <1>18 DEF RevertClaim
<1>19. ASSUME NEW b \in Booking, GrowOld(b) PROVE TypeOK'
  BY <1>19 DEF GrowOld
<1>20. CASE HoldSweep
  BY <1>20 DEF HoldSweep, StaleHold
<1>21. CASE Crash
  BY <1>21 DEF Crash
<1>22. CASE UNCHANGED vars
  BY <1>22 DEF vars
<1> QED
  BY <1>1, <1>2, <1>3, <1>4, <1>5, <1>6, <1>7, <1>8, <1>9, <1>10,
     <1>11, <1>12, <1>13, <1>14, <1>15, <1>16, <1>17, <1>18, <1>19,
     <1>20, <1>21, <1>22
     DEF Next, Checkout, Webhook, Confirmation, Refund

\* The columns hold values of their CHECK lists, whatever fails.
THEOREM TypeCorrect == Spec => []TypeOK
<1>1. Init => TypeOK
  BY DEF Init, TypeOK
<1>2. TypeOK /\ [Next]_vars => TypeOK'
  BY TypeStep
<1> QED
  BY <1>1, <1>2, PTL DEF Spec

-----------------------------------------------------------------------------
\* A booking has no Checkout session before CreateBooking asks for one, and
\* money moves with it: charged when it completes, given back only after that.
SessionMoney ==
    \A b \in Booking :
        /\ status[b] = "absent" => checkout[b] = "none"
        /\ checkout[b] \in {"none", "inserted"} => session[b] = "none"
        /\ session[b] # "complete" <=> money[b] = "kept"

\* Only a paid row is claimed for a refund, and Stripe has answered by the time
\* the refund is recorded.
RefundOrder ==
    \A b \in Booking :
        /\ effects[b] # "none" => status[b] = "cancelled"
        /\ effects[b] \in {"claimed", "failed"} => money[b] # "kept"
        /\ effects[b] = "refunded" => money[b] = "returned"

\* BooksMatchStripe is not inductive: what the columns say must be tied to the
\* session (which webhooks report) and to the refund's progress.
BooksInv == BooksMatchStripe /\ SessionMoney /\ RefundOrder

\* Every step keeps BooksInv.
LEMMA BooksStep ==
    ASSUME TypeOK, BooksInv, [Next]_vars
    PROVE  BooksInv'
<1> USE DEF TypeOK, BooksInv, BooksMatchStripe, SessionMoney, RefundOrder
<1>1. ASSUME NEW b \in Booking, InsertHold(b) PROVE BooksInv'
  BY <1>1 DEF InsertHold
<1>2. ASSUME NEW b \in Booking, CreateCheckoutSession(b) PROVE BooksInv'
  BY <1>2 DEF CreateCheckoutSession
<1>3. ASSUME NEW b \in Booking, MarkPending(b) PROVE BooksInv'
  BY <1>3 DEF MarkPending
<1>4. ASSUME NEW b \in Booking, CheckoutFails(b) PROVE BooksInv'
  BY <1>4 DEF CheckoutFails
<1>5. ASSUME NEW b \in Booking, CheckoutAbandoned(b) PROVE BooksInv'
  BY <1>5 DEF CheckoutAbandoned
<1>6. ASSUME NEW b \in Booking, PayAtStripe(b) PROVE BooksInv'
  BY <1>6 DEF PayAtStripe
<1>7. ASSUME NEW b \in Booking, ExpireAtStripe(b) PROVE BooksInv'
  BY <1>7 DEF ExpireAtStripe
<1>8. ASSUME NEW b \in Booking, ConfirmPaid(b) PROVE BooksInv'
  BY <1>8 DEF ConfirmPaid
<1>9. ASSUME NEW b \in Booking, DispatchConfirmation(b) PROVE BooksInv'
  BY <1>9 DEF DispatchConfirmation
<1>10. ASSUME NEW b \in Booking, ConfirmationFails(b) PROVE BooksInv'
  BY <1>10 DEF ConfirmationFails
<1>11. ASSUME NEW b \in Booking, ReleaseUnpaidHold(b) PROVE BooksInv'
  BY <1>11 DEF ReleaseUnpaidHold
<1>12. ASSUME NEW b \in Booking, CancelBooking(b) PROVE BooksInv'
  BY <1>12 DEF CancelBooking
<1>13. ASSUME NEW b \in Booking, LoadFails(b) PROVE BooksInv'
  BY <1>13 DEF LoadFails
<1>14. ASSUME NEW b \in Booking, ClaimRefund(b) PROVE BooksInv'
  BY <1>14 DEF ClaimRefund
<1>15. ASSUME NEW b \in Booking, RefundAtStripe(b) PROVE BooksInv'
  BY <1>15 DEF RefundAtStripe
<1>16. ASSUME NEW b \in Booking, RefundFails(b) PROVE BooksInv'
  BY <1>16 DEF RefundFails
<1>17. ASSUME NEW b \in Booking, MarkRefunded(b) PROVE BooksInv'
  BY <1>17 DEF MarkRefunded
<1>18. ASSUME NEW b \in Booking, RevertClaim(b) PROVE BooksInv'
  BY <1>18 DEF RevertClaim
<1>19. ASSUME NEW b \in Booking, GrowOld(b) PROVE BooksInv'
  BY <1>19 DEF GrowOld
<1>20. CASE HoldSweep
  BY <1>20 DEF HoldSweep, StaleHold
<1>21. CASE Crash
  BY <1>21 DEF Crash
<1>22. CASE UNCHANGED vars
  BY <1>22 DEF vars
<1> QED
  BY <1>1, <1>2, <1>3, <1>4, <1>5, <1>6, <1>7, <1>8, <1>9, <1>10,
     <1>11, <1>12, <1>13, <1>14, <1>15, <1>16, <1>17, <1>18, <1>19,
     <1>20, <1>21, <1>22
     DEF Next, Checkout, Webhook, Confirmation, Refund

\* The payment column never claims more than Stripe did: no webhook order,
\* crash, lost answer or failed refund makes a row paid without a charge,
\* refunded without a refund, or refunds a booking that stands
\* (confirmPaidBooking, refundBookingPayment).
THEOREM BooksAlwaysMatch == Spec => []BooksMatchStripe
<1>1. Init => BooksInv
  BY DEF Init, BooksInv, BooksMatchStripe, SessionMoney, RefundOrder
<1>2. TypeOK /\ BooksInv /\ [Next]_vars => BooksInv'
  BY BooksStep
<1>3. BooksInv => BooksMatchStripe
  BY DEF BooksInv
<1> QED
  BY <1>1, <1>2, <1>3, TypeCorrect, PTL DEF Spec

-----------------------------------------------------------------------------
\* A booking is confirmed by the one delivery that takes it from pending, and
\* nothing makes it pending again.
ConfirmOrder ==
    \A b \in Booking :
        /\ checkout[b] \in {"none", "inserted", "opened"} => pay[b] = "none"
        /\ effects[b] \in {"claimed", "failed", "refunded"} => pay[b] = "refunding"
        /\ pay[b] \in {"none", "pending"} => confirm[b] = "none"
        /\ confirm[b] # "dispatched" => sent[b] = 0
        /\ confirm[b] = "dispatched" => sent[b] = 1
        /\ confirm[b] # "none" => money[b] # "kept"

\* Every step keeps ConfirmOrder.
LEMMA ConfirmStep ==
    ASSUME TypeOK, BooksInv, ConfirmOrder, [Next]_vars
    PROVE  ConfirmOrder'
<1> USE DEF TypeOK, BooksInv, SessionMoney, RefundOrder, BooksMatchStripe, ConfirmOrder
<1>1. ASSUME NEW b \in Booking, InsertHold(b) PROVE ConfirmOrder'
  BY <1>1 DEF InsertHold
<1>2. ASSUME NEW b \in Booking, CreateCheckoutSession(b) PROVE ConfirmOrder'
  BY <1>2 DEF CreateCheckoutSession
<1>3. ASSUME NEW b \in Booking, MarkPending(b) PROVE ConfirmOrder'
  BY <1>3 DEF MarkPending
<1>4. ASSUME NEW b \in Booking, CheckoutFails(b) PROVE ConfirmOrder'
  BY <1>4 DEF CheckoutFails
<1>5. ASSUME NEW b \in Booking, CheckoutAbandoned(b) PROVE ConfirmOrder'
  BY <1>5 DEF CheckoutAbandoned
<1>6. ASSUME NEW b \in Booking, PayAtStripe(b) PROVE ConfirmOrder'
  BY <1>6 DEF PayAtStripe
<1>7. ASSUME NEW b \in Booking, ExpireAtStripe(b) PROVE ConfirmOrder'
  BY <1>7 DEF ExpireAtStripe
<1>8. ASSUME NEW b \in Booking, ConfirmPaid(b) PROVE ConfirmOrder'
  BY <1>8 DEF ConfirmPaid
<1>9. ASSUME NEW b \in Booking, DispatchConfirmation(b) PROVE ConfirmOrder'
  BY <1>9 DEF DispatchConfirmation
<1>10. ASSUME NEW b \in Booking, ConfirmationFails(b) PROVE ConfirmOrder'
  BY <1>10 DEF ConfirmationFails
<1>11. ASSUME NEW b \in Booking, ReleaseUnpaidHold(b) PROVE ConfirmOrder'
  BY <1>11 DEF ReleaseUnpaidHold
<1>12. ASSUME NEW b \in Booking, CancelBooking(b) PROVE ConfirmOrder'
  BY <1>12 DEF CancelBooking
<1>13. ASSUME NEW b \in Booking, LoadFails(b) PROVE ConfirmOrder'
  BY <1>13 DEF LoadFails
<1>14. ASSUME NEW b \in Booking, ClaimRefund(b) PROVE ConfirmOrder'
  BY <1>14 DEF ClaimRefund
<1>15. ASSUME NEW b \in Booking, RefundAtStripe(b) PROVE ConfirmOrder'
  BY <1>15 DEF RefundAtStripe
<1>16. ASSUME NEW b \in Booking, RefundFails(b) PROVE ConfirmOrder'
  BY <1>16 DEF RefundFails
<1>17. ASSUME NEW b \in Booking, MarkRefunded(b) PROVE ConfirmOrder'
  BY <1>17 DEF MarkRefunded
<1>18. ASSUME NEW b \in Booking, RevertClaim(b) PROVE ConfirmOrder'
  BY <1>18 DEF RevertClaim
<1>19. ASSUME NEW b \in Booking, GrowOld(b) PROVE ConfirmOrder'
  BY <1>19 DEF GrowOld
<1>20. CASE HoldSweep
  BY <1>20 DEF HoldSweep, StaleHold
<1>21. CASE Crash
  BY <1>21 DEF Crash
<1>22. CASE UNCHANGED vars
  BY <1>22 DEF vars
<1> QED
  BY <1>1, <1>2, <1>3, <1>4, <1>5, <1>6, <1>7, <1>8, <1>9, <1>10,
     <1>11, <1>12, <1>13, <1>14, <1>15, <1>16, <1>17, <1>18, <1>19,
     <1>20, <1>21, <1>22
     DEF Next, Checkout, Webhook, Confirmation, Refund

\* However often Stripe redelivers and whatever fails, a confirmation is
\* dispatched at most once, and only for a booking that was charged
\* (confirmPaidBooking's conditional UPDATE).
THEOREM ConfirmedAtMostOnce == Spec => []ConfirmedOnceAndPaid
<1>1. Init => BooksInv /\ ConfirmOrder
  BY DEF Init, BooksInv, BooksMatchStripe, SessionMoney, RefundOrder, ConfirmOrder
<1>2. TypeOK /\ BooksInv /\ ConfirmOrder /\ [Next]_vars => BooksInv' /\ ConfirmOrder'
  BY BooksStep, ConfirmStep
<1>3. TypeOK /\ ConfirmOrder => ConfirmedOnceAndPaid
  <2> SUFFICES ASSUME TypeOK, ConfirmOrder, NEW b \in Booking
               PROVE  sent[b] <= 1 /\ (sent[b] = 1 => money[b] # "kept")
    BY DEF ConfirmedOnceAndPaid
  <2>1. CASE confirm[b] = "dispatched"
    BY <2>1 DEF ConfirmOrder
  <2>2. CASE confirm[b] # "dispatched"
    BY <2>2 DEF ConfirmOrder
  <2> QED
    BY <2>1, <2>2
<1> QED
  BY <1>1, <1>2, <1>3, TypeCorrect, PTL DEF Spec
-----------------------------------------------------------------------------
\* What PaidSlotIsKept says of one step.
SlotStep ==
    \A b \in Booking :
        /\ pay[b] = "paid" /\ status[b] = "confirmed"
        /\ status'[b] = "cancelled"
        => effects'[b] = "started"

\* Only a cancel takes the slot of a paid booking: the failed checkout, the
\* expiry event and the sweep all find the row unpaid.
LEMMA SlotLemma ==
    ASSUME TypeOK, ConfirmOrder, [Next]_vars
    PROVE  SlotStep
<1> USE DEF TypeOK, ConfirmOrder, SlotStep

<1>1. ASSUME NEW b \in Booking, InsertHold(b) PROVE SlotStep
  BY <1>1 DEF InsertHold
<1>2. ASSUME NEW b \in Booking, CreateCheckoutSession(b) PROVE SlotStep
  BY <1>2 DEF CreateCheckoutSession
<1>3. ASSUME NEW b \in Booking, MarkPending(b) PROVE SlotStep
  BY <1>3 DEF MarkPending
<1>4. ASSUME NEW b \in Booking, CheckoutFails(b) PROVE SlotStep
  BY <1>4 DEF CheckoutFails
<1>5. ASSUME NEW b \in Booking, CheckoutAbandoned(b) PROVE SlotStep
  BY <1>5 DEF CheckoutAbandoned
<1>6. ASSUME NEW b \in Booking, PayAtStripe(b) PROVE SlotStep
  BY <1>6 DEF PayAtStripe
<1>7. ASSUME NEW b \in Booking, ExpireAtStripe(b) PROVE SlotStep
  BY <1>7 DEF ExpireAtStripe
<1>8. ASSUME NEW b \in Booking, ConfirmPaid(b) PROVE SlotStep
  BY <1>8 DEF ConfirmPaid
<1>9. ASSUME NEW b \in Booking, DispatchConfirmation(b) PROVE SlotStep
  BY <1>9 DEF DispatchConfirmation
<1>10. ASSUME NEW b \in Booking, ConfirmationFails(b) PROVE SlotStep
  BY <1>10 DEF ConfirmationFails
<1>11. ASSUME NEW b \in Booking, ReleaseUnpaidHold(b) PROVE SlotStep
  BY <1>11 DEF ReleaseUnpaidHold
<1>12. ASSUME NEW b \in Booking, CancelBooking(b) PROVE SlotStep
  BY <1>12 DEF CancelBooking
<1>13. ASSUME NEW b \in Booking, LoadFails(b) PROVE SlotStep
  BY <1>13 DEF LoadFails
<1>14. ASSUME NEW b \in Booking, ClaimRefund(b) PROVE SlotStep
  BY <1>14 DEF ClaimRefund
<1>15. ASSUME NEW b \in Booking, RefundAtStripe(b) PROVE SlotStep
  BY <1>15 DEF RefundAtStripe
<1>16. ASSUME NEW b \in Booking, RefundFails(b) PROVE SlotStep
  BY <1>16 DEF RefundFails
<1>17. ASSUME NEW b \in Booking, MarkRefunded(b) PROVE SlotStep
  BY <1>17 DEF MarkRefunded
<1>18. ASSUME NEW b \in Booking, RevertClaim(b) PROVE SlotStep
  BY <1>18 DEF RevertClaim
<1>19. ASSUME NEW b \in Booking, GrowOld(b) PROVE SlotStep
  BY <1>19 DEF GrowOld
<1>20. CASE HoldSweep
  BY <1>20 DEF HoldSweep, StaleHold
<1>21. CASE Crash
  BY <1>21 DEF Crash
<1>22. CASE UNCHANGED vars
  BY <1>22 DEF vars
<1> QED
  BY <1>1, <1>2, <1>3, <1>4, <1>5, <1>6, <1>7, <1>8, <1>9, <1>10,
     <1>11, <1>12, <1>13, <1>14, <1>15, <1>16, <1>17, <1>18, <1>19,
     <1>20, <1>21, <1>22
     DEF Next, Checkout, Webhook, Confirmation, Refund

\* A paid booking loses its slot only to a cancel that goes on to the refund
\* (releaseUnpaidHold, the worker's sweep, CreateBooking's failed checkout).
THEOREM PaidSlotAlwaysKept == Spec => PaidSlotIsKept
<1>1. Init => BooksInv /\ ConfirmOrder
  BY DEF Init, BooksInv, BooksMatchStripe, SessionMoney, RefundOrder, ConfirmOrder
<1>2. TypeOK /\ BooksInv /\ ConfirmOrder /\ [Next]_vars => BooksInv' /\ ConfirmOrder'
  BY BooksStep, ConfirmStep
<1>3. TypeOK /\ ConfirmOrder /\ [Next]_vars => [SlotStep]_vars
  BY SlotLemma
<1>4. Spec => [][SlotStep]_vars
  BY <1>1, <1>2, <1>3, TypeCorrect, PTL DEF Spec
<1> QED
  BY <1>4 DEF PaidSlotIsKept, SlotStep
=============================================================================
