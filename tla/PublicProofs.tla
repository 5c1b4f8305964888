---------------------------- MODULE PublicProofs ----------------------------
(***************************************************************************)
(* Proofs about what is behind the public booking page: Idempotency, for   *)
(* any number of requests with one key, and Slots, for any hosts, zones,   *)
(* rules, overrides, meetings, calendars and settings of the event type.   *)
(***************************************************************************)
EXTENDS Idempotency, Slots, FiniteSetTheorems, WellFoundedInduction, TLAPS

\* Every type of the model is kept by every statement of CreateBooking.
THEOREM TypeCorrect == Spec => []TypeOK
<1>1. Init => TypeOK
  <2> SUFFICES ASSUME Init PROVE TypeOK
    OBVIOUS
  <2>1. row \in Row
    BY DEF Init, Row, NoRow
  <2>2. purged \in BOOLEAN
    BY Zenon DEF Init
  <2> QED
    BY <2>1, <2>2 DEF Init, TypeOK
<1>2. TypeOK /\ [Next]_vars => TypeOK'
  <2> SUFFICES ASSUME TypeOK, [Next]_vars PROVE TypeOK'
    OBVIOUS
  <2>1. ASSUME NEW r \in Request, Claim(r) PROVE TypeOK'
    BY <2>1 DEF Claim, TypeOK, Row
  <2>2. ASSUME NEW r \in Request, ReadBack(r) PROVE TypeOK'
    BY <2>2 DEF ReadBack, TypeOK, Row
  <2>3. ASSUME NEW r \in Request, Book(r) PROVE TypeOK'
    BY <2>3 DEF Book, TypeOK
  <2>4. ASSUME NEW r \in Request, Checkout(r) PROVE TypeOK'
    BY <2>4 DEF Checkout, HoldAfterFailure, TypeOK
  <2>5. ASSUME NEW r \in Request, Store(r) PROVE TypeOK'
    BY <2>5 DEF Store, TypeOK, Row
  <2>6. ASSUME NEW r \in Request, Release(r) PROVE TypeOK'
    BY <2>6 DEF Release, TypeOK, Row, NoRow
  <2>7. CASE Crash
    BY <2>7 DEF Crash, TypeOK
  <2>8. CASE Purge
    BY <2>8 DEF Purge, TypeOK, Row, NoRow
  <2>9. CASE UNCHANGED vars
    BY <2>9 DEF vars, TypeOK
  <2> QED
    BY <2>1, <2>2, <2>3, <2>4, <2>5, <2>6, <2>7, <2>8, <2>9 DEF Next, Handle
<1> QED
  BY <1>1, <1>2, PTL DEF Spec

-----------------------------------------------------------------------------
\* A request that owns the key finds its own unfinished row.
OwnerInv == \A r \in Owners : row.state = "pending" /\ row.of = r

\* Every step keeps OwnerInv.
LEMMA OwnerStep ==
    ASSUME TypeOK, OwnerInv, [Next]_vars
    PROVE  OwnerInv'
<1> USE DEF OwnerInv, Owners
<1>1. ASSUME NEW r \in Request, Claim(r) PROVE OwnerInv'
  BY <1>1 DEF Claim, TypeOK
<1>2. ASSUME NEW r \in Request, ReadBack(r) PROVE OwnerInv'
  BY <1>2 DEF ReadBack, TypeOK
<1>3. ASSUME NEW r \in Request, Book(r) PROVE OwnerInv'
  BY <1>3 DEF Book, TypeOK
<1>4. ASSUME NEW r \in Request, Checkout(r) PROVE OwnerInv'
  BY <1>4 DEF Checkout, TypeOK
<1>5. ASSUME NEW r \in Request, Store(r) PROVE OwnerInv'
  BY <1>5 DEF Store, TypeOK
<1>6. ASSUME NEW r \in Request, Release(r) PROVE OwnerInv'
  BY <1>6 DEF Release, TypeOK
<1>7. CASE Crash
  BY <1>7 DEF Crash, TypeOK
<1>8. CASE Purge
  BY <1>8 DEF Purge
<1>9. CASE UNCHANGED vars
  BY <1>9 DEF vars
<1> QED
  BY <1>1, <1>2, <1>3, <1>4, <1>5, <1>6, <1>7, <1>8, <1>9 DEF Next, Handle

-----------------------------------------------------------------------------
\* The row keeps naming the request that booked, for as long as it lives.
RowNamesBooked ==
    ~purged => \A r \in Booked : row.state # "absent" /\ row.of = r

\* A purged key is not reserved again.
PurgedIsAbsent == purged => row.state = "absent"

\* A request that has not booked yet, or is about to give the key back, holds
\* no booking.
ReleasedHoldsNothing ==
    \A r \in Request : pc[r] \in {"new", "taken", "owner", "release"} => r \notin Booked

\* A free event type has no checkout to fail.
FreeHasNoCheckout ==
    \A r \in Request : pc[r] = "checkout" => Body[r] \in Priced

\* OneBooking is not inductive: the row must be known to name the only request
\* that may book, and a key must never be released by a request that did.
BookingInv ==
    /\ OneBooking
    /\ RowNamesBooked
    /\ PurgedIsAbsent
    /\ ReleasedHoldsNothing
    /\ FreeHasNoCheckout

\* The branch whose failure path can outlive its request is excluded: either
\* nothing is priced, or the client stays until CancelByID is through.
HoldIsReleased == Priced = {} \/ "drop" \notin Faults

\* Every step keeps BookingInv.
LEMMA BookingStep ==
    ASSUME HoldIsReleased, TypeOK, OwnerInv, BookingInv, [Next]_vars
    PROVE  BookingInv'
<1> USE DEF BookingInv, OneBooking, RowNamesBooked, PurgedIsAbsent,
            ReleasedHoldsNothing, FreeHasNoCheckout, OwnerInv, Owners, Booked
<1>1. ASSUME NEW r \in Request, Claim(r) PROVE BookingInv'
  BY <1>1 DEF Claim, TypeOK, Row
<1>2. ASSUME NEW r \in Request, ReadBack(r) PROVE BookingInv'
  BY <1>2 DEF ReadBack, TypeOK
<1>3. ASSUME NEW r \in Request, Book(r) PROVE BookingInv'
  BY <1>3 DEF Book, TypeOK
<1>4. ASSUME NEW r \in Request, Checkout(r) PROVE BookingInv'
  BY <1>4 DEF Checkout, HoldAfterFailure, TypeOK, HoldIsReleased
<1>5. ASSUME NEW r \in Request, Store(r) PROVE BookingInv'
  BY <1>5 DEF Store, TypeOK, Row
<1>6. ASSUME NEW r \in Request, Release(r) PROVE BookingInv'
  BY <1>6 DEF Release, TypeOK, NoRow
<1>7. CASE Crash
  BY <1>7 DEF Crash, TypeOK
<1>8. CASE Purge
  BY <1>8 DEF Purge, TypeOK, NoRow
<1>9. CASE UNCHANGED vars
  BY <1>9 DEF vars
<1> QED
  BY <1>1, <1>2, <1>3, <1>4, <1>5, <1>6, <1>7, <1>8, <1>9 DEF Next, Handle

\* One key, one booking: whatever requests race, crash or disconnect, as long
\* as a failed checkout gets to release its hold (claimIdempotencyKey's
\* exclusive INSERT, releaseIdempotencyKey only after a failure).
THEOREM NeverDuplicated ==
    ASSUME HoldIsReleased
    PROVE  Spec => []OneBooking
<1>1. Init => OwnerInv /\ BookingInv
  BY DEF Init, OwnerInv, BookingInv, OneBooking, RowNamesBooked, PurgedIsAbsent,
         ReleasedHoldsNothing, FreeHasNoCheckout, Owners, Booked, NoRow
<1>2. TypeOK /\ OwnerInv /\ BookingInv /\ [Next]_vars => OwnerInv' /\ BookingInv'
  BY OwnerStep, BookingStep
<1>3. BookingInv => OneBooking
  BY DEF BookingInv
<1> QED
  BY <1>1, <1>2, <1>3, TypeCorrect, PTL DEF Spec

-----------------------------------------------------------------------------
\* The request has returned, and its booking stands.
Settled(r) == r \in Request /\ pc[r] = "answered" /\ booking[r] = "confirmed"

\* A request whose response is out, or stored, has returned and keeps its
\* booking.
AnswerIsFinal ==
    /\ \A r \in Request : pc[r] \in {"checkout", "store"} => booking[r] = "confirmed"
    /\ row.state = "finished" => Settled(row.of)
    /\ \A r \in Request : told[r] # NoRequest => Settled(told[r])

\* Every step keeps the facts a replayed response rests on.
LEMMA ToldStep ==
    ASSUME TypeOK, OwnerInv, AnswerIsFinal, ToldTheTruth, [Next]_vars
    PROVE  AnswerIsFinal' /\ ToldTheTruth'
<1> USE DEF AnswerIsFinal, Settled, ToldTheTruth, TypeOK
<1>1. ASSUME NEW r \in Request, Claim(r) PROVE AnswerIsFinal' /\ ToldTheTruth'
  BY <1>1 DEF Claim
<1>2. ASSUME NEW r \in Request, ReadBack(r) PROVE AnswerIsFinal' /\ ToldTheTruth'
  BY <1>2 DEF ReadBack
<1>3. ASSUME NEW r \in Request, Book(r) PROVE AnswerIsFinal' /\ ToldTheTruth'
  BY <1>3 DEF Book
<1>4. ASSUME NEW r \in Request, Checkout(r) PROVE AnswerIsFinal' /\ ToldTheTruth'
  BY <1>4 DEF Checkout
<1>5. ASSUME NEW r \in Request, Store(r) PROVE AnswerIsFinal' /\ ToldTheTruth'
  BY <1>5 DEF Store, OwnerInv, Owners, Row
<1>6. ASSUME NEW r \in Request, Release(r) PROVE AnswerIsFinal' /\ ToldTheTruth'
  BY <1>6 DEF Release, NoRow
<1>7. CASE Crash
  BY <1>7 DEF Crash
<1>8. CASE Purge
  BY <1>8 DEF Purge, NoRow
<1>9. CASE UNCHANGED vars
  BY <1>9 DEF vars
<1> QED
  BY <1>1, <1>2, <1>3, <1>4, <1>5, <1>6, <1>7, <1>8, <1>9 DEF Next, Handle

\* A response describes a booking that exists and was made from the body that
\* was sent (ReadBack's hash comparison, finishIdempotencyKey by the owner).
THEOREM AlwaysToldTheTruth == Spec => []ToldTheTruth
<1> DEFINE Inv == OwnerInv /\ AnswerIsFinal /\ ToldTheTruth
<1>1. Init => Inv
  BY DEF Init, OwnerInv, Owners, AnswerIsFinal, ToldTheTruth, NoRow
<1>2. TypeOK /\ Inv /\ [Next]_vars => Inv'
  BY OwnerStep, ToldStep
<1>3. Inv => ToldTheTruth
  OBVIOUS
<1> QED
  BY <1>1, <1>2, <1>3, TypeCorrect, PTL DEF Spec

-----------------------------------------------------------------------------
(* Slots: induction and sorting.                                           *)

\* A set that holds 0 and with every number the next one holds all numbers.
LEMMA Induction ==
    ASSUME NEW S, 0 \in S, \A n \in Nat : n \in S => n + 1 \in S
    PROVE  \A n \in Nat : n \in S
<1> DEFINE R == OpToRel(<, Nat)
           T == Nat \ S
<1>1. IsWellFoundedOn(R, Nat)
  BY NatLessThanWellFounded
<1>2. SUFFICES ASSUME T # {} PROVE FALSE
  OBVIOUS
<1>3. PICK x \in T : \A y \in T : ~(<<y, x>> \in R)
  <2>1. T \subseteq Nat
    OBVIOUS
  <2> HIDE DEF R, T
  <2> QED BY <1>1, <1>2, <2>1, WFMin
<1>4. \A y \in Nat : y < x => <<y, x>> \in R
  BY DEF OpToRel
<1>5. x # 0 /\ x - 1 \in Nat /\ x - 1 < x
  OBVIOUS
<1>6. x - 1 \in S
  <2> HIDE DEF R
  <2> QED BY <1>3, <1>4, <1>5
<1> QED BY <1>5, <1>6

\* Between a number in a set and a later one outside it there is a last one inside.
LEMMA LastBefore ==
    ASSUME NEW S, NEW a \in Int, NEW b \in Int, a <= b, a \in S, b \notin S
    PROVE  \E d \in a .. b - 1 : d \in S /\ d + 1 \notin S
<1> SUFFICES ASSUME \A d \in a .. b - 1 : d \in S => d + 1 \in S
             PROVE  FALSE
  OBVIOUS
<1> DEFINE N == {n \in Nat : a + n <= b => a + n \in S}
<1>1. 0 \in N
  OBVIOUS
<1>2. ASSUME NEW n \in Nat, n \in N
      PROVE  n + 1 \in N
  <2>1. CASE a + (n + 1) <= b
    <3>1. a + n \in S /\ a + n \in a .. b - 1
      BY <1>2, <2>1
    <3>2. (a + n) + 1 \in S
      BY <3>1
    <3> QED BY <3>2
  <2> QED BY <2>1
<1>3. \A n \in Nat : n \in N
  <2> HIDE DEF N
  <2> QED BY <1>1, <1>2, Induction
<1>4. b - a \in N
  BY <1>3
<1> QED BY <1>4

-----------------------------------------------------------------------------

Sorts(q, T, n) ==
    /\ q \in [1 .. n -> T]
    /\ \A iv \in T : \E i \in 1 .. n : q[i] = iv
    /\ \A i, j \in 1 .. n : i < j => q[i].s <= q[j].s

\* Every finite set of intervals can be sorted: remove the latest, sort the rest, put it last.
LEMMA SortExists ==
    ASSUME NEW ivs, IsFiniteSet(ivs), ivs \subseteq Interval
    PROVE  \E q : Sorts(q, ivs, Cardinality(ivs))
<1> DEFINE N == {n \in Nat : \A T \in SUBSET ivs : Cardinality(T) = n => \E q : Sorts(q, T, n)}
<1>0. \A T \in SUBSET ivs : IsFiniteSet(T) /\ Cardinality(T) \in Nat
  BY FS_Subset, FS_CardinalityType
<1>1. 0 \in N
  <2> SUFFICES ASSUME NEW T \in SUBSET ivs, Cardinality(T) = 0
               PROVE  \E q : Sorts(q, T, 0)
    OBVIOUS
  <2>1. T = {}
    BY <1>0, FS_EmptySet
  <2>2. Sorts([i \in 1 .. 0 |-> i], T, 0)
    BY <2>1 DEF Sorts
  <2> QED BY <2>2
<1>2. ASSUME NEW n \in Nat, n \in N
      PROVE  n + 1 \in N
  <2> SUFFICES ASSUME NEW T \in SUBSET ivs, Cardinality(T) = n + 1
               PROVE  \E q : Sorts(q, T, n + 1)
    OBVIOUS
  <2>1. \A x \in T : T \ {x} \in SUBSET ivs /\ Cardinality(T \ {x}) = n
    <3> SUFFICES ASSUME NEW x \in T
                 PROVE  T \ {x} \in SUBSET ivs /\ Cardinality(T \ {x}) = n
      OBVIOUS
    <3>1. Cardinality(T \ {x}) = Cardinality(T) - 1
      BY <1>0, FS_RemoveElement
    <3> QED BY <3>1
  <2>2. \A x \in T : \E q : Sorts(q, T \ {x}, n)
    BY <1>2, <2>1
  <2>3. PICK x \in T : TRUE
    BY <1>0, FS_EmptySet
  <2>4. \A y \in T : y.s \in Int
    BY DEF Interval
  <2>5. \E m \in T : \A y \in T : y.s <= m.s
    <3>1. PICK q : Sorts(q, T \ {x}, n)
      BY <2>2
    <3>2. CASE n = 0
      BY <3>1, <3>2, <2>4 DEF Sorts
    <3>3. CASE n # 0
      <4>1. q[n] \in T /\ n \in 1 .. n
        BY <3>1, <3>3 DEF Sorts
      <4>2. \A y \in T \ {x} : y.s <= q[n].s
        <5> SUFFICES ASSUME NEW y \in T \ {x} PROVE y.s <= q[n].s
          OBVIOUS
        <5>1. PICK i \in 1 .. n : q[i] = y
          BY <3>1 DEF Sorts
        <5>2. CASE i = n
          BY <5>1, <5>2, <2>4, <4>1
        <5>3. CASE i < n
          BY <5>1, <5>3, <4>1, <3>1 DEF Sorts
        <5> QED BY <5>2, <5>3
      <4>3. CASE x.s >= q[n].s
        <5>1. \A y \in T : y.s <= x.s
          BY <4>1, <4>2, <4>3, <2>4
        <5> QED BY <5>1
      <4>4. CASE x.s < q[n].s
        <5>1. \A y \in T : y.s <= q[n].s
          BY <4>1, <4>2, <4>4, <2>4
        <5> QED BY <5>1, <4>1
      <4> QED BY <4>1, <4>3, <4>4, <2>4
    <3> QED BY <3>2, <3>3
  <2>6. PICK m \in T : \A y \in T : y.s <= m.s
    BY <2>5
  <2>7. PICK q : Sorts(q, T \ {m}, n)
    BY <2>2
  <2> DEFINE p == [i \in 1 .. n + 1 |-> IF i <= n THEN q[i] ELSE m]
  <2>8. p \in [1 .. n + 1 -> T]
    BY <2>7 DEF Sorts
  <2>9. \A iv \in T : \E i \in 1 .. n + 1 : p[i] = iv
    <3> SUFFICES ASSUME NEW iv \in T PROVE \E i \in 1 .. n + 1 : p[i] = iv
      OBVIOUS
    <3>1. CASE iv = m
      <4>1. p[n + 1] = m /\ n + 1 \in 1 .. n + 1
        OBVIOUS
      <4> QED BY <3>1, <4>1
    <3>2. CASE iv # m
      <4>1. PICK i \in 1 .. n : q[i] = iv
        BY <2>7, <3>2 DEF Sorts
      <4>2. p[i] = iv /\ i \in 1 .. n + 1
        BY <4>1
      <4> QED BY <4>2
    <3> QED BY <3>1, <3>2
  <2>10. \A i, j \in 1 .. n + 1 : i < j => p[i].s <= p[j].s
    <3> SUFFICES ASSUME NEW i \in 1 .. n + 1, NEW j \in 1 .. n + 1, i < j PROVE p[i].s <= p[j].s
      OBVIOUS
    <3>1. CASE j <= n
      <4>1. p[i] = q[i] /\ p[j] = q[j] /\ i \in 1 .. n /\ j \in 1 .. n
        BY <3>1
      <4> QED BY <4>1, <2>7 DEF Sorts
    <3>2. CASE j = n + 1
      <4>1. p[j] = m /\ p[i] \in T
        BY <3>2, <2>8
      <4> QED BY <4>1, <2>6
    <3> QED BY <3>1, <3>2
  <2>11. Sorts(p, T, n + 1)
    <3> HIDE DEF p
    <3> QED BY <2>8, <2>9, <2>10 DEF Sorts
  <2> QED BY <2>11
<1>3. \A n \in Nat : n \in N
  <2> HIDE DEF N
  <2> QED BY <1>1, <1>2, Induction
<1>4. Cardinality(ivs) \in N
  BY <1>0, <1>3
<1> QED BY <1>4

\* sort.Slice returns such an order.
LEMMA ByStart ==
    ASSUME NEW ivs, IsFiniteSet(ivs), ivs \subseteq Interval
    PROVE  Sorts(byStart(ivs), ivs, Cardinality(ivs))
<1>1. PICK q : Sorts(q, ivs, Cardinality(ivs))
  BY SortExists
<1>2. DOMAIN q = 1 .. Cardinality(ivs)
  BY <1>1 DEF Sorts
<1>3. /\ byStart(ivs) \in [1 .. Cardinality(ivs) -> ivs]
      /\ \A iv \in ivs : \E i \in DOMAIN byStart(ivs) : byStart(ivs)[i] = iv
      /\ \A i, j \in DOMAIN byStart(ivs) : i < j => byStart(ivs)[i].s <= byStart(ivs)[j].s
  <2>1. /\ q \in [1 .. Cardinality(ivs) -> ivs]
        /\ \A iv \in ivs : \E i \in DOMAIN q : q[i] = iv
        /\ \A i, j \in DOMAIN q : i < j => q[i].s <= q[j].s
    BY <1>1, <1>2 DEF Sorts
  <2> QED BY <2>1, Zenon DEF byStart
<1>4. DOMAIN byStart(ivs) = 1 .. Cardinality(ivs)
  BY <1>3
<1> QED BY <1>3, <1>4 DEF Sorts

\* The recursive definitions of the two loops have what they define.
LEMMA MergingDef ==
    ASSUME NEW q, Len(q) \in Nat
    PROVE  Merging(q) = [n \in 0 .. Len(q) |->
                            IF n = 0 THEN <<>> ELSE absorb(Merging(q)[n - 1], q[n])]
<1> DEFINE Is(g, k) == g = [n \in 0 .. k |-> IF n = 0 THEN <<>> ELSE absorb(g[n - 1], q[n])]
           N == {k \in Nat : \E g : Is(g, k)}
<1>1. 0 \in N
  <2>1. Is([n \in 0 .. 0 |-> <<>>], 0)
    OBVIOUS
  <2> QED BY <2>1
<1>2. ASSUME NEW k \in Nat, k \in N
      PROVE  k + 1 \in N
  <2>1. PICK g : Is(g, k)
    BY <1>2
  <2> DEFINE f == [n \in 0 .. k + 1 |-> IF n <= k THEN g[n] ELSE absorb(g[k], q[k + 1])]
  <2>2. Is(f, k + 1)
    <3>1. \A n \in 0 .. k + 1 :
              f[n] = IF n = 0 THEN <<>> ELSE absorb(f[n - 1], q[n])
      <4> SUFFICES ASSUME NEW n \in 0 .. k + 1
                   PROVE  f[n] = IF n = 0 THEN <<>> ELSE absorb(f[n - 1], q[n])
        OBVIOUS
      <4>1. CASE n = 0
        BY <2>1, <4>1
      <4>2. CASE n \in 1 .. k
        <5>1. f[n] = g[n] /\ f[n - 1] = g[n - 1]
          BY <4>2
        <5> QED BY <5>1, <4>2, <2>1
      <4>3. CASE n = k + 1
        <5>1. f[n] = absorb(g[k], q[k + 1]) /\ f[n - 1] = g[k] /\ n # 0
          BY <4>3
        <5> QED BY <5>1, <4>3
      <4> QED BY <4>1, <4>2, <4>3
    <3>2. f = [n \in 0 .. k + 1 |-> f[n]]
      OBVIOUS
    <3> HIDE DEF f
    <3> QED BY <3>1, <3>2
  <2> HIDE DEF f, Is
  <2> QED BY <2>2
<1>3. \A k \in Nat : k \in N
  <2> HIDE DEF N
  <2> QED BY <1>1, <1>2, Induction
<1>4. PICK g : Is(g, Len(q))
  <2>1. Len(q) \in N
    BY <1>3
  <2> QED BY <2>1
<1>5. Is(Merging(q), Len(q))
  BY <1>4, Zenon DEF Merging
<1> QED BY <1>5

\* The recursive definition behind the loop of subtract has the value that its
\* body gives.
LEMMA CuttingDef ==
    ASSUME NEW W, NEW q, Len(q) \in Nat
    PROVE  Cutting(W, q) = [n \in 0 .. Len(q) |->
                IF n = 0 THEN W ELSE UNION {cutOut(r, q[n]) : r \in Cutting(W, q)[n - 1]}]
<1> DEFINE Cut(rem, b) == UNION {cutOut(r, b) : r \in rem}
           Is(g, k) == g = [n \in 0 .. k |-> IF n = 0 THEN W ELSE Cut(g[n - 1], q[n])]
           N == {k \in Nat : \E g : Is(g, k)}
<1>1. 0 \in N
  <2>1. Is([n \in 0 .. 0 |-> W], 0)
    OBVIOUS
  <2> QED BY <2>1
<1>2. ASSUME NEW k \in Nat, k \in N
      PROVE  k + 1 \in N
  <2> HIDE DEF Cut
  <2>1. PICK g : Is(g, k)
    BY <1>2
  <2> DEFINE f == [n \in 0 .. k + 1 |-> IF n <= k THEN g[n] ELSE Cut(g[k], q[k + 1])]
  <2>2. Is(f, k + 1)
    <3>1. \A n \in 0 .. k + 1 : f[n] = IF n = 0 THEN W ELSE Cut(f[n - 1], q[n])
      <4> SUFFICES ASSUME NEW n \in 0 .. k + 1
                   PROVE  f[n] = IF n = 0 THEN W ELSE Cut(f[n - 1], q[n])
        OBVIOUS
      <4>1. CASE n = 0
        BY <2>1, <4>1
      <4>2. CASE n \in 1 .. k
        <5>1. f[n] = g[n] /\ f[n - 1] = g[n - 1]
          BY <4>2
        <5> QED BY <5>1, <4>2, <2>1
      <4>3. CASE n = k + 1
        <5>1. f[n] = Cut(g[k], q[k + 1]) /\ f[n - 1] = g[k] /\ n # 0
          BY <4>3
        <5> QED BY <5>1, <4>3
      <4> QED BY <4>1, <4>2, <4>3
    <3>2. f = [n \in 0 .. k + 1 |-> f[n]]
      OBVIOUS
    <3> HIDE DEF f
    <3> QED BY <3>1, <3>2
  <2> HIDE DEF f, Is
  <2> QED BY <2>2
<1>3. \A k \in Nat : k \in N
  <2> HIDE DEF N
  <2> QED BY <1>1, <1>2, Induction
<1>4. PICK g : Is(g, Len(q))
  <2>1. Len(q) \in N
    BY <1>3
  <2> QED BY <2>1
<1>5. Is(Cutting(W, q), Len(q))
  BY <1>4, Zenon DEF Cutting
<1> QED BY <1>5

In(p, iv) == iv.s <= p /\ p < iv.e

\* What merging the first k intervals of q has come to.
Merged(m, q, k) ==
    /\ m \in Seq(Interval)
    /\ k # 0 => Len(m) # 0 /\ m[Len(m)].s <= q[k].s
    /\ \A i \in 1 .. k : \E j \in 1 .. Len(m) : Within(q[i], m[j])
    /\ \A j \in 1 .. Len(m) : \A p \in Int : In(p, m[j]) => \E i \in 1 .. k : In(p, q[i])

\* The ends of an interval.
LEMMA IntervalType ==
    ASSUME NEW iv \in Interval
    PROVE  iv.s \in Int /\ iv.e \in Int /\ iv.s < iv.e /\ iv = [s |-> iv.s, e |-> iv.e]
BY DEF Interval

\* Two instants in order make an interval.
LEMMA MakeInterval ==
    ASSUME NEW a \in Int, NEW b \in Int, a < b
    PROVE  [s |-> a, e |-> b] \in Interval
BY DEF Interval

\* One round of the loop of mergeIntervals: the last interval grows, stays or gets a neighbour.
LEMMA AbsorbFacts ==
    ASSUME NEW k \in Nat, NEW q, q \in [1 .. k + 1 -> Interval],
           k # 0 => q[k].s <= q[k + 1].s,
           NEW m, Merged(m, q, k)
    PROVE  Merged(absorb(m, q[k + 1]), q, k + 1)
<1> DEFINE L == Len(m)
           iv == q[k + 1]
<1>0. /\ L \in Nat /\ m \in Seq(Interval)
      /\ iv \in Interval
      /\ \A i \in 1 .. k + 1 : q[i] \in Interval
      /\ \A j \in 1 .. L : m[j] \in Interval
      /\ k + 1 \in 1 .. k + 1
  BY DEF Merged
<1>1. iv.s \in Int /\ iv.e \in Int /\ iv.s < iv.e
  BY <1>0, IntervalType
<1>2. CASE m # <<>> /\ iv.s <= m[L].e
  <2>1. L \in 1 .. L /\ L # 0
    BY <1>0, <1>2
  <2>2. m[L].s \in Int /\ m[L].e \in Int /\ m[L].s < m[L].e /\ m[L] \in Interval
    BY <1>0, <2>1, IntervalType
  <2>3. k # 0
    <3>1. In(m[L].s, m[L])
      BY <2>2 DEF In
    <3>2. \E i \in 1 .. k : In(m[L].s, q[i])
      BY <2>1, <2>2, <3>1 DEF Merged
    <3> QED BY <3>2
  <2>4. m[L].s <= iv.s
    <3>1. q[k] \in Interval /\ q[k].s \in Int
      BY <1>0, <2>3, IntervalType
    <3> QED BY <2>2, <1>1, <2>3, <3>1 DEF Merged
  <2>5. CASE iv.e > m[L].e
    <3> DEFINE x == [s |-> m[L].s, e |-> iv.e]
               n == [m EXCEPT ![L] = x]
    <3>1. absorb(m, iv) = n
      BY <1>2, <2>5 DEF absorb
    <3>2. x \in Interval /\ x.s = m[L].s /\ x.e = iv.e
      BY <1>1, <2>2, <2>5, MakeInterval
    <3> HIDE DEF x
    <3>3. /\ n \in Seq(Interval) /\ Len(n) = L
          /\ n[L] = x /\ \A j \in 1 .. L : j # L => n[j] = m[j]
      BY <1>0, <2>1, <3>2
    <3>4. \A i \in 1 .. k + 1 : \E j \in 1 .. L : Within(q[i], n[j])
      <4> SUFFICES ASSUME NEW i \in 1 .. k + 1 PROVE \E j \in 1 .. L : Within(q[i], n[j])
        OBVIOUS
      <4>1. CASE i = k + 1
        <5>1. Within(q[i], n[L])
          BY <4>1, <3>2, <3>3, <2>4, <1>1 DEF Within
        <5> QED BY <5>1, <2>1
      <4>2. CASE i # k + 1
        <5>1. PICK j \in 1 .. L : Within(q[i], m[j])
          BY <4>2 DEF Merged
        <5>2. q[i].e \in Int
          BY <1>0, IntervalType
        <5>3. CASE j = L
          <6>1. Within(q[i], n[L])
            BY <5>1, <5>2, <5>3, <3>2, <3>3, <2>2, <2>5, <1>1 DEF Within
          <6> QED BY <6>1, <2>1
        <5> QED BY <5>1, <5>3, <3>3
      <4> QED BY <4>1, <4>2
    <3>5. \A j \in 1 .. L : \A p \in Int : In(p, n[j]) => \E i \in 1 .. k + 1 : In(p, q[i])
      <4> SUFFICES ASSUME NEW j \in 1 .. L, NEW p \in Int, In(p, n[j])
                   PROVE  \E i \in 1 .. k + 1 : In(p, q[i])
        OBVIOUS
      <4>1. CASE In(p, m[j])
        BY <4>1 DEF Merged
      <4>2. CASE ~In(p, m[j])
        <5>1. j = L /\ m[L].e <= p /\ p < iv.e
          BY <4>2, <3>2, <3>3, <2>2, <1>1 DEF In
        <5>2. In(p, q[k + 1])
          BY <5>1, <1>1, <1>2, <2>2 DEF In
        <5> QED BY <5>2, <1>0
      <4> QED BY <4>1, <4>2
    <3> HIDE DEF n
    <3> QED BY <3>1, <3>2, <3>3, <3>4, <3>5, <2>1, <2>4 DEF Merged
  <2>6. CASE ~(iv.e > m[L].e)
    <3>1. absorb(m, iv) = m
      BY <1>2, <2>6 DEF absorb
    <3>2. Within(q[k + 1], m[L])
      BY <2>6, <2>4, <2>2, <1>1 DEF Within
    <3>3. \A i \in 1 .. k + 1 : \E j \in 1 .. L : Within(q[i], m[j])
      <4> SUFFICES ASSUME NEW i \in 1 .. k + 1 PROVE \E j \in 1 .. L : Within(q[i], m[j])
        OBVIOUS
      <4>1. CASE i = k + 1
        BY <4>1, <3>2, <2>1
      <4>2. CASE i # k + 1
        BY <4>2 DEF Merged
      <4> QED BY <4>1, <4>2
    <3>4. \A j \in 1 .. L : \A p \in Int : In(p, m[j]) => \E i \in 1 .. k + 1 : In(p, q[i])
      BY DEF Merged
    <3> QED BY <3>1, <3>3, <3>4, <1>0, <2>1, <2>4 DEF Merged
  <2> QED BY <2>5, <2>6
<1>3. CASE ~(m # <<>> /\ iv.s <= m[L].e)
  <2> DEFINE n == Append(m, iv)
  <2>1. absorb(m, iv) = n
    BY <1>3 DEF absorb
  <2>2. /\ n \in Seq(Interval) /\ Len(n) = L + 1
        /\ n[L + 1] = iv /\ \A j \in 1 .. L : n[j] = m[j]
        /\ L + 1 \in 1 .. L + 1 /\ L + 1 # 0
    BY <1>0
  <2> HIDE DEF n
  <2>3. \A i \in 1 .. k + 1 : \E j \in 1 .. L + 1 : Within(q[i], n[j])
    <3> SUFFICES ASSUME NEW i \in 1 .. k + 1 PROVE \E j \in 1 .. L + 1 : Within(q[i], n[j])
      OBVIOUS
    <3>1. CASE i = k + 1
      <4>1. Within(q[i], n[L + 1])
        BY <3>1, <2>2, <1>1 DEF Within
      <4> QED BY <4>1, <2>2
    <3>2. CASE i # k + 1
      <4>1. PICK j \in 1 .. L : Within(q[i], m[j])
        BY <3>2 DEF Merged
      <4>2. j \in 1 .. L + 1 /\ n[j] = m[j]
        BY <1>0, <2>2
      <4> QED BY <4>1, <4>2
    <3> QED BY <3>1, <3>2
  <2>4. \A j \in 1 .. L + 1 : \A p \in Int : In(p, n[j]) => \E i \in 1 .. k + 1 : In(p, q[i])
    <3> SUFFICES ASSUME NEW j \in 1 .. L + 1, NEW p \in Int, In(p, n[j])
                 PROVE  \E i \in 1 .. k + 1 : In(p, q[i])
      OBVIOUS
    <3>1. CASE j = L + 1
      BY <3>1, <2>2, <1>0
    <3>2. CASE j # L + 1
      <4>1. j \in 1 .. L /\ In(p, m[j])
        BY <3>2, <2>2, <1>0
      <4> QED BY <4>1 DEF Merged
    <3> QED BY <3>1, <3>2
  <2>5. n[L + 1].s <= q[k + 1].s
    BY <2>2, <1>1
  <2> QED BY <2>1, <2>2, <2>3, <2>4, <2>5 DEF Merged
<1> QED BY <1>2, <1>3

\* mergeIntervals keeps the time it is given: each interval lies in a merged one, and a merged
\* one covers nothing else, in whatever order equal starts were sorted.
THEOREM MergeKeepsTime ==
    ASSUME NEW ivs, IsFiniteSet(ivs), ivs \subseteq Interval
    PROVE  /\ mergeIntervals(ivs) \in Seq(Interval)
           /\ \A iv \in ivs : \E w \in ToSet(mergeIntervals(ivs)) : Within(iv, w)
           /\ \A w \in ToSet(mergeIntervals(ivs)), p \in Int : In(p, w) => \E iv \in ivs : In(p, iv)
<1> DEFINE q == byStart(ivs)
           n == Cardinality(ivs)
           M == Merging(q)
           K == {k \in Nat : k <= n => Merged(M[k], q, k)}
<1>1. n \in Nat
  BY FS_CardinalityType
<1>2. Sorts(q, ivs, n)
  BY ByStart
<1>3. q \in [1 .. n -> Interval] /\ q \in Seq(Interval) /\ Len(q) = n
  <2> HIDE DEF q, n
  <2> QED BY <1>1, <1>2 DEF Sorts
<1>4. \A k \in 0 .. n : M[k] = IF k = 0 THEN <<>> ELSE absorb(M[k - 1], q[k])
  <2> HIDE DEF q, n
  <2>1. M = [k \in 0 .. n |-> IF k = 0 THEN <<>> ELSE absorb(M[k - 1], q[k])]
    BY <1>1, <1>3, MergingDef
  <2> HIDE DEF M
  <2> QED BY <2>1
<1> HIDE DEF q, n, M
<1>5. 0 \in K
  <2>1. M[0] = <<>>
    BY <1>1, <1>4
  <2>2. <<>> \in Seq(Interval) /\ Len(<<>>) = 0
    OBVIOUS
  <2>3. Merged(<<>>, q, 0)
    BY <2>2 DEF Merged
  <2> QED BY <2>1, <2>3
<1>6. ASSUME NEW k \in Nat, k \in K
      PROVE  k + 1 \in K
  <2> SUFFICES ASSUME k + 1 <= n PROVE Merged(M[k + 1], q, k + 1)
    OBVIOUS
  <2>1. Merged(M[k], q, k)
    BY <1>1, <1>6
  <2>2. M[k + 1] = absorb(M[k], q[k + 1])
    <3>1. k + 1 \in 0 .. n /\ k + 1 # 0 /\ (k + 1) - 1 = k
      BY <1>1
    <3> QED BY <3>1, <1>4
  <2>3. k # 0 => q[k].s <= q[k + 1].s
    BY <1>1, <1>2 DEF Sorts
  <2> DEFINE r == [i \in 1 .. k + 1 |-> q[i]]
  <2>4. r \in [1 .. k + 1 -> Interval] /\ \A i \in 1 .. k + 1 : r[i] = q[i]
    BY <1>1, <1>3
  <2> HIDE DEF r
  <2>5. Merged(M[k], r, k)
    <3> DEFINE a == M[k]
    <3> HIDE DEF a
    <3>1. Merged(a, q, k)
      BY <2>1 DEF a
    <3>2. \A i \in 1 .. k : r[i] = q[i]
      BY <2>4
    <3>3. k # 0 => k \in 1 .. k
      BY <1>6
    <3>4. a \in Seq(Interval) /\ (k # 0 => Len(a) # 0 /\ a[Len(a)].s <= r[k].s)
      BY <3>1, <3>2, <3>3 DEF Merged
    <3>5. \A i \in 1 .. k : \E j \in 1 .. Len(a) : Within(r[i], a[j])
      BY <3>1, <3>2 DEF Merged
    <3>6. \A j \in 1 .. Len(a) : \A p \in Int :
            In(p, a[j]) => \E i \in 1 .. k : In(p, r[i])
      BY <3>1, <3>2 DEF Merged
    <3>7. Merged(a, r, k)
      BY <3>4, <3>5, <3>6 DEF Merged
    <3> QED BY <3>7 DEF a
  <2>6. k # 0 => r[k].s <= r[k + 1].s
    BY <2>3, <2>4
  <2>7. Merged(absorb(M[k], r[k + 1]), r, k + 1)
    BY <2>4, <2>5, <2>6, AbsorbFacts
  <2>8. Merged(absorb(M[k], r[k + 1]), q, k + 1)
    <3> DEFINE a == absorb(M[k], r[k + 1])
    <3> HIDE DEF a
    <3>1. Merged(a, r, k + 1)
      BY <2>7 DEF a
    <3>2. k + 1 \in 1 .. k + 1
      OBVIOUS
    <3>3. Merged(a, q, k + 1)
      BY <2>4, <3>1, <3>2 DEF Merged
    <3> QED BY <3>3 DEF a
  <2> QED BY <2>2, <2>4, <2>8
<1>7. \A k \in Nat : k \in K
  <2> HIDE DEF K
  <2> QED BY <1>5, <1>6, Induction
<1>8. n \in K
  BY <1>1, <1>7
<1>9. Merged(M[n], q, n)
  BY <1>1, <1>8
<1>10. mergeIntervals(ivs) = M[n]
  BY DEF mergeIntervals, M, q, n
<1>11. ToSet(M[n]) = {M[n][j] : j \in 1 .. Len(M[n])}
  BY <1>9 DEF Merged, ToSet
<1>12. \A iv \in ivs : \E w \in ToSet(M[n]) : Within(iv, w)
  <2> SUFFICES ASSUME NEW iv \in ivs PROVE \E w \in ToSet(M[n]) : Within(iv, w)
    OBVIOUS
  <2>1. PICK i \in 1 .. n : q[i] = iv
    BY <1>2 DEF Sorts
  <2> QED BY <2>1, <1>9, <1>11 DEF Merged
<1>13. \A w \in ToSet(M[n]), p \in Int : In(p, w) => \E iv \in ivs : In(p, iv)
  <2> SUFFICES ASSUME NEW w \in ToSet(M[n]), NEW p \in Int, In(p, w) PROVE \E iv \in ivs : In(p, iv)
    OBVIOUS
  <2>1. PICK i \in 1 .. n : In(p, q[i])
    BY <1>9, <1>11 DEF Merged
  <2>2. q[i] \in ivs
    BY <1>2 DEF Sorts
  <2> QED BY <2>1, <2>2
<1> QED BY <1>9, <1>10, <1>12, <1>13 DEF Merged

\* The image of a finite set is finite.
LEMMA FiniteImage ==
    ASSUME NEW S, IsFiniteSet(S), NEW f
    PROVE  IsFiniteSet({f[x] : x \in S})
<1> DEFINE T == {f[x] : x \in S}
           g == [x \in S |-> f[x]]
<1>1. g \in [S -> T] /\ \A t \in T : \E x \in S : g[x] = t
  OBVIOUS
<1>2. g \in Surjection(S, T)
  <2> HIDE DEF g, T
  <2> QED BY <1>1 DEF Surjection
<1> HIDE DEF g, T
<1>3. IsFiniteSet(T)
  BY <1>2, FS_Surjection
<1> QED BY <1>3 DEF T

\* cutOut leaves what lies outside the busy interval, all of it, in at most two pieces.
LEMMA CutOutFacts ==
    ASSUME NEW w \in Interval, NEW b \in Interval
    PROVE  /\ IsFiniteSet(cutOut(w, b))
           /\ \A x \in cutOut(w, b) : x \in Interval /\ Within(x, w) /\ ~overlaps(b, x)
           /\ \A iv \in Interval : Within(iv, w) /\ ~overlaps(b, iv) =>
                  \E x \in cutOut(w, b) : Within(iv, x)
           /\ ~overlaps(b, w) => cutOut(w, b) = {w}
<1>1. w.s \in Int /\ w.e \in Int /\ w.s < w.e /\ b.s \in Int /\ b.e \in Int /\ b.s < b.e
  BY IntervalType
<1>2. CASE ~overlaps(w, b)
  <2>1. cutOut(w, b) = {w} /\ ~overlaps(b, w) /\ Within(w, w)
    BY <1>1, <1>2 DEF cutOut, overlaps, Within
  <2>2. IsFiniteSet(cutOut(w, b))
    BY <2>1, FS_Singleton
  <2> QED BY <2>1, <2>2
<1>3. CASE overlaps(w, b)
  <2> DEFINE l == [s |-> w.s, e |-> b.s]
             r == [s |-> b.e, e |-> w.e]
             A == {iv \in {l} : w.s < b.s}
             B == {iv \in {r} : b.e < w.e}
  <2>1. cutOut(w, b) = A \cup B
    BY <1>3 DEF cutOut
  <2>2. IsFiniteSet(A \cup B)
    <3>1. A \in SUBSET {l} /\ B \in SUBSET {r}
      OBVIOUS
    <3>2. IsFiniteSet(A) /\ IsFiniteSet(B)
      <4> HIDE DEF A, B, l, r
      <4> QED BY <3>1, FS_Singleton, FS_Subset
    <3> HIDE DEF A, B
    <3> QED BY <3>2, FS_Union
  <2>3. w.s < b.s => l \in Interval /\ Within(l, w) /\ ~overlaps(b, l)
    BY <1>1, <1>3 DEF Interval, Within, overlaps
  <2>4. b.e < w.e => r \in Interval /\ Within(r, w) /\ ~overlaps(b, r)
    BY <1>1, <1>3 DEF Interval, Within, overlaps
  <2>5. ASSUME NEW iv \in Interval, Within(iv, w), ~overlaps(b, iv)
        PROVE  \E x \in A \cup B : Within(iv, x)
    <3>1. iv.s \in Int /\ iv.e \in Int /\ iv.s < iv.e
      BY IntervalType
    <3>2. CASE iv.e <= b.s
      <4>1. w.s < b.s /\ Within(iv, l)
        BY <1>1, <3>1, <3>2, <2>5 DEF Within
      <4>2. l \in A
        BY <4>1
      <4> QED BY <4>1, <4>2
    <3>3. CASE b.e <= iv.s
      <4>1. b.e < w.e /\ Within(iv, r)
        BY <1>1, <3>1, <3>3, <2>5 DEF Within
      <4>2. r \in B
        BY <4>1
      <4> QED BY <4>1, <4>2
    <3> QED BY <1>1, <2>5, <3>1, <3>2, <3>3 DEF overlaps
  <2>6. overlaps(b, w)
    BY <1>3 DEF overlaps
  <2>7. \A x \in A \cup B : (x = l /\ w.s < b.s) \/ (x = r /\ b.e < w.e)
    OBVIOUS
  <2> HIDE DEF A, B, l, r
  <2> QED BY <2>1, <2>2, <2>3, <2>4, <2>5, <2>6, <2>7
<1> QED BY <1>2, <1>3

\* What is left of the windows W once the first k of b are cut out.
Left(R, W, b, k) ==
    /\ IsFiniteSet(R) /\ R \subseteq Interval
    /\ \A r \in R : \E w \in W : Within(r, w)
    /\ \A r \in R, i \in 1 .. k : ~overlaps(b[i], r)
    /\ \A iv \in Interval, w \in W :
          Within(iv, w) /\ (\A i \in 1 .. k : ~overlaps(b[i], iv)) =>
             \E r \in R : Within(iv, r)
    /\ (\A w \in W, i \in 1 .. k : ~overlaps(b[i], w)) => R = W

\* Intervals within intervals.
LEMMA WithinTransitive ==
    ASSUME NEW a \in Interval, NEW b \in Interval, NEW c \in Interval, Within(a, b), Within(b, c)
    PROVE  Within(a, c)
BY IntervalType DEF Within

\* What does not meet an interval meets no part of it.
LEMMA WithinOverlap ==
    ASSUME NEW a \in Interval, NEW b \in Interval, NEW c \in Interval, Within(a, b), ~overlaps(c, b)
    PROVE  ~overlaps(c, a)
BY IntervalType DEF Within, overlaps

\* One round of the loop of subtract.
LEMMA CutStep ==
    ASSUME NEW W, W \subseteq Interval, NEW k \in Nat, NEW b, b[k + 1] \in Interval,
           \A i \in 1 .. k : b[i] \in Interval, NEW R, Left(R, W, b, k)
    PROVE  Left(UNION {cutOut(r, b[k + 1]) : r \in R}, W, b, k + 1)
<1> DEFINE c == b[k + 1]
           f == [r \in R |-> cutOut(r, c)]
           F == {f[r] : r \in R}
           U == UNION {cutOut(r, c) : r \in R}
<1>1. U = UNION F /\ \A r \in R : f[r] = cutOut(r, c)
  OBVIOUS
<1>0. R \subseteq Interval /\ IsFiniteSet(R) /\ c \in Interval
  BY DEF Left
<1>2. IsFiniteSet(U)
  <2>1. IsFiniteSet(F)
    <3> HIDE DEF f
    <3> QED BY <1>0, FiniteImage
  <2>2. \A T \in F : IsFiniteSet(T)
    <3> HIDE DEF c
    <3> QED BY <1>0, CutOutFacts
  <2> HIDE DEF F, U
  <2> QED BY <1>1, <2>1, <2>2, FS_UNION
<1>3. \A x : x \in U <=> \E r \in R : x \in cutOut(r, c)
  OBVIOUS
<1>4. \A i \in 1 .. k + 1 : i \in 1 .. k \/ i = k + 1
  OBVIOUS
<1>5. k + 1 \in 1 .. k + 1 /\ \A i \in 1 .. k : i \in 1 .. k + 1
  OBVIOUS
<1> HIDE DEF U, F, f
<1>6. \A x \in U : x \in Interval /\ (\E w \in W : Within(x, w))
                   /\ \A i \in 1 .. k + 1 : ~overlaps(b[i], x)
  <2> SUFFICES ASSUME NEW x \in U
               PROVE  x \in Interval /\ (\E w \in W : Within(x, w))
                      /\ \A i \in 1 .. k + 1 : ~overlaps(b[i], x)
    OBVIOUS
  <2>1. PICK r \in R : x \in cutOut(r, c)
    BY <1>3
  <2>2. r \in Interval /\ x \in Interval /\ Within(x, r) /\ ~overlaps(c, x)
    BY <1>0, <2>1, CutOutFacts
  <2>3. PICK w \in W : Within(r, w)
    BY DEF Left
  <2>4. w \in Interval /\ Within(x, w)
    BY <2>2, <2>3, WithinTransitive
  <2>5. \A i \in 1 .. k : ~overlaps(b[i], x)
    <3> SUFFICES ASSUME NEW i \in 1 .. k PROVE ~overlaps(b[i], x)
      OBVIOUS
    <3>1. b[i] \in Interval /\ ~overlaps(b[i], r)
      BY DEF Left
    <3> QED BY <2>2, <3>1, WithinOverlap
  <2> QED BY <2>2, <2>4, <2>5, <1>4
<1>7. ASSUME NEW iv \in Interval, NEW w \in W, Within(iv, w),
             \A i \in 1 .. k + 1 : ~overlaps(b[i], iv)
      PROVE  \E x \in U : Within(iv, x)
  <2>1. PICK r \in R : Within(iv, r)
    BY <1>5, <1>7 DEF Left
  <2>2. r \in Interval /\ ~overlaps(c, iv)
    BY <1>0, <1>5, <1>7
  <2>3. PICK x \in cutOut(r, c) : Within(iv, x)
    BY <1>0, <2>1, <2>2, CutOutFacts
  <2> QED BY <2>3, <1>3
<1>8. ASSUME \A w \in W, i \in 1 .. k + 1 : ~overlaps(b[i], w)
      PROVE  U = W
  <2>1. R = W
    BY <1>5, <1>8 DEF Left
  <2>2. \A r \in R : cutOut(r, c) = {r}
    BY <1>0, <1>5, <1>8, <2>1, CutOutFacts
  <2> QED BY <1>3, <2>1, <2>2
<1>9. Left(U, W, b, k + 1)
  BY <1>2, <1>6, <1>7, <1>8 DEF Left
<1> QED BY <1>9 DEF U

\* The loop of subtract, to its end.
LEMMA CuttingFacts ==
    ASSUME NEW W, W \subseteq Interval, IsFiniteSet(W), NEW b \in Seq(Interval)
    PROVE  Left(Cutting(W, b)[Len(b)], W, b, Len(b))
<1> DEFINE C == Cutting(W, b)
           n == Len(b)
           K == {k \in Nat : k <= n => Left(C[k], W, b, k)}
<1>1. n \in Nat /\ \A i \in 1 .. n : b[i] \in Interval
  OBVIOUS
<1>2. \A k \in 0 .. n : C[k] = IF k = 0 THEN W ELSE UNION {cutOut(r, b[k]) : r \in C[k - 1]}
  <2> DEFINE G(k) == IF k = 0 THEN W ELSE UNION {cutOut(r, b[k]) : r \in C[k - 1]}
  <2>1. C = [k \in 0 .. n |-> G(k)]
    BY <1>1, CuttingDef
  <2> HIDE DEF C, G
  <2>2. \A k \in 0 .. n : C[k] = G(k)
    BY <2>1
  <2> QED BY <2>2 DEF G
<1> HIDE DEF C
<1>3. 0 \in K
  <2>1. C[0] = W
    <3>1. 0 \in 0 .. n
      BY <1>1
    <3> HIDE DEF n
    <3> QED BY <3>1, <1>2, Zenon
  <2>2. \A w \in W : Within(w, w)
    BY IntervalType DEF Within
  <2>3. Left(W, W, b, 0)
    BY <2>2 DEF Left
  <2> QED BY <2>1, <2>3
<1>4. ASSUME NEW k \in Nat, k \in K
      PROVE  k + 1 \in K
  <2> SUFFICES ASSUME k + 1 <= n PROVE Left(C[k + 1], W, b, k + 1)
    OBVIOUS
  <2>1. Left(C[k], W, b, k)
    BY <1>1, <1>4
  <2>2. C[k + 1] = UNION {cutOut(r, b[k + 1]) : r \in C[k]}
    <3>1. k + 1 \in 0 .. n /\ k + 1 # 0 /\ (k + 1) - 1 = k
      BY <1>1
    <3> QED BY <3>1, <1>2
  <2>3. b[k + 1] \in Interval /\ \A i \in 1 .. k : b[i] \in Interval
    BY <1>1
  <2> QED BY <2>1, <2>2, <2>3, CutStep
<1>5. \A k \in Nat : k \in K
  <2> HIDE DEF K
  <2> QED BY <1>3, <1>4, Induction
<1>6. n \in K
  BY <1>1, <1>5
<1> QED BY <1>1, <1>6 DEF C

\* Overlapping intervals share an instant.
LEMMA SharedPoint ==
    ASSUME NEW a \in Interval, NEW b \in Interval, overlaps(a, b)
    PROVE  \E p \in Int : In(p, a) /\ In(p, b)
<1>1. a.s \in Int /\ a.e \in Int /\ a.s < a.e /\ b.s \in Int /\ b.e \in Int /\ b.s < b.e
  BY IntervalType
<1>2. CASE a.s <= b.s
  <2>1. In(b.s, a) /\ In(b.s, b)
    BY <1>1, <1>2 DEF In, overlaps
  <2> QED BY <1>1, <2>1
<1>3. CASE b.s <= a.s
  <2>1. In(a.s, a) /\ In(a.s, b)
    BY <1>1, <1>3 DEF In, overlaps
  <2> QED BY <1>1, <2>1
<1> QED BY <1>1, <1>2, <1>3

\* Intervals that share an instant overlap.
LEMMA PointShared ==
    ASSUME NEW a \in Interval, NEW b \in Interval, NEW p \in Int, In(p, a), In(p, b)
    PROVE  overlaps(a, b)
BY IntervalType DEF In, overlaps

\* Merging changes nothing about what overlaps.
LEMMA MergedOverlap ==
    ASSUME NEW ivs, IsFiniteSet(ivs), ivs \subseteq Interval, NEW x \in Interval
    PROVE  (\E m \in ToSet(mergeIntervals(ivs)) : overlaps(m, x)) <=> \E iv \in ivs : overlaps(iv, x)
<1> DEFINE M == ToSet(mergeIntervals(ivs))
<1>1. M \subseteq Interval
  BY MergeKeepsTime DEF ToSet
<1>2. \A iv \in ivs : \E m \in M : Within(iv, m)
  BY MergeKeepsTime
<1>3. \A m \in M, p \in Int : In(p, m) => \E iv \in ivs : In(p, iv)
  BY MergeKeepsTime
<1> HIDE DEF M
<1>4. ASSUME NEW m \in M, overlaps(m, x)
      PROVE  \E iv \in ivs : overlaps(iv, x)
  <2>1. PICK p \in Int : In(p, m) /\ In(p, x)
    BY <1>1, <1>4, SharedPoint
  <2>2. PICK iv \in ivs : In(p, iv)
    BY <1>3, <2>1
  <2> QED BY <2>1, <2>2, PointShared
<1>5. ASSUME NEW iv \in ivs, overlaps(iv, x)
      PROVE  \E m \in M : overlaps(m, x)
  <2>1. PICK m \in M : Within(iv, m)
    BY <1>2
  <2>2. iv.s \in Int /\ iv.e \in Int /\ m.s \in Int /\ m.e \in Int /\ x.s \in Int /\ x.e \in Int
    BY <1>1, IntervalType
  <2>3. overlaps(m, x)
    BY <1>5, <2>1, <2>2 DEF Within, overlaps
  <2> QED BY <2>3
<1>6. (\E m \in M : overlaps(m, x)) <=> \E iv \in ivs : overlaps(iv, x)
  BY <1>4, <1>5
<1> QED BY <1>6 DEF M

\* subtract leaves pieces of the merged windows that meet no busy interval, and no such piece
\* is lost.
LEMMA SubtractFacts ==
    ASSUME NEW windows, IsFiniteSet(windows), windows \subseteq Interval,
           NEW busy, IsFiniteSet(busy), busy \subseteq Interval
    PROVE  /\ IsFiniteSet(subtract(windows, busy)) /\ subtract(windows, busy) \subseteq Interval
           /\ \A r \in subtract(windows, busy) :
                 /\ \E w \in ToSet(mergeIntervals(windows)) : Within(r, w)
                 /\ \A b \in busy : ~overlaps(b, r)
           /\ \A iv \in Interval, w \in windows :
                 Within(iv, w) /\ (\A b \in busy : ~overlaps(b, iv)) =>
                    \E r \in subtract(windows, busy) : Within(iv, r)
<1> DEFINE W == ToSet(mergeIntervals(windows))
           b == mergeIntervals(busy)
           R == subtract(windows, busy)
<1>1. mergeIntervals(windows) \in Seq(Interval) /\ b \in Seq(Interval)
  BY MergeKeepsTime
<1>2. /\ W = {mergeIntervals(windows)[i] : i \in 1 .. Len(mergeIntervals(windows))}
      /\ W \subseteq Interval
      /\ \A i \in 1 .. Len(b) : b[i] \in ToSet(b)
      /\ \A x \in ToSet(b) : \E i \in 1 .. Len(b) : b[i] = x
  BY <1>1 DEF ToSet
<1>3. IsFiniteSet(W)
  <2>1. IsFiniteSet(1 .. Len(mergeIntervals(windows)))
    BY <1>1, FS_Interval
  <2> DEFINE q == mergeIntervals(windows)
             D == 1 .. Len(q)
  <2>2. W = {q[i] : i \in D} /\ IsFiniteSet(D)
    BY <1>2, <2>1
  <2> HIDE DEF q, D, W
  <2>3. IsFiniteSet({q[i] : i \in D})
    BY <2>2, FiniteImage
  <2> QED BY <2>2, <2>3
<1>4. R = Cutting(W, b)[Len(b)]
  BY DEF subtract
<1>5. Left(R, W, b, Len(b))
  <2> HIDE DEF W, b, R
  <2> QED BY <1>1, <1>2, <1>3, <1>4, CuttingFacts
<1>6. \A iv \in Interval : (\A i \in 1 .. Len(b) : ~overlaps(b[i], iv)) <=> (\A x \in busy : ~overlaps(x, iv))
  BY <1>2, MergedOverlap
<1>7. \A w \in windows : \E m \in W : Within(w, m)
  BY MergeKeepsTime
<1> HIDE DEF W, b, R
<1>8. ASSUME NEW r \in R
      PROVE  (\E w \in W : Within(r, w)) /\ \A x \in busy : ~overlaps(x, r)
  BY <1>5, <1>6 DEF Left
<1>9. ASSUME NEW iv \in Interval, NEW w \in windows, Within(iv, w), \A x \in busy : ~overlaps(x, iv)
      PROVE  \E r \in R : Within(iv, r)
  <2>1. PICK m \in W : Within(w, m)
    BY <1>7
  <2>2. Within(iv, m)
    BY <1>2, <1>9, <2>1, WithinTransitive
  <2> QED BY <1>5, <1>6, <1>9, <2>2 DEF Left
<1>10. IsFiniteSet(R) /\ R \subseteq Interval
  BY <1>5 DEF Left
<1> QED BY <1>8, <1>9, <1>10 DEF W, R

\* The sizes that the event type is configured with.
LEMMA Sizes ==
    /\ Day \in Nat /\ Day > 0 /\ Duration \in Nat /\ Duration > 0
    /\ SlotInterval \in Nat /\ SlotInterval > 0
    /\ BufferBefore \in Nat /\ BufferAfter \in Nat /\ MinNotice \in Nat /\ MaxFuture \in Nat
    /\ DateFrom \in Int /\ DateTo \in Int /\ Clock \in Int
BY SlotsAssumption

\* Days are as long as days.
LEMMA TimesDay ==
    ASSUME NEW d \in Int
    PROVE  /\ d * Day \in Int
           /\ (d + 1) * Day = d * Day + Day
           /\ (d - 1) * Day = d * Day - Day
           /\ (d + 2) * Day = d * Day + Day + Day
           /\ \A x \in Int : d <= x => d * Day <= x * Day
<1> DEFINE D == Day
<1>1. D \in Int /\ D > 0
  BY Sizes
<1> HIDE DEF D
<1>2. d * D \in Int /\ (d + 1) * D = d * D + D /\ (d - 1) * D = d * D - D /\ (d + 2) * D = d * D + D + D
  BY <1>1
<1>3. ASSUME NEW x \in Int, d <= x PROVE d * D <= x * D
  BY <1>1, <1>3
<1> QED BY <1>2, <1>3 DEF D

\* Multiples do not change a remainder.
LEMMA ModShift ==
    ASSUME NEW n \in Nat, n > 0, NEW x \in Int, NEW k \in Int
    PROVE  (x + k * n) % n = x % n
<1>1. x % n \in 0 .. n - 1 /\ x = n * (x \div n) + (x % n)
  OBVIOUS
<1>2. (x + k * n) % n \in 0 .. n - 1 /\ x + k * n = n * ((x + k * n) \div n) + ((x + k * n) % n)
  OBVIOUS
<1> DEFINE a == x \div n
           b == (x + k * n) \div n
           u == x % n
           v == (x + k * n) % n
<1>3. a \in Int /\ b \in Int /\ u \in Int /\ v \in Int
  BY <1>1, <1>2
<1> HIDE DEF a, b, u, v
<1>4. n * (a + k - b) = v - u
  BY <1>1, <1>2, <1>3 DEF a, b, u, v
<1>5. v - u < n /\ v - u > -n
  BY <1>1, <1>2, <1>3 DEF u, v
<1> DEFINE c == a + k - b
<1>6. c \in Int /\ n * c = v - u
  BY <1>3, <1>4
<1> HIDE DEF c
<1>7. c = 0
  <2>1. ASSUME c >= 1 PROVE FALSE
    <3>1. n * c >= n
      BY <2>1, <1>6
    <3> QED BY <3>1, <1>5, <1>6, <1>3
  <2>2. ASSUME c <= -1 PROVE FALSE
    <3>1. n * c <= -n
      BY <2>2, <1>6
    <3> QED BY <3>1, <1>5, <1>6, <1>3
  <2> QED BY <2>1, <2>2, <1>6
<1>8. v = u
  BY <1>3, <1>6, <1>7
<1> QED BY <1>8 DEF u, v

\* Sums and differences of multiples are multiples.
LEMMA ModZero ==
    ASSUME NEW n \in Nat, n > 0, NEW x \in Int, NEW y \in Int, x % n = 0, y % n = 0
    PROVE  (x - y) % n = 0 /\ (x + y) % n = 0 
<1>1. x = n * (x \div n) /\ y = n * (y \div n) /\ x \div n \in Int /\ y \div n \in Int
  OBVIOUS
<1>2. x - y = 0 + ((x \div n) - (y \div n)) * n /\ x + y = 0 + ((x \div n) + (y \div n)) * n
  BY <1>1
<1>3. \A k \in Int : (0 + k * n) % n = 0
  <2>1. 0 % n = 0
    OBVIOUS
  <2> QED BY <2>1, ModShift
<1>4. (x \div n) - (y \div n) \in Int /\ (x \div n) + (y \div n) \in Int
  BY <1>1
<1> QED BY <1>2, <1>3, <1>4

\* The dates for which zones are known.
LEMMA DatesRange == Dates \subseteq Int /\ DateFrom - 3 .. DateTo + 3 \subseteq Dates
<1>1. SlotInterval \div Day \in Nat
  BY Sizes
<1> QED BY <1>1, Sizes DEF Dates

\* The offset of a zone on a date, and how far it lies from UTC.
LEMMA OffsetBound ==
    ASSUME NEW h \in Hosts, NEW d \in Dates
    PROVE  Offset[h][d] \in Int /\ -Day <= Offset[h][d] /\ Offset[h][d] <= Day
BY ZoneAssumption, Sizes

\* How far a clock is moved from one date to the next.
LEMMA OffsetMove ==
    ASSUME NEW h \in Hosts, NEW d \in Dates, d + 1 \in Dates
    PROVE  Offset[h][d + 1] - Offset[h][d] <= Day /\ Offset[h][d] - Offset[h][d + 1] <= Day
<1>1. Offset[h][d + 1] - Offset[h][d] \in -Day .. Day
  BY ZoneAssumption
<1>2. Offset[h][d + 1] \in Int /\ Offset[h][d] \in Int
  BY OffsetBound
<1> QED BY <1>1, <1>2, Sizes

\* A date and the one before it.
LEMMA DatesAround ==
    ASSUME NEW d \in DateFrom - 2 .. DateTo + 3
    PROVE  d \in Dates /\ d - 1 \in Dates /\ d \in Int
BY DatesRange, Sizes

\* A local date begins within a day of the UTC date.
LEMMA MidnightBound ==
    ASSUME NEW h \in Hosts, NEW d \in DateFrom - 2 .. DateTo + 3
    PROVE  /\ Midnight(h, d) \in Int
           /\ d * Day - Day <= Midnight(h, d) /\ Midnight(h, d) <= d * Day + Day
<1>1. d \in Dates /\ d - 1 \in Dates /\ d \in Int
  BY DatesAround
<1>2. d * Day \in Int
  BY <1>1, TimesDay
<1> QED BY <1>1, <1>2, OffsetBound, Sizes DEF Midnight

\* The dates follow one another.
LEMMA MidnightNext ==
    ASSUME NEW h \in Hosts, NEW d \in DateFrom - 2 .. DateTo + 2
    PROVE  Midnight(h, d) <= Midnight(h, d + 1)
<1>1. /\ d \in DateFrom - 2 .. DateTo + 3 /\ d + 1 \in DateFrom - 2 .. DateTo + 3
      /\ d \in Int /\ (d + 1) - 1 = d
      /\ (d - 1) + 1 = d
  BY Sizes
<1>2. d \in Dates /\ d - 1 \in Dates /\ d + 1 \in Dates
  BY <1>1, DatesAround
<1>3. d * Day \in Int /\ (d + 1) * Day = d * Day + Day
  BY <1>1, TimesDay
<1>4. Offset[h][d] - Offset[h][d - 1] <= Day
  <2>1. d - 1 \in Dates /\ (d - 1) + 1 \in Dates
    BY <1>1, <1>2
  <2>2. Offset[h][(d - 1) + 1] - Offset[h][d - 1] <= Day
    BY <2>1, OffsetMove
  <2> QED BY <1>1, <2>2
<1>5. Offset[h][d] \in Int /\ Offset[h][d - 1] \in Int /\ Offset[h][d + 1] \in Int /\ Day \in Int
  BY <1>2, OffsetBound, Sizes
<1>6. Midnight(h, d) = d * Day - IF Offset[h][d - 1] < Offset[h][d] THEN Offset[h][d - 1] ELSE Offset[h][d]
  BY DEF Midnight
<1>7. Midnight(h, d + 1) = (d + 1) * Day - IF Offset[h][d] < Offset[h][d + 1] THEN Offset[h][d] ELSE Offset[h][d + 1]
  BY <1>1 DEF Midnight
<1> QED BY <1>3, <1>4, <1>5, <1>6, <1>7, Sizes

\* So do any two.
LEMMA MidnightOrder ==
    ASSUME NEW h \in Hosts, NEW d \in DateFrom - 2 .. DateTo + 3, NEW x \in DateFrom - 2 .. DateTo + 3, d <= x
    PROVE  Midnight(h, d) <= Midnight(h, x)
<1> DEFINE S == {y \in DateFrom - 2 .. DateTo + 3 : Midnight(h, y) >= Midnight(h, d)}
<1>0. d \in Int /\ x \in Int
  OBVIOUS
<1>1. \A y \in DateFrom - 2 .. DateTo + 3 : Midnight(h, y) \in Int
  BY MidnightBound
<1>2. d \in S
  BY <1>1
<1>3. SUFFICES ASSUME x \notin S PROVE FALSE
  BY <1>1
<1>4. PICK y \in d .. x - 1 : y \in S /\ y + 1 \notin S
  <2> HIDE DEF S
  <2> QED BY <1>0, <1>2, <1>3, LastBefore
<1>5. y \in DateFrom - 2 .. DateTo + 2 /\ y \in DateFrom - 2 .. DateTo + 3 /\ y + 1 \in DateFrom - 2 .. DateTo + 3
  BY Sizes
<1>6. Midnight(h, y) <= Midnight(h, y + 1) /\ Midnight(h, y) >= Midnight(h, d)
  BY <1>4, <1>5, MidnightNext
<1> QED BY <1>1, <1>4, <1>5, <1>6

\* An instant belongs to one date only.
LEMMA LocalDateIs ==
    ASSUME NEW h \in Hosts, NEW t \in Int, NEW d \in DateFrom - 2 .. DateTo + 2,
           Midnight(h, d) <= t, t < Midnight(h, d + 1)
    PROVE  LocalDate(h, t) = d
<1> DEFINE P(x) == Midnight(h, x) <= t /\ t < Midnight(h, x + 1)
           c == LocalDate(h, t)
<1>1. c \in DateFrom - 2 .. DateTo + 2 /\ P(c)
  BY Zenon DEF LocalDate
<1>2. P(d)
  OBVIOUS
<1> HIDE DEF c
<1>3. \A x \in DateFrom - 2 .. DateTo + 2 :
          /\ x \in DateFrom - 2 .. DateTo + 3 /\ x + 1 \in DateFrom - 2 .. DateTo + 3
          /\ x \in Int
  BY Sizes
<1>4. \A x \in DateFrom - 2 .. DateTo + 3 : Midnight(h, x) \in Int
  BY MidnightBound
<1>5. ASSUME c < d PROVE FALSE
  <2>1. c + 1 <= d /\ c + 1 \in DateFrom - 2 .. DateTo + 3 /\ d \in DateFrom - 2 .. DateTo + 3
    BY <1>1, <1>3, <1>5
  <2>2. Midnight(h, c + 1) <= Midnight(h, d)
    BY <2>1, MidnightOrder
  <2> QED BY <1>1, <1>2, <1>4, <2>1, <2>2
<1>6. ASSUME d < c PROVE FALSE
  <2>1. d + 1 <= c /\ d + 1 \in DateFrom - 2 .. DateTo + 3 /\ c \in DateFrom - 2 .. DateTo + 3
    BY <1>1, <1>3, <1>6
  <2>2. Midnight(h, d + 1) <= Midnight(h, c)
    BY <2>1, MidnightOrder
  <2> QED BY <1>1, <1>2, <1>4, <2>1, <2>2
<1>7. c = d
  BY <1>1, <1>3, <1>5, <1>6
<1> QED BY <1>7 DEF c

\* An instant in reach belongs to a date.
LEMMA LocalDateType ==
    ASSUME NEW h \in Hosts, NEW t \in Int, (DateFrom - 1) * Day <= t, t < (DateTo + 2) * Day
    PROVE  /\ LocalDate(h, t) \in DateFrom - 2 .. DateTo + 2
           /\ Midnight(h, LocalDate(h, t)) <= t /\ t < Midnight(h, LocalDate(h, t) + 1)
<1> DEFINE a == DateFrom - 2
           b == DateTo + 3
           S == {y \in Int : Midnight(h, y) <= t}
<1>1. /\ a \in Int /\ b \in Int
      /\ (DateFrom - 1) * Day \in Int /\ (DateTo + 2) * Day \in Int
      /\ DateFrom - 1 \in Int /\ DateTo + 2 \in Int
  BY Sizes, TimesDay
<1>2. a + 1 < b
  <2>1. ASSUME DateTo + 2 <= DateFrom - 1 PROVE FALSE
    <3>1. (DateTo + 2) * Day <= (DateFrom - 1) * Day
      BY <1>1, <2>1, TimesDay
    <3> QED BY <1>1, <3>1
  <2> QED BY <1>1, <2>1, Sizes
<1>3. a \in DateFrom - 2 .. DateTo + 3 /\ b \in DateFrom - 2 .. DateTo + 3
  BY <1>1, <1>2
<1>4. a \in S
  <2>1. a * Day + Day = (DateFrom - 1) * Day /\ a * Day \in Int
    <3>1. (a + 1) * Day = a * Day + Day /\ a * Day \in Int
      BY <1>1, TimesDay
    <3>2. a + 1 = DateFrom - 1
      BY Sizes
    <3> QED BY <3>1, <3>2
  <2> HIDE DEF a
  <2> QED BY <1>1, <1>3, <2>1, MidnightBound, Sizes
<1>5. b \notin S
  <2>1. b * Day - Day = (DateTo + 2) * Day /\ b * Day \in Int
    <3>1. (b - 1) * Day = b * Day - Day /\ b * Day \in Int
      BY <1>1, TimesDay
    <3>2. b - 1 = DateTo + 2
      BY Sizes
    <3> QED BY <3>1, <3>2
  <2> HIDE DEF b
  <2> QED BY <1>1, <1>3, <2>1, MidnightBound, Sizes
<1>6. PICK d \in a .. b - 1 : d \in S /\ d + 1 \notin S
  <2>1. a <= b
    BY <1>1, <1>2
  <2> HIDE DEF a, b, S
  <2> QED BY <1>1, <1>4, <1>5, <2>1, LastBefore
<1>7. d \in DateFrom - 2 .. DateTo + 2 /\ d + 1 \in DateFrom - 2 .. DateTo + 3
  BY Sizes
<1>8. Midnight(h, d) <= t /\ t < Midnight(h, d + 1)
  BY <1>6, <1>7, MidnightBound
<1> QED BY <1>7, <1>8, LocalDateIs

Clocked == TimeOfDay \cup {Bad}

WeeklyRule == [day: 0 .. 6, s: Clocked, e: Clocked]

OverrideRow ==
    {entry \in [user: Hosts, date: Int, avail: BOOLEAN, s: Clocked, e: Clocked, group: Nat] :
        entry.avail => entry.s \in TimeOfDay /\ entry.e \in TimeOfDay}

Insertion == [op: {"insert"}, user: Hosts, date: Int, s: TimeOfDay, e: TimeOfDay]

Change ==
    {c \in [op: {"clear", "update"}, id: Nat, avail: BOOLEAN, user: Hosts, date: Int,
            s: Clocked, e: Clocked] :
        c.avail => c.s \in TimeOfDay /\ c.e \in TimeOfDay}

Meeting == {m \in [s: Int, e: Int, live: BOOLEAN, event: BOOLEAN] : m.s < m.e}

RulesOK == rules \in [Hosts -> SUBSET WeeklyRule] /\ \A h \in Hosts : rules[h] \subseteq RuleInputs[h]

OverridesOK == overrides \in Seq(OverrideRow \cup {NoOverride})

EditingOK ==
    /\ editing \in Insertion \cup Change \cup {Idle}
    /\ editing \in Change => editing.id \in DOMAIN overrides

MeetingsOK ==
    meetings \in [Hosts -> SUBSET Meeting] /\ \A h \in Hosts : IsFiniteSet(meetings[h])

ExternalOK ==
    external \in [Hosts -> SUBSET Interval] /\ \A h \in Hosts : external[h] \subseteq ExternalInputs[h]

SlotsTypeOK ==
    profile \in Profiles /\ RulesOK /\ OverridesOK /\ EditingOK /\ MeetingsOK /\ ExternalOK

\* What the handlers are given.
LEMMA Inputs ==
    /\ HourInputs \subseteq [s: Clocked, e: Clocked]
    /\ \A h \in Hosts :
          /\ RuleInputs[h] \subseteq WeeklyRule /\ OverrideDates[h] \subseteq Int
          /\ MeetingInputs[h] \subseteq Interval /\ ExternalInputs[h] \subseteq Interval
          /\ IsFiniteSet(RuleInputs[h]) /\ IsFiniteSet(ExternalInputs[h])
BY InputAssumption DEF Clocked, WeeklyRule

\* The empty tables are well typed.
LEMMA InitType == SlotsInit => SlotsTypeOK
<1> SUFFICES ASSUME SlotsInit PROVE SlotsTypeOK
  OBVIOUS
<1>1. EditingOK
  <2>1. Idle \notin Change
    BY DEF Idle, Change
  <2> QED BY <2>1 DEF SlotsInit, EditingOK
<1>2. MeetingsOK
  BY FS_EmptySet DEF SlotsInit, MeetingsOK
<1>3. RulesOK /\ OverridesOK /\ ExternalOK /\ profile \in Profiles
  BY DEF SlotsInit, RulesOK, OverridesOK, ExternalOK
<1> QED BY <1>1, <1>2, <1>3 DEF SlotsTypeOK

\* Deleting rows keeps the table and the positions in it.
LEMMA WithoutType ==
    ASSUME OverridesOK, NEW ids
    PROVE  /\ Without(ids) \in Seq(OverrideRow \cup {NoOverride})
           /\ DOMAIN Without(ids) = DOMAIN overrides
           /\ Len(Without(ids)) = Len(overrides)
<1>1. Len(overrides) \in Nat /\ DOMAIN overrides = 1 .. Len(overrides)
      /\ \A i \in DOMAIN overrides : overrides[i] \in OverrideRow \cup {NoOverride}
  BY DEF OverridesOK
<1>2. /\ DOMAIN Without(ids) = 1 .. Len(overrides)
      /\ Without(ids) \in [1 .. Len(overrides) -> OverrideRow \cup {NoOverride}]
  BY <1>1 DEF Without
<1>3. Without(ids) \in Seq(OverrideRow \cup {NoOverride})
  BY <1>1, <1>2
<1> QED BY <1>1, <1>2, <1>3

\* The handlers of the weekly rules keep the tables well typed.
LEMMA RulesStep ==
    ASSUME SlotsTypeOK, EditRules
    PROVE  SlotsTypeOK'
<1>1. PICK h \in Hosts : \E r \in RuleInputs[h] :
          \/ CreateAvailabilityRule(h, r)
          \/ DeleteAvailabilityRule(h, r)
          \/ \E old \in rules[h] : UpdateAvailabilityRule(h, old, r)
  BY DEF EditRules
<1>2. PICK r \in RuleInputs[h] :
          \/ CreateAvailabilityRule(h, r)
          \/ DeleteAvailabilityRule(h, r)
          \/ \E old \in rules[h] : UpdateAvailabilityRule(h, old, r)
  BY <1>1
<1>3. UNCHANGED <<profile, overrides, editing, meetings, external>>
  BY <1>2 DEF CreateAvailabilityRule, DeleteAvailabilityRule, UpdateAvailabilityRule
<1>4. \E new \in SUBSET RuleInputs[h] : rules' = [rules EXCEPT ![h] = new]
  <2>1. rules[h] \subseteq RuleInputs[h]
    BY DEF SlotsTypeOK, RulesOK
  <2>2. CASE CreateAvailabilityRule(h, r)
    BY <2>1, <2>2 DEF CreateAvailabilityRule
  <2>3. CASE DeleteAvailabilityRule(h, r)
    BY <2>1, <2>3 DEF DeleteAvailabilityRule
  <2>4. ASSUME NEW old \in rules[h], UpdateAvailabilityRule(h, old, r)
        PROVE  \E new \in SUBSET RuleInputs[h] : rules' = [rules EXCEPT ![h] = new]
    BY <2>1, <2>4 DEF UpdateAvailabilityRule
  <2> QED BY <1>2, <2>2, <2>3, <2>4
<1>5. RulesOK'
  <2>1. PICK new \in SUBSET RuleInputs[h] : rules' = [rules EXCEPT ![h] = new]
    BY <1>4
  <2>2. new \subseteq WeeklyRule
    BY Inputs
  <2> QED BY <2>1, <2>2 DEF SlotsTypeOK, RulesOK
<1> QED BY <1>3, <1>5 DEF SlotsTypeOK, OverridesOK, EditingOK, MeetingsOK, ExternalOK

\* Bookings, cancels and other calendars keep the tables well typed.
LEMMA HostTimeStep ==
    ASSUME SlotsTypeOK, HostTime
    PROVE  SlotsTypeOK'
<1>1. PICK h \in Hosts :
        \/ \E iv \in MeetingInputs[h] : TakeSeat(h, iv)
        \/ \E m \in meetings[h] : CancelMeeting(h, m) \/ EventDeleted(h, m)
        \/ ExternalChange(h)
  BY DEF HostTime
<1>2. UNCHANGED <<profile, rules, overrides, editing>>
  BY <1>1 DEF TakeSeat, CancelMeeting, EventDeleted, ExternalChange
<1>3. profile' \in Profiles /\ RulesOK' /\ OverridesOK' /\ EditingOK'
  BY <1>2 DEF SlotsTypeOK, RulesOK, OverridesOK, EditingOK
<1>4. meetings[h] \subseteq Meeting /\ IsFiniteSet(meetings[h])
  BY DEF SlotsTypeOK, MeetingsOK
<1>5. ASSUME NEW new \in SUBSET Meeting, IsFiniteSet(new), meetings' = [meetings EXCEPT ![h] = new]
      PROVE  MeetingsOK'
  BY <1>5 DEF SlotsTypeOK, MeetingsOK
<1>6. CASE \E iv \in MeetingInputs[h] : TakeSeat(h, iv)
  <2>1. PICK iv \in MeetingInputs[h], event \in BOOLEAN :
            meetings' = [meetings EXCEPT ![h] =
               @ \cup {[s |-> iv.s, e |-> iv.e, live |-> TRUE, event |-> event]}]
    BY <1>6 DEF TakeSeat
  <2>2. iv \in Interval
    BY Inputs
  <2>3. [s |-> iv.s, e |-> iv.e, live |-> TRUE, event |-> event] \in Meeting
    BY <2>2, IntervalType DEF Meeting
  <2>4. MeetingsOK'
    <3> DEFINE x == [s |-> iv.s, e |-> iv.e, live |-> TRUE, event |-> event]
    <3>1. meetings' = [meetings EXCEPT ![h] = meetings[h] \cup {x}]
      BY <2>1
    <3> HIDE DEF x
    <3>2. IsFiniteSet(meetings[h] \cup {x})
      BY <1>4, FS_AddElement
    <3>3. meetings[h] \cup {x} \in SUBSET Meeting
      BY <1>4, <2>3 DEF x
    <3> QED BY <1>5, <3>1, <3>2, <3>3
  <2>5. ExternalOK'
    BY <1>6 DEF TakeSeat, SlotsTypeOK, ExternalOK
  <2> QED BY <1>3, <2>4, <2>5 DEF SlotsTypeOK
<1>7. CASE \E m \in meetings[h] : CancelMeeting(h, m) \/ EventDeleted(h, m)
  <2>1. PICK m \in meetings[h] : CancelMeeting(h, m) \/ EventDeleted(h, m)
    BY <1>7
  <2>2. IsFiniteSet(meetings[h] \ {m}) /\ meetings[h] \ {m} \subseteq Meeting
    BY <1>4, FS_Subset
  <2>3. MeetingsOK'
    <3>1. CASE EventDeleted(h, m)
      BY <1>5, <2>2, <3>1 DEF EventDeleted
    <3>2. CASE CancelMeeting(h, m) /\ ~m.event
      <4>1. meetings' = [meetings EXCEPT ![h] = meetings[h] \ {m}]
        BY <3>2 DEF CancelMeeting
      <4> QED BY <1>5, <2>2, <4>1
    <3>3. CASE CancelMeeting(h, m) /\ m.event
      <4> DEFINE x == [m EXCEPT !.live = FALSE]
      <4>1. meetings' = [meetings EXCEPT ![h] = (meetings[h] \ {m}) \cup {x}]
        BY <3>3 DEF CancelMeeting
      <4>2. m \in Meeting
        BY <1>4
      <4>3. x \in Meeting
        BY <4>2 DEF Meeting
      <4>4. IsFiniteSet((meetings[h] \ {m}) \cup {x}) /\ (meetings[h] \ {m}) \cup {x} \subseteq Meeting
        BY <2>2, <4>3, FS_AddElement
      <4> QED BY <1>5, <4>1, <4>4
    <3> QED BY <2>1, <3>1, <3>2, <3>3
  <2>4. ExternalOK'
    BY <2>1 DEF CancelMeeting, EventDeleted, SlotsTypeOK, ExternalOK
  <2> QED BY <1>3, <2>3, <2>4 DEF SlotsTypeOK
<1>8. CASE ExternalChange(h)
  <2>1. MeetingsOK'
    BY <1>8 DEF ExternalChange, SlotsTypeOK, MeetingsOK
  <2>2. ExternalOK'
    <3>1. PICK busy \in SUBSET ExternalInputs[h] : external' = [external EXCEPT ![h] = busy]
      BY <1>8 DEF ExternalChange
    <3>2. busy \subseteq Interval
      BY Inputs
    <3> QED BY <3>1, <3>2 DEF SlotsTypeOK, ExternalOK
  <2> QED BY <1>3, <2>1, <2>2 DEF SlotsTypeOK
<1> QED BY <1>1, <1>6, <1>7, <1>8

\* The kinds of override requests under way exclude each other.
LEMMA EditingKinds ==
    /\ \A c \in Insertion : c.op = "insert" /\ c \notin Change /\ c # Idle
    /\ \A c \in Change : c.op \in {"clear", "update"} /\ c \notin Insertion /\ c # Idle
    /\ Idle.op = "idle" /\ Idle \notin Change /\ Idle \notin Insertion
BY DEF Insertion, Change, Idle

\* The statements of the override handlers keep the tables well typed.
LEMMA OverridesStep ==
    ASSUME SlotsTypeOK, EditOverrides
    PROVE  SlotsTypeOK'
<1> DEFINE Table == Seq(OverrideRow \cup {NoOverride})
<1>0. /\ OverridesOK /\ EditingOK
      /\ overrides \in Table /\ Len(overrides) \in Nat /\ DOMAIN overrides = 1 .. Len(overrides)
      /\ \A i \in DOMAIN overrides : overrides[i] \in OverrideRow \cup {NoOverride}
  BY DEF SlotsTypeOK, OverridesOK
<1>1. SUFFICES /\ OverrideUnchanged
               /\ overrides' \in Table /\ EditingOK'
  BY DEF SlotsTypeOK, OverrideUnchanged, RulesOK, OverridesOK, MeetingsOK, ExternalOK
<1>2. ASSUME overrides' \in Table, Len(overrides') >= Len(overrides), editing' = editing
      PROVE  EditingOK'
  <2>1. DOMAIN overrides' = 1 .. Len(overrides') /\ Len(overrides') \in Nat
    BY <1>2
  <2> QED BY <1>0, <1>2, <2>1 DEF EditingOK
<1>3. ASSUME editing' \in Insertion \cup {Idle}
      PROVE  EditingOK'
  BY <1>3, EditingKinds DEF EditingOK
<1>4. ASSUME NEW h \in Hosts, NEW d \in OverrideDates[h], NEW x \in OverrideDates[h],
             d <= x, BlockDates(h, d, x)
      PROVE  OverrideUnchanged /\ overrides' \in Table /\ EditingOK'
  <2> DEFINE base == Len(overrides)
             cleared == UNION {RowIds(h, y) : y \in d .. x}
             rows == [k \in 1 .. x - d + 1 |->
                    [user |-> h, date |-> d + k - 1, avail |-> FALSE, s |-> Bad, e |-> Bad,
                     group |-> IF d = x THEN 0 ELSE base + 1]]
  <2>1. overrides' = Without(cleared) \o rows /\ editing' = editing /\ OverrideUnchanged
    BY <1>4 DEF BlockDates
  <2>2. d \in Int /\ x \in Int /\ x - d + 1 \in Nat
    BY <1>4, Inputs
  <2>3. \A k \in 1 .. x - d + 1 : rows[k] \in OverrideRow
    BY <1>0, <2>2 DEF OverrideRow, Clocked
  <2>4. rows \in Table /\ Len(rows) = x - d + 1
    <3>1. rows = [k \in 1 .. x - d + 1 |-> rows[k]]
      OBVIOUS
    <3> HIDE DEF rows
    <3> QED BY <2>2, <2>3, <3>1
  <2> HIDE DEF rows, cleared
  <2>5. Without(cleared) \in Table /\ Len(Without(cleared)) = Len(overrides)
    BY <1>0, WithoutType
  <2>6. overrides' \in Table /\ Len(overrides') = Len(overrides) + (x - d + 1)
    <3> DEFINE kept == Without(cleared)
    <3>1. \A a, b \in Table : a \o b \in Table /\ Len(a \o b) = Len(a) + Len(b)
      OBVIOUS
    <3>2. kept \in Table /\ rows \in Table /\ Len(kept) = Len(overrides) /\ Len(rows) = x - d + 1
      BY <2>4, <2>5
    <3>3. overrides' = kept \o rows
      BY <2>1
    <3> HIDE DEF Table, kept
    <3>4. kept \o rows \in Table /\ Len(kept \o rows) = Len(kept) + Len(rows)
      BY <3>1, <3>2
    <3> QED BY <3>2, <3>3, <3>4
  <2> QED BY <1>0, <1>2, <2>1, <2>2, <2>6
<1>5. ASSUME NEW h \in Hosts, NEW d \in OverrideDates[h], NEW hours \in HourInputs,
             CheckCustomHours(h, d, hours)
      PROVE  OverrideUnchanged /\ overrides' \in Table /\ EditingOK'
  <2>1. hours \in [s: Clocked, e: Clocked] /\ d \in Int
    BY Inputs
  <2>2. hours.s \in TimeOfDay /\ hours.e \in TimeOfDay
    BY <1>5, <2>1 DEF CheckCustomHours, Clocked
  <2>3. editing' \in Insertion
    BY <1>5, <2>1, <2>2 DEF CheckCustomHours, Insertion
  <2> QED BY <1>0, <1>3, <1>5, <2>3 DEF CheckCustomHours
<1>6. ASSUME InsertCustomHours
      PROVE  OverrideUnchanged /\ overrides' \in Table /\ EditingOK'
  <2> DEFINE entry == [user |-> editing.user, date |-> editing.date, avail |-> TRUE,
                     s |-> editing.s, e |-> editing.e, group |-> 0]
  <2>1. editing \in Insertion
    BY <1>0, <1>6, EditingKinds DEF InsertCustomHours, EditingOK
  <2>2. entry \in OverrideRow
    BY <2>1 DEF Insertion, OverrideRow, Clocked
  <2>3. overrides' = overrides \/ overrides' = Append(overrides, entry)
    BY <1>6 DEF InsertCustomHours
  <2> HIDE DEF entry
  <2>4. overrides' \in Table
    BY <1>0, <2>2, <2>3
  <2> QED BY <1>3, <1>6, <2>4 DEF InsertCustomHours
<1>7. ASSUME NEW i \in DOMAIN overrides, NEW avail \in BOOLEAN, NEW hours \in HourInputs,
             ReadOverride(i, avail, hours)
      PROVE  OverrideUnchanged /\ overrides' \in Table /\ EditingOK'
  <2>1. hours \in [s: Clocked, e: Clocked]
    BY Inputs
  <2>2. avail => hours.s \in TimeOfDay /\ hours.e \in TimeOfDay
    BY <1>7, <2>1 DEF ReadOverride, Clocked
  <2>3. overrides[i] \in OverrideRow
    BY <1>0, <1>7 DEF ReadOverride
  <2>4. overrides[i].user \in Hosts /\ overrides[i].date \in Int
    BY <2>3 DEF OverrideRow
  <2>5. editing' \in Change /\ editing'.id = i
    BY <1>0, <1>7, <2>1, <2>2, <2>4 DEF ReadOverride, Change, Clocked
  <2>6. overrides' = overrides
    BY <1>7 DEF ReadOverride
  <2>7. EditingOK'
    BY <1>0, <2>5, <2>6 DEF EditingOK
  <2> QED BY <1>0, <1>7, <2>6, <2>7 DEF ReadOverride
<1>8. ASSUME ClearSiblings
      PROVE  OverrideUnchanged /\ overrides' \in Table /\ EditingOK'
  <2>1. editing \in Change /\ editing.id \in DOMAIN overrides
    BY <1>0, <1>8, EditingKinds DEF ClearSiblings, EditingOK
  <2>2. editing' \in Change /\ editing'.id = editing.id
    BY <1>8, <2>1 DEF ClearSiblings, Change
  <2>3. overrides' \in Table /\ DOMAIN overrides' = DOMAIN overrides
    BY <1>0, <1>8, WithoutType DEF ClearSiblings
  <2> QED BY <1>8, <2>1, <2>2, <2>3 DEF ClearSiblings, EditingOK
<1>9. ASSUME WriteOverride
      PROVE  OverrideUnchanged /\ overrides' \in Table /\ EditingOK'
  <2> DEFINE i == editing.id
             table == [overrides EXCEPT ![i].avail = editing.avail, ![i].s = editing.s,
                                        ![i].e = editing.e]
  <2>1. editing \in Change /\ i \in DOMAIN overrides
    BY <1>0, <1>9, EditingKinds DEF WriteOverride, EditingOK
  <2>2. overrides' = overrides \/ (overrides[i] # NoOverride /\ overrides' = table)
    BY <1>9 DEF WriteOverride
  <2>3. CASE overrides[i] # NoOverride
    <3> DEFINE entry == [[[overrides[i] EXCEPT !.avail = editing.avail] EXCEPT !.s = editing.s]
                          EXCEPT !.e = editing.e]
    <3>1. overrides[i] \in OverrideRow
      BY <1>0, <2>1, <2>3
    <3>2. entry \in OverrideRow
      BY <2>1, <3>1 DEF OverrideRow, Change
    <3>3. table = [overrides EXCEPT ![i] = entry]
      BY <1>0, <2>1
    <3> HIDE DEF entry
    <3>4. [overrides EXCEPT ![i] = entry] \in Table
      BY <1>0, <2>1, <3>2
    <3> HIDE DEF table
    <3> QED BY <1>0, <1>3, <1>9, <2>2, <3>3, <3>4 DEF WriteOverride
  <2>4. CASE overrides[i] = NoOverride
    BY <1>0, <1>3, <1>9, <2>2, <2>4 DEF WriteOverride
  <2> QED BY <2>3, <2>4
<1>10. ASSUME NEW ids, overrides' = Without(ids), UNCHANGED editing /\ OverrideUnchanged
       PROVE  OverrideUnchanged /\ overrides' \in Table /\ EditingOK'
  <2>1. overrides' \in Table /\ Len(overrides') = Len(overrides)
    BY <1>0, <1>10, WithoutType
  <2> QED BY <1>0, <1>2, <1>10, <2>1
<1>11. ASSUME NEW i \in DOMAIN overrides, DeleteAvailabilityOverride(i) \/ DeleteAvailabilityOverrideGroup(i)
       PROVE  OverrideUnchanged /\ overrides' \in Table /\ EditingOK'
  BY <1>10, <1>11 DEF DeleteAvailabilityOverride, DeleteAvailabilityOverrideGroup
<1> QED BY <1>4, <1>5, <1>6, <1>7, <1>8, <1>9, <1>11 DEF EditOverrides

\* The tables always hold what the handlers let in: rows of known hosts, hours that parse
\* in every available override, meetings that end after they start.
THEOREM SlotsType == SlotsSpec => []SlotsTypeOK
<1>1. SlotsTypeOK /\ [SlotsNext]_slotVars => SlotsTypeOK'
  <2> SUFFICES ASSUME SlotsTypeOK, [SlotsNext]_slotVars PROVE SlotsTypeOK'
    OBVIOUS
  <2>1. CASE UNCHANGED slotVars
    BY <2>1 DEF slotVars, SlotsTypeOK, RulesOK, OverridesOK, EditingOK, MeetingsOK, ExternalOK
  <2> QED BY <2>1, RulesStep, OverridesStep, HostTimeStep DEF SlotsNext
<1> QED BY <1>1, InitType, PTL DEF SlotsSpec

\* The routing mode and the roles.
LEMMA ProfileType ==
    ASSUME SlotsTypeOK
    PROVE  /\ mode \in {"fixed", "round_robin", "collective"}
           /\ \A h \in Hosts : RoleOf[h] \in {"required", "rotation", "optional"}
BY InputAssumption DEF SlotsTypeOK, mode, RoleOf

\* The first pooled host in priority order exists as soon as one is pooled.
LEMMA LeadPooled ==
    ASSUME Pooled # {}
    PROVE  Lead \in Pooled /\ Lead \in Hosts
<1> DEFINE First(i) == Pool[i] \in Pooled /\ \A j \in 1 .. i - 1 : Pool[j] \notin Pooled
           S == {i \in Int : \A j \in 1 .. i : Pool[j] \notin Pooled}
<1>1. PICK k \in DOMAIN Pool : Pool[k] \in Pooled
  BY DEF Pooled, Hosts
<1>2. DOMAIN Pool = 1 .. Len(Pool) /\ Len(Pool) \in Nat /\ k \in Int /\ 1 <= k
  BY ZoneAssumption
<1>3. 0 \in S /\ k \notin S
  BY <1>1, <1>2
<1>4. PICK d \in 0 .. k - 1 : d \in S /\ d + 1 \notin S
  <2> HIDE DEF S
  <2> QED BY <1>2, <1>3, LastBefore
<1>5. First(d + 1) /\ d + 1 \in DOMAIN Pool
  <2>1. d + 1 \in DOMAIN Pool /\ d + 1 \in Int /\ (d + 1) - 1 = d
    BY <1>2
  <2>2. \A j \in 1 .. d : Pool[j] \notin Pooled
    BY <1>4
  <2>3. PICK j \in 1 .. d + 1 : Pool[j] \in Pooled
    BY <1>4, <2>1
  <2>4. j = d + 1
    BY <2>1, <2>2, <2>3
  <2> QED BY <2>1, <2>2, <2>3, <2>4
<1>6. First(CHOOSE i \in DOMAIN Pool : First(i))
  <2> HIDE DEF First
  <2> QED BY <1>5, Zenon
<1>7. Lead = Pool[CHOOSE i \in DOMAIN Pool : First(i)]
  BY Zenon DEF Lead
<1> QED BY <1>6, <1>7 DEF Pooled

-----------------------------------------------------------------------------
(* The grid.                                                               *)

\* The instants that the dates asked for can reach in any zone.
Reach(t) == t \in Int /\ (DateFrom - 1) * Day <= t /\ t < (DateTo + 2) * Day

\* When an instant is in reach, some date is asked for.
LEMMA ReachDates ==
    ASSUME NEW t, Reach(t)
    PROVE  DateFrom \in Dates
<1>1. DateFrom - 1 \in Int /\ DateTo + 2 \in Int
  BY Sizes
<1>2. ASSUME DateTo + 2 <= DateFrom - 1 PROVE FALSE
  <2>1. (DateTo + 2) * Day <= (DateFrom - 1) * Day
    BY <1>1, <1>2, TimesDay
  <2>2. (DateTo + 2) * Day \in Int /\ (DateFrom - 1) * Day \in Int
    BY <1>1, TimesDay
  <2> QED BY <2>1, <2>2 DEF Reach
<1> QED BY <1>1, <1>2, DatesRange, Sizes

\* A host's clock shows a time of day.
LEMMA WallClockType ==
    ASSUME NEW h \in Hosts, NEW t, Reach(t)
    PROVE  /\ WallClock(h, t) \in 0 .. Day - 1
           /\ LocalDate(h, t) \in DateFrom - 2 .. DateTo + 2
           /\ \/ WallClock(h, t) = t - LocalDate(h, t) * Day + Offset[h][LocalDate(h, t)]
              \/ WallClock(h, t) = t - LocalDate(h, t) * Day + Offset[h][LocalDate(h, t) + 1]
<1> DEFINE d == LocalDate(h, t)
           o == Offset[h][d]
           n == Offset[h][d + 1]
           p == Offset[h][d - 1]
<1>1. /\ d \in DateFrom - 2 .. DateTo + 2 /\ t \in Int
      /\ Midnight(h, d) <= t /\ t < Midnight(h, d + 1)
  BY LocalDateType DEF Reach
<1> HIDE DEF d
<1>2. d \in Int /\ d \in Dates /\ d + 1 \in Dates /\ d - 1 \in Dates /\ (d + 1) - 1 = d
  BY <1>1, DatesRange, Sizes
<1>3. o \in Int /\ n \in Int /\ p \in Int /\ o - n <= Day
  BY <1>2, OffsetBound, OffsetMove
<1>4. d * Day \in Int /\ (d + 1) * Day = d * Day + Day /\ Day \in Int
  BY <1>2, TimesDay, Sizes
<1>5. WallClock(h, t) = t - d * Day + IF t + o < (d + 1) * Day THEN o ELSE n
  BY DEF WallClock, d
<1>6. Midnight(h, d) = d * Day - IF p < o THEN p ELSE o
  BY DEF Midnight
<1>7. Midnight(h, d + 1) = (d + 1) * Day - IF o < n THEN o ELSE n
  BY <1>2 DEF Midnight
<1> HIDE DEF o, n, p
<1>8. CASE t + o < (d + 1) * Day
  <2>1. WallClock(h, t) = t - d * Day + o
    BY <1>5, <1>8
  <2>2. d * Day - o <= t
    BY <1>1, <1>3, <1>4, <1>6
  <2>3. WallClock(h, t) \in 0 .. Day - 1
    BY <1>1, <1>3, <1>4, <1>8, <2>1, <2>2
  <2> QED BY <1>1, <2>1, <2>3 DEF d, o
<1>9. CASE ~(t + o < (d + 1) * Day)
  <2>1. WallClock(h, t) = t - d * Day + n
    BY <1>5, <1>9
  <2>2. t < d * Day + Day - n
    BY <1>1, <1>3, <1>4, <1>7, <1>9
  <2>3. WallClock(h, t) \in 0 .. Day - 1
    BY <1>1, <1>3, <1>4, <1>9, <2>1, <2>2
  <2> QED BY <1>1, <2>1, <2>3 DEF d, n
<1> QED BY <1>8, <1>9

\* The next step of the grid is at most a day and an interval after midnight.
LEMMA NextStep ==
    ASSUME NEW wall \in 0 .. Day - 1
    PROVE  LET next == (wall \div SlotInterval + 1) * SlotInterval
           IN  /\ next \in Nat /\ next = wall + SlotInterval - (wall % SlotInterval)
               /\ next \div Day \in 0 .. SlotInterval \div Day + 1
               /\ next % Day \in TimeOfDay
               /\ next = (next \div Day) * Day + (next % Day)
<1> DEFINE n == SlotInterval
           k == wall \div n
           r == wall % n
           next == (k + 1) * n
           A == n \div Day
           B == next \div Day
<1>1. n \in Nat /\ n > 0 /\ Day \in Nat /\ Day > 0 /\ wall \in Nat /\ wall < Day
  BY Sizes
<1> HIDE DEF n
<1>2. k \in Int /\ r \in 0 .. n - 1 /\ wall = n * k + r
  BY <1>1
<1> HIDE DEF k, r
<1>3. next = n * k + n /\ next \in Int
  BY <1>1, <1>2
<1>4. next = wall + n - r /\ next \in Nat
  BY <1>1, <1>2, <1>3
<1> HIDE DEF next
<1>5. A \in Int /\ n = A * Day + (n % Day) /\ n % Day \in 0 .. Day - 1
  BY <1>1
<1>6. B \in Int /\ next = B * Day + (next % Day) /\ next % Day \in 0 .. Day - 1
  BY <1>1, <1>4
<1> HIDE DEF A, B
<1>7. /\ (A + 2) * Day = A * Day + Day + Day /\ A * Day \in Int /\ B * Day \in Int
      /\ (B + 1) * Day = B * Day + Day /\ 0 * Day = 0
      /\ A + 2 \in Int /\ B + 1 \in Int
  BY <1>5, <1>6, TimesDay, Sizes
<1>8. ASSUME A + 2 <= B PROVE FALSE
  <2>1. (A + 2) * Day <= B * Day
    BY <1>6, <1>7, <1>8, TimesDay
  <2>2. next < n + Day
    BY <1>1, <1>2, <1>4
  <2>3. n < A * Day + Day
    BY <1>1, <1>5, <1>7
  <2>4. B * Day <= next
    BY <1>4, <1>6, <1>7
  <2> QED BY <1>1, <1>4, <1>7, <2>1, <2>2, <2>3, <2>4
<1>9. ASSUME B + 1 <= 0 PROVE FALSE
  <2>1. (B + 1) * Day <= 0 * Day
    BY <1>7, <1>9, TimesDay
  <2>2. next < B * Day + Day
    BY <1>1, <1>4, <1>6, <1>7
  <2> QED BY <1>1, <1>4, <1>7, <2>1, <2>2
<1>10. B \in 0 .. A + 1
  BY <1>5, <1>6, <1>8, <1>9
<1>11. next % Day \in TimeOfDay
  BY <1>6 DEF TimeOfDay
<1> QED BY <1>4, <1>6, <1>10, <1>11 DEF next, n, k, r, A, B

\* alignUp never goes back.
LEMMA AlignUp ==
    ASSUME Pooled # {}, NEW t, Reach(t)
    PROVE  alignUp(t) \in Int /\ t <= alignUp(t)
<1> DEFINE n == SlotInterval
           d == LocalDate(Lead, t)
           wall == WallClock(Lead, t)
           next == (wall \div n + 1) * n
           day == d + next \div Day
           out == parseWallClock(Lead, day, next % Day)
           x == t - out + n - 1
           behind == IF out < t THEN x \div n ELSE 0
<1>1. Lead \in Hosts /\ t \in Int /\ n \in Nat /\ n > 0
  BY LeadPooled, Sizes DEF Reach
<1>2. d \in DateFrom - 2 .. DateTo + 2 /\ wall \in 0 .. Day - 1
  BY <1>1, WallClockType
<1>3. alignUp(t) = IF wall % n = 0 THEN t ELSE out + behind * n
  BY DEF alignUp
<1> HIDE DEF wall, d
<1>4. next \div Day \in 0 .. SlotInterval \div Day + 1 /\ next % Day \in TimeOfDay
  BY <1>2, NextStep
<1> HIDE DEF next
<1>5. day \in Dates
  <2>1. SlotInterval \div Day \in Nat
    BY Sizes
  <2> QED BY <1>2, <1>4, <2>1, Sizes DEF Dates
<1> HIDE DEF day
<1>6. out \in Int
  <2>1. day \in Int /\ Offset[Lead][day] \in Int /\ day * Day \in Int
    BY <1>1, <1>5, DatesRange, OffsetBound, TimesDay
  <2>2. next % Day \in Int
    BY <1>4, Sizes DEF TimeOfDay
  <2> QED BY <2>1, <2>2 DEF parseWallClock
<1> HIDE DEF out, n
<1>7. CASE out < t
  <2>1. x \in Int /\ x >= n
    BY <1>1, <1>6, <1>7
  <2>2. x = n * (x \div n) + (x % n) /\ x % n \in 0 .. n - 1 /\ x \div n \in Int
    BY <1>1, <2>1
  <2>3. behind = x \div n
    BY <1>7
  <2> DEFINE k == x \div n
  <2>4. behind * n \in Int /\ behind * n > x - n
    <3> HIDE DEF x
    <3>1. k \in Int /\ x = n * k + (x % n)
      BY <2>2
    <3>2. behind = k
      BY <2>3
    <3> HIDE DEF k, behind
    <3>3. n * k = k * n /\ k * n \in Int
      BY <1>1, <3>1
    <3> QED BY <1>1, <2>1, <2>2, <3>1, <3>2, <3>3
  <2>5. t <= out + behind * n /\ out + behind * n \in Int
    <3> HIDE DEF behind
    <3> QED BY <1>1, <1>6, <2>4
  <2> QED BY <1>1, <1>3, <2>5
<1>8. CASE ~(out < t)
  <2>1. behind = 0 /\ behind * n = 0
    BY <1>1, <1>8
  <2> HIDE DEF behind
  <2> QED BY <1>1, <1>3, <1>6, <1>8, <2>1
<1> QED BY <1>7, <1>8

Shift == Offset[Lead][DateFrom]

\* On one grid, alignUp goes to the next instant of the grid.
LEMMA GridUp ==
    ASSUME Pooled # {}, OneGrid, NEW t, Reach(t)
    PROVE  /\ alignUp(t) < t + SlotInterval
           /\ Shift \in Int
           /\ (alignUp(t) + Shift) % SlotInterval = 0
<1> DEFINE d == LocalDate(Lead, t)
           n == SlotInterval
           wall == WallClock(Lead, t)
           next == (wall \div n + 1) * n
           day == d + next \div Day
           out == parseWallClock(Lead, day, next % Day)
           x == t - out + n - 1
           behind == IF out < t THEN x \div n ELSE 0
           r == (t + Shift) % n
           z == (t + Shift) \div n
           q == Day \div n
<1>1. Lead \in Hosts /\ t \in Int
  BY LeadPooled DEF Reach
<1>2. /\ d \in DateFrom - 2 .. DateTo + 2 /\ wall \in 0 .. Day - 1
      /\ wall = t - d * Day + Offset[Lead][d] \/ wall = t - d * Day + Offset[Lead][d + 1]
  BY <1>1, WallClockType
<1>3. /\ d \in Dates /\ d + 1 \in Dates /\ d \in Int /\ DateFrom \in Dates
      /\ \A y \in Dates : Offset[Lead][y] = Shift
  BY <1>2, ReachDates, DatesRange, Sizes DEF OneGrid, Shift
<1>5. Shift \in Int /\ d * Day \in Int
  BY <1>1, <1>3, OffsetBound, TimesDay DEF Shift
<1>4. wall = t - d * Day + Shift
  BY <1>2, <1>3
<1>6. n \in Nat /\ n > 0 /\ Day \in Int /\ Day % n = 0
  BY Sizes DEF OneGrid
<1>7. q \in Int /\ Day = n * q
  <2>1. Day = n * (Day \div n) + (Day % n) /\ Day \div n \in Int
    BY <1>6
  <2> QED BY <1>6, <2>1
<1>8. wall = (t + Shift) + (-(d * q)) * n
  <2> HIDE DEF wall, d, q, n
  <2>2. d * Day = (d * q) * n
    BY <1>3, <1>6, <1>7
  <2>3. d * q \in Int
    BY <1>3, <1>7
  <2>4. (d * q) * n \in Int /\ (-(d * q)) * n = -((d * q) * n)
    BY <1>6, <2>3
  <2> QED BY <1>1, <1>4, <1>5, <2>2, <2>4
<1>9. wall % n = r
  <2> HIDE DEF wall, d, q, n
  <2>1. t + Shift \in Int /\ -(d * q) \in Int
    BY <1>1, <1>3, <1>5, <1>7
  <2> QED BY <1>6, <1>8, <2>1, ModShift DEF r
<1>10. alignUp(t) = IF r = 0 THEN t ELSE t + n - r
  <2>1. alignUp(t) = IF wall % n = 0 THEN t ELSE out + behind * n
    BY DEF alignUp
  <2>2. /\ next = wall + n - (wall % n)
        /\ next \div Day \in 0 .. SlotInterval \div Day + 1 /\ next % Day \in TimeOfDay
        /\ next = (next \div Day) * Day + (next % Day)
    BY <1>2, NextStep
  <2> HIDE DEF wall, d, n, next, r
  <2>3. day \in Dates /\ day \in Int
    <3>1. SlotInterval \div Day \in Nat
      BY Sizes
    <3> QED BY <1>2, <2>2, <3>1, Sizes DEF Dates
  <2> DEFINE b == next \div Day
             c == next % Day
  <2>4. b \in Int /\ c \in Int
    BY <2>2, Sizes DEF TimeOfDay
  <2>5. out = day * Day + c - Shift
    BY <1>3, <2>3 DEF parseWallClock
  <2> HIDE DEF b, c
  <2>6. day * Day = d * Day + b * Day /\ b * Day \in Int
    BY <1>3, <1>6, <2>4 DEF b
  <2>7. next = b * Day + c
    BY <2>2 DEF b, c
  <2>8. r \in 0 .. n - 1
    BY <1>1, <1>5, <1>6 DEF r
  <2>9. out = t + n - r
    <3> DEFINE D == d * Day
               B == b * Day
    <3>1. b * Day + c = t - D + Shift + n - r
      BY <1>4, <1>9, <2>2, <2>7
    <3>2. out = D + B + c - Shift
      BY <2>5, <2>6
    <3>3. D \in Int /\ B \in Int
      BY <1>5, <2>6
    <3> HIDE DEF D, out
    <3>4. B + c = t - D + Shift + n - r
      BY <3>1
    <3> HIDE DEF B
    <3> QED BY <1>1, <1>5, <1>6, <2>4, <2>8, <3>2, <3>3, <3>4
  <2> HIDE DEF day, out
  <2>10. behind = 0 /\ behind * n = 0
    BY <1>1, <1>6, <2>8, <2>9
  <2> HIDE DEF behind
  <2> QED BY <1>1, <1>6, <1>9, <2>1, <2>8, <2>9, <2>10
<1> HIDE DEF wall, d, q, n
<1>11. /\ t + Shift \in Int /\ r \in 0 .. n - 1 /\ z \in Int
       /\ t + Shift = n * z + r
  <2>1. t + Shift \in Int
    BY <1>1, <1>5
  <2> QED BY <1>6, <2>1
<1> HIDE DEF r, z
<1>12. (alignUp(t) + Shift) % n = 0
  <2>0. \A k \in Int : (0 + k * n) % n = 0
    <3>1. 0 % n = 0
      BY <1>6
    <3> QED BY <1>6, <3>1, ModShift
  <2>1. CASE r = 0
    <3>1. alignUp(t) + Shift = 0 + z * n
      BY <1>6, <1>10, <1>11, <2>1
    <3> QED BY <1>11, <2>0, <3>1
  <2>2. CASE r # 0
    <3>1. alignUp(t) + Shift = 0 + (z + 1) * n
      BY <1>1, <1>5, <1>6, <1>10, <1>11, <2>2
    <3>2. z + 1 \in Int
      BY <1>11
    <3> QED BY <2>0, <3>1, <3>2
  <2> QED BY <2>1, <2>2
<1>13. alignUp(t) < t + n
  BY <1>1, <1>6, <1>10, <1>11
<1> QED BY <1>5, <1>12, <1>13 DEF n

\* A slot that hostsByStart walks to lies in the free interval.
LEMMA StartsWithin ==
    ASSUME Pooled # {}, NEW f \in Interval, Reach(f.s), NEW t \in StartsIn(f)
    PROVE  t \in Int /\ Within(Slot(t), f)
<1>1. alignUp(f.s) \in Int /\ f.s <= alignUp(f.s)
  BY AlignUp
<1>2. f.s \in Int /\ f.e \in Int
  BY IntervalType
<1>3. t \in alignUp(f.s) .. f.e - Duration
  BY DEF StartsIn
<1> QED BY <1>1, <1>2, <1>3, Sizes DEF Within, Slot

\* On one grid, it walks to all the slots of the grid that do.
LEMMA StartsOnGrid ==
    ASSUME Pooled # {}, OneGrid, NEW f \in Interval, Reach(f.s), NEW t \in Int, Within(Slot(t), f)
    PROVE  t \in StartsIn(f) <=> (t + Shift) % SlotInterval = 0
<1> DEFINE a == alignUp(f.s)
           n == SlotInterval
<1>1. a \in Int /\ f.s <= a /\ a < f.s + n /\ Shift \in Int /\ (a + Shift) % n = 0
  BY AlignUp, GridUp
<1>2. f.s \in Int /\ f.e \in Int /\ n \in Nat /\ n > 0
  BY IntervalType, Sizes
<1>3. f.s <= t /\ t <= f.e - Duration
  BY <1>2, Sizes DEF Within, Slot
<1>4. t \in StartsIn(f) <=> t \in a .. f.e - Duration /\ (t - a) % n = 0
  BY DEF StartsIn
<1> HIDE DEF a, n
<1>5. ASSUME (t - a) % n = 0
      PROVE  (t + Shift) % n = 0
  <2>1. t - a \in Int /\ a + Shift \in Int /\ (t - a) + (a + Shift) = t + Shift
    BY <1>1
  <2>2. ((t - a) + (a + Shift)) % n = 0
    BY <1>1, <1>2, <1>5, <2>1, ModZero
  <2> QED BY <2>1, <2>2
<1>6. ASSUME (t + Shift) % n = 0
      PROVE  (t - a) % n = 0 /\ a <= t
  <2>1. t + Shift \in Int /\ a + Shift \in Int /\ (t + Shift) - (a + Shift) = t - a
        /\ (a + Shift) - (t + Shift) = a - t
    BY <1>1
  <2>2. (t - a) % n = 0 /\ (a - t) % n = 0
    <3>1. ((t + Shift) - (a + Shift)) % n = 0 /\ ((a + Shift) - (t + Shift)) % n = 0
      BY <1>1, <1>2, <1>6, <2>1, ModZero
    <3> QED BY <2>1, <3>1
  <2>3. ASSUME a > t PROVE FALSE
    <3> DEFINE x == a - t
    <3>1. x \in 1 .. n - 1
      BY <1>1, <1>2, <1>3, <2>3
    <3>2. x % n = x
      <4> HIDE DEF x
      <4> QED BY <1>2, <3>1
    <3> QED BY <2>2, <3>1, <3>2
  <2> QED BY <1>1, <2>2, <2>3
<1>7. t \in a .. f.e - Duration <=> a <= t
  BY <1>1, <1>2, <1>3, Sizes
<1> QED BY <1>4, <1>5, <1>6, <1>7 DEF n

\* subtract is the difference of the two as sets of instants, for all windows and busy times,
\* overlapping or touching or not: what every answer of the slot engine rests on.
THEOREM SubtractIsDifference ==
    ASSUME NEW windows, IsFiniteSet(windows), windows \subseteq Interval,
           NEW busy, IsFiniteSet(busy), busy \subseteq Interval, NEW p \in Int
    PROVE  (\E r \in subtract(windows, busy) : In(p, r)) <=>
               (\E w \in windows : In(p, w)) /\ ~(\E b \in busy : In(p, b))
<1> DEFINE R == subtract(windows, busy)
           M == ToSet(mergeIntervals(windows))
           point == [s |-> p, e |-> p + 1]
<1>1. /\ R \subseteq Interval
      /\ \A r \in R : (\E w \in M : Within(r, w)) /\ \A b \in busy : ~overlaps(b, r)
      /\ \A iv \in Interval, w \in windows :
            Within(iv, w) /\ (\A b \in busy : ~overlaps(b, iv)) => \E r \in R : Within(iv, r)
  BY SubtractFacts
<1>2. M \subseteq Interval
  BY MergeKeepsTime DEF ToSet
<1>3. \A w \in M : In(p, w) => \E iv \in windows : In(p, iv)
  BY MergeKeepsTime
<1>4. point \in Interval
  BY MakeInterval
<1> HIDE DEF R, M
<1>5. ASSUME NEW r \in R, In(p, r)
      PROVE  (\E w \in windows : In(p, w)) /\ ~(\E b \in busy : In(p, b))
  <2>1. PICK w \in M : Within(r, w)
    BY <1>1
  <2>2. In(p, w)
    BY <1>1, <1>2, <1>5, <2>1, IntervalType DEF In, Within
  <2>3. \A b \in busy : ~In(p, b)
    BY <1>1, <1>5, PointShared
  <2> QED BY <1>3, <2>2, <2>3
<1>6. ASSUME NEW w \in windows, In(p, w), \A b \in busy : ~In(p, b)
      PROVE  \E r \in R : In(p, r)
  <2>1. Within(point, w)
    <3>1. w.s \in Int /\ w.e \in Int
      BY IntervalType
    <3> QED BY <1>6, <3>1 DEF In, Within
  <2>2. \A b \in busy : ~overlaps(b, point)
    <3> SUFFICES ASSUME NEW b \in busy, overlaps(b, point) PROVE FALSE
      OBVIOUS
    <3>1. b.s \in Int /\ b.e \in Int
      BY IntervalType
    <3>2. In(p, b)
      BY <3>1 DEF overlaps, In
    <3> QED BY <1>6, <3>2
  <2>3. PICK r \in R : Within(point, r)
    BY <1>1, <1>4, <2>1, <2>2
  <2>4. r.s \in Int /\ r.e \in Int
    BY <1>1, IntervalType
  <2>5. In(p, r)
    BY <2>3, <2>4 DEF Within, In
  <2> QED BY <2>5
<1>7. (\E r \in R : In(p, r)) <=> (\E w \in windows : In(p, w)) /\ ~(\E b \in busy : In(p, b))
  BY <1>5, <1>6
<1> QED BY <1>7 DEF R

\* One interval is merged as it is.
LEMMA MergeOne ==
    ASSUME NEW w \in Interval
    PROVE  ToSet(mergeIntervals({w})) = {w}
<1> DEFINE q == byStart({w})
<1>1. IsFiniteSet({w}) /\ Cardinality({w}) = 1 /\ {w} \subseteq Interval
  BY FS_Singleton
<1>2. Sorts(q, {w}, 1)
  BY <1>1, ByStart
<1> HIDE DEF q
<1>3. q \in [1 .. 1 -> {w}] /\ q[1] = w /\ Len(q) = 1
  BY <1>2 DEF Sorts
<1> DEFINE M == Merging(q)
<1>4. M = [n \in 0 .. 1 |-> IF n = 0 THEN <<>> ELSE absorb(M[n - 1], q[n])]
  BY <1>3, MergingDef
<1> HIDE DEF M
<1>5. M[0] = <<>> /\ M[1] = absorb(M[0], q[1])
  BY <1>4
<1>6. M[1] = <<w>>
  BY <1>3, <1>5 DEF absorb
<1>7. mergeIntervals({w}) = <<w>>
  BY <1>1, <1>6 DEF mergeIntervals, M, q
<1> QED BY <1>7 DEF ToSet

\* subtract leaves a window whole exactly when nothing busy meets it: the test of calendarFreeAt.
LEMMA SubtractNothing ==
    ASSUME NEW w \in Interval, NEW busy, IsFiniteSet(busy), busy \subseteq Interval
    PROVE  subtract({w}, busy) = {w} <=> \A b \in busy : ~overlaps(b, w)
<1> DEFINE W == ToSet(mergeIntervals({w}))
           b == mergeIntervals(busy)
           R == subtract({w}, busy)
<1>1. W = {w} /\ IsFiniteSet(W) /\ W \subseteq Interval
  <2>1. W = {w}
    BY MergeOne
  <2>2. IsFiniteSet({w})
    BY FS_Singleton
  <2> HIDE DEF W
  <2> QED BY <2>1, <2>2
<1>2. b \in Seq(Interval)
  BY MergeKeepsTime
<1>3. /\ \A i \in 1 .. Len(b) : b[i] \in ToSet(b)
      /\ \A x \in ToSet(b) : \E i \in 1 .. Len(b) : b[i] = x
  BY <1>2 DEF ToSet
<1>4. R = Cutting(W, b)[Len(b)]
  BY DEF subtract
<1>5. Left(R, W, b, Len(b))
  <2> HIDE DEF W, b, R
  <2> QED BY <1>1, <1>2, <1>4, CuttingFacts
<1>6. (\A i \in 1 .. Len(b) : ~overlaps(b[i], w)) <=> (\A x \in busy : ~overlaps(x, w))
  BY <1>3, MergedOverlap
<1> HIDE DEF W, b, R
<1>7. R = {w} <=> \A x \in busy : ~overlaps(x, w)
  BY <1>1, <1>5, <1>6 DEF Left
<1> QED BY <1>7 DEF R

-----------------------------------------------------------------------------
(* What keeps a host busy.                                                 *)

\* Bookings, own events and free/busy are finite sets of intervals.
LEMMA BusyTypes ==
    ASSUME SlotsTypeOK, NEW h \in Hosts
    PROVE  /\ IsFiniteSet(LiveBookings(h)) /\ LiveBookings(h) \subseteq Interval
           /\ IsFiniteSet(ownCalendarEvents(h)) /\ ownCalendarEvents(h) \subseteq Interval
           /\ external[h] \subseteq Interval
           /\ \A w : IsFiniteSet(FreeBusy(h, w)) /\ FreeBusy(h, w) \subseteq Interval
<1> DEFINE g == [m \in meetings[h] |-> [s |-> m.s, e |-> m.e]]
           L == {x \in meetings[h] : x.live}
           E == {x \in meetings[h] : x.event}
<1>1. meetings[h] \subseteq Meeting /\ IsFiniteSet(meetings[h])
  BY DEF SlotsTypeOK, MeetingsOK
<1>2. \A m \in meetings[h] : g[m] \in Interval /\ g[m] = [s |-> m.s, e |-> m.e]
  BY <1>1 DEF Meeting, Interval
<1>3. IsFiniteSet(L) /\ IsFiniteSet(E)
  <2>1. L \in SUBSET meetings[h] /\ E \in SUBSET meetings[h]
    OBVIOUS
  <2> HIDE DEF L, E
  <2> QED BY <1>1, <2>1, FS_Subset
<1>4. LiveBookings(h) = {g[m] : m \in L} /\ ownCalendarEvents(h) = {g[m] : m \in E}
  BY DEF LiveBookings, ownCalendarEvents
<1>5. LiveBookings(h) \subseteq Interval /\ ownCalendarEvents(h) \subseteq Interval
  BY <1>2, <1>4
<1>6. IsFiniteSet({g[m] : m \in L}) /\ IsFiniteSet({g[m] : m \in E})
  <2> HIDE DEF g, L, E
  <2> QED BY <1>3, FiniteImage
<1>7. external[h] \subseteq Interval /\ IsFiniteSet(external[h])
  BY Inputs, FS_Subset DEF SlotsTypeOK, ExternalOK
<1>8. ASSUME NEW w
      PROVE  IsFiniteSet(FreeBusy(h, w)) /\ FreeBusy(h, w) \subseteq Interval
  <2>1. IsFiniteSet(external[h] \cup ownCalendarEvents(h))
    BY <1>4, <1>6, <1>7, FS_Union
  <2>2. FreeBusy(h, w) \in SUBSET (external[h] \cup ownCalendarEvents(h))
    BY DEF FreeBusy
  <2> QED BY <1>5, <1>7, <2>1, <2>2, FS_Subset
<1> QED BY <1>4, <1>5, <1>6, <1>7, <1>8

\* So is what hostAvailability returns.
LEMMA HostBusyType ==
    ASSUME SlotsTypeOK, NEW h \in Hosts
    PROVE  IsFiniteSet(hostBusy(h)) /\ hostBusy(h) \subseteq Interval
<1> DEFINE C == IF h \in Unread THEN {} ELSE subtract(FreeBusy(h, Requested), ownCalendarEvents(h))
<1>1. IsFiniteSet(C) /\ C \subseteq Interval
  <2>1. /\ IsFiniteSet(subtract(FreeBusy(h, Requested), ownCalendarEvents(h)))
        /\ subtract(FreeBusy(h, Requested), ownCalendarEvents(h)) \subseteq Interval
    BY BusyTypes, SubtractFacts
  <2> QED BY <2>1, FS_EmptySet
<1>2. hostBusy(h) = LiveBookings(h) \cup C
  BY DEF hostBusy
<1> HIDE DEF C
<1> QED BY <1>1, <1>2, BusyTypes, FS_Union

\* The host is busy at the slot, buffers counted.
Clash(h, t) ==
    \E b \in expandBusy(hostBusy(h), BufferBefore, BufferAfter) : overlaps(b, Slot(t))

Widened(t) == [s |-> t - BufferAfter, e |-> t + Duration + BufferBefore]

\* The slot and what the calendar check asks about.
LEMMA SlotTypes ==
    ASSUME NEW t \in Int
    PROVE  Slot(t) \in Interval /\ Widened(t) \in Interval /\ Within(Slot(t), Widened(t))
BY Sizes DEF Slot, Widened, Interval, Within

\* Widening what is busy, or widening the slot the other way round: the same overlaps.
LEMMA ExpandedOverlap ==
    ASSUME NEW busy, busy \subseteq Interval, NEW t \in Int
    PROVE  (\E b \in expandBusy(busy, BufferBefore, BufferAfter) : overlaps(b, Slot(t))) <=>
               \E b \in busy : overlaps(b, Widened(t))
<1> DEFINE X(b) == [s |-> b.s - BufferBefore, e |-> b.e + BufferAfter]
<1>1. \A b \in busy : overlaps(X(b), Slot(t)) <=> overlaps(b, Widened(t))
  <2> SUFFICES ASSUME NEW b \in busy PROVE overlaps(X(b), Slot(t)) <=> overlaps(b, Widened(t))
    OBVIOUS
  <2>1. b.s \in Int /\ b.e \in Int
    BY IntervalType
  <2> QED BY <2>1, Sizes DEF overlaps, Slot, Widened
<1>2. expandBusy(busy, BufferBefore, BufferAfter) = {X(b) : b \in busy}
  BY DEF expandBusy
<1> HIDE DEF X
<1> QED BY <1>1, <1>2

\* An instant at which other calendars keep the host busy.
Outside(h, p) ==
    /\ \E y \in external[h] : In(p, y)
    /\ ~(\E o \in ownCalendarEvents(h) : In(p, o))

\* Free/busy without the own events, instant by instant.
LEMMA FreeBusyPoint ==
    ASSUME SlotsTypeOK, NEW h \in Hosts, NEW w, NEW p \in Int
    PROVE  (\E r \in subtract(FreeBusy(h, w), ownCalendarEvents(h)) : In(p, r)) <=>
               Outside(h, p) /\ \E y \in external[h] : In(p, y) /\ overlaps(y, w)
<1>1. (\E r \in subtract(FreeBusy(h, w), ownCalendarEvents(h)) : In(p, r)) <=>
          (\E y \in FreeBusy(h, w) : In(p, y)) /\ ~(\E o \in ownCalendarEvents(h) : In(p, o))
  BY BusyTypes, SubtractIsDifference
<1> QED BY <1>1 DEF FreeBusy, Outside

\* The calendar check of the booking, instant by instant.
LEMMA CalendarFree ==
    ASSUME SlotsTypeOK, NEW h \in Hosts, NEW t \in Int
    PROVE  calendarFreeAt(h, t) <=>
               h \notin Unread /\ \A p \in Int : In(p, Widened(t)) => ~Outside(h, p)
<1> DEFINE busy == subtract(FreeBusy(h, Widened(t)), ownCalendarEvents(h))
<1>1. IsFiniteSet(busy) /\ busy \subseteq Interval
  BY BusyTypes, SubtractFacts
<1>2. calendarFreeAt(h, t) <=> h \notin Unread /\ subtract({Widened(t)}, busy) = {Widened(t)}
  BY DEF calendarFreeAt, Widened
<1>3. Widened(t) \in Interval
  BY SlotTypes
<1>4. \A p \in Int : (\E r \in busy : In(p, r)) <=>
          Outside(h, p) /\ \E y \in external[h] : In(p, y) /\ overlaps(y, Widened(t))
  BY FreeBusyPoint
<1> HIDE DEF busy
<1>5. subtract({Widened(t)}, busy) = {Widened(t)} <=> \A b \in busy : ~overlaps(b, Widened(t))
  BY <1>1, <1>3, SubtractNothing
<1>6. ASSUME NEW b \in busy, overlaps(b, Widened(t))
      PROVE  \E p \in Int : In(p, Widened(t)) /\ Outside(h, p)
  <2>1. PICK p \in Int : In(p, b) /\ In(p, Widened(t))
    BY <1>1, <1>3, <1>6, SharedPoint
  <2> QED BY <1>4, <2>1
<1>7. ASSUME NEW p \in Int, In(p, Widened(t)), Outside(h, p)
      PROVE  \E b \in busy : overlaps(b, Widened(t))
  <2>1. PICK y \in external[h] : In(p, y)
    BY <1>7 DEF Outside
  <2>2. y \in Interval
    BY BusyTypes
  <2>3. overlaps(y, Widened(t))
    BY <1>3, <1>7, <2>1, <2>2, PointShared
  <2>4. PICK b \in busy : In(p, b)
    BY <1>4, <1>7, <2>1, <2>3
  <2>5. overlaps(b, Widened(t))
    BY <1>1, <1>3, <1>7, <2>4, PointShared
  <2> QED BY <2>5
<1> QED BY <1>2, <1>5, <1>6, <1>7

\* The two readings of the calendars, compared at a time.
LEMMA ClashOrFree ==
    ASSUME SlotsTypeOK, NEW h \in Hosts, NEW t \in Int
    PROVE  /\ ~Clash(h, t) /\ h \notin Unread /\ (\A y \in external[h] : overlaps(y, Requested)) =>
                  calendarFreeAt(h, t)
           /\ ~Clash(h, t) => SeatFree(h, t)
           /\ calendarFreeAt(h, t) /\ Buffered(h, t) => ~Clash(h, t)
<1> DEFINE C == subtract(FreeBusy(h, Requested), ownCalendarEvents(h))
<1>1. /\ LiveBookings(h) \subseteq hostBusy(h)
      /\ h \notin Unread => C \subseteq hostBusy(h)
      /\ \A b \in hostBusy(h) : b \in LiveBookings(h) \/ b \in C
  BY DEF hostBusy
<1>2. hostBusy(h) \subseteq Interval /\ LiveBookings(h) \subseteq Interval
  BY HostBusyType, BusyTypes
<1>3. Slot(t) \in Interval /\ Widened(t) \in Interval /\ Within(Slot(t), Widened(t))
  BY SlotTypes
<1>4. Clash(h, t) <=> \E b \in hostBusy(h) : overlaps(b, Widened(t))
  BY <1>2, ExpandedOverlap DEF Clash
<1>5. Buffered(h, t) <=> \A b \in LiveBookings(h) : ~overlaps(b, Widened(t))
  BY <1>2, ExpandedOverlap DEF Buffered
<1>6. \A p \in Int : (\E r \in C : In(p, r)) <=>
          Outside(h, p) /\ \E y \in external[h] : In(p, y) /\ overlaps(y, Requested)
  BY FreeBusyPoint
<1>7. C \subseteq Interval
  BY BusyTypes, SubtractFacts
<1> HIDE DEF C
<1>8. ASSUME ~Clash(h, t), h \notin Unread, \A y \in external[h] : overlaps(y, Requested)
      PROVE  calendarFreeAt(h, t)
  <2> SUFFICES ASSUME NEW p \in Int, In(p, Widened(t)), Outside(h, p)
               PROVE  FALSE
    BY <1>8, CalendarFree
  <2>1. PICK r \in C : In(p, r)
    BY <1>6, <1>8 DEF Outside
  <2>2. overlaps(r, Widened(t))
    BY <1>3, <1>7, <2>1, PointShared
  <2> QED BY <1>1, <1>4, <1>8, <2>2
<1>9. ASSUME ~Clash(h, t)
      PROVE  SeatFree(h, t)
  <2> SUFFICES ASSUME NEW b \in LiveBookings(h) PROVE ~overlaps(b, Slot(t))
    BY DEF SeatFree
  <2>1. ~overlaps(b, Widened(t)) /\ b \in Interval
    BY <1>1, <1>2, <1>4, <1>9
  <2> QED BY <1>3, <2>1, WithinOverlap
<1>10. ASSUME calendarFreeAt(h, t), Buffered(h, t)
       PROVE  ~Clash(h, t)
  <2> SUFFICES ASSUME NEW b \in C, overlaps(b, Widened(t)) PROVE FALSE
    BY <1>1, <1>4, <1>5, <1>10
  <2>1. PICK p \in Int : In(p, b) /\ In(p, Widened(t))
    BY <1>3, <1>7, SharedPoint
  <2>2. Outside(h, p)
    BY <1>6, <2>1
  <2> QED BY <1>10, <2>1, <2>2, CalendarFree
<1> QED BY <1>8, <1>9, <1>10

-----------------------------------------------------------------------------
(* The windows of a date.                                                  *)

\* The override rows and rules of a date.
LEMMA HoursTypes ==
    ASSUME SlotsTypeOK, NEW h \in Hosts, NEW d
    PROVE  /\ IsFiniteSet(OverridesOn(h, d)) /\ IsFiniteSet(RulesOn(h, d))
           /\ OverridesOn(h, d) \subseteq OverrideRow /\ RulesOn(h, d) \subseteq WeeklyRule
<1>1. /\ Len(overrides) \in Nat /\ DOMAIN overrides = 1 .. Len(overrides)
      /\ \A i \in DOMAIN overrides : overrides[i] \in OverrideRow \cup {NoOverride}
  BY DEF SlotsTypeOK, OverridesOK
<1>2. ToSet(overrides) = {overrides[i] : i \in 1 .. Len(overrides)}
  BY <1>1 DEF ToSet
<1>3. IsFiniteSet(ToSet(overrides))
  <2>1. IsFiniteSet(1 .. Len(overrides))
    BY <1>1, FS_Interval
  <2> QED BY <1>2, <2>1, FiniteImage
<1>4. OverridesOn(h, d) \in SUBSET ToSet(overrides)
  BY DEF OverridesOn
<1>5. OverridesOn(h, d) \subseteq OverrideRow
  BY <1>1, <1>2 DEF OverridesOn
<1>6. rules[h] \subseteq RuleInputs[h] /\ rules[h] \subseteq WeeklyRule
  BY DEF SlotsTypeOK, RulesOK
<1>7. RulesOn(h, d) \in SUBSET RuleInputs[h] /\ RulesOn(h, d) \subseteq WeeklyRule
  BY <1>6 DEF RulesOn
<1> QED BY <1>3, <1>4, <1>5, <1>7, Inputs, FS_Subset

\* Hours of a date as instants.
LEMMA HoursOnClock ==
    ASSUME NEW h \in Hosts, NEW d \in Dates, NEW x, x.s \in Clocked, x.e \in Clocked
    PROVE  /\ wallClockInterval(h, d, x).s \in Int /\ wallClockInterval(h, d, x).e \in Int
           /\ wallClockInterval(h, d, x) \in [s: Int, e: Int]
           /\ wallClockInterval(h, d, x).s = d * Day + x.s - Offset[h][d]
           /\ wallClockInterval(h, d, x).e = d * Day + x.e - Offset[h][d]
<1>1. d \in Int /\ d * Day \in Int /\ Offset[h][d] \in Int
  BY DatesRange, OffsetBound, TimesDay
<1>2. x.s \in Int /\ x.e \in Int
  BY Sizes DEF Clocked, TimeOfDay, Bad
<1> QED BY <1>1, <1>2 DEF wallClockInterval, parseWallClock

\* The windows of a date come from its overrides or rules.
LEMMA WindowsType ==
    ASSUME SlotsTypeOK, NEW h \in Hosts, NEW d \in Dates
    PROVE  /\ IsFiniteSet(resolveDay(h, d)) /\ resolveDay(h, d) \subseteq Interval
           /\ \A w \in resolveDay(h, d) :
                 \E x \in OverridesOn(h, d) \cup RulesOn(h, d) :
                    /\ w = wallClockInterval(h, d, x)
                    /\ ~Unreadable(h, d) => x.s \in TimeOfDay /\ x.e \in TimeOfDay
                    /\ x.s \in Clocked /\ x.e \in Clocked
<1> DEFINE hours == IF OverridesOn(h, d) # {} THEN OverridesOn(h, d) ELSE RulesOn(h, d)
           g == [x \in hours |-> wallClockInterval(h, d, x)]
           All == {g[x] : x \in hours}
           blocked == \E o \in OverridesOn(h, d) : ~o.avail
<1>1. resolveDay(h, d) = IF blocked THEN {} ELSE {iv \in All : iv.s < iv.e}
  BY DEF resolveDay
<1>2. /\ IsFiniteSet(OverridesOn(h, d)) /\ IsFiniteSet(RulesOn(h, d))
      /\ OverridesOn(h, d) \subseteq OverrideRow /\ RulesOn(h, d) \subseteq WeeklyRule
  BY HoursTypes
<1>3. IsFiniteSet(hours) /\ \A x \in hours : x.s \in Clocked /\ x.e \in Clocked
  BY <1>2 DEF OverrideRow, WeeklyRule
<1>4. ~blocked /\ ~Unreadable(h, d) => \A x \in hours : x.s \in TimeOfDay /\ x.e \in TimeOfDay
  <2> SUFFICES ASSUME ~blocked, ~Unreadable(h, d), NEW x \in hours
               PROVE  x.s \in TimeOfDay /\ x.e \in TimeOfDay
    OBVIOUS
  <2>1. CASE OverridesOn(h, d) # {}
    BY <1>2, <2>1 DEF OverrideRow
  <2>2. CASE OverridesOn(h, d) = {}
    BY <1>3, <2>2 DEF Unreadable, Clocked
  <2> QED BY <2>1, <2>2
<1>5. \A x \in hours : g[x] = wallClockInterval(h, d, x)
                       /\ wallClockInterval(h, d, x) \in [s: Int, e: Int]
  BY <1>3, HoursOnClock
<1>6. IsFiniteSet(All)
  <2> HIDE DEF g, hours
  <2> QED BY <1>3, FiniteImage
<1>7. IsFiniteSet(resolveDay(h, d))
  <2>1. resolveDay(h, d) \in SUBSET All
    BY <1>1
  <2> HIDE DEF All
  <2> QED BY <1>6, <2>1, FS_Subset
<1>8. hours \subseteq OverridesOn(h, d) \cup RulesOn(h, d)
  OBVIOUS
<1>9. \A w \in All : \E x \in hours : w = g[x]
  OBVIOUS
<1> HIDE DEF g, hours, blocked, All
<1>10. resolveDay(h, d) \subseteq Interval
  BY <1>1, <1>5, <1>9 DEF Interval
<1>11. ASSUME NEW w \in resolveDay(h, d)
       PROVE  \E x \in OverridesOn(h, d) \cup RulesOn(h, d) :
                 /\ w = wallClockInterval(h, d, x)
                 /\ ~Unreadable(h, d) => x.s \in TimeOfDay /\ x.e \in TimeOfDay
                 /\ x.s \in Clocked /\ x.e \in Clocked
  <2>1. ~blocked /\ w \in All
    BY <1>1, <1>11
  <2>2. PICK x \in hours : w = g[x]
    BY <1>9, <2>1
  <2> QED BY <1>3, <1>4, <1>5, <1>8, <2>1, <2>2
<1> QED BY <1>7, <1>10, <1>11

\* A date's windows lie within a day of the date, and on the date unless hours are skipped.
LEMMA WindowBounds ==
    ASSUME SlotsTypeOK, NEW h \in Hosts, NEW d \in DateFrom - 2 .. DateTo + 2, ~Unreadable(h, d),
           NEW w \in resolveDay(h, d)
    PROVE  /\ w.s \in Int /\ w.e \in Int /\ w.s < w.e
           /\ (d - 1) * Day <= w.s /\ w.e < (d + 2) * Day
           /\ ~HoursSkipped => Midnight(h, d) <= w.s /\ w.e <= Midnight(h, d + 1)
<1>1. /\ d \in Int /\ d \in Dates /\ d - 1 \in Dates /\ d + 1 \in Dates
      /\ (d + 1) - 1 = d
  BY DatesRange, Sizes
<1>2. PICK x \in OverridesOn(h, d) \cup RulesOn(h, d) :
          w = wallClockInterval(h, d, x) /\ x.s \in TimeOfDay /\ x.e \in TimeOfDay
  BY <1>1, WindowsType
<1>3. w.s = d * Day + x.s - Offset[h][d] /\ w.e = d * Day + x.e - Offset[h][d]
  BY <1>1, <1>2, HoursOnClock DEF Clocked
<1>4. w \in Interval
  BY <1>1, WindowsType
<1>5. w.s \in Int /\ w.e \in Int /\ w.s < w.e
  BY <1>4, IntervalType
<1>6. x.s \in Int /\ 0 <= x.s /\ x.e \in Int /\ x.e < Day /\ Day \in Int
  BY <1>2, Sizes DEF TimeOfDay
<1>7. /\ Offset[h][d] \in Int /\ -Day <= Offset[h][d] /\ Offset[h][d] <= Day
      /\ Offset[h][d - 1] \in Int /\ Offset[h][d + 1] \in Int
  BY <1>1, OffsetBound
<1>8. /\ d * Day \in Int /\ (d - 1) * Day = d * Day - Day
      /\ (d + 1) * Day = d * Day + Day /\ (d + 2) * Day = d * Day + Day + Day
  BY <1>1, TimesDay
<1>9. (d - 1) * Day <= w.s /\ w.e < (d + 2) * Day
  BY <1>3, <1>6, <1>7, <1>8
<1>10. ASSUME ~HoursSkipped
       PROVE  Midnight(h, d) <= w.s /\ w.e <= Midnight(h, d + 1)
  <2>1. x.s >= Offset[h][d] - Offset[h][d - 1]
    <3>1. x.s # Bad
      BY <1>6 DEF Bad
    <3>2. ~(x.s < Offset[h][d] - Offset[h][d - 1])
      BY <1>2, <1>10, <3>1 DEF HoursSkipped
    <3> QED BY <1>6, <1>7, <3>2
  <2>2. Midnight(h, d) = d * Day - IF Offset[h][d - 1] < Offset[h][d] THEN Offset[h][d - 1] ELSE Offset[h][d]
    BY DEF Midnight
  <2>3. Midnight(h, d + 1) = (d + 1) * Day - IF Offset[h][d] < Offset[h][d + 1] THEN Offset[h][d] ELSE Offset[h][d + 1]
    BY <1>1 DEF Midnight
  <2>4. Midnight(h, d) <= w.s
    BY <1>3, <1>6, <1>7, <1>8, <2>1, <2>2
  <2>5. w.e <= Midnight(h, d + 1)
    BY <1>3, <1>6, <1>7, <1>8, <2>3
  <2> QED BY <2>4, <2>5
<1> QED BY <1>5, <1>9, <1>10

\* What is free on a date, with the slots that fit into it.
LEMMA FreeOnFacts ==
    ASSUME SlotsTypeOK, NEW h \in Hosts, NEW d \in Dates
    PROVE  /\ FreeOn(h, d) \subseteq Interval
           /\ \A f \in FreeOn(h, d), t \in Int : Within(Slot(t), f) =>
                 ~Clash(h, t) /\ \E w \in ToSet(mergeIntervals(resolveDay(h, d))) : Within(Slot(t), w)
           /\ \A f \in FreeOn(h, d) : \E w \in resolveDay(h, d) : In(f.s, w)
           /\ \A t \in Int, w \in resolveDay(h, d) : Within(Slot(t), w) /\ ~Clash(h, t) =>
                 \E f \in FreeOn(h, d) : Within(Slot(t), f)
<1> DEFINE E == expandBusy(hostBusy(h), BufferBefore, BufferAfter)
           W == resolveDay(h, d)
           M == ToSet(mergeIntervals(W))
           F == FreeOn(h, d)
<1>1. IsFiniteSet(hostBusy(h)) /\ hostBusy(h) \subseteq Interval
  BY HostBusyType
<1>2. IsFiniteSet(E) /\ E \subseteq Interval
  <2> DEFINE g == [b \in hostBusy(h) |-> [s |-> b.s - BufferBefore, e |-> b.e + BufferAfter]]
  <2>1. E = {g[b] : b \in hostBusy(h)}
    BY DEF expandBusy
  <2>2. \A b \in hostBusy(h) : g[b] \in Interval
    <3> SUFFICES ASSUME NEW b \in hostBusy(h) PROVE g[b] \in Interval
      OBVIOUS
    <3>1. b.s \in Int /\ b.e \in Int /\ b.s < b.e
      BY <1>1, IntervalType
    <3> QED BY <3>1, Sizes DEF Interval
  <2>3. IsFiniteSet({g[b] : b \in hostBusy(h)})
    <3> HIDE DEF g
    <3> QED BY <1>1, FiniteImage
  <2> HIDE DEF E, g
  <2> QED BY <2>1, <2>2, <2>3
<1>3. IsFiniteSet(W) /\ W \subseteq Interval
  BY WindowsType
<1>4. F = subtract(W, E)
  BY DEF FreeOn
<1>5. \A t : Clash(h, t) <=> \E b \in E : overlaps(b, Slot(t))
  BY DEF Clash
<1> HIDE DEF E, W, F
<1>6. /\ F \subseteq Interval
      /\ \A r \in F : (\E w \in M : Within(r, w)) /\ \A b \in E : ~overlaps(b, r)
      /\ \A iv \in Interval, w \in W :
            Within(iv, w) /\ (\A b \in E : ~overlaps(b, iv)) => \E r \in F : Within(iv, r)
  BY <1>2, <1>3, <1>4, SubtractFacts
<1>7. M \subseteq Interval
  BY <1>3, MergeKeepsTime DEF ToSet
<1>8. \A w \in M, p \in Int : In(p, w) => \E iv \in W : In(p, iv)
  BY <1>3, MergeKeepsTime
<1> HIDE DEF M
<1>9. ASSUME NEW f \in F, NEW t \in Int, Within(Slot(t), f)
      PROVE  ~Clash(h, t) /\ \E w \in M : Within(Slot(t), w)
  <2>1. Slot(t) \in Interval /\ f \in Interval
    BY <1>6, SlotTypes
  <2>2. PICK w \in M : Within(f, w)
    BY <1>6
  <2>3. Within(Slot(t), w)
    BY <1>7, <1>9, <2>1, <2>2, WithinTransitive
  <2>4. \A b \in E : ~overlaps(b, Slot(t))
    <3> SUFFICES ASSUME NEW b \in E PROVE ~overlaps(b, Slot(t))
      OBVIOUS
    <3>1. ~overlaps(b, f) /\ b \in Interval
      BY <1>2, <1>6
    <3> QED BY <1>9, <2>1, <3>1, WithinOverlap
  <2> QED BY <1>5, <2>3, <2>4
<1>10. ASSUME NEW f \in F
       PROVE  \E w \in W : In(f.s, w)
  <2>1. f \in Interval /\ f.s \in Int /\ f.e \in Int /\ f.s < f.e
    BY <1>6, IntervalType
  <2>2. PICK w \in M : Within(f, w)
    BY <1>6
  <2>3. w.s \in Int /\ w.e \in Int
    BY <1>7, IntervalType
  <2>4. In(f.s, w)
    BY <2>1, <2>2, <2>3 DEF Within, In
  <2> QED BY <1>8, <2>1, <2>4
<1>11. ASSUME NEW t \in Int, NEW w \in W, Within(Slot(t), w), ~Clash(h, t)
       PROVE  \E f \in F : Within(Slot(t), f)
  BY <1>5, <1>6, <1>11, SlotTypes
<1>12. F \subseteq Interval
  BY <1>6
<1> QED BY <1>9, <1>10, <1>11, <1>12 DEF F, W, M

\* The dates asked for are known.
LEMMA AskedDates ==
    ASSUME NEW d \in DateFrom .. DateTo
    PROVE  d \in Int /\ d \in Dates /\ d \in DateFrom - 2 .. DateTo + 2
BY DatesRange, Sizes

\* What lies in a window of a date asked for is in reach.
LEMMA WindowReach ==
    ASSUME SlotsTypeOK, NEW h \in Hosts, NEW d \in DateFrom .. DateTo, ~Unreadable(h, d),
           NEW w \in resolveDay(h, d), NEW p \in Int, In(p, w)
    PROVE  Reach(p)
<1>1. d \in Int /\ d \in DateFrom - 2 .. DateTo + 2 /\ DateFrom <= d /\ d <= DateTo
  BY AskedDates, Sizes
<1>2. w.s \in Int /\ w.e \in Int /\ (d - 1) * Day <= w.s /\ w.e < (d + 2) * Day
  BY <1>1, WindowBounds
<1>3. /\ DateFrom - 1 \in Int /\ d - 1 \in Int /\ DateFrom - 1 <= d - 1
      /\ DateTo + 2 \in Int /\ d + 2 \in Int /\ d + 2 <= DateTo + 2
  BY <1>1, Sizes
<1>4. /\ (DateFrom - 1) * Day <= (d - 1) * Day /\ (d + 2) * Day <= (DateTo + 2) * Day
      /\ (DateFrom - 1) * Day \in Int /\ (d - 1) * Day \in Int
      /\ (DateTo + 2) * Day \in Int /\ (d + 2) * Day \in Int
  BY <1>3, TimesDay
<1> QED BY <1>2, <1>4 DEF In, Reach

\* When the listing does not fail, the rules of the pooled hosts parse.
LEMMA Readings ==
    ASSUME ~Fails, NEW h \in Pooled, NEW d \in DateFrom .. DateTo
    PROVE  h \in Hosts /\ ~Unreadable(h, d) /\ Pooled # {}
BY DEF Fails, Pooled

\* A start that the pass with bookings finds.
LEMMA StartFree ==
    ASSUME SlotsTypeOK, ~Fails, NEW h \in Pooled, NEW t \in HostStarts(h, TRUE)
    PROVE  /\ t \in Int /\ ~Clash(h, t)
           /\ \E d \in DateFrom .. DateTo :
                 \E w \in ToSet(mergeIntervals(resolveDay(h, d))) : Within(Slot(t), w)
<1>1. PICK d \in DateFrom .. DateTo : \E f \in FreeOn(h, d) : t \in StartsIn(f)
  BY DEF HostStarts
<1>2. PICK f \in FreeOn(h, d) : t \in StartsIn(f)
  BY <1>1
<1>3. h \in Hosts /\ ~Unreadable(h, d) /\ Pooled # {} /\ d \in Dates
  BY Readings, AskedDates
<1>4. PICK v \in resolveDay(h, d) : In(f.s, v)
  BY <1>3, FreeOnFacts
<1>5. f \in Interval /\ f.s \in Int
  BY <1>3, FreeOnFacts, IntervalType
<1>6. Reach(f.s)
  BY <1>3, <1>4, <1>5, WindowReach
<1>7. t \in Int /\ Within(Slot(t), f)
  BY <1>2, <1>3, <1>5, <1>6, StartsWithin
<1> QED BY <1>3, <1>7, FreeOnFacts

\* A start that the pass without bookings finds.
LEMMA StartOpen ==
    ASSUME SlotsTypeOK, ~Fails, NEW h \in Pooled, NEW t \in HostStarts(h, FALSE)
    PROVE  /\ t \in Int
           /\ OneGrid => (t + Shift) % SlotInterval = 0
           /\ \E d \in DateFrom .. DateTo : \E w \in resolveDay(h, d) : Within(Slot(t), w)
<1>1. PICK d \in DateFrom .. DateTo : \E f \in resolveDay(h, d) : t \in StartsIn(f)
  BY DEF HostStarts
<1>2. PICK f \in resolveDay(h, d) : t \in StartsIn(f)
  BY <1>1
<1>3. h \in Hosts /\ ~Unreadable(h, d) /\ Pooled # {} /\ d \in Dates
  BY Readings, AskedDates
<1>4. f \in Interval /\ f.s \in Int /\ f.e \in Int /\ f.s < f.e
  BY <1>3, WindowsType, IntervalType
<1>5. Reach(f.s)
  <2>1. In(f.s, f)
    BY <1>4 DEF In
  <2> QED BY <1>3, <1>4, <2>1, WindowReach
<1>6. t \in Int /\ Within(Slot(t), f)
  BY <1>2, <1>3, <1>4, <1>5, StartsWithin
<1>7. OneGrid => (t + Shift) % SlotInterval = 0
  BY <1>2, <1>3, <1>4, <1>5, <1>6, StartsOnGrid
<1> QED BY <1>6, <1>7

\* On one grid the pass with bookings finds every start on it that nobody takes.
LEMMA OpenStart ==
    ASSUME SlotsTypeOK, ~Fails, OneGrid, NEW h \in Pooled, NEW t \in Int,
           (t + Shift) % SlotInterval = 0, ~Clash(h, t),
           NEW d \in DateFrom .. DateTo, NEW w \in resolveDay(h, d), Within(Slot(t), w)
    PROVE  t \in HostStarts(h, TRUE)
<1>1. h \in Hosts /\ ~Unreadable(h, d) /\ Pooled # {} /\ d \in Dates
  BY Readings, AskedDates
<1>2. PICK f \in FreeOn(h, d) : Within(Slot(t), f)
  BY <1>1, FreeOnFacts
<1>3. PICK v \in resolveDay(h, d) : In(f.s, v)
  BY <1>1, FreeOnFacts
<1>4. f \in Interval /\ f.s \in Int
  BY <1>1, FreeOnFacts, IntervalType
<1>5. Reach(f.s)
  BY <1>1, <1>3, <1>4, WindowReach
<1>6. t \in StartsIn(f)
  BY <1>1, <1>2, <1>4, <1>5, StartsOnGrid
<1> QED BY <1>6 DEF HostStarts

\* What each routing mode asks of the free hosts.
LEMMA PickHosts ==
    ASSUME SlotsTypeOK, NEW free
    PROVE  /\ mode = "collective" => (pickHosts(free) <=> Pooled # {} /\ Pooled \subseteq free)
           /\ mode = "round_robin" =>
                 (pickHosts(free) <=>
                    /\ \A h \in Hosts : RoleOf[h] = "required" => h \in free
                    /\ \E h \in Hosts : RoleOf[h] = "rotation" /\ h \in free)
           /\ mode = "fixed" => (pickHosts(free) <=> Pooled # {} /\ Lead \in free)
           /\ mode # "round_robin" => Pooled = {h \in Hosts : RoleOf[h] = "required"}
           /\ mode = "round_robin" => Pooled = {h \in Hosts : RoleOf[h] \in {"required", "rotation"}}
<1>1. mode \in {"fixed", "round_robin", "collective"}
  BY ProfileType
<1>2. CASE mode = "collective"
  BY <1>2 DEF pickHosts, Pooled
<1>3. CASE mode = "fixed"
  BY <1>3 DEF pickHosts, Pooled
<1>4. CASE mode = "round_robin"
  <2>1. Pooled = {h \in Hosts : RoleOf[h] \in {"required", "rotation"}}
    BY <1>4 DEF Pooled
  <2> DEFINE required == {h \in Pooled : RoleOf[h] = "required"}
  <2>2. pickHosts(free) <=> required \subseteq free /\ (Pooled \ required) \cap free # {}
    BY <1>4 DEF pickHosts
  <2>3. required \subseteq free <=> \A h \in Hosts : RoleOf[h] = "required" => h \in free
    BY <2>1
  <2>4. (Pooled \ required) \cap free # {} <=> \E h \in Hosts : RoleOf[h] = "rotation" /\ h \in free
    BY <2>1
  <2> QED BY <1>4, <2>1, <2>2, <2>3, <2>4
<1> QED BY <1>1, <1>2, <1>3, <1>4

\* Whoever a set of hosts satisfies, a larger one satisfies.
LEMMA PickMore ==
    ASSUME SlotsTypeOK, NEW free, NEW more, free \subseteq more, pickHosts(free)
    PROVE  pickHosts(more)
BY PickHosts, ProfileType

FreeHosts(t) == {h \in Pooled : t \in hostsByStart(TRUE)[h]}

\* What it takes to be offered.
LEMMA FreeMeans ==
    ASSUME NEW t \in Free
    PROVE  /\ ~Fails /\ pickHosts(FreeHosts(t))
           /\ \A h \in FreeHosts(t) :
                 h \in Pooled /\ t \in HostStarts(h, TRUE) /\ Clock + MinNotice <= t /\ t <= Clock + MaxFuture
           /\ FreeHosts(t) # {}
<1>1. ~Fails /\ t \in offer(hostsByStart(TRUE))
  BY DEF Free
<1>2. pickHosts(FreeHosts(t)) /\ \E h \in Pooled : t \in hostsByStart(TRUE)[h]
  BY <1>1 DEF offer, FreeHosts
<1> QED BY <1>1, <1>2 DEF FreeHosts, hostsByStart

-----------------------------------------------------------------------------

\* What the listing finds free for a host, the booking finds free for that host.
Ready(h, t) == hostAvailableAt(h, t) /\ calendarFreeAt(h, t) /\ SeatFree(h, t)

\* The date of a window is at most a day from the UTC date of an instant in it.
LEMMA DivDay ==
    ASSUME NEW t \in Int, NEW d \in Int, (d - 1) * Day <= t, t < (d + 2) * Day
    PROVE  t \div Day \in Int /\ d \in t \div Day - 1 .. t \div Day + 1
<1> DEFINE k == t \div Day
<1>1. Day \in Nat /\ Day > 0
  BY Sizes
<1>2. k \in Int /\ t = Day * k + (t % Day) /\ t % Day \in 0 .. Day - 1
  BY <1>1
<1> HIDE DEF k
<1>3. k * Day \in Int /\ k * Day <= t /\ t < k * Day + Day
  BY <1>1, <1>2
<1>4. (d - 1) * Day \in Int /\ (d + 2) * Day \in Int /\ d - 1 \in Int /\ d + 2 \in Int
  BY TimesDay
<1>5. k < d + 2
  <2>1. ASSUME d + 2 <= k PROVE FALSE
    <3>1. (d + 2) * Day <= k * Day
      BY <1>2, <1>4, <2>1, TimesDay
    <3> QED BY <1>3, <1>4, <3>1
  <2> QED BY <1>2, <2>1
<1>6. d - 1 < k + 1
  <2>1. ASSUME k + 1 <= d - 1 PROVE FALSE
    <3>1. (k + 1) * Day <= (d - 1) * Day /\ (k + 1) * Day = k * Day + Day
      BY <1>2, <1>4, <2>1, TimesDay
    <3> QED BY <1>1, <1>3, <1>4, <3>1
  <2> QED BY <1>2, <2>1
<1>7. d \in k - 1 .. k + 1
  BY <1>2, <1>5, <1>6
<1> QED BY <1>2, <1>7 DEF k

\* The start of a slot lies where the slot lies.
LEMMA SlotInWindow ==
    ASSUME NEW t \in Int, NEW w \in Interval, Within(Slot(t), w)
    PROVE  In(t, w)
BY IntervalType, Sizes DEF Within, Slot, In

\* A host that the listing finds free passes the checks of the booking.
LEMMA FreeIsReady ==
    ASSUME SlotsTypeOK, Readable, ~Degraded, ~BeyondFreeBusy, ~Fails,
           NEW h \in Pooled, NEW t \in HostStarts(h, TRUE), ~Straddles(t)
    PROVE  Ready(h, t)
<1>1. t \in Int /\ ~Clash(h, t) /\ h \in Hosts
  BY StartFree DEF Pooled
<1>2. PICK d \in DateFrom .. DateTo :
          \E w \in ToSet(mergeIntervals(resolveDay(h, d))) : Within(Slot(t), w)
  BY StartFree
<1>3. PICK w \in resolveDay(h, d) : Within(Slot(t), w)
  BY <1>1, <1>2 DEF Straddles
<1>4. d \in Int /\ d \in Dates /\ d \in DateFrom - 2 .. DateTo + 2 /\ ~Unreadable(h, d)
  BY AskedDates, Readings
<1>5. w \in Interval /\ In(t, w)
  BY <1>1, <1>3, <1>4, WindowsType, SlotInWindow
<1>6. (d - 1) * Day <= t /\ t < (d + 2) * Day
  <2>1. w.s \in Int /\ w.e \in Int /\ (d - 1) * Day <= w.s /\ w.e < (d + 2) * Day
    BY <1>1, <1>4, WindowBounds
  <2>2. (d - 1) * Day \in Int /\ (d + 2) * Day \in Int
    BY <1>4, TimesDay
  <2> QED BY <1>1, <1>5, <2>1, <2>2 DEF In
<1>7. \A y : ~Unreadable(h, y)
  BY <1>1 DEF Unreadable, RulesOn, Readable
<1>8. hostAvailableAt(h, t)
  BY <1>1, <1>3, <1>4, <1>6, <1>7, DivDay DEF hostAvailableAt
<1>9. h \notin Unread /\ \A y \in external[h] : overlaps(y, Requested)
  BY <1>1 DEF Degraded, BeyondFreeBusy
<1> QED BY <1>1, <1>8, <1>9, ClashOrFree DEF Ready

\* Accepts in terms of Ready.
LEMMA AcceptsWhen ==
    ASSUME NEW t
    PROVE  Accepts(t) <=>
             /\ Candidates # {}
             /\ Clock + MinNotice <= t /\ t <= Clock + MaxFuture
             /\ \A h \in Required : Ready(h, t)
             /\ IF mode = "round_robin" THEN \E h \in Candidates : Ready(h, t)
                ELSE \A h \in Candidates : Ready(h, t)
BY DEF Accepts, Ready

\* An event type has finitely many hosts.
LEMMA HostsFinite == IsFiniteSet(Hosts)
<1>1. Len(Pool) \in Nat /\ DOMAIN Pool = 1 .. Len(Pool)
  BY ZoneAssumption
<1>2. Hosts = {Pool[i] : i \in 1 .. Len(Pool)}
  BY <1>1 DEF Hosts
<1>3. IsFiniteSet(1 .. Len(Pool))
  BY <1>1, FS_Interval
<1> QED BY <1>2, <1>3, FiniteImage

\* What is offered can be booked.
LEMMA Offered == SlotsTypeOK => OfferedIsBookable
<1> SUFFICES ASSUME SlotsTypeOK, Readable, ~Degraded, ~BeyondFreeBusy,
                    mode = "fixed" => Cardinality(Candidates) = 1,
                    NEW t \in Free, ~Straddles(t)
             PROVE  Accepts(t)
  BY DEF OfferedIsBookable
<1> DEFINE F == FreeHosts(t)
<1>1. ~Fails /\ pickHosts(F) /\ F # {}
  BY FreeMeans
<1>2. \A h \in F : h \in Pooled /\ h \in Hosts /\ Ready(h, t)
                   /\ Clock + MinNotice <= t /\ t <= Clock + MaxFuture
  <2> SUFFICES ASSUME NEW h \in F
               PROVE  h \in Pooled /\ h \in Hosts /\ Ready(h, t)
                      /\ Clock + MinNotice <= t /\ t <= Clock + MaxFuture
    OBVIOUS
  <2>1. h \in Pooled /\ t \in HostStarts(h, TRUE) /\ Clock + MinNotice <= t /\ t <= Clock + MaxFuture
    BY FreeMeans
  <2>2. Ready(h, t)
    BY <1>1, <2>1, FreeIsReady
  <2> QED BY <2>1, <2>2 DEF Pooled
<1> HIDE DEF F
<1>3. Clock + MinNotice <= t /\ t <= Clock + MaxFuture
  BY <1>1, <1>2
<1>4. CASE mode = "collective"
  <2>1. Candidates = Pooled /\ Required = {} /\ Pooled # {} /\ Pooled \subseteq F
    BY <1>1, <1>4, PickHosts DEF Candidates, Required
  <2> QED BY <1>2, <1>3, <1>4, <2>1, AcceptsWhen
<1>5. CASE mode = "round_robin"
  <2>1. /\ Candidates = {h \in Hosts : RoleOf[h] = "rotation"}
        /\ Required = {h \in Hosts : RoleOf[h] = "required"}
    BY <1>5 DEF Candidates, Required
  <2>2. Required \subseteq F /\ \E h \in Candidates : h \in F
    BY <1>1, <1>5, <2>1, PickHosts
  <2> QED BY <1>2, <1>3, <1>5, <2>2, AcceptsWhen
<1>6. CASE mode = "fixed"
  <2>1. Candidates = Pooled /\ Required = {} /\ Lead \in F
    BY <1>1, <1>6, PickHosts DEF Candidates, Required
  <2>2. Candidates = {Lead}
    <3>1. Candidates \in SUBSET Hosts
      BY DEF Candidates
    <3>2. IsFiniteSet(Candidates)
      BY <3>1, HostsFinite, FS_Subset
    <3>3. \E x : Candidates = {x}
      BY <1>6, <3>2, FS_Singleton
    <3>4. Lead \in Candidates
      BY <1>2, <2>1
    <3> QED BY <3>3, <3>4
  <2> QED BY <1>2, <1>3, <1>6, <2>1, <2>2, AcceptsWhen
<1> QED BY <1>4, <1>5, <1>6, ProfileType

\* A window's instants belong to the window's date, unless hours are skipped.
LEMMA WindowDate ==
    ASSUME SlotsTypeOK, ~HoursSkipped, NEW h \in Hosts, NEW d \in DateFrom - 2 .. DateTo + 2,
           ~Unreadable(h, d), NEW w \in resolveDay(h, d), NEW t \in Int, In(t, w)
    PROVE  LocalDate(h, t) = d
<1>1. w.s \in Int /\ w.e \in Int /\ Midnight(h, d) <= w.s /\ w.e <= Midnight(h, d + 1)
  BY WindowBounds
<1>2. d \in DateFrom - 2 .. DateTo + 3 /\ d + 1 \in DateFrom - 2 .. DateTo + 3
  BY Sizes
<1>3. Midnight(h, d) \in Int /\ Midnight(h, d + 1) \in Int
  BY <1>2, MidnightBound
<1>4. Midnight(h, d) <= t /\ t < Midnight(h, d + 1)
  BY <1>1, <1>3 DEF In
<1> QED BY <1>4, LocalDateIs

\* A blocked date is closed.
LEMMA Closed == SlotsTypeOK => BlockedDateIsClosed
<1> SUFFICES ASSUME SlotsTypeOK, mode # "fixed", ~HoursSkipped, NEW i \in DOMAIN overrides,
                    overrides[i] # NoOverride, ~overrides[i].avail,
                    RoleOf[overrides[i].user] = "required", NEW t \in Free,
                    LocalDate(overrides[i].user, t) = overrides[i].date
             PROVE  FALSE
  BY DEF BlockedDateIsClosed
<1> DEFINE u == overrides[i].user
<1>1. overrides[i] \in OverrideRow
  BY DEF SlotsTypeOK, OverridesOK
<1>2. u \in Hosts /\ u \in Pooled
  BY <1>1 DEF OverrideRow, Pooled
<1>3. ~Fails /\ pickHosts(FreeHosts(t))
  BY FreeMeans
<1>4. u \in FreeHosts(t)
  BY <1>2, <1>3, PickHosts, ProfileType
<1>5. t \in HostStarts(u, TRUE)
  BY <1>4, FreeMeans
<1> HIDE DEF u
<1>6. t \in Int
  BY <1>2, <1>3, <1>5, StartFree
<1>7. PICK d \in DateFrom .. DateTo :
          \E w \in ToSet(mergeIntervals(resolveDay(u, d))) : Within(Slot(t), w)
  BY <1>2, <1>3, <1>5, StartFree
<1>8. d \in Dates /\ d \in DateFrom - 2 .. DateTo + 2 /\ ~Unreadable(u, d)
  BY <1>2, <1>3, AskedDates, Readings
<1>9. IsFiniteSet(resolveDay(u, d)) /\ resolveDay(u, d) \subseteq Interval
  BY <1>2, <1>8, WindowsType
<1>10. PICK v \in resolveDay(u, d) : In(t, v)
  <2>1. PICK w \in ToSet(mergeIntervals(resolveDay(u, d))) : Within(Slot(t), w)
    BY <1>7
  <2>2. w \in Interval
    BY <1>9, MergeKeepsTime DEF ToSet
  <2>3. In(t, w)
    BY <1>6, <2>1, <2>2, SlotInWindow
  <2> QED BY <1>6, <1>9, <2>3, MergeKeepsTime
<1>11. LocalDate(u, t) = d
  BY <1>2, <1>6, <1>8, <1>10, WindowDate
<1>12. overrides[i] \in OverridesOn(u, d)
  BY <1>11 DEF OverridesOn, ToSet, u
<1>13. resolveDay(u, d) = {}
  BY <1>12 DEF resolveDay
<1> QED BY <1>10, <1>13

\* What is greyed out is taken.
LEMMA GreyedOut == SlotsTypeOK => TakenMeansTaken
<1> SUFFICES ASSUME SlotsTypeOK, NEW t \in Taken
             PROVE  /\ t \notin NoticeGap
                    /\ OneGrid => \E h \in Pooled : Clash(h, t)
  BY DEF TakenMeansTaken, Clash
<1> DEFINE open == hostsByStart(FALSE)
           free == hostsByStart(TRUE)
           O == {h \in Pooled : t \in open[h]}
           F == {h \in Pooled : t \in free[h]}
<1>1. ~Fails /\ t \in offer(open) /\ t \notin offer(free)
  BY DEF Taken
<1>2. \A h \in Pooled :
          /\ t \in open[h] <=> t \in HostStarts(h, FALSE) /\ Clock + MinNotice <= t /\ t <= Clock + MaxFuture
          /\ t \in free[h] <=> t \in HostStarts(h, TRUE) /\ Clock + MinNotice <= t /\ t <= Clock + MaxFuture
  BY DEF hostsByStart
<1> HIDE DEF open, free
<1>3. PICK g \in Pooled : t \in open[g]
  BY <1>1 DEF offer
<1>4. t \in Int /\ Clock + MinNotice <= t /\ t <= Clock + MaxFuture
  BY <1>1, <1>2, <1>3, StartOpen
<1>5. t \notin NoticeGap
  <2> SUFFICES ASSUME t \in offer(belowNotice) PROVE FALSE
    BY <1>1 DEF NoticeGap
  <2>1. PICK h \in Pooled : t \in belowNotice[h]
    BY DEF offer
  <2>2. t < Clock + MinNotice
    BY <2>1 DEF belowNotice
  <2> QED BY <1>4, <2>2, Sizes
<1>6. ASSUME OneGrid, \A h \in Pooled : ~Clash(h, t)
      PROVE  FALSE
  <2>1. O \subseteq F
    <3> SUFFICES ASSUME NEW h \in Pooled, t \in open[h] PROVE t \in free[h]
      OBVIOUS
    <3>1. t \in HostStarts(h, FALSE)
      BY <1>2
    <3>2. t \in Int /\ (t + Shift) % SlotInterval = 0
      BY <1>1, <1>6, <3>1, StartOpen
    <3>3. PICK d \in DateFrom .. DateTo : \E w \in resolveDay(h, d) : Within(Slot(t), w)
      BY <1>1, <3>1, StartOpen
    <3>4. t \in HostStarts(h, TRUE)
      BY <1>1, <1>6, <3>2, <3>3, OpenStart
    <3> QED BY <1>2, <1>4, <3>4
  <2>2. pickHosts(O)
    BY <1>1 DEF offer
  <2> HIDE DEF O, F
  <2>3. pickHosts(F)
    BY <2>1, <2>2, PickMore
  <2>4. F # {}
    BY <1>3, <2>1 DEF O
  <2>5. t \in offer(free)
    BY <2>3, <2>4 DEF offer, F
  <2> QED BY <1>1, <2>5
<1> QED BY <1>5, <1>6

\* What it means for an instant to be on the grid.
LEMMA OnGridShift ==
    ASSUME Pooled # {}, OneGrid, NEW t, Reach(t), OnGrid(t)
    PROVE  (t + Shift) % SlotInterval = 0
<1>1. alignUp(t) = t
  BY DEF OnGrid
<1> QED BY <1>1, GridUp

\* What can be booked is offered.
LEMMA Shown == SlotsTypeOK => NothingWithheld
<1> SUFFICES ASSUME SlotsTypeOK, OneGrid, ~HoursSkipped, ~Fails,
                    NEW t \in DateFrom * Day .. (DateTo + 1) * Day - 1,
                    Accepts(t), OnGrid(t),
                    \A h \in Hosts : Buffered(h, t) /\ LocalDate(h, t) \in DateFrom .. DateTo
             PROVE  t \in Free
  BY DEF NothingWithheld
<1> DEFINE F == FreeHosts(t)
<1>1. /\ DateFrom \in Int /\ DateTo \in Int /\ DateTo + 1 \in Int
      /\ DateFrom * Day \in Int /\ (DateTo + 1) * Day \in Int
      /\ (DateFrom - 1) * Day = DateFrom * Day - Day
      /\ (DateTo + 2) * Day = DateTo * Day + Day + Day
      /\ (DateTo + 1) * Day = DateTo * Day + Day
      /\ DateTo * Day \in Int
      /\ Day \in Nat /\ Day > 0
  BY Sizes, TimesDay
<1>2. t \in Int /\ DateFrom * Day <= t /\ t < (DateTo + 1) * Day
  BY <1>1
<1>3. Reach(t)
  BY <1>1, <1>2 DEF Reach
<1>4. Clock + MinNotice <= t /\ t <= Clock + MaxFuture /\ Candidates # {}
  BY AcceptsWhen
<1>5. ASSUME NEW h \in Pooled, Ready(h, t)
      PROVE  h \in F
  <2>1. h \in Hosts /\ Pooled # {}
    BY DEF Pooled
  <2> DEFINE k == t \div Day
  <2>2. PICK x \in k - 1 .. k + 1 :
            (\A y \in k - 1 .. x : ~Unreadable(h, y)) /\ \E w \in resolveDay(h, x) : Within(Slot(t), w)
    BY <1>5 DEF Ready, hostAvailableAt
  <2>3. PICK w \in resolveDay(h, x) : Within(Slot(t), w)
    BY <2>2
  <2>4. k \in Int /\ DateFrom <= k /\ k <= DateTo
    <3>1. k \in Int /\ t = Day * k + (t % Day) /\ t % Day \in 0 .. Day - 1
      BY <1>1, <1>2
    <3> HIDE DEF k
    <3>2. k * Day \in Int /\ k * Day <= t /\ t < k * Day + Day /\ (k + 1) * Day = k * Day + Day /\ k + 1 \in Int
      BY <1>1, <1>2, <3>1
    <3>3. ASSUME DateTo + 1 <= k PROVE FALSE
      <4>1. (DateTo + 1) * Day <= k * Day
        BY <1>1, <3>1, <3>3, TimesDay
      <4> QED BY <1>1, <1>2, <3>2, <4>1
    <3>4. ASSUME k + 1 <= DateFrom PROVE FALSE
      <4>1. (k + 1) * Day <= DateFrom * Day
        BY <1>1, <3>2, <3>4, TimesDay
      <4> QED BY <1>1, <1>2, <3>2, <4>1
    <3> QED BY <1>1, <3>1, <3>3, <3>4
  <2> HIDE DEF k
  <2>5. x \in Int /\ x \in DateFrom - 2 .. DateTo + 2 /\ x \in Dates /\ ~Unreadable(h, x)
    BY <1>1, <2>2, <2>4, DatesRange
  <2>6. w \in Interval
    BY <2>1, <2>5, WindowsType
  <2>7. LocalDate(h, t) = x
    BY <1>2, <2>1, <2>3, <2>5, <2>6, SlotInWindow, WindowDate
  <2>8. x \in DateFrom .. DateTo
    BY <2>1, <2>7
  <2>9. ~Clash(h, t)
    BY <1>2, <1>5, <2>1, ClashOrFree DEF Ready
  <2>10. (t + Shift) % SlotInterval = 0
    BY <1>3, <2>1, OnGridShift
  <2>11. t \in HostStarts(h, TRUE)
    BY <1>2, <2>3, <2>8, <2>9, <2>10, OpenStart
  <2> QED BY <1>4, <2>11 DEF FreeHosts, hostsByStart
<1>6. pickHosts(F) /\ F # {}
  <2> HIDE DEF F
  <2>1. CASE mode = "round_robin"
    <3>1. /\ Candidates = {h \in Hosts : RoleOf[h] = "rotation"}
          /\ Required = {h \in Hosts : RoleOf[h] = "required"}
          /\ Pooled = {h \in Hosts : RoleOf[h] \in {"required", "rotation"}}
      BY <2>1, PickHosts DEF Candidates, Required
    <3>2. (\A h \in Required : Ready(h, t)) /\ \E h \in Candidates : Ready(h, t)
      BY <2>1, AcceptsWhen
    <3>3. (\A h \in Required : h \in F) /\ \E h \in Candidates : h \in F
      BY <1>5, <3>1, <3>2
    <3> QED BY <2>1, <3>1, <3>3, PickHosts
  <2>2. CASE mode # "round_robin"
    <3>1. Candidates = Pooled
      BY <2>2, PickHosts DEF Candidates
    <3>2. \A h \in Candidates : Ready(h, t)
      BY <2>2, AcceptsWhen
    <3>3. Pooled \subseteq F /\ Pooled # {}
      BY <1>4, <1>5, <3>1, <3>2
    <3>4. Lead \in F
      BY <3>3, LeadPooled
    <3> QED BY <2>2, <3>3, <3>4, PickHosts, ProfileType
  <2> QED BY <2>1, <2>2
<1>7. \E h \in Pooled : t \in hostsByStart(TRUE)[h]
  BY <1>6 DEF FreeHosts
<1> QED BY <1>6, <1>7 DEF Free, offer, FreeHosts

\* The page and the booking agree at every moment, for all hosts, zones, rules, overrides,
\* meetings, calendars, buffers and routing modes.
THEOREM PageAgrees == SlotsSpec => []PageAgreesWithBooking
<1>1. SlotsTypeOK => PageAgreesWithBooking
  BY Offered, Shown, GreyedOut, Closed DEF PageAgreesWithBooking
<1> QED BY <1>1, SlotsType, PTL
=============================================================================
