--------------------------- MODULE JobQueueProofs ---------------------------
(***************************************************************************)
(* Proofs about JobQueue, for any number of jobs and workers, any limit on *)
(* attempts and every combination of faults.                               *)
(***************************************************************************)
EXTENDS JobQueue, FiniteSetTheorems, TLAPS

-----------------------------------------------------------------------------
(* The inductive invariants.                                               *)

\* A job in hand was claimed, and is no longer in the batch it came from; a
\* worker between two polls has no batch.
InHand ==
    \A w \in Worker :
        /\ cur[w] # NoJob => attempts[cur[w]] > 0 /\ cur[w] \notin batch[w]
        /\ pc[w] \in {"idle", "swept"} => batch[w] = {}

\* While processing ends within the lock, the row of a job in hand is running
\* under a lock that holds; only the last step of a failed job finds it failed,
\* or purged.
Locked ==
    \A w \in Worker, j \in Job :
        Processing(w, j) /\ ~late[j] =>
            \/ status[j] = "running" /\ ~expired[j]
            \/ pc[w] = "bury" /\ status[j] \in {"failed", "absent"}

Exclusive == Locked /\ OneRunner

\* The endpoint took the delivery of j, or there is nothing to deliver.
Settled(j) == accepted[j] \/ delivery[j] = "absent"

\* A worker that is about to report success has delivered.
Delivered ==
    /\ \A w \in Worker :
          pc[w] \in {"record", "finish"} /\ outcome[w] = "ok" => Settled(cur[w])
    /\ DoneMeansDelivered

\* The workers that would not take the failure of j for its last: they selected
\* it before the others' attempts were counted.
Low(j) ==
    {w \in Worker : (j \in batch[w] \/ cur[w] = j) /\ read[w][j] + 1 < MaxAttempts}

\* What is left to happen to a job beyond its limit: it is claimed if it is
\* pending, and each of those workers can make it pending once more.
Credit(j) == Cardinality(Low(j)) + (IF status[j] = "pending" THEN 1 ELSE 0)

\* The credit is given when the limit is reached.  Not all workers can be low
\* then: one of them made the job pending.
CountedAt(j) ==
    /\ attempts[j] + 1 = MaxAttempts /\ status[j] = "pending" =>
          Low(j) # Worker \/ Worker = {}
    /\ attempts[j] >= MaxAttempts =>
          attempts[j] + Credit(j) < MaxAttempts + Cardinality(Worker)

Counted == \A j \in Job : CountedAt(j)

\* What a claim that takes the job writes.
Takes(w, j) ==
    /\ status[j] = "pending"
    /\ status' = [status EXCEPT ![j] = "running"]
    /\ attempts' = [attempts EXCEPT ![j] = @ + 1]
    /\ due' = [due EXCEPT ![j] = FALSE]
    /\ expired' = [expired EXCEPT ![j] = FALSE]
    /\ cur' = [cur EXCEPT ![w] = j]
    /\ pc' = [pc EXCEPT ![w] = "load"]

-----------------------------------------------------------------------------
(* Typing.                                                                 *)

\* Every step of the queue keeps the types.
LEMMA TypeStep == TypeOK /\ [Next]_vars => TypeOK'
<1> SUFFICES ASSUME TypeOK, [Next]_vars PROVE TypeOK'
    OBVIOUS
<1> USE QueueAssumption, JobAssumption
    DEF TypeOK, table, log, poll, Works, Fails
<1>1. CASE UNCHANGED vars
    BY <1>1 DEF vars
<1>2. ASSUME NEW j \in Job, Enqueue(j) PROVE TypeOK'
    BY <1>2 DEF Enqueue
<1>3. ASSUME NEW j \in Job, DeleteWebhook(j) PROVE TypeOK'
    BY <1>3 DEF DeleteWebhook
<1>4. ASSUME NEW j \in Job, Due(j) PROVE TypeOK'
    BY <1>4 DEF Due
<1>5. ASSUME NEW j \in Job, LockExpires(j) PROVE TypeOK'
    BY <1>5 DEF LockExpires
<1>6. ASSUME NEW w \in Worker, Sweep(w) PROVE TypeOK'
    BY <1>6 DEF Sweep, Touched
<1>7. ASSUME NEW w \in Worker, Select(w) PROVE TypeOK'
    BY <1>7 DEF Select
<1>8. ASSUME NEW w \in Worker, EndPoll(w) PROVE TypeOK'
    BY <1>8 DEF EndPoll
<1>9. ASSUME NEW w \in Worker, NEW j \in Job, Claim(w, j) PROVE TypeOK'
    <2>1. CASE Takes(w, j)
        BY <1>9, <2>1 DEF Claim, Takes
    <2>2. CASE UNCHANGED <<table, cur, pc>>
        BY <1>9, <2>2 DEF Claim
    <2> QED
        BY <1>9, <2>1, <2>2 DEF Claim, Unclaimed, Takes
<1>10. ASSUME NEW w \in Worker, Load(w) PROVE TypeOK'
    <2>1. cur[w] \in Job
        BY <1>10 DEF Load
    <2>2. faults' \in 0..MaxFaults
        BY <1>10 DEF Load
    <2>3. outcome' \in [Worker -> {"none", "ok", "error"}]
        BY <1>10 DEF Load
    <2>4. pc' \in [Worker -> {"idle", "swept", "batch", "load", "post", "record",
                              "finish", "bury"}]
        BY <1>10 DEF Load
    <2>5. \A v \in Worker :
             cur'[v] # NoJob <=> pc'[v] \in {"load", "post", "record", "finish", "bury"}
        BY <1>10, <2>1 DEF Load
    <2> QED
        BY <1>10, <2>2, <2>3, <2>4, <2>5 DEF Load
<1>11. ASSUME NEW w \in Worker, Post(w) PROVE TypeOK'
    BY <1>11 DEF Post
<1>12. ASSUME NEW w \in Worker, Record(w) PROVE TypeOK'
    <2>1. cur[w] \in Job
        BY <1>12 DEF Record
    <2>2. faults' \in 0..MaxFaults
        BY <1>12 DEF Record
    <2>3. delivery' \in [Job -> {"absent", "pending", "success", "failed"}]
        BY <1>12, <2>1 DEF Record
    <2>4. attempted' \in [Job -> BOOLEAN]
        BY <1>12, <2>1 DEF Record
    <2> QED
        BY <1>12, <2>2, <2>3, <2>4 DEF Record
<1>13. ASSUME NEW w \in Worker, Finish(w) PROVE TypeOK'
    <2>1. cur[w] \in Job
        BY <1>13 DEF Finish
    <2>2. faults' \in 0..MaxFaults
        BY <1>13 DEF Finish
    <2>3. status' \in [Job -> {"absent", "pending", "running", "done", "failed"}]
        BY <1>13, <2>1 DEF Finish
    <2>4. due' \in [Job -> BOOLEAN]
        BY <1>13, <2>1, Zenon DEF Finish
    <2>5. cur' \in [Worker -> Job \cup {NoJob}]
        BY <1>13, <2>1 DEF Finish
    <2>6. \A v \in Worker :
             cur'[v] # NoJob <=> pc'[v] \in {"load", "post", "record", "finish", "bury"}
        BY <1>13, <2>1 DEF Finish
    <2>7. pc' \in [Worker -> {"idle", "swept", "batch", "load", "post", "record",
                              "finish", "bury"}]
        BY <1>13 DEF Finish
    <2> QED
        BY <1>13, <2>2, <2>3, <2>4, <2>5, <2>6, <2>7 DEF Finish
<1>14. ASSUME NEW w \in Worker, MarkDeliveryFailed(w) PROVE TypeOK'
    <2>1. cur[w] \in Job
        BY <1>14 DEF MarkDeliveryFailed
    <2> QED
        BY <1>14, <2>1 DEF MarkDeliveryFailed
<1>15. ASSUME NEW w \in Worker, Crash(w) PROVE TypeOK'
    BY <1>15 DEF Crash
<1> QED
    BY <1>1, <1>2, <1>3, <1>4, <1>5, <1>6, <1>7, <1>8, <1>9, <1>10, <1>11, <1>12,
       <1>13, <1>14, <1>15 DEF Next, PollStep

\* The tables and the workers' places are well typed in every reachable state.
THEOREM TypeCorrect == Spec => []TypeOK
<1>1. Init => TypeOK
    BY QueueAssumption, JobAssumption DEF Init, TypeOK
<1> QED
    BY <1>1, TypeStep, PTL DEF Spec

-----------------------------------------------------------------------------
(* Jobs in hand.                                                           *)

\* A claim counts an attempt and takes the job from the batch; nothing lowers
\* the count.
LEMMA InHandStep == TypeOK /\ InHand /\ [Next]_vars => InHand'
<1> SUFFICES ASSUME TypeOK, InHand, [Next]_vars PROVE InHand'
    OBVIOUS
<1> USE JobAssumption DEF TypeOK, InHand, table, log, poll
<1>1. CASE UNCHANGED vars
    BY <1>1 DEF vars
<1>2. ASSUME NEW j \in Job, Enqueue(j) PROVE InHand'
    BY <1>2 DEF Enqueue
<1>3. ASSUME NEW j \in Job, DeleteWebhook(j) PROVE InHand'
    BY <1>3 DEF DeleteWebhook
<1>4. ASSUME NEW j \in Job, Due(j) PROVE InHand'
    BY <1>4 DEF Due
<1>5. ASSUME NEW j \in Job, LockExpires(j) PROVE InHand'
    BY <1>5 DEF LockExpires
<1>6. ASSUME NEW w \in Worker, Sweep(w) PROVE InHand'
    BY <1>6 DEF Sweep
<1>7. ASSUME NEW w \in Worker, Select(w) PROVE InHand'
    BY <1>7 DEF Select
<1>8. ASSUME NEW w \in Worker, EndPoll(w) PROVE InHand'
    BY <1>8 DEF EndPoll
<1>9. ASSUME NEW w \in Worker, NEW j \in Job, Claim(w, j) PROVE InHand'
    <2>1. CASE Takes(w, j)
        BY <1>9, <2>1 DEF Claim, Takes
    <2>2. CASE UNCHANGED <<table, cur, pc>>
        BY <1>9, <2>2 DEF Claim
    <2> QED
        BY <1>9, <2>1, <2>2 DEF Claim, Unclaimed, Takes
<1>10. ASSUME NEW w \in Worker, Load(w) PROVE InHand'
    BY <1>10 DEF Load
<1>11. ASSUME NEW w \in Worker, Post(w) PROVE InHand'
    BY <1>11 DEF Post
<1>12. ASSUME NEW w \in Worker, Record(w) PROVE InHand'
    BY <1>12 DEF Record
<1>13. ASSUME NEW w \in Worker, Finish(w) PROVE InHand'
    BY <1>13 DEF Finish
<1>14. ASSUME NEW w \in Worker, MarkDeliveryFailed(w) PROVE InHand'
    BY <1>14 DEF MarkDeliveryFailed
<1>15. ASSUME NEW w \in Worker, Crash(w) PROVE InHand'
    BY <1>15 DEF Crash
<1> QED
    BY <1>1, <1>2, <1>3, <1>4, <1>5, <1>6, <1>7, <1>8, <1>9, <1>10, <1>11, <1>12,
       <1>13, <1>14, <1>15 DEF Next, PollStep

-----------------------------------------------------------------------------
(* One worker at a time.                                                   *)

\* The claim takes pending jobs only, and the reaper those whose lock expired:
\* a job that is running under its lock stays with its worker.
LEMMA ExclusiveStep == TypeOK /\ InHand /\ Exclusive /\ [Next]_vars => Exclusive'
<1> SUFFICES ASSUME TypeOK, InHand, Exclusive, [Next]_vars PROVE Exclusive'
    OBVIOUS
<1> USE JobAssumption
    DEF TypeOK, InHand, Exclusive, Locked, OneRunner, Processing, table, log, poll
<1>1. CASE UNCHANGED vars
    BY <1>1 DEF vars
<1>2. ASSUME NEW j \in Job, Enqueue(j) PROVE Exclusive'
    BY <1>2 DEF Enqueue
<1>3. ASSUME NEW j \in Job, DeleteWebhook(j) PROVE Exclusive'
    BY <1>3 DEF DeleteWebhook
<1>4. ASSUME NEW j \in Job, Due(j) PROVE Exclusive'
    BY <1>4 DEF Due
<1>5. ASSUME NEW j \in Job, LockExpires(j) PROVE Exclusive'
    BY <1>5 DEF LockExpires
<1>6. ASSUME NEW w \in Worker, Sweep(w) PROVE Exclusive'
    BY <1>6 DEF Sweep, Touched, Retried, Exhausted, Stuck, FinishedJobs
<1>7. ASSUME NEW w \in Worker, Select(w) PROVE Exclusive'
    BY <1>7 DEF Select
<1>8. ASSUME NEW w \in Worker, EndPoll(w) PROVE Exclusive'
    BY <1>8 DEF EndPoll
<1>9. ASSUME NEW w \in Worker, NEW j \in Job, Claim(w, j) PROVE Exclusive'
    <2>1. CASE Takes(w, j)
        <3>1. \A v \in Worker : cur[v] = j => late[j]
            BY <2>1 DEF Takes
        <3>2. /\ cur'[w] = j /\ \A v \in Worker : v # w => cur'[v] = cur[v] /\ pc'[v] = pc[v]
              /\ status'[j] = "running" /\ ~expired'[j] /\ late' = late
              /\ \A k \in Job : k # j => status'[k] = status[k] /\ expired'[k] = expired[k]
            BY <1>9, <2>1 DEF Claim, Takes
        <3>3. Locked'
            BY <3>2
        <3>4. OneRunner'
            BY <3>1, <3>2
        <3> QED
            BY <3>3, <3>4
    <2>2. CASE UNCHANGED <<table, cur, pc>>
        BY <1>9, <2>2 DEF Claim
    <2> QED
        BY <1>9, <2>1, <2>2 DEF Claim, Unclaimed, Takes
<1>10. ASSUME NEW w \in Worker, Load(w) PROVE Exclusive'
    BY <1>10 DEF Load
<1>11. ASSUME NEW w \in Worker, Post(w) PROVE Exclusive'
    BY <1>11 DEF Post
<1>12. ASSUME NEW w \in Worker, Record(w) PROVE Exclusive'
    BY <1>12 DEF Record
<1>13. ASSUME NEW w \in Worker, Finish(w) PROVE Exclusive'
    <2>1. cur[w] \in Job /\ pc[w] = "finish"
        BY <1>13 DEF Finish
    <2>2. \A v \in Worker : v # w => cur'[v] = cur[v] /\ pc'[v] = pc[v]
        BY <1>13 DEF Finish
    <2>3. \/ cur'[w] = NoJob
          \/ /\ cur'[w] = cur[w] /\ pc'[w] = "bury"
             /\ UNCHANGED status \/ status' = [status EXCEPT ![cur[w]] =
                                       IF @ = "absent" THEN "absent" ELSE "failed"]
        BY <1>13 DEF Finish
    <2>4. \A j \in Job : j # cur[w] => status'[j] = status[j]
        BY <1>13, <2>1 DEF Finish
    <2>5. UNCHANGED <<expired, late>>
        BY <1>13 DEF Finish
    <2>6. OneRunner'
        BY <2>2, <2>3, <2>5
    <2>7. Locked'
        <3> SUFFICES ASSUME NEW v \in Worker, NEW j \in Job, cur'[v] = j, ~late'[j]
                     PROVE  \/ status'[j] = "running" /\ ~expired'[j]
                            \/ pc'[v] = "bury" /\ status'[j] \in {"failed", "absent"}
            OBVIOUS
        <3>1. cur[v] = j
            BY <2>2, <2>3
        <3>2. CASE v # w
            BY <3>1, <3>2, <2>1, <2>2, <2>4, <2>5
        <3>3. CASE v = w
            BY <3>1, <3>3, <2>1, <2>3, <2>5
        <3> QED
            BY <3>2, <3>3
    <2> QED
        BY <2>6, <2>7
<1>14. ASSUME NEW w \in Worker, MarkDeliveryFailed(w) PROVE Exclusive'
    BY <1>14 DEF MarkDeliveryFailed
<1>15. ASSUME NEW w \in Worker, Crash(w) PROVE Exclusive'
    BY <1>15 DEF Crash
<1> QED
    BY <1>1, <1>2, <1>3, <1>4, <1>5, <1>6, <1>7, <1>8, <1>9, <1>10, <1>11, <1>12,
       <1>13, <1>14, <1>15 DEF Next, PollStep

-----------------------------------------------------------------------------
(* Done means delivered.                                                   *)

\* Success is reported after a 2xx answer or for a delivery that is gone, and a
\* delivery that is gone does not come back.
LEMMA DeliveredStep == TypeOK /\ InHand /\ Delivered /\ [Next]_vars => Delivered'
<1> SUFFICES ASSUME TypeOK, InHand, Delivered, [Next]_vars PROVE Delivered'
    OBVIOUS
<1> USE JobAssumption
    DEF TypeOK, InHand, Delivered, DoneMeansDelivered, Settled, table, log, poll
<1>1. CASE UNCHANGED vars
    BY <1>1 DEF vars
<1>2. ASSUME NEW j \in Job, Enqueue(j) PROVE Delivered'
    BY <1>2 DEF Enqueue
<1>3. ASSUME NEW j \in Job, DeleteWebhook(j) PROVE Delivered'
    BY <1>3 DEF DeleteWebhook
<1>4. ASSUME NEW j \in Job, Due(j) PROVE Delivered'
    BY <1>4 DEF Due
<1>5. ASSUME NEW j \in Job, LockExpires(j) PROVE Delivered'
    BY <1>5 DEF LockExpires
<1>6. ASSUME NEW w \in Worker, Sweep(w) PROVE Delivered'
    BY <1>6 DEF Sweep, Touched, Retried, Exhausted, Stuck, FinishedJobs, FinishedDeliveries
<1>7. ASSUME NEW w \in Worker, Select(w) PROVE Delivered'
    BY <1>7 DEF Select
<1>8. ASSUME NEW w \in Worker, EndPoll(w) PROVE Delivered'
    BY <1>8 DEF EndPoll
<1>9. ASSUME NEW w \in Worker, NEW j \in Job, Claim(w, j) PROVE Delivered'
    BY <1>9 DEF Claim
<1>10. ASSUME NEW w \in Worker, Load(w) PROVE Delivered'
    BY <1>10 DEF Load
<1>11. ASSUME NEW w \in Worker, Post(w) PROVE Delivered'
    <2>1. cur[w] \in Job
        BY <1>11 DEF Post
    <2>2. CASE accepted' = [accepted EXCEPT ![cur[w]] = TRUE]
        BY <1>11, <2>1, <2>2 DEF Post
    <2>3. CASE outcome' = [outcome EXCEPT ![w] = "error"] /\ UNCHANGED accepted
        BY <1>11, <2>1, <2>3 DEF Post
    <2> QED
        BY <1>11, <2>2, <2>3 DEF Post
<1>12. ASSUME NEW w \in Worker, Record(w) PROVE Delivered'
    BY <1>12 DEF Record
<1>13. ASSUME NEW w \in Worker, Finish(w) PROVE Delivered'
    BY <1>13 DEF Finish
<1>14. ASSUME NEW w \in Worker, MarkDeliveryFailed(w) PROVE Delivered'
    BY <1>14 DEF MarkDeliveryFailed
<1>15. ASSUME NEW w \in Worker, Crash(w) PROVE Delivered'
    BY <1>15 DEF Crash
<1> QED
    BY <1>1, <1>2, <1>3, <1>4, <1>5, <1>6, <1>7, <1>8, <1>9, <1>10, <1>11, <1>12,
       <1>13, <1>14, <1>15 DEF Next, PollStep

-----------------------------------------------------------------------------
(* Attempts.                                                               *)

\* Fewer workers are fewer in number.
LEMMA Fewer ==
    ASSUME NEW S \in SUBSET Worker, NEW T \in SUBSET S
    PROVE  /\ Cardinality(S) \in Nat /\ Cardinality(T) \in Nat
           /\ Cardinality(T) <= Cardinality(S)
           /\ T # S => Cardinality(T) < Cardinality(S)
<1>1. IsFiniteSet(S)
    BY QueueAssumption, FS_Subset
<1>2. IsFiniteSet(T) /\ Cardinality(T) <= Cardinality(S)
        /\ (Cardinality(S) = Cardinality(T) => S = T)
    BY <1>1, FS_Subset
<1>3. Cardinality(S) \in Nat /\ Cardinality(T) \in Nat
    BY <1>1, <1>2, FS_CardinalityType
<1> QED
    BY <1>2, <1>3

\* A step that counts no attempt keeps the credit if it adds no low worker once
\* the limit is near, and makes the job pending only before the limit, or at
\* the expense of a low worker.
LEMMA CountedFrame ==
    ASSUME TypeOK, TypeOK', Counted, NEW j \in Job, attempts'[j] = attempts[j],
           attempts[j] + 1 >= MaxAttempts => Low(j)' \subseteq Low(j),
           status'[j] = "pending" =>
              \/ status[j] = "pending"
              \/ /\ attempts[j] < MaxAttempts
                 /\ attempts[j] + 1 = MaxAttempts => Low(j)' # Worker \/ Worker = {}
              \/ Low(j)' # Low(j)
    PROVE  CountedAt(j)'
<1> DEFINE L == Low(j)
           M == Low(j)'
<1>1. L \in SUBSET Worker /\ M \in SUBSET Worker
    BY DEF Low
<1>2. attempts[j] \in Nat /\ MaxAttempts \in Nat \ {0} /\ CountedAt(j)
    BY QueueAssumption DEF TypeOK, Counted
<1>3. ASSUME attempts[j] + 1 = MaxAttempts, status'[j] = "pending"
      PROVE  M # Worker \/ Worker = {}
    <2>1. M \subseteq L
        BY <1>2, <1>3
    <2> QED
        BY <1>1, <1>2, <1>3, <2>1 DEF CountedAt
<1>4. ASSUME attempts[j] >= MaxAttempts
      PROVE  attempts[j] + Credit(j)' < MaxAttempts + Cardinality(Worker)
    <2>1. M \subseteq L
        BY <1>2, <1>4
    <2>2. /\ Cardinality(L) \in Nat /\ Cardinality(M) \in Nat
          /\ Cardinality(M) <= Cardinality(L)
          /\ M # L => Cardinality(M) < Cardinality(L)
        BY <1>1, <2>1, Fewer
    <2>3. Cardinality(Worker) \in Nat
        BY Fewer
    <2>4. attempts[j] + Cardinality(L) + (IF status[j] = "pending" THEN 1 ELSE 0)
            < MaxAttempts + Cardinality(Worker)
        BY <1>2, <1>4, <2>2 DEF CountedAt, Credit
    <2>5. attempts[j] + Cardinality(M) + (IF status'[j] = "pending" THEN 1 ELSE 0)
            < MaxAttempts + Cardinality(Worker)
        BY <1>2, <1>4, <2>2, <2>3, <2>4
    <2> QED
        BY <1>2, <2>2, <2>5 DEF Credit
<1> QED
    BY <1>3, <1>4 DEF CountedAt

\* A claim spends what it takes to count the attempt.
LEMMA CountedTake ==
    ASSUME TypeOK, Counted, NEW w \in Worker, NEW j \in Job,
           status[j] = "pending", status'[j] = "running", attempts'[j] = attempts[j] + 1,
           Low(j)' \subseteq Low(j)
    PROVE  CountedAt(j)'
<1> DEFINE L == Low(j)
           M == Low(j)'
<1>1. L \in SUBSET Worker /\ M \in SUBSET Worker
    BY DEF Low
<1>2. attempts[j] \in Nat /\ MaxAttempts \in Nat \ {0} /\ CountedAt(j)
    BY QueueAssumption DEF TypeOK, Counted
<1>3. /\ Cardinality(L) \in Nat /\ Cardinality(M) \in Nat /\ Cardinality(Worker) \in Nat
      /\ Cardinality(M) <= Cardinality(L)
      /\ L # Worker => Cardinality(L) < Cardinality(Worker)
    BY <1>1, Fewer
<1>4. attempts[j] >= MaxAttempts =>
         attempts[j] + Cardinality(L) + 1 < MaxAttempts + Cardinality(Worker)
    BY <1>2, <1>3 DEF CountedAt, Credit
<1>5. attempts[j] + 1 >= MaxAttempts =>
         attempts[j] + 1 + Cardinality(M) < MaxAttempts + Cardinality(Worker)
    BY <1>2, <1>3, <1>4 DEF CountedAt
<1>6. Credit(j)' = Cardinality(M)
    BY <1>3 DEF Credit
<1> QED
    BY <1>2, <1>5, <1>6 DEF CountedAt

\* A job is made pending by the reaper, while attempts are left, or by a worker
\* that has read too low a count, who is then low no more.
LEMMA CountedStep == TypeOK /\ TypeOK' /\ InHand /\ Counted /\ [Next]_vars => Counted'
<1> SUFFICES ASSUME TypeOK, TypeOK', InHand, Counted, [Next]_vars PROVE Counted'
    OBVIOUS
<1> USE QueueAssumption, JobAssumption DEF TypeOK, InHand, Low, table, log, poll
<1>1. CASE UNCHANGED vars
    <2> SUFFICES ASSUME NEW k \in Job PROVE CountedAt(k)'
        BY DEF Counted
    <2>1. attempts'[k] = attempts[k] /\ status'[k] = status[k] /\ Low(k)' = Low(k)
        BY <1>1 DEF vars
    <2> QED
        BY <2>1, CountedFrame
<1>2. ASSUME NEW j \in Job, Enqueue(j) PROVE Counted'
    <2> SUFFICES ASSUME NEW k \in Job PROVE CountedAt(k)'
        BY DEF Counted
    <2>1. /\ attempts'[k] = attempts[k] /\ Low(k)' = Low(k)
          /\ status'[k] = status[k] \/ attempts[k] = 0
        BY <1>2 DEF Enqueue
    <2>2. CASE status'[k] = status[k]
        BY <2>1, <2>2, CountedFrame
    <2>3. CASE attempts[k] = 0
        <3>1. attempts[k] + 1 = MaxAttempts => Low(k)' = {}
            BY <1>2, <2>3 DEF Enqueue
        <3>2. attempts[k] < MaxAttempts
            BY <2>3
        <3> QED
            BY <2>1, <3>1, <3>2, CountedFrame
    <2> QED
        BY <2>1, <2>2, <2>3
<1>3. ASSUME NEW j \in Job, DeleteWebhook(j) PROVE Counted'
    <2> SUFFICES ASSUME NEW k \in Job PROVE CountedAt(k)'
        BY DEF Counted
    <2>1. attempts'[k] = attempts[k] /\ (status'[k] = "pending" => status[k] = "pending")
        BY <1>3 DEF DeleteWebhook
    <2>2. Low(k)' \subseteq Low(k)
        BY <1>3 DEF DeleteWebhook
    <2> QED
        BY <2>1, <2>2, CountedFrame
<1>4. ASSUME NEW j \in Job, Due(j) PROVE Counted'
    <2> SUFFICES ASSUME NEW k \in Job PROVE CountedAt(k)'
        BY DEF Counted
    <2>1. attempts'[k] = attempts[k] /\ (status'[k] = "pending" => status[k] = "pending")
        BY <1>4 DEF Due
    <2>2. Low(k)' \subseteq Low(k)
        BY <1>4 DEF Due
    <2> QED
        BY <2>1, <2>2, CountedFrame
<1>5. ASSUME NEW j \in Job, LockExpires(j) PROVE Counted'
    <2> SUFFICES ASSUME NEW k \in Job PROVE CountedAt(k)'
        BY DEF Counted
    <2>1. attempts'[k] = attempts[k] /\ (status'[k] = "pending" => status[k] = "pending")
        BY <1>5 DEF LockExpires
    <2>2. Low(k)' \subseteq Low(k)
        BY <1>5 DEF LockExpires
    <2> QED
        BY <2>1, <2>2, CountedFrame
<1>6. ASSUME NEW w \in Worker, Sweep(w) PROVE Counted'
    <2> SUFFICES ASSUME NEW k \in Job PROVE CountedAt(k)'
        BY DEF Counted
    <2>1. /\ attempts'[k] = attempts[k]
          /\ status'[k] = "pending" => status[k] = "pending" \/ attempts[k] < MaxAttempts
        BY <1>6 DEF Sweep, Retried
    <2>2. Low(k)' = Low(k) /\ w \notin Low(k)
        BY <1>6 DEF Sweep
    <2> QED
        BY <2>1, <2>2, CountedFrame
<1>7. ASSUME NEW w \in Worker, Select(w) PROVE Counted'
    <2> SUFFICES ASSUME NEW k \in Job PROVE CountedAt(k)'
        BY DEF Counted
    <2>1. attempts'[k] = attempts[k] /\ status'[k] = status[k]
        BY <1>7 DEF Select
    <2>2. attempts[k] + 1 >= MaxAttempts => Low(k)' \subseteq Low(k)
        <3>1. /\ read'[w][k] = attempts[k]
              /\ \A v \in Worker : v # w => read'[v] = read[v] /\ batch'[v] = batch[v]
              /\ cur' = cur
            <4>1. read' = [read EXCEPT ![w] = attempts] /\ cur' = cur
                BY <1>7 DEF Select
            <4>2. \A v \in Worker : v # w => batch'[v] = batch[v]
                BY <1>7 DEF Select
            <4> QED
                BY <4>1, <4>2
        <3> SUFFICES ASSUME attempts[k] + 1 >= MaxAttempts, NEW v \in Low(k)'
                     PROVE  v \in Low(k)
            OBVIOUS
        <3>2. v # w
            <4>1. attempts[k] \in Nat /\ MaxAttempts \in Nat
                OBVIOUS
            <4> QED
                BY <3>1, <4>1
        <3> QED
            BY <3>1, <3>2
    <2> QED
        BY <2>1, <2>2, CountedFrame
<1>8. ASSUME NEW w \in Worker, EndPoll(w) PROVE Counted'
    <2> SUFFICES ASSUME NEW k \in Job PROVE CountedAt(k)'
        BY DEF Counted
    <2>1. attempts'[k] = attempts[k] /\ (status'[k] = "pending" => status[k] = "pending")
        BY <1>8 DEF EndPoll
    <2>2. Low(k)' \subseteq Low(k)
        BY <1>8 DEF EndPoll
    <2> QED
        BY <2>1, <2>2, CountedFrame
<1>9. ASSUME NEW w \in Worker, NEW j \in Job, Claim(w, j) PROVE Counted'
    <2> SUFFICES ASSUME NEW k \in Job PROVE CountedAt(k)'
        BY DEF Counted
    <2>1. Low(k)' \subseteq Low(k)
        BY <1>9 DEF Claim
    <2>2. CASE Takes(w, j) /\ k = j
        BY <1>9, <2>1, <2>2, CountedTake DEF Takes
    <2>3. CASE Takes(w, j) /\ k # j
        BY <1>9, <2>1, <2>3, CountedFrame DEF Takes
    <2>4. CASE UNCHANGED <<table, cur, pc>>
        BY <2>1, <2>4, CountedFrame
    <2> QED
        BY <1>9, <2>2, <2>3, <2>4 DEF Claim, Unclaimed, Takes
<1>10. ASSUME NEW w \in Worker, Load(w) PROVE Counted'
    <2> SUFFICES ASSUME NEW k \in Job PROVE CountedAt(k)'
        BY DEF Counted
    <2>1. attempts'[k] = attempts[k] /\ (status'[k] = "pending" => status[k] = "pending")
        BY <1>10 DEF Load
    <2>2. Low(k)' \subseteq Low(k)
        BY <1>10 DEF Load
    <2> QED
        BY <2>1, <2>2, CountedFrame
<1>11. ASSUME NEW w \in Worker, Post(w) PROVE Counted'
    <2> SUFFICES ASSUME NEW k \in Job PROVE CountedAt(k)'
        BY DEF Counted
    <2>1. attempts'[k] = attempts[k] /\ (status'[k] = "pending" => status[k] = "pending")
        BY <1>11 DEF Post
    <2>2. Low(k)' \subseteq Low(k)
        BY <1>11 DEF Post
    <2> QED
        BY <2>1, <2>2, CountedFrame
<1>12. ASSUME NEW w \in Worker, Record(w) PROVE Counted'
    <2> SUFFICES ASSUME NEW k \in Job PROVE CountedAt(k)'
        BY DEF Counted
    <2>1. attempts'[k] = attempts[k] /\ (status'[k] = "pending" => status[k] = "pending")
        BY <1>12 DEF Record
    <2>2. Low(k)' \subseteq Low(k)
        BY <1>12 DEF Record
    <2> QED
        BY <2>1, <2>2, CountedFrame
<1>13. ASSUME NEW w \in Worker, Finish(w) PROVE Counted'
    <2> SUFFICES ASSUME NEW k \in Job PROVE CountedAt(k)'
        BY DEF Counted
    <2>1. cur[w] \in Job
        BY <1>13 DEF Finish
    <2>2. attempts'[k] = attempts[k] /\ Low(k)' \subseteq Low(k)
        BY <1>13 DEF Finish
    <2>3. CASE status'[k] = "pending" /\ status[k] # "pending"
        <3>1. k = cur[w] /\ outcome[w] # "ok" /\ ~LastAttempt(w)
            BY <1>13, <2>1, <2>3 DEF Finish
        <3>2. w \in Low(k)
            BY <3>1 DEF LastAttempt
        <3>3. w \notin Low(k)'
            BY <1>13, <3>1 DEF Finish
        <3> QED
            BY <2>2, <3>2, <3>3, CountedFrame
    <2>4. CASE ~(status'[k] = "pending" /\ status[k] # "pending")
        BY <2>2, <2>4, CountedFrame
    <2> QED
        BY <2>3, <2>4
<1>14. ASSUME NEW w \in Worker, MarkDeliveryFailed(w) PROVE Counted'
    <2> SUFFICES ASSUME NEW k \in Job PROVE CountedAt(k)'
        BY DEF Counted
    <2>1. attempts'[k] = attempts[k] /\ (status'[k] = "pending" => status[k] = "pending")
        BY <1>14 DEF MarkDeliveryFailed
    <2>2. Low(k)' \subseteq Low(k)
        BY <1>14 DEF MarkDeliveryFailed
    <2> QED
        BY <2>1, <2>2, CountedFrame
<1>15. ASSUME NEW w \in Worker, Crash(w) PROVE Counted'
    <2> SUFFICES ASSUME NEW k \in Job PROVE CountedAt(k)'
        BY DEF Counted
    <2>1. attempts'[k] = attempts[k] /\ (status'[k] = "pending" => status[k] = "pending")
        BY <1>15 DEF Crash
    <2>2. Low(k)' \subseteq Low(k)
        BY <1>15 DEF Crash
    <2> QED
        BY <2>1, <2>2, CountedFrame
<1> QED
    BY <1>1, <1>2, <1>3, <1>4, <1>5, <1>6, <1>7, <1>8, <1>9, <1>10, <1>11, <1>12,
       <1>13, <1>14, <1>15 DEF Next, PollStep

-----------------------------------------------------------------------------
(* The theorems.                                                           *)

\* The parts of the invariant hold together.
LEMMA Invariance ==
    Spec => [](TypeOK /\ InHand /\ Exclusive /\ Delivered /\ Counted)
<1>1. Init => TypeOK /\ InHand /\ Exclusive /\ Delivered /\ Counted
    <2> SUFFICES ASSUME Init PROVE TypeOK /\ InHand /\ Exclusive /\ Delivered /\ Counted
        OBVIOUS
    <2>1. TypeOK
        BY QueueAssumption, JobAssumption DEF Init, TypeOK
    <2>2. InHand /\ Exclusive /\ Delivered
        BY JobAssumption DEF Init, InHand, Exclusive, Locked, OneRunner, Processing,
                             Delivered, DoneMeansDelivered
    <2>3. Counted
        BY QueueAssumption DEF Init, Counted, CountedAt
    <2> QED
        BY <2>1, <2>2, <2>3
<1> QED
    BY <1>1, TypeStep, InHandStep, ExclusiveStep, DeliveredStep, CountedStep, PTL DEF Spec

\* A job is processed by one worker at a time, as long as processing ends within
\* the lock.
THEOREM NeverTwoRunners == Spec => []OneRunner
<1>1. Exclusive => OneRunner
    BY DEF Exclusive
<1> QED
    BY <1>1, Invariance, PTL

\* A job is reported as done only if its delivery was accepted, or is gone.
THEOREM DoneIsDelivered == Spec => []DoneMeansDelivered
<1>1. Delivered => DoneMeansDelivered
    BY DEF Delivered
<1> QED
    BY <1>1, Invariance, PTL

\* Whatever crashes and however slow the endpoints are, a job runs at most
\* max_attempts times, and once more for every further worker.
THEOREM RunsAreBounded == Spec => []AttemptsBounded
<1>1. TypeOK /\ Counted => AttemptsBounded
    <2> SUFFICES ASSUME TypeOK, Counted, NEW j \in Job
                 PROVE  attempts[j] < MaxAttempts + Cardinality(Worker)
        BY DEF AttemptsBounded
    <2>1. attempts[j] \in Nat /\ MaxAttempts \in Nat /\ Cardinality(Worker) \in Nat
        BY QueueAssumption, Fewer DEF TypeOK
    <2>2. Credit(j) \in Nat
        <3>1. Low(j) \in SUBSET Worker
            BY DEF Low
        <3> QED
            BY <3>1, Fewer DEF Credit
    <2> QED
        BY <2>1, <2>2 DEF Counted, CountedAt
<1> QED
    BY <1>1, Invariance, PTL
=============================================================================
