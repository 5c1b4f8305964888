------------------------------ MODULE JobQueue ------------------------------
(***************************************************************************)
(* The jobs table and the worker that drains it, for webhook deliveries    *)
(* (internal/worker/worker.go; Enqueue and Delete of                       *)
(* internal/webhook/webhook.go).                                           *)
(*                                                                         *)
(* One worker runs per server process; a second one is the process of an   *)
(* overlapping deployment on the same database.  Every statement of a poll *)
(* is one step.  Time is abstract: a job becomes due, a lock expires and a *)
(* finished row passes its retention at any moment the code's durations    *)
(* allow.  A delivery and its job are inserted together, so one name       *)
(* stands for both.                                                        *)
(***************************************************************************)
EXTENDS Naturals, FiniteSets

CONSTANTS
    Job,          \* webhook.deliver jobs, each with its delivery
    Worker,       \* worker processes
    MaxAttempts,  \* jobs.max_attempts
    MaxFaults,    \* bound on the number of crashes and failed statements
    Faults        \* what may go wrong in this instance

Fault ==
    {"crash",    \* a worker process stops and is started again
     "dbError",  \* a statement of the worker fails
     "slow"}     \* processing outlasts the 30-second lock

ASSUME QueueAssumption ==
    /\ MaxAttempts \in Nat \ {0}
    /\ MaxFaults \in Nat
    /\ Faults \subseteq Fault
    /\ IsFiniteSet(Worker)

NoJob == "no job"

ASSUME JobAssumption == NoJob \notin Job

VARIABLES
    status,     \* jobs.status, "absent" before the insert and after the purge
    attempts,   \* jobs.attempts
    due,        \* is run_at in the past?
    expired,    \* is locked_until in the past?
    delivery,   \* webhook_deliveries.status, "absent" likewise
    attempted,  \* is last_attempted_at set?
    accepted,   \* has the endpoint answered a POST of this delivery with 2xx?
    pc,         \* each worker's progress through Poll
    batch,      \* the jobs it selected and has not tried yet
    read,       \* attempts of each selected job, as the SELECT saw it
    cur,        \* the job it is processing
    outcome,    \* what processJob returns
    late,       \* has processing ever outlasted the lock?
    faults      \* how many crashes and failed statements there were

table == <<status, attempts, due, expired>>
log == <<delivery, attempted, accepted>>
poll == <<pc, batch, read, cur, outcome>>
vars == <<table, log, poll, late, faults>>

Live(j) == status[j] \in {"pending", "running"}

Processing(w, j) == cur[w] = j

\* Something goes wrong, while the bound allows it; or it does not.
Fails(fault) == fault \in Faults /\ faults < MaxFaults /\ faults' = faults + 1

Works == UNCHANGED faults

-----------------------------------------------------------------------------
Init ==
    /\ status    = [j \in Job |-> "absent"]
    /\ attempts  = [j \in Job |-> 0]
    /\ due       = [j \in Job |-> FALSE]
    /\ expired   = [j \in Job |-> FALSE]
    /\ delivery  = [j \in Job |-> "absent"]
    /\ attempted = [j \in Job |-> FALSE]
    /\ accepted  = [j \in Job |-> FALSE]
    /\ pc        = [w \in Worker |-> "idle"]
    /\ batch     = [w \in Worker |-> {}]
    /\ read      = [w \in Worker |-> [j \in Job |-> 0]]
    /\ cur       = [w \in Worker |-> NoJob]
    /\ outcome   = [w \in Worker |-> "none"]
    /\ late      = [j \in Job |-> FALSE]
    /\ faults    = 0

\* Service.Enqueue: the delivery and its job in one transaction.  An id is
\* used once.
Enqueue(j) ==
    /\ status[j] = "absent" /\ attempts[j] = 0
    /\ status' = [status EXCEPT ![j] = "pending"]
    /\ due' = [due EXCEPT ![j] = TRUE]
    /\ delivery' = [delivery EXCEPT ![j] = "pending"]
    /\ UNCHANGED <<attempts, expired, attempted, accepted, poll, late, faults>>

\* Service.Delete: the webhook's deliveries cascade, its jobs stay.
DeleteWebhook(j) ==
    /\ delivery[j] # "absent"
    /\ delivery' = [delivery EXCEPT ![j] = "absent"]
    /\ UNCHANGED <<table, attempted, accepted, poll, late, faults>>

\* run_at passes.
Due(j) ==
    /\ status[j] = "pending" /\ ~due[j]
    /\ due' = [due EXCEPT ![j] = TRUE]
    /\ UNCHANGED <<status, attempts, expired, log, poll, late, faults>>

\* locked_until passes: the worker that held the lock is gone, or slow.
LockExpires(j) ==
    /\ status[j] = "running" /\ ~expired[j]
    /\ expired' = [expired EXCEPT ![j] = TRUE]
    /\ IF \E w \in Worker : Processing(w, j)
       THEN "slow" \in Faults /\ late' = [late EXCEPT ![j] = TRUE]
       ELSE UNCHANGED late
    /\ UNCHANGED <<status, attempts, due, log, poll, faults>>

-----------------------------------------------------------------------------
(* Worker.Poll.                                                            *)

\* The rows each purge may take, for some of them have passed the retention.
FinishedDeliveries ==
    {j \in Job : delivery[j] \in {"success", "failed"} /\ attempted[j]}

FinishedJobs == {j \in Job : status[j] \in {"done", "failed"}}

\* Running jobs whose lock has expired.
Stuck == {j \in Job : status[j] = "running" /\ expired[j]}

\* Slip: the reaper retries without looking at the attempts.
RetriedAlways == Stuck

\* Slip: the reaper's first statement matches no row.
RetriedNever == {}

\* The reaper's two statements: a stuck job is retried while attempts are left,
\* and failed otherwise.
Retried == {j \in Stuck : attempts[j] < MaxAttempts}

Exhausted == {j \in Stuck : attempts[j] >= MaxAttempts}

\* The rows the reaper's statements touch: what they match, or nothing on an
\* error, which is logged.
Touched(again, over) ==
    \/ Works /\ again = Retried /\ over = Exhausted
    \/ Fails("dbError") /\ again \in {Retried, {}} /\ over \in {Exhausted, {}}

\* Poll's purges and its reaper.
Sweep(w) ==
    /\ pc[w] = "idle"
    /\ pc' = [pc EXCEPT ![w] = "swept"]
    /\ \E old \in SUBSET FinishedDeliveries :
          delivery' = [j \in Job |-> IF j \in old THEN "absent" ELSE delivery[j]]
    /\ \E old \in SUBSET FinishedJobs, again \in {Retried, {}}, over \in {Exhausted, {}} :
          /\ Touched(again, over)
          /\ status' = [j \in Job |-> IF j \in old THEN "absent"
                                     ELSE IF j \in again THEN "pending"
                                     ELSE IF j \in over THEN "failed"
                                     ELSE status[j]]
          /\ due' = [j \in Job |-> due[j] /\ j \notin again]
    /\ UNCHANGED <<attempts, expired, attempted, accepted, batch, read, cur, outcome, late>>

\* Poll's SELECT: pending jobs that are due, with their attempts; an error ends
\* the poll, with nothing selected.
Select(w) ==
    /\ pc[w] = "swept"
    /\ pc' = [pc EXCEPT ![w] = "batch"]
    /\ \/ Works /\ batch' = [batch EXCEPT ![w] = {j \in Job : status[j] = "pending" /\ due[j]}]
       \/ Fails("dbError") /\ UNCHANGED batch
    /\ read' = [read EXCEPT ![w] = attempts]
    /\ UNCHANGED <<table, log, cur, outcome, late>>

\* Slip: the claim does not ask whether the job is still pending.
Claimable(j) == status[j] # "absent"

\* The claim's WHERE clause.
Unclaimed(j) == status[j] = "pending"

\* The claim of the next job of the batch, which another worker may have taken
\* since the SELECT; an error passes it over.
Claim(w, j) ==
    /\ pc[w] = "batch"
    /\ j \in batch[w]
    /\ batch' = [batch EXCEPT ![w] = @ \ {j}]
    /\ \/ /\ Works
          /\ Unclaimed(j)
          /\ status' = [status EXCEPT ![j] = "running"]
          /\ attempts' = [attempts EXCEPT ![j] = @ + 1]
          /\ due' = [due EXCEPT ![j] = FALSE]
          /\ expired' = [expired EXCEPT ![j] = FALSE]
          /\ cur' = [cur EXCEPT ![w] = j]
          /\ pc' = [pc EXCEPT ![w] = "load"]
       \/ /\ (Works /\ ~Unclaimed(j)) \/ Fails("dbError")
          /\ UNCHANGED <<table, cur, pc>>
    /\ UNCHANGED <<log, read, outcome, late>>

\* The batch is done.
EndPoll(w) ==
    /\ pc[w] = "batch" /\ batch[w] = {}
    /\ pc' = [pc EXCEPT ![w] = "idle"]
    /\ UNCHANGED <<table, log, batch, read, cur, outcome, late, faults>>

(* deliverWebhook.                                                         *)

\* It loads the delivery with its webhook: a deleted one is skipped silently,
\* a failing query or an unreadable secret is an error.
Load(w) ==
    /\ pc[w] = "load"
    /\ \/ /\ Works /\ delivery[cur[w]] = "absent"
          /\ outcome' = [outcome EXCEPT ![w] = "ok"]
          /\ pc' = [pc EXCEPT ![w] = "finish"]
       \/ /\ Fails("dbError")
          /\ outcome' = [outcome EXCEPT ![w] = "error"]
          /\ pc' = [pc EXCEPT ![w] = "finish"]
       \/ /\ Works /\ delivery[cur[w]] # "absent"
          /\ pc' = [pc EXCEPT ![w] = "post"]
          /\ UNCHANGED outcome
    /\ UNCHANGED <<table, log, batch, read, cur, late>>

\* The POST: the endpoint answers 2xx, or it answers otherwise, or nothing
\* arrives back (whatever the endpoint made of it).
Post(w) ==
    /\ pc[w] = "post"
    /\ pc' = [pc EXCEPT ![w] = "record"]
    /\ \/ /\ outcome' = [outcome EXCEPT ![w] = "ok"]
          /\ accepted' = [accepted EXCEPT ![cur[w]] = TRUE]
       \/ /\ outcome' = [outcome EXCEPT ![w] = "error"]
          /\ UNCHANGED accepted
    /\ UNCHANGED <<table, delivery, attempted, batch, read, cur, late, faults>>

\* Slip: the delivery takes a status outside the column's CHECK list.
RecordOutcome(w) ==
    /\ pc[w] = "record"
    /\ pc' = [pc EXCEPT ![w] = "finish"]
    /\ delivery' = [delivery EXCEPT ![cur[w]] = outcome[w]]
    /\ attempted' = [attempted EXCEPT ![cur[w]] = TRUE]
    /\ UNCHANGED <<table, accepted, batch, read, cur, outcome, late, faults>>

\* The UPDATE of the delivery, if it still exists and no error hits it; a
\* failed attempt is 'pending' again.
Record(w) ==
    /\ pc[w] = "record"
    /\ pc' = [pc EXCEPT ![w] = "finish"]
    /\ \/ /\ Works /\ delivery[cur[w]] # "absent"
          /\ delivery' = [delivery EXCEPT ![cur[w]] =
                             IF outcome[w] = "ok" THEN "success" ELSE "pending"]
          /\ attempted' = [attempted EXCEPT ![cur[w]] = TRUE]
       \/ /\ (Works /\ delivery[cur[w]] = "absent") \/ Fails("dbError")
          /\ UNCHANGED <<delivery, attempted>>
    /\ UNCHANGED <<table, accepted, batch, read, cur, outcome, late>>

(* What Poll does with the result.                                         *)

\* Is this the last attempt, by the count the worker read and incremented?
LastAttempt(w) == read[w][cur[w]] + 1 >= MaxAttempts

\* Slip: every result of processJob ends the job as done.
FinishIgnoringErrors(w) ==
    /\ pc[w] = "finish"
    /\ pc' = [pc EXCEPT ![w] = "batch"]
    /\ cur' = [cur EXCEPT ![w] = NoJob]
    /\ status' = [status EXCEPT ![cur[w]] = IF @ = "running" THEN "done" ELSE @]
    /\ UNCHANGED <<attempts, due, expired, log, batch, read, outcome, late, faults>>

\* Success is recorded if the job is still running.  A failure is recorded
\* whatever the row says by now: requeued with a delay, or failed on the last
\* attempt, and then its delivery is failed too.
Finish(w) ==
    LET j == cur[w]
        next == IF outcome[w] = "ok" THEN IF status[j] = "running" THEN "done" ELSE status[j]
                ELSE IF status[j] = "absent" THEN "absent"
                ELSE IF LastAttempt(w) THEN "failed"
                ELSE "pending"
    IN  /\ pc[w] = "finish"
        /\ \/ /\ Works
              /\ status' = [status EXCEPT ![j] = next]
              /\ due' = [due EXCEPT ![j] = @ /\ outcome[w] = "ok"]
           \/ Fails("dbError") /\ UNCHANGED <<status, due>>
        /\ IF outcome[w] = "error" /\ LastAttempt(w)
           THEN pc' = [pc EXCEPT ![w] = "bury"] /\ UNCHANGED cur
           ELSE /\ pc' = [pc EXCEPT ![w] = "batch"]
                /\ cur' = [cur EXCEPT ![w] = NoJob]
        /\ UNCHANGED <<attempts, expired, log, batch, read, outcome, late>>

\* markDeliveryFailed; a delivery that succeeded stays so.
MarkDeliveryFailed(w) ==
    /\ pc[w] = "bury"
    /\ pc' = [pc EXCEPT ![w] = "batch"]
    /\ cur' = [cur EXCEPT ![w] = NoJob]
    /\ \/ Works /\ delivery' = [delivery EXCEPT ![cur[w]] = IF @ = "pending" THEN "failed" ELSE @]
       \/ Fails("dbError") /\ UNCHANGED delivery
    /\ UNCHANGED <<table, attempted, accepted, batch, read, outcome, late>>

\* The worker's process stops in the middle of a poll; a new one starts idle.
Crash(w) ==
    /\ Fails("crash")
    /\ pc[w] # "idle"
    /\ pc' = [pc EXCEPT ![w] = "idle"]
    /\ batch' = [batch EXCEPT ![w] = {}]
    /\ cur' = [cur EXCEPT ![w] = NoJob]
    /\ UNCHANGED <<table, log, read, outcome, late>>

PollStep(w) ==
    \/ Sweep(w) \/ Select(w) \/ EndPoll(w)
    \/ \E j \in Job : Claim(w, j)
    \/ Load(w) \/ Post(w) \/ Record(w)
    \/ Finish(w) \/ MarkDeliveryFailed(w)

Next ==
    \/ \E j \in Job : Enqueue(j) \/ DeleteWebhook(j) \/ Due(j) \/ LockExpires(j)
    \/ \E w \in Worker : PollStep(w) \/ Crash(w)

\* A worker polls every 5 seconds and finishes its poll, and time passes.
Fairness ==
    /\ \A w \in Worker : WF_vars(PollStep(w))
    /\ \A j \in Job : WF_vars(Due(j)) /\ WF_vars(LockExpires(j))

Spec == Init /\ [][Next]_vars /\ Fairness

-----------------------------------------------------------------------------
(* Properties.                                                             *)

\* The two tables and each worker's place in its poll have their types, and a
\* worker holds a job exactly while it processes one.
TypeOK ==
    /\ status \in [Job -> {"absent", "pending", "running", "done", "failed"}]
    /\ attempts \in [Job -> Nat]
    /\ due \in [Job -> BOOLEAN] /\ expired \in [Job -> BOOLEAN]
    /\ delivery \in [Job -> {"absent", "pending", "success", "failed"}]
    /\ attempted \in [Job -> BOOLEAN] /\ accepted \in [Job -> BOOLEAN]
    /\ pc \in [Worker -> {"idle", "swept", "batch", "load", "post", "record",
                          "finish", "bury"}]
    /\ batch \in [Worker -> SUBSET Job]
    /\ read \in [Worker -> [Job -> Nat]]
    /\ cur \in [Worker -> Job \cup {NoJob}]
    /\ outcome \in [Worker -> {"none", "ok", "error"}]
    /\ late \in [Job -> BOOLEAN]
    /\ faults \in 0..MaxFaults
    /\ \A w \in Worker :
          cur[w] # NoJob <=> pc[w] \in {"load", "post", "record", "finish", "bury"}

\* A job is processed by one worker at a time: the conditional claim and the
\* reaper's lock keep two workers from delivering the same event at once, as
\* long as processing ends within the lock.
OneRunner ==
    \A v, w \in Worker, j \in Job :
        ~late[j] /\ Processing(v, j) /\ Processing(w, j) => v = w

\* A job runs at most max_attempts times, counting the runs a crash cut short
\* (the claim's increment, the reaper's and the failure branch's limit).  Every
\* further worker may add one run, by a claim of a job it selected before the
\* others' attempts were counted.
AttemptsBounded ==
    \A j \in Job : attempts[j] < MaxAttempts + Cardinality(Worker)

\* A job is done only if the endpoint took the delivery, or the webhook was
\* deleted, or the delivery's row had been purged: no event is dropped and
\* reported as sent.
DoneMeansDelivered ==
    \A j \in Job : status[j] = "done" => accepted[j] \/ delivery[j] = "absent"

\* Whatever crashes, every job that was enqueued comes to an end: done or
\* failed, by its worker or by the reaper, and then purged.
JobFinishes == \A j \in Job : Live(j) ~> ~Live(j)
=============================================================================
