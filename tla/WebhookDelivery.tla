--------------------------- MODULE WebhookDelivery ---------------------------
(***************************************************************************)
(* One webhook delivery and the jobs that try it (builder/jobs.py): the    *)
(* first job, a retry job per failed attempt, and the jobs of the Celery   *)
(* task retry_webhook_delivery (jobs/tasks.py).  Several runner processes  *)
(* may run jobs of the same delivery at a time; a cache lock that lives    *)
(* for 120 seconds keeps them apart.  A run may last longer: the timeout   *)
(* of the request is one of each socket operation, and of an automation or *)
(* integration it is whatever timeout_seconds says.  How a job is claimed  *)
(* is in JobQueue.                                                         *)
(***************************************************************************)
EXTENDS Integers, FiniteSets

CONSTANTS MaxAttempts,  \* delivery.max_attempts
          MaxTasks,     \* bound: calls of retry_webhook_delivery
          MaxFaults,    \* bound: failures of delivery.save() and deaths of a run
          MaxLapses     \* bound: expiries of the lock under a run

ASSUME DeliveryAssumption ==
  /\ MaxAttempts \in Nat \ {0}
  /\ MaxTasks \in Nat
  /\ MaxFaults \in Nat
  /\ MaxLapses \in Nat

\* What attempt_count can reach: see AttemptsCounted.
Limit == MaxAttempts + MaxTasks + MaxFaults

\* Idempotency keys: "webhook:id", "webhook_retry:id:n", "retry_delivery:id:n".
Key(by, n) == [by |-> by, n |-> n]
First == Key("create", 0)
Keys == {First} \cup [by : {"retry", "task"}, n : 0..Limit]

VARIABLES
  kind,      \* the table of the row: which handler its jobs go to
  status,    \* delivery.status
  attempts,  \* delivery.attempt_count
  job,       \* the Job row of each key
  stage,     \* how far the handler run of each key is
  found,     \* delivery.status in that run's memory
  counted,   \* delivery.attempt_count in that run's memory
  lock,      \* whether the cache key webhook_delivery_lock:id exists
  posts,     \* requests sent to the receiver
  tasks,     \* calls of retry_webhook_delivery
  faults,    \* saves that failed and runs that died
  lapses     \* times the lock expired while a run was under way

rowVars == <<kind, status, attempts>>
runVars == <<stage, found, counted>>
vars == <<rowVars, job, runVars, lock, posts, tasks, faults, lapses>>

\* The queue_ functions create the row and its first job.
Init ==
  /\ kind \in {"webhook", "automation", "integration"}
  /\ status = "pending"
  /\ attempts = 0
  /\ job = [k \in Keys |-> IF k = First THEN "pending" ELSE "absent"]
  /\ stage = [k \in Keys |-> "none"]
  /\ found = [k \in Keys |-> "pending"]
  /\ counted = [k \in Keys |-> 0]
  /\ lock = FALSE
  /\ posts = 0
  /\ tasks = 0
  /\ faults = 0
  /\ lapses = 0

Active(k) == stage[k] # "none"

\* create_job: a key that has a job keeps it, in whatever state it is.
CreateJob(k) == job' = [job EXCEPT ![k] = IF @ = "absent" THEN "pending" ELSE @]

\* A retry is scheduled at least a minute ahead; the run that creates it
\* needs only its save() to end.
DueNow(k) ==
  /\ job[k] = "pending"
  /\ k.by = "retry" => ~\E r \in Keys : stage[r] = "saving" /\ counted[r] = k.n

\* cache.add found the key: the job ends as completed.
SkipLocked(k) ==
  /\ DueNow(k)
  /\ lock
  /\ job' = [job EXCEPT ![k] = "done"]
  /\ UNCHANGED <<rowVars, runVars, lock, posts, tasks, faults, lapses>>

\* Takes the lock, reads the row; a delivered row is only saved again.
SkipDelivered(k) ==
  /\ DueNow(k)
  /\ ~lock
  /\ status = "delivered"
  /\ lock' = TRUE
  /\ job' = [job EXCEPT ![k] = "running"]
  /\ stage' = [stage EXCEPT ![k] = "saving"]
  /\ found' = [found EXCEPT ![k] = status]
  /\ counted' = [counted EXCEPT ![k] = attempts]
  /\ UNCHANGED <<rowVars, posts, tasks, faults, lapses>>

(* Mutant: cache.get and cache.set in place of cache.add. *)
Post_Unlocked(k) ==
  /\ DueNow(k)
  /\ status # "delivered"
  /\ lock' = TRUE
  /\ job' = [job EXCEPT ![k] = "running"]
  /\ stage' = [stage EXCEPT ![k] = "posting"]
  /\ found' = [found EXCEPT ![k] = status]
  /\ counted' = [counted EXCEPT ![k] = attempts + 1]
  /\ posts' = posts + 1
  /\ UNCHANGED <<rowVars, tasks, faults, lapses>>

(* Mutant: a delivered row is sent again. *)
Post_Delivered(k) ==
  /\ DueNow(k)
  /\ ~lock
  /\ lock' = TRUE
  /\ job' = [job EXCEPT ![k] = "running"]
  /\ stage' = [stage EXCEPT ![k] = "posting"]
  /\ found' = [found EXCEPT ![k] = status]
  /\ counted' = [counted EXCEPT ![k] = attempts + 1]
  /\ posts' = posts + 1
  /\ UNCHANGED <<rowVars, tasks, faults, lapses>>

\* Takes the lock, reads the row, counts the attempt in memory and sends.
Post(k) ==
  /\ DueNow(k)
  /\ ~lock
  /\ status # "delivered"
  /\ lock' = TRUE
  /\ job' = [job EXCEPT ![k] = "running"]
  /\ stage' = [stage EXCEPT ![k] = "posting"]
  /\ found' = [found EXCEPT ![k] = status]
  /\ counted' = [counted EXCEPT ![k] = attempts + 1]
  /\ posts' = posts + 1
  /\ UNCHANGED <<rowVars, tasks, faults, lapses>>

\* The receiver answered 2xx.
Accepted(k) ==
  /\ stage[k] = "posting"
  /\ stage' = [stage EXCEPT ![k] = "saving"]
  /\ found' = [found EXCEPT ![k] = "delivered"]
  /\ UNCHANGED <<rowVars, job, counted, lock, posts, tasks, faults, lapses>>

\* Any other answer, or none: a retry while attempts remain.
Rejected(k) ==
  /\ stage[k] = "posting"
  /\ stage' = [stage EXCEPT ![k] = "saving"]
  /\ IF counted[k] < MaxAttempts
     THEN CreateJob(Key("retry", counted[k])) /\ UNCHANGED found
     ELSE found' = [found EXCEPT ![k] = "failed"] /\ UNCHANGED job
  /\ UNCHANGED <<rowVars, counted, lock, posts, tasks, faults, lapses>>

(* Mutant: update_fields without attempt_count. *)
Save_StatusOnly(k) ==
  /\ stage[k] = "saving"
  /\ status' = found[k]
  /\ lock' = FALSE
  /\ job' = [job EXCEPT ![k] = "done"]
  /\ stage' = [stage EXCEPT ![k] = "none"]
  /\ UNCHANGED <<kind, attempts, found, counted, posts, tasks, faults, lapses>>

(* Mutant: the status is left out of a full save. *)
Save_CountOnly(k) ==
  /\ stage[k] = "saving"
  /\ attempts' = counted[k]
  /\ lock' = FALSE
  /\ job' = [job EXCEPT ![k] = "done"]
  /\ stage' = [stage EXCEPT ![k] = "none"]
  /\ UNCHANGED <<kind, status, found, counted, posts, tasks, faults, lapses>>

\* finally: save() writes the whole row from memory, then the lock is
\* deleted, whoever holds it by now.
Save(k) ==
  /\ stage[k] = "saving"
  /\ status' = found[k]
  /\ attempts' = counted[k]
  /\ lock' = FALSE
  /\ job' = [job EXCEPT ![k] = "done"]
  /\ stage' = [stage EXCEPT ![k] = "none"]
  /\ UNCHANGED <<kind, found, counted, posts, tasks, faults, lapses>>

\* save() raises: the lock stays, and process_job schedules the job again, or
\* fails it when its own retries are used up.
SaveFails(k) ==
  /\ faults < MaxFaults
  /\ stage[k] = "saving"
  /\ \E s \in {"pending", "done"} : job' = [job EXCEPT ![k] = s]
  /\ stage' = [stage EXCEPT ![k] = "none"]
  /\ faults' = faults + 1
  /\ UNCHANGED <<rowVars, found, counted, lock, posts, tasks, lapses>>

\* The runner dies: no finally.  The job stays running and is not claimed
\* again, the lock stays until it expires.
Die(k) ==
  /\ faults < MaxFaults
  /\ Active(k)
  /\ stage' = [stage EXCEPT ![k] = "none"]
  /\ faults' = faults + 1
  /\ UNCHANGED <<rowVars, job, found, counted, lock, posts, tasks, lapses>>

\* 120 seconds after cache.add the lock is gone, whether its run has ended
\* or not.
LockExpires ==
  /\ lock
  /\ lock' = FALSE
  /\ IF \E k \in Keys : Active(k)
     THEN lapses < MaxLapses /\ lapses' = lapses + 1
     ELSE UNCHANGED lapses
  /\ UNCHANGED <<rowVars, job, runVars, posts, tasks, faults>>

\* The three registered handlers take the same steps.
Deliver(k) ==
  \/ SkipLocked(k) \/ SkipDelivered(k)
  \/ Post(k) \/ Accepted(k) \/ Rejected(k) \/ Save(k) \/ SaveFails(k)

HandleDeliverWebhook(k) == kind = "webhook" /\ Deliver(k)
HandleDeliverAutomationWebhook(k) == kind = "automation" /\ Deliver(k)
HandleDeliverIntegrationWebhook(k) == kind = "integration" /\ Deliver(k)

\* Celery's retry_webhook_delivery reads the row, locked or not, and queues a
\* job keyed by its attempt_count; only WebhookDelivery rows are looked at.
RetryWebhookDelivery ==
  /\ kind = "webhook"
  /\ tasks < MaxTasks
  /\ tasks' = tasks + 1
  /\ CreateJob(Key("task", attempts))
  /\ UNCHANGED <<rowVars, runVars, lock, posts, faults, lapses>>

Next ==
  \/ \E k \in Keys :
       \/ HandleDeliverWebhook(k)
       \/ HandleDeliverAutomationWebhook(k)
       \/ HandleDeliverIntegrationWebhook(k)
       \/ Die(k)
  \/ LockExpires
  \/ RetryWebhookDelivery

Spec == Init /\ [][Next]_vars

\* Runners poll, and every exchange with a receiver ends some time, so each
\* job's handler makes progress.
FairSpec == Spec /\ \A k \in Keys : WF_vars(Deliver(k))

-----------------------------------------------------------------------------
DeliveryTypeOK ==
  /\ kind \in {"webhook", "automation", "integration"}
  /\ status \in {"pending", "delivered", "failed"}
  /\ attempts \in 0..Limit
  /\ job \in [Keys -> {"absent", "pending", "running", "done"}]
  /\ stage \in [Keys -> {"none", "posting", "saving"}]
  /\ found \in [Keys -> {"pending", "delivered", "failed"}]
  /\ counted \in [Keys -> 0..Limit]
  /\ lock \in BOOLEAN
  /\ posts \in Nat
  /\ tasks \in 0..MaxTasks
  /\ faults \in 0..MaxFaults
  /\ lapses \in 0..MaxLapses

\* "Delivery is already being processed": one run of a delivery sends and
\* saves at a time, and one more for each time the lock expired under a run.
\* The overlap does not spread, although a run that outlasted its lock ends
\* by deleting the lock of the next.
OneSender == Cardinality({k \in Keys : Active(k)}) <= 1 + lapses

Calm == faults = 0 /\ lapses = 0

Counted ==
  /\ (\A k \in Keys : ~Active(k)) => posts = attempts
  /\ \A k \in Keys : Active(k) => posts = counted[k]

\* The receiver gets max_attempts requests at most, one more for each requeue
\* by the task and for each job tried again after a failing save;
\* attempt_count never says more than were sent, and says how many, with what
\* the run in progress is about to save, until a save fails, a run dies or
\* the lock expires under one.
AttemptsCounted ==
  /\ attempts <= posts
  /\ posts <= MaxAttempts + tasks + faults
  /\ Calm => Counted

Remembered ==
  status = "pending" =>
    \E k \in Keys :
      \/ job[k] = "pending"
      \/ stage[k] = "posting"
      \/ stage[k] = "saving" /\ found[k] # "pending"

\* Until then, a pending delivery is never forgotten: a job for it waits, or
\* a run is about to give it its final status.
NotForgotten == Calm => Remembered

\* A delivered delivery stays delivered and is not sent again, but by runs
\* that read its row before it was delivered; there are none while the lock
\* did not expire under a run.
DeliveredIsFinal ==
  [][status = "delivered" /\ (lapses = 0 \/ \A k \in Keys : Active(k) => found[k] = "delivered")
     => status' = "delivered" /\ posts' = posts]_<<status, posts>>

\* Every delivery is delivered, or given up after its attempts, unless a save
\* fails, a run dies or the lock expires under one.
Settles == status = "pending" ~> status # "pending" \/ ~Calm
=============================================================================
