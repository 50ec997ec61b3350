------------------------------ MODULE JobQueue ------------------------------
(***************************************************************************)
(* The database-backed job queue (builder/jobs.py) and the runner          *)
(* processes that drain it (management command run_jobs --daemon).         *)
(*                                                                         *)
(* A key stands for a job_id: create_job derives it from the job type and  *)
(* the idempotency key.  What a handler does is left to the modules about  *)
(* it; here it returns, raises, or dies with its process.                  *)
(***************************************************************************)
EXTENDS Integers, FiniteSets

CONSTANTS Keys,        \* job ids
          Producers,   \* threads that call create_job
          Workers,     \* runner processes
          Priority,    \* Job.priority of each key
          Unhandled,   \* keys whose job_type has no registered handler
          Batch,       \* --batch-size
          MaxRetries,  \* Job.max_retries
          None,        \* no key
          MaxCrashes,  \* bound: how many times a process dies
          MaxCleanups  \* bound: how many times run_jobs --cleanup is called

ASSUME JobAssumption ==
  /\ Priority \in [Keys -> Int]
  /\ Unhandled \subseteq Keys
  /\ Batch \in Nat \ {0}
  /\ MaxRetries \in Nat \ {0}
  /\ None \notin Keys
  /\ MaxCrashes \in Nat
  /\ MaxCleanups \in Nat

VARIABLES
  status,    \* Job.status, "absent" while there is no row
  due,       \* jobs whose scheduled_at has passed
  retries,   \* Job.retry_count
  creating,  \* the key each producer found no row for and will insert
  stage,     \* what each worker is doing
  batch,     \* the jobs each worker has selected and not yet finished
  current,   \* the job whose handler each worker is in
  copy,      \* retry_count of the Job objects of the batch, 0 for others
  runs,      \* how many times the handler of each row was started
  crashes,   \* bounded counters
  cleanups

rowVars    == <<status, due, retries>>
workerVars == <<stage, batch, current, copy>>
boundVars  == <<crashes, cleanups>>
vars == <<rowVars, creating, workerVars, runs, boundVars>>

Settled == {"completed", "failed"}

Init ==
  /\ status = [k \in Keys |-> "absent"]
  /\ due = {}
  /\ retries = [k \in Keys |-> 0]
  /\ creating = [p \in Producers |-> None]
  /\ stage = [w \in Workers |-> "idle"]
  /\ batch = [w \in Workers |-> {}]
  /\ current = [w \in Workers |-> None]
  /\ copy = [w \in Workers |-> [k \in Keys |-> 0]]
  /\ runs = [k \in Keys |-> 0]
  /\ crashes = 0
  /\ cleanups = 0

-----------------------------------------------------------------------------
(* create_job.  It looks for a row, and inserts one when there is none; the *)
(* look and the insert are two statements.                                  *)

\* There is no row; one that exists, whatever its status, is the answer and
\* nothing changes.
FindMissing(p, k) ==
  /\ creating[p] = None
  /\ status[k] = "absent"
  /\ creating' = [creating EXCEPT ![p] = k]
  /\ UNCHANGED <<rowVars, workerVars, runs, boundVars>>

\* The insert, or the row of whoever inserted it first: the unique job_id
\* raises IntegrityError and the existing row is fetched.
InsertJob(p) ==
  LET k == creating[p] IN
  /\ k # None
  /\ creating' = [creating EXCEPT ![p] = None]
  /\ IF status[k] = "absent"
     THEN /\ status' = [status EXCEPT ![k] = "pending"]
          /\ retries' = [retries EXCEPT ![k] = 0]
          /\ runs' = [runs EXCEPT ![k] = 0]
          /\ due' \in {due, due \cup {k}}
     ELSE UNCHANGED <<rowVars, runs>>
  /\ UNCHANGED <<workerVars, boundVars>>

\* scheduled_at of a waiting job passes.
BecomeDue(k) ==
  /\ status[k] = "pending"
  /\ k \notin due
  /\ due' = due \cup {k}
  /\ UNCHANGED <<status, retries, creating, workerVars, runs, boundVars>>

-----------------------------------------------------------------------------
(* _claim_pending_jobs.  The transaction selects and locks rows, and later  *)
(* commits their new status; other workers' selects fall in between.        *)

\* Rows locked by a claim that has not committed.
Locked == UNION {batch[w] : w \in {x \in Workers : stage[x] = "claiming"}}

(* Mutant: select_for_update without regard to rows others have locked. *)
Claimable_Unlocked == {k \in due : status[k] = "pending"}

(* Mutant: a job that was claimed and not finished is due as well. *)
Claimable_Again == {k \in due : status[k] \notin {"absent", "completed"}} \ Locked

Claimable == {k \in due : status[k] = "pending"} \ Locked

\* S[:Batch] in the order of priority; scheduled_at and id decide among equals.
FirstOf(S) ==
  {T \in SUBSET S :
     /\ Cardinality(T) = IF Cardinality(S) < Batch THEN Cardinality(S) ELSE Batch
     /\ \A j \in T, k \in S \ T : Priority[j] >= Priority[k]}

SelectBatch(w) ==
  /\ stage[w] = "idle"
  /\ Claimable # {}
  /\ stage' = [stage EXCEPT ![w] = "claiming"]
  /\ \E T \in FirstOf(Claimable) :
       /\ batch' = [batch EXCEPT ![w] = T]
       /\ copy' = [copy EXCEPT ![w] = [k \in Keys |-> IF k \in T THEN retries[k] ELSE 0]]
  /\ UNCHANGED <<rowVars, creating, current, runs, boundVars>>

CommitClaim(w) ==
  /\ stage[w] = "claiming"
  /\ stage' = [stage EXCEPT ![w] = "working"]
  /\ status' = [k \in Keys |-> IF k \in batch[w] THEN "running" ELSE status[k]]
  /\ UNCHANGED <<due, retries, creating, batch, current, copy, runs, boundVars>>

-----------------------------------------------------------------------------
(* process_pending_jobs and process_job on the claimed batch.               *)

\* The worker is done with job k of its batch.
Drop(w, k) ==
  /\ batch' = [batch EXCEPT ![w] = @ \ {k}]
  /\ current' = [current EXCEPT ![w] = None]
  /\ stage' = [stage EXCEPT ![w] = IF batch[w] = {k} THEN "idle" ELSE "working"]
  /\ copy' = [copy EXCEPT ![w][k] = 0]

NextOf(w) == {k \in batch[w] : \A j \in batch[w] : Priority[k] >= Priority[j]}

StartHandler(w) ==
  /\ stage[w] = "working"
  /\ \E k \in NextOf(w) \ Unhandled :
       /\ current' = [current EXCEPT ![w] = k]
       /\ runs' = [runs EXCEPT ![k] = @ + 1]
  /\ stage' = [stage EXCEPT ![w] = "running"]
  /\ UNCHANGED <<rowVars, creating, batch, copy, boundVars>>

\* No handler for the job type: the job fails without a run.
RefuseUnknown(w) ==
  /\ stage[w] = "working"
  /\ \E k \in NextOf(w) \cap Unhandled :
       /\ status' = [status EXCEPT ![k] = "failed"]
       /\ Drop(w, k)
  /\ UNCHANGED <<due, retries, creating, runs, boundVars>>

\* The handler returned and job.save() wrote the whole copy back.
SaveResult(w) ==
  LET k == current[w] IN
  /\ stage[w] = "running"
  /\ status' = [status EXCEPT ![k] = "completed"]
  /\ retries' = [retries EXCEPT ![k] = copy[w][k]]
  /\ Drop(w, k)
  /\ UNCHANGED <<due, creating, runs, boundVars>>

(* Mutant: the limit is compared with the count before this failure. *)
SaveFailure_OffByOne(w) ==
  LET k == current[w]
      n == copy[w][k] + 1
  IN
  /\ stage[w] = "running"
  /\ retries' = [retries EXCEPT ![k] = n]
  /\ \/ /\ n <= MaxRetries
        /\ status' = [status EXCEPT ![k] = "pending"]
        /\ due' = due \ {k}
     \/ /\ n > MaxRetries
        /\ status' = [status EXCEPT ![k] = "failed"]
        /\ UNCHANGED due
  /\ Drop(w, k)
  /\ UNCHANGED <<creating, runs, boundVars>>

(* Mutant: a failed run is counted but the job is not put back. *)
SaveFailure_StaysRunning(w) ==
  LET k == current[w]
      n == copy[w][k] + 1
  IN
  /\ stage[w] = "running"
  /\ retries' = [retries EXCEPT ![k] = n]
  /\ status' = [status EXCEPT ![k] = IF n < MaxRetries THEN @ ELSE "failed"]
  /\ Drop(w, k)
  /\ UNCHANGED <<due, creating, runs, boundVars>>

\* The handler, or trigger_webhooks after it, raised: again later, or never.
SaveFailure(w) ==
  LET k == current[w]
      n == copy[w][k] + 1
  IN
  /\ stage[w] = "running"
  /\ retries' = [retries EXCEPT ![k] = n]
  /\ \/ /\ n < MaxRetries
        /\ status' = [status EXCEPT ![k] = "pending"]
        /\ due' = due \ {k}
     \/ /\ n >= MaxRetries
        /\ status' = [status EXCEPT ![k] = "failed"]
        /\ UNCHANGED due
  /\ Drop(w, k)
  /\ UNCHANGED <<creating, runs, boundVars>>

\* job.save() raised: process_pending_jobs marks the row failed and goes on.
FailUnsaved(w) ==
  /\ stage[w] = "running"
  /\ status' = [status EXCEPT ![current[w]] = "failed"]
  /\ Drop(w, current[w])
  /\ UNCHANGED <<due, retries, creating, runs, boundVars>>

-----------------------------------------------------------------------------
\* The process dies.  A claim that has not committed is rolled back; rows it
\* has committed stay as they are, and nothing in the code looks for them.
Crash(w) ==
  /\ crashes < MaxCrashes
  /\ stage[w] # "down"
  /\ stage' = [stage EXCEPT ![w] = "down"]
  /\ batch' = [batch EXCEPT ![w] = {}]
  /\ current' = [current EXCEPT ![w] = None]
  /\ copy' = [copy EXCEPT ![w] = [k \in Keys |-> 0]]
  /\ crashes' = crashes + 1
  /\ UNCHANGED <<rowVars, creating, runs, cleanups>>

Restart(w) ==
  /\ stage[w] = "down"
  /\ stage' = [stage EXCEPT ![w] = "idle"]
  /\ UNCHANGED <<rowVars, creating, batch, current, copy, runs, boundVars>>

\* cleanup_old_jobs deletes settled rows not touched for 30 days; a row some
\* create_job has just missed and lost the race for is not that old.
CleanupOldJobs(S) ==
  /\ cleanups < MaxCleanups
  /\ S # {} /\ \A p \in Producers : creating[p] \notin S
  /\ S \subseteq {k \in Keys : status[k] \in Settled}
  /\ status' = [k \in Keys |-> IF k \in S THEN "absent" ELSE status[k]]
  /\ due' = due \ S
  /\ cleanups' = cleanups + 1
  /\ UNCHANGED <<retries, creating, workerVars, runs, crashes>>

WorkerStep(w) ==
  \/ SelectBatch(w) \/ CommitClaim(w)
  \/ StartHandler(w) \/ RefuseUnknown(w)
  \/ SaveResult(w) \/ SaveFailure(w) \/ FailUnsaved(w)

Next ==
  \/ \E p \in Producers :
       \/ \E k \in Keys : FindMissing(p, k)
       \/ InsertJob(p)
  \/ \E k \in Keys : BecomeDue(k)
  \/ \E w \in Workers : WorkerStep(w) \/ Crash(w) \/ Restart(w)
  \/ \E S \in SUBSET Keys : CleanupOldJobs(S)

Spec == Init /\ [][Next]_vars

\* The daemon polls for ever, handlers end (their network calls have
\* timeouts), time passes, and a container that died is started again.
Fairness ==
  /\ \A p \in Producers : WF_vars(InsertJob(p))
  /\ \A k \in Keys : WF_vars(BecomeDue(k))
  /\ \A w \in Workers : WF_vars(WorkerStep(w)) /\ WF_vars(Restart(w))

FairSpec == Spec /\ Fairness

-----------------------------------------------------------------------------
JobTypeOK ==
  /\ status \in [Keys -> {"absent", "pending", "running"} \cup Settled]
  /\ due \subseteq Keys
  /\ retries \in [Keys -> 0..MaxRetries]
  /\ creating \in [Producers -> Keys \cup {None}]
  /\ stage \in [Workers -> {"idle", "claiming", "working", "running", "down"}]
  /\ batch \in [Workers -> SUBSET Keys]
  /\ current \in [Workers -> Keys \cup {None}]
  /\ copy \in [Workers -> [Keys -> 0..MaxRetries]]
  /\ runs \in [Keys -> Nat]
  /\ crashes \in 0..MaxCrashes
  /\ cleanups \in 0..MaxCleanups

Working(w) == stage[w] \in {"working", "running"}

\* No job is in the hands of two workers, and what a worker has claimed is
\* still RUNNING with the retry_count of its copy, so that the full save()
\* at the end overwrites nobody's change.
SoleRunner ==
  /\ \A v, w \in Workers : v # w => batch[v] \cap batch[w] = {}
  /\ \A w \in Workers : Working(w) =>
       \A k \in batch[w] : status[k] = "running" /\ copy[w][k] = retries[k]

\* However runs fail, crash or are cleaned up, the handler of one job row is
\* started at most max_retries times.
RetryBudget == \A k \in Keys : runs[k] <= MaxRetries

\* A completed or failed job is never run or retried again; its row can only
\* be deleted.
SettledIsFinal ==
  [][\A k \in Keys : status[k] \in Settled =>
       /\ status'[k] \in {status[k], "absent"}
       /\ runs'[k] = runs[k]]_<<status, runs>>

\* As long as no runner process dies, every job accepted by create_job is
\* settled, whoever else creates, claims or fails jobs meanwhile.
Drains ==
  \A k \in Keys :
    status[k] \in {"pending", "running"} ~>
      status[k] \in Settled \cup {"absent"} \/ crashes > 0
=============================================================================
