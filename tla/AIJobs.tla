------------------------------- MODULE AIJobs -------------------------------
(***************************************************************************)
(* AI generation (shared/ai/service.py) on top of the job queue: requests  *)
(* submit AIJobs to the queue or process them in place, runners process    *)
(* the queued ones, and all of them share the request quota of one scope   *)
(* (workspace, site and feature) within one quota period.                  *)
(*                                                                         *)
(* A key is an AIJob and the ai_generate queue job made for it.  The quota *)
(* row exists and is active; its token and cost limits work as the request *)
(* limit does and are left out.                                            *)
(***************************************************************************)
EXTENDS JobQueue

CONSTANT MaxRequests  \* AIUsageQuota.max_requests; a quota of 0 refuses all

ASSUME AIAssumption ==
  /\ MaxRequests \in Nat \ {0}
  /\ Unhandled = {}  \* ai_generate has a handler
  /\ IsFiniteSet(Workers) /\ IsFiniteSet(Producers)
  /\ Workers \cap Producers = {}

VARIABLES
  ai,          \* AIJob.status, "absent" while there is no row
  submitting,  \* the AIJob each request has created and not yet queued
  inline,      \* the AIJob each request is processing in place
  at,          \* where each process is in process_ai_job
  used,        \* AIUsageRecords of the scope
  calls,       \* calls of the provider made for the scope
  asked,       \* calls of the provider made for each AIJob
  lost         \* calls whose usage record will never be written

aiVars == <<ai, submitting, inline, at, used, calls, asked, lost>>
metering == <<used, calls, asked, lost>>

\* Requests that process in place, and runner processes.
Actors == Workers \cup Producers

TaskOf(a) == IF a \in Workers THEN current[a] ELSE inline[a]

AIInit ==
  /\ Init
  /\ ai = [k \in Keys |-> "absent"]
  /\ submitting = [p \in Producers |-> None]
  /\ inline = [p \in Producers |-> None]
  /\ at = [a \in Actors |-> "none"]
  /\ used = 0
  /\ calls = 0
  /\ asked = [k \in Keys |-> 0]
  /\ lost = 0

-----------------------------------------------------------------------------
(* submit_ai_job: the AIJob is created, and then either queued (queue=True) *)
(* or processed by the request itself.  A request that stops after creating *)
(* the AIJob leaves it without a queue job.                                 *)

Submit(p, k) ==
  /\ submitting[p] = None /\ at[p] = "none"
  /\ ai[k] = "absent"
  /\ ai' = [ai EXCEPT ![k] = "queued"]
  /\ \/ /\ submitting' = [submitting EXCEPT ![p] = k]
        /\ UNCHANGED <<inline, at>>
     \/ /\ inline' = [inline EXCEPT ![p] = k]
        /\ at' = [at EXCEPT ![p] = "begin"]
        /\ UNCHANGED submitting
  /\ UNCHANGED <<vars, metering>>

LookForJob(p) ==
  /\ submitting[p] # None
  /\ FindMissing(p, submitting[p])
  /\ UNCHANGED aiVars

QueueJob(p) ==
  /\ InsertJob(p)
  /\ submitting' = [submitting EXCEPT ![p] = None]
  /\ UNCHANGED <<ai, inline, at, metering>>

-----------------------------------------------------------------------------
(* process_ai_job, by a runner or in place.                                 *)

Begin(a) ==
  /\ at[a] = "begin"
  /\ ai' = [ai EXCEPT ![TaskOf(a)] = "running"]
  /\ at' = [at EXCEPT ![a] = "moderate"]
  /\ UNCHANGED <<vars, submitting, inline, metering>>

\* The prompt is blocked, or the quota is used up: the job fails, and the
\* usage record that follows counts as a request although none was made.
Refuse(a) ==
  /\ at[a] = "moderate"
  /\ ai' = [ai EXCEPT ![TaskOf(a)] = "failed"]
  /\ at' = [at EXCEPT ![a] = "unpaid"]
  /\ UNCHANGED <<vars, submitting, inline, metering>>

\* _quota_exceeded is false: the records already written are below the limit.
Admit(a) ==
  /\ at[a] = "moderate"
  /\ used < MaxRequests
  /\ at' = [at EXCEPT ![a] = "generate"]
  /\ UNCHANGED <<vars, ai, submitting, inline, metering>>

Generate(a) ==
  /\ at[a] = "generate"
  /\ calls' = calls + 1
  /\ asked' = [asked EXCEPT ![TaskOf(a)] = @ + 1]
  /\ at' = [at EXCEPT ![a] = "answered"]
  /\ UNCHANGED <<vars, ai, submitting, inline, used, lost>>

(* Mutant: an error of the provider is noted without failing the AIJob. *)
SaveOutcome_ErrorKept(a) ==
  /\ at[a] = "answered"
  /\ \E s \in {"completed", "failed", "running"} : ai' = [ai EXCEPT ![TaskOf(a)] = s]
  /\ at' = [at EXCEPT ![a] = "paid"]
  /\ UNCHANGED <<vars, submitting, inline, metering>>

\* Completed, or failed: the provider raised or its output was blocked.
SaveOutcome(a) ==
  /\ at[a] = "answered"
  /\ \E s \in Settled : ai' = [ai EXCEPT ![TaskOf(a)] = s]
  /\ at' = [at EXCEPT ![a] = "paid"]
  /\ UNCHANGED <<vars, submitting, inline, metering>>

(* Mutant: only completed generations are metered. *)
RecordUsage_CompletedOnly(a) ==
  /\ at[a] \in {"paid", "unpaid"}
  /\ used' = IF ai[TaskOf(a)] = "completed" THEN used + 1 ELSE used
  /\ at' = [at EXCEPT ![a] = "emitting"]
  /\ UNCHANGED <<vars, ai, submitting, inline, calls, asked, lost>>

RecordUsage(a) ==
  /\ at[a] \in {"paid", "unpaid"}
  /\ used' = used + 1
  /\ at' = [at EXCEPT ![a] = "emitting"]
  /\ UNCHANGED <<vars, ai, submitting, inline, calls, asked, lost>>

ProcessAIJob(a) ==
  \/ Begin(a) \/ Refuse(a) \/ Admit(a) \/ Generate(a) \/ SaveOutcome(a) \/ RecordUsage(a)

-----------------------------------------------------------------------------
(* How processing starts and ends.                                          *)

\* The processing is over; a call not yet recorded never will be.
Leave(a) ==
  /\ at' = [at EXCEPT ![a] = "none"]
  /\ lost' = IF at[a] \in {"answered", "paid"} THEN lost + 1 ELSE lost
  /\ UNCHANGED <<ai, submitting, used, calls, asked>>

\* An in-place request has sent its webhooks and answers, or raised.
EndInline(p) ==
  /\ at[p] # "none"
  /\ inline' = [inline EXCEPT ![p] = None]
  /\ Leave(p)
  /\ UNCHANGED vars

Handle(w) ==
  /\ StartHandler(w)
  /\ at' = [at EXCEPT ![w] = "begin"]
  /\ UNCHANGED <<ai, submitting, inline, metering>>

\* The webhooks are sent and the handler returns.
Return(w) ==
  /\ at[w] = "emitting"
  /\ SaveResult(w)
  /\ Leave(w)
  /\ UNCHANGED inline

\* A statement of the handler raised, other than the call of the provider.
Raise(w) == SaveFailure(w) /\ Leave(w) /\ UNCHANGED inline

Unsaved(w) == FailUnsaved(w) /\ Leave(w) /\ UNCHANGED inline

Die(w) == Crash(w) /\ Leave(w) /\ UNCHANGED inline

\* Steps of the queue in which no AI job is touched.
QueueOnly ==
  /\ \/ \E k \in Keys : BecomeDue(k)
     \/ \E w \in Workers : SelectBatch(w) \/ CommitClaim(w) \/ Restart(w)
     \/ \E S \in SUBSET Keys : CleanupOldJobs(S)
  /\ UNCHANGED aiVars

AINext ==
  \/ \E p \in Producers :
       (\E k \in Keys : Submit(p, k)) \/ LookForJob(p) \/ QueueJob(p) \/ EndInline(p)
  \/ \E a \in Actors : ProcessAIJob(a)
  \/ \E w \in Workers : Handle(w) \/ Return(w) \/ Raise(w) \/ Unsaved(w) \/ Die(w)
  \/ QueueOnly

AISpec == AIInit /\ [][AINext]_<<vars, aiVars>>

-----------------------------------------------------------------------------
\* The variables have their types, processes in process_ai_job have an AIJob,
\* and a queue job is never there before its AIJob.
AITypeOK ==
  /\ ai \in [Keys -> {"absent", "queued", "running"} \cup Settled]
  /\ submitting \in [Producers -> Keys \cup {None}]
  /\ inline \in [Producers -> Keys \cup {None}]
  /\ at \in [Actors -> {"none", "begin", "moderate", "generate", "answered",
                        "paid", "unpaid", "emitting"}]
  /\ used \in Nat /\ calls \in Nat /\ lost \in Nat
  /\ asked \in [Keys -> Nat]
  /\ \A a \in Actors : at[a] # "none" => TaskOf(a) \in Keys
  /\ \A w \in Workers : at[w] # "none" <=> stage[w] = "running"
  /\ \A k \in Keys : status[k] # "absent" => ai[k] # "absent"

\* Check-then-act on the quota: however many requests and runners are between
\* the check and the usage record, and whatever is retried, the provider is
\* called for at most one request per process more than the limit, apart
\* from calls whose record was lost with their process.
QuotaOvershoot ==
  calls - lost < MaxRequests + Cardinality(Actors)

\* A queue job that completed has left its AIJob completed or failed, never
\* queued or running, although the two rows are saved in separate statements
\* and a retry starts over on an AIJob the previous try has settled.
OutcomeRecorded ==
  \A k \in Keys : status[k] = "completed" => ai[k] \in Settled

\* Retries of the queue repeat a generation: the provider is asked at most
\* max_retries times for one AIJob, across raising tries, crashes and
\* cleanups.
ProviderBudget == \A k \in Keys : asked[k] <= MaxRetries
=============================================================================
