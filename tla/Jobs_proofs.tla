----------------------------- MODULE Jobs_proofs -----------------------------
(***************************************************************************)
(* Proofs about the job queue and about the two services composed with it. *)
(*                                                                         *)
(* The queue (JobQueue), from JobAssumption alone: it never runs a job     *)
(* twice at a time, nor beyond its retry budget, nor after it settled.     *)
(*                                                                         *)
(* AI generation (AIJobs, from AIAssumption) and the search entry of an    *)
(* asset (SearchIndex, from SearchAssumption) each use the queue only as   *)
(* JobQueue allows, so the queue's invariant carries over to them.  Then   *)
(* their own: how far the request quota can be overshot, the agreement of  *)
(* queue job and AIJob, how often the provider is asked; and that the      *)
(* entry is right at rest.                                                 *)
(***************************************************************************)
EXTENDS AIJobs, SearchIndex, FiniteSetTheorems, TLAPS

\* Where the jobs of a batch stand, by what their worker is doing.
Hands ==
  \A w \in Workers :
    /\ stage[w] \in {"idle", "down"} => batch[w] = {}
    /\ stage[w] = "running" => current[w] \in batch[w]
    /\ \A k \in batch[w] :
         /\ copy[w][k] = retries[k]
         /\ stage[w] = "claiming" => status[k] = "pending"
         /\ Working(w) => status[k] = "running"

Apart == \A v, w \in Workers : v # w => batch[v] \cap batch[w] = {}

InRun(w, k) == stage[w] = "running" /\ current[w] = k

\* Every run of a job is accounted for in retry_count, except the one that is
\* going on or was cut off by a crash.
Budget ==
  \A k \in Keys :
    /\ runs[k] <= MaxRetries
    /\ status[k] = "pending" => runs[k] = retries[k] /\ retries[k] < MaxRetries
    /\ status[k] = "running" =>
         /\ retries[k] < MaxRetries
         /\ runs[k] <= retries[k] + 1
         /\ \A w \in Workers :
              k \in batch[w] => runs[k] = IF InRun(w, k) THEN retries[k] + 1 ELSE retries[k]

JobInv == JobTypeOK /\ Hands /\ Apart /\ Budget

LEMMA InitInv == Init => JobInv
BY JobAssumption DEF JobAssumption, Init, JobInv, JobTypeOK, Hands, Apart, Budget,
   Settled, Working, InRun

-----------------------------------------------------------------------------
(* One lemma per kind of step. *)

LEMMA CreateStep ==
  ASSUME JobInv, NEW p \in Producers,
         \/ \E k \in Keys : FindMissing(p, k)
         \/ InsertJob(p)
  PROVE  JobInv'
<1>1. CASE \E k \in Keys : FindMissing(p, k)
  BY <1>1 DEF JobInv, JobTypeOK, Hands, Apart, Budget, InRun, Working, Settled,
     FindMissing, rowVars, workerVars, boundVars
<1>2. CASE InsertJob(p)
  <2> DEFINE k == creating[p]
  <2>1. k \in Keys
    BY <1>2 DEF InsertJob, JobInv, JobTypeOK
  <2>2. CASE status[k] # "absent"
    BY <1>2, <2>1, <2>2 DEF InsertJob, JobInv, JobTypeOK, Hands, Apart, Budget, InRun,
       Working, Settled, rowVars, workerVars, boundVars
  <2>3. CASE status[k] = "absent"
    <3>1. \A w \in Workers : k \notin batch[w]
      BY <2>3 DEF JobInv, JobTypeOK, Hands, Working
    <3>2. /\ status' = [status EXCEPT ![k] = "pending"]
          /\ retries' = [retries EXCEPT ![k] = 0]
          /\ runs' = [runs EXCEPT ![k] = 0]
          /\ due' \in {due, due \cup {k}}
          /\ creating' = [creating EXCEPT ![p] = None]
          /\ UNCHANGED <<workerVars, boundVars>>
      BY <1>2, <2>3 DEF InsertJob
    <3> HIDE DEF k
    <3>3. JobTypeOK'
      BY <2>1, <3>2, JobAssumption DEF JobAssumption, JobInv, JobTypeOK, Settled,
         workerVars, boundVars
    <3>4. Hands' /\ Apart'
      BY <2>1, <3>1, <3>2 DEF JobInv, JobTypeOK, Hands, Apart, Working, workerVars
    <3>5. Budget'
      BY <2>1, <3>1, <3>2, JobAssumption
      DEF JobAssumption, JobInv, JobTypeOK, Budget, InRun, workerVars
    <3> QED BY <3>3, <3>4, <3>5 DEF JobInv
  <2> QED BY <2>2, <2>3
<1> QED BY <1>1, <1>2

LEMMA ClaimStep ==
  ASSUME JobInv, NEW w \in Workers, SelectBatch(w) \/ CommitClaim(w)
  PROVE  JobInv'
<1>1. CASE SelectBatch(w)
  <2>1. PICK T \in FirstOf(Claimable) :
          /\ batch' = [batch EXCEPT ![w] = T]
          /\ copy' = [copy EXCEPT ![w] = [k \in Keys |-> IF k \in T THEN retries[k] ELSE 0]]
    BY <1>1 DEF SelectBatch
  <2>2. /\ T \subseteq Keys
        /\ \A k \in T : status[k] = "pending"
        /\ \A k \in T, v \in Workers : k \notin batch[v]
    BY DEF FirstOf, Claimable, Locked, JobInv, JobTypeOK, Hands, Working
  <2>3. /\ stage[w] = "idle"
        /\ stage' = [stage EXCEPT ![w] = "claiming"]
        /\ UNCHANGED <<rowVars, creating, current, runs, boundVars>>
    BY <1>1 DEF SelectBatch
  <2>4. JobTypeOK'
    BY <2>1, <2>2, <2>3, JobAssumption
    DEF JobAssumption, JobInv, JobTypeOK, rowVars, boundVars
  <2>5. Hands' /\ Apart'
    BY <2>1, <2>2, <2>3 DEF JobInv, JobTypeOK, Hands, Apart, Working, rowVars
  <2>6. Budget'
    BY <2>1, <2>2, <2>3 DEF JobInv, JobTypeOK, Budget, InRun, rowVars
  <2> QED BY <2>4, <2>5, <2>6 DEF JobInv
<1>2. CASE CommitClaim(w)
  <2>1. /\ stage[w] = "claiming"
        /\ stage' = [stage EXCEPT ![w] = "working"]
        /\ status' = [k \in Keys |-> IF k \in batch[w] THEN "running" ELSE status[k]]
        /\ UNCHANGED <<due, retries, creating, batch, current, copy, runs, boundVars>>
    BY <1>2 DEF CommitClaim
  <2>2. JobTypeOK'
    BY <2>1 DEF JobInv, JobTypeOK, boundVars
  <2>3. Hands' /\ Apart'
    BY <2>1 DEF JobInv, JobTypeOK, Hands, Apart, Working
  <2>4. Budget'
    BY <2>1 DEF JobInv, JobTypeOK, Hands, Apart, Budget, InRun
  <2> QED BY <2>2, <2>3, <2>4 DEF JobInv
<1> QED BY <1>1, <1>2

LEMMA StartStep ==
  ASSUME JobInv, NEW w \in Workers, StartHandler(w)
  PROVE  JobInv'
<1>1. PICK k \in NextOf(w) \ Unhandled :
        /\ current' = [current EXCEPT ![w] = k]
        /\ runs' = [runs EXCEPT ![k] = @ + 1]
  BY DEF StartHandler
<1>2. /\ stage[w] = "working"
      /\ stage' = [stage EXCEPT ![w] = "running"]
      /\ UNCHANGED <<rowVars, creating, batch, copy, boundVars>>
  BY DEF StartHandler
<1>3. k \in batch[w] /\ k \in Keys /\ status[k] = "running" /\ runs[k] = retries[k]
      /\ retries[k] < MaxRetries
  BY <1>2 DEF NextOf, JobInv, JobTypeOK, Hands, Budget, InRun, Working
<1>4. JobTypeOK'
  BY <1>1, <1>2, <1>3 DEF JobInv, JobTypeOK, rowVars, boundVars
<1>5. Hands' /\ Apart'
  BY <1>1, <1>2, <1>3 DEF JobInv, JobTypeOK, Hands, Apart, Working, rowVars
<1>6. Budget'
  <2>1. \A v \in Workers : v # w => k \notin batch[v]
    BY <1>3 DEF JobInv, Apart
  <2>2. runs[k] \in Nat /\ retries[k] \in 0..MaxRetries
    BY <1>3 DEF JobInv, JobTypeOK
  <2>3. ASSUME NEW j \in Keys PROVE Budget!(j)'
    <3>1. CASE j = k
      BY <3>1, <1>1, <1>2, <1>3, <2>1, <2>2, JobAssumption
      DEF JobAssumption, JobInv, JobTypeOK, Budget, InRun, rowVars
    <3>2. CASE j # k
      <4>1. runs'[j] = runs[j]
        BY <3>2, <1>1 DEF JobInv, JobTypeOK
      <4>2. \A v \in Workers : InRun(v, j)' <=> InRun(v, j)
        BY <3>2, <1>1, <1>2 DEF JobInv, JobTypeOK, InRun
      <4> QED BY <4>1, <4>2, <1>2 DEF JobInv, Budget, rowVars
    <3> QED BY <3>1, <3>2
  <2> QED BY <2>3 DEF Budget
<1> QED BY <1>4, <1>5, <1>6 DEF JobInv

-----------------------------------------------------------------------------
\* A worker that is done with a job leaves every other job alone: it is enough
\* that the row it writes keeps its type and its budget.
LEMMA DropStep ==
  ASSUME JobInv, NEW w \in Workers, NEW k \in batch[w], Working(w), Drop(w, k),
         stage[w] = "running" => current[w] = k,
         NEW s \in {"pending", "completed", "failed"}, NEW n \in 0..MaxRetries,
         status' = [status EXCEPT ![k] = s],
         retries' = [retries EXCEPT ![k] = n],
         due' \subseteq Keys,
         s = "pending" => runs[k] = n /\ n < MaxRetries,
         UNCHANGED <<creating, runs, boundVars>>
  PROVE  JobInv'
<1>1. /\ k \in Keys /\ status[k] = "running"
      /\ \A v \in Workers : v # w => k \notin batch[v]
  BY DEF JobInv, JobTypeOK, Hands, Apart, Working
<1>2. /\ batch' = [batch EXCEPT ![w] = @ \ {k}]
      /\ current' = [current EXCEPT ![w] = None]
      /\ stage' = [stage EXCEPT ![w] = IF batch[w] = {k} THEN "idle" ELSE "working"]
      /\ copy' = [copy EXCEPT ![w][k] = 0]
  BY DEF Drop
<1>3. JobTypeOK'
  BY <1>1, <1>2, JobAssumption DEF JobAssumption, JobInv, JobTypeOK, Settled, boundVars
<1>4. Apart'
  BY <1>2 DEF JobInv, JobTypeOK, Apart
<1>5. Hands'
  <2>1. ASSUME NEW v \in Workers PROVE Hands!(v)'
    <3>1. CASE v = w
      BY <3>1, <1>1, <1>2 DEF JobInv, JobTypeOK, Hands, Working
    <3>2. CASE v # w
      BY <3>2, <1>1, <1>2 DEF JobInv, JobTypeOK, Hands, Working
    <3> QED BY <3>1, <3>2
  <2> QED BY <2>1 DEF Hands
<1>6. Budget'
  <2>1. ASSUME NEW j \in Keys PROVE Budget!(j)'
    <3>1. CASE j = k
      BY <3>1, <1>1, <1>2 DEF JobInv, JobTypeOK, Budget
    <3>2. CASE j # k
      <4>1. status'[j] = status[j] /\ retries'[j] = retries[j] /\ runs'[j] = runs[j]
        BY <3>2 DEF JobInv, JobTypeOK
      <4>2. \A v \in Workers : j \in batch'[v] => j \in batch[v]
        BY <1>2 DEF JobInv, JobTypeOK
      <4>3. \A v \in Workers : InRun(v, j) <=> InRun(v, j)'
        BY <3>2, <1>2 DEF JobInv, JobTypeOK, InRun
      <4> QED BY <4>1, <4>2, <4>3 DEF JobInv, Budget
    <3> QED BY <3>1, <3>2
  <2> QED BY <2>1 DEF Budget
<1> QED BY <1>3, <1>4, <1>5, <1>6 DEF JobInv

LEMMA FinishStep ==
  ASSUME JobInv, NEW w \in Workers,
         RefuseUnknown(w) \/ SaveResult(w) \/ SaveFailure(w) \/ FailUnsaved(w)
  PROVE  JobInv'
<1>1. CASE RefuseUnknown(w)
  <2>1. PICK k \in NextOf(w) \cap Unhandled :
          status' = [status EXCEPT ![k] = "failed"] /\ Drop(w, k)
    BY <1>1 DEF RefuseUnknown
  <2>2. k \in batch[w] /\ k \in Keys /\ stage[w] = "working"
    BY <1>1 DEF RefuseUnknown, NextOf, JobInv, JobTypeOK
  <2>3. retries' = [retries EXCEPT ![k] = retries[k]] /\ retries[k] \in 0..MaxRetries
        /\ due' \subseteq Keys
    BY <1>1, <2>2 DEF RefuseUnknown, JobInv, JobTypeOK
  <2> QED BY <1>1, <2>1, <2>2, <2>3, DropStep DEF RefuseUnknown, Working
<1>2. ASSUME stage[w] = "running"
      PROVE  /\ current[w] \in batch[w] /\ current[w] \in Keys /\ Working(w)
             /\ status[current[w]] = "running"
             /\ copy[w][current[w]] = retries[current[w]]
             /\ retries[current[w]] \in 0..MaxRetries /\ runs[current[w]] \in Nat
             /\ retries[current[w]] < MaxRetries
             /\ runs[current[w]] <= retries[current[w]] + 1
  BY <1>2 DEF JobInv, JobTypeOK, Hands, Budget, Working
<1>3. CASE SaveResult(w)
  BY <1>2, <1>3, DropStep DEF SaveResult, JobInv, JobTypeOK
<1>4. CASE FailUnsaved(w)
  <2>1. retries' = [retries EXCEPT ![current[w]] = retries[current[w]]] /\ due' \subseteq Keys
    BY <1>4 DEF FailUnsaved, JobInv, JobTypeOK
  <2> QED BY <1>2, <1>4, <2>1, DropStep DEF FailUnsaved
<1>5. CASE SaveFailure(w)
  <2> DEFINE k == current[w]
             n == copy[w][k] + 1
  <2>1. n \in 0..MaxRetries /\ n = retries[k] + 1 /\ due' \subseteq Keys
    BY <1>2, <1>5, JobAssumption DEF SaveFailure, JobInv, JobTypeOK, JobAssumption
  <2>2. PICK s \in {"pending", "failed"} :
          status' = [status EXCEPT ![k] = s] /\ (s = "pending" => n < MaxRetries)
    BY <1>5 DEF SaveFailure
  <2>3. CASE s = "failed"
    BY <1>2, <1>5, <2>1, <2>2, <2>3, DropStep DEF SaveFailure
  <2>4. CASE s = "pending"
    <3>1. runs[k] = n
      BY <1>2, <1>5, <2>1 DEF SaveFailure, JobInv, Budget, InRun
    <3> QED BY <1>2, <1>5, <2>1, <2>2, <2>4, <3>1, DropStep DEF SaveFailure
  <2> QED BY <2>2, <2>3, <2>4
<1> QED BY <1>1, <1>3, <1>4, <1>5

-----------------------------------------------------------------------------
LEMMA IdleStep ==
  ASSUME JobInv,
         \/ \E k \in Keys : BecomeDue(k)
         \/ \E w \in Workers : Crash(w) \/ Restart(w)
         \/ \E S \in SUBSET Keys : CleanupOldJobs(S)
         \/ UNCHANGED vars
  PROVE  JobInv'
<1>1. CASE \E k \in Keys : BecomeDue(k)
  BY <1>1 DEF BecomeDue, JobInv, JobTypeOK, Hands, Apart, Budget, InRun, Working,
     workerVars, boundVars
<1>2. CASE UNCHANGED vars
  BY <1>2 DEF vars, rowVars, workerVars, boundVars, JobInv, JobTypeOK, Hands, Apart,
     Budget, InRun, Working
<1>3. ASSUME NEW w \in Workers, Restart(w) PROVE JobInv'
  BY <1>3 DEF Restart, JobInv, JobTypeOK, Hands, Apart, Budget, InRun, Working,
     rowVars, boundVars
<1>4. ASSUME NEW w \in Workers, Crash(w) PROVE JobInv'
  <2>1. JobTypeOK'
    BY <1>4, JobAssumption DEF JobAssumption, Crash, JobInv, JobTypeOK, rowVars
  <2>2. Hands' /\ Apart'
    BY <1>4 DEF Crash, JobInv, JobTypeOK, Hands, Apart, Working, rowVars
  <2>3. Budget'
    BY <1>4 DEF Crash, JobInv, JobTypeOK, Budget, InRun, rowVars
  <2> QED BY <2>1, <2>2, <2>3 DEF JobInv
<1>5. ASSUME NEW S \in SUBSET Keys, CleanupOldJobs(S) PROVE JobInv'
  <2>1. JobTypeOK'
    BY <1>5, JobAssumption DEF JobAssumption, CleanupOldJobs, JobInv, JobTypeOK, workerVars
  <2>2. Hands' /\ Apart'
    BY <1>5 DEF CleanupOldJobs, JobInv, JobTypeOK, Hands, Apart, Working, Settled, workerVars
  <2>3. Budget'
    BY <1>5 DEF CleanupOldJobs, JobInv, JobTypeOK, Budget, InRun, workerVars
  <2> QED BY <2>1, <2>2, <2>3 DEF JobInv
<1> QED BY <1>1, <1>2, <1>3, <1>4, <1>5

LEMMA StepInv == JobInv /\ [Next]_vars => JobInv'
BY CreateStep, ClaimStep, StartStep, FinishStep, IdleStep DEF Next, WorkerStep

\* The invariant holds in every reachable state.
THEOREM JobInvariance == Spec => []JobInv
BY InitInv, StepInv, PTL DEF Spec

\* Type correctness of the job queue (builder/jobs.py).
THEOREM JobTyping == Spec => []JobTypeOK
<1>1. JobInv => JobTypeOK
  BY DEF JobInv
<1> QED BY <1>1, JobInvariance, PTL

\* However many runner processes claim, crash and restart, no job is in two
\* hands and what a worker holds is not stale (the skip_locked claim).
THEOREM Exclusive == Spec => []SoleRunner
<1>1. JobInv => SoleRunner
  BY DEF JobInv, Hands, Apart, SoleRunner
<1> QED BY <1>1, JobInvariance, PTL

\* A row's handler is started at most max_retries times, for any number of
\* crashes and cleanups.
THEOREM Budgeted == Spec => []RetryBudget
<1>1. JobInv => RetryBudget
  BY DEF JobInv, Budget, RetryBudget
<1> QED BY <1>1, JobInvariance, PTL

\* Completed and failed jobs are never run or put back.
THEOREM SettledFinal == Spec => SettledIsFinal
<1> DEFINE Kept == \A k \in Keys : status[k] \in Settled =>
                     /\ status'[k] \in {status[k], "absent"}
                     /\ runs'[k] = runs[k]
<1>1. ASSUME JobInv, Next PROVE Kept
  <2>1. ASSUME NEW p \in Producers, InsertJob(p) PROVE Kept
    BY <1>1, <2>1 DEF InsertJob, Settled, JobInv, JobTypeOK, rowVars
  <2>2. ASSUME NEW p \in Producers, NEW k \in Keys, FindMissing(p, k)
        PROVE Kept
    BY <2>2 DEF FindMissing, rowVars
  <2>3. ASSUME NEW w \in Workers, SelectBatch(w) \/ Crash(w) \/ Restart(w) PROVE Kept
    BY <2>3 DEF SelectBatch, Crash, Restart, rowVars
  <2>4. ASSUME NEW w \in Workers, CommitClaim(w) PROVE Kept
    BY <1>1, <2>4 DEF CommitClaim, JobInv, JobTypeOK, Hands, Settled
  <2>5. ASSUME NEW w \in Workers, StartHandler(w) PROVE Kept
    BY <1>1, <2>5 DEF StartHandler, NextOf, JobInv, JobTypeOK, Hands, Working, Settled, rowVars
  <2>6. ASSUME NEW w \in Workers,
               RefuseUnknown(w) \/ SaveResult(w) \/ SaveFailure(w) \/ FailUnsaved(w)
        PROVE Kept
    BY <1>1, <2>6 DEF RefuseUnknown, SaveResult, SaveFailure, FailUnsaved, NextOf,
       JobInv, JobTypeOK, Hands, Working, Settled
  <2>7. ASSUME NEW S \in SUBSET Keys, CleanupOldJobs(S) PROVE Kept
    BY <2>7 DEF CleanupOldJobs
  <2>8. ASSUME NEW k \in Keys, BecomeDue(k) PROVE Kept
    BY <2>8 DEF BecomeDue
  <2> QED BY <1>1, <2>1, <2>2, <2>3, <2>4, <2>5, <2>6, <2>7, <2>8 DEF Next, WorkerStep
<1>2. JobInv /\ [Next]_vars => [Kept]_<<status, runs>>
  BY <1>1 DEF vars, rowVars
<1> QED BY <1>2, JobInvariance, PTL DEF Spec, SettledIsFinal

-----------------------------------------------------------------------------
(* AI generation on the queue.                                               *)

allVars == <<vars, aiVars>>

\* How many members of A the function f maps into P.
Count(A, f, P) == Cardinality({x \in A : f[x] \in P})

\* Moving one process changes the count by that process alone.
LEMMA CountMove ==
  ASSUME NEW a \in Actors, NEW q, NEW P,
         \A x \in Actors : at'[x] = IF x = a THEN q ELSE at[x]
  PROVE  /\ Count(Actors, at, P) \in Nat /\ Count(Actors, at', P) \in Nat
         /\ Count(Actors, at', P) = Count(Actors, at, P)
               - (IF at[a] \in P THEN 1 ELSE 0) + (IF q \in P THEN 1 ELSE 0)
<1> DEFINE F == {x \in Actors : at[x] \in P}
           G == {x \in Actors : at'[x] \in P}
<1>1. IsFiniteSet(F) /\ IsFiniteSet(G)
  BY AIAssumption, FS_Union, FS_Subset DEF AIAssumption, Actors
<1>2. Cardinality(F) \in Nat /\ Cardinality(G) \in Nat
  BY <1>1, FS_CardinalityType
<1>3. F \ {a} = G \ {a}
  OBVIOUS
<1>4. /\ Cardinality(F \ {a}) = IF a \in F THEN Cardinality(F) - 1 ELSE Cardinality(F)
      /\ Cardinality(G \ {a}) = IF a \in G THEN Cardinality(G) - 1 ELSE Cardinality(G)
  BY <1>1, FS_RemoveElement
<1>5. (a \in F <=> at[a] \in P) /\ (a \in G <=> q \in P)
  OBVIOUS
<1>6. Cardinality(F \ {a}) = Cardinality(G \ {a})
  BY <1>3
<1>7. /\ Cardinality(F \ {a}) = IF at[a] \in P THEN Cardinality(F) - 1 ELSE Cardinality(F)
      /\ Cardinality(G \ {a}) = IF q \in P THEN Cardinality(G) - 1 ELSE Cardinality(G)
  BY <1>4, <1>5, Zenon
<1> HIDE DEF F, G
<1>8. Cardinality(G) = Cardinality(F) - (IF at[a] \in P THEN 1 ELSE 0)
                        + (IF q \in P THEN 1 ELSE 0)
  BY <1>2, <1>6, <1>7
<1> QED BY <1>2, <1>8 DEF Count, F, G

\* Members counted for disjoint sets of values are different members.
LEMMA CountApart ==
  ASSUME NEW A, IsFiniteSet(A), NEW f, NEW P, NEW Q, P \cap Q = {}
  PROVE  /\ Count(A, f, P) \in Nat /\ Count(A, f, Q) \in Nat /\ Cardinality(A) \in Nat
         /\ Count(A, f, P) + Count(A, f, Q) <= Cardinality(A)
<1> DEFINE F == {x \in A : f[x] \in P}
           G == {x \in A : f[x] \in Q}
<1>1. IsFiniteSet(F) /\ IsFiniteSet(G) /\ IsFiniteSet(F \cup G)
  BY FS_Subset
<1>2. F \cap G = {} /\ F \cup G \subseteq A
  OBVIOUS
<1>3. /\ Cardinality(F \cup G) <= Cardinality(A)
      /\ Cardinality(F) \in Nat /\ Cardinality(G) \in Nat /\ Cardinality(A) \in Nat
  BY <1>1, <1>2, FS_Subset, FS_CardinalityType
<1>4. Cardinality(F \cup G) = Cardinality(F) + Cardinality(G) - Cardinality(F \cap G)
  BY <1>1, FS_Union
<1>5. Cardinality(F \cap G) = 0
  BY <1>2, FS_EmptySet
<1> HIDE DEF F, G
<1>6. Cardinality(F) + Cardinality(G) <= Cardinality(A)
  BY <1>3, <1>4, <1>5
<1> QED BY <1>3, <1>6 DEF Count, F, G

-----------------------------------------------------------------------------
(* The inductive invariant.                                                 *)

After == {"paid", "unpaid", "emitting"}
Owing == {"answered", "paid"}

\* Whose AIJob each process has, and how far it is.
Places ==
  /\ \A w \in Workers : at[w] \in After => ai[current[w]] \in Settled
  /\ \A p \in Producers :
       /\ at[p] # "none" <=> inline[p] # None
       /\ inline[p] # None => status[inline[p]] = "absent" /\ ai[inline[p]] # "absent"
       /\ creating[p] \in {None, submitting[p]}
       /\ submitting[p] # None => ai[submitting[p]] # "absent"
       /\ \A q \in Producers : inline[p] # None => inline[p] # submitting[q]
  /\ OutcomeRecorded

\* Every call is recorded, owed by a process or lost; those admitted and not
\* yet recorded are at most one per process.
Metered ==
  /\ calls <= used + Count(Actors, at, Owing) + lost
  /\ calls + Count(Actors, at, {"generate"}) < MaxRequests + Cardinality(Actors) + lost

AIInv == JobInv /\ AITypeOK /\ Places /\ Metered

-----------------------------------------------------------------------------
\* Every step is a step of the queue or leaves it alone.
LEMMA QueueStep ==
  ASSUME AITypeOK, [AINext]_allVars
  PROVE  [Next]_vars
<1> SUFFICES ASSUME AINext PROVE Next \/ UNCHANGED vars
  BY DEF allVars
<1>1. ASSUME NEW p \in Producers,
             (\E k \in Keys : Submit(p, k)) \/ LookForJob(p) \/ QueueJob(p) \/ EndInline(p)
      PROVE  Next \/ UNCHANGED vars
  <2>1. CASE LookForJob(p)
    <3>1. FindMissing(p, submitting[p]) /\ submitting[p] \in Keys
      BY <2>1 DEF LookForJob, AITypeOK
    <3> QED BY <3>1 DEF Next
  <2>2. CASE QueueJob(p)
    BY <2>2 DEF QueueJob, Next
  <2> QED BY <1>1, <2>1, <2>2 DEF Submit, EndInline
<1>2. ASSUME NEW a \in Actors, ProcessAIJob(a) PROVE UNCHANGED vars
  BY <1>2 DEF ProcessAIJob, Begin, Refuse, Admit, Generate, SaveOutcome, RecordUsage
<1>3. ASSUME NEW w \in Workers, Handle(w) \/ Return(w) \/ Raise(w) \/ Unsaved(w) \/ Die(w)
      PROVE  Next
  BY <1>3 DEF Handle, Return, Raise, Unsaved, Die, Next, WorkerStep
<1>4. CASE QueueOnly
  BY <1>4 DEF QueueOnly, Next, WorkerStep
<1> QED BY <1>1, <1>2, <1>3, <1>4 DEF AINext

LEMMA AIInitInv == AIInit => AIInv
<1> SUFFICES ASSUME AIInit PROVE AIInv
  OBVIOUS
<1>1. JobInv
  BY InitInv DEF AIInit
<1>2. AITypeOK /\ Places
  BY DEF AIInit, Init, AITypeOK, Places, OutcomeRecorded, After, Settled, Actors, TaskOf
<1>3. Metered
  <2>1. \A P : "none" \notin P => {x \in Actors : at[x] \in P} = {}
    BY DEF AIInit
  <2>2. Count(Actors, at, Owing) = 0 /\ Count(Actors, at, {"generate"}) = 0
    BY <2>1, FS_EmptySet DEF Count, Owing
  <2>3. Cardinality(Actors) \in Nat
    BY AIAssumption, FS_Union, FS_CardinalityType DEF AIAssumption, Actors
  <2> QED BY <2>2, <2>3, AIAssumption DEF AIInit, Metered, AIAssumption
<1> QED BY <1>1, <1>2, <1>3 DEF AIInv

\* One process moves to position q, and the metering follows.
LEMMA MeterMove ==
  ASSUME AITypeOK, Metered, NEW a \in Actors, NEW q,
         at' = [at EXCEPT ![a] = q],
         \/ /\ at[a] \notin Owing /\ q \notin Owing \cup {"generate"}
            /\ used' \in {used, used + 1} /\ UNCHANGED <<calls, lost>>
         \/ /\ at[a] = "moderate" /\ q = "generate" /\ used < MaxRequests
            /\ UNCHANGED <<used, calls, lost>>
         \/ /\ at[a] = "generate" /\ q = "answered"
            /\ calls' = calls + 1 /\ UNCHANGED <<used, lost>>
         \/ /\ at[a] = "answered" /\ q = "paid"
            /\ UNCHANGED <<used, calls, lost>>
         \/ /\ at[a] = "paid" /\ q = "emitting"
            /\ used' = used + 1 /\ UNCHANGED <<calls, lost>>
         \/ /\ at[a] \in Owing /\ q = "none"
            /\ lost' = lost + 1 /\ UNCHANGED <<used, calls>>
  PROVE  Metered'
<1>1. IsFiniteSet(Actors)
  BY AIAssumption, FS_Union DEF AIAssumption, Actors
<1>2. \A x \in Actors : at'[x] = IF x = a THEN q ELSE at[x]
  BY DEF AITypeOK
<1>3. /\ Count(Actors, at, Owing) \in Nat /\ Count(Actors, at', Owing) \in Nat
      /\ Count(Actors, at', Owing) = Count(Actors, at, Owing)
            - (IF at[a] \in Owing THEN 1 ELSE 0) + (IF q \in Owing THEN 1 ELSE 0)
  BY ONLY a \in Actors, <1>2, CountMove
<1>4. /\ Count(Actors, at, {"generate"}) \in Nat /\ Count(Actors, at', {"generate"}) \in Nat
      /\ Count(Actors, at', {"generate"}) = Count(Actors, at, {"generate"})
            - (IF at[a] = "generate" THEN 1 ELSE 0) + (IF q = "generate" THEN 1 ELSE 0)
  <2>1. /\ Count(Actors, at, {"generate"}) \in Nat /\ Count(Actors, at', {"generate"}) \in Nat
        /\ Count(Actors, at', {"generate"}) = Count(Actors, at, {"generate"})
              - (IF at[a] \in {"generate"} THEN 1 ELSE 0) + (IF q \in {"generate"} THEN 1 ELSE 0)
    <3> DEFINE P == {"generate"}
    <3> HIDE DEF P
    <3>1. /\ Count(Actors, at, P) \in Nat /\ Count(Actors, at', P) \in Nat
        /\ Count(Actors, at', P) = Count(Actors, at, P)
              - (IF at[a] \in P THEN 1 ELSE 0) + (IF q \in P THEN 1 ELSE 0)
      BY ONLY a \in Actors, <1>2, CountMove
    <3> QED BY <3>1 DEF P
  <2> QED BY <2>1
<1>5. /\ Count(Actors, at', Owing) + Count(Actors, at', {"generate"}) <= Cardinality(Actors)
      /\ Cardinality(Actors) \in Nat
  BY <1>1, CountApart DEF Owing
<1>6. /\ used \in Nat /\ calls \in Nat /\ lost \in Nat /\ MaxRequests \in Nat
  BY AIAssumption DEF AITypeOK, AIAssumption
<1> DEFINE N == Count(Actors, at, Owing)
           M == Count(Actors, at', Owing)
           G == Count(Actors, at, {"generate"})
           H == Count(Actors, at', {"generate"})
           A == Cardinality(Actors)
<1>7. calls <= used + N + lost /\ calls + G < MaxRequests + A + lost
  BY DEF Metered
<1>8. /\ M = N - (IF at[a] \in Owing THEN 1 ELSE 0) + (IF q \in Owing THEN 1 ELSE 0)
      /\ H = G - (IF at[a] = "generate" THEN 1 ELSE 0) + (IF q = "generate" THEN 1 ELSE 0)
      /\ M + H <= A /\ N \in Nat /\ M \in Nat /\ G \in Nat /\ H \in Nat /\ A \in Nat
  BY <1>3, <1>4, <1>5
<1> HIDE DEF N, M, G, H, A
<1>9. calls' <= used' + M + lost' /\ calls' + H < MaxRequests + A + lost'
  BY <1>6, <1>7, <1>8 DEF Owing
<1> QED BY <1>9 DEF Metered, M, H, A

LEMMA MeterSame == ASSUME Metered, UNCHANGED <<at, used, calls, lost>> PROVE Metered'
BY DEF Metered
-----------------------------------------------------------------------------
(* Requests.                                                                *)

LEMMA ProducersApart == \A p \in Producers : p \in Actors /\ p \notin Workers
BY AIAssumption DEF AIAssumption, Actors

LEMMA SubmitStep ==
  ASSUME AIInv, NEW p \in Producers, NEW k \in Keys, Submit(p, k)
  PROVE  AITypeOK' /\ Places' /\ Metered'
<1>1. /\ submitting[p] = None /\ at[p] = "none" /\ ai[k] = "absent"
      /\ ai' = [ai EXCEPT ![k] = "queued"]
      /\ UNCHANGED <<status, stage, current, creating, used, calls, asked, lost>>
  BY DEF Submit, metering, vars, rowVars, workerVars
<1>2. p \in Actors /\ p \notin Workers /\ k # None
  BY ProducersApart, JobAssumption DEF JobAssumption
<1>3. CASE UNCHANGED <<inline, at>> /\ submitting' = [submitting EXCEPT ![p] = k]
  <2>1. AITypeOK'
    BY <1>1, <1>2, <1>3 DEF AIInv, AITypeOK, TaskOf
  <2>2. Places'
    BY <1>1, <1>2, <1>3 DEF AIInv, AITypeOK, Places, After, OutcomeRecorded, Settled
  <2> QED BY <2>1, <2>2, <1>1, <1>3, MeterSame DEF AIInv
<1>4. CASE /\ inline' = [inline EXCEPT ![p] = k]
           /\ at' = [at EXCEPT ![p] = "begin"]
           /\ UNCHANGED submitting
  <2>1. AITypeOK'
    BY <1>1, <1>2, <1>4 DEF AIInv, AITypeOK, TaskOf, Actors
  <2>2. Places'
    BY <1>1, <1>2, <1>4 DEF AIInv, AITypeOK, Places, After, OutcomeRecorded, Settled
  <2>3. Metered'
    BY <1>1, <1>2, <1>4, MeterMove DEF AIInv, AITypeOK, Owing
  <2> QED BY <2>1, <2>2, <2>3
<1> QED BY <1>3, <1>4 DEF Submit

LEMMA QueueJobStep ==
  ASSUME AIInv, NEW p \in Producers, LookForJob(p) \/ QueueJob(p)
  PROVE  AITypeOK' /\ Places' /\ Metered'
<1>1. CASE LookForJob(p)
  <2>1. /\ UNCHANGED <<status, stage, current, ai, submitting, inline, at, used, calls, asked, lost>>
        /\ creating' = [creating EXCEPT ![p] = submitting[p]]
    BY <1>1 DEF LookForJob, FindMissing, rowVars, workerVars, aiVars
  <2>2. AITypeOK' /\ Places'
    BY <2>1 DEF AIInv, JobInv, JobTypeOK, AITypeOK, Places, TaskOf, After, OutcomeRecorded
  <2> QED BY <2>1, <2>2, MeterSame DEF AIInv
<1>2. CASE QueueJob(p)
  <2> DEFINE k == creating[p]
  <2>1. /\ UNCHANGED <<stage, current, ai, inline, at, used, calls, asked, lost>>
        /\ submitting' = [submitting EXCEPT ![p] = None]
        /\ creating' = [creating EXCEPT ![p] = None]
        /\ status' = status \/ status' = [status EXCEPT ![k] = "pending"]
        /\ k # None
    BY <1>2 DEF QueueJob, InsertJob, rowVars, workerVars, metering
  <2>2. k = submitting[p] /\ k \in Keys /\ ai[k] # "absent"
    BY <2>1 DEF AIInv, JobInv, JobTypeOK, Places
  <2>3. \A q \in Producers : inline[q] # k
    BY <2>1, <2>2 DEF AIInv, Places
  <2> HIDE DEF k
  <2>4. AITypeOK'
    BY <2>1, <2>2 DEF AIInv, JobInv, JobTypeOK, AITypeOK, TaskOf
  <2>5. Places'
    BY <2>1, <2>2, <2>3 DEF AIInv, JobInv, JobTypeOK, AITypeOK, Places, After, OutcomeRecorded
  <2> QED BY <2>1, <2>4, <2>5, MeterSame DEF AIInv
<1> QED BY <1>1, <1>2

\* What Leave does to the metering: a call still owed becomes a lost one.
LEMMA LeaveMeter ==
  ASSUME AIInv, NEW a \in Actors, Leave(a)
  PROVE  Metered'
<1>1. at' = [at EXCEPT ![a] = "none"] /\ used' = used /\ calls' = calls
  BY DEF Leave
<1>2. CASE at[a] \in Owing
  <2>1. lost' = lost + 1
    BY <1>2 DEF Leave, Owing
  <2> QED BY <1>1, <1>2, <2>1, MeterMove DEF AIInv
<1>3. CASE at[a] \notin Owing
  <2>1. lost' = lost
    BY <1>3 DEF Leave, Owing
  <2> QED BY <1>1, <1>3, <2>1, MeterMove DEF AIInv, Owing
<1> QED BY <1>2, <1>3

LEMMA EndInlineStep ==
  ASSUME AIInv, NEW p \in Producers, EndInline(p)
  PROVE  AITypeOK' /\ Places' /\ Metered'
<1>1. /\ UNCHANGED <<status, stage, current, creating, ai, submitting, used, calls, asked>>
      /\ at' = [at EXCEPT ![p] = "none"]
      /\ inline' = [inline EXCEPT ![p] = None]
      /\ lost' \in {lost, lost + 1}
      /\ p \in Actors /\ p \notin Workers
  BY ProducersApart DEF EndInline, Leave, vars, rowVars, workerVars
<1>2. AITypeOK'
  BY <1>1 DEF AIInv, AITypeOK, TaskOf, Actors
<1>3. Places'
  BY <1>1 DEF AIInv, AITypeOK, Places, After, OutcomeRecorded
<1>4. Metered'
  BY <1>1, LeaveMeter DEF EndInline
<1> QED BY <1>2, <1>3, <1>4
-----------------------------------------------------------------------------
(* process_ai_job.                                                          *)

\* The AIJob a process is working on is touched by no other, and its queue job
\* has not completed.
LEMMA OwnTask ==
  ASSUME AIInv, NEW a \in Actors, at[a] # "none"
  PROVE  /\ TaskOf(a) \in Keys /\ ai[TaskOf(a)] # "absent"
         /\ status[TaskOf(a)] # "completed"
         /\ \A w \in Workers : w # a /\ at[w] # "none" => current[w] # TaskOf(a)
<1>1. TaskOf(a) \in Keys
  BY DEF AIInv, AITypeOK
<1>2. CASE a \in Workers
  BY <1>1, <1>2 DEF TaskOf, AIInv, AITypeOK, JobInv, Hands, Apart, Working
<1>3. CASE a \notin Workers
  <2>1. a \in Producers /\ TaskOf(a) = inline[a] /\ inline[a] # None
    BY <1>3 DEF Actors, TaskOf, AIInv, Places
  <2>2. status[inline[a]] = "absent" /\ ai[inline[a]] # "absent"
    BY <2>1 DEF AIInv, Places
  <2>3. \A w \in Workers : at[w] # "none" => status[current[w]] = "running"
    BY DEF AIInv, AITypeOK, JobInv, Hands, Working
  <2> QED BY <1>1, <2>1, <2>2, <2>3
<1> QED BY <1>2, <1>3

LEMMA ProcessStep ==
  ASSUME AIInv, NEW a \in Actors, ProcessAIJob(a)
  PROVE  AITypeOK' /\ Places' /\ Metered'
<1> DEFINE k == TaskOf(a)
<1>1. /\ UNCHANGED <<status, stage, current, creating, submitting, inline>>
      /\ at[a] # "none"
  BY DEF ProcessAIJob, Begin, Refuse, Admit, Generate, SaveOutcome, RecordUsage,
     vars, rowVars, workerVars
<1>2. /\ k \in Keys /\ ai[k] # "absent" /\ status[k] # "completed"
      /\ \A w \in Workers : w # a /\ at[w] # "none" => current[w] # k
  BY <1>1, OwnTask
<1>3. /\ used' \in Nat /\ calls' \in Nat /\ lost' \in Nat /\ asked' \in [Keys -> Nat]
  BY <1>2 DEF ProcessAIJob, Begin, Refuse, Admit, Generate, SaveOutcome, RecordUsage,
     metering, AIInv, AITypeOK
<1>4. PICK q \in {"moderate", "generate", "answered", "paid", "unpaid", "emitting"} :
        /\ at' = [at EXCEPT ![a] = q]
        /\ \/ ai' = ai /\ (q \in After => at[a] \in After)
           \/ \E s \in {"running"} \cup Settled :
                ai' = [ai EXCEPT ![k] = s] /\ (q \in After => s \in Settled)
  <2>1. CASE Begin(a) BY <2>1 DEF Begin, After
  <2>2. CASE Refuse(a) BY <2>2 DEF Refuse, After, Settled
  <2>3. CASE Admit(a) BY <2>3 DEF Admit, After
  <2>4. CASE Generate(a) BY <2>4 DEF Generate, After
  <2>5. CASE SaveOutcome(a) BY <2>5 DEF SaveOutcome, After
  <2>6. CASE RecordUsage(a) BY <2>6 DEF RecordUsage, After
  <2> QED BY <2>1, <2>2, <2>3, <2>4, <2>5, <2>6 DEF ProcessAIJob
<1>5. Metered'
  <2>1. CASE Begin(a)
    BY <2>1, MeterMove DEF Begin, metering, AIInv, Owing
  <2>2. CASE Refuse(a)
    BY <2>2, MeterMove DEF Refuse, metering, AIInv, Owing
  <2>3. CASE Admit(a)
    BY <2>3, MeterMove DEF Admit, metering, AIInv
  <2>4. CASE Generate(a)
    BY <2>4, MeterMove DEF Generate, AIInv
  <2>5. CASE SaveOutcome(a)
    BY <2>5, MeterMove DEF SaveOutcome, metering, AIInv
  <2>6. CASE RecordUsage(a)
    BY <2>6, MeterMove DEF RecordUsage, AIInv, Owing
  <2> QED BY <2>1, <2>2, <2>3, <2>4, <2>5, <2>6 DEF ProcessAIJob
<1> HIDE DEF k
<1>6. \A x \in Actors : TaskOf(x)' = TaskOf(x)
  BY <1>1 DEF TaskOf
<1>7. AITypeOK'
  BY <1>1, <1>2, <1>3, <1>4, <1>6 DEF AIInv, AITypeOK, Settled
<1>8. Places'
  <2>1. \A w \in Workers : at'[w] \in After => ai'[current'[w]] \in Settled
    <3>1. ASSUME NEW w \in Workers, at'[w] \in After PROVE ai'[current[w]] \in Settled
      <4>1. CASE w = a
        BY <1>1, <1>2, <1>4, <3>1, <4>1 DEF k, TaskOf, AIInv, AITypeOK, Places
      <4>2. CASE w # a
        <5>1. at[w] = at'[w] /\ at[w] # "none" /\ ai[current[w]] \in Settled
          BY <1>4, <3>1, <4>2 DEF AIInv, AITypeOK, Places, After
        <5>2. current[w] # k
          BY <1>2, <4>2, <5>1
        <5>3. \A j \in Keys : j # k => ai'[j] = ai[j]
          BY <1>4 DEF AIInv, AITypeOK
        <5>4. current[w] \in Keys
          BY <5>1 DEF AIInv, AITypeOK, TaskOf, Actors
        <5> QED BY <5>1, <5>2, <5>3, <5>4
      <4> QED BY <4>1, <4>2
    <3> QED BY <1>1, <3>1
  <2>2. \A p \in Producers : at'[p] # "none" <=> inline'[p] # None
    BY <1>1, <1>4 DEF AIInv, AITypeOK, Places, Actors
  <2>3. \A j \in Keys : ai[j] # "absent" => ai'[j] # "absent"
    BY <1>4 DEF AIInv, AITypeOK, Settled
  <2>4. OutcomeRecorded'
    BY <1>1, <1>2, <1>4 DEF AIInv, AITypeOK, Places, OutcomeRecorded
  <2> QED BY <1>1, <2>1, <2>2, <2>3, <2>4 DEF AIInv, AITypeOK, Places
<1> QED BY <1>5, <1>7, <1>8

-----------------------------------------------------------------------------
(* The steps of a runner in the queue.                                      *)

LEMMA HandleStep ==
  ASSUME AIInv, NEW w \in Workers, Handle(w)
  PROVE  AITypeOK' /\ Places' /\ Metered'
<1>1. /\ UNCHANGED <<status, creating, ai, submitting, inline, used, calls, asked, lost>>
      /\ stage[w] = "working" /\ at' = [at EXCEPT ![w] = "begin"]
      /\ stage' = [stage EXCEPT ![w] = "running"]
      /\ w \in Actors
  BY DEF Handle, StartHandler, rowVars, metering, Actors
<1>2. PICK k \in Keys : current' = [current EXCEPT ![w] = k]
  BY DEF Handle, StartHandler, NextOf, AIInv, JobInv, JobTypeOK
<1>3. AITypeOK'
  <2>1. \A a \in Actors : at'[a] # "none" => TaskOf(a)' \in Keys
    BY <1>1, <1>2 DEF AIInv, AITypeOK, JobInv, JobTypeOK, TaskOf
  <2>2. \A v \in Workers : at'[v] # "none" <=> stage'[v] = "running"
    BY <1>1 DEF AIInv, AITypeOK, JobInv, JobTypeOK, Actors
  <2> QED BY <1>1, <2>1, <2>2 DEF AIInv, AITypeOK
<1>4. Places'
  BY <1>1, <1>2, ProducersApart
  DEF AIInv, AITypeOK, JobInv, JobTypeOK, Places, After, OutcomeRecorded, Actors
<1>5. Metered'
  <2>1. at[w] = "none"
    BY <1>1 DEF AIInv, AITypeOK, Actors
  <2> QED BY <1>1, <2>1, MeterMove DEF AIInv, Owing
<1> QED BY <1>3, <1>4, <1>5

\* A runner leaves process_ai_job: its job completed with its AIJob settled,
\* or the job is pending, failed or still running.
LEMMA LeaveStep ==
  ASSUME AIInv, NEW w \in Workers, Leave(w), UNCHANGED inline,
         NEW s, stage' = [stage EXCEPT ![w] = s], s # "running",
         current' = [current EXCEPT ![w] = None], UNCHANGED creating,
         \/ status' = status
         \/ \E k \in Keys, u \in {"pending"} \cup Settled :
              /\ status[k] = "running"
              /\ status' = [status EXCEPT ![k] = u]
              /\ u = "completed" => ai[k] \in Settled
  PROVE  AITypeOK' /\ Places' /\ Metered'
<1>1. /\ UNCHANGED <<ai, submitting, used, calls, asked>>
      /\ at' = [at EXCEPT ![w] = "none"]
      /\ lost' \in {lost, lost + 1}
      /\ w \in Actors
  BY DEF Leave, Actors
<1>2. AITypeOK'
  <2>1. \A a \in Actors : at'[a] # "none" => TaskOf(a)' \in Keys
    BY <1>1 DEF AIInv, AITypeOK, JobInv, JobTypeOK, TaskOf
  <2>2. \A v \in Workers : at'[v] # "none" <=> stage'[v] = "running"
    BY <1>1 DEF AIInv, AITypeOK, JobInv, JobTypeOK, Actors
  <2>3. \A j \in Keys : status'[j] # "absent" => ai[j] # "absent"
    BY DEF AIInv, AITypeOK, JobInv, JobTypeOK, Settled
  <2> QED BY <1>1, <2>1, <2>2, <2>3 DEF AIInv, AITypeOK
<1>3. Places'
  <2>1. \A v \in Workers : at'[v] \in After => ai'[current'[v]] \in Settled
    BY <1>1 DEF AIInv, AITypeOK, JobInv, JobTypeOK, Places, After, Actors
  <2>2. \A p \in Producers : inline'[p] # None => status'[inline'[p]] = "absent"
    BY DEF AIInv, AITypeOK, JobInv, JobTypeOK, Places
  <2>3. \A p \in Producers : at'[p] = at[p]
    BY <1>1, ProducersApart DEF AIInv, AITypeOK
  <2>4. OutcomeRecorded'
    BY <1>1 DEF AIInv, JobInv, JobTypeOK, Places, OutcomeRecorded
  <2> QED BY <1>1, <2>1, <2>2, <2>3, <2>4 DEF AIInv, Places
<1> QED BY <1>2, <1>3, LeaveMeter DEF Actors

LEMMA RunnerStep ==
  ASSUME AIInv, NEW w \in Workers, Handle(w) \/ Return(w) \/ Raise(w) \/ Unsaved(w) \/ Die(w)
  PROVE  AITypeOK' /\ Places' /\ Metered'
<1> DEFINE k == current[w]
<1>1. ASSUME stage[w] = "running"
      PROVE  k \in Keys /\ status[k] = "running"
  BY <1>1 DEF AIInv, AITypeOK, JobInv, JobTypeOK, Hands, Working
<1>2. CASE Return(w)
  <2>1. /\ stage[w] = "running" /\ at[w] = "emitting"
        /\ status' = [status EXCEPT ![k] = "completed"]
        /\ UNCHANGED <<creating, inline>> /\ Drop(w, k) /\ Leave(w)
    BY <1>2 DEF Return, SaveResult
  <2>2. ai[k] \in Settled
    BY <2>1 DEF AIInv, Places, After
  <2> QED BY <1>1, <2>1, <2>2, LeaveStep DEF Drop, Settled
<1>3. CASE Raise(w)
  <2>1. /\ stage[w] = "running"
        /\ \E u \in {"pending", "failed"} : status' = [status EXCEPT ![k] = u]
        /\ UNCHANGED <<creating, inline>> /\ Drop(w, k) /\ Leave(w)
    BY <1>3 DEF Raise, SaveFailure
  <2> QED BY <1>1, <2>1, LeaveStep DEF Drop, Settled
<1>4. CASE Unsaved(w)
  <2>1. /\ stage[w] = "running"
        /\ \E u \in {"pending", "failed"} : status' = [status EXCEPT ![k] = u]
        /\ UNCHANGED <<creating, inline>> /\ Drop(w, k) /\ Leave(w)
    BY <1>4 DEF Unsaved, FailUnsaved
  <2> QED BY <1>1, <2>1, LeaveStep DEF Drop, Settled
<1>5. CASE Die(w)
  <2>1. /\ UNCHANGED <<status, creating, inline>> /\ Leave(w)
        /\ stage' = [stage EXCEPT ![w] = "down"] /\ current' = [current EXCEPT ![w] = None]
    BY <1>5 DEF Die, Crash, rowVars
  <2> QED BY <2>1, LeaveStep
<1>6. CASE Handle(w)
  BY <1>6, HandleStep
<1> QED BY <1>2, <1>3, <1>4, <1>5, <1>6

-----------------------------------------------------------------------------
(* Steps that touch no AI job, and the theorems.                            *)

LEMMA QueueOnlyStep ==
  ASSUME AIInv, QueueOnly \/ UNCHANGED allVars
  PROVE  AITypeOK' /\ Places' /\ Metered'
<1>1. UNCHANGED aiVars
  BY DEF QueueOnly, allVars
<1>2. Metered'
  BY <1>1, MeterSame DEF AIInv, aiVars
<1>3. CASE UNCHANGED allVars
  BY <1>2, <1>3 DEF allVars, vars, rowVars, workerVars, aiVars, AIInv, AITypeOK, Places,
     TaskOf, After, OutcomeRecorded
<1>4. ASSUME UNCHANGED creating,
             \A k \in Keys : status'[k] = status[k]
                   \/ (status[k] # "absent" /\ status'[k] # "completed"),
             \A w \in Workers : at[w] # "none" => current'[w] = current[w],
             \A w \in Workers : stage'[w] = "running" <=> stage[w] = "running"
      PROVE  AITypeOK' /\ Places'
  <2>1. \A a \in Actors : at[a] # "none" => TaskOf(a)' = TaskOf(a)
    BY <1>1, <1>4 DEF TaskOf, aiVars
  <2>2. AITypeOK'
    BY <1>1, <1>4, <2>1 DEF AIInv, AITypeOK, aiVars
  <2>3. Places'
    BY <1>1, <1>4 DEF AIInv, AITypeOK, Places, aiVars, After, OutcomeRecorded
  <2> QED BY <2>2, <2>3
<1>5. ASSUME NEW k \in Keys, BecomeDue(k) PROVE AITypeOK' /\ Places'
  <2>1. UNCHANGED <<creating, status, current, stage>>
    BY <1>5 DEF BecomeDue, workerVars
  <2> QED BY <1>4, <2>1
<1>6. ASSUME NEW w \in Workers,
             \/ SelectBatch(w) /\ stage[w] = "idle"
             \/ Restart(w) /\ stage[w] = "down"
      PROVE  AITypeOK' /\ Places'
  <2>1. /\ UNCHANGED <<creating, status, current>>
        /\ stage[w] # "running"
        /\ stage' = [stage EXCEPT ![w] = "claiming"] \/ stage' = [stage EXCEPT ![w] = "idle"]
    BY <1>6 DEF SelectBatch, Restart, rowVars
  <2>2. \A v \in Workers : stage'[v] = "running" <=> stage[v] = "running"
    BY <2>1 DEF AIInv, JobInv, JobTypeOK
  <2> QED BY <1>4, <2>1, <2>2
<1>7. ASSUME NEW w \in Workers, CommitClaim(w) PROVE AITypeOK' /\ Places'
  <2>1. /\ UNCHANGED <<creating, current>>
        /\ stage[w] = "claiming" /\ stage' = [stage EXCEPT ![w] = "working"]
        /\ status' = [k \in Keys |-> IF k \in batch[w] THEN "running" ELSE status[k]]
    BY <1>7 DEF CommitClaim
  <2>2. \A k \in batch[w] : status[k] = "pending"
    BY <2>1 DEF AIInv, JobInv, Hands
  <2>3. \A k \in Keys : status'[k] = status[k]
          \/ (status[k] # "absent" /\ status'[k] # "completed")
    BY <2>1, <2>2
  <2>4. \A v \in Workers : stage'[v] = "running" <=> stage[v] = "running"
    BY <2>1 DEF AIInv, JobInv, JobTypeOK
  <2> QED BY <1>4, <2>1, <2>3, <2>4
<1>8. ASSUME NEW S \in SUBSET Keys, CleanupOldJobs(S) PROVE AITypeOK' /\ Places'
  <2>1. /\ UNCHANGED <<creating, current, stage>>
        /\ \A k \in S : status[k] # "absent"
        /\ status' = [k \in Keys |-> IF k \in S THEN "absent" ELSE status[k]]
    BY <1>8 DEF CleanupOldJobs, workerVars, Settled
  <2>2. \A k \in Keys : status'[k] = status[k]
          \/ (status[k] # "absent" /\ status'[k] # "completed")
    BY <2>1
  <2> QED BY <1>4, <2>1, <2>2
<1>9. ASSUME NEW w \in Workers, SelectBatch(w) \/ Restart(w) PROVE AITypeOK' /\ Places'
  BY <1>6, <1>9 DEF SelectBatch, Restart
<1>10. (QueueOnly \/ UNCHANGED allVars) => AITypeOK' /\ Places'
  BY <1>3, <1>5, <1>7, <1>8, <1>9 DEF QueueOnly
<1> QED BY <1>2, <1>10

LEMMA AIStepInv == AIInv /\ [AINext]_allVars => AIInv'
<1> SUFFICES ASSUME AIInv, [AINext]_allVars PROVE AIInv'
  OBVIOUS
<1>1. JobInv'
  BY QueueStep, StepInv DEF AIInv
<1>2. AITypeOK' /\ Places' /\ Metered'
  <2>1. ASSUME NEW p \in Producers,
               (\E k \in Keys : Submit(p, k)) \/ LookForJob(p) \/ QueueJob(p) \/ EndInline(p)
        PROVE  AITypeOK' /\ Places' /\ Metered'
    BY <2>1, SubmitStep, QueueJobStep, EndInlineStep
  <2>2. ASSUME NEW a \in Actors, ProcessAIJob(a) PROVE AITypeOK' /\ Places' /\ Metered'
    BY <2>2, ProcessStep
  <2>3. ASSUME NEW w \in Workers, Handle(w) \/ Return(w) \/ Raise(w) \/ Unsaved(w) \/ Die(w)
        PROVE  AITypeOK' /\ Places' /\ Metered'
    BY <2>3, RunnerStep
  <2> QED BY <2>1, <2>2, <2>3, QueueOnlyStep DEF AINext
<1> QED BY <1>1, <1>2 DEF AIInv

LEMMA AIInvariance == AISpec => []AIInv
BY AIInitInv, AIStepInv, PTL DEF AISpec, allVars

\* The AI service uses the job queue as the queue's own specification allows:
\* whatever is proved of JobQueue holds of the queue under AI generation.
THEOREM AIRefinesQueue == AISpec => Spec
<1>1. AIInit => Init
  BY DEF AIInit
<1>2. AIInv /\ [AINext]_allVars => [Next]_vars
  BY QueueStep DEF AIInv
<1> QED BY <1>1, <1>2, AIInvariance, PTL DEF AISpec, allVars, Spec

\* Every variable of the AI service keeps its type, a process in
\* process_ai_job has an AIJob, and no queue job precedes its AIJob.
THEOREM AITyping == AISpec => []AITypeOK
<1>1. AIInv => AITypeOK
  BY DEF AIInv
<1> QED BY <1>1, AIInvariance, PTL

\* The unlocked quota check of process_ai_job lets through at most one call
\* per process above the limit, lost usage records aside, for any number of
\* runners, requests, retries and crashes.
THEOREM QuotaBound == AISpec => []QuotaOvershoot
<1>1. ASSUME AIInv PROVE QuotaOvershoot
  <2>1. IsFiniteSet(Actors)
    BY AIAssumption, FS_Union DEF AIAssumption, Actors
  <2>2. Count(Actors, at, {"generate"}) \in Nat /\ Cardinality(Actors) \in Nat
    <3> DEFINE G == {"generate"}
    <3> HIDE DEF G
    <3>1. G \cap {} = {}
      OBVIOUS
    <3>2. Count(Actors, at, G) \in Nat /\ Cardinality(Actors) \in Nat
      BY ONLY <2>1, <3>1, CountApart
    <3> QED BY <3>2 DEF G
  <2> QED BY <1>1, <2>2, AIAssumption
      DEF AIInv, AITypeOK, Metered, QuotaOvershoot, AIAssumption
<1> QED BY <1>1, AIInvariance, PTL

\* A completed queue job has left its AIJob completed or failed, whatever
\* retries, crashes and in-place processing come between.
THEOREM OutcomeKept == AISpec => []OutcomeRecorded
<1>1. AIInv => OutcomeRecorded
  BY DEF AIInv, Places
<1> QED BY <1>1, AIInvariance, PTL

-----------------------------------------------------------------------------
(* Calls of the provider for one AIJob.                                     *)

Before == {"begin", "moderate", "generate"}

\* A run of the handler asks at most once, an AIJob processed in place is
\* asked for at most once, and one about to be queued was not asked for yet.
Asked ==
  /\ \A k \in Keys : asked[k] <= runs[k] \/ (asked[k] = 1 /\ status[k] = "absent")
  /\ \A k \in Keys : ai[k] = "absent" => asked[k] = 0
  /\ \A w \in Workers : at[w] \in Before => asked[current[w]] < runs[current[w]]
  /\ \A p \in Producers : at[p] \in Before => asked[inline[p]] = 0
  /\ \A p \in Producers :
       submitting[p] # None => status[submitting[p]] = "absent" /\ asked[submitting[p]] = 0
  /\ \A p, q \in Producers : p # q =>
       /\ submitting[p] # None => submitting[p] # submitting[q]
       /\ inline[p] # None => inline[p] # inline[q]

LEMMA AskRequest ==
  ASSUME AIInv, Asked, NEW p \in Producers,
         (\E k \in Keys : Submit(p, k)) \/ LookForJob(p) \/ QueueJob(p) \/ EndInline(p)
  PROVE  Asked'
<1>1. /\ UNCHANGED <<asked, current>>
      /\ p \in Actors /\ p \notin Workers
      /\ \A q \in Producers : q \in Actors /\ q \notin Workers
      /\ \A w \in Workers : at'[w] = at[w]
  <2>1. p \in Actors /\ \A q \in Producers : q \in Actors /\ q \notin Workers
    BY ProducersApart
  <2>2. UNCHANGED <<asked, current>>
    BY DEF Submit, LookForJob, FindMissing, QueueJob, InsertJob, EndInline, Leave, vars,
       workerVars, aiVars, metering
  <2>3. at' = at \/ \E s : at' = [at EXCEPT ![p] = s]
    BY DEF Submit, LookForJob, QueueJob, EndInline, Leave, aiVars
  <2>4. \A w \in Workers : at'[w] = at[w]
    BY <2>1, <2>3 DEF AIInv, AITypeOK, Actors
  <2> QED BY <2>1, <2>2, <2>4
<1>2. ASSUME NEW k \in Keys, Submit(p, k) PROVE Asked'
  <2>1. /\ UNCHANGED <<status, runs>>
        /\ ai' = [ai EXCEPT ![k] = "queued"] /\ ai[k] = "absent" /\ status[k] = "absent"
        /\ asked[k] = 0
        /\ \A q \in Producers : submitting[q] # k /\ inline[q] # k
        /\ k # None
    BY <1>2, JobAssumption
    DEF Submit, vars, rowVars, AIInv, AITypeOK, Places, Asked, JobAssumption
  <2>2. \/ UNCHANGED <<inline, at>> /\ submitting' = [submitting EXCEPT ![p] = k]
        \/ /\ inline' = [inline EXCEPT ![p] = k]
           /\ at' = [at EXCEPT ![p] = "begin"]
           /\ UNCHANGED submitting
    BY <1>2 DEF Submit
  <2> QED BY <1>1, <2>1, <2>2 DEF AIInv, AITypeOK, Asked, Before
<1>3. CASE LookForJob(p)
  BY <1>1, <1>3 DEF LookForJob, FindMissing, rowVars, aiVars, Asked
<1>4. CASE QueueJob(p)
  <2> DEFINE k == creating[p]
  <2>1. /\ UNCHANGED <<ai, inline, at>>
        /\ submitting' = [submitting EXCEPT ![p] = None]
        /\ k # None
    BY <1>4 DEF QueueJob, InsertJob, metering
  <2>2. k = submitting[p] /\ k \in Keys
    BY <2>1 DEF AIInv, JobInv, JobTypeOK, Places
  <2>3. status[k] = "absent" /\ asked[k] = 0
    BY <2>1, <2>2 DEF Asked
  <2>4. status' = [status EXCEPT ![k] = "pending"] /\ runs' = [runs EXCEPT ![k] = 0]
    BY <1>4, <2>3 DEF QueueJob, InsertJob
  <2>5. \A w \in Workers : at[w] # "none" => current[w] # k
    BY <2>3 DEF AIInv, AITypeOK, JobInv, Hands, Working
  <2> HIDE DEF k
  <2>6. \A j \in Keys : asked[j] <= runs'[j] \/ (asked[j] = 1 /\ status'[j] = "absent")
    BY <2>2, <2>3, <2>4 DEF Asked, AIInv, JobInv, JobTypeOK
  <2>7. \A w \in Workers : at[w] \in Before => asked[current[w]] < runs'[current[w]]
    <3>1. ASSUME NEW w \in Workers, at[w] \in Before PROVE asked[current[w]] < runs'[current[w]]
      <4>1. current[w] # k /\ asked[current[w]] < runs[current[w]]
        BY <2>5, <3>1 DEF Asked, Before
      <4>2. current[w] \in Keys
        BY <3>1 DEF AIInv, AITypeOK, TaskOf, Actors, Before
      <4> QED BY <2>4, <4>1, <4>2 DEF AIInv, JobInv, JobTypeOK
    <3> QED BY <3>1
  <2>8. \A q \in Producers :
          submitting'[q] # None => status'[submitting'[q]] = "absent" /\ asked[submitting'[q]] = 0
    BY <2>1, <2>2, <2>4 DEF Asked, AIInv, AITypeOK, JobInv, JobTypeOK
  <2>9. \A q, r \in Producers : q # r =>
          (submitting'[q] # None => submitting'[q] # submitting'[r])
    BY <2>1 DEF Asked, AIInv, AITypeOK
  <2> QED BY <1>1, <2>1, <2>6, <2>7, <2>8, <2>9 DEF Asked
<1>5. CASE EndInline(p)
  <2>1. /\ UNCHANGED <<status, runs, ai, submitting>>
        /\ inline' = [inline EXCEPT ![p] = None] /\ at' = [at EXCEPT ![p] = "none"]
    BY <1>5 DEF EndInline, Leave, vars, rowVars
  <2> QED BY <1>1, <2>1 DEF Asked, AIInv, AITypeOK, Before
<1> QED BY <1>2, <1>3, <1>4, <1>5

LEMMA AskProcess ==
  ASSUME AIInv, Asked, NEW a \in Actors, ProcessAIJob(a)
  PROVE  Asked'
<1> DEFINE k == TaskOf(a)
<1>1. /\ UNCHANGED <<status, runs, current, submitting, inline>>
      /\ at[a] # "none"
  BY DEF ProcessAIJob, Begin, Refuse, Admit, Generate, SaveOutcome, RecordUsage,
     vars, rowVars, workerVars
<1>2. /\ k \in Keys /\ ai[k] # "absent"
      /\ \A w \in Workers : w # a /\ at[w] # "none" => current[w] # k
  BY <1>1, OwnTask
<1>3. \A p \in Producers : p # a /\ at[p] # "none" => inline[p] # k
  <2>1. ASSUME NEW p \in Producers, p # a, at[p] # "none" PROVE inline[p] # k
    <3>1. inline[p] # None /\ status[inline[p]] = "absent"
      BY <2>1 DEF AIInv, Places
    <3>2. CASE a \in Workers
      BY <1>1, <3>1, <3>2 DEF TaskOf, AIInv, AITypeOK, JobInv, Hands, Working
    <3>3. CASE a \notin Workers
      BY <2>1, <3>1, <3>3 DEF Asked, TaskOf, Actors
    <3> QED BY <3>2, <3>3
  <2> QED BY <2>1
<1>4. \A p \in Producers : submitting[p] # k
  <2>1. CASE a \in Workers
    BY <1>1, <1>2, <2>1, JobAssumption
    DEF TaskOf, AIInv, AITypeOK, JobInv, Hands, Working, Asked, JobAssumption
  <2>2. CASE a \notin Workers
    BY <1>1, <2>2 DEF TaskOf, Actors, AIInv, Places
  <2> QED BY <2>1, <2>2
<1>5. /\ \A x \in Actors : x # a => at'[x] = at[x]
      /\ at'[a] \in Before => at[a] \in Before
      /\ \A j \in Keys : ai'[j] = "absent" => ai[j] = "absent"
  BY <1>1 DEF ProcessAIJob, Begin, Refuse, Admit, Generate, SaveOutcome, RecordUsage, Before,
     Settled, AIInv, AITypeOK
<1>6. CASE asked' = asked
  <2>1. \A x \in Actors : at'[x] \in Before => at[x] \in Before
    BY <1>5
  <2> QED BY <1>1, <1>5, <1>6, <2>1 DEF Asked, Actors
<1>7. CASE Generate(a)
  <2>1. /\ asked' = [asked EXCEPT ![k] = @ + 1]
        /\ at[a] = "generate" /\ at'[a] = "answered"
    BY <1>7 DEF Generate, AIInv, AITypeOK
  <2>2. /\ \A j \in Keys : asked'[j] = IF j = k THEN asked[k] + 1 ELSE asked[j]
        /\ \A j \in Keys : asked[j] \in Nat /\ runs[j] \in Nat
    BY <2>1 DEF AIInv, AITypeOK, JobInv, JobTypeOK
  <2> HIDE DEF k
  <2>3. asked[k] < runs[k] \/ (asked[k] = 0 /\ status[k] = "absent")
    <3>1. CASE a \in Workers
      BY <2>1, <3>1 DEF k, Asked, Before, TaskOf
    <3>2. CASE a \notin Workers
      BY <1>1, <2>1, <3>2 DEF k, Asked, Before, TaskOf, Actors, AIInv, Places
    <3> QED BY <3>1, <3>2
  <2>4. \A j \in Keys : asked'[j] <= runs[j] \/ (asked'[j] = 1 /\ status[j] = "absent")
    BY <1>2, <2>2, <2>3 DEF Asked
  <2>5. \A x \in Actors : at'[x] \in Before => x # a /\ at[x] \in Before
    BY <1>5, <2>1 DEF Before
  <2>6. \A w \in Workers : at'[w] \in Before => asked'[current[w]] < runs[current[w]]
    <3>1. ASSUME NEW w \in Workers, at'[w] \in Before PROVE asked'[current[w]] < runs[current[w]]
      <4>1. w # a /\ at[w] \in Before
        BY <2>5, <3>1 DEF Actors
      <4>2. current[w] # k /\ current[w] \in Keys /\ asked[current[w]] < runs[current[w]]
        BY <1>2, <4>1 DEF Asked, Before, AIInv, AITypeOK, TaskOf, Actors
      <4> QED BY <2>2, <4>2
    <3> QED BY <3>1
  <2>7. \A p \in Producers : at'[p] \in Before => asked'[inline[p]] = 0
    <3>1. ASSUME NEW p \in Producers, at'[p] \in Before PROVE asked'[inline[p]] = 0
      <4>1. p # a /\ at[p] \in Before /\ p \in Actors /\ p \notin Workers
        BY <2>5, <3>1, ProducersApart
      <4>2. inline[p] # k /\ inline[p] \in Keys /\ asked[inline[p]] = 0
        BY <1>3, <4>1 DEF Asked, Before, AIInv, AITypeOK, TaskOf
      <4> QED BY <2>2, <4>2
    <3> QED BY <3>1
  <2>8. \A p \in Producers :
          submitting[p] # None => status[submitting[p]] = "absent" /\ asked'[submitting[p]] = 0
    BY <1>4, <2>2 DEF Asked, AIInv, AITypeOK
  <2>9. \A j \in Keys : ai'[j] = "absent" => asked'[j] = 0
    BY <1>2, <1>5, <2>2 DEF Asked
  <2> QED BY <1>1, <2>4, <2>6, <2>7, <2>8, <2>9 DEF Asked
<1> QED BY <1>6, <1>7 DEF ProcessAIJob, Begin, Refuse, Admit, SaveOutcome, RecordUsage, metering

LEMMA AskRunner ==
  ASSUME AIInv, Asked, NEW w \in Workers, Handle(w) \/ Return(w) \/ Raise(w) \/ Unsaved(w) \/ Die(w)
  PROVE  Asked'
<1>1. UNCHANGED <<ai, submitting, inline, asked>>
  BY DEF Handle, Return, Raise, Unsaved, Die, Leave, metering
<1>2. CASE Handle(w)
  <2>1. /\ at' = [at EXCEPT ![w] = "begin"] /\ UNCHANGED status /\ stage[w] = "working"
    BY <1>2 DEF Handle, StartHandler, rowVars
  <2>2. PICK k \in batch[w] :
          current' = [current EXCEPT ![w] = k] /\ runs' = [runs EXCEPT ![k] = @ + 1]
    BY <1>2 DEF Handle, StartHandler, NextOf
  <2>3. k \in Keys /\ status[k] = "running"
    BY <2>1, <2>2 DEF AIInv, JobInv, JobTypeOK, Hands, Working
  <2>4. \A j \in Keys : /\ asked[j] \in Nat /\ runs[j] \in Nat
                        /\ runs'[j] = IF j = k THEN runs[k] + 1 ELSE runs[j]
    BY <2>2 DEF AIInv, AITypeOK, JobInv, JobTypeOK
  <2>5. \A v \in Workers : at'[v] \in Before => asked[current'[v]] < runs'[current'[v]]
    <3>1. ASSUME NEW v \in Workers, at'[v] \in Before PROVE asked[current'[v]] < runs'[current'[v]]
      <4>1. CASE v = w
        <5>1. current'[v] = k /\ asked[k] <= runs[k]
          BY <2>2, <2>3, <4>1 DEF Asked, AIInv, JobInv, JobTypeOK
        <5> QED BY <2>3, <2>4, <5>1
      <4>2. CASE v # w
        <5>1. current'[v] = current[v] /\ at[v] \in Before
          BY <2>1, <2>2, <3>1, <4>2 DEF AIInv, AITypeOK, JobInv, JobTypeOK, Actors
        <5>2. current[v] \in Keys /\ asked[current[v]] < runs[current[v]]
          BY <5>1 DEF Asked, AIInv, AITypeOK, TaskOf, Actors, Before
        <5> QED BY <2>4, <5>1, <5>2
      <4> QED BY <4>1, <4>2
    <3> QED BY <3>1
  <2>6. \A p \in Producers : at'[p] = at[p]
    BY <2>1, ProducersApart DEF AIInv, AITypeOK
  <2>7. \A j \in Keys : asked[j] <= runs'[j] \/ (asked[j] = 1 /\ status[j] = "absent")
    BY <2>3, <2>4 DEF Asked
  <2> QED BY <1>1, <2>1, <2>5, <2>6, <2>7 DEF Asked
<1>3. CASE Return(w) \/ Raise(w) \/ Unsaved(w) \/ Die(w)
  <2>1. /\ at' = [at EXCEPT ![w] = "none"] /\ UNCHANGED runs
        /\ current' = [current EXCEPT ![w] = None]
    BY <1>3 DEF Return, Raise, Unsaved, Die, Leave, SaveResult, SaveFailure, FailUnsaved, Crash,
       Drop
  <2>2. \A j \in Keys : status[j] = "absent" => status'[j] = "absent"
    <3>1. CASE Die(w)
      BY <3>1 DEF Die, Crash, rowVars
    <3>2. CASE Return(w) \/ Raise(w) \/ Unsaved(w)
      <4>1. stage[w] = "running" /\ \E u : status' = [status EXCEPT ![current[w]] = u]
        BY <3>2 DEF Return, Raise, Unsaved, SaveResult, SaveFailure, FailUnsaved
      <4>2. status[current[w]] = "running"
        BY <4>1 DEF AIInv, JobInv, Hands, Working
      <4> QED BY <4>1, <4>2 DEF AIInv, JobInv, JobTypeOK
    <3> QED BY <1>3, <3>1, <3>2
  <2>3. \A v \in Workers : at'[v] \in Before => at[v] \in Before /\ current'[v] = current[v]
    BY <2>1 DEF AIInv, AITypeOK, JobInv, JobTypeOK, Actors, Before
  <2>4. \A p \in Producers : at'[p] = at[p]
    BY <2>1, ProducersApart DEF AIInv, AITypeOK
  <2>5. \A p \in Producers : submitting[p] # None => submitting[p] \in Keys
    BY DEF AIInv, AITypeOK
  <2> QED BY <1>1, <2>1, <2>2, <2>3, <2>4, <2>5 DEF Asked
<1> QED BY <1>2, <1>3

LEMMA AskQueueOnly ==
  ASSUME AIInv, Asked, QueueOnly \/ UNCHANGED allVars
  PROVE  Asked'
<1>1. UNCHANGED <<ai, submitting, inline, asked, at, runs>>
  BY DEF QueueOnly, allVars, aiVars, metering, vars, BecomeDue, SelectBatch, CommitClaim, Restart,
     CleanupOldJobs, workerVars
<1>2. UNCHANGED current
  BY DEF QueueOnly, allVars, vars, BecomeDue, SelectBatch, CommitClaim, Restart,
     CleanupOldJobs, workerVars
<1>3. \A j \in Keys : status[j] = "absent" => status'[j] = "absent"
  <2>1. ASSUME NEW w \in Workers, CommitClaim(w)
        PROVE  \A j \in Keys : status[j] = "absent" => status'[j] = "absent"
    BY <2>1 DEF CommitClaim, AIInv, JobInv, Hands
  <2>2. ASSUME NEW S \in SUBSET Keys, CleanupOldJobs(S)
        PROVE  \A j \in Keys : status[j] = "absent" => status'[j] = "absent"
    BY <2>2 DEF CleanupOldJobs
  <2> QED BY <2>1, <2>2 DEF QueueOnly, allVars, vars, rowVars, BecomeDue, SelectBatch, Restart
<1>4. \A p \in Producers : submitting[p] # None => submitting[p] \in Keys
  BY DEF AIInv, AITypeOK
<1> QED BY <1>1, <1>2, <1>3, <1>4 DEF Asked

\* The retries of the queue multiply the calls of the provider for one AIJob
\* by max_retries and no more, through crashes, cleanups and in-place runs.
THEOREM ProviderAsked == AISpec => []ProviderBudget
<1>1. AIInit => Asked
  BY JobAssumption DEF AIInit, Init, Asked, Before, Actors, JobAssumption
<1>2. AIInv /\ Asked /\ [AINext]_allVars => Asked'
  BY AskRequest, AskProcess, AskRunner, AskQueueOnly DEF AINext
<1>3. AIInv /\ Asked => ProviderBudget
  <2> SUFFICES ASSUME AIInv, Asked, NEW k \in Keys PROVE asked[k] <= MaxRetries
    BY DEF ProviderBudget
  <2>1. runs[k] <= MaxRetries /\ runs[k] \in Nat /\ asked[k] \in Nat /\ MaxRetries \in Nat \ {0}
    BY JobAssumption DEF AIInv, AITypeOK, JobInv, JobTypeOK, Budget, JobAssumption
  <2>2. asked[k] <= runs[k] \/ asked[k] = 1
    BY DEF Asked
  <2> QED BY <2>1, <2>2
<1> QED BY <1>1, <1>2, <1>3, AIInvariance, PTL DEF AISpec, allVars

-----------------------------------------------------------------------------
(* The search entry of an asset.                                            *)

LEMMA SearchUsesQueue == SearchTypeOK /\ [SearchNext]_allSearchVars => [Next]_vars
<1> SUFFICES ASSUME SearchTypeOK, SearchNext PROVE [Next]_vars
  BY DEF allSearchVars
<1>1. ASSUME NEW p \in Producers,
             \/ Open(p) \/ Save(p) \/ Trash(p) \/ RestoreAsset(p) \/ HardDelete(p)
             \/ LookForIndexJob(p) \/ QueueIndexJob(p)
      PROVE  [Next]_vars
  <2>1. CASE Open(p) \/ Save(p) \/ Trash(p) \/ RestoreAsset(p) \/ HardDelete(p)
    BY <2>1 DEF Open, Save, Trash, RestoreAsset, HardDelete, Change
  <2>2. CASE LookForIndexJob(p)
    <3>1. <<asking[p], minute>> \in Keys
      BY <2>2, SearchAssumption DEF SearchAssumption, LookForIndexJob, SearchTypeOK
    <3> QED BY <2>2, <3>1 DEF LookForIndexJob, Next
  <2>3. CASE QueueIndexJob(p)
    BY <2>3 DEF QueueIndexJob, Next
  <2> QED BY <1>1, <2>1, <2>2, <2>3
<1>2. ASSUME NEW w \in Workers, HandleIndex(w) PROVE [Next]_vars
  BY <1>2 DEF HandleIndex, Load, Index, Skip, Remove
<1>3. ASSUME NEW w \in Workers,
             IndexReturns(w) \/ IndexRaises(w) \/ IndexUnsaved(w) \/ IndexDies(w)
      PROVE  Next
  BY <1>3 DEF IndexReturns, IndexRaises, IndexUnsaved, IndexDies, Next, WorkerStep
<1>4. CASE QueueAlone
  BY <1>4 DEF QueueAlone, Next, WorkerStep
<1>5. CASE NextMinute
  BY <1>5 DEF NextMinute
<1> QED BY <1>1, <1>2, <1>3, <1>4, <1>5 DEF SearchNext

(* The row and the requests are typed whatever the queue does.              *)
LEMMA SearchTypeStep ==
  ASSUME JobInv, SearchTypeOK, [SearchNext]_allSearchVars
  PROVE  SearchTypeOK'
<1>1. CASE UNCHANGED allSearchVars
  BY <1>1 DEF allSearchVars, searchVars, assetVars, vars, workerVars, SearchTypeOK
<1>2. ASSUME NEW p \in Producers,
             \/ Open(p) \/ Save(p) \/ Trash(p) \/ RestoreAsset(p) \/ HardDelete(p)
             \/ LookForIndexJob(p) \/ QueueIndexJob(p)
      PROVE  SearchTypeOK'
  <2>1. UNCHANGED <<stage, loaded, entry, minute>> /\ calm' \in BOOLEAN
    BY <1>2 DEF Open, Save, Trash, RestoreAsset, HardDelete, Change, LookForIndexJob,
       QueueIndexJob, FindMissing, InsertJob, vars, workerVars, SearchTypeOK
  <2>2. /\ text' \in Texts \cup {Gone} /\ trashed' \in BOOLEAN
        /\ changes' \in 0..MaxChanges
    <3>1. CASE Save(p)
      <4>1. /\ text' = changes + 2 /\ trashed' = opened[p] /\ changes' = changes + 1
            /\ opened[p] # None /\ changes < MaxChanges
        BY <3>1 DEF Save, Change
      <4> QED BY <4>1, SearchAssumption DEF SearchAssumption, SearchTypeOK, Texts
    <3>2. CASE Trash(p) \/ RestoreAsset(p) \/ HardDelete(p)
      <4>1. /\ text' \in {text, Gone} /\ trashed' \in BOOLEAN /\ changes' = changes + 1
            /\ changes < MaxChanges
        BY <3>2 DEF Trash, RestoreAsset, HardDelete, Change
      <4> QED BY <4>1, SearchAssumption DEF SearchAssumption, SearchTypeOK
    <3>3. CASE Open(p) \/ LookForIndexJob(p) \/ QueueIndexJob(p)
      BY <3>3 DEF Open, LookForIndexJob, QueueIndexJob, assetVars, SearchTypeOK
    <3> QED BY <1>2, <3>1, <3>2, <3>3
  <2>3. /\ opened' \in [Producers -> BOOLEAN \cup {None}]
        /\ asking' \in [Producers -> Ops \cup {None}]
    BY <1>2
    DEF Open, Save, Trash, RestoreAsset, HardDelete, Change, LookForIndexJob, QueueIndexJob,
        SearchTypeOK, Ops
  <2> QED BY <2>1, <2>2, <2>3 DEF SearchTypeOK
<1>3. ASSUME NEW w \in Workers, HandleIndex(w) PROVE SearchTypeOK'
  BY <1>3 DEF HandleIndex, Load, Index, Skip, Remove, Running, vars, workerVars, assetVars,
     SearchTypeOK
<1>4. ASSUME NEW w \in Workers,
             IndexReturns(w) \/ IndexRaises(w) \/ IndexUnsaved(w) \/ IndexDies(w)
      PROVE  SearchTypeOK'
  <2>1. /\ UNCHANGED <<assetVars, entry, minute, opened, asking>>
        /\ loaded' = [loaded EXCEPT ![w] = None] /\ calm' \in BOOLEAN
    BY <1>4 DEF IndexReturns, IndexRaises, IndexUnsaved, IndexDies, EndIndex, SearchTypeOK
  <2>2. \A v \in Workers : v # w => stage'[v] = stage[v]
    BY <1>4 DEF IndexReturns, IndexRaises, IndexUnsaved, IndexDies, SaveResult, SaveFailure,
       FailUnsaved, Crash, Drop, JobInv, JobTypeOK
  <2> QED BY <2>1, <2>2 DEF assetVars, SearchTypeOK
<1>5. CASE QueueAlone
  <2>1. UNCHANGED searchVars
    BY <1>5 DEF QueueAlone
  <2>2. \A w \in Workers : stage[w] = "running" => stage'[w] = "running"
    BY <1>5 DEF QueueAlone, BecomeDue, SelectBatch, CommitClaim, StartHandler, Restart,
       workerVars, JobInv, JobTypeOK
  <2> QED BY <2>1, <2>2 DEF searchVars, assetVars, SearchTypeOK
<1>6. CASE NextMinute
  BY <1>6, SearchAssumption
  DEF SearchAssumption, NextMinute, vars, workerVars, assetVars, SearchTypeOK
<1> QED BY <1>1, <1>2, <1>3, <1>4, <1>5, <1>6 DEF SearchNext

(* The operation that would put the entry right.                            *)
Aim == IF Wanted = Gone THEN "delete" ELSE "upsert"

\* All that is asked for, queued or under way is that operation.
OneAim ==
  /\ \A p \in Producers :
       asking[p] \in {None, Aim} /\ (creating[p] # None => creating[p][1] = Aim)
  /\ \A k \in Keys : status[k] \in {"pending", "running"} => k[1] = Aim

\* A handler has read the row as it is, and one that is through has left the
\* entry right.
HandlersAgree ==
  \A w \in Workers : stage[w] = "running" =>
    /\ loaded[w] \in {None, Done, Wanted}
    /\ loaded[w] = Wanted => Aim = "upsert"
    /\ loaded[w] = Done => entry = Wanted

\* While the entry is wrong there is work left.
WorkLeft == entry # Wanted => ~Drained

CalmInv == calm => OneAim /\ HandlersAgree /\ WorkLeft

LEMMA Codes ==
  ASSUME SearchTypeOK
  PROVE  /\ Wanted \in Texts \cup {Gone}
         /\ Gone \notin Texts /\ Done \notin Texts /\ Done # Gone
         /\ None \notin Texts /\ None # Gone /\ None # Done /\ None \notin Ops
BY SearchAssumption DEF SearchAssumption, SearchTypeOK, Wanted, Texts, Gone, Done

(* A change that met no other work leaves only its own request.             *)
LEMMA CalmChange ==
  ASSUME JobInv, SearchTypeOK, NEW p \in Producers, NEW op \in Ops,
         asking' = [asking EXCEPT ![p] = op], UNCHANGED vars, UNCHANGED loaded,
         calm' => ~Unfinished(op) /\ Aim' = op
  PROVE  CalmInv'
<1> SUFFICES ASSUME calm' PROVE OneAim' /\ HandlersAgree' /\ WorkLeft'
  BY DEF CalmInv
<1>1. UNCHANGED <<status, creating, stage>>
  BY DEF vars, rowVars, workerVars
<1>2. /\ \A w \in Workers : stage[w] # "running"
      /\ \A k \in Keys : status[k] \in {"pending", "running"} => k[1] = op
      /\ \A q \in Producers : asking[q] \in {None, op} /\ (creating[q] # None => creating[q][1] = op)
  BY DEF Unfinished, JobInv, JobTypeOK
<1>3. OneAim'
  BY <1>1, <1>2 DEF OneAim, SearchTypeOK
<1>4. HandlersAgree'
  BY <1>1, <1>2 DEF HandlersAgree
<1>5. asking'[p] # None
  BY SearchAssumption DEF SearchAssumption, SearchTypeOK
<1> QED BY <1>3, <1>4, <1>5 DEF WorkLeft, Drained

LEMMA CalmRequest ==
  ASSUME JobInv, SearchTypeOK, CalmInv, NEW p \in Producers,
         \/ Open(p) \/ Save(p) \/ Trash(p) \/ RestoreAsset(p) \/ HardDelete(p)
         \/ LookForIndexJob(p) \/ QueueIndexJob(p)
  PROVE  CalmInv'
<1>1. CASE Open(p)
  BY <1>1 DEF Open, vars, rowVars, workerVars, assetVars, CalmInv, OneAim, HandlersAgree, WorkLeft,
     Drained, Aim, Wanted
<1>2. CASE Save(p)
  <2>1. calm' => ~Unfinished("upsert") /\ Aim' = "upsert"
    <3>1. text' = changes + 2 /\ changes \in Nat /\ trashed' = opened[p]
      BY <1>2, SearchAssumption DEF SearchAssumption, Save, SearchTypeOK
    <3>2. calm' => ~Unfinished("upsert") /\ ~trashed'
      BY <1>2 DEF Save
    <3>3. text' # Gone
      BY <3>1 DEF Gone
    <3> QED BY <3>2, <3>3 DEF Aim, Wanted
  <2>2. /\ asking' = [asking EXCEPT ![p] = "upsert"] /\ UNCHANGED vars /\ UNCHANGED loaded
        /\ "upsert" \in Ops
    BY <1>2 DEF Save, Change, Ops
  <2> QED BY <2>1, <2>2, CalmChange
<1>3. CASE Trash(p)
  <2>1. calm' => ~Unfinished("delete") /\ Aim' = "delete"
    BY <1>3 DEF Trash, Aim, Wanted
  <2>2. /\ asking' = [asking EXCEPT ![p] = "delete"] /\ UNCHANGED vars /\ UNCHANGED loaded
        /\ "delete" \in Ops
    BY <1>3 DEF Trash, Change, Ops
  <2> QED BY <2>1, <2>2, CalmChange
<1>4. CASE RestoreAsset(p)
  <2>1. calm' => ~Unfinished("upsert") /\ Aim' = "upsert"
    BY <1>4 DEF RestoreAsset, Aim, Wanted
  <2>2. /\ asking' = [asking EXCEPT ![p] = "upsert"] /\ UNCHANGED vars /\ UNCHANGED loaded
        /\ "upsert" \in Ops
    BY <1>4 DEF RestoreAsset, Change, Ops
  <2> QED BY <2>1, <2>2, CalmChange
<1>5. CASE HardDelete(p)
  <2>1. calm' => ~Unfinished("delete") /\ Aim' = "delete"
    BY <1>5 DEF HardDelete, Aim, Wanted
  <2>2. /\ asking' = [asking EXCEPT ![p] = "delete"] /\ UNCHANGED vars /\ UNCHANGED loaded
        /\ "delete" \in Ops
    BY <1>5 DEF HardDelete, Change, Ops
  <2> QED BY <2>1, <2>2, CalmChange
<1>6. CASE LookForIndexJob(p)
  <2> DEFINE k == <<asking[p], minute>>
  <2>1. /\ asking[p] \in Ops /\ k \in Keys /\ k[1] = asking[p]
        /\ asking' = [asking EXCEPT ![p] = None]
        /\ UNCHANGED <<status, stage, assetVars, entry, loaded>>
    BY <1>6, SearchAssumption
    DEF SearchAssumption, LookForIndexJob, SearchTypeOK, FindMissing, vars, rowVars, workerVars
  <2>2. Aim' = Aim /\ Wanted' = Wanted
    BY <2>1 DEF Aim, Wanted, assetVars
  <2>3. CASE status[k] = "absent"
    <3>1. creating' = [creating EXCEPT ![p] = k] /\ calm' = calm
      BY <1>6, <2>3 DEF LookForIndexJob, FindMissing
    <3>2. k # None
      BY <2>1, JobAssumption DEF JobAssumption
    <3> HIDE DEF k
    <3>3. calm => OneAim'
      BY <2>1, <2>2, <3>1, SearchAssumption
      DEF SearchAssumption, CalmInv, OneAim, JobInv, JobTypeOK, SearchTypeOK
    <3>4. creating'[p] # None
      BY <3>1, <3>2 DEF JobInv, JobTypeOK
    <3> QED BY <2>1, <2>2, <3>1, <3>3, <3>4 DEF CalmInv, HandlersAgree, WorkLeft, Drained
  <2>4. CASE status[k] # "absent"
    <3>1. UNCHANGED vars /\ calm' = (calm /\ status[k] = "pending")
      BY <1>6, <2>4 DEF LookForIndexJob
    <3>2. creating' = creating
      BY <3>1 DEF vars
    <3> HIDE DEF k
    <3>3. calm => OneAim'
      BY <2>1, <2>2, <3>2 DEF CalmInv, OneAim, SearchTypeOK
    <3>4. calm' => ~Drained'
      BY <2>1, <3>1 DEF Drained
    <3> QED BY <2>1, <2>2, <3>1, <3>3, <3>4 DEF CalmInv, HandlersAgree, WorkLeft
  <2> QED BY <2>3, <2>4
<1>7. CASE QueueIndexJob(p)
  <2> DEFINE k == creating[p]
  <2>1. /\ k \in Keys /\ creating' = [creating EXCEPT ![p] = None]
        /\ calm' = (calm /\ status[k] \in {"absent", "pending"})
        /\ UNCHANGED <<stage, assetVars, entry, asking, loaded>>
        /\ status' = IF status[k] = "absent" THEN [status EXCEPT ![k] = "pending"] ELSE status
    BY <1>7 DEF QueueIndexJob, InsertJob, workerVars, rowVars, JobInv, JobTypeOK
  <2>2. Aim' = Aim /\ Wanted' = Wanted
    BY <2>1 DEF Aim, Wanted, assetVars
  <2>3. calm => k[1] = Aim
    BY <2>1, JobAssumption DEF JobAssumption, CalmInv, OneAim
  <2>4. calm' => status'[k] = "pending"
    BY <2>1 DEF JobInv, JobTypeOK
  <2> HIDE DEF k
  <2>5. calm => OneAim'
    BY <2>1, <2>2, <2>3 DEF CalmInv, OneAim, JobInv, JobTypeOK
  <2>6. calm' => ~Drained'
    BY <2>1, <2>4 DEF Drained
  <2> QED BY <2>1, <2>2, <2>5, <2>6 DEF CalmInv, HandlersAgree, WorkLeft
<1> QED BY <1>1, <1>2, <1>3, <1>4, <1>5, <1>6, <1>7

LEMMA CalmHandler ==
  ASSUME JobInv, SearchTypeOK, CalmInv, NEW w \in Workers, HandleIndex(w)
  PROVE  CalmInv'
<1>1. /\ UNCHANGED <<status, creating, stage, assetVars, asking, calm>>
      /\ stage[w] = "running"
  BY DEF HandleIndex, Load, Index, Skip, Remove, Running, vars, rowVars, workerVars
<1>2. Aim' = Aim /\ Wanted' = Wanted
  BY <1>1 DEF Aim, Wanted, assetVars
<1> SUFFICES ASSUME calm PROVE OneAim' /\ HandlersAgree' /\ WorkLeft'
  BY <1>1 DEF CalmInv
<1>3. OneAim /\ HandlersAgree /\ WorkLeft
  BY DEF CalmInv
<1>4. OneAim'
  BY <1>1, <1>2, <1>3 DEF OneAim
<1>5. current[w][1] = Aim
  BY <1>1, <1>3 DEF OneAim, JobInv, JobTypeOK, Hands, Working
<1>6. CASE Load(w)
  <2>1. loaded' = [loaded EXCEPT ![w] = Wanted] /\ entry' = entry /\ Aim = "upsert"
    BY <1>5, <1>6 DEF Load, Running, Aim, Wanted
  <2>2. HandlersAgree'
    BY <1>1, <1>2, <1>3, <2>1, Codes DEF HandlersAgree, SearchTypeOK
  <2> QED BY <1>1, <1>2, <1>3, <1>4, <2>1, <2>2 DEF WorkLeft, Drained
<1>7. CASE Index(w)
  <2>1. loaded' = [loaded EXCEPT ![w] = Done] /\ entry' = loaded[w] /\ loaded[w] \in Texts
    BY <1>7 DEF Index
  <2>2. loaded[w] = Wanted
    BY <1>1, <1>3, <2>1, Codes DEF HandlersAgree
  <2>3. HandlersAgree'
    BY <1>1, <1>2, <1>3, <2>1, <2>2, Codes DEF HandlersAgree, SearchTypeOK
  <2> QED BY <1>2, <1>4, <2>1, <2>2, <2>3 DEF WorkLeft
<1>8. CASE Skip(w)
  <2>1. loaded[w] = Gone /\ Aim = "upsert"
    BY <1>5, <1>8 DEF Skip, Running
  <2>2. FALSE
    BY <1>1, <1>3, <2>1, Codes DEF HandlersAgree, Aim
  <2> QED BY <2>2
<1>9. CASE Remove(w)
  <2>1. loaded' = [loaded EXCEPT ![w] = Done] /\ entry' = Wanted
    BY <1>5, <1>9 DEF Remove, Running, Aim
  <2>2. HandlersAgree'
    BY <1>1, <1>2, <1>3, <2>1, Codes DEF HandlersAgree, SearchTypeOK
  <2> QED BY <1>2, <1>4, <2>1, <2>2 DEF WorkLeft
<1> QED BY <1>6, <1>7, <1>8, <1>9 DEF HandleIndex

LEMMA CalmEnd ==
  ASSUME JobInv, SearchTypeOK, CalmInv, NEW w \in Workers,
         IndexReturns(w) \/ IndexRaises(w) \/ IndexUnsaved(w) \/ IndexDies(w)
  PROVE  CalmInv'
<1>1. /\ UNCHANGED <<creating, assetVars, entry, asking>>
      /\ loaded' = [loaded EXCEPT ![w] = None]
      /\ calm' => calm
      /\ \A v \in Workers : v # w => stage'[v] = stage[v]
      /\ stage'[w] # "running"
  <2>1. /\ UNCHANGED <<creating, assetVars, entry, asking>>
        /\ loaded' = [loaded EXCEPT ![w] = None]
    BY DEF IndexReturns, IndexRaises, IndexUnsaved, IndexDies, EndIndex, SaveResult, SaveFailure,
       FailUnsaved, Crash
  <2>2. \E s \in {"idle", "working", "down"} : stage' = [stage EXCEPT ![w] = s]
    BY DEF IndexReturns, IndexRaises, IndexUnsaved, IndexDies, SaveResult, SaveFailure,
       FailUnsaved, Crash, Drop
  <2>3. calm' => calm
    BY Zenon DEF IndexReturns, IndexRaises, IndexUnsaved, IndexDies
  <2> QED BY <2>1, <2>2, <2>3 DEF JobInv, JobTypeOK
<1>2. Aim' = Aim /\ Wanted' = Wanted
  BY <1>1 DEF Aim, Wanted, assetVars
<1> SUFFICES ASSUME calm' PROVE OneAim' /\ HandlersAgree' /\ WorkLeft'
  BY DEF CalmInv
<1>3. OneAim /\ HandlersAgree /\ WorkLeft
  BY <1>1 DEF CalmInv
<1>4. HandlersAgree'
  <2>1. \A v \in Workers : v # w => loaded'[v] = loaded[v]
    BY <1>1 DEF SearchTypeOK
  <2> QED BY <1>1, <1>2, <1>3, <2>1 DEF HandlersAgree
<1>5. CASE IndexDies(w)
  <2>1. status' = status
    BY <1>5 DEF IndexDies, Crash, rowVars
  <2> QED BY <1>1, <1>2, <1>3, <1>4, <2>1 DEF OneAim, WorkLeft, Drained
<1>6. CASE IndexReturns(w) \/ IndexRaises(w) \/ IndexUnsaved(w)
  <2> DEFINE k == current[w]
  <2>1. stage[w] = "running"
    BY <1>6 DEF IndexReturns, IndexRaises, IndexUnsaved, SaveResult, SaveFailure, FailUnsaved
  <2>2. k \in Keys /\ status[k] = "running"
    BY <2>1 DEF JobInv, JobTypeOK, Hands, Working
  <2>3. \E s : status' = [status EXCEPT ![k] = s]
    BY <1>6 DEF IndexReturns, IndexRaises, IndexUnsaved, SaveResult, SaveFailure, FailUnsaved
  <2>4. k[1] = Aim
    BY <1>3, <2>2 DEF OneAim
  <2>5. status'[k] = "pending" \/ entry = Wanted
    <3>1. IndexRaises(w) => status'[k] = "pending"
      BY DEF IndexRaises
    <3>2. ~IndexRaises(w) => loaded[w] = Done
      BY <1>6 DEF IndexReturns, IndexUnsaved
    <3> QED BY <1>3, <2>1, <3>1, <3>2 DEF HandlersAgree
  <2> HIDE DEF k
  <2>6. OneAim'
    BY <1>1, <1>2, <1>3, <2>2, <2>3, <2>4 DEF OneAim, JobInv, JobTypeOK
  <2>7. WorkLeft'
    BY <1>1, <1>2, <2>2, <2>5 DEF WorkLeft, Drained
  <2> QED BY <1>4, <2>6, <2>7
<1> QED BY <1>5, <1>6

LEMMA CalmQueue ==
  ASSUME JobInv, SearchTypeOK, CalmInv, QueueAlone \/ NextMinute \/ UNCHANGED allSearchVars
  PROVE  CalmInv'
<1>1. /\ UNCHANGED <<creating, assetVars, entry, asking, loaded, calm>>
      /\ \A k \in Keys : /\ status'[k] # status[k] => {status[k], status'[k]} = {"pending", "running"}
      /\ \A w \in Workers : stage'[w] = "running" =>
           stage[w] = "running" \/ loaded[w] = None
  <2>1. CASE UNCHANGED allSearchVars \/ NextMinute
    BY <2>1 DEF allSearchVars, NextMinute, searchVars, vars, rowVars, workerVars
  <2>2. CASE QueueAlone
    <3>1. UNCHANGED <<creating, searchVars>>
      BY <2>2 DEF QueueAlone, BecomeDue, SelectBatch, CommitClaim, StartHandler, Restart
    <3>2. ASSUME NEW w \in Workers, CommitClaim(w)
          PROVE  \A k \in Keys : status'[k] # status[k] => {status[k], status'[k]} = {"pending", "running"}
      BY <3>2 DEF CommitClaim, JobInv, Hands
    <3>3. \A k \in Keys : status'[k] # status[k] => {status[k], status'[k]} = {"pending", "running"}
      BY <2>2, <3>2 DEF QueueAlone, BecomeDue, SelectBatch, StartHandler, Restart, rowVars
    <3> QED BY <3>1, <3>3 DEF searchVars, SearchTypeOK
  <2> QED BY <2>1, <2>2
<1>2. Aim' = Aim /\ Wanted' = Wanted
  BY <1>1 DEF Aim, Wanted, assetVars
<1>3. \A k \in Keys : status'[k] \in {"pending", "running"} <=> status[k] \in {"pending", "running"}
  BY <1>1
<1>4. OneAim => OneAim'
  BY <1>1, <1>2, <1>3 DEF OneAim
<1>5. HandlersAgree => HandlersAgree'
  BY <1>1, <1>2, Codes DEF HandlersAgree
<1>6. WorkLeft => WorkLeft'
  BY <1>1, <1>2, <1>3 DEF WorkLeft, Drained
<1> QED BY <1>1, <1>4, <1>5, <1>6 DEF CalmInv

SearchInv == JobInv /\ SearchTypeOK /\ CalmInv

LEMMA SearchInvariance == SearchSpec => []SearchInv
<1>1. SearchInit => SearchInv
  <2> SUFFICES ASSUME SearchInit PROVE SearchInv
    OBVIOUS
  <2>1. JobInv
    BY InitInv DEF SearchInit
  <2>2. SearchTypeOK
    <3>1. /\ text = 1 /\ trashed = FALSE /\ entry = 1 /\ changes = 0 /\ minute = 0 /\ calm = TRUE
          /\ opened = [p \in Producers |-> None] /\ asking = [p \in Producers |-> None]
          /\ loaded = [w \in Workers |-> None]
      BY DEF SearchInit
    <3>2. 1 \in Texts /\ 0 \in 0..MaxChanges /\ 0 \in 0..LastMinute
      BY SearchAssumption DEF SearchAssumption, Texts
    <3> QED BY <3>1, <3>2 DEF SearchTypeOK
  <2>3. OneAim /\ HandlersAgree /\ WorkLeft
    BY DEF SearchInit, Init, OneAim, HandlersAgree, WorkLeft, Wanted
  <2> QED BY <2>1, <2>2, <2>3 DEF SearchInv, CalmInv
<1>2. SearchInv /\ [SearchNext]_allSearchVars => SearchInv'
  <2> SUFFICES ASSUME SearchInv, [SearchNext]_allSearchVars PROVE SearchInv'
    OBVIOUS
  <2>1. JobInv' /\ SearchTypeOK'
    BY SearchUsesQueue, StepInv, SearchTypeStep DEF SearchInv
  <2>2. CalmInv'
    BY CalmRequest, CalmHandler, CalmEnd, CalmQueue DEF SearchInv, SearchNext
  <2> QED BY <2>1, <2>2 DEF SearchInv
<1> QED BY <1>1, <1>2, PTL DEF SearchSpec

\* Indexing uses the job queue as the queue's own specification allows, so
\* that no index job is in two hands, over its budget or run once settled.
THEOREM SearchRefinesQueue == SearchSpec => Spec
<1>1. SearchInit => Init
  BY DEF SearchInit
<1>2. SearchInv /\ [SearchNext]_allSearchVars => [Next]_vars
  BY SearchUsesQueue DEF SearchInv
<1> QED BY <1>1, <1>2, SearchInvariance, PTL DEF SearchSpec, Spec

\* At rest the entry of an asset is what its row says, for any number of
\* requests, runners and minutes, unless one of the races named in SearchIndex
\* has happened: queue_search_index and handle_search_index.
THEOREM EntryAgrees == SearchSpec => []CalmAgrees
<1>1. SearchInv => CalmAgrees
  BY DEF SearchInv, CalmInv, WorkLeft, CalmAgrees
<1> QED BY <1>1, SearchInvariance, PTL
=============================================================================
