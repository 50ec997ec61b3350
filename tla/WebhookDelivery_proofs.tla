----------------------- MODULE WebhookDelivery_proofs -----------------------
(***************************************************************************)
(* Proofs about one webhook delivery, for any number of attempts, requeues,*)
(* failed saves, dead runs and expiries of the lock.  Three invariants:    *)
(* Budget counts runs and requests against keys and faults and holds       *)
(* always; Locking says what the lock protects while it never expired      *)
(* under a run; Retries adds, until something fails, where the next        *)
(* attempt comes from.                                                     *)
(***************************************************************************)
EXTENDS WebhookDelivery, FiniteSetTheorems, TLAPS

\* DeliveryTypeOK before the numbers are known to be bounded.
Shapes ==
  /\ kind \in {"webhook", "automation", "integration"}
  /\ status \in {"pending", "delivered", "failed"}
  /\ attempts \in Nat
  /\ job \in [Keys -> {"absent", "pending", "running", "done"}]
  /\ stage \in [Keys -> {"none", "posting", "saving"}]
  /\ found \in [Keys -> {"pending", "delivered", "failed"}]
  /\ counted \in [Keys -> Nat]
  /\ lock \in BOOLEAN
  /\ posts \in Nat
  /\ tasks \in 0..MaxTasks
  /\ faults \in 0..MaxFaults
  /\ lapses \in 0..MaxLapses

Running == {k \in Keys : Active(k)}
Started == {k \in Keys : job[k] \in {"running", "done"}}
Requeued == {k \in Keys : k.by = "task" /\ job[k] # "absent"}

\* The keys a delivery can have without the task: the first job and a retry
\* after each attempt but the last.
Own == [i \in 1..MaxAttempts |-> IF i = MaxAttempts THEN First ELSE Key("retry", i)]
OwnKeys == {Own[i] : i \in 1..MaxAttempts}

\* A request is a run started, a run started again takes a fault; the runs
\* beyond the one that has the lock are those that outlasted it.
Budget ==
  /\ attempts <= posts
  /\ \A k \in Keys : counted[k] <= posts
  /\ \A k \in Keys : stage[k] = "posting" => counted[k] > 0
  /\ \A k \in Keys : Active(k) => job[k] = "running"
  /\ \A k \in Keys : job[k] # "absent" => k \in OwnKeys \cup Requeued
  /\ Cardinality(Requeued) <= tasks
  /\ posts <= Cardinality(Started) + faults
  /\ Cardinality(Running) <= (IF lock THEN 1 ELSE 0) + lapses

Bounded == Shapes /\ Budget

LEMMA FirstIsKey == First \in Keys
BY DEF Keys

LEMMA RetryIsKey == \A n \in 0..Limit : Key("retry", n) \in Keys /\ Key("task", n) \in Keys
BY DEF Keys, Key

LEMMA LimitIsNat == Limit \in Nat /\ MaxAttempts <= Limit
BY DeliveryAssumption DEF DeliveryAssumption, Limit

\* There are finitely many keys, and as many own ones as attempts at most.
LEMMA KeysFinite ==
  /\ IsFiniteSet(Keys)
  /\ IsFiniteSet(OwnKeys)
  /\ Cardinality(OwnKeys) <= MaxAttempts
<1>1. ASSUME NEW b PROVE IsFiniteSet({[by |-> b, n |-> i] : i \in 0..Limit})
  <2> DEFINE f == [i \in 0..Limit |-> [by |-> b, n |-> i]]
             T == {[by |-> b, n |-> i] : i \in 0..Limit}
  <2>1. f \in Surjection(0..Limit, T)
    BY DEF Surjection
  <2>2. IsFiniteSet(0..Limit)
    BY LimitIsNat, FS_Interval
  <2> QED BY <2>1, <2>2, FS_Surjection
<1>2. Keys = {First} \cup ({[by |-> "retry", n |-> i] : i \in 0..Limit}
                             \cup {[by |-> "task", n |-> i] : i \in 0..Limit})
  BY DEF Keys
<1>3. IsFiniteSet({First})
  BY FS_Singleton
<1>4. IsFiniteSet({[by |-> "retry", n |-> i] : i \in 0..Limit}
                    \cup {[by |-> "task", n |-> i] : i \in 0..Limit})
  BY <1>1, FS_Union
<1>5. IsFiniteSet(Keys)
  BY <1>2, <1>3, <1>4, FS_Union
<1>6. Own \in Surjection(1..MaxAttempts, OwnKeys)
  BY DEF Surjection, Own, OwnKeys
<1>7. IsFiniteSet(1..MaxAttempts) /\ Cardinality(1..MaxAttempts) = MaxAttempts
  BY DeliveryAssumption, FS_Interval DEF DeliveryAssumption
<1> QED BY <1>5, <1>6, <1>7, FS_Surjection

\* The sets that are counted are finite.
LEMMA SetsFinite ==
  /\ IsFiniteSet(Running) /\ Cardinality(Running) \in Nat
  /\ IsFiniteSet(Started) /\ Cardinality(Started) \in Nat
  /\ IsFiniteSet(Requeued) /\ Cardinality(Requeued) \in Nat
BY KeysFinite, FS_Subset, FS_CardinalityType DEF Running, Started, Requeued

LEMMA SetsFiniteNext ==
  /\ IsFiniteSet(Running') /\ Cardinality(Running') \in Nat
  /\ IsFiniteSet(Started') /\ Cardinality(Started') \in Nat
  /\ IsFiniteSet(Requeued') /\ Cardinality(Requeued') \in Nat
BY KeysFinite, FS_Subset, FS_CardinalityType DEF Running, Started, Requeued

\* One element more or less.
LEMMA AddOne ==
  ASSUME NEW S, IsFiniteSet(S), NEW k
  PROVE  /\ IsFiniteSet(S \cup {k})
         /\ Cardinality(S) \in Nat /\ Cardinality(S \cup {k}) \in Nat
         /\ Cardinality(S) <= Cardinality(S \cup {k})
         /\ Cardinality(S \cup {k}) <= Cardinality(S) + 1
         /\ k \notin S => Cardinality(S \cup {k}) = Cardinality(S) + 1
<1>1. /\ IsFiniteSet(S \cup {k})
      /\ Cardinality(S \cup {k}) = IF k \in S THEN Cardinality(S) ELSE Cardinality(S) + 1
  BY FS_AddElement
<1>2. Cardinality(S) \in Nat
  BY FS_CardinalityType
<1> QED BY <1>1, <1>2

LEMMA RemoveOne ==
  ASSUME NEW S, IsFiniteSet(S), NEW k
  PROVE  /\ Cardinality(S) \in Nat /\ Cardinality(S \ {k}) \in Nat
         /\ Cardinality(S \ {k}) >= Cardinality(S) - 1
         /\ k \in S => Cardinality(S \ {k}) = Cardinality(S) - 1
<1>1. /\ IsFiniteSet(S \ {k})
      /\ Cardinality(S \ {k}) = IF k \in S THEN Cardinality(S) - 1 ELSE Cardinality(S)
  BY FS_RemoveElement
<1>2. Cardinality(S) \in Nat /\ Cardinality(S \ {k}) \in Nat
  BY <1>1, FS_CardinalityType
<1> QED BY <1>1, <1>2

\* No key beyond the own ones and the requeued ones: no request beyond those
\* that max_attempts, the task and the faults allow.
LEMMA Spent ==
  ASSUME Bounded
  PROVE  posts <= MaxAttempts + tasks + faults /\ DeliveryTypeOK
<1> USE DeliveryAssumption DEF DeliveryAssumption
<1>1. Started \in SUBSET (OwnKeys \cup Requeued)
  BY DEF Bounded, Budget, Started
<1>2. IsFiniteSet(OwnKeys \cup Requeued)
      /\ Cardinality(OwnKeys \cup Requeued) <= Cardinality(OwnKeys) + Cardinality(Requeued)
  <2>1. Cardinality(OwnKeys \cap Requeued) \in Nat
    BY KeysFinite, FS_Subset, FS_CardinalityType
  <2>2. Cardinality(OwnKeys) \in Nat
    BY KeysFinite, FS_CardinalityType
  <2> QED BY <2>1, <2>2, KeysFinite, SetsFinite, FS_Union
<1>3. Cardinality(Started) <= Cardinality(OwnKeys \cup Requeued)
  BY <1>1, <1>2, FS_Subset
<1>4. /\ posts \in Nat /\ tasks \in 0..MaxTasks /\ faults \in 0..MaxFaults
      /\ Cardinality(Requeued) <= tasks /\ posts <= Cardinality(Started) + faults
  BY DEF Bounded, Budget, Shapes
<1>5. Cardinality(OwnKeys) \in Nat /\ Cardinality(OwnKeys \cup Requeued) \in Nat
  BY <1>2, KeysFinite, FS_CardinalityType
<1>6. posts <= MaxAttempts + tasks + faults
  BY <1>2, <1>3, <1>4, <1>5, KeysFinite, SetsFinite
<1>7. posts <= Limit
  BY <1>4, <1>6 DEF Limit
<1>8. attempts \in 0..Limit /\ counted \in [Keys -> 0..Limit]
  BY <1>4, <1>7, LimitIsNat DEF Bounded, Budget, Shapes
<1> QED BY <1>6, <1>8 DEF Bounded, Shapes, DeliveryTypeOK

\* The steps of a handler run, without the name of its handler.
LEMMA Steps ==
  ASSUME Next
  PROVE  \/ \E k \in Keys : Deliver(k)
         \/ \E k \in Keys : Die(k)
         \/ LockExpires
         \/ RetryWebhookDelivery
BY DEF Next, HandleDeliverWebhook, HandleDeliverAutomationWebhook,
   HandleDeliverIntegrationWebhook

LEMMA BoundedInit == Init => Bounded
<1> SUFFICES ASSUME Init PROVE Bounded
  OBVIOUS
<1> USE DeliveryAssumption DEF DeliveryAssumption
<1>1. Shapes
  <2>1. job \in [Keys -> {"absent", "pending", "running", "done"}]
    BY DEF Init
  <2>2. tasks \in 0..MaxTasks /\ faults \in 0..MaxFaults /\ lapses \in 0..MaxLapses
    BY DEF Init
  <2> QED BY <2>1, <2>2 DEF Init, Shapes
<1>2. Running = {} /\ Started = {} /\ Requeued = {}
  <2>1. First.by = "create"
    BY DEF First, Key
  <2> QED BY <2>1 DEF Init, Running, Started, Requeued, Active
<1>3. First \in OwnKeys
  <2>1. MaxAttempts \in 1..MaxAttempts
    OBVIOUS
  <2> QED BY <2>1 DEF OwnKeys, Own
<1>4. Cardinality({}) = 0
  BY FS_EmptySet
<1> QED BY <1>1, <1>2, <1>3, <1>4 DEF Init, Bounded, Budget, Active

\* A run begins: its key was not started, and it is one more that runs.
LEMMA RunBegins ==
  ASSUME Bounded, NEW k \in Keys, job[k] = "pending", ~lock, lock',
         job' = [job EXCEPT ![k] = "running"], NEW st \in {"posting", "saving"},
         stage' = [stage EXCEPT ![k] = st], lapses' = lapses
  PROVE  /\ Cardinality(Started') = Cardinality(Started) + 1
         /\ Requeued' = Requeued
         /\ \A j \in Keys : job'[j] # "absent" => j \in OwnKeys \cup Requeued'
         /\ Cardinality(Running') <= 1 + lapses
<1> USE DEF Bounded, Shapes, Budget
<1>1. Started' = Started \cup {k} /\ k \notin Started
  BY DEF Started
<1>2. Requeued' = Requeued
  BY DEF Requeued
<1>3. Running' = Running \cup {k}
  BY DEF Running, Active
<1>4. Cardinality(Running \cup {k}) <= Cardinality(Running) + 1
  BY SetsFinite, AddOne
<1>5. Cardinality(Running') \in Nat /\ lapses \in Nat
  BY SetsFiniteNext, DeliveryAssumption DEF DeliveryAssumption
<1>6. Cardinality(Started') = Cardinality(Started) + 1
  BY <1>1, SetsFinite, AddOne
<1>7. \A j \in Keys : job'[j] # "absent" => j \in OwnKeys \cup Requeued'
  BY <1>2
<1> QED BY <1>2, <1>3, <1>4, <1>5, <1>6, <1>7, SetsFinite

\* A run ends: one fewer runs.
LEMMA RunEnds ==
  ASSUME Bounded, NEW k \in Keys, Active(k), stage' = [stage EXCEPT ![k] = "none"]
  PROVE  Cardinality(Running') = Cardinality(Running) - 1
<1>1. Running' = Running \ {k} /\ k \in Running
  BY DEF Running, Active, Bounded, Shapes
<1> QED BY <1>1, SetsFinite, RemoveOne

\* What a new job changes: its key was absent and waits.
LEMMA JobCreated ==
  ASSUME Bounded, NEW q \in Keys, CreateJob(q)
  PROVE  /\ job' \in [Keys -> {"absent", "pending", "running", "done"}]
         /\ Started' = Started
         /\ q.by # "task" => Requeued' = Requeued
         /\ Cardinality(Requeued') <= Cardinality(Requeued) + 1
         /\ \A j \in Keys : job'[j] # "absent" => job[j] # "absent" \/ j = q
         /\ Requeued \subseteq Requeued'
<1> USE DEF Bounded, Shapes
<1>1. \A j \in Keys : job'[j] = job[j] \/ (j = q /\ job[j] = "absent" /\ job'[j] = "pending")
  BY DEF CreateJob
<1>2. job' \in [Keys -> {"absent", "pending", "running", "done"}]
  BY DEF CreateJob
<1>3. Started' = Started
  BY <1>1 DEF Started
<1>4. Requeued' \in SUBSET (Requeued \cup {q}) /\ Requeued \subseteq Requeued'
  BY <1>1 DEF Requeued
<1>5. q.by # "task" => Requeued' = Requeued
  BY <1>1 DEF Requeued
<1>6. Cardinality(Requeued') <= Cardinality(Requeued) + 1
  <2>1. IsFiniteSet(Requeued \cup {q}) /\ Cardinality(Requeued \cup {q}) <= Cardinality(Requeued) + 1
    BY SetsFinite, AddOne
  <2>2. Cardinality(Requeued') <= Cardinality(Requeued \cup {q})
    BY <1>4, <2>1, FS_Subset
  <2>3. Cardinality(Requeued \cup {q}) \in Nat
    BY <2>1, FS_CardinalityType
  <2> QED BY <2>1, <2>2, <2>3, SetsFinite, SetsFiniteNext
<1> QED BY <1>1, <1>2, <1>3, <1>4, <1>5, <1>6

LEMMA BoundedStep ==
  ASSUME Bounded, Next
  PROVE  Bounded'
<1> USE DeliveryAssumption DEF DeliveryAssumption
<1>t. Shapes /\ Budget
  BY DEF Bounded
<1>1. ASSUME NEW k \in Keys, SkipLocked(k) PROVE Bounded'
  <2>1. job[k] = "pending" /\ job' = [job EXCEPT ![k] = "done"]
        /\ UNCHANGED <<rowVars, runVars, lock, posts, tasks, faults, lapses>>
    BY <1>1 DEF SkipLocked, DueNow
  <2>2. Started' = Started \cup {k} /\ Requeued' = Requeued /\ Running' = Running
    BY <1>t, <2>1 DEF Shapes, Started, Requeued, Running, Active, runVars
  <2>3. Cardinality(Started') >= Cardinality(Started)
    BY <2>2, SetsFinite, AddOne
  <2>4. Shapes'
    BY <1>t, <2>1 DEF Shapes, rowVars, runVars
  <2>5. posts' <= Cardinality(Started') + faults'
    BY <1>t, <2>1, <2>3, SetsFinite, SetsFiniteNext DEF Shapes, Budget
  <2>6. \A j \in Keys : job'[j] # "absent" => j \in OwnKeys \cup Requeued'
    BY <1>t, <2>1, <2>2 DEF Shapes, Budget
  <2>7. \A j \in Keys : Active(j)' => job'[j] = "running"
    BY <1>t, <2>1 DEF Shapes, Budget, Active, runVars
  <2> QED BY <1>t, <2>1, <2>2, <2>4, <2>5, <2>6, <2>7 DEF Bounded, Budget, rowVars, runVars
<1>2. ASSUME NEW k \in Keys, SkipDelivered(k) PROVE Bounded'
  <2>1. /\ job[k] = "pending" /\ ~lock /\ lock' /\ job' = [job EXCEPT ![k] = "running"]
        /\ stage' = [stage EXCEPT ![k] = "saving"] /\ counted' = [counted EXCEPT ![k] = attempts]
        /\ UNCHANGED <<rowVars, posts, tasks, faults, lapses>>
    BY <1>2 DEF SkipDelivered, DueNow
  <2>2. /\ Cardinality(Started') = Cardinality(Started) + 1
        /\ Requeued' = Requeued
        /\ \A j \in Keys : job'[j] # "absent" => j \in OwnKeys \cup Requeued'
        /\ Cardinality(Running') <= 1 + lapses
    BY <2>1, RunBegins
  <2>3. Shapes'
    BY <1>t, <1>2 DEF SkipDelivered, Shapes, rowVars
  <2>4. posts' <= Cardinality(Started') + faults'
    BY <1>t, <2>1, <2>2, SetsFinite DEF Shapes, Budget
  <2>5. \A j \in Keys : counted'[j] <= posts' /\ (stage'[j] = "posting" => counted'[j] > 0)
    BY <1>t, <2>1 DEF Shapes, Budget
  <2>6. \A j \in Keys : Active(j)' => job'[j] = "running"
    BY <1>t, <2>1 DEF Shapes, Budget, Active
  <2> QED BY <1>t, <2>1, <2>2, <2>3, <2>4, <2>5, <2>6 DEF Bounded, Budget, rowVars
<1>3. ASSUME NEW k \in Keys, Post(k) PROVE Bounded'
  <2>1. /\ job[k] = "pending" /\ ~lock /\ lock' /\ job' = [job EXCEPT ![k] = "running"]
        /\ stage' = [stage EXCEPT ![k] = "posting"] /\ counted' = [counted EXCEPT ![k] = attempts + 1]
        /\ posts' = posts + 1
        /\ UNCHANGED <<rowVars, tasks, faults, lapses>>
    BY <1>3 DEF Post, DueNow
  <2>2. /\ Cardinality(Started') = Cardinality(Started) + 1
        /\ Requeued' = Requeued
        /\ \A j \in Keys : job'[j] # "absent" => j \in OwnKeys \cup Requeued'
        /\ Cardinality(Running') <= 1 + lapses
    BY <2>1, RunBegins
  <2>3. Shapes'
    BY <1>t, <1>3 DEF Post, Shapes, rowVars
  <2>4. posts' <= Cardinality(Started') + faults'
    BY <1>t, <2>1, <2>2, SetsFinite DEF Shapes, Budget
  <2>5. \A j \in Keys : counted'[j] <= posts' /\ (stage'[j] = "posting" => counted'[j] > 0)
    BY <1>t, <2>1 DEF Shapes, Budget
  <2>6. attempts' <= posts'
    BY <1>t, <2>1 DEF Shapes, Budget, rowVars
  <2>7. \A j \in Keys : Active(j)' => job'[j] = "running"
    BY <1>t, <2>1 DEF Shapes, Budget, Active
  <2> QED BY <1>t, <2>1, <2>2, <2>3, <2>4, <2>5, <2>6, <2>7 DEF Bounded, Budget, rowVars
<1>4. ASSUME NEW k \in Keys, Accepted(k) PROVE Bounded'
  <2>1. Running' = Running /\ Started' = Started /\ Requeued' = Requeued
    BY <1>t, <1>4 DEF Accepted, Shapes, Running, Started, Requeued, Active
  <2>2. Shapes'
    BY <1>t, <1>4 DEF Accepted, Shapes, rowVars
  <2>3. \A j \in Keys : stage'[j] = "posting" => stage[j] = "posting"
    BY <1>t, <1>4 DEF Accepted, Shapes
  <2>4. \A j \in Keys : Active(j)' => job'[j] = "running"
    BY <1>t, <1>4 DEF Accepted, Shapes, Budget, Active
  <2> QED BY <1>t, <1>4, <2>1, <2>2, <2>3, <2>4 DEF Accepted, Bounded, Budget, rowVars
<1>5. ASSUME NEW k \in Keys, Rejected(k) PROVE Bounded'
  <2>1. /\ stage[k] = "posting" /\ stage' = [stage EXCEPT ![k] = "saving"]
        /\ UNCHANGED <<rowVars, counted, lock, posts, tasks, faults, lapses>>
    BY <1>5 DEF Rejected
  <2>2. counted[k] > 0 /\ counted[k] \in Nat
    BY <1>t, <2>1 DEF Shapes, Budget
  <2>3. Running' = Running
    BY <1>t, <2>1 DEF Shapes, Running, Active
  <2>4. \A j \in Keys : stage'[j] = "posting" => stage[j] = "posting"
    BY <1>t, <2>1 DEF Shapes
  <2>5. CASE counted[k] < MaxAttempts
    <3> DEFINE q == Key("retry", counted[k])
    <3>1. q \in Keys /\ q.by = "retry"
      <4>1. counted[k] \in 0..Limit
        BY <2>2, <2>5, LimitIsNat
      <4> QED BY <4>1, RetryIsKey DEF Key
    <3>2. CreateJob(q) /\ found' = found
      BY <1>5, <2>5 DEF Rejected
    <3>3. q \in OwnKeys
      <4>1. counted[k] \in 1..MaxAttempts /\ counted[k] # MaxAttempts
        BY <2>2, <2>5
      <4> QED BY <4>1 DEF OwnKeys, Own
    <3> HIDE DEF q
    <3>4. /\ job' \in [Keys -> {"absent", "pending", "running", "done"}]
          /\ Started' = Started
          /\ Requeued' = Requeued
          /\ \A j \in Keys : job'[j] # "absent" => job[j] # "absent" \/ j = q
      BY <3>1, <3>2, JobCreated
    <3>5. Shapes'
      BY <1>t, <2>1, <3>2, <3>4 DEF Shapes, rowVars
    <3>6. \A j \in Keys : Active(j)' => job'[j] = "running"
      BY <1>t, <2>1, <3>1, <3>2 DEF Shapes, Budget, Active, CreateJob
    <3> QED BY <1>t, <2>1, <2>3, <2>4, <3>3, <3>4, <3>5, <3>6 DEF Bounded, Budget, rowVars
  <2>6. CASE ~(counted[k] < MaxAttempts)
    <3>1. found' = [found EXCEPT ![k] = "failed"] /\ job' = job
      BY <1>5, <2>6 DEF Rejected
    <3>2. Started' = Started /\ Requeued' = Requeued
      BY <3>1 DEF Started, Requeued
    <3>3. Shapes'
      BY <1>t, <2>1, <3>1 DEF Shapes, rowVars
    <3>4. \A j \in Keys : Active(j)' => job'[j] = "running"
      BY <1>t, <2>1, <3>1 DEF Shapes, Budget, Active
    <3> QED BY <1>t, <2>1, <2>3, <2>4, <3>1, <3>2, <3>3, <3>4 DEF Bounded, Budget, rowVars
  <2> QED BY <2>5, <2>6
<1>6. ASSUME NEW k \in Keys, Save(k) PROVE Bounded'
  <2>1. /\ stage[k] = "saving" /\ attempts' = counted[k] /\ lock' = FALSE
        /\ job' = [job EXCEPT ![k] = "done"] /\ stage' = [stage EXCEPT ![k] = "none"]
        /\ UNCHANGED <<kind, found, counted, posts, tasks, faults, lapses>>
    BY <1>6 DEF Save
  <2>2. Cardinality(Running') = Cardinality(Running) - 1
    BY <2>1, RunEnds DEF Active
  <2>3. Started' = Started \cup {k}
    BY <1>t, <2>1 DEF Shapes, Started
  <2>4. Cardinality(Started') >= Cardinality(Started)
    BY <2>3, SetsFinite, AddOne
  <2>5. Requeued \subseteq Requeued' /\ Requeued' \subseteq Requeued \cup {k}
    BY <1>t, <2>1 DEF Shapes, Requeued
  <2>6. job[k] # "absent" => Requeued' = Requeued
    BY <1>t, <2>1 DEF Shapes, Requeued
  <2>7. job[k] # "absent"
    BY <1>t, <2>1 DEF Shapes, Budget, Active
  <2>8. Shapes'
    BY <1>t, <1>6 DEF Save, Shapes
  <2>9. \A j \in Keys : stage'[j] = "posting" => stage[j] = "posting"
    BY <1>t, <2>1 DEF Shapes
  <2>10. posts' <= Cardinality(Started') + faults'
    BY <1>t, <2>1, <2>4, SetsFinite, SetsFiniteNext DEF Shapes, Budget
  <2>11. Cardinality(Running') <= 0 + lapses'
    BY <1>t, <2>1, <2>2, SetsFinite DEF Shapes, Budget
  <2>12. \A j \in Keys : job'[j] # "absent" => j \in OwnKeys \cup Requeued'
    BY <1>t, <2>1, <2>6, <2>7 DEF Shapes, Budget
  <2>13. \A j \in Keys : Active(j)' => job'[j] = "running"
    BY <1>t, <2>1 DEF Shapes, Budget, Active
  <2> QED BY <1>t, <2>1, <2>6, <2>7, <2>8, <2>9, <2>10, <2>11, <2>12, <2>13 DEF Bounded, Budget
<1>7. ASSUME NEW k \in Keys, SaveFails(k) PROVE Bounded'
  <2>1. /\ stage[k] = "saving" /\ stage' = [stage EXCEPT ![k] = "none"]
        /\ faults' = faults + 1 /\ faults < MaxFaults
        /\ UNCHANGED <<rowVars, found, counted, lock, posts, tasks, lapses>>
    BY <1>7 DEF SaveFails
  <2>2. PICK s \in {"pending", "done"} : job' = [job EXCEPT ![k] = s]
    BY <1>7 DEF SaveFails
  <2>3. Cardinality(Running') = Cardinality(Running) - 1
    BY <2>1, RunEnds DEF Active
  <2>4. Cardinality(Started') >= Cardinality(Started) - 1
    <3>1. Started \ {k} \in SUBSET Started'
      BY <1>t, <2>2 DEF Shapes, Started
    <3>2. Cardinality(Started \ {k}) <= Cardinality(Started')
      BY <3>1, SetsFiniteNext, FS_Subset
    <3>3. Cardinality(Started \ {k}) >= Cardinality(Started) - 1
      BY SetsFinite, RemoveOne
    <3>4. Cardinality(Started \ {k}) \in Nat
      BY SetsFinite, RemoveOne
    <3> QED BY <3>2, <3>3, <3>4, SetsFinite, SetsFiniteNext
  <2>5. job[k] # "absent"
    BY <1>t, <2>1 DEF Shapes, Budget, Active
  <2>6. Requeued' = Requeued
    BY <1>t, <2>2, <2>5 DEF Shapes, Requeued
  <2>7. Shapes'
    BY <1>t, <2>1, <2>2 DEF Shapes, rowVars
  <2>8. \A j \in Keys : stage'[j] = "posting" => stage[j] = "posting"
    BY <1>t, <2>1 DEF Shapes
  <2>9. posts' <= Cardinality(Started') + faults'
    BY <1>t, <2>1, <2>4, SetsFinite, SetsFiniteNext DEF Shapes, Budget
  <2>10. Cardinality(Running') <= (IF lock' THEN 1 ELSE 0) + lapses'
    BY <1>t, <2>1, <2>3, SetsFinite DEF Shapes, Budget
  <2>11. \A j \in Keys : job'[j] # "absent" => j \in OwnKeys \cup Requeued'
    BY <1>t, <2>2, <2>5, <2>6 DEF Shapes, Budget
  <2>12. \A j \in Keys : Active(j)' => job'[j] = "running"
    BY <1>t, <2>1, <2>2 DEF Shapes, Budget, Active
  <2> QED BY <1>t, <2>1, <2>6, <2>7, <2>8, <2>9, <2>10, <2>11, <2>12 DEF Bounded, Budget, rowVars
<1>8. ASSUME NEW k \in Keys, Die(k) PROVE Bounded'
  <2>1. /\ Active(k) /\ stage' = [stage EXCEPT ![k] = "none"]
        /\ faults' = faults + 1 /\ faults < MaxFaults
        /\ UNCHANGED <<rowVars, job, found, counted, lock, posts, tasks, lapses>>
    BY <1>8 DEF Die
  <2>2. Cardinality(Running') = Cardinality(Running) - 1
    BY <2>1, RunEnds
  <2>3. Started' = Started /\ Requeued' = Requeued
    BY <2>1 DEF Started, Requeued
  <2>4. Shapes'
    BY <1>t, <2>1 DEF Shapes, rowVars
  <2>5. \A j \in Keys : stage'[j] = "posting" => stage[j] = "posting"
    BY <1>t, <2>1 DEF Shapes
  <2>6. posts' <= Cardinality(Started') + faults'
    BY <1>t, <2>1, <2>3, SetsFinite DEF Shapes, Budget
  <2>7. Cardinality(Running') <= (IF lock' THEN 1 ELSE 0) + lapses'
    BY <1>t, <2>1, <2>2, SetsFinite DEF Shapes, Budget
  <2>8. \A j \in Keys : Active(j)' => job'[j] = "running"
    BY <1>t, <2>1 DEF Shapes, Budget, Active
  <2> QED BY <1>t, <2>1, <2>3, <2>4, <2>5, <2>6, <2>7, <2>8 DEF Bounded, Budget, rowVars
<1>9. ASSUME LockExpires PROVE Bounded'
  <2>1. /\ lock /\ lock' = FALSE /\ UNCHANGED <<rowVars, job, runVars, posts, tasks, faults>>
    BY <1>9 DEF LockExpires
  <2>2. Running' = Running /\ Started' = Started /\ Requeued' = Requeued
    BY <2>1 DEF Running, Started, Requeued, Active, runVars
  <2>3. lapses' \in 0..MaxLapses
    BY <1>t, <1>9 DEF LockExpires, Shapes
  <2>4. Shapes'
    BY <1>t, <2>1, <2>3 DEF Shapes, rowVars, runVars
  <2>5. Cardinality(Running') <= 0 + lapses'
    <3>1. CASE \E k \in Keys : Active(k)
      BY <1>t, <1>9, <2>2, <3>1, SetsFinite DEF LockExpires, Budget, Shapes
    <3>2. CASE ~\E k \in Keys : Active(k)
      <4>1. Running = {} /\ lapses' = lapses
        BY <1>9, <3>2 DEF LockExpires, Running
      <4> QED BY <1>t, <2>2, <4>1, FS_EmptySet DEF Shapes
    <3> QED BY <3>1, <3>2
  <2> QED BY <1>t, <2>1, <2>2, <2>4, <2>5 DEF Bounded, Budget, Active, rowVars, runVars
<1>10. ASSUME RetryWebhookDelivery PROVE Bounded'
  <2> DEFINE q == Key("task", attempts)
  <2>1. q \in Keys /\ q.by = "task"
    BY Spent, RetryIsKey DEF DeliveryTypeOK, Key
  <2>2. /\ CreateJob(q) /\ tasks' = tasks + 1 /\ tasks < MaxTasks
        /\ UNCHANGED <<rowVars, runVars, lock, posts, faults, lapses>>
    BY <1>10 DEF RetryWebhookDelivery
  <2> HIDE DEF q
  <2>3. /\ job' \in [Keys -> {"absent", "pending", "running", "done"}]
        /\ Started' = Started
        /\ Cardinality(Requeued') <= Cardinality(Requeued) + 1
        /\ \A j \in Keys : job'[j] # "absent" => job[j] # "absent" \/ j = q
        /\ Requeued \subseteq Requeued'
    BY <2>1, <2>2, JobCreated
  <2>4. Running' = Running
    BY <2>2 DEF Running, Active, runVars
  <2>5. Shapes'
    BY <1>t, <2>2, <2>3 DEF Shapes, rowVars, runVars
  <2>6. Cardinality(Requeued') <= tasks'
    BY <1>t, <2>2, <2>3, SetsFinite, SetsFiniteNext DEF Shapes, Budget
  <2>7. job'[q] # "absent" => q \in Requeued'
    BY <2>1 DEF Requeued
  <2>8. \A j \in Keys : Active(j)' => job'[j] = "running"
    BY <1>t, <2>1, <2>2 DEF Shapes, Budget, Active, CreateJob, runVars
  <2> QED BY <1>t, <2>2, <2>3, <2>4, <2>5, <2>6, <2>7, <2>8 DEF Bounded, Budget, rowVars, runVars
<1>11. ASSUME NEW k \in Keys, Deliver(k) PROVE Bounded'
  BY <1>1, <1>2, <1>3, <1>4, <1>5, <1>6, <1>7, <1>11 DEF Deliver
<1> QED BY <1>8, <1>9, <1>10, <1>11, Steps

THEOREM BoundedAlways == Spec => []Bounded
<1>1. Bounded /\ UNCHANGED vars => Bounded'
  BY DEF Bounded, Shapes, Budget, Running, Started, Requeued, Active, vars, rowVars, runVars
<1> QED BY <1>1, BoundedInit, BoundedStep, PTL DEF Spec

\* Every variable keeps its type and its bound, attempt_count in particular.
THEOREM DeliveryTyping == Spec => []DeliveryTypeOK
BY BoundedAlways, Spent, PTL

\* The runs of a delivery exclude each other but for one more run for each
\* expiry of the lock under a run, whatever fails, dies or is requeued and
\* whoever's lock a late run deletes.
THEOREM SendersExclude == Spec => []OneSender
<1>1. Bounded => OneSender
  <2> SUFFICES ASSUME Bounded PROVE Cardinality(Running) <= 1 + lapses
    BY DEF OneSender, Running
  <2> QED BY SetsFinite, DeliveryAssumption
      DEF DeliveryAssumption, Bounded, Budget, Shapes
<1> QED BY <1>1, BoundedAlways, PTL

-----------------------------------------------------------------------------
\* What the lock protects while it did not expire under a run: one run at a
\* time, which keeps a delivered row delivered.
SoleRun == \A j, k \in Keys : Active(j) /\ Active(k) => j = k

Locking ==
  /\ \A k \in Keys : Active(k) => lock
  /\ SoleRun
  /\ \A k \in Keys : stage[k] = "posting" => status # "delivered"
  /\ \A k \in Keys : Active(k) /\ status = "delivered" => found[k] = "delivered"

LockInv == Bounded /\ (lapses = 0 => Locking)

LEMMA LockStep ==
  ASSUME DeliveryTypeOK, Locking, Next, lapses' = 0
  PROVE  Locking'
<1> USE DEF Locking, SoleRun, Active
<1>1. ASSUME NEW k \in Keys, SkipLocked(k) PROVE Locking'
  BY <1>1 DEF SkipLocked, rowVars, runVars
<1>2. ASSUME NEW k \in Keys, SkipDelivered(k) PROVE Locking'
  BY <1>2 DEF SkipDelivered, DeliveryTypeOK, rowVars
<1>3. ASSUME NEW k \in Keys, Post(k) PROVE Locking'
  BY <1>3 DEF Post, DeliveryTypeOK, rowVars
<1>4. ASSUME NEW k \in Keys, Accepted(k) PROVE Locking'
  BY <1>4 DEF Accepted, DeliveryTypeOK, rowVars
<1>5. ASSUME NEW k \in Keys, Rejected(k) PROVE Locking'
  BY <1>5 DEF Rejected, DeliveryTypeOK, rowVars
<1>6. ASSUME NEW k \in Keys, Save(k) PROVE Locking'
  BY <1>6 DEF Save, DeliveryTypeOK
<1>7. ASSUME NEW k \in Keys, SaveFails(k) PROVE Locking'
  BY <1>7 DEF SaveFails, DeliveryTypeOK, rowVars
<1>8. ASSUME NEW k \in Keys, Die(k) PROVE Locking'
  BY <1>8 DEF Die, DeliveryTypeOK, rowVars
<1>9. ASSUME LockExpires PROVE Locking'
  <2>1. lapses \in Nat
    BY DeliveryAssumption DEF DeliveryAssumption, DeliveryTypeOK
  <2> QED BY <1>9, <2>1 DEF LockExpires, rowVars, runVars
<1>10. ASSUME RetryWebhookDelivery PROVE Locking'
  BY <1>10 DEF RetryWebhookDelivery, rowVars, runVars
<1> HIDE DEF Locking, SoleRun, Active
<1>11. ASSUME NEW k \in Keys, Deliver(k) PROVE Locking'
  BY <1>1, <1>2, <1>3, <1>4, <1>5, <1>6, <1>7, <1>11 DEF Deliver
<1> QED BY <1>8, <1>9, <1>10, <1>11, Steps

\* The counters of faults and lapses never go back.
LEMMA CountersGrow ==
  ASSUME DeliveryTypeOK, Next
  PROVE  (faults' = 0 => faults = 0) /\ (lapses' = 0 => lapses = 0)
<1>1. faults \in Nat /\ lapses \in Nat
  BY DeliveryAssumption DEF DeliveryAssumption, DeliveryTypeOK
<1>2. ASSUME NEW k \in Keys, Deliver(k)
      PROVE  (faults' = 0 => faults = 0) /\ lapses' = lapses
  BY <1>1, <1>2 DEF Deliver, SkipLocked, SkipDelivered, Post, Accepted, Rejected, Save, SaveFails
<1>3. ASSUME NEW k \in Keys, Die(k)
      PROVE  (faults' = 0 => faults = 0) /\ lapses' = lapses
  BY <1>1, <1>3 DEF Die
<1>4. ASSUME LockExpires
      PROVE  faults' = faults /\ (lapses' = 0 => lapses = 0)
  BY <1>1, <1>4 DEF LockExpires
<1>5. ASSUME RetryWebhookDelivery
      PROVE  faults' = faults /\ lapses' = lapses
  BY <1>5 DEF RetryWebhookDelivery
<1> QED BY <1>2, <1>3, <1>4, <1>5, Steps

LEMMA LockInvariance == Spec => []LockInv
<1>1. Init => LockInv
  BY BoundedInit DEF Init, LockInv, Locking, SoleRun, Active
<1>2. ASSUME LockInv, Next PROVE LockInv'
  <2>1. Bounded' /\ DeliveryTypeOK
    BY <1>2, BoundedStep, Spent DEF LockInv
  <2>2. lapses' = 0 => lapses = 0
    BY <1>2, <2>1, CountersGrow
  <2> QED BY <1>2, <2>1, <2>2, LockStep DEF LockInv
<1>3. LockInv /\ UNCHANGED vars => LockInv'
  BY DEF LockInv, Bounded, Shapes, Budget, Running, Started, Requeued, Locking, SoleRun, Active,
     vars, rowVars, runVars
<1> QED BY <1>1, <1>2, <1>3, PTL DEF Spec

\* A delivered row stays delivered and is not sent again by a retry or a
\* requeued job; only a run that had read it before could, and there is none
\* while the lock did not expire under a run.
THEOREM DeliveredFinal == Spec => DeliveredIsFinal
<1> DEFINE Kept ==
      status = "delivered" /\ (lapses = 0 \/ \A k \in Keys : Active(k) => found[k] = "delivered")
      => status' = "delivered" /\ posts' = posts
<1>1. ASSUME LockInv, Next PROVE Kept
  <2> SUFFICES ASSUME status = "delivered", \A k \in Keys : Active(k) => found[k] = "delivered"
               PROVE  status' = "delivered" /\ posts' = posts
    BY <1>1 DEF LockInv, Locking
  <2>1. ASSUME NEW k \in Keys, Deliver(k) PROVE status' = "delivered" /\ posts' = posts
    BY <2>1 DEF Deliver, SkipLocked, SkipDelivered, Post, Accepted, Rejected, Save,
       SaveFails, Active, rowVars
  <2> QED BY <1>1, <2>1, Steps DEF Die, LockExpires, RetryWebhookDelivery, rowVars
<1>2. LockInv /\ [Next]_vars => [Kept]_<<status, posts>>
  BY <1>1 DEF vars, rowVars
<1> QED BY <1>2, LockInvariance, PTL DEF Spec, DeliveredIsFinal

-----------------------------------------------------------------------------
(* While nothing fails: no attempt is lost, and no delivery is forgotten.  *)

\* A retry key names the attempt after which it was created; the one created
\* by the run in progress still waits.
Retries ==
  /\ \A k \in Keys : Active(k) <=> job[k] = "running"
  /\ lock => \E k \in Keys : Active(k)
  /\ \A k \in Keys : Active(k) => attempts <= counted[k]
  /\ \A n \in 0..Limit : job[Key("retry", n)] # "absent" => n <= attempts \/
       \E k \in Keys : stage[k] = "saving" /\ counted[k] = n
  /\ \A k \in Keys : stage[k] = "posting" =>
       counted[k] = attempts + 1
  /\ \A k \in Keys : stage[k] = "saving" /\ found[k] = "pending" =>
       counted[k] < MaxAttempts /\ job[Key("retry", counted[k])] = "pending"

Counting == LockInv /\ (Calm => Counted /\ Retries /\ Remembered)

LEMMA CountInit == Init => Counting
<1> SUFFICES ASSUME Init PROVE Counting
  OBVIOUS
<1>1. \A n \in 0..Limit : Key("retry", n) # First
  BY DEF Key, First
<1>2. Counted
  BY DEF Init, Counted, Active
<1>3. Retries
  BY <1>1, RetryIsKey DEF Init, Retries, Active
<1>4. Remembered
  BY FirstIsKey DEF Init, Remembered
<1> QED BY <1>2, <1>3, <1>4, BoundedInit DEF Counting, LockInv, Init, Locking, SoleRun, Active

LEMMA CountStep ==
  ASSUME DeliveryTypeOK, DeliveryTypeOK', Locking, Locking', Counted, Retries, Remembered,
         Calm, Calm', Next
  PROVE  Counted' /\ Retries' /\ Remembered'
<1> USE DEF Active
<1>t. /\ DeliveryTypeOK /\ Locking /\ Counted /\ Retries /\ Remembered
  OBVIOUS
<1>1. ASSUME NEW k \in Keys, SkipLocked(k)
      PROVE  Counted' /\ Retries' /\ Remembered'
  <2>1. /\ job[k] = "pending" /\ lock /\ job' = [job EXCEPT ![k] = "done"]
        /\ UNCHANGED <<rowVars, runVars, lock, posts, tasks, faults, lapses>>
        /\ k.by = "retry" => ~\E r \in Keys : stage[r] = "saving" /\ counted[r] = k.n
    BY <1>1 DEF SkipLocked, DueNow
  <2>2. PICK r \in Keys : stage[r] # "none"
    BY <1>t, <2>1 DEF Retries
  <2>3. Counted'
    BY <1>t, <2>1 DEF Counted, runVars, rowVars
  <2>4. Retries'
    <3>1. \A j \in Keys : j # k => job'[j] = job[j]
      BY <1>t, <2>1 DEF DeliveryTypeOK
    <3>2. job'[k] = "done"
      BY <1>t, <2>1 DEF DeliveryTypeOK
    <3>3. \A n \in 0..Limit : Key("retry", n).by = "retry" /\ Key("retry", n).n = n
      BY DEF Key
    <3>4. \A j \in Keys : stage[j] = "saving" /\ found[j] = "pending" =>
            counted[j] \in 0..Limit /\ Key("retry", counted[j]) # k
      BY <1>t, <2>1, <3>3 DEF DeliveryTypeOK
    <3> QED BY <1>t, <2>1, <3>1, <3>2, <3>4, RetryIsKey DEF Retries, runVars, rowVars
  <2>5. Remembered'
    <3>1. CASE stage[r] = "posting"
      BY <2>1, <2>2, <3>1 DEF Remembered, runVars, rowVars
    <3>2. CASE stage[r] = "saving"
      <4>1. counted'[r] \in 0..Limit
        BY <1>t, <2>1, <2>2 DEF DeliveryTypeOK, runVars
      <4> QED BY <2>1, <2>2, <2>4, <3>2, <4>1, RetryIsKey DEF Remembered, Retries, runVars, rowVars
    <3> QED BY <1>t, <2>2, <3>1, <3>2 DEF DeliveryTypeOK
  <2> QED BY <2>3, <2>4, <2>5
<1>2. ASSUME NEW k \in Keys, SkipDelivered(k)
      PROVE  Counted' /\ Retries' /\ Remembered'
  BY <1>t, <1>2, RetryIsKey DEF SkipDelivered, DueNow, DeliveryTypeOK, Locking, Counted, Retries,
     Remembered, rowVars
<1>3. ASSUME NEW k \in Keys, Post(k)
      PROVE  Counted' /\ Retries' /\ Remembered'
  <2>1. /\ job[k] = "pending" /\ ~lock /\ lock'
        /\ job' = [job EXCEPT ![k] = "running"]
        /\ stage' = [stage EXCEPT ![k] = "posting"]
        /\ counted' = [counted EXCEPT ![k] = attempts + 1]
        /\ posts' = posts + 1
        /\ UNCHANGED <<rowVars, tasks, faults, lapses>>
    BY <1>3 DEF Post, DueNow
  <2>2. /\ \A j \in Keys : stage[j] = "none"
        /\ posts = attempts /\ attempts \in Nat
    BY <1>t, <2>1 DEF Locking, Counted, DeliveryTypeOK
  <2>3. Counted'
    BY <1>t, <2>1, <2>2 DEF Counted, DeliveryTypeOK
  <2>4. Retries'
    BY <1>t, <2>1, <2>2, RetryIsKey DEF Retries, DeliveryTypeOK, rowVars
  <2>5. Remembered'
    BY <1>t, <2>1 DEF Remembered, DeliveryTypeOK
  <2> QED BY <2>3, <2>4, <2>5
<1>4. ASSUME NEW k \in Keys, Accepted(k)
      PROVE  Counted' /\ Retries' /\ Remembered'
  BY <1>t, <1>4, RetryIsKey DEF Accepted, DeliveryTypeOK, Locking, SoleRun, Counted,
     Retries, Remembered, rowVars
<1>5. ASSUME NEW k \in Keys, Rejected(k)
      PROVE  Counted' /\ Retries' /\ Remembered'
  <2>1. /\ stage[k] = "posting" /\ stage' = [stage EXCEPT ![k] = "saving"]
        /\ UNCHANGED <<rowVars, counted, lock, posts, tasks, faults, lapses>>
    BY <1>5 DEF Rejected
  <2>2. /\ counted[k] = attempts + 1 /\ counted[k] \in 0..Limit
        /\ \A j \in Keys : j # k => stage[j] = "none"
    BY <1>t, <2>1 DEF Retries, Locking, SoleRun, DeliveryTypeOK
  <2>3. Counted'
    BY <1>t, <2>1 DEF Counted, DeliveryTypeOK
  <2>4. CASE counted[k] < MaxAttempts
    <3> DEFINE q == Key("retry", counted[k])
    <3>1. q \in Keys /\ job[q] = "absent"
      BY <1>t, <2>1, <2>2, RetryIsKey DEF Retries, DeliveryTypeOK
    <3>2. job' = [job EXCEPT ![q] = "pending"] /\ UNCHANGED found
      BY <1>5, <2>4, <3>1 DEF Rejected, CreateJob
    <3>3. \A n \in 0..Limit : Key("retry", n) = q => n = counted[k]
      BY DEF Key
    <3> HIDE DEF q
    <3>4. \A n \in 0..Limit : job'[Key("retry", n)] # "absent" => n <= attempts \/ n = counted[k]
      BY <1>t, <2>1, <2>2, <3>1, <3>2, <3>3, RetryIsKey DEF Retries, DeliveryTypeOK
    <3>5. job'[Key("retry", counted[k])] = "pending"
      BY <1>t, <3>1, <3>2 DEF q, DeliveryTypeOK
    <3>6. \A j \in Keys : Active(j)' <=> job'[j] = "running"
      BY <1>t, <2>1, <3>1, <3>2 DEF Retries, DeliveryTypeOK
    <3>7. Retries'
      BY <1>t, <2>1, <2>2, <2>4, <3>4, <3>5, <3>6 DEF Retries, DeliveryTypeOK, rowVars
    <3>8. Remembered'
      BY <2>2, <3>5, RetryIsKey DEF Remembered
    <3> QED BY <2>3, <3>7, <3>8
  <2>5. CASE ~(counted[k] < MaxAttempts)
    <3>1. found' = [found EXCEPT ![k] = "failed"] /\ UNCHANGED job
      BY <1>5, <2>5 DEF Rejected
    <3>2. Retries'
      BY <1>t, <2>1, <2>2, <3>1, RetryIsKey DEF Retries, DeliveryTypeOK, rowVars
    <3>3. Remembered'
      BY <1>t, <2>1, <3>1 DEF Remembered, DeliveryTypeOK
    <3> QED BY <2>3, <3>2, <3>3
  <2> QED BY <2>4, <2>5
<1>6. ASSUME NEW k \in Keys, Save(k)
      PROVE  Counted' /\ Retries' /\ Remembered'
  <2>1. /\ stage[k] = "saving" /\ status' = found[k] /\ attempts' = counted[k] /\ ~lock'
        /\ job' = [job EXCEPT ![k] = "done"]
        /\ stage' = [stage EXCEPT ![k] = "none"]
        /\ UNCHANGED <<kind, found, counted, posts, tasks, faults, lapses>>
    BY <1>6 DEF Save
  <2>2. /\ counted[k] \in 0..Limit /\ posts = counted[k] /\ attempts <= counted[k]
        /\ attempts \in Nat
        /\ \A j \in Keys : j # k => stage[j] = "none"
    BY <1>t, <2>1 DEF Counted, Retries, Locking, SoleRun, DeliveryTypeOK
  <2>3. \A j \in Keys : stage'[j] = "none"
    BY <1>t, <2>1, <2>2 DEF DeliveryTypeOK
  <2>4. Counted'
    BY <2>1, <2>2, <2>3 DEF Counted
  <2>5. \A n \in 0..Limit : job'[Key("retry", n)] # "absent" => n <= counted[k]
    BY <1>t, <2>1, <2>2, RetryIsKey DEF Retries, DeliveryTypeOK
  <2>6. Retries'
    BY <1>t, <2>1, <2>2, <2>3, <2>5 DEF Retries, DeliveryTypeOK
  <2>7. ASSUME found[k] = "pending"
        PROVE  Key("retry", counted[k]) \in Keys /\ job'[Key("retry", counted[k])] = "pending"
    BY <1>t, <2>1, <2>2, <2>7, RetryIsKey DEF Retries, DeliveryTypeOK
  <2>8. Remembered'
    BY <2>1, <2>7 DEF Remembered
  <2> QED BY <2>4, <2>6, <2>8
<1>7. ASSUME NEW k \in Keys, SaveFails(k)
      PROVE  Counted' /\ Retries' /\ Remembered'
  BY <1>t, <1>7, DeliveryAssumption DEF DeliveryAssumption, SaveFails, DeliveryTypeOK, Calm
<1>11. ASSUME NEW k \in Keys, Die(k)
      PROVE  Counted' /\ Retries' /\ Remembered'
  BY <1>t, <1>11, DeliveryAssumption DEF DeliveryAssumption, Die, DeliveryTypeOK, Calm
<1>8. ASSUME LockExpires
      PROVE  Counted' /\ Retries' /\ Remembered'
  BY <1>t, <1>8 DEF LockExpires, Retries, Calm, DeliveryTypeOK
<1>9. ASSUME RetryWebhookDelivery
      PROVE  Counted' /\ Retries' /\ Remembered'
  <2> DEFINE q == Key("task", attempts)
  <2>1. /\ q \in Keys /\ \A n \in 0..Limit : Key("retry", n) # q
    BY <1>t, RetryIsKey DEF Key, DeliveryTypeOK
  <2>2. /\ job' = [job EXCEPT ![q] = IF @ = "absent" THEN "pending" ELSE @]
        /\ UNCHANGED <<rowVars, runVars, lock, posts, faults, lapses>>
    BY <1>9 DEF RetryWebhookDelivery, CreateJob
  <2> HIDE DEF q
  <2>3. \A j \in Keys : job'[j] = job[j] \/ (job[j] = "absent" /\ job'[j] = "pending" /\ j = q)
    BY <1>t, <2>1, <2>2 DEF DeliveryTypeOK
  <2>4. Counted'
    BY <1>t, <2>2 DEF Counted, rowVars, runVars
  <2>5. Retries'
    BY <1>t, <2>1, <2>2, <2>3, RetryIsKey DEF Retries, DeliveryTypeOK, rowVars, runVars
  <2>6. Remembered'
    BY <1>t, <2>2, <2>3 DEF Remembered, rowVars, runVars
  <2> QED BY <2>4, <2>5, <2>6
<1>10. ASSUME NEW k \in Keys, Deliver(k)
       PROVE  Counted' /\ Retries' /\ Remembered'
  BY <1>1, <1>2, <1>3, <1>4, <1>5, <1>6, <1>7, <1>10 DEF Deliver
<1> QED BY <1>8, <1>9, <1>10, <1>11, Steps

LEMMA CountInvariance == Spec => []Counting
<1>1. Counting /\ UNCHANGED vars => Counting'
  BY DEF Counting, LockInv, Bounded, Shapes, Budget, Running, Started, Requeued, Locking, SoleRun,
     Active, Calm, Counted, Retries, Remembered, vars, rowVars, runVars
<1>2. ASSUME Counting, Next PROVE Counting'
  <2>1. Bounded /\ Bounded' /\ DeliveryTypeOK
    BY <1>2, BoundedStep, Spent DEF Counting, LockInv
  <2>2. DeliveryTypeOK'
    BY <2>1, Spent, PTL
  <2>3. (lapses' = 0 => lapses = 0) /\ (Calm' => Calm)
    BY <1>2, <2>1, CountersGrow DEF Calm
  <2>4. LockInv'
    BY <1>2, <2>1, <2>3, LockStep DEF Counting, LockInv
  <2>5. Calm' => Counted' /\ Retries' /\ Remembered'
    BY <1>2, <2>1, <2>2, <2>3, <2>4, CountStep DEF Counting, LockInv, Calm
  <2> QED BY <2>4, <2>5 DEF Counting
<1> QED BY <1>1, <1>2, CountInit, PTL DEF Spec

\* max_attempts, the requeues and the faults bound the requests, and until
\* something fails attempt_count is their number.
THEOREM AttemptsExact == Spec => []AttemptsCounted
<1>1. Counting => AttemptsCounted
  BY Spent DEF Counting, LockInv, Bounded, Budget, AttemptsCounted
<1> QED BY <1>1, CountInvariance, PTL

\* Until something fails, a pending delivery always has a job or a run that
\* will decide it.
THEOREM NeverForgotten == Spec => []NotForgotten
<1>1. Counting => NotForgotten
  BY DEF Counting, NotForgotten
<1> QED BY <1>1, CountInvariance, PTL
=============================================================================
