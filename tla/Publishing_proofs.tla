------------------------- MODULE Publishing_proofs -------------------------
(***************************************************************************)
(* Publishing is well typed and keeps the embargo.  The embargo is not     *)
(* inductive: a job publishes because of what it read, or of the moment it *)
(* was queued for, and neither need be what the row says now.  Whatever    *)
(* can lead to a publication - the date of the row, a job, a row that a    *)
(* job or the sweep holds - must already be allowed.                       *)
(***************************************************************************)
EXTENDS Publishing, TLAPS

USE PublishAssumption

Allowed ==
  /\ at # Never => open <= at
  /\ \A t \in Dates : job[t] # "absent" => open <= t
  /\ job[Undated] = "waiting" => open <= due \/ open <= now
  /\ \A k \in Keys : job[k] = "loaded" => open <= now
  /\ sweep = "loaded" => open <= now
  /\ edit # Idle /\ edit.op = "schedule" => "at" \in edit.fields /\ edit.at # Never
  /\ Embargo

PublishInv == PublishTypeOK /\ Allowed

-----------------------------------------------------------------------------
LEMMA InitAllowed == Init => PublishInv
BY DEF Init, PublishInv, PublishTypeOK, Allowed, Embargo, Statuses, Keys, Dates, Undated, Never, Idle

LEMMA IdleIsNoRequest == Idle \notin Requests
BY DEF Idle, Requests

LEMMA KindStays ==
  ASSUME UNCHANGED kind
  PROVE  Statuses' = Statuses /\ Requests' = Requests
BY DEF Statuses, Requests

\* A request that begins changes nothing but itself.
LEMMA BeginKeeps ==
  ASSUME PublishInv, NEW request \in Requests, Begin(request),
         request.op = "schedule" => "at" \in request.fields /\ request.at # Never
  PROVE  PublishInv'
<1>1. PublishTypeOK'
  BY DEF PublishInv, PublishTypeOK, Begin, rowVars, jobVars, Statuses, Requests
<1>2. Allowed'
  BY DEF PublishInv, Allowed, Begin, rowVars, jobVars, Embargo
<1> QED
  BY <1>1, <1>2 DEF PublishInv

LEMMA BeginsAreRequests ==
  ASSUME PublishInv, BeginNext
  PROVE  \E request \in Requests :
            /\ Begin(request)
            /\ request.op = "schedule" => "at" \in request.fields /\ request.at # Never
<1> DEFINE Holds(r) ==
      r \in Requests /\ (r.op = "schedule" => "at" \in r.fields /\ r.at # Never)
<1>1. kind \in {"page", "post"} /\ at \in Keys
  BY DEF PublishInv, PublishTypeOK
<1>2. Never \in Keys /\ \A t \in Dates : t \in Keys /\ t # Never
  BY DEF Keys, Dates, Undated, Never
<1>3. CASE kind = "page"
  <2>1. /\ Holds(Request("save", Both, "draft", at))
        /\ Holds(Request("publish", Both, "published", Never))
        /\ Holds(Request("unpublish", Both, "draft", Never))
        /\ Holds(Request("save", {"status"}, "draft", Never))
        /\ \A t \in Dates : Holds(Request("schedule", {"at"}, "draft", t))
        /\ \A s \in Statuses, t \in Dates \cup {Never} : Holds(Request("save", Both, s, t))
    BY <1>1, <1>2, <1>3 DEF Request, Requests, Both, Statuses
  <2> QED
    BY <1>3, <2>1 DEF BeginNext, SaveBuilder, PublishPage, UnpublishPage, RestoreRevision,
         PublishPost, UnpublishPost, SubmitForReview, ArchivePost, RestorePage, RestorePost,
         SchedulePage, SchedulePost, UpdateRow
<1>4. CASE kind = "post"
  <2>1. /\ Holds(Request("publish", Both, "published", Never))
        /\ Holds(Request("unpublish", Both, "draft", Never))
        /\ Holds(Request("save", {"status"}, "shelved", Never))
        /\ Holds(Request("save", {"status"}, "draft", Never))
        /\ \A t \in Dates : Holds(Request("schedule", Both, "scheduled", t))
        /\ \A s \in Statuses, t \in Dates \cup {Never} : Holds(Request("save", Both, s, t))
    BY <1>1, <1>2, <1>4 DEF Request, Requests, Both, Statuses
  <2> QED
    BY <1>4, <2>1 DEF BeginNext, SaveBuilder, PublishPage, UnpublishPage, RestoreRevision,
         PublishPost, UnpublishPost, SubmitForReview, ArchivePost, RestorePage, RestorePost,
         SchedulePage, SchedulePost, UpdateRow
<1> QED
  BY <1>1, <1>3, <1>4

\* What the save of a request makes of the row and of the moment from which
\* it may be public.
LEMMA SaveAllows ==
  ASSUME PublishInv, SaveRow
  PROVE  /\ edit \in Requests /\ edit' = Idle
         /\ status' \in Statuses /\ at' \in Keys /\ open' \in 0..(MaxTime + 1)
         /\ open' <= open
         /\ at' # Never => open' <= at'
         /\ status' = "published" => open' <= now
         /\ "at" \in edit.fields /\ edit.at # Never => open' <= edit.at
<1>1. edit \in Requests /\ edit' = Idle
  BY DEF SaveRow, PublishInv, PublishTypeOK
<1>2. /\ open \in 0..(MaxTime + 1) /\ now \in 0..MaxTime /\ status \in Statuses
      /\ at \in Keys /\ edit.at \in Keys /\ edit.status \in Statuses
  BY <1>1 DEF PublishInv, PublishTypeOK, Requests
<1>3. \A t \in Keys : t # Never => t \in 1..MaxTime
  BY DEF Keys, Dates, Undated, Never
<1> DEFINE shown == IF "status" \in edit.fields /\ edit.status = "published"
                    THEN Earlier(open, now) ELSE open
<1>4. /\ shown \in 0..(MaxTime + 1) /\ shown <= open
      /\ "status" \in edit.fields /\ edit.status = "published" => shown <= now
  BY <1>2 DEF Earlier
<1>5. open' = IF "at" \in edit.fields /\ edit.at # Never THEN Earlier(shown, edit.at) ELSE shown
  BY DEF SaveRow
<1> HIDE DEF shown
<1>6. /\ open' \in 0..(MaxTime + 1) /\ open' <= shown
      /\ "at" \in edit.fields /\ edit.at # Never => open' <= edit.at
  BY <1>2, <1>3, <1>4, <1>5 DEF Earlier
<1>7. open' <= open
  BY <1>2, <1>4, <1>6
<1>8. status' = IF "status" \in edit.fields THEN edit.status ELSE status
  BY DEF SaveRow
<1>9. at' = IF "at" \in edit.fields THEN edit.at ELSE at
  BY DEF SaveRow
<1>10. at' # Never => open' <= at'
  <2>1. at # Never => open <= at
    BY DEF PublishInv, Allowed
  <2>2. at # Never => open' <= at
    BY <2>1, <1>2, <1>3, <1>6, <1>7
  <2> QED
    BY <2>2, <1>6, <1>9
<1>11. status' = "published" => open' <= now
  <2>1. status = "published" => open <= now
    BY DEF PublishInv, Allowed, Embargo
  <2>2. status = "published" => open' <= now
    BY <2>1, <1>2, <1>6, <1>7
  <2>3. "status" \in edit.fields /\ edit.status = "published" => open' <= now
    BY <1>2, <1>4, <1>6
  <2> QED
    BY <2>2, <2>3, <1>8
<1>12. status' \in Statuses /\ at' \in Keys
  BY <1>2, <1>8, <1>9
<1> QED
  BY <1>1, <1>6, <1>7, <1>10, <1>11, <1>12

\* A key that has no job gets one; the others stay as they are.
LEMMA QueuedAt ==
  ASSUME PublishInv, NEW k \in Keys, NEW t \in 0..MaxTime, QueuePublish(k, t)
  PROVE  /\ job' \in [Keys -> {"absent", "waiting", "loaded", "done"}]
         /\ due' \in 0..MaxTime
         /\ \A j \in Keys : job'[j] = job[j] \/ (j = k /\ job[j] = "absent" /\ job'[j] = "waiting")
         /\ k = Undated /\ job[k] = "absent" => due' = t
         /\ k # Undated \/ job[k] # "absent" => due' = due
<1>1. job \in [Keys -> {"absent", "waiting", "loaded", "done"}] /\ due \in 0..MaxTime
  BY DEF PublishInv, PublishTypeOK
<1>2. job' = [job EXCEPT ![k] = IF job[k] = "absent" THEN "waiting" ELSE job[k]]
  BY DEF QueuePublish, Queued
<1>3. due' = IF k = Undated /\ job[k] = "absent" THEN t ELSE due
  BY DEF QueuePublish
<1>4. job' \in [Keys -> {"absent", "waiting", "loaded", "done"}]
  BY <1>1, <1>2
<1>5. \A j \in Keys : job'[j] = job[j] \/ (j = k /\ job[j] = "absent" /\ job'[j] = "waiting")
  BY <1>1, <1>2
<1> QED
  BY <1>1, <1>3, <1>4, <1>5

LEMMA RevalTyped ==
  ASSUME PublishInv, NEW e, QueueRevalidation(e)
  PROVE  reval' \in [Events -> {"absent", "waiting", "done"}]
BY DEF PublishInv, PublishTypeOK, QueueRevalidation, Queued

\* A job is queued for a moment from which the row may be public.
LEMMA QueueAllows ==
  ASSUME PublishInv, NEW k \in Keys, NEW t \in 0..MaxTime, QueuePublish(k, t),
         k # Undated => t = k,
         open' \in 0..(MaxTime + 1), open' <= open, open' <= t, UNCHANGED <<now, sweep>>
  PROVE  /\ \A d \in Dates : job'[d] # "absent" => open' <= d
         /\ job'[Undated] = "waiting" => open' <= due' \/ open' <= now'
         /\ \A j \in Keys : job'[j] = "loaded" => open' <= now'
<1>1. open \in 0..(MaxTime + 1) /\ now \in 0..MaxTime /\ due \in 0..MaxTime
  BY DEF PublishInv, PublishTypeOK
<1>2. Undated \in Keys /\ Undated \notin Dates /\ \A d \in Dates : d \in Keys /\ d \in 1..MaxTime
  BY DEF Keys, Dates, Undated
<1>3. /\ \A d \in Dates : job[d] # "absent" => open <= d
      /\ job[Undated] = "waiting" => open <= due \/ open <= now
      /\ \A j \in Keys : job[j] = "loaded" => open <= now
  BY DEF PublishInv, Allowed
<1>4. \A d \in Dates : job'[d] # "absent" => open' <= d
  BY <1>1, <1>2, <1>3, QueuedAt
<1>5. job'[Undated] = "waiting" => open' <= due' \/ open' <= now'
  <2>1. CASE k = Undated /\ job[Undated] = "absent"
    BY <2>1, QueuedAt
  <2>2. CASE ~(k = Undated /\ job[Undated] = "absent")
    <3>1. job'[Undated] = job[Undated] /\ due' = due
      BY <2>2, <1>2, QueuedAt
    <3> QED
      BY <3>1, <1>1, <1>3
  <2> QED
    BY <2>1, <2>2
<1>6. \A j \in Keys : job'[j] = "loaded" => open' <= now'
  BY <1>1, <1>3, QueuedAt
<1> QED
  BY <1>4, <1>5, <1>6

\* Where the jobs stay as they are, a smaller bound serves them as well.
LEMMA SmallerBound ==
  ASSUME PublishInv, open' \in 0..(MaxTime + 1), open' <= open
  PROVE  /\ \A d \in Dates : job[d] # "absent" => open' <= d
         /\ job[Undated] = "waiting" => open' <= due \/ open' <= now
         /\ \A j \in Keys : job[j] = "loaded" => open' <= now
         /\ sweep = "loaded" => open' <= now
<1>1. open \in 0..(MaxTime + 1) /\ now \in 0..MaxTime /\ due \in 0..MaxTime
  BY DEF PublishInv, PublishTypeOK
<1>2. \A d \in Dates : d \in 1..MaxTime
  BY DEF Dates
<1> QED
  BY <1>1, <1>2 DEF PublishInv, Allowed

LEMMA FinishKeeps ==
  ASSUME PublishInv, FinishRequest
  PROVE  PublishInv'
<1>1. SaveRow /\ UNCHANGED <<kind, now, sweep, faults>>
  BY DEF FinishRequest
<1>2. /\ edit \in Requests /\ edit' = Idle
      /\ status' \in Statuses /\ at' \in Keys /\ open' \in 0..(MaxTime + 1)
      /\ open' <= open
      /\ at' # Never => open' <= at'
      /\ status' = "published" => open' <= now
      /\ "at" \in edit.fields /\ edit.at # Never => open' <= edit.at
  BY <1>1, SaveAllows
<1> DEFINE key == IF kind = "page" THEN edit.at ELSE Undated
<1>3. edit.op = "schedule" => /\ QueuePublish(key, edit.at)
                              /\ key \in Keys /\ edit.at \in 0..MaxTime
                              /\ key # Undated => edit.at = key
                              /\ open' <= edit.at
  <2>1. edit.op = "schedule" => QueuePublish(key, edit.at)
    BY DEF FinishRequest
  <2>2. edit.op = "schedule" => "at" \in edit.fields /\ edit.at # Never
    BY <1>2, IdleIsNoRequest DEF PublishInv, Allowed
  <2>3. edit.at \in Keys
    BY <1>2 DEF Requests
  <2> QED
    BY <1>2, <2>1, <2>2, <2>3 DEF Keys, Dates, Undated
<1> HIDE DEF key
<1>4. /\ job' \in [Keys -> {"absent", "waiting", "loaded", "done"}]
      /\ due' \in 0..MaxTime
      /\ \A d \in Dates : job'[d] # "absent" => open' <= d
      /\ job'[Undated] = "waiting" => open' <= due' \/ open' <= now'
      /\ \A j \in Keys : job'[j] = "loaded" => open' <= now'
  <2>1. CASE edit.op = "schedule"
    BY <1>1, <1>2, <1>3, <2>1, QueueAllows, QueuedAt
  <2>2. CASE edit.op # "schedule"
    <3>1. UNCHANGED <<job, due>>
      BY <2>2 DEF FinishRequest
    <3>2. job \in [Keys -> {"absent", "waiting", "loaded", "done"}] /\ due \in 0..MaxTime
      BY DEF PublishInv, PublishTypeOK
    <3> QED
      BY <3>1, <3>2, <1>1, <1>2, SmallerBound
  <2> QED
    BY <2>1, <2>2
<1>5. reval' \in [Events -> {"absent", "waiting", "done"}]
  <2>1. reval' = reval \/ \E e : QueueRevalidation(e)
    BY DEF FinishRequest
  <2> QED
    BY <2>1, RevalTyped DEF PublishInv, PublishTypeOK
<1>6. PublishTypeOK'
  BY <1>1, <1>2, <1>4, <1>5 DEF PublishInv, PublishTypeOK, Statuses
<1>7. sweep' = "loaded" => open' <= now'
  BY <1>1, <1>2, SmallerBound
<1>8. Allowed'
  BY <1>1, <1>2, <1>4, <1>7 DEF Allowed, Embargo
<1> QED
  BY <1>6, <1>8 DEF PublishInv

LEMMA RequestFailsKeeps ==
  ASSUME PublishInv, RequestFails
  PROVE  PublishInv'
<1>1. /\ SaveRow /\ faults < MaxFaults /\ faults' = faults + 1
      /\ UNCHANGED <<kind, now, job, due, sweep, reval>>
  BY DEF RequestFails, jobVars
<1>2. /\ edit \in Requests /\ edit' = Idle
      /\ status' \in Statuses /\ at' \in Keys /\ open' \in 0..(MaxTime + 1)
      /\ open' <= open
      /\ at' # Never => open' <= at'
      /\ status' = "published" => open' <= now
  BY <1>1, SaveAllows
<1>3. PublishTypeOK'
  BY <1>1, <1>2 DEF PublishInv, PublishTypeOK, Statuses
<1>4. Allowed'
  BY <1>1, <1>2, SmallerBound DEF Allowed, Embargo
<1> QED
  BY <1>3, <1>4 DEF PublishInv

-----------------------------------------------------------------------------
LEMMA LoadKeeps ==
  ASSUME PublishInv, NEW k \in Keys, LoadRow(k)
  PROVE  PublishInv'
<1>1. /\ open \in 0..(MaxTime + 1) /\ now \in 0..MaxTime /\ due \in 0..MaxTime
      /\ job \in [Keys -> {"absent", "waiting", "loaded", "done"}]
  BY DEF PublishInv, PublishTypeOK
<1>2. Undated \in Keys /\ Undated \notin Dates /\ \A d \in Dates : d \in Keys /\ d \in 1..MaxTime
  BY DEF Keys, Dates, Undated
<1>3. /\ job[k] = "waiting" /\ DueAt(k) <= now
      /\ job' \in [Keys -> {"absent", "waiting", "loaded", "done"}]
      /\ job'[k] # "waiting"
      /\ \A j \in Keys \ {k} : job'[j] = job[j]
      /\ due' = IF k = Undated THEN 0 ELSE due
      /\ UNCHANGED <<kind, status, at, now, sweep, edit, reval, open, faults>>
  BY <1>1 DEF LoadRow, rowVars
<1>4. open <= now
  BY <1>1, <1>2, <1>3 DEF PublishInv, Allowed, DueAt, Keys
<1>5. PublishTypeOK'
  BY <1>1, <1>3, KindStays DEF PublishInv, PublishTypeOK
<1>6. /\ \A d \in Dates : job'[d] # "absent" => open' <= d
      /\ job'[Undated] = "waiting" => open' <= due' \/ open' <= now'
      /\ \A j \in Keys : job'[j] = "loaded" => open' <= now'
  BY <1>2, <1>3, <1>4 DEF PublishInv, Allowed
<1>7. Allowed'
  BY <1>3, <1>6 DEF PublishInv, Allowed, Embargo
<1> QED
  BY <1>5, <1>7 DEF PublishInv

\* Making the row public, once it is allowed, keeps what is said of the row.
LEMMA PublicAllowed ==
  ASSUME PublishInv, MakePublic \/ UNCHANGED <<status, at>>, open <= now, UNCHANGED <<kind, now, open>>
  PROVE  /\ status' \in Statuses /\ at' \in Keys
         /\ at' # Never => open' <= at'
         /\ status' = "published" => open' <= now'
BY DEF PublishInv, PublishTypeOK, Allowed, Embargo, MakePublic, Statuses, Keys, Dates, Undated, Never

LEMMA PublishKeeps ==
  ASSUME PublishInv, NEW k \in Keys, PublishContent(k) \/ PublishFails(k)
  PROVE  PublishInv'
<1>1. job \in [Keys -> {"absent", "waiting", "loaded", "done"}] /\ faults \in 0..MaxFaults
  BY DEF PublishInv, PublishTypeOK
<1>2. /\ job[k] = "loaded"
      /\ job' \in [Keys -> {"absent", "waiting", "loaded", "done"}]
      /\ job'[k] \in {"waiting", "done"}
      /\ \A j \in Keys \ {k} : job'[j] = job[j]
      /\ MakePublic \/ UNCHANGED <<status, at>>
      /\ UNCHANGED <<kind, now, due, sweep, edit, open>>
      /\ faults' \in 0..MaxFaults
  BY <1>1 DEF PublishContent, PublishFails
<1>3. reval' \in [Events -> {"absent", "waiting", "done"}]
  <2>1. reval' = reval \/ \E e : QueueRevalidation(e)
    BY DEF PublishContent, PublishFails, Revalidated
  <2> QED
    BY <2>1, RevalTyped DEF PublishInv, PublishTypeOK
<1>4. open <= now
  BY <1>2 DEF PublishInv, Allowed
<1>5. /\ status' \in Statuses /\ at' \in Keys
      /\ at' # Never => open' <= at'
      /\ status' = "published" => open' <= now'
  BY <1>2, <1>4, PublicAllowed
<1>6. PublishTypeOK'
  BY <1>2, <1>3, <1>5, KindStays DEF PublishInv, PublishTypeOK
<1>7. /\ \A d \in Dates : job'[d] # "absent" => open' <= d
      /\ job'[Undated] = "waiting" => open' <= due' \/ open' <= now'
      /\ \A j \in Keys : job'[j] = "loaded" => open' <= now'
  BY <1>2, <1>4 DEF PublishInv, Allowed, Keys, Dates
<1>8. Allowed'
  BY <1>2, <1>5, <1>7 DEF PublishInv, Allowed, Embargo
<1> QED
  BY <1>6, <1>8 DEF PublishInv

LEMMA DueIsAllowed ==
  ASSUME PublishInv, Due
  PROVE  open <= now
<1>1. open \in 0..(MaxTime + 1) /\ now \in 0..MaxTime /\ at \in Keys
  BY DEF PublishInv, PublishTypeOK
<1>2. at # Never /\ at <= now /\ open <= at
  BY DEF Due, PublishInv, Allowed
<1> QED
  BY <1>1, <1>2 DEF Keys, Dates, Undated

LEMMA ProcessKeeps ==
  ASSUME PublishInv, ProcessScheduledContent
  PROVE  PublishInv'
<1>1. Due /\ QueuePublish(Undated, now) /\ UNCHANGED <<kind, status, at, now, sweep, edit, reval, open, faults>>
  BY DEF ProcessScheduledContent, rowVars
<1>2. Undated \in Keys /\ now \in 0..MaxTime /\ open \in 0..(MaxTime + 1)
  BY DEF Keys, PublishInv, PublishTypeOK
<1>3. open' <= now /\ open' <= open /\ open' \in 0..(MaxTime + 1)
  BY <1>1, <1>2, DueIsAllowed
<1>4. /\ job' \in [Keys -> {"absent", "waiting", "loaded", "done"}]
      /\ due' \in 0..MaxTime
      /\ \A d \in Dates : job'[d] # "absent" => open' <= d
      /\ job'[Undated] = "waiting" => open' <= due' \/ open' <= now'
      /\ \A j \in Keys : job'[j] = "loaded" => open' <= now'
  BY <1>1, <1>2, <1>3, QueueAllows, QueuedAt
<1>5. PublishTypeOK'
  BY <1>1, <1>4, KindStays DEF PublishInv, PublishTypeOK
<1>6. Allowed'
  BY <1>1, <1>4 DEF PublishInv, Allowed, Embargo
<1> QED
  BY <1>5, <1>6 DEF PublishInv

LEMMA SweepKeeps ==
  ASSUME PublishInv, LoadDuePage \/ PublishDuePage
  PROVE  PublishInv'
<1>1. CASE LoadDuePage
  <2>1. Due /\ sweep' = "loaded" /\ UNCHANGED <<kind, status, at, now, job, due, edit, reval, open, faults>>
    BY <1>1 DEF LoadDuePage, rowVars
  <2>2. open <= now
    BY <2>1, DueIsAllowed
  <2>3. PublishTypeOK'
    BY <2>1, KindStays DEF PublishInv, PublishTypeOK
  <2>4. Allowed'
    BY <2>1, <2>2 DEF PublishInv, Allowed, Embargo
  <2> QED
    BY <2>3, <2>4 DEF PublishInv
<1>2. CASE PublishDuePage
  <2>1. /\ sweep = "loaded" /\ sweep' = "idle" /\ MakePublic
        /\ UNCHANGED <<kind, now, job, due, edit, open, faults>>
    BY <1>2 DEF PublishDuePage
  <2>2. reval' \in [Events -> {"absent", "waiting", "done"}]
    <3>1. reval' = reval \/ \E e : QueueRevalidation(e)
      BY <1>2 DEF PublishDuePage, Revalidated
    <3> QED
      BY <3>1, RevalTyped DEF PublishInv, PublishTypeOK
  <2>3. /\ status' \in Statuses /\ at' \in Keys
        /\ at' # Never => open' <= at'
        /\ status' = "published" => open' <= now'
    BY <2>1, PublicAllowed DEF PublishInv, Allowed
  <2>4. PublishTypeOK'
    BY <2>1, <2>2, <2>3, KindStays DEF PublishInv, PublishTypeOK
  <2>5. Allowed'
    BY <2>1, <2>3 DEF PublishInv, Allowed, Embargo
  <2> QED
    BY <2>4, <2>5 DEF PublishInv
<1> QED
  BY <1>1, <1>2

LEMMA OthersKeep ==
  ASSUME PublishInv,
         \/ \E e \in Events : Revalidate(e) \/ CleanupRevalidate(e)
         \/ \E k \in Keys : CleanupPublish(k)
         \/ Tick
         \/ UNCHANGED vars
  PROVE  PublishInv'
<1>1. ASSUME NEW e \in Events, Revalidate(e) \/ CleanupRevalidate(e)
      PROVE  PublishInv'
  <2>1. PublishTypeOK'
    BY <1>1, KindStays DEF PublishInv, PublishTypeOK, Revalidate, CleanupRevalidate, rowVars, jobVars
  <2>2. Allowed'
    BY <1>1 DEF PublishInv, Allowed, Embargo, Revalidate, CleanupRevalidate, rowVars, jobVars
  <2> QED
    BY <2>1, <2>2 DEF PublishInv
<1>2. ASSUME NEW k \in Keys, CleanupPublish(k)
      PROVE  PublishInv'
  <2>1. PublishTypeOK'
    BY <1>2, KindStays DEF PublishInv, PublishTypeOK, CleanupPublish, rowVars
  <2>2. \A j \in Keys : job'[j] = job[j] \/ job'[j] = "absent"
    BY <1>2 DEF PublishInv, PublishTypeOK, CleanupPublish
  <2>3. Undated \in Keys /\ \A d \in Dates : d \in Keys
    BY DEF Keys
  <2>4. Allowed'
    BY <1>2, <2>2, <2>3 DEF PublishInv, Allowed, Embargo, CleanupPublish, rowVars
  <2> QED
    BY <2>1, <2>4 DEF PublishInv
<1>3. CASE Tick
  <2>1. now \in 0..MaxTime /\ now' \in 0..MaxTime /\ now' = now + 1 /\ open \in 0..(MaxTime + 1)
    BY <1>3 DEF PublishInv, PublishTypeOK, Tick
  <2>2. UNCHANGED <<kind, status, at, job, due, sweep, edit, reval, open, faults>>
    BY <1>3 DEF Tick, rowVars, jobVars
  <2>3. PublishTypeOK'
    BY <2>1, <2>2, KindStays DEF PublishInv, PublishTypeOK
  <2>4. open <= now => open' <= now'
    BY <2>1, <2>2
  <2>5. Allowed'
    BY <2>1, <2>2, <2>4 DEF PublishInv, Allowed, Embargo
  <2> QED
    BY <2>3, <2>5 DEF PublishInv
<1>4. CASE UNCHANGED vars
  <2>1. PublishTypeOK'
    BY <1>4, KindStays DEF PublishInv, PublishTypeOK, vars, rowVars, jobVars
  <2>2. Allowed'
    BY <1>4 DEF PublishInv, Allowed, Embargo, vars, rowVars, jobVars
  <2> QED
    BY <2>1, <2>2 DEF PublishInv
<1> QED
  BY <1>1, <1>2, <1>3, <1>4

LEMMA InvIsInductive == PublishInv /\ [Next]_vars => PublishInv'
<1> SUFFICES ASSUME PublishInv, [Next]_vars PROVE PublishInv'
  OBVIOUS
<1>1. CASE BeginNext
  BY <1>1, BeginsAreRequests, BeginKeeps
<1>2. CASE FinishRequest \/ RequestFails
  BY <1>2, FinishKeeps, RequestFailsKeeps
<1>3. ASSUME NEW k \in Keys, JobNext(k) \/ CleanupPublish(k)
      PROVE  PublishInv'
  BY <1>3, LoadKeeps, PublishKeeps, OthersKeep DEF JobNext
<1>4. CASE ProcessScheduledContent \/ LoadDuePage \/ PublishDuePage
  BY <1>4, ProcessKeeps, SweepKeeps
<1>5. CASE (\E e \in Events : Revalidate(e) \/ CleanupRevalidate(e)) \/ Tick \/ UNCHANGED vars
  BY <1>5, OthersKeep
<1> QED
  BY <1>1, <1>2, <1>3, <1>4, <1>5 DEF Next

LEMMA PublishInvariance == Spec => []PublishInv
<1> QED
  BY InitAllowed, InvIsInductive, PTL DEF Spec

\* Type correctness of the row, its jobs and the requests in progress.
THEOREM PublishTyping == Spec => []PublishTypeOK
<1>1. PublishInv => PublishTypeOK
  BY DEF PublishInv
<1> QED
  BY <1>1, PublishInvariance, PTL

\* However many dates there are and whatever fails, no request, job or sweep
\* makes the row public before an editor published it or scheduled it for.
THEOREM EmbargoKept == Spec => []Embargo
<1>1. PublishInv => Embargo
  BY DEF PublishInv, Allowed
<1> QED
  BY <1>1, PublishInvariance, PTL

=============================================================================
