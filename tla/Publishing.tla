----------------------------- MODULE Publishing -----------------------------
(***************************************************************************)
(* How one page or post gets published: by an editor's request, by the     *)
(* publish_content job of its schedule, by the scheduler process that      *)
(* looks for due content every minute, and by the Celery task              *)
(* publish_scheduled_pages (cms/services.py, cms/views.py,                 *)
(* builder/views.py, builder/jobs.py).                                     *)
(*                                                                         *)
(* No request or job locks the row or runs in a transaction: each reads    *)
(* it, decides, and later saves from memory the fields it lists, or all.   *)
(* How jobs are claimed and retried is in JobQueue.                        *)
(***************************************************************************)
EXTENDS Integers, FiniteSets

CONSTANTS MaxTime,    \* bound: the last moment; schedules lie in 1..MaxTime
          MaxFaults,  \* bound: how many jobs or requests fail half way
          Events      \* bound: the events whose revalidation jobs are followed

ASSUME PublishAssumption ==
  /\ MaxTime \in Nat \ {0} /\ MaxFaults \in Nat
  /\ Events \subseteq {"page.published", "page.unpublished"}

Dates == 1..MaxTime
Never == 0   \* scheduled_at is NULL

\* The publish_content jobs of the row.  schedule_publish puts the date into
\* the idempotency key and the payload; schedule_content_publish has one key
\* per row and no date in the payload.
Undated == 0
Keys == {Undated} \cup Dates

VARIABLES
  kind,    \* "page" or "post"
  status,  \* its status
  at,      \* its scheduled_at
  now,
  job,     \* the Job row of each key; "loaded" when its handler holds the row
  due,     \* scheduled_at of the undated job, until it first runs
  sweep,   \* publish_due_pages: "idle", or "loaded" when it holds the row
  edit,    \* the editor's request that has read the row and not yet saved
  reval,   \* the runtime_revalidate job of each event
  open,    \* history: the first moment an editor allowed the row to be public
  faults

rowVars  == <<kind, status, at>>
jobVars  == <<job, due, sweep>>
vars == <<rowVars, now, jobVars, edit, reval, open, faults>>

\* A post in review and an archived one differ in nothing here: "shelved".
Statuses == IF kind = "page" THEN {"draft", "published"}
            ELSE {"draft", "scheduled", "published", "shelved"}

Idle == [op |-> "idle"]

\* What a request will save: the fields, and their values in memory.
Both == {"status", "at"}
Request(op, fields, s, t) == [op |-> op, fields |-> fields, status |-> s, at |-> t]

Requests == [op : {"save", "publish", "unpublish", "schedule"}, fields : SUBSET Both,
             status : Statuses, at : Keys]

Init ==
  /\ kind \in {"page", "post"}
  /\ status = "draft"
  /\ at = Never
  /\ now = 0
  /\ job = [k \in Keys |-> "absent"]
  /\ due = 0
  /\ sweep = "idle"
  /\ edit = Idle
  /\ reval = [e \in Events |-> "absent"]
  /\ open = MaxTime + 1
  /\ faults = 0

-----------------------------------------------------------------------------
(* create_job: a key that has a job keeps it.                               *)

Queued(j, k) == [j EXCEPT ![k] = IF @ = "absent" THEN "waiting" ELSE @]

QueuePublish(k, t) ==
  /\ job' = Queued(job, k)
  /\ due' = IF k = Undated /\ job[k] = "absent" THEN t ELSE due

QueueRevalidation(e) == reval' = IF e \in Events THEN Queued(reval, e) ELSE reval

-----------------------------------------------------------------------------
(* The editor's requests: what each has in memory once it has read the row. *)

Begin(request) ==
  /\ edit = Idle
  /\ edit' = request
  /\ UNCHANGED <<rowVars, now, jobVars, reval, open, faults>>

\* PageViewSet (cms/views.py and, for save_builder, builder/views.py), and
\* PageRevisionViewSet.restore.
SaveBuilder     == kind = "page" /\ Begin(Request("save", Both, "draft", at))
PublishPage     == kind = "page" /\ Begin(Request("publish", Both, "published", Never))
UnpublishPage   == kind = "page" /\ Begin(Request("unpublish", Both, "draft", Never))
RestoreRevision == kind = "page" /\ Begin(Request("save", {"status"}, "draft", Never))

SchedulePage(t) ==
  /\ kind = "page" /\ status = "draft" /\ t > now
  /\ Begin(Request("schedule", {"at"}, "draft", t))

\* PostViewSet; a post may be scheduled in any status, and for the past.
PublishPost     == kind = "post" /\ Begin(Request("publish", Both, "published", Never))
UnpublishPost   == kind = "post" /\ Begin(Request("unpublish", Both, "draft", Never))
SchedulePost(t) == kind = "post" /\ Begin(Request("schedule", Both, "scheduled", t))
SubmitForReview == kind = "post" /\ Begin(Request("save", {"status"}, "shelved", Never))
ArchivePost     == kind = "post" /\ Begin(Request("save", {"status"}, "shelved", Never))

\* PublishSnapshotViewSet.restore saves a whole page, and the status of a post.
RestorePage == kind = "page" /\ Begin(Request("save", Both, "draft", at))
RestorePost == kind = "post" /\ Begin(Request("save", {"status"}, "draft", Never))

\* PUT and PATCH: status and scheduled_at are writable fields.
UpdateRow(s, t) == Begin(Request("save", Both, s, t))

Earlier(t, u) == IF t < u THEN t ELSE u

\* The save: only the listed fields, from memory.
SaveRow ==
  /\ edit # Idle
  /\ status' = IF "status" \in edit.fields THEN edit.status ELSE status
  /\ at' = IF "at" \in edit.fields THEN edit.at ELSE at
  /\ LET shown == IF "status" \in edit.fields /\ edit.status = "published"
                  THEN Earlier(open, now) ELSE open
     IN  open' = IF "at" \in edit.fields /\ edit.at # Never
                 THEN Earlier(shown, edit.at) ELSE shown
  /\ edit' = Idle

\* What follows the save: the job of a schedule, and for a page that was
\* published or unpublished the revalidation of its routes.
FinishRequest ==
  /\ SaveRow
  /\ IF edit.op = "schedule"
     THEN QueuePublish(IF kind = "page" THEN edit.at ELSE Undated, edit.at)
     ELSE UNCHANGED <<job, due>>
  /\ IF edit.op \in {"publish", "unpublish"} /\ kind = "page"
     THEN QueueRevalidation(IF edit.op = "publish" THEN "page.published" ELSE "page.unpublished")
     ELSE UNCHANGED reval
  /\ UNCHANGED <<kind, now, sweep, faults>>

\* The request dies between its save and what follows.
RequestFails ==
  /\ faults < MaxFaults
  /\ SaveRow
  /\ faults' = faults + 1
  /\ UNCHANGED <<kind, now, jobVars, reval>>

-----------------------------------------------------------------------------
(* handle_publish_content.                                                  *)

DueAt(k) == IF k = Undated THEN due ELSE k

(* Mutant: content is not published in the very moment it is scheduled for. *)
Skips_AtOnce(k) == (k # Undated /\ at # Never /\ at # k) \/ at >= now \/ status = "published"

(* Mutant: a job is stale unless it bears the date of the row. *)
Skips_Undated(k) == (at # Never /\ at # k) \/ at > now \/ status = "published"

\* A stale job, a row whose time has not come, a row already published.
Skips(k) ==
  \/ (k # Undated /\ at # Never /\ at # k)
  \/ at > now
  \/ status = "published"

LoadRow(k) ==
  /\ job[k] = "waiting" /\ DueAt(k) <= now
  /\ job' = [job EXCEPT ![k] = IF Skips(k) THEN "done" ELSE "loaded"]
  /\ due' = IF k = Undated THEN 0 ELSE due
  /\ UNCHANGED <<rowVars, now, sweep, edit, reval, open, faults>>

\* publish_page_content clears scheduled_at; a post keeps it.
MakePublic ==
  /\ status' = "published"
  /\ at' = IF kind = "page" THEN Never ELSE at

(* Mutant: only the editor's own request revalidates. *)
Revalidated_ByEditor == UNCHANGED reval

Revalidated == IF kind = "page" THEN QueueRevalidation("page.published") ELSE UNCHANGED reval

PublishContent(k) ==
  /\ job[k] = "loaded"
  /\ MakePublic
  /\ Revalidated
  /\ job' = [job EXCEPT ![k] = "done"]
  /\ UNCHANGED <<kind, now, due, sweep, edit, open, faults>>

\* It raises before the save or after it: the job runs again, or no more.
PublishFails(k) ==
  /\ faults < MaxFaults
  /\ job[k] = "loaded"
  /\ MakePublic \/ UNCHANGED <<status, at>>
  /\ \E s \in {"waiting", "done"} : job' = [job EXCEPT ![k] = s]
  /\ faults' = faults + 1
  /\ UNCHANGED <<kind, now, due, sweep, edit, reval, open>>

-----------------------------------------------------------------------------
(* Mutant: content with any date counts as due. *)
Due_AnyDate == at # Never /\ status \in (IF kind = "page" THEN {"draft"} ELSE {"draft", "scheduled"})

Due ==
  /\ at # Never /\ at <= now
  /\ status \in (IF kind = "page" THEN {"draft"} ELSE {"draft", "scheduled"})

\* process_scheduled_content; its third query raises, after these two.
ProcessScheduledContent ==
  /\ Due
  /\ QueuePublish(Undated, now)
  /\ UNCHANGED <<rowVars, now, sweep, edit, reval, open, faults>>

\* publish_due_pages.
LoadDuePage ==
  /\ kind = "page" /\ Due /\ sweep = "idle"
  /\ sweep' = "loaded"
  /\ UNCHANGED <<rowVars, now, job, due, edit, reval, open, faults>>

PublishDuePage ==
  /\ sweep = "loaded"
  /\ MakePublic
  /\ Revalidated
  /\ sweep' = "idle"
  /\ UNCHANGED <<kind, now, job, due, edit, open, faults>>

\* handle_runtime_revalidate: it succeeds, or fails for good.
Revalidate(e) ==
  /\ reval[e] = "waiting"
  /\ reval' = [reval EXCEPT ![e] = "done"]
  /\ UNCHANGED <<rowVars, now, jobVars, edit, open, faults>>

\* cleanup_old_jobs deletes what has ended long ago.
CleanupPublish(k) ==
  /\ job[k] = "done"
  /\ job' = [job EXCEPT ![k] = "absent"]
  /\ UNCHANGED <<rowVars, now, due, sweep, edit, reval, open, faults>>

CleanupRevalidate(e) ==
  /\ reval[e] = "done"
  /\ reval' = [reval EXCEPT ![e] = "absent"]
  /\ UNCHANGED <<rowVars, now, jobVars, edit, open, faults>>

Tick ==
  /\ now < MaxTime
  /\ now' = now + 1
  /\ UNCHANGED <<rowVars, jobVars, edit, reval, open, faults>>

BeginNext ==
  \/ SaveBuilder \/ PublishPage \/ UnpublishPage \/ RestoreRevision
  \/ PublishPost \/ UnpublishPost \/ SubmitForReview \/ ArchivePost
  \/ RestorePage \/ RestorePost
  \/ \E t \in Dates : SchedulePage(t) \/ SchedulePost(t)
  \/ \E s \in Statuses, t \in Dates \cup {Never} : UpdateRow(s, t)

JobNext(k) == LoadRow(k) \/ PublishContent(k) \/ PublishFails(k)

Next ==
  \/ BeginNext \/ FinishRequest \/ RequestFails
  \/ \E k \in Keys : JobNext(k) \/ CleanupPublish(k)
  \/ ProcessScheduledContent \/ LoadDuePage \/ PublishDuePage
  \/ \E e \in Events : Revalidate(e) \/ CleanupRevalidate(e)
  \/ Tick

Spec == Init /\ [][Next]_vars

\* Requests end, runners and the scheduler poll, time passes.
Fairness ==
  /\ WF_vars(FinishRequest)
  /\ \A k \in Keys : WF_vars(JobNext(k))
  /\ WF_vars(ProcessScheduledContent)
  /\ \A e \in Events : WF_vars(Revalidate(e))
  /\ WF_vars(Tick)

FairSpec == Spec /\ Fairness

-----------------------------------------------------------------------------
PublishTypeOK ==
  /\ kind \in {"page", "post"}
  /\ status \in Statuses
  /\ at \in Keys
  /\ now \in 0..MaxTime
  /\ job \in [Keys -> {"absent", "waiting", "loaded", "done"}]
  /\ due \in 0..MaxTime
  /\ sweep \in {"idle", "loaded"}
  /\ edit \in {Idle} \cup Requests
  /\ reval \in [Events -> {"absent", "waiting", "done"}]
  /\ open \in 0..(MaxTime + 1)
  /\ faults \in 0..MaxFaults

\* However requests, jobs and the scheduler overlap and overwrite each other,
\* nothing is public before an editor published it or scheduled it for.
Embargo == status = "published" => open <= now

\* A draft page whose dated job waits is published, unless the schedule is
\* changed or something fails: no stale job and no other publisher uses up
\* what its own job needs.
ScheduleKept ==
  \A t \in Dates :
    kind = "page" /\ status = "draft" /\ at = t /\ job[t] = "waiting"
      ~> status = "published" \/ at # t \/ faults > 0

\* Due content that has never had an undated job is published without its
\* editor's help, unless something fails.
FirstTimePublished ==
  Due /\ job[Undated] = "absent" ~> ~Due \/ faults > 0

Publishes == edit.op = "publish" \/ \E k \in Keys : job[k] = "loaded"

\* A page in the hands of an editor's publish request or of a publish job,
\* with no revalidation job that has its key, has its routes revalidated after
\* it, unless something fails.  (What holds the key keeps the runtime's copy:
\* enqueue_runtime_revalidation leaves a finished job as it is.)
FirstTimeRevalidated ==
  \A e \in Events \cap {"page.published"} :
    kind = "page" /\ Publishes /\ reval[e] = "absent" ~> reval[e] = "done" \/ faults > 0

\* process_scheduled_content: "Find and queue all content that should be
\* published now."  Due content is published, unless something fails.
DuePublished == Due ~> ~Due \/ faults > 0
=============================================================================
