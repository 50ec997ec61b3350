---------------------------- MODULE SearchIndex ----------------------------
(***************************************************************************)
(* The search entry of one media asset.  Requests change the asset and ask *)
(* the job queue to index it or to remove its entry; runners do so.  The   *)
(* requests of one minute share one job per operation, because the minute  *)
(* is part of the job's key.                                               *)
(*                                                                         *)
(* The entry is the SearchDocument row; Meilisearch, which is written after *)
(* it and whose errors are swallowed, is left out.  Pages, posts and       *)
(* products are indexed in the same way and never ask for a removal.       *)
(***************************************************************************)
EXTENDS JobQueue

CONSTANTS LastMinute,  \* bound: minutes 0..LastMinute
          MaxChanges   \* bound: changes of the asset

Ops == {"upsert", "delete"}

ASSUME SearchAssumption ==
  /\ LastMinute \in Nat
  /\ MaxChanges \in Nat \ {0}
  /\ Keys = Ops \X (0..LastMinute)
  /\ Unhandled = {}  \* search_index has a handler
  /\ None \notin Ops /\ None \notin 0..(MaxChanges + 2)

\* What the row and the entry can hold, besides a text: no row, no entry.
Texts == 1..(MaxChanges + 1)
Gone == 0
Done == MaxChanges + 2  \* for "loaded": the entry is written

VARIABLES
  text,     \* the text of the asset's row, Gone after a hard delete
  trashed,  \* deleted_at is set
  entry,    \* the text in the index, or Gone
  changes,  \* changes of the asset so far
  minute,   \* time.time() // 60
  opened,   \* deleted_at as each editing request read it, or None
  asking,   \* the operation each request has yet to queue, or None
  loaded,   \* what each runner's handler has read, None before it has
  calm      \* history: nothing named in UNCALM below has happened

assetVars  == <<text, trashed, changes>>
searchVars == <<assetVars, entry, minute, opened, asking, loaded, calm>>

SearchInit ==
  /\ Init
  /\ text = 1
  /\ trashed = FALSE
  /\ entry = 1
  /\ changes = 0
  /\ minute = 0
  /\ opened = [p \in Producers |-> None]
  /\ asking = [p \in Producers |-> None]
  /\ loaded = [w \in Workers |-> None]
  /\ calm = TRUE

\* What the index should hold.
Wanted == IF trashed THEN Gone ELSE text

-----------------------------------------------------------------------------
(* The requests.  Each changes the row and then queues one operation.       *)
(*                                                                         *)
(* UNCALM: a change that meets unfinished work of the other operation or a *)
(* handler under way; an edit of a trashed asset; a request answered with  *)
(* a job that is no longer waiting; a job that failed or died.             *)

Free(p) == opened[p] = None /\ asking[p] = None /\ creating[p] = None

Unfinished(op) ==
  \/ \E w \in Workers : stage[w] = "running"
  \/ \E k \in Keys : k[1] # op /\ status[k] \in {"pending", "running"}
  \/ \E p \in Producers :
       asking[p] \notin {None, op} \/ creating[p] \in {k \in Keys : k[1] # op}

Change(p, op) ==
  /\ changes < MaxChanges
  /\ changes' = changes + 1
  /\ asking' = [asking EXCEPT ![p] = op]
  /\ UNCHANGED <<vars, entry, minute, loaded>>

\* get_object of a PATCH.
Open(p) ==
  /\ Free(p) /\ text # Gone
  /\ opened' = [opened EXCEPT ![p] = trashed]
  /\ UNCHANGED <<vars, assetVars, entry, minute, asking, loaded, calm>>

\* serializer.save() writes every column: a deletion since the row was read,
\* soft or hard, is undone.
Save(p) ==
  /\ opened[p] # None
  /\ text' = changes + 2
  /\ trashed' = opened[p]
  /\ opened' = [opened EXCEPT ![p] = None]
  /\ Change(p, "upsert")
  /\ calm' = (calm /\ ~Unfinished("upsert") /\ ~opened[p])

Trash(p) ==
  /\ Free(p) /\ text # Gone /\ ~trashed
  /\ trashed' = TRUE
  /\ Change(p, "delete")
  /\ calm' = (calm /\ ~Unfinished("delete"))
  /\ UNCHANGED <<text, opened>>

RestoreAsset(p) ==
  /\ Free(p) /\ text # Gone /\ trashed
  /\ trashed' = FALSE
  /\ Change(p, "upsert")
  /\ calm' = (calm /\ ~Unfinished("upsert"))
  /\ UNCHANGED <<text, opened>>

(* Mutant: a row that is deleted asks for no removal, as with pages. *)
HardDelete_Unasked(p) ==
  /\ Free(p) /\ text # Gone
  /\ changes < MaxChanges
  /\ text' = Gone
  /\ trashed' = FALSE
  /\ changes' = changes + 1
  /\ calm' = (calm /\ ~Unfinished("delete"))
  /\ UNCHANGED <<vars, entry, minute, loaded, opened, asking>>

HardDelete(p) ==
  /\ Free(p) /\ text # Gone
  /\ text' = Gone
  /\ trashed' = FALSE
  /\ Change(p, "delete")
  /\ calm' = (calm /\ ~Unfinished("delete"))
  /\ UNCHANGED opened

-----------------------------------------------------------------------------
(* queue_search_index: the minute is read, and create_job called.           *)

\* create_job finds no row, or answers with the one it finds.
LookForIndexJob(p) ==
  LET k == <<asking[p], minute>> IN
  /\ asking[p] # None
  /\ asking' = [asking EXCEPT ![p] = None]
  /\ IF status[k] = "absent"
     THEN FindMissing(p, k) /\ UNCHANGED calm
     ELSE calm' = (calm /\ status[k] = "pending") /\ UNCHANGED vars
  /\ UNCHANGED <<assetVars, entry, minute, opened, loaded>>

\* The insert, or the row of the request that was first.
QueueIndexJob(p) ==
  /\ InsertJob(p)
  /\ calm' = (calm /\ status[creating[p]] \in {"absent", "pending"})
  /\ UNCHANGED <<assetVars, entry, minute, opened, asking, loaded>>

NextMinute ==
  /\ minute < LastMinute
  /\ minute' = minute + 1
  /\ UNCHANGED <<vars, assetVars, entry, opened, asking, loaded, calm>>

-----------------------------------------------------------------------------
(* handle_search_index.                                                     *)

Running(w, op) == stage[w] = "running" /\ current[w][1] = op

\* The row is read, trashed or not.
Load(w) ==
  /\ Running(w, "upsert") /\ loaded[w] = None
  /\ loaded' = [loaded EXCEPT ![w] = text]
  /\ UNCHANGED <<vars, assetVars, entry, minute, opened, asking, calm>>

\* update_or_create of the entry with what was read.
Index(w) ==
  /\ Running(w, "upsert") /\ loaded[w] \in Texts
  /\ entry' = loaded[w]
  /\ loaded' = [loaded EXCEPT ![w] = Done]
  /\ UNCHANGED <<vars, assetVars, minute, opened, asking, calm>>

\* The row is missing: skipped, and an entry it may have stays.
Skip(w) ==
  /\ Running(w, "upsert") /\ loaded[w] = Gone
  /\ loaded' = [loaded EXCEPT ![w] = Done]
  /\ UNCHANGED <<vars, assetVars, entry, minute, opened, asking, calm>>

Remove(w) ==
  /\ Running(w, "delete") /\ loaded[w] = None
  /\ entry' = Gone
  /\ loaded' = [loaded EXCEPT ![w] = Done]
  /\ UNCHANGED <<vars, assetVars, minute, opened, asking, calm>>

HandleIndex(w) == Load(w) \/ Index(w) \/ Skip(w) \/ Remove(w)

-----------------------------------------------------------------------------
(* The queue around the handler.                                            *)

EndIndex(w) ==
  /\ loaded' = [loaded EXCEPT ![w] = None]
  /\ UNCHANGED <<assetVars, entry, minute, opened, asking>>

IndexReturns(w) ==
  /\ loaded[w] = Done
  /\ SaveResult(w)
  /\ EndIndex(w) /\ UNCHANGED calm

\* A statement of the handler raised: again later, or never.
IndexRaises(w) ==
  /\ SaveFailure(w)
  /\ EndIndex(w)
  /\ calm' = (calm /\ status'[current[w]] = "pending")

IndexUnsaved(w) ==
  /\ FailUnsaved(w)
  /\ EndIndex(w)
  /\ calm' = (calm /\ loaded[w] = Done)

IndexDies(w) ==
  /\ Crash(w)
  /\ EndIndex(w)
  /\ calm' = (calm /\ stage[w] \in {"idle", "claiming"})

\* Cleanup is left out: it deletes jobs of minutes 30 days ago, whose keys no
\* request computes again.
QueueAlone ==
  /\ \/ \E k \in Keys : BecomeDue(k)
     \/ \E w \in Workers : SelectBatch(w) \/ CommitClaim(w) \/ StartHandler(w) \/ Restart(w)
  /\ UNCHANGED searchVars

SearchNext ==
  \/ \E p \in Producers :
       \/ Open(p) \/ Save(p) \/ Trash(p) \/ RestoreAsset(p) \/ HardDelete(p)
       \/ LookForIndexJob(p) \/ QueueIndexJob(p)
  \/ NextMinute
  \/ \E w \in Workers : HandleIndex(w) \/ IndexReturns(w) \/ IndexRaises(w) \/ IndexUnsaved(w) \/ IndexDies(w)
  \/ QueueAlone

allSearchVars == <<vars, searchVars>>

SearchSpec == SearchInit /\ [][SearchNext]_allSearchVars

-----------------------------------------------------------------------------
\* The variables have their types, and only a handler that runs has read.
SearchTypeOK ==
  /\ text \in Texts \cup {Gone}
  /\ trashed \in BOOLEAN
  /\ entry \in Texts \cup {Gone}
  /\ changes \in 0..MaxChanges
  /\ minute \in 0..LastMinute
  /\ opened \in [Producers -> BOOLEAN \cup {None}]
  /\ asking \in [Producers -> Ops \cup {None}]
  /\ loaded \in [Workers -> Texts \cup {Gone, Done, None}]
  /\ calm \in BOOLEAN
  /\ \A w \in Workers : stage[w] # "running" => loaded[w] = None

\* Nothing about the asset is left to be done.
Drained ==
  /\ \A p \in Producers : asking[p] = None /\ creating[p] = None
  /\ \A k \in Keys : status[k] \notin {"pending", "running"}

\* The index is right at rest, whatever the order and number of the changes,
\* and through retries and crashes, except for what UNCALM names: in particular
\* for changes that share a minute but each meet a finished queue, or none.
CalmAgrees == calm /\ Drained => entry = Wanted
=============================================================================
