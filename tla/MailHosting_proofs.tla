------------------------- MODULE MailHosting_proofs -------------------------
(***************************************************************************)
(* Mailboxes, aliases and the tasks that bring them to the provider, for   *)
(* any domains, addresses, web processes, faults and any number of tasks.  *)
(***************************************************************************)
EXTENDS MailHosting, SequenceTheorems, TLAPS

(* The tasks and who has them.  What a process has in hand is a task of    *)
(* the kind it runs; deletions are never queued.                           *)
RowType ==
  /\ domain \in [Domains -> Status \cup {"none", "gone"}]
  /\ stamped \subseteq Domains
  /\ mapping \in [Domains -> {"none", "pending", "active"}]
  /\ row \in [Items -> {"none", "there", "deleted", "cascaded"}]
  /\ version \in [Items -> 0..MaxEdits]
  /\ hosted \in [Items -> {Absent} \cup 0..MaxEdits]
  /\ faults \in 0..MaxFaults
  /\ ready \subseteq Domains
  /\ unsent \subseteq Items /\ mixed \subseteq Items /\ inline \subseteq Items

(* What the rows point to, and what a PUT or PATCH has read.  An alias that *)
(* points elsewhere than when it was created was saved without a task.      *)
EditType ==
  /\ parent \in [Items -> Domains \cup Mailboxes]
  /\ \A i \in Items : parent[i] \in Domains <=> i \in Mailboxes
  /\ \A a \in Aliases : a \in unsent \/ parent[a] = BoxOf[a]
  /\ edit \in [Edits -> Snapshot]
  /\ \A e \in Edits : edit[e].on \in Domains <=> edit[e].status \in Status
  /\ renamed \subseteq Domains /\ restored \subseteq Domains \cup Items

PlaceType ==
  /\ tasks \in Seq(TaskRow)
  /\ queue \in Seq(DOMAIN tasks)
  /\ run \in [Runners -> Frame]
  /\ \A p \in Runners : run[p].task \in DOMAIN tasks \cup {None}
  /\ killed \subseteq DOMAIN tasks

TaskFits(t) == IF t.op \in {"provision", "verify"} THEN t.on \in Domains ELSE t.on \in Items

FrameFits(f, rows) ==
  /\ f.task = None <=> f.op \in {"idle", "insert", "saved"}
  /\ f.op \in {"provision", "verify", "create", "sync", "delete"} => rows[f.task].op = f.op
  /\ f.op = "activate" => rows[f.task].op = "verify"
  /\ f.op = "dispatch" => rows[f.task].op # "delete"
  /\ f.op \in {"create", "sync"} => f.seen \in 0..MaxEdits
  /\ f.outer \in DOMAIN rows \cup {None}

Frames ==
  /\ \A t \in DOMAIN tasks : TaskFits(tasks[t])
  /\ \A a \in DOMAIN queue : tasks[queue[a]].op # "delete"
  /\ \A p \in Runners : FrameFits(run[p], tasks)

(* A task is in one place at most: in the queue, or with a process.        *)
Once ==
  /\ \A a, b \in DOMAIN queue : queue[a] = queue[b] => a = b
  /\ \A p, q \in Runners : run[p].task # None /\ run[p].task = run[q].task => p = q
  /\ \A p \in Runners, a \in DOMAIN queue : run[p].task # queue[a]

Held(t) ==
  \/ \E a \in DOMAIN queue : queue[a] = t
  \/ \E p \in Runners : run[p].task = t

Open == \A t \in DOMAIN tasks : Held(t) => tasks[t].state # "success"

(* What a mailbox that was created, or is about to be, rests on, and what  *)
(* the save of a row read earlier does.                                    *)
Mapped(d) == d \in ready /\ (d \notin renamed => mapping[d] = "active")

EditBacked(e) ==
  /\ edit[e].status = "active" => edit[e].stamped /\ Mapped(edit[e].on)
  /\ edit[e].on \in Items => row[edit[e].on] # "none"

Backed ==
  /\ ActiveIsBacked
  /\ \A d \in Domains : domain[d] = "active" => d \in ready
  /\ \A p \in Runners :
       /\ run[p].op = "activate" => Mapped(Target(p))
       /\ run[p].op = "insert" => \A m \in run[p].left : m \in Mailboxes /\ DomainOf[m] \in ready
  /\ EditType
  /\ \A e \in Edits : EditBacked(e)

(* An item is created at the provider by one task, which is spent before   *)
(* anything can be deleted there; what a deletion has deleted stays away.  *)
Creates(t, i) == tasks[t].op = "create" /\ tasks[t].on = i
Coming(i) == \E t \in DOMAIN tasks : Creates(t, i) /\ Held(t)
Away(i) == hosted[i] = Absent /\ ~Coming(i)
Deleting(p) == {Target(p)} \cup run[p].listed

ItemDeletions(i) ==
  /\ row[i] = "none" => hosted[i] = Absent /\ \A t \in DOMAIN tasks : tasks[t].on # i
  /\ row[i] = "deleted" /\ i \notin mixed => Away(i)
  /\ Coming(i) => hosted[i] = Absent
  /\ \A s, t \in DOMAIN tasks : Creates(s, i) /\ Creates(t, i) => s = t

RunDeletions(p) ==
  /\ run[p].op = "saved" => \A i \in run[p].left : row[i] # "none" /\ run[p].left = {i}
  /\ run[p].op = "delete" =>
       /\ run[p].left \subseteq Deleting(p)
       /\ \A a \in run[p].listed : a \in unsent \/ BoxOf[a] = Target(p)
       /\ \A i \in Deleting(p) : row[i] # "none" /\ (i \notin run[p].left \cup mixed => Away(i))

Deletions ==
  /\ \A i \in Items : ItemDeletions(i)
  /\ \A p \in Runners : RunDeletions(p)

(* An item that is not in step is owed a task that has not succeeded, and  *)
(* one the worker is about to set to old settings is owed another.         *)
Concerns(t, i) ==
  tasks[t].on = i \/ (i \in Aliases /\ tasks[t].on = BoxOf[i] /\ tasks[t].op = "delete")

Owed(i, done) ==
  \/ \E p \in Runners : run[p].op = "saved" /\ i \in run[p].left
  \/ \E t \in DOMAIN tasks \ done : Concerns(t, i) /\ tasks[t].state # "success"

OwedElse(i) == Owed(i, {run["worker"].task})

Applying(p, i) == run[p].op \in {"create", "sync"} /\ Target(p) = i

ItemOwing(i) ==
  Exists(i) /\ i \notin unsent \cup inline \cup mixed =>
    /\ hosted[i] # version[i] => Owed(i, {})
    /\ Applying("worker", i) /\ run["worker"].seen # version[i] => OwedElse(i)

Owing ==
  /\ \A p \in Requests, i \in Items : Applying(p, i) => i \in inline
  /\ \A i \in Items : ItemOwing(i)

TaskInv == PlaceType /\ Frames /\ Once /\ Open

MailInv == RowType /\ TaskInv /\ Backed /\ Deletions /\ Owing

-----------------------------------------------------------------------------
(* How the tasks and the processes can move.                               *)

LEMMA TypeSplits == RowType /\ EditType /\ PlaceType => MailTypeOK
BY DEF MailTypeOK, RowType, EditType, PlaceType

LEMMA FrameTypes ==
  /\ Idle \in Frame
  /\ \A f \in Frame : /\ f.op \in {"idle", "dispatch", "insert", "saved", "activate"} \cup
                                   {"provision", "verify", "create", "sync", "delete"}
                      /\ f.task \in Nat \cup {None} /\ f.seen \in Nat
                      /\ f.left \subseteq Items /\ f.listed \subseteq Aliases
                      /\ f.outer \in Nat \cup {None}
BY DEF Idle, Frame

\* Process p goes on with f; rows are added to the tasks and their states
\* change, to success only when p puts its task down.
Moves(p, f) ==
  /\ run' = [run EXCEPT ![p] = f]
  /\ f \in Frame
  /\ f.task \in {run[p].task, None} \cup (DOMAIN tasks' \ DOMAIN tasks)
  /\ FrameFits(f, tasks')

TasksGrow(p, f) ==
  /\ tasks' \in Seq(TaskRow) /\ DOMAIN tasks \subseteq DOMAIN tasks'
  /\ \A t \in DOMAIN tasks :
       /\ tasks'[t].op = tasks[t].op /\ tasks'[t].on = tasks[t].on
       /\ tasks'[t].state = "success" =>
            tasks[t].state = "success" \/ (t = run[p].task /\ f.task # t)
  /\ \A t \in DOMAIN tasks' \ DOMAIN tasks :
       TaskFits(tasks'[t]) /\ tasks'[t].state # "success"

LEMMA Moved ==
  ASSUME TaskInv, NEW p \in Runners, NEW f, Moves(p, f), TasksGrow(p, f), queue' = queue,
         killed' \subseteq DOMAIN tasks'
  PROVE  /\ TaskInv'
         /\ \A t \in DOMAIN tasks : Held(t)' => Held(t)
<1>0. /\ run \in [Runners -> Frame] /\ f.task \in DOMAIN tasks' \cup {None}
      /\ queue \in Seq(DOMAIN tasks) /\ None \notin Nat
      /\ \A q \in Runners : run[q].task \in DOMAIN tasks \cup {None}
      /\ \A a \in DOMAIN queue : queue[a] \in DOMAIN tasks
      /\ None \notin DOMAIN tasks' /\ None \notin DOMAIN tasks /\ DOMAIN tasks \subseteq DOMAIN tasks'
  BY MailAssumption DEF MailAssumption, TaskInv, PlaceType, Moves, TasksGrow
<1>1. run'[p] = f /\ \A q \in Runners \ {p} : run'[q] = run[q]
  BY <1>0 DEF Moves
<1>2. PlaceType'
  BY <1>0, <1>1 DEF TaskInv, PlaceType, Moves, TasksGrow
<1>3. Frames'
  <2>1. \A t \in DOMAIN tasks' : TaskFits(tasks'[t])
    BY DEF TaskInv, Frames, TasksGrow, TaskFits
  <2>2. \A a \in DOMAIN queue' : tasks'[queue'[a]].op # "delete"
    <3>1. /\ \A a \in DOMAIN queue : tasks[queue[a]].op # "delete"
          /\ \A t \in DOMAIN tasks : tasks'[t].op = tasks[t].op
      BY DEF TaskInv, Frames, TasksGrow
    <3> QED BY <1>0, <3>1
  <2>3. ASSUME NEW q \in Runners PROVE FrameFits(run'[q], tasks')
    <3>1. CASE q = p
      BY <1>1, <3>1 DEF Moves
    <3>2. CASE q # p
      <4>1. FrameFits(run[q], tasks) /\ run[q].task \in DOMAIN tasks \cup {None}
        BY <1>0 DEF TaskInv, Frames
      <4>2. \A t \in DOMAIN tasks : tasks'[t].op = tasks[t].op
        BY DEF TasksGrow
      <4> QED BY <1>0, <1>1, <3>2, <4>1, <4>2, FrameTypes DEF FrameFits
    <3> QED BY <3>1, <3>2
  <2> QED BY <2>1, <2>2, <2>3 DEF Frames
<1>4. Once'
  <2>1. Once
    BY DEF TaskInv
  <2>2. \A q \in Runners, a \in DOMAIN queue : run'[q].task # queue[a]
    BY <1>0, <1>1, <2>1 DEF Once, Moves
  <2>3. \A q, r \in Runners : run'[q].task # None /\ run'[q].task = run'[r].task => q = r
    BY <1>0, <1>1, <2>1 DEF Once, Moves
  <2> QED BY <1>0, <2>1, <2>2, <2>3 DEF Once
<1>5. \A t \in DOMAIN tasks : Held(t)' => Held(t)
  BY <1>0, <1>1 DEF Held, Moves
<1>6. Open'
  <2>1. ASSUME NEW t \in DOMAIN tasks', Held(t)' PROVE tasks'[t].state # "success"
    <3>1. CASE t \notin DOMAIN tasks
      BY <3>1 DEF TasksGrow
    <3>2. CASE t \in DOMAIN tasks
      <4>1. t = run[p].task /\ f.task # t => ~Held(t)'
        BY <1>0, <1>1, <3>2 DEF TaskInv, Once, Held
      <4> QED BY <1>5, <2>1, <3>2, <4>1 DEF TaskInv, Open, TasksGrow
    <3> QED BY <3>1, <3>2
  <2> QED BY <2>1 DEF Open
<1> QED BY <1>2, <1>3, <1>4, <1>5, <1>6 DEF TaskInv

\* What the steps do to the rows of the tasks.
LEMMA SameTasks ==
  ASSUME TaskInv, tasks' = tasks, NEW p, NEW f
  PROVE  TasksGrow(p, f)
BY DEF TaskInv, PlaceType, TasksGrow

LEMMA MarkedTasks ==
  ASSUME TaskInv, NEW p, NEW f, NEW t \in DOMAIN tasks,
         NEW state \in {"pending", "running", "success", "failed"},
         tasks' = [tasks EXCEPT ![t].state = state],
         state = "success" => t = run[p].task /\ f.task # t
  PROVE  TasksGrow(p, f) /\ DOMAIN tasks' = DOMAIN tasks
<1>0. tasks \in Seq(TaskRow)
  BY DEF TaskInv, PlaceType
<1>1. /\ tasks' \in Seq(TaskRow) /\ DOMAIN tasks' = DOMAIN tasks
      /\ \A x \in DOMAIN tasks : /\ tasks'[x].op = tasks[x].op /\ tasks'[x].on = tasks[x].on
                                 /\ tasks'[x].state = IF x = t THEN state ELSE tasks[x].state
  <2>1. [tasks[t] EXCEPT !.state = state] \in TaskRow
    <3>1. tasks[t] \in TaskRow
      BY <1>0, ElementOfSeq, LenProperties
    <3> QED BY <3>1 DEF TaskRow
  <2>2. t \in 1..Len(tasks) /\ DOMAIN tasks = 1..Len(tasks)
    BY <1>0, LenProperties
  <2>3. tasks' = [tasks EXCEPT ![t] = [tasks[t] EXCEPT !.state = state]]
    OBVIOUS
  <2>4. tasks' \in Seq(TaskRow)
    BY <1>0, <2>1, <2>2, <2>3, ExceptSeq
  <2>5. \A x \in DOMAIN tasks : tasks[x] \in TaskRow
    BY <1>0, <2>2, ElementOfSeq
  <2> QED BY <2>2, <2>3, <2>4, <2>5 DEF TaskRow
<1> QED BY <1>1 DEF TasksGrow

LEMMA AddedTask ==
  ASSUME TaskInv, NEW p, NEW f, NEW r \in TaskRow, TaskFits(r), r.state # "success",
         NEW rows \in Seq(TaskRow), DOMAIN rows = DOMAIN tasks,
         \A t \in DOMAIN tasks :
           /\ rows[t].op = tasks[t].op /\ rows[t].on = tasks[t].on
           /\ rows[t].state = "success" =>
                tasks[t].state = "success" \/ (t = run[p].task /\ f.task # t),
         tasks' = Append(rows, r)
  PROVE  /\ TasksGrow(p, f)
         /\ Len(tasks) + 1 \notin DOMAIN tasks /\ DOMAIN tasks' = DOMAIN tasks \cup {Len(tasks) + 1}
         /\ tasks'[Len(tasks) + 1] = r
<1>0. tasks \in Seq(TaskRow) /\ Len(rows) = Len(tasks) /\ Len(tasks) \in Nat
      /\ DOMAIN tasks = 1..Len(tasks)
  BY DEF TaskInv, PlaceType
<1>1. /\ tasks' \in Seq(TaskRow) /\ DOMAIN tasks' = 1..(Len(tasks) + 1)
      /\ tasks'[Len(tasks) + 1] = r
      /\ \A t \in DOMAIN tasks : tasks'[t] = rows[t]
  BY <1>0
<1>2. Len(tasks) + 1 \notin DOMAIN tasks /\ DOMAIN tasks' = DOMAIN tasks \cup {Len(tasks) + 1}
  BY <1>0, <1>1
<1> QED BY <1>0, <1>1, <1>2 DEF TasksGrow

LEMMA Dispatched ==
  ASSUME TaskInv, NEW p \in Runners, Dispatch(p)
  PROVE  /\ TaskInv'
         /\ \A t \in DOMAIN tasks : Held(t)' => Held(t)
<1> DEFINE n == Len(queue) + 1
<1>0. /\ run \in [Runners -> Frame] /\ queue \in Seq(DOMAIN tasks)
      /\ tasks' = tasks /\ killed' = killed
      /\ queue' = Append(queue, run[p].task) /\ run' = [run EXCEPT ![p] = Idle]
      /\ Idle \in Frame /\ Idle.task = None /\ run[p].op = "dispatch"
      /\ None \notin DOMAIN tasks
      /\ \A q \in Runners : run[q].task \in DOMAIN tasks \cup {None}
  BY FrameTypes, MailAssumption DEF MailAssumption, TaskInv, PlaceType, Dispatch, historyVars, Idle
<1>1. run[p].task \in DOMAIN tasks /\ tasks[run[p].task].op # "delete"
  BY <1>0 DEF TaskInv, Frames, FrameFits
<1>2. /\ queue' \in Seq(DOMAIN tasks) /\ DOMAIN queue = 1..Len(queue) /\ Len(queue) \in Nat
      /\ DOMAIN queue' = DOMAIN queue \cup {n} /\ n \notin DOMAIN queue
      /\ \A a \in DOMAIN queue : queue'[a] = queue[a]
      /\ queue'[n] = run[p].task
  BY <1>0, <1>1
<1>3. run'[p] = Idle /\ \A q \in Runners \ {p} : run'[q] = run[q]
  BY <1>0
<1> HIDE DEF n
<1>4. PlaceType'
  BY <1>0, <1>2, <1>3 DEF TaskInv, PlaceType
<1>5. Frames'
  <2>1. \A q \in Runners : FrameFits(run'[q], tasks')
    BY <1>0, <1>3 DEF TaskInv, Frames, FrameFits, Idle
  <2> QED BY <1>0, <1>1, <1>2, <2>1 DEF TaskInv, Frames
<1>6. Once'
  <2>1. Once
    BY DEF TaskInv
  <2> QED BY <1>0, <1>1, <1>2, <1>3, <2>1 DEF Once
<1>7. \A t \in DOMAIN tasks : Held(t)' => Held(t)
  BY <1>0, <1>2, <1>3 DEF Held
<1>8. Open'
  BY <1>0, <1>7 DEF TaskInv, Open
<1> QED BY <1>4, <1>5, <1>6, <1>7, <1>8 DEF TaskInv

\* The worker takes task t from the head of the queue and goes on with f.
LEMMA TakenOff ==
  ASSUME TaskInv, queue # <<>>, queue' = Tail(queue), run["worker"].op = "idle",
         NEW f \in Frame, run' = [run EXCEPT !["worker"] = f], f.task \in {None, Head(queue)},
         FrameFits(f, tasks'), TasksGrow("worker", f), DOMAIN tasks' = DOMAIN tasks,
         killed' = killed
  PROVE  /\ TaskInv'
         /\ \A t \in DOMAIN tasks : Held(t)' => Held(t)
<1>0. /\ run \in [Runners -> Frame] /\ queue \in Seq(DOMAIN tasks) /\ None \notin DOMAIN tasks
      /\ \A q \in Runners : run[q].task \in DOMAIN tasks \cup {None}
      /\ "worker" \in Runners /\ run["worker"].task = None
  BY MailAssumption
     DEF MailAssumption, TaskInv, PlaceType, Runners, Frames, FrameFits
<1>1. /\ queue' \in Seq(DOMAIN tasks) /\ 1 \in DOMAIN queue /\ Head(queue) = queue[1]
      /\ \A a \in DOMAIN queue' : a + 1 \in DOMAIN queue /\ queue'[a] = queue[a + 1]
                                  /\ a \in Nat /\ a + 1 # 1
  <2>1. /\ Tail(queue) \in Seq(DOMAIN tasks) /\ Len(Tail(queue)) = Len(queue) - 1
        /\ \A a \in 1..Len(Tail(queue)) : Tail(queue)[a] = queue[a + 1]
    BY <1>0, HeadTailProperties
  <2>2. /\ DOMAIN queue = 1..Len(queue) /\ Len(queue) \in Nat \ {0}
        /\ DOMAIN queue' = 1..Len(Tail(queue))
    BY <1>0, <2>1, LenProperties, EmptySeq
  <2> QED BY <1>0, <2>1, <2>2
<1>2. run'["worker"] = f /\ \A q \in Runners \ {"worker"} : run'[q] = run[q]
  BY <1>0
<1>3. PlaceType'
  BY <1>0, <1>1, <1>2 DEF TaskInv, PlaceType, TasksGrow
<1>4. Frames'
  <2>1. \A t \in DOMAIN tasks : tasks'[t].op = tasks[t].op /\ tasks'[t].on = tasks[t].on
    BY DEF TasksGrow
  <2>2. \A t \in DOMAIN tasks' : TaskFits(tasks'[t])
    BY <2>1 DEF TaskInv, Frames, TaskFits
  <2>3. \A a \in DOMAIN queue' : tasks'[queue'[a]].op # "delete"
    <3>1. \A a \in DOMAIN queue : queue[a] \in DOMAIN tasks /\ tasks[queue[a]].op # "delete"
      BY <1>0 DEF TaskInv, Frames
    <3> QED BY <1>1, <2>1, <3>1
  <2>4. ASSUME NEW q \in Runners PROVE FrameFits(run'[q], tasks')
    <3>1. CASE q = "worker"
      BY <1>2, <3>1
    <3>2. CASE q # "worker"
      <4>1. FrameFits(run[q], tasks) /\ run[q].task \in DOMAIN tasks \cup {None}
        BY <1>0 DEF TaskInv, Frames
      <4> QED BY <1>0, <1>2, <2>1, <3>2, <4>1, FrameTypes DEF FrameFits
    <3> QED BY <3>1, <3>2
  <2> QED BY <2>2, <2>3, <2>4 DEF Frames
<1>5. Once'
  <2>1. /\ \A a, b \in DOMAIN queue : queue[a] = queue[b] => a = b
        /\ \A p, q \in Runners : run[p].task # None /\ run[p].task = run[q].task => p = q
        /\ \A p \in Runners, a \in DOMAIN queue : run[p].task # queue[a]
    BY DEF TaskInv, Once
  <2>2. \A a, b \in DOMAIN queue' : queue'[a] = queue'[b] => a = b
    BY <1>1, <2>1
  <2>3. \A p, q \in Runners : run'[p].task # None /\ run'[p].task = run'[q].task => p = q
    BY <1>1, <1>2, <2>1
  <2>4. \A p \in Runners, a \in DOMAIN queue' : run'[p].task # queue'[a]
    <3>1. \A a \in DOMAIN queue : queue[a] # None
      BY <1>0
    <3> QED BY <1>1, <1>2, <2>1, <3>1
  <2> QED BY <2>2, <2>3, <2>4 DEF Once
<1>6. \A t \in DOMAIN tasks : Held(t)' => Held(t)
  BY <1>0, <1>1, <1>2 DEF Held
<1>7. Open'
  <2>1. \A t \in DOMAIN tasks : tasks'[t].state = "success" => tasks[t].state = "success"
    BY <1>0 DEF TasksGrow, TaskInv, Once
  <2> QED BY <1>6, <2>1 DEF TaskInv, Open
<1> QED BY <1>3, <1>4, <1>5, <1>6, <1>7 DEF TaskInv

-----------------------------------------------------------------------------
(* What each kind of step does to the tasks.  In all of them a task that   *)
(* was there is held only if it was before.                                *)
Kept == TaskInv' /\ \A t \in DOMAIN tasks : Held(t)' => Held(t)

\* Process p has put its task down, or goes on with it.
LEMMA FrameKinds ==
  ASSUME TaskInv, NEW p \in Runners
  PROVE  /\ run[p] \in Frame /\ Idle \in Frame /\ FrameFits(Idle, tasks) /\ Idle.task = None
         /\ run[p].op \notin {"idle", "insert", "saved"} => run[p].task \in DOMAIN tasks
         /\ run[p].task \in DOMAIN tasks \cup {None} /\ None \notin DOMAIN tasks
         /\ FrameFits(run[p], tasks)
<1>1. /\ run[p] \in Frame /\ run[p].task \in DOMAIN tasks \cup {None} /\ None \notin DOMAIN tasks
      /\ FrameFits(run[p], tasks)
  BY MailAssumption DEF MailAssumption, TaskInv, PlaceType, Frames
<1>2. Idle \in Frame /\ FrameFits(Idle, tasks) /\ Idle.task = None
  BY FrameTypes DEF FrameFits, Idle
<1> QED BY <1>1, <1>2 DEF FrameFits

LEMMA Dropped ==
  ASSUME TaskInv, NEW p \in Runners, run' = [run EXCEPT ![p] = Idle], tasks' = tasks,
         queue' = queue, killed' \subseteq DOMAIN tasks'
  PROVE  Kept
<1>1. Moves(p, Idle) /\ TasksGrow(p, Idle)
  BY FrameKinds, SameTasks DEF Moves
<1> QED BY <1>1, Moved DEF Kept

LEMMA Ended ==
  ASSUME TaskInv, NEW p \in Runners, run[p].op \notin {"idle", "insert", "saved"},
         NEW state \in {"success", "failed"}, End(p, state), queue' = queue, killed' = killed
  PROVE  Kept /\ TasksGrow(p, Idle) /\ DOMAIN tasks' = DOMAIN tasks
<1>1. run[p].task \in DOMAIN tasks /\ Idle.task # run[p].task
  BY FrameKinds
<1>2. TasksGrow(p, Idle) /\ DOMAIN tasks' = DOMAIN tasks
  BY <1>1, MarkedTasks DEF End
<1>3. Moves(p, Idle)
  BY <1>2, FrameKinds DEF Moves, End, FrameFits, Idle
<1> QED BY <1>2, <1>3, Moved DEF Kept, TaskInv, PlaceType

\* A request or a run puts a new task in the hands of process p.
LEMMA Started ==
  ASSUME TaskInv, NEW p \in Runners, NEW f \in Frame, NEW r \in TaskRow, TaskFits(r),
         r.state # "success", f.task = Len(tasks) + 1, f.outer \in DOMAIN tasks \cup {None},
         \/ f.op = "dispatch" /\ r.op # "delete"
         \/ f.op = "delete" /\ r.op = "delete",
         NEW rows \in Seq(TaskRow), DOMAIN rows = DOMAIN tasks,
         \A t \in DOMAIN tasks :
           /\ rows[t].op = tasks[t].op /\ rows[t].on = tasks[t].on
           /\ rows[t].state = "success" => tasks[t].state = "success" \/ t = run[p].task,
         tasks' = Append(rows, r), run' = [run EXCEPT ![p] = f], queue' = queue, killed' = killed
  PROVE  /\ Kept /\ TasksGrow(p, f)
         /\ Len(tasks) + 1 \notin DOMAIN tasks /\ DOMAIN tasks' = DOMAIN tasks \cup {Len(tasks) + 1}
         /\ tasks'[Len(tasks) + 1] = r
<1>1. Len(tasks) + 1 \notin DOMAIN tasks
  BY LenProperties DEF TaskInv, PlaceType
<1>2. /\ TasksGrow(p, f) /\ DOMAIN tasks' = DOMAIN tasks \cup {Len(tasks) + 1}
      /\ tasks'[Len(tasks) + 1] = r
  BY <1>1, AddedTask
<1>3. Moves(p, f)
  <2>1. f.task # None
    BY <1>2, MailAssumption, LenProperties DEF MailAssumption, TaskInv, PlaceType
  <2> QED BY <1>1, <1>2, <2>1 DEF Moves, FrameFits
<1> QED BY <1>1, <1>2, <1>3, Moved DEF Kept, TaskInv, PlaceType

\* What a run that begins has read.
LEMMA BeginKinds ==
  ASSUME RowType, TaskInv, NEW p \in Runners, NEW t \in DOMAIN tasks,
         NEW outer \in DOMAIN tasks \cup {None},
         tasks[t].op # "delete", Begin(p, t, outer)
  PROVE  \E f \in Frame :
           /\ run' = [run EXCEPT ![p] = f] /\ f.task \in {t, None}
           /\ FrameFits(f, tasks') /\ TasksGrow(p, f) /\ DOMAIN tasks' = DOMAIN tasks
           /\ f.left = {} /\ f.op \in {"idle", "provision", "verify", "create", "sync"}
           /\ f.op # "idle" => f.task = t /\ Exists(tasks[t].on)
           /\ f.op \in {"create", "sync"} =>
                tasks[t].on \in Items /\ f.seen = version[tasks[t].on]
           /\ tasks' = tasks \/ tasks' = [tasks EXCEPT ![t].state = "running"]
           /\ domain' = domain \/ (tasks[t].op = "verify"
                                   /\ domain' = [domain EXCEPT ![tasks[t].on] = "verifying"])
<1> DEFINE x == tasks[t].on
           seen == IF x \in Items THEN version[x] ELSE IF x \in stamped THEN 1 ELSE 0
           g == [Idle EXCEPT !.op = tasks[t].op, !.task = t, !.outer = outer, !.seen = seen]
<1>0. /\ tasks \in Seq(TaskRow) /\ tasks[t] \in TaskRow /\ TaskFits(tasks[t])
      /\ Idle \in Frame /\ FrameFits(Idle, tasks) /\ Idle.task = None /\ Idle.left = {}
      /\ Idle.op = "idle"
      /\ None \notin DOMAIN tasks /\ t \in Nat
  <2>1. tasks \in Seq(TaskRow) /\ TaskFits(tasks[t])
    BY DEF TaskInv, PlaceType, Frames
  <2>2. tasks[t] \in TaskRow /\ t \in Nat
    BY <2>1, ElementOfSeq, LenProperties
  <2>3. Idle.left = {} /\ Idle.op = "idle"
    BY DEF Idle
  <2> QED BY <2>1, <2>2, <2>3, FrameKinds
<1>1. CASE ~Exists(x)
  <2>1. run' = [run EXCEPT ![p] = Idle] /\ tasks' = tasks /\ domain' = domain
    BY <1>1 DEF Begin
  <2>2. TasksGrow(p, Idle)
    BY <2>1, SameTasks
  <2> QED BY <1>0, <2>1, <2>2
<1>2. CASE Exists(x)
  <2>1. /\ tasks' = [tasks EXCEPT ![t].state = "running"]
        /\ run' = [run EXCEPT ![p] = g]
        /\ domain' = IF tasks[t].op = "verify" THEN [domain EXCEPT ![x] = "verifying"] ELSE domain
    BY <1>2 DEF Begin
  <2>2. TasksGrow(p, g) /\ DOMAIN tasks' = DOMAIN tasks
    BY <2>1, MarkedTasks
  <2>3. /\ seen \in Nat /\ tasks[t].op \in {"provision", "verify", "create", "sync"}
        /\ tasks[t].op \in {"create", "sync"} =>
             x \in Items /\ seen \in 0..MaxEdits /\ seen = version[x]
        /\ outer \in Nat \cup {None}
    <3>1. tasks[t].op \in {"create", "sync"} => x \in Items
      BY <1>0 DEF TaskFits
    <3>2. x \in Items => version[x] \in 0..MaxEdits
      BY DEF RowType
    <3>3. tasks[t].op \in {"provision", "verify", "create", "sync"}
      BY <1>0 DEF TaskRow
    <3>4. outer \in Nat \cup {None}
      BY <1>0, LenProperties
    <3> QED BY <3>1, <3>2, <3>3, <3>4, MailAssumption DEF MailAssumption
  <2> HIDE DEF seen
  <2>4. /\ g \in Frame /\ g.op = tasks[t].op /\ g.task = t /\ g.left = {} /\ g.seen = seen
        /\ g.outer = outer
    BY <1>0, <2>3 DEF Idle, Frame
  <2>5. tasks'[t].op = tasks[t].op
    BY <2>2 DEF TasksGrow
  <2>6. FrameFits(g, tasks')
    BY <1>0, <2>2, <2>3, <2>4, <2>5 DEF FrameFits
  <2> HIDE DEF g
  <2> QED BY <1>2, <2>1, <2>2, <2>3, <2>4, <2>6
<1> QED BY <1>1, <1>2

-----------------------------------------------------------------------------
(* What a step leaves true of everything it does not touch.                *)

\* Process p goes on with f, having kept the tasks' invariant.
Advance(p, f) == p \in Runners /\ Kept /\ TasksGrow(p, f) /\ run' = [run EXCEPT ![p] = f]

Fresh(t) == t \in DOMAIN tasks' \ DOMAIN tasks

\* A task that was there keeps what it is for, whoever has it.
LEMMA Bystanders ==
  ASSUME TaskInv, NEW p, NEW f, Advance(p, f)
  PROVE  /\ run'[p] = f /\ \A q \in Runners \ {p} : run'[q] = run[q]
         /\ \A q \in Runners : run[q].task # None /\ run'[q].task = run[q].task =>
              run[q].task \in DOMAIN tasks /\ Target(q)' = Target(q)
         /\ \A q \in Runners : run[q].op \notin {"idle", "insert", "saved"} =>
              run[q].task \in DOMAIN tasks
         /\ DOMAIN tasks \subseteq DOMAIN tasks' /\ None \notin DOMAIN tasks
         /\ \A t \in DOMAIN tasks : tasks'[t].op = tasks[t].op /\ tasks'[t].on = tasks[t].on
         /\ \A t \in DOMAIN tasks : Held(t)' => Held(t)
<1>1. run \in [Runners -> Frame] /\ \A q \in Runners : run[q].task \in DOMAIN tasks \cup {None}
  BY DEF TaskInv, PlaceType
<1>2. \A q \in Runners : run[q].op \notin {"idle", "insert", "saved"} => run[q].task \in DOMAIN tasks
  BY FrameKinds
<1>3. DOMAIN tasks \subseteq DOMAIN tasks'
      /\ \A t \in DOMAIN tasks : tasks'[t].op = tasks[t].op /\ tasks'[t].on = tasks[t].on
  BY DEF Advance, TasksGrow
<1>4. None \notin DOMAIN tasks
  BY MailAssumption DEF MailAssumption, TaskInv, PlaceType
<1> QED BY <1>1, <1>2, <1>3, <1>4 DEF Advance, Kept, Target

LEMMA BackedKept ==
  ASSUME MailInv, NEW p, NEW f, Advance(p, f),
         \A d \in Domains : mapping[d] = "active" => mapping'[d] = "active",
         ready \subseteq ready',
         \A d \in Domains : domain'[d] = "active" =>
           \/ domain[d] = "active" /\ (d \in stamped => d \in stamped')
           \/ d \in stamped' /\ Mapped(d)',
         \A i \in Items : row[i] # "none" => row'[i] # "none",
         \A m \in Mailboxes : row'[m] # "none" => row[m] # "none" \/ DomainOf[m] \in ready',
         \/ UNCHANGED editVars /\ unsent \subseteq unsent'
         \/ EditType' /\ renamed \subseteq renamed' /\ \A e \in Edits : edit'[e] = edit[e] \/ EditBacked(e)',
         \A q \in Runners :
           \/ run'[q] = run[q]
           \/ /\ run'[q].op = "activate" => Mapped(Target(q))'
              /\ run'[q].op = "insert" =>
                   \A m \in run'[q].left : m \in Mailboxes /\ DomainOf[m] \in ready'
  PROVE  Backed'
<1>0. TaskInv /\ RowType /\ Backed
  BY DEF MailInv
<1>1. EditType' /\ renamed \subseteq renamed' /\ \A e \in Edits : edit'[e] = edit[e] \/ EditBacked(e)'
  BY <1>0 DEF Backed, EditType, editVars
<1>2. \A d \in Domains : Mapped(d) => Mapped(d)'
  BY <1>1 DEF Mapped
<1>3. \A d \in Domains : domain'[d] = "active" => d \in stamped' /\ Mapped(d)'
  BY <1>0, <1>2 DEF Backed, ActiveIsBacked, Mapped
<1>4. \A m \in Mailboxes : row'[m] # "none" => DomainOf[m] \in ready'
  BY <1>0 DEF Backed, ActiveIsBacked
<1>5. ASSUME NEW q \in Runners
      PROVE  /\ run'[q].op = "activate" => Mapped(Target(q))'
             /\ run'[q].op = "insert" =>
                  \A m \in run'[q].left : m \in Mailboxes /\ DomainOf[m] \in ready'
  <2>1. CASE run'[q] = run[q]
    <3>1. run[q].op = "activate" => Target(q)' = Target(q) /\ Mapped(Target(q))
      BY <1>0, <2>1, Bystanders DEF Backed
    <3>2. run[q].op = "activate" => Target(q) \in Domains
      BY <1>0 DEF RowType, Backed, Mapped
    <3> QED BY <1>0, <1>2, <2>1, <3>1, <3>2 DEF Backed, Mapped
  <2> QED BY <2>1 DEF Mapped
<1>6. ASSUME NEW e \in Edits PROVE EditBacked(e)'
  <2>1. CASE edit'[e] = edit[e]
    <3>1. EditBacked(e) /\ (edit[e].status = "active" => edit[e].on \in Domains)
      BY <1>0 DEF Backed, EditType, Status
    <3> QED BY <1>2, <2>1, <3>1 DEF EditBacked, Mapped
  <2> QED BY <1>1, <2>1
<1> QED BY <1>1, <1>3, <1>4, <1>5, <1>6 DEF Backed, ActiveIsBacked, Mapped

LEMMA StillComing ==
  ASSUME TaskInv, NEW p, NEW f, Advance(p, f), NEW i \in Items,
         \A t : Fresh(t) => ~Creates(t, i)', Coming(i)'
  PROVE  Coming(i)
<1>1. PICK t \in DOMAIN tasks' : Creates(t, i)' /\ Held(t)'
  BY DEF Coming
<1>2. t \in DOMAIN tasks
  BY <1>1 DEF Fresh
<1> QED BY <1>1, <1>2, Bystanders DEF Coming, Creates

LEMMA DeletionsKept ==
  ASSUME MailInv, NEW p, NEW f, Advance(p, f), mixed \subseteq mixed', unsent \subseteq unsent',
         \A i \in Items :
           /\ row[i] # "none" => row'[i] # "none"
           /\ row'[i] = "deleted" => row[i] = "deleted" \/ (row[i] # "none" /\ (i \in mixed' \/ Away(i)))
           /\ hosted'[i] = Absent \/ hosted[i] # Absent \/ (Coming(i) /\ ~Coming(i)'),
         \A t : Fresh(t) /\ tasks'[t].on \in Items =>
           row'[tasks'[t].on] # "none" /\ (tasks'[t].op = "create" => row[tasks'[t].on] = "none"),
         \A s, t : Fresh(s) /\ Fresh(t) => s = t,
         \A q \in Runners : run'[q] = run[q] \/ RunDeletions(q)'
  PROVE  /\ Deletions'
         /\ \A i \in Items : row[i] # "none" /\ Away(i) => Away(i)'
<1>0. TaskInv /\ Deletions
  BY DEF MailInv
<1>1. ASSUME NEW i \in Items, row[i] # "none", Coming(i)'
      PROVE  Coming(i)
  BY <1>0, <1>1, StillComing DEF Creates
<1>2. ASSUME NEW i \in Items, row[i] # "none", Away(i)
      PROVE  Away(i)'
  BY <1>1, <1>2 DEF Away
<1>3. ASSUME NEW i \in Items PROVE ItemDeletions(i)'
  <2>0. ItemDeletions(i)
    BY <1>0 DEF Deletions
  <2>1. row[i] = "none" => ~Coming(i)
    BY <2>0 DEF ItemDeletions, Coming, Creates
  <2>2. row'[i] = "none" => hosted'[i] = Absent /\ \A t \in DOMAIN tasks' : tasks'[t].on # i
    <3> SUFFICES ASSUME row'[i] = "none"
                 PROVE  hosted'[i] = Absent /\ \A t \in DOMAIN tasks' : tasks'[t].on # i
      OBVIOUS
    <3>1. row[i] = "none" /\ hosted'[i] = Absent
      BY <2>0, <2>1 DEF ItemDeletions
    <3>2. ASSUME NEW t \in DOMAIN tasks' PROVE tasks'[t].on # i
      <4>1. CASE t \in DOMAIN tasks
        BY <1>0, <2>0, <3>1, <4>1, Bystanders DEF ItemDeletions
      <4>2. CASE Fresh(t)
        BY <4>2
      <4> QED BY <4>1, <4>2 DEF Fresh
    <3> QED BY <3>1, <3>2
  <2>3. row'[i] = "deleted" /\ i \notin mixed' => Away(i)'
    BY <1>2, <2>0 DEF ItemDeletions
  <2>4. Coming(i)' => hosted'[i] = Absent
    BY <1>1, <2>0, <2>1 DEF ItemDeletions
  <2>5. ASSUME NEW s \in DOMAIN tasks', NEW t \in DOMAIN tasks', Creates(s, i)', Creates(t, i)'
        PROVE  s = t
    <3>1. ASSUME NEW u, Fresh(u), Creates(u, i)' PROVE \A v \in DOMAIN tasks : ~Creates(v, i)
      BY <2>0, <3>1 DEF ItemDeletions, Creates
    <3>2. \A v \in DOMAIN tasks : Creates(v, i)' => Creates(v, i)
      BY <1>0, Bystanders DEF Creates
    <3>3. CASE s \in DOMAIN tasks /\ t \in DOMAIN tasks
      BY <2>0, <2>5, <3>2, <3>3 DEF ItemDeletions
    <3> QED BY <2>5, <3>1, <3>2, <3>3 DEF Fresh
  <2> QED BY <2>2, <2>3, <2>4, <2>5 DEF ItemDeletions
<1>4. ASSUME NEW q \in Runners PROVE RunDeletions(q)'
  <2>0. RunDeletions(q)
    BY <1>0 DEF Deletions
  <2>1. CASE run'[q] = run[q]
    <3>1. run[q].op = "delete" => Target(q)' = Target(q) /\ Deleting(q)' = Deleting(q)
      BY <1>0, <2>1, Bystanders DEF Deleting
    <3>2. run[q].op = "delete" => Deleting(q) \subseteq Items
      <4>1. run[q] \in Frame /\ FrameFits(run[q], tasks)
        BY <1>0, FrameKinds
      <4>2. run[q].op = "delete" => run[q].task \in DOMAIN tasks /\ tasks[run[q].task].op = "delete"
        BY <1>0, <4>1, FrameKinds DEF FrameFits
      <4>3. \A t \in DOMAIN tasks : tasks[t].op = "delete" => tasks[t].on \in Items
        BY <1>0 DEF TaskInv, Frames, TaskFits
      <4> QED BY <4>1, <4>2, <4>3, FrameTypes DEF Deleting, Target, Items
    <3>3. run[q].left \subseteq Items
      BY <1>0, FrameKinds, FrameTypes
    <3>4. run[q].op = "saved" => \A i \in run'[q].left : row'[i] # "none" /\ run'[q].left = {i}
      BY <2>0, <2>1, <3>3 DEF RunDeletions
    <3>5. run[q].op = "delete" =>
            /\ run'[q].left \subseteq Deleting(q)'
            /\ \A a \in run'[q].listed : a \in unsent' \/ BoxOf[a] = Target(q)'
            /\ \A i \in Deleting(q)' : row'[i] # "none" /\ (i \notin run'[q].left \cup mixed' => Away(i)')
      BY <1>2, <2>0, <2>1, <3>1, <3>2 DEF RunDeletions
    <3> QED BY <2>1, <3>4, <3>5 DEF RunDeletions
  <2> QED BY <2>1
<1> QED BY <1>2, <1>3, <1>4 DEF Deletions

\* An item stays owed what it was: the tasks done with are no others than
\* before, and what had been saved has got its task if it is not saved still.
LEMMA OwedKept ==
  ASSUME MailInv, NEW p, NEW f, Advance(p, f), NEW i \in Items, NEW done, Owed(i, done),
         \A t \in DOMAIN tasks \ done :
           Concerns(t, i) /\ t = run[p].task /\ tasks[t].state # "success" =>
             tasks'[t].state # "success",
         run[p].op = "saved" /\ i \in run[p].left =>
           f = run[p] \/ \E t : Fresh(t) /\ Concerns(t, i)' /\ t \notin done
  PROVE  Owed(i, done)'
<1>0. TaskInv
  BY DEF MailInv
<1>1. CASE \E q \in Runners : run[q].op = "saved" /\ i \in run[q].left
  <2>1. PICK q \in Runners : run[q].op = "saved" /\ i \in run[q].left
    BY <1>1
  <2>2. CASE run'[q] = run[q]
    BY <2>1, <2>2 DEF Owed
  <2>3. CASE run'[q] # run[q]
    <3>1. q = p /\ f # run[p]
      BY <1>0, <2>3, Bystanders
    <3>2. PICK t : Fresh(t) /\ Concerns(t, i)' /\ t \notin done
      BY <2>1, <3>1
    <3>3. tasks'[t].state # "success" /\ t \in DOMAIN tasks' \ done
      BY <3>2 DEF Advance, TasksGrow, Fresh
    <3> QED BY <3>2, <3>3 DEF Owed
  <2> QED BY <2>2, <2>3
<1>2. CASE \E t \in DOMAIN tasks \ done : Concerns(t, i) /\ tasks[t].state # "success"
  <2>1. PICK t \in DOMAIN tasks \ done : Concerns(t, i) /\ tasks[t].state # "success"
    BY <1>2
  <2>2. t \in DOMAIN tasks' \ done /\ Concerns(t, i)'
    BY <1>0, <2>1, Bystanders DEF Concerns
  <2>3. tasks'[t].state # "success"
    BY <2>1 DEF Advance, TasksGrow
  <2> QED BY <2>2, <2>3 DEF Owed
<1> QED BY <1>1, <1>2 DEF Owed

\* What the worker is about to set an item to, it is about to set it to still.
LEMMA ItemKept ==
  ASSUME MailInv, NEW p, NEW f, Advance(p, f), NEW i \in Items,
         hosted'[i] = hosted[i], version'[i] = version[i],
         Exists(i)' /\ i \notin (unsent \cup inline \cup mixed)' =>
           /\ Exists(i) /\ i \notin unsent \cup inline \cup mixed
           /\ \A t \in DOMAIN tasks :
                Concerns(t, i) /\ t = run[p].task /\ tasks[t].state # "success" =>
                  tasks'[t].state # "success"
           /\ run[p].op = "saved" /\ i \in run[p].left =>
                f = run[p] \/ \E t : Fresh(t) /\ Concerns(t, i)',
         \/ run'["worker"] = run["worker"]
         \/ run'["worker"].op \notin {"create", "sync"}
         \/ Applying("worker", i)' => run'["worker"].seen = version[i]
  PROVE  ItemOwing(i)'
<1>0. TaskInv /\ ItemOwing(i) /\ "worker" \in Runners
  BY DEF MailInv, Owing, Runners
<1> SUFFICES ASSUME Exists(i)', i \notin (unsent \cup inline \cup mixed)'
             PROVE  /\ hosted'[i] # version'[i] => Owed(i, {})'
                    /\ Applying("worker", i)' /\ run'["worker"].seen # version'[i] => OwedElse(i)'
  BY DEF ItemOwing
<1>1. hosted'[i] # version'[i] => Owed(i, {})'
  BY <1>0, OwedKept DEF ItemOwing
<1>2. ASSUME Applying("worker", i)', run'["worker"].seen # version'[i] PROVE OwedElse(i)'
  <2>1. run'["worker"] = run["worker"]
    BY <1>2 DEF Applying
  <2>2. Applying("worker", i) /\ run["worker"].task \in DOMAIN tasks
    BY <1>0, <1>2, <2>1, Bystanders DEF Applying
  <2>3. PICK done : done = {run["worker"].task}
    OBVIOUS
  <2>4. Owed(i, done)
    BY <1>0, <1>2, <2>1, <2>2, <2>3 DEF ItemOwing, OwedElse
  <2>5. \A t : Fresh(t) => t \notin done
    BY <2>2, <2>3 DEF Fresh
  <2>6. Owed(i, done)'
    BY <2>4, <2>5, OwedKept
  <2> QED BY <2>1, <2>3, <2>6 DEF OwedElse, Owed
<1> QED BY <1>1, <1>2

\* A request applies to an item only what it runs itself.
LEMMA InlineKept ==
  ASSUME MailInv, NEW p, NEW f, Advance(p, f), inline \subseteq inline',
         \/ f.op \notin {"create", "sync"}
         \/ f = run[p]
         \/ p \in Requests => Target(p)' \in inline'
  PROVE  \A q \in Requests, i \in Items : Applying(q, i)' => i \in inline'
<1>0. TaskInv /\ \A q \in Requests, i \in Items : Applying(q, i) => i \in inline
  BY DEF MailInv, Owing
<1> SUFFICES ASSUME NEW q \in Requests, NEW i \in Items, Applying(q, i)' PROVE i \in inline'
  OBVIOUS
<1>1. q \in Runners
  BY DEF Runners
<1>2. CASE run'[q] = run[q]
  <2>1. Applying(q, i)
    BY <1>0, <1>1, <1>2, Bystanders DEF Applying
  <2> QED BY <1>0, <2>1
<1>3. CASE run'[q] # run[q]
  <2>1. q = p /\ run'[p] = f
    BY <1>0, <1>1, <1>3, Bystanders
  <2> QED BY <1>3, <2>1 DEF Applying
<1> QED BY <1>2, <1>3

-----------------------------------------------------------------------------
(* One step after the other.                                               *)

\* The task a process has in hand.
LEMMA InHand ==
  ASSUME TaskInv, NEW p \in Runners
  PROVE  /\ run[p].op \notin {"idle", "insert", "saved"} =>
              run[p].task \in DOMAIN tasks /\ tasks[run[p].task].state # "success"
         /\ run[p].op \in {"provision", "verify", "activate"} => Target(p) \in Domains
         /\ run[p].op \in {"create", "sync", "delete"} =>
              Target(p) \in Items /\ tasks[run[p].task].op = run[p].op
<1>1. FrameFits(run[p], tasks)
      /\ (run[p].op \notin {"idle", "insert", "saved"} => run[p].task \in DOMAIN tasks)
  BY FrameKinds
<1>2. \A t \in DOMAIN tasks : TaskFits(tasks[t])
  BY DEF TaskInv, Frames
<1>3. \A t \in DOMAIN tasks : run[p].task = t => tasks[t].state # "success"
  BY DEF TaskInv, Open, Held
<1> QED BY <1>1, <1>2, <1>3 DEF FrameFits, TaskFits, Target

\* A step that changes no mailbox or alias, here or at the provider: it may
\* begin a run for one, and may lose what was saved of one.
LEMMA CalmStep ==
  ASSUME MailInv, NEW p, NEW f, Advance(p, f),
         row' = row, version' = version, hosted' = hosted,
         mixed \subseteq mixed', unsent \subseteq unsent', inline \subseteq inline',
         \/ f = run[p]
         \/ /\ f.op \notin {"saved", "delete"}
            /\ run[p].op = "saved" => run[p].left \subseteq unsent'
            /\ f.op \in {"create", "sync"} =>
                 f.seen = version[Target(p)'] /\ (p \in Requests => Target(p)' \in inline'),
         \A t : Fresh(t) => tasks'[t].on \in Domains,
         \A s, t : Fresh(s) /\ Fresh(t) => s = t,
         run[p].task \in DOMAIN tasks /\ tasks'[run[p].task].state = "success" =>
           tasks[run[p].task].state = "success" \/ tasks[run[p].task].on \in Domains
  PROVE  Deletions' /\ Owing'
<1>0. TaskInv /\ p \in Runners /\ run'[p] = f /\ \A q \in Runners \ {p} : run'[q] = run[q]
  BY Bystanders DEF MailInv, Advance
<1>1. \A i \in Items : i \notin Domains /\ (i \in Aliases => BoxOf[i] \notin Domains)
  BY MailAssumption DEF MailAssumption, Items
<1>2. Deletions'
  <2>1. \A q \in Runners : run'[q] = run[q] \/ RunDeletions(q)'
    BY <1>0 DEF RunDeletions
  <2>2. \A i \in Items :
           /\ row[i] # "none" => row'[i] # "none"
           /\ row'[i] = "deleted" => row[i] = "deleted" \/ (row[i] # "none" /\ (i \in mixed' \/ Away(i)))
           /\ hosted'[i] = Absent \/ hosted[i] # Absent \/ (Coming(i) /\ ~Coming(i)')
    OBVIOUS
  <2> QED BY <1>1, <2>1, <2>2, DeletionsKept
<1>3. \A q \in Requests, i \in Items : Applying(q, i)' => i \in inline'
  BY InlineKept
<1>4. ASSUME NEW i \in Items PROVE ItemOwing(i)'
  <2>1. Exists(i)' => Exists(i)
    BY <1>1 DEF Exists
  <2>2. \A t \in DOMAIN tasks :
          Concerns(t, i) /\ t = run[p].task /\ tasks[t].state # "success" =>
            tasks'[t].state # "success"
    BY <1>1 DEF Concerns
  <2>3. \/ run'["worker"] = run["worker"]
        \/ run'["worker"].op \notin {"create", "sync"}
        \/ Applying("worker", i)' => run'["worker"].seen = version[i]
    BY <1>0 DEF Applying, Runners
  <2> QED BY <2>1, <2>2, <2>3, ItemKept
<1> QED BY <1>2, <1>3, <1>4 DEF Owing

LEMMA StepDispatch ==
  ASSUME MailInv, NEW p \in Runners, Dispatch(p)
  PROVE  MailInv'
<1>0. TaskInv /\ RowType /\ UNCHANGED <<domainVars, itemVars, editVars, hosted, tasks, faults, historyVars>>
      /\ run' = [run EXCEPT ![p] = Idle] /\ run[p].op = "dispatch"
  BY DEF MailInv, Dispatch
<1>1. Advance(p, Idle)
  BY <1>0, Dispatched, SameTasks DEF Advance, Kept
<1>2. Deletions' /\ Owing'
  BY <1>0, <1>1, CalmStep DEF itemVars, editVars, historyVars, Idle, Fresh
<1>3. Backed'
  <2>1. \A q \in Runners : run'[q] = run[q] \/ run'[q].op = "idle"
    BY <1>0, <1>1, Bystanders DEF Idle
  <2> QED BY <1>0, <1>1, <2>1, BackedKept DEF domainVars, itemVars, editVars, historyVars
<1>4. RowType'
  BY <1>0 DEF RowType, domainVars, itemVars, editVars, historyVars
<1> QED BY <1>1, <1>2, <1>3, <1>4 DEF MailInv, Advance, Kept

\* A step of process p that ends idle, or waits to dispatch a new task, and
\* changes nothing but domains and tasks.
LEMMA DomainStep ==
  ASSUME MailInv, NEW p, NEW f, Advance(p, f),
         UNCHANGED <<itemVars, editVars, hosted, unsent, inline>>, RowType',
         f.op \in {"idle", "dispatch", "activate"}, run[p].op # "saved",
         \A t : Fresh(t) => tasks'[t].on \in Domains,
         \A s, t : Fresh(s) /\ Fresh(t) => s = t,
         run[p].task \in DOMAIN tasks /\ tasks'[run[p].task].state = "success" =>
           tasks[run[p].task].on \in Domains,
         \A d \in Domains : mapping[d] = "active" => mapping'[d] = "active",
         ready \subseteq ready',
         \A d \in Domains : domain'[d] = "active" =>
           \/ domain[d] = "active" /\ (d \in stamped => d \in stamped')
           \/ d \in stamped' /\ Mapped(d)',
         f.op = "activate" => Mapped(Target(p))'
  PROVE  MailInv'
<1>1. Deletions' /\ Owing'
  BY CalmStep DEF itemVars, editVars
<1>2. Backed'
  <2>0. TaskInv
    BY DEF MailInv
  <2>1. \A q \in Runners :
           \/ run'[q] = run[q]
           \/ /\ run'[q].op = "activate" => Mapped(Target(q))'
              /\ run'[q].op = "insert" =>
                   \A m \in run'[q].left : m \in Mailboxes /\ DomainOf[m] \in ready'
    BY <2>0, Bystanders
  <2> QED BY <2>1, BackedKept DEF itemVars, editVars
<1> QED BY <1>1, <1>2 DEF MailInv, Advance, Kept

\* Rows of new tasks.
LEMMA NewRow ==
  ASSUME TaskInv, NEW op \in {"provision", "verify", "create", "sync", "delete"},
         NEW x \in Domains \cup Items, NEW state \in {"pending", "running"},
         IF op \in {"provision", "verify"} THEN x \in Domains ELSE x \in Items
  PROVE  LET r == [op |-> op, on |-> x, state |-> state] IN
         /\ r \in TaskRow /\ TaskFits(r) /\ r.state # "success" /\ r.op = op /\ r.on = x
         /\ Len(tasks) + 1 \in Nat /\ tasks \in Seq(TaskRow)
BY DEF TaskRow, TaskFits, TaskInv, PlaceType

LEMMA Queued ==
  ASSUME TaskInv, NEW p \in Runners, NEW op \in {"provision", "verify", "create", "sync"},
         NEW x \in Domains \cup Items,
         IF op \in {"provision", "verify"} THEN x \in Domains ELSE x \in Items,
         Queueing(p, op, x), queue' = queue, killed' = killed
  PROVE  \E f \in Frame :
           /\ Advance(p, f) /\ f.op = "dispatch" /\ Fresh(f.task)
           /\ \A t : Fresh(t) <=> t = f.task
           /\ tasks'[f.task].on = x /\ tasks'[f.task].op = op
           /\ \A t \in DOMAIN tasks : tasks'[t] = tasks[t]
<1> DEFINE r == [op |-> op, on |-> x, state |-> "pending"]
           f == [Idle EXCEPT !.op = "dispatch", !.task = Len(tasks) + 1]
<1>1. /\ r \in TaskRow /\ TaskFits(r) /\ r.state # "success" /\ r.op = op /\ r.on = x
      /\ Len(tasks) + 1 \in Nat /\ tasks \in Seq(TaskRow)
  BY NewRow
<1>2. /\ f \in Frame /\ f.op = "dispatch" /\ f.task = Len(tasks) + 1 /\ f.outer = None
  BY <1>1 DEF Idle, Frame
<1>3. tasks' = Append(tasks, r) /\ run' = [run EXCEPT ![p] = f]
  BY DEF Queueing
<1>4. \A t \in DOMAIN tasks : tasks'[t] = tasks[t]
  BY <1>1, <1>3, LenProperties
<1> HIDE DEF r, f
<1>5. /\ Kept /\ TasksGrow(p, f)
      /\ Len(tasks) + 1 \notin DOMAIN tasks /\ DOMAIN tasks' = DOMAIN tasks \cup {Len(tasks) + 1}
      /\ tasks'[Len(tasks) + 1] = r
  BY <1>1, <1>2, <1>3, Started
<1> QED BY <1>1, <1>2, <1>3, <1>4, <1>5 DEF Advance, Fresh

LEMMA StepCreateDomain ==
  ASSUME MailInv, NEW r \in Requests, NEW d \in Domains, CreateDomain(r, d)
  PROVE  MailInv'
<1>0. /\ RowType /\ TaskInv /\ r \in Runners /\ run[r].op = "idle"
      /\ UNCHANGED <<stamped, itemVars, editVars, hosted, queue, faults, historyVars>>
      /\ domain' = [domain EXCEPT ![d] = "pending"]
      /\ mapping' = [mapping EXCEPT ![d] = IF @ = "none" /\ d \notin renamed THEN "pending" ELSE @]
      /\ Queueing(r, "provision", d)
  BY DEF MailInv, CreateDomain, EnsurePortfolio, Free, Runners
<1>1. RowType'
  BY <1>0 DEF RowType, Status, itemVars, editVars, historyVars
<1>2. PICK f \in Frame :
           /\ Advance(r, f) /\ f.op = "dispatch" /\ \A t : Fresh(t) <=> t = f.task
           /\ tasks'[f.task].on = d /\ \A t \in DOMAIN tasks : tasks'[t] = tasks[t]
  BY <1>0, Queued DEF historyVars
<1>3. run[r].task = None /\ None \notin DOMAIN tasks
  BY <1>0, FrameKinds DEF FrameFits
<1> QED BY <1>0, <1>1, <1>2, <1>3, DomainStep DEF itemVars, editVars, historyVars, RowType

LEMMA StepRequestVerification ==
  ASSUME MailInv, NEW r \in Requests, NEW d \in Domains, RequestVerification(r, d)
  PROVE  MailInv'
<1>0. /\ RowType /\ TaskInv /\ r \in Runners /\ run[r].op = "idle"
      /\ UNCHANGED <<domainVars, itemVars, editVars, hosted, queue, faults, historyVars>>
      /\ Queueing(r, "verify", d)
  BY DEF MailInv, RequestVerification, Free, Runners
<1>1. RowType'
  BY <1>0 DEF RowType, domainVars, itemVars, editVars, historyVars
<1>2. PICK f \in Frame :
           /\ Advance(r, f) /\ f.op = "dispatch" /\ \A t : Fresh(t) <=> t = f.task
           /\ tasks'[f.task].on = d /\ \A t \in DOMAIN tasks : tasks'[t] = tasks[t]
  BY <1>0, Queued DEF historyVars
<1>3. run[r].task = None /\ None \notin DOMAIN tasks
  BY <1>0, FrameKinds DEF FrameFits
<1> QED BY <1>0, <1>1, <1>2, <1>3, DomainStep DEF domainVars, itemVars, editVars, historyVars

LEMMA StepProvisioned ==
  ASSUME MailInv, NEW p \in Runners, Provisioned(p)
  PROVE  MailInv'
<1> DEFINE d == Target(p)
           rows == [tasks EXCEPT ![run[p].task].state = "success"]
           r == [op |-> "verify", on |-> d, state |-> "pending"]
           f == [Idle EXCEPT !.op = "dispatch", !.task = Len(tasks) + 1, !.outer = run[p].task]
<1>0. /\ RowType /\ TaskInv /\ run[p].op = "provision"
      /\ UNCHANGED <<stamped, itemVars, editVars, hosted, queue, faults, historyVars>>
      /\ domain' = [domain EXCEPT ![d] = "pending"]
      /\ mapping' = [mapping EXCEPT ![d] = IF @ = "none" /\ d \notin renamed THEN "pending" ELSE @]
      /\ tasks' = Append(rows, r) /\ run' = [run EXCEPT ![p] = f]
  BY DEF MailInv, Provisioned, EnsurePortfolio
<1>1. run[p].task \in DOMAIN tasks /\ d \in Domains
  BY <1>0, InHand
<1>2. RowType'
  BY <1>0, <1>1 DEF RowType, Status, itemVars, editVars, historyVars
<1>3. /\ r \in TaskRow /\ TaskFits(r) /\ r.state # "success" /\ r.op = "verify" /\ r.on = d
      /\ Len(tasks) + 1 \in Nat /\ tasks \in Seq(TaskRow)
  BY <1>0, <1>1, NewRow
<1>4. /\ rows \in Seq(TaskRow) /\ DOMAIN rows = DOMAIN tasks
      /\ \A t \in DOMAIN tasks :
           /\ rows[t].op = tasks[t].op /\ rows[t].on = tasks[t].on
           /\ t # run[p].task => rows[t] = tasks[t]
  <2>1. \A t \in DOMAIN tasks : tasks[t] \in TaskRow
    BY <1>3, ElementOfSeq, LenProperties
  <2>2. /\ rows = [tasks EXCEPT ![run[p].task] = [tasks[run[p].task] EXCEPT !.state = "success"]]
        /\ [tasks[run[p].task] EXCEPT !.state = "success"] \in TaskRow
    BY <1>1, <2>1 DEF TaskRow
  <2>3. rows \in Seq(TaskRow)
    BY <1>1, <1>3, <2>2, ExceptSeq, LenProperties
  <2> QED BY <1>1, <2>1, <2>2, <2>3 DEF TaskRow
<1>5. /\ f \in Frame /\ f.op = "dispatch" /\ f.task = Len(tasks) + 1 /\ f.outer = run[p].task
  <2>1. run[p].task \in Nat
    BY <1>1, <1>3, LenProperties
  <2> QED BY <1>3, <2>1 DEF Idle, Frame
<1> HIDE DEF d, rows, r, f
<1>6. /\ Kept /\ TasksGrow(p, f)
      /\ Len(tasks) + 1 \notin DOMAIN tasks /\ DOMAIN tasks' = DOMAIN tasks \cup {Len(tasks) + 1}
      /\ tasks'[Len(tasks) + 1] = r
  <2>1. queue' = queue /\ killed' = killed
    BY <1>0 DEF historyVars
  <2>2. f.outer \in DOMAIN tasks \cup {None} /\ r.op # "delete"
    BY <1>1, <1>3, <1>5
  <2>3. \A t \in DOMAIN tasks :
           /\ rows[t].op = tasks[t].op /\ rows[t].on = tasks[t].on
           /\ rows[t].state = "success" => tasks[t].state = "success" \/ t = run[p].task
    BY <1>4
  <2>4. tasks' = Append(rows, r) /\ run' = [run EXCEPT ![p] = f] /\ TaskInv
    BY <1>0
  <2>5. r \in TaskRow /\ TaskFits(r) /\ r.state # "success"
    BY <1>3
  <2>6. rows \in Seq(TaskRow) /\ DOMAIN rows = DOMAIN tasks
    BY <1>4
  <2> QED BY ONLY p \in Runners, <1>5, <2>1, <2>2, <2>3, <2>4, <2>5, <2>6, Started, ZenonT(60)
<1>7. Advance(p, f) /\ (\A t : Fresh(t) => t = Len(tasks) + 1)
  BY <1>0, <1>6 DEF Advance, Fresh
<1>8. \A t : Fresh(t) => tasks'[t].on \in Domains
  BY <1>1, <1>3, <1>6, <1>7
<1>9. tasks[run[p].task].on \in Domains
  BY <1>1 DEF d, Target
<1> QED BY <1>0, <1>1, <1>2, <1>5, <1>7, <1>8, <1>9, DomainStep DEF itemVars, editVars, historyVars, RowType

\* A run for a domain ends: no task is added.
LEMMA EndedStep ==
  ASSUME MailInv, NEW p \in Runners, run[p].op \in {"provision", "verify", "activate"},
         NEW state \in {"success", "failed"}, End(p, state), queue' = queue, killed' = killed
  PROVE  /\ Advance(p, Idle) /\ Idle.op = "idle" /\ \A t : ~Fresh(t)
         /\ Target(p) \in Domains /\ tasks[run[p].task].on \in Domains
<1>1. TaskInv
  BY DEF MailInv
<1>2. Kept /\ TasksGrow(p, Idle) /\ DOMAIN tasks' = DOMAIN tasks
  BY <1>1, Ended
<1> QED BY <1>1, <1>2, InHand DEF Advance, End, Idle, Fresh, Target

LEMMA StepProvisionedOnly ==
  ASSUME MailInv, NEW p \in Runners, ProvisionedOnly(p)
  PROVE  MailInv'
<1>0. /\ RowType /\ run[p].op = "provision"
      /\ UNCHANGED <<stamped, itemVars, editVars, hosted, queue, faults, historyVars>>
      /\ domain' = [domain EXCEPT ![Target(p)] = "pending"]
      /\ mapping' = [mapping EXCEPT ![Target(p)] = IF @ = "none" /\ Target(p) \notin renamed THEN "pending" ELSE @]
      /\ End(p, "success")
  BY DEF MailInv, ProvisionedOnly, EnsurePortfolio
<1>1. /\ Advance(p, Idle) /\ Idle.op = "idle" /\ \A t : ~Fresh(t)
      /\ Target(p) \in Domains /\ tasks[run[p].task].on \in Domains
  BY <1>0, EndedStep DEF historyVars
<1>2. RowType'
  BY <1>0, <1>1 DEF RowType, Status, itemVars, editVars, historyVars
<1> QED BY <1>0, <1>1, <1>2, DomainStep DEF itemVars, editVars, historyVars, RowType

LEMMA StepNotReady ==
  ASSUME MailInv, NEW p \in Runners, NotReady(p)
  PROVE  MailInv'
<1>0. /\ RowType /\ run[p].op = "verify"
      /\ UNCHANGED <<mapping, itemVars, editVars, hosted, queue, faults, historyVars>>
      /\ domain' = [domain EXCEPT ![Target(p)] = "pending"]
      /\ stamped' = IF run[p].seen = 1 THEN stamped \cup {Target(p)} ELSE stamped \ {Target(p)}
      /\ End(p, "success")
  BY DEF MailInv, NotReady
<1>1. /\ Advance(p, Idle) /\ Idle.op = "idle" /\ \A t : ~Fresh(t)
      /\ Target(p) \in Domains /\ tasks[run[p].task].on \in Domains
  BY <1>0, EndedStep DEF historyVars
<1>2. RowType'
  BY <1>0, <1>1 DEF RowType, Status, itemVars, editVars, historyVars
<1>3. \A d \in Domains : domain'[d] = "active" =>
        domain[d] = "active" /\ (d \in stamped => d \in stamped')
  BY <1>0, <1>1 DEF RowType
<1> QED BY <1>0, <1>1, <1>2, <1>3, DomainStep DEF itemVars, editVars, historyVars

LEMMA StepActivate ==
  ASSUME MailInv, NEW p \in Runners, Activate(p)
  PROVE  MailInv'
<1>0. /\ RowType /\ run[p].op = "activate"
      /\ UNCHANGED <<mapping, itemVars, editVars, hosted, queue, faults, historyVars>>
      /\ domain' = [domain EXCEPT ![Target(p)] = "active"]
      /\ stamped' = stamped \cup {Target(p)}
      /\ End(p, "success")
      /\ Mapped(Target(p))
  BY DEF MailInv, Activate, Backed
<1>1. /\ Advance(p, Idle) /\ Idle.op = "idle" /\ \A t : ~Fresh(t)
      /\ Target(p) \in Domains /\ tasks[run[p].task].on \in Domains
  BY <1>0, EndedStep DEF historyVars
<1>2. RowType'
  BY <1>0, <1>1 DEF RowType, Status, itemVars, editVars, historyVars
<1>3. \A d \in Domains : domain'[d] = "active" =>
           \/ domain[d] = "active" /\ (d \in stamped => d \in stamped')
           \/ d \in stamped' /\ Mapped(d)'
  BY <1>0, <1>1 DEF RowType, Mapped, editVars, historyVars
<1> QED BY <1>0, <1>1, <1>2, <1>3, DomainStep DEF itemVars, editVars, historyVars

LEMMA StepDomainVanished ==
  ASSUME MailInv, NEW p \in Runners, DomainVanished(p)
  PROVE  MailInv'
<1>0. /\ RowType /\ TaskInv /\ run[p].op \in {"provision", "verify", "activate"}
      /\ UNCHANGED <<domainVars, itemVars, editVars, hosted, tasks, queue, faults, historyVars>>
      /\ run' = [run EXCEPT ![p] = Idle]
      /\ killed \subseteq DOMAIN tasks
  BY DEF MailInv, DomainVanished, TaskInv, PlaceType
<1>1. Advance(p, Idle) /\ Idle.op = "idle"
  BY <1>0, Dropped, SameTasks DEF Advance, Idle, historyVars
<1>2. tasks[run[p].task].on \in Domains
  BY <1>0, InHand DEF Target
<1>3. RowType'
  BY <1>0 DEF RowType, domainVars, itemVars, editVars, historyVars
<1> QED BY <1>0, <1>1, <1>2, <1>3, DomainStep DEF domainVars, itemVars, editVars, historyVars, Fresh

LEMMA StepMarkVerified ==
  ASSUME MailInv, NEW p \in Runners, MarkVerified(p)
  PROVE  MailInv'
<1> DEFINE f == [run[p] EXCEPT !.op = "activate"]
<1>0. /\ RowType /\ TaskInv /\ run[p].op = "verify"
      /\ UNCHANGED <<domain, stamped, itemVars, editVars, hosted, tasks, queue, faults, unsent, inline, killed>>
      /\ ready' = ready \cup {Target(p)}
      /\ run' = [run EXCEPT ![p].op = "activate"]
      /\ killed \subseteq DOMAIN tasks /\ run \in [Runners -> Frame]
  BY DEF MailInv, MarkVerified, TaskInv, PlaceType
<1>a. PICK named \in Named(Target(p)) :
        mapping' = [e \in Domains |-> IF e \in named THEN "active" ELSE mapping[e]]
  BY DEF MarkVerified
<1>1. /\ run[p].task \in DOMAIN tasks /\ Target(p) \in Domains /\ tasks[run[p].task].on \in Domains
      /\ FrameFits(run[p], tasks) /\ run[p] \in Frame
  BY <1>0, InHand, FrameKinds DEF Target
<1>2. /\ f \in Frame /\ f.op = "activate" /\ f.task = run[p].task /\ f.outer = run[p].outer
      /\ run' = [run EXCEPT ![p] = f]
  BY <1>0, <1>1 DEF Frame
<1> HIDE DEF f
<1>3. FrameFits(f, tasks')
  BY <1>0, <1>1, <1>2 DEF FrameFits
<1>4. Advance(p, f)
  <2>1. TasksGrow(p, f)
    BY <1>0, SameTasks
  <2>2. Moves(p, f)
    BY <1>0, <1>2, <1>3 DEF Moves
  <2> QED BY <1>0, <1>2, <2>1, <2>2, Moved DEF Advance, Kept
<1>5. RowType'
  BY <1>0, <1>1, <1>a DEF RowType, itemVars, editVars
<1>6. Target(p)' = Target(p)
  BY <1>0, <1>2, <1>4, Bystanders DEF Target
<1>7. Mapped(Target(p))'
  BY <1>0, <1>1, <1>6, <1>a DEF Mapped, Named, editVars
<1>8. /\ \A d \in Domains : mapping[d] = "active" => mapping'[d] = "active"
      /\ \A d \in Domains : domain'[d] = "active" =>
           domain[d] = "active" /\ (d \in stamped => d \in stamped')
  BY <1>0, <1>1, <1>a DEF RowType
<1> QED BY <1>0, <1>1, <1>2, <1>4, <1>5, <1>7, <1>8, DomainStep DEF Fresh

LEMMA StepDomainFailed ==
  ASSUME MailInv, NEW p \in Runners, DomainFailed(p)
  PROVE  MailInv'
<1>0. /\ RowType /\ TaskInv /\ run[p].op \in {"provision", "verify"}
      /\ UNCHANGED <<stamped, mapping, itemVars, editVars, hosted, queue, historyVars>>
      /\ faults' \in 0..MaxFaults
      /\ domain' = [domain EXCEPT ![Target(p)] = "failed"]
      /\ tasks' = [t \in DOMAIN tasks |->
           IF t \in {run[p].task, run[p].outer} THEN [tasks[t] EXCEPT !.state = "failed"] ELSE tasks[t]]
      /\ run' = [run EXCEPT ![p] = Idle]
      /\ killed \subseteq DOMAIN tasks /\ tasks \in Seq(TaskRow)
  BY MailAssumption
     DEF MailAssumption, MailInv, DomainFailed, Fault, RowType, TaskInv, PlaceType
<1>1. /\ run[p].task \in DOMAIN tasks /\ Target(p) \in Domains /\ tasks[run[p].task].on \in Domains
      /\ Idle \in Frame /\ Idle.op = "idle" /\ Idle.task = None /\ Idle.outer = None
  BY <1>0, InHand, FrameTypes DEF Target, Idle
<1>2. TasksGrow(p, Idle) /\ DOMAIN tasks' = DOMAIN tasks
  <2>1. \A t \in DOMAIN tasks : tasks[t] \in TaskRow
    BY <1>0, ElementOfSeq, LenProperties
  <2>2. \A t \in DOMAIN tasks :
          /\ tasks'[t] \in TaskRow /\ tasks'[t].op = tasks[t].op /\ tasks'[t].on = tasks[t].on
          /\ tasks'[t].state = "success" => tasks[t].state = "success"
    BY <1>0, <2>1 DEF TaskRow
  <2>3. DOMAIN tasks' = DOMAIN tasks /\ DOMAIN tasks = 1..Len(tasks) /\ Len(tasks) \in Nat
    BY <1>0, LenProperties
  <2>4. tasks' \in [1..Len(tasks) -> TaskRow]
    BY <1>0, <2>2, <2>3
  <2>5. tasks' \in Seq(TaskRow)
    BY <2>3, <2>4, SeqDef
  <2> QED BY <2>2, <2>3, <2>5 DEF TasksGrow
<1>3. Moves(p, Idle)
  BY <1>0, <1>1 DEF Moves, FrameFits
<1>4. Advance(p, Idle)
  BY <1>0, <1>2, <1>3, Moved DEF Advance, Kept, historyVars
<1>5. RowType'
  BY <1>0, <1>1 DEF RowType, Status, itemVars, editVars, historyVars
<1> QED BY <1>0, <1>1, <1>2, <1>4, <1>5, DomainStep DEF itemVars, editVars, historyVars, Fresh, RowType

LEMMA StepReadActive ==
  ASSUME MailInv, NEW r \in Requests, NEW m \in Mailboxes, ReadActive(r, m)
  PROVE  MailInv'
<1> DEFINE f == [Idle EXCEPT !.op = "insert", !.left = {m}]
<1>0. /\ RowType /\ TaskInv /\ r \in Runners /\ run[r].op = "idle"
      /\ UNCHANGED <<domainVars, itemVars, editVars, hosted, tasks, queue, faults, historyVars>>
      /\ run' = [run EXCEPT ![r] = f]
      /\ domain[DomainOf[m]] = "active"
      /\ killed \subseteq DOMAIN tasks /\ m \in Items
  BY DEF MailInv, ReadActive, Free, Runners, TaskInv, PlaceType, Items
<1>1. /\ f \in Frame /\ f.op = "insert" /\ f.left = {m} /\ f.task = None /\ f.outer = None
  BY <1>0, FrameTypes DEF Frame, Idle
<1>2. run[r].task = None /\ None \notin DOMAIN tasks
  BY <1>0, FrameKinds DEF FrameFits
<1> HIDE DEF f
<1>3. Advance(r, f)
  <2>1. TasksGrow(r, f)
    BY <1>0, SameTasks
  <2>2. Moves(r, f)
    BY <1>0, <1>1 DEF Moves, FrameFits
  <2> QED BY <1>0, <2>1, <2>2, Moved DEF Advance, Kept, historyVars
<1>4. Deletions' /\ Owing'
  BY <1>0, <1>1, <1>2, <1>3, CalmStep DEF itemVars, editVars, historyVars, Fresh
<1>5. Backed'
  <2>1. DomainOf[m] \in ready
    BY <1>0, MailAssumption DEF MailAssumption, MailInv, Backed
  <2>2. \A q \in Runners : run'[q] = run[q] \/ (q = r /\ run'[q] = f)
    BY <1>0, <1>3, Bystanders
  <2>3. \A q \in Runners :
           \/ run'[q] = run[q]
           \/ /\ run'[q].op = "activate" => Mapped(Target(q))'
              /\ run'[q].op = "insert" =>
                   \A k \in run'[q].left : k \in Mailboxes /\ DomainOf[k] \in ready'
    BY <1>0, <1>1, <2>1, <2>2 DEF historyVars
  <2> QED BY <1>0, <1>3, <2>3, BackedKept DEF domainVars, itemVars, editVars, historyVars
<1>6. RowType'
  BY <1>0 DEF RowType, domainVars, itemVars, editVars, historyVars
<1> QED BY <1>3, <1>4, <1>5, <1>6 DEF MailInv, Advance, Kept

LEMMA StepKill ==
  ASSUME MailInv, NEW p \in Runners, Kill(p)
  PROVE  MailInv'
<1>0. /\ RowType /\ TaskInv
      /\ UNCHANGED <<domainVars, itemVars, editVars, hosted, tasks, queue, ready, inline>>
      /\ faults < MaxFaults /\ faults' = faults + 1
      /\ killed' = killed \cup ({run[p].task} \ {None})
      /\ unsent' = IF run[p].op = "saved" THEN unsent \cup run[p].left ELSE unsent
      /\ run' = [run EXCEPT ![p] = Idle]
      /\ killed \subseteq DOMAIN tasks /\ Idle.op = "idle"
  BY DEF MailInv, Kill, Fault, TaskInv, PlaceType, Idle
<1>1. Advance(p, Idle)
  <2>1. killed' \subseteq DOMAIN tasks'
    BY <1>0, FrameKinds
  <2> QED BY <1>0, <2>1, Dropped, SameTasks DEF Advance
<1>2. unsent \subseteq unsent' /\ unsent' \subseteq Items
  BY <1>0, FrameKinds, FrameTypes DEF RowType
<1>3. Deletions' /\ Owing'
  BY <1>0, <1>1, <1>2, CalmStep DEF itemVars, editVars, Fresh
<1>4. Backed'
  <2>1. \A q \in Runners : run'[q] = run[q] \/ run'[q].op = "idle"
    BY <1>0, <1>1, Bystanders
  <2> QED BY <1>0, <1>1, <2>1, BackedKept DEF domainVars, itemVars, editVars
<1>5. RowType'
  BY <1>0, <1>2, MailAssumption DEF MailAssumption, RowType, domainVars, itemVars, editVars
<1> QED BY <1>1, <1>3, <1>4, <1>5 DEF MailInv, Advance, Kept

\* A process begins to run task t.
LEMMA BegunStep ==
  ASSUME MailInv, NEW p \in Runners, NEW f \in Frame, Advance(p, f),
         NEW t \in DOMAIN tasks,
         UNCHANGED <<stamped, mapping, itemVars, editVars, hosted, ready, unsent>>,
         run[p].op \in {"idle", "dispatch"},
         f.op \in {"idle", "provision", "verify", "create", "sync"},
         f.op # "idle" => f.task = t,
         f.op \in {"create", "sync"} => tasks[t].on \in Items /\ f.seen = version[tasks[t].on],
         DOMAIN tasks' = DOMAIN tasks,
         run[p].task \in DOMAIN tasks => tasks'[run[p].task].state # "success"
                                         \/ tasks[run[p].task].state = "success",
         inline \subseteq inline', p \in Requests /\ f.op \in {"create", "sync"} => Target(p)' \in inline',
         \A d \in Domains : domain'[d] = "active" => domain[d] = "active"
  PROVE  Deletions' /\ Owing' /\ Backed'
<1>0. TaskInv
  BY DEF MailInv
<1>1. f.op # "idle" => Target(p)' = tasks[t].on
  BY <1>0, Bystanders DEF Target
<1>2. Deletions' /\ Owing'
  BY <1>1, CalmStep DEF itemVars, editVars, Fresh
<1>3. Backed'
  <2>1. \A q \in Runners : run'[q] = run[q] \/ run'[q].op \notin {"activate", "insert"}
    BY <1>0, Bystanders
  <2> QED BY <2>1, BackedKept DEF itemVars, editVars
<1> QED BY <1>2, <1>3

LEMMA StepRunInline ==
  ASSUME MailInv, NEW p \in Runners, RunInline(p)
  PROVE  MailInv'
<1>0. /\ RowType /\ TaskInv /\ run[p].op = "dispatch"
      /\ Begin(p, run[p].task, run[p].outer) /\ inline' = inline \cup ({Target(p)} \cap Items)
      /\ UNCHANGED <<stamped, mapping, itemVars, editVars, hosted, queue, ready, unsent, killed>>
      /\ faults' \in 0..MaxFaults
      /\ killed \subseteq DOMAIN tasks
  BY MailAssumption
     DEF MailAssumption, MailInv, RunInline, NotQueued, Fault, TaskInv, PlaceType, RowType
<1> DEFINE t == run[p].task
<1>1. /\ t \in DOMAIN tasks /\ tasks[t].op # "delete" /\ run[p].outer \in DOMAIN tasks \cup {None}
      /\ tasks[t].state # "success" /\ tasks[t].on \in Domains \cup Items
  BY <1>0, InHand, FrameKinds DEF FrameFits, TaskInv, Frames, TaskFits
<1>2. PICK f \in Frame :
           /\ run' = [run EXCEPT ![p] = f] /\ f.task \in {t, None}
           /\ FrameFits(f, tasks') /\ TasksGrow(p, f) /\ DOMAIN tasks' = DOMAIN tasks
           /\ f.left = {} /\ f.op \in {"idle", "provision", "verify", "create", "sync"}
           /\ f.op # "idle" => f.task = t /\ Exists(tasks[t].on)
           /\ f.op \in {"create", "sync"} =>
                tasks[t].on \in Items /\ f.seen = version[tasks[t].on]
           /\ tasks' = tasks \/ tasks' = [tasks EXCEPT ![t].state = "running"]
           /\ domain' = domain \/ (tasks[t].op = "verify"
                                   /\ domain' = [domain EXCEPT ![tasks[t].on] = "verifying"])
  BY <1>0, <1>1, BeginKinds
<1>3. Advance(p, f)
  BY <1>0, <1>2, Moved DEF Advance, Kept, Moves
<1>4. tasks'[t].state # "success"
  <2>1. tasks[t] \in TaskRow
    BY <1>0, <1>1, ElementOfSeq, LenProperties DEF TaskInv, PlaceType
  <2>2. [tasks[t] EXCEPT !.state = "running"].state = "running"
    BY <2>1 DEF TaskRow
  <2>3. tasks' = tasks \/ tasks'[t] = [tasks[t] EXCEPT !.state = "running"]
    BY <1>1, <1>2
  <2> QED BY <1>1, <2>2, <2>3
<1>5. tasks[t].op = "verify" => tasks[t].on \in Domains
  BY <1>0, <1>1 DEF TaskInv, Frames, TaskFits
<1>6. RowType'
  BY <1>0, <1>1, <1>2, <1>5 DEF RowType, Status, itemVars, editVars, Target
<1>7. \A d \in Domains : domain'[d] = "active" => domain[d] = "active"
  BY <1>0, <1>2, <1>5 DEF RowType
<1>8. f.op \in {"create", "sync"} => Target(p)' \in inline'
  BY <1>0, <1>1, <1>2, <1>3, Bystanders DEF Target
<1>9. Deletions' /\ Owing' /\ Backed'
  BY <1>0, <1>1, <1>2, <1>3, <1>4, <1>7, <1>8, BegunStep
<1> QED BY <1>3, <1>6, <1>9 DEF MailInv, Advance, Kept

LEMMA StepTake ==
  ASSUME MailInv, Take
  PROVE  MailInv'
<1> DEFINE t == Head(queue)
<1>0. /\ RowType /\ TaskInv /\ run["worker"].op = "idle" /\ "worker" \in Runners /\ queue # <<>>
      /\ Begin("worker", t, None) /\ queue' = Tail(queue)
      /\ UNCHANGED <<stamped, mapping, itemVars, editVars, hosted, faults, historyVars>>
      /\ "worker" \notin Requests
  BY MailAssumption DEF MailAssumption, MailInv, Take, Runners
<1>1. /\ t \in DOMAIN tasks /\ tasks[t].op # "delete"
      /\ run["worker"].task = None /\ None \notin DOMAIN tasks
  <2>1. queue \in Seq(DOMAIN tasks) /\ \A a \in DOMAIN queue : tasks[queue[a]].op # "delete"
    BY <1>0 DEF TaskInv, PlaceType, Frames
  <2>2. t \in DOMAIN tasks /\ t = queue[1] /\ 1 \in DOMAIN queue
    BY <1>0, <2>1, EmptySeq, LenProperties, HeadTailProperties
  <2> QED BY <1>0, <2>1, <2>2, FrameKinds DEF FrameFits
<1>2. PICK f \in Frame :
           /\ run' = [run EXCEPT !["worker"] = f] /\ f.task \in {t, None}
           /\ FrameFits(f, tasks') /\ TasksGrow("worker", f) /\ DOMAIN tasks' = DOMAIN tasks
           /\ f.left = {} /\ f.op \in {"idle", "provision", "verify", "create", "sync"}
           /\ f.op # "idle" => f.task = t /\ Exists(tasks[t].on)
           /\ f.op \in {"create", "sync"} =>
                tasks[t].on \in Items /\ f.seen = version[tasks[t].on]
           /\ tasks' = tasks \/ tasks' = [tasks EXCEPT ![t].state = "running"]
           /\ domain' = domain \/ (tasks[t].op = "verify"
                                   /\ domain' = [domain EXCEPT ![tasks[t].on] = "verifying"])
  BY <1>0, <1>1, BeginKinds
<1>3. Advance("worker", f)
  BY <1>0, <1>2, TakenOff DEF Advance, Kept, historyVars
<1>4. tasks[t].op = "verify" => tasks[t].on \in Domains
  BY <1>0, <1>1 DEF TaskInv, Frames, TaskFits
<1>5. RowType'
  BY <1>0, <1>2, <1>4 DEF RowType, Status, itemVars, editVars, historyVars
<1>6. \A d \in Domains : domain'[d] = "active" => domain[d] = "active"
  BY <1>0, <1>2, <1>4 DEF RowType
<1>7. Deletions' /\ Owing' /\ Backed'
  BY <1>0, <1>1, <1>2, <1>3, <1>6, BegunStep DEF historyVars
<1> QED BY <1>3, <1>5, <1>7 DEF MailInv, Advance, Kept

\* Other processes act, and no task is touched.
LEMMA Stays ==
  ASSUME MailInv, UNCHANGED <<run, tasks, queue, killed>>, NEW f, f = run["worker"]
  PROVE  Advance("worker", f)
<1>0. /\ TaskInv /\ "worker" \in Runners /\ run \in [Runners -> Frame]
      /\ killed \subseteq DOMAIN tasks
  BY DEF MailInv, TaskInv, PlaceType, Runners
<1>1. run' = [run EXCEPT !["worker"] = f] /\ TasksGrow("worker", f)
  BY <1>0, SameTasks
<1>2. Moves("worker", f)
  BY <1>0, <1>1, FrameKinds DEF Moves
<1> QED BY <1>0, <1>1, <1>2, Moved DEF Advance, Kept

LEMMA StepDestroyDomain ==
  ASSUME MailInv, NEW d \in Domains, DestroyDomain(d)
  PROVE  MailInv'
<1>0. /\ RowType /\ TaskInv /\ "worker" \in Runners
      /\ domain' = [domain EXCEPT ![d] = "gone"] /\ stamped' = stamped \ {d}
      /\ row' = [i \in Items |->
           LET m == IF i \in Mailboxes THEN i ELSE parent[i] IN
           IF parent[m] = d /\ Exists(i) THEN "cascaded" ELSE row[i]]
      /\ UNCHANGED <<mapping, version, mixed, editVars, hosted, tasks, queue, run, faults, historyVars>>
  BY DEF MailInv, DestroyDomain, Runners
<1>1. PICK f : f = run["worker"]
  OBVIOUS
<1>2. Advance("worker", f)
  BY <1>0, <1>1, Stays DEF historyVars
<1>3. \A i \in Items : i \notin Domains
  BY MailAssumption DEF MailAssumption, Items
<1>4. \A i \in Items : (row'[i] = row[i] \/ (row[i] = "there" /\ row'[i] = "cascaded"))
                       /\ (Exists(i)' => Exists(i))
  BY <1>0, <1>3 DEF Exists
<1>5. RowType'
  BY <1>0, <1>4 DEF RowType, historyVars
<1>6. Deletions'
  <2>1. \A i \in Items :
           /\ row[i] # "none" => row'[i] # "none"
           /\ row'[i] = "deleted" => row[i] = "deleted" \/ (row[i] # "none" /\ (i \in mixed' \/ Away(i)))
           /\ hosted'[i] = Absent \/ hosted[i] # Absent \/ (Coming(i) /\ ~Coming(i)')
    BY <1>0, <1>4
  <2> QED BY <1>0, <1>2, <2>1, DeletionsKept DEF Fresh, itemVars, historyVars
<1>7. Owing'
  <2>1. \A i \in Items : ItemOwing(i)'
    BY <1>0, <1>1, <1>2, <1>4, ItemKept DEF historyVars
  <2>2. \A q \in Requests, i \in Items : Applying(q, i)' => i \in inline'
    BY <1>0, <1>1, <1>2, InlineKept DEF historyVars
  <2> QED BY <2>1, <2>2 DEF Owing
<1>8. Backed'
  <2>1. \A i \in Items : row'[i] # "none" <=> row[i] # "none"
    BY <1>4
  <2>2. \A e \in Domains : domain'[e] = "active" =>
          domain[e] = "active" /\ (e \in stamped => e \in stamped')
    BY <1>0 DEF RowType
  <2> QED BY <1>0, <1>2, <2>1, <2>2, BackedKept DEF Items, historyVars
<1> QED BY <1>2, <1>5, <1>6, <1>7, <1>8 DEF MailInv, Advance, Kept

\* A step that leaves the domains alone and takes up no domain's run.
LEMMA ItemBacked ==
  ASSUME MailInv, NEW p, NEW f, Advance(p, f), UNCHANGED <<domainVars, editVars, ready, unsent>>,
         f.op \notin {"activate", "insert"} \/ f = run[p],
         \A i \in Items : row[i] # "none" => row'[i] # "none",
         \A m \in Mailboxes : row'[m] # "none" => row[m] # "none" \/ DomainOf[m] \in ready
  PROVE  Backed'
<1>0. TaskInv
  BY DEF MailInv
<1>1. \A q \in Runners : run'[q] = run[q] \/ run'[q].op \notin {"activate", "insert"}
  BY <1>0, Bystanders
<1> QED BY <1>1, BackedKept DEF domainVars

LEMMA AnswerType ==
  /\ Answered \in Snapshot /\ Answered.on = None /\ Answered.status = "answered"
  /\ None \notin Domains \cup Items
<1>1. NoEdit \in Snapshot /\ NoEdit.on = None
  BY DEF NoEdit, Snapshot
<1> QED BY <1>1, MailAssumption DEF MailAssumption, Answered, Snapshot, Items

LEMMA StepReadToEdit ==
  ASSUME MailInv, NEW e \in Edits, NEW x \in Domains \cup Items, ReadToEdit(e, x)
  PROVE  MailInv'
<1>0. /\ RowType /\ EditType /\ Exists(x)
      /\ edit' = [edit EXCEPT ![e] =
           IF x \in Domains THEN [on |-> x, status |-> domain[x], stamped |-> x \in stamped]
                            ELSE [NoEdit EXCEPT !.on = x]]
      /\ UNCHANGED <<domainVars, itemVars, parent, renamed, restored, hosted, tasks, queue, run, faults, historyVars>>
  BY DEF MailInv, Backed, ReadToEdit
<1>1. PICK f : f = run["worker"]
  OBVIOUS
<1>2. Advance("worker", f)
  BY <1>0, <1>1, Stays DEF historyVars
<1>3. RowType'
  BY <1>0 DEF RowType, domainVars, itemVars, historyVars
<1>4. Deletions' /\ Owing'
  BY <1>0, <1>1, <1>2, CalmStep DEF itemVars, historyVars, Fresh
<1>5. /\ edit'[e] \in Snapshot /\ edit'[e].on = x
      /\ x \in Domains => edit'[e].status = domain[x] /\ edit'[e].stamped = (x \in stamped)
                          /\ domain[x] \in Status
      /\ x \notin Domains => edit'[e].status = "none" /\ row[x] = "there"
  <2>0. edit'[e] = IF x \in Domains THEN [on |-> x, status |-> domain[x], stamped |-> x \in stamped]
                                    ELSE [NoEdit EXCEPT !.on = x]
    BY <1>0 DEF EditType
  <2>1. CASE x \in Domains
    <3>1. domain[x] \in Status
      BY <1>0, <2>1 DEF RowType, Exists
    <3>2. edit'[e] = [on |-> x, status |-> domain[x], stamped |-> x \in stamped]
      BY <2>0, <2>1
    <3>3. (x \in stamped) \in BOOLEAN
      OBVIOUS
    <3> QED BY <2>1, <3>1, <3>2, <3>3 DEF Snapshot
  <2>2. CASE x \notin Domains
    <3>1. x \in Items /\ row[x] = "there"
      BY <1>0, <2>2 DEF Exists
    <3>2. edit'[e] = [on |-> x, status |-> "none", stamped |-> FALSE]
      BY <2>0, <2>2 DEF NoEdit
    <3>3. edit'[e] \in Snapshot
      BY <3>1, <3>2 DEF Snapshot
    <3>4. edit'[e].on = x /\ edit'[e].status = "none"
      BY <3>2
    <3> QED BY <2>2, <3>1, <3>3, <3>4
  <2> QED BY <2>1, <2>2
<1>6. \A g \in Edits \ {e} : edit'[g] = edit[g]
  BY <1>0 DEF EditType
<1>7. EditType'
  <2>1. edit' \in [Edits -> Snapshot]
    BY <1>0, <1>5 DEF EditType
  <2>2. \A g \in Edits : edit'[g].on \in Domains <=> edit'[g].status \in Status
    BY <1>0, <1>5, <1>6 DEF EditType, Status
  <2> QED BY <1>0, <2>1, <2>2 DEF EditType, historyVars
<1>8. EditBacked(e)'
  <2>1. x \in Domains /\ domain[x] = "active" => x \in stamped /\ Mapped(x)
    BY DEF MailInv, Backed, ActiveIsBacked, Mapped
  <2>2. x \in Domains => x \notin Items
    BY MailAssumption DEF MailAssumption, Items
  <2>3. (edit[e].status = "active" => edit[e].stamped /\ Mapped(edit[e].on))'
    <3>1. edit'[e].status = "active" => x \in Domains /\ domain[x] = "active" /\ edit'[e].stamped
      BY <1>5, <2>1
    <3> QED BY <1>0, <1>5, <2>1, <3>1 DEF Mapped, domainVars, historyVars
  <2>4. edit'[e].on \in Items => row'[edit'[e].on] # "none"
    BY <1>0, <1>5, <2>2 DEF itemVars
  <2> QED BY <2>3, <2>4 DEF EditBacked
<1>9. Backed'
  BY <1>0, <1>1, <1>2, <1>6, <1>7, <1>8, BackedKept DEF domainVars, itemVars, historyVars
<1> QED BY <1>2, <1>3, <1>4, <1>9 DEF MailInv, Advance, Kept

LEMMA StepSaveDomain ==
  ASSUME MailInv, NEW e \in Edits, SaveDomain(e)
  PROVE  MailInv'
<1>a. PICK d : d = edit[e].on
  OBVIOUS
<1>b. PICK boxes : boxes = {m \in Mailboxes : parent[m] = d /\ row[m] # "none"}
  OBVIOUS
<1>0. /\ RowType /\ EditType /\ d \in Domains /\ EditBacked(e)
      /\ edit' = [edit EXCEPT ![e] = Answered]
      /\ domain' = [domain EXCEPT ![d] = edit[e].status]
      /\ stamped' = IF edit[e].stamped THEN stamped \cup {d} ELSE stamped \ {d}
      /\ restored' = IF Exists(d) THEN restored ELSE restored \cup {d}
      /\ UNCHANGED <<mapping, row, version, parent, hosted, tasks, queue, run, faults, ready, inline, killed>>
  BY <1>a DEF MailInv, Backed, SaveDomain, Restore
<1>1. /\ renamed \subseteq renamed' /\ renamed' \subseteq Domains
      /\ mixed \subseteq mixed' /\ mixed' \subseteq Items
      /\ unsent \subseteq unsent' /\ unsent' \subseteq Items
  <2>1. CASE UNCHANGED <<renamed, mixed, unsent>>
    BY <1>0, <2>1 DEF RowType, EditType
  <2>2. CASE ~UNCHANGED <<renamed, mixed, unsent>>
    <3>1. /\ renamed' = renamed \cup {d}
          /\ \E shared \in SUBSET {m \in Mailboxes : row[m] # "none"} : mixed' = mixed \cup boxes \cup shared
          /\ unsent' = unsent \cup boxes \cup {a \in Aliases : parent[a] \in boxes /\ row[a] # "none"}
      BY <1>a, <1>b, <2>2 DEF SaveDomain
    <3> QED BY <1>0, <1>b, <3>1 DEF RowType, EditType, Items
  <2> QED BY <2>1, <2>2
<1>2. PICK f : f = run["worker"]
  OBVIOUS
<1>3. Advance("worker", f)
  BY <1>0, <1>2, Stays
<1>4. edit[e].status \in Status
  BY <1>0, <1>a DEF EditType
<1>5. RowType'
  BY <1>0, <1>1, <1>4 DEF RowType
<1>6. Deletions' /\ Owing'
  BY <1>0, <1>1, <1>2, <1>3, CalmStep DEF Fresh
<1>7. /\ edit'[e] = Answered /\ \A g \in Edits \ {e} : edit'[g] = edit[g]
      /\ Answered \in Snapshot /\ Answered.on = None /\ Answered.status = "answered"
      /\ None \notin Domains \cup Items
  BY <1>0, AnswerType DEF EditType
<1>8. EditType'
  <2>1. edit' \in [Edits -> Snapshot]
    BY <1>0, <1>7 DEF EditType
  <2>2. \A g \in Edits : edit'[g].on \in Domains <=> edit'[g].status \in Status
    BY <1>0, <1>7 DEF EditType, Status
  <2> QED BY <1>0, <1>1, <2>1, <2>2 DEF EditType
<1>9. EditBacked(e)'
  BY <1>7 DEF EditBacked
<1>10. Backed'
  <2>1. ASSUME NEW x \in Domains, domain'[x] = "active"
        PROVE  \/ domain[x] = "active" /\ (x \in stamped => x \in stamped')
               \/ x \in stamped' /\ Mapped(x)'
    <3>1. CASE x = d
      BY <1>0, <1>1, <1>a, <2>1, <3>1 DEF EditBacked, Mapped, RowType
    <3>2. CASE x # d
      BY <1>0, <2>1, <3>2 DEF RowType
    <3> QED BY <3>1, <3>2
  <2> QED BY <1>0, <1>1, <1>2, <1>3, <1>7, <1>8, <1>9, <2>1, BackedKept
<1> QED BY <1>3, <1>5, <1>6, <1>10 DEF MailInv, Advance, Kept

LEMMA StepSaveItem ==
  ASSUME MailInv, NEW e \in Edits, SaveItem(e)
  PROVE  MailInv'
<1>a. PICK i : i = edit[e].on
  OBVIOUS
<1>0. /\ RowType /\ EditType /\ i \in Items /\ row[i] # "none"
      /\ edit' = [edit EXCEPT ![e] = Answered]
      /\ row' = [row EXCEPT ![i] = "there"]
      /\ version[i] < MaxEdits /\ version' = [version EXCEPT ![i] = @ + 1]
      /\ restored' = IF Exists(i) THEN restored ELSE restored \cup {i}
      /\ UNCHANGED <<domainVars, renamed, hosted, tasks, queue, run, faults, ready, inline, killed>>
  BY <1>a DEF MailInv, Backed, EditBacked, SaveItem, Restore
<1>1. PICK in \in (IF i \in Mailboxes THEN Domains ELSE Mailboxes) :
        /\ parent' = [parent EXCEPT ![i] = in]
        /\ \/ UNCHANGED mixed /\ unsent' = unsent \cup {i}
           \/ /\ \E shared \in SUBSET Sharers(i, in) : mixed' = mixed \cup {i} \cup shared
              /\ unsent' = unsent \cup {i} \cup {a \in Aliases : parent[a] = i /\ row[a] # "none"}
  BY <1>a DEF SaveItem
<1>2. /\ mixed \subseteq mixed' /\ mixed' \subseteq Items
      /\ unsent \cup {i} \subseteq unsent' /\ unsent' \subseteq Items
  <2>1. Sharers(i, in) \subseteq Items
    BY DEF Sharers, Items
  <2> QED BY <1>0, <1>1, <2>1 DEF RowType, Items
<1>3. PICK f : f = run["worker"]
  OBVIOUS
<1>4. Advance("worker", f)
  BY <1>0, <1>3, Stays
<1>5. RowType'
  BY <1>0, <1>2, MailAssumption DEF MailAssumption, RowType, domainVars
<1>6. /\ row'[i] = "there" /\ \A j \in Items : j # i => row'[j] = row[j] /\ version'[j] = version[j]
      /\ parent' \in [Items -> Domains \cup Mailboxes]
      /\ parent'[i] \in Domains <=> i \in Mailboxes
      /\ \A j \in Items : j # i => parent'[j] = parent[j]
  BY <1>0, <1>1, MailAssumption DEF MailAssumption, RowType, EditType
<1>7. Deletions'
  <2>1. \A j \in Items :
           /\ row[j] # "none" => row'[j] # "none"
           /\ row'[j] = "deleted" => row[j] = "deleted" \/ (row[j] # "none" /\ (j \in mixed' \/ Away(j)))
           /\ hosted'[j] = Absent \/ hosted[j] # Absent \/ (Coming(j) /\ ~Coming(j)')
    BY <1>0, <1>6
  <2> QED BY <1>0, <1>2, <1>3, <1>4, <2>1, DeletionsKept DEF Fresh
<1>8. Owing'
  <2>1. ASSUME NEW j \in Items PROVE ItemOwing(j)'
    <3>1. CASE j = i
      BY <1>2, <3>1 DEF ItemOwing
    <3>2. CASE j # i
      <4>1. Exists(j)' => Exists(j)
        BY <1>0, <1>6, <3>2 DEF Exists, domainVars
      <4> QED BY <1>0, <1>2, <1>3, <1>4, <1>6, <3>2, <4>1, ItemKept
    <3> QED BY <3>1, <3>2
  <2>2. \A q \in Requests, j \in Items : Applying(q, j)' => j \in inline'
    BY <1>0, <1>3, <1>4, InlineKept
  <2> QED BY <2>1, <2>2 DEF Owing
<1>9. /\ edit'[e] = Answered /\ \A g \in Edits \ {e} : edit'[g] = edit[g]
      /\ Answered \in Snapshot /\ Answered.on = None /\ Answered.status = "answered"
      /\ None \notin Domains \cup Items
  BY <1>0, AnswerType DEF EditType
<1>10. EditType'
  <2>1. edit' \in [Edits -> Snapshot]
    BY <1>0, <1>9 DEF EditType
  <2>2. \A g \in Edits : edit'[g].on \in Domains <=> edit'[g].status \in Status
    BY <1>0, <1>9 DEF EditType, Status
  <2>3. \A a \in Aliases : a \in unsent' \/ parent'[a] = BoxOf[a]
    BY <1>0, <1>2, <1>6 DEF EditType, Items
  <2>4. \A j \in Items : parent'[j] \in Domains <=> j \in Mailboxes
    BY <1>0, <1>6 DEF EditType
  <2> QED BY <1>0, <1>6, <2>1, <2>2, <2>3, <2>4 DEF EditType
<1>11. EditBacked(e)'
  BY <1>9 DEF EditBacked
<1>12. Backed'
  <2>1. \A j \in Items : row'[j] # "none" <=> row[j] # "none"
    BY <1>0, <1>6
  <2> QED BY <1>0, <1>3, <1>4, <1>9, <1>10, <1>11, <2>1, BackedKept DEF Items, domainVars
<1> QED BY <1>4, <1>5, <1>7, <1>8, <1>12 DEF MailInv, Advance, Kept

LEMMA StepSave ==
  ASSUME MailInv, NEW r \in Requests, NEW i \in Items, Save(r, i)
  PROVE  MailInv'
<1> DEFINE f == [Idle EXCEPT !.op = "saved", !.left = {i}]
<1>0. /\ RowType /\ TaskInv /\ r \in Runners /\ run[r].op = "idle" /\ Exists(i)
      /\ version[i] < MaxEdits /\ version' = [version EXCEPT ![i] = @ + 1]
      /\ UNCHANGED <<domainVars, row, mixed, editVars, hosted, tasks, queue, faults, historyVars>>
      /\ run' = [run EXCEPT ![r] = f]
      /\ killed \subseteq DOMAIN tasks
  BY DEF MailInv, Save, Free, Runners, TaskInv, PlaceType
<1>1. /\ f \in Frame /\ f.op = "saved" /\ f.left = {i} /\ f.task = None /\ f.outer = None
  BY FrameTypes DEF Frame, Idle
<1>2. run[r].task = None /\ None \notin DOMAIN tasks
  BY <1>0, FrameKinds DEF FrameFits
<1> HIDE DEF f
<1>3. Advance(r, f)
  <2>1. TasksGrow(r, f)
    BY <1>0, SameTasks
  <2>2. Moves(r, f)
    BY <1>0, <1>1 DEF Moves, FrameFits
  <2> QED BY <1>0, <2>1, <2>2, Moved DEF Advance, Kept, historyVars
<1>4. RowType'
  BY <1>0, MailAssumption DEF MailAssumption, RowType, domainVars, historyVars
<1>5. i \notin Domains /\ row[i] = "there"
  BY <1>0, MailAssumption DEF MailAssumption, Items, Exists
<1>6. run'[r] = f /\ \A q \in Runners \ {r} : run'[q] = run[q]
  BY <1>0, <1>3, Bystanders
<1>7. Deletions'
  <2>1. \A j \in Items :
           /\ row[j] # "none" => row'[j] # "none"
           /\ row'[j] = "deleted" => row[j] = "deleted" \/ (row[j] # "none" /\ (j \in mixed' \/ Away(j)))
           /\ hosted'[j] = Absent \/ hosted[j] # Absent \/ (Coming(j) /\ ~Coming(j)')
    BY <1>0
  <2>2. RunDeletions(r)'
    BY <1>0, <1>1, <1>5, <1>6 DEF RunDeletions
  <2>3. \A q \in Runners : run'[q] = run[q] \/ RunDeletions(q)'
    BY <1>6, <2>2
  <2> QED BY <1>0, <1>3, <2>1, <2>3, DeletionsKept DEF Fresh, itemVars, historyVars
<1>8. Owing'
  <2>1. ASSUME NEW j \in Items PROVE ItemOwing(j)'
    <3>1. CASE j = i
      <4>1. r \in Runners /\ run'[r].op = "saved" /\ i \in run'[r].left
        BY <1>0, <1>1, <1>6
      <4> QED BY <3>1, <4>1 DEF ItemOwing, OwedElse, Owed
    <3>2. CASE j # i
      <4>1. Exists(j)' => Exists(j)
        BY <1>0 DEF Exists, domainVars
      <4>2. version'[j] = version[j]
        BY <1>0, <3>2 DEF RowType
      <4>3. run'["worker"] = run["worker"] \/ run'["worker"].op \notin {"create", "sync"}
        BY <1>1, <1>6 DEF Runners
      <4> QED BY <1>0, <1>2, <1>3, <4>1, <4>2, <4>3, ItemKept DEF historyVars
    <3> QED BY <3>1, <3>2
  <2>2. \A q \in Requests, j \in Items : Applying(q, j)' => j \in inline'
    BY <1>0, <1>1, <1>3, InlineKept DEF historyVars
  <2> QED BY <2>1, <2>2 DEF Owing
<1>9. Backed'
  BY <1>0, <1>1, <1>3, ItemBacked DEF historyVars
<1> QED BY <1>3, <1>4, <1>7, <1>8, <1>9 DEF MailInv, Advance, Kept

\* The row of a mailbox or alias and its first task.
LEMMA CreatedStep ==
  ASSUME MailInv, NEW p \in Runners, NEW x \in Items, row[x] = "none",
         row' = [row EXCEPT ![x] = "there"], Queueing(p, "create", x),
         mixed \subseteq mixed', mixed' \subseteq Items,
         UNCHANGED <<domainVars, version, editVars, hosted, queue, faults, historyVars>>,
         run[p].op \in {"idle", "insert"}, x \in Mailboxes => DomainOf[x] \in ready
  PROVE  MailInv'
<1>0. /\ RowType /\ TaskInv /\ run[p].task = None /\ None \notin DOMAIN tasks
      /\ \A t \in DOMAIN tasks : tasks[t].on # x
  BY FrameKinds DEF MailInv, FrameFits, Deletions, ItemDeletions
<1>1. PICK f \in Frame :
           /\ Advance(p, f) /\ f.op = "dispatch" /\ Fresh(f.task)
           /\ \A t : Fresh(t) <=> t = f.task
           /\ tasks'[f.task].on = x /\ tasks'[f.task].op = "create"
           /\ \A t \in DOMAIN tasks : tasks'[t] = tasks[t]
  BY <1>0, Queued DEF historyVars
<1>2. run'[p] = f /\ \A q \in Runners \ {p} : run'[q] = run[q]
  BY <1>0, <1>1, Bystanders
<1>3. RowType'
  BY <1>0 DEF RowType, domainVars, historyVars
<1>4. row'[x] = "there" /\ \A i \in Items : i # x => row'[i] = row[i]
  BY <1>0 DEF RowType
<1>5. Deletions'
  <2>1. \A i \in Items :
           /\ row[i] # "none" => row'[i] # "none"
           /\ row'[i] = "deleted" => row[i] = "deleted" \/ (row[i] # "none" /\ (i \in mixed' \/ Away(i)))
           /\ hosted'[i] = Absent \/ hosted[i] # Absent \/ (Coming(i) /\ ~Coming(i)')
    BY <1>4
  <2>2. \A q \in Runners : run'[q] = run[q] \/ RunDeletions(q)'
    BY <1>1, <1>2 DEF RunDeletions
  <2> QED BY <1>0, <1>1, <1>4, <2>1, <2>2, DeletionsKept DEF itemVars, historyVars
<1>6. Owing'
  <2>1. ASSUME NEW i \in Items PROVE ItemOwing(i)'
    <3>1. CASE i = x
      <4>1. ~Applying("worker", i)'
        <5>1. Applying("worker", i)' => run'["worker"] = run["worker"]
          BY <1>1, <1>2 DEF Applying, Runners
        <5>2. Applying("worker", i)' => Applying("worker", i) /\ run["worker"].task \in DOMAIN tasks
          BY <1>0, <1>1, <5>1, Bystanders DEF Applying, Runners
        <5> QED BY <1>0, <3>1, <5>2 DEF Applying, Target
      <4>2. Owed(i, {})'
        <5>1. tasks'[f.task].state # "success" /\ f.task \in DOMAIN tasks'
          BY <1>1 DEF Advance, TasksGrow, Fresh
        <5> QED BY <1>1, <3>1, <5>1 DEF Owed, Concerns
      <4> QED BY <4>1, <4>2 DEF ItemOwing
    <3>2. CASE i # x
      <4>1. Exists(i)' => Exists(i)
        BY <1>4, <3>2 DEF Exists, domainVars
      <4>2. run'["worker"] = run["worker"] \/ run'["worker"].op \notin {"create", "sync"}
        BY <1>1, <1>2 DEF Runners
      <4> QED BY <1>0, <1>1, <4>1, <4>2, ItemKept DEF historyVars
    <3> QED BY <3>1, <3>2
  <2>2. \A q \in Requests, i \in Items : Applying(q, i)' => i \in inline'
    BY <1>1, InlineKept DEF historyVars
  <2> QED BY <2>1, <2>2 DEF Owing
<1>7. Backed'
  <2>1. /\ \A i \in Items : row[i] # "none" => row'[i] # "none"
        /\ \A m \in Mailboxes : row'[m] # "none" => row[m] # "none" \/ DomainOf[m] \in ready
    BY <1>4 DEF Items
  <2> QED BY <1>1, <2>1, ItemBacked DEF historyVars
<1> QED BY <1>1, <1>3, <1>5, <1>6, <1>7 DEF MailInv, Advance, Kept

LEMMA StepCreateAlias ==
  ASSUME MailInv, NEW r \in Requests, NEW a \in Aliases, CreateAlias(r, a)
  PROVE  MailInv'
<1>1. a \in Items /\ a \notin Mailboxes /\ r \in Runners
  BY MailAssumption DEF MailAssumption, Items, Runners
<1>2. mixed \subseteq mixed' /\ mixed' \subseteq Items
  <2>1. PICK shared \in SUBSET Sharers(a, BoxOf[a]) : mixed' = mixed \cup Mixed(a, shared)
    BY DEF CreateAlias
  <2>2. mixed \subseteq Items /\ Sharers(a, BoxOf[a]) \subseteq Items
    BY DEF MailInv, RowType, Sharers, Items
  <2> QED BY <1>1, <2>1, <2>2 DEF Mixed
<1> QED BY <1>1, <1>2, CreatedStep DEF CreateAlias, Free

LEMMA StepInsertMailbox ==
  ASSUME MailInv, NEW p \in Runners, InsertMailbox(p)
  PROVE  MailInv'
<1>0. /\ RowType /\ TaskInv /\ run[p].op = "insert"
      /\ UNCHANGED <<domainVars, version, editVars, hosted, queue, faults, historyVars>>
      /\ killed \subseteq DOMAIN tasks
      /\ run[p].task = None /\ None \notin DOMAIN tasks
  BY FrameKinds DEF MailInv, InsertMailbox, TaskInv, PlaceType, FrameFits
<1>1. PICK m \in run[p].left :
         IF row[m] = "none" /\ Exists(DomainOf[m])
         THEN /\ row' = [row EXCEPT ![m] = "there"]
              /\ \E shared \in SUBSET Sharers(m, DomainOf[m]) : mixed' = mixed \cup Mixed(m, shared)
              /\ Queueing(p, "create", m)
         ELSE run' = [run EXCEPT ![p] = Idle] /\ UNCHANGED <<row, mixed, tasks>>
  BY DEF InsertMailbox
<1>2. m \in Mailboxes /\ DomainOf[m] \in ready /\ m \in Items
  BY <1>0 DEF MailInv, Backed, Items
<1>3. CASE row[m] = "none" /\ Exists(DomainOf[m])
  <2>1. PICK shared \in SUBSET Sharers(m, DomainOf[m]) : mixed' = mixed \cup Mixed(m, shared)
    BY <1>1, <1>3
  <2>2. mixed \subseteq Items /\ Sharers(m, DomainOf[m]) \subseteq Items
    BY <1>0 DEF RowType, Sharers, Items
  <2>3. mixed \subseteq mixed' /\ mixed' \subseteq Items
    BY <1>2, <2>1, <2>2 DEF Mixed
  <2> QED BY <1>0, <1>1, <1>2, <1>3, <2>3, CreatedStep
<1>4. CASE ~(row[m] = "none" /\ Exists(DomainOf[m]))
  <2>0. run' = [run EXCEPT ![p] = Idle] /\ row' = row /\ mixed' = mixed /\ tasks' = tasks
    BY <1>1, <1>4
  <2>1. Advance(p, Idle) /\ Idle.op = "idle"
    BY <1>0, <2>0, Dropped, SameTasks DEF Advance, Idle, historyVars
  <2>2. Deletions' /\ Owing'
    BY <1>0, <2>0, <2>1, CalmStep DEF historyVars, Fresh
  <2>3. Backed'
    BY <1>0, <2>0, <2>1, ItemBacked DEF historyVars
  <2>4. RowType'
    BY <1>0, <2>0 DEF RowType, domainVars, historyVars
  <2> QED BY <2>1, <2>2, <2>3, <2>4 DEF MailInv, Advance, Kept
<1> QED BY <1>3, <1>4

LEMMA StepRequestSync ==
  ASSUME MailInv, NEW p \in Runners, RequestSync(p)
  PROVE  MailInv'
<1>0. /\ RowType /\ TaskInv /\ run[p].op = "saved"
      /\ UNCHANGED <<domainVars, itemVars, editVars, hosted, queue, faults, historyVars>>
      /\ run[p].task = None /\ None \notin DOMAIN tasks
  BY FrameKinds DEF MailInv, RequestSync, FrameFits
<1>1. PICK i \in run[p].left : Queueing(p, "sync", i)
  BY DEF RequestSync
<1>2. i \in Items /\ row[i] # "none" /\ run[p].left = {i}
  BY <1>0, FrameKinds, FrameTypes DEF MailInv, Deletions, RunDeletions
<1>3. PICK f \in Frame :
           /\ Advance(p, f) /\ f.op = "dispatch" /\ Fresh(f.task)
           /\ \A t : Fresh(t) <=> t = f.task
           /\ tasks'[f.task].on = i /\ tasks'[f.task].op = "sync"
           /\ \A t \in DOMAIN tasks : tasks'[t] = tasks[t]
  BY <1>0, <1>1, <1>2, Queued DEF historyVars
<1>4. run'[p] = f /\ \A q \in Runners \ {p} : run'[q] = run[q]
  BY <1>0, <1>3, Bystanders
<1>5. RowType'
  BY <1>0 DEF RowType, domainVars, itemVars, editVars, historyVars
<1>6. Deletions'
  <2>1. \A j \in Items :
           /\ row[j] # "none" => row'[j] # "none"
           /\ row'[j] = "deleted" => row[j] = "deleted" \/ (row[j] # "none" /\ (j \in mixed' \/ Away(j)))
           /\ hosted'[j] = Absent \/ hosted[j] # Absent \/ (Coming(j) /\ ~Coming(j)')
    BY <1>0 DEF itemVars, editVars
  <2>2. \A q \in Runners : run'[q] = run[q] \/ RunDeletions(q)'
    BY <1>3, <1>4 DEF RunDeletions
  <2>3. \A t : Fresh(t) /\ tasks'[t].on \in Items =>
          row'[tasks'[t].on] # "none" /\ (tasks'[t].op = "create" => row[tasks'[t].on] = "none")
    BY <1>0, <1>2, <1>3 DEF itemVars, editVars
  <2> QED BY <1>0, <1>3, <2>1, <2>2, <2>3, DeletionsKept DEF itemVars, historyVars
<1>7. Owing'
  <2>1. ASSUME NEW j \in Items PROVE ItemOwing(j)'
    <3>1. Exists(j)' => Exists(j)
      BY <1>0 DEF Exists, domainVars, itemVars, editVars
    <3>2. run'["worker"] = run["worker"] \/ run'["worker"].op \notin {"create", "sync"}
      BY <1>3, <1>4 DEF Runners
    <3>3. j \in run[p].left => \E t : Fresh(t) /\ Concerns(t, j)'
      BY <1>2, <1>3 DEF Concerns
    <3> QED BY <1>0, <1>3, <3>1, <3>2, <3>3, ItemKept DEF historyVars, itemVars, editVars
  <2>2. \A q \in Requests, j \in Items : Applying(q, j)' => j \in inline'
    BY <1>0, <1>3, InlineKept DEF historyVars
  <2> QED BY <2>1, <2>2 DEF Owing
<1>8. Backed'
  BY <1>0, <1>3, ItemBacked DEF historyVars, itemVars, editVars
<1> QED BY <1>3, <1>5, <1>6, <1>7, <1>8 DEF MailInv, Advance, Kept

\* A deletion begins with a task of its own.
LEMMA StepStartDelete ==
  ASSUME MailInv, NEW r \in Requests, NEW i \in Items, StartDelete(r, i)
  PROVE  MailInv'
<1> DEFINE listed == {a \in Aliases : i \in Mailboxes /\ parent[a] = i /\ Exists(a)}
           new == [op |-> "delete", on |-> i, state |-> "running"]
           f == [Idle EXCEPT !.op = "delete", !.task = Len(tasks) + 1,
                             !.left = {i} \cup listed, !.listed = listed]
<1>0. /\ RowType /\ TaskInv /\ r \in Runners /\ run[r].op = "idle" /\ Exists(i)
      /\ tasks' = Append(tasks, new) /\ run' = [run EXCEPT ![r] = f]
      /\ UNCHANGED <<domainVars, itemVars, editVars, hosted, queue, faults, historyVars>>
  BY DEF MailInv, StartDelete, Runners
<1>1. /\ \A a \in listed : a \in Aliases /\ (a \in unsent \/ BoxOf[a] = i) /\ row[a] = "there"
      /\ row[i] = "there"
  BY <1>0, MailAssumption DEF MailAssumption, MailInv, Backed, EditType, Items, Exists
<1>2. /\ new \in TaskRow /\ TaskFits(new) /\ new.state # "success" /\ new.op = "delete" /\ new.on = i
      /\ Len(tasks) + 1 \in Nat /\ tasks \in Seq(TaskRow)
  BY <1>0, NewRow
<1>3. /\ f \in Frame /\ f.op = "delete" /\ f.task = Len(tasks) + 1 /\ f.outer = None
      /\ f.left = {i} \cup listed /\ f.listed = listed
  <2>1. listed \subseteq Aliases /\ {i} \cup listed \subseteq Items
    BY DEF Items
  <2> HIDE DEF listed
  <2> QED BY <1>2, <2>1 DEF Idle, Frame
<1>4. \A t \in DOMAIN tasks : tasks'[t] = tasks[t]
  BY <1>0, <1>2, LenProperties
<1>5. run[r].task = None /\ None \notin DOMAIN tasks
  BY <1>0, FrameKinds DEF FrameFits
<1> HIDE DEF listed, new, f
<1>6. /\ Kept /\ TasksGrow(r, f)
      /\ Len(tasks) + 1 \notin DOMAIN tasks /\ DOMAIN tasks' = DOMAIN tasks \cup {Len(tasks) + 1}
      /\ tasks'[Len(tasks) + 1] = new
  <2>1. queue' = queue /\ killed' = killed /\ f.outer \in DOMAIN tasks \cup {None}
    BY <1>0, <1>3 DEF historyVars
  <2>2. TaskInv /\ tasks' = Append(tasks, new) /\ run' = [run EXCEPT ![r] = f] /\ r \in Runners
    BY <1>0
  <2> QED BY ONLY <1>2, <1>3, <2>1, <2>2, Started, ZenonT(60)
<1>7. Advance(r, f) /\ (\A t : Fresh(t) <=> t = Len(tasks) + 1)
  BY <1>0, <1>6 DEF Advance, Fresh
<1>8. run'[r] = f /\ \A q \in Runners \ {r} : run'[q] = run[q]
  BY <1>0, <1>7, Bystanders
<1>9. RowType'
  BY <1>0 DEF RowType, domainVars, itemVars, editVars, historyVars
<1>10. Deletions'
  <2>1. \A j \in Items :
           /\ row[j] # "none" => row'[j] # "none"
           /\ row'[j] = "deleted" => row[j] = "deleted" \/ (row[j] # "none" /\ (j \in mixed' \/ Away(j)))
           /\ hosted'[j] = Absent \/ hosted[j] # Absent \/ (Coming(j) /\ ~Coming(j)')
    BY <1>0 DEF itemVars, editVars
  <2>2. RunDeletions(r)'
    <3>1. Target(r)' = i
      BY <1>2, <1>3, <1>6, <1>8 DEF Target
    <3>2. Deleting(r)' = {i} \cup listed
      BY <1>3, <1>8, <3>1 DEF Deleting
    <3> QED BY <1>0, <1>1, <1>3, <1>8, <3>1, <3>2 DEF RunDeletions, itemVars, editVars, historyVars
  <2>3. \A q \in Runners : run'[q] = run[q] \/ RunDeletions(q)'
    BY <1>8, <2>2
  <2>4. \A t : Fresh(t) /\ tasks'[t].on \in Items =>
          row'[tasks'[t].on] # "none" /\ (tasks'[t].op = "create" => row[tasks'[t].on] = "none")
    BY <1>0, <1>1, <1>2, <1>6, <1>7 DEF itemVars, editVars
  <2> QED BY <1>0, <1>7, <2>1, <2>3, <2>4, DeletionsKept DEF itemVars, historyVars
<1>11. Owing'
  <2>1. ASSUME NEW j \in Items PROVE ItemOwing(j)'
    <3>1. Exists(j)' => Exists(j)
      BY <1>0 DEF Exists, domainVars, itemVars, editVars
    <3>2. run'["worker"] = run["worker"] \/ run'["worker"].op \notin {"create", "sync"}
      BY <1>3, <1>8 DEF Runners
    <3> QED BY <1>0, <1>5, <1>7, <3>1, <3>2, ItemKept DEF historyVars, itemVars, editVars
  <2>2. \A q \in Requests, j \in Items : Applying(q, j)' => j \in inline'
    BY <1>0, <1>3, <1>7, InlineKept DEF historyVars
  <2> QED BY <2>1, <2>2 DEF Owing
<1>12. Backed'
  BY <1>0, <1>3, <1>7, ItemBacked DEF historyVars, itemVars, editVars
<1> QED BY <1>7, <1>9, <1>10, <1>11, <1>12 DEF MailInv, Advance, Kept

\* A run for an item ends: nobody holds its task any more.
LEMMA EndedRun ==
  ASSUME MailInv, NEW p \in Runners, run[p].op \in {"create", "sync", "delete"},
         NEW state \in {"success", "failed"}, End(p, state), queue' = queue, killed' = killed,
         NEW own, own = run[p].task
  PROVE  /\ Advance(p, Idle) /\ Idle.op = "idle" /\ \A t : ~Fresh(t)
         /\ Target(p) \in Items /\ own \in DOMAIN tasks
         /\ tasks[own].op = run[p].op /\ tasks[own].on = Target(p)
         /\ Held(own) /\ ~Held(own)'
         /\ tasks'[own].state = state
         /\ \A t \in DOMAIN tasks : t # own => tasks'[t] = tasks[t]
<1>1. TaskInv
  BY DEF MailInv
<1>2. Kept /\ TasksGrow(p, Idle) /\ DOMAIN tasks' = DOMAIN tasks
  BY <1>1, Ended
<1>3. /\ Target(p) \in Items /\ run[p].task \in DOMAIN tasks
      /\ tasks[run[p].task].op = run[p].op /\ tasks[run[p].task].on = Target(p)
  BY <1>1, InHand DEF Target
<1>4. tasks' = [tasks EXCEPT ![run[p].task].state = state] /\ run' = [run EXCEPT ![p] = Idle]
  BY DEF End
<1>5. /\ tasks'[run[p].task].state = state
      /\ \A t \in DOMAIN tasks : t # run[p].task => tasks'[t] = tasks[t]
  <2>1. tasks \in Seq(TaskRow)
    BY <1>1 DEF TaskInv, PlaceType
  <2>2. tasks[run[p].task] \in TaskRow
    BY <1>3, <2>1, ElementOfSeq, LenProperties
  <2>3. [tasks[run[p].task] EXCEPT !.state = state].state = state
    BY <2>2 DEF TaskRow
  <2> QED BY <1>3, <1>4, <2>1, <2>3
<1>6. Advance(p, Idle) /\ Idle.op = "idle" /\ \A t : ~Fresh(t)
  BY <1>2, <1>4 DEF Advance, Idle, Fresh
<1>7. ~Held(own)'
  <2>1. run'[p] = Idle /\ \A q \in Runners \ {p} : run'[q] = run[q]
    BY <1>1, <1>6, Bystanders
  <2>2. Idle.task # own /\ own = run[p].task
    BY <1>1, <1>3, FrameKinds
  <2>3. \A q \in Runners \ {p} : run[q].task # run[p].task
    BY <1>1, <1>3, FrameKinds DEF TaskInv, Once
  <2>4. \A a \in DOMAIN queue : queue[a] # run[p].task
    BY <1>1 DEF TaskInv, Once
  <2> QED BY <2>1, <2>2, <2>3, <2>4 DEF Held
<1> QED BY <1>3, <1>5, <1>6, <1>7 DEF Held

\* A create run is the one that was to come, and none comes after it.
LEMMA CreatedOnce ==
  ASSUME MailInv, NEW p \in Runners, run[p].op = "create",
         NEW state \in {"success", "failed"}, End(p, state), queue' = queue, killed' = killed,
         NEW i, i = Target(p)
  PROVE  Coming(i) /\ ~Coming(i)'
<1>0. PICK own : own = run[p].task
  OBVIOUS
<1>1. /\ Advance(p, Idle) /\ \A t : ~Fresh(t)
      /\ i \in Items /\ own \in DOMAIN tasks
      /\ tasks[own].op = "create" /\ tasks[own].on = i
      /\ Held(own) /\ ~Held(own)'
  BY <1>0, EndedRun
<1>2. TaskInv /\ \A s, t \in DOMAIN tasks : Creates(s, i) /\ Creates(t, i) => s = t
  BY <1>1 DEF MailInv, Deletions, ItemDeletions
<1>3. Coming(i)
  BY <1>1 DEF Coming, Creates
<1>4. ~Coming(i)'
  <2>1. SUFFICES ASSUME Coming(i)' PROVE FALSE
    OBVIOUS
  <2>2. PICK t \in DOMAIN tasks' : Creates(t, i)' /\ Held(t)'
    BY <2>1 DEF Coming
  <2>3. t \in DOMAIN tasks /\ Creates(t, i)
    BY <1>1, <1>2, <2>2, Bystanders DEF Fresh, Creates
  <2>4. t = own
    BY <1>1, <1>2, <2>3 DEF Creates
  <2> QED BY <1>1, <2>2, <2>4
<1> QED BY <1>3, <1>4

\* What a run does to an item while its own task has not succeeded.
LEMMA OwnTaskOwed ==
  ASSUME MailInv, NEW p, NEW f, Advance(p, f), f.op \notin {"create", "sync"},
         NEW own, own = run[p].task, own \in DOMAIN tasks,
         NEW i \in Items, Concerns(own, i), tasks'[own].state # "success"
  PROVE  ItemOwing(i)'
<1>0. /\ TaskInv /\ p \in Runners /\ run'[p] = f /\ None \notin DOMAIN tasks
      /\ \A q \in Runners \ {p} : run'[q] = run[q]
  BY Bystanders DEF MailInv, Advance
<1>1. own \in DOMAIN tasks' /\ Concerns(own, i)'
  BY <1>0, Bystanders DEF Concerns
<1>2. Owed(i, {})'
  BY <1>1 DEF Owed
<1>3. ASSUME Applying("worker", i)' PROVE OwedElse(i)'
  <2>1. p # "worker" /\ "worker" \in Runners
    BY <1>0, <1>3 DEF Applying, Runners
  <2>2. run'["worker"].task # own
    BY <1>0, <2>1 DEF TaskInv, Once
  <2> QED BY <1>1, <2>2 DEF OwedElse, Owed
<1> QED BY <1>2, <1>3 DEF ItemOwing

LEMMA StepApplied ==
  ASSUME MailInv, NEW p \in Runners, Applied(p)
  PROVE  MailInv'
<1>0. /\ RowType /\ TaskInv /\ run[p].op \in {"create", "sync"} /\ Accepts(run[p].op, Target(p))
      /\ hosted' = Hosting(Target(p), run[p].seen)
      /\ End(p, "success")
      /\ UNCHANGED <<domainVars, itemVars, editVars, queue, faults, historyVars>>
  BY DEF MailInv, Applied
<1>a. PICK own : own = run[p].task
  OBVIOUS
<1>b. PICK i : i = Target(p)
  OBVIOUS
<1>1. /\ Advance(p, Idle) /\ Idle.op = "idle" /\ \A t : ~Fresh(t)
      /\ i \in Items /\ own \in DOMAIN tasks
      /\ tasks[own].op = run[p].op /\ tasks[own].on = i
      /\ \A t \in DOMAIN tasks : t # own => tasks'[t] = tasks[t]
  BY <1>0, <1>a, <1>b, EndedRun DEF historyVars
<1>2. run[p].seen \in 0..MaxEdits
  BY <1>0, FrameKinds DEF FrameFits
<1>3. RowType'
  BY <1>0, <1>1, <1>2 DEF RowType, Hosting, domainVars, itemVars, editVars, historyVars
<1>4. /\ IF i \in mixed THEN hosted'[i] = hosted[i] ELSE hosted'[i] = run[p].seen
      /\ \A j \in Items : j # i => hosted'[j] = hosted[j]
  BY <1>0, <1>1, <1>b DEF RowType, Hosting
<1>5. run'[p] = Idle /\ \A q \in Runners \ {p} : run'[q] = run[q]
  BY <1>0, <1>1, Bystanders
<1>6. Deletions'
  <2>1. run[p].op = "create" => Coming(i) /\ ~Coming(i)'
    BY <1>0, <1>b, CreatedOnce DEF historyVars
  <2>2. run[p].op = "sync" => i \in mixed \/ hosted[i] # Absent
    BY <1>0, <1>b DEF Accepts
  <2>3. \A j \in Items :
           /\ row[j] # "none" => row'[j] # "none"
           /\ row'[j] = "deleted" => row[j] = "deleted" \/ (row[j] # "none" /\ (j \in mixed' \/ Away(j)))
           /\ hosted'[j] = Absent \/ hosted[j] # Absent \/ (Coming(j) /\ ~Coming(j)')
    BY <1>0, <1>4, <2>1, <2>2 DEF itemVars, editVars
  <2>4. \A q \in Runners : run'[q] = run[q] \/ RunDeletions(q)'
    BY <1>1, <1>5 DEF RunDeletions
  <2> QED BY <1>0, <1>1, <2>3, <2>4, DeletionsKept DEF itemVars, historyVars
<1>7. Owing'
  <2>1. ASSUME NEW j \in Items PROVE ItemOwing(j)'
    <3>0. Exists(j)' => Exists(j)
      BY <1>0 DEF Exists, domainVars, itemVars, editVars
    <3>1. CASE j # i
      <4>1. ~Concerns(own, j)
        BY <1>0, <1>1, <3>1 DEF Concerns
      <4>2. run'["worker"] = run["worker"] \/ run'["worker"].op \notin {"create", "sync"}
        BY <1>1, <1>5 DEF Runners
      <4> QED BY <1>0, <1>1, <1>4, <1>a, <3>0, <3>1, <4>1, <4>2, ItemKept DEF historyVars, itemVars, editVars
    <3>2. CASE j = i /\ p \in Requests
      <4>1. i \in inline'
        BY <1>0, <1>1, <1>b, <3>2 DEF MailInv, Owing, Applying, historyVars
      <4> QED BY <3>2, <4>1 DEF ItemOwing
    <3>3. CASE j = i /\ p = "worker"
      <4> SUFFICES ASSUME Exists(i)', i \notin (unsent \cup inline \cup mixed)'
                   PROVE  /\ hosted'[i] # version'[i] => Owed(i, {})'
                          /\ ~Applying("worker", i)'
        BY <3>3 DEF ItemOwing
      <4>1. ~Applying("worker", i)'
        BY <1>1, <1>5, <3>3 DEF Applying
      <4>2. ASSUME hosted'[i] # version'[i] PROVE Owed(i, {})'
        <5>1. PICK done : done = {own}
          OBVIOUS
        <5>2. run["worker"].seen # version[i] /\ Applying("worker", i)
              /\ Exists(i) /\ i \notin unsent \cup inline \cup mixed
          BY <1>0, <1>4, <1>b, <3>0, <3>3, <4>2 DEF Applying, itemVars, editVars, historyVars
        <5>3. Owed(i, done)
          BY <1>1, <1>a, <3>3, <5>1, <5>2 DEF MailInv, Owing, ItemOwing, OwedElse
        <5>4. Owed(i, done)'
          BY <1>0, <1>1, <1>a, <5>1, <5>3, OwedKept
        <5> QED BY <5>4 DEF Owed
      <4> QED BY <4>1, <4>2
    <3> QED BY <3>1, <3>2, <3>3 DEF Runners
  <2>2. \A q \in Requests, j \in Items : Applying(q, j)' => j \in inline'
    BY <1>0, <1>1, InlineKept DEF historyVars
  <2> QED BY <2>1, <2>2 DEF Owing
<1>8. Backed'
  BY <1>0, <1>1, ItemBacked DEF historyVars, itemVars, editVars
<1> QED BY <1>1, <1>3, <1>6, <1>7, <1>8 DEF MailInv, Advance, Kept

\* What a deletion has in hand.
LEMMA InDeletion ==
  ASSUME MailInv, NEW p \in Runners, run[p].op = "delete", NEW own, own = run[p].task
  PROVE  /\ own \in DOMAIN tasks /\ tasks[own].op = "delete" /\ tasks[own].on = Target(p)
         /\ tasks[own].state # "success"
         /\ Deleting(p) \subseteq Items /\ run[p].left \subseteq Deleting(p)
         /\ \A i \in Deleting(p) :
              /\ i \in unsent \/ Concerns(own, i)
              /\ row[i] # "none" /\ (i \notin run[p].left \cup mixed => Away(i))
              /\ i # Target(p) => i \in run[p].listed
         /\ \A a \in run[p].listed : a \in unsent \/ BoxOf[a] = Target(p)
<1>1. TaskInv /\ RunDeletions(p)
  BY DEF MailInv, Deletions
<1>2. /\ own \in DOMAIN tasks /\ tasks[own].op = "delete" /\ tasks[own].on = Target(p)
      /\ tasks[own].state # "success" /\ Target(p) \in Items /\ run[p].listed \subseteq Aliases
  BY <1>1, InHand, FrameKinds, FrameTypes DEF Target
<1> QED BY <1>1, <1>2 DEF RunDeletions, Deleting, Concerns, Items

LEMMA StepDeleteAtProvider ==
  ASSUME MailInv, NEW p \in Runners, DeleteAtProvider(p)
  PROVE  MailInv'
<1>0. /\ RowType /\ TaskInv /\ run[p].op = "delete"
      /\ UNCHANGED <<domainVars, itemVars, editVars, tasks, queue, faults, historyVars>>
      /\ killed \subseteq DOMAIN tasks /\ run \in [Runners -> Frame]
  BY DEF MailInv, DeleteAtProvider, TaskInv, PlaceType
<1>1. PICK i \in NextDelete(p) :
       /\ Accepts("delete", i)
       /\ hosted' = Hosting(i, Absent)
       /\ run' = [run EXCEPT ![p].left = @ \ {i}]
  BY DEF DeleteAtProvider
<1>a. PICK own : own = run[p].task
  OBVIOUS
<1> DEFINE f == [run[p] EXCEPT !.left = @ \ {i}]
<1>2. /\ run[p] \in Frame /\ FrameFits(run[p], tasks)
      /\ f \in Frame /\ f.op = "delete" /\ f.task = run[p].task /\ f.outer = run[p].outer
      /\ f.left = run[p].left \ {i} /\ f.listed = run[p].listed
      /\ run' = [run EXCEPT ![p] = f]
  <2>1. run[p] \in Frame /\ FrameFits(run[p], tasks)
    BY <1>0, FrameKinds
  <2> QED BY <1>0, <1>1, <2>1 DEF Frame
<1> HIDE DEF f
<1>3. /\ i \in run[p].left /\ i \in Deleting(p) /\ i \in Items /\ (i \in mixed \/ hosted[i] # Absent)
      /\ own \in DOMAIN tasks /\ tasks[own].state # "success"
      /\ (i \in unsent \/ Concerns(own, i)) /\ row[i] # "none"
  BY <1>0, <1>1, <1>a, InDeletion DEF NextDelete, Accepts
<1>4. Advance(p, f)
  <2>1. TasksGrow(p, f)
    BY <1>0, SameTasks
  <2>2. Moves(p, f)
    BY <1>0, <1>2 DEF Moves, FrameFits
  <2> QED BY <1>0, <1>2, <2>1, <2>2, Moved DEF Advance, Kept, historyVars
<1>5. RowType'
  BY <1>0, <1>1 DEF RowType, Hosting, domainVars, itemVars, editVars, historyVars
<1>6. /\ IF i \in mixed THEN hosted'[i] = hosted[i] ELSE hosted'[i] = Absent
      /\ \A j \in Items : j # i => hosted'[j] = hosted[j]
  BY <1>1, <1>3, <1>0 DEF RowType, Hosting
<1>7. run'[p] = f /\ Target(p)' = Target(p) /\ Deleting(p)' = Deleting(p)
      /\ \A q \in Runners \ {p} : run'[q] = run[q]
  <2>1. run'[p] = f /\ \A q \in Runners \ {p} : run'[q] = run[q]
    BY <1>0, <1>4, Bystanders
  <2> QED BY <1>0, <1>2, <2>1 DEF Deleting, Target
<1>8. Deletions'
  <2>1. \A j \in Items : Coming(j)' => Coming(j)
    BY <1>0, <1>4, StillComing DEF Fresh
  <2>2. \A j \in Items : Away(j) => Away(j)'
    BY <1>6, <2>1 DEF Away
  <2>3. i \notin mixed => Away(i)'
    BY <1>3, <1>6, <2>1 DEF Away, MailInv, Deletions, ItemDeletions
  <2>4. RunDeletions(p)'
    <3>1. \A a \in run'[p].listed : a \in unsent' \/ BoxOf[a] = Target(p)'
      BY <1>0, <1>2, <1>7, <1>a, InDeletion DEF historyVars
    <3>2. \A j \in Deleting(p)' : row'[j] # "none" /\ (j \notin run'[p].left \cup mixed' => Away(j)')
      BY <1>0, <1>2, <1>7, <1>a, <2>2, <2>3, InDeletion DEF itemVars, editVars
    <3>3. run'[p].left \subseteq Deleting(p)' /\ run'[p].op = "delete"
      BY <1>0, <1>2, <1>7, <1>a, InDeletion
    <3> QED BY <3>1, <3>2, <3>3 DEF RunDeletions
  <2>5. \A q \in Runners : run'[q] = run[q] \/ RunDeletions(q)'
    BY <1>7, <2>4
  <2>6. \A j \in Items :
           /\ row[j] # "none" => row'[j] # "none"
           /\ row'[j] = "deleted" => row[j] = "deleted" \/ (row[j] # "none" /\ (j \in mixed' \/ Away(j)))
           /\ hosted'[j] = Absent \/ hosted[j] # Absent \/ (Coming(j) /\ ~Coming(j)')
    BY <1>0, <1>6 DEF itemVars, editVars
  <2> QED BY <1>0, <1>4, <2>5, <2>6, DeletionsKept DEF Fresh, itemVars, historyVars
<1>9. Owing'
  <2>1. ASSUME NEW j \in Items PROVE ItemOwing(j)'
    <3>1. CASE j = i
      <4>1. CASE i \in unsent
        BY <1>0, <3>1, <4>1 DEF ItemOwing, historyVars
      <4>2. CASE Concerns(own, i)
        <5>1. tasks'[own].state # "success"
          BY <1>0, <1>3
        <5> QED BY <1>2, <1>3, <1>4, <1>a, <3>1, <4>2, <5>1, OwnTaskOwed
      <4> QED BY <1>3, <4>1, <4>2
    <3>2. CASE j # i
      <4>1. Exists(j)' => Exists(j)
        BY <1>0 DEF Exists, domainVars, itemVars, editVars
      <4>2. run'["worker"] = run["worker"] \/ run'["worker"].op \notin {"create", "sync"}
        BY <1>2, <1>7 DEF Runners
      <4> QED BY <1>0, <1>4, <1>6, <3>2, <4>1, <4>2, ItemKept DEF historyVars, itemVars, editVars
    <3> QED BY <3>1, <3>2
  <2>2. \A q \in Requests, j \in Items : Applying(q, j)' => j \in inline'
    BY <1>0, <1>2, <1>4, InlineKept DEF historyVars
  <2> QED BY <2>1, <2>2 DEF Owing
<1>10. Backed'
  BY <1>0, <1>2, <1>4, ItemBacked DEF historyVars, itemVars, editVars
<1> QED BY <1>4, <1>5, <1>8, <1>9, <1>10 DEF MailInv, Advance, Kept

LEMMA StepDropRow ==
  ASSUME MailInv, NEW p \in Runners, DropRow(p)
  PROVE  MailInv'
<1>a. PICK own : own = run[p].task
  OBVIOUS
<1>b. PICK i : i = Target(p)
  OBVIOUS
<1>0. /\ RowType /\ TaskInv /\ run[p].op = "delete" /\ run[p].left = {}
      /\ row' = [j \in Items |->
           IF ~Exists(j) THEN row[j]
           ELSE IF j = i THEN "deleted"
           ELSE IF j \in Mailboxes \/ parent[j] # i THEN row[j]
           ELSE IF j \in run[p].listed THEN "deleted" ELSE "cascaded"]
      /\ End(p, "success")
      /\ UNCHANGED <<domainVars, version, mixed, editVars, hosted, queue, faults, historyVars>>
      /\ \A a \in Aliases : a \in unsent \/ parent[a] = BoxOf[a]
  BY <1>b DEF MailInv, DropRow, Backed, EditType
<1>1. /\ Advance(p, Idle) /\ Idle.op = "idle" /\ \A t : ~Fresh(t)
      /\ i \in Items /\ own \in DOMAIN tasks /\ tasks[own].op = "delete" /\ tasks[own].on = i
  BY <1>0, <1>a, <1>b, EndedRun DEF historyVars
<1>2. run'[p] = Idle /\ \A q \in Runners \ {p} : run'[q] = run[q]
  BY <1>0, <1>1, Bystanders
<1>3. \A j \in Items : j \notin Domains
  BY MailAssumption DEF MailAssumption, Items
<1>4. \A j \in Items :
        /\ row'[j] \in {row[j], "deleted", "cascaded"}
        /\ row[j] # "there" => row'[j] = row[j]
        /\ row'[j] = "deleted" => row[j] = "deleted" \/ (row[j] = "there" /\ j \in Deleting(p))
        /\ row'[j] = "there" => row[j] = "there" /\ (j \in unsent \/ ~Concerns(own, j))
  <2>1. ASSUME NEW j \in Items, row[j] # "there" PROVE row'[j] = row[j]
    BY <1>0, <1>3, <2>1 DEF Exists
  <2>2. ASSUME NEW j \in Items, row[j] = "there"
        PROVE  row'[j] = IF j = i THEN "deleted"
                         ELSE IF j \in Mailboxes \/ parent[j] # i THEN "there"
                         ELSE IF j \in run[p].listed THEN "deleted" ELSE "cascaded"
    <3>1. Exists(j)
      BY <1>3, <2>2 DEF Exists
    <3> QED BY <1>0, <2>2, <3>1
  <2>3. \A a \in Aliases : a \notin Mailboxes
    BY MailAssumption DEF MailAssumption
  <2> QED BY <1>0, <1>1, <1>b, <2>1, <2>2, <2>3 DEF Deleting, Concerns
<1>5. RowType'
  BY <1>0, <1>4 DEF RowType, domainVars, historyVars
<1>6. Deletions'
  <2>1. \A j \in Deleting(p) : row[j] # "none" /\ (j \in mixed \/ Away(j))
    BY <1>0, <1>a, InDeletion
  <2>2. \A j \in Items :
           /\ row[j] # "none" => row'[j] # "none"
           /\ row'[j] = "deleted" => row[j] = "deleted" \/ (row[j] # "none" /\ (j \in mixed' \/ Away(j)))
           /\ hosted'[j] = Absent \/ hosted[j] # Absent \/ (Coming(j) /\ ~Coming(j)')
    BY <1>0, <1>4, <2>1
  <2>3. \A q \in Runners : run'[q] = run[q] \/ RunDeletions(q)'
    BY <1>1, <1>2 DEF RunDeletions
  <2> QED BY <1>0, <1>1, <2>2, <2>3, DeletionsKept DEF itemVars, historyVars
<1>7. Owing'
  <2>1. ASSUME NEW j \in Items PROVE ItemOwing(j)'
    <3>1. Exists(j)' => Exists(j) /\ (j \in unsent \/ ~Concerns(own, j))
      BY <1>3, <1>4 DEF Exists
    <3>2. run'["worker"] = run["worker"] \/ run'["worker"].op \notin {"create", "sync"}
      BY <1>1, <1>2 DEF Runners
    <3> QED BY <1>0, <1>1, <1>a, <3>1, <3>2, ItemKept DEF historyVars
  <2>2. \A q \in Requests, j \in Items : Applying(q, j)' => j \in inline'
    BY <1>0, <1>1, InlineKept DEF historyVars
  <2> QED BY <2>1, <2>2 DEF Owing
<1>8. Backed'
  <2>1. \A j \in Items : row'[j] # "none" <=> row[j] # "none"
    BY <1>4
  <2> QED BY <1>0, <1>1, <2>1, ItemBacked DEF Items, historyVars
<1> QED BY <1>1, <1>5, <1>6, <1>7, <1>8 DEF MailInv, Advance, Kept

LEMMA StepCallFailed ==
  ASSUME MailInv, NEW p \in Runners, CallFailed(p)
  PROVE  MailInv'
<1>a. PICK own : own = run[p].task
  OBVIOUS
<1>b. PICK x : x = Target(p)
  OBVIOUS
<1>0. /\ RowType /\ TaskInv /\ run[p].op \in {"create", "sync", "delete"}
      /\ End(p, "failed")
      /\ UNCHANGED <<domainVars, itemVars, editVars, queue, historyVars>>
  BY DEF MailInv, CallFailed
<1>1. PICK i \in IF run[p].op = "delete" THEN NextDelete(p) ELSE {x} :
       \/ Refuses(run[p].op, i) /\ UNCHANGED <<hosted, faults>>
       \/ Fault /\ UNCHANGED hosted
       \/ /\ Accepts(run[p].op, i) /\ Fault
          /\ hosted' = Hosting(i, IF run[p].op = "delete" THEN Absent ELSE run[p].seen)
  BY <1>b DEF CallFailed
<1>2. /\ Advance(p, Idle) /\ Idle.op = "idle" /\ \A t : ~Fresh(t)
      /\ x \in Items /\ own \in DOMAIN tasks
      /\ tasks[own].op = run[p].op /\ tasks[own].on = x /\ tasks'[own].state = "failed"
  BY <1>0, <1>a, <1>b, EndedRun DEF historyVars
<1>3. i \in Items /\ (i \in unsent \/ Concerns(own, i))
  <2>1. CASE run[p].op = "delete"
    <3>1. i \in run[p].left
      BY <1>1, <2>1 DEF NextDelete
    <3> QED BY <1>a, <2>1, <3>1, InDeletion
  <2>2. CASE run[p].op # "delete"
    BY <1>1, <1>2, <2>2 DEF Concerns
  <2> QED BY <2>1, <2>2
<1>4. faults' \in 0..MaxFaults
  BY <1>0, <1>1, MailAssumption DEF MailAssumption, Fault, RowType
<1>5. /\ \A j \in Items : j # i => hosted'[j] = hosted[j]
      /\ hosted' \in [Items -> {Absent} \cup 0..MaxEdits]
      /\ \/ hosted' = hosted
         \/ hosted'[i] = Absent
         \/ run[p].op \in {"create", "sync"} /\ i = x /\ (run[p].op = "create" <=> hosted[i] = Absent)
  <2>1. run[p].op \in {"create", "sync"} => run[p].seen \in 0..MaxEdits
    BY <1>0, FrameKinds DEF FrameFits
  <2> QED BY <1>0, <1>1, <1>3, <2>1 DEF RowType, Hosting, Accepts
<1>6. RowType'
  BY <1>0, <1>4, <1>5 DEF RowType, domainVars, itemVars, editVars, historyVars
<1>7. run'[p] = Idle /\ \A q \in Runners \ {p} : run'[q] = run[q]
  BY <1>0, <1>2, Bystanders
<1>8. Deletions'
  <2>1. run[p].op = "create" => Coming(x) /\ ~Coming(x)'
    BY <1>0, <1>b, CreatedOnce DEF historyVars
  <2>2. ASSUME NEW j \in Items
        PROVE  hosted'[j] = Absent \/ hosted[j] # Absent \/ (Coming(j) /\ ~Coming(j)')
    BY <1>5, <2>1
  <2>3. \A j \in Items :
           /\ row[j] # "none" => row'[j] # "none"
           /\ row'[j] = "deleted" => row[j] = "deleted" \/ (row[j] # "none" /\ (j \in mixed' \/ Away(j)))
           /\ hosted'[j] = Absent \/ hosted[j] # Absent \/ (Coming(j) /\ ~Coming(j)')
    BY <1>0, <2>2 DEF itemVars, editVars
  <2>4. \A q \in Runners : run'[q] = run[q] \/ RunDeletions(q)'
    BY <1>2, <1>7 DEF RunDeletions
  <2> QED BY <1>0, <1>2, <2>3, <2>4, DeletionsKept DEF itemVars, historyVars
<1>9. Owing'
  <2>1. ASSUME NEW j \in Items PROVE ItemOwing(j)'
    <3>1. CASE j = i
      <4>1. CASE i \in unsent
        BY <1>0, <3>1, <4>1 DEF ItemOwing, historyVars
      <4>2. CASE Concerns(own, i)
        BY <1>2, <1>3, <1>a, <3>1, <4>2, OwnTaskOwed
      <4> QED BY <1>3, <4>1, <4>2
    <3>2. CASE j # i
      <4>1. Exists(j)' => Exists(j)
        BY <1>0 DEF Exists, domainVars, itemVars, editVars
      <4>2. run'["worker"] = run["worker"] \/ run'["worker"].op \notin {"create", "sync"}
        BY <1>2, <1>7 DEF Runners
      <4> QED BY <1>0, <1>2, <1>5, <1>a, <3>2, <4>1, <4>2, ItemKept DEF historyVars, itemVars, editVars
    <3> QED BY <3>1, <3>2
  <2>2. \A q \in Requests, j \in Items : Applying(q, j)' => j \in inline'
    BY <1>0, <1>2, InlineKept DEF historyVars
  <2> QED BY <2>1, <2>2 DEF Owing
<1>10. Backed'
  BY <1>0, <1>2, ItemBacked DEF historyVars, itemVars, editVars
<1> QED BY <1>2, <1>6, <1>8, <1>9, <1>10 DEF MailInv, Advance, Kept

-----------------------------------------------------------------------------
(* The invariant, and what it says to a reader.                            *)

LEMMA InitInv == Init => MailInv
<1> SUFFICES ASSUME Init PROVE MailInv
  OBVIOUS
<1>1. /\ tasks = <<>> /\ queue = <<>> /\ DOMAIN tasks = {} /\ DOMAIN queue = {}
      /\ \A p \in Runners : run[p] = Idle
  BY DEF Init
<1>2. RowType
  BY MailAssumption DEF MailAssumption, Init, RowType, Absent
<1>3. TaskInv
  <2>1. PlaceType
    BY <1>1, FrameTypes DEF Init, PlaceType, Idle
  <2> QED BY <1>1, <2>1 DEF TaskInv, Frames, FrameFits, Once, Open, Idle
<1>4. Backed
  <2>1. EditType
    BY MailAssumption
       DEF MailAssumption, Init, EditType, Items, NoEdit, Snapshot, Status
  <2>2. \A e \in Edits : EditBacked(e)
    BY MailAssumption DEF MailAssumption, Init, EditBacked, NoEdit, Items
  <2> QED BY <2>1, <2>2 DEF Init, Backed, ActiveIsBacked, Items, Idle
<1>5. Deletions
  BY <1>1 DEF Init, Deletions, ItemDeletions, RunDeletions, Coming, Creates, Idle
<1>6. Owing
  <2>1. \A i \in Items : i \notin Domains
    BY MailAssumption DEF MailAssumption, Items
  <2>2. \A i \in Items : ~Exists(i)
    BY <2>1 DEF Init, Exists
  <2> QED BY <1>1, <2>2 DEF Owing, ItemOwing, Applying, Idle, Runners
<1> QED BY <1>2, <1>3, <1>4, <1>5, <1>6 DEF MailInv

LEMMA NextInv ==
  ASSUME MailInv, Next
  PROVE  MailInv'
<1>1. ASSUME NEW r \in Requests, Request(r) PROVE MailInv'
  <2>1. ASSUME NEW d \in Domains, CreateDomain(r, d) \/ RequestVerification(r, d) PROVE MailInv'
    BY <2>1, StepCreateDomain, StepRequestVerification
  <2>2. ASSUME NEW i \in Items, Save(r, i) \/ StartDelete(r, i) PROVE MailInv'
    BY <2>2, StepSave, StepStartDelete
  <2> QED BY <1>1, <2>1, <2>2, StepReadActive, StepCreateAlias DEF Request
<1>2. ASSUME NEW p \in Runners, Step(p) PROVE MailInv'
  BY <1>2, StepDispatch, StepProvisioned, StepProvisionedOnly, StepNotReady, StepMarkVerified,
     StepActivate, StepDomainVanished, StepInsertMailbox, StepRequestSync, StepApplied,
     StepDeleteAtProvider, StepDropRow, StepCallFailed, StepRunInline, StepDomainFailed DEF Step
<1>3. ASSUME NEW e \in Edits,
             (\E x \in Domains \cup Items : ReadToEdit(e, x)) \/ SaveDomain(e) \/ SaveItem(e)
      PROVE  MailInv'
  BY <1>3, StepReadToEdit, StepSaveDomain, StepSaveItem
<1> QED BY <1>1, <1>2, <1>3, StepKill, StepTake, StepDestroyDomain DEF Next

LEMMA StutterInv ==
  ASSUME MailInv, UNCHANGED vars
  PROVE  MailInv'
<1>1. /\ domain' = domain /\ stamped' = stamped /\ mapping' = mapping /\ row' = row
      /\ version' = version /\ hosted' = hosted /\ tasks' = tasks /\ queue' = queue
      /\ run' = run /\ faults' = faults /\ ready' = ready /\ unsent' = unsent
      /\ inline' = inline /\ killed' = killed /\ mixed' = mixed /\ parent' = parent
      /\ edit' = edit /\ renamed' = renamed /\ restored' = restored
  BY DEF vars, domainVars, itemVars, editVars, historyVars
<1>2. RowType' /\ TaskInv'
  BY <1>1 DEF MailInv, RowType, TaskInv, PlaceType, Frames, FrameFits, Once, Open, Held
<1>3. Backed' /\ Deletions'
  BY <1>1 DEF MailInv, Backed, ActiveIsBacked, EditType, EditBacked, Mapped, Target, Deletions, ItemDeletions,
              RunDeletions, Away, Coming, Creates, Held, Deleting
<1>4. Owing'
  BY <1>1 DEF MailInv, Owing, ItemOwing, Exists, Applying, Target, Owed, OwedElse, Concerns
<1> QED BY <1>2, <1>3, <1>4 DEF MailInv

THEOREM MailInvariant == Spec => []MailInv
<1>1. MailInv /\ [Next]_vars => MailInv'
  BY NextInv, StutterInv
<1> QED BY <1>1, InitInv, PTL DEF Spec

\* Every variable keeps its type, and a task id in the queue or in the hands of
\* a process names a task row (EmailProvisioningTask).
THEOREM MailTyping == Spec => []MailTypeOK
<1>1. MailInv => MailTypeOK
  BY TypeSplits DEF MailInv, TaskInv, Backed
<1> QED BY <1>1, MailInvariant, PTL

\* A mailbox or alias all of whose tasks succeeded has at the provider the
\* settings of its row (sync_mailbox, sync_alias), unless it was saved without
\* a task, ran beside the worker or shares its address with another.
THEOREM ProviderInStep == Spec => []InStep
<1>1. MailInv => InStep
  BY DEF MailInv, Owing, ItemOwing, Owed, Concerns, InStep
<1> QED BY <1>1, MailInvariant, PTL

\* What was deleted through its own endpoint is gone from the provider and does
\* not come back (delete_mailbox, delete_alias), unless its address is another
\* row's, too.
THEOREM DeletedForGood == Spec => []DeletedIsGone
<1>1. MailInv => DeletedIsGone
  BY DEF MailInv, Deletions, ItemDeletions, Away, DeletedIsGone
<1> QED BY <1>1, MailInvariant, PTL

\* An active email domain has its verification time and, under the name it was
\* created with, an active mapping, whatever stale rows PATCH saves; no mailbox
\* was ever created in a domain never found ready (verify_email_domain,
\* create_mailbox).
THEOREM ActiveBacked == Spec => []ActiveIsBacked
<1>1. MailInv => ActiveIsBacked
  BY DEF MailInv, Backed
<1> QED BY <1>1, MailInvariant, PTL
=============================================================================
