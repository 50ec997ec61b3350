----------------------------- MODULE MailHosting -----------------------------
(***************************************************************************)
(* Email domains, mailboxes and aliases (email_hosting/services.py), the   *)
(* tasks that bring them to the mail provider, and the rows the domains    *)
(* app keeps for the same names (domains/services.py).                     *)
(*                                                                         *)
(* A web request commits rows and a task row, then hands the task to the   *)
(* Celery worker; when the broker does not take it, the request runs the   *)
(* task itself.  The worker is one process with a solo pool, takes tasks   *)
(* in order and acknowledges them before it runs them.  A run reads its    *)
(* row first and calls the provider with what it read: other processes act *)
(* in between.  PUT and PATCH read a row and later save all of it.         *)
(*                                                                         *)
(* The provider knows mailboxes and aliases by address.  What it holds is  *)
(* followed for a row as long as no other row has or had its address and   *)
(* no PATCH has changed it; the others are "mixed", and their calls may be *)
(* taken or refused.                                                       *)
(***************************************************************************)
EXTENDS Integers, Sequences, FiniteSets

CONSTANTS Domains,    \* EmailDomain rows
          Mailboxes,  \* Mailbox rows
          Aliases,    \* MailAlias rows
          DomainOf,   \* the domain each mailbox is created in
          BoxOf,      \* the destination each alias is created with
          Requests,   \* web processes
          Edits,      \* PUT and PATCH requests
          None,       \* no task
          MaxTasks,   \* bound: no request but a deletion begins once there are so many task rows
          MaxEdits,   \* bound: changes of one mailbox or alias
          MaxFaults   \* bound: provider failures, broker outages, processes killed

ASSUME MailAssumption ==
  /\ DomainOf \in [Mailboxes -> Domains]
  /\ BoxOf \in [Aliases -> Mailboxes]
  /\ Mailboxes \cap Aliases = {}
  /\ Domains \cap (Mailboxes \cup Aliases) = {}
  /\ "worker" \notin Requests
  /\ None \notin Nat \cup Domains \cup Mailboxes \cup Aliases
  /\ MaxTasks \in Nat /\ MaxEdits \in Nat /\ MaxFaults \in Nat

Items   == Mailboxes \cup Aliases
Runners == Requests \cup {"worker"}

VARIABLES
  domain,     \* EmailDomain.status, "none" before the row, "gone" after it
  stamped,    \* domains whose verified_at is set
  mapping,    \* DomainMapping.status of the name and site the domain was created with
  row,        \* whether each mailbox and alias has its row
  parent,     \* Mailbox.domain and MailAlias.destination_mailbox
  version,    \* the settings in the row: how often they were changed
  hosted,     \* the version the provider has, or Absent
  tasks,      \* the EmailProvisioningTask rows, in the order of creation
  queue,      \* tasks the broker holds
  run,        \* what each process is doing
  edit,       \* what each PUT or PATCH has read
  faults,     \* bounded counter
  ready,      \* history: domains whose DNS a verification found ready
  renamed,    \* history: domains whose name or site a PATCH has changed
  mixed,      \* history: items whose address changed, or is or was another's, too
  restored,   \* history: rows saved again after they were deleted
  unsent,     \* history: items saved without a task
  inline,     \* history: items whose task a request ran itself
  killed      \* history: tasks whose process was killed

domainVars  == <<domain, stamped, mapping>>
itemVars    == <<row, version, mixed>>
editVars    == <<parent, edit, renamed, restored>>
historyVars == <<ready, unsent, inline, killed>>
vars == <<domainVars, itemVars, editVars, hosted, tasks, queue, run, faults, historyVars>>

Absent == -1

\* A process: the step it is at, its task, what it read, the items it has to
\* delete and those it listed, the provisioning task it verifies inside of.
Idle == [op |-> "idle", task |-> None, seen |-> 0, left |-> {}, listed |-> {}, outer |-> None]

\* A PUT or PATCH: the row it has read and, of a domain, its status and
\* verified_at; it is answered once.
NoEdit   == [on |-> None, status |-> "none", stamped |-> FALSE]
Answered == [NoEdit EXCEPT !.status = "answered"]

Init ==
  /\ domain = [d \in Domains |-> "none"]
  /\ stamped = {}
  /\ mapping \in [Domains -> {"none", "active"}]
  /\ row = [i \in Items |-> "none"]
  /\ parent = [i \in Items |-> IF i \in Mailboxes THEN DomainOf[i] ELSE BoxOf[i]]
  /\ version = [i \in Items |-> 0]
  /\ hosted = [i \in Items |-> Absent]
  /\ tasks = <<>>
  /\ queue = <<>>
  /\ run = [p \in Runners |-> Idle]
  /\ edit = [e \in Edits |-> NoEdit]
  /\ faults = 0
  /\ ready = {} /\ unsent = {} /\ inline = {} /\ killed = {}
  /\ renamed = {} /\ mixed = {} /\ restored = {}

Exists(x) == IF x \in Domains THEN domain[x] \notin {"none", "gone"} ELSE row[x] = "there"

Target(p) == tasks[run[p].task].on

\* The domains with the name and site a run for d has read: d itself unless
\* a PATCH has changed them, others perhaps if it has.
Named(d) == IF d \in renamed THEN SUBSET {e \in Domains \ renamed : mapping[e] # "none"} ELSE {{d}}

\* The items with which i may come to share an address when it gets one in
\* this domain or for this destination: those that are gone, that changed
\* theirs, or that have another destination or, one of them renamed, another
\* domain (unique_together).
Sharers(i, in) ==
  {j \in (IF i \in Mailboxes THEN Mailboxes ELSE Aliases) \ {i} :
     /\ row[j] # "none"
     /\ Exists(j) /\ j \notin mixed =>
          parent[j] # in /\ (i \in Mailboxes => {in, parent[j]} \cap renamed # {})}

\* i gets an address that those in shared have or had.
Mixed(i, shared) == IF shared = {} THEN {} ELSE {i} \cup shared

\* The provider has v for i, or nothing; mixed items are not followed.
Hosting(i, v) == IF i \in mixed THEN hosted ELSE [hosted EXCEPT ![i] = v]

\* A request may begin.
Free(r) == run[r].op = "idle" /\ Len(tasks) < MaxTasks

\* _create_task, and the process that will hand the task over.
Queueing(p, op, x) ==
  /\ tasks' = Append(tasks, [op |-> op, on |-> x, state |-> "pending"])
  /\ run' = [run EXCEPT ![p] = [Idle EXCEPT !.op = "dispatch", !.task = Len(tasks) + 1]]

\* _set_task_success or _set_task_failed is the last thing a run does.
End(p, state) ==
  /\ tasks' = [tasks EXCEPT ![run[p].task].state = state]
  /\ run' = [run EXCEPT ![p] = Idle]

Fault == faults < MaxFaults /\ faults' = faults + 1

-----------------------------------------------------------------------------
(* Handing tasks over.                                                      *)

(* Mutant: a task carries the row as it was when the row was created. *)
Begin_Unread(p, t, outer) ==
  LET x  == tasks[t].on
      op == tasks[t].op IN
  IF ~Exists(x)
  THEN run' = [run EXCEPT ![p] = Idle] /\ UNCHANGED <<tasks, domain>>
  ELSE /\ tasks' = [tasks EXCEPT ![t].state = "running"]
       /\ domain' = IF op = "verify" THEN [domain EXCEPT ![x] = "verifying"] ELSE domain
       /\ run' = [run EXCEPT ![p] = [Idle EXCEPT !.op = op, !.task = t, !.outer = outer]]

\* What a run does before its try block: it reads the row, marks the task
\* running and, to verify, the domain "verifying".  Without a row it raises
\* and the task stays as it is.
Begin(p, t, outer) ==
  LET x  == tasks[t].on
      op == tasks[t].op IN
  IF ~Exists(x)
  THEN run' = [run EXCEPT ![p] = Idle] /\ UNCHANGED <<tasks, domain>>
  ELSE /\ tasks' = [tasks EXCEPT ![t].state = "running"]
       /\ domain' = IF op = "verify" THEN [domain EXCEPT ![x] = "verifying"] ELSE domain
       /\ run' = [run EXCEPT ![p] = [Idle EXCEPT
            !.op = op, !.task = t, !.outer = outer,
            !.seen = IF x \in Items THEN version[x] ELSE IF x \in stamped THEN 1 ELSE 0]]

\* _queue_task: the broker takes the task.
Dispatch(p) ==
  /\ run[p].op = "dispatch"
  /\ queue' = Append(queue, run[p].task)
  /\ run' = [run EXCEPT ![p] = Idle]
  /\ UNCHANGED <<domainVars, itemVars, editVars, hosted, tasks, faults, historyVars>>

\* The broker is down, or the caller of MailboxCreateView does not want the
\* task queued.
NotQueued(t) == Fault \/ (tasks[t].op = "create" /\ tasks[t].on \in Mailboxes /\ UNCHANGED faults)

(* Mutant: nobody runs a task the broker did not take. *)
RunInline_Dropped(p) ==
  /\ run[p].op = "dispatch" /\ NotQueued(run[p].task)
  /\ run' = [run EXCEPT ![p] = Idle]
  /\ UNCHANGED <<domainVars, itemVars, editVars, hosted, tasks, queue, historyVars>>

\* The process that would queue the task runs it.
RunInline(p) ==
  /\ run[p].op = "dispatch" /\ NotQueued(run[p].task)
  /\ Begin(p, run[p].task, run[p].outer)
  /\ inline' = inline \cup ({Target(p)} \cap Items)
  /\ UNCHANGED <<stamped, mapping, itemVars, editVars, hosted, queue, ready, unsent, killed>>

\* The worker takes the next task.
Take ==
  /\ run["worker"].op = "idle" /\ queue # <<>>
  /\ queue' = Tail(queue)
  /\ Begin("worker", Head(queue), None)
  /\ UNCHANGED <<stamped, mapping, itemVars, editVars, hosted, faults, historyVars>>

\* A process is killed.  What it had read and not written is lost; the task,
\* acknowledged when it was taken, is not run again.
Kill(p) ==
  /\ run[p].op # "idle" /\ Fault
  /\ killed' = killed \cup ({run[p].task} \ {None})
  /\ unsent' = IF run[p].op = "saved" THEN unsent \cup run[p].left ELSE unsent
  /\ run' = [run EXCEPT ![p] = Idle]
  /\ UNCHANGED <<domainVars, itemVars, editVars, hosted, tasks, queue, ready, inline>>

-----------------------------------------------------------------------------
(* Domains.                                                                 *)

\* ensure_domain_portfolio_entry.
EnsurePortfolio(d) ==
  mapping' = [mapping EXCEPT ![d] = IF @ = "none" /\ d \notin renamed THEN "pending" ELSE @]

\* create_email_domain: rows and task commit together.
CreateDomain(r, d) ==
  /\ Free(r) /\ domain[d] = "none"
  /\ domain' = [domain EXCEPT ![d] = "pending"]
  /\ EnsurePortfolio(d)
  /\ Queueing(r, "provision", d)
  /\ UNCHANGED <<stamped, itemVars, editVars, hosted, queue, faults, historyVars>>

\* queue_domain_verification, from the verify endpoint.
RequestVerification(r, d) ==
  /\ Free(r) /\ Exists(d)
  /\ Queueing(r, "verify", d)
  /\ UNCHANGED <<domainVars, itemVars, editVars, hosted, queue, faults, historyVars>>

\* provision_email_domain, the provider has accepted: the status starts over
\* whatever it is, and a verification is queued.
Provisioned(p) ==
  LET d == Target(p) IN
  /\ run[p].op = "provision" /\ Exists(d)
  /\ domain' = [domain EXCEPT ![d] = "pending"]
  /\ EnsurePortfolio(d)
  /\ tasks' = Append([tasks EXCEPT ![run[p].task].state = "success"],
                     [op |-> "verify", on |-> d, state |-> "pending"])
  /\ run' = [run EXCEPT ![p] = [Idle EXCEPT !.op = "dispatch", !.task = Len(tasks) + 1,
                                            !.outer = run[p].task]]
  /\ UNCHANGED <<stamped, itemVars, editVars, hosted, queue, faults, historyVars>>

\* The same in a request that asked for no verification (queue_verification).
ProvisionedOnly(r) ==
  LET d == Target(r) IN
  /\ run[r].op = "provision" /\ r \in Requests /\ Exists(d)
  /\ domain' = [domain EXCEPT ![d] = "pending"]
  /\ EnsurePortfolio(d)
  /\ End(r, "success")
  /\ UNCHANGED <<stamped, itemVars, editVars, hosted, queue, faults, historyVars>>

\* The provider or the DNS check raised; so does the domains app when another
\* site has the name a PATCH gave the domain.  A verification run inside of a
\* provisioning fails that one too.
DomainFailed(p) ==
  /\ run[p].op \in {"provision", "verify"} /\ Exists(Target(p))
  /\ Fault \/ (run[p].op = "provision" /\ Target(p) \in renamed /\ UNCHANGED faults)
  /\ domain' = [domain EXCEPT ![Target(p)] = "failed"]
  /\ tasks' = [t \in DOMAIN tasks |->
       IF t \in {run[p].task, run[p].outer} THEN [tasks[t] EXCEPT !.state = "failed"] ELSE tasks[t]]
  /\ run' = [run EXCEPT ![p] = Idle]
  /\ UNCHANGED <<stamped, mapping, itemVars, editVars, hosted, queue, historyVars>>

\* verify_email_domain, DNS not ready: verified_at is written back as it was
\* when the run read the row.
NotReady(p) ==
  LET d == Target(p) IN
  /\ run[p].op = "verify" /\ Exists(d)
  /\ domain' = [domain EXCEPT ![d] = "pending"]
  /\ stamped' = IF run[p].seen = 1 THEN stamped \cup {d} ELSE stamped \ {d}
  /\ End(p, "success")
  /\ UNCHANGED <<mapping, itemVars, editVars, hosted, queue, faults, historyVars>>

\* DNS ready: mark_domain_verified_for_email updates the domains app's rows
\* of the name the run has read, before the email domain itself is saved.
MarkVerified(p) ==
  LET d == Target(p) IN
  /\ run[p].op = "verify"
  /\ \E named \in Named(d) :
       mapping' = [e \in Domains |-> IF e \in named THEN "active" ELSE mapping[e]]
  /\ ready' = ready \cup {d}
  /\ run' = [run EXCEPT ![p].op = "activate"]
  /\ UNCHANGED <<domain, stamped, itemVars, editVars, hosted, tasks, queue, faults, unsent, inline, killed>>

(* Mutant: the email domain gets the status of the domains app. *)
Activate_Verified(p) ==
  LET d == Target(p) IN
  /\ run[p].op = "activate" /\ Exists(d)
  /\ domain' = [domain EXCEPT ![d] = "verified"]
  /\ stamped' = stamped \cup {d}
  /\ End(p, "success")
  /\ UNCHANGED <<mapping, itemVars, editVars, hosted, queue, faults, historyVars>>

Activate(p) ==
  LET d == Target(p) IN
  /\ run[p].op = "activate" /\ Exists(d)
  /\ domain' = [domain EXCEPT ![d] = "active"]
  /\ stamped' = stamped \cup {d}
  /\ End(p, "success")
  /\ UNCHANGED <<mapping, itemVars, editVars, hosted, queue, faults, historyVars>>

\* The row was deleted meanwhile: save(update_fields=...) raises, so does the
\* one in the except clause, and the task is never closed.
DomainVanished(p) ==
  /\ run[p].op \in {"provision", "verify", "activate"} /\ ~Exists(Target(p))
  /\ run' = [run EXCEPT ![p] = Idle]
  /\ UNCHANGED <<domainVars, itemVars, editVars, hosted, tasks, queue, faults, historyVars>>

\* DELETE on the domain: the rows cascade, the provider is not told.
DestroyDomain(d) ==
  /\ Exists(d)
  /\ domain' = [domain EXCEPT ![d] = "gone"]
  /\ stamped' = stamped \ {d}
  /\ row' = [i \in Items |->
       LET m == IF i \in Mailboxes THEN i ELSE parent[i] IN
       IF parent[m] = d /\ Exists(i) THEN "cascaded" ELSE row[i]]
  /\ UNCHANGED <<mapping, version, mixed, editVars, hosted, tasks, queue, run, faults, historyVars>>

-----------------------------------------------------------------------------
(* Mailboxes and aliases.                                                   *)

(* Mutant: the status of the domain is not looked at. *)
ReadActive_Any(r, m) ==
  /\ Free(r) /\ row[m] = "none"
  /\ Exists(DomainOf[m])
  /\ run' = [run EXCEPT ![r] = [Idle EXCEPT !.op = "insert", !.left = {m}]]
  /\ UNCHANGED <<domainVars, itemVars, editVars, hosted, tasks, queue, faults, historyVars>>

\* create_mailbox, up to the transaction: the domain the view read is active.
ReadActive(r, m) ==
  /\ Free(r) /\ row[m] = "none"
  /\ domain[DomainOf[m]] = "active"
  /\ run' = [run EXCEPT ![r] = [Idle EXCEPT !.op = "insert", !.left = {m}]]
  /\ UNCHANGED <<domainVars, itemVars, editVars, hosted, tasks, queue, faults, historyVars>>

\* The transaction: it fails when the address was taken or the domain deleted.
InsertMailbox(r) ==
  /\ run[r].op = "insert"
  /\ \E m \in run[r].left :
       IF row[m] = "none" /\ Exists(DomainOf[m])
       THEN /\ row' = [row EXCEPT ![m] = "there"]
            /\ \E shared \in SUBSET Sharers(m, DomainOf[m]) : mixed' = mixed \cup Mixed(m, shared)
            /\ Queueing(r, "create", m)
       ELSE run' = [run EXCEPT ![r] = Idle] /\ UNCHANGED <<row, mixed, tasks>>
  /\ UNCHANGED <<domainVars, version, editVars, hosted, queue, faults, historyVars>>

\* create_alias: the status of the domain is not looked at, nor whether other
\* destinations have the address.
CreateAlias(r, a) ==
  /\ Free(r) /\ row[a] = "none" /\ Exists(BoxOf[a])
  /\ row' = [row EXCEPT ![a] = "there"]
  /\ \E shared \in SUBSET Sharers(a, BoxOf[a]) : mixed' = mixed \cup Mixed(a, shared)
  /\ Queueing(r, "create", a)
  /\ UNCHANGED <<domainVars, version, editVars, hosted, queue, faults, historyVars>>

\* update_mailbox_password, set_mailbox_active and set_alias_active save ...
Save(r, i) ==
  /\ Free(r) /\ Exists(i) /\ version[i] < MaxEdits
  /\ version' = [version EXCEPT ![i] = @ + 1]
  /\ run' = [run EXCEPT ![r] = [Idle EXCEPT !.op = "saved", !.left = {i}]]
  /\ UNCHANGED <<domainVars, row, mixed, editVars, hosted, tasks, queue, faults, historyVars>>

\* ... and then create their task.
RequestSync(r) ==
  /\ run[r].op = "saved"
  /\ \E i \in run[r].left : Queueing(r, "sync", i)
  /\ UNCHANGED <<domainVars, itemVars, editVars, hosted, queue, faults, historyVars>>

\* What a provider does with a call: it creates what it does not have, changes
\* and deletes what it has.
Accepts(op, i) == i \in mixed \/ ((op = "create") <=> (hosted[i] = Absent))
Refuses(op, i) == i \in mixed \/ ~Accepts(op, i)

\* provision_mailbox, sync_mailbox, provision_alias, sync_alias.
Applied(p) ==
  LET i == Target(p) IN
  /\ run[p].op \in {"create", "sync"} /\ Accepts(run[p].op, i)
  /\ hosted' = Hosting(i, run[p].seen)
  /\ End(p, "success")
  /\ UNCHANGED <<domainVars, itemVars, editVars, queue, faults, historyVars>>

\* delete_mailbox and delete_alias run in the request.  A mailbox lists its
\* aliases; they are deleted at the provider before it.
StartDelete(r, i) ==
  LET listed == {a \in Aliases : i \in Mailboxes /\ parent[a] = i /\ Exists(a)} IN
  /\ run[r].op = "idle" /\ Len(tasks) <= MaxTasks /\ Exists(i)
  /\ tasks' = Append(tasks, [op |-> "delete", on |-> i, state |-> "running"])
  /\ run' = [run EXCEPT ![r] = [Idle EXCEPT !.op = "delete", !.task = Len(tasks) + 1,
                                            !.left = {i} \cup listed, !.listed = listed]]
  /\ UNCHANGED <<domainVars, itemVars, editVars, hosted, queue, faults, historyVars>>

\* The next item a deletion asks the provider to delete.
NextDelete(p) == {i \in run[p].left : i = Target(p) => run[p].left = {i}}

(* Mutant: what the provider does not have counts as deleted. *)
DeleteAtProvider_Absent(p) ==
  /\ run[p].op = "delete"
  /\ \E i \in NextDelete(p) :
       /\ hosted' = Hosting(i, Absent)
       /\ run' = [run EXCEPT ![p].left = @ \ {i}]
  /\ UNCHANGED <<domainVars, itemVars, editVars, tasks, queue, faults, historyVars>>

DeleteAtProvider(p) ==
  /\ run[p].op = "delete"
  /\ \E i \in NextDelete(p) :
       /\ Accepts("delete", i)
       /\ hosted' = Hosting(i, Absent)
       /\ run' = [run EXCEPT ![p].left = @ \ {i}]
  /\ UNCHANGED <<domainVars, itemVars, editVars, tasks, queue, faults, historyVars>>

\* The row goes, and with a mailbox every alias that points to it then.
DropRow(p) ==
  LET i == Target(p) IN
  /\ run[p].op = "delete" /\ run[p].left = {}
  /\ row' = [j \in Items |->
       IF ~Exists(j) THEN row[j]
       ELSE IF j = i THEN "deleted"
       ELSE IF j \in Mailboxes \/ parent[j] # i THEN row[j]
       ELSE IF j \in run[p].listed THEN "deleted" ELSE "cascaded"]
  /\ End(p, "success")
  /\ UNCHANGED <<domainVars, version, mixed, editVars, hosted, queue, faults, historyVars>>

\* The provider refuses, or fails, or acts and its answer is lost.
CallFailed(p) ==
  /\ run[p].op \in {"create", "sync", "delete"}
  /\ \E i \in IF run[p].op = "delete" THEN NextDelete(p) ELSE {Target(p)} :
       \/ Refuses(run[p].op, i) /\ UNCHANGED <<hosted, faults>>
       \/ Fault /\ UNCHANGED hosted
       \/ /\ Accepts(run[p].op, i) /\ Fault
          /\ hosted' = Hosting(i, IF run[p].op = "delete" THEN Absent ELSE run[p].seen)
  /\ End(p, "failed")
  /\ UNCHANGED <<domainVars, itemVars, editVars, queue, historyVars>>

-----------------------------------------------------------------------------
(* PUT and PATCH of the viewsets: the row is read, and later all of it is   *)
(* saved, which inserts it again when it was deleted; no task is created.   *)

ReadToEdit(e, x) ==
  /\ edit[e] = NoEdit /\ Exists(x)
  /\ edit' = [edit EXCEPT ![e] =
       IF x \in Domains THEN [on |-> x, status |-> domain[x], stamped |-> x \in stamped]
                        ELSE [NoEdit EXCEPT !.on = x]]
  /\ UNCHANGED <<domainVars, itemVars, parent, renamed, restored, hosted, tasks, queue, run, faults, historyVars>>

\* A save puts x there again if it was deleted.
Restore(x) == restored' = IF Exists(x) THEN restored ELSE restored \cup {x}

\* A domain: status and verified_at are written back as they were read.  With
\* another name or site (or back to the ones it had) it has another mapping,
\* which is not followed, its mailboxes other addresses and its aliases other
\* destinations.
SaveDomain(e) ==
  LET d     == edit[e].on
      boxes == {m \in Mailboxes : parent[m] = d /\ row[m] # "none"}
  IN
  /\ d \in Domains
  /\ edit' = [edit EXCEPT ![e] = Answered]
  /\ domain' = [domain EXCEPT ![d] = edit[e].status]
  /\ stamped' = IF edit[e].stamped THEN stamped \cup {d} ELSE stamped \ {d}
  /\ Restore(d)
  /\ \/ d \notin renamed /\ UNCHANGED <<renamed, mixed, unsent>>
     \/ /\ renamed' = renamed \cup {d}
        /\ \E shared \in SUBSET {m \in Mailboxes : row[m] # "none"} : mixed' = mixed \cup boxes \cup shared
        /\ unsent' = unsent \cup boxes \cup {a \in Aliases : parent[a] \in boxes /\ row[a] # "none"}
  /\ UNCHANGED <<mapping, row, version, parent, hosted, tasks, queue, run, faults, ready, inline, killed>>

\* A mailbox or alias: the address may change, and what the row points to.
\* The aliases of a mailbox with another address have another destination.
SaveItem(e) ==
  LET i == edit[e].on IN
  /\ i \in Items /\ version[i] < MaxEdits
  /\ edit' = [edit EXCEPT ![e] = Answered]
  /\ row' = [row EXCEPT ![i] = "there"]
  /\ version' = [version EXCEPT ![i] = @ + 1]
  /\ Restore(i)
  /\ \E in \in (IF i \in Mailboxes THEN Domains ELSE Mailboxes) :
       /\ Exists(in)
       /\ parent' = [parent EXCEPT ![i] = in]
       /\ \/ (i \in Mailboxes => in = parent[i]) /\ UNCHANGED mixed /\ unsent' = unsent \cup {i}
          \/ /\ \E shared \in SUBSET Sharers(i, in) : mixed' = mixed \cup {i} \cup shared
             /\ unsent' = unsent \cup {i} \cup {a \in Aliases : parent[a] = i /\ row[a] # "none"}
  /\ UNCHANGED <<domainVars, renamed, hosted, tasks, queue, run, faults, ready, inline, killed>>

-----------------------------------------------------------------------------
\* What a process does on its own once it has begun.
Step(p) ==
  \/ Dispatch(p) \/ Provisioned(p) \/ ProvisionedOnly(p) \/ NotReady(p) \/ MarkVerified(p)
  \/ Activate(p) \/ DomainVanished(p) \/ InsertMailbox(p) \/ RequestSync(p) \/ Applied(p)
  \/ DeleteAtProvider(p) \/ DropRow(p) \/ CallFailed(p) \/ RunInline(p) \/ DomainFailed(p)

Request(r) ==
  \/ \E d \in Domains : CreateDomain(r, d) \/ RequestVerification(r, d)
  \/ \E m \in Mailboxes : ReadActive(r, m)
  \/ \E a \in Aliases : CreateAlias(r, a)
  \/ \E i \in Items : Save(r, i) \/ StartDelete(r, i)

Next ==
  \/ \E r \in Requests : Request(r)
  \/ \E p \in Runners : Step(p) \/ Kill(p)
  \/ Take
  \/ \E d \in Domains : DestroyDomain(d)
  \/ \E e \in Edits :
       (\E x \in Domains \cup Items : ReadToEdit(e, x)) \/ SaveDomain(e) \/ SaveItem(e)

\* Processes that are not killed go on, and the worker takes what is queued.
Fairness == WF_vars(Take) /\ \A p \in Runners : WF_vars(Step(p))

Spec == Init /\ [][Next]_vars /\ Fairness

-----------------------------------------------------------------------------
(* Properties.                                                              *)

TaskRow == [op : {"provision", "verify", "create", "sync", "delete"}, on : Domains \cup Items,
            state : {"pending", "running", "success", "failed"}]

Frame == [op : {"idle", "dispatch", "insert", "saved", "activate"} \cup
               {"provision", "verify", "create", "sync", "delete"},
          task : Nat \cup {None}, seen : Nat, left : SUBSET Items, listed : SUBSET Aliases,
          outer : Nat \cup {None}]

Status == {"pending", "verifying", "active", "failed"}

Snapshot == [on : Domains \cup Items \cup {None}, status : Status \cup {"none", "answered"}, stamped : BOOLEAN]

\* Every variable keeps its type, and a task id names a task row.
MailTypeOK ==
  /\ domain \in [Domains -> Status \cup {"none", "gone"}]
  /\ stamped \subseteq Domains
  /\ mapping \in [Domains -> {"none", "pending", "active"}]
  /\ row \in [Items -> {"none", "there", "deleted", "cascaded"}]
  /\ parent \in [Items -> Domains \cup Mailboxes]
  /\ \A i \in Items : parent[i] \in Domains <=> i \in Mailboxes
  /\ version \in [Items -> 0..MaxEdits]
  /\ hosted \in [Items -> {Absent} \cup 0..MaxEdits]
  /\ tasks \in Seq(TaskRow)
  /\ queue \in Seq(DOMAIN tasks)
  /\ run \in [Runners -> Frame]
  /\ \A p \in Runners : run[p].task \in DOMAIN tasks \cup {None}
  /\ edit \in [Edits -> Snapshot]
  /\ \A e \in Edits : edit[e].on \in Domains <=> edit[e].status \in Status
  /\ faults \in 0..MaxFaults
  /\ ready \subseteq Domains /\ renamed \subseteq Domains
  /\ unsent \subseteq Items /\ mixed \subseteq Items /\ restored \subseteq Domains \cup Items
  /\ inline \subseteq Items /\ killed \subseteq DOMAIN tasks

\* A mailbox or alias all of whose tasks succeeded has at the provider the
\* settings of its row: every change is saved before its task is created, one
\* worker runs the tasks one by one, and each run reads the row afresh
\* (sync_mailbox, sync_alias).  The deletion of a mailbox is a task of its
\* aliases, too.  Not promised: items changed with no task, whose address is
\* mixed, a task of which a request ran beside the worker, or whose change is
\* under way.
InStep ==
  \A i \in Items :
    /\ Exists(i) /\ i \notin unsent \cup inline \cup mixed
    /\ \A p \in Runners : ~(run[p].op = "saved" /\ i \in run[p].left)
    /\ \A t \in DOMAIN tasks :
         (tasks[t].on = i \/ (i \in Aliases /\ tasks[t].on = BoxOf[i] /\ tasks[t].op = "delete"))
           => tasks[t].state = "success"
    => hosted[i] = version[i]

\* What was deleted through its own endpoint is gone from the provider and does
\* not come back, whatever task for it was still queued or running
\* (delete_mailbox, delete_alias), unless its address is another row's, too.
DeletedIsGone == \A i \in Items \ mixed : row[i] = "deleted" => hosted[i] = Absent

\* An active email domain has its verification time and, under the name it was
\* created with, an active mapping, also when a row read earlier is saved over
\* it; and no mailbox was ever created in a domain that no verification had
\* found ready (create_mailbox, verify_email_domain).
ActiveIsBacked ==
  /\ \A d \in Domains : domain[d] = "active" =>
       d \in stamped /\ (d \notin renamed => mapping[d] = "active")
  /\ \A m \in Mailboxes : row[m] # "none" => DomainOf[m] \in ready

\* A task whose process is not killed is settled, or its row is gone: none
\* stays pending because the broker was down (_queue_task and its fallbacks).
\* Not promised: tasks of a row that was deleted and saved again.
Unsettled(t) ==
  /\ t \in DOMAIN tasks \ killed
  /\ tasks[t].state \in {"pending", "running"} /\ Exists(tasks[t].on) /\ tasks[t].on \notin restored

MaxRows == MaxTasks + 1 + Cardinality(Domains)

TasksSettle == \A t \in 1..MaxRows : []<>~Unsettled(t)
=============================================================================
