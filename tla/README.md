# Formal model of the webbuilder backend

The backend is a Django modular monolith: a site builder with a CMS, blog, shop, forms, mail hosting and
domains, one relational database (PostgreSQL in production, SQLite by default), a cache used for short locks,
and a database-backed job queue. There is no `ATOMIC_REQUESTS`: every ORM statement commits by itself unless
the code opens `transaction.atomic`. That one fact decides the granularity of every module here: *a
transaction that holds its row locks to the end is one action; a request that only autocommits is split
between what it reads and what it later writes.*

## 1. Inventory

| Component | State it keeps | Operations | Hard behaviour | What makes it correct |
|---|---|---|---|---|
| Cart and checkout (`commerce/services.py`, cart views in `builder/views.py`) | Cart, CartItem, CheckoutSession, StockReservation, Inventory, ProductVariant.inventory, DiscountCode.use_count | edit cart, create / cancel / complete a checkout session, one-step checkout, staff inventory edits | concurrent checkouts for scarce stock, expiry, carts edited while checked out, roll-backs, `max(0, ..)` clamps, a second checkout that writes the same rows from stale copies | counters equal the reservation rows, stock is conserved, one order per session |
| Orders and payments (`commerce/services.py`, `builder/payment_services.py`) | Order, Payment, Refund, Shipment, dedup keys in the cache | payment intents, gateway webhooks, refunds, shipments | webhooks repeated, reordered or lost in a crash; two refunds at once | a paid order stays paid until refunded; refunds never exceed the payment |
| Pricing (`builder/commerce_runtime.py`, `provider/services.py`) | ShippingZone, ShippingRate, TaxRate, DiscountCode | price a cart for an address; staff edit the rows; seeding | rounding in two places, clamps at zero, rows tried in the order of their names, the country `*` | totals add up, a code never costs, the specific row wins, edits are local |
| Job queue (`builder/jobs.py`, `run_jobs`) | Job rows | enqueue with idempotency key, claim, run, retry, clean up | several workers, crash between claim and save, keys that outlive their job | a job is run by one worker at a time, is not lost, is not run after it is done |
| Webhook delivery (`builder/jobs.py`, `jobs/tasks.py`) | WebhookDelivery, retry jobs, cache lock with a TTL | deliver, retry with back-off, requeue of failed deliveries | lock expires under a slow receiver, stale rows saved, retries | delivered stays delivered, attempts are counted, retries end |
| Scheduled publishing (`cms/services.py`, `builder/jobs.py`, `run_scheduler`) | Page/Post status and scheduled_at, publish and revalidation jobs, revisions | publish, unpublish, schedule, scheduler sweep, publish job | reschedule or unpublish while a job is queued; keys without a date | what is due gets published, what was withdrawn does not |
| Workspaces (`builder/workspace_views.py`, `core/models.py`) | memberships, invitations, roles, first-user bootstrap | invite, accept, decline, remove, change role | racing invites, rows read before and written after another's change | an invitation is used once and by the invited, the removed stay removed, suspensions hold, owners are left alone |
| Account security (`shared/auth`) | lockout counters in the cache, one-time tokens, sessions, MFA codes | login, reset, verify, revoke | counters read then written, tokens used twice | a token is used once, a locked account stays locked |
| Subscriptions (`payments/`) | subscription, invoice, plan rows | Stripe webhooks, checkout | events out of order | the newest event wins |
| AI jobs (`provider/`, `shared/ai`) | AIJob rows, quotas, usage records, moderation logs | submit to the queue or run in the request, moderate, ask the provider, meter | quota checked before and recorded after the call, tries of the queue repeat a job, two rows saved apart | the overshoot is bounded, the two rows agree in the end, the provider is not asked without end |
| Mail hosting (`email_hosting/`) | EmailDomain, Mailbox, MailAlias and EmailProvisioningTask rows, the domain's portfolio rows, Celery messages | create, verify, sync, (de)activate, delete | tasks run beside requests that write the same row, broker down, worker killed, partial failure at the provider | what is reported done is what the provider has; deleted stays deleted; a task ends |
| Custom domains (`domains/`, `builder/domain_services.py`) | domains, verification and SSL status | register, verify, renew | DNS answers that change | only verified domains are primary |
| Compliance (`core/compliance.py`) | export and deletion jobs | request, run | run twice, crash midway | a deletion is performed once |
| Analytics (`analytics/`) | events, sessions, daily rollups | ingest, roll up | roll-up run again | no event is counted twice |
| Search index (`builder/jobs.py`, `shared/search`) | SearchDocument rows, Meilisearch | index, remove, on every change of a page, post, product or asset | jobs shared by the changes of a minute, a handler that reads and later writes, whole-row saves | at rest the entry says what the row says |
| Blog and comments, forms, SEO, localisation, experiments, uploads, platform admin, website shells | CRUD rows | CRUD, heuristics | mostly sequential | input validation |

**How the parts interact.** HTTP handlers write rows and call `trigger_webhooks` (after commit), which creates
delivery rows and jobs; handlers of the CMS create publish, search-index and revalidation jobs. `run_jobs`
workers claim jobs from the database and run the handler registered for their type; a handler may create
further jobs. `run_scheduler` sweeps for due content and creates jobs for it. Gateways call webhook views that
update orders and subscriptions. The cache carries only locks and dedup keys, all of which expire.

## 2. The modules and how they fit

```
Tally ──────────────┬── StockClaims   (abstract: what checkout sessions promise)
                    │        ▲ implemented by (INSTANCE ... WITH, ImplementsClaims)
                    ├── Checkout       carts, checkout sessions, reservations, stock, one-step orders
                    └── OrderPayment   intents, gateway webhooks, refunds of one order
JobQueue                               Job rows, runner processes, retries, crashes
   ├── AIJobs       EXTENDS it         AI generation on the queue and in the request, quota
   └── SearchIndex  EXTENDS it         the search entry of one asset
WebhookDelivery                        one delivery and the jobs that try it
Publishing                             one page or post and whatever can publish it
MailHosting                            mail domains, mailboxes, aliases, Celery tasks, the provider
Membership                             members of a workspace and invitations to it
Money ── Pricing                       what a cart costs; zones, rates, taxes and a code
<M>_proofs                             theorems about M;  MC<M>: M's constants for TLC
```

`Jobs_proofs` is about the queue and the two modules that extend it; `Checkout_proofs` also about `StockClaims`
and `Tally`, `Pricing_proofs` also about `Money`.

`Checkout` ends where an order exists; `OrderPayment` begins there (`Price` is the total the checkout was priced
at). `JobQueue` is the machinery under `AIJobs`, `SearchIndex`, `WebhookDelivery` and `Publishing`. The first
two are composed with it step by step: every action is an action of the queue, of the service, or of both at
once. The other two take from it that a job is in the hands of one runner (`SoleRunner`), that it is tried again
or settled (`Drains`, `RetryBudget`), and that `create_job` returns the existing row for a key that has one. A
job is there only "waiting", "in a handler" or "done". `MailHosting` does not use the job queue: its tasks go
through Celery.

### Tally
The sum of a function over a finite set, written as the cardinality of a set of units so that theorems about
it need no recursion. Its lemmas (bounds, change at one point, sum of disjoint tallies) open `Checkout_proofs`;
`OrderPayment_proofs` proves those it needs.

### StockClaims and Checkout (`commerce/services.py`, `commerce/models.py`, cart views of `builder/views.py`)
*State.* The rows Cart, CartItem, CheckoutSession, StockReservation, Inventory, ProductVariant.inventory,
DiscountCode.use_count, each under the source's field name; `req` is what an unlocked request carries from its read
to its write; `refused` records completions that were answered "has expired"; `direct` and `directUses` count what
was ordered without a checkout session. *Actions.* `OpenCart` (get_or_create_cart with its partial unique index),
`AddItem`/`ChangeItem` and `SaveItem` (read and write of the cart views, which run without a transaction),
`RemoveItem`, `StartCheckout`, `PriceCheckout`, `CreateCheckout`/`RefuseCheckout` (the cart is found before the
transaction; inside it the Cart row is locked, but its lines are read twice, once to price them and once to reserve
them), `PassDeadline`, `CancelCheckout`, `CompleteCheckout`, `CompleteOverdue` (whose release of stock is rolled
back with the exception it raises). `PlaceOrder`/`FinishOrder` are the one-step checkout (`create_order_from_cart`):
it looks at the variant's copy of the stock, computes with the objects it has read, and saves order, variants, cart
and discount code one by one without lock, transaction or reservation. `Inventory` rows are created the first time a
variant is touched, and all clamps `max(0, ..)` are kept. *Abstraction.* A price is represented by the lines it was
computed from (`priced`); addresses, taxes and shipping choices are left out; one discount code stands for all. Any
number of requests of one browser are under way at a time (`Threads`); whoever holds the Cart row (`Locked`) keeps
out those who write it or insert a line, not those who save or delete a line that exists. `FinishOrder` writes in
one step what the code saves one after the other: each variant, the cart and the code are written once, and every
claim is about one of them. `StockClaims` has no counters: a claim is granted all its units or none and later gives
them back or sells them. `Checkout` implements it under the mapping open ↦ held, completed ↦ sold, expired ↦
released.

### JobQueue (`builder/jobs.py`, `run_jobs`)
*State.* The Job row (`status`, `due` for scheduled_at ≤ now, `retries`), what each runner process does
(`stage`, `batch`, `current`) and the `retry_count` of its in-memory copy (`copy`), since `job.save()` writes
every column back. *Actions.* `FindMissing`/`InsertJob` (get, then create, with the IntegrityError branch),
`SelectBatch`/`CommitClaim` (select_for_update skip_locked, order by priority, update to RUNNING),
`StartHandler`, `RefuseUnknown`, `SaveResult`, `SaveFailure`, `FailUnsaved`, `Crash`, `Restart`,
`CleanupOldJobs`. The handler itself only returns, raises or dies.

### AIJobs (`shared/ai/service.py`, `provider/models.py`, `handle_ai_generate` of `builder/jobs.py`)
*State.* `ai` (AIJob.status), where each process is in `process_ai_job` (`at`), the AIJob a request has created
and not yet queued (`submitting`) or processes itself (`inline`), the usage records of the quota's scope
(`used`). `calls`, `asked` and `lost` are history: calls of the provider, per AIJob, and those whose record
died with their process. *Actions.* `Submit`, `LookForJob`/`QueueJob` (create_job), then per process `Begin`,
`Refuse` (moderation or quota; a refusal writes a usage record too), `Admit`, `Generate`, `SaveOutcome`,
`RecordUsage`, `Leave`; `Return`, `Raise`, `Unsaved` and `Die` end a handler together with the queue's own
step; `EndInline` ends a request. Exceptions of the provider are caught inside; others go to the queue's retry.
*Abstraction.* One scope and one quota period; token and cost limits work as the request limit does.

### WebhookDelivery (`builder/jobs.py`, `jobs/tasks.py`)
*State.* The delivery row, a Job row per idempotency key (`create`, `retry n`, `task n`), the handler run of each
job with the row it read (`found`, `counted`), the cache lock. *Actions.* One run is `SkipLocked` or `SkipDelivered`
or `Post`, then `Accepted` or `Rejected`, then `Save` or `SaveFails`; `LockExpires` is the 120 s time to live, which
may pass while a run goes on; `Die` is the death of a runner; `RetryWebhookDelivery` is the Celery task. The three
handlers (webhook, automation, integration) are line for line the same steps on three tables: `kind` says which row
it is. *No bound on a request.* A run can outlast the lock: `timeout_seconds` of an automation or integration is any
positive number, and a socket's timeout is one of each operation. `lapses` counts how often that happened; the
properties say how much of what the lock is for is left then (one more run, a resent delivery), and what holds until
it happens.

### Publishing (`cms/services.py`, `cms/views.py`, `builder/views.py`, `builder/jobs.py`, `run_scheduler`)
*State.* `kind`, `status`, `at` (scheduled_at), the publish jobs by key (a date, or `Undated`), the
revalidation jobs by event, the editor's request between read and save (`edit`: the fields it lists and their
values in memory), the sweep's page in hand. *Actions.* Every editor's operation is a read that fills `edit`
(`Begin`) and `FinishRequest` or `RequestFails`; the job is `LoadRow` then `PublishContent` or
`PublishFails`; `ProcessScheduledContent` is the scheduler, `LoadDuePage`/`PublishDuePage` the Celery task
`publish_due_pages`; `Revalidate`, the two cleanups, `Tick`. The views of `cms/views.py` override those of
`builder/views.py` where both exist; the ones that are routed are modelled.
`open` is a history variable: the earliest moment at which an editor allowed the row to be public.

### OrderPayment (`commerce/services.py`, `commerce/views.py`, `builder/payment_services.py`)
*State.* Order.status, payment_status, payment_reference, refunds_total, the sum of the Refund rows; how far each
intent request and refund request is, the latter with what it read of the order (`req`); the cache keys of events
(`seen`, each of which expires after its 7 days: `KeyExpires`), the webhook requests past that key (`handling`) and
the ended ones (`applied`); the gateway's truth (`charge`, `returned`, `events`). *Actions.* `CreateIntent`,
`SaveReference` (twice, as the code saves it twice), `ReceiveEvent`, `KeyExpires`, `HandleEvent`, `HandlerDies`,
`AskRefund`, `GrantRefund`/`RefuseRefund`, `NoteRefund`, `RecordRefund`, `SettleRefund`, `MarkPaid`, `Fulfill`,
`Cancel`. External and marked so: `Pay`, `Decline`, `Refundable`, `GrantRefund`. The gateway charges an intent at
most once, refunds no more than it took and may deliver any event at any time, again and again. `byStaff` is a
history variable. A request that dies is one that never takes its next step.

### MailHosting (`email_hosting/services.py`, `email_hosting/views.py`, `domains/services.py`, `jobs/tasks.py`)
*State.* EmailDomain (`domain`, `stamped` for verified_at), the row the domains app keeps for the same name
(`mapping`), mailbox and alias rows, what they point to and how often their settings were changed (`row`, `parent`,
`version`), what the provider has (`hosted`), the task rows and the broker's queue, for each process the step it is
at with what it read (`run`), and what each PUT or PATCH has read (`edit`). *Actions.* Requests: `CreateDomain`,
`RequestVerification`, `ReadActive`/`InsertMailbox`, `CreateAlias`, `Save`/`RequestSync`, `StartDelete`,
`DestroyDomain` (cascades to the rows), and PUT and PATCH, which create no task: `ReadToEdit`, then `SaveDomain` or
`SaveItem` saves the whole row, with the status a domain had when it was read, with another name, site, address or
destination if the request has one, and inserts the row again if it was deleted meanwhile. `Dispatch` hands a task
to Celery or, when the broker fails, `RunInline` runs it in the request (`NotQueued` for the endpoint that does not
queue). `Take` is the worker: one process, in order, acknowledging first; `Kill` ends a process with its task. The
runs: `Provisioned`, `NotReady`/`MarkVerified`/`Activate`, `Applied`, `DeleteAtProvider` and `DropRow`,
`CallFailed`. `ready`, `renamed`, `mixed`, `restored`, `unsent`, `inline` and `killed` are history. *Abstraction.*
Settings are a version number. The provider (`Accepts`, external) creates an address once and changes or deletes
only what it has; a DNS look-up finds a domain ready or not. The provider knows an address, not a row: as soon as a
row has an address that changed, or that another row has or had (aliases are unique by address *and* destination),
the rows that share it are `mixed`, their calls are taken or refused, and nothing is promised of them. A row deleted
and created again under the same name is another row of the model.

### Membership (`builder/workspace_views.py`, `builder/platform_admin_views.py`, `builder/workspace_services.py`)
*State.* One workspace: who has an account (`registered`), WorkspaceMembership (`member`, with the key of the row),
WorkspaceInvitation (`invite`), and what each web process does for a manager (`req`). `admitted` and `uses` are
history. *Actions.* `Ask` is the check of the manager's role with which each endpoint begins; then `LookForUser`,
`AddMember`, `SettleInvites`, `LookForInvite`, `Renew`, `CreateInvite` (invite), `ReadToChange`/`SaveRole`,
`ReadToRemove`/`DeleteMember`, `ReadPending`/`CancelInvite`, `Refuse`. These endpoints open no transaction, so
that each read and each write is a step; accepting and declining hold the lock of the invitation in a
transaction and are one action each (`Accept`, `Decline`, `MarkExpired`). `EnsureOwner` is
`get_or_create_personal_workspace`, `JoinOnSite` the creation of a site in a workspace the request names, which makes a
superuser a member. The platform's administration opens no transaction either: `StaffCreate` is its get_or_create,
`StaffRead` and `StaffSave` are the read and the save of POST and PATCH, `StaffReadToDelete` and `DeleteMember` those of
DELETE.
*Abstraction.* "admin" stands for the roles that manage members, "editor" for the others. Where the code takes the
newest usable invitation the model takes any. A superuser who is a member acts as a member.

### SearchIndex (`builder/jobs.py`, `shared/search/service.py`, `MediaAssetViewSet` of `builder/views.py`)
*State.* The asset's row (`text`, `trashed`), its SearchDocument (`entry`), what an editing request read (`opened`)
and has yet to queue (`asking`), what each runner's handler has read (`loaded`), the minute of the clock. *Actions.*
Requests: `Open`/`Save` (a PATCH, which saves every column), `Trash`, `RestoreAsset`, `HardDelete`; each then calls
`queue_search_index` (`LookForIndexJob`/`QueueIndexJob`), whose key is operation, asset and minute. The handler is
`Load` then `Index` or `Skip`, or `Remove`; `IndexReturns`, `IndexRaises`, `IndexUnsaved` and `IndexDies` end it
together with the queue's step. The history variable `calm` falls at the races listed under UNCALM in the module:
there the entry does stay wrong (section 6), and everywhere else `CalmAgrees` says it does not. *Abstraction.* One
asset. Meilisearch, written after the row and with its errors swallowed, is left out. The key never fits a job of
another minute, so that the clean-up of old jobs is left out as well.

### Money and Pricing (`builder/commerce_runtime.py`, `commerce/models.py`, `provider/services.py`)
`Money` is the arithmetic: cents, hundredths of a percent for a discount, ten-thousandths for a tax rate, as the
decimal columns hold them; `HalfUp` is `quantize_money`, and `Charge` is `calculate_cart_pricing` once shipping
price, discount and tax rate are found.
*State of `Pricing`.* The zones, rates, taxes and one discount code of a site. *Actions.* What the serializers let
staff save or delete (`PutZone`, `DeleteZone` with its cascade, `PutRate`, ..., whose rows pass `ZoneValid`, `TaxValid`
or `CodeValid`, and whose amounts are at most `MaxAmount`), the code that lapses, and `Seed`, which every request
for the shop's modules runs. *Operators.* `ResolveShippingZone`,
`AvailableRates`, `TaxRate`, `CodeRefused`, `Price` and the provider's own tax (`ProviderTax`). The properties
quantify over every request a shopper can make of the shop as it is.
*Abstraction.* Rows are numbered in the order of their names, by which the code breaks ties; a rename is a deletion
and an addition. `usable` stands for a code's switch, its dates and its limit of uses.

## 3. What the runs check

TLC explores each instance completely (violation runs until the first violation).

| Run | Instance | States | Question |
|---|---|---|---|
| `checkout` | 1 browser with 2 requests at a time, 2 checkout sessions of its cart, 2 variants of which one with backorder, stock 1 each, lines ≤ 1, code usable once | 391 k | Sessions compete for the last unit with each other and with one-step orders, while the cart is edited: are the counters the sums of the rows, is stock conserved, is reserved what was priced, does a session yield one order, and is `StockClaims` implemented, negative stock included? |
| `job_queue` | 2 jobs (one without handler), 2 producers, 2 runners, batch 2, 3 retries, 2 crashes, 2 cleanups | 33 k | Is a job in one hand at a time, within its budget, final once settled, and settled in the end? |
| `ai_jobs` | 2 AIJobs, 1 request process, 2 runners, 2 tries, 1 crash, 1 cleanup, quota 1 | 74 k | How far is the quota overshot, do AIJob and queue job agree, how often is the provider asked? |
| `webhook` | 3 attempts, 2 Celery requeues, 2 expiries of the lock under a run, 1 failing save or death | 516 k | How far do lock, retry keys and stale saves keep the row right when receivers are slow, and does every delivery settle? |
| `publishing` | page or post, 2 dates, 1 failure, with fairness | 220 k | Is nothing public before an editor allowed it; is a scheduled page published, content due for the first time, and are its routes revalidated? |
| `payment` | 2 intents, 2 refund requests (3 of these four are made) of 1 or 2 of price 2, 1 lost handler, 1 declined card, expired key or intervention of the staff | 357 k | Is there no payment without a capture, no refund in the books that was not given back, also when two overlap, and is a capture seen? |
| `mail` | 1 domain, 1 mailbox, 1 alias, 1 web process, 1 PUT or PATCH and the worker, 4 tasks, 1 change each, 1 fault | 475 k | Does the provider have what successful tasks say, does the deleted stay deleted, is an active domain verified, do tasks end? |
| `members` | 2 people, one of them a superuser, 2 invitations, 2 web processes, 3 rows, 1 change by platform staff | 1 390 k | Is an invitation used once and only by the invited, do racing invites stay bounded, does a removed member stay removed and a suspended one suspended? |
| `search` | 1 asset, 2 requests, 2 runners, 2 minutes, 2 changes, 2 tries, 1 crash | 304 k | Is the entry right at rest, whatever the order of changes, retries and crashes, outside the races the module names? |
| `pricing` | the seeded shop and what staff add to it: 3 zones, 4 rates, 3 taxes, 1 code; any 2 edits; carts of 0 to 149.00 | 2.3 k | Do the lines add up to the total, does a code or a smaller cart ever cost more, do the two tax computations agree, which row wins, and what does an edit touch? |
| `checkout_expiry` | 2 browsers with a cart each, 2 checkout sessions, 1 variant, lines ≤ 2 | violated | finding 1 |
| `publishing_again` | as `publishing`, no failure | violated | finding 2 |

**Bounds and why they suffice.** All bounds are constants. One unit, two requests and two checkout sessions are the
least with which one session can be refused because of the other, or be deprived by a one-step order; two variants
let a session hold some of each, and the backordered one go below zero. Sessions of one cart
compete for stock as those of two customers do, and for the cart besides; that two carts are priced at the same time
is left to the theorems.
Two runners and two jobs with a batch of two give every overlap of two claims; three retries separate first, middle
and last failure; two crashes let the restarted process die again. A quota of one with three processes lets two be
past the check of the third. Three attempts separate first, middle and last attempt of a delivery; two requeues let
a requeued job meet both a running and a settled delivery; with two expiries three runs overlap. Two dates are the
least with which a page can be rescheduled. Price 2 is the least that can be refunded in part and by two requests
that overlap, two intents the least with which the reference can move. Four tasks are a domain's, its verification,
a mailbox's and one that overlaps them, or an alias's; with one mailbox and one alias no address is shared, which
the theorems cover. Two web processes and two invitations are the least with which invites race; one change by staff
suspends or promotes a member, three rows let a member be removed and come back. Two changes and two minutes let the
jobs of a change and of its reversal share a minute or not, and two runners let them overtake each other. Two edits
of the shop are the least that make two rows compete and then change or delete one; its amounts are those at which a
half cent, a clamp or a minimum bites (0, 0.01, 1.49, 1.50). The safety results do not depend on these numbers:
section 5 proves every invariant and action property of the passing runs for all values of the constants.
`MaxAmount` bounds no event: it is the largest amount a column holds. `MaxCrashes`, `MaxCleanups`, `MaxTasks`,
`MaxEdits`, `MaxChanges`, `LastMinute`, `MaxFaults`, `MaxLapses`, `MaxOthers`, `MaxAsked`, `MaxRows`, `MaxRequests`,
`MaxTime` bound events the code does not bound.

**Deadlock** is checked in `pricing`, where seeding is always possible. Elsewhere it is not: with finitely many
ids, dates and attempts each instance may come to rest.

**Symmetry** is used in safety runs only: `Ids` of `MCCheckout` over checkout ids and over requests, `CustomersToo`
also over the two customers, each with their cart; `MCSymmetry` of `MCAIJobs` over jobs of one priority, runners and
requests, and that of `MCMembership` over invitations and web processes; that of `MCSearchIndex` over runners and
requests. One run has a view: `MCView` of `MCMembership` leaves out the role and the deadline of an invitation that is
accepted, revoked or expired, which no action and no property reads and which never becomes pending again.

**Mutants.** For each property of a passing run there is a variant of one mapped definition (`<Name>_<How>`,
commented *Mutant*) which breaks it under the same configuration: a dropped lock, a comparison off by one, a
column left out of a save, a key that leaves something out.

## 4. Fairness

Only what the deployment guarantees is assumed. `run_jobs --daemon` and `run_scheduler` loop for ever, catch
exceptions and are restarted by the container (weak fairness of a runner's step and of `Restart`). Handlers end:
every exchange with a receiver or a provider ends some time, be it after a long one. Time passes (`BecomeDue`,
`Tick`). A producer that has begun inserts (`InsertJob`); an editor's request ends (`FinishRequest`). The gateway
repeats the delivery of a capture until it is answered (`ReceiveEvent` of that event; the code answers 400 on any
exception), and its handler ends. The mail worker takes what the broker holds, and a process of the mail service
that is not killed goes on (`Take`, `Step`). Nothing is assumed of customers, editors or staff, of failed or refund
events, of the Celery tasks that publish (which are configured apart from the runners), or that an intent's or
refund's request goes on.

Liveness properties carry the escape the code needs: `Drains` and `CaptureSeen` hold until a process dies,
`ScheduleKept`, `FirstTimePublished` and `FirstTimeRevalidated` until a step fails halfway, `Settles` also until the
lock of a delivery expires under a run, `TasksSettle` for tasks whose process was not killed and whose row is still
there and was not deleted in between. What happens then is a
finding or is told in section 6.

## 5. What is proved

TLAPS checks every theorem of the `_proofs` modules for all values of the constants that satisfy the named
ASSUME of the module. The argument in each case is an inductive invariant; it was first checked by TLC.

* **Checkout** – `CheckoutInv == TypeOK /\ LifeCycle /\ Counters /\ Copies`. `ReservedIsSum` alone is not inductive:
  that `reserved` goes down by exactly what a reservation holds, with the clamp at zero never biting, needs to know
  which reservations a session in each status can have (`LifeCycle`) and `Reserved <= OnHand`. That the one-step
  checkout disturbs none of it needs `Copies`: the variant's copy stands for the stock only where nothing was ever
  reserved, and what a pending order will write to it lies between zero and the stock. `Typing`, `ReservedExact`,
  `Conservation`, `NoOverselling`, `ReservationLife` follow; `PricedHeld` adds `WindowClosed`: while a request holds
  the Cart row, the cart can lose lines it was priced from but get no others, and the loss of one is what the save
  of the priced lines fails on; `OrderOnce` adds `UsesCounted` (no `use_count`, saved or in a request's memory, is
  ahead of the sales); `ClosedIsFinal` is an action property; `Refinement` maps every step to a step of
  `StockClaims` or a stutter.
* **StockClaims** (in `Checkout_proofs`) – `Promise`: units held and sold never exceed the stock of a limited
  variant. It is stated about the abstract specification; `PromiseKept` carries it through `Refinement` to the
  sessions of `Checkout`.
* **JobQueue** (in `Jobs_proofs`) – `JobInv == JobTypeOK /\ Hands /\ Apart /\ Budget`: where each batch stands
  (`Hands`), that batches are disjoint (`Apart`), and how many of a row's runs its `retry_count` accounts for
  (`Budget`). `Exclusive`, `Budgeted`, `SettledFinal`, for any number of runners, crashes and cleanups.
* **AIJobs** (in `Jobs_proofs`) – `AIRefinesQueue`: `AISpec` implements `JobQueue`'s `Spec`, so that `JobInv` and
  every theorem of the queue hold under it. On top, `AIInv == JobInv /\ AITypeOK /\ Places /\ Metered`: whose AIJob
  each process has and how far it is (`Places`); every call of the provider is recorded, owed by one process or
  lost, and at most one per process is admitted and unrecorded (`Metered`). `QuotaBound`, `OutcomeKept`;
  `ProviderAsked` adds `Asked`, which compares the calls for an AIJob with the runs of its queue job.
* **SearchIndex** (in `Jobs_proofs`) – `SearchRefinesQueue`: `SearchSpec` implements `JobQueue`'s `Spec`, too.
  `CalmAgrees` speaks of rest only, and how the entry comes to be right at rest is in `CalmInv`. While no race
  named in the module has happened, everything asked for, queued or running is of the one operation that would set
  the entry right (`OneAim`), a handler has read the row as it is and one that is through leaves the entry right
  (`HandlersAgree`), and while the entry is wrong there is work left (`WorkLeft`). `EntryAgrees`.
* **WebhookDelivery** – `Bounded` holds always, slow receivers, deaths and failing saves included: the runs under way
  are those that outlasted their lock and the one that has it, and each request is a key of the delivery or of a
  requeue, or has cost a fault (`Budget`). It gives `DeliveryTyping`, `SendersExclude` and the bound of `AttemptsExact`.
  `Locking` says what the lock protects as long as it has not expired under a run (one run, whose memory agrees with a
  delivered row) and gives `DeliveredFinal`; `Counting` adds, until something fails, where the next attempt comes from,
  for the exact count in `AttemptsExact` and for `NeverForgotten`.
* **Publishing** – `PublishInv == PublishTypeOK /\ Allowed`: whatever can lead to a publication (the date of
  the row, a job, a row held by a job or the sweep, an editor's request) was allowed. `EmbargoKept`.
* **OrderPayment** – `PaymentInv`: every event is true of the gateway (`Truthful`), every payment status in the row
  or in a request's memory is backed (`Backed`), a total in memory is never ahead of the rows (`Memory`), and rows
  plus granted but unbooked refunds never exceed what was given back (`Books`). `PaidOnlyIfCaptured`,
  `RefundsAreBacked`, for any number of intents and refunds, and however often an event is handled.
* **MailHosting** – `MailInv`. A task is in one place at most, the queue or a process, and is not "success" while it
  is there (`Once`, `Open`). What an activation or an insert in hand rests on stays true until it is written
  (`Backed`), although other processes change the domain meanwhile, and so does what a PUT or PATCH has read
  (`EditBacked`): `ActiveBacked`. An item is created at the provider by one task, which is spent before anything can
  be deleted there, and what a deletion has deleted stays away (`Deletions`): `DeletedForGood`, which covers tasks
  that run late and stale rows that are saved. An item out of step is owed a task that has not succeeded, and if the
  worker is about to apply settings that have changed since it read them, another one besides its own (`Owing`):
  `ProviderInStep`. Both leave out the rows that share an address (`mixed`). For any number of domains, rows,
  processes, edits and faults.
* **Membership** – `MemberInv`. What a request has read stays true of the rows it is about to write (`InHand`), a
  membership has the key of an earlier insert (`Keyed`, without which a stale removal could hit a new row), an
  invitation that made a membership is never pending again (`Spent`). `TokensBounded` counts the usable tokens of an
  address together with those being renewed against the processes; `FewTokens`, `TokensUsedOnce`, and the action
  properties `RemovalHolds` and `SuspensionStays`.
* **Money and Pricing** (in `Pricing_proofs`) – rounding is monotone (`HalfUpMonotone`), and where a whole cent is
  added to what a fraction is taken from, the rounded fraction grows by a cent at most (`HalfUpStep`). Hence a
  discount lies between zero and the goods (`OffGoodsBounds`), grows no faster than they do (`OffGoodsStep`), and no
  clamp of `Charge` ever bites (`ChargeLines`): `ChargeAddsUp`, `CodeSaves`, `MoreGoodsCostMore`. That the rows of a
  shop give `Charge` valid arguments is the invariant `PricingTypeOK` (`PricingTyping`). The first row that fits and
  the cheapest rate are least elements of sets of numbers, which exist because < is well-founded (`LeastNumber`).
  Together: `LinesAddUp`, `PricesGrow`, `SpecificFirst`, and of every edit `OthersUnchanged`, for any shop, cart
  and largest amount.

Every invariant and every action property of a passing run is proved. Only model-checked are the leads-to properties
(`Drains`, `Settles`, `ScheduleKept`, `FirstTimePublished`, `FirstTimeRevalidated`, `CaptureSeen`, `TasksSettle`),
since the prover has no reasoning about ENABLED, and the violations. Proved, and therefore in no run: the type
invariants other than `MailTypeOK`, `MemberTypeOK` and `PricingTypeOK`; `ReservationFollowsCheckout` and
`ClosedStaysClosed` of `Checkout`, `NotForgotten` of `WebhookDelivery`.

## 6. Findings and observations

Findings (each has a run with a counterexample):

1. *An overdue checkout keeps its stock* (`checkout_expiry`). `create_order_from_checkout` releases the
   reservations of an overdue session and raises in the same transaction, which rolls the release back. No
   job looks for overdue sessions, so the units stay reserved until a member of staff cancels.
2. *Content scheduled a second time is not published* (`publishing_again`): the undated job is keyed by the
   row only, and `create_job` returns the completed one.

Seen while modelling, with no run of their own because no document of the repository says otherwise, because
they have the cause of a finding, or because a property states its own limit:

* *Queue.* A process that dies after the claim leaves up to a batch of jobs RUNNING, and nothing ever looks
  for RUNNING rows: they are neither tried again nor cleaned up nor, as their keys exist, created again.
* *Shop.* What the one-step checkout sells stays on hand: it lowers ProductVariant.inventory, the next write of
  Inventory copies `on_hand` back over it, and a checkout session sells the units again. The order lists the cart as
  of its completion, not as priced; and as the lines are read once to price and once to reserve them, without a
  lock, a session can be charged for one quantity of a line and hold another when a save of the browser falls in
  between. `max_uses` of a code is checked when pricing and counted on completion; the one-step checkout writes back
  the count it read and can undo others', and ignores what checkout sessions hold.
* *Prices.* The rate of an order's TaxRecord is rounded to cents (8.25 % becomes 0.08) and its taxable amount
  ignores the discount (`commerce/services.py:509`). A country no zone serves, or a zone without rates, ships free
  and ignores the rate asked for. A negative shipping price is accepted and charged as zero. A cart of zero passes
  any minimum, an unknown code is ignored without a word, and `*` is no wildcard for taxes. A PATCH of a code writes
  back the `use_count` it read. Seeding, which requests run, restores deleted seed rows and a zone's countries.
* *Payments.* Of two overlapping refunds the later save of the order loses the other's amount from
  `refunds_total`. A gateway event handled after a later one overwrites it (a late failure un-pays an order); an
  event whose handler dies is answered as a duplicate until its key expires, and one delivered again after that is
  handled again (a capture's puts a refunded or failed order back to paid); each request for an intent opens a new one,
  and a payment of the earlier one is not found; webhooks never update Payment rows; staff actions have no guard
  on the order's status.
* *Webhooks.* A save that fails after the receiver accepted leaves the cache lock and, as the job's next run is
  skipped as locked and ends as completed, the delivery pending for ever; the Celery requeue goes beyond
  `max_attempts`; a receiver slower than the lock (`timeout_seconds` has no upper limit, and a socket's timeout starts
  anew with every piece of the answer) lets runs overlap: the late one saves its stale row over a delivered one and
  deletes the lock of the next, the delivery is sent again, and a count is lost.
* *Publishing.* The second publication of a page enqueues no revalidation of its routes, for the same reason as
  finding 2 (the key is made of site, event and paths). Leftover publish jobs of earlier dates can publish after
  an unpublish that raced them; whole-row saves (`save_builder`, PATCH, snapshot restore) undo a schedule made
  meanwhile; the scheduler's query on Product raises on every tick because Product has no `scheduled_at`. Publishing
  a page of a site without a home page saves the path "/" and not the flag `is_homepage`, which is set in memory only.
* *Search.* `queue_search_index` is said to be for "eventual consistency" (`builder/jobs.py:161`). What a handler
  read before a change it may write after it; a second edit within the minute, asked for when the first one's job
  has run, is answered with that job; in both cases the entry stays behind until the next edit. `handle_search_index`
  does not look at `deleted_at`, and the editor's search lists trashed assets (`builder/views.py:625-632`). A PATCH
  that overlaps a deletion undoes it. Pages, posts and products never ask for the removal of their entries, and
  errors of Meilisearch are swallowed. The key of `enqueue_search_index` in `shared/queue`, which lacks the minute,
  would block every second edit; nothing calls it.
* *AI.* The quota is overshot by up to one call per process; refusals use it up, too; a request that stops
  after creating its AIJob leaves it queued with no job; `enqueue_ai_job` has no callers; a retry can turn the
  outcome of an AIJob that had already ended.
* *Members.* `cancel_invitation` finds the invitation pending and saves "expired" after it may have been
  accepted or declined. `change_role` and `remove_member` look at the role of the row they have read; staff who
  make that member an owner meanwhile are overruled by the save or the deletion. Racing invites leave several
  usable tokens for one address, up to one per process; registering takes no notice of invitations; an owner
  whose membership staff removed is a member again on making a site. Staff who POST no status write back the one they
  read, over a suspension made meanwhile. A member who names a workspace when making a site gets an error unless they
  are a superuser: the permission is looked up for a site that is not saved yet (`builder/workspace_views.py:531-545`).
* *Mail.* PUT and PATCH change the row and tell the provider nothing (`unsent`): a renamed domain stays active and
  stamped under a name that nobody verified and no mapping has, a mailbox moves to a domain that was never verified,
  and what had been deleted when the row is saved is there again, with its tasks abandoned and without a copy at the
  provider. Aliases of one address with several destinations are one entry at the provider, and the last one wins.
  With the broker down a request runs its task beside the worker and the later save wins at the provider whichever
  settings it had read (`inline`); deleting a domain removes its rows and leaves the mailboxes at the provider; a
  deletion that fails halfway leaves a mailbox that a strict provider never lets be deleted; a verification that
  fails writes back the `verified_at` it had read; `verify_pending_email_domains`, described as periodic, is
  scheduled by nothing; a killed worker loses the task it had acknowledged.

## 7. What is not modelled

*Within the modelled components:* the staff's inventory edits (a serializer writes `on_hand` and `reserved` without
a lock: every claim about the counters ends there), Payment and Shipment rows, reviews, translations, paths and the
homepage flag of a site, the fan-out of an event to its webhooks, webhook statistics; the period, reset and first
creation of an AI quota and the clean-up of usage records after 90 days; the members of single sites, the deletion
of a workspace and suspended accounts; the mail operations without callers (`provision_domain`,
`queue_*_provisioning`), the endpoints of the domains app that change or delete a mapping, which `ActiveIsBacked`
would not survive, and what the provider has under a shared address. *Components without a module:* account
security, subscriptions, compliance, analytics, custom domains and experiments have logic worth a model and are in
the plan below. Rendering, validation and normalisation of page documents, the ranking of search results, SEO and AI
text processing, uploads and storage, serializers, permissions of single views, platform admin, migrations, settings
and scripts, which are the larger part of the repository's lines, are pure data transformation, I/O or CRUD on
single rows, whose failures unit tests reach. PROJECT.json lists every component with its status. *Assumptions about
the platform:* PostgreSQL's row locks and READ COMMITTED (on SQLite, `skip_locked` is not available and the code
claims under a plain transaction); an atomic `cache.add` (a shared Redis or Memcached: with the per-process memory
cache the locks of `WebhookDelivery` and `OrderPayment` would not hold between processes); one Celery worker with a
solo pool, as the deployment starts it.

## 8. Plan

Done: `Tally`, `StockClaims`, `Checkout` with the one-step checkout, `JobQueue`, `AIJobs`, `SearchIndex`,
`WebhookDelivery`, `Publishing`, `OrderPayment`, `MailHosting`, `Membership`, `Money` and `Pricing`, with their
proofs. Next, in this order:

1. `Accounts`: lockout counters in the cache, single-use tokens, sessions and MFA codes.
2. `Subscription`: billing webhooks out of order and repeated (`payments/`).
3. `Compliance` and `Rollup`: export and deletion jobs, daily roll-ups that are run again.
4. `Domains` and `PageRoutes`: which domain is primary, which page is the home page, and which path a page has.
5. An abstract specification of "a keyed job is run to its end once per request" that `JobQueue` implements
   until a crash, for `WebhookDelivery`, `Publishing` and `SearchIndex` to be stated over.
